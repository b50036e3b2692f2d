------------------------- MODULE WsSessionsProofs -------------------------
(***************************************************************************)
(* Proofs about WsSessions: its inductive invariant, and with it that no   *)
(* event reaches a lost session and that refusals are right.               *)
(***************************************************************************)
EXTENDS WsSessions, TLAPS

\* A session once lost stays lost: a token is not given back, and a socket accepted as
\* a token's first user is never the one it is passed to.
Final == \A k \in Socket : Lost(k) => Lost(k)'

\* What one step may do to a check: leave it, end it, begin it for something that is
\* under way, or decide it as the session stands.
CheckMoves(k, x) ==
    \/ check'[k][x] \in {check[k][x], "none"}
    \/ /\ x \in Event => issued[x] # None
       /\ check'[k][x] \in {"asked", "tokenless", "failed", Verdict(k)}

\* A disconnection for a lost session is for one that is lost.
DropsMove == \A k \in Socket : dropped'[k] = "lost" => dropped[k] = "lost" \/ Lost(k)

\* Steps that move checks only as above keep what is decided on them right.
LEMMA ChecksStayRight ==
  ASSUME WsInv, Final, DropsMove, UNCHANGED <<withheld, delivered>>,
         \A k \in Socket, x \in Purpose : CheckMoves(k, x),
         \A e \in Event : issued'[e] = None => issued[e] = None
  PROVE  InFlight' /\ NothingAfterLoss' /\ RefusalsAreRight'
<1>1. ASSUME NEW k \in Socket, NEW x \in Purpose, check'[k][x] = "lost"
      PROVE  Lost(k)'
  BY <1>1 DEF WsInv, RefusalsAreRight, CheckMoves, Verdict, Final
<1>2. ASSUME NEW k \in Socket, NEW e \in Event
      PROVE  /\ k \in withheld'[e] => Lost(k)'
             /\ check'[k][e] = "valid" => k \notin withheld'[e]
             /\ issued'[e] = None => check'[k][e] = "none" /\ e \notin delivered'[k]
  <2>1. e \in Purpose
    BY DEF Purpose
  <2>2. CheckMoves(k, e)
    BY <2>1
  <2> QED
    BY <2>1, <2>2 DEF WsInv, InFlight, CheckMoves, Verdict, Final
<1>3. NothingAfterLoss'
  BY DEF WsInv, NothingAfterLoss
<1>4. \A k \in Socket : dropped'[k] = "lost" => Lost(k)'
  BY DEF WsInv, RefusalsAreRight, DropsMove, Final
<1> QED
  BY <1>1, <1>2, <1>3, <1>4 DEF InFlight, RefusalsAreRight

\* A revocation keeps the invariant.
LEMMA RevokeKeeps ==
  ASSUME WsInv, NEW s \in Session, Revoke(s)
  PROVE  WsInv'
<1>1. TypeOK'
  BY WsAssumption DEF WsInv, TypeOK, Purpose, Target, Close, Checks, Verdict, world, door,
     rooms, news, Revoke
<1>2. AcceptedAsOwner'
  <2>1. ASSUME NEW k \in Socket
        PROVE  SessionOf[k] \in Session /\ FirstOwner[SessionOf[k]] # None
    <3>1. SessionOf[k] \in Session
      BY WsAssumption
    <3>2. FirstOwner[SessionOf[k]] \in User
      BY <3>1, WsAssumption
    <3> QED
      BY <3>1, <3>2, WsAssumption
  <2>2. ASSUME NEW k \in Socket
        PROVE  owner'[SessionOf[k]] \in {owner[SessionOf[k]], None}
    BY <2>1 DEF WsInv, TypeOK, Revoke
  <2> QED
    BY <2>1, <2>2 DEF WsInv, AcceptedAsOwner, door, Revoke
<1>3. Final
  BY WsAssumption DEF WsInv, TypeOK, Final, Lost, world, door, Revoke
<1>4. \A k \in Socket, x \in Purpose : CheckMoves(k, x)
  BY WsAssumption DEF WsInv, TypeOK, CheckMoves, Purpose, Target, Close, Checks, Revoke
<1>5. DropsMove /\ UNCHANGED <<withheld, delivered>> /\ \A e \in Event : issued'[e] = None => issued[e] = None
  BY WsAssumption DEF DropsMove, WsInv, TypeOK, Target, news, Revoke
<1> QED
  BY <1>1, <1>2, <1>3, <1>4, <1>5, ChecksStayRight DEF WsInv

\* A token that passes to another user keeps the invariant.
LEMMA ReassignKeeps ==
  ASSUME WsInv, NEW s \in Session, NEW u \in User, Reassign(s, u)
  PROVE  WsInv'
<1>1. TypeOK'
  BY WsAssumption DEF WsInv, TypeOK, Purpose, Target, Close, Checks, Verdict, world, door,
     rooms, news, Reassign
<1>2. AcceptedAsOwner'
  BY WsAssumption DEF WsInv, TypeOK, AcceptedAsOwner, Close, world, door, Reassign
<1>3. Final
  <2> SUFFICES ASSUME NEW k \in Socket, Lost(k)
               PROVE  Lost(k)'
    BY DEF Final
  <2>1. CASE SessionOf[k] # s
    BY <2>1, WsAssumption DEF WsInv, TypeOK, Lost, door, Reassign
  <2>2. CASE SessionOf[k] = s
    <3>1. owner[s] # None
      BY WsAssumption DEF Reassign
    <3>2. data[k] \in {None, owner[s]}
      BY <2>2 DEF WsInv, AcceptedAsOwner, Reassign
    <3> QED
      BY <2>2, <3>1, <3>2 DEF Lost
  <2> QED
    BY <2>1, <2>2
<1>4. \A k \in Socket, x \in Purpose : CheckMoves(k, x)
  BY WsAssumption DEF WsInv, TypeOK, CheckMoves, Purpose, Target, Close, Checks, Reassign
<1>5. DropsMove /\ UNCHANGED <<withheld, delivered>> /\ \A e \in Event : issued'[e] = None => issued[e] = None
  BY WsAssumption DEF DropsMove, WsInv, TypeOK, Target, news, Reassign
<1> QED
  BY <1>1, <1>2, <1>3, <1>4, <1>5, ChecksStayRight DEF WsInv

\* A user who leaves the project keeps the invariant.
LEMMA RemoveReaderKeeps ==
  ASSUME WsInv, NEW u \in User, RemoveReader(u)
  PROVE  WsInv'
<1>1. TypeOK'
  BY WsAssumption DEF WsInv, TypeOK, Purpose, Target, Close, Checks, Verdict, world, door,
     rooms, news, RemoveReader
<1>2. AcceptedAsOwner'
  BY WsAssumption DEF WsInv, TypeOK, AcceptedAsOwner, Close, world, door, RemoveReader
<1>3. Final
  BY DEF Final, Lost, world, door, RemoveReader
<1>4. \A k \in Socket, x \in Purpose : CheckMoves(k, x)
  BY WsAssumption DEF WsInv, TypeOK, CheckMoves, Purpose, Target, Close, Checks, RemoveReader
<1>5. DropsMove /\ UNCHANGED <<withheld, delivered>> /\ \A e \in Event : issued'[e] = None => issued[e] = None
  BY WsAssumption DEF DropsMove, WsInv, TypeOK, Target, news, RemoveReader
<1> QED
  BY <1>1, <1>2, <1>3, <1>4, <1>5, ChecksStayRight DEF WsInv

\* A new connection keeps the invariant.
LEMMA ConnectKeeps ==
  ASSUME WsInv, NEW j \in Socket, Connect(j)
  PROVE  WsInv'
<1>1. TypeOK'
  BY WsAssumption DEF WsInv, TypeOK, Purpose, Target, Close, Checks, Verdict, world, door,
     rooms, news, Connect
<1>2. AcceptedAsOwner'
  BY WsAssumption DEF WsInv, TypeOK, AcceptedAsOwner, Close, world, door, Connect
<1>3. Final
  BY DEF Final, Lost, world, door, Connect
<1>4. \A k \in Socket, x \in Purpose : CheckMoves(k, x)
  BY WsAssumption DEF WsInv, TypeOK, CheckMoves, Purpose, Target, Close, Checks, Connect
<1>5. DropsMove /\ UNCHANGED <<withheld, delivered>> /\ \A e \in Event : issued'[e] = None => issued[e] = None
  BY WsAssumption DEF DropsMove, WsInv, TypeOK, Target, news, Connect
<1> QED
  BY <1>1, <1>2, <1>3, <1>4, <1>5, ChecksStayRight DEF WsInv

\* The authority's answer to a connection keeps the invariant.
LEMMA GrantConnectionKeeps ==
  ASSUME WsInv, NEW j \in Socket, GrantConnection(j)
  PROVE  WsInv'
<1>1. TypeOK'
  BY WsAssumption DEF WsInv, TypeOK, Purpose, Target, Close, Checks, Verdict, world, door,
     rooms, news, GrantConnection
<1>2. AcceptedAsOwner'
  BY WsAssumption DEF WsInv, TypeOK, AcceptedAsOwner, Close, world, door, GrantConnection
<1>3. Final
  BY DEF Final, Lost, world, door, GrantConnection
<1>4. \A k \in Socket, x \in Purpose : CheckMoves(k, x)
  BY WsAssumption DEF WsInv, TypeOK, CheckMoves, Purpose, Target, Close, Checks, GrantConnection
<1>5. DropsMove /\ UNCHANGED <<withheld, delivered>> /\ \A e \in Event : issued'[e] = None => issued[e] = None
  BY WsAssumption DEF DropsMove, WsInv, TypeOK, Target, news, GrantConnection
<1> QED
  BY <1>1, <1>2, <1>3, <1>4, <1>5, ChecksStayRight DEF WsInv

\* A rejected connection keeps the invariant.
LEMMA RejectConnectionKeeps ==
  ASSUME WsInv, NEW j \in Socket, RejectConnection(j)
  PROVE  WsInv'
<1>1. TypeOK'
  BY WsAssumption DEF WsInv, TypeOK, Purpose, Target, Close, Checks, Verdict, world, door,
     rooms, news, RejectConnection
<1>2. AcceptedAsOwner'
  BY WsAssumption DEF WsInv, TypeOK, AcceptedAsOwner, Close, world, door, RejectConnection
<1>3. Final
  BY DEF Final, Lost, world, door, RejectConnection
<1>4. \A k \in Socket, x \in Purpose : CheckMoves(k, x)
  BY WsAssumption DEF WsInv, TypeOK, CheckMoves, Purpose, Target, Close, Checks, RejectConnection
<1>5. DropsMove /\ UNCHANGED <<withheld, delivered>> /\ \A e \in Event : issued'[e] = None => issued[e] = None
  BY WsAssumption DEF DropsMove, WsInv, TypeOK, Target, news, RejectConnection
<1> QED
  BY <1>1, <1>2, <1>3, <1>4, <1>5, ChecksStayRight DEF WsInv

\* An accepted connection keeps the invariant.
LEMMA AcceptConnectionKeeps ==
  ASSUME WsInv, NEW j \in Socket, AcceptConnection(j)
  PROVE  WsInv'
<1>1. TypeOK'
  BY WsAssumption DEF WsInv, TypeOK, Purpose, Target, Close, Checks, Verdict, world, door,
     rooms, news, AcceptConnection
<1>2. AcceptedAsOwner'
  BY WsAssumption DEF WsInv, TypeOK, AcceptedAsOwner, Close, world, door, AcceptConnection
<1>3. Final
  BY WsAssumption DEF WsInv, TypeOK, AcceptedAsOwner, Final, Lost, world, door, AcceptConnection
<1>4. \A k \in Socket, x \in Purpose : CheckMoves(k, x)
  BY WsAssumption DEF WsInv, TypeOK, CheckMoves, Purpose, Target, Close, Checks, AcceptConnection
<1>5. DropsMove /\ UNCHANGED <<withheld, delivered>> /\ \A e \in Event : issued'[e] = None => issued[e] = None
  BY WsAssumption DEF DropsMove, WsInv, TypeOK, Target, news, AcceptConnection
<1> QED
  BY <1>1, <1>2, <1>3, <1>4, <1>5, ChecksStayRight DEF WsInv

\* A broken connection keeps the invariant.
LEMMA HangUpKeeps ==
  ASSUME WsInv, NEW j \in Socket, HangUp(j)
  PROVE  WsInv'
<1>1. TypeOK'
  BY WsAssumption DEF WsInv, TypeOK, Purpose, Target, Close, Checks, Verdict, world, door,
     rooms, news, HangUp
<1>2. AcceptedAsOwner'
  BY WsAssumption DEF WsInv, TypeOK, AcceptedAsOwner, Close, world, door, HangUp
<1>3. Final
  BY DEF Final, Lost, world, door, HangUp
<1>4. \A k \in Socket, x \in Purpose : CheckMoves(k, x)
  BY WsAssumption DEF WsInv, TypeOK, CheckMoves, Purpose, Target, Close, Checks, HangUp
<1>5. DropsMove /\ UNCHANGED <<withheld, delivered>> /\ \A e \in Event : issued'[e] = None => issued[e] = None
  BY WsAssumption DEF DropsMove, WsInv, TypeOK, Target, news, HangUp
<1> QED
  BY <1>1, <1>2, <1>3, <1>4, <1>5, ChecksStayRight DEF WsInv

\* The authority's answer to a check keeps the invariant.
LEMMA AnswerKeeps ==
  ASSUME WsInv, NEW j \in Socket, NEW x \in Purpose, Answer(j, x)
  PROVE  WsInv'
<1>1. TypeOK'
  BY WsAssumption DEF WsInv, TypeOK, Purpose, Target, Close, Checks, Verdict, world, door,
     rooms, news, Answer
<1>2. AcceptedAsOwner'
  BY WsAssumption DEF WsInv, TypeOK, AcceptedAsOwner, Close, world, door, Answer
<1>3. Final
  BY DEF Final, Lost, world, door, Answer
<1>4. \A k \in Socket, y \in Purpose : CheckMoves(k, y)
  <2> SUFFICES ASSUME NEW k \in Socket, NEW y \in Purpose
               PROVE  CheckMoves(k, y)
    OBVIOUS
  <2>1. CASE k = j /\ y = x
    BY <2>1 DEF WsInv, TypeOK, InFlight, CheckMoves, Answer
  <2>2. CASE ~(k = j /\ y = x)
    BY <2>2 DEF WsInv, TypeOK, CheckMoves, Answer
  <2> QED
    BY <2>1, <2>2
<1>5. DropsMove /\ UNCHANGED <<withheld, delivered>> /\ \A e \in Event : issued'[e] = None => issued[e] = None
  BY WsAssumption DEF DropsMove, WsInv, TypeOK, Target, news, Answer
<1> QED
  BY <1>1, <1>2, <1>3, <1>4, <1>5, ChecksStayRight DEF WsInv

\* A check without an answer keeps the invariant.
LEMMA UnavailableKeeps ==
  ASSUME WsInv, NEW j \in Socket, NEW x \in Purpose, Unavailable(j, x)
  PROVE  WsInv'
<1>1. TypeOK'
  BY WsAssumption DEF WsInv, TypeOK, Purpose, Target, Close, Checks, Verdict, world, door,
     rooms, news, Unavailable
<1>2. AcceptedAsOwner'
  BY WsAssumption DEF WsInv, TypeOK, AcceptedAsOwner, Close, world, door, Unavailable
<1>3. Final
  BY DEF Final, Lost, world, door, Unavailable
<1>4. \A k \in Socket, y \in Purpose : CheckMoves(k, y)
  BY WsAssumption DEF WsInv, TypeOK, CheckMoves, Purpose, Target, Close, Checks, Unavailable
<1>5. DropsMove /\ UNCHANGED <<withheld, delivered>> /\ \A e \in Event : issued'[e] = None => issued[e] = None
  BY WsAssumption DEF DropsMove, WsInv, TypeOK, Target, news, Unavailable
<1> QED
  BY <1>1, <1>2, <1>3, <1>4, <1>5, ChecksStayRight DEF WsInv

\* A disconnection keeps the invariant.
LEMMA DisconnectKeeps ==
  ASSUME WsInv, NEW j \in Socket, NEW x \in Purpose, Disconnect(j, x)
  PROVE  WsInv'
<1>1. TypeOK'
  BY WsAssumption DEF WsInv, TypeOK, Purpose, Target, Close, Checks, Verdict, world, door,
     rooms, news, Disconnect
<1>2. AcceptedAsOwner'
  BY WsAssumption DEF WsInv, TypeOK, AcceptedAsOwner, Close, world, door, Disconnect
<1>3. Final
  BY DEF Final, Lost, world, door, Disconnect
<1>4. \A k \in Socket, y \in Purpose : CheckMoves(k, y)
  BY WsAssumption DEF WsInv, TypeOK, CheckMoves, Purpose, Target, Close, Checks, Disconnect
<1>5. UNCHANGED <<withheld, delivered>> /\ \A e \in Event : issued'[e] = None => issued[e] = None
  BY WsAssumption DEF WsInv, TypeOK, Target, news, Disconnect
<1>6. DropsMove
  <2>1. \A k \in Socket : dropped'[k] = IF k = j THEN check[j][x] ELSE dropped[k]
    BY DEF WsInv, TypeOK, Disconnect
  <2>2. check[j][x] = "lost" => Lost(j)
    BY DEF WsInv, RefusalsAreRight
  <2> QED
    BY <2>1, <2>2 DEF DropsMove
<1> QED
  BY <1>1, <1>2, <1>3, <1>4, <1>5, <1>6, ChecksStayRight DEF WsInv

\* A check that meets a failing database keeps the invariant.
LEMMA SyncFailsKeeps ==
  ASSUME WsInv, NEW j \in Socket, NEW x \in Purpose, SyncFails(j, x)
  PROVE  WsInv'
<1>1. TypeOK'
  BY WsAssumption DEF WsInv, TypeOK, Purpose, Target, Close, Checks, Verdict, world, door,
     rooms, news, SyncFails
<1>2. AcceptedAsOwner'
  BY WsAssumption DEF WsInv, TypeOK, AcceptedAsOwner, Close, world, door, SyncFails
<1>3. Final
  BY DEF Final, Lost, world, door, SyncFails
<1>4. \A k \in Socket, y \in Purpose : CheckMoves(k, y)
  <2> SUFFICES ASSUME NEW k \in Socket, NEW y \in Purpose
               PROVE  CheckMoves(k, y)
    OBVIOUS
  <2>1. CASE k = j /\ y = x
    BY <2>1 DEF WsInv, TypeOK, InFlight, CheckMoves, SyncFails
  <2>2. CASE ~(k = j /\ y = x)
    BY <2>2 DEF WsInv, TypeOK, CheckMoves, SyncFails
  <2> QED
    BY <2>1, <2>2
<1>5. DropsMove /\ UNCHANGED <<withheld, delivered>> /\ \A e \in Event : issued'[e] = None => issued[e] = None
  BY WsAssumption DEF DropsMove, WsInv, TypeOK, Target, news, SyncFails
<1> QED
  BY <1>1, <1>2, <1>3, <1>4, <1>5, ChecksStayRight DEF WsInv

\* The start of a poll keeps the invariant.
LEMMA StartPollKeeps ==
  ASSUME WsInv, NEW n \in Node, StartPoll(n)
  PROVE  WsInv'
<1>1. TypeOK'
  BY WsAssumption DEF WsInv, TypeOK, Purpose, Target, Close, Checks, Verdict, world, door,
     rooms, news, StartPoll
<1>2. AcceptedAsOwner'
  BY WsAssumption DEF WsInv, TypeOK, AcceptedAsOwner, Close, world, door, StartPoll
<1>3. Final
  BY DEF Final, Lost, world, door, StartPoll
<1>4. \A k \in Socket, x \in Purpose : CheckMoves(k, x)
  BY WsAssumption DEF WsInv, TypeOK, CheckMoves, Purpose, Target, Close, Checks, StartPoll
<1>5. DropsMove /\ UNCHANGED <<withheld, delivered>> /\ \A e \in Event : issued'[e] = None => issued[e] = None
  BY WsAssumption DEF DropsMove, WsInv, TypeOK, Target, news, StartPoll
<1> QED
  BY <1>1, <1>2, <1>3, <1>4, <1>5, ChecksStayRight DEF WsInv

\* The checks of a poll keeps the invariant.
LEMMA PollSocketsKeeps ==
  ASSUME WsInv, NEW n \in Node, PollSockets(n)
  PROVE  WsInv'
<1>1. TypeOK'
  BY WsAssumption DEF WsInv, TypeOK, Purpose, Target, Close, Checks, Verdict, world, door,
     rooms, news, PollSockets
<1>2. AcceptedAsOwner'
  BY WsAssumption DEF WsInv, TypeOK, AcceptedAsOwner, Close, world, door, PollSockets
<1>3. Final
  BY DEF Final, Lost, world, door, PollSockets
<1>4. \A k \in Socket, x \in Purpose : CheckMoves(k, x)
  BY WsAssumption DEF WsInv, TypeOK, CheckMoves, Purpose, Target, Close, Checks, PollSockets
<1>5. DropsMove /\ UNCHANGED <<withheld, delivered>> /\ \A e \in Event : issued'[e] = None => issued[e] = None
  BY WsAssumption DEF DropsMove, WsInv, TypeOK, Target, news, PollSockets
<1> QED
  BY <1>1, <1>2, <1>3, <1>4, <1>5, ChecksStayRight DEF WsInv

\* A failed poll keeps the invariant.
LEMMA PollFailsKeeps ==
  ASSUME WsInv, NEW n \in Node, PollFails(n)
  PROVE  WsInv'
<1>1. TypeOK'
  BY WsAssumption DEF WsInv, TypeOK, Purpose, Target, Close, Checks, Verdict, world, door,
     rooms, news, PollFails
<1>2. AcceptedAsOwner'
  BY WsAssumption DEF WsInv, TypeOK, AcceptedAsOwner, Close, world, door, PollFails
<1>3. Final
  BY DEF Final, Lost, world, door, PollFails
<1>4. \A k \in Socket, x \in Purpose : CheckMoves(k, x)
  BY WsAssumption DEF WsInv, TypeOK, CheckMoves, Purpose, Target, Close, Checks, PollFails
<1>5. DropsMove /\ UNCHANGED <<withheld, delivered>> /\ \A e \in Event : issued'[e] = None => issued[e] = None
  BY WsAssumption DEF DropsMove, WsInv, TypeOK, Target, news, PollFails
<1> QED
  BY <1>1, <1>2, <1>3, <1>4, <1>5, ChecksStayRight DEF WsInv

\* The end of a poll keeps the invariant.
LEMMA EndPollKeeps ==
  ASSUME WsInv, NEW n \in Node, EndPoll(n)
  PROVE  WsInv'
<1>1. TypeOK'
  BY WsAssumption DEF WsInv, TypeOK, Purpose, Target, Close, Checks, Verdict, world, door,
     rooms, news, EndPoll
<1>2. AcceptedAsOwner'
  BY WsAssumption DEF WsInv, TypeOK, AcceptedAsOwner, Close, world, door, EndPoll
<1>3. Final
  BY DEF Final, Lost, world, door, EndPoll
<1>4. \A k \in Socket, x \in Purpose : CheckMoves(k, x)
  BY WsAssumption DEF WsInv, TypeOK, CheckMoves, Purpose, Target, Close, Checks, EndPoll
<1>5. DropsMove /\ UNCHANGED <<withheld, delivered>> /\ \A e \in Event : issued'[e] = None => issued[e] = None
  BY WsAssumption DEF DropsMove, WsInv, TypeOK, Target, news, EndPoll
<1> QED
  BY <1>1, <1>2, <1>3, <1>4, <1>5, ChecksStayRight DEF WsInv

\* A poll that finds a session valid keeps the invariant.
LEMMA PollKeepsKeeps ==
  ASSUME WsInv, NEW j \in Socket, NEW n \in Node, PollKeeps(j, n)
  PROVE  WsInv'
<1>1. TypeOK'
  BY WsAssumption DEF WsInv, TypeOK, Purpose, Target, Close, Checks, Verdict, world, door,
     rooms, news, PollKeeps
<1>2. AcceptedAsOwner'
  BY WsAssumption DEF WsInv, TypeOK, AcceptedAsOwner, Close, world, door, PollKeeps
<1>3. Final
  BY DEF Final, Lost, world, door, PollKeeps
<1>4. \A k \in Socket, x \in Purpose : CheckMoves(k, x)
  BY WsAssumption DEF WsInv, TypeOK, CheckMoves, Purpose, Target, Close, Checks, PollKeeps
<1>5. DropsMove /\ UNCHANGED <<withheld, delivered>> /\ \A e \in Event : issued'[e] = None => issued[e] = None
  BY WsAssumption DEF DropsMove, WsInv, TypeOK, Target, news, PollKeeps
<1> QED
  BY <1>1, <1>2, <1>3, <1>4, <1>5, ChecksStayRight DEF WsInv

\* A request to join keeps the invariant.
LEMMA StartJoinKeeps ==
  ASSUME WsInv, NEW j \in Socket, StartJoin(j)
  PROVE  WsInv'
<1>1. TypeOK'
  BY WsAssumption DEF WsInv, TypeOK, Purpose, Target, Close, Checks, Verdict, world, door,
     rooms, news, StartJoin
<1>2. AcceptedAsOwner'
  BY WsAssumption DEF WsInv, TypeOK, AcceptedAsOwner, Close, world, door, StartJoin
<1>3. Final
  BY DEF Final, Lost, world, door, StartJoin
<1>4. \A k \in Socket, x \in Purpose : CheckMoves(k, x)
  BY WsAssumption DEF WsInv, TypeOK, CheckMoves, Purpose, Target, Close, Checks, StartJoin
<1>5. DropsMove /\ UNCHANGED <<withheld, delivered>> /\ \A e \in Event : issued'[e] = None => issued[e] = None
  BY WsAssumption DEF DropsMove, WsInv, TypeOK, Target, news, StartJoin
<1> QED
  BY <1>1, <1>2, <1>3, <1>4, <1>5, ChecksStayRight DEF WsInv

\* A join that may go on keeps the invariant.
LEMMA AllowJoinKeeps ==
  ASSUME WsInv, NEW j \in Socket, AllowJoin(j)
  PROVE  WsInv'
<1>1. TypeOK'
  BY WsAssumption DEF WsInv, TypeOK, Purpose, Target, Close, Checks, Verdict, world, door,
     rooms, news, AllowJoin
<1>2. AcceptedAsOwner'
  BY WsAssumption DEF WsInv, TypeOK, AcceptedAsOwner, Close, world, door, AllowJoin
<1>3. Final
  BY DEF Final, Lost, world, door, AllowJoin
<1>4. \A k \in Socket, x \in Purpose : CheckMoves(k, x)
  BY WsAssumption DEF WsInv, TypeOK, CheckMoves, Purpose, Target, Close, Checks, AllowJoin
<1>5. DropsMove /\ UNCHANGED <<withheld, delivered>> /\ \A e \in Event : issued'[e] = None => issued[e] = None
  BY WsAssumption DEF DropsMove, WsInv, TypeOK, Target, news, AllowJoin
<1> QED
  BY <1>1, <1>2, <1>3, <1>4, <1>5, ChecksStayRight DEF WsInv

\* A completed join keeps the invariant.
LEMMA EndJoinKeeps ==
  ASSUME WsInv, NEW j \in Socket, EndJoin(j)
  PROVE  WsInv'
<1>1. TypeOK'
  BY WsAssumption DEF WsInv, TypeOK, Purpose, Target, Close, Checks, Verdict, world, door,
     rooms, news, EndJoin
<1>2. AcceptedAsOwner'
  BY WsAssumption DEF WsInv, TypeOK, AcceptedAsOwner, Close, world, door, EndJoin
<1>3. Final
  BY DEF Final, Lost, world, door, EndJoin
<1>4. \A k \in Socket, x \in Purpose : CheckMoves(k, x)
  BY WsAssumption DEF WsInv, TypeOK, CheckMoves, Purpose, Target, Close, Checks, EndJoin
<1>5. DropsMove /\ UNCHANGED <<withheld, delivered>> /\ \A e \in Event : issued'[e] = None => issued[e] = None
  BY WsAssumption DEF DropsMove, WsInv, TypeOK, Target, news, EndJoin
<1> QED
  BY <1>1, <1>2, <1>3, <1>4, <1>5, ChecksStayRight DEF WsInv

\* A leave keeps the invariant.
LEMMA LeaveKeeps ==
  ASSUME WsInv, NEW j \in Socket, Leave(j)
  PROVE  WsInv'
<1>1. TypeOK'
  BY WsAssumption DEF WsInv, TypeOK, Purpose, Target, Close, Checks, Verdict, world, door,
     rooms, news, Leave
<1>2. AcceptedAsOwner'
  BY WsAssumption DEF WsInv, TypeOK, AcceptedAsOwner, Close, world, door, Leave
<1>3. Final
  BY DEF Final, Lost, world, door, Leave
<1>4. \A k \in Socket, x \in Purpose : CheckMoves(k, x)
  BY WsAssumption DEF WsInv, TypeOK, CheckMoves, Purpose, Target, Close, Checks, Leave
<1>5. DropsMove /\ UNCHANGED <<withheld, delivered>> /\ \A e \in Event : issued'[e] = None => issued[e] = None
  BY WsAssumption DEF DropsMove, WsInv, TypeOK, Target, news, Leave
<1> QED
  BY <1>1, <1>2, <1>3, <1>4, <1>5, ChecksStayRight DEF WsInv

\* A new event keeps the invariant.
LEMMA IssueKeeps ==
  ASSUME WsInv, NEW f \in Event, NEW to \in Target, Issue(f, to)
  PROVE  WsInv'
<1>1. TypeOK'
  BY WsAssumption DEF WsInv, TypeOK, Purpose, Target, Close, Checks, Verdict, world, door,
     rooms, news, Issue
<1>2. AcceptedAsOwner'
  BY WsAssumption DEF WsInv, TypeOK, AcceptedAsOwner, Close, world, door, Issue
<1>3. Final
  BY DEF Final, Lost, world, door, Issue
<1>4. InFlight' /\ NothingAfterLoss'
  BY WsAssumption DEF WsInv, TypeOK, InFlight, NothingAfterLoss, Lost, world, door, Issue
<1>5. RefusalsAreRight'
  BY <1>3 DEF WsInv, RefusalsAreRight, Final, Issue
<1> QED
  BY <1>1, <1>2, <1>4, <1>5 DEF WsInv

\* The checks of an event's recipients keeps the invariant.
LEMMA FetchRecipientsKeeps ==
  ASSUME WsInv, NEW f \in Event, FetchRecipients(f)
  PROVE  WsInv'
<1>1. TypeOK'
  BY WsAssumption DEF WsInv, TypeOK, Purpose, Target, Close, Checks, Verdict, world, door,
     rooms, news, FetchRecipients
<1>2. AcceptedAsOwner'
  BY WsAssumption DEF WsInv, TypeOK, AcceptedAsOwner, Close, world, door, FetchRecipients
<1>3. Final
  BY DEF Final, Lost, world, door, FetchRecipients
<1>4. \A k \in Socket, x \in Purpose : CheckMoves(k, x)
  BY WsAssumption DEF WsInv, TypeOK, CheckMoves, Purpose, Target, Close, Checks, FetchRecipients
<1>5. DropsMove /\ UNCHANGED <<withheld, delivered>> /\ \A e \in Event : issued'[e] = None => issued[e] = None
  BY WsAssumption DEF DropsMove, WsInv, TypeOK, Target, news, FetchRecipients
<1> QED
  BY <1>1, <1>2, <1>3, <1>4, <1>5, ChecksStayRight DEF WsInv

\* An event that is dropped keeps the invariant.
LEMMA FetchFailsKeeps ==
  ASSUME WsInv, NEW f \in Event, FetchFails(f)
  PROVE  WsInv'
<1>1. TypeOK'
  BY WsAssumption DEF WsInv, TypeOK, Purpose, Target, Close, Checks, Verdict, world, door,
     rooms, news, FetchFails
<1>2. AcceptedAsOwner'
  BY WsAssumption DEF WsInv, TypeOK, AcceptedAsOwner, Close, world, door, FetchFails
<1>3. Final
  BY DEF Final, Lost, world, door, FetchFails
<1>4. \A k \in Socket, x \in Purpose : CheckMoves(k, x)
  BY WsAssumption DEF WsInv, TypeOK, CheckMoves, Purpose, Target, Close, Checks, FetchFails
<1>5. DropsMove /\ UNCHANGED <<withheld, delivered>> /\ \A e \in Event : issued'[e] = None => issued[e] = None
  BY WsAssumption DEF DropsMove, WsInv, TypeOK, Target, news, FetchFails
<1> QED
  BY <1>1, <1>2, <1>3, <1>4, <1>5, ChecksStayRight DEF WsInv

\* A delivery keeps the invariant.
LEMMA DeliverKeeps ==
  ASSUME WsInv, NEW j \in Socket, NEW f \in Event, Deliver(j, f)
  PROVE  WsInv'
<1>1. TypeOK'
  BY WsAssumption DEF WsInv, TypeOK, Purpose, Target, Close, Checks, Verdict, world, door,
     rooms, news, Deliver
<1>2. AcceptedAsOwner'
  BY WsAssumption DEF WsInv, TypeOK, AcceptedAsOwner, Close, world, door, Deliver
<1>3. Final
  BY DEF Final, Lost, world, door, Deliver
<1>4. ASSUME NEW k \in Socket, NEW x \in Purpose
      PROVE  check'[k][x] \in {check[k][x], "none"}
  BY DEF WsInv, TypeOK, Deliver
<1>5. InFlight' /\ NothingAfterLoss'
  BY <1>3, <1>4 DEF WsInv, TypeOK, InFlight, NothingAfterLoss, Final, Purpose, Deliver
<1>6. RefusalsAreRight'
  BY <1>3, <1>4 DEF WsInv, RefusalsAreRight, Final, Deliver
<1> QED
  BY <1>1, <1>2, <1>5, <1>6 DEF WsInv

\* The initial states satisfy the invariant.
LEMMA InitKeeps == Init => WsInv
<1> SUFFICES ASSUME Init
             PROVE  WsInv
  OBVIOUS
<1>1. TypeOK
  BY WsAssumption DEF Init, TypeOK, Target
<1>2. AcceptedAsOwner
  BY DEF Init, AcceptedAsOwner
<1>3. InFlight
  BY WsAssumption DEF Init, InFlight, Purpose, Lost
<1>4. NothingAfterLoss /\ RefusalsAreRight
  BY DEF Init, NothingAfterLoss, RefusalsAreRight
<1> QED
  BY <1>1, <1>2, <1>3, <1>4 DEF WsInv

\* Every step keeps the invariant.
LEMMA NextKeeps == WsInv /\ [Next]_vars => WsInv'
<1> SUFFICES ASSUME WsInv, [Next]_vars
             PROVE  WsInv'
  OBVIOUS
<1>1. CASE WorldStep
  BY <1>1, RevokeKeeps, ReassignKeeps, RemoveReaderKeeps DEF WorldStep
<1>2. ASSUME NEW k \in Socket, SocketStep(k)
      PROVE  WsInv'
  BY <1>2, ConnectKeeps, GrantConnectionKeeps, RejectConnectionKeeps, AcceptConnectionKeeps,
     HangUpKeeps, StartJoinKeeps, AllowJoinKeeps, EndJoinKeeps, LeaveKeeps DEF SocketStep
<1>3. ASSUME NEW k \in Socket, NEW x \in Purpose, CheckStep(k, x)
      PROVE  WsInv'
  BY <1>3, AnswerKeeps, UnavailableKeeps, SyncFailsKeeps, DisconnectKeeps DEF CheckStep
<1>4. ASSUME NEW n \in Node, PollStep(n)
      PROVE  WsInv'
  BY <1>4, StartPollKeeps, PollSocketsKeeps, PollFailsKeeps, EndPollKeeps, PollKeepsKeeps
  DEF PollStep
<1>5. ASSUME NEW e \in Event, EventStep(e)
      PROVE  WsInv'
  BY <1>5, IssueKeeps, FetchRecipientsKeeps, FetchFailsKeeps, DeliverKeeps DEF EventStep
<1>6. CASE UNCHANGED vars
  BY <1>6 DEF vars, WsInv, TypeOK, AcceptedAsOwner, InFlight, NothingAfterLoss,
     RefusalsAreRight, Lost
<1> QED
  BY <1>1, <1>2, <1>3, <1>4, <1>5, <1>6 DEF Next

\* The inductive invariant holds in every reachable state: types, and that a decision
\* taken on the state of a session stays right while its handler waits.
THEOREM WsInvariant == Spec => []WsInv
BY InitKeeps, NextKeeps, PTL DEF Spec

\* emitToActiveSessions never delivers an event to a socket whose session was lost
\* before the event was issued.
THEOREM DeliveryIsSafe == Spec => []NothingAfterLoss
<1>1. WsInv => NothingAfterLoss
  BY DEF WsInv
<1> QED
  BY <1>1, WsInvariant, PTL

\* What validateSession refuses on an answer, and whom it then disconnects for it, has lost
\* the session; otherwise it disconnects only for a token that is not saved or a database
\* that fails, and never because the authority is down.
THEOREM RefusalIsSafe == Spec => []RefusalsAreRight
<1>1. WsInv => RefusalsAreRight
  BY DEF WsInv
<1> QED
  BY <1>1, WsInvariant, PTL
=============================================================================
