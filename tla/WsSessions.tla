---------------------------- MODULE WsSessions ----------------------------
(***************************************************************************)
(* The sessions of open sockets: src/modules/ws/ws.gateway.ts with central *)
(* authentication enabled (AUTH_SERVICE_URL), on several instances joined  *)
(* by the Redis adapter.                                                   *)
(*                                                                         *)
(* Every await is a point where other handlers run: a handler that asks    *)
(* the authority for the user of a token resumes later, with an answer     *)
(* that may be old by then.  A check is one call of validateSession: by    *)
(* the poll of an instance, for the delivery of an event, or for a         *)
(* board:join; it is asked, then answered valid or lost, and ends when its *)
(* caller resumes.  A request the authority does not answer ends it        *)
(* without a verdict, and the connection stays.  Any other error closes    *)
(* the connection as if the session were lost: "tokenless", when no token  *)
(* is saved yet, and "failed", when the database fails while the user is   *)
(* synchronized.                                                           *)
(*                                                                         *)
(* One board room stands for board and project rooms, which are joined,    *)
(* left and addressed in the same way.                                     *)
(***************************************************************************)
CONSTANTS
    Socket,     \* connections, each opened once
    Session,    \* access tokens
    User,       \* rows of users
    Node,       \* instances of the server
    Event,      \* broadcasts
    SessionOf,  \* the token a socket presents in its handshake
    FirstOwner, \* the user a token belongs to at first
    JoinBoard,  \* the check of a board:join
    None

ASSUME WsAssumption ==
    /\ SessionOf \in [Socket -> Session]
    /\ FirstOwner \in [Session -> User]
    /\ None \notin User \cup {"board", "everybody", "sent"}
    /\ "sent" \notin User
    /\ Node \cap Event = {}
    /\ JoinBoard \notin Node \cup Event

VARIABLES
    owner,     \* authority and users table: the user of a token, None once revoked
    reader,    \* users that may read the board
    conn,      \* the connection of a socket
    granted,   \* handleConnection: the user authenticateRequest returned
    data,      \* socket.data.userId, saved together with data.accessToken
    inRoom,    \* sockets in the board's room
    joining,   \* sockets whose board:join waits for assertCanRead
    check,     \* the checks under way
    poll,      \* revalidateConnections of an instance; checkingSessions unless idle
    issued,    \* the recipients an event is addressed to
    withheld,  \* history: sockets whose session was lost when an event was issued
    delivered, \* history: events a socket has received
    dropped    \* history: the check for which a socket was sent 'auth:revoked', or "no"

vars == <<owner, reader, conn, granted, data, inRoom, joining, check, poll, issued,
          withheld, delivered, dropped>>
world == <<owner, reader>>
door == <<conn, granted, data>>
rooms == <<inRoom, joining>>
news == <<issued, withheld, delivered>>

Purpose == Node \cup Event \cup {JoinBoard}

\* The rooms an event is sent to: a user's own, the board's, or none, for everybody.
Target == User \cup {"board", "everybody"}

\* Central authentication no longer takes the socket for the user it was opened by.
Lost(k) ==
    LET u == owner[SessionOf[k]]
    IN  u = None \/ (data[k] # None /\ data[k] # u)

Connected(k) == conn[k] \in {"asked", "answered", "open"}

----------------------------------------------------------------------------
(* The authority and the database. *)

\* Logout, device revocation, a ban or the token's expiry: for good.
Revoke(s) ==
    /\ owner[s] # None
    /\ owner' = [owner EXCEPT ![s] = None]
    /\ UNCHANGED <<reader, door, rooms, check, poll, news, dropped>>

\* syncBoardUser finds another row for the token's identity.  Bound: once per token.
Reassign(s, u) ==
    /\ owner[s] = FirstOwner[s]
    /\ u # FirstOwner[s]
    /\ owner' = [owner EXCEPT ![s] = u]
    /\ UNCHANGED <<reader, door, rooms, check, poll, news, dropped>>

\* The user leaves the project of the board.
RemoveReader(u) ==
    /\ u \in reader
    /\ reader' = reader \ {u}
    /\ UNCHANGED <<owner, door, rooms, check, poll, news, dropped>>

----------------------------------------------------------------------------
(* handleConnection. *)

Connect(k) ==
    /\ conn[k] = "new"
    /\ conn' = [conn EXCEPT ![k] = "asked"]
    /\ UNCHANGED <<world, granted, data, rooms, check, poll, news, dropped>>

\* authenticateRequest: the authority names the user of the token.
GrantConnection(k) ==
    /\ conn[k] = "asked"
    /\ owner[SessionOf[k]] # None
    /\ conn' = [conn EXCEPT ![k] = "answered"]
    /\ granted' = [granted EXCEPT ![k] = owner[SessionOf[k]]]
    /\ UNCHANGED <<world, data, rooms, check, poll, news, dropped>>

\* A closed socket is in no room, and what its handlers were waiting for goes nowhere.
Close(k) ==
    /\ conn' = [conn EXCEPT ![k] = "closed"]
    /\ inRoom' = inRoom \ {k}
    /\ joining' = joining \ {k}
    /\ check' = [check EXCEPT ![k] = [x \in Purpose |-> "none"]]

\* Any error of authenticateRequest disconnects, an unavailable authority included.
RejectConnection(k) ==
    /\ conn[k] = "asked"
    /\ Close(k)
    /\ UNCHANGED <<world, granted, data, poll, news, dropped>>

\* The token and the user are saved, and the socket joins its user's room.
AcceptConnection(k) ==
    /\ conn[k] = "answered"
    /\ conn' = [conn EXCEPT ![k] = "open"]
    /\ data' = [data EXCEPT ![k] = granted[k]]
    /\ UNCHANGED <<world, granted, rooms, check, poll, news, dropped>>

\* The client closes the connection, or it breaks.
HangUp(k) ==
    /\ Connected(k)
    /\ Close(k)
    /\ UNCHANGED <<world, granted, data, poll, news, dropped>>

----------------------------------------------------------------------------
(* validateSession. *)

\* The checks of the sockets in S begin together; without a saved token
\* authenticate fails at once.
Checks(x, S) ==
    [k \in Socket |-> IF k \notin S THEN check[k]
                      ELSE [check[k] EXCEPT ![x] = IF data[k] = None THEN "tokenless" ELSE "asked"]]

Verdict(k) == IF Lost(k) THEN "lost" ELSE "valid"

\* The authority answers, and the user's row is found, updated or created.
Answer(k, x) ==
    /\ check[k][x] = "asked"
    /\ check' = [check EXCEPT ![k] = [@ EXCEPT ![x] = Verdict(k)]]
    /\ UNCHANGED <<world, door, rooms, poll, news, dropped>>

\* Mutant of Unavailable: a request without an answer is taken for a refusal.
UnavailableRevokes(k, x) ==
    /\ check[k][x] = "asked"
    /\ check' = [check EXCEPT ![k] = [@ EXCEPT ![x] = "lost"]]
    /\ UNCHANGED <<world, door, rooms, poll, news, dropped>>

\* ServiceUnavailableException: no verdict, the connection stays, the caller goes without.
Unavailable(k, x) ==
    /\ check[k][x] = "asked"
    /\ check' = [check EXCEPT ![k] = [@ EXCEPT ![x] = "none"]]
    /\ UNCHANGED <<world, door, rooms, poll, news, dropped>>

\* The authority answers, and syncBoardUser throws: the users table does not answer, two
\* requests create or update a row at once, or two rows claim the identity.
SyncFails(k, x) ==
    /\ check[k][x] = "asked"
    /\ check' = [check EXCEPT ![k] = [@ EXCEPT ![x] = "failed"]]
    /\ UNCHANGED <<world, door, rooms, poll, news, dropped>>

\* 'auth:revoked', and the socket is disconnected: every error but an unavailable authority.
Disconnect(k, x) ==
    /\ check[k][x] \in {"lost", "tokenless", "failed"}
    /\ Close(k)
    /\ dropped' = [dropped EXCEPT ![k] = check[k][x]]
    /\ UNCHANGED <<world, granted, data, poll, news>>

----------------------------------------------------------------------------
(* revalidateConnections: every ten seconds, skipped while the last one runs. *)

StartPoll(n) ==
    /\ poll[n] = "idle"
    /\ poll' = [poll EXCEPT ![n] = "fetch"]
    /\ UNCHANGED <<world, door, rooms, check, news, dropped>>

PollSockets(n) ==
    /\ poll[n] = "fetch"
    /\ poll' = [poll EXCEPT ![n] = "checks"]
    /\ check' = Checks(n, {k \in Socket : Connected(k)})
    /\ UNCHANGED <<world, door, rooms, news, dropped>>

\* Mutant of PollFails: checkingSessions is not reset when fetchSockets throws.
PollFailsForGood(n) ==
    /\ poll[n] = "fetch"
    /\ poll' = [poll EXCEPT ![n] = "failed"]
    /\ UNCHANGED <<world, door, rooms, check, news, dropped>>

\* fetchSockets throws: the adapter is stopped or an instance does not answer it.
PollFails(n) ==
    /\ poll[n] = "fetch"
    /\ poll' = [poll EXCEPT ![n] = "idle"]
    /\ UNCHANGED <<world, door, rooms, check, news, dropped>>

PollKeeps(k, n) ==
    /\ check[k][n] = "valid"
    /\ check' = [check EXCEPT ![k] = [@ EXCEPT ![n] = "none"]]
    /\ UNCHANGED <<world, door, rooms, poll, news, dropped>>

EndPoll(n) ==
    /\ poll[n] = "checks"
    /\ \A k \in Socket : check[k][n] = "none"
    /\ poll' = [poll EXCEPT ![n] = "idle"]
    /\ UNCHANGED <<world, door, rooms, check, news, dropped>>

----------------------------------------------------------------------------
(* board:join and board:leave. *)

\* Before the token is saved the handler answers with an error.
StartJoin(k) ==
    /\ conn[k] = "open"
    /\ check[k][JoinBoard] = "none"
    /\ k \notin joining
    /\ check' = Checks(JoinBoard, {k})
    /\ UNCHANGED <<world, door, rooms, poll, news, dropped>>

\* assertCanRead passes; the socket joins when the handler resumes.
AllowJoin(k) ==
    /\ check[k][JoinBoard] = "valid"
    /\ check' = [check EXCEPT ![k] = [@ EXCEPT ![JoinBoard] = "none"]]
    /\ joining' = IF data[k] \in reader THEN joining \cup {k} ELSE joining
    /\ UNCHANGED <<world, door, inRoom, poll, news, dropped>>

EndJoin(k) ==
    /\ k \in joining
    /\ joining' = joining \ {k}
    /\ inRoom' = inRoom \cup {k}
    /\ UNCHANGED <<world, door, check, poll, news, dropped>>

\* A leave does not stop a join that is still waiting.
Leave(k) ==
    /\ k \in inRoom
    /\ inRoom' = inRoom \ {k}
    /\ UNCHANGED <<world, door, joining, check, poll, news, dropped>>

----------------------------------------------------------------------------
(* emitToRooms and emitToActiveSessions. *)

Issue(e, to) ==
    /\ issued[e] = None
    /\ issued' = [issued EXCEPT ![e] = to]
    /\ withheld' = [withheld EXCEPT ![e] = {k \in Socket : Lost(k)}]
    /\ UNCHANGED <<world, door, rooms, check, poll, delivered, dropped>>

Recipients(to) ==
    {k \in Socket : /\ Connected(k)
                    /\ \/ to = "everybody"
                       \/ to = "board" /\ k \in inRoom
                       \/ to = data[k]}

\* Mutant of FetchRecipients: the event goes to every socket of the rooms unchecked.
FetchWithoutChecks(e) ==
    /\ issued[e] \in Target
    /\ issued' = [issued EXCEPT ![e] = "sent"]
    /\ check' = [k \in Socket |-> IF k \in Recipients(issued[e])
                                  THEN [check[k] EXCEPT ![e] = "valid"] ELSE check[k]]
    /\ UNCHANGED <<world, door, rooms, poll, withheld, delivered, dropped>>

\* fetchSockets, on every instance, and a check of each socket found.
FetchRecipients(e) ==
    /\ issued[e] \in Target
    /\ issued' = [issued EXCEPT ![e] = "sent"]
    /\ check' = Checks(e, Recipients(issued[e]))
    /\ UNCHANGED <<world, door, rooms, poll, withheld, delivered, dropped>>

\* "Session delivery failed": the event is dropped.
FetchFails(e) ==
    /\ issued[e] \in Target
    /\ issued' = [issued EXCEPT ![e] = "sent"]
    /\ UNCHANGED <<world, door, rooms, check, poll, withheld, delivered, dropped>>

Deliver(k, e) ==
    /\ check[k][e] = "valid"
    /\ check' = [check EXCEPT ![k] = [@ EXCEPT ![e] = "none"]]
    /\ delivered' = [delivered EXCEPT ![k] = @ \cup {e}]
    /\ UNCHANGED <<world, door, rooms, poll, issued, withheld, dropped>>

----------------------------------------------------------------------------

Init ==
    /\ owner = FirstOwner
    /\ reader = User
    /\ conn = [k \in Socket |-> "new"]
    /\ granted = [k \in Socket |-> None]
    /\ data = [k \in Socket |-> None]
    /\ inRoom = {}
    /\ joining = {}
    /\ check = [k \in Socket |-> [x \in Purpose |-> "none"]]
    /\ poll = [n \in Node |-> "idle"]
    /\ issued = [e \in Event |-> None]
    /\ withheld = [e \in Event |-> {}]
    /\ delivered = [k \in Socket |-> {}]
    /\ dropped = [k \in Socket |-> "no"]

WorldStep ==
    \/ \E s \in Session : Revoke(s) \/ \E u \in User : Reassign(s, u)
    \/ \E u \in User : RemoveReader(u)

SocketStep(k) ==
    \/ Connect(k) \/ GrantConnection(k) \/ RejectConnection(k) \/ AcceptConnection(k)
    \/ HangUp(k) \/ StartJoin(k) \/ AllowJoin(k) \/ EndJoin(k) \/ Leave(k)

CheckStep(k, x) ==
    \/ Answer(k, x) \/ Unavailable(k, x) \/ SyncFails(k, x) \/ Disconnect(k, x)

PollStep(n) ==
    \/ StartPoll(n) \/ PollSockets(n) \/ PollFails(n) \/ EndPoll(n)
    \/ \E k \in Socket : PollKeeps(k, n)

EventStep(e) ==
    \/ \E to \in Target : Issue(e, to)
    \/ FetchRecipients(e) \/ FetchFails(e)
    \/ \E k \in Socket : Deliver(k, e)

Next ==
    \/ WorldStep
    \/ \E k \in Socket : SocketStep(k) \/ \E x \in Purpose : CheckStep(k, x)
    \/ \E n \in Node : PollStep(n)
    \/ \E e \in Event : EventStep(e)

Spec == Init /\ [][Next]_vars

\* Timers fire and promises resume; neither the adapter, nor the authority, nor the users
\* table fails every request from some time on.
Fairness ==
    \A n \in Node :
        /\ WF_vars(StartPoll(n)) /\ SF_vars(PollSockets(n)) /\ WF_vars(EndPoll(n))
        /\ \A k \in Socket :
              /\ SF_vars(Answer(k, n))
              /\ WF_vars(Disconnect(k, n)) /\ WF_vars(PollKeeps(k, n))

FairSpec == Spec /\ Fairness
----------------------------------------------------------------------------
(* Properties. *)

\* Every variable is of its type.
TypeOK ==
    /\ owner \in [Session -> User \cup {None}]
    /\ reader \subseteq User
    /\ conn \in [Socket -> {"new", "asked", "answered", "open", "closed"}]
    /\ granted \in [Socket -> User \cup {None}]
    /\ data \in [Socket -> User \cup {None}]
    /\ inRoom \subseteq Socket
    /\ joining \subseteq Socket
    /\ check \in [Socket -> [Purpose -> {"none", "asked", "valid", "lost", "tokenless", "failed"}]]
    /\ poll \in [Node -> {"idle", "fetch", "checks"}]
    /\ issued \in [Event -> Target \cup {None, "sent"}]
    /\ withheld \in [Event -> SUBSET Socket]
    /\ delivered \in [Socket -> SUBSET Event]
    /\ dropped \in [Socket -> {"no", "lost", "tokenless", "failed"}]

\* As long as a token has its first user, nobody was accepted as another one; a user
\* is saved once.
AcceptedAsOwner ==
    \A k \in Socket :
        /\ owner[SessionOf[k]] = FirstOwner[SessionOf[k]]
              => {granted[k], data[k]} \subseteq {None, FirstOwner[SessionOf[k]]}
        /\ conn[k] \in {"new", "asked", "answered"} => data[k] = None

\* What is in flight for an event agrees with the sessions lost when it was issued.
InFlight ==
    \A k \in Socket, e \in Event :
        /\ k \in withheld[e] => Lost(k)
        /\ check[k][e] = "valid" => k \notin withheld[e]
        /\ issued[e] = None => check[k][e] = "none" /\ e \notin delivered[k]

\* "Uses the live session before delivering payloads": no socket receives an event
\* issued after its token was revoked or passed to another user, however late the
\* recipients are fetched and the answers of the authority arrive.
NothingAfterLoss ==
    \A k \in Socket, e \in Event : e \in delivered[k] => k \notin withheld[e]

\* A refusal is still right when the handler resumes: of the sockets that were sent
\* 'auth:revoked', those whose check got its answer have lost the session, however late
\* they are disconnected, and the others had no token saved or met a database that
\* failed.  An outage of the authority disconnects nobody (validateSession returns false
\* on ServiceUnavailableException).
RefusalsAreRight ==
    \A k \in Socket : "lost" \in {check[k][x] : x \in Purpose} \cup {dropped[k]} => Lost(k)

\* Losing a session is final, and so everything decided on it stands: the inductive
\* invariant of NothingAfterLoss and RefusalsAreRight.
WsInv == TypeOK /\ AcceptedAsOwner /\ InFlight /\ NothingAfterLoss /\ RefusalsAreRight

\* "The saved access token cannot outlive revocation of its central session": an open
\* socket is closed after its session is lost, if the authority answers at times.
LostSessionsEnd ==
    \A k \in Socket : conn[k] = "open" /\ Lost(k) ~> conn[k] = "closed"

\* "Revalidates open central sessions" (afterInit): whoever is told 'auth:revoked' has
\* lost the session.
RevocationIsReal == \A k \in Socket : dropped[k] # "no" => Lost(k)
=============================================================================
