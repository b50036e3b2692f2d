----------------------------- MODULE AccessProofs -----------------------------
(***************************************************************************)
(* Who is assigned and who is let in, for every number of processes,       *)
(* users, tasks, projects, tokens and requests: BannedUnassigned and       *)
(* OnlyActiveMembers of Assignments, OnlyVerifiedToken of AccessTokens;    *)
(* and what a call of an MCP tool knows when it reads or changes a row,    *)
(* for every number of calls, rows, tokens and changes: ScopesHold,        *)
(* ChangesWereConfirmed, TagsStayInTheirProject and TouchedWasReadable of  *)
(* McpTools.                                                               *)
(***************************************************************************)
EXTENDS Assignments, AccessTokens, McpTools, TLAPS

----------------------------------------------------------------------------
(* Assignments. A blocked user is assigned to nothing, and assignments are given to active
   members only. *)

\* No transaction runs and nobody is assigned at the start.
LEMMA InitInv == Init => AssignmentsInv
BY AssignmentsAssumption
DEF Init, AssignmentsInv, TypeOK, TransactionsFit, Fits, SharesHold, ShareHolds, BannedUnassigned,
    AssignedIsStored, Idle, At, Txn, Kind, Step

\* A step of p replaces its transaction and no other.
LEMMA OwnTxn ==
    ASSUME AssignmentsInv, NEW p \in Proc, NEW new \in Txn, txn' = [txn EXCEPT ![p] = new]
    PROVE  /\ txn' \in [Proc -> Txn]
           /\ txn'[p] = new
           /\ \A q \in Proc \ {p} : txn'[q] = txn[q]
BY DEF AssignmentsInv, TypeOK

\* What a transaction concerned with a user consists of.
LEMMA ForUserTxn ==
    ASSUME NEW u \in User, NEW kind \in {"event", "sync", "archive", "login"},
           NEW step \in {"availability", "drop"}, NEW target \in BOOLEAN
    PROVE  LET new == ForUser(kind, step, u, target)
           IN  /\ new \in Txn /\ new.kind = kind /\ new.step = step /\ new.task = None
               /\ new.users = {u} /\ new.shared = {} /\ new.rows = {} /\ new.locked = {}
<1> DEFINE old == At(kind, step, None, None, {u})
           b == u \in banned
<1>1. /\ old \in Txn /\ old.kind = kind /\ old.step = step /\ old.task = None
      /\ old.users = {u} /\ old.shared = {} /\ old.rows = {} /\ old.locked = {}
  BY DEF At, Txn, Kind, Step
<1>2. ForUser(kind, step, u, target) = [old EXCEPT !.ban = b, !.target = target] /\ b \in BOOLEAN
  BY DEF ForUser
<1> HIDE DEF old, b
<1> QED BY <1>1, <1>2 DEF Txn

\* Requests that only read: the new transaction holds no lock, and its task, if
\* it has one, is nobody else's.
LEMMA BeginKeeps ==
    ASSUME AssignmentsInv, NEW p \in Proc, txn[p] = Idle, NEW new \in Txn,
           txn' = [txn EXCEPT ![p] = new], UNCHANGED store, started' \in 0 .. MaxRequests,
           new.shared = {}, new.rows = {}, new.locked = {},
           new.step \in {"check", "availability"},
           new.kind \in {"create", "assign", "relocate"} <=> new.step = "check",
           new.kind \notin {"idle", "members"},
           new.kind \in {"create", "assign", "relocate"} => new.project \in Project,
           IF new.kind \in {"assign", "relocate"}
           THEN new.task \in TaskId /\ home[new.task] # None /\ ~TaskLocked(new.task)
           ELSE new.task = None,
           new.kind = "assign" => new.project = home[new.task],
           new.kind = "relocate" => Assignees(new.task) \subseteq new.users
    PROVE  AssignmentsInv'
<1>1. txn' \in [Proc -> Txn] /\ txn'[p] = new /\ \A q \in Proc \ {p} : txn'[q] = txn[q]
  BY OwnTxn
<1>2. TypeOK'
  BY <1>1 DEF AssignmentsInv, TypeOK, store
<1>3. \A q \in Proc : Fits(q)'
  <2>1. Fits(p)'
    BY <1>1 DEF Fits, store
  <2>2. ASSUME NEW q \in Proc \ {p} PROVE Fits(q)'
    BY <1>1, <2>2 DEF Fits, store, AssignmentsInv, TransactionsFit
  <2> QED BY <2>1, <2>2
<1>4. TransactionsFit'
  BY <1>1, <1>3 DEF TransactionsFit, AssignmentsInv, TaskLocked
<1>5. (\A u : UserLocked(u)' => UserLocked(u)) /\ (\A m : RowDeleted(m)' => RowDeleted(m))
  BY <1>1 DEF UserLocked, RowDeleted
<1>6. SharesHold'
  <2>1. ShareHolds(p)'
    BY <1>1 DEF ShareHolds, store, Assignees
  <2>2. ASSUME NEW q \in Proc \ {p} PROVE ShareHolds(q)'
    <3>1. ShareHolds(q)
      BY DEF AssignmentsInv, SharesHold
    <3> QED
      BY <1>1, <1>5, <3>1 DEF ShareHolds, store, Assignees
  <2> QED BY <2>1, <2>2 DEF SharesHold
<1> QED
  BY <1>2, <1>4, <1>6 DEF AssignmentsInv, BannedUnassigned, AssignedIsStored, store

----------------------------------------------------------------------------
(* Requests. *)

\* The first statement of every request but the change of members.
LEMMA NewRequestKeeps ==
    ASSUME AssignmentsInv, NEW p \in Proc, NewRequest(p),
           ~ \E pr \in Project, S \in SUBSET User : StartMembers(p, pr, S),
           ~ \E u \in User, target \in BOOLEAN : LockForSync(p, u, target)
    PROVE  AssignmentsInv'
<1>1. txn[p] = Idle => started \in Nat /\ MaxRequests \in Nat /\ None \notin TaskId \cup Project
  BY AssignmentsAssumption DEF AssignmentsInv, TypeOK
<1>2. ASSUME NEW kind, Begin(p, kind) PROVE txn[p] = Idle /\ started' \in 0 .. MaxRequests
  BY <1>1, <1>2 DEF Begin
<1>3. CASE \E pr \in Project, S \in SUBSET User : StartCreate(p, pr, S)
  <2>1. PICK pr \in Project, S \in SUBSET User : StartCreate(p, pr, S)
    BY <1>3
  <2> DEFINE new == At("create", "check", None, pr, S)
  <2>2. txn' = [txn EXCEPT ![p] = new] /\ UNCHANGED store /\ Begin(p, "create")
    BY <2>1 DEF StartCreate
  <2>3. /\ new \in Txn /\ new.kind = "create" /\ new.step = "check" /\ new.task = None
        /\ new.project = pr /\ new.shared = {} /\ new.rows = {} /\ new.locked = {}
    BY DEF At, Txn, Kind, Step
  <2> HIDE DEF new
  <2> QED BY <1>2, <2>2, <2>3, BeginKeeps
<1>4. CASE \E t \in TaskId, S \in SUBSET User : StartAssign(p, t, S)
  <2>1. PICK t \in TaskId, S \in SUBSET User : StartAssign(p, t, S)
    BY <1>4
  <2> DEFINE new == At("assign", "check", t, home[t], S)
  <2>2. /\ txn' = [txn EXCEPT ![p] = new] /\ UNCHANGED store /\ Begin(p, "assign")
        /\ home[t] # None /\ ~TaskLocked(t)
    BY <2>1 DEF StartAssign
  <2>3. home[t] \in Project
    BY <2>2 DEF AssignmentsInv, TypeOK
  <2>4. /\ new \in Txn /\ new.kind = "assign" /\ new.step = "check" /\ new.task = t
        /\ new.project = home[t] /\ new.shared = {} /\ new.rows = {} /\ new.locked = {}
    BY <2>3 DEF At, Txn, Kind, Step
  <2> HIDE DEF new
  <2> QED BY <1>2, <2>2, <2>3, <2>4, BeginKeeps
<1>5. CASE \E t \in TaskId, pr \in Project : StartRelocate(p, t, pr)
  <2>1. PICK t \in TaskId, pr \in Project : StartRelocate(p, t, pr)
    BY <1>5
  <2> DEFINE new == At("relocate", "check", t, pr, Assignees(t))
  <2>2. /\ txn' = [txn EXCEPT ![p] = new] /\ UNCHANGED store /\ Begin(p, "relocate")
        /\ home[t] # None /\ ~TaskLocked(t)
    BY <2>1 DEF StartRelocate
  <2>3. Assignees(t) \in SUBSET User
    BY DEF Assignees
  <2>4. /\ new \in Txn /\ new.kind = "relocate" /\ new.step = "check" /\ new.task = t
        /\ new.project = pr /\ new.users = Assignees(t) /\ new.shared = {} /\ new.rows = {} /\ new.locked = {}
    BY <2>3 DEF At, Txn, Kind, Step
  <2> HIDE DEF new
  <2> QED BY <1>2, <2>2, <2>4, BeginKeeps
<1>6. ASSUME NEW u \in User, NEW kind \in {"event", "archive", "login"}, NEW target \in BOOLEAN,
             Begin(p, kind), UNCHANGED store,
             txn' = [txn EXCEPT ![p] = ForUser(kind, "availability", u, target)]
      PROVE  AssignmentsInv'
  <2> DEFINE new == ForUser(kind, "availability", u, target)
  <2>1. /\ new \in Txn /\ new.kind = kind /\ new.step = "availability" /\ new.task = None
        /\ new.shared = {} /\ new.rows = {} /\ new.locked = {}
    BY ForUserTxn, "availability" \in {"availability", "drop"}
  <2>2. txn' = [txn EXCEPT ![p] = new]
    BY <1>6
  <2> HIDE DEF new
  <2> QED BY <1>2, <1>6, <2>1, <2>2, BeginKeeps
<1>7. ASSUME NEW u \in User, NEW target \in BOOLEAN, ReadForEvent(p, u, target) PROVE AssignmentsInv'
  BY <1>6, <1>7 DEF ReadForEvent
<1>8. ASSUME NEW u \in User, ReadForArchive(p, u) PROVE AssignmentsInv'
  BY <1>6, <1>8, (u \notin banned) \in BOOLEAN DEF ReadForArchive
<1>9. ASSUME NEW u \in User, ReadForLogin(p, u) PROVE AssignmentsInv'
  BY <1>6, <1>9 DEF ReadForLogin
<1> QED
  BY <1>3, <1>4, <1>5, <1>7, <1>8, <1>9 DEF NewRequest

\* The memberships to delete are locked: nobody holds a share of them.
LEMMA StartMembersKeeps ==
    ASSUME AssignmentsInv, NEW p \in Proc, NEW pr \in Project, NEW S \in SUBSET User,
           StartMembers(p, pr, S)
    PROVE  AssignmentsInv'
<1> DEFINE desired == S \cup {Owner[pr]}
           removed == Memberships(pr, User \ desired)
           missing == {u \in desired : Memberships(pr, {u}) = {}}
           old == At("members", "insert", None, pr, missing)
           new == [old EXCEPT !.rows = removed]
<1>1. /\ txn' = [txn EXCEPT ![p] = new] /\ UNCHANGED store /\ txn[p] = Idle /\ started' \in 0 .. MaxRequests
      /\ \A m \in removed : ~RowHeld(m)
  <2>1. /\ Begin(p, "members") /\ UNCHANGED store /\ txn' = [txn EXCEPT ![p] = new]
        /\ \A m \in removed : ~RowHeld(m)
    BY DEF StartMembers
  <2> HIDE DEF new, removed
  <2> QED BY <2>1, AssignmentsAssumption DEF Begin, AssignmentsInv, TypeOK
<1>2. removed \subseteq Project \X User \X Row /\ missing \subseteq User
  BY AssignmentsAssumption DEF Memberships, AssignmentsInv, TypeOK
<1> HIDE DEF removed, missing
<1>3. /\ old \in Txn /\ old.kind = "members" /\ old.step = "insert" /\ old.task = None
      /\ old.project = pr /\ old.shared = {} /\ old.locked = {}
  BY <1>2 DEF At, Txn, Kind, Step
<1> HIDE DEF old
<1>4. /\ new \in Txn /\ new.kind = "members" /\ new.step = "insert" /\ new.task = None
      /\ new.project = pr /\ new.shared = {} /\ new.locked = {} /\ new.rows = removed
  BY <1>2, <1>3 DEF Txn
<1> HIDE DEF new
<1>5. txn' \in [Proc -> Txn] /\ txn'[p] = new /\ \A q \in Proc \ {p} : txn'[q] = txn[q]
  BY <1>1, <1>4, OwnTxn
<1>6. TypeOK'
  BY <1>1, <1>5 DEF AssignmentsInv, TypeOK, store
<1>7. TransactionsFit'
  BY <1>1, <1>4, <1>5 DEF AssignmentsInv, TransactionsFit, Fits, store
<1>8. /\ \A u : UserLocked(u)' => UserLocked(u)
      /\ \A m : RowDeleted(m)' => RowDeleted(m) \/ m \in removed
  BY <1>4, <1>5 DEF UserLocked, RowDeleted
<1>9. ShareHolds(p)'
  BY <1>4, <1>5 DEF ShareHolds
<1>10. ASSUME NEW q \in Proc \ {p} PROVE ShareHolds(q)'
  <2>1. ShareHolds(q)
    BY DEF AssignmentsInv, SharesHold
  <2>2. \A m \in txn[q].rows : m \notin removed
    BY <1>1 DEF RowHeld
  <2> QED
    BY <1>1, <1>5, <1>8, <2>1, <2>2 DEF ShareHolds, store, Assignees
<1> QED
  BY <1>1, <1>6, <1>7, <1>9, <1>10 DEF AssignmentsInv, SharesHold, BannedUnassigned, AssignedIsStored, store

\* The row of the user is locked while nobody holds a share of it.
LEMMA LockForSyncKeeps ==
    ASSUME AssignmentsInv, NEW p \in Proc, NEW u \in User, NEW target \in BOOLEAN,
           LockForSync(p, u, target)
    PROVE  AssignmentsInv'
<1> DEFINE old == ForUser("sync", "drop", u, target)
           new == [old EXCEPT !.locked = {u}]
<1>1. /\ txn' = [txn EXCEPT ![p] = new] /\ UNCHANGED store /\ txn[p] = Idle /\ started' \in 0 .. MaxRequests
      /\ ~UserShared(u)
  BY AssignmentsAssumption DEF LockForSync, Begin, AssignmentsInv, TypeOK
<1>2. /\ old \in Txn /\ old.kind = "sync" /\ old.step = "drop" /\ old.task = None
      /\ old.users = {u} /\ old.shared = {} /\ old.rows = {}
  BY ForUserTxn, "sync" \in {"event", "sync", "archive", "login"}, "drop" \in {"availability", "drop"}
<1> HIDE DEF old
<1>3. /\ new \in Txn /\ new.kind = "sync" /\ new.step = "drop" /\ new.task = None
      /\ new.users = {u} /\ new.shared = {} /\ new.rows = {} /\ new.locked = {u}
  BY <1>2 DEF Txn
<1> HIDE DEF new
<1>4. txn' \in [Proc -> Txn] /\ txn'[p] = new /\ \A q \in Proc \ {p} : txn'[q] = txn[q]
  BY <1>1, <1>3, OwnTxn
<1>5. TypeOK'
  BY <1>1, <1>4 DEF AssignmentsInv, TypeOK, store
<1>6. TransactionsFit'
  BY <1>1, <1>3, <1>4 DEF AssignmentsInv, TransactionsFit, Fits, store
<1>7. /\ \A v : UserLocked(v)' => UserLocked(v) \/ v = u
      /\ \A m : RowDeleted(m)' => RowDeleted(m)
  BY <1>3, <1>4 DEF UserLocked, RowDeleted
<1>8. ASSUME NEW q \in Proc PROVE ShareHolds(q)'
  <2>1. ShareHolds(q) /\ u \notin txn[q].shared
    BY <1>1 DEF AssignmentsInv, SharesHold, UserShared
  <2>2. CASE q = p
    BY <1>3, <1>4, <2>2 DEF ShareHolds
  <2>3. CASE q # p
    BY <1>1, <1>4, <1>7, <2>1, <2>3 DEF ShareHolds, store, Assignees
  <2> QED BY <2>2, <2>3
<1> QED
  BY <1>1, <1>5, <1>6, <1>8 DEF AssignmentsInv, SharesHold, BannedUnassigned, AssignedIsStored, store

----------------------------------------------------------------------------
(* Later steps. *)

\* The shares are taken of active members whose rows nobody changes.
LEMMA CheckMembersKeeps == ASSUME AssignmentsInv, NEW p \in Proc, CheckMembers(p) PROVE AssignmentsInv'
<1> DEFINE held == Memberships(txn[p].project, txn[p].users)
           new == [txn[p] EXCEPT !.step = "write", !.shared = txn[p].users, !.rows = held]
<1>1. txn[p] \in Txn /\ txn[p].step = "check" /\ Fits(p) /\ ShareHolds(p)
  BY DEF AssignmentsInv, TypeOK, TransactionsFit, SharesHold, CheckMembers
<1>2. /\ held \subseteq members /\ held \subseteq Project \X User \X Row
      /\ \A u \in txn[p].users : \E m \in held : m[1] = txn[p].project /\ m[2] = u
      /\ \A u \in txn[p].users : u \notin banned /\ ~UserLocked(u)
      /\ \A m \in held : ~RowDeleted(m)
  BY DEF CheckMembers, Active, Memberships, AssignmentsInv, TypeOK
<1>3. txn' = [txn EXCEPT ![p] = new] /\ UNCHANGED <<store, started>>
  BY DEF CheckMembers
<1> HIDE DEF held
<1>4. /\ new \in Txn /\ new.step = "write" /\ new.shared = txn[p].users /\ new.kind = txn[p].kind
      /\ new.task = txn[p].task /\ new.project = txn[p].project /\ new.users = txn[p].users
      /\ new.rows = held /\ new.locked = txn[p].locked
  BY <1>1, <1>2 DEF Txn, Step
<1> HIDE DEF new
<1>5. txn' \in [Proc -> Txn] /\ txn'[p] = new /\ \A q \in Proc \ {p} : txn'[q] = txn[q]
  BY <1>3, <1>4, OwnTxn
<1>6. TypeOK'
  BY <1>3, <1>5 DEF AssignmentsInv, TypeOK, store
<1>7. Fits(p)'
  BY <1>1, <1>3, <1>4, <1>5 DEF Fits, store
<1>8. TransactionsFit'
  BY <1>3, <1>4, <1>5, <1>7 DEF AssignmentsInv, TransactionsFit, Fits, store
<1>9. new.kind # "members"
  BY <1>1, <1>4 DEF Fits
<1>10. (\A u : UserLocked(u)' => UserLocked(u)) /\ (\A m : RowDeleted(m)' => RowDeleted(m))
  BY <1>4, <1>5, <1>9 DEF UserLocked, RowDeleted
<1>11. ShareHolds(p)'
  BY <1>1, <1>2, <1>3, <1>4, <1>5, <1>10 DEF ShareHolds, store, Assignees
<1>12. ASSUME NEW q \in Proc \ {p} PROVE ShareHolds(q)'
  <2>1. ShareHolds(q)
    BY DEF AssignmentsInv, SharesHold
  <2> QED BY <1>3, <1>5, <1>10, <2>1 DEF ShareHolds, store, Assignees
<1> QED
  BY <1>3, <1>6, <1>8, <1>11, <1>12 DEF AssignmentsInv, SharesHold, BannedUnassigned, AssignedIsStored, store

\* A transaction that ends releases its locks; the others keep what they rely on
\* when the rows they hold, and the tasks they work on, are left alone.
LEMMA EndKeeps ==
    ASSUME AssignmentsInv, NEW p \in Proc, End(p),
           banned' \subseteq User, members' \subseteq Project \X User \X Row,
           home' \in [TaskId -> Project \cup {None}], assigned' \subseteq TaskId \X User,
           \A q \in Proc \ {p} : /\ txn[q].kind \in {"assign", "relocate"} => home'[txn[q].task] = home[txn[q].task]
                                 /\ txn[q].kind = "relocate" => \A u \in User : <<txn[q].task, u>> \in assigned' => <<txn[q].task, u>> \in assigned
                                 /\ \A u \in txn[q].shared : u \notin banned'
                                 /\ txn[q].kind # "members" => txn[q].rows \subseteq members',
           BannedUnassigned', AssignedIsStored'
    PROVE  AssignmentsInv'
<1>1. txn' = [txn EXCEPT ![p] = Idle] /\ started' = started
  BY DEF End
<1>2. /\ Idle \in Txn /\ Idle.kind = "idle" /\ Idle.step = "idle" /\ Idle.task = None
      /\ Idle.shared = {} /\ Idle.rows = {} /\ Idle.locked = {}
  BY DEF Idle, At, Txn, Kind, Step
<1>3. txn' \in [Proc -> Txn] /\ txn'[p] = Idle /\ \A q \in Proc \ {p} : txn'[q] = txn[q]
  BY <1>1, <1>2, OwnTxn
<1>4. TypeOK'
  BY <1>1, <1>3 DEF AssignmentsInv, TypeOK
<1>5. Fits(p)'
  BY <1>2, <1>3 DEF Fits
<1>6. ASSUME NEW q \in Proc \ {p} PROVE Fits(q)'
  BY <1>3, <1>6 DEF AssignmentsInv, TransactionsFit, Fits
<1>7. TransactionsFit'
  BY <1>2, <1>3, <1>5, <1>6 DEF AssignmentsInv, TransactionsFit
<1>8. (\A u : UserLocked(u)' => UserLocked(u)) /\ (\A m : RowDeleted(m)' => RowDeleted(m))
  BY <1>2, <1>3 DEF UserLocked, RowDeleted
<1>9. ShareHolds(p)'
  BY <1>2, <1>3 DEF ShareHolds
<1>10. ASSUME NEW q \in Proc \ {p} PROVE ShareHolds(q)'
  <2>1. ShareHolds(q) /\ Fits(q)
    BY DEF AssignmentsInv, SharesHold, TransactionsFit
  <2>2. txn[q].kind = "relocate" => \A u \in User : <<txn[q].task, u>> \in assigned' => u \in txn[q].users
    BY <2>1 DEF ShareHolds, Assignees
  <2> QED
    BY <1>3, <1>8, <1>10, <2>1, <2>2 DEF ShareHolds, Assignees
<1> QED
  BY <1>4, <1>7, <1>9, <1>10 DEF AssignmentsInv, SharesHold

\* The facts a commit starts from.
LEMMA Holding ==
    ASSUME AssignmentsInv, NEW q \in Proc
    PROVE  /\ Fits(q) /\ ShareHolds(q) /\ txn[q] \in Txn
           /\ \A u \in txn[q].shared : u \notin banned
           /\ txn[q].kind # "members" => txn[q].rows \subseteq members
           /\ txn[q].step = "write" => txn[q].shared = txn[q].users
           /\ txn[q].kind \in {"assign", "relocate"} => txn[q].task \in TaskId /\ home[txn[q].task] # None
BY DEF AssignmentsInv, SharesHold, TransactionsFit, TypeOK, ShareHolds, Fits

LEMMA RollbackKeeps == ASSUME AssignmentsInv, NEW p \in Proc, Rollback(p) PROVE AssignmentsInv'
<1>1. End(p) /\ UNCHANGED store
  BY DEF Rollback
<1>2. \A q \in Proc : /\ \A u \in txn[q].shared : u \notin banned'
                      /\ txn[q].kind # "members" => txn[q].rows \subseteq members'
  BY <1>1, Holding DEF store
<1> QED
  BY <1>1, <1>2, EndKeeps DEF AssignmentsInv, TypeOK, BannedUnassigned, AssignedIsStored, store

LEMMA CommitCreateKeeps == ASSUME AssignmentsInv, NEW p \in Proc, CommitCreate(p) PROVE AssignmentsInv'
<1>1. PICK t \in TaskId : /\ home[t] = None
                         /\ home' = [home EXCEPT ![t] = txn[p].project]
                         /\ assigned' = assigned \cup ({t} \X txn[p].users)
  BY DEF CommitCreate
<1>2. txn[p].kind = "create" /\ txn[p].step = "write" /\ End(p) /\ UNCHANGED <<banned, members>>
  BY DEF CommitCreate
<1>3. txn[p].users \subseteq User /\ txn[p].project \in Project
  BY <1>2, Holding DEF Txn, Fits
<1>4. \A u \in txn[p].users : u \notin banned
  BY <1>2, Holding
<1>5. \A q \in Proc : /\ \A u \in txn[q].shared : u \notin banned'
                      /\ txn[q].kind # "members" => txn[q].rows \subseteq members'
  BY <1>2, Holding
<1>6. \A q \in Proc : txn[q].kind \in {"assign", "relocate"} => txn[q].task # t /\ txn[q].task \in TaskId
  BY <1>1, Holding
<1>7. home' \in [TaskId -> Project \cup {None}] /\ \A s \in TaskId \ {t} : home'[s] = home[s]
  BY <1>1, <1>3 DEF AssignmentsInv, TypeOK
<1>8. assigned' \subseteq TaskId \X User /\ BannedUnassigned'
  BY <1>1, <1>2, <1>3, <1>4 DEF AssignmentsInv, TypeOK, BannedUnassigned
<1>9. \A s \in TaskId \ {t}, u \in User : <<s, u>> \in assigned' => <<s, u>> \in assigned
  BY <1>1
<1>10. AssignedIsStored'
  <2>1. home'[t] # None
    BY <1>1, <1>3, AssignmentsAssumption DEF AssignmentsInv, TypeOK
  <2>2. ASSUME NEW a \in assigned' PROVE home'[a[1]] # None
    BY <1>1, <1>3, <1>7, <2>1, <2>2 DEF AssignmentsInv, TypeOK, AssignedIsStored
  <2> QED BY <2>2 DEF AssignedIsStored
<1>11. ASSUME NEW q \in Proc, txn[q].kind \in {"assign", "relocate"}
      PROVE /\ home'[txn[q].task] = home[txn[q].task]
            /\ \A u \in User : <<txn[q].task, u>> \in assigned' => <<txn[q].task, u>> \in assigned
  BY <1>6, <1>7, <1>9, <1>11
<1>12. banned' \subseteq User /\ members' \subseteq Project \X User \X Row
  BY <1>2 DEF AssignmentsInv, TypeOK
<1> QED
  BY <1>2, <1>5, <1>7, <1>8, <1>10, <1>11, <1>12, EndKeeps

LEMMA CommitAssignKeeps == ASSUME AssignmentsInv, NEW p \in Proc, CommitAssign(p) PROVE AssignmentsInv'
<1> DEFINE t == txn[p].task
<1>1. /\ txn[p].kind = "assign" /\ txn[p].step = "write" /\ End(p) /\ UNCHANGED <<banned, members, home>>
      /\ assigned' = {a \in assigned : a[1] # t} \cup ({t} \X txn[p].users)
  BY DEF CommitAssign
<1>2. txn[p].users \subseteq User /\ t \in TaskId
  BY <1>1, Holding DEF Txn
<1>3. \A u \in txn[p].users : u \notin banned
  BY <1>1, Holding
<1>4. \A q \in Proc : /\ \A u \in txn[q].shared : u \notin banned'
                      /\ txn[q].kind # "members" => txn[q].rows \subseteq members'
  BY <1>1, Holding
<1>5. \A q \in Proc \ {p} : txn[q].kind \in {"assign", "relocate"} => txn[q].task # t /\ txn[q].task \in TaskId
  BY <1>1, <1>2, Holding, AssignmentsAssumption DEF AssignmentsInv, TransactionsFit
<1>6. assigned' \subseteq TaskId \X User /\ BannedUnassigned'
  BY <1>1, <1>2, <1>3 DEF AssignmentsInv, TypeOK, BannedUnassigned
<1>7. ASSUME NEW q \in Proc \ {p}, txn[q].kind \in {"assign", "relocate"}
      PROVE \A u \in User : <<txn[q].task, u>> \in assigned' => <<txn[q].task, u>> \in assigned
  BY <1>1, <1>5, <1>7
<1>8. AssignedIsStored'
  <2>1. home[t] # None
    BY <1>1, Holding
  <2> QED BY <1>1, <2>1 DEF AssignmentsInv, AssignedIsStored
<1>9. banned' \subseteq User /\ members' \subseteq Project \X User \X Row /\ home' \in [TaskId -> Project \cup {None}]
  BY <1>1 DEF AssignmentsInv, TypeOK
<1>10. home' = home
  BY <1>1
<1> QED
  BY <1>1, <1>4, <1>6, <1>7, <1>8, <1>9, <1>10, EndKeeps

LEMMA CommitRelocateKeeps == ASSUME AssignmentsInv, NEW p \in Proc, CommitRelocate(p) PROVE AssignmentsInv'
<1> DEFINE t == txn[p].task
<1>1. /\ txn[p].kind = "relocate" /\ End(p) /\ UNCHANGED <<banned, members, assigned>>
      /\ home' = [home EXCEPT ![t] = txn[p].project]
  BY DEF CommitRelocate
<1>2. t \in TaskId /\ txn[p].project \in Project
  BY <1>1, Holding DEF Fits
<1>3. \A q \in Proc : /\ \A u \in txn[q].shared : u \notin banned'
                      /\ txn[q].kind # "members" => txn[q].rows \subseteq members'
  BY <1>1, Holding
<1>4. \A q \in Proc \ {p} : txn[q].kind \in {"assign", "relocate"} => txn[q].task # t /\ txn[q].task \in TaskId
  BY <1>1, <1>2, Holding, AssignmentsAssumption DEF AssignmentsInv, TransactionsFit
<1>5. home' \in [TaskId -> Project \cup {None}] /\ \A s \in TaskId \ {t} : home'[s] = home[s]
  BY <1>1, <1>2 DEF AssignmentsInv, TypeOK
<1>6. AssignedIsStored'
  <2>1. home'[t] # None
    BY <1>1, <1>2, AssignmentsAssumption DEF AssignmentsInv, TypeOK
  <2> QED BY <1>1, <1>5, <2>1 DEF AssignmentsInv, AssignedIsStored, TypeOK
<1>7. BannedUnassigned' /\ banned' \subseteq User /\ members' \subseteq Project \X User \X Row
      /\ assigned' \subseteq TaskId \X User /\ assigned' = assigned
  BY <1>1 DEF AssignmentsInv, TypeOK, BannedUnassigned
<1>8. \A q \in Proc \ {p} : txn[q].kind \in {"assign", "relocate"} => home'[txn[q].task] = home[txn[q].task]
  BY <1>4, <1>5
<1> QED
  BY <1>1, <1>3, <1>5, <1>6, <1>7, <1>8, EndKeeps

\* Deleted memberships were locked, so no share covers them.
LEMMA CommitMembersKeeps == ASSUME AssignmentsInv, NEW p \in Proc, CommitMembers(p) PROVE AssignmentsInv'
<1>1. txn[p].kind = "members" /\ End(p) /\ UNCHANGED <<banned, home, assigned>>
  BY Holding DEF CommitMembers, Fits
<1>2. txn[p].users \subseteq User /\ txn[p].project \in Project
  BY <1>1, Holding DEF Txn, Fits
<1>3. members' \subseteq Project \X User \X Row /\ members \ txn[p].rows \subseteq members'
  <2>1. PICK row \in [txn[p].users -> Row] :
          members' = (members \ txn[p].rows) \cup {<<txn[p].project, u, row[u]>> : u \in txn[p].users}
    BY DEF CommitMembers
  <2> QED BY <1>2, <2>1 DEF AssignmentsInv, TypeOK
<1>4. ASSUME NEW q \in Proc
      PROVE  /\ \A u \in txn[q].shared : u \notin banned'
             /\ txn[q].kind # "members" => txn[q].rows \subseteq members'
  <2>1. txn[q].kind # "members" => \A m \in txn[q].rows : m \in members /\ m \notin txn[p].rows
    BY <1>1, Holding DEF ShareHolds, RowDeleted
  <2> QED BY <1>1, <1>3, <2>1, Holding
<1>5. /\ BannedUnassigned' /\ AssignedIsStored' /\ banned' \subseteq User
      /\ assigned' \subseteq TaskId \X User /\ home' \in [TaskId -> Project \cup {None}]
      /\ assigned' = assigned /\ home' = home
  BY <1>1 DEF AssignmentsInv, TypeOK, BannedUnassigned, AssignedIsStored
<1> QED
  BY <1>1, <1>3, <1>4, <1>5, EndKeeps

\* The UPDATE waits for the shares of the user's row.
LEMMA SaveKeeps ==
    ASSUME AssignmentsInv, NEW p \in Proc, UpdateUser(p) \/ SkipUpdate(p)
    PROVE  AssignmentsInv'
<1>1. txn[p] \in Txn /\ txn[p].step = "availability" /\ Fits(p) /\ ShareHolds(p) /\ UNCHANGED <<store, started>>
  BY Holding DEF UpdateUser, SkipUpdate
<1>2. PICK L \in {{}, txn[p].users} :
        /\ L = {} => txn[p].target = txn[p].ban \/ txn[p].users = {}
        /\ \A u \in L : ~UserShared(u)
        /\ txn' = [txn EXCEPT ![p] = [txn[p] EXCEPT !.step = "drop", !.locked = L]]
  <2>1. CASE SkipUpdate(p)
    <3>1. txn[p].locked = {}
      BY <1>1 DEF Fits
    <3>2. [txn[p] EXCEPT !.step = "drop"] = [txn[p] EXCEPT !.step = "drop", !.locked = {}]
      BY <1>1, <3>1 DEF Txn
    <3> QED BY <2>1, <3>2 DEF SkipUpdate
  <2>2. CASE UpdateUser(p)
    BY <2>2 DEF UpdateUser
  <2> QED BY <2>1, <2>2
<1> DEFINE new == [txn[p] EXCEPT !.step = "drop", !.locked = L]
<1>3. /\ new \in Txn /\ new.step = "drop" /\ new.shared = txn[p].shared /\ new.kind = txn[p].kind
      /\ new.task = txn[p].task /\ new.project = txn[p].project /\ new.users = txn[p].users
      /\ new.rows = txn[p].rows /\ new.locked = L /\ new.ban = txn[p].ban /\ new.target = txn[p].target
  BY <1>1 DEF Txn, Step
<1>4. txn' = [txn EXCEPT ![p] = new]
  BY <1>2
<1> HIDE DEF new
<1>5. txn' \in [Proc -> Txn] /\ txn'[p] = new /\ \A q \in Proc \ {p} : txn'[q] = txn[q]
  BY <1>3, <1>4, OwnTxn
<1>6. TypeOK'
  BY <1>1, <1>5 DEF AssignmentsInv, TypeOK, store
<1>7. Fits(p)'
  BY <1>1, <1>2, <1>3, <1>5 DEF Fits, store
<1>8. ASSUME NEW q \in Proc \ {p} PROVE Fits(q)'
  BY <1>1, <1>5, <1>8, Holding DEF Fits, store
<1>9. TransactionsFit'
  BY <1>3, <1>5, <1>7, <1>8 DEF AssignmentsInv, TransactionsFit
<1>10. /\ \A u : UserLocked(u)' => UserLocked(u) \/ u \in L
       /\ \A m : RowDeleted(m)' => RowDeleted(m)
  BY <1>3, <1>5 DEF UserLocked, RowDeleted
<1>11. ASSUME NEW q \in Proc PROVE ShareHolds(q)'
  <2>1. ShareHolds(q) /\ \A u \in txn[q].shared : u \notin L
    BY <1>2, Holding DEF UserShared
  <2>2. /\ txn'[q].shared = txn[q].shared /\ txn'[q].project = txn[q].project /\ txn'[q].task = txn[q].task
        /\ txn'[q].kind = txn[q].kind /\ txn'[q].users = txn[q].users /\ txn'[q].rows = txn[q].rows
    BY <1>3, <1>5
  <2>3. txn'[q].shared = IF txn'[q].step = "write" THEN txn'[q].users ELSE {}
    <3>1. CASE q = p
      BY <1>1, <1>3, <1>5, <3>1 DEF ShareHolds
    <3>2. CASE q # p
      BY <1>5, <2>1, <3>2 DEF ShareHolds
    <3> QED BY <3>1, <3>2
  <2> QED
    BY <1>1, <1>10, <2>1, <2>2, <2>3 DEF ShareHolds, store, Assignees
<1> QED
  BY <1>1, <1>6, <1>9, <1>11 DEF AssignmentsInv, SharesHold, BannedUnassigned, AssignedIsStored, store

\* Blocking takes the assignments of a user nobody holds a share of.
LEMMA CommitAvailabilityKeeps ==
    ASSUME AssignmentsInv, NEW p \in Proc, CommitAvailability(p) PROVE AssignmentsInv'
<1> DEFINE blocked == banned' \ banned
<1>1. /\ txn[p].step = "drop" /\ End(p) /\ UNCHANGED <<members, home>>
      /\ banned' = IF txn[p].target = txn[p].ban THEN banned
                   ELSE IF txn[p].target THEN banned \cup txn[p].users ELSE banned \ txn[p].users
      /\ assigned' = IF txn[p].target THEN {a \in assigned : a[2] \notin txn[p].users} ELSE assigned
  BY DEF CommitAvailability, SetBan
<1>2. /\ txn[p].users \subseteq User
      /\ blocked # {} => txn[p].target /\ txn[p].locked = txn[p].users /\ blocked \subseteq txn[p].users
  BY <1>1, Holding DEF Txn, Fits
<1>3. ASSUME NEW q \in Proc
      PROVE  /\ \A u \in txn[q].shared : u \notin banned'
             /\ txn[q].kind # "members" => txn[q].rows \subseteq members'
  <2>1. \A u \in txn[q].shared : u \notin banned /\ ~UserLocked(u)
    BY Holding DEF ShareHolds
  <2> QED BY <1>1, <1>2, <2>1, Holding DEF UserLocked
<1>4. banned' \subseteq User /\ assigned' \subseteq TaskId \X User /\ assigned' \subseteq assigned
  BY <1>1, <1>2 DEF AssignmentsInv, TypeOK
<1>5. BannedUnassigned'
  BY <1>1, <1>2 DEF AssignmentsInv, BannedUnassigned
<1>6. /\ AssignedIsStored' /\ members' \subseteq Project \X User \X Row
      /\ home' \in [TaskId -> Project \cup {None}] /\ home' = home
  BY <1>1, <1>4 DEF AssignmentsInv, TypeOK, AssignedIsStored
<1> QED
  BY <1>1, <1>3, <1>4, <1>5, <1>6, EndKeeps

----------------------------------------------------------------------------

LEMMA NextKeeps == ASSUME AssignmentsInv, [Next]_vars PROVE AssignmentsInv'
<1>1. CASE UNCHANGED vars
  BY <1>1 DEF vars, AssignmentsInv, TypeOK, TransactionsFit, Fits, SharesHold, ShareHolds,
              UserLocked, RowDeleted, Assignees, BannedUnassigned, AssignedIsStored
<1>2. ASSUME NEW p \in Proc, NewRequest(p) PROVE AssignmentsInv'
  BY <1>2, NewRequestKeeps, StartMembersKeeps, LockForSyncKeeps
<1>3. ASSUME NEW p \in Proc, TaskStep(p) PROVE AssignmentsInv'
  BY <1>3, CheckMembersKeeps, CommitCreateKeeps, CommitAssignKeeps, CommitRelocateKeeps DEF TaskStep
<1>4. ASSUME NEW p \in Proc, UserStep(p) PROVE AssignmentsInv'
  BY <1>4, CommitMembersKeeps, SaveKeeps, CommitAvailabilityKeeps DEF UserStep
<1> QED
  BY <1>1, <1>2, <1>3, <1>4, RollbackKeeps DEF Next

\* Shares, locks and assignments fit each other in every reachable state.
THEOREM SharesProtect == Spec => []AssignmentsInv
BY InitInv, NextKeeps, PTL DEF Spec

\* A blocked user is assigned to no task, however blocking and assigning
\* interleave (ProjectAccessService.getActiveMemberIds, saveUserAvailability).
THEOREM BlockedIsUnassigned == Spec => []BannedUnassigned
<1>1. AssignmentsInv => BannedUnassigned
  BY DEF AssignmentsInv
<1> QED
  BY <1>1, SharesProtect, PTL

\* Outside the three commits of task transactions no assignment appears and no
\* task changes its project.
LEMMA OnlyCommitsAssign ==
    ASSUME NEW p \in Proc, NewRequest(p) \/ CheckMembers(p) \/ UserStep(p) \/ Rollback(p)
    PROVE  assigned' \subseteq assigned /\ home' = home
BY DEF NewRequest, StartCreate, StartMembers, StartAssign, StartRelocate, ReadForEvent, LockForSync,
       ReadForArchive, ReadForLogin, CheckMembers, UserStep, CommitMembers, UpdateUser, SkipUpdate, CommitAvailability, Rollback, store

LEMMA CommitsAssignActive ==
    ASSUME AssignmentsInv, NEW p \in Proc, CommitCreate(p) \/ CommitAssign(p) \/ CommitRelocate(p)
    PROVE  AssignsActiveMembers
<1>1. txn[p].step = "write" /\ UNCHANGED <<banned, members>>
  BY DEF CommitCreate, CommitAssign, CommitRelocate
<1>2. \A u \in txn[p].users : u \in User /\ Active(txn[p].project, u)
  <2>1. txn[p].kind # "members" /\ txn[p].rows \subseteq members /\ txn[p].shared = txn[p].users
    BY <1>1, Holding DEF Fits
  <2>2. ASSUME NEW u \in txn[p].users PROVE u \in User /\ Active(txn[p].project, u)
    <3>1. PICK m \in txn[p].rows : m[1] = txn[p].project /\ m[2] = u
      BY <2>1, Holding DEF ShareHolds
    <3> QED BY <2>1, <3>1, Holding DEF Active, Memberships, Txn
  <2> QED BY <2>2
<1>3. home \in [TaskId -> Project \cup {None}] /\ assigned \subseteq TaskId \X User
  BY DEF AssignmentsInv, TypeOK
<1>4. CASE CommitCreate(p)
  <2>1. PICK t \in TaskId : /\ home' = [home EXCEPT ![t] = txn[p].project]
                           /\ home[t] = None
                           /\ assigned' = assigned \cup ({t} \X txn[p].users)
    BY <1>4 DEF CommitCreate
  <2>2. home'[t] = txn[p].project /\ \A s \in TaskId \ {t} : home'[s] = home[s]
    BY <1>3, <2>1
  <2>3. \A a \in assigned : a[1] # t
    BY <2>1 DEF AssignmentsInv, AssignedIsStored
  <2> QED BY <1>1, <1>2, <1>3, <2>1, <2>2, <2>3 DEF AssignsActiveMembers
<1>5. CASE CommitAssign(p)
  <2>1. txn[p].project = home[txn[p].task]
    BY <1>5, Holding DEF CommitAssign, Fits
  <2> QED BY <1>1, <1>2, <1>5, <2>1 DEF CommitAssign, AssignsActiveMembers
<1>6. CASE CommitRelocate(p)
  <2>1. txn[p].task \in TaskId /\ Assignees(txn[p].task) \subseteq txn[p].users
    BY <1>6, Holding DEF CommitRelocate, ShareHolds
  <2>2. home'[txn[p].task] = txn[p].project /\ \A s \in TaskId \ {txn[p].task} : home'[s] = home[s]
    BY <1>3, <1>6, <2>1 DEF CommitRelocate
  <2> QED BY <1>1, <1>2, <1>3, <1>6, <2>1, <2>2 DEF CommitRelocate, AssignsActiveMembers, Assignees
<1> QED
  BY <1>4, <1>5, <1>6

\* An assignment is stored, or enters another project, only for an active member of
\* the task's project at that moment (assertAssigneesBelongToProject).
THEOREM AssigneesAreActive == Spec => OnlyActiveMembers
<1>1. ASSUME AssignmentsInv, [Next]_vars PROVE [AssignsActiveMembers]_vars
  <2>1. ASSUME NEW p \in Proc, NewRequest(p) \/ CheckMembers(p) \/ UserStep(p) \/ Rollback(p)
        PROVE  AssignsActiveMembers
    BY <2>1, OnlyCommitsAssign DEF AssignsActiveMembers
  <2> QED
    BY <1>1, <2>1, CommitsAssignActive DEF Next, TaskStep
<1> QED
  BY <1>1, SharesProtect, PTL DEF Spec, OnlyActiveMembers

----------------------------------------------------------------------------
(* AccessTokens. Sessions only end, so a token that is open now was open all the time; and
   each candidate is still to be checked, the one selected, or was found shut. *)

\* ErpToken and TokensOf, of a request's state.
ErpOf(s) == IF s.sent.jar = <<>> THEN NoToken ELSE Head(s.sent.jar)
CandidatesOf(s) ==
    CASE ~ central -> {ErpOf(s)} \ {NoToken}
      [] central /\ s.sent.header # NoToken -> {s.sent.header} \cap Token
      [] OTHER -> Range(s.sent.jar)

\* Who the accepted request is.
RightlyAccepted(s) ==
    \E token \in CandidatesOf(s) :
       /\ s.as = OwnerOf[token]
       /\ central => token \in s.open /\ CandidatesOf(s) \ {token} \subseteq s.shut

\* The sessions that were open during the request, and those that were not.
Watches(s) == s.step \notin {"idle", "done"} =>
                 session \subseteq s.open /\ Token \ session \subseteq s.shut

\* What is selected, and what becomes of the others.
Selects(s) ==
    /\ s.step \in {"board session", "candidates"} => s.selected = NoToken
    /\ s.step = "board session" => ~ central
    /\ s.step = "candidates" => central
    /\ s.step = "check" => Range(s.left) \subseteq CandidatesOf(s)
    /\ s.step \in {"check", "sync"} /\ s.selected # NoToken =>
          s.selected \in CandidatesOf(s) /\ (central => s.selected \in s.open)
    /\ s.step = "check" /\ central => CandidatesOf(s) \subseteq Range(s.left) \cup {s.selected} \cup s.shut
    /\ s.step = "sync" => s.selected # NoToken
    /\ s.step = "sync" /\ central => CandidatesOf(s) \subseteq {s.selected} \cup s.shut

Answers(s) ==
    /\ s.board # <<>> => s.board[1] = OwnerOf[s.board[2]]
    /\ s.answer # "accepted" => s.synced = {}
    /\ s.answer = "accepted" => s.step = "done" /\ RightlyAccepted(s)

Sound(s) == s \in HttpState /\ Watches(s) /\ Selects(s) /\ Answers(s)

TokensInv ==
    /\ central \in BOOLEAN /\ session \subseteq Token \ Broken
    /\ cookies \subseteq Identity \X Token
    /\ \A p \in cookies : p[1] = OwnerOf[p[2]]
    /\ http \in [Http -> HttpState]
    /\ \A r \in Http : Sound(http[r])

----------------------------------------------------------------------------

\* A request goes on while the sessions stay.
LEMMA RequestGoesOn ==
    ASSUME TokensInv, NEW r \in Http, NEW new, http' = [http EXCEPT ![r] = new], Sound(new),
           UNCHANGED <<central, session>>,
           cookies' \subseteq Identity \X Token, \A p \in cookies' : p[1] = OwnerOf[p[2]]
    PROVE  TokensInv'
<1>1. new \in HttpState
  BY DEF Sound
<1>2. /\ http' \in [Http -> HttpState] /\ http'[r] = new
      /\ \A q \in Http \ {r} : http'[q] = http[q]
  BY <1>1 DEF TokensInv
<1>3. \A q \in Http : Sound(http'[q])
  BY <1>2 DEF TokensInv
<1>4. ASSUME NEW q \in Http PROVE Sound(http'[q]) => Sound(http[q])'
  <2>1. CandidatesOf(http[q])' = CandidatesOf(http'[q])
    BY DEF CandidatesOf, ErpOf
  <2>2. Watches(http'[q]) => Watches(http[q])'
    BY DEF Watches
  <2>3. Selects(http'[q]) => Selects(http[q])'
    BY <2>1 DEF Selects
  <2>4. Answers(http'[q]) => Answers(http[q])'
    BY <2>1 DEF Answers, RightlyAccepted
  <2>. QED BY <2>2, <2>3, <2>4 DEF Sound, HttpState
<1>. QED BY <1>2, <1>3, <1>4 DEF TokensInv

\* The sequence of candidates and its elements.
LEMMA Elements ==
    ASSUME NEW s \in Seq(Token)
    PROVE  /\ Range(s) \subseteq Token
           /\ s = <<>> => Range(s) = {}
           /\ s # <<>> => /\ Head(s) \in Range(s) /\ Tail(s) \in Seq(Token)
                          /\ Range(s) = {Head(s)} \cup Range(Tail(s))
<1>1. Range(s) \subseteq Token /\ (s = <<>> => Range(s) = {})
  BY DEF Range
<1>2. ASSUME s # <<>> PROVE Head(s) \in Range(s) /\ Tail(s) \in Seq(Token)
  BY <1>2 DEF Range
<1>3. ASSUME s # <<>> PROVE Range(s) = {Head(s)} \cup Range(Tail(s))
  <2>1. ASSUME NEW i \in DOMAIN s PROVE s[i] \in {Head(s)} \cup Range(Tail(s))
    <3>1. CASE i = 1
      BY <1>3, <3>1
    <3>2. CASE i # 1
      <4>1. i - 1 \in DOMAIN Tail(s) /\ Tail(s)[i - 1] = s[i]
        BY <1>3, <3>2
      <4>. QED BY <4>1 DEF Range
    <3>. QED BY <3>1, <3>2
  <2>2. ASSUME NEW i \in DOMAIN Tail(s) PROVE Tail(s)[i] \in Range(s)
    <3>1. i + 1 \in DOMAIN s /\ Tail(s)[i] = s[i + 1]
      BY <1>3
    <3>. QED BY <3>1 DEF Range
  <2>3. Range(s) \subseteq {Head(s)} \cup Range(Tail(s))
    BY <2>1 DEF Range
  <2>4. {Head(s)} \cup Range(Tail(s)) \subseteq Range(s)
    BY <1>2, <1>3, <2>2 DEF Range
  <2>. QED BY <2>3, <2>4
<1>. QED BY <1>1, <1>2, <1>3

\* What a request may be: tokens it has sent.
LEMMA SentTokens ==
    ASSUME NEW s \in HttpState
    PROVE  /\ CandidatesOf(s) \subseteq Token
           /\ s.sent.jar # <<>> => ErpOf(s) \in Token /\ ErpOf(s) # NoToken
           /\ s.sent.jar = <<>> => ErpOf(s) = NoToken
           /\ s.sent.jar \in Seq(Token)
<1>1. s.sent \in Sent /\ s.sent.jar \in Seq(Token)
  BY AccessTokensAssumption DEF HttpState
<1>2. /\ s.sent.jar # <<>> => ErpOf(s) \in Token /\ ErpOf(s) # NoToken
      /\ s.sent.jar = <<>> => ErpOf(s) = NoToken
  BY <1>1, AccessTokensAssumption DEF ErpOf
<1>3. Range(s.sent.jar) \subseteq Token
  BY <1>1, Elements
<1>4. CandidatesOf(s) \subseteq Token
  BY <1>2, <1>3 DEF CandidatesOf
<1>. QED BY <1>1, <1>2, <1>4

\* A request before anything has been read.
LEMMA NoHttpState == NoHttp \in HttpState
<1>1. (CHOOSE s \in Sent : TRUE) \in Sent
  BY AccessTokensAssumption
<1>2. <<>> \in Seq(Token)
  OBVIOUS
<1>. QED BY <1>1, <1>2 DEF NoHttp, HttpState

----------------------------------------------------------------------------
(* One lemma for each action. *)

LEMMA RequestComesKeeps ==
    ASSUME TokensInv, NEW r \in Http, RequestComes(r), UNCHANGED central PROVE TokensInv'
<1>1. PICK s \in Sent, board \in IF central THEN {<<>>} ELSE cookies \cup {<<>>} :
          HttpBecomes(r, [NoHttp EXCEPT !.sent = s, !.board = board, !.open = session,
                            !.shut = Token \ session,
                            !.step = IF central THEN "candidates" ELSE "board session"])
  BY DEF RequestComes
<1>. DEFINE new == [NoHttp EXCEPT !.sent = s, !.board = board, !.open = session,
                                  !.shut = Token \ session,
                                  !.step = IF central THEN "candidates" ELSE "board session"]
<1>2. /\ board \in (Identity \X Token) \cup {<<>>}
      /\ board # <<>> => board[1] = OwnerOf[board[2]]
      /\ session \in SUBSET Token
  BY DEF TokensInv
<1>3. /\ new.sent = s /\ new.board = board /\ new.open = session /\ new.shut = Token \ session
      /\ new.step = (IF central THEN "candidates" ELSE "board session")
      /\ new.selected = NoToken /\ new.answer = "none" /\ new.synced = {}
  BY DEF NoHttp
<1>4. new \in HttpState
  BY <1>2, NoHttpState DEF HttpState
<1>5. http' = [http EXCEPT ![r] = new] /\ UNCHANGED <<central, session, cookies>>
  BY <1>1 DEF HttpBecomes, RequestComes, NobodySynced
<1>. HIDE DEF new
<1>6. Watches(new) /\ Selects(new) /\ Answers(new)
  BY <1>2, <1>3 DEF Watches, Selects, Answers, TokensInv
<1>. QED BY <1>4, <1>5, <1>6, RequestGoesOn DEF Sound, TokensInv

LEMMA RequestIsOverKeeps ==
    ASSUME TokensInv, NEW r \in Http, RequestIsOver(r), UNCHANGED central PROVE TokensInv'
<1>1. http' = [http EXCEPT ![r] = NoHttp] /\ UNCHANGED <<central, session, cookies>>
  BY DEF HttpBecomes, RequestIsOver, NobodySynced
<1>2. /\ NoHttp.step = "idle" /\ NoHttp.board = <<>> /\ NoHttp.answer = "none"
      /\ NoHttp.synced = {}
  BY DEF NoHttp
<1>3. Watches(NoHttp) /\ Selects(NoHttp) /\ Answers(NoHttp)
  BY <1>2 DEF Watches, Selects, Answers
<1>. QED BY <1>1, <1>3, NoHttpState, RequestGoesOn DEF Sound, TokensInv

\* A request that is not accepted has synchronized nobody.
LEMMA AnsweredKeeps ==
    ASSUME TokensInv, NEW r \in Http, NEW answer \in {"refused", "unavailable"},
           http[r].step \notin {"idle", "done"}, Answered(r, answer),
           UNCHANGED <<central, session, cookies>>
    PROVE  TokensInv'
<1>. DEFINE new == [http[r] EXCEPT !.step = "done", !.answer = answer]
<1>1. http[r] \in HttpState /\ Answers(http[r])
  BY DEF TokensInv, Sound
<1>2. /\ new \in HttpState /\ new.step = "done" /\ new.answer = answer
      /\ new.board = http[r].board /\ new.synced = http[r].synced
  BY <1>1 DEF HttpState
<1>3. http' = [http EXCEPT ![r] = new]
  BY DEF Answered, HttpBecomes
<1>. HIDE DEF new
<1>4. Watches(new) /\ Selects(new) /\ Answers(new)
  BY <1>1, <1>2 DEF Watches, Selects, Answers
<1>. QED BY <1>2, <1>3, <1>4, RequestGoesOn DEF Sound, TokensInv

\* The board_token of the old mode is its owner's, and stands for the ERP cookie.
LEMMA BoardSessionKeeps ==
    ASSUME TokensInv, NEW r \in Http, BoardSession(r), UNCHANGED central PROVE TokensInv'
<1>. DEFINE s == http[r]
            current == IsCurrentBoardSession(r) /\ s.board[1] \notin barred
<1>1. /\ s \in HttpState /\ Watches(s) /\ Selects(s) /\ Answers(s)
      /\ s.step = "board session" /\ ~ central /\ UNCHANGED <<central, session, cookies>>
  BY DEF TokensInv, Sound, BoardSession, AtHttp, Selects, NobodySynced
<1>2. ErpToken(r) = ErpOf(s) /\ CandidatesOf(s) = {ErpOf(s)} \ {NoToken}
  BY <1>1 DEF ErpToken, ErpOf, CandidatesOf
<1>3. CASE current
  <2>. DEFINE new == [s EXCEPT !.step = "done", !.answer = "accepted", !.as = s.board[1]]
  <2>1. http' = [http EXCEPT ![r] = new]
    BY <1>3 DEF BoardSession, HttpBecomes
  <2>2. /\ s.board # <<>> /\ s.board \in Identity \X Token /\ s.board[2] = ErpOf(s)
        /\ ErpOf(s) # NoToken
    BY <1>1, <1>2, <1>3 DEF IsCurrentBoardSession, HttpState
  <2>3. /\ new \in HttpState /\ new.step = "done" /\ new.answer = "accepted"
        /\ new.as = s.board[1] /\ new.board = s.board /\ new.sent = s.sent
    BY <1>1, <2>2 DEF HttpState
  <2>. HIDE DEF new
  <2>4. CandidatesOf(new) = CandidatesOf(s)
    BY <2>3 DEF CandidatesOf, ErpOf
  <2>5. RightlyAccepted(new)
    BY <1>1, <1>2, <2>2, <2>3, <2>4 DEF RightlyAccepted, Answers
  <2>6. Watches(new) /\ Selects(new) /\ Answers(new)
    BY <1>1, <2>3, <2>5 DEF Watches, Selects, Answers
  <2>. QED BY <1>1, <2>1, <2>3, <2>6, RequestGoesOn DEF Sound, TokensInv
<1>4. CASE ~ current /\ ErpToken(r) = NoToken
  BY <1>1, <1>4, AnsweredKeeps DEF BoardSession
<1>5. CASE ~ current /\ ErpToken(r) # NoToken
  <2>. DEFINE new == [s EXCEPT !.step = "check", !.left = <<ErpToken(r)>>]
  <2>1. http' = [http EXCEPT ![r] = new]
    BY <1>5 DEF BoardSession, HttpBecomes
  <2>2. ErpToken(r) \in Token /\ <<ErpToken(r)>> \in Seq(Token)
    <3>1. ErpOf(s) # NoToken
      BY <1>2, <1>5
    <3>2. ErpOf(s) \in Token
      BY <1>1, <3>1, SentTokens
    <3>. QED BY <1>2, <3>2
  <2>3. /\ new \in HttpState /\ new.step = "check" /\ new.left = <<ErpToken(r)>>
        /\ new.selected = s.selected /\ new.sent = s.sent /\ new.board = s.board
        /\ new.answer = s.answer /\ new.synced = s.synced /\ new.open = s.open /\ new.shut = s.shut
    BY <1>1, <2>2 DEF HttpState
  <2>4. Range(<<ErpToken(r)>>) = {ErpToken(r)}
    BY DEF Range
  <2>. HIDE DEF new
  <2>5. CandidatesOf(new) = CandidatesOf(s)
    BY <2>3 DEF CandidatesOf, ErpOf
  <2>6. Watches(new) /\ Selects(new) /\ Answers(new)
    BY <1>1, <1>2, <1>5, <2>3, <2>4, <2>5 DEF Watches, Selects, Answers
  <2>. QED BY <1>1, <2>1, <2>3, <2>6, RequestGoesOn DEF Sound, TokensInv
<1>. QED BY <1>3, <1>4, <1>5

\* What is to be checked is what the request may be.
LEMMA GetAccessTokenCandidatesKeeps ==
    ASSUME TokensInv, NEW r \in Http, GetAccessTokenCandidates(r), UNCHANGED central
    PROVE  TokensInv'
<1>. DEFINE s == http[r]
            header == s.sent.header
            tokens == IF header = NoToken THEN s.sent.jar ELSE <<header>>
            refuses == header = "malformed" \/ Len(tokens) > MaxTokens
<1>1. /\ s \in HttpState /\ Watches(s) /\ Selects(s) /\ Answers(s)
      /\ s.step = "candidates" /\ central /\ s.selected = NoToken
      /\ UNCHANGED <<central, session, cookies>>
  BY DEF TokensInv, Sound, GetAccessTokenCandidates, AtHttp, Selects, NobodySynced
<1>2. CASE refuses
  BY <1>1, <1>2, AnsweredKeeps DEF GetAccessTokenCandidates
<1>3. CASE ~ refuses
  <2>. DEFINE new == [s EXCEPT !.step = "check", !.left = tokens]
  <2>1. http' = [http EXCEPT ![r] = new]
    BY <1>3 DEF GetAccessTokenCandidates, HttpBecomes
  <2>2. s.sent \in Sent
    BY <1>1 DEF HttpState
  <2>3. tokens \in Seq(Token) /\ Range(tokens) = CandidatesOf(s)
    <3>1. CASE header = NoToken
      BY <1>1, <2>2, <3>1, SentTokens DEF CandidatesOf
    <3>2. CASE header # NoToken
      <4>1. header \in Token
        BY <1>3, <2>2, <3>2, AccessTokensAssumption
      <4>2. Range(<<header>>) = {header} /\ <<header>> \in Seq(Token)
        BY <4>1 DEF Range
      <4>. QED BY <1>1, <3>2, <4>1, <4>2 DEF CandidatesOf
    <3>. QED BY <3>1, <3>2
  <2>. HIDE DEF tokens
  <2>4. /\ new \in HttpState /\ new.step = "check" /\ new.left = tokens
        /\ new.selected = NoToken /\ new.sent = s.sent /\ new.board = s.board
        /\ new.answer = s.answer /\ new.synced = s.synced /\ new.open = s.open /\ new.shut = s.shut
    BY <1>1, <2>3 DEF HttpState
  <2>. HIDE DEF new
  <2>5. CandidatesOf(new) = CandidatesOf(s)
    BY <2>4 DEF CandidatesOf, ErpOf
  <2>6. Watches(new) /\ Selects(new) /\ Answers(new)
    BY <1>1, <2>3, <2>4, <2>5 DEF Watches, Selects, Answers
  <2>. QED BY <1>1, <2>1, <2>4, <2>6, RequestGoesOn DEF Sound, TokensInv
<1>. QED BY <1>2, <1>3

\* A candidate is passed over: it was found shut, or is the one selected.
LEMMA CheckGoesOnKeeps ==
    ASSUME TokensInv, NEW r \in Http, http[r].step = "check", http[r].left # <<>>,
           NEW selected \in Token \cup {NoToken}, CheckGoesOn(r, selected),
           \/ selected = http[r].selected /\ (central => Head(http[r].left) \notin session)
           \/ /\ selected = Head(http[r].left) /\ http[r].selected = NoToken
              /\ selected \in session,
           UNCHANGED <<central, session, cookies>>
    PROVE  TokensInv'
<1>. DEFINE s == http[r]
            head == Head(s.left)
            new == [s EXCEPT !.left = Tail(@), !.selected = selected]
<1>1. /\ s \in HttpState /\ Watches(s) /\ Selects(s) /\ Answers(s) /\ s.step = "check"
      /\ s.left \in Seq(Token) /\ s.left # <<>>
  BY DEF TokensInv, Sound, HttpState
<1>2. /\ head \in Range(s.left) /\ Tail(s.left) \in Seq(Token)
      /\ Range(s.left) = {head} \cup Range(Tail(s.left)) /\ Range(s.left) \subseteq Token
  BY <1>1, Elements
<1>3. http' = [http EXCEPT ![r] = new]
  BY DEF CheckGoesOn, HttpBecomes
<1>4. /\ new \in HttpState /\ new.step = "check" /\ new.left = Tail(s.left)
      /\ new.selected = selected /\ new.sent = s.sent /\ new.board = s.board
      /\ new.answer = s.answer /\ new.synced = s.synced /\ new.open = s.open /\ new.shut = s.shut
  BY <1>1, <1>2 DEF HttpState
<1>. HIDE DEF new
<1>5. CandidatesOf(new) = CandidatesOf(s)
  BY <1>4 DEF CandidatesOf, ErpOf
<1>6. head \in CandidatesOf(s) /\ Range(Tail(s.left)) \subseteq CandidatesOf(s)
  BY <1>1, <1>2 DEF Selects
<1>7. session \subseteq s.open /\ Token \ session \subseteq s.shut
  BY <1>1 DEF Watches
<1>8. selected # NoToken => selected \in CandidatesOf(s) /\ (central => selected \in s.open)
  BY <1>1, <1>6, <1>7 DEF Selects
<1>9. central => CandidatesOf(s) \subseteq Range(Tail(s.left)) \cup {selected} \cup s.shut
  <2>1. CASE selected = s.selected /\ (central => head \notin session)
    <3>1. central => head \in s.shut
      BY <1>2, <1>7, <2>1
    <3>. QED BY <1>1, <1>2, <2>1, <3>1 DEF Selects
  <2>2. CASE selected = head /\ s.selected = NoToken
    <3>1. NoToken \notin CandidatesOf(s)
      BY <1>1, SentTokens, AccessTokensAssumption
    <3>. QED BY <1>1, <1>2, <2>2, <3>1 DEF Selects
  <2>. QED BY <2>1, <2>2
<1>10. Selects(new)
  BY <1>4, <1>5, <1>6, <1>8, <1>9 DEF Selects
<1>11. Watches(new) /\ Answers(new)
  BY <1>1, <1>4 DEF Watches, Answers
<1>. QED BY <1>3, <1>4, <1>10, <1>11, RequestGoesOn DEF Sound, TokensInv

LEMMA VerifyCandidateKeeps ==
    ASSUME TokensInv, NEW r \in Http, VerifyCandidate(r), UNCHANGED central PROVE TokensInv'
<1>. DEFINE s == http[r]
            token == Head(s.left)
            skipped == central /\ token \in Broken
<1>1. /\ s \in HttpState /\ s.step = "check" /\ s.left # <<>>
      /\ s.selected \in Token \cup {NoToken} /\ s.left \in Seq(Token)
      /\ session \subseteq Token \ Broken
      /\ UNCHANGED <<central, session, cookies>>
  BY DEF TokensInv, Sound, VerifyCandidate, AtHttp, NobodySynced, HttpState
<1>2. token \in Token
  BY <1>1, Elements
<1>3. CASE skipped /\ CheckGoesOn(r, s.selected)
  BY <1>1, <1>3, CheckGoesOnKeeps
<1>4. CASE /\ ~ skipped /\ token \in session
           /\ IF s.selected = NoToken THEN CheckGoesOn(r, token) ELSE Answered(r, "refused")
  <2>1. CASE s.selected = NoToken
    BY <1>1, <1>2, <1>4, <2>1, CheckGoesOnKeeps
  <2>2. CASE s.selected # NoToken
    BY <1>1, <1>4, <2>2, AnsweredKeeps
  <2>. QED BY <2>1, <2>2
<1>5. CASE /\ ~ skipped /\ token \notin session
           /\ IF central THEN CheckGoesOn(r, s.selected) ELSE Answered(r, "refused")
  <2>1. CASE central
    BY <1>1, <1>5, <2>1, CheckGoesOnKeeps
  <2>2. CASE ~ central
    BY <1>1, <1>5, <2>2, AnsweredKeeps
  <2>. QED BY <2>1, <2>2
<1>6. CASE ~ skipped /\ Answered(r, IF central THEN "unavailable" ELSE "refused")
  BY <1>1, <1>6, AnsweredKeeps
<1>. QED BY <1>3, <1>4, <1>5, <1>6 DEF VerifyCandidate

LEMMA AllCheckedKeeps ==
    ASSUME TokensInv, NEW r \in Http, AllChecked(r), UNCHANGED central PROVE TokensInv'
<1>. DEFINE s == http[r]
<1>1. /\ s \in HttpState /\ Watches(s) /\ Selects(s) /\ Answers(s)
      /\ s.step = "check" /\ s.left = <<>> /\ UNCHANGED <<central, session, cookies>>
  BY DEF TokensInv, Sound, AllChecked, AtHttp, NobodySynced
<1>2. CASE s.selected = NoToken
  BY <1>1, <1>2, AnsweredKeeps DEF AllChecked
<1>3. CASE s.selected # NoToken
  <2>. DEFINE new == [s EXCEPT !.step = "sync"]
  <2>1. http' = [http EXCEPT ![r] = new]
    BY <1>3 DEF AllChecked, HttpBecomes
  <2>2. /\ new \in HttpState /\ new.step = "sync"
        /\ new.selected = s.selected /\ new.sent = s.sent /\ new.board = s.board
        /\ new.answer = s.answer /\ new.synced = s.synced /\ new.open = s.open /\ new.shut = s.shut
    BY <1>1 DEF HttpState
  <2>. HIDE DEF new
  <2>3. CandidatesOf(new) = CandidatesOf(s) /\ Range(s.left) = {}
    <3>1. s.left \in Seq(Token)
      BY <1>1 DEF HttpState
    <3>2. Range(s.left) = {}
      BY <1>1, <3>1, Elements
    <3>. QED BY <2>2, <3>2 DEF CandidatesOf, ErpOf
  <2>4. Watches(new) /\ Selects(new) /\ Answers(new)
    BY <1>1, <1>3, <2>2, <2>3 DEF Watches, Selects, Answers
  <2>. QED BY <1>1, <2>1, <2>2, <2>4, RequestGoesOn DEF Sound, TokensInv
<1>. QED BY <1>2, <1>3

\* The accepted request is the owner of the token it selected.
LEMMA SyncBoardUserKeeps ==
    ASSUME TokensInv, NEW r \in Http, SyncBoardUser(r), UNCHANGED central PROVE TokensInv'
<1>. DEFINE s == http[r]
            token == s.selected
            user == OwnerOf[token]
<1>1. /\ s \in HttpState /\ Watches(s) /\ Selects(s) /\ Answers(s)
      /\ s.step = "sync" /\ token \in CandidatesOf(s) /\ (central => token \in s.open)
      /\ (central => CandidatesOf(s) \subseteq {token} \cup s.shut)
      /\ UNCHANGED <<central, session>>
  BY DEF TokensInv, Sound, SyncBoardUser, AtHttp, Selects
<1>2. token \in Token /\ user \in Identity
  BY <1>1, SentTokens, AccessTokensAssumption
<1>3. CASE Answered(r, "refused") /\ UNCHANGED cookies
  BY <1>1, <1>3, AnsweredKeeps
<1>4. CASE /\ HttpBecomes(r, [s EXCEPT !.step = "done", !.answer = "accepted",
                                       !.as = user, !.synced = {user}])
           /\ cookies' = IF central THEN cookies ELSE cookies \cup {<<user, token>>}
  <2>. DEFINE new == [s EXCEPT !.step = "done", !.answer = "accepted",
                               !.as = user, !.synced = {user}]
  <2>1. http' = [http EXCEPT ![r] = new]
    BY <1>4 DEF HttpBecomes
  <2>2. /\ new \in HttpState /\ new.step = "done" /\ new.answer = "accepted" /\ new.as = user
        /\ new.sent = s.sent /\ new.board = s.board /\ new.open = s.open /\ new.shut = s.shut
    BY <1>1, <1>2 DEF HttpState
  <2>. HIDE DEF new
  <2>3. CandidatesOf(new) = CandidatesOf(s)
    BY <2>2 DEF CandidatesOf, ErpOf
  <2>4. RightlyAccepted(new)
    BY <1>1, <2>2, <2>3 DEF RightlyAccepted
  <2>5. Watches(new) /\ Selects(new) /\ Answers(new)
    BY <1>1, <2>2, <2>4 DEF Watches, Selects, Answers
  <2>6. /\ cookies \subseteq Identity \X Token /\ \A p \in cookies : p[1] = OwnerOf[p[2]]
    BY DEF TokensInv
  <2>7. /\ cookies' \subseteq Identity \X Token /\ \A p \in cookies' : p[1] = OwnerOf[p[2]]
    BY <1>2, <1>4, <2>6
  <2>. QED BY <1>1, <2>1, <2>2, <2>5, <2>7, RequestGoesOn DEF Sound
<1>. QED BY <1>3, <1>4 DEF SyncBoardUser

\* Selects does not read the sessions.
LEMMA SelectsLater ==
    ASSUME NEW r \in Http, UNCHANGED central PROVE Selects(http'[r]) => Selects(http[r])'
<1>1. CandidatesOf(http[r])' = CandidatesOf(http'[r])
  BY DEF CandidatesOf, ErpOf
<1>. QED BY <1>1 DEF Selects

\* What was open during a request stays that; what ends is shut.
LEMMA SessionEndsKeeps == ASSUME TokensInv, SessionEnds, UNCHANGED central PROVE TokensInv'
<1>1. PICK token \in session :
          /\ session' = session \ {token}
          /\ http' = [r \in Http |-> IF http[r].step \in {"idle", "done"} THEN http[r]
                                    ELSE [http[r] EXCEPT !.shut = @ \cup {token}]]
  BY DEF SessionEnds
<1>2. token \in Token /\ cookies' = cookies /\ central' = central
  BY DEF TokensInv, SessionEnds
<1>3. ASSUME NEW r \in Http
      PROVE  http'[r] \in HttpState /\ Sound(http[r])'
  <2>. DEFINE s == http[r]
  <2>1. /\ s \in HttpState /\ Watches(s) /\ Selects(s) /\ Answers(s)
    BY DEF TokensInv, Sound
  <2>2. CASE s.step \in {"idle", "done"}
    <3>1. http'[r] = s
      BY <1>1, <2>2
    <3>2. CandidatesOf(http[r])' = CandidatesOf(s)
      BY <1>2, <3>1 DEF CandidatesOf, ErpOf
    <3>3. Watches(http[r])'
      BY <2>2, <3>1 DEF Watches
    <3>4. Selects(http[r])'
      BY <2>2, <3>1 DEF Selects
    <3>5. Answers(http[r])'
      BY <1>2, <2>1, <3>1, <3>2 DEF Answers, RightlyAccepted
    <3>. QED BY <2>1, <3>1, <3>3, <3>4, <3>5 DEF Sound, HttpState
  <2>3. CASE s.step \notin {"idle", "done"}
    <3>. DEFINE new == [s EXCEPT !.shut = s.shut \cup {token}]
    <3>1. http'[r] = new
      BY <1>1, <2>3
    <3>2. /\ new \in HttpState /\ new.step = s.step /\ new.left = s.left
          /\ new.selected = s.selected /\ new.sent = s.sent
          /\ new.board = s.board /\ new.as = s.as
          /\ new.answer = s.answer /\ new.synced = s.synced
          /\ new.open = s.open /\ new.shut = s.shut \cup {token}
      BY <1>2, <2>1 DEF HttpState
    <3>. HIDE DEF new
    <3>7. CandidatesOf(new) = CandidatesOf(s)
      BY <3>2 DEF CandidatesOf, ErpOf
    <3>8. Selects(new)
      BY <2>1, <3>2, <3>7 DEF Selects
    <3>3. CandidatesOf(http[r])' = CandidatesOf(new)
      BY <1>2, <3>1 DEF CandidatesOf, ErpOf
    <3>4. Watches(http[r])'
      BY <1>1, <2>1, <2>3, <3>1, <3>2 DEF Watches
    <3>5. Selects(http[r])'
      <4>1. Selects(http'[r])
        BY <3>1, <3>8
      <4>. QED BY <1>2, <4>1, SelectsLater
    <3>6. Answers(http[r])'
      BY <2>1, <2>3, <3>1, <3>2 DEF Answers
    <3>. QED BY <3>1, <3>2, <3>4, <3>5, <3>6 DEF Sound, HttpState
  <2>. QED BY <2>2, <2>3
<1>4. http' \in [Http -> HttpState]
  BY <1>1, <1>3
<1>. QED BY <1>1, <1>2, <1>3, <1>4 DEF TokensInv

\* No action on the users is read by a request but the old mode's check.
LEMMA NothingElseKeeps == ASSUME TokensInv, UNCHANGED <<central, session, cookies, http>> PROVE TokensInv'
<1>1. ASSUME NEW r \in Http PROVE Sound(http[r])'
  <2>1. Sound(http[r])
    BY DEF TokensInv
  <2>. QED BY <2>1 DEF Sound, HttpState, Watches, Selects, Answers, RightlyAccepted, CandidatesOf, ErpOf
<1>2. (http \in [Http -> HttpState])'
  BY DEF TokensInv, HttpState
<1>. QED BY <1>1, <1>2 DEF TokensInv

----------------------------------------------------------------------------
(* The theorems. *)

\* The candidates, the selected token and the history of every request are what TokensInv
\* says, whatever the interleaving of requests and ends of sessions.
THEOREM TokensInvariant == TokensSpec => []TokensInv
<1>1. TokensInit => TokensInv
  <2>1. SUFFICES ASSUME TokensInit PROVE TokensInv
    OBVIOUS
  <2>2. /\ NoHttp.step = "idle" /\ NoHttp.board = <<>> /\ NoHttp.answer = "none"
        /\ NoHttp.synced = {}
    BY DEF NoHttp
  <2>3. Sound(NoHttp)
    BY <2>2, NoHttpState DEF Sound, Watches, Selects, Answers
  <2>. QED BY <2>1, <2>3, NoHttpState DEF TokensInit, TokensInv
<1>2. TokensInv /\ [TokensNext]_tokenVars => TokensInv'
  <2>1. SUFFICES ASSUME TokensInv, [TokensNext]_tokenVars PROVE TokensInv'
    OBVIOUS
  <2>2. CASE UNCHANGED tokenVars
    BY <2>1, <2>2, NothingElseKeeps DEF tokenVars
  <2>3. ASSUME NEW r \in Http, UNCHANGED central,
               \/ RequestComes(r) \/ RequestIsOver(r) \/ BoardSession(r)
               \/ GetAccessTokenCandidates(r) \/ VerifyCandidate(r) \/ AllChecked(r)
               \/ SyncBoardUser(r)
        PROVE  TokensInv'
    BY <2>1, <2>3, RequestComesKeeps, RequestIsOverKeeps, BoardSessionKeeps,
       GetAccessTokenCandidatesKeeps, VerifyCandidateKeeps, AllCheckedKeeps, SyncBoardUserKeeps
  <2>4. CASE SessionEnds /\ UNCHANGED central
    BY <2>1, <2>4, SessionEndsKeeps
  <2>5. CASE UserIsBarred /\ UNCHANGED central
    BY <2>1, <2>5, NothingElseKeeps DEF UserIsBarred
  <2>. QED BY <2>1, <2>2, <2>3, <2>4, <2>5 DEF TokensNext
<1>. QED BY <1>1, <1>2, PTL DEF TokensSpec

\* An accepted request is the owner of one of its tokens, the only open one when the
\* central authority verifies them; a request that is not accepted changed no board user.
THEOREM OnlyVerified == TokensSpec => []OnlyVerifiedToken
<1>1. TokensInv => OnlyVerifiedToken
  <2>1. SUFFICES ASSUME TokensInv, NEW r \in Http
        PROVE  /\ http[r].answer = "accepted" =>
                     \E token \in TokensOf(r) :
                        /\ http[r].as = OwnerOf[token]
                        /\ central => /\ token \in http[r].open
                                      /\ TokensOf(r) \ {token} \subseteq http[r].shut
               /\ http[r].answer # "accepted" => http[r].synced = {}
    BY DEF OnlyVerifiedToken
  <2>2. Answers(http[r])
    BY <2>1 DEF TokensInv, Sound
  <2>3. TokensOf(r) = CandidatesOf(http[r])
    BY DEF TokensOf, CandidatesOf, ErpToken, ErpOf
  <2>. QED BY <2>2, <2>3 DEF Answers, RightlyAccepted
<1>. QED BY <1>1, TokensInvariant, PTL

----------------------------------------------------------------------------
(* McpTools. A tool acts on what its statements returned, each at its own moment, while
   others change the rows.  The invariant says what they tell of the worlds that passed. *)

\* The tools that are about no single project.
Global == {"projects_list", "users_list", "projects_create", "projects_reorder",
           "accessible_projects"}

\* The statements a tool has to make before it acts: what the properties below say of it.
Requires(t, s) ==
    CASE s = "membership" -> t \notin Global
      [] s = "projectTitle" -> t \in {"projects_update", "project_members_update",
                                "project_tags_create", "projects_delete", "boards_create",
                                "boards_reorder"}
      [] s = "projectListed" -> t \in {"projects_favorite_set"}
      [] s \in {"tagTitle", "manage"} -> t \in {"project_tags_update", "project_tags_delete"}
      [] s = "boardTitle" -> t \in {"boards_update", "boards_delete", "columns_create",
                              "columns_reorder"}
      [] s = "columnTitle" -> t \in {"columns_update", "columns_delete", "tasks_create"}
      [] s = "taskTitle" -> t \in {"subtasks_create", "tasks_update", "tasks_move", "tasks_delete",
                             "task_comments_create"}
      [] s = "targetTitle" -> t \in {"tasks_move"}
      [] s = "userNames" -> t \in {"projects_create", "project_members_update", "tasks_update"}
      [] s = "tagLabels" -> t \in {"tasks_create", "subtasks_create", "tasks_update"}
      [] s = "boardOrder" -> t \in {"boards_reorder"}
      [] s = "columnOrder" -> t \in {"columns_reorder"}
      [] s = "projectOrder" -> t \in {"projects_reorder"}

\* The statements that compare what they read with what the call knows.
Checked == {"membership", "projectTitle", "projectListed", "tagTitle", "manage", "boardTitle",
            "columnTitle", "taskTitle", "targetTitle", "userNames", "tagLabels", "boardOrder",
            "columnOrder", "projectOrder"}
\* The statements required of tool t.
Required(t) == {s \in Checked : Requires(t, s)}

\* What s has to come before: the change, and for the membership at the task that is
\* moved also the look at its target.
Marks(s) == IF s = "membership" THEN {"act", "targetTitle", "targetRow"} ELSE {"act"}

\* In the sequence q the statement s comes before everything that waits for it.
Before(q, s) == \A i \in DOMAIN q : q[i] \in Marks(s) => \E j \in 1..(i - 1) : q[j] = s
\* The membership is asked of the project that was read just before.
Follows(q) == \A i \in DOMAIN q : q[i] = "membership" => i > 1 /\ q[i - 1] = "projectRow"
\* Nothing turns to another column than that of the row the call is about.
NoTarget(q) == \A i \in DOMAIN q : q[i] \notin {"targetTitle", "targetRow"}
Flows == {q \in Seq(Statement) : Follows(q)}

\* What all tools have in common.
Shape(t, q) ==
    /\ q \in Flows
    /\ \A s \in Required(t) : Before(q, s)
    /\ t # "tasks_move" => NoTarget(q)

\* Two helpers, one after the other.
LEMMA JoinFlows == ASSUME NEW p \in Flows, NEW q \in Flows PROVE p \o q \in Flows
<1>1. p \in Seq(Statement) /\ q \in Seq(Statement) /\ p \o q \in Seq(Statement)
  BY DEF Flows
<1>2. ASSUME NEW i \in DOMAIN (p \o q), (p \o q)[i] = "membership"
      PROVE  i > 1 /\ (p \o q)[i - 1] = "projectRow"
  <2>1. CASE i \in DOMAIN p
    <3>1. (p \o q)[i] = p[i] /\ i > 1 /\ p[i - 1] = "projectRow"
      BY <1>1, <1>2, <2>1 DEF Flows, Follows
    <3>2. i - 1 \in DOMAIN p
      BY <1>1, <2>1, <3>1
    <3>. QED BY <1>1, <3>1, <3>2
  <2>2. CASE i \notin DOMAIN p
    <3>. DEFINE j == i - Len(p)
    <3>1. j \in DOMAIN q /\ (p \o q)[i] = q[j]
      BY <1>1, <2>2
    <3>2. j > 1 /\ q[j - 1] = "projectRow"
      BY <1>2, <3>1 DEF Flows, Follows
    <3>3. i - 1 = Len(p) + (j - 1) /\ j - 1 \in 1..Len(q) /\ i - 1 > Len(p)
      BY <1>1, <3>1, <3>2
    <3>. QED BY <1>1, <3>2, <3>3
  <2>. QED BY <2>1, <2>2
<1>. QED BY <1>1, <1>2 DEF Flows, Follows

----------------------------------------------------------------------------
(* The sequences of the tools have that shape. *)

\* The sequences the tools are built from.
LEMMA Literals ==
    /\ <<"projectRow", "membership">> \in Flows
    /\ <<"projectRow">> \in Flows
    /\ <<"projectTitle">> \in Flows
    /\ <<"boardRow">> \in Flows
    /\ <<"boardTitle">> \in Flows
    /\ <<"boardLive">> \in Flows
    /\ <<"columnRow">> \in Flows
    /\ <<"columnTitle">> \in Flows
    /\ <<"taskRow", "columnRow", "boardRow">> \in Flows
    /\ <<"columnRow", "boardRow", "taskRow">> \in Flows
    /\ <<"columnRow", "boardRow", "taskTitle">> \in Flows
    /\ <<"userNames", "tagLabels">> \in Flows
    /\ <<"manage", "act">> \in Flows
    /\ <<"act">> \in Flows
    /\ <<"tagLive", "act">> \in Flows
    /\ <<"boardLocked">> \in Flows
    /\ <<"columnOfLiveBoard">> \in Flows
    /\ <<"taskLive", "columnOfLiveBoard">> \in Flows
    /\ <<"taskLocked", "columnRow", "boardLive">> \in Flows
    /\ <<"targetRow", "boardLive">> \in Flows
    /\ <<"taskLive", "columnRow", "boardLive">> \in Flows
    /\ <<"userNames", "act">> \in Flows
    /\ <<"userNames">> \in Flows
    /\ <<"memberships", "projectListed">> \in Flows
    /\ <<"memberships", "projectOrder", "act">> \in Flows
    /\ <<"manage">> \in Flows
    /\ <<"tagTitle">> \in Flows
    /\ <<"boardOrder">> \in Flows
    /\ <<"columnOrder">> \in Flows
    /\ <<"targetTitle">> \in Flows
    /\ <<"memberships", "act">> \in Flows
    /\ <<"columnRow", "boardLive">> \in Flows
    /\ <<"columnRow", "boardRow", "act">> \in Flows
<1>1. <<"projectRow", "membership">> \in Flows
  BY DEF Flows, Follows, Statement
<1>2. <<"projectRow">> \in Flows
  BY DEF Flows, Follows, Statement
<1>3. <<"projectTitle">> \in Flows
  BY DEF Flows, Follows, Statement
<1>4. <<"boardRow">> \in Flows
  BY DEF Flows, Follows, Statement
<1>5. <<"boardTitle">> \in Flows
  BY DEF Flows, Follows, Statement
<1>6. <<"boardLive">> \in Flows
  BY DEF Flows, Follows, Statement
<1>7. <<"columnRow">> \in Flows
  BY DEF Flows, Follows, Statement
<1>8. <<"columnTitle">> \in Flows
  BY DEF Flows, Follows, Statement
<1>9. <<"taskRow", "columnRow", "boardRow">> \in Flows
  BY DEF Flows, Follows, Statement
<1>10. <<"columnRow", "boardRow", "taskRow">> \in Flows
  BY DEF Flows, Follows, Statement
<1>11. <<"columnRow", "boardRow", "taskTitle">> \in Flows
  BY DEF Flows, Follows, Statement
<1>12. <<"userNames", "tagLabels">> \in Flows
  BY DEF Flows, Follows, Statement
<1>13. <<"manage", "act">> \in Flows
  BY DEF Flows, Follows, Statement
<1>14. <<"act">> \in Flows
  BY DEF Flows, Follows, Statement
<1>15. <<"tagLive", "act">> \in Flows
  BY DEF Flows, Follows, Statement
<1>16. <<"boardLocked">> \in Flows
  BY DEF Flows, Follows, Statement
<1>17. <<"columnOfLiveBoard">> \in Flows
  BY DEF Flows, Follows, Statement
<1>18. <<"taskLive", "columnOfLiveBoard">> \in Flows
  BY DEF Flows, Follows, Statement
<1>19. <<"taskLocked", "columnRow", "boardLive">> \in Flows
  BY DEF Flows, Follows, Statement
<1>20. <<"targetRow", "boardLive">> \in Flows
  BY DEF Flows, Follows, Statement
<1>21. <<"taskLive", "columnRow", "boardLive">> \in Flows
  BY DEF Flows, Follows, Statement
<1>22. <<"userNames", "act">> \in Flows
  BY DEF Flows, Follows, Statement
<1>23. <<"userNames">> \in Flows
  BY DEF Flows, Follows, Statement
<1>24. <<"memberships", "projectListed">> \in Flows
  BY DEF Flows, Follows, Statement
<1>25. <<"memberships", "projectOrder", "act">> \in Flows
  BY DEF Flows, Follows, Statement
<1>26. <<"manage">> \in Flows
  BY DEF Flows, Follows, Statement
<1>27. <<"tagTitle">> \in Flows
  BY DEF Flows, Follows, Statement
<1>28. <<"boardOrder">> \in Flows
  BY DEF Flows, Follows, Statement
<1>29. <<"columnOrder">> \in Flows
  BY DEF Flows, Follows, Statement
<1>30. <<"targetTitle">> \in Flows
  BY DEF Flows, Follows, Statement
<1>31. <<"memberships", "act">> \in Flows
  BY DEF Flows, Follows, Statement
<1>32. <<"columnRow", "boardLive">> \in Flows
  BY DEF Flows, Follows, Statement
<1>33. <<"columnRow", "boardRow", "act">> \in Flows
  BY DEF Flows, Follows, Statement
<1>. QED BY <1>1, <1>2, <1>3, <1>4, <1>5, <1>6, <1>7, <1>8, <1>9, <1>10, <1>11, <1>12, <1>13,
   <1>14, <1>15, <1>16, <1>17, <1>18, <1>19, <1>20, <1>21, <1>22, <1>23, <1>24, <1>25, <1>26,
   <1>27, <1>28, <1>29, <1>30, <1>31, <1>32, <1>33

LEMMA BlocksFlow ==
    /\ AssertCanRead \in Flows
    /\ ProjectsGetById \in Flows
    /\ AssertProjectTitle \in Flows
    /\ BoardsGetById \in Flows
    /\ BoardTitle \in Flows
    /\ AssertBoardAccess \in Flows
    /\ GetAccessibleColumn \in Flows
    /\ ColumnTitle \in Flows
    /\ TaskAccess \in Flows
    /\ TasksGetById \in Flows
    /\ TaskTitle \in Flows
    /\ GetProjectIdForColumn \in Flows
    /\ AssertTaskReferences \in Flows
    /\ ProjectsUpdate \in Flows
    /\ ProjectsDelete \in Flows
    /\ TagsCreate \in Flows
    /\ TagsUpdate \in Flows
    /\ TagsDelete \in Flows
    /\ BoardsCreate \in Flows
    /\ BoardsUpdate \in Flows
    /\ BoardsReorder \in Flows
    /\ BoardsDelete \in Flows
    /\ ColumnsCreate \in Flows
    /\ ColumnsUpdate \in Flows
    /\ ColumnsDelete \in Flows
    /\ ColumnsReorder \in Flows
    /\ TasksCreate \in Flows
    /\ TasksCreateSubtask \in Flows
    /\ LockedTask \in Flows
    /\ TasksUpdate \in Flows
    /\ TasksMove \in Flows
    /\ TasksDelete \in Flows
    /\ CommentsList \in Flows
    /\ CommentsCreate \in Flows
<1>1. AssertCanRead \in Flows
  BY Literals DEF AssertCanRead
<1>2. ProjectsGetById \in Flows
  BY <1>1, Literals, JoinFlows DEF ProjectsGetById
<1>3. AssertProjectTitle \in Flows
  BY <1>1, Literals, JoinFlows DEF AssertProjectTitle
<1>4. BoardsGetById \in Flows
  BY <1>1, Literals, JoinFlows DEF BoardsGetById
<1>5. BoardTitle \in Flows
  BY <1>1, Literals, JoinFlows DEF BoardTitle
<1>6. AssertBoardAccess \in Flows
  BY <1>1, Literals, JoinFlows DEF AssertBoardAccess
<1>7. GetAccessibleColumn \in Flows
  BY <1>6, Literals, JoinFlows DEF GetAccessibleColumn
<1>8. ColumnTitle \in Flows
  BY <1>6, Literals, JoinFlows DEF ColumnTitle
<1>9. TaskAccess \in Flows
  BY <1>1, Literals, JoinFlows DEF TaskAccess
<1>10. TasksGetById \in Flows
  BY <1>9, Literals, JoinFlows DEF TasksGetById
<1>11. TaskTitle \in Flows
  BY <1>9, Literals, JoinFlows DEF TaskTitle
<1>12. GetProjectIdForColumn \in Flows
  BY <1>4, <1>7, Literals, JoinFlows DEF GetProjectIdForColumn
<1>13. AssertTaskReferences \in Flows
  BY Literals DEF AssertTaskReferences
<1>14. ProjectsUpdate \in Flows
  BY <1>2, Literals, JoinFlows DEF ProjectsUpdate
<1>15. ProjectsDelete \in Flows
  BY Literals DEF ProjectsDelete
<1>16. TagsCreate \in Flows
  BY Literals DEF TagsCreate
<1>17. TagsUpdate \in Flows
  BY Literals DEF TagsUpdate
<1>18. TagsDelete \in Flows
  BY Literals DEF TagsDelete
<1>19. BoardsCreate \in Flows
  BY <1>1, Literals, JoinFlows DEF BoardsCreate
<1>20. BoardsUpdate \in Flows
  BY <1>1, Literals, JoinFlows DEF BoardsUpdate
<1>21. BoardsReorder \in Flows
  BY <1>1, Literals, JoinFlows DEF BoardsReorder
<1>22. BoardsDelete \in Flows
  BY <1>1, Literals, JoinFlows DEF BoardsDelete
<1>23. ColumnsCreate \in Flows
  BY <1>6, Literals, JoinFlows DEF ColumnsCreate
<1>24. ColumnsUpdate \in Flows
  BY <1>7, Literals, JoinFlows DEF ColumnsUpdate
<1>25. ColumnsDelete \in Flows
  BY <1>7, Literals, JoinFlows DEF ColumnsDelete
<1>26. ColumnsReorder \in Flows
  BY <1>6, Literals, JoinFlows DEF ColumnsReorder
<1>27. TasksCreate \in Flows
  BY <1>1, Literals, JoinFlows DEF TasksCreate
<1>28. TasksCreateSubtask \in Flows
  BY <1>1, Literals, JoinFlows DEF TasksCreateSubtask
<1>29. LockedTask \in Flows
  BY <1>1, Literals, JoinFlows DEF LockedTask
<1>30. TasksUpdate \in Flows
  BY <1>10, <1>29, Literals, JoinFlows DEF TasksUpdate
<1>31. TasksMove \in Flows
  BY <1>1, <1>29, Literals, JoinFlows DEF TasksMove
<1>32. TasksDelete \in Flows
  BY <1>1, Literals, JoinFlows DEF TasksDelete
<1>33. CommentsList \in Flows
  BY <1>10, Literals, JoinFlows DEF CommentsList
<1>34. CommentsCreate \in Flows
  BY <1>10, Literals, JoinFlows DEF CommentsCreate
<1>. QED BY <1>1, <1>2, <1>3, <1>4, <1>5, <1>6, <1>7, <1>8, <1>9, <1>10, <1>11, <1>12, <1>13,
   <1>14, <1>15, <1>16, <1>17, <1>18, <1>19, <1>20, <1>21, <1>22, <1>23, <1>24, <1>25, <1>26,
   <1>27, <1>28, <1>29, <1>30, <1>31, <1>32, <1>33, <1>34

\* The statements of the tools about projects and members.
LEMMA ProjectTools ==
    /\ Shape("projects_create", projects_create.run)
    /\ Shape("projects_update", projects_update.run)
    /\ Shape("project_members_update", project_members_update.run)
    /\ Shape("projects_favorite_set", projects_favorite_set.run)
    /\ Shape("projects_reorder", projects_reorder.run)
    /\ Shape("projects_delete", projects_delete.run)
<1>1. Shape("projects_create", projects_create.run)
  <2>1. projects_create.run \in Flows
    BY Literals, BlocksFlow, JoinFlows DEF projects_create
  <2>2. Required("projects_create") = {"userNames"}
    BY DEF Required, Requires, Checked, Global
  <2>3. /\ Before(projects_create.run, "userNames")
        /\ NoTarget(projects_create.run)
    BY DEF Before, Marks, NoTarget, projects_create
  <2>. QED BY <2>1, <2>2, <2>3 DEF Shape
<1>2. Shape("projects_update", projects_update.run)
  <2>1. projects_update.run \in Flows
    BY Literals, BlocksFlow, JoinFlows DEF projects_update
  <2>2. Required("projects_update") = {"membership", "projectTitle"}
    BY DEF Required, Requires, Checked, Global
  <2>3. /\ Before(projects_update.run, "membership")
        /\ Before(projects_update.run, "projectTitle")
        /\ NoTarget(projects_update.run)
    BY DEF Before, Marks, NoTarget, projects_update, AssertCanRead, ProjectsGetById,
       AssertProjectTitle, ProjectsUpdate
  <2>. QED BY <2>1, <2>2, <2>3 DEF Shape
<1>3. Shape("project_members_update", project_members_update.run)
  <2>1. project_members_update.run \in Flows
    BY Literals, BlocksFlow, JoinFlows DEF project_members_update
  <2>2. Required("project_members_update") = {"membership", "projectTitle", "userNames"}
    BY DEF Required, Requires, Checked, Global
  <2>3. /\ Before(project_members_update.run, "membership")
        /\ Before(project_members_update.run, "projectTitle")
        /\ Before(project_members_update.run, "userNames")
        /\ NoTarget(project_members_update.run)
    BY DEF Before, Marks, NoTarget, project_members_update, AssertCanRead, ProjectsGetById,
       AssertProjectTitle, ProjectsUpdate
  <2>. QED BY <2>1, <2>2, <2>3 DEF Shape
<1>4. Shape("projects_favorite_set", projects_favorite_set.run)
  <2>1. projects_favorite_set.run \in Flows
    BY Literals, BlocksFlow, JoinFlows DEF projects_favorite_set
  <2>2. Required("projects_favorite_set") = {"membership", "projectListed"}
    BY DEF Required, Requires, Checked, Global
  <2>3. /\ Before(projects_favorite_set.run, "membership")
        /\ Before(projects_favorite_set.run, "projectListed")
        /\ NoTarget(projects_favorite_set.run)
    BY DEF Before, Marks, NoTarget, projects_favorite_set, AssertCanRead
  <2>. QED BY <2>1, <2>2, <2>3 DEF Shape
<1>5. Shape("projects_reorder", projects_reorder.run)
  <2>1. projects_reorder.run \in Flows
    BY Literals, BlocksFlow, JoinFlows DEF projects_reorder
  <2>2. Required("projects_reorder") = {"projectOrder"}
    BY DEF Required, Requires, Checked, Global
  <2>3. /\ Before(projects_reorder.run, "projectOrder")
        /\ NoTarget(projects_reorder.run)
    BY DEF Before, Marks, NoTarget, projects_reorder
  <2>. QED BY <2>1, <2>2, <2>3 DEF Shape
<1>6. Shape("projects_delete", projects_delete.run)
  <2>1. projects_delete.run \in Flows
    BY Literals, BlocksFlow, JoinFlows DEF projects_delete
  <2>2. Required("projects_delete") = {"membership", "projectTitle"}
    BY DEF Required, Requires, Checked, Global
  <2>3. /\ Before(projects_delete.run, "membership")
        /\ Before(projects_delete.run, "projectTitle")
        /\ NoTarget(projects_delete.run)
    BY DEF Before, Marks, NoTarget, projects_delete, AssertCanRead, AssertProjectTitle,
       ProjectsDelete
  <2>. QED BY <2>1, <2>2, <2>3 DEF Shape
<1>. QED BY <1>1, <1>2, <1>3, <1>4, <1>5, <1>6

\* The statements of the tools about tags.
LEMMA TagTools ==
    /\ Shape("project_tags_create", project_tags_create.run)
    /\ Shape("project_tags_update", project_tags_update.run)
    /\ Shape("project_tags_delete", project_tags_delete.run)
<1>1. Shape("project_tags_create", project_tags_create.run)
  <2>1. project_tags_create.run \in Flows
    BY Literals, BlocksFlow, JoinFlows DEF project_tags_create
  <2>2. Required("project_tags_create") = {"membership", "projectTitle"}
    BY DEF Required, Requires, Checked, Global
  <2>3. /\ Before(project_tags_create.run, "membership")
        /\ Before(project_tags_create.run, "projectTitle")
        /\ NoTarget(project_tags_create.run)
    BY DEF Before, Marks, NoTarget, project_tags_create, AssertCanRead, AssertProjectTitle,
       TagsCreate
  <2>. QED BY <2>1, <2>2, <2>3 DEF Shape
<1>2. Shape("project_tags_update", project_tags_update.run)
  <2>1. project_tags_update.run \in Flows
    BY Literals, BlocksFlow, JoinFlows DEF project_tags_update
  <2>2. Required("project_tags_update") = {"membership", "tagTitle", "manage"}
    BY DEF Required, Requires, Checked, Global
  <2>3. /\ Before(project_tags_update.run, "membership")
        /\ Before(project_tags_update.run, "tagTitle")
        /\ Before(project_tags_update.run, "manage")
        /\ NoTarget(project_tags_update.run)
    BY DEF Before, Marks, NoTarget, project_tags_update, AssertCanRead, AssertProjectTitle,
       TagsUpdate
  <2>. QED BY <2>1, <2>2, <2>3 DEF Shape
<1>3. Shape("project_tags_delete", project_tags_delete.run)
  <2>1. project_tags_delete.run \in Flows
    BY Literals, BlocksFlow, JoinFlows DEF project_tags_delete
  <2>2. Required("project_tags_delete") = {"membership", "tagTitle", "manage"}
    BY DEF Required, Requires, Checked, Global
  <2>3. /\ Before(project_tags_delete.run, "membership")
        /\ Before(project_tags_delete.run, "tagTitle")
        /\ Before(project_tags_delete.run, "manage")
        /\ NoTarget(project_tags_delete.run)
    BY DEF Before, Marks, NoTarget, project_tags_delete, AssertCanRead, AssertProjectTitle,
       TagsDelete
  <2>. QED BY <2>1, <2>2, <2>3 DEF Shape
<1>. QED BY <1>1, <1>2, <1>3

\* The statements of the tools about boards and columns.
LEMMA BoardTools ==
    /\ Shape("boards_create", boards_create.run)
    /\ Shape("boards_update", boards_update.run)
    /\ Shape("boards_reorder", boards_reorder.run)
    /\ Shape("boards_delete", boards_delete.run)
    /\ Shape("columns_create", columns_create.run)
    /\ Shape("columns_update", columns_update.run)
    /\ Shape("columns_reorder", columns_reorder.run)
    /\ Shape("columns_delete", columns_delete.run)
<1>1. Shape("boards_create", boards_create.run)
  <2>1. boards_create.run \in Flows
    BY Literals, BlocksFlow, JoinFlows DEF boards_create
  <2>2. Required("boards_create") = {"membership", "projectTitle"}
    BY DEF Required, Requires, Checked, Global
  <2>3. /\ Before(boards_create.run, "membership")
        /\ Before(boards_create.run, "projectTitle")
        /\ NoTarget(boards_create.run)
    BY DEF Before, Marks, NoTarget, boards_create, AssertCanRead, AssertProjectTitle,
       BoardsCreate
  <2>. QED BY <2>1, <2>2, <2>3 DEF Shape
<1>2. Shape("boards_update", boards_update.run)
  <2>1. boards_update.run \in Flows
    BY Literals, BlocksFlow, JoinFlows DEF boards_update
  <2>2. Required("boards_update") = {"membership", "boardTitle"}
    BY DEF Required, Requires, Checked, Global
  <2>3. /\ Before(boards_update.run, "membership")
        /\ Before(boards_update.run, "boardTitle")
        /\ NoTarget(boards_update.run)
    BY DEF Before, Marks, NoTarget, boards_update, AssertCanRead, BoardTitle, BoardsUpdate
  <2>. QED BY <2>1, <2>2, <2>3 DEF Shape
<1>3. Shape("boards_reorder", boards_reorder.run)
  <2>1. boards_reorder.run \in Flows
    BY Literals, BlocksFlow, JoinFlows DEF boards_reorder
  <2>2. Required("boards_reorder") = {"membership", "projectTitle", "boardOrder"}
    BY DEF Required, Requires, Checked, Global
  <2>3. /\ Before(boards_reorder.run, "membership")
        /\ Before(boards_reorder.run, "projectTitle")
        /\ Before(boards_reorder.run, "boardOrder")
        /\ NoTarget(boards_reorder.run)
    BY DEF Before, Marks, NoTarget, boards_reorder, AssertCanRead, AssertProjectTitle,
       BoardsReorder
  <2>. QED BY <2>1, <2>2, <2>3 DEF Shape
<1>4. Shape("boards_delete", boards_delete.run)
  <2>1. boards_delete.run \in Flows
    BY Literals, BlocksFlow, JoinFlows DEF boards_delete
  <2>2. Required("boards_delete") = {"membership", "boardTitle"}
    BY DEF Required, Requires, Checked, Global
  <2>3. /\ Before(boards_delete.run, "membership")
        /\ Before(boards_delete.run, "boardTitle")
        /\ NoTarget(boards_delete.run)
    BY DEF Before, Marks, NoTarget, boards_delete, AssertCanRead, BoardTitle, BoardsDelete
  <2>. QED BY <2>1, <2>2, <2>3 DEF Shape
<1>5. Shape("columns_create", columns_create.run)
  <2>1. columns_create.run \in Flows
    BY Literals, BlocksFlow, JoinFlows DEF columns_create
  <2>2. Required("columns_create") = {"membership", "boardTitle"}
    BY DEF Required, Requires, Checked, Global
  <2>3. /\ Before(columns_create.run, "membership")
        /\ Before(columns_create.run, "boardTitle")
        /\ NoTarget(columns_create.run)
    BY DEF Before, Marks, NoTarget, columns_create, AssertCanRead, BoardTitle, AssertBoardAccess,
       ColumnsCreate
  <2>. QED BY <2>1, <2>2, <2>3 DEF Shape
<1>6. Shape("columns_update", columns_update.run)
  <2>1. columns_update.run \in Flows
    BY Literals, BlocksFlow, JoinFlows DEF columns_update
  <2>2. Required("columns_update") = {"membership", "columnTitle"}
    BY DEF Required, Requires, Checked, Global
  <2>3. Before(columns_update.run, "membership")
    BY DEF Before, Marks, columns_update, AssertCanRead, BoardsGetById,
       AssertBoardAccess, GetAccessibleColumn, ColumnTitle, ColumnsUpdate
  <2>4. Before(columns_update.run, "columnTitle")
    BY DEF Before, Marks, columns_update, AssertCanRead, BoardsGetById,
       AssertBoardAccess, GetAccessibleColumn, ColumnTitle, ColumnsUpdate
  <2>5. NoTarget(columns_update.run)
    BY DEF NoTarget, columns_update, AssertCanRead, BoardsGetById, AssertBoardAccess,
       GetAccessibleColumn, ColumnTitle, ColumnsUpdate
  <2>. QED BY <2>1, <2>2, <2>3, <2>4, <2>5 DEF Shape
<1>7. Shape("columns_reorder", columns_reorder.run)
  <2>1. columns_reorder.run \in Flows
    BY Literals, BlocksFlow, JoinFlows DEF columns_reorder
  <2>2. Required("columns_reorder") = {"membership", "boardTitle", "columnOrder"}
    BY DEF Required, Requires, Checked, Global
  <2>3. Before(columns_reorder.run, "membership")
    BY DEF Before, Marks, columns_reorder, AssertCanRead, BoardTitle,
       AssertBoardAccess, ColumnsReorder
  <2>4. Before(columns_reorder.run, "boardTitle")
    BY DEF Before, Marks, columns_reorder, AssertCanRead, BoardTitle,
       AssertBoardAccess, ColumnsReorder
  <2>5. Before(columns_reorder.run, "columnOrder")
    BY DEF Before, Marks, columns_reorder, AssertCanRead, BoardTitle,
       AssertBoardAccess, ColumnsReorder
  <2>6. NoTarget(columns_reorder.run)
    BY DEF NoTarget, columns_reorder, AssertCanRead, BoardTitle,
       AssertBoardAccess, ColumnsReorder
  <2>. QED BY <2>1, <2>2, <2>3, <2>4, <2>5, <2>6 DEF Shape
<1>8. Shape("columns_delete", columns_delete.run)
  <2>1. columns_delete.run \in Flows
    BY Literals, BlocksFlow, JoinFlows DEF columns_delete
  <2>2. Required("columns_delete") = {"membership", "columnTitle"}
    BY DEF Required, Requires, Checked, Global
  <2>3. Before(columns_delete.run, "membership")
    BY DEF Before, Marks, columns_delete, AssertCanRead, BoardsGetById,
       AssertBoardAccess, GetAccessibleColumn, ColumnTitle, ColumnsDelete
  <2>4. Before(columns_delete.run, "columnTitle")
    BY DEF Before, Marks, columns_delete, AssertCanRead, BoardsGetById,
       AssertBoardAccess, GetAccessibleColumn, ColumnTitle, ColumnsDelete
  <2>5. NoTarget(columns_delete.run)
    BY DEF NoTarget, columns_delete, AssertCanRead, BoardsGetById,
       AssertBoardAccess, GetAccessibleColumn, ColumnTitle, ColumnsDelete
  <2>. QED BY <2>1, <2>2, <2>3, <2>4, <2>5 DEF Shape
<1>. QED BY <1>1, <1>2, <1>3, <1>4, <1>5, <1>6, <1>7, <1>8

\* The statements of the tools about tasks.
LEMMA TaskTools ==
    /\ Shape("tasks_create", tasks_create.run)
    /\ Shape("subtasks_create", subtasks_create.run)
    /\ Shape("tasks_update", tasks_update.run)
    /\ Shape("tasks_move", tasks_move.run)
    /\ Shape("tasks_delete", tasks_delete.run)
    /\ Shape("task_comments_create", task_comments_create.run)
<1>1. Shape("tasks_create", tasks_create.run)
  <2>1. tasks_create.run \in Flows
    BY Literals, BlocksFlow, JoinFlows DEF tasks_create
  <2>2. Required("tasks_create") = {"membership", "columnTitle", "tagLabels"}
    BY DEF Required, Requires, Checked, Global
  <2>3. Before(tasks_create.run, "membership")
    BY DEF Before, Marks, tasks_create, AssertCanRead, BoardsGetById,
       AssertBoardAccess, ColumnTitle, AssertTaskReferences, TasksCreate
  <2>4. Before(tasks_create.run, "columnTitle")
    BY DEF Before, Marks, tasks_create, AssertCanRead, BoardsGetById,
       AssertBoardAccess, ColumnTitle, AssertTaskReferences, TasksCreate
  <2>5. Before(tasks_create.run, "tagLabels")
    BY DEF Before, Marks, tasks_create, AssertCanRead, BoardsGetById,
       AssertBoardAccess, ColumnTitle, AssertTaskReferences, TasksCreate
  <2>6. NoTarget(tasks_create.run)
    BY DEF NoTarget, tasks_create, AssertCanRead, BoardsGetById,
       AssertBoardAccess, ColumnTitle, AssertTaskReferences, TasksCreate
  <2>. QED BY <2>1, <2>2, <2>3, <2>4, <2>5, <2>6 DEF Shape
<1>2. Shape("subtasks_create", subtasks_create.run)
  <2>1. subtasks_create.run \in Flows
    BY Literals, BlocksFlow, JoinFlows DEF subtasks_create
  <2>2. Required("subtasks_create") = {"membership", "taskTitle", "tagLabels"}
    BY DEF Required, Requires, Checked, Global
  <2>3. Before(subtasks_create.run, "membership")
    BY DEF Before, Marks, subtasks_create, AssertCanRead, BoardsGetById,
       AssertBoardAccess, GetAccessibleColumn, TaskAccess, TaskTitle,
       GetProjectIdForColumn, AssertTaskReferences, TasksCreateSubtask
  <2>4. Before(subtasks_create.run, "taskTitle")
    BY DEF Before, Marks, subtasks_create, AssertCanRead, BoardsGetById,
       AssertBoardAccess, GetAccessibleColumn, TaskAccess, TaskTitle,
       GetProjectIdForColumn, AssertTaskReferences, TasksCreateSubtask
  <2>5. Before(subtasks_create.run, "tagLabels")
    BY DEF Before, Marks, subtasks_create, AssertCanRead, BoardsGetById,
       AssertBoardAccess, GetAccessibleColumn, TaskAccess, TaskTitle,
       GetProjectIdForColumn, AssertTaskReferences, TasksCreateSubtask
  <2>6. NoTarget(subtasks_create.run)
    BY DEF NoTarget, subtasks_create, AssertCanRead, BoardsGetById, AssertBoardAccess,
       GetAccessibleColumn, TaskAccess, TaskTitle, GetProjectIdForColumn,
       AssertTaskReferences, TasksCreateSubtask
  <2>. QED BY <2>1, <2>2, <2>3, <2>4, <2>5, <2>6 DEF Shape
<1>3. Shape("tasks_update", tasks_update.run)
  <2>1. tasks_update.run \in Flows
    BY Literals, BlocksFlow, JoinFlows DEF tasks_update
  <2>2. Required("tasks_update") = {"membership", "taskTitle", "userNames", "tagLabels"}
    BY DEF Required, Requires, Checked, Global
  <2>3. Before(tasks_update.run, "membership")
    BY DEF Before, Marks, tasks_update, AssertCanRead, BoardsGetById, AssertBoardAccess,
       GetAccessibleColumn, TaskAccess, TasksGetById, TaskTitle, GetProjectIdForColumn,
       AssertTaskReferences, LockedTask, TasksUpdate
  <2>4. Before(tasks_update.run, "taskTitle")
    BY DEF Before, Marks, tasks_update, AssertCanRead, BoardsGetById, AssertBoardAccess,
       GetAccessibleColumn, TaskAccess, TasksGetById, TaskTitle, GetProjectIdForColumn,
       AssertTaskReferences, LockedTask, TasksUpdate
  <2>5. Before(tasks_update.run, "userNames")
    BY DEF Before, Marks, tasks_update, AssertCanRead, BoardsGetById, AssertBoardAccess,
       GetAccessibleColumn, TaskAccess, TasksGetById, TaskTitle, GetProjectIdForColumn,
       AssertTaskReferences, LockedTask, TasksUpdate
  <2>6. Before(tasks_update.run, "tagLabels")
    BY DEF Before, Marks, tasks_update, AssertCanRead, BoardsGetById, AssertBoardAccess,
       GetAccessibleColumn, TaskAccess, TasksGetById, TaskTitle, GetProjectIdForColumn,
       AssertTaskReferences, LockedTask, TasksUpdate
  <2>7. NoTarget(tasks_update.run)
    BY DEF NoTarget, tasks_update, AssertCanRead, BoardsGetById, AssertBoardAccess,
       GetAccessibleColumn, TaskAccess, TasksGetById, TaskTitle, GetProjectIdForColumn,
       AssertTaskReferences, LockedTask, TasksUpdate
  <2>. QED BY <2>1, <2>2, <2>3, <2>4, <2>5, <2>6, <2>7 DEF Shape
<1>4. Shape("tasks_move", tasks_move.run)
  <2>1. tasks_move.run \in Flows
    BY Literals, BlocksFlow, JoinFlows DEF tasks_move
  <2>2. Required("tasks_move") = {"membership", "taskTitle", "targetTitle"}
    BY DEF Required, Requires, Checked, Global
  <2>3. Before(tasks_move.run, "membership")
    BY DEF Before, Marks, tasks_move, AssertCanRead, BoardsGetById, AssertBoardAccess,
       TaskAccess, TasksGetById, TaskTitle, LockedTask, TasksMove
  <2>4. Before(tasks_move.run, "taskTitle")
    BY DEF Before, Marks, tasks_move, AssertCanRead, BoardsGetById, AssertBoardAccess,
       TaskAccess, TasksGetById, TaskTitle, LockedTask, TasksMove
  <2>5. Before(tasks_move.run, "targetTitle")
    BY DEF Before, Marks, tasks_move, AssertCanRead, BoardsGetById, AssertBoardAccess,
       TaskAccess, TasksGetById, TaskTitle, LockedTask, TasksMove
  <2>. QED BY <2>1, <2>2, <2>3, <2>4, <2>5 DEF Shape
<1>5. Shape("tasks_delete", tasks_delete.run)
  <2>1. tasks_delete.run \in Flows
    BY Literals, BlocksFlow, JoinFlows DEF tasks_delete
  <2>2. Required("tasks_delete") = {"membership", "taskTitle"}
    BY DEF Required, Requires, Checked, Global
  <2>3. Before(tasks_delete.run, "membership")
    BY DEF Before, Marks, tasks_delete, AssertCanRead, BoardsGetById, AssertBoardAccess,
       GetAccessibleColumn, TaskAccess, TaskTitle, GetProjectIdForColumn, TasksDelete
  <2>4. Before(tasks_delete.run, "taskTitle")
    BY DEF Before, Marks, tasks_delete, AssertCanRead, BoardsGetById, AssertBoardAccess,
       GetAccessibleColumn, TaskAccess, TaskTitle, GetProjectIdForColumn, TasksDelete
  <2>5. NoTarget(tasks_delete.run)
    BY DEF NoTarget, tasks_delete, AssertCanRead, BoardsGetById, AssertBoardAccess,
       GetAccessibleColumn, TaskAccess, TaskTitle, GetProjectIdForColumn, TasksDelete
  <2>. QED BY <2>1, <2>2, <2>3, <2>4, <2>5 DEF Shape
<1>6. Shape("task_comments_create", task_comments_create.run)
  <2>1. task_comments_create.run \in Flows
    BY Literals, BlocksFlow, JoinFlows DEF task_comments_create
  <2>2. Required("task_comments_create") = {"membership", "taskTitle"}
    BY DEF Required, Requires, Checked, Global
  <2>3. Before(task_comments_create.run, "membership")
    BY DEF Before, Marks, task_comments_create, AssertCanRead, BoardsGetById,
       AssertBoardAccess, GetAccessibleColumn, TaskAccess, TasksGetById, TaskTitle,
       GetProjectIdForColumn, CommentsCreate
  <2>4. Before(task_comments_create.run, "taskTitle")
    BY DEF Before, Marks, task_comments_create, AssertCanRead, BoardsGetById,
       AssertBoardAccess, GetAccessibleColumn, TaskAccess, TasksGetById, TaskTitle,
       GetProjectIdForColumn, CommentsCreate
  <2>5. NoTarget(task_comments_create.run)
    BY DEF NoTarget, task_comments_create, AssertCanRead, BoardsGetById,
       AssertBoardAccess, GetAccessibleColumn, TaskAccess, TasksGetById, TaskTitle,
       GetProjectIdForColumn, CommentsCreate
  <2>. QED BY <2>1, <2>2, <2>3, <2>4, <2>5 DEF Shape
<1>. QED BY <1>1, <1>2, <1>3, <1>4, <1>5, <1>6

\* The statements of the tools that read projects.
LEMMA ReadTools ==
    /\ Shape("projects_list", ProjectReads.projects_list)
    /\ Shape("projects_get", ProjectReads.projects_get)
    /\ Shape("users_list", ProjectReads.users_list)
    /\ Shape("project_members_list", ProjectReads.project_members_list)
    /\ Shape("project_boards_list", ProjectReads.project_boards_list)
    /\ Shape("project_tags_list", ProjectReads.project_tags_list)
<1>1. Shape("projects_list", ProjectReads.projects_list)
  <2>1. ProjectReads.projects_list \in Flows
    BY Literals, BlocksFlow, JoinFlows DEF ProjectReads
  <2>2. Required("projects_list") = {}
    BY DEF Required, Requires, Checked, Global
  <2>3. NoTarget(ProjectReads.projects_list)
    BY DEF NoTarget, ProjectReads
  <2>. QED BY <2>1, <2>2, <2>3 DEF Shape
<1>2. Shape("projects_get", ProjectReads.projects_get)
  <2>1. ProjectReads.projects_get \in Flows
    BY Literals, BlocksFlow, JoinFlows DEF ProjectReads
  <2>2. Required("projects_get") = {"membership"}
    BY DEF Required, Requires, Checked, Global
  <2>3. /\ Before(ProjectReads.projects_get, "membership")
        /\ NoTarget(ProjectReads.projects_get)
    BY DEF Before, Marks, NoTarget, ProjectReads, AssertCanRead
  <2>. QED BY <2>1, <2>2, <2>3 DEF Shape
<1>3. Shape("users_list", ProjectReads.users_list)
  <2>1. ProjectReads.users_list \in Flows
    BY Literals, BlocksFlow, JoinFlows DEF ProjectReads
  <2>2. Required("users_list") = {}
    BY DEF Required, Requires, Checked, Global
  <2>3. NoTarget(ProjectReads.users_list)
    BY DEF NoTarget, ProjectReads
  <2>. QED BY <2>1, <2>2, <2>3 DEF Shape
<1>4. Shape("project_members_list", ProjectReads.project_members_list)
  <2>1. ProjectReads.project_members_list \in Flows
    BY Literals, BlocksFlow, JoinFlows DEF ProjectReads
  <2>2. Required("project_members_list") = {"membership"}
    BY DEF Required, Requires, Checked, Global
  <2>3. /\ Before(ProjectReads.project_members_list, "membership")
        /\ NoTarget(ProjectReads.project_members_list)
    BY DEF Before, Marks, NoTarget, ProjectReads, AssertCanRead
  <2>. QED BY <2>1, <2>2, <2>3 DEF Shape
<1>5. Shape("project_boards_list", ProjectReads.project_boards_list)
  <2>1. ProjectReads.project_boards_list \in Flows
    BY Literals, BlocksFlow, JoinFlows DEF ProjectReads
  <2>2. Required("project_boards_list") = {"membership"}
    BY DEF Required, Requires, Checked, Global
  <2>3. /\ Before(ProjectReads.project_boards_list, "membership")
        /\ NoTarget(ProjectReads.project_boards_list)
    BY DEF Before, Marks, NoTarget, ProjectReads, AssertCanRead
  <2>. QED BY <2>1, <2>2, <2>3 DEF Shape
<1>6. Shape("project_tags_list", ProjectReads.project_tags_list)
  <2>1. ProjectReads.project_tags_list \in Flows
    BY Literals, BlocksFlow, JoinFlows DEF ProjectReads
  <2>2. Required("project_tags_list") = {"membership"}
    BY DEF Required, Requires, Checked, Global
  <2>3. /\ Before(ProjectReads.project_tags_list, "membership")
        /\ NoTarget(ProjectReads.project_tags_list)
    BY DEF Before, Marks, NoTarget, ProjectReads, AssertCanRead
  <2>. QED BY <2>1, <2>2, <2>3 DEF Shape
<1>. QED BY <1>1, <1>2, <1>3, <1>4, <1>5, <1>6

\* The statements of the tools that read boards, columns and tasks.
LEMMA BoardReadTools ==
    /\ Shape("boards_get", BoardAndTaskReads.boards_get)
    /\ Shape("board_columns_list", BoardAndTaskReads.board_columns_list)
    /\ Shape("board_tasks_list", BoardAndTaskReads.board_tasks_list)
    /\ Shape("columns_get", BoardAndTaskReads.columns_get)
    /\ Shape("column_tasks_list", BoardAndTaskReads.column_tasks_list)
    /\ Shape("tasks_get", BoardAndTaskReads.tasks_get)
    /\ Shape("task_subtasks_list", BoardAndTaskReads.task_subtasks_list)
    /\ Shape("task_comments_list", BoardAndTaskReads.task_comments_list)
    /\ Shape("task_history_list", BoardAndTaskReads.task_history_list)
<1>1. Shape("boards_get", BoardAndTaskReads.boards_get)
  <2>1. BoardAndTaskReads.boards_get \in Flows
    BY Literals, BlocksFlow, JoinFlows DEF BoardAndTaskReads
  <2>2. Required("boards_get") = {"membership"}
    BY DEF Required, Requires, Checked, Global
  <2>3. /\ Before(BoardAndTaskReads.boards_get, "membership")
        /\ NoTarget(BoardAndTaskReads.boards_get)
    BY DEF Before, Marks, NoTarget, BoardAndTaskReads, AssertCanRead
  <2>. QED BY <2>1, <2>2, <2>3 DEF Shape
<1>2. Shape("board_columns_list", BoardAndTaskReads.board_columns_list)
  <2>1. BoardAndTaskReads.board_columns_list \in Flows
    BY Literals, BlocksFlow, JoinFlows DEF BoardAndTaskReads
  <2>2. Required("board_columns_list") = {"membership"}
    BY DEF Required, Requires, Checked, Global
  <2>3. /\ Before(BoardAndTaskReads.board_columns_list, "membership")
        /\ NoTarget(BoardAndTaskReads.board_columns_list)
    BY DEF Before, Marks, NoTarget, BoardAndTaskReads, AssertCanRead, AssertBoardAccess
  <2>. QED BY <2>1, <2>2, <2>3 DEF Shape
<1>3. Shape("board_tasks_list", BoardAndTaskReads.board_tasks_list)
  <2>1. BoardAndTaskReads.board_tasks_list \in Flows
    BY Literals, BlocksFlow, JoinFlows DEF BoardAndTaskReads
  <2>2. Required("board_tasks_list") = {"membership"}
    BY DEF Required, Requires, Checked, Global
  <2>3. /\ Before(BoardAndTaskReads.board_tasks_list, "membership")
        /\ NoTarget(BoardAndTaskReads.board_tasks_list)
    BY DEF Before, Marks, NoTarget, BoardAndTaskReads, AssertCanRead, AssertBoardAccess
  <2>. QED BY <2>1, <2>2, <2>3 DEF Shape
<1>4. Shape("columns_get", BoardAndTaskReads.columns_get)
  <2>1. BoardAndTaskReads.columns_get \in Flows
    BY Literals, BlocksFlow, JoinFlows DEF BoardAndTaskReads
  <2>2. Required("columns_get") = {"membership"}
    BY DEF Required, Requires, Checked, Global
  <2>3. Before(BoardAndTaskReads.columns_get, "membership")
    BY DEF Before, Marks, BoardAndTaskReads, AssertCanRead, AssertBoardAccess,
       GetAccessibleColumn
  <2>4. NoTarget(BoardAndTaskReads.columns_get)
    BY DEF NoTarget, BoardAndTaskReads, AssertCanRead, AssertBoardAccess,
       GetAccessibleColumn
  <2>. QED BY <2>1, <2>2, <2>3, <2>4 DEF Shape
<1>5. Shape("column_tasks_list", BoardAndTaskReads.column_tasks_list)
  <2>1. BoardAndTaskReads.column_tasks_list \in Flows
    BY Literals, BlocksFlow, JoinFlows DEF BoardAndTaskReads
  <2>2. Required("column_tasks_list") = {"membership"}
    BY DEF Required, Requires, Checked, Global
  <2>3. /\ Before(BoardAndTaskReads.column_tasks_list, "membership")
        /\ NoTarget(BoardAndTaskReads.column_tasks_list)
    BY DEF Before, Marks, NoTarget, BoardAndTaskReads, AssertCanRead
  <2>. QED BY <2>1, <2>2, <2>3 DEF Shape
<1>6. Shape("tasks_get", BoardAndTaskReads.tasks_get)
  <2>1. BoardAndTaskReads.tasks_get \in Flows
    BY Literals, BlocksFlow, JoinFlows DEF BoardAndTaskReads
  <2>2. Required("tasks_get") = {"membership"}
    BY DEF Required, Requires, Checked, Global
  <2>3. /\ Before(BoardAndTaskReads.tasks_get, "membership")
        /\ NoTarget(BoardAndTaskReads.tasks_get)
    BY DEF Before, Marks, NoTarget, BoardAndTaskReads, AssertCanRead, TaskAccess
  <2>. QED BY <2>1, <2>2, <2>3 DEF Shape
<1>7. Shape("task_subtasks_list", BoardAndTaskReads.task_subtasks_list)
  <2>1. BoardAndTaskReads.task_subtasks_list \in Flows
    BY Literals, BlocksFlow, JoinFlows DEF BoardAndTaskReads
  <2>2. Required("task_subtasks_list") = {"membership"}
    BY DEF Required, Requires, Checked, Global
  <2>3. /\ Before(BoardAndTaskReads.task_subtasks_list, "membership")
        /\ NoTarget(BoardAndTaskReads.task_subtasks_list)
    BY DEF Before, Marks, NoTarget, BoardAndTaskReads, AssertCanRead, TaskAccess
  <2>. QED BY <2>1, <2>2, <2>3 DEF Shape
<1>8. Shape("task_comments_list", BoardAndTaskReads.task_comments_list)
  <2>1. BoardAndTaskReads.task_comments_list \in Flows
    BY Literals, BlocksFlow, JoinFlows DEF BoardAndTaskReads
  <2>2. Required("task_comments_list") = {"membership"}
    BY DEF Required, Requires, Checked, Global
  <2>3. /\ Before(BoardAndTaskReads.task_comments_list, "membership")
        /\ NoTarget(BoardAndTaskReads.task_comments_list)
    BY DEF Before, Marks, NoTarget, BoardAndTaskReads, AssertCanRead, TaskAccess, TasksGetById,
       CommentsList
  <2>. QED BY <2>1, <2>2, <2>3 DEF Shape
<1>9. Shape("task_history_list", BoardAndTaskReads.task_history_list)
  <2>1. BoardAndTaskReads.task_history_list \in Flows
    BY Literals, BlocksFlow, JoinFlows DEF BoardAndTaskReads
  <2>2. Required("task_history_list") = {"membership"}
    BY DEF Required, Requires, Checked, Global
  <2>3. /\ Before(BoardAndTaskReads.task_history_list, "membership")
        /\ NoTarget(BoardAndTaskReads.task_history_list)
    BY DEF Before, Marks, NoTarget, BoardAndTaskReads, AssertCanRead, TaskAccess
  <2>. QED BY <2>1, <2>2, <2>3 DEF Shape
<1>. QED BY <1>1, <1>2, <1>3, <1>4, <1>5, <1>6, <1>7, <1>8, <1>9

\* The statements of the resources.
LEMMA ResourceReads ==
    /\ Shape("accessible_projects", Resources.accessible_projects)
    /\ Shape("project", Resources.project)
<1>1. Shape("accessible_projects", Resources.accessible_projects)
  <2>1. Resources.accessible_projects \in Flows
    BY Literals, BlocksFlow, JoinFlows DEF Resources
  <2>2. Required("accessible_projects") = {}
    BY DEF Required, Requires, Checked, Global
  <2>3. NoTarget(Resources.accessible_projects)
    BY DEF NoTarget, Resources
  <2>. QED BY <2>1, <2>2, <2>3 DEF Shape
<1>2. Shape("project", Resources.project)
  <2>1. Resources.project \in Flows
    BY Literals, BlocksFlow, JoinFlows DEF Resources
  <2>2. Required("project") = {"membership"}
    BY DEF Required, Requires, Checked, Global
  <2>3. /\ Before(Resources.project, "membership")
        /\ NoTarget(Resources.project)
    BY DEF Before, Marks, NoTarget, Resources, AssertCanRead, ProjectsGetById
  <2>. QED BY <2>1, <2>2, <2>3 DEF Shape
<1>. QED BY <1>1, <1>2

\* Which tools each table of handlers holds.
LEMMA ToolNames ==
    /\ DOMAIN WriteTools = UpdateTool \cup DeleteTool
                              \cup {"projects_create", "project_members_update"}
    /\ DOMAIN ProjectReads = {"projects_list", "projects_get", "users_list", "project_members_list",
             "project_boards_list", "project_tags_list"}
    /\ DOMAIN BoardAndTaskReads = {"boards_get",
             "board_columns_list", "board_tasks_list", "columns_get",
             "column_tasks_list", "tasks_get", "task_subtasks_list",
             "task_comments_list", "task_history_list"}
    /\ DOMAIN Resources = {"accessible_projects", "project"}
BY DEF WriteTools, ProjectReads, BoardAndTaskReads, Resources, UpdateTool, DeleteTool

\* The handler of a tool is the one its table holds.
LEMMA WriteHandler == \A t \in DOMAIN WriteTools : Handler(t) = WriteTools[t]
BY ToolNames DEF Handler, UpdateTool, DeleteTool

LEMMA ProjectReadHandler == \A t \in DOMAIN ProjectReads : Handler(t) = Reading(ProjectReads[t])
BY ToolNames DEF Handler, UpdateTool, DeleteTool

LEMMA BoardReadHandler ==
    \A t \in DOMAIN BoardAndTaskReads : Handler(t) = Reading(BoardAndTaskReads[t])
BY ToolNames DEF Handler, UpdateTool, DeleteTool

LEMMA ResourceHandler == \A t \in DOMAIN Resources : Handler(t) = Reading(Resources[t])
BY ToolNames DEF Handler, UpdateTool, DeleteTool

\* Every tool makes the statements it has to, in that order.
LEMMA WritesShaped == \A t \in DOMAIN WriteTools : Shape(t, WriteTools[t].run)
<1>1. SUFFICES ASSUME NEW t \in DOMAIN WriteTools PROVE Shape(t, WriteTools[t].run)
  OBVIOUS
<1>. QED BY ProjectTools, TagTools, BoardTools, TaskTools DEF WriteTools

LEMMA ProjectReadsShaped == \A t \in DOMAIN ProjectReads : Shape(t, ProjectReads[t])
BY ToolNames, ReadTools

LEMMA BoardReadsShaped == \A t \in DOMAIN BoardAndTaskReads : Shape(t, BoardAndTaskReads[t])
BY ToolNames, BoardReadTools

LEMMA ResourcesShaped == \A t \in DOMAIN Resources : Shape(t, Resources[t])
BY ToolNames, ResourceReads

LEMMA AllShaped == \A t \in Request : Shape(t, Handler(t).run)
<1>1. Request = DOMAIN WriteTools \cup DOMAIN ProjectReads \cup DOMAIN BoardAndTaskReads
                  \cup DOMAIN Resources
  BY ToolNames DEF Request, Tool, ReadTool
<1>. QED BY <1>1, WriteHandler, ProjectReadHandler, BoardReadHandler, ResourceHandler,
   WritesShaped, ProjectReadsShaped, BoardReadsShaped, ResourcesShaped DEF Reading

\* A handler asserts the scope the guard knows of its tool.
LEMMA AllAssert == \A t \in Request : RequestScope(t, TRUE) \subseteq {Handler(t).asserts}
<1>1. \A t \in UpdateTool : WriteTools[t].asserts = "update"
  <2>1. WriteTools["projects_update"].asserts = "update"
    BY DEF WriteTools, projects_update
  <2>2. WriteTools["projects_favorite_set"].asserts = "update"
    BY DEF WriteTools, projects_favorite_set
  <2>3. WriteTools["projects_reorder"].asserts = "update"
    BY DEF WriteTools, projects_reorder
  <2>4. WriteTools["project_tags_create"].asserts = "update"
    BY DEF WriteTools, project_tags_create
  <2>5. WriteTools["project_tags_update"].asserts = "update"
    BY DEF WriteTools, project_tags_update
  <2>6. WriteTools["boards_create"].asserts = "update"
    BY DEF WriteTools, boards_create
  <2>7. WriteTools["boards_update"].asserts = "update"
    BY DEF WriteTools, boards_update
  <2>8. WriteTools["boards_reorder"].asserts = "update"
    BY DEF WriteTools, boards_reorder
  <2>9. WriteTools["columns_create"].asserts = "update"
    BY DEF WriteTools, columns_create
  <2>10. WriteTools["columns_update"].asserts = "update"
    BY DEF WriteTools, columns_update
  <2>11. WriteTools["columns_reorder"].asserts = "update"
    BY DEF WriteTools, columns_reorder
  <2>12. WriteTools["tasks_create"].asserts = "update"
    BY DEF WriteTools, tasks_create
  <2>13. WriteTools["subtasks_create"].asserts = "update"
    BY DEF WriteTools, subtasks_create
  <2>14. WriteTools["tasks_update"].asserts = "update"
    BY DEF WriteTools, tasks_update
  <2>15. WriteTools["tasks_move"].asserts = "update"
    BY DEF WriteTools, tasks_move
  <2>16. WriteTools["task_comments_create"].asserts = "update"
    BY DEF WriteTools, task_comments_create
  <2>. QED BY <2>1, <2>2, <2>3, <2>4, <2>5, <2>6, <2>7, <2>8, <2>9, <2>10,
     <2>11, <2>12, <2>13, <2>14, <2>15, <2>16 DEF UpdateTool
<1>2. \A t \in DeleteTool : WriteTools[t].asserts = "delete"
  <2>1. WriteTools["project_tags_delete"].asserts = "delete"
    BY DEF WriteTools, project_tags_delete
  <2>2. WriteTools["projects_delete"].asserts = "delete"
    BY DEF WriteTools, projects_delete
  <2>3. WriteTools["boards_delete"].asserts = "delete"
    BY DEF WriteTools, boards_delete
  <2>4. WriteTools["columns_delete"].asserts = "delete"
    BY DEF WriteTools, columns_delete
  <2>5. WriteTools["tasks_delete"].asserts = "delete"
    BY DEF WriteTools, tasks_delete
  <2>. QED BY <2>1, <2>2, <2>3, <2>4, <2>5 DEF DeleteTool
<1>3. WriteTools["projects_create"].asserts = "create"
      /\ WriteTools["project_members_update"].asserts = "members"
  BY DEF WriteTools, projects_create, project_members_update
<1>4. \A t \in ReadTool \cup DOMAIN Resources : Handler(t).asserts = "read"
  BY ToolNames, ProjectReadHandler, BoardReadHandler, ResourceHandler DEF ReadTool, Reading
<1>5. \A t \in Tool : 
         PROJECTS_MCP_TOOL_SCOPES[t] = IF t \in ReadTool THEN "read" ELSE WriteTools[t].asserts
  BY <1>1, <1>2, <1>3 DEF PROJECTS_MCP_TOOL_SCOPES, Tool, ReadTool, UpdateTool, DeleteTool
<1>6. \A t \in DOMAIN Resources : t \notin Tool
  BY ToolNames DEF Tool, ReadTool, UpdateTool, DeleteTool
<1>7. \A t \in Tool : t \in ReadTool \/ t \in DOMAIN WriteTools
  BY ToolNames DEF Tool
<1>. QED BY <1>4, <1>5, <1>6, <1>7, WriteHandler DEF RequestScope, Request

----------------------------------------------------------------------------
(* What a call has learnt, and the invariant. *)

\* Row n bore the title the call knows.
Titled(n, worlds) == \E w \in worlds : w.title[n] = "known"
\* The projects a task was in.
Met(i, worlds) == {Parent[Parent[w.column[i.on]]] : w \in worlds}
\* The projects in which a call met what it is about.
Spots(i, worlds) == IF i.on \in Task THEN Met(i, worlds) ELSE {ProjectOf(i)}
\* The order names every row of the list.
Complete(i, w) ==
    i.listed = {n \in Listable(i.tool) : /\ w.state[n] = "live"
                                         /\ n \in ProjectRow => n \in w.member
                                         /\ n \notin ProjectRow => Parent[n] = i.on}

\* What a statement that did not fail tells of the worlds that passed.
Learnt(i, worlds, s) ==
    CASE s = "membership" ->
            \E p \in Spots(i, worlds) : /\ \E w \in worlds : w.state[p] = "live"
                                        /\ \E w \in worlds : p \in Owned \cup w.member
      [] s \in {"projectTitle", "projectListed", "boardTitle", "columnTitle", "taskTitle"} ->
            Titled(i.on, worlds)
      [] s = "tagTitle" -> Titled(i.on, worlds) /\ Parent[i.on] = ProjectOf(i)
      [] s = "targetTitle" -> Titled(i.into, worlds)
      [] s = "userNames" -> \A u \in i.users : Titled(u, worlds)
      [] s = "tagLabels" ->
            \A g \in i.refs : Titled(g, worlds) /\ (i.on \in Task => Parent[g] \in Met(i, worlds))
      [] s = "projectOrder" -> \A n \in i.listed : Titled(n, worlds)
      [] s \in {"boardOrder", "columnOrder"} ->
            /\ \A n \in i.listed : Titled(n, worlds)
            /\ \E w \in worlds : Complete(i, w)
      [] s = "manage" -> ProjectOf(i) \in Owned

\* Whose project, board and column the next statements are about.
Attends(k, worlds) ==
    /\ k.input.on \notin Task =>
          /\ k.project = ProjectOf(k.input) /\ k.board = BoardOf(k.input)
          /\ k.input.on \in Column => k.column = k.input.on
    /\ k.input.on \in Task =>
          \/ k.project \in Met(k.input, worlds) \cup {Nothing}
          \/ k.input.tool = "tasks_move" /\ Learnt(k.input, worlds, "membership")

\* The statements left of a call.
Goes(k, worlds) ==
    /\ \A j \in DOMAIN k.todo : j > 1 /\ k.todo[j] = "membership" => k.todo[j - 1] = "projectRow"
    /\ k.input.tool # "tasks_move" => NoTarget(k.todo)
    /\ k.todo # <<>> /\ Head(k.todo) = "membership" =>
          \E w \in worlds : w.state[k.project] = "live"

\* What it must know, or will still ask.
Asks(k, worlds) ==
    \A s \in Required(k.input.tool) :
        Learnt(k.input, worlds, s) \/ (k.step = "running" /\ ~ k.did /\ Before(k.todo, s))

\* A call that runs has shown its scopes, and knows what its tool requires of it or will
\* ask it before it acts; one that has acted knows all of it.
CallInv(k, w, worlds) ==
    /\ k.step = "idle" => ~ k.did
    /\ k.step # "idle" => /\ k.input.tool \in Request /\ k.input \in Inputs(k.input.tool)
                          /\ Attends(k, worlds)
    /\ k.step = "running" => w \in worlds /\ Goes(k, worlds)
    /\ k.step = "running" \/ k.did => Asserted(k.input) \subseteq k.token /\ Asks(k, worlds)
    /\ k.did /\ k.input.tool = "projects_reorder" => \E v \in worlds : Complete(k.input, v)

\* The type of the state.
ToolsTypeOK ==
    /\ world \in World /\ toolCall \in [ToolCall -> ToolCallState]
    /\ seen \in [ToolCall -> SUBSET World] /\ changes \in Nat

\* The inductive invariant.
ToolsInv == ToolsTypeOK /\ \A c \in ToolCall : CallInv(toolCall[c], world, seen[c])

\* A row is of one table.
LEMMA Tables ==
    /\ ProjectRow \cap Board = {} /\ ProjectRow \cap Column = {} /\ ProjectRow \cap Task = {}
    /\ ProjectRow \cap Tag = {} /\ Board \cap Column = {} /\ Board \cap Task = {}
    /\ Board \cap Tag = {} /\ Column \cap Task = {} /\ Column \cap Tag = {} /\ Task \cap Tag = {}
    /\ Nothing \notin AnyRow
<1>. DEFINE table == <<ProjectRow, Board, Column, Task, Tag, Colleague>>
<1>1. \A i, j \in DOMAIN table : i # j => table[i] \cap table[j] = {}
  BY McpToolsAssumption DEF McpToolsAssumption
<1>2. DOMAIN table = 1..6 /\ table[1] = ProjectRow /\ table[2] = Board /\ table[3] = Column
      /\ table[4] = Task /\ table[5] = Tag
  OBVIOUS
<1>. HIDE DEF table
<1>. QED BY <1>1, <1>2, McpToolsAssumption DEF McpToolsAssumption

\* What passed has passed.
LEMMA LearntStays ==
    ASSUME NEW i, NEW older, NEW newer, older \subseteq newer, NEW s \in Checked,
           Learnt(i, older, s)
    PROVE  Learnt(i, newer, s)
<1>1. Met(i, older) \subseteq Met(i, newer) /\ \A n : Titled(n, older) => Titled(n, newer)
  BY DEF Met, Titled
<1>2. Spots(i, older) \subseteq Spots(i, newer)
  BY <1>1 DEF Spots
<1>. QED BY <1>1, <1>2 DEF Learnt, Checked

\* A statement that was not the one asked for leaves it to come.
LEMMA StillToCome ==
    ASSUME NEW q \in Seq(Statement), q # <<>>, NEW s, Before(q, s), Head(q) # s
    PROVE  Before(Tail(q), s)
<1>1. SUFFICES ASSUME NEW i \in DOMAIN Tail(q), Tail(q)[i] \in Marks(s)
               PROVE  \E j \in 1..(i - 1) : Tail(q)[j] = s
  BY DEF Before
<1>2. i \in Nat /\ i + 1 \in DOMAIN q /\ q[i + 1] \in Marks(s) /\ i >= 1
  BY <1>1
<1>3. PICK j \in 1..i : q[j] = s
  BY <1>2 DEF Before
<1>4. j # 1
  BY <1>3
<1>5. j - 1 \in 1..(i - 1) /\ Tail(q)[j - 1] = q[j]
  BY <1>1, <1>2, <1>3, <1>4
<1>. QED BY <1>3, <1>5

\* What waits for a statement that is still to come is not next.
LEMMA NotAtMark ==
    ASSUME NEW q \in Seq(Statement), q # <<>>, NEW s, Before(q, s)
    PROVE  Head(q) \notin Marks(s)
BY DEF Before

----------------------------------------------------------------------------
(* A statement that returns. *)

\* What the invariant says of one call.
LEMMA CallTyped ==
    ASSUME ToolsInv, NEW c \in ToolCall
    PROVE  /\ toolCall[c] \in ToolCallState /\ toolCall[c].todo \in Seq(Statement)
           /\ CallInv(toolCall[c], world, seen[c]) /\ seen[c] \subseteq World
BY DEF ToolsInv, ToolsTypeOK, ToolCallState

\* A step of one call that the others do not see.
LEMMA OneCall ==
    ASSUME ToolsInv, NEW c \in ToolCall, NEW new \in ToolCallState,
           toolCall' = [toolCall EXCEPT ![c] = new], UNCHANGED <<world, seen, changes>>,
           CallInv(new, world, seen[c])
    PROVE  ToolsInv'
<1>1. toolCall' \in [ToolCall -> ToolCallState]
      /\ \A d \in ToolCall : toolCall'[d] = IF d = c THEN new ELSE toolCall[d]
  BY DEF ToolsInv, ToolsTypeOK
<1>2. ToolsTypeOK'
  BY <1>1 DEF ToolsInv, ToolsTypeOK
<1>3. \A d \in ToolCall : CallInv(toolCall'[d], world', seen'[d])
  BY <1>1 DEF ToolsInv
<1>. QED BY <1>2, <1>3 DEF ToolsInv

\* A call ends without its change, or after it.
LEMMA Ends ==
    ASSUME ToolsInv, NEW c \in ToolCall, toolCall[c].step = "running",
           NEW answer \in {"ok", "refused", "error"}, EndTool(c, answer),
           UNCHANGED <<world, seen, changes>>
    PROVE  ToolsInv'
<1>. DEFINE k == toolCall[c]
            new == [k EXCEPT !.step = "done", !.answer = answer, !.todo = <<>>, !.lock = Nothing]
<1>1. k \in ToolCallState /\ CallInv(k, world, seen[c])
  BY CallTyped
<1>2. <<>> \in Seq(Statement) /\ Nothing \in AnyRow \cup {Nothing}
  OBVIOUS
<1>3. new \in ToolCallState
  BY <1>1, <1>2 DEF ToolCallState
<1>4. /\ new.step = "done" /\ new.input = k.input /\ new.token = k.token /\ new.did = k.did
      /\ new.project = k.project /\ new.board = k.board /\ new.column = k.column
  BY <1>1 DEF ToolCallState
<1>5. toolCall' = [toolCall EXCEPT ![c] = new]
  BY DEF EndTool
<1>. HIDE DEF new
<1>6. Attends(new, seen[c])
  BY <1>1, <1>4 DEF CallInv, Attends
<1>7. k.did => Asks(new, seen[c])
  BY <1>1, <1>4 DEF CallInv, Asks
<1>8. CallInv(new, world, seen[c])
  BY <1>1, <1>4, <1>6, <1>7 DEF CallInv
<1>. QED BY <1>3, <1>5, <1>8, OneCall

\* A statement leads to the next one if it learnt what is required of it, otherwise out.
LEMMA StatementReturns ==
    ASSUME ToolsInv, NEW c \in ToolCall, NEW s \in Statement \ {"act"}, NEW ok \in BOOLEAN,
           NEW learnt, Returns(c, s, ok, learnt),
           ok => /\ learnt \in ToolCallState /\ learnt.step = toolCall[c].step
                 /\ learnt.input = toolCall[c].input /\ learnt.token = toolCall[c].token
                 /\ learnt.did = toolCall[c].did /\ learnt.todo = toolCall[c].todo
                 /\ Attends(learnt, seen[c])
                 /\ s \in Required(learnt.input.tool) => Learnt(learnt.input, seen[c], s)
                 /\ s = "projectRow" => \E w \in seen[c] : w.state[learnt.project] = "live"
    PROVE  ToolsInv'
<1>. DEFINE k == toolCall[c]  new == [learnt EXCEPT !.todo = Tail(@)]
<1>1. /\ k \in ToolCallState /\ CallInv(k, world, seen[c]) /\ k.todo \in Seq(Statement)
      /\ k.step = "running" /\ k.todo # <<>> /\ Head(k.todo) = s
      /\ UNCHANGED <<world, seen, changes>>
  BY CallTyped DEF Returns, AtStatement
<1>2. CASE EndTool(c, "error")
  BY <1>1, <1>2, Ends
<1>3. CASE ok /\ toolCall' = [toolCall EXCEPT ![c] = new]
  <2>1. Tail(k.todo) \in Seq(Statement) /\ learnt \in ToolCallState
    BY <1>1, <1>3
  <2>2. new \in ToolCallState
    BY <1>3, <2>1 DEF ToolCallState
  <2>3. /\ new.step = "running" /\ new.input = k.input /\ new.token = k.token
        /\ new.did = k.did /\ new.todo = Tail(k.todo)
        /\ new.project = learnt.project /\ new.board = learnt.board /\ new.column = learnt.column
    BY <1>1, <1>3, <2>1 DEF ToolCallState
  <2>. HIDE DEF new
  <2>4. Attends(new, seen[c])
    BY <1>3, <2>3 DEF Attends
  <2>5. Goes(new, seen[c])
    <3>1. Goes(k, seen[c])
      BY <1>1 DEF CallInv
    <3>2. \A j \in DOMAIN new.todo : j \in Nat /\ j >= 1 /\ j + 1 \in DOMAIN k.todo
                                     /\ new.todo[j] = k.todo[j + 1]
      BY <1>1, <2>3
    <3>3. ASSUME NEW j \in DOMAIN new.todo, j > 1, new.todo[j] = "membership"
          PROVE  new.todo[j - 1] = "projectRow"
      <4>0. /\ j + 1 \in DOMAIN k.todo /\ j + 1 > 1 /\ (j + 1) - 1 = j
            /\ k.todo[j + 1] = "membership"
        BY <3>2, <3>3
      <4>1. k.todo[j] = "projectRow"
        BY <3>1, <4>0 DEF Goes
      <4>2. j - 1 \in DOMAIN new.todo
        BY <1>1, <2>3, <3>2, <3>3
      <4>. QED BY <3>2, <3>3, <4>1, <4>2
    <3>4. new.input.tool # "tasks_move" => NoTarget(new.todo)
      BY <2>3, <3>1, <3>2 DEF Goes, NoTarget
    <3>5. ASSUME new.todo # <<>>, Head(new.todo) = "membership"
          PROVE  \E w \in seen[c] : w.state[new.project] = "live"
      <4>1. 1 \in DOMAIN new.todo /\ new.todo[1] = "membership"
        BY <1>1, <2>3, <3>5
      <4>2. k.todo[2] = "membership" /\ 2 \in DOMAIN k.todo
        BY <3>2, <4>1
      <4>3. k.todo[1] = "projectRow"
        BY <3>1, <4>2 DEF Goes
      <4>. QED BY <1>1, <1>3, <2>3, <4>3
    <3>. QED BY <3>3, <3>4, <3>5 DEF Goes
  <2>6. Asks(new, seen[c])
    <3>1. SUFFICES ASSUME NEW r \in Required(k.input.tool)
                   PROVE  Learnt(k.input, seen[c], r) \/ (~ k.did /\ Before(new.todo, r))
      BY <2>3 DEF Asks
    <3>2. CASE Learnt(k.input, seen[c], r)
      BY <3>2
    <3>3. CASE ~ Learnt(k.input, seen[c], r)
      <4>1. ~ k.did /\ Before(k.todo, r)
        BY <1>1, <3>3 DEF CallInv, Asks
      <4>2. r # s
        BY <1>3, <3>3
      <4>. QED BY <1>1, <2>3, <4>1, <4>2, StillToCome
    <3>. QED BY <3>2, <3>3
  <2>7. CallInv(new, world, seen[c])
    BY <1>1, <2>3, <2>4, <2>5, <2>6 DEF CallInv
  <2>. QED BY <1>1, <1>3, <2>2, <2>7, OneCall
<1>. QED BY <1>2, <1>3 DEF Returns

\* A statement that leaves the attention where it is.
LEMMA Reads ==
    ASSUME ToolsInv, NEW c \in ToolCall, NEW s \in Statement \ {"act"}, NEW ok \in BOOLEAN,
           Returns(c, s, ok, toolCall[c]),
           ok /\ s \in Required(toolCall[c].input.tool) =>
              Learnt(toolCall[c].input, seen[c], s),
           s = "projectRow" => (ok => \E w \in seen[c] : w.state[toolCall[c].project] = "live")
    PROVE  ToolsInv'
<1>1. toolCall[c] \in ToolCallState /\ Attends(toolCall[c], seen[c])
  BY CallTyped DEF Returns, AtStatement, CallInv
<1>. QED BY <1>1, StatementReturns

----------------------------------------------------------------------------
(* The inputs. *)

\* What a tool is given, and what it is not.
LEMMA InputTyped ==
    ASSUME NEW t \in Request, NEW i \in Inputs(t)
    PROVE  /\ i \in ToolInput /\ i.tool = t /\ i.on \in About(t)
           /\ About(t) # Tag => i.project = Nothing
           /\ About(t) = Tag => i.project \in ProjectRow
           /\ t # "tasks_move" => i.into = Nothing
           /\ t = "tasks_move" => i.into \in Column
           /\ t \notin {"projects_create", "project_members_update", "tasks_update"} => i.users = {}
           /\ t \notin {"tasks_create", "subtasks_create", "tasks_update"} => i.refs = {}
           /\ Listable(t) = {} => i.listed = {}
           /\ Listable(t) # {} => i.listed \subseteq Listable(t)
<1>1. About(t) \subseteq AnyRow \cup {Nothing} /\ Listable(t) \subseteq AnyRow
  BY DEF About, Listable, AnyRow
<1>. QED BY <1>1 DEF Inputs, ToolInput

\* The row an input is about.
LEMMA InputRow ==
    ASSUME NEW t \in Request, NEW i \in Inputs(t)
    PROVE  /\ i.on \in ProjectRow => ProjectOf(i) = i.on
           /\ i.on \in Board => ProjectOf(i) = Parent[i.on] /\ BoardOf(i) = i.on
           /\ i.on \in Column => BoardOf(i) = Parent[i.on]
           /\ i.on \in Task => ProjectOf(i) = Nothing /\ BoardOf(i) = Nothing
           /\ i.on \in Tag => i.project = ProjectOf(i)
           /\ ProjectOf(i) \in ProjectRow \cup {Nothing} /\ BoardOf(i) \in Board \cup {Nothing}
           /\ i.on = Nothing => ProjectOf(i) = Nothing
<1>1. i \in ToolInput /\ i.on \in About(t)
      /\ (About(t) # Tag => i.project = Nothing) /\ (About(t) = Tag => i.project \in ProjectRow)
  BY InputTyped
<1>2. About(t) \in {{Nothing}, ProjectRow, Tag, Board, Column, Task}
  BY DEF About
<1>3. i.on \notin Tag => i.project = Nothing
  BY <1>1
<1>4. i.on \in Tag => i.project \in ProjectRow
  BY <1>1, <1>2, Tables DEF AnyRow
<1>5. BoardOf(i) \in Board \cup {Nothing}
  BY McpToolsAssumption, Tables DEF BoardOf, McpToolsAssumption
<1>6. Nothing \notin Board /\ Nothing \notin Column /\ Nothing \notin ProjectRow
      /\ Nothing \notin Task /\ Nothing \notin Tag
  BY Tables DEF AnyRow
<1>7. \A n \in Board : Parent[n] \in ProjectRow
  BY McpToolsAssumption DEF McpToolsAssumption
<1>8. i.on \in Board => BoardOf(i) = i.on
  BY Tables DEF BoardOf
<1>9. i.on \in Column => BoardOf(i) = Parent[i.on]
  BY Tables DEF BoardOf
<1>10. i.on \notin Board \cup Column => BoardOf(i) = Nothing
  BY Tables DEF BoardOf
<1>11. i.on \in ProjectRow => ProjectOf(i) = i.on
  BY <1>3, <1>10, Tables DEF ProjectOf
<1>12. i.on \in Board => ProjectOf(i) = Parent[i.on]
  BY <1>3, <1>6, <1>8, Tables DEF ProjectOf
<1>13. i.on \in Tag => ProjectOf(i) = i.project
  BY <1>4, <1>6, <1>10, Tables DEF ProjectOf
<1>14. i.on \in Task \cup {Nothing} => ProjectOf(i) = Nothing /\ BoardOf(i) = Nothing
  BY <1>3, <1>6, <1>10, Tables DEF ProjectOf
<1>15. ProjectOf(i) \in ProjectRow \cup {Nothing}
  BY <1>3, <1>4, <1>5, <1>6, <1>7 DEF ProjectOf
<1>. QED BY <1>5, <1>8, <1>9, <1>11, <1>12, <1>13, <1>14, <1>15

\* The tools whose statements compare a title are about rows of that table.
LEMMA AboutOf ==
    ASSUME NEW t \in Request, NEW i \in Inputs(t), NEW s \in Required(t)
    PROVE  /\ s \in {"projectTitle", "projectListed"} => i.on \in ProjectRow
           /\ s = "boardOrder" => i.on \in ProjectRow /\ Listable(t) = Board
           /\ s \in {"tagTitle", "manage"} => i.on \in Tag
           /\ s = "boardTitle" => i.on \in Board
           /\ s = "columnOrder" => i.on \in Board /\ Listable(t) = Column
           /\ s = "columnTitle" => i.on \in Column
           /\ s = "taskTitle" => i.on \in Task
           /\ s = "targetTitle" => t = "tasks_move"
           /\ s = "tagLabels" => t # "tasks_move"
           /\ s = "projectOrder" => Listable(t) = ProjectRow
<1>1. i.on \in About(t) /\ Requires(t, s)
  BY InputTyped DEF Required
<1>2. s \in {"projectTitle", "projectListed"} => About(t) = ProjectRow
  BY <1>1 DEF Requires, About
<1>3. s = "boardOrder" => About(t) = ProjectRow /\ Listable(t) = Board
  BY <1>1 DEF Requires, About, Listable
<1>4. s \in {"tagTitle", "manage"} => About(t) = Tag
  BY <1>1 DEF Requires, About
<1>5. s = "boardTitle" => About(t) = Board
  BY <1>1 DEF Requires, About
<1>6. s = "columnOrder" => About(t) = Board /\ Listable(t) = Column
  BY <1>1 DEF Requires, About, Listable
<1>7. s = "columnTitle" => About(t) = Column
  BY <1>1 DEF Requires, About
<1>8. s = "taskTitle" => About(t) = Task
  BY <1>1 DEF Requires, About
<1>9. (s = "targetTitle" => t = "tasks_move") /\ (s = "tagLabels" => t # "tasks_move")
  BY <1>1 DEF Requires
<1>10. s = "projectOrder" => Listable(t) = ProjectRow
  BY <1>1 DEF Requires, Listable
<1>. QED BY <1>1, <1>2, <1>3, <1>4, <1>5, <1>6, <1>7, <1>8, <1>9, <1>10

----------------------------------------------------------------------------
(* The statements, one after the other. *)

\* What the invariant says of a call whose statement s returns.
LEMMA Running ==
    ASSUME ToolsInv, NEW c \in ToolCall, NEW s, AtStatement(c, s)
    PROVE  /\ toolCall[c] \in ToolCallState /\ toolCall[c].step = "running"
           /\ toolCall[c].input.tool \in Request
           /\ toolCall[c].input \in Inputs(toolCall[c].input.tool)
           /\ world \in seen[c] /\ world \in World
           /\ Attends(toolCall[c], seen[c]) /\ Goes(toolCall[c], seen[c])
           /\ toolCall[c].todo # <<>> /\ Head(toolCall[c].todo) = s
BY CallTyped DEF AtStatement, CallInv, ToolsInv, ToolsTypeOK

\* Statements that a tool need not have.
LEMMA Unasked ==
    ASSUME ToolsInv, NEW c \in ToolCall,
           \/ ReadProjectRow(c) \/ ReadBoardRow(c) \/ ReadBoardLive(c) \/ ReadColumnRow(c)
           \/ ReadColumnOfLiveBoard(c) \/ ReadTagLive(c)
    PROVE  ToolsInv'
<1>. DEFINE k == toolCall[c]
<1>1. CASE ReadProjectRow(c)
  <2>1. Returns(c, "projectRow", Live(k.project), k) /\ Live(k.project) \in BOOLEAN
    BY <1>1 DEF ReadProjectRow, Live
  <2>2. world \in seen[c] /\ "projectRow" \notin Required(k.input.tool)
    BY <2>1, Running DEF Returns, Required, Checked
  <2>. QED BY <2>1, <2>2, Reads DEF Statement, Live
<1>2. CASE ~ ReadProjectRow(c)
  <2>1. PICK s \in {"boardRow", "boardLive", "columnRow", "columnOfLiveBoard", "tagLive"},
             ok \in BOOLEAN : Returns(c, s, ok, k)
    BY <1>2 DEF ReadBoardRow, ReadBoardLive, ReadColumnRow, ReadColumnOfLiveBoard,
       ReadTagLive, Live, Stored
  <2>2. s \notin Required(k.input.tool) /\ s \in Statement \ {"act"} /\ s # "projectRow"
    BY <2>1 DEF Required, Checked, Statement
  <2>. QED BY <2>1, <2>2, Reads
<1>. QED BY <1>1, <1>2

\* The membership is asked at the project the row that was just read belongs to.
LEMMA MembershipInv ==
    ASSUME ToolsInv, NEW c \in ToolCall, ReadMembership(c)
    PROVE  ToolsInv'
<1>. DEFINE k == toolCall[c]  i == k.input  ok == IsReader(k.project, world.member)
<1>1. Returns(c, "membership", ok, k) /\ AtStatement(c, "membership")
  BY DEF ReadMembership, Returns
<1>2. /\ k \in ToolCallState /\ i.tool \in Request /\ i \in Inputs(i.tool) /\ world \in seen[c]
      /\ world \in World /\ Attends(k, seen[c])
      /\ \E w \in seen[c] : w.state[k.project] = "live"
  BY <1>1, Running DEF Goes
<1>3. ok \in BOOLEAN
  BY DEF IsReader
<1>4. ASSUME ok PROVE Learnt(i, seen[c], "membership")
  <2>1. k.project \in Owned \cup world.member
    BY <1>4 DEF IsReader
  <2>2. k.project # Nothing
    BY <1>2, <2>1, McpToolsAssumption, Tables DEF McpToolsAssumption, AnyRow, World
  <2>3. k.project \in Spots(i, seen[c]) \/ Learnt(i, seen[c], "membership")
    BY <1>2, <2>2 DEF Attends, Spots
  <2>. QED BY <1>2, <2>1, <2>3 DEF Learnt
<1>. HIDE DEF ok
<1>. QED BY <1>1, <1>3, <1>4, Reads DEF Statement

\* The statements that compare a title.
LEMMA TitlesInv ==
    ASSUME ToolsInv, NEW c \in ToolCall,
           \/ ReadProjectTitle(c) \/ ReadProjectListed(c) \/ ReadBoardTitle(c)
           \/ ReadColumnTitle(c) \/ ReadUserNames(c) \/ ReadTagTitle(c) \/ ReadManage(c)
    PROVE  ToolsInv'
<1>. DEFINE k == toolCall[c]  i == k.input
<1>1. CASE ReadProjectTitle(c) \/ ReadProjectListed(c)
  <2>1. PICK s \in {"projectTitle", "projectListed"}, ok \in BOOLEAN :
             Returns(c, s, ok, k) /\ (ok => Known(k.project))
    BY <1>1 DEF ReadProjectTitle, ReadProjectListed, Live, Known
  <2>2. /\ i.tool \in Request /\ i \in Inputs(i.tool) /\ world \in seen[c]
        /\ Attends(k, seen[c])
    BY <2>1, Running DEF Returns
  <2>3. ASSUME ok, s \in Required(i.tool) PROVE Learnt(i, seen[c], s)
    <3>1. i.on \in ProjectRow
      BY <2>2, <2>3, AboutOf
    <3>2. k.project = i.on
      BY <2>2, <3>1, InputRow, Tables DEF Attends
    <3>. QED BY <2>1, <2>2, <2>3, <3>2 DEF Learnt, Titled, Known
  <2>. QED BY <2>1, <2>3, Reads DEF Statement
<1>2. CASE ReadBoardTitle(c)
  <2>1. /\ Returns(c, "boardTitle", Stored(k.board) /\ Known(k.board), k)
        /\ (Stored(k.board) /\ Known(k.board)) \in BOOLEAN
    BY <1>2 DEF ReadBoardTitle
  <2>2. /\ i.tool \in Request /\ i \in Inputs(i.tool) /\ world \in seen[c]
        /\ Attends(k, seen[c])
    BY <2>1, Running DEF Returns
  <2>3. ASSUME Known(k.board), "boardTitle" \in Required(i.tool)
        PROVE  Learnt(i, seen[c], "boardTitle")
    <3>1. i.on \in Board
      BY <2>2, <2>3, AboutOf
    <3>2. k.board = i.on
      BY <2>2, <3>1, InputRow, Tables DEF Attends
    <3>. QED BY <2>2, <2>3, <3>2 DEF Learnt, Titled, Known
  <2>. QED BY <2>1, <2>3, Reads DEF Statement
<1>3. CASE ReadColumnTitle(c)
  <2>1. /\ Returns(c, "columnTitle", Live(k.column) /\ Known(k.column), k)
        /\ (Live(k.column) /\ Known(k.column)) \in BOOLEAN
    BY <1>3 DEF ReadColumnTitle
  <2>2. /\ i.tool \in Request /\ i \in Inputs(i.tool) /\ world \in seen[c]
        /\ Attends(k, seen[c])
    BY <2>1, Running DEF Returns
  <2>3. ASSUME Known(k.column), "columnTitle" \in Required(i.tool)
        PROVE  Learnt(i, seen[c], "columnTitle")
    <3>1. i.on \in Column
      BY <2>2, <2>3, AboutOf
    <3>2. k.column = i.on
      BY <2>2, <3>1, Tables DEF Attends
    <3>. QED BY <2>2, <2>3, <3>2 DEF Learnt, Titled, Known
  <2>. QED BY <2>1, <2>3, Reads DEF Statement
<1>4. CASE ReadUserNames(c)
  <2>. DEFINE ok == \A u \in i.users : Live(u) /\ Known(u)
  <2>1. Returns(c, "userNames", ok, k) /\ ok \in BOOLEAN
    BY <1>4 DEF ReadUserNames
  <2>2. world \in seen[c]
    BY <2>1, Running DEF Returns
  <2>3. ok => Learnt(i, seen[c], "userNames")
    BY <2>2 DEF Learnt, Titled, Known
  <2>. HIDE DEF ok
  <2>. QED BY <2>1, <2>3, Reads DEF Statement
<1>5. CASE ReadTagTitle(c)
  <2>. DEFINE ok == i.on \in LabelsOf(k.project)
  <2>1. Returns(c, "tagTitle", ok, k) /\ ok \in BOOLEAN
    BY <1>5 DEF ReadTagTitle
  <2>2. /\ i.tool \in Request /\ i \in Inputs(i.tool) /\ world \in seen[c]
        /\ Attends(k, seen[c])
    BY <2>1, Running DEF Returns
  <2>3. ASSUME ok PROVE Learnt(i, seen[c], "tagTitle")
    <3>1. i.on \in Tag /\ Parent[i.on] = k.project /\ Known(i.on)
      BY <2>3 DEF LabelsOf
    <3>2. k.project = ProjectOf(i)
      BY <2>2, <3>1, Tables DEF Attends
    <3>. QED BY <2>2, <3>1, <3>2 DEF Learnt, Titled, Known
  <2>. HIDE DEF ok
  <2>. QED BY <2>1, <2>3, Reads DEF Statement
<1>6. CASE ReadManage(c)
  <2>. DEFINE ok == Live(k.project) /\ k.project \in Owned
  <2>1. Returns(c, "manage", ok, k) /\ ok \in BOOLEAN
    BY <1>6 DEF ReadManage
  <2>2. i.tool \in Request /\ i \in Inputs(i.tool) /\ Attends(k, seen[c])
    BY <2>1, Running DEF Returns
  <2>3. ASSUME ok, "manage" \in Required(i.tool) PROVE Learnt(i, seen[c], "manage")
    <3>1. i.on \in Tag
      BY <2>2, <2>3, AboutOf
    <3>2. k.project = ProjectOf(i)
      BY <2>2, <3>1, Tables DEF Attends
    <3>. QED BY <2>3, <3>2 DEF Learnt
  <2>. HIDE DEF ok
  <2>. QED BY <2>1, <2>3, Reads DEF Statement
<1>. QED BY <1>1, <1>2, <1>3, <1>4, <1>5, <1>6

\* The tags of a task, and the orders.
LEMMA ListsInv ==
    ASSUME ToolsInv, NEW c \in ToolCall,
           \/ ReadTagLabels(c) \/ ReadProjectOrder(c) \/ ReadBoardOrder(c) \/ ReadColumnOrder(c)
    PROVE  ToolsInv'
<1>. DEFINE k == toolCall[c]  i == k.input
<1>1. CASE ReadTagLabels(c)
  <2>. DEFINE ok == i.refs \subseteq LabelsOf(k.project)
  <2>1. Returns(c, "tagLabels", ok, k) /\ ok \in BOOLEAN
    BY <1>1 DEF ReadTagLabels
  <2>2. /\ i.tool \in Request /\ i \in Inputs(i.tool) /\ world \in seen[c]
        /\ Attends(k, seen[c])
    BY <2>1, Running DEF Returns
  <2>3. ASSUME ok, "tagLabels" \in Required(i.tool) PROVE Learnt(i, seen[c], "tagLabels")
    <3>1. i.tool # "tasks_move"
      BY <2>2, <2>3, AboutOf
    <3>2. ASSUME NEW g \in i.refs
          PROVE  Titled(g, seen[c]) /\ (i.on \in Task => Parent[g] \in Met(i, seen[c]))
      <4>1. g \in Tag /\ Parent[g] = k.project /\ Known(g)
        BY <2>3, <3>2 DEF LabelsOf
      <4>2. Parent[g] # Nothing
        BY <4>1, McpToolsAssumption, Tables DEF McpToolsAssumption, AnyRow
      <4>. QED BY <2>2, <3>1, <4>1, <4>2 DEF Attends, Titled, Known
    <3>. QED BY <3>2 DEF Learnt
  <2>. HIDE DEF ok
  <2>. QED BY <2>1, <2>3, Reads DEF Statement
<1>2. CASE ReadProjectOrder(c)
  <2>. DEFINE ok == AssertCompleteOrder(i.listed, Listed(k))
  <2>1. Returns(c, "projectOrder", ok, k) /\ ok \in BOOLEAN
    BY <1>2 DEF ReadProjectOrder, AssertCompleteOrder
  <2>2. world \in seen[c]
    BY <2>1, Running DEF Returns
  <2>3. ok => Learnt(i, seen[c], "projectOrder")
    BY <2>2 DEF AssertCompleteOrder, Learnt, Titled, Known
  <2>. HIDE DEF ok
  <2>. QED BY <2>1, <2>3, Reads DEF Statement
<1>3. CASE ReadBoardOrder(c)
  <2>. DEFINE boards == {b \in Board : Live(b) /\ Parent[b] = k.project}
              ok == AssertCompleteOrder(i.listed, boards)
  <2>1. Returns(c, "boardOrder", ok, k) /\ ok \in BOOLEAN
    BY <1>3 DEF ReadBoardOrder, AssertCompleteOrder
  <2>2. /\ i.tool \in Request /\ i \in Inputs(i.tool) /\ world \in seen[c]
        /\ Attends(k, seen[c])
    BY <2>1, Running DEF Returns
  <2>3. ASSUME ok, "boardOrder" \in Required(i.tool) PROVE Learnt(i, seen[c], "boardOrder")
    <3>1. i.on \in ProjectRow /\ Listable(i.tool) = Board
      BY <2>2, <2>3, AboutOf
    <3>2. k.project = i.on
      BY <2>2, <3>1, InputRow, Tables DEF Attends
    <3>3. i.listed = boards /\ \A n \in i.listed : Known(n)
      BY <2>3 DEF AssertCompleteOrder
    <3>4. Complete(i, world)
      BY <3>1, <3>2, <3>3, Tables DEF Complete, Live
    <3>. QED BY <2>2, <3>3, <3>4 DEF Learnt, Titled, Known
  <2>. HIDE DEF ok
  <2>. QED BY <2>1, <2>3, Reads DEF Statement
<1>4. CASE ReadColumnOrder(c)
  <2>. DEFINE columns == {n \in Column : Live(n) /\ Parent[n] = k.board}
              ok == AssertCompleteOrder(i.listed, columns)
  <2>1. Returns(c, "columnOrder", ok, k) /\ ok \in BOOLEAN
    BY <1>4 DEF ReadColumnOrder, AssertCompleteOrder
  <2>2. /\ i.tool \in Request /\ i \in Inputs(i.tool) /\ world \in seen[c]
        /\ Attends(k, seen[c])
    BY <2>1, Running DEF Returns
  <2>3. ASSUME ok, "columnOrder" \in Required(i.tool) PROVE Learnt(i, seen[c], "columnOrder")
    <3>1. i.on \in Board /\ Listable(i.tool) = Column
      BY <2>2, <2>3, AboutOf
    <3>2. k.board = i.on
      BY <2>2, <3>1, InputRow, Tables DEF Attends
    <3>3. i.listed = columns /\ \A n \in i.listed : Known(n)
      BY <2>3 DEF AssertCompleteOrder
    <3>4. Complete(i, world)
      BY <3>1, <3>2, <3>3, Tables DEF Complete, Live
    <3>. QED BY <2>2, <3>3, <3>4 DEF Learnt, Titled, Known
  <2>. HIDE DEF ok
  <2>. QED BY <2>1, <2>3, Reads DEF Statement
<1>. QED BY <1>1, <1>2, <1>3, <1>4

\* The statements that learn something else.
LEMMA OthersInv ==
    ASSUME ToolsInv, NEW c \in ToolCall, ReadMemberships(c) \/ FavoriteIsSet(c) \/ LockBoard(c)
    PROVE  ToolsInv'
<1>. DEFINE k == toolCall[c]
<1>1. CASE ReadMemberships(c)
  <2>. DEFINE new == [k EXCEPT !.memberOf = world.member]
  <2>1. Returns(c, "memberships", TRUE, new)
    BY <1>1 DEF ReadMemberships
  <2>2. k \in ToolCallState /\ world.member \in SUBSET ProjectRow /\ Attends(k, seen[c])
    BY <2>1, Running DEF Returns, World
  <2>3. new \in ToolCallState
    BY <2>2 DEF ToolCallState
  <2>4. /\ new.step = k.step /\ new.input = k.input /\ new.token = k.token /\ new.did = k.did
        /\ new.todo = k.todo /\ new.project = k.project /\ new.board = k.board
        /\ new.column = k.column
    BY <2>2 DEF ToolCallState
  <2>. HIDE DEF new
  <2>5. Attends(new, seen[c])
    BY <2>2, <2>4 DEF Attends
  <2>6. "memberships" \notin Required(new.input.tool)
    BY DEF Required, Checked
  <2>. QED BY <2>1, <2>3, <2>4, <2>5, <2>6, StatementReturns DEF Statement
<1>2. CASE FavoriteIsSet(c)
  BY <1>2, Ends DEF FavoriteIsSet, AtStatement
<1>3. CASE LockBoard(c)
  <2>. DEFINE new == [k EXCEPT !.lock = k.board]  ok == Live(k.board)
  <2>1. Returns(c, "boardLocked", ok, new) /\ ok \in BOOLEAN
    BY <1>3 DEF LockBoard, Live
  <2>2. k \in ToolCallState /\ Attends(k, seen[c])
    BY <2>1, Running DEF Returns
  <2>3. k.board \in AnyRow \cup {Nothing}
    BY <2>2 DEF ToolCallState, AnyRow
  <2>4. new \in ToolCallState
    BY <2>2, <2>3 DEF ToolCallState
  <2>5. /\ new.step = k.step /\ new.input = k.input /\ new.token = k.token /\ new.did = k.did
        /\ new.todo = k.todo /\ new.project = k.project /\ new.board = k.board
        /\ new.column = k.column
    BY <2>2 DEF ToolCallState
  <2>. HIDE DEF new, ok
  <2>6. Attends(new, seen[c])
    BY <2>2, <2>5 DEF Attends
  <2>7. "boardLocked" \notin Required(new.input.tool)
    BY DEF Required, Checked
  <2>. QED BY <2>1, <2>4, <2>5, <2>6, <2>7, StatementReturns DEF Statement
<1>. QED BY <1>1, <1>2, <1>3

\* The call k turned to column n.
LEMMA TurnsTo ==
    ASSUME NEW k \in ToolCallState, NEW n \in Column
    PROVE  /\ Within(k, n) \in ToolCallState
           /\ Within(k, n).step = k.step /\ Within(k, n).input = k.input
           /\ Within(k, n).token = k.token /\ Within(k, n).did = k.did
           /\ Within(k, n).todo = k.todo
           /\ Within(k, n).project = Parent[Parent[n]] /\ Within(k, n).column = n
<1>1. Parent[n] \in Board /\ Parent[Parent[n]] \in ProjectRow
  BY McpToolsAssumption DEF McpToolsAssumption
<1>. QED BY <1>1 DEF Within, ToolCallState

\* A call turns to its target once it has asked for the membership at its task.
LEMMA TargetInv ==
    ASSUME ToolsInv, NEW c \in ToolCall, ReadTargetTitle(c) \/ ReadTargetRow(c)
    PROVE  ToolsInv'
<1>. DEFINE k == toolCall[c]  i == k.input  new == Within(k, i.into)
<1>1. PICK s \in {"targetTitle", "targetRow"}, ok \in BOOLEAN :
         /\ Returns(c, s, ok, new) /\ AtStatement(c, s)
         /\ s = "targetTitle" => (ok => Known(new.column))
  BY DEF ReadTargetTitle, ReadTargetRow, Target, Live, Known, Returns
<1>2. /\ k \in ToolCallState /\ i.tool \in Request /\ i \in Inputs(i.tool) /\ world \in seen[c]
      /\ Goes(k, seen[c]) /\ k.todo # <<>> /\ Head(k.todo) = s /\ k.step = "running"
  BY <1>1, Running
<1>3. k.todo \in Seq(Statement) /\ CallInv(k, world, seen[c])
  BY CallTyped
<1>4. i.tool = "tasks_move"
  BY <1>1, <1>2, <1>3 DEF Goes, NoTarget
<1>5. i.on \in Task /\ i.into \in Column
  BY <1>2, <1>4, InputTyped DEF About
<1>6. /\ new \in ToolCallState /\ new.step = k.step /\ new.input = i /\ new.token = k.token
      /\ new.did = k.did /\ new.todo = k.todo /\ new.column = i.into
  BY <1>2, <1>5, TurnsTo
<1>. HIDE DEF new
<1>7. Learnt(i, seen[c], "membership")
  <2>1. "membership" \in Required(i.tool)
    BY <1>4 DEF Required, Requires, Checked, Global
  <2>2. s \in Marks("membership")
    BY <1>1 DEF Marks
  <2>. QED BY <1>2, <1>3, <2>1, <2>2, NotAtMark DEF CallInv, Asks
<1>8. Attends(new, seen[c])
  BY <1>4, <1>5, <1>6, <1>7 DEF Attends
<1>9. ok /\ s \in Required(new.input.tool) => Learnt(new.input, seen[c], s)
  <2>1. "targetRow" \notin Required(i.tool)
    BY DEF Required, Checked
  <2>2. ok /\ s = "targetTitle" => Learnt(i, seen[c], s)
    BY <1>1, <1>2, <1>6 DEF Learnt, Titled, Known
  <2>. QED BY <1>1, <1>6, <2>1, <2>2
<1>. QED BY <1>1, <1>6, <1>8, <1>9, StatementReturns DEF Statement

\* A call turns to where its task is.
LEMMA TaskInv ==
    ASSUME ToolsInv, NEW c \in ToolCall,
           ReadTaskRow(c) \/ ReadTaskTitle(c) \/ ReadTaskLive(c) \/ LockTask(c)
    PROVE  ToolsInv'
<1>. DEFINE k == toolCall[c]  i == k.input  at == AtTask(c)
            new(locks) == IF locks THEN [at EXCEPT !.lock = i.on] ELSE at
<1>1. PICK s \in {"taskRow", "taskTitle", "taskLive", "taskLocked"}, ok \in BOOLEAN,
           locks \in BOOLEAN :
         /\ i.on \in Task /\ Returns(c, s, ok, new(locks)) /\ AtStatement(c, s)
         /\ s = "taskTitle" => (ok => Known(i.on))
  <2>1. CASE LockTask(c)
    BY <2>1 DEF LockTask, TheTask, Returns, Live
  <2>2. CASE ~ LockTask(c)
    <3>1. new(FALSE) = at
      OBVIOUS
    <3>. QED BY <2>2, <3>1 DEF ReadTaskRow, ReadTaskTitle, ReadTaskLive, TheTask,
         Returns, Live, Stored, Known
  <2>. QED BY <2>1, <2>2
<1>2. /\ k \in ToolCallState /\ world \in seen[c] /\ world \in World
  BY <1>1, Running
<1>3. world.column[i.on] \in Column
  BY <1>1, <1>2 DEF World
<1>4. /\ at \in ToolCallState /\ at.step = k.step /\ at.input = i /\ at.token = k.token
      /\ at.did = k.did /\ at.todo = k.todo
      /\ at.project = Parent[Parent[world.column[i.on]]]
  BY <1>2, <1>3, TurnsTo DEF AtTask, TheTask
<1>. HIDE DEF at
<1>5. i.on \in AnyRow
  BY <1>1 DEF AnyRow
<1>6. /\ new(locks) \in ToolCallState /\ new(locks).step = k.step /\ new(locks).input = i
      /\ new(locks).token = k.token /\ new(locks).did = k.did /\ new(locks).todo = k.todo
      /\ new(locks).project = Parent[Parent[world.column[i.on]]]
  BY <1>4, <1>5 DEF ToolCallState
<1>. HIDE DEF new
<1>7. Attends(new(locks), seen[c])
  BY <1>1, <1>2, <1>6 DEF Attends, Met
<1>8. ok /\ s \in Required(i.tool) => Learnt(i, seen[c], s)
  <2>1. s \in Required(i.tool) => s = "taskTitle"
    BY <1>1 DEF Required, Checked
  <2>. QED BY <1>1, <1>2, <2>1 DEF Learnt, Titled, Known
<1>. QED BY <1>1, <1>6, <1>7, <1>8, StatementReturns DEF Statement

----------------------------------------------------------------------------
(* The world changes while calls run. *)

\* What holds of a call holds when more worlds have passed.
LEMMA CallStays ==
    ASSUME NEW k, NEW w, NEW older, CallInv(k, w, older), NEW now, NEW newer,
           older \subseteq newer, k.step = "running" => now \in newer
    PROVE  CallInv(k, now, newer)
<1>1. Met(k.input, older) \subseteq Met(k.input, newer)
  BY DEF Met
<1>2. "membership" \in Checked /\ Required(k.input.tool) \subseteq Checked
  BY DEF Checked, Required
<1>3. \A s \in Checked : Learnt(k.input, older, s) => Learnt(k.input, newer, s)
  BY LearntStays
<1>4. Attends(k, older) => Attends(k, newer)
  BY <1>1, <1>2, <1>3 DEF Attends
<1>5. Goes(k, older) => Goes(k, newer)
  BY DEF Goes
<1>6. Asks(k, older) => Asks(k, newer)
  BY <1>2, <1>3 DEF Asks
<1>7. (\E v \in older : Complete(k.input, v)) => \E v \in newer : Complete(k.input, v)
  OBVIOUS
<1>. QED BY <1>4, <1>5, <1>6, <1>7 DEF CallInv

\* A world that comes to pass is seen by every call that runs.
LEMMA WatchedGrows ==
    ASSUME ToolsInv, NEW w \in World, seen' = Watched(w)
    PROVE  /\ seen' \in [ToolCall -> SUBSET World]
           /\ \A c \in ToolCall : /\ seen[c] \subseteq seen'[c]
                                  /\ toolCall[c].step = "running" => w \in seen'[c]
BY DEF ToolsInv, ToolsTypeOK, Watched

\* A change by another user.
LEMMA OtherUserInv ==
    ASSUME ToolsInv, NEW w \in World, OtherUser(w)
    PROVE  ToolsInv'
<1>1. /\ world' = w /\ toolCall' = toolCall /\ seen' = Watched(w) /\ changes' = changes + 1
  BY DEF OtherUser
<1>2. ToolsTypeOK'
  BY <1>1, WatchedGrows DEF ToolsInv, ToolsTypeOK
<1>3. ASSUME NEW c \in ToolCall PROVE CallInv(toolCall'[c], world', seen'[c])
  BY <1>1, WatchedGrows, CallTyped, CallStays
<1>. QED BY <1>2, <1>3 DEF ToolsInv

\* All of them.
LEMMA OtherUsersInv == ASSUME ToolsInv, OtherUsers PROVE ToolsInv'
<1>1. /\ world \in World /\ DOMAIN world.title = AnyRow /\ DOMAIN world.state = AnyRow
      /\ world.column \in [Task -> Column] /\ world.member \subseteq ProjectRow
  BY DEF ToolsInv, ToolsTypeOK, World
<1>2. CASE \E n \in AnyRow : Rename(n) \/ Archive(n) \/ Restore(n) \/ CreateLater(n)
  <2>1. PICK n \in AnyRow : Rename(n) \/ Archive(n) \/ Restore(n) \/ CreateLater(n)
    BY <1>2
  <2>2. /\ \A v \in {"known", "other"} : [world EXCEPT !.title[n] = v] \in World
        /\ \A v \in {"absent", "live", "archived"} : [world EXCEPT !.state[n] = v] \in World
    BY <1>1 DEF World
  <2>3. [world EXCEPT !.title[n] = IF @ = "known" THEN "other" ELSE "known"] \in World
    BY <1>1 DEF World
  <2>. QED BY <2>1, <2>2, <2>3, OtherUserInv DEF Rename, Archive, Restore, CreateLater
<1>3. CASE \E p \in ProjectRow : Leave(p) \/ Join(p)
  <2>1. PICK p \in ProjectRow : Leave(p) \/ Join(p)
    BY <1>3
  <2>2. /\ [world EXCEPT !.member = @ \ {p}] \in World
        /\ [world EXCEPT !.member = @ \cup {p}] \in World
    BY <1>1 DEF World
  <2>. QED BY <2>1, <2>2, OtherUserInv DEF Leave, Join
<1>4. CASE \E t \in Task, n \in Column : Relocate(t, n)
  <2>1. PICK t \in Task, n \in Column : Relocate(t, n)
    BY <1>4
  <2>2. [world EXCEPT !.column[t] = n] \in World
    BY <1>1 DEF World
  <2>. QED BY <2>1, <2>2, OtherUserInv DEF Relocate
<1>. QED BY <1>2, <1>3, <1>4 DEF OtherUsers

----------------------------------------------------------------------------
(* The change. *)

\* Only tasks_move moves.
LEMMA OnlyMovesMove == \A t \in Request : Handler(t).act = "move" => t = "tasks_move"
<1>1. /\ "move" # projects_create.act /\ "move" # projects_update.act
      /\ "move" # project_members_update.act /\ "move" # projects_favorite_set.act
      /\ "move" # projects_reorder.act /\ "move" # project_tags_create.act
      /\ "move" # project_tags_update.act /\ "move" # project_tags_delete.act
      /\ "move" # projects_delete.act /\ "move" # boards_create.act
      /\ "move" # boards_update.act /\ "move" # boards_reorder.act
      /\ "move" # boards_delete.act
  BY DEF projects_create, projects_update, project_members_update, projects_favorite_set,
     projects_reorder, project_tags_create, project_tags_update, project_tags_delete,
     projects_delete, boards_create, boards_update, boards_reorder, boards_delete
<1>2. /\ "move" # columns_create.act /\ "move" # columns_update.act
      /\ "move" # columns_reorder.act /\ "move" # columns_delete.act
      /\ "move" # tasks_create.act /\ "move" # subtasks_create.act
      /\ "move" # tasks_update.act /\ "move" # tasks_delete.act
      /\ "move" # task_comments_create.act
  BY DEF columns_create, columns_update, columns_reorder, columns_delete, tasks_create,
     subtasks_create, tasks_update, tasks_delete, task_comments_create
<1>3. \A t \in DOMAIN WriteTools : WriteTools[t].act = "move" => t = "tasks_move"
  BY <1>1, <1>2 DEF WriteTools
<1>4. \A t \in DOMAIN ProjectReads \cup DOMAIN BoardAndTaskReads \cup DOMAIN Resources :
         Handler(t).act = "read"
  BY ProjectReadHandler, BoardReadHandler, ResourceHandler DEF Reading
<1>5. Request = DOMAIN WriteTools \cup DOMAIN ProjectReads \cup DOMAIN BoardAndTaskReads
                  \cup DOMAIN Resources
  BY ToolNames DEF Request, Tool, ReadTool
<1>. QED BY <1>3, <1>4, <1>5, WriteHandler

\* A change leaves rows behind.
LEMMA ActedTyped ==
    ASSUME world \in World, NEW t \in Request, NEW i \in Inputs(t), NEW w \in Acted(i)
    PROVE  w \in World
<1>. DEFINE act == Handler(i.tool).act
<1>1. i.tool = t /\ (t = "tasks_move" => i.into \in Column) /\ (act = "move" => t = "tasks_move")
  BY InputTyped, OnlyMovesMove
<1>2. /\ DOMAIN world.title = AnyRow /\ DOMAIN world.state = AnyRow
      /\ world.column \in [Task -> Column] /\ world.member \subseteq ProjectRow
  BY DEF World
<1>. "boards_create" \in DOMAIN WriteTools /\ Handler("boards_create").act = "create"
  <2>1. "boards_create" \in DOMAIN WriteTools
    BY ToolNames DEF UpdateTool
  <2>. QED BY <2>1, WriteHandler DEF WriteTools, boards_create
<1>. HIDE DEF act
<1>3. CASE act = "rename"
  <2>1. w = [world EXCEPT !.title[i.on] = "other"]
    BY <1>3 DEF Acted, act
  <2>. QED BY <1>2, <2>1 DEF World
<1>4. CASE act = "delete"
  <2>. DEFINE gone == {i.on} \cup BoardTasks(i.on)
  <2>1. w = [world EXCEPT !.state = [n \in AnyRow |-> IF n \in gone THEN "archived" ELSE @[n]]]
    BY <1>4 DEF Acted, act
  <2>. HIDE DEF gone
  <2>. QED BY <1>2, <2>1 DEF World
<1>5. CASE act = "move"
  <2>1. w = [world EXCEPT !.column[i.on] = i.into]
    BY <1>5 DEF Acted, act
  <2>. QED BY <1>1, <1>2, <1>5, <2>1 DEF World
<1>6. CASE act \notin {"rename", "delete", "move"}
  <2>1. w = world \/ \E n \in AnyRow : w = [world EXCEPT !.state[n] = "live"]
    BY <1>6 DEF Acted, act, AnyRow
  <2>. QED BY <1>2, <2>1 DEF World
<1>. QED BY <1>3, <1>4, <1>5, <1>6

\* A call acts once everything its tool requires has returned.
LEMMA ActInv == ASSUME ToolsInv, NEW c \in ToolCall, Act(c) PROVE ToolsInv'
<1>. DEFINE k == toolCall[c]  i == k.input
            new == [k EXCEPT !.did = TRUE, !.lock = Nothing, !.todo = Tail(@)]
<1>1. /\ AtStatement(c, "act") /\ MayAct(i) /\ world' \in Acted(i)
      /\ toolCall' = [toolCall EXCEPT ![c] = new] /\ seen' = Watched(world')
      /\ changes' = changes
  BY DEF Act
<1>2. /\ k \in ToolCallState /\ i.tool \in Request /\ i \in Inputs(i.tool) /\ world \in seen[c]
      /\ world \in World /\ Attends(k, seen[c]) /\ Goes(k, seen[c])
      /\ k.todo # <<>> /\ Head(k.todo) = "act" /\ k.step = "running"
  BY <1>1, Running
<1>3. k.todo \in Seq(Statement) /\ CallInv(k, world, seen[c])
  BY CallTyped
<1>4. world' \in World
  BY <1>1, <1>2, ActedTyped
<1>5. Tail(k.todo) \in Seq(Statement) /\ Nothing \in AnyRow \cup {Nothing}
  BY <1>2, <1>3
<1>6. new \in ToolCallState
  BY <1>2, <1>5 DEF ToolCallState
<1>7. /\ new.step = "running" /\ new.input = i /\ new.token = k.token /\ new.did = TRUE
      /\ new.todo = Tail(k.todo) /\ new.project = k.project /\ new.board = k.board
      /\ new.column = k.column
  BY <1>2, <1>5 DEF ToolCallState
<1>. HIDE DEF new
<1>8. ASSUME NEW s \in Required(i.tool) PROVE Learnt(i, seen[c], s)
  <2>1. "act" \in Marks(s)
    BY DEF Marks
  <2>. QED BY <1>2, <1>3, <2>1, NotAtMark DEF CallInv, Asks
<1>9. i.tool = "projects_reorder" => Complete(i, world)
  <2>1. ASSUME i.tool = "projects_reorder" PROVE Complete(i, world)
    <3>1. i.listed = {p \in world.member : Live(p)}
      BY <1>1, <2>1 DEF MayAct
    <3>2. Listable(i.tool) = ProjectRow /\ world.member \subseteq ProjectRow
      BY <1>2, <2>1 DEF Listable, World
    <3>. QED BY <3>1, <3>2 DEF Complete, Live
  <2>. QED BY <2>1
<1>10. Goes(new, seen[c])
  <2>1. \A j \in DOMAIN new.todo : j \in Nat /\ j >= 1 /\ j + 1 \in DOMAIN k.todo
                                   /\ new.todo[j] = k.todo[j + 1]
    BY <1>2, <1>3, <1>7
  <2>2. ASSUME NEW j \in DOMAIN new.todo, j > 1, new.todo[j] = "membership"
        PROVE  new.todo[j - 1] = "projectRow"
    <3>0. /\ j + 1 \in DOMAIN k.todo /\ j + 1 > 1 /\ (j + 1) - 1 = j
          /\ k.todo[j + 1] = "membership"
      BY <2>1, <2>2
    <3>1. k.todo[j] = "projectRow"
      BY <1>2, <3>0 DEF Goes
    <3>2. j - 1 \in DOMAIN new.todo
      BY <1>3, <1>2, <1>7, <2>1, <2>2
    <3>. QED BY <2>1, <2>2, <3>1, <3>2
  <2>3. new.input.tool # "tasks_move" => NoTarget(new.todo)
    BY <1>2, <1>7, <2>1 DEF Goes, NoTarget
  <2>4. ~ (new.todo # <<>> /\ Head(new.todo) = "membership")
    <3>1. SUFFICES ASSUME new.todo # <<>>, Head(new.todo) = "membership" PROVE FALSE
      OBVIOUS
    <3>2. 1 \in DOMAIN new.todo /\ new.todo[1] = "membership"
      BY <1>2, <1>3, <1>7, <3>1
    <3>3. k.todo[2] = "membership" /\ 2 \in DOMAIN k.todo
      BY <2>1, <3>2
    <3>4. k.todo[1] = "projectRow"
      <4>. 2 > 1 /\ 2 - 1 = 1
        OBVIOUS
      <4>. QED BY <1>2, <3>3 DEF Goes
    <3>. QED BY <1>2, <3>4
  <2>. QED BY <2>2, <2>3, <2>4 DEF Goes
<1>11. CallInv(new, world, seen[c])
  <2>1. Attends(new, seen[c])
    BY <1>2, <1>7 DEF Attends
  <2>2. Asks(new, seen[c])
    BY <1>7, <1>8 DEF Asks
  <2>. QED BY <1>2, <1>3, <1>7, <1>9, <1>10, <2>1, <2>2 DEF CallInv
<1>12. /\ toolCall' \in [ToolCall -> ToolCallState]
       /\ \A d \in ToolCall : toolCall'[d] = IF d = c THEN new ELSE toolCall[d]
  BY <1>1, <1>6 DEF ToolsInv, ToolsTypeOK
<1>13. ToolsTypeOK'
  BY <1>1, <1>4, <1>12, WatchedGrows DEF ToolsInv, ToolsTypeOK
<1>14. ASSUME NEW d \in ToolCall PROVE CallInv(toolCall'[d], world', seen'[d])
  <2>1. /\ seen[d] \subseteq seen'[d]
        /\ toolCall[d].step = "running" => world' \in seen'[d]
    BY <1>1, <1>4, WatchedGrows
  <2>2. CASE d = c
    BY <1>2, <1>11, <1>12, <2>1, <2>2, CallStays
  <2>3. CASE d # c
    BY <1>12, <2>1, <2>3, CallTyped, CallStays
  <2>. QED BY <2>2, <2>3
<1>. QED BY <1>13, <1>14 DEF ToolsInv

----------------------------------------------------------------------------
(* A call begins. *)

\* A request that shows its scopes begins with everything its tool requires to come.
LEMMA AskInv == ASSUME ToolsInv, NEW c \in ToolCall, AskTool(c) PROVE ToolsInv'
<1>. DEFINE state(refused, i, token) ==
              [step |-> IF refused THEN "done" ELSE "running", input |-> i,
               token |-> token, project |-> ProjectOf(i), board |-> BoardOf(i),
               column |-> IF i.on \in Column THEN i.on ELSE Nothing,
               memberOf |-> {}, todo |-> IF refused THEN <<>> ELSE Handler(i.tool).run,
               lock |-> Nothing, did |-> FALSE,
               answer |-> IF refused THEN "refused" ELSE "none"]
<1>1. PICK t \in Request, token \in Tokens, single \in BOOLEAN, localDevelopment \in BOOLEAN :
         \E i \in Inputs(t) : toolCall' = [toolCall EXCEPT ![c] =
             state(Refused(i, token, single, localDevelopment), i, token)]
  BY DEF AskTool
<1>2. PICK i \in Inputs(t) : toolCall' = [toolCall EXCEPT ![c] =
             state(Refused(i, token, single, localDevelopment), i, token)]
  BY <1>1
<1>. DEFINE refused == Refused(i, token, single, localDevelopment)
            new == state(refused, i, token)
<1>3. /\ world' = world /\ changes' = changes /\ seen' = [seen EXCEPT ![c] = {world}]
      /\ toolCall[c].step = "idle" /\ toolCall' = [toolCall EXCEPT ![c] = new]
  BY <1>2 DEF AskTool
<1>4. i \in ToolInput /\ i.tool = t /\ i.on \in About(t)
  BY InputTyped
<1>5. Shape(t, Handler(t).run) /\ token \in SUBSET Scope
  BY AllShaped, McpToolsAssumption DEF McpToolsAssumption
<1>6. Handler(t).run \in Seq(Statement) /\ <<>> \in Seq(Statement)
  BY <1>5 DEF Shape, Flows
<1>7. ProjectOf(i) \in ProjectRow \cup {Nothing} /\ BoardOf(i) \in Board \cup {Nothing}
  BY InputRow
<1>8. new \in ToolCallState
  BY <1>4, <1>5, <1>6, <1>7 DEF ToolCallState
<1>9. /\ new.step = IF refused THEN "done" ELSE "running"
      /\ new.input = i /\ new.token = token /\ new.project = ProjectOf(i)
      /\ new.board = BoardOf(i) /\ (i.on \in Column => new.column = i.on)
      /\ new.todo = IF refused THEN <<>> ELSE Handler(t).run
      /\ new.did = FALSE
  BY <1>4
<1>. HIDE DEF new, refused, state
<1>10. /\ toolCall' \in [ToolCall -> ToolCallState]
       /\ \A d \in ToolCall : toolCall'[d] = IF d = c THEN new ELSE toolCall[d]
       /\ seen' \in [ToolCall -> SUBSET World]
       /\ \A d \in ToolCall : seen'[d] = IF d = c THEN {world} ELSE seen[d]
  BY <1>3, <1>8 DEF ToolsInv, ToolsTypeOK
<1>11. CallInv(new, world, {world})
  <2>1. Attends(new, {world})
    BY <1>4, <1>9, InputRow DEF Attends
  <2>2. ASSUME ~ refused
        PROVE  Goes(new, {world}) /\ Asserted(i) \subseteq token /\ Asks(new, {world})
    <3>1. new.todo = Handler(t).run /\ new.step = "running"
      BY <1>9, <2>2
    <3>2. Asserted(i) \subseteq token
      BY <2>2 DEF refused, Refused
    <3>3. Goes(new, {world})
      <4>1. \A j \in DOMAIN new.todo : new.todo[j] = "membership" =>
               j > 1 /\ new.todo[j - 1] = "projectRow"
        BY <1>5, <3>1 DEF Shape, Flows, Follows
      <4>2. ~ (new.todo # <<>> /\ Head(new.todo) = "membership")
        BY <1>6, <3>1, <4>1
      <4>3. t # "tasks_move" => NoTarget(new.todo)
        BY <1>5, <3>1 DEF Shape
      <4>. QED BY <1>4, <1>9, <4>1, <4>2, <4>3 DEF Goes
    <3>4. Asks(new, {world})
      BY <1>4, <1>5, <1>9, <3>1 DEF Asks, Shape
    <3>. QED BY <3>2, <3>3, <3>4
  <2>. QED BY <1>4, <1>9, <2>1, <2>2 DEF CallInv
<1>12. ToolsTypeOK'
  BY <1>3, <1>10 DEF ToolsInv, ToolsTypeOK
<1>13. ASSUME NEW d \in ToolCall PROVE CallInv(toolCall'[d], world', seen'[d])
  BY <1>3, <1>10, <1>11, CallTyped
<1>. QED BY <1>12, <1>13 DEF ToolsInv

\* No call runs at first.
LEMMA ToolsStart == ToolsInit => ToolsInv
<1>. DEFINE idle == [step |-> "idle", input |-> NoInput, token |-> {}, project |-> Nothing,
                     board |-> Nothing, column |-> Nothing, memberOf |-> {}, todo |-> <<>>,
                     lock |-> Nothing, did |-> FALSE, answer |-> "none"]
            first == [title |-> [n \in AnyRow |-> "known"],
                      state |-> [n \in AnyRow |-> IF n \in Later THEN "absent" ELSE "live"],
                      member |-> ProjectRow, column |-> FirstColumn]
<1>1. SUFFICES ASSUME ToolsInit PROVE ToolsInv
  OBVIOUS
<1>2. /\ world = first /\ toolCall = [c \in ToolCall |-> idle] /\ seen = [c \in ToolCall |-> {}]
      /\ changes = 0
  BY <1>1 DEF ToolsInit
<1>3. NoInput \in ToolInput
  BY DEF NoInput, ToolInput, Request, Tool, ReadTool
<1>4. <<>> \in Seq(Statement)
  OBVIOUS
<1>5. idle \in ToolCallState
  BY <1>3, <1>4 DEF ToolCallState
<1>6. FirstColumn \in [Task -> Column]
  BY McpToolsAssumption DEF McpToolsAssumption
<1>7. first \in World
  <2>1. [n \in AnyRow |-> "known"] \in [AnyRow -> {"known", "other"}]
    OBVIOUS
  <2>2. [n \in AnyRow |-> IF n \in Later THEN "absent" ELSE "live"]
          \in [AnyRow -> {"absent", "live", "archived"}]
    OBVIOUS
  <2>. QED BY <1>6, <2>1, <2>2 DEF World
<1>8. idle.step = "idle" /\ idle.did = FALSE
  OBVIOUS
<1>. HIDE DEF idle, first
<1>9. ToolsTypeOK
  BY <1>2, <1>5, <1>7 DEF ToolsTypeOK
<1>10. \A c \in ToolCall : CallInv(toolCall[c], world, seen[c])
  BY <1>2, <1>8 DEF CallInv
<1>. QED BY <1>9, <1>10 DEF ToolsInv

\* Every step keeps it.
LEMMA ToolsStep == ToolsInv /\ [ToolsNext]_toolsVars => ToolsInv'
<1>1. SUFFICES ASSUME ToolsInv, [ToolsNext]_toolsVars PROVE ToolsInv'
  OBVIOUS
<1>2. CASE \E c \in ToolCall : AskTool(c) \/ ReadStatement(c) \/ Act(c) \/ AnswerTool(c)
                                  \/ ToolFails(c)
  <2>1. PICK c \in ToolCall : AskTool(c) \/ ReadStatement(c) \/ Act(c) \/ AnswerTool(c)
                               \/ ToolFails(c)
    BY <1>2
  <2>2. CASE AskTool(c)
    BY <1>1, <2>2, AskInv
  <2>3. CASE ReadStatement(c)
    BY <1>1, <2>3, Unasked, MembershipInv, TitlesInv, ListsInv, OthersInv, TargetInv, TaskInv
       DEF ReadStatement
  <2>4. CASE Act(c)
    BY <1>1, <2>4, ActInv
  <2>5. CASE AnswerTool(c) \/ ToolFails(c)
    BY <1>1, <2>5, Ends DEF AnswerTool, ToolFails
  <2>. QED BY <2>1, <2>2, <2>3, <2>4, <2>5
<1>3. CASE OtherUsers
  BY <1>1, <1>3, OtherUsersInv
<1>4. CASE UNCHANGED toolsVars
  BY <1>1, <1>4 DEF toolsVars, ToolsInv, ToolsTypeOK
<1>. QED BY <1>1, <1>2, <1>3, <1>4 DEF ToolsNext

\* The calls and the rows have their types, and what a call of a tool knows when it acts is
\* what the helpers it ran (assertCanRead, assertProjectTitle, ...) returned before.
THEOREM ToolsInvariant == ToolsSpec => []ToolsInv
<1>. QED BY ToolsStart, ToolsStep, PTL DEF ToolsSpec

----------------------------------------------------------------------------
(* What it says of a call that has acted. *)

\* It showed its scopes, and everything required of it returned.
LEMMA AfterTheAct ==
    ASSUME ToolsInv, NEW c \in Doing
    PROVE  /\ c \in ToolCall /\ toolCall[c].input.tool \in Request
           /\ toolCall[c].input \in Inputs(toolCall[c].input.tool)
           /\ Asserted(toolCall[c].input) \subseteq toolCall[c].token
           /\ Attends(toolCall[c], seen[c])
           /\ \A s \in Required(toolCall[c].input.tool) : Learnt(toolCall[c].input, seen[c], s)
           /\ toolCall[c].input.tool = "projects_reorder" =>
                 \E v \in seen[c] : Complete(toolCall[c].input, v)
BY CallTyped DEF Doing, CallInv, Asks

\* No tool reads or changes anything for a token without the scope of that tool, in a batch
\* of requests neither, where the guard sees no tool: the handlers assert it themselves.
THEOREM ScopesAlwaysHold == ToolsSpec => []ScopesHold
<1>1. ASSUME ToolsInv PROVE ScopesHold
  <2>1. SUFFICES ASSUME NEW c \in Doing
                 PROVE  /\ RequestScope(InputOf(c).tool, TRUE) \subseteq toolCall[c].token
                        /\ InputOf(c).tool \in {"projects_create", "project_members_update"}
                             /\ InputOf(c).users # {} => "members" \in toolCall[c].token
    BY DEF ScopesHold
  <2>2. /\ Asserted(InputOf(c)) \subseteq toolCall[c].token /\ InputOf(c).tool \in Request
    BY <1>1, AfterTheAct DEF InputOf
  <2>3. RequestScope(InputOf(c).tool, TRUE) \subseteq toolCall[c].token
    BY <2>2, AllAssert DEF Asserted
  <2>4. CASE InputOf(c).tool = "project_members_update"
    <3>1. Handler("project_members_update").asserts = "members"
      <4>1. "project_members_update" \in DOMAIN WriteTools
        BY ToolNames
      <4>. QED BY <4>1, WriteHandler DEF WriteTools, project_members_update
    <3>. QED BY <2>2, <2>3, <2>4, <3>1 DEF Asserted
  <2>5. CASE InputOf(c).tool = "projects_create"
    BY <2>2, <2>3, <2>5 DEF Asserted
  <2>. QED BY <2>3, <2>4, <2>5
<1>. QED BY <1>1, ToolsInvariant, PTL

\* Everything a write tool names by an id and a title bore that title while it ran, and an
\* order it stored was complete while it ran (assertNamedOrder, projects.reorder).
THEOREM EveryChangeWasConfirmed == ToolsSpec => []ChangesWereConfirmed
<1>1. ASSUME ToolsInv PROVE ChangesWereConfirmed
  <2>1. SUFFICES ASSUME NEW c \in Doing, InputOf(c).tool \in DOMAIN WriteTools
                 PROVE  /\ \A n \in ({InputOf(c).on, InputOf(c).into} \ {Nothing})
                              \cup InputOf(c).users \cup InputOf(c).refs \cup InputOf(c).listed :
                               Titled(n, seen[c])
                        /\ Listable(InputOf(c).tool) # {} =>
                               \E w \in seen[c] : Complete(InputOf(c), w)
    BY DEF ChangesWereConfirmed, SomeTime, Titled, CompleteIn, Complete
  <2>. DEFINE i == toolCall[c].input  t == i.tool
  <2>2. /\ InputOf(c) = i /\ t \in Request /\ i \in Inputs(t)
        /\ \A s \in Required(t) : Learnt(i, seen[c], s)
        /\ t = "projects_reorder" => \E v \in seen[c] : Complete(i, v)
    BY <1>1, AfterTheAct DEF InputOf
  <2>3. i.tool = t /\ i.on \in About(t)
        /\ (t # "tasks_move" => i.into = Nothing)
        /\ (t \notin {"projects_create", "project_members_update", "tasks_update"} => i.users = {})
        /\ (t \notin {"tasks_create", "subtasks_create", "tasks_update"} => i.refs = {})
        /\ (Listable(t) = {} => i.listed = {})
    BY <2>2, InputTyped
  <2>4. t \in UpdateTool \cup DeleteTool \cup {"projects_create", "project_members_update"}
    BY <2>1, <2>2, ToolNames
  <2>. HIDE DEF i, t
  <2>5. t \notin {"projects_create", "projects_reorder"} =>
           Required(t) \cap {"projectTitle", "projectListed", "boardTitle", "columnTitle",
                             "taskTitle", "tagTitle"} # {}
    BY <2>4 DEF UpdateTool, DeleteTool, Required, Requires, Checked
  <2>6. i.on # Nothing => Titled(i.on, seen[c])
    <3>1. t \in {"projects_create", "projects_reorder"} => i.on = Nothing
      BY <2>3 DEF About
    <3>. QED BY <2>2, <2>5, <3>1 DEF Learnt
  <2>7. i.into # Nothing => Titled(i.into, seen[c])
    <3>1. t = "tasks_move" => "targetTitle" \in Required(t)
      BY DEF Required, Requires, Checked
    <3>2. "targetTitle" \in Required(t) => Titled(i.into, seen[c])
      BY <2>2 DEF Learnt
    <3>. QED BY <2>3, <3>1, <3>2
  <2>8. \A n \in i.users : Titled(n, seen[c])
    <3>1. t \in {"projects_create", "project_members_update", "tasks_update"}
            => "userNames" \in Required(t)
      BY DEF Required, Requires, Checked
    <3>2. "userNames" \in Required(t) => \A n \in i.users : Titled(n, seen[c])
      BY <2>2 DEF Learnt
    <3>. QED BY <2>3, <3>1, <3>2
  <2>9. \A n \in i.refs : Titled(n, seen[c])
    <3>1. t \in {"tasks_create", "subtasks_create", "tasks_update"} => "tagLabels" \in Required(t)
      BY DEF Required, Requires, Checked
    <3>2. "tagLabels" \in Required(t) => \A n \in i.refs : Titled(n, seen[c])
      BY <2>2 DEF Learnt
    <3>. QED BY <2>3, <3>1, <3>2
  <2>10. Listable(t) # {} => t \in {"projects_reorder", "boards_reorder", "columns_reorder"}
    BY DEF Listable
  <2>11. /\ t = "projects_reorder" => "projectOrder" \in Required(t)
         /\ t = "boards_reorder" => "boardOrder" \in Required(t)
         /\ t = "columns_reorder" => "columnOrder" \in Required(t)
    BY DEF Required, Requires, Checked
  <2>12. /\ "projectOrder" \in Required(t) => \A n \in i.listed : Titled(n, seen[c])
         /\ Required(t) \cap {"boardOrder", "columnOrder"} # {} =>
               (\A n \in i.listed : Titled(n, seen[c])) /\ \E w \in seen[c] : Complete(i, w)
    BY <2>2 DEF Learnt
  <2>. QED BY <2>2, <2>3, <2>6, <2>7, <2>8, <2>9, <2>10, <2>11, <2>12
<1>. QED BY <1>1, ToolsInvariant, PTL

\* A tag is changed only by the creator of its project, and a task gets tags only of a project
\* it was in while the call ran.
THEOREM TagsKeepTheirProject == ToolsSpec => []TagsStayInTheirProject
<1>1. ASSUME ToolsInv PROVE TagsStayInTheirProject
  <2>1. SUFFICES ASSUME NEW c \in Doing
                 PROVE  /\ InputOf(c).on \in Tag => Parent[InputOf(c).on] \in Owned
                        /\ InputOf(c).on \in Task => \A g \in InputOf(c).refs :
                               Parent[g] \in Met(InputOf(c), seen[c])
    BY DEF TagsStayInTheirProject, SomeTime, Met
  <2>. DEFINE i == toolCall[c].input  t == i.tool
  <2>2. /\ InputOf(c) = i /\ t \in Request /\ i \in Inputs(t)
        /\ \A s \in Required(t) : Learnt(i, seen[c], s)
    BY <1>1, AfterTheAct DEF InputOf
  <2>3. i.on \in About(t)
        /\ (t \notin {"tasks_create", "subtasks_create", "tasks_update"} => i.refs = {})
    BY <2>2, InputTyped
  <2>. HIDE DEF i, t
  <2>4. ASSUME i.on \in Tag PROVE Parent[i.on] \in Owned
    <3>1. About(t) = Tag
      <4>1. About(t) \in {{Nothing}, ProjectRow, Tag, Board, Column, Task}
        BY DEF About
      <4>. QED BY <2>3, <2>4, <4>1, Tables DEF AnyRow
    <3>2. ProjectRow # Tag /\ Board # Tag /\ Column # Tag /\ Task # Tag /\ {Nothing} # Tag
      BY <2>4, Tables DEF AnyRow
    <3>3. t \in {"project_tags_update", "project_tags_delete"}
      BY <3>1, <3>2 DEF About
    <3>4. {"tagTitle", "manage"} \subseteq Required(t)
      BY <3>3 DEF Required, Requires, Checked
    <3>5. Learnt(i, seen[c], "tagTitle") /\ Learnt(i, seen[c], "manage")
      BY <2>2, <3>4
    <3>. QED BY <3>5 DEF Learnt
  <2>5. ASSUME i.on \in Task, NEW g \in i.refs PROVE Parent[g] \in Met(i, seen[c])
    <3>1. "tagLabels" \in Required(t)
      BY <2>3, <2>5 DEF Required, Requires, Checked
    <3>2. Learnt(i, seen[c], "tagLabels")
      BY <2>2, <3>1
    <3>. QED BY <2>5, <3>2 DEF Learnt
  <2>. QED BY <2>2, <2>4, <2>5
<1>. QED BY <1>1, ToolsInvariant, PTL

\* The project of what a tool reads or changes was live, and the caller's own or one it was a
\* member of, while the call ran (projectAccess.assertCanRead in every helper).
THEOREM EveryTouchedWasReadable == ToolsSpec => []TouchedWasReadable
<1>1. ASSUME ToolsInv PROVE TouchedWasReadable
  <2>1. SUFFICES ASSUME NEW c \in Doing, Nothing \notin Places(c)
                 PROVE  \E p \in Places(c) : /\ \E w \in seen[c] : w.state[p] = "live"
                                             /\ \E w \in seen[c] : p \in Owned \cup w.member
    BY DEF TouchedWasReadable, SomeTime
  <2>. DEFINE i == toolCall[c].input  t == i.tool
  <2>2. /\ InputOf(c) = i /\ t \in Request /\ i \in Inputs(t) /\ Attends(toolCall[c], seen[c])
        /\ \A s \in Required(t) : Learnt(i, seen[c], s)
    BY <1>1, AfterTheAct DEF InputOf
  <2>3. i.on \in About(t) /\ (i.on = Nothing => ProjectOf(i) = Nothing)
    BY <2>2, InputTyped, InputRow
  <2>4. Places(c) = Spots(i, seen[c])
    BY <2>2 DEF Places, Spots, Met, Attends
  <2>. HIDE DEF i, t
  <2>5. t \notin Global
    <3>1. t \in Global => i.on = Nothing /\ Nothing \notin Task
      BY <2>2, Tables, InputTyped DEF Global, About, AnyRow, t
    <3>. QED BY <2>1, <2>2, <2>3, <2>4, <3>1, InputRow DEF Spots
  <2>6. "membership" \in Required(t)
    BY <2>5 DEF Required, Requires, Checked
  <2>7. Learnt(i, seen[c], "membership")
    BY <2>2, <2>6
  <2>. QED BY <2>4, <2>7 DEF Learnt
<1>. QED BY <1>1, ToolsInvariant, PTL
===============================================================================
