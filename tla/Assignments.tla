---------------------------- MODULE Assignments ----------------------------
(***************************************************************************)
(* Who is assigned to what while users are blocked and admitted again and  *)
(* projects change their members: ProjectAccessService.getActiveMemberIds  *)
(* with its FOR SHARE lock, the task transactions that rely on it, and     *)
(* UsersService.saveUserAvailability with its callers.                     *)
(*                                                                         *)
(* A request is served by a process p of Proc, one READ COMMITTED          *)
(* transaction each.  FOR SHARE on project_members JOIN users locks both   *)
(* rows of every user it returns; an UPDATE of a user or a DELETE of a     *)
(* membership waits for the holders, and makes later ones wait until it    *)
(* commits.  Waiting for a row is a disabled guard.                        *)
(*                                                                         *)
(* Controllers and responsible users are checked by the same call as       *)
(* assignees and not told apart from them; a task stands for the hierarchy *)
(* that is relocated with it.                                              *)
(***************************************************************************)
EXTENDS Integers, FiniteSets

CONSTANTS
    Proc,        \* processes that serve requests and events
    User,        \* users rows
    Admin,       \* users with the administrator's role
    TaskId,      \* ids the tasks table can hand out
    Project,     \* projects rows
    Row,         \* ids that tell rows for the same membership apart
    Owner,       \* projects.created_by_id
    Requests,    \* the kinds of request the clients and the ERP issue
    MaxRequests, \* bound: how many requests are issued
    None         \* NULL

Kind == {"create", "assign", "relocate", "members", "event", "sync", "archive", "login"}

ASSUME AssignmentsAssumption ==
    /\ Admin \subseteq User
    /\ Owner \in [Project -> User]
    /\ Requests \subseteq Kind
    /\ MaxRequests \in Nat
    /\ None \notin TaskId \cup Project

VARIABLES
    banned,    \* users whose ban is set
    members,   \* the project_members rows; nothing keeps a pair unique
    home,      \* the project of a task, None for an id not handed out
    assigned,  \* the task_assignees rows
    txn,       \* the transaction of each process
    started    \* requests issued so far

vars == <<banned, members, home, assigned, txn, started>>
store == <<banned, members, home, assigned>>

Step == {"idle", "check", "write", "availability", "drop", "insert"}

Txn == [kind : Kind \cup {"idle"}, step : Step, task : TaskId \cup {None},
        project : Project \cup {None}, users : SUBSET User, shared : SUBSET User,
        rows : SUBSET (Project \X User \X Row), locked : SUBSET User,
        ban : BOOLEAN, target : BOOLEAN]

\* A transaction at a step, concerned with task t, project pr and the users S.
\* shared: users rows held FOR SHARE; rows: memberships held FOR SHARE, or
\* deleted by a change of members; locked: users rows updated; ban, target: the
\* value of users.ban read, and the one to store.
At(kind, step, t, pr, S) ==
    [kind |-> kind, step |-> step, task |-> t, project |-> pr, users |-> S,
     shared |-> {}, rows |-> {}, locked |-> {}, ban |-> FALSE, target |-> FALSE]

Idle == At("idle", "idle", None, None, {})

\* The memberships of the users S in project pr.
Memberships(pr, S) == {m \in members : m[1] = pr /\ m[2] \in S}

Active(pr, u) == Memberships(pr, {u}) # {} /\ u \notin banned

Assignees(t) == {u \in User : <<t, u>> \in assigned}

Begin(p, kind) ==
    /\ kind \in Requests
    /\ txn[p] = Idle
    /\ started < MaxRequests
    /\ started' = started + 1

End(p) == txn' = [txn EXCEPT ![p] = Idle] /\ UNCHANGED started

Rollback(p) == txn[p] # Idle /\ End(p) /\ UNCHANGED store

----------------------------------------------------------------------------
(* Row locks of the running transactions. *)

TaskLocked(t) == \E p \in Proc : txn[p].task = t

\* An UPDATE of the user's row has not committed yet.
UserLocked(u) == \E p \in Proc : u \in txn[p].locked

UserShared(u) == \E p \in Proc : u \in txn[p].shared

\* A DELETE of the membership has not committed yet.
RowDeleted(m) == \E p \in Proc : txn[p].kind = "members" /\ m \in txn[p].rows

RowHeld(m) == \E p \in Proc : m \in txn[p].rows

----------------------------------------------------------------------------
(* Task transactions. *)

\* create, createSubtask: the project is looked up, the assignees come with the
\* request.
StartCreate(p, pr, S) ==
    /\ Begin(p, "create")
    /\ txn' = [txn EXCEPT ![p] = At("create", "check", None, pr, S)]
    /\ UNCHANGED store

\* update with assigneeIds: the task's row is locked first.
StartAssign(p, t, S) ==
    /\ Begin(p, "assign")
    /\ home[t] # None
    /\ ~TaskLocked(t)
    /\ txn' = [txn EXCEPT ![p] = At("assign", "check", t, home[t], S)]
    /\ UNCHANGED store

\* Mutant of StartRelocate: the hierarchy is read without FOR UPDATE.
RelocateUnlocked(p, t, pr) ==
    /\ Begin(p, "relocate")
    /\ home[t] \notin {None, pr}
    /\ txn' = [txn EXCEPT ![p] = At("relocate", "check", t, pr, Assignees(t))]
    /\ UNCHANGED store

\* move to another project: the rows are locked, then their assignees are read.
StartRelocate(p, t, pr) ==
    /\ Begin(p, "relocate")
    /\ home[t] \notin {None, pr}
    /\ ~TaskLocked(t)
    /\ txn' = [txn EXCEPT ![p] = At("relocate", "check", t, pr, Assignees(t))]
    /\ UNCHANGED store

\* assertAssigneesBelongToProject: every user is an active member, and stays one
\* until the transaction ends.  Rejection is Rollback.
CheckMembers(p) ==
    /\ txn[p].step = "check"
    /\ \A u \in txn[p].users : Active(txn[p].project, u) /\ ~UserLocked(u)
    /\ \A m \in Memberships(txn[p].project, txn[p].users) : ~RowDeleted(m)
    /\ txn' = [txn EXCEPT ![p] = [@ EXCEPT !.step = "write", !.shared = txn[p].users,
                                !.rows = Memberships(txn[p].project, txn[p].users)]]
    /\ UNCHANGED <<store, started>>

CommitCreate(p) ==
    /\ txn[p].kind = "create" /\ txn[p].step = "write"
    /\ \E t \in TaskId :
          /\ home[t] = None
          /\ home' = [home EXCEPT ![t] = txn[p].project]
          /\ assigned' = assigned \cup ({t} \X txn[p].users)
    /\ End(p)
    /\ UNCHANGED <<banned, members>>

\* update destroys the task's assignments and inserts the requested ones.
CommitAssign(p) ==
    /\ txn[p].kind = "assign" /\ txn[p].step = "write"
    /\ assigned' = {a \in assigned : a[1] # txn[p].task} \cup ({txn[p].task} \X txn[p].users)
    /\ End(p)
    /\ UNCHANGED <<banned, members, home>>

CommitRelocate(p) ==
    /\ txn[p].kind = "relocate" /\ txn[p].step = "write"
    /\ home' = [home EXCEPT ![txn[p].task] = txn[p].project]
    /\ End(p)
    /\ UNCHANGED <<banned, members, assigned>>

----------------------------------------------------------------------------
(* ProjectsService.update with membersIds. *)

\* The rows are read, those of users outside the desired set S are deleted.
StartMembers(p, pr, S) ==
    LET desired == S \cup {Owner[pr]}
        removed == Memberships(pr, User \ desired)
    IN  /\ Begin(p, "members")
        /\ \A m \in removed : ~RowHeld(m)
        /\ txn' = [txn EXCEPT ![p] =
              [At("members", "insert", None, pr, {u \in desired : Memberships(pr, {u}) = {}})
                  EXCEPT !.rows = removed]]
        /\ UNCHANGED store

\* The rows found missing are inserted, beside whatever was inserted meanwhile.
CommitMembers(p) ==
    /\ txn[p].step = "insert"
    /\ \E row \in [txn[p].users -> Row] :
          LET new == {<<txn[p].project, u, row[u]>> : u \in txn[p].users}
          IN  /\ new \cap members = {}
              /\ members' = (members \ txn[p].rows) \cup new
    /\ End(p)
    /\ UNCHANGED <<banned, home, assigned>>

----------------------------------------------------------------------------
(* users.ban. *)

\* A transaction that read the user's ban and is to store target.
ForUser(kind, step, u, target) ==
    [At(kind, step, None, None, {u}) EXCEPT !.ban = u \in banned, !.target = target]

\* handleBan, handleDelete, handleChange and the directory script read the user
\* without a lock; the value to store comes with the event, or is the one read.
ReadForEvent(p, u, target) ==
    /\ Begin(p, "event")
    /\ txn' = [txn EXCEPT ![p] = ForUser("event", "availability", u, target)]
    /\ UNCHANGED store

\* synchronizeUser reads the user FOR UPDATE.  An event that changes nothing is
\* left out.
LockForSync(p, u, target) ==
    /\ Begin(p, "sync")
    /\ ~UserShared(u) /\ ~UserLocked(u)
    /\ txn' = [txn EXCEPT ![p] = [ForUser("sync", "drop", u, target) EXCEPT !.locked = {u}]]
    /\ UNCHANGED store

\* userToArchive: the value is the opposite of the one read, and the last active
\* administrator is not blocked.
ReadForArchive(p, u) ==
    /\ Begin(p, "archive")
    /\ u \in Admin \ banned => \E v \in Admin \ banned : v # u
    /\ txn' = [txn EXCEPT ![p] = ForUser("archive", "availability", u, u \notin banned)]
    /\ UNCHANGED store

\* syncBoardUser and upsertBoardUser: an identity the authority confirms is
\* stored as not blocked.
ReadForLogin(p, u) ==
    /\ Begin(p, "login")
    /\ u \in banned
    /\ txn' = [txn EXCEPT ![p] = ForUser("login", "availability", u, FALSE)]
    /\ UNCHANGED store

\* user.save: the UPDATE locks the row.
UpdateUser(p) ==
    /\ txn[p].step = "availability"
    /\ \A u \in txn[p].users : ~UserShared(u) /\ ~UserLocked(u)
    /\ txn' = [txn EXCEPT ![p] = [@ EXCEPT !.step = "drop", !.locked = txn[p].users]]
    /\ UNCHANGED <<store, started>>

\* user.save leaves the UPDATE out when the instance that was read already has
\* every value.
SkipUpdate(p) ==
    /\ txn[p].step = "availability"
    /\ txn[p].target = txn[p].ban
    /\ txn' = [txn EXCEPT ![p] = [@ EXCEPT !.step = "drop"]]
    /\ UNCHANGED <<store, started>>

\* The UPDATE names ban only when it differs from the value read.
SetBan(p) ==
    banned' = IF txn[p].target = txn[p].ban THEN banned
              ELSE IF txn[p].target THEN banned \cup txn[p].users
              ELSE banned \ txn[p].users

\* Mutant of CommitAvailability: only users.ban is changed.
CommitBanOnly(p) ==
    /\ txn[p].step = "drop"
    /\ SetBan(p)
    /\ End(p)
    /\ UNCHANGED <<members, home, assigned>>

\* saveUserAvailability: a blocked user loses every assignment in the same
\* transaction.
CommitAvailability(p) ==
    /\ txn[p].step = "drop"
    /\ SetBan(p)
    /\ assigned' = IF txn[p].target THEN {a \in assigned : a[2] \notin txn[p].users} ELSE assigned
    /\ End(p)
    /\ UNCHANGED <<members, home>>

----------------------------------------------------------------------------

\* Stored tasks have no assignees yet; everybody is a member of every project.
Init ==
    /\ banned = {}
    /\ \E row \in Row : members = Project \X User \X {row}
    /\ home \in [TaskId -> Project \cup {None}]
    /\ assigned = {}
    /\ txn = [p \in Proc |-> Idle]
    /\ started = 0

NewRequest(p) ==
    \/ \E pr \in Project, S \in SUBSET User : StartCreate(p, pr, S) \/ StartMembers(p, pr, S)
    \/ \E t \in TaskId, S \in SUBSET User : StartAssign(p, t, S)
    \/ \E t \in TaskId, pr \in Project : StartRelocate(p, t, pr)
    \/ \E u \in User : \/ \E target \in BOOLEAN : ReadForEvent(p, u, target) \/ LockForSync(p, u, target)
                       \/ ReadForArchive(p, u)
                       \/ ReadForLogin(p, u)

TaskStep(p) == CheckMembers(p) \/ CommitCreate(p) \/ CommitAssign(p) \/ CommitRelocate(p)
UserStep(p) == CommitMembers(p) \/ UpdateUser(p) \/ SkipUpdate(p) \/ CommitAvailability(p)

Next == \E p \in Proc : NewRequest(p) \/ TaskStep(p) \/ UserStep(p) \/ Rollback(p)

Spec == Init /\ [][Next]_vars
----------------------------------------------------------------------------
(* Properties. *)

TypeOK ==
    /\ banned \subseteq User
    /\ members \subseteq Project \X User \X Row
    /\ home \in [TaskId -> Project \cup {None}]
    /\ assigned \subseteq TaskId \X User
    /\ txn \in [Proc -> Txn]
    /\ started \in 0 .. MaxRequests

\* A transaction past its check holds FOR SHARE on the rows of active members
\* only, nobody updates or deletes those rows meanwhile, and the assignees of a
\* relocated task are among them.
ShareHolds(p) ==
    /\ txn[p].shared = IF txn[p].step = "write" THEN txn[p].users ELSE {}
    /\ \A u \in txn[p].shared : /\ u \notin banned
                                /\ ~UserLocked(u)
                                /\ \E m \in txn[p].rows : m[1] = txn[p].project /\ m[2] = u
    /\ txn[p].kind # "members" => \A m \in txn[p].rows : m \in members /\ ~RowDeleted(m)
    /\ txn[p].kind = "relocate" => Assignees(txn[p].task) \subseteq txn[p].users

SharesHold == \A p \in Proc : ShareHolds(p)

\* The kind of a transaction fits its step.
Fits(p) ==
    /\ txn[p].kind = "idle" <=> txn[p].step = "idle"
    /\ txn[p].kind \in {"create", "assign", "relocate"} <=> txn[p].step \in {"check", "write"}
    /\ txn[p].kind = "members" <=> txn[p].step = "insert"
    /\ txn[p].kind \in {"create", "assign", "relocate", "members"} => txn[p].project \in Project
    /\ IF txn[p].kind \in {"assign", "relocate"}
       THEN txn[p].task \in TaskId /\ home[txn[p].task] # None
       ELSE txn[p].task = None
    /\ txn[p].kind = "assign" => txn[p].project = home[txn[p].task]
    /\ txn[p].step \notin {"write", "insert"} => txn[p].rows = {}
    /\ txn[p].locked # {} => txn[p].step = "drop" /\ txn[p].locked = txn[p].users
    /\ txn[p].step = "drop" /\ txn[p].target # txn[p].ban => txn[p].locked = txn[p].users

\* One transaction at a time works on a stored task.
TransactionsFit ==
    /\ \A p \in Proc : Fits(p)
    /\ \A p, q \in Proc : txn[p].task # None /\ txn[q].task = txn[p].task => p = q

\* "Назначения остаются после блокировки" (doc/ERROR_PREVENTION.md), the failure
\* the FOR SHARE lock was added against: a blocked user is assigned to no task,
\* however blocking, admitting and assigning interleave.
BannedUnassigned == \A a \in assigned : a[2] \notin banned

\* "Исполнителями могут быть только активные участники проекта"
\* (assertAssigneesBelongToProject): at the moment an assignment is stored, or
\* enters another project, its user is an active member of the task's project.
AssignsActiveMembers ==
    \A a \in assigned' :
        a \notin assigned \/ home'[a[1]] # home[a[1]]
            => Active(home'[a[1]], a[2])

\* Every step assigns active members only.
OnlyActiveMembers == [][AssignsActiveMembers]_vars

\* An id without a task has no assignees.
AssignedIsStored == \A a \in assigned : home[a[1]] # None

\* What makes the two above inductive.
AssignmentsInv == TypeOK /\ TransactionsFit /\ SharesHold /\ BannedUnassigned /\ AssignedIsStored
=============================================================================
