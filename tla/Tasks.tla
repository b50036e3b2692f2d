------------------------------- MODULE Tasks -------------------------------
(***************************************************************************)
(* The task transactions of src/modules/tasks/tasks.service.ts and the     *)
(* archive transactions of src/modules/boards/boards.service.ts, running   *)
(* concurrently against PostgreSQL at READ COMMITTED.                      *)
(*                                                                         *)
(* A request is served by a process p of Proc.  A statement that reads     *)
(* without a lock leaves what it read in txn[p]; SELECT ... FOR UPDATE     *)
(* takes the row's lock until the end of the transaction; the writes of a  *)
(* transaction become visible together, with its COMMIT, which is the      *)
(* action that ends it.  Waiting for a row lock is a disabled guard.  Any  *)
(* error after the first statement (a failed check, a deadlock victim, a   *)
(* lost connection) is Rollback.                                           *)
(*                                                                         *)
(* Column order, assignees, tags, custom attributes, permissions and       *)
(* activity events are data this module does not tell apart.               *)
(***************************************************************************)
EXTENDS Integers, FiniteSets

CONSTANTS
    Proc,         \* processes that serve requests, one transaction each
    TaskId,       \* ids the tasks table can hand out
    Column,       \* board_columns rows; a column never changes its board
    Board,        \* boards rows; a board never changes its project
    Project,      \* projects rows
    BoardOf,      \* the board of a column
    ProjectOf,    \* the project of a board
    Legacy,       \* tasks stored before projects.task_counter was maintained
    LegacyNumber, \* task numbers those tasks may carry
    Requests,     \* the kinds of request the clients issue
    MaxRequests,  \* bound: how many requests are issued
    MaxNumber,    \* bound: the largest task number
    None          \* NULL

Kind == {"create", "subtask", "attach", "detach", "move", "delete", "restore",
         "archiveBoard", "restoreBoard"}

ASSUME TasksAssumption ==
    /\ IsFiniteSet(TaskId)
    /\ BoardOf \in [Column -> Board]
    /\ ProjectOf \in [Board -> Project]
    /\ Legacy \subseteq TaskId
    /\ LegacyNumber \subseteq 1 .. MaxNumber
    /\ Requests \subseteq Kind
    /\ MaxRequests \in Nat
    /\ MaxNumber \in Nat
    /\ None \notin Proc \cup TaskId \cup Column

VARIABLES
    task,         \* the committed tasks table
    archived,     \* boards whose deleted_at is set
    counter,      \* projects.task_counter
    rowLock,      \* the process that holds FOR UPDATE on a tasks row
    projectLock,  \* the process that holds FOR UPDATE on a projects row
    txn,          \* the transaction of each process
    started       \* requests issued so far

vars == <<task, archived, counter, rowLock, projectLock, txn, started>>
store == <<task, archived, counter>>

Status == {"absent", "active", "archived"}

Task == [status : Status, parent : TaskId \cup {None},
         column : Column \cup {None}, number : 0 .. MaxNumber]

Absent == [status |-> "absent", parent |-> None, column |-> None, number |-> 0]

Step == {"idle", "number", "parent", "tree", "write"}

Txn == [kind : (Kind \ {"archiveBoard", "restoreBoard"}) \cup {"idle"}, step : Step,
        task : TaskId \cup {None}, parent : TaskId \cup {None},
        column : Column \cup {None}, tree : SUBSET TaskId, frontier : SUBSET TaskId,
        first : 0 .. MaxNumber]

\* A transaction at its next step: its task t, the parent q and column c it has
\* read or was given, and the rows collected for it.
At(kind, step, t, q, c, rows) ==
    [kind |-> kind, step |-> step, task |-> t, parent |-> q, column |-> c,
     tree |-> rows, frontier |-> rows, first |-> 0]

Idle == At("idle", "idle", None, None, None, {})

----------------------------------------------------------------------------
(* What a query sees in the committed tables. *)

Exists(t) == task[t].status # "absent"
Active(t) == task[t].status = "active"

ProjectAt(c) == ProjectOf[BoardOf[c]]
BoardOfTask(t) == BoardOf[task[t].column]
ProjectOfTask(t) == ProjectAt(task[t].column)

ActiveChildren(S) == {t \in TaskId : Active(t) /\ task[t].parent \in S}
AllChildren(S) == {t \in TaskId : Exists(t) /\ task[t].parent \in S}

\* SELECT MAX(task_number): archived tasks are counted too.
NumbersIn(pr) == {task[t].number : t \in {u \in TaskId : Exists(u) /\ ProjectOfTask(u) = pr}}

IsMaximum(m, S) == m \in S /\ \A n \in S : n <= m

----------------------------------------------------------------------------
(* Transactions. *)

Begin(p, kind) ==
    /\ kind \in Requests
    /\ txn[p] = Idle
    /\ started < MaxRequests
    /\ started' = started + 1

\* COMMIT or ROLLBACK: every lock of p is released.
End(p) ==
    /\ txn' = [txn EXCEPT ![p] = Idle]
    /\ rowLock' = [t \in TaskId |-> IF rowLock[t] = p THEN None ELSE rowLock[t]]
    /\ projectLock' = [pr \in Project |-> IF projectLock[pr] = p THEN None ELSE projectLock[pr]]
    /\ UNCHANGED started

FreeFor(p, S) == \A t \in S : rowLock[t] \in {None, p}

\* Mutant of LockRows: the lock ends with the statement, not with the transaction.
LockRowsForStatement(p, S) == FreeFor(p, S) /\ UNCHANGED rowLock

LockRows(p, S) ==
    /\ FreeFor(p, S)
    /\ rowLock' = [t \in TaskId |-> IF t \in S THEN p ELSE rowLock[t]]

Rollback(p) ==
    /\ txn[p] # Idle
    /\ End(p)
    /\ UNCHANGED store

----------------------------------------------------------------------------
(* create and createSubtask. *)

\* create: the column's board is looked up without a lock.
ReadColumn(p, c) ==
    /\ Begin(p, "create")
    /\ BoardOf[c] \notin archived
    /\ txn' = [txn EXCEPT ![p] = At("create", "number", None, None, c, {})]
    /\ UNCHANGED <<store, rowLock, projectLock>>

\* createSubtask: the parent row is read without a lock; its column and its
\* project are remembered.  The parent may itself be a subtask.
ReadParent(p, t) ==
    /\ Begin(p, "subtask")
    /\ Active(t)
    /\ BoardOfTask(t) \notin archived
    /\ txn' = [txn EXCEPT ![p] = At("subtask", "number", None, t, task[t].column, {})]
    /\ UNCHANGED <<store, rowLock, projectLock>>

\* Mutant of VisibleNumbers: only projects.task_counter is consulted.
CounterOnly(p, pr) == {}

\* The numbers the transaction's own statements see in the target project.  A
\* move has already saved its root in the target column, under its old number.
VisibleNumbers(p, pr) ==
    NumbersIn(pr) \cup (IF txn[p].kind = "move" THEN {task[txn[p].task].number} ELSE {})

NumbersNeeded(p) == IF txn[p].kind = "move" THEN Cardinality(txn[p].tree) ELSE 1

\* Mutant of AllocateNumbers: the project row is read without FOR UPDATE.
AllocateWithoutLock(p) ==
    LET pr == ProjectAt(txn[p].column)
    IN  /\ txn[p].step = "number"
        /\ \E m \in 0 .. MaxNumber :
              /\ IsMaximum(m, {counter[pr]} \cup VisibleNumbers(p, pr))
              /\ m + NumbersNeeded(p) <= MaxNumber
              /\ txn' = [txn EXCEPT ![p].step = "write", ![p].first = m + 1]
        /\ UNCHANGED <<store, rowLock, projectLock, started>>

\* allocateTaskNumbers: lock the project, read the maximum, reserve a range.
AllocateNumbers(p) ==
    LET pr == ProjectAt(txn[p].column)
    IN  /\ txn[p].step = "number"
        /\ projectLock[pr] = None
        /\ projectLock' = [projectLock EXCEPT ![pr] = p]
        /\ \E m \in 0 .. MaxNumber :
              /\ IsMaximum(m, {counter[pr]} \cup VisibleNumbers(p, pr))
              /\ m + NumbersNeeded(p) <= MaxNumber
              /\ txn' = [txn EXCEPT ![p].step = "write", ![p].first = m + 1]
        /\ UNCHANGED <<store, rowLock, started>>

\* INSERT and COMMIT.  The foreign key check waits for a FOR UPDATE holder of
\* the parent row, and finds an archived parent as good as an active one.
InsertTask(p) ==
    LET pr == ProjectAt(txn[p].column)
    IN  /\ txn[p].kind \in {"create", "subtask"}
        /\ txn[p].step = "write"
        /\ txn[p].parent # None => rowLock[txn[p].parent] = None
        /\ \E t \in TaskId :
              /\ ~Exists(t)
              /\ task' = [task EXCEPT ![t] = [status |-> "active", parent |-> txn[p].parent,
                                              column |-> txn[p].column, number |-> txn[p].first]]
        /\ counter' = [counter EXCEPT ![pr] = txn[p].first]
        /\ End(p)
        /\ UNCHANGED archived

----------------------------------------------------------------------------
(* update with a new parentTaskId. *)

\* The row is locked; a task with active children keeps its parent.
LockForParentChange(p, kind, t, q) ==
    /\ Begin(p, kind)
    /\ Active(t)
    /\ BoardOfTask(t) \notin archived
    /\ ActiveChildren({t}) = {}
    /\ rowLock[t] = None
    /\ LockRows(p, {t})
    /\ txn' = [txn EXCEPT ![p] = At(kind, "parent", t, q, None, {})]
    /\ UNCHANGED <<store, projectLock>>

StartAttach(p, t, q) ==
    /\ q \notin {t, task[t].parent}
    /\ LockForParentChange(p, "attach", t, q)

StartDetach(p, t) ==
    /\ task[t].parent # None
    /\ LockForParentChange(p, "detach", t, task[t].parent)

\* Mutant of LockParent: the parent is read without FOR UPDATE.
ReadParentOnly(p) ==
    LET t == txn[p].task
        q == txn[p].parent
    IN  /\ txn[p].step = "parent"
        /\ Active(q)
        /\ txn[p].kind = "attach" => task[q].parent = None /\ BoardOfTask(q) = BoardOfTask(t)
        /\ txn' = [txn EXCEPT ![p].step = "write",
                              ![p].column = IF txn[p].kind = "detach" THEN task[q].column
                                                                      ELSE None]
        /\ UNCHANGED <<store, rowLock, projectLock, started>>

\* prepareParentTaskChange locks the new parent (attach) or the current one
\* (detach).  The new parent must be a root of the same board; a detached task
\* goes to the column of the parent it leaves.
LockParent(p) ==
    LET t == txn[p].task
        q == txn[p].parent
    IN  /\ txn[p].step = "parent"
        /\ Active(q)
        /\ rowLock[q] = None
        /\ LockRows(p, {q})
        /\ txn[p].kind = "attach" => /\ task[q].parent = None
                                     /\ BoardOfTask(q) = BoardOfTask(t)
        /\ txn' = [txn EXCEPT ![p].step = "write",
                              ![p].column = IF txn[p].kind = "detach" THEN task[q].column
                                                                      ELSE None]
        /\ UNCHANGED <<store, projectLock, started>>

CommitAttach(p) ==
    /\ txn[p].kind = "attach"
    /\ txn[p].step = "write"
    /\ task' = [task EXCEPT ![txn[p].task].parent = txn[p].parent]
    /\ End(p)
    /\ UNCHANGED <<archived, counter>>

CommitDetach(p) ==
    /\ txn[p].kind = "detach"
    /\ txn[p].step = "write"
    /\ task' = [task EXCEPT ![txn[p].task].parent = None,
                            ![txn[p].task].column = txn[p].column]
    /\ End(p)
    /\ UNCHANGED <<archived, counter>>

----------------------------------------------------------------------------
(* getTaskHierarchy, shared by move, delete and restore. *)

Children(p, S) == IF txn[p].kind = "restore" THEN AllChildren(S) ELSE ActiveChildren(S)

IsCrossProject(p) == ProjectAt(txn[p].column) # ProjectOfTask(txn[p].task)

AfterTree(p) ==
    IF txn[p].kind = "move" /\ IsCrossProject(p) THEN "number" ELSE "write"

\* Mutant of GrowTree: the levels below the root are read without FOR UPDATE.
ReadTreeOnly(p) ==
    LET level == Children(p, txn[p].frontier)
    IN  /\ txn[p].step = "tree"
        /\ txn' = [txn EXCEPT ![p].tree = @ \cup level,
                              ![p].frontier = level,
                              ![p].step = IF level = {} THEN AfterTree(p) ELSE "tree"]
        /\ UNCHANGED <<store, rowLock, projectLock, started>>

\* One level: the children of the level above are read and locked together.
GrowTree(p) ==
    LET level == Children(p, txn[p].frontier)
    IN  /\ txn[p].step = "tree"
        /\ LockRows(p, level)
        /\ txn' = [txn EXCEPT ![p].tree = @ \cup level,
                              ![p].frontier = level,
                              ![p].step = IF level = {} THEN AfterTree(p) ELSE "tree"]
        /\ UNCHANGED <<store, projectLock, started>>

----------------------------------------------------------------------------
(* move. *)

\* The row is locked, both boards are looked up; a subtask stays on its board.
\* Only a root that changes its board takes its hierarchy along.  A move inside
\* one column changes nothing but the order.
StartMove(p, t, c) ==
    /\ Begin(p, "move")
    /\ Active(t)
    /\ c # task[t].column
    /\ {BoardOfTask(t), BoardOf[c]} \cap archived = {}
    /\ task[t].parent # None => BoardOf[c] = BoardOfTask(t)
    /\ rowLock[t] = None
    /\ LockRows(p, {t})
    /\ LET step == IF BoardOf[c] = BoardOfTask(t) THEN "write" ELSE "tree"
       IN  txn' = [txn EXCEPT ![p] = At("move", step, t, None, c, {t})]
    /\ UNCHANGED <<store, projectLock>>

\* The order in which a relocated hierarchy takes its numbers is the root, then
\* its descendants in some order.
Numberings(p) ==
    LET first == txn[p].first
        tree == txn[p].tree
    IN  {f \in [tree -> first .. first + Cardinality(tree) - 1] :
            /\ f[txn[p].task] = first
            /\ \A t, u \in tree : t # u => f[t] # f[u]}

CommitMove(p) ==
    /\ txn[p].kind = "move"
    /\ txn[p].step = "write"
    /\ IF IsCrossProject(p)
       THEN /\ \E f \in Numberings(p) :
                  task' = [t \in TaskId |->
                             IF t \in txn[p].tree
                             THEN [task[t] EXCEPT !.column = txn[p].column, !.number = f[t]]
                             ELSE task[t]]
            /\ counter' = [counter EXCEPT ![ProjectAt(txn[p].column)] =
                              txn[p].first + Cardinality(txn[p].tree) - 1]
       ELSE /\ task' = [t \in TaskId |-> IF t \in txn[p].tree
                                         THEN [task[t] EXCEPT !.column = txn[p].column]
                                         ELSE task[t]]
            /\ UNCHANGED counter
    /\ End(p)
    /\ UNCHANGED archived

----------------------------------------------------------------------------
(* delete and restore of a task. *)

\* delete reads the task without a lock.
StartDelete(p, t) ==
    /\ Begin(p, "delete")
    /\ Active(t)
    /\ BoardOfTask(t) \notin archived
    /\ txn' = [txn EXCEPT ![p] = At("delete", "tree", t, None, None, {t})]
    /\ UNCHANGED <<store, rowLock, projectLock>>

SetStatus(S, status) ==
    task' = [t \in TaskId |-> IF t \in S THEN [task[t] EXCEPT !.status = status] ELSE task[t]]

\* UPDATE ... SET deleted_at waits for the rows other transactions hold.
CommitDelete(p) ==
    /\ txn[p].kind = "delete"
    /\ txn[p].step = "write"
    /\ FreeFor(p, txn[p].tree)
    /\ SetStatus(txn[p].tree, "archived")
    /\ End(p)
    /\ UNCHANGED <<archived, counter>>

\* restore locks the archived row; its parent is read without a lock.
StartRestore(p, t) ==
    /\ Begin(p, "restore")
    /\ task[t].status = "archived"
    /\ BoardOfTask(t) \notin archived
    /\ task[t].parent # None => Active(task[t].parent)
    /\ rowLock[t] = None
    /\ LockRows(p, {t})
    /\ txn' = [txn EXCEPT ![p] = At("restore", "tree", t, None, None, {t})]
    /\ UNCHANGED <<store, projectLock>>

CommitRestore(p) ==
    /\ txn[p].kind = "restore"
    /\ txn[p].step = "write"
    /\ SetStatus(txn[p].tree, "active")
    /\ End(p)
    /\ UNCHANGED <<archived, counter>>

----------------------------------------------------------------------------
(* BoardsService.delete and restore.  Their only shared reads are of rows    *)
(* the UPDATE itself locks, so each is one step: the UPDATE of the tasks     *)
(* waits for row locks, and the board changes with it.                       *)

TasksOn(b) == {t \in TaskId : Exists(t) /\ BoardOfTask(t) = b}

ChangeBoard(p, b, kind, from, to) ==
    LET rows == {t \in TasksOn(b) : task[t].status = from}
    IN  /\ Begin(p, kind)
        /\ \A t \in rows : rowLock[t] = None
        /\ SetStatus(rows, to)
        /\ UNCHANGED <<counter, rowLock, projectLock, txn>>

ArchiveBoard(p, b) ==
    /\ b \notin archived
    /\ ChangeBoard(p, b, "archiveBoard", "active", "archived")
    /\ archived' = archived \cup {b}

RestoreBoard(p, b) ==
    /\ b \in archived
    /\ ChangeBoard(p, b, "restoreBoard", "archived", "active")
    /\ archived' = archived \ {b}

----------------------------------------------------------------------------

\* Legacy rows are roots numbered within their project; the counters lag behind.
Init ==
    /\ \E place \in [Legacy -> Column], number \in [Legacy -> LegacyNumber] :
          /\ \A t, u \in Legacy :
                t # u /\ ProjectAt(place[t]) = ProjectAt(place[u]) => number[t] # number[u]
          /\ task = [t \in TaskId |->
                       IF t \in Legacy
                       THEN [status |-> "active", parent |-> None,
                             column |-> place[t], number |-> number[t]]
                       ELSE Absent]
    /\ archived = {}
    /\ counter = [pr \in Project |-> 0]
    /\ rowLock = [t \in TaskId |-> None]
    /\ projectLock = [pr \in Project |-> None]
    /\ txn = [p \in Proc |-> Idle]
    /\ started = 0

CreateStep(p) == AllocateNumbers(p) \/ InsertTask(p)
ParentStep(p) == LockParent(p) \/ CommitAttach(p) \/ CommitDetach(p)
TreeStep(p) == GrowTree(p) \/ CommitMove(p) \/ CommitDelete(p) \/ CommitRestore(p)

NewRequest(p) ==
    \/ \E c \in Column : ReadColumn(p, c)
    \/ \E t \in TaskId : ReadParent(p, t) \/ StartDetach(p, t)
                         \/ StartDelete(p, t) \/ StartRestore(p, t)
    \/ \E t, q \in TaskId : StartAttach(p, t, q)
    \/ \E t \in TaskId, c \in Column : StartMove(p, t, c)
    \/ \E b \in Board : ArchiveBoard(p, b) \/ RestoreBoard(p, b)

Next ==
    \E p \in Proc : NewRequest(p) \/ CreateStep(p) \/ ParentStep(p) \/ TreeStep(p)
                    \/ Rollback(p)

Spec == Init /\ [][Next]_vars
----------------------------------------------------------------------------
(* Properties. *)

\* Every row, lock and transaction is of its type.
TypeOK ==
    /\ task \in [TaskId -> Task]
    /\ archived \subseteq Board
    /\ counter \in [Project -> 0 .. MaxNumber]
    /\ rowLock \in [TaskId -> Proc \cup {None}]
    /\ projectLock \in [Project -> Proc \cup {None}]
    /\ txn \in [Proc -> Txn]
    /\ started \in 0 .. MaxRequests
    /\ \A t \in TaskId : Exists(t) => task[t].column \in Column

\* No task is its own ancestor, whatever parent changes, subtask creations and
\* restores run side by side: every set of tasks has one whose parent is outside
\* it.  findRootTaskId and getTaskHierarchy walk these edges.
ParentsAcyclic ==
    \A S \in SUBSET TaskId : S # {} => \E t \in S : task[t].parent \notin S

\* "Номер задачи в рамках проекта" (task.model.ts): no two tasks stored in one
\* project, archived ones included, carry the same number.
UniqueNumbers ==
    \A t, u \in TaskId :
        t # u /\ Exists(t) /\ Exists(u) /\ ProjectOfTask(t) = ProjectOfTask(u)
            => task[t].number # task[u].number

\* allocateTaskNumbers hands a number out once: a number a task receives lies
\* above the project's counter before the step and is covered by it after, and
\* no step takes a counter back, so a number freed by a relocation is not reused.
GivesFreshNumbers ==
    /\ \A pr \in Project : counter'[pr] >= counter[pr]
    /\ \A t \in TaskId :
          task'[t].number # task[t].number
             => LET pr == ProjectAt(task'[t].column)
                IN  counter[pr] < task'[t].number /\ task'[t].number <= counter'[pr]

\* Every step gives fresh numbers only.
NumbersGivenOnce == [][GivesFreshNumbers]_vars

\* A stored task changes its column, parent or number only in the commit of a
\* transaction that holds the row FOR UPDATE, so no placement is overwritten by
\* a transaction that decided on an older one.
PlacesLockedRows ==
    \A t \in TaskId :
       Exists(t) /\ <<task'[t].column, task'[t].parent, task'[t].number>>
                       # <<task[t].column, task[t].parent, task[t].number>>
          => rowLock[t] # None /\ txn'[rowLock[t]] = Idle

\* Every step places locked rows only.
PlacementUnderLock == [][PlacesLockedRows]_vars

\* "между досками переносится иерархия" (move): when a task changes its board,
\* every active subtask it has at that moment arrives there in the same step.
MoveTakesActiveSubtasks ==
    [][\A t, u \in TaskId :
          Active(t) /\ Active(u) /\ task[u].parent = t
             => \/ BoardOf[task'[t].column] = BoardOfTask(t)
                \/ task'[u].column = task'[t].column]_vars

\* An active subtask and its active parent are on one board, as
\* prepareParentTaskChange demands when it makes them parent and child.
OneBoardHierarchy ==
    \A t \in TaskId :
        Active(t) /\ task[t].parent # None /\ Active(task[t].parent)
            => BoardOfTask(t) = BoardOfTask(task[t].parent)

\* "Дочерние задачи тоже остаются в архиве, а не теряются из-за скрытого
\* родителя" (delete): no active subtask hangs under an archived parent.
NoOrphanSubtask ==
    \A t \in TaskId : Active(t) /\ task[t].parent # None => Active(task[t].parent)
=============================================================================
