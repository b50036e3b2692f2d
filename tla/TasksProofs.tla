---------------------------- MODULE TasksProofs ----------------------------
(***************************************************************************)
(* Theorems about Tasks for every number of processes, tasks, columns,     *)
(* boards and projects, and every set of requests.                         *)
(***************************************************************************)
EXTENDS TasksInductive, FiniteSetTheorems, TLAPS

\* What a step of p leaves to the other processes: their transactions, the rows
\* and projects they have locked, and the placement of every row p has not.
Frame(p) ==
    /\ \A q \in Proc \ {p} : txn'[q] = txn[q]
    /\ \A t \in TaskId : Exists(t) => task'[t].status # "absent"
    /\ \A t \in TaskId : rowLock[t] \notin {None, p} => rowLock'[t] = rowLock[t]
    /\ \A t \in TaskId : Exists(t) /\ rowLock[t] \notin {None, p} => task'[t] = task[t]
    /\ \A t \in TaskId : Exists(t) /\ rowLock[t] # p =>
          /\ task'[t].column = task[t].column
          /\ task'[t].parent = task[t].parent
          /\ task'[t].number = task[t].number
    /\ \A pr \in Project : projectLock[pr] \notin {None, p} =>
          projectLock'[pr] = projectLock[pr] /\ counter'[pr] = counter[pr]

----------------------------------------------------------------------------

LEMMA CountTree ==
    ASSUME NEW S \in SUBSET TaskId, NEW t \in S
    PROVE  Cardinality(S) \in Nat /\ Cardinality(S) >= 1
<1>1. IsFiniteSet(S)
  BY FS_Subset, TasksAssumption
<1> QED
  BY <1>1, FS_CardinalityType, FS_EmptySet

\* A process that did not move keeps its part of the invariant.
LEMMA OthersKeep ==
    ASSUME TasksInv, NEW p \in Proc, NEW q \in Proc \ {p}, Frame(p)
    PROVE  RunningInv(q)'
<1>1. txn'[q] = txn[q] /\ txn[q] \in Txn
  BY DEF Frame, TasksInv, TypeOK
<1>2. RunningInv(q)
  BY DEF TasksInv, TransactionInv
<1>3. \A t \in TaskId : rowLock[t] = q => rowLock'[t] = q /\ (Exists(t) => task'[t] = task[t])
  BY TasksAssumption DEF Frame
<1>4. \A t \in TaskId : Exists(t) => Exists(t)'
  BY DEF Frame, Exists
<1>5. CreateInv(q)'
  BY <1>1, <1>2, <1>4 DEF RunningInv, CreateInv, Txn
<1>6. ParentInv(q)'
  BY <1>1, <1>2, <1>3, <1>4 DEF RunningInv, ParentInv, Txn
<1>7. TreeInv(q)'
  BY <1>1, <1>2, <1>3, <1>4 DEF RunningInv, TreeInv, Txn
<1>8. NumberInv(q)'
  <2>1. txn[q].step = "write" /\ Numbers(q)' => Numbers(q)
    BY <1>1, <1>2, <1>3 DEF Numbers, IsCrossProject, ProjectOfTask, RunningInv, TreeInv, Txn
  <2>2. txn[q].step = "write" /\ Numbers(q) => ProjectAt(txn[q].column) \in Project
    BY <1>1, <1>2, TasksAssumption DEF Numbers, RunningInv, CreateInv, TreeInv, Txn, ProjectAt
  <2>3. \A pr \in Project : projectLock[pr] = q => projectLock'[pr] = q /\ counter'[pr] = counter[pr]
    BY TasksAssumption DEF Frame
  <2>4. LastNumber(q)' = LastNumber(q)
    BY <1>1 DEF LastNumber, NumbersNeeded
  <2> QED
    BY <1>1, <1>2, <2>1, <2>2, <2>3, <2>4 DEF RunningInv, NumberInv
<1> QED
  BY <1>1, <1>2, <1>5, <1>6, <1>7, <1>8 DEF RunningInv

----------------------------------------------------------------------------
(* Each step of p keeps the types, the foreign keys and p's own part. *)

Keeps(p) == TypeOK' /\ ParentsStored' /\ RunningInv(p)' /\ Frame(p)

\* Steps that only begin a transaction or take locks leave the tables alone.
LEMMA StoreUnchanged ==
    ASSUME TasksInv, NEW p \in Proc, UNCHANGED store, txn' \in [Proc -> Txn],
           \A q \in Proc \ {p} : txn'[q] = txn[q],
           rowLock' \in [TaskId -> Proc \cup {None}],
           projectLock' \in [Project -> Proc \cup {None}],
           started' \in 0 .. MaxRequests,
           \A t \in TaskId : rowLock[t] \notin {None, p} => rowLock'[t] = rowLock[t],
           \A pr \in Project : projectLock[pr] \notin {None, p} => projectLock'[pr] = projectLock[pr]
    PROVE  TypeOK' /\ ParentsStored' /\ Frame(p)
<1>1. TypeOK'
  BY DEF TasksInv, TypeOK, store, Exists
<1>2. ParentsStored'
  BY DEF TasksInv, ParentsStored, store, Exists
<1>3. Frame(p)
  BY DEF Frame, store, Exists
<1> QED
  BY <1>1, <1>2, <1>3

LEMMA EndKeeps ==
    ASSUME TasksInv, NEW p \in Proc, End(p)
    PROVE  /\ txn' \in [Proc -> Txn]
           /\ \A q \in Proc \ {p} : txn'[q] = txn[q]
           /\ rowLock' \in [TaskId -> Proc \cup {None}]
           /\ projectLock' \in [Project -> Proc \cup {None}]
           /\ started' \in 0 .. MaxRequests
           /\ \A t \in TaskId : rowLock[t] \notin {None, p} => rowLock'[t] = rowLock[t]
           /\ \A pr \in Project : projectLock[pr] \notin {None, p} => projectLock'[pr] = projectLock[pr]
           /\ RunningInv(p)'
<1>1. Idle \in Txn
  BY TasksAssumption DEF Idle, At, Txn, Step
<1>2. txn' \in [Proc -> Txn] /\ txn'[p] = Idle /\ \A q \in Proc \ {p} : txn'[q] = txn[q]
  BY <1>1 DEF End, TasksInv, TypeOK
<1>3. RunningInv(p)'
  BY <1>2 DEF RunningInv, CreateInv, ParentInv, TreeInv, NumberInv, Numbers, Idle, At
<1> QED
  BY <1>2, <1>3 DEF End, TasksInv, TypeOK

LEMMA RollbackKeeps == ASSUME TasksInv, NEW p \in Proc, Rollback(p) PROVE Keeps(p)
BY EndKeeps, StoreUnchanged DEF Rollback, Keeps

LEMMA ReadColumnKeeps ==
    ASSUME TasksInv, NEW p \in Proc, NEW c \in Column, ReadColumn(p, c) PROVE Keeps(p)
<1> DEFINE new == At("create", "number", None, None, c, {})
<1>1. new \in Txn
  BY TasksAssumption DEF At, Txn, Step, Kind
<1>2. txn' = [txn EXCEPT ![p] = new] /\ UNCHANGED <<store, rowLock, projectLock>>
  BY DEF ReadColumn
<1>3. txn' \in [Proc -> Txn] /\ txn'[p] = new /\ \A q \in Proc \ {p} : txn'[q] = txn[q]
  BY <1>1, <1>2 DEF TasksInv, TypeOK
<1>4. started' \in 0 .. MaxRequests
  BY TasksAssumption DEF ReadColumn, Begin, TasksInv, TypeOK
<1>5. TypeOK' /\ ParentsStored' /\ Frame(p)
  BY <1>2, <1>3, <1>4, StoreUnchanged DEF TasksInv, TypeOK
<1>6. RunningInv(p)'
  BY <1>3 DEF RunningInv, CreateInv, ParentInv, TreeInv, NumberInv, At
<1> QED
  BY <1>5, <1>6 DEF Keeps

\* A step that only replaces p's transaction and locks rows for it.
LEMMA LockingKeeps ==
    ASSUME TasksInv, NEW p \in Proc, NEW new \in Txn, txn' = [txn EXCEPT ![p] = new],
           UNCHANGED store, started' \in 0 .. MaxRequests,
           \/ UNCHANGED rowLock
           \/ \E S \in SUBSET TaskId : LockRows(p, S),
           \/ UNCHANGED projectLock
           \/ \E pr \in Project : projectLock[pr] = None /\ projectLock' = [projectLock EXCEPT ![pr] = p]
    PROVE  /\ TypeOK' /\ ParentsStored' /\ Frame(p)
           /\ txn'[p] = new
           /\ \A t \in TaskId : rowLock[t] = p => rowLock'[t] = p
<1>1. txn' \in [Proc -> Txn] /\ txn'[p] = new /\ \A q \in Proc \ {p} : txn'[q] = txn[q]
  BY DEF TasksInv, TypeOK
<1>2. /\ rowLock' \in [TaskId -> Proc \cup {None}]
      /\ \A t \in TaskId : rowLock[t] \notin {None, p} => rowLock'[t] = rowLock[t]
      /\ \A t \in TaskId : rowLock[t] = p => rowLock'[t] = p
  BY DEF LockRows, FreeFor, TasksInv, TypeOK
<1>3. /\ projectLock' \in [Project -> Proc \cup {None}]
      /\ \A pr \in Project : projectLock[pr] \notin {None, p} => projectLock'[pr] = projectLock[pr]
  BY TasksAssumption DEF TasksInv, TypeOK
<1> QED
  BY <1>1, <1>2, <1>3, StoreUnchanged

LEMMA BeginType ==
    ASSUME TasksInv, NEW p, NEW kind, Begin(p, kind)
    PROVE  started' \in 0 .. MaxRequests
BY TasksAssumption DEF Begin, TasksInv, TypeOK

LEMMA ReadParentKeeps ==
    ASSUME TasksInv, NEW p \in Proc, NEW t \in TaskId, ReadParent(p, t) PROVE Keeps(p)
<1> DEFINE new == At("subtask", "number", None, t, task[t].column, {})
<1>1. new \in Txn /\ Exists(t) /\ task[t].column \in Column
  BY TasksAssumption DEF ReadParent, Active, Exists, TasksInv, TypeOK, At, Txn, Step, Kind
<1>2. TypeOK' /\ ParentsStored' /\ Frame(p) /\ txn'[p] = new
  BY <1>1, LockingKeeps, BeginType DEF ReadParent
<1>3. RunningInv(p)'
  BY <1>1, <1>2 DEF RunningInv, CreateInv, ParentInv, TreeInv, NumberInv, At, Frame, Exists
<1> QED
  BY <1>2, <1>3 DEF Keeps

LEMMA StartParentKeeps ==
    ASSUME TasksInv, NEW p \in Proc, NEW t \in TaskId, NEW q \in TaskId,
           NEW kind \in {"attach", "detach"}, LockForParentChange(p, kind, t, q),
           kind = "attach" => q # t
    PROVE  Keeps(p)
<1> DEFINE new == At(kind, "parent", t, q, None, {})
<1>1. new \in Txn /\ Exists(t)
  BY TasksAssumption DEF LockForParentChange, Active, Exists, At, Txn, Step, Kind
<1>2. LockRows(p, {t}) /\ rowLock'[t] = p
  BY DEF LockForParentChange, LockRows
<1>3. TypeOK' /\ ParentsStored' /\ Frame(p) /\ txn'[p] = new
  <2>1. started' \in 0 .. MaxRequests
    BY BeginType DEF LockForParentChange
  <2>2. txn' = [txn EXCEPT ![p] = new] /\ UNCHANGED store /\ UNCHANGED projectLock
    BY DEF LockForParentChange
  <2>3. \E S \in SUBSET TaskId : LockRows(p, S)
    BY <1>2
  <2> QED
    BY <1>1, <2>1, <2>2, <2>3, LockingKeeps
<1>4. RunningInv(p)'
  BY <1>1, <1>2, <1>3 DEF RunningInv, CreateInv, ParentInv, TreeInv, NumberInv, Numbers, At, Frame, Exists
<1> QED
  BY <1>3, <1>4 DEF Keeps

LEMMA StartAttachKeeps ==
    ASSUME TasksInv, NEW p \in Proc, NEW t \in TaskId, NEW q \in TaskId, StartAttach(p, t, q)
    PROVE  Keeps(p)
BY StartParentKeeps DEF StartAttach

LEMMA StartDetachKeeps ==
    ASSUME TasksInv, NEW p \in Proc, NEW t \in TaskId, StartDetach(p, t) PROVE Keeps(p)
<1>1. task[t].parent \in TaskId
  BY DEF StartDetach, TasksInv, TypeOK, Task
<1> QED
  BY <1>1, StartParentKeeps DEF StartDetach

\* move, delete and restore begin with a tree of one task.
LEMMA StartTreeKeeps ==
    ASSUME TasksInv, NEW p \in Proc, NEW t \in TaskId, NEW kind \in {"move", "delete", "restore"},
           NEW step \in {"tree", "write"}, NEW c \in Column \cup {None}, Exists(t),
           Begin(p, kind), UNCHANGED <<store, projectLock>>,
           txn' = [txn EXCEPT ![p] = At(kind, step, t, None, c, {t})],
           \/ kind = "delete" /\ UNCHANGED rowLock
           \/ rowLock[t] = None /\ LockRows(p, {t}),
           kind = "move" => c \in Column /\ (step = "write" => ProjectAt(c) = ProjectOfTask(t))
    PROVE  Keeps(p)
<1> DEFINE new == At(kind, step, t, None, c, {t})
<1>1. new \in Txn
  BY TasksAssumption DEF At, Txn, Step, Kind
<1>2. kind # "delete" => rowLock'[t] = p
  BY DEF LockRows
<1>3. TypeOK' /\ ParentsStored' /\ Frame(p) /\ txn'[p] = new
  BY <1>1, LockingKeeps, BeginType
<1>4. Exists(t)' /\ task' = task
  BY <1>3 DEF Frame, Exists, store
<1>5. ~(Numbers(p)' /\ txn'[p].step = "write")
  BY <1>3, <1>4 DEF Numbers, IsCrossProject, ProjectOfTask, At
<1>6. RunningInv(p)'
  BY <1>2, <1>3, <1>4, <1>5 DEF RunningInv, CreateInv, ParentInv, TreeInv, NumberInv, At
<1> QED
  BY <1>3, <1>6 DEF Keeps

LEMMA StartMoveKeeps ==
    ASSUME TasksInv, NEW p \in Proc, NEW t \in TaskId, NEW c \in Column, StartMove(p, t, c)
    PROVE  Keeps(p)
BY StartTreeKeeps DEF StartMove, Active, Exists, ProjectAt, ProjectOfTask, BoardOfTask

LEMMA StartDeleteKeeps ==
    ASSUME TasksInv, NEW p \in Proc, NEW t \in TaskId, StartDelete(p, t) PROVE Keeps(p)
BY StartTreeKeeps DEF StartDelete, Active, Exists

LEMMA StartRestoreKeeps ==
    ASSUME TasksInv, NEW p \in Proc, NEW t \in TaskId, StartRestore(p, t) PROVE Keeps(p)
BY StartTreeKeeps DEF StartRestore, Exists

LEMMA AllocateKeeps ==
    ASSUME TasksInv, NEW p \in Proc, AllocateNumbers(p) PROVE Keeps(p)
<1> DEFINE pr == ProjectAt(txn[p].column)
<1>1. RunningInv(p) /\ txn[p] \in Txn /\ txn[p].step = "number"
  BY DEF TasksInv, TransactionInv, TypeOK, AllocateNumbers
<1>2. txn[p].kind \in {"create", "subtask", "move"} /\ txn[p].column \in Column
  BY <1>1 DEF RunningInv, CreateInv, ParentInv, TreeInv, Txn, Kind
<1>3. pr \in Project /\ counter[pr] \in 0 .. MaxNumber
  BY <1>2, TasksAssumption DEF ProjectAt, TasksInv, TypeOK
<1>4. NumbersNeeded(p) \in Nat /\ NumbersNeeded(p) >= 1 /\ NumbersNeeded(p)' = NumbersNeeded(p)
  <2>1. txn'[p].kind = txn[p].kind /\ txn'[p].tree = txn[p].tree
    BY <1>1 DEF AllocateNumbers, TasksInv, TypeOK, Txn
  <2>2. CASE txn[p].kind = "move"
    <3>1. txn[p].tree \in SUBSET TaskId /\ txn[p].task \in txn[p].tree
      BY <1>1, <2>2 DEF RunningInv, TreeInv, Txn
    <3> QED
      BY <2>1, <2>2, <3>1, CountTree DEF NumbersNeeded
  <2>3. CASE txn[p].kind # "move"
    BY <2>1, <2>3 DEF NumbersNeeded
  <2> QED
    BY <2>2, <2>3
<1>5. PICK m \in 0 .. MaxNumber :
          /\ IsMaximum(m, {counter[pr]} \cup VisibleNumbers(p, pr))
          /\ m + NumbersNeeded(p) <= MaxNumber
          /\ txn' = [txn EXCEPT ![p].step = "write", ![p].first = m + 1]
  BY DEF AllocateNumbers
<1> DEFINE new == [txn[p] EXCEPT !.step = "write", !.first = m + 1]
<1>6. new \in Txn /\ txn' = [txn EXCEPT ![p] = new]
  <2>1. m + 1 \in 0 .. MaxNumber
    BY <1>4, <1>5, TasksAssumption
  <2>2. new \in Txn
    BY <1>1, <2>1 DEF Txn, Step
  <2> QED
    BY <1>5, <2>2
<1>7. TypeOK' /\ ParentsStored' /\ Frame(p) /\ txn'[p] = new /\ (\A t \in TaskId : rowLock[t] = p => rowLock'[t] = p)
  <2>1. projectLock[pr] = None /\ projectLock' = [projectLock EXCEPT ![pr] = p]
    BY DEF AllocateNumbers
  <2>2. UNCHANGED store /\ UNCHANGED rowLock /\ UNCHANGED started
    BY DEF AllocateNumbers
  <2> HIDE DEF pr, new
  <2> QED
    BY <1>3, <1>6, <2>1, <2>2, LockingKeeps DEF TasksInv, TypeOK
<1>8. counter[pr] <= m /\ projectLock'[pr] = p /\ counter' = counter /\ task' = task
  BY <1>3, <1>5 DEF IsMaximum, AllocateNumbers, store, TasksInv, TypeOK
<1>9. NumberInv(p)'
  <2>1. txn'[p].column = txn[p].column /\ txn'[p].first = m + 1
    BY <1>1, <1>7 DEF Txn
  <2>2. ProjectAt(txn[p].column)' = pr
    BY <2>1 DEF ProjectAt
  <2>3. LastNumber(p)' = m + NumbersNeeded(p)
    BY <1>4, <2>1 DEF LastNumber
  <2> QED
    BY <1>3, <1>5, <1>8, <2>1, <2>2, <2>3 DEF NumberInv, ProjectAt
<1>10. RunningInv(p)'
  BY <1>1, <1>2, <1>7, <1>8, <1>9 DEF RunningInv, CreateInv, ParentInv, TreeInv, Exists, Txn
<1> QED
  BY <1>7, <1>10 DEF Keeps

LEMMA LockParentKeeps ==
    ASSUME TasksInv, NEW p \in Proc, LockParent(p) PROVE Keeps(p)
<1> DEFINE t == txn[p].task
           q == txn[p].parent
           c == IF txn[p].kind = "detach" THEN task[q].column ELSE None
           new == [txn[p] EXCEPT !.step = "write", !.column = c]
<1>1. RunningInv(p) /\ txn[p] \in Txn /\ txn[p].step = "parent"
  BY DEF TasksInv, TransactionInv, TypeOK, LockParent
<1>2. txn[p].kind \in {"attach", "detach"}
  BY <1>1 DEF RunningInv, CreateInv, TreeInv, Txn, Kind
<1>3. t \in TaskId /\ q \in TaskId /\ Exists(q) /\ task[q].column \in Column
  BY <1>1, <1>2 DEF RunningInv, ParentInv, LockParent, Active, Exists, TasksInv, TypeOK
<1>4. new \in Txn /\ txn' = [txn EXCEPT ![p] = new]
  BY <1>1, <1>3 DEF LockParent, Txn, Step, TasksInv, TypeOK
<1>5. LockRows(p, {q}) /\ rowLock'[q] = p
  BY <1>3 DEF LockParent, LockRows
<1>6. TypeOK' /\ ParentsStored' /\ Frame(p) /\ txn'[p] = new /\ (\A u \in TaskId : rowLock[u] = p => rowLock'[u] = p)
  <2>1. UNCHANGED store /\ UNCHANGED projectLock /\ UNCHANGED started
    BY DEF LockParent
  <2>2. \E S \in SUBSET TaskId : LockRows(p, S)
    BY <1>3, <1>5
  <2> HIDE DEF new
  <2> QED
    BY <1>4, <2>1, <2>2, LockingKeeps DEF TasksInv, TypeOK
<1>7. task' = task /\ (txn[p].kind = "attach" => task[q].parent = None)
  BY DEF LockParent, store
<1>8. RunningInv(p)'
  BY <1>1, <1>2, <1>3, <1>5, <1>6, <1>7
  DEF RunningInv, CreateInv, ParentInv, TreeInv, NumberInv, Numbers, Exists, Txn
<1> QED
  BY <1>6, <1>8 DEF Keeps

LEMMA GrowTreeKeeps ==
    ASSUME TasksInv, NEW p \in Proc, GrowTree(p) PROVE Keeps(p)
<1> DEFINE level == Children(p, txn[p].frontier)
           step == IF level = {} THEN AfterTree(p) ELSE "tree"
           new == [txn[p] EXCEPT !.tree = @ \cup level, !.frontier = level, !.step = step]
<1>1. RunningInv(p) /\ txn[p] \in Txn /\ txn[p].step = "tree"
  BY DEF TasksInv, TransactionInv, TypeOK, GrowTree
<1>2. txn[p].kind \in {"move", "delete", "restore"}
  BY <1>1 DEF RunningInv, CreateInv, ParentInv, Txn, Kind
<1>3. level \in SUBSET TaskId /\ \A t \in level : Exists(t)
  BY DEF Children, AllChildren, ActiveChildren, Exists, Active
<1>4. /\ step \in {"tree", "number", "write"}
      /\ step = "number" => txn[p].kind = "move"
      /\ step = "write" => ~Numbers(p)
  BY <1>1, <1>2 DEF AfterTree, Numbers
<1> HIDE DEF level, step
<1>5. new \in Txn /\ txn' = [txn EXCEPT ![p] = new]
  BY <1>1, <1>3, <1>4 DEF GrowTree, Txn, Step, TasksInv, TypeOK, level, step
<1>6. LockRows(p, level) /\ \A t \in level : rowLock'[t] = p
  BY <1>3 DEF GrowTree, LockRows, level
<1>7. TypeOK' /\ ParentsStored' /\ Frame(p) /\ txn'[p] = new /\ (\A u \in TaskId : rowLock[u] = p => rowLock'[u] = p)
  <2>1. UNCHANGED store /\ UNCHANGED projectLock /\ UNCHANGED started
    BY DEF GrowTree
  <2> HIDE DEF new
  <2> QED
    BY <1>3, <1>5, <1>6, <2>1, LockingKeeps DEF TasksInv, TypeOK
<1>8. task' = task
  BY DEF GrowTree, store
<1>9. Numbers(p)' <=> Numbers(p)
  BY <1>1, <1>7, <1>8 DEF Numbers, IsCrossProject, ProjectOfTask, Txn
<1>10. RunningInv(p)'
  BY <1>1, <1>2, <1>3, <1>4, <1>6, <1>7, <1>8, <1>9
  DEF RunningInv, CreateInv, ParentInv, TreeInv, NumberInv, Exists, Txn
<1> QED
  BY <1>7, <1>10 DEF Keeps

\* A commit: what it owes about the tables, the rest comes from End.
LEMMA CommitKeeps ==
    ASSUME TasksInv, NEW p \in Proc, End(p), archived' \subseteq Board,
           task' \in [TaskId -> Task], counter' \in [Project -> 0 .. MaxNumber],
           \A t \in TaskId : Exists(t)' => task'[t].column \in Column,
           \A t \in TaskId : Exists(t) => Exists(t)',
           \A t \in TaskId : Exists(t) /\ rowLock[t] \notin {None, p} => task'[t] = task[t],
           \A t \in TaskId : Exists(t) /\ rowLock[t] # p =>
              /\ task'[t].column = task[t].column
              /\ task'[t].parent = task[t].parent
              /\ task'[t].number = task[t].number,
           \A t \in TaskId : task'[t].parent \notin {None, task[t].parent} => Exists(task'[t].parent),
           \A pr \in Project : projectLock[pr] # p => counter'[pr] = counter[pr]
    PROVE  Keeps(p)
<1>1. TypeOK'
  BY EndKeeps DEF TypeOK
<1>2. ParentsStored'
  <2> SUFFICES ASSUME NEW t \in TaskId, task'[t].parent # None
               PROVE  task'[task'[t].parent].status # "absent"
    BY DEF ParentsStored, Exists
  <2>1. Exists(task'[t].parent) /\ task'[t].parent \in TaskId
    BY DEF TasksInv, ParentsStored, Task
  <2> QED
    BY <2>1 DEF Exists
<1>3. Frame(p)
  BY EndKeeps DEF Frame, Exists
<1> QED
  BY <1>1, <1>2, <1>3, EndKeeps DEF Keeps

LEMMA InsertTaskKeeps ==
    ASSUME TasksInv, NEW p \in Proc, InsertTask(p) PROVE Keeps(p)
<1> DEFINE pr == ProjectAt(txn[p].column)
<1>1. RunningInv(p) /\ txn[p] \in Txn /\ txn[p].kind \in {"create", "subtask"} /\ txn[p].step = "write"
  BY DEF TasksInv, TransactionInv, TypeOK, InsertTask
<1>2. txn[p].column \in Column /\ (txn[p].parent # None => Exists(txn[p].parent))
  BY <1>1 DEF RunningInv, CreateInv
<1>3. pr \in Project /\ projectLock[pr] = p /\ txn[p].first \in 0 .. MaxNumber
  BY <1>1, <1>2, TasksAssumption DEF RunningInv, NumberInv, Numbers, ProjectAt, Txn
<1>4. PICK t \in TaskId :
          /\ ~Exists(t)
          /\ task' = [task EXCEPT ![t] = [status |-> "active", parent |-> txn[p].parent,
                                          column |-> txn[p].column, number |-> txn[p].first]]
  BY DEF InsertTask
<1>5. task' \in [TaskId -> Task]
  BY <1>1, <1>4 DEF Task, Status, Txn, TasksInv, TypeOK
<1>6. counter' \in [Project -> 0 .. MaxNumber] /\ \A x \in Project : projectLock[x] # p => counter'[x] = counter[x]
  BY <1>3 DEF InsertTask, TasksInv, TypeOK
<1>7. \A u \in TaskId : IF u = t
                        THEN task'[u].column = txn[p].column /\ task'[u].parent = txn[p].parent /\ Exists(u)'
                        ELSE task'[u] = task[u]
  BY <1>4 DEF Exists, TasksInv, TypeOK
<1> QED
  BY <1>2, <1>4, <1>5, <1>6, <1>7, CommitKeeps DEF InsertTask, Exists, TasksInv, TypeOK

LEMMA CommitAttachKeeps ==
    ASSUME TasksInv, NEW p \in Proc, CommitAttach(p) PROVE Keeps(p)
<1> DEFINE t == txn[p].task
           q == txn[p].parent
<1>1. /\ t \in TaskId /\ q \in TaskId
      /\ Exists(t) /\ rowLock[t] = p
      /\ Exists(q)
  BY DEF CommitAttach, TasksInv, TransactionInv, RunningInv, ParentInv
<1> HIDE DEF t, q
<1>2. task' = [task EXCEPT ![t].parent = q] /\ End(p) /\ UNCHANGED <<archived, counter>>
  BY DEF CommitAttach, t, q
<1>3. task' \in [TaskId -> Task]
  BY <1>1, <1>2 DEF TasksInv, TypeOK, Task
<1>4. \A u \in TaskId : /\ u # t => task'[u] = task[u]
                        /\ task'[u].status = task[u].status
                        /\ task'[u].column = task[u].column
                        /\ task'[u].number = task[u].number
                        /\ task'[u].parent \in {task[u].parent, q}
  BY <1>1, <1>2 DEF TasksInv, TypeOK, Task
<1> QED
  BY <1>1, <1>2, <1>3, <1>4, CommitKeeps, TasksAssumption DEF Exists, TasksInv, TypeOK

LEMMA CommitDetachKeeps ==
    ASSUME TasksInv, NEW p \in Proc, CommitDetach(p) PROVE Keeps(p)
<1> DEFINE t == txn[p].task
           c == txn[p].column
<1>1. t \in TaskId /\ c \in Column /\ Exists(t) /\ rowLock[t] = p
  BY DEF CommitDetach, TasksInv, TransactionInv, RunningInv, ParentInv
<1> HIDE DEF t, c
<1>2. /\ task' = [task EXCEPT ![t].parent = None, ![t].column = c]
      /\ End(p) /\ UNCHANGED <<archived, counter>>
  BY DEF CommitDetach, t, c
<1>3. task' \in [TaskId -> Task]
  <2>1. [task[t] EXCEPT !.parent = None, !.column = c] \in Task
    BY <1>1 DEF TasksInv, TypeOK, Task
  <2>2. task' = [task EXCEPT ![t] = [task[t] EXCEPT !.parent = None, !.column = c]]
    BY <1>1, <1>2 DEF TasksInv, TypeOK, Task
  <2> QED
    BY <2>1, <2>2 DEF TasksInv, TypeOK
<1>4. \A u \in TaskId : /\ u # t => task'[u] = task[u]
                        /\ task'[u].status = task[u].status
                        /\ task'[u].column \in {task[u].column, c}
                        /\ task'[u].parent \in {task[u].parent, None}
  BY <1>1, <1>2 DEF TasksInv, TypeOK, Task
<1> QED
  BY <1>1, <1>2, <1>3, <1>4, CommitKeeps, TasksAssumption DEF Exists, TasksInv, TypeOK

LEMMA SetStatusKeeps ==
    ASSUME TasksInv, NEW S \in SUBSET TaskId, NEW status \in {"active", "archived"},
           \A t \in S : Exists(t), SetStatus(S, status)
    PROVE  /\ task' \in [TaskId -> Task]
           /\ \A t \in TaskId : /\ t \notin S => task'[t] = task[t]
                                /\ Exists(t) <=> Exists(t)'
                                /\ task'[t].column = task[t].column
                                /\ task'[t].parent = task[t].parent
                                /\ task'[t].number = task[t].number
<1>1. task' \in [TaskId -> Task]
  BY DEF SetStatus, TasksInv, TypeOK, Task, Status
<1>2. \A t \in TaskId : task'[t] = IF t \in S THEN [task[t] EXCEPT !.status = status] ELSE task[t]
  BY DEF SetStatus
<1>3. \A t \in TaskId : /\ t \notin S => task'[t] = task[t]
                        /\ t \in S => task'[t].status = status
                        /\ task'[t].column = task[t].column
                        /\ task'[t].parent = task[t].parent
                        /\ task'[t].number = task[t].number
  BY <1>2 DEF TasksInv, TypeOK, Task
<1> QED
  BY <1>1, <1>3 DEF Exists

LEMMA CommitDeleteKeeps ==
    ASSUME TasksInv, NEW p \in Proc, CommitDelete(p) PROVE Keeps(p)
<1>1. txn[p].tree \in SUBSET TaskId /\ \A t \in txn[p].tree : Exists(t) /\ rowLock[t] \in {None, p}
  BY DEF CommitDelete, FreeFor, TasksInv, TypeOK, Txn, TransactionInv, RunningInv, TreeInv
<1>2. SetStatus(txn[p].tree, "archived") /\ End(p) /\ UNCHANGED <<archived, counter>>
  BY DEF CommitDelete
<1> QED
  BY <1>1, <1>2, SetStatusKeeps, CommitKeeps DEF Exists, TasksInv, TypeOK

LEMMA CommitRestoreKeeps ==
    ASSUME TasksInv, NEW p \in Proc, CommitRestore(p) PROVE Keeps(p)
<1>1. txn[p].tree \in SUBSET TaskId /\ \A t \in txn[p].tree : Exists(t) /\ rowLock[t] = p
  BY DEF CommitRestore, TasksInv, TypeOK, Txn, TransactionInv, RunningInv, TreeInv
<1>2. SetStatus(txn[p].tree, "active") /\ End(p) /\ UNCHANGED <<archived, counter>>
  BY DEF CommitRestore
<1> QED
  BY <1>1, <1>2, SetStatusKeeps, CommitKeeps DEF Exists, TasksInv, TypeOK

LEMMA CommitMoveKeeps ==
    ASSUME TasksInv, NEW p \in Proc, CommitMove(p) PROVE Keeps(p)
<1> DEFINE tree == txn[p].tree
           c == txn[p].column
           first == txn[p].first
           last == first + Cardinality(tree) - 1
<1>1. /\ tree \in SUBSET TaskId /\ txn[p].task \in tree
      /\ c \in Column
      /\ first \in 0 .. MaxNumber
      /\ \A t \in tree : Exists(t) /\ rowLock[t] = p
  BY DEF CommitMove, TasksInv, TypeOK, Txn, TransactionInv, RunningInv, TreeInv
<1>2. End(p) /\ UNCHANGED archived
  BY DEF CommitMove
<1>3. Cardinality(tree) \in Nat /\ Cardinality(tree) >= 1
  BY <1>1, CountTree
<1>4. CASE IsCrossProject(p)
  <2>1. projectLock[ProjectAt(c)] = p /\ last \in 0 .. MaxNumber /\ ProjectAt(c) \in Project
    <3>1. NumberInv(p) /\ Numbers(p) /\ txn[p].step = "write" /\ txn[p].kind = "move"
      BY <1>4 DEF CommitMove, Numbers, TasksInv, TransactionInv, RunningInv
    <3>2. last <= MaxNumber
      BY <3>1 DEF NumberInv, LastNumber, NumbersNeeded
    <3>3. last \in 0 .. MaxNumber
      BY <1>1, <1>3, <3>2, TasksAssumption
    <3> QED
      BY <1>1, <3>1, <3>3, TasksAssumption DEF NumberInv, ProjectAt
  <2> HIDE DEF last
  <2>2. PICK f \in Numberings(p) :
            task' = [t \in TaskId |-> IF t \in tree
                                      THEN [task[t] EXCEPT !.column = c, !.number = f[t]]
                                      ELSE task[t]]
    BY <1>4 DEF CommitMove
  <2>3. \A t \in tree : f[t] \in 0 .. MaxNumber
    <3>1. f \in [tree -> first .. last]
      BY DEF Numberings, last
    <3> QED
      BY <1>1, <2>1, <3>1, TasksAssumption
  <2>4. counter' = [counter EXCEPT ![ProjectAt(c)] = last]
    BY <1>4 DEF CommitMove, last
  <2> HIDE DEF tree, c, first
  <2>5. task' \in [TaskId -> Task]
    <3>1. \A t \in tree : [task[t] EXCEPT !.column = c, !.number = f[t]] \in Task
      BY <1>1, <2>3 DEF TasksInv, TypeOK, Task
    <3> QED
      BY <2>2, <3>1 DEF TasksInv, TypeOK
  <2>6. \A t \in TaskId : /\ t \notin tree => task'[t] = task[t]
                          /\ task'[t].status = task[t].status
                          /\ task'[t].parent = task[t].parent
                          /\ task'[t].column \in {task[t].column, c}
    BY <1>1, <2>2 DEF TasksInv, TypeOK, Task
  <2>7. counter' \in [Project -> 0 .. MaxNumber] /\ \A pr \in Project : projectLock[pr] # p => counter'[pr] = counter[pr]
    BY <2>1, <2>4 DEF TasksInv, TypeOK
  <2> QED
    BY <1>1, <1>2, <2>5, <2>6, <2>7, CommitKeeps, TasksAssumption DEF Exists, TasksInv, TypeOK
<1>5. CASE ~IsCrossProject(p)
  <2>1. /\ task' = [t \in TaskId |-> IF t \in tree THEN [task[t] EXCEPT !.column = c] ELSE task[t]]
        /\ UNCHANGED counter
    BY <1>5 DEF CommitMove
  <2> HIDE DEF tree, c, first
  <2>2. task' \in [TaskId -> Task]
    BY <1>1, <2>1 DEF TasksInv, TypeOK, Task
  <2>3. \A t \in TaskId : /\ t \notin tree => task'[t] = task[t]
                          /\ task'[t].status = task[t].status
                          /\ task'[t].parent = task[t].parent
                          /\ task'[t].column \in {task[t].column, c}
    BY <1>1, <2>1 DEF TasksInv, TypeOK, Task
  <2> QED
    BY <1>1, <1>2, <2>1, <2>2, <2>3, CommitKeeps, TasksAssumption DEF Exists, TasksInv, TypeOK
<1> QED
  BY <1>4, <1>5

LEMMA ChangeBoardKeeps ==
    ASSUME TasksInv, NEW p \in Proc, NEW b \in Board, NEW kind \in {"archiveBoard", "restoreBoard"},
           NEW from \in {"active", "archived"}, NEW to \in {"active", "archived"},
           ChangeBoard(p, b, kind, from, to), archived' \subseteq Board
    PROVE  Keeps(p)
<1> DEFINE rows == {t \in TasksOn(b) : task[t].status = from}
<1>1. rows \in SUBSET TaskId /\ \A t \in rows : Exists(t) /\ rowLock[t] = None
  BY DEF ChangeBoard, TasksOn
<1>2. SetStatus(rows, to) /\ UNCHANGED <<counter, rowLock, projectLock, txn>> /\ Begin(p, kind)
  BY DEF ChangeBoard
<1> HIDE DEF rows
<1>3. /\ task' \in [TaskId -> Task]
      /\ \A t \in TaskId : /\ t \notin rows => task'[t] = task[t]
                           /\ Exists(t) <=> Exists(t)'
                           /\ task'[t].column = task[t].column
                           /\ task'[t].parent = task[t].parent
                           /\ task'[t].number = task[t].number
  BY <1>1, <1>2, SetStatusKeeps
<1>4. started' \in 0 .. MaxRequests
  BY <1>2, BeginType
<1>5. TypeOK'
  BY <1>2, <1>3, <1>4 DEF TasksInv, TypeOK, Exists
<1>6. ParentsStored'
  <2>1. \A t \in TaskId : task[t].parent # None => task[t].parent \in TaskId /\ Exists(task[t].parent)
    BY DEF TasksInv, TypeOK, Task, ParentsStored
  <2> QED
    BY <1>3, <2>1 DEF ParentsStored, Exists
<1>7. Frame(p)
  BY <1>1, <1>2, <1>3 DEF Frame, Exists
<1>8. RunningInv(p)'
  <2>1. txn'[p].kind = "idle" /\ txn'[p].step = "idle"
    BY <1>2 DEF Begin, Idle, At
  <2> QED
    BY <2>1 DEF RunningInv, CreateInv, ParentInv, TreeInv, NumberInv
<1> QED
  BY <1>5, <1>6, <1>7, <1>8 DEF Keeps

LEMMA BoardKeeps ==
    ASSUME TasksInv, NEW p \in Proc, NEW b \in Board, ArchiveBoard(p, b) \/ RestoreBoard(p, b)
    PROVE  Keeps(p)
<1>1. archived \subseteq Board
  BY DEF TasksInv, TypeOK
<1> QED
  BY <1>1, ChangeBoardKeeps DEF ArchiveBoard, RestoreBoard

----------------------------------------------------------------------------
(* The invariant. *)

LEMMA StepKeeps ==
    ASSUME TasksInv, NEW p \in Proc,
           NewRequest(p) \/ CreateStep(p) \/ ParentStep(p) \/ TreeStep(p) \/ Rollback(p)
    PROVE  Keeps(p)
<1>1. CASE NewRequest(p)
  BY <1>1, ReadColumnKeeps, ReadParentKeeps, StartAttachKeeps, StartDetachKeeps, StartMoveKeeps,
     StartDeleteKeeps, StartRestoreKeeps, BoardKeeps DEF NewRequest
<1>2. CASE CreateStep(p)
  BY <1>2, AllocateKeeps, InsertTaskKeeps DEF CreateStep
<1>3. CASE ParentStep(p)
  BY <1>3, LockParentKeeps, CommitAttachKeeps, CommitDetachKeeps DEF ParentStep
<1>4. CASE TreeStep(p)
  BY <1>4, GrowTreeKeeps, CommitMoveKeeps, CommitDeleteKeeps, CommitRestoreKeeps DEF TreeStep
<1>5. CASE Rollback(p)
  BY <1>5, RollbackKeeps
<1> QED
  BY <1>1, <1>2, <1>3, <1>4, <1>5

LEMMA InitTasksInv == Init => TasksInv
<1> SUFFICES ASSUME Init PROVE TasksInv
  OBVIOUS
<1>1. PICK place \in [Legacy -> Column], number \in [Legacy -> LegacyNumber] :
         task = [t \in TaskId |-> IF t \in Legacy
                                  THEN [status |-> "active", parent |-> None,
                                        column |-> place[t], number |-> number[t]]
                                  ELSE Absent]
  BY DEF Init
<1>2. Absent \in Task
  BY TasksAssumption DEF Absent, Task, Status
<1>3. \A t \in Legacy : [status |-> "active", parent |-> None,
                         column |-> place[t], number |-> number[t]] \in Task
  <2> TAKE t \in Legacy
  <2>1. place[t] \in Column
    OBVIOUS
  <2>2. LegacyNumber \subseteq 0 .. MaxNumber
    BY TasksAssumption
  <2>3. number[t] \in LegacyNumber
    OBVIOUS
  <2> QED
    BY <2>1, <2>2, <2>3 DEF Task, Status
<1>4. task \in [TaskId -> Task]
  BY <1>1, <1>2, <1>3
<1>5. \A t \in TaskId : task[t].parent = None /\ (Exists(t) => task[t].column \in Column)
  BY <1>1 DEF Absent, Exists
<1>6. Idle \in Txn /\ Idle.kind = "idle" /\ Idle.step = "idle"
  BY TasksAssumption DEF Idle, At, Txn, Step
<1>7. TypeOK
  <2>1. archived = {} /\ counter = [pr \in Project |-> 0] /\ rowLock = [t \in TaskId |-> None]
        /\ projectLock = [pr \in Project |-> None] /\ txn = [p \in Proc |-> Idle] /\ started = 0
    BY DEF Init
  <2> QED
    BY <1>4, <1>5, <1>6, <2>1, TasksAssumption DEF TypeOK
<1>8. TransactionInv
  BY <1>6 DEF Init, TransactionInv, RunningInv, CreateInv, ParentInv, TreeInv, NumberInv
<1>9. ParentsStored
  BY <1>5 DEF ParentsStored
<1> QED
  BY <1>7, <1>8, <1>9 DEF TasksInv

LEMMA NextTasksInv == TasksInv /\ [Next]_vars => TasksInv'
<1> SUFFICES ASSUME TasksInv, [Next]_vars PROVE TasksInv'
  OBVIOUS
<1>1. CASE Next
  <2>1. PICK p \in Proc : NewRequest(p) \/ CreateStep(p) \/ ParentStep(p) \/ TreeStep(p) \/ Rollback(p)
    BY <1>1 DEF Next
  <2>2. Keeps(p)
    BY <2>1, StepKeeps
  <2>3. \A q \in Proc \ {p} : RunningInv(q)'
    BY <2>2, OthersKeep DEF Keeps
  <2>4. TransactionInv'
    BY <2>2, <2>3 DEF Keeps, TransactionInv
  <2> QED
    BY <2>2, <2>4 DEF Keeps, TasksInv
<1>2. CASE UNCHANGED vars
  BY <1>2 DEF vars, TasksInv, TypeOK, ParentsStored, Exists, TransactionInv, RunningInv, CreateInv,
     ParentInv, TreeInv, NumberInv, Numbers, LastNumber, NumbersNeeded, IsCrossProject, ProjectOfTask,
     ProjectAt
<1> QED
  BY <1>1, <1>2

\* In every reachable state the rows, locks and transactions are well typed, and
\* every running transaction of TasksService owns the locks its commit relies on:
\* the rows it will write, and for a number range the project row.
THEOREM LocksCoverWrites == Spec => []TasksInv
BY InitTasksInv, NextTasksInv, PTL DEF Spec

\* The tables, locks and transactions of TasksService stay well typed.
THEOREM TypeCorrect == Spec => []TypeOK
<1>1. TasksInv => TypeOK
  BY DEF TasksInv
<1> QED
  BY <1>1, LocksCoverWrites, PTL

----------------------------------------------------------------------------
(* What each commit does to the placement of tasks. *)

Placed(p) == InsertTask(p) \/ CommitAttach(p) \/ CommitDetach(p) \/ CommitMove(p)

\* Only four steps change a column, a parent, a number or a counter.
LEMMA PlacementKept ==
    ASSUME TasksInv, NEW p \in Proc, ~Placed(p),
           NewRequest(p) \/ CreateStep(p) \/ ParentStep(p) \/ TreeStep(p) \/ Rollback(p)
    PROVE  /\ counter' = counter
           /\ \A t \in TaskId : /\ task'[t].column = task[t].column
                                /\ task'[t].parent = task[t].parent
                                /\ task'[t].number = task[t].number
<1> DEFINE Same == /\ counter' = counter
                   /\ \A t \in TaskId : /\ task'[t].column = task[t].column
                                        /\ task'[t].parent = task[t].parent
                                        /\ task'[t].number = task[t].number
<1>1. \A S : \A status : SetStatus(S, status) /\ counter' = counter => Same
  BY DEF SetStatus, TasksInv, TypeOK, Task
<1>2. CASE UNCHANGED store
  BY <1>2 DEF store
<1> HIDE DEF Same
<1>3. CASE NewRequest(p)
  <2>1. UNCHANGED store \/ \E b \in Board : ArchiveBoard(p, b) \/ RestoreBoard(p, b)
    BY <1>3 DEF NewRequest, ReadColumn, ReadParent, StartDetach, StartDelete, StartRestore,
       StartAttach, StartMove, LockForParentChange
  <2> QED
    BY <1>1, <1>2, <2>1 DEF ArchiveBoard, RestoreBoard, ChangeBoard, Same
<1>4. CASE CommitDelete(p) \/ CommitRestore(p)
  BY <1>1, <1>4 DEF CommitDelete, CommitRestore, Same
<1>5. CASE AllocateNumbers(p) \/ LockParent(p) \/ GrowTree(p) \/ Rollback(p)
  BY <1>2, <1>5 DEF AllocateNumbers, LockParent, GrowTree, Rollback
<1> QED
  BY <1>2, <1>3, <1>4, <1>5 DEF CreateStep, ParentStep, TreeStep, Placed, Same

\* INSERT writes one absent row, under the first number of the reserved range.
LEMMA InsertEffect ==
    ASSUME TasksInv, NEW p \in Proc, InsertTask(p)
    PROVE  LET pr == ProjectAt(txn[p].column)
           IN  /\ pr \in Project /\ counter[pr] < txn[p].first /\ txn[p].first \in Nat
               /\ counter' = [counter EXCEPT ![pr] = txn[p].first]
               /\ txn[p].column \in Column
               /\ txn[p].parent # None => txn[p].parent \in TaskId /\ Exists(txn[p].parent)
               /\ \E t \in TaskId :
                     /\ ~Exists(t)
                     /\ task'[t] = [status |-> "active", parent |-> txn[p].parent,
                                    column |-> txn[p].column, number |-> txn[p].first]
                     /\ \A u \in TaskId \ {t} : task'[u] = task[u]
<1> DEFINE pr == ProjectAt(txn[p].column)
<1>1. RunningInv(p) /\ txn[p] \in Txn /\ txn[p].kind \in {"create", "subtask"} /\ txn[p].step = "write"
  BY DEF TasksInv, TransactionInv, TypeOK, InsertTask
<1>2. txn[p].column \in Column /\ (txn[p].parent # None => txn[p].parent \in TaskId /\ Exists(txn[p].parent))
  BY <1>1 DEF RunningInv, CreateInv, Txn
<1>3. pr \in Project /\ counter[pr] < txn[p].first /\ txn[p].first \in Nat
  BY <1>1, <1>2, TasksAssumption DEF RunningInv, NumberInv, Numbers, ProjectAt, Txn
<1> QED
  BY <1>2, <1>3 DEF InsertTask, TasksInv, TypeOK

\* A relocation to another project gives its tasks numbers of a reserved range;
\* any other move leaves numbers and counters alone.
LEMMA MoveEffect ==
    ASSUME TasksInv, NEW p \in Proc, CommitMove(p)
    PROVE  /\ \A t \in TaskId : task'[t].parent = task[t].parent
           /\ \/ counter' = counter /\ \A t \in TaskId : task'[t].number = task[t].number
              \/ \E pr \in Project, first, last \in Nat :
                    /\ counter[pr] < first /\ first <= last
                    /\ counter' = [counter EXCEPT ![pr] = last]
                    /\ \A t \in TaskId : \/ task'[t].number = task[t].number
                                         \/ /\ ProjectAt(task'[t].column) = pr
                                            /\ task'[t].number \in first .. last
<1> DEFINE tree == txn[p].tree
           c == txn[p].column
           first == txn[p].first
           last == first + Cardinality(tree) - 1
<1>1. /\ tree \in SUBSET TaskId /\ txn[p].task \in tree
      /\ c \in Column
      /\ first \in 0 .. MaxNumber
  BY DEF CommitMove, TasksInv, TypeOK, Txn, TransactionInv, RunningInv, TreeInv
<1>2. Cardinality(tree) \in Nat /\ Cardinality(tree) >= 1
  BY <1>1, CountTree
<1>3. first <= last /\ last \in Nat /\ first \in Nat
  BY <1>1, <1>2, TasksAssumption
<1>4. CASE IsCrossProject(p)
  <2>1. counter[ProjectAt(c)] < first /\ ProjectAt(c) \in Project
    <3>1. NumberInv(p) /\ Numbers(p) /\ txn[p].step = "write"
      BY <1>4 DEF CommitMove, Numbers, TasksInv, TransactionInv, RunningInv
    <3> QED
      BY <1>1, <3>1, TasksAssumption DEF NumberInv, ProjectAt
  <2>2. PICK f \in Numberings(p) :
            task' = [t \in TaskId |-> IF t \in tree
                                      THEN [task[t] EXCEPT !.column = c, !.number = f[t]]
                                      ELSE task[t]]
    BY <1>4 DEF CommitMove
  <2>3. f \in [tree -> first .. last]
    BY DEF Numberings
  <2>4. counter' = [counter EXCEPT ![ProjectAt(c)] = last]
    BY <1>4 DEF CommitMove
  <2> HIDE DEF tree, c, first, last
  <2>5. \A t \in TaskId : /\ task'[t].parent = task[t].parent
                          /\ t \notin tree => task'[t].number = task[t].number
                          /\ t \in tree => task'[t].number = f[t] /\ task'[t].column = c
    BY <2>2 DEF TasksInv, TypeOK, Task
  <2>6. \A t \in TaskId : \/ task'[t].number = task[t].number
                          \/ ProjectAt(task'[t].column) = ProjectAt(c) /\ task'[t].number \in first .. last
    BY <2>3, <2>5
  <2> QED
    BY <1>1, <1>3, <2>1, <2>4, <2>5, <2>6
<1>5. CASE ~IsCrossProject(p)
  <2>1. /\ task' = [t \in TaskId |-> IF t \in tree THEN [task[t] EXCEPT !.column = c] ELSE task[t]]
        /\ UNCHANGED counter
    BY <1>5 DEF CommitMove
  <2> HIDE DEF tree, c, first, last
  <2> QED
    BY <2>1 DEF TasksInv, TypeOK, Task
<1> QED
  BY <1>4, <1>5

----------------------------------------------------------------------------
(* The action properties. *)

LEMMA FreshStep == TasksInv /\ [Next]_vars => [GivesFreshNumbers]_vars
<1> SUFFICES ASSUME TasksInv, Next PROVE GivesFreshNumbers
  OBVIOUS
<1>1. PICK p \in Proc : NewRequest(p) \/ CreateStep(p) \/ ParentStep(p) \/ TreeStep(p) \/ Rollback(p)
  BY DEF Next
<1>2. counter \in [Project -> Nat]
  BY TasksAssumption DEF TasksInv, TypeOK
<1>3. CASE counter' = counter /\ \A t \in TaskId : task'[t].number = task[t].number
  BY <1>2, <1>3 DEF GivesFreshNumbers
<1>4. CASE ~Placed(p)
  BY <1>1, <1>3, <1>4, PlacementKept
<1>5. CASE InsertTask(p)
  <2> DEFINE pr == ProjectAt(txn[p].column)
             n == txn[p].first
  <2>1. /\ pr \in Project /\ counter[pr] < n /\ n \in Nat
        /\ counter' = [counter EXCEPT ![pr] = n]
    BY <1>5, InsertEffect
  <2>2. PICK t \in TaskId :
            /\ task'[t] = [status |-> "active", parent |-> txn[p].parent,
                           column |-> txn[p].column, number |-> n]
            /\ \A u \in TaskId \ {t} : task'[u] = task[u]
    BY <1>5, InsertEffect
  <2>3. ProjectAt(task'[t].column) = pr /\ task'[t].number = n
    BY <2>2
  <2> HIDE DEF pr, n
  <2> QED
    BY <1>2, <2>1, <2>2, <2>3 DEF GivesFreshNumbers
<1>6. CASE CommitAttach(p) \/ CommitDetach(p)
  BY <1>3, <1>6 DEF CommitAttach, CommitDetach, TasksInv, TypeOK, Task
<1>7. CASE CommitMove(p)
  <2>1. CASE counter' = counter /\ \A t \in TaskId : task'[t].number = task[t].number
    BY <1>3, <2>1
  <2>2. CASE \E pr \in Project, first, last \in Nat :
                    /\ counter[pr] < first /\ first <= last
                    /\ counter' = [counter EXCEPT ![pr] = last]
                    /\ \A t \in TaskId : \/ task'[t].number = task[t].number
                                         \/ /\ ProjectAt(task'[t].column) = pr
                                            /\ task'[t].number \in first .. last
    BY <1>2, <2>2 DEF GivesFreshNumbers
  <2> QED
    BY <1>7, <2>1, <2>2, MoveEffect
<1> QED
  BY <1>4, <1>5, <1>6, <1>7 DEF Placed

\* Whatever requests run side by side, allocateTaskNumbers and the writes that
\* follow it give a task only numbers above the counter of its project, and the
\* counter covers them from then on.
THEOREM FreshNumbers == Spec => NumbersGivenOnce
<1>1. []TasksInv /\ [][Next]_vars => [][GivesFreshNumbers]_vars
  BY FreshStep, PTL
<1> QED
  BY <1>1, LocksCoverWrites, PTL DEF Spec, NumbersGivenOnce

LEMMA PlacementStep == TasksInv /\ [Next]_vars => [PlacesLockedRows]_vars
<1> SUFFICES ASSUME TasksInv, Next, NEW t \in TaskId, Exists(t),
                    <<task'[t].column, task'[t].parent, task'[t].number>>
                       # <<task[t].column, task[t].parent, task[t].number>>
             PROVE  rowLock[t] # None /\ txn'[rowLock[t]] = Idle
  BY DEF PlacesLockedRows
<1>1. PICK p \in Proc : NewRequest(p) \/ CreateStep(p) \/ ParentStep(p) \/ TreeStep(p) \/ Rollback(p)
  BY DEF Next
<1>2. rowLock[t] = p
  BY <1>1, StepKeeps DEF Keeps, Frame
<1>3. Placed(p)
  BY <1>1, PlacementKept
<1>4. txn'[p] = Idle
  BY <1>3 DEF Placed, InsertTask, CommitAttach, CommitDetach, CommitMove, End, TasksInv, TypeOK
<1> QED
  BY <1>2, <1>4, TasksAssumption

\* attach, detach and move write a row only while they hold it FOR UPDATE: no
\* column, parent or number is overwritten from a stale decision.
THEOREM LockedPlacement == Spec => PlacementUnderLock
<1>1. []TasksInv /\ [][Next]_vars => [][PlacesLockedRows]_vars
  BY PlacementStep, PTL
<1> QED
  BY <1>1, LocksCoverWrites, PTL DEF Spec, PlacementUnderLock

----------------------------------------------------------------------------
(* Hierarchies stay acyclic: an inserted task has no children yet, an attached *)
(* one hangs under a locked root, and nothing else gives a task a parent.      *)

LEMMA InsertAcyclic ==
    ASSUME TasksInv, ParentsAcyclic, NEW p \in Proc, InsertTask(p) PROVE ParentsAcyclic'
<1>1. PICK t \in TaskId :
          /\ ~Exists(t)
          /\ task'[t] = [status |-> "active", parent |-> txn[p].parent,
                         column |-> txn[p].column, number |-> txn[p].first]
          /\ \A u \in TaskId \ {t} : task'[u] = task[u]
  BY InsertEffect
<1>2. txn[p].parent # None => Exists(txn[p].parent)
  BY InsertEffect
<1>3. \A u \in TaskId : task[u].parent # t
  BY <1>1, TasksAssumption DEF TasksInv, ParentsStored
<1> SUFFICES ASSUME NEW S \in SUBSET TaskId, S # {} PROVE \E u \in S : task'[u].parent \notin S
  BY DEF ParentsAcyclic
<1>4. CASE S \subseteq {t}
  BY <1>1, <1>2, <1>4, TasksAssumption
<1>5. CASE ~(S \subseteq {t})
  <2>1. PICK u \in S \ {t} : task[u].parent \notin S \ {t}
    BY <1>5 DEF ParentsAcyclic
  <2> QED
    BY <1>1, <1>3, <2>1
<1> QED
  BY <1>4, <1>5

LEMMA AttachAcyclic ==
    ASSUME TasksInv, ParentsAcyclic, NEW p \in Proc, CommitAttach(p) PROVE ParentsAcyclic'
<1> DEFINE t == txn[p].task
           q == txn[p].parent
<1>1. t \in TaskId /\ q \in TaskId /\ q # t /\ task[q].parent = None
  BY DEF CommitAttach, TasksInv, TransactionInv, RunningInv, ParentInv
<1>2. task' = [task EXCEPT ![t].parent = q]
  BY DEF CommitAttach
<1> HIDE DEF t, q
<1>3. task'[t].parent = q /\ \A u \in TaskId \ {t} : task'[u] = task[u]
  BY <1>1, <1>2 DEF TasksInv, TypeOK, Task
<1> SUFFICES ASSUME NEW S \in SUBSET TaskId, S # {} PROVE \E u \in S : task'[u].parent \notin S
  BY DEF ParentsAcyclic
<1>4. PICK u \in S : task[u].parent \notin S
  BY DEF ParentsAcyclic
<1> QED
  BY <1>1, <1>3, <1>4, TasksAssumption

LEMMA AcyclicStep == TasksInv /\ ParentsAcyclic /\ [Next]_vars => ParentsAcyclic'
<1> SUFFICES ASSUME TasksInv, ParentsAcyclic, [Next]_vars PROVE ParentsAcyclic'
  OBVIOUS
<1>1. CASE \A t \in TaskId : task'[t].parent \in {None, task[t].parent}
  BY <1>1, TasksAssumption DEF ParentsAcyclic
<1>2. CASE UNCHANGED vars
  BY <1>1, <1>2 DEF vars
<1>3. CASE Next
  <2>1. PICK p \in Proc : NewRequest(p) \/ CreateStep(p) \/ ParentStep(p) \/ TreeStep(p) \/ Rollback(p)
    BY <1>3 DEF Next
  <2>2. CASE ~Placed(p)
    BY <1>1, <2>1, <2>2, PlacementKept
  <2>3. CASE CommitDetach(p)
    BY <1>1, <2>3 DEF CommitDetach, TasksInv, TypeOK, Task
  <2>4. CASE CommitMove(p)
    BY <1>1, <2>4, MoveEffect
  <2> QED
    BY <2>2, <2>3, <2>4, InsertAcyclic, AttachAcyclic DEF Placed
<1> QED
  BY <1>2, <1>3

\* No interleaving of createSubtask, parent changes, moves, deletes and restores
\* makes a task its own ancestor.
THEOREM HierarchyAcyclic == Spec => []ParentsAcyclic
<1>1. Init => ParentsAcyclic
  BY TasksAssumption DEF Init, ParentsAcyclic, Absent
<1>2. []TasksInv /\ ParentsAcyclic /\ [][Next]_vars => []ParentsAcyclic
  BY AcyclicStep, PTL
<1> QED
  BY <1>1, <1>2, LocksCoverWrites, PTL DEF Spec
----------------------------------------------------------------------------
(* Unique numbers and whole hierarchies, when no request splits a hierarchy: *)
(* without createSubtask and the two restores.                               *)

\* An active task gets a parent only from a step that holds the parent.
NoNewChild(p) ==
    \A u \in TaskId : Active(u)' /\ task'[u].parent # None =>
        \/ Active(u) /\ task'[u].parent = task[u].parent
        \/ rowLock[task'[u].parent] = p

\* A project receives a number only from a step that holds its row.
NoNewNumber(p) ==
    \A t \in TaskId : Exists(t)' =>
        \/ projectLock[ProjectAt(task'[t].column)] = p
        \/ /\ Exists(t) /\ ProjectOfTask(t) = ProjectAt(task'[t].column)
           /\ task'[t].number = task[t].number

\* What a step of p owes about the tables.
Orderly(p) == OneBoardHierarchy' /\ UniqueNumbers' /\ NoNewChild(p) /\ NoNewNumber(p)

\* What it owes about itself.
Prepared(p) ==
    IssuedInv(p)' /\ RelocationInv(p)' /\ AdoptionInv(p)' /\ RangeInv(p)'

\* A process that did not move keeps its part.
LEMMA OthersPrepared ==
    ASSUME TasksInv, NumberingInv, NEW p \in Proc, NEW q \in Proc \ {p}, Frame(p),
           NoNewChild(p), NoNewNumber(p)
    PROVE  Prepared(q)
<1>1. /\ txn'[q] = txn[q] /\ txn[q] \in Txn /\ RunningInv(q)
      /\ IssuedInv(q) /\ RelocationInv(q) /\ AdoptionInv(q) /\ RangeInv(q)
  BY DEF Frame, TasksInv, TypeOK, TransactionInv, NumberingInv
<1>2. \A t \in TaskId : rowLock[t] = q => rowLock'[t] = q /\ (Exists(t) => task'[t] = task[t])
  BY TasksAssumption DEF Frame
<1>6. IssuedInv(q)'
  BY <1>1 DEF IssuedInv
<1>3. RelocationInv(q)'
  <2> SUFFICES ASSUME txn[q].kind = "move" PROVE RelocationInv(q)'
    BY <1>1 DEF RelocationInv
  <2> DEFINE tree == txn[q].tree
  <2>1. /\ tree \in SUBSET TaskId /\ txn[q].task \in tree
        /\ \A t \in tree : Exists(t) /\ rowLock[t] = q /\ task'[t] = task[t]
    BY <1>1, <1>2 DEF RunningInv, TreeInv, Txn
  <2>2. ASSUME NEW S \in SUBSET tree, ActiveChildren(S) \subseteq tree
        PROVE  \A u \in TaskId : Active(u)' /\ task'[u].parent \in S => u \in tree
    BY <2>1, <2>2, TasksAssumption DEF NoNewChild, ActiveChildren
  <2>3. /\ \A t \in tree : Active(t)' /\ BoardOf[task'[t].column] = BoardOf[task'[txn[q].task].column]
        /\ txn[q].step # "write" => BoardOf[txn[q].column] # BoardOf[task'[txn[q].task].column]
    BY <1>1, <2>1 DEF RelocationInv, Active, BoardOfTask
  <2>4. BoardOf[txn[q].column] # BoardOf[task'[txn[q].task].column] =>
           /\ task'[txn[q].task].parent = None
           /\ \A t \in tree \ {txn[q].task} : task'[t].parent \in tree
           /\ txn[q].frontier \subseteq tree
           /\ txn[q].step = "tree" => \A u \in TaskId : Active(u)' /\ task'[u].parent \in tree \ txn[q].frontier => u \in tree
           /\ txn[q].step # "tree" => \A u \in TaskId : Active(u)' /\ task'[u].parent \in tree => u \in tree
    BY <1>1, <2>1, <2>2 DEF RelocationInv, BoardOfTask
  <2> QED
    BY <1>1, <2>3, <2>4 DEF RelocationInv, BoardOfTask, ActiveChildren
<1>4. AdoptionInv(q)'
  <2> SUFFICES ASSUME txn[q].kind \in {"attach", "detach"} PROVE AdoptionInv(q)'
    BY <1>1 DEF AdoptionInv
  <2>1. /\ txn[q].task \in TaskId /\ txn[q].parent \in TaskId
        /\ task'[txn[q].task] = task[txn[q].task]
    BY <1>1, <1>2 DEF RunningInv, ParentInv
  <2>2. txn[q].step = "write" => /\ rowLock[txn[q].parent] = q /\ rowLock'[txn[q].parent] = q
                                 /\ task'[txn[q].parent] = task[txn[q].parent]
    BY <1>1, <1>2, <2>1 DEF AdoptionInv, Active, Exists
  <2> QED
    BY <1>1, <2>1, <2>2 DEF AdoptionInv, Active, BoardOfTask
<1>5. RangeInv(q)'
  <2> SUFFICES ASSUME txn[q].step = "write", Numbers(q)', NEW t \in TaskId, Exists(t)',
                      ProjectAt(task'[t].column) = ProjectAt(txn[q].column)
               PROVE  task'[t].number < txn[q].first
    BY <1>1 DEF RangeInv, ProjectOfTask, ProjectAt
  <2>1. Numbers(q)
    BY <1>1, <1>2 DEF Numbers, IsCrossProject, ProjectOfTask, RunningInv, TreeInv, Txn
  <2>2. projectLock[ProjectAt(txn[q].column)] = q
    BY <1>1, <2>1 DEF RunningInv, NumberInv
  <2>3. Exists(t) /\ ProjectOfTask(t) = ProjectAt(txn[q].column) /\ task'[t].number = task[t].number
    BY <2>2 DEF NoNewNumber
  <2> QED
    BY <1>1, <2>1, <2>3 DEF RangeInv
<1> QED
  BY <1>3, <1>4, <1>5, <1>6 DEF Prepared

----------------------------------------------------------------------------
(* The tables. *)

LEMMA SamePlacement ==
    ASSUME TasksInv, NumberingInv, NEW p \in Proc,
           \A t \in TaskId : /\ task'[t].column = task[t].column
                             /\ task'[t].parent = task[t].parent
                             /\ task'[t].number = task[t].number
                             /\ Active(t)' => Active(t)
                             /\ Exists(t)' => Exists(t)
    PROVE  Orderly(p)
<1>1. \A t \in TaskId : task[t].parent # None => task[t].parent \in TaskId
  BY DEF TasksInv, TypeOK, Task
<1>2. OneBoardHierarchy'
  BY <1>1 DEF NumberingInv, OneBoardHierarchy, BoardOfTask
<1>3. UniqueNumbers'
  BY DEF NumberingInv, UniqueNumbers, ProjectOfTask, ProjectAt
<1> QED
  BY <1>2, <1>3 DEF Orderly, NoNewChild, NoNewNumber, ProjectOfTask, ProjectAt

\* A new root has the first number of the reserved range.
LEMMA InsertOrderly ==
    ASSUME TasksInv, NumberingInv, NEW p \in Proc, InsertTask(p), txn[p].kind # "subtask"
    PROVE  Orderly(p)
<1> DEFINE pr == ProjectAt(txn[p].column)
           first == txn[p].first
<1>1. /\ txn[p].kind = "create" /\ txn[p].step = "write" /\ Numbers(p) /\ RunningInv(p)
      /\ RangeInv(p) /\ txn[p].parent = None
  BY DEF InsertTask, Numbers, TasksInv, TransactionInv, NumberingInv, IssuedInv
<1>2. /\ projectLock[pr] = p
      /\ \A t \in TaskId : Exists(t) /\ ProjectOfTask(t) = pr => task[t].number < first
  BY <1>1 DEF RunningInv, NumberInv, RangeInv
<1>3. PICK t \in TaskId :
          /\ ~Exists(t)
          /\ task'[t] = [status |-> "active", parent |-> None,
                         column |-> txn[p].column, number |-> first]
          /\ \A u \in TaskId \ {t} : task'[u] = task[u]
  BY <1>1, InsertEffect
<1>4. /\ task'[t].parent = None /\ ProjectAt(task'[t].column) = pr /\ task'[t].number = first
      /\ first \in Nat
  <2>1. task'[t].parent = None /\ task'[t].column = txn[p].column /\ task'[t].number = first
    BY <1>3
  <2>2. first \in Nat
    BY InsertEffect
  <2> QED
    BY <2>1, <2>2
<1> HIDE DEF pr, first
<1>5. \A u \in TaskId : task[u].parent # None => task[u].parent \in TaskId /\ Exists(task[u].parent)
  BY DEF TasksInv, TypeOK, Task, ParentsStored
<1>6. OneBoardHierarchy'
  BY <1>3, <1>4, <1>5 DEF NumberingInv, OneBoardHierarchy, Active, BoardOfTask
<1>7. \A u \in TaskId : Exists(u) => task[u].number \in Nat
  BY TasksAssumption DEF TasksInv, TypeOK, Task
<1>8. UniqueNumbers'
  BY <1>2, <1>3, <1>4, <1>7 DEF NumberingInv, UniqueNumbers, ProjectOfTask, ProjectAt, Exists
<1>9. NoNewChild(p)
  BY <1>3, <1>4 DEF NoNewChild, Active
<1>10. NoNewNumber(p)
  BY <1>2, <1>3, <1>4 DEF NoNewNumber, Exists, ProjectOfTask, ProjectAt
<1> QED
  BY <1>6, <1>8, <1>9, <1>10 DEF Orderly

\* A new parent is held, and is on the task's board.
LEMMA AttachOrderly ==
    ASSUME TasksInv, NumberingInv, NEW p \in Proc, CommitAttach(p) PROVE Orderly(p)
<1> DEFINE t == txn[p].task
           q == txn[p].parent
<1>1. t \in TaskId /\ q \in TaskId /\ Exists(t)
  BY DEF CommitAttach, TasksInv, TransactionInv, RunningInv, ParentInv
<1>2. rowLock[q] = p /\ BoardOfTask(q) = BoardOfTask(t) /\ Active(t)
  BY DEF CommitAttach, NumberingInv, AdoptionInv
<1> HIDE DEF t, q
<1>3. /\ task'[t].parent = q /\ task'[t].status = task[t].status
      /\ task'[t].column = task[t].column /\ task'[t].number = task[t].number
      /\ \A u \in TaskId \ {t} : task'[u] = task[u]
  BY <1>1 DEF CommitAttach, TasksInv, TypeOK, Task, t, q
<1>4. \A u \in TaskId : /\ task'[u].column = task[u].column /\ task'[u].number = task[u].number
                        /\ Exists(u)' <=> Exists(u)
                        /\ Active(u)' <=> Active(u)
                        /\ task[u].parent # None => task[u].parent \in TaskId
  BY <1>3 DEF Exists, Active, TasksInv, TypeOK, Task
<1>5. OneBoardHierarchy'
  BY <1>1, <1>2, <1>3, <1>4 DEF NumberingInv, OneBoardHierarchy, BoardOfTask
<1>6. UniqueNumbers'
  BY <1>4 DEF NumberingInv, UniqueNumbers, ProjectOfTask, ProjectAt
<1>7. NoNewChild(p)
  BY <1>2, <1>3, <1>4 DEF NoNewChild
<1>8. NoNewNumber(p)
  BY <1>4 DEF NoNewNumber, ProjectOfTask, ProjectAt
<1> QED
  BY <1>5, <1>6, <1>7, <1>8 DEF Orderly

\* A detached task stays on its board.
LEMMA DetachOrderly ==
    ASSUME TasksInv, NumberingInv, NEW p \in Proc, CommitDetach(p)
    PROVE  Orderly(p) /\ \A u \in TaskId : Active(u) => BoardOf[task'[u].column] = BoardOfTask(u)
<1> DEFINE t == txn[p].task
           c == txn[p].column
<1>1. t \in TaskId /\ Exists(t)
  BY DEF CommitDetach, TasksInv, TransactionInv, RunningInv, ParentInv
<1>2. BoardOf[c] = BoardOfTask(t)
  BY DEF CommitDetach, NumberingInv, AdoptionInv, BoardOfTask
<1> HIDE DEF t, c
<1>3. /\ task'[t].parent = None /\ task'[t].status = task[t].status
      /\ task'[t].column = c /\ task'[t].number = task[t].number
      /\ \A u \in TaskId \ {t} : task'[u] = task[u]
  BY <1>1 DEF CommitDetach, TasksInv, TypeOK, Task, t, c
<1>4. \A u \in TaskId : /\ BoardOf[task'[u].column] = BoardOf[task[u].column]
                        /\ task'[u].number = task[u].number
                        /\ Exists(u)' <=> Exists(u)
                        /\ Active(u)' <=> Active(u)
                        /\ task'[u].parent # None => task'[u].parent = task[u].parent
                        /\ task[u].parent # None => task[u].parent \in TaskId
  BY <1>2, <1>3 DEF Exists, Active, BoardOfTask, TasksInv, TypeOK, Task
<1>5. OneBoardHierarchy'
  BY <1>4 DEF NumberingInv, OneBoardHierarchy, BoardOfTask
<1>6. UniqueNumbers'
  BY <1>4 DEF NumberingInv, UniqueNumbers, ProjectOfTask, ProjectAt
<1>7. NoNewChild(p)
  BY <1>4 DEF NoNewChild
<1>8. NoNewNumber(p)
  BY <1>4 DEF NoNewNumber, ProjectOfTask, ProjectAt
<1> QED
  BY <1>4, <1>5, <1>6, <1>7, <1>8 DEF Orderly, BoardOfTask

\* A relocation takes the active hierarchy, and numbers it above the others.
LEMMA MoveOrderly ==
    ASSUME TasksInv, NumberingInv, NEW p \in Proc, CommitMove(p)
    PROVE  /\ Orderly(p)
           /\ \A t, u \in TaskId :
                 Active(t) /\ Active(u) /\ task[u].parent = t
                    => \/ BoardOf[task'[t].column] = BoardOfTask(t)
                       \/ task'[u].column = task'[t].column
<1> DEFINE root == txn[p].task
           tree == txn[p].tree
           c == txn[p].column
           first == txn[p].first
           Other == BoardOf[c] # BoardOfTask(root)
<1>1. /\ tree \in SUBSET TaskId /\ root \in tree /\ c \in Column /\ first \in Nat
      /\ RunningInv(p) /\ txn[p].kind = "move" /\ txn[p].step = "write"
  <2>1. txn[p] \in Txn /\ RunningInv(p) /\ txn[p].kind = "move" /\ txn[p].step = "write"
    <3>1. txn[p].kind = "move" /\ txn[p].step = "write"
      BY DEF CommitMove
    <3> QED
      BY <3>1 DEF TasksInv, TypeOK, TransactionInv
  <2>2. tree \in SUBSET TaskId /\ root \in tree /\ c \in Column
    BY <2>1 DEF Txn, RunningInv, TreeInv
  <2>3. first \in 0 .. MaxNumber
    BY <2>1 DEF Txn
  <2> QED
    BY <2>1, <2>2, <2>3, TasksAssumption
<1>2. /\ \A t \in tree : Active(t) /\ BoardOfTask(t) = BoardOfTask(root)
      /\ Other => /\ task[root].parent = None
                  /\ \A t \in tree \ {root} : task[t].parent \in tree
                  /\ ActiveChildren(tree) \subseteq tree
  BY <1>1 DEF NumberingInv, RelocationInv
<1>3. IsCrossProject(p) => /\ projectLock[ProjectAt(c)] = p
                           /\ \A t \in TaskId : Exists(t) /\ ProjectOfTask(t) = ProjectAt(c) => task[t].number < first
  BY <1>1 DEF Numbers, RunningInv, NumberInv, NumberingInv, RangeInv
<1>4. IsCrossProject(p) <=> ProjectAt(c) # ProjectOfTask(root)
  BY DEF IsCrossProject
<1>5. /\ \A t \in TaskId : /\ task'[t].status = task[t].status /\ task'[t].parent = task[t].parent
                           /\ t \in tree => task'[t].column = c
                           /\ t \notin tree => task'[t] = task[t]
      /\ IsCrossProject(p) =>
            /\ \A t \in tree : task'[t].number \in Nat /\ first <= task'[t].number
            /\ \A t, u \in tree : t # u => task'[t].number # task'[u].number
      /\ ~IsCrossProject(p) => \A t \in TaskId : task'[t].number = task[t].number
  <2>1. CASE IsCrossProject(p)
    <3>1. PICK f \in Numberings(p) :
              task' = [t \in TaskId |-> IF t \in tree
                                        THEN [task[t] EXCEPT !.column = c, !.number = f[t]]
                                        ELSE task[t]]
      BY <2>1 DEF CommitMove
    <3>2. Cardinality(tree) \in Nat
      BY <1>1, CountTree
    <3>3. /\ \A t \in tree : f[t] \in Nat /\ first <= f[t]
          /\ \A t, u \in tree : t # u => f[t] # f[u]
      BY <1>1, <3>2 DEF Numberings
    <3> HIDE DEF tree, c, first
    <3>4. \A t \in TaskId : /\ task'[t].status = task[t].status /\ task'[t].parent = task[t].parent
                            /\ t \in tree => task'[t].column = c /\ task'[t].number = f[t]
                            /\ t \notin tree => task'[t] = task[t]
      BY <3>1 DEF TasksInv, TypeOK, Task
    <3> QED
      BY <1>1, <2>1, <3>3, <3>4
  <2>2. CASE ~IsCrossProject(p)
    <3>1. task' = [t \in TaskId |-> IF t \in tree THEN [task[t] EXCEPT !.column = c] ELSE task[t]]
      BY <2>2 DEF CommitMove
    <3> HIDE DEF tree, c, first
    <3> QED
      BY <2>2, <3>1 DEF TasksInv, TypeOK, Task
  <2> QED
    BY <2>1, <2>2
<1> HIDE DEF root, tree, c, first
<1>6. \A t \in TaskId : /\ Exists(t)' <=> Exists(t)
                        /\ Active(t)' <=> Active(t)
                        /\ task[t].parent # None => task[t].parent \in TaskId
                        /\ Exists(t) => task[t].number \in Nat
  BY <1>5, TasksAssumption DEF Exists, Active, TasksInv, TypeOK, Task
<1>7. \A t, u \in TaskId : Active(t) /\ Active(u) /\ task[u].parent = t =>
         \/ /\ BoardOf[task'[t].column] = BoardOfTask(t)
            /\ BoardOf[task'[u].column] = BoardOfTask(u)
         \/ task'[u].column = task'[t].column
  <2> TAKE t, u \in TaskId
  <2> HAVE Active(t) /\ Active(u) /\ task[u].parent = t
  <2>1. CASE ~Other
    BY <1>2, <1>5, <2>1 DEF BoardOfTask
  <2>2. CASE Other
    <3>1. t \in tree <=> u \in tree
      BY <1>2, <2>2, TasksAssumption DEF ActiveChildren
    <3> QED
      BY <1>5, <3>1 DEF BoardOfTask
  <2> QED
    BY <2>1, <2>2
<1>8. OneBoardHierarchy'
  <2> SUFFICES ASSUME NEW u \in TaskId, NEW q \in TaskId, q # None, task[u].parent = q, Active(u), Active(q)
               PROVE  BoardOf[task'[u].column] = BoardOf[task'[q].column]
    BY <1>5, <1>6 DEF OneBoardHierarchy, BoardOfTask, Active
  <2>1. BoardOfTask(u) = BoardOfTask(q)
    BY DEF NumberingInv, OneBoardHierarchy
  <2> QED
    BY <1>7, <2>1
<1>9. NoNewChild(p)
  BY <1>5, <1>6 DEF NoNewChild
<1>10. \A t \in tree : ProjectOfTask(t) = ProjectOfTask(root) /\ ProjectAt(task'[t].column) = ProjectAt(c)
  BY <1>1, <1>2, <1>5 DEF ProjectOfTask, ProjectAt, BoardOfTask
<1>11. NoNewNumber(p)
  BY <1>1, <1>3, <1>4, <1>5, <1>6, <1>10 DEF NoNewNumber, ProjectOfTask, ProjectAt
<1>12. UniqueNumbers'
  <2> SUFFICES ASSUME NEW t \in TaskId, NEW u \in TaskId, t # u, Exists(t), Exists(u),
                      ProjectAt(task'[t].column) = ProjectAt(task'[u].column)
               PROVE  task'[t].number # task'[u].number
    BY <1>6 DEF UniqueNumbers, ProjectOfTask, ProjectAt
  <2>1. ProjectOfTask(t) = ProjectOfTask(u) => task[t].number # task[u].number
    BY DEF NumberingInv, UniqueNumbers
  <2>2. \A x \in TaskId \ tree : ProjectAt(task'[x].column) = ProjectOfTask(x) /\ task'[x].number = task[x].number
    BY <1>5 DEF ProjectOfTask
  <2>3. CASE IsCrossProject(p)
    BY <1>1, <1>3, <1>5, <1>6, <1>10, <2>1, <2>2, <2>3
  <2>4. CASE ~IsCrossProject(p)
    BY <1>1, <1>4, <1>5, <1>10, <2>1, <2>2, <2>4
  <2> QED
    BY <2>3, <2>4
<1> QED
  BY <1>7, <1>8, <1>9, <1>11, <1>12 DEF Orderly

----------------------------------------------------------------------------
(* The steps. *)

LEMMA StoreOrderly ==
    ASSUME TasksInv, NumberingInv, NEW p \in Proc, UNCHANGED store PROVE Orderly(p)
BY SamePlacement DEF store, Active, Exists

LEMMA ArchiveOrderly ==
    ASSUME TasksInv, NumberingInv, NEW p \in Proc, NEW S \in SUBSET TaskId,
           \A t \in S : Exists(t), SetStatus(S, "archived")
    PROVE  Orderly(p)
<1>1. \A t \in TaskId : /\ task'[t].column = task[t].column
                        /\ task'[t].parent = task[t].parent
                        /\ task'[t].number = task[t].number
                        /\ t \notin S => task'[t] = task[t]
                        /\ Exists(t)' => Exists(t)
  BY SetStatusKeeps
<1>2. \A t \in S : task'[t].status = "archived"
  BY DEF SetStatus, TasksInv, TypeOK, Task
<1>3. \A t \in TaskId : Active(t)' => Active(t)
  BY <1>1, <1>2 DEF Active
<1> QED
  BY <1>1, <1>3, SamePlacement

\* A transaction that is over, or has no placement to prepare.
LEMMA NothingToPrepare ==
    ASSUME NEW p \in Proc, txn'[p].kind \in Requests \cup {"idle"},
           \/ txn'[p].kind \in {"idle", "delete"}
           \/ txn'[p].kind = "create" /\ txn'[p].parent = None /\ txn'[p].step # "write"
    PROVE  Prepared(p)
BY DEF Prepared, IssuedInv, RelocationInv, AdoptionInv, RangeInv, Numbers

LEMMA EndPrepared == ASSUME TasksInv, NEW p \in Proc, End(p) PROVE Prepared(p)
<1>1. txn'[p].kind = "idle"
  BY DEF End, TasksInv, TypeOK, Idle, At
<1> QED
  BY <1>1, NothingToPrepare

LEMMA AdoptionBegins ==
    ASSUME TasksInv, NEW p \in Proc, NEW t \in TaskId, NEW q \in TaskId,
           NEW kind \in {"attach", "detach"}, LockForParentChange(p, kind, t, q),
           kind = "detach" => q = task[t].parent
    PROVE  Prepared(p)
<1>1. /\ txn'[p].kind = kind /\ txn'[p].step = "parent" /\ txn'[p].task = t /\ txn'[p].parent = q
      /\ kind \in Requests
  BY DEF LockForParentChange, Begin, At, TasksInv, TypeOK
<1>2. Active(t) /\ task' = task
  BY DEF LockForParentChange, store
<1> QED
  BY <1>1, <1>2 DEF Prepared, IssuedInv, RelocationInv, AdoptionInv, RangeInv, Active

LEMMA MoveBegins ==
    ASSUME TasksInv, NEW p \in Proc, NEW t \in TaskId, NEW c \in Column, StartMove(p, t, c)
    PROVE  Prepared(p)
<1>1. /\ txn'[p].kind = "move" /\ txn'[p].task = t /\ txn'[p].column = c /\ "move" \in Requests
      /\ txn'[p].tree = {t} /\ txn'[p].frontier = {t}
      /\ txn'[p].step = IF BoardOf[c] = BoardOfTask(t) THEN "write" ELSE "tree"
  BY DEF StartMove, Begin, At, TasksInv, TypeOK
<1>2. Active(t) /\ task' = task /\ (task[t].parent # None => BoardOf[c] = BoardOfTask(t))
  BY DEF StartMove, store
<1>3. RelocationInv(p)'
  BY <1>1, <1>2 DEF RelocationInv, Active, BoardOfTask, ActiveChildren
<1>4. RangeInv(p)'
  BY <1>1, <1>2 DEF RangeInv, Numbers, IsCrossProject, ProjectOfTask, ProjectAt, BoardOfTask
<1> QED
  BY <1>1, <1>3, <1>4 DEF Prepared, IssuedInv, AdoptionInv

LEMMA RequestPrepared ==
    ASSUME NothingSplits, TasksInv, NumberingInv, NEW p \in Proc, NewRequest(p)
    PROVE  Orderly(p) /\ Prepared(p)
<1>1. ASSUME NEW c \in Column, ReadColumn(p, c) PROVE Orderly(p) /\ Prepared(p)
  <2>1. UNCHANGED store
    BY <1>1 DEF ReadColumn
  <2>2. /\ txn'[p].kind = "create" /\ txn'[p].step = "number" /\ txn'[p].parent = None
        /\ "create" \in Requests
    BY <1>1 DEF ReadColumn, Begin, At, TasksInv, TypeOK
  <2> QED
    BY <2>1, <2>2, StoreOrderly, NothingToPrepare
<1>2. ASSUME NEW t \in TaskId, StartDelete(p, t) PROVE Orderly(p) /\ Prepared(p)
  <2>1. UNCHANGED store
    BY <1>2 DEF StartDelete
  <2>2. txn'[p].kind = "delete" /\ "delete" \in Requests
    BY <1>2 DEF StartDelete, Begin, At, TasksInv, TypeOK
  <2> QED
    BY <2>1, <2>2, StoreOrderly, NothingToPrepare
<1>3. ASSUME NEW t \in TaskId, StartDetach(p, t) PROVE Orderly(p) /\ Prepared(p)
  <2>1. task[t].parent \in TaskId
    BY <1>3 DEF StartDetach, TasksInv, TypeOK, Task
  <2>2. LockForParentChange(p, "detach", t, task[t].parent) /\ UNCHANGED store
    BY <1>3 DEF StartDetach, LockForParentChange
  <2> QED
    BY <2>1, <2>2, StoreOrderly, AdoptionBegins
<1>4. ASSUME NEW t \in TaskId, NEW q \in TaskId, StartAttach(p, t, q) PROVE Orderly(p) /\ Prepared(p)
  <2>1. LockForParentChange(p, "attach", t, q) /\ UNCHANGED store
    BY <1>4 DEF StartAttach, LockForParentChange
  <2> QED
    BY <2>1, StoreOrderly, AdoptionBegins
<1>5. ASSUME NEW t \in TaskId, NEW c \in Column, StartMove(p, t, c) PROVE Orderly(p) /\ Prepared(p)
  <2>1. UNCHANGED store
    BY <1>5 DEF StartMove
  <2> QED
    BY <1>5, <2>1, StoreOrderly, MoveBegins
<1>6. ASSUME NEW b \in Board, ArchiveBoard(p, b) PROVE Orderly(p) /\ Prepared(p)
  <2> DEFINE rows == {t \in TasksOn(b) : task[t].status = "active"}
  <2>1. /\ rows \in SUBSET TaskId /\ \A t \in rows : Exists(t)
        /\ SetStatus(rows, "archived") /\ txn' = txn /\ txn[p] = Idle
    BY <1>6 DEF ArchiveBoard, ChangeBoard, Begin, TasksOn
  <2> HIDE DEF rows
  <2>2. txn'[p].kind = "idle"
    BY <2>1 DEF Idle, At
  <2> QED
    BY <2>1, <2>2, ArchiveOrderly, NothingToPrepare
<1>7. \A t \in TaskId : ~ReadParent(p, t) /\ ~StartRestore(p, t)
  BY DEF ReadParent, StartRestore, Begin, NothingSplits
<1>8. \A b \in Board : ~RestoreBoard(p, b)
  BY DEF RestoreBoard, ChangeBoard, Begin, NothingSplits
<1> QED
  BY <1>1, <1>2, <1>3, <1>4, <1>5, <1>6, <1>7, <1>8 DEF NewRequest

\* The range begins above every number stored in the project.
LEMMA AllocatePrepared ==
    ASSUME TasksInv, NumberingInv, NEW p \in Proc, AllocateNumbers(p)
    PROVE  Orderly(p) /\ Prepared(p)
<1> DEFINE pr == ProjectAt(txn[p].column)
<1>1. /\ RunningInv(p) /\ txn[p] \in Txn /\ txn[p].step = "number"
      /\ IssuedInv(p) /\ RelocationInv(p)
  BY DEF TasksInv, TransactionInv, TypeOK, NumberingInv, AllocateNumbers
<1>2. txn[p].kind \in {"create", "subtask", "move"} /\ txn[p].column \in Column
  BY <1>1 DEF RunningInv, CreateInv, ParentInv, TreeInv, Txn, Kind
<1>3. PICK m \in 0 .. MaxNumber :
          /\ IsMaximum(m, {counter[pr]} \cup VisibleNumbers(p, pr))
          /\ txn' = [txn EXCEPT ![p].step = "write", ![p].first = m + 1]
  BY DEF AllocateNumbers
<1>4. UNCHANGED store /\ task' = task
  BY DEF AllocateNumbers, store
<1>5. /\ txn'[p].step = "write" /\ txn'[p].first = m + 1 /\ txn'[p].kind = txn[p].kind
      /\ txn'[p].task = txn[p].task /\ txn'[p].parent = txn[p].parent
      /\ txn'[p].column = txn[p].column /\ txn'[p].tree = txn[p].tree
      /\ txn'[p].frontier = txn[p].frontier
  BY <1>1, <1>3 DEF TasksInv, TypeOK, Txn
<1>6. RelocationInv(p)'
  BY <1>1, <1>4, <1>5 DEF RelocationInv, Active, BoardOfTask, ActiveChildren
<1>7. \A t \in TaskId : Exists(t) /\ ProjectOfTask(t) = pr => task[t].number < m + 1
  <2>1. \A t \in TaskId : Exists(t) /\ ProjectOfTask(t) = pr => task[t].number \in VisibleNumbers(p, pr)
    BY DEF VisibleNumbers, NumbersIn
  <2>2. \A n \in VisibleNumbers(p, pr) : n <= m
    BY <1>3 DEF IsMaximum
  <2>3. \A t \in TaskId : task[t].number \in Nat
    BY TasksAssumption DEF TasksInv, TypeOK, Task
  <2> HIDE DEF pr
  <2> QED
    BY <2>1, <2>2, <2>3, TasksAssumption
<1>8. RangeInv(p)'
  BY <1>4, <1>5, <1>7 DEF RangeInv, Exists, ProjectOfTask, ProjectAt
<1>9. IssuedInv(p)' /\ AdoptionInv(p)'
  BY <1>1, <1>2, <1>5 DEF IssuedInv, AdoptionInv
<1> QED
  BY <1>4, <1>6, <1>8, <1>9, StoreOrderly DEF Prepared

\* The parent is active and locked, on the board of the task.
LEMMA LockParentPrepared ==
    ASSUME TasksInv, NumberingInv, NEW p \in Proc, LockParent(p)
    PROVE  Orderly(p) /\ Prepared(p)
<1> DEFINE t == txn[p].task
           q == txn[p].parent
<1>1. /\ RunningInv(p) /\ txn[p] \in Txn /\ txn[p].step = "parent"
      /\ IssuedInv(p) /\ AdoptionInv(p)
  BY DEF TasksInv, TransactionInv, TypeOK, NumberingInv, LockParent
<1>2. txn[p].kind \in {"attach", "detach"}
  BY <1>1 DEF RunningInv, CreateInv, TreeInv, Txn, Kind
<1>3. t \in TaskId /\ q \in TaskId /\ Active(t) /\ Active(q)
  BY <1>1, <1>2 DEF RunningInv, ParentInv, AdoptionInv, LockParent
<1>4. UNCHANGED store /\ task' = task /\ rowLock'[q] = p
  BY <1>3 DEF LockParent, LockRows, store
<1>5. /\ txn'[p].step = "write" /\ txn'[p].kind = txn[p].kind
      /\ txn'[p].task = t /\ txn'[p].parent = q
      /\ txn'[p].column = IF txn[p].kind = "detach" THEN task[q].column ELSE None
  BY <1>1 DEF LockParent, TasksInv, TypeOK, Txn
<1>6. BoardOfTask(q) = BoardOfTask(t)
  <2>1. CASE txn[p].kind = "attach"
    BY <2>1 DEF LockParent
  <2>2. CASE txn[p].kind = "detach"
    <3>1. task[t].parent = q /\ q # None
      BY <1>1, <1>3, <2>2, TasksAssumption DEF AdoptionInv
    <3> QED
      BY <1>3, <3>1 DEF NumberingInv, OneBoardHierarchy
  <2> QED
    BY <1>2, <2>1, <2>2
<1> HIDE DEF t, q
<1>7. AdoptionInv(p)'
  <2>1. txn[p].kind = "detach" => q = task[t].parent
    BY <1>1 DEF AdoptionInv, t, q
  <2> QED
    BY <1>2, <1>3, <1>4, <1>5, <1>6, <2>1 DEF AdoptionInv, Active, BoardOfTask
<1>8. IssuedInv(p)' /\ RelocationInv(p)' /\ RangeInv(p)'
  BY <1>1, <1>2, <1>5 DEF IssuedInv, RelocationInv, RangeInv, Numbers
<1> QED
  BY <1>4, <1>7, <1>8, StoreOrderly DEF Prepared

\* A level of active children, on the board of the level above.
LEMMA GrowPrepared ==
    ASSUME NothingSplits, TasksInv, NumberingInv, NEW p \in Proc, GrowTree(p)
    PROVE  Orderly(p) /\ Prepared(p)
<1> DEFINE root == txn[p].task
           tree == txn[p].tree
           frontier == txn[p].frontier
           level == Children(p, frontier)
<1>1. /\ RunningInv(p) /\ txn[p] \in Txn /\ txn[p].step = "tree"
      /\ IssuedInv(p) /\ RelocationInv(p)
  BY DEF TasksInv, TransactionInv, TypeOK, NumberingInv, GrowTree
<1>2. txn[p].kind \in {"move", "delete"}
  BY <1>1 DEF RunningInv, CreateInv, ParentInv, Txn, Kind, IssuedInv, NothingSplits
<1>3. UNCHANGED store /\ task' = task
  BY DEF GrowTree, store
<1>4. /\ txn'[p].kind = txn[p].kind /\ txn'[p].task = root /\ txn'[p].column = txn[p].column
      /\ txn'[p].tree = tree \cup level /\ txn'[p].frontier = level
      /\ txn'[p].step = IF level = {} THEN AfterTree(p) ELSE "tree"
  BY <1>1 DEF GrowTree, TasksInv, TypeOK, Txn
<1>5. CASE txn[p].kind = "delete"
  BY <1>1, <1>3, <1>4, <1>5, StoreOrderly, NothingToPrepare DEF IssuedInv
<1>6. CASE txn[p].kind = "move"
  <2>1. /\ tree \in SUBSET TaskId /\ root \in tree /\ level = ActiveChildren(frontier)
        /\ level \in SUBSET TaskId
    BY <1>1, <1>6 DEF RunningInv, TreeInv, Txn, Children, ActiveChildren
  <2>2. AfterTree(p) # "tree" /\ (AfterTree(p) = "write" => ~IsCrossProject(p))
    BY <1>6 DEF AfterTree
  <2> HIDE DEF root, tree, frontier, level
  <2>3. /\ task[root].parent = None /\ BoardOf[txn[p].column] # BoardOfTask(root)
        /\ \A t \in tree : Active(t) /\ BoardOfTask(t) = BoardOfTask(root)
        /\ \A t \in tree \ {root} : task[t].parent \in tree
        /\ frontier \subseteq tree
        /\ ActiveChildren(tree \ frontier) \subseteq tree
    BY <1>1, <1>6 DEF RelocationInv, root, tree, frontier
  <2>4. \A t \in level : Active(t) /\ task[t].parent \in tree /\ BoardOfTask(t) = BoardOfTask(root)
    BY <2>1, <2>3, TasksAssumption DEF ActiveChildren, NumberingInv, OneBoardHierarchy
  <2>5. \A u \in TaskId : Active(u) /\ task[u].parent \in (tree \cup level) \ level => u \in tree \cup level
    BY <2>1, <2>3 DEF ActiveChildren
  <2>6. level = {} => \A u \in TaskId : Active(u) /\ task[u].parent \in tree => u \in tree
    BY <2>1, <2>3 DEF ActiveChildren
  <2>7. RelocationInv(p)'
    <3>1. txn'[p].step # "tree" => level = {}
      BY <1>4
    <3> QED
      BY <1>3, <1>4, <2>1, <2>3, <2>4, <2>5, <2>6, <3>1
      DEF RelocationInv, Active, BoardOfTask, ActiveChildren
  <2>8. RangeInv(p)'
    BY <1>1, <1>3, <1>4, <1>6, <2>2 DEF RangeInv, Numbers, IsCrossProject, ProjectOfTask, root
  <2>9. IssuedInv(p)' /\ AdoptionInv(p)'
    BY <1>1, <1>4, <1>6 DEF IssuedInv, AdoptionInv
  <2> QED
    BY <1>3, <2>7, <2>8, <2>9, StoreOrderly DEF Prepared
<1> QED
  BY <1>2, <1>5, <1>6

LEMMA NumberingStep ==
    ASSUME NothingSplits, TasksInv, NumberingInv, NEW p \in Proc,
           NewRequest(p) \/ CreateStep(p) \/ ParentStep(p) \/ TreeStep(p) \/ Rollback(p)
    PROVE  Orderly(p) /\ Prepared(p)
<1>1. txn[p].kind \notin {"subtask", "restore"}
  BY DEF NumberingInv, IssuedInv, NothingSplits
<1>2. CASE NewRequest(p)
  BY <1>2, RequestPrepared
<1>3. CASE CreateStep(p)
  <2>1. InsertTask(p) => End(p)
    BY DEF InsertTask
  <2> QED
    BY <1>1, <1>3, <2>1, AllocatePrepared, InsertOrderly, EndPrepared DEF CreateStep
<1>4. CASE ParentStep(p)
  <2>1. CommitAttach(p) \/ CommitDetach(p) => End(p)
    BY DEF CommitAttach, CommitDetach
  <2> QED
    BY <1>4, <2>1, LockParentPrepared, AttachOrderly, DetachOrderly, EndPrepared DEF ParentStep
<1>5. CASE TreeStep(p)
  <2>1. CASE GrowTree(p)
    BY <2>1, GrowPrepared
  <2>2. CASE CommitMove(p)
    <3>1. End(p)
      BY <2>2 DEF CommitMove
    <3> QED
      BY <2>2, <3>1, MoveOrderly, EndPrepared
  <2>3. CASE CommitDelete(p)
    <3>1. /\ End(p) /\ SetStatus(txn[p].tree, "archived")
          /\ txn[p].tree \in SUBSET TaskId /\ \A t \in txn[p].tree : Exists(t)
      BY <2>3 DEF CommitDelete, TasksInv, TypeOK, Txn, TransactionInv, RunningInv, TreeInv
    <3> QED
      BY <3>1, ArchiveOrderly, EndPrepared
  <2>4. ~CommitRestore(p)
    BY <1>1 DEF CommitRestore
  <2> QED
    BY <1>5, <2>1, <2>2, <2>3, <2>4 DEF TreeStep
<1>6. CASE Rollback(p)
  BY <1>6, StoreOrderly, EndPrepared DEF Rollback
<1> QED
  BY <1>2, <1>3, <1>4, <1>5, <1>6

LEMMA NumberingInit == Init => NumberingInv
<1> SUFFICES ASSUME Init PROVE NumberingInv
  OBVIOUS
<1>1. PICK place \in [Legacy -> Column], number \in [Legacy -> LegacyNumber] :
         /\ \A t, u \in Legacy :
               t # u /\ ProjectAt(place[t]) = ProjectAt(place[u]) => number[t] # number[u]
         /\ task = [t \in TaskId |-> IF t \in Legacy
                                     THEN [status |-> "active", parent |-> None,
                                           column |-> place[t], number |-> number[t]]
                                     ELSE Absent]
  BY DEF Init
<1>2. \A t \in TaskId : /\ task[t].parent = None
                        /\ Exists(t) => /\ t \in Legacy
                                        /\ task[t].column = place[t] /\ task[t].number = number[t]
  BY <1>1 DEF Absent, Exists
<1>3. OneBoardHierarchy
  BY <1>2 DEF OneBoardHierarchy
<1>4. UniqueNumbers
  BY <1>1, <1>2 DEF UniqueNumbers, ProjectOfTask
<1>5. \A p \in Proc : txn[p].kind = "idle"
  BY DEF Init, Idle, At
<1>6. \A p \in Proc : IssuedInv(p) /\ RelocationInv(p) /\ AdoptionInv(p) /\ RangeInv(p)
  BY <1>5 DEF IssuedInv, RelocationInv, AdoptionInv, RangeInv, Numbers
<1> QED
  BY <1>3, <1>4, <1>6 DEF NumberingInv

LEMMA NumberingNext ==
    ASSUME NothingSplits PROVE TasksInv /\ NumberingInv /\ [Next]_vars => NumberingInv'
<1> SUFFICES ASSUME TasksInv, NumberingInv, [Next]_vars PROVE NumberingInv'
  OBVIOUS
<1>1. CASE Next
  <2>1. PICK p \in Proc : NewRequest(p) \/ CreateStep(p) \/ ParentStep(p) \/ TreeStep(p) \/ Rollback(p)
    BY <1>1 DEF Next
  <2>2. Orderly(p) /\ Prepared(p) /\ Frame(p)
    BY <2>1, NumberingStep, StepKeeps DEF Keeps
  <2>3. \A q \in Proc \ {p} : Prepared(q)
    BY <2>2, OthersPrepared DEF Orderly
  <2> QED
    BY <2>2, <2>3 DEF Orderly, Prepared, NumberingInv
<1>2. CASE UNCHANGED vars
  BY <1>2 DEF vars, NumberingInv, OneBoardHierarchy, UniqueNumbers, IssuedInv, RelocationInv,
     AdoptionInv, RangeInv, Numbers, IsCrossProject, ActiveChildren, Active, Exists, BoardOfTask,
     ProjectOfTask, ProjectAt
<1> QED
  BY <1>1, <1>2

\* While clients send no createSubtask and no restore, what a relocation has locked is the
\* whole active hierarchy of one board, and reserved ranges lie above the stored numbers.
THEOREM NumberingHolds == ASSUME NothingSplits PROVE Spec => []NumberingInv
<1>1. []TasksInv /\ NumberingInv /\ [][Next]_vars => []NumberingInv
  BY NumberingNext, PTL
<1> QED
  BY <1>1, NumberingInit, LocksCoverWrites, PTL DEF Spec

\* Then no two tasks of a project, archived ones included, carry one number.
THEOREM NumbersUnique == ASSUME NothingSplits PROVE Spec => []UniqueNumbers
<1>1. NumberingInv => UniqueNumbers
  BY DEF NumberingInv
<1> QED
  BY <1>1, NumberingHolds, PTL

\* And an active subtask stays on the board of its active parent.
THEOREM HierarchiesTogether == ASSUME NothingSplits PROVE Spec => []OneBoardHierarchy
<1>1. NumberingInv => OneBoardHierarchy
  BY DEF NumberingInv
<1> QED
  BY <1>1, NumberingHolds, PTL

\* When a task changes its board in such a system, its active subtasks arrive with it.
THEOREM RelocationsWhole == ASSUME NothingSplits PROVE Spec => MoveTakesActiveSubtasks
<1> DEFINE Together == \A t, u \in TaskId :
                          Active(t) /\ Active(u) /\ task[u].parent = t
                             => \/ BoardOf[task'[t].column] = BoardOfTask(t)
                                \/ task'[u].column = task'[t].column
<1>1. TasksInv /\ NumberingInv /\ [Next]_vars => [Together]_vars
  <2> SUFFICES ASSUME TasksInv, NumberingInv, Next PROVE Together
    OBVIOUS
  <2>1. PICK p \in Proc : NewRequest(p) \/ CreateStep(p) \/ ParentStep(p) \/ TreeStep(p) \/ Rollback(p)
    BY DEF Next
  <2>2. CASE ~Placed(p)
    BY <2>1, <2>2, PlacementKept DEF BoardOfTask
  <2>3. CASE InsertTask(p)
    BY <2>3, InsertEffect DEF BoardOfTask, Active, Exists
  <2>4. CASE CommitAttach(p)
    BY <2>4 DEF CommitAttach, TasksInv, TypeOK, Task, BoardOfTask
  <2>5. CASE CommitDetach(p)
    BY <2>5, DetachOrderly
  <2>6. CASE CommitMove(p)
    BY <2>6, MoveOrderly
  <2> QED
    BY <2>2, <2>3, <2>4, <2>5, <2>6 DEF Placed
<1>2. []TasksInv /\ []NumberingInv /\ [][Next]_vars => [][Together]_vars
  BY <1>1, PTL
<1> QED
  BY <1>2, NumberingHolds, LocksCoverWrites, PTL DEF Spec, MoveTakesActiveSubtasks
=============================================================================
