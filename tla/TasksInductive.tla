--------------------------- MODULE TasksInductive ---------------------------
(***************************************************************************)
(* The inductive strengthenings behind the theorems of TasksProofs: what   *)
(* the locks and the remembered reads of a running transaction say about   *)
(* the committed tables.  TLC checks them on the small instances.          *)
(***************************************************************************)
EXTENDS Tasks

\* Transactions that number tasks when they commit.
Numbers(p) ==
    \/ txn[p].kind \in {"create", "subtask"}
    \/ txn[p].kind = "move" /\ IsCrossProject(p)

\* The largest number such a transaction hands out.
LastNumber(p) == txn[p].first + NumbersNeeded(p) - 1

CreateInv(p) ==
    txn[p].kind \in {"create", "subtask"} =>
        /\ txn[p].step \in {"number", "write"}
        /\ txn[p].column \in Column
        /\ txn[p].parent # None => Exists(txn[p].parent)

ParentInv(p) ==
    txn[p].kind \in {"attach", "detach"} =>
        /\ txn[p].step \in {"parent", "write"}
        /\ txn[p].task \in TaskId
        /\ txn[p].parent \in TaskId
        /\ Exists(txn[p].task) /\ rowLock[txn[p].task] = p
        /\ txn[p].kind = "attach" => txn[p].parent # txn[p].task
        /\ txn[p].kind = "detach" /\ txn[p].step = "write" => txn[p].column \in Column
        /\ txn[p].kind = "attach" /\ txn[p].step = "write" =>
              /\ Exists(txn[p].parent) /\ rowLock[txn[p].parent] = p
              /\ task[txn[p].parent].parent = None

TreeInv(p) ==
    txn[p].kind \in {"move", "delete", "restore"} =>
        /\ txn[p].step \in {"tree", "number", "write"}
        /\ txn[p].step = "number" => txn[p].kind = "move"
        /\ txn[p].task \in txn[p].tree
        /\ \A t \in txn[p].tree : Exists(t)
        /\ txn[p].kind = "move" => txn[p].column \in Column
        /\ txn[p].kind # "delete" => \A t \in txn[p].tree : rowLock[t] = p

\* A reserved range lies above the counter of the project, which is locked.
NumberInv(p) ==
    txn[p].step = "write" /\ Numbers(p) =>
        /\ projectLock[ProjectAt(txn[p].column)] = p
        /\ counter[ProjectAt(txn[p].column)] < txn[p].first
        /\ LastNumber(p) <= MaxNumber

RunningInv(p) ==
    /\ txn[p].kind = "idle" <=> txn[p].step = "idle"
    /\ CreateInv(p) /\ ParentInv(p) /\ TreeInv(p) /\ NumberInv(p)

TransactionInv == \A p \in Proc : RunningInv(p)

\* The foreign key on parent_task_id.
ParentsStored == \A t \in TaskId : task[t].parent # None => Exists(task[t].parent)

\* Every conjunct the type, numbering and acyclicity theorems rest on: locks and
\* remembered reads of running transactions agree with the tables.
TasksInv == TypeOK /\ TransactionInv /\ ParentsStored

----------------------------------------------------------------------------
(* Without createSubtask and the two restores nothing splits a hierarchy. *)

NothingSplits == Requests \cap {"subtask", "restore", "restoreBoard"} = {}

\* Only what clients issue runs; create gives no parent.
IssuedInv(p) ==
    /\ txn[p].kind \in Requests \cup {"idle"}
    /\ txn[p].kind = "create" => txn[p].parent = None

\* What a relocation has locked so far: active tasks of one board; every active
\* child of a level already read is among them.
RelocationInv(p) ==
    txn[p].kind = "move" =>
        /\ \A t \in txn[p].tree : Active(t) /\ BoardOfTask(t) = BoardOfTask(txn[p].task)
        /\ txn[p].step # "write" => BoardOf[txn[p].column] # BoardOfTask(txn[p].task)
        /\ BoardOf[txn[p].column] # BoardOfTask(txn[p].task) =>
              /\ task[txn[p].task].parent = None
              /\ \A t \in txn[p].tree \ {txn[p].task} : task[t].parent \in txn[p].tree
              /\ txn[p].frontier \subseteq txn[p].tree
              /\ txn[p].step = "tree" => ActiveChildren(txn[p].tree \ txn[p].frontier) \subseteq txn[p].tree
              /\ txn[p].step # "tree" => ActiveChildren(txn[p].tree) \subseteq txn[p].tree

AdoptionInv(p) ==
    txn[p].kind \in {"attach", "detach"} =>
        /\ Active(txn[p].task)
        /\ txn[p].kind = "detach" => txn[p].parent = task[txn[p].task].parent
        /\ txn[p].step = "write" =>
              /\ Active(txn[p].parent) /\ rowLock[txn[p].parent] = p
              /\ BoardOfTask(txn[p].parent) = BoardOfTask(txn[p].task)
              /\ txn[p].kind = "detach" => txn[p].column = task[txn[p].parent].column

\* No stored number of the project reaches the reserved range.
RangeInv(p) ==
    txn[p].step = "write" /\ Numbers(p) =>
        \A t \in TaskId :
            Exists(t) /\ ProjectOfTask(t) = ProjectAt(txn[p].column) => task[t].number < txn[p].first

\* Every conjunct the uniqueness theorem rests on: hierarchies stay on one board
\* and reserved ranges stay above the stored numbers.
NumberingInv ==
    /\ OneBoardHierarchy
    /\ UniqueNumbers
    /\ \A p \in Proc : IssuedInv(p) /\ RelocationInv(p) /\ AdoptionInv(p) /\ RangeInv(p)
=============================================================================
