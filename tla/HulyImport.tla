------------------------------ MODULE HulyImport ------------------------------
(***************************************************************************)
(* The import of a Huly board (import-huly-board.script.ts): columns are    *)
(* reused by position or created, root tasks follow in reverse order, each    *)
(* in a transaction of its own, and subtasks in passes over those whose      *)
(* parent has a row by now.  One failed task is reported and left out; the    *)
(* service works on, and users create and archive tasks on the same board.    *)
(***************************************************************************)
EXTENDS Naturals, Sequences, FiniteSets, SequencesExt

CONSTANTS
    Issue,         \* the issues of the Huly board, by their rank
    Above,         \* their parents: an issue, 0 for a root, or one outside of the snapshot
    StatusOf,      \* the position of the status of each
    Statuses,      \* how many statuses the board has
    FirstColumns,  \* the columns the Board board has before
    FirstNumbers,  \* the numbers of its tasks before, archived ones included
    FirstCounter,  \* task_counter of the project
    MaxTasks       \* bound: tasks on the board

ASSUME HulyImportAssumption ==
    /\ Issue \subseteq Nat \ {0} /\ IsFiniteSet(Issue) /\ Statuses \in Nat \ {0} /\ FirstColumns \in Nat
    /\ FirstNumbers \subseteq Nat \ {0} /\ IsFiniteSet(FirstNumbers) /\ FirstCounter \in Nat /\ MaxTasks \in Nat
    /\ DOMAIN Above = Issue /\ StatusOf \in [Issue -> 1..Statuses]

VARIABLES
    import,       \* the run of the script
    columnRows,   \* the columns of the board: [order], by id, in the order they were read
    taskRows,     \* the tasks of the project: [number, column, parent, issue, live], by id
    counterRow    \* the project row: [lock, count]

hulyVars == <<import, columnRows, taskRows, counterRow>>

TaskIds == DOMAIN taskRows
ImportGoes(step, new) == import' = [new EXCEPT !.step = step]
ImportIs(step) == import.step = step

\* By rank.
Ranked(S) == CHOOSE s \in SetToSeqs(S) : \A j, k \in DOMAIN s : j < k => s[j] < s[k]
Roots(status) == Ranked({i \in Issue : StatusOf[i] = status /\ Above[i] = 0})
Subtasks == Ranked({i \in Issue : Above[i] # 0})

----------------------------------------------------------------------------
(* ensureTargetColumns. *)

StartImport ==
    /\ ImportIs("idle")
    /\ \E dry \in BOOLEAN : ImportGoes("columns", [import EXCEPT !.dry = dry])
    /\ UNCHANGED <<columnRows, taskRows, counterRow>>

\* A missing column is created at the end; the dry run only builds it.
CreateColumn ==
    LET next == Len(import.columns) + 1
    IN  /\ ImportIs("columns") /\ next <= Statuses
        /\ \/ /\ next <= FirstColumns \/ import.dry
              /\ ImportGoes("columns", [import EXCEPT !.columns = Append(@, next)])
              /\ UNCHANGED columnRows
           \/ /\ next > FirstColumns /\ ~ import.dry
              /\ columnRows' = Append(columnRows, next - 1)
              /\ ImportGoes("columns", [import EXCEPT !.columns = Append(@, Len(columnRows) + 1)])
           \/ /\ next > FirstColumns /\ ~ import.dry   \* the INSERT fails: so does the script
              /\ ImportGoes("failed", import) /\ UNCHANGED columnRows
        /\ UNCHANGED <<taskRows, counterRow>>

\* The orders of all columns are saved one by one; then come the roots of the first status.
SaveColumnOrders ==
    LET mapped == import.columns
        all == mapped \o Ranked({c \in 1..FirstColumns : c > Len(mapped)})
    IN  /\ ImportIs("columns") /\ Len(mapped) = Statuses
        /\ \E saved \in IF import.dry THEN {0} ELSE 0..Len(all) :
              /\ columnRows' = [c \in DOMAIN columnRows |->
                                  IF \E k \in 1..saved : all[k] = c
                                  THEN (CHOOSE k \in 1..saved : all[k] = c) - 1
                                  ELSE columnRows[c]]
              /\ IF import.dry \/ saved = Len(all)
                 THEN ImportGoes("roots", [import EXCEPT !.status = 1, !.todo = Reverse(Roots(1))])
                 ELSE ImportGoes("failed", import)
        /\ UNCHANGED <<taskRows, counterRow>>

----------------------------------------------------------------------------
(* Roots: createTopLevelTask. *)

NextStatus ==
    /\ ImportIs("roots") /\ import.todo = <<>>
    /\ IF import.status < Statuses
       THEN ImportGoes("roots", [import EXCEPT !.status = @ + 1,
                                         !.todo = Reverse(Roots(import.status + 1))])
       ELSE ImportGoes("pass", [import EXCEPT !.todo = Subtasks, !.at = Len(Subtasks),
                                        !.progress = FALSE])
    /\ UNCHANGED <<columnRows, taskRows, counterRow>>

\* The dry run gives each issue a negative id: all that matters is that it has one.
DryRoot ==
    /\ ImportIs("roots") /\ import.todo # <<>> /\ import.dry
    /\ ImportGoes("roots", [import EXCEPT !.todo = Tail(@), !.rows[Head(import.todo)] = {0}])
    /\ UNCHANGED <<columnRows, taskRows, counterRow>>

BeginRoot ==
    /\ ImportIs("roots") /\ import.todo # <<>> /\ ~ import.dry
    /\ ImportGoes("reserve", [import EXCEPT !.issue = Head(import.todo), !.parent = 0,
                                      !.column = import.columns[import.status]])
    /\ UNCHANGED <<columnRows, taskRows, counterRow>>

\* reserveNextTaskNumber: behind the row lock of the project; numbers of archived tasks
\* and a counter that is behind them count.
NextNumber ==
    LET used == {counterRow.count} \cup {taskRows[t].number : t \in TaskIds}
    IN  (CHOOSE n \in used : \A k \in used : k <= n) + 1

\* Mutant of ReserveNumber: the project row is read without a lock.
ReserveWithoutLock ==
    /\ ImportIs("reserve") /\ Len(taskRows) < MaxTasks
    /\ ImportGoes("insert", [import EXCEPT !.number = NextNumber])
    /\ UNCHANGED <<columnRows, taskRows, counterRow>>

ReserveNumber ==
    /\ ImportIs("reserve") /\ Len(taskRows) < MaxTasks /\ counterRow.lock = "none"
    /\ counterRow' = [counterRow EXCEPT !.lock = "import"]
    /\ ImportGoes("insert", [import EXCEPT !.number = NextNumber])
    /\ UNCHANGED <<columnRows, taskRows>>

\* The counter, the task and, for a root, the shifted orders are committed together.
InsertTask ==
    /\ ImportIs("insert")
    /\ counterRow' = [lock |-> "none", count |-> import.number]
    /\ taskRows' = Append(taskRows, [number |-> import.number, column |-> import.column,
                                     parent |-> import.parent, issue |-> import.issue,
                                     live |-> TRUE])
    /\ ImportGoes(IF import.parent = 0 THEN "roots" ELSE "pass",
            [import EXCEPT !.rows[import.issue] = {Len(taskRows) + 1},
                           !.todo = IF import.parent = 0 THEN Tail(@) ELSE RemoveAt(@, import.at),
                           !.at = IF import.parent = 0 THEN @ ELSE @ - 1,
                           !.progress = import.parent # 0])
    /\ UNCHANGED columnRows

\* Mutant of TaskFails: a failed subtask stays among the pending ones.
TaskFailsAndStays ==
    /\ import.step \in {"reserve", "insert"}
    /\ counterRow' = IF ImportIs("insert") THEN [counterRow EXCEPT !.lock = "none"] ELSE counterRow
    /\ ImportGoes(IF import.parent = 0 THEN "roots" ELSE "pass",
            [import EXCEPT !.errors = @ \o <<import.issue>>,
                           !.todo = IF import.parent = 0 THEN Tail(@) ELSE @,
                           !.at = IF import.parent = 0 THEN @ ELSE @ - 1,
                           !.progress = import.parent # 0])
    /\ UNCHANGED <<columnRows, taskRows>>

\* A statement fails: the transaction is rolled back and the task reported.
TaskFails ==
    /\ import.step \in {"reserve", "insert"}
    /\ counterRow' = IF ImportIs("insert") THEN [counterRow EXCEPT !.lock = "none"] ELSE counterRow
    /\ ImportGoes(IF import.parent = 0 THEN "roots" ELSE "pass",
            [import EXCEPT !.errors = @ \o <<import.issue>>,
                           !.todo = IF import.parent = 0 THEN Tail(@) ELSE RemoveAt(@, import.at),
                           !.at = IF import.parent = 0 THEN @ ELSE @ - 1,
                           !.progress = import.parent # 0])
    /\ UNCHANGED <<columnRows, taskRows>>

----------------------------------------------------------------------------
(* Subtasks: passes from the last pending one to the first, while one is gone. *)

ParentHasRow(i) == IF Above[i] \in Issue THEN import.rows[Above[i]] # {} ELSE FALSE

\* One whose parent has no row yet waits for another pass.
SkipForNow ==
    /\ ImportIs("pass") /\ import.at > 0
    /\ ~ ParentHasRow(import.todo[import.at])
    /\ ImportGoes("pass", [import EXCEPT !.at = @ - 1])
    /\ UNCHANGED <<columnRows, taskRows, counterRow>>

\* The parent is read without a lock: archived by now, it is an error; the subtask goes to
\* the parent's column.
BeginSubtask ==
    /\ ImportIs("pass") /\ import.at > 0
    /\ LET i == import.todo[import.at]
       IN  /\ ParentHasRow(i)
           /\ \E p \in import.rows[Above[i]] :
                 IF import.dry
                 THEN ImportGoes("pass", [import EXCEPT !.rows[i] = {0}, !.progress = TRUE,
                                                  !.todo = RemoveAt(@, import.at), !.at = @ - 1])
                 ELSE IF taskRows[p].live
                 THEN ImportGoes("reserve", [import EXCEPT !.issue = i, !.parent = p,
                                                     !.column = taskRows[p].column])
                 ELSE ImportGoes("pass", [import EXCEPT !.errors = @ \o <<i>>, !.progress = TRUE,
                                                  !.todo = RemoveAt(@, import.at), !.at = @ - 1])
    /\ UNCHANGED <<columnRows, taskRows, counterRow>>

\* Those that still wait after a pass without progress are reported as skipped.
EndPass ==
    /\ ImportIs("pass") /\ import.at = 0
    /\ IF import.todo # <<>> /\ import.progress
       THEN ImportGoes("pass", [import EXCEPT !.at = Len(import.todo), !.progress = FALSE])
       ELSE ImportGoes("done", [import EXCEPT !.skipped = import.todo])
    /\ UNCHANGED <<columnRows, taskRows, counterRow>>

----------------------------------------------------------------------------
(* Users of the board meanwhile (tasks.service.ts). *)

\* create: lock, maximum, insert and commit; the lock makes them one step here.
UserCreates ==
    /\ counterRow.lock = "none" /\ Len(taskRows) < MaxTasks
    /\ counterRow' = [counterRow EXCEPT !.count = NextNumber]
    /\ taskRows' = Append(taskRows, [number |-> NextNumber, column |-> 1, parent |-> 0,
                                     issue |-> 0, live |-> TRUE])
    /\ UNCHANGED <<import, columnRows>>

\* delete: with the active subtasks.
UserArchives ==
    /\ \E t \in TaskIds :
          /\ taskRows[t].live /\ taskRows[t].parent = 0
          /\ taskRows' = [s \in TaskIds |->
                            IF s = t \/ taskRows[s].parent = t
                            THEN [taskRows[s] EXCEPT !.live = FALSE] ELSE taskRows[s]]
    /\ UNCHANGED <<import, columnRows, counterRow>>

HulyInit ==
    /\ import = [step |-> "idle", dry |-> FALSE, columns |-> <<>>, status |-> 0, todo |-> <<>>,
                 rows |-> [i \in Issue |-> {}], issue |-> 0, parent |-> 0, column |-> 0,
                 number |-> 0, at |-> 0, progress |-> FALSE, errors |-> <<>>, skipped |-> <<>>]
    /\ columnRows = [c \in 1..FirstColumns |-> c - 1]
    /\ taskRows = [k \in 1..Cardinality(FirstNumbers) |->
                     [number |-> Ranked(FirstNumbers)[k],
                      column |-> 1, parent |-> 0, issue |-> 0, live |-> FALSE]]
    /\ counterRow = [lock |-> "none", count |-> FirstCounter]

HulyNext ==
    \/ StartImport \/ CreateColumn \/ SaveColumnOrders
    \/ NextStatus \/ DryRoot \/ BeginRoot \/ ReserveNumber \/ InsertTask \/ TaskFails
    \/ SkipForNow \/ BeginSubtask \/ EndPass
    \/ UserCreates \/ UserArchives

HulySpec == HulyInit /\ [][HulyNext]_hulyVars

----------------------------------------------------------------------------
(* Properties. *)

Mentions(s, i) == Cardinality({k \in DOMAIN s : s[k] = i})
RowsOf(i) == {t \in TaskIds : taskRows[t].issue = i}

\* What the summary of the script says is what became of the board: each issue has one row
\* under the row of its own parent, or is reported once as failed or skipped, and no number
\* is given twice in the project, whatever users do meanwhile.  A dry run writes nothing
\* and skips exactly the issues whose parents it has not counted.
ImportIsAccountedFor ==
    /\ \A s, t \in TaskIds : s # t => taskRows[s].number # taskRows[t].number
    /\ \A i \in Issue : \A t \in RowsOf(i) :
          IF Above[i] = 0 THEN taskRows[t].parent = 0
          ELSE Above[i] \in Issue /\ taskRows[t].parent \in RowsOf(Above[i])
    /\ ImportIs("done") =>
          \A i \in Issue : Mentions(import.errors, i) + Mentions(import.skipped, i)
                             + Cardinality(import.rows[i]) = 1
    /\ ImportIs("done") /\ ~ import.dry =>
          \A i \in Issue : RowsOf(i) = import.rows[i]
    /\ import.dry => \A i \in Issue : RowsOf(i) = {}
    /\ ImportIs("done") /\ import.dry =>
          \A i \in Issue : import.rows[i] = {} <=> Above[i] # 0 /\ ~ ParentHasRow(i)
===============================================================================
