----------------------------- MODULE TimeEntries -----------------------------
(***************************************************************************)
(* Time spent on tasks (tasks.service.ts: createTimeEntry, getTimeEntries,    *)
(* getTimeReport; time-report-permission.guard.ts).  An entry takes its id     *)
(* when it is inserted and is seen when its transaction commits; a reader       *)
(* goes from page to page by the last id it was given, in requests of their   *)
(* own, while entries are added and access to projects comes and goes.       *)
(***************************************************************************)
EXTENDS Naturals, Sequences, FiniteSets, SequencesExt

CONSTANTS
    Work,         \* the tasks
    ProjectOf,         \* the project of each
    Homes,        \* the projects
    Limit,        \* entries on a page
    MaxEntries,   \* bound: entries
    MaxTurns      \* bound: changes of the reader's access

ASSUME TimeEntriesAssumption ==
    /\ ProjectOf \in [Work -> Homes] /\ Limit \in Nat \ {0} /\ MaxEntries \in Nat /\ MaxTurns \in Nat

VARIABLES
    entries,    \* the entries by their ids: [task, seen]; seen once committed
    open,       \* the projects the reader may read now
    may,        \* whether ERP gives the reader the rights of the report now
    pages,      \* the reading: step, kind, task, cursor, what it got
    steady,     \* entries seen when the reading began and readable ever since
    turns

timeVars == <<entries, open, may, pages, steady, turns>>

Ids == DOMAIN entries
NoPages == [step |-> "idle", kind |-> "report", task |-> CHOOSE t \in Work : TRUE,
            before |-> 0, got |-> <<>>]

\* The inserting transaction has not committed yet.
InsertTimeEntry ==
    /\ Len(entries) < MaxEntries
    /\ \E t \in Work : entries' = Append(entries, [task |-> t, seen |-> FALSE])
    /\ UNCHANGED <<open, may, pages, steady, turns>>

\* Commits come in any order; an entry that never commits leaves a hole.
CommitTimeEntry ==
    /\ \E e \in Ids : entries' = [entries EXCEPT ![e].seen = TRUE]
    /\ UNCHANGED <<open, may, pages, steady, turns>>

\* Membership, the archive of a project, and the roles of ERP.
AccessTurns ==
    /\ turns < MaxTurns /\ turns' = turns + 1
    /\ \/ \E h \in Homes : /\ open' = IF h \in open THEN open \ {h} ELSE open \cup {h}
                           /\ steady' = {e \in steady : ProjectOf[entries[e].task] \in open'}
                           /\ may' = may
       \/ may' = ~ may /\ UNCHANGED <<open, steady>>
    /\ UNCHANGED <<entries, pages>>

StartReading ==
    /\ pages.step = "idle"
    /\ \E kind \in {"report", "task"}, t \in Work :
          pages' = [NoPages EXCEPT !.step = "page", !.kind = kind, !.task = t]
    /\ steady' = {e \in Ids : entries[e].seen /\ ProjectOf[entries[e].task] \in open}
    /\ UNCHANGED <<entries, open, may, turns>>

\* Only those of one task, or of all readable projects, and below the cursor.
Below(kind, task, before) ==
    {e \in Ids : /\ entries[e].seen /\ ProjectOf[entries[e].task] \in open
                 /\ kind = "task" => entries[e].task = task
                 /\ before # 0 => e < before}

Down(ids) == CHOOSE s \in SetToSeqs(ids) : \A i, j \in DOMAIN s : i < j => s[i] > s[j]
FirstOf(s, n) == SubSeq(s, 1, IF Len(s) < n THEN Len(s) ELSE n)

\* Mutant of ReadEntries: the cursor is the row beyond the page, which is never shown.
ReadEntriesBeyond ==
    LET records == FirstOf(Down(Below(pages.kind, pages.task, pages.before)), Limit + 1)
        page == FirstOf(records, Limit)
    IN  /\ pages.step = "page"
        /\ pages.kind = "report" => may
        /\ pages.kind = "task" => ProjectOf[pages.task] \in open
        /\ pages' = [pages EXCEPT !.got = @ \o page,
                                  !.before = IF records = <<>> THEN @ ELSE Last(records),
                                  !.step = IF Len(records) > Limit THEN "page" ELSE "done"]
        /\ UNCHANGED <<entries, open, may, steady, turns>>

\* One page: access is asked again (assertTaskAccess, getReadableProjectIds), one row more
\* than the page tells whether there is another, and the cursor is the last one shown.
ReadEntries ==
    LET records == FirstOf(Down(Below(pages.kind, pages.task, pages.before)), Limit + 1)
        page == FirstOf(records, Limit)
    IN  /\ pages.step = "page"
        /\ pages.kind = "report" => may
        /\ pages.kind = "task" => ProjectOf[pages.task] \in open
        /\ pages' = [pages EXCEPT !.got = @ \o page,
                                  !.before = IF page = <<>> THEN @ ELSE Last(page),
                                  !.step = IF Len(records) > Limit THEN "page" ELSE "done"]
        /\ UNCHANGED <<entries, open, may, steady, turns>>

\* The guard asks ERP for each page anew; a lost right, session or answer ends the reading,
\* and so does a task that may not be read any more.
RefuseReading ==
    /\ pages.step = "page"
    /\ \/ pages.kind = "report"
       \/ pages.kind = "task" /\ ProjectOf[pages.task] \notin open
    /\ pages' = [pages EXCEPT !.step = "refused"]
    /\ UNCHANGED <<entries, open, may, steady, turns>>

TimeInit ==
    /\ entries = <<>> /\ open = Homes /\ may = TRUE /\ pages = NoPages
    /\ steady = {} /\ turns = 0

TimeNext ==
    \/ InsertTimeEntry \/ CommitTimeEntry \/ AccessTurns
    \/ StartReading \/ ReadEntries \/ RefuseReading

TimeSpec == TimeInit /\ [][TimeNext]_timeVars

----------------------------------------------------------------------------
(* Properties. *)

\* A report or a task's list read to its end has every entry that was there when it began
\* and stayed readable, whatever was inserted, committed or closed between the pages, and
\* no entry twice, from the newest id down.
ReadingIsComplete ==
    pages.step = "done" =>
        /\ \A i, j \in DOMAIN pages.got : i < j => pages.got[i] > pages.got[j]
        /\ \A e \in steady : \/ \E i \in DOMAIN pages.got : pages.got[i] = e
                             \/ pages.kind = "task" /\ entries[e].task # pages.task
===============================================================================
