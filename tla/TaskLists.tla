------------------------------- MODULE TaskLists -------------------------------
(***************************************************************************)
(* The lists of tasks (tasks.service.ts: getByColumn with search, filters    *)
(* and pages, getPersonalTasks; task-comment-counters.service.ts): the        *)
(* statements each of them is put together from, and what the list should    *)
(* be.  The tasks are those of one moment: each initial state is another     *)
(* forest of tasks in the columns, each reading another query.              *)
(***************************************************************************)
EXTENDS Naturals, Sequences, FiniteSets, SequencesExt

CONSTANTS
    Item,        \* tasks, by their ids
    Attr,        \* the attributes of each task
    ColumnId,    \* columns, numbered as the boards and their columns are ordered
    LaneOf,      \* status, readers and board members of each column
    Parents,     \* the forests: functions from a task to its parent, or 0
    Query,       \* the queries
    Batch        \* 500: ids in one question about comments

\* The queries of all lists in one record; {} and 0 stand for a filter that is not given,
\* and due dates for both kinds of date.
IsQuery(q) ==
    /\ q.kind \in {"column", "personal", "counters", "gantt"}
    /\ q.archive \in {"active", "archived", "board"} /\ {q.sub, q.flat, q.search} \subseteq BOOLEAN
    /\ q.lane \in ColumnId /\ {q.limit, q.from, q.to} \subseteq Nat
    /\ q.scope \in {"assigned", "created", "executor"} /\ q.desc \in BOOLEAN
    /\ DOMAIN q = {"kind", "lane", "archive", "sub", "flat", "limit", "search", "creators",
                   "workers", "priorities", "tags", "from", "to", "me", "executor", "scope",
                   "statuses", "desc"}

\* Every group of tasks has one whose parent is not of the group: there is no cycle.
IsForest(p) == \A S \in SUBSET Item : S # {} => \E c \in S : p[c] \notin S

ASSUME TaskListsAssumption ==
    /\ Item \subseteq Nat \ {0} /\ IsFiniteSet(Item) /\ Batch \in Nat \ {0}
    /\ ColumnId \subseteq Nat
    /\ \A c \in Item : /\ DOMAIN Attr[c] = {"order", "creator", "workers", "priority", "tags", "due", "text"}
                       /\ Attr[c].order \in Nat /\ Attr[c].due \in Nat /\ Attr[c].text \in BOOLEAN
    /\ \A p \in Parents : p \in [Item -> Item \cup {0}] /\ IsForest(p)
    /\ \A q \in Query : IsQuery(q)

VARIABLES
    parent,   \* the parent of each task, or 0
    lane,     \* the column of each task
    live,     \* the tasks that are not archived
    reading   \* the reading of a list

listVars == <<parent, lane, live, reading>>

NoQuery == CHOOSE q \in Query : TRUE
NoReading == [q |-> NoQuery, step |-> "idle", found |-> {}, cards |-> {}, level |-> {},
              match |-> {}, ids |-> <<>>, offset |-> 0, got |-> <<>>]
Becomes(step, new) == reading' = [new EXCEPT !.step = step] /\ UNCHANGED <<parent, lane, live>>

ReadingIs(kinds, step) == reading.q.kind \in kinds /\ reading.step = step
Q == reading.q

\* archiveTaskOptions: active tasks, archived ones, or all of an archived board.
Shown(c, q) == CASE q.archive = "active" -> c \in live
                 [] q.archive = "archived" -> c \notin live
                 [] q.archive = "board" -> TRUE
InLane(c, q) == lane[c] = q.lane /\ Shown(c, q)

\* The archive is a list of tasks, not of roots, and so is the new board's.
Flat(q) == q.archive # "active" \/ (q.sub /\ q.flat)

HasFilters(q) == q.creators # {} \/ q.workers # {} \/ q.priorities # {} \/ q.tags # {}
                   \/ q.from # 0 \/ q.to # 0

\* A task without a date is in no period; both bounds are included; 0 is no bound.
MatchesDateRange(due, from, to) ==
    (from = 0 /\ to = 0) \/ (due # 0 /\ due >= from /\ (to # 0 => due <= to))

OneOf(value, group) == group = {} \/ value \in group
AnyOf(values, group) == group = {} \/ values \cap group # {}

----------------------------------------------------------------------------
(* getByColumn. *)

Ask == /\ reading.step = "idle"
       /\ \E q \in Query :
             \* validateTaskDateFilters
             Becomes(CASE q.from # 0 /\ q.to # 0 /\ q.from > q.to -> "refused"
                       [] q.kind = "column" -> "search"
                       [] q.kind \in {"personal", "gantt"} -> "page"
                       [] q.kind = "counters" -> "ids", [NoReading EXCEPT !.q = q])

\* findMatchingRootTaskIds: one level up, among the tasks of the column.
FindMatchingRootTaskIds ==
    LET matches == {c \in Item : InLane(c, Q) /\ Attr[c].text}
        found == {IF Flat(Q) \/ parent[c] = 0 THEN c ELSE parent[c] : c \in matches}
    IN  /\ ReadingIs({"column"}, "search")
        /\ Becomes(IF HasFilters(Q) THEN "candidates" ELSE "page",
                   [reading EXCEPT !.found = IF Q.search THEN found ELSE Item,
                                   !.match = IF HasFilters(Q) THEN {} ELSE Item])

\* findFilterCandidates: the tasks or roots of the column; priorities are filtered there
\* unless subtasks count.
FindFilterCandidates ==
    LET roots == {c \in Item : /\ InLane(c, Q) /\ (Flat(Q) \/ parent[c] = 0)
                               /\ (~ Q.sub \/ Flat(Q)) => OneOf(Attr[c].priority, Q.priorities)}
    IN  /\ ReadingIs({"column"}, "candidates")
        /\ Becomes(IF Flat(Q) \/ ~ Q.sub \/ roots = {} THEN "match" ELSE "children",
                   [reading EXCEPT !.cards = roots, !.level = roots])

\* One level of active subtasks after another, whatever their column.
FindChildren ==
    LET new == {c \in live : parent[c] \in reading.level} \ reading.cards
    IN  /\ ReadingIs({"column"}, "children")
        /\ Becomes(IF new = {} THEN "match" ELSE "children",
                   [reading EXCEPT !.cards = @ \cup new, !.level = new])

MatchCandidates ==
    /\ ReadingIs({"column"}, "match")
    /\ Becomes("workers", [reading EXCEPT !.match =
          {c \in reading.cards :
              /\ OneOf(Attr[c].creator, Q.creators)
              /\ Q.sub => OneOf(Attr[c].priority, Q.priorities)
              /\ MatchesDateRange(Attr[c].due, Q.from, Q.to)}])

\* Mutant of MatchWorkers: the groups are joined, not intersected.
MatchWorkersToo ==
    /\ ReadingIs({"column"}, "workers")
    /\ Becomes("tags", [reading EXCEPT !.match =
          @ \cup {c \in reading.cards : Q.workers # {} /\ AnyOf(Attr[c].workers, Q.workers)}])

MatchWorkers ==
    /\ ReadingIs({"column"}, "workers")
    /\ Becomes("tags", [reading EXCEPT !.match = {c \in @ : AnyOf(Attr[c].workers, Q.workers)}])

\* findRootTaskId.
Root[c \in Item] == IF parent[c] = 0 THEN c ELSE Root[parent[c]]

MatchTags ==
    LET matching == {c \in reading.match : AnyOf(Attr[c].tags, Q.tags)}
    IN  /\ ReadingIs({"column"}, "tags")
        /\ Becomes("page", [reading EXCEPT !.match =
              IF Flat(Q) THEN matching ELSE {Root[c] : c \in matching}])

\* The sequence of a set in which each follows those before it in R.
Ranking(S, R) ==
    CHOOSE s \in SetToSeqs(S) : \A i, j \in DOMAIN s : i < j => <<s[i], s[j]>> \in R

\* By order, then by id.
EarlierPlace == {e \in Item \X Item :
    \/ Attr[e[1]].order < Attr[e[2]].order
    \/ Attr[e[1]].order = Attr[e[2]].order /\ e[1] < e[2]}
Sorted(cards) == Ranking(cards, EarlierPlace)

Slice(s, offset, limit) ==
    IF limit = 0 THEN s
    ELSE SubSeq(s, offset + 1, IF Len(s) < offset + limit THEN Len(s) ELSE offset + limit)

\* The page, its total; the client asks for the next one while hasMore.
ReadPage ==
    LET rows == {c \in reading.found \cap reading.match :
                    InLane(c, Q) /\ (Flat(Q) \/ parent[c] = 0)}
        items == Slice(Sorted(rows), reading.offset, Q.limit)
        hasMore == Q.limit # 0 /\ reading.offset + Len(items) < Cardinality(rows)
    IN  /\ ReadingIs({"column"}, "page")
        /\ Becomes(IF hasMore THEN "search" ELSE "done",
                   [reading EXCEPT !.got = @ \o items, !.offset = @ + Len(items)])

----------------------------------------------------------------------------
(* getPersonalTasks. *)

\* personalTaskSource: the reader's tasks, or an executor's in columns that are not done.
Personal(c, q) ==
    /\ c \in live /\ q.me \in LaneOf[lane[c]].readers
    /\ q.statuses # {} => LaneOf[lane[c]].status \in q.statuses
    /\ CASE q.scope = "assigned" -> q.me \in Attr[c].workers
         [] q.scope = "created" -> q.me = Attr[c].creator
         [] q.scope = "executor" ->
              /\ q.executor \in Attr[c].workers \cap LaneOf[lane[c]].readers
              /\ AnyOf({q.executor}, LaneOf[lane[c]].members)
              /\ LaneOf[lane[c]].status \notin {"completed", "in_review", "archived"}

\* By date, those without one last, then by id.
EarlierDate(desc) == {e \in Item \X Item :
    LET one == Attr[e[1]].due  other == Attr[e[2]].due
    IN  \/ one # 0 /\ other = 0
        \/ one # 0 /\ other # 0 /\ (IF desc THEN one > other ELSE one < other)
        \/ one = other /\ e[1] < e[2]}
ByDate(cards, q) == Ranking(cards, EarlierDate(q.desc))

\* One more row than the page says whether there is another.
ReadPersonalPage ==
    LET rows == Slice(ByDate({c \in Item : Personal(c, Q)}, Q), reading.offset, Q.limit + 1)
        items == Slice(rows, 0, Q.limit)
    IN  /\ ReadingIs({"personal"}, "page")
        /\ Becomes(IF Len(rows) > Q.limit THEN "page" ELSE "done",
                   [reading EXCEPT !.got = @ \o items, !.offset = @ + Len(items)])

----------------------------------------------------------------------------
(* getProjectGantt. *)

\* One row of task_assignees is enough; "me" among the assignees adds what I created and
\* others do.
Selected(c, q) ==
    \E w \in Attr[c].workers :
        w \in q.workers \/ (q.me \in q.workers /\ Attr[c].creator = q.me /\ w # q.me)

ByLane(cards) == Ranking(cards, {e \in Item \X Item :
    \/ lane[e[1]] < lane[e[2]]
    \/ lane[e[1]] = lane[e[2]] /\ e \in EarlierPlace})

ReadGantt ==
    /\ ReadingIs({"gantt"}, "page")
    /\ Becomes("done", [reading EXCEPT !.got =
          ByLane({c \in live : parent[c] = 0 /\ (Q.workers # {} => Selected(c, Q))})])

----------------------------------------------------------------------------
(* readCounters of the comments of the personal tasks. *)

ById(cards) == Ranking(cards, {e \in Item \X Item : e[1] < e[2]})

ReadPersonalIds ==
    /\ ReadingIs({"counters"}, "ids")
    /\ Becomes("counters", [reading EXCEPT !.ids =
          ById({c \in Item : Personal(c, Q)})])

\* ERP answers for each id of the batch once, or the whole reading fails.
ReadCounters ==
    LET batch == Slice(reading.ids, reading.offset, Batch)
    IN  /\ ReadingIs({"counters"}, "counters")
        /\ IF reading.offset >= Len(reading.ids) THEN Becomes("done", reading)
           ELSE \E answer \in {batch, Tail(batch)} :
                   IF Len(answer) # Len(batch) THEN Becomes("refused", reading)
                   ELSE Becomes("counters", [reading EXCEPT !.got = @ \o answer,
                                                            !.offset = @ + Batch])

----------------------------------------------------------------------------

ListsInit ==
    /\ parent \in Parents /\ lane \in [Item -> ColumnId] /\ live \in SUBSET Item
    /\ reading = NoReading

ListsNext ==
    \/ Ask \/ FindMatchingRootTaskIds \/ FindFilterCandidates \/ FindChildren
    \/ MatchCandidates \/ MatchWorkers \/ MatchTags \/ ReadPage
    \/ ReadGantt \/ ReadPersonalPage \/ ReadPersonalIds \/ ReadCounters

ListsSpec == ListsInit /\ [][ListsNext]_listVars

----------------------------------------------------------------------------
(* Properties. *)

\* All groups of filters at once, on one task.
MatchesAll(c, q) ==
    /\ OneOf(Attr[c].creator, q.creators) /\ OneOf(Attr[c].priority, q.priorities)
    /\ AnyOf(Attr[c].workers, q.workers) /\ AnyOf(Attr[c].tags, q.tags)
    /\ MatchesDateRange(Attr[c].due, q.from, q.to)

\* The tasks of a root's card: itself and the active subtasks below it, at any depth.
CardOf(r) ==
    {c \in Item : \A S \in SUBSET Item :
        r \in S /\ (\A d \in live : parent[d] \in S => d \in S) => c \in S}

\* Those of the chosen people, and my own that somebody else works on ("Я").
OnTheGantt(q) ==
    {c \in live : /\ parent[c] = 0
                  /\ \/ q.workers = {}
                     \/ Attr[c].workers \cap q.workers # {}
                     \/ q.me \in q.workers /\ Attr[c].creator = q.me
                          /\ Attr[c].workers \ {q.me} # {}}

Belonging(q) ==
    IF Flat(q) THEN {c \in Item : /\ InLane(c, q) /\ MatchesAll(c, q)
                                  /\ q.search => Attr[c].text}
    ELSE {r \in Item :
            /\ InLane(r, q) /\ parent[r] = 0
            /\ q.search => \E c \in Item : InLane(c, q) /\ Attr[c].text /\ (c = r \/ parent[c] = r)
            /\ \E c \in IF q.sub THEN CardOf(r) ELSE {r} : MatchesAll(c, q)}

\* A list read to its end, page by page, has what belongs on it, each task once and in
\* order: with subtasks a root is shown for one task of its card that matches all groups
\* of filters ("одновременно совпала со всеми выбранными группами фильтров"), not for
\* several that match one each; and the counters are of all personal tasks, whatever
\* the batches.
ListsAreComplete ==
    reading.step = "done" =>
        reading.got = CASE Q.kind = "column" -> Sorted(Belonging(Q))
                        [] Q.kind = "personal" -> ByDate({c \in Item : Personal(c, Q)}, Q)
                        [] Q.kind = "gantt" -> ByLane(OnTheGantt(Q))
                        [] Q.kind = "counters" ->
                             ById({c \in Item : Personal(c, Q)})
===============================================================================
