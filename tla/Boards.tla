-------------------------------- MODULE Boards --------------------------------
(***************************************************************************)
(* The boards of one project and their columns (boards.service.ts,         *)
(* columns.service.ts): creation, order, archive, and the database         *)
(* connections the requests hold and wait for.                             *)
(*                                                                         *)
(* PostgreSQL under READ COMMITTED: a statement sees committed rows, a      *)
(* transaction keeps the rows it wrote locked until it ends.  `draft` is    *)
(* what an open transaction has written.  A transaction keeps one pooled    *)
(* connection; a statement outside it takes another one for itself.         *)
(***************************************************************************)
EXTENDS Naturals, Sequences, FiniteSets, FiniteSetsExt, Functions

CONSTANTS
    Place,        \* boards and columns
    Home,         \* the board of each column, the project of each board
    Prj,          \* the project
    FirstOrder,   \* the order of the rows that exist at first
    Req,          \* requests
    Lists,        \* the lists of ids a reordering may name
    MaxPool       \* pool.max of postgres.config.ts

Brd == {p \in Place : Home[p] = Prj}
Col == Place \ Brd

ASSUME BoardsAssumption ==
    /\ MaxPool \in Nat \ {0}
    /\ Home \in [Place -> Brd \cup {Prj}]
    /\ Prj \notin Place /\ IsFiniteSet(Place)
    /\ FirstOrder \in [DOMAIN FirstOrder -> Nat] /\ DOMAIN FirstOrder \subseteq Place
    /\ \A l \in Lists : l # <<>> /\ l \in Seq(DOMAIN FirstOrder) /\ IsInjective(l)

VARIABLES
    row,     \* the committed boards and columns
    req,     \* the requests
    alone,   \* the requests that met no other one in their list so far (history)
    log      \* the requests in the order they were committed (history)

boardsVars == <<row, req, alone, log>>

Gone == [state |-> "absent", order |-> 0]

Kind == {"boards.create", "boards.reorder", "boards.delete", "boards.restore",
         "columns.create", "columns.reorder", "columns.delete"}

RowState == [state : {"absent", "active", "archived"}, order : Nat]
PartialOn(S) == UNION {[d -> S] : d \in SUBSET Place}
\* The rows with the writes of a transaction over them.
Over(draft, rows) ==
    [p \in DOMAIN draft \cup DOMAIN rows |-> IF p \in DOMAIN draft THEN draft[p] ELSE rows[p]]

ReqState ==
    [kind : Kind \cup {"none"},
     in : Place \cup {Prj},        \* the list: the project, or a board
     on : Place \cup {Prj},        \* the row created, archived or restored
     ids : Lists \cup {<<>>},      \* the order asked for
     source : SUBSET Brd,          \* the board whose columns are copied
     step : {"idle", "access", "begin", "source", "max", "insert", "row", "rows",
             "lock", "write", "commit", "done"},
     next : Nat,                   \* the place in ids, or the order found
     copied : PartialOn(Nat),      \* the orders of the columns found on the source
     draft : PartialOn(RowState),  \* what its transaction has written and keeps locked
     left : SUBSET Nat,            \* UPDATEs sent outside a transaction, not executed yet
     conn : BOOLEAN,               \* its transaction holds a connection
     answer : {"none", "ok", "error"}]

Active(p) == row[p].state = "active"
In(p, list) == Home[p] = list
OrderWriter(k) == req[k].kind \in Kind /\ (req[k].step # "done" \/ req[k].left # {})

\* An UPDATE, DELETE or SELECT FOR UPDATE waits for the transaction that wrote the row.
Locked(k, p) == \E o \in Req \ {k} : p \in DOMAIN req[o].draft

FreeConnections == MaxPool - Cardinality({k \in Req : req[k].conn})

\* Bound: there is an absent row for each creation in the list.
Room(list) ==
    Cardinality({o \in Req : req[o].in = list /\ req[o].step # "done"
                               /\ req[o].kind \in {"boards.create", "columns.create"}})
      < Cardinality({p \in Place : row[p] = Gone /\ In(p, list)})

----------------------------------------------------------------------------
(* Asking. The first step is the access check, or the transaction.         *)

Idle == [kind |-> "none", in |-> Prj, on |-> Prj, ids |-> <<>>, source |-> {},
         step |-> "idle", next |-> 0, copied |-> <<>>, draft |-> <<>>, left |-> {},
         conn |-> FALSE, answer |-> "none"]

Asked(k, kind, list, on, ids, source) ==
    /\ req[k] = Idle
    /\ kind \in {"boards.create", "columns.create"} => Room(list)
    /\ req' = [req EXCEPT ![k] =
          [Idle EXCEPT !.kind = kind, !.in = list, !.on = on, !.ids = ids, !.source = source,
                       !.step = IF kind \in {"boards.create", "boards.reorder", "columns.delete"}
                                THEN "access" ELSE "begin"]]
    /\ LET met == {o \in Req \ {k} : req[o].in = list}
       IN  alone' = (alone \ met) \cup
                      (IF \E o \in met : OrderWriter(o) THEN {} ELSE {k})
    /\ UNCHANGED <<row, log>>

AskBoardsCreate(k) == \E source \in {{}} \cup {{b} : b \in Brd} :
                         Asked(k, "boards.create", Prj, Prj, <<>>, source)
AskBoardsReorder(k) == \E l \in Lists : In(l[1], Prj) /\ Asked(k, "boards.reorder", Prj, Prj, l, {})
AskBoardsDelete(k) == \E b \in Brd : Asked(k, "boards.delete", Prj, b, <<>>, {})
AskBoardsRestore(k) == \E b \in Brd : Asked(k, "boards.restore", Prj, b, <<>>, {})
AskColumnsCreate(k) == \E b \in Brd : Asked(k, "columns.create", b, Prj, <<>>, {})
AskColumnsReorder(k) ==
    \E b \in Brd, l \in Lists : In(l[1], b) /\ Asked(k, "columns.reorder", b, Prj, l, {})
AskColumnsDelete(k) == \E n \in Col : Asked(k, "columns.delete", Home[n], n, <<>>, {})

At(k, kinds, step) == req[k].kind \in kinds /\ req[k].step = step

\* The next step, nothing else.
Goes(k, step) == req' = [req EXCEPT ![k].step = step] /\ UNCHANGED <<row, alone, log>>

\* A transaction takes its connection.
Begin(k) ==
    /\ req[k].step = "begin" /\ FreeConnections > 0
    /\ req' = [req EXCEPT ![k].conn = TRUE,
                 ![k].step = CASE req[k].kind = "boards.create" -> "source"
                               [] req[k].kind \in {"boards.delete", "boards.restore"} -> "lock"
                               [] OTHER -> "access"]
    /\ UNCHANGED <<row, alone, log>>

\* assertCanRead of the project, and the live board of a column: columns.create and
\* columns.reorder ask it outside the transaction they have begun.
Access(k) ==
    /\ req[k].step = "access" /\ FreeConnections > 0
    /\ req[k].in \in Brd => Active(req[k].in)
    /\ req[k].kind = "columns.delete" => Active(req[k].on)
    /\ CASE req[k].kind = "boards.create" -> Goes(k, "begin")
         [] req[k].kind = "columns.create" -> Goes(k, "max")
         [] req[k].kind = "columns.reorder" -> Goes(k, "row")
         [] req[k].kind = "columns.delete" -> Goes(k, "write")
         [] req[k].kind = "boards.reorder" ->
              /\ req' = [req EXCEPT ![k].step = "rows", ![k].left = DOMAIN req[k].ids]
              /\ UNCHANGED <<row, alone, log>>

----------------------------------------------------------------------------
(* Creation. *)

\* The source board, then its columns at one moment.
ReadSource(k) ==
    /\ At(k, {"boards.create"}, "source")
    /\ \A b \in req[k].source : Active(b)
    /\ req' = [req EXCEPT ![k].step = "max",
                 ![k].copied = [n \in {n \in Col : Active(n) /\ Home[n] \in req[k].source} |->
                                  row[n].order]]
    /\ UNCHANGED <<row, alone, log>>

\* max(order) of the rows that are not archived, then one more.
ReadMax(k) ==
    LET orders == {row[p].order : p \in {p \in Place : Active(p) /\ In(p, req[k].in)}}
    IN  /\ req[k].step = "max"
        /\ req' = [req EXCEPT ![k].step = "insert",
                     ![k].next = (IF orders = {} THEN 0 ELSE Max(orders)) + 1]
        /\ UNCHANGED <<row, alone, log>>

Unused(list) == {p \in Place : row[p] = Gone /\ In(p, list)
                               /\ \A o \in Req : p \notin DOMAIN req[o].draft}

\* Bound: there is an absent row for each column copied.
HasRows(k) ==
    \E p \in Unused(req[k].in) :
        \A q \in Unused(req[k].in) : Injection(DOMAIN req[k].copied, Unused(q)) # {}

\* The new row, and for a board a copy of each column found.
NewRows(k, p) ==
    LET copies == CHOOSE c \in Injection(DOMAIN req[k].copied, Unused(p)) : TRUE
        copied == [n \in Range(copies) |-> req[k].copied[AntiFunction(copies)[n]]]
    IN  [q \in {p} \cup DOMAIN copied |->
           [state |-> "active", order |-> IF q = p THEN req[k].next ELSE copied[q]]]

\* A column refers to its board, and waits while another transaction locks that row.
Insert(k) ==
    /\ req[k].step = "insert" /\ HasRows(k)
    /\ req[k].in \in Brd => ~ Locked(k, req[k].in)
    /\ LET p == CHOOSE p \in Unused(req[k].in) : TRUE
       IN  req' = [req EXCEPT ![k].step = "commit", ![k].on = p, ![k].draft = NewRows(k, p)]
    /\ UNCHANGED <<row, alone, log>>

----------------------------------------------------------------------------
(* Order. *)

\* Only rows of the list that are not archived are updated.
Updatable(k, p) == Active(p) /\ In(p, req[k].in)

NextRow(k) == req[k].ids[req[k].next + 1]
MoreRows(k) == At(k, {"columns.reorder"}, "row") /\ req[k].next < Len(req[k].ids)
Reordered(k) == [p \in {NextRow(k)} |-> [row[p] EXCEPT !.order = req[k].next]]

\* Mutant of UpdateNextRow: each UPDATE outside the transaction.
UpdateNextRowAlone(k) ==
    /\ MoreRows(k)
    /\ Updatable(k, NextRow(k)) => ~ Locked(k, NextRow(k))
    /\ req' = [req EXCEPT ![k].next = @ + 1]
    /\ row' = IF Updatable(k, NextRow(k)) THEN Over(Reordered(k), row) ELSE row
    /\ UNCHANGED <<alone, log>>

\* columns.reorder: one UPDATE after another, in the order of ids.
UpdateNextRow(k) ==
    /\ MoreRows(k)
    /\ Updatable(k, NextRow(k)) => ~ Locked(k, NextRow(k))
    /\ req' = [req EXCEPT ![k].next = @ + 1,
                 ![k].draft = IF Updatable(k, NextRow(k)) THEN Over(Reordered(k), @) ELSE @]
    /\ UNCHANGED <<row, alone, log>>

AllRowsUpdated(k) ==
    At(k, {"columns.reorder"}, "row") /\ ~MoreRows(k) /\ Goes(k, "commit")

\* boards.reorder: all UPDATEs at once, each a transaction of its own.
UpdateRow(k) ==
    \E i \in req[k].left :
        LET p == req[k].ids[i]
        IN  /\ FreeConnections > 0
            /\ Updatable(k, p) => ~ Locked(k, p)
            /\ row' = IF Updatable(k, p) THEN [row EXCEPT ![p].order = i - 1] ELSE row
            /\ req' = [req EXCEPT ![k].left = @ \ {i}]
            /\ UNCHANGED <<alone, log>>

\* Promise.all is rejected by the first UPDATE that fails; the others go on.
UpdateRowFails(k) ==
    /\ At(k, {"boards.reorder"}, "rows")
    /\ \E i \in req[k].left :
          req' = [req EXCEPT ![k].left = @ \ {i}, ![k].step = "done", ![k].answer = "error"]
    /\ UNCHANGED <<row, alone, log>>

\* Mutant of AllRowsAnswered: the UPDATEs are not awaited.
RowsSent(k) ==
    /\ At(k, {"boards.reorder"}, "rows")
    /\ req' = [req EXCEPT ![k].step = "done", ![k].answer = "ok"]
    /\ UNCHANGED <<row, alone, log>>

AllRowsAnswered(k) ==
    /\ At(k, {"boards.reorder"}, "rows") /\ req[k].left = {}
    /\ req' = [req EXCEPT ![k].step = "done", ![k].answer = "ok"]
    /\ UNCHANGED <<row, alone, log>>

----------------------------------------------------------------------------
(* Archive. *)

\* The board FOR UPDATE, and the access check inside the transaction; a restore of a
\* board that is not archived changes nothing.
LockBoard(k) ==
    LET b == req[k].on
    IN  /\ req[k].step = "lock" /\ ~ Locked(k, b) /\ row[b] # Gone
        /\ req[k].kind = "boards.delete" => Active(b)
        /\ req' = [req EXCEPT ![k].step = IF req[k].kind = "boards.restore" /\ Active(b)
                                          THEN "commit" ELSE "write",
                              ![k].draft = [q \in {b} |-> row[b]]]
        /\ UNCHANGED <<row, alone, log>>

ArchiveOrRestoreBoard(k) ==
    /\ At(k, {"boards.delete", "boards.restore"}, "write")
    /\ req' = [req EXCEPT ![k].step = "commit",
                 ![k].draft[req[k].on].state =
                    IF req[k].kind = "boards.delete" THEN "archived" ELSE "active"]
    /\ UNCHANGED <<row, alone, log>>

\* column.destroy: the row that was read before, by its id.
DestroyColumn(k) ==
    /\ At(k, {"columns.delete"}, "write") /\ FreeConnections > 0 /\ ~ Locked(k, req[k].on)
    /\ row' = [row EXCEPT ![req[k].on].state = "archived"]
    /\ req' = [req EXCEPT ![k].step = "done", ![k].answer = "ok"]
    /\ UNCHANGED <<alone, log>>

----------------------------------------------------------------------------
(* The end of a request. *)

End(k, answer) ==
    req' = [req EXCEPT ![k].step = "done", ![k].answer = answer, ![k].conn = FALSE,
                       ![k].draft = <<>>]

Commit(k) ==
    /\ req[k].step = "commit"
    /\ row' = Over(req[k].draft, row)
    /\ log' = Append(log, k)
    /\ End(k, "ok")
    /\ UNCHANGED alone

Unfinished(k) == req[k].step \notin {"idle", "done", "rows"}

\* A check refuses, a statement fails, the server dies: the transaction is rolled back.
Fails(k) == Unfinished(k) /\ End(k, "error") /\ UNCHANGED <<row, alone, log>>

\* Mutant of NeedsConnection: only the first connection is given up after a while.
NeedsFirstConnection(k) == req[k].step = "begin"

\* A request waits for a connection: its transaction's, or another one.
NeedsConnection(k) == req[k].step \in {"begin", "access"}
                        \/ At(k, {"columns.delete"}, "write")

\* pool.acquire has passed and no connection is free.
AcquireTimesOut(k) ==
    /\ NeedsConnection(k) /\ FreeConnections = 0
    /\ End(k, "error")
    /\ UNCHANGED <<row, alone, log>>

\* The transactions a column reordering waits for.
WaitsFor(k) == {o \in Req \ {k} : MoreRows(k) /\ NextRow(k) \in DOMAIN req[o].draft}

\* PostgreSQL ends one of the transactions that wait for each other.
DeadlockDetected(k) ==
    /\ \E stuck \in SUBSET Req : k \in stuck /\ \A o \in stuck : WaitsFor(o) \cap stuck # {}
    /\ End(k, "error")
    /\ UNCHANGED <<row, alone, log>>

\* An access check or a look-up refuses the request.
Refused(k) ==
    /\ \/ /\ req[k].step = "access"
          /\ \/ req[k].in \in Brd /\ ~ Active(req[k].in)
             \/ req[k].kind = "columns.delete" /\ ~ Active(req[k].on)
       \/ At(k, {"boards.create"}, "source") /\ \E b \in req[k].source : ~ Active(b)
       \/ /\ req[k].step = "lock" /\ ~ Locked(k, req[k].on)
          /\ \/ row[req[k].on] = Gone
             \/ req[k].kind = "boards.delete" /\ ~ Active(req[k].on)
    /\ End(k, "error")
    /\ UNCHANGED <<row, alone, log>>

----------------------------------------------------------------------------

BoardsInit ==
    /\ row = [p \in Place |-> IF p \in DOMAIN FirstOrder
                              THEN [state |-> "active", order |-> FirstOrder[p]] ELSE Gone]
    /\ req = [k \in Req |-> Idle]
    /\ alone = {}
    /\ log = <<>>

Asks(k) ==
    \/ AskBoardsCreate(k) \/ AskBoardsReorder(k) \/ AskBoardsDelete(k) \/ AskBoardsRestore(k)
    \/ AskColumnsCreate(k) \/ AskColumnsReorder(k) \/ AskColumnsDelete(k)

Proceeds(k) ==
    \/ Begin(k) \/ Access(k) \/ ReadSource(k) \/ ReadMax(k) \/ Insert(k) \/ UpdateNextRow(k)
    \/ AllRowsUpdated(k) \/ UpdateRow(k) \/ AllRowsAnswered(k) \/ LockBoard(k)
    \/ ArchiveOrRestoreBoard(k) \/ DestroyColumn(k) \/ Commit(k) \/ Refused(k)

GivesUp(k) == AcquireTimesOut(k) \/ DeadlockDetected(k)

BoardsNext == \E k \in Req : Asks(k) \/ Proceeds(k) \/ GivesUp(k) \/ Fails(k) \/ UpdateRowFails(k)

\* A statement that can be executed is; a wait ends by pool.acquire or by PostgreSQL.
BoardsFairness == \A k \in Req : WF_boardsVars(Proceeds(k)) /\ WF_boardsVars(GivesUp(k))

BoardsSpec == BoardsInit /\ [][BoardsNext]_boardsVars /\ BoardsFairness

----------------------------------------------------------------------------
(* Properties. *)

Ordered(k, i) == req[k].ids[i] \in Place /\ Updatable(k, req[k].ids[i])

\* An answered request that met no other one in its list has left the order it promised:
\* the ids at their places, or the new row behind all others.  The UPDATEs a failed
\* reordering of boards leaves behind count as met.
UndisturbedOrder ==
    \A k \in alone : req[k].answer = "ok" =>
        /\ \A i \in DOMAIN req[k].ids : Ordered(k, i) => row[req[k].ids[i]].order = i - 1
        /\ req[k].kind \in {"boards.create", "columns.create"} =>
              \A p \in Place : Active(p) /\ In(p, req[k].in) /\ p # req[k].on =>
                  row[p].order < row[req[k].on].order

Names(k, n) == In(n, req[k].in) /\ n \in Range(req[k].ids)

\* Reorderings of the columns of a board take effect whole: each column has its place in
\* the last one of its board committed that named it, however their UPDATEs were interleaved.
LastReorderHolds ==
    \A n \in Col, i \in DOMAIN log :
        /\ Active(n) /\ Names(log[i], n)
        /\ \A j \in DOMAIN log : Names(log[j], n) => j <= i
        => req[log[i]].ids[row[n].order + 1] = n

\* Every request ends, and no UPDATE is left: column requests that wait for a second
\* connection while all are held by transactions are refused by the pool in the end.
EveryRequestEnds ==
    \A k \in Req : req[k].step # "idle" ~> req[k].step = "done" /\ req[k].left = {}
=============================================================================
