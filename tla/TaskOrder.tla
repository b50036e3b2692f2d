------------------------------- MODULE TaskOrder -------------------------------
(***************************************************************************)
(* The order of the cards (root tasks) in the columns of a board, and the   *)
(* rules under which a task leaves a column (tasks.service.ts: create, move, *)
(* update with a parent, delete, restore; columns.service.ts: update).       *)
(*                                                                         *)
(* SELECT ... ORDER BY ... FOR UPDATE under READ COMMITTED takes its rows   *)
(* and their sequence from the moment it begins, then locks one after the   *)
(* other and waits; a row that has changed meanwhile is looked at again and *)
(* is returned with its new values at its old place, or left out.           *)
(***************************************************************************)
EXTENDS Integers, Sequences, FiniteSets, SequencesExt, FiniteSetsExt, TLC

CONSTANTS
    Lane,        \* the columns of the board
    Card,        \* ids of tasks, in the order they are given out
    FirstCards,  \* the tasks there are
    FirstRules,  \* the rules of each column
    Mover,       \* processes that serve requests
    AskedPlaces, \* places asked for
    Roles,       \* what those who ask are for the task
    MaxMoves,    \* bound: requests
    MaxRules     \* bound: changes of rules

CardRow == [lane : Lane, parent : Nat, place : Nat, live : BOOLEAN]
RuleRow == [creatorsOnly : BOOLEAN, archive : BOOLEAN]

ASSUME TaskOrderAssumption ==
    /\ IsFiniteSet(Lane) /\ IsFiniteSet(Mover) /\ Card \subseteq Nat \ {0} /\ IsFiniteSet(Card)
    /\ FirstCards \in [DOMAIN FirstCards -> CardRow] /\ DOMAIN FirstCards \subseteq Card
    /\ \A c \in DOMAIN FirstCards : FirstCards[c].parent \in DOMAIN FirstCards \cup {0}
    /\ FirstRules \in [Lane -> RuleRow]
    /\ AskedPlaces \subseteq Nat /\ Roles \subseteq {"controller", "responsible", "other"}
    /\ MaxMoves \in Nat /\ MaxRules \in Nat

VARIABLES
    cards,   \* the committed tasks: [lane, parent, place, live], by id
    rules,   \* the columns: [creatorsOnly, archive]
    mover,   \* the requests
    moves,   \* how many there were
    ruled,   \* changes of rules
    stale    \* requests overtaken by another one while they read a list (history)

orderVars == <<cards, rules, mover, moves, ruled, stale>>

Cards == DOMAIN cards
Rests == [kind |-> "none", step |-> "free", card |-> 0, parent |-> 0, to |-> "", place |-> 0,
          role |-> "", todo |-> <<>>, list |-> <<>>, locked |-> {}, shares |-> {},
          draft |-> <<>>]

Serves(m, kinds, step) == mover[m].kind \in kinds /\ mover[m].step = step
CardLocked(m, c) == \E o \in Mover \ {m} : c \in mover[o].locked
Going(m, new) ==
    mover' = [mover EXCEPT ![m] = new] /\ UNCHANGED <<cards, rules, moves, ruled, stale>>

IsRoot(rows, l, c) == rows[c].live /\ rows[c].lane = l /\ rows[c].parent = 0
Before(rows, c, d) ==
    rows[c].place < rows[d].place \/ (rows[c].place = rows[d].place /\ c < d)
\* Cards by order and id; those of a column.
InOrder(rows, S) ==
    CHOOSE s \in SetToSeqs(S) : \A i, j \in DOMAIN s : i < j => Before(rows, s[i], s[j])
LaneRoots(rows, l) == {c \in DOMAIN rows : IsRoot(rows, l, c)}
RootsIn(rows, l) == InOrder(rows, LaneRoots(rows, l))
OthersIn(rows, l, c) == InOrder(rows, LaneRoots(rows, l) \ {c})
Children(c) == {d \in Cards : cards[d].parent = c}

----------------------------------------------------------------------------
(* A request begins with its first statement. *)

Begins(m, new) ==
    /\ mover[m].step = "free" /\ moves < MaxMoves
    /\ mover' = [mover EXCEPT ![m] = new]
    /\ moves' = moves + 1 /\ stale' = stale \ {m}
    /\ UNCHANGED <<cards, rules, ruled>>

\* assertTaskAccess: FOR UPDATE, of a task that is not archived.
BeginsWith(m, c, new) ==
    /\ cards[c].live /\ ~ CardLocked(m, c)
    /\ Begins(m, [new EXCEPT !.card = c, !.locked = {c}])

MoveCard(m) == \E c \in Cards, l \in Lane, p \in AskedPlaces, r \in Roles :
    BeginsWith(m, c, [Rests EXCEPT !.kind = "move", !.step = "target", !.to = l, !.place = p,
                                   !.role = r])
AttachCard(m) == \E c, p \in Cards : c # p /\ p # cards[c].parent /\
    BeginsWith(m, c, [Rests EXCEPT !.kind = "attach", !.step = "children", !.parent = p])
DetachCard(m) == \E c \in Cards, r \in Roles :
    /\ cards[c].parent # 0
    /\ BeginsWith(m, c, [Rests EXCEPT !.kind = "detach", !.step = "children", !.role = r])

\* A deletion reads the task without a lock, a restore finds archived ones too.
DeleteCard(m) == \E c \in Cards :
    /\ cards[c].live
    /\ Begins(m, [Rests EXCEPT !.kind = "delete", !.step = "hierarchy", !.card = c])
RestoreCard(m) == \E c \in Cards :
    /\ ~ cards[c].live /\ ~ CardLocked(m, c)
    /\ Begins(m, [Rests EXCEPT !.kind = "restore", !.step = "parent", !.card = c, !.locked = {c}])

\* allocateTaskNumbers: creations in one project take turns.
CreateCard(m) == \E l \in Lane :
    /\ \A o \in Mover : mover[o].kind # "create"
    /\ Begins(m, [Rests EXCEPT !.kind = "create", !.step = "shift", !.to = l])

----------------------------------------------------------------------------
(* The parent and the subtasks. *)

\* prepareParentTaskChange: a task with subtasks keeps its parent.
FindChild(m) ==
    /\ Serves(m, {"attach", "detach"}, "children")
    /\ \A d \in Children(mover[m].card) : ~ cards[d].live
    /\ Going(m, [mover[m] EXCEPT !.step = "parent",
          !.parent = IF mover[m].kind = "detach" THEN cards[mover[m].card].parent ELSE @])

\* The parent FOR UPDATE: an attached task goes under a root, a detached one behind it.
LockNewParent(m) ==
    LET p == mover[m].parent
        c == mover[m].card
    IN  /\ Serves(m, {"attach"}, "parent") /\ p # c /\ ~ CardLocked(m, p)
        /\ cards[p].live /\ cards[p].parent = 0
        /\ Going(m, [mover[m] EXCEPT !.locked = @ \cup {p},
              !.step = IF cards[c].parent = 0 THEN "leave" ELSE "commit",
              !.draft = [d \in {c} |-> [cards[c] EXCEPT !.parent = p, !.place = 0]]])

LockOldParent(m) ==
    LET p == mover[m].parent
    IN  /\ Serves(m, {"detach"}, "parent") /\ ~ CardLocked(m, p) /\ cards[p].live
        /\ Going(m, [mover[m] EXCEPT !.locked = @ \cup {p}, !.step = "target",
              !.to = cards[p].lane, !.place = cards[p].place + 1])

\* A restore: the parent must not be archived; it is not locked.
ReadParentOfRestored(m) ==
    LET p == cards[mover[m].card].parent
    IN  /\ Serves(m, {"restore"}, "parent")
        /\ p # 0 => cards[p].live
        /\ Going(m, [mover[m] EXCEPT !.step = "hierarchy"])

\* getTaskHierarchy, one level in these columns: what is archived or restored with the task.
LockHierarchy(m) ==
    LET wanted == {d \in Children(mover[m].card) : mover[m].kind = "restore" \/ cards[d].live}
    IN  /\ Serves(m, {"delete", "restore"}, "hierarchy")
        /\ \A d \in wanted : ~ CardLocked(m, d)
        /\ Going(m, [mover[m] EXCEPT !.step = "mark", !.locked = @ \cup wanted])

\* destroy and restore: the rows that are still active, or archived.
MarkHierarchy(m) ==
    LET c == mover[m].card
    IN  /\ Serves(m, {"delete", "restore"}, "mark") /\ ~ CardLocked(m, c)
        /\ Going(m, [mover[m] EXCEPT !.step = "commit", !.locked = @ \cup {c},
              !.draft = [d \in mover[m].locked \cup {c} |->
                           [cards[d] EXCEPT !.live = mover[m].kind = "restore"]]])

----------------------------------------------------------------------------
(* assertTasksCanLeaveColumns: the rules, FOR SHARE. *)

Leaves(m) == cards[mover[m].card].lane # mover[m].to
MayEnter(m) == (rules[mover[m].to].archive /\ Leaves(m)) => mover[m].role # "other"
MayLeave(m) == rules[cards[mover[m].card].lane].creatorsOnly => mover[m].role = "controller"

\* What follows the rules: a subtask just changes its column; a root that leaves closes its gap.
AfterRules(m) ==
    CASE mover[m].kind = "detach" -> [mover[m] EXCEPT !.step = "put"]
      [] mover[m].kind = "move" /\ cards[mover[m].card].parent # 0 ->
            [mover[m] EXCEPT !.step = "commit",
               !.draft = [d \in {mover[m].card} |-> [cards[d] EXCEPT !.lane = mover[m].to]]]
      [] OTHER -> [mover[m] EXCEPT !.step = IF Leaves(m) THEN "leave" ELSE "put"]

ShareTarget(m) ==
    /\ Serves(m, {"move", "detach"}, "target") /\ MayEnter(m)
    /\ IF Leaves(m) THEN Going(m, [mover[m] EXCEPT !.step = "source", !.shares = {mover[m].to}])
       ELSE Going(m, [AfterRules(m) EXCEPT !.shares = {mover[m].to}])

\* Mutant of ShareSource: the rule is read and not locked.
ReadSourceRule(m) ==
    /\ Serves(m, {"move", "detach"}, "source") /\ MayLeave(m)
    /\ Going(m, AfterRules(m))

ShareSource(m) ==
    /\ Serves(m, {"move", "detach"}, "source") /\ MayLeave(m)
    /\ Going(m, [AfterRules(m) EXCEPT !.shares = @ \cup {cards[mover[m].card].lane}])

\* columns.update, which waits for those who hold the column.
UpdateRule(l) ==
    /\ ruled < MaxRules /\ \A m \in Mover : l \notin mover[m].shares
    /\ \E new \in RuleRow \ {rules[l]} :
          rules' = [rules EXCEPT ![l] = new]
    /\ ruled' = ruled + 1
    /\ UNCHANGED <<cards, mover, moves, stale>>

----------------------------------------------------------------------------
(* normalizeColumnWithoutTask, placeTaskInColumn and the shift of create: lists of rows. *)

ListLane(m) == IF mover[m].step \in {"leave", "leaving"} THEN cards[mover[m].card].lane
               ELSE mover[m].to
Listing == {"leaving", "putting", "shifting"}
Scanning == [leave |-> "leaving", put |-> "putting", shift |-> "shifting"]

\* The statement begins: which rows, and in which sequence.
ScanList(m) ==
    /\ mover[m].step \in DOMAIN Scanning
    /\ Going(m, [mover[m] EXCEPT !.step = Scanning[mover[m].step], !.list = <<>>,
          !.todo = OthersIn(cards, ListLane(m), mover[m].card)])

\* The next row of the list; the shift of create meets its rows in any order.
NextListed(m) ==
    IF mover[m].step = "shifting" THEN DOMAIN mover[m].todo ELSE DOMAIN mover[m].todo \cap {1}

\* Mutant of LockListed: the list is read without a lock.
ReadListed(m) ==
    /\ mover[m].step \in Listing /\ mover[m].todo # <<>>
    /\ Going(m, [mover[m] EXCEPT !.list = mover[m].todo, !.todo = <<>>])

\* One row, FOR UPDATE: left out if it is no longer one of the list.
LockListed(m) ==
    /\ mover[m].step \in Listing
    /\ \E i \in NextListed(m) :
          LET c == mover[m].todo[i]
          IN  /\ ~ CardLocked(m, c)
              /\ Going(m, [mover[m] EXCEPT !.todo = RemoveAt(@, i), !.locked = @ \cup {c},
                    !.list = IF IsRoot(cards, ListLane(m), c) THEN Append(@, c) ELSE @])

\* The rows of a list, the i-th at place at[i]; a card at a place of the target.
Placed(s, at) ==
    [c \in Range(s) |-> [cards[c] EXCEPT !.place = at[CHOOSE i \in DOMAIN s : s[i] = c]]]
CardAt(m, c, place) ==
    [d \in {c} |-> [lane |-> mover[m].to, parent |-> 0, place |-> place, live |-> TRUE]]
Merged(f, g) == [c \in DOMAIN f \cup DOMAIN g |-> IF c \in DOMAIN f THEN f[c] ELSE g[c]]

\* normalizeColumnWithoutTask: 0, 1, 2, ...
CloseGap(m) ==
    LET s == mover[m].list
    IN  /\ mover[m].step = "leaving" /\ mover[m].todo = <<>>
        /\ Going(m, [mover[m] EXCEPT !.draft = Merged(Placed(s, [i \in DOMAIN s |-> i - 1]), @),
              !.step = IF mover[m].kind = "attach" THEN "commit" ELSE "put"])

\* Mutant of PutCard: the cards from the place on stay where they are.
PutOver(m) ==
    LET s == mover[m].list
        c == mover[m].card
        k == Min({mover[m].place, Len(s)})
    IN  /\ mover[m].step = "putting" /\ mover[m].todo = <<>>
        /\ Going(m, [mover[m] EXCEPT !.step = "commit",
              !.draft = Merged(CardAt(m, c, k),
                               Merged(Placed(s, [i \in DOMAIN s |-> i - 1]), @))])

\* placeTaskInColumn: the others around the place asked for, and the card at it.
PutCard(m) ==
    LET s == mover[m].list
        c == mover[m].card
        k == Min({mover[m].place, Len(s)})
    IN  /\ mover[m].step = "putting" /\ mover[m].todo = <<>>
        /\ Going(m, [mover[m] EXCEPT !.step = "commit",
              !.draft = Merged(CardAt(m, c, k),
                               Merged(Placed(s, [i \in DOMAIN s |-> IF i <= k THEN i - 1 ELSE i]),
                                      @))])

\* create: the others one further, the new task first.
InsertCard(m) ==
    LET s == mover[m].list
        c == Min(Card \ Cards)
    IN  /\ mover[m].step = "shifting" /\ mover[m].todo = <<>> /\ Card \ Cards # {}
        /\ Going(m, [mover[m] EXCEPT !.step = "commit", !.card = c,
              !.draft = Merged(CardAt(m, c, 0),
                               Placed(s, [i \in DOMAIN s |-> cards[s[i]].place + 1]))])

----------------------------------------------------------------------------
(* The end of a request. *)

\* m changes a column while o reads its list, or afterwards, which takes a restored card, a
\* list without a row to lock, or a list of m that was overtaken itself.
Overtakes(m, o) ==
    \E l \in Lane :
        /\ \/ RootsIn(cards', l) # RootsIn(cards, l)
           \/ \E c \in Range(RootsIn(cards, l)) : cards'[c].place # cards[c].place
        /\ \/ mover[o].step \in Listing /\ mover[o].todo # <<>> /\ ListLane(o) = l
           \/ /\ mover[o].step \in Listing \cup {"put", "commit"}
              /\ l \in {mover[o].to} \cup {cards[c].lane : c \in {mover[o].card} \cap Cards}
              /\ \/ mover[m].kind = "restore" \/ m \in stale
                 \/ mover[o].list = <<>>

Finish(m) ==
    /\ mover[m].step = "commit"
    /\ cards' = Merged(mover[m].draft, cards)
    /\ mover' = [mover EXCEPT ![m] = Rests]
    /\ stale' = stale \cup {o \in Mover \ {m} : Overtakes(m, o)}
    /\ UNCHANGED <<rules, moves, ruled>>

\* A check refuses, PostgreSQL ends a deadlock, a statement fails.
RollsBack(m) == mover[m].step # "free" /\ Going(m, Rests)

OrderInit ==
    /\ cards = FirstCards /\ rules = FirstRules /\ mover = [m \in Mover |-> Rests]
    /\ moves = 0 /\ ruled = 0 /\ stale = {}

OrderNext ==
    \/ \E m \in Mover :
          \/ CreateCard(m) \/ MoveCard(m) \/ AttachCard(m) \/ DetachCard(m) \/ DeleteCard(m)
          \/ RestoreCard(m)
          \/ FindChild(m) \/ LockNewParent(m) \/ LockOldParent(m)
          \/ ReadParentOfRestored(m) \/ LockHierarchy(m) \/ MarkHierarchy(m)
          \/ ShareTarget(m) \/ ShareSource(m) \/ ScanList(m) \/ LockListed(m)
          \/ CloseGap(m) \/ PutCard(m) \/ InsertCard(m) \/ Finish(m) \/ RollsBack(m)
    \/ \E l \in Lane : UpdateRule(l)

OrderSpec == OrderInit /\ [][OrderNext]_orderVars

----------------------------------------------------------------------------
(* Properties. *)

Commits(m) == mover[m].step = "commit" /\ mover'[m].step = "free" /\ cards' # cards
PlacesIncrease(rows, l) ==
    LET s == RootsIn(rows, l)
    IN  \A i \in 2..Len(s) : rows[s[i-1]].place < rows[s[i]].place
NoGaps(rows, l) ==
    LET s == RootsIn(rows, l)
    IN  \A i \in DOMAIN s : rows[s[i]].place = i - 1

\* A card is at a place of a column, and the others are as they were.
PutAt(c, l, place) ==
    LET others == OthersIn(cards, l, c)
    IN  RootsIn(cards', l) = InsertAt(others, Min({place, Len(others)}) + 1, c)
LeftWithoutGap(c, l) ==
    RootsIn(cards', l) = OthersIn(cards, l, c) /\ NoGaps(cards', l)
Behind(c, p, l) ==
    \E i \in DOMAIN RootsIn(cards, l) :
        RootsIn(cards, l)[i] = p /\ RootsIn(cards', l) = InsertAt(RootsIn(cards, l), i + 1, c)

\* A request that was not overtaken while it read a list leaves the columns as asked, all
\* other cards in their sequence: a moved card at its place, or last; a new one first; a
\* detached subtask behind its parent, when the column had no gaps; no gap where it left.
PlacedAsAsked ==
    [][\A m \in Mover \ stale : Commits(m) =>
          LET r == mover[m]
              root == r.card \in Cards /\ cards[r.card].parent = 0
          IN  /\ r.kind = "create" => RootsIn(cards', r.to) = <<r.card>> \o RootsIn(cards, r.to)
              /\ r.kind = "move" /\ root =>
                    PutAt(r.card, r.to, r.place) /\ PlacesIncrease(cards', r.to)
              /\ r.kind \in {"move", "attach"} /\ root /\ r.to # cards[r.card].lane =>
                    LeftWithoutGap(r.card, cards[r.card].lane)
              /\ r.kind = "detach" /\ NoGaps(cards, r.to) /\ cards[r.parent].parent = 0 =>
                    Behind(r.card, r.parent, r.to)
      ]_orderVars

\* A task leaves a column, and enters another, under the rules that hold when it does: they
\* stay until the transfer is complete ("блокируя исходные правила до завершения переноса").
RulesHold ==
    [][\A m \in Mover : Commits(m) /\ mover[m].kind \in {"move", "detach"} =>
          LET r == mover[m]
          IN  cards'[r.card].lane # cards[r.card].lane =>
                 /\ rules[cards[r.card].lane].creatorsOnly => r.role = "controller"
                 /\ rules[r.to].archive => r.role # "other"
      ]_orderVars
===============================================================================
