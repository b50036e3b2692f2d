------------------------------- MODULE UserAdmin -------------------------------
(***************************************************************************)
(* The administration of users (users.service.ts): creation and change with *)
(* their look at the service number, the cache that answers whether a       *)
(* number is free, and the block that may not reach the last administrator.  *)
(* The transactions run under READ COMMITTED; the cache is outside them.    *)
(* What ERP's events change between two statements is one step here.        *)
(***************************************************************************)
EXTENDS Naturals, FiniteSets, Functions

CONSTANTS
    Person,       \* primary keys, from 1
    Tabel,        \* service numbers
    FirstStaff,   \* the users at first
    Op,           \* calls
    MaxErp        \* bound: changes that come from ERP

Staff == [number : Tabel, admin : BOOLEAN, ban : BOOLEAN]

ASSUME UserAdminAssumption ==
    /\ Person \subseteq Nat \ {0} /\ MaxErp \in Nat
    /\ Tabel # {} /\ 0 \notin Op
    /\ FirstStaff \in [DOMAIN FirstStaff -> Staff] /\ DOMAIN FirstStaff \subseteq Person
    /\ \A p, q \in DOMAIN FirstStaff : FirstStaff[p].number = FirstStaff[q].number => p = q

VARIABLES
    staff,     \* the committed rows of users
    tabel,     \* the cache: service number -> a key, or 0 for nobody
    op,        \* the calls
    erp,       \* changes from ERP so far
    sawFree,   \* the checks during which nobody had their number (history)
    lapped     \* the blocks during which somebody else changed who administers (history)

adminVars == <<staff, tabel, op, erp, sawFree, lapped>>

Rows == UNION {[D -> Staff] : D \in SUBSET Person}

OpState ==
    [kind : {"none", "create", "update", "check", "block"},
     on : Person \cup {0}, number : Tabel, admin : BOOLEAN,
     step : {"idle", "look", "insert", "find", "forget", "remember", "save", "count",
             "flip", "commit", "query", "cache", "done"},
     read : Staff, draft : Rows,
     answer : Person \cup {0}, ok : BOOLEAN]

AnyTabel == CHOOSE n \in Tabel : TRUE
NoOp == [kind |-> "none", on |-> 0, number |-> AnyTabel, admin |-> FALSE, step |-> "idle",
         read |-> [number |-> AnyTabel, admin |-> FALSE, ban |-> FALSE], draft |-> <<>>,
         answer |-> 0, ok |-> FALSE]

OwnersOf(n) == {p \in DOMAIN staff : staff[p].number = n}
Administrators(rows) == {p \in DOMAIN rows : rows[p].admin /\ ~ rows[p].ban}
WithRows(new, rows) == [p \in DOMAIN new \cup DOMAIN rows |->
                          IF p \in DOMAIN new THEN new[p] ELSE rows[p]]

AtOp(o, kinds, step) == op[o].kind \in kinds /\ op[o].step = step
Running(o) == op[o].step \notin {"idle", "done"}
OpGoes(o, step) == op' = [op EXCEPT ![o].step = step]
OpEnds(o, answer, ok) ==
    op' = [op EXCEPT ![o] = [NoOp EXCEPT !.kind = op[o].kind, !.number = op[o].number,
                                         !.step = "done", !.answer = answer, !.ok = ok]]

\* The committed rows become `rows`.
Committed(o, rows) ==
    /\ staff' = rows
    /\ sawFree' = sawFree \cup {c \in Op : /\ op[c].kind = "check" /\ Running(c)
                                           /\ \A p \in DOMAIN rows : rows[p].number # op[c].number}
    /\ lapped' = IF Administrators(rows) = Administrators(staff) THEN lapped
                 ELSE lapped \cup {c \in Op \ {o} : op[c].kind = "block" /\ Running(c)}

NothingCommitted == UNCHANGED <<staff, sawFree, lapped>>

\* An UPDATE waits for the transaction that wrote the row.
HeldRow(o, p) == \E c \in Op \ {o} : p \in DOMAIN op[c].draft

\* The unique index: rows committed, or written by a transaction, which it waits for.
TakenNumber(p, n) == \E q \in DOMAIN staff \ {p} : staff[q].number = n
PendingNumber(o, n) == \E c \in Op \ {o} : \E q \in DOMAIN op[c].draft : op[c].draft[q].number = n

----------------------------------------------------------------------------

Calls(o, new) ==
    /\ op[o] = NoOp
    /\ op' = [op EXCEPT ![o] = new]
    /\ sawFree' = IF new.kind = "check" /\ OwnersOf(new.number) = {} THEN sawFree \cup {o}
                  ELSE sawFree
    /\ UNCHANGED <<staff, tabel, erp, lapped>>

\* createUser, updateUser, checkTabelUnique, userToArchive.
CallCreate(o) == \E n \in Tabel, admin \in BOOLEAN :
    Calls(o, [NoOp EXCEPT !.kind = "create", !.number = n, !.admin = admin, !.step = "look"])
CallUpdate(o) == \E p \in DOMAIN staff, n \in Tabel, admin \in BOOLEAN :
    Calls(o, [NoOp EXCEPT !.kind = "update", !.on = p, !.number = n, !.admin = admin,
                          !.step = "look"])
CallCheck(o) == \E n \in Tabel :
    Calls(o, [NoOp EXCEPT !.kind = "check", !.number = n, !.step = "cache"])
CallBlock(o) == \E p \in DOMAIN staff :
    Calls(o, [NoOp EXCEPT !.kind = "block", !.on = p, !.step = "find"])

----------------------------------------------------------------------------
(* createUser and updateUser. *)

\* A user with the number, other than the one changed.
LookForNumber(o) ==
    /\ AtOp(o, {"create", "update"}, "look")
    /\ IF OwnersOf(op[o].number) \ {op[o].on} # {} THEN OpEnds(o, 0, FALSE)
       ELSE OpGoes(o, IF op[o].kind = "create" THEN "insert" ELSE "find")
    /\ UNCHANGED tabel /\ NothingCommitted

FreeKeys == {p \in Person \ DOMAIN staff : ~ HeldRow(0, p)}

\* The row, then upCreateUser, which finds its number unchanged and saves nothing new.
InsertUser(o) ==
    /\ AtOp(o, {"create"}, "insert") /\ ~ PendingNumber(o, op[o].number) /\ FreeKeys # {}
    /\ LET p == CHOOSE p \in FreeKeys : TRUE
           row == [number |-> op[o].number, admin |-> op[o].admin, ban |-> FALSE]
       IN  IF TakenNumber(p, op[o].number) THEN OpEnds(o, 0, FALSE)
           ELSE op' = [op EXCEPT ![o] = [@ EXCEPT !.step = "commit", !.on = p,
                                                  !.draft = [q \in {p} |-> row]]]
    /\ UNCHANGED tabel /\ NothingCommitted

FindUser(o) ==
    /\ AtOp(o, {"update"}, "find")
    /\ LET row == staff[op[o].on]
       IN  op' = [op EXCEPT ![o] = [@ EXCEPT !.read = row,
                     !.step = IF row.number = op[o].number THEN "save" ELSE "forget"]]
    /\ UNCHANGED tabel /\ NothingCommitted

\* upCreateUser: the cache forgets the old number and names the owner of the new one
\* before the row is saved.
ForgetOldNumber(o) ==
    /\ AtOp(o, {"update"}, "forget")
    /\ tabel' = Restrict(tabel, DOMAIN tabel \ {op[o].read.number})
    /\ OpGoes(o, "remember") /\ NothingCommitted

RememberNewNumber(o) ==
    /\ AtOp(o, {"update"}, "remember")
    /\ tabel' = [n \in DOMAIN tabel \cup {op[o].number} |->
                   IF n = op[o].number THEN op[o].on ELSE tabel[n]]
    /\ OpGoes(o, "save") /\ NothingCommitted

\* user.save writes the fields that differ from those read.
SaveUser(o) ==
    LET p == op[o].on
        row == [staff[p] EXCEPT
                  !.number = IF op[o].number = op[o].read.number THEN @ ELSE op[o].number,
                  !.admin = IF op[o].admin = op[o].read.admin THEN @ ELSE op[o].admin]
    IN  /\ AtOp(o, {"update"}, "save")
        /\ IF op[o].number = op[o].read.number /\ op[o].admin = op[o].read.admin
           THEN OpGoes(o, "commit")
           ELSE /\ ~ HeldRow(o, p) /\ ~ PendingNumber(o, row.number)
                /\ IF TakenNumber(p, row.number) THEN OpEnds(o, 0, FALSE)
                   ELSE op' = [op EXCEPT ![o] = [@ EXCEPT !.step = "commit",
                                                          !.draft = [q \in {p} |-> row]]]
        /\ UNCHANGED tabel /\ NothingCommitted

CommitUser(o) ==
    /\ op[o].step = "commit"
    /\ Committed(o, WithRows(op[o].draft, staff))
    /\ OpEnds(o, op[o].on, TRUE)
    /\ UNCHANGED tabel

----------------------------------------------------------------------------
(* checkTabelUnique. *)

\* Mutant of AskCache: what the cache has is the answer, nobody too.
AskCacheForAnything(o) ==
    /\ AtOp(o, {"check"}, "cache")
    /\ IF op[o].number \in DOMAIN tabel
       THEN OpEnds(o, tabel[op[o].number], TRUE) ELSE OpGoes(o, "query")
    /\ UNCHANGED tabel /\ NothingCommitted

\* A cached key is the answer; a cached 0 is not.
AskCache(o) ==
    /\ AtOp(o, {"check"}, "cache")
    /\ IF op[o].number \in DOMAIN tabel /\ tabel[op[o].number] # 0
       THEN OpEnds(o, tabel[op[o].number], TRUE) ELSE OpGoes(o, "query")
    /\ UNCHANGED tabel /\ NothingCommitted

QueryNumber(o) ==
    /\ AtOp(o, {"check"}, "query")
    /\ LET owners == OwnersOf(op[o].number)
       IN  op' = [op EXCEPT ![o] = [@ EXCEPT !.step = "remember",
                     !.answer = IF owners = {} THEN 0 ELSE CHOOSE p \in owners : TRUE]]
    /\ UNCHANGED tabel /\ NothingCommitted

RememberAnswer(o) ==
    /\ AtOp(o, {"check"}, "remember")
    /\ tabel' = [n \in DOMAIN tabel \cup {op[o].number} |->
                   IF n = op[o].number THEN op[o].answer ELSE tabel[n]]
    /\ OpEnds(o, op[o].answer, TRUE) /\ NothingCommitted

----------------------------------------------------------------------------
(* userToArchive. *)

FindToBlock(o) ==
    /\ AtOp(o, {"block"}, "find")
    /\ LET row == staff[op[o].on]
       IN  op' = [op EXCEPT ![o] = [@ EXCEPT !.read = row,
                     !.step = IF ~ row.ban /\ row.admin THEN "count" ELSE "flip"]]
    /\ UNCHANGED tabel /\ NothingCommitted

\* Mutant of CountAdministrators: nobody else has to be left.
CountAnyAdministrator(o) ==
    /\ AtOp(o, {"block"}, "count")
    /\ IF Cardinality(Administrators(staff)) < 1 THEN OpEnds(o, 0, FALSE)
       ELSE OpGoes(o, "flip")
    /\ UNCHANGED tabel /\ NothingCommitted

\* Without a lock: nothing keeps the ones counted.
CountAdministrators(o) ==
    /\ AtOp(o, {"block"}, "count")
    /\ IF Cardinality(Administrators(staff)) <= 1 THEN OpEnds(o, 0, FALSE)
       ELSE OpGoes(o, "flip")
    /\ UNCHANGED tabel /\ NothingCommitted

\* The opposite of what was read.
FlipBan(o) ==
    LET p == op[o].on
    IN  /\ AtOp(o, {"block"}, "flip") /\ ~ HeldRow(o, p)
        /\ op' = [op EXCEPT ![o] = [@ EXCEPT !.step = "commit",
                     !.draft = [q \in {p} |-> [staff[p] EXCEPT !.ban = ~ op[o].read.ban]]]]
        /\ UNCHANGED tabel /\ NothingCommitted

\* Any statement may fail: the transaction is rolled back, the cache is not.
OpFails(o) == Running(o) /\ OpEnds(o, 0, FALSE) /\ UNCHANGED tabel /\ NothingCommitted

\* An event of ERP, a login: another block, role or number.
ErpChanges ==
    /\ erp < MaxErp /\ erp' = erp + 1
    /\ \E p \in {p \in DOMAIN staff : ~ HeldRow(0, p)} :
          \/ Committed(0, [staff EXCEPT ![p].ban = ~ @])
          \/ Committed(0, [staff EXCEPT ![p].admin = ~ @])
          \/ \E n \in Tabel : /\ ~ TakenNumber(p, n) /\ ~ PendingNumber(0, n)
                              /\ Committed(0, [staff EXCEPT ![p].number = n])
    /\ UNCHANGED <<tabel, op>>

----------------------------------------------------------------------------

AdminInit ==
    /\ staff = FirstStaff /\ tabel = <<>> /\ op = [o \in Op |-> NoOp]
    /\ erp = 0 /\ sawFree = {} /\ lapped = {}

OpSteps(o) ==
    \/ LookForNumber(o) \/ InsertUser(o) \/ FindUser(o) \/ ForgetOldNumber(o)
    \/ RememberNewNumber(o) \/ SaveUser(o) \/ CommitUser(o) \/ AskCache(o)
    \/ QueryNumber(o) \/ RememberAnswer(o) \/ FindToBlock(o) \/ CountAdministrators(o)
    \/ FlipBan(o) \/ OpFails(o)

AdminNext ==
    \/ \E o \in Op : \/ CallCreate(o) \/ CallUpdate(o) \/ CallCheck(o) \/ CallBlock(o)
                     \/ OpSteps(o) /\ erp' = erp
    \/ ErpChanges

AdminSpec == AdminInit /\ [][AdminNext]_adminVars

----------------------------------------------------------------------------
(* Properties. *)

\* A number answered as free was nobody's at a moment of the check, whatever the cache
\* has held since a change that failed, or missed of what ERP changed.
FreeNumberWasFree ==
    \A o \in Op : op[o].kind = "check" /\ op[o].ok /\ op[o].answer = 0 => o \in sawFree

\* "Нельзя заблокировать последнего администратора": a block takes the last one away only
\* if somebody else's change of who administers came between its count and its commit.
LastAdminStays ==
    [][\A o \in Op : op[o].kind = "block" /\ op[o].step = "commit" /\ op'[o].ok
                       /\ Administrators(staff) # {} /\ Administrators(staff') = {}
                     => o \in lapped]_adminVars
===============================================================================
