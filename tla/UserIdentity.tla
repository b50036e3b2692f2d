----------------------------- MODULE UserIdentity -----------------------------
(***************************************************************************)
(* Which row of users is which ERP user.  A row has two unique identities,  *)
(* erpId (may be empty) and serviceNumber; creation and change events       *)
(* (user-sync.consumer.ts), the ERP directory, logins by the central        *)
(* authority or by ERP (access-token.service.ts) and MCP requests           *)
(* (projects-mcp-auth.guard.ts) find a row by one or both of them and       *)
(* create, complete or relink it, each from what it read.                   *)
(***************************************************************************)
EXTENDS Naturals, FiniteSets

CONSTANTS
    Account,   \* ERP ids; one without a service number has the id for a number
    Number,    \* service numbers
    RowId,     \* bound: primary keys
    FirstRows, \* the rows at first
    Caller,    \* deliveries, logins and requests
    NoErp      \* no erpId

AnyNumber == Number \cup Account
UserRow == [erp : Account \cup {NoErp}, number : AnyNumber, ban : BOOLEAN]

ASSUME UserIdentityAssumption ==
    /\ NoErp \notin AnyNumber /\ 0 \notin RowId
    /\ DOMAIN FirstRows \subseteq RowId
    /\ FirstRows \in [DOMAIN FirstRows -> UserRow]
    /\ \A i, j \in DOMAIN FirstRows : i # j =>
           /\ FirstRows[i].number # FirstRows[j].number
           /\ FirstRows[i].erp = NoErp \/ FirstRows[i].erp # FirstRows[j].erp

VARIABLES
    users,   \* the rows: a function on the primary keys in use
    caller   \* what each caller wants, has read and is about to do

identityVars == <<users, caller>>

Login == {"legacy", "central", "mcp"}
Event == {"change", "ban"}
Sync == {"create", "directory"}

CallerState ==
    [kind : Login \cup Event \cup Sync \cup {"none"},
     erp : Account \cup {NoErp}, given : AnyNumber \cup {NoErp}, ban : BOOLEAN,
     step : {"idle", "find", "write", "bind", "find bound", "done"},
     attempt : 0..2, at : RowId \cup {0}, read : UserRow \cup {NoErp},
     locked : SUBSET RowId, answer : {"none", "ok", "refused", "error"}]

NoCall == [kind |-> "none", erp |-> NoErp, given |-> NoErp, ban |-> FALSE, step |-> "idle",
           attempt |-> 0, at |-> 0, read |-> NoErp, locked |-> {}, answer |-> "none"]

Is(c, kinds, step) == caller[c].kind \in kinds /\ caller[c].step = step

\* What the caller says the service number is: ERP's, or the id in its place.
NumberOf(c) == IF caller[c].given = NoErp THEN caller[c].erp ELSE caller[c].given

ByErp(e) == {i \in DOMAIN users : users[i].erp = e}
ByNumber(n) == {i \in DOMAIN users : users[i].number = n}
Candidates(c) == ByErp(caller[c].erp) \cup ByNumber(NumberOf(c))
LockedRow(c, i) == \E o \in Caller \ {c} : i \in caller[o].locked

\* The unique indexes of erpId and serviceNumber.
Unique(rows) == \A i, j \in DOMAIN rows : i # j =>
    rows[i].number # rows[j].number /\ (rows[i].erp = NoErp \/ rows[i].erp # rows[j].erp)

Put(i, new) == [j \in DOMAIN users \cup {i} |-> IF j = i THEN new ELSE users[j]]
NewId == CHOOSE i \in RowId : i \notin DOMAIN users

ToStep(c, step) == caller' = [caller EXCEPT ![c] = [@ EXCEPT !.step = step]]
CallEnds(c, answer) ==
    caller' = [caller EXCEPT ![c] = [@ EXCEPT !.step = "done", !.answer = answer, !.locked = {}]]
CallRefused(c) == CallEnds(c, "refused") /\ UNCHANGED users

\* Mutant of ViolationEnds: the first violation ends a delivery too.
EndAtOnce(c) == CallEnds(c, "error")
\* A unique violation: a delivery starts once again, any other call fails.
ViolationEnds(c) ==
    IF caller[c].kind \in Sync /\ caller[c].attempt = 1
    THEN caller' = [caller EXCEPT ![c] = [@ EXCEPT !.step = "find", !.attempt = 2, !.locked = {}]]
    ELSE CallEnds(c, "error")

\* One INSERT or UPDATE of row i, and the end of the transaction around it.
Writes(c, i, new) ==
    IF Unique(Put(i, new)) THEN users' = Put(i, new) /\ CallEnds(c, "ok")
    ELSE UNCHANGED users /\ ViolationEnds(c)

\* An UPDATE writes the fields that differ from those the caller has read.
Changed(c, wanted) ==
    LET i == caller[c].at
    IN  [f \in DOMAIN wanted |-> IF wanted[f] = caller[c].read[f] THEN users[i][f] ELSE wanted[f]]

----------------------------------------------------------------------------

Comes(c, kind, e, n, ban) ==
    /\ caller[c] = NoCall
    /\ caller' = [caller EXCEPT ![c] = [NoCall EXCEPT !.kind = kind, !.erp = e, !.given = n,
                                          !.ban = ban, !.step = "find", !.attempt = 1]]
    /\ UNCHANGED users

\* The payload of user.create, and an entry of the directory; a banned entry is skipped.
EventComes(c) == \E e \in Account, n \in Number \cup {NoErp}, ban \in BOOLEAN :
                    Comes(c, "create", e, n, ban)
EntryComes(c) == \E e \in Account, n \in Number : Comes(c, "directory", e, n, FALSE)
\* A verified external user, never a banned one.
LoginComes(c) == \E kind \in Login, e \in Account, n \in Number \cup {NoErp} :
                    Comes(c, kind, e, n, FALSE)
\* user.change of the number, user.ban and user.delete.
ChangeComes(c) == \E e \in Account, n \in Number : Comes(c, "change", e, n, FALSE)
BanComes(c) == \E e \in Account, ban \in BOOLEAN : Comes(c, "ban", e, NoErp, ban)

----------------------------------------------------------------------------
(* synchronizeUser. *)

\* Mutant of FindForUpdate: without FOR UPDATE.
FindForSync(c) ==
    /\ Is(c, Sync, "find")
    /\ IF Cardinality(Candidates(c)) = 2 THEN CallEnds(c, "error")
       ELSE LET i == IF Candidates(c) = {} THEN 0 ELSE CHOOSE i \in Candidates(c) : TRUE
            IN  caller' = [caller EXCEPT ![c] = [@ EXCEPT !.step = "write", !.at = i,
                             !.read = IF i = 0 THEN NoErp ELSE users[i]]]
    /\ UNCHANGED users

\* The rows with one of the identities, FOR UPDATE; two of them are a conflict.
FindForUpdate(c) ==
    /\ Is(c, Sync, "find") /\ \A i \in Candidates(c) : ~ LockedRow(c, i)
    /\ IF Cardinality(Candidates(c)) = 2 THEN CallEnds(c, "error")
       ELSE LET i == IF Candidates(c) = {} THEN 0 ELSE CHOOSE i \in Candidates(c) : TRUE
            IN  caller' = [caller EXCEPT ![c] = [@ EXCEPT !.step = "write", !.at = i,
                             !.read = IF i = 0 THEN NoErp ELSE users[i],
                             !.locked = Candidates(c)]]
    /\ UNCHANGED users

Incoming(c) == [erp |-> caller[c].erp, number |-> NumberOf(c), ban |-> caller[c].ban]

CreateFromSync(c) ==
    /\ Is(c, Sync, "write") /\ caller[c].at = 0 /\ DOMAIN users # RowId
    /\ Writes(c, NewId, Incoming(c))

UpdateFromSync(c) ==
    /\ Is(c, Sync, "write") /\ caller[c].at # 0
    /\ IF caller[c].kind = "directory" THEN CallEnds(c, "ok") /\ UNCHANGED users
       ELSE Writes(c, caller[c].at, Changed(c, Incoming(c)))

----------------------------------------------------------------------------
(* syncBoardUser: logins. *)

\* The rows with one of the identities, not locked.
FindForLogin(c) ==
    /\ Is(c, {"legacy", "central"}, "find")
    /\ LET byErp == ByErp(caller[c].erp)
           byNumber == ByNumber(NumberOf(c))
           i == IF Candidates(c) = {} THEN 0 ELSE CHOOSE i \in Candidates(c) : TRUE
           legacyLink == caller[c].kind = "legacy" /\ byErp = {} /\ byNumber # {}
           free == i # 0 /\ caller[c].given # NoErp /\ users[i].erp = NoErp /\ ~ users[i].ban
       IN  IF Cardinality(Candidates(c)) = 2 \/ (legacyLink /\ ~ free) THEN CallRefused(c)
           ELSE /\ caller' = [caller EXCEPT ![c] =
                      [@ EXCEPT !.step = IF legacyLink THEN "bind" ELSE "write", !.at = i,
                                !.read = IF i = 0 THEN NoErp ELSE users[i]]]
                /\ UNCHANGED users

\* Mutant of BindFreeRow: the row that was free when it was read.
BindReadRow(c) ==
    LET i == caller[c].at
    IN  /\ Is(c, {"legacy"}, "bind") /\ ~ LockedRow(c, i)
        /\ IF Unique(Put(i, [users[i] EXCEPT !.erp = caller[c].erp]))
           THEN /\ users' = Put(i, [users[i] EXCEPT !.erp = caller[c].erp])
                /\ ToStep(c, "find bound")
           ELSE CallEnds(c, "error") /\ UNCHANGED users

\* update where the row is still free and has the confirmed number.
BindFreeRow(c) ==
    LET i == caller[c].at
        bound == [users[i] EXCEPT !.erp = caller[c].erp]
        free == users[i].erp = NoErp /\ users[i].number = caller[c].given /\ ~ users[i].ban
    IN  /\ Is(c, {"legacy"}, "bind") /\ ~ LockedRow(c, i)
        /\ CASE ~ free -> ToStep(c, "find bound") /\ UNCHANGED users
             [] free /\ Unique(Put(i, bound)) -> users' = Put(i, bound) /\ ToStep(c, "find bound")
             [] OTHER -> CallEnds(c, "error") /\ UNCHANGED users

\* The row must be the one that was bound: another login may have claimed it.
FindBound(c) ==
    /\ Is(c, {"legacy"}, "find bound")
    /\ IF ByErp(caller[c].erp) = {caller[c].at}
       THEN /\ caller' = [caller EXCEPT ![c] =
                   [@ EXCEPT !.step = "write", !.read = users[caller[c].at]]]
            /\ UNCHANGED users
       ELSE CallRefused(c)

\* upsertBoardUser of an MCP request: by erpId only.
FindForMcp(c) ==
    /\ Is(c, {"mcp"}, "find")
    /\ LET i == IF ByErp(caller[c].erp) = {} THEN 0 ELSE CHOOSE i \in ByErp(caller[c].erp) : TRUE
       IN  caller' = [caller EXCEPT ![c] = [@ EXCEPT !.step = "write", !.at = i,
                        !.read = IF i = 0 THEN NoErp ELSE users[i]]]
    /\ UNCHANGED users

CreateAtLogin(c) ==
    /\ Is(c, Login, "write") /\ caller[c].at = 0 /\ DOMAIN users # RowId
    /\ Writes(c, NewId, Incoming(c))

\* By the primary key, whatever the row has become since.
UpdateAtLogin(c) ==
    /\ Is(c, Login, "write") /\ caller[c].at # 0 /\ ~ LockedRow(c, caller[c].at)
    /\ Writes(c, caller[c].at, Changed(c, Incoming(c)))

----------------------------------------------------------------------------
(* handleChange, handleBan, handleDelete: a row found by erpId, without a lock. *)

FindForEvent(c) ==
    /\ Is(c, Event, "find")
    /\ IF ByErp(caller[c].erp) = {} THEN CallEnds(c, "ok")
       ELSE LET i == CHOOSE i \in ByErp(caller[c].erp) : TRUE
            IN  caller' = [caller EXCEPT ![c] = [@ EXCEPT !.step = "write", !.at = i,
                                                          !.read = users[i]]]
    /\ UNCHANGED users

\* Only the changed fields are saved.
SaveEvent(c) ==
    LET read == caller[c].read
    IN  /\ Is(c, Event, "write") /\ ~ LockedRow(c, caller[c].at)
        /\ Writes(c, caller[c].at,
                  Changed(c, IF caller[c].kind = "ban" THEN [read EXCEPT !.ban = caller[c].ban]
                             ELSE [read EXCEPT !.number = caller[c].given]))

----------------------------------------------------------------------------

IdentityInit == users = FirstRows /\ caller = [c \in Caller |-> NoCall]

IdentityNext ==
    \E c \in Caller :
       \/ EventComes(c) \/ EntryComes(c) \/ LoginComes(c) \/ ChangeComes(c) \/ BanComes(c)
       \/ FindForUpdate(c) \/ CreateFromSync(c) \/ UpdateFromSync(c)
       \/ FindForLogin(c) \/ BindFreeRow(c) \/ FindBound(c) \/ FindForMcp(c)
       \/ CreateAtLogin(c) \/ UpdateAtLogin(c) \/ FindForEvent(c) \/ SaveEvent(c)

IdentitySpec == IdentityInit /\ [][IdentityNext]_identityVars

----------------------------------------------------------------------------
(* Properties. *)

Steps(c) == caller'[c] # caller[c]

\* An existing row gets another erpId only from a caller entitled to it at that moment:
\* an ERP login takes nothing but a free, unblocked row with the confirmed number
\* ("только свободную запись по явно подтверждённому табелю"), a delivery takes a row
\* that has its number; a central login alone relinks what it read earlier.
LinksAreConfirmed ==
    [][\A i \in DOMAIN users : users'[i].erp # users[i].erp =>
          \E c \in Caller :
             /\ Steps(c) /\ users'[i].erp = caller[c].erp
             /\ \/ caller[c].kind = "central"
                \/ /\ caller[c].kind = "legacy" /\ users[i].number = caller[c].given
                   /\ users[i].erp = NoErp /\ ~ users[i].ban
                \/ caller[c].kind = "create" /\ users[i].number = NumberOf(c)
      ]_identityVars

\* Two claims agree if they have both identities in common or none.
Agree(e, n, f, m) == (e = f) <=> (n = m)

\* A creation that is delivered twice, or meets logins, events and the directory, ends
\* without an error if all of them, and the rows there were, agree on who is who.
AgreeingDeliveriesSucceed ==
    \A c \in Caller : caller[c].kind \in Sync /\ caller[c].answer = "error" =>
        \/ \E o \in Caller : caller[o].kind \notin {"none", "ban"}
              /\ ~ Agree(caller[c].erp, NumberOf(c), caller[o].erp, NumberOf(o))
        \/ \E i \in DOMAIN FirstRows : FirstRows[i].erp # NoErp
              /\ ~ Agree(caller[c].erp, NumberOf(c), FirstRows[i].erp, FirstRows[i].number)
===============================================================================
