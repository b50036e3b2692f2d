----------------------------- MODULE UsersProofs ------------------------------
(***************************************************************************)
(* The rows of users, their ERP identities and the staff directory, for    *)
(* every number of callers, rows, identities and snapshots:                *)
(* LinksAreConfirmed and AgreeingDeliveriesSucceed of UserIdentity,        *)
(* FreeNumberWasFree and LastAdminStays of UserAdmin,                      *)
(* ClosedWindowIsComplete of UserDirectory.                                *)
(***************************************************************************)
EXTENDS UserIdentity, UserAdmin, UserDirectory, FiniteSetTheorems, TLAPS

----------------------------------------------------------------------------
(* UserIdentity. What a caller knows of its row when it writes it depends on its kind: a
   delivery holds the lock on the row, so that the row is what it has read; an ERP login, an
   MCP request and an event have read its erpId and write it back, if they write it at all. *)

\* What a caller remembers, for the rows there are.
Remembers(s, rows) ==
    /\ s \in CallerState
    /\ s.kind # "none" => s.step # "idle"
    /\ s.step # "idle" => s.erp \in Account
    /\ s.kind = "change" => s.given \in Number
    /\ s.step = "write" /\ s.at # 0 => s.at \in DOMAIN rows /\ s.read \in UserRow
    /\ s.step \in {"bind", "find bound"} => s.at \in DOMAIN rows
    /\ s.kind \in Event /\ s.step = "write" => s.at # 0
    /\ s.locked \subseteq DOMAIN rows
    /\ s.locked # {} => s.kind \in Sync /\ s.step = "write"

\* A delivery has read the row it holds, and found it by one of its identities.
HoldsItsRow(s, rows) ==
    s.kind \in Sync /\ s.step = "write" /\ s.at # 0 =>
        /\ s.at \in s.locked /\ rows[s.at] = s.read
        /\ \/ s.read.erp = s.erp
           \/ s.read.number = IF s.given = NoErp THEN s.erp ELSE s.given

\* The erpId that an ERP login or an MCP request writes is the one it has read.
KeepsErp(s) == s.kind \in {"legacy", "mcp"} /\ s.step = "write" /\ s.at # 0 => s.read.erp = s.erp

Writing(c) == caller[c].step = "write" /\ caller[c].at # 0

Knows(s, rows) == Remembers(s, rows) /\ HoldsItsRow(s, rows) /\ KeepsErp(s)

IdentityInv ==
    /\ users \in [DOMAIN users -> UserRow] /\ DOMAIN users \subseteq RowId
    /\ Unique(users)
    /\ caller \in [Caller -> CallerState]
    /\ \A c \in Caller : Knows(caller[c], users)
    /\ \A c, d \in Caller : c # d => caller[c].locked \cap caller[d].locked = {}

----------------------------------------------------------------------------
(* The two kinds of step: a caller goes on, with or without writing a row. *)

\* A caller goes on and the rows stay.
LEMMA GoesOn ==
    ASSUME IdentityInv, NEW c \in Caller, NEW new, caller' = [caller EXCEPT ![c] = new],
           Knows(new, users), UNCHANGED users,
           \A d \in Caller \ {c} : new.locked \cap caller[d].locked = {}
    PROVE  IdentityInv'
<1>1. new \in CallerState
  BY DEF Knows, Remembers
<1>2. /\ caller' \in [Caller -> CallerState] /\ caller'[c] = new
      /\ \A d \in Caller \ {c} : caller'[d] = caller[d]
  BY <1>1 DEF IdentityInv
<1>3. \A d \in Caller : Knows(caller'[d], users')
  BY <1>2 DEF IdentityInv
<1>4. \A d, e \in Caller : d # e => caller'[d].locked \cap caller'[e].locked = {}
  BY <1>2 DEF IdentityInv
<1>5. users' \in [DOMAIN users' -> UserRow] /\ DOMAIN users' \subseteq RowId /\ Unique(users')
  BY DEF IdentityInv
<1>. QED BY <1>2, <1>3, <1>4, <1>5 DEF IdentityInv, Unique

\* A written row is the new one; the others are as they were.
LEMMA PutRow ==
    ASSUME IdentityInv, NEW i \in RowId, NEW r \in UserRow
    PROVE  /\ Put(i, r) \in [DOMAIN Put(i, r) -> UserRow]
           /\ DOMAIN Put(i, r) = DOMAIN users \cup {i} /\ DOMAIN Put(i, r) \subseteq RowId
           /\ Put(i, r)[i] = r
           /\ \A j \in DOMAIN users : j # i => Put(i, r)[j] = users[j]
BY DEF IdentityInv, Put

\* A caller writes a row that no other one holds, and knows no row after it but this one.
LEMMA WritesRow ==
    ASSUME IdentityInv, NEW c \in Caller, NEW new, caller' = [caller EXCEPT ![c] = new],
           NEW i \in RowId, NEW r \in UserRow, users' = Put(i, r), Unique(Put(i, r)),
           \A d \in Caller \ {c} : i \notin caller[d].locked,
           Remembers(new, users'), new.step # "write", new.locked = {}
    PROVE  IdentityInv'
<1>1. new \in CallerState
  BY DEF Remembers
<1>2. /\ caller' \in [Caller -> CallerState] /\ caller'[c] = new
      /\ \A d \in Caller \ {c} : caller'[d] = caller[d]
  BY <1>1 DEF IdentityInv
<1>8. /\ DOMAIN users' = DOMAIN users \cup {i}
      /\ \A j \in DOMAIN users : j # i => users'[j] = users[j]
  <2>1. DOMAIN Put(i, r) = DOMAIN users \cup {i}
    BY PutRow
  <2>2. \A j \in DOMAIN users : j # i => Put(i, r)[j] = users[j]
    BY PutRow
  <2>. QED BY <2>1, <2>2
<1>3. Knows(new, users')
  BY DEF Knows, HoldsItsRow, KeepsErp
<1>4. ASSUME NEW d \in Caller \ {c} PROVE Knows(caller[d], users')
  <2>1. Knows(caller[d], users)
    BY DEF IdentityInv
  <2>2. Remembers(caller[d], users')
    BY <1>8, <2>1 DEF Knows, Remembers
  <2>3. HoldsItsRow(caller[d], users')
    <3>. SUFFICES ASSUME caller[d].kind \in Sync, caller[d].step = "write", caller[d].at # 0
                  PROVE  users'[caller[d].at] = users[caller[d].at]
      BY <2>1 DEF Knows, HoldsItsRow
    <3>1. caller[d].at \in caller[d].locked /\ caller[d].locked \subseteq DOMAIN users
      BY <2>1 DEF Knows, HoldsItsRow, Remembers
    <3>. QED BY <1>8, <3>1
  <2>. QED BY <2>1, <2>2, <2>3 DEF Knows
<1>5. \A d \in Caller : Knows(caller'[d], users')
  BY <1>2, <1>3, <1>4
<1>6. \A d, e \in Caller : d # e => caller'[d].locked \cap caller'[e].locked = {}
  BY <1>2 DEF IdentityInv
<1>7. users' \in [DOMAIN users' -> UserRow] /\ DOMAIN users' \subseteq RowId /\ Unique(users')
  BY PutRow
<1>. QED BY <1>2, <1>5, <1>6, <1>7 DEF IdentityInv, Unique

\* What is left of a caller that ends, and of a delivery that starts again.
LEMMA EndedState ==
    ASSUME IdentityInv, NEW c \in Caller, NEW answer \in {"ok", "refused", "error"}, NEW rows,
           caller[c].step # "idle",
           NEW new, new = [caller[c] EXCEPT !.step = "done", !.answer = answer, !.locked = {}]
    PROVE  Knows(new, rows) /\ Remembers(new, rows) /\ new.step = "done" /\ new.locked = {}
<1>1. caller[c] \in CallerState /\ Remembers(caller[c], users)
  BY DEF IdentityInv, Knows
<1>2. /\ new \in CallerState /\ new.step = "done" /\ new.locked = {}
      /\ new.kind = caller[c].kind /\ new.erp = caller[c].erp /\ new.given = caller[c].given
  BY <1>1 DEF CallerState
<1>3. Remembers(new, rows)
  BY <1>1, <1>2 DEF Remembers
<1>4. Knows(new, rows)
  BY <1>2, <1>3 DEF Knows, HoldsItsRow, KeepsErp
<1>. QED BY <1>2, <1>3, <1>4

LEMMA AgainState ==
    ASSUME IdentityInv, NEW c \in Caller, caller[c].step # "idle",
           NEW new, new = [caller[c] EXCEPT !.step = "find", !.attempt = 2, !.locked = {}]
    PROVE  Knows(new, users) /\ new.step = "find" /\ new.locked = {}
<1>1. caller[c] \in CallerState /\ Remembers(caller[c], users)
  BY DEF IdentityInv, Knows
<1>3. 2 \in 0..2 /\ {} \in SUBSET RowId
  OBVIOUS
<1>2. /\ new \in CallerState /\ new.step = "find" /\ new.locked = {}
      /\ new.kind = caller[c].kind /\ new.erp = caller[c].erp /\ new.given = caller[c].given
  <2>1. new.step = "find" /\ new.locked = {} /\ new.attempt = 2
        /\ new.kind = caller[c].kind /\ new.erp = caller[c].erp /\ new.given = caller[c].given
    BY <1>1 DEF CallerState
  <2>2. new \in CallerState
    BY <1>1, <1>3 DEF CallerState
  <2>. QED BY <2>1, <2>2
<1>4. Remembers(new, users)
  BY <1>1, <1>2 DEF Remembers
<1>. QED BY <1>2, <1>4 DEF Knows, HoldsItsRow, KeepsErp

LEMMA CallEndsKeeps ==
    ASSUME IdentityInv, NEW c \in Caller, NEW answer \in {"ok", "refused", "error"},
           caller[c].step # "idle", CallEnds(c, answer), UNCHANGED users
    PROVE  IdentityInv'
<1>. DEFINE new == [caller[c] EXCEPT !.step = "done", !.answer = answer, !.locked = {}]
<1>1. caller' = [caller EXCEPT ![c] = new]
  BY DEF CallEnds
<1>2. Knows(new, users) /\ new.locked = {}
  BY EndedState
<1>. HIDE DEF new
<1>. QED BY <1>1, <1>2, GoesOn

LEMMA ViolationEndsKeeps ==
    ASSUME IdentityInv, NEW c \in Caller, caller[c].step # "idle", ViolationEnds(c),
           UNCHANGED users
    PROVE  IdentityInv'
<1>. DEFINE new == [caller[c] EXCEPT !.step = "find", !.attempt = 2, !.locked = {}]
<1>1. CASE CallEnds(c, "error")
  BY <1>1, CallEndsKeeps
<1>2. CASE caller' = [caller EXCEPT ![c] = new]
  <2>1. Knows(new, users) /\ new.locked = {}
    BY AgainState
  <2>. HIDE DEF new
  <2>. QED BY <1>2, <2>1, GoesOn
<1>. QED BY <1>1, <1>2 DEF ViolationEnds

\* An INSERT or UPDATE of a row that no other caller holds.
LEMMA WritesKeeps ==
    ASSUME IdentityInv, NEW c \in Caller, caller[c].step # "idle", NEW i \in RowId,
           NEW r \in UserRow, \A d \in Caller \ {c} : i \notin caller[d].locked,
           Writes(c, i, r)
    PROVE  IdentityInv'
<1>. DEFINE new == [caller[c] EXCEPT !.step = "done", !.answer = "ok", !.locked = {}]
<1>1. CASE ~ Unique(Put(i, r))
  BY <1>1, ViolationEndsKeeps DEF Writes
<1>2. CASE Unique(Put(i, r))
  <2>1. users' = Put(i, r) /\ caller' = [caller EXCEPT ![c] = new]
    BY <1>2 DEF Writes, CallEnds
  <2>2. Remembers(new, users') /\ new.step = "done" /\ new.locked = {}
    BY EndedState
  <2>. HIDE DEF new
  <2>. QED BY <1>2, <2>1, <2>2, WritesRow
<1>. QED BY <1>1, <1>2

\* The erpId of a row that was there changes only in the row written, to the new one's.
LEMMA WritesLink ==
    ASSUME IdentityInv, NEW c \in Caller, NEW i \in RowId, NEW r \in UserRow,
           Writes(c, i, r), NEW j \in DOMAIN users, users'[j].erp # users[j].erp
    PROVE  j = i /\ users'[j].erp = r.erp
<1>1. users' = Put(i, r)
  BY DEF Writes
<1>2. Put(i, r)[i] = r /\ (j # i => Put(i, r)[j] = users[j])
  BY PutRow
<1>. QED BY <1>1, <1>2

\* What an UPDATE makes of the row.
LEMMA ChangedRow ==
    ASSUME IdentityInv, NEW c \in Caller, caller[c].at \in DOMAIN users,
           caller[c].read \in UserRow, NEW wanted \in UserRow
    PROVE  /\ Changed(c, wanted) \in UserRow
           /\ wanted.erp = caller[c].read.erp =>
                 Changed(c, wanted).erp = users[caller[c].at].erp
           /\ wanted.erp # caller[c].read.erp => Changed(c, wanted).erp = wanted.erp
<1>. DEFINE i == caller[c].at
            Field(f) == IF wanted[f] = caller[c].read[f] THEN users[i][f] ELSE wanted[f]
<1>1. users[i] \in UserRow
  BY DEF IdentityInv
<1>2. wanted = [erp |-> wanted.erp, number |-> wanted.number, ban |-> wanted.ban]
  BY DEF UserRow
<1>3. DOMAIN wanted = {"erp", "number", "ban"}
  BY <1>2
<1>4. Changed(c, wanted) = [f \in {"erp", "number", "ban"} |-> Field(f)]
  BY <1>3 DEF Changed
<1>5. Changed(c, wanted) = [erp |-> Field("erp"), number |-> Field("number"), ban |-> Field("ban")]
  BY <1>4
<1>6. /\ Field("erp") \in Account \cup {NoErp} /\ Field("number") \in AnyNumber
      /\ Field("ban") \in BOOLEAN
  BY <1>1 DEF UserRow
<1>. HIDE DEF Field
<1>7. Changed(c, wanted) \in UserRow /\ Changed(c, wanted).erp = Field("erp")
  BY <1>5, <1>6 DEF UserRow
<1>. QED BY <1>7 DEF Field

\* A caller that was sent has an id and, by NumberOf, a number.
LEMMA IncomingRow ==
    ASSUME IdentityInv, NEW c \in Caller, caller[c].step # "idle"
    PROVE  Incoming(c) \in UserRow /\ Incoming(c).erp = caller[c].erp
BY DEF IdentityInv, Knows, Remembers, CallerState, Incoming, NumberOf, UserRow, AnyNumber

\* A new row's key is nobody's.
LEMMA FreshKey ==
    ASSUME IdentityInv, DOMAIN users # RowId
    PROVE  NewId \in RowId /\ NewId \notin DOMAIN users
           /\ \A d \in Caller : NewId \notin caller[d].locked
<1>1. \E i \in RowId : i \notin DOMAIN users
  BY DEF IdentityInv
<1>2. NewId \in RowId /\ NewId \notin DOMAIN users
  BY <1>1 DEF NewId
<1>. QED BY <1>2 DEF IdentityInv, Knows, Remembers

----------------------------------------------------------------------------
(* One lemma for each action. *)

LEMMA ComesKeeps ==
    ASSUME IdentityInv, NEW c \in Caller, NEW kind \in Login \cup Event \cup Sync,
           NEW e \in Account, NEW n \in Number \cup {NoErp}, NEW ban \in BOOLEAN,
           kind = "change" => n \in Number, Comes(c, kind, e, n, ban)
    PROVE  IdentityInv'
<1>. DEFINE new == [NoCall EXCEPT !.kind = kind, !.erp = e, !.given = n, !.ban = ban,
                                  !.step = "find", !.attempt = 1]
<1>1. caller' = [caller EXCEPT ![c] = new] /\ UNCHANGED users
  BY DEF Comes
<1>2. /\ new.kind = kind /\ new.erp = e /\ new.given = n /\ new.step = "find"
      /\ new.locked = {}
  BY DEF NoCall
<1>3. new \in CallerState
  <2>1. 1 \in 0..2 /\ {} \in SUBSET RowId
    OBVIOUS
  <2>. QED BY <2>1 DEF NoCall, CallerState, AnyNumber
<1>4. Knows(new, users)
  BY <1>2, <1>3 DEF Knows, Remembers, HoldsItsRow, KeepsErp
<1>. HIDE DEF new
<1>. QED BY <1>1, <1>2, <1>4, GoesOn

\* A caller that is no delivery has read row i, or found none (0), and goes on to write it
\* or, for an ERP login, to bind it.
LEMMA FoundKeeps ==
    ASSUME IdentityInv, NEW c \in Caller, caller[c].step # "idle", caller[c].kind \notin Sync,
           NEW i \in DOMAIN users \cup {0}, NEW step \in {"write", "bind"},
           step = "bind" \/ caller[c].kind \in Event => i # 0,
           /\ caller[c].kind \in {"legacy", "mcp"} /\ step = "write" /\ i # 0
             => users[i].erp = caller[c].erp,
           caller' = [caller EXCEPT ![c] = [@ EXCEPT !.step = step, !.at = i,
                         !.read = IF i = 0 THEN NoErp ELSE users[i]]],
           UNCHANGED users
    PROVE  IdentityInv'
<1>. DEFINE read == IF i = 0 THEN NoErp ELSE users[i]
            new == [caller[c] EXCEPT !.step = step, !.at = i, !.read = read]
<1>1. caller' = [caller EXCEPT ![c] = new]
  BY DEF IdentityInv
<1>2. caller[c] \in CallerState /\ Remembers(caller[c], users) /\ 0 \notin DOMAIN users
  BY UserIdentityAssumption DEF IdentityInv, Knows
<1>3. i \in RowId \cup {0} /\ read \in UserRow \cup {NoErp} /\ (i # 0 => read = users[i] /\ read \in UserRow)
  BY DEF IdentityInv
<1>. HIDE DEF read
<1>4. /\ new.kind = caller[c].kind /\ new.erp = caller[c].erp /\ new.given = caller[c].given
      /\ new.step = step /\ new.at = i /\ new.read = read /\ new.locked = caller[c].locked
  BY <1>2 DEF CallerState
<1>5. new \in CallerState
  BY <1>2, <1>3 DEF CallerState
<1>. HIDE DEF new
<1>6. new.locked = {}
  BY <1>2, <1>4 DEF Remembers
<1>7. Remembers(new, users)
  BY <1>2, <1>3, <1>4, <1>5, <1>6 DEF Remembers
<1>8. HoldsItsRow(new, users) /\ KeepsErp(new)
  BY <1>3, <1>4 DEF HoldsItsRow, KeepsErp
<1>. QED BY <1>1, <1>6, <1>7, <1>8, GoesOn DEF Knows

LEMMA CandidatesAreRows ==
    ASSUME NEW c \in Caller
    PROVE  /\ Candidates(c) \subseteq DOMAIN users
           /\ \A i \in Candidates(c) :
                 users[i].erp = caller[c].erp \/ users[i].number = NumberOf(c)
BY DEF Candidates, ByErp, ByNumber

LEMMA FindForUpdateKeeps ==
    ASSUME IdentityInv, NEW c \in Caller, FindForUpdate(c)
    PROVE  IdentityInv'
<1>1. /\ caller[c].kind \in Sync /\ caller[c].step = "find" /\ UNCHANGED users
      /\ \A d \in Caller \ {c} : Candidates(c) \cap caller[d].locked = {}
  BY DEF FindForUpdate, Is, LockedRow
<1>2. CASE Cardinality(Candidates(c)) = 2
  BY <1>1, <1>2, CallEndsKeeps DEF FindForUpdate
<1>3. CASE Cardinality(Candidates(c)) # 2
  <2>. DEFINE i == IF Candidates(c) = {} THEN 0 ELSE CHOOSE i \in Candidates(c) : TRUE
              read == IF i = 0 THEN NoErp ELSE users[i]
              new == [caller[c] EXCEPT !.step = "write", !.at = i, !.read = read,
                                       !.locked = Candidates(c)]
  <2>1. caller' = [caller EXCEPT ![c] = new]
    BY <1>3 DEF FindForUpdate, IdentityInv
  <2>2. caller[c] \in CallerState /\ Remembers(caller[c], users)
    BY DEF IdentityInv, Knows
  <2>3. i # 0 => i \in Candidates(c)
    OBVIOUS
  <2>4. i \in RowId \cup {0} /\ Candidates(c) \in SUBSET RowId /\ Candidates(c) \subseteq DOMAIN users
    BY <2>3, CandidatesAreRows DEF IdentityInv
  <2>5. read \in UserRow \cup {NoErp} /\ (i # 0 => read = users[i] /\ read \in UserRow)
    BY <2>3, <2>4 DEF IdentityInv
  <2>. HIDE DEF i, read
  <2>6. /\ new.kind = caller[c].kind /\ new.erp = caller[c].erp /\ new.given = caller[c].given
        /\ new.step = "write" /\ new.at = i /\ new.read = read /\ new.locked = Candidates(c)
    BY <2>2 DEF CallerState
  <2>7. new \in CallerState
    BY <2>2, <2>4, <2>5 DEF CallerState
  <2>. HIDE DEF new
  <2>8. Remembers(new, users)
    BY <1>1, <2>2, <2>3, <2>4, <2>5, <2>6, <2>7 DEF Remembers, Sync, Event
  <2>9. HoldsItsRow(new, users)
    BY <2>3, <2>5, <2>6, CandidatesAreRows DEF HoldsItsRow, NumberOf
  <2>10. KeepsErp(new)
    BY <1>1, <2>6 DEF KeepsErp, Sync
  <2>. QED BY <1>1, <2>1, <2>6, <2>8, <2>9, <2>10, GoesOn DEF Knows
<1>. QED BY <1>2, <1>3

LEMMA CreateKeeps ==
    ASSUME IdentityInv, NEW c \in Caller, CreateFromSync(c) \/ CreateAtLogin(c)
    PROVE  IdentityInv'
<1>1. caller[c].step # "idle" /\ DOMAIN users # RowId /\ Writes(c, NewId, Incoming(c))
  BY DEF CreateFromSync, CreateAtLogin, Is
<1>. QED BY <1>1, FreshKey, IncomingRow, WritesKeeps

LEMMA UpdateFromSyncKeeps ==
    ASSUME IdentityInv, NEW c \in Caller, UpdateFromSync(c)
    PROVE  IdentityInv'
<1>1. caller[c].kind \in Sync /\ caller[c].step = "write" /\ caller[c].at # 0
  BY DEF UpdateFromSync, Is
<1>2. CASE caller[c].kind = "directory"
  BY <1>1, <1>2, CallEndsKeeps DEF UpdateFromSync
<1>3. CASE caller[c].kind # "directory"
  <2>1. Writes(c, caller[c].at, Changed(c, Incoming(c)))
    BY <1>3 DEF UpdateFromSync
  <2>2. /\ caller[c].at \in DOMAIN users /\ caller[c].at \in RowId /\ caller[c].read \in UserRow
        /\ caller[c].at \in caller[c].locked
    BY <1>1 DEF IdentityInv, Knows, Remembers, HoldsItsRow
  <2>3. \A d \in Caller \ {c} : caller[c].at \notin caller[d].locked
    BY <2>2 DEF IdentityInv
  <2>4. Changed(c, Incoming(c)) \in UserRow
    BY <1>1, <2>2, IncomingRow, ChangedRow
  <2>. QED BY <1>1, <2>1, <2>2, <2>3, <2>4, WritesKeeps
<1>. QED BY <1>2, <1>3

\* Each identity finds one row at most: if both find no second one, the row that the
\* erpId finds is the one chosen.
LEMMA ChosenByErp ==
    ASSUME IdentityInv, NEW c \in Caller, Cardinality(Candidates(c)) # 2,
           ByErp(caller[c].erp) # {}, caller[c].erp \in Account,
           NEW i, i \in Candidates(c)
    PROVE  i \in DOMAIN users /\ users[i].erp = caller[c].erp
<1>1. PICK a \in DOMAIN users : users[a].erp = caller[c].erp
  BY DEF ByErp
<1>2. CASE i \in ByErp(caller[c].erp)
  BY <1>2 DEF ByErp
<1>3. CASE i \notin ByErp(caller[c].erp)
  <2>1. i \in ByNumber(NumberOf(c)) /\ i # a
    BY <1>1, <1>3 DEF Candidates, ByErp
  <2>2. caller[c].erp # NoErp
    BY UserIdentityAssumption DEF AnyNumber
  <2>3. ByErp(caller[c].erp) = {a}
    BY <1>1, <2>2 DEF ByErp, IdentityInv, Unique
  <2>4. ByNumber(NumberOf(c)) = {i}
    BY <2>1 DEF ByNumber, IdentityInv, Unique
  <2>5. Candidates(c) = {a} \cup {i}
    BY <2>3, <2>4 DEF Candidates
  <2>6. IsFiniteSet({a}) /\ Cardinality({a}) = 1
    BY FS_Singleton
  <2>7. Cardinality({a} \cup {i}) = 2
    <3>1. i \notin {a}
      BY <2>1
    <3>2. Cardinality({a} \cup {i}) = IF i \in {a} THEN Cardinality({a}) ELSE Cardinality({a}) + 1
      BY <2>6, FS_AddElement
    <3>. QED BY <2>6, <3>1, <3>2
  <2>. QED BY <2>5, <2>7
<1>. QED BY <1>2, <1>3

LEMMA FindForLoginKeeps ==
    ASSUME IdentityInv, NEW c \in Caller, FindForLogin(c)
    PROVE  IdentityInv'
<1>. DEFINE byErp == ByErp(caller[c].erp)
            byNumber == ByNumber(NumberOf(c))
            i == IF Candidates(c) = {} THEN 0 ELSE CHOOSE i \in Candidates(c) : TRUE
            legacyLink == caller[c].kind = "legacy" /\ byErp = {} /\ byNumber # {}
            free == i # 0 /\ caller[c].given # NoErp /\ users[i].erp = NoErp /\ ~ users[i].ban
            step == IF legacyLink THEN "bind" ELSE "write"
<1>1. /\ caller[c].kind \in {"legacy", "central"} /\ caller[c].step = "find"
      /\ caller[c].kind \notin Sync \cup Event /\ caller[c].erp \in Account
  BY DEF FindForLogin, Is, Sync, Event, IdentityInv, Knows, Remembers
<1>2. CASE Cardinality(Candidates(c)) = 2 \/ (legacyLink /\ ~ free)
  <2>1. CallRefused(c)
    BY <1>2 DEF FindForLogin
  <2>. QED BY <1>1, <2>1, CallEndsKeeps DEF CallRefused
<1>3. CASE ~ (Cardinality(Candidates(c)) = 2 \/ (legacyLink /\ ~ free))
  <2>1. /\ caller' = [caller EXCEPT ![c] = [@ EXCEPT !.step = step, !.at = i,
                           !.read = IF i = 0 THEN NoErp ELSE users[i]]]
        /\ UNCHANGED users
    BY <1>3 DEF FindForLogin
  <2>2. i \in DOMAIN users \cup {0} /\ (legacyLink => i # 0)
    BY <1>3, CandidatesAreRows
  <2>3. caller[c].kind = "legacy" /\ ~ legacyLink /\ i # 0 => users[i].erp = caller[c].erp
    <3>. SUFFICES ASSUME caller[c].kind = "legacy", ~ legacyLink, i # 0
                  PROVE  users[i].erp = caller[c].erp
      OBVIOUS
    <3>1. i \in Candidates(c) /\ byErp # {}
      BY DEF Candidates
    <3>. QED BY <1>1, <1>3, <3>1, ChosenByErp
  <2>4. step \in {"write", "bind"} /\ (step = "bind" => i # 0)
        /\ (caller[c].kind \in {"legacy", "mcp"} /\ step = "write" /\ i # 0
              => users[i].erp = caller[c].erp)
    BY <1>1, <2>2, <2>3
  <2>. HIDE DEF i, step
  <2>. QED BY <1>1, <2>1, <2>2, <2>4, FoundKeeps
<1>. QED BY <1>2, <1>3

LEMMA FindForMcpKeeps ==
    ASSUME IdentityInv, NEW c \in Caller, FindForMcp(c)
    PROVE  IdentityInv'
<1>. DEFINE i == IF ByErp(caller[c].erp) = {} THEN 0
                 ELSE CHOOSE i \in ByErp(caller[c].erp) : TRUE
<1>1. /\ caller[c].kind = "mcp" /\ caller[c].step = "find" /\ caller[c].kind \notin Sync
      /\ caller[c].kind \notin Event
  BY DEF FindForMcp, Is, Sync, Event
<1>2. i \in DOMAIN users \cup {0} /\ (i # 0 => users[i].erp = caller[c].erp)
  BY DEF ByErp
<1>3. /\ caller' = [caller EXCEPT ![c] = [@ EXCEPT !.step = "write", !.at = i,
                       !.read = IF i = 0 THEN NoErp ELSE users[i]]]
      /\ UNCHANGED users
  BY DEF FindForMcp
<1>. HIDE DEF i
<1>. QED BY <1>1, <1>2, <1>3, FoundKeeps

LEMMA FindForEventKeeps ==
    ASSUME IdentityInv, NEW c \in Caller, FindForEvent(c)
    PROVE  IdentityInv'
<1>1. caller[c].kind \in Event /\ caller[c].step = "find" /\ UNCHANGED users
      /\ caller[c].kind \notin Sync /\ caller[c].kind \notin {"legacy", "mcp"}
  BY DEF FindForEvent, Is, Sync, Event
<1>2. CASE ByErp(caller[c].erp) = {}
  BY <1>1, <1>2, CallEndsKeeps DEF FindForEvent
<1>3. CASE ByErp(caller[c].erp) # {}
  <2>1. PICK i \in ByErp(caller[c].erp) :
           caller' = [caller EXCEPT ![c] = [@ EXCEPT !.step = "write", !.at = i,
                                                     !.read = users[i]]]
    BY <1>3 DEF FindForEvent
  <2>2. i \in DOMAIN users /\ i # 0
    BY UserIdentityAssumption DEF ByErp, IdentityInv
  <2>3. caller' = [caller EXCEPT ![c] = [@ EXCEPT !.step = "write", !.at = i,
                       !.read = IF i = 0 THEN NoErp ELSE users[i]]]
    BY <2>1, <2>2
  <2>4. caller[c].kind \in {"legacy", "mcp"} => FALSE
    BY <1>1
  <2>5. i \in DOMAIN users \cup {0} /\ caller[c].step # "idle"
    BY <1>1, <2>2
  <2>. QED BY <1>1, <2>2, <2>3, <2>4, <2>5, FoundKeeps
<1>. QED BY <1>2, <1>3

\* Moving on to "find bound" keeps all that a login remembers.
LEMMA ToFindBound ==
    ASSUME IdentityInv, NEW c \in Caller, Is(c, {"legacy"}, "bind"), NEW rows,
           DOMAIN users \subseteq DOMAIN rows,
           NEW new, new = [caller[c] EXCEPT !.step = "find bound"]
    PROVE  /\ Knows(new, rows) /\ Remembers(new, rows)
           /\ new.step = "find bound" /\ new.locked = {}
<1>1. caller[c] \in CallerState /\ Remembers(caller[c], users)
      /\ caller[c].kind = "legacy" /\ caller[c].step = "bind"
  BY DEF IdentityInv, Knows, Is
<1>2. /\ new \in CallerState /\ new.step = "find bound" /\ new.locked = caller[c].locked
      /\ new.kind = caller[c].kind /\ new.erp = caller[c].erp /\ new.given = caller[c].given
      /\ new.at = caller[c].at
  BY <1>1 DEF CallerState
<1>3. new.locked = {}
  BY <1>1, <1>2 DEF Remembers
<1>4. Remembers(new, rows)
  BY <1>1, <1>2, <1>3 DEF Remembers
<1>. QED BY <1>2, <1>3, <1>4 DEF Knows, HoldsItsRow, KeepsErp

\* The row with another erpId.
LEMMA BoundRow ==
    ASSUME IdentityInv, NEW i \in DOMAIN users, NEW e \in Account
    PROVE  [users[i] EXCEPT !.erp = e] \in UserRow /\ [users[i] EXCEPT !.erp = e].erp = e
BY DEF IdentityInv, UserRow

LEMMA BindFreeRowKeeps ==
    ASSUME IdentityInv, NEW c \in Caller, BindFreeRow(c)
    PROVE  IdentityInv'
<1>. DEFINE i == caller[c].at
            bound == [users[i] EXCEPT !.erp = caller[c].erp]
            free == users[i].erp = NoErp /\ users[i].number = caller[c].given /\ ~ users[i].ban
            new == [caller[c] EXCEPT !.step = "find bound"]
<1>1. /\ Is(c, {"legacy"}, "bind") /\ caller[c].step # "idle"
      /\ \A d \in Caller \ {c} : i \notin caller[d].locked
  BY DEF BindFreeRow, Is, LockedRow
<1>2. i \in DOMAIN users /\ i \in RowId /\ caller[c].erp \in Account
  BY <1>1 DEF IdentityInv, Knows, Remembers, Is
<1>3. bound \in UserRow
  BY <1>2, BoundRow
<1>4. CASE ~ free
  <2>1. caller' = [caller EXCEPT ![c] = new] /\ UNCHANGED users
    BY <1>4 DEF BindFreeRow, ToStep, IdentityInv
  <2>2. Knows(new, users) /\ new.locked = {}
    BY <1>1, ToFindBound
  <2>. HIDE DEF new
  <2>. QED BY <2>1, <2>2, GoesOn
<1>5. CASE free /\ Unique(Put(i, bound))
  <2>1. caller' = [caller EXCEPT ![c] = new] /\ users' = Put(i, bound)
    BY <1>5 DEF BindFreeRow, ToStep, IdentityInv
  <2>2. DOMAIN users \subseteq DOMAIN users'
    <3>1. DOMAIN Put(i, bound) = DOMAIN users \cup {i}
      BY DEF Put
    <3>. QED BY <2>1, <3>1
  <2>3. Remembers(new, users') /\ new.step = "find bound" /\ new.locked = {}
    BY <1>1, <2>2, ToFindBound
  <2>. HIDE DEF new, bound
  <2>. QED BY <1>1, <1>2, <1>3, <1>5, <2>1, <2>3, WritesRow
<1>6. CASE free /\ ~ Unique(Put(i, bound))
  BY <1>1, <1>6, CallEndsKeeps DEF BindFreeRow
<1>. QED BY <1>4, <1>5, <1>6

LEMMA FindBoundKeeps ==
    ASSUME IdentityInv, NEW c \in Caller, FindBound(c)
    PROVE  IdentityInv'
<1>. DEFINE i == caller[c].at
<1>1. /\ caller[c].kind = "legacy" /\ caller[c].kind \notin Sync \cup Event
      /\ caller[c].step = "find bound" /\ i \in DOMAIN users /\ i # 0
  BY UserIdentityAssumption DEF FindBound, Is, Sync, Event, IdentityInv, Knows, Remembers
<1>2. CASE ByErp(caller[c].erp) # {i}
  <2>1. CallRefused(c)
    BY <1>2 DEF FindBound
  <2>. QED BY <1>1, <2>1, CallEndsKeeps DEF CallRefused
<1>3. CASE ByErp(caller[c].erp) = {i}
  <2>1. users[i].erp = caller[c].erp
    BY <1>3 DEF ByErp
  <2>2. caller' = [caller EXCEPT ![c] = [@ EXCEPT !.step = "write", !.read = users[i]]]
        /\ UNCHANGED users
    BY <1>3 DEF FindBound
  <2>3. [caller[c] EXCEPT !.step = "write", !.read = users[i]]
          = [caller[c] EXCEPT !.step = "write", !.at = i,
                              !.read = IF i = 0 THEN NoErp ELSE users[i]]
    BY <1>1 DEF IdentityInv, CallerState
  <2>4. caller' = [caller EXCEPT ![c] = [@ EXCEPT !.step = "write", !.at = i,
                       !.read = IF i = 0 THEN NoErp ELSE users[i]]]
    BY <2>2, <2>3
  <2>. QED BY <1>1, <2>1, <2>2, <2>4, FoundKeeps
<1>. QED BY <1>2, <1>3

\* What a caller saves over the row it has read.
Saved(c) ==
    IF caller[c].kind = "ban" THEN [caller[c].read EXCEPT !.ban = caller[c].ban]
    ELSE [caller[c].read EXCEPT !.number = caller[c].given]

LEMMA SavedRow ==
    ASSUME IdentityInv, NEW c \in Caller, Writing(c), caller[c].kind \in Event
    PROVE  Saved(c) \in UserRow /\ Saved(c).erp = caller[c].read.erp
<1>1. /\ caller[c] \in CallerState /\ caller[c].read \in UserRow
      /\ caller[c].kind # "ban" => caller[c].given \in AnyNumber
  BY DEF IdentityInv, Knows, Remembers, Writing, Event, AnyNumber
<1>2. caller[c].ban \in BOOLEAN
  BY <1>1 DEF CallerState
<1>. QED BY <1>1, <1>2 DEF Saved, UserRow

LEMMA UpdateKeeps ==
    ASSUME IdentityInv, NEW c \in Caller, Writing(c), NEW wanted \in UserRow,
           ~ LockedRow(c, caller[c].at), Writes(c, caller[c].at, Changed(c, wanted))
    PROVE  IdentityInv'
<1>1. /\ caller[c].at \in DOMAIN users /\ caller[c].at \in RowId /\ caller[c].read \in UserRow
      /\ caller[c].step # "idle"
  BY DEF IdentityInv, Knows, Remembers, Writing
<1>2. Changed(c, wanted) \in UserRow
  BY <1>1, ChangedRow
<1>3. \A d \in Caller \ {c} : caller[c].at \notin caller[d].locked
  BY DEF LockedRow
<1>. QED BY <1>1, <1>2, <1>3, WritesKeeps

LEMMA UpdateAtLoginKeeps ==
    ASSUME IdentityInv, NEW c \in Caller, UpdateAtLogin(c)
    PROVE  IdentityInv'
<1>1. Writing(c) /\ ~ LockedRow(c, caller[c].at) /\ Incoming(c) \in UserRow
  BY IncomingRow DEF UpdateAtLogin, Is, Writing
<1>. QED BY <1>1, UpdateKeeps DEF UpdateAtLogin

LEMMA SaveEventKeeps ==
    ASSUME IdentityInv, NEW c \in Caller, SaveEvent(c)
    PROVE  IdentityInv'
<1>1. /\ Writing(c) /\ caller[c].kind \in Event /\ ~ LockedRow(c, caller[c].at)
      /\ Writes(c, caller[c].at, Changed(c, Saved(c)))
  BY DEF SaveEvent, Is, Writing, Saved, IdentityInv, Knows, Remembers
<1>. QED BY <1>1, SavedRow, UpdateKeeps

----------------------------------------------------------------------------

\* Every row has identities of its own, deliveries hold the rows they have read, and no
\* other caller writes an erpId it has not found.
THEOREM IdentityInvariant == IdentitySpec => []IdentityInv
<1>1. IdentityInit => IdentityInv
  <2>. SUFFICES ASSUME IdentityInit PROVE IdentityInv
    OBVIOUS
  <2>1. NoCall \in CallerState /\ NoCall.step = "idle" /\ NoCall.locked = {} /\ NoCall.kind = "none"
    BY DEF NoCall, CallerState
  <2>2. Knows(NoCall, users)
    BY <2>1 DEF Knows, Remembers, HoldsItsRow, KeepsErp
  <2>3. Unique(users)
    BY UserIdentityAssumption DEF IdentityInit, Unique
  <2>. QED BY <2>1, <2>2, <2>3, UserIdentityAssumption DEF IdentityInit, IdentityInv
<1>2. IdentityInv /\ [IdentityNext]_identityVars => IdentityInv'
  <2>. SUFFICES ASSUME IdentityInv, [IdentityNext]_identityVars PROVE IdentityInv'
    OBVIOUS
  <2>1. CASE UNCHANGED identityVars
    BY <2>1 DEF identityVars, IdentityInv, Unique
  <2>2. CASE IdentityNext
    <3>. PICK c \in Caller :
           \/ EventComes(c) \/ EntryComes(c) \/ LoginComes(c) \/ ChangeComes(c) \/ BanComes(c)
           \/ FindForUpdate(c) \/ CreateFromSync(c) \/ UpdateFromSync(c)
           \/ FindForLogin(c) \/ BindFreeRow(c) \/ FindBound(c) \/ FindForMcp(c)
           \/ CreateAtLogin(c) \/ UpdateAtLogin(c) \/ FindForEvent(c) \/ SaveEvent(c)
      BY <2>2 DEF IdentityNext
    <3>1. CASE EventComes(c) \/ EntryComes(c)
      BY <3>1, ComesKeeps DEF EventComes, EntryComes, Sync
    <3>2. CASE LoginComes(c)
      BY <3>2, ComesKeeps DEF LoginComes, Login
    <3>3. CASE ChangeComes(c) \/ BanComes(c)
      BY <3>3, ComesKeeps DEF ChangeComes, BanComes, Event
    <3>. QED BY <3>1, <3>2, <3>3, FindForUpdateKeeps, CreateKeeps, UpdateFromSyncKeeps,
                 FindForLoginKeeps, BindFreeRowKeeps, FindBoundKeeps, FindForMcpKeeps,
                 UpdateAtLoginKeeps, FindForEventKeeps, SaveEventKeeps
  <2>. QED BY <2>1, <2>2
<1>. QED BY <1>1, <1>2, PTL DEF IdentitySpec

----------------------------------------------------------------------------
(* Which erpId a step gives to a row that was there. *)

Link(j) == users'[j].erp # users[j].erp

\* The callers that can have changed the erpId of row j.
Confirmed(c, j) ==
    /\ Steps(c) /\ users'[j].erp = caller[c].erp
    /\ \/ caller[c].kind = "central"
       \/ /\ caller[c].kind = "legacy" /\ users[j].number = caller[c].given
          /\ users[j].erp = NoErp /\ ~ users[j].ban
       \/ caller[c].kind = "create" /\ users[j].number = NumberOf(c)

\* A write ends the call or starts it again.
LEMMA WritesStep ==
    ASSUME IdentityInv, NEW c \in Caller, caller[c].step = "write", NEW i, NEW r, Writes(c, i, r)
    PROVE  Steps(c)
<1>1. caller[c] \in CallerState
  BY DEF IdentityInv
<1>3. ASSUME NEW answer \in {"ok", "error"}, CallEnds(c, answer) PROVE caller'[c].step # "write"
  <2>. DEFINE new == [caller[c] EXCEPT !.step = "done", !.answer = answer, !.locked = {}]
  <2>1. caller' = [caller EXCEPT ![c] = new] /\ new.step = "done"
    BY <1>1, <1>3 DEF CallEnds, CallerState, IdentityInv
  <2>2. \A d \in Caller : d = c => caller'[d] = new
    BY <2>1 DEF IdentityInv
  <2>. HIDE DEF new
  <2>. QED BY <2>1, <2>2
<1>4. ASSUME ViolationEnds(c) PROVE caller'[c].step # "write"
  <2>. DEFINE new == [caller[c] EXCEPT !.step = "find", !.attempt = 2, !.locked = {}]
  <2>1. CASE CallEnds(c, "error")
    BY <1>3, <2>1
  <2>2. CASE caller' = [caller EXCEPT ![c] = new]
    <3>1. new.step = "find"
      BY <1>1 DEF CallerState
    <3>2. \A d \in Caller : d = c => caller'[d] = new
      BY <2>2 DEF IdentityInv
    <3>. HIDE DEF new
    <3>. QED BY <3>1, <3>2
  <2>. QED BY <1>4, <2>1, <2>2 DEF ViolationEnds
<1>5. caller'[c].step # "write"
  BY <1>3, <1>4 DEF Writes
<1>. QED BY <1>5 DEF Steps

LEMMA UpdateFromSyncLinks ==
    ASSUME IdentityInv, NEW c \in Caller, UpdateFromSync(c), NEW j \in DOMAIN users, Link(j)
    PROVE  Confirmed(c, j)
<1>1. /\ caller[c].kind \in Sync /\ caller[c].step = "write" /\ caller[c].at # 0
      /\ caller[c].kind # "directory"
  BY DEF UpdateFromSync, Is, Link
<1>2. /\ caller[c].at \in DOMAIN users /\ caller[c].at \in RowId /\ caller[c].read \in UserRow
      /\ users[caller[c].at] = caller[c].read
      /\ caller[c].read.erp = caller[c].erp \/ caller[c].read.number = NumberOf(c)
  BY <1>1 DEF IdentityInv, Knows, Remembers, HoldsItsRow, NumberOf
<1>3. Incoming(c) \in UserRow /\ Incoming(c).erp = caller[c].erp
  BY <1>1, IncomingRow
<1>4. Changed(c, Incoming(c)) \in UserRow /\ Writes(c, caller[c].at, Changed(c, Incoming(c)))
  BY <1>1, <1>2, <1>3, ChangedRow DEF UpdateFromSync
<1>5. j = caller[c].at /\ users'[j].erp = Changed(c, Incoming(c)).erp
  BY <1>2, <1>4, WritesLink DEF Link
<1>6. caller[c].erp # caller[c].read.erp /\ users'[j].erp = caller[c].erp
  BY <1>2, <1>3, <1>5, ChangedRow DEF Link
<1>7. Steps(c)
  BY <1>1, <1>4, WritesStep
<1>. QED BY <1>1, <1>2, <1>5, <1>6, <1>7 DEF Confirmed, Sync

LEMMA BindFreeRowLinks ==
    ASSUME IdentityInv, NEW c \in Caller, BindFreeRow(c), NEW j \in DOMAIN users, Link(j)
    PROVE  Confirmed(c, j)
<1>. DEFINE i == caller[c].at
            bound == [users[i] EXCEPT !.erp = caller[c].erp]
            free == users[i].erp = NoErp /\ users[i].number = caller[c].given /\ ~ users[i].ban
<1>1. Is(c, {"legacy"}, "bind")
  BY DEF BindFreeRow
<1>2. i \in DOMAIN users /\ i \in RowId /\ caller[c].erp \in Account /\ caller[c] \in CallerState
  BY <1>1 DEF IdentityInv, Knows, Remembers, Is
<1>3. free /\ users' = Put(i, bound) /\ ToStep(c, "find bound")
  BY DEF BindFreeRow, Link
<1>4. bound \in UserRow /\ bound.erp = caller[c].erp
  BY <1>2, BoundRow
<1>. HIDE DEF bound
<1>5. j = i /\ users'[j].erp = bound.erp
  <2>1. Put(i, bound)[i] = bound
    BY <1>2, <1>4, PutRow
  <2>2. j # i => Put(i, bound)[j] = users[j]
    BY DEF Put
  <2>. QED BY <1>3, <2>1, <2>2 DEF Link
<1>6. caller'[c].step = "find bound"
  BY <1>2, <1>3 DEF ToStep, IdentityInv, CallerState
<1>7. Steps(c)
  BY <1>1, <1>6 DEF Steps, Is
<1>. QED BY <1>1, <1>3, <1>4, <1>5, <1>7 DEF Confirmed, Is

LEMMA UpdateAtLoginLinks ==
    ASSUME IdentityInv, NEW c \in Caller, UpdateAtLogin(c), NEW j \in DOMAIN users, Link(j)
    PROVE  Confirmed(c, j)
<1>1. Writing(c) /\ caller[c].kind \in Login /\ caller[c].step # "idle"
      /\ Writes(c, caller[c].at, Changed(c, Incoming(c)))
  BY DEF UpdateAtLogin, Is, Writing
<1>2. /\ caller[c].at \in DOMAIN users /\ caller[c].at \in RowId /\ caller[c].read \in UserRow
      /\ caller[c].kind \in {"legacy", "mcp"} => caller[c].read.erp = caller[c].erp
  BY <1>1 DEF IdentityInv, Knows, Remembers, KeepsErp, Writing
<1>3. Incoming(c) \in UserRow /\ Incoming(c).erp = caller[c].erp
  BY <1>1, IncomingRow
<1>4. Changed(c, Incoming(c)) \in UserRow
  BY <1>2, <1>3, ChangedRow
<1>5. j = caller[c].at /\ users'[j].erp = Changed(c, Incoming(c)).erp
  BY <1>1, <1>2, <1>4, WritesLink DEF Link
<1>6. caller[c].erp # caller[c].read.erp /\ users'[j].erp = caller[c].erp
  BY <1>2, <1>3, <1>5, ChangedRow DEF Link
<1>7. Steps(c)
  BY <1>1, WritesStep DEF Writing
<1>. QED BY <1>1, <1>2, <1>6, <1>7 DEF Confirmed, Login

LEMMA SaveEventLinks ==
    ASSUME IdentityInv, NEW c \in Caller, SaveEvent(c), NEW j \in DOMAIN users
    PROVE  ~ Link(j)
<1>. SUFFICES ASSUME Link(j) PROVE FALSE
  OBVIOUS
<1>1. /\ Writing(c) /\ caller[c].kind \in Event
      /\ Writes(c, caller[c].at, Changed(c, Saved(c)))
  BY DEF SaveEvent, Is, Writing, Saved, IdentityInv, Knows, Remembers
<1>2. caller[c].at \in DOMAIN users /\ caller[c].at \in RowId /\ caller[c].read \in UserRow
  BY <1>1 DEF IdentityInv, Knows, Remembers, Writing
<1>3. Changed(c, Saved(c)) \in UserRow /\ Changed(c, Saved(c)).erp = users[caller[c].at].erp
  BY <1>1, <1>2, SavedRow, ChangedRow
<1>. QED BY <1>1, <1>2, <1>3, WritesLink DEF Link

LEMMA CreateLinks ==
    ASSUME IdentityInv, NEW c \in Caller, CreateFromSync(c) \/ CreateAtLogin(c),
           NEW j \in DOMAIN users
    PROVE  ~ Link(j)
<1>1. caller[c].step # "idle" /\ DOMAIN users # RowId /\ Writes(c, NewId, Incoming(c))
  BY DEF CreateFromSync, CreateAtLogin, Is
<1>. QED BY <1>1, FreshKey, IncomingRow, WritesLink DEF Link

\* Nobody takes a row over but an ERP login a free one, a delivery the one that has its
\* number, and a central login the one it read.
THEOREM LinksConfirmed == IdentitySpec => LinksAreConfirmed
<1>1. IdentityInv /\ [IdentityNext]_identityVars =>
         \A j \in DOMAIN users : Link(j) => \E c \in Caller : Confirmed(c, j)
  <2>. SUFFICES ASSUME IdentityInv, [IdentityNext]_identityVars, NEW j \in DOMAIN users, Link(j)
                PROVE  \E c \in Caller : Confirmed(c, j)
    OBVIOUS
  <2>1. IdentityNext /\ users' # users
    BY DEF Link, identityVars
  <2>2. PICK c \in Caller :
           \/ EventComes(c) \/ EntryComes(c) \/ LoginComes(c) \/ ChangeComes(c) \/ BanComes(c)
           \/ FindForUpdate(c) \/ CreateFromSync(c) \/ UpdateFromSync(c)
           \/ FindForLogin(c) \/ BindFreeRow(c) \/ FindBound(c) \/ FindForMcp(c)
           \/ CreateAtLogin(c) \/ UpdateAtLogin(c) \/ FindForEvent(c) \/ SaveEvent(c)
    BY <2>1 DEF IdentityNext
  <2>3. \/ CreateFromSync(c) \/ UpdateFromSync(c) \/ BindFreeRow(c)
        \/ CreateAtLogin(c) \/ UpdateAtLogin(c) \/ SaveEvent(c)
    BY <2>1, <2>2 DEF EventComes, EntryComes, LoginComes, ChangeComes, BanComes, Comes,
       FindForUpdate, FindForLogin, FindBound, FindForMcp, FindForEvent, CallRefused
  <2>. QED BY <2>3, UpdateFromSyncLinks, BindFreeRowLinks, UpdateAtLoginLinks,
               SaveEventLinks, CreateLinks
<1>2. (\A j \in DOMAIN users : Link(j) => \E c \in Caller : Confirmed(c, j)) =>
      (\A i \in DOMAIN users : users'[i].erp # users[i].erp =>
          \E c \in Caller :
             /\ Steps(c) /\ users'[i].erp = caller[c].erp
             /\ \/ caller[c].kind = "central"
                \/ /\ caller[c].kind = "legacy" /\ users[i].number = caller[c].given
                   /\ users[i].erp = NoErp /\ ~ users[i].ban
                \/ caller[c].kind = "create" /\ users[i].number = NumberOf(c))
  BY DEF Link, Confirmed
<1>. QED BY <1>1, <1>2, IdentityInvariant, PTL DEF IdentitySpec, LinksAreConfirmed

----------------------------------------------------------------------------
(* AgreeingDeliveriesSucceed. A claim is an erpId e with a service number n. When all who came
   and the rows there were agree with it, no row ever comes to belong to it that did not
   from the start, and a delivery of the claim that starts again finds such a row. *)

\* Whether the row r contradicts the claim.
RowAgrees(r, e, n) == r.erp # NoErp => ((r.erp = e) <=> (r.number = n))

\* All who came, but bans, and the first rows agree with the claim.
Agreed(e, n) ==
    /\ \A o \in Caller : caller[o].kind \notin {"none", "ban"} =>
          Agree(e, n, caller[o].erp, NumberOf(o))
    /\ \A i \in DOMAIN FirstRows : RowAgrees(FirstRows[i], e, n)

\* The caller has a row, which belongs to the claim only if the caller makes the claim.
PointsWell(s, rows, e, n) ==
    s.step \in {"write", "bind", "find bound"} /\ s.at # 0 =>
        s.at \in DOMAIN rows /\ ((rows[s.at].number = n) <=> (s.erp = e))

\* A delivery of the claim goes well, and finds a row the second time.
DeliversWell(s, rows, e, n) ==
    s.kind \in Sync =>
        /\ s.step # "idle" /\ s.attempt \in {1, 2}
        /\ s.erp = e => /\ s.answer # "error"
                        /\ s.attempt = 2 => \E i \in DOMAIN rows : rows[i].number = n
                        /\ s.attempt = 2 /\ s.step = "write" => s.at # 0

Told(s, rows, e, n) == PointsWell(s, rows, e, n) /\ DeliversWell(s, rows, e, n)

Settled(e, n) ==
    /\ \A i \in DOMAIN users : RowAgrees(users[i], e, n)
    /\ \A o \in Caller : Told(caller[o], users, e, n)

AgreeInv == \A e \in Account, n \in AnyNumber : Agreed(e, n) => Settled(e, n)

\* The rows that belong to the claim stay those.
Grows(rows, e, n) ==
    /\ DOMAIN users \subseteq DOMAIN rows
    /\ \A i \in DOMAIN rows : RowAgrees(rows[i], e, n)
    /\ \A i \in DOMAIN users : (rows[i].number = n) <=> (users[i].number = n)

LEMMA SettledKept ==
    ASSUME IdentityInv, NEW e \in Account, NEW n \in AnyNumber, Settled(e, n), NEW c \in Caller,
           NEW new, caller' = [caller EXCEPT ![c] = new], Grows(users', e, n),
           Told(new, users', e, n)
    PROVE  Settled(e, n)'
<1>1. \A o \in Caller : caller'[o] = IF o = c THEN new ELSE caller[o]
  BY DEF IdentityInv
<1>2. ASSUME NEW o \in Caller PROVE Told(caller[o], users', e, n)
  BY DEF Settled, Told, PointsWell, DeliversWell, Grows
<1>3. \A o \in Caller : Told(caller'[o], users', e, n)
  BY <1>1, <1>2
<1>. QED BY <1>3 DEF Settled, Grows

LEMMA SameRows ==
    ASSUME NEW e, NEW n, Settled(e, n), UNCHANGED users
    PROVE  Grows(users', e, n)
BY DEF Settled, Grows

\* A write that leaves the row where it belongs, or a new row.
LEMMA PutGrows ==
    ASSUME IdentityInv, NEW e, NEW n, Settled(e, n), NEW i \in RowId, NEW r \in UserRow,
           users' = Put(i, r), RowAgrees(r, e, n),
           i \in DOMAIN users => ((r.number = n) <=> (users[i].number = n))
    PROVE  Grows(users', e, n)
<1>1. DOMAIN users' = DOMAIN users \cup {i}
  BY PutRow
<1>2. users'[i] = r
  BY PutRow
<1>3. \A j \in DOMAIN users : j # i => users'[j] = users[j]
  BY PutRow
<1>. QED BY <1>1, <1>2, <1>3 DEF Grows, Settled

----------------------------------------------------------------------------
(* A call that ends, or starts again. *)

LEMMA EndSettles ==
    ASSUME IdentityInv, NEW e \in Account, NEW n \in AnyNumber, Settled(e, n), NEW c \in Caller,
           NEW answer \in {"ok", "refused", "error"}, CallEnds(c, answer),
           Grows(users', e, n),
           answer = "error" => ~(caller[c].kind \in Sync /\ caller[c].erp = e)
    PROVE  Settled(e, n)'
<1>. DEFINE new == [caller[c] EXCEPT !.step = "done", !.answer = answer, !.locked = {}]
<1>1. caller[c] \in CallerState
  BY DEF IdentityInv
<1>2. caller' = [caller EXCEPT ![c] = new]
  BY DEF CallEnds
<1>3. /\ new.step = "done" /\ new.answer = answer /\ new.kind = caller[c].kind
      /\ new.erp = caller[c].erp /\ new.attempt = caller[c].attempt
  BY <1>1 DEF CallerState
<1>. HIDE DEF new
<1>4. Told(new, users', e, n)
  BY <1>3 DEF Told, PointsWell, DeliversWell, Settled, Grows
<1>. QED BY <1>2, <1>4, SettledKept

LEMMA ViolationSettles ==
    ASSUME IdentityInv, NEW e \in Account, NEW n \in AnyNumber, Settled(e, n), NEW c \in Caller,
           ViolationEnds(c), UNCHANGED users,
           caller[c].kind \in Sync /\ caller[c].erp = e =>
               caller[c].attempt # 2 /\ \E j \in DOMAIN users : users[j].number = n
    PROVE  Settled(e, n)'
<1>. DEFINE new == [caller[c] EXCEPT !.step = "find", !.attempt = 2, !.locked = {}]
<1>1. caller[c] \in CallerState /\ Grows(users', e, n)
  BY SameRows DEF IdentityInv
<1>2. CASE caller[c].kind \in Sync /\ caller[c].attempt = 1
  <2>1. caller' = [caller EXCEPT ![c] = new]
    BY <1>2 DEF ViolationEnds
  <2>2. /\ new.step = "find" /\ new.attempt = 2 /\ new.kind = caller[c].kind
        /\ new.erp = caller[c].erp /\ new.answer = caller[c].answer
    BY <1>1 DEF CallerState
  <2>. HIDE DEF new
  <2>3. Told(new, users', e, n)
    BY <2>2 DEF Told, PointsWell, DeliversWell, Settled
  <2>. QED BY <1>1, <2>1, <2>3, SettledKept
<1>3. CASE ~ (caller[c].kind \in Sync /\ caller[c].attempt = 1)
  <2>1. ~ (caller[c].kind \in Sync /\ caller[c].erp = e)
    BY <1>3 DEF Settled, Told, DeliversWell
  <2>. QED BY <1>1, <1>3, <2>1, EndSettles DEF ViolationEnds
<1>. QED BY <1>2, <1>3

LEMMA WritesSettle ==
    ASSUME IdentityInv, NEW e \in Account, NEW n \in AnyNumber, Settled(e, n), NEW c \in Caller,
           NEW i \in RowId, NEW r \in UserRow, Writes(c, i, r), RowAgrees(r, e, n),
           i \in DOMAIN users => ((r.number = n) <=> (users[i].number = n)),
           caller[c].kind \in Sync /\ caller[c].erp = e /\ ~ Unique(Put(i, r)) =>
               caller[c].attempt # 2 /\ \E j \in DOMAIN users : users[j].number = n
    PROVE  Settled(e, n)'
<1>1. CASE Unique(Put(i, r))
  <2>1. users' = Put(i, r) /\ CallEnds(c, "ok")
    BY <1>1 DEF Writes
  <2>2. Grows(users', e, n)
    BY <2>1, PutGrows
  <2>. QED BY <2>1, <2>2, EndSettles
<1>2. CASE ~ Unique(Put(i, r))
  BY <1>2, ViolationSettles DEF Writes
<1>. QED BY <1>1, <1>2

\* A call that has chosen row i, or none, and goes on.
LEMMA ChoiceSettles ==
    ASSUME IdentityInv, NEW e \in Account, NEW n \in AnyNumber, Settled(e, n), NEW c \in Caller,
           NEW i, NEW step, NEW read, NEW locked, UNCHANGED users,
           caller' = [caller EXCEPT ![c] = [caller[c] EXCEPT !.step = step, !.at = i,
                                                !.read = read, !.locked = locked]],
           step # "idle",
           i # 0 => i \in DOMAIN users /\ ((users[i].number = n) <=> (caller[c].erp = e)),
           caller[c].kind \in Sync /\ caller[c].erp = e /\ caller[c].attempt = 2 => i # 0
    PROVE  Settled(e, n)'
<1>. DEFINE new == [caller[c] EXCEPT !.step = step, !.at = i, !.read = read, !.locked = locked]
<1>1. caller[c] \in CallerState /\ Grows(users', e, n)
  BY SameRows DEF IdentityInv
<1>2. caller' = [caller EXCEPT ![c] = new]
  OBVIOUS
<1>3. /\ new.step = step /\ new.at = i /\ new.kind = caller[c].kind /\ new.erp = caller[c].erp
      /\ new.attempt = caller[c].attempt /\ new.answer = caller[c].answer
  BY <1>1 DEF CallerState
<1>. HIDE DEF new
<1>4. Told(new, users', e, n)
  BY <1>3 DEF Told, PointsWell, DeliversWell, Settled
<1>. QED BY <1>1, <1>2, <1>4, SettledKept

----------------------------------------------------------------------------
(* One lemma for each action. *)

\* What a caller's row is found by says whether it belongs to the claim.
LEMMA FoundBelongs ==
    ASSUME NEW e \in Account, NEW n \in AnyNumber, Settled(e, n), NEW c \in Caller,
           caller[c].erp \in Account, NEW i \in DOMAIN users,
           \/ users[i].erp = caller[c].erp
           \/ users[i].number = NumberOf(c) /\ Agree(e, n, caller[c].erp, NumberOf(c))
    PROVE  (users[i].number = n) <=> (caller[c].erp = e)
<1>1. caller[c].erp # NoErp
  BY UserIdentityAssumption DEF AnyNumber
<1>. QED BY <1>1 DEF Settled, RowAgrees, Agree

\* The rows of the claim are at most one.
LEMMA OneRowOfClaim ==
    ASSUME IdentityInv, NEW e \in Account, NEW n \in AnyNumber, Settled(e, n), NEW c \in Caller,
           caller[c].erp = e, NumberOf(c) = n
    PROVE  /\ Candidates(c) = {i \in DOMAIN users : users[i].number = n}
           /\ Cardinality(Candidates(c)) # 2
<1>1. e # NoErp
  BY UserIdentityAssumption DEF AnyNumber
<1>2. Candidates(c) = {i \in DOMAIN users : users[i].number = n}
  BY <1>1 DEF Candidates, ByErp, ByNumber, Settled, RowAgrees
<1>3. ASSUME NEW j \in Candidates(c), NEW k \in Candidates(c) PROVE j = k
  <2>1. j \in DOMAIN users /\ k \in DOMAIN users /\ users[j].number = n /\ users[k].number = n
    BY <1>2
  <2>2. j # k => users[j].number # users[k].number
    BY <2>1 DEF IdentityInv, Unique
  <2>. QED BY <2>1, <2>2
<1>4. CASE Candidates(c) = {}
  <2>1. Cardinality({}) = 0
    BY FS_EmptySet
  <2>2. Cardinality(Candidates(c)) = 0
    BY Zenon, <1>4, <2>1
  <2>. QED BY <1>2, <2>2
<1>5. ASSUME NEW i \in Candidates(c) PROVE Cardinality(Candidates(c)) # 2
  <2>1. Candidates(c) = {i}
    BY <1>3
  <2>. QED BY <2>1, FS_Singleton
<1>. QED BY <1>2, <1>4, <1>5

LEMMA ComesSettles ==
    ASSUME IdentityInv, NEW e \in Account, NEW n \in AnyNumber, Settled(e, n), NEW c \in Caller,
           NEW kind, NEW f, NEW m, NEW ban, Comes(c, kind, f, m, ban)
    PROVE  Settled(e, n)'
<1>. DEFINE new == [NoCall EXCEPT !.kind = kind, !.erp = f, !.given = m, !.ban = ban,
                                  !.step = "find", !.attempt = 1]
<1>1. caller' = [caller EXCEPT ![c] = new] /\ UNCHANGED users
  BY DEF Comes
<1>2. new.step = "find" /\ new.attempt = 1 /\ new.answer = "none"
  BY DEF NoCall
<1>. HIDE DEF new
<1>3. Told(new, users', e, n)
  BY <1>2 DEF Told, PointsWell, DeliversWell
<1>. QED BY <1>1, <1>3, SameRows, SettledKept

\* A caller at work has an id; what it claims agrees with e and n, unless it is a ban.
LEMMA AtWork ==
    ASSUME IdentityInv, NEW e, NEW n, Agreed(e, n), NEW c \in Caller, caller[c].step # "idle",
           caller[c].kind # "none"
    PROVE  /\ caller[c].erp \in Account /\ caller[c] \in CallerState
           /\ caller[c].kind # "ban" => Agree(e, n, caller[c].erp, NumberOf(c))
BY DEF IdentityInv, Knows, Remembers, Agreed

LEMMA FindForUpdateSettles ==
    ASSUME IdentityInv, NEW e \in Account, NEW n \in AnyNumber, Agreed(e, n), Settled(e, n),
           NEW c \in Caller, FindForUpdate(c)
    PROVE  Settled(e, n)'
<1>1. /\ caller[c].kind \in Sync /\ caller[c].step = "find" /\ UNCHANGED users
      /\ caller[c].kind \notin {"none", "ban"}
  BY DEF FindForUpdate, Is, Sync
<1>2. caller[c].erp \in Account /\ caller[c] \in CallerState /\ Agree(e, n, caller[c].erp, NumberOf(c))
  BY <1>1, AtWork
<1>3. CASE Cardinality(Candidates(c)) = 2
  <2>1. caller[c].erp # e
    BY <1>2, <1>3, OneRowOfClaim DEF Agree
  <2>. QED BY <1>1, <1>3, <2>1, EndSettles, SameRows DEF FindForUpdate
<1>4. CASE Cardinality(Candidates(c)) # 2
  <2>. DEFINE i == IF Candidates(c) = {} THEN 0 ELSE CHOOSE i \in Candidates(c) : TRUE
              read == IF i = 0 THEN NoErp ELSE users[i]
  <2>1. caller' = [caller EXCEPT ![c] = [caller[c] EXCEPT !.step = "write", !.at = i,
                       !.read = read, !.locked = Candidates(c)]]
    BY <1>4 DEF FindForUpdate, IdentityInv
  <2>2. i # 0 => i \in Candidates(c)
    OBVIOUS
  <2>3. i # 0 => i \in DOMAIN users /\ ((users[i].number = n) <=> (caller[c].erp = e))
    BY <1>2, <2>2, CandidatesAreRows, FoundBelongs
  <2>4. caller[c].erp = e /\ caller[c].attempt = 2 => i # 0
    <3>. SUFFICES ASSUME caller[c].erp = e, caller[c].attempt = 2 PROVE i # 0
      OBVIOUS
    <3>1. Candidates(c) = {j \in DOMAIN users : users[j].number = n}
      BY <1>2, OneRowOfClaim DEF Agree
    <3>2. Candidates(c) # {}
      BY <1>1, <3>1 DEF Settled, Told, DeliversWell
    <3>3. i \in DOMAIN users /\ 0 \notin DOMAIN users
      BY <3>1, <3>2, UserIdentityAssumption DEF IdentityInv
    <3>. QED BY <3>3
  <2>. HIDE DEF i, read
  <2>. QED BY <1>1, <2>1, <2>3, <2>4, ChoiceSettles
<1>. QED BY <1>3, <1>4

LEMMA FindForLoginSettles ==
    ASSUME IdentityInv, NEW e \in Account, NEW n \in AnyNumber, Agreed(e, n), Settled(e, n),
           NEW c \in Caller, FindForLogin(c)
    PROVE  Settled(e, n)'
<1>. DEFINE i == IF Candidates(c) = {} THEN 0 ELSE CHOOSE i \in Candidates(c) : TRUE
            read == IF i = 0 THEN NoErp ELSE users[i]
            legacyLink == /\ caller[c].kind = "legacy" /\ ByErp(caller[c].erp) = {}
                          /\ ByNumber(NumberOf(c)) # {}
            step == IF legacyLink THEN "bind" ELSE "write"
<1>1. /\ caller[c].kind \notin Sync /\ caller[c].step = "find"
      /\ caller[c].kind \notin {"none", "ban"}
  BY DEF FindForLogin, Is, Sync
<1>2. caller[c].erp \in Account /\ caller[c] \in CallerState /\ Agree(e, n, caller[c].erp, NumberOf(c))
  BY <1>1, AtWork
<1>3. CASE CallRefused(c)
  BY <1>1, <1>3, EndSettles, SameRows DEF CallRefused
<1>4. CASE ~ CallRefused(c)
  <2>1. caller' = [caller EXCEPT ![c] = [@ EXCEPT !.step = step, !.at = i, !.read = read]]
    BY <1>4 DEF FindForLogin
  <2>6. UNCHANGED users
    BY <1>4 DEF FindForLogin
  <2>2. [caller[c] EXCEPT !.step = step, !.at = i, !.read = read]
          = [caller[c] EXCEPT !.step = step, !.at = i, !.read = read, !.locked = caller[c].locked]
    BY <1>2 DEF CallerState
  <2>3. i # 0 => i \in DOMAIN users /\ ((users[i].number = n) <=> (caller[c].erp = e))
    BY <1>2, CandidatesAreRows, FoundBelongs
  <2>4. step # "idle"
    OBVIOUS
  <2>5. caller' = [caller EXCEPT ![c] = [caller[c] EXCEPT !.step = step, !.at = i, !.read = read,
                                                          !.locked = caller[c].locked]]
    BY <2>1, <2>2
  <2>. HIDE DEF i, read, step
  <2>. QED BY <1>1, <2>3, <2>4, <2>5, <2>6, ChoiceSettles
<1>. QED BY <1>3, <1>4

LEMMA FindByErpSettles ==
    ASSUME IdentityInv, NEW e \in Account, NEW n \in AnyNumber, Agreed(e, n), Settled(e, n),
           NEW c \in Caller, FindForMcp(c) \/ FindForEvent(c)
    PROVE  Settled(e, n)'
<1>1. /\ caller[c].kind \notin Sync /\ caller[c].step = "find" /\ caller[c].kind # "none"
      /\ UNCHANGED users
  BY DEF FindForMcp, FindForEvent, Is, Sync, Event
<1>2. caller[c].erp \in Account /\ caller[c] \in CallerState
  BY <1>1, AtWork
<1>3. CASE CallEnds(c, "ok")
  BY <1>1, <1>3, EndSettles, SameRows
<1>4. CASE ~ CallEnds(c, "ok")
  <2>1. PICK i \in ByErp(caller[c].erp) \cup {0} : \E read :
           caller' = [caller EXCEPT ![c] = [@ EXCEPT !.step = "write", !.at = i, !.read = read]]
    BY <1>4 DEF FindForMcp, FindForEvent
  <2>5. PICK read :
           caller' = [caller EXCEPT ![c] = [@ EXCEPT !.step = "write", !.at = i, !.read = read]]
    BY <2>1
  <2>2. [caller[c] EXCEPT !.step = "write", !.at = i, !.read = read]
          = [caller[c] EXCEPT !.step = "write", !.at = i, !.read = read, !.locked = caller[c].locked]
    BY <1>2 DEF CallerState
  <2>3. i # 0 => i \in DOMAIN users /\ ((users[i].number = n) <=> (caller[c].erp = e))
    BY <1>2, FoundBelongs DEF ByErp
  <2>4. caller' = [caller EXCEPT ![c] = [caller[c] EXCEPT !.step = "write", !.at = i,
                       !.read = read, !.locked = caller[c].locked]]
    BY <2>2, <2>5
  <2>. QED BY <1>1, <2>3, <2>4, ChoiceSettles
<1>. QED BY <1>3, <1>4

LEMMA FindBoundSettles ==
    ASSUME IdentityInv, NEW e \in Account, NEW n \in AnyNumber, Agreed(e, n), Settled(e, n),
           NEW c \in Caller, FindBound(c)
    PROVE  Settled(e, n)'
<1>1. caller[c].kind \notin Sync /\ caller[c].step = "find bound" /\ caller[c] \in CallerState
  BY DEF FindBound, Is, Sync, IdentityInv
<1>2. CASE CallRefused(c)
  BY <1>1, <1>2, EndSettles, SameRows DEF CallRefused
<1>3. CASE ~ CallRefused(c)
  <2>. DEFINE i == caller[c].at
  <2>1. caller' = [caller EXCEPT ![c] = [@ EXCEPT !.step = "write", !.read = users[i]]]
    BY <1>3 DEF FindBound
  <2>5. UNCHANGED users
    BY <1>3 DEF FindBound
  <2>2. [caller[c] EXCEPT !.step = "write", !.read = users[i]]
          = [caller[c] EXCEPT !.step = "write", !.at = i, !.read = users[i],
                              !.locked = caller[c].locked]
    BY <1>1 DEF CallerState
  <2>3. caller' = [caller EXCEPT ![c] = [caller[c] EXCEPT !.step = "write", !.at = i,
                       !.read = users[i], !.locked = caller[c].locked]]
    BY <2>1, <2>2
  <2>4. i # 0 => i \in DOMAIN users /\ ((users[i].number = n) <=> (caller[c].erp = e))
    BY <1>1 DEF Settled, Told, PointsWell
  <2>6. "write" # "idle" /\ ~ (caller[c].kind \in Sync /\ caller[c].erp = e /\ caller[c].attempt = 2)
    BY <1>1
  <2>7. PICK read, locked :
           caller' = [caller EXCEPT ![c] = [caller[c] EXCEPT !.step = "write", !.at = i,
                                                !.read = read, !.locked = locked]]
    BY <2>3
  <2>. HIDE DEF i
  <2>. QED BY <2>4, <2>5, <2>6, <2>7, ChoiceSettles
<1>. QED BY <1>2, <1>3

LEMMA BindFreeRowSettles ==
    ASSUME IdentityInv, NEW e \in Account, NEW n \in AnyNumber, Agreed(e, n), Settled(e, n),
           NEW c \in Caller, BindFreeRow(c)
    PROVE  Settled(e, n)'
<1>. DEFINE i == caller[c].at
            bound == [users[i] EXCEPT !.erp = caller[c].erp]
            free == users[i].erp = NoErp /\ users[i].number = caller[c].given /\ ~ users[i].ban
            new == [caller[c] EXCEPT !.step = "find bound"]
<1>1. caller[c].kind = "legacy" /\ caller[c].kind \notin Sync /\ caller[c].step = "bind"
      /\ caller[c].kind \notin {"none", "ban"}
  BY DEF BindFreeRow, Is, Sync
<1>2. /\ i \in DOMAIN users /\ i \in RowId /\ i # 0 /\ users[i] \in UserRow
      /\ caller[c].erp \in Account /\ caller[c] \in CallerState
      /\ Agree(e, n, caller[c].erp, NumberOf(c))
      /\ ((users[i].number = n) <=> (caller[c].erp = e))
  BY <1>1, AtWork, UserIdentityAssumption
     DEF IdentityInv, Knows, Remembers, Settled, Told, PointsWell
<1>3. bound \in UserRow /\ bound.erp = caller[c].erp /\ bound.number = users[i].number
  BY <1>2 DEF UserRow
<1>4. /\ new.step = "find bound" /\ new.at = i /\ new.kind = caller[c].kind
      /\ new.erp = caller[c].erp
  BY <1>2 DEF CallerState
<1>5. ASSUME ToStep(c, "find bound"), Grows(users', e, n) PROVE Settled(e, n)'
  <2>1. caller' = [caller EXCEPT ![c] = new]
    BY <1>5 DEF ToStep
  <2>2. Told(new, users', e, n)
    BY <1>1, <1>2, <1>4, <1>5 DEF Told, PointsWell, DeliversWell, Grows
  <2>. HIDE DEF new
  <2>. QED BY <1>5, <2>1, <2>2, SettledKept
<1>6. CASE ~ free
  BY <1>5, <1>6, SameRows DEF BindFreeRow
<1>7. CASE free /\ Unique(Put(i, bound))
  <2>1. users' = Put(i, bound) /\ ToStep(c, "find bound")
    BY <1>7 DEF BindFreeRow
  <2>2. RowAgrees(bound, e, n)
    BY <1>2, <1>3 DEF RowAgrees
  <2>. HIDE DEF bound
  <2>3. Grows(users', e, n)
    BY <1>2, <1>3, <2>1, <2>2, PutGrows
  <2>. QED BY <1>5, <2>1, <2>3
<1>8. CASE free /\ ~ Unique(Put(i, bound))
  BY <1>1, <1>8, EndSettles, SameRows DEF BindFreeRow
<1>. QED BY <1>6, <1>7, <1>8

LEMMA CreateSettles ==
    ASSUME IdentityInv, NEW e \in Account, NEW n \in AnyNumber, Agreed(e, n), Settled(e, n),
           NEW c \in Caller, CreateFromSync(c) \/ CreateAtLogin(c)
    PROVE  Settled(e, n)'
<1>. DEFINE r == Incoming(c)
<1>1. /\ caller[c].step = "write" /\ caller[c].at = 0 /\ DOMAIN users # RowId
      /\ caller[c].kind \notin {"none", "ban"} /\ Writes(c, NewId, r)
  BY DEF CreateFromSync, CreateAtLogin, Is, Sync, Login
<1>2. /\ caller[c].erp \in Account /\ caller[c].erp # NoErp
      /\ Agree(e, n, caller[c].erp, NumberOf(c))
  BY <1>1, AtWork, UserIdentityAssumption DEF AnyNumber
<1>3. r \in UserRow /\ r.erp = caller[c].erp /\ r.number = NumberOf(c)
  BY <1>1, IncomingRow DEF Incoming
<1>4. NewId \in RowId /\ NewId \notin DOMAIN users
  BY <1>1, FreshKey
<1>. HIDE DEF r
<1>5. RowAgrees(r, e, n)
  BY <1>2, <1>3 DEF RowAgrees, Agree
<1>6. ASSUME caller[c].kind \in Sync, caller[c].erp = e, ~ Unique(Put(NewId, r))
      PROVE  caller[c].attempt # 2 /\ \E j \in DOMAIN users : users[j].number = n
  <2>1. caller[c].attempt # 2
    BY <1>1, <1>6 DEF Settled, Told, DeliversWell
  <2>2. /\ DOMAIN Put(NewId, r) = DOMAIN users \cup {NewId} /\ Put(NewId, r)[NewId] = r
        /\ \A j \in DOMAIN users : Put(NewId, r)[j] = users[j]
    BY <1>4 DEF Put
  <2>3. \E j \in DOMAIN users : users[j].number = r.number \/ (r.erp # NoErp /\ users[j].erp = r.erp)
    BY <1>6, <2>2 DEF Unique, IdentityInv
  <2>4. r.number = n /\ r.erp = e
    BY <1>2, <1>3, <1>6 DEF Agree
  <2>. QED BY <2>1, <2>3, <2>4 DEF Settled, RowAgrees
<1>. QED BY <1>1, <1>3, <1>4, <1>5, <1>6, WritesSettle

\* Of an UPDATE each field is the one wanted or the one there was.
LEMMA ChangedFields ==
    ASSUME IdentityInv, NEW c \in Caller, caller[c].at \in DOMAIN users,
           caller[c].read \in UserRow, NEW wanted \in UserRow
    PROVE  LET r == Changed(c, wanted)
               row == users[caller[c].at]
           IN  /\ r.erp = IF wanted.erp = caller[c].read.erp THEN row.erp ELSE wanted.erp
               /\ r.number = IF wanted.number = caller[c].read.number THEN row.number
                             ELSE wanted.number
<1>1. DOMAIN wanted = {"erp", "number", "ban"}
  BY DEF UserRow
<1>. QED BY <1>1 DEF Changed

\* An UPDATE by a caller that agrees leaves the row where it belongs.
LEMMA UpdateAgrees ==
    ASSUME IdentityInv, NEW e \in Account, NEW n \in AnyNumber, Settled(e, n), NEW c \in Caller,
           Writing(c), NEW r,
           Agree(e, n, caller[c].erp, NumberOf(c)),
           r.erp \in {caller[c].erp, users[caller[c].at].erp},
           r.number \in {NumberOf(c), users[caller[c].at].number}
    PROVE  RowAgrees(r, e, n) /\ ((r.number = n) <=> (users[caller[c].at].number = n))
<1>1. /\ caller[c].at \in DOMAIN users
      /\ (users[caller[c].at].number = n) <=> (caller[c].erp = e)
      /\ RowAgrees(users[caller[c].at], e, n)
  BY DEF Writing, Settled, Told, PointsWell
<1>. QED BY <1>1 DEF RowAgrees, Agree

LEMMA UpdateFromSyncSettles ==
    ASSUME IdentityInv, NEW e \in Account, NEW n \in AnyNumber, Agreed(e, n), Settled(e, n),
           NEW c \in Caller, UpdateFromSync(c)
    PROVE  Settled(e, n)'
<1>. DEFINE i == caller[c].at
            r == Changed(c, Incoming(c))
<1>1. /\ caller[c].kind \in Sync /\ Writing(c) /\ caller[c].kind \notin {"none", "ban"}
      /\ caller[c].step # "idle"
  BY DEF UpdateFromSync, Is, Sync, Writing
<1>2. CASE caller[c].kind = "directory"
  BY <1>1, <1>2, EndSettles, SameRows DEF UpdateFromSync
<1>3. CASE caller[c].kind # "directory"
  <2>1. /\ i \in DOMAIN users /\ i \in RowId /\ caller[c].read \in UserRow /\ users[i] = caller[c].read
    BY <1>1 DEF IdentityInv, Knows, Remembers, HoldsItsRow, Writing
  <2>2. /\ Incoming(c) \in UserRow /\ Incoming(c).erp = caller[c].erp
        /\ Incoming(c).number = NumberOf(c)
    BY <1>1, IncomingRow DEF Incoming
  <2>3. r \in UserRow /\ r.erp = caller[c].erp /\ r.number = NumberOf(c) /\ Writes(c, i, r)
    BY <1>3, <2>1, <2>2, ChangedRow, ChangedFields DEF UpdateFromSync
  <2>4. Agree(e, n, caller[c].erp, NumberOf(c)) /\ caller[c].erp \in Account
    BY <1>1, AtWork
  <2>. HIDE DEF r
  <2>5. RowAgrees(r, e, n) /\ ((r.number = n) <=> (users[i].number = n))
    BY <1>1, <2>3, <2>4, UpdateAgrees
  <2>6. caller[c].erp = e => Unique(Put(i, r))
    <3>. SUFFICES ASSUME caller[c].erp = e PROVE Unique(Put(i, r))
      OBVIOUS
    <3>1. r.number = n /\ r.erp = e /\ e # NoErp
      BY <2>3, <2>4, UserIdentityAssumption DEF Agree, AnyNumber
    <3>2. \A j \in DOMAIN users \ {i} : users[j].number # n /\ users[j].erp # e
      BY <2>1, <2>5, <3>1 DEF IdentityInv, Unique, Settled, RowAgrees
    <3>3. /\ DOMAIN Put(i, r) = DOMAIN users /\ Put(i, r)[i] = r
          /\ \A j \in DOMAIN users \ {i} : Put(i, r)[j] = users[j]
      BY <2>1 DEF Put
    <3>. QED BY <3>1, <3>2, <3>3 DEF Unique, IdentityInv
  <2>. QED BY <2>1, <2>3, <2>5, <2>6, WritesSettle
<1>. QED BY <1>2, <1>3

LEMMA UpdateAtLoginSettles ==
    ASSUME IdentityInv, NEW e \in Account, NEW n \in AnyNumber, Agreed(e, n), Settled(e, n),
           NEW c \in Caller, UpdateAtLogin(c)
    PROVE  Settled(e, n)'
<1>. DEFINE i == caller[c].at
            r == Changed(c, Incoming(c))
<1>1. /\ Writing(c) /\ caller[c].kind \notin Sync /\ caller[c].kind \notin {"none", "ban"}
      /\ caller[c].step # "idle" /\ Writes(c, i, r)
  BY DEF UpdateAtLogin, Is, Sync, Login, Writing
<1>2. i \in DOMAIN users /\ i \in RowId /\ caller[c].read \in UserRow
  BY <1>1 DEF IdentityInv, Knows, Remembers, Writing
<1>3. /\ Incoming(c) \in UserRow /\ Incoming(c).erp = caller[c].erp
      /\ Incoming(c).number = NumberOf(c)
  BY <1>1, IncomingRow DEF Incoming
<1>4. /\ r \in UserRow /\ r.erp \in {caller[c].erp, users[i].erp}
      /\ r.number \in {NumberOf(c), users[i].number}
  BY <1>2, <1>3, ChangedRow, ChangedFields
<1>5. Agree(e, n, caller[c].erp, NumberOf(c))
  BY <1>1, AtWork
<1>. HIDE DEF r
<1>6. RowAgrees(r, e, n) /\ ((r.number = n) <=> (users[i].number = n))
  BY <1>1, <1>4, <1>5, UpdateAgrees
<1>. QED BY <1>1, <1>2, <1>4, <1>6, WritesSettle

LEMMA SaveEventSettles ==
    ASSUME IdentityInv, NEW e \in Account, NEW n \in AnyNumber, Agreed(e, n), Settled(e, n),
           NEW c \in Caller, SaveEvent(c)
    PROVE  Settled(e, n)'
<1>. DEFINE i == caller[c].at
            r == Changed(c, Saved(c))
<1>1. /\ Writing(c) /\ caller[c].kind \in Event /\ caller[c].kind \notin Sync
      /\ caller[c].kind # "none" /\ caller[c].step # "idle" /\ Writes(c, i, r)
  BY DEF SaveEvent, Is, Writing, Saved, Event, Sync, IdentityInv, Knows, Remembers
<1>2. i \in DOMAIN users /\ i \in RowId /\ caller[c].read \in UserRow
  BY <1>1 DEF IdentityInv, Knows, Remembers, Writing
<1>3. Saved(c) \in UserRow /\ Saved(c).erp = caller[c].read.erp
  BY <1>1, SavedRow
<1>4. r \in UserRow /\ r.erp = users[i].erp
  BY <1>2, <1>3, ChangedRow
<1>5. CASE caller[c].kind = "ban"
  <2>1. Saved(c).number = caller[c].read.number
    BY <1>2, <1>5 DEF Saved, UserRow
  <2>2. r.number = users[i].number
    BY <1>2, <1>3, <2>1, ChangedFields
  <2>. HIDE DEF r
  <2>3. RowAgrees(r, e, n)
    BY <1>2, <1>4, <2>2 DEF Settled, RowAgrees
  <2>. QED BY <1>1, <1>2, <1>4, <2>2, <2>3, WritesSettle
<1>6. CASE caller[c].kind = "change"
  <2>1. caller[c].given \in Number /\ NumberOf(c) = caller[c].given
    BY <1>6, UserIdentityAssumption DEF IdentityInv, Knows, Remembers, NumberOf, AnyNumber
  <2>2. Saved(c).number = NumberOf(c)
    BY <1>2, <1>6, <2>1 DEF Saved, UserRow
  <2>3. r.number \in {NumberOf(c), users[i].number}
    BY <1>2, <1>3, <2>2, ChangedFields
  <2>4. Agree(e, n, caller[c].erp, NumberOf(c))
    BY <1>1, <1>6, AtWork
  <2>. HIDE DEF r
  <2>5. RowAgrees(r, e, n) /\ ((r.number = n) <=> (users[i].number = n))
    BY <1>1, <1>4, <2>3, <2>4, UpdateAgrees
  <2>. QED BY <1>1, <1>2, <1>4, <2>5, WritesSettle
<1>. QED BY <1>1, <1>5, <1>6 DEF Event

----------------------------------------------------------------------------

\* What a caller claims stays, once it has come.
LEMMA ClaimsStay ==
    ASSUME IdentityInv, IdentityNext, NEW o \in Caller, caller[o].kind # "none"
    PROVE  /\ caller'[o].kind = caller[o].kind /\ caller'[o].erp = caller[o].erp
           /\ caller'[o].given = caller[o].given
<1>1. caller \in [Caller -> CallerState] /\ caller[o] \in CallerState
  BY DEF IdentityInv
<1>2. PICK c \in Caller :
         \/ EventComes(c) \/ EntryComes(c) \/ LoginComes(c) \/ ChangeComes(c) \/ BanComes(c)
         \/ FindForUpdate(c) \/ CreateFromSync(c) \/ UpdateFromSync(c)
         \/ FindForLogin(c) \/ BindFreeRow(c) \/ FindBound(c) \/ FindForMcp(c)
         \/ CreateAtLogin(c) \/ UpdateAtLogin(c) \/ FindForEvent(c) \/ SaveEvent(c)
  BY DEF IdentityNext
<1>3. ASSUME NEW kind, NEW f, NEW m, NEW ban, Comes(c, kind, f, m, ban) PROVE caller'[o] = caller[o]
  <2>1. o # c
    BY <1>3 DEF Comes, NoCall
  <2>. QED BY <1>1, <1>3, <2>1 DEF Comes
<1>4. ASSUME NEW answer, CallEnds(c, answer)
      PROVE  /\ caller'[o].kind = caller[o].kind /\ caller'[o].erp = caller[o].erp
             /\ caller'[o].given = caller[o].given
  BY <1>1, <1>4 DEF CallEnds, CallerState
<1>6. CASE FindForUpdate(c) \/ FindForLogin(c) \/ FindForMcp(c) \/ FindForEvent(c) \/ FindBound(c)
  <2>1. CASE \E answer : CallEnds(c, answer)
    BY <1>4, <2>1
  <2>2. ASSUME NEW step, NEW i, NEW read,
               caller' = [caller EXCEPT ![c] = [@ EXCEPT !.step = step, !.at = i, !.read = read]]
        PROVE  /\ caller'[o].kind = caller[o].kind /\ caller'[o].erp = caller[o].erp
               /\ caller'[o].given = caller[o].given
    BY <1>1, <2>2 DEF CallerState
  <2>3. ASSUME NEW i, NEW read, NEW locked,
               caller' = [caller EXCEPT ![c] = [@ EXCEPT !.step = "write", !.at = i, !.read = read,
                                                         !.locked = locked]]
        PROVE  /\ caller'[o].kind = caller[o].kind /\ caller'[o].erp = caller[o].erp
               /\ caller'[o].given = caller[o].given
    BY <1>1, <2>3 DEF CallerState
  <2>4. ASSUME NEW read, caller' = [caller EXCEPT ![c] = [@ EXCEPT !.step = "write", !.read = read]]
        PROVE  /\ caller'[o].kind = caller[o].kind /\ caller'[o].erp = caller[o].erp
               /\ caller'[o].given = caller[o].given
    BY <1>1, <2>4 DEF CallerState
  <2>5. CASE FindForUpdate(c)
    <3>1. CASE CallEnds(c, "error")
      BY <1>4, <3>1
    <3>2. CASE ~ CallEnds(c, "error")
      <4>. DEFINE i == IF Candidates(c) = {} THEN 0 ELSE CHOOSE i \in Candidates(c) : TRUE
                  read == IF i = 0 THEN NoErp ELSE users[i]
      <4>1. caller' = [caller EXCEPT ![c] = [@ EXCEPT !.step = "write", !.at = i, !.read = read,
                                                      !.locked = Candidates(c)]]
        BY <2>5, <3>2 DEF FindForUpdate
      <4>. HIDE DEF i, read
      <4>. QED BY <2>3, <4>1
    <3>. QED BY <3>1, <3>2
  <2>6. CASE FindForLogin(c)
    <3>1. CASE CallRefused(c)
      BY <1>4, <3>1 DEF CallRefused
    <3>2. CASE ~ CallRefused(c)
      <4>. DEFINE i == IF Candidates(c) = {} THEN 0 ELSE CHOOSE i \in Candidates(c) : TRUE
                  read == IF i = 0 THEN NoErp ELSE users[i]
                  legacyLink == /\ caller[c].kind = "legacy" /\ ByErp(caller[c].erp) = {}
                                /\ ByNumber(NumberOf(c)) # {}
                  step == IF legacyLink THEN "bind" ELSE "write"
      <4>1. caller' = [caller EXCEPT ![c] = [@ EXCEPT !.step = step, !.at = i, !.read = read]]
        BY <2>6, <3>2 DEF FindForLogin
      <4>. HIDE DEF i, read, step
      <4>. QED BY <2>2, <4>1
    <3>. QED BY <3>1, <3>2
  <2>7. CASE FindForMcp(c)
    BY <2>2, <2>7 DEF FindForMcp
  <2>8. CASE FindForEvent(c)
    <3>1. CASE CallEnds(c, "ok")
      BY <1>4, <3>1
    <3>2. CASE ~ CallEnds(c, "ok")
      <4>1. PICK i, read :
               caller' = [caller EXCEPT ![c] = [@ EXCEPT !.step = "write", !.at = i, !.read = read]]
        BY <2>8, <3>2 DEF FindForEvent
      <4>. QED BY <2>2, <4>1
    <3>. QED BY <3>1, <3>2
  <2>9. CASE FindBound(c)
    BY <2>1, <2>4, <2>9 DEF FindBound, CallRefused
  <2>. QED BY <1>6, <2>5, <2>6, <2>7, <2>8, <2>9
<1>7. CASE BindFreeRow(c)
  <2>1. CASE caller' = [caller EXCEPT ![c] = [@ EXCEPT !.step = "find bound"]]
    BY <1>1, <2>1 DEF CallerState
  <2>. QED BY <1>4, <1>7, <2>1 DEF BindFreeRow, ToStep
<1>8. ASSUME NEW i, NEW r, Writes(c, i, r)
      PROVE  /\ caller'[o].kind = caller[o].kind /\ caller'[o].erp = caller[o].erp
             /\ caller'[o].given = caller[o].given
  <2>1. CASE caller' = [caller EXCEPT ![c] = [@ EXCEPT !.step = "find", !.attempt = 2, !.locked = {}]]
    BY <1>1, <2>1 DEF CallerState
  <2>. QED BY <1>4, <1>8, <2>1 DEF Writes, ViolationEnds
<1>9. CASE CreateFromSync(c) \/ CreateAtLogin(c) \/ UpdateFromSync(c) \/ UpdateAtLogin(c) \/ SaveEvent(c)
  BY <1>4, <1>8, <1>9 DEF CreateFromSync, CreateAtLogin, UpdateFromSync, UpdateAtLogin, SaveEvent
<1>. QED BY <1>2, <1>3, <1>6, <1>7, <1>9 DEF EventComes, EntryComes, LoginComes, ChangeComes, BanComes

LEMMA AgreeKeeps == IdentityInv /\ AgreeInv /\ [IdentityNext]_identityVars => AgreeInv'
<1>. SUFFICES ASSUME IdentityInv, AgreeInv, [IdentityNext]_identityVars,
                     NEW e \in Account, NEW n \in AnyNumber, Agreed(e, n)'
              PROVE  Settled(e, n)'
  BY DEF AgreeInv
<1>1. CASE UNCHANGED identityVars
  BY <1>1 DEF identityVars, AgreeInv, Agreed, Settled, NumberOf
<1>2. CASE IdentityNext
  <2>1. Agreed(e, n)
    BY <1>2, ClaimsStay DEF Agreed, NumberOf
  <2>2. Settled(e, n)
    BY <2>1 DEF AgreeInv
  <2>3. PICK c \in Caller :
         \/ EventComes(c) \/ EntryComes(c) \/ LoginComes(c) \/ ChangeComes(c) \/ BanComes(c)
         \/ FindForUpdate(c) \/ CreateFromSync(c) \/ UpdateFromSync(c)
         \/ FindForLogin(c) \/ BindFreeRow(c) \/ FindBound(c) \/ FindForMcp(c)
         \/ CreateAtLogin(c) \/ UpdateAtLogin(c) \/ FindForEvent(c) \/ SaveEvent(c)
    BY <1>2 DEF IdentityNext
  <2>4. CASE EventComes(c) \/ EntryComes(c) \/ LoginComes(c) \/ ChangeComes(c) \/ BanComes(c)
    BY <2>2, <2>4, ComesSettles DEF EventComes, EntryComes, LoginComes, ChangeComes, BanComes
  <2>. QED BY <2>1, <2>2, <2>3, <2>4, FindForUpdateSettles, CreateSettles, UpdateFromSyncSettles,
              FindForLoginSettles, BindFreeRowSettles, FindBoundSettles, FindByErpSettles,
              UpdateAtLoginSettles, SaveEventSettles
<1>. QED BY <1>1, <1>2

\* A creation that is delivered twice, or meets logins, events and the directory, ends without
\* an error if all of them, and the rows there were, agree on who is who (synchronizeUser).
THEOREM AgreeingDeliveries == IdentitySpec => []AgreeingDeliveriesSucceed
<1>1. IdentityInit => AgreeInv
  <2>. SUFFICES ASSUME IdentityInit, NEW e \in Account, NEW n \in AnyNumber, Agreed(e, n)
                PROVE  Settled(e, n)
    BY DEF AgreeInv
  <2>1. NoCall.step = "idle" /\ NoCall.kind = "none"
    BY DEF NoCall
  <2>2. Told(NoCall, users, e, n)
    BY <2>1 DEF Told, PointsWell, DeliversWell, Sync
  <2>. QED BY <2>2 DEF IdentityInit, Agreed, Settled
<1>2. IdentityInv /\ AgreeInv => AgreeingDeliveriesSucceed
  <2>. SUFFICES ASSUME IdentityInv, AgreeInv, NEW c \in Caller, caller[c].kind \in Sync,
                       caller[c].answer = "error",
                       \A o \in Caller : caller[o].kind \notin {"none", "ban"} =>
                          Agree(caller[c].erp, NumberOf(c), caller[o].erp, NumberOf(o)),
                       \A i \in DOMAIN FirstRows : FirstRows[i].erp # NoErp =>
                          Agree(caller[c].erp, NumberOf(c), FirstRows[i].erp, FirstRows[i].number)
                PROVE  FALSE
    BY DEF AgreeingDeliveriesSucceed
  <2>1. caller[c].erp \in Account /\ NumberOf(c) \in AnyNumber
    <3>1. caller[c] \in CallerState /\ caller[c].kind # "none" /\ Remembers(caller[c], users)
      BY DEF IdentityInv, Knows, Sync
    <3>2. caller[c].erp \in Account
      BY <3>1 DEF Remembers
    <3>3. caller[c].given \in AnyNumber \cup {NoErp}
      BY <3>1 DEF CallerState
    <3>. QED BY <3>2, <3>3 DEF NumberOf, AnyNumber
  <2>2. Agreed(caller[c].erp, NumberOf(c))
    BY DEF Agreed, RowAgrees, Agree
  <2>3. Settled(caller[c].erp, NumberOf(c))
    BY <2>1, <2>2 DEF AgreeInv
  <2>. QED BY <2>3 DEF Settled, Told, DeliversWell
<1>. QED BY <1>1, <1>2, AgreeKeeps, IdentityInvariant, PTL DEF IdentitySpec

----------------------------------------------------------------------------
(* UserAdmin. A check remembers, in sawFree, that it has seen the number free; a block past
   its count is of one among several administrators, unless somebody has lapped it. *)

AdminTypeOK ==
    /\ staff \in Rows /\ op \in [Op -> OpState]
    /\ tabel \in [DOMAIN tabel -> Person \cup {0}]
    /\ sawFree \subseteq Op /\ lapped \subseteq Op

\* A call is at a step of its kind, and the user it changes stays.
Stepwise(o) ==
    /\ op[o].kind = "check" => op[o].step \in {"cache", "query", "remember", "done"}
    /\ op[o].kind \in {"update", "block"} => op[o].step = "done" \/ op[o].on \in DOMAIN staff
    /\ op[o].ok => op[o].step = "done"

\* While a check runs, a number that is nobody's has been seen so; so was one it is
\* about to answer as free.
SeesFree(o) ==
    op[o].kind = "check" =>
       /\ Running(o) /\ OwnersOf(op[o].number) = {} => o \in sawFree
       /\ op[o].answer = 0 /\ (op[o].step = "remember" \/ op[o].ok) => o \in sawFree

\* A block past its count is not of the last administrator, unless somebody came between.
SparesTheLast(o) ==
    op[o].kind = "block" =>
       /\ op[o].step \in {"flip", "commit"} /\ o \notin lapped =>
             Administrators(staff) # {op[o].on}
       /\ op[o].step = "commit" => DOMAIN op[o].draft = {op[o].on}

OpInv(o) == Stepwise(o) /\ SeesFree(o) /\ SparesTheLast(o)
AdminInv == AdminTypeOK /\ \A o \in Op : OpInv(o)

LEMMA NoOpTyped == NoOp \in OpState
<1>1. AnyTabel \in Tabel
  BY UserAdminAssumption DEF UserAdminAssumption, AnyTabel
<1>2. <<>> \in [{} -> Staff]
  OBVIOUS
<1>3. <<>> \in Rows
  BY <1>2 DEF Rows
<1>. QED BY <1>1, <1>3 DEF NoOp, OpState, Staff

LEMMA AdminInitially == AdminInit => AdminInv
<1> SUFFICES ASSUME AdminInit PROVE AdminInv
  OBVIOUS
<1>1. FirstStaff \in Rows
  BY UserAdminAssumption DEF UserAdminAssumption, Rows
<1>2. AdminTypeOK
  BY <1>1, NoOpTyped DEF AdminInit, AdminTypeOK
<1>3. \A o \in Op : op[o] = NoOp
  BY DEF AdminInit
<1>4. NoOp.kind = "none" /\ NoOp.step = "idle" /\ NoOp.ok = FALSE
  BY DEF NoOp
<1>5. \A o \in Op : OpInv(o)
  BY <1>3, <1>4 DEF OpInv, Stepwise, SeesFree, SparesTheLast
<1>. QED BY <1>2, <1>5 DEF AdminInv

\* One call goes on, with the rows as they are.
LEMMA CallGoesOn ==
    ASSUME AdminInv, NEW o \in Op, NEW new \in OpState,
           op' = [op EXCEPT ![o] = new], UNCHANGED <<staff, lapped>>,
           sawFree \subseteq sawFree', sawFree' \subseteq Op,
           tabel' \in [DOMAIN tabel' -> Person \cup {0}],
           OpInv(o)'
    PROVE  AdminInv'
<1>1. AdminTypeOK'
  BY DEF AdminInv, AdminTypeOK
<1>2. ASSUME NEW c \in Op, c # o PROVE OpInv(c)'
  <2>1. op'[c] = op[c] /\ OpInv(c)
    BY <1>2 DEF AdminInv, AdminTypeOK
  <2>. QED BY <2>1 DEF OpInv, Stepwise, SeesFree, SparesTheLast, Running, OwnersOf, Administrators
<1>. QED BY <1>1, <1>2 DEF AdminInv

\* What a commit does to the other calls.
LEMMA OthersSeeCommit ==
    ASSUME AdminInv, NEW o, NEW rows \in Rows, DOMAIN staff \subseteq DOMAIN rows,
           Committed(o, rows), NEW c \in Op, c # o, op'[c] = op[c]
    PROVE  OpInv(c)'
<1>. OpInv(c) /\ staff' = rows
  BY DEF AdminInv, Committed
<1>1. Stepwise(c)'
  BY DEF OpInv, Stepwise
<1>2. SeesFree(c)'
  <2>1. sawFree \subseteq sawFree'
    BY DEF Committed
  <2>2. ASSUME op[c].kind = "check", Running(c), OwnersOf(op[c].number)' = {}
        PROVE  c \in sawFree'
    <3>1. \A p \in DOMAIN rows : rows[p].number # op[c].number
      BY <2>2 DEF OwnersOf
    <3>. QED BY <2>2, <3>1 DEF Committed
  <2>. QED BY <2>1, <2>2 DEF OpInv, SeesFree, Running, OwnersOf
<1>3. SparesTheLast(c)'
  <2>1. CASE Administrators(rows) = Administrators(staff)
    BY <2>1 DEF Committed, OpInv, SparesTheLast
  <2>2. CASE Administrators(rows) # Administrators(staff)
    BY <2>2 DEF Committed, OpInv, SparesTheLast, Running
  <2>. QED BY <2>1, <2>2
<1>. QED BY <1>1, <1>2, <1>3 DEF OpInv

\* The answer of a call that is over.
Over(o, answer, ok) == [NoOp EXCEPT !.kind = op[o].kind, !.number = op[o].number,
                                    !.step = "done", !.answer = answer, !.ok = ok]

LEMMA OverTyped ==
    ASSUME AdminInv, NEW o \in Op, NEW answer \in Person \cup {0}, NEW ok \in BOOLEAN
    PROVE  /\ Over(o, answer, ok) \in OpState
           /\ Over(o, answer, ok).kind = op[o].kind /\ Over(o, answer, ok).step = "done"
           /\ Over(o, answer, ok).answer = answer /\ Over(o, answer, ok).ok = ok
           /\ Over(o, answer, ok).number = op[o].number
BY NoOpTyped DEF AdminInv, AdminTypeOK, Over, OpState

LEMMA EndedCall ==
    ASSUME AdminInv, NEW o \in Op, NEW answer \in Person \cup {0}, NEW ok \in BOOLEAN,
           OpEnds(o, answer, ok), NothingCommitted,
           tabel' \in [DOMAIN tabel' -> Person \cup {0}],
           op[o].kind = "check" /\ ok /\ answer = 0 => o \in sawFree
    PROVE  AdminInv'
<1> DEFINE new == Over(o, answer, ok)
<1>1. op' = [op EXCEPT ![o] = new] /\ UNCHANGED <<staff, lapped, sawFree>>
  BY DEF OpEnds, Over, NothingCommitted
<1>2. op'[o] = new
  BY <1>1 DEF AdminInv, AdminTypeOK
<1>3. OpInv(o)'
  BY <1>1, <1>2, OverTyped DEF OpInv, Stepwise, SeesFree, SparesTheLast, Running
<1>4. sawFree' \subseteq Op /\ new \in OpState
  BY <1>1, OverTyped DEF AdminInv, AdminTypeOK
<1>. HIDE DEF new
<1>. QED BY <1>1, <1>3, <1>4, CallGoesOn

----------------------------------------------------------------------------
(* The statements, one by one. *)

LEMMA NewCall ==
    ASSUME AdminInv, NEW o \in Op, NEW new \in OpState, Calls(o, new), ~ new.ok,
           new.kind \in {"update", "block"} => new.on \in DOMAIN staff,
           new.kind = "check" => new.step = "cache",
           new.kind = "block" => new.step = "find"
    PROVE  AdminInv'
<1>1. op' = [op EXCEPT ![o] = new] /\ op'[o] = new /\ UNCHANGED <<staff, tabel, lapped>>
  BY DEF Calls, AdminInv, AdminTypeOK
<1>2. /\ sawFree \subseteq sawFree' /\ sawFree' \subseteq Op
      /\ new.kind = "check" /\ OwnersOf(new.number) = {} => o \in sawFree'
  BY DEF Calls, AdminInv, AdminTypeOK
<1>3. OpInv(o)'
  BY <1>1, <1>2 DEF OpInv, Stepwise, SeesFree, SparesTheLast, OwnersOf
<1>. QED BY <1>1, <1>2, <1>3, CallGoesOn DEF AdminInv, AdminTypeOK

LEMMA CallsBegin ==
    ASSUME AdminInv, NEW o \in Op,
           CallCreate(o) \/ CallUpdate(o) \/ CallCheck(o) \/ CallBlock(o)
    PROVE  AdminInv'
<1>3. DOMAIN staff \subseteq Person
  BY DEF AdminInv, AdminTypeOK, Rows
<1>4. CASE CallCreate(o)
  <2>1. PICK n \in Tabel, admin \in BOOLEAN :
           Calls(o, [NoOp EXCEPT !.kind = "create", !.number = n, !.admin = admin, !.step = "look"])
    BY <1>4 DEF CallCreate
  <2> DEFINE new == [NoOp EXCEPT !.kind = "create", !.number = n, !.admin = admin, !.step = "look"]
  <2>2. new \in OpState /\ new.kind = "create" /\ ~ new.ok
    BY NoOpTyped DEF OpState, NoOp
  <2>. HIDE DEF new
  <2>. QED BY <2>1, <2>2, NewCall DEF new
<1>5. CASE CallUpdate(o)
  <2>1. PICK p \in DOMAIN staff, n \in Tabel, admin \in BOOLEAN :
           Calls(o, [NoOp EXCEPT !.kind = "update", !.on = p, !.number = n, !.admin = admin,
                                 !.step = "look"])
    BY <1>5 DEF CallUpdate
  <2> DEFINE new == [NoOp EXCEPT !.kind = "update", !.on = p, !.number = n, !.admin = admin,
                                 !.step = "look"]
  <2>2. new \in OpState /\ new.kind = "update" /\ new.on = p /\ ~ new.ok
    BY <1>3, NoOpTyped DEF OpState, NoOp
  <2>. HIDE DEF new
  <2>. QED BY <2>1, <2>2, NewCall DEF new
<1>6. CASE CallCheck(o)
  <2>1. PICK n \in Tabel :
           Calls(o, [NoOp EXCEPT !.kind = "check", !.number = n, !.step = "cache"])
    BY <1>6 DEF CallCheck
  <2> DEFINE new == [NoOp EXCEPT !.kind = "check", !.number = n, !.step = "cache"]
  <2>2. new \in OpState /\ new.kind = "check" /\ new.step = "cache" /\ ~ new.ok
    BY NoOpTyped DEF OpState, NoOp
  <2>. HIDE DEF new
  <2>. QED BY <2>1, <2>2, NewCall DEF new
<1>7. CASE CallBlock(o)
  <2>1. PICK p \in DOMAIN staff :
           Calls(o, [NoOp EXCEPT !.kind = "block", !.on = p, !.step = "find"])
    BY <1>7 DEF CallBlock
  <2> DEFINE new == [NoOp EXCEPT !.kind = "block", !.on = p, !.step = "find"]
  <2>2. new \in OpState /\ new.kind = "block" /\ new.step = "find" /\ new.on = p /\ ~ new.ok
    BY <1>3, NoOpTyped DEF OpState, NoOp
  <2>. HIDE DEF new
  <2>. QED BY <2>1, <2>2, NewCall DEF new
<1>. QED BY <1>4, <1>5, <1>6, <1>7

\* A call that goes to another step, with what it read or drafted.
LEMMA CallReads ==
    ASSUME AdminInv, NEW o \in Op, NEW new \in OpState, op' = [op EXCEPT ![o] = new],
           NothingCommitted, tabel' \in [DOMAIN tabel' -> Person \cup {0}],
           new.kind = op[o].kind, new.number = op[o].number, ~ op[o].ok, ~ new.ok,
           Running(o), new.step # "done",
           new.kind \in {"update", "block"} => new.on = op[o].on,
           new.kind = "check" =>
              /\ new.step \in {"query", "remember"}
              /\ new.step = "remember" /\ new.answer = 0 => OwnersOf(op[o].number) = {},
           new.kind = "block" => 
              /\ new.step \in {"flip", "commit"} /\ o \notin lapped =>
                    Administrators(staff) # {new.on}
              /\ new.step = "commit" => DOMAIN new.draft = {new.on}
    PROVE  AdminInv'
<1>1. op'[o] = new /\ UNCHANGED <<staff, lapped, sawFree>> /\ OpInv(o) /\ sawFree \subseteq Op
  BY DEF AdminInv, AdminTypeOK, NothingCommitted
<1>2. op[o].step # "done"
  BY DEF Running
<1>3. Stepwise(o)'
  BY <1>1, <1>2 DEF OpInv, Stepwise
<1>4. SeesFree(o)'
  BY <1>1 DEF OpInv, SeesFree, OwnersOf
<1>5. SparesTheLast(o)'
  BY <1>1 DEF SparesTheLast, Administrators
<1>. QED BY <1>1, <1>3, <1>4, <1>5, CallGoesOn DEF OpInv

LEMMA CacheTyped ==
    ASSUME AdminInv, NEW n, NEW p \in Person \cup {0},
           tabel' = [m \in DOMAIN tabel \cup {n} |-> IF m = n THEN p ELSE tabel[m]]
    PROVE  tabel' \in [DOMAIN tabel' -> Person \cup {0}]
BY DEF AdminInv, AdminTypeOK

LEMMA KindsApart ==
    ASSUME AdminInv, NEW o \in Op, op[o].step \notin {"idle", "done"}
    PROVE  /\ Running(o) /\ ~ op[o].ok /\ op[o] \in OpState
           /\ op[o].kind \in {"update", "block"} => op[o].on \in DOMAIN staff
           /\ staff \in [DOMAIN staff -> Staff] /\ DOMAIN staff \subseteq Person
BY DEF AdminInv, AdminTypeOK, OpInv, Stepwise, Running, Rows

LEMMA DraftTyped ==
    ASSUME NEW p \in Person, NEW row \in Staff
    PROVE  [q \in {p} |-> row] \in Rows /\ DOMAIN [q \in {p} |-> row] = {p}
<1>1. [q \in {p} |-> row] \in [{p} -> Staff] /\ {p} \in SUBSET Person
  OBVIOUS
<1>. QED BY <1>1 DEF Rows

LEMMA LookForNumberKeeps ==
    ASSUME AdminInv, NEW o \in Op, LookForNumber(o) PROVE AdminInv'
<1>1. op[o].step = "look" /\ op[o].kind \in {"create", "update"} /\ NothingCommitted
      /\ tabel' \in [DOMAIN tabel' -> Person \cup {0}]
  BY DEF LookForNumber, AtOp, AdminInv, AdminTypeOK
<1>2. CASE OpEnds(o, 0, FALSE)
  BY <1>1, <1>2, EndedCall
<1>3. CASE OpGoes(o, IF op[o].kind = "create" THEN "insert" ELSE "find")
  <2> DEFINE new == [op[o] EXCEPT !.step = IF op[o].kind = "create" THEN "insert" ELSE "find"]
  <2>1. op' = [op EXCEPT ![o] = new]
    BY <1>3 DEF OpGoes
  <2>2. /\ new \in OpState /\ new.kind = op[o].kind /\ new.number = op[o].number
        /\ new.ok = op[o].ok /\ new.on = op[o].on /\ new.step \in {"insert", "find"}
    BY <1>1, KindsApart DEF OpState
  <2>. HIDE DEF new
  <2>. QED BY <1>1, <2>1, <2>2, KindsApart, CallReads
<1>. QED BY <1>2, <1>3 DEF LookForNumber

LEMMA InsertUserKeeps ==
    ASSUME AdminInv, NEW o \in Op, InsertUser(o) PROVE AdminInv'
<1>1. op[o].step = "insert" /\ op[o].kind = "create" /\ NothingCommitted
      /\ tabel' \in [DOMAIN tabel' -> Person \cup {0}] /\ FreeKeys # {}
  BY DEF InsertUser, AtOp, AdminInv, AdminTypeOK
<1> DEFINE p == CHOOSE p \in FreeKeys : TRUE
           row == [number |-> op[o].number, admin |-> op[o].admin, ban |-> FALSE]
           draft == [q \in {p} |-> row]
           new == [op[o] EXCEPT !.step = "commit", !.on = p, !.draft = draft]
<1>2. CASE OpEnds(o, 0, FALSE)
  BY <1>1, <1>2, EndedCall
<1>3. CASE op' = [op EXCEPT ![o] = new]
  <2>1. p \in Person
    BY <1>1 DEF FreeKeys
  <2>2. row \in Staff
    BY <1>1, KindsApart DEF OpState, Staff
  <2>3. draft \in Rows
    BY <2>1, <2>2, DraftTyped
  <2>4. /\ new \in OpState /\ new.kind = op[o].kind /\ new.number = op[o].number
        /\ new.ok = op[o].ok /\ new.step = "commit"
    BY <1>1, <2>1, <2>3, KindsApart DEF OpState
  <2>. HIDE DEF new
  <2>. QED BY <1>1, <1>3, <2>4, KindsApart, CallReads
<1>. QED BY <1>2, <1>3 DEF InsertUser

LEMMA FindUserKeeps ==
    ASSUME AdminInv, NEW o \in Op, FindUser(o) PROVE AdminInv'
<1>1. op[o].step = "find" /\ op[o].kind = "update" /\ NothingCommitted
      /\ tabel' \in [DOMAIN tabel' -> Person \cup {0}]
  BY DEF FindUser, AtOp, AdminInv, AdminTypeOK
<1> DEFINE row == staff[op[o].on]
           new == [op[o] EXCEPT !.read = row,
                     !.step = IF row.number = op[o].number THEN "save" ELSE "forget"]
<1>2. op' = [op EXCEPT ![o] = new]
  BY DEF FindUser
<1>3. row \in Staff
  BY <1>1, KindsApart
<1>4. /\ new \in OpState /\ new.kind = op[o].kind /\ new.number = op[o].number
      /\ new.ok = op[o].ok /\ new.on = op[o].on /\ new.step \in {"save", "forget"}
  BY <1>1, <1>3, KindsApart DEF OpState
<1>. HIDE DEF new
<1>. QED BY <1>1, <1>2, <1>4, KindsApart, CallReads

LEMMA ForgetOldNumberKeeps ==
    ASSUME AdminInv, NEW o \in Op, ForgetOldNumber(o) PROVE AdminInv'
<1> DEFINE new == [op[o] EXCEPT !.step = "remember"]
<1>1. /\ op[o].step = "forget" /\ op[o].kind = "update" /\ NothingCommitted
      /\ op' = [op EXCEPT ![o] = new]
  BY DEF ForgetOldNumber, AtOp, OpGoes
<1>2. tabel' \in [DOMAIN tabel' -> Person \cup {0}]
  BY DEF ForgetOldNumber, AdminInv, AdminTypeOK, Restrict
<1>3. /\ new \in OpState /\ new.kind = op[o].kind /\ new.number = op[o].number
      /\ new.ok = op[o].ok /\ new.on = op[o].on /\ new.step = "remember"
  BY <1>1, KindsApart DEF OpState
<1>. HIDE DEF new
<1>. QED BY <1>1, <1>2, <1>3, KindsApart, CallReads

LEMMA RememberNewNumberKeeps ==
    ASSUME AdminInv, NEW o \in Op, RememberNewNumber(o) PROVE AdminInv'
<1> DEFINE new == [op[o] EXCEPT !.step = "save"]
<1>1. /\ op[o].step = "remember" /\ op[o].kind = "update" /\ NothingCommitted
      /\ op' = [op EXCEPT ![o] = new]
  BY DEF RememberNewNumber, AtOp, OpGoes
<1>2. op[o].on \in Person
  BY <1>1, KindsApart
<1>3. tabel' \in [DOMAIN tabel' -> Person \cup {0}]
  BY <1>2, CacheTyped DEF RememberNewNumber
<1>4. /\ new \in OpState /\ new.kind = op[o].kind /\ new.number = op[o].number
      /\ new.ok = op[o].ok /\ new.on = op[o].on /\ new.step = "save"
  BY <1>1, KindsApart DEF OpState
<1>. HIDE DEF new
<1>. QED BY <1>1, <1>3, <1>4, KindsApart, CallReads

LEMMA SaveUserKeeps ==
    ASSUME AdminInv, NEW o \in Op, SaveUser(o) PROVE AdminInv'
<1> DEFINE p == op[o].on
           row == [staff[p] EXCEPT
                     !.number = IF op[o].number = op[o].read.number THEN @ ELSE op[o].number,
                     !.admin = IF op[o].admin = op[o].read.admin THEN @ ELSE op[o].admin]
           draft == [q \in {p} |-> row]
           plain == [op[o] EXCEPT !.step = "commit"]
           new == [op[o] EXCEPT !.step = "commit", !.draft = draft]
<1>1. op[o].step = "save" /\ op[o].kind = "update" /\ NothingCommitted
      /\ tabel' \in [DOMAIN tabel' -> Person \cup {0}]
  BY DEF SaveUser, AtOp, AdminInv, AdminTypeOK
<1>2. CASE OpEnds(o, 0, FALSE)
  BY <1>1, <1>2, EndedCall
<1>3. CASE OpGoes(o, "commit")
  <2>1. op' = [op EXCEPT ![o] = plain]
    BY <1>3 DEF OpGoes
  <2>2. /\ plain \in OpState /\ plain.kind = op[o].kind /\ plain.number = op[o].number
        /\ plain.ok = op[o].ok /\ plain.on = op[o].on /\ plain.step = "commit"
    BY <1>1, KindsApart DEF OpState
  <2>. HIDE DEF plain
  <2>. QED BY <1>1, <2>1, <2>2, KindsApart, CallReads
<1>4. CASE op' = [op EXCEPT ![o] = new]
  <2>1. p \in Person /\ staff[p] \in Staff /\ op[o].number \in Tabel /\ op[o].admin \in BOOLEAN
    BY <1>1, KindsApart DEF OpState
  <2>2. row \in Staff
    BY <2>1 DEF Staff
  <2>3. draft \in Rows
    BY <2>1, <2>2, DraftTyped
  <2>4. /\ new \in OpState /\ new.kind = op[o].kind /\ new.number = op[o].number
        /\ new.ok = op[o].ok /\ new.on = op[o].on /\ new.step = "commit"
    <3> HIDE DEF draft
    <3>. QED BY <1>1, <2>3, KindsApart DEF OpState
  <2>. HIDE DEF new
  <2>. QED BY <1>1, <1>4, <2>4, KindsApart, CallReads
<1>. QED BY <1>2, <1>3, <1>4 DEF SaveUser

LEMMA AskCacheKeeps ==
    ASSUME AdminInv, NEW o \in Op, AskCache(o) PROVE AdminInv'
<1>1. op[o].step = "cache" /\ op[o].kind = "check" /\ NothingCommitted
      /\ tabel' = tabel /\ tabel' \in [DOMAIN tabel' -> Person \cup {0}]
  BY DEF AskCache, AtOp, AdminInv, AdminTypeOK
<1>2. CASE op[o].number \in DOMAIN tabel /\ tabel[op[o].number] # 0
  <2>1. OpEnds(o, tabel[op[o].number], TRUE) /\ tabel[op[o].number] \in Person \cup {0}
    BY <1>1, <1>2 DEF AskCache
  <2>. QED BY <1>1, <1>2, <2>1, EndedCall
<1>3. CASE ~ (op[o].number \in DOMAIN tabel /\ tabel[op[o].number] # 0)
  <2> DEFINE new == [op[o] EXCEPT !.step = "query"]
  <2>1. op' = [op EXCEPT ![o] = new]
    BY <1>3 DEF AskCache, OpGoes
  <2>2. /\ new \in OpState /\ new.kind = op[o].kind /\ new.number = op[o].number
        /\ new.ok = op[o].ok /\ new.on = op[o].on /\ new.step = "query"
    BY <1>1, KindsApart DEF OpState
  <2>. HIDE DEF new
  <2>. QED BY <1>1, <2>1, <2>2, KindsApart, CallReads
<1>. QED BY <1>2, <1>3

LEMMA QueryNumberKeeps ==
    ASSUME AdminInv, NEW o \in Op, QueryNumber(o) PROVE AdminInv'
<1> DEFINE owners == OwnersOf(op[o].number)
           found == IF owners = {} THEN 0 ELSE CHOOSE p \in owners : TRUE
           new == [op[o] EXCEPT !.step = "remember", !.answer = found]
<1>1. op[o].step = "query" /\ op[o].kind = "check" /\ NothingCommitted
      /\ tabel' \in [DOMAIN tabel' -> Person \cup {0}] /\ op' = [op EXCEPT ![o] = new]
  BY DEF QueryNumber, AtOp, AdminInv, AdminTypeOK
<1>2. owners \subseteq Person /\ 0 \notin Person
  BY <1>1, KindsApart, UserAdminAssumption DEF OwnersOf, UserAdminAssumption
<1>3. found \in Person \cup {0} /\ (found = 0 => owners = {})
  <2> HIDE DEF owners
  <2>. QED BY <1>2
<1>4. /\ new \in OpState /\ new.kind = op[o].kind /\ new.number = op[o].number
      /\ new.ok = op[o].ok /\ new.step = "remember" /\ new.answer = found
  <2> HIDE DEF found
  <2>. QED BY <1>1, <1>3, KindsApart DEF OpState
<1>. HIDE DEF new, found
<1>. QED BY <1>1, <1>3, <1>4, KindsApart, CallReads

LEMMA RememberAnswerKeeps ==
    ASSUME AdminInv, NEW o \in Op, RememberAnswer(o) PROVE AdminInv'
<1>1. op[o].step = "remember" /\ op[o].kind = "check" /\ NothingCommitted
      /\ OpEnds(o, op[o].answer, TRUE)
  BY DEF RememberAnswer, AtOp
<1>2. op[o].answer \in Person \cup {0}
  BY <1>1, KindsApart DEF OpState
<1>3. tabel' \in [DOMAIN tabel' -> Person \cup {0}]
  BY <1>2, CacheTyped DEF RememberAnswer
<1>4. op[o].answer = 0 => o \in sawFree
  BY <1>1 DEF AdminInv, OpInv, SeesFree
<1>. QED BY <1>1, <1>2, <1>3, <1>4, EndedCall

LEMMA FindToBlockKeeps ==
    ASSUME AdminInv, NEW o \in Op, FindToBlock(o) PROVE AdminInv'
<1> DEFINE row == staff[op[o].on]
           new == [op[o] EXCEPT !.read = row,
                     !.step = IF ~ row.ban /\ row.admin THEN "count" ELSE "flip"]
<1>1. op[o].step = "find" /\ op[o].kind = "block" /\ NothingCommitted
      /\ tabel' \in [DOMAIN tabel' -> Person \cup {0}]
      /\ op' = [op EXCEPT ![o] = new]
  BY DEF FindToBlock, AtOp, AdminInv, AdminTypeOK
<1>2. row \in Staff
  BY <1>1, KindsApart
<1>3. /\ new \in OpState /\ new.kind = op[o].kind /\ new.number = op[o].number
      /\ new.ok = op[o].ok /\ new.on = op[o].on
      /\ new.step = IF ~ row.ban /\ row.admin THEN "count" ELSE "flip"
  <2> HIDE DEF row
  <2>. QED BY <1>1, <1>2, KindsApart DEF OpState
<1>4. new.step = "flip" => Administrators(staff) # {new.on}
  BY <1>3 DEF Administrators
<1>. HIDE DEF new
<1>. QED BY <1>1, <1>3, <1>4, KindsApart, CallReads

LEMMA CountAdministratorsKeeps ==
    ASSUME AdminInv, NEW o \in Op, CountAdministrators(o) PROVE AdminInv'
<1>1. op[o].step = "count" /\ op[o].kind = "block" /\ NothingCommitted
      /\ tabel' \in [DOMAIN tabel' -> Person \cup {0}]
  BY DEF CountAdministrators, AtOp, AdminInv, AdminTypeOK
<1>2. CASE Cardinality(Administrators(staff)) <= 1
  <2>1. OpEnds(o, 0, FALSE)
    BY <1>2 DEF CountAdministrators
  <2>. QED BY <1>1, <2>1, EndedCall
<1>3. CASE ~ (Cardinality(Administrators(staff)) <= 1)
  <2> DEFINE new == [op[o] EXCEPT !.step = "flip"]
  <2>1. op' = [op EXCEPT ![o] = new]
    BY <1>3 DEF CountAdministrators, OpGoes
  <2>2. /\ new \in OpState /\ new.kind = op[o].kind /\ new.number = op[o].number
        /\ new.ok = op[o].ok /\ new.on = op[o].on /\ new.step = "flip"
    BY <1>1, KindsApart DEF OpState
  <2>3. \A p : Cardinality({p}) = 1
    BY FS_Singleton
  <2>4. Administrators(staff) # {new.on}
    <3> HIDE DEF new
    <3> SUFFICES ASSUME Administrators(staff) = {new.on} PROVE FALSE
      OBVIOUS
    <3>1. Cardinality(Administrators(staff)) = 1
      BY <2>3
    <3>. QED BY <1>3, <3>1
  <2>. HIDE DEF new
  <2>. QED BY <1>1, <2>1, <2>2, <2>4, KindsApart, CallReads
<1>. QED BY <1>2, <1>3

LEMMA FlipBanKeeps ==
    ASSUME AdminInv, NEW o \in Op, FlipBan(o) PROVE AdminInv'
<1> DEFINE p == op[o].on
           row == [staff[p] EXCEPT !.ban = ~ op[o].read.ban]
           draft == [q \in {p} |-> row]
           new == [op[o] EXCEPT !.step = "commit", !.draft = draft]
<1>1. op[o].step = "flip" /\ op[o].kind = "block" /\ NothingCommitted
      /\ tabel' \in [DOMAIN tabel' -> Person \cup {0}]
      /\ op' = [op EXCEPT ![o] = new]
  BY DEF FlipBan, AtOp, AdminInv, AdminTypeOK
<1>2. p \in Person /\ staff[p] \in Staff /\ op[o].read \in Staff
  BY <1>1, KindsApart DEF OpState
<1>3. row \in Staff
  BY <1>2 DEF Staff
<1>4. draft \in Rows /\ DOMAIN draft = {p}
  BY <1>2, <1>3, DraftTyped
<1>5. /\ new \in OpState /\ new.kind = op[o].kind /\ new.number = op[o].number
      /\ new.ok = op[o].ok /\ new.on = op[o].on /\ new.step = "commit" /\ new.draft = draft
  <2> HIDE DEF draft
  <2>. QED BY <1>1, <1>4, KindsApart DEF OpState
<1>6. o \notin lapped => Administrators(staff) # {p}
  BY <1>1 DEF AdminInv, OpInv, SparesTheLast
<1>. HIDE DEF new, draft
<1>. QED BY <1>1, <1>4, <1>5, <1>6, KindsApart, CallReads

LEMMA OpFailsKeeps ==
    ASSUME AdminInv, NEW o \in Op, OpFails(o) PROVE AdminInv'
<1>1. OpEnds(o, 0, FALSE) /\ NothingCommitted
      /\ tabel' \in [DOMAIN tabel' -> Person \cup {0}]
  BY DEF OpFails, AdminInv, AdminTypeOK
<1>. QED BY <1>1, EndedCall

----------------------------------------------------------------------------
(* The commits. *)

LEMMA MoreRows ==
    ASSUME NEW new \in Rows, NEW rows \in Rows
    PROVE  /\ WithRows(new, rows) \in Rows
           /\ DOMAIN WithRows(new, rows) = DOMAIN new \cup DOMAIN rows
<1>1. /\ new \in [DOMAIN new -> Staff] /\ DOMAIN new \subseteq Person
      /\ rows \in [DOMAIN rows -> Staff] /\ DOMAIN rows \subseteq Person
  BY DEF Rows
<1> DEFINE D == DOMAIN new \cup DOMAIN rows
<1>2. WithRows(new, rows) \in [D -> Staff] /\ D \in SUBSET Person
  BY <1>1 DEF WithRows
<1>. QED BY <1>2 DEF Rows

LEMMA CommitUserKeeps ==
    ASSUME AdminInv, NEW o \in Op, CommitUser(o) PROVE AdminInv'
<1> DEFINE rows == WithRows(op[o].draft, staff)
           new == Over(o, op[o].on, TRUE)
<1>1. op[o].step = "commit" /\ Committed(o, rows) /\ tabel' = tabel
      /\ op' = [op EXCEPT ![o] = new]
  BY DEF CommitUser, OpEnds, Over
<1>2. op[o] \in OpState /\ staff \in Rows
  BY DEF AdminInv, AdminTypeOK
<1>3. rows \in Rows /\ DOMAIN staff \subseteq DOMAIN rows
  BY <1>2, MoreRows DEF OpState
<1>4. op[o].on \in Person \cup {0}
  BY <1>2 DEF OpState
<1>5. /\ new \in OpState /\ new.kind = op[o].kind /\ new.step = "done"
      /\ op'[o] = new
  BY <1>1, <1>4, OverTyped DEF AdminInv, AdminTypeOK
<1>6. op[o].kind # "check"
  BY <1>1 DEF AdminInv, OpInv, Stepwise
<1>7. \A c \in Op : c # o => op'[c] = op[c]
  BY <1>1 DEF AdminInv, AdminTypeOK
<1>8. \A c \in Op : c # o => OpInv(c)'
  <2> HIDE DEF rows
  <2>. QED BY <1>1, <1>3, <1>7, OthersSeeCommit
<1>9. OpInv(o)'
  <2> HIDE DEF new
  <2>. QED BY <1>5, <1>6 DEF OpInv, Stepwise, SeesFree, SparesTheLast
<1>10. AdminTypeOK'
  <2>1. op' \in [Op -> OpState]
    <3> HIDE DEF new
    <3>. QED BY <1>1, <1>5 DEF AdminInv, AdminTypeOK
  <2>. HIDE DEF rows
  <2>. QED BY <1>1, <1>3, <2>1 DEF AdminInv, AdminTypeOK, Committed
<1>. QED BY <1>8, <1>9, <1>10 DEF AdminInv

LEMMA ErpChangesKeeps ==
    ASSUME AdminInv, ErpChanges PROVE AdminInv'
<1>1. UNCHANGED <<tabel, op>> /\ staff \in [DOMAIN staff -> Staff] /\ DOMAIN staff \subseteq Person
  BY DEF ErpChanges, AdminInv, AdminTypeOK, Rows
<1>2. PICK p \in DOMAIN staff :
         \/ Committed(0, [staff EXCEPT ![p].ban = ~ @])
         \/ Committed(0, [staff EXCEPT ![p].admin = ~ @])
         \/ \E n \in Tabel : Committed(0, [staff EXCEPT ![p].number = n])
  BY DEF ErpChanges
<1>3. PICK row \in Staff : Committed(0, [staff EXCEPT ![p] = row])
  <2>1. ASSUME NEW n \in Tabel, NEW ban \in BOOLEAN, NEW admin \in BOOLEAN
        PROVE  /\ [staff[p] EXCEPT !.number = n] \in Staff
               /\ [staff[p] EXCEPT !.ban = ban] \in Staff
               /\ [staff[p] EXCEPT !.admin = admin] \in Staff
    BY <1>1 DEF Staff
  <2>2. CASE Committed(0, [staff EXCEPT ![p].ban = ~ @])
    <3>1. [staff EXCEPT ![p].ban = ~ @] = [staff EXCEPT ![p] = [staff[p] EXCEPT !.ban = ~ staff[p].ban]]
      OBVIOUS
    <3>2. [staff[p] EXCEPT !.ban = ~ staff[p].ban] \in Staff
      BY <1>1 DEF Staff
    <3>. QED BY <2>2, <3>1, <3>2
  <2>3. CASE Committed(0, [staff EXCEPT ![p].admin = ~ @])
    <3>1. [staff EXCEPT ![p].admin = ~ @]
             = [staff EXCEPT ![p] = [staff[p] EXCEPT !.admin = ~ staff[p].admin]]
      OBVIOUS
    <3>2. [staff[p] EXCEPT !.admin = ~ staff[p].admin] \in Staff
      BY <1>1 DEF Staff
    <3>. QED BY <2>3, <3>1, <3>2
  <2>4. ASSUME NEW n \in Tabel, Committed(0, [staff EXCEPT ![p].number = n])
        PROVE  \E row \in Staff : Committed(0, [staff EXCEPT ![p] = row])
    <3>1. [staff EXCEPT ![p].number = n] = [staff EXCEPT ![p] = [staff[p] EXCEPT !.number = n]]
      OBVIOUS
    <3>2. [staff[p] EXCEPT !.number = n] \in Staff
      BY <2>1
    <3>. QED BY <2>4, <3>1, <3>2
  <2>. QED BY <1>2, <2>2, <2>3, <2>4
<1> DEFINE rows == [staff EXCEPT ![p] = row]
<1>4. rows \in [DOMAIN staff -> Staff]
  BY <1>1
<1>5. rows \in Rows /\ DOMAIN rows = DOMAIN staff
  BY <1>1, <1>4 DEF Rows
<1>6. \A c \in Op : OpInv(c)'
  <2> HIDE DEF rows
  <2>. QED BY <1>1, <1>3, <1>5, OthersSeeCommit, UserAdminAssumption DEF UserAdminAssumption, rows
<1>7. AdminTypeOK'
  <2> HIDE DEF rows
  <2>. QED BY <1>1, <1>3, <1>5 DEF AdminInv, AdminTypeOK, Committed, rows
<1>. QED BY <1>6, <1>7 DEF AdminInv

LEMMA AdminStep ==
    ASSUME AdminInv, [AdminNext]_adminVars PROVE AdminInv'
<1>1. CASE UNCHANGED adminVars
  <2>1. AdminTypeOK'
    BY <1>1 DEF adminVars, AdminInv, AdminTypeOK
  <2>2. \A c \in Op : OpInv(c)'
    BY <1>1 DEF adminVars, AdminInv, OpInv, Stepwise, SeesFree, SparesTheLast, Running, OwnersOf,
                Administrators
  <2>. QED BY <2>1, <2>2 DEF AdminInv
<1>2. CASE ErpChanges
  BY <1>2, ErpChangesKeeps
<1>3. ASSUME NEW o \in Op, CallCreate(o) \/ CallUpdate(o) \/ CallCheck(o) \/ CallBlock(o)
      PROVE  AdminInv'
  BY <1>3, CallsBegin
<1>4. ASSUME NEW o \in Op, OpSteps(o) PROVE AdminInv'
  BY <1>4, LookForNumberKeeps, InsertUserKeeps, FindUserKeeps, ForgetOldNumberKeeps,
     RememberNewNumberKeeps, SaveUserKeeps, CommitUserKeeps, AskCacheKeeps, QueryNumberKeeps,
     RememberAnswerKeeps, FindToBlockKeeps, CountAdministratorsKeeps, FlipBanKeeps, OpFailsKeeps
  DEF OpSteps
<1>. QED BY <1>1, <1>2, <1>3, <1>4 DEF AdminNext

LEMMA AdminInvariant == AdminSpec => []AdminInv
BY AdminInitially, AdminStep, PTL DEF AdminSpec

\* FreeNumberWasFree, for every number of calls, rows and numbers: checkTabel answers that a
\* number is free only if it was nobody's at some moment of the check, whatever the cache,
\* the other calls and the ERP do meanwhile.
THEOREM FreeNumbers == AdminSpec => []FreeNumberWasFree
<1>1. AdminInv => FreeNumberWasFree
  BY DEF AdminInv, OpInv, SeesFree, FreeNumberWasFree
<1>. QED BY <1>1, AdminInvariant, PTL

LEMMA OneCallAtATime ==
    ASSUME AdminInv, NEW c \in Op, NEW o \in Op, o # c,
           CallCreate(c) \/ CallUpdate(c) \/ CallCheck(c) \/ CallBlock(c) \/ OpSteps(c)
    PROVE  op'[o] = op[o]
<1>1. ASSUME NEW new, op' = [op EXCEPT ![c] = new] PROVE op'[o] = op[o]
  BY <1>1 DEF AdminInv, AdminTypeOK
<1>2. ASSUME NEW new, Calls(c, new) PROVE op'[o] = op[o]
  BY <1>2, <1>1 DEF Calls
<1>3. ASSUME NEW step, OpGoes(c, step) PROVE op'[o] = op[o]
  BY <1>3 DEF AdminInv, AdminTypeOK, OpGoes
<1>4. ASSUME NEW answer, NEW ok, OpEnds(c, answer, ok) PROVE op'[o] = op[o]
  BY <1>4 DEF AdminInv, AdminTypeOK, OpEnds
<1>5. CASE CallCreate(c) \/ CallUpdate(c) \/ CallCheck(c) \/ CallBlock(c)
  BY <1>5, <1>2 DEF CallCreate, CallUpdate, CallCheck, CallBlock
<1>6. CASE LookForNumber(c) \/ ForgetOldNumber(c) \/ RememberNewNumber(c) \/ CommitUser(c)
             \/ AskCache(c) \/ RememberAnswer(c) \/ CountAdministrators(c) \/ OpFails(c)
  BY <1>6, <1>3, <1>4 DEF LookForNumber, ForgetOldNumber, RememberNewNumber, CommitUser, AskCache,
     RememberAnswer, CountAdministrators, OpFails
<1>7. CASE InsertUser(c)
  BY <1>7, <1>1, <1>4 DEF InsertUser
<1>8. CASE FindUser(c)
  BY <1>8, <1>1 DEF FindUser
<1>9. CASE SaveUser(c)
  BY <1>9, <1>1, <1>3, <1>4 DEF SaveUser
<1>10. CASE QueryNumber(c)
  BY <1>10, <1>1 DEF QueryNumber
<1>11. CASE FindToBlock(c)
  BY <1>11, <1>1 DEF FindToBlock
<1>12. CASE FlipBan(c)
  BY <1>12, <1>1 DEF FlipBan
<1>. QED BY <1>5, <1>6, <1>7, <1>8, <1>9, <1>10, <1>11, <1>12 DEF OpSteps

LEMMA OnlyItsCommitSucceeds ==
    ASSUME AdminInv, [AdminNext]_adminVars, NEW o \in Op, op[o].step = "commit", op'[o].ok
    PROVE  CommitUser(o)
<1>1. ~ op[o].ok /\ op'[o] # op[o]
  BY KindsApart
<1>2. ~ UNCHANGED adminVars /\ ~ ErpChanges
  BY <1>1 DEF adminVars, ErpChanges
<1>3. PICK c \in Op : CallCreate(c) \/ CallUpdate(c) \/ CallCheck(c) \/ CallBlock(c) \/ OpSteps(c)
  BY <1>2 DEF AdminNext
<1>4. CallCreate(o) \/ CallUpdate(o) \/ CallCheck(o) \/ CallBlock(o) \/ OpSteps(o)
  BY <1>1, <1>3, OneCallAtATime
<1>5. op[o] # NoOp
  BY DEF NoOp
<1>6. OpSteps(o)
  BY <1>4, <1>5 DEF CallCreate, CallUpdate, CallCheck, CallBlock, Calls
<1>7. ~ OpFails(o)
  <2> SUFFICES ASSUME OpFails(o) PROVE FALSE
    OBVIOUS
  <2>1. op'[o] = Over(o, 0, FALSE)
    BY DEF OpFails, OpEnds, Over, AdminInv, AdminTypeOK
  <2>. QED BY <2>1, OverTyped
<1>. QED BY <1>6, <1>7 DEF OpSteps, AtOp, LookForNumber, InsertUser, FindUser, ForgetOldNumber,
     RememberNewNumber, SaveUser, AskCache, QueryNumber, RememberAnswer, FindToBlock,
     CountAdministrators, FlipBan

LEMMA BlockSparesTheLast ==
    ASSUME AdminInv, [AdminNext]_adminVars, NEW o \in Op, op[o].kind = "block",
           op[o].step = "commit", op'[o].ok, o \notin lapped, Administrators(staff) # {}
    PROVE  Administrators(staff') # {}
<1>1. staff' = WithRows(op[o].draft, staff)
  BY OnlyItsCommitSucceeds DEF CommitUser, Committed
<1>2. DOMAIN op[o].draft = {op[o].on} /\ Administrators(staff) # {op[o].on}
  BY DEF AdminInv, OpInv, SparesTheLast
<1>3. PICK p \in Administrators(staff) : p # op[o].on
  BY <1>2
<1>4. p \in DOMAIN staff' /\ staff'[p] = staff[p]
  BY <1>1, <1>2, <1>3 DEF WithRows, Administrators
<1>5. p \in Administrators(staff')
  BY <1>3, <1>4 DEF Administrators
<1>. QED BY <1>5

\* LastAdminStays, for every number of calls and rows: blocking a user takes the last
\* administrator away only if who administers was changed after the count.
THEOREM LastAdministrator == AdminSpec => LastAdminStays
<1>1. AdminInv /\ [AdminNext]_adminVars
        => [\A o \in Op : op[o].kind = "block" /\ op[o].step = "commit" /\ op'[o].ok
                       /\ Administrators(staff) # {} /\ Administrators(staff') = {}
                     => o \in lapped]_adminVars
  BY BlockSparesTheLast
<1>. QED BY <1>1, AdminInvariant, PTL DEF AdminSpec, LastAdminStays

----------------------------------------------------------------------------
(* UserDirectory. Each entry of the snapshot is still to be applied, or handled: so nothing
   is left when the window closes. *)

\* The entries a refresh is done with are somebody's, or banned.
Handled(rows, e) == e.ban \/ \E i \in rows : i.id = e.id \/ i.number = e.number

DirectoryInv ==
    /\ clock \in Nat /\ refreshedAt \in Int
    /\ refresh.step \in {"none", "fetch", "apply"}
    /\ refresh = [step |-> refresh.step, left |-> refresh.left, snapshot |-> refresh.snapshot]
    /\ refresh.left \in Seq(Range(refresh.snapshot))
    /\ ~ Ambiguous(refresh.snapshot)
    /\ refresh.step = "fetch" => refresh.snapshot = <<>>
    /\ refresh.step \in {"fetch", "apply"} => ~ Closed
    /\ \A e \in Range(refresh.snapshot) : Closed \/ refresh.step = "apply" =>
          e \in Range(refresh.left) \/ Handled(known, e)
    /\ Closed => refresh.left = <<>>

LEMMA RangeOfNothing == Range(<<>>) = {} /\ <<>> \in Seq(Range(<<>>)) /\ ~ Ambiguous(<<>>)
BY DEF Range, Ambiguous

LEMMA RangeOfTail ==
    ASSUME NEW S, NEW s \in Seq(S), s # <<>>
    PROVE  /\ Tail(s) \in Seq(S)
           /\ Range(s) = {Head(s)} \cup Range(Tail(s))
<1>1. Tail(s) \in Seq(S) /\ DOMAIN Tail(s) = 1 .. Len(s) - 1 /\ DOMAIN s = 1 .. Len(s)
      /\ Len(s) \in Nat /\ Len(s) # 0
  OBVIOUS
<1>2. \A i \in DOMAIN Tail(s) : Tail(s)[i] = s[i + 1]
  OBVIOUS
<1>3. Range(s) \subseteq {Head(s)} \cup Range(Tail(s))
  <2> SUFFICES ASSUME NEW i \in DOMAIN s, i # 1 PROVE s[i] \in Range(Tail(s))
    BY DEF Range
  <2>1. i - 1 \in DOMAIN Tail(s) /\ Tail(s)[i - 1] = s[i]
    BY <1>1, <1>2
  <2>. QED BY <2>1 DEF Range
<1>4. {Head(s)} \cup Range(Tail(s)) \subseteq Range(s)
  <2>1. \A i \in DOMAIN Tail(s) : i + 1 \in DOMAIN s
    BY <1>1
  <2>2. 1 \in DOMAIN s /\ Head(s) = s[1]
    BY <1>1
  <2>. QED BY <2>1, <2>2, <1>2 DEF Range
<1>. QED BY <1>1, <1>3, <1>4

LEMMA DirectoryInitially == DirectoryInit => DirectoryInv
BY RangeOfNothing, UserDirectoryAssumption
   DEF DirectoryInit, DirectoryInv, NoRefresh, Closed, Never, UserDirectoryAssumption

LEMMA NothingLeftAfterFailure ==
    ASSUME DirectoryInv, RefreshFails PROVE DirectoryInv'
BY RangeOfNothing DEF DirectoryInv, RefreshFails, NoRefresh, Closed

LEMMA DirectoryStep ==
    ASSUME DirectoryInv, [DirectoryNext]_directoryVars PROVE DirectoryInv'
<1>. USE RangeOfNothing
<1>1. ASSUME NEW r \in Reader, EnsureMissingUsers(r) PROVE DirectoryInv'
  <2>1. ~ Closed /\ UNCHANGED <<clock, refreshedAt, known>>
    BY <1>1 DEF EnsureMissingUsers
  <2>2. CASE refresh.step = "none"
    <3>1. refresh' = [step |-> "fetch", left |-> <<>>, snapshot |-> <<>>]
      BY <1>1, <2>2 DEF EnsureMissingUsers, NoRefresh
    <3>. QED BY <2>1, <3>1 DEF DirectoryInv, Closed, Ambiguous, Range
  <2>3. CASE refresh.step # "none"
    BY <1>1, <2>1, <2>3 DEF DirectoryInv, EnsureMissingUsers, Closed, Ambiguous
  <2>. QED BY <2>2, <2>3
<1>2. ASSUME Fetch PROVE DirectoryInv'
  <2>1. CASE RefreshFails
    BY <2>1, NothingLeftAfterFailure
  <2>2. ASSUME NEW s \in Snapshot, ~ Ambiguous(s),
               refresh' = [step |-> "apply", left |-> s, snapshot |-> s],
               UNCHANGED <<clock, refreshedAt, known, waiting>>
        PROVE  DirectoryInv'
    <3>1. s \in Seq(Range(s)) /\ ~ Closed
      BY <1>2, UserDirectoryAssumption DEF UserDirectoryAssumption, Fetch, DirectoryInv
    <3>. QED BY <2>2, <3>1 DEF DirectoryInv, Closed, Ambiguous
  <2>. QED BY <1>2, <2>1, <2>2 DEF Fetch
<1>3. ASSUME ApplyEntry PROVE DirectoryInv'
  <2>1. CASE RefreshFails
    BY <2>1, NothingLeftAfterFailure
  <2>2. CASE ~ RefreshFails
    <3> DEFINE e == Head(refresh.left)
    <3>1. refresh.step = "apply" /\ refresh.left # <<>> /\ ~ Closed
      BY <1>3 DEF ApplyEntry, DirectoryInv
    <3>2. /\ refresh' = [refresh EXCEPT !.left = Tail(@)]
          /\ UNCHANGED <<clock, refreshedAt, waiting>>
      BY <1>3, <2>2 DEF ApplyEntry
    <3>3. known \subseteq known' /\ Handled(known', e)
      <4>1. CASE e.ban
        BY <1>3, <2>2, <4>1 DEF ApplyEntry, Handled
      <4>2. CASE ~ e.ban
        <5>1. known' = IF Matches(e) # {} THEN known
                       ELSE known \cup {[id |-> e.id, number |-> e.number]}
          BY <1>3, <2>2, <4>2 DEF ApplyEntry
        <5>2. CASE Matches(e) # {}
          BY <5>1, <5>2 DEF Handled, Matches
        <5>3. CASE Matches(e) = {}
          <6> DEFINE row == [id |-> e.id, number |-> e.number]
          <6>1. row \in known' /\ known \subseteq known' /\ row.id = e.id
            BY <5>1, <5>3
          <6>. QED BY <6>1 DEF Handled
        <5>. QED BY <5>2, <5>3
      <4>. QED BY <4>1, <4>2
    <3>4. /\ Tail(refresh.left) \in Seq(Range(refresh.snapshot))
          /\ Range(refresh.left) = {e} \cup Range(Tail(refresh.left))
      BY <3>1, RangeOfTail DEF DirectoryInv
    <3>5. \A x : Handled(known, x) => Handled(known', x)
      BY <3>3 DEF Handled
    <3>6. /\ refresh'.step = "apply" /\ refresh'.snapshot = refresh.snapshot
          /\ refresh'.left = Tail(refresh.left) 
          /\ refresh' = [step |-> refresh'.step, left |-> refresh'.left, snapshot |-> refresh'.snapshot]
      BY <3>1, <3>2 DEF DirectoryInv
    <3>. HIDE DEF e
    <3>. QED BY <3>1, <3>2, <3>3, <3>4, <3>5, <3>6 DEF DirectoryInv, Closed, Ambiguous
  <2>. QED BY <2>1, <2>2
<1>4. ASSUME RefreshDone PROVE DirectoryInv'
  <2>1. /\ refresh'.step = "none" /\ refresh'.snapshot = refresh.snapshot
        /\ refresh'.left = refresh.left /\ refresh.left = <<>>
        /\ refresh' = [step |-> refresh'.step, left |-> refresh'.left, snapshot |-> refresh'.snapshot]
    BY <1>4 DEF DirectoryInv, RefreshDone
  <2>2. refresh.step = "apply" /\ UNCHANGED <<clock, known>> /\ refreshedAt' = clock
    BY <1>4 DEF RefreshDone
  <2>. QED BY <2>1, <2>2 DEF DirectoryInv, Closed, Ambiguous
<1>5. ASSUME OtherUserAppears PROVE DirectoryInv'
  <2>1. \A x : Handled(known, x) => Handled(known', x)
    BY <1>5 DEF OtherUserAppears, Handled
  <2>. QED BY <1>5, <2>1 DEF DirectoryInv, OtherUserAppears, Closed, Ambiguous
<1>6. ASSUME Tick PROVE DirectoryInv'
  <2>1. Closed' => Closed
    BY <1>6, UserDirectoryAssumption DEF Tick, DirectoryInv, Closed, UserDirectoryAssumption
  <2>. QED BY <1>6, <2>1 DEF DirectoryInv, Tick, Ambiguous
<1>7. ASSUME UNCHANGED directoryVars PROVE DirectoryInv'
  BY <1>7 DEF DirectoryInv, directoryVars, Closed, Ambiguous
<1>. QED BY <1>1, <1>2, <1>3, <1>4, <1>5, <1>6, <1>7 DEF DirectoryNext

LEMMA DirectoryInvariant == DirectorySpec => []DirectoryInv
BY DirectoryInitially, DirectoryStep, PTL DEF DirectorySpec

\* ClosedWindowIsComplete, for every snapshot of the ERP and every time: a refresh counts as done, and
\* spares the next ones the call, only if each user of the snapshot is in the table or banned.
THEOREM ClosedWindows == DirectorySpec => []ClosedWindowIsComplete
<1>1. DirectoryInv => ClosedWindowIsComplete
  BY RangeOfNothing DEF DirectoryInv, ClosedWindowIsComplete, Handled, Matches
<1>. QED BY <1>1, DirectoryInvariant, PTL
===============================================================================
