----------------------------- MODULE BoardsProofs -----------------------------
(***************************************************************************)
(* Boards, for every number of boards, columns, requests and connections:  *)
(* UndisturbedOrder and LastReorderHolds. Neither is inductive. What a     *)
(* transaction has written and not committed must still be so when it is:  *)
(* rows it has written are locked, so no other transaction has written     *)
(* them (Drafts); rows are updated only in their own list, so a request    *)
(* that met no other one in its list keeps what it has achieved until it   *)
(* is answered (Alone, Achieved); and a row is never absent again.         *)
(*                                                                         *)
(* Projects, whose lists are ordered for each user: DistinctOrders, in the *)
(* second part. Its invariant says what a request relies on while others   *)
(* run (Relies), and where the places it gives lie (Places).               *)
(*                                                                         *)
(* AnsweredIsDone, in the third part: no request at work meets an          *)
(* undisturbed one (AtWorkApart), so it keeps what it has found or written *)
(* at each of its steps (Kept).                                            *)
(***************************************************************************)
EXTENDS Boards, Projects, FiniteSetTheorems, TLAPS

Creates == {"boards.create", "columns.create"}
Archives == {"boards.delete", "boards.restore"}
Reorders == {"boards.reorder", "columns.reorder"}

BoardsTypeOK ==
    /\ row \in [Place -> RowState]
    /\ req \in [Req -> ReqState]
    /\ alone \in SUBSET Req /\ log \in Seq(Req)

\* What a request was asked and where it is.
Knows(r) ==
    /\ r.kind = "none" <=> r.step = "idle"
    /\ r.kind \in {"boards.create", "boards.reorder"} \cup Archives => r.in = Prj
    /\ r.kind \in {"columns.create", "columns.reorder", "columns.delete"} => r.in \in Brd
    /\ r.kind \in Reorders => r.ids \in Lists
    /\ r.kind \notin Reorders => r.ids = <<>>
    /\ r.kind \in Archives => r.on \in Brd
    /\ r.kind = "columns.delete" => r.on \in Col /\ r.in = Home[r.on]
    /\ r.kind # "boards.create" => DOMAIN r.copied = {}
    /\ r.kind # "boards.reorder" \/ r.step \notin {"rows", "done"} => r.left = {}
    /\ r.left \subseteq DOMAIN r.ids
    /\ r.step = "rows" => r.kind = "boards.reorder"
    /\ r.step = "row" => r.kind = "columns.reorder"
    /\ r.step = "source" => r.kind = "boards.create"
    /\ r.step \in {"max", "insert"} => r.kind \in Creates
    /\ r.step = "access" => r.kind \notin Archives
    /\ r.step = "lock" => r.kind \in Archives
    /\ r.step = "write" => r.kind \in Archives \cup {"columns.delete"}
    /\ r.step = "commit" => r.kind \notin {"boards.reorder", "columns.delete"}
    /\ r.answer = "ok" => r.step = "done" /\ r.left = {}
    /\ r.step \notin {"row", "write", "commit"} => DOMAIN r.draft = {}

\* What it has written and not committed, and the board it may count on.
Drafts(r) ==
    /\ \A q \in DOMAIN r.draft : r.draft[q].state # "absent"
    /\ r.kind \in Creates /\ (r.step = "commit" \/ r.answer = "ok") =>
          r.on \in Place /\ In(r.on, r.in)
    /\ r.kind \in Creates /\ r.step = "commit" =>
          /\ r.on \in DOMAIN r.draft /\ r.draft[r.on].order = r.next
          /\ \A q \in DOMAIN r.draft :
                row[q] = Gone /\ (q = r.on \/ (r.kind = "boards.create" /\ Home[q] = r.on))
    /\ r.kind \in Archives => DOMAIN r.draft \subseteq {r.on}
    /\ r.kind = "columns.delete" => DOMAIN r.draft = {}
    /\ r.kind = "columns.reorder" =>
          /\ r.step \in {"begin", "access"} => r.next = 0
          /\ r.step = "commit" => r.next >= Len(r.ids)
          /\ \A q \in DOMAIN r.draft : q \in Range(r.ids) /\ In(q, r.in) /\ Active(q)
          /\ r.step \in {"row", "commit"} => \A i \in DOMAIN r.ids : i <= r.next =>
                IF r.ids[i] \in DOMAIN r.draft
                THEN r.draft[r.ids[i]] = [state |-> "active", order |-> i - 1]
                ELSE ~ (Active(r.ids[i]) /\ In(r.ids[i], r.in))
    /\ r.in \in Brd /\ (r.step \in {"max", "insert", "row", "write", "commit"} \/ r.answer = "ok") =>
          row[r.in].state # "absent"

Alone(k) == \A o \in Req \ {k} : req[o].in = req[k].in => ~ OrderWriter(o)

\* What a request that met no other one has achieved.
Achieved(r) ==
    /\ r.kind = "boards.reorder" /\ (r.step = "rows" \/ r.answer = "ok") =>
          \A i \in DOMAIN r.ids \ r.left :
             Active(r.ids[i]) /\ In(r.ids[i], r.in) => row[r.ids[i]].order = i - 1
    /\ r.kind = "columns.reorder" /\ r.answer = "ok" =>
          \A i \in DOMAIN r.ids :
             Active(r.ids[i]) /\ In(r.ids[i], r.in) => row[r.ids[i]].order = i - 1
    /\ r.kind \in Creates /\ r.step \in {"insert", "commit"} =>
          \A p \in Place : Active(p) /\ In(p, r.in) => row[p].order < r.next
    /\ r.kind \in Creates /\ r.answer = "ok" =>
          \A p \in Place : Active(p) /\ In(p, r.in) /\ p # r.on => row[p].order < row[r.on].order

BoardsInv ==
    /\ BoardsTypeOK
    /\ \A k \in Req : Knows(req[k]) /\ Drafts(req[k])
    /\ \A k, o \in Req : k # o => DOMAIN req[k].draft \cap DOMAIN req[o].draft = {}
    /\ \A p \in Place : row[p].state = "absent" => row[p] = Gone
    /\ \A p \in DOMAIN FirstOrder : row[p].state # "absent"
    /\ \A i \in DOMAIN log : req[log[i]].step = "done"
    /\ \A k \in alone : req[k].kind # "none" /\ Alone(k) /\ Achieved(req[k])
    /\ LastReorderHolds

\* Functions on a set of rows, and back.
LEMMA RowsOf ==
    ASSUME NEW S, NEW d \in SUBSET Place, NEW f \in [d -> S]
    PROVE  f \in PartialOn(S) /\ DOMAIN f = d
BY DEF PartialOn

LEMMA PartialIs ==
    ASSUME NEW S, NEW f \in PartialOn(S)
    PROVE  f \in [DOMAIN f -> S] /\ DOMAIN f \in SUBSET Place
BY DEF PartialOn

LEMMA NoRows ==
    ASSUME NEW S
    PROVE  <<>> \in PartialOn(S) /\ DOMAIN <<>> = {}
<1>1. <<>> \in [{} -> S] /\ DOMAIN <<>> = {}
  OBVIOUS
<1>. QED BY <1>1, RowsOf

\* A request before it is asked.
LEMMA IdleIs ==
    /\ Idle \in ReqState /\ Knows(Idle) /\ Drafts(Idle) /\ Idle.kind = "none" /\ Idle.ids = <<>>
    /\ Idle.step = "idle" /\ DOMAIN Idle.draft = {} /\ Idle.left = {} /\ Idle.in = Prj
<1>1. <<>> \in PartialOn(RowState) /\ <<>> \in PartialOn(Nat) /\ DOMAIN <<>> = {}
  BY NoRows
<1>2. /\ Idle.kind = "none" /\ Idle.step = "idle" /\ Idle.left = {} /\ Idle.answer = "none"
      /\ Idle.ids = <<>> /\ Idle.in = Prj
      /\ DOMAIN Idle.draft = {} /\ DOMAIN Idle.copied = {} /\ DOMAIN Idle.ids = {}
  BY <1>1 DEF Idle
<1>3. Idle \in ReqState
  BY <1>1 DEF Idle, ReqState, Kind
<1>4. Prj \notin Brd
  BY BoardsAssumption DEF BoardsAssumption, Brd
<1>5. Knows(Idle) /\ Drafts(Idle)
  BY <1>2, <1>4 DEF Knows, Drafts, Archives, Reorders, Creates
<1>. QED BY <1>2, <1>3, <1>5

LEMMA BoardsInitially == BoardsInit => BoardsInv
<1> SUFFICES ASSUME BoardsInit PROVE BoardsInv
  OBVIOUS
<1>1. row \in [Place -> RowState]
  BY BoardsAssumption DEF BoardsInit, BoardsAssumption, RowState, Gone
<1>2. req \in [Req -> ReqState] /\ \A k \in Req : req[k] = Idle
  BY IdleIs DEF BoardsInit
<1>3. alone = {} /\ log = <<>> /\ log \in Seq(Req) /\ DOMAIN log = {}
  BY DEF BoardsInit
<1>4. /\ \A p \in Place : row[p].state = "absent" => row[p] = Gone
      /\ \A p \in DOMAIN FirstOrder : row[p].state # "absent"
  BY BoardsAssumption DEF BoardsInit, BoardsAssumption
<1>. QED BY <1>1, <1>2, <1>3, <1>4, IdleIs DEF BoardsInv, BoardsTypeOK, LastReorderHolds

\* What is known of a request.
LEMMA OfRequest ==
    ASSUME BoardsInv, NEW k \in Req
    PROVE  /\ req[k] \in ReqState /\ Knows(req[k]) /\ Drafts(req[k])
           /\ req[k].draft \in [DOMAIN req[k].draft -> RowState]
           /\ DOMAIN req[k].draft \in SUBSET Place
           /\ \A o \in Req \ {k} : DOMAIN req[k].draft \cap DOMAIN req[o].draft = {}
           /\ k \in alone => Achieved(req[k])
<1>1. req[k] \in ReqState
  BY DEF BoardsInv, BoardsTypeOK
<1>2. req[k].draft \in PartialOn(RowState)
  BY <1>1 DEF ReqState
<1>. QED BY <1>1, <1>2, PartialIs DEF BoardsInv

\* What is known of the list of a request.
LEMMA OfList ==
    ASSUME NEW r \in ReqState, Knows(r), r.kind \in Reorders
    PROVE  /\ r.ids \in Seq(Place) /\ Len(r.ids) \in Nat /\ DOMAIN r.ids = 1 .. Len(r.ids)
           /\ \A i, j \in DOMAIN r.ids : r.ids[i] = r.ids[j] => i = j
           /\ \A i \in DOMAIN r.ids : r.ids[i] \in Place /\ r.ids[i] \in DOMAIN FirstOrder
<1>1. r.ids \in Lists
  BY DEF Knows
<1>2. r.ids \in Seq(DOMAIN FirstOrder) /\ DOMAIN FirstOrder \subseteq Place
      /\ IsInjective(r.ids)
  BY <1>1, BoardsAssumption DEF BoardsAssumption
<1>3. \A i \in DOMAIN r.ids : r.ids[i] \in DOMAIN FirstOrder
  BY <1>2
<1>4. r.ids \in Seq(Place)
  BY <1>2
<1>. QED BY <1>2, <1>3, <1>4 DEF IsInjective

\* A step of request k that changes, of the rows, at most those in W.
LEMMA BoardsFrame ==
    ASSUME BoardsInv, NEW k \in Req, OrderWriter(k), NEW W \in SUBSET Place,
           BoardsTypeOK', alone' = alone, \A o \in Req \ {k} : req'[o] = req[o],
           \A p \in Place \ W : row'[p] = row[p],
           \A p \in W : Home[p] = req[k].in \/ (Home[p] \in Brd /\ row[Home[p]] = Gone),
           \A o \in Req \ {k} : W \cap DOMAIN req[o].draft = {},
           \A p \in W : row'[p].state # "absent",
           \A p \in W \cap Col : row[p].state = "archived" => row'[p].state = "archived",
           req'[k].in = req[k].in, req'[k].kind = req[k].kind,
           Knows(req[k])', Drafts(req[k])', (k \in alone => Achieved(req[k]))',
           \A o \in Req \ {k} : DOMAIN req'[k].draft \cap DOMAIN req[o].draft = {},
           (\A i \in DOMAIN log : req[log[i]].step = "done")', LastReorderHolds'
    PROVE  BoardsInv'
<1>1. \A p \in Place : row[p].state # "absent" => row'[p].state # "absent"
  OBVIOUS
<1>2. \A p \in Place : row'[p].state = "absent" => row'[p] = Gone
  BY DEF BoardsInv
<1>3. \A p \in DOMAIN FirstOrder : row'[p].state # "absent"
  BY <1>1, BoardsAssumption DEF BoardsInv, BoardsAssumption
<1>4. ASSUME NEW o \in Req, o # k PROVE Knows(req[o])'
  BY <1>4, OfRequest DEF Knows
<1>5. ASSUME NEW o \in Req, o # k PROVE Drafts(req[o])'
  <2> DEFINE r == req[o]
  <2>1. r \in ReqState /\ Knows(r) /\ Drafts(r) /\ DOMAIN r.draft \in SUBSET Place
    BY OfRequest
  <2>2. req'[o] = r /\ W \cap DOMAIN r.draft = {}
    BY <1>5
  <2>3. \A q \in DOMAIN r.draft : row'[q] = row[q]
    BY <2>1, <2>2
  <2>4. ASSUME r.kind = "columns.reorder", NEW i \in DOMAIN r.ids,
               ~ (Active(r.ids[i]) /\ In(r.ids[i], r.in))
        PROVE  ~ (row'[r.ids[i]].state = "active" /\ In(r.ids[i], r.in))
    <3>1. r.ids[i] \in Place /\ row[r.ids[i]].state # "absent" /\ r.in \in Brd
      BY <2>1, <2>4, OfList DEF BoardsInv, Reorders, Knows
    <3>2. In(r.ids[i], r.in) => r.ids[i] \in Col
      BY <3>1, BoardsAssumption DEF In, Col, Brd, BoardsAssumption
    <3>3. row[r.ids[i]] \in RowState
      BY <3>1 DEF BoardsInv, BoardsTypeOK
    <3>4. In(r.ids[i], r.in) => row[r.ids[i]].state = "archived"
      BY <2>2, <2>4, <3>1, <3>3 DEF Active, RowState
    <3>5. In(r.ids[i], r.in) => row'[r.ids[i]].state = "archived"
      BY <3>1, <3>2, <3>4
    <3>. QED BY <2>2, <3>5
  <2>5. r.in \in Brd /\ row[r.in].state # "absent" => row'[r.in].state # "absent"
    BY <1>1 DEF Brd
  <2>. QED BY <2>1, <2>2, <2>3, <2>4, <2>5 DEF Drafts, Active, In
<1>6. \A o \in Req : OrderWriter(o)' /\ o # k => OrderWriter(o)
  BY DEF OrderWriter
<1>7. ASSUME NEW o \in alone PROVE Alone(o)' /\ req'[o].kind # "none"
  <2>1. o \in Req /\ Alone(o) /\ req[o].kind # "none"
    BY DEF BoardsInv, BoardsTypeOK
  <2>. QED BY <1>6, <2>1 DEF Alone
<1>8. ASSUME NEW o \in alone, o # k PROVE Achieved(req[o])'
  <2> DEFINE r == req[o]
  <2>1. /\ o \in Req /\ r \in ReqState /\ Knows(r) /\ Drafts(r) /\ Achieved(r) /\ req'[o] = r
        /\ r.in # req[k].in
    BY <1>8, OfRequest DEF BoardsInv, BoardsTypeOK, Alone
  <2>2. CASE r.in \in Brd /\ row[r.in] = Gone
    <3>1. r.step \notin {"insert", "commit"} /\ r.answer # "ok" /\ r.kind # "boards.reorder"
      <4>1. r.in # Prj
        BY <2>2, BoardsAssumption DEF Brd, BoardsAssumption
      <4>. QED BY <2>1, <2>2, <4>1 DEF Drafts, Knows, Gone
    <3>. QED BY <2>1, <3>1 DEF Achieved
  <2>3. CASE ~ (r.in \in Brd /\ row[r.in] = Gone)
    <3>1. \A p \in Place : In(p, r.in) => row'[p] = row[p]
      BY <2>1, <2>3 DEF In
    <3>2. r.kind \in Reorders => \A i \in DOMAIN r.ids : r.ids[i] \in Place
      BY <2>1, OfList
    <3>3. r.kind \in Creates /\ r.answer = "ok" => r.on \in Place /\ In(r.on, r.in)
      BY <2>1 DEF Drafts
    <3>. QED BY <2>1, <3>1, <3>2, <3>3 DEF Achieved, Active, Reorders
  <2>. QED BY <2>2, <2>3
<1>9. \A o \in alone : Achieved(req[o])'
  BY <1>8
<1>10. \A o, n \in Req : o # n => DOMAIN req'[o].draft \cap DOMAIN req'[n].draft = {}
  BY DEF BoardsInv
<1>. QED BY <1>2, <1>3, <1>4, <1>5, <1>7, <1>9, <1>10 DEF BoardsInv

\* A step that changes the request alone.
LEMMA BoardsGoesOn ==
    ASSUME BoardsInv, NEW k \in Req, OrderWriter(k), UNCHANGED <<row, alone, log>>,
           req' \in [Req -> ReqState], \A o \in Req \ {k} : req'[o] = req[o],
           req'[k].in = req[k].in, req'[k].kind = req[k].kind, req'[k].ids = req[k].ids,
           Knows(req'[k]), Drafts(req'[k]), k \in alone => Achieved(req'[k]),
           req[k].step # "done" \/ req'[k].step = "done",
           \A o \in Req \ {k} : DOMAIN req'[k].draft \cap DOMAIN req[o].draft = {}
    PROVE  BoardsInv'
<1>2. BoardsTypeOK'
  BY DEF BoardsInv, BoardsTypeOK
<1>3. Knows(req[k])' /\ Drafts(req[k])' /\ (k \in alone => Achieved(req[k]))'
  <2>2. Knows(req[k])'
    BY DEF Knows
  <2>3. Drafts(req[k])'
    BY DEF Drafts, Active
  <2>4. (k \in alone => Achieved(req[k]))'
    BY DEF Achieved, Active
  <2>. QED BY <2>2, <2>3, <2>4
<1>4. \A i \in DOMAIN log : log[i] \in Req
  BY DEF BoardsInv, BoardsTypeOK
<1>5. (\A i \in DOMAIN log : req[log[i]].step = "done")'
  BY <1>4 DEF BoardsInv
<1>6. \A i \in DOMAIN log : req'[log[i]].ids = req[log[i]].ids /\ req'[log[i]].in = req[log[i]].in
  BY <1>4
<1>7. LastReorderHolds'
  BY <1>6 DEF BoardsInv, LastReorderHolds, Names, Active, In
<1>8. /\ req'[k].in = req[k].in /\ req'[k].kind = req[k].kind
      /\ \A o \in Req \ {k} : DOMAIN req'[k].draft \cap DOMAIN req[o].draft = {}
  OBVIOUS
<1> DEFINE W == {}
<1>9. /\ W \in SUBSET Place /\ \A p \in Place \ W : row'[p] = row[p]
      /\ \A p \in W : Home[p] = req[k].in \/ (Home[p] \in Brd /\ row[Home[p]] = Gone)
      /\ \A o \in Req \ {k} : W \cap DOMAIN req[o].draft = {}
      /\ \A p \in W : row'[p].state # "absent"
      /\ \A p \in W \cap Col : row[p].state = "archived" => row'[p].state = "archived"
  OBVIOUS
<1> HIDE DEF W
<1>. QED BY <1>2, <1>3, <1>5, <1>7, <1>8, <1>9, BoardsFrame

----------------------------------------------------------------------------

RequestAs(kind, list, on, ids, source, first) ==
    [Idle EXCEPT !.kind = kind, !.in = list, !.on = on, !.ids = ids, !.source = source,
                 !.step = first]

LEMMA AskedTyped ==
    ASSUME NEW kind \in Kind, NEW list \in Place \cup {Prj},
           NEW on \in Place \cup {Prj}, NEW ids \in Lists \cup {<<>>}, NEW source \in SUBSET Brd,
           NEW first \in {"access", "begin"}
    PROVE  LET new == RequestAs(kind, list, on, ids, source, first)
           IN  /\ new \in ReqState /\ new.kind = kind /\ new.in = list /\ new.on = on
               /\ new.ids = ids /\ new.step = first /\ DOMAIN new.draft = {}
               /\ DOMAIN new.copied = {} /\ new.left = {} /\ new.next = 0 /\ new.answer = "none"
<1>1. /\ Idle \in ReqState /\ DOMAIN Idle.draft = {} /\ DOMAIN Idle.copied = {}
      /\ Idle.left = {} /\ Idle.next = 0 /\ Idle.answer = "none"
  BY IdleIs, NoRows DEF Idle
<1>. QED BY <1>1 DEF ReqState, RequestAs

\* Whoever was alone and is joined by the new request is so no longer.
LEMMA KeepsAsk ==
    ASSUME BoardsInv, NEW k \in Req, NEW kind \in Kind, NEW list \in Place \cup {Prj},
           NEW on \in Place \cup {Prj}, NEW ids \in Lists \cup {<<>>}, NEW source \in SUBSET Brd,
           Asked(k, kind, list, on, ids, source),
           kind \in {"boards.create", "boards.reorder"} \cup Archives => list = Prj,
           kind \in {"columns.create", "columns.reorder", "columns.delete"} => list \in Brd,
           kind \in Reorders => ids \in Lists, kind \notin Reorders => ids = <<>>,
           kind \in Archives => on \in Brd,
           kind = "columns.delete" => on \in Col /\ list = Home[on]
    PROVE  BoardsInv'
<1> DEFINE first == IF kind \in {"boards.create", "boards.reorder", "columns.delete"}
                    THEN "access" ELSE "begin"
           new == RequestAs(kind, list, on, ids, source, first)
           met == {o \in Req \ {k} : req[o].in = list}
<1>2. /\ req[k] = Idle /\ req' = [req EXCEPT ![k] = new] /\ UNCHANGED <<row, log>>
      /\ alone' = (alone \ met) \cup (IF \E o \in met : OrderWriter(o) THEN {} ELSE {k})
  BY DEF Asked, RequestAs
<1>3. first \in {"access", "begin"} /\ (first = "access" => kind \notin Archives)
  BY DEF Archives
<1> HIDE DEF first
<1>5. /\ new \in ReqState /\ new.kind = kind /\ new.in = list /\ new.on = on /\ new.ids = ids
      /\ new.step = first /\ DOMAIN new.draft = {} /\ DOMAIN new.copied = {} /\ new.left = {}
      /\ new.next = 0 /\ new.answer = "none"
  <2>1. /\ kind \in Kind /\ list \in Place \cup {Prj} /\ on \in Place \cup {Prj}
        /\ ids \in Lists \cup {<<>>} /\ source \in SUBSET Brd
    OBVIOUS
  <2>2. new \in ReqState
    BY ONLY <1>3, <2>1, AskedTyped
  <2>3. /\ Idle \in ReqState /\ DOMAIN Idle.draft = {} /\ DOMAIN Idle.copied = {}
        /\ Idle.left = {} /\ Idle.next = 0 /\ Idle.answer = "none"
    BY IdleIs, NoRows DEF Idle
  <2>4. /\ new.kind = kind /\ new.in = list /\ new.on = on /\ new.ids = ids
        /\ new.step = first
    BY ONLY <2>3 DEF RequestAs, ReqState
  <2>5. /\ new.draft = Idle.draft /\ new.copied = Idle.copied /\ new.left = Idle.left
        /\ new.next = Idle.next /\ new.answer = Idle.answer
    BY ONLY <2>3 DEF RequestAs, ReqState
  <2>. QED BY ONLY <2>2, <2>3, <2>4, <2>5
<1> HIDE DEF new
<1>6. kind # "none"
  BY DEF Kind
<1>7. Knows(new) /\ Drafts(new) /\ Achieved(new)
  <2>1. Knows(new)
    BY <1>3, <1>5, <1>6 DEF Knows, Creates, Reorders, Archives
  <2>2. Drafts(new)
    <3>1. new.step \notin {"max", "insert", "row", "write", "commit"} /\ new.answer # "ok"
      BY <1>3, <1>5
    <3>. QED BY <1>5, <3>1 DEF Drafts
  <2>3. Achieved(new)
    BY <1>3, <1>5 DEF Achieved
  <2>. QED BY <2>1, <2>2, <2>3
<1>8. k \notin alone
  BY <1>2, IdleIs DEF BoardsInv
<1>9. req'[k] = new /\ \A o \in Req \ {k} : req'[o] = req[o]
  BY <1>2 DEF BoardsInv, BoardsTypeOK
<1>10. BoardsTypeOK'
  BY <1>2, <1>5 DEF BoardsInv, BoardsTypeOK
<1>11. ASSUME NEW o \in Req PROVE Knows(req[o])' /\ Drafts(req[o])'
  <2>1. Knows(req'[o]) /\ Drafts(req'[o])
    BY <1>7, <1>9, OfRequest
  <2>2. Knows(req[o])'
    BY <2>1 DEF Knows
  <2>3. Drafts(req[o])'
    BY <1>2, <2>1 DEF Drafts, Active
  <2>. QED BY <2>2, <2>3
<1>12. \A o, n \in Req : o # n => DOMAIN req'[o].draft \cap DOMAIN req'[n].draft = {}
  BY <1>5, <1>9 DEF BoardsInv
<1>13. \A i \in DOMAIN log : log[i] \in Req \ {k}
  <2>1. \A i \in DOMAIN log : log[i] \in Req /\ req[log[i]].step = "done"
    BY DEF BoardsInv, BoardsTypeOK
  <2>. QED BY <1>2, <2>1, IdleIs
<1>14. (\A i \in DOMAIN log : req[log[i]].step = "done")' /\ LastReorderHolds'
  BY <1>2, <1>9, <1>13 DEF BoardsInv, LastReorderHolds, Names, Active
<1>15. ASSUME NEW o \in alone' PROVE req'[o].kind # "none" /\ Alone(o)' /\ Achieved(req[o])'
  <2>1. o \in Req
    BY <1>2 DEF BoardsInv, BoardsTypeOK
  <2>2. CASE o = k
    <3>1. \A n \in Req \ {k} : req[n].in = list => ~ OrderWriter(n)
      BY <1>2, <1>8, <2>2
    <3>2. Alone(k)'
      BY <1>5, <1>9, <3>1 DEF Alone, OrderWriter
    <3>3. Achieved(req[k])'
      BY <1>7, <1>9, <1>2 DEF Achieved, Active
    <3>. QED BY <1>5, <1>6, <1>9, <2>2, <3>2, <3>3
  <2>3. CASE o # k
    <3>1. o \in alone /\ req[o].in # list
      BY <1>2, <2>1, <2>3
    <3>2. req[o].kind # "none" /\ Alone(o) /\ Achieved(req[o])
      BY <3>1 DEF BoardsInv
    <3>3. Alone(o)'
      BY <1>5, <1>9, <2>1, <2>3, <3>1, <3>2 DEF Alone, OrderWriter
    <3>4. Achieved(req[o])'
      BY <1>2, <1>9, <2>1, <2>3, <3>2 DEF Achieved, Active
    <3>. QED BY <1>9, <2>1, <2>3, <3>2, <3>3, <3>4
  <2>. QED BY <2>2, <2>3
<1>16. /\ \A p \in Place : row'[p].state = "absent" => row'[p] = Gone
       /\ \A p \in DOMAIN FirstOrder : row'[p].state # "absent"
  BY <1>2 DEF BoardsInv
<1>. QED BY <1>10, <1>11, <1>12, <1>14, <1>15, <1>16 DEF BoardsInv

LEMMA KeepsAsked ==
    ASSUME BoardsInv, NEW k \in Req, Asks(k)
    PROVE  BoardsInv'
<1>1. Brd \subseteq Place /\ Col \subseteq Place /\ \A n \in Col : Home[n] \in Brd
  BY BoardsAssumption DEF BoardsAssumption, Brd, Col
<1>2. <<>> \in Lists \cup {<<>>} /\ {} \in SUBSET Brd /\ Prj \in Place \cup {Prj}
  OBVIOUS
<1>3. CASE AskBoardsCreate(k)
  <2>1. PICK source \in SUBSET Brd : Asked(k, "boards.create", Prj, Prj, <<>>, source)
    BY <1>3 DEF AskBoardsCreate
  <2>. QED BY <1>2, <2>1, KeepsAsk DEF Kind, Reorders, Archives
<1>4. CASE AskBoardsReorder(k)
  <2>1. PICK l \in Lists : Asked(k, "boards.reorder", Prj, Prj, l, {})
    BY <1>4 DEF AskBoardsReorder
  <2>. QED BY <1>2, <2>1, KeepsAsk DEF Kind, Reorders, Archives
<1>5. CASE AskBoardsDelete(k)
  <2>1. PICK b \in Brd : Asked(k, "boards.delete", Prj, b, <<>>, {})
    BY <1>5 DEF AskBoardsDelete
  <2>. QED BY <1>1, <1>2, <2>1, KeepsAsk DEF Kind, Reorders, Archives
<1>6. CASE AskBoardsRestore(k)
  <2>1. PICK b \in Brd : Asked(k, "boards.restore", Prj, b, <<>>, {})
    BY <1>6 DEF AskBoardsRestore
  <2>. QED BY <1>1, <1>2, <2>1, KeepsAsk DEF Kind, Reorders, Archives
<1>7. CASE AskColumnsCreate(k)
  <2>1. PICK b \in Brd : Asked(k, "columns.create", b, Prj, <<>>, {})
    BY <1>7 DEF AskColumnsCreate
  <2>. QED BY <1>1, <1>2, <2>1, KeepsAsk DEF Kind, Reorders, Archives
<1>8. CASE AskColumnsReorder(k)
  <2>1. PICK b \in Brd, l \in Lists : Asked(k, "columns.reorder", b, Prj, l, {})
    BY <1>8 DEF AskColumnsReorder
  <2>. QED BY <1>1, <1>2, <2>1, KeepsAsk DEF Kind, Reorders, Archives
<1>9. CASE AskColumnsDelete(k)
  <2>1. PICK n \in Col : Asked(k, "columns.delete", Home[n], n, <<>>, {})
    BY <1>9 DEF AskColumnsDelete
  <2>. QED BY <1>1, <1>2, <2>1, KeepsAsk DEF Kind, Reorders, Archives
<1>. QED BY <1>3, <1>4, <1>5, <1>6, <1>7, <1>8, <1>9 DEF Asks

----------------------------------------------------------------------------

\* A request that is at a step can take it.
LEMMA Works ==
    ASSUME BoardsInv, NEW k \in Req, req[k].step \notin {"idle", "done"}
    PROVE  OrderWriter(k)
BY OfRequest DEF OrderWriter, Knows, ReqState

LEMMA KeepsBegin ==
    ASSUME BoardsInv, NEW k \in Req, Begin(k)
    PROVE  BoardsInv'
<1> DEFINE r == req[k]
           s == IF r.kind = "boards.create" THEN "source"
                ELSE IF r.kind \in {"boards.delete", "boards.restore"} THEN "lock" ELSE "access"
<1>1. /\ r.step = "begin" /\ UNCHANGED <<row, alone, log>>
      /\ req' = [req EXCEPT ![k].conn = TRUE, ![k].step = s]
  BY DEF Begin
<1>2. r \in ReqState /\ req \in [Req -> ReqState]
  BY DEF BoardsInv, BoardsTypeOK
<1>3. /\ s \in {"source", "lock", "access"}
      /\ s = "source" => r.kind = "boards.create"
      /\ s = "lock" <=> r.kind \in Archives
  BY DEF Archives
<1> HIDE DEF s
<1>4. /\ req' \in [Req -> ReqState] /\ \A o \in Req \ {k} : req'[o] = req[o]
      /\ req'[k].in = r.in /\ req'[k].kind = r.kind /\ req'[k].ids = r.ids
      /\ req'[k].on = r.on /\ req'[k].step = s /\ req'[k].next = r.next
      /\ req'[k].copied = r.copied /\ req'[k].draft = r.draft /\ req'[k].left = r.left
      /\ req'[k].answer = r.answer
  BY <1>1, <1>2, <1>3 DEF ReqState
<1>5. /\ Knows(r) /\ Drafts(r) /\ (k \in alone => Achieved(r))
      /\ \A o \in Req \ {k} : DOMAIN r.draft \cap DOMAIN req[o].draft = {}
  BY OfRequest
<1>6. Knows(req'[k])
  BY <1>1, <1>3, <1>4, <1>5 DEF Knows, Archives, Creates
<1>7. Drafts(req'[k])
  BY <1>1, <1>3, <1>4, <1>5 DEF Drafts, Knows
<1>8. Achieved(req'[k])
  BY <1>1, <1>3, <1>4, <1>5 DEF Achieved, Knows
<1>9. OrderWriter(k)
  BY <1>1, Works
<1>. QED BY <1>1, <1>4, <1>5, <1>6, <1>7, <1>8, <1>9, BoardsGoesOn

\* A step that changes the step of the request, nothing else.
LEMMA KeepsGoes ==
    ASSUME BoardsInv, NEW k \in Req, NEW s \in {"begin", "max", "row", "write", "commit"},
           req[k].step \notin {"idle", "done", "rows"}, Goes(k, s),
           s = "begin" => req[k].kind = "boards.create",
           s = "max" => req[k].kind = "columns.create" /\ Active(req[k].in),
           s = "row" => /\ req[k].step = "access" /\ req[k].kind = "columns.reorder"
                        /\ Active(req[k].in),
           s = "write" => req[k].kind = "columns.delete" /\ Active(req[k].in),
           s = "commit" => /\ req[k].step = "row" /\ req[k].kind = "columns.reorder"
                           /\ req[k].next >= Len(req[k].ids),
           s # "commit" => req[k].step = "access"
    PROVE  BoardsInv'
<1> DEFINE r == req[k]
<1>1. UNCHANGED <<row, alone, log>> /\ req' = [req EXCEPT ![k].step = s]
  BY DEF Goes
<1>2. r \in ReqState /\ req \in [Req -> ReqState]
  BY DEF BoardsInv, BoardsTypeOK
<1>4. /\ req' \in [Req -> ReqState] /\ \A o \in Req \ {k} : req'[o] = req[o]
      /\ req'[k].in = r.in /\ req'[k].kind = r.kind /\ req'[k].ids = r.ids
      /\ req'[k].on = r.on /\ req'[k].step = s /\ req'[k].next = r.next
      /\ req'[k].copied = r.copied /\ req'[k].draft = r.draft /\ req'[k].left = r.left
      /\ req'[k].answer = r.answer
  BY <1>1, <1>2 DEF ReqState
<1>5. /\ Knows(r) /\ Drafts(r) /\ (k \in alone => Achieved(r))
      /\ \A o \in Req \ {k} : DOMAIN r.draft \cap DOMAIN req[o].draft = {}
  BY OfRequest
<1>6. Knows(req'[k])
  BY <1>4, <1>5 DEF Knows, Archives, Creates
<1>7. Drafts(req'[k])
  <2>1. r.kind = "columns.reorder" => \A i \in DOMAIN r.ids : i \in Nat /\ i >= 1
    BY <1>2, <1>5, OfList DEF Reorders
  <2>2. r.answer # "ok"
    BY <1>5 DEF Knows
  <2>. QED BY <1>4, <1>5, <2>1, <2>2 DEF Drafts, Knows, Creates, Active
<1>8. Achieved(req'[k])
  BY <1>4, <1>5 DEF Achieved, Knows, Creates
<1>9. OrderWriter(k)
  BY Works
<1>10. req[k].step # "done"
  OBVIOUS
<1> HIDE DEF r
<1>. QED BY <1>1, <1>4, <1>5, <1>6, <1>7, <1>8, <1>9, <1>10, BoardsGoesOn DEF r

LEMMA KeepsAccess ==
    ASSUME BoardsInv, NEW k \in Req, Access(k)
    PROVE  BoardsInv'
<1> DEFINE r == req[k]
<1>1. r \in ReqState /\ Knows(r) /\ req \in [Req -> ReqState] /\ r.step = "access"
  BY OfRequest DEF BoardsInv, BoardsTypeOK, Access
<1>2. r.kind \in {"boards.create", "boards.reorder", "columns.create", "columns.reorder",
                  "columns.delete"}
  BY <1>1 DEF Knows, Archives, ReqState, Kind
<1>3. r.kind \in {"columns.create", "columns.reorder", "columns.delete"} => r.in \in Brd /\ Active(r.in)
  BY <1>1 DEF Access, Knows
<1>4. CASE r.kind = "boards.create"
  <2>1. Goes(k, "begin")
    BY <1>4 DEF Access
  <2>. QED BY <1>1, <1>4, <2>1, KeepsGoes
<1>5. CASE r.kind = "columns.create"
  <2>1. Goes(k, "max")
    BY <1>5 DEF Access
  <2>. QED BY <1>1, <1>3, <1>5, <2>1, KeepsGoes
<1>6. CASE r.kind = "columns.reorder"
  <2>1. Goes(k, "row")
    BY <1>6 DEF Access
  <2>. QED BY <1>1, <1>3, <1>6, <2>1, KeepsGoes
<1>7. CASE r.kind = "columns.delete"
  <2>1. Goes(k, "write")
    BY <1>7 DEF Access
  <2>. QED BY <1>1, <1>3, <1>7, <2>1, KeepsGoes
<1>8. CASE r.kind = "boards.reorder"
  <2>1. /\ UNCHANGED <<row, alone, log>>
        /\ req' = [req EXCEPT ![k].step = "rows", ![k].left = DOMAIN r.ids]
    BY <1>8 DEF Access
  <2>2. DOMAIN r.ids \in SUBSET Nat /\ r.answer # "ok" /\ DOMAIN r.draft = {} /\ r.in = Prj
    BY <1>1, <1>8, OfList DEF Reorders, Knows
  <2>4. /\ req' \in [Req -> ReqState] /\ \A o \in Req \ {k} : req'[o] = req[o]
        /\ req'[k].in = r.in /\ req'[k].kind = r.kind /\ req'[k].ids = r.ids
        /\ req'[k].on = r.on /\ req'[k].step = "rows" /\ req'[k].next = r.next
        /\ req'[k].copied = r.copied /\ req'[k].draft = r.draft /\ req'[k].left = DOMAIN r.ids
        /\ req'[k].answer = r.answer
    BY <1>1, <2>1, <2>2 DEF ReqState
  <2>5. /\ Knows(r) /\ Drafts(r)
        /\ \A o \in Req \ {k} : DOMAIN r.draft \cap DOMAIN req[o].draft = {}
    BY OfRequest
  <2>6. Knows(req'[k])
    BY <1>8, <2>2, <2>4, <2>5 DEF Knows, Archives, Creates, Reorders
  <2>7. Drafts(req'[k])
    BY <1>8, <2>2, <2>4, <2>5 DEF Drafts, Creates, Archives
  <2>8. Achieved(req'[k])
    BY <1>8, <2>2, <2>4 DEF Achieved, Creates
  <2>9. OrderWriter(k) /\ r.step # "done"
    BY <1>1, Works
  <2> HIDE DEF r
  <2>. QED BY <2>1, <2>4, <2>5, <2>6, <2>7, <2>8, <2>9, BoardsGoesOn DEF r
<1>. QED BY <1>2, <1>4, <1>5, <1>6, <1>7, <1>8

LEMMA KeepsReadSource ==
    ASSUME BoardsInv, NEW k \in Req, ReadSource(k)
    PROVE  BoardsInv'
<1> DEFINE r == req[k]
           C == {n \in {n \in Col : Active(n) /\ Home[n] \in r.source} : TRUE}
           found == [n \in {n \in Col : Active(n) /\ Home[n] \in r.source} |-> row[n].order]
<1>1. /\ r.step = "source" /\ r.kind = "boards.create" /\ UNCHANGED <<row, alone, log>>
      /\ req' = [req EXCEPT ![k].step = "max", ![k].copied = found]
  BY DEF ReadSource, At
<1>2. r \in ReqState /\ req \in [Req -> ReqState] /\ row \in [Place -> RowState]
  BY DEF BoardsInv, BoardsTypeOK
<1>3. found \in PartialOn(Nat)
  <2>1. C \in SUBSET Place /\ found \in [C -> Nat]
    BY <1>2 DEF RowState, Col
  <2>. QED BY <2>1, RowsOf
<1> HIDE DEF found
<1>4. /\ req' \in [Req -> ReqState] /\ \A o \in Req \ {k} : req'[o] = req[o]
      /\ req'[k].in = r.in /\ req'[k].kind = r.kind /\ req'[k].ids = r.ids
      /\ req'[k].on = r.on /\ req'[k].step = "max" /\ req'[k].next = r.next
      /\ req'[k].draft = r.draft /\ req'[k].left = r.left
      /\ req'[k].answer = r.answer
  BY <1>1, <1>2, <1>3 DEF ReqState
<1>5. /\ Knows(r) /\ Drafts(r) /\ r.answer # "ok" /\ r.in = Prj /\ Prj \notin Brd
      /\ \A o \in Req \ {k} : DOMAIN r.draft \cap DOMAIN req[o].draft = {}
  BY <1>1, OfRequest, BoardsAssumption DEF Knows, BoardsAssumption, Brd
<1>6. Knows(req'[k])
  BY <1>1, <1>4, <1>5 DEF Knows, Archives, Creates
<1>7. Drafts(req'[k])
  BY <1>1, <1>4, <1>5 DEF Drafts, Knows, Creates, Archives
<1>8. Achieved(req'[k])
  BY <1>1, <1>4, <1>5 DEF Achieved, Creates
<1>9. OrderWriter(k) /\ r.step # "done"
  BY <1>1, Works
<1> HIDE DEF r
<1>. QED BY <1>1, <1>4, <1>5, <1>6, <1>7, <1>8, <1>9, BoardsGoesOn DEF r

\* What Max of a finite set of numbers is.
LEMMA MaxIs ==
    ASSUME NEW S \in SUBSET Nat, IsFiniteSet(S), S # {}
    PROVE  Max(S) \in S /\ \A x \in S : x <= Max(S)
<1> DEFINE Greatest(T) == \E x \in T : \A y \in T : x >= y
           P == {T \in SUBSET S : T # {} /\ ~ Greatest(T)}
<1>1. P = {}
  <2> SUFFICES ASSUME P # {} PROVE FALSE
    OBVIOUS
  <2>1. P \subseteq SUBSET S
    OBVIOUS
  <2>2. IsWellFoundedOn(StrictSubsetOrdering(S), SUBSET S)
    BY FS_StrictSubsetOrderingWellFounded, FS_FiniteSubsetsOfFinite
  <2> HIDE DEF P
  <2>3. PICK T \in P : \A U \in P : ~ (<<U, T>> \in StrictSubsetOrdering(S))
    BY <2>1, <2>2, WFMin
  <2> USE DEF P
  <2>4. T \subseteq S /\ T # {} /\ ~ Greatest(T) /\ T \in SUBSET Nat
    BY <2>3
  <2>5. PICK x \in T : TRUE
    BY <2>4
  <2>6. CASE T = {x}
    <3>1. x >= x
      BY <2>4, <2>5
    <3>. QED BY <2>4, <2>6, <3>1
  <2>7. CASE T # {x}
    <3>1. T \ {x} # {} /\ T \ {x} \in SUBSET S /\ T \ {x} \subseteq T /\ T \ {x} # T
      BY <2>4, <2>5, <2>7
    <3>2. T \ {x} \notin P
      BY <2>1, <2>3, <3>1 DEF StrictSubsetOrdering
    <3>3. PICK m \in T \ {x} : \A y \in T \ {x} : m >= y
      BY <3>1, <3>2
    <3>4. m \in Nat /\ x \in Nat /\ m \in T
      BY <2>4, <2>5, <3>3
    <3>5. CASE m >= x
      BY <2>4, <3>3, <3>4, <3>5
    <3>6. CASE x >= m
      <4>1. \A y \in T : x >= y
        <5> TAKE y \in T
        <5>1. y \in Nat /\ (y # x => m >= y)
          BY <2>4, <3>3
        <5>. QED BY <3>4, <3>6, <5>1
      <4>. QED BY <2>4, <2>5, <4>1
    <3>. QED BY <3>4, <3>5, <3>6
  <2>. QED BY <2>6, <2>7
<1>2. Greatest(S)
  BY <1>1
<1>3. \E x \in S : \A y \in S : x >= y
  BY <1>2
<1>4. Max(S) \in S /\ \A y \in S : Max(S) >= y
  BY <1>3 DEF Max
<1>. QED BY <1>4

LEMMA KeepsReadMax ==
    ASSUME BoardsInv, NEW k \in Req, ReadMax(k)
    PROVE  BoardsInv'
<1> DEFINE r == req[k]
           P == {p \in Place : Active(p) /\ In(p, r.in)}
           orders == {row[p].order : p \in P}
           m == (IF orders = {} THEN 0 ELSE Max(orders)) + 1
<1>1. /\ r.step = "max" /\ UNCHANGED <<row, alone, log>>
      /\ req' = [req EXCEPT ![k].step = "insert", ![k].next = m]
  BY DEF ReadMax
<1>2. r \in ReqState /\ req \in [Req -> ReqState] /\ row \in [Place -> RowState]
  BY DEF BoardsInv, BoardsTypeOK
<1>3. m \in Nat /\ \A p \in Place : Active(p) /\ In(p, r.in) => row[p].order < m
  <2>1. orders \in SUBSET Nat
    BY <1>2 DEF RowState
  <2>2. IsFiniteSet(P)
    BY BoardsAssumption, FS_Subset DEF BoardsAssumption
  <2>3. IsFiniteSet(orders)
    <3> DEFINE f == [p \in P |-> row[p].order]
    <3>1. f \in Surjection(P, orders)
      BY DEF Surjection
    <3>. QED BY <2>2, <3>1, FS_Surjection
  <2>4. orders # {} => Max(orders) \in Nat /\ \A x \in orders : x <= Max(orders)
    BY <2>1, <2>3, MaxIs
  <2>5. \A p \in P : row[p].order \in orders /\ row[p].order \in Nat
    BY <2>1
  <2> HIDE DEF orders
  <2>. QED BY <2>4, <2>5
<1> HIDE DEF m
<1>4. /\ req' \in [Req -> ReqState] /\ \A o \in Req \ {k} : req'[o] = req[o]
      /\ req'[k].in = r.in /\ req'[k].kind = r.kind /\ req'[k].ids = r.ids
      /\ req'[k].on = r.on /\ req'[k].step = "insert" /\ req'[k].next = m
      /\ req'[k].copied = r.copied /\ req'[k].draft = r.draft /\ req'[k].left = r.left
      /\ req'[k].answer = r.answer
  BY <1>1, <1>2, <1>3 DEF ReqState
<1>5. /\ Knows(r) /\ Drafts(r) /\ r.answer # "ok" /\ r.kind \in Creates
      /\ \A o \in Req \ {k} : DOMAIN r.draft \cap DOMAIN req[o].draft = {}
  BY <1>1, OfRequest DEF Knows
<1>6. Knows(req'[k])
  BY <1>1, <1>4, <1>5 DEF Knows, Archives, Creates
<1>7. Drafts(req'[k])
  BY <1>1, <1>4, <1>5 DEF Drafts, Knows, Creates, Archives
<1>8. Achieved(req'[k])
  BY <1>1, <1>3, <1>4, <1>5 DEF Achieved, Creates
<1>9. OrderWriter(k) /\ r.step # "done"
  BY <1>1, Works
<1> HIDE DEF r
<1>. QED BY <1>1, <1>4, <1>5, <1>6, <1>7, <1>8, <1>9, BoardsGoesOn DEF r

\* Insert takes absent rows that no other transaction has written.
LEMMA TheNewRows ==
    ASSUME BoardsInv, NEW k \in Req, req[k].step = "insert", HasRows(k)
    PROVE  LET p == CHOOSE p \in Unused(req[k].in) : TRUE
           IN  /\ p \in Unused(req[k].in) /\ p \in Place
               /\ NewRows(k, p) \in PartialOn(RowState) /\ p \in DOMAIN NewRows(k, p)
               /\ NewRows(k, p)[p].order = req[k].next
               /\ \A q \in DOMAIN NewRows(k, p) :
                     /\ NewRows(k, p)[q].state = "active" /\ row[q] = Gone
                     /\ q = p \/ (req[k].kind = "boards.create" /\ Home[q] = p)
                     /\ \A o \in Req : q \notin DOMAIN req[o].draft
<1> DEFINE r == req[k]
           U == Unused(r.in)
           p == CHOOSE p \in U : TRUE
           D == DOMAIN r.copied
           c == CHOOSE c \in Injection(D, Unused(p)) : TRUE
           orders == [n \in Range(c) |-> r.copied[AntiFunction(c)[n]]]
<1>1. PICK p0 \in U : \A q \in U : Injection(DOMAIN r.copied, Unused(q)) # {}
  BY DEF HasRows
<1>2. p \in U
  BY <1>1
<1>3. /\ U \subseteq Place /\ \A q \in U : row[q] = Gone /\ \A o \in Req : q \notin DOMAIN req[o].draft
  BY DEF Unused
<1> HIDE DEF p
<1>4. /\ Unused(p) \subseteq Place
      /\ \A q \in Unused(p) : /\ row[q] = Gone /\ Home[q] = p
                              /\ \A o \in Req : q \notin DOMAIN req[o].draft
  BY DEF Unused, In
<1>5. c \in Injection(D, Unused(p))
  BY <1>1, <1>2
<1>6. c \in [D -> Unused(p)]
  BY <1>5 DEF Injection
<1> HIDE DEF c
<1>7. Range(c) \subseteq Unused(p) /\ (D = {} => Range(c) = {})
  BY <1>6 DEF Range
<1>8. r.copied \in [D -> Nat] /\ r.next \in Nat
  <2>1. r \in ReqState
    BY OfRequest
  <2>2. r.copied \in PartialOn(Nat) /\ r.next \in Nat
    BY <2>1 DEF ReqState
  <2>. QED BY <2>2, PartialIs
<1>9. \A n \in Range(c) : AntiFunction(c)[n] \in D
  <2> TAKE n \in Range(c)
  <2>1. PICK d \in D : c[d] = n
    BY <1>6 DEF Range
  <2>2. AntiFunction(c)[n] = CHOOSE e \in D : n \in Range(c) => c[e] = n
    BY <1>6 DEF AntiFunction, Inverse
  <2>. QED BY <2>1, <2>2
<1>10. orders \in [Range(c) -> Nat]
  BY <1>8, <1>9
<1>11. NewRows(k, p) = [q \in {p} \cup DOMAIN orders |->
          [state |-> "active", order |-> IF q = p THEN r.next ELSE orders[q]]]
  BY DEF NewRows, c
<1> HIDE DEF orders
<1> DEFINE new == NewRows(k, p)
           E == {p} \cup Range(c)
<1>12. new \in [E -> RowState] /\ E \in SUBSET Place
  BY <1>2, <1>3, <1>4, <1>7, <1>8, <1>10, <1>11 DEF RowState
<1>13. new \in PartialOn(RowState) /\ DOMAIN new = E
  BY <1>12, RowsOf
<1>14. new[p].order = r.next /\ \A q \in E : new[q].state = "active"
  BY <1>10, <1>11
<1>15. D # {} => r.kind = "boards.create"
  BY OfRequest DEF Knows
<1>16. \A q \in E : /\ row[q] = Gone
                    /\ q = p \/ (r.kind = "boards.create" /\ Home[q] = p)
                    /\ \A o \in Req : q \notin DOMAIN req[o].draft
  BY <1>2, <1>3, <1>4, <1>7, <1>15
<1> HIDE DEF new, U
<1>. QED BY <1>2, <1>3, <1>13, <1>14, <1>16 DEF new, U, p

LEMMA KeepsInsert ==
    ASSUME BoardsInv, NEW k \in Req, Insert(k)
    PROVE  BoardsInv'
<1> DEFINE r == req[k]
           p == CHOOSE p \in Unused(r.in) : TRUE
           new == NewRows(k, p)
<1>1. /\ r.step = "insert" /\ UNCHANGED <<row, alone, log>> /\ HasRows(k)
      /\ req' = [req EXCEPT ![k].step = "commit", ![k].on = p, ![k].draft = new]
  BY DEF Insert
<1>2. r \in ReqState /\ req \in [Req -> ReqState]
  BY DEF BoardsInv, BoardsTypeOK
<1>3. /\ p \in Place /\ In(p, r.in) /\ new \in PartialOn(RowState) /\ p \in DOMAIN new
      /\ new[p].order = r.next
      /\ \A q \in DOMAIN new :
            /\ new[q].state = "active" /\ row[q] = Gone
            /\ q = p \/ (r.kind = "boards.create" /\ Home[q] = p)
            /\ \A o \in Req : q \notin DOMAIN req[o].draft
  BY <1>1, TheNewRows DEF Unused
<1> HIDE DEF new, p
<1>4. /\ req' \in [Req -> ReqState] /\ \A o \in Req \ {k} : req'[o] = req[o]
      /\ req'[k].in = r.in /\ req'[k].kind = r.kind /\ req'[k].ids = r.ids
      /\ req'[k].on = p /\ req'[k].step = "commit" /\ req'[k].next = r.next
      /\ req'[k].copied = r.copied /\ req'[k].draft = new /\ req'[k].left = r.left
      /\ req'[k].answer = r.answer
  BY <1>1, <1>2, <1>3 DEF ReqState
<1>5. /\ Knows(r) /\ Drafts(r) /\ (k \in alone => Achieved(r))
      /\ r.answer # "ok" /\ r.kind \in Creates
  BY <1>1, OfRequest DEF Knows
<1>6. Knows(req'[k])
  BY <1>1, <1>4, <1>5 DEF Knows, Archives, Creates, Reorders
<1>7. Drafts(req'[k])
  <2>1. r.in \in Brd => row[r.in].state # "absent"
    BY <1>1, <1>5 DEF Drafts
  <2>. QED BY <1>3, <1>4, <1>5, <2>1 DEF Drafts, Creates, Archives
<1>8. k \in alone => Achieved(req'[k])
  BY <1>1, <1>4, <1>5 DEF Achieved, Creates
<1>9. OrderWriter(k) /\ r.step # "done"
  BY <1>1, Works
<1>10. \A o \in Req \ {k} : DOMAIN req'[k].draft \cap DOMAIN req[o].draft = {}
  BY <1>3, <1>4
<1> HIDE DEF r
<1>. QED BY <1>1, <1>4, <1>6, <1>7, <1>8, <1>9, <1>10, BoardsGoesOn DEF r

LEMMA OverIs ==
    ASSUME NEW d, NEW f
    PROVE  /\ DOMAIN Over(d, f) = DOMAIN d \cup DOMAIN f
           /\ \A p \in DOMAIN d \cup DOMAIN f :
                 Over(d, f)[p] = IF p \in DOMAIN d THEN d[p] ELSE f[p]
BY DEF Over

LEMMA KeepsUpdateNextRow ==
    ASSUME BoardsInv, NEW k \in Req, UpdateNextRow(k)
    PROVE  BoardsInv'
<1> DEFINE r == req[k]
           p == NextRow(k)
           new == IF Updatable(k, p) THEN Over(Reordered(k), r.draft) ELSE r.draft
<1>1. /\ r.step = "row" /\ r.kind = "columns.reorder" /\ r.next < Len(r.ids)
      /\ UNCHANGED <<row, alone, log>>
      /\ Updatable(k, p) => ~ Locked(k, p)
      /\ req' = [req EXCEPT ![k].next = r.next + 1, ![k].draft = new]
  BY DEF UpdateNextRow, MoreRows, At
<1>2. /\ r \in ReqState /\ req \in [Req -> ReqState] /\ row \in [Place -> RowState]
      /\ r.next \in Nat
  BY DEF BoardsInv, BoardsTypeOK, ReqState
<1>3. /\ Knows(r) /\ Drafts(r) /\ r.answer # "ok"
      /\ \A o \in Req \ {k} : DOMAIN r.draft \cap DOMAIN req[o].draft = {}
      /\ r.draft \in [DOMAIN r.draft -> RowState] /\ DOMAIN r.draft \in SUBSET Place
  BY <1>1, OfRequest DEF Knows
<1>4. /\ Len(r.ids) \in Nat /\ DOMAIN r.ids = 1 .. Len(r.ids)
      /\ \A i, j \in DOMAIN r.ids : r.ids[i] = r.ids[j] => i = j
      /\ \A i \in DOMAIN r.ids : r.ids[i] \in Place
  BY <1>1, <1>2, <1>3, OfList DEF Reorders
<1>5. r.next + 1 \in DOMAIN r.ids /\ p = r.ids[r.next + 1] /\ p \in Place /\ p \in Range(r.ids)
  BY <1>1, <1>2, <1>4 DEF NextRow, Range
<1> HIDE DEF p
<1>6. CASE Updatable(k, p)
  <2>1. Reordered(k) = [q \in {p} |-> [row[q] EXCEPT !.order = r.next]]
    BY DEF Reordered, p
  <2>2. /\ row[p] \in RowState /\ row[p].state = "active" /\ In(p, r.in) /\ Active(p)
    BY <1>2, <1>5, <1>6 DEF Updatable, Active
  <2>3. [row[p] EXCEPT !.order = r.next] = [state |-> "active", order |-> r.next]
    BY <2>2 DEF RowState
  <2>4. DOMAIN Reordered(k) = {p}
        /\ Reordered(k)[p] = [state |-> "active", order |-> r.next]
    BY <2>1, <2>3
  <2>0. new = Over(Reordered(k), r.draft)
    BY <1>6
  <2>5. /\ DOMAIN new = {p} \cup DOMAIN r.draft
        /\ new[p] = [state |-> "active", order |-> r.next]
        /\ \A q \in DOMAIN r.draft : q # p => new[q] = r.draft[q]
    <3> HIDE DEF new
    <3> DEFINE d == Reordered(k)
    <3>1. /\ DOMAIN new = DOMAIN d \cup DOMAIN r.draft
          /\ \A q \in DOMAIN d \cup DOMAIN r.draft :
                new[q] = IF q \in DOMAIN d THEN d[q] ELSE r.draft[q]
      <4>1. new = Over(d, r.draft)
        BY <2>0
      <4> HIDE DEF d, r
      <4>. QED BY ONLY <4>1 DEF Over
    <3>2. DOMAIN d = {p} /\ d[p] = [state |-> "active", order |-> r.next]
      BY <2>4
    <3> HIDE DEF d, r
    <3>. QED BY <3>1, <3>2
  <2>6. new = [q \in DOMAIN new |-> new[q]]
    BY <1>6 DEF Over
  <2> HIDE DEF new
  <2>7. new \in [DOMAIN new -> RowState]
    BY <1>2, <1>3, <2>5, <2>6 DEF RowState
  <2>8. new \in PartialOn(RowState)
    BY <1>3, <1>5, <2>5, <2>7, RowsOf
  <2>9. /\ req' \in [Req -> ReqState] /\ \A o \in Req \ {k} : req'[o] = req[o]
        /\ req'[k].in = r.in /\ req'[k].kind = r.kind /\ req'[k].ids = r.ids
        /\ req'[k].on = r.on /\ req'[k].step = r.step /\ req'[k].next = r.next + 1
        /\ req'[k].copied = r.copied /\ req'[k].draft = new /\ req'[k].left = r.left
        /\ req'[k].answer = r.answer
    <3>1. req' = [req EXCEPT ![k].next = r.next + 1, ![k].draft = new] /\ k \in Req
      BY <1>1
    <3>2. r.next + 1 \in Nat
      BY <1>2
    <3>. QED BY ONLY <1>2, <2>8, <3>1, <3>2 DEF ReqState
  <2>10. Knows(req'[k])
    BY <1>1, <1>3, <2>9 DEF Knows, Archives, Creates
  <2>11. Drafts(req'[k])
    <3>1. \A q \in DOMAIN new : new[q].state # "absent"
      BY <1>3, <2>5 DEF Drafts
    <3>2. \A q \in DOMAIN new : q \in Range(r.ids) /\ In(q, r.in) /\ Active(q)
      BY <1>1, <1>3, <1>5, <2>2, <2>5 DEF Drafts
    <3>3. \A i \in DOMAIN r.ids : i <= r.next + 1 =>
             IF r.ids[i] \in DOMAIN new
             THEN new[r.ids[i]] = [state |-> "active", order |-> i - 1]
             ELSE ~ (Active(r.ids[i]) /\ In(r.ids[i], r.in))
      <4> TAKE i \in DOMAIN r.ids
      <4> HAVE i <= r.next + 1
      <4>1. CASE i = r.next + 1
        BY <1>2, <1>5, <2>5, <4>1
      <4>2. CASE i # r.next + 1
        <5>1. i <= r.next /\ r.ids[i] # p
          BY <1>2, <1>4, <1>5, <4>2
        <5>2. IF r.ids[i] \in DOMAIN r.draft
              THEN r.draft[r.ids[i]] = [state |-> "active", order |-> i - 1]
              ELSE ~ (Active(r.ids[i]) /\ In(r.ids[i], r.in))
          BY <1>1, <1>3, <5>1 DEF Drafts
        <5>. QED BY <2>5, <5>1, <5>2
      <4>. QED BY <4>1, <4>2
    <3>4. r.in \in Brd => row[r.in].state # "absent"
      BY <1>1, <1>3 DEF Drafts
    <3>. QED BY <1>1, <2>9, <3>1, <3>2, <3>3, <3>4 DEF Drafts, Creates, Archives
  <2>12. Achieved(req'[k])
    BY <1>1, <1>3, <2>9 DEF Achieved, Creates
  <2>13. OrderWriter(k) /\ r.step # "done"
    BY <1>1, Works
  <2>14. \A o \in Req \ {k} : DOMAIN req'[k].draft \cap DOMAIN req[o].draft = {}
    BY <1>1, <1>3, <1>6, <2>5, <2>9 DEF Locked
  <2> HIDE DEF r
  <2>. QED BY <1>1, <2>9, <2>10, <2>11, <2>12, <2>13, <2>14, BoardsGoesOn DEF r
<1>7. CASE ~ Updatable(k, p)
  <2>1. new = r.draft /\ ~ (Active(p) /\ In(p, r.in))
    BY <1>7 DEF Updatable
  <2>2. p \notin DOMAIN r.draft
    BY <1>1, <1>3, <2>1 DEF Drafts
  <2>9. /\ req' \in [Req -> ReqState] /\ \A o \in Req \ {k} : req'[o] = req[o]
        /\ req'[k].in = r.in /\ req'[k].kind = r.kind /\ req'[k].ids = r.ids
        /\ req'[k].on = r.on /\ req'[k].step = r.step /\ req'[k].next = r.next + 1
        /\ req'[k].copied = r.copied /\ req'[k].draft = r.draft /\ req'[k].left = r.left
        /\ req'[k].answer = r.answer
    <3>1. req' = [req EXCEPT ![k].next = r.next + 1, ![k].draft = r.draft] /\ k \in Req
      BY <1>1, <2>1
    <3>2. r.next + 1 \in Nat /\ r.draft \in PartialOn(RowState)
      BY <1>2 DEF ReqState
    <3>. QED BY ONLY <1>2, <3>1, <3>2 DEF ReqState
  <2>10. Knows(req'[k])
    BY <1>1, <1>3, <2>9 DEF Knows, Archives, Creates
  <2>11. Drafts(req'[k])
    <3>3. \A i \in DOMAIN r.ids : i <= r.next + 1 =>
             IF r.ids[i] \in DOMAIN r.draft
             THEN r.draft[r.ids[i]] = [state |-> "active", order |-> i - 1]
             ELSE ~ (Active(r.ids[i]) /\ In(r.ids[i], r.in))
      <4> TAKE i \in DOMAIN r.ids
      <4> HAVE i <= r.next + 1
      <4>1. CASE i = r.next + 1
        BY <1>2, <1>5, <2>1, <2>2, <4>1
      <4>2. CASE i # r.next + 1
        <5>1. i <= r.next
          BY <1>2, <1>4, <4>2
        <5>. QED BY <1>1, <1>3, <5>1 DEF Drafts
      <4>. QED BY <4>1, <4>2
    <3>. QED BY <1>1, <1>3, <2>9, <3>3 DEF Drafts, Creates, Archives
  <2>12. Achieved(req'[k])
    BY <1>1, <1>3, <2>9 DEF Achieved, Creates
  <2>13. OrderWriter(k) /\ r.step # "done"
    BY <1>1, Works
  <2> HIDE DEF r
  <2>. QED BY <1>1, <1>3, <2>9, <2>10, <2>11, <2>12, <2>13, BoardsGoesOn DEF r
<1>. QED BY <1>6, <1>7

LEMMA KeepsAllRowsUpdated ==
    ASSUME BoardsInv, NEW k \in Req, AllRowsUpdated(k)
    PROVE  BoardsInv'
<1>1. /\ req[k].step = "row" /\ req[k].kind = "columns.reorder" /\ Goes(k, "commit")
      /\ ~ (req[k].next < Len(req[k].ids))
  BY DEF AllRowsUpdated, MoreRows, At
<1>2. req[k].next \in Nat /\ Len(req[k].ids) \in Nat
  <2>1. req[k] \in ReqState /\ Knows(req[k])
    BY OfRequest
  <2>. QED BY <1>1, <2>1, OfList DEF Reorders, ReqState
<1>. QED BY <1>1, <1>2, KeepsGoes

\* The answer of a reordering of boards.
LEMMA KeepsRowsAnswer ==
    ASSUME BoardsInv, NEW k \in Req, NEW left \in SUBSET req[k].left, NEW answer \in {"ok", "error"},
           req[k].kind = "boards.reorder", req[k].step = "rows", UNCHANGED <<row, alone, log>>,
           req' = [req EXCEPT ![k].left = left, ![k].step = "done", ![k].answer = answer],
           answer = "ok" => req[k].left = {}
    PROVE  BoardsInv'
<1> DEFINE r == req[k]
<1>2. r \in ReqState /\ req \in [Req -> ReqState]
  BY DEF BoardsInv, BoardsTypeOK
<1>3. left \in SUBSET Nat
  BY <1>2 DEF ReqState
<1>4. /\ req' \in [Req -> ReqState] /\ \A o \in Req \ {k} : req'[o] = req[o]
      /\ req'[k].in = r.in /\ req'[k].kind = r.kind /\ req'[k].ids = r.ids
      /\ req'[k].on = r.on /\ req'[k].step = "done" /\ req'[k].next = r.next
      /\ req'[k].copied = r.copied /\ req'[k].draft = r.draft /\ req'[k].left = left
      /\ req'[k].answer = answer
  BY <1>2, <1>3 DEF ReqState
<1>5. /\ Knows(r) /\ Drafts(r) /\ (k \in alone => Achieved(r))
      /\ \A o \in Req \ {k} : DOMAIN r.draft \cap DOMAIN req[o].draft = {}
  BY OfRequest
<1>6. Knows(req'[k])
  BY <1>4, <1>5 DEF Knows, Archives, Creates, Reorders
<1>7. Drafts(req'[k])
  <2>1. DOMAIN r.draft = {} /\ r.in = Prj /\ Prj \notin Brd
    BY <1>5, BoardsAssumption DEF Knows, Brd, BoardsAssumption
  <2>. QED BY <1>4, <2>1 DEF Drafts, Creates, Archives
<1>8. k \in alone => Achieved(req'[k])
  BY <1>4, <1>5 DEF Achieved, Creates
<1>9. OrderWriter(k) /\ req'[k].step = "done"
  BY <1>4, Works
<1> HIDE DEF r
<1>. QED BY <1>4, <1>5, <1>6, <1>7, <1>8, <1>9, BoardsGoesOn DEF r

LEMMA KeepsLockBoard ==
    ASSUME BoardsInv, NEW k \in Req, LockBoard(k)
    PROVE  BoardsInv'
<1> DEFINE r == req[k]
           b == r.on
           s == IF r.kind = "boards.restore" /\ Active(b) THEN "commit" ELSE "write"
           new == [q \in {b} |-> row[b]]
<1>1. /\ r.step = "lock" /\ ~ Locked(k, b) /\ row[b] # Gone /\ UNCHANGED <<row, alone, log>>
      /\ req' = [req EXCEPT ![k].step = s, ![k].draft = new]
  BY DEF LockBoard
<1>2. r \in ReqState /\ req \in [Req -> ReqState] /\ row \in [Place -> RowState]
  BY DEF BoardsInv, BoardsTypeOK
<1>3. /\ Knows(r) /\ Drafts(r) /\ r.kind \in Archives /\ r.answer # "ok"
      /\ b \in Place /\ r.in = Prj /\ Prj \notin Brd
  BY <1>1, OfRequest, BoardsAssumption DEF Knows, Brd, BoardsAssumption
<1>4. new \in PartialOn(RowState) /\ DOMAIN new = {b} /\ new[b] = row[b]
  <2>1. {b} \in SUBSET Place /\ new \in [{b} -> RowState]
    BY <1>2, <1>3
  <2>. QED BY <2>1, RowsOf
<1>5. new[b].state # "absent"
  BY <1>1, <1>3, <1>4 DEF BoardsInv
<1>6. s \in {"commit", "write"}
  OBVIOUS
<1> HIDE DEF new, s
<1>7. /\ req' \in [Req -> ReqState] /\ \A o \in Req \ {k} : req'[o] = req[o]
      /\ req'[k].in = r.in /\ req'[k].kind = r.kind /\ req'[k].ids = r.ids
      /\ req'[k].on = r.on /\ req'[k].step = s /\ req'[k].next = r.next
      /\ req'[k].copied = r.copied /\ req'[k].draft = new /\ req'[k].left = r.left
      /\ req'[k].answer = r.answer
  BY <1>1, <1>2, <1>4, <1>6 DEF ReqState
<1>8. Knows(req'[k])
  BY <1>1, <1>3, <1>6, <1>7 DEF Knows, Archives, Creates
<1>9. Drafts(req'[k])
  BY <1>3, <1>4, <1>5, <1>6, <1>7 DEF Drafts, Archives, Creates
<1>10. Achieved(req'[k])
  BY <1>3, <1>7 DEF Achieved, Archives, Creates
<1>11. OrderWriter(k) /\ r.step # "done"
  BY <1>1, Works
<1>12. \A o \in Req \ {k} : DOMAIN req'[k].draft \cap DOMAIN req[o].draft = {}
  BY <1>1, <1>4, <1>7 DEF Locked
<1> HIDE DEF r
<1>. QED BY <1>1, <1>7, <1>8, <1>9, <1>10, <1>11, <1>12, BoardsGoesOn DEF r

LEMMA KeepsArchiveOrRestore ==
    ASSUME BoardsInv, NEW k \in Req, ArchiveOrRestoreBoard(k)
    PROVE  BoardsInv'
<1> DEFINE r == req[k]
           s == IF r.kind = "boards.delete" THEN "archived" ELSE "active"
           new == [r.draft EXCEPT ![r.on].state = s]
<1>1. /\ r.step = "write" /\ r.kind \in Archives /\ UNCHANGED <<row, alone, log>>
      /\ req' = [req EXCEPT ![k].step = "commit", ![k].draft[r.on].state = s]
  BY DEF ArchiveOrRestoreBoard, At, Archives
<1>2. r \in ReqState /\ req \in [Req -> ReqState]
  BY DEF BoardsInv, BoardsTypeOK
<1>3. /\ Knows(r) /\ Drafts(r) /\ r.answer # "ok" /\ r.in = Prj /\ Prj \notin Brd
      /\ r.draft \in [DOMAIN r.draft -> RowState] /\ DOMAIN r.draft \in SUBSET Place
      /\ \A o \in Req \ {k} : DOMAIN r.draft \cap DOMAIN req[o].draft = {}
  BY <1>1, OfRequest, BoardsAssumption DEF Knows, Brd, BoardsAssumption
<1>4. req' = [req EXCEPT ![k] = [r EXCEPT !.step = "commit", !.draft = new]]
  BY <1>1, <1>2 DEF ReqState
<1>5. s \in {"archived", "active"}
  OBVIOUS
<1> HIDE DEF s
<1>6. new \in [DOMAIN r.draft -> RowState] /\ DOMAIN new = DOMAIN r.draft
  BY <1>3, <1>5 DEF RowState
<1>7. \A q \in DOMAIN r.draft : new[q].state # "absent"
  BY <1>3, <1>5 DEF Drafts, RowState
<1>8. new \in PartialOn(RowState)
  BY <1>3, <1>6, RowsOf
<1> HIDE DEF new
<1>9. /\ req' \in [Req -> ReqState] /\ \A o \in Req \ {k} : req'[o] = req[o]
      /\ req'[k].in = r.in /\ req'[k].kind = r.kind /\ req'[k].ids = r.ids
      /\ req'[k].on = r.on /\ req'[k].step = "commit" /\ req'[k].next = r.next
      /\ req'[k].copied = r.copied /\ req'[k].draft = new /\ req'[k].left = r.left
      /\ req'[k].answer = r.answer
  BY <1>2, <1>4, <1>8 DEF ReqState
<1>10. Knows(req'[k])
  BY <1>1, <1>3, <1>9 DEF Knows, Archives, Creates, Reorders
<1>11. Drafts(req'[k])
  BY <1>1, <1>3, <1>6, <1>7, <1>9 DEF Drafts, Archives, Creates
<1>12. Achieved(req'[k])
  BY <1>1, <1>9 DEF Achieved, Archives, Creates
<1>13. OrderWriter(k) /\ r.step # "done"
  BY <1>1, Works
<1>14. \A o \in Req \ {k} : DOMAIN req'[k].draft \cap DOMAIN req[o].draft = {}
  BY <1>3, <1>6, <1>9
<1> HIDE DEF r
<1>. QED BY <1>1, <1>9, <1>10, <1>11, <1>12, <1>13, <1>14, BoardsGoesOn DEF r

\* What End leaves of a request.
LEMMA EndIs ==
    ASSUME BoardsInv, NEW k \in Req, NEW answer \in {"ok", "error"}, End(k, answer)
    PROVE  /\ req' \in [Req -> ReqState] /\ \A o \in Req \ {k} : req'[o] = req[o]
           /\ req'[k].in = req[k].in /\ req'[k].kind = req[k].kind /\ req'[k].ids = req[k].ids
           /\ req'[k].on = req[k].on /\ req'[k].step = "done" /\ req'[k].next = req[k].next
           /\ req'[k].copied = req[k].copied /\ DOMAIN req'[k].draft = {}
           /\ req'[k].left = req[k].left /\ req'[k].answer = answer
<1> DEFINE none == <<>>
<1>1. req \in [Req -> ReqState]
  BY DEF BoardsInv, BoardsTypeOK
<1>2. none \in PartialOn(RowState) /\ DOMAIN none = {}
  BY NoRows
<1>3. req' = [req EXCEPT ![k].step = "done", ![k].answer = answer, ![k].conn = FALSE,
                         ![k].draft = none]
  BY DEF End
<1> HIDE DEF none
<1>4. /\ req' \in [Req -> ReqState] /\ \A o \in Req \ {k} : req'[o] = req[o]
      /\ req'[k].in = req[k].in /\ req'[k].kind = req[k].kind /\ req'[k].ids = req[k].ids
      /\ req'[k].on = req[k].on /\ req'[k].step = "done" /\ req'[k].next = req[k].next
      /\ req'[k].copied = req[k].copied /\ req'[k].draft = none
      /\ req'[k].left = req[k].left /\ req'[k].answer = answer
  <2> DEFINE new == [req[k] EXCEPT !.step = "done", !.answer = answer, !.conn = FALSE,
                                   !.draft = none]
  <2>1. req[k] \in ReqState
    BY <1>1
  <2>2. req' = [req EXCEPT ![k] = new]
    BY <1>1, <1>3 DEF ReqState
  <2>3. new \in ReqState
    BY <1>2, <2>1 DEF ReqState
  <2>4. /\ new.in = req[k].in /\ new.kind = req[k].kind /\ new.ids = req[k].ids
        /\ new.on = req[k].on /\ new.step = "done" /\ new.next = req[k].next
        /\ new.copied = req[k].copied /\ new.draft = none
        /\ new.left = req[k].left /\ new.answer = answer
    BY <2>1 DEF ReqState
  <2> HIDE DEF new
  <2>. QED BY <1>1, <2>2, <2>3, <2>4
<1>. QED BY <1>2, <1>4

LEMMA KeepsEndError ==
    ASSUME BoardsInv, NEW k \in Req, req[k].step \notin {"idle", "done", "rows"},
           End(k, "error"), UNCHANGED <<row, alone, log>>
    PROVE  BoardsInv'
<1> DEFINE r == req[k]
<1>1. r \in ReqState /\ Knows(r) /\ Drafts(r)
  BY OfRequest
<1>2. /\ req' \in [Req -> ReqState] /\ \A o \in Req \ {k} : req'[o] = req[o]
      /\ req'[k].in = r.in /\ req'[k].kind = r.kind /\ req'[k].ids = r.ids
      /\ req'[k].on = r.on /\ req'[k].step = "done" /\ req'[k].next = r.next
      /\ req'[k].copied = r.copied /\ DOMAIN req'[k].draft = {}
      /\ req'[k].left = r.left /\ req'[k].answer = "error"
  BY EndIs
<1>3. r.left = {} /\ r.kind # "none"
  BY <1>1 DEF Knows
<1>4. Knows(req'[k])
  BY <1>1, <1>2, <1>3 DEF Knows
<1>5. Drafts(req'[k])
  BY <1>1, <1>2 DEF Drafts
<1>6. Achieved(req'[k])
  BY <1>2 DEF Achieved
<1>7. OrderWriter(k)
  BY Works
<1>8. \A o \in Req \ {k} : DOMAIN req'[k].draft \cap DOMAIN req[o].draft = {}
  BY <1>2
<1>9. r.step # "done"
  OBVIOUS
<1> HIDE DEF r
<1>. QED BY <1>2, <1>4, <1>5, <1>6, <1>7, <1>8, <1>9, BoardsGoesOn DEF r

LEMMA KeepsQuiet ==
    ASSUME BoardsInv, NEW k \in Req,
           \/ Begin(k) \/ Access(k) \/ ReadSource(k) \/ ReadMax(k) \/ Insert(k)
           \/ UpdateNextRow(k) \/ AllRowsUpdated(k) \/ AllRowsAnswered(k) \/ LockBoard(k)
           \/ ArchiveOrRestoreBoard(k) \/ Refused(k) \/ GivesUp(k) \/ Fails(k)
           \/ UpdateRowFails(k)
    PROVE  BoardsInv'
<1>1. CASE AllRowsAnswered(k)
  <2>1. /\ req[k].kind = "boards.reorder" /\ req[k].step = "rows" /\ req[k].left = {}
        /\ UNCHANGED <<row, alone, log>>
        /\ req' = [req EXCEPT ![k].step = "done", ![k].answer = "ok"]
    BY <1>1 DEF AllRowsAnswered, At
  <2>2. req \in [Req -> ReqState]
    BY DEF BoardsInv, BoardsTypeOK
  <2>3. req' = [req EXCEPT ![k].left = req[k].left, ![k].step = "done", ![k].answer = "ok"]
    BY <2>1, <2>2 DEF ReqState
  <2>4. req[k].left \in SUBSET req[k].left
    OBVIOUS
  <2>. QED BY <2>1, <2>3, <2>4, KeepsRowsAnswer
<1>2. CASE UpdateRowFails(k)
  <2>1. PICK i \in req[k].left :
           req' = [req EXCEPT ![k].left = @ \ {i}, ![k].step = "done", ![k].answer = "error"]
    BY <1>2 DEF UpdateRowFails
  <2>2. req[k].left \ {i} \in SUBSET req[k].left
    OBVIOUS
  <2>3. /\ req[k].kind = "boards.reorder" /\ req[k].step = "rows"
        /\ UNCHANGED <<row, alone, log>>
    BY <1>2 DEF UpdateRowFails, At
  <2>. QED BY <2>1, <2>2, <2>3, KeepsRowsAnswer
<1>3. CASE Refused(k)
  BY <1>3, KeepsEndError DEF Refused, At
<1>4. CASE Fails(k)
  BY <1>4, KeepsEndError DEF Fails, Unfinished
<1>5. CASE GivesUp(k)
  <2>1. CASE AcquireTimesOut(k)
    BY <2>1, KeepsEndError DEF AcquireTimesOut, NeedsConnection, At
  <2>2. CASE DeadlockDetected(k)
    <3>1. WaitsFor(k) # {} /\ End(k, "error") /\ UNCHANGED <<row, alone, log>>
      BY <2>2 DEF DeadlockDetected
    <3>2. req[k].step = "row"
      BY <3>1 DEF WaitsFor, MoreRows, At
    <3>. QED BY <3>1, <3>2, KeepsEndError
  <2>. QED BY <1>5, <2>1, <2>2 DEF GivesUp
<1>. QED BY <1>1, <1>2, <1>3, <1>4, <1>5, KeepsBegin, KeepsAccess, KeepsReadSource,
            KeepsReadMax, KeepsInsert, KeepsUpdateNextRow, KeepsAllRowsUpdated,
            KeepsLockBoard, KeepsArchiveOrRestore

\* Rows that only stay or are archived keep their place in the last reordering.
LEMMA LastStays ==
    ASSUME BoardsInv, log' = log,
           \A o \in Req : req'[o].in = req[o].in /\ req'[o].ids = req[o].ids,
           \A n \in Col : row'[n] = row[n] \/ row'[n].state # "active"
    PROVE  LastReorderHolds'
<1>1. \A i \in DOMAIN log : log[i] \in Req
  BY DEF BoardsInv, BoardsTypeOK
<1>2. \A i \in DOMAIN log : req'[log[i]].in = req[log[i]].in /\ req'[log[i]].ids = req[log[i]].ids
  BY <1>1
<1>. QED BY <1>2 DEF BoardsInv, LastReorderHolds, Names, Active, In

\* One UPDATE of boards.reorder, which may come after the answer.
LEMMA KeepsUpdateRow ==
    ASSUME BoardsInv, NEW k \in Req, UpdateRow(k)
    PROVE  BoardsInv'
<1> DEFINE r == req[k]
<1>1. PICK i \in r.left :
         /\ Updatable(k, r.ids[i]) => ~ Locked(k, r.ids[i])
         /\ row' = IF Updatable(k, r.ids[i]) THEN [row EXCEPT ![r.ids[i]].order = i - 1] ELSE row
         /\ req' = [req EXCEPT ![k].left = @ \ {i}]
         /\ UNCHANGED <<alone, log>>
  BY DEF UpdateRow
<1> DEFINE p == r.ids[i]
           left == r.left \ {i}
<1>2. r \in ReqState /\ req \in [Req -> ReqState] /\ row \in [Place -> RowState]
  BY DEF BoardsInv, BoardsTypeOK
<1>3. /\ Knows(r) /\ Drafts(r) /\ (k \in alone => Achieved(r))
      /\ \A o \in Req \ {k} : DOMAIN r.draft \cap DOMAIN req[o].draft = {}
  BY OfRequest
<1>4. /\ r.kind = "boards.reorder" /\ r.step \in {"rows", "done"} /\ r.in = Prj /\ Prj \notin Brd
      /\ i \in DOMAIN r.ids /\ r.answer # "ok" /\ DOMAIN r.draft = {}
  BY <1>3, BoardsAssumption DEF Knows, Brd, BoardsAssumption
<1>5. /\ DOMAIN r.ids \in SUBSET Nat /\ i - 1 \in Nat /\ p \in Place
      /\ \A j \in DOMAIN r.ids : r.ids[j] \in Place
      /\ \A j \in DOMAIN r.ids : r.ids[j] = p => j = i
  BY <1>2, <1>3, <1>4, OfList DEF Reorders
<1>6. left \in SUBSET Nat
  BY <1>2 DEF ReqState
<1>7. /\ req' \in [Req -> ReqState] /\ \A o \in Req \ {k} : req'[o] = req[o]
      /\ req'[k].in = r.in /\ req'[k].kind = r.kind /\ req'[k].ids = r.ids
      /\ req'[k].on = r.on /\ req'[k].step = r.step /\ req'[k].next = r.next
      /\ req'[k].copied = r.copied /\ req'[k].draft = r.draft /\ req'[k].left = left
      /\ req'[k].answer = r.answer
  BY <1>1, <1>2, <1>6 DEF ReqState
<1>8. /\ row' \in [Place -> RowState] /\ \A q \in Place \ {p} : row'[q] = row[q]
      /\ row'[p].state = row[p].state
  BY <1>1, <1>2, <1>5 DEF RowState
<1>9. Updatable(k, p) => row'[p].order = i - 1 /\ Home[p] = Prj
  BY <1>1, <1>2, <1>4, <1>5 DEF RowState, Updatable, In
<1>10. ~ Updatable(k, p) => row' = row
  BY <1>1
<1>11. Updatable(k, p) => row[p].state = "active" /\ \A o \in Req \ {k} : p \notin DOMAIN req[o].draft
  BY <1>1 DEF Updatable, Active, Locked
<1>12. UNCHANGED <<alone, log>>
  BY <1>1
<1>13. Knows(req[k])'
  BY <1>3, <1>4, <1>7 DEF Knows, Archives, Creates, Reorders
<1>14. Drafts(req[k])'
  BY <1>4, <1>7 DEF Drafts, Archives, Creates
<1>15. (k \in alone => Achieved(req[k]))'
  <2> SUFFICES ASSUME k \in alone PROVE Achieved(req[k])'
    BY <1>12
  <2>1. r.step = "rows" => \A j \in DOMAIN r.ids \ r.left :
           Active(r.ids[j]) /\ In(r.ids[j], r.in) => row[r.ids[j]].order = j - 1
    BY <1>3, <1>4 DEF Achieved
  <2>2. ASSUME r.step = "rows", NEW j \in DOMAIN r.ids \ left,
               row'[r.ids[j]].state = "active", In(r.ids[j], r.in)
        PROVE  row'[r.ids[j]].order = j - 1
    <3>1. CASE j = i
      <4>1. Updatable(k, p)
        BY <1>5, <1>8, <2>2, <3>1 DEF Updatable, Active
      <4>. QED BY <1>9, <3>1, <4>1
    <3>2. CASE j # i
      <4>1. row'[r.ids[j]] = row[r.ids[j]] /\ j \notin r.left
        BY <1>5, <1>8, <2>2, <3>2
      <4>. QED BY <2>1, <2>2, <4>1 DEF Active
    <3>. QED BY <3>1, <3>2
  <2>. QED BY <1>4, <1>7, <2>2 DEF Achieved, Creates, Active, In
<1>16. LastReorderHolds'
  <2>1. \A n \in Col : row'[n] = row[n]
    <3>1. Updatable(k, p) => p \in Brd
      BY <1>5, <1>9 DEF Brd
    <3>. QED BY <1>8, <1>10, <3>1 DEF Col
  <2>2. \A o \in Req : req'[o].in = req[o].in /\ req'[o].ids = req[o].ids
    BY <1>7
  <2>. QED BY <1>12, <2>1, <2>2, LastStays
<1>17. (\A j \in DOMAIN log : req[log[j]].step = "done")'
  <2>1. \A j \in DOMAIN log : log[j] \in Req /\ req[log[j]].step = "done"
    BY DEF BoardsInv, BoardsTypeOK
  <2>. QED BY <1>7, <1>12, <2>1
<1>18. OrderWriter(k)
  BY <1>1, <1>4 DEF OrderWriter, Kind
<1>19. BoardsTypeOK'
  BY <1>7, <1>8, <1>12 DEF BoardsInv, BoardsTypeOK
<1>20. \A o \in Req \ {k} : DOMAIN req'[k].draft \cap DOMAIN req[o].draft = {}
  BY <1>3, <1>7
<1> DEFINE W == IF Updatable(k, p) THEN {p} ELSE {}
<1>21. /\ W \in SUBSET Place /\ \A q \in Place \ W : row'[q] = row[q]
       /\ \A q \in W : Home[q] = req[k].in \/ (Home[q] \in Brd /\ row[Home[q]] = Gone)
       /\ \A o \in Req \ {k} : W \cap DOMAIN req[o].draft = {}
       /\ \A q \in W : row'[q].state # "absent"
       /\ \A q \in W \cap Col : row[q].state = "archived" => row'[q].state = "archived"
  BY <1>4, <1>5, <1>8, <1>9, <1>10, <1>11
<1>22. req'[k].in = req[k].in /\ req'[k].kind = req[k].kind /\ alone' = alone
  BY <1>7, <1>12
<1>23. \A o \in Req \ {k} : req'[o] = req[o]
  BY <1>7
<1> HIDE DEF W, r, p, left
<1>. QED BY <1>13, <1>14, <1>15, <1>16, <1>17, <1>18, <1>19, <1>20, <1>21, <1>22, <1>23, BoardsFrame

LEMMA KeepsDestroyColumn ==
    ASSUME BoardsInv, NEW k \in Req, DestroyColumn(k)
    PROVE  BoardsInv'
<1> DEFINE r == req[k]
           p == r.on
<1>1. /\ r.step = "write" /\ r.kind = "columns.delete" /\ ~ Locked(k, p)
      /\ row' = [row EXCEPT ![p].state = "archived"] /\ UNCHANGED <<alone, log>>
      /\ req' = [req EXCEPT ![k].step = "done", ![k].answer = "ok"]
  BY DEF DestroyColumn, At
<1>2. r \in ReqState /\ req \in [Req -> ReqState] /\ row \in [Place -> RowState]
  BY DEF BoardsInv, BoardsTypeOK
<1>3. Knows(r) /\ Drafts(r)
  BY OfRequest
<1>4. /\ p \in Col /\ p \in Place /\ Home[p] = r.in /\ DOMAIN r.draft = {} /\ r.in \in Brd
      /\ r.left = {}
  BY <1>1, <1>3 DEF Knows, Col, Drafts
<1>5. /\ req' \in [Req -> ReqState] /\ \A o \in Req \ {k} : req'[o] = req[o]
      /\ req'[k].in = r.in /\ req'[k].kind = r.kind /\ req'[k].ids = r.ids
      /\ req'[k].on = r.on /\ req'[k].step = "done" /\ req'[k].next = r.next
      /\ req'[k].copied = r.copied /\ req'[k].draft = r.draft /\ req'[k].left = r.left
      /\ req'[k].answer = "ok"
  BY <1>1, <1>2 DEF ReqState
<1>6. /\ row' \in [Place -> RowState] /\ \A q \in Place \ {p} : row'[q] = row[q]
      /\ row'[p].state = "archived"
  BY <1>1, <1>2, <1>4 DEF RowState
<1>7. Knows(req[k])'
  BY <1>1, <1>3, <1>4, <1>5 DEF Knows, Archives, Creates, Reorders
<1>8. p \notin Brd
  BY <1>4 DEF Col
<1>9. row[r.in].state # "absent"
  BY <1>1, <1>3, <1>4 DEF Drafts
<1>10. row'[r.in].state # "absent"
  BY <1>4, <1>6, <1>8, <1>9 DEF Brd
<1>11. Drafts(req[k])'
  BY <1>1, <1>4, <1>5, <1>10 DEF Drafts, Creates, Archives
<1>12. Achieved(req[k])'
  BY <1>1, <1>5 DEF Achieved, Creates
<1>13. LastReorderHolds'
  <2>1. \A n \in Col : row'[n] = row[n] \/ row'[n].state # "active"
    BY <1>6 DEF Col
  <2>2. \A o \in Req : req'[o].in = req[o].in /\ req'[o].ids = req[o].ids
    BY <1>5
  <2>3. log' = log
    BY <1>1
  <2>. QED BY <2>1, <2>2, <2>3, LastStays
<1>14. (\A j \in DOMAIN log : req[log[j]].step = "done")'
  <2>1. \A j \in DOMAIN log : log[j] \in Req /\ req[log[j]].step = "done"
    BY DEF BoardsInv, BoardsTypeOK
  <2>. QED BY <1>1, <1>5, <2>1
<1>15. OrderWriter(k)
  BY <1>1, Works
<1>16. BoardsTypeOK'
  BY <1>1, <1>5, <1>6 DEF BoardsInv, BoardsTypeOK
<1>17. \A o \in Req \ {k} : DOMAIN req'[k].draft \cap DOMAIN req[o].draft = {}
  BY <1>4, <1>5
<1> DEFINE W == {p}
<1>18. /\ W \in SUBSET Place /\ \A q \in Place \ W : row'[q] = row[q]
       /\ \A q \in W : Home[q] = req[k].in \/ (Home[q] \in Brd /\ row[Home[q]] = Gone)
       /\ \A o \in Req \ {k} : W \cap DOMAIN req[o].draft = {}
       /\ \A q \in W : row'[q].state # "absent"
       /\ \A q \in W \cap Col : row[q].state = "archived" => row'[q].state = "archived"
  BY <1>1, <1>4, <1>6 DEF Locked
<1>19. /\ req'[k].in = req[k].in /\ req'[k].kind = req[k].kind /\ alone' = alone
       /\ \A o \in Req \ {k} : req'[o] = req[o]
  BY <1>1, <1>5
<1> HIDE DEF W, r, p
<1>. QED BY <1>7, <1>11, <1>12, <1>13, <1>14, <1>15, <1>16, <1>17, <1>18, <1>19, BoardsFrame

\* The commit of a transaction: its rows are those of its list, or of the board it creates.
LEMMA KeepsCommit ==
    ASSUME BoardsInv, NEW k \in Req, Commit(k)
    PROVE  BoardsInv'
<1> DEFINE r == req[k]
           d == r.draft
           W == DOMAIN d
<1>1. /\ r.step = "commit" /\ row' = Over(d, row) /\ log' = Append(log, k)
      /\ End(k, "ok") /\ alone' = alone
  BY DEF Commit
<1>2. r \in ReqState /\ row \in [Place -> RowState] /\ log \in Seq(Req) /\ r.next \in Nat
  BY DEF BoardsInv, BoardsTypeOK, ReqState
<1>3. /\ Knows(r) /\ Drafts(r) /\ (k \in alone => Achieved(r))
      /\ d \in [W -> RowState] /\ W \in SUBSET Place
      /\ \A o \in Req \ {k} : W \cap DOMAIN req[o].draft = {}
  BY OfRequest
<1>4. /\ req' \in [Req -> ReqState] /\ \A o \in Req \ {k} : req'[o] = req[o]
      /\ req'[k].in = r.in /\ req'[k].kind = r.kind /\ req'[k].ids = r.ids
      /\ req'[k].on = r.on /\ req'[k].step = "done" /\ req'[k].next = r.next
      /\ req'[k].copied = r.copied /\ DOMAIN req'[k].draft = {}
      /\ req'[k].left = r.left /\ req'[k].answer = "ok"
  BY <1>1, EndIs
<1>5. /\ DOMAIN row' = Place
      /\ \A p \in Place : row'[p] = IF p \in W THEN d[p] ELSE row[p]
      /\ row' = [p \in Place |-> row'[p]]
  <2>1. W \cup DOMAIN row = Place
    BY <1>2, <1>3
  <2> HIDE DEF d, W
  <2>2. row' = Over(d, row)
    BY <1>1
  <2>3. row' = [p \in W \cup DOMAIN row |-> IF p \in W THEN d[p] ELSE row[p]]
    BY <2>2 DEF Over, W
  <2>. QED BY <2>1, <2>3
<1>6. row' \in [Place -> RowState]
  BY <1>2, <1>3, <1>5
<1>7. /\ r.kind \in Creates \cup Archives \cup {"columns.reorder"} /\ r.left = {}
      /\ r.kind \in Creates \cup Archives \cup {"columns.reorder"} => r.kind # "boards.reorder"
      /\ Prj \notin Brd /\ Prj \notin Place
  BY <1>1, <1>2, <1>3, BoardsAssumption
     DEF Knows, ReqState, Kind, Creates, Archives, Brd, BoardsAssumption
<1>8. \A p \in W : row'[p].state # "absent"
  BY <1>3, <1>5 DEF Drafts
<1>9. r.kind \in Creates => \A q \in W :
        row[q] = Gone /\ (q = r.on \/ (r.kind = "boards.create" /\ Home[q] = r.on))
  BY <1>1, <1>3 DEF Drafts
<1>10. r.kind \in Creates => /\ r.on \in W /\ d[r.on].order = r.next
                            /\ r.on \in Place /\ Home[r.on] = r.in
  BY <1>1, <1>3 DEF Drafts, In
<1>11. r.kind \in Archives => W \subseteq {r.on} /\ r.on \in Brd /\ r.in = Prj
  BY <1>3 DEF Drafts, Knows
<1>12. r.kind = "columns.reorder" => \A q \in W :
         q \in Range(r.ids) /\ Home[q] = r.in /\ row[q].state = "active"
  BY <1>3 DEF Drafts, In, Active
<1>13. \A p \in W : Home[p] = r.in \/ (Home[p] \in Brd /\ row[Home[p]] = Gone)
  <2>1. CASE r.kind \in Creates
    <3>1. r.kind = "boards.create" => r.on \in Brd
      BY <1>3, <1>10, <2>1 DEF Knows, Brd
    <3>. QED BY <1>9, <1>10, <2>1, <3>1
  <2>2. CASE r.kind \in Archives
    BY <1>11, <2>2 DEF Brd
  <2>3. CASE r.kind = "columns.reorder"
    BY <1>12, <2>3
  <2>. QED BY <1>7, <2>1, <2>2, <2>3
<1>14. \A p \in W \cap Col : row[p].state = "archived" => row'[p].state = "archived"
  BY <1>7, <1>9, <1>11, <1>12 DEF Gone, Col
<1>15. r.kind = "columns.reorder" => \A i \in DOMAIN r.ids :
          IF r.ids[i] \in W THEN d[r.ids[i]] = [state |-> "active", order |-> i - 1]
          ELSE ~ (row[r.ids[i]].state = "active" /\ Home[r.ids[i]] = r.in)
  <2> SUFFICES ASSUME r.kind = "columns.reorder", NEW i \in DOMAIN r.ids
               PROVE  IF r.ids[i] \in W THEN d[r.ids[i]] = [state |-> "active", order |-> i - 1]
                      ELSE ~ (row[r.ids[i]].state = "active" /\ Home[r.ids[i]] = r.in)
    OBVIOUS
  <2>1. i <= r.next
    <3>1. r.next >= Len(r.ids)
      BY <1>1, <1>3 DEF Drafts
    <3>2. Len(r.ids) \in Nat /\ i \in 1 .. Len(r.ids)
      BY <1>2, <1>3, OfList DEF Reorders
    <3>. QED BY <1>2, <3>1, <3>2
  <2>. QED BY <1>1, <1>3, <2>1 DEF Drafts, Active, In
<1>16. Knows(req[k])'
  BY <1>3, <1>4, <1>7 DEF Knows, Archives, Creates, Reorders
<1>17. r.in \in Brd => row'[r.in].state # "absent"
  <2>1. r.in \in Brd => row[r.in].state # "absent" /\ r.in \in Place
    BY <1>1, <1>3 DEF Drafts, Brd
  <2>. QED BY <1>5, <1>8, <2>1
<1>18. Drafts(req[k])'
  BY <1>4, <1>7, <1>10, <1>17 DEF Drafts, Creates, Archives, In
<1>19. (k \in alone => Achieved(req[k]))'
  <2> SUFFICES ASSUME k \in alone PROVE Achieved(req[k])'
    BY <1>1
  <2>1. ASSUME r.kind = "columns.reorder", NEW i \in DOMAIN r.ids,
               row'[r.ids[i]].state = "active", Home[r.ids[i]] = r.in
        PROVE  row'[r.ids[i]].order = i - 1
    <3>1. r.ids[i] \in Place
      BY <1>2, <1>3, <2>1, OfList DEF Reorders
    <3>2. CASE r.ids[i] \in W
      <4>1. d[r.ids[i]] = [state |-> "active", order |-> i - 1]
        BY <1>15, <2>1, <3>2
      <4>2. row'[r.ids[i]] = d[r.ids[i]]
        BY <1>5, <3>1, <3>2
      <4>. QED BY ONLY <4>1, <4>2
    <3>3. CASE r.ids[i] \notin W
      BY <1>5, <1>15, <2>1, <3>1, <3>3
    <3>. QED BY <3>2, <3>3
  <2>2. ASSUME r.kind \in Creates, NEW p \in Place, row'[p].state = "active",
               Home[p] = r.in, p # r.on
        PROVE  row'[p].order < row'[r.on].order
    <3>1. p \notin W
      <4>1. r.kind = "boards.create" => r.in = Prj /\ r.on # Prj
        BY <1>3, <1>7, <1>10, <2>2 DEF Knows
      <4>. QED BY <1>9, <2>2, <4>1
    <3>2. row[p].order < r.next
      BY <1>1, <1>3, <1>5, <2>2, <3>1 DEF Achieved, Active, In
    <3>. QED BY <1>5, <1>10, <2>2, <3>1, <3>2
  <2>. QED BY <1>4, <1>7, <2>1, <2>2 DEF Achieved, Active, In, Creates
<1>20. DOMAIN log = 1 .. Len(log) /\ DOMAIN log' = 1 .. Len(log) + 1 /\ Len(log) \in Nat
       /\ log'[Len(log) + 1] = k /\ \A i \in DOMAIN log : log'[i] = log[i] /\ log[i] \in Req
  BY <1>1, <1>2
<1>21. (\A j \in DOMAIN log : req[log[j]].step = "done")'
  <2>1. \A j \in DOMAIN log : req[log[j]].step = "done"
    BY DEF BoardsInv
  <2>. QED BY <1>4, <1>20, <2>1
<1>22. LastReorderHolds'
  <2>1. \A o \in Req : req'[o].in = req[o].in /\ req'[o].ids = req[o].ids
    BY <1>4
  <2> SUFFICES ASSUME NEW n \in Col, NEW i \in DOMAIN log', row'[n].state = "active",
                      Names(log'[i], n), \A j \in DOMAIN log' : Names(log'[j], n) => j <= i
               PROVE  req[log'[i]].ids[row'[n].order + 1] = n
    <3>1. \A j \in DOMAIN log' : log'[j] \in Req
      BY <1>20
    <3>. QED BY <2>1, <3>1 DEF LastReorderHolds, Active, Names, In
  <2>2. n \in Place /\ n \notin Brd
    BY DEF Col
  <2>3. CASE Names(k, n)
    <3>1. i = Len(log) + 1 /\ log'[i] = k
      BY <1>20, <2>3
    <3>2. n \in Range(r.ids) /\ Home[n] = r.in
      BY <2>3 DEF Names, In
    <3>3. PICK m \in DOMAIN r.ids : r.ids[m] = n
      BY <3>2 DEF Range
    <3>4. r.kind = "columns.reorder"
      BY <1>3, <1>7, <3>3 DEF Knows, Reorders, Creates, Archives
    <3>5. m \in Nat
      BY <1>2, <1>3, <3>3, <3>4, OfList DEF Reorders
    <3>6. n \in W
      BY <1>5, <1>15, <2>2, <3>2, <3>3, <3>4
    <3>7. row'[n].order = m - 1
      <4>1. d[n] = [state |-> "active", order |-> m - 1]
        BY <1>15, <3>3, <3>4, <3>6
      <4>2. row'[n] = d[n]
        BY <1>5, <2>2, <3>6
      <4>. QED BY ONLY <4>1, <4>2
    <3>. QED BY <3>1, <3>3, <3>5, <3>7
  <2>4. CASE ~ Names(k, n)
    <3>1. i \in DOMAIN log /\ log'[i] = log[i] /\ log[i] \in Req
      BY <1>20, <2>4
    <3>2. \A j \in DOMAIN log : Names(log[j], n) => j <= i
      BY <1>20
    <3>3. row[n].state # "absent"
      <4> DEFINE o == log[i]
      <4>1. o \in Req /\ n \in Range(req[o].ids)
        BY <3>1 DEF Names
      <4>2. req[o] \in ReqState /\ Knows(req[o])
        BY <4>1, OfRequest
      <4>3. req[o].kind \in Reorders
        BY <4>1, <4>2 DEF Knows, Range
      <4>4. n \in DOMAIN FirstOrder
        BY <4>1, <4>2, <4>3, OfList DEF Range
      <4>. QED BY <4>4 DEF BoardsInv
    <3>4. n \notin W
      <4>1. r.kind \notin Creates \/ n \notin W
        BY <1>9, <3>3 DEF Gone
      <4>2. r.kind \notin Archives \/ n \notin W
        BY <1>11, <2>2
      <4>3. r.kind # "columns.reorder" \/ n \notin W
        BY <1>12, <2>4 DEF Names, In
      <4>. QED BY <1>7, <4>1, <4>2, <4>3
    <3>5. row'[n] = row[n]
      BY <1>5, <2>2, <3>4
    <3>6. LastReorderHolds
      BY DEF BoardsInv
    <3>. QED BY <3>1, <3>2, <3>5, <3>6 DEF LastReorderHolds, Active
  <2>. QED BY <2>3, <2>4
<1>23. OrderWriter(k)
  BY <1>1, Works
<1>24. BoardsTypeOK'
  <2>1. log' \in Seq(Req)
    BY <1>1, <1>2
  <2>. QED BY <1>1, <1>4, <1>6, <2>1 DEF BoardsInv, BoardsTypeOK
<1>25. \A o \in Req \ {k} : DOMAIN req'[k].draft \cap DOMAIN req[o].draft = {}
  BY <1>4
<1>26. /\ req'[k].in = req[k].in /\ req'[k].kind = req[k].kind /\ alone' = alone
       /\ \A o \in Req \ {k} : req'[o] = req[o]
  BY <1>1, <1>4
<1>27. \A p \in Place \ W : row'[p] = row[p]
  BY <1>5
<1> HIDE DEF W, r, d
<1>28. \A p \in W : Home[p] = req[k].in \/ (Home[p] \in Brd /\ row[Home[p]] = Gone)
  BY <1>13 DEF r
<1>. QED BY <1>3, <1>8, <1>14, <1>16, <1>18, <1>19, <1>21, <1>22, <1>23, <1>24, <1>25,
            <1>26, <1>27, <1>28, BoardsFrame

LEMMA BoardsStep == BoardsInv /\ [BoardsNext]_boardsVars => BoardsInv'
<1> SUFFICES ASSUME BoardsInv, [BoardsNext]_boardsVars PROVE BoardsInv'
  OBVIOUS
<1>1. CASE BoardsNext
  <2>1. PICK k \in Req : Asks(k) \/ Proceeds(k) \/ GivesUp(k) \/ Fails(k) \/ UpdateRowFails(k)
    BY <1>1 DEF BoardsNext
  <2>. QED BY <2>1, KeepsAsked, KeepsQuiet, KeepsUpdateRow, KeepsDestroyColumn, KeepsCommit
           DEF Proceeds
<1>2. CASE UNCHANGED boardsVars
  <2>1. row' = row /\ req' = req /\ alone' = alone /\ log' = log
    BY <1>2 DEF boardsVars
  <2>. QED BY <2>1 DEF BoardsInv, BoardsTypeOK, Knows, Drafts, Alone, Achieved, LastReorderHolds,
                       Active, In, Names, OrderWriter
<1>. QED BY <1>1, <1>2

\* Whatever requests do to the boards and columns of a project, and however they fail: no two
\* transactions have written one row, what a transaction has written is still so when it
\* commits, and a request that met no other one has achieved what it is about to answer.
THEOREM BoardsInvariant == BoardsSpec => []BoardsInv
BY BoardsInitially, BoardsStep, PTL DEF BoardsSpec

LEMMA AnsweredInOrder == BoardsInv => UndisturbedOrder
<1> SUFFICES ASSUME BoardsInv, NEW k \in alone, req[k].answer = "ok"
             PROVE  /\ \A i \in DOMAIN req[k].ids : Ordered(k, i) => row[req[k].ids[i]].order = i - 1
                    /\ req[k].kind \in {"boards.create", "columns.create"} =>
                          \A p \in Place : Active(p) /\ In(p, req[k].in) /\ p # req[k].on =>
                              row[p].order < row[req[k].on].order
  BY DEF UndisturbedOrder
<1> DEFINE r == req[k]
<1>1. k \in Req /\ Knows(r) /\ Achieved(r) /\ r.left = {}
  <2>1. k \in Req
    BY DEF BoardsInv, BoardsTypeOK
  <2>. QED BY <2>1, OfRequest DEF Knows
<1>2. \A i \in DOMAIN r.ids : Active(r.ids[i]) /\ In(r.ids[i], r.in) => row[r.ids[i]].order = i - 1
  <2>1. r.kind \in Reorders \/ r.ids = <<>>
    BY <1>1 DEF Knows
  <2>. QED BY <1>1, <2>1 DEF Achieved, Reorders
<1>3. r.kind \in Creates => \A p \in Place : Active(p) /\ In(p, r.in) /\ p # r.on =>
         row[p].order < row[r.on].order
  BY <1>1 DEF Achieved
<1>. QED BY <1>2, <1>3 DEF Ordered, Updatable, Creates

\* UndisturbedOrder, for every number of requests, boards and columns and every pool: a
\* reordering or creation of boards.service.ts or columns.service.ts that is answered has left
\* the order it promises, if no other request of its list ran at the same time.
THEOREM AnsweredOrder == BoardsSpec => []UndisturbedOrder
<1>1. BoardsInv => UndisturbedOrder
  BY AnsweredInOrder
<1>. QED BY <1>1, BoardsInvariant, PTL

\* LastReorderHolds, for every number of requests and columns: the UPDATEs of
\* columns.reorder, one after the other in a transaction, take effect whole.
THEOREM LastReorder == BoardsSpec => []LastReorderHolds
<1>1. BoardsInv => LastReorderHolds
  BY DEF BoardsInv
<1>. QED BY <1>1, BoardsInvariant, PTL
----------------------------------------------------------------------------
(* Projects: DistinctOrders. While neither two additions of a user nor two reorderings by the
   user have run at one time, the rows of the user are one for each project, with distinct
   places of the living ones; an addition in flight has a place beyond all of them, and the
   rows a reordering in flight has not found have places beyond those it has found. *)

\* No two requests that ran at one time give the user new projects, or a new order.
Orderly(u) ==
    \A pair \in overlaps :
        /\ ~ \A a \in pair : u \in ask[a].members
        /\ ~ \A a \in pair : ask[a].kind = "reorder" /\ ask[a].by = u

Ids(rows) == {m.id : m \in rows}
NewOf(s) == IF s.kind = "create" THEN s.members ELSE s.members \ {m.user : m \in s.found}

\* What a request is about does not depend on the rows there are.
Formed(s) ==
    /\ s \in AskState
    /\ s.kind = "none" => s = NoAsk
    /\ s.kind # "none" => s.step # "idle"
    /\ s.members # {} => s.kind \in {"create", "update"}
    /\ s.ids \in Injection(1..Len(s.ids), Proj)
    /\ s.step \in {"lock", "rows"} => s.kind = "reorder"
    /\ s.kind = "create" \/ s.step \notin {"orders", "add", "commit", "read", "done"} =>
          s.removed = {}
    /\ s.step \in {"orders", "add", "commit"} => s.removed \subseteq s.rows
    /\ s.step \notin {"commit", "read", "done"} => s.added = {}
    /\ \A m, n \in s.added : m.id = n.id => m = n
    /\ s.step = "commit" =>
          /\ \A m \in s.added : m.user \in NewOf(s) /\ m.project = s.on
                                /\ m.order = s.next[m.user]
          /\ \A m, n \in s.added : m.user = n.user => m = n
    /\ s.step = "rows" =>
          /\ s.rows = Ids(s.found) /\ s.holds = {m.project : m \in s.found}
          /\ s.holds = Range(s.ids) /\ Cardinality(s.found) = Len(s.ids)
          /\ \A m \in s.found : m.user = s.by

\* What a request relies on in the rows and projects there are.
Relies(s, rows, prj) ==
    /\ s.kind = "create" /\ s.step \notin {"read", "done"} => prj[s.on] = "absent"
    /\ s.kind \in {"update", "delete"} => prj[s.on] # "absent"
    /\ s.step \in {"orders", "add", "commit"} =>
          \A m \in rows : m.id \in s.removed => m.user \notin s.members
    /\ s.step = "rows" => s.found \subseteq rows
                          /\ \A m \in s.found : prj[m.project] = "active"

\* What it relies on when it alone adds, or reorders, projects of the user.
Places(s, u, rows, prj) ==
    /\ u \in s.members /\ s.step \in {"add", "commit"} =>
          \A m \in rows : m.user = u => m.order < s.next[u]
    /\ s.kind = "update" /\ u \in NewOf(s) /\ s.step \in {"remove", "orders", "add", "commit"} =>
          \A m \in rows : m.user = u => m.project # s.on
    /\ s.kind = "reorder" /\ s.by = u /\ s.step \in {"lock", "rows"} =>
          \A m, n \in rows :
             /\ m.user = u /\ n.user = u /\ prj[m.project] = "active" /\ prj[n.project] = "active"
             /\ m.id \in Ids(s.found) /\ n.id \notin Ids(s.found)
             => m.order < n.order

InPlace(u, rows, prj) ==
    \A m, n \in rows : m.user = u /\ n.user = u /\ m # n =>
        /\ m.project # n.project
        /\ prj[m.project] = "active" /\ prj[n.project] = "active" => m.order # n.order

\* Requests that ran at one time are known as such, and go about different things.
Apart ==
    /\ \A pair \in overlaps : \A a \in pair : a \in Ask /\ ask[a].kind # "none"
    /\ \A a, o \in Ask : a # o =>
          /\ Unended(a) /\ Unended(o) => {a, o} \in overlaps
          /\ ask[a].kind = "create" /\ ask[o].kind = "create" => ask[a].on # ask[o].on
          /\ ask[a].rows \cap ask[o].rows = {}
          /\ \A m \in ask[a].added, n \in ask[o].added : m.id # n.id

\* No key is given twice: a row to come has one that nobody has seen.
Keys ==
    /\ member \subseteq Member
    /\ \A m \in member : m.id \in UsedIds /\ project[m.project] # "absent"
    /\ \A m, n \in member : m.id = n.id => m = n
    /\ \A a \in Ask : ask[a].removed \cup Ids(ask[a].found) \subseteq UsedIds
    /\ \A a \in Ask : ask[a].step = "commit" =>
          \A m \in ask[a].added :
             /\ m.id \notin Ids(member)
             /\ \A o \in Ask : m.id \notin ask[o].removed \cup Ids(ask[o].found)

PlacesInv ==
    /\ project \in [Proj -> {"absent", "active", "archived"}]
    /\ ask \in [Ask -> AskState]
    /\ Apart /\ Keys
    /\ \A a \in Ask : Formed(ask[a]) /\ Relies(ask[a], member, project)
    /\ \A u \in Usr : Orderly(u) =>
          InPlace(u, member, project) /\ \A a \in Ask : Places(ask[a], u, member, project)

----------------------------------------------------------------------------
(* Counting. *)

\* Rows with distinct places below a bound are no more than the bound.
LEMMA FewerThanTheBound ==
    ASSUME NEW S \in SUBSET Member, \A m, n \in S : m # n => m.order # n.order,
           NEW b \in Nat, \A m \in S : m.order < b
    PROVE  IsFiniteSet(S) /\ Cardinality(S) <= b
<1>. DEFINE f == [m \in S |-> m.order + 1]
<1>1. \A m \in S : m.order \in Nat /\ m.order + 1 \in 1..b
  BY DEF Member
<1>2. f \in Injection(S, 1..b)
  BY <1>1 DEF Injection, IsInjective
<1>3. IsFiniteSet(1..b) /\ Cardinality(1..b) = b
  <2>1. 1 \in Int /\ b \in Int
    OBVIOUS
  <2>2. /\ IsFiniteSet(1..b)
        /\ Cardinality(1..b) = IF 1 > b THEN 0 ELSE b - 1 + 1
    BY <2>1, FS_Interval
  <2>. QED BY <2>2
<1>. HIDE DEF f
<1>. QED BY <1>2, <1>3, FS_Injection

LEMMA FiniteRows ==
    ASSUME PlacesInv PROVE IsFiniteSet(member)
<1>. DEFINE f == [m \in member |-> m.id]
<1>1. f \in Injection(member, 1..MaxRow)
  BY DEF PlacesInv, Keys, Member, Injection, IsInjective
<1>2. IsFiniteSet(1..MaxRow)
  <2>1. 1 \in Int /\ MaxRow \in Int
    BY ProjectsAssumption
  <2>. QED BY <2>1, FS_Interval
<1>. HIDE DEF f
<1>. QED BY <1>1, <1>2, FS_Injection

\* The next order is beyond all there are.
LEMMA NextIsBeyond ==
    ASSUME NEW orders \in SUBSET Nat, IsFiniteSet(orders)
    PROVE  NextOrder(orders) \in Nat /\ \A x \in orders : x < NextOrder(orders)
<1>1. CASE orders = {}
  BY <1>1 DEF NextOrder
<1>2. CASE orders # {}
  <2>1. Max(orders) \in orders /\ \A x \in orders : x <= Max(orders)
    BY <1>2, MaxIs
  <2>2. NextOrder(orders) = Max(orders) + 1
    BY <1>2 DEF NextOrder
  <2>3. PICK max \in Nat : NextOrder(orders) = max + 1 /\ \A x \in orders : x <= max
    BY <2>1, <2>2
  <2>4. \A x \in orders : x \in Nat /\ x < max + 1
    BY <2>3
  <2>. QED BY <2>3, <2>4
<1>. QED BY <1>1, <1>2

\* The place of a project among the ids.
LEMMA PlaceAmong ==
    ASSUME NEW ids, ids \in Injection(1..Len(ids), Proj), Len(ids) \in Nat, NEW p \in Range(ids)
    PROVE  /\ PlaceIn(ids, p) \in Nat /\ PlaceIn(ids, p) < Len(ids)
           /\ ids[PlaceIn(ids, p) + 1] = p
<1>1. PICK j \in 1..Len(ids) : ids[j] = p
  BY DEF Range, Injection
<1>2. j - 1 \in 0..(Len(ids) - 1) /\ ids[(j - 1) + 1] = p
  BY <1>1
<1>3. \E i \in 0..(Len(ids) - 1) : ids[i + 1] = p
  BY <1>2
<1>4. PlaceIn(ids, p) \in 0..(Len(ids) - 1) /\ ids[PlaceIn(ids, p) + 1] = p
  BY <1>3 DEF PlaceIn
<1>. QED BY <1>4

----------------------------------------------------------------------------
(* The two kinds of step that leave the rows alone: a request comes, or goes on. *)

\* A request at work is no longer NoAsk.
LEMMA AtWorkOn ==
    ASSUME PlacesInv, NEW a \in Ask, Unended(a) \/ ask[a].step = "done"
    PROVE  ask[a].kind # "none" /\ ask[a] \in AskState /\ Formed(ask[a])
BY DEF PlacesInv, Formed, Unended, NoAsk

LEMMA TwoRequests ==
    ASSUME PlacesInv
    PROVE  \A o, p \in Ask : o # p =>
              /\ Unended(o) /\ Unended(p) => {o, p} \in overlaps
              /\ ask[o].kind = "create" /\ ask[p].kind = "create" => ask[o].on # ask[p].on
              /\ ask[o].rows \cap ask[p].rows = {}
              /\ \A m \in ask[o].added, n \in ask[p].added : m.id # n.id
BY DEF PlacesInv, Apart

LEMMA GoesOnInPlace ==
    ASSUME PlacesInv, NEW a \in Ask, NEW new, ask' = [ask EXCEPT ![a] = new],
           UNCHANGED <<project, member, overlaps>>, Unended(a),
           new.kind = ask[a].kind, new.by = ask[a].by, new.on = ask[a].on,
           new.members = ask[a].members, Formed(new), Relies(new, member, project),
           \A o \in Ask \ {a} : new.rows \cap ask[o].rows = {},
           \/ new.added = ask[a].added /\ (new.step = "commit" => new.added = {})
           \/ ask[a].added = {} /\ \A m \in new.added : m.id \notin UsedIds,
           new.removed \subseteq Ids(member) \cup ask[a].removed,
           Ids(new.found) \subseteq Ids(member) \cup Ids(ask[a].found),
           \A u \in Usr : Orderly(u) /\ InPlace(u, member, project)
                          /\ Places(ask[a], u, member, project) => Places(new, u, member, project)
    PROVE  PlacesInv'
<1>1. ask \in [Ask -> AskState] /\ new \in AskState
  BY DEF PlacesInv, Formed
<1>2. ask' \in [Ask -> AskState] /\ ask'[a] = new /\ \A o \in Ask \ {a} : ask'[o] = ask[o]
  BY <1>1
<1>3. \A o \in Ask : /\ ask'[o].kind = ask[o].kind /\ ask'[o].by = ask[o].by
                     /\ ask'[o].on = ask[o].on /\ ask'[o].members = ask[o].members
  BY <1>2
<1>4. \A o \in Ask : Unended(o)' => Unended(o)
  BY <1>2 DEF Unended
<1>5. Apart'
  <2>1. \A pair \in overlaps : \A o \in pair : o \in Ask /\ ask'[o].kind # "none"
    BY <1>3 DEF PlacesInv, Apart
  <2>2. ASSUME NEW o \in Ask, NEW p \in Ask, o # p
        PROVE  /\ Unended(o)' /\ Unended(p)' => {o, p} \in overlaps
               /\ ask'[o].kind = "create" /\ ask'[p].kind = "create" => ask'[o].on # ask'[p].on
    BY <1>3, <1>4, <2>2, TwoRequests
  <2>3. ASSUME NEW o \in Ask, NEW p \in Ask, o # p
        PROVE  ask'[o].rows \cap ask'[p].rows = {}
    <3>1. CASE o = a
      BY <1>2, <2>3, <3>1
    <3>2. CASE p = a
      BY <1>2, <2>3, <3>2
    <3>3. CASE o # a /\ p # a
      BY <1>2, <2>3, <3>3, TwoRequests
    <3>. QED BY <3>1, <3>2, <3>3
  <2>4. ASSUME NEW o \in Ask \ {a}, NEW m \in new.added, NEW n \in ask[o].added
        PROVE  m.id # n.id
    <3>1. CASE new.added = ask[a].added
      BY <3>1 DEF PlacesInv, Apart
    <3>2. CASE \A k \in new.added : k.id \notin UsedIds
      BY <3>2 DEF UsedIds
    <3>. QED BY <3>1, <3>2
  <2>5. ASSUME NEW o \in Ask, NEW p \in Ask, o # p,
               NEW m \in ask'[o].added, NEW n \in ask'[p].added
        PROVE  m.id # n.id
    <3>1. CASE o = a
      BY <1>2, <2>4, <2>5, <3>1
    <3>2. CASE p = a
      BY <1>2, <2>4, <2>5, <3>2
    <3>3. CASE o # a /\ p # a
      <4>1. m \in ask[o].added /\ n \in ask[p].added
        BY <1>2, <2>5, <3>3
      <4>. QED BY <2>5, <4>1, TwoRequests
    <3>. QED BY <3>1, <3>2, <3>3
  <2>. QED BY <2>1, <2>2, <2>3, <2>5 DEF Apart
<1>6. UsedIds \subseteq UsedIds'
  <2>1. \A o \in Ask : ask[o].added \subseteq ask'[o].added
    BY <1>2
  <2>. QED BY <2>1 DEF UsedIds
<1>7. Keys'
  <2>1. /\ member' \subseteq Member
        /\ \A m \in member' : m.id \in UsedIds' /\ project'[m.project] # "absent"
        /\ \A m, n \in member' : m.id = n.id => m = n
    BY <1>6 DEF PlacesInv, Keys
  <2>2. Ids(member) \subseteq UsedIds
    BY DEF PlacesInv, Keys, Ids
  <2>3. ASSUME NEW o \in Ask PROVE ask'[o].removed \cup Ids(ask'[o].found) \subseteq UsedIds
    <3>1. ask[o].removed \cup Ids(ask[o].found) \subseteq UsedIds
      BY DEF PlacesInv, Keys
    <3>. QED BY <1>2, <2>2, <3>1
  <2>4. ASSUME NEW o \in Ask, ask'[o].step = "commit", NEW m \in ask'[o].added
        PROVE  /\ m.id \notin Ids(member)
               /\ \A p \in Ask : m.id \notin ask'[p].removed \cup Ids(ask'[p].found)
    <3>1. CASE m.id \notin UsedIds
      BY <2>2, <2>3, <3>1
    <3>2. CASE m.id \in UsedIds
      <4>1. o # a
        BY <1>2, <2>4, <3>2
      <4>2. /\ m.id \notin Ids(member)
            /\ \A p \in Ask : m.id \notin ask[p].removed \cup Ids(ask[p].found)
        BY <1>2, <2>4, <4>1 DEF PlacesInv, Keys
      <4>. QED BY <1>2, <4>2
    <3>. QED BY <3>1, <3>2
  <2>. QED BY <1>6, <2>1, <2>3, <2>4 DEF Keys, Ids
<1>8. \A o \in Ask : Formed(ask'[o]) /\ Relies(ask'[o], member, project)
  BY <1>2 DEF PlacesInv
<1>9. ASSUME NEW u \in Usr, Orderly(u)'
      PROVE  InPlace(u, member, project) /\ \A o \in Ask : Places(ask'[o], u, member, project)
  <2>1. Orderly(u)
    BY <1>3, <1>9 DEF Orderly, PlacesInv, Apart
  <2>2. InPlace(u, member, project) /\ \A o \in Ask : Places(ask[o], u, member, project)
    BY <2>1 DEF PlacesInv
  <2>. QED BY <1>2, <2>1, <2>2
<1>. QED BY <1>2, <1>5, <1>7, <1>8, <1>9 DEF PlacesInv, InPlace, Places, Relies

LEMMA AskingInPlace ==
    ASSUME PlacesInv, NEW a \in Ask, NEW new, Asking(a, new),
           Formed(new), Relies(new, member, project),
           new.step \in {"prefix", "manage", "select", "find"}, new.kind # "none",
           new.rows = {}, new.added = {}, new.removed = {}, new.found = {},
           new.kind = "create" => \A o \in Ask : ask[o].kind = "create" => ask[o].on # new.on
    PROVE  PlacesInv'
<1>1. ask \in [Ask -> AskState] /\ new \in AskState /\ ask' = [ask EXCEPT ![a] = new]
      /\ UNCHANGED <<project, member>> /\ ask[a] = NoAsk
      /\ overlaps' = overlaps \cup {{a, o} : o \in {o \in Ask : Unended(o)}}
  BY DEF PlacesInv, Formed, Asking, Becomes
<1>2. ask' \in [Ask -> AskState] /\ ask'[a] = new /\ \A o \in Ask \ {a} : ask'[o] = ask[o]
  BY <1>1
<1>3. /\ ask[a].kind = "none" /\ ask[a].step = "idle" /\ ask[a].rows = {} /\ ask[a].added = {}
      /\ ask[a].removed = {} /\ ask[a].found = {}
  BY <1>1 DEF NoAsk
<1>4. \A o \in Ask : /\ ask'[o].rows = ask[o].rows /\ ask'[o].added = ask[o].added
                     /\ ask'[o].removed = ask[o].removed /\ ask'[o].found = ask[o].found
  BY <1>2, <1>3
<1>5. UsedIds' = UsedIds
  BY <1>4 DEF UsedIds
<1>6. \A o \in Ask : Unended(o) => o # a /\ ask[o].kind # "none"
  BY <1>3, AtWorkOn DEF Unended
<1>7. Apart'
  <2>1. ASSUME NEW pair \in overlaps', NEW o \in pair PROVE o \in Ask /\ ask'[o].kind # "none"
    <3>1. CASE pair \in overlaps
      BY <1>2, <2>1, <3>1 DEF PlacesInv, Apart
    <3>2. CASE pair \notin overlaps
      <4>1. PICK p \in Ask : Unended(p) /\ pair = {a, p}
        BY <1>1, <2>1, <3>2
      <4>. QED BY <1>2, <1>6, <2>1, <4>1
    <3>. QED BY <3>1, <3>2
  <2>2. ASSUME NEW o \in Ask, NEW p \in Ask, o # p, Unended(o)', Unended(p)'
        PROVE  {o, p} \in overlaps'
    <3>1. CASE o = a
      <4>1. Unended(p)
        BY <1>2, <2>2, <3>1 DEF Unended
      <4>. QED BY <1>1, <3>1, <4>1
    <3>2. CASE p = a
      <4>1. Unended(o)
        BY <1>2, <2>2, <3>2 DEF Unended
      <4>2. {a, o} \in overlaps'
        BY <1>1, <4>1
      <4>. QED BY <3>2, <4>2
    <3>3. CASE o # a /\ p # a
      <4>1. Unended(o) /\ Unended(p)
        BY <1>2, <2>2, <3>3 DEF Unended
      <4>. QED BY <1>1, <2>2, <4>1 DEF PlacesInv, Apart
    <3>. QED BY <3>1, <3>2, <3>3
  <2>3. ASSUME NEW o \in Ask, NEW p \in Ask, o # p
        PROVE  ask'[o].kind = "create" /\ ask'[p].kind = "create" => ask'[o].on # ask'[p].on
    <3>1. CASE o = a
      BY <1>2, <2>3, <3>1
    <3>2. CASE p = a
      BY <1>2, <2>3, <3>2
    <3>3. CASE o # a /\ p # a
      <4>1. ask'[o] = ask[o] /\ ask'[p] = ask[p]
        BY <1>2, <3>3
      <4>. QED BY <2>3, <4>1, TwoRequests
    <3>. QED BY <3>1, <3>2, <3>3
  <2>4. ASSUME NEW o \in Ask, NEW p \in Ask, o # p
        PROVE  /\ ask'[o].rows \cap ask'[p].rows = {}
               /\ \A m \in ask'[o].added, n \in ask'[p].added : m.id # n.id
    <3>1. /\ ask'[o].rows = ask[o].rows /\ ask'[p].rows = ask[p].rows
          /\ ask'[o].added = ask[o].added /\ ask'[p].added = ask[p].added
      BY <1>4
    <3>. QED BY <2>4, <3>1, TwoRequests
  <2>. QED BY <2>1, <2>2, <2>3, <2>4 DEF Apart
<1>8. Keys'
  <2>1. \A o \in Ask : ask'[o].step = "commit" => ask[o].step = "commit"
    BY <1>2
  <2>. QED BY <1>1, <1>4, <1>5, <2>1 DEF PlacesInv, Keys, Ids
<1>9. \A o \in Ask : Formed(ask'[o]) /\ Relies(ask'[o], member, project)
  BY <1>2 DEF PlacesInv
<1>10. ASSUME NEW u \in Usr, Orderly(u)'
       PROVE  InPlace(u, member, project) /\ \A o \in Ask : Places(ask'[o], u, member, project)
  <2>1. ASSUME NEW pair \in overlaps, NEW o \in pair
        PROVE  ask'[o] = ask[o]
    BY <1>2, <1>3, <2>1 DEF PlacesInv, Apart
  <2>2. Orderly(u)
    BY <1>1, <1>10, <2>1 DEF Orderly
  <2>3. InPlace(u, member, project) /\ \A o \in Ask : Places(ask[o], u, member, project)
    BY <2>2 DEF PlacesInv
  <2>4. Places(new, u, member, project)
    BY DEF Places
  <2>. QED BY <1>2, <2>3, <2>4
<1>. QED BY <1>1, <1>2, <1>7, <1>8, <1>9, <1>10 DEF PlacesInv, InPlace, Places, Relies

----------------------------------------------------------------------------
(* One lemma for each action, or for those that differ in nothing the invariant knows of. *)

LEMMA AsksInPlace ==
    ASSUME PlacesInv, NEW a \in Ask,
           AskCreate(a) \/ AskUpdate(a) \/ AskDelete(a) \/ AskReorder(a) \/ AskFavorite(a)
    PROVE  PlacesInv'
<1>1. AnyUser \in Usr /\ AnyProject \in Proj
  BY ProjectsAssumption DEF AnyUser, AnyProject
<1>2. NoAsk.ids = <<>> /\ <<>> \in Seq(Proj) /\ <<>> \in Injection(1..Len(<<>>), Proj)
  BY DEF NoAsk, Injection, IsInjective
<1>3. ASSUME NEW new \in AskState, Asking(a, new), new.kind # "none",
             new.step \in {"prefix", "manage", "find"}, new.ids = <<>>, new.found = {},
             new.removed = {}, new.added = {}, new.rows = {},
             new.members # {} => new.kind \in {"create", "update"},
             new.kind = "create" =>
                 /\ project[new.on] = "absent"
                 /\ \A o \in Ask : ask[o].kind = "create" => ask[o].on # new.on,
             new.kind \in {"update", "delete"} => project[new.on] # "absent"
      PROVE  PlacesInv'
  <2>1. Formed(new) /\ Relies(new, member, project)
    BY <1>2, <1>3 DEF Formed, Relies
  <2>. QED BY <1>3, <2>1, AskingInPlace
<1>4. CASE AskCreate(a)
  <2>1. PICK p \in Proj, members \in SUBSET Usr :
           /\ project[p] = "absent" /\ \A o \in Ask : ask[o].kind = "create" => ask[o].on # p
           /\ Asking(a, [NoAsk EXCEPT !.kind = "create", !.by = Creator[p], !.on = p,
                                      !.members = members \cup {Creator[p]}, !.step = "prefix"])
    BY <1>4 DEF AskCreate
  <2>2. Creator[p] \in Usr
    BY ProjectsAssumption
  <2>. DEFINE new == [NoAsk EXCEPT !.kind = "create", !.by = Creator[p], !.on = p,
                                   !.members = members \cup {Creator[p]}, !.step = "prefix"]
  <2>3. /\ new.kind = "create" /\ new.on = p /\ new.step = "prefix" /\ new.ids = <<>>
        /\ new.found = {} /\ new.removed = {} /\ new.added = {} /\ new.rows = {}
    BY DEF NoAsk
  <2>4. new \in AskState
    BY <1>1, <1>2, <2>2 DEF NoAsk, AskState
  <2>5. Asking(a, new)
    BY <2>1
  <2>. HIDE DEF new
  <2>. QED BY <1>3, <2>1, <2>3, <2>4, <2>5
<1>5. CASE AskUpdate(a)
  <2>1. PICK u \in Usr, p \in Proj, members \in SUBSET Usr :
           /\ project[p] # "absent"
           /\ Asking(a, [NoAsk EXCEPT !.kind = "update", !.by = u, !.on = p,
                                      !.members = members, !.step = "manage"])
    BY <1>5 DEF AskUpdate
  <2>. DEFINE new == [NoAsk EXCEPT !.kind = "update", !.by = u, !.on = p,
                                   !.members = members, !.step = "manage"]
  <2>3. /\ new.kind = "update" /\ new.on = p /\ new.step = "manage" /\ new.ids = <<>>
        /\ new.found = {} /\ new.removed = {} /\ new.added = {} /\ new.rows = {}
    BY DEF NoAsk
  <2>4. new \in AskState
    BY <1>1, <1>2 DEF NoAsk, AskState
  <2>5. Asking(a, new)
    BY <2>1
  <2>. HIDE DEF new
  <2>. QED BY <1>3, <2>1, <2>3, <2>4, <2>5
<1>6. CASE AskDelete(a)
  <2>1. PICK u \in Usr, p \in Proj :
           /\ project[p] # "absent"
           /\ Asking(a, [NoAsk EXCEPT !.kind = "delete", !.by = u, !.on = p, !.step = "manage"])
    BY <1>6 DEF AskDelete
  <2>. DEFINE new == [NoAsk EXCEPT !.kind = "delete", !.by = u, !.on = p, !.step = "manage"]
  <2>3. /\ new.kind = "delete" /\ new.on = p /\ new.step = "manage" /\ new.ids = <<>>
        /\ new.found = {} /\ new.removed = {} /\ new.added = {} /\ new.rows = {}
        /\ new.members = {}
    BY DEF NoAsk
  <2>4. new \in AskState
    BY <1>1, <1>2 DEF NoAsk, AskState
  <2>5. Asking(a, new)
    BY <2>1
  <2>. HIDE DEF new
  <2>. QED BY <1>3, <2>1, <2>3, <2>4, <2>5
<1>7. CASE AskFavorite(a)
  <2>1. PICK u \in Usr, p \in Proj :
           Asking(a, [NoAsk EXCEPT !.kind = "favorite", !.by = u, !.on = p, !.step = "find"])
    BY <1>7 DEF AskFavorite
  <2>. DEFINE new == [NoAsk EXCEPT !.kind = "favorite", !.by = u, !.on = p, !.step = "find"]
  <2>3. /\ new.kind = "favorite" /\ new.on = p /\ new.step = "find" /\ new.ids = <<>>
        /\ new.found = {} /\ new.removed = {} /\ new.added = {} /\ new.rows = {}
        /\ new.members = {}
    BY DEF NoAsk
  <2>4. new \in AskState
    BY <1>1, <1>2 DEF NoAsk, AskState
  <2>5. Asking(a, new)
    BY <2>1
  <2>. HIDE DEF new
  <2>. QED BY <1>3, <2>3, <2>4, <2>5
<1>8. CASE AskReorder(a)
  <2>0. PICK u \in Usr, readable \in SUBSET Proj : \E ids \in SetToSeqs(readable) :
           Asking(a, [NoAsk EXCEPT !.kind = "reorder", !.by = u, !.ids = ids, !.step = "select"])
    BY <1>8 DEF AskReorder
  <2>1. PICK ids \in SetToSeqs(readable) :
           Asking(a, [NoAsk EXCEPT !.kind = "reorder", !.by = u, !.ids = ids, !.step = "select"])
    BY <2>0
  <2>2. Cardinality(readable) \in Nat
    BY ProjectsAssumption, FS_Subset, FS_CardinalityType
  <2>3. /\ ids \in [1..Cardinality(readable) -> Proj]
        /\ \A i, j \in 1..Cardinality(readable) : i # j => ids[i] # ids[j]
    BY <2>1 DEF SetToSeqs
  <2>4. ids \in Seq(Proj) /\ Len(ids) = Cardinality(readable)
    BY <2>2, <2>3
  <2>5. ids \in Injection(1..Len(ids), Proj)
    BY <2>3, <2>4 DEF Injection, IsInjective
  <2>. DEFINE new == [NoAsk EXCEPT !.kind = "reorder", !.by = u, !.ids = ids, !.step = "select"]
  <2>6. /\ new.kind = "reorder" /\ new.step = "select" /\ new.ids = ids /\ new.members = {}
        /\ new.found = {} /\ new.removed = {} /\ new.added = {} /\ new.rows = {}
    BY DEF NoAsk
  <2>7. new \in AskState
    BY <1>1, <2>4 DEF NoAsk, AskState
  <2>8. Asking(a, new)
    BY <2>1
  <2>. HIDE DEF new
  <2>9. Formed(new) /\ Relies(new, member, project)
    BY <2>5, <2>6, <2>7 DEF Formed, Relies
  <2>. QED BY <2>6, <2>8, <2>9, AskingInPlace
<1>. QED BY <1>4, <1>5, <1>6, <1>7, <1>8

\* A request ends.
LEMMA EndsInPlace ==
    ASSUME PlacesInv, NEW a \in Ask, Unended(a), NEW answer \in {"ok", "error", "yes", "no"},
           Ended(a, answer), UNCHANGED <<project, member, overlaps>>
    PROVE  PlacesInv'
<1>. DEFINE s == ask[a]
            new == [s EXCEPT !.step = "done", !.answer = answer, !.holds = {}, !.rows = {}]
<1>1. s.kind # "none" /\ s \in AskState /\ Formed(s) /\ Relies(s, member, project)
  BY AtWorkOn DEF PlacesInv
<1>2. ask' = [ask EXCEPT ![a] = new] /\ new \in AskState
  BY <1>1 DEF Ended, Becomes, AskState
<1>3. /\ new.step = "done" /\ new.rows = {} /\ new.kind = s.kind /\ new.by = s.by
      /\ new.on = s.on /\ new.members = s.members /\ new.ids = s.ids /\ new.found = s.found
      /\ new.removed = s.removed /\ new.added = s.added
  BY <1>1 DEF AskState
<1>. HIDE DEF new
<1>4. Formed(new)
  BY <1>1, <1>2, <1>3 DEF Formed
<1>5. Relies(new, member, project) /\ \A u \in Usr : Places(new, u, member, project)
  BY <1>1, <1>3 DEF Relies, Places
<1>. HIDE DEF s
<1>. QED BY <1>2, <1>3, <1>4, <1>5, GoesOnInPlace DEF s

\* A request goes on, and has neither removed nor added anything.
LEMMA OnwardInPlace ==
    ASSUME PlacesInv, NEW a \in Ask, Unended(a), UNCHANGED <<project, member, overlaps>>,
           NEW new, ask' = [ask EXCEPT ![a] = new], new \in AskState,
           new.step \in {"insert", "orders", "save", "remove", "commit", "existing", "toggle"},
           new.kind = ask[a].kind, new.by = ask[a].by, new.on = ask[a].on,
           new.members = ask[a].members, new.ids = ask[a].ids, new.found = ask[a].found,
           new.removed = ask[a].removed, new.added = ask[a].added, new.rows = ask[a].rows,
           ask[a].step \in {"prefix", "insert", "manage", "save", "find"},
           new.step = "remove" => ask[a].kind = "delete",
           new.step = "orders" => ask[a].kind = "create",
           new.step = "commit" => ask[a].members = {}
    PROVE  PlacesInv'
<1>. DEFINE s == ask[a]
<1>1. s.kind # "none" /\ s \in AskState /\ Formed(s) /\ Relies(s, member, project)
  BY AtWorkOn DEF PlacesInv
<1>2. s.removed = {} /\ s.added = {}
  BY <1>1 DEF Formed
<1>3. Formed(new)
  BY <1>1, <1>2 DEF Formed
<1>4. Relies(new, member, project)
  BY <1>1, <1>2 DEF Relies
<1>5. \A u \in Usr : Places(new, u, member, project)
  BY <1>1, <1>2 DEF Places, NewOf
<1>6. \A o \in Ask \ {a} : new.rows \cap ask[o].rows = {}
  BY TwoRequests
<1>. HIDE DEF s
<1>. QED BY <1>2, <1>3, <1>4, <1>5, <1>6, GoesOnInPlace DEF s

LEMMA ChecksInPlace ==
    ASSUME PlacesInv, NEW a \in Ask,
           \/ CheckPrefix(a) \/ InsertProject(a) \/ CheckManage(a) \/ SaveProject(a)
           \/ FindFavorite(a) \/ ToggleFavorite(a) \/ ReadAnswer(a) \/ ProjectFails(a)
    PROVE  PlacesInv'
<1>. DEFINE s == ask[a]
<1>1. Unended(a) /\ UNCHANGED <<project, member, overlaps>>
  BY DEF CheckPrefix, InsertProject, CheckManage, SaveProject, FindFavorite, ToggleFavorite,
         ReadAnswer, ProjectFails, ProjectRefuses, Rest, History, AtStep, Unended
<1>2. s \in AskState
  BY <1>1, AtWorkOn
<1>3. CASE \E answer \in {"ok", "error", "yes", "no"} : Ended(a, answer)
  BY <1>1, <1>3, EndsInPlace
<1>4. CASE CheckPrefix(a) /\ ~ Ended(a, "error")
  <2>. DEFINE new == [s EXCEPT !.step = "insert"]
  <2>1. ask' = [ask EXCEPT ![a] = new] /\ s.step = "prefix"
    BY <1>4 DEF CheckPrefix, ProjectRefuses, Becomes, AtStep
  <2>2. /\ new \in AskState /\ new.step = "insert" /\ new.kind = s.kind /\ new.by = s.by
        /\ new.on = s.on /\ new.members = s.members /\ new.ids = s.ids /\ new.found = s.found
        /\ new.removed = s.removed /\ new.added = s.added /\ new.rows = s.rows
    BY <1>2 DEF AskState
  <2>. HIDE DEF new
  <2>. QED BY <1>1, <2>1, <2>2, OnwardInPlace
<1>5. CASE InsertProject(a) /\ ~ Ended(a, "error")
  <2>. DEFINE new == [s EXCEPT !.step = "orders", !.holds = {s.on}]
  <2>1. ask' = [ask EXCEPT ![a] = new] /\ s.step = "insert" /\ s.kind = "create"
    BY <1>5 DEF InsertProject, ProjectRefuses, Becomes, AtStep
  <2>2. /\ new \in AskState /\ new.step = "orders" /\ new.kind = s.kind /\ new.by = s.by
        /\ new.on = s.on /\ new.members = s.members /\ new.ids = s.ids /\ new.found = s.found
        /\ new.removed = s.removed /\ new.added = s.added /\ new.rows = s.rows
    BY <1>2 DEF AskState
  <2>. HIDE DEF new
  <2>. QED BY <1>1, <2>1, <2>2, OnwardInPlace
<1>6. CASE CheckManage(a) /\ ~ Ended(a, "error")
  <2>. DEFINE step == IF s.kind = "update" THEN "save" ELSE "remove"
              new == [s EXCEPT !.step = step]
  <2>1. ask' = [ask EXCEPT ![a] = new] /\ s.step = "manage" /\ s.kind \in {"update", "delete"}
    BY <1>6 DEF CheckManage, ProjectRefuses, Becomes, AtStep
  <2>2. step \in {"save", "remove"} /\ (step = "remove" => s.kind = "delete")
    BY <2>1
  <2>. HIDE DEF step
  <2>3. /\ new \in AskState /\ new.step = step /\ new.kind = s.kind /\ new.by = s.by
        /\ new.on = s.on /\ new.members = s.members /\ new.ids = s.ids /\ new.found = s.found
        /\ new.removed = s.removed /\ new.added = s.added /\ new.rows = s.rows
    BY <1>2, <2>2 DEF AskState
  <2>. HIDE DEF new
  <2>. QED BY <1>1, <2>1, <2>2, <2>3, OnwardInPlace
<1>7. CASE SaveProject(a)
  <2>. DEFINE step == IF s.members = {} THEN "commit" ELSE "existing"
  <2>0. PICK changed \in BOOLEAN :
           ask' = [ask EXCEPT ![a] = [s EXCEPT !.step = step,
                                               !.holds = IF changed THEN {s.on} ELSE {}]]
    BY <1>7 DEF SaveProject, Becomes
  <2>. DEFINE holds == IF changed THEN {s.on} ELSE {}
  <2>1. holds \in SUBSET Proj /\ s.step = "save"
    BY <1>2, <1>7 DEF SaveProject, AtStep, AskState
  <2>2. step \in {"commit", "existing"} /\ (step = "commit" => s.members = {})
    OBVIOUS
  <2>. DEFINE new == [s EXCEPT !.step = step, !.holds = holds]
  <2>. HIDE DEF step, holds
  <2>3. /\ new \in AskState /\ new.step = step /\ new.kind = s.kind /\ new.by = s.by
        /\ new.on = s.on /\ new.members = s.members /\ new.ids = s.ids /\ new.found = s.found
        /\ new.removed = s.removed /\ new.added = s.added /\ new.rows = s.rows
    BY <1>2, <2>1, <2>2 DEF AskState
  <2>4. ask' = [ask EXCEPT ![a] = new]
    BY <2>0 DEF step, holds
  <2>. HIDE DEF new
  <2>. QED BY <1>1, <2>1, <2>2, <2>3, <2>4, OnwardInPlace
<1>8. CASE FindFavorite(a) /\ ~ Ended(a, "error")
  <2>1. PICK answer \in {"yes", "no"} :
           ask' = [ask EXCEPT ![a] = [s EXCEPT !.step = "toggle", !.answer = answer]]
           /\ s.step = "find"
    BY <1>8 DEF FindFavorite, ProjectRefuses, Becomes, AtStep
  <2>. DEFINE new == [s EXCEPT !.step = "toggle", !.answer = answer]
  <2>2. /\ new \in AskState /\ new.step = "toggle" /\ new.kind = s.kind /\ new.by = s.by
        /\ new.on = s.on /\ new.members = s.members /\ new.ids = s.ids /\ new.found = s.found
        /\ new.removed = s.removed /\ new.added = s.added /\ new.rows = s.rows
    BY <1>2 DEF AskState
  <2>3. ask' = [ask EXCEPT ![a] = new]
    BY <2>1
  <2>. HIDE DEF new
  <2>. QED BY <1>1, <2>1, <2>2, <2>3, OnwardInPlace
<1>9. CASE ToggleFavorite(a) \/ ReadAnswer(a) \/ ProjectFails(a)
  BY <1>3, <1>9 DEF ToggleFavorite, ReadAnswer, ProjectFails, ProjectRefuses
<1>. QED BY <1>3, <1>4, <1>5, <1>6, <1>7, <1>8, <1>9

LEMMA ReadExistingInPlace ==
    ASSUME PlacesInv, NEW a \in Ask, ReadExisting(a) PROVE PlacesInv'
<1>. DEFINE s == ask[a]
            new == [s EXCEPT !.step = "remove", !.found = MembershipsIn(s.on)]
<1>1. /\ Unended(a) /\ UNCHANGED <<project, member, overlaps>> /\ ask' = [ask EXCEPT ![a] = new]
      /\ s.step = "existing" /\ s.kind = "update"
  BY DEF ReadExisting, AtStep, Unended, Rest, Becomes
<1>2. s \in AskState /\ Formed(s) /\ Relies(s, member, project) /\ member \subseteq Member
  BY <1>1, AtWorkOn DEF PlacesInv, Keys
<1>3. MembershipsIn(s.on) \subseteq member
  BY DEF MembershipsIn
<1>4. /\ new \in AskState /\ new.step = "remove" /\ new.kind = s.kind /\ new.by = s.by
      /\ new.on = s.on /\ new.members = s.members /\ new.ids = s.ids
      /\ new.found = MembershipsIn(s.on)
      /\ new.removed = s.removed /\ new.added = s.added /\ new.rows = s.rows
  BY <1>2, <1>3 DEF AskState
<1>. HIDE DEF new
<1>5. s.removed = {} /\ s.added = {}
  BY <1>1, <1>2 DEF Formed
<1>6. Formed(new) /\ Relies(new, member, project)
  BY <1>1, <1>2, <1>4, <1>5 DEF Formed, Relies
<1>7. ASSUME NEW u \in Usr PROVE Places(new, u, member, project)
  BY <1>1, <1>4 DEF Places, NewOf, MembershipsIn
<1>8. \A o \in Ask \ {a} : new.rows \cap ask[o].rows = {}
  BY <1>4, TwoRequests
<1>9. Ids(new.found) \subseteq Ids(member)
  BY <1>3, <1>4 DEF Ids
<1>. HIDE DEF s
<1>. QED BY <1>1, <1>4, <1>5, <1>6, <1>7, <1>8, <1>9, GoesOnInPlace DEF s

LEMMA RemoveMembersInPlace ==
    ASSUME PlacesInv, NEW a \in Ask, RemoveMembers(a) PROVE PlacesInv'
<1>. DEFINE s == ask[a]
            gone == {m \in MembershipsIn(s.on) : m.user \notin s.members}
            ids == {m.id : m \in gone}
            new == [s EXCEPT !.step = "orders", !.removed = ids, !.rows = ids]
<1>1. /\ Unended(a) /\ UNCHANGED <<project, member, overlaps>> /\ ask' = [ask EXCEPT ![a] = new]
      /\ s.step = "remove" /\ s.kind = "update" /\ \A id \in ids : ~ LockedRow(a, id)
  BY DEF RemoveMembers, AtStep, Unended, Rest, Becomes
<1>2. s \in AskState /\ Formed(s) /\ Relies(s, member, project) /\ member \subseteq Member
  BY <1>1, AtWorkOn DEF PlacesInv, Keys
<1>3. gone \subseteq member /\ \A m \in gone : m.user \notin s.members
  BY DEF MembershipsIn
<1>. HIDE DEF gone
<1>4. ids \subseteq Ids(member) /\ ids \subseteq 1..MaxRow
  BY <1>2, <1>3 DEF Ids, Member
<1>5. \A m \in member : m.id \in ids => m.user \notin s.members
  BY <1>3 DEF PlacesInv, Keys
<1>6. \A o \in Ask \ {a} : ids \cap ask[o].rows = {}
  BY <1>1 DEF LockedRow
<1>. HIDE DEF ids
<1>7. /\ new \in AskState /\ new.step = "orders" /\ new.kind = s.kind /\ new.by = s.by
      /\ new.on = s.on /\ new.members = s.members /\ new.ids = s.ids /\ new.found = s.found
      /\ new.removed = ids /\ new.added = s.added /\ new.rows = ids
  BY <1>2, <1>4 DEF AskState
<1>. HIDE DEF new
<1>8. s.added = {}
  BY <1>1, <1>2 DEF Formed
<1>9. Formed(new)
  BY <1>1, <1>2, <1>7, <1>8 DEF Formed
<1>10. Relies(new, member, project)
  BY <1>1, <1>2, <1>5, <1>7 DEF Relies
<1>11. ASSUME NEW u \in Usr, Places(s, u, member, project) PROVE Places(new, u, member, project)
  BY <1>1, <1>7, <1>11 DEF Places, NewOf
<1>. HIDE DEF s
<1>. QED BY <1>1, <1>4, <1>6, <1>7, <1>8, <1>9, <1>10, <1>11, GoesOnInPlace DEF s

LEMMA GetNextInPlace ==
    ASSUME PlacesInv, NEW a \in Ask, GetNextMemberOrders(a) PROVE PlacesInv'
<1>. DEFINE s == ask[a]
            rows == {m \in member : m.id \notin s.removed}
            Of(u) == {m.order : m \in {m \in rows : m.user = u}}
            next == [u \in Usr |-> NextOrder(Of(u))]
            new == [s EXCEPT !.step = "add", !.next = next]
<1>1. /\ Unended(a) /\ UNCHANGED <<project, member, overlaps>> /\ ask' = [ask EXCEPT ![a] = new]
      /\ s.step = "orders" /\ s.kind \in {"create", "update"}
  BY DEF GetNextMemberOrders, AtStep, Unended, Rest, Becomes
<1>2. s \in AskState /\ Formed(s) /\ Relies(s, member, project) /\ member \subseteq Member
  BY <1>1, AtWorkOn DEF PlacesInv, Keys
<1>3. ASSUME NEW u \in Usr PROVE Of(u) \in SUBSET Nat /\ IsFiniteSet(Of(u))
  <2>. DEFINE his == {m \in rows : m.user = u}
              f == [m \in his |-> m.order]
  <2>1. IsFiniteSet(his)
    <3>1. his \subseteq member
      OBVIOUS
    <3>. HIDE DEF his
    <3>. QED BY <3>1, FiniteRows, FS_Subset
  <2>2. \A m \in his : m.order \in Nat
    BY <1>2 DEF Member
  <2>. HIDE DEF his
  <2>3. f \in Surjection(his, {m.order : m \in his})
    BY DEF Surjection
  <2>. HIDE DEF f
  <2>4. IsFiniteSet({m.order : m \in his})
    BY <2>1, <2>3, FS_Surjection
  <2>. QED BY <2>2, <2>4 DEF his
<1>4. ASSUME NEW u \in Usr
      PROVE  next[u] \in Nat /\ \A m \in rows : m.user = u => m.order < next[u]
  <2>1. \A m \in rows : m.user = u => m.order \in Of(u)
    OBVIOUS
  <2>2. next[u] = NextOrder(Of(u))
    OBVIOUS
  <2>. HIDE DEF Of, next, rows
  <2>. QED BY <1>3, <2>1, <2>2, NextIsBeyond
<1>5. next \in [Usr -> Nat]
  BY <1>4
<1>. HIDE DEF next
<1>6. /\ new \in AskState /\ new.step = "add" /\ new.kind = s.kind /\ new.by = s.by
      /\ new.on = s.on /\ new.members = s.members /\ new.ids = s.ids /\ new.found = s.found
      /\ new.removed = s.removed /\ new.added = s.added /\ new.rows = s.rows /\ new.next = next
  BY <1>2, <1>5 DEF AskState
<1>. HIDE DEF new
<1>7. s.added = {}
  BY <1>1, <1>2 DEF Formed
<1>8. Formed(new)
  BY <1>1, <1>2, <1>6, <1>7 DEF Formed
<1>9. Relies(new, member, project)
  BY <1>1, <1>2, <1>6 DEF Relies
<1>10. ASSUME NEW u \in Usr, Places(s, u, member, project) PROVE Places(new, u, member, project)
  <2>1. u \in s.members => \A m \in member : m.user = u => m.order < next[u]
    BY <1>1, <1>2, <1>4 DEF Relies
  <2>. HIDE DEF rows
  <2>. QED BY <1>1, <1>6, <1>10, <2>1 DEF Places, NewOf
<1>11. \A o \in Ask \ {a} : new.rows \cap ask[o].rows = {}
  BY <1>6, TwoRequests
<1>. HIDE DEF s
<1>. QED BY <1>1, <1>6, <1>7, <1>8, <1>9, <1>10, <1>11, GoesOnInPlace DEF s

LEMMA AddMembersInPlace ==
    ASSUME PlacesInv, NEW a \in Ask, AddMembers(a) PROVE PlacesInv'
<1>. DEFINE s == ask[a]
            keys == Injection(NewMembers(a), (1..MaxRow) \ UsedIds)
            id == CHOOSE f \in keys : TRUE
            added == {[id |-> id[u], user |-> u, project |-> s.on, order |-> s.next[u]] :
                         u \in NewMembers(a)}
            new == [s EXCEPT !.step = "commit", !.added = added]
<1>1. /\ Unended(a) /\ UNCHANGED <<project, member, overlaps>> /\ ask' = [ask EXCEPT ![a] = new]
      /\ s.step = "add" /\ s.kind \in {"create", "update"} /\ keys # {}
  BY DEF AddMembers, AtStep, Unended, Rest, Becomes
<1>2. s \in AskState /\ Formed(s) /\ Relies(s, member, project)
  BY <1>1, AtWorkOn DEF PlacesInv
<1>3. /\ id \in [NewMembers(a) -> (1..MaxRow) \ UsedIds]
      /\ \A u, v \in NewMembers(a) : id[u] = id[v] => u = v
  <2>1. id \in keys
    BY <1>1
  <2>. HIDE DEF id
  <2>. QED BY <2>1 DEF Injection, IsInjective
<1>4. NewMembers(a) = NewOf(s) /\ NewMembers(a) \subseteq Usr
  BY <1>2 DEF NewMembers, NewOf, AskState
<1>. HIDE DEF id
<1>5. /\ added \subseteq Member
      /\ \A m \in added : /\ m.user \in NewOf(s) /\ m.project = s.on /\ m.order = s.next[m.user]
                          /\ m.id \notin UsedIds
      /\ \A m, n \in added : (m.id = n.id => m = n) /\ (m.user = n.user => m = n)
  BY <1>2, <1>3, <1>4 DEF AskState, Member
<1>. HIDE DEF added
<1>6. /\ new \in AskState /\ new.step = "commit" /\ new.kind = s.kind /\ new.by = s.by
      /\ new.on = s.on /\ new.members = s.members /\ new.ids = s.ids /\ new.found = s.found
      /\ new.removed = s.removed /\ new.added = added /\ new.rows = s.rows /\ new.next = s.next
  BY <1>2, <1>5 DEF AskState
<1>. HIDE DEF new
<1>7. s.added = {} /\ NewOf(new) = NewOf(s)
  BY <1>1, <1>2, <1>6 DEF Formed, NewOf
<1>8. Formed(new)
  BY <1>1, <1>2, <1>5, <1>6, <1>7 DEF Formed
<1>9. Relies(new, member, project)
  BY <1>1, <1>2, <1>6 DEF Relies
<1>10. ASSUME NEW u \in Usr, Places(s, u, member, project) PROVE Places(new, u, member, project)
  BY <1>1, <1>6, <1>7, <1>10 DEF Places
<1>11. \A o \in Ask \ {a} : new.rows \cap ask[o].rows = {}
  BY <1>6, TwoRequests
<1>12. \A m \in new.added : m.id \notin UsedIds
  BY <1>5, <1>6
<1>. HIDE DEF s
<1>. QED BY <1>1, <1>6, <1>7, <1>8, <1>9, <1>10, <1>11, <1>12, GoesOnInPlace DEF s

LEMMA SelectInPlace ==
    ASSUME PlacesInv, NEW a \in Ask, SelectMemberships(a) PROVE PlacesInv'
<1>. DEFINE s == ask[a]
            found == {m \in MembershipsOf(s.by) : ActiveProject(m.project)}
            new == [s EXCEPT !.step = "lock", !.found = found]
<1>1. /\ Unended(a) /\ UNCHANGED <<project, member, overlaps>> /\ ask' = [ask EXCEPT ![a] = new]
      /\ s.step = "select" /\ s.kind = "reorder"
  BY DEF SelectMemberships, AtStep, Unended, Rest, Becomes
<1>2. s \in AskState /\ Formed(s) /\ Relies(s, member, project) /\ member \subseteq Member
  BY <1>1, AtWorkOn DEF PlacesInv, Keys
<1>3. /\ found \subseteq member
      /\ \A m \in member : m.user = s.by /\ project[m.project] = "active" => m \in found
  BY DEF MembershipsOf, ActiveProject
<1>. HIDE DEF found
<1>4. /\ new \in AskState /\ new.step = "lock" /\ new.kind = s.kind /\ new.by = s.by
      /\ new.on = s.on /\ new.members = s.members /\ new.ids = s.ids /\ new.found = found
      /\ new.removed = s.removed /\ new.added = s.added /\ new.rows = s.rows
  BY <1>2, <1>3 DEF AskState
<1>. HIDE DEF new
<1>5. s.removed = {} /\ s.added = {}
  BY <1>1, <1>2 DEF Formed
<1>6. Formed(new) /\ Relies(new, member, project)
  BY <1>1, <1>2, <1>4, <1>5 DEF Formed, Relies
<1>7. ASSUME NEW u \in Usr PROVE Places(new, u, member, project)
  BY <1>1, <1>3, <1>4 DEF Places, Ids
<1>8. \A o \in Ask \ {a} : new.rows \cap ask[o].rows = {}
  BY <1>4, TwoRequests
<1>9. Ids(new.found) \subseteq Ids(member)
  BY <1>3, <1>4 DEF Ids
<1>. HIDE DEF s
<1>. QED BY <1>1, <1>4, <1>5, <1>6, <1>7, <1>8, <1>9, GoesOnInPlace DEF s

LEMMA LockInPlace ==
    ASSUME PlacesInv, NEW a \in Ask, LockMemberships(a) PROVE PlacesInv'
<1>. DEFINE s == ask[a]
            rows == {m \in MembershipsOf(s.by) :
                        m.id \in {f.id : f \in s.found} /\ ActiveProject(m.project)}
            ids == {m.id : m \in rows}
            projects == {m.project : m \in rows}
            new == [s EXCEPT !.step = "rows", !.found = rows, !.rows = ids, !.holds = projects]
<1>1. /\ Unended(a) /\ UNCHANGED <<project, member, overlaps>>
      /\ s.step = "lock" /\ s.kind = "reorder" /\ \A m \in s.found : ~ LockedRow(a, m.id)
  BY DEF LockMemberships, AtStep, Unended, Rest
<1>2. s \in AskState /\ Formed(s) /\ Relies(s, member, project) /\ member \subseteq Member
  BY <1>1, AtWorkOn DEF PlacesInv, Keys
<1>3. CASE Ended(a, "error")
  BY <1>1, <1>3, EndsInPlace
<1>4. CASE ~ Ended(a, "error")
  <2>1. /\ ask' = [ask EXCEPT ![a] = new]
        /\ Cardinality(rows) = Len(s.ids) /\ projects = Range(s.ids)
    BY <1>4 DEF LockMemberships, Becomes
  <2>2. /\ rows \subseteq member
        /\ \A m \in rows : m.id \in Ids(s.found) /\ m.user = s.by /\ project[m.project] = "active"
        /\ \A m \in member : m.user = s.by /\ project[m.project] = "active"
                             /\ m.id \in Ids(s.found) => m \in rows
    BY DEF MembershipsOf, ActiveProject, Ids
  <2>. HIDE DEF rows
  <2>3. ids = Ids(rows) /\ ids \subseteq 1..MaxRow /\ projects \subseteq Proj
    BY <1>2, <2>2 DEF Ids, Member
  <2>4. \A o \in Ask \ {a} : ids \cap ask[o].rows = {}
    BY <1>1, <2>2 DEF LockedRow, Ids
  <2>. DEFINE where == projects
  <2>5. where = {m.project : m \in rows}
    OBVIOUS
  <2>. HIDE DEF ids, where
  <2>6. /\ new \in AskState /\ new.step = "rows" /\ new.kind = s.kind /\ new.by = s.by
        /\ new.on = s.on /\ new.members = s.members /\ new.ids = s.ids /\ new.found = rows
        /\ new.removed = s.removed /\ new.added = s.added /\ new.rows = ids
        /\ new.holds = {m.project : m \in rows}
    BY <1>2, <2>2, <2>3 DEF AskState
  <2>. HIDE DEF new
  <2>7. s.removed = {} /\ s.added = {}
    BY <1>1, <1>2 DEF Formed
  <2>8. Formed(new)
    BY <1>1, <1>2, <2>1, <2>2, <2>3, <2>6, <2>7 DEF Formed
  <2>9. Relies(new, member, project)
    BY <1>1, <2>2, <2>6 DEF Relies
  <2>10. ASSUME NEW u \in Usr, Places(s, u, member, project) PROVE Places(new, u, member, project)
    <3>1. ASSUME new.by = u, NEW m \in member, NEW n \in member, m.user = u, n.user = u,
                 project[m.project] = "active", project[n.project] = "active",
                 m.id \in Ids(rows), n.id \notin Ids(rows)
          PROVE  m.order < n.order
      <4>1. m.id \in Ids(s.found)
        BY <2>2, <3>1 DEF Ids
      <4>2. n.id \notin Ids(s.found)
        BY <2>2, <2>6, <3>1 DEF Ids
      <4>. QED BY <1>1, <2>6, <2>10, <3>1, <4>1, <4>2 DEF Places
    <3>. QED BY <1>1, <2>6, <3>1 DEF Places
  <2>11. Ids(rows) \subseteq Ids(member)
    BY <2>2 DEF Ids
  <2>. HIDE DEF s
  <2>. QED BY <1>1, <2>1, <2>4, <2>6, <2>7, <2>8, <2>9, <2>10, <2>11, GoesOnInPlace DEF s
<1>. QED BY <1>3, <1>4

----------------------------------------------------------------------------
(* The steps that change the rows or the projects end the request, or its transaction. *)

\* What a request that is over leaves behind.
Ceased(s, new) ==
    /\ new \in AskState /\ new.step \in {"read", "done"} /\ new.rows = {}
    /\ new.kind = s.kind /\ new.by = s.by /\ new.on = s.on /\ new.members = s.members
    /\ new.ids = s.ids /\ new.found = s.found /\ new.removed = s.removed /\ new.added = s.added

LEMMA OverInPlace ==
    ASSUME PlacesInv, NEW a \in Ask, Unended(a), NEW new, ask' = [ask EXCEPT ![a] = new],
           Ceased(ask[a], new), UNCHANGED overlaps
    PROVE  /\ ask' \in [Ask -> AskState] /\ ask'[a] = new
           /\ \A o \in Ask \ {a} : ask'[o] = ask[o]
           /\ Apart' /\ UsedIds' = UsedIds /\ \A o \in Ask : Formed(ask'[o])
           /\ \A o \in Ask : ask'[o].removed = ask[o].removed /\ ask'[o].found = ask[o].found
                             /\ ask'[o].added = ask[o].added
           /\ \A u \in Usr : Orderly(u)' => Orderly(u)
<1>1. ask \in [Ask -> AskState] /\ Formed(ask[a]) /\ ask[a].kind # "none"
  BY AtWorkOn DEF PlacesInv
<1>2. ask' \in [Ask -> AskState] /\ ask'[a] = new /\ \A o \in Ask \ {a} : ask'[o] = ask[o]
  BY <1>1 DEF Ceased
<1>3. \A o \in Ask : /\ ask'[o].kind = ask[o].kind /\ ask'[o].by = ask[o].by
                     /\ ask'[o].on = ask[o].on /\ ask'[o].members = ask[o].members
                     /\ ask'[o].removed = ask[o].removed /\ ask'[o].found = ask[o].found
                     /\ ask'[o].added = ask[o].added
                     /\ ask'[o].rows \subseteq ask[o].rows
  BY <1>2 DEF Ceased
<1>4. \A o \in Ask : Unended(o)' => Unended(o)
  BY <1>2 DEF Unended
<1>5. Apart'
  <2>1. \A pair \in overlaps : \A o \in pair : o \in Ask /\ ask'[o].kind # "none"
    BY <1>3 DEF PlacesInv, Apart
  <2>2. ASSUME NEW o \in Ask, NEW p \in Ask, o # p
        PROVE  /\ Unended(o)' /\ Unended(p)' => {o, p} \in overlaps
               /\ ask'[o].kind = "create" /\ ask'[p].kind = "create" => ask'[o].on # ask'[p].on
    BY <1>3, <1>4, <2>2, TwoRequests
  <2>3. ASSUME NEW o \in Ask, NEW p \in Ask, o # p
        PROVE  /\ ask'[o].rows \cap ask'[p].rows = {}
               /\ \A m \in ask'[o].added, n \in ask'[p].added : m.id # n.id
    <3>1. /\ ask[o].rows \cap ask[p].rows = {}
          /\ \A m \in ask[o].added, n \in ask[p].added : m.id # n.id
      BY <2>3, TwoRequests
    <3>. QED BY <1>3, <3>1
  <2>. QED BY <2>1, <2>2, <2>3 DEF Apart
<1>6. UsedIds' = UsedIds
  BY <1>3 DEF UsedIds
<1>7. Formed(new)
  BY <1>1 DEF Ceased, Formed
<1>8. \A o \in Ask : Formed(ask'[o])
  BY <1>2, <1>7 DEF PlacesInv
<1>9. ASSUME NEW u \in Usr, Orderly(u)' PROVE Orderly(u)
  BY <1>3, <1>9 DEF Orderly, PlacesInv, Apart
<1>. QED BY <1>2, <1>3, <1>5, <1>6, <1>8, <1>9

\* The end of a request is one.
LEMMA EndedIsOver ==
    ASSUME PlacesInv, NEW a \in Ask, Unended(a), NEW answer \in {"ok", "error", "yes", "no"},
           Ended(a, answer)
    PROVE  \E new : ask' = [ask EXCEPT ![a] = new] /\ Ceased(ask[a], new) /\ new.step = "done"
<1>. DEFINE new == [ask[a] EXCEPT !.step = "done", !.answer = answer, !.holds = {}, !.rows = {}]
<1>1. ask[a] \in AskState
  BY AtWorkOn
<1>2. ask' = [ask EXCEPT ![a] = new]
  BY DEF Ended, Becomes
<1>3. Ceased(ask[a], new) /\ new.step = "done"
  BY <1>1 DEF Ceased, AskState
<1>. HIDE DEF new
<1>. QED BY <1>2, <1>3

LEMMA DestroyInPlace ==
    ASSUME PlacesInv, NEW a \in Ask, DestroyProject(a) PROVE PlacesInv'
<1>. DEFINE p == ask[a].on
<1>1. /\ Unended(a) /\ UNCHANGED <<member, overlaps>> /\ Ended(a, "ok") /\ ask[a].kind = "delete"
      /\ ~ LockedProject(a, p) /\ project' = [project EXCEPT ![p] = "archived"]
  BY DEF DestroyProject, AtStep, Unended, History
<1>2. PICK new : ask' = [ask EXCEPT ![a] = new] /\ Ceased(ask[a], new) /\ new.step = "done"
  BY <1>1, EndedIsOver
<1>3. /\ ask' \in [Ask -> AskState] /\ ask'[a] = new /\ \A o \in Ask \ {a} : ask'[o] = ask[o]
      /\ Apart' /\ UsedIds' = UsedIds /\ \A o \in Ask : Formed(ask'[o])
      /\ \A o \in Ask : ask'[o].removed = ask[o].removed /\ ask'[o].found = ask[o].found
                        /\ ask'[o].added = ask[o].added
      /\ \A u \in Usr : Orderly(u)' => Orderly(u)
  BY <1>1, <1>2, OverInPlace
<1>4. /\ project \in [Proj -> {"absent", "active", "archived"}] /\ p \in Proj
      /\ project[p] # "absent" /\ ask[a] \in AskState
  BY <1>1, AtWorkOn DEF PlacesInv, Relies, AskState
<1>. HIDE DEF p
<1>5. /\ project' \in [Proj -> {"absent", "active", "archived"}]
      /\ \A q \in Proj : /\ project'[q] = "absent" <=> project[q] = "absent"
                         /\ project'[q] = "active" => project[q] = "active"
                         /\ q # p => project'[q] = project[q]
  BY <1>1, <1>4
<1>6. Keys'
  <2>1. \A o \in Ask : ask'[o].step = "commit" => ask[o].step = "commit"
    BY <1>2, <1>3
  <2>2. \A m \in member : m.project \in Proj
    BY DEF PlacesInv, Keys, Member
  <2>. QED BY <1>1, <1>3, <1>5, <2>1, <2>2 DEF PlacesInv, Keys, Ids
<1>7. ASSUME NEW o \in Ask PROVE Relies(ask'[o], member, project')
  <2>1. CASE o = a
    <3>1. new.on = p /\ new.kind = "delete" /\ new.step = "done" /\ ask'[o] = new
      BY <1>1, <1>2, <1>3, <2>1 DEF Ceased, p
    <3>. QED BY <1>4, <1>5, <3>1 DEF Relies
  <2>2. CASE o # a
    <3>1. ask'[o] = ask[o] /\ Relies(ask[o], member, project) /\ Formed(ask[o])
          /\ ask[o].on \in Proj
      BY <1>3, <2>2 DEF PlacesInv, AskState
    <3>2. ask[o].step = "rows" => \A m \in ask[o].found : project'[m.project] = "active"
      <4>. SUFFICES ASSUME ask[o].step = "rows", NEW m \in ask[o].found
                    PROVE  project'[m.project] = "active"
        OBVIOUS
      <4>1. m.project \in ask[o].holds /\ project[m.project] = "active" /\ m \in member
        BY <3>1 DEF Formed, Relies
      <4>2. m.project # p /\ m.project \in Proj
        BY <1>1, <2>2, <4>1 DEF LockedProject, p, PlacesInv, Keys, Member
      <4>. QED BY <1>5, <4>1, <4>2
    <3>. QED BY <1>5, <3>1, <3>2 DEF Relies
  <2>. QED BY <2>1, <2>2
<1>8. ASSUME NEW u \in Usr, Orderly(u)'
      PROVE  InPlace(u, member, project') /\ \A o \in Ask : Places(ask'[o], u, member, project')
  <2>1. InPlace(u, member, project) /\ \A o \in Ask : Places(ask[o], u, member, project)
    BY <1>3, <1>8 DEF PlacesInv
  <2>2. \A m \in member : project'[m.project] = "active" => project[m.project] = "active"
    BY <1>5 DEF PlacesInv, Keys, Member
  <2>3. InPlace(u, member, project')
    BY <2>1, <2>2 DEF InPlace
  <2>4. ASSUME NEW o \in Ask, o # a PROVE Places(ask'[o], u, member, project')
    <3>1. Places(ask[o], u, member, project) /\ ask'[o] = ask[o]
      BY <1>3, <2>1, <2>4
    <3>. QED BY <2>2, <3>1 DEF Places
  <2>5. Places(new, u, member, project')
    BY <1>1, <1>2 DEF Places, Ceased
  <2>. QED BY <1>3, <2>3, <2>4, <2>5
<1>. QED BY <1>1, <1>3, <1>5, <1>6, <1>7, <1>8 DEF PlacesInv, InPlace, Places, Relies

LEMMA UpdateOrdersInPlace ==
    ASSUME PlacesInv, NEW a \in Ask, UpdateOrders(a) PROVE PlacesInv'
<1>. DEFINE s == ask[a]
            mine == {m \in MembershipsOf(s.by) : m.project \in Range(s.ids)}
            New(m) == [m EXCEPT !.order = PlaceIn(s.ids, m.project)]
<1>1. /\ Unended(a) /\ UNCHANGED <<project, overlaps>> /\ Ended(a, "ok")
      /\ s.kind = "reorder" /\ s.step = "rows" /\ \A m \in mine : ~ LockedRow(a, m.id)
      /\ member' = (member \ mine) \cup {New(m) : m \in mine}
  BY DEF UpdateOrders, AtStep, Unended, History
<1>2. PICK new : ask' = [ask EXCEPT ![a] = new] /\ Ceased(ask[a], new) /\ new.step = "done"
  BY <1>1, EndedIsOver
<1>3. /\ ask' \in [Ask -> AskState] /\ ask'[a] = new /\ \A o \in Ask \ {a} : ask'[o] = ask[o]
      /\ Apart' /\ UsedIds' = UsedIds /\ \A o \in Ask : Formed(ask'[o])
      /\ \A o \in Ask : ask'[o].removed = ask[o].removed /\ ask'[o].found = ask[o].found
                        /\ ask'[o].added = ask[o].added
      /\ \A u \in Usr : Orderly(u)' => Orderly(u)
  BY <1>1, <1>2, OverInPlace
<1>4. s \in AskState /\ Formed(s) /\ Relies(s, member, project) /\ member \subseteq Member
      /\ project \in [Proj -> {"absent", "active", "archived"}]
  BY <1>1, AtWorkOn DEF PlacesInv, Keys
<1>5. Len(s.ids) \in Nat /\ s.ids \in Injection(1..Len(s.ids), Proj)
  BY <1>4 DEF Formed, AskState
<1>6. /\ mine \subseteq member /\ \A m \in mine : m.user = s.by /\ m.project \in Range(s.ids)
      /\ \A m \in member : m.user = s.by /\ m.project \in Range(s.ids) => m \in mine
  BY DEF MembershipsOf
<1>. HIDE DEF mine
<1>7. ASSUME NEW m \in mine
      PROVE  /\ New(m) \in Member /\ New(m).id = m.id /\ New(m).user = m.user
             /\ New(m).project = m.project /\ New(m).order = PlaceIn(s.ids, m.project)
             /\ New(m).order \in Nat /\ New(m).order < Len(s.ids)
             /\ s.ids[New(m).order + 1] = m.project
  <2>1. m \in Member
    BY <1>4, <1>6
  <2>2. /\ PlaceIn(s.ids, m.project) \in Nat /\ PlaceIn(s.ids, m.project) < Len(s.ids)
        /\ s.ids[PlaceIn(s.ids, m.project) + 1] = m.project
    BY <1>5, <1>6, PlaceAmong
  <2>. QED BY <2>1, <2>2 DEF Member
<1>. HIDE DEF New
\* Each row afterwards is one there was, with its place or a new one.
<1>8. ASSUME NEW n \in member'
      PROVE  \/ n \in member \ mine
             \/ \E m \in mine : /\ n = New(m) /\ n.id = m.id /\ n.user = m.user
                              /\ n.project = m.project
  BY <1>1, <1>7
<1>9. \A n \in member' : \E m \in member : n.id = m.id /\ n.user = m.user /\ n.project = m.project
  BY <1>6, <1>8
<1>10. member' \subseteq Member /\ Ids(member') \subseteq Ids(member)
  BY <1>4, <1>7, <1>8, <1>9 DEF Ids
<1>11. \A m, n \in member' : m.id = n.id => m = n
  <2>. SUFFICES ASSUME NEW m \in member', NEW n \in member', m.id = n.id PROVE m = n
    OBVIOUS
  <2>0. \A i, j \in member : i.id = j.id => i = j
    BY DEF PlacesInv, Keys
  <2>1. CASE m \in member \ mine /\ n \in member \ mine
    BY <2>0, <2>1
  <2>2. CASE m \in member \ mine /\ n \notin member \ mine
    <3>1. PICK j \in mine : n = New(j) /\ n.id = j.id
      BY <1>8, <2>2
    <3>. QED BY <1>6, <2>0, <2>2, <3>1
  <2>3. CASE m \notin member \ mine /\ n \in member \ mine
    <3>1. PICK j \in mine : m = New(j) /\ m.id = j.id
      BY <1>8, <2>3
    <3>. QED BY <1>6, <2>0, <2>3, <3>1
  <2>4. CASE m \notin member \ mine /\ n \notin member \ mine
    <3>1. PICK i \in mine : m = New(i) /\ m.id = i.id
      BY <1>8, <2>4
    <3>2. PICK j \in mine : n = New(j) /\ n.id = j.id
      BY <1>8, <2>4
    <3>. QED BY <1>6, <2>0, <3>1, <3>2
  <2>. QED BY <2>1, <2>2, <2>3, <2>4
<1>12. Keys'
  <2>1. \A o \in Ask : ask'[o].step = "commit" => ask[o].step = "commit"
    BY <1>2, <1>3
  <2>2. \A n \in member' : n.id \in UsedIds /\ project[n.project] # "absent"
    BY <1>9 DEF PlacesInv, Keys
  <2>3. \A o \in Ask : ask[o].removed \cup Ids(ask[o].found) \subseteq UsedIds
    BY DEF PlacesInv, Keys
  <2>4. \A o \in Ask : ask[o].step = "commit" => \A m \in ask[o].added :
           /\ m.id \notin Ids(member)
           /\ \A p \in Ask : m.id \notin ask[p].removed \cup Ids(ask[p].found)
    BY DEF PlacesInv, Keys
  <2>. QED BY <1>1, <1>3, <1>10, <1>11, <2>1, <2>2, <2>3, <2>4 DEF Keys, Ids
<1>13. ASSUME NEW o \in Ask PROVE Relies(ask'[o], member', project)
  <2>1. CASE o = a
    BY <1>1, <1>2, <1>3, <2>1 DEF Relies, Ceased
  <2>2. CASE o # a
    <3>1. ask'[o] = ask[o] /\ Relies(ask[o], member, project) /\ Formed(ask[o])
      BY <1>3, <2>2 DEF PlacesInv
    <3>2. ask[o].step = "rows" => ask[o].found \subseteq member'
      <4>. SUFFICES ASSUME ask[o].step = "rows", NEW m \in ask[o].found PROVE m \in member'
        OBVIOUS
      <4>1. m \in member /\ m.id \in ask[o].rows
        BY <3>1 DEF Relies, Formed, Ids
      <4>2. m \notin mine
        BY <1>1, <2>2, <4>1 DEF LockedRow
      <4>. QED BY <1>1, <4>1, <4>2
    <3>3. \A m \in member' : m.id \in ask[o].removed /\ ask[o].step \in {"orders", "add", "commit"}
             => m.user \notin ask[o].members
      BY <1>9, <3>1 DEF Relies
    <3>. QED BY <3>1, <3>2, <3>3 DEF Relies
  <2>. QED BY <2>1, <2>2
<1>14. ASSUME NEW u \in Usr, Orderly(u), u # s.by
       PROVE  InPlace(u, member', project) /\ \A o \in Ask : Places(ask'[o], u, member', project)
  <2>1. InPlace(u, member, project) /\ \A o \in Ask : Places(ask[o], u, member, project)
    BY <1>14 DEF PlacesInv
  <2>2. \A m \in member' : m.user = u => m \in member
    BY <1>6, <1>8, <1>14
  <2>3. InPlace(u, member', project)
    BY <2>1, <2>2 DEF InPlace
  <2>4. ASSUME NEW o \in Ask, o # a PROVE Places(ask'[o], u, member', project)
    <3>1. Places(ask[o], u, member, project) /\ ask'[o] = ask[o]
      BY <1>3, <2>1, <2>4
    <3>. QED BY <2>2, <3>1 DEF Places
  <2>5. Places(new, u, member', project)
    BY <1>1, <1>2 DEF Places, Ceased
  <2>. QED BY <1>3, <2>3, <2>4, <2>5
\* The rows of the user who orders them.
<1>15. ASSUME NEW u \in Usr, Orderly(u), u = s.by
       PROVE  InPlace(u, member', project) /\ \A o \in Ask : Places(ask'[o], u, member', project)
  <2>1. InPlace(u, member, project) /\ \A o \in Ask : Places(ask[o], u, member, project)
    BY <1>15 DEF PlacesInv
  <2>2. mine = s.found
    <3>1. /\ s.found \subseteq member /\ \A m \in s.found : m.user = s.by /\ m.project \in Range(s.ids)
      BY <1>1, <1>4 DEF Formed, Relies
    <3>2. ASSUME NEW m \in mine PROVE m \in s.found
      <4>1. PICK f \in s.found : f.project = m.project
        BY <1>1, <1>4, <1>6 DEF Formed
      <4>2. f = m
        BY <1>6, <1>15, <2>1, <3>1, <4>1 DEF InPlace
      <4>. QED BY <4>1, <4>2
    <3>. QED BY <1>6, <3>1, <3>2
  <2>3. /\ \A m \in mine : project[m.project] = "active" /\ m.id \in Ids(s.found)
        /\ Cardinality(mine) = Len(s.ids)
    BY <1>1, <1>4, <2>2 DEF Formed, Relies, Ids
  <2>4. \A m, n \in mine : m # n => m.order # n.order
    BY <1>6, <1>15, <2>1, <2>3 DEF InPlace
  <2>5. ASSUME NEW b \in Nat, \A m \in mine : m.order < b PROVE Len(s.ids) <= b
    <3>1. mine \in SUBSET Member
      BY <1>4, <1>6
    <3>. QED BY <2>3, <2>4, <2>5, <3>1, FewerThanTheBound
  <2>6. ASSUME NEW n \in member \ mine, n.user = u, project[n.project] = "active"
        PROVE  Len(s.ids) <= n.order
    <3>1. n.id \notin Ids(s.found)
      <4>. SUFFICES ASSUME NEW f \in s.found, f.id = n.id PROVE FALSE
        BY DEF Ids
      <4>1. f \in mine /\ f \in member
        BY <1>6, <2>2
      <4>. QED BY <2>6, <4>1 DEF PlacesInv, Keys
    <3>2. \A m \in mine : m.order < n.order
      BY <1>1, <1>6, <1>15, <2>1, <2>3, <2>6, <3>1 DEF Places
    <3>3. n.order \in Nat
      BY <1>4 DEF Member
    <3>. QED BY <2>5, <3>2, <3>3
  <2>7. ASSUME NEW m \in member', NEW n \in member', m.user = u, n.user = u, m # n
        PROVE  /\ m.project # n.project
               /\ project[m.project] = "active" /\ project[n.project] = "active"
                  => m.order # n.order
    <3>1. CASE m \in member \ mine /\ n \in member \ mine
      BY <2>1, <2>7, <3>1 DEF InPlace
    <3>2. CASE m \in member \ mine /\ n \notin member \ mine
      <4>1. PICK j \in mine : n = New(j) /\ n.id = j.id /\ n.user = j.user /\ n.project = j.project
        BY <1>8, <3>2
      <4>2. n.order < Len(s.ids) /\ n.order \in Nat /\ m.order \in Nat
        BY <1>4, <1>7, <3>2, <4>1 DEF Member
      <4>3. j \in member /\ j # m /\ m.project # j.project
        BY <1>6, <2>1, <2>7, <3>2, <4>1 DEF InPlace
      <4>4. project[m.project] = "active" => Len(s.ids) <= m.order
        BY <2>6, <2>7, <3>2
      <4>. QED BY <1>5, <4>1, <4>2, <4>3, <4>4
    <3>3. CASE m \notin member \ mine /\ n \in member \ mine
      <4>1. PICK j \in mine : m = New(j) /\ m.id = j.id /\ m.user = j.user /\ m.project = j.project
        BY <1>8, <3>3
      <4>2. m.order < Len(s.ids) /\ m.order \in Nat /\ n.order \in Nat
        BY <1>4, <1>7, <3>3, <4>1 DEF Member
      <4>3. j \in member /\ j # n /\ n.project # j.project
        BY <1>6, <2>1, <2>7, <3>3, <4>1 DEF InPlace
      <4>4. project[n.project] = "active" => Len(s.ids) <= n.order
        BY <2>6, <2>7, <3>3
      <4>. QED BY <1>5, <4>1, <4>2, <4>3, <4>4
    <3>4. CASE m \notin member \ mine /\ n \notin member \ mine
      <4>1. PICK i \in mine : m = New(i) /\ m.project = i.project
        BY <1>8, <3>4
      <4>2. PICK j \in mine : n = New(j) /\ n.project = j.project
        BY <1>8, <3>4
      <4>3. i # j /\ i.project # j.project
        BY <1>6, <1>15, <2>1, <2>7, <4>1, <4>2 DEF InPlace
      <4>4. s.ids[m.order + 1] = i.project /\ s.ids[n.order + 1] = j.project
        BY <1>7, <4>1, <4>2
      <4>. QED BY <4>1, <4>2, <4>3, <4>4
    <3>. QED BY <3>1, <3>2, <3>3, <3>4
  <2>8. ASSUME NEW o \in Ask, o # a PROVE Places(ask'[o], u, member', project)
    <3>1. Places(ask[o], u, member, project) /\ ask'[o] = ask[o] /\ Formed(ask[o])
          /\ ask[o] \in AskState
      BY <1>3, <2>1, <2>8 DEF PlacesInv
    <3>2. ~ (ask[o].kind = "reorder" /\ ask[o].by = u /\ ask[o].step \in {"lock", "rows"})
      <4>. SUFFICES ASSUME ask[o].kind = "reorder", ask[o].by = u, ask[o].step \in {"lock", "rows"}
                    PROVE  FALSE
        OBVIOUS
      <4>1. Unended(o)
        BY DEF Unended
      <4>2. {a, o} \in overlaps
        BY <1>1, <2>8, <4>1, TwoRequests
      <4>. QED BY <1>1, <1>15, <4>2 DEF Orderly
    <3>3. ASSUME u \in ask[o].members, ask[o].step \in {"add", "commit"}, NEW n \in member',
                 n.user = u
          PROVE  n.order < ask[o].next[u]
      <4>1. ask[o].next[u] \in Nat /\ \A m \in member : m.user = u => m.order < ask[o].next[u]
        BY <3>1, <3>3 DEF Places, AskState
      <4>2. CASE n \in member \ mine
        BY <3>3, <4>1, <4>2
      <4>3. CASE n \notin member \ mine
        <5>1. PICK j \in mine : n = New(j)
          BY <1>8, <4>3
        <5>2. n.order < Len(s.ids) /\ n.order \in Nat
          BY <1>7, <5>1
        <5>3. Len(s.ids) <= ask[o].next[u]
          BY <1>6, <1>15, <2>5, <4>1
        <5>. QED BY <1>5, <4>1, <5>2, <5>3
      <4>. QED BY <4>2, <4>3
    <3>4. ASSUME ask[o].kind = "update", u \in NewOf(ask[o]),
                 ask[o].step \in {"remove", "orders", "add", "commit"}, NEW n \in member', n.user = u
          PROVE  n.project # ask[o].on
      BY <1>9, <3>1, <3>4 DEF Places
    <3>. QED BY <3>1, <3>2, <3>3, <3>4 DEF Places
  <2>9. Places(new, u, member', project)
    BY <1>1, <1>2 DEF Places, Ceased
  <2>. QED BY <1>3, <2>7, <2>8, <2>9 DEF InPlace
<1>. QED BY <1>1, <1>3, <1>4, <1>12, <1>13, <1>14, <1>15 DEF PlacesInv, InPlace, Places, Relies

LEMMA CommitInPlace ==
    ASSUME PlacesInv, NEW a \in Ask, CommitMembers(a) PROVE PlacesInv'
<1>. DEFINE s == ask[a]
            new == [s EXCEPT !.step = "read", !.holds = {}, !.rows = {}]
            old == {m \in member : m.id \notin s.removed}
<1>1. /\ Unended(a) /\ UNCHANGED overlaps /\ ask' = [ask EXCEPT ![a] = new]
      /\ s.step = "commit" /\ s.kind \in {"create", "update"} /\ member' = old \cup s.added
      /\ project' = [project EXCEPT ![s.on] = IF s.kind = "create" THEN "active" ELSE @]
  BY DEF CommitMembers, AtStep, Unended, Becomes, History
<1>2. s \in AskState /\ Formed(s) /\ Relies(s, member, project) /\ member \subseteq Member
      /\ project \in [Proj -> {"absent", "active", "archived"}]
  BY <1>1, AtWorkOn DEF PlacesInv, Keys
<1>3. Ceased(s, new) /\ new.step = "read"
  BY <1>2 DEF Ceased, AskState
<1>. HIDE DEF new
<1>4. /\ ask' \in [Ask -> AskState] /\ ask'[a] = new /\ \A o \in Ask \ {a} : ask'[o] = ask[o]
      /\ Apart' /\ UsedIds' = UsedIds /\ \A o \in Ask : Formed(ask'[o])
      /\ \A o \in Ask : ask'[o].removed = ask[o].removed /\ ask'[o].found = ask[o].found
                        /\ ask'[o].added = ask[o].added
      /\ \A u \in Usr : Orderly(u)' => Orderly(u)
  BY <1>1, <1>3, OverInPlace
<1>5. /\ old \subseteq member /\ s.added \subseteq Member /\ s.on \in Proj
      /\ \A m \in s.added : /\ m.user \in NewOf(s) /\ m.user \in s.members /\ m.project = s.on
                            /\ m.order = s.next[m.user] /\ m.id \in UsedIds
                            /\ m.id \notin Ids(member)
                            /\ \A o \in Ask : m.id \notin ask[o].removed \cup Ids(ask[o].found)
      /\ \A m, n \in s.added : (m.id = n.id => m = n) /\ (m.user = n.user => m = n)
  <2>1. s.added \subseteq Member /\ s.on \in Proj
    BY <1>2 DEF AskState
  <2>2. \A m \in s.added : m.user \in NewOf(s) /\ m.project = s.on /\ m.order = s.next[m.user]
    BY <1>1, <1>2 DEF Formed
  <2>3. \A m \in s.added : m.user \in s.members
    BY <2>2 DEF NewOf
  <2>4. \A m \in s.added : m.id \in UsedIds
    BY DEF UsedIds
  <2>5. \A m \in s.added : /\ m.id \notin Ids(member)
                           /\ \A o \in Ask : m.id \notin ask[o].removed \cup Ids(ask[o].found)
    BY <1>1 DEF PlacesInv, Keys
  <2>6. \A m, n \in s.added : (m.id = n.id => m = n) /\ (m.user = n.user => m = n)
    BY <1>1, <1>2 DEF Formed
  <2>. QED BY <2>1, <2>2, <2>3, <2>4, <2>5, <2>6
<1>6. /\ project' \in [Proj -> {"absent", "active", "archived"}]
      /\ \A p \in Proj : /\ project[p] # "absent" => project'[p] = project[p]
                         /\ p # s.on => project'[p] = project[p]
      /\ project'[s.on] # "absent"
  BY <1>1, <1>2, <1>5 DEF Relies
\* A row there was had a project, which is as it was.
<1>7. \A m \in member : m.project \in Proj /\ project[m.project] # "absent"
                        /\ project'[m.project] = project[m.project]
  BY <1>2, <1>6 DEF PlacesInv, Keys, Member
<1>. HIDE DEF old
<1>8. Keys'
  <2>1. member' \subseteq Member
    BY <1>1, <1>2, <1>5
  <2>2. \A m \in member' : m.id \in UsedIds /\ project'[m.project] # "absent"
    <3>1. \A m \in member : m.id \in UsedIds
      BY DEF PlacesInv, Keys
    <3>. QED BY <1>1, <1>5, <1>6, <1>7, <3>1
  <2>3. \A m, n \in member' : m.id = n.id => m = n
    <3>1. \A m, n \in member : m.id = n.id => m = n
      BY DEF PlacesInv, Keys
    <3>2. \A m \in s.added, n \in member : m.id # n.id
      BY <1>5 DEF Ids
    <3>. QED BY <1>1, <1>5, <3>1, <3>2
  <2>4. \A o \in Ask : ask'[o].step = "commit" => o # a /\ ask[o].step = "commit"
    BY <1>3, <1>4
  <2>5. ASSUME NEW o \in Ask, ask'[o].step = "commit", NEW m \in ask[o].added
        PROVE  /\ m.id \notin Ids(member')
               /\ \A p \in Ask : m.id \notin ask[p].removed \cup Ids(ask[p].found)
    <3>1. /\ m.id \notin Ids(member)
          /\ \A p \in Ask : m.id \notin ask[p].removed \cup Ids(ask[p].found)
      BY <2>4, <2>5 DEF PlacesInv, Keys
    <3>2. \A n \in s.added : m.id # n.id
      BY <2>4, <2>5, TwoRequests
    <3>. QED BY <1>1, <1>5, <3>1, <3>2 DEF Ids
  <2>6. \A o \in Ask : ask[o].removed \cup Ids(ask[o].found) \subseteq UsedIds
    BY DEF PlacesInv, Keys
  <2>. QED BY <1>4, <2>1, <2>2, <2>3, <2>5, <2>6 DEF Keys
<1>9. ASSUME NEW o \in Ask PROVE Relies(ask'[o], member', project')
  <2>1. CASE o = a
    <3>1. new.on = s.on /\ new.kind = s.kind /\ new.step = "read" /\ ask'[o] = new
      BY <1>3, <1>4, <2>1 DEF Ceased
    <3>. QED BY <1>6, <3>1 DEF Relies
  <2>2. CASE o # a
    <3>1. ask'[o] = ask[o] /\ Relies(ask[o], member, project) /\ Formed(ask[o])
          /\ ask[o].on \in Proj
      BY <1>4, <2>2 DEF PlacesInv, AskState
    <3>2. ask[o].kind = "create" /\ ask[o].step \notin {"read", "done"} => project'[ask[o].on] = "absent"
      <4>. SUFFICES ASSUME ask[o].kind = "create", ask[o].step \notin {"read", "done"}
                    PROVE  project'[ask[o].on] = "absent"
        OBVIOUS
      <4>1. project[ask[o].on] = "absent"
        BY <3>1 DEF Relies
      <4>2. s.kind = "create" => ask[o].on # s.on
        BY <2>2, TwoRequests
      <4>3. s.kind = "update" => ask[o].on # s.on
        BY <1>2, <4>1 DEF Relies
      <4>. QED BY <1>1, <1>6, <3>1, <4>1, <4>2, <4>3
    <3>3. ask[o].kind \in {"update", "delete"} => project'[ask[o].on] # "absent"
      BY <1>6, <3>1 DEF Relies
    <3>4. ask[o].step \in {"orders", "add", "commit"} =>
             \A m \in member' : m.id \in ask[o].removed => m.user \notin ask[o].members
      <4>1. \A m \in s.added : m.id \notin ask[o].removed
        BY <1>5
      <4>. QED BY <1>1, <1>5, <3>1, <4>1 DEF Relies
    <3>5. ask[o].step = "rows" => /\ ask[o].found \subseteq member'
                                  /\ \A m \in ask[o].found : project'[m.project] = "active"
      <4>. SUFFICES ASSUME ask[o].step = "rows", NEW m \in ask[o].found
                    PROVE  m \in member' /\ project'[m.project] = "active"
        OBVIOUS
      <4>1. m \in member /\ project[m.project] = "active" /\ m.id \in ask[o].rows
        BY <3>1 DEF Relies, Formed, Ids
      <4>2. s.removed \subseteq s.rows
        BY <1>1, <1>2 DEF Formed
      <4>3. s.rows \cap ask[o].rows = {}
        BY <2>2, TwoRequests
      <4>4. m.id \notin s.removed
        BY <4>1, <4>2, <4>3
      <4>. QED BY <1>1, <1>7, <4>1, <4>4 DEF old
    <3>. QED BY <3>1, <3>2, <3>3, <3>4, <3>5 DEF Relies
  <2>. QED BY <2>1, <2>2
<1>10. ASSUME NEW u \in Usr, Orderly(u)
       PROVE  InPlace(u, member', project') /\ \A o \in Ask : Places(ask'[o], u, member', project')
  <2>1. InPlace(u, member, project) /\ \A o \in Ask : Places(ask[o], u, member, project)
    BY <1>10 DEF PlacesInv
\* A new row of the user is beyond the others, of another project.
  <2>2. ASSUME NEW n \in s.added, n.user = u
        PROVE  \A m \in member : m.user = u =>
                  /\ m.order < n.order /\ m.order \in Nat /\ n.order \in Nat
                  /\ m.project # n.project
    <3>1. n.order \in Nat /\ n.order = s.next[u] /\ n.project = s.on /\ u \in s.members
          /\ u \in NewOf(s)
      BY <1>5, <2>2 DEF Member
    <3>2. \A m \in member : m.user = u => m.order < n.order /\ m.order \in Nat
      BY <1>1, <1>2, <2>1, <3>1 DEF Places, Member
    <3>3. s.kind = "update" => \A m \in member : m.user = u => m.project # n.project
      BY <1>1, <2>1, <3>1 DEF Places
    <3>4. s.kind = "create" => \A m \in member : m.project # n.project
      BY <1>1, <1>2, <1>7, <3>1 DEF Relies
    <3>. QED BY <1>1, <3>1, <3>2, <3>3, <3>4
  <2>3. ASSUME NEW m \in member', NEW n \in member', m.user = u, n.user = u, m # n
        PROVE  /\ m.project # n.project
               /\ project'[m.project] = "active" /\ project'[n.project] = "active"
                  => m.order # n.order
    <3>1. CASE m \in member /\ n \in member
      BY <1>7, <2>1, <2>3, <3>1 DEF InPlace
    <3>2. CASE m \in member /\ n \notin member
      <4>1. n \in s.added
        BY <1>1, <1>5, <3>2
      <4>. QED BY <2>2, <2>3, <3>2, <4>1
    <3>3. CASE m \notin member /\ n \in member
      <4>1. m \in s.added
        BY <1>1, <1>5, <3>3
      <4>. QED BY <2>2, <2>3, <3>3, <4>1
    <3>4. CASE m \notin member /\ n \notin member
      BY <1>1, <1>5, <2>3, <3>4
    <3>. QED BY <3>1, <3>2, <3>3, <3>4
  <2>4. ASSUME NEW o \in Ask, o # a PROVE Places(ask'[o], u, member', project')
    <3>1. Places(ask[o], u, member, project) /\ ask'[o] = ask[o] /\ Formed(ask[o])
      BY <1>4, <2>1, <2>4 DEF PlacesInv
    <3>2. ASSUME u \in ask[o].members, Unended(o), NEW m \in member', m.user = u PROVE m \in member
      <4>1. {a, o} \in overlaps
        BY <1>1, <2>4, <3>2, TwoRequests
      <4>2. u \notin s.members
        BY <1>10, <3>2, <4>1 DEF Orderly
      <4>. QED BY <1>1, <1>5, <3>2, <4>2
    <3>3. ASSUME u \in ask[o].members, ask[o].step \in {"add", "commit"}, NEW m \in member',
                 m.user = u
          PROVE  m.order < ask[o].next[u]
      <4>1. m \in member
        BY <3>2, <3>3 DEF Unended
      <4>. QED BY <3>1, <3>3, <4>1 DEF Places
    <3>4. ASSUME ask[o].kind = "update", u \in NewOf(ask[o]),
                 ask[o].step \in {"remove", "orders", "add", "commit"}, NEW m \in member', m.user = u
          PROVE  m.project # ask[o].on
      <4>1. m \in member
        BY <3>2, <3>4 DEF Unended, NewOf
      <4>. QED BY <3>1, <3>4, <4>1 DEF Places
    <3>5. ASSUME ask[o].kind = "reorder", ask[o].by = u, ask[o].step \in {"lock", "rows"},
                 NEW m \in member', NEW n \in member', m.user = u, n.user = u,
                 project'[m.project] = "active", project'[n.project] = "active",
                 m.id \in Ids(ask[o].found), n.id \notin Ids(ask[o].found)
          PROVE  m.order < n.order
      <4>1. m \in member
        BY <1>1, <1>5, <3>5
      <4>2. CASE n \in member
        BY <1>7, <3>1, <3>5, <4>1, <4>2 DEF Places
      <4>3. CASE n \notin member
        <5>1. n \in s.added
          BY <1>1, <1>5, <4>3
        <5>. QED BY <2>2, <3>5, <4>1, <5>1
      <4>. QED BY <4>2, <4>3
    <3>. QED BY <3>1, <3>3, <3>4, <3>5 DEF Places
  <2>5. Places(new, u, member', project')
    BY <1>1, <1>3 DEF Places, Ceased
  <2>. QED BY <1>4, <2>3, <2>4, <2>5 DEF InPlace
<1>. QED BY <1>1, <1>4, <1>6, <1>8, <1>9, <1>10 DEF PlacesInv

----------------------------------------------------------------------------

LEMMA InitiallyInPlace == ProjectsInit => PlacesInv
<1>. SUFFICES ASSUME ProjectsInit PROVE PlacesInv
  OBVIOUS
<1>1. AnyUser \in Usr /\ AnyProject \in Proj
  BY ProjectsAssumption DEF AnyUser, AnyProject
<1>2. NoAsk \in AskState
  BY <1>1 DEF NoAsk, AskState
<1>3. /\ NoAsk.kind = "none" /\ NoAsk.step = "idle" /\ NoAsk.members = {} /\ NoAsk.ids = <<>>
      /\ NoAsk.added = {} /\ NoAsk.removed = {} /\ NoAsk.rows = {} /\ NoAsk.found = {}
  BY DEF NoAsk
<1>4. \A a \in Ask : ask[a] = NoAsk
  BY DEF ProjectsInit
<1>5. <<>> \in Injection(1..Len(<<>>), Proj)
  BY DEF Injection, IsInjective
<1>6. Formed(NoAsk) /\ Relies(NoAsk, member, project)
  BY <1>2, <1>3, <1>5 DEF Formed, Relies
<1>7. Apart
  BY <1>3, <1>4 DEF Apart, ProjectsInit, Unended
<1>8. Keys
  BY <1>3, <1>4, ProjectsAssumption DEF Keys, ProjectsInit, UsedIds, Ids, ProjectsAssumption
<1>9. \A u \in Usr : InPlace(u, member, project) /\ Places(NoAsk, u, member, project)
  BY <1>3, ProjectsAssumption DEF InPlace, Places, ProjectsInit, ProjectsAssumption
<1>. QED BY <1>2, <1>4, <1>6, <1>7, <1>8, <1>9, ProjectsAssumption DEF PlacesInv, ProjectsInit

LEMMA StaysInPlace == PlacesInv /\ [ProjectsNext]_projectsVars => PlacesInv'
<1>. SUFFICES ASSUME PlacesInv, [ProjectsNext]_projectsVars PROVE PlacesInv'
  OBVIOUS
<1>1. CASE UNCHANGED projectsVars
  <2>1. project' = project /\ member' = member /\ ask' = ask /\ overlaps' = overlaps
    BY <1>1 DEF projectsVars
  <2>2. Apart /\ Keys
    BY DEF PlacesInv
  <2>3. Apart'
    BY <2>1, <2>2 DEF Apart, Unended
  <2>4. UsedIds' = UsedIds
    BY <2>1 DEF UsedIds
  <2>5. Keys'
    BY <2>1, <2>2, <2>4 DEF Keys
  <2>6. \A u \in Usr : Orderly(u)' <=> Orderly(u)
    BY <2>1 DEF Orderly
  <2>. QED BY <2>1, <2>3, <2>5, <2>6 DEF PlacesInv
<1>2. CASE ProjectsNext
  BY <1>2, AsksInPlace, ChecksInPlace, ReadExistingInPlace, RemoveMembersInPlace, GetNextInPlace,
     AddMembersInPlace, CommitInPlace, DestroyInPlace, SelectInPlace, LockInPlace,
     UpdateOrdersInPlace DEF ProjectsNext
<1>. QED BY <1>1, <1>2

\* For every number of requests, users and projects: a user has one row in a project, and the
\* living ones have distinct places, as long as no two additions of the user and no two
\* reorderings by the user have run at one time.
THEOREM PlacesInvariant == ProjectsSpec => []PlacesInv
BY InitiallyInPlace, StaysInPlace, PTL DEF ProjectsSpec

\* The living projects of a user have distinct places (getNextMemberOrders, reorder), unless
\* two additions of the user, or two reorderings by the user, ran at one time.
THEOREM DistinctPlaces == ProjectsSpec => []DistinctOrders
<1>1. PlacesInv => DistinctOrders
  <2>. SUFFICES ASSUME PlacesInv, NEW m \in member, NEW n \in member, m # n, m.user = n.user,
                       m.order = n.order, ActiveProject(m.project), ActiveProject(n.project),
                       Orderly(m.user)
                PROVE  FALSE
    BY DEF DistinctOrders, Orderly
  <2>1. m.user \in Usr
    BY DEF PlacesInv, Keys, Member
  <2>2. InPlace(m.user, member, project)
    BY <2>1 DEF PlacesInv
  <2>. QED BY <2>2 DEF InPlace, ActiveProject
<1>. QED BY <1>1, PlacesInvariant, PTL

----------------------------------------------------------------------------
(* Projects: AnsweredIsDone. From its first statement to its answer, an undisturbed request
   keeps what it has found or written, for no other request that is at work meets it. *)

UsersOf(rows) == {m.user : m \in rows}

\* The requests in the order they came: one is over before the next, or ran with it.
Told ==
    /\ asked \in Seq(Ask)
    /\ \A i, j \in DOMAIN asked : i # j => asked[i] # asked[j]
    /\ \A a \in Ask : ask[a].kind # "none" => \E i \in DOMAIN asked : asked[i] = a
    /\ \A i \in DOMAIN asked : ask[asked[i]].kind # "none"
    /\ \A i, j \in DOMAIN asked :
          i < j /\ {asked[j], asked[i]} \notin overlaps => ask[asked[i]].step = "done"

\* What a request knows, whatever the others do.
Managed(s) ==
    /\ s.answer \in {"ok", "error"} => s.step = "done"
    /\ s.kind = "update" /\ s.members # {} => s.by \in s.members
    /\ s.members # {} /\ s.step # "manage" /\ s.answer # "error" => Creator[s.on] \in s.members
    /\ s.members # {} /\ s.step = "commit" => UsersOf(s.added) = NewOf(s)

\* Requests remove rows of their own project; a new member is one unless added by another.
Clean(s, rows) ==
    /\ s.step \in {"orders", "add", "commit"} =>
          \A m \in rows : m.id \in s.removed => m.project = s.on
    /\ s.kind = "update" /\ s.step \in {"remove", "orders", "add", "commit"} =>
          \A m \in rows : m.project = s.on /\ m.user \in NewOf(s) => AddedTwice(m.user, s.on)

Single(rows) ==
    \A m, n \in rows : m # n /\ m.user = n.user /\ m.project = n.project =>
        AddedTwice(m.user, m.project)

\* What an undisturbed request has found or written: the members of a project, ...
KeptMembers(s, rows, prj) ==
    /\ s.kind = "update" /\ s.step = "remove" =>
          UsersOf(s.found) = UsersOf({m \in rows : m.project = s.on})
    /\ s.members # {} /\ s.step \in {"orders", "add", "commit"} =>
          UsersOf({m \in rows : m.project = s.on /\ m.id \notin s.removed}) = s.members \ NewOf(s)
    /\ s.members # {} /\ s.step \in {"add", "commit"} =>
          \A m \in rows : m.user \in s.members => m.order < s.next[m.user]
    /\ s.members # {} /\ (s.step = "read" \/ s.answer = "ok") =>
          /\ UsersOf({m \in rows : m.project = s.on}) = s.members
          /\ \A m \in s.added : /\ m \in rows /\ m.project = s.on /\ m.user \in s.members
                                /\ \A n \in rows : n.user = m.user => n.order <= m.order
    /\ s.members # {} /\ s.answer = "ok" => prj[s.on] = "active"

\* ... the order of a user's living projects, ...
KeptOrder(s, rows, prj) ==
    s.kind = "reorder" =>
       \A m \in rows : m.user = s.by /\ prj[m.project] = "active" =>
          /\ s.step = "lock" => m.id \in Ids(s.found)
          /\ s.step = "rows" => m.project \in Range(s.ids)
          /\ s.answer = "ok" => m.order = PlaceIn(s.ids, m.project)

\* ... or a favorite.
KeptFavorite(s, fav) ==
    s.kind = "favorite" /\ s.step \in {"toggle", "done"} /\ s.answer # "error" =>
       (s.answer = "yes" <=> <<s.by, s.on>> \in fav)

Kept(s, rows, prj, fav) ==
    KeptMembers(s, rows, prj) /\ KeptOrder(s, rows, prj) /\ KeptFavorite(s, fav)

AnsweredInv ==
    /\ Told /\ Single(member)
    /\ \A a \in Ask : Managed(ask[a]) /\ Clean(ask[a], member)
    /\ \A a \in Ask : ask[a].kind # "none" /\ Undisturbed(a) =>
          Kept(ask[a], member, project, favorite)

----------------------------------------------------------------------------

\* A request at work does not meet an undisturbed one.
LEMMA AtWorkApart ==
    ASSUME PlacesInv, Told, NEW a \in Ask, ask[a].kind # "none", Undisturbed(a),
           NEW o \in Ask, o # a, Unended(o)
    PROVE  ~ Meet(a, o)
<1>. SUFFICES ASSUME Meet(a, o) PROVE FALSE
  OBVIOUS
<1>1. PICK j \in DOMAIN asked : asked[j] = a
  BY DEF Told
<1>2. ask[o].kind # "none"
  BY AtWorkOn
<1>3. PICK i \in DOMAIN asked : asked[i] = o
  BY <1>2 DEF Told
<1>4. i < j /\ {a, o} \notin overlaps
  BY <1>1, <1>3 DEF Undisturbed
<1>5. ask[o].step = "done"
  BY <1>1, <1>3, <1>4 DEF Told
<1>. QED BY <1>5 DEF Unended

\* What other requests leave of the rows as a request knows them.
Spares(s, rows, next) ==
    /\ \A n \in next : n.user \in s.members \cup {s.by} => n \in rows
    /\ s.kind # "reorder" =>
          /\ \A m \in rows : m.project = s.on /\ m.user \in s.members => m \in next
          /\ \A m \in rows : m.project = s.on =>
                \E n \in next : n.id = m.id /\ n.user = m.user /\ n.project = m.project
          /\ \A n \in next : n.project = s.on =>
                \E m \in rows : m.id = n.id /\ m.user = n.user /\ m.project = n.project

LEMMA StillKept ==
    ASSUME NEW s, NEW rows, NEW next, NEW prj, NEW prj2, NEW fav, NEW fav2,
           s.members # {} => s.kind \in {"create", "update"},
           Kept(s, rows, prj, fav), Spares(s, rows, next),
           s.kind # "reorder" => prj2[s.on] = prj[s.on],
           \A m \in rows : prj2[m.project] = "active" => prj[m.project] = "active",
           s.kind = "favorite" => (<<s.by, s.on>> \in fav2 <=> <<s.by, s.on>> \in fav)
    PROVE  Kept(s, next, prj2, fav2)
<1>1. KeptFavorite(s, fav2)
  BY DEF Kept, KeptFavorite
<1>2. KeptOrder(s, next, prj2)
  <2>. SUFFICES ASSUME s.kind = "reorder", NEW n \in next, n.user = s.by,
                       prj2[n.project] = "active"
                PROVE  /\ s.step = "lock" => n.id \in Ids(s.found)
                       /\ s.step = "rows" => n.project \in Range(s.ids)
                       /\ s.answer = "ok" => n.order = PlaceIn(s.ids, n.project)
    BY DEF KeptOrder
  <2>1. n \in rows /\ prj[n.project] = "active"
    BY DEF Spares
  <2>. QED BY <2>1 DEF Kept, KeptOrder
<1>3. ASSUME s.members # {} \/ s.kind = "update"
      PROVE  /\ s.kind # "reorder"
             /\ UsersOf({m \in next : m.project = s.on}) = UsersOf({m \in rows : m.project = s.on})
             /\ UsersOf({m \in next : m.project = s.on /\ m.id \notin s.removed})
                   = UsersOf({m \in rows : m.project = s.on /\ m.id \notin s.removed})
  <2>1. s.kind # "reorder"
    BY <1>3
  <2>2. /\ \A m \in rows : m.project = s.on =>
              \E n \in next : n.id = m.id /\ n.user = m.user /\ n.project = m.project
        /\ \A n \in next : n.project = s.on =>
              \E m \in rows : m.id = n.id /\ m.user = n.user /\ m.project = n.project
    BY <2>1 DEF Spares
  <2>3. UsersOf({m \in next : m.project = s.on}) = UsersOf({m \in rows : m.project = s.on})
    BY <2>2 DEF UsersOf
  <2>4. UsersOf({m \in next : m.project = s.on /\ m.id \notin s.removed})
           = UsersOf({m \in rows : m.project = s.on /\ m.id \notin s.removed})
    BY <2>2 DEF UsersOf
  <2>. QED BY <2>1, <2>3, <2>4
<1>4. KeptMembers(s, next, prj2)
  <2>1. s.kind = "update" /\ s.step = "remove" =>
           UsersOf(s.found) = UsersOf({m \in next : m.project = s.on})
    BY <1>3 DEF Kept, KeptMembers
  <2>2. s.members # {} /\ s.step \in {"orders", "add", "commit"} =>
           UsersOf({m \in next : m.project = s.on /\ m.id \notin s.removed}) = s.members \ NewOf(s)
    BY <1>3 DEF Kept, KeptMembers
  <2>3. s.members # {} /\ s.step \in {"add", "commit"} =>
           \A m \in next : m.user \in s.members => m.order < s.next[m.user]
    BY DEF Kept, KeptMembers, Spares
  <2>4. ASSUME s.members # {}, s.step = "read" \/ s.answer = "ok"
        PROVE  /\ UsersOf({m \in next : m.project = s.on}) = s.members
               /\ \A m \in s.added : /\ m \in next /\ m.project = s.on /\ m.user \in s.members
                                     /\ \A n \in next : n.user = m.user => n.order <= m.order
    <3>1. UsersOf({m \in next : m.project = s.on}) = s.members
      BY <1>3, <2>4 DEF Kept, KeptMembers
    <3>2. ASSUME NEW m \in s.added
          PROVE  /\ m \in next /\ m.project = s.on /\ m.user \in s.members
                 /\ \A n \in next : n.user = m.user => n.order <= m.order
      <4>1. /\ m \in rows /\ m.project = s.on /\ m.user \in s.members
            /\ \A n \in rows : n.user = m.user => n.order <= m.order
        BY <2>4 DEF Kept, KeptMembers
      <4>. QED BY <1>3, <2>4, <4>1 DEF Spares
    <3>. QED BY <3>1, <3>2
  <2>5. s.members # {} /\ s.answer = "ok" => prj2[s.on] = "active"
    BY <1>3 DEF Kept, KeptMembers
  <2>. QED BY <2>1, <2>2, <2>3, <2>4, <2>5 DEF KeptMembers
<1>. QED BY <1>1, <1>2, <1>4 DEF Kept

----------------------------------------------------------------------------
(* A request goes on, or comes. *)

LEMMA GoesOnAnswered ==
    ASSUME PlacesInv, AnsweredInv, NEW b \in Ask, Unended(b), NEW new,
           ask' = [ask EXCEPT ![b] = new], UNCHANGED <<asked, overlaps>>,
           new.kind = ask[b].kind, new.by = ask[b].by, new.on = ask[b].on,
           new.members = ask[b].members, Managed(new),
           Single(member'), \A o \in Ask : Clean(ask'[o], member'),
           Undisturbed(b) => Kept(new, member', project', favorite'),
           \A m \in member : project'[m.project] = "active" => project[m.project] = "active",
           \A o \in Ask \ {b} : ~ Meet(o, b) =>
              /\ Spares(ask[o], member, member')
              /\ ask[o].kind \notin {"none", "reorder"} => project'[ask[o].on] = project[ask[o].on]
              /\ ask[o].kind = "favorite" =>
                    (<<ask[o].by, ask[o].on>> \in favorite' <=> <<ask[o].by, ask[o].on>> \in favorite)
    PROVE  AnsweredInv'
<1>1. ask \in [Ask -> AskState]
  BY DEF PlacesInv
<1>2. ask'[b] = new /\ \A o \in Ask \ {b} : ask'[o] = ask[o]
  BY <1>1
<1>3. \A o \in Ask : /\ ask'[o].kind = ask[o].kind /\ ask'[o].by = ask[o].by
                     /\ ask'[o].on = ask[o].on /\ ask'[o].members = ask[o].members
  BY <1>2
<1>4. \A pair \in overlaps : \A o \in pair : o \in Ask
  BY DEF PlacesInv, Apart
<1>5. ASSUME NEW u, NEW p, AddedTwice(u, p) PROVE AddedTwice(u, p)'
  BY <1>3, <1>4, <1>5 DEF AddedTwice
<1>6. Told'
  <2>1. Told
    BY DEF AnsweredInv
  <2>2. \A i \in DOMAIN asked : asked[i] \in Ask
    BY <2>1 DEF Told
  <2>3. \A o \in Ask : ask[o].step = "done" => ask'[o].step = "done"
    BY <1>2 DEF Unended
  <2>. QED BY <1>3, <2>1, <2>2, <2>3 DEF Told
<1>7. Single(member)'
  BY <1>5 DEF Single
<1>8. ASSUME NEW o \in Ask PROVE Managed(ask[o])' /\ Clean(ask[o], member)'
  <2>1. Managed(ask'[o])
    BY <1>2 DEF AnsweredInv
  <2>2. Clean(ask[o], member)'
    BY <1>5 DEF Clean, NewOf
  <2>. QED BY <2>1, <2>2 DEF Managed, UsersOf, NewOf
<1>9. ASSUME NEW o \in Ask, ask'[o].kind # "none", Undisturbed(o)'
      PROVE  Kept(ask'[o], member', project', favorite')
  <2>1. Told /\ \A i \in DOMAIN asked : asked[i] \in Ask
    BY DEF AnsweredInv, Told
  <2>2. Undisturbed(o)
    BY <1>3, <1>9, <2>1 DEF Undisturbed, Meet
  <2>3. CASE o = b
    BY <1>2, <2>2, <2>3
  <2>4. CASE o # b
    <3>1. ask'[o] = ask[o] /\ ask[o].kind # "none"
      BY <1>2, <1>9, <2>4
    <3>2. ~ Meet(o, b)
      BY <2>1, <2>2, <2>4, <3>1, AtWorkApart
    <3>3. Kept(ask[o], member, project, favorite)
      BY <2>2, <3>1 DEF AnsweredInv
    <3>4. ask[o].members # {} => ask[o].kind \in {"create", "update"}
      BY DEF PlacesInv, Formed
    <3>5. /\ Spares(ask[o], member, member')
          /\ ask[o].kind # "reorder" => project'[ask[o].on] = project[ask[o].on]
          /\ ask[o].kind = "favorite" =>
                (<<ask[o].by, ask[o].on>> \in favorite' <=> <<ask[o].by, ask[o].on>> \in favorite)
      BY <2>4, <3>1, <3>2
    <3>6. Kept(ask[o], member', project', favorite')
      BY <3>3, <3>4, <3>5, StillKept
    <3>. QED BY <3>1, <3>6
  <2>. QED BY <2>3, <2>4
<1>. QED BY <1>6, <1>7, <1>8, <1>9 DEF AnsweredInv, Kept, KeptMembers, KeptOrder, KeptFavorite, UsersOf, NewOf, Ids, PlaceIn

\* A step of a request that leaves all rows, projects and favorites as they are.
LEMMA OnwardAnswered ==
    ASSUME PlacesInv, AnsweredInv, NEW b \in Ask, Unended(b), NEW new,
           ask' = [ask EXCEPT ![b] = new], UNCHANGED Rest,
           new.kind = ask[b].kind, new.by = ask[b].by, new.on = ask[b].on,
           new.members = ask[b].members, Managed(new), Clean(new, member),
           Undisturbed(b) => Kept(new, member, project, favorite)
    PROVE  AnsweredInv'
<1>1. ask \in [Ask -> AskState] /\ UNCHANGED <<project, member, favorite, asked, overlaps>>
  BY DEF PlacesInv, Rest
<1>2. Single(member') /\ \A o \in Ask : Clean(ask'[o], member')
  BY <1>1 DEF AnsweredInv
<1>3. \A o \in Ask : Spares(ask[o], member, member')
  BY <1>1 DEF Spares
<1>4. Undisturbed(b) => Kept(new, member', project', favorite')
  BY <1>1
<1>. QED BY <1>1, <1>2, <1>3, <1>4, GoesOnAnswered

LEMMA AskingAnswered ==
    ASSUME PlacesInv, AnsweredInv, NEW b \in Ask, NEW new \in AskState, Asking(b, new),
           new.kind # "none", new.step \in {"prefix", "manage", "select", "find"},
           new.answer = "none", new.kind = "update" /\ new.members # {} => new.by \in new.members,
           new.members # {} /\ new.step # "manage" => Creator[new.on] \in new.members
    PROVE  AnsweredInv'
<1>1. ask \in [Ask -> AskState] /\ ask' = [ask EXCEPT ![b] = new] /\ ask[b] = NoAsk
      /\ UNCHANGED <<project, member, favorite>> /\ asked' = Append(asked, b)
      /\ overlaps' = overlaps \cup {{b, o} : o \in {o \in Ask : Unended(o)}}
  BY DEF PlacesInv, Asking, Becomes
<1>2. ask'[b] = new /\ \A o \in Ask \ {b} : ask'[o] = ask[o]
  BY <1>1
<1>3. ask[b].kind = "none"
  BY <1>1 DEF NoAsk
<1>4. \A pair \in overlaps : \A o \in pair : o \in Ask /\ ask[o].kind # "none" /\ o # b
  BY <1>3 DEF PlacesInv, Apart
<1>5. ASSUME NEW u, NEW p, AddedTwice(u, p) PROVE AddedTwice(u, p)'
  BY <1>1, <1>2, <1>4, <1>5 DEF AddedTwice
<1>. DEFINE n == Len(asked)
<1>6. /\ Told /\ asked \in Seq(Ask) /\ n \in Nat /\ DOMAIN asked = 1..n
      /\ \A i \in 1..n : asked[i] \in Ask /\ asked[i] # b
  <2>1. Told
    BY DEF AnsweredInv
  <2>2. asked \in Seq(Ask)
    BY <2>1 DEF Told
  <2>3. n \in Nat /\ DOMAIN asked = 1..n /\ \A i \in 1..n : asked[i] \in Ask
    BY <2>2
  <2>4. \A i \in 1..n : asked[i] # b
    BY <1>3, <2>1, <2>3 DEF Told
  <2>. QED BY <2>1, <2>2, <2>3, <2>4
<1>7. /\ asked' \in Seq(Ask) /\ DOMAIN asked' = 1..(n + 1) /\ asked'[n + 1] = b
      /\ \A i \in 1..n : asked'[i] = asked[i] /\ ask'[asked[i]] = ask[asked[i]]
  BY <1>1, <1>2, <1>6
<1>. HIDE DEF n
<1>8. Told'
  <2>1. \A i, j \in DOMAIN asked' : i # j => asked'[i] # asked'[j]
    <3>1. \A i, j \in 1..n : i # j => asked[i] # asked[j]
      BY <1>6 DEF Told
    <3>2. \A i \in 1..(n + 1) : i \in 1..n \/ i = n + 1
      BY <1>6
    <3>. QED BY <1>6, <1>7, <3>1, <3>2
  <2>2. ASSUME NEW o \in Ask, ask'[o].kind # "none" PROVE \E i \in DOMAIN asked' : asked'[i] = o
    <3>1. CASE o = b
      <4>1. n + 1 \in 1..(n + 1)
        BY <1>6
      <4>. QED BY <1>7, <3>1, <4>1
    <3>2. CASE o # b
      <4>1. PICK i \in 1..n : asked[i] = o
        BY <1>2, <1>6, <2>2, <3>2 DEF Told
      <4>2. i \in 1..(n + 1)
        BY <1>6
      <4>. QED BY <1>7, <4>1, <4>2
    <3>. QED BY <3>1, <3>2
  <2>3. ASSUME NEW i \in DOMAIN asked' PROVE ask'[asked'[i]].kind # "none"
    <3>1. i \in 1..n \/ i = n + 1
      BY <1>6, <1>7, <2>3
    <3>2. CASE i \in 1..n
      BY <1>6, <1>7, <3>2 DEF Told
    <3>3. CASE i = n + 1
      BY <1>2, <1>7, <3>3
    <3>. QED BY <3>1, <3>2, <3>3
  <2>4. ASSUME NEW i \in DOMAIN asked', NEW j \in DOMAIN asked', i < j,
               {asked'[j], asked'[i]} \notin overlaps'
        PROVE  ask'[asked'[i]].step = "done"
    <3>1. i \in 1..n /\ (j \in 1..n \/ j = n + 1)
      BY <1>6, <1>7, <2>4
    <3>2. CASE j \in 1..n
      <4>1. {asked[j], asked[i]} \notin overlaps
        BY <1>1, <1>7, <2>4, <3>1, <3>2
      <4>2. ask[asked[i]].step = "done"
        BY <1>6, <2>4, <3>1, <3>2, <4>1 DEF Told
      <4>. QED BY <1>7, <3>1, <4>2
    <3>3. CASE j = n + 1
      <4>1. ~ Unended(asked[i])
        BY <1>1, <1>6, <1>7, <2>4, <3>1, <3>3
      <4>2. ask[asked[i]].kind # "none" /\ Formed(ask[asked[i]])
        BY <1>6, <3>1 DEF Told, PlacesInv
      <4>3. ask[asked[i]].step = "done"
        BY <4>1, <4>2 DEF Unended, Formed
      <4>. QED BY <1>7, <3>1, <4>3
    <3>. QED BY <3>1, <3>2, <3>3
  <2>. QED BY <1>7, <2>1, <2>2, <2>3, <2>4 DEF Told
<1>9. Single(member)'
  BY <1>1, <1>5 DEF Single, AnsweredInv
<1>10. Managed(new) /\ Clean(new, member) /\ Kept(new, member, project, favorite)
  BY DEF Managed, Clean, Kept, KeptMembers, KeptOrder, KeptFavorite
<1>11. ASSUME NEW o \in Ask PROVE Managed(ask[o])' /\ Clean(ask[o], member)'
  <2>1. Managed(ask'[o]) /\ Clean(ask'[o], member)
    BY <1>2, <1>10 DEF AnsweredInv
  <2>2. Clean(ask[o], member)'
    BY <1>1, <1>5, <2>1 DEF Clean, NewOf
  <2>. QED BY <2>1, <2>2 DEF Managed, UsersOf, NewOf
<1>12. ASSUME NEW o \in Ask, ask'[o].kind # "none", Undisturbed(o)'
       PROVE  Kept(ask'[o], member', project', favorite')
  <2>1. CASE o = b
    BY <1>1, <1>2, <1>10, <2>1
  <2>2. CASE o # b
    <3>1. ask'[o] = ask[o]
      BY <1>2, <2>2
    <3>2. Undisturbed(o)
      <4>. SUFFICES ASSUME NEW i \in DOMAIN asked, NEW j \in DOMAIN asked, asked[j] = o, i # j,
                           Meet(o, asked[i])
                    PROVE  i < j /\ {o, asked[i]} \notin overlaps
        BY DEF Undisturbed
      <4>1. i \in 1..n /\ j \in 1..n /\ i \in DOMAIN asked' /\ j \in DOMAIN asked'
        BY <1>6, <1>7
      <4>2. asked'[j] = o /\ asked'[i] = asked[i] /\ ask'[asked[i]] = ask[asked[i]]
        BY <1>7, <4>1
      <4>3. Meet(o, asked[i])'
        BY <3>1, <4>2 DEF Meet
      <4>4. i < j /\ {o, asked'[i]} \notin overlaps'
        BY <1>12, <4>1, <4>2, <4>3 DEF Undisturbed
      <4>. QED BY <1>1, <4>2, <4>4
    <3>. QED BY <1>1, <1>12, <3>1, <3>2 DEF AnsweredInv
  <2>. QED BY <2>1, <2>2
<1>. QED BY <1>8, <1>9, <1>11, <1>12 DEF AnsweredInv, Kept, KeptMembers, KeptOrder, KeptFavorite, UsersOf, NewOf, Ids, PlaceIn

LEMMA AsksAnswered ==
    ASSUME PlacesInv, AnsweredInv, NEW b \in Ask,
           AskCreate(b) \/ AskUpdate(b) \/ AskDelete(b) \/ AskReorder(b) \/ AskFavorite(b)
    PROVE  AnsweredInv'
<1>1. AnyUser \in Usr /\ AnyProject \in Proj
  BY ProjectsAssumption DEF AnyUser, AnyProject
<1>2. NoAsk \in AskState /\ NoAsk.answer = "none" /\ NoAsk.members = {}
  BY <1>1 DEF NoAsk, AskState
<1>3. CASE AskCreate(b)
  <2>1. PICK p \in Proj, members \in SUBSET Usr :
           Asking(b, [NoAsk EXCEPT !.kind = "create", !.by = Creator[p], !.on = p,
                                   !.members = members \cup {Creator[p]}, !.step = "prefix"])
    BY <1>3 DEF AskCreate
  <2>2. Creator[p] \in Usr
    BY ProjectsAssumption
  <2>. DEFINE new == [NoAsk EXCEPT !.kind = "create", !.by = Creator[p], !.on = p,
                                   !.members = members \cup {Creator[p]}, !.step = "prefix"]
  <2>3. /\ new \in AskState /\ new.kind = "create" /\ new.step = "prefix" /\ new.answer = "none"
        /\ Creator[new.on] \in new.members
    BY <1>2, <2>2 DEF AskState
  <2>4. Asking(b, new)
    BY <2>1
  <2>. HIDE DEF new
  <2>. QED BY <2>3, <2>4, AskingAnswered
<1>4. CASE AskUpdate(b)
  <2>0. PICK u \in Usr, p \in Proj : \E members \in {{}} \cup {m \in SUBSET Usr : u \in m} :
           Asking(b, [NoAsk EXCEPT !.kind = "update", !.by = u, !.on = p,
                                   !.members = members, !.step = "manage"])
    BY <1>4 DEF AskUpdate
  <2>1. PICK members \in {{}} \cup {m \in SUBSET Usr : u \in m} :
           Asking(b, [NoAsk EXCEPT !.kind = "update", !.by = u, !.on = p,
                                   !.members = members, !.step = "manage"])
    BY <2>0
  <2>2. members \in SUBSET Usr /\ (members # {} => u \in members)
    BY <2>1
  <2>. DEFINE new == [NoAsk EXCEPT !.kind = "update", !.by = u, !.on = p,
                                   !.members = members, !.step = "manage"]
  <2>3. /\ new \in AskState /\ new.kind = "update" /\ new.step = "manage" /\ new.answer = "none"
        /\ new.members # {} => new.by \in new.members
    BY <1>2, <2>2 DEF AskState
  <2>4. Asking(b, new)
    BY <2>1
  <2>. HIDE DEF new
  <2>. QED BY <2>3, <2>4, AskingAnswered
<1>5. CASE AskDelete(b)
  <2>1. PICK u \in Usr, p \in Proj :
           Asking(b, [NoAsk EXCEPT !.kind = "delete", !.by = u, !.on = p, !.step = "manage"])
    BY <1>5 DEF AskDelete
  <2>. DEFINE new == [NoAsk EXCEPT !.kind = "delete", !.by = u, !.on = p, !.step = "manage"]
  <2>3. /\ new \in AskState /\ new.kind = "delete" /\ new.step = "manage" /\ new.answer = "none"
        /\ new.members = {}
    BY <1>2 DEF AskState
  <2>4. Asking(b, new)
    BY <2>1
  <2>. HIDE DEF new
  <2>. QED BY <2>3, <2>4, AskingAnswered
<1>6. CASE AskFavorite(b)
  <2>1. PICK u \in Usr, p \in Proj :
           Asking(b, [NoAsk EXCEPT !.kind = "favorite", !.by = u, !.on = p, !.step = "find"])
    BY <1>6 DEF AskFavorite
  <2>. DEFINE new == [NoAsk EXCEPT !.kind = "favorite", !.by = u, !.on = p, !.step = "find"]
  <2>3. /\ new \in AskState /\ new.kind = "favorite" /\ new.step = "find" /\ new.answer = "none"
        /\ new.members = {}
    BY <1>2 DEF AskState
  <2>4. Asking(b, new)
    BY <2>1
  <2>. HIDE DEF new
  <2>. QED BY <2>3, <2>4, AskingAnswered
<1>7. CASE AskReorder(b)
  <2>0. PICK u \in Usr, readable \in SUBSET Proj : \E ids \in SetToSeqs(readable) :
           Asking(b, [NoAsk EXCEPT !.kind = "reorder", !.by = u, !.ids = ids, !.step = "select"])
    BY <1>7 DEF AskReorder
  <2>1. PICK ids \in SetToSeqs(readable) :
           Asking(b, [NoAsk EXCEPT !.kind = "reorder", !.by = u, !.ids = ids, !.step = "select"])
    BY <2>0
  <2>2. ids \in Seq(Proj)
    <3>1. Cardinality(readable) \in Nat
      BY ProjectsAssumption, FS_Subset, FS_CardinalityType
    <3>2. ids \in [1..Cardinality(readable) -> Proj]
      BY <2>1 DEF SetToSeqs
    <3>. QED BY <3>1, <3>2
  <2>. DEFINE new == [NoAsk EXCEPT !.kind = "reorder", !.by = u, !.ids = ids, !.step = "select"]
  <2>3. /\ new \in AskState /\ new.kind = "reorder" /\ new.step = "select" /\ new.answer = "none"
        /\ new.members = {}
    BY <1>2, <2>2 DEF AskState
  <2>4. Asking(b, new)
    BY <2>1
  <2>. HIDE DEF new
  <2>. QED BY <2>3, <2>4, AskingAnswered
<1>. QED BY <1>3, <1>4, <1>5, <1>6, <1>7

----------------------------------------------------------------------------
(* The steps that leave the rows alone. *)

\* The request at a step, with what the invariants say of it.
LEMMA AskStands ==
    ASSUME PlacesInv, AnsweredInv, NEW b \in Ask, Unended(b)
    PROVE  /\ ask[b].kind # "none" /\ ask[b] \in AskState /\ Formed(ask[b])
           /\ Relies(ask[b], member, project) /\ Managed(ask[b]) /\ Clean(ask[b], member)
           /\ ask[b].answer # "ok" /\ (Undisturbed(b) => Kept(ask[b], member, project, favorite))
           /\ member \subseteq Member
<1>1. ask[b].kind # "none" /\ ask[b] \in AskState /\ Formed(ask[b])
  BY AtWorkOn
<1>2. Relies(ask[b], member, project) /\ member \subseteq Member
  BY DEF PlacesInv, Keys
<1>3. Managed(ask[b]) /\ Clean(ask[b], member)
  BY DEF AnsweredInv
<1>4. ask[b].answer # "ok"
  BY <1>3 DEF Managed, Unended
<1>5. Undisturbed(b) => Kept(ask[b], member, project, favorite)
  BY <1>1 DEF AnsweredInv
<1>. QED BY <1>1, <1>2, <1>3, <1>4, <1>5

\* A request that goes on is about the same.
SameAsk(s, new) ==
    /\ new.kind = s.kind /\ new.by = s.by /\ new.on = s.on /\ new.members = s.members
    /\ new.ids = s.ids

LEMMA RefusalAnswered ==
    ASSUME PlacesInv, AnsweredInv, NEW b \in Ask, Unended(b), Ended(b, "error"), UNCHANGED Rest
    PROVE  AnsweredInv'
<1>. DEFINE s == ask[b]
            new == [s EXCEPT !.step = "done", !.answer = "error", !.holds = {}, !.rows = {}]
<1>1. s \in AskState /\ Managed(s)
  BY AskStands
<1>2. ask' = [ask EXCEPT ![b] = new]
  BY DEF Ended, Becomes
<1>3. SameAsk(s, new) /\ new.step = "done" /\ new.answer = "error"
  BY <1>1 DEF AskState, SameAsk
<1>. HIDE DEF new
<1>4. Managed(new) /\ Clean(new, member) /\ Kept(new, member, project, favorite)
  BY <1>1, <1>3 DEF SameAsk, Managed, Clean, Kept, KeptMembers, KeptOrder, KeptFavorite
<1>. QED BY <1>2, <1>3, <1>4, OnwardAnswered DEF SameAsk

\* A new project has no members yet.
LEMMA NoMembersYet ==
    ASSUME PlacesInv, NEW b \in Ask, ask[b].kind = "create", ask[b].step \notin {"read", "done"}
    PROVE  {m \in member : m.project = ask[b].on} = {}
BY DEF PlacesInv, Relies, Keys

LEMMA ChecksAnswered ==
    ASSUME PlacesInv, AnsweredInv, NEW b \in Ask,
           \/ CheckPrefix(b) \/ InsertProject(b) \/ CheckManage(b) \/ SaveProject(b)
           \/ FindFavorite(b) \/ ProjectFails(b)
    PROVE  AnsweredInv'
<1>. DEFINE s == ask[b]
<1>1. Unended(b) /\ UNCHANGED Rest
  BY DEF CheckPrefix, InsertProject, CheckManage, SaveProject, FindFavorite,
         ProjectFails, ProjectRefuses, AtStep, Unended
<1>2. s \in AskState /\ Formed(s) /\ Managed(s) /\ s.answer # "ok"
  BY <1>1, AskStands
<1>3. CASE Ended(b, "error")
  BY <1>1, <1>3, RefusalAnswered
<1>4. CASE CheckPrefix(b) /\ ~ Ended(b, "error")
  <2>. DEFINE new == [s EXCEPT !.step = "insert"]
  <2>1. ask' = [ask EXCEPT ![b] = new] /\ s.step = "prefix"
    BY <1>4 DEF CheckPrefix, ProjectRefuses, Becomes, AtStep
  <2>2. SameAsk(s, new) /\ new.step = "insert" /\ new.answer = s.answer
    BY <1>2 DEF AskState, SameAsk
  <2>. HIDE DEF new
  <2>3. Managed(new) /\ Clean(new, member) /\ Kept(new, member, project, favorite)
    BY <1>2, <2>1, <2>2
       DEF SameAsk, Managed, Clean, Kept, KeptMembers, KeptOrder, KeptFavorite
  <2>. QED BY <1>1, <2>1, <2>2, <2>3, OnwardAnswered DEF SameAsk
<1>5. CASE InsertProject(b) /\ ~ Ended(b, "error")
  <2>. DEFINE new == [s EXCEPT !.step = "orders", !.holds = {s.on}]
  <2>1. ask' = [ask EXCEPT ![b] = new] /\ s.step = "insert" /\ s.kind = "create"
    BY <1>5 DEF InsertProject, ProjectRefuses, Becomes, AtStep
  <2>2. SameAsk(s, new) /\ new.step = "orders" /\ new.answer = s.answer /\ new.removed = s.removed
    BY <1>2 DEF AskState, SameAsk
  <2>. HIDE DEF new
  <2>3. s.removed = {} /\ {m \in member : m.project = s.on} = {}
    BY <1>2, <2>1, NoMembersYet DEF Formed
  <2>4. Managed(new) /\ Clean(new, member)
    BY <1>2, <2>1, <2>2, <2>3 DEF SameAsk, Managed, Clean
  <2>5. KeptMembers(new, member, project)
    <3>1. UsersOf({m \in member : m.project = new.on /\ m.id \notin new.removed}) = {}
      BY <2>2, <2>3 DEF SameAsk, UsersOf
    <3>2. NewOf(new) = new.members
      BY <2>1, <2>2 DEF SameAsk, NewOf
    <3>. QED BY <1>2, <2>1, <2>2, <3>1, <3>2 DEF SameAsk, KeptMembers
  <2>6. Kept(new, member, project, favorite)
    BY <2>1, <2>2, <2>5 DEF SameAsk, Kept, KeptOrder, KeptFavorite
  <2>. QED BY <1>1, <2>1, <2>2, <2>4, <2>6, OnwardAnswered DEF SameAsk
<1>6. CASE CheckManage(b) /\ ~ Ended(b, "error")
  <2>. DEFINE step == IF s.kind = "update" THEN "save" ELSE "remove"
              new == [s EXCEPT !.step = step]
  <2>1. /\ ask' = [ask EXCEPT ![b] = new] /\ s.step = "manage" /\ s.kind \in {"update", "delete"}
        /\ Creator[s.on] = s.by
    BY <1>6 DEF CheckManage, ProjectRefuses, Becomes, AtStep
  <2>2. step = "save" \/ (step = "remove" /\ s.kind = "delete")
    BY <2>1
  <2>. HIDE DEF step
  <2>3. SameAsk(s, new) /\ new.step = step /\ new.answer = s.answer
    BY <1>2 DEF AskState, SameAsk
  <2>. HIDE DEF new
  <2>4. s.members # {} => s.by \in s.members
    BY <1>2, <2>1 DEF Managed, Formed
  <2>5. Managed(new) /\ Clean(new, member) /\ Kept(new, member, project, favorite)
    BY <1>2, <2>1, <2>2, <2>3, <2>4
       DEF SameAsk, Managed, Clean, Kept, KeptMembers, KeptOrder, KeptFavorite
  <2>. QED BY <1>1, <2>1, <2>3, <2>5, OnwardAnswered DEF SameAsk
<1>7. CASE SaveProject(b)
  <2>. DEFINE step == IF s.members = {} THEN "commit" ELSE "existing"
  <2>0. PICK changed \in BOOLEAN :
           ask' = [ask EXCEPT ![b] = [s EXCEPT !.step = step,
                                               !.holds = IF changed THEN {s.on} ELSE {}]]
    BY <1>7 DEF SaveProject, Becomes
  <2>. DEFINE holds == IF changed THEN {s.on} ELSE {}
              new == [s EXCEPT !.step = step, !.holds = holds]
  <2>1. s.step = "save" /\ s.kind = "update"
    BY <1>7 DEF SaveProject, AtStep
  <2>2. step = "existing" \/ (step = "commit" /\ s.members = {})
    OBVIOUS
  <2>. HIDE DEF step, holds
  <2>3. SameAsk(s, new) /\ new.step = step /\ new.answer = s.answer /\ new.removed = s.removed
    BY <1>2 DEF AskState, SameAsk
  <2>4. ask' = [ask EXCEPT ![b] = new]
    BY <2>0 DEF step, holds
  <2>. HIDE DEF new
  <2>5. s.removed = {} /\ (s.members = {} => NewOf(new) = {})
    BY <1>2, <2>1, <2>3 DEF Formed, NewOf, SameAsk
  <2>6. Managed(new) /\ Clean(new, member) /\ Kept(new, member, project, favorite)
    BY <1>2, <2>1, <2>2, <2>3, <2>5
       DEF SameAsk, Managed, Clean, Kept, KeptMembers, KeptOrder, KeptFavorite
  <2>. QED BY <1>1, <2>3, <2>4, <2>6, OnwardAnswered DEF SameAsk
<1>8. CASE FindFavorite(b) /\ ~ Ended(b, "error")
  <2>1. /\ s.step = "find" /\ s.kind = "favorite"
        /\ ask' = [ask EXCEPT ![b] = [s EXCEPT !.step = "toggle", !.answer =
                                         IF <<s.by, s.on>> \in favorite THEN "yes" ELSE "no"]]
    BY <1>8 DEF FindFavorite, ProjectRefuses, Becomes, AtStep
  <2>. DEFINE answer == IF <<s.by, s.on>> \in favorite THEN "yes" ELSE "no"
              new == [s EXCEPT !.step = "toggle", !.answer = answer]
  <2>2. answer \in {"yes", "no"} /\ (answer = "yes" <=> <<s.by, s.on>> \in favorite)
    OBVIOUS
  <2>3. ask' = [ask EXCEPT ![b] = new]
    BY <2>1
  <2>. HIDE DEF answer
  <2>4. SameAsk(s, new) /\ new.step = "toggle" /\ new.answer = answer
    BY <1>2 DEF AskState, SameAsk
  <2>. HIDE DEF new
  <2>5. s.members = {}
    BY <1>2, <2>1 DEF Formed
  <2>6. Managed(new) /\ Clean(new, member) /\ Kept(new, member, project, favorite)
    BY <2>1, <2>2, <2>4, <2>5
       DEF SameAsk, Managed, Clean, Kept, KeptMembers, KeptOrder, KeptFavorite
  <2>. QED BY <1>1, <2>3, <2>4, <2>6, OnwardAnswered DEF SameAsk
<1>9. CASE ProjectFails(b)
  BY <1>3, <1>9 DEF ProjectFails, ProjectRefuses
<1>. QED BY <1>3, <1>4, <1>5, <1>6, <1>7, <1>8, <1>9

LEMMA ReadExistingAnswered ==
    ASSUME PlacesInv, AnsweredInv, NEW b \in Ask, ReadExisting(b) PROVE AnsweredInv'
<1>. DEFINE s == ask[b]
            new == [s EXCEPT !.step = "remove", !.found = MembershipsIn(s.on)]
<1>1. /\ Unended(b) /\ UNCHANGED Rest /\ ask' = [ask EXCEPT ![b] = new]
      /\ s.step = "existing" /\ s.kind = "update"
  BY DEF ReadExisting, AtStep, Unended, Becomes
<1>2. s \in AskState /\ Managed(s) /\ s.answer # "ok"
  BY <1>1, AskStands
<1>3. SameAsk(s, new) /\ new.step = "remove" /\ new.answer = s.answer
      /\ new.found = {m \in member : m.project = s.on}
  BY <1>2 DEF AskState, SameAsk, MembershipsIn
<1>. HIDE DEF new
<1>4. Clean(new, member)
  BY <1>1, <1>3 DEF Clean, SameAsk, NewOf
<1>5. Managed(new) /\ Kept(new, member, project, favorite)
  BY <1>1, <1>2, <1>3
     DEF SameAsk, Managed, Kept, KeptMembers, KeptOrder, KeptFavorite
<1>. QED BY <1>1, <1>3, <1>4, <1>5, OnwardAnswered DEF SameAsk

LEMMA RemoveMembersAnswered ==
    ASSUME PlacesInv, AnsweredInv, NEW b \in Ask, RemoveMembers(b) PROVE AnsweredInv'
<1>. DEFINE s == ask[b]
            gone == {m \in MembershipsIn(s.on) : m.user \notin s.members}
            ids == {m.id : m \in gone}
            new == [s EXCEPT !.step = "orders", !.removed = ids, !.rows = ids]
<1>1. /\ Unended(b) /\ UNCHANGED Rest /\ ask' = [ask EXCEPT ![b] = new]
      /\ s.step = "remove" /\ s.kind = "update"
  BY DEF RemoveMembers, AtStep, Unended, Becomes
<1>2. s \in AskState /\ Managed(s) /\ s.answer # "ok" /\ Clean(s, member)
      /\ (Undisturbed(b) => Kept(s, member, project, favorite))
  BY <1>1, AskStands
<1>3. \A m \in member : m.id \in ids <=> m.project = s.on /\ m.user \notin s.members
  <2>1. \A m, n \in member : m.id = n.id => m = n
    BY DEF PlacesInv, Keys
  <2>. QED BY <2>1 DEF MembershipsIn
<1>. HIDE DEF ids
<1>4. SameAsk(s, new) /\ new.step = "orders" /\ new.answer = s.answer /\ new.removed = ids
      /\ new.found = s.found
  BY <1>2 DEF AskState, SameAsk
<1>. HIDE DEF new
<1>5. NewOf(new) = NewOf(s) /\ NewOf(s) = s.members \ UsersOf(s.found)
  BY <1>1, <1>4 DEF SameAsk, NewOf, UsersOf
<1>6. Clean(new, member)
  BY <1>1, <1>2, <1>3, <1>4, <1>5 DEF Clean, SameAsk
<1>7. Managed(new)
  BY <1>1, <1>2, <1>4 DEF SameAsk, Managed
<1>8. ASSUME Undisturbed(b) PROVE Kept(new, member, project, favorite)
  <2>1. UsersOf(s.found) = UsersOf({m \in member : m.project = s.on})
    BY <1>1, <1>2, <1>8 DEF Kept, KeptMembers
  <2>2. UsersOf({m \in member : m.project = s.on /\ m.id \notin ids})
           = s.members \cap UsersOf({m \in member : m.project = s.on})
    BY <1>3 DEF UsersOf
  <2>3. UsersOf({m \in member : m.project = new.on /\ m.id \notin new.removed})
           = new.members \ NewOf(new)
    BY <1>4, <1>5, <2>1, <2>2 DEF SameAsk
  <2>4. KeptMembers(new, member, project)
    BY <1>2, <1>4, <2>3 DEF SameAsk, KeptMembers
  <2>. QED BY <1>1, <1>4, <2>4 DEF SameAsk, Kept, KeptOrder, KeptFavorite
<1>. QED BY <1>1, <1>4, <1>6, <1>7, <1>8, OnwardAnswered DEF SameAsk

LEMMA OrdersAreFinite ==
    ASSUME PlacesInv, NEW rows, rows \subseteq member
    PROVE  {m.order : m \in rows} \in SUBSET Nat /\ IsFiniteSet({m.order : m \in rows})
<1>. DEFINE f == [m \in rows |-> m.order]
<1>1. IsFiniteSet(rows)
  BY FiniteRows, FS_Subset
<1>2. \A m \in rows : m.order \in Nat
  BY DEF PlacesInv, Keys, Member
<1>3. f \in Surjection(rows, {m.order : m \in rows})
  BY DEF Surjection
<1>. HIDE DEF f
<1>4. IsFiniteSet({m.order : m \in rows})
  BY <1>1, <1>3, FS_Surjection
<1>. QED BY <1>2, <1>4

LEMMA GetNextAnswered ==
    ASSUME PlacesInv, AnsweredInv, NEW b \in Ask, GetNextMemberOrders(b) PROVE AnsweredInv'
<1>. DEFINE s == ask[b]
            rows == {m \in member : m.id \notin s.removed}
            Of(u) == {m.order : m \in {m \in rows : m.user = u}}
            next == [u \in Usr |-> NextOrder(Of(u))]
            new == [s EXCEPT !.step = "add", !.next = next]
<1>1. /\ Unended(b) /\ UNCHANGED Rest /\ ask' = [ask EXCEPT ![b] = new]
      /\ s.step = "orders" /\ s.kind \in {"create", "update"}
  BY DEF GetNextMemberOrders, AtStep, Unended, Becomes
<1>2. s \in AskState /\ Managed(s) /\ s.answer # "ok" /\ Clean(s, member)
      /\ Relies(s, member, project) /\ (Undisturbed(b) => Kept(s, member, project, favorite))
      /\ member \subseteq Member
  BY <1>1, AskStands
<1>3. ASSUME NEW u \in Usr PROVE \A m \in rows : m.user = u => m.order < next[u]
  <2>1. Of(u) \in SUBSET Nat /\ IsFiniteSet(Of(u))
    <3>. DEFINE his == {m \in rows : m.user = u}
    <3>1. his \subseteq member
      OBVIOUS
    <3>. HIDE DEF his
    <3>2. {m.order : m \in his} \in SUBSET Nat /\ IsFiniteSet({m.order : m \in his})
      BY <3>1, OrdersAreFinite
    <3>. QED BY <3>2 DEF his
  <2>2. \A m \in rows : m.user = u => m.order \in Of(u)
    OBVIOUS
  <2>3. next[u] = NextOrder(Of(u))
    OBVIOUS
  <2>. HIDE DEF Of, next, rows
  <2>. QED BY <2>1, <2>2, <2>3, NextIsBeyond
<1>4. \A m \in member : m.user \in s.members => m.order < next[m.user]
  <2>1. \A m \in member : m.user \in s.members => m \in rows /\ m.user \in Usr
    BY <1>1, <1>2 DEF Relies, Member
  <2>. HIDE DEF rows, next
  <2>. QED BY <1>3, <2>1
<1>. HIDE DEF next, rows, Of
<1>5. SameAsk(s, new) /\ new.step = "add" /\ new.answer = s.answer /\ new.removed = s.removed
      /\ new.found = s.found /\ new.next = next
  BY <1>2 DEF AskState, SameAsk
<1>. HIDE DEF new
<1>6. NewOf(new) = NewOf(s)
  BY <1>5 DEF SameAsk, NewOf
<1>7. Clean(new, member) /\ Managed(new)
  BY <1>1, <1>2, <1>5, <1>6 DEF Clean, SameAsk, Managed
<1>8. ASSUME Undisturbed(b) PROVE Kept(new, member, project, favorite)
  <2>1. KeptMembers(new, member, project)
    BY <1>1, <1>2, <1>4, <1>5, <1>6, <1>8 DEF SameAsk, Kept, KeptMembers
  <2>. QED BY <1>1, <1>5, <2>1 DEF SameAsk, Kept, KeptOrder, KeptFavorite
<1>. QED BY <1>1, <1>5, <1>7, <1>8, OnwardAnswered DEF SameAsk

LEMMA AddMembersAnswered ==
    ASSUME PlacesInv, AnsweredInv, NEW b \in Ask, AddMembers(b) PROVE AnsweredInv'
<1>. DEFINE s == ask[b]
            id == CHOOSE f \in Injection(NewMembers(b), (1..MaxRow) \ UsedIds) : TRUE
            added == {[id |-> id[u], user |-> u, project |-> s.on, order |-> s.next[u]] :
                         u \in NewMembers(b)}
            new == [s EXCEPT !.step = "commit", !.added = added]
<1>1. /\ Unended(b) /\ UNCHANGED Rest /\ ask' = [ask EXCEPT ![b] = new]
      /\ s.step = "add" /\ s.kind \in {"create", "update"}
  BY DEF AddMembers, AtStep, Unended, Becomes
<1>2. s \in AskState /\ Managed(s) /\ s.answer # "ok" /\ Clean(s, member)
      /\ (Undisturbed(b) => Kept(s, member, project, favorite))
  BY <1>1, AskStands
<1>. HIDE DEF id
<1>3. UsersOf(added) = NewOf(s)
  <2>1. NewMembers(b) = NewOf(s)
    BY DEF NewMembers, NewOf
  <2>2. ASSUME NEW u \in NewMembers(b) PROVE \E m \in added : m.user = u
    <3>. DEFINE his == [id |-> id[u], user |-> u, project |-> s.on, order |-> s.next[u]]
    <3>1. his \in added /\ his.user = u
      OBVIOUS
    <3>. HIDE DEF added, his
    <3>. QED BY <3>1
  <2>3. \A m \in added : m.user \in NewMembers(b)
    OBVIOUS
  <2>. HIDE DEF added
  <2>. QED BY <2>1, <2>2, <2>3 DEF UsersOf
<1>. HIDE DEF added
<1>4. SameAsk(s, new) /\ new.step = "commit" /\ new.answer = s.answer /\ new.removed = s.removed
      /\ new.found = s.found /\ new.next = s.next /\ new.added = added
  BY <1>2 DEF AskState, SameAsk
<1>. HIDE DEF new
<1>5. NewOf(new) = NewOf(s)
  BY <1>4 DEF SameAsk, NewOf
<1>6. Clean(new, member) /\ Managed(new)
  BY <1>1, <1>2, <1>3, <1>4, <1>5 DEF Clean, SameAsk, Managed
<1>7. ASSUME Undisturbed(b) PROVE Kept(new, member, project, favorite)
  <2>1. KeptMembers(new, member, project)
    BY <1>1, <1>2, <1>4, <1>5, <1>7 DEF SameAsk, Kept, KeptMembers
  <2>. QED BY <1>1, <1>4, <2>1 DEF SameAsk, Kept, KeptOrder, KeptFavorite
<1>. QED BY <1>1, <1>4, <1>6, <1>7, OnwardAnswered DEF SameAsk

LEMMA ReadAnswerAnswered ==
    ASSUME PlacesInv, AnsweredInv, NEW b \in Ask, ReadAnswer(b) PROVE AnsweredInv'
<1>. DEFINE s == ask[b]
            new == [s EXCEPT !.step = "done", !.answer = "ok", !.holds = {}, !.rows = {}]
<1>1. Unended(b) /\ UNCHANGED Rest /\ s.step = "read" /\ s.kind \in {"create", "update"}
  BY DEF ReadAnswer, AtStep, Unended
<1>2. CASE ~ ActiveProject(s.on)
  <2>1. Ended(b, "error")
    BY <1>2 DEF ReadAnswer
  <2>. QED BY <1>1, <2>1, RefusalAnswered
<1>3. CASE ActiveProject(s.on)
  <2>1. ask' = [ask EXCEPT ![b] = new]
    BY <1>3 DEF ReadAnswer, Ended, Becomes
  <2>2. s \in AskState /\ Managed(s) /\ (Undisturbed(b) => Kept(s, member, project, favorite))
    BY <1>1, AskStands
  <2>3. SameAsk(s, new) /\ new.step = "done" /\ new.answer = "ok" /\ new.added = s.added
    BY <2>2 DEF AskState, SameAsk
  <2>. HIDE DEF new
  <2>4. Clean(new, member)
    BY <2>3 DEF Clean
  <2>5. Managed(new)
    BY <1>1, <2>2, <2>3 DEF SameAsk, Managed
  <2>6. ASSUME Undisturbed(b) PROVE Kept(new, member, project, favorite)
    <3>1. KeptMembers(new, member, project)
      BY <1>1, <1>3, <2>2, <2>3, <2>6 DEF SameAsk, Kept, KeptMembers, ActiveProject
    <3>. QED BY <1>1, <2>3, <3>1 DEF SameAsk, Kept, KeptOrder, KeptFavorite
  <2>. QED BY <1>1, <2>1, <2>3, <2>4, <2>5, <2>6, OnwardAnswered DEF SameAsk
<1>. QED BY <1>2, <1>3

LEMMA SelectAnswered ==
    ASSUME PlacesInv, AnsweredInv, NEW b \in Ask, SelectMemberships(b) PROVE AnsweredInv'
<1>. DEFINE s == ask[b]
            found == {m \in MembershipsOf(s.by) : ActiveProject(m.project)}
            new == [s EXCEPT !.step = "lock", !.found = found]
<1>1. /\ Unended(b) /\ UNCHANGED Rest /\ ask' = [ask EXCEPT ![b] = new]
      /\ s.step = "select" /\ s.kind = "reorder"
  BY DEF SelectMemberships, AtStep, Unended, Becomes
<1>2. s \in AskState /\ Formed(s) /\ Managed(s) /\ s.answer # "ok"
  BY <1>1, AskStands
<1>3. \A m \in member : m.user = s.by /\ project[m.project] = "active" => m.id \in Ids(found)
  BY DEF MembershipsOf, ActiveProject, Ids
<1>. HIDE DEF found
<1>4. SameAsk(s, new) /\ new.step = "lock" /\ new.answer = s.answer /\ new.found = found
  BY <1>2 DEF AskState, SameAsk
<1>. HIDE DEF new
<1>5. s.members = {}
  BY <1>1, <1>2 DEF Formed
<1>6. Managed(new) /\ Clean(new, member) /\ KeptMembers(new, member, project)
  BY <1>1, <1>2, <1>4, <1>5 DEF SameAsk, Managed, Clean, KeptMembers
<1>7. Kept(new, member, project, favorite)
  BY <1>1, <1>2, <1>3, <1>4, <1>6 DEF SameAsk, Kept, KeptOrder, KeptFavorite
<1>. QED BY <1>1, <1>4, <1>6, <1>7, OnwardAnswered DEF SameAsk

LEMMA LockAnswered ==
    ASSUME PlacesInv, AnsweredInv, NEW b \in Ask, LockMemberships(b) PROVE AnsweredInv'
<1>. DEFINE s == ask[b]
            rows == {m \in MembershipsOf(s.by) :
                        m.id \in {f.id : f \in s.found} /\ ActiveProject(m.project)}
            ids == {m.id : m \in rows}
            projects == {m.project : m \in rows}
            new == [s EXCEPT !.step = "rows", !.found = rows, !.rows = ids, !.holds = projects]
<1>1. Unended(b) /\ UNCHANGED Rest /\ s.step = "lock" /\ s.kind = "reorder"
  BY DEF LockMemberships, AtStep, Unended
<1>2. s \in AskState /\ Formed(s) /\ Managed(s) /\ s.answer # "ok"
      /\ (Undisturbed(b) => Kept(s, member, project, favorite))
  BY <1>1, AskStands
<1>3. CASE Ended(b, "error")
  BY <1>1, <1>3, RefusalAnswered
<1>4. CASE ~ Ended(b, "error")
  <2>1. ask' = [ask EXCEPT ![b] = new] /\ projects = Range(s.ids)
    BY <1>4 DEF LockMemberships, Becomes
  <2>2. \A m \in member : m.user = s.by /\ project[m.project] = "active" /\ m.id \in Ids(s.found)
           => m.project \in Range(s.ids)
    BY <2>1 DEF MembershipsOf, ActiveProject, Ids
  <2>. HIDE DEF rows, ids, projects
  <2>3. SameAsk(s, new) /\ new.step = "rows" /\ new.answer = s.answer
    BY <1>2 DEF AskState, SameAsk
  <2>. HIDE DEF new
  <2>4. s.members = {}
    BY <1>1, <1>2 DEF Formed
  <2>5. Managed(new) /\ Clean(new, member) /\ KeptMembers(new, member, project)
    BY <1>1, <1>2, <2>3, <2>4 DEF SameAsk, Managed, Clean, KeptMembers
  <2>6. ASSUME Undisturbed(b) PROVE Kept(new, member, project, favorite)
    <3>1. \A m \in member : m.user = s.by /\ project[m.project] = "active" => m.id \in Ids(s.found)
      BY <1>1, <1>2, <2>6 DEF Kept, KeptOrder
    <3>. QED BY <1>1, <1>2, <2>2, <2>3, <2>5, <3>1 DEF SameAsk, Kept, KeptOrder, KeptFavorite
  <2>. QED BY <1>1, <2>1, <2>3, <2>5, <2>6, OnwardAnswered DEF SameAsk
<1>. QED BY <1>3, <1>4

----------------------------------------------------------------------------
(* The steps that change rows, projects or favorites. *)

LEMMA ToggleAnswered ==
    ASSUME PlacesInv, AnsweredInv, NEW b \in Ask, ToggleFavorite(b) PROVE AnsweredInv'
<1>. DEFINE s == ask[b]
            pair == <<s.by, s.on>>
<1>1. /\ Unended(b) /\ UNCHANGED <<project, member, asked, overlaps>> /\ s.step = "toggle"
      /\ s.kind = "favorite"
  BY DEF ToggleFavorite, AtStep, Unended, History
<1>2. s \in AskState /\ Formed(s)
  BY <1>1, AskStands
<1>3. PICK answer \in {"yes", "no", "error"} :
         /\ Ended(b, answer) /\ favorite' \in {favorite, favorite \cup {pair}, favorite \ {pair}}
         /\ answer = "yes" => pair \in favorite'
         /\ answer = "no" => pair \notin favorite'
  BY DEF ToggleFavorite
<1>. DEFINE new == [s EXCEPT !.step = "done", !.answer = answer, !.holds = {}, !.rows = {}]
<1>4. ask' = [ask EXCEPT ![b] = new]
  BY <1>3 DEF Ended, Becomes
<1>5. SameAsk(s, new) /\ new.step = "done" /\ new.answer = answer
  BY <1>2 DEF AskState, SameAsk
<1>. HIDE DEF new
<1>6. s.members = {}
  BY <1>1, <1>2 DEF Formed
<1>7. Managed(new) /\ Clean(new, member)
  BY <1>1, <1>5, <1>6 DEF SameAsk, Managed, Clean
<1>8. Kept(new, member', project', favorite')
  BY <1>1, <1>3, <1>5, <1>6 DEF SameAsk, Kept, KeptMembers, KeptOrder, KeptFavorite
<1>9. Single(member') /\ \A o \in Ask : Clean(ask'[o], member')
  BY <1>1, <1>4, <1>7 DEF AnsweredInv, PlacesInv
<1>10. ASSUME NEW o \in Ask \ {b}, ~ Meet(o, b)
       PROVE  /\ Spares(ask[o], member, member')
              /\ <<ask[o].by, ask[o].on>> \in favorite' <=> <<ask[o].by, ask[o].on>> \in favorite
  <2>1. <<ask[o].by, ask[o].on>> # pair
    BY <1>10 DEF Meet
  <2>2. Spares(ask[o], member, member')
    BY <1>1 DEF Spares
  <2>. QED BY <1>3, <2>1, <2>2
<1>. QED BY <1>1, <1>4, <1>5, <1>7, <1>8, <1>9, <1>10, GoesOnAnswered DEF SameAsk

LEMMA DestroyAnswered ==
    ASSUME PlacesInv, AnsweredInv, NEW b \in Ask, DestroyProject(b) PROVE AnsweredInv'
<1>. DEFINE s == ask[b]
            new == [s EXCEPT !.step = "done", !.answer = "ok", !.holds = {}, !.rows = {}]
<1>1. /\ Unended(b) /\ UNCHANGED <<member, favorite, asked, overlaps>> /\ s.step = "remove"
      /\ s.kind = "delete" /\ project' = [project EXCEPT ![s.on] = "archived"]
      /\ ask' = [ask EXCEPT ![b] = new]
  BY DEF DestroyProject, AtStep, Unended, History, Ended, Becomes
<1>2. s \in AskState /\ Formed(s) /\ project \in [Proj -> {"absent", "active", "archived"}]
  BY <1>1, AskStands DEF PlacesInv
<1>3. SameAsk(s, new) /\ new.step = "done" /\ new.answer = "ok"
  BY <1>2 DEF AskState, SameAsk
<1>. HIDE DEF new
<1>4. s.members = {}
  BY <1>1, <1>2 DEF Formed
<1>5. Managed(new) /\ Clean(new, member) /\ Kept(new, member', project', favorite')
  BY <1>1, <1>3, <1>4
     DEF SameAsk, Managed, Clean, Kept, KeptMembers, KeptOrder, KeptFavorite
<1>6. Single(member') /\ \A o \in Ask : Clean(ask'[o], member')
  BY <1>1, <1>5 DEF AnsweredInv, PlacesInv
<1>7. \A m \in member : project'[m.project] = "active" => project[m.project] = "active"
  BY <1>1, <1>2 DEF PlacesInv, Keys, Member
<1>8. ASSUME NEW o \in Ask \ {b}, ~ Meet(o, b)
      PROVE  /\ Spares(ask[o], member, member')
             /\ ask[o].kind \notin {"none", "reorder"} => project'[ask[o].on] = project[ask[o].on]
  <2>1. ask[o].kind # "reorder" => ask[o].on # s.on
    BY <1>1, <1>8 DEF Meet
  <2>2. Spares(ask[o], member, member')
    BY <1>1 DEF Spares
  <2>3. ask[o].on \in Proj
    BY DEF PlacesInv, AskState
  <2>. QED BY <1>1, <1>2, <2>1, <2>2, <2>3
<1>. QED BY <1>1, <1>3, <1>5, <1>6, <1>7, <1>8, GoesOnAnswered DEF SameAsk

LEMMA UpdateOrdersAnswered ==
    ASSUME PlacesInv, AnsweredInv, NEW b \in Ask, UpdateOrders(b) PROVE AnsweredInv'
<1>. DEFINE s == ask[b]
            mine == {m \in MembershipsOf(s.by) : m.project \in Range(s.ids)}
            New(m) == [m EXCEPT !.order = PlaceIn(s.ids, m.project)]
            new == [s EXCEPT !.step = "done", !.answer = "ok", !.holds = {}, !.rows = {}]
<1>1. /\ Unended(b) /\ UNCHANGED <<project, favorite, asked, overlaps>>
      /\ s.kind = "reorder" /\ s.step = "rows" /\ ask' = [ask EXCEPT ![b] = new]
      /\ member' = (member \ mine) \cup {New(m) : m \in mine}
  BY DEF UpdateOrders, AtStep, Unended, History, Ended, Becomes
<1>2. s \in AskState /\ Formed(s) /\ member \subseteq Member
      /\ (Undisturbed(b) => Kept(s, member, project, favorite))
  BY <1>1, AskStands
<1>3. SameAsk(s, new) /\ new.step = "done" /\ new.answer = "ok"
  BY <1>2 DEF AskState, SameAsk
<1>. HIDE DEF new
<1>4. s.members = {}
  BY <1>1, <1>2 DEF Formed
<1>5. /\ mine \subseteq member /\ \A m \in mine : m.user = s.by /\ m.project \in Range(s.ids)
      /\ \A m \in member : m.user = s.by /\ m.project \in Range(s.ids) => m \in mine
  BY DEF MembershipsOf
<1>. HIDE DEF mine
<1>6. ASSUME NEW m \in mine
      PROVE  /\ New(m) \in member' /\ New(m).id = m.id /\ New(m).user = m.user
             /\ New(m).project = m.project /\ New(m).order = PlaceIn(s.ids, m.project)
  <2>1. m \in Member
    BY <1>2, <1>5
  <2>. QED BY <1>1, <2>1 DEF Member
<1>. HIDE DEF New
\* Each row afterwards is one there was, with its place or a new one.
<1>7. ASSUME NEW n \in member'
      PROVE  \/ n \in member \ mine
             \/ \E m \in mine : /\ n.id = m.id /\ n.user = m.user /\ n.project = m.project
                              /\ n.order = PlaceIn(s.ids, m.project)
  BY <1>1, <1>6
<1>8. \A n \in member' : \E m \in member : m.id = n.id /\ m.user = n.user /\ m.project = n.project
  BY <1>5, <1>7
<1>9. \A m \in member : \E n \in member' : n.id = m.id /\ n.user = m.user /\ n.project = m.project
  BY <1>1, <1>5, <1>6
<1>10. Managed(new)
  BY <1>3, <1>4 DEF SameAsk, Managed
<1>11. Single(member')
  <2>. SUFFICES ASSUME NEW m \in member', NEW n \in member', m # n, m.user = n.user,
                       m.project = n.project
                PROVE  AddedTwice(m.user, m.project)
    BY DEF Single
  <2>1. m.id # n.id
    <3>1. PlacesInv'
      BY UpdateOrdersInPlace
    <3>. QED BY <3>1 DEF PlacesInv, Keys
  <2>2. PICK i \in member : i.id = m.id /\ i.user = m.user /\ i.project = m.project
    BY <1>8
  <2>3. PICK j \in member : j.id = n.id /\ j.user = n.user /\ j.project = n.project
    BY <1>8
  <2>4. i # j /\ Single(member)
    BY <2>1, <2>2, <2>3 DEF AnsweredInv
  <2>. QED BY <2>2, <2>3, <2>4 DEF Single
<1>12. ASSUME NEW o \in Ask PROVE Clean(ask'[o], member')
  <2>1. Clean(ask'[o], member)
    BY <1>1, <1>3 DEF AnsweredInv, PlacesInv, Clean
  <2>. QED BY <1>8, <2>1 DEF Clean
<1>13. ASSUME Undisturbed(b) PROVE Kept(new, member', project', favorite')
  <2>1. ASSUME NEW n \in member', n.user = s.by, project[n.project] = "active"
        PROVE  n.order = PlaceIn(s.ids, n.project)
    <3>1. n \notin member \ mine
      BY <1>1, <1>2, <1>5, <1>13, <2>1 DEF Kept, KeptOrder
    <3>. QED BY <1>7, <2>1, <3>1
  <2>. QED BY <1>1, <1>3, <1>4, <2>1 DEF SameAsk, Kept, KeptMembers, KeptOrder, KeptFavorite
<1>14. ASSUME NEW o \in Ask \ {b}, ~ Meet(o, b) PROVE Spares(ask[o], member, member')
  <2>1. s.by \notin ask[o].members \cup {ask[o].by}
    BY <1>14 DEF Meet
  <2>2. \A n \in member' : n.user # s.by => n \in member
    BY <1>5, <1>7
  <2>3. \A m \in member : m.user # s.by => m \in member'
    BY <1>1, <1>5
  <2>. QED BY <1>8, <1>9, <2>1, <2>2, <2>3 DEF Spares
<1>. QED BY <1>1, <1>3, <1>10, <1>11, <1>12, <1>13, <1>14, GoesOnAnswered DEF SameAsk

LEMMA CommitAnswered ==
    ASSUME PlacesInv, AnsweredInv, NEW b \in Ask, CommitMembers(b) PROVE AnsweredInv'
<1>. DEFINE s == ask[b]
            new == [s EXCEPT !.step = "read", !.holds = {}, !.rows = {}]
            old == {m \in member : m.id \notin s.removed}
<1>1. /\ Unended(b) /\ UNCHANGED <<favorite, asked, overlaps>> /\ ask' = [ask EXCEPT ![b] = new]
      /\ s.step = "commit" /\ s.kind \in {"create", "update"} /\ member' = old \cup s.added
      /\ project' = [project EXCEPT ![s.on] = IF s.kind = "create" THEN "active" ELSE @]
  BY DEF CommitMembers, AtStep, Unended, Becomes, History
<1>2. s \in AskState /\ Formed(s) /\ Relies(s, member, project) /\ Managed(s)
      /\ Clean(s, member) /\ (Undisturbed(b) => Kept(s, member, project, favorite))
      /\ member \subseteq Member /\ project \in [Proj -> {"absent", "active", "archived"}]
  BY <1>1, AskStands DEF PlacesInv
<1>3. SameAsk(s, new) /\ new.step = "read" /\ new.answer = s.answer /\ new.added = s.added
  BY <1>2 DEF AskState, SameAsk
<1>. HIDE DEF new
<1>4. /\ old \subseteq member /\ \A m \in old : m.id \notin s.removed
      /\ \A m \in member : m \notin old => m.id \in s.removed /\ m.project = s.on
  BY <1>1, <1>2 DEF Clean
<1>5. /\ \A m \in s.added : /\ m.user \in NewOf(s) /\ m.user \in s.members /\ m.project = s.on
                            /\ m.order = s.next[m.user] /\ m.order \in Nat
                            /\ \A o \in Ask : m.id \notin ask[o].removed
      /\ \A m, n \in s.added : m.user = n.user => m = n
  <2>1. \A m \in s.added : m.user \in NewOf(s) /\ m.project = s.on /\ m.order = s.next[m.user]
    BY <1>1, <1>2 DEF Formed
  <2>2. \A m \in s.added : m.user \in s.members
    BY <2>1 DEF NewOf
  <2>3. \A m \in s.added : m.order \in Nat
    BY <1>2 DEF AskState, Member
  <2>4. \A m \in s.added : \A o \in Ask : m.id \notin ask[o].removed
    BY <1>1 DEF PlacesInv, Keys
  <2>5. \A m, n \in s.added : m.user = n.user => m = n
    BY <1>1, <1>2 DEF Formed
  <2>. QED BY <2>1, <2>2, <2>3, <2>4, <2>5
<1>. HIDE DEF old
\* A new member is one for the first time, or was added twice.
<1>6. \A n \in s.added, m \in member :
         m.project = s.on /\ m.user = n.user => AddedTwice(n.user, s.on)
  <2>1. s.kind = "create" => \A m \in member : m.project # s.on
    BY <1>1, NoMembersYet
  <2>. QED BY <1>1, <1>2, <1>5, <2>1 DEF Clean
<1>7. \A m \in member : project'[m.project] = project[m.project]
  BY <1>1, <1>2 DEF PlacesInv, Keys, Member, Relies
<1>8. Managed(new)
  BY <1>1, <1>2, <1>3 DEF SameAsk, Managed
<1>9. Single(member')
  <2>. SUFFICES ASSUME NEW m \in member', NEW n \in member', m # n, m.user = n.user,
                       m.project = n.project
                PROVE  AddedTwice(m.user, m.project)
    BY DEF Single
  <2>1. CASE m \in old /\ n \in old
    BY <1>4, <2>1 DEF AnsweredInv, Single
  <2>2. CASE m \in old /\ n \notin old
    BY <1>1, <1>4, <1>5, <1>6, <2>2
  <2>3. CASE m \notin old /\ n \in old
    BY <1>1, <1>4, <1>5, <1>6, <2>3
  <2>4. CASE m \notin old /\ n \notin old
    BY <1>1, <1>5, <2>4
  <2>. QED BY <2>1, <2>2, <2>3, <2>4
<1>10. ASSUME NEW o \in Ask PROVE Clean(ask'[o], member')
  <2>1. CASE o = b
    BY <1>1, <1>2, <1>3, <2>1 DEF Clean, PlacesInv
  <2>2. CASE o # b
    <3>1. ask'[o] = ask[o] /\ Clean(ask[o], member)
      BY <1>1, <2>2 DEF AnsweredInv, PlacesInv
    <3>2. ask[o].step \in {"orders", "add", "commit"} =>
             \A m \in member' : m.id \in ask[o].removed => m.project = ask[o].on
      BY <1>1, <1>4, <1>5, <3>1 DEF Clean
    <3>3. ASSUME ask[o].kind = "update", ask[o].step \in {"remove", "orders", "add", "commit"},
                 NEW m \in member', m.project = ask[o].on, m.user \in NewOf(ask[o])
          PROVE  AddedTwice(m.user, ask[o].on)
      <4>1. CASE m \in old
        BY <1>4, <3>1, <3>3, <4>1 DEF Clean
      <4>2. CASE m \notin old
        <5>1. m.project = s.on /\ m.user \in s.members /\ m.user \in ask[o].members
          BY <1>1, <1>5, <3>3, <4>2 DEF NewOf
        <5>2. {b, o} \in overlaps
          BY <1>1, <2>2, <3>3, TwoRequests DEF Unended
        <5>. QED BY <3>3, <5>1, <5>2 DEF AddedTwice
      <4>. QED BY <4>1, <4>2
    <3>. QED BY <3>1, <3>2, <3>3 DEF Clean
  <2>. QED BY <2>1, <2>2
<1>11. ASSUME Undisturbed(b) PROVE Kept(new, member', project', favorite')
  <2>1. ASSUME s.members # {}
        PROVE  /\ UsersOf({m \in member' : m.project = s.on}) = s.members
               /\ \A m \in s.added : /\ m \in member' /\ m.project = s.on /\ m.user \in s.members
                                     /\ \A n \in member' : n.user = m.user => n.order <= m.order
    <3>1. UsersOf({m \in member : m.project = s.on /\ m.id \notin s.removed})
             = s.members \ NewOf(s)
      BY <1>1, <1>2, <1>11, <2>1 DEF Kept, KeptMembers
    <3>2. UsersOf(s.added) = NewOf(s) /\ NewOf(s) \subseteq s.members
      BY <1>1, <1>2, <2>1 DEF Managed, NewOf
    <3>3. {m \in member' : m.project = s.on}
             = {m \in member : m.project = s.on /\ m.id \notin s.removed} \cup s.added
      BY <1>1, <1>5 DEF old
    <3>4. UsersOf({m \in member' : m.project = s.on})
             = UsersOf({m \in member : m.project = s.on /\ m.id \notin s.removed})
                  \cup UsersOf(s.added)
      BY <3>3 DEF UsersOf
    <3>5. UsersOf({m \in member' : m.project = s.on}) = s.members
      BY <3>1, <3>2, <3>4
    <3>6. ASSUME NEW m \in s.added, NEW n \in member', n.user = m.user PROVE n.order <= m.order
      <4>1. CASE n \in old
        <5>1. n.order < s.next[m.user] /\ n.order \in Nat
          BY <1>1, <1>2, <1>4, <1>5, <1>11, <3>6, <4>1 DEF Kept, KeptMembers, Member
        <5>. QED BY <1>5, <3>6, <5>1
      <4>2. CASE n \notin old
        <5>1. n = m
          BY <1>1, <1>5, <3>6, <4>2
        <5>. QED BY <1>5, <5>1
      <4>. QED BY <4>1, <4>2
    <3>. QED BY <1>1, <1>5, <3>5, <3>6
  <2>2. new.answer # "ok"
    BY <1>1, <1>2, <1>3 DEF Managed
  <2>3. KeptMembers(new, member', project')
    BY <1>3, <2>1, <2>2 DEF SameAsk, KeptMembers
  <2>. QED BY <1>1, <1>3, <2>3 DEF SameAsk, Kept, KeptOrder, KeptFavorite
<1>12. ASSUME NEW o \in Ask \ {b}, ~ Meet(o, b)
       PROVE  /\ Spares(ask[o], member, member')
              /\ ask[o].kind \notin {"none", "reorder"} => project'[ask[o].on] = project[ask[o].on]
  <2>1. (ask[o].members \cup {ask[o].by}) \cap s.members = {}
        /\ (ask[o].kind # "reorder" => ask[o].on # s.on)
    BY <1>1, <1>12 DEF Meet
  <2>2. \A n \in member' : n.user \in ask[o].members \cup {ask[o].by} => n \in member
    BY <1>1, <1>4, <1>5, <2>1
  <2>3. ask[o].kind # "reorder" =>
           /\ \A m \in member : m.project = ask[o].on => m \in member'
           /\ \A n \in member' : n.project = ask[o].on => n \in member
    BY <1>1, <1>4, <1>5, <2>1
  <2>4. Spares(ask[o], member, member')
    BY <2>2, <2>3 DEF Spares
  <2>5. ask[o].on \in Proj
    BY DEF PlacesInv, AskState
  <2>. QED BY <1>1, <1>2, <2>1, <2>4, <2>5
<1>. QED BY <1>1, <1>3, <1>7, <1>8, <1>9, <1>10, <1>11, <1>12, GoesOnAnswered DEF SameAsk

----------------------------------------------------------------------------

LEMMA InitiallyAnswered == ProjectsInit => AnsweredInv
<1>. SUFFICES ASSUME ProjectsInit PROVE AnsweredInv
  OBVIOUS
<1>1. \A a \in Ask : ask[a] = NoAsk
  BY DEF ProjectsInit
<1>2. NoAsk.kind = "none" /\ NoAsk.step = "idle" /\ NoAsk.members = {} /\ NoAsk.answer = "none"
  BY DEF NoAsk
<1>3. Told
  BY <1>1, <1>2 DEF Told, ProjectsInit
<1>4. Single(member)
  BY ProjectsAssumption DEF Single, ProjectsInit, ProjectsAssumption
<1>5. Managed(NoAsk) /\ Clean(NoAsk, member)
  BY <1>2 DEF Managed, Clean
<1>. QED BY <1>1, <1>2, <1>3, <1>4, <1>5 DEF AnsweredInv

LEMMA StaysAnswered == PlacesInv /\ AnsweredInv /\ [ProjectsNext]_projectsVars => AnsweredInv'
<1>. SUFFICES ASSUME PlacesInv, AnsweredInv, [ProjectsNext]_projectsVars PROVE AnsweredInv'
  OBVIOUS
<1>1. CASE UNCHANGED projectsVars
  <2>1. /\ project' = project /\ member' = member /\ favorite' = favorite /\ ask' = ask
        /\ asked' = asked /\ overlaps' = overlaps
    BY <1>1 DEF projectsVars
  <2>2. Told'
    BY <2>1 DEF AnsweredInv, Told
  <2>3. Single(member)'
    BY <2>1 DEF AnsweredInv, Single, AddedTwice
  <2>4. \A a \in Ask : Managed(ask[a])' /\ Clean(ask[a], member)'
    BY <2>1 DEF AnsweredInv, Managed, Clean, AddedTwice, UsersOf, NewOf
  <2>5. ASSUME NEW a \in Ask, ask[a]'.kind # "none", Undisturbed(a)'
        PROVE  Kept(ask[a], member, project, favorite)'
    <3>1. Undisturbed(a) /\ ask[a].kind # "none"
      BY <2>1, <2>5 DEF Undisturbed, Meet
    <3>2. Kept(ask[a], member, project, favorite)
      BY <3>1 DEF AnsweredInv
    <3>. QED BY <2>1, <3>2 DEF Kept, KeptMembers, KeptOrder, KeptFavorite, UsersOf, NewOf, Ids,
                               PlaceIn
  <2>. QED BY <2>2, <2>3, <2>4, <2>5 DEF AnsweredInv
<1>2. CASE ProjectsNext
  BY <1>2, AsksAnswered, ChecksAnswered, ReadExistingAnswered, RemoveMembersAnswered,
     GetNextAnswered, AddMembersAnswered, CommitAnswered, ReadAnswerAnswered, DestroyAnswered,
     SelectAnswered, LockAnswered, UpdateOrdersAnswered, ToggleAnswered DEF ProjectsNext
<1>. QED BY <1>1, <1>2

\* For every number of requests, users and projects: from its first statement on, a request
\* that no other one about its project or users ran with or followed keeps what it has found
\* and written; a user is in a project once, or was added by two requests at one time.
THEOREM AnsweredInvariant == ProjectsSpec => []AnsweredInv
<1>1. PlacesInv /\ PlacesInv' /\ AnsweredInv /\ [ProjectsNext]_projectsVars => AnsweredInv'
  BY StaysAnswered
<1>. QED BY <1>1, InitiallyAnswered, PlacesInvariant, PTL DEF ProjectsSpec

\* The greatest of some numbers.
LEMMA MaxIsThe ==
    ASSUME NEW S \in SUBSET Nat, NEW x \in S, \A y \in S : y <= x
    PROVE  Max(S) = x
<1>1. \E z \in S : \A y \in S : z >= y
  OBVIOUS
<1>2. Max(S) \in S /\ \A y \in S : Max(S) >= y
  BY <1>1 DEF Max
<1>3. PICK greatest : greatest = Max(S)
  OBVIOUS
<1>4. greatest \in Nat /\ x \in Nat /\ greatest >= x /\ greatest <= x
  BY <1>2, <1>3
<1>5. greatest = x
  BY <1>4
<1>. QED BY <1>3, <1>5

\* What an answered request promised still holds (create, update, reorder, toggleFavorite) if
\* no other one about the same project or user ran with it or came after it.
THEOREM AnsweredHolds == ProjectsSpec => []AnsweredIsDone
<1>1. PlacesInv /\ AnsweredInv => AnsweredIsDone
  <2>. SUFFICES ASSUME PlacesInv, AnsweredInv, NEW i \in DOMAIN asked, Undisturbed(asked[i])
                PROVE  LET a == asked[i] IN
        /\ ask[a].members # {} /\ ask[a].answer = "ok" =>
              /\ {m.user : m \in MembershipsIn(ask[a].on)} = ask[a].members
              /\ Creator[ask[a].on] \in ask[a].members
              /\ \A m, n \in MembershipsIn(ask[a].on) :
                    m # n /\ m.user = n.user => AddedTwice(m.user, ask[a].on)
              /\ \A m \in ask[a].added : m.order = Max(Orders(m.user))
        /\ ask[a].kind = "reorder" /\ ask[a].answer = "ok" =>
              \A m \in MembershipsOf(ask[a].by) :
                  ActiveProject(m.project) => m.order = PlaceIn(ask[a].ids, m.project)
        /\ ask[a].kind = "favorite" /\ ask[a].step = "done" /\ ask[a].answer # "error" =>
              (ask[a].answer = "yes") = (<<ask[a].by, ask[a].on>> \in favorite)
    BY DEF AnsweredIsDone, Range
  <2>. DEFINE a == asked[i]
              s == ask[a]
  <2>1. a \in Ask /\ Kept(s, member, project, favorite) /\ Managed(s) /\ s \in AskState
    BY DEF AnsweredInv, Told, PlacesInv
  <2>2. ASSUME s.members # {}, s.answer = "ok"
        PROVE  /\ {m.user : m \in MembershipsIn(s.on)} = s.members
               /\ Creator[s.on] \in s.members
               /\ \A m, n \in MembershipsIn(s.on) :
                     m # n /\ m.user = n.user => AddedTwice(m.user, s.on)
               /\ \A m \in s.added : m.order = Max(Orders(m.user))
    <3>1. {m.user : m \in MembershipsIn(s.on)} = s.members
      BY <2>1, <2>2 DEF Kept, KeptMembers, UsersOf, MembershipsIn
    <3>2. Creator[s.on] \in s.members
      BY <2>1, <2>2 DEF Managed
    <3>3. \A m, n \in MembershipsIn(s.on) :
             m # n /\ m.user = n.user => AddedTwice(m.user, s.on)
      BY DEF AnsweredInv, Single, MembershipsIn
    <3>4. ASSUME NEW m \in s.added PROVE m.order = Max(Orders(m.user))
      <4>1. /\ m \in member /\ m.project = s.on /\ project[s.on] = "active"
            /\ \A n \in member : n.user = m.user => n.order <= m.order
        BY <2>1, <2>2 DEF Kept, KeptMembers
      <4>2. Orders(m.user) \in SUBSET Nat
        BY DEF PlacesInv, Keys, Member, Orders, MembershipsOf
      <4>3. m.order \in Orders(m.user) /\ \A x \in Orders(m.user) : x <= m.order
        BY <4>1 DEF Orders, MembershipsOf, ActiveProject
      <4>. QED BY <4>2, <4>3, MaxIsThe
    <3>. QED BY <3>1, <3>2, <3>3, <3>4
  <2>3. ASSUME s.kind = "reorder", s.answer = "ok", NEW m \in MembershipsOf(s.by),
               ActiveProject(m.project)
        PROVE  m.order = PlaceIn(s.ids, m.project)
    BY <2>1, <2>3 DEF Kept, KeptOrder, MembershipsOf, ActiveProject
  <2>4. s.kind = "favorite" /\ s.step = "done" /\ s.answer # "error" =>
           (s.answer = "yes") = (<<s.by, s.on>> \in favorite)
    BY <2>1 DEF Kept, KeptFavorite
  <2>. QED BY <2>2, <2>3, <2>4
<1>. QED BY <1>1, PlacesInvariant, AnsweredInvariant, PTL
===============================================================================
