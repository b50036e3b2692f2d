--------------------------- MODULE OperationsProofs ---------------------------
(***************************************************************************)
(* Requests that can stop half-way and be sent again: McpOperations keeps  *)
(* the promise of OnceOnly, and Attachments keeps AttachedFilesHaveRows,   *)
(* for every number of calls, keys, inputs, requests, objects and rows.    *)
(***************************************************************************)
EXTENDS McpOperations, Attachments, TLAPS

----------------------------------------------------------------------------
(* McpOperations. *)

\* The strengthening: rows with one owner, and results that were performed.
Inv == RowsHaveOneOwner /\ ResultIsPerformed

LEMMA InitInv == Init => Inv
BY McpOperationsAssumption DEF Init, Inv, RowsHaveOneOwner, ResultIsPerformed, Record, CallState, Owner

\* A step of one call leaves the other calls, and its own key and input, alone.
LEMMA OwnCall ==
    ASSUME Inv, NEW c \in Call, NEW new \in CallState, call' = [call EXCEPT ![c] = new],
           new.key = call[c].key, new.input = call[c].input
    PROVE  /\ call' \in [Call -> CallState]
           /\ call'[c] = new
           /\ \A d \in Call \ {c} : call'[d] = call[d]
           /\ \A d \in Call : call'[d].key = call[d].key /\ call'[d].input = call[d].input
<1>1. call \in [Call -> CallState]
  BY DEF Inv, RowsHaveOneOwner
<1> QED
  BY <1>1

LEMMA FinishCall ==
    ASSUME Inv, NEW c \in Call, NEW answer \in {"result", "mismatch", "busy", "error", "lost"},
           NEW value \in Call \cup {None}, Finish(c, answer, value)
    PROVE  /\ call' \in [Call -> CallState]
           /\ call'[c].step = "done" /\ call'[c].answer = answer /\ call'[c].value = value
           /\ \A d \in Call \ {c} : call'[d] = call[d]
           /\ \A d \in Call : call'[d].key = call[d].key /\ call'[d].input = call[d].input
<1> DEFINE new == [call[c] EXCEPT !.step = "done", !.answer = answer, !.value = value]
<1>1. call[c] \in CallState
  BY DEF Inv, RowsHaveOneOwner
<1>2. new \in CallState
  BY <1>1 DEF CallState
<1>3. new.key = call[c].key /\ new.input = call[c].input
  BY <1>1 DEF CallState
<1>4. new.step = "done" /\ new.answer = answer /\ new.value = value
  BY <1>1 DEF CallState
<1>5. call' = [call EXCEPT ![c] = new]
  BY DEF Finish
<1> HIDE DEF new
<1> QED
  BY <1>2, <1>3, <1>4, <1>5, OwnCall

LEMMA ToCall ==
    ASSUME Inv, NEW c \in Call, NEW step \in {"run", "store", "fail"}, To(c, step)
    PROVE  /\ call' \in [Call -> CallState]
           /\ call'[c].step = step /\ call'[c].answer = call[c].answer /\ call'[c].value = call[c].value
           /\ \A d \in Call \ {c} : call'[d] = call[d]
           /\ \A d \in Call : call'[d].key = call[d].key /\ call'[d].input = call[d].input
<1> DEFINE new == [call[c] EXCEPT !.step = step]
<1>1. call[c] \in CallState
  BY DEF Inv, RowsHaveOneOwner
<1>2. new \in CallState
  BY <1>1 DEF CallState
<1>3. new.key = call[c].key /\ new.input = call[c].input
  BY <1>1 DEF CallState
<1>4. new.step = step /\ new.answer = call[c].answer /\ new.value = call[c].value
  BY <1>1 DEF CallState
<1>5. call' = [call EXCEPT ![c] = new]
  BY DEF To
<1> HIDE DEF new
<1> QED
  BY <1>2, <1>3, <1>4, <1>5, OwnCall

----------------------------------------------------------------------------

LEMMA IssueKeeps ==
    ASSUME Inv, NEW c \in Call, NEW k \in Key, NEW i \in Input, Issue(c, k, i) PROVE Inv'
<1> DEFINE new == [call[c] EXCEPT !.step = "claim", !.key = k, !.input = i]
<1>1. call \in [Call -> CallState] /\ call[c].step = "idle"
  BY DEF Inv, RowsHaveOneOwner, Issue
<1>2. c \notin performed /\ call[c].answer = "none"
  BY <1>1 DEF Inv, RowsHaveOneOwner
<1>3. new \in CallState /\ new.step = "claim" /\ new.key = k /\ new.input = i /\ new.answer = call[c].answer
      /\ new.value = call[c].value
  BY <1>1 DEF CallState
<1>4. call' = [call EXCEPT ![c] = new] /\ record' = record /\ performed' = performed
  BY DEF Issue
<1> HIDE DEF new
<1>5. call' \in [Call -> CallState] /\ call'[c] = new /\ \A d \in Call \ {c} : call'[d] = call[d]
  BY <1>1, <1>3, <1>4
<1> QED
  BY <1>1, <1>2, <1>3, <1>4, <1>5, McpOperationsAssumption
  DEF Inv, RowsHaveOneOwner, ResultIsPerformed, Owner

LEMMA StartKeeps == ASSUME Inv, NEW c \in Call, StartOperation(c) PROVE Inv'
<1> DEFINE k == call[c].key
           row == [status |-> "pending", input |-> call[c].input, result |-> None]
<1>1. k \in Key /\ call[c].input \in Input /\ c \notin performed
  BY DEF Inv, RowsHaveOneOwner, StartOperation
<1>2. record[k].status = "absent" /\ record' = [record EXCEPT ![k] = row] /\ To(c, "run") /\ performed' = performed
  BY DEF StartOperation
<1>3. row \in Record /\ row.status = "pending" /\ row.input = call[c].input
  BY <1>1 DEF Record
<1> HIDE DEF row, k
<1>4. record' \in [Key -> Record] /\ record'[k] = row /\ \A l \in Key \ {k} : record'[l] = record[l]
  BY <1>1, <1>2, <1>3 DEF Inv, RowsHaveOneOwner
<1>5. \A d \in Call : Owner(d) => call[d].key \in Key \ {k}
  BY <1>2 DEF Inv, RowsHaveOneOwner, Owner
<1> QED
  <2>1. /\ call' \in [Call -> CallState]
        /\ call'[c].step = "run" /\ call'[c].answer = call[c].answer /\ call'[c].value = call[c].value
        /\ \A d \in Call \ {c} : call'[d] = call[d]
        /\ \A d \in Call : call'[d].key = call[d].key /\ call'[d].input = call[d].input
    BY <1>2, ToCall
  <2>2. \A d \in Call : Owner(d)' <=> Owner(d) \/ d = c
    BY <1>2, <2>1 DEF Owner
  <2>3. call[c].key = k /\ call[c].step = "claim" /\ call[c].answer = "none"
    BY DEF k, StartOperation, Inv, RowsHaveOneOwner
  <2>4. \A d \in Call : Owner(d)' => /\ record'[call'[d].key].status # "absent"
                                    /\ record'[call'[d].key].input = call'[d].input
                                    /\ \A e \in Call : Owner(e)' /\ call'[e].key = call'[d].key => e = d
    BY <1>1, <1>3, <1>4, <1>5, <2>1, <2>2, <2>3 DEF Inv, RowsHaveOneOwner
  <2>5. RowsHaveOneOwner'
    BY <1>1, <1>2, <1>3, <1>4, <2>1, <2>3, <2>4 DEF Inv, RowsHaveOneOwner
  <2>6. ResultIsPerformed'
    BY <1>2, <2>1, <2>3 DEF Inv, RowsHaveOneOwner, ResultIsPerformed
  <2> QED
    BY <2>5, <2>6 DEF Inv

LEMMA RepeatKeeps == ASSUME Inv, NEW c \in Call, Repeat(c) PROVE Inv'
<1> DEFINE r == record[call[c].key]
           answer == AnswerTo(r, call[c].input)
           value == IF answer = "result" THEN r.result ELSE None
<1>1. /\ call[c].step = "claim" /\ call[c].key \in Key /\ c \notin performed
      /\ r \in Record /\ r.status # "absent"
  BY DEF Repeat, Inv, RowsHaveOneOwner
<1>2. /\ answer \in {"result", "mismatch", "busy", "error"}
      /\ answer = "result" => r.status = "completed" /\ r.input = call[c].input
  BY <1>1 DEF AnswerTo, Record
<1>3. value \in Call \cup {None}
  BY <1>1 DEF Record
<1>4. Finish(c, answer, value) /\ record' = record /\ performed' = performed
  BY DEF Repeat
<1>5. answer = "result" => /\ value \in performed /\ call[value].key = call[c].key
                           /\ call[value].input = call[c].input
  BY <1>1, <1>2 DEF Inv, RowsHaveOneOwner, Owner
<1> HIDE DEF r, answer, value
<1> QED
  BY <1>1, <1>2, <1>3, <1>4, <1>5, FinishCall DEF Inv, RowsHaveOneOwner, ResultIsPerformed, Owner

\* A call that owns its row performs its operation, or stops before it has.
LEMMA RunKeeps ==
    ASSUME Inv, NEW c \in Call, Perform(c) \/ PerformThenThrow(c) \/ Reject(c) PROVE Inv'
<1>1. call[c].step = "run" /\ c \notin performed /\ record' = record
  BY DEF Perform, PerformThenThrow, Reject, Inv, RowsHaveOneOwner
<1>2. Owner(c) /\ call[c].key \in Key
  BY <1>1 DEF Owner, Inv, RowsHaveOneOwner
<1>3. PICK step \in {"store", "fail"} :
         To(c, step) /\ (performed' = performed \cup {c} \/ (step = "fail" /\ performed' = performed))
  BY DEF Perform, PerformThenThrow, Reject
<1> QED
  BY <1>1, <1>2, <1>3, ToCall DEF Inv, RowsHaveOneOwner, ResultIsPerformed, Owner

LEMMA CompletedRow ==
    ASSUME Inv, NEW c \in Call, call[c].step = "store"
    PROVE  /\ Completed(c) \in [Key -> Record]
           /\ Completed(c)[call[c].key].status = "completed"
           /\ Completed(c)[call[c].key].result = c
           /\ Completed(c)[call[c].key].input = record[call[c].key].input
           /\ \A k \in Key \ {call[c].key} : Completed(c)[k] = record[k]
<1> DEFINE k == call[c].key
           row == [record[k] EXCEPT !.status = "completed", !.result = c]
<1>1. k \in Key /\ record \in [Key -> Record] /\ record[k] \in Record
  BY DEF Inv, RowsHaveOneOwner
<1>2. row \in Record /\ row.status = "completed" /\ row.result = c /\ row.input = record[k].input
  BY <1>1 DEF Record
<1>3. Completed(c) = [record EXCEPT ![k] = row]
  BY DEF Completed
<1> HIDE DEF row, k
<1>4. /\ Completed(c) \in [Key -> Record] /\ Completed(c)[k] = row
      /\ \A l \in Key \ {k} : Completed(c)[l] = record[l]
  BY <1>1, <1>2, <1>3
<1> QED
  BY <1>2, <1>4 DEF k

LEMMA StoreResultKeeps ==
    ASSUME Inv, NEW c \in Call, StoreResult(c) \/ StoreResultThrows(c) PROVE Inv'
<1>1. call[c].step = "store" /\ c \in performed /\ performed' = performed
  BY DEF StoreResult, StoreResultThrows, Inv, RowsHaveOneOwner
<1>2. Owner(c) /\ call[c].key \in Key
  BY <1>1 DEF Owner, Inv, RowsHaveOneOwner
<1>3. record' \in [Key -> Record]
      /\ \A k \in Key : \/ record'[k] = record[k]
                        \/ /\ k = call[c].key /\ record'[k].status = "completed"
                           /\ record'[k].result = c /\ record'[k].input = record[k].input
  BY <1>1, CompletedRow DEF StoreResult, StoreResultThrows, Inv, RowsHaveOneOwner
<1>4. /\ call' \in [Call -> CallState]
      /\ call'[c].step \in {"done", "fail"}
      /\ call'[c].step # "done" => call'[c].answer = "none"
      /\ call'[c].answer = "result" => call'[c].value = c
      /\ \A d \in Call \ {c} : call'[d] = call[d]
      /\ \A d \in Call : call'[d].key = call[d].key /\ call'[d].input = call[d].input
  <2>1. call[c].answer = "none"
    BY <1>1 DEF Inv, RowsHaveOneOwner
  <2>2. CASE StoreResult(c)
    <3>1. Finish(c, "result", c)
      BY <2>2 DEF StoreResult
    <3> QED
      BY <3>1, FinishCall
  <2>3. CASE StoreResultThrows(c)
    <3>1. To(c, "fail")
      BY <2>3 DEF StoreResultThrows
    <3> QED
      BY <2>1, <3>1, ToCall
  <2> QED
    BY <2>2, <2>3
<1> QED
  BY <1>1, <1>2, <1>3, <1>4 DEF Inv, RowsHaveOneOwner, ResultIsPerformed, Owner

LEMMA StoreErrorKeeps == ASSUME Inv, NEW c \in Call, StoreError(c) PROVE Inv'
<1> DEFINE k == call[c].key
           row == [record[k] EXCEPT !.status = "failed"]
<1>1. call[c].step = "fail" /\ performed' = performed /\ Finish(c, "error", None) /\ k \in Key
  BY DEF StoreError, Inv, RowsHaveOneOwner
<1>2. row \in Record /\ row.status = "failed" /\ row.input = record[k].input
  BY <1>1 DEF Record, Inv, RowsHaveOneOwner
<1>3. record' \in {record, [record EXCEPT ![k] = row]}
  BY DEF StoreError
<1> HIDE DEF row
<1>4. record' \in [Key -> Record]
      /\ \A l \in Key : \/ record'[l] = record[l]
                        \/ l = k /\ record'[l].status = "failed" /\ record'[l].input = record[l].input
  BY <1>1, <1>2, <1>3 DEF Inv, RowsHaveOneOwner
<1> QED
  BY <1>1, <1>4, FinishCall DEF Inv, RowsHaveOneOwner, ResultIsPerformed, Owner

LEMMA CrashKeeps == ASSUME Inv, NEW c \in Call, Crash(c) PROVE Inv'
BY FinishCall DEF Crash, Inv, RowsHaveOneOwner, ResultIsPerformed, Owner

LEMMA NextInv == Inv /\ [Next]_vars => Inv'
<1> SUFFICES ASSUME Inv, [Next]_vars PROVE Inv'
  OBVIOUS
<1>1. CASE UNCHANGED vars
  BY <1>1 DEF vars, Inv, RowsHaveOneOwner, ResultIsPerformed, Owner
<1>2. CASE Next
  BY <1>2, IssueKeeps, StartKeeps, RepeatKeeps, RunKeeps, StoreResultKeeps, StoreErrorKeeps, CrashKeeps
  DEF Next, Serve
<1> QED
  BY <1>1, <1>2

\* Under one key one call at most ever runs the operation, and the row remembers
\* that call's parameters and result.
THEOREM OneOwner == Spec => []RowsHaveOneOwner
<1>1. Inv => RowsHaveOneOwner
  BY DEF Inv
<1> QED
  BY <1>1, InitInv, NextInv, PTL DEF Spec

\* Results are given only for committed effects of the same key and parameters.
THEOREM ResultsArePerformed == Spec => []ResultIsPerformed
<1>1. Inv => ResultIsPerformed
  BY DEF Inv
<1> QED
  BY <1>1, InitInv, NextInv, PTL DEF Spec

\* Repeated, crossed, lost and failed calls commit an operation at most once.
THEOREM AtMostOnce == Spec => []PerformedOnce
<1>1. Inv => PerformedOnce
  BY DEF Inv, RowsHaveOneOwner, PerformedOnce, Owner
<1> QED
  BY <1>1, InitInv, NextInv, PTL DEF Spec

----------------------------------------------------------------------------
(* The refinement: a call that performs its operation is Perform, a call that *)
(* is given a result is Return, every other step is a stutter.                *)

Effects(k) == {<<c, call[c].input>> : c \in {d \in performed : call[d].key = k}}
Returned(k) == {<<call[c].value, call[c].input>> :
                   c \in {d \in Call : call[d].answer = "result" /\ call[d].key = k}}

\* The mapped variables stay when no call is given a result and nothing is performed.
LEMMA Stutter ==
    ASSUME Inv, performed' = performed,
           \A d \in performed : call'[d].key = call[d].key /\ call'[d].input = call[d].input,
           \A d \in Call : call'[d] # call[d] => call[d].answer # "result" /\ call'[d].answer # "result"
    PROVE  UNCHANGED <<[k \in Key |-> Effects(k)], [k \in Key |-> Returned(k)]>>
<1>1. ASSUME NEW k \in Key PROVE Effects(k)' = Effects(k)
  BY DEF Effects
<1>2. ASSUME NEW k \in Key PROVE Returned(k)' = Returned(k)
  BY DEF Returned
<1> QED
  BY <1>1, <1>2

\* The results of a key are those of its one effect.
LEMMA ReturnedOfEffect ==
    ASSUME Inv, NEW k \in Key, NEW c \in performed, call[c].key = k
    PROVE  Effects(k) = {<<c, call[c].input>>} /\ Returned(k) \subseteq Effects(k)
<1>1. \A d \in performed : call[d].key = k => d = c
  BY DEF Inv, RowsHaveOneOwner, Owner
<1> QED
  BY <1>1 DEF Effects, Returned, Inv, ResultIsPerformed, RowsHaveOneOwner

LEMMA PerformSimulates ==
    ASSUME Inv, NEW c \in Call, Perform(c) \/ PerformThenThrow(c) PROVE Promise!Next
<1>0. PICK k \in Key : k = call[c].key
  BY DEF Perform, PerformThenThrow, Inv, RowsHaveOneOwner
<1>1. /\ call[c].step = "run" /\ c \notin performed /\ performed' = performed \cup {c}
      /\ call[c].input \in Input
  BY DEF Perform, PerformThenThrow, Inv, RowsHaveOneOwner
<1>2. /\ call'[c].answer = "none" /\ call[c].answer = "none"
      /\ \A d \in Call \ {c} : call'[d] = call[d]
      /\ \A d \in Call : call'[d].key = call[d].key /\ call'[d].input = call[d].input
  <2>1. call[c].answer = "none"
    BY <1>1 DEF Inv, RowsHaveOneOwner
  <2> QED
    BY <2>1, ToCall DEF Perform, PerformThenThrow
<1>3. \A d \in performed : d \in Call \ {c} /\ call[d].key # k
  BY <1>0, <1>1 DEF Inv, RowsHaveOneOwner, Owner
<1>4. Effects(k) = {}
  BY <1>3 DEF Effects
<1>5. Effects(k)' = {<<c, call[c].input>>}
  BY <1>0, <1>1, <1>2, <1>3 DEF Effects
<1>6. \A l \in Key \ {k} : Effects(l)' = Effects(l)
  BY <1>0, <1>1, <1>2, <1>3 DEF Effects
<1>7. \A l \in Key : Returned(l)' = Returned(l)
  BY <1>2 DEF Returned
<1>8. [l \in Key |-> Effects(l)]' = [[l \in Key |-> Effects(l)] EXCEPT ![k] = {<<c, call[c].input>>}]
  BY <1>1, <1>5, <1>6
<1>9. [l \in Key |-> Returned(l)]' = [l \in Key |-> Returned(l)]
  BY <1>7
<1>10. \E e \in Call, i \in Input :
          [l \in Key |-> Effects(l)]' = [[l \in Key |-> Effects(l)] EXCEPT ![k] = {<<e, i>>}]
  BY <1>1, <1>8
<1>11. [l \in Key |-> Effects(l)][k] = {}
  BY <1>4
<1> QED
  BY <1>9, <1>10, <1>11 DEF Promise!Next, Promise!Perform, Effects, Returned

LEMMA ReturnSimulates ==
    ASSUME Inv, NEW c \in Call, NEW e \in performed, call[e].key = call[c].key,
           call[e].input = call[c].input, call[c].step # "idle", call[c].answer = "none",
           performed' = performed, Finish(c, "result", e)
    PROVE  Promise!Next
<1>0. PICK k \in Key : k = call[c].key
  BY DEF Inv, RowsHaveOneOwner
<1>1. /\ call'[c].answer = "result" /\ call'[c].value = e
      /\ \A d \in Call \ {c} : call'[d] = call[d]
      /\ \A d \in Call : call'[d].key = call[d].key /\ call'[d].input = call[d].input
  BY FinishCall DEF Inv, RowsHaveOneOwner
<1>2. Effects(k) = {<<e, call[c].input>>} /\ Returned(k) \subseteq Effects(k)
  BY <1>0, ReturnedOfEffect
<1>4. \A l \in Key : Effects(l)' = Effects(l)
  BY <1>1 DEF Effects, Inv, RowsHaveOneOwner
<1>5. Returned(k)' = Effects(k)
  <2>1. Returned(k)' = Returned(k) \cup {<<e, call[c].input>>}
    BY <1>0, <1>1 DEF Returned
  <2> QED
    BY <1>2, <2>1
<1>6. \A l \in Key \ {k} : Returned(l)' = Returned(l)
  BY <1>0, <1>1 DEF Returned
<1>7. [l \in Key |-> Effects(l)]' = [l \in Key |-> Effects(l)]
  BY <1>4
<1>8. [l \in Key |-> Returned(l)]' = [[l \in Key |-> Returned(l)] EXCEPT ![k] = Effects(k)]
  BY <1>5, <1>6
<1> QED
  BY <1>2, <1>7, <1>8 DEF Promise!Next, Promise!Return, Effects, Returned

LEMMA NextSimulates ==
    Inv /\ [Next]_vars => [Promise!Next]_(Promise!vars)
<1> SUFFICES ASSUME Inv, [Next]_vars PROVE Promise!Next \/ UNCHANGED Promise!vars
  OBVIOUS
<1>1. CASE UNCHANGED <<[k \in Key |-> Effects(k)], [k \in Key |-> Returned(k)]>>
  BY <1>1 DEF Promise!vars, Effects, Returned
<1>2. CASE UNCHANGED vars
  BY <1>1, <1>2, Stutter DEF vars
<1>3. ASSUME NEW c \in Call, NEW k \in Key, NEW i \in Input, Issue(c, k, i)
      PROVE  UNCHANGED <<[l \in Key |-> Effects(l)], [l \in Key |-> Returned(l)]>>
  <2>1. c \notin performed /\ call[c].answer = "none" /\ call \in [Call -> CallState]
    BY <1>3 DEF Issue, Inv, RowsHaveOneOwner
  <2>2. \A d \in Call \ {c} : call'[d] = call[d]
    BY <1>3, <2>1 DEF Issue
  <2>3. call'[c].answer = "none"
    BY <1>3, <2>1 DEF Issue, CallState
  <2> QED
    BY <1>3, <2>1, <2>2, <2>3, Stutter DEF Issue, Inv, RowsHaveOneOwner
<1>4. ASSUME NEW c \in Call, NEW step \in {"run", "fail"}, To(c, step), performed' = performed,
             call[c].step # "done"
      PROVE  UNCHANGED <<[l \in Key |-> Effects(l)], [l \in Key |-> Returned(l)]>>
  BY <1>4, ToCall, Stutter DEF Inv, RowsHaveOneOwner
<1>5. ASSUME NEW c \in Call, NEW answer \in {"mismatch", "busy", "error", "lost"},
             Finish(c, answer, None), performed' = performed, call[c].step # "done"
      PROVE  UNCHANGED <<[l \in Key |-> Effects(l)], [l \in Key |-> Returned(l)]>>
  BY <1>5, FinishCall, Stutter DEF Inv, RowsHaveOneOwner
<1>6. ASSUME NEW c \in Call, Repeat(c)
      PROVE  Promise!Next \/ UNCHANGED <<[l \in Key |-> Effects(l)], [l \in Key |-> Returned(l)]>>
  <2> DEFINE r == record[call[c].key]
             answer == AnswerTo(r, call[c].input)
  <2>1. /\ call[c].step = "claim" /\ call[c].answer = "none" /\ call[c].key \in Key
        /\ r \in Record /\ r.status # "absent" /\ performed' = performed
    BY <1>6 DEF Repeat, Inv, RowsHaveOneOwner
  <2>2. /\ answer \in {"result", "mismatch", "busy", "error"}
        /\ answer = "result" => r.status = "completed" /\ r.input = call[c].input
    BY <2>1 DEF AnswerTo, Record
  <2>3. Finish(c, answer, IF answer = "result" THEN r.result ELSE None)
    BY <1>6 DEF Repeat
  <2>4. CASE answer = "result"
    <3>1. /\ r.result \in performed /\ call[r.result].key = call[c].key
          /\ call[r.result].input = call[c].input
      BY <2>1, <2>2, <2>4 DEF Inv, RowsHaveOneOwner, Owner
    <3> QED
      BY <2>1, <2>3, <2>4, <3>1, ReturnSimulates
  <2>5. CASE answer # "result"
    <3> HIDE DEF answer
    <3> QED
      BY <1>5, <2>1, <2>2, <2>3, <2>5
  <2> QED
    BY <2>4, <2>5
<1>7. ASSUME NEW c \in Call, StoreResult(c) PROVE Promise!Next
  <2>1. call[c].step = "store" /\ call[c].answer = "none" /\ c \in performed
    BY <1>7 DEF StoreResult, Inv, RowsHaveOneOwner
  <2>2. Finish(c, "result", c) /\ performed' = performed
    BY <1>7 DEF StoreResult
  <2> QED
    BY <2>1, <2>2, ReturnSimulates
<1>8. ASSUME NEW c \in Call, Serve(c)
      PROVE  Promise!Next \/ UNCHANGED <<[l \in Key |-> Effects(l)], [l \in Key |-> Returned(l)]>>
  <2>1. CASE StartOperation(c) \/ Reject(c) \/ StoreResultThrows(c)
    BY <1>4, <2>1 DEF StartOperation, Reject, StoreResultThrows
  <2>2. CASE StoreError(c)
    BY <1>5, <2>2 DEF StoreError
  <2> QED
    BY <1>6, <1>7, <1>8, <2>1, <2>2, PerformSimulates DEF Serve
<1>9. ASSUME NEW c \in Call, Crash(c)
      PROVE  UNCHANGED <<[l \in Key |-> Effects(l)], [l \in Key |-> Returned(l)]>>
  BY <1>5, <1>9 DEF Crash
<1> QED
  BY <1>1, <1>2, <1>3, <1>8, <1>9 DEF Next

LEMMA InitSimulates == Init => Promise!Init
<1> SUFFICES ASSUME Init, NEW k \in Key PROVE Effects(k) = {} /\ Returned(k) = {}
  BY DEF Promise!Init, Effects, Returned
<1> QED
  BY DEF Init, Effects, Returned

\* ProjectsMcpOperationsService.run keeps the promise of the idempotency keys for
\* any number of calls, keys and parameters, whatever dies or fails in between.
THEOREM ImplementsPromise == Spec => KeepsPromise
<1>1. []Inv /\ [][Next]_vars => [][Promise!Next]_(Promise!vars)
  BY NextSimulates, PTL
<1>2. Spec => []Inv
  BY InitInv, NextInv, PTL DEF Spec
<1> QED
  BY <1>1, <1>2, InitSimulates, PTL DEF Spec, KeepsPromise, Promise!Spec

----------------------------------------------------------------------------
(* Attachments. AttachedFilesHaveRows is not inductive: a request that has removed the object
   is about to destroy its row, and the object may be back by then.  What holds is that the
   row an attached file has is not one of those. *)

FileRow == [object : Object, there : BOOLEAN]
ClientState == [step : {"free", "create", "emit", "remove", "destroy"},
                object : Object \cup {""}, row : Nat,
                answer : {"", "refused", "done", "error"}]

FilesTypeOK ==
    /\ signed \subseteq Object
    /\ fileRows \in Seq(FileRow)
    /\ client \in [Client -> ClientState]
    /\ \A c \in Client : /\ client[c].step \in {"remove", "destroy"} => client[c].row \in Files
                         /\ client[c].step = "create" => client[c].object \in Object

\* A row that no request is about to destroy.
Safe(f) == /\ f \in Files /\ fileRows[f].there
           /\ \A c \in Client : client[c].step = "destroy" => client[c].row # f

SafeRows == \A o \in kept \cap stored : \E f \in Files : Safe(f) /\ fileRows[f].object = o

FilesInv == FilesTypeOK /\ SafeRows

----------------------------------------------------------------------------

\* An append of a row leaves the others.
LEMMA AppendedRow ==
    ASSUME FilesTypeOK, NEW r \in FileRow, fileRows' = Append(fileRows, r)
    PROVE  /\ fileRows' \in Seq(FileRow)
           /\ Files' = Files \cup {Len(fileRows) + 1}
           /\ Len(fileRows) + 1 \notin Files
           /\ fileRows'[Len(fileRows) + 1] = r
           /\ \A f \in Files : fileRows'[f] = fileRows[f]
BY DEF FilesTypeOK, Files

LEMMA FilesInitInv == FilesInit => FilesInv
<1>. SUFFICES ASSUME FilesInit PROVE FilesInv
  OBVIOUS
<1>1. Free \in ClientState /\ Free.step = "free"
  BY DEF Free, ClientState
<1>2. <<>> \in Seq(FileRow)
  OBVIOUS
<1>3. FilesTypeOK
  BY <1>1, <1>2 DEF FilesInit, FilesTypeOK
<1>4. SafeRows
  BY DEF FilesInit, SafeRows
<1>. QED BY <1>3, <1>4 DEF FilesInv

\* A request changes and the rows do not: they stay safe unless it is about to destroy one.
LEMMA ClientSteps ==
    ASSUME FilesInv, NEW c \in Client, NEW new \in ClientState,
           client' = [client EXCEPT ![c] = new],
           new.step \in {"remove", "destroy"} => new.row \in Files,
           new.step = "create" => new.object \in Object,
           UNCHANGED fileRows, signed' \subseteq Object
    PROVE  /\ FilesTypeOK'
           /\ \A f \in Files : Safe(f) /\ (new.step = "destroy" => new.row # f) => Safe(f)'
<1>1. client' \in [Client -> ClientState] /\ client'[c] = new
      /\ \A d \in Client \ {c} : client'[d] = client[d]
  BY DEF FilesInv, FilesTypeOK
<1>2. Files' = Files
  BY DEF Files
<1>3. FilesTypeOK'
  BY <1>1, <1>2 DEF FilesInv, FilesTypeOK
<1>4. \A f \in Files : Safe(f) /\ (new.step = "destroy" => new.row # f) => Safe(f)'
  BY <1>1, <1>2 DEF Safe
<1>. QED BY <1>3, <1>4

\* A request that moves on, or answers, is a state again.
LEMMA NextClientState ==
    ASSUME FilesInv, NEW c \in Client
    PROVE  /\ \A answer \in {"refused", "done", "error"} :
                 /\ [Free EXCEPT !.answer = answer] \in ClientState
                 /\ [Free EXCEPT !.answer = answer].step = "free"
           /\ \A step \in {"destroy", "emit"} :
                 /\ [client[c] EXCEPT !.step = step] \in ClientState
                 /\ [client[c] EXCEPT !.step = step].step = step
                 /\ [client[c] EXCEPT !.step = step].row = client[c].row
<1>1. client[c] \in ClientState
  BY DEF FilesInv, FilesTypeOK
<1>. QED BY <1>1 DEF ClientState, Free

----------------------------------------------------------------------------
(* One lemma for each action. *)

LEMMA PresignKeeps == ASSUME FilesInv, Presign PROVE FilesInv'
<1>1. Files' = Files /\ signed' \subseteq Object
  BY DEF Presign, Files, FilesInv, FilesTypeOK
<1>2. FilesTypeOK'
  BY <1>1 DEF Presign, FilesInv, FilesTypeOK
<1>3. SafeRows'
  BY <1>1 DEF Presign, FilesInv, SafeRows, Safe
<1>. QED BY <1>2, <1>3 DEF FilesInv

LEMMA PutObjectKeeps == ASSUME FilesInv, PutObject PROVE FilesInv'
<1>1. Files' = Files /\ kept' \cap stored' \subseteq kept \cap stored
  BY DEF PutObject, Files
<1>2. FilesTypeOK'
  BY <1>1 DEF PutObject, FilesInv, FilesTypeOK
<1>3. SafeRows'
  BY <1>1 DEF PutObject, FilesInv, SafeRows, Safe
<1>. QED BY <1>2, <1>3 DEF FilesInv

\* A request only answers: everything that was safe still is.
LEMMA AnswerKeeps ==
    ASSUME FilesInv, NEW c \in Client, NEW answer \in {"refused", "done", "error"},
           Answers(c, answer), UNCHANGED <<signed, stored, fileRows, kept>>
    PROVE  FilesInv'
<1>. DEFINE new == [Free EXCEPT !.answer = answer]
<1>1. new \in ClientState /\ new.step = "free"
  BY NextClientState
<1>2. client' = [client EXCEPT ![c] = new] /\ signed \subseteq Object
  BY DEF Answers, FilesInv, FilesTypeOK
<1>. HIDE DEF new
<1>3. FilesTypeOK' /\ \A f \in Files : Safe(f) => Safe(f)'
  BY <1>1, <1>2, ClientSteps
<1>4. SafeRows'
  BY <1>3 DEF FilesInv, SafeRows, Safe
<1>. QED BY <1>3, <1>4 DEF FilesInv

LEMMA ConfirmKeeps == ASSUME FilesInv, Confirm PROVE FilesInv'
<1>1. PICK c \in Request("free"), o \in signed :
          IF o \in stored
          THEN client' = [client EXCEPT ![c] = [Free EXCEPT !.step = "create", !.object = o]]
          ELSE Answers(c, "refused")
  BY DEF Confirm
<1>2. c \in Client /\ o \in Object /\ UNCHANGED <<signed, stored, fileRows, kept>>
  BY DEF Confirm, Request, FilesInv, FilesTypeOK
<1>3. CASE o \notin stored
  BY <1>1, <1>2, <1>3, AnswerKeeps
<1>4. CASE o \in stored
  <2>. DEFINE new == [Free EXCEPT !.step = "create", !.object = o]
  <2>1. new \in ClientState /\ new.step = "create" /\ new.object = o
    BY <1>2 DEF ClientState, Free
  <2>2. client' = [client EXCEPT ![c] = new] /\ signed' \subseteq Object
    BY <1>1, <1>2, <1>4 DEF FilesInv, FilesTypeOK
  <2>. HIDE DEF new
  <2>3. FilesTypeOK' /\ \A f \in Files : Safe(f) => Safe(f)'
    BY <1>2, <2>1, <2>2, ClientSteps
  <2>4. SafeRows'
    BY <1>2, <2>3 DEF FilesInv, SafeRows, Safe
  <2>. QED BY <2>3, <2>4 DEF FilesInv
<1>. QED BY <1>3, <1>4

\* The new row is one that no request knows yet.
LEMMA CreateRowKeeps == ASSUME FilesInv, CreateRow PROVE FilesInv'
<1>1. PICK c \in Request("create") :
          /\ fileRows' = Append(fileRows, [object |-> client[c].object, there |-> TRUE])
          /\ kept' = kept \cup ({client[c].object} \cap stored)
          /\ Moves(c, "emit")
  BY DEF CreateRow
<1>. DEFINE r == [object |-> client[c].object, there |-> TRUE]
            new == [client[c] EXCEPT !.step = "emit"]
<1>. PICK id : id = Len(fileRows) + 1
  OBVIOUS
<1>2. c \in Client /\ client[c].object \in Object /\ UNCHANGED <<signed, stored>>
  BY DEF CreateRow, Request, FilesInv, FilesTypeOK
<1>3. r \in FileRow /\ r.there /\ r.object = client[c].object
  BY <1>2 DEF FileRow
<1>4. new \in ClientState /\ new.step = "emit" /\ client' = [client EXCEPT ![c] = new]
  BY <1>1, <1>2, NextClientState DEF Moves
<1>. HIDE DEF r, new
<1>5. /\ fileRows' \in Seq(FileRow) /\ Files' = Files \cup {id} /\ id \notin Files
      /\ fileRows'[id] = r /\ \A f \in Files : fileRows'[f] = fileRows[f]
  BY <1>1, <1>3, AppendedRow DEF r, FilesInv
<1>6. client' \in [Client -> ClientState] /\ client'[c] = new
      /\ \A d \in Client \ {c} : client'[d] = client[d]
  BY <1>2, <1>4 DEF FilesInv, FilesTypeOK
<1>7. FilesTypeOK'
  BY <1>2, <1>4, <1>5, <1>6 DEF FilesInv, FilesTypeOK
<1>8. Safe(id)'
  <2>1. \A d \in Client : client'[d].step = "destroy" => client'[d].row \in Files
    BY <1>4, <1>6 DEF FilesInv, FilesTypeOK
  <2>2. id \in Files' /\ fileRows'[id].there
    BY <1>3, <1>5
  <2>. QED BY <1>5, <2>1, <2>2 DEF Safe
<1>9. \A f \in Files : Safe(f) => Safe(f)' /\ fileRows'[f] = fileRows[f]
  BY <1>4, <1>5, <1>6 DEF Safe
<1>10. SafeRows'
  <2>. SUFFICES ASSUME NEW o \in kept' \cap stored'
                PROVE  \E f \in Files' : Safe(f)' /\ fileRows'[f].object = o
    BY DEF SafeRows
  <2>1. CASE o = client[c].object
    <3>1. id \in Files' /\ fileRows'[id].object = o
      BY <1>3, <1>5, <2>1
    <3>. QED BY <1>8, <3>1
  <2>2. CASE o # client[c].object
    <3>1. o \in kept \cap stored
      BY <1>1, <1>2, <2>2
    <3>. QED BY <1>5, <1>9, <3>1 DEF FilesInv, SafeRows
  <2>. QED BY <2>1, <2>2
<1>. QED BY <1>7, <1>10 DEF FilesInv

LEMMA DeleteKeeps == ASSUME FilesInv, Delete PROVE FilesInv'
<1>1. PICK c \in Request("free"), f \in Files :
          IF fileRows[f].there
          THEN client' = [client EXCEPT ![c] = [Free EXCEPT !.step = "remove", !.row = f]]
          ELSE Answers(c, "refused")
  BY DEF Delete
<1>2. c \in Client /\ f \in Nat /\ UNCHANGED <<signed, stored, fileRows, kept>>
  BY DEF Delete, Request, Files, FilesInv, FilesTypeOK
<1>3. CASE ~ fileRows[f].there
  BY <1>1, <1>2, <1>3, AnswerKeeps
<1>4. CASE fileRows[f].there
  <2>. DEFINE new == [Free EXCEPT !.step = "remove", !.row = f]
  <2>1. new \in ClientState /\ new.step = "remove" /\ new.row = f
    BY <1>2 DEF ClientState, Free
  <2>2. client' = [client EXCEPT ![c] = new] /\ signed' \subseteq Object
    BY <1>1, <1>2, <1>4 DEF FilesInv, FilesTypeOK
  <2>. HIDE DEF new
  <2>3. FilesTypeOK' /\ \A g \in Files : Safe(g) => Safe(g)'
    BY <1>2, <2>1, <2>2, ClientSteps
  <2>4. SafeRows'
    BY <1>2, <2>3 DEF FilesInv, SafeRows, Safe
  <2>. QED BY <2>3, <2>4 DEF FilesInv
<1>. QED BY <1>3, <1>4

\* The row of the removed object is the one about to be destroyed, and no other file's.
LEMMA RemoveObjectKeeps == ASSUME FilesInv, RemoveObject PROVE FilesInv'
<1>1. PICK c \in Request("remove") :
          /\ stored' = stored \ {fileRows[client[c].row].object}
          /\ kept' = kept \ {fileRows[client[c].row].object}
          /\ Moves(c, "destroy")
  BY DEF RemoveObject
<1>. DEFINE new == [client[c] EXCEPT !.step = "destroy"]
<1>2. c \in Client /\ client[c].row \in Files /\ UNCHANGED <<signed, fileRows>>
  BY DEF RemoveObject, Request, FilesInv, FilesTypeOK
<1>3. /\ new \in ClientState /\ new.step = "destroy" /\ new.row = client[c].row
      /\ client' = [client EXCEPT ![c] = new] /\ signed' \subseteq Object
  BY <1>1, <1>2, NextClientState DEF Moves, FilesInv, FilesTypeOK
<1>. HIDE DEF new
<1>4. FilesTypeOK' /\ \A f \in Files : Safe(f) /\ client[c].row # f => Safe(f)'
  BY <1>2, <1>3, ClientSteps
<1>5. SafeRows'
  BY <1>1, <1>2, <1>4 DEF FilesInv, SafeRows, Safe
<1>. QED BY <1>4, <1>5 DEF FilesInv

LEMMA DestroyRowKeeps == ASSUME FilesInv, DestroyRow PROVE FilesInv'
<1>1. PICK c \in Request("destroy") :
          /\ fileRows' = [fileRows EXCEPT ![client[c].row].there = FALSE]
          /\ Moves(c, "emit")
  BY DEF DestroyRow
<1>. DEFINE new == [client[c] EXCEPT !.step = "emit"]
            row == client[c].row
<1>2. c \in Client /\ row \in Files /\ client[c].step = "destroy"
      /\ UNCHANGED <<signed, stored, kept>>
  BY DEF DestroyRow, Request, FilesInv, FilesTypeOK
<1>3. new \in ClientState /\ new.step = "emit" /\ client' = [client EXCEPT ![c] = new]
  BY <1>1, <1>2, NextClientState DEF Moves
<1>4. fileRows \in Seq(FileRow) /\ fileRows[row] \in FileRow
  BY <1>2 DEF FilesInv, FilesTypeOK, Files
<1>5. [fileRows[row] EXCEPT !.there = FALSE] \in FileRow
  BY <1>4 DEF FileRow
<1>. HIDE DEF new
<1>6. /\ fileRows' \in Seq(FileRow) /\ Files' = Files
      /\ \A f \in Files \ {row} : fileRows'[f] = fileRows[f]
  BY <1>1, <1>2, <1>4, <1>5 DEF Files
<1>7. client' \in [Client -> ClientState] /\ client'[c] = new
      /\ \A d \in Client \ {c} : client'[d] = client[d]
  BY <1>2, <1>3 DEF FilesInv, FilesTypeOK
<1>8. FilesTypeOK'
  BY <1>2, <1>3, <1>6, <1>7 DEF FilesInv, FilesTypeOK
<1>9. \A f \in Files : Safe(f) => f # row /\ Safe(f)'
  BY <1>2, <1>3, <1>6, <1>7 DEF Safe
<1>10. SafeRows'
  BY <1>2, <1>6, <1>9 DEF FilesInv, SafeRows
<1>. QED BY <1>8, <1>10 DEF FilesInv

----------------------------------------------------------------------------

\* Types, and the files' rows that nobody is about to destroy.
THEOREM FilesInvariant == FilesSpec => []FilesInv
<1>1. FilesInv /\ [FilesNext]_fileVars => FilesInv'
  <2>. SUFFICES ASSUME FilesInv, [FilesNext]_fileVars PROVE FilesInv'
    OBVIOUS
  <2>1. CASE EmitTask
    BY <2>1, AnswerKeeps DEF EmitTask, Request
  <2>2. CASE CallFails
    BY <2>2, AnswerKeeps DEF CallFails
  <2>3. CASE UNCHANGED fileVars
    BY <2>3 DEF fileVars, FilesInv, FilesTypeOK, SafeRows, Safe, Files
  <2>. QED BY <2>1, <2>2, <2>3, PresignKeeps, PutObjectKeeps, ConfirmKeeps, CreateRowKeeps,
               DeleteKeeps, RemoveObjectKeeps, DestroyRowKeeps DEF FilesNext
<1>. QED BY <1>1, FilesInitInv, PTL DEF FilesSpec

\* An attached file that is in the storage has a row: deleteAttachment takes the object
\* first, and a row that lost its object can be deleted again.
THEOREM AttachedFiles == FilesSpec => []AttachedFilesHaveRows
<1>1. FilesInv => AttachedFilesHaveRows
  BY DEF FilesInv, SafeRows, Safe, AttachedFilesHaveRows
<1>. QED BY <1>1, FilesInvariant, PTL
===============================================================================
