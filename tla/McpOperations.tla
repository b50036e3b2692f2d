--------------------------- MODULE McpOperations ---------------------------
(***************************************************************************)
(* ProjectsMcpOperationsService.run: the record of an idempotency key, the *)
(* operation it guards, and the answers of repeated calls, with instances  *)
(* that die and statements that fail in between.                           *)
(*                                                                         *)
(* A key stands for (actor, client, tool, idempotencyKey), the unique      *)
(* index of mcp_project_operations; an input for its request hash.  A call *)
(* is one tools/call of a client; the effect of an operation is named by   *)
(* the call that performed it.                                             *)
(***************************************************************************)
EXTENDS FiniteSets

CONSTANTS
    Call,   \* tool calls, each issued at most once
    Key,    \* idempotency keys
    Input,  \* parameters of a call
    None    \* nothing stored, nothing returned

ASSUME McpOperationsAssumption == None \notin Call \cup Key

VARIABLES
    record,    \* the rows of mcp_project_operations
    call,      \* the calls of the clients
    performed  \* the calls whose operation has committed its effect

vars == <<record, call, performed>>

Record == [status : {"absent", "pending", "completed", "failed"},
           input : Input \cup {None}, result : Call \cup {None}]

CallState == [step : {"idle", "claim", "run", "store", "fail", "done"},
              key : Key \cup {None}, input : Input \cup {None},
              answer : {"none", "result", "mismatch", "busy", "error", "lost"},
              value : Call \cup {None}]

Finish(c, answer, value) ==
    call' = [call EXCEPT ![c] = [@ EXCEPT !.step = "done", !.answer = answer, !.value = value]]

To(c, step) == call' = [call EXCEPT ![c] = [@ EXCEPT !.step = step]]

----------------------------------------------------------------------------

Issue(c, k, i) ==
    /\ call[c].step = "idle"
    /\ call' = [call EXCEPT ![c] = [@ EXCEPT !.step = "claim", !.key = k, !.input = i]]
    /\ UNCHANGED <<record, performed>>

\* Mutant of StartOperation: a failed operation may be tried again.
StartOrRetry(c) ==
    LET k == call[c].key
    IN  /\ call[c].step = "claim"
        /\ record[k].status \in {"absent", "failed"}
        /\ record' = [record EXCEPT ![k] = [status |-> "pending", input |-> call[c].input,
                                            result |-> None]]
        /\ To(c, "run")
        /\ UNCHANGED performed

\* Mutant of StartOperation: the row is looked up and created without the
\* unique index, so a call that found no row may create a second one.
StartBesidePending(c) ==
    LET k == call[c].key
    IN  /\ call[c].step = "claim"
        /\ record[k].status \in {"absent", "pending"}
        /\ record' = [record EXCEPT ![k] = [status |-> "pending", input |-> call[c].input,
                                            result |-> None]]
        /\ To(c, "run")
        /\ UNCHANGED performed

\* findOrCreate creates the row: the unique index makes one call its owner.
StartOperation(c) ==
    LET k == call[c].key
    IN  /\ call[c].step = "claim"
        /\ record[k].status = "absent"
        /\ record' = [record EXCEPT ![k] = [status |-> "pending", input |-> call[c].input,
                                            result |-> None]]
        /\ To(c, "run")
        /\ UNCHANGED performed

\* The answer a stored row gives to a repeated call.
AnswerTo(r, i) ==
    CASE r.input # i -> "mismatch"
      [] r.input = i /\ r.status = "completed" -> "result"
      [] r.input = i /\ r.status = "failed" -> "error"
      [] r.input = i /\ r.status = "pending" -> "busy"

\* Mutant of Repeat: a repeated call waits for the pending one.
RepeatAfterPending(c) ==
    LET r == record[call[c].key]
    IN  /\ call[c].step = "claim"
        /\ r.status \in {"completed", "failed"}
        /\ Finish(c, AnswerTo(r, call[c].input), r.result)
        /\ UNCHANGED <<record, performed>>

\* findOrCreate finds the row: the operation is not run.
Repeat(c) ==
    LET r == record[call[c].key]
        answer == AnswerTo(r, call[c].input)
    IN  /\ call[c].step = "claim"
        /\ r.status # "absent"
        /\ Finish(c, answer, IF answer = "result" THEN r.result ELSE None)
        /\ UNCHANGED <<record, performed>>

\* The operation commits and returns its value.
Perform(c) ==
    /\ call[c].step = "run"
    /\ performed' = performed \cup {c}
    /\ To(c, "store")
    /\ UNCHANGED record

\* The operation commits, then throws: tasks.create reads the task back after
\* its commit, columns_update looks its board up after the update.
PerformThenThrow(c) ==
    /\ call[c].step = "run"
    /\ performed' = performed \cup {c}
    /\ To(c, "fail")
    /\ UNCHANGED record

\* The operation throws without an effect.
Reject(c) ==
    /\ call[c].step = "run"
    /\ To(c, "fail")
    /\ UNCHANGED <<record, performed>>

Completed(c) ==
    [record EXCEPT ![call[c].key] = [@ EXCEPT !.status = "completed", !.result = c]]

StoreResult(c) ==
    /\ call[c].step = "store"
    /\ record' = Completed(c)
    /\ Finish(c, "result", c)
    /\ UNCHANGED performed

\* The UPDATE throws, because it failed or because its acknowledgement was lost:
\* the catch block takes it for a failed operation.
StoreResultThrows(c) ==
    /\ call[c].step = "store"
    /\ record' \in {record, Completed(c)}
    /\ To(c, "fail")
    /\ UNCHANGED performed

\* The catch block; its own UPDATE may throw too.
StoreError(c) ==
    /\ call[c].step = "fail"
    /\ record' \in {record, [record EXCEPT ![call[c].key].status = "failed"]}
    /\ Finish(c, "error", None)
    /\ UNCHANGED performed

\* The instance that serves c dies; the client gets no answer.
Crash(c) ==
    /\ call[c].step \in {"claim", "run", "store", "fail"}
    /\ Finish(c, "lost", None)
    /\ UNCHANGED <<record, performed>>

----------------------------------------------------------------------------

Init ==
    /\ record = [k \in Key |-> [status |-> "absent", input |-> None, result |-> None]]
    /\ call = [c \in Call |-> [step |-> "idle", key |-> None, input |-> None,
                               answer |-> "none", value |-> None]]
    /\ performed = {}

Serve(c) ==
    \/ StartOperation(c) \/ Repeat(c)
    \/ Perform(c) \/ PerformThenThrow(c) \/ Reject(c)
    \/ StoreResult(c) \/ StoreResultThrows(c) \/ StoreError(c)

Next ==
    \E c \in Call : \/ \E k \in Key, i \in Input : Issue(c, k, i)
                    \/ Serve(c)
                    \/ Crash(c)

Spec == Init /\ [][Next]_vars

\* The event loop resumes every awaited statement; instances need not die and
\* clients need not call.
FairSpec == Spec /\ \A c \in Call : WF_vars(Serve(c))
----------------------------------------------------------------------------
(* Properties. *)

\* The calls that have run, or may still run, the operation of their key.
Owner(c) == call[c].step \in {"run", "store", "fail"} \/ c \in performed

\* A row belongs to the one call that created it: at most one call runs or has
\* performed the operation of a key, with the parameters the row remembers, and a
\* stored result is that call's; only a finished call has been answered.
RowsHaveOneOwner ==
    /\ record \in [Key -> Record]
    /\ call \in [Call -> CallState]
    /\ performed \subseteq Call
    /\ \A c \in Call :
          /\ call[c].step # "idle" <=> call[c].key # None
          /\ call[c].key # None => call[c].key \in Key /\ call[c].input \in Input
          /\ call[c].step # "done" => call[c].answer = "none"
          /\ c \in performed => call[c].step \in {"store", "fail", "done"}
          /\ call[c].step = "store" => c \in performed
          /\ Owner(c) => /\ record[call[c].key].status # "absent"
                         /\ record[call[c].key].input = call[c].input
                         /\ \A d \in Call : Owner(d) /\ call[d].key = call[c].key => d = c
    /\ \A k \in Key :
          record[k].status = "completed" =>
             /\ record[k].result \in performed
             /\ call[record[k].result].key = k

\* "не создаёт дубликат" (doc/PROJECTS_MCP.md): calls repeated, crossed, lost and
\* failed under one key commit its operation at most once.
PerformedOnce ==
    \A c, d \in performed : call[c].key = call[d].key => c = d

\* A result is given only for an effect that was committed under the same key,
\* with the parameters of the call it answers.
ResultIsPerformed ==
    \A c \in Call :
        call[c].answer = "result" =>
            /\ call[c].value \in performed
            /\ call[call[c].value].key = call[c].key
            /\ call[call[c].value].input = call[c].input

\* The promise of the idempotency keys.
Promise == INSTANCE OnceOnly WITH
    Effect <- Call,
    effects <- [k \in Key |-> {<<c, call[c].input>> : c \in {d \in performed : call[d].key = k}}],
    returned <- [k \in Key |-> {<<call[c].value, call[c].input>> :
                     c \in {d \in Call : call[d].answer = "result" /\ call[d].key = k}}]

\* run implements the promise, whatever dies or fails.
KeepsPromise == Promise!Spec

\* A call that reached the server is answered, or lost with its instance: none
\* waits for another call to decide the key.
EveryCallEnds ==
    \A c \in Call : call[c].step = "claim" ~> call[c].step = "done"

\* "Повторный вызов с тем же ключом возвращает сохранённый результат": once an
\* operation took effect and nobody runs it any more, its result is stored.
EffectIsStored ==
    \A c \in performed :
        call[c].step = "done" => record[call[c].key].status = "completed"
=============================================================================
