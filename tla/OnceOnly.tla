------------------------------ MODULE OnceOnly ------------------------------
(***************************************************************************)
(* What the idempotency keys of the write tools promise (doc/PROJECTS_MCP  *)
(* .md, "Write-операции"): under one key an operation takes effect at most *)
(* once, and whoever is given a result is given that of the effect, for    *)
(* the parameters the effect was made with.                                *)
(***************************************************************************)
CONSTANTS Key, Effect, Input

VARIABLES
    effects,  \* what took effect under a key, with its parameters
    returned  \* the results handed out under a key, with the parameters asked

vars == <<effects, returned>>

Init ==
    /\ effects = [k \in Key |-> {}]
    /\ returned = [k \in Key |-> {}]

Perform(k) ==
    /\ effects[k] = {}
    /\ \E e \in Effect, i \in Input : effects' = [effects EXCEPT ![k] = {<<e, i>>}]
    /\ UNCHANGED returned

Return(k) ==
    /\ effects[k] # {}
    /\ returned' = [returned EXCEPT ![k] = effects[k]]
    /\ UNCHANGED effects

Next == \E k \in Key : Perform(k) \/ Return(k)

Spec == Init /\ [][Next]_vars
=============================================================================
