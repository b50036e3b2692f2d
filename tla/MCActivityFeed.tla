--------------------------- MODULE MCActivityFeed ---------------------------
(* Two tasks of one project beside another project, one reader. *)
EXTENDS ActivityFeed, TLC

CONSTANTS t1, t2, pr1, pr2, w1, w2

OneProject == t1 :> pr1 @@ t2 :> pr1

\* States that differ in the read marks alone are alike to every step but markRead, and to
\* every property that does not mention them.
Unmarked ==
    <<home, assigned, access, [i \in Id |-> [event[i] EXCEPT !.readBy = {}]], next, txn,
      browser, due, hidden, lost>>

\* Both tasks begin in the same project.
WritersAndTasks == Permutations(Writer) \cup Permutations(TaskId)
=============================================================================
