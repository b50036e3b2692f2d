------------------------------ MODULE MCTasks ------------------------------
(***************************************************************************)
(* Small instances of Tasks: which column is on which board, which board   *)
(* in which project, and the symmetry of processes.                        *)
(***************************************************************************)
EXTENDS TasksInductive, TLC

CONSTANTS p1, p2, t1, t2, t3, c1, c2, c3, b1, b2, b3, pr1, pr2

\* Two projects with one board and one column each.
TwoProjectsBoardOf == c1 :> b1 @@ c2 :> b2
TwoProjectsProjectOf == b1 :> pr1 @@ b2 :> pr2

\* One board with two columns.
OneBoardBoardOf == c1 :> b1 @@ c2 :> b1
OneBoardProjectOf == b1 :> pr1

\* A project with two boards beside a project with one.
ThreeBoardsBoardOf == c1 :> b1 @@ c2 :> b2 @@ c3 :> b3
ThreeBoardsProjectOf == b1 :> pr1 @@ b2 :> pr2 @@ b3 :> pr2

AllRequests == Kind

Processes == Permutations(Proc)
=============================================================================
