------------------------------ MODULE MCWorkspace ------------------------------
(***************************************************************************)
(* Instances of the services around boards: Boards, Projects,              *)
(* UserDirectory, TimeEntries, Attachments, HulyImport and TaskOrder.  They *)
(* share no variable: a behaviour is that of one of them, chosen at the     *)
(* start, with the others at rest.                                         *)
(***************************************************************************)
EXTENDS Boards, Projects, UserDirectory, TimeEntries, Attachments,
        HulyImport, TaskOrder, TLC

VARIABLE part

vars == <<part, boardsVars, projectsVars, directoryVars, timeVars, fileVars, hulyVars,
          orderVars>>

----------------------------------------------------------------------------
(* Boards: three boards, one of them absent, one with columns to copy; a list that mixes a
   board and columns, of which a reordering updates those of its own list. *)

MCHome == "B1" :> "P" @@ "B2" :> "P" @@ "B3" :> "P" @@ "C1" :> "B1" @@ "C2" :> "B1" @@ "C3" :> "B1"
            @@ "D1" :> "B3" @@ "D2" :> "B3" @@ "D3" :> "B3"
MCFirstOrder == "B1" :> 0 @@ "B2" :> 1 @@ "C1" :> 1 @@ "C2" :> 2
MCLists == {<<"B1","B2">>, <<"B2","B1">>, <<"C1","C2">>, <<"C2","C1">>, <<"C2","B1","C1">>}

(* Projects: u in both, v in one; N is to come, with the prefix of one of them. *)

MCCreator == "A" :> "u" @@ "B" :> "v" @@ "N" :> "u"
MCPrefixOf == "A" :> "AAA" @@ "B" :> "BBB" @@ "N" :> "BBB"
MCFirstMember == {[id |-> 1, user |-> "u", project |-> "A", order |-> 0],
                  [id |-> 2, user |-> "u", project |-> "B", order |-> 1],
                  [id |-> 3, user |-> "v", project |-> "B", order |-> 0]}

(* UserDirectory: snapshots with a new user, a ban, and two users of one number. *)

Entry(i, n, b) == [id |-> i, number |-> n, ban |-> b]
MCSnapshot == {<<Entry("e1","n1",FALSE), Entry("e2","n2",FALSE), Entry("e3","n3",FALSE)>>,
               <<Entry("e1","n1",FALSE), Entry("e2","n2",TRUE), Entry("e3","n3",FALSE)>>,
               <<Entry("e1","n1",FALSE), Entry("e2","n1",FALSE)>>,
               <<Entry("e4","n4",FALSE)>>}
MCKnownFirst == {[id |-> "e2", number |-> "n8"], [id |-> "e9", number |-> "n2"],
                 [id |-> "e8", number |-> "n3"]}

(* TimeEntries: two tasks of two projects. *)

MCProjectOf == "w1" :> "p" @@ "w2" :> "q"

(* HulyImport: two roots, a subtask, a subtask of it, and one whose parent is elsewhere. *)

MCAbove == <<0, 1, 0, 2, 9>>
MCStatusOf == <<2, 1, 1, 2, 1>>

(* TaskOrder: two cards, a subtask of the first, an archived card; an empty archive. *)

MCCard(parentCard, place, active) ==
    [lane |-> "K1", parent |-> parentCard, place |-> place, live |-> active]
MCFirstCards == 1 :> MCCard(0, 0, TRUE) @@ 2 :> MCCard(0, 1, TRUE)
                  @@ 3 :> MCCard(1, 0, TRUE) @@ 4 :> MCCard(0, 1, FALSE)
MCFirstRules == "K1" :> [creatorsOnly |-> FALSE, archive |-> FALSE]
                  @@ "K2" :> [creatorsOnly |-> FALSE, archive |-> TRUE]

----------------------------------------------------------------------------

OfBoards(step) ==
    /\ part = "boards" /\ step
    /\ UNCHANGED <<part, projectsVars, directoryVars, timeVars, fileVars, hulyVars, orderVars>>

Init ==
    /\ part \in {"boards", "projects", "directory", "time", "files", "import", "order"}
    /\ BoardsInit /\ ProjectsInit /\ DirectoryInit /\ TimeInit /\ FilesInit /\ HulyInit
    /\ OrderInit

Next ==
    \/ OfBoards(BoardsNext)
    \/ /\ part = "projects" /\ ProjectsNext
       /\ UNCHANGED <<part, boardsVars, directoryVars, timeVars, fileVars, hulyVars, orderVars>>
    \/ /\ part = "directory" /\ DirectoryNext
       /\ UNCHANGED <<part, boardsVars, projectsVars, timeVars, fileVars, hulyVars, orderVars>>
    \/ /\ part = "time" /\ TimeNext
       /\ UNCHANGED <<part, boardsVars, projectsVars, directoryVars, fileVars, hulyVars, orderVars>>
    \/ /\ part = "files" /\ FilesNext
       /\ UNCHANGED <<part, boardsVars, projectsVars, directoryVars, timeVars, hulyVars, orderVars>>
    \/ /\ part = "import" /\ HulyNext
       /\ UNCHANGED <<part, boardsVars, projectsVars, directoryVars, timeVars, fileVars, orderVars>>
    \/ /\ part = "order" /\ OrderNext
       /\ UNCHANGED <<part, boardsVars, projectsVars, directoryVars, timeVars, fileVars, hulyVars>>

\* The fairness of Boards, while the behaviour is one of Boards.
Fairness == \A k \in Req : /\ WF_vars(OfBoards(Proceeds(k)))
                           /\ WF_vars(OfBoards(GivesUp(k)))

Spec == Init /\ [][Next]_vars /\ Fairness
===============================================================================
