------------------------------- MODULE MCServices -------------------------------
(***************************************************************************)
(* Instances of the tools, the users, the tokens, the lists and the        *)
(* assignments: McpTools, UserIdentity, UserAdmin, AccessTokens, TaskLists *)
(* and Assignments.  They share no variable: a behaviour is that of one of *)
(* them, chosen at the start, with the others at rest.                     *)
(***************************************************************************)
EXTENDS McpTools, UserIdentity, UserAdmin, AccessTokens, TaskLists, Assignments,
        TLC

VARIABLE part

servicesVars == <<part, toolsVars, identityVars, adminVars, tokenVars, listVars, vars>>

----------------------------------------------------------------------------
(* McpTools: P1 is the caller's own; B2 comes later. *)

MCParent == "B1" :> "P2" @@ "B2" :> "P2" @@ "B3" :> "P1" @@ "C1" :> "B1" @@ "C2" :> "B3"
              @@ "G1" :> "P1" @@ "G2" :> "P2"
MCFirstColumn == "T1" :> "C1"
MCTokens == {{"read"}, {"create"}, {"update"}, {"delete"}, {"members"}, {"create", "members"}}

(* UserIdentity: a row without an ERP key, one with it. *)

MCFirstRows == 1 :> [erp |-> NoErp, number |-> "n1", ban |-> FALSE]
                 @@ 2 :> [erp |-> "e2", number |-> "n2", ban |-> FALSE]

(* UserAdmin: two administrators. *)

MCFirstStaff == 1 :> [number |-> "n1", admin |-> TRUE, ban |-> FALSE]
                  @@ 2 :> [number |-> "n2", admin |-> TRUE, ban |-> FALSE]

(* AccessTokens: a broken token, two good ones of two users, in every order. *)

MCOwnerOf == "t1" :> "u1" @@ "t2" :> "u2" @@ "x" :> "u2"
MCSent == {[header |-> "", jar |-> j] :
              j \in {<<>>, <<"t1">>, <<"t2">>, <<"t1", "t2">>, <<"t2", "t1">>,
                     <<"x", "t2">>, <<"x", "t1", "t2">>}}
            \cup {[header |-> "t1", jar |-> <<"t2">>], [header |-> "malformed", jar |-> <<"t1">>]}

(* TaskLists: three tasks in every forest and every placement; queries of all kinds. *)

MCItem(o, c, w, p, t, d, x) ==
    [order |-> o, creator |-> c, workers |-> w, priority |-> p, tags |-> t, due |-> d, text |-> x]
MCAttr == 1 :> MCItem(1, "u", {"u"}, "high", {"t"}, 0, FALSE)
            @@ 2 :> MCItem(1, "v", {"u","v"}, "low", {"t"}, 2, TRUE)
            @@ 3 :> MCItem(0, "u", {"v"}, "high", {"s"}, 3, TRUE)
MCLaneOf == 1 :> [status |-> "new", readers |-> {"u","v"}, members |-> {}]
              @@ 2 :> [status |-> "completed", readers |-> {"u","v"}, members |-> {"v"}]
\* Every forest, older tasks under newer roots included.
MCParents == {p \in [1..3 -> 0..3] : IsForest(p)}
AnyQuery == [kind |-> "column", lane |-> 1, archive |-> "active", sub |-> TRUE, flat |-> FALSE,
             limit |-> 0, search |-> FALSE, creators |-> {}, workers |-> {}, priorities |-> {},
             tags |-> {}, from |-> 0, to |-> 0, me |-> "u", executor |-> "v",
             scope |-> "assigned", statuses |-> {}, desc |-> FALSE]
Filtered == {[AnyQuery EXCEPT !.workers = {"u"}, !.tags = {"s"}],
             [AnyQuery EXCEPT !.creators = {"u"}, !.workers = {"v"}],
             [AnyQuery EXCEPT !.priorities = {"low"}, !.from = 2, !.to = 2],
             [AnyQuery EXCEPT !.search = TRUE],
             [AnyQuery EXCEPT !.to = 3, !.search = TRUE],
             [AnyQuery EXCEPT !.from = 3, !.to = 2]}
MCQuery ==
    {[q EXCEPT !.sub = s, !.flat = f, !.limit = l, !.archive = a] :
        q \in Filtered, s \in BOOLEAN, f \in BOOLEAN, l \in {0, 1}, a \in {"active", "archived"}}
    \cup {[q EXCEPT !.archive = "board"] : q \in Filtered}
    \cup {[AnyQuery EXCEPT !.kind = "personal", !.limit = l, !.scope = s, !.desc = d] :
              l \in {1, 2}, s \in {"assigned", "created", "executor"}, d \in BOOLEAN}
    \cup {[AnyQuery EXCEPT !.kind = "counters", !.scope = s, !.statuses = t] :
              s \in {"assigned", "created"}, t \in {{}, {"new"}}}
    \cup {[AnyQuery EXCEPT !.kind = "gantt", !.workers = w] : w \in {{}, {"u"}, {"v"}, {"u", "v"}}}

(* Assignments: two users, both administrators, one the owner of both projects. *)

MCOwner == [pr \in Project |-> "ann"]
MCKinds == Kind

----------------------------------------------------------------------------

ServicesInit ==
    /\ part \in {"tools", "identity", "admin", "tokens", "lists", "assignments"}
    /\ ToolsInit /\ IdentityInit /\ AdminInit /\ TokensInit /\ ListsInit /\ Init
    /\ part # "tokens" => central = FALSE /\ session = {} /\ barred = {}
    /\ part # "lists" => live = {} /\ parent = [c \in Item |-> 0] /\ lane = [c \in Item |-> 1]
    /\ part # "assignments" => home = [t \in TaskId |-> None] /\ members \in SUBSET (Project \X User \X {1})

ServicesNext ==
    \/ /\ part = "tools" /\ ToolsNext
       /\ UNCHANGED <<part, identityVars, adminVars, tokenVars, listVars, vars>>
    \/ /\ part = "identity" /\ IdentityNext
       /\ UNCHANGED <<part, toolsVars, adminVars, tokenVars, listVars, vars>>
    \/ /\ part = "admin" /\ AdminNext
       /\ UNCHANGED <<part, toolsVars, identityVars, tokenVars, listVars, vars>>
    \/ /\ part = "tokens" /\ TokensNext
       /\ UNCHANGED <<part, toolsVars, identityVars, adminVars, listVars, vars>>
    \/ /\ part = "lists" /\ ListsNext
       /\ UNCHANGED <<part, toolsVars, identityVars, adminVars, tokenVars, vars>>
    \/ /\ part = "assignments" /\ Next
       /\ UNCHANGED <<part, toolsVars, identityVars, adminVars, tokenVars, listVars>>

ServicesSpec == ServicesInit /\ [][ServicesNext]_servicesVars
===============================================================================
