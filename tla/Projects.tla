------------------------------- MODULE Projects -------------------------------
(***************************************************************************)
(* Projects, their members and each member's own order of projects         *)
(* (projects.service.ts): creation, change of members, archive, reordering *)
(* and favorites, as requests whose statements interleave under READ        *)
(* COMMITTED.                                                               *)
(*                                                                         *)
(* Memberships are rows without a unique index: a user may have two of     *)
(* them in one project.  Prefixes and favorites have a unique index.        *)
(***************************************************************************)
EXTENDS Naturals, Sequences, FiniteSets, FiniteSetsExt, SequencesExt

CONSTANTS
    Usr,        \* users
    Proj,       \* projects
    Creator,    \* the creator of each project
    PrefixOf,   \* the prefix each project has or is to have
    Existing,   \* the projects that exist at first
    Ask,        \* requests
    FirstMember,\* the membership rows at first
    MaxRow      \* bound: membership rows

Member == [id : 1..MaxRow, user : Usr, project : Proj, order : Nat]

ASSUME ProjectsAssumption ==
    /\ Usr # {} /\ Proj # {} /\ IsFiniteSet(Proj)
    /\ FirstMember \subseteq Member
    /\ \A m \in FirstMember : m.project \in Existing
    /\ \A m, n \in FirstMember : m # n =>
          /\ m.id # n.id
          /\ m.user = n.user => m.project # n.project /\ m.order # n.order
    /\ Creator \in [Proj -> Usr] /\ Existing \subseteq Proj
    /\ PrefixOf \in [Proj -> STRING]
    /\ \A p, q \in Existing : PrefixOf[p] = PrefixOf[q] => p = q
    /\ MaxRow \in Nat

VARIABLES
    project,   \* project -> "absent", "active" or "archived"
    member,    \* the committed membership rows
    favorite,  \* the favorites: pairs of a user and a project
    ask,       \* the requests
    asked,     \* the requests in the order they came (history)
    overlaps   \* the pairs of them that ran at one time (history)

projectsVars == <<project, member, favorite, ask, asked, overlaps>>

AskState ==
    [kind : {"none", "create", "update", "delete", "reorder", "favorite"},
     by : Usr, on : Proj,
     members : SUBSET Usr,       \* the members asked for; none when they are to stay
     ids : Seq(Proj),            \* the order asked for
     step : {"idle", "prefix", "insert", "manage", "save", "existing", "remove", "orders",
             "add", "select", "lock", "rows", "commit", "read", "find", "toggle", "done"},
     found : SUBSET Member,      \* the rows a statement has returned
     next : [Usr -> Nat],        \* getNextMemberOrders
     removed : SUBSET (1..MaxRow), added : SUBSET Member, \* what it has written
     holds : SUBSET Proj,        \* the project rows it keeps locked
     rows : SUBSET (1..MaxRow),  \* the membership rows it keeps locked
     answer : {"none", "ok", "error", "yes", "no"}]

AnyUser == CHOOSE u \in Usr : TRUE
AnyProject == CHOOSE p \in Proj : TRUE
NoAsk == [kind |-> "none", by |-> AnyUser, on |-> AnyProject, members |-> {}, ids |-> <<>>,
          step |-> "idle", found |-> {}, next |-> [u \in Usr |-> 0], removed |-> {},
          added |-> {}, holds |-> {}, rows |-> {}, answer |-> "none"]

MembershipsOf(u) == {m \in member : m.user = u}
MembershipsIn(p) == {m \in member : m.project = p}
ActiveProject(p) == project[p] = "active"
LockedProject(a, p) == \E o \in Ask \ {a} : p \in ask[o].holds
\* A reordering locks the rows it joins FOR UPDATE; a change of a project leaves its key to
\* those that refer to it, and a new reference keeps the key until its commit.
LockedForUpdate(a, p) == \E o \in Ask \ {a} : ask[o].kind = "reorder" /\ p \in ask[o].holds
KeptKey(a, p) == \E o \in Ask \ {a} :
    ask[o].step = "commit" /\ ask[o].added # {} /\ ask[o].on = p
LockedRow(a, id) == \E o \in Ask \ {a} : id \in ask[o].rows

AtStep(a, kinds, step) == ask[a].kind \in kinds /\ ask[a].step = step
Becomes(a, state) == ask' = [ask EXCEPT ![a] = state]
History == <<asked, overlaps>>
Rest == <<project, member, favorite, asked, overlaps>>

----------------------------------------------------------------------------
(* Asking. *)

Unended(a) == ask[a].step \notin {"idle", "done"}

Asking(a, new) ==
    /\ ask[a] = NoAsk
    /\ Becomes(a, new)
    /\ asked' = Append(asked, a)
    /\ overlaps' = overlaps \cup {{a, o} : o \in {o \in Ask : Unended(o)}}
    /\ UNCHANGED <<project, member, favorite>>

\* The creator is a member, whoever else is asked for.
AskCreate(a) ==
    \E p \in Proj, members \in SUBSET Usr :
        /\ project[p] = "absent" /\ \A o \in Ask : ask[o].kind = "create" => ask[o].on # p
        /\ Asking(a, [NoAsk EXCEPT !.kind = "create", !.by = Creator[p], !.on = p,
                                   !.members = members \cup {Creator[p]}, !.step = "prefix"])

\* Mutant of AskUpdate: the creator may be left out.
AskUpdateAnyMembers(a) ==
    \E u \in Usr, p \in Proj, members \in SUBSET Usr :
        /\ project[p] # "absent"
        /\ Asking(a, [NoAsk EXCEPT !.kind = "update", !.by = u, !.on = p,
                                   !.members = members, !.step = "manage"])

AskUpdate(a) ==
    \E u \in Usr, p \in Proj : \E members \in {{}} \cup {m \in SUBSET Usr : u \in m} :
        /\ project[p] # "absent"
        /\ Asking(a, [NoAsk EXCEPT !.kind = "update", !.by = u, !.on = p,
                                   !.members = members, !.step = "manage"])

AskDelete(a) ==
    \E u \in Usr, p \in Proj :
        /\ project[p] # "absent"
        /\ Asking(a, [NoAsk EXCEPT !.kind = "delete", !.by = u, !.on = p, !.step = "manage"])

AskReorder(a) ==
    \E u \in Usr, readable \in SUBSET {p \in Proj : project[p] # "absent"} :
        \E ids \in SetToSeqs(readable) :
            Asking(a, [NoAsk EXCEPT !.kind = "reorder", !.by = u, !.ids = ids,
                                    !.step = "select"])

AskFavorite(a) ==
    \E u \in Usr, p \in Proj :
        /\ project[p] # "absent"
        /\ Asking(a, [NoAsk EXCEPT !.kind = "favorite", !.by = u, !.on = p, !.step = "find"])

----------------------------------------------------------------------------
(* The end of a request: an answer, or a rollback. *)

Ended(a, answer) == Becomes(a, [ask[a] EXCEPT !.step = "done", !.answer = answer,
                                              !.holds = {}, !.rows = {}])

ProjectRefuses(a) == Ended(a, "error") /\ UNCHANGED Rest

\* Any statement may fail; the answer of a creation or a change is read after the commit,
\* and its failure is an error although all is done.
ProjectFails(a) == Unended(a) /\ ProjectRefuses(a)

----------------------------------------------------------------------------
(* create and update. *)

CheckPrefix(a) ==
    /\ AtStep(a, {"create"}, "prefix")
    /\ IF \E p \in Proj : ActiveProject(p) /\ PrefixOf[p] = PrefixOf[ask[a].on]
       THEN ProjectRefuses(a)
       ELSE Becomes(a, [ask[a] EXCEPT !.step = "insert"]) /\ UNCHANGED Rest

\* The unique index counts archived projects too, and waits for a pending transaction.
InsertProject(a) ==
    LET taken == {p \in Proj : project[p] # "absent" /\ PrefixOf[p] = PrefixOf[ask[a].on]}
        pending == {o \in Ask \ {a} : ask[o].kind = "create" /\ ask[o].on \in ask[o].holds
                                     /\ PrefixOf[ask[o].on] = PrefixOf[ask[a].on]}
    IN  /\ AtStep(a, {"create"}, "insert") /\ pending = {}
        /\ IF taken # {} THEN ProjectRefuses(a)
           ELSE /\ Becomes(a, [ask[a] EXCEPT !.step = "orders", !.holds = {ask[a].on}])
                /\ UNCHANGED Rest

\* assertCanManage.
CheckManage(a) ==
    /\ AtStep(a, {"update", "delete"}, "manage")
    /\ IF ActiveProject(ask[a].on) /\ Creator[ask[a].on] = ask[a].by
       THEN /\ Becomes(a, [ask[a] EXCEPT !.step =
                              IF ask[a].kind = "update" THEN "save" ELSE "remove"])
            /\ UNCHANGED Rest
       ELSE ProjectRefuses(a)

\* project.save: an UPDATE that locks the row, or nothing when no field has changed.
SaveProject(a) ==
    /\ AtStep(a, {"update"}, "save")
    /\ \E changed \in BOOLEAN :
          /\ changed => ~ LockedProject(a, ask[a].on)
          /\ Becomes(a, [ask[a] EXCEPT !.step = IF ask[a].members = {} THEN "commit" ELSE "existing",
                                       !.holds = IF changed THEN {ask[a].on} ELSE {}])
    /\ UNCHANGED Rest

ReadExisting(a) ==
    /\ AtStep(a, {"update"}, "existing")
    /\ Becomes(a, [ask[a] EXCEPT !.step = "remove", !.found = MembershipsIn(ask[a].on)])
    /\ UNCHANGED Rest

\* destroy where the user is not one of those asked for, by its own look at the rows.
RemoveMembers(a) ==
    LET gone == {m \in MembershipsIn(ask[a].on) : m.user \notin ask[a].members}
        ids == {m.id : m \in gone}
    IN  /\ AtStep(a, {"update"}, "remove")
        /\ \A id \in ids : ~ LockedRow(a, id)
        /\ Becomes(a, [ask[a] EXCEPT !.step = "orders", !.removed = ids, !.rows = ids])
        /\ UNCHANGED Rest

NewMembers(a) ==
    IF ask[a].kind = "create" THEN ask[a].members
    ELSE ask[a].members \ {m.user : m \in ask[a].found}

\* Mutant of NextOrder: the position of the last project, not the one after it.
LastOrder(orders) == IF orders = {} THEN 0 ELSE Max(orders)
NextOrder(orders) == IF orders = {} THEN 0 ELSE Max(orders) + 1

\* getNextMemberOrders: the memberships of all new members, in one query; a transaction
\* does not see the rows it has removed.
GetNextMemberOrders(a) ==
    LET rows == {m \in member : m.id \notin ask[a].removed}
    IN  /\ AtStep(a, {"create", "update"}, "orders")
        /\ Becomes(a, [ask[a] EXCEPT !.step = "add",
              !.next = [u \in Usr |-> NextOrder({m.order : m \in {m \in rows : m.user = u}})]])
        /\ UNCHANGED Rest

\* The sequence of the primary key gives no number twice.
UsedIds == {m.id : m \in FirstMember} \cup UNION {{m.id : m \in ask[o].added} : o \in Ask}

\* bulkCreate: each row refers to its project.
AddMembers(a) ==
    LET keys == Injection(NewMembers(a), (1..MaxRow) \ UsedIds)
        id == CHOOSE f \in keys : TRUE
    IN  /\ AtStep(a, {"create", "update"}, "add") /\ keys # {}
        /\ NewMembers(a) # {} => ~ LockedForUpdate(a, ask[a].on)
        /\ Becomes(a, [ask[a] EXCEPT !.step = "commit",
              !.added = {[id |-> id[u], user |-> u, project |-> ask[a].on,
                          order |-> ask[a].next[u]] : u \in NewMembers(a)}])
        /\ UNCHANGED Rest

CommitMembers(a) ==
    /\ AtStep(a, {"create", "update"}, "commit")
    /\ project' = [project EXCEPT ![ask[a].on] = IF ask[a].kind = "create" THEN "active" ELSE @]
    /\ member' = {m \in member : m.id \notin ask[a].removed} \cup ask[a].added
    /\ Becomes(a, [ask[a] EXCEPT !.step = "read", !.holds = {}, !.rows = {}])
    /\ UNCHANGED <<favorite, History>>

\* The answer: getById, which a colleague's archive may refuse.
ReadAnswer(a) ==
    /\ AtStep(a, {"create", "update"}, "read")
    /\ Ended(a, IF ActiveProject(ask[a].on) THEN "ok" ELSE "error")
    /\ UNCHANGED Rest

\* delete: the row that was read, by its id.
DestroyProject(a) ==
    /\ AtStep(a, {"delete"}, "remove") /\ ~ LockedProject(a, ask[a].on)
    /\ project' = [project EXCEPT ![ask[a].on] = "archived"]
    /\ Ended(a, "ok")
    /\ UNCHANGED <<member, favorite, History>>

----------------------------------------------------------------------------
(* reorder. *)

\* The SELECT ... FOR UPDATE: the rows it sees when it starts,
SelectMemberships(a) ==
    /\ AtStep(a, {"reorder"}, "select")
    /\ Becomes(a, [ask[a] EXCEPT !.step = "lock",
                     !.found = {m \in MembershipsOf(ask[a].by) : ActiveProject(m.project)}])
    /\ UNCHANGED Rest

\* and those of them that are still there once no other transaction holds them or their
\* projects; they must be the ids asked for, one row for each.
LockMemberships(a) ==
    LET rows == {m \in MembershipsOf(ask[a].by) :
                    m.id \in {f.id : f \in ask[a].found} /\ ActiveProject(m.project)}
        projects == {m.project : m \in rows}
    IN  /\ AtStep(a, {"reorder"}, "lock")
        /\ \A m \in ask[a].found : /\ ~ LockedRow(a, m.id)
                                   /\ ~ LockedProject(a, m.project) /\ ~ KeptKey(a, m.project)
        /\ IF Cardinality(rows) = Len(ask[a].ids) /\ projects = Range(ask[a].ids)
           THEN Becomes(a, [ask[a] EXCEPT !.step = "rows", !.found = rows,
                                          !.rows = {m.id : m \in rows}, !.holds = projects])
           ELSE Ended(a, "error")
        /\ UNCHANGED Rest

\* The UPDATEs name the user and the project: every row of that pair takes the place.
PlaceIn(ids, p) == CHOOSE i \in 0..(Len(ids) - 1) : ids[i + 1] = p

UpdateOrders(a) ==
    LET mine == {m \in MembershipsOf(ask[a].by) : m.project \in Range(ask[a].ids)}
    IN  /\ AtStep(a, {"reorder"}, "rows") /\ \A m \in mine : ~ LockedRow(a, m.id)
        /\ member' = (member \ mine)
                       \cup {[m EXCEPT !.order = PlaceIn(ask[a].ids, m.project)] : m \in mine}
        /\ Ended(a, "ok")
        /\ UNCHANGED <<project, favorite, History>>

----------------------------------------------------------------------------
(* toggleFavorite. *)

FindFavorite(a) ==
    /\ AtStep(a, {"favorite"}, "find")
    /\ IF ActiveProject(ask[a].on)
            /\ \/ Creator[ask[a].on] = ask[a].by
               \/ \E m \in MembershipsOf(ask[a].by) : m.project = ask[a].on
       THEN Becomes(a, [ask[a] EXCEPT !.step = "toggle", !.answer =
               IF <<ask[a].by, ask[a].on>> \in favorite THEN "yes" ELSE "no"])
            /\ UNCHANGED Rest
       ELSE ProjectRefuses(a)

\* What was found is destroyed; what was not is created, unless the unique index refuses.
ToggleFavorite(a) ==
    LET pair == <<ask[a].by, ask[a].on>>
    IN  /\ AtStep(a, {"favorite"}, "toggle")
        /\ \/ /\ ask[a].answer = "yes"
              /\ favorite' = favorite \ {pair}
              /\ Ended(a, "no")
           \/ /\ ask[a].answer = "no" /\ pair \notin favorite
              /\ ~ LockedForUpdate(a, ask[a].on)
              /\ favorite' = favorite \cup {pair}
              /\ Ended(a, "yes")
           \/ /\ ask[a].answer = "no" /\ pair \in favorite
              /\ Ended(a, "error")
              /\ UNCHANGED favorite
        /\ UNCHANGED <<project, member, History>>

----------------------------------------------------------------------------

ProjectsInit ==
    /\ project = [p \in Proj |-> IF p \in Existing THEN "active" ELSE "absent"]
    /\ member = FirstMember
    /\ favorite = {}
    /\ ask = [a \in Ask |-> NoAsk]
    /\ asked = <<>>
    /\ overlaps = {}

ProjectsNext ==
    \E a \in Ask :
       \/ AskCreate(a) \/ AskUpdate(a) \/ AskDelete(a) \/ AskReorder(a) \/ AskFavorite(a)
       \/ CheckPrefix(a) \/ InsertProject(a) \/ CheckManage(a) \/ SaveProject(a)
       \/ ReadExisting(a) \/ RemoveMembers(a) \/ GetNextMemberOrders(a) \/ AddMembers(a)
       \/ CommitMembers(a) \/ ReadAnswer(a) \/ DestroyProject(a)
       \/ SelectMemberships(a) \/ LockMemberships(a) \/ UpdateOrders(a)
       \/ FindFavorite(a) \/ ToggleFavorite(a) \/ ProjectFails(a)

ProjectsSpec == ProjectsInit /\ [][ProjectsNext]_projectsVars

----------------------------------------------------------------------------
(* Properties. *)

\* Two requests about one project, or about the order of one user.
Meet(a, o) ==
    \/ ask[a].on = ask[o].on /\ ask[a].kind # "reorder" /\ ask[o].kind # "reorder"
    \/ (ask[a].members \cup {ask[a].by}) \cap (ask[o].members \cup {ask[o].by}) # {}

\* The last request that met a came before it, and was over.
Undisturbed(a) ==
    \A i, j \in DOMAIN asked : asked[j] = a /\ i # j /\ Meet(a, asked[i]) =>
        i < j /\ {a, asked[i]} \notin overlaps

Orders(u) == {m.order : m \in {m \in MembershipsOf(u) : ActiveProject(m.project)}}

\* Two requests for the user as a member of the project ran at one time.
AddedTwice(u, p) == \E pair \in overlaps : \A o \in pair : ask[o].on = p /\ u \in ask[o].members

\* What an answered request promised still holds if no other one about the same project
\* or user ran with it or came after it: the members are those asked for, with the
\* creator, each once unless earlier ones added the user twice, and a new project is last
\* for all of them; the order is the one asked for; the favorite is as answered.
AnsweredIsDone ==
    \A a \in Range(asked) : Undisturbed(a) =>
        /\ ask[a].members # {} /\ ask[a].answer = "ok" =>
              /\ {m.user : m \in MembershipsIn(ask[a].on)} = ask[a].members
              /\ Creator[ask[a].on] \in ask[a].members
              /\ \A m, n \in MembershipsIn(ask[a].on) :
                    m # n /\ m.user = n.user => AddedTwice(m.user, ask[a].on)
              /\ \A m \in ask[a].added : m.order = Max(Orders(m.user))
        /\ ask[a].kind = "reorder" /\ ask[a].answer = "ok" =>
              \A m \in MembershipsOf(ask[a].by) :
                  ActiveProject(m.project) => m.order = PlaceIn(ask[a].ids, m.project)
        /\ ask[a].kind = "favorite" /\ ask[a].step = "done" /\ ask[a].answer # "error" =>
              (ask[a].answer = "yes") = (<<ask[a].by, ask[a].on>> \in favorite)

\* The living projects of a user have distinct places, a reordering among the changes or
\* not. Only two additions of the user that ran at one time may take one place, and two
\* reorderings that did may give it: one of them has not seen a project the other placed.
DistinctOrders ==
    \A m, n \in member :
        /\ m # n /\ m.user = n.user /\ m.order = n.order
        /\ ActiveProject(m.project) /\ ActiveProject(n.project)
        => \E pair \in overlaps :
              \/ \A a \in pair : m.user \in ask[a].members
              \/ \A a \in pair : ask[a].kind = "reorder" /\ ask[a].by = m.user
=============================================================================
