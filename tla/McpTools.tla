------------------------------ MODULE McpTools ------------------------------
(***************************************************************************)
(* The tools of the Projects MCP endpoint (projects-mcp-server.service.ts) *)
(* and the services they call: what one tools/call of one user reads, in   *)
(* which order, before it changes something, while other users rename,     *)
(* archive, restore and move the same rows and take the membership away.   *)
(*                                                                         *)
(* A tool is the sequence of its database statements; the change itself is *)
(* the statement "act".  What a call knows of the world is only what these *)
(* statements returned, each at its own moment.  The idempotency record    *)
(* around a write tool is McpOperations: here every call has its own key.  *)
(*                                                                         *)
(* A client names what it means to change by an id and by the title it     *)
(* knows; "known" stands for that title, "other" for any other one.        *)
(***************************************************************************)
EXTENDS Naturals, Sequences, FiniteSets

CONSTANTS
    ToolCall,     \* tool calls
    ProjectRow, Owned,       \* projects; those the caller created
    Board, Column, Task, Tag, Colleague,
    Parent,       \* the project of a board or tag, the board of a column
    FirstColumn,  \* the column of each task at first
    Later,        \* rows that are created only later
    Tokens,       \* the scopes of the tokens the caller may have
    MaxChanges,   \* changes made by other users
    Nothing       \* no row

AnyRow == ProjectRow \cup Board \cup Column \cup Task \cup Tag \cup Colleague
Scope == {"read", "create", "update", "members", "delete"}

ASSUME McpToolsAssumption ==
    /\ Owned \subseteq ProjectRow /\ Later \subseteq AnyRow
    /\ LET table == <<ProjectRow, Board, Column, Task, Tag, Colleague>>
       IN  \A i, j \in DOMAIN table : i # j => table[i] \cap table[j] = {}
    /\ FirstColumn \in [Task -> Column]
    /\ Parent \in [Board \cup Tag \cup Column -> ProjectRow \cup Board]
    /\ \A n \in Board \cup Tag : Parent[n] \in ProjectRow
    /\ \A n \in Column : Parent[n] \in Board
    /\ Tokens \subseteq SUBSET Scope /\ MaxChanges \in Nat
    /\ Nothing \notin AnyRow

VARIABLES
    world,     \* the rows as they are
    toolCall,  \* the calls
    seen,      \* the worlds that passed while a call ran (history)
    changes    \* how many changes other users have made

toolsVars == <<world, toolCall, seen, changes>>

World == [title : [AnyRow -> {"known", "other"}],
          state : [AnyRow -> {"absent", "live", "archived"}],
          member : SUBSET ProjectRow,
          column : [Task -> Column]]

----------------------------------------------------------------------------
(* PROJECTS_MCP_TOOL_SCOPES: what the guard asks of a single request. *)

ReadTool == {"projects_list", "projects_get", "users_list", "project_members_list",
             "project_boards_list", "project_tags_list", "boards_get",
             "board_columns_list", "board_tasks_list", "columns_get",
             "column_tasks_list", "tasks_get", "task_subtasks_list",
             "task_comments_list", "task_history_list"}
UpdateTool == {"projects_update", "projects_favorite_set", "projects_reorder",
               "project_tags_create", "project_tags_update", "boards_create",
               "boards_update", "boards_reorder", "columns_create",
               "columns_update", "columns_reorder", "tasks_create",
               "subtasks_create", "tasks_update", "tasks_move",
               "task_comments_create"}
DeleteTool == {"project_tags_delete", "projects_delete", "boards_delete",
               "columns_delete", "tasks_delete"}
Tool == ReadTool \cup UpdateTool \cup DeleteTool
          \cup {"projects_create", "project_members_update"}

PROJECTS_MCP_TOOL_SCOPES ==
    [t \in Tool |-> CASE t \in ReadTool -> "read"
                      [] t \in UpdateTool -> "update"
                      [] t \in DeleteTool -> "delete"
                      [] t = "projects_create" -> "create"
                      [] t = "project_members_update" -> "members"]

----------------------------------------------------------------------------
(* The statements behind the services' and the server's helpers. *)

\* What a statement reads or locks; "act" is the change or the rows that are answered.
Statement ==
    {"projectRow", "membership", "projectTitle", "manage", "memberships", "projectListed",
     "projectOrder", "boardRow", "boardLive", "boardLocked", "boardTitle", "boardOrder",
     "columnRow", "columnTitle", "columnOfLiveBoard", "columnOrder", "taskRow",
     "taskLive", "taskLocked", "taskTitle", "targetRow", "targetTitle", "tagLive",
     "tagTitle", "tagLabels", "userNames", "act"}

\* projectAccess.assertCanRead: the project, then the membership.
AssertCanRead == <<"projectRow", "membership">>
\* projects.getById; the row is read again after the check.
ProjectsGetById == AssertCanRead \o <<"projectRow">>
\* assertProjectTitle.
AssertProjectTitle == AssertCanRead \o <<"projectTitle">>
\* boards.getById finds archived boards too.
BoardsGetById == <<"boardRow">> \o AssertCanRead \o <<"boardRow">>
BoardTitle == <<"boardRow">> \o AssertCanRead \o <<"boardTitle">>
\* columns.assertBoardAccess, getAccessibleColumn.
AssertBoardAccess == <<"boardLive">> \o AssertCanRead
GetAccessibleColumn == <<"columnRow">> \o AssertBoardAccess
ColumnTitle == <<"columnTitle">> \o AssertBoardAccess
\* assertTaskAccess with the archive included, and tasks.getById with it.
TaskAccess == <<"taskRow", "columnRow", "boardRow">> \o AssertCanRead
TasksGetById == TaskAccess \o <<"columnRow", "boardRow", "taskRow">>
TaskTitle == TaskAccess \o <<"columnRow", "boardRow", "taskTitle">>
\* getProjectIdForColumn.
GetProjectIdForColumn == GetAccessibleColumn \o BoardsGetById
\* assertTaskReferences: the users' names, then the labels of the tags.
AssertTaskReferences == <<"userNames", "tagLabels">>

(* The services' operations up to and with the change. *)

ProjectsUpdate == <<"manage", "act">> \o ProjectsGetById
ProjectsDelete == <<"manage", "act">>
TagsCreate == <<"act">>
\* The tags service checks neither the project nor the caller.
TagsUpdate == <<"tagLive", "act">>
TagsDelete == <<"tagLive", "act">>
BoardsCreate == AssertCanRead \o <<"act">>
BoardsUpdate == <<"boardLive">> \o AssertCanRead \o <<"act">>
BoardsReorder == AssertCanRead \o <<"act">>
BoardsDelete == <<"boardLocked">> \o AssertCanRead \o <<"act">>
ColumnsCreate == AssertBoardAccess \o <<"act">>
ColumnsUpdate == GetAccessibleColumn \o <<"act">>
ColumnsDelete == GetAccessibleColumn \o <<"act">>
ColumnsReorder == AssertBoardAccess \o <<"act">>
\* A deletion reads its task without FOR UPDATE, the other changes lock it.
TasksCreate == <<"columnOfLiveBoard">> \o AssertCanRead \o <<"act">>
TasksCreateSubtask == <<"taskLive", "columnOfLiveBoard">> \o AssertCanRead \o <<"act">>
LockedTask == <<"taskLocked", "columnRow", "boardLive">> \o AssertCanRead
TasksUpdate == LockedTask \o <<"act">> \o TasksGetById
TasksMove == LockedTask \o <<"targetRow", "boardLive">> \o AssertCanRead \o <<"act">>
TasksDelete == <<"taskLive", "columnRow", "boardLive">> \o AssertCanRead \o <<"act">>
\* A comment is a row of the ERP comments service.
CommentsList == TasksGetById \o <<"act">>
CommentsCreate == TasksGetById \o <<"act">>

----------------------------------------------------------------------------
(* The write tools: the scopes a handler asserts (a members list asks for  *)
(* "members" too), its statements, and what its "act" does to the target.  *)
(* What a create tool reads back of its new row is left out.               *)

projects_create ==
    [asserts |-> "create", act |-> "create",
     run |-> <<"userNames", "act">>]

projects_update ==
    [asserts |-> "update", act |-> "rename",
     run |-> AssertProjectTitle \o ProjectsUpdate]

project_members_update ==
    [asserts |-> "members", act |-> "members",
     run |-> <<"userNames">> \o AssertProjectTitle \o ProjectsUpdate]

projects_favorite_set ==
    [asserts |-> "update", act |-> "favorite",
     run |-> <<"memberships", "projectListed">> \o AssertCanRead \o <<"act">>]

projects_reorder ==
    [asserts |-> "update", act |-> "order",
     run |-> <<"memberships", "projectOrder", "act">>]

project_tags_create ==
    [asserts |-> "update", act |-> "create",
     run |-> <<"manage">> \o AssertProjectTitle \o TagsCreate]

\* Mutant of project_tags_update: the tag is not looked up in the project.
project_tags_update_anywhere ==
    [asserts |-> "update", act |-> "rename",
     run |-> <<"manage">> \o AssertProjectTitle \o TagsUpdate]

project_tags_update ==
    [asserts |-> "update", act |-> "rename",
     run |-> <<"manage">> \o AssertProjectTitle \o <<"tagTitle">> \o TagsUpdate]

project_tags_delete ==
    [asserts |-> "delete", act |-> "delete",
     run |-> <<"manage">> \o AssertProjectTitle \o <<"tagTitle">> \o TagsDelete]

projects_delete ==
    [asserts |-> "delete", act |-> "delete",
     run |-> AssertProjectTitle \o ProjectsDelete]

boards_create ==
    [asserts |-> "update", act |-> "create",
     run |-> AssertProjectTitle \o BoardsCreate]

boards_update ==
    [asserts |-> "update", act |-> "rename",
     run |-> BoardTitle \o BoardsUpdate]

boards_reorder ==
    [asserts |-> "update", act |-> "order",
     run |-> AssertProjectTitle \o AssertCanRead \o <<"boardOrder">> \o BoardsReorder]

\* Mutant of boards_delete: the board is looked up without comparing its title.
boards_delete_unconfirmed ==
    [asserts |-> "delete", act |-> "delete",
     run |-> BoardsGetById \o BoardsDelete]

boards_delete ==
    [asserts |-> "delete", act |-> "delete",
     run |-> BoardTitle \o BoardsDelete]

columns_create ==
    [asserts |-> "update", act |-> "create",
     run |-> BoardTitle \o ColumnsCreate]

columns_update ==
    [asserts |-> "update", act |-> "rename",
     run |-> ColumnTitle \o ColumnsUpdate \o BoardsGetById]

columns_reorder ==
    [asserts |-> "update", act |-> "order",
     run |-> BoardTitle \o AssertBoardAccess \o <<"columnOrder">>
               \o ColumnsReorder]

columns_delete ==
    [asserts |-> "delete", act |-> "delete",
     run |-> ColumnTitle \o BoardsGetById \o ColumnsDelete]

tasks_create ==
    [asserts |-> "update", act |-> "create",
     run |-> ColumnTitle \o BoardsGetById \o AssertTaskReferences \o TasksCreate]

subtasks_create ==
    [asserts |-> "update", act |-> "create",
     run |-> TaskTitle \o GetProjectIdForColumn \o AssertTaskReferences
               \o TasksCreateSubtask]

tasks_update ==
    [asserts |-> "update", act |-> "rename",
     run |-> TaskTitle \o GetProjectIdForColumn \o AssertTaskReferences \o TasksUpdate]

tasks_move ==
    [asserts |-> "update", act |-> "move",
     run |-> TaskTitle \o <<"targetTitle">> \o AssertBoardAccess \o BoardsGetById
               \o TasksMove \o TasksGetById]

tasks_delete ==
    [asserts |-> "delete", act |-> "delete",
     run |-> TaskTitle \o GetProjectIdForColumn \o TasksDelete]

task_comments_create ==
    [asserts |-> "update", act |-> "comment",
     run |-> TaskTitle \o GetProjectIdForColumn \o CommentsCreate]

WriteTools ==
    [projects_create |-> projects_create, projects_update |-> projects_update,
     project_members_update |-> project_members_update,
     projects_favorite_set |-> projects_favorite_set, projects_reorder |-> projects_reorder,
     project_tags_create |-> project_tags_create, project_tags_update |-> project_tags_update,
     project_tags_delete |-> project_tags_delete, projects_delete |-> projects_delete,
     boards_create |-> boards_create, boards_update |-> boards_update,
     boards_reorder |-> boards_reorder, boards_delete |-> boards_delete,
     columns_create |-> columns_create, columns_update |-> columns_update,
     columns_reorder |-> columns_reorder, columns_delete |-> columns_delete,
     tasks_create |-> tasks_create, subtasks_create |-> subtasks_create,
     tasks_update |-> tasks_update, tasks_move |-> tasks_move, tasks_delete |-> tasks_delete,
     task_comments_create |-> task_comments_create]

(* The read tools; their "act" is the query whose rows are answered. *)

ProjectReads ==
    [projects_list |-> <<"memberships", "act">>,
     projects_get |-> AssertCanRead \o <<"act">>,
     users_list |-> <<"act">>,
     project_members_list |-> AssertCanRead \o <<"act">>,
     project_boards_list |-> AssertCanRead \o AssertCanRead \o <<"act">>,
     project_tags_list |-> AssertCanRead \o <<"act">>]

BoardAndTaskReads ==
    [boards_get |-> <<"boardRow">> \o AssertCanRead \o <<"act">>,
     board_columns_list |-> AssertBoardAccess \o <<"act">>,
     board_tasks_list |-> AssertBoardAccess \o <<"act">>,
     columns_get |-> GetAccessibleColumn \o <<"act">>,
     column_tasks_list |-> <<"columnRow", "boardLive">> \o AssertCanRead \o <<"act">>,
     tasks_get |-> TaskAccess \o <<"columnRow", "boardRow", "act">>,
     task_subtasks_list |-> TaskAccess \o <<"columnRow", "boardRow", "act">>,
     task_comments_list |-> CommentsList,
     task_history_list |-> TaskAccess \o <<"columnRow", "boardRow", "act">>]

\* The resources projects://accessible and project://{projectId}.
Resources ==
    [accessible_projects |-> <<"memberships", "act">>,
     project |-> ProjectsGetById]

Reading(run) == [asserts |-> "read", act |-> "read", run |-> run]

Request == Tool \cup DOMAIN Resources

Handler(t) == CASE t \in DOMAIN WriteTools -> WriteTools[t]
                [] t \in DOMAIN ProjectReads -> Reading(ProjectReads[t])
                [] t \in DOMAIN BoardAndTaskReads -> Reading(BoardAndTaskReads[t])
                [] t \in DOMAIN Resources -> Reading(Resources[t])

----------------------------------------------------------------------------
(* A call: its input, what its statements have learnt, what is left to do. *)

ToolInput == [tool : Request, on : AnyRow \cup {Nothing}, project : ProjectRow \cup {Nothing},
          into : Column \cup {Nothing}, users : SUBSET Colleague, refs : SUBSET Tag,
          listed : SUBSET AnyRow]

ToolCallState ==
    [step : {"idle", "running", "done"}, input : ToolInput, token : SUBSET Scope,
     project : ProjectRow \cup {Nothing}, board : Board \cup {Nothing},
     column : Column \cup {Nothing}, memberOf : SUBSET ProjectRow,
     todo : Seq(Statement), lock : AnyRow \cup {Nothing}, did : BOOLEAN,
     answer : {"none", "ok", "refused", "error"}]

\* What each tool takes: the row it is about, and the references it checks.
About(t) ==
    CASE t \in {"projects_list", "users_list", "projects_create", "projects_reorder",
                "accessible_projects"} -> {Nothing}
      [] t \in {"project", "projects_get", "project_members_list", "project_boards_list",
                "project_tags_list", "projects_update", "project_members_update",
                "projects_favorite_set", "project_tags_create", "projects_delete",
                "boards_create", "boards_reorder"} -> ProjectRow
      [] t \in {"project_tags_update", "project_tags_delete"} -> Tag
      [] t \in {"boards_get", "board_columns_list", "board_tasks_list", "boards_update",
                "boards_delete", "columns_create", "columns_reorder"} -> Board
      [] t \in {"columns_get", "column_tasks_list", "columns_update", "columns_delete",
                "tasks_create"} -> Column
      [] OTHER -> Task

Listable(t) == CASE t = "projects_reorder" -> ProjectRow
                 [] t = "boards_reorder" -> Board
                 [] t = "columns_reorder" -> Column
                 [] OTHER -> {}

Inputs(t) ==
    [tool : {t}, on : About(t),
     project : IF About(t) = Tag THEN ProjectRow ELSE {Nothing},
     into : IF t = "tasks_move" THEN Column ELSE {Nothing},
     users : IF t \in {"projects_create", "project_members_update", "tasks_update"}
             THEN SUBSET Colleague ELSE {{}},
     refs : IF t \in {"tasks_create", "subtasks_create", "tasks_update"}
            THEN {r \in SUBSET Tag : Cardinality(r) <= 1} ELSE {{}},
     listed : IF Listable(t) = {} THEN {{}} ELSE SUBSET Listable(t) \ {{}}]

BoardOf(i) == CASE i.on \in Board -> i.on
                [] i.on \in Column -> Parent[i.on]
                [] OTHER -> Nothing
ProjectOf(i) == CASE i.project # Nothing -> i.project
                  [] i.on \in ProjectRow -> i.on
                  [] BoardOf(i) # Nothing -> Parent[BoardOf(i)]
                  [] OTHER -> Nothing

\* Mutant of Asserted: a project may be created with members under "create" alone.
AssertedWithoutMembers(i) == {Handler(i.tool).asserts}

\* The scopes the handler asserts itself: the guard knows the tool of a single
\* request only, a batch reaches the handlers unchecked.
Asserted(i) ==
    {Handler(i.tool).asserts}
      \cup (IF i.tool = "projects_create" /\ i.users # {} THEN {"members"} ELSE {})

----------------------------------------------------------------------------
(* One request. *)

\* canActivate: a token with a scope of ours; a local one without introspection
\* must read at least.
Admitted(token, localDevelopment) ==
    token # {} /\ (localDevelopment => "read" \in token)

\* assertRequestScope: what the guard asks of one request; it looks for no tool in a
\* batch of them.
RequestScope(t, single) ==
    CASE ~single -> {}
      [] t \in Tool -> {PROJECTS_MCP_TOOL_SCOPES[t]}
      [] OTHER -> {"read"}

Refused(i, token, single, localDevelopment) ==
    \/ ~ Admitted(token, localDevelopment)
    \/ ~ RequestScope(i.tool, single) \subseteq token
    \/ ~ Asserted(i) \subseteq token

AskTool(c) ==
    /\ toolCall[c].step = "idle"
    /\ \E t \in Request, token \in Tokens, single, localDevelopment \in BOOLEAN :
       \E i \in Inputs(t) :
          LET refused == Refused(i, token, single, localDevelopment)
          IN  /\ toolCall' = [toolCall EXCEPT ![c] =
                    [step |-> IF refused THEN "done" ELSE "running", input |-> i,
                     token |-> token, project |-> ProjectOf(i), board |-> BoardOf(i),
                     column |-> IF i.on \in Column THEN i.on ELSE Nothing,
                     memberOf |-> {}, todo |-> IF refused THEN <<>> ELSE Handler(i.tool).run,
                     lock |-> Nothing, did |-> FALSE,
                     answer |-> IF refused THEN "refused" ELSE "none"]]
    /\ seen' = [seen EXCEPT ![c] = {world}]
    /\ UNCHANGED <<world, changes>>

EndTool(c, answer) ==
    toolCall' = [toolCall EXCEPT ![c] = [@ EXCEPT !.step = "done", !.answer = answer,
                                                  !.todo = <<>>, !.lock = Nothing]]

AtStatement(c, s) == toolCall[c].step = "running" /\ toolCall[c].todo # <<>>
                       /\ Head(toolCall[c].todo) = s

\* The statement s has returned: on to the next one with what it learnt, or out.
Returns(c, s, ok, learnt) ==
    /\ AtStatement(c, s)
    /\ \/ ok /\ toolCall' = [toolCall EXCEPT ![c] = [learnt EXCEPT !.todo = Tail(@)]]
       \/ ~ok /\ EndTool(c, "error")
    /\ UNCHANGED <<world, seen, changes>>

Live(n) == world.state[n] = "live"
Stored(n) == world.state[n] # "absent"
Known(n) == world.title[n] = "known"

\* Mutant of IsReader: assertCanRead finds the project and asks no more.
IsAnyone(p, memberOf) == TRUE
\* The creator, or a member.
IsReader(p, memberOf) == p \in Owned \cup memberOf

ReadProjectRow(c) == LET k == toolCall[c] IN Returns(c, "projectRow", Live(k.project), k)

ReadMembership(c) ==
    LET k == toolCall[c] IN Returns(c, "membership", IsReader(k.project, world.member), k)

ReadProjectTitle(c) ==
    LET k == toolCall[c]
    IN  Returns(c, "projectTitle", Live(k.project) /\ Known(k.project), k)

\* assertCanManage.
ReadManage(c) ==
    LET k == toolCall[c] IN Returns(c, "manage", Live(k.project) /\ k.project \in Owned, k)

ReadMemberships(c) ==
    Returns(c, "memberships", TRUE, [toolCall[c] EXCEPT !.memberOf = world.member])

Listed(k) == {p \in ProjectRow : Live(p) /\ IsReader(p, k.memberOf)}

ReadProjectListed(c) ==
    LET k == toolCall[c]
    IN  Returns(c, "projectListed", k.project \in Listed(k) /\ Known(k.project), k)

\* projects_favorite_set: the favorite is as asked already.
FavoriteIsSet(c) ==
    /\ AtStatement(c, "projectListed")
    /\ toolCall[c].project \in Listed(toolCall[c]) /\ Known(toolCall[c].project)
    /\ EndTool(c, "ok")
    /\ UNCHANGED <<world, seen, changes>>

\* Mutant of AssertCompleteOrder: the list may leave rows out.
AssertPartialOrder(listed, actual) == listed \subseteq actual /\ \A n \in listed : Known(n)
\* assertCompleteOrder and the titles of assertNamedOrder.
AssertCompleteOrder(listed, actual) == listed = actual /\ \A n \in listed : Known(n)

ReadProjectOrder(c) ==
    LET k == toolCall[c]
    IN  Returns(c, "projectOrder", AssertCompleteOrder(k.input.listed, Listed(k)), k)

ReadBoardOrder(c) ==
    LET k == toolCall[c]
        boards == {b \in Board : Live(b) /\ Parent[b] = k.project}
    IN  Returns(c, "boardOrder", AssertCompleteOrder(k.input.listed, boards), k)

ReadColumnOrder(c) ==
    LET k == toolCall[c]
        columns == {n \in Column : Live(n) /\ Parent[n] = k.board}
    IN  Returns(c, "columnOrder", AssertCompleteOrder(k.input.listed, columns), k)

ReadBoardRow(c) == LET k == toolCall[c] IN Returns(c, "boardRow", Stored(k.board), k)
ReadBoardLive(c) == LET k == toolCall[c] IN Returns(c, "boardLive", Live(k.board), k)
ReadBoardTitle(c) ==
    LET k == toolCall[c] IN Returns(c, "boardTitle", Stored(k.board) /\ Known(k.board), k)
LockBoard(c) ==
    LET k == toolCall[c]
    IN  Returns(c, "boardLocked", Live(k.board), [k EXCEPT !.lock = k.board])

ReadColumnRow(c) == LET k == toolCall[c] IN Returns(c, "columnRow", Live(k.column), k)
ReadColumnTitle(c) ==
    LET k == toolCall[c] IN Returns(c, "columnTitle", Live(k.column) /\ Known(k.column), k)
ReadColumnOfLiveBoard(c) ==
    LET k == toolCall[c]
    IN  Returns(c, "columnOfLiveBoard", Live(k.column) /\ Live(Parent[k.column]), k)

\* The call k with its attention on column n, its board and its project.
Within(k, n) == [k EXCEPT !.column = n, !.board = Parent[n], !.project = Parent[Parent[n]]]

Target(c) == Within(toolCall[c], toolCall[c].input.into)
ReadTargetTitle(c) ==
    Returns(c, "targetTitle", Live(Target(c).column) /\ Known(Target(c).column), Target(c))
ReadTargetRow(c) == Returns(c, "targetRow", Live(Target(c).column), Target(c))

TheTask(c) == toolCall[c].input.on
AtTask(c) == Within(toolCall[c], world.column[TheTask(c)])
ReadTaskRow(c) == TheTask(c) \in Task /\ Returns(c, "taskRow", Stored(TheTask(c)), AtTask(c))
ReadTaskTitle(c) ==
    TheTask(c) \in Task
    /\ Returns(c, "taskTitle", Stored(TheTask(c)) /\ Known(TheTask(c)), AtTask(c))
ReadTaskLive(c) == TheTask(c) \in Task /\ Returns(c, "taskLive", Live(TheTask(c)), AtTask(c))
LockTask(c) ==
    TheTask(c) \in Task
    /\ Returns(c, "taskLocked", Live(TheTask(c)), [AtTask(c) EXCEPT !.lock = TheTask(c)])

\* assertNamedUsers; there is nothing to compare when the call gives no list.
ReadUserNames(c) ==
    LET k == toolCall[c]
    IN  Returns(c, "userNames", \A u \in k.input.users : Live(u) /\ Known(u), k)

LabelsOf(p) == {g \in Tag : Live(g) /\ Parent[g] = p /\ Known(g)}
ReadTagTitle(c) ==
    LET k == toolCall[c] IN Returns(c, "tagTitle", k.input.on \in LabelsOf(k.project), k)
ReadTagLabels(c) ==
    LET k == toolCall[c] IN Returns(c, "tagLabels", k.input.refs \subseteq LabelsOf(k.project), k)
ReadTagLive(c) == LET k == toolCall[c] IN Returns(c, "tagLive", Live(k.input.on), k)

----------------------------------------------------------------------------
(* The change, and the answer. *)

BoardTasks(b) == {t \in Task : LET n == world.column[t] IN Live(n) /\ Parent[n] = b}

\* The worlds an act may leave behind.
Acted(i) ==
    LET act == Handler(i.tool).act
        gone == {i.on} \cup BoardTasks(i.on)
    IN  CASE act = "rename" -> {[world EXCEPT !.title[i.on] = "other"]}
          [] act = "delete" -> {[world EXCEPT !.state =
                                   [n \in AnyRow |-> IF n \in gone THEN "archived" ELSE @[n]]]}
          [] act = "move" -> {[world EXCEPT !.column[i.on] = i.into]}
          [] i.tool = "boards_create" ->
                {[world EXCEPT !.state[n] = "live"] :
                   n \in {b \in Board : ~Stored(b) /\ Parent[b] = i.on}} \cup {world}
          [] OTHER -> {world}

Watched(w) == [c \in ToolCall |-> IF toolCall[c].step = "running" THEN seen[c] \cup {w}
                                                                  ELSE seen[c]]

\* projects.reorder decides again, on the memberships it holds locked.
MayAct(i) ==
    i.tool = "projects_reorder" => i.listed = {p \in world.member : Live(p)}

Act(c) ==
    LET k == toolCall[c]
    IN  /\ AtStatement(c, "act")
        /\ MayAct(k.input)
        /\ world' \in Acted(k.input)
        /\ toolCall' = [toolCall EXCEPT ![c] = [k EXCEPT !.did = TRUE, !.lock = Nothing,
                                                         !.todo = Tail(@)]]
        /\ seen' = Watched(world')
        /\ UNCHANGED changes

AnswerTool(c) ==
    /\ toolCall[c].step = "running" /\ toolCall[c].todo = <<>>
    /\ EndTool(c, "ok")
    /\ UNCHANGED <<world, seen, changes>>

\* A statement throws: a right or a rule outside this module, or the database.
ToolFails(c) ==
    /\ toolCall[c].step = "running"
    /\ EndTool(c, "error")
    /\ UNCHANGED <<world, seen, changes>>

----------------------------------------------------------------------------
(* Other users, through the same services. *)

Unlocked(n) == \A c \in ToolCall : toolCall[c].lock # n

OtherUser(w) ==
    /\ changes < MaxChanges /\ \E c \in ToolCall : toolCall[c].step # "done"
    /\ changes' = changes + 1
    /\ world' = w
    /\ seen' = Watched(w)
    /\ UNCHANGED toolCall

Rename(n) == /\ Stored(n) /\ Unlocked(n)
             /\ OtherUser([world EXCEPT !.title[n] = IF @ = "known" THEN "other" ELSE "known"])
Archive(n) == Live(n) /\ Unlocked(n) /\ OtherUser([world EXCEPT !.state[n] = "archived"])
\* Only boards and tasks are restored, a blocked user may be unblocked.
Restore(n) == /\ world.state[n] = "archived" /\ n \in Board \cup Task \cup Colleague
              /\ OtherUser([world EXCEPT !.state[n] = "live"])
CreateLater(n) == ~Stored(n) /\ OtherUser([world EXCEPT !.state[n] = "live"])
\* The membership of a project someone else created.
Leave(p) == p \in world.member \ Owned /\ OtherUser([world EXCEPT !.member = @ \ {p}])
Join(p) == p \notin world.member /\ OtherUser([world EXCEPT !.member = @ \cup {p}])
Relocate(t, n) == /\ Live(n) /\ Live(Parent[n]) /\ Live(Parent[Parent[n]])
                  /\ n # world.column[t] /\ Unlocked(t)
                  /\ OtherUser([world EXCEPT !.column[t] = n])

OtherUsers ==
    \/ \E n \in AnyRow : Rename(n) \/ Archive(n) \/ Restore(n) \/ CreateLater(n)
    \/ \E p \in ProjectRow : Leave(p) \/ Join(p)
    \/ \E t \in Task, n \in Column : Relocate(t, n)

----------------------------------------------------------------------------

NoInput == [tool |-> "users_list", on |-> Nothing, project |-> Nothing, into |-> Nothing,
            users |-> {}, refs |-> {}, listed |-> {}]

ToolsInit ==
    /\ world = [title |-> [n \in AnyRow |-> "known"],
                state |-> [n \in AnyRow |-> IF n \in Later THEN "absent" ELSE "live"],
                member |-> ProjectRow, column |-> FirstColumn]
    /\ toolCall = [c \in ToolCall |->
          [step |-> "idle", input |-> NoInput, token |-> {}, project |-> Nothing,
           board |-> Nothing, column |-> Nothing, memberOf |-> {}, todo |-> <<>>,
           lock |-> Nothing, did |-> FALSE, answer |-> "none"]]
    /\ seen = [c \in ToolCall |-> {}]
    /\ changes = 0

ReadStatement(c) ==
    \/ ReadProjectRow(c) \/ ReadMembership(c) \/ ReadProjectTitle(c) \/ ReadManage(c)
    \/ ReadMemberships(c) \/ ReadProjectListed(c) \/ FavoriteIsSet(c)
    \/ ReadProjectOrder(c) \/ ReadBoardOrder(c) \/ ReadColumnOrder(c) \/ ReadBoardRow(c) \/ ReadBoardLive(c)
    \/ ReadBoardTitle(c) \/ LockBoard(c) \/ ReadColumnRow(c) \/ ReadColumnTitle(c)
    \/ ReadColumnOfLiveBoard(c) \/ ReadTargetTitle(c) \/ ReadTargetRow(c)
    \/ ReadTaskRow(c) \/ ReadTaskTitle(c) \/ ReadTaskLive(c) \/ LockTask(c)
    \/ ReadUserNames(c) \/ ReadTagTitle(c) \/ ReadTagLabels(c) \/ ReadTagLive(c)

ToolsNext ==
    \/ \E c \in ToolCall :
          \/ AskTool(c)
          \/ ReadStatement(c) \/ Act(c) \/ AnswerTool(c) \/ ToolFails(c)
    \/ OtherUsers

ToolsSpec == ToolsInit /\ [][ToolsNext]_toolsVars

----------------------------------------------------------------------------
(* Properties. *)

Doing == {c \in ToolCall : toolCall[c].did}
InputOf(c) == toolCall[c].input
SomeTime(c, Holds(_)) == \E w \in seen[c] : Holds(w)

\* "Scopes относятся ко всему дереву проекта" (doc/PROJECTS_MCP.md): nothing is read or
\* changed without the scope of the tool, and the members of a project are given
\* only under "members", for a batch of requests too, where the guard sees no tool.
ScopesHold ==
    \A c \in Doing :
        /\ RequestScope(InputOf(c).tool, TRUE) \subseteq toolCall[c].token
        /\ InputOf(c).tool \in {"projects_create", "project_members_update"}
             /\ InputOf(c).users # {} => "members" \in toolCall[c].token

\* "Порядок должен содержать полный набор".
CompleteIn(c, w) ==
    InputOf(c).listed = {n \in Listable(InputOf(c).tool) :
                            /\ w.state[n] = "live"
                            /\ n \in ProjectRow => n \in w.member
                            /\ n \notin ProjectRow => Parent[n] = InputOf(c).on}

\* What a call names by a title bore it at a moment of the call: the row it changes,
\* the column it moves into, the rows it orders, the users and tags it sets; and an
\* order that was applied named, at a moment of the call, every row of the list.
ChangesWereConfirmed ==
    \A c \in Doing : InputOf(c).tool \in DOMAIN WriteTools =>
        /\ \A n \in ({InputOf(c).on, InputOf(c).into} \ {Nothing})
                      \cup InputOf(c).users \cup InputOf(c).refs \cup InputOf(c).listed :
               SomeTime(c, LAMBDA w : w.title[n] = "known")
        /\ Listable(InputOf(c).tool) # {} => SomeTime(c, LAMBDA w : CompleteIn(c, w))

\* A tag is changed by the creator of its own project only, though the tags service
\* asks for neither; a task gets tags of a project it was in.
TagsStayInTheirProject ==
    \A c \in Doing :
        /\ InputOf(c).on \in Tag => Parent[InputOf(c).on] \in Owned
        /\ InputOf(c).on \in Task => \A g \in InputOf(c).refs :
              SomeTime(c, LAMBDA w : Parent[g] = Parent[Parent[w.column[InputOf(c).on]]])

\* The projects in which a call met what it is about.
Places(c) == IF InputOf(c).on \in Task
             THEN {Parent[Parent[w.column[InputOf(c).on]]] : w \in seen[c]}
             ELSE {toolCall[c].project}

\* A call reads and changes a row only if it was, at moments of the call, in a project
\* that was not archived and that the caller had created or was a member of.
TouchedWasReadable ==
    \A c \in Doing : Nothing \notin Places(c) =>
        \E p \in Places(c) : /\ SomeTime(c, LAMBDA w : w.state[p] = "live")
                             /\ SomeTime(c, LAMBDA w : p \in Owned \cup w.member)
=============================================================================
