# Verification of the board server

The board server is a NestJS service for kanban boards: projects with boards, columns and
tasks in PostgreSQL, live updates over socket.io, an MCP endpoint for agents, and users that
an ERP owns and announces over RabbitMQ. Its hard part is concurrency. Requests run in
READ COMMITTED transactions (`configs/postgres.config.ts` sets no other isolation level), take
row locks in some places and plain reads in others; several instances share the database; and
handlers continue after an `await` with what they read before it.

This directory holds TLA+ modules translated from that code, the configurations TLC checks
them with, and proofs for TLAPS. Run inside this directory:

    tlc -workers 2 -config TasksConcurrent.cfg MCTasks.tla
    tlapm TasksProofs.tla

`PROJECT.json` lists the components, the runs with their properties, the deviations from the
code (mutants) each property detects, the source lines behind each definition, the findings,
the hazards and the theorems.

## 1. Inventory

Paths are relative to `src/src/modules`.

| Component | State | Operations | Correct when |
|---|---|---|---|
| Tasks (`tasks/tasks.service.ts`) | `tasks` (column, parent, number, `deleted_at`, order), `projects.task_counter` | create, createSubtask, update, move, delete, restore | numbers are unique in a project; parents form a forest; a hierarchy stays on one board; archiving takes the subtasks; nothing decided on a stale row is written |
| Task lists and filters (`tasks/tasks.service.ts`) | none | getByColumn with search, filters, archive and pages, getPersonalTasks, gantt | a list read to its end has what belongs on it, once, in order |
| Boards (`boards/`) | `boards`, order, members | create (copying columns), update, reorder, delete, restore | a promised order holds; the archive of a board takes its tasks; requests end |
| Columns (`columns/`) | `board_columns`, order, move permission | create, update, reorder, delete | the last reordering holds as a whole; a new column is last |
| Projects (`projects/`) | `projects`, `project_members`, favorites, personal order | create, update with members, reorder, archive, favorite | the members are those asked for; prefixes are unique; a user's places are distinct |
| Project access and assignments (`projects/project-access.service.ts`) | `project_members`, `task_assignees`, `users.ban` | assertCanRead, assertCanManage, getActiveMemberIds `FOR SHARE` | only active members are assigned; a blocked user is assigned to nothing |
| Users (`users/users.service.ts`) | `users`, cache of service numbers | create, update, archive, check, saveUserAvailability | an active administrator is left; a number called free was free |
| User synchronization (`users/user-sync.consumer.ts`) | `users` | create, change, delete, ban events | one row per ERP id and service number, whatever the order and number of deliveries |
| User directory (`users/user-directory.service.ts`) | `refreshedAt`, the shared promise | ensureMissingUsers | one refresh at a time; one that failed does not close the window |
| Authentication (`auth/`) | `users`, cookies | candidates, introspection, legacy check, board_token, syncBoardUser | a request is the owner of its one verified token; a row changes its identity only for who is entitled |
| WebSocket gateway (`ws/`) | sockets, rooms, the flag of the poll | connection, joins, poll, broadcasts | nothing reaches a lost session; a live session is not cut |
| Activity events (`activity-events/`) | `activity_events`, `activity_event_recipients` | create, getFeed, getCounts, markRead | everyone involved is told; a reader misses nothing |
| MCP operations (`projects-mcp/projects-mcp-operations.service.ts`) | `mcp_project_operations` | run | at most one effect per key, and its own result |
| MCP tools and access (`projects-mcp/`) | none | 38 tools, 2 resources, scopes of a batch | scope, membership and confirmation by title hold together |
| Attachments (`tasks`, `s3/`) | `task_attachments`, objects | presign, confirm, delete | a stored file has a row by which it can be deleted |
| Time entries and report (`tasks/`) | `task_time_entries` | create, list, report by pages | a reading to the end is complete |
| Tags (`tags/`) | `project_tags`, `task_tags` | create, update, delete | tags stay in their project |
| Comment counters (`task-comment-counters/`) | none | batches of ids | every personal task is counted |
| Huly import (`scripts/import-huly-board.script.ts`) | columns, tasks, counter | columns, roots, subtasks in passes, dry run | each issue has one row under its parent, or is reported |
| Migrations, bootstrap, logging, configuration | - | - | section 7 |

How they interact: `tasks.service` calls `project-access` inside its transactions, and
`activity-events` inside them as well; after the commit it calls the gateway. The gateway asks
`access-token.service` about every socket it delivers to. `access-token.service`,
`user-sync.consumer`, `user-directory.service`, `users.service` and the guard of the MCP
endpoint all write `users`. The MCP tools call the same services under an idempotency key. All
requests of an instance share one pool of database connections. Everything else is shared
through the database.

What is hard to test, with the line where it bites and the property that covers it, is the
list `hazards` of `PROJECT.json`.

## 2. Plan

Done, in this order (the most shared state first):

1. `Tasks`, `TasksInductive`, `TasksProofs`: numbers, hierarchy, placement, archive.
2. `OnceOnly`, `McpOperations`: idempotency keys.
3. `Assignments`: members, blocking, assignees.
4. `WsSessions`, `WsSessionsProofs`: sessions of open sockets.
5. `ActivityFeed`, `ActivityFeedProofs`: the history and its readers.
6. `Boards`, `Projects`: orders, copies, memberships, over a bounded pool.
7. `UserIdentity`, `UserAdmin`, `UserDirectory`, `AccessTokens`: the writers of `users` and who a
   request is.
8. `McpTools`, `TaskLists`, `TimeEntries`, `Attachments`, `HulyImport`.
9. `MCWorkspace` and `MCServices`, the instances of 6 to 8 and of `Assignments`.
10. The theorems about numbers and hierarchies, from `NumberingInv`.
11. `TaskOrder`: the order of the cards in a column, and the rules of leaving it.
12. The modules of proofs: `TasksProofs`, `WsSessionsProofs`, `ActivityFeedProofs`,
    `OperationsProofs` (`McpOperations`, `Attachments`), `AccessProofs` (`Assignments`,
    `AccessTokens`, `McpTools`), `UsersProofs` (`UserIdentity`, `UserAdmin`, `UserDirectory`),
    `OrderProofs` (`TimeEntries`, `TaskOrder`, `HulyImport`, `TaskLists` and the lemmas on
    sorting) and
    `BoardsProofs` (`Boards`, `Projects`).

Left, in this order:

13. The shared feed (`scope=all`) and the counts beside `ActivityFeed`.
14. Updates of the single fields of a task, board or column.
15. Proof: `PlacedAsAsked` of `TaskOrder`.

Abstract specifications: `OnceOnly` is one. For lists, `TaskLists` compares with a declarative
definition of what belongs on them, which serves the same purpose for a program without steps
that others see.

## 3. Modules and their correspondence to the code

Conventions. A request handler is a process. One `SELECT`, one lock or one `await` is one
action; the writes of a transaction become visible in the action that commits it, so
uncommitted rows are not in the table variables. `SELECT ... FOR UPDATE` or `FOR SHARE` is a
guard on the lock variables and an assignment to them. A failed check, a deadlock victim and
a lost connection are actions of their own, enabled after every step (`Rollback`, `Fails`,
`ToolFails`, `CallFails`, ...). Where a property needs to know what a request met, a variable
marked as history records it; no action reads it.

### Tasks

State: `task` (the rows), `archived` (boards), `counter` (`projects.task_counter`), `rowLock`,
`projectLock`, and `txn`, what a running transaction remembers: its parent and column read
before the lock, the rows its hierarchy walk has collected, the number range it reserved.

| Code | Actions |
|---|---|
| create, createSubtask | `ReadColumn` / `ReadParent`, `AllocateNumbers`, `InsertTask` |
| allocateTaskNumbers | `AllocateNumbers`: locks the project, takes the maximum of counter and stored numbers |
| update with a parent, prepareParentTaskChange | `StartAttach` / `StartDetach`, `LockParent`, `CommitAttach` / `CommitDetach` |
| getTaskHierarchy | `GrowTree`, one level at a time |
| move | `StartMove`, `GrowTree`, `AllocateNumbers`, `CommitMove` |
| delete, restore | `StartDelete`, `StartRestore`, `GrowTree`, `CommitDelete`, `CommitRestore` |
| boards delete, restore | `ArchiveBoard`, `RestoreBoard` |

A relocated root is saved in its new column before the target's numbers are counted;
`VisibleNumbers` includes the number it still carries. Archived rows count as well
(`paranoid: false`).

`TasksInductive` states what running transactions rely on (which rows they hold, where their
reserved range lies), and `NothingSplits`, the set of requests without createSubtask and the
restores, under which numbers are unique. `TasksProofs` proves it. `MCTasks` has the instances.

### TaskOrder

State: `cards` (the committed tasks with column, parent, place and whether active), `rules`
(status and move permission of each column) and `mover`, a request with the rows it has locked,
the columns it holds `FOR SHARE`, and the `draft` of its transaction. It has its own module
because the list of a column is read row by row, which `Tasks` does not need.

| Code | Actions |
|---|---|
| create | `CreateCard`, then the shift of the others and `InsertCard` |
| move | `MoveCard`, `ShareTarget`, `ShareSource`, the list of the source, the list of the target |
| update with a parent, prepareParentTaskChange | `AttachCard` / `DetachCard`, `FindChild`, `LockNewParent` / `LockOldParent`, then the lists |
| normalizeColumnWithoutTask, placeTaskInColumn | `ScanList`, `LockListed` for each row, `CloseGap` or `PutCard` |
| delete, restore | `DeleteCard`, `RestoreCard`, `ReadParentOfRestored`, `LockHierarchy`, `MarkHierarchy` |
| assertTasksCanLeaveColumns | `ShareTarget` with `MayEnter`, `ShareSource` with `MayLeave` |
| columns.update | `UpdateRule`, which waits for the shares |

`SELECT ... ORDER BY ... FOR UPDATE` takes its rows and their sequence when it begins
(`ScanList`), waits for one row after the other, and looks at each again once it has the lock
(`LockListed`): a row that has left the list meanwhile is dropped, one that has entered it is
not seen, and the sequence stays the old one. `stale` is history: the requests another one
overtook during their list. `InOrder` and `TimeEntries!Down` sort by choosing, among the
sequences of a set, the one in order; the lemmas on sorting show that there is one.

### OnceOnly and McpOperations

`McpOperations` is `ProjectsMcpOperationsService.run`, statement by statement, for calls that
share keys: `StartOperation` and `Repeat` are the two outcomes of `findOrCreate`,
`Perform`, `PerformThenThrow` and `Reject` those of the operation, `StoreResult`,
`StoreResultThrows` and `StoreError` those of the bookkeeping, and `Crash` may happen after
each. `OnceOnly` is what the keys promise to a client. `KeepsPromise` is the refinement: the
effects under a key are the calls that committed, the returned results those handed out.

### Assignments

State: `banned`, `members` (rows, since no unique index keeps a pair single), `home` (project
of a task), `assigned`, and `txn` with the shared and exclusive row locks a transaction holds.
`CheckMembers` is getActiveMemberIds with `FOR SHARE`; `StartAssign`, `StartCreate`,
`StartRelocate` and their commits are the task transactions; `StartMembers` and
`CommitMembers` the change of members; `ReadForEvent`, `LockForSync`, `ReadForArchive` and
`ReadForLogin` with `UpdateUser`, `SkipUpdate` and `CommitAvailability` the writers of
`users.ban`. Sequelize's `save` leaves out a column whose value equals the one read;
`SkipUpdate` and `SetBan` model this.

### WsSessions

State: `owner` (the user the authority gives for a token, `None` once revoked), the stages of
a connection, the rooms, `check` (one pending validateSession per socket and purpose), `poll`
(revalidateConnections), and the broadcasts. The handlers are split at their awaits:
`Connect`, `GrantConnection`, `AcceptConnection`; `StartPoll`, `PollSockets`, `EndPoll`;
`StartJoin`, `AllowJoin`, `EndJoin`; `Issue`, `FetchRecipients`, `Deliver`. A check gets the
authority's answer (`Answer`: valid or lost), none (`Unavailable`: the connection stays and the
event is withheld), or an error of `syncBoardUser`, which updates or creates the user's row
after the answer (`SyncFails`: the users table does not answer, or a unique index is violated).
validateSession keeps a connection for `ServiceUnavailableException` only, so `Disconnect`
follows a lost session, a token that is not saved yet, and a failing database alike, and
`dropped` records which. `RefusalsAreRight` is therefore about the first of them: who is told
`auth:revoked` for the authority's answer has lost the session, and an authority that is down
disconnects nobody. `withheld`, `delivered` and `dropped` are history variables.

### ActivityFeed

State: `event` (with recipients and read marks), `next` (the id sequence), `txn` (an open
task transaction with its uncommitted events), the tables `home`, `assigned` and `access`, and
`browser`. `Update` and `Relocate` insert events inside the transaction; `Commit` makes them
visible and leaves signals `due` (`afterCommit`). Each is delivered later, in any order, to a
browser that is connected by then (`Signal`), or lost (`LoseSignal`): the process dies, an error
of realtime is only logged, the recipients cannot be fetched, or the authority does not vouch
for the session and the event is withheld, all of which may happen on a socket that stays open;
`docs/ERP-469.md:8` says the same of Redis. `lost` are the signals an open browser has lost and
nothing else leads it to. `ReadFirst`, `ReadOlder` and `ReadNewer` are the
statement of getFeed that reads a page, `Answer` the one that reads the accessible projects;
`ReadTask` and `ReadProject` are markRead. The browser is not part of this repository. It
behaves as the integration test does: it connects its socket before it reads, reads from below
an id it is sent, and starts over after a disconnection. Entries a page
or an answer left out because of access are recorded in `hidden` and not owed to the reader,
who loads the feed anew after a membership was granted.

### Boards

State: `row` (the committed boards and columns with their order), `req` with a request's
statement, the `draft` its transaction has written and keeps locked, the UPDATEs it has sent
outside a transaction (`left`) and whether its transaction holds a connection (`conn`).
`FreeConnections` is the pool.

| Code | Actions |
|---|---|
| `sequelize.transaction` | `Begin` takes a connection, `Commit` gives it back |
| assertCanRead, assertCanManage | `Access`: inside or outside the transaction as in the code, on a connection of its own in the columns service |
| boards.create with copied columns | `ReadSource`, `ReadMax`, `Insert` |
| columns.create | `ReadMax`, `Insert` |
| columns.reorder | `UpdateNextRow` one after another, `AllRowsUpdated` |
| boards.reorder | `UpdateRow` in any order (`Promise.all`), `AllRowsAnswered`; `UpdateRowFails` answers and leaves the others running |
| boards.delete, restore; columns.delete | `LockBoard`, `ArchiveOrRestoreBoard`; `DestroyColumn` |
| `pool.acquire`, PostgreSQL's deadlock detection | `AcquireTimesOut`, `DeadlockDetected` |

`LastReorderHolds` is about columns, whose UPDATE names the board and commits with the others:
each column has its place in the last committed list that named it. `HasRows` is a bound: a
copy is made while the model has unused columns left for it.

### Projects

State: `project`, `member` (rows with ids, several of a pair are possible), `favorite`, and
`ask` with the rows a request has removed or added in its open transaction. create is
`CheckPrefix`, `InsertProject` and the members; update `CheckManage`, `SaveProject`,
`ReadExisting`, `RemoveMembers`, `GetNextMemberOrders`, `AddMembers`, `CommitMembers`,
`ReadAnswer`; reorder `SelectMemberships`, `LockMemberships`, `UpdateOrders`; favorites
`FindFavorite`, `ToggleFavorite`. `asked` and `overlaps` remember which requests met.

A reordering locks the membership and project rows it joins `FOR UPDATE`. A new membership
refers to its project, so that its insertion waits for such a lock (`LockedForUpdate`) and keeps
the project's key until it commits (`KeptKey`), which a reordering waits for; an UPDATE of the
project does neither. Row ids come from a sequence and are never given twice.

`DistinctOrders` has two exceptions, both about requests that overlap. Two additions of a user
to two projects both read the same maximal place. Two reorderings by one user, with a committed
addition between them, work on different lists: the one that began first gives the places from
0, the other moves a new project among them. The second needs three requests; the run has two,
and the theorem any number.

### UserIdentity

State: `users`, a function on the primary keys in use with the two unique columns, and
`caller` with what a delivery, login or MCP request has read. synchronizeUser is
`FindForUpdate` (`FOR UPDATE`), `CreateFromSync` and `UpdateFromSync`; `ViolationEnds` is its
second attempt after a unique violation. syncBoardUser is `FindForLogin`, the legacy claim
`BindFreeRow` and `FindBound`, `CreateAtLogin` and `UpdateAtLogin`; upsertBoardUser
`FindForMcp` with the same writes; the events that only change a row `FindForEvent` and
`SaveEvent`. `Changed` leaves out fields that equal those read, as Sequelize does.

### UserAdmin

createUser, updateUser, checkTabelUnique and userToArchive over `staff` (the committed rows)
and `tabel` (the cache, outside of transactions). `ErpChanges` is what the modules above do to
the rows in between.

### UserDirectory

`EnsureMissingUsers` joins or starts the one refresh, `Fetch` is the answer of ERP or its
failure, `ApplyEntry` the synchronization of one entry, `RefreshDone` sets `refreshedAt`;
`Tick` is the clock, of which a minute has `Window` units.

### AccessTokens

`GetAccessTokenCandidates`, `VerifyCandidate` one token at a time, `AllChecked` and
`SyncBoardUser` are the central mode; `BoardSession` the exchange of the old one. `SessionEnds`
and `UserIsBarred` happen between any two of them. `open` and `shut` record which tokens were
open, and were not, at some moment of a request.

### McpTools

A tool is a sequence of statements before its change (`WriteTools`, `ProjectReads`,
`BoardAndTaskReads`), translated
from the handler and the service method it calls: looking up the row, its project, the
membership, comparing the title, checking a list. `ReadStatement` does the next one, `Act` the
change, `OtherUsers` renames, archives, restores, moves or withdraws a membership in between. What
a batch passes the guard with is `RequestScope(tool, TRUE)`. `seen` keeps the worlds that
passed during a call. Every tool that takes users or tags has the statement that compares
their names; for an empty list it learns nothing, which stands for a list that is not given too.

### TaskLists

`FindMatchingRootTaskIds` is the search, `FindFilterCandidates`, `FindChildren`,
`MatchCandidates`, `MatchWorkers` and `MatchTags` the steps of findFilteredRootTaskIds,
`ReadPage` the page by offset; `ReadPersonalPage` and `ReadPersonalIds` are getPersonalTasks,
`ReadCounters` a batch of its counters, `ReadGantt` the gantt read. The tasks stand still during
a reading. Parents form a forest (`IsForest`, which `Tasks` shows of them); their ids say nothing
of it, since an older task may be attached under a newer root. The instance takes every forest.

### TimeEntries, Attachments, HulyImport

`TimeEntries`: entries take ids at insertion and appear at commit, `ReadEntries` reads one page
below the cursor, `AccessTurns` opens and closes projects and the right to the report between
pages. `Attachments`: `Presign`, `PutObject` (the browser), `Confirm` and `CreateRow`,
`Delete`, `RemoveObject` and `DestroyRow` are the separate statements of the two stores.
`HulyImport`: `CreateColumn`, `SaveColumnOrders`, `BeginRoot`, `BeginSubtask`,
`ReserveNumber`, `InsertTask`, `TaskFails`, `SkipForNow` and `EndPass` are the script,
`UserCreates` and `UserArchives` the service beside it.

## 4. Runs

| Run | Instance | Shows |
|---|---|---|
| `tasks_concurrent` | 2 processes, 3 tasks (1 legacy), 2 projects with a board and a column each, every kind of request, 5 requests, numbers to 5 | no interleaving breaks a lock's meaning, reuses a number, closes a cycle of parents or writes a stale placement |
| `tasks_numbering` | 2 processes, 3 tasks (2 legacy), 3 boards in 2 projects, 4 requests, without createSubtask and the restores | numbers stay unique, hierarchies stay whole, a relocation takes the active subtasks |
| `tasks_duplicate_number` | 1 process, 5 requests | violation: two tasks of a project with one number |
| `tasks_orphan` | 2 processes, 2 tasks, 3 requests | violation: an active subtask under an archived parent |
| `mcp_operations` | 3 calls, 2 keys, 2 inputs, fair | refinement of `OnceOnly`, every call ends |
| `mcp_effect_not_stored` | 2 calls, 1 key | violation: an effect whose result is not kept |
| `ws_sessions` | 1 socket, 1 token, 1 instance, 1 broadcast, fair | nothing after a loss, refusals for the authority's answer are right, lost sessions end |
| `ws_connecting` | the same | violation: a connecting socket is told its session was revoked |
| `activity_feed` | 2 writers, 2 tasks, 2 projects, 1 user, 3 events, pages of 1 | nothing missed but what lost its signal, recipients right, withdrawn entries leave the screen |
| `activity_unseen_read` | the same | violation: an unseen event is marked as read |
| `workspace` | see below, fair | promised orders hold, requests over a bounded pool end, answers of project requests hold, the refresh window, readings and files are complete, an import is accounted for, a task is placed where it was asked for, and leaves a column by the rules that hold |
| `services` | see below | tools act on what was confirmed and readable, identities change only for who is entitled, tokens, numbers, administrators, lists and assignments |

`workspace` and `services` are each the sum of modules that share no variable: `part`, chosen
at the start, says whose behaviour it is, and the others rest. The states are those of separate
runs added up, not multiplied, and an action of one module cannot enable one of another.

| Part of `workspace` | Instance |
|---|---|
| `Boards` | 3 boards (1 to come), a board of 2 columns with a third to come and 3 to copy into, 2 requests of every kind, a pool of 2 connections |
| `Projects` | 2 users, 2 projects and one to come with the prefix of another, 2 requests |
| `UserDirectory` | 2 readers, snapshots with a new user, a banned one and two users of one number, a window of 2 units, the clock to 6 |
| `TimeEntries` | 2 tasks of 2 projects, pages of 2, 4 entries, 1 turn of access |
| `Attachments` | 2 objects, 2 clients, 2 rows, 3 uploads |
| `HulyImport` | 5 issues (2 roots, a subtask, a subtask of it, one whose parent is unknown), 2 statuses, 1 column to reuse, a counter behind the stored numbers, 7 tasks |
| `TaskOrder` | 2 columns (one of the archive), 4 tasks (2 roots, a subtask, an archived one) and one to come, places 0 and 1, 2 requests of every kind, 1 change of rules |

| Part of `services` | Instance |
|---|---|
| `McpTools` | 1 call of every tool under 6 token scopes, 2 projects (1 of the caller), 3 boards (1 to come), 2 columns, 1 task, 2 tags, 1 change of other users at any moment |
| `UserIdentity` | 2 callers of any kind, 3 identities, 2 numbers, rows 1 to 4, one of the first without an ERP id |
| `UserAdmin` | 3 persons, 3 numbers, 2 operations, 2 administrators, 1 change from ERP |
| `AccessTokens` | 3 tokens (1 not a JWT) of 2 users, at most 2 candidates, jars in every order, both authorities |
| `TaskLists` | every forest of 3 tasks (newer parents of older tasks included) in 2 columns, queries of every kind, pages of 1 and 2 |
| `Assignments` | 2 processes, 2 users (both administrators), 2 projects, 1 task id, every kind of request, 4 requests |

Why the bounds are enough to see the interesting cases:

- Two transactions are the smallest number that can interleave, and every lock is held between
  a pair; the theorems cover more. Three tasks make a parent, a child and a third one that
  becomes either. Five requests allow archive, relocate, restore, detach and one besides. A
  legacy task with a counter of 0 is a project from before the counter was maintained.
- Two column requests over a pool of two are the whole pool: each holds a connection and waits
  for the other's. A larger pool needs as many requests.
- Page size 1 makes every read of more than one event span pages, and three events allow a
  smaller id to appear between two that were read. Four time entries over pages of two give a
  second page and the row that announces it.
- One socket is checked for three purposes at once; sockets share no state but the token and
  the poll. Two sockets exceed 1.4 million states without an end; the theorems are for any
  number.
- Two roots, a subtask and an archived card make lists of up to three rows, so a request has
  rows locked and rows still to come when the other commits. Two requests meet in every list.
- Three calls over two keys allow an owner, a repetition and a call with another input.
- Two callers with three identities and two numbers make a delivery, its repetition, and a
  claim that contradicts both; four rows leave room for each to create one.
- Three tasks in a forest make a root, a subtask and a subtask of it: the depth at which search
  and filter differ. One change of other users is enough for each pair of statements of a call
  to see different worlds.

Deadlock is not checked in any run: requests are bounded, calls are made once and a system
without requests rests. That nothing waits for ever where the code promises progress is stated
as liveness (`EveryCallEnds`, `LostSessionsEnd`, `EveryRequestEnds`). PostgreSQL resolves
cyclic waits for rows by aborting a transaction, which is `Rollback` or `DeadlockDetected`.

Symmetry is used in runs without liveness properties only: for processes, writers, and the two
tasks of `activity_feed`, which begin in one project. In
`activity_feed` a view leaves the read marks out: no step but `markRead` depends on them, and
no property of that run mentions them.

### Fairness

- `McpOperations!FairSpec`: weak fairness of the steps that serve a call. The event loop
  resumes every awaited statement. Issuing a call and dying are not fair.
- `WsSessions!FairSpec`: the timer of `afterInit` fires (weak fairness of `StartPoll`),
  promises resume (weak fairness of the steps after an answer), and neither `fetchSockets`, nor
  the authority, nor the users table fails every time (strong fairness of `PollSockets` and
  `Answer`). Without the
  last assumption a revoked session stays open for the length of the outage, by design of
  `validateSession`.
- `Boards`: weak fairness of `Proceeds`, a statement that can be executed is executed, and of
  `GivesUp`, a wait is ended by `pool.acquire` (`configs/postgres.config.ts`) or by PostgreSQL's
  deadlock detection. Without `GivesUp` two column requests wait for each other's connection
  for ever. Asking and failing are not fair.
- The other specifications state safety only and assume nothing.

## 5. Findings

Each has a run whose counterexample is a sequence of ordinary requests.

1. `tasks_duplicate_number` (bug): archive a subtask, relocate its parent to another project,
   restore the subtask, detach it. It lands in the new project under a number of the old one.
2. `tasks_orphan`: delete reads the root without a lock, so a subtask created meanwhile stays
   active under an archived parent, against the comment in delete.
3. `mcp_effect_not_stored`: an operation that commits and throws afterwards, or whose record
   is not updated, is answered with an error for ever; the documentation promises the result.
4. `ws_connecting` (bug): the poll, or a broadcast to everybody, validates sockets that
   `handleConnection` has not authenticated yet and disconnects them with `auth:revoked`.
5. `activity_unseen_read`: `markRead` bounds ids, not commits; an event with a smaller id that
   commits after the page was read is marked with it.

Seen while modelling, and shown by no run of its own. Where a property would fail because of
one of these, the property names the case it excludes.

- Tasks and boards. A task created on a board that is being archived stays active
  (`boards.service.ts:374`). A relocated root raises the target's number range to its old
  number (`tasks.service.ts:2661`).
- Orders. `boards.reorder` sends its UPDATEs with `Promise.all` outside a transaction: after a
  failed one the others still write, behind the error, and two at once mix their orders.
  `columns.create` calls its read of the maximal order atomic, and it takes no lock.
- Places in a column. A request that waits for a row of its list goes on with the sequence the
  list had when the statement began: it undoes the move it waited for, or gives two cards one
  place. A restored or new card is in no list that began before. Two moves in one column lock
  their own card first and the others in order, so that each can wait for the other; one then
  ends with an error 500. `prepareParentTaskChange` puts a detached subtask "beside its parent"
  (`tasks.service.ts:2335`) at the index `order + 1`, which is elsewhere once an archived card
  has left a gap. `PlacedAsAsked` is about requests that were not overtaken.
- The pool. A column request keeps its transaction's connection while the access check waits
  for another one; when all connections are held so, `pool.acquire` ends them after its
  timeout (`EveryRequestEnds` needs it).
- Projects. A user with two memberships of one project can never reorder: the ids are compared
  with the rows. `checkPrefix` does not see archived projects, the unique index does. create
  and update read their answer after the commit, so an error there reports a change that was
  made.
- Users. handleBan and its siblings read the user before their transaction: of a block and an
  admission handled together, the user can end admitted and without assignments. Two
  administrators can be blocked at once, and `updateUser` takes the role of the last one. The
  cache names the new owner of a service number before the save. One conflicting entry ends
  every refresh of the directory at the same place.
- Authentication. A central login links the row it read earlier by its primary key, and writes
  `ban: false` over a block that came between. Without `AUTH_SERVICE_URL` a `board_token` stays
  good for its 24 hours as long as the ERP cookie is sent.
- MCP. A key whose instance died stays `pending`, so that every repetition is told the call is
  still running. `columns_update` reads the board after its effect. `projects_favorite_set`
  looks first and toggles afterwards: two at once undo each other.
- Lists. A search climbs from a match to its parent only, a filter walks down to any depth.
  Paging by offset may skip a task when another leaves the list between two pages.
- Attachments. Two rows may name one object; deleting one takes the other's file.
- WebSocket. A database error in the check of an open socket (`access-token.service.ts:254`: no
  free connection, a lost one, or a row that another login creates or updates meanwhile)
  disconnects a live session with `auth:revoked` (`ws.gateway.ts:100`), where an authority that
  is down does not. `RefusalsAreRight` excludes it by its reason. A `board:leave` during a
  pending `board:join` is overtaken by it, and the socket stays in the room
  (`ws.gateway.ts:233`). README.md:36 of the repository says an open WebSocket is checked again
  only when it reconnects, while the gateway polls every 10 seconds and checks each delivery.
- Activity. The signal of an event with a smaller id that is lost on an open socket leaves the
  event unseen until a signal at or below it comes, or the browser connects anew
  (`activity-events.service.ts:112`, `ws.gateway.ts:444`). `NothingMissed` excludes it.
- Huly. A parent that users relocate to another project before its subtask is imported gives
  the subtask a number of the wrong project (`import-huly-board.script.ts:599`). The users of
  `HulyImport` create and archive; that they relocate a parent, or attach one under another
  task, is left out.

## 6. Proofs

All theorems hold for every value of the constants that satisfies the named assumption of the
module (finite sets where the code needs them, `None` distinct from the other values).

- **Tasks.** `TasksInv` is inductive: types, the locks a transaction must hold at its step, the
  reserved range above the counter of its locked project, and the foreign key. The type
  invariant alone is not inductive: a commit writes what an earlier step remembered.
  `LocksCoverWrites`, `TypeCorrect`, `FreshNumbers`, `LockedPlacement` follow from it.
  `HierarchyAcyclic` adds that the new parent of an attached task is locked and has no parent
  itself, and that no stored task refers to an id that is not handed out: a new edge ends in a
  root or starts at a leaf.
- **Numbers and hierarchies.** `NumbersUnique`, `HierarchiesTogether` and `RelocationsWhole`
  assume `NothingSplits` (finding 1 refutes them without it). Their invariant `NumberingInv`
  relates them: a relocation has locked the rows it collected, so nothing can join its tree but
  a subtask, and a subtask is attached only under a locked parent; the tree is therefore whole
  and leaves one board. All numbers the tree carries come from a range above every number
  stored in the target, whose project row is locked until the commit. Unique numbers alone are
  not inductive: the range of a running transaction is not stored yet.
- **McpOperations.** `OneOwner` and `ResultsArePerformed`: a row belongs to the call that
  created it, and a returned result to a committed effect. They are stated by no run, where
  `KeepsPromise` contains what a client sees of them. From `OneOwner` follow `AtMostOnce`, and
  `ImplementsPromise`: every step is a `Perform`, a `Return` or a stutter of `OnceOnly`.
- **Assignments.** `SharesProtect`: a transaction past its check holds shares on active members
  that no other transaction updates or deletes. `BlockedIsUnassigned` is one of its conjuncts,
  and needs the others: the commit stores users checked earlier. `AssigneesAreActive` is the
  action property.
- **WsSessions.** `WsInvariant`: losing a session is final, because a user is saved once per
  socket and a token changes its user at most once (the bound of `Reassign`: a token that
  returned to its first user would be accepted again), so a negative answer of the authority
  stays right, also after the disconnection it has caused, and a delivery that was allowed
  concerns an event issued before the loss. `DeliveryIsSafe` and `RefusalIsSafe` are its
  conjuncts.
- **ActivityFeed.** `FeedInvariant`: a pending event belongs to one transaction, which holds its
  task, and is addressed to the assignees before and after. From this `EventsReach`.
- **Attachments.** `FilesInvariant`: that an attached file has a row is not inductive, since a
  deletion may be about to destroy it while the file was put and attached again. What holds is
  `SafeRows`, a row that no request is about to destroy: the object is removed before the row,
  and from then on it is no longer attached. `AttachedFiles` follows.
- **UserIdentity.** `IdentityInvariant`: both unique indexes hold, each caller works with a row
  that exists, and a delivery holds the row it read, so that what it leaves out of an UPDATE
  still has the value it read. `LinksConfirmed` follows, one step of a caller at a time; the
  legacy claim needs no invariant for the free row, because its UPDATE asks again.
- **AccessTokens.** `TokensInvariant`: sessions only end, so each candidate is still to be
  checked, the one selected, or was found shut, and the selected one was open. `OnlyVerified`
  follows when all are checked.
- **ActivityFeed, the readers.** `NoEventMissed` rests on `MissedInv`: each event a user has
  received was reached by the browser, or is below the cursor it still reads down to, or above
  the one it reads up from, or was signalled and not fetched yet; or its signal is due or lost, or
  an answer left it out for want of access. A new position at or below a lost signal makes up
  for it. The lemmas about pages say that of a page of the largest ids nothing left out
  lies above its smallest one, which the next cursor is. `WithdrawnLeave` needs only what an
  answer removes.
- **UserIdentity, deliveries.** `AgreeingDeliveries` has one invariant for each claim (an ERP id
  and a service number): if the first rows and all who came agree with it (`Agreed`), so do all
  rows, and a delivery of the claim that met a unique violation finds the row that caused it
  at its second attempt (`Settled`). Without agreement that row can be one under which the claim
  is still refused.
- **McpTools.** `ToolsInv`: what a call has learnt is about worlds that have passed, so it is
  never lost, whatever others change (`Learnt`, `LearntStays`). Each tool requires certain
  statements (`Required`), and in its sequence they come before the change (`Shape`, proved for
  each of the forty sequences by the lemmas on their parts), so each is learnt or still to come
  (`Asks`). Two things need more: whose project a membership was asked of is that of the row
  just read (`Follows`, `Goes`), and a call stays with the row it is about, or with a project in
  which its task was, until it turns to the target of a move (`Attends`). The order of projects
  is complete in the world in which it is stored, not in the one it was compared with. The four
  properties of the run follow from what a call that has acted requires.
- **UserAdmin.** `AdminInv` has a conjunct per promise. `SeesFree`: what a check has read, or
  cached before it, was nobody's number at a moment since it began. `SparesTheLast`: between
  the count and the commit of a block the administrators are not just its user, unless another
  writer changed them (`lapped`).
- **UserDirectory.** `DirectoryInv`: during a refresh each entry of the snapshot is still to come
  or handled, the snapshot is unambiguous, and the window is open; so it is complete when
  closed.
- **TimeEntries.** `TimeInv`: what is visible all the time and wanted has been read or lies below
  the cursor. The page is the first part of a sorted sequence, so the lemmas on sorting (a
  finite set of numbers has one descending sequence, of its length, and a prefix holds the
  largest) are proved once, by minimal counterexample over the subsets of a finite set.
- **TaskOrder.** `OrderInv`: the tasks two requests have locked are disjoint, a request writes
  only what it has locked (or the card it creates), and once it was checked it keeps the shares
  on its columns (`GoesByRules`), so the rules are those in force at the commit. Shared rows do
  not suffice: the card must not move meanwhile either, which the locks say.
- **HulyImport.** `HulyInv`: each issue is still to come (`Pending`: on the list at hand, or in a
  later status or among the subtasks), or reported, or has its one row (`Accounted`), and what the
  script remembers are the rows of the board (`RowsMatch`), which users may archive but not
  remove. Numbers stay different because the one reserved is above all stored while the import
  holds the lock of the project (`Numbered`). That the dry run ends with the right skipped issues
  needs `DryCounts`: an issue is counted after its parent, and a pass without progress has found
  no parent behind its place, so none is left out when it reaches the front.
- **TaskLists.** `ListsInv` says for each statement of a list what it has found in terms of the
  whole query (`FoundBy`, `Examined`, `Suitable`, `MatchedBy`), and that what has been got is
  the beginning of one sequence up to the offset. Going down, the cards found contain the
  children of all but the last level, so that without new ones they are exactly the cards of the
  roots (`ClosedIsExamined`); going up, a task of a card has that card's root and no other
  (`CardHasOneRoot`), for which the recursive `Root` must exist (`RootExists`): of the sets of
  tasks, closed under parents, on which it is defined a largest one must be all, since in an
  acyclic forest some task outside it would have its parent inside, or none. The order of the
  ids plays no part. `RowsBelong` puts search and filters together. `CompleteLists` follows for
  every acyclic forest, query and page size; it assumes that there are finitely many tasks.
- **Boards.** `BoardsInv`: `Knows` (what a request was asked, and its step), `Drafts` (the rows an
  open transaction has written are no other's, still as it relies on), `Alone` and `Achieved`
  (a request that met no other of its list keeps what it has achieved so far). `AnsweredOrder`
  is `Achieved` at the answer. `LastReorder` is a conjunct, inductive with `Drafts`: the commit
  of a reordering makes the whole list true at once.
- **Projects.** `PlacesInv`: `Formed` (what a request holds by itself), `Relies` (in which rows and
  projects it trusts while others run: a membership it removes is not one of those it keeps,
  the rows a reordering has found are there), `Apart` (two requests that are not
  ended have overlapped) and `Keys` (an id belongs to one row, and to no pending one). For each
  user without overlapping additions or reorderings, `InPlace` and `Places`: a pending addition
  has a place beyond the user's rows, a row a reordering has not found has a place beyond those
  it has. That a reordering gives n rows the places below n, and that the rows not found have
  places of at least n, is a pigeonhole argument (`FewerThanTheBound`). `DistinctPlaces` follows.
- **Answers about projects.** On top of it `AnsweredInv`: the history is in the order the requests
  came (`Told`), a transaction removes only rows of its project and adds a member who is one
  already only if two additions overlapped (`Clean`, `Single`), and `Kept`, step by step, is what
  an undisturbed request has found or written. Another request that is at work does not meet it
  (`AtWorkApart`), so it leaves those rows, that project and that favorite as they are (`Spares`,
  `StillKept`). `AnsweredHolds` follows.

Only model-checked:

- Liveness (`EveryCallEnds`, `LostSessionsEnd`, `EveryRequestEnds`), which TLAPS cannot prove.
- `PlacedAsAsked` of `TaskOrder`: it says what a list is after a renumbering, which the prover
  sees only through the chosen sequence.

## 7. Not modelled, and why

- The shared feed and the counts, the updates of single fields of tasks, boards and columns:
  planned, section 2. Each field update is one statement on one row. `TaskOrder` has one board;
  what a relocation between boards does to a hierarchy is in `Tasks`.
- The HTTP routes of the tags: they call the service the tools call, without the checks of
  the tools; `TagsStayInTheirProject` is about the tools.
- The answers of the comment service: another program. The totals of the time report: the
  endpoint returns entries only.
- WebSockets without `AUTH_SERVICE_URL` (a socket is then checked once), the transport of the
  Redis adapter, presence messages.
- Migrations: DDL under an advisory lock before the service starts. Bootstrap, logging,
  configuration, guards without state: wiring.
- The scripts under `scripts/` that drive a browser against a deployed board: tests, not parts
  of the program. The reading and conversion of a Huly snapshot: one file, read once.
- Abstracted data: titles, dates, custom attributes, colours, the wording of events, tools,
  schemas and errors, the layout of pages. They do not decide any step that is modelled; a
  title is only known or not known to a client, a date is one of a few days.
