---------------------------- MODULE ActivityFeed ----------------------------
(***************************************************************************)
(* The history of tasks and the personal feed read from it:                *)
(* ActivityEventsService.create, inside the transactions of tasks.service  *)
(* that change a task, and TaskActivityService.getFeed and markRead.       *)
(*                                                                         *)
(* An event takes its id when it is inserted and becomes visible when its  *)
(* transaction commits, so that a smaller id may appear after a larger     *)
(* one.  After the commit its id is sent to the recipients' sockets, each  *)
(* at its own time; a signal may be lost although the socket stays open,   *)
(* and is not sent again.  The browser is external: it reads pages by      *)
(* cursor, and reads again from below an id it is sent, as                 *)
(* task-activity.integration.spec.ts does.                                 *)
(*                                                                         *)
(* The other transactions that write events (creation, archive, restore)   *)
(* are like Update.  Assignments that end because a user is blocked are    *)
(* the subject of Assignments.                                             *)
(***************************************************************************)
EXTENDS Integers, FiniteSets

CONSTANTS
    Writer,   \* connections that run task transactions
    TaskId,
    Project,
    User,     \* assignees, each with one browser
    Home,     \* the project a task is in at first
    Limit,    \* page size of the feed
    MaxEvent, \* bound: events that are inserted
    None

ASSUME FeedAssumption ==
    /\ Home \in [TaskId -> Project]
    /\ Limit \in Nat \ {0}
    /\ MaxEvent \in Nat
    /\ None \notin TaskId

VARIABLES
    home,     \* the project of a task
    assigned, \* task_assignees
    access,   \* the projects a user may read
    event,    \* activity_events with their recipients and read marks
    next,     \* the next value of the events' id sequence
    txn,      \* the transaction of a writer
    browser,  \* a user's browser: what it has read, and what it is waiting for
    due,      \* committed events whose signal is still on its way to a user
    hidden,   \* history: committed events a page left out because of access
    lost      \* history: events an open browser knows nothing of, their signal being lost

vars == <<home, assigned, access, event, next, txn, browser, due, hidden, lost>>
tables == <<home, assigned, access>>
signals == <<due, lost>>
views == <<browser, hidden, signals>>

Id == 1 .. MaxEvent

Event == [status : {"free", "inserted", "committed", "undone"}, task : TaskId \cup {None},
          project : Project \cup {None}, to : SUBSET User, readBy : SUBSET User]

Free == [status |-> "free", task |-> None, project |-> None, to |-> {}, readBy |-> {}]

Txn == [task : TaskId \cup {None}, home : Project \cup {None}, assigned : SUBSET User,
        events : SUBSET Id]

Idle == [task |-> None, home |-> None, assigned |-> {}, events |-> {}]

\* shown: the entries on screen; from: the afterId of the next newer page, MaxEvent when
\* there is none; older: the beforeId of the next older page, 0 when there is none; inbox:
\* the ids received and not yet followed; page: the items of an answer under way, followed
\* by the list of accessible projects.
Browser == [state : {"away", "connected", "open"}, shown : SUBSET Id, from : 0 .. MaxEvent,
            older : 0 .. MaxEvent, inbox : SUBSET Id, page : SUBSET Id, waiting : BOOLEAN]

Away == [state |-> "away", shown |-> {}, from |-> MaxEvent, older |-> 0, inbox |-> {}, page |-> {}, waiting |-> FALSE]

Committed == {i \in Id : event[i].status = "committed"}

\* FEED_ACCESS: the project of the event and the present project of its task.
Visible(u, i) == {event[i].project, home[event[i].task]} \subseteq access[u]

Received(u) == {i \in Committed : u \in event[i].to}

Feed(u) == {i \in Received(u) : Visible(u, i)}

----------------------------------------------------------------------------
(* Task transactions.  The task's row is locked, so one at a time changes it. *)

Unlocked(t) == \A w \in Writer : txn[w].task # t

\* ActivityEventsService.create: the event and its recipients.
Insert(t, ids, projects, recipients) ==
    /\ next + Cardinality(ids) - 1 <= MaxEvent
    /\ next' = next + Cardinality(ids)
    /\ event' = [i \in Id |->
                   IF i \in ids
                   THEN [status |-> "inserted", task |-> t, project |-> projects[i],
                         to |-> recipients, readBy |-> {}]
                   ELSE event[i]]

Open(w, t, pr, A, ids) ==
    txn' = [txn EXCEPT ![w] = [task |-> t, home |-> pr, assigned |-> A, events |-> ids]]

\* Mutant of Update: the task's row is not locked.
UpdateUnlocked(w, t, A) ==
    /\ txn[w] = Idle
    /\ Insert(t, {next}, [i \in {next} |-> home[t]], A \cup assigned[t])
    /\ Open(w, t, home[t], A, {next})
    /\ UNCHANGED <<tables, views>>

\* update: the new assignees are written before the event; former ones are recipients
\* of this event.
Update(w, t, A) ==
    /\ txn[w] = Idle
    /\ Unlocked(t)
    /\ Insert(t, {next}, [i \in {next} |-> home[t]], A \cup assigned[t])
    /\ Open(w, t, home[t], A, {next})
    /\ UNCHANGED <<tables, views>>

\* move to another project: an event leaves the source and one enters the target.
Relocate(w, t, pr) ==
    LET ids == {next, next + 1}
    IN  /\ txn[w] = Idle
        /\ Unlocked(t)
        /\ pr # home[t]
        /\ Insert(t, ids, [i \in ids |-> IF i = next THEN home[t] ELSE pr], assigned[t])
        /\ Open(w, t, pr, assigned[t], ids)
        /\ UNCHANGED <<tables, views>>

SetStatus(ids, status) ==
    event' = [i \in Id |-> IF i \in ids THEN [event[i] EXCEPT !.status = status] ELSE event[i]]

\* The commit.  What its afterCommit callbacks are to send comes later, if at all.
Commit(w) ==
    LET t == txn[w].task
    IN  /\ txn[w] # Idle
        /\ home' = [home EXCEPT ![t] = txn[w].home]
        /\ assigned' = [assigned EXCEPT ![t] = txn[w].assigned]
        /\ SetStatus(txn[w].events, "committed")
        /\ due' = [u \in User |-> due[u] \cup {i \in txn[w].events : u \in event[i].to}]
        /\ txn' = [txn EXCEPT ![w] = Idle]
        /\ UNCHANGED <<access, next, browser, hidden, lost>>

Rollback(w) ==
    /\ txn[w] # Idle
    /\ SetStatus(txn[w].events, "undone")
    /\ txn' = [txn EXCEPT ![w] = Idle]
    /\ UNCHANGED <<tables, next, views>>

\* Membership is withdrawn.
Withdraw(u, pr) ==
    /\ pr \in access[u]
    /\ access' = [access EXCEPT ![u] = @ \ {pr}]
    /\ UNCHANGED <<home, assigned, event, next, txn, views>>

\* Membership is granted (again).
Grant(u, pr) ==
    /\ pr \notin access[u]
    /\ access' = [access EXCEPT ![u] = @ \cup {pr}]
    /\ UNCHANGED <<home, assigned, event, next, txn, views>>

----------------------------------------------------------------------------
(* Signals: afterCommit, emitTaskActivityChanged, emitToActiveSessions. *)

\* The browser b has the event i, or will come upon it.
Reached(b, i) ==
    \/ i \in b.shown \cup b.page
    \/ i < b.older
    \/ i > b.from
    \/ \E j \in b.inbox : j <= i

Receive(u, ids) == browser' = [browser EXCEPT ![u] = [@ EXCEPT !.inbox = browser[u].inbox \cup ids]]

\* Mutant of Signal: only an event newer than all the browser has read is announced.
SignalNewest(u, i) ==
    /\ i \in due[u] /\ browser[u].state # "away"
    /\ due' = [due EXCEPT ![u] = @ \ {i}]
    /\ Receive(u, {k \in {i} : \A j \in browser[u].shown : j < k})
    /\ UNCHANGED <<tables, event, next, txn, hidden, lost>>

\* activity:changed with the event's id, to the socket of a recipient.
Signal(u, i) ==
    /\ i \in due[u] /\ browser[u].state # "away"
    /\ due' = [due EXCEPT ![u] = @ \ {i}]
    /\ Receive(u, {i})
    /\ UNCHANGED <<tables, event, next, txn, hidden, lost>>

\* The process dies after the commit, realtime is unavailable, the recipients cannot be
\* fetched, or the authority does not vouch for the session; or nobody is connected.
LoseSignal(u, i) ==
    /\ i \in due[u]
    /\ due' = [due EXCEPT ![u] = @ \ {i}]
    /\ lost' = [lost EXCEPT ![u] =
                   IF browser[u].state = "open" /\ ~Reached(browser[u], i) THEN @ \cup {i} ELSE @]
    /\ UNCHANGED <<tables, event, next, txn, browser, hidden>>

----------------------------------------------------------------------------
(* getFeed: one statement reads the page, a second one the accessible projects. *)

Smallest(S) == {i \in S : Cardinality({j \in S : j < i}) < Limit}
Largest(S) == {i \in S : Cardinality({j \in S : j > i}) < Limit}

IsMax(m, S) == m \in S /\ \A i \in S : i <= m
IsMin(m, S) == m \in S /\ \A i \in S : m <= i

\* nextCursor: the last item of the page, or none when the page is the last one.
IsOlderCursor(c, page, all) == IF page = all THEN c = 0 ELSE IsMin(c, page)
IsNewerCursor(c, page, all) == IF page = all THEN c = MaxEvent ELSE IsMax(c, page)

Ask(u, page, b) ==
    /\ ~browser[u].waiting
    /\ browser' = [browser EXCEPT ![u] = [b EXCEPT !.page = page, !.waiting = TRUE]]
    /\ hidden' = [hidden EXCEPT ![u] = @ \cup (Received(u) \ Feed(u))]
    /\ UNCHANGED <<tables, event, next, txn, signals>>

\* The newest page; older ones follow by beforeId.
ReadFirst(u) ==
    /\ browser[u].state = "connected"
    /\ \E c \in 0 .. MaxEvent :
          /\ IsOlderCursor(c, Largest(Feed(u)), Feed(u))
          /\ Ask(u, Largest(Feed(u)), [browser[u] EXCEPT !.state = "open", !.older = c])

ReadOlder(u) ==
    LET all == {i \in Feed(u) : i < browser[u].older}
    IN  /\ browser[u].older # 0
        /\ \E c \in 0 .. MaxEvent :
              /\ IsOlderCursor(c, Largest(all), all)
              /\ Ask(u, Largest(all), [browser[u] EXCEPT !.older = c])

\* Mutant of NewerPage: a newer page too has its largest ids first.
NewestPage(S) == Largest(S)

\* "Новые порции читаются по возрастанию ID".
NewerPage(S) == Smallest(S)

ReadNewer(u) ==
    LET all == {i \in Feed(u) : i > browser[u].from}
    IN  /\ browser[u].from # MaxEvent
        /\ \E c \in 0 .. MaxEvent :
              /\ IsNewerCursor(c, NewerPage(all), all)
              /\ Ask(u, NewerPage(all), [browser[u] EXCEPT !.from = c])

\* Mutant of Answer: the projects of the page are taken for all that are accessible.
AnswerWithoutAccess(u) ==
    LET shown == browser[u].shown \cup browser[u].page
    IN  /\ browser[u].waiting
        /\ browser' = [browser EXCEPT ![u] = [@ EXCEPT !.shown = shown, !.page = {},
                                              !.waiting = FALSE]]
        /\ UNCHANGED <<tables, event, next, txn, hidden, signals>>

\* accessibleProjectIds: entries of withdrawn projects leave the screen.
Answer(u) ==
    LET received == browser[u].shown \cup browser[u].page
        shown == {i \in received : event[i].project \in access[u]}
    IN  /\ browser[u].waiting
        /\ browser' = [browser EXCEPT ![u] = [@ EXCEPT !.shown = shown, !.page = {},
                                              !.waiting = FALSE]]
        /\ hidden' = [hidden EXCEPT ![u] = @ \cup (received \ shown)]
        /\ UNCHANGED <<tables, event, next, txn, signals>>

\* The browser reads on from below the id it was sent, or from where it is, and so comes
\* upon what it was not told of above it.
Follow(u, i) ==
    /\ browser[u].state = "open"
    /\ ~browser[u].waiting
    /\ i \in browser[u].inbox
    /\ \E c \in {i - 1, browser[u].from} :
          /\ IsMin(c, {i - 1, browser[u].from})
          /\ browser' = [browser EXCEPT ![u] = [@ EXCEPT !.inbox = browser[u].inbox \ {i},
                                                        !.from = c]]
          /\ lost' = [lost EXCEPT ![u] = {k \in @ : k <= c}]
    /\ UNCHANGED <<tables, event, next, txn, hidden, due>>

\* The socket connects before the feed is read.
ConnectBrowser(u) ==
    /\ browser[u].state = "away"
    /\ browser' = [browser EXCEPT ![u] = [@ EXCEPT !.state = "connected"]]
    /\ UNCHANGED <<tables, event, next, txn, hidden, signals>>

\* The connection breaks: what was sent meanwhile is lost, the feed is read anew.
LoseBrowser(u) ==
    /\ browser[u].state # "away"
    /\ browser' = [browser EXCEPT ![u] = Away]
    /\ hidden' = [hidden EXCEPT ![u] = {}]
    /\ lost' = [lost EXCEPT ![u] = {}]
    /\ UNCHANGED <<tables, event, next, txn, due>>

\* markRead through an entry shown, of the task or the project opened.
MarkRead(u, S) ==
    /\ browser[u].state = "open"
    /\ S # {}
    /\ event' = [i \in Id |-> IF i \in S THEN [event[i] EXCEPT !.readBy = @ \cup {u}]
                                         ELSE event[i]]
    /\ UNCHANGED <<tables, next, txn, views>>

ReadTask(u, t, through) ==
    MarkRead(u, {i \in Feed(u) : /\ event[i].task = t
                                 /\ i <= through
                                 /\ u \notin event[i].readBy})

ReadProject(u, pr, through) ==
    MarkRead(u, {i \in Feed(u) : /\ event[i].project = pr
                                 /\ i <= through
                                 /\ u \notin event[i].readBy})

----------------------------------------------------------------------------

Init ==
    /\ home = Home
    /\ assigned = [t \in TaskId |-> User]
    /\ access = [u \in User |-> Project]
    /\ event = [i \in Id |-> Free]
    /\ next = 1
    /\ txn = [w \in Writer |-> Idle]
    /\ browser = [u \in User |-> Away]
    /\ due = [u \in User |-> {}]
    /\ hidden = [u \in User |-> {}]
    /\ lost = [u \in User |-> {}]

WriterStep(w) ==
    \/ \E t \in TaskId : \/ \E A \in SUBSET User : Update(w, t, A)
                         \/ \E pr \in Project : Relocate(w, t, pr)
    \/ Commit(w) \/ Rollback(w)

BrowserStep(u) ==
    \/ ConnectBrowser(u) \/ LoseBrowser(u)
    \/ ReadFirst(u) \/ ReadOlder(u) \/ ReadNewer(u) \/ Answer(u)
    \/ \E i \in Id : Signal(u, i) \/ LoseSignal(u, i) \/ Follow(u, i)
    \/ \E m \in browser[u].shown : \/ \E t \in TaskId : ReadTask(u, t, m)
                                  \/ \E pr \in Project : ReadProject(u, pr, m)
    \/ \E pr \in Project : Withdraw(u, pr) \/ Grant(u, pr)

Next == (\E w \in Writer : WriterStep(w)) \/ (\E u \in User : BrowserStep(u))

Spec == Init /\ [][Next]_vars
----------------------------------------------------------------------------
(* Properties. *)

\* Every variable is of its type.
TypeOK ==
    /\ home \in [TaskId -> Project]
    /\ assigned \in [TaskId -> SUBSET User]
    /\ access \in [User -> SUBSET Project]
    /\ event \in [Id -> Event]
    /\ next \in 1 .. MaxEvent + 1
    /\ txn \in [Writer -> Txn]
    /\ browser \in [User -> Browser]
    /\ due \in [User -> SUBSET Id]
    /\ hidden \in [User -> SUBSET Id]
    /\ lost \in [User -> SUBSET Id]

\* An event that is not committed belongs to one transaction of its task, and is addressed
\* to the task's assignees before and after that transaction (create reads them before the
\* commit, under the lock of the task's row).
PendingEvents ==
    /\ \A v, w \in Writer : txn[v] # Idle /\ txn[v].task = txn[w].task => v = w
    /\ \A w \in Writer :
          txn[w] # Idle =>
             /\ txn[w].task \in TaskId
             /\ txn[w].home \in Project
             /\ \A i \in txn[w].events :
                   /\ event[i].status = "inserted"
                   /\ event[i].task = txn[w].task
                   /\ event[i].to = assigned[txn[w].task] \cup txn[w].assigned
    /\ \A i \in Id : event[i].status = "inserted" => \E w \in Writer : txn[w] # Idle /\ i \in txn[w].events
    /\ \A i \in Id : i >= next => event[i] = Free

\* What every step preserves: the types, and whom pending events are addressed to.
FeedInv == TypeOK /\ PendingEvents

\* "a late smaller transaction can be fetched again" (task-activity.integration.spec.ts):
\* whatever order transactions commit in, every entry of the feed of an open browser is on
\* screen, or on a page it still has to read, or at or above an id it was sent, or its own
\* signal is still on its way.  Missed are only entries whose signal was lost on the open
\* socket, and only until the browser is sent an id at or below them.
NothingMissed ==
    \A u \in User :
        browser[u].state = "open" =>
            \A i \in Feed(u) \ hidden[u] : Reached(browser[u], i) \/ i \in due[u] \cup lost[u]

\* "Бывший исполнитель получает передачу задачи, но не её последующие изменения"
\* (create): an event reaches exactly those assigned right before or right after the
\* change it records, although they are looked up before the commit.
ReachesTheInvolved ==
    \A i \in Id :
        event[i].status = "inserted" /\ event'[i].status = "committed"
           => event[i].to = assigned[event[i].task] \cup assigned'[event[i].task]

\* Every commit reaches the involved.
EventsReachTheInvolved == [][ReachesTheInvolved]_vars

\* "Фоновый ответ также удаляет ранее показанные записи отозванных проектов" (getFeed):
\* after an answer no entry of a project the user has left is on screen, even if the
\* membership was withdrawn between the two statements.
AnswersHideWithdrawn ==
    [][\A u \in User :
          browser[u].waiting /\ ~browser'[u].waiting
             => \A i \in browser'[u].shown : event[i].project \in access[u]]_vars

\* "Отмечает только события открытой задачи до показанного снимка, не более новые"
\* (markRead): what is marked as read is on the pages the browser has read, or on the
\* older ones that were left unread when it read them.
MarksTheSnapshot ==
    [][\A u \in User, i \in Id :
          u \in event'[i].readBy \ event[i].readBy
             => i \in browser[u].shown \cup browser[u].page \/ i < browser[u].older]_vars
=============================================================================
