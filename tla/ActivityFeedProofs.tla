------------------------- MODULE ActivityFeedProofs -------------------------
(***************************************************************************)
(* The feed of events, for every number of writers, tasks, users, projects *)
(* and events: EventsReachTheInvolved, NothingMissed, AnswersHideWithdrawn.*)
(***************************************************************************)
EXTENDS ActivityFeed, FiniteSetTheorems, TLAPS

LEMMA InitInv == Init => FeedInv
<1> SUFFICES ASSUME Init PROVE FeedInv
  OBVIOUS
<1>1. TypeOK
  BY FeedAssumption DEF Init, TypeOK, Event, Free, Txn, Idle, Browser, Away, Id
<1>2. PendingEvents
  BY DEF Init, PendingEvents, Free
<1> QED
  BY <1>1, <1>2 DEF FeedInv

LEMMA Ahead == ASSUME FeedInv, NEW i \in Id, i >= next PROVE event[i] = Free /\ event[i].status = "free"
BY DEF FeedInv, PendingEvents, Free

----------------------------------------------------------------------------
(* The transactions. *)

\* A transaction opens with new events, addressed to the assignees it found and leaves.
LEMMA OpenKeeps ==
    ASSUME FeedInv, NEW w \in Writer, NEW t \in TaskId, NEW pr \in Project,
           NEW A \in SUBSET User, NEW ids \in SUBSET Id, NEW projects,
           \A i \in ids : projects[i] \in Project,
           \A i \in ids : next <= i /\ i < next',
           next' \in next .. MaxEvent + 1,
           event' = [i \in Id |->
                       IF i \in ids
                       THEN [status |-> "inserted", task |-> t, project |-> projects[i],
                             to |-> A \cup assigned[t], readBy |-> {}]
                       ELSE event[i]],
           txn[w] = Idle, Unlocked(t), Open(w, t, pr, A, ids), UNCHANGED <<tables, views>>
    PROVE  FeedInv'
<1> DEFINE new == [task |-> t, home |-> pr, assigned |-> A, events |-> ids]
<1>1. new \in Txn /\ new.task = t /\ new.home = pr /\ new.assigned = A /\ new.events = ids /\ new # Idle
  BY FeedAssumption DEF Txn, Idle
<1>2. txn' = [txn EXCEPT ![w] = new]
  BY DEF Open
<1>3. \A i \in Id : i \in ids => event'[i] = [status |-> "inserted", task |-> t,
          project |-> projects[i], to |-> A \cup assigned[t], readBy |-> {}]
  OBVIOUS
<1>4. \A i \in Id : i \notin ids => event'[i] = event[i]
  OBVIOUS
<1> HIDE DEF new
<1>5. /\ txn' \in [Writer -> Txn] /\ txn'[w] = new
      /\ \A v \in Writer \ {w} : txn'[v] = txn[v]
  BY <1>1, <1>2 DEF FeedInv, TypeOK
<1>6. assigned[t] \in SUBSET User
  BY DEF FeedInv, TypeOK
<1>7. \A i \in Id : event'[i] \in Event
  BY <1>3, <1>4, <1>6 DEF FeedInv, TypeOK, Event
<1>8. next' \in 1 .. MaxEvent + 1 /\ next \in Nat /\ MaxEvent \in Nat
  BY FeedAssumption DEF FeedInv, TypeOK
<1>9. TypeOK'
  <2>1. event' \in [Id -> Event]
    BY <1>7
  <2> QED
    BY <1>5, <1>8, <2>1 DEF FeedInv, TypeOK, tables, views, signals
<1>10. assigned' = assigned /\ Id \subseteq Int
  BY DEF tables, Id
<1>11. \A v, x \in Writer : txn'[v] # Idle /\ txn'[v].task = txn'[x].task => v = x
  <2>1. \A v \in Writer \ {w} : txn'[v].task # t
    BY <1>5 DEF Unlocked
  <2> QED
    BY <1>1, <1>5, <2>1 DEF FeedInv, PendingEvents
<1>12. ASSUME NEW v \in Writer, txn'[v] # Idle
       PROVE  /\ txn'[v].task \in TaskId
              /\ txn'[v].home \in Project
              /\ \A i \in txn'[v].events :
                    /\ event'[i].status = "inserted"
                    /\ event'[i].task = txn'[v].task
                    /\ event'[i].to = assigned'[txn'[v].task] \cup txn'[v].assigned
  <2>1. CASE v = w
    BY <1>1, <1>3, <1>5, <1>10, <2>1
  <2>2. CASE v # w
    <3>1. txn'[v] = txn[v] /\ txn[v].events \subseteq Id
      BY <1>5, <2>2 DEF FeedInv, TypeOK, Txn
    <3>2. \A i \in txn[v].events : event[i].status = "inserted"
      BY <1>12, <3>1 DEF FeedInv, PendingEvents
    <3>3. \A i \in txn[v].events : i \notin ids
      <4>1. \A i \in ids : event[i].status = "free"
        BY Ahead, <1>8, <1>10
      <4> QED
        BY <3>2, <4>1
    <3> QED
      BY <1>4, <1>10, <1>12, <3>1, <3>3 DEF FeedInv, PendingEvents
  <2> QED
    BY <2>1, <2>2
<1>13. ASSUME NEW i \in Id, event'[i].status = "inserted"
       PROVE  \E v \in Writer : txn'[v] # Idle /\ i \in txn'[v].events
  <2>1. CASE i \in ids
    BY <1>1, <1>5, <2>1
  <2>2. CASE i \notin ids
    <3>1. PICK v \in Writer : txn[v] # Idle /\ i \in txn[v].events
      BY <1>4, <1>13, <2>2 DEF FeedInv, PendingEvents
    <3> QED
      BY <1>5, <3>1
  <2> QED
    BY <2>1, <2>2
<1>14. \A i \in Id : i >= next' => event'[i] = Free
  BY <1>4, <1>8, <1>10 DEF FeedInv, PendingEvents
<1>15. PendingEvents'
  BY <1>11, <1>12, <1>13, <1>14 DEF PendingEvents
<1> QED
  BY <1>9, <1>15 DEF FeedInv

LEMMA UpdateKeeps ==
    ASSUME FeedInv, NEW w \in Writer, NEW t \in TaskId, NEW A \in SUBSET User, Update(w, t, A)
    PROVE  FeedInv'
<1>1. next \in Nat /\ next >= 1 /\ MaxEvent \in Nat /\ home[t] \in Project
  BY FeedAssumption DEF FeedInv, TypeOK
<1>2. Cardinality({next}) = 1
  BY FS_Singleton
<1>3. next' = next + 1 /\ next <= MaxEvent
  BY <1>1, <1>2 DEF Update, Insert
<1>4. {next} \in SUBSET Id /\ next' \in next .. MaxEvent + 1
  BY <1>1, <1>3 DEF Id
<1>5. \A i \in {next} : next <= i /\ i < next'
  BY <1>1, <1>3
<1>6. \A i \in {next} : [j \in {next} |-> home[t]][i] \in Project
  BY <1>1
<1> QED
  BY <1>1, <1>4, <1>5, <1>6, OpenKeeps DEF Update, Insert

LEMMA RelocateKeeps ==
    ASSUME FeedInv, NEW w \in Writer, NEW t \in TaskId, NEW pr \in Project, Relocate(w, t, pr)
    PROVE  FeedInv'
<1> DEFINE ids == {next, next + 1}
           projects == [i \in ids |-> IF i = next THEN home[t] ELSE pr]
<1>1. next \in Nat /\ next >= 1 /\ MaxEvent \in Nat /\ home[t] \in Project /\ assigned[t] \in SUBSET User
  BY FeedAssumption DEF FeedInv, TypeOK
<1>2. Cardinality(ids) = 2
  <2>1. Cardinality({next}) = 1 /\ IsFiniteSet({next})
    BY FS_Singleton
  <2>2. next + 1 \notin {next} /\ ids = {next} \cup {next + 1}
    BY <1>1
  <2> QED
    BY <2>1, <2>2, FS_AddElement
<1>3. next' = next + 2 /\ next + 1 <= MaxEvent
  BY <1>1, <1>2 DEF Relocate, Insert
<1>4. ids \in SUBSET Id /\ next' \in next .. MaxEvent + 1
  BY <1>1, <1>3 DEF Id
<1>5. \A i \in ids : next <= i /\ i < next'
  BY <1>1, <1>3
<1>6. \A i \in ids : projects[i] \in Project
  BY <1>1
<1>7. event' = [i \in Id |->
                  IF i \in ids
                  THEN [status |-> "inserted", task |-> t, project |-> projects[i],
                        to |-> assigned[t] \cup assigned[t], readBy |-> {}]
                  ELSE event[i]]
  BY DEF Relocate, Insert
<1>8. txn[w] = Idle /\ Unlocked(t) /\ Open(w, t, pr, assigned[t], ids) /\ UNCHANGED <<tables, views>>
  BY DEF Relocate
<1> HIDE DEF ids, projects
<1> QED
  BY <1>1, <1>4, <1>5, <1>6, <1>7, <1>8, OpenKeeps

\* A transaction ends: its events are no longer pending, the others stay as they are.
LEMMA EndKeeps ==
    ASSUME FeedInv, NEW w \in Writer, NEW status \in {"committed", "undone"}, txn[w] # Idle,
           SetStatus(txn[w].events, status), txn' = [txn EXCEPT ![w] = Idle], next' = next,
           \A t \in TaskId \ {txn[w].task} : assigned'[t] = assigned[t]
    PROVE  PendingEvents' /\ event' \in [Id -> Event] /\ txn' \in [Writer -> Txn]
<1>1. /\ txn' \in [Writer -> Txn] /\ txn'[w] = Idle
      /\ \A v \in Writer \ {w} : txn'[v] = txn[v]
  BY FeedAssumption DEF FeedInv, TypeOK, Txn, Idle
<1>2. \A i \in Id : /\ i \in txn[w].events => event'[i] = [event[i] EXCEPT !.status = status]
                    /\ i \notin txn[w].events => event'[i] = event[i]
  BY DEF SetStatus
<1>3. event' \in [Id -> Event]
  <2>1. ASSUME NEW i \in Id PROVE event'[i] \in Event
    <3>1. event[i] \in Event
      BY DEF FeedInv, TypeOK
    <3>2. [event[i] EXCEPT !.status = status] \in Event
      BY <3>1 DEF Event
    <3> QED
      BY <1>2, <3>1, <3>2
  <2> QED
    BY <2>1 DEF SetStatus
<1>4. ASSUME NEW i \in Id, i \in txn[w].events
      PROVE  event'[i].status = status /\ event[i].status = "inserted"
  <2>1. event[i] \in Event
    BY DEF FeedInv, TypeOK
  <2>2. event[i].status = "inserted"
    BY <1>4 DEF FeedInv, PendingEvents
  <2> QED
    BY <1>2, <1>4, <2>1, <2>2 DEF Event
<1>5. ASSUME NEW v \in Writer \ {w}, txn[v] # Idle
      PROVE  /\ txn[v].task \in TaskId \ {txn[w].task} /\ txn[v].events \subseteq Id
             /\ \A i \in txn[v].events : i \notin txn[w].events
  <2>1. txn[v].task \in TaskId /\ txn[v].task # txn[w].task
    BY <1>5 DEF FeedInv, PendingEvents
  <2>2. \A i \in txn[v].events : event[i].task = txn[v].task
    BY <1>5 DEF FeedInv, PendingEvents
  <2>3. \A i \in txn[w].events : event[i].task = txn[w].task
    BY DEF FeedInv, PendingEvents
  <2> QED
    BY <2>1, <2>2, <2>3 DEF FeedInv, TypeOK, Txn
<1>6. \A v, x \in Writer : txn'[v] # Idle /\ txn'[v].task = txn'[x].task => v = x
  <2>1. \A v \in Writer : txn'[v] # Idle => v # w /\ txn'[v].task \in TaskId
    BY <1>1, <1>5
  <2>2. Idle.task \notin TaskId
    BY FeedAssumption DEF Idle
  <2> QED
    BY <1>1, <2>1, <2>2 DEF FeedInv, PendingEvents
<1>7. ASSUME NEW v \in Writer, txn'[v] # Idle
      PROVE  /\ txn'[v].task \in TaskId
             /\ txn'[v].home \in Project
             /\ \A i \in txn'[v].events :
                   /\ event'[i].status = "inserted"
                   /\ event'[i].task = txn'[v].task
                   /\ event'[i].to = assigned'[txn'[v].task] \cup txn'[v].assigned
  <2>1. v \in Writer \ {w} /\ txn'[v] = txn[v] /\ txn[v] # Idle
    BY <1>1, <1>7
  <2>2. \A i \in txn[v].events : event'[i] = event[i]
    BY <1>2, <1>5, <2>1
  <2>3. assigned'[txn[v].task] = assigned[txn[v].task]
    BY <1>5, <2>1
  <2> QED
    BY <2>1, <2>2, <2>3 DEF FeedInv, PendingEvents
<1>8. ASSUME NEW i \in Id, event'[i].status = "inserted"
      PROVE  \E v \in Writer : txn'[v] # Idle /\ i \in txn'[v].events
  <2>1. i \notin txn[w].events /\ event[i].status = "inserted"
    BY <1>2, <1>4, <1>8
  <2>2. PICK v \in Writer : txn[v] # Idle /\ i \in txn[v].events
    BY <2>1 DEF FeedInv, PendingEvents
  <2> QED
    BY <1>1, <2>1, <2>2
<1>9. ASSUME NEW i \in Id, i >= next PROVE event'[i] = Free
  <2>1. event[i] = Free /\ event[i].status = "free"
    BY <1>9, Ahead
  <2>2. i \notin txn[w].events
    BY <1>4, <2>1
  <2> QED
    BY <1>2, <2>1, <2>2
<1> QED
  BY <1>1, <1>3, <1>6, <1>7, <1>8, <1>9 DEF PendingEvents

LEMMA CommitKeeps == ASSUME FeedInv, NEW w \in Writer, Commit(w) PROVE FeedInv'
<1> DEFINE t == txn[w].task
<1>1. /\ txn[w] # Idle /\ SetStatus(txn[w].events, "committed") /\ txn' = [txn EXCEPT ![w] = Idle]
      /\ home' = [home EXCEPT ![t] = txn[w].home] /\ assigned' = [assigned EXCEPT ![t] = txn[w].assigned]
      /\ access' = access /\ next' = next /\ browser' = browser /\ hidden' = hidden /\ lost' = lost
  BY DEF Commit
<1>2. t \in TaskId /\ txn[w].home \in Project /\ txn[w].assigned \in SUBSET User
      /\ txn[w].events \in SUBSET Id
  BY <1>1 DEF FeedInv, TypeOK, PendingEvents, Txn
<1> HIDE DEF t
<1>3. home' \in [TaskId -> Project] /\ assigned' \in [TaskId -> SUBSET User]
  BY <1>1, <1>2 DEF FeedInv, TypeOK
<1>4. \A u \in TaskId \ {t} : assigned'[u] = assigned[u]
  BY <1>1, <1>2 DEF FeedInv, TypeOK
<1>5. PendingEvents' /\ event' \in [Id -> Event] /\ txn' \in [Writer -> Txn]
  BY <1>1, <1>4, EndKeeps DEF t
<1>6. due' \in [User -> SUBSET Id]
  <2>1. \A u \in User : due[u] \cup {i \in txn[w].events : u \in event[i].to} \in SUBSET Id
    BY <1>2 DEF FeedInv, TypeOK
  <2> QED
    BY <2>1 DEF Commit
<1> QED
  BY <1>1, <1>3, <1>5, <1>6 DEF FeedInv, TypeOK

LEMMA RollbackKeeps == ASSUME FeedInv, NEW w \in Writer, Rollback(w) PROVE FeedInv'
<1>1. PendingEvents' /\ event' \in [Id -> Event] /\ txn' \in [Writer -> Txn]
  BY EndKeeps DEF Rollback, tables
<1> QED
  BY <1>1 DEF Rollback, FeedInv, TypeOK, tables, views, signals

----------------------------------------------------------------------------
(* The browsers. *)

\* A step of a browser keeps what concerns the writers.
LEMMA ViewKeeps ==
    ASSUME FeedInv, UNCHANGED <<tables, event, next, txn>>,
           browser' \in [User -> Browser], hidden' \in [User -> SUBSET Id],
           due' \in [User -> SUBSET Id], lost' \in [User -> SUBSET Id]
    PROVE  FeedInv'
BY DEF FeedInv, TypeOK, PendingEvents, tables

LEMMA AskKeeps ==
    ASSUME FeedInv, NEW u \in User, NEW page \in SUBSET Id, NEW b \in Browser, Ask(u, page, b)
    PROVE  FeedInv'
<1>1. [b EXCEPT !.page = page, !.waiting = TRUE] \in Browser
  BY DEF Browser
<1> DEFINE new == [b EXCEPT !.page = page, !.waiting = TRUE]
<1> HIDE DEF new
<1>2. browser' \in [User -> Browser]
  <2>1. new \in Browser /\ browser' = [browser EXCEPT ![u] = new]
    BY <1>1 DEF Ask, new
  <2> QED
    BY <2>1 DEF FeedInv, TypeOK
<1>3. hidden' \in [User -> SUBSET Id]
  BY DEF Ask, FeedInv, TypeOK, Received, Committed
<1> QED
  BY <1>2, <1>3, ViewKeeps DEF Ask, signals, FeedInv, TypeOK

LEMMA PageType == \A u \in User : Feed(u) \in SUBSET Id
BY DEF Feed, Received, Committed

LEMMA ReadKeeps ==
    ASSUME FeedInv, NEW u \in User, ReadFirst(u) \/ ReadOlder(u) \/ ReadNewer(u)
    PROVE  FeedInv'
<1>1. browser[u] \in Browser /\ Feed(u) \in SUBSET Id
  BY PageType DEF FeedInv, TypeOK
<1>2. CASE ReadFirst(u)
  <2>1. PICK c \in 0 .. MaxEvent : Ask(u, Largest(Feed(u)), [browser[u] EXCEPT !.state = "open", !.older = c])
    BY <1>2 DEF ReadFirst
  <2>2. Largest(Feed(u)) \in SUBSET Id /\ [browser[u] EXCEPT !.state = "open", !.older = c] \in Browser
    BY <1>1 DEF Largest, Browser
  <2> QED
    BY <2>1, <2>2, AskKeeps
<1>3. CASE ReadOlder(u)
  <2> DEFINE all == {i \in Feed(u) : i < browser[u].older}
  <2>1. PICK c \in 0 .. MaxEvent : Ask(u, Largest(all), [browser[u] EXCEPT !.older = c])
    BY <1>3 DEF ReadOlder
  <2>2. Largest(all) \in SUBSET Id /\ [browser[u] EXCEPT !.older = c] \in Browser
    BY <1>1 DEF Largest, Browser
  <2> QED
    BY <2>1, <2>2, AskKeeps
<1>4. CASE ReadNewer(u)
  <2> DEFINE all == {i \in Feed(u) : i > browser[u].from}
  <2>1. PICK c \in 0 .. MaxEvent : Ask(u, NewerPage(all), [browser[u] EXCEPT !.from = c])
    BY <1>4 DEF ReadNewer
  <2>2. NewerPage(all) \in SUBSET Id /\ [browser[u] EXCEPT !.from = c] \in Browser
    BY <1>1 DEF NewerPage, Smallest, Browser
  <2> QED
    BY <2>1, <2>2, AskKeeps
<1> QED
  BY <1>2, <1>3, <1>4

LEMMA AnswerKeeps == ASSUME FeedInv, NEW u \in User, Answer(u) PROVE FeedInv'
<1> DEFINE received == browser[u].shown \cup browser[u].page
           shown == {i \in received : event[i].project \in access[u]}
<1>1. browser[u] \in Browser
  BY DEF FeedInv, TypeOK
<1>2. /\ browser' = [browser EXCEPT ![u] = [@ EXCEPT !.shown = shown, !.page = {}, !.waiting = FALSE]]
      /\ hidden' = [hidden EXCEPT ![u] = @ \cup (received \ shown)]
  BY DEF Answer
<1>3. shown \in SUBSET Id /\ received \ shown \in SUBSET Id
  BY <1>1 DEF Browser
<1> HIDE DEF received, shown
<1>4. [browser[u] EXCEPT !.shown = shown, !.page = {}, !.waiting = FALSE] \in Browser
  BY <1>1, <1>3 DEF Browser
<1>5. browser' \in [User -> Browser]
  BY <1>2, <1>4 DEF FeedInv, TypeOK
<1>6. hidden' \in [User -> SUBSET Id]
  BY <1>2, <1>3 DEF FeedInv, TypeOK
<1> QED
  BY <1>5, <1>6, ViewKeeps DEF Answer, signals, FeedInv, TypeOK

LEMMA FollowKeeps == ASSUME FeedInv, NEW u \in User, NEW i \in Id, Follow(u, i) PROVE FeedInv'
<1> DEFINE inbox == browser[u].inbox \ {i}
<1>1. browser[u] \in Browser /\ i - 1 \in 0 .. MaxEvent
  BY FeedAssumption DEF FeedInv, TypeOK, Id
<1>2. PICK c \in {i - 1, browser[u].from} :
         /\ browser' = [browser EXCEPT ![u] = [@ EXCEPT !.inbox = inbox, !.from = c]]
         /\ lost' = [lost EXCEPT ![u] = {k \in @ : k <= c}]
  BY DEF Follow
<1>3. inbox \in SUBSET Id /\ c \in 0 .. MaxEvent
  BY <1>1 DEF Browser
<1> HIDE DEF inbox
<1>4. [browser[u] EXCEPT !.inbox = inbox, !.from = c] \in Browser
  BY <1>1, <1>3 DEF Browser
<1>5. browser' \in [User -> Browser]
  BY <1>2, <1>4 DEF FeedInv, TypeOK
<1>6. lost' \in [User -> SUBSET Id]
  BY <1>2 DEF FeedInv, TypeOK
<1> QED
  BY <1>5, <1>6, ViewKeeps DEF Follow, FeedInv, TypeOK

LEMMA ConnectionKeeps ==
    ASSUME FeedInv, NEW u \in User, ConnectBrowser(u) \/ LoseBrowser(u) PROVE FeedInv'
<1>1. Away \in Browser
  BY FeedAssumption DEF Away, Browser
<1>2. browser[u] \in Browser
  BY DEF FeedInv, TypeOK
<1>3. [browser[u] EXCEPT !.state = "connected"] \in Browser
  BY <1>2 DEF Browser
<1>4. browser' \in [User -> Browser]
  <2> DEFINE new == [browser[u] EXCEPT !.state = "connected"]
  <2>1. new \in Browser
    BY <1>3
  <2>2. browser' = [browser EXCEPT ![u] = new] \/ browser' = [browser EXCEPT ![u] = Away]
    BY DEF ConnectBrowser, LoseBrowser
  <2> HIDE DEF new
  <2> QED
    BY <1>1, <2>1, <2>2 DEF FeedInv, TypeOK
<1>5. hidden' \in [User -> SUBSET Id] /\ lost' \in [User -> SUBSET Id] /\ due' \in [User -> SUBSET Id]
  BY DEF ConnectBrowser, LoseBrowser, signals, FeedInv, TypeOK
<1> QED
  BY <1>4, <1>5, ViewKeeps DEF ConnectBrowser, LoseBrowser

LEMMA SignalKeeps ==
    ASSUME FeedInv, NEW u \in User, NEW i \in Id, Signal(u, i) \/ LoseSignal(u, i) PROVE FeedInv'
<1> DEFINE inbox == browser[u].inbox \cup {i}
<1>1. browser[u] \in Browser
  BY DEF FeedInv, TypeOK
<1>2. inbox \in SUBSET Id /\ (browser' = browser \/ browser' = [browser EXCEPT ![u] = [@ EXCEPT !.inbox = inbox]])
  BY <1>1 DEF Signal, LoseSignal, Receive, Browser
<1> HIDE DEF inbox
<1>3. [browser[u] EXCEPT !.inbox = inbox] \in Browser
  BY <1>1, <1>2 DEF Browser
<1>4. browser' \in [User -> Browser]
  BY <1>2, <1>3 DEF FeedInv, TypeOK
<1>5. due' \in [User -> SUBSET Id] /\ hidden' \in [User -> SUBSET Id]
  BY DEF Signal, LoseSignal, FeedInv, TypeOK
<1>6. lost' \in [User -> SUBSET Id]
  <2>1. lost' = lost \/ lost' = [lost EXCEPT ![u] = @ \cup {i}] \/ lost' = [lost EXCEPT ![u] = @]
    BY DEF Signal, LoseSignal
  <2> QED
    BY <2>1 DEF FeedInv, TypeOK
<1> QED
  BY <1>4, <1>5, <1>6, ViewKeeps DEF Signal, LoseSignal

LEMMA MarkReadKeeps ==
    ASSUME FeedInv, NEW u \in User, NEW S \in SUBSET Committed, MarkRead(u, S) PROVE FeedInv'
<1>1. \A i \in Id : event'[i] = IF i \in S THEN [event[i] EXCEPT !.readBy = @ \cup {u}] ELSE event[i]
  BY DEF MarkRead
<1>2. ASSUME NEW i \in Id PROVE event'[i] \in Event
  <2>1. event[i] \in Event
    BY DEF FeedInv, TypeOK
  <2>2. [event[i] EXCEPT !.readBy = @ \cup {u}] \in Event
    BY <2>1 DEF Event
  <2> QED
    BY <1>1, <2>1, <2>2
<1>3. event' \in [Id -> Event]
  BY <1>2 DEF MarkRead
<1>4. \A i \in Id : /\ event'[i].status = event[i].status
                    /\ event'[i].task = event[i].task
                    /\ event'[i].to = event[i].to
  BY <1>1 DEF FeedInv, TypeOK, Event
<1>5. \A w \in Writer : txn[w].events \subseteq Id
  BY DEF FeedInv, TypeOK, Txn
<1>6. ASSUME NEW i \in Id, i >= next PROVE event'[i] = Free
  <2>1. event[i] = Free /\ event[i].status = "free"
    BY <1>6, Ahead
  <2>2. i \notin S
    BY <2>1 DEF Committed
  <2> QED
    BY <1>1, <2>1, <2>2
<1>7. UNCHANGED <<home, assigned, access, next, txn, browser, hidden, due, lost>>
  BY DEF MarkRead, tables, views, signals
<1>8. PendingEvents'
  BY <1>4, <1>5, <1>6, <1>7 DEF FeedInv, PendingEvents
<1> QED
  BY <1>3, <1>7, <1>8 DEF FeedInv, TypeOK

LEMMA AccessKeeps ==
    ASSUME FeedInv, NEW u \in User, NEW pr \in Project, Withdraw(u, pr) \/ Grant(u, pr)
    PROVE  FeedInv'
<1>1. access' \in [User -> SUBSET Project]
  BY DEF Withdraw, Grant, FeedInv, TypeOK
<1> QED
  BY <1>1 DEF Withdraw, Grant, FeedInv, TypeOK, PendingEvents, views, signals

----------------------------------------------------------------------------

LEMMA StepKeeps == FeedInv /\ [Next]_vars => FeedInv'
<1> SUFFICES ASSUME FeedInv, [Next]_vars PROVE FeedInv'
  OBVIOUS
<1>1. ASSUME NEW w \in Writer, WriterStep(w) PROVE FeedInv'
  BY <1>1, UpdateKeeps, RelocateKeeps, CommitKeeps, RollbackKeeps DEF WriterStep
<1>2. ASSUME NEW u \in User, BrowserStep(u) PROVE FeedInv'
  <2>1. ASSUME NEW t \in TaskId, NEW m, ReadTask(u, t, m) PROVE FeedInv'
    BY <2>1, MarkReadKeeps DEF ReadTask, Feed, Received
  <2>2. ASSUME NEW pr \in Project, NEW m, ReadProject(u, pr, m) PROVE FeedInv'
    BY <2>2, MarkReadKeeps DEF ReadProject, Feed, Received
  <2> QED
    BY <1>2, <2>1, <2>2, ReadKeeps, AnswerKeeps, FollowKeeps, ConnectionKeeps, SignalKeeps,
       AccessKeeps DEF BrowserStep
<1>3. CASE UNCHANGED vars
  BY <1>3, ViewKeeps DEF vars, tables, FeedInv, TypeOK
<1> QED
  BY <1>1, <1>2, <1>3 DEF Next

\* The state of the feed is of its type, and every event that is not committed is addressed
\* to the assignees its transaction found and leaves (ActivityEventsService.create).
THEOREM FeedInvariant == Spec => []FeedInv
BY InitInv, StepKeeps, PTL DEF Spec

LEMMA CommitReaches == ASSUME FeedInv, NEW w \in Writer, Commit(w) PROVE ReachesTheInvolved
<1> SUFFICES ASSUME NEW i \in Id, event[i].status = "inserted", event'[i].status = "committed"
             PROVE  event[i].to = assigned[event[i].task] \cup assigned'[event[i].task]
  BY DEF ReachesTheInvolved
<1>1. i \in txn[w].events
  BY DEF Commit, SetStatus
<1>2. /\ event[i].task = txn[w].task /\ txn[w].task \in TaskId
      /\ event[i].to = assigned[txn[w].task] \cup txn[w].assigned
  BY <1>1 DEF Commit, FeedInv, PendingEvents
<1>3. assigned'[txn[w].task] = txn[w].assigned
  BY <1>2 DEF Commit, FeedInv, TypeOK
<1> QED
  BY <1>2, <1>3

\* Only a commit makes an inserted event committed.
LEMMA StatusFrame ==
    ASSUME FeedInv, \A i \in Id : event[i].status = "inserted" => event'[i].status # "committed"
    PROVE  ReachesTheInvolved
BY DEF ReachesTheInvolved

LEMMA StepReaches == FeedInv /\ [Next]_vars => [ReachesTheInvolved]_vars
<1> SUFFICES ASSUME FeedInv, Next PROVE ReachesTheInvolved
  OBVIOUS
<1>1. ASSUME NEW w \in Writer, WriterStep(w) PROVE ReachesTheInvolved
  <2>1. ASSUME NEW t \in TaskId, NEW A \in SUBSET User, Update(w, t, A) PROVE ReachesTheInvolved
    BY <2>1, StatusFrame DEF Update, Insert
  <2>2. ASSUME NEW t \in TaskId, NEW pr \in Project, Relocate(w, t, pr) PROVE ReachesTheInvolved
    BY <2>2, StatusFrame DEF Relocate, Insert
  <2>3. CASE Rollback(w)
    <3>1. \A i \in Id : event[i] \in Event
      BY DEF FeedInv, TypeOK
    <3> QED
      BY <2>3, <3>1, StatusFrame DEF Rollback, SetStatus, Event
  <2> QED
    BY <1>1, <2>1, <2>2, <2>3, CommitReaches DEF WriterStep
<1>2. ASSUME NEW u \in User, BrowserStep(u) PROVE ReachesTheInvolved
  <2>1. ASSUME NEW S, MarkRead(u, S) PROVE ReachesTheInvolved
    <3>1. \A i \in Id : event[i] \in Event
      BY DEF FeedInv, TypeOK
    <3>2. \A i \in Id : event'[i].status = event[i].status
      BY <2>1, <3>1 DEF MarkRead, Event
    <3> QED
      BY <3>2, StatusFrame
  <2>2. ASSUME event' = event PROVE ReachesTheInvolved
    BY <2>2, StatusFrame
  <2> QED
    BY <1>2, <2>1, <2>2 DEF BrowserStep, ConnectBrowser, LoseBrowser, ReadFirst, ReadOlder,
       ReadNewer, Ask, Answer, Follow, Signal, LoseSignal, ReadTask, ReadProject, Withdraw, Grant
<1> QED
  BY <1>1, <1>2 DEF Next

\* "Бывший исполнитель получает передачу задачи, но не её последующие изменения" (create):
\* every committed event reaches exactly those assigned before or after the change it records.
THEOREM EventsReach == Spec => EventsReachTheInvolved
<1>1. FeedInv /\ [Next]_vars => [ReachesTheInvolved]_vars
  BY StepReaches
<1> QED
  BY <1>1, FeedInvariant, PTL DEF Spec, EventsReachTheInvolved

----------------------------------------------------------------------------
(* What a browser is still to see. *)

\* Every event a user has received is reached, or was left out for want of access: what was
\* left out is remembered, so that what becomes readable by a relocation is not owed.
Owed(b, received) ==
    /\ b.state = "open" => \A i \in received : Reached(b, i)
    /\ ~b.waiting => b.page = {}

\* The events the browser of u ought to know of.
Told(u) == Received(u) \ (hidden[u] \cup due[u] \cup lost[u])

MissedInv == \A u \in User : Owed(browser[u], Told(u))

\* Of a page of the largest ids, the smallest one is below none that was left out.
LEMMA OlderRest ==
    ASSUME NEW S \in SUBSET Id, NEW c \in 0 .. MaxEvent, IsOlderCursor(c, Largest(S), S),
           NEW i \in S, i \notin Largest(S)
    PROVE  i < c
<1>1. IsMin(c, Largest(S))
  BY DEF IsOlderCursor
<1>2. SUFFICES ASSUME ~(i < c) PROVE FALSE
  OBVIOUS
<1>3. S \subseteq Int /\ c \in Int /\ i \in Int /\ IsFiniteSet(S)
  <2>1. 1 \in Int /\ MaxEvent \in Int
    BY FeedAssumption
  <2>2. IsFiniteSet(Id)
    BY <2>1, FS_Interval DEF Id
  <2>3. IsFiniteSet(S)
    BY <2>2, FS_Subset
  <2>4. S \subseteq Int /\ c \in Int /\ i \in Int
    BY <2>1 DEF Id
  <2> QED
    BY <2>3, <2>4
<1> DEFINE above == {j \in S : j > c}
           over == {j \in S : j > i}
<1>4. IsFiniteSet(above) /\ IsFiniteSet(over) /\ over \subseteq above
  <2>1. above \subseteq S /\ over \subseteq S
    OBVIOUS
  <2>2. \A j \in S : j > i => j > c
    BY <1>2, <1>3
  <2>3. over \subseteq above
    BY <2>2
  <2> HIDE DEF above, over
  <2> QED
    BY <1>3, <2>1, <2>3, FS_Subset
<1>5. Cardinality(over) <= Cardinality(above) /\ Cardinality(over) \in Nat /\ Cardinality(above) \in Nat
  BY <1>4, FS_Subset, FS_CardinalityType
<1>6. Cardinality(above) < Limit /\ ~(Cardinality(over) < Limit)
  BY <1>1 DEF IsMin, Largest
<1> HIDE DEF above, over
<1> QED
  BY <1>5, <1>6, FeedAssumption

\* Of a page of the smallest ids, the largest one is above none that was left out.
LEMMA NewerRest ==
    ASSUME NEW S \in SUBSET Id, NEW c \in 0 .. MaxEvent, IsNewerCursor(c, NewerPage(S), S),
           NEW i \in S, i \notin NewerPage(S)
    PROVE  i > c
<1>1. IsMax(c, Smallest(S)) /\ i \notin Smallest(S)
  BY DEF IsNewerCursor, NewerPage
<1>2. SUFFICES ASSUME ~(i > c) PROVE FALSE
  OBVIOUS
<1>3. S \subseteq Int /\ c \in Int /\ i \in Int /\ IsFiniteSet(S)
  <2>1. 1 \in Int /\ MaxEvent \in Int
    BY FeedAssumption
  <2>2. IsFiniteSet(Id)
    BY <2>1, FS_Interval DEF Id
  <2>3. IsFiniteSet(S)
    BY <2>2, FS_Subset
  <2>4. S \subseteq Int /\ c \in Int /\ i \in Int
    BY <2>1 DEF Id
  <2> QED
    BY <2>3, <2>4
<1> DEFINE below == {j \in S : j < c}
           under == {j \in S : j < i}
<1>4. IsFiniteSet(below) /\ IsFiniteSet(under) /\ under \subseteq below
  <2>1. below \subseteq S /\ under \subseteq S
    OBVIOUS
  <2>2. \A j \in S : j < i => j < c
    BY <1>2, <1>3
  <2>3. under \subseteq below
    BY <2>2
  <2> HIDE DEF below, under
  <2> QED
    BY <1>3, <2>1, <2>3, FS_Subset
<1>5. Cardinality(under) <= Cardinality(below) /\ Cardinality(under) \in Nat /\ Cardinality(below) \in Nat
  BY <1>4, FS_Subset, FS_CardinalityType
<1>6. Cardinality(below) < Limit /\ ~(Cardinality(under) < Limit)
  BY <1>1 DEF IsMax, Smallest
<1> HIDE DEF below, under
<1> QED
  BY <1>5, <1>6, FeedAssumption

LEMMA MissedInit == Init => MissedInv
BY DEF Init, MissedInv, Owed, Away

\* A step that makes nothing visible owes nothing new.
LEMMA NothingReceived ==
    ASSUME MissedInv, UNCHANGED views, \A u \in User : Received(u)' \subseteq Received(u)
    PROVE  MissedInv'
BY DEF MissedInv, Owed, Told, views, signals, Reached

\* The step of one browser.
LEMMA OneBrowser ==
    ASSUME FeedInv, MissedInv, UNCHANGED event, NEW u \in User, NEW b,
           NEW h \in SUBSET Id, NEW d \in SUBSET Id, NEW l \in SUBSET Id,
           browser' = [browser EXCEPT ![u] = b], hidden' = [hidden EXCEPT ![u] = h],
           due' = [due EXCEPT ![u] = d], lost' = [lost EXCEPT ![u] = l],
           Owed(b, Received(u) \ (h \cup d \cup l))
    PROVE  MissedInv'
<1>1. \A v \in User : Received(v)' = Received(v)
  BY DEF Received, Committed
<1>2. browser'[u] = b /\ hidden'[u] = h /\ due'[u] = d /\ lost'[u] = l
      /\ \A v \in User \ {u} : /\ browser'[v] = browser[v] /\ hidden'[v] = hidden[v]
                               /\ due'[v] = due[v] /\ lost'[v] = lost[v]
  BY DEF FeedInv, TypeOK
<1>3. ASSUME NEW v \in User PROVE Owed(browser[v], Told(v))'
  <2>1. CASE v = u
    BY <1>1, <1>2, <2>1 DEF Told
  <2>2. CASE v # u
    BY <1>1, <1>2, <2>2 DEF MissedInv, Told
  <2> QED
    BY <2>1, <2>2
<1> QED
  BY <1>3 DEF MissedInv

LEMMA WritersOwe == ASSUME FeedInv, MissedInv, NEW w \in Writer, WriterStep(w) PROVE MissedInv'
<1>1. ASSUME NEW t \in TaskId, NEW ids, NEW projects, NEW A, Insert(t, ids, projects, A),
             UNCHANGED views
      PROVE  MissedInv'
  BY <1>1, NothingReceived DEF Insert, Received, Committed
<1>2. CASE Rollback(w)
  <2>1. \A i \in Id : event[i] \in Event
    BY DEF FeedInv, TypeOK
  <2>2. \A i \in Id : event'[i].status = "committed" => event'[i] = event[i]
    BY <1>2, <2>1 DEF Rollback, SetStatus, Event
  <2> QED
    BY <1>2, <2>2, NothingReceived DEF Rollback, Received, Committed
<1>3. CASE Commit(w)
  <2> DEFINE ids == txn[w].events
             sent(u) == {i \in ids : u \in event[i].to}
  <2>1. /\ SetStatus(ids, "committed") /\ due' = [u \in User |-> due[u] \cup sent(u)]
        /\ UNCHANGED <<browser, hidden, lost>>
    BY <1>3 DEF Commit
  <2>2. \A i \in Id : event[i] \in Event
    BY DEF FeedInv, TypeOK
  <2>3. \A i \in Id : /\ event'[i].to = event[i].to
                      /\ i \notin ids => event'[i] = event[i]
    BY <2>1, <2>2 DEF SetStatus, Event
  <2>4. \A u \in User : Received(u)' \subseteq Received(u) \cup sent(u)
    BY <2>3 DEF Received, Committed
  <2>5. \A u \in User : due'[u] = due[u] \cup sent(u)
    BY <2>1
  <2> HIDE DEF sent
  <2>6. \A u \in User : Told(u)' \subseteq Told(u)
    BY <2>1, <2>4, <2>5 DEF Told
  <2> QED
    BY <2>1, <2>6 DEF MissedInv, Owed, Reached
<1> QED
  BY <1>1, <1>2, <1>3 DEF WriterStep, Update, Relocate

\* A signal that arrives names its event; one that is lost is remembered, unless the browser
\* comes upon its event anyway.
LEMMA SignalOwes ==
    ASSUME FeedInv, MissedInv, NEW u \in User, NEW i \in Id, Signal(u, i) \/ LoseSignal(u, i)
    PROVE  MissedInv'
<1>1. browser[u] \in Browser /\ {hidden[u], due[u], lost[u]} \subseteq SUBSET Id
  BY DEF FeedInv, TypeOK
<1>2. Owed(browser[u], Told(u)) /\ event' = event /\ hidden' = [hidden EXCEPT ![u] = hidden[u]]
      /\ due' = [due EXCEPT ![u] = due[u] \ {i}]
  BY DEF MissedInv, Signal, LoseSignal, FeedInv, TypeOK
<1>3. due[u] \ {i} \in SUBSET Id /\ hidden[u] \in SUBSET Id /\ lost[u] \in SUBSET Id
  BY <1>1
<1>4. CASE Signal(u, i)
  <2> DEFINE b == [browser[u] EXCEPT !.inbox = browser[u].inbox \cup {i}]
  <2>1. /\ b.state = browser[u].state /\ b.page = browser[u].page /\ b.shown = browser[u].shown
        /\ b.older = browser[u].older /\ b.from = browser[u].from
        /\ b.waiting = browser[u].waiting /\ b.inbox = browser[u].inbox \cup {i}
    BY <1>1 DEF Browser
  <2>2. browser' = [browser EXCEPT ![u] = b] /\ lost' = [lost EXCEPT ![u] = lost[u]]
    BY <1>4 DEF Signal, Receive, FeedInv, TypeOK
  <2> HIDE DEF b
  <2>3. Reached(b, i) /\ \A k : Reached(browser[u], k) => Reached(b, k)
    <3>1. i <= i
      BY DEF Id
    <3> QED
      BY <2>1, <3>1 DEF Reached
  <2>4. Owed(b, Received(u) \ (hidden[u] \cup (due[u] \ {i}) \cup lost[u]))
    BY <1>2, <2>1, <2>3 DEF Owed, Told
  <2> QED
    BY <1>2, <1>3, <2>2, <2>4, OneBrowser
<1>5. CASE LoseSignal(u, i)
  <2> DEFINE l == IF browser[u].state = "open" /\ ~Reached(browser[u], i)
                  THEN lost[u] \cup {i} ELSE lost[u]
  <2>1. /\ browser' = [browser EXCEPT ![u] = browser[u]] /\ lost' = [lost EXCEPT ![u] = l]
        /\ l \in SUBSET Id
    BY <1>1, <1>5 DEF LoseSignal, FeedInv, TypeOK
  <2>2. browser[u].state = "open" => i \in l \/ Reached(browser[u], i)
    OBVIOUS
  <2>3. lost[u] \subseteq l
    OBVIOUS
  <2> HIDE DEF l
  <2>4. Owed(browser[u], Received(u) \ (hidden[u] \cup (due[u] \ {i}) \cup l))
    BY <1>2, <2>2, <2>3 DEF Owed, Told
  <2> QED
    BY <1>2, <1>3, <2>1, <2>4, OneBrowser
<1> QED
  BY <1>4, <1>5

\* A page that was asked for, with a cursor that leaves nothing out between the two.
LEMMA AskOwes ==
    ASSUME FeedInv, MissedInv, NEW u \in User, NEW page \in SUBSET Id, NEW b \in Browser,
           Ask(u, page, b), b.shown = browser[u].shown,
           b.state = "open" => \A i \in Feed(u) \ (hidden[u] \cup due[u] \cup lost[u]) :
                                  i \in page \/ Reached([b EXCEPT !.page = {}], i)
    PROVE  MissedInv'
<1> DEFINE new == [b EXCEPT !.page = page, !.waiting = TRUE]
           h == hidden[u] \cup (Received(u) \ Feed(u))
           bare == [b EXCEPT !.page = {}]
           rest == due[u] \cup lost[u]
<1>1. /\ browser' = [browser EXCEPT ![u] = new] /\ hidden' = [hidden EXCEPT ![u] = h]
      /\ due' = [due EXCEPT ![u] = due[u]] /\ lost' = [lost EXCEPT ![u] = lost[u]]
      /\ event' = event
  BY DEF Ask, signals, FeedInv, TypeOK
<1>2. /\ new.state = b.state /\ new.waiting /\ new.page = page /\ new.shown = b.shown
      /\ new.older = b.older /\ new.from = b.from /\ new.inbox = b.inbox
  BY DEF Browser
<1>3. /\ bare.page = {} /\ bare.shown = b.shown
      /\ bare.older = b.older /\ bare.from = b.from /\ bare.inbox = b.inbox
  BY DEF Browser
<1>4. /\ h \in SUBSET Id /\ due[u] \in SUBSET Id /\ lost[u] \in SUBSET Id
      /\ Received(u) \ h \subseteq Feed(u) \ hidden[u]
  BY DEF FeedInv, TypeOK, Received, Committed
<1>5. b.state = "open" => \A i \in Feed(u) \ (hidden[u] \cup rest) : i \in page \/ Reached(bare, i)
  OBVIOUS
<1>6. rest = due[u] \cup lost[u]
  OBVIOUS
<1> HIDE DEF new, h, bare, rest
<1>7. Owed(new, Received(u) \ (h \cup rest))
  BY <1>2, <1>3, <1>4, <1>5 DEF Owed, Reached
<1>8. Owed(new, Received(u) \ (h \cup due[u] \cup lost[u]))
  BY <1>6, <1>7 DEF Owed
<1> QED
  BY <1>1, <1>4, <1>8, OneBrowser

LEMMA ReadsOwe ==
    ASSUME FeedInv, MissedInv, NEW u \in User, ReadFirst(u) \/ ReadOlder(u) \/ ReadNewer(u)
    PROVE  MissedInv'
<1>1. browser[u] \in Browser /\ Feed(u) \in SUBSET Id /\ Feed(u) \subseteq Received(u)
  BY PageType DEF FeedInv, TypeOK, Feed
<1>2. Owed(browser[u], Told(u))
  BY DEF MissedInv
<1>3. CASE ReadFirst(u)
  <2>1. PICK c \in 0 .. MaxEvent :
            /\ IsOlderCursor(c, Largest(Feed(u)), Feed(u))
            /\ Ask(u, Largest(Feed(u)), [browser[u] EXCEPT !.state = "open", !.older = c])
    BY <1>3 DEF ReadFirst
  <2> DEFINE b == [browser[u] EXCEPT !.state = "open", !.older = c]
             bare == [b EXCEPT !.page = {}]
  <2>2. b \in Browser /\ b.shown = browser[u].shown /\ bare.older = c
    BY <1>1 DEF Browser
  <2>3. Largest(Feed(u)) \in SUBSET Id
    BY <1>1 DEF Largest
  <2>4. Ask(u, Largest(Feed(u)), b)
    BY <2>1
  <2>5. \A i \in Feed(u) : i \in Largest(Feed(u)) \/ i < c
    BY <1>1, <2>1, OlderRest
  <2>6. \A i \in Feed(u) \ (hidden[u] \cup due[u] \cup lost[u]) : i \in Largest(Feed(u)) \/ Reached(bare, i)
    BY <2>2, <2>5 DEF Reached
  <2>7. \A i \in Feed(u) \ (hidden[u] \cup due[u] \cup lost[u]) : i \in Largest(Feed(u)) \/ Reached([b EXCEPT !.page = {}], i)
    BY <2>6
  <2> HIDE DEF b, bare
  <2> QED
    BY <2>2, <2>3, <2>4, <2>7, AskOwes
<1>4. CASE ReadOlder(u)
  <2> DEFINE all == {i \in Feed(u) : i < browser[u].older}
  <2>1. PICK c \in 0 .. MaxEvent : /\ IsOlderCursor(c, Largest(all), all)
                                   /\ Ask(u, Largest(all), [browser[u] EXCEPT !.older = c])
    BY <1>4 DEF ReadOlder
  <2> DEFINE b == [browser[u] EXCEPT !.older = c]
             bare == [b EXCEPT !.page = {}]
  <2>2. /\ b \in Browser /\ b.shown = browser[u].shown /\ b.state = browser[u].state
        /\ bare.older = c /\ bare.shown = browser[u].shown /\ bare.from = browser[u].from
        /\ bare.inbox = browser[u].inbox
    BY <1>1 DEF Browser
  <2>3. Largest(all) \in SUBSET Id /\ all \in SUBSET Id
    BY <1>1 DEF Largest
  <2>4. Ask(u, Largest(all), b) /\ browser[u].page = {}
    BY <1>2, <2>1 DEF Ask, Owed
  <2>5. \A i \in Feed(u) : i < browser[u].older => i \in Largest(all) \/ i < c
    BY <2>1, <2>3, OlderRest
  <2>6. ASSUME b.state = "open", NEW i \in Feed(u) \ (hidden[u] \cup due[u] \cup lost[u])
        PROVE  i \in Largest(all) \/ Reached([b EXCEPT !.page = {}], i)
    <3>1. Reached(browser[u], i)
      BY <1>1, <1>2, <2>2, <2>6 DEF Owed, Told
    <3>2. i \in Largest(all) \/ Reached(bare, i)
      BY <2>2, <2>4, <2>5, <3>1 DEF Reached
    <3> QED
      BY <3>2
  <2> HIDE DEF all, b, bare
  <2> QED
    BY <2>2, <2>3, <2>4, <2>6, AskOwes
<1>5. CASE ReadNewer(u)
  <2> DEFINE all == {i \in Feed(u) : i > browser[u].from}
  <2>1. PICK c \in 0 .. MaxEvent : /\ IsNewerCursor(c, NewerPage(all), all)
                                   /\ Ask(u, NewerPage(all), [browser[u] EXCEPT !.from = c])
    BY <1>5 DEF ReadNewer
  <2> DEFINE b == [browser[u] EXCEPT !.from = c]
             bare == [b EXCEPT !.page = {}]
  <2>2. /\ b \in Browser /\ b.shown = browser[u].shown /\ b.state = browser[u].state
        /\ bare.older = browser[u].older /\ bare.shown = browser[u].shown /\ bare.from = c
        /\ bare.inbox = browser[u].inbox
    BY <1>1 DEF Browser
  <2>3. NewerPage(all) \in SUBSET Id /\ all \in SUBSET Id
    BY <1>1 DEF NewerPage, Smallest
  <2>4. Ask(u, NewerPage(all), b) /\ browser[u].page = {}
    BY <1>2, <2>1 DEF Ask, Owed
  <2>5. \A i \in Feed(u) : i > browser[u].from => i \in NewerPage(all) \/ i > c
    BY <2>1, <2>3, NewerRest
  <2>6. ASSUME b.state = "open", NEW i \in Feed(u) \ (hidden[u] \cup due[u] \cup lost[u])
        PROVE  i \in NewerPage(all) \/ Reached([b EXCEPT !.page = {}], i)
    <3>1. Reached(browser[u], i)
      BY <1>1, <1>2, <2>2, <2>6 DEF Owed, Told
    <3>2. i \in NewerPage(all) \/ Reached(bare, i)
      BY <2>2, <2>4, <2>5, <3>1 DEF Reached
    <3> QED
      BY <3>2
  <2> HIDE DEF all, b, bare
  <2> QED
    BY <2>2, <2>3, <2>4, <2>6, AskOwes
<1> QED
  BY <1>3, <1>4, <1>5

LEMMA AnswerOwes == ASSUME FeedInv, MissedInv, NEW u \in User, Answer(u) PROVE MissedInv'
<1> DEFINE received == browser[u].shown \cup browser[u].page
           shown == {i \in received : event[i].project \in access[u]}
           b == [browser[u] EXCEPT !.shown = shown, !.page = {}, !.waiting = FALSE]
           h == hidden[u] \cup (received \ shown)
<1>1. /\ browser' = [browser EXCEPT ![u] = b] /\ hidden' = [hidden EXCEPT ![u] = h]
      /\ due' = [due EXCEPT ![u] = due[u]] /\ lost' = [lost EXCEPT ![u] = lost[u]]
      /\ event' = event
  BY DEF Answer, signals, FeedInv, TypeOK
<1>2. browser[u] \in Browser /\ {hidden[u], due[u], lost[u]} \subseteq SUBSET Id
  BY DEF FeedInv, TypeOK
<1>3. /\ b.state = browser[u].state /\ b.page = {} /\ b.shown = shown
      /\ b.older = browser[u].older /\ b.from = browser[u].from /\ b.inbox = browser[u].inbox
  BY <1>2 DEF Browser
<1>4. h \in SUBSET Id /\ due[u] \in SUBSET Id /\ lost[u] \in SUBSET Id
  BY <1>2 DEF Browser
<1>5. Owed(browser[u], Told(u))
  BY DEF MissedInv
<1>6. received = browser[u].shown \cup browser[u].page /\ h = hidden[u] \cup (received \ shown)
  OBVIOUS
<1> HIDE DEF received, shown, b, h
<1>7. \A i : Reached(browser[u], i) /\ i \notin h => Reached(b, i)
  BY <1>3, <1>6 DEF Reached
<1>8. Owed(b, Received(u) \ (h \cup due[u] \cup lost[u]))
  BY <1>3, <1>5, <1>6, <1>7 DEF Owed, Told
<1> QED
  BY <1>1, <1>4, <1>8, OneBrowser

LEMMA FollowOwes ==
    ASSUME FeedInv, MissedInv, NEW u \in User, NEW i \in Id, Follow(u, i) PROVE MissedInv'
<1>1. PICK c \in {i - 1, browser[u].from} :
         /\ IsMin(c, {i - 1, browser[u].from})
         /\ browser' = [browser EXCEPT ![u] = [@ EXCEPT !.inbox = browser[u].inbox \ {i}, !.from = c]]
         /\ lost' = [lost EXCEPT ![u] = {k \in @ : k <= c}]
  BY DEF Follow
<1> DEFINE b == [browser[u] EXCEPT !.inbox = browser[u].inbox \ {i}, !.from = c]
           l == {k \in lost[u] : k <= c}
<1>2. browser[u] \in Browser /\ hidden[u] \in SUBSET Id /\ due[u] \in SUBSET Id /\ lost[u] \in SUBSET Id
  BY DEF FeedInv, TypeOK
<1>3. /\ b.state = browser[u].state /\ b.page = browser[u].page /\ b.shown = browser[u].shown
      /\ b.older = browser[u].older /\ b.from = c /\ b.inbox = browser[u].inbox \ {i}
      /\ b.waiting = browser[u].waiting
  BY <1>2 DEF Browser
<1>4. /\ browser' = [browser EXCEPT ![u] = b] /\ event' = event
      /\ hidden' = [hidden EXCEPT ![u] = hidden[u]] /\ due' = [due EXCEPT ![u] = due[u]]
      /\ lost' = [lost EXCEPT ![u] = l] /\ l \in SUBSET Id
  BY <1>1, <1>2 DEF Follow, FeedInv, TypeOK
<1>5. c <= i - 1 /\ c <= browser[u].from /\ i \in Int /\ c \in Int /\ browser[u].from \in Int
  BY <1>1, <1>2, FeedAssumption DEF IsMin, Id, Browser
<1>6. \A k \in Id : k \in lost[u] => k \in l \/ k > c
  BY <1>5 DEF Id
<1> HIDE DEF b, l
<1>7. \A k \in Id : Reached(browser[u], k) => Reached(b, k)
  <2>1. Id \subseteq Int /\ browser[u].inbox \subseteq Int
    BY <1>2 DEF Id, Browser
  <2> QED
    BY <1>3, <1>5, <2>1 DEF Reached
<1>8. \A k \in Id : k > c => Reached(b, k)
  BY <1>3 DEF Reached
<1>9. Received(u) \subseteq Id /\ Owed(browser[u], Told(u))
  BY DEF MissedInv, Received, Committed
<1>10. Owed(b, Received(u) \ (hidden[u] \cup due[u] \cup l))
  BY <1>3, <1>6, <1>7, <1>8, <1>9 DEF Owed, Told
<1> QED
  BY <1>2, <1>4, <1>10, OneBrowser

LEMMA ConnectionOwes ==
    ASSUME FeedInv, MissedInv, NEW u \in User, ConnectBrowser(u) \/ LoseBrowser(u)
    PROVE  MissedInv'
<1>1. /\ hidden[u] \in SUBSET Id /\ due[u] \in SUBSET Id /\ lost[u] \in SUBSET Id
      /\ browser[u] \in Browser
  BY DEF FeedInv, TypeOK
<1>2. CASE ConnectBrowser(u)
  <2> DEFINE b == [browser[u] EXCEPT !.state = "connected"]
  <2>1. b.state = "connected" /\ b.waiting = browser[u].waiting /\ b.page = browser[u].page
    BY <1>1 DEF Browser
  <2>2. /\ browser' = [browser EXCEPT ![u] = b] /\ event' = event
        /\ hidden' = [hidden EXCEPT ![u] = hidden[u]] /\ due' = [due EXCEPT ![u] = due[u]]
        /\ lost' = [lost EXCEPT ![u] = lost[u]]
    BY <1>2 DEF ConnectBrowser, signals, FeedInv, TypeOK
  <2> HIDE DEF b
  <2>3. Owed(b, Received(u) \ (hidden[u] \cup due[u] \cup lost[u]))
    BY <2>1 DEF MissedInv, Owed
  <2> QED
    BY <1>1, <2>2, <2>3, OneBrowser
<1>3. CASE LoseBrowser(u)
  <2>1. Owed(Away, Received(u) \ ({} \cup due[u] \cup {}))
    BY DEF Owed, Away
  <2>2. /\ browser' = [browser EXCEPT ![u] = Away] /\ hidden' = [hidden EXCEPT ![u] = {}]
        /\ lost' = [lost EXCEPT ![u] = {}] /\ due' = [due EXCEPT ![u] = due[u]]
        /\ event' = event /\ {} \in SUBSET Id
    BY <1>3 DEF LoseBrowser, FeedInv, TypeOK
  <2> QED
    BY <1>1, <2>1, <2>2, OneBrowser
<1> QED
  BY <1>2, <1>3

LEMMA MissedKeeps == FeedInv /\ MissedInv /\ [Next]_vars => MissedInv'
<1> SUFFICES ASSUME FeedInv, MissedInv, [Next]_vars PROVE MissedInv'
  OBVIOUS
<1>1. ASSUME NEW u \in User, BrowserStep(u) PROVE MissedInv'
  <2>1. ASSUME NEW S, MarkRead(u, S) PROVE MissedInv'
    <3>1. \A i \in Id : event[i] \in Event
      BY DEF FeedInv, TypeOK
    <3>2. \A i \in Id : event'[i].status = event[i].status /\ event'[i].to = event[i].to
      BY <2>1, <3>1 DEF MarkRead, Event
    <3> QED
      BY <2>1, <3>2, NothingReceived DEF MarkRead, Received, Committed
  <2>2. ASSUME NEW pr \in Project, Withdraw(u, pr) \/ Grant(u, pr) PROVE MissedInv'
    BY <2>2, NothingReceived DEF Withdraw, Grant, Received, Committed
  <2> QED
    BY <1>1, <2>1, <2>2, ReadsOwe, AnswerOwes, FollowOwes, ConnectionOwes, SignalOwes
       DEF BrowserStep, ReadTask, ReadProject
<1>2. CASE UNCHANGED vars
  BY <1>2, NothingReceived DEF vars, views, signals, Received, Committed
<1> QED
  BY <1>1, <1>2, WritersOwe DEF Next

\* "a late smaller transaction can be fetched again" (task-activity.integration.spec.ts):
\* whatever order transactions commit in, an open browser has every entry of its feed, or a
\* page still to read, or an id at or below it, or its signal under way; what it misses had
\* its signal lost on the open socket, with none at or below it since.
THEOREM NoEventMissed == Spec => []NothingMissed
<1>1. FeedInv /\ MissedInv /\ [Next]_vars => MissedInv'
  BY MissedKeeps
<1>2. MissedInv => NothingMissed
  BY DEF MissedInv, Owed, Told, NothingMissed, Feed
<1> QED
  BY <1>1, <1>2, MissedInit, FeedInvariant, PTL DEF Spec

LEMMA OnlyAnswers ==
    ASSUME FeedInv, NEW u \in User, NEW v \in User, BrowserStep(v),
           browser[u].waiting, ~browser'[u].waiting
    PROVE  Answer(u) \/ LoseBrowser(u)
<1>1. browser \in [User -> Browser] /\ browser[v] \in Browser /\ browser[u] \in Browser
  BY DEF FeedInv, TypeOK
<1>2. ASSUME NEW b, browser' = [browser EXCEPT ![v] = b] PROVE u = v /\ ~b.waiting
  BY <1>1, <1>2
<1>3. ASSUME NEW page, NEW b \in Browser, Ask(v, page, b) PROVE FALSE
  <2>1. [b EXCEPT !.page = page, !.waiting = TRUE].waiting
    BY DEF Browser
  <2> QED
    BY <1>2, <1>3, <2>1 DEF Ask
<1>4. ~ReadFirst(v) /\ ~ReadOlder(v) /\ ~ReadNewer(v)
  <2>1. \A c \in 0 .. MaxEvent : /\ [browser[v] EXCEPT !.state = "open", !.older = c] \in Browser
                                 /\ [browser[v] EXCEPT !.older = c] \in Browser
                                 /\ [browser[v] EXCEPT !.from = c] \in Browser
    BY <1>1 DEF Browser
  <2> QED
    BY <1>3, <2>1 DEF ReadFirst, ReadOlder, ReadNewer
<1>5. ASSUME ConnectBrowser(v) PROVE FALSE
  <2>1. [browser[v] EXCEPT !.state = "connected"].waiting = browser[v].waiting
    BY <1>1 DEF Browser
  <2> QED
    BY <1>2, <1>5, <2>1 DEF ConnectBrowser
<1>6. ASSUME NEW i \in Id, Follow(v, i) PROVE FALSE
  <2>1. PICK c : browser' = [browser EXCEPT ![v] =
                    [browser[v] EXCEPT !.inbox = browser[v].inbox \ {i}, !.from = c]]
    BY <1>6 DEF Follow
  <2>2. [browser[v] EXCEPT !.inbox = browser[v].inbox \ {i}, !.from = c].waiting = browser[v].waiting
    BY <1>1 DEF Browser
  <2> QED
    BY <1>2, <2>1, <2>2
<1>7. browser' # browser
  OBVIOUS
<1>8. ASSUME NEW i \in Id, Signal(v, i) \/ LoseSignal(v, i) PROVE FALSE
  <2> DEFINE b == [browser[v] EXCEPT !.inbox = browser[v].inbox \cup {i}]
  <2>1. browser' = [browser EXCEPT ![v] = b]
    BY <1>7, <1>8 DEF Signal, LoseSignal, Receive
  <2>2. b.waiting = browser[v].waiting
    BY <1>1 DEF Browser
  <2> HIDE DEF b
  <2> QED
    BY <1>2, <2>1, <2>2
<1>9. ASSUME Answer(v) PROVE u = v
  BY <1>2, <1>9 DEF Answer
<1>10. ASSUME LoseBrowser(v) PROVE u = v
  BY <1>2, <1>10 DEF LoseBrowser
<1> QED
  BY <1>4, <1>5, <1>6, <1>7, <1>8, <1>9, <1>10 DEF BrowserStep, ReadTask, ReadProject, MarkRead,
     Withdraw, Grant, views

LEMMA StepHides ==
    ASSUME FeedInv, Next, NEW u \in User, browser[u].waiting, ~browser'[u].waiting,
           NEW i \in browser'[u].shown
    PROVE  event[i].project \in access[u]
<1>1. browser \in [User -> Browser] /\ browser[u] \in Browser
  BY DEF FeedInv, TypeOK
<1>2. ASSUME NEW w \in Writer, WriterStep(w) PROVE FALSE
  <2>1. browser' # browser
    OBVIOUS
  <2> QED
    BY <1>2, <2>1 DEF WriterStep, Update, Relocate, Commit, Rollback, views
<1>3. Answer(u) \/ LoseBrowser(u)
  BY <1>2, OnlyAnswers DEF Next
<1>4. CASE LoseBrowser(u)
  <2>1. browser'[u] = Away
    BY <1>1, <1>4 DEF LoseBrowser
  <2> QED
    BY <2>1 DEF Away
<1>5. CASE Answer(u)
  <2> DEFINE received == browser[u].shown \cup browser[u].page
             shown == {j \in received : event[j].project \in access[u]}
  <2>1. browser' = [browser EXCEPT ![u] = [browser[u] EXCEPT !.shown = shown, !.page = {},
                                                             !.waiting = FALSE]]
    BY <1>5 DEF Answer
  <2> HIDE DEF shown
  <2>2. browser'[u].shown = shown
    BY <1>1, <2>1 DEF Browser
  <2> QED
    BY <2>2 DEF shown
<1> QED
  BY <1>3, <1>4, <1>5

\* "Фоновый ответ также удаляет ранее показанные записи отозванных проектов" (getFeed): no
\* answer leaves an entry of a project the user may not read on screen.
THEOREM WithdrawnLeave == Spec => AnswersHideWithdrawn
<1> DEFINE Hides == \A u \in User :
              browser[u].waiting /\ ~browser'[u].waiting
                 => \A i \in browser'[u].shown : event[i].project \in access[u]
<1>1. FeedInv /\ [Next]_vars => [Hides]_vars
  BY StepHides
<1> QED
  BY <1>1, FeedInvariant, PTL DEF Spec, AnswersHideWithdrawn
=============================================================================
