----------------------------- MODULE UserDirectory -----------------------------
(***************************************************************************)
(* The ERP user directory (user-directory.service.ts): a reader of the list *)
(* of users first completes it from ERP, unless that was done in the last   *)
(* minute.  Readers share one refresh; it fetches a snapshot, checks all of  *)
(* it and adds the missing users one by one (synchronizeUser, onlyMissing).  *)
(*                                                                          *)
(* Time is counted in units of which a minute has Window.                   *)
(***************************************************************************)
EXTENDS Integers, Sequences, SequencesExt

CONSTANTS
    Reader,      \* reads of the list
    Snapshot,    \* the snapshots ERP may answer: sequences of entries
    KnownFirst,  \* the identities of users at first: pairs of an id and a number
    Window,      \* 60000 ms
    MaxClock     \* bound: the clock

Entries == UNION {Range(s) : s \in Snapshot}   \* [id, number, ban]

ASSUME UserDirectoryAssumption ==
    /\ Window \in Nat \ {0} /\ MaxClock \in Nat
    /\ \A s \in Snapshot : s \in Seq(Range(s))
    /\ \A e \in Entries : DOMAIN e = {"id", "number", "ban"} /\ e.ban \in BOOLEAN

Never == 0 - Window

VARIABLES
    clock,        \* Date.now()
    refreshedAt,  \* when the last refresh was complete
    refresh,      \* the pending refresh, shared by all readers
    known,        \* the identities of the rows of users
    waiting       \* the readers that await it

directoryVars == <<clock, refreshedAt, refresh, known, waiting>>

NoRefresh == [step |-> "none", left |-> <<>>, snapshot |-> <<>>]   \* the last one fetched

Closed == clock - refreshedAt < Window

\* A reader without a token of ERP, or in the window, reads at once, which changes nothing;
\* any other starts the refresh or joins the one that is pending.
EnsureMissingUsers(r) ==
    /\ r \notin waiting /\ ~ Closed
    /\ waiting' = waiting \cup {r}
    /\ refresh' = IF refresh.step = "none" THEN [NoRefresh EXCEPT !.step = "fetch"] ELSE refresh
    /\ UNCHANGED <<clock, refreshedAt, known>>

Ambiguous(s) == \E i, j \in DOMAIN s : i # j /\ (s[i].id = s[j].id \/ s[i].number = s[j].number)

\* A failure leaves the window open; what was added stays.
RefreshFails ==
    /\ refresh' = NoRefresh /\ waiting' = {}
    /\ UNCHANGED <<clock, refreshedAt, known>>

\* ERP answers, or not: in 5000 ms, or with something else than a list of users.
Fetch ==
    /\ refresh.step = "fetch"
    /\ \/ \E s \in Snapshot :
             IF Ambiguous(s) THEN RefreshFails
             ELSE /\ refresh' = [step |-> "apply", left |-> s, snapshot |-> s]
                  /\ UNCHANGED <<clock, refreshedAt, known, waiting>>
       \/ RefreshFails

Matches(e) == {i \in known : i.id = e.id \/ i.number = e.number}

\* An entry that is one user by its id and another by its number stops the refresh, as
\* does a failing statement.
ApplyEntry ==
    LET e == Head(refresh.left)
        next == [refresh EXCEPT !.left = Tail(@)]
    IN  /\ refresh.step = "apply" /\ refresh.left # <<>>
        /\ \/ /\ e.ban /\ refresh' = next
              /\ UNCHANGED <<clock, refreshedAt, known, waiting>>
           \/ /\ ~ e.ban /\ \A i, j \in Matches(e) : i = j
              /\ refresh' = next
              /\ known' = IF Matches(e) # {} THEN known
                          ELSE known \cup {[id |-> e.id, number |-> e.number]}
              /\ UNCHANGED <<clock, refreshedAt, waiting>>
           \/ ~ e.ban /\ RefreshFails

\* Mutant of RefreshDone: the entries are not awaited.
RefreshDoneEarly ==
    /\ refresh.step = "apply"
    /\ refreshedAt' = clock /\ refresh' = [refresh EXCEPT !.step = "none"] /\ waiting' = {}
    /\ UNCHANGED <<clock, known>>

RefreshDone ==
    /\ refresh.step = "apply" /\ refresh.left = <<>>
    /\ refreshedAt' = clock /\ refresh' = [refresh EXCEPT !.step = "none"] /\ waiting' = {}
    /\ UNCHANGED <<clock, known>>

\* user.create of RabbitMQ, a login: another row.
OtherUserAppears ==
    /\ \E e \in Entries : /\ Matches(e) = {}
                          /\ known' = known \cup {[id |-> e.id, number |-> e.number]}
    /\ UNCHANGED <<clock, refreshedAt, refresh, waiting>>

Tick == clock < MaxClock /\ clock' = clock + 1 /\ UNCHANGED <<refreshedAt, refresh, known, waiting>>

DirectoryInit ==
    /\ clock = 0 /\ refreshedAt = Never /\ refresh = NoRefresh /\ known = KnownFirst
    /\ waiting = {}

DirectoryNext ==
    \/ \E r \in Reader : EnsureMissingUsers(r)
    \/ Fetch \/ ApplyEntry \/ RefreshDone \/ OtherUserAppears \/ Tick

DirectorySpec == DirectoryInit /\ [][DirectoryNext]_directoryVars

----------------------------------------------------------------------------
(* Properties. *)

\* A reader that is not made to wait sees everybody who worked there at the last complete
\* refresh: a refresh that stopped half way, at a conflict or a failure, or a snapshot that
\* is ambiguous, does not close the window.
ClosedWindowIsComplete ==
    Closed => /\ ~ Ambiguous(refresh.snapshot)
              /\ \A e \in Range(refresh.snapshot) : e.ban \/ Matches(e) # {}
=============================================================================
