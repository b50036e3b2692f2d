----------------------------- MODULE AccessTokens -----------------------------
(***************************************************************************)
(* Who a request is (access-token-candidates.ts, access-token.service.ts,    *)
(* jwt-auth.guard.ts, board-session.ts).  A browser may send several cookies *)
(* access_token: each is checked with its authority, the only one that is    *)
(* verified is the request's, and none is used before all are checked.       *)
(* Without the central authority a board_token stands for the ERP session    *)
(* it was exchanged from.  Sessions end at any moment; an authority may not   *)
(* answer.                                                                   *)
(***************************************************************************)
EXTENDS Naturals, Sequences, FiniteSets, SequencesExt

CONSTANTS
    Token,        \* access tokens
    Broken,       \* those of them that are not JWTs
    Identity,     \* board users
    OwnerOf,      \* whose token it is for its authority
    Http,         \* requests that run at one time
    Sent,         \* the headers and different cookies access_token they send
    MaxTokens     \* 8: the most cookies access_token

NoToken == ""

ASSUME AccessTokensAssumption ==
    /\ Broken \subseteq Token /\ NoToken \notin Token
    /\ OwnerOf \in [Token -> Identity]
    /\ MaxTokens \in Nat
    /\ "malformed" \notin Token
    /\ \A s \in Sent : s.header \in Token \cup {NoToken, "malformed"} /\ s.jar \in Seq(Token)
    /\ \A s \in Sent : IsInjective(s.jar)
    /\ Sent # {}

VARIABLES
    central,   \* whether AUTH_SERVICE_URL is set, for good
    session,   \* the tokens whose session is open at their authority
    barred,    \* the board users with ban
    cookies,   \* the board_token cookies given out: pairs of a user and an ERP token
    http       \* the requests

tokenVars == <<central, session, barred, cookies, http>>

HttpState ==
    [sent : Sent, board : (Identity \X Token) \cup {<<>>},
     step : {"idle", "board session", "candidates", "check", "sync", "done"},
     left : Seq(Token), selected : Token \cup {NoToken},
     as : Identity \cup {NoToken}, answer : {"none", "accepted", "refused", "unavailable"},
     open : SUBSET Token, shut : SUBSET Token,  \* open, and not, at a moment of it (history)
     synced : SUBSET Identity]                  \* synchronized by it (history)

NoHttp == [sent |-> CHOOSE s \in Sent : TRUE, board |-> <<>>, step |-> "idle", left |-> <<>>,
           selected |-> NoToken, as |-> NoToken, answer |-> "none",
           open |-> {}, shut |-> {}, synced |-> {}]

AtHttp(r, step) == http[r].step = step
HttpBecomes(r, new) == http' = [http EXCEPT ![r] = new]
\* What the request was is kept until the next one.
Answered(r, answer) == HttpBecomes(r, [http[r] EXCEPT !.step = "done", !.answer = answer])
NobodySynced == UNCHANGED <<session, barred, cookies>>

----------------------------------------------------------------------------

\* The cookies of a browser in any order, a header of another client, a board_token that
\* was given out before, whatever the ERP cookie is now.
RequestComes(r) ==
    /\ AtHttp(r, "idle")
    /\ \E s \in Sent, board \in IF central THEN {<<>>} ELSE cookies \cup {<<>>} :
          HttpBecomes(r, [NoHttp EXCEPT !.sent = s, !.board = board, !.open = session,
                            !.shut = Token \ session,
                            !.step = IF central THEN "candidates" ELSE "board session"])
    /\ NobodySynced

RequestIsOver(r) == AtHttp(r, "done") /\ HttpBecomes(r, NoHttp) /\ NobodySynced

\* The cookie parser keeps the first of several.
ErpToken(r) == IF http[r].sent.jar = <<>> THEN NoToken ELSE Head(http[r].sent.jar)

\* The board_token is bound to the ERP session of the request.
IsCurrentBoardSession(r) ==
    http[r].board # <<>> /\ ErpToken(r) # NoToken /\ http[r].board[2] = ErpToken(r)

\* canActivate of the old mode: the board_token of an unchanged ERP session, or an exchange.
BoardSession(r) ==
    LET current == IsCurrentBoardSession(r) /\ http[r].board[1] \notin barred
    IN  /\ AtHttp(r, "board session")
        /\ CASE current ->
                   HttpBecomes(r, [http[r] EXCEPT !.step = "done", !.answer = "accepted",
                                                  !.as = http[r].board[1]])
             [] ~ current /\ ErpToken(r) = NoToken -> Answered(r, "refused")
             [] OTHER ->
                   HttpBecomes(r, [http[r] EXCEPT !.step = "check", !.left = <<ErpToken(r)>>])
        /\ NobodySynced

\* An explicit header is authoritative: cookies never rescue it.
GetAccessTokenCandidates(r) ==
    LET header == http[r].sent.header
        tokens == IF header = NoToken THEN http[r].sent.jar ELSE <<header>>
    IN  /\ AtHttp(r, "candidates")
        /\ IF header = "malformed" \/ Len(tokens) > MaxTokens THEN Answered(r, "refused")
           ELSE HttpBecomes(r, [http[r] EXCEPT !.step = "check", !.left = tokens])
        /\ NobodySynced

CheckGoesOn(r, selected) ==
    HttpBecomes(r, [http[r] EXCEPT !.left = Tail(@), !.selected = selected])

\* Mutant of VerifyCandidate: the first one that is verified is taken.
TakeFirstVerified(r) ==
    LET token == Head(http[r].left)
    IN  /\ AtHttp(r, "check") /\ http[r].left # <<>>
        /\ IF token \in session
           THEN HttpBecomes(r, [http[r] EXCEPT !.step = "sync", !.selected = token])
           ELSE CheckGoesOn(r, http[r].selected)
        /\ NobodySynced

\* One candidate: not a JWT, verified, refused by its authority, or not answered for.
VerifyCandidate(r) ==
    LET token == Head(http[r].left)
        skipped == central /\ token \in Broken
    IN  /\ AtHttp(r, "check") /\ http[r].left # <<>>
        /\ \/ skipped /\ CheckGoesOn(r, http[r].selected)
           \/ /\ ~ skipped /\ token \in session
              /\ IF http[r].selected = NoToken THEN CheckGoesOn(r, token)
                 ELSE Answered(r, "refused")
           \/ /\ ~ skipped /\ token \notin session
              /\ IF central THEN CheckGoesOn(r, http[r].selected) ELSE Answered(r, "refused")
           \/ ~ skipped /\ Answered(r, IF central THEN "unavailable" ELSE "refused")
        /\ NobodySynced

AllChecked(r) ==
    /\ AtHttp(r, "check") /\ http[r].left = <<>>
    /\ IF http[r].selected = NoToken THEN Answered(r, "refused")
       ELSE HttpBecomes(r, [http[r] EXCEPT !.step = "sync"])
    /\ NobodySynced

\* syncBoardUser, which may refuse.  A verified user is not banned, and its row is not
\* after that; the old mode gives out a board_token.
SyncBoardUser(r) ==
    LET token == http[r].selected
        user == OwnerOf[token]
    IN  /\ AtHttp(r, "sync")
        /\ \/ /\ HttpBecomes(r, [http[r] EXCEPT !.step = "done", !.answer = "accepted",
                                               !.as = user, !.synced = {user}])
              /\ barred' = barred \ {user}
              /\ cookies' = IF central THEN cookies ELSE cookies \cup {<<user, token>>}
           \/ /\ Answered(r, "refused")
              /\ UNCHANGED <<barred, cookies>>
        /\ UNCHANGED session

\* A session is closed, or its user is banned there.
SessionEnds ==
    /\ \E token \in session :
          /\ session' = session \ {token}
          /\ http' = [r \in Http |-> IF http[r].step \in {"idle", "done"} THEN http[r]
                                    ELSE [http[r] EXCEPT !.shut = @ \cup {token}]]
    /\ UNCHANGED <<barred, cookies>>

\* A user is banned here.
UserIsBarred ==
    /\ \E u \in Identity \ barred : barred' = barred \cup {u}
    /\ UNCHANGED <<session, cookies, http>>

----------------------------------------------------------------------------

TokensInit ==
    /\ central \in BOOLEAN /\ session \in SUBSET (Token \ Broken)
    /\ barred = {} /\ cookies = {} /\ http = [r \in Http |-> NoHttp]

TokensNext ==
    /\ \/ \E r \in Http :
             \/ RequestComes(r) \/ RequestIsOver(r) \/ BoardSession(r)
             \/ GetAccessTokenCandidates(r) \/ VerifyCandidate(r) \/ AllChecked(r)
             \/ SyncBoardUser(r)
       \/ SessionEnds \/ UserIsBarred
    /\ UNCHANGED central

TokensSpec == TokensInit /\ [][TokensNext]_tokenVars

----------------------------------------------------------------------------
(* Properties. *)

\* The tokens a request's identity may come from.
TokensOf(r) ==
    CASE ~ central -> {ErpToken(r)} \ {NoToken}
      [] central /\ http[r].sent.header # NoToken -> {http[r].sent.header} \cap Token
      [] OTHER -> Range(http[r].sent.jar)

\* An accepted request is the owner of one of its tokens: with the central authority one
\* that was open during it while every other was refused ("independently of cookie
\* order"), without it the ERP cookie it has now.  A request that is not accepted has
\* changed no board user ("Resolve ambiguity before synchronizing any Board identity").
OnlyVerifiedToken ==
    \A r \in Http :
        /\ http[r].answer = "accepted" =>
              \E token \in TokensOf(r) :
                 /\ http[r].as = OwnerOf[token]
                 /\ central => /\ token \in http[r].open
                               /\ TokensOf(r) \ {token} \subseteq http[r].shut
        /\ http[r].answer # "accepted" => http[r].synced = {}
===============================================================================
