----------------------------- MODULE HttpClient -----------------------------
(***************************************************************************)
(* The API transport (http.go): the bearer token, the base URL that        *)
(* follows the company's home region, and the bounded retry loop, for      *)
(* concurrent requests over one HTTPClient.                                *)
(*                                                                         *)
(* Token and base are two fields under one mutex that no operation holds   *)
(* for both: tokenValid, the token's read, fetchToken's store, base and    *)
(* the two halves of rebaseTo are separate locked sections, and each is a  *)
(* step of its own here, as is each answer of the platform.                *)
(***************************************************************************)
EXTENDS Integers, FiniteSets

CONSTANTS
    Caller,          \* goroutines with a request in progress
    Region,          \* regional bases; the configured base is the front door
    Front,           \* the global front door
    NoBase,          \* an absent or empty api_url
    maxRetries429,   \* HTTPClient.maxRetries429
    MaxChanges,      \* bound: region moves and token revocations
    MaxResets        \* bound: kept-alive connections closed before an answer

ASSUME RegionAssumption == Front \notin Region /\ NoBase \notin Region \cup {Front}
ASSUME RetryAssumption == maxRetries429 \in Nat
ASSUME BoundAssumption == MaxChanges \in Nat /\ MaxResets \in Nat

Base == Region \cup {Front}
NoToken == 0

VARIABLES
    home,      \* platform: the company's home region
    epoch,     \* platform: tokens of this epoch are the valid ones
    apiURL,    \* HTTPClient.apiURL
    token,     \* HTTPClient.token, as the epoch it was minted in
    expired,   \* now is past tokenExpiry
    resets,    \* network: connections closed so far, bounded by MaxResets
    call       \* the request each caller is in

platform == <<home, epoch>>
client == <<apiURL, token, expired>>
vars == <<platform, client, resets, call>>

\* One request.  forced: fetchToken runs because of a 401.  named is the candidate
\* base of the last answer.  resent: sendResendingOnce has used its second attempt.
\* result is what the last request returned (named and alone are kept with it).  The
\* rest is history: the attempts made, the second attempts among them, how often the
\* platform acted on the request, and whether nothing else happened since it began (no
\* other request, no move, no revocation).
CallType ==
    [pc : {"idle", "bearer", "read", "tokenURL", "mint", "keep", "compare", "rebase",
           "url", "send", "answered"},
     tok : Nat, base : Base, named : Base \cup {NoBase},
     status : {0, 200, 401, 421, 429, 500},
     forced : BOOLEAN, refreshed401 : BOOLEAN, rebased421 : BOOLEAN, retries429 : Nat,
     result : {"none", "ok", "token", "unauthorized", "misdirected", "limited", "error"},
     resent : BOOLEAN, sends : Nat, resends : Nat, served : Nat, alone : BOOLEAN]

NoCall ==
    [pc |-> "idle", tok |-> NoToken, base |-> Front, named |-> NoBase, status |-> 0,
     forced |-> FALSE, refreshed401 |-> FALSE, rebased421 |-> FALSE, retries429 |-> 0,
     result |-> "none", resent |-> FALSE, sends |-> 0, resends |-> 0, served |-> 0,
     alone |-> FALSE]

TypeOK ==
    /\ home \in Region
    /\ epoch \in Nat
    /\ apiURL \in Base
    /\ token \in Nat
    /\ expired \in BOOLEAN
    /\ resets \in Nat
    /\ call \in [Caller -> CallType]

Init ==
    /\ home \in Region
    /\ epoch = 1
    /\ apiURL = Front
    /\ token = NoToken
    /\ expired = FALSE
    /\ resets = 0
    /\ call = [c \in Caller |-> NoCall]

At(c, label) == call[c].pc = label

---------------------------------------------------------------------------
(* The platform and the clock. *)

Disturbed == [c \in Caller |-> [call[c] EXCEPT !.alone = FALSE]]

\* The company moves region, or its tokens are revoked: no older token is valid.
Change ==
    /\ epoch <= MaxChanges
    /\ epoch' = epoch + 1
    /\ home' \in Region
    /\ call' = Disturbed
    /\ UNCHANGED <<client, resets>>

\* The clock passes tokenExpiry (some time before the token's own end).
Expire ==
    /\ token # NoToken
    /\ expired' = TRUE
    /\ UNCHANGED <<platform, apiURL, token, resets, call>>

---------------------------------------------------------------------------
(* bearer and fetchToken. *)

Begin(c) ==
    /\ At(c, "idle")
    /\ call' = [Disturbed EXCEPT ![c] =
          [NoCall EXCEPT !.pc = "bearer", !.alone = \A d \in Caller \ {c} : At(d, "idle")]]
    /\ UNCHANGED <<platform, client, resets>>

Goto(c, label) == call' = [call EXCEPT ![c].pc = label]

Return(c, what) ==
    call' = [call EXCEPT ![c] =
        [NoCall EXCEPT !.result = what, !.named = call[c].named, !.alone = call[c].alone]]

\* tokenValid.
TokenValid(c) ==
    /\ At(c, "bearer")
    /\ Goto(c, IF token # NoToken /\ ~ expired THEN "read" ELSE "tokenURL")
    /\ UNCHANGED <<platform, client, resets>>

ReadToken(c) ==
    /\ At(c, "read")
    /\ call' = [call EXCEPT ![c].tok = token, ![c].pc = "url"]
    /\ UNCHANGED <<platform, client, resets>>

\* The token request goes to the current base, front door or region.
TokenURL(c) ==
    /\ At(c, "tokenURL")
    /\ call' = [call EXCEPT ![c].base = apiURL, ![c].pc = "mint"]
    /\ UNCHANGED <<platform, client, resets>>

\* A token is minted at the home region and the answer names that region; or the
\* request fails, and with it the call (AuthError).
Mint(c) ==
    /\ At(c, "mint")
    /\ \/ call' = [call EXCEPT ![c].tok = epoch, ![c].named = home, ![c].pc = "keep"]
       \/ Return(c, "token")
    /\ UNCHANGED <<platform, client, resets>>

\* The locked store of token and expiry; rebaseTo only follows.
KeepToken(c) ==
    /\ At(c, "keep")
    /\ token' = call[c].tok
    /\ expired' = FALSE
    /\ Goto(c, "compare")
    /\ UNCHANGED <<platform, apiURL, resets>>

\* What follows a rebaseTo in fetchToken: a forced refresh goes back to the top of
\* the loop, a first fetch goes on with the token it minted.
AfterToken(c) == IF call[c].forced THEN "bearer" ELSE "url"

\* rebaseTo, first half: nothing to store when the base is absent or the current one.
\* On a 421 that ends the request.
SameBase(c) ==
    /\ At(c, "compare")
    /\ call[c].named \in {NoBase, apiURL}
    /\ IF call[c].status = 421
       THEN Return(c, "misdirected")
       ELSE call' = [call EXCEPT ![c].pc = AfterToken(c), ![c].forced = FALSE]
    /\ UNCHANGED <<platform, client, resets>>

OtherBase(c) ==
    /\ At(c, "compare")
    /\ call[c].named \notin {NoBase, apiURL}
    /\ Goto(c, "rebase")
    /\ UNCHANGED <<platform, client, resets>>

\* rebaseTo, second half: store the base.  On a 421 the request is replayed, once.
Rebase(c) ==
    /\ At(c, "rebase")
    /\ apiURL' = call[c].named
    /\ IF call[c].status = 421
       THEN call' = [call EXCEPT ![c].rebased421 = TRUE, ![c].status = 0,
                                 ![c].pc = "bearer"]
       ELSE call' = [call EXCEPT ![c].pc = AfterToken(c), ![c].forced = FALSE]
    /\ UNCHANGED <<platform, token, expired, resets>>

---------------------------------------------------------------------------
(* doRequestRaw. *)

\* The URL is resolved per attempt, after the token.
ResolveURL(c) ==
    /\ At(c, "url")
    /\ call' = [call EXCEPT ![c].base = apiURL, ![c].resent = FALSE,
                            ![c].sends = @ + 1, ![c].pc = "send"]
    /\ UNCHANGED <<platform, client, resets>>

Answer(c, status, base, acted) ==
    /\ call' = [call EXCEPT ![c].status = status, ![c].named = base,
                            ![c].served = @ + acted, ![c].pc = "answered"]
    /\ UNCHANGED <<platform, client, resets>>

\* The front door serves no data route; a region that is not the home region refuses
\* the token or names the home region; the home region serves a valid token.
Serve(c) ==
    /\ At(c, "send")
    /\ call[c].base = home /\ call[c].tok = epoch
    /\ Answer(c, 200, NoBase, 1)

Unauthorized(c) ==
    /\ At(c, "send")
    /\ call[c].base # Front
    /\ call[c].base # home \/ call[c].tok # epoch
    /\ Answer(c, 401, NoBase, 0)

Misdirected(c) ==
    /\ At(c, "send")
    /\ call[c].base # home
    /\ \E b \in {home, NoBase} : Answer(c, 421, b, 0)

\* Whether the platform may already have acted on an attempt that got no answer.
MayAct(c) == IF call[c].base = home /\ call[c].tok = epoch THEN {0, 1} ELSE {0}

\* Any base may be out of requests, or fail: another status, a timeout, an answer that
\* cannot be read to its end.
Limit(c) == At(c, "send") /\ Answer(c, 429, NoBase, 0)
Break(c) == At(c, "send") /\ \E a \in MayAct(c) : Answer(c, 500, NoBase, a)

\* sendResendingOnce: a reused connection closed before any byte of the answer; the
\* request is sent once more, on another connection.
Resend(c) ==
    /\ At(c, "send")
    /\ ~ call[c].resent
    /\ resets < MaxResets
    /\ resets' = resets + 1
    /\ \E a \in MayAct(c) :
          call' = [call EXCEPT ![c].resent = TRUE, ![c].resends = @ + 1, ![c].served = @ + a]
    /\ UNCHANGED <<platform, client>>

Succeeds(c) ==
    /\ At(c, "answered") /\ call[c].status = 200
    /\ Return(c, "ok")
    /\ UNCHANGED <<platform, client, resets>>

\* Mutant of Refresh401: back to the loop, which reuses the token it holds.
RetriesWithoutRefresh(c) ==
    /\ At(c, "answered") /\ call[c].status = 401
    /\ ~ call[c].refreshed401
    /\ call' = [call EXCEPT ![c].refreshed401 = TRUE, ![c].pc = "bearer"]
    /\ UNCHANGED <<platform, client, resets>>

\* A first 401: one forced refresh, then the loop again.
Refresh401(c) ==
    /\ At(c, "answered") /\ call[c].status = 401
    /\ ~ call[c].refreshed401
    /\ call' = [call EXCEPT ![c].refreshed401 = TRUE, ![c].forced = TRUE,
                            ![c].pc = "tokenURL"]
    /\ UNCHANGED <<platform, client, resets>>

GiveUp401(c) ==
    /\ At(c, "answered") /\ call[c].status = 401
    /\ call[c].refreshed401
    /\ Return(c, "unauthorized")
    /\ UNCHANGED <<platform, client, resets>>

\* A first 421 that is a rebase refusal: rebaseTo decides whether there is a replay.
Follow421(c) ==
    /\ At(c, "answered") /\ call[c].status = 421
    /\ ~ call[c].rebased421
    /\ Goto(c, "compare")
    /\ UNCHANGED <<platform, client, resets>>

Surface421(c) ==
    /\ At(c, "answered") /\ call[c].status = 421
    /\ call[c].rebased421
    /\ Return(c, "misdirected")
    /\ UNCHANGED <<platform, client, resets>>

\* Mutant of Backoff429: the retry is not counted.
BacksOffForever(c) ==
    /\ At(c, "answered") /\ call[c].status = 429
    /\ call[c].retries429 < maxRetries429
    /\ Goto(c, "bearer")
    /\ UNCHANGED <<platform, client, resets>>

\* A 429 within the budget: sleep, then the loop again.
Backoff429(c) ==
    /\ At(c, "answered") /\ call[c].status = 429
    /\ call[c].retries429 < maxRetries429
    /\ call' = [call EXCEPT ![c].retries429 = @ + 1, ![c].pc = "bearer"]
    /\ UNCHANGED <<platform, client, resets>>

GiveUp429(c) ==
    /\ At(c, "answered") /\ call[c].status = 429
    /\ call[c].retries429 = maxRetries429
    /\ Return(c, "limited")
    /\ UNCHANGED <<platform, client, resets>>

\* Mutant of Surface: a failed attempt is retried like a 429.
RetriesFailures(c) ==
    /\ At(c, "answered") /\ call[c].status \in {429, 500}
    /\ call[c].retries429 < maxRetries429
    /\ call' = [call EXCEPT ![c].retries429 = @ + 1, ![c].pc = "bearer"]
    /\ UNCHANGED <<platform, client, resets>>

\* Everything else surfaces at once; so does a 429 twofa.pending_cap.
Surface(c) ==
    /\ At(c, "answered") /\ call[c].status \in {429, 500}
    /\ Return(c, "error")
    /\ UNCHANGED <<platform, client, resets>>

FetchToken(c) ==
    TokenURL(c) \/ Mint(c) \/ KeepToken(c) \/ SameBase(c) \/ OtherBase(c) \/ Rebase(c)

Platform(c) ==
    Serve(c) \/ Unauthorized(c) \/ Misdirected(c) \/ Limit(c) \/ Break(c) \/ Resend(c)

Handle(c) ==
    \/ Succeeds(c) \/ Refresh401(c) \/ GiveUp401(c) \/ Follow421(c) \/ Surface421(c)
    \/ Backoff429(c) \/ GiveUp429(c) \/ Surface(c)

Step(c) == TokenValid(c) \/ ReadToken(c) \/ FetchToken(c) \/ ResolveURL(c)
           \/ Platform(c) \/ Handle(c)

Next == Change \/ Expire \/ \E c \in Caller : Begin(c) \/ Step(c)

Spec == Init /\ [][Next]_vars

---------------------------------------------------------------------------
(* Properties. *)

\* Whatever token and base earlier requests left behind, interleaved, half stored or
\* from before a move, a request that runs alone against a platform that stays as it
\* is is never refused: it follows the base it is named and refreshes once.
AloneIsServed ==
    \A c \in Caller :
        call[c].alone =>
            /\ call[c].result # "unauthorized"
            /\ call[c].result = "misdirected" => call[c].named = NoBase

\* However 401s, 421s and 429s alternate and other requests interfere, one request
\* sends at most its first attempt, one refresh, one rebase and the 429 budget.
SendBudget == \A c \in Caller : call[c].sends <= 3 + maxRetries429

\* A request is acted on twice only when a connection closed under it: no 401, 421 or
\* 429 replay follows an attempt the platform acted on, and no failure is retried.
ReplaysAreFirstDeliveries == \A c \in Caller : call[c].served <= 1 + call[c].resends

=============================================================================
