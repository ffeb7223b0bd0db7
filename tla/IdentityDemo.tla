---------------------------- MODULE IdentityDemo ----------------------------
(***************************************************************************)
(* The identity scenarios (identity.go): sign-in, enrollment and           *)
(* two-factor challenges, over OAuthClient (oauth.go) and TwoFactorClient  *)
(* (twofactor.go).                                                         *)
(*                                                                         *)
(* The person answers on a phone.  The platform hands an answer out once:  *)
(* to the browser in a redirect, or to the first poll that reads it.  A    *)
(* code buys one token.                                                    *)
(***************************************************************************)
EXTENDS Runtime

CONSTANTS
    Waits,         \* how the runs of each identity scenario are answered
    WithClaims,    \* the scenarios whose claim values are sealed for the app's key
    WithService,   \* the scenarios that read the person's live values as well
    AppKey         \* the key file they are sealed for

VARIABLES
    grant,    \* platform: what was asked for each run, and what has become of it
    lost      \* history: the runs whose answer the platform gave and nobody read

identityVars == <<grant, lost>>

Identity == DOMAIN Waits
Polled == {"detached_signin", "detached_enroll", "challenge"}
AnswersOf(wait) ==
    CASE wait \in {"redirect", "detached_signin"} -> {"code", "denied"}
      [] wait \in {"enroll_redirect", "detached_enroll"} -> {"enrolled", "denied"}
      [] OTHER -> {"approved", "denied", "revoked"}

InitIdentity == grant = <<>> /\ lost = {}

\* /start and /enroll: a run is written once the platform took the challenge; nothing is
\* asked of it for a URL.
StartIdentity(s) ==
    /\ Idle /\ HasConfig(s)
    /\ \E wait \in Waits[s] :
         /\ NewRun([Run(s, "pending") EXCEPT !.wait = wait])
         /\ grant' = Put(grant, started + 1, [wait |-> wait, answer |-> "", given |-> FALSE,
                                              spent |-> FALSE, over |-> FALSE])
    /\ UNCHANGED <<used, config, keys, cache, busy, saves, faults, lost>>

-----------------------------------------------------------------------------
(* The person and the platform.                                             *)

PersonAnswers(r) ==
    /\ r \in DOMAIN grant /\ grant[r].answer = "" /\ ~ grant[r].over
    /\ \E a \in AnswersOf(grant[r].wait) : grant' = [grant EXCEPT ![r].answer = a]
    /\ UNCHANGED <<used, fileVars, busy, counters, lost>>

Expire(r) ==
    /\ r \in DOMAIN grant /\ ~ grant[r].over
    /\ grant' = [grant EXCEPT ![r].over = TRUE]
    /\ UNCHANGED <<used, fileVars, busy, counters, lost>>

-----------------------------------------------------------------------------
(* A poll of the browser, and the redirect.                                 *)

\* GET /api/runs: a run that is pending on a phone is asked after.
BeginPoll(r) ==
    /\ Idle /\ r \in DOMAIN Live
    /\ runs[r].status = "pending" /\ runs[r].wait \in Polled
    /\ Sweep(Live)
    /\ busy' = <<[run |-> r, at |-> runs[r].wait]>>
    /\ UNCHANGED <<used, config, keys, cache, counters, identityVars>>

Busy(r, at) == busy # <<>> /\ busy[1].run = r /\ busy[1].at = at

\* The handler writes its run and is done.
Ends(r, status, result) ==
    /\ WriteRun(r, [runs[r] EXCEPT !.status = status, !.result = result])
    /\ busy' = <<>>
Stays(r) == Ends(r, "pending", "")
Goes(r, at) == busy' = <<[run |-> r, at |-> at]>> /\ UNCHANGED <<runs, aged, route>>
Files == UNCHANGED <<used, config, keys, cache, started, saves>>

\* pollErr: no answer of HTTP, or a 503, leaves the run pending; any other error ends it.
RequestFails(r) == Fault /\ (Stays(r) \/ Ends(r, "failed", "error"))

\* A poll returns the first thing it is given: a code is exchanged, an enrollment is the
\* outcome.
Delivered(r, a) == IF a = "code" THEN Goes(r, "exchange") ELSE Ends(r, "done", a)

\* Mutant of Expired: a 410 is polled on after.
PollsOn(r) == Stays(r)

Expired(r) == Ends(r, "failed", "expired")

\* PollResult, the last of its requests.  Those that find nothing before change nothing.
PollResult(r) ==
    LET g == grant[r]
    IN  /\ \/ Busy(r, "detached_signin") \/ Busy(r, "detached_enroll")
        /\ \/ /\ g.answer \in {"code", "enrolled"} /\ ~ g.given /\ ~ g.over
              /\ grant' = [grant EXCEPT ![r].given = TRUE]
              /\ \/ Delivered(r, g.answer) /\ UNCHANGED <<faults, lost>>
                 \/ RequestFails(r) /\ lost' = lost \cup {r}
           \/ /\ g.answer = "denied" /\ ~ g.over
              /\ Ends(r, "failed", "denied") /\ UNCHANGED <<faults, identityVars>>
           \/ /\ g.over
              /\ Expired(r) /\ UNCHANGED <<faults, identityVars>>
           \/ /\ (g.answer = "" \/ g.given) /\ ~ g.over
              /\ Stays(r) /\ UNCHANGED <<faults, identityVars>>
           \/ RequestFails(r) /\ UNCHANGED identityVars
        /\ Files

\* Mutant of Outcome: only an approval is waited for.
ApprovalOnly(r, status) ==
    IF status \in {"approved", "gone"} THEN Ends(r, "done", status) ELSE Stays(r)

\* WaitForResult returns the first status that is not pending.
Outcome(r, status) == Ends(r, "done", status)

\* The first read of how a challenge ended tells it and burns it; what was read is gone,
\* and what is over is expired or gone.
Terminal(g) ==
    IF g.given THEN {"gone"}
    ELSE (IF g.answer # "" THEN {g.answer} ELSE IF g.over THEN {"expired"} ELSE {})
            \cup (IF g.over THEN {"gone"} ELSE {})

\* WaitForResult, the last of its requests.
WaitForResult(r) ==
    /\ Busy(r, "challenge")
    /\ \/ \E status \in Terminal(grant[r]) :
            /\ grant' = [grant EXCEPT ![r].given = TRUE]
            /\ \/ Outcome(r, status) /\ UNCHANGED <<faults, lost>>
               \/ RequestFails(r) /\ lost' = lost \cup {r}
       \/ /\ Terminal(grant[r]) = {}
          /\ Stays(r) /\ UNCHANGED <<faults, identityVars>>
       \/ RequestFails(r) /\ UNCHANGED identityVars
    /\ Files

\* GET /callback, which the browser may load again: it does not ask how the run stands.
Callback(r) ==
    /\ Idle /\ r \in DOMAIN Live /\ r \in DOMAIN grant
    /\ grant[r].wait \in {"redirect", "enroll_redirect"} /\ grant[r].answer # ""
    /\ LET a == grant[r].answer
           ended == [Live[r] EXCEPT !.status = IF a = "denied" THEN "failed" ELSE "done",
                                    !.result = a]
       IN  IF a = "code"
           THEN Sweep(Live) /\ busy' = <<[run |-> r, at |-> "exchange"]>>
           ELSE Sweep(Put(Live, r, ended)) /\ UNCHANGED busy
    /\ UNCHANGED <<used, config, keys, cache, counters, identityVars>>

-----------------------------------------------------------------------------
(* Completing a sign-in.                                                    *)

\* ExchangeCode: a code is worth one token.
ExchangeCode(r) ==
    /\ Busy(r, "exchange")
    /\ \/ /\ ~ grant[r].spent
          /\ grant' = [grant EXCEPT ![r].spent = TRUE]
          /\ \/ Goes(r, "userinfo") /\ UNCHANGED faults
             \/ Ends(r, "failed", "error") /\ Fault
       \/ /\ grant[r].spent
          /\ Ends(r, "failed", "error") /\ UNCHANGED <<faults, grant>>
       \/ Ends(r, "failed", "error") /\ Fault /\ UNCHANGED grant
    /\ Files /\ UNCHANGED lost

\* ResolveUserinfo: claim values need the app's key in the config, or none at all where the
\* OIDC stack signs in; then, for some, the live values are read with the service's client.
ResolveUserinfo(r) ==
    LET s == runs[r].scenario
        key == config[s].oauth_private_key
        opens == s \in WithClaims => key = AppKey \/ (s = "5" /\ key = "")
    IN  /\ Busy(r, "userinfo")
        /\ \/ /\ opens /\ UNCHANGED faults
              /\ IF s \in WithService THEN Goes(r, "connections") ELSE Ends(r, "done", "code")
           \/ ~ opens /\ Ends(r, "failed", "error") /\ UNCHANGED faults
           \/ Ends(r, "failed", "error") /\ Fault
        /\ Files /\ UNCHANGED identityVars

ReadLiveValues(r) ==
    /\ Busy(r, "connections")
    /\ \/ Ends(r, "done", "code") /\ UNCHANGED faults
       \/ Ends(r, "failed", "error") /\ Fault
    /\ Files /\ UNCHANGED identityVars

Handles(r) ==
    \/ PollResult(r) \/ WaitForResult(r) \/ ExchangeCode(r) \/ ResolveUserinfo(r)
    \/ ReadLiveValues(r)

=============================================================================
