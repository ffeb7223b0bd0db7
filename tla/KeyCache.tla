------------------------------ MODULE KeyCache ------------------------------
(***************************************************************************)
(* The public-key caches of the two clients (client.go, customer.go) and   *)
(* the flow start that repairs a stale entry (TriggerFlowRun).             *)
(*                                                                         *)
(* A lookup takes the mutex, misses, RELEASES it, asks the API, and takes  *)
(* it again to store: a rotation signal (InvalidatePublicKey, from the     *)
(* pump's goroutine or a webhook's) can land in between.  Each locked      *)
(* section and each request below is one step.  A key is its version on    *)
(* the server; 0 stands for "this owner has no key".                       *)
(***************************************************************************)
EXTENDS Integers, FiniteSets

CONSTANTS
    Caller,        \* goroutines that encrypt
    Owner,         \* key owners: persons, or services for "service"
    Kind,          \* the caches in use
    Tagged,        \* flow versions whose text names the customer's values
    MaxRotations,  \* bound: key versions per owner
    MaxPublishes,  \* bound: flow versions
    MaxCopies      \* bound: deliveries of one signal (the feed is at-least-once)

\* Client.pubkeyCache (by share code), Client.userPubkeyCache (by user id),
\* CustomerClient.pubkeyCache (by user id), CustomerClient.serviceKeyCache.
AllKinds == {"code", "user", "person", "service"}

\* CustomerClient keeps "no key" as an answer; Client returns an error instead.
KeepsAbsence == {"person", "service"}

ASSUME KindAssumption == Kind \subseteq AllKinds /\ Kind # {} /\ Owner # {}
ASSUME TaggedAssumption == Tagged \subseteq Nat
ASSUME BoundAssumption ==
    MaxRotations \in Nat /\ MaxPublishes \in Nat /\ MaxCopies \in Nat

Entry == [kind : Kind, owner : Owner]
NoKey == 0
Empty == -1

\* The signals that reach an entry: both caches of Client hear one feed.
Stream(k) == IF k = "user" THEN "code" ELSE k
Streams == {Stream(k) : k \in Kind}

VARIABLES
    key,       \* server: each owner's current key version
    flow,      \* server: the latest published version of the flow
    signals,   \* server: rotation signals not delivered yet, per feed
    cache,     \* what a client holds for an entry, Empty when nothing
    gen,       \* the generation counter that guards an entry
    call,      \* the call each caller is in
    floor      \* history: the owner's version when the entry was last dropped, or at the start

server == <<key, flow, signals>>
vars == <<server, cache, gen, call, floor>>

\* One caller's call.  snap is the generation read before unlocking, got the key in
\* hand; the rest belongs to TriggerFlowRun: published.Version, versionRetried and
\* staleRetried, the API's answer.  since is history: floor when the call (or its own
\* stale retry) began.
CallType ==
    [pc : {"idle", "publish", "lookup", "fetch", "store", "post", "answered"},
     entry : Entry, starts : BOOLEAN, snap : Nat, got : Nat \cup {Empty},
     pinned : Nat, retried : SUBSET {"version", "stale"},
     answer : {"", "created", "version_changed", "tag_values_stale"},
     since : Nat]

NewCall(pc, e, start) ==
    [pc |-> pc, entry |-> e, starts |-> start, snap |-> 0, got |-> Empty, pinned |-> 0,
     retried |-> {}, answer |-> "", since |-> floor[e]]

NoCall ==
    [pc |-> "idle", entry |-> CHOOSE e \in Entry : TRUE, starts |-> FALSE, snap |-> 0,
     got |-> Empty, pinned |-> 0, retried |-> {}, answer |-> "", since |-> 0]

TypeOK ==
    /\ key \in [Owner -> Nat]
    /\ flow \in Nat
    /\ signals \in [Streams -> [Owner -> Nat]]
    /\ cache \in [Entry -> Nat \cup {Empty}]
    /\ gen \in [Entry -> Nat]
    /\ call \in [Caller -> CallType]
    /\ floor \in [Entry -> Nat]

Init ==
    /\ key \in [Owner -> {NoKey, 1}]
    /\ flow = 0
    /\ signals = [s \in Streams |-> [o \in Owner |-> 0]]
    /\ cache = [e \in Entry |-> Empty]
    /\ gen = [e \in Entry |-> 0]
    /\ call = [c \in Caller |-> NoCall]
    /\ floor = [e \in Entry |-> key[e.owner]]

---------------------------------------------------------------------------
(* The server. *)

\* An owner gets a new key; every feed carries the change, perhaps more than once.
Rotate(o) ==
    /\ key[o] < MaxRotations
    /\ key' = [key EXCEPT ![o] = @ + 1]
    /\ \E n \in 1..MaxCopies :
          signals' = [s \in Streams |-> [signals[s] EXCEPT ![o] = @ + n]]
    /\ UNCHANGED <<flow, cache, gen, call, floor>>

Publish ==
    /\ flow < MaxPublishes
    /\ flow' = flow + 1
    /\ UNCHANGED <<key, signals, cache, gen, call, floor>>

---------------------------------------------------------------------------
(* Invalidation. *)

\* Mutant of Dropped: InvalidatePublicKey leaves the caches by user id alone.
DropsShareCodeOnly(s, o) == {e \in Entry : e.kind = s /\ e.owner = o}

\* What a signal of feed s about owner o drops.  One to Client names a share code,
\* which does not say whose user id it is, so every entry by user id goes.
Dropped(s, o) ==
    {e \in Entry : \/ e.kind = s /\ e.owner = o
                   \/ e.kind = "user" /\ s = "code"}

\* Mutant of Invalidate: the entry is deleted, the generation is not bumped.
KeepsGeneration(s, o) ==
    /\ cache' = [e \in Entry |-> IF e \in Dropped(s, o) THEN Empty ELSE cache[e]]
    /\ floor' = [e \in Entry |-> IF e \in Dropped(s, o) THEN key[e.owner] ELSE floor[e]]
    /\ UNCHANGED gen

\* InvalidatePublicKey / InvalidateServiceKey, one locked section: drop the entries
\* and make every fetch in flight for them unable to store.
Invalidate(s, o) ==
    /\ cache' = [e \in Entry |-> IF e \in Dropped(s, o) THEN Empty ELSE cache[e]]
    /\ floor' = [e \in Entry |-> IF e \in Dropped(s, o) THEN key[e.owner] ELSE floor[e]]
    /\ gen' = [e \in Entry |-> IF e \in Dropped(s, o) THEN gen[e] + 1 ELSE gen[e]]

\* decryptChange on a key_rotated change (or the webhook handler's own call).
Signal(s, o) ==
    /\ signals[s][o] > 0
    /\ signals' = [signals EXCEPT ![s][o] = @ - 1]
    /\ Invalidate(s, o)
    /\ UNCHANGED <<key, flow, call>>

---------------------------------------------------------------------------
(* A lookup: recipientPublicKey, userPublicKey, batchKey, serviceKey. *)

\* A caller seals a document or answers, or starts a flow run.
Begin(c, e, start) ==
    /\ call[c].pc = "idle"
    /\ start => e.kind = "code"
    /\ call' = [call EXCEPT ![c] = NewCall(IF start THEN "publish" ELSE "lookup", e, start)]
    /\ UNCHANGED <<server, cache, gen, floor>>

Return(c) == call' = [call EXCEPT ![c] = NoCall]

\* The caller has its key: a start posts what it seals, any other call is done.
Use(c, v) ==
    IF call[c].starts
    THEN call' = [call EXCEPT ![c].got = v, ![c].pc = "post"]
    ELSE Return(c)

Hit(c) ==
    /\ call[c].pc = "lookup"
    /\ cache[call[c].entry] # Empty
    /\ Use(c, cache[call[c].entry])
    /\ UNCHANGED <<server, cache, gen, floor>>

Miss(c) ==
    /\ call[c].pc = "lookup"
    /\ cache[call[c].entry] = Empty
    /\ call' = [call EXCEPT ![c].snap = gen[call[c].entry], ![c].pc = "fetch"]
    /\ UNCHANGED <<server, cache, gen, floor>>

\* The API answers with the key of that moment; Client turns "no key" into an error.
Fetch(c) ==
    /\ call[c].pc = "fetch"
    /\ LET v == key[call[c].entry.owner] IN
       IF v = NoKey /\ call[c].entry.kind \notin KeepsAbsence
       THEN Return(c)
       ELSE call' = [call EXCEPT ![c].got = v, ![c].pc = "store"]
    /\ UNCHANGED <<server, cache, gen, floor>>

\* Mutant of Store: locking the map alone.
StoresAlways(c) ==
    /\ call[c].pc = "store"
    /\ cache' = [cache EXCEPT ![call[c].entry] = call[c].got]
    /\ Use(c, call[c].got)
    /\ UNCHANGED <<server, gen, floor>>

\* Store only if no invalidation happened while the request was in flight; the
\* caller uses the key it fetched either way.
Store(c) ==
    /\ call[c].pc = "store"
    /\ cache' = IF gen[call[c].entry] = call[c].snap
                THEN [cache EXCEPT ![call[c].entry] = call[c].got]
                ELSE cache
    /\ Use(c, call[c].got)
    /\ UNCHANGED <<server, gen, floor>>

\* A request fails (network, HTTP error, a key that does not parse): the call
\* returns the error.  In a start that includes the connection read before the lookup.
Fail(c) ==
    /\ \/ call[c].pc \in {"publish", "fetch", "post"}
       \/ call[c].pc = "lookup" /\ call[c].starts
    /\ Return(c)
    /\ UNCHANGED <<server, cache, gen, floor>>

---------------------------------------------------------------------------
(* TriggerFlowRun. *)

\* PublishedFlow: pin the latest version; its text may need no key at all.
ReadFlow(c) ==
    /\ call[c].pc = "publish"
    /\ call' = [call EXCEPT ![c].pinned = flow, ![c].got = Empty,
                            ![c].pc = IF flow \in Tagged THEN "lookup" ELSE "post"]
    /\ UNCHANGED <<server, cache, gen, floor>>

\* POST .../runs: the API refuses a version that is not the latest, and tag values
\* sealed to a key that is not the customer's current one.
Post(c) ==
    /\ call[c].pc = "post"
    /\ call' = [call EXCEPT ![c].pc = "answered", ![c].answer =
               IF call[c].pinned # flow THEN "version_changed"
               ELSE IF call[c].got \notin {Empty, key[call[c].entry.owner]}
               THEN "tag_values_stale" ELSE "created"]
    /\ UNCHANGED <<server, cache, gen, floor>>

Refused(c, errorKey, flag) ==
    /\ call[c].pc = "answered"
    /\ call[c].answer = errorKey
    /\ flag \notin call[c].retried

\* flows.version_changed, once: re-read the published flow.
RetryVersion(c) ==
    /\ Refused(c, "version_changed", "version")
    /\ call' = [call EXCEPT ![c].retried = @ \cup {"version"}, ![c].pc = "publish"]
    /\ UNCHANGED <<server, cache, gen, floor>>

\* Mutant of RetryStale: the start is retried with whatever key is cached.
RetriesWithCachedKey(c) ==
    /\ Refused(c, "tag_values_stale", "stale")
    /\ call' = [call EXCEPT ![c].retried = @ \cup {"stale"}, ![c].pc = "lookup",
                            ![c].since = key[call[c].entry.owner]]
    /\ UNCHANGED <<server, cache, gen, floor>>

\* flows.tag_values_stale, once: drop the customer's key and seal again.
RetryStale(c) ==
    /\ Refused(c, "tag_values_stale", "stale")
    /\ Invalidate("code", call[c].entry.owner)
    /\ call' = [call EXCEPT ![c].retried = @ \cup {"stale"}, ![c].pc = "lookup",
                            ![c].got = Empty, ![c].since = key[call[c].entry.owner]]
    /\ UNCHANGED server

\* The start returns what the API said: created, or a refusal it may not retry.
ReturnAnswer(c) ==
    /\ call[c].pc = "answered"
    /\ ~ Refused(c, "version_changed", "version")
    /\ ~ Refused(c, "tag_values_stale", "stale")
    /\ Return(c)
    /\ UNCHANGED <<server, cache, gen, floor>>

Step(c) ==
    \/ Hit(c) \/ Miss(c) \/ Fetch(c) \/ Store(c) \/ Fail(c)
    \/ ReadFlow(c) \/ Post(c) \/ RetryVersion(c) \/ RetryStale(c) \/ ReturnAnswer(c)

Next ==
    \/ \E o \in Owner : Rotate(o)
    \/ Publish
    \/ \E s \in Streams, o \in Owner : Signal(s, o)
    \/ \E c \in Caller, e \in Entry, start \in BOOLEAN : Begin(c, e, start)
    \/ \E c \in Caller : Step(c)

Spec == Init /\ [][Next]_vars

---------------------------------------------------------------------------
(* Properties. *)

\* A key dropped by a rotation signal never comes back: what a cache holds is at
\* least as new as the owner's key when the entry was last dropped, also when a
\* fetch that began before the signal answers after it (client.go, pubkeyGen).
InvalidationDominates ==
    \A e \in Entry : cache[e] # Empty => cache[e] >= floor[e]

\* Once every signal about an owner has been delivered, no cache holds a key of
\* that owner that was rotated away, nor an outdated "no key".
QuietCacheIsCurrent ==
    \A e \in Entry : signals[Stream(e.kind)][e.owner] = 0 =>
        cache[e] \in {Empty, key[e.owner]}

\* A caller never holds a key that was dropped before its call began (or before
\* its own stale retry), whichever goroutine fetched and cached it.
HandedOutIsFresh ==
    \A c \in Caller : call[c].got # Empty => call[c].got >= call[c].since

\* A start that returns tag_values_stale was retried, and the customer rotated the
\* key once more after that retry: a retry never seals to the key just refused.
StaleTwiceMeansRotatedTwice ==
    \A c \in Caller :
        /\ call[c].answer = "tag_values_stale"
        /\ "stale" \in call[c].retried
        /\ call[c].pc = "answered"
        => key[call[c].entry.owner] > call[c].since

=============================================================================
