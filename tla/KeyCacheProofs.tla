--------------------------- MODULE KeyCacheProofs ---------------------------
(***************************************************************************)
(* Proofs about the public-key caches, for any set of concurrent callers,  *)
(* of key owners and of caches, and any number of rotations.               *)
(***************************************************************************)
EXTENDS KeyCache, TLAPS

(***************************************************************************)
(* The strengthening.  InvalidationDominates is not inductive: a fetch in  *)
(* flight could store an old key.  What forbids it is a fact about the     *)
(* counter: a caller whose generation is still current holds a key at      *)
(* least as new as the last drop.                                          *)
(***************************************************************************)
EntryFresh(e) ==
    /\ floor[e] <= key[e.owner]
    /\ cache[e] # Empty => floor[e] <= cache[e] /\ cache[e] <= key[e.owner]
    /\ signals[Stream(e.kind)][e.owner] = 0 => floor[e] = key[e.owner]
    /\ e.kind \notin KeepsAbsence => cache[e] # NoKey

CallFresh(k) ==
    /\ k.since <= floor[k.entry]
    /\ k.got # Empty => k.since <= k.got /\ k.got <= key[k.entry.owner]
    /\ k.pc \in {"fetch", "store"} => k.snap <= gen[k.entry]
    /\ k.pc = "store" =>
          /\ k.got # Empty
          /\ k.snap = gen[k.entry] => floor[k.entry] <= k.got
          /\ k.entry.kind \notin KeepsAbsence => k.got # NoKey
    /\ k.pc = "answered" /\ k.answer = "tag_values_stale" =>
          k.got # Empty /\ k.got < key[k.entry.owner]
    /\ k.starts => k.entry.kind = "code"
    /\ k.pc \in {"publish", "post", "answered"} => k.starts

Fresh == (\A e \in Entry : EntryFresh(e)) /\ (\A c \in Caller : CallFresh(call[c]))

-----------------------------------------------------------------------------
(* Type correctness.                                                       *)

\* An entry is a kind and an owner.
LEMMA EntryFields ==
    ASSUME NEW e \in Entry
    PROVE  e.kind \in Kind /\ e.owner \in Owner /\ Stream(e.kind) \in Streams
  BY DEF Entry, Streams

\* The field types of a call, spelled out for the provers.
LEMMA CallFields ==
    ASSUME NEW k \in CallType
    PROVE  /\ k.entry \in Entry /\ k.got \in Nat \cup {Empty}
           /\ k.snap \in Nat /\ k.since \in Nat
  BY DEF CallType

\* A caller between two calls is well typed.
LEMMA NoCallType == NoCall \in CallType
  <1>1. \E e \in Entry : TRUE
    <2>1. PICK k \in Kind, o \in Owner : TRUE
      BY KindAssumption
    <2>2. [kind |-> k, owner |-> o] \in Entry
      BY DEF Entry
    <2>. QED BY <2>2
  <1>2. (CHOOSE e \in Entry : TRUE) \in Entry
    BY <1>1
  <1>. QED BY <1>2 DEF NoCall, CallType

\* An invalidation keeps the types of what it writes.
LEMMA InvalidateType ==
    ASSUME TypeOK, NEW s, NEW o, Invalidate(s, o)
    PROVE  /\ cache' \in [Entry -> Nat \cup {Empty}]
           /\ gen' \in [Entry -> Nat]
           /\ floor' \in [Entry -> Nat]
  BY EntryFields DEF TypeOK, Invalidate

\* A call that takes a key in hand and moves on is well typed.
LEMMA HoldsKeyType ==
    ASSUME NEW k \in CallType, NEW v \in Nat \cup {Empty},
           NEW p \in {"store", "post"}
    PROVE  [k EXCEPT !.got = v, !.pc = p] \in CallType
  BY DEF CallType

\* So is one that has an answer in hand.
LEMMA AnsweredType ==
    ASSUME NEW k \in CallType,
           NEW a \in {"created", "version_changed", "tag_values_stale"}
    PROVE  [k EXCEPT !.pc = "answered", !.answer = a] \in CallType
  BY DEF CallType

\* Every step of a caller gives it a well-typed call.
LEMMA CallStepType ==
    ASSUME TypeOK, NEW c \in Caller, Step(c)
    PROVE  call' \in [Caller -> CallType]
  <1>. USE NoCallType DEF TypeOK
  <1>1. call[c] \in CallType /\ call[c].entry \in Entry /\ call[c].got \in Nat \cup {Empty}
    BY DEF CallType
  <1>2. key[call[c].entry.owner] \in Nat /\ cache[call[c].entry] \in Nat \cup {Empty}
        /\ gen[call[c].entry] \in Nat
    BY <1>1, EntryFields
  <1>3. ASSUME NEW v \in Nat \cup {Empty}, Use(c, v)
        PROVE  call' \in [Caller -> CallType]
    <2>1. CASE call[c].starts
      <3>1. call' = [call EXCEPT ![c] = [call[c] EXCEPT !.got = v, !.pc = "post"]]
        BY <1>3, <2>1 DEF Use
      <3>. QED BY <1>1, <3>1, HoldsKeyType
    <2>2. CASE ~ call[c].starts
      BY <1>3, <2>2 DEF Use, Return
    <2>. QED BY <2>1, <2>2
  <1>4. CASE Hit(c)
    BY <1>2, <1>3, <1>4 DEF Hit
  <1>5. CASE Miss(c)
    BY <1>1, <1>2, <1>5 DEF Miss, CallType
  <1>6. CASE Fetch(c)
    <2>1. CASE Return(c)
      BY <2>1 DEF Return
    <2>2. CASE call' = [call EXCEPT ![c].got = key[call[c].entry.owner], ![c].pc = "store"]
      <3>1. call' = [call EXCEPT ![c] =
                        [call[c] EXCEPT !.got = key[call[c].entry.owner], !.pc = "store"]]
        BY <1>1, <2>2
      <3>. QED BY <1>1, <1>2, <3>1, HoldsKeyType
    <2>. QED BY <1>6, <2>1, <2>2 DEF Fetch
  <1>7. CASE Store(c)
    BY <1>1, <1>3, <1>7 DEF Store
  <1>8. CASE Fail(c)
    BY <1>8 DEF Fail, Return
  <1>9. CASE ReadFlow(c)
    BY <1>1, <1>9 DEF ReadFlow, CallType
  <1>10. CASE Post(c)
    <2>1. PICK a \in {"created", "version_changed", "tag_values_stale"} :
            call' = [call EXCEPT ![c] = [call[c] EXCEPT !.pc = "answered", !.answer = a]]
      <3>. DEFINE a == IF call[c].pinned # flow THEN "version_changed"
                       ELSE IF call[c].got \notin {Empty, key[call[c].entry.owner]}
                       THEN "tag_values_stale" ELSE "created"
      <3>1. call' = [call EXCEPT ![c].pc = "answered", ![c].answer = a]
        BY <1>10 DEF Post
      <3>2. a \in {"created", "version_changed", "tag_values_stale"}
        OBVIOUS
      <3>. HIDE DEF a
      <3>3. call' = [call EXCEPT ![c] = [call[c] EXCEPT !.pc = "answered", !.answer = a]]
        BY <1>1, <3>1
      <3>. QED BY <3>2, <3>3
    <2>2. a \in {"created", "version_changed", "tag_values_stale"}
      BY <2>1
    <2>. QED BY <1>1, <2>1, <2>2, AnsweredType
  <1>11. CASE RetryVersion(c)
    BY <1>1, <1>11 DEF RetryVersion, CallType
  <1>12. CASE RetryStale(c)
    <2>1. call' = [call EXCEPT ![c] =
                      [call[c] EXCEPT !.retried = call[c].retried \cup {"stale"}, !.pc = "lookup",
                                      !.got = Empty, !.since = key[call[c].entry.owner]]]
      BY <1>1, <1>12 DEF RetryStale
    <2>2. [call[c] EXCEPT !.retried = call[c].retried \cup {"stale"}, !.pc = "lookup",
                          !.got = Empty, !.since = key[call[c].entry.owner]] \in CallType
      BY <1>1, <1>2 DEF CallType
    <2>. QED BY <2>1, <2>2
  <1>13. CASE ReturnAnswer(c)
    BY <1>13 DEF ReturnAnswer, Return
  <1>. QED BY <1>4, <1>5, <1>6, <1>7, <1>8, <1>9, <1>10, <1>11, <1>12, <1>13 DEF Step

\* A client starts well typed, its caches empty.
LEMMA InitType == Init => TypeOK
  <1>. SUFFICES ASSUME Init PROVE TypeOK
    OBVIOUS
  <1>1. key \in [Owner -> Nat] /\ floor \in [Entry -> Nat]
    BY EntryFields DEF Init, NoKey
  <1>2. cache \in [Entry -> Nat \cup {Empty}] /\ gen \in [Entry -> Nat] /\ flow \in Nat
    BY DEF Init
  <1>3. signals \in [Streams -> [Owner -> Nat]] /\ call \in [Caller -> CallType]
    BY NoCallType DEF Init
  <1>. QED BY <1>1, <1>2, <1>3 DEF TypeOK

\* Every variable keeps its type.
THEOREM TypeCorrect == Spec => []TypeOK
  <1>1. Init => TypeOK
    BY InitType
  <1>2. TypeOK /\ [Next]_vars => TypeOK'
    <2>. SUFFICES ASSUME TypeOK, [Next]_vars PROVE TypeOK'
      OBVIOUS
    <2>1. ASSUME NEW o \in Owner, Rotate(o) PROVE TypeOK'
      <3>1. PICK n \in 1..MaxCopies :
              signals' = [s \in Streams |-> [signals[s] EXCEPT ![o] = @ + n]]
        BY <2>1 DEF Rotate
      <3>2. n \in Nat
        BY BoundAssumption
      <3>3. signals' \in [Streams -> [Owner -> Nat]]
        BY <3>1, <3>2 DEF TypeOK
      <3>. QED BY <2>1, <3>3 DEF Rotate, TypeOK
    <2>2. ASSUME Publish PROVE TypeOK'
      BY <2>2 DEF Publish, TypeOK
    <2>3. ASSUME NEW s \in Streams, NEW o \in Owner, Signal(s, o) PROVE TypeOK'
      <3>1. signals' \in [Streams -> [Owner -> Nat]]
        BY <2>3 DEF Signal, TypeOK
      <3>. QED BY <2>3, <3>1, InvalidateType DEF Signal, TypeOK
    <2>4. ASSUME NEW c \in Caller, NEW e \in Entry, NEW start \in BOOLEAN,
                 Begin(c, e, start)
          PROVE  TypeOK'
      <3>1. NewCall(IF start THEN "publish" ELSE "lookup", e, start) \in CallType
        BY DEF NewCall, CallType, TypeOK
      <3>. QED BY <2>4, <3>1 DEF Begin, server, TypeOK
    <2>5. ASSUME NEW c \in Caller, Step(c) PROVE TypeOK'
      <3>1. call' \in [Caller -> CallType]
        BY <2>5, CallStepType
      <3>2. CASE Store(c)
        BY <3>1, <3>2 DEF Store, server, TypeOK, CallType
      <3>3. CASE RetryStale(c)
        BY <3>1, <3>3, InvalidateType DEF RetryStale, server, TypeOK
      <3>4. CASE ~ Store(c) /\ ~ RetryStale(c)
        <4>1. UNCHANGED <<key, flow, signals, cache, gen, floor>>
          BY <2>5, <3>4 DEF Step, Hit, Miss, Fetch, Fail, ReadFlow, Post, RetryVersion,
                            ReturnAnswer, server
        <4>. QED BY <3>1, <4>1 DEF TypeOK
      <3>. QED BY <3>2, <3>3, <3>4
    <2>6. CASE UNCHANGED vars
      BY <2>6 DEF vars, server, TypeOK
    <2>. QED BY <2>1, <2>2, <2>3, <2>4, <2>5, <2>6 DEF Next
  <1>. QED BY <1>1, <1>2, PTL DEF Spec

-----------------------------------------------------------------------------
(* Freshness.                                                              *)

\* Dropping entries leaves every entry and every caller fresh: a dropped entry is
\* empty with floor at the owner's key, and no caller in flight for it can store.
LEMMA InvalidateFresh ==
    ASSUME TypeOK, Fresh, NEW s, NEW o, Invalidate(s, o), UNCHANGED key
    PROVE  /\ \A e \in Entry : /\ floor[e] <= floor'[e] /\ floor'[e] <= key[e.owner]
                               /\ cache'[e] # Empty => cache'[e] = cache[e]
                                                       /\ floor'[e] = floor[e]
                               /\ e \in Dropped(s, o) => floor'[e] = key[e.owner]
                               /\ e \notin Dropped(s, o) => floor'[e] = floor[e]
                               /\ gen[e] <= gen'[e]
                               /\ gen'[e] = gen[e] => floor'[e] = floor[e]
           /\ \A k \in CallType : CallFresh(k) => CallFresh(k)'
  <1>1. \A e \in Entry : /\ floor[e] <= floor'[e] /\ floor'[e] <= key[e.owner]
                         /\ cache'[e] # Empty => cache'[e] = cache[e]
                                                 /\ floor'[e] = floor[e]
                         /\ e \in Dropped(s, o) => floor'[e] = key[e.owner]
                         /\ e \notin Dropped(s, o) => floor'[e] = floor[e]
                         /\ gen[e] <= gen'[e]
                         /\ gen'[e] = gen[e] => floor'[e] = floor[e]
    <2>. TAKE e \in Entry
    <2>1. /\ floor[e] \in Nat /\ gen[e] \in Nat /\ key[e.owner] \in Nat
          /\ floor[e] <= key[e.owner]
      BY EntryFields DEF TypeOK, Fresh, EntryFresh
    <2>2. CASE e \in Dropped(s, o)
      BY <2>1, <2>2 DEF Invalidate
    <2>3. CASE e \notin Dropped(s, o)
      BY <2>1, <2>3 DEF Invalidate
    <2>. QED BY <2>2, <2>3
  <1>2. ASSUME NEW k \in CallType, CallFresh(k)
        PROVE  CallFresh(k)'
    <2>1. /\ k.entry \in Entry /\ k.snap \in Nat /\ k.since \in Nat
          /\ k.got \in Nat \cup {Empty} /\ gen[k.entry] \in Nat /\ gen'[k.entry] \in Nat
          /\ floor[k.entry] \in Nat /\ floor'[k.entry] \in Nat
      BY InvalidateType DEF CallType, TypeOK
    <2>2. /\ floor[k.entry] <= floor'[k.entry] /\ gen[k.entry] <= gen'[k.entry]
          /\ gen'[k.entry] = gen[k.entry] => floor'[k.entry] = floor[k.entry]
      BY <1>1, <2>1
    <2>3. k.since <= floor'[k.entry]
      BY <1>2, <2>1, <2>2 DEF CallFresh
    <2>4. k.pc \in {"fetch", "store"} => k.snap <= gen'[k.entry]
      BY <1>2, <2>1, <2>2 DEF CallFresh
    <2>5. k.pc = "store" /\ k.snap = gen'[k.entry] => floor'[k.entry] <= k.got
      BY <1>2, <2>1, <2>2 DEF CallFresh
    <2>. QED BY <1>2, <2>3, <2>4, <2>5 DEF CallFresh
  <1>. QED BY <1>1, <1>2

\* A caller that is done holds nothing.
LEMMA NoCallFresh ==
    ASSUME TypeOK
    PROVE  CallFresh(NoCall)
  <1>1. NoCall.entry \in Entry
    BY NoCallType DEF CallType
  <1>2. NoCall.since = 0 /\ NoCall.got = Empty /\ NoCall.pc = "idle"
        /\ ~ NoCall.starts
    BY DEF NoCall
  <1>3. floor[NoCall.entry] \in Nat
    BY <1>1 DEF TypeOK
  <1>. QED BY <1>2, <1>3 DEF CallFresh

\* A step of one caller that touches no cache keeps everything fresh when it
\* leaves that caller fresh.
LEMMA LocalStep ==
    ASSUME Fresh, NEW c \in Caller, NEW k, CallFresh(k), call \in [Caller -> CallType],
           call' = [call EXCEPT ![c] = k], UNCHANGED <<server, cache, gen, floor>>
    PROVE  Fresh'
  <1>1. ASSUME NEW e \in Entry PROVE EntryFresh(e)'
    BY DEF Fresh, EntryFresh, server
  <1>2. ASSUME NEW d \in Caller PROVE CallFresh(call[d])'
    BY DEF Fresh, CallFresh, server
  <1>. QED BY <1>1, <1>2 DEF Fresh

\* Freshness is inductive.
LEMMA FreshInductive == TypeOK /\ Fresh /\ [Next]_vars => Fresh'
  <1>. SUFFICES ASSUME TypeOK, Fresh, [Next]_vars PROVE Fresh'
    OBVIOUS
  <1>t. call \in [Caller -> CallType]
    BY DEF TypeOK
  <1>f. \A c \in Caller : CallFresh(call[c])
    BY DEF Fresh
  <1>1. ASSUME NEW o \in Owner, Rotate(o) PROVE Fresh'
    <2>1. \A p \in Owner : key[p] \in Nat /\ key'[p] \in Nat /\ key[p] <= key'[p]
                           /\ (p # o => key'[p] = key[p])
      BY <1>1 DEF Rotate, TypeOK
    <2>2. UNCHANGED <<cache, gen, call, floor>>
      BY <1>1 DEF Rotate
    <2>3. ASSUME NEW e \in Entry PROVE EntryFresh(e)'
      <3>1. PICK n \in 1..MaxCopies :
              signals' = [s \in Streams |-> [signals[s] EXCEPT ![o] = @ + n]]
        BY <1>1 DEF Rotate
      <3>2. n \in Nat /\ n > 0
        BY BoundAssumption
      <3>3. signals[Stream(e.kind)][e.owner] \in Nat
        BY EntryFields DEF TypeOK
      <3>4. e.owner = o => signals'[Stream(e.kind)][e.owner] # 0
        BY <3>1, <3>2, <3>3, EntryFields DEF TypeOK
      <3>5. e.owner # o => signals'[Stream(e.kind)][e.owner] = signals[Stream(e.kind)][e.owner]
        BY <3>1, EntryFields DEF TypeOK
      <3>6. key[e.owner] <= key'[e.owner] /\ key[e.owner] \in Nat /\ key'[e.owner] \in Nat
            /\ (e.owner # o => key'[e.owner] = key[e.owner])
        BY <2>1, EntryFields
      <3>7. EntryFresh(e) /\ floor[e] \in Nat /\ cache[e] \in Nat \cup {Empty}
        BY DEF Fresh, TypeOK
      <3>. QED BY <2>2, <3>4, <3>5, <3>6, <3>7 DEF EntryFresh, Empty
    <2>4. ASSUME NEW c \in Caller PROVE CallFresh(call[c])'
      <3>. DEFINE k == call[c]
      <3>1. k.entry \in Entry /\ k.got \in Nat \cup {Empty} /\ CallFresh(k)
        BY <1>t, <1>f DEF CallType
      <3>2. key[k.entry.owner] <= key'[k.entry.owner]
            /\ key[k.entry.owner] \in Nat /\ key'[k.entry.owner] \in Nat
        BY <2>1, <3>1, EntryFields
      <3>3. k' = k
        BY <2>2
      <3>. HIDE DEF k
      <3>4. CallFresh(k)'
        BY <2>2, <3>1, <3>2, <3>3 DEF CallFresh, Empty
      <3>. QED BY <3>4 DEF k
    <2>. QED BY <2>3, <2>4 DEF Fresh
  <1>2. ASSUME Publish PROVE Fresh'
    BY <1>2 DEF Publish, Fresh, EntryFresh, CallFresh
  <1>3. ASSUME NEW s \in Streams, NEW o \in Owner, Signal(s, o) PROVE Fresh'
    <2>1. Invalidate(s, o) /\ UNCHANGED <<key, call>>
          /\ signals' = [signals EXCEPT ![s][o] = @ - 1]
      BY <1>3 DEF Signal
    <2>2. ASSUME NEW e \in Entry PROVE EntryFresh(e)'
      <3>1. EntryFresh(e) /\ floor[e] \in Nat /\ cache[e] \in Nat \cup {Empty}
            /\ key[e.owner] \in Nat
        BY EntryFields DEF Fresh, TypeOK
      <3>2. CASE e \in Dropped(s, o)
        BY <2>1, <3>1, <3>2 DEF EntryFresh, Invalidate, Empty, NoKey
      <3>3. CASE e \notin Dropped(s, o)
        <4>1. ~ (Stream(e.kind) = s /\ e.owner = o)
          BY <3>3 DEF Dropped, Stream
        <4>2. signals'[Stream(e.kind)][e.owner] = signals[Stream(e.kind)][e.owner]
          BY <2>1, <4>1, EntryFields DEF TypeOK
        <4>. QED BY <2>1, <3>1, <3>3, <4>2 DEF EntryFresh, Invalidate
      <3>. QED BY <3>2, <3>3
    <2>3. ASSUME NEW c \in Caller PROVE CallFresh(call[c])'
      <3>1. call[c] \in CallType /\ CallFresh(call[c])
        BY <1>t, <1>f
      <3>2. \A k \in CallType : CallFresh(k) => CallFresh(k)'
        BY <2>1, InvalidateFresh
      <3>3. \A k : k = call[c] => CallFresh(k)'
        BY <3>1, <3>2
      <3>. QED BY <2>1, <3>3 DEF CallFresh
    <2>. QED BY <2>2, <2>3 DEF Fresh
  <1>4. ASSUME NEW c \in Caller, NEW e \in Entry, NEW start \in BOOLEAN, Begin(c, e, start)
        PROVE  Fresh'
    <2>. DEFINE k == NewCall(IF start THEN "publish" ELSE "lookup", e, start)
    <2>1. k.since = floor[k.entry] /\ k.got = Empty /\ k.pc \in {"publish", "lookup"}
          /\ (k.pc = "publish" => k.starts) /\ (k.starts => k.entry.kind = "code")
      BY <1>4 DEF NewCall, Begin
    <2>2. floor[k.entry] \in Nat
      BY DEF NewCall, TypeOK
    <2>3. CallFresh(k)
      BY <2>1, <2>2 DEF CallFresh
    <2>. QED BY <1>4, <1>t, <2>3, LocalStep DEF Begin
  <1>5. ASSUME NEW c \in Caller, Step(c) PROVE Fresh'
    <2>. DEFINE k == call[c]
    <2>1. /\ k \in CallType /\ CallFresh(k) /\ EntryFresh(k.entry)
          /\ k.entry \in Entry /\ k.got \in Nat \cup {Empty}
          /\ k.snap \in Nat /\ k.since \in Nat
      BY <1>t, <1>f, CallFields DEF Fresh
    <2>2. /\ key[k.entry.owner] \in Nat /\ gen[k.entry] \in Nat /\ floor[k.entry] \in Nat
          /\ cache[k.entry] \in Nat \cup {Empty}
      BY <2>1, EntryFields DEF TypeOK
    <2>3. ASSUME Return(c), UNCHANGED <<server, cache, gen, floor>> PROVE Fresh'
      BY <1>t, <2>3, NoCallFresh, LocalStep DEF Return
    <2>4. CASE Hit(c)
      <3>1. CASE k.starts
        <4>. DEFINE r == [k EXCEPT !.got = cache[k.entry], !.pc = "post"]
        <4>1. call' = [call EXCEPT ![c] = r]
          BY <1>t, <2>4, <3>1 DEF Hit, Use
        <4>2. /\ r.entry = k.entry /\ r.starts = k.starts /\ r.since = k.since /\ r.got = cache[k.entry]
              /\ r.pc = "post"
          BY <2>1 DEF CallType
        <4>3. CallFresh(r)
          BY <2>1, <2>2, <2>4, <3>1, <4>2 DEF CallFresh, EntryFresh, Hit
        <4>. QED BY <1>t, <2>4, <4>1, <4>3, LocalStep DEF Hit
      <3>. QED BY <2>3, <2>4, <3>1 DEF Hit, Use
    <2>5. CASE Miss(c)
      <3>. DEFINE r == [k EXCEPT !.snap = gen[k.entry], !.pc = "fetch"]
      <3>1. call' = [call EXCEPT ![c] = r]
        BY <1>t, <2>5 DEF Miss
      <3>2. /\ r.entry = k.entry /\ r.starts = k.starts /\ r.since = k.since /\ r.got = k.got
            /\ r.pc = "fetch" /\ r.snap = gen[k.entry]
        BY <2>1 DEF CallType
      <3>3. CallFresh(r)
        BY <2>1, <2>2, <3>2 DEF CallFresh
      <3>. QED BY <1>t, <2>5, <3>1, <3>3, LocalStep DEF Miss
    <2>6. CASE Fetch(c)
      <3>. DEFINE v == key[k.entry.owner]
                  r == [k EXCEPT !.got = v, !.pc = "store"]
      <3>1. CASE v = NoKey /\ k.entry.kind \notin KeepsAbsence
        BY <2>3, <2>6, <3>1 DEF Fetch
      <3>2. CASE ~ (v = NoKey /\ k.entry.kind \notin KeepsAbsence)
        <4>1. call' = [call EXCEPT ![c] = r]
          BY <1>t, <2>6, <3>2 DEF Fetch
        <4>2. /\ r.entry = k.entry /\ r.starts = k.starts /\ r.since = k.since /\ r.got = v
              /\ r.pc = "store" /\ r.snap = k.snap
          BY <2>1 DEF CallType
        <4>3. v # Empty /\ floor[k.entry] <= v /\ k.since <= v /\ k.snap <= gen[k.entry]
          BY <2>1, <2>2, <2>6 DEF CallFresh, EntryFresh, Fetch, Empty
        <4>4. CallFresh(r)
          BY <2>1, <2>2, <3>2, <4>2, <4>3 DEF CallFresh
        <4>. QED BY <1>t, <2>6, <4>1, <4>4, LocalStep DEF Fetch
      <3>. QED BY <3>1, <3>2
    <2>7. CASE Store(c)
      <3>1. UNCHANGED <<server, gen, floor>> /\ k.pc = "store"
        BY <2>7 DEF Store
      <3>2. ASSUME NEW e \in Entry PROVE EntryFresh(e)'
        <4>1. EntryFresh(e)
          BY DEF Fresh
        <4>2. CASE cache'[e] = cache[e]
          BY <3>1, <4>1, <4>2 DEF EntryFresh, server
        <4>3. CASE e = k.entry /\ gen[k.entry] = k.snap /\ cache'[e] = k.got
          BY <2>1, <3>1, <4>1, <4>3 DEF EntryFresh, CallFresh, server
        <4>. QED BY <2>1, <2>7, <4>2, <4>3 DEF Store, TypeOK
      <3>3. PICK r : call' = [call EXCEPT ![c] = r] /\ CallFresh(r)
        <4>1. CASE k.starts
          <5>. DEFINE q == [k EXCEPT !.got = k.got, !.pc = "post"]
          <5>1. call' = [call EXCEPT ![c] = q]
            BY <1>t, <2>7, <4>1 DEF Store, Use
          <5>2. q.entry = k.entry /\ q.starts = k.starts /\ q.since = k.since /\ q.got = k.got /\ q.pc = "post"
            BY <2>1 DEF CallType
          <5>3. CallFresh(q)
            BY <2>1, <4>1, <5>2 DEF CallFresh
          <5>. QED BY <5>1, <5>3
        <4>. QED BY <2>7, <4>1, NoCallFresh DEF Store, Use, Return
      <3>4. ASSUME NEW d \in Caller PROVE CallFresh(call[d])'
        BY <1>t, <1>f, <3>1, <3>3 DEF CallFresh, server
      <3>. QED BY <3>2, <3>4 DEF Fresh
    <2>8. CASE Fail(c)
      BY <2>3, <2>8 DEF Fail
    <2>9. CASE ReadFlow(c)
      <3>. DEFINE r == [k EXCEPT !.pinned = flow, !.got = Empty,
                                 !.pc = IF flow \in Tagged THEN "lookup" ELSE "post"]
      <3>1. call' = [call EXCEPT ![c] = r]
        BY <1>t, <2>9 DEF ReadFlow
      <3>2. /\ r.entry = k.entry /\ r.starts = k.starts /\ r.since = k.since /\ r.got = Empty
            /\ r.pc \in {"lookup", "post"}
        BY <2>1 DEF CallType
      <3>3. CallFresh(r)
        BY <2>1, <2>9, <3>2 DEF CallFresh, ReadFlow
      <3>. QED BY <1>t, <2>9, <3>1, <3>3, LocalStep DEF ReadFlow
    <2>10. CASE Post(c)
      <3>. DEFINE a == IF k.pinned # flow THEN "version_changed"
                       ELSE IF k.got \notin {Empty, key[k.entry.owner]}
                       THEN "tag_values_stale" ELSE "created"
                  r == [k EXCEPT !.pc = "answered", !.answer = a]
      <3>1. call' = [call EXCEPT ![c] = r]
        BY <1>t, <2>10 DEF Post
      <3>2. /\ r.entry = k.entry /\ r.starts = k.starts /\ r.since = k.since /\ r.got = k.got
            /\ r.pc = "answered" /\ r.answer = a
        BY <2>1 DEF CallType
      <3>3. a = "tag_values_stale" => k.got # Empty /\ k.got < key[k.entry.owner]
        BY <2>1, <2>2 DEF CallFresh, Empty
      <3>4. CallFresh(r)
        BY <2>1, <2>10, <3>2, <3>3 DEF CallFresh, Post
      <3>. QED BY <1>t, <2>10, <3>1, <3>4, LocalStep DEF Post
    <2>11. CASE RetryVersion(c)
      <3>. DEFINE r == [k EXCEPT !.retried = k.retried \cup {"version"}, !.pc = "publish"]
      <3>1. call' = [call EXCEPT ![c] = r]
        BY <1>t, <2>11 DEF RetryVersion
      <3>2. r.entry = k.entry /\ r.starts = k.starts /\ r.since = k.since /\ r.got = k.got /\ r.pc = "publish"
        BY <2>1 DEF CallType
      <3>3. CallFresh(r)
        BY <2>1, <2>11, <3>2 DEF CallFresh, RetryVersion, Refused
      <3>. QED BY <1>t, <2>11, <3>1, <3>3, LocalStep DEF RetryVersion
    <2>12. CASE RetryStale(c)
      <3>. DEFINE o == k.entry.owner
                  r == [k EXCEPT !.retried = k.retried \cup {"stale"}, !.pc = "lookup",
                                 !.got = Empty, !.since = key[o]]
      <3>1. Invalidate("code", o) /\ UNCHANGED <<key, flow, signals>> /\ k.pc = "answered"
        BY <2>12 DEF RetryStale, Refused, server
      <3>2. call' = [call EXCEPT ![c] = r]
        BY <1>t, <2>12 DEF RetryStale
      <3>3. ASSUME NEW e \in Entry PROVE EntryFresh(e)'
        <4>1. EntryFresh(e) /\ floor[e] \in Nat /\ cache[e] \in Nat \cup {Empty}
              /\ key[e.owner] \in Nat
          BY EntryFields DEF Fresh, TypeOK
        <4>2. CASE e \in Dropped("code", o)
          BY <3>1, <4>1, <4>2 DEF EntryFresh, Invalidate, Empty, NoKey
        <4>3. CASE e \notin Dropped("code", o)
          BY <3>1, <4>1, <4>3 DEF EntryFresh, Invalidate
        <4>. QED BY <4>2, <4>3
      <3>4. ASSUME NEW q, q = r PROVE CallFresh(q)'
        <4>1. /\ r.entry = k.entry /\ r.starts = k.starts /\ r.since = key[o]
              /\ r.got = Empty /\ r.pc = "lookup"
          BY <2>1 DEF CallType
        <4>2. k.entry \in Dropped("code", o)
          BY <2>1, <3>1 DEF CallFresh, Dropped
        <4>3. floor'[k.entry] = key[o]
          BY <2>1, <3>1, <4>2 DEF Invalidate
        <4>4. key[o] <= floor'[k.entry]
          BY <2>2, <4>3
        <4>5. q.entry = k.entry /\ q.starts = k.starts /\ q.since = key[o]
              /\ q.got = Empty /\ q.pc = "lookup"
          BY <3>4, <4>1
        <4>. QED BY <2>1, <4>4, <4>5 DEF CallFresh
      <3>5. ASSUME NEW d \in Caller PROVE CallFresh(call[d])'
        <4>1. CASE d = c
          <5>1. call'[d] = r
            BY <1>t, <3>2, <4>1
          <5>. QED BY <3>4, <5>1 DEF CallFresh
        <4>2. CASE d # c
          <5>1. call[d] \in CallType /\ CallFresh(call[d])
            BY <1>t, <1>f
          <5>2. \A q \in CallType : CallFresh(q) => CallFresh(q)'
            BY <3>1, InvalidateFresh
          <5>3. \A q : q = call[d] => CallFresh(q)'
            BY <5>1, <5>2
          <5>4. call'[d] = call[d]
            BY <1>t, <3>2, <4>2
          <5>. QED BY <5>3, <5>4 DEF CallFresh
        <4>. QED BY <4>1, <4>2
      <3>. QED BY <3>3, <3>5 DEF Fresh
    <2>13. CASE ReturnAnswer(c)
      BY <2>3, <2>13 DEF ReturnAnswer
    <2>. QED BY <1>5, <2>4, <2>5, <2>6, <2>7, <2>8, <2>9, <2>10, <2>11, <2>12, <2>13 DEF Step
  <1>6. CASE UNCHANGED vars
    BY <1>6 DEF vars, server, Fresh, EntryFresh, CallFresh
  <1>. QED BY <1>1, <1>2, <1>3, <1>4, <1>5, <1>6 DEF Next

\* The inductive invariant holds throughout.
THEOREM FreshInvariant == Spec => [](TypeOK /\ Fresh)
  <1>1. Init => TypeOK /\ Fresh
    <2>. SUFFICES ASSUME Init, TypeOK PROVE Fresh
      BY InitType
    <2>1. ASSUME NEW e \in Entry PROVE EntryFresh(e)
      BY <2>1, EntryFields DEF Init, EntryFresh, Empty, NoKey
    <2>2. ASSUME NEW c \in Caller PROVE CallFresh(call[c])
      BY NoCallFresh DEF Init
    <2>. QED BY <2>1, <2>2 DEF Fresh
  <1>2. TypeOK /\ TypeOK' /\ Fresh /\ [Next]_vars => Fresh'
    BY FreshInductive
  <1>3. Spec => []TypeOK
    BY TypeCorrect
  <1>. QED BY <1>1, <1>2, <1>3, PTL DEF Spec

-----------------------------------------------------------------------------
(* What follows from it.                                                   *)

\* A key dropped by a rotation signal never comes back, whatever was in flight.
THEOREM Dominates == Spec => []InvalidationDominates
  <1>1. TypeOK /\ Fresh => InvalidationDominates
    BY DEF Fresh, EntryFresh, InvalidationDominates
  <1>. QED BY <1>1, FreshInvariant, PTL

\* With no signal outstanding a cache holds the current key or nothing.
THEOREM Current == Spec => []QuietCacheIsCurrent
  <1>1. TypeOK /\ Fresh => QuietCacheIsCurrent
    <2>. SUFFICES ASSUME TypeOK, Fresh, NEW e \in Entry,
                         signals[Stream(e.kind)][e.owner] = 0, cache[e] # Empty
                  PROVE  cache[e] = key[e.owner]
      BY DEF QuietCacheIsCurrent
    <2>1. cache[e] \in Nat /\ key[e.owner] \in Nat
      BY EntryFields DEF TypeOK
    <2>. QED BY <2>1 DEF Fresh, EntryFresh
  <1>. QED BY <1>1, FreshInvariant, PTL

\* No caller is handed a key that was dropped before its call began.
THEOREM HandedOut == Spec => []HandedOutIsFresh
  <1>1. TypeOK /\ Fresh => HandedOutIsFresh
    BY DEF Fresh, CallFresh, HandedOutIsFresh
  <1>. QED BY <1>1, FreshInvariant, PTL

\* A second tag_values_stale means a second rotation.
THEOREM StaleTwice == Spec => []StaleTwiceMeansRotatedTwice
  <1>1. TypeOK /\ Fresh => StaleTwiceMeansRotatedTwice
    <2>. SUFFICES ASSUME TypeOK, Fresh, NEW c \in Caller, call[c].pc = "answered",
                         call[c].answer = "tag_values_stale"
                  PROVE  key[call[c].entry.owner] > call[c].since
      BY DEF StaleTwiceMeansRotatedTwice
    <2>1. call[c] \in CallType /\ CallFresh(call[c])
      BY DEF TypeOK, Fresh
    <2>2. call[c].got \in Nat \cup {Empty} /\ call[c].since \in Nat
          /\ key[call[c].entry.owner] \in Nat
      BY <2>1, CallFields, EntryFields DEF TypeOK
    <2>. QED BY <2>1, <2>2 DEF CallFresh, Empty
  <1>. QED BY <1>1, FreshInvariant, PTL

=============================================================================
