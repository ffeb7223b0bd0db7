----------------------------- MODULE PumpProofs -----------------------------
(***************************************************************************)
(* Proofs about the changes pump, for any set of workers on one cache_dir, *)
(* any events, any options and any number of crashes.                      *)
(***************************************************************************)
EXTENDS Pump, TLAPS

\* The platform gives every event an id of its own, and sanitizeID keeps two of
\* them apart (a UUID is left as it is).
IdsAreDistinct == \A d, e \in Event : Id[d] = Id[e] => d = e

-----------------------------------------------------------------------------
(* An attempt that fails.                                                  *)

Failing(w) ==
    /\ pc[w] = "try"
    /\ \/ Opens(w) /\ UNCHANGED outages
       \/ outages < MaxOutages /\ outages' = outages + 1
    /\ UNCHANGED <<feed, deleted, disk, history>>

FailsAndRetries(w) == Failing(w) /\ Retries(w)
FailsForGood(w) == Failing(w) /\ Exhausts(w)

\* A handler or a lookup that fails is tried again, or was tried for the last time.
LEMMA AttemptFails ==
    ASSUME NEW w \in Worker, HandlerFails(w) \/ LookupFails(w)
    PROVE  FailsAndRetries(w) \/ FailsForGood(w)
  BY DEF HandlerFails, LookupFails, FailsAndRetries, FailsForGood, Failing, server

-----------------------------------------------------------------------------
(* Facts about the file operators.                                         *)

\* withDefaults always yields a batch size and a retry budget in range.
LEMMA DefaultsInRange ==
    ASSUME NEW o \in RequestType
    PROVE  /\ withDefaults(o).maxRetries \in Nat
           /\ withDefaults(o).batchSize \in 1..MaxBatch
  <1>1. \A n \in Int : clampBatch(n) \in 1..MaxBatch
    BY DEF clampBatch, MaxBatch
  <1>2. o.batchSize \in Int /\ o.maxRetries \in Int
    BY DEF RequestType
  <1>3. (IF o.batchSize = 0 THEN DefaultBatch ELSE o.batchSize) \in Int
    BY <1>2 DEF DefaultBatch
  <1>4. withDefaults(o).maxRetries \in Nat
    BY <1>2 DEF withDefaults
  <1>5. withDefaults(o).batchSize \in 1..MaxBatch
    BY <1>1, <1>3 DEF withDefaults
  <1>. QED BY <1>4, <1>5

\* Writing a file keeps every other event's file: with distinct ids only a file
\* of the same event is replaced.
LEMMA PutEvents ==
    ASSUME IdsAreDistinct, NEW dir, Events(dir) \subseteq Event,
           NEW f, f.ev \in Event
    PROVE  Events(Put(dir, f)) = Events(dir) \cup {f.ev}
  <1>1. ASSUME NEW g \in dir
        PROVE  g.ev \in Events(Put(dir, f))
    <2>1. CASE SameName(f, g)
      BY <2>1 DEF IdsAreDistinct, SameName, Events, Put
    <2>2. CASE ~ SameName(f, g)
      BY <2>2 DEF Events, Put
    <2>. QED BY <2>1, <2>2
  <1>2. f.ev \in Events(Put(dir, f))
    BY DEF Events, Put
  <1>3. Events(Put(dir, f)) \subseteq Events(dir) \cup {f.ev}
    BY DEF Events, Put
  <1>. QED BY <1>1, <1>2, <1>3 DEF Events

\* A file found by the sanitized id of an event is a file of that event.
LEMMA FindEvent ==
    ASSUME IdsAreDistinct, NEW dir, Events(dir) \subseteq Event,
           NEW f, f.ev \in Event, NEW g \in Find(dir, f)
    PROVE  g \in dir /\ g.ev = f.ev
  BY DEF IdsAreDistinct, Find, Events

\* Removing a file takes no event but its own off the directory.
LEMMA RemoveEvents ==
    ASSUME NEW dir, NEW f
    PROVE  /\ Events(dir) \subseteq Events(dir \ {f}) \cup {f.ev}
           /\ Events(dir \ {f}) \subseteq Events(dir)
  BY DEF Events

-----------------------------------------------------------------------------
(* Type correctness.                                                       *)

\* Losing what a worker holds in memory keeps the type of it.
LEMMA StopType ==
    ASSUME TypeOK, NEW w \in Worker, Stop(w)
    PROVE  /\ pc' \in [Worker -> Labels]
           /\ call' \in [Worker -> {"process", "redrive"}]
           /\ request' \in [Worker -> Requests]
           /\ batch' \in [Worker -> SUBSET Event]
           /\ next' \in [Worker -> Nat]
           /\ todo' \in [Worker -> SUBSET File]
           /\ cur' \in [Worker -> File]
           /\ attempts' \in [Worker -> Nat]
           /\ found' \in [Worker -> File]
  BY DEF TypeOK, Stop, Goto, Labels, NoFile, File

\* Every variable keeps its type, in every interleaving and after any crash.
THEOREM TypeCorrect == Spec => []TypeOK
  <1>. USE EventAssumption, RequestAssumption, MaxCrashesAssumption
  <1>1. Init => TypeOK
    BY MaxOutagesAssumption DEF Init, TypeOK, File, NoFile, NoSeq, Labels
  <1>2. TypeOK /\ [Next]_vars => TypeOK'
    <2>. SUFFICES ASSUME TypeOK, [Next]_vars
                  PROVE  TypeOK'
      OBVIOUS
    <2>. USE MaxOutagesAssumption DEF TypeOK, Labels, Goto, server, disk, local, history
    <2>1. ASSUME NEW e \in Event, Publish(e) PROVE TypeOK'
      BY <2>1 DEF Publish
    <2>2. ASSUME NEW w \in Worker, NEW o \in Requests,
                 NEW c \in {"process", "redrive"}, Start(w, c, o)
          PROVE  TypeOK'
      <3>1. call' \in [Worker -> {"process", "redrive"}]
        BY <2>2 DEF Start
      <3>2. request' \in [Worker -> Requests]
        BY <2>2 DEF Start
      <3>3. pc' \in [Worker -> Labels]
        BY <2>2 DEF Start
      <3>. QED BY <2>2, <3>1, <3>2, <3>3 DEF Start
    <2>3. ASSUME NEW w \in Worker, NEW n, DrainBatch(w, n) PROVE TypeOK'
      BY <2>3 DEF DrainBatch, Drains
    <2>4. ASSUME NEW w \in Worker, Crash(w) PROVE TypeOK'
      BY <2>4, StopType DEF Crash
    <2>5. ASSUME NEW w \in Worker, Deliver(w) PROVE TypeOK'
      <3>1. CASE NextEvent(w)
        BY <3>1 DEF NextEvent, Oldest
      <3>2. CASE HandlerSucceeds(w)
        <4>1. cur[w].ev \in Nat
          BY DEF File
        <4>2. handled' \subseteq Nat
          BY <3>2, <4>1 DEF HandlerSucceeds
        <4>3. attempts' \in [Worker -> Nat] /\ pc' \in [Worker -> Labels]
          BY <3>2 DEF HandlerSucceeds
        <4>. QED BY <3>2, <4>2, <4>3 DEF HandlerSucceeds
      <3>3. CASE FailsAndRetries(w)
        BY <3>3 DEF FailsAndRetries, Failing, Retries
      <3>4. CASE FailsForGood(w)
        <4>1. CASE Stop(w)
          BY <3>4, <4>1, StopType DEF FailsForGood, Failing, Exhausts
        <4>2. CASE ~ Stop(w)
          BY <3>4, <4>2 DEF FailsForGood, Failing, Exhausts, GiveUp
        <4>. QED BY <4>1, <4>2
      <3>5. CASE DecryptFails(w)
        <4>1. CASE Stop(w)
          BY <3>5, <4>1, StopType DEF DecryptFails
        <4>2. CASE ~ Stop(w)
          BY <3>5, <4>2 DEF DecryptFails, GiveUp
        <4>. QED BY <4>1, <4>2
      <3>. QED BY <2>5, <3>1, <3>2, <3>3, <3>4, <3>5, AttemptFails DEF Deliver
    <2>6. ASSUME NEW w \in Worker, ProcessStep(w) PROVE TypeOK'
      <3>1. CASE ListPending(w)
        BY <3>1 DEF ListPending
      <3>2. CASE Fetch(w)
        <4>1. PICK S \in SUBSET feed :
                /\ feed' = feed \ S
                /\ deleted' = deleted \cup S
                /\ \/ Stop(w)
                   \/ /\ batch' = [batch EXCEPT ![w] = S]
                      /\ Goto(w, "seq")
                      /\ UNCHANGED <<call, request, next, todo, cur, attempts, found>>
          BY <3>2 DEF Fetch, Drains
        <4>2. CASE Stop(w)
          BY <3>2, <4>1, <4>2, StopType DEF Fetch
        <4>3. CASE ~ Stop(w)
          BY <3>2, <4>1, <4>3 DEF Fetch
        <4>. QED BY <4>2, <4>3
      <3>3. CASE ReadSeq(w)
        BY <3>3 DEF ReadSeq, File, NoSeq
      <3>4. CASE WriteSeq(w)
        BY <3>4 DEF WriteSeq
      <3>5. CASE WriteEvent(w)
        BY <3>5 DEF WriteEvent, Put, File
      <3>6. CASE Relist(w)
        BY <3>6 DEF Relist
      <3>7. CASE NextCycle(w)
        BY <3>7 DEF NextCycle
      <3>8. CASE Ack(w)
        BY <3>8 DEF Ack
      <3>9. CASE DeadLetterRead(w)
        BY <3>9 DEF DeadLetterRead, Find
      <3>10. CASE DeadLetterWrite(w)
        BY <3>10 DEF DeadLetterWrite, Put, File
      <3>11. CASE DeadLetterUnlink(w)
        BY <3>11 DEF DeadLetterUnlink
      <3>. QED BY <2>6, <3>1, <3>2, <3>3, <3>4, <3>5, <3>6, <3>7, <3>8, <3>9,
                  <3>10, <3>11 DEF ProcessStep
    <2>7. ASSUME NEW w \in Worker, RedriveStep(w) PROVE TypeOK'
      <3>1. CASE ListDead(w)
        BY <3>1 DEF ListDead
      <3>2. CASE RedriveReturns(w)
        BY <3>2, StopType DEF RedriveReturns
      <3>3. CASE RemoveDeadLetter(w)
        BY <3>3 DEF RemoveDeadLetter
      <3>4. CASE UpdateRead(w)
        BY <3>4 DEF UpdateRead, Find
      <3>5. CASE UpdateWrite(w)
        <4>1. [found[w] EXCEPT !.attempts =
                 IF attempts[w] > @ THEN attempts[w] ELSE @] \in File
          BY DEF File
        <4>. QED BY <3>5, <4>1 DEF UpdateWrite, Put
      <3>. QED BY <2>7, <3>1, <3>2, <3>3, <3>4, <3>5 DEF RedriveStep
    <2>8. CASE UNCHANGED vars
      BY <2>8 DEF vars
    <2>. QED BY <2>1, <2>2, <2>3, <2>4, <2>5, <2>6, <2>7, <2>8
             DEF Next, Step, ProcessChanges, RetryDeadLetters
  <1>. QED BY <1>1, <1>2, PTL DEF Spec

-----------------------------------------------------------------------------
(* Custody: what is on disk, what a worker holds, what was handled.        *)

\* A worker that stops drops nothing that Custody relies on.
LEMMA CustodyAfterStop ==
    ASSUME TypeOK, Custody, NEW w \in Worker, Stop(w),
           UNCHANGED <<pending, dead, handled, buffered>>, deleted \subseteq deleted'
    PROVE  Custody'
  BY DEF TypeOK, Custody, OnDisk, Events, Stop, Goto, Labels

\* Steps that touch neither the files nor the histories, and give the worker
\* nothing to hold that is not in custody, keep Custody.
LEMMA CustodyOfLocalStep ==
    ASSUME TypeOK, Custody, NEW w \in Worker, NEW label,
           Goto(w, label), pc[w] # label,
           UNCHANGED <<pending, dead, handled, buffered, deleted, batch, todo, cur, found>>,
           label \in {"list", "next", "seqwrite", "write", "seq", "idle"}
    PROVE  Custody'
  BY DEF TypeOK, Custody, OnDisk, Events, Goto, Labels

\* Custody is kept by every step of every worker, if ids are distinct.
LEMMA CustodyInductive ==
    ASSUME IdsAreDistinct, TypeOK, Custody, [Next]_vars
    PROVE  Custody'
  <1>. USE EventAssumption DEF Goto, server, disk, local, history
  <1>t. Events(pending) \subseteq Event /\ Events(dead) \subseteq Event
    BY DEF Custody, OnDisk, TypeOK
  <1>1. ASSUME NEW e \in Event, Publish(e) PROVE Custody'
    BY <1>1 DEF Publish, Custody, OnDisk, Events
  <1>2. ASSUME NEW w \in Worker, NEW o \in Requests,
               NEW c \in {"process", "redrive"}, Start(w, c, o)
        PROVE  Custody'
    BY <1>2, CustodyOfLocalStep DEF Start
  <1>3. ASSUME NEW w \in Worker, NEW n, DrainBatch(w, n) PROVE Custody'
    BY <1>3 DEF DrainBatch, Custody, OnDisk, Events
  <1>4. ASSUME NEW w \in Worker, Crash(w) PROVE Custody'
    BY <1>4, CustodyAfterStop DEF Crash
  <1>5. ASSUME NEW w \in Worker, Deliver(w) PROVE Custody'
    <2>1. CASE NextEvent(w)
      BY <2>1 DEF NextEvent, Oldest, TypeOK, Custody, OnDisk, Events
    <2>2. CASE HandlerSucceeds(w)
      BY <2>2 DEF HandlerSucceeds, TypeOK, Custody, OnDisk, Events
    <2>3. CASE FailsAndRetries(w)
      BY <2>3 DEF FailsAndRetries, Failing, Retries, Custody, OnDisk, Events
    <2>4. CASE FailsForGood(w) \/ DecryptFails(w)
      <3>1. CASE Stop(w)
        BY <2>4, <3>1, CustodyAfterStop DEF FailsForGood, Failing, Exhausts, DecryptFails
      <3>2. CASE ~ Stop(w)
        BY <2>4, <3>2 DEF FailsForGood, Failing, Exhausts, DecryptFails, GiveUp, TypeOK,
                          Custody, OnDisk, Events
      <3>. QED BY <3>1, <3>2
    <2>. QED BY <1>5, <2>1, <2>2, <2>3, <2>4, AttemptFails DEF Deliver
  <1>6. ASSUME NEW w \in Worker, ProcessStep(w) PROVE Custody'
    <2>1. CASE ListPending(w) \/ Relist(w)
      BY <2>1 DEF ListPending, Relist, TypeOK, Custody, OnDisk, Events
    <2>2. CASE Fetch(w)
      <3>1. PICK S \in SUBSET feed :
              /\ deleted' = deleted \cup S
              /\ \/ Stop(w)
                 \/ /\ batch' = [batch EXCEPT ![w] = S]
                    /\ Goto(w, "seq")
                    /\ UNCHANGED <<todo, cur, found>>
        BY <2>2 DEF Fetch, Drains
      <3>2. CASE Stop(w)
        BY <2>2, <3>1, <3>2, CustodyAfterStop DEF Fetch
      <3>3. CASE ~ Stop(w)
        BY <2>2, <3>1, <3>3 DEF Fetch, TypeOK, Custody, OnDisk, Events
      <3>. QED BY <3>2, <3>3
    <2>3. CASE ReadSeq(w)
      BY <2>3, CustodyOfLocalStep DEF ReadSeq
    <2>4. CASE WriteSeq(w)
      BY <2>4, CustodyOfLocalStep DEF WriteSeq
    <2>5. CASE WriteEvent(w)
      <3>1. PICK e \in batch[w] :
              /\ pending' = Put(pending, [seq |-> next[w], ev |-> e, attempts |-> 0])
              /\ buffered' = buffered \cup {e}
              /\ batch' = [batch EXCEPT ![w] = @ \ {e}]
              /\ Goto(w, IF batch[w] = {e} THEN "relist" ELSE "seq")
        BY <2>5 DEF WriteEvent
      <3>2. Events(pending') = Events(pending) \cup {e}
        BY <1>t, <3>1, PutEvents DEF TypeOK
      <3>3. OnDisk' = OnDisk \cup {e}
        BY <2>5, <3>2 DEF WriteEvent, OnDisk
      <3>. QED BY <2>5, <3>1, <3>3 DEF WriteEvent, TypeOK, Custody, Events
    <2>6. CASE NextCycle(w)
      BY <2>6, CustodyOfLocalStep DEF NextCycle
    <2>7. CASE Ack(w)
      <3>1. cur[w].ev \in Event /\ cur[w].ev \in handled
        BY <2>7 DEF Ack, Custody, TypeOK
      <3>2. Events(pending) \subseteq Events(pending') \cup {cur[w].ev}
        BY <1>t, <2>7, <3>1, FindEvent, RemoveEvents DEF Ack
      <3>3. Events(pending') \subseteq Events(pending)
        BY <2>7, RemoveEvents DEF Ack
      <3>. QED BY <2>7, <3>1, <3>2, <3>3 DEF Ack, TypeOK, Custody, OnDisk
    <2>8. CASE DeadLetterRead(w)
      <3>1. cur[w].ev \in Event
        BY <2>8 DEF DeadLetterRead, GivenUp, Custody, TypeOK
      <3>2. \A f \in Find(pending, cur[w]) : f.ev \in buffered
        BY <1>t, <3>1, FindEvent DEF Custody, OnDisk, Events
      <3>. QED BY <2>8, <3>2 DEF DeadLetterRead, GivenUp, TypeOK, Custody, OnDisk, Events
    <2>9. CASE DeadLetterWrite(w)
      <3>. DEFINE f == [found[w] EXCEPT !.attempts = attempts[w]]
      <3>1. f.ev = found[w].ev /\ found[w].ev \in buffered /\ found[w].ev \in Event
        BY <2>9 DEF DeadLetterWrite, Custody, TypeOK, File
      <3>2. Events(dead') = Events(dead) \cup {found[w].ev}
        BY <1>t, <2>9, <3>1, PutEvents DEF DeadLetterWrite
      <3>. QED BY <2>9, <3>1, <3>2 DEF DeadLetterWrite, TypeOK, Custody, OnDisk
    <2>10. CASE DeadLetterUnlink(w)
      <3>1. found[w].ev \in Event /\ found[w].ev \in Events(dead) \cup handled
        BY <2>10 DEF DeadLetterUnlink, Custody, TypeOK
      <3>2. Events(pending) \subseteq Events(pending') \cup {found[w].ev}
        BY <1>t, <2>10, <3>1 DEF DeadLetterUnlink, IdsAreDistinct, SameName, Events
      <3>3. Events(pending') \subseteq Events(pending)
        BY <2>10 DEF DeadLetterUnlink, Events
      <3>. QED BY <2>10, <3>1, <3>2, <3>3 DEF DeadLetterUnlink, TypeOK, Custody, OnDisk
    <2>. QED BY <1>6, <2>1, <2>2, <2>3, <2>4, <2>5, <2>6, <2>7, <2>8, <2>9, <2>10
             DEF ProcessStep
  <1>7. ASSUME NEW w \in Worker, RedriveStep(w) PROVE Custody'
    <2>1. CASE ListDead(w)
      BY <2>1 DEF ListDead, TypeOK, Custody, OnDisk, Events
    <2>2. CASE RedriveReturns(w)
      BY <2>2, CustodyAfterStop DEF RedriveReturns
    <2>3. CASE RemoveDeadLetter(w)
      <3>1. cur[w].ev \in Event /\ cur[w].ev \in handled
        BY <2>3 DEF RemoveDeadLetter, Custody, TypeOK
      <3>2. Events(dead) \subseteq Events(dead') \cup {cur[w].ev}
        BY <1>t, <2>3, <3>1, FindEvent, RemoveEvents DEF RemoveDeadLetter
      <3>3. Events(dead') \subseteq Events(dead)
        BY <2>3, RemoveEvents DEF RemoveDeadLetter
      <3>. QED BY <2>3, <3>1, <3>2, <3>3 DEF RemoveDeadLetter, TypeOK, Custody, OnDisk
    <2>4. CASE UpdateRead(w)
      <3>1. cur[w].ev \in Event
        BY <2>4 DEF UpdateRead, GivenUp, Custody, TypeOK
      <3>2. \A f \in Find(dead, cur[w]) : f.ev \in buffered
        BY <1>t, <3>1, FindEvent DEF Custody, OnDisk, Events
      <3>. QED BY <2>4, <3>2 DEF UpdateRead, GivenUp, TypeOK, Custody, OnDisk, Events
    <2>5. CASE UpdateWrite(w)
      <3>. DEFINE f == [found[w] EXCEPT !.attempts =
                          IF attempts[w] > @ THEN attempts[w] ELSE @]
      <3>1. f.ev = found[w].ev /\ found[w].ev \in buffered /\ found[w].ev \in Event
        BY <2>5 DEF UpdateWrite, Custody, TypeOK, File
      <3>2. Events(dead') = Events(dead) \cup {found[w].ev}
        <4>1. dead' = Put(dead, f)
          BY <2>5 DEF UpdateWrite
        <4>. HIDE DEF f
        <4>. QED BY <1>t, <3>1, <4>1, PutEvents
      <3>. QED BY <2>5, <3>1, <3>2 DEF UpdateWrite, TypeOK, Custody, OnDisk
    <2>. QED BY <1>7, <2>1, <2>2, <2>3, <2>4, <2>5 DEF RedriveStep
  <1>8. CASE UNCHANGED vars
    BY <1>8 DEF vars, Custody, OnDisk, Events
  <1>. QED BY <1>1, <1>2, <1>3, <1>4, <1>5, <1>6, <1>7, <1>8
           DEF Next, Step, ProcessChanges, RetryDeadLetters

\* What each worker holds between two file operations stays true throughout.
THEOREM CustodyInvariant ==
    ASSUME IdsAreDistinct
    PROVE  Spec => []Custody
  <1>1. Init => Custody
    BY DEF Init, Custody, OnDisk, Events, NoFile
  <1>2. TypeOK /\ Custody /\ [Next]_vars => Custody'
    BY CustodyInductive
  <1>. QED BY <1>1, <1>2, TypeCorrect, PTL DEF Spec

\* The durability guarantee of the buffer: an event whose pending file was
\* written is on disk, pending or dead-lettered, or was handled, whatever number
\* of workers, crashes and I/O errors.
THEOREM NeverLost ==
    ASSUME IdsAreDistinct
    PROVE  Spec => []BufferedIsNeverLost
  <1>1. Custody => BufferedIsNeverLost
    BY DEF Custody, BufferedIsNeverLost
  <1>. QED BY <1>1, CustodyInvariant, PTL

-----------------------------------------------------------------------------
(* The pump implements the at-least-once queue.                            *)

\* A directory change that lets go of at most one event, a handled one.
LEMMA LettingGo ==
    ASSUME NEW e \in Event, e \in handled, OnDisk \subseteq OnDisk' \cup {e},
           OnDisk' \subseteq OnDisk, UNCHANGED <<server, handled, buffered>>
    PROVE  [Queue!QNext]_(Queue!qvars)
  <1>1. CASE OnDisk' = OnDisk
    BY <1>1 DEF Queue!qvars, server
  <1>2. CASE OnDisk' # OnDisk
    <2>1. e \in OnDisk /\ OnDisk' = OnDisk \ {e}
      BY <1>2
    <2>. QED BY <2>1 DEF Queue!QNext, Queue!Release, server
  <1>. QED BY <1>1, <1>2

\* A directory change that adds at most one event, one in custody already.
LEMMA PuttingBack ==
    ASSUME Custody, NEW e \in Event, e \in buffered, OnDisk' = OnDisk \cup {e},
           UNCHANGED <<server, handled, buffered>>
    PROVE  [Queue!QNext]_(Queue!qvars)
  <1>1. CASE e \in OnDisk
    BY <1>1 DEF Queue!qvars, server
  <1>2. CASE e \notin OnDisk
    BY <1>2 DEF Custody, Queue!QNext, Queue!Reinstate, server
  <1>. QED BY <1>1, <1>2

\* The server gives up the rows a fetch returns.
LEMMA Draining ==
    ASSUME NEW n, NEW S \in Drains(n), feed' = feed \ S, deleted' = deleted \cup S,
           UNCHANGED <<pending, dead, handled, buffered>>
    PROVE  [Queue!QNext]_(Queue!qvars)
  BY DEF Drains, Queue!QNext, Queue!Take, OnDisk, Events

\* Every step of the pump is a step of the queue, or changes nothing there.
LEMMA StepSimulation ==
    ASSUME IdsAreDistinct, TypeOK, Custody, [Next]_vars
    PROVE  [Queue!QNext]_(Queue!qvars)
  <1>. USE DEF server, disk, local, history
  <1>t. Events(pending) \subseteq Event /\ Events(dead) \subseteq Event
    BY DEF Custody, OnDisk, TypeOK
  <1>u. ASSUME UNCHANGED <<feed, deleted, pending, dead, handled, buffered>>
        PROVE  [Queue!QNext]_(Queue!qvars)
    BY <1>u DEF Queue!qvars, OnDisk, Events
  <1>1. ASSUME NEW e \in Event, Publish(e) PROVE [Queue!QNext]_(Queue!qvars)
    BY <1>1 DEF Publish, Queue!QNext, Queue!Arrive, OnDisk, Events
  <1>2. ASSUME NEW w \in Worker, NEW o, NEW c, Start(w, c, o)
        PROVE  [Queue!QNext]_(Queue!qvars)
    BY <1>2, <1>u DEF Start
  <1>3. ASSUME NEW w \in Worker, NEW n, DrainBatch(w, n)
        PROVE  [Queue!QNext]_(Queue!qvars)
    BY <1>3, Draining DEF DrainBatch
  <1>4. ASSUME NEW w \in Worker, Crash(w) PROVE [Queue!QNext]_(Queue!qvars)
    BY <1>4, <1>u DEF Crash
  <1>5. ASSUME NEW w \in Worker, Deliver(w) PROVE [Queue!QNext]_(Queue!qvars)
    <2>1. CASE HandlerSucceeds(w)
      <3>1. cur[w].ev \in buffered /\ cur[w].ev \in Event
        BY <2>1 DEF HandlerSucceeds, Custody, TypeOK
      <3>. QED BY <2>1, <3>1 DEF HandlerSucceeds, Queue!QNext, Queue!Handle, OnDisk, Events
    <2>2. CASE ~ HandlerSucceeds(w)
      BY <1>5, <1>u, <2>2 DEF Deliver, NextEvent, HandlerFails,
                              LookupFails, DecryptFails
    <2>. QED BY <2>1, <2>2
  <1>6. ASSUME NEW w \in Worker, ProcessStep(w) PROVE [Queue!QNext]_(Queue!qvars)
    <2>1. CASE Fetch(w)
      BY <2>1, Draining DEF Fetch
    <2>2. CASE WriteEvent(w)
      <3>1. PICK e \in batch[w] :
              /\ pending' = Put(pending, [seq |-> next[w], ev |-> e, attempts |-> 0])
              /\ buffered' = buffered \cup {e}
        BY <2>2 DEF WriteEvent
      <3>2. e \in Event /\ e \in deleted
        BY DEF TypeOK, Custody
      <3>3. Events(pending') = Events(pending) \cup {e}
        BY <1>t, <3>1, <3>2, PutEvents
      <3>4. OnDisk' = OnDisk \cup {e}
        BY <2>2, <3>3 DEF WriteEvent, OnDisk
      <3>. QED BY <2>2, <3>1, <3>2, <3>4 DEF WriteEvent, Queue!QNext, Queue!Keep
    <2>3. CASE Ack(w)
      <3>1. cur[w].ev \in Event /\ cur[w].ev \in handled
        BY <2>3 DEF Ack, Custody, TypeOK
      <3>2. Events(pending) \subseteq Events(pending') \cup {cur[w].ev}
        BY <1>t, <2>3, <3>1, FindEvent, RemoveEvents DEF Ack
      <3>3. Events(pending') \subseteq Events(pending)
        BY <2>3, RemoveEvents DEF Ack
      <3>4. OnDisk \subseteq OnDisk' \cup {cur[w].ev} /\ OnDisk' \subseteq OnDisk
        BY <2>3, <3>2, <3>3 DEF Ack, OnDisk
      <3>. QED BY <2>3, <3>1, <3>4, LettingGo DEF Ack
    <2>4. CASE DeadLetterWrite(w)
      <3>. DEFINE f == [found[w] EXCEPT !.attempts = attempts[w]]
      <3>1. f.ev = found[w].ev /\ found[w].ev \in buffered /\ found[w].ev \in Event
        BY <2>4 DEF DeadLetterWrite, Custody, TypeOK, File
      <3>2. Events(dead') = Events(dead) \cup {found[w].ev}
        BY <1>t, <2>4, <3>1, PutEvents DEF DeadLetterWrite
      <3>3. OnDisk' = OnDisk \cup {found[w].ev}
        BY <2>4, <3>2 DEF DeadLetterWrite, OnDisk
      <3>. QED BY <2>4, <3>1, <3>3, PuttingBack DEF DeadLetterWrite
    <2>5. CASE DeadLetterUnlink(w)
      <3>1. found[w].ev \in Event /\ found[w].ev \in Events(dead) \cup handled
        BY <2>5 DEF DeadLetterUnlink, Custody, TypeOK
      <3>2. Events(pending) \subseteq Events(pending') \cup {found[w].ev}
        BY <1>t, <2>5, <3>1 DEF DeadLetterUnlink, IdsAreDistinct, SameName, Events
      <3>3. Events(pending') \subseteq Events(pending) /\ dead' = dead
        BY <2>5 DEF DeadLetterUnlink, Events
      <3>4. OnDisk \subseteq OnDisk' \cup {found[w].ev} /\ OnDisk' \subseteq OnDisk
        BY <3>2, <3>3 DEF OnDisk
      <3>5. CASE found[w].ev \in handled
        BY <2>5, <3>1, <3>4, <3>5, LettingGo DEF DeadLetterUnlink
      <3>6. CASE found[w].ev \in Events(dead)
        <4>1. OnDisk' = OnDisk
          BY <3>2, <3>3, <3>6 DEF OnDisk
        <4>. QED BY <2>5, <4>1 DEF DeadLetterUnlink, Queue!qvars
      <3>. QED BY <3>1, <3>5, <3>6
    <2>6. CASE ListPending(w) \/ ReadSeq(w) \/ WriteSeq(w) \/ Relist(w)
               \/ NextCycle(w) \/ DeadLetterRead(w)
      BY <1>u, <2>6 DEF ListPending, ReadSeq, WriteSeq, Relist, NextCycle, DeadLetterRead
    <2>. QED BY <1>6, <2>1, <2>2, <2>3, <2>4, <2>5, <2>6 DEF ProcessStep
  <1>7. ASSUME NEW w \in Worker, RedriveStep(w) PROVE [Queue!QNext]_(Queue!qvars)
    <2>1. CASE RemoveDeadLetter(w)
      <3>1. cur[w].ev \in Event /\ cur[w].ev \in handled
        BY <2>1 DEF RemoveDeadLetter, Custody, TypeOK
      <3>2. Events(dead) \subseteq Events(dead') \cup {cur[w].ev}
        BY <1>t, <2>1, <3>1, FindEvent, RemoveEvents DEF RemoveDeadLetter
      <3>3. Events(dead') \subseteq Events(dead)
        BY <2>1, RemoveEvents DEF RemoveDeadLetter
      <3>4. OnDisk \subseteq OnDisk' \cup {cur[w].ev} /\ OnDisk' \subseteq OnDisk
        BY <2>1, <3>2, <3>3 DEF RemoveDeadLetter, OnDisk
      <3>. QED BY <2>1, <3>1, <3>4, LettingGo DEF RemoveDeadLetter
    <2>2. CASE UpdateWrite(w)
      <3>. DEFINE f == [found[w] EXCEPT !.attempts =
                          IF attempts[w] > @ THEN attempts[w] ELSE @]
      <3>1. f.ev = found[w].ev /\ found[w].ev \in buffered /\ found[w].ev \in Event
        BY <2>2 DEF UpdateWrite, Custody, TypeOK, File
      <3>2. Events(dead') = Events(dead) \cup {found[w].ev}
        <4>1. dead' = Put(dead, f)
          BY <2>2 DEF UpdateWrite
        <4>. HIDE DEF f
        <4>. QED BY <1>t, <3>1, <4>1, PutEvents
      <3>3. OnDisk' = OnDisk \cup {found[w].ev}
        BY <2>2, <3>2 DEF UpdateWrite, OnDisk
      <3>. QED BY <2>2, <3>1, <3>3, PuttingBack DEF UpdateWrite
    <2>3. CASE ListDead(w) \/ RedriveReturns(w) \/ UpdateRead(w)
      BY <1>u, <2>3 DEF ListDead, RedriveReturns, UpdateRead
    <2>. QED BY <1>7, <2>1, <2>2, <2>3 DEF RedriveStep
  <1>8. CASE UNCHANGED vars
    BY <1>8, <1>u DEF vars
  <1>. QED BY <1>1, <1>2, <1>3, <1>4, <1>5, <1>6, <1>7, <1>8
           DEF Next, Step, ProcessChanges, RetryDeadLetters

\* The pump, with any number of workers, crashes and re-drives on one cache_dir,
\* implements the at-least-once queue.
THEOREM Refinement ==
    ASSUME IdsAreDistinct
    PROVE  Spec => ImplementsAtLeastOnce
  <1>1. Init => Queue!QInit
    BY DEF Init, Queue!QInit, OnDisk, Events
  <1>2. TypeOK /\ Custody /\ [Next]_vars => [Queue!QNext]_(Queue!qvars)
    BY StepSimulation
  <1>. QED BY <1>1, <1>2, TypeCorrect, CustodyInvariant, PTL
           DEF Spec, ImplementsAtLeastOnce, Queue!QSpec

-----------------------------------------------------------------------------
(* The retry budget.                                                       *)

\* The inductive form of RetryBudget: a call begins with no attempt, and an attempt is made
\* only while the budget is not used up.
Budget ==
    \A w \in Worker :
        /\ attempts[w] <= opts(w).maxRetries + 1
        /\ pc[w] = "idle" => attempts[w] = 0
        /\ pc[w] = "try" => attempts[w] <= opts(w).maxRetries
        /\ pc[w] = "exhausted" => attempts[w] = opts(w).maxRetries + 1

\* Stopping forgets the attempts, whatever the next call's budget is.
LEMMA BudgetAfterStop ==
    ASSUME TypeOK, Budget, NEW w \in Worker, Stop(w)
    PROVE  Budget'
  <1>1. \A v \in Worker : opts(v) = withDefaults(request[v]) /\ request[v] \in RequestType
    BY RequestAssumption DEF opts, TypeOK
  <1>2. \A v \in Worker : opts(v)' = opts(v) /\ opts(v).maxRetries \in Nat
    BY <1>1, DefaultsInRange DEF opts, Stop
  <1>. QED BY <1>2 DEF TypeOK, Budget, Stop, Goto

\* Every step of every worker keeps within the budget.
LEMMA BudgetInductive ==
    ASSUME TypeOK, Budget, [Next]_vars
    PROVE  Budget'
  <1>. USE DEF Goto, server, disk, local, history
  <1>0. \A w \in Worker : opts(w).maxRetries \in Nat
    BY RequestAssumption, DefaultsInRange DEF opts, TypeOK
  <1>u. ASSUME UNCHANGED request
        PROVE  \A w \in Worker : opts(w)' = opts(w)
    BY <1>u DEF opts
  <1>1. ASSUME NEW w \in Worker, NEW label, UNCHANGED <<request, attempts>>,
               Goto(w, label), label \notin {"try", "exhausted", "idle"}
        PROVE  Budget'
    BY <1>1, <1>u DEF TypeOK, Budget
  <1>2. ASSUME NEW w \in Worker, NEW o \in Requests, NEW c, Start(w, c, o)
        PROVE  Budget'
    <2>1. opts(w)' = withDefaults(o) /\ withDefaults(o).maxRetries \in Nat
      BY <1>2, RequestAssumption, DefaultsInRange DEF Start, opts, TypeOK
    <2>2. \A v \in Worker \ {w} : opts(v)' = opts(v)
      BY <1>2 DEF Start, opts, TypeOK
    <2>. QED BY <1>2, <2>1, <2>2 DEF Start, TypeOK, Budget
  <1>3. ASSUME UNCHANGED <<pc, request, attempts>> PROVE Budget'
    BY <1>3, <1>u DEF Budget
  <1>4. ASSUME NEW w \in Worker, Crash(w) PROVE Budget'
    BY <1>4, BudgetAfterStop DEF Crash
  <1>5. ASSUME NEW w \in Worker, Deliver(w) PROVE Budget'
    <2>1. CASE NextEvent(w)
      BY <1>0, <1>u, <2>1 DEF NextEvent, TypeOK, Budget
    <2>2. CASE HandlerSucceeds(w)
      BY <1>0, <1>u, <2>2 DEF HandlerSucceeds, TypeOK, Budget
    <2>3. CASE FailsAndRetries(w)
      BY <1>0, <1>u, <2>3 DEF FailsAndRetries, Failing, Retries, TypeOK, Budget
    <2>4. CASE FailsForGood(w)
      <3>1. CASE Stop(w)
        BY <3>1, BudgetAfterStop
      <3>2. CASE ~ Stop(w)
        <4>1. attempts[w] = opts(w).maxRetries
          <5>1. pc[w] = "try" /\ attempts[w] + 1 > opts(w).maxRetries
            BY <2>4 DEF FailsForGood, Failing, Exhausts
          <5>2. attempts[w] <= opts(w).maxRetries
            BY <5>1 DEF Budget
          <5>3. attempts[w] \in Nat
            BY DEF TypeOK
          <5>. QED BY <1>0, <5>1, <5>2, <5>3
        <4>2. /\ attempts' = [attempts EXCEPT ![w] = @ + 1]
              /\ Goto(w, "exhausted") /\ UNCHANGED request
          BY <2>4, <3>2 DEF FailsForGood, Failing, Exhausts, GiveUp
        <4>. QED BY <1>0, <1>u, <4>1, <4>2 DEF TypeOK, Budget
      <3>. QED BY <3>1, <3>2
    <2>5. CASE DecryptFails(w)
      <3>1. CASE Stop(w)
        BY <3>1, BudgetAfterStop
      <3>2. CASE ~ Stop(w)
        BY <1>0, <1>u, <2>5, <3>2 DEF DecryptFails, GiveUp, TypeOK, Budget
      <3>. QED BY <3>1, <3>2
    <2>. QED BY <1>5, <2>1, <2>2, <2>3, <2>4, <2>5, AttemptFails DEF Deliver
  <1>6. ASSUME NEW w \in Worker, ProcessStep(w) PROVE Budget'
    <2>1. CASE Fetch(w)
      <3>1. CASE Stop(w)
        BY <3>1, BudgetAfterStop
      <3>2. CASE ~ Stop(w)
        BY <1>1, <2>1, <3>2 DEF Fetch
      <3>. QED BY <3>1, <3>2
    <2>2. CASE ListPending(w) \/ WriteEvent(w)
      BY <1>0, <1>1, <2>2 DEF ListPending, WriteEvent
    <2>3. CASE ReadSeq(w) \/ WriteSeq(w) \/ Relist(w) \/ NextCycle(w) \/ Ack(w)
               \/ DeadLetterRead(w) \/ DeadLetterWrite(w) \/ DeadLetterUnlink(w)
      BY <1>1, <2>3 DEF ReadSeq, WriteSeq, Relist, NextCycle, Ack,
                        DeadLetterRead, DeadLetterWrite, DeadLetterUnlink
    <2>. QED BY <1>6, <2>1, <2>2, <2>3 DEF ProcessStep
  <1>7. ASSUME NEW w \in Worker, RedriveStep(w) PROVE Budget'
    <2>1. CASE RedriveReturns(w)
      BY <2>1, BudgetAfterStop DEF RedriveReturns
    <2>2. CASE ListDead(w) \/ RemoveDeadLetter(w) \/ UpdateRead(w) \/ UpdateWrite(w)
      BY <1>1, <2>2 DEF ListDead, RemoveDeadLetter, UpdateRead, UpdateWrite
    <2>. QED BY <1>7, <2>1, <2>2 DEF RedriveStep
  <1>. QED BY <1>2, <1>3, <1>4, <1>5, <1>6, <1>7
           DEF Next, Step, ProcessChanges, RetryDeadLetters, Publish, DrainBatch, vars

\* The third part of RetryBudget: only failed lookups make an event that does not open be
\* tried again.
Spared ==
    \A w \in Worker :
        pc[w] \in {"try", "exhausted"} /\ ~ Opens(w) => attempts[w] <= outages

\* Every step of every worker spares the events that do not open.
LEMMA SparedInductive ==
    ASSUME TypeOK, Spared, [Next]_vars
    PROVE  Spared'
  <1>. USE DEF Goto, server, disk, local, history
  <1>1. ASSUME outages \in Nat, outages' \in Nat, outages <= outages',
               NEW w \in Worker,
               \A v \in Worker \ {w} : /\ pc'[v] = pc[v] /\ cur'[v] = cur[v]
                                       /\ request'[v] = request[v]
                                       /\ attempts'[v] = attempts[v],
               \/ pc'[w] \notin {"try", "exhausted"}
               \/ (attempts'[w] \in Nat /\ attempts'[w] <= outages')
               \/ Opens(w)'
        PROVE  Spared'
    BY <1>1 DEF TypeOK, Spared, Opens
  <1>n. outages \in Nat
    BY MaxOutagesAssumption DEF TypeOK
  <1>2. ASSUME NEW w \in Worker, NEW label, label \notin {"try", "exhausted"},
               Goto(w, label), UNCHANGED <<outages, request>>,
               \A v \in Worker \ {w} : cur'[v] = cur[v] /\ attempts'[v] = attempts[v]
        PROVE  Spared'
    BY <1>1, <1>2, <1>n DEF TypeOK
  <1>3. ASSUME NEW w \in Worker, Stop(w), UNCHANGED outages PROVE Spared'
    BY <1>2, <1>3 DEF Stop, TypeOK
  <1>4. ASSUME UNCHANGED <<outages, pc, cur, request, attempts>> PROVE Spared'
    BY <1>4 DEF Spared, Opens
  <1>5. ASSUME NEW w \in Worker, NEW o \in Requests, NEW c, Start(w, c, o) PROVE Spared'
    BY <1>1, <1>5, <1>n DEF Start, TypeOK
  <1>6. ASSUME NEW w \in Worker, Deliver(w) PROVE Spared'
    <2>1. CASE NextEvent(w)
      BY <1>1, <1>n, <2>1 DEF NextEvent, TypeOK
    <2>2. CASE HandlerSucceeds(w)
      BY <1>2, <2>2 DEF HandlerSucceeds, TypeOK
    <2>3. CASE HandlerFails(w)
      <3>1. Opens(w)' \/ Stop(w)
        BY <2>3 DEF HandlerFails, Retries, Exhausts, GiveUp, Opens
      <3>2. CASE Opens(w)'
        BY <1>1, <1>n, <2>3, <3>2 DEF HandlerFails, Retries, Exhausts, GiveUp, Stop, TypeOK
      <3>. QED BY <1>3, <2>3, <3>1, <3>2 DEF HandlerFails
    <2>4. CASE LookupFails(w)
      <3>1. outages' = outages + 1
        BY <2>4 DEF LookupFails
      <3>2. CASE Stop(w)
        BY <1>1, <1>n, <3>1, <3>2 DEF Stop, TypeOK
      <3>3. CASE ~ Stop(w)
        <4>1. attempts' = [attempts EXCEPT ![w] = @ + 1] /\ UNCHANGED <<cur, request>>
          BY <2>4, <3>3 DEF LookupFails, Retries, Exhausts, GiveUp
        <4>2. pc[w] = "try" /\ \A v \in Worker \ {w} : pc'[v] = pc[v]
          BY <2>4, <3>3 DEF LookupFails, Retries, Exhausts, GiveUp, TypeOK
        <4>3. Opens(w)' \/ (attempts'[w] \in Nat /\ attempts'[w] <= outages')
          BY <1>n, <3>1, <4>1, <4>2 DEF TypeOK, Spared, Opens
        <4>. QED BY <1>1, <1>n, <3>1, <4>1, <4>2, <4>3 DEF TypeOK
      <3>. QED BY <3>2, <3>3
    <2>5. CASE DecryptFails(w)
      BY <1>2, <1>3, <2>5 DEF DecryptFails, GiveUp, TypeOK
    <2>. QED BY <1>6, <2>1, <2>2, <2>3, <2>4, <2>5 DEF Deliver
  <1>7. ASSUME NEW w \in Worker, ProcessStep(w) PROVE Spared'
    <2>1. CASE Fetch(w)
      BY <1>2, <1>3, <2>1 DEF Fetch
    <2>2. CASE ListPending(w) \/ WriteEvent(w)
      BY <1>2, <2>2 DEF ListPending, WriteEvent
    <2>3. CASE ReadSeq(w) \/ WriteSeq(w) \/ Relist(w) \/ NextCycle(w) \/ Ack(w)
               \/ DeadLetterRead(w) \/ DeadLetterWrite(w) \/ DeadLetterUnlink(w)
      BY <1>2, <2>3 DEF ReadSeq, WriteSeq, Relist, NextCycle, Ack,
                        DeadLetterRead, DeadLetterWrite, DeadLetterUnlink
    <2>. QED BY <1>7, <2>1, <2>2, <2>3 DEF ProcessStep
  <1>8. ASSUME NEW w \in Worker, RedriveStep(w) PROVE Spared'
    BY <1>2, <1>3, <1>8 DEF RedriveStep, RedriveReturns, ListDead, RemoveDeadLetter,
                            UpdateRead, UpdateWrite
  <1>9. ASSUME NEW w \in Worker, Crash(w) PROVE Spared'
    BY <1>3, <1>9 DEF Crash
  <1>. QED BY <1>4, <1>5, <1>6, <1>7, <1>8, <1>9
           DEF Next, Step, ProcessChanges, RetryDeadLetters, Publish, DrainBatch, vars

\* A failing handler is called maxRetries + 1 times and no more, and an event that does not
\* open is never tried again but after a failed lookup: for every budget a caller may pass and
\* whatever other workers and crashes do.
THEOREM BudgetIsKept == Spec => []RetryBudget
  <1>1. Init => Budget /\ Spared
    <2>. SUFFICES ASSUME Init PROVE Budget /\ Spared
      OBVIOUS
    <2>1. \A w \in Worker : opts(w).maxRetries \in Nat
      BY RequestAssumption, DefaultsInRange DEF Init, opts
    <2>. QED BY <2>1 DEF Init, Budget, Spared
  <1>2. TypeOK /\ Budget /\ Spared /\ [Next]_vars => Budget' /\ Spared'
    BY BudgetInductive, SparedInductive
  <1>3. Budget /\ Spared => RetryBudget
    BY DEF Budget, Spared, RetryBudget
  <1>. QED BY <1>1, <1>2, <1>3, TypeCorrect, PTL DEF Spec

-----------------------------------------------------------------------------
(* The dead-letter store is a one-way street.                              *)

\* What is fetched is new: no file of it exists, and no other worker holds it.
Fresh ==
    /\ feed \cap deleted = {}
    /\ buffered \subseteq deleted
    /\ OnDisk \subseteq buffered
    /\ \A w \in Worker :
        /\ batch[w] \subseteq deleted \ buffered
        /\ pc[w] = "bury" => found[w].ev \in buffered
        /\ \A v \in Worker : v # w => batch[v] \cap batch[w] = {}

\* Writing a file adds no other event to a directory.
LEMMA PutAddsOne ==
    ASSUME NEW dir, NEW f
    PROVE  Events(Put(dir, f)) \subseteq Events(dir) \cup {f.ev}
  BY DEF Events, Put

\* What is fetched stays new until it is written.
LEMMA FreshInductive ==
    ASSUME TypeOK, Fresh, [Next]_vars
    PROVE  Fresh'
  <1>. USE DEF Goto, server, disk, local, history
  <1>1. ASSUME NEW e \in Event, Publish(e) PROVE Fresh'
    BY <1>1 DEF Publish, Fresh, OnDisk, Events
  <1>2. ASSUME UNCHANGED <<feed, deleted, buffered>>, OnDisk' \subseteq OnDisk,
               \A w \in Worker : batch'[w] \subseteq batch[w],
               \A w \in Worker : pc'[w] = "bury" => found'[w].ev \in buffered
        PROVE  Fresh'
    BY <1>2 DEF Fresh
  <1>3. ASSUME NEW w \in Worker, Stop(w), UNCHANGED <<feed, deleted, buffered, pending, dead>>
        PROVE  Fresh'
    <2>1. OnDisk' = OnDisk
      BY <1>3 DEF OnDisk
    <2>. QED BY <1>2, <1>3, <2>1 DEF Stop, TypeOK, Fresh
  <1>4. ASSUME NEW w \in Worker, NEW label, label # "bury", Goto(w, label),
               UNCHANGED <<feed, deleted, buffered, batch, found>>, OnDisk' \subseteq OnDisk
        PROVE  Fresh'
    BY <1>2, <1>4 DEF TypeOK, Fresh
  <1>5. ASSUME NEW n, NEW S \in Drains(n), feed' = feed \ S, deleted' = deleted \cup S,
               UNCHANGED <<buffered, pending, dead>>, NEW w \in Worker,
               NEW label, label # "bury",
               \/ UNCHANGED <<pc, found, batch>>
               \/ Goto(w, label) /\ batch' = [batch EXCEPT ![w] = S] /\ UNCHANGED found
        PROVE  Fresh'
    <2>1. S \subseteq feed
      BY <1>5 DEF Drains
    <2>2. OnDisk' = OnDisk
      BY <1>5 DEF OnDisk
    <2>. QED BY <1>5, <2>1, <2>2 DEF TypeOK, Fresh
  <1>6. ASSUME NEW w \in Worker, NEW dir, Events(dir) \subseteq OnDisk,
               NEW f \in Find(dir, cur[w]), found' = [found EXCEPT ![w] = f],
               Goto(w, "bury"), UNCHANGED <<feed, deleted, buffered, pending, dead, batch>>
        PROVE  Fresh'
    <2>1. OnDisk' = OnDisk
      BY <1>6 DEF OnDisk
    <2>2. f.ev \in buffered
      BY <1>6 DEF Find, Events, Fresh
    <2>. QED BY <1>2, <1>6, <2>1, <2>2 DEF TypeOK, Fresh
  <1>7. ASSUME NEW w \in Worker, Deliver(w) PROVE Fresh'
    <2>1. OnDisk' = OnDisk /\ UNCHANGED <<feed, deleted, buffered, pending, dead>>
      BY <1>7 DEF Deliver, NextEvent, HandlerSucceeds, HandlerFails,
                  LookupFails, DecryptFails, OnDisk
    <2>2. CASE NextEvent(w) \/ HandlerSucceeds(w)
      BY <1>4, <2>1, <2>2 DEF NextEvent, HandlerSucceeds
    <2>3. CASE FailsAndRetries(w)
      BY <1>2, <2>1, <2>3 DEF FailsAndRetries, Failing, Retries, Fresh
    <2>4. CASE FailsForGood(w) \/ DecryptFails(w)
      BY <1>3, <1>4, <2>1, <2>4 DEF FailsForGood, Failing, Exhausts, DecryptFails, GiveUp
    <2>. QED BY <1>7, <2>2, <2>3, <2>4, AttemptFails DEF Deliver
  <1>8. ASSUME NEW w \in Worker, ProcessStep(w) PROVE Fresh'
    <2>1. CASE Fetch(w)
      <3>1. PICK S \in Drains(opts(w).batchSize) :
              /\ feed' = feed \ S
              /\ deleted' = deleted \cup S
              /\ IF S = {}
                   THEN Stop(w)
                   ELSE /\ batch' = [batch EXCEPT ![w] = S]
                        /\ Goto(w, "seq")
                        /\ UNCHANGED <<call, request, next, todo, cur, attempts, found>>
        BY <2>1 DEF Fetch
      <3>2. CASE S = {}
        <4>1. UNCHANGED <<feed, deleted>> /\ Stop(w)
          BY <3>1, <3>2
        <4>. QED BY <1>3, <2>1, <4>1 DEF Fetch
      <3>3. CASE S # {}
        BY <1>5, <2>1, <3>1, <3>3 DEF Fetch
      <3>. QED BY <3>2, <3>3
    <2>2. CASE WriteEvent(w)
      <3>1. PICK e \in batch[w] :
              /\ pending' = Put(pending, [seq |-> next[w], ev |-> e, attempts |-> 0])
              /\ buffered' = buffered \cup {e}
              /\ batch' = [batch EXCEPT ![w] = @ \ {e}]
              /\ Goto(w, IF batch[w] = {e} THEN "relist" ELSE "seq")
        BY <2>2 DEF WriteEvent
      <3>2. Events(pending') \subseteq Events(pending) \cup {e}
        BY <3>1, PutAddsOne
      <3>3. OnDisk' \subseteq OnDisk \cup {e}
        BY <2>2, <3>2 DEF WriteEvent, OnDisk
      <3>. QED BY <2>2, <3>1, <3>3 DEF WriteEvent, TypeOK, Fresh
    <2>3. CASE DeadLetterRead(w)
      <3>1. CASE UNCHANGED found /\ Goto(w, "next")
        BY <1>4, <2>3, <3>1 DEF DeadLetterRead, OnDisk
      <3>2. CASE ~ (UNCHANGED found /\ Goto(w, "next"))
        BY <1>6, <2>3, <3>2 DEF DeadLetterRead, OnDisk
      <3>. QED BY <3>1, <3>2
    <2>4. CASE DeadLetterWrite(w)
      <3>. DEFINE f == [found[w] EXCEPT !.attempts = attempts[w]]
      <3>1. f.ev = found[w].ev /\ found[w].ev \in buffered
        BY <2>4 DEF DeadLetterWrite, Fresh, TypeOK, File
      <3>2. Events(dead') \subseteq Events(dead) \cup {found[w].ev}
        BY <2>4, <3>1, PutAddsOne DEF DeadLetterWrite
      <3>3. OnDisk' \subseteq buffered
        BY <2>4, <3>1, <3>2 DEF DeadLetterWrite, OnDisk, Fresh
      <3>. QED BY <2>4, <3>3 DEF DeadLetterWrite, TypeOK, Fresh
    <2>5. CASE ListPending(w) \/ ReadSeq(w) \/ WriteSeq(w) \/ Relist(w) \/ NextCycle(w)
      BY <1>4, <2>5 DEF ListPending, ReadSeq, WriteSeq, Relist, NextCycle, OnDisk
    <2>6. CASE Ack(w) \/ DeadLetterUnlink(w)
      <3>1. OnDisk' \subseteq OnDisk
        BY <2>6 DEF Ack, DeadLetterUnlink, OnDisk, Events
      <3>. QED BY <1>4, <2>6, <3>1 DEF Ack, DeadLetterUnlink
    <2>. QED BY <1>8, <2>1, <2>2, <2>3, <2>4, <2>5, <2>6 DEF ProcessStep
  <1>9. ASSUME NEW w \in Worker, RedriveStep(w) PROVE Fresh'
    <2>1. CASE ListDead(w)
      BY <1>4, <2>1 DEF ListDead, OnDisk
    <2>2. CASE RedriveReturns(w)
      BY <1>3, <2>2 DEF RedriveReturns
    <2>3. CASE RemoveDeadLetter(w)
      <3>1. OnDisk' \subseteq OnDisk
        BY <2>3 DEF RemoveDeadLetter, OnDisk, Events
      <3>. QED BY <1>4, <2>3, <3>1 DEF RemoveDeadLetter
    <2>4. CASE UpdateRead(w)
      <3>1. CASE UNCHANGED found /\ Goto(w, "next")
        BY <1>4, <2>4, <3>1 DEF UpdateRead, OnDisk
      <3>2. CASE ~ (UNCHANGED found /\ Goto(w, "next"))
        BY <1>6, <2>4, <3>2 DEF UpdateRead, OnDisk
      <3>. QED BY <3>1, <3>2
    <2>5. CASE UpdateWrite(w)
      <3>. DEFINE f == [found[w] EXCEPT !.attempts =
                          IF attempts[w] > @ THEN attempts[w] ELSE @]
      <3>1. f.ev = found[w].ev /\ found[w].ev \in buffered
        BY <2>5 DEF UpdateWrite, Fresh, TypeOK, File
      <3>2. dead' = Put(dead, f)
        BY <2>5 DEF UpdateWrite
      <3>. HIDE DEF f
      <3>3. Events(dead') \subseteq Events(dead) \cup {found[w].ev}
        BY <3>1, <3>2, PutAddsOne
      <3>4. OnDisk' \subseteq buffered
        BY <2>5, <3>1, <3>3 DEF UpdateWrite, OnDisk, Fresh
      <3>. QED BY <2>5, <3>4 DEF UpdateWrite, TypeOK, Fresh
    <2>. QED BY <1>9, <2>1, <2>2, <2>3, <2>4, <2>5 DEF RedriveStep
  <1>10. ASSUME NEW w \in Worker, NEW o \in Requests, NEW c, Start(w, c, o) PROVE Fresh'
    BY <1>4, <1>10 DEF Start, OnDisk
  <1>11. ASSUME NEW w \in Worker, NEW n, DrainBatch(w, n) PROVE Fresh'
    <2>1. PICK S \in Drains(clampBatch(n)) : feed' = feed \ S /\ deleted' = deleted \cup S
      BY <1>11 DEF DrainBatch
    <2>. QED BY <1>5, <1>11, <2>1 DEF DrainBatch
  <1>12. ASSUME NEW w \in Worker, Crash(w) PROVE Fresh'
    BY <1>3, <1>12 DEF Crash
  <1>13. CASE UNCHANGED vars
    BY <1>13 DEF vars, Fresh, OnDisk
  <1>. QED BY <1>1, <1>7, <1>8, <1>9, <1>10, <1>11, <1>12, <1>13
           DEF Next, Step, ProcessChanges, RetryDeadLetters

\* Whatever is fetched is not on disk yet, in every interleaving of the workers.
LEMMA FreshInvariant == Spec => []Fresh
  <1>1. Init => Fresh
    BY DEF Init, Fresh, OnDisk, Events
  <1>2. TypeOK /\ Fresh /\ [Next]_vars => Fresh'
    BY FreshInductive
  <1>. QED BY <1>1, <1>2, TypeCorrect, PTL DEF Spec

\* A file is put into pending/ by Append only, and Append writes no event that is, or
\* ever was, in the dead-letter store: with any ids, workers, crashes and re-drives.
THEOREM DeadLettersStay == Spec => NeverResurrected
  <1>1. TypeOK /\ Fresh /\ [Next]_vars =>
          [Events(dead) \ Events(pending) \subseteq Events(dead) \ Events(pending')]_vars
    <2>. SUFFICES ASSUME TypeOK, Fresh, [Next]_vars
                  PROVE  Events(dead) \ Events(pending) \subseteq Events(dead) \ Events(pending')
      OBVIOUS
    <2>1. CASE pending' \subseteq pending
      BY <2>1 DEF Events
    <2>2. ASSUME NEW w \in Worker, WriteEvent(w)
          PROVE  Events(dead) \ Events(pending) \subseteq Events(dead) \ Events(pending')
      <3>1. PICK e \in batch[w] :
              pending' = Put(pending, [seq |-> next[w], ev |-> e, attempts |-> 0])
        BY <2>2 DEF WriteEvent
      <3>2. Events(pending') \subseteq Events(pending) \cup {e}
        BY <3>1, PutAddsOne
      <3>3. e \notin Events(dead)
        BY DEF Fresh, OnDisk
      <3>. QED BY <3>2, <3>3
    <2>3. pending' \subseteq pending \/ \E w \in Worker : WriteEvent(w)
      BY DEF Next, vars, disk, Step, Deliver, ProcessStep, RedriveStep,
             ProcessChanges, RetryDeadLetters, Start, Publish, DrainBatch, Crash,
             NextEvent, HandlerSucceeds, HandlerFails, LookupFails,
             DecryptFails, ListPending, Fetch, ReadSeq, WriteSeq, Relist, NextCycle, Ack,
             DeadLetterRead, DeadLetterWrite, DeadLetterUnlink, ListDead, RedriveReturns,
             RemoveDeadLetter, UpdateRead, UpdateWrite
    <2>. QED BY <2>1, <2>2, <2>3
  <1>. QED BY <1>1, TypeCorrect, FreshInvariant, PTL DEF Spec, NeverResurrected

-----------------------------------------------------------------------------
(* One worker: order and duplicates.                                       *)

\* The cache_dir is one worker's own.
OneWorker == \A v, w \in Worker : v = w

Held == {"try", "settle", "exhausted", "poison", "bury", "unlink"}
Filling == {"seq", "seqwrite", "write"}

\* The files of one event in a directory are one file.
OneFileEach(dir) == \A f, g \in dir : f.ev = g.ev => f = g

\* The counter is ahead of every file, and files sort as their events do.
Numbered ==
    /\ OneFileEach(pending)
    /\ \A f, g \in pending : f.ev < g.ev => f.seq < g.seq
    /\ \A f \in pending \cup dead : f.seq <= seqFile

\* What a worker alone on its cache_dir knows of the files between two of its steps.
Alone(w) ==
    /\ pc[w] \in Filling => \A f \in pending, e \in batch[w] : f.ev < e
    /\ pc[w] \notin Filling => batch[w] = {}
    /\ pc[w] = "fetch" => pending = {}
    /\ pc[w] \in {"seqwrite", "write"} => \A f \in pending \cup dead : f.seq < next[w]
    /\ pc[w] = "write" => seqFile = next[w]
    /\ pc[w] = "bury" => found[w].seq <= seqFile
    /\ call[w] = "process" =>
        /\ pc[w] = "next" => todo[w] = pending
        /\ pc[w] \in Held => /\ cur[w] \notin todo[w]
                             /\ pending = todo[w] \cup {cur[w]}
                             /\ \A f \in pending : f.ev >= cur[w].ev
        /\ pc[w] \in {"bury", "unlink"} => found[w] = cur[w]

Ordered == Numbered /\ \A w \in Worker : Alone(w)

\* Removing files keeps the numbering.
LEMMA NumberedSubset ==
    ASSUME Numbered, pending' \subseteq pending, dead' \subseteq dead, UNCHANGED seqFile
    PROVE  Numbered'
  BY DEF Numbered, OneFileEach

\* With distinct ids, a new file whose event is on none of a directory's files replaces none.
LEMMA PutNew ==
    ASSUME IdsAreDistinct, NEW dir, Events(dir) \subseteq Event, NEW f, f.ev \in Event,
           f.ev \notin Events(dir)
    PROVE  Put(dir, f) = dir \cup {f}
  BY DEF IdsAreDistinct, Put, SameName, Events

\* A new version of a file that is alone of its event takes its place.
LEMMA PutNewer ==
    ASSUME IdsAreDistinct, NEW dir, Events(dir) \subseteq Event, OneFileEach(dir),
           NEW f, NEW g \in dir, f.ev = g.ev, f.seq = g.seq
    PROVE  Put(dir, f) = (dir \ {g}) \cup {f}
  BY DEF IdsAreDistinct, Put, SameName, Events, OneFileEach

\* A file that is alone of its event is what its id finds.
LEMMA FindAlone ==
    ASSUME IdsAreDistinct, NEW dir, Events(dir) \subseteq Event, dir \subseteq File,
           OneFileEach(dir), NEW f \in dir
    PROVE  Find(dir, f) = {f}
  BY DEF IdsAreDistinct, Find, Events, OneFileEach, File

\* Stopping leaves nothing to be known of the worker but that it holds nothing.
LEMMA AloneAfterStop ==
    ASSUME TypeOK, NEW w \in Worker, Stop(w)
    PROVE  Alone(w)'
  BY DEF TypeOK, Stop, Goto, Alone, Held, Filling

\* Each step of the only worker on a cache_dir keeps what it knows of the files.
LEMMA OrderedStep ==
    ASSUME IdsAreDistinct, OneWorker, TypeOK, Custody, Fresh, Ordered,
           NEW w \in Worker, Step(w)
    PROVE  Ordered'
  <1>. USE DEF Goto, server, disk, local, history
  <1>t. /\ Events(pending) \subseteq Event /\ Events(dead) \subseteq Event
        /\ pending \subseteq File /\ dead \subseteq File
    BY DEF Custody, OnDisk, TypeOK
  <1>w. Alone(w) /\ Numbered /\ w \in DOMAIN pc
    BY DEF Ordered, TypeOK
  <1>one. ASSUME Numbered', Alone(w)' PROVE Ordered'
    <2>1. \A v \in Worker : v = w
      BY DEF OneWorker
    <2>. QED BY <1>one, <2>1 DEF Ordered
  <1>stop. ASSUME Stop(w), UNCHANGED disk PROVE Ordered'
    BY <1>one, <1>w, <1>stop, AloneAfterStop, NumberedSubset
  <1>1. CASE NextEvent(w)
    <2>1. Numbered'
      BY <1>1, <1>w, NumberedSubset DEF NextEvent
    <2>2. PICK f \in Oldest(todo[w]) :
            cur' = [cur EXCEPT ![w] = f] /\ todo' = [todo EXCEPT ![w] = @ \ {f}]
      BY <1>1 DEF NextEvent
    <2>3. pc'[w] = "try" /\ cur'[w] = f /\ todo'[w] = todo[w] \ {f} /\ f \in todo[w]
          /\ \A g \in todo[w] : f.seq <= g.seq
      BY <1>1, <2>2 DEF NextEvent, TypeOK, Oldest
    <2>4. ASSUME call[w] = "process"
          PROVE  todo[w] = pending /\ \A g \in pending : g.ev >= f.ev
      <3>1. todo[w] = pending
        BY <1>1, <1>w, <2>4 DEF NextEvent, Alone
      <3>2. ASSUME NEW g \in pending PROVE g.ev >= f.ev
        <4>1. f.seq <= g.seq /\ f \in pending /\ ~ (g.ev < f.ev /\ f.seq <= g.seq)
          BY <1>t, <1>w, <2>3, <3>1 DEF Numbered, File
        <4>. QED BY <1>t, <4>1 DEF File
      <3>. QED BY <3>1, <3>2
    <2>5. Alone(w)'
      BY <1>1, <1>w, <2>3, <2>4 DEF NextEvent, Alone, Held, Filling
    <2>. QED BY <1>one, <2>1, <2>5
  <1>2. CASE HandlerSucceeds(w) \/ FailsAndRetries(w)
    BY <1>2, <1>one, <1>w, NumberedSubset
       DEF HandlerSucceeds, FailsAndRetries, Failing, Retries, TypeOK, Alone, Held, Filling
  <1>3. CASE FailsForGood(w) \/ DecryptFails(w)
    <2>1. CASE Stop(w)
      BY <1>3, <1>stop, <2>1 DEF FailsForGood, Failing, Exhausts, DecryptFails
    <2>2. CASE ~ Stop(w)
      BY <1>3, <1>one, <1>w, <2>2, NumberedSubset
         DEF FailsForGood, Failing, Exhausts, DecryptFails, GiveUp, TypeOK, Alone, Held, Filling
    <2>. QED BY <2>1, <2>2
  <1>4. CASE ListPending(w) \/ Relist(w) \/ NextCycle(w) \/ ListDead(w)
    BY <1>4, <1>one, <1>w, NumberedSubset
       DEF ListPending, Relist, NextCycle, ListDead, TypeOK, Alone, Held, Filling
  <1>5. CASE Fetch(w)
    <2>1. PICK S \in SUBSET feed :
            \/ Stop(w)
            \/ /\ batch' = [batch EXCEPT ![w] = S]
               /\ Goto(w, "seq")
               /\ UNCHANGED <<call, next, todo, cur, found>>
      BY <1>5 DEF Fetch, Drains
    <2>2. CASE Stop(w)
      BY <1>5, <1>stop, <2>2 DEF Fetch
    <2>3. CASE ~ Stop(w)
      <3>1. Numbered' /\ pending' = {}
        BY <1>5, <1>w, NumberedSubset DEF Fetch, Alone
      <3>2. pc'[w] = "seq"
        BY <2>1, <2>3 DEF TypeOK
      <3>3. Alone(w)'
        BY <3>1, <3>2 DEF Alone, Held, Filling
      <3>. QED BY <1>one, <3>1, <3>3
    <2>. QED BY <2>2, <2>3
  <1>6. CASE ReadSeq(w)
    <2>1. next'[w] \in Nat /\ \A f \in pending \cup dead : f.seq < next'[w]
      <3>1. CASE seqFile # NoSeq /\ next' = [next EXCEPT ![w] = seqFile + 1]
        BY <1>t, <1>w, <3>1 DEF TypeOK, Numbered, NoSeq, File
      <3>2. ASSUME NEW m \in {0} \cup {f.seq : f \in pending \cup dead},
                   \A f \in pending \cup dead : f.seq <= m,
                   next' = [next EXCEPT ![w] = m + 1]
            PROVE  next'[w] \in Nat /\ \A f \in pending \cup dead : f.seq < next'[w]
        <4>1. m \in Nat
          BY <1>t DEF File
        <4>. QED BY <1>t, <3>2, <4>1 DEF TypeOK, File
      <3>. QED BY <1>6, <3>1, <3>2 DEF ReadSeq
    <2>2. Alone(w)'
      BY <1>6, <1>w, <2>1 DEF ReadSeq, TypeOK, Alone, Held, Filling
    <2>. QED BY <1>6, <1>one, <1>w, <2>2, NumberedSubset DEF ReadSeq
  <1>7. CASE WriteSeq(w)
    <2>1. \A f \in pending \cup dead : f.seq <= seqFile'
      BY <1>7, <1>t, <1>w DEF WriteSeq, TypeOK, Alone, File
    <2>2. Numbered'
      BY <1>7, <1>w, <2>1 DEF WriteSeq, Numbered, OneFileEach
    <2>3. Alone(w)'
      BY <1>7, <1>w DEF WriteSeq, TypeOK, Alone, Held, Filling
    <2>. QED BY <1>one, <2>2, <2>3
  <1>8. CASE WriteEvent(w)
    <2>1. PICK e \in batch[w] :
            /\ \A d \in batch[w] : e <= d
            /\ pending' = Put(pending, [seq |-> next[w], ev |-> e, attempts |-> 0])
            /\ batch' = [batch EXCEPT ![w] = @ \ {e}]
            /\ Goto(w, IF batch[w] = {e} THEN "relist" ELSE "seq")
      BY <1>8 DEF WriteEvent
    <2>. DEFINE new == [seq |-> next[w], ev |-> e, attempts |-> 0]
    <2>2. e \in Event /\ e \in Nat /\ e \notin Events(pending) /\ next[w] \in Nat
      BY EventAssumption DEF TypeOK, Fresh, OnDisk
    <2>3. new.ev = e /\ new.seq = next[w] /\ new \in File
      BY <2>2 DEF File
    <2>4. pending' = pending \cup {new}
      BY <1>t, <2>1, <2>2, <2>3, PutNew
    <2>. HIDE DEF new
    <2>5. \A f \in pending : f.ev < e /\ f.seq < next[w]
      BY <1>8, <1>w DEF WriteEvent, Alone, Filling
    <2>6. seqFile = next[w] /\ UNCHANGED <<seqFile, dead>>
      BY <1>8, <1>w DEF WriteEvent, Alone
    <2>7. Numbered'
      <3>1. OneFileEach(pending)'
        BY <1>t, <1>w, <2>2, <2>3, <2>4 DEF Numbered, OneFileEach, Events
      <3>2. \A f, g \in pending' : f.ev < g.ev => f.seq < g.seq
        BY <1>t, <1>w, <2>2, <2>3, <2>4, <2>5 DEF Numbered, File
      <3>3. \A f \in pending' \cup dead' : f.seq <= seqFile'
        BY <1>w, <2>2, <2>3, <2>4, <2>6 DEF Numbered
      <3>. QED BY <3>1, <3>2, <3>3 DEF Numbered
    <2>8. CASE batch[w] = {e}
      <3>1. batch'[w] = {} /\ pc'[w] = "relist"
        BY <2>1, <2>8 DEF TypeOK
      <3>. QED BY <1>one, <2>7, <3>1 DEF Alone, Held, Filling
    <2>9. CASE batch[w] # {e}
      <3>1. batch'[w] = batch[w] \ {e} /\ pc'[w] = "seq"
        BY <2>1, <2>9 DEF TypeOK
      <3>2. \A d \in batch'[w] : d \in Nat /\ e < d
        BY <2>1, <2>2, <3>1, EventAssumption DEF TypeOK
      <3>3. \A f \in pending', d \in batch'[w] : f.ev < d
        BY <1>t, <2>2, <2>3, <2>4, <2>5, <3>2 DEF File
      <3>. QED BY <1>one, <2>7, <3>1, <3>3 DEF Alone, Held, Filling
    <2>. QED BY <2>8, <2>9
  <1>9. CASE Ack(w)
    <2>1. cur[w] \notin todo[w] /\ pending = todo[w] \cup {cur[w]}
      BY <1>9, <1>w DEF Ack, Alone, Held
    <2>2. Find(pending, cur[w]) = {cur[w]}
      BY <1>t, <1>w, <2>1, FindAlone DEF Numbered
    <2>3. pending' = todo[w] /\ pending' \subseteq pending
      BY <1>9, <2>1, <2>2 DEF Ack
    <2>4. Alone(w)'
      BY <1>9, <1>w, <2>3 DEF Ack, TypeOK, Alone, Held, Filling
    <2>. QED BY <1>9, <1>one, <1>w, <2>3, <2>4, NumberedSubset DEF Ack
  <1>10. CASE DeadLetterRead(w)
    <2>1. cur[w] \notin todo[w] /\ pending = todo[w] \cup {cur[w]}
      BY <1>10, <1>w DEF DeadLetterRead, GivenUp, Alone, Held
    <2>2. Find(pending, cur[w]) = {cur[w]}
      BY <1>t, <1>w, <2>1, FindAlone DEF Numbered
    <2>3. found'[w] = cur[w] /\ pc'[w] = "bury"
      BY <1>10, <2>2 DEF DeadLetterRead, TypeOK
    <2>4. cur[w].seq <= seqFile
      BY <1>w, <2>1 DEF Numbered
    <2>5. Alone(w)'
      BY <1>10, <1>w, <2>3, <2>4 DEF DeadLetterRead, GivenUp, TypeOK, Alone, Held, Filling
    <2>. QED BY <1>10, <1>one, <1>w, <2>5, NumberedSubset DEF DeadLetterRead
  <1>11. CASE DeadLetterWrite(w)
    <2>. DEFINE new == [found[w] EXCEPT !.attempts = attempts[w]]
    <2>1. new.seq = found[w].seq /\ dead' = Put(dead, new)
      BY <1>11 DEF DeadLetterWrite, TypeOK, File
    <2>. HIDE DEF new
    <2>2. found[w].seq <= seqFile
      BY <1>11, <1>w DEF DeadLetterWrite, Alone
    <2>3. Numbered'
      BY <1>11, <1>w, <2>1, <2>2 DEF DeadLetterWrite, Numbered, OneFileEach, Put
    <2>4. Alone(w)'
      BY <1>11, <1>w DEF DeadLetterWrite, TypeOK, Alone, Held, Filling
    <2>. QED BY <1>one, <2>3, <2>4
  <1>12. CASE DeadLetterUnlink(w)
    <2>1. pending' \subseteq pending /\ UNCHANGED <<dead, seqFile>>
      BY <1>12 DEF DeadLetterUnlink
    <2>2. ASSUME call[w] = "process" PROVE pending' = todo[w]
      <3>1. cur[w] \notin todo[w] /\ pending = todo[w] \cup {cur[w]} /\ found[w] = cur[w]
        BY <1>12, <1>w, <2>2 DEF DeadLetterUnlink, Alone, Held
      <3>2. \A f \in pending : SameName(f, cur[w]) => f = cur[w]
        BY <1>t, <1>w, <3>1 DEF IdsAreDistinct, SameName, Numbered, OneFileEach, Events
      <3>3. SameName(cur[w], cur[w])
        BY DEF SameName
      <3>. QED BY <1>12, <3>1, <3>2, <3>3 DEF DeadLetterUnlink
    <2>3. Alone(w)'
      BY <1>12, <1>w, <2>2 DEF DeadLetterUnlink, TypeOK, Alone, Held, Filling
    <2>. QED BY <1>one, <1>w, <2>1, <2>3, NumberedSubset
  <1>13. CASE RedriveReturns(w)
    BY <1>13, <1>stop DEF RedriveReturns
  <1>14. CASE RemoveDeadLetter(w)
    <2>1. dead' \subseteq dead /\ UNCHANGED <<pending, seqFile>>
      BY <1>14 DEF RemoveDeadLetter
    <2>2. Alone(w)'
      BY <1>14, <1>w, <2>1 DEF RemoveDeadLetter, TypeOK, Alone, Held, Filling
    <2>. QED BY <1>one, <1>w, <2>1, <2>2, NumberedSubset
  <1>15. CASE UpdateRead(w)
    <2>1. \A f \in Find(dead, cur[w]) : f.seq <= seqFile
      BY <1>w DEF Find, Numbered
    <2>2. Alone(w)'
      BY <1>15, <1>w, <2>1 DEF UpdateRead, GivenUp, TypeOK, Alone, Held, Filling
    <2>. QED BY <1>15, <1>one, <1>w, <2>2, NumberedSubset DEF UpdateRead
  <1>16. CASE UpdateWrite(w)
    <2>. DEFINE new == [found[w] EXCEPT !.attempts = IF attempts[w] > @ THEN attempts[w] ELSE @]
    <2>1. new.seq = found[w].seq /\ dead' = Put(dead, new)
      BY <1>16 DEF UpdateWrite, TypeOK, File
    <2>. HIDE DEF new
    <2>2. found[w].seq <= seqFile
      BY <1>16, <1>w DEF UpdateWrite, Alone
    <2>3. Numbered'
      BY <1>16, <1>w, <2>1, <2>2 DEF UpdateWrite, Numbered, OneFileEach, Put
    <2>4. Alone(w)'
      BY <1>16, <1>w DEF UpdateWrite, TypeOK, Alone, Held, Filling
    <2>. QED BY <1>one, <2>3, <2>4
  <1>. QED BY <1>1, <1>2, <1>3, <1>4, <1>5, <1>6, <1>7, <1>8, <1>9, <1>10, <1>11, <1>12, AttemptFails,
              <1>13, <1>14, <1>15, <1>16 DEF Step, Deliver, ProcessStep, RedriveStep

\* ... and so does all else that may happen.
LEMMA OrderedInductive ==
    ASSUME IdsAreDistinct, OneWorker, TypeOK, Custody, Fresh, Ordered, [Next]_vars
    PROVE  Ordered'
  <1>. USE DEF Goto, server, disk, local, history
  <1>1. ASSUME UNCHANGED <<disk, pc, local>> PROVE Ordered'
    BY <1>1 DEF Ordered, Numbered, Alone, OneFileEach
  <1>2. ASSUME NEW w \in Worker, NEW o, NEW c, Start(w, c, o) PROVE Ordered'
    <2>1. Numbered'
      BY <1>2, NumberedSubset DEF Start, Ordered
    <2>2. \A v \in Worker : v = w
      BY DEF OneWorker
    <2>3. Alone(w)'
      BY <1>2 DEF Start, TypeOK, Ordered, Alone, Held, Filling
    <2>. QED BY <2>1, <2>2, <2>3 DEF Ordered
  <1>3. ASSUME NEW w \in Worker, Crash(w) PROVE Ordered'
    <2>1. Numbered' /\ \A v \in Worker : v = w
      BY <1>3, NumberedSubset DEF Crash, Ordered, OneWorker
    <2>. QED BY <1>3, <2>1, AloneAfterStop DEF Crash, Ordered
  <1>. QED BY <1>1, <1>2, <1>3, OrderedStep
           DEF Next, ProcessChanges, RetryDeadLetters, Publish, DrainBatch, vars

\* The files of a worker alone on its cache_dir are numbered in the order of their events,
\* and the snapshot it delivers is what is left to deliver.
THEOREM OrderOnDisk ==
    ASSUME IdsAreDistinct, OneWorker
    PROVE  Spec => []Ordered
  <1>1. Init => Ordered
    BY DEF Init, Ordered, Numbered, Alone, OneFileEach, Held, Filling
  <1>2. TypeOK /\ Custody /\ Fresh /\ Ordered /\ [Next]_vars => Ordered'
    BY OrderedInductive
  <1>. QED BY <1>1, <1>2, TypeCorrect, CustodyInvariant, FreshInvariant, PTL DEF Spec

\* With one worker, an event is attempted only when no older one is undelivered, in memory
\* or on disk, through any crashes, lost counters and re-drives.
THEOREM InOrder ==
    ASSUME IdsAreDistinct, OneWorker
    PROVE  Spec => []DeliveredInOrder
  <1>1. Ordered => DeliveredInOrder
    BY DEF Ordered, Alone, DeliveredInOrder, Delivering, Held, Filling
  <1>. QED BY <1>1, OrderOnDisk, PTL

\* Without a crash, an event has one file, and one that was handled has it only until it is
\* settled.
Redriving(w) ==
    call[w] = "redrive" =>
        /\ pc[w] \notin Filling \cup {"fetch", "relist", "unlink"}
        /\ pc[w] = "next" => todo[w] \subseteq dead
        /\ pc[w] \in Held => cur[w] \notin todo[w] /\ todo[w] \cup {cur[w]} \subseteq dead
        /\ pc[w] = "bury" => found[w] = cur[w]

Settling(e, label) == \E w \in Worker : pc[w] = label /\ cur[w].ev = e

Once ==
    /\ handled \subseteq buffered
    /\ crashes = 0 =>
        /\ OneFileEach(dead)
        /\ \A f \in pending, g \in dead : f.ev = g.ev => Settling(f.ev, "unlink")
        /\ \A f \in pending \cup dead : f.ev \in handled => Settling(f.ev, "settle")
        /\ \A w \in Worker : Redriving(w)

\* Without a crash, a file lives as long as its event is to be settled.
LEMMA OnceStep ==
    ASSUME IdsAreDistinct, OneWorker, TypeOK, Custody, Fresh, Ordered, Once,
           NEW w \in Worker, Step(w)
    PROVE  Once'
  <1>. USE DEF Goto, server, disk, local, history
  <1>t. /\ Events(pending) \subseteq Event /\ Events(dead) \subseteq Event
        /\ pending \subseteq File /\ dead \subseteq File
    BY DEF Custody, OnDisk, TypeOK
  <1>w. Alone(w) /\ Numbered
    BY DEF Ordered
  <1>only. \A v \in Worker : v = w
    BY DEF OneWorker
  <1>e. /\ \A f \in pending \cup dead : f.ev \in buffered
        /\ pc[w] \in Held => cur[w].ev \in buffered
    BY DEF Custody, OnDisk, Events, Held
  <1>c. crashes' = crashes /\ (handled' = handled \/ HandlerSucceeds(w))
    BY DEF Step, Deliver, ProcessStep, RedriveStep,
           NextEvent, HandlerSucceeds, HandlerFails, LookupFails,
           DecryptFails, ListPending, Fetch, ReadSeq, WriteSeq, WriteEvent, Relist, NextCycle,
           Ack, DeadLetterRead, DeadLetterWrite, DeadLetterUnlink, ListDead, RedriveReturns,
           RemoveDeadLetter, UpdateRead, UpdateWrite
  <1>h. handled' \subseteq buffered'
    <2>1. CASE HandlerSucceeds(w)
      BY <1>e, <2>1 DEF HandlerSucceeds, Once, Held
    <2>2. buffered \subseteq buffered'
      BY DEF Step, Deliver, ProcessStep, RedriveStep,
             NextEvent, HandlerSucceeds, HandlerFails, LookupFails,
             DecryptFails, ListPending, Fetch, ReadSeq, WriteSeq, WriteEvent, Relist,
             NextCycle, Ack, DeadLetterRead, DeadLetterWrite, DeadLetterUnlink, ListDead,
             RedriveReturns, RemoveDeadLetter, UpdateRead, UpdateWrite
    <2>. QED BY <1>c, <2>1, <2>2 DEF Once
  <1>0. SUFFICES ASSUME crashes = 0
                 PROVE  /\ OneFileEach(dead)'
                        /\ \A f \in pending', g \in dead' :
                             f.ev = g.ev => pc'[w] = "unlink" /\ cur'[w].ev = f.ev
                        /\ \A f \in pending' \cup dead' :
                             f.ev \in handled' => pc'[w] = "settle" /\ cur'[w].ev = f.ev
                        /\ Redriving(w)'
    BY <1>c, <1>h, <1>only DEF Once, Settling
  <1>d. /\ OneFileEach(dead)
        /\ \A f \in pending, g \in dead : f.ev = g.ev => pc[w] = "unlink" /\ cur[w].ev = f.ev
        /\ \A f \in pending \cup dead :
             f.ev \in handled => pc[w] = "settle" /\ cur[w].ev = f.ev
        /\ Redriving(w)
    BY <1>0, <1>only DEF Once, Settling
  \* Steps that leave the files alone.
  <1>same. ASSUME UNCHANGED <<pending, dead, handled>>, pc[w] \notin {"unlink", "settle"},
                  Redriving(w)'
           PROVE  /\ OneFileEach(dead)'
                  /\ \A f \in pending', g \in dead' :
                       f.ev = g.ev => pc'[w] = "unlink" /\ cur'[w].ev = f.ev
                  /\ \A f \in pending' \cup dead' :
                       f.ev \in handled' => pc'[w] = "settle" /\ cur'[w].ev = f.ev
                  /\ Redriving(w)'
    BY <1>d, <1>same DEF OneFileEach
  <1>stop. ASSUME Stop(w) PROVE Redriving(w)'
    BY <1>stop DEF Stop, Redriving, Held, Filling, TypeOK
  <1>1. CASE NextEvent(w)
    <2>1. PICK f \in todo[w] :
            cur' = [cur EXCEPT ![w] = f] /\ todo' = [todo EXCEPT ![w] = @ \ {f}]
      BY <1>1 DEF NextEvent, Oldest
    <2>2. Redriving(w)'
      BY <1>1, <1>d, <2>1 DEF NextEvent, TypeOK, Redriving, Held, Filling
    <2>. QED BY <1>1, <1>same, <2>2 DEF NextEvent
  <1>2. CASE HandlerSucceeds(w)
    <2>1. Redriving(w)'
      BY <1>2, <1>d DEF HandlerSucceeds, TypeOK, Redriving, Held, Filling
    <2>2. pc'[w] = "settle" /\ UNCHANGED <<pending, dead, cur>>
          /\ handled' = handled \cup {cur[w].ev} /\ pc[w] = "try"
      BY <1>2 DEF HandlerSucceeds, TypeOK
    <2>. QED BY <1>d, <2>1, <2>2 DEF OneFileEach
  <1>3. CASE FailsAndRetries(w)
    BY <1>3, <1>d, <1>same DEF FailsAndRetries, Failing, Retries, Redriving
  <1>4. CASE FailsForGood(w) \/ DecryptFails(w)
    <2>1. Redriving(w)'
      <3>1. CASE Stop(w)
        BY <1>stop, <3>1
      <3>2. CASE ~ Stop(w)
        BY <1>4, <1>d, <3>2 DEF FailsForGood, Failing, Exhausts, DecryptFails, GiveUp, TypeOK, Redriving, Held, Filling
      <3>. QED BY <3>1, <3>2
    <2>. QED BY <1>4, <1>same, <2>1 DEF FailsForGood, Failing, Exhausts, DecryptFails
  <1>5. CASE ListPending(w) \/ NextCycle(w)
    BY <1>5, <1>same DEF ListPending, NextCycle, Redriving
  <1>6. CASE ListDead(w)
    BY <1>6, <1>same DEF ListDead, TypeOK, Redriving, Held, Filling
  <1>7. CASE Fetch(w)
    <2>1. Stop(w) \/ Goto(w, "seq")
      BY <1>7 DEF Fetch
    <2>2. Redriving(w)'
      BY <1>7, <1>d, <1>stop, <2>1 DEF Fetch, Redriving, Held, Filling, TypeOK
    <2>. QED BY <1>7, <1>same, <2>2 DEF Fetch
  <1>8. CASE ReadSeq(w) \/ WriteSeq(w)
    <2>1. Redriving(w)'
      BY <1>8, <1>d DEF ReadSeq, WriteSeq, Redriving, Filling
    <2>. QED BY <1>8, <1>same, <2>1 DEF ReadSeq, WriteSeq
  <1>9. CASE Relist(w)
    <2>1. Redriving(w)'
      BY <1>9, <1>d DEF Relist, Redriving
    <2>. QED BY <1>9, <1>same, <2>1 DEF Relist
  <1>10. CASE WriteEvent(w)
    <2>1. PICK e \in batch[w] :
            /\ pending' = Put(pending, [seq |-> next[w], ev |-> e, attempts |-> 0])
            /\ Goto(w, IF batch[w] = {e} THEN "relist" ELSE "seq")
      BY <1>10 DEF WriteEvent
    <2>2. e \notin buffered
      BY DEF Fresh
    <2>3. \A f \in pending' : f \in pending \/ f.ev = e
      BY <2>1 DEF Put
    <2>4. UNCHANGED <<dead, handled>> /\ pc[w] = "write"
      BY <1>10 DEF WriteEvent
    <2>5. Redriving(w)'
      BY <1>10, <1>d DEF WriteEvent, Redriving, Filling
    <2>6. handled \subseteq buffered
      BY DEF Once
    <2>. QED BY <1>d, <1>e, <2>2, <2>3, <2>4, <2>5, <2>6 DEF OneFileEach
  <1>11. CASE Ack(w)
    <2>1. cur[w] \notin todo[w] /\ pending = todo[w] \cup {cur[w]}
      BY <1>11, <1>w DEF Ack, Alone, Held
    <2>2. Find(pending, cur[w]) = {cur[w]}
      BY <1>t, <1>w, <2>1, FindAlone DEF Numbered
    <2>3. pending' = pending \ {cur[w]} /\ UNCHANGED <<dead, handled>> /\ call[w] = "process"
          /\ call' = call /\ pc[w] = "settle"
      BY <1>11, <2>2 DEF Ack
    <2>4. \A f \in pending' \cup dead' : f.ev \notin handled
      BY <1>d, <1>w, <2>1, <2>3 DEF Numbered, OneFileEach
    <2>. QED BY <1>d, <2>3, <2>4 DEF Redriving, OneFileEach
  <1>12. CASE DeadLetterRead(w)
    BY <1>12, <1>same DEF DeadLetterRead, GivenUp, Redriving
  <1>13. CASE DeadLetterWrite(w)
    <2>. DEFINE new == [found[w] EXCEPT !.attempts = attempts[w]]
    <2>1. new.ev = found[w].ev /\ dead' = Put(dead, new)
      BY <1>13 DEF DeadLetterWrite, TypeOK, File
    <2>. HIDE DEF new
    <2>2. found[w] = cur[w] /\ cur[w] \in pending
      BY <1>13, <1>w DEF DeadLetterWrite, Alone, Held
    <2>3. pc[w] = "bury" /\ pc'[w] = "unlink" /\ UNCHANGED <<pending, handled, cur>>
          /\ call'[w] = "process"
      BY <1>13 DEF DeadLetterWrite, TypeOK
    <2>4. cur[w].ev \notin Events(dead) /\ cur[w].ev \notin handled
      BY <1>d, <2>2, <2>3 DEF Events
    <2>5. \A f \in dead' : f \in dead \/ f = new
      BY <2>1 DEF Put
    <2>6. OneFileEach(dead)'
      BY <1>d, <2>1, <2>2, <2>4, <2>5 DEF OneFileEach, Events
    <2>7. \A f \in pending', g \in dead' : f.ev = g.ev => cur'[w].ev = f.ev
      BY <1>d, <2>1, <2>2, <2>3, <2>5
    <2>8. \A f \in pending' \cup dead' : f.ev \notin handled'
      BY <1>d, <2>1, <2>2, <2>3, <2>4, <2>5
    <2>. QED BY <2>3, <2>6, <2>7, <2>8 DEF Redriving
  <1>14. CASE DeadLetterUnlink(w)
    <2>1. pending' \subseteq pending /\ UNCHANGED <<dead, handled, call>> /\ pc[w] = "unlink"
      BY <1>14 DEF DeadLetterUnlink
    <2>2. CASE call[w] = "process"
      <3>1. cur[w] \in pending /\ found[w] = cur[w]
        BY <1>w, <2>1, <2>2 DEF Alone, Held
      <3>2. SameName(cur[w], cur[w])
        BY DEF SameName
      <3>3. \A f \in pending' : f.ev # cur[w].ev
        BY <1>14, <1>w, <2>1, <3>1, <3>2 DEF DeadLetterUnlink, Numbered, OneFileEach
      <3>. QED BY <1>d, <2>1, <2>2, <3>3 DEF Redriving, OneFileEach
    <2>3. CASE call[w] = "redrive"
      BY <1>d, <2>1, <2>3 DEF Redriving
    <2>. QED BY <2>2, <2>3 DEF TypeOK
  <1>15. CASE RedriveReturns(w)
    BY <1>15, <1>same, <1>stop DEF RedriveReturns
  <1>16. CASE RemoveDeadLetter(w)
    <2>1. cur[w] \notin todo[w] /\ todo[w] \subseteq dead /\ cur[w] \in dead
      BY <1>16, <1>d DEF RemoveDeadLetter, Redriving, Held, Filling
    <2>2. Find(dead, cur[w]) = {cur[w]}
      BY <1>t, <1>d, <2>1, FindAlone
    <2>3. dead' = dead \ {cur[w]} /\ UNCHANGED <<pending, handled, todo>> /\ pc[w] = "settle"
          /\ pc'[w] = "next"
      BY <1>16, <2>2 DEF RemoveDeadLetter, TypeOK
    <2>4. \A f \in pending' \cup dead' : f.ev \notin handled
      BY <1>d, <2>1, <2>3 DEF OneFileEach
    <2>5. Redriving(w)'
      BY <2>1, <2>3 DEF Redriving, Held, Filling
    <2>. QED BY <1>d, <2>3, <2>4, <2>5 DEF OneFileEach
  <1>17. CASE UpdateRead(w)
    <2>1. cur[w] \in dead
      BY <1>17, <1>d DEF UpdateRead, GivenUp, Redriving, Held, Filling
    <2>2. Find(dead, cur[w]) = {cur[w]}
      BY <1>t, <1>d, <2>1, FindAlone
    <2>3. found'[w] = cur[w] /\ pc'[w] = "bury"
      BY <1>17, <2>2 DEF UpdateRead, TypeOK
    <2>4. Redriving(w)'
      BY <1>17, <1>d, <2>3 DEF UpdateRead, GivenUp, Redriving, Held, Filling
    <2>. QED BY <1>17, <1>same, <2>4 DEF UpdateRead, GivenUp
  <1>18. CASE UpdateWrite(w)
    <2>. DEFINE new == [found[w] EXCEPT !.attempts = IF attempts[w] > @ THEN attempts[w] ELSE @]
    <2>1. new.ev = found[w].ev /\ new.seq = found[w].seq /\ dead' = Put(dead, new)
      BY <1>18 DEF UpdateWrite, TypeOK, File
    <2>. HIDE DEF new
    <2>2. found[w] = cur[w] /\ cur[w] \in dead /\ cur[w] \notin todo[w] /\ todo[w] \subseteq dead
      BY <1>18, <1>d DEF UpdateWrite, Redriving, Held, Filling
    <2>3. pc[w] = "bury" /\ pc'[w] = "next" /\ UNCHANGED <<pending, handled, todo>>
      BY <1>18 DEF UpdateWrite, TypeOK
    <2>4. dead' = (dead \ {cur[w]}) \cup {new}
      BY <1>t, <1>d, <2>1, <2>2, PutNewer
    <2>5. OneFileEach(dead)'
      BY <1>d, <2>1, <2>2, <2>4 DEF OneFileEach
    <2>6. Redriving(w)'
      BY <2>2, <2>3, <2>4 DEF Redriving, Held, Filling
    <2>. QED BY <1>d, <2>1, <2>2, <2>3, <2>4, <2>5, <2>6
  <1>. QED BY <1>1, <1>2, <1>3, <1>4, <1>5, <1>6, <1>7, <1>8, <1>9, <1>10, <1>11, <1>12, AttemptFails,
              <1>13, <1>14, <1>15, <1>16, <1>17, <1>18
           DEF Step, Deliver, ProcessStep, RedriveStep

\* ... and nothing but a crash ends that.
LEMMA OnceInductive ==
    ASSUME IdsAreDistinct, OneWorker, TypeOK, Custody, Fresh, Ordered, Once, [Next]_vars
    PROVE  Once'
  <1>. USE DEF Goto, server, disk, local, history
  <1>1. ASSUME UNCHANGED <<disk, pc, local, handled, buffered, crashes>> PROVE Once'
    BY <1>1 DEF Once, Settling, Redriving, OneFileEach
  <1>2. ASSUME NEW w \in Worker, NEW o, NEW c, Start(w, c, o) PROVE Once'
    <2>1. \A v \in Worker : v = w
      BY DEF OneWorker
    <2>2. UNCHANGED <<pending, dead, handled, buffered, crashes>> /\ pc[w] = "idle"
          /\ pc'[w] = "list"
      BY <1>2 DEF Start, TypeOK
    <2>. QED BY <2>1, <2>2 DEF Once, Settling, Redriving, OneFileEach, Held, Filling
  <1>3. ASSUME NEW w \in Worker, Crash(w) PROVE Once'
    BY <1>3 DEF Crash, Once, TypeOK
  <1>. QED BY <1>1, <1>2, <1>3, OnceStep
           DEF Next, ProcessChanges, RetryDeadLetters, Publish, DrainBatch, vars

\* With one worker, an event that was handled is attempted again only after a crash.
THEOREM NoDuplicates ==
    ASSUME IdsAreDistinct, OneWorker
    PROVE  Spec => []NoDuplicateWithoutCrash
  <1>1. Init => Once
    BY DEF Init, Once, OneFileEach, Redriving, Held, Filling
  <1>2. TypeOK /\ Custody /\ Fresh /\ Ordered /\ Once /\ [Next]_vars => Once'
    BY OnceInductive
  <1>3. TypeOK /\ Ordered /\ Once => NoDuplicateWithoutCrash
    <2>. SUFFICES ASSUME TypeOK, Ordered, Once, NEW w \in Worker,
                         pc[w] = "try", cur[w].ev \in handled, crashes = 0
                  PROVE  FALSE
      BY DEF NoDuplicateWithoutCrash, TypeOK
    <2>1. cur[w] \in pending \cup dead
      <3>1. CASE call[w] = "process"
        BY <3>1 DEF Ordered, Alone, Held
      <3>2. CASE call[w] = "redrive"
        BY <3>2 DEF Once, Redriving, Held, Filling
      <3>. QED BY <3>1, <3>2 DEF TypeOK
    <2>2. Settling(cur[w].ev, "settle")
      BY <2>1 DEF Once
    <2>. QED BY <2>2 DEF Settling, OneWorker
  <1>. QED BY <1>1, <1>2, <1>3, TypeCorrect, CustodyInvariant, FreshInvariant, OrderOnDisk,
              PTL DEF Spec
=============================================================================
