-------------------------------- MODULE Pump --------------------------------
(***************************************************************************)
(* The changes pump (pump.go) over its durable buffer (buffer.go).         *)
(*                                                                         *)
(* The API's changes feed is a drain-on-fetch queue: a fetch deletes the   *)
(* rows it returns.  A worker (a process with the cache_dir open) persists *)
(* a fetched batch one file at a time under pending/, delivers it file by  *)
(* file, and acks, retries or dead-letters each event.  A second call,     *)
(* RetryDeadLetters, re-drives deadletter/.  Every step below is one file  *)
(* operation, one request or one handler call, so that a crash or another  *)
(* worker on the same directory can fall between any two of them.          *)
(***************************************************************************)
EXTENDS Integers, FiniteSets

CONSTANTS
    Worker,      \* processes that share one cache_dir
    Event,       \* change events, numbered in the order the feed carries them
    Id,          \* event -> what sanitizeID makes of its id in a file name
    Requests,    \* the PumpOptions callers pass, with what the service's key opens
    MaxOutages,  \* bound: how many lookups of a field type may fail
    MaxCrashes   \* bound: how many crashes or I/O errors a behaviour may have

DefaultBatch == 100
MaxBatch == 500

\* opens: the events whose values the private key of the calling process opens.
RequestType == [batchSize : Int, maxRetries : Int,
                onError : {"", "deadletter", "halt"}, opens : SUBSET Nat]

ASSUME EventAssumption == Event \subseteq Nat
ASSUME RequestAssumption == Requests \subseteq RequestType
ASSUME MaxOutagesAssumption == MaxOutages \in Nat
ASSUME MaxCrashesAssumption == MaxCrashes \in Nat

VARIABLES
    feed,        \* events waiting on the server
    deleted,     \* events the server has deleted because a fetch returned them
    outages,     \* history: lookups of a field type that failed
    pending,     \* files in pending/
    dead,        \* files in deadletter/
    seqFile,     \* content of .seq, NoSeq when the file does not exist
    pc,          \* where each worker stands; "idle" between calls
    call,        \* the call in progress: "process" or "redrive"
    request,     \* the PumpOptions it was given, defaults not yet applied
    batch,       \* fetched events not yet persisted (memory only)
    next,        \* the sequence number nextSeq computed
    todo,        \* the snapshot being delivered
    cur,         \* the event being delivered
    attempts,    \* attempts made on cur
    found,       \* the file DeadLetterEvent / UpdateDeadLetter has read
    handled,     \* history: events some handler call returned nil for
    buffered,    \* history: events whose pending file was written
    returned,    \* history: events DrainBatch took
    crashes      \* history: crashes so far, bounded by MaxCrashes

disk == <<pending, dead, seqFile>>
server == <<feed, deleted, outages>>
local == <<call, request, batch, next, todo, cur, attempts, found>>
history == <<handled, buffered, returned, crashes>>
vars == <<server, disk, pc, local, history>>

NoSeq == -1

\* A stored event.  The file is named <seq>_<id>.json; attempts is the count in
\* its _deadletter block, 0 when it has none (every file in pending/).
File == [seq : Nat, ev : Nat, attempts : Nat]
NoFile == [seq |-> 0, ev |-> 0, attempts |-> 0]

SameName(f, g) == f.seq = g.seq /\ Id[f.ev] = Id[g.ev]

\* atomicWriteJSON: the rename replaces a file of the same name.
Put(dir, f) == {g \in dir : ~ SameName(f, g)} \cup {f}

\* findPendingFile / findDeadletterFile: the first name, in sorted order, whose
\* id part is the sanitized id; the set is empty when there is none.
Find(dir, f) ==
    {g \in dir : /\ Id[g.ev] = Id[f.ev]
                 /\ \A h \in dir : Id[h.ev] = Id[f.ev] => g.seq <= h.seq}

\* Mutant of Oldest: the directory is listed unsorted.
AnyOrder(files) == files

\* The file a sorted listing names first (ties: any order).
Oldest(files) == {f \in files : \A g \in files : f.seq <= g.seq}

clampBatch(n) == IF n < 1 THEN 1 ELSE IF n > MaxBatch THEN MaxBatch ELSE n

\* PumpOptions.withDefaults.
withDefaults(o) ==
    [batchSize  |-> clampBatch(IF o.batchSize = 0 THEN DefaultBatch ELSE o.batchSize),
     maxRetries |-> IF o.maxRetries < 0 THEN 0 ELSE o.maxRetries,
     onError    |-> IF o.onError = "" THEN "deadletter" ELSE o.onError]

opts(w) == withDefaults(request[w])
Opens(w) == cur[w].ev \in request[w].opens

\* The server's answer to GET /changes?limit=n: the oldest rows, at most n.
Drains(n) ==
    {S \in SUBSET feed : /\ Cardinality(S) <= n
                         /\ S = {} => feed = {}
                         /\ \A a \in S, b \in feed \ S : a < b}

Goto(w, label) == pc' = [pc EXCEPT ![w] = label]

-----------------------------------------------------------------------------
Init ==
    /\ feed = {}
    /\ deleted = {}
    /\ outages = 0
    /\ pending = {}
    /\ dead = {}
    /\ seqFile = NoSeq
    /\ pc = [w \in Worker |-> "idle"]
    /\ call = [w \in Worker |-> "process"]
    /\ request \in [Worker -> Requests]
    /\ batch = [w \in Worker |-> {}]
    /\ next = [w \in Worker |-> 0]
    /\ todo = [w \in Worker |-> {}]
    /\ cur = [w \in Worker |-> NoFile]
    /\ attempts = [w \in Worker |-> 0]
    /\ found = [w \in Worker |-> NoFile]
    /\ handled = {}
    /\ buffered = {}
    /\ returned = {}
    /\ crashes = 0

\* The platform appends a change to the feed.
Publish(e) ==
    /\ e \notin feed \cup deleted
    /\ \A d \in Event : d < e => d \in feed \cup deleted
    /\ feed' = feed \cup {e}
    /\ UNCHANGED <<deleted, outages, disk, pc, local, history>>

\* ProcessChanges and RetryDeadLetters are called with some options.
Start(w, c, o) ==
    /\ pc[w] = "idle"
    /\ call' = [call EXCEPT ![w] = c]
    /\ request' = [request EXCEPT ![w] = o]
    /\ Goto(w, "list")
    /\ UNCHANGED <<server, disk, batch, next, todo, cur, attempts, found, history>>

\* The call returns, or the process dies: whatever it held in memory is gone.
Stop(w) ==
    /\ Goto(w, "idle")
    /\ batch' = [batch EXCEPT ![w] = {}]
    /\ todo' = [todo EXCEPT ![w] = {}]
    /\ next' = [next EXCEPT ![w] = 0]
    /\ cur' = [cur EXCEPT ![w] = NoFile]
    /\ attempts' = [attempts EXCEPT ![w] = 0]
    /\ found' = [found EXCEPT ![w] = NoFile]
    /\ UNCHANGED <<call, request>>

\* A crash, or an error of a request or file operation: every such error is
\* returned to the caller at once, so it leaves what a crash leaves.
Crash(w) ==
    /\ pc[w] # "idle"
    /\ crashes < MaxCrashes
    /\ crashes' = crashes + 1
    /\ Stop(w)
    /\ UNCHANGED <<server, disk, handled, buffered, returned>>

-----------------------------------------------------------------------------
(* ProcessChanges: replay or drain.                                        *)

ListPending(w) ==
    /\ pc[w] = "list"
    /\ call[w] = "process"
    /\ todo' = [todo EXCEPT ![w] = pending]
    /\ Goto(w, IF pending = {} THEN "fetch" ELSE "next")
    /\ UNCHANGED <<server, disk, call, request, batch, next, cur, attempts, found, history>>

\* fetchChanges: the server deletes what it returns.  An empty answer ends the call.
Fetch(w) ==
    /\ pc[w] = "fetch"
    /\ \E S \in Drains(opts(w).batchSize) :
        /\ feed' = feed \ S
        /\ deleted' = deleted \cup S
        /\ IF S = {}
             THEN Stop(w)
             ELSE /\ batch' = [batch EXCEPT ![w] = S]
                  /\ Goto(w, "seq")
                  /\ UNCHANGED <<call, request, next, todo, cur, attempts, found>>
    /\ UNCHANGED <<outages, disk, history>>

\* nextSeq, first half: the counter in .seq; when it cannot be read, the highest
\* sequence number on disk.
ReadSeq(w) ==
    /\ pc[w] = "seq"
    /\ \/ /\ seqFile # NoSeq
          /\ next' = [next EXCEPT ![w] = seqFile + 1]
       \/ \E m \in {0} \cup {f.seq : f \in pending \cup dead} :
            /\ \A f \in pending \cup dead : f.seq <= m
            /\ next' = [next EXCEPT ![w] = m + 1]
    /\ Goto(w, "seqwrite")
    /\ UNCHANGED <<server, disk, call, request, batch, todo, cur, attempts, found, history>>

\* nextSeq, second half: the counter is durable before the event is.
WriteSeq(w) ==
    /\ pc[w] = "seqwrite"
    /\ seqFile' = next[w]
    /\ Goto(w, "write")
    /\ UNCHANGED <<server, pending, dead, local, history>>

\* Append, one event: its file is written in the order of the batch.
WriteEvent(w) ==
    /\ pc[w] = "write"
    /\ \E e \in batch[w] :
        /\ \A d \in batch[w] : e <= d
        /\ pending' = Put(pending, [seq |-> next[w], ev |-> e, attempts |-> 0])
        /\ buffered' = buffered \cup {e}
        /\ batch' = [batch EXCEPT ![w] = @ \ {e}]
        /\ Goto(w, IF batch[w] = {e} THEN "relist" ELSE "seq")
    /\ UNCHANGED <<server, dead, seqFile, call, request, next, todo, cur,
                   attempts, found, handled, returned, crashes>>

Relist(w) ==
    /\ pc[w] = "relist"
    /\ todo' = [todo EXCEPT ![w] = pending]
    /\ Goto(w, "next")
    /\ UNCHANGED <<server, disk, call, request, batch, next, cur, attempts, found, history>>

-----------------------------------------------------------------------------
(* Delivery: deliverOne, and the same loop in RetryDeadLetters.            *)

\* The next event of the snapshot, oldest first.
NextEvent(w) ==
    /\ pc[w] = "next"
    /\ \E f \in Oldest(todo[w]) :
        /\ cur' = [cur EXCEPT ![w] = f]
        /\ todo' = [todo EXCEPT ![w] = @ \ {f}]
    /\ attempts' = [attempts EXCEPT ![w] = 0]
    /\ Goto(w, "try")
    /\ UNCHANGED <<server, disk, call, request, batch, next, found, history>>

\* The snapshot is delivered: look at the buffer again.
NextCycle(w) ==
    /\ pc[w] = "next"
    /\ call[w] = "process"
    /\ todo[w] = {}
    /\ Goto(w, "list")
    /\ UNCHANGED <<server, disk, local, history>>

\* An attempt that succeeds: decrypt, then the handler returns nil.
HandlerSucceeds(w) ==
    /\ pc[w] = "try" /\ Opens(w)
    /\ attempts' = [attempts EXCEPT ![w] = @ + 1]
    /\ handled' = handled \cup {cur[w].ev}
    /\ Goto(w, "settle")
    /\ UNCHANGED <<server, disk, call, request, batch, next, todo, cur, found,
                   buffered, returned, crashes>>

\* Mutant of Retries: the budget is off by one.
RetriesOnceMore(w) ==
    /\ attempts[w] <= opts(w).maxRetries
    /\ attempts' = [attempts EXCEPT ![w] = @ + 1]
    /\ UNCHANGED <<pc, call, request, batch, next, todo, cur, found>>

\* A failure with budget left: back off, try again.
Retries(w) ==
    /\ attempts[w] + 1 <= opts(w).maxRetries
    /\ attempts' = [attempts EXCEPT ![w] = @ + 1]
    /\ UNCHANGED <<pc, call, request, batch, next, todo, cur, found>>

\* OnErrorHalt returns the error and leaves every file alone; otherwise the
\* event goes to (or stays in) the dead-letter store.
GiveUp(w, label) ==
    IF opts(w).onError = "halt"
      THEN Stop(w)
      ELSE /\ attempts' = [attempts EXCEPT ![w] = @ + 1]
           /\ Goto(w, label)
           /\ UNCHANGED <<call, request, batch, next, todo, cur, found>>

\* The last failure the budget allows.
Exhausts(w) == attempts[w] + 1 > opts(w).maxRetries /\ GiveUp(w, "exhausted")

\* The handler is called only with what was opened.
HandlerFails(w) ==
    /\ pc[w] = "try" /\ Opens(w)
    /\ Retries(w) \/ Exhausts(w)
    /\ UNCHANGED <<server, disk, history>>

\* The type of the value is looked up before the value is opened; a lookup that fails
\* goes the way of a handler error.
LookupFails(w) ==
    /\ pc[w] = "try" /\ outages < MaxOutages
    /\ outages' = outages + 1
    /\ Retries(w) \/ Exhausts(w)
    /\ UNCHANGED <<feed, deleted, disk, history>>

\* Mutant of DecryptFails: the error propagates out of ProcessChanges.
DecryptErrorEscapes(w) ==
    /\ pc[w] = "try" /\ ~ Opens(w)
    /\ Stop(w)
    /\ UNCHANGED <<server, disk, history>>

\* Mutant of DecryptFails: a decryption error is retried like any other.
RetriesPoison(w) ==
    /\ pc[w] = "try" /\ ~ Opens(w)
    /\ Retries(w) \/ (attempts[w] + 1 > opts(w).maxRetries /\ GiveUp(w, "poison"))
    /\ UNCHANGED <<server, disk, history>>

\* ErrDecrypt: no retry can help, the budget is not consulted.
DecryptFails(w) ==
    /\ pc[w] = "try" /\ ~ Opens(w)
    /\ GiveUp(w, "poison")
    /\ UNCHANGED <<server, disk, history>>

-----------------------------------------------------------------------------
(* Settling an event of pending/.                                          *)

\* Ack: the pending file is found by id and removed; nothing to do if it is gone.
Ack(w) ==
    /\ pc[w] = "settle"
    /\ call[w] = "process"
    /\ \/ \E f \in Find(pending, cur[w]) : pending' = pending \ {f}
       \/ Find(pending, cur[w]) = {} /\ UNCHANGED pending
    /\ Goto(w, "next")
    /\ UNCHANGED <<server, dead, seqFile, local, history>>

GivenUp(w) == pc[w] \in {"exhausted", "poison"}

\* Mutant of DeadLetterRead: the pending file is moved away as it is read.
DeletesFirst(w) ==
    /\ GivenUp(w)
    /\ call[w] = "process"
    /\ \/ \E f \in Find(pending, cur[w]) :
            /\ found' = [found EXCEPT ![w] = f]
            /\ pending' = pending \ {f}
            /\ Goto(w, "bury")
       \/ /\ Find(pending, cur[w]) = {}
          /\ Goto(w, "next")
          /\ UNCHANGED <<found, pending>>
    /\ UNCHANGED <<server, dead, seqFile, call, request, batch, next, todo, cur,
                   attempts, history>>

\* DeadLetterEvent, in its three file operations: read the pending file,
DeadLetterRead(w) ==
    /\ GivenUp(w)
    /\ call[w] = "process"
    /\ \/ \E f \in Find(pending, cur[w]) :
            /\ found' = [found EXCEPT ![w] = f]
            /\ Goto(w, "bury")
       \/ /\ Find(pending, cur[w]) = {}
          /\ Goto(w, "next")
          /\ UNCHANGED found
    /\ UNCHANGED <<server, disk, call, request, batch, next, todo, cur, attempts, history>>

\* ... write the dead-letter copy first,
DeadLetterWrite(w) ==
    /\ pc[w] = "bury"
    /\ call[w] = "process"
    /\ dead' = Put(dead, [found[w] EXCEPT !.attempts = attempts[w]])
    /\ Goto(w, "unlink")
    /\ UNCHANGED <<server, pending, seqFile, local, history>>

\* Mutant of DeadLetterUnlink: the pending file is left behind.
NeverUnlinks(w) ==
    /\ pc[w] = "unlink"
    /\ Goto(w, "next")
    /\ UNCHANGED <<server, disk, local, history>>

\* ... then unlink the pending file.
DeadLetterUnlink(w) ==
    /\ pc[w] = "unlink"
    /\ pending' = {f \in pending : ~ SameName(f, found[w])}
    /\ Goto(w, "next")
    /\ UNCHANGED <<server, dead, seqFile, local, history>>

-----------------------------------------------------------------------------
(* RetryDeadLetters.                                                       *)

ListDead(w) ==
    /\ pc[w] = "list"
    /\ call[w] = "redrive"
    /\ todo' = [todo EXCEPT ![w] = dead]
    /\ Goto(w, "next")
    /\ UNCHANGED <<server, disk, call, request, batch, next, cur, attempts, found, history>>

RedriveReturns(w) ==
    /\ pc[w] = "next"
    /\ call[w] = "redrive"
    /\ todo[w] = {}
    /\ Stop(w)
    /\ UNCHANGED <<server, disk, history>>

\* Mutant of RemoveDeadLetter: the record survives its successful re-drive.
KeepsRedriven(w) ==
    /\ pc[w] = "settle"
    /\ call[w] = "redrive"
    /\ Goto(w, "next")
    /\ UNCHANGED <<server, disk, local, history>>

\* Mutant of RemoveDeadLetter: the oldest record goes, whichever it is.
RemovesOldest(w) ==
    /\ pc[w] = "settle"
    /\ call[w] = "redrive"
    /\ \E f \in Oldest(dead) : dead' = dead \ {f}
    /\ Goto(w, "next")
    /\ UNCHANGED <<server, pending, seqFile, local, history>>

RemoveDeadLetter(w) ==
    /\ pc[w] = "settle"
    /\ call[w] = "redrive"
    /\ \/ \E f \in Find(dead, cur[w]) : dead' = dead \ {f}
       \/ Find(dead, cur[w]) = {} /\ UNCHANGED dead
    /\ Goto(w, "next")
    /\ UNCHANGED <<server, pending, seqFile, local, history>>

\* UpdateDeadLetter: read the record,
UpdateRead(w) ==
    /\ GivenUp(w)
    /\ call[w] = "redrive"
    /\ \/ \E f \in Find(dead, cur[w]) :
            /\ found' = [found EXCEPT ![w] = f]
            /\ Goto(w, "bury")
       \/ /\ Find(dead, cur[w]) = {}
          /\ Goto(w, "next")
          /\ UNCHANGED found
    /\ UNCHANGED <<server, disk, call, request, batch, next, todo, cur, attempts, history>>

\* Mutant of UpdateWrite: a still-failing re-drive goes back through pending/.
UpdatesThroughPending(w) ==
    /\ pc[w] = "bury"
    /\ call[w] = "redrive"
    /\ pending' = Put(pending, [found[w] EXCEPT !.attempts = 0])
    /\ Goto(w, "next")
    /\ UNCHANGED <<server, dead, seqFile, local, history>>

\* ... and rewrite it in place with the larger attempt count.
UpdateWrite(w) ==
    /\ pc[w] = "bury"
    /\ call[w] = "redrive"
    /\ dead' = Put(dead, [found[w] EXCEPT !.attempts =
                            IF attempts[w] > @ THEN attempts[w] ELSE @])
    /\ Goto(w, "next")
    /\ UNCHANGED <<server, pending, seqFile, local, history>>

-----------------------------------------------------------------------------
\* DrainBatch: fetched, decrypted and handed to the caller, never buffered.  What a
\* decrypt error makes of the batch is the caller's loss: it is not fetched again.
DrainBatch(w, n) ==
    /\ pc[w] = "idle"
    /\ \E S \in Drains(clampBatch(n)) \ {{}} :
        /\ feed' = feed \ S
        /\ deleted' = deleted \cup S
        /\ returned' = returned \cup S
    /\ UNCHANGED <<outages, disk, pc, local, handled, buffered, crashes>>

Deliver(w) ==
    \/ NextEvent(w) \/ HandlerSucceeds(w) \/ HandlerFails(w) \/ LookupFails(w)
    \/ DecryptFails(w)

ProcessStep(w) ==
    \/ ListPending(w) \/ Fetch(w) \/ ReadSeq(w) \/ WriteSeq(w) \/ WriteEvent(w)
    \/ Relist(w) \/ NextCycle(w) \/ Ack(w)
    \/ DeadLetterRead(w) \/ DeadLetterWrite(w) \/ DeadLetterUnlink(w)

RedriveStep(w) ==
    \/ ListDead(w) \/ RedriveReturns(w) \/ RemoveDeadLetter(w)
    \/ UpdateRead(w) \/ UpdateWrite(w)

Step(w) == Deliver(w) \/ ProcessStep(w) \/ RedriveStep(w)

ProcessChanges(w) == \E o \in Requests : Start(w, "process", o)
RetryDeadLetters(w) == \E o \in Requests : Start(w, "redrive", o)

Next ==
    \/ \E e \in Event : Publish(e)
    \/ \E w \in Worker :
        \/ ProcessChanges(w)
        \/ RetryDeadLetters(w)
        \/ \E o \in Requests : DrainBatch(w, o.batchSize)
        \/ Step(w)
        \/ Crash(w)

\* Option sets that do not halt at a failure.
Skipping == {o \in Requests : o.onError # "halt"}

\* A call in progress goes on, and the caller schedules ProcessChanges again and again
\* ("you schedule re-runs"), at times with options that do not halt; crashes and re-drives
\* are never promised.
Fairness ==
    \A w \in Worker : /\ WF_vars(Step(w))
                      /\ SF_vars(\E o \in Skipping : Start(w, "process", o))

Spec == Init /\ [][Next]_vars
FairSpec == Spec /\ Fairness

-----------------------------------------------------------------------------
(* Properties.                                                             *)

Labels == {"idle", "list", "fetch", "seq", "seqwrite", "write", "relist", "next",
           "try", "settle", "exhausted", "poison", "bury", "unlink"}

TypeOK ==
    /\ feed \subseteq Event
    /\ deleted \subseteq Event
    /\ outages \in 0 .. MaxOutages
    /\ pending \subseteq File
    /\ dead \subseteq File
    /\ seqFile \in Nat \cup {NoSeq}
    /\ pc \in [Worker -> Labels]
    /\ call \in [Worker -> {"process", "redrive"}]
    /\ request \in [Worker -> Requests]
    /\ batch \in [Worker -> SUBSET Event]
    /\ next \in [Worker -> Nat]
    /\ todo \in [Worker -> SUBSET File]
    /\ cur \in [Worker -> File]
    /\ attempts \in [Worker -> Nat]
    /\ found \in [Worker -> File]
    /\ handled \subseteq Nat
    /\ buffered \subseteq Event
    /\ returned \subseteq Event
    /\ crashes \in Nat

Events(files) == {f.ev : f \in files}
OnDisk == Events(pending) \cup Events(dead)

\* An event that reached the buffer stays on disk, pending or dead-lettered,
\* until a handler call for it has returned nil: whatever crashes, I/O errors and
\* workers on the same cache_dir do between two file operations.
BufferedIsNeverLost == buffered \subseteq OnDisk \cup handled

\* The stronger claim of the docs ("Nothing the API deleted is lost"): an event
\* the server deleted is in memory, on disk, handled, or was taken by DrainBatch.
DeletedIsNeverLost ==
    deleted \subseteq OnDisk \cup handled \cup returned
                        \cup UNION {batch[w] : w \in Worker}

Delivering(w) == call[w] = "process" /\ pc[w] = "try"

\* With one worker, an event is attempted only when no older event is still
\* undelivered, in the buffer or in memory: replay comes before drain, and the
\* file names sort in feed order across crashes and restarts.
DeliveredInOrder ==
    \A w \in Worker : Delivering(w) =>
        /\ batch[w] = {}
        /\ \A f \in pending : f.ev >= cur[w].ev

\* With one worker, an event is delivered again after it was handled only
\* because a crash fell between the handler's return and the ack.
NoDuplicateWithoutCrash ==
    \A w \in Worker : pc[w] = "try" /\ cur[w].ev \in handled => crashes > 0

\* A delivery ends within maxRetries + 1 attempts, and gives up on a failing handler or
\* lookup only after all of them.  An event that does not open burns none of them: it is
\* attempted again only if the lookup before the decryption failed.  (The budget is
\* opts(w).maxRetries, and that is 0 for options left at zero.)
RetryBudget ==
    \A w \in Worker :
        /\ attempts[w] <= opts(w).maxRetries + 1
        /\ pc[w] = "exhausted" => attempts[w] = opts(w).maxRetries + 1
        /\ pc[w] \in {"try", "exhausted"} /\ ~ Opens(w) => attempts[w] <= outages

\* An event that is in the dead-letter store only never becomes pending again.
NeverResurrected ==
    [][Events(dead) \ Events(pending) \subseteq Events(dead) \ Events(pending')]_vars

\* One poison event never wedges the stream: while ProcessChanges is scheduled again and
\* again, at times not to halt, every buffered event ends up handled or dead-lettered.
BufferedIsSettled ==
    \A e \in Event : e \in buffered ~> e \in handled \cup Events(dead)

\* A ProcessChanges call ends: handler failures are bounded by the budget.
ProcessChangesReturns ==
    \A w \in Worker : call[w] = "process" /\ pc[w] # "idle" ~> pc[w] = "idle"

-----------------------------------------------------------------------------
(* The pump implements the at-least-once queue.                            *)

Queue == INSTANCE AtLeastOnce WITH
    queue <- feed, taken <- deleted, kept <- buffered,
    owed <- OnDisk, done <- handled

\* Whatever the files and workers do, an event in custody is let go only after a
\* handler call for it returned nil.
ImplementsAtLeastOnce == Queue!QSpec

\* The invariant the proofs of BufferedIsNeverLost and ImplementsAtLeastOnce rest
\* on: what each worker holds between two file operations.
Custody ==
    /\ OnDisk \subseteq buffered
    /\ buffered \subseteq OnDisk \cup handled
    /\ \A w \in Worker :
        /\ batch[w] \subseteq deleted
        /\ Events(todo[w]) \subseteq buffered
        /\ pc[w] \in {"try", "settle", "exhausted", "poison", "bury", "unlink"}
                => cur[w].ev \in buffered
        /\ pc[w] = "settle" => cur[w].ev \in handled
        /\ pc[w] \in {"bury", "unlink"} => found[w].ev \in buffered
        /\ pc[w] = "unlink" => found[w].ev \in Events(dead) \cup handled
=============================================================================
