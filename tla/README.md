# TLA+ models of the company-data Go SDK

This directory holds TLA+ modules that model the parts of the SDK
(`src/companydata/`) and of its example server (`src/examples/`) whose correctness
depends on the order of events: what happens when a process dies between two file
operations, when a signal arrives while a request is in flight, when two
processes take the same turn of a flow. TLC checks them on small instances; TLAPS
proves every safety property of the passing runs for every instance. All paths below are relative to
the repository; `pump.go` stands for `src/companydata/pump.go`, and so on.
`PROJECT.json` maps every definition to the lines it models.

## 1. The system

The SDK is a client library: one process, no server of its own. It talks HTTP to
the platform's API, keeps a cache directory for the changes pump, and everything
else in memory. The example programs are one HTTP server on top of it, with its
state in files.

| Part | Files | State it keeps | Operations | What makes it correct |
|---|---|---|---|---|
| Changes pump and durable buffer | `pump.go`, `buffer.go` | `pending/`, `deadletter/`, `.seq` in `cache_dir`; a batch and a snapshot in memory | `ProcessChanges`, `RetryDeadLetters`, `DrainBatch`, `DeadLetters` | nothing buffered is lost, feed order, bounded retries, a poison event never wedges the stream |
| Public-key caches | `client.go`, `customer.go`, `crypto.go:264-290` | key per share code, per user id, per service; generation counters | lookups on every encryption; `InvalidatePublicKey`, `InvalidateServiceKey` from the feed or a webhook | a rotated key never comes back; no caller seals to a key dropped before its call |
| Flow start | `client.go:1438-1600` | local to the call | `TriggerFlowRun` | one retry per kind of refusal, never with the refused key |
| HTTP transport | `http.go` | token, expiry, base URL | every request; `fetchToken`, `rebaseTo`, 401/421/429 loop, resend | bounded attempts; no stored token and base a lone request cannot recover from |
| Slug catalog and field-type registry | `client.go:330-545`, `fieldtypes.go`, `customer.go` | catalog, registry, negative caches, last error | `typeForSlug`, `prepareTyping`, `ensureTypesKnown` | one refetch per unknown name; an error is never remembered as an absence |
| Connections | `client.go:549-640`, `2147-2184` | page cursor in a goroutine | iterator, list, `resolveShareCode` | every row once; the goroutine ends |
| Documents, messages, logs | `client.go:852-1400`, `models.go` | row status on the platform | create, encrypt, upload, delete, send | sealed for the right person; no row left without its content |
| Flow runs | `client.go:1613-2081`, `2259-2291`, `customer.go`, `flowsources.go` | run status on the platform | submit, process, generate, for either side | the run moves on, once per step, and is generated from all of it |
| Flow conditions, constants, plugins | `flowcondition.go`, `flowconstants.go`, `plugin.go` | none; a plugin's key per call | evaluation, bounds, routing, plugin inputs | every party routes alike; evaluation ends; nothing private reaches a plugin |
| Field types, validation | `fieldtypes.go`, `fieldvalidation.go`, `countrydata.go` | none | validate, format | data rules |
| OAuth login, two-factor | `oauth.go`, `twofactor.go` | state on the platform | `PollResult`, `WaitForResult` | a result that is handed out once is not lost |
| Webhooks | `webhooks.go` | none | verify and parse one body | stateless |
| Cryptography | `crypto.go` | none | RSA, AES | out of scope of a model checker |
| Configuration, errors, models, XML | `config.go`, `errors.go`, `models.go`, `xml.go` | none | parsing | |
| Example server | `src/examples/` | config, key, run and route files; the pump's cache | setup, start, poll, callback, webhook, clear, for each scenario | keys and routes outlive other scenarios; a run reports what happened |

**How they interact.** The pump is given two closures by the client:
`fetchChanges` (a request over the transport) and `decryptChange`, which drops a
cached key when the event is a `key_rotated` and may ask the catalog for a type.
A document or message finds its person through the connections, then takes a key
from the caches. A flow step evaluates conditions and constants, asks plugins,
then seals per party. Every part is a sequence of requests over the transport.
The handler is user code that the pump calls back. Webhook consumers call
`InvalidatePublicKey` from goroutines of their own while other goroutines encrypt: the key caches and the
transport are the shared state of the library, each under a mutex that is never
held across a request. The example server is the opposite: one mutex over a whole
request, requests of the SDK to the platform included.

**What is hard.** The feed deletes what it returns, so the pump's disk is the
only copy; each file operation is a crash point; several processes may open one
`cache_dir` (the sequence lock is per process). Every cache fill is check,
unlock, request, lock, store. Token and base are two fields that are read and
stored in separate locked sections although a token is only good at one base. A
document is two requests with a third to undo the first. A flow run is read,
answered against the copy that was read, and generated in a call of its own; only
the platform knows how the run stands when a request arrives. A login result is
handed out once. `PROJECT.json` lists each such hazard at its line with the
properties that guard it, or why none does.

## 2. Modules

| Module | Models | Role |
|---|---|---|
| `Pump` | `pump.go`, `buffer.go` | component |
| `AtLeastOnce` | what the pump promises | abstract specification |
| `KeyCache` | key caches of both clients, `TriggerFlowRun` | component |
| `HttpClient` | `http.go` request loop | component |
| `Typing` | catalog and registry of both clients (`client.go:330-545`, `customer.go:704-863`, `Resolve` in `fieldtypes.go`) | component |
| `Connections` | reading lists by pages (`client.go:549-640`, `2147-2184`, the paged lists) | component |
| `Documents` | `CreateDocument`, `SendMessage`; extends `Connections` | composition |
| `FlowValues` | the values of answers, and the texts they are stored as | operators |
| `FlowAnswers` | conditions, expressions, plugin answers, bounds, the next node; extends `FlowValues` | operators |
| `FlowConstants` | `ComputeConstants`' search, `flowPrivacy` | component |
| `FlowRun` | the turn of either side of a run, and its plugins; extends `FlowValues` | component |
| `Runtime` | `runtime.go`, `server.go` of the examples | component |
| `IdentityDemo`, `FlowDemo`, `DataDemo` | `identity.go`, `flow.go`, `companydata.go`; each extends `Runtime` | components |
| `Demo` | the server with the three families | composition |
| `PumpProofs`, `KeyCacheProofs`, `TypingProofs`, `HttpProofs`, `DocumentsProofs`, `FlowConstantsProofs`, `FlowRunProofs`, `DemoProofs` | | theorems |
| `MC...` | | instances for TLC; `MCFlowRun` joins `FlowRun` with `FlowAnswers` |

Definitions whose comment begins with "Mutant of" are deliberate defects of the
definition they precede. No specification uses them: they are put in the place
of the original to see that a property notices.

### Pump

One step per file operation, request or handler call. `pc[w]` is where worker
`w` (a process with the directory open) stands; `"idle"` is between calls.
A file is a record `[seq, ev, attempts]`: its name is the zero-padded sequence
number and the sanitized id, `attempts` is the count in its `_deadletter` block.
`pending` and `dead` are the two directories, as sets, because every reader lists
a directory and sorts it. Contents are not modelled; the rename in
`atomicWriteJSON` makes a write one step, and `Put` replaces a file of the same
name.

* `ListPending, Fetch, ReadSeq, WriteSeq, WriteEvent, Relist, NextCycle` are
  `ProcessChanges` with `drainIntoBuffer`, `Append` and `nextSeq`.
* `NextEvent, HandlerSucceeds, HandlerFails` (which `Retries` or `Exhausts`), `LookupFails,
  DecryptFails` are `deliverOne`, and the same loop in `RetryDeadLetters`, told
  apart by `call[w]`.
* `Ack`; `DeadLetterRead, DeadLetterWrite, DeadLetterUnlink`; `RemoveDeadLetter`;
  `UpdateRead, UpdateWrite` are the buffer's methods, each file operation a step.
* `Crash` stops a worker between any two steps. It stands for an error of a
  request or a file operation too: each of those is returned at once and leaves
  what a crash at that point leaves (the lock and the temporary file apart). A
  fetch whose answer is lost is a crash right after `Fetch`: the server has
  deleted, nobody has the rows.
* `DrainBatch` hands events to the caller unbuffered; the caller then owns them,
  also when one of them fails to decrypt and the batch is not returned.
* `DecryptFails` is the end of an event that the caller's key does not open; such an event is
  dead-lettered, or halts the call, without a retry. A decrypt step that fails for another
  reason (a type lookup during an outage) goes the way of a handler error, as in
  `pump.go:249-258`: that is `LookupFails`, and `MaxOutages` bounds it.

`withDefaults` is applied to what the caller passed, so that the options in the
instances are raw `PumpOptions`, zero values included. `opens` stands beside them: the events
that the key of the call opens, since a re-drive may come with another key.

### KeyCache

Four kinds of entry: `"code"` and `"user"` are the service client's two maps,
`"person"` and `"service"` the customer client's. A key is its version on the
platform, 0 is "has no key". A lookup is `Hit`, or `Miss` (snapshot the generation, unlock),
`Fetch` (the answer of that moment), `Store` (if the generation is unchanged).
`Signal` delivers one `key_rotated` change, or the webhook's own call; `signals`
counts those not delivered yet, and one change may be delivered more than once
(the feed is at-least-once). `TriggerFlowRun` is `ReadFlow`, the lookup, `Post`,
and the two retries. `Fail` is any request error, the refusal that names the
company's own key, or a key that does not parse: the call returns the error.
The service client's generation is per share code for one map and one for the
whole of the other; here it is one per entry and a signal bumps all those the
code's one counter stands for.

### HttpClient

`tokenValid`, the token's read, `fetchToken`'s store, `base` and the two
halves of `rebaseTo` are separate locked sections and separate steps. A token is
the epoch of the platform it was minted in; a region move or a revocation starts
a new epoch. The platform's answers are the ones the code distinguishes: 2xx, 401
of a token that is not valid at that base, 421 naming the home base or none, 429,
anything else. `resends` counts `sendResendingOnce`'s second attempts.

### Typing

`kind` says which client runs: the service client with its slots, or the
customer client with the request rows of one service (one catalog stands for
its cache, whose entries only share the registry). `slots` and `rows` are the
platform's; both only grow. `catalog`, `registry`, `failed`, `unresolvedSlugs`,
`unresolvedTypes` and `resolved` are the client's fields. Each request and each
section the customer client locks is a step; the service client takes the same
steps without a lock. A call is `typeForSlug` on a value, `prepareTyping`, one
answer of `SubmitFlowAnswers` or one of `encryptTyped`:

* `Look, CatalogArrives, CatalogFails, Publish` are `RequestFields` with
  `loadRequestFields`, and `requestFieldTypes`. A failure is an error to one client
  and an empty service to the other, as the code's comment says it is.
* `ReadHeld, RowsArrive, RowsFail, Keep` are `FieldTypes` with `loadFieldTypes`;
  `CheckMissing` and `Rekeep` are `ensureTypesKnown`, whose caller goes on at
  `after`.
* `TypeForSlug` is `typeForSlug` with `ensureSlugKnown`; `ReadRegistry` and
  `Validate` use the registry, where `Resolve` fills its `resolved` map.

A registry has an identity, because a caller goes on with the one it read when
another is put in its place. `loads` and `denied` are history: registry fetches,
and the names a refetch made for them did not bring. The empty name, the type
`plugin` and what a type says about a value are left out.

### Connections and Documents

A `Walker` reads one list: `ConnectionsList` and callers of the iterator (`op` is
`"list"` or `"iterate"`), `resolveShareCode` (`"resolve"`), or a list that is paged in
the caller's own goroutine (`"pages"`: documents, logs, runs). `pc` is where the
goroutine stands and `reader` what has become of the receiving end of its
channel: `"reading"`, `"draining"` after `resolveShareCode` has returned, or `"left"`.
`PageArrives` is a page as it stands when it is asked for; `PageLimited` the backoff
loop of one page; `Take` and `GiveUpOffer` the two arms of the goroutine's select.
A reading looks for a connection, and what it finds is that row's share code.

A `Caller` writes. `Begin` makes the checks before the first request and chooses the
way to the person: `Resolve` (the connection itself), the scan (a reading of
`Connections`, with the caller's own context), `FetchKey`. The first two leave a share code in
`code`, and `FetchKey` takes the key of the code that was found. `Create`, `Upload` and
`Cleanup` are the requests that change something. `Outcome` is what can come of one:
done or not, and answered, failed, or closed and sent again by the transport.
`Expire` ends the context between any two steps; from then on every request fails.
`answered` and `excuse` are history: whether the caller was told of a row, and why one
was left.

### FlowAnswers, FlowConstants and FlowRun

A value (`FlowValues`) is what it shows (a number, a Boolean, a day, a word, a file, a
plugin's answer) and whether it is a text; `flowPlain` makes it a text, which is what is
sealed and what the other parties route and compute with. `EvaluateCondition`,
`evalExpr`, `ComputeConstants`, `flowBoundError` and `computeNextNode` (`FlowAnswers`) are
recursive operators over such values and follow the code's cases, over exact fractions
where the code has floats, and a calendar whose months have 30 days and whose years have
twelve of them. `MCFlowRun` has TLC compare rounding, remainders and the units of a date
difference with what defines them (`ArithmeticHolds`, `DifferencesHold`).

`FlowRun` takes what a definition computes as three constant operators: `LiveAnswers`
(`liveFlowAnswers`: plugin answers expanded and constants computed), `NextNode`
(`computeNextNode`) and `BoundError` (`flowBoundError`). `MCFlowRun` gives them the
operators of `FlowAnswers`, so that every step TLC takes evaluates the code's cases; the
proofs are about any operators in their place, with the hypotheses section 5 names.

`FlowConstants` is the search of `ComputeConstants` as a state machine, a step per
visit, with the recursion's stack as a variable, so that it can be proved about:
`Visit`, `Descend`, `Finish`, then the evaluation in order, then what
`pluginInputs` would send. A value there is the set of answers it may have come from;
what `isPrivate` sees of the answers behind a key is the keys it reaches by what it
follows, whatever the order was.

`FlowRun` has processes of the company and of a customer that is a company. A
turn is a sequence of requests: `TakeTurn` (or `CustomerFills` and `CustomerMarks`,
which reads the run once more, if there is an answer at all) up to the request that changes
it, `Submit`, and at a
leaf of a document flow `UploadInput` for each held source, `Generate` and `Refresh`.
A caller fills in all, some or none of the fields of its step, and may fill in a slug that
no step has (`Stray`, counted as a fault; a slug of another step is refused in the same way).
`Regenerate` starts from a run that is found generating. `AskPlugin, FetchPass,
CallPlugin` ask a plugin of the step, with the retries for a new key and a new pass; a
process of `Asker` may ask at any time and any number of times, also after other inputs were
sent. `isPrivate` follows what a constant's expression names, the default of a field that
is drafted on the run's step, and of a dotted key its plugin's slug; a run that is read without
`private_slugs` (`lists` is `FALSE`) hides every answer of another party.
Each works on the copy of the run it read; the platform's conditions are in `Takes`,
`Generates` and `Passed`. `Crash` stops a process between any two requests; an answer
may be lost after the platform acted, or the request sent twice (`Lost`). `docs` holds
the answers each document was generated from, `told` the stored answers that what was sent to
plugins came from. What will be sent is chosen when a process reads the run (`sends`), although
the pass is fetched in between, because it depends on that copy alone. What a call returns is not
modelled: one that leaves a run untouched, or refuses what was filled in, changes nothing and
is no step.

### Runtime, the three families and Demo

`Runtime` holds the server's files: `config` with the sidecar each scenario has,
`keys`, `runs`, `route`, `cache`. `busy` is the request that holds the server's mutex
while it waits for the platform; every request sweeps the runs whose 30 minutes are
over (`aged`). `Save`, `ClearScenario`, `ClearAll`, `Restart` are the setup page and a
start of the program.

`IdentityDemo` adds the platform's record of each login or challenge (`grant`) with
its hand-out-once rule, `StartIdentity`, `Callback`, and the polls; `lost` is history.
A challenge is approved, denied or revoked, or it expires; `Terminal` is what a read of one
that has ended may say: `gone` once it was handed out or its time is over. An answer that is
lost leaves the run pending, or ends it failed when what arrived cannot be read.
`FlowDemo` drives one step per poll. A step has no field, and then shows nothing; one whose
canned value fits; an email, filled in wrongly once; or one whose bounds the canned value
breaks, which is refused at every poll. One field stands for all of a step, and a step
with both an email and such a value behaves as the latter. `DataDemo` has the feed, the deliveries and
the documents of the example with their record and clean-up. `Demo` composes the
three over one set of files: any visitor's request of any family, clears and
restarts, and the platform's own steps.

## 3. Runs

| Run | Instance | Shows | Distinct states |
|---|---|---|---|
| `pump` | 1 worker, 3 events, 2 crashes, 1 outage, 3 option sets (batch 2, retry 1, default mode, a key that does not open event 2; batch 1, negative retries; default batch, halt) | the pump refines `AtLeastOnce`; order; no duplicate without a crash; the retry budget; what halt and a re-drive may do to the files; every buffered event is settled, every call returns | 218,187 |
| `pump_shared` | 2 workers on one directory, 2 events, 1 crash | `Custody`, the invariant of the proofs: nothing buffered is lost whatever two processes do to each other's files | 237,594 |
| `key_cache` | 2 callers, 1 owner, kinds code, user and person, 2 rotations, 1 publish | a dropped key never returns; what callers are handed; the retries of a start | 2,041,385 |
| `http` | 2 callers, 2 regions, one 429 retry, 1 move or revocation, 1 closed connection | a lone request is always served; the attempts are bounded; what is replayed | 3,023,589 |
| `typing` | either client, 1 caller, 3 slots and 3 types, some added late or never | the registry covers the catalog; an absence is a verdict; refetches are bounded | 329,649 |
| `documents` | 1 goroutine that reads or writes, 3 rows of which 2 have a share code, pages of 1 row, 1 change of the list, every shape of request and way to name the person, refusals, lost answers, closed connections, sealing failures | paging loses and repeats nothing; each document is sealed for its person; no row is left half made but for the named reasons; the goroutine ends | 132,432 |
| `flow_constants` | every graph of 3 constants over each other and one private answer, one declared twice; drafted defaults, plugin outputs, a constant with an answer's key | dependencies come first, only cycles are cut, nothing private is sent | 31,704 |
| `flow_run` | 2 processes of the company, of which one asks plugins, and 1 of the customer; a flow of three steps with bounds, constants, conditions and a plugin's answer, the same without `private_slugs`, one with the copy of a private answer on the step of that answer, and one the customer ends; 2 faults | the run goes where the stored answers lead; each document comes from the whole run, once; what is computed from private answers is marked, and sent to no plugin; the run is completed | 349,847 |
| `demo` | 10 scenarios in 8 sets of visitors, 3 flows, 2 runs, 2 saves, 1 restart or failure, 2 events | keys, route and record outlive what other scenarios do; outcomes are those of the platform; every polled run ends | 377,304 |
| `lost_in_flight`, `map_race`, `private_default` | the smallest instance of each | the findings below | |

Each passing run takes less than two minutes on four cores, `flow_run` two and `demo` about three; `key_cache`, `http` and
`pump_shared` use the symmetry of their callers, regions or workers, and check no liveness.

**Properties.** Each is stated in words where it is defined; by run:

* `pump`: `BufferedIsNeverLost`, `ImplementsAtLeastOnce` (the refinement), `DeliveredInOrder`,
  `NoDuplicateWithoutCrash`, `RetryBudget` (a call gives up on an event after all of its
  attempts and no earlier, and one that its key does not open burns none but for an outage),
  `NeverResurrected` (an event that is only
  in the dead-letter store is not pending again), `BufferedIsSettled`, `ProcessChangesReturns`.
  `pump_shared`: `Custody`. `lost_in_flight`: `DeletedIsNeverLost`.
* `key_cache`: `InvalidationDominates`, `QuietCacheIsCurrent`, `HandedOutIsFresh`,
  `StaleTwiceMeansRotatedTwice`. `http`: `AloneIsServed`, `SendBudget`,
  `ReplaysAreFirstDeliveries`. `typing`: `RegistryCoversCatalog`, `AbsenceIsAVerdict`,
  `RefetchesAreBounded`. `map_race`: `ResolvesAlone`.
* `documents`: `NothingSkipped`, `SealedForItsTarget`, `NoHalfDocument`, `GoroutineEnds`.
* `flow_constants`: `DependenciesFirst`, `OnlyCyclesAreCut`, `NothingPrivateIsSent`.
  `flow_run`: `RoutedAsStored` (typed values lead where the texts stored for the other
  parties lead), `GeneratedFromWholeRun`, `PrivateStaysPrivate`, `RunSettles`. `private_default`: `DefaultsAreMarked`.
* `demo`: `ConfigsKeepTheirKeys`, `RouteIsLive`, `SupersededStandsStill`,
  `CreatedIsRecorded` of the files; `ReportedAsAnswered` (a run reports how its login or
  challenge ended, and `gone` only if that was lost on its way or its time was over) and
  `RunsSettle` of the identity runs; `StepsAsSubmitted` of the flow runs.

`documents`, `flow_run` and `demo` check a `TypeOK` too. Those of every component are proved.

**Bounds.** Three events are enough for one to be delivered while another is
dead and a third is still in the feed, which is what order and reseeding need.
Two crashes let a crash fall into the recovery from a crash; two workers let each
file operation meet one of another process. One outage (`MaxOutages`) lets a lookup fail
before, between or instead of the failures of a handler. Two rotations give a key that
is stale twice; a third changes nothing a caller can tell. One owner is enough
for the key caches because entries interact only through `Dropped`, which takes
all entries by user id at once; the proof holds for any number. Two callers are
needed for every race between a store and a read. Kind `"service"` has the same
steps as `"person"` (own stream, a missing key is kept as an answer) and is left
out of the run, not of the proofs. Three slots and types give a catalog one name
that was there, one that comes later and one whose type may never be served; `typing`
has one caller because `Client` is for sequential use (`client.go:95`).
One move suffices for a token of each region; the 429 budget
enters `SendBudget` as a parameter. One goroutine is enough for `documents`, since
two share nothing but the platform's rows, which `Change` alters between any two
pages; with pages of one row the marker is used at every row, and a row may vanish
behind, at or ahead of it. `MaxDocs` = 2 leaves room for the second row that a request
sent twice creates. Three constants make every cycle up to length three, with a
branch into it; sharing, double declaration and shadowing need no more. Two
processes of the company race for one turn, and two faults let a crash be followed
by a lost answer in the recovery. What a plugin is asked does not change the run, so that one
process that asks (`Asker`) sees every order of its reads with the steps of the others. Only
the amount has several values: it decides routes and bounds, and which value a slug has says
nothing about privacy. One slug that no step has (`Stray`) stands for all.
`MaxShown` = 3 leaves a run room for an email refused, the same step accepted, and one more
entry. Two runs are one and its successor; two saves
change a config under a run.

**Fairness.** `pump` assumes weak fairness of each worker's steps (a call in
progress goes on; the handler and requests return), and strong fairness of
`ProcessChanges` with options that do not halt (`Skipping`): `docs/pump.md` leaves scheduling to the caller ("you
schedule re-runs"), and re-drives or `DrainBatch` calls of the same worker may
come in between, so the call is enabled again and again, not always. Crashes,
re-drives and new events are not fair. Crashes are bounded by `MaxCrashes`:
nothing settles in a process that dies for ever. With `OnErrorHalt` a poison event stops
the stream by design, until a call that does not halt.

`documents` assumes weak fairness of the goroutine with its receiver, and of the
steps of a call that writes: Go schedules them, and every request ends by its timeout.
Neither a reader that leaves nor the end of a context is fair. `flow_run` assumes that
a call ends (`[]<>At(p, "idle")`, a call has finitely many requests) and that a process
that may take its turn, or generate, again and again does so some time: the README of
the SDK asks callers to poll `FlowRuns` and to repeat a generate. Faults are bounded.
`demo` assumes that a handler goes on (the SDK's timeouts), that a page polls again and
again until its run is gone (its script does), and that the platform ends what nobody
answered (its TTL). Polling is strongly fair because the mutex is free again and again,
not always.

**Assumptions.** A token response names the home base. Every rotation is signalled
to each client's feed, an owner's first key included. A feed is consumed by one process: since a fetch deletes,
a second process with key caches of its own would not hear the signal.
Event ids are distinct. The platform takes answers only of the current step from the
party whose turn it is, some of its fields or none included (to refuse those is one of the
outcomes of `Lost`); it refuses a generate whose inputs are not the held ones, and
answers a repeated generate with the same documents. The markers of a list are
rows in the platform's order. What a person or a customer answers on a phone is
valid. A code, a challenge's answer and a login result are handed out once.

The modules name what they ask of their constants, and TLC evaluates it on each instance.
`Runtime`: what is saved has every field of a config, as the form sends it
(`SetupAssumption`). `Demo`: no scenario is of two families. `FlowDemo`: a flow is a sequence
of steps (`FlowsAssumption`). `FlowRun`: a
definition's steps have a party and fields of their own, its edges name steps that it has,
its constants have keys that no field has, and constants, defaults and wired inputs name keys
(`DefinitionAssumption`, `KeyAssumption`); what is filled in is a value (`FillAssumption`). The SDK takes
definitions as the platform publishes them and checks none of this. `Typing`: there are finitely many types.

## 4. Findings and observations

Three runs end in a violation of what the repository says:

* `lost_in_flight`: an event is lost if the process dies (or the answer does)
  between the server's delete and the end of `Append`; the docs say "Nothing the
  API deleted is lost".
* `map_race`: `encryptTyped` validates outside any lock, and `Resolve` fills the
  registry's plain map, so two concurrent encryptions race on it.
* `private_default`: the customer's `SubmitFlowAnswers` (`customer.go:376`) asks what the run
  it read says is private, before the marks of the answers it is about to post. An answer that
  is the default copy of a private one of the same body is stored unmarked; its comment
  (`customer.go:358-361`) says that every answer whose default reaches a private source is marked.

Met while modelling, and kept out of the properties or put into an assumption; each was
seen in the source, the ones marked TLC in a trace of the model too:

* Pump. Events without an id share the name part `noid` (`buffer.go:347`, `411-413`): a
  successful re-drive of one removes the dead letter of another (TLC, with a constant `Id`).
  `PumpOptions{}` gives up on an event at its first failure, since `withDefaults` (`pump.go:96`)
  leaves a zero `MaxRetries` alone and `defaultPumpMaxRetries` is never used; `pump.go:82`,
  `docs/pump.md:43` and `README.md:923` say that the default is 3 (TLC). `RetryBudget` is about
  the budget a call really has.
* Transport. `fetchToken` publishes the token before the base (`http.go:219`, `437`):
  a second request can take the new token to the front door, and by the time its 421
  arrives `rebaseTo` says "not moved", so a 421 surfaces that does name a base, which
  `docs/errors.md:60-61` excludes (TLC). It takes a second request, which is why
  `AloneIsServed` speaks of one that runs alone.
* Typing. With two goroutines an older registry can replace a newer one
  (`customer.go:769`) after the request types that need the newer one were cached (TLC).
* Documents. When the bytes cannot be sealed, `CreateDocument` returns without deleting
  the row it made (`client.go:1049-1060`), unlike a failed upload, whose comment says
  that "a failed CreateDocument leaves no dangling" document. The row of a request that
  was sent twice, or whose answer was lost, stays too; nobody knows its id.
* Flow runs. `CompanyPartyKey` (`models.go:765-772`) takes any one of the bindings, so
  `ProcessFlowRun` may return a run untouched that awaits the other party of a company
  bound twice. A run whose generate was never called stays in
  `generating`: `ProcessFlowRun` returns it untouched, only `GenerateFlowDocument` helps.
  The POST of answers names no step (`client.go:1904-1911`), so the platform cannot tell a late
  submit for an earlier step that has no answers, or only fields the current one also asks: it
  moves the run along an edge that was chosen for another step (TLC). `RoutedAsStored` therefore
  speaks of a post without answers only while all that is about to be posted is of the run's step. `Client.SubmitFlowAnswers` seals a
  file reference like any value, so that `heldSources` never sees the company's own file
  answers. A Boolean `false` that the company fills in equals `false` in a condition,
  its stored text "false" does not (`flowcondition.go:161-204`); the definitions of
  `flow_run` ask for numbers and texts, which route alike.
  `FlowRunParticipantDocument.Position` is always nil: `models.go` asserts a `float64`,
  the decoder makes `json.Number`.
* Constants. The comment at `flowconstants.go:329-330` says that the operand of a back
  edge reads nil; it reads the answer of the same key if there is one. A constant with
  the key of an answer is why `NothingPrivateIsSent` asks that constants have keys of
  their own. A run without `private_slugs` treats every answer of another party as private,
  and none of the caller's own, so that an answer of its own that was stored as the copy of a
  private one may be sent to a plugin.
* Example server. A second `/callback` overwrites a terminal outcome. An error of
  `doChanges` drops events that are acknowledged already. A failed `DrainBatch` loses its
  batch in `webhookFeedFallback`. Saving the webhook setup anew with another id makes
  deliveries of the active route 401. Clearing any company-data scenario wipes the pump's
  shared cache. One read error fails a flow run for good. A poll rewrites a pending
  identity run, so that the 30 minutes of a run that is polled never end.

## 5. Proofs

Every invariant and action property of the passing runs, and the refinement, is a
theorem; the component's assumptions on constants are all they rest on, apart from
the hypotheses named here. Each follows from an inductive invariant, whose proof has
a step per action.

`PumpProofs`, for any set of workers, events, options and any number of crashes:

* `TypeCorrect`.
* `CustodyInvariant`. `BufferedIsNeverLost` is not inductive: `DeadLetterUnlink` is
  safe only because the copy was written, `Ack` only because the handler
  returned. `Custody` says for each worker what it holds at each label: the event
  at hand was buffered, at `"settle"` it was handled, at `"unlink"` it is in
  `deadletter/` or was handled (another process may have re-driven it
  meanwhile). The proof goes action by action; it needs that file names identify
  events (`IdsAreDistinct`).
* `NeverLost` follows, and `Refinement`: every step maps to a step of `AtLeastOnce`
  or a stutter.
* `BudgetIsKept` (`RetryBudget`), for every budget a caller may pass and every set of events
  its key opens. `Budget` adds that a
  call begins with no attempt, and that an attempt is made only while some are left; beside it
  the attempts at an event that does not open are among the outages.
* `DeadLettersStay` (`NeverResurrected`), with any ids. `Fresh`: what a worker has fetched
  and not written was never on disk, and no other worker fetched it.
* With one worker on the directory and distinct ids: `OrderOnDisk`, from which `InOrder`
  (`DeliveredInOrder`) follows, and `NoDuplicates` (`NoDuplicateWithoutCrash`). `Ordered`
  says that pending files sort as their events do, that `.seq` is never behind a file, also
  when it was unreadable and reseeded, and that the snapshot a call delivers is what is left in
  `pending/`. `Once` adds that, until the first crash, each event has one file, but for
  the moment between the two writes that move it. Neither holds with two workers: both may list and
  deliver one file, and their counters are read and written under separate locks.

`KeyCacheProofs`, for any callers, owners and kinds:

* `TypeCorrect`.
* `FreshInvariant`. `InvalidationDominates` is not inductive: a `Store` could put
  back what was dropped. `Fresh` adds the generation argument: a caller whose
  snapshot equals the entry's generation holds a key at least as new as
  the last drop, and no caller holds a snapshot from the future.
* `Dominates`, `Current`, `HandedOut`, `StaleTwice` follow.

`HttpProofs`, for any callers, regions and 429 budget:

* `RequestsInvariant`. None of the three properties is inductive. `SendBudget` needs an
  account: each attempt beyond the first was paid for by a refresh, a rebase or a counted
  backoff, and a 421 on its way through `rebaseTo` has not paid yet. Replays need that
  an attempt the platform acted on was answered with a success or a failure, which end the
  request. `AloneIsServed` needs what a request knows that runs alone: after its refresh
  token and base are those of the home region, after its rebase the base is, and no
  other request or move can have changed them since.
* `BudgetHolds`, `FirstDeliveries`, `Alone` follow.

`TypingProofs`, for any slots, types and kinds:

* `TypeCorrect`, with any number of callers.
* `CatalogCovered` (`RegistryCoversCatalog`) and `AbsenceVerified`
  (`AbsenceIsAVerdict`), when there is one caller. `RegistryCoversCatalog` is not
  inductive: `Publish` stores a catalog that `ensureTypesKnown` settled several
  steps earlier. `IInv` adds what a call knows at each of its steps:
  which registry it has in hand and what its refetch brought (`EnsuringOK`), that the types
  of the catalog in hand are settled or still in `want` (`BodyOK`), that a slot asked for and not found was
  denied (`AskedOK`), and that the service client only validates a slot of the
  catalog in hand (`ValueOK`).
* `RefetchesBounded` (`RefetchesAreBounded`), for one caller. `LoadsInv` is an account: a
  refetch is made only for types that are not settled, and storing it settles them, so
  that each was paid for by a type that was learned or found absent. Only a refetch
  that is answered and not stored yet is still open.

`DocumentsProofs`, for any rows, requests, faults and number of callers:

* `Invariant`, in three parts. `Inv` says for each call at each label what it has asked and
  holds (from `"create"` on the key is that of its person, from `"upload"` on its row was
  answered), and for each row which call made it and that it is for the person of that
  call's request. `Matched` says that the share code a reading found is that of the person the
  call asked for: the key is of whatever code was found. `WalksInv`, for any page size and any
  number of readings: the rows that were there
  all along are in what was read or ahead of the marker, and all that is ahead is later in
  the platform's order than what was read.
* `TypeCorrect`, `PagingIsComplete` (`NothingSkipped`), `Sealing` (`SealedForItsTarget`, which
  is not inductive because the code is found, and the key fetched, steps before the row
  that it seals) and `NoneHalf` follow.

`FlowConstantsProofs`, for any definition:

* `TypeCorrect`, and `SearchInvariant`: the grey keys are the stack, without
  repetition, the black ones are the order, each frame of the stack has passed over
  only dependencies that are black or back edges, and along the stack ranks fall.
  `DependenciesFirst` alone is not inductive, since a key is put into the order steps
  after its dependencies were looked at.
* `Ordering` and `NothingElseIsCut` follow.
* `AllIsSeen`: no computed value has an answer behind it that `isPrivate`, which looks at
  the definition alone, does not reach. Values grow along `order`, while `isPrivate`
  goes along references in any order, so the invariant (`Watched`) compares the two
  by what is reachable. `PrivateStaysHere` (`NothingPrivateIsSent`) follows; both ask
  that no constant has the key of an answer (`OwnKeys`, section 4).

`FlowRunProofs`, for any processes, users, definitions, fills, faults and whatever
conditions and expressions compute:

* `TypeCorrect`, from `Shaped`.
* `GeneratedWhole` (`GeneratedFromWholeRun`). A process that goes through the inputs holds
  every answer of the run, and no answer is taken any more (`WholeRun`). The property is
  not inductive, since the copy was read several requests before `Generate`.
* `Privacy` (`PrivateStaysPrivate`), with or without the list of what is private, however
  often plugins are asked. Each process works on an old copy of the run:
  `KeptPrivate` says that a copy is the run as it is or of a step answered since
  (`AsOf`), that what is posted is marked as the copy tells (`Marked`), and that an input
  on its way to a plugin comes from answers that are not private and can no longer
  be marked so (`Knows`, `Since`). It asks of a definition that its steps lead on, without a
  cycle, and that a default leads to what is answered on its own step or before (`Forward`).
  What the theorem is about is the age of the copies; that the search itself finds every
  answer behind a value is `PrivateStaysHere`.
* `Routed` (`RoutedAsStored`). What is posted was accepted and routed over a copy of the
  run (`Filled`), and the platform takes it only if the copy is the run, or if it has no
  answers. It asks `Forward`
  and that conditions and bounds do not tell a value filled in from its text
  (`TextsAlike`); section 4 names a Boolean `false`, which is told from its text.

`MCFlowRun` has TLC check these two hypotheses on the definitions of `flow_run`, over every answer that may be held or stored (`ForwardHolds`,
`TextsDecideHolds`), and that `refs` is what the constants name (`RefsHold`). They are
hypotheses of two theorems, not assumptions of the module.

`DemoProofs`, for any setups, scenarios, flows and bounds:

* `TypeCorrect`, from `ServerOK`: the waiting request is about a run that exists.
* `RouteGoesWithItsRun` (`RouteIsLive`), and the action property `OldRunsStandStill`
  (`SupersededStandsStill`).
* `KeysAreKept` (`ConfigsKeepTheirKeys`): the key files of every config exist, because
  `gcConfigKeys` keeps what any remaining config names.
* `RecordIsKept` (`CreatedIsRecorded`): documents are numbered once, so that the record
  that a save carries over cannot name another.
* `AnswersAreReported` (`ReportedAsAnswered`). The request that polls holds the mutex
  across its requests, but the platform goes on: `AnswersOK` says that what was handed
  out is shown, lost with its answer, or in the hands of the request that completes it, and
  that nothing but an outcome of the platform is shown, a time that is over included.
* `StepsAreShown` (`StepsAsSubmitted`): the steps shown are those with a field that the platform
  took of the company, in order, each email refused exactly once before and nothing else
  ever. `Tracks` adds where the platform stands, what the next step may have been refused,
  and the one step that a failed run may be behind.

Only model-checked:

* liveness, which is out of TLAPS's reach: `BufferedIsSettled`, `ProcessChangesReturns`,
  `GoroutineEnds`, `RunSettles`, `RunsSettle`;
* what the recursive operators of `FlowAnswers` compute: that the code's conditions and
  expressions satisfy `TextsAlike` is evaluated on the definitions of the runs, since it would
  take induction over expressions.

## 6. Not modelled, and the plan

* Durations (backoff, Retry-After, expiry arithmetic) and file contents. The 64-bit
  overflow of the default backoff is listed as a hazard without a property.
* Cryptography, webhook verification, configuration, errors, XML: bytes and parsing,
  no order of events. Field validation: formats and country tables, data.
* Of documents: edits, deletes, signatures and reads of one row, one request each.
* Of flow runs: the text of tags, the list of runs; of plugins: the catalog and the
  conversion of an input's value. Of the customer client: its calls of one request.
* Of OAuth: PKCE, URLs and the verification of tokens. Of the examples: pages, QR
  codes, logging, and the two scenarios that have the same control as another one:
  reading definitions, and the sign-in without claims.

Next, the most consequential first: `Typing` composed with `Pump` (a typing error inside
`decryptChange` is a handler error); the typing maps in `resolveShareCode`'s background
reader; the resend of a token request; OAuth's verifier and the polls of
`WaitForResult`. With them go the proofs that they keep: a pump whose handler errors come
from `Typing` still satisfies `Custody`, and a reading that types its rows still
satisfies `WalksInv`.
