----------------------------- MODULE DemoProofs -----------------------------
(***************************************************************************)
(* Proofs about the example server with its three families of scenarios,   *)
(* for any setups, visitors, flows, events and bounds.                     *)
(***************************************************************************)
EXTENDS Demo, FiniteSetTheorems, SequenceTheorems, TLAPS

-----------------------------------------------------------------------------
(* Files and runs.                                                         *)

\* Writing a file leaves the others alone.
LEMMA PutWrites ==
    ASSUME NEW files, NEW name, NEW content
    PROVE  /\ DOMAIN Put(files, name, content) = DOMAIN files \cup {name}
           /\ Put(files, name, content)[name] = content
           /\ \A n \in DOMAIN files : n # name => Put(files, name, content)[n] = files[n]
  BY DEF Put

\* The runs that are kept are as they were.
LEMMA LiveRuns ==
    /\ DOMAIN Live = DOMAIN runs \ aged
    /\ \A r \in DOMAIN Live : r \in DOMAIN runs /\ Live[r] = runs[r]
  BY DEF Live, Restrict

RunFields ==
    {"scenario", "status", "wait", "result", "webhook", "events", "steps", "rejected"}
Statuses == {"pending", "done", "failed"}
StepType == [node : Nat, accepted : BOOLEAN]

\* A run file with all of its fields; only what is asked of a person is waited for.
IsRun(run) ==
    /\ run = [f \in RunFields |-> run[f]]
    /\ run.status \in Statuses
    /\ run.wait = "" \/ run.scenario \in Identity
    /\ run.steps \in Seq(StepType)
    /\ run.rejected \in SUBSET Nat

\* A run that differs from another in some fields only.
Alike(new, run, changed) == \A f \in RunFields \ changed : new[f] = run[f]

\* A new run shows nothing yet.
LEMMA RunIsRun ==
    ASSUME NEW s, NEW status \in Statuses
    PROVE  /\ IsRun(Run(s, status))
           /\ Run(s, status).scenario = s /\ Run(s, status).status = status
           /\ Run(s, status).events = <<>> /\ Run(s, status).steps = <<>>
           /\ Run(s, status).rejected = {} /\ Run(s, status).wait = ""
  <1>1. Run(s, status) = [f \in RunFields |-> Run(s, status)[f]]
    BY DEF Run, RunFields
  <1>2. <<>> \in Seq(StepType)
    OBVIOUS
  <1>3. /\ Run(s, status).scenario = s /\ Run(s, status).status = status
        /\ Run(s, status).events = <<>> /\ Run(s, status).steps = <<>>
        /\ Run(s, status).rejected = {} /\ Run(s, status).wait = ""
    BY DEF Run
  <1>. QED BY <1>1, <1>2, <1>3 DEF IsRun

\* Writing fields of a run leaves the others alone: its outcome,
LEMMA EditOutcome ==
    ASSUME NEW run, IsRun(run), NEW status \in Statuses, NEW result
    PROVE  LET new == [run EXCEPT !.status = status, !.result = result]
           IN  /\ IsRun(new) /\ new.status = status /\ new.result = result
               /\ Alike(new, run, {"status", "result"})
  BY DEF IsRun, Alike, RunFields

\* ... what it collected,
LEMMA EditEvents ==
    ASSUME NEW run, IsRun(run), NEW events
    PROVE  LET new == [run EXCEPT !.events = events]
           IN  IsRun(new) /\ Alike(new, run, {"events"})
  BY DEF IsRun, Alike, RunFields

\* ... how it is answered,
LEMMA EditWait ==
    ASSUME NEW run, IsRun(run), run.scenario \in Identity, NEW wait
    PROVE  LET new == [run EXCEPT !.wait = wait]
           IN  IsRun(new) /\ Alike(new, run, {"wait"})
  BY DEF IsRun, Alike, RunFields

\* ... the webhook it stands for,
LEMMA EditWebhook ==
    ASSUME NEW run, IsRun(run), NEW webhook
    PROVE  LET new == [run EXCEPT !.webhook = webhook]
           IN  IsRun(new) /\ new.webhook = webhook /\ Alike(new, run, {"webhook"})
  BY DEF IsRun, Alike, RunFields

\* ... a step,
LEMMA EditSteps ==
    ASSUME NEW run, IsRun(run), NEW n \in Nat, NEW accepted \in BOOLEAN
    PROVE  LET new == Step(run, n, accepted)
           IN  /\ IsRun(new) /\ Alike(new, run, {"steps"})
               /\ new.steps = Append(run.steps, [node |-> n, accepted |-> accepted])
  <1>. DEFINE step == [node |-> n, accepted |-> accepted]
  <1>1. Append(run.steps, step) \in Seq(StepType)
    BY AppendProperties DEF IsRun, StepType
  <1>. HIDE DEF step
  <1>2. Step(run, n, accepted) = [run EXCEPT !.steps = Append(run.steps, step)]
    BY DEF Step, step
  <1>. DEFINE steps == Append(run.steps, step)
  <1>. HIDE DEF steps
  <1>3. LET new == [run EXCEPT !.steps = steps]
        IN  IsRun(new) /\ Alike(new, run, {"steps"}) /\ new.steps = steps
    BY <1>1 DEF IsRun, Alike, RunFields, steps
  <1>. QED BY <1>2, <1>3 DEF steps, step

\* ... and a step that was refused.
LEMMA EditRefused ==
    ASSUME NEW run, IsRun(run), NEW n \in Nat
    PROVE  LET new == [Step(run, n, FALSE) EXCEPT !.rejected = @ \cup {n}]
           IN  /\ IsRun(new) /\ Alike(new, run, {"steps", "rejected"})
               /\ new.steps = Append(run.steps, [node |-> n, accepted |-> FALSE])
               /\ new.rejected = run.rejected \cup {n}
  <1>. DEFINE refused == Step(run, n, FALSE)
  <1>1. /\ IsRun(refused) /\ Alike(refused, run, {"steps"})
        /\ refused.steps = Append(run.steps, [node |-> n, accepted |-> FALSE])
    BY EditSteps
  <1>. HIDE DEF refused
  <1>2. refused.rejected = run.rejected
    BY <1>1 DEF Alike, RunFields
  <1>3. LET new == [refused EXCEPT !.rejected = run.rejected \cup {n}]
        IN  /\ IsRun(new) /\ Alike(new, refused, {"rejected"})
            /\ new.rejected = run.rejected \cup {n}
            /\ new.steps = refused.steps
    BY <1>1, <1>2 DEF IsRun, Alike, RunFields
  <1>. QED BY <1>1, <1>2, <1>3 DEF refused, Alike

-----------------------------------------------------------------------------
(* What a step does to the run files and the route.                        *)

\* The route goes with its run, unless it is wiped: it is never set anew.
RouteStays ==
    \/ route' = <<>>
    \/ /\ route' = route
       /\ route # <<>> => route[1].runId \in DOMAIN runs' \/ DOMAIN runs \subseteq DOMAIN runs'

\* Some runs go, and a run whose scenario is cleared is one of them.
RunsStay ==
    /\ UNCHANGED <<used, started>>
    /\ DOMAIN runs' \subseteq DOMAIN runs /\ \A r \in DOMAIN runs' : runs'[r] = runs[r]
    /\ aged' \subseteq DOMAIN runs'
    /\ \A r \in DOMAIN runs' :
         runs[r].scenario \in DOMAIN config => runs[r].scenario \in DOMAIN config'
    /\ DOMAIN config' \subseteq DOMAIN config \cup used
    /\ RouteStays

\* One run is written; what it collected grows only if deliveries go to it.
RunEdited(r, data) ==
    /\ UNCHANGED <<used, started>> /\ DOMAIN config' = DOMAIN config
    /\ r \in DOMAIN runs /\ IsRun(data)
    /\ \/ Alike(data, runs[r], {"status", "result", "steps", "rejected"})
       \/ /\ Alike(data, runs[r], {"events"})
          /\ route # <<>> /\ route[1].runId = r
    /\ \/ runs' = Put(Live, r, data) /\ r \in DOMAIN Live /\ aged' = {}
       \/ runs' = Put(runs, r, data) /\ aged' = aged \ {r}
    /\ RouteStays

\* A run is added, of a scenario that is in use and configured.
RunAdded(data) ==
    /\ UNCHANGED used /\ DOMAIN config' = DOMAIN config
    /\ started < MaxRuns /\ started' = started + 1
    /\ IsRun(data) /\ data.scenario \in used \cap DOMAIN config
    /\ runs' = Put(Live, started + 1, data) /\ aged' = {}
    /\ \/ RouteStays
       \/ route' = <<[webhookId |-> data.webhook, runId |-> started + 1]>>

\* What a step of the scenarios in S does: it writes their runs, and others collect.
RunEffect(S) ==
    \/ RunsStay
    \/ \E r, data : /\ RunEdited(r, data)
                    /\ runs[r].scenario \in S \/ Alike(data, runs[r], {"events"})
    \/ \E data : RunAdded(data) /\ data.scenario \in S

\* What the run files and counters hold.
RunsOK ==
    /\ used \in Visits /\ started \in 0 .. MaxRuns
    /\ DOMAIN runs \subseteq 1 .. started /\ aged \subseteq DOMAIN runs
    /\ \A r \in DOMAIN runs : IsRun(runs[r]) /\ runs[r].scenario \in used \cap DOMAIN config

\* A sweep that writes nothing.
LEMMA SweepStays ==
    ASSUME RunsOK, Sweep(Live), UNCHANGED <<used, started>>, DOMAIN config \subseteq DOMAIN config',
           DOMAIN config' \subseteq DOMAIN config \cup used
    PROVE  RunsStay
  <1>1. RouteStays
    BY LiveRuns DEF Sweep, reconcileRoute, RouteStays
  <1>. QED BY <1>1, LiveRuns DEF Sweep, RunsStay

\* A sweep that writes a run there is.
LEMMA SweepEdits ==
    ASSUME RunsOK, NEW r \in DOMAIN Live, NEW data, Sweep(Put(Live, r, data)), IsRun(data),
           UNCHANGED <<used, started>>, DOMAIN config' = DOMAIN config,
           \/ Alike(data, runs[r], {"status", "result", "steps", "rejected"})
           \/ /\ Alike(data, runs[r], {"events"})
              /\ route # <<>> /\ route[1].runId = r
    PROVE  RunEdited(r, data)
  <1>1. RouteStays
    BY PutWrites DEF Sweep, reconcileRoute, RouteStays
  <1>. QED BY <1>1, LiveRuns DEF Sweep, RunEdited

\* A handler that has swept already writes its run.
LEMMA WriteRunEdits ==
    ASSUME RunsOK, NEW r \in DOMAIN runs, NEW data, WriteRun(r, data), IsRun(data),
           UNCHANGED <<used, started>>, DOMAIN config' = DOMAIN config,
           Alike(data, runs[r], {"status", "result", "steps", "rejected"})
    PROVE  RunEdited(r, data)
  <1>1. runs' = Put(runs, r, data) /\ route' = route /\ aged' = aged \ {r}
    BY DEF WriteRun
  <1>2. DOMAIN runs' = DOMAIN runs \cup {r}
    BY <1>1, PutWrites
  <1>3. RouteStays
    BY <1>1, <1>2 DEF RouteStays
  <1>. QED BY <1>1, <1>3 DEF RunEdited

\* A new run.
LEMMA NewRunAdds ==
    ASSUME RunsOK, NEW data, NewRun(data), IsRun(data),
           data.scenario \in used \cap DOMAIN config, UNCHANGED used, DOMAIN config' = DOMAIN config
    PROVE  RunAdded(data)
  <1>1. RouteStays
    BY PutWrites DEF NewRun, Sweep, reconcileRoute, RouteStays
  <1>. QED BY <1>1 DEF NewRun, Sweep, RunAdded

\* Saves, clears, restarts and requests of no scenario only take runs away.
LEMMA SetupEffect ==
    ASSUME RunsOK, SetupStep
    PROVE  RunsStay
  <1>. USE DEF counters, fileVars
  <1>1. ASSUME NEW s \in used, Save(s) PROVE RunsStay
    <2>1. PICK c \in Setup[s] : config' = Put(config, s, Saved(s, c))
      BY <1>1 DEF Save
    <2>2. DOMAIN config' = DOMAIN config \cup {s}
      BY <2>1, PutWrites
    <2>. QED BY <1>1, <2>2, SweepStays DEF Save
  <1>2. ASSUME NEW s, NEW a, NEW b, ClearScenario(s, a, b) PROVE RunsStay
    <2>. DEFINE kept == Restrict(Live, {r \in DOMAIN Live : Live[r].scenario # s})
    <2>1. /\ runs' = kept /\ aged' = {} /\ UNCHANGED <<used, started>>
          /\ route' \in {<<>>, reconcileRoute(kept)}
          /\ config' = Restrict(config, DOMAIN config \ {s})
      BY <1>2 DEF ClearScenario
    <2>2. /\ DOMAIN kept \subseteq DOMAIN runs
          /\ \A r \in DOMAIN kept : kept[r] = runs[r] /\ runs[r].scenario # s
      BY LiveRuns DEF Restrict
    <2>. HIDE DEF kept
    <2>3. RouteStays
      BY <2>1 DEF reconcileRoute, RouteStays
    <2>4. DOMAIN config' = DOMAIN config \ {s}
      BY <2>1 DEF Restrict
    <2>. QED BY <2>1, <2>2, <2>3, <2>4 DEF RunsStay
  <1>3. CASE ClearAll \/ Restart
    BY <1>3 DEF ClearAll, Restart, Wiped, RunsStay, RouteStays
  <1>4. CASE OtherRequest
    BY <1>4, SweepStays DEF OtherRequest
  <1>5. ASSUME NEW r \in DOMAIN runs, Age(r) PROVE RunsStay
    BY <1>5 DEF Age, RunsOK, RunsStay, RouteStays
  <1>. QED BY <1>1, <1>2, <1>3, <1>4, <1>5 DEF SetupStep, Clear

\* The platform and the people on their phones touch no file.
LEMMA PlatformEffect ==
    ASSUME RunsOK, PlatformStep
    PROVE  RunsStay
  <1>1. UNCHANGED <<used, config, runs, aged, route, started>>
    BY DEF PlatformStep, PersonAnswers, Expire, CustomerAnswers, Generated, Publish, Changes,
           counters, fileVars
  <1>. QED BY <1>1 DEF RunsOK, RunsStay, RouteStays

\* A handler that waits for the platform goes on to its next request, or writes the outcome
\* of its run.
LEMMA HandlesEffect ==
    ASSUME RunsOK, NEW r \in DOMAIN runs, Handles(r)
    PROVE  /\ busy # <<>> /\ busy[1].run = r
           /\ UNCHANGED <<used, config, keys, cache, started, saves>>
           /\ \/ UNCHANGED <<runs, aged, route>> /\ busy' # <<>> /\ busy'[1].run = r
              \/ \E status \in Statuses : \E result : Ends(r, status, result)
  <1>1. ASSUME NEW at, Goes(r, at)
        PROVE  UNCHANGED <<runs, aged, route>> /\ busy' # <<>> /\ busy'[1].run = r
    BY <1>1 DEF Goes
  <1>2. ASSUME Stays(r) \/ RequestFails(r)
        PROVE  \E status \in Statuses : \E result : Ends(r, status, result)
    BY <1>2 DEF Stays, RequestFails, Statuses
  <1>3. CASE PollResult(r)
    BY <1>1, <1>2, <1>3 DEF PollResult, Delivered, Expired, Busy, Files, Statuses
  <1>4. CASE WaitForResult(r)
    BY <1>1, <1>2, <1>4 DEF WaitForResult, Outcome, Busy, Files, Statuses
  <1>5. CASE ExchangeCode(r)
    BY <1>1, <1>5 DEF ExchangeCode, Busy, Files, Statuses
  <1>6. CASE ResolveUserinfo(r)
    BY <1>1, <1>6 DEF ResolveUserinfo, Busy, Files, Statuses
  <1>7. CASE ReadLiveValues(r)
    BY <1>7 DEF ReadLiveValues, Busy, Files, Statuses
  <1>. QED BY <1>3, <1>4, <1>5, <1>6, <1>7 DEF Handles

\* The identity scenarios start runs, poll and end them.
LEMMA IdentityEffect ==
    ASSUME RunsOK, busy # <<>> => busy[1].run \in DOMAIN grant,
           \A r \in DOMAIN runs \cap DOMAIN grant : runs[r].scenario \in Identity,
           \/ \E s \in Identity \cap used : StartIdentity(s)
           \/ \E r \in DOMAIN runs : BeginPoll(r) \/ Callback(r) \/ Handles(r)
    PROVE  RunEffect(Identity)
  <1>1. ASSUME NEW s \in Identity \cap used, StartIdentity(s) PROVE RunEffect(Identity)
    <2>1. PICK wait \in Waits[s] : NewRun([Run(s, "pending") EXCEPT !.wait = wait])
      BY <1>1 DEF StartIdentity
    <2>2. IsRun(Run(s, "pending")) /\ Run(s, "pending").scenario = s
      BY RunIsRun DEF Statuses
    <2>. DEFINE data == [Run(s, "pending") EXCEPT !.wait = wait]
    <2>3. IsRun(data) /\ data.scenario = s
      BY <2>2, EditWait DEF Alike, RunFields
    <2>. HIDE DEF data
    <2>4. RunAdded(data)
      BY <1>1, <2>1, <2>3, NewRunAdds DEF StartIdentity, HasConfig, data
    <2>. QED BY <2>3, <2>4 DEF RunEffect
  <1>2. ASSUME NEW r \in DOMAIN runs, BeginPoll(r) PROVE RunEffect(Identity)
    BY <1>2, SweepStays DEF BeginPoll, RunEffect, counters
  <1>3. ASSUME NEW r \in DOMAIN runs, Callback(r) PROVE RunEffect(Identity)
    <2>. DEFINE a == grant[r].answer
                status == IF a = "denied" THEN "failed" ELSE "done"
                ended == [Live[r] EXCEPT !.status = status, !.result = a]
    <2>1. CASE Sweep(Live)
      BY <1>3, <2>1, SweepStays DEF Callback, RunEffect, counters
    <2>2. CASE ~ Sweep(Live)
      <3>1. Sweep(Put(Live, r, ended)) /\ r \in DOMAIN Live /\ UNCHANGED <<used, started, config>>
        BY <1>3, <2>2 DEF Callback, counters
      <3>2. status \in Statuses /\ Live[r] = runs[r] /\ IsRun(runs[r])
        BY <3>1, LiveRuns DEF Statuses, RunsOK
      <3>3. IsRun(ended) /\ Alike(ended, runs[r], {"status", "result"})
        <4>. HIDE DEF status, a
        <4>. QED BY <3>2, EditOutcome
      <3>. HIDE DEF ended
      <3>4. RunEdited(r, ended)
        BY <3>1, <3>3, SweepEdits DEF Alike
      <3>5. r \in DOMAIN grant
        BY <1>3 DEF Callback
      <3>. QED BY <3>4, <3>5 DEF RunEffect
    <2>. QED BY <2>1, <2>2
  <1>4. ASSUME NEW r \in DOMAIN runs, Handles(r) PROVE RunEffect(Identity)
    <2>1. CASE UNCHANGED <<runs, aged, route>>
      BY <1>4, <2>1, HandlesEffect DEF RunsOK, RunEffect, RunsStay, RouteStays
    <2>2. ASSUME NEW status \in Statuses, NEW result, Ends(r, status, result)
          PROVE  RunEffect(Identity)
      <3>. DEFINE data == [runs[r] EXCEPT !.status = status, !.result = result]
      <3>1. WriteRun(r, data)
        BY <2>2 DEF Ends
      <3>2. IsRun(data) /\ Alike(data, runs[r], {"status", "result"})
        BY EditOutcome DEF RunsOK
      <3>. HIDE DEF data
      <3>3. RunEdited(r, data)
        BY <1>4, <3>1, <3>2, HandlesEffect, WriteRunEdits DEF Alike
      <3>4. r \in DOMAIN grant
        BY <1>4, HandlesEffect
      <3>. QED BY <3>3, <3>4 DEF RunEffect
    <2>. QED BY <1>4, <2>1, <2>2, HandlesEffect
  <1>. QED BY <1>1, <1>2, <1>3, <1>4

\* The platform's flow runs.
FlowType ==
    [steps : Seq([party : {"company", "customer"}, field : FieldKind]), at : Nat, made : BOOLEAN]

\* What a poll of the flow scenario makes of its run.
LEMMA DrivenRun ==
    ASSUME NEW run, IsRun(run), NEW n \in Nat, NEW data,
           \/ data = [Step(run, n, FALSE) EXCEPT !.rejected = @ \cup {n}]
           \/ data = Step(run, n, TRUE)
           \/ data = run
           \/ data = Failed(run)
           \/ data = [run EXCEPT !.status = "done", !.result = "completed"]
    PROVE  IsRun(data) /\ Alike(data, run, {"status", "result", "steps", "rejected"})
  <1>1. CASE data = [Step(run, n, FALSE) EXCEPT !.rejected = @ \cup {n}]
    BY <1>1, EditRefused DEF Alike
  <1>2. CASE data = Step(run, n, TRUE)
    <2>1. IsRun(Step(run, n, TRUE)) /\ Alike(Step(run, n, TRUE), run, {"steps"})
      BY EditSteps
    <2>. QED BY <1>2, <2>1 DEF Alike
  <1>3. CASE data = Failed(run)
    <2>1. IsRun(Failed(run)) /\ Alike(Failed(run), run, {"status", "result"})
      BY EditOutcome DEF Failed, Statuses
    <2>. QED BY <1>3, <2>1 DEF Alike
  <1>4. CASE data = [run EXCEPT !.status = "done", !.result = "completed"]
    <2>1. IsRun(data) /\ Alike(data, run, {"status", "result"})
      BY <1>4, EditOutcome DEF Statuses
    <2>. QED BY <2>1 DEF Alike
  <1>5. CASE data = run
    BY <1>5 DEF Alike
  <1>. QED BY <1>1, <1>2, <1>3, <1>4, <1>5

\* The flow scenario starts runs and drives them.
LEMMA FlowEffect ==
    ASSUME RunsOK, \A r \in DOMAIN flows : flows[r] \in FlowType,
           \A r \in DOMAIN runs : runs[r].scenario = FlowScenario => r \in DOMAIN flows,
           (FlowScenario \in used /\ StartFlow) \/ (\E r \in DOMAIN runs : PollFlow(r))
    PROVE  RunEffect({FlowScenario})
  <1>1. CASE FlowScenario \in used /\ StartFlow
    <2>1. IsRun(Run(FlowScenario, "pending"))
          /\ Run(FlowScenario, "pending").scenario = FlowScenario
      BY RunIsRun DEF Statuses
    <2>2. RunAdded(Run(FlowScenario, "pending"))
      BY <1>1, <2>1, NewRunAdds DEF StartFlow, HasConfig
    <2>. QED BY <2>1, <2>2 DEF RunEffect
  <1>2. ASSUME NEW r \in DOMAIN runs, PollFlow(r) PROVE RunEffect({FlowScenario})
    <2>. DEFINE n == flows[r].at + 1
    <2>1. r \in DOMAIN Live /\ Live[r] = runs[r] /\ IsRun(runs[r]) /\ n \in Nat
          /\ UNCHANGED <<used, config, started>>
      BY <1>2, LiveRuns DEF PollFlow, RunsOK, FlowType
    <2>2. \/ Sweep(Live)
          \/ \E data : /\ Sweep(Put(Live, r, data))
                       /\ \/ data = [Step(runs[r], n, FALSE) EXCEPT !.rejected = @ \cup {n}]
                          \/ data = Step(runs[r], n, TRUE)
                          \/ data = runs[r]
                          \/ data = Failed(runs[r])
                          \/ data = [runs[r] EXCEPT !.status = "done", !.result = "completed"]
      BY <1>2, <2>1 DEF PollFlow, driveStep, complete, Filled
    <2>. HIDE DEF n
    <2>3. CASE Sweep(Live)
      BY <2>1, <2>3, SweepStays DEF RunEffect
    <2>4. CASE ~ Sweep(Live)
      <3>1. PICK data : /\ Sweep(Put(Live, r, data)) /\ IsRun(data)
                        /\ Alike(data, runs[r], {"status", "result", "steps", "rejected"})
        BY <2>1, <2>2, <2>4, DrivenRun
      <3>2. RunEdited(r, data)
        BY <2>1, <3>1, SweepEdits
      <3>3. runs[r].scenario = FlowScenario
        BY <1>2, <2>1 DEF PollFlow
      <3>. QED BY <3>2, <3>3 DEF RunEffect
    <2>. QED BY <2>3, <2>4
  <1>. QED BY <1>1, <1>2

\* The company-data scenarios in use are of their family.
LEMMA DataScenarios ==
    ASSUME RunsOK
    PROVE  /\ used \subseteq Scenarios
           /\ \A s \in used : s \in {"companydata:read", "companydata:changes", Webhooks, Documents}
                            => s \in Data
  <1>1. used \subseteq Scenarios
    BY SetupAssumption DEF RunsOK, Scenarios
  <1>. QED BY <1>1 DEF Data, Webhooks, Documents

\* A run that ends at once, with what it collected.
LEMMA EndedAdds ==
    ASSUME RunsOK, NEW s, NEW ok \in BOOLEAN, NEW result, NEW events, Ended(s, ok, result, events),
           s \in used \cap DOMAIN config \cap Data, UNCHANGED used, DOMAIN config' = DOMAIN config
    PROVE  RunEffect(Data)
  <1>. DEFINE status == IF ok THEN "done" ELSE "failed"
              run == Run(s, status)
              data == [run EXCEPT !.result = result, !.events = events]
  <1>1. status \in Statuses
    BY DEF Statuses
  <1>2. NewRun(data)
    BY DEF Ended
  <1>. HIDE DEF status
  <1>3. IsRun(run) /\ run.scenario = s
    BY <1>1, RunIsRun
  <1>. HIDE DEF run
  <1>4. IsRun(data) /\ data.scenario = s
    BY <1>3 DEF IsRun, RunFields
  <1>. HIDE DEF data
  <1>5. RunAdded(data)
    BY <1>2, <1>4, NewRunAdds
  <1>. QED BY <1>4, <1>5 DEF RunEffect

\* The record of the documents is written into their config.
LEMMA RecordsKeeps ==
    ASSUME NEW recorded, Records(recorded)
    PROVE  DOMAIN config' = DOMAIN config
  BY DEF Records

\* The company-data scenarios start runs, collect events and answer deliveries.
LEMMA DataEffect ==
    ASSUME RunsOK,
           \/ "companydata:read" \in used /\ StartRead
           \/ "companydata:changes" \in used /\ StartChanges
           \/ Webhooks \in used /\ StartWebhook
           \/ Documents \in used /\ (StartDocuments \/ Cleanup)
           \/ \E d \in deliveries : Webhook(d)
           \/ \E r \in DOMAIN runs : PollWebhook(r)
    PROVE  RunEffect(Data)
  <1>1. CASE "companydata:read" \in used /\ StartRead
    <2>1. \E ok \in BOOLEAN : \E result : Ended("companydata:read", ok, result, <<>>)
      BY <1>1 DEF StartRead
    <2>. QED BY <1>1, <2>1, EndedAdds, DataScenarios DEF StartRead, HasConfig, Kept
  <1>2. CASE "companydata:changes" \in used /\ StartChanges
    <2>1. \E ok \in BOOLEAN : \E result, events : Ended("companydata:changes", ok, result, events)
      BY <1>2 DEF StartChanges
    <2>. QED BY <1>2, <2>1, EndedAdds, DataScenarios DEF StartChanges, HasConfig, Kept
  <1>3. CASE Webhooks \in used /\ StartWebhook
    <2>. DEFINE run == Run(Webhooks, "pending")
                data == [run EXCEPT !.webhook = config[Webhooks].webhook]
    <2>1. IsRun(run) /\ run.scenario = Webhooks
      BY RunIsRun DEF Statuses
    <2>2. /\ runs' = Put(Live, started + 1, data) /\ aged' = {} /\ started < MaxRuns
          /\ started' = started + 1 /\ UNCHANGED <<used, config>> /\ Webhooks \in DOMAIN config
          /\ route' = <<[webhookId |-> config[Webhooks].webhook, runId |-> started + 1]>>
      BY <1>3 DEF StartWebhook, HasConfig, Kept
    <2>. HIDE DEF run
    <2>3. /\ IsRun(data) /\ data.webhook = config[Webhooks].webhook
          /\ Alike(data, run, {"webhook"})
      BY <2>1, EditWebhook
    <2>4. data.scenario = Webhooks
      BY <2>1, <2>3 DEF Alike, RunFields
    <2>. HIDE DEF data
    <2>5. RunAdded(data)
      BY <1>3, <2>2, <2>3, <2>4 DEF RunAdded
    <2>. QED BY <1>3, <2>4, <2>5, DataScenarios DEF RunEffect
  <1>4. CASE Documents \in used /\ StartDocuments
    <2>1. \E ok \in BOOLEAN : \E result : Ended(Documents, ok, result, <<>>)
      BY <1>4 DEF StartDocuments
    <2>2. \E recorded : Records(recorded)
      BY <1>4 DEF StartDocuments
    <2>3. DOMAIN config' = DOMAIN config
      BY <2>2, RecordsKeeps
    <2>. QED BY <1>4, <2>1, <2>3, EndedAdds, DataScenarios DEF StartDocuments, HasConfig, Kept
  <1>5. CASE Documents \in used /\ Cleanup
    <2>1. \E ok \in BOOLEAN : \E result : Ended(Documents, ok, result, <<>>)
      BY <1>5 DEF Cleanup
    <2>2. \E recorded : Records(recorded)
      BY <1>5 DEF Cleanup, Cleans
    <2>3. DOMAIN config' = DOMAIN config
      BY <2>2, RecordsKeeps
    <2>. QED BY <1>5, <2>1, <2>3, EndedAdds, DataScenarios DEF Cleanup, HasConfig, Kept
  <1>6. ASSUME NEW d \in deliveries, Webhook(d) PROVE RunEffect(Data)
    <2>1. UNCHANGED <<used, started, config>>
      BY <1>6 DEF Webhook, Kept
    <2>2. CASE Sweep(Live)
      BY <2>1, <2>2, SweepStays DEF RunEffect
    <2>3. CASE ~ Sweep(Live)
      <3>. DEFINE to == reconcileRoute(Live)
                  r == to[1].runId
                  events == Append(Live[r].events, [source |-> "webhook", event |-> d.event])
                  data == [Live[r] EXCEPT !.events = events]
      <3>1. to # <<>> /\ Sweep(Shows(r, "webhook", d.event))
        BY <1>6, <2>3 DEF Webhook
      <3>2. route # <<>> /\ route[1].runId = r /\ r \in DOMAIN Live
        BY <3>1 DEF reconcileRoute
      <3>3. Sweep(Put(Live, r, data))
        BY <3>1 DEF Shows
      <3>. HIDE DEF events, to, r
      <3>4. Live[r] = runs[r] /\ IsRun(runs[r])
        BY <3>2, LiveRuns DEF RunsOK
      <3>5. IsRun(data) /\ Alike(data, runs[r], {"events"})
        BY <3>4, EditEvents
      <3>. HIDE DEF data
      <3>6. RunEdited(r, data)
        BY <2>1, <3>2, <3>3, <3>5, SweepEdits
      <3>. QED BY <3>4, <3>5, <3>6 DEF RunEffect
    <2>. QED BY <2>2, <2>3
  <1>7. ASSUME NEW r \in DOMAIN runs, PollWebhook(r) PROVE RunEffect(Data)
    <2>1. UNCHANGED <<used, started, config>> /\ r \in DOMAIN Live
      BY <1>7 DEF PollWebhook, Kept
    <2>2. CASE Sweep(Live)
      BY <2>1, <2>2, SweepStays DEF RunEffect
    <2>3. CASE ~ Sweep(Live)
      <3>1. \E events : Sweep(Put(Live, r, [Live[r] EXCEPT !.events = events]))
        BY <1>7, <2>3 DEF PollWebhook
      <3>2. PICK events : Sweep(Put(Live, r, [Live[r] EXCEPT !.events = events]))
        BY <3>1
      <3>3. route # <<>> /\ route[1].runId = r
        BY <1>7 DEF PollWebhook, Pulls, reconcileRoute
      <3>. DEFINE data == [Live[r] EXCEPT !.events = events]
      <3>4. Live[r] = runs[r] /\ IsRun(runs[r])
        BY <2>1, LiveRuns DEF RunsOK
      <3>5. IsRun(data) /\ Alike(data, runs[r], {"events"})
        BY <3>4, EditEvents
      <3>6. Sweep(Put(Live, r, data))
        BY <3>2
      <3>. HIDE DEF data
      <3>7. RunEdited(r, data)
        BY <2>1, <3>3, <3>5, <3>6, SweepEdits
      <3>. QED BY <3>4, <3>5, <3>7 DEF RunEffect
    <2>. QED BY <2>2, <2>3
  <1>. QED BY <1>1, <1>2, <1>3, <1>4, <1>5, <1>6, <1>7

-----------------------------------------------------------------------------
(* The platform's side, and the request that waits for it.                 *)

GrantFields == {"wait", "answer", "given", "spent", "over"}
IsGrant(g) == g = [f \in GrantFields |-> g[f]]

GrantsOK == DOMAIN grant \subseteq 1 .. started /\ \A r \in DOMAIN grant : IsGrant(grant[r])
FlowsOK == DOMAIN flows \subseteq 1 .. started /\ \A r \in DOMAIN flows : flows[r] \in FlowType

\* Each run is known to the platform its family talks to.
KindsOK ==
    \A r \in DOMAIN runs : /\ runs[r].scenario \in Identity <=> r \in DOMAIN grant
                           /\ runs[r].scenario = FlowScenario <=> r \in DOMAIN flows

BusyOK == busy # <<>> => busy[1].run \in DOMAIN runs \cap DOMAIN grant

\* All of it is inductive.
ServerOK ==
    /\ RunsOK /\ DOMAIN config \subseteq used
    /\ GrantsOK /\ FlowsOK /\ KindsOK /\ BusyOK /\ faults \in 0 .. MaxFaults

\* One field of what was asked for a run is written.
GrantEdited(r, field, value) ==
    /\ DOMAIN grant' = DOMAIN grant /\ r \in DOMAIN grant
    /\ IsGrant(grant'[r]) /\ grant'[r][field] = value
    /\ \A f \in GrantFields \ {field} : grant'[r][f] = grant[r][f]
    /\ \A q \in DOMAIN grant \ {r} : grant'[q] = grant[q]

LEMMA EditGrant ==
    ASSUME GrantsOK, NEW r \in DOMAIN grant, NEW value
    PROVE  /\ grant' = [grant EXCEPT ![r].answer = value] => GrantEdited(r, "answer", value)
           /\ grant' = [grant EXCEPT ![r].given = value] => GrantEdited(r, "given", value)
           /\ grant' = [grant EXCEPT ![r].spent = value] => GrantEdited(r, "spent", value)
           /\ grant' = [grant EXCEPT ![r].over = value] => GrantEdited(r, "over", value)
  <1>1. IsGrant(grant[r])
    BY DEF GrantsOK
  <1>2. ASSUME NEW field \in GrantFields, NEW new, new = [grant[r] EXCEPT ![field] = value]
        PROVE  /\ IsGrant(new) /\ new[field] = value
               /\ \A f \in GrantFields \ {field} : new[f] = grant[r][f]
    BY <1>1, <1>2 DEF IsGrant
  <1>3. ASSUME NEW field \in GrantFields, NEW new, new = [grant[r] EXCEPT ![field] = value],
               grant' = [grant EXCEPT ![r] = new]
        PROVE  GrantEdited(r, field, value)
    BY <1>2, <1>3 DEF GrantEdited
  <1>4. ASSUME grant' = [grant EXCEPT ![r].answer = value] PROVE GrantEdited(r, "answer", value)
    BY <1>3, <1>4 DEF GrantFields
  <1>5. ASSUME grant' = [grant EXCEPT ![r].given = value] PROVE GrantEdited(r, "given", value)
    BY <1>3, <1>5 DEF GrantFields
  <1>6. ASSUME grant' = [grant EXCEPT ![r].spent = value] PROVE GrantEdited(r, "spent", value)
    BY <1>3, <1>6 DEF GrantFields
  <1>7. ASSUME grant' = [grant EXCEPT ![r].over = value] PROVE GrantEdited(r, "over", value)
    BY <1>3, <1>7 DEF GrantFields
  <1>. QED BY <1>4, <1>5, <1>6, <1>7

\* What the platform asks for, the requests it is waited for, and the faults, step by step:
\* the person's side,
GrantStays == DOMAIN grant' = DOMAIN grant /\ GrantsOK'

LEMMA EditedStays ==
    ASSUME GrantsOK, NEW r, NEW field, NEW value, GrantEdited(r, field, value), UNCHANGED started
    PROVE  GrantStays
  BY DEF GrantEdited, GrantsOK, GrantStays

FaultsOK == faults' = faults \/ Fault

\* ... a request that waits,
LEMMA HandlesKeeps ==
    ASSUME ServerOK, NEW r \in DOMAIN runs, Handles(r)
    PROVE  GrantStays /\ BusyOK' /\ FaultsOK
  <1>1. r \in DOMAIN grant /\ GrantsOK /\ UNCHANGED started
    BY HandlesEffect DEF ServerOK, BusyOK
  <1>2. \/ grant' = grant
        \/ grant' = [grant EXCEPT ![r].given = TRUE]
        \/ grant' = [grant EXCEPT ![r].spent = TRUE]
    BY DEF Handles, PollResult, WaitForResult, ExchangeCode, ResolveUserinfo, ReadLiveValues,
           identityVars
  <1>3. GrantStays
    BY <1>1, <1>2, EditGrant, EditedStays DEF GrantStays, GrantsOK
  <1>4. FaultsOK
    BY DEF Handles, PollResult, WaitForResult, ExchangeCode, ResolveUserinfo, ReadLiveValues,
           RequestFails, FaultsOK
  <1>5. BusyOK'
    <2>1. CASE busy' # <<>> /\ busy'[1].run = r /\ UNCHANGED runs
      BY <1>1, <1>3, <2>1 DEF BusyOK, GrantStays
    <2>2. ASSUME NEW status, NEW result, Ends(r, status, result) PROVE BusyOK'
      BY <2>2 DEF Ends, BusyOK
    <2>. QED BY <2>1, <2>2, HandlesEffect DEF ServerOK
  <1>. QED BY <1>3, <1>4, <1>5

\* ... the identity scenarios,
LEMMA IdentityKeeps ==
    ASSUME ServerOK,
           \/ \E s \in Identity \cap used : StartIdentity(s)
           \/ \E r \in DOMAIN runs : BeginPoll(r) \/ Callback(r) \/ Handles(r)
    PROVE  /\ \/ UNCHANGED started /\ GrantStays
              \/ /\ started' = started + 1 /\ DOMAIN grant' = DOMAIN grant \cup {started + 1}
                 /\ GrantsOK'
           /\ BusyOK' /\ FaultsOK
  <1>1. ASSUME NEW s \in Identity \cap used, StartIdentity(s)
        PROVE  /\ started' = started + 1 /\ DOMAIN grant' = DOMAIN grant \cup {started + 1}
               /\ GrantsOK' /\ BusyOK' /\ FaultsOK
    <2>1. PICK wait : grant' = Put(grant, started + 1,
                         [wait |-> wait, answer |-> "", given |-> FALSE,
                          spent |-> FALSE, over |-> FALSE])
      BY <1>1 DEF StartIdentity
    <2>. DEFINE g == [wait |-> wait, answer |-> "", given |-> FALSE,
                      spent |-> FALSE, over |-> FALSE]
    <2>2. IsGrant(g)
      BY DEF IsGrant, GrantFields
    <2>5. grant' = Put(grant, started + 1, g)
      BY <2>1
    <2>. HIDE DEF g
    <2>3. /\ DOMAIN grant' = DOMAIN grant \cup {started + 1} /\ grant'[started + 1] = g
          /\ \A r \in DOMAIN grant : r # started + 1 => grant'[r] = grant[r]
      BY <2>5 DEF Put
    <2>4. started' = started + 1 /\ busy' = <<>> /\ UNCHANGED faults
      BY <1>1 DEF StartIdentity, NewRun, Idle
    <2>. QED BY <2>2, <2>3, <2>4 DEF GrantsOK, ServerOK, RunsOK, BusyOK, FaultsOK
  <1>2. ASSUME NEW r \in DOMAIN runs, BeginPoll(r)
        PROVE  UNCHANGED started /\ GrantStays /\ BusyOK' /\ FaultsOK
    <2>1. /\ r \in DOMAIN Live /\ runs' = Live /\ runs[r].wait \in Polled
          /\ busy' = <<[run |-> r, at |-> runs[r].wait]>>
          /\ UNCHANGED <<started, grant, faults>>
      BY <1>2 DEF BeginPoll, Sweep, identityVars, counters
    <2>2. "" \notin Polled
      BY DEF Polled
    <2>3. r \in DOMAIN grant
      BY <2>1, <2>2 DEF ServerOK, RunsOK, IsRun, KindsOK
    <2>. QED BY <2>1, <2>3 DEF BusyOK, GrantStays, GrantsOK, ServerOK, FaultsOK
  <1>3. ASSUME NEW r \in DOMAIN runs, Callback(r)
        PROVE  UNCHANGED started /\ GrantStays /\ BusyOK' /\ FaultsOK
    <2>1. r \in DOMAIN Live /\ r \in DOMAIN grant /\ UNCHANGED <<started, grant, faults>>
      BY <1>3 DEF Callback, identityVars, counters
    <2>2. \/ runs' = Live /\ busy' = <<[run |-> r, at |-> "exchange"]>>
          \/ busy' = <<>>
      BY <1>3 DEF Callback, Sweep, Idle
    <2>. QED BY <2>1, <2>2 DEF BusyOK, GrantStays, GrantsOK, ServerOK, FaultsOK
  <1>4. ASSUME NEW r \in DOMAIN runs, Handles(r)
        PROVE  UNCHANGED started /\ GrantStays /\ BusyOK' /\ FaultsOK
    BY <1>4, HandlesKeeps, HandlesEffect DEF ServerOK
  <1>. QED BY <1>1, <1>2, <1>3, <1>4

FlowsStay == DOMAIN flows' = DOMAIN flows /\ FlowsOK'

\* A step of a flow is answered, or its documents are made.
LEMMA FlowEdited ==
    ASSUME FlowsOK, NEW r \in DOMAIN flows, NEW at \in Nat, NEW made \in BOOLEAN,
           \/ flows' = [flows EXCEPT ![r].at = at]
           \/ flows' = [flows EXCEPT ![r].at = at, ![r].made = made]
           \/ flows' = [flows EXCEPT ![r].made = made],
           UNCHANGED started
    PROVE  FlowsStay
  <1>1. flows[r] \in FlowType
    BY DEF FlowsOK
  <1>2. \A f \in FlowType : /\ [f EXCEPT !.at = at] \in FlowType
                            /\ [f EXCEPT !.made = made] \in FlowType
                            /\ [f EXCEPT !.at = at, !.made = made] \in FlowType
    BY DEF FlowType
  <1>3. CASE flows' = [flows EXCEPT ![r].at = at]
    BY <1>1, <1>2, <1>3 DEF FlowsOK, FlowsStay
  <1>4. CASE flows' = [flows EXCEPT ![r].at = at, ![r].made = made]
    <2>1. flows' = [flows EXCEPT ![r] = [flows[r] EXCEPT !.at = at, !.made = made]]
      BY <1>1, <1>4 DEF FlowType
    <2>. QED BY <1>1, <1>2, <2>1 DEF FlowsOK, FlowsStay
  <1>5. CASE flows' = [flows EXCEPT ![r].made = made]
    BY <1>1, <1>2, <1>5 DEF FlowsOK, FlowsStay
  <1>. QED BY <1>3, <1>4, <1>5

\* ... the flow scenario,
LEMMA FlowKeeps ==
    ASSUME ServerOK,
           (FlowScenario \in used /\ StartFlow) \/ (\E r \in DOMAIN runs : PollFlow(r))
    PROVE  /\ \/ UNCHANGED started /\ FlowsStay
              \/ /\ started' = started + 1 /\ DOMAIN flows' = DOMAIN flows \cup {started + 1}
                 /\ FlowsOK'
           /\ UNCHANGED busy /\ Idle /\ FaultsOK
  <1>1. CASE FlowScenario \in used /\ StartFlow
    <2>1. PICK steps \in Flows :
            flows' = Put(flows, started + 1, [steps |-> steps, at |-> 0, made |-> FALSE])
      BY <1>1 DEF StartFlow
    <2>. DEFINE f == [steps |-> steps, at |-> 0, made |-> FALSE]
    <2>2. f \in FlowType
      BY FlowsAssumption DEF FlowType
    <2>5. flows' = Put(flows, started + 1, f)
      BY <2>1
    <2>. HIDE DEF f
    <2>3. /\ DOMAIN flows' = DOMAIN flows \cup {started + 1} /\ flows'[started + 1] = f
          /\ \A r \in DOMAIN flows : r # started + 1 => flows'[r] = flows[r]
      BY <2>5 DEF Put
    <2>4. started' = started + 1 /\ UNCHANGED <<busy, faults>> /\ Idle
      BY <1>1 DEF StartFlow, NewRun
    <2>. QED BY <2>2, <2>3, <2>4 DEF FlowsOK, ServerOK, RunsOK, FaultsOK
  <1>2. ASSUME NEW r \in DOMAIN runs, PollFlow(r)
        PROVE  UNCHANGED started /\ FlowsStay /\ UNCHANGED busy /\ Idle /\ FaultsOK
    <2>. DEFINE n == flows[r].at + 1
    <2>1. r \in DOMAIN flows /\ flows[r] \in FlowType /\ UNCHANGED <<started, busy>> /\ Idle
      BY <1>2, LiveRuns DEF PollFlow, ServerOK, KindsOK, FlowsOK
    <2>2. n \in Nat
      BY <2>1 DEF FlowType
    <2>3. \/ flows' = flows
          \/ \E made \in BOOLEAN : flows' = [flows EXCEPT ![r].at = n, ![r].made = made]
      BY <1>2 DEF PollFlow, driveStep, complete
    <2>4. FaultsOK
      BY <1>2 DEF PollFlow, driveStep, complete, FaultsOK
    <2>. HIDE DEF n
    <2>5. FlowsStay
      BY <2>1, <2>2, <2>3, FlowEdited DEF FlowsStay, FlowsOK, ServerOK
    <2>. QED BY <2>1, <2>4, <2>5
  <1>. QED BY <1>1, <1>2

\* ... the company-data scenarios,
LEMMA DataKeeps ==
    ASSUME \/ "companydata:read" \in used /\ StartRead
           \/ "companydata:changes" \in used /\ StartChanges
           \/ Webhooks \in used /\ StartWebhook
           \/ Documents \in used /\ (StartDocuments \/ Cleanup)
           \/ \E d \in deliveries : Webhook(d)
           \/ \E r \in DOMAIN runs : PollWebhook(r)
    PROVE  UNCHANGED busy /\ Idle /\ FaultsOK
  <1>1. UNCHANGED busy /\ Idle
    BY DEF StartRead, StartChanges, StartWebhook, StartDocuments, Cleanup, Webhook, PollWebhook,
           Kept
  <1>2. FaultsOK
    BY DEF StartRead, StartChanges, StartWebhook, StartDocuments, Cleanup, Webhook, PollWebhook,
           FaultsOK
  <1>. QED BY <1>1, <1>2

\* ... the platform's own steps,
LEMMA PlatformKeeps ==
    ASSUME ServerOK, PlatformStep
    PROVE  GrantStays /\ FlowsStay /\ UNCHANGED <<busy, runs, started>> /\ FaultsOK
  <1>1. UNCHANGED <<used, config, runs, aged, route, started, busy, faults>>
    BY DEF PlatformStep, PersonAnswers, Expire, CustomerAnswers, Generated, Publish, Changes,
           counters, fileVars
  <1>2. CASE (\E r \in DOMAIN grant : PersonAnswers(r) \/ Expire(r)) /\ NoFlow
    <2>1. PICK r \in DOMAIN grant : PersonAnswers(r) \/ Expire(r)
      BY <1>2
    <2>2. \/ \E a : grant' = [grant EXCEPT ![r].answer = a]
          \/ grant' = [grant EXCEPT ![r].over = TRUE]
      BY <2>1 DEF PersonAnswers, Expire
    <2>3. GrantStays
      BY <1>1, <2>2, EditGrant, EditedStays DEF ServerOK
    <2>. QED BY <1>1, <1>2, <2>3 DEF NoFlow, FlowsStay, FlowsOK, ServerOK, FaultsOK
  <1>3. CASE (\E r \in DOMAIN flows : CustomerAnswers(r) \/ Generated(r)) /\ NoIdentity
    <2>1. PICK r \in DOMAIN flows : CustomerAnswers(r) \/ Generated(r)
      BY <1>3
    <2>. DEFINE n == flows[r].at + 1
    <2>2. flows[r] \in FlowType
      BY DEF ServerOK, FlowsOK
    <2>3. n \in Nat
      BY <2>2 DEF FlowType
    <2>4. \/ flows' = [flows EXCEPT ![r].at = n]
          \/ flows' = [flows EXCEPT ![r].made = TRUE]
      BY <2>1 DEF CustomerAnswers, Generated
    <2>. HIDE DEF n
    <2>5. FlowsStay
      BY <1>1, <2>3, <2>4, FlowEdited DEF ServerOK
    <2>. QED BY <1>1, <1>3, <2>5
             DEF NoIdentity, identityVars, GrantStays, GrantsOK, ServerOK, FaultsOK
  <1>4. CASE NoIdentity /\ NoFlow
    BY <1>1, <1>4 DEF NoIdentity, NoFlow, identityVars, GrantStays, GrantsOK, FlowsStay, FlowsOK,
       ServerOK, FaultsOK
  <1>. QED BY <1>2, <1>3, <1>4 DEF PlatformStep

\* ... saves, clears, restarts and what every request does.
LEMMA SetupKeeps ==
    ASSUME ServerOK, SetupStep
    PROVE  /\ UNCHANGED <<grant, flows, started>> /\ FaultsOK
           /\ (UNCHANGED busy /\ (Idle \/ UNCHANGED runs)) \/ busy' = <<>>
  <1>1. UNCHANGED <<grant, flows>>
    BY DEF SetupStep, Clear, NoIdentity, NoFlow, identityVars
  <1>2. /\ UNCHANGED started /\ FaultsOK
        /\ (UNCHANGED busy /\ (Idle \/ UNCHANGED runs)) \/ busy' = <<>>
    BY DEF SetupStep, Clear, Save, ClearScenario, ClearAll, Restart, OtherRequest, Age, counters,
       FaultsOK
  <1>. QED BY <1>1, <1>2

\* The runs stay as they should be, whatever a step does to them.
LEMMA RunsInductive ==
    ASSUME RunsOK, DOMAIN config \subseteq used, NEW S, RunEffect(S)
    PROVE  /\ RunsOK' /\ (DOMAIN config \subseteq used)' /\ UNCHANGED used
           /\ \/ /\ UNCHANGED started
                 /\ DOMAIN runs' \subseteq DOMAIN runs
                 /\ \A r \in DOMAIN runs' : runs'[r].scenario = runs[r].scenario
              \/ /\ started' = started + 1
                 /\ DOMAIN runs' \subseteq DOMAIN runs \cup {started + 1}
                 /\ \A r \in DOMAIN runs' \ {started + 1} : runs'[r].scenario = runs[r].scenario
                 /\ started + 1 \in DOMAIN runs' /\ runs'[started + 1].scenario \in S
  <1>1. CASE RunsStay
    BY <1>1 DEF RunsStay, RunsOK
  <1>2. ASSUME NEW r, NEW data, RunEdited(r, data)
        PROVE  /\ RunsOK' /\ (DOMAIN config \subseteq used)' /\ UNCHANGED <<used, started>>
               /\ DOMAIN runs' \subseteq DOMAIN runs
               /\ \A q \in DOMAIN runs' : runs'[q].scenario = runs[q].scenario
    <2>1. data.scenario = runs[r].scenario /\ IsRun(data) /\ r \in DOMAIN runs
          /\ UNCHANGED <<used, started>> /\ DOMAIN config' = DOMAIN config /\ aged' \subseteq aged
      BY <1>2 DEF RunEdited, Alike, RunFields
    <2>2. CASE runs' = Put(Live, r, data) /\ r \in DOMAIN Live /\ aged' = {}
      <3>1. /\ DOMAIN runs' = DOMAIN Live /\ runs'[r] = data
            /\ \A q \in DOMAIN runs' \ {r} : runs'[q] = runs[q]
        BY <2>2, LiveRuns DEF Put
      <3>. QED BY <2>1, <2>2, <3>1, LiveRuns DEF RunsOK
    <2>3. CASE runs' = Put(runs, r, data) /\ aged' = aged \ {r}
      <3>1. /\ DOMAIN runs' = DOMAIN runs /\ runs'[r] = data
            /\ \A q \in DOMAIN runs' \ {r} : runs'[q] = runs[q]
        BY <2>1, <2>3 DEF Put
      <3>. QED BY <2>1, <2>3, <3>1 DEF RunsOK
    <2>. QED BY <1>2, <2>2, <2>3 DEF RunEdited
  <1>3. ASSUME NEW data, RunAdded(data), data.scenario \in S
        PROVE  /\ RunsOK' /\ (DOMAIN config \subseteq used)' /\ UNCHANGED used
               /\ started' = started + 1
               /\ DOMAIN runs' \subseteq DOMAIN runs \cup {started + 1}
               /\ \A r \in DOMAIN runs' \ {started + 1} : runs'[r].scenario = runs[r].scenario
               /\ started + 1 \in DOMAIN runs' /\ runs'[started + 1].scenario \in S
    <2>1. /\ DOMAIN runs' = DOMAIN Live \cup {started + 1} /\ runs'[started + 1] = data
          /\ \A q \in DOMAIN runs' \ {started + 1} : q \in DOMAIN runs /\ runs'[q] = runs[q]
      BY <1>3, LiveRuns DEF RunAdded, Put
    <2>2. /\ UNCHANGED used /\ DOMAIN config' = DOMAIN config /\ started < MaxRuns
          /\ started' = started + 1 /\ IsRun(data) /\ data.scenario \in used \cap DOMAIN config
          /\ aged' = {}
      BY <1>3 DEF RunAdded
    <2>. QED BY <1>3, <2>1, <2>2, LiveRuns, BoundsAssumption DEF RunsOK
  <1>. QED BY <1>1, <1>2, <1>3 DEF RunEffect

\* The scenarios of each family are its own.
LEMMA Families == /\ FlowScenario \notin Identity /\ Data \cap Identity = {}
                  /\ FlowScenario \notin Data
  BY FamiliesAssumption DEF FlowScenario, Data

\* What a step of each family does, and what it leaves alone.
LEMMA ServerStep ==
    ASSUME ServerOK, Next
    PROVE  \/ /\ RunsStay /\ GrantStays /\ FlowsStay /\ FaultsOK
              /\ (UNCHANGED busy /\ (Idle \/ UNCHANGED runs)) \/ busy' = <<>>
           \/ /\ RunEffect(Identity) /\ FlowsStay /\ BusyOK' /\ FaultsOK
              /\ \/ UNCHANGED started /\ GrantStays
                 \/ /\ started' = started + 1 /\ DOMAIN grant' = DOMAIN grant \cup {started + 1}
                    /\ GrantsOK'
           \/ /\ RunEffect({FlowScenario}) /\ GrantStays /\ UNCHANGED busy /\ Idle /\ FaultsOK
              /\ \/ UNCHANGED started /\ FlowsStay
                 \/ /\ started' = started + 1 /\ DOMAIN flows' = DOMAIN flows \cup {started + 1}
                    /\ FlowsOK'
           \/ /\ RunEffect(Data) /\ GrantStays /\ FlowsStay
              /\ UNCHANGED busy /\ Idle /\ FaultsOK
  <1>1. \A S : RunsStay \/ RunEffect(S) => started' \in {started, started + 1}
    BY DEF RunEffect, RunsStay, RunEdited, RunAdded
  <1>2. /\ UNCHANGED grant /\ started' \in {started, started + 1} => GrantStays
        /\ UNCHANGED flows /\ started' \in {started, started + 1} => FlowsStay
    BY DEF ServerOK, RunsOK, GrantsOK, FlowsOK, GrantStays, FlowsStay
  <1>3. CASE PlatformStep
    BY <1>3, PlatformEffect, PlatformKeeps DEF ServerOK
  <1>4. CASE SetupStep
    <2>1. RunsStay
      BY <1>4, SetupEffect DEF ServerOK
    <2>. QED BY <1>1, <1>2, <1>4, <2>1, SetupKeeps
  <1>5. CASE /\ \/ \E s \in Identity \cap used : StartIdentity(s)
                \/ \E r \in DOMAIN runs : BeginPoll(r) \/ Callback(r) \/ Handles(r)
             /\ NoFlow /\ NoData
    <2>1. RunEffect(Identity)
      BY <1>5, IdentityEffect DEF ServerOK, BusyOK, KindsOK
    <2>. QED BY <1>1, <1>2, <1>5, <2>1, IdentityKeeps DEF NoFlow
  <1>6. CASE /\ (FlowScenario \in used /\ StartFlow) \/ (\E r \in DOMAIN runs : PollFlow(r))
             /\ NoIdentity /\ NoData
    <2>1. RunEffect({FlowScenario})
      BY <1>6, FlowEffect DEF ServerOK, FlowsOK, KindsOK
    <2>. QED BY <1>1, <1>2, <1>6, <2>1, FlowKeeps DEF NoIdentity, identityVars
  <1>7. CASE /\ \/ "companydata:read" \in used /\ StartRead
                \/ "companydata:changes" \in used /\ StartChanges
                \/ Webhooks \in used /\ StartWebhook
                \/ Documents \in used /\ (StartDocuments \/ Cleanup)
                \/ \E d \in deliveries : Webhook(d)
                \/ \E r \in DOMAIN runs : PollWebhook(r)
             /\ NoIdentity /\ NoFlow
    <2>1. RunEffect(Data)
      BY <1>7, DataEffect DEF ServerOK
    <2>2. UNCHANGED <<grant, flows>>
      BY <1>7 DEF NoIdentity, NoFlow, identityVars
    <2>3. UNCHANGED busy /\ Idle /\ FaultsOK
      BY <1>7, DataKeeps
    <2>. QED BY <1>1, <1>2, <2>1, <2>2, <2>3
  <1>. QED BY <1>3, <1>4, <1>5, <1>6, <1>7 DEF Next, FamilyStep

LEMMA ServerInitially == Init => ServerOK
  <1>. SUFFICES ASSUME Init PROVE ServerOK
    OBVIOUS
  <1>1. /\ used \in Visits /\ config = <<>> /\ runs = <<>> /\ aged = {} /\ grant = <<>>
        /\ flows = <<>> /\ busy = <<>> /\ started = 0 /\ faults = 0
    BY DEF Init, InitFiles, InitIdentity, InitFlows
  <1>2. DOMAIN config = {} /\ DOMAIN runs = {} /\ DOMAIN grant = {} /\ DOMAIN flows = {}
    BY <1>1
  <1>. QED BY <1>1, <1>2, BoundsAssumption
           DEF ServerOK, RunsOK, GrantsOK, FlowsOK, KindsOK, BusyOK

LEMMA ServerInductive == ServerOK /\ [Next]_vars => ServerOK'
  <1>. SUFFICES ASSUME ServerOK, [Next]_vars PROVE ServerOK'
    OBVIOUS
  <1>1. CASE UNCHANGED vars
    BY <1>1 DEF vars, fileVars, counters, identityVars, dataVars, ServerOK, RunsOK, GrantsOK,
       FlowsOK, KindsOK, BusyOK
  <1>2. CASE Next
    <2>1. FaultsOK => faults' \in 0 .. MaxFaults
      BY BoundsAssumption DEF FaultsOK, Fault, ServerOK
    <2>2. RunsOK /\ DOMAIN config \subseteq used /\ KindsOK /\ GrantsOK /\ FlowsOK /\ BusyOK
          /\ started \in Nat
      BY DEF ServerOK, RunsOK
    <2>3. started + 1 \notin DOMAIN grant /\ started + 1 \notin DOMAIN flows
      BY <2>2 DEF GrantsOK, FlowsOK
    <2>4. CASE /\ RunsStay /\ GrantStays /\ FlowsStay /\ FaultsOK
               /\ (UNCHANGED busy /\ (Idle \/ UNCHANGED runs)) \/ busy' = <<>>
      <3>1. RunsOK' /\ (DOMAIN config \subseteq used)' /\ DOMAIN runs' \subseteq DOMAIN runs
            /\ \A r \in DOMAIN runs' : runs'[r].scenario = runs[r].scenario
        BY <2>2, <2>4 DEF RunsStay, RunsOK
      <3>2. KindsOK' /\ BusyOK'
        BY <2>2, <2>4, <3>1 DEF KindsOK, BusyOK, GrantStays, FlowsStay, Idle
      <3>. QED BY <2>1, <2>4, <3>1, <3>2 DEF ServerOK, GrantStays, FlowsStay
    <2>5. CASE /\ RunEffect(Identity) /\ FlowsStay /\ BusyOK' /\ FaultsOK
               /\ \/ UNCHANGED started /\ GrantStays
                  \/ /\ started' = started + 1 /\ DOMAIN grant' = DOMAIN grant \cup {started + 1}
                     /\ GrantsOK'
      <3>1. KindsOK'
        BY <2>2, <2>3, <2>5, RunsInductive, Families DEF KindsOK, GrantStays, FlowsStay
      <3>. QED BY <2>1, <2>2, <2>5, <3>1, RunsInductive DEF ServerOK, GrantStays, FlowsStay
    <2>6. CASE /\ RunEffect({FlowScenario}) /\ GrantStays /\ UNCHANGED busy /\ Idle /\ FaultsOK
               /\ \/ UNCHANGED started /\ FlowsStay
                  \/ /\ started' = started + 1 /\ DOMAIN flows' = DOMAIN flows \cup {started + 1}
                     /\ FlowsOK'
      <3>1. KindsOK'
        BY <2>2, <2>3, <2>6, RunsInductive, Families DEF KindsOK, GrantStays, FlowsStay
      <3>2. BusyOK'
        BY <2>6 DEF Idle, BusyOK
      <3>. QED BY <2>1, <2>2, <2>6, <3>1, <3>2, RunsInductive DEF ServerOK, GrantStays, FlowsStay
    <2>7. CASE /\ RunEffect(Data) /\ GrantStays /\ FlowsStay
               /\ UNCHANGED busy /\ Idle /\ FaultsOK
      <3>1. KindsOK'
        BY <2>2, <2>3, <2>7, RunsInductive, Families DEF KindsOK, GrantStays, FlowsStay
      <3>2. BusyOK'
        BY <2>7 DEF Idle, BusyOK
      <3>. QED BY <2>1, <2>2, <2>7, <3>1, <3>2, RunsInductive DEF ServerOK, GrantStays, FlowsStay
    <2>. QED BY <1>2, <2>4, <2>5, <2>6, <2>7, ServerStep
  <1>. QED BY <1>1, <1>2

LEMMA ServerInvariant == Spec => []ServerOK
  BY ServerInitially, ServerInductive, PTL DEF Spec

\* Whatever is saved, cleared, swept, restarted or polled, the files hold runs of scenarios
\* in use, and the request that waits for the platform is about a run that exists and whose
\* scenario is configured (server.go, runtime.go).
THEOREM TypeCorrect == Spec => []TypeOK
  <1>1. ServerOK => TypeOK
    <2>. SUFFICES ASSUME ServerOK PROVE TypeOK
      OBVIOUS
    <2>1. DOMAIN config \subseteq Scenarios
      BY DataScenarios DEF ServerOK
    <2>2. DOMAIN runs \subseteq 1 .. MaxRuns
      BY BoundsAssumption DEF ServerOK, RunsOK
    <2>. QED BY <2>1, <2>2 DEF TypeOK, ServerOK, RunsOK, IsRun, Statuses, BusyOK
  <1>. QED BY <1>1, ServerInvariant, PTL

-----------------------------------------------------------------------------
(* Deliveries.                                                             *)

\* A run that stays is for the webhook it was for, and collects only what is for it.
LEMMA RunsThatStay ==
    ASSUME RunsOK, NEW S, RunEffect(S)
    PROVE  \A r \in DOMAIN runs \cap DOMAIN runs' :
             /\ runs'[r].webhook = runs[r].webhook /\ runs'[r].scenario = runs[r].scenario
             /\ runs'[r].events = runs[r].events \/ (route # <<>> /\ route[1].runId = r)
  <1>1. CASE RunsStay
    BY <1>1 DEF RunsStay
  <1>2. ASSUME NEW r, NEW data, RunEdited(r, data)
        PROVE  \A q \in DOMAIN runs \cap DOMAIN runs' :
                 /\ runs'[q].webhook = runs[q].webhook /\ runs'[q].scenario = runs[q].scenario
                 /\ runs'[q].events = runs[q].events \/ (route # <<>> /\ route[1].runId = q)
    <2>1. /\ data.webhook = runs[r].webhook /\ data.scenario = runs[r].scenario
          /\ data.events = runs[r].events \/ (route # <<>> /\ route[1].runId = r)
      BY <1>2 DEF RunEdited, Alike, RunFields
    <2>2. \A q \in DOMAIN runs \cap DOMAIN runs' : runs'[q] = IF q = r THEN data ELSE runs[q]
      BY <1>2, LiveRuns DEF RunEdited, Put
    <2>. QED BY <2>1, <2>2
  <1>3. ASSUME NEW data, RunAdded(data)
        PROVE  \A r \in DOMAIN runs \cap DOMAIN runs' : runs'[r] = runs[r]
    BY <1>3, LiveRuns DEF RunAdded, Put, RunsOK
  <1>. QED BY <1>1, <1>2, <1>3 DEF RunEffect

\* Every step is one of a family, or touches no run.
LEMMA SomeEffect ==
    ASSUME ServerOK, Next
    PROVE  \E S : RunEffect(S)
  BY ServerStep DEF RunEffect

LEMMA RouteKept ==
    ASSUME ServerOK, RouteIsLive, NEW S, RunEffect(S)
    PROVE  RouteIsLive'
  <1>1. \A r \in DOMAIN runs \cap DOMAIN runs' : runs'[r].webhook = runs[r].webhook
    BY RunsThatStay DEF ServerOK
  <1>2. CASE RouteStays
    BY <1>1, <1>2 DEF RouteStays, RouteIsLive
  <1>3. CASE ~ RouteStays
    <2>1. PICK data : RunAdded(data)
      BY <1>3 DEF RunEffect, RunsStay, RunEdited
    <2>2. /\ route' = <<[webhookId |-> data.webhook, runId |-> started + 1]>>
          /\ runs' = Put(Live, started + 1, data)
      BY <1>3, <2>1 DEF RunAdded
    <2>3. started + 1 \in DOMAIN runs' /\ runs'[started + 1] = data
      BY <2>2 DEF Put
    <2>. QED BY <2>2, <2>3 DEF RouteIsLive
  <1>. QED BY <1>2, <1>3

\* Deliveries go to a run of theirs that exists: the route goes when its run is swept or
\* cleared, and a run is never for another webhook (reconcileRoute, setRoute).
THEOREM RouteGoesWithItsRun == Spec => []RouteIsLive
  <1>1. Init => RouteIsLive
    BY DEF Init, InitFiles, RouteIsLive
  <1>2. ServerOK /\ RouteIsLive /\ [Next]_vars => RouteIsLive'
    <2>1. CASE UNCHANGED vars
      BY <2>1 DEF vars, fileVars, RouteIsLive
    <2>2. ASSUME ServerOK, RouteIsLive, Next PROVE RouteIsLive'
      BY <2>2, SomeEffect, RouteKept
    <2>. QED BY <2>1, <2>2
  <1>. QED BY <1>1, <1>2, ServerInvariant, PTL DEF Spec

\* A superseded webhook run shows nothing new (webhookFeedFallback, handleWebhook).
THEOREM OldRunsStandStill == Spec => SupersededStandsStill
  <1>1. ServerOK /\ [Next]_vars =>
          [\A r \in DOMAIN runs \cap DOMAIN runs' :
             /\ runs[r].scenario = Webhooks
             /\ route # <<>> => route[1].runId # r
             => runs'[r].events = runs[r].events]_vars
    <2>1. ASSUME ServerOK, Next
          PROVE  \A r \in DOMAIN runs \cap DOMAIN runs' :
                   /\ runs[r].scenario = Webhooks
                   /\ route # <<>> => route[1].runId # r
                   => runs'[r].events = runs[r].events
      BY <2>1, SomeEffect, RunsThatStay DEF ServerOK
    <2>. QED BY <2>1
  <1>. QED BY <1>1, ServerInvariant, PTL DEF Spec, SupersededStandsStill

-----------------------------------------------------------------------------
(* Setups.                                                                 *)

ConfigFields ==
    {"oauth_private_key", "service_private_key", "client", "webhook", "types", "share", "created"}

IsConfig(c) == c = [f \in ConfigFields |-> c[f]] /\ c.types \in Seq(STRING)

\* Every config has its fields, and its key files.
ConfigsOK ==
    \A s \in DOMAIN config : IsConfig(config[s]) /\ KeysOf(config[s]) \subseteq keys

\* What is recorded changes no key.
LEMMA RecordedKeys ==
    ASSUME NEW c, IsConfig(c), NEW created
    PROVE  LET new == [c EXCEPT !.created = created]
           IN  /\ IsConfig(new) /\ KeysOf(new) = KeysOf(c)
               /\ new.created = created
               /\ \A f \in ConfigFields \ {"created"} : new[f] = c[f]
  BY DEF IsConfig, ConfigFields, KeysOf, keyFields

\* What may be saved has every field.
LEMMA SetupFields ==
    ASSUME NEW s \in Scenarios, NEW c \in Setup[s]
    PROVE  IsConfig(c)
  <1>1. c \in ConfigType
    BY SetupAssumption DEF Scenarios
  <1>. QED BY <1>1 DEF ConfigType, ConfigFields, IsConfig

\* Steps that save, clear and wipe.
LEMMA SetupKeepsConfigs ==
    ASSUME ServerOK, ConfigsOK, SetupStep
    PROVE  ConfigsOK'
  <1>1. ASSUME NEW s \in used, Save(s) PROVE ConfigsOK'
    <2>1. PICK c \in Setup[s] : /\ keys' = keys \cup KeysOf(c)
                                /\ config' = Put(config, s, Saved(s, c))
      BY <1>1 DEF Save
    <2>. DEFINE new == Saved(s, c)
    <2>2. IsConfig(c)
      BY SetupFields, DataScenarios DEF ServerOK
    <2>3. IsConfig(new) /\ KeysOf(new) = KeysOf(c)
      BY <2>2, RecordedKeys DEF Saved
    <2>. HIDE DEF new
    <2>4. config' = Put(config, s, new)
      BY <2>1 DEF new
    <2>5. /\ DOMAIN config' = DOMAIN config \cup {s} /\ config'[s] = new
          /\ \A x \in DOMAIN config' \ {s} : x \in DOMAIN config /\ config'[x] = config[x]
      BY <2>4 DEF Put
    <2>. QED BY <2>1, <2>3, <2>5 DEF ConfigsOK
  <1>2. ASSUME NEW s, NEW a, NEW b, ClearScenario(s, a, b) PROVE ConfigsOK'
    <2>. DEFINE left == Restrict(config, DOMAIN config \ {s})
    <2>1. config' = left /\ keys' = gcConfigKeys(left)
      BY <1>2 DEF ClearScenario
    <2>2. \A x \in DOMAIN left : x \in DOMAIN config /\ left[x] = config[x]
      BY DEF Restrict
    <2>. HIDE DEF left
    <2>3. \A x \in DOMAIN left : KeysOf(left[x]) \subseteq gcConfigKeys(left)
      BY <2>2 DEF gcConfigKeys, ConfigsOK
    <2>. QED BY <2>1, <2>2, <2>3 DEF ConfigsOK
  <1>3. CASE ClearAll \/ Restart
    <2>1. DOMAIN config' = {}
      BY <1>3 DEF ClearAll, Restart, Wiped
    <2>. QED BY <2>1 DEF ConfigsOK
  <1>4. CASE OtherRequest \/ \E r \in DOMAIN runs : Age(r)
    BY <1>4 DEF OtherRequest, Age, ConfigsOK
  <1>. QED BY <1>1, <1>2, <1>3, <1>4 DEF SetupStep, Clear

\* The other steps at most record documents.
LEMMA OthersKeepConfigs ==
    ASSUME ServerOK, PlatformStep \/ FamilyStep
    PROVE  UNCHANGED keys /\ (UNCHANGED config \/ \E recorded : Records(recorded))
  <1>1. CASE PlatformStep
    BY <1>1 DEF PlatformStep, PersonAnswers, Expire, CustomerAnswers, Generated, Publish, Changes,
       fileVars
  <1>2. ASSUME NEW r \in DOMAIN runs, BeginPoll(r) \/ Callback(r) \/ Handles(r)
        PROVE  UNCHANGED <<keys, config>>
    BY <1>2, HandlesEffect DEF BeginPoll, Callback, ServerOK
  <1>3. ASSUME NEW s, StartIdentity(s) PROVE UNCHANGED <<keys, config>>
    BY <1>3 DEF StartIdentity
  <1>4. ASSUME StartFlow \/ \E r \in DOMAIN runs : PollFlow(r) PROVE UNCHANGED <<keys, config>>
    BY <1>4 DEF StartFlow, PollFlow
  <1>5. ASSUME \/ StartRead \/ StartChanges \/ StartWebhook
               \/ \E d \in deliveries : Webhook(d)
               \/ \E r \in DOMAIN runs : PollWebhook(r)
        PROVE  UNCHANGED <<keys, config>>
    BY <1>5 DEF StartRead, StartChanges, StartWebhook, Webhook, PollWebhook, Kept
  <1>6. ASSUME StartDocuments \/ Cleanup
        PROVE  UNCHANGED keys /\ \E recorded : Records(recorded)
    BY <1>6 DEF StartDocuments, Cleanup, Cleans, Kept
  <1>. QED BY <1>1, <1>2, <1>3, <1>4, <1>5, <1>6 DEF FamilyStep

LEMMA RecordsKeepConfigs ==
    ASSUME ConfigsOK, NEW recorded, Records(recorded), UNCHANGED keys
    PROVE  ConfigsOK'
  <1>1. CASE Documents \in DOMAIN config
    <2>. DEFINE new == [config[Documents] EXCEPT !.created = recorded]
    <2>1. config' = [config EXCEPT ![Documents] = new]
      BY DEF Records
    <2>2. IsConfig(new) /\ KeysOf(new) = KeysOf(config[Documents])
      BY <1>1, RecordedKeys DEF ConfigsOK
    <2>. HIDE DEF new
    <2>. QED BY <1>1, <2>1, <2>2 DEF ConfigsOK
  <1>2. CASE Documents \notin DOMAIN config
    <2>1. DOMAIN config' = DOMAIN config /\ \A s \in DOMAIN config : config'[s] = config[s]
      BY <1>2 DEF Records
    <2>. QED BY <2>1 DEF ConfigsOK
  <1>. QED BY <1>1, <1>2

LEMMA ConfigsInvariant == Spec => []ConfigsOK
  <1>1. Init => ConfigsOK
    BY DEF Init, InitFiles, ConfigsOK
  <1>2. ServerOK /\ ConfigsOK /\ [Next]_vars => ConfigsOK'
    <2>1. CASE UNCHANGED vars
      BY <2>1 DEF vars, fileVars, ConfigsOK
    <2>2. ASSUME ServerOK, ConfigsOK, Next PROVE ConfigsOK'
      <3>1. CASE SetupStep
        BY <2>2, <3>1, SetupKeepsConfigs
      <3>2. CASE UNCHANGED <<config, keys>>
        BY <2>2, <3>2 DEF ConfigsOK
      <3>. QED BY <2>2, <3>1, <3>2, OthersKeepConfigs, RecordsKeepConfigs DEF Next
    <2>. QED BY <2>1, <2>2
  <1>. QED BY <1>1, <1>2, ServerInvariant, PTL DEF Spec

\* Clearing one scenario takes no key file that another config names, in whichever field it
\* names it (gcConfigKeys, keyFields).
THEOREM KeysAreKept == Spec => []ConfigsKeepTheirKeys
  <1>1. ConfigsOK => ConfigsKeepTheirKeys
    BY DEF ConfigsOK, ConfigsKeepTheirKeys
  <1>. QED BY <1>1, ConfigsInvariant, PTL

-----------------------------------------------------------------------------
(* Documents.                                                              *)

DocFields == {"id", "client", "state"}

\* The documents are numbered as they are created, each number once.
DocsOK ==
    /\ \E n \in Nat : {d.id : d \in documents} = 1 .. n
    /\ \A d \in documents : d = [f \in DocFields |-> d[f]]
    /\ \A d, e \in documents : d.id = e.id => d = e

\* The record and the documents.
RecordOK == DocsOK /\ CreatedIsRecorded

LEMMA Numbering ==
    ASSUME DocsOK
    PROVE  LET n == Cardinality({d.id : d \in documents})
           IN  n \in Nat /\ {d.id : d \in documents} = 1 .. n
  <1>1. PICK n \in Nat : {d.id : d \in documents} = 1 .. n
    BY DEF DocsOK
  <1>2. Cardinality(1 .. n) = n
    BY FS_Interval
  <1>. QED BY <1>1, <1>2

\* New documents get the next numbers.
LEMMA NewDocuments ==
    ASSUME DocsOK, NEW client, NEW n \in Nat,
           documents' = documents \cup
               {[id |-> Cardinality({d.id : d \in documents}) + i, client |-> client,
                 state |-> "live"] : i \in 1 .. n}
    PROVE  DocsOK'
  <1>. DEFINE n0 == Cardinality({d.id : d \in documents})
              new == {[id |-> n0 + i, client |-> client, state |-> "live"] : i \in 1 .. n}
  <1>1. n0 \in Nat /\ {d.id : d \in documents} = 1 .. n0
    BY Numbering
  <1>. HIDE DEF n0
  <1>2. \A d \in new : d = [f \in DocFields |-> d[f]]
    BY DEF DocFields
  <1>3. \A d \in new : \E i \in 1 .. n : d.id = n0 + i
    OBVIOUS
  <1>4. \A d, e \in new : d.id = e.id => d = e
    BY <1>1
  <1>5. {d.id : d \in new} = n0 + 1 .. n0 + n
    <2>1. \A k \in n0 + 1 .. n0 + n : \E d \in new : d.id = k
      <3>. SUFFICES ASSUME NEW k \in n0 + 1 .. n0 + n PROVE \E d \in new : d.id = k
        OBVIOUS
      <3>1. PICK i \in 1 .. n : k = n0 + i
        <4>1. k - n0 \in 1 .. n /\ k = n0 + (k - n0)
          BY <1>1
        <4>. QED BY <4>1
      <3>2. [id |-> n0 + i, client |-> client, state |-> "live"] \in new
        BY <3>1
      <3>. QED BY <3>1, <3>2
    <2>2. \A d \in new : d.id \in n0 + 1 .. n0 + n
      BY <1>1
    <2>. QED BY <2>1, <2>2
  <1>6. documents' = documents \cup new
    BY DEF n0
  <1>. HIDE DEF new
  <1>7. {d.id : d \in documents'} = 1 .. n0 + n /\ n0 + n \in Nat
    <2>1. {d.id : d \in documents'} = {d.id : d \in documents} \cup {d.id : d \in new}
      BY <1>6
    <2>2. 1 .. n0 + n = 1 .. n0 \cup n0 + 1 .. n0 + n /\ n0 + n \in Nat
      BY <1>1
    <2>. QED BY <1>1, <1>5, <2>1, <2>2
  <1>8. \A d \in documents, e \in new : d.id # e.id
    BY <1>1, <1>5
  <1>9. \A d, e \in documents' : d.id = e.id => d = e
    BY <1>4, <1>6, <1>8 DEF DocsOK
  <1>10. \A d \in documents' : d = [f \in DocFields |-> d[f]]
    BY <1>2, <1>6 DEF DocsOK
  <1>11. \E m \in Nat : {d.id : d \in documents'} = 1 .. m
    BY <1>7
  <1>. QED BY <1>9, <1>10, <1>11 DEF DocsOK

\* Documents that change keep their numbers.
LEMMA ChangedDocuments ==
    ASSUME DocsOK, NEW f,
           \A d \in documents : f[d] = [x \in DocFields |-> f[d][x]] /\ f[d].id = d.id,
           documents' = {f[d] : d \in documents}
    PROVE  DocsOK'
  <1>1. /\ \A e \in documents' : \E d \in documents : e = f[d]
        /\ \A d \in documents : f[d] \in documents' /\ f[d].id = d.id
    OBVIOUS
  <1>2. {e.id : e \in documents'} = {d.id : d \in documents}
    <2>1. ASSUME NEW k \in {e.id : e \in documents'} PROVE k \in {d.id : d \in documents}
      <3>1. PICK e \in documents' : k = e.id
        BY <2>1
      <3>2. PICK d \in documents : e = f[d]
        BY <1>1
      <3>. QED BY <1>1, <3>1, <3>2
    <2>2. ASSUME NEW k \in {d.id : d \in documents} PROVE k \in {e.id : e \in documents'}
      <3>1. PICK d \in documents : k = d.id
        BY <2>2
      <3>. QED BY <1>1, <3>1
    <2>. QED BY <2>1, <2>2
  <1>3. ASSUME NEW a \in documents', NEW b \in documents', a.id = b.id PROVE a = b
    <2>1. PICK d \in documents, e \in documents : a = f[d] /\ b = f[e]
      BY <1>1
    <2>2. d = e
      BY <1>1, <1>3, <2>1 DEF DocsOK
    <2>. QED BY <2>1, <2>2
  <1>4. \A d \in documents' : d = [x \in DocFields |-> d[x]]
    BY <1>1
  <1>. QED BY <1>2, <1>3, <1>4 DEF DocsOK

\* The record is kept while the documents stay and nothing is forgotten.
LEMMA RecordStays ==
    ASSUME RecordOK, UNCHANGED documents,
           HasConfig(Documents) =>
               \/ /\ Documents \in DOMAIN config'
                  /\ config'[Documents].created = config[Documents].created
               \/ config[Documents].created \subseteq unrecorded',
           unrecorded \subseteq unrecorded'
    PROVE  RecordOK'
  <1>1. DocsOK'
    BY DEF RecordOK, DocsOK
  <1>2. CreatedIsRecorded'
    BY DEF RecordOK, CreatedIsRecorded, HasConfig, Id
  <1>. QED BY <1>1, <1>2 DEF RecordOK

\* Saves keep the record, and what is cleared is forgotten.
LEMMA SetupKeepsRecord ==
    ASSUME ServerOK, ConfigsOK, RecordOK, SetupStep
    PROVE  RecordOK'
  <1>1. ASSUME NEW s \in used, Save(s), NoData PROVE RecordOK'
    <2>1. PICK c \in Setup[s] : config' = Put(config, s, Saved(s, c))
      BY <1>1 DEF Save
    <2>2. IsConfig(c)
      BY SetupFields, DataScenarios DEF ServerOK
    <2>3. HasConfig(s) => Saved(s, c).created = config[s].created
      BY <2>2, RecordedKeys DEF Saved
    <2>4. /\ DOMAIN config' = DOMAIN config \cup {s} /\ config'[s] = Saved(s, c)
          /\ \A x \in DOMAIN config \ {s} : config'[x] = config[x]
      BY <2>1 DEF Put
    <2>. QED BY <1>1, <2>3, <2>4, RecordStays DEF NoData, dataVars, HasConfig
  <1>2. ASSUME NEW s \in used, Clear(s) PROVE RecordOK'
    <2>1. /\ config' = Restrict(config, DOMAIN config \ {s}) /\ UNCHANGED documents
          /\ IF s = Documents THEN ForgetsDocuments ELSE UNCHANGED unrecorded
      BY <1>2 DEF Clear, ClearScenario
    <2>2. CASE s = Documents
      BY <2>1, <2>2, RecordStays DEF ForgetsDocuments
    <2>3. CASE s # Documents
      <3>1. HasConfig(Documents) =>
              Documents \in DOMAIN config' /\ config'[Documents] = config[Documents]
        BY <2>1, <2>3 DEF Restrict, HasConfig
      <3>. QED BY <2>1, <2>3, <3>1, RecordStays
    <2>. QED BY <2>2, <2>3
  <1>3. CASE ForgetsDocuments /\ UNCHANGED documents
    BY <1>3, RecordStays DEF ForgetsDocuments
  <1>4. CASE (OtherRequest \/ \E r \in DOMAIN runs : Age(r)) /\ NoData
    <2>1. UNCHANGED <<config, documents, unrecorded>>
      BY <1>4 DEF OtherRequest, Age, NoData, dataVars
    <2>. QED BY <2>1, RecordStays DEF HasConfig
  <1>. QED BY <1>1, <1>2, <1>3, <1>4 DEF SetupStep

\* A document that changes stays what it was in the record.
LEMMA ChangesKeepsRecord ==
    ASSUME RecordOK, NEW d \in documents, Changes(d)
    PROVE  RecordOK'
  <1>1. PICK state \in {"signed", "gone"} :
          documents' = (documents \ {d}) \cup {[d EXCEPT !.state = state]}
    BY DEF Changes
  <1>. DEFINE new == [d EXCEPT !.state = state]
              f == [x \in documents |-> IF x = d THEN new ELSE x]
  <1>2. /\ new = [x \in DocFields |-> new[x]] /\ new.id = d.id /\ new.client = d.client
        /\ d.state = "live"
    BY DEF Changes, RecordOK, DocsOK, DocFields
  <1>3. UNCHANGED <<config, unrecorded>>
    BY DEF Changes, fileVars
  <1>4. documents' = (documents \ {d}) \cup {new}
    BY <1>1
  <1>. HIDE DEF new
  <1>5. documents' = {f[x] : x \in documents}
    BY <1>4
  <1>6. \A x \in documents : f[x] = [y \in DocFields |-> f[x][y]] /\ f[x].id = x.id
    BY <1>2 DEF RecordOK, DocsOK
  <1>. HIDE DEF f
  <1>7. DocsOK'
    BY <1>5, <1>6, ChangedDocuments DEF RecordOK
  <1>8. CreatedIsRecorded'
    BY <1>2, <1>3, <1>4 DEF RecordOK, CreatedIsRecorded, HasConfig, Id
  <1>. QED BY <1>7, <1>8 DEF RecordOK

\* New documents are recorded, or known to be unrecorded.
LEMMA CreatesKeepsRecord ==
    ASSUME ServerOK, ConfigsOK, RecordOK, StartDocuments
    PROVE  RecordOK'
  <1>. DEFINE c == config[Documents]
              types == c.types
              n0 == Cardinality({d.id : d \in documents})
              new(n) == {[id |-> n0 + i, client |-> c.client, state |-> "live"] : i \in 1 .. n}
              possible == Cardinality({i \in DOMAIN types :
                              c.share \/ \A j \in 1 .. i : types[j] # "person"})
              Creates(n, heard) ==
                /\ documents' = documents \cup new(n)
                /\ Records(c.created \cup {Id(d) : d \in new(heard)})
                /\ unrecorded' = unrecorded \cup {Id(d) : d \in new(n) \ new(heard)}
  <1>1. Documents \in DOMAIN config /\ IsConfig(c)
    BY DEF StartDocuments, HasConfig, ConfigsOK
  <1>2. possible \in Nat
    <2>1. IsFiniteSet(DOMAIN types) /\ DOMAIN types = 1 .. Len(types)
      BY <1>1, FS_Interval DEF IsConfig
    <2>. QED BY <2>1, FS_Subset, FS_CardinalityType
  <1>3. ASSUME NEW n \in Nat, NEW heard, Creates(n, heard) PROVE RecordOK'
    <2>1. DocsOK'
      BY <1>3, NewDocuments DEF RecordOK
    <2>2. /\ DOMAIN config' = DOMAIN config
          /\ config'[Documents].created = c.created \cup {Id(d) : d \in new(heard)}
      <3>. DEFINE recorded == c.created \cup {Id(d) : d \in new(heard)}
                  saved == [c EXCEPT !.created = recorded]
      <3>1. config' = [config EXCEPT ![Documents] = saved]
        BY <1>3 DEF Records
      <3>. HIDE DEF recorded
      <3>2. saved.created = recorded
        BY <1>1, RecordedKeys
      <3>. QED BY <1>1, <3>1, <3>2 DEF recorded
    <2>3. \A d \in documents' : d \in documents \/ d \in new(heard) \/ Id(d) \in unrecorded'
      BY <1>3
    <2>4. unrecorded \subseteq unrecorded'
      BY <1>3
    <2>. HIDE DEF new, c
    <2>5. CreatedIsRecorded'
      BY <1>1, <2>2, <2>3, <2>4 DEF RecordOK, CreatedIsRecorded, HasConfig, Id, c
    <2>. QED BY <2>1, <2>5 DEF RecordOK
  <1>4. \E n \in Nat : \E heard : Creates(n, heard)
    <2>1. \/ Creates(possible, possible)
          \/ \E n \in 0 .. possible - 1 : Creates(n, n) \/ Creates(n + 1, n)
      BY DEF StartDocuments
    <2>2. \A n \in 0 .. possible - 1 : n \in Nat /\ n + 1 \in Nat
      BY <1>2
    <2>. HIDE DEF Creates, possible
    <2>. QED BY <1>2, <2>1, <2>2
  <1>. QED BY <1>3, <1>4

\* What is cleaned up leaves the record, or is no longer there to be cleaned up.
LEMMA CleansKeepsRecord ==
    ASSUME ConfigsOK, RecordOK, HasConfig(Documents), UNCHANGED unrecorded,
           NEW chosen \in SUBSET documents, NEW reached, Cleans(chosen, reached)
    PROVE  RecordOK'
  <1>. DEFINE f == [d \in documents |-> IF d \in chosen THEN Cleaned(d) ELSE d]
              recorded == config[Documents].created \ {Id(d) : d \in chosen \ reached}
  <1>1. documents' = {f[d] : d \in documents} /\ Records(recorded)
    BY DEF Cleans
  <1>2. ASSUME NEW d \in documents
        PROVE  /\ Cleaned(d) = [x \in DocFields |-> Cleaned(d)[x]]
               /\ Cleaned(d).id = d.id
               /\ Cleaned(d).state \notin {"live", "signed"}
    <2>1. d = [x \in DocFields |-> d[x]]
      BY DEF RecordOK, DocsOK
    <2>. DEFINE state == CASE d.state = "signed" -> "ended"
                           [] d.state = "live" -> "gone"
                           [] OTHER -> d.state
    <2>2. state \notin {"live", "signed"}
      OBVIOUS
    <2>3. Cleaned(d) = [d EXCEPT !.state = state]
      BY DEF Cleaned
    <2>. HIDE DEF state
    <2>. QED BY <2>1, <2>2, <2>3 DEF DocFields
  <1>3. \A d \in documents : f[d] = [x \in DocFields |-> f[d][x]] /\ f[d].id = d.id
    BY <1>2 DEF RecordOK, DocsOK
  <1>4. \A d \in documents : f[d].state \in {"live", "signed"} => f[d] = d /\ d \notin chosen
    BY <1>2
  <1>. HIDE DEF f
  <1>5. DocsOK'
    BY <1>1, <1>3, ChangedDocuments DEF RecordOK
  <1>6. DOMAIN config' = DOMAIN config /\ config'[Documents].created = recorded
    <2>. DEFINE saved == [config[Documents] EXCEPT !.created = recorded]
    <2>1. config' = [config EXCEPT ![Documents] = saved]
      BY <1>1 DEF Records
    <2>. HIDE DEF recorded
    <2>2. saved.created = recorded
      BY RecordedKeys DEF ConfigsOK, HasConfig
    <2>. QED BY <2>1, <2>2 DEF HasConfig
  <1>7. ASSUME NEW d \in documents, d \notin chosen, Id(d) \in config[Documents].created
        PROVE  Id(d) \in recorded
    BY <1>7 DEF Id, RecordOK, DocsOK
  <1>8. ASSUME NEW d \in documents', d.state \in {"live", "signed"}, Id(d) \notin unrecorded'
        PROVE  Id(d) \in recorded
    <2>1. d \in documents /\ d \notin chosen
      BY <1>1, <1>4, <1>8
    <2>2. Id(d) \in config[Documents].created
      BY <1>8, <2>1 DEF RecordOK, CreatedIsRecorded
    <2>. QED BY <1>7, <2>1, <2>2
  <1>9. CreatedIsRecorded'
    BY <1>6, <1>8 DEF CreatedIsRecorded, HasConfig, Id
  <1>. QED BY <1>5, <1>9 DEF RecordOK

LEMMA CleanupKeepsRecord ==
    ASSUME ConfigsOK, RecordOK, Cleanup
    PROVE  RecordOK'
  <1>. DEFINE mine == {d \in documents : /\ Id(d) \in config[Documents].created
                                         /\ d.client = config[Documents].client}
  <1>1. \/ Cleans(mine, {})
        \/ \E last \in mine : \E dealt \in {{}, {last}} :
             Cleans({d \in mine : d.id < last.id} \cup dealt, {last})
    BY DEF Cleanup
  <1>2. mine \subseteq documents
    OBVIOUS
  <1>. HIDE DEF mine
  <1>3. \E chosen \in SUBSET documents : \E reached : Cleans(chosen, reached)
    <2>1. CASE Cleans(mine, {})
      BY <1>2, <2>1
    <2>2. ASSUME NEW last \in mine, NEW dealt \in {{}, {last}},
                 Cleans({d \in mine : d.id < last.id} \cup dealt, {last})
          PROVE  \E chosen \in SUBSET documents : \E reached : Cleans(chosen, reached)
      <3>. DEFINE chosen == {d \in mine : d.id < last.id} \cup dealt
      <3>1. chosen \in SUBSET documents /\ Cleans(chosen, {last})
        BY <1>2, <2>2
      <3>. HIDE DEF chosen
      <3>. QED BY <3>1
    <2>. QED BY <1>1, <2>1, <2>2
  <1>4. HasConfig(Documents) /\ UNCHANGED unrecorded
    BY DEF Cleanup
  <1>. QED BY <1>3, <1>4, CleansKeepsRecord

\* The other steps leave the documents and their record alone.
LEMMA OthersKeepRecord ==
    ASSUME ServerOK, PlatformStep \/ FamilyStep
    PROVE  \/ UNCHANGED <<documents, unrecorded, config>>
           \/ \E d \in documents : Changes(d)
           \/ StartDocuments \/ Cleanup
  <1>1. CASE PlatformStep
    BY <1>1 DEF PlatformStep, PersonAnswers, Expire, CustomerAnswers, Generated, Publish,
       fileVars, NoData, dataVars
  <1>2. ASSUME NEW r \in DOMAIN runs, BeginPoll(r) \/ Callback(r) \/ Handles(r), NoData
        PROVE  UNCHANGED <<documents, unrecorded, config>>
    BY <1>2, HandlesEffect DEF BeginPoll, Callback, ServerOK, NoData, dataVars
  <1>3. ASSUME NEW s, StartIdentity(s), NoData PROVE UNCHANGED <<documents, unrecorded, config>>
    BY <1>3 DEF StartIdentity, NoData, dataVars
  <1>4. ASSUME StartFlow \/ \E r \in DOMAIN runs : PollFlow(r), NoData
        PROVE  UNCHANGED <<documents, unrecorded, config>>
    BY <1>4 DEF StartFlow, PollFlow, NoData, dataVars
  <1>5. ASSUME \/ StartRead \/ StartChanges \/ StartWebhook
               \/ \E d \in deliveries : Webhook(d)
               \/ \E r \in DOMAIN runs : PollWebhook(r)
        PROVE  UNCHANGED <<documents, unrecorded, config>>
    BY <1>5 DEF StartRead, StartChanges, StartWebhook, Webhook, PollWebhook, dataVars
  <1>. QED BY <1>1, <1>2, <1>3, <1>4, <1>5 DEF FamilyStep

LEMMA RecordInductive ==
    ServerOK /\ ConfigsOK /\ RecordOK /\ [Next]_vars => RecordOK'
  <1>. SUFFICES ASSUME ServerOK, ConfigsOK, RecordOK, [Next]_vars PROVE RecordOK'
    OBVIOUS
  <1>1. CASE UNCHANGED vars
    BY <1>1, RecordStays DEF vars, fileVars, dataVars, HasConfig
  <1>2. CASE UNCHANGED <<documents, unrecorded, config>>
    BY <1>2, RecordStays DEF HasConfig
  <1>3. CASE Next
    <2>1. CASE SetupStep
      BY <2>1, SetupKeepsRecord
    <2>. QED BY <1>2, <1>3, <2>1, OthersKeepRecord, ChangesKeepsRecord, CreatesKeepsRecord,
                CleanupKeepsRecord DEF Next
  <1>. QED BY <1>1, <1>3

\* A document the scenario created stays in the record of its service as long as it lives,
\* whatever is saved, started or fails meanwhile (doDocuments, cleanupDocuments, the sidecar).
THEOREM RecordIsKept == Spec => []CreatedIsRecorded
  <1>1. Init => RecordOK
    <2>. SUFFICES ASSUME Init PROVE RecordOK
      OBVIOUS
    <2>1. documents = {}
      BY DEF Init, InitData
    <2>2. {d.id : d \in documents} = 1 .. 0
      BY <2>1
    <2>. QED BY <2>1, <2>2 DEF RecordOK, DocsOK, CreatedIsRecorded
  <1>2. RecordOK => CreatedIsRecorded
    BY DEF RecordOK
  <1>. QED BY <1>1, <1>2, RecordInductive, ServerInvariant, ConfigsInvariant, PTL DEF Spec

-----------------------------------------------------------------------------
(* Outcomes.                                                               *)

\* A step of some scenarios ends no run of others.
LEMMA OutcomesStay ==
    ASSUME RunsOK, NEW S, RunEffect(S)
    PROVE  \A r \in DOMAIN runs \cap DOMAIN runs' :
             runs[r].scenario \notin S => Alike(runs'[r], runs[r], {"events"})
  <1>1. CASE RunsStay
    BY <1>1 DEF RunsStay, Alike
  <1>2. ASSUME NEW r, NEW data, RunEdited(r, data),
               runs[r].scenario \in S \/ Alike(data, runs[r], {"events"})
        PROVE  \A q \in DOMAIN runs \cap DOMAIN runs' :
                 runs[q].scenario \notin S => Alike(runs'[q], runs[q], {"events"})
    <2>1. \A q \in DOMAIN runs \cap DOMAIN runs' : runs'[q] = IF q = r THEN data ELSE runs[q]
      BY <1>2, LiveRuns DEF RunEdited, Put
    <2>. QED BY <1>2, <2>1 DEF Alike
  <1>3. ASSUME NEW data, RunAdded(data)
        PROVE  \A r \in DOMAIN runs \cap DOMAIN runs' : runs'[r] = runs[r]
    BY <1>3, LiveRuns DEF RunAdded, Put, RunsOK
  <1>. QED BY <1>1, <1>2, <1>3 DEF RunEffect, Alike

Completion == {"exchange", "userinfo", "connections"}
Completing(r) == busy # <<>> /\ busy[1].run = r /\ busy[1].at \in Completion

\* A run that is done tells what was answered, or that nobody did in time,
Told(r) ==
    runs[r].status = "done" => Reports(runs[r].result, grant[r], r \in lost)

\* ... what was handed out is lost, on its way to an outcome, or one,
Heard(r) == grant[r].given => r \in lost \/ Completing(r) \/ runs[r].status # "pending"

\* ... and a request that waits asks after what was not handed out, or completes a code.
Waiting ==
    busy # <<>> =>
        \/ busy[1].at \in Polled /\ (grant[busy[1].run].given => busy[1].run \in lost)
        \/ busy[1].at \in Completion /\ grant[busy[1].run].answer = "code"

AnswersOK ==
    /\ \A r \in DOMAIN runs \cap DOMAIN grant : Told(r) /\ Heard(r)
    /\ Waiting

LEMMA AtPolledOrCompleting == Polled \cap Completion = {} /\ "pending" # "done"
  BY DEF Polled, Completion

\* Steps that end no such run.
LEMMA AnswersStay ==
    ASSUME ServerOK, AnswersOK, UNCHANGED <<grant, lost>>,
           \A r \in DOMAIN runs' \cap DOMAIN grant :
             /\ r \in DOMAIN runs
             /\ runs'[r].status = runs[r].status /\ runs'[r].result = runs[r].result,
           UNCHANGED busy \/ (DOMAIN runs' = {} /\ busy' = <<>>)
    PROVE  AnswersOK'
  <1>1. CASE UNCHANGED busy
    BY <1>1 DEF AnswersOK, Told, Heard, Completing, Waiting
  <1>2. CASE DOMAIN runs' = {} /\ busy' = <<>>
    BY <1>2 DEF AnswersOK, Waiting
  <1>. QED BY <1>1, <1>2

\* Steps of scenarios that ask nobody.
LEMMA OthersKeepAnswers ==
    ASSUME ServerOK, AnswersOK, UNCHANGED <<grant, lost, busy>>,
           NEW S, RunEffect(S), S \cap Identity = {}
    PROVE  AnswersOK'
  <1>1. ASSUME NEW r \in DOMAIN runs' \cap DOMAIN grant PROVE r \in DOMAIN runs
    BY <1>1, RunsInductive DEF ServerOK, GrantsOK, RunsOK
  <1>2. \A r \in DOMAIN runs \cap DOMAIN grant : runs[r].scenario \notin S
    BY DEF ServerOK, KindsOK
  <1>3. \A r \in DOMAIN runs' \cap DOMAIN grant :
          runs'[r].status = runs[r].status /\ runs'[r].result = runs[r].result
    BY <1>1, <1>2, OutcomesStay DEF ServerOK, Alike, RunFields
  <1>. QED BY <1>1, <1>3, AnswersStay

LEMMA SetupKeepsAnswers ==
    ASSUME ServerOK, AnswersOK, SetupStep
    PROVE  AnswersOK'
  <1>1. UNCHANGED <<grant, lost>>
    BY DEF SetupStep, Clear, NoIdentity, identityVars
  <1>2. \A r \in DOMAIN runs' \cap DOMAIN grant :
             /\ r \in DOMAIN runs
             /\ runs'[r].status = runs[r].status /\ runs'[r].result = runs[r].result
    BY SetupEffect DEF ServerOK, RunsStay
  <1>3. UNCHANGED busy \/ (DOMAIN runs' = {} /\ busy' = <<>>)
    <2>1. UNCHANGED busy \/ Restart
      BY DEF SetupStep, Clear, Save, ClearScenario, ClearAll, OtherRequest, Age
    <2>2. Restart => DOMAIN runs' = {} /\ busy' = <<>>
      BY DEF Restart, Wiped
    <2>. QED BY <2>1, <2>2
  <1>. QED BY <1>1, <1>2, <1>3, AnswersStay

LEMMA PlatformKeepsAnswers ==
    ASSUME ServerOK, AnswersOK, PlatformStep
    PROVE  AnswersOK'
  <1>1. UNCHANGED <<runs, busy, lost>>
    BY DEF PlatformStep, PersonAnswers, Expire, CustomerAnswers, Generated, Publish, Changes,
           fileVars, NoIdentity, identityVars
  <1>2. CASE UNCHANGED grant
    BY <1>1, <1>2 DEF AnswersOK, Told, Heard, Completing, Waiting
  <1>3. ASSUME NEW r \in DOMAIN grant, PersonAnswers(r) PROVE AnswersOK'
    <2>1. PICK a \in AnswersOf(grant[r].wait) : grant' = [grant EXCEPT ![r].answer = a]
      BY <1>3 DEF PersonAnswers
    <2>2. grant[r].answer = "" /\ ~ grant[r].over
      BY <1>3 DEF PersonAnswers
    <2>3. GrantEdited(r, "answer", a)
      BY <2>1, EditGrant DEF ServerOK
    <2>4. /\ DOMAIN grant' = DOMAIN grant
          /\ grant'[r].given = grant[r].given /\ grant'[r].over = grant[r].over
          /\ \A q \in DOMAIN grant \ {r} : grant'[q] = grant[q]
      BY <2>3 DEF GrantEdited, GrantFields
    <2>5. \A q \in DOMAIN runs \cap DOMAIN grant : Told(q)'
      BY <1>1, <2>2, <2>4 DEF AnswersOK, Told, Reports
    <2>6. \A q \in DOMAIN runs \cap DOMAIN grant : Heard(q)'
      BY <1>1, <2>4 DEF AnswersOK, Heard, Completing
    <2>7. Waiting'
      BY <1>1, <2>2, <2>4 DEF AnswersOK, Waiting, ServerOK, BusyOK
    <2>. QED BY <1>1, <2>4, <2>5, <2>6, <2>7 DEF AnswersOK
  <1>4. ASSUME NEW r \in DOMAIN grant, Expire(r) PROVE AnswersOK'
    <2>1. GrantEdited(r, "over", TRUE)
      BY <1>4, EditGrant DEF ServerOK, Expire
    <2>2. /\ DOMAIN grant' = DOMAIN grant /\ grant'[r].over
          /\ grant'[r].given = grant[r].given /\ grant'[r].answer = grant[r].answer
          /\ \A q \in DOMAIN grant \ {r} : grant'[q] = grant[q]
      BY <2>1 DEF GrantEdited, GrantFields
    <2>3. ASSUME NEW q \in DOMAIN runs \cap DOMAIN grant PROVE Told(q)'
      <3>1. CASE q = r
        BY <1>1, <2>2, <3>1 DEF AnswersOK, Told, Reports
      <3>2. CASE q # r
        BY <1>1, <2>2, <3>2 DEF AnswersOK, Told
      <3>. QED BY <3>1, <3>2
    <2>4. \A q \in DOMAIN runs \cap DOMAIN grant : Heard(q)'
      BY <1>1, <2>2 DEF AnswersOK, Heard, Completing
    <2>5. Waiting'
      BY <1>1, <2>2 DEF AnswersOK, Waiting, ServerOK, BusyOK
    <2>. QED BY <1>1, <2>2, <2>3, <2>4, <2>5 DEF AnswersOK
  <1>. QED BY <1>2, <1>3, <1>4 DEF PlatformStep, NoIdentity, identityVars

\* What a handler knows of the platform's answer changes in one run only.
OnlyOf(r) ==
    /\ DOMAIN grant' = DOMAIN grant
    /\ \A q \in DOMAIN grant \ {r} : grant'[q] = grant[q] /\ (q \in lost' <=> q \in lost)
    /\ grant'[r].answer = grant[r].answer /\ grant'[r].over = grant[r].over

\* A handler that writes its run,
LEMMA EndsKeeps ==
    ASSUME ServerOK, AnswersOK, NEW r \in DOMAIN runs \cap DOMAIN grant,
           busy # <<>>, busy[1].run = r,
           OnlyOf(r), NEW status \in Statuses, NEW result, Ends(r, status, result),
           status = "done" => Reports(result, grant[r], r \in lost'),
           status = "pending" => (grant'[r].given => r \in lost')
    PROVE  AnswersOK'
  <1>. DEFINE data == [runs[r] EXCEPT !.status = status, !.result = result]
  <1>0. IsRun(runs[r])
    BY DEF ServerOK, RunsOK
  <1>1. data.status = status /\ data.result = result
    BY <1>0 DEF IsRun, RunFields
  <1>2. runs' = Put(runs, r, data) /\ busy' = <<>>
    BY DEF Ends, WriteRun
  <1>. HIDE DEF data
  <1>3. /\ DOMAIN runs' = DOMAIN runs /\ runs'[r] = data
        /\ \A q \in DOMAIN runs \ {r} : runs'[q] = runs[q]
    BY <1>2 DEF Put
  <1>4. ASSUME NEW q \in DOMAIN runs \cap DOMAIN grant PROVE Told(q)'
    <2>1. CASE q = r
      BY <1>1, <1>3, <2>1 DEF Told, OnlyOf, Reports
    <2>2. CASE q # r
      BY <1>3, <2>2 DEF AnswersOK, Told, OnlyOf
    <2>. QED BY <2>1, <2>2
  <1>5. ASSUME NEW q \in DOMAIN runs \cap DOMAIN grant PROVE Heard(q)'
    <2>1. CASE q = r
      BY <1>1, <1>3, <2>1 DEF Heard, OnlyOf
    <2>2. CASE q # r
      BY <1>3, <2>2 DEF AnswersOK, Heard, Completing, OnlyOf
    <2>. QED BY <2>1, <2>2
  <1>6. Waiting'
    BY <1>2 DEF Waiting
  <1>. QED BY <1>3, <1>4, <1>5, <1>6 DEF AnswersOK, OnlyOf

\* ... or goes on to its next request.
LEMMA GoesKeeps ==
    ASSUME ServerOK, AnswersOK, NEW r \in DOMAIN runs \cap DOMAIN grant,
           busy # <<>>, busy[1].run = r,
           OnlyOf(r), UNCHANGED lost, NEW at \in Completion, Goes(r, at), grant[r].answer = "code"
    PROVE  AnswersOK'
  <1>1. UNCHANGED runs /\ busy' # <<>> /\ busy'[1].run = r /\ busy'[1].at = at
    BY DEF Goes
  <1>2. ASSUME NEW q \in DOMAIN runs \cap DOMAIN grant PROVE Told(q)' /\ Heard(q)'
    <2>1. CASE q = r
      BY <1>1, <2>1 DEF AnswersOK, Told, Heard, Completing, OnlyOf, Reports
    <2>2. CASE q # r
      BY <1>1, <2>2 DEF AnswersOK, Told, Heard, Completing, OnlyOf
    <2>. QED BY <2>1, <2>2
  <1>3. Waiting'
    BY <1>1 DEF Waiting, OnlyOf
  <1>. QED BY <1>1, <1>2, <1>3 DEF AnswersOK, OnlyOf

\* A handler of a request that waits.
LEMMA HandlesKeepsAnswers ==
    ASSUME ServerOK, AnswersOK, NEW r \in DOMAIN runs, Handles(r)
    PROVE  AnswersOK'
  <1>1. /\ r \in DOMAIN runs \cap DOMAIN grant /\ busy # <<>> /\ busy[1].run = r /\ GrantsOK
        /\ IsGrant(grant[r])
    BY HandlesEffect DEF ServerOK, BusyOK, GrantsOK
  <1>2. /\ busy[1].at \in Polled => (grant[r].given => r \in lost)
        /\ busy[1].at \in Completion => grant[r].answer = "code"
    BY <1>1, AtPolledOrCompleting DEF AnswersOK, Waiting
  <1>3. UNCHANGED <<grant, lost>> => OnlyOf(r)
    BY DEF OnlyOf
  <1>4. /\ {"detached_signin", "detached_enroll", "challenge"} \subseteq Polled
        /\ {"exchange", "userinfo", "connections"} \subseteq Completion
        /\ {"pending", "done", "failed"} \subseteq Statuses
    BY DEF Polled, Completion, Statuses
  <1>5. /\ grant' = [grant EXCEPT ![r].given = TRUE] /\ lost' \in {lost, lost \cup {r}} => OnlyOf(r)
        /\ grant' = [grant EXCEPT ![r].spent = TRUE] /\ UNCHANGED lost => OnlyOf(r)
    <2>1. GrantEdited(r, "given", TRUE) /\ lost' \in {lost, lost \cup {r}} => OnlyOf(r)
      BY DEF GrantEdited, GrantFields, OnlyOf
    <2>2. GrantEdited(r, "spent", TRUE) /\ UNCHANGED lost => OnlyOf(r)
      BY DEF GrantEdited, GrantFields, OnlyOf
    <2>. QED BY <1>1, <2>1, <2>2, EditGrant
  <1>6. ASSUME OnlyOf(r), NEW result, Ends(r, "failed", result) PROVE AnswersOK'
    BY <1>1, <1>4, <1>6, EndsKeeps
  <1>7. ASSUME OnlyOf(r), Stays(r), grant'[r].given => r \in lost' PROVE AnswersOK'
    BY <1>1, <1>4, <1>7, EndsKeeps DEF Stays
  <1>8. ASSUME busy[1].at \in Polled, UNCHANGED <<grant, lost>>, Stays(r) \/ RequestFails(r)
        PROVE  AnswersOK'
    <2>1. OnlyOf(r) /\ (grant'[r].given => r \in lost')
      BY <1>2, <1>3, <1>8
    <2>. QED BY <1>6, <1>7, <1>8, <2>1 DEF RequestFails
  <1>9. ASSUME OnlyOf(r), grant[r].answer # "", Ends(r, "done", grant[r].answer)
        PROVE  AnswersOK'
    BY <1>1, <1>4, <1>9, EndsKeeps DEF Reports
  <1>10. CASE PollResult(r)
    <2>1. busy[1].at \in Polled
      BY <1>4, <1>10 DEF PollResult, Busy
    <2>2. CASE /\ grant[r].answer \in {"code", "enrolled"}
               /\ grant' = [grant EXCEPT ![r].given = TRUE]
               /\ Delivered(r, grant[r].answer) /\ UNCHANGED lost
      <3>1. OnlyOf(r) /\ grant[r].answer # ""
        BY <1>5, <2>2
      <3>. QED BY <1>1, <1>4, <1>9, <2>2, <3>1, GoesKeeps DEF Delivered
    <2>3. CASE /\ grant' = [grant EXCEPT ![r].given = TRUE]
               /\ RequestFails(r) /\ lost' = lost \cup {r}
      BY <1>5, <1>6, <1>7, <2>3 DEF RequestFails
    <2>4. CASE UNCHANGED identityVars /\ (Ends(r, "failed", "denied") \/ Expired(r))
      BY <1>3, <1>6, <2>4 DEF identityVars, Expired
    <2>5. CASE UNCHANGED identityVars /\ (Stays(r) \/ RequestFails(r))
      BY <1>8, <2>1, <2>5 DEF identityVars
    <2>. QED BY <1>10, <2>2, <2>3, <2>4, <2>5 DEF PollResult
  <1>11. CASE WaitForResult(r)
    <2>1. busy[1].at \in Polled
      BY <1>4, <1>11 DEF WaitForResult, Busy
    <2>2. ASSUME NEW status \in Terminal(grant[r]),
                 grant' = [grant EXCEPT ![r].given = TRUE],
                 Ends(r, "done", status), UNCHANGED lost
          PROVE  AnswersOK'
      <3>1. OnlyOf(r)
        BY <1>5, <2>2
      <3>2. Reports(status, grant[r], r \in lost')
        BY <1>2, <2>1, <2>2 DEF Terminal, Reports
      <3>. QED BY <1>1, <1>4, <2>2, <3>1, <3>2, EndsKeeps
    <2>3. CASE /\ grant' = [grant EXCEPT ![r].given = TRUE]
               /\ RequestFails(r) /\ lost' = lost \cup {r}
      BY <1>5, <1>6, <1>7, <2>3 DEF RequestFails
    <2>4. CASE UNCHANGED identityVars /\ (Stays(r) \/ RequestFails(r))
      BY <1>8, <2>1, <2>4 DEF identityVars
    <2>. QED BY <1>11, <2>2, <2>3, <2>4 DEF WaitForResult, Outcome
  <1>12. CASE ExchangeCode(r)
    <2>1. grant[r].answer = "code" /\ UNCHANGED lost
      BY <1>2, <1>4, <1>12 DEF ExchangeCode, Busy
    <2>2. grant' = grant \/ grant' = [grant EXCEPT ![r].spent = TRUE]
      BY <1>12 DEF ExchangeCode
    <2>3. OnlyOf(r)
      BY <1>3, <1>5, <2>1, <2>2
    <2>4. Goes(r, "userinfo") \/ Ends(r, "failed", "error")
      BY <1>12 DEF ExchangeCode
    <2>. QED BY <1>1, <1>4, <1>6, <2>1, <2>3, <2>4, GoesKeeps
  <1>13. CASE ResolveUserinfo(r) \/ ReadLiveValues(r)
    <2>1. grant[r].answer = "code" /\ UNCHANGED <<grant, lost>>
      BY <1>2, <1>4, <1>13 DEF ResolveUserinfo, ReadLiveValues, Busy, identityVars
    <2>2. OnlyOf(r) /\ grant[r].answer # ""
      BY <1>3, <2>1
    <2>3. Goes(r, "connections") \/ Ends(r, "done", "code") \/ Ends(r, "failed", "error")
      BY <1>13 DEF ResolveUserinfo, ReadLiveValues
    <2>. QED BY <1>1, <1>4, <1>6, <1>9, <2>1, <2>2, <2>3, GoesKeeps
  <1>. QED BY <1>10, <1>11, <1>12, <1>13 DEF Handles

\* A start asks; a poll asks after what was not handed out; a redirect brings an answer.
LEMMA IdentityKeepsAnswers ==
    ASSUME ServerOK, AnswersOK,
           \/ \E s \in Identity \cap used : StartIdentity(s)
           \/ \E r \in DOMAIN runs : BeginPoll(r) \/ Callback(r) \/ Handles(r)
    PROVE  AnswersOK'
  <1>1. ASSUME NEW s \in Identity \cap used, StartIdentity(s) PROVE AnswersOK'
    <2>1. PICK wait :
            /\ NewRun([Run(s, "pending") EXCEPT !.wait = wait])
            /\ grant' = Put(grant, started + 1, [wait |-> wait, answer |-> "", given |-> FALSE,
                                                 spent |-> FALSE, over |-> FALSE])
      BY <1>1 DEF StartIdentity
    <2>. DEFINE new == [Run(s, "pending") EXCEPT !.wait = wait]
    <2>2. new.status = "pending"
      BY DEF Run
    <2>. HIDE DEF new
    <2>3. runs' = Put(Live, started + 1, new) /\ UNCHANGED lost /\ busy' = <<>> /\ busy = <<>>
      BY <1>1, <2>1 DEF StartIdentity, NewRun, Sweep, Idle, new
    <2>4. /\ runs'[started + 1] = new
          /\ \A r \in DOMAIN runs' \ {started + 1} : r \in DOMAIN runs /\ runs'[r] = runs[r]
      BY <2>3, LiveRuns DEF Put
    <2>5. /\ ~ grant'[started + 1].given
          /\ \A r \in DOMAIN grant' \ {started + 1} : r \in DOMAIN grant /\ grant'[r] = grant[r]
      BY <2>1 DEF Put
    <2>6. ASSUME NEW r \in DOMAIN runs' \cap DOMAIN grant' PROVE Told(r)' /\ Heard(r)'
      <3>1. CASE r = started + 1
        BY <2>2, <2>4, <2>5, <3>1 DEF Told, Heard
      <3>2. CASE r # started + 1
        BY <2>3, <2>4, <2>5, <3>2 DEF AnswersOK, Told, Heard, Completing
      <3>. QED BY <3>1, <3>2
    <2>. QED BY <2>3, <2>6 DEF AnswersOK, Waiting
  <1>2. ASSUME NEW r \in DOMAIN runs, BeginPoll(r) PROVE AnswersOK'
    <2>1. /\ busy = <<>> /\ busy' = <<[run |-> r, at |-> runs[r].wait]>> /\ runs' = Live
          /\ runs[r].wait \in Polled /\ runs[r].status = "pending" /\ UNCHANGED <<grant, lost>>
      BY <1>2 DEF BeginPoll, Sweep, identityVars, Idle
    <2>2. \A q \in DOMAIN runs' : q \in DOMAIN runs /\ runs'[q] = runs[q]
      BY <2>1, LiveRuns
    <2>3. r \in DOMAIN grant
      BY <1>2, <2>1, IdentityKeeps DEF BusyOK, GrantStays
    <2>4. ASSUME NEW q \in DOMAIN runs' \cap DOMAIN grant PROVE Told(q)' /\ Heard(q)'
      BY <2>1, <2>2 DEF AnswersOK, Told, Heard, Completing
    <2>5. grant[r].given => r \in lost
      BY <2>1, <2>3 DEF AnswersOK, Heard, Completing
    <2>6. Waiting'
      BY <2>1, <2>5 DEF Waiting
    <2>. QED BY <2>1, <2>4, <2>6 DEF AnswersOK
  <1>3. ASSUME NEW r \in DOMAIN runs, Callback(r) PROVE AnswersOK'
    <2>. DEFINE a == grant[r].answer
                status == IF a = "denied" THEN "failed" ELSE "done"
                ended == [Live[r] EXCEPT !.status = status, !.result = a]
    <2>1. /\ busy = <<>> /\ r \in DOMAIN Live /\ r \in DOMAIN grant /\ a # ""
          /\ UNCHANGED <<grant, lost>>
          /\ \/ a = "code" /\ runs' = Live /\ busy' = <<[run |-> r, at |-> "exchange"]>>
             \/ runs' = Put(Live, r, ended) /\ busy' = <<>>
      BY <1>3 DEF Callback, Idle, Sweep, identityVars
    <2>2. CASE a = "code" /\ runs' = Live /\ busy' = <<[run |-> r, at |-> "exchange"]>>
      <3>1. \A q \in DOMAIN runs' : q \in DOMAIN runs /\ runs'[q] = runs[q]
        BY <2>2, LiveRuns
      <3>2. ASSUME NEW q \in DOMAIN runs' \cap DOMAIN grant PROVE Told(q)' /\ Heard(q)'
        BY <2>1, <3>1 DEF AnswersOK, Told, Heard, Completing
      <3>3. Waiting'
        BY <2>1, <2>2 DEF Waiting, Completion
      <3>. QED BY <2>1, <3>2, <3>3 DEF AnswersOK
    <2>3. CASE runs' = Put(Live, r, ended) /\ busy' = <<>>
      <3>1. IsRun(Live[r]) /\ status \in Statuses /\ status # "pending"
        BY <2>1, LiveRuns DEF ServerOK, RunsOK, Statuses
      <3>. HIDE DEF status
      <3>2. ended.status = status /\ ended.result = a
        BY <3>1 DEF IsRun, RunFields
      <3>. HIDE DEF ended
      <3>3. /\ runs'[r] = ended
            /\ \A q \in DOMAIN runs' \ {r} : q \in DOMAIN runs /\ runs'[q] = runs[q]
        BY <2>3, LiveRuns DEF Put
      <3>4. ASSUME NEW q \in DOMAIN runs' \cap DOMAIN grant PROVE Told(q)' /\ Heard(q)'
        <4>1. CASE q = r
          BY <2>1, <3>1, <3>2, <3>3, <4>1 DEF Told, Heard, Reports
        <4>2. CASE q # r
          BY <2>1, <3>3, <4>2 DEF AnswersOK, Told, Heard, Completing
        <4>. QED BY <4>1, <4>2
      <3>5. Waiting'
        BY <2>3 DEF Waiting
      <3>. QED BY <2>1, <3>4, <3>5 DEF AnswersOK
    <2>. QED BY <2>1, <2>2, <2>3
  <1>. QED BY <1>1, <1>2, <1>3, HandlesKeepsAnswers

LEMMA AnswersInductive == ServerOK /\ AnswersOK /\ [Next]_vars => AnswersOK'
  <1>. SUFFICES ASSUME ServerOK, AnswersOK, [Next]_vars PROVE AnswersOK'
    OBVIOUS
  <1>1. CASE UNCHANGED vars
    BY <1>1, AnswersStay DEF vars, fileVars, identityVars
  <1>2. CASE PlatformStep
    BY <1>2, PlatformKeepsAnswers
  <1>3. CASE SetupStep
    BY <1>3, SetupKeepsAnswers
  <1>4. CASE /\ \/ \E s \in Identity \cap used : StartIdentity(s)
                \/ \E r \in DOMAIN runs : BeginPoll(r) \/ Callback(r) \/ Handles(r)
             /\ NoFlow /\ NoData
    BY <1>4, IdentityKeepsAnswers
  <1>5. CASE /\ (FlowScenario \in used /\ StartFlow) \/ (\E r \in DOMAIN runs : PollFlow(r))
             /\ NoIdentity /\ NoData
    <2>1. RunEffect({FlowScenario})
      BY <1>5, FlowEffect DEF ServerOK, FlowsOK, KindsOK
    <2>2. UNCHANGED <<grant, lost, busy>>
      BY <1>5, FlowKeeps DEF NoIdentity, identityVars
    <2>3. {FlowScenario} \cap Identity = {}
      BY Families
    <2>. QED BY <2>1, <2>2, <2>3, OthersKeepAnswers
  <1>6. CASE /\ \/ "companydata:read" \in used /\ StartRead
                \/ "companydata:changes" \in used /\ StartChanges
                \/ Webhooks \in used /\ StartWebhook
                \/ Documents \in used /\ (StartDocuments \/ Cleanup)
                \/ \E d \in deliveries : Webhook(d)
                \/ \E r \in DOMAIN runs : PollWebhook(r)
             /\ NoIdentity /\ NoFlow
    <2>1. RunEffect(Data)
      BY <1>6, DataEffect DEF ServerOK
    <2>2. UNCHANGED <<grant, lost>>
      BY <1>6 DEF NoIdentity, identityVars
    <2>3. UNCHANGED busy
      BY <1>6, DataKeeps
    <2>. QED BY <2>1, <2>2, <2>3, Families, OthersKeepAnswers
  <1>. QED BY <1>1, <1>2, <1>3, <1>4, <1>5, <1>6 DEF Next, FamilyStep

\* A run that is done tells what the person answered, and what the platform handed out once
\* is not dropped by the run that read it (pollPending, runCallback, pollErr).
THEOREM AnswersAreReported == Spec => []ReportedAsAnswered
  <1>1. Init => AnswersOK
    <2>1. Init => DOMAIN runs = {} /\ busy = <<>>
      BY DEF Init, InitFiles
    <2>. QED BY <2>1 DEF AnswersOK, Waiting
  <1>2. AnswersOK => ReportedAsAnswered
    BY DEF AnswersOK, Told, Heard, Completing, Idle, ReportedAsAnswered
  <1>. QED BY <1>1, <1>2, AnswersInductive, ServerInvariant, PTL DEF Spec

-----------------------------------------------------------------------------
(* The steps of a flow run.                                                *)

Accepted(run) == {i \in DOMAIN run.steps : run.steps[i].accepted}
Shown(run) == {run.steps[i].node : i \in Accepted(run)}
Taken(flow) ==
    {n \in 1 .. flow.at : /\ n <= Len(flow.steps)
                          /\ flow.steps[n].party = "company" /\ flow.steps[n].field # "none"}
Of(run, n) == {k \in DOMAIN run.steps : run.steps[k].node = n}

\* How far the platform got.
Reached(flow) == flow.at <= Len(flow.steps) /\ (flow.made => flow.at = Len(flow.steps))

\* What is shown is what was taken, but for the step a run failed at,
AsTaken(run, flow) ==
    \/ Shown(run) = Taken(flow)
    \/ /\ run.status = "failed"
       /\ \E last \in Taken(flow) : /\ Shown(run) = Taken(flow) \ {last}
                                    /\ \A n \in Shown(run) : n < last

\* ... in the order of the flow, and never beyond the step that is next,
InTurn(run, flow) ==
    /\ \A i \in DOMAIN run.steps :
         /\ run.steps[i].node <= flow.at + 1
         /\ run.steps[i].accepted => run.steps[i].node <= flow.at
    /\ \A i, j \in Accepted(run) : i < j => run.steps[i].node < run.steps[j].node

\* ... each email that was taken refused once before, and nothing else ever,
Before(run, j) == {k \in 1 .. j - 1 : run.steps[k].node = run.steps[j].node}
AsFilled(field, refused) ==
    \/ field = "plain" /\ refused = {}
    \/ field = "email" /\ \E i \in refused : refused = {i}
RefusedBefore(run, flow) ==
    \A j \in Accepted(run) : AsFilled(flow.steps[run.steps[j].node].field, Before(run, j))

\* ... and the next one not shown at all unless it was refused, an email once.
NextRefused(run, flow) ==
    /\ \A n \in run.rejected : n <= flow.at + 1
    /\ flow.at + 1 \notin run.rejected => Of(run, flow.at + 1) = {}
    /\ flow.at + 1 \in run.rejected =>
         \/ flow.steps[flow.at + 1].field = "unfit"
         \/ /\ flow.steps[flow.at + 1].field = "email"
            /\ \E i \in DOMAIN run.steps : Of(run, flow.at + 1) = {i}

\* What a run shows of its flow.
Tracks(run, flow) ==
    /\ Reached(flow) /\ AsTaken(run, flow) /\ InTurn(run, flow)
    /\ RefusedBefore(run, flow) /\ NextRefused(run, flow)
    /\ run.status = "done" => flow.at = Len(flow.steps)

StepsOK == \A r \in DOMAIN runs \cap DOMAIN flows : Tracks(runs[r], flows[r])

\* Steps are numbered.
LEMMA Nodes ==
    ASSUME NEW run, IsRun(run)
    PROVE  \A i \in DOMAIN run.steps : run.steps[i].node \in Nat
  <1>1. run.steps \in Seq(StepType)
    BY DEF IsRun
  <1>2. \A i \in DOMAIN run.steps : run.steps[i] \in StepType
    BY <1>1
  <1>. QED BY <1>2 DEF StepType

\* What was refused before a step stays before it.
LEMMA StaysRefused ==
    ASSUME NEW run, NEW new, NEW flow, RefusedBefore(run, flow),
           \A j \in Accepted(run) : /\ j \in Nat /\ 1 <= j
                                    /\ \A k \in 1 .. j : new.steps[k] = run.steps[k]
    PROVE  \A j \in Accepted(run) :
             AsFilled(flow.steps[new.steps[j].node].field, Before(new, j))
  <1>. SUFFICES ASSUME NEW j \in Accepted(run)
                PROVE  AsFilled(flow.steps[new.steps[j].node].field, Before(new, j))
    OBVIOUS
  <1>1. new.steps[j] = run.steps[j]
    OBVIOUS
  <1>2. \A k \in 1 .. j - 1 : new.steps[k] = run.steps[k]
    OBVIOUS
  <1>3. Before(new, j) = Before(run, j)
    BY <1>1, <1>2 DEF Before
  <1>. QED BY <1>1, <1>3 DEF RefusedBefore

\* A run that stays as it is, its outcome aside, shows the same.
LEMMA SameSteps ==
    ASSUME NEW run, NEW new, NEW flow, Tracks(run, flow),
           new.steps = run.steps, new.rejected = run.rejected,
           new.status = run.status \/ Shown(run) = Taken(flow),
           new.status = "done" => flow.at = Len(flow.steps)
    PROVE  Tracks(new, flow)
  <1>1. Accepted(new) = Accepted(run) /\ Shown(new) = Shown(run) /\ \A n : Of(new, n) = Of(run, n)
    BY DEF Accepted, Shown, Of
  <1>2. AsTaken(new, flow)
    BY <1>1 DEF Tracks, AsTaken
  <1>3. InTurn(new, flow)
    BY <1>1 DEF Tracks, InTurn
  <1>5. RefusedBefore(new, flow)
    <2>1. ASSUME NEW j PROVE Before(new, j) = Before(run, j)
      BY DEF Before
    <2>. QED BY <1>1, <2>1 DEF Tracks, RefusedBefore
  <1>4. NextRefused(new, flow)
    BY <1>1 DEF Tracks, NextRefused
  <1>. QED BY <1>2, <1>3, <1>4, <1>5 DEF Tracks

\* The platform gets ahead by one step: of the customer, or of the company.
LEMMA OneFurther ==
    ASSUME NEW flow \in FlowType, NEW next \in FlowType,
           next.steps = flow.steps, next.at = flow.at + 1, flow.at + 1 <= Len(flow.steps)
    PROVE  Taken(next) = IF /\ flow.steps[flow.at + 1].party = "company"
                            /\ flow.steps[flow.at + 1].field # "none"
                         THEN Taken(flow) \cup {flow.at + 1} ELSE Taken(flow)
  BY DEF Taken, FlowType

\* A run that does not show the new step shows what it showed.
LEMMA StepNotShown ==
    ASSUME NEW run, IsRun(run), NEW flow \in FlowType, NEW next \in FlowType, Tracks(run, flow),
           next.steps = flow.steps, next.at = flow.at + 1, next.at <= Len(next.steps),
           next.made => next.at = Len(next.steps)
    PROVE  /\ Reached(next) /\ InTurn(run, next) /\ RefusedBefore(run, next)
           /\ NextRefused(run, next)
  <1>1. \A i \in DOMAIN run.steps : run.steps[i].node \in Nat
    BY Nodes
  <1>2. flow.at \in Nat
    BY DEF FlowType
  <1>3. InTurn(run, next)
    BY <1>1, <1>2 DEF Tracks, InTurn
  <1>4. RefusedBefore(run, next)
    BY DEF Tracks, RefusedBefore
  <1>5. NextRefused(run, next)
    <2>1. \A n \in run.rejected : n \in Nat /\ n <= flow.at + 1
      BY DEF Tracks, NextRefused, IsRun
    <2>2. next.at + 1 \notin run.rejected
      BY <1>2, <2>1
    <2>3. Of(run, next.at + 1) = {}
      BY <1>1, <1>2 DEF Of, Tracks, InTurn
    <2>. QED BY <1>2, <2>1, <2>2, <2>3 DEF NextRefused
  <1>. QED BY <1>3, <1>4, <1>5 DEF Reached

\* One step more.
LEMMA Appended ==
    ASSUME NEW run, IsRun(run), NEW new, NEW n \in Nat, NEW accepted \in BOOLEAN,
           new.steps = Append(run.steps, [node |-> n, accepted |-> accepted])
    PROVE  LET L == Len(run.steps)
           IN  /\ L \in Nat /\ DOMAIN run.steps = 1 .. L /\ DOMAIN new.steps = 1 .. L + 1
               /\ \A i \in 1 .. L : new.steps[i] = run.steps[i]
               /\ new.steps[L + 1].node = n /\ new.steps[L + 1].accepted = accepted
  <1>. DEFINE step == [node |-> n, accepted |-> accepted]
  <1>1. step \in StepType /\ step.node = n /\ step.accepted = accepted
    BY DEF StepType
  <1>2. run.steps \in Seq(StepType)
    BY DEF IsRun
  <1>. HIDE DEF step
  <1>3. new.steps = Append(run.steps, step)
    BY DEF step
  <1>. QED BY <1>1, <1>2, <1>3, AppendProperties

\* What is refused is shown, and the platform is where it was.
LEMMA Refuses ==
    ASSUME NEW run, IsRun(run), NEW flow \in FlowType, Tracks(run, flow),
           \/ flow.steps[flow.at + 1].field = "unfit"
           \/ flow.steps[flow.at + 1].field = "email" /\ flow.at + 1 \notin run.rejected,
           NEW new,
           new.steps = Append(run.steps, [node |-> flow.at + 1, accepted |-> FALSE]),
           new.rejected = run.rejected \cup {flow.at + 1}, new.status = run.status
    PROVE  Tracks(new, flow)
  <1>. DEFINE L == Len(run.steps)
              n == flow.at + 1
  <1>1. n \in Nat /\ flow.at \in Nat
    BY DEF FlowType
  <1>2. /\ L \in Nat /\ DOMAIN run.steps = 1 .. L /\ DOMAIN new.steps = 1 .. L + 1
        /\ \A i \in 1 .. L : new.steps[i] = run.steps[i]
        /\ new.steps[L + 1].node = n /\ new.steps[L + 1].accepted = FALSE
    BY <1>1, Appended
  <1>. HIDE DEF L
  <1>3. Accepted(new) = Accepted(run) /\ Accepted(run) \subseteq 1 .. L
    BY <1>2 DEF Accepted
  <1>4. Shown(new) = Shown(run)
    BY <1>2, <1>3 DEF Shown
  <1>5. AsTaken(new, flow)
    BY <1>4 DEF Tracks, AsTaken
  <1>6. InTurn(new, flow)
    BY <1>1, <1>2, <1>3 DEF Tracks, InTurn
  <1>7. RefusedBefore(new, flow)
    <2>1. \A j \in Accepted(run) : /\ j \in Nat /\ 1 <= j
                                    /\ \A k \in 1 .. j : new.steps[k] = run.steps[k]
      BY <1>2, <1>3
    <2>2. RefusedBefore(run, flow)
      BY DEF Tracks
    <2>3. \A j \in Accepted(run) :
            AsFilled(flow.steps[new.steps[j].node].field, Before(new, j))
      BY <2>1, <2>2, StaysRefused
    <2>. QED BY <1>3, <2>3 DEF RefusedBefore
  <1>8. NextRefused(new, flow)
    <2>1. n \notin run.rejected => Of(run, n) = {}
      BY DEF Tracks, NextRefused
    <2>2. n \notin run.rejected => Of(new, n) = {L + 1}
      BY <1>2, <2>1 DEF Of
    <2>3. L + 1 \in DOMAIN new.steps /\ n \in new.rejected
      BY <1>2
    <2>4. \A m \in new.rejected : m <= n
      BY <1>1 DEF Tracks, NextRefused
    <2>. QED BY <2>2, <2>3, <2>4 DEF NextRefused
  <1>. QED BY <1>5, <1>6, <1>7, <1>8 DEF Tracks

\* A step that is taken is shown, an email after it was refused.
LEMMA Accepts ==
    ASSUME NEW run, IsRun(run), NEW flow \in FlowType, NEW next \in FlowType, Tracks(run, flow),
           Shown(run) = Taken(flow),
           next.steps = flow.steps, next.at = flow.at + 1, next.at <= Len(next.steps),
           next.made => next.at = Len(next.steps),
           flow.steps[flow.at + 1].party = "company",
           \/ flow.steps[flow.at + 1].field = "plain"
           \/ flow.steps[flow.at + 1].field = "email" /\ flow.at + 1 \in run.rejected,
           NEW new,
           new.steps = Append(run.steps, [node |-> flow.at + 1, accepted |-> TRUE]),
           new.rejected = run.rejected, new.status = "pending"
    PROVE  Tracks(new, next)
  <1>. DEFINE L == Len(run.steps)
              n == flow.at + 1
  <1>1. n \in Nat /\ flow.at \in Nat
    BY DEF FlowType
  <1>2. /\ L \in Nat /\ DOMAIN run.steps = 1 .. L /\ DOMAIN new.steps = 1 .. L + 1
        /\ \A i \in 1 .. L : new.steps[i] = run.steps[i]
        /\ new.steps[L + 1].node = n /\ new.steps[L + 1].accepted = TRUE
    BY <1>1, Appended
  <1>3. \A i \in 1 .. L : run.steps[i].node \in Nat
    BY <1>2, Nodes
  <1>4. Reached(next) /\ InTurn(run, next) /\ RefusedBefore(run, next) /\ NextRefused(run, next)
    BY StepNotShown
  <1>. HIDE DEF L
  <1>5. Accepted(new) = Accepted(run) \cup {L + 1} /\ Accepted(run) \subseteq 1 .. L
    BY <1>2 DEF Accepted
  <1>6. Shown(new) = Shown(run) \cup {n}
    BY <1>2, <1>5 DEF Shown
  <1>7. AsTaken(new, next)
    BY <1>6, OneFurther DEF AsTaken
  <1>8. InTurn(new, next)
    <2>1. \A i \in Accepted(run) : run.steps[i].node <= flow.at
      BY DEF Tracks, InTurn, Accepted
    <2>2. \A i, j \in Accepted(new) : i < j => new.steps[i].node < new.steps[j].node
      BY <1>1, <1>2, <1>3, <1>4, <1>5, <2>1 DEF InTurn
    <2>3. \A i \in 1 .. L : /\ run.steps[i].node <= next.at + 1
                            /\ run.steps[i].accepted => run.steps[i].node <= next.at
      BY <1>2, <1>4 DEF InTurn
    <2>4. n <= next.at + 1 /\ n <= next.at
      BY <1>1
    <2>5. \A i \in 1 .. L + 1 : i \in 1 .. L \/ i = L + 1
      BY <1>2
    <2>. QED BY <1>2, <2>2, <2>3, <2>4, <2>5 DEF InTurn
  <1>9. RefusedBefore(new, next)
    <2>1. \A j \in Accepted(run) :
            AsFilled(next.steps[new.steps[j].node].field, Before(new, j))
      <3>1. \A j \in Accepted(run) : /\ j \in Nat /\ 1 <= j
                                      /\ \A k \in 1 .. j : new.steps[k] = run.steps[k]
        BY <1>2, <1>5
      <3>. QED BY <1>4, <3>1, StaysRefused
    <2>2. Before(new, L + 1) = Of(run, n)
      BY <1>2 DEF Before, Of
    <2>3. ASSUME next.steps[n].field = "plain"
          PROVE  AsFilled(next.steps[n].field, Before(new, L + 1))
      <3>1. n \notin run.rejected
        BY <2>3 DEF Tracks, NextRefused
      <3>2. Of(run, n) = {}
        BY <3>1 DEF Tracks, NextRefused
      <3>. QED BY <2>2, <2>3, <3>2 DEF AsFilled
    <2>4. ASSUME next.steps[n].field = "email"
          PROVE  AsFilled(next.steps[n].field, Before(new, L + 1))
      <3>1. PICK i \in DOMAIN run.steps : Of(run, n) = {i}
        BY <2>4 DEF Tracks, NextRefused
      <3>. QED BY <2>2, <2>4, <3>1 DEF AsFilled
    <2>5. AsFilled(next.steps[n].field, Before(new, L + 1))
      BY <2>3, <2>4
    <2>. QED BY <1>2, <1>5, <2>1, <2>5 DEF RefusedBefore
  <1>10. NextRefused(new, next)
    <2>1. \A n1 \in run.rejected : n1 \in Nat /\ n1 <= flow.at + 1
      BY DEF Tracks, NextRefused, IsRun
    <2>2. next.at + 1 \notin new.rejected
      BY <1>1, <2>1
    <2>3. Of(new, next.at + 1) = {}
      <3>1. \A k \in 1 .. L : run.steps[k].node <= flow.at + 1
        BY <1>2 DEF Tracks, InTurn
      <3>. QED BY <1>1, <1>2, <1>3, <3>1 DEF Of
    <2>. QED BY <1>4, <2>2, <2>3 DEF NextRefused
  <1>. QED BY <1>4, <1>7, <1>8, <1>9, <1>10 DEF Tracks

\* Steps of the other families leave the flow runs alone.
LEMMA OthersKeepSteps ==
    ASSUME ServerOK, StepsOK, UNCHANGED flows, NEW S, RunEffect(S), FlowScenario \notin S
    PROVE  StepsOK'
  <1>1. ASSUME NEW r \in DOMAIN runs' \cap DOMAIN flows PROVE Tracks(runs'[r], flows[r])
    <2>1. r \in DOMAIN runs
      BY RunsInductive DEF ServerOK, FlowsOK, RunsOK
    <2>2. runs[r].scenario \notin S
      BY <2>1 DEF ServerOK, KindsOK
    <2>3. Alike(runs'[r], runs[r], {"events"})
      BY <2>1, <2>2, OutcomesStay DEF ServerOK
    <2>4. /\ runs'[r].steps = runs[r].steps /\ runs'[r].rejected = runs[r].rejected
          /\ runs'[r].status = runs[r].status
      BY <2>3 DEF Alike, RunFields
    <2>5. Tracks(runs[r], flows[r])
      BY <2>1 DEF StepsOK
    <2>6. runs'[r].status = "done" => flows[r].at = Len(flows[r].steps)
      BY <2>4, <2>5 DEF Tracks
    <2>. QED BY <2>4, <2>5, <2>6, SameSteps
  <1>. QED BY <1>1 DEF StepsOK

\* One run of the platform's is written.
LEMMA FlowFields ==
    ASSUME NEW r \in DOMAIN flows, flows[r] \in FlowType, NEW at \in Nat, NEW made \in BOOLEAN,
           \/ flows' = [flows EXCEPT ![r].at = at] /\ made = flows[r].made
           \/ flows' = [flows EXCEPT ![r].at = at, ![r].made = made]
           \/ flows' = [flows EXCEPT ![r].made = made] /\ at = flows[r].at
    PROVE  /\ DOMAIN flows' = DOMAIN flows
           /\ flows'[r] \in FlowType /\ flows'[r].steps = flows[r].steps
           /\ flows'[r].at = at /\ flows'[r].made = made
           /\ \A q \in DOMAIN flows \ {r} : flows'[q] = flows[q]
  <1>. DEFINE flow == flows[r]
  <1>1. \A f \in FlowType :
          /\ LET new == [f EXCEPT !.at = at] IN
             /\ new \in FlowType /\ new.at = at /\ new.made = f.made /\ new.steps = f.steps
          /\ LET new == [f EXCEPT !.made = made] IN
             /\ new \in FlowType /\ new.at = f.at /\ new.made = made /\ new.steps = f.steps
          /\ LET new == [f EXCEPT !.at = at, !.made = made] IN
             /\ new \in FlowType /\ new.at = at /\ new.made = made /\ new.steps = f.steps
    BY DEF FlowType
  <1>2. CASE flows' = [flows EXCEPT ![r].at = at] /\ made = flows[r].made
    BY <1>1, <1>2
  <1>3. CASE flows' = [flows EXCEPT ![r].at = at, ![r].made = made]
    <2>1. flows' = [flows EXCEPT ![r] = [flow EXCEPT !.at = at, !.made = made]]
      BY <1>3 DEF FlowType
    <2>. QED BY <1>1, <2>1
  <1>4. CASE flows' = [flows EXCEPT ![r].made = made] /\ at = flows[r].at
    BY <1>1, <1>4
  <1>. QED BY <1>2, <1>3, <1>4

\* The customer, and what the platform generates by itself.
LEMMA PlatformKeepsSteps ==
    ASSUME ServerOK, StepsOK, NEW r \in DOMAIN flows, CustomerAnswers(r) \/ Generated(r)
    PROVE  StepsOK'
  <1>. DEFINE flow == flows[r]
              next == flows'[r]
  <1>1. flow \in FlowType /\ UNCHANGED runs
    BY DEF ServerOK, FlowsOK, CustomerAnswers, Generated, fileVars
  <1>2. flow.at \in Nat /\ flow.at + 1 \in Nat
    BY <1>1 DEF FlowType
  <1>3. CASE CustomerAnswers(r)
    <2>1. /\ DOMAIN flows' = DOMAIN flows
          /\ next \in FlowType /\ next.steps = flow.steps
          /\ next.at = flow.at + 1 /\ next.made = flow.made
          /\ \A q \in DOMAIN flows \ {r} : flows'[q] = flows[q]
      <3>1. flow.made \in BOOLEAN
        BY <1>1 DEF FlowType
      <3>2. flows' = [flows EXCEPT ![r].at = flow.at + 1]
        BY <1>3 DEF CustomerAnswers
      <3>. QED BY <1>1, <1>2, <3>1, <3>2, FlowFields
    <2>2. flow.at + 1 <= Len(flow.steps) /\ flow.steps[flow.at + 1].party = "customer"
      BY <1>3 DEF CustomerAnswers, Owes, Leaf
    <2>3. ASSUME r \in DOMAIN runs PROVE Tracks(runs[r], next)
      <3>1. IsRun(runs[r]) /\ Tracks(runs[r], flow)
        BY <2>3 DEF StepsOK, ServerOK, RunsOK
      <3>2. ~ flow.made
        BY <1>1, <1>2, <2>2, <3>1 DEF Tracks, Reached, FlowType
      <3>3. Taken(next) = Taken(flow)
        BY <1>1, <2>1, <2>2, OneFurther
      <3>4. runs[r].status # "done"
        BY <1>1, <1>2, <2>2, <3>1 DEF Tracks, FlowType
      <3>5. AsTaken(runs[r], next)
        BY <3>1, <3>3 DEF Tracks, AsTaken
      <3>6. /\ Reached(next) /\ InTurn(runs[r], next) /\ RefusedBefore(runs[r], next)
            /\ NextRefused(runs[r], next)
        BY <1>1, <2>1, <2>2, <3>1, <3>2, StepNotShown
      <3>. QED BY <3>4, <3>5, <3>6 DEF Tracks
    <2>. QED BY <1>1, <2>1, <2>3 DEF StepsOK
  <1>4. CASE Generated(r)
    <2>1. /\ DOMAIN flows' = DOMAIN flows
          /\ next.steps = flow.steps /\ next.at = flow.at
          /\ \A q \in DOMAIN flows \ {r} : flows'[q] = flows[q]
      <3>1. flows' = [flows EXCEPT ![r].made = TRUE]
        BY <1>4 DEF Generated
      <3>. QED BY <1>1, <1>2, <3>1, FlowFields
    <2>2. flow.at = Len(flow.steps)
      BY <1>4 DEF Generated, Leaf
    <2>3. ASSUME r \in DOMAIN runs PROVE Tracks(runs[r], next)
      <3>1. Tracks(runs[r], flow)
        BY <2>3 DEF StepsOK
      <3>2. Taken(next) = Taken(flow) /\ Reached(next)
        BY <2>1, <2>2, <3>1 DEF Taken, Reached, Tracks
      <3>3. AsTaken(runs[r], next)
        BY <3>1, <3>2 DEF Tracks, AsTaken
      <3>4. InTurn(runs[r], next) /\ RefusedBefore(runs[r], next)
        BY <2>1, <3>1 DEF Tracks, InTurn, RefusedBefore
      <3>5. NextRefused(runs[r], next)
        BY <2>1, <3>1 DEF Tracks, NextRefused
      <3>. QED BY <2>1, <2>2, <3>2, <3>3, <3>4, <3>5 DEF Tracks
    <2>. QED BY <1>1, <2>1, <2>3 DEF StepsOK
  <1>. QED BY <1>3, <1>4

\* A poll of a run.
LEMMA PollKeepsSteps ==
    ASSUME ServerOK, StepsOK, NEW r \in DOMAIN runs, PollFlow(r)
    PROVE  StepsOK'
  <1>. DEFINE run == runs[r]
              flow == flows[r]
              n == flow.at + 1
  <1>1. /\ r \in DOMAIN Live /\ Live[r] = run /\ IsRun(run) /\ run.status = "pending"
        /\ r \in DOMAIN flows /\ flow \in FlowType /\ Tracks(run, flow)
    BY LiveRuns DEF PollFlow, ServerOK, RunsOK, FlowsOK, KindsOK, StepsOK
  <1>2. n \in Nat /\ Shown(run) = Taken(flow)
    BY <1>1 DEF FlowType, Tracks, AsTaken
  <1>3. \A q \in DOMAIN Live : q \in DOMAIN runs /\ Live[q] = runs[q]
    BY LiveRuns
  \* What is left to show is that the run polled shows what the platform has.
  <1>4. ASSUME NEW data, Sweep(Put(Live, r, data)),
               DOMAIN flows' = DOMAIN flows, \A q \in DOMAIN flows \ {r} : flows'[q] = flows[q],
               Tracks(data, flows'[r])
        PROVE  StepsOK'
    <2>1. /\ DOMAIN runs' = DOMAIN Live /\ runs'[r] = data
          /\ \A q \in DOMAIN Live \ {r} : runs'[q] = runs[q]
      BY <1>1, <1>3, <1>4 DEF Sweep, Put
    <2>. QED BY <1>3, <1>4, <2>1 DEF StepsOK
  <1>5. CASE Sweep(Live) /\ UNCHANGED flows
    BY <1>3, <1>5 DEF Sweep, StepsOK
  <1>6. ASSUME Sweep(Put(Live, r, Failed(run))), UNCHANGED flows PROVE StepsOK'
    <2>1. /\ Failed(run).status = "failed" /\ Failed(run).steps = run.steps
          /\ Failed(run).rejected = run.rejected
      BY <1>1 DEF Failed, IsRun, RunFields
    <2>2. Tracks(Failed(run), flow)
      BY <1>1, <1>2, <2>1, SameSteps
    <2>. QED BY <1>4, <1>6, <2>2
  <1>7. CASE flow.made /\ complete(r, run)
    <2>1. CASE /\ UNCHANGED flows
               /\ Sweep(Put(Live, r, [run EXCEPT !.status = "done", !.result = "completed"]))
      <3>. DEFINE data == [run EXCEPT !.status = "done", !.result = "completed"]
      <3>1. data.status = "done" /\ data.steps = run.steps /\ data.rejected = run.rejected
        BY <1>1 DEF IsRun, RunFields
      <3>2. flow.at = Len(flow.steps)
        BY <1>1, <1>7 DEF Tracks, Reached
      <3>3. Sweep(Put(Live, r, data))
        BY <2>1
      <3>. HIDE DEF data
      <3>4. Tracks(data, flow)
        BY <1>1, <1>2, <3>1, <3>2, SameSteps
      <3>. QED BY <1>4, <2>1, <3>3, <3>4
    <2>. QED BY <1>6, <1>7, <2>1 DEF complete
  <1>8. CASE Owes(r, n, "company") /\ driveStep(r, run, n)
    <2>1. /\ n <= Len(flow.steps) /\ flow.steps[n].party = "company" /\ flow.at \in Nat
          /\ flow.steps[n].field \in FieldKind
      <3>1. n \in 1 .. Len(flow.steps) /\ flow.steps[n].party = "company" /\ flow.at \in Nat
        BY <1>1, <1>2, <1>8 DEF Owes, Leaf, FlowType
      <3>2. flow.steps \in Seq([party : {"company", "customer"}, field : FieldKind])
        BY <1>1 DEF FlowType
      <3>3. ASSUME NEW S, NEW steps \in Seq(S), n \in 1 .. Len(steps) PROVE steps[n] \in S
        BY <3>3
      <3>4. flow.steps[n] \in [party : {"company", "customer"}, field : FieldKind]
        BY <3>1, <3>2, <3>3
      <3>. QED BY <3>1, <3>4
    <2>2. ASSUME Refused(r, run, n), UNCHANGED flows,
                 Sweep(Put(Live, r, [Step(run, n, FALSE) EXCEPT !.rejected = @ \cup {n}]))
          PROVE  StepsOK'
      <3>. DEFINE data == [Step(run, n, FALSE) EXCEPT !.rejected = @ \cup {n}]
      <3>1. /\ Alike(data, run, {"steps", "rejected"})
            /\ data.steps = Append(run.steps, [node |-> n, accepted |-> FALSE])
            /\ data.rejected = run.rejected \cup {n}
        BY <1>1, <1>2, EditRefused
      <3>2. Sweep(Put(Live, r, data))
        BY <2>2
      <3>. HIDE DEF data
      <3>3. data.status = run.status
        BY <3>1 DEF Alike, RunFields
      <3>4. Tracks(data, flow)
        BY <1>1, <2>2, <3>1, <3>3, Refuses DEF Refused, Field
      <3>. QED BY <1>4, <2>2, <3>2, <3>4
    \* The platform took the step.
    <2>3. ASSUME NEW made \in {FALSE, n = Leaf(r)},
                 flows' = [flows EXCEPT ![r].at = n, ![r].made = made]
          PROVE  LET next == flows'[r]
                 IN  /\ DOMAIN flows' = DOMAIN flows
                     /\ \A q \in DOMAIN flows \ {r} : flows'[q] = flows[q]
                     /\ next \in FlowType /\ next.steps = flow.steps /\ next.at = n
                     /\ next.made => n = Len(flow.steps)
      <3>1. made \in BOOLEAN /\ (made => n = Len(flow.steps))
        BY <2>3 DEF Leaf
      <3>. QED BY <1>1, <1>2, <2>3, <3>1, FlowFields
    \* ... but the run does not show it, for it failed or had no field to show.
    <2>4. ASSUME NEW made \in {FALSE, n = Leaf(r)},
                 flows' = [flows EXCEPT ![r].at = n, ![r].made = made],
                 NEW data, IsRun(data), data.steps = run.steps, data.rejected = run.rejected,
                 data.status = "failed" \/ (data.status = "pending" /\ flow.steps[n].field = "none")
          PROVE  Tracks(data, flows'[r])
      <3>. DEFINE next == flows'[r]
      <3>1. Tracks(data, flow)
        BY <1>1, <1>2, <2>4, SameSteps
      <3>2. /\ next \in FlowType /\ next.steps = flow.steps /\ next.at = n
            /\ next.made => n = Len(flow.steps)
        BY <2>3, <2>4
      <3>. HIDE DEF next
      <3>3. /\ Reached(next) /\ InTurn(data, next) /\ RefusedBefore(data, next)
            /\ NextRefused(data, next)
        BY <1>1, <2>1, <2>4, <3>1, <3>2, StepNotShown
      <3>4. Shown(data) = Taken(flow)
        BY <1>2, <2>4 DEF Shown, Accepted
      <3>5. Taken(next) = IF flow.steps[n].field # "none" THEN Taken(flow) \cup {n} ELSE Taken(flow)
        BY <1>1, <2>1, <3>2, OneFurther
      <3>6. n \notin Taken(flow) /\ \A m \in Taken(flow) : m < n
        BY <2>1 DEF Taken
      <3>7. AsTaken(data, next)
        <4>1. CASE flow.steps[n].field = "none"
          BY <3>4, <3>5, <4>1 DEF AsTaken
        <4>2. CASE flow.steps[n].field # "none"
          <5>1. /\ n \in Taken(next) /\ Shown(data) = Taken(next) \ {n}
                /\ \A m \in Shown(data) : m < n
            BY <3>4, <3>5, <3>6, <4>2
          <5>. QED BY <2>4, <4>2, <5>1 DEF AsTaken
        <4>. QED BY <4>1, <4>2
      <3>. QED BY <2>4, <3>3, <3>7 DEF Tracks, next
    <2>5. ASSUME ~ Refused(r, run, n),
                 flows' = [flows EXCEPT ![r].at = n, ![r].made = n = Leaf(r)],
                 Sweep(Put(Live, r, Filled(r, run, n)))
          PROVE  StepsOK'
      <3>. DEFINE made == n = Leaf(r)
                  next == flows'[r]
      <3>1. made \in {FALSE, n = Leaf(r)} /\ flows' = [flows EXCEPT ![r].at = n, ![r].made = made]
        BY <2>5
      <3>. HIDE DEF made
      <3>2. /\ DOMAIN flows' = DOMAIN flows /\ \A q \in DOMAIN flows \ {r} : flows'[q] = flows[q]
            /\ next \in FlowType /\ next.steps = flow.steps /\ next.at = n
            /\ next.made => n = Len(flow.steps)
        BY <2>3, <3>1
      <3>3. CASE flow.steps[n].field = "none"
        <4>1. Tracks(run, next)
          BY <1>1, <2>4, <3>1, <3>3
        <4>2. Sweep(Put(Live, r, run))
          BY <2>5, <3>3 DEF Filled, Field
        <4>. QED BY <1>4, <3>2, <4>1, <4>2
      <3>4. CASE flow.steps[n].field # "none"
        <4>. DEFINE data == Step(run, n, TRUE)
        <4>1. /\ Alike(data, run, {"steps"})
              /\ data.steps = Append(run.steps, [node |-> n, accepted |-> TRUE])
          BY <1>1, <1>2, EditSteps
        <4>2. data.status = run.status /\ data.rejected = run.rejected
          BY <4>1 DEF Alike, RunFields
        <4>3. Sweep(Put(Live, r, data))
          BY <2>5, <3>4 DEF Filled, Field
        <4>. HIDE DEF data, next
        <4>4. \/ flow.steps[n].field = "plain"
              \/ flow.steps[n].field = "email" /\ n \in run.rejected
          BY <2>1, <2>5, <3>4 DEF Refused, Field, FieldKind
        <4>5. Tracks(data, next)
          BY <1>1, <1>2, <2>1, <3>2, <4>1, <4>2, <4>4, Accepts
        <4>. QED BY <1>4, <3>2, <4>3, <4>5 DEF next
      <3>. QED BY <3>3, <3>4
    <2>6. ASSUME NEW made \in {FALSE, n = Leaf(r)},
                 flows' = [flows EXCEPT ![r].at = n, ![r].made = made],
                 Sweep(Put(Live, r, Failed(run)))
          PROVE  StepsOK'
      <3>. DEFINE data == Failed(run)
      <3>1. data.status = "failed" /\ data.steps = run.steps /\ data.rejected = run.rejected
            /\ IsRun(data)
        BY <1>1, EditOutcome DEF Failed, IsRun, RunFields, Statuses
      <3>2. Sweep(Put(Live, r, data))
        BY <2>6
      <3>. HIDE DEF data
      <3>3. Tracks(data, flows'[r])
        BY <2>4, <2>6, <3>1
      <3>4. DOMAIN flows' = DOMAIN flows /\ \A q \in DOMAIN flows \ {r} : flows'[q] = flows[q]
        BY <2>3, <2>6
      <3>. QED BY <1>4, <3>2, <3>3, <3>4
    <2>. QED BY <1>6, <1>8, <2>2, <2>5, <2>6 DEF driveStep
  <1>9. CASE ~ flow.made /\ ~ Owes(r, n, "company")
    BY <1>1, <1>5, <1>6, <1>9 DEF PollFlow, complete, driveStep
  <1>. QED BY <1>1, <1>7, <1>8, <1>9 DEF PollFlow

\* A new run shows nothing of a flow that has just begun.
LEMMA StartKeepsSteps ==
    ASSUME ServerOK, StepsOK, StartFlow
    PROVE  StepsOK'
  <1>1. PICK steps \in Flows :
          flows' = Put(flows, started + 1, [steps |-> steps, at |-> 0, made |-> FALSE])
    BY DEF StartFlow
  <1>. DEFINE run == Run(FlowScenario, "pending")
              flow == [steps |-> steps, at |-> 0, made |-> FALSE]
  <1>2. runs' = Put(Live, started + 1, run)
    BY DEF StartFlow, NewRun, Sweep
  <1>3. run.steps = <<>> /\ run.rejected = {} /\ run.status = "pending"
    BY DEF Run
  <1>4. flow.at = 0 /\ flow.made = FALSE /\ Len(flow.steps) \in Nat
    BY FlowsAssumption
  <1>5. flows' = Put(flows, started + 1, flow)
    BY <1>1
  <1>. HIDE DEF run, flow
  <1>6. Accepted(run) = {} /\ Shown(run) = {} /\ Taken(flow) = {} /\ \A n : Of(run, n) = {}
        /\ DOMAIN run.steps = {}
    BY <1>3, <1>4 DEF Accepted, Shown, Taken, Of
  <1>7. Tracks(run, flow)
    BY <1>3, <1>4, <1>6 DEF Tracks, Reached, AsTaken, InTurn, RefusedBefore, NextRefused
  <1>8. /\ runs'[started + 1] = run
        /\ \A r \in DOMAIN runs' \ {started + 1} : r \in DOMAIN runs /\ runs'[r] = runs[r]
    BY <1>2, LiveRuns DEF Put
  <1>9. /\ flows'[started + 1] = flow
        /\ \A r \in DOMAIN flows' \ {started + 1} : r \in DOMAIN flows /\ flows'[r] = flows[r]
    BY <1>5 DEF Put
  <1>. QED BY <1>7, <1>8, <1>9 DEF StepsOK

LEMMA StepsInductive == ServerOK /\ StepsOK /\ [Next]_vars => StepsOK'
  <1>. SUFFICES ASSUME ServerOK, StepsOK, [Next]_vars PROVE StepsOK'
    OBVIOUS
  <1>1. CASE UNCHANGED vars
    BY <1>1 DEF vars, fileVars, StepsOK
  <1>2. CASE PlatformStep
    <2>1. CASE \E r \in DOMAIN flows : CustomerAnswers(r) \/ Generated(r)
      BY <2>1, PlatformKeepsSteps
    <2>2. CASE NoFlow
      BY <1>2, <2>2, PlatformKeeps DEF NoFlow, StepsOK
    <2>. QED BY <1>2, <2>1, <2>2 DEF PlatformStep
  <1>3. CASE SetupStep
    <2>1. UNCHANGED flows
      BY <1>3, SetupKeeps
    <2>2. DOMAIN runs' \subseteq DOMAIN runs /\ \A r \in DOMAIN runs' : runs'[r] = runs[r]
      BY <1>3, SetupEffect DEF ServerOK, RunsStay
    <2>. QED BY <2>1, <2>2 DEF StepsOK
  <1>4. CASE /\ \/ \E s \in Identity \cap used : StartIdentity(s)
                \/ \E r \in DOMAIN runs : BeginPoll(r) \/ Callback(r) \/ Handles(r)
             /\ NoFlow /\ NoData
    <2>1. RunEffect(Identity)
      BY <1>4, IdentityEffect DEF ServerOK, BusyOK, KindsOK
    <2>. QED BY <1>4, <2>1, Families, OthersKeepSteps DEF NoFlow
  <1>5. CASE /\ (FlowScenario \in used /\ StartFlow) \/ (\E r \in DOMAIN runs : PollFlow(r))
             /\ NoIdentity /\ NoData
    BY <1>5, StartKeepsSteps, PollKeepsSteps
  <1>6. CASE /\ \/ "companydata:read" \in used /\ StartRead
                \/ "companydata:changes" \in used /\ StartChanges
                \/ Webhooks \in used /\ StartWebhook
                \/ Documents \in used /\ (StartDocuments \/ Cleanup)
                \/ \E d \in deliveries : Webhook(d)
                \/ \E r \in DOMAIN runs : PollWebhook(r)
             /\ NoIdentity /\ NoFlow
    <2>1. RunEffect(Data)
      BY <1>6, DataEffect DEF ServerOK
    <2>. QED BY <1>6, <2>1, Families, OthersKeepSteps DEF NoFlow
  <1>. QED BY <1>1, <1>2, <1>3, <1>4, <1>5, <1>6 DEF Next, FamilyStep

\* A flow run shows the steps with fields that the platform took of the company, in order,
\* each email refused exactly once before and nothing else ever; a run that failed may be
\* one behind, and a value out of bounds never gets there (driveStep).
THEOREM StepsAreShown == Spec => []StepsAsSubmitted
  <1>1. Init => StepsOK
    <2>1. Init => DOMAIN runs = {}
      BY DEF Init, InitFiles
    <2>. QED BY <2>1 DEF StepsOK
  <1>2. ServerOK /\ StepsOK => StepsAsSubmitted
    <2>. SUFFICES ASSUME ServerOK, StepsOK, NEW r \in DOMAIN runs \cap DOMAIN flows
                  PROVE  LET steps == runs[r].steps
                             accepted == {i \in DOMAIN steps : steps[i].accepted}
                             shown == {steps[i].node : i \in accepted}
                             taken == {n \in 1 .. flows[r].at :
                                         Owes(r, n, "company") /\ Field(r, n) # "none"}
                         IN  /\ \/ shown = taken
                                \/ /\ runs[r].status = "failed"
                                   /\ \E last \in taken : /\ shown = taken \ {last}
                                                          /\ \A n \in shown : n < last
                             /\ \A i, j \in accepted : i < j => steps[i].node < steps[j].node
                             /\ \A j \in accepted :
                                  LET refused == {k \in 1 .. j - 1 : steps[k].node = steps[j].node}
                                  IN  \/ Field(r, steps[j].node) = "plain" /\ refused = {}
                                      \/ /\ Field(r, steps[j].node) = "email"
                                         /\ \E i \in refused : refused = {i}
                             /\ runs[r].status = "done" => flows[r].at = Leaf(r)
      BY DEF StepsAsSubmitted
    <2>1. Tracks(runs[r], flows[r])
      BY DEF StepsOK
    <2>2. {n \in 1 .. flows[r].at : Owes(r, n, "company") /\ Field(r, n) # "none"}
            = Taken(flows[r])
      BY DEF Owes, Leaf, Field, Taken
    <2>3. \A j \in Accepted(runs[r]) :
            AsFilled(Field(r, runs[r].steps[j].node), Before(runs[r], j))
      BY <2>1 DEF Tracks, RefusedBefore, Field
    <2>4. \A i, j \in Accepted(runs[r]) : i < j => runs[r].steps[i].node < runs[r].steps[j].node
      BY <2>1 DEF Tracks, InTurn
    <2>5. AsTaken(runs[r], flows[r]) /\ (runs[r].status = "done" => flows[r].at = Leaf(r))
      BY <2>1 DEF Tracks, Leaf
    <2>. QED BY <2>2, <2>3, <2>4, <2>5 DEF AsTaken, Accepted, Shown, Before, AsFilled
  <1>. QED BY <1>1, <1>2, StepsInductive, ServerInvariant, PTL DEF Spec
====
