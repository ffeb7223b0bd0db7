-------------------------------- MODULE Demo --------------------------------
(***************************************************************************)
(* The example server with its three families of scenarios on one set of   *)
(* files, visitors that use some of them, and a platform that goes on      *)
(* without it.                                                             *)
(***************************************************************************)
EXTENDS IdentityDemo, FlowDemo, DataDemo

\* No scenario is of two families.
ASSUME FamiliesAssumption == Identity \cap (Data \cup {FlowScenario}) = {}

vars == <<used, fileVars, busy, counters, identityVars, flows, dataVars>>

\* Types, and what holds the files together: runs are of scenarios that visitors use, and
\* the request that waits for the platform is about a run that exists and a scenario that
\* is still configured, whatever is cleared, swept or restarted.
TypeOK ==
    /\ DOMAIN config \subseteq Scenarios
    /\ DOMAIN runs \subseteq 1 .. MaxRuns /\ aged \subseteq DOMAIN runs
    /\ \A r \in DOMAIN runs : /\ runs[r].scenario \in used
                              /\ runs[r].status \in {"pending", "done", "failed"}
    /\ busy # <<>> => /\ busy[1].run \in DOMAIN runs
                      /\ runs[busy[1].run].scenario \in DOMAIN config
    /\ faults \in 0 .. MaxFaults

Init == InitFiles /\ InitIdentity /\ InitFlows /\ InitData

NoIdentity == UNCHANGED identityVars
NoFlow == UNCHANGED flows
NoData == UNCHANGED dataVars

\* The actions of the platform and of people on their phones.
PlatformStep ==
    \/ /\ \E r \in DOMAIN grant : PersonAnswers(r) \/ Expire(r)
       /\ NoFlow /\ NoData
    \/ /\ \E r \in DOMAIN flows : CustomerAnswers(r) \/ Generated(r)
       /\ NoIdentity /\ NoData
    \/ /\ (\E e \in Event : Publish(e)) \/ (\E d \in documents : Changes(d))
       /\ NoIdentity /\ NoFlow

\* Clearing a scenario is its family's.
Clear(s) ==
    /\ ClearScenario(s, s \in Data, s = Webhooks)
    /\ IF s = Documents THEN ForgetsDocuments ELSE UNCHANGED unrecorded
    /\ UNCHANGED <<feed, deliveries, documents>> /\ NoIdentity /\ NoFlow

SetupStep ==
    \/ \E s \in used : Save(s) /\ NoIdentity /\ NoFlow /\ NoData
    \/ \E s \in used : Clear(s)
    \/ /\ ClearAll \/ Restart
       /\ ForgetsDocuments
       /\ UNCHANGED <<feed, deliveries, documents>> /\ NoIdentity /\ NoFlow
    \/ (OtherRequest \/ \E r \in DOMAIN runs : Age(r)) /\ NoIdentity /\ NoFlow /\ NoData

FamilyStep ==
    \/ /\ \/ \E s \in Identity \cap used : StartIdentity(s)
          \/ \E r \in DOMAIN runs : BeginPoll(r) \/ Callback(r) \/ Handles(r)
       /\ NoFlow /\ NoData
    \/ /\ (FlowScenario \in used /\ StartFlow) \/ (\E r \in DOMAIN runs : PollFlow(r))
       /\ NoIdentity /\ NoData
    \/ /\ \/ "companydata:read" \in used /\ StartRead
          \/ "companydata:changes" \in used /\ StartChanges
          \/ Webhooks \in used /\ StartWebhook
          \/ Documents \in used /\ (StartDocuments \/ Cleanup)
          \/ \E d \in deliveries : Webhook(d)
          \/ \E r \in DOMAIN runs : PollWebhook(r)
       /\ NoIdentity /\ NoFlow

Next == PlatformStep \/ SetupStep \/ FamilyStep

\* A handler goes on, a page polls its run until it is not found, and what was asked of a
\* person expires.
Handling(r) == Handles(r) /\ NoFlow /\ NoData
Polling(r) ==
    /\ BeginPoll(r) \/ (r \in aged /\ OtherRequest /\ NoIdentity)
    /\ NoFlow /\ NoData
Expiring(r) == Expire(r) /\ NoFlow /\ NoData

Spec ==
    /\ Init /\ [][Next]_vars
    /\ \A r \in 1 .. MaxRuns :
         WF_vars(Handling(r)) /\ SF_vars(Polling(r)) /\ WF_vars(Expiring(r))

-----------------------------------------------------------------------------
(* Properties.                                                              *)

\* Clearing one scenario takes no key file from another that was saved with the same key,
\* in whichever field: every client can be built from its config.
ConfigsKeepTheirKeys == \A s \in DOMAIN config : KeysOf(config[s]) \subseteq keys

\* Deliveries go to a run of theirs that still exists: the route is superseded, expires and
\* is cleared together with its run.
RouteIsLive ==
    route # <<>> => /\ route[1].runId \in DOMAIN runs
                    /\ runs[route[1].runId].webhook = route[1].webhookId

\* "The old run stops receiving": once superseded, a webhook run shows no new event, be it of
\* a delivery or of a poll of its own page.
SupersededStandsStill ==
    [][\A r \in DOMAIN runs \cap DOMAIN runs' :
         /\ runs[r].scenario = Webhooks
         /\ route # <<>> => route[1].runId # r
         => runs'[r].events = runs[r].events]_vars

\* A run that is done tells what the person answered, or that nobody did in time: a
\* challenge is gone only once its time is over, or when its outcome was lost on its way.
\* And what the platform handed out once is not read and dropped: as long as it was not
\* lost, the run that read it has an outcome.
Reports(result, g, missed) ==
    \/ result = g.answer /\ g.answer # ""
    \/ result = "expired" /\ g.answer = "" /\ g.over
    \/ result = "gone" /\ (g.over \/ missed)
ReportedAsAnswered ==
    \A r \in DOMAIN runs \cap DOMAIN grant :
        /\ runs[r].status = "done" => Reports(runs[r].result, grant[r], r \in lost)
        /\ grant[r].given /\ r \notin lost /\ Idle => runs[r].status # "pending"

\* A page that polls sees its run end, whatever is lost on the way, while the run exists:
\* no poll holds the mutex for ever, and an answer that nobody read expires.
RunsSettle ==
    \A r \in 1 .. MaxRuns :
        (r \in DOMAIN runs /\ runs[r].wait \in Polled) ~>
            (r \notin DOMAIN runs \/ runs[r].status # "pending")

\* The steps a flow run shows as accepted are those with a field that the platform took of
\* the company, in order, each email refused exactly once before and nothing else ever; a
\* run that failed may be one behind.  A value that no bound allows never gets there.
StepsAsSubmitted ==
    \A r \in DOMAIN runs \cap DOMAIN flows :
        LET steps == runs[r].steps
            accepted == {i \in DOMAIN steps : steps[i].accepted}
            shown == {steps[i].node : i \in accepted}
            taken == {n \in 1 .. flows[r].at : Owes(r, n, "company") /\ Field(r, n) # "none"}
        IN  /\ \/ shown = taken
               \/ /\ runs[r].status = "failed"
                  /\ \E last \in taken : /\ shown = taken \ {last}
                                         /\ \A n \in shown : n < last
            /\ \A i, j \in accepted : i < j => steps[i].node < steps[j].node
            /\ \A j \in accepted :
                 LET refused == {k \in 1 .. j - 1 : steps[k].node = steps[j].node}
                 IN  \/ Field(r, steps[j].node) = "plain" /\ refused = {}
                     \/ Field(r, steps[j].node) = "email" /\ \E i \in refused : refused = {i}
            /\ runs[r].status = "done" => flows[r].at = Leaf(r)

\* A document the scenario created can be cleaned up later, whatever was saved, started or
\* failed since: it is in the record of its service as long as it lives, unless the answer
\* of its creation was lost, or the record cleared.
CreatedIsRecorded ==
    \A d \in documents :
        d.state \in {"live", "signed"} /\ Id(d) \notin unrecorded =>
            HasConfig(Documents) /\ Id(d) \in config[Documents].created
=============================================================================
