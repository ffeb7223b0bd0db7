------------------------------ MODULE DataDemo ------------------------------
(***************************************************************************)
(* The company-data scenarios (companydata.go): what people share is read  *)
(* at once; changes come through the pump; the webhook scenario collects   *)
(* deliveries and, at each poll, what is on the feed; documents are        *)
(* created, recorded and cleaned up.                                       *)
(***************************************************************************)
EXTENDS Runtime, FiniteSetsExt

CONSTANTS
    Event,         \* the changes of one service
    Broken,        \* those that do not decrypt
    MaxDocs        \* bound: documents created

VARIABLES
    feed,          \* platform: the events on the feed
    deliveries,    \* platform: the webhook deliveries still to be answered with 200
    documents,     \* platform: the documents of the example
    unrecorded     \* history: documents whose creation nobody heard of or recorded any more

dataVars == <<feed, deliveries, documents, unrecorded>>

Data == {s \in Scenarios : s \in {"companydata:read", "companydata:changes",
                                  "companydata:webhook", "companydata:documents"}}
Webhooks == "companydata:webhook"
Documents == "companydata:documents"

InitData == feed = {} /\ deliveries = {} /\ documents = {} /\ unrecorded = {}

Kept == UNCHANGED <<used, keys, busy, saves>>

\* An event goes on the feed, and to the webhook that some config names (of no interest to
\* visitors of other scenarios).
Publish(e) ==
    /\ used \cap Data # {}
    /\ e \notin feed \cup cache \cup UNION {{ev.event : ev \in ToSet(runs[r].events)} :
                                                r \in DOMAIN runs}
    /\ ~ \E d \in deliveries : d.event = e
    /\ feed' = feed \cup {e}
    /\ deliveries' = deliveries \cup {[webhook |-> c.webhook, event |-> e] :
           c \in {config[s] : s \in {x \in DOMAIN config : config[x].webhook # ""}}}
    /\ UNCHANGED <<used, fileVars, busy, counters, documents, unrecorded>>

-----------------------------------------------------------------------------
(* One call, one outcome.                                                   *)

Ended(s, ok, result, events) ==
    NewRun([Run(s, IF ok THEN "done" ELSE "failed") EXCEPT !.result = result, !.events = events])

Entries(source, es) ==
    [i \in 1 .. Cardinality(es) |-> [source |-> source, event |-> SetToSeq(es)[i]]]

\* dataRun of the read and definitions scenarios.
StartRead ==
    /\ Idle /\ HasConfig("companydata:read")
    /\ \/ Ended("companydata:read", TRUE, "read", <<>>) /\ UNCHANGED faults
       \/ Ended("companydata:read", FALSE, "error", <<>>) /\ Fault
    /\ Kept /\ UNCHANGED <<config, cache, dataVars>>

\* doChanges: ProcessChanges buffers all of the feed and delivers it; an event that does not
\* decrypt is left with the dead letters.  An error ends the run, whatever was delivered.
StartChanges ==
    /\ Idle /\ HasConfig("companydata:changes")
    /\ \/ LET all == feed \cup cache IN
          /\ Ended("companydata:changes", TRUE, "drained", Entries("feed", all \ Broken))
          /\ feed' = {} /\ cache' = all \cap Broken /\ UNCHANGED faults
       \/ \E fetched \in SUBSET feed :
            \E acked \in SUBSET ((fetched \cup cache) \ Broken) :
              /\ Ended("companydata:changes", FALSE, "error", <<>>)
              /\ feed' = feed \ fetched
              /\ cache' = (fetched \cup cache) \ acked
              /\ Fault
    /\ Kept /\ UNCHANGED <<config, deliveries, documents, unrecorded>>

-----------------------------------------------------------------------------
(* The webhook scenario.                                                    *)

\* The new run takes the deliveries over from an earlier one.
StartWebhook ==
    /\ Idle /\ HasConfig(Webhooks) /\ config[Webhooks].webhook # ""
    /\ started < MaxRuns /\ started' = started + 1
    /\ runs' = Put(Live, started + 1,
                   [Run(Webhooks, "pending") EXCEPT !.webhook = config[Webhooks].webhook])
    /\ aged' = {}
    /\ route' = <<[webhookId |-> config[Webhooks].webhook, runId |-> started + 1]>>
    /\ Kept /\ UNCHANGED <<config, cache, faults, dataVars>>

Shows(r, source, e) ==
    Put(Live, r, [Live[r] EXCEPT !.events = Append(@, [source |-> source, event |-> e])])

\* POST /webhook: a delivery for no run, or an old one, is answered and dropped; one that is
\* not signed with the secret saved by now is refused; one that cannot be read is noted.
\* The platform sends a delivery again unless it is answered with 200.
Webhook(d) ==
    LET to == reconcileRoute(Live)
        answered == deliveries' = deliveries \ {d} /\ UNCHANGED faults
    IN  /\ Idle /\ d \in deliveries
        /\ \/ /\ to = <<>> \/ (to # <<>> /\ to[1].webhookId # d.webhook)
              /\ Sweep(Live) /\ answered
           \/ /\ to # <<>> /\ to[1].webhookId = d.webhook
              /\ \/ /\ config[Webhooks].webhook # d.webhook
                    /\ Sweep(Live) /\ UNCHANGED <<deliveries, faults>>
                 \/ /\ config[Webhooks].webhook = d.webhook
                    /\ \/ /\ Sweep(Shows(to[1].runId, "webhook", d.event))
                          /\ (answered \/ (Fault /\ UNCHANGED deliveries))
                       \/ Fault /\ Sweep(Live) /\ UNCHANGED deliveries
        /\ Kept /\ UNCHANGED <<config, cache, started, feed, documents, unrecorded>>

\* Mutant of Pulls: every run of the scenario asks for what is on the feed.
AnyRunPulls(r) == TRUE

\* Only the run that deliveries go to does.
Pulls(r) == reconcileRoute(Live) # <<>> /\ route[1].runId = r

\* webhookFeedFallback: one DrainBatch per poll.  One event that does not decrypt fails the
\* whole batch, and an error is not shown.
PollWebhook(r) ==
    /\ Idle /\ r \in DOMAIN Live /\ Live[r].scenario = Webhooks
    /\ Pulls(r)
    /\ LET new == feed \ {ev.event : ev \in {x \in ToSet(Live[r].events) : x.source = "feed"}}
           shown == IF feed \cap Broken # {} THEN <<>> ELSE Entries("feed", new)
       IN  \/ /\ feed' = {}
              /\ Sweep(Put(Live, r, [Live[r] EXCEPT !.events = @ \o shown]))
              /\ UNCHANGED faults
           \/ /\ Fault
              /\ feed' \in {feed, {}}
              /\ Sweep(Live)
    /\ Kept /\ UNCHANGED <<config, cache, started, deliveries, documents, unrecorded>>

-----------------------------------------------------------------------------
(* The documents scenario.                                                  *)

\* A document of the service that created it; recorded means: by the scenario's sidecar.
Id(d) == [id |-> d.id, client |-> d.client]
Records(recorded) == config' = [config EXCEPT ![Documents].created = recorded]

\* doDocuments: the selected documents one after another, each recorded as it is created, up
\* to the first error.  One that targets a person needs a share code.
StartDocuments ==
    /\ Idle /\ HasConfig(Documents) /\ config[Documents].types # <<>>
    /\ LET c == config[Documents]
           types == c.types
           n0 == Cardinality({d.id : d \in documents})
           new(n) == {[id |-> n0 + i, client |-> c.client, state |-> "live"] : i \in 1 .. n}
           possible == Cardinality({i \in DOMAIN types :
                           c.share \/ \A j \in 1 .. i : types[j] # "person"})
           Creates(n, heard) ==
             /\ n0 + n <= MaxDocs
             /\ documents' = documents \cup new(n)
             /\ Records(c.created \cup {Id(d) : d \in new(heard)})
             /\ unrecorded' = unrecorded \cup {Id(d) : d \in new(n) \ new(heard)}
       IN  \/ /\ Creates(possible, possible) /\ UNCHANGED faults
              /\ Ended(Documents, possible = Len(types), "created", <<>>)
           \/ \E n \in 0 .. possible - 1 :
                /\ Fault
                /\ Creates(n, n) \/ Creates(n + 1, n)
                /\ Ended(Documents, FALSE, "error", <<>>)
    /\ Kept /\ UNCHANGED <<cache, feed, deliveries>>

\* A contract is signed, or a document goes elsewhere.
Changes(d) ==
    /\ d \in documents /\ d.state = "live"
    /\ \E state \in {"signed", "gone"} :
         documents' = (documents \ {d}) \cup {[d EXCEPT !.state = state]}
    /\ UNCHANGED <<used, fileVars, busy, counters, feed, deliveries, unrecorded>>

\* What a clean-up makes of a document: a signed one is only ended.
Cleaned(d) ==
    [d EXCEPT !.state = CASE d.state = "signed" -> "ended"
                          [] d.state = "live" -> "gone"
                          [] OTHER -> d.state]

\* The documents dealt with leave the record; the one an error stopped at may be dealt with
\* and stays.
Cleans(chosen, reached) ==
    /\ documents' = {IF d \in chosen THEN Cleaned(d) ELSE d : d \in documents}
    /\ Records(config[Documents].created \ {Id(d) : d \in chosen \ reached})

\* POST /cleanup: what is recorded for the service that is saved now.
Cleanup ==
    /\ Idle /\ HasConfig(Documents)
    /\ LET mine == {d \in documents : /\ Id(d) \in config[Documents].created
                                      /\ d.client = config[Documents].client}
       IN  \/ /\ Cleans(mine, {}) /\ UNCHANGED faults
              /\ Ended(Documents, TRUE, "cleaned", <<>>)
           \/ \E last \in mine :
                /\ Fault
                /\ \E dealt \in {{}, {last}} :
                     Cleans({d \in mine : d.id < last.id} \cup dealt, {last})
                /\ Ended(Documents, FALSE, "error", <<>>)
    /\ Kept /\ UNCHANGED <<cache, feed, deliveries, unrecorded>>

\* The record goes with the config.
ForgetsDocuments ==
    unrecorded' = unrecorded \cup (IF HasConfig(Documents) THEN config[Documents].created ELSE {})
=============================================================================
