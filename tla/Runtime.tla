------------------------------ MODULE Runtime ------------------------------
(***************************************************************************)
(* The server of the example programs (server.go) and the files it keeps   *)
(* (runtime.go): the configs of the scenarios with the key files they      *)
(* name, the runs, the route of webhook deliveries and the pump's cache.   *)
(*                                                                         *)
(* One mutex serves one request at a time; every request first sweeps the  *)
(* runs whose time is over.  A start wipes everything.                     *)
(***************************************************************************)
EXTENDS Naturals, Sequences, FiniteSets, SequencesExt, Functions

CONSTANTS
    Setup,         \* what may be saved for each scenario
    Visits,        \* the sets of scenarios that visitors may use together
    MaxRuns,       \* bound: runs started
    MaxSaves,      \* bound: setups saved
    MaxFaults      \* bound: restarts, requests that fail, answers that are lost

ASSUME BoundsAssumption == MaxRuns \in Nat /\ MaxSaves \in Nat /\ MaxFaults \in Nat

\* A config with its sidecar: the key files it names, the client and webhook it is about,
\* the documents to create, and those created.
ConfigType ==
    [oauth_private_key : STRING, service_private_key : STRING, client : STRING,
     webhook : STRING, types : Seq(STRING), share : BOOLEAN,
     created : SUBSET [id : Nat, client : STRING]]

\* What is saved through the form has every field of a config; visitors use scenarios
\* there are.
ASSUME SetupAssumption ==
    /\ \A s \in DOMAIN Setup : Setup[s] \subseteq ConfigType
    /\ Visits \subseteq SUBSET DOMAIN Setup

VARIABLES
    used,     \* the scenarios the visitors use
    config,   \* the saved configs, each with its sidecar
    keys,     \* the key files
    runs,     \* the run files
    aged,     \* the runs whose 30 minutes are over
    route,    \* where webhook deliveries go: empty, or one webhook and run
    cache,    \* the events in the pump's directory
    busy,     \* the request that holds the mutex while it waits for the platform
    started,  \* runs so far
    saves,    \* setups saved so far
    faults    \* faults so far

fileVars == <<config, keys, runs, aged, route, cache>>
counters == <<started, saves, faults>>

Scenarios == DOMAIN Setup
HasConfig(s) == s \in DOMAIN config
Idle == busy = <<>>

\* A file is written, over one of its name if there is one.
Put(files, name, content) ==
    [n \in DOMAIN files \cup {name} |-> IF n = name THEN content ELSE files[n]]

Fault == faults < MaxFaults /\ faults' = faults + 1

\* A run of each family; a family writes the fields it has a use for.
Run(s, status) ==
    [scenario |-> s, status |-> status, wait |-> "", result |-> "", webhook |-> "",
     events |-> <<>>, steps |-> <<>>, rejected |-> {}]

InitFiles ==
    /\ used \in Visits
    /\ config = <<>> /\ keys = {} /\ runs = <<>> /\ aged = {} /\ route = <<>> /\ cache = {}
    /\ busy = <<>> /\ started = 0 /\ saves = 0 /\ faults = 0

-----------------------------------------------------------------------------
(* Sweeping.                                                                *)

Live == Restrict(runs, DOMAIN runs \ aged)

\* The route goes with its run.
reconcileRoute(kept) ==
    IF route # <<>> /\ route[1].runId \in DOMAIN kept THEN route ELSE <<>>

\* Mutant of Sweep: the route stays.
SweepsRunsOnly(kept) == runs' = kept /\ aged' = {} /\ route' = route

\* What a request leaves of the runs: those that are kept, and the ones it writes.
Sweep(kept) == runs' = kept /\ aged' = {} /\ route' = reconcileRoute(kept)

\* A request that does nothing else: a poll of a run with an outcome, a page, /api/meta.
OtherRequest ==
    /\ Idle /\ aged # {}
    /\ Sweep(Live)
    /\ UNCHANGED <<used, config, keys, cache, busy, counters>>

Age(r) ==
    /\ r \in DOMAIN runs \ aged
    /\ aged' = aged \cup {r}
    /\ UNCHANGED <<used, config, keys, runs, route, cache, busy, counters>>

NewRun(data) ==
    /\ started < MaxRuns /\ started' = started + 1
    /\ Sweep(Put(Live, started + 1, data))

\* A request that has swept already writes its run.
WriteRun(r, data) ==
    /\ runs' = Put(runs, r, data)
    /\ aged' = aged \ {r}
    /\ UNCHANGED route

-----------------------------------------------------------------------------
(* Setups.                                                                  *)

\* The config fields that name a key file.
keyFields == {"oauth_private_key", "service_private_key"}
KeysOf(c) == {c[field] : field \in keyFields} \ {""}

\* Mutant of gcConfigKeys: only the first key field is looked at.
KeepsAppKeys(configs) == keys \cap {configs[s].oauth_private_key : s \in DOMAIN configs}

\* The key files that a config still names.
gcConfigKeys(configs) == keys \cap UNION {KeysOf(configs[s]) : s \in DOMAIN configs}

\* Mutant of Saved: the sidecar is written anew.
SavedAnew(s, c) == c

\* The documents created are recorded across saves.
Saved(s, c) == IF HasConfig(s) THEN [c EXCEPT !.created = config[s].created] ELSE c

\* POST /config: the key files, the config and its sidecar.
Save(s) ==
    /\ Idle /\ saves < MaxSaves /\ saves' = saves + 1
    /\ \E c \in Setup[s] :
         /\ keys' = keys \cup KeysOf(c)
         /\ config' = Put(config, s, Saved(s, c))
    /\ Sweep(Live)
    /\ UNCHANGED <<used, cache, busy, started, faults>>

\* POST /clear of a scenario; the company-data family's wipes the pump's cache too, and the
\* webhook scenario's the route.
ClearScenario(s, wipesCache, clearsRoute) ==
    LET kept == Restrict(Live, {r \in DOMAIN Live : Live[r].scenario # s})
        left == Restrict(config, DOMAIN config \ {s})
    IN  /\ Idle
        /\ runs' = kept /\ aged' = {}
        /\ route' = IF clearsRoute THEN <<>> ELSE reconcileRoute(kept)
        /\ config' = left
        /\ keys' = gcConfigKeys(left)
        /\ cache' = IF wipesCache THEN {} ELSE cache
        /\ UNCHANGED <<used, busy, counters>>

\* Mutant of Wiped: the runs stay.
WipesConfigs ==
    /\ UNCHANGED <<runs, aged>> /\ route' = <<>> /\ config' = <<>> /\ keys' = {}
    /\ cache' = {}

\* Everything is gone: POST /api/clear, and WipeAll of a start.
Wiped ==
    /\ runs' = <<>> /\ aged' = {} /\ route' = <<>> /\ config' = <<>> /\ keys' = {}
    /\ cache' = {}

ClearAll == Idle /\ Wiped /\ UNCHANGED <<used, busy, counters>>

Restart ==
    /\ Fault
    /\ Wiped
    /\ busy' = <<>>
    /\ UNCHANGED <<used, started, saves>>
=============================================================================
