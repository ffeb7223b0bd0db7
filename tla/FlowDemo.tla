------------------------------ MODULE FlowDemo ------------------------------
(***************************************************************************)
(* The flow scenario (flow.go): a run of the example drives one run of a   *)
(* published flow, a step of the company's per poll.  An email is first    *)
(* filled in wrongly, once per step, to show how it is refused; a field    *)
(* whose bounds the canned value breaks is refused at every poll.          *)
(***************************************************************************)
EXTENDS Runtime

CONSTANTS
    Flows,       \* the published flows, sequences of steps: whose each is, and its field
    MaxShown     \* bound: entries a run shows when a field is refused again

\* A step without fields, one whose canned value fits, an email, a value out of bounds.
FieldKind == {"none", "plain", "email", "unfit"}
ASSUME FlowsAssumption ==
    Flows \subseteq Seq([party : {"company", "customer"}, field : FieldKind])

VARIABLE flows        \* platform: the steps of each run, how many are answered, its documents

FlowScenario == "flow:run"
Leaf(r) == Len(flows[r].steps)
Owes(r, n, party) == n <= Leaf(r) /\ flows[r].steps[n].party = party
Field(r, n) == flows[r].steps[n].field

InitFlows == flows = <<>>

\* /start: the ids are looked up and the run is triggered; nothing is written if that fails.
StartFlow ==
    /\ Idle /\ HasConfig(FlowScenario)
    /\ NewRun(Run(FlowScenario, "pending"))
    /\ \E steps \in Flows :
         flows' = Put(flows, started + 1, [steps |-> steps, at |-> 0, made |-> FALSE])
    /\ UNCHANGED <<used, config, keys, cache, busy, saves, faults>>

\* The customer answers a step on the phone; a flow that ends there generates by itself.
CustomerAnswers(r) ==
    /\ r \in DOMAIN flows /\ Owes(r, flows[r].at + 1, "customer")
    /\ flows' = [flows EXCEPT ![r].at = @ + 1]
    /\ UNCHANGED <<used, fileVars, busy, counters>>

Generated(r) ==
    /\ r \in DOMAIN flows /\ flows[r].at = Leaf(r) /\ ~ flows[r].made
    /\ Owes(r, Leaf(r), "customer")
    /\ flows' = [flows EXCEPT ![r].made = TRUE]
    /\ UNCHANGED <<used, fileVars, busy, counters>>

Failed(run) == [run EXCEPT !.status = "failed", !.result = "error"]
Step(run, n, accepted) ==
    [run EXCEPT !.steps = Append(@, [node |-> n, accepted |-> accepted])]

\* What the SDK refuses before it sends anything.
Refused(r, run, n) ==
    Field(r, n) = "unfit" \/ (Field(r, n) = "email" /\ n \notin run.rejected)
HasRoom(run) == Len(run.steps) < MaxShown

\* Each field that was filled in is recorded.
Filled(r, run, n) == IF Field(r, n) = "none" THEN run ELSE Step(run, n, TRUE)

\* Mutant of driveStep: a step counts as accepted however ProcessFlowRun ends.
RecordsFirst(r, run, n) ==
    \/ /\ Refused(r, run, n) /\ HasRoom(run)
       /\ Sweep(Put(Live, r, [Step(run, n, FALSE) EXCEPT !.rejected = @ \cup {n}]))
       /\ UNCHANGED <<flows, faults>>
    \/ /\ ~ Refused(r, run, n)
       /\ flows' = [flows EXCEPT ![r].at = n, ![r].made = n = Leaf(r)]
       /\ Sweep(Put(Live, r, Filled(r, run, n)))
       /\ UNCHANGED faults
    \/ /\ Fault
       /\ UNCHANGED flows
       /\ Sweep(Put(Live, r, Failed(Filled(r, run, n))))

\* ProcessFlowRun of one step: refused before anything is sent; taken, and generated at the
\* end; or an error, with the step taken or not, and the documents made or not.
driveStep(r, run, n) ==
    \/ /\ Refused(r, run, n) /\ HasRoom(run)
       /\ Sweep(Put(Live, r, [Step(run, n, FALSE) EXCEPT !.rejected = @ \cup {n}]))
       /\ UNCHANGED <<flows, faults>>
    \/ /\ ~ Refused(r, run, n)
       /\ flows' = [flows EXCEPT ![r].at = n, ![r].made = n = Leaf(r)]
       /\ Sweep(Put(Live, r, Filled(r, run, n)))
       /\ UNCHANGED faults
    \/ /\ Fault
       /\ \/ UNCHANGED flows
          \/ /\ ~ Refused(r, run, n)
             /\ \E made \in {FALSE, n = Leaf(r)} :
                  flows' = [flows EXCEPT ![r].at = n, ![r].made = made]
       /\ Sweep(Put(Live, r, Failed(run)))

\* The answers of a completed run; a document that cannot be had is reported.
complete(r, run) ==
    /\ UNCHANGED flows
    /\ \/ UNCHANGED faults
          /\ Sweep(Put(Live, r, [run EXCEPT !.status = "done", !.result = "completed"]))
       \/ Fault /\ Sweep(Put(Live, r, Failed(run)))

\* GET /api/runs of a run without an outcome: one step, or a wait, or an error of the read.
PollFlow(r) ==
    /\ Idle /\ r \in DOMAIN Live
    /\ Live[r].scenario = FlowScenario /\ Live[r].status = "pending"
    /\ LET run == Live[r]
           n == flows[r].at + 1
       IN  \/ flows[r].made /\ complete(r, run)
           \/ Owes(r, n, "company") /\ driveStep(r, run, n)
           \/ /\ ~ flows[r].made /\ ~ Owes(r, n, "company")
              /\ \/ Sweep(Live) /\ UNCHANGED faults
                 \/ Fault /\ Sweep(Put(Live, r, Failed(run)))
              /\ UNCHANGED flows
    /\ UNCHANGED <<used, config, keys, cache, busy, started, saves>>
=============================================================================
