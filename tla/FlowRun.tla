------------------------------- MODULE FlowRun -------------------------------
(***************************************************************************)
(* A contract-flow run: the company's turn (ProcessFlowRun,                *)
(* SubmitFlowAnswers and GenerateFlowDocument of client.go), the turn of a *)
(* customer that is itself a company (customer.go), and the plugins either *)
(* asks on its step (plugin.go).                                           *)
(*                                                                         *)
(* Every call works on a copy of the run it read, and only the platform    *)
(* knows how the run stands by the time a request arrives.  Processes of   *)
(* one user do not know of each other; they crash between any two          *)
(* requests, and an answer of the platform may be lost.                    *)
(***************************************************************************)
EXTENDS FlowValues, FiniteSets

CONSTANTS
    Process,       \* processes that drive the run
    UserOf,        \* the user each acts for
    Org,           \* the company that owns the flow
    Definition,    \* the definitions considered
    Key, BaseOf,   \* the keys that expressions name, and of a dotted one its plugin's slug
    FillOf,        \* the values each slug may be filled with
    Sensitive,     \* the slugs a person may answer from a private source of its own
    Stray,         \* slugs that no step has, and a caller may fill in all the same
    Asker,         \* bound: the processes that ask plugins
    MaxFaults,     \* bound: crashes, lost answers, stray fills, expired passes, new plugin keys
    LiveAnswers(_, _),       \* of a definition and answers: with plugin answers expanded
                             \* and constants computed
    NextNode(_, _, _),       \* of a definition, a step and answers: whether it is a leaf,
                             \* and where its first edge whose condition holds leads
    BoundError(_, _, _, _)   \* of a definition, a slug, a value and answers: whether the
                             \* value breaks a bound

\* A definition's steps each have a party and fields of their own, and its edges name steps
\* that it has.  refs has the keys that the expression of each constant names, defaults
\* those that the default of a field names, and wired those wired to a plugin's inputs; lists
\* says whether a run is read with the slugs that are private.
ASSUME DefinitionAssumption ==
    \A d \in Definition :
        /\ d.first \in DOMAIN d.party
        /\ DOMAIN d.fields = DOMAIN d.party
        /\ \A n \in DOMAIN d.party :
               /\ d.party[n] \in DOMAIN d.bindings
               /\ d.fields[n] \subseteq DOMAIN FillOf \ Stray
               /\ \A m \in DOMAIN d.party : m # n => d.fields[m] \cap d.fields[n] = {}
        /\ \A i \in DOMAIN d.edges :
               d.edges[i].from \in DOMAIN d.party /\ d.edges[i].to \in DOMAIN d.party
        /\ DOMAIN d.refs \cap DOMAIN FillOf = {}
        /\ \A k \in DOMAIN d.refs : d.refs[k] \subseteq Key
        /\ d.defaults \in [DOMAIN FillOf -> SUBSET Key]
        /\ \A s \in DOMAIN d.wired : d.wired[s] \subseteq Key

ASSUME KeyAssumption ==
    /\ BaseOf \in [Key -> Key]
    /\ DOMAIN FillOf \subseteq Key /\ Stray \subseteq DOMAIN FillOf
    /\ \A s \in DOMAIN FillOf : BaseOf[s] = s

ASSUME FillAssumption ==
    \A s \in DOMAIN FillOf : \A v \in FillOf[s] : v = Value(v.is, v.text, v.n, v.items)
ASSUME FaultsAssumption == MaxFaults \in Nat

VARIABLES
    flow,     \* the pinned definition
    run,      \* platform: the run
    proc,     \* what each process is doing
    docs,     \* platform: the answers the documents were generated from
    told,     \* history: whose plugin inputs came from which stored answers
    key,      \* the plugin's key
    faults    \* faults so far

vars == <<flow, run, proc, docs, told, key, faults>>

Slugs == DOMAIN FillOf
Fields(node) == flow.fields[node]

\* answers maps a slug to its text and whether that is a plaintext file reference; private
\* holds the slugs submitted with source_private.
NoRun == [status |-> "none", node |-> "", answers |-> <<>>, private |-> {}]
NoBody == [answers |-> <<>>, private |-> {}, leaf |-> FALSE, next |-> ""]
NoProc ==
    [pc |-> "idle", run |-> NoRun, body |-> NoBody, inputs |-> {},
     slug |-> "", sends |-> {}, key |-> 0, resent |-> FALSE, resealed |-> FALSE, renewed |-> FALSE]

TypeOK ==
    /\ flow \in Definition
    /\ run.status \in {"awaiting", "generating", "done"}
    /\ run.node \in DOMAIN flow.party
    /\ DOMAIN run.answers \subseteq Slugs /\ run.private \subseteq DOMAIN run.answers
    /\ \A s \in DOMAIN run.answers : run.answers[s].v.text
    /\ \A p \in Process :
         /\ proc[p].pc \in {"idle", "reread", "submit", "inputs", "refresh", "pass", "call"}
         /\ proc[p].body.private \subseteq DOMAIN proc[p].body.answers
         /\ proc[p].key <= key
    /\ faults \in 0 .. MaxFaults

Init ==
    /\ flow \in Definition
    /\ run = [status |-> "awaiting", node |-> flow.first, answers |-> <<>>, private |-> {}]
    /\ proc = [p \in Process |-> NoProc]
    /\ docs = {}
    /\ told = {}
    /\ key = 0
    /\ faults = 0

At(p, pc) == proc[p].pc = pc
Becomes(p, s) == proc' = [proc EXCEPT ![p] = s]
Ends(p) == Becomes(p, NoProc)
Fault == faults < MaxFaults /\ faults' = faults + 1

-----------------------------------------------------------------------------
(* Reading a run.                                                           *)

\* The caller's own copies, opened: every bound party has one of every answer.
Opened(r) == [s \in DOMAIN r.answers |-> r.answers[s].v]

Turn(r, user) == r.status = "awaiting" /\ flow.bindings[flow.party[r.node]] = user

\* The live map: of a draft only what belongs to the run's step.
liveFlowAnswers(r, draft) ==
    LET here == [s \in DOMAIN draft \cap Fields(r.node) |-> draft[s]]
    IN  LiveAnswers(flow, Over(here, Opened(r)))

\* The keys that one step leads to from a key, by way of those that lead on.
Reach(step, k) ==
    LET leading == {x \in DOMAIN step : step[x] # {}}
        closed == {S \in SUBSET leading : /\ k \in leading => k \in S
                                         /\ \A x \in S : step[x] \cap leading \subseteq S}
    IN  {k} \cup UNION {step[x] : x \in {y \in leading : \A S \in closed : y \in S}}

\* The base keys that a base key is computed from: a constant's are those its expression
\* names, those of a field drafted on the run's step are those of its default.
Feeds(d, node, drafted) ==
    [b \in {BaseOf[k] : k \in Key} |->
        IF b \in DOMAIN d.refs THEN {BaseOf[k] : k \in d.refs[b]}
        ELSE IF b \in drafted \cap d.fields[node] THEN {BaseOf[k] : k \in d.defaults[b]}
        ELSE {}]

Behind(node, drafted, k) == Reach(Feeds(flow, node, drafted), BaseOf[k])

\* The slugs a user is to keep from its plugins: those listed as private, or all that
\* another party answers.
OthersSlugs(user) ==
    UNION {Fields(n) : n \in {m \in DOMAIN flow.party : flow.bindings[flow.party[m]] # user}}
Hidden(user, r) == IF flow.lists THEN r.private ELSE OthersSlugs(user)

isPrivate(user, r, drafted, k) == Behind(r.node, drafted, k) \cap Hidden(user, r) # {}

\* Mutant of sourcePrivate: what a default names is not looked at.
MarksKnownOnly(user, r, submitted) == submitted \cap Hidden(user, r)

sourcePrivate(user, r, submitted) == {s \in submitted : isPrivate(user, r, submitted, s)}

-----------------------------------------------------------------------------
(* A turn.                                                                  *)

Valid(slug, v) ==
    CASE flow.types[slug] = "number" -> v.is = "num"
      [] flow.types[slug] = "boolean" -> v.is = "bool"
      [] OTHER -> TRUE

\* A caller may fill in all of the fields, some, or none.
Fills(fields) ==
    UNION {{f \in [given -> UNION {FillOf[s] : s \in given}] : \A s \in given : f[s] \in FillOf[s]} :
           given \in SUBSET fields}

Accepted(r, fill) ==
    /\ \A s \in DOMAIN fill : Valid(s, flowPlain(fill[s]))
    /\ \A s \in DOMAIN fill : ~ BoundError(flow, s, fill[s], liveFlowAnswers(r, fill))

\* Mutant of Way: the step is chosen by what was stored before.
WayWithoutFill(r, fill) == NextNode(flow, r.node, Opened(r))

Way(r, fill) == NextNode(flow, r.node, Over(fill, Opened(r)))

\* Mutant of Body: values are stored as they were passed.
StoresTyped(user, r, fill, sealsAll) ==
    [answers |-> [s \in DOMAIN fill |->
                      [v |-> fill[s], ref |-> ~ sealsAll /\ Is(fill[s], "file")]],
     private |-> IF sealsAll THEN sourcePrivate(user, r, DOMAIN fill) ELSE {},
     leaf |-> Way(r, fill).leaf, next |-> Way(r, fill).next]

\* SubmitFlowAnswers of the company seals every value; a customer's caller passes a file
\* as the plaintext reference.
Body(user, r, fill, sealsAll) ==
    [answers |-> [s \in DOMAIN fill |->
                      [v |-> flowPlain(fill[s]), ref |-> ~ sealsAll /\ Is(fill[s], "file")]],
     private |-> IF sealsAll THEN sourcePrivate(user, r, DOMAIN fill) ELSE {},
     leaf |-> Way(r, fill).leaf, next |-> Way(r, fill).next]

\* Filling in a slug that the step has not is a fault: it is posted like any other.
Fitting(fill) == IF DOMAIN fill \cap Stray = {} THEN UNCHANGED faults ELSE Fault

\* ProcessFlowRun fills in the step of a run that awaits the company, up to its first request
\* that changes anything.  (It returns any other run as it is, and a value that is not valid or
\* out of its bounds ends it: neither changes anything.)
TakeTurn(p) ==
    /\ At(p, "idle") /\ UserOf[p] = Org /\ Turn(run, Org)
    /\ \E fill \in Fills(Fields(run.node) \cup Stray) :
         /\ Accepted(run, fill) /\ Fitting(fill)
         /\ Becomes(p, [NoProc EXCEPT !.pc = "submit", !.run = run,
                                      !.body = Body(Org, run, fill, TRUE)])
    /\ UNCHANGED <<flow, run, docs, told, key>>

\* A customer fills in its step from a run it read, and says which answers came from a
\* private source; without an answer it posts right away ...
CustomerFills(p) ==
    /\ At(p, "idle") /\ UserOf[p] # Org /\ Turn(run, UserOf[p])
    /\ \E fill \in Fills(Fields(run.node) \cup Stray) : \E marked \in SUBSET (DOMAIN fill \cap Sensitive) :
         /\ Accepted(run, fill) /\ Fitting(fill)
         /\ Becomes(p, [NoProc EXCEPT
                           !.pc = IF DOMAIN fill = {} THEN "submit" ELSE "reread", !.run = run,
                           !.body = [Body(UserOf[p], run, fill, FALSE) EXCEPT !.private = marked]])
    /\ UNCHANGED <<flow, run, docs, told, key>>

\* ... and with any, its SubmitFlowAnswers reads the run once more, to mark what is private.
CustomerMarks(p) ==
    /\ At(p, "reread")
    /\ LET b == proc[p].body
           private == sourcePrivate(UserOf[p], run, DOMAIN b.answers)
       IN  Becomes(p, [proc[p] EXCEPT !.pc = "submit", !.run = run,
                                      !.body = [b EXCEPT !.private = @ \cup private]])
    /\ UNCHANGED <<flow, run, docs, told, key, faults>>

-----------------------------------------------------------------------------
(* The platform.                                                            *)

\* It cannot open an answer: it takes fields of the current step from the party whose turn
\* it is, and a next step some edge leads to.
Takes(p) ==
    LET b == proc[p].body
    IN  /\ Turn(run, UserOf[p])
        /\ DOMAIN b.answers \subseteq Fields(run.node)
        /\ b.leaf \/ \E i \in DOMAIN flow.edges :
                        flow.edges[i].from = run.node /\ flow.edges[i].to = b.next

Advanced(b) ==
    [status |-> IF ~ b.leaf THEN "awaiting"
                ELSE IF flow.mode = "document" THEN "generating" ELSE "done",
     node |-> IF b.leaf THEN run.node ELSE b.next,
     answers |-> Over(b.answers, run.answers),
     private |-> run.private \cup b.private]

\* heldSources: the leaf's sources the caller holds, its own copy of a file answer or of a
\* connection source.
heldSources(r) ==
    {s \in flow.sources[r.node] :
        IF s \in Slugs THEN s \in DOMAIN r.answers /\ r.answers[s].ref ELSE s \in flow.conn}

-----------------------------------------------------------------------------
(* The requests that change the run.                                        *)

\* The request is answered, refused, lost on either way, or its connection is closed
\* under it, after which it is sent once more.
Lost(p) ==
    /\ Fault
    /\ \/ Ends(p)
       \/ ~ proc[p].resent /\ Becomes(p, [proc[p] EXCEPT !.resent = TRUE])

\* ProcessFlowRun goes on to generate at a leaf of a document flow, on the run it was
\* answered with.
AfterSubmit(p, answered) ==
    IF UserOf[p] = Org /\ proc[p].body.leaf /\ flow.mode = "document"
    THEN [NoProc EXCEPT !.pc = "inputs", !.run = answered]
    ELSE NoProc

\* Mutant of Submit: the run read before the submit is generated from.
SubmitsAndKeepsRun(p) ==
    /\ At(p, "submit")
    /\ LET b == proc[p].body
           moved == IF Takes(p) THEN Advanced(b) ELSE run
       IN  \/ /\ run' = moved
              /\ \/ /\ UNCHANGED faults
                    /\ IF Takes(p)
                       THEN Becomes(p, AfterSubmit(p, [moved EXCEPT !.answers = proc[p].run.answers]))
                       ELSE Ends(p)
                 \/ Lost(p)
           \/ Lost(p) /\ UNCHANGED run
    /\ UNCHANGED <<flow, docs, told, key>>

\* What becomes of the answers posted: taken or refused, and the answer may be lost.
Submit(p) ==
    /\ At(p, "submit")
    /\ LET b == proc[p].body
           moved == IF Takes(p) THEN Advanced(b) ELSE run
       IN  \/ /\ run' = moved
              /\ \/ /\ UNCHANGED faults
                    /\ IF Takes(p) THEN Becomes(p, AfterSubmit(p, moved)) ELSE Ends(p)
                 \/ Lost(p)
           \/ Lost(p) /\ UNCHANGED run
    /\ UNCHANGED <<flow, docs, told, key>>

\* A caller that finds its leaf answered and nothing generated calls GenerateFlowDocument;
\* a customer's refuses a run that is not at a step of its own.
Regenerate(p) ==
    /\ At(p, "idle") /\ run.status = "generating"
    /\ flow.bindings[flow.party[run.node]] = UserOf[p]
    /\ Becomes(p, [NoProc EXCEPT !.pc = "inputs", !.run = run])
    /\ UNCHANGED <<flow, run, docs, told, key, faults>>

\* Each held source is fetched, sealed under the one-time key and uploaded.
UploadInput(p) ==
    /\ At(p, "inputs")
    /\ \E s \in heldSources(proc[p].run) \ proc[p].inputs :
         \/ Becomes(p, [proc[p] EXCEPT !.inputs = @ \cup {s}]) /\ UNCHANGED faults
         \/ Ends(p) /\ Fault
    /\ UNCHANGED <<flow, run, docs, told, key>>

\* The platform generates once; a repeat is answered with the same documents.
Generates(p) == run.status = "generating" /\ proc[p].inputs = heldSources(run)

\* Mutant of Generate: posted without waiting for the inputs.
GeneratesAtOnce(p) ==
    /\ At(p, "inputs")
    /\ IF Generates(p)
       THEN /\ run' = [run EXCEPT !.status = "done"]
            /\ docs' = docs \cup {Opened(proc[p].run)}
       ELSE UNCHANGED <<run, docs>>
    /\ \/ /\ UNCHANGED faults
          /\ IF Generates(p) \/ run.status = "done"
             THEN Becomes(p, [proc[p] EXCEPT !.pc = "refresh"]) ELSE Ends(p)
       \/ Lost(p)
    /\ UNCHANGED <<flow, told, key>>

Generate(p) ==
    /\ At(p, "inputs") /\ heldSources(proc[p].run) = proc[p].inputs
    /\ IF Generates(p)
       THEN /\ run' = [run EXCEPT !.status = "done"]
            /\ docs' = docs \cup {Opened(proc[p].run)}
       ELSE UNCHANGED <<run, docs>>
    /\ \/ /\ UNCHANGED faults
          /\ IF Generates(p) \/ run.status = "done"
             THEN Becomes(p, [proc[p] EXCEPT !.pc = "refresh"]) ELSE Ends(p)
       \/ Lost(p)
    /\ UNCHANGED <<flow, told, key>>

\* ProcessFlowRun reads the run again, to return its documents.
Refresh(p) ==
    /\ At(p, "refresh")
    /\ Ends(p)
    /\ UNCHANGED <<flow, run, docs, told, key, faults>>

-----------------------------------------------------------------------------
(* A plugin of the current step.                                            *)

\* The wired inputs that are answered and not private; the others stay unset.
pluginInputs(user, r, slug, draft) ==
    LET live == liveFlowAnswers(r, draft)
    IN  {k \in flow.wired[slug] : flowAnswered(Lookup(live, k))
                                  /\ ~ isPrivate(user, r, DOMAIN draft, k)}

\* The stored answers behind a plugin's input.
Sources(r, draft, k) == Behind(r.node, DOMAIN draft, k) \cap DOMAIN r.answers

\* The run is read first, whoever it awaits: stored answers, the step that a draft is of,
\* and privacy are those of this copy, and so what will be sent, although the pass comes first.
AskPlugin(p) ==
    /\ At(p, "idle") /\ p \in Asker
    /\ \E slug \in DOMAIN flow.wired, fill \in Fills(Fields(run.node)) :
         Becomes(p, [NoProc EXCEPT
                       !.pc = "pass", !.slug = slug,
                       !.sends = UNION {Sources(run, fill, k) :
                                          k \in pluginInputs(UserOf[p], run, slug, fill)}])
    /\ UNCHANGED <<flow, run, docs, told, key, faults>>

\* The pass describes the plugins of the step the run is at by now.
Passed(p) == Turn(run, UserOf[p]) /\ proc[p].slug \in Fields(run.node)

FetchPass(p) ==
    /\ At(p, "pass")
    /\ IF Passed(p)
       THEN Becomes(p, [proc[p] EXCEPT !.pc = "call", !.key = key])
       ELSE Ends(p)
    /\ UNCHANGED <<flow, run, docs, told, key, faults>>

\* One post of the sealed request: answered; refused for the plugin's new key, and sealed
\* to it once; refused for its pass, and sent with a new one once; or not answered.
CallPlugin(p) ==
    /\ At(p, "call")
    /\ told' = told \cup {[by |-> UserOf[p], slug |-> s] : s \in proc[p].sends}
    /\ \/ /\ proc[p].key = key
          /\ Ends(p) /\ UNCHANGED faults
       \/ /\ proc[p].key # key
          /\ IF proc[p].resealed THEN Ends(p)
             ELSE Becomes(p, [proc[p] EXCEPT !.key = key, !.resealed = TRUE])
          /\ UNCHANGED faults
       \/ /\ Fault
          /\ IF proc[p].renewed \/ ~ Turn(run, UserOf[p]) THEN Ends(p)
             ELSE Becomes(p, [proc[p] EXCEPT !.key = key, !.renewed = TRUE])
       \/ Ends(p) /\ Fault
    /\ UNCHANGED <<flow, run, docs, key>>

RotatePlugin ==
    /\ Fault
    /\ key' = key + 1
    /\ UNCHANGED <<flow, run, proc, docs, told>>

-----------------------------------------------------------------------------

\* A process dies; its next call starts from the run as it is then.
Crash(p) ==
    /\ ~ At(p, "idle") /\ Fault
    /\ Ends(p)
    /\ UNCHANGED <<flow, run, docs, told, key>>

Call(p) ==
    \/ CustomerMarks(p) \/ Submit(p) \/ UploadInput(p) \/ Generate(p) \/ Refresh(p)
    \/ FetchPass(p) \/ CallPlugin(p)
Drive(p) == TakeTurn(p) \/ CustomerFills(p) \/ Regenerate(p)

Next ==
    \/ \E p \in Process : Drive(p) \/ Call(p) \/ Crash(p) \/ AskPlugin(p)
    \/ RotatePlugin

\* Whether a process could take its turn or generate, and a step in which it does so.
MayDrive(p) ==
    /\ At(p, "idle")
    /\ \/ Turn(run, UserOf[p])
       \/ run.status = "generating" /\ flow.bindings[flow.party[run.node]] = UserOf[p]
Drives(p) == MayDrive(p) /\ proc'[p].pc \in {"reread", "submit", "inputs"}

\* A call in progress goes on to its end (it has finitely many requests), and a process
\* that may drive the run again and again at some time does: SF_vars(Drive(p)), by what
\* enables it.
Spec ==
    /\ Init /\ [][Next]_vars
    /\ \A p \in Process : /\ []<>At(p, "idle")
                          /\ []<>MayDrive(p) => []<><<Drives(p)>>_vars

-----------------------------------------------------------------------------
(* Properties.                                                              *)

\* What RoutedAsStored asks of what a definition computes over stored answers: the values
\* filled in on a step are not told from their texts, and a leaf leads nowhere.
Text(s) == {flowPlain(v) : v \in FillOf[s]}
Plain(fill) == [s \in DOMAIN fill |-> flowPlain(fill[s])]
TextsDecide(d, stored) ==
    \A n \in DOMAIN d.party : \A fill \in Fills(d.fields[n]) :
        LET typed == Over(fill, stored)
            texts == Over(Plain(fill), stored)
            way == NextNode(d, n, typed)
        IN  /\ NextNode(d, n, texts) = way
            /\ way.leaf => way.next = n
            /\ \A s \in DOMAIN fill :
                   BoundError(d, s, fill[s], LiveAnswers(d, typed))
                       = BoundError(d, s, texts[s], LiveAnswers(d, texts))

\* Answers are taken.  (A post tells of which step it is by its answers alone: one without any
\* does so only while whatever is about to be posted is of the step the run is at.)
TakesAnswers ==
    /\ run.status = "awaiting" /\ run' # run
    /\ \/ DOMAIN run'.answers # DOMAIN run.answers
       \/ \A p \in Process : At(p, "submit") => proc[p].run.node = run.node

\* The run goes where its stored answers lead, and what a step stores is within its bounds
\* over what is stored: the values a company fills in are typed, the answers every other
\* party routes and computes with are texts.
RoutedAsStored ==
    [][TakesAnswers =>
        LET stored == Opened(run')
            way == NextNode(flow, run.node, stored)
            new == DOMAIN run'.answers \ DOMAIN run.answers
        IN  /\ run'.node = way.next
            /\ run'.status # "awaiting" <=> way.leaf
            /\ \A s \in new :
                 ~ BoundError(flow, s, stored[s], LiveAnswers(flow, stored))]_vars

\* What PrivateStaysPrivate asks of a definition: its steps can be ranked so that each edge
\* leads on, and a default leads to what is answered on its own step or before.
LeadsOn(d, rank) ==
    /\ \A i \in DOMAIN d.edges : rank[d.edges[i].from] < rank[d.edges[i].to]
    /\ \A m, n \in DOMAIN d.party : \A s \in d.fields[n] :
           Reach(Feeds(d, n, {s}), s) \cap d.fields[m] # {} => rank[m] <= rank[n]
Forward ==
    \A d \in Definition :
        \E rank \in [DOMAIN d.party -> 0 .. Cardinality(DOMAIN d.party)] : LeadsOn(d, rank)

\* The answers behind an answer of a step, through its default, that its user has to keep.
KeptBehind(r, n, s) == Behind(n, {s}, s) \cap Hidden(flow.bindings[flow.party[n]], r)

\* An answer that may come from a private one, through the default of its field and the
\* constants that it names, is marked so - unless the private one is of the same step, and was
\* marked by its party and not by the code; and no plugin has been sent a value that may come
\* from a stored answer that is private, even when the run moves on between the copy the
\* inputs are read from, the pass and the call.
PrivateStaysPrivate ==
    /\ \A n \in DOMAIN flow.party : \A s \in Fields(n) \cap DOMAIN run.answers :
           KeptBehind(run, n, s) \subseteq Fields(n) \cap Sensitive \/ s \in run.private
    /\ \A t \in told : t.slug \notin Hidden(t.by, run)

\* What SubmitFlowAnswers of the customer client says of itself: it marks every answer whose
\* field's default reaches a private source.
DefaultsAreMarked ==
    \A n \in DOMAIN flow.party : \A s \in Fields(n) \cap DOMAIN run.answers :
        KeptBehind(run, n, s) # {} => s \in run.private

\* A document is generated once, from every answer of the run, the leaf's own included.
GeneratedFromWholeRun ==
    /\ docs \subseteq {Opened(run)}
    /\ flow.mode = "document" => (run.status = "done" <=> docs # {})

\* Whatever crashes, is lost, refused or sent twice: the run is completed.
RunSettles == <>(run.status = "done")

=============================================================================
