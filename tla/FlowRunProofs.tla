---------------------------- MODULE FlowRunProofs ----------------------------
(***************************************************************************)
(* Proofs about FlowRun, for any definitions, parties, processes and       *)
(* faults, whatever the conditions and expressions of a definition compute *)
(* over the answers: its types, what documents are generated from, and     *)
(* what is known to be private.                                            *)
(***************************************************************************)
EXTENDS FlowRun, TLAPS

\* What is posted: answers as texts, of which some are marked private.
Posts(b) ==
    /\ DOMAIN b.answers \subseteq Slugs
    /\ b.private \subseteq DOMAIN b.answers
    /\ \A s \in DOMAIN b.answers : b.answers[s].v \in Text(s)

\* What a process holds.
ProcOK(s) ==
    /\ DOMAIN s = {"pc", "run", "body", "inputs", "slug", "sends", "key", "resent",
                   "resealed", "renewed"}
    /\ DOMAIN s.body = {"answers", "private", "leaf", "next"}
    /\ s.pc \in {"idle", "reread", "submit", "inputs", "refresh", "pass", "call"}
    /\ s.key \in Nat /\ s.key <= key
    /\ Posts(s.body)

RunOK ==
    /\ DOMAIN run = {"status", "node", "answers", "private"}
    /\ run.status \in {"awaiting", "generating", "done"}
    /\ run.node \in DOMAIN flow.party
    /\ DOMAIN run.answers \subseteq Slugs /\ run.private \subseteq DOMAIN run.answers
    /\ \A s \in DOMAIN run.answers : run.answers[s].v \in Text(s)

\* The types, with the fields of each record.
Shaped ==
    /\ flow \in Definition
    /\ RunOK
    /\ proc = [p \in Process |-> proc[p]] /\ \A p \in Process : ProcOK(proc[p])
    /\ key \in Nat
    /\ faults \in 0 .. MaxFaults

-----------------------------------------------------------------------------
(* Type correctness.                                                        *)

\* What is assumed of the definition of the run.
LEMMA DefinitionFacts ==
    ASSUME flow \in Definition
    PROVE  /\ flow.first \in DOMAIN flow.party
           /\ \A n \in DOMAIN flow.party : Fields(n) \subseteq Slugs /\ Fields(n) \cap Stray = {}
           /\ \A m, n \in DOMAIN flow.party : m # n => Fields(m) \cap Fields(n) = {}
           /\ \A i \in DOMAIN flow.edges :
                  flow.edges[i].from \in DOMAIN flow.party
                  /\ flow.edges[i].to \in DOMAIN flow.party
  BY DefinitionAssumption DEF Fields, Slugs

\* A slug that no step has is one that may be filled in.
LEMMA StraySlugs == Stray \subseteq Slugs
  BY KeyAssumption DEF Slugs

\* What is filled in, of some fields.
LEMMA FillFacts ==
    ASSUME NEW fields, NEW fill
    PROVE  fill \in Fills(fields) <=>
               /\ fill = [s \in DOMAIN fill |-> fill[s]] /\ DOMAIN fill \subseteq fields
               /\ \A s \in DOMAIN fill : fill[s] \in FillOf[s]
  <1>1. ASSUME fill \in Fills(fields)
        PROVE  /\ fill = [s \in DOMAIN fill |-> fill[s]] /\ DOMAIN fill \subseteq fields
               /\ \A s \in DOMAIN fill : fill[s] \in FillOf[s]
    <2>1. PICK given \in SUBSET fields :
              fill \in {f \in [given -> UNION {FillOf[s] : s \in given}] :
                           \A s \in given : f[s] \in FillOf[s]}
      BY <1>1 DEF Fills
    <2>. QED BY <2>1
  <1>2. ASSUME fill = [s \in DOMAIN fill |-> fill[s]], DOMAIN fill \subseteq fields,
               \A s \in DOMAIN fill : fill[s] \in FillOf[s]
        PROVE  fill \in Fills(fields)
    <2>. DEFINE given == DOMAIN fill
    <2>1. fill \in [given -> UNION {FillOf[s] : s \in given}]
      BY <1>2
    <2>2. given \in SUBSET fields
      BY <1>2
    <2>. QED BY <1>2, <2>1, <2>2 DEF Fills
  <1>. QED BY <1>1, <1>2

\* Answers are posted as texts, under their slugs.
LEMMA BodyPosts ==
    ASSUME NEW fields, fields \subseteq Slugs, NEW fill \in Fills(fields)
    PROVE  /\ DOMAIN fill \subseteq fields
           /\ \A user, r : \A all \in BOOLEAN :
                 /\ DOMAIN Body(user, r, fill, all).answers = DOMAIN fill
                 /\ Posts(Body(user, r, fill, all))
                 /\ Body(user, r, fill, all).private =
                        IF all THEN sourcePrivate(user, r, DOMAIN fill) ELSE {}
  <1>1. DOMAIN fill \subseteq fields /\ \A s \in DOMAIN fill : fill[s] \in FillOf[s]
    BY FillFacts
  <1>2. \A s \in DOMAIN fill : flowPlain(fill[s]) \in Text(s)
    BY <1>1 DEF Text
  <1>3. ASSUME NEW user, NEW r, NEW all \in BOOLEAN, NEW b, b = Body(user, r, fill, all)
        PROVE  /\ DOMAIN b.answers = DOMAIN fill /\ Posts(b)
               /\ b.private = IF all THEN sourcePrivate(user, r, DOMAIN fill) ELSE {}
    <2>1. /\ b.answers = [s \in DOMAIN fill |->
                             [v |-> flowPlain(fill[s]), ref |-> ~ all /\ Is(fill[s], "file")]]
          /\ b.private = IF all THEN sourcePrivate(user, r, DOMAIN fill) ELSE {}
      BY <1>3 DEF Body
    <2>2. \A s \in DOMAIN b.answers : b.answers[s].v \in Text(s)
      BY <1>1, <1>2, <2>1
    <2>3. sourcePrivate(user, r, DOMAIN fill) \subseteq DOMAIN fill
      BY DEF sourcePrivate
    <2>4. DOMAIN b.answers \subseteq Slugs /\ b.private \subseteq DOMAIN b.answers
      BY <1>1, <2>1, <2>3
    <2>5. Posts(b)
      BY <2>2, <2>4 DEF Posts
    <2>. QED BY <2>1, <2>5
  <1>. QED BY <1>1, <1>3

\* The fields of a process without business.
LEMMA NoProcFields ==
    /\ DOMAIN NoProc = {"pc", "run", "body", "inputs", "slug", "sends", "key", "resent",
                        "resealed", "renewed"}
    /\ NoProc.pc = "idle" /\ NoProc.key = 0 /\ NoProc.body = NoBody
    /\ DOMAIN NoBody = {"answers", "private", "leaf", "next"} /\ Posts(NoBody)
  <1>1. NoBody.answers = <<>> /\ NoBody.private = {}
    BY DEF NoBody
  <1>2. DOMAIN NoBody.answers = {}
    BY <1>1
  <1>3. Posts(NoBody)
    BY <1>1, <1>2 DEF Posts
  <1>. QED BY <1>3 DEF NoProc, NoBody

\* A process whose call ended, or that died, is well shaped.
LEMMA NoProcOK ==
    ASSUME key \in Nat
    PROVE  ProcOK(NoProc)
  <1>1. 0 <= key
    OBVIOUS
  <1>2. NoProc.key \in Nat /\ NoProc.key <= key
    <2>1. NoProc.key = 0
      BY NoProcFields
    <2>. QED BY <1>1, <2>1
  <1>. QED BY <1>2, NoProcFields DEF ProcOK

\* One process moves on, and the run and the key stay what they were or are well shaped.
LEMMA MovesOn ==
    ASSUME Shaped, NEW p \in Process, NEW s, ProcOK(s), Becomes(p, s), RunOK',
           UNCHANGED <<flow, key>>, faults' \in 0 .. MaxFaults
    PROVE  Shaped'
  <1>1. \A q \in Process : proc'[q] = IF q = p THEN s ELSE proc[q]
    BY DEF Shaped, Becomes
  <1>2. proc' = [q \in Process |-> proc'[q]]
    BY DEF Shaped, Becomes
  <1>3. \A q \in Process : ProcOK(proc'[q])
    BY <1>1 DEF Shaped
  <1>4. \A q \in Process : ProcOK(proc[q])'
    BY <1>3 DEF ProcOK
  <1>. QED BY <1>2, <1>4 DEF Shaped

\* A fault is one of those allowed.
LEMMA FaultCounted ==
    ASSUME faults \in 0 .. MaxFaults, Fault \/ UNCHANGED faults
    PROVE  faults' \in 0 .. MaxFaults
  BY FaultsAssumption DEF Fault

\* Who holds no plugin's key holds none that is newer than the plugin's.
LEMMA NoKey ==
    ASSUME key \in Nat, NEW k, k = 0
    PROVE  k \in Nat /\ k <= key
  OBVIOUS

\* A process that took up a turn or a generation.
LEMMA TakenUpOK ==
    ASSUME NEW s, DOMAIN s = DOMAIN NoProc, DOMAIN s.body = DOMAIN NoBody,
           s.pc \in {"reread", "submit", "inputs", "pass"}, s.key \in Nat /\ s.key <= key,
           Posts(s.body)
    PROVE  ProcOK(s)
  BY NoProcFields DEF ProcOK

\* The first state is well shaped.
LEMMA ShapedInit == Init => Shaped
  <1>. SUFFICES ASSUME Init PROVE Shaped
    OBVIOUS
  <1>1. RunOK
    BY DefinitionFacts DEF Init, RunOK
  <1>2. \A p \in Process : ProcOK(proc[p])
    BY NoProcOK DEF Init
  <1>3. proc = [p \in Process |-> proc[p]]
    BY DEF Init
  <1>. QED BY <1>1, <1>2, <1>3, FaultsAssumption DEF Init, Shaped

\* A call that ends, and changes nothing of the run.
LEMMA EndsShaped ==
    ASSUME Shaped, NEW p \in Process,
           Ends(p), RunOK',
           UNCHANGED <<flow, key>>, Fault \/ UNCHANGED faults
    PROVE  Shaped'
  <1>1. ProcOK(NoProc)
    BY NoProcOK DEF Shaped
  <1>2. faults' \in 0 .. MaxFaults
    BY FaultCounted DEF Shaped
  <1>. QED BY <1>1, <1>2, MovesOn DEF Ends

\* The run stays well shaped when nothing of it changes.
LEMMA SameRun ==
    ASSUME Shaped, UNCHANGED <<flow, run>>
    PROVE  RunOK'
  BY DEF Shaped, RunOK, Slugs

\* What a process holds when it has sealed to the plugin's key once more.
LEMMA SameCallOK ==
    ASSUME NEW s, ProcOK(s), key \in Nat
    PROVE  /\ ProcOK([s EXCEPT !.key = key, !.resealed = TRUE])
           /\ ProcOK([s EXCEPT !.key = key, !.renewed = TRUE])
  <1>1. key <= key
    OBVIOUS
  <1>. QED BY <1>1 DEF ProcOK

\* What a request that is answered, or lost, leaves.
LEMMA LostShaped ==
    ASSUME Shaped, NEW p \in Process, Lost(p), RunOK', UNCHANGED <<flow, key>>
    PROVE  Shaped'
  <1>1. ProcOK(proc[p]) /\ faults' \in 0 .. MaxFaults
    BY FaultCounted DEF Shaped, Lost
  <1>2. CASE Ends(p)
    BY <1>2, EndsShaped DEF Lost
  <1>3. CASE Becomes(p, [proc[p] EXCEPT !.resent = TRUE])
    <2>1. ProcOK([proc[p] EXCEPT !.resent = TRUE])
      BY <1>1 DEF ProcOK
    <2>. QED BY <1>1, <1>3, <2>1, MovesOn
  <1>. QED BY <1>2, <1>3 DEF Lost

\* A party that fills in its step.
LEMMA FillShaped ==
    ASSUME Shaped, NEW p \in Process, TakeTurn(p) \/ CustomerFills(p)
    PROVE  Shaped'
  <1>. DEFINE F == Fields(run.node) \cup Stray
  <1>1. /\ flow \in Definition /\ key \in Nat /\ RunOK'
        /\ UNCHANGED <<flow, key>> /\ faults \in 0 .. MaxFaults
    BY SameRun DEF Shaped, TakeTurn, CustomerFills
  <1>2. F \subseteq Slugs
    BY <1>1, DefinitionFacts, StraySlugs DEF Shaped, RunOK
  <1>. HIDE DEF F
  <1>3. CASE TakeTurn(p)
    <2>1. PICK fill \in Fills(F) :
              /\ Fitting(fill)
              /\ Becomes(p, [NoProc EXCEPT !.pc = "submit", !.run = run,
                                           !.body = Body(Org, run, fill, TRUE)])
      BY <1>3 DEF TakeTurn, F
    <2>2. Posts(Body(Org, run, fill, TRUE))
      BY <1>2, <2>1, BodyPosts
    <2>3. DOMAIN Body(Org, run, fill, TRUE) = DOMAIN NoBody
      BY DEF Body, NoBody
    <2>. DEFINE s == [NoProc EXCEPT !.pc = "submit", !.run = run, !.body = Body(Org, run, fill, TRUE)]
    <2>4. /\ DOMAIN s = DOMAIN NoProc /\ s.pc = "submit" /\ s.body = Body(Org, run, fill, TRUE)
          /\ s.key = 0
      BY DEF NoProc
    <2>5. Becomes(p, s)
      BY <2>1
    <2>. HIDE DEF s
    <2>6. s.key \in Nat /\ s.key <= key
      BY <1>1, <2>4, NoKey
    <2>7. ProcOK(s)
      BY <1>1, <2>2, <2>3, <2>4, <2>6, TakenUpOK
    <2>8. faults' \in 0 .. MaxFaults
      BY <1>1, <2>1, FaultCounted DEF Fitting
    <2>. QED BY <1>1, <2>5, <2>7, <2>8, MovesOn
  <1>4. CASE CustomerFills(p)
    <2>. DEFINE Pc(fill) == IF DOMAIN fill = {} THEN "submit" ELSE "reread"
    <2>1. PICK fill \in Fills(F) : \E marked \in SUBSET (DOMAIN fill \cap Sensitive) :
              /\ Fitting(fill)
              /\ Becomes(p, [NoProc EXCEPT !.pc = Pc(fill), !.run = run,
                             !.body = [Body(UserOf[p], run, fill, FALSE) EXCEPT !.private = marked]])
      BY <1>4 DEF CustomerFills, F
    <2>2. PICK marked \in SUBSET (DOMAIN fill \cap Sensitive) :
              /\ Fitting(fill)
              /\ Becomes(p, [NoProc EXCEPT !.pc = Pc(fill), !.run = run,
                             !.body = [Body(UserOf[p], run, fill, FALSE) EXCEPT !.private = marked]])
      BY <2>1
    <2>. DEFINE b == [Body(UserOf[p], run, fill, FALSE) EXCEPT !.private = marked]
                c == Body(UserOf[p], run, fill, FALSE)
    <2>3. DOMAIN c.answers = DOMAIN fill /\ Posts(c)
      BY <1>2, BodyPosts
    <2>4. DOMAIN c = DOMAIN NoBody
      BY DEF Body, NoBody
    <2>5. DOMAIN b = DOMAIN NoBody /\ b.private = marked /\ b.answers = c.answers
      BY <2>4, NoProcFields
    <2>. HIDE DEF b, c
    <2>6. Posts(b)
      BY <2>3, <2>5 DEF Posts
    <2>7. Pc(fill) \in {"reread", "submit", "inputs", "pass"}
      OBVIOUS
    <2>. HIDE DEF Pc
    <2>. DEFINE s == [NoProc EXCEPT !.pc = Pc(fill), !.run = run, !.body = b]
    <2>8. /\ DOMAIN s = DOMAIN NoProc /\ s.pc = Pc(fill) /\ s.body = b /\ s.key = 0
      BY DEF NoProc
    <2>9. Becomes(p, s)
      BY <2>2 DEF b
    <2>. HIDE DEF s
    <2>10. s.key \in Nat /\ s.key <= key
      BY <1>1, <2>8, NoKey
    <2>11. ProcOK(s)
      BY <1>1, <2>5, <2>6, <2>7, <2>8, <2>10, TakenUpOK
    <2>12. faults' \in 0 .. MaxFaults
      BY <1>1, <2>2, FaultCounted DEF Fitting
    <2>. QED BY <1>1, <2>9, <2>11, <2>12, MovesOn
  <1>. QED BY <1>3, <1>4

\* A customer's submit that marks what is private.
LEMMA MarkShaped ==
    ASSUME Shaped, NEW p \in Process, CustomerMarks(p)
    PROVE  Shaped'
  <1>. DEFINE b == proc[p].body
              private == sourcePrivate(UserOf[p], run, DOMAIN b.answers)
              marked == [b EXCEPT !.private = @ \cup private]
              s == [proc[p] EXCEPT !.pc = "submit", !.run = run, !.body = marked]
  <1>1. /\ ProcOK(proc[p]) /\ proc[p].pc = "reread" /\ RunOK' /\ faults \in 0 .. MaxFaults
        /\ UNCHANGED <<flow, key, faults>>
    BY SameRun DEF Shaped, CustomerMarks, At
  <1>2. DOMAIN b = {"answers", "private", "leaf", "next"} /\ Posts(b)
    BY <1>1 DEF ProcOK
  <1>3. private \subseteq DOMAIN b.answers
    BY DEF sourcePrivate
  <1>4. /\ DOMAIN marked = DOMAIN b /\ marked.answers = b.answers
        /\ marked.private = b.private \cup private
    BY <1>2
  <1>5. Becomes(p, s)
    BY DEF CustomerMarks
  <1>. HIDE DEF b, private, marked
  <1>6. Posts(marked)
    BY <1>2, <1>3, <1>4 DEF Posts
  <1>7. ProcOK(s)
    BY <1>1, <1>2, <1>4, <1>6 DEF ProcOK
  <1>. QED BY <1>1, <1>5, <1>7, MovesOn

\* The run that answers posted by a process lead to.
LEMMA AdvancedOK ==
    ASSUME Shaped, NEW p \in Process, proc[p].pc = "submit", Takes(p),
           run' = Advanced(proc[p].body), flow' = flow
    PROVE  RunOK'
  <1>. DEFINE b == proc[p].body
  <1>1. Posts(b) /\ RunOK /\ flow \in Definition
    BY DEF Shaped, ProcOK
  <1>2. /\ DOMAIN b.answers \subseteq Slugs
        /\ b.leaf \/ b.next \in DOMAIN flow.party
    BY <1>1, DefinitionFacts DEF Takes, RunOK
  <1>3. /\ DOMAIN run' = {"status", "node", "answers", "private"}
        /\ run'.status \in {"awaiting", "generating", "done"}
        /\ run'.node \in DOMAIN flow.party
        /\ run'.answers = Over(b.answers, run.answers)
        /\ run'.private = run.private \cup b.private
    BY <1>1, <1>2 DEF Advanced, RunOK
  <1>. HIDE DEF b
  <1>4. /\ DOMAIN run'.answers = DOMAIN b.answers \cup DOMAIN run.answers
        /\ \A s \in DOMAIN run'.answers :
               run'.answers[s] = IF s \in DOMAIN b.answers THEN b.answers[s] ELSE run.answers[s]
    BY <1>3 DEF Over
  <1>. QED BY <1>1, <1>2, <1>3, <1>4 DEF RunOK, Posts, Slugs

\* The answers posted are taken, refused or lost.
LEMMA SubmitShaped ==
    ASSUME Shaped, NEW p \in Process, Submit(p)
    PROVE  Shaped'
  <1>. DEFINE b == proc[p].body
              moved == IF Takes(p) THEN Advanced(b) ELSE run
  <1>1. /\ proc[p].pc = "submit" /\ UNCHANGED <<flow, key>>
        /\ \/ /\ run' = moved
              /\ \/ /\ UNCHANGED faults
                    /\ IF Takes(p) THEN Becomes(p, AfterSubmit(p, moved)) ELSE Ends(p)
                 \/ Lost(p)
           \/ Lost(p) /\ UNCHANGED run
    BY DEF Submit, At
  <1>2. CASE UNCHANGED run /\ Lost(p)
    BY <1>1, <1>2, SameRun, LostShaped
  <1>3. CASE run' = moved
    <2>1. RunOK'
      BY <1>1, <1>3, AdvancedOK, SameRun
    <2>2. CASE Lost(p)
      BY <1>1, <2>1, <2>2, LostShaped
    <2>3. CASE UNCHANGED faults /\ Ends(p)
      BY <1>1, <2>1, <2>3, EndsShaped
    <2>4. CASE UNCHANGED faults /\ Becomes(p, AfterSubmit(p, moved))
      <3>1. ProcOK([NoProc EXCEPT !.pc = "inputs", !.run = moved])
        <4>. HIDE DEF moved
        <4>. DEFINE s == [NoProc EXCEPT !.pc = "inputs", !.run = moved]
        <4>1. /\ DOMAIN s = DOMAIN NoProc /\ s.pc = "inputs" /\ s.body = NoBody /\ s.key = 0
          BY DEF NoProc
        <4>. HIDE DEF s
        <4>2. s.key \in Nat /\ s.key <= key
          BY <4>1, NoKey DEF Shaped
        <4>3. ProcOK(s)
          BY <4>1, <4>2, NoProcFields, TakenUpOK
        <4>. QED BY <4>3 DEF s
      <3>2. ProcOK(NoProc)
        BY NoProcOK DEF Shaped
      <3>3. ProcOK(AfterSubmit(p, moved))
        BY <3>1, <3>2 DEF AfterSubmit
      <3>. QED BY <1>1, <2>1, <2>4, <3>3, MovesOn DEF Shaped
    <2>. QED BY <1>1, <1>3, <2>2, <2>3, <2>4
  <1>. QED BY <1>1, <1>2, <1>3

\* A generation is taken up, its inputs are uploaded, and it is posted.
LEMMA GenerationShaped ==
    ASSUME Shaped, NEW p \in Process, Regenerate(p) \/ UploadInput(p) \/ Generate(p) \/ Refresh(p)
    PROVE  Shaped'
  <1>1. /\ ProcOK(proc[p]) /\ key \in Nat /\ faults \in 0 .. MaxFaults /\ RunOK
        /\ flow \in Definition
    BY DEF Shaped
  <1>2. UNCHANGED <<flow, key>>
    BY DEF Regenerate, UploadInput, Generate, Refresh
  <1>3. CASE Regenerate(p)
    <2>. DEFINE s == [NoProc EXCEPT !.pc = "inputs", !.run = run]
    <2>1. /\ DOMAIN s = DOMAIN NoProc /\ s.pc = "inputs" /\ s.body = NoBody /\ s.key = 0
      BY DEF NoProc
    <2>2. Becomes(p, s) /\ UNCHANGED faults /\ RunOK'
      BY <1>3, SameRun DEF Regenerate
    <2>. HIDE DEF s
    <2>3. s.key \in Nat /\ s.key <= key
      BY <1>1, <2>1, NoKey
    <2>4. ProcOK(s)
      BY <2>1, <2>3, NoProcFields, TakenUpOK
    <2>. QED BY <1>1, <1>2, <2>2, <2>4, MovesOn
  <1>4. CASE UploadInput(p)
    <2>1. RunOK'
      BY <1>4, SameRun DEF UploadInput
    <2>2. PICK x : \/ Becomes(p, [proc[p] EXCEPT !.inputs = x]) /\ UNCHANGED faults
                   \/ Ends(p) /\ Fault
      <3>1. PICK d : \/ Becomes(p, [proc[p] EXCEPT !.inputs = @ \cup {d}]) /\ UNCHANGED faults
                     \/ Ends(p) /\ Fault
        BY <1>4 DEF UploadInput
      <3>2. [proc[p] EXCEPT !.inputs = @ \cup {d}] = [proc[p] EXCEPT !.inputs = proc[p].inputs \cup {d}]
        OBVIOUS
      <3>. QED BY <3>1, <3>2
    <2>3. CASE Ends(p) /\ Fault
      BY <1>2, <2>1, <2>3, EndsShaped
    <2>4. CASE Becomes(p, [proc[p] EXCEPT !.inputs = x]) /\ UNCHANGED faults
      <3>1. ProcOK([proc[p] EXCEPT !.inputs = x])
        BY <1>1 DEF ProcOK
      <3>. QED BY <1>1, <1>2, <2>1, <2>4, <3>1, MovesOn
    <2>. QED BY <2>2, <2>3, <2>4
  <1>5. CASE Generate(p)
    <2>1. RunOK'
      <3>1. UNCHANGED flow /\ (UNCHANGED run \/ run' = [run EXCEPT !.status = "done"])
        BY <1>5 DEF Generate
      <3>2. CASE run' = [run EXCEPT !.status = "done"]
        <4>1. /\ DOMAIN run' = DOMAIN run /\ run'.status = "done" /\ run'.node = run.node
              /\ run'.answers = run.answers /\ run'.private = run.private
          BY <1>1, <3>2 DEF RunOK
        <4>. QED BY <1>1, <3>1, <4>1 DEF RunOK, Slugs
      <3>. QED BY <3>1, <3>2, SameRun
    <2>2. \/ UNCHANGED faults /\ Becomes(p, [proc[p] EXCEPT !.pc = "refresh"])
          \/ UNCHANGED faults /\ Ends(p)
          \/ Lost(p)
      BY <1>5 DEF Generate
    <2>3. CASE UNCHANGED faults /\ Ends(p)
      BY <1>2, <2>1, <2>3, EndsShaped
    <2>4. CASE UNCHANGED faults /\ Becomes(p, [proc[p] EXCEPT !.pc = "refresh"])
      <3>1. ProcOK([proc[p] EXCEPT !.pc = "refresh"])
        BY <1>1 DEF ProcOK
      <3>. QED BY <1>1, <1>2, <2>1, <2>4, <3>1, MovesOn
    <2>. QED BY <1>2, <2>1, <2>2, <2>3, <2>4, LostShaped
  <1>6. CASE Refresh(p)
    <2>1. RunOK' /\ Ends(p) /\ UNCHANGED faults
      BY <1>6, SameRun DEF Refresh
    <2>. QED BY <1>2, <2>1, EndsShaped
  <1>. QED BY <1>3, <1>4, <1>5, <1>6

\* A plugin is asked.
LEMMA PluginShaped ==
    ASSUME Shaped, NEW p \in Process, AskPlugin(p) \/ FetchPass(p) \/ CallPlugin(p)
    PROVE  Shaped'
  <1>1. ProcOK(proc[p]) /\ key \in Nat /\ faults \in 0 .. MaxFaults
    BY DEF Shaped
  <1>2. UNCHANGED <<flow, key>> /\ RunOK'
    BY SameRun DEF AskPlugin, FetchPass, CallPlugin
  <1>3. CASE AskPlugin(p)
    <2>1. PICK slug, sent :
            Becomes(p, [NoProc EXCEPT !.pc = "pass", !.slug = slug, !.sends = sent])
      BY <1>3 DEF AskPlugin
    <2>. DEFINE s == [NoProc EXCEPT !.pc = "pass", !.slug = slug, !.sends = sent]
    <2>2. /\ DOMAIN s = DOMAIN NoProc /\ s.pc = "pass" /\ s.body = NoBody /\ s.key = 0
      BY DEF NoProc
    <2>3. Becomes(p, s) /\ UNCHANGED faults
      BY <1>3, <2>1 DEF AskPlugin
    <2>. HIDE DEF s
    <2>4. s.key \in Nat /\ s.key <= key
      BY <1>1, <2>2, NoKey
    <2>5. ProcOK(s)
      BY <2>2, <2>4, NoProcFields, TakenUpOK
    <2>. QED BY <1>1, <1>2, <2>3, <2>5, MovesOn
  <1>4. CASE FetchPass(p)
    <2>1. UNCHANGED faults
      BY <1>4 DEF FetchPass
    <2>2. \/ Becomes(p, [proc[p] EXCEPT !.pc = "call", !.key = key])
          \/ Ends(p)
      BY <1>4 DEF FetchPass
    <2>3. CASE Ends(p)
      BY <1>2, <2>1, <2>3, EndsShaped
    <2>4. CASE Becomes(p, [proc[p] EXCEPT !.pc = "call", !.key = key])
      <3>. DEFINE s == [proc[p] EXCEPT !.pc = "call", !.key = key]
      <3>1. /\ DOMAIN s = DOMAIN proc[p] /\ s.body = proc[p].body /\ s.pc = "call"
            /\ s.key = key
        BY <1>1 DEF ProcOK
      <3>2. Becomes(p, s)
        BY <2>4
      <3>. HIDE DEF s
      <3>3. s.key \in Nat /\ s.key <= key
        BY <1>1, <3>1
      <3>4. ProcOK(s)
        BY <1>1, <3>1, <3>3 DEF ProcOK
      <3>. QED BY <1>1, <1>2, <2>1, <3>2, <3>4, MovesOn
    <2>. QED BY <2>2, <2>3, <2>4
  <1>5. CASE CallPlugin(p)
    <2>1. /\ Fault \/ UNCHANGED faults
          /\ \/ Ends(p)
             \/ Becomes(p, [proc[p] EXCEPT !.key = key, !.resealed = TRUE])
             \/ Becomes(p, [proc[p] EXCEPT !.key = key, !.renewed = TRUE])
      BY <1>5 DEF CallPlugin
    <2>2. CASE Ends(p)
      BY <1>2, <2>1, <2>2, EndsShaped
    <2>3. ProcOK([proc[p] EXCEPT !.key = key, !.resealed = TRUE])
      BY <1>1, SameCallOK
    <2>4. ProcOK([proc[p] EXCEPT !.key = key, !.renewed = TRUE])
      BY <1>1, SameCallOK
    <2>5. faults' \in 0 .. MaxFaults
      BY <1>1, <2>1, FaultCounted
    <2>. QED BY <1>2, <2>1, <2>2, <2>3, <2>4, <2>5, MovesOn
  <1>. QED BY <1>3, <1>4, <1>5

\* The plugin gets a new key.
LEMMA RotateShaped ==
    ASSUME Shaped, RotatePlugin
    PROVE  Shaped'
  <1>1. /\ UNCHANGED <<flow, run, proc>> /\ key \in Nat /\ key' = key + 1
        /\ RunOK' /\ faults' \in 0 .. MaxFaults
    BY SameRun, FaultCounted DEF Shaped, RotatePlugin
  <1>2. \A p \in Process : ProcOK(proc[p])'
    <2>. TAKE p \in Process
    <2>1. ProcOK(proc[p])
      BY DEF Shaped
    <2>2. proc[p].key <= key' /\ proc[p].key \in Nat
      <3>1. proc[p].key \in Nat /\ proc[p].key <= key
        BY <2>1 DEF ProcOK
      <3>2. \A a, b \in Nat : a <= b => a <= b + 1
        OBVIOUS
      <3>. QED BY <1>1, <3>1, <3>2
    <2>. QED BY <1>1, <2>1, <2>2 DEF ProcOK
  <1>. QED BY <1>1, <1>2 DEF Shaped

\* No step of any process takes the shape away.
LEMMA ShapedStep == Shaped /\ [Next]_vars => Shaped'
  <1>. SUFFICES ASSUME Shaped, [Next]_vars PROVE Shaped'
    OBVIOUS
  <1>1. CASE UNCHANGED vars
    BY <1>1 DEF vars, Shaped, RunOK, ProcOK, Slugs
  <1>2. CASE RotatePlugin
    BY <1>2, RotateShaped
  <1>3. ASSUME NEW p \in Process,
               Drive(p) \/ Call(p) \/ Crash(p) \/ AskPlugin(p)
        PROVE  Shaped'
    <2>1. CASE Drive(p)
      BY <2>1, FillShaped, GenerationShaped DEF Drive
    <2>2. CASE Call(p)
      BY <2>2, MarkShaped, SubmitShaped, GenerationShaped, PluginShaped DEF Call
    <2>3. CASE Crash(p)
      <3>1. RunOK' /\ UNCHANGED <<flow, key>> /\ Ends(p) /\ Fault
        BY <2>3, SameRun DEF Crash
      <3>. QED BY <3>1, EndsShaped
    <2>4. CASE AskPlugin(p)
      BY <2>4, PluginShaped
    <2>. QED BY <1>3, <2>1, <2>2, <2>3, <2>4
  <1>. QED BY <1>1, <1>2, <1>3 DEF Next

\* A well-shaped state has the types that are checked.
LEMMA ShapedTypes == Shaped => TypeOK
  <1>. SUFFICES ASSUME Shaped PROVE TypeOK
    OBVIOUS
  <1>1. ASSUME NEW p \in Process PROVE proc[p].body.private \subseteq DOMAIN proc[p].body.answers
    BY DEF Shaped, ProcOK, Posts
  <1>2. ASSUME NEW s \in Slugs, NEW t \in Text(s) PROVE t.text
    <2>1. PICK v \in FillOf[s] : t = flowPlain(v)
      BY <1>2 DEF Text
    <2>2. v = [is |-> v.is, text |-> v.text, n |-> v.n, items |-> v.items]
      BY FillAssumption DEF Slugs, Value
    <2>. QED BY <2>1, <2>2 DEF flowPlain
  <1>3. \A s \in DOMAIN run.answers : run.answers[s].v.text
    BY <1>2 DEF Shaped, RunOK
  <1>. QED BY <1>1, <1>3 DEF Shaped, RunOK, ProcOK, TypeOK

\* Every state has the types of TypeOK: what is stored are texts under slugs the definition
\* has, nothing is marked private, in the run or in what a process posts, that is not
\* answered with it, and no process holds a key the plugin never had.
THEOREM TypeCorrect == Spec => []TypeOK
  <1>1. Spec => []Shaped
    BY ShapedInit, ShapedStep, PTL DEF Spec
  <1>. QED BY <1>1, ShapedTypes, PTL

-----------------------------------------------------------------------------
(* Documents.                                                               *)

\* How the documents go with the run.
DocsOK ==
    /\ run.status \in {"awaiting", "generating"} => docs = {}
    /\ run.status = "generating" => flow.mode = "document"
    /\ run.status = "done" => docs = IF flow.mode = "document" THEN {Opened(run)} ELSE {}

\* A process that is about to generate holds every answer there is, and no more are taken.
WholeRun(r, s) ==
    s.pc = "inputs" => r.status \in {"generating", "done"} /\ s.run.answers = r.answers

\* Why a document is generated once, and from the whole run.
GeneratesWhole == DocsOK /\ \A p \in Process : WholeRun(run, proc[p])

\* Nothing is generated at first.
LEMMA GeneratesInit == Init => GeneratesWhole
  <1>. SUFFICES ASSUME Init PROVE GeneratesWhole
    OBVIOUS
  <1>1. \A p \in Process : proc[p].pc = "idle"
    BY NoProcFields DEF Init
  <1>2. run.status = "awaiting" /\ docs = {}
    BY DEF Init
  <1>. QED BY <1>1, <1>2 DEF GeneratesWhole, DocsOK, WholeRun

\* One process moves on, while the answers stay or nobody was about to generate.
LEMMA GeneratesMove ==
    ASSUME Shaped, GeneratesWhole, NEW p \in Process, NEW s, Becomes(p, s), WholeRun(run', s), DocsOK',
           \/ run.status = "awaiting"
           \/ /\ run'.answers = run.answers
              /\ run.status \in {"generating", "done"} => run'.status \in {"generating", "done"}
    PROVE  GeneratesWhole'
  <1>1. \A q \in Process : proc'[q] = IF q = p THEN s ELSE proc[q]
    BY DEF Shaped, Becomes
  <1>2. ASSUME NEW q \in Process PROVE WholeRun(run', proc'[q])
    <2>1. WholeRun(run, proc[q])
      BY DEF GeneratesWhole
    <2>2. CASE q = p
      BY <1>1, <2>2 DEF WholeRun
    <2>3. CASE q # p
      <3>1. proc'[q] = proc[q]
        BY <1>1, <2>3
      <3>2. CASE run.status = "awaiting"
        BY <2>1, <3>1, <3>2 DEF WholeRun
      <3>3. CASE /\ run'.answers = run.answers
                 /\ run.status \in {"generating", "done"} => run'.status \in {"generating", "done"}
        <4>. SUFFICES ASSUME proc[q].pc = "inputs"
                      PROVE  run'.status \in {"generating", "done"} /\ proc[q].run.answers = run'.answers
          BY <3>1 DEF WholeRun
        <4>. QED BY <2>1, <3>3 DEF WholeRun
      <3>. QED BY <3>2, <3>3
    <2>. QED BY <2>2, <2>3
  <1>. QED BY <1>2 DEF GeneratesWhole

\* One that does not generate moves on, and the run is left alone.
LEMMA GeneratesElse ==
    ASSUME Shaped, GeneratesWhole, NEW p \in Process, NEW s, Becomes(p, s), s.pc # "inputs",
           UNCHANGED <<flow, run, docs>>
    PROVE  GeneratesWhole'
  <1>1. WholeRun(run', s)
    BY DEF WholeRun
  <1>2. DocsOK'
    BY DEF GeneratesWhole, DocsOK, Opened
  <1>. QED BY <1>1, <1>2, GeneratesMove DEF Shaped, RunOK

\* A request that is lost ends its call, or is sent once more.
LEMMA LostPc ==
    ASSUME Shaped, NEW p \in Process, Lost(p)
    PROVE  \E s : /\ Becomes(p, s)
                  /\ \/ s.pc = "idle"
                     \/ s.pc = proc[p].pc /\ s.run = proc[p].run /\ s.body = proc[p].body
  <1>1. CASE Ends(p)
    BY <1>1, NoProcFields DEF Ends
  <1>2. CASE Becomes(p, [proc[p] EXCEPT !.resent = TRUE])
    <2>. DEFINE s == [proc[p] EXCEPT !.resent = TRUE]
    <2>1. s.pc = proc[p].pc /\ s.run = proc[p].run /\ s.body = proc[p].body /\ Becomes(p, s)
      BY <1>2 DEF Shaped, ProcOK
    <2>. HIDE DEF s
    <2>. QED BY <2>1
  <1>. QED BY <1>1, <1>2 DEF Lost

\* A call that ends is not about to generate.
LEMMA EndsPc ==
    ASSUME NEW p, Ends(p)
    PROVE  \E s : Becomes(p, s) /\ s.pc = "idle"
  BY NoProcFields DEF Ends

\* What is posted is taken while the run awaits it, and the leaf's process goes on with it.
LEMMA GeneratesSubmit ==
    ASSUME Shaped, GeneratesWhole, NEW p \in Process, Submit(p)
    PROVE  GeneratesWhole'
  <1>. DEFINE b == proc[p].body
              moved == IF Takes(p) THEN Advanced(b) ELSE run
  <1>1. /\ proc[p].pc = "submit" /\ UNCHANGED <<flow, docs>>
        /\ \/ /\ run' = moved
              /\ \/ IF Takes(p) THEN Becomes(p, AfterSubmit(p, moved)) ELSE Ends(p)
                 \/ Lost(p)
           \/ Lost(p) /\ UNCHANGED run
    BY DEF Submit, At
  <1>2. CASE UNCHANGED run
    <2>1. \/ \E s : Becomes(p, s) /\ s.pc # "inputs"
          \/ Takes(p) /\ Becomes(p, AfterSubmit(p, moved)) /\ run' = moved
      BY <1>1, LostPc, EndsPc
    <2>2. CASE \E s : Becomes(p, s) /\ s.pc # "inputs"
      BY <1>1, <1>2, <2>2, GeneratesElse
    <2>3. CASE Takes(p) /\ Becomes(p, AfterSubmit(p, moved)) /\ run' = moved
      <3>1. moved = run /\ run.status = "awaiting" /\ moved = Advanced(b)
        BY <1>2, <2>3 DEF Takes, Turn
      <3>2. moved.status = "awaiting" => ~ b.leaf
        BY <3>1 DEF Advanced
      <3>3. AfterSubmit(p, moved).pc # "inputs"
        BY <3>1, <3>2, NoProcFields DEF AfterSubmit
      <3>. QED BY <1>1, <1>2, <2>3, <3>3, GeneratesElse
    <2>. QED BY <2>1, <2>2, <2>3
  <1>3. CASE Takes(p) /\ run' = Advanced(b)
    <2>1. run.status = "awaiting" /\ docs = {}
      BY <1>3 DEF Takes, Turn, GeneratesWhole, DocsOK
    <2>2. run'.status = IF ~ b.leaf THEN "awaiting"
                        ELSE IF flow.mode = "document" THEN "generating" ELSE "done"
      BY <1>3 DEF Advanced
    <2>3. DocsOK'
      BY <1>1, <2>1, <2>2 DEF DocsOK
    <2>4. \/ \E s : Becomes(p, s) /\ s.pc # "inputs"
          \/ Becomes(p, AfterSubmit(p, run'))
      BY <1>1, <1>3, LostPc
    <2>5. CASE \E s : Becomes(p, s) /\ s.pc # "inputs"
      BY <2>1, <2>3, <2>5, GeneratesMove DEF WholeRun
    <2>6. CASE Becomes(p, AfterSubmit(p, run'))
      <3>. DEFINE s == AfterSubmit(p, run')
      <3>1. CASE b.leaf /\ flow.mode = "document"
        <4>1. run'.status = "generating"
          BY <2>2, <3>1
        <4>2. s.pc # "inputs" \/ s.run = run'
          BY NoProcFields DEF AfterSubmit, NoProc
        <4>3. WholeRun(run', s)
          BY <4>1, <4>2 DEF WholeRun
        <4>. QED BY <2>1, <2>3, <2>6, <4>3, GeneratesMove
      <3>2. CASE ~ (b.leaf /\ flow.mode = "document")
        <4>1. s.pc = "idle"
          BY <3>2, NoProcFields DEF AfterSubmit
        <4>2. WholeRun(run', s)
          BY <4>1 DEF WholeRun
        <4>. QED BY <2>1, <2>3, <2>6, <4>2, GeneratesMove
      <3>. QED BY <3>1, <3>2
    <2>. QED BY <2>4, <2>5, <2>6
  <1>. QED BY <1>1, <1>2, <1>3

\* The document is generated from what its process holds, which is the whole run.
LEMMA GeneratesGenerate ==
    ASSUME Shaped, GeneratesWhole, NEW p \in Process, Generate(p)
    PROVE  GeneratesWhole'
  <1>1. proc[p].pc = "inputs" /\ UNCHANGED flow
    BY DEF Generate, At
  <1>2. /\ run.status \in {"generating", "done"} /\ proc[p].run.answers = run.answers
        /\ DocsOK /\ RunOK
    BY <1>1 DEF GeneratesWhole, WholeRun, Shaped
  <1>3. \E s : Becomes(p, s) /\ (s.pc = "inputs" => s.run = proc[p].run)
    <2>1. \/ Becomes(p, [proc[p] EXCEPT !.pc = "refresh"])
          \/ Ends(p)
          \/ Lost(p)
      BY DEF Generate
    <2>2. CASE Becomes(p, [proc[p] EXCEPT !.pc = "refresh"])
      <3>. DEFINE s == [proc[p] EXCEPT !.pc = "refresh"]
      <3>1. s.pc = "refresh" /\ Becomes(p, s)
        BY <2>2 DEF Shaped, ProcOK
      <3>. HIDE DEF s
      <3>. QED BY <3>1
    <2>3. CASE Lost(p)
      BY <1>1, <2>3, LostPc
    <2>4. CASE Ends(p)
      BY <2>4, EndsPc
    <2>. QED BY <2>1, <2>2, <2>3, <2>4
  <1>4. PICK s : Becomes(p, s) /\ (s.pc = "inputs" => s.run = proc[p].run)
    BY <1>3
  <1>5. CASE UNCHANGED <<run, docs>>
    <2>1. DocsOK'
      BY <1>1, <1>2, <1>5 DEF DocsOK, Opened
    <2>2. WholeRun(run', s)
      BY <1>2, <1>4, <1>5 DEF WholeRun
    <2>. QED BY <1>4, <1>5, <2>1, <2>2, GeneratesMove
  <1>6. CASE /\ Generates(p) /\ run' = [run EXCEPT !.status = "done"]
             /\ docs' = docs \cup {Opened(proc[p].run)}
    <2>1. run'.status = "done" /\ run'.answers = run.answers
      BY <1>2, <1>6 DEF RunOK
    <2>2. docs = {} /\ flow.mode = "document"
      BY <1>2, <1>6 DEF Generates, DocsOK
    <2>3. Opened(proc[p].run) = Opened(run')
      BY <1>2, <2>1 DEF Opened
    <2>4. docs' = {Opened(run)'}
      BY <1>6, <2>2, <2>3 DEF Opened
    <2>5. DocsOK'
      BY <1>1, <2>1, <2>2, <2>4 DEF DocsOK
    <2>6. WholeRun(run', s)
      BY <1>2, <1>4, <2>1 DEF WholeRun
    <2>. QED BY <1>4, <2>1, <2>5, <2>6, GeneratesMove
  <1>. QED BY <1>5, <1>6 DEF Generate

\* No step takes from a document what the run holds.
LEMMA GeneratesStep == Shaped /\ GeneratesWhole /\ [Next]_vars => GeneratesWhole'
  <1>. SUFFICES ASSUME Shaped, GeneratesWhole, [Next]_vars PROVE GeneratesWhole'
    OBVIOUS
  <1>1. CASE UNCHANGED vars
    BY <1>1 DEF vars, GeneratesWhole, DocsOK, WholeRun, Opened
  <1>2. CASE RotatePlugin
    BY <1>2 DEF RotatePlugin, GeneratesWhole, DocsOK, WholeRun, Opened
  <1>3. ASSUME NEW p \in Process, NEW s, Becomes(p, s), s.pc # "inputs", UNCHANGED <<flow, run, docs>>
        PROVE  GeneratesWhole'
    BY <1>3, GeneratesElse
  <1>4. ASSUME NEW p \in Process, Ends(p), UNCHANGED <<flow, run, docs>>
        PROVE  GeneratesWhole'
    BY <1>3, <1>4, EndsPc
  <1>5. ASSUME NEW p \in Process, Regenerate(p) \/ UploadInput(p)
        PROVE  GeneratesWhole'
    <2>1. DocsOK'
      BY <1>5 DEF Regenerate, UploadInput, GeneratesWhole, DocsOK, Opened
    <2>2. UNCHANGED <<flow, run, docs>>
      BY <1>5 DEF Regenerate, UploadInput
    <2>3. CASE Regenerate(p)
      <3>. DEFINE s == [NoProc EXCEPT !.pc = "inputs", !.run = run]
      <3>1. s.run = run /\ run.status = "generating" /\ Becomes(p, s)
        BY <2>3 DEF NoProc, Regenerate
      <3>. HIDE DEF s
      <3>2. WholeRun(run', s)
        BY <2>2, <3>1 DEF WholeRun
      <3>. QED BY <2>1, <2>2, <3>1, <3>2, GeneratesMove
    <2>4. CASE UploadInput(p)
      <3>1. CASE Ends(p)
        BY <1>4, <2>2, <3>1
      <3>2. ASSUME NEW d, Becomes(p, [proc[p] EXCEPT !.inputs = @ \cup {d}]) PROVE GeneratesWhole'
        <4>. DEFINE s == [proc[p] EXCEPT !.inputs = @ \cup {d}]
        <4>1. s.pc = proc[p].pc /\ s.run = proc[p].run /\ Becomes(p, s)
          BY <3>2 DEF Shaped, ProcOK
        <4>. HIDE DEF s
        <4>2. WholeRun(run', s)
          BY <2>2, <4>1 DEF WholeRun, GeneratesWhole
        <4>. QED BY <2>1, <2>2, <4>1, <4>2, GeneratesMove
      <3>. QED BY <2>4, <3>1, <3>2 DEF UploadInput
    <2>. QED BY <1>5, <2>3, <2>4
  <1>6. ASSUME NEW p \in Process, TakeTurn(p) \/ CustomerFills(p) \/ CustomerMarks(p)
        PROVE  GeneratesWhole'
    <2>1. UNCHANGED <<flow, run, docs>>
      BY <1>6 DEF TakeTurn, CustomerFills, CustomerMarks
    <2>2. ASSUME NEW b, NEW pc, pc # "inputs",
                 Becomes(p, [NoProc EXCEPT !.pc = pc, !.run = run, !.body = b])
          PROVE  GeneratesWhole'
      <3>. DEFINE s == [NoProc EXCEPT !.pc = pc, !.run = run, !.body = b]
      <3>1. s.pc = pc /\ Becomes(p, s)
        BY <2>2 DEF NoProc
      <3>. HIDE DEF s
      <3>. QED BY <1>3, <2>1, <2>2, <3>1
    <2>3. ASSUME NEW fill, NEW b,
                 Becomes(p, [NoProc EXCEPT !.pc = IF DOMAIN fill = {} THEN "submit" ELSE "reread",
                                           !.run = run, !.body = b])
          PROVE  GeneratesWhole'
      BY <2>2, <2>3
    <2>4. ASSUME NEW b, Becomes(p, [proc[p] EXCEPT !.pc = "submit", !.run = run, !.body = b])
          PROVE  GeneratesWhole'
      <3>. DEFINE s == [proc[p] EXCEPT !.pc = "submit", !.run = run, !.body = b]
      <3>1. s.pc = "submit" /\ Becomes(p, s)
        BY <2>4 DEF Shaped, ProcOK
      <3>. HIDE DEF s
      <3>. QED BY <1>3, <2>1, <3>1
    <2>5. CASE TakeTurn(p)
      BY <2>2, <2>5 DEF TakeTurn
    <2>6. CASE CustomerFills(p)
      BY <2>3, <2>6 DEF CustomerFills
    <2>7. CASE CustomerMarks(p)
      BY <2>4, <2>7 DEF CustomerMarks
    <2>. QED BY <1>6, <2>5, <2>6, <2>7
  <1>7. ASSUME NEW p \in Process, AskPlugin(p) \/ FetchPass(p) \/ CallPlugin(p)
        PROVE  GeneratesWhole'
    <2>1. UNCHANGED <<flow, run, docs>>
      BY <1>7 DEF AskPlugin, FetchPass, CallPlugin
    <2>2. ASSUME NEW x, NEW y,
                 Becomes(p, [NoProc EXCEPT !.pc = "pass", !.slug = x, !.sends = y])
          PROVE  GeneratesWhole'
      <3>. DEFINE s == [NoProc EXCEPT !.pc = "pass", !.slug = x, !.sends = y]
      <3>1. s.pc = "pass" /\ Becomes(p, s)
        BY <2>2 DEF NoProc
      <3>. HIDE DEF s
      <3>. QED BY <1>3, <2>1, <3>1
    <2>3. ASSUME Becomes(p, [proc[p] EXCEPT !.pc = "call", !.key = key])
          PROVE  GeneratesWhole'
      <3>. DEFINE s == [proc[p] EXCEPT !.pc = "call", !.key = key]
      <3>1. s.pc = "call" /\ Becomes(p, s)
        BY <2>3 DEF Shaped, ProcOK
      <3>. HIDE DEF s
      <3>. QED BY <1>3, <2>1, <3>1
    <2>4. CASE AskPlugin(p)
      BY <2>2, <2>4 DEF AskPlugin
    <2>5. CASE FetchPass(p)
      BY <1>4, <2>1, <2>3, <2>5 DEF FetchPass
    <2>6. CASE CallPlugin(p)
      <3>1. CASE Becomes(p, [proc[p] EXCEPT !.key = key, !.resealed = TRUE])
        <4>. DEFINE s == [proc[p] EXCEPT !.key = key, !.resealed = TRUE]
        <4>1. s.pc = "call" /\ Becomes(p, s)
          BY <2>6, <3>1 DEF Shaped, ProcOK, CallPlugin, At
        <4>. HIDE DEF s
        <4>. QED BY <1>3, <2>1, <4>1
      <3>2. CASE Becomes(p, [proc[p] EXCEPT !.key = key, !.renewed = TRUE])
        <4>. DEFINE s == [proc[p] EXCEPT !.key = key, !.renewed = TRUE]
        <4>1. s.pc = "call" /\ Becomes(p, s)
          BY <2>6, <3>2 DEF Shaped, ProcOK, CallPlugin, At
        <4>. HIDE DEF s
        <4>. QED BY <1>3, <2>1, <4>1
      <3>3. CASE Ends(p)
        BY <1>4, <2>1, <3>3
      <3>. QED BY <2>6, <3>1, <3>2, <3>3 DEF CallPlugin
    <2>. QED BY <1>7, <2>4, <2>5, <2>6
  <1>8. ASSUME NEW p \in Process, Crash(p) \/ Refresh(p)
        PROVE  GeneratesWhole'
    <2>1. UNCHANGED <<flow, run, docs>>
      BY <1>8 DEF Crash, Refresh
    <2>. QED BY <1>4, <1>8, <2>1 DEF Crash, Refresh
  <1>. QED BY <1>1, <1>2, <1>5, <1>6, <1>7, <1>8, GeneratesSubmit, GeneratesGenerate
           DEF Next, Drive, Call

\* Whatever crashes, is lost or sent twice, a document is generated at most once, by a run
\* that asks for one and no other, and from every answer of the run.
THEOREM GeneratedWhole == Spec => []GeneratedFromWholeRun
  <1>1. Spec => [](Shaped /\ GeneratesWhole)
    <2>1. Init => Shaped /\ GeneratesWhole
      BY ShapedInit, GeneratesInit
    <2>2. (Shaped /\ GeneratesWhole) /\ [Next]_vars => (Shaped /\ GeneratesWhole)'
      BY ShapedStep, GeneratesStep
    <2>. QED BY <2>1, <2>2, PTL DEF Spec
  <1>2. Shaped /\ GeneratesWhole => GeneratedFromWholeRun
    BY DEF Shaped, RunOK, GeneratesWhole, DocsOK, GeneratedFromWholeRun
  <1>. QED BY <1>1, <1>2, PTL

-----------------------------------------------------------------------------
(* Privacy.                                                                 *)

\* Where a step stands in the definition of the run.
Rank == CHOOSE rank \in [DOMAIN flow.party -> 0 .. Cardinality(DOMAIN flow.party)] :
            LeadsOn(flow, rank)
Before(m, n) == Rank[m] < Rank[n]
UpTo(m, n) == Rank[m] <= Rank[n]

\* Of what is filled in, what its party may mark private, or must.
MayMark(user, r, given) == (Sensitive \cap given) \cup sourcePrivate(user, r, given)

\* A copy of the run is the run as it is, or is of a step that has been answered.
AsOf(r, s) ==
    /\ s.node \in DOMAIN flow.party
    /\ s = r \/ Before(s.node, r.node) \/ (s.node = r.node /\ r.status # "awaiting")

\* What has been answered since a copy was read is all that may have turned private.
Since(r, c) ==
    DOMAIN c.answers \subseteq DOMAIN r.answers /\ r.private \cap DOMAIN c.answers \subseteq c.private

\* The answers of the run are those of the steps before.
Placed(r) ==
    \A s \in DOMAIN r.answers : \E n \in DOMAIN flow.party :
        s \in Fields(n) /\ (Before(n, r.node) \/ (n = r.node /\ r.status # "awaiting"))

\* What may come from a private one is marked, as PrivateStaysPrivate says it.
Along(r) ==
    \A n \in DOMAIN flow.party : \A s \in Fields(n) \cap DOMAIN r.answers :
        KeptBehind(r, n, s) \subseteq Fields(n) \cap Sensitive \/ s \in r.private

\* What a plugin was sent came from a stored answer its user did not have to keep.
Safe(r, t) == t.slug \in DOMAIN r.answers /\ t.slug \notin Hidden(t.by, r)

\* What is posted: answers of a step, of which those that the copy of the run tells to be
\* private are marked, and of the others some that may be.
Marked(user, s) ==
    LET given == DOMAIN s.body.answers
    IN  \E n \in DOMAIN flow.party :
            /\ given \subseteq Fields(n) \cup Stray /\ UpTo(n, s.run.node)
            /\ sourcePrivate(user, s.run, given) \subseteq s.body.private
            /\ s.body.private \subseteq MayMark(user, s.run, given)

\* What a customer has marked of a step it filled in.
Chosen(r, b) ==
    \E n \in DOMAIN flow.party :
        /\ DOMAIN b.answers \subseteq Fields(n) \cup Stray /\ UpTo(n, r.node)
        /\ b.private \subseteq Sensitive \cap DOMAIN b.answers

\* What a process of a user holds.
Knows(r, user, s) ==
    /\ s.pc = "reread" => Chosen(r, s.body)
    /\ s.pc = "submit" => AsOf(r, s.run) /\ Marked(user, s)
    /\ s.pc \in {"pass", "call"} => \A slug \in s.sends : Safe(r, [by |-> user, slug |-> slug])

\* Why nothing private is told.
KeptPrivate ==
    /\ Placed(run) /\ Along(run)
    /\ \A t \in told : Safe(run, t)
    /\ \A p \in Process : Knows(run, UserOf[p], proc[p])

\* The ranks order the steps, and go along with edges and defaults.
LEMMA Order ==
    ASSUME Forward, flow \in Definition
    PROVE  /\ \A m \in DOMAIN flow.party : UpTo(m, m)
           /\ \A m, n \in DOMAIN flow.party : Before(m, n) => UpTo(m, n) /\ ~ UpTo(n, m)
           /\ \A m, n, o \in DOMAIN flow.party : Before(m, n) /\ UpTo(n, o) => Before(m, o)
           /\ \A m, n, o \in DOMAIN flow.party : UpTo(m, n) /\ Before(n, o) => Before(m, o)
           /\ \A m, n, o \in DOMAIN flow.party : UpTo(m, n) /\ UpTo(n, o) => UpTo(m, o)
           /\ \A i \in DOMAIN flow.edges : Before(flow.edges[i].from, flow.edges[i].to)
           /\ \A m, n \in DOMAIN flow.party : \A s \in Fields(n) :
                  Behind(n, {s}, s) \cap Fields(m) # {} => UpTo(m, n)
  <1>1. Rank \in [DOMAIN flow.party -> 0 .. Cardinality(DOMAIN flow.party)] /\ LeadsOn(flow, Rank)
    <2>1. \E rank \in [DOMAIN flow.party -> 0 .. Cardinality(DOMAIN flow.party)] : LeadsOn(flow, rank)
      BY DEF Forward
    <2>. QED BY <2>1 DEF Rank
  <1>. HIDE DEF Rank
  <1>2. \A n \in DOMAIN flow.party : Rank[n] \in Int
    BY <1>1
  <1>3. /\ \A i \in DOMAIN flow.edges : Rank[flow.edges[i].from] < Rank[flow.edges[i].to]
        /\ \A m, n \in DOMAIN flow.party : \A s \in Fields(n) :
               Behind(n, {s}, s) \cap Fields(m) # {} => Rank[m] <= Rank[n]
    <2>1. \A n \in DOMAIN flow.party : \A s \in Fields(n) : s \in Slugs /\ BaseOf[s] = s
      BY DefinitionFacts, KeyAssumption DEF Slugs
    <2>2. \A n \in DOMAIN flow.party : \A s \in Fields(n) :
              Behind(n, {s}, s) = Reach(Feeds(flow, n, {s}), s)
      BY <2>1 DEF Behind
    <2>. QED BY <1>1, <2>2 DEF LeadsOn, Fields
  <1>4. /\ \A m \in DOMAIN flow.party : UpTo(m, m)
        /\ \A m, n \in DOMAIN flow.party : Before(m, n) => UpTo(m, n) /\ ~ UpTo(n, m)
        /\ \A m, n, o \in DOMAIN flow.party : Before(m, n) /\ UpTo(n, o) => Before(m, o)
        /\ \A m, n, o \in DOMAIN flow.party : UpTo(m, n) /\ Before(n, o) => Before(m, o)
        /\ \A m, n, o \in DOMAIN flow.party : UpTo(m, n) /\ UpTo(n, o) => UpTo(m, o)
    BY <1>2 DEF Before, UpTo
  <1>. QED BY <1>3, <1>4 DEF Before, UpTo

\* What a key leads to: the least set with the key that nothing leads out of.
LEMMA ReachFacts ==
    ASSUME NEW step, \A x \in DOMAIN step : step[x] \subseteq DOMAIN step, NEW k \in DOMAIN step
    PROVE  /\ k \in Reach(step, k) /\ Reach(step, k) \subseteq DOMAIN step
           /\ \A x \in Reach(step, k) : step[x] \subseteq Reach(step, k)
           /\ \A T : k \in T /\ (\A x \in T \cap DOMAIN step : step[x] \subseteq T) => Reach(step, k) \subseteq T
  <1>. DEFINE leading == {x \in DOMAIN step : step[x] # {}}
              Closed(S) == /\ k \in leading => k \in S
                           /\ \A x \in S : step[x] \cap leading \subseteq S
              inner == {y \in leading : \A S \in SUBSET leading : Closed(S) => y \in S}
  <1>1. Reach(step, k) = {k} \cup UNION {step[x] : x \in inner}
    BY DEF Reach
  <1>2. inner \subseteq leading /\ leading \subseteq DOMAIN step
    OBVIOUS
  <1>3. k \in leading => k \in inner
    OBVIOUS
  <1>4. ASSUME NEW x \in inner, NEW y \in step[x], y \in leading PROVE y \in inner
    BY <1>4
  <1>5. ASSUME NEW x \in Reach(step, k), x \in leading PROVE x \in inner
    <2>1. CASE x = k
      BY <1>3, <1>5, <2>1
    <2>2. CASE x # k
      <3>. HIDE DEF inner
      <3>1. PICK y \in inner : x \in step[y]
        BY <1>1, <1>5, <2>2
      <3>. QED BY <1>4, <1>5, <3>1
    <2>. QED BY <2>1, <2>2
  <1>6. ASSUME NEW T, k \in T, \A x \in T \cap DOMAIN step : step[x] \subseteq T
        PROVE  Reach(step, k) \subseteq T
    <2>. DEFINE S == T \cap leading
    <2>1. S \in SUBSET leading /\ Closed(S)
      BY <1>2, <1>6
    <2>2. inner \subseteq S
      BY <2>1
    <2>3. \A x \in inner : step[x] \subseteq T
      BY <1>2, <1>6, <2>2
    <2>. QED BY <1>1, <1>6, <2>3
  <1>7. Reach(step, k) \subseteq DOMAIN step
    <2>. HIDE DEF inner
    <2>. QED BY <1>1, <1>2
  <1>8. ASSUME NEW x \in Reach(step, k) PROVE step[x] \subseteq Reach(step, k)
    <2>1. CASE x \in leading
      <3>1. x \in inner
        BY <1>5, <2>1
      <3>. HIDE DEF inner
      <3>. QED BY <1>1, <3>1
    <2>2. CASE x \notin leading
      <3>1. step[x] = {}
        BY <1>7, <2>2
      <3>. QED BY <3>1
    <2>. QED BY <2>1, <2>2
  <1>9. k \in Reach(step, k)
    <2>. HIDE DEF inner
    <2>. QED BY <1>1
  <1>. QED BY <1>6, <1>7, <1>8, <1>9

\* What a base key is computed from are base keys.
LEMMA FeedsFacts ==
    ASSUME flow \in Definition, NEW n \in DOMAIN flow.party, NEW given
    PROVE  /\ DOMAIN Feeds(flow, n, given) = {BaseOf[k] : k \in Key}
           /\ \A x \in DOMAIN Feeds(flow, n, given) :
                  Feeds(flow, n, given)[x] \subseteq DOMAIN Feeds(flow, n, given)
           /\ \A more : given \subseteq more =>
                  \A x \in DOMAIN Feeds(flow, n, given) :
                      Feeds(flow, n, given)[x] \subseteq Feeds(flow, n, more)[x]
  <1>. DEFINE bases == {BaseOf[k] : k \in Key}
  <1>1. /\ \A b \in DOMAIN flow.refs : flow.refs[b] \subseteq Key
        /\ flow.defaults \in [DOMAIN FillOf -> SUBSET Key]
        /\ flow.fields[n] \subseteq DOMAIN FillOf
    BY DefinitionAssumption
  <1>2. \A g : Feeds(flow, n, g) =
            [b \in bases |->
                IF b \in DOMAIN flow.refs THEN {BaseOf[k] : k \in flow.refs[b]}
                ELSE IF b \in g \cap flow.fields[n] THEN {BaseOf[k] : k \in flow.defaults[b]}
                ELSE {}]
    BY DEF Feeds
  <1>3. ASSUME NEW b \in DOMAIN flow.refs PROVE {BaseOf[k] : k \in flow.refs[b]} \subseteq bases
    BY <1>1
  <1>4. ASSUME NEW b \in flow.fields[n] PROVE {BaseOf[k] : k \in flow.defaults[b]} \subseteq bases
    BY <1>1
  <1>. HIDE DEF bases
  <1>5. \A g : DOMAIN Feeds(flow, n, g) = bases
    BY <1>2
  <1>6. ASSUME NEW g, NEW x \in bases PROVE Feeds(flow, n, g)[x] \subseteq bases
    BY <1>2, <1>3, <1>4
  <1>7. ASSUME NEW more, given \subseteq more, NEW x \in bases
        PROVE  Feeds(flow, n, given)[x] \subseteq Feeds(flow, n, more)[x]
    BY <1>2, <1>7
  <1>. QED BY <1>5, <1>6, <1>7 DEF bases

\* What lies behind a key grows with what is drafted, and holds what lies behind its slugs.
LEMMA BehindFacts ==
    ASSUME flow \in Definition, NEW n \in DOMAIN flow.party, NEW given, NEW k \in Key
    PROVE  /\ \A more : given \subseteq more => Behind(n, given, k) \subseteq Behind(n, more, k)
           /\ \A c \in Behind(n, given, k) \cap Slugs : Behind(n, given, c) \subseteq Behind(n, given, k)
  <1>. DEFINE step == Feeds(flow, n, given)
              b == BaseOf[k]
  <1>5. /\ DOMAIN step = {BaseOf[x] : x \in Key}
        /\ \A x \in DOMAIN step : step[x] \subseteq DOMAIN step
    <2>. HIDE DEF b
    <2>. QED BY FeedsFacts
  <1>1. b \in DOMAIN step /\ \A x \in DOMAIN step : step[x] \subseteq DOMAIN step
    <2>. HIDE DEF step
    <2>. QED BY <1>5
  <1>2. \A x \in Key : Behind(n, given, x) = Reach(step, BaseOf[x])
    BY DEF Behind
  <1>3. ASSUME NEW more, given \subseteq more PROVE Behind(n, given, k) \subseteq Behind(n, more, k)
    <2>. DEFINE wider == Feeds(flow, n, more)
    <2>1. /\ DOMAIN wider = DOMAIN step /\ \A x \in DOMAIN wider : wider[x] \subseteq DOMAIN wider
          /\ \A x \in DOMAIN step : step[x] \subseteq wider[x]
      BY <1>3, FeedsFacts
    <2>. HIDE DEF step, wider, b
    <2>2. /\ b \in Reach(wider, b) /\ Reach(wider, b) \subseteq DOMAIN wider
          /\ \A x \in Reach(wider, b) : wider[x] \subseteq Reach(wider, b)
      BY <1>1, <2>1, ReachFacts
    <2>3. \A x \in Reach(wider, b) \cap DOMAIN step : step[x] \subseteq Reach(wider, b)
      BY <2>1, <2>2
    <2>4. Reach(step, b) \subseteq Reach(wider, b)
      BY <1>1, <2>2, <2>3, ReachFacts
    <2>. QED BY <1>2, <2>4 DEF Behind, b, wider
  <1>4. ASSUME NEW c \in Behind(n, given, k) \cap Slugs
        PROVE  Behind(n, given, c) \subseteq Behind(n, given, k)
    <2>1. c \in Key /\ BaseOf[c] = c
      BY KeyAssumption DEF Slugs
    <2>2. Behind(n, given, c) = Reach(step, c) /\ Behind(n, given, k) = Reach(step, b)
      BY <1>2, <2>1
    <2>. HIDE DEF step, b
    <2>3. /\ c \in Reach(step, b) /\ Reach(step, b) \subseteq DOMAIN step
          /\ \A x \in Reach(step, b) : step[x] \subseteq Reach(step, b)
      BY <1>1, <1>4, <2>2, ReachFacts
    <2>4. c \in DOMAIN step
      BY <2>3
    <2>5. \A x \in Reach(step, b) \cap DOMAIN step : step[x] \subseteq Reach(step, b)
      BY <2>3
    <2>6. Reach(step, c) \subseteq Reach(step, b)
      BY <1>1, <2>3, <2>4, <2>5, ReachFacts
    <2>. QED BY <2>2, <2>6
  <1>. QED BY <1>3, <1>4

\* What a definition that stays says of a state stays.
LEMMA SameFlow ==
    ASSUME flow' = flow
    PROVE  /\ \A n : Fields(n)' = Fields(n)
           /\ \A m, n : (Before(m, n)' <=> Before(m, n)) /\ (UpTo(m, n)' <=> UpTo(m, n))
           /\ \A u, r : Hidden(u, r)' = Hidden(u, r)
           /\ \A u, r, D, k : isPrivate(u, r, D, k)' <=> isPrivate(u, r, D, k)
           /\ \A u, r, D : sourcePrivate(u, r, D)' = sourcePrivate(u, r, D)
           /\ \A r, n, s : KeptBehind(r, n, s)' = KeptBehind(r, n, s)
  <1>1. \A n : Fields(n)' = Fields(n)
    BY DEF Fields
  <1>2. ASSUME NEW m, NEW n PROVE (Before(m, n)' <=> Before(m, n)) /\ (UpTo(m, n)' <=> UpTo(m, n))
    BY DEF Before, UpTo, Rank
  <1>3. ASSUME NEW u, NEW r PROVE Hidden(u, r)' = Hidden(u, r)
    BY DEF Hidden, OthersSlugs, Fields
  <1>4. ASSUME NEW n, NEW D, NEW k PROVE Behind(n, D, k)' = Behind(n, D, k)
    BY DEF Behind
  <1>5. ASSUME NEW u, NEW r, NEW D, NEW k PROVE isPrivate(u, r, D, k)' <=> isPrivate(u, r, D, k)
    BY <1>3, <1>4 DEF isPrivate
  <1>6. ASSUME NEW u, NEW r, NEW D PROVE sourcePrivate(u, r, D)' = sourcePrivate(u, r, D)
    BY <1>5 DEF sourcePrivate
  <1>7. ASSUME NEW r, NEW n, NEW s PROVE KeptBehind(r, n, s)' = KeptBehind(r, n, s)
    BY <1>3, <1>4 DEF KeptBehind
  <1>. QED BY <1>1, <1>2, <1>3, <1>5, <1>6, <1>7

\* So the invariant holds next when it does of the next run, processes and plugin inputs.
LEMMA KeptNext ==
    ASSUME flow' = flow, Placed(run'), Along(run'), \A t \in told' : Safe(run', t),
           \A p \in Process : Knows(run', UserOf[p], proc'[p])
    PROVE  KeptPrivate'
  <1>1. ASSUME NEW u, NEW r, NEW D PROVE MayMark(u, r, D)' = MayMark(u, r, D)
    BY SameFlow DEF MayMark
  <1>2. ASSUME NEW r, NEW t PROVE Safe(r, t)' <=> Safe(r, t)
    BY SameFlow DEF Safe
  <1>3. ASSUME NEW r PROVE (Placed(r)' <=> Placed(r)) /\ (Along(r)' <=> Along(r))
    BY SameFlow DEF Placed, Along
  <1>4. ASSUME NEW r, NEW u, NEW s PROVE Knows(r, u, s)' <=> Knows(r, u, s)
    <2>1. Chosen(r, s.body)' <=> Chosen(r, s.body)
      BY SameFlow DEF Chosen
    <2>2. AsOf(r, s.run)' <=> AsOf(r, s.run)
      BY SameFlow DEF AsOf
    <2>3. Marked(u, s)' <=> Marked(u, s)
      BY SameFlow, <1>1 DEF Marked
    <2>. QED BY <1>2, <2>1, <2>2, <2>3 DEF Knows
  <1>. QED BY <1>2, <1>3, <1>4 DEF KeptPrivate

\* A later run: what holds of the run still holds of it.
Later(r) ==
    /\ UpTo(run.node, r.node)
    /\ Since(r, run)
    /\ \A s : AsOf(run, s) => AsOf(r, s)

\* What was sent stays safe in a later run.
LEMMA SinceLater ==
    ASSUME NEW r, Since(r, run), NEW t, Safe(run, t)
    PROVE  Safe(r, t)
  <1>1. t.slug \in DOMAIN r.answers
    BY DEF Safe, Since
  <1>2. t.slug \notin Hidden(t.by, r)
    <2>1. CASE flow.lists
      BY <2>1 DEF Safe, Since, Hidden
    <2>2. CASE ~ flow.lists
      BY <2>2 DEF Safe, Hidden
    <2>. QED BY <2>1, <2>2
  <1>. QED BY <1>1, <1>2 DEF Safe

\* A process knows no less of a later run.
LEMMA KnowsLater ==
    ASSUME Forward, flow \in Definition, run.node \in DOMAIN flow.party, NEW r, r.node \in DOMAIN flow.party,
           Later(r), NEW user, NEW s, Knows(run, user, s)
    PROVE  Knows(r, user, s)
  <1>1. Chosen(run, s.body) => Chosen(r, s.body)
    BY Order DEF Chosen, Later
  <1>2. \A t : Safe(run, t) => Safe(r, t)
    BY SinceLater DEF Later
  <1>3. AsOf(run, s.run) => AsOf(r, s.run)
    BY DEF Later
  <1>. QED BY <1>1, <1>2, <1>3 DEF Knows

\* The run as it is, is no earlier.
LEMMA LaterSame ==
    ASSUME Forward, flow \in Definition, run.node \in DOMAIN flow.party
    PROVE  Later(run)
  BY Order DEF Later, Since

\* One process moves on, and the run with it or not at all.
LEMMA PrivateMove ==
    ASSUME Forward, Shaped, KeptPrivate, NEW p \in Process, NEW s, Becomes(p, s), UNCHANGED flow,
           run'.node \in DOMAIN flow.party, Placed(run'), Along(run'), Later(run'),
           Knows(run', UserOf[p], s), \A t \in told' : t \in told \/ Safe(run', t)
    PROVE  KeptPrivate'
  <1>1. \A q \in Process : proc'[q] = IF q = p THEN s ELSE proc[q]
    BY DEF Shaped, Becomes
  <1>2. flow \in Definition /\ run.node \in DOMAIN flow.party
    BY DEF Shaped, RunOK
  <1>3. \A t \in told' : Safe(run', t)
    BY SinceLater DEF KeptPrivate, Later
  <1>4. ASSUME NEW q \in Process PROVE Knows(run', UserOf[q], proc'[q])
    <2>1. Knows(run, UserOf[q], proc[q])
      BY DEF KeptPrivate
    <2>2. Knows(run', UserOf[q], proc[q])
      BY <1>2, <2>1, KnowsLater
    <2>. QED BY <1>1, <2>2
  <1>. QED BY <1>3, <1>4, KeptNext

\* One process moves on, and the run does not.
LEMMA PrivateElse ==
    ASSUME Forward, Shaped, KeptPrivate, NEW p \in Process, NEW s, Becomes(p, s),
           UNCHANGED <<flow, run, told>>, Knows(run, UserOf[p], s)
    PROVE  KeptPrivate'
  <1>1. flow \in Definition /\ run.node \in DOMAIN flow.party /\ Placed(run) /\ Along(run)
    BY DEF Shaped, RunOK, KeptPrivate
  <1>2. Later(run)
    BY <1>1, LaterSame
  <1>3. run' = run
    OBVIOUS
  <1>. QED BY <1>1, <1>2, <1>3, PrivateMove

\* A process that holds nothing knows nothing.
LEMMA KnowsNothing ==
    ASSUME NEW r, NEW u, NEW s, s.pc \in {"idle", "inputs", "refresh"}
    PROVE  Knows(r, u, s)
  BY DEF Knows

\* A process that goes on as before knows what it did.
LEMMA KnowsLost ==
    ASSUME NEW r, NEW u, NEW s, NEW t, Knows(r, u, t), t.pc = "submit",
           s.pc = "idle" \/ (s.pc = t.pc /\ s.run = t.run /\ s.body = t.body)
    PROVE  Knows(r, u, s)
  BY DEF Knows, Marked

\* What a process is about to post, when the platform takes it, is of the step the run is at,
\* marked by the run as it is.
LEMMA TakenAsIs ==
    ASSUME Forward, Shaped, KeptPrivate, NEW p \in Process, proc[p].pc = "submit", Takes(p)
    PROVE  LET given == DOMAIN proc[p].body.answers
           IN  /\ run.status = "awaiting" /\ run.node \in DOMAIN flow.party
               /\ flow.bindings[flow.party[run.node]] = UserOf[p]
               /\ given \subseteq Fields(run.node)
               /\ sourcePrivate(UserOf[p], run, given) \subseteq proc[p].body.private
               /\ proc[p].body.private \subseteq MayMark(UserOf[p], run, given)
  <1>. DEFINE b == proc[p].body
              r == proc[p].run
              given == DOMAIN b.answers
  <1>1. /\ flow \in Definition /\ run.node \in DOMAIN flow.party /\ b.private \subseteq given
        /\ run.status = "awaiting" /\ flow.bindings[flow.party[run.node]] = UserOf[p]
        /\ given \subseteq Fields(run.node)
    BY DEF Shaped, RunOK, ProcOK, Takes, Turn, Posts
  <1>2. AsOf(run, r) /\ Marked(UserOf[p], proc[p])
    BY DEF KeptPrivate, Knows
  <1>3. PICK n \in DOMAIN flow.party :
            /\ given \subseteq Fields(n) \cup Stray /\ UpTo(n, r.node)
            /\ sourcePrivate(UserOf[p], r, given) \subseteq b.private
            /\ b.private \subseteq MayMark(UserOf[p], r, given)
    BY <1>2 DEF Marked
  <1>. HIDE DEF b, given
  <1>4. CASE given = {}
    <2>1. sourcePrivate(UserOf[p], run, given) = {} /\ b.private = {}
      BY <1>1, <1>4 DEF sourcePrivate
    <2>. QED BY <1>1, <2>1 DEF b, given
  <1>5. CASE given # {}
    <2>1. n = run.node
      <3>1. PICK s \in given : TRUE
        BY <1>5
      <3>2. s \in Fields(run.node) /\ s \in Fields(n)
        BY <1>1, <1>3, DefinitionFacts
      <3>. QED BY <1>1, <3>2, DefinitionFacts
    <2>2. r = run
      <3>1. r.node \in DOMAIN flow.party
        BY <1>2 DEF AsOf
      <3>2. ~ Before(r.node, run.node)
        BY <1>1, <1>3, <2>1, <3>1, Order
      <3>3. ~ (r.node = run.node /\ run.status # "awaiting")
        BY <1>1
      <3>. QED BY <1>2, <3>2, <3>3 DEF AsOf
    <2>. HIDE DEF r
    <2>. QED BY <1>1, <1>3, <2>2 DEF b, given
  <1>. QED BY <1>4, <1>5

\* What the platform makes of the run from answers that it takes.
LEMMA AdvancedFacts ==
    ASSUME flow \in Definition, run.node \in DOMAIN flow.party, NEW p, Takes(p),
           DOMAIN run = {"status", "node", "answers", "private"}
    PROVE  LET b == proc[p].body
               r == Advanced(b)
           IN  /\ r.private = run.private \cup b.private
               /\ DOMAIN r.answers = DOMAIN b.answers \cup DOMAIN run.answers
               /\ \/ r.node = run.node /\ r.status # "awaiting"
                  \/ /\ \E i \in DOMAIN flow.edges :
                           flow.edges[i].from = run.node /\ flow.edges[i].to = r.node
                     /\ r.status = "awaiting"
  <1>. DEFINE b == proc[p].body
  <1>1. b.leaf \/ \E i \in DOMAIN flow.edges : flow.edges[i].from = run.node /\ flow.edges[i].to = b.next
    BY DEF Takes
  <1>. HIDE DEF b
  <1>2. /\ Advanced(b).private = run.private \cup b.private
        /\ Advanced(b).answers = Over(b.answers, run.answers)
        /\ Advanced(b).node = IF b.leaf THEN run.node ELSE b.next
        /\ Advanced(b).status = IF ~ b.leaf THEN "awaiting"
                                ELSE IF flow.mode = "document" THEN "generating" ELSE "done"
    BY DEF Advanced
  <1>3. DOMAIN Over(b.answers, run.answers) = DOMAIN b.answers \cup DOMAIN run.answers
    BY DEF Over
  <1>4. \/ Advanced(b).node = run.node /\ Advanced(b).status # "awaiting"
        \/ /\ \E i \in DOMAIN flow.edges :
                  flow.edges[i].from = run.node /\ flow.edges[i].to = Advanced(b).node
           /\ Advanced(b).status = "awaiting"
    BY <1>1, <1>2
  <1>. QED BY <1>2, <1>3, <1>4 DEF b

\* A copy of the run is one of it, or of a step answered before, once answers are taken.
LEMMA AsOfLater ==
    ASSUME Forward, flow \in Definition, run.node \in DOMAIN flow.party, NEW r,
           r.node \in DOMAIN flow.party, UpTo(run.node, r.node), run.status = "awaiting",
           r.node = run.node \/ Before(run.node, r.node),
           r.status = "awaiting" => Before(run.node, r.node)
    PROVE  \A s : AsOf(run, s) => AsOf(r, s)
  <1>. SUFFICES ASSUME NEW s, AsOf(run, s) PROVE AsOf(r, s)
    OBVIOUS
  <1>1. s.node \in DOMAIN flow.party
    BY DEF AsOf
  <1>2. CASE s = run
    BY <1>1, <1>2 DEF AsOf
  <1>3. CASE Before(s.node, run.node)
    <2>1. Before(s.node, r.node)
      BY <1>1, <1>3, Order
    <2>. QED BY <1>1, <2>1 DEF AsOf
  <1>. QED BY <1>2, <1>3 DEF AsOf

\* A run r that comes of answers to its step: nothing answered before turns private ...
LEMMA TakenLater ==
    ASSUME Forward, Shaped, Placed(run), NEW given, given \subseteq Fields(run.node), NEW new,
           NEW r, run.status = "awaiting", new \subseteq given, r.private = run.private \cup new,
           DOMAIN r.answers = given \cup DOMAIN run.answers,
           \/ r.node = run.node /\ r.status # "awaiting"
           \/ /\ \E i \in DOMAIN flow.edges :
                    flow.edges[i].from = run.node /\ flow.edges[i].to = r.node
              /\ r.status = "awaiting"
    PROVE  r.node \in DOMAIN flow.party /\ Later(r) /\ Placed(r)
  <1>. DEFINE here == run.node
  <1>1. /\ flow \in Definition /\ here \in DOMAIN flow.party
        /\ \A m, n \in DOMAIN flow.party : m # n => Fields(m) \cap Fields(n) = {}
    BY DefinitionFacts DEF Shaped, RunOK
  <1>2. r.node \in DOMAIN flow.party
    BY <1>1, DefinitionFacts
  <1>3. r.status = "awaiting" => Before(here, r.node)
    BY <1>1, Order
  <1>4. UpTo(here, r.node) /\ (r.node = here \/ Before(here, r.node))
    BY <1>1, <1>2, Order
  <1>5. ASSUME NEW s \in DOMAIN run.answers PROVE s \notin Fields(here)
    <2>1. PICK n \in DOMAIN flow.party : s \in Fields(n) /\ Before(n, here)
      BY <1>5 DEF Placed
    <2>2. n # here
      BY <1>1, <2>1, Order
    <2>. QED BY <1>1, <2>1, <2>2
  <1>6. Since(r, run)
    BY <1>5 DEF Since
  <1>7. \A s : AsOf(run, s) => AsOf(r, s)
    BY <1>1, <1>2, <1>3, <1>4, AsOfLater
  <1>8. ASSUME NEW s \in DOMAIN r.answers
        PROVE  \E n \in DOMAIN flow.party :
                   s \in Fields(n) /\ (Before(n, r.node) \/ (n = r.node /\ r.status # "awaiting"))
    <2>1. CASE s \in Fields(here)
      BY <1>1, <1>3, <2>1
    <2>2. CASE s \in DOMAIN run.answers
      <3>1. PICK n \in DOMAIN flow.party : s \in Fields(n) /\ Before(n, here)
        BY <2>2 DEF Placed
      <3>2. Before(n, r.node)
        BY <1>1, <1>2, <1>4, <3>1, Order
      <3>. QED BY <3>1, <3>2
    <2>. QED BY <2>1, <2>2
  <1>. QED BY <1>2, <1>4, <1>6, <1>7, <1>8 DEF Later, Placed

\* ... and what may come from a private answer is marked.
LEMMA TakenAlong ==
    ASSUME Forward, Shaped, Placed(run), Along(run), run.status = "awaiting",
           NEW user, user = flow.bindings[flow.party[run.node]],
           NEW given, given \subseteq Fields(run.node), NEW new,
           sourcePrivate(user, run, given) \subseteq new, new \subseteq MayMark(user, run, given),
           NEW r, r.private = run.private \cup new,
           DOMAIN r.answers = given \cup DOMAIN run.answers
    PROVE  Along(r)
  <1>. DEFINE here == run.node
  <1>1. /\ flow \in Definition /\ here \in DOMAIN flow.party
        /\ \A n \in DOMAIN flow.party : Fields(n) \subseteq Slugs
        /\ \A m, n \in DOMAIN flow.party : m # n => Fields(m) \cap Fields(n) = {}
    BY DefinitionFacts DEF Shaped, RunOK
  <1>2. new \subseteq given
    BY DEF MayMark, sourcePrivate
  <1>. SUFFICES ASSUME NEW n \in DOMAIN flow.party, NEW s \in Fields(n) \cap DOMAIN r.answers,
                       NEW c \in KeptBehind(r, n, s), c \notin Fields(n) \cap Sensitive
                PROVE  s \in r.private
    BY DEF Along
  <1>3. s \in Slugs /\ s \in Key /\ given \subseteq Slugs /\ Slugs \subseteq Key
    BY <1>1, KeyAssumption DEF Slugs
  <1>. DEFINE party == flow.bindings[flow.party[n]]
  <1>4. c \in Behind(n, {s}, s) /\ c \in Hidden(party, r)
    BY DEF KeptBehind
  <1>5. c \in Hidden(party, run) \/ c \in new
    BY <1>4 DEF Hidden
  <1>6. ASSUME s \in given, NEW x \in Behind(here, given, s), x \in Hidden(user, run)
        PROVE  s \in r.private
    <2>1. isPrivate(user, run, given, s)
      BY <1>6 DEF isPrivate
    <2>. QED BY <1>6, <2>1 DEF sourcePrivate
  <1>7. CASE s \in given
    <2>1. n = here
      BY <1>1, <1>7
    <2>2. c \in Behind(here, given, s)
      <3>1. {s} \subseteq given
        BY <1>7
      <3>. QED BY <1>1, <1>3, <1>4, <2>1, <3>1, BehindFacts
    <2>3. CASE c \in Hidden(party, run)
      BY <1>6, <1>7, <2>1, <2>2, <2>3
    <2>4. CASE c \in new
      <3>1. c \in given /\ c \in Slugs
        BY <1>2, <1>3, <2>4
      <3>2. c \in sourcePrivate(user, run, given)
        BY <2>1, <2>4, <3>1 DEF MayMark
      <3>3. PICK x \in Behind(here, given, c) : x \in Hidden(user, run)
        BY <3>2 DEF sourcePrivate, isPrivate
      <3>4. Behind(here, given, c) \subseteq Behind(here, given, s)
        BY <1>1, <1>3, <2>2, <3>1, BehindFacts
      <3>. QED BY <1>6, <1>7, <3>3, <3>4
    <2>. QED BY <1>5, <2>3, <2>4
  <1>8. CASE s \in DOMAIN run.answers
    <2>1. PICK m \in DOMAIN flow.party : s \in Fields(m) /\ Before(m, here)
      BY <1>8 DEF Placed
    <2>2. m = n
      BY <1>1, <2>1
    <2>3. c \notin Fields(here)
      BY <1>1, <1>4, <2>1, <2>2, Order
    <2>4. c \in Hidden(party, run)
      BY <1>2, <1>5, <2>3
    <2>5. s \in run.private
      BY <1>4, <1>8, <2>4 DEF Along, KeptBehind
    <2>. QED BY <2>5
  <1>. QED BY <1>7, <1>8

\* Nothing is private at first.
LEMMA PrivateInit == Init => KeptPrivate
  <1>. SUFFICES ASSUME Init PROVE KeptPrivate
    OBVIOUS
  <1>1. DOMAIN run.answers = {} /\ told = {}
    BY DEF Init
  <1>2. Placed(run) /\ Along(run)
    BY <1>1 DEF Placed, Along
  <1>3. \A p \in Process : Knows(run, UserOf[p], proc[p])
    <2>1. NoProc.pc = "idle"
      BY NoProcFields
    <2>. QED BY <2>1, KnowsNothing DEF Init
  <1>. QED BY <1>1, <1>2, <1>3 DEF KeptPrivate

\* A party fills in its step, and marks it.
LEMMA PrivateFill ==
    ASSUME Forward, Shaped, KeptPrivate, NEW p \in Process,
           TakeTurn(p) \/ CustomerFills(p) \/ CustomerMarks(p)
    PROVE  KeptPrivate'
  <1>. DEFINE F == Fields(run.node) \cup Stray
  <1>1. /\ UNCHANGED <<flow, run, told>> /\ flow \in Definition /\ run.node \in DOMAIN flow.party
        /\ F \subseteq Slugs /\ UpTo(run.node, run.node)
    BY DefinitionFacts, StraySlugs, Order DEF TakeTurn, CustomerFills, CustomerMarks, Shaped, RunOK
  <1>7. F = Fields(run.node) \cup Stray
    OBVIOUS
  <1>. HIDE DEF F
  <1>2. AsOf(run, run)
    BY <1>1 DEF AsOf
  <1>3. ASSUME NEW s, Becomes(p, s), Knows(run, UserOf[p], s) PROVE KeptPrivate'
    BY <1>1, <1>3, PrivateElse
  <1>4. CASE TakeTurn(p)
    <2>1. PICK fill \in Fills(F) :
              Becomes(p, [NoProc EXCEPT !.pc = "submit", !.run = run,
                                        !.body = Body(Org, run, fill, TRUE)])
      BY <1>4 DEF TakeTurn, F
    <2>. DEFINE s == [NoProc EXCEPT !.pc = "submit", !.run = run, !.body = Body(Org, run, fill, TRUE)]
    <2>2. s.pc = "submit" /\ s.run = run /\ s.body = Body(Org, run, fill, TRUE) /\ Becomes(p, s)
      BY <2>1 DEF NoProc
    <2>3. /\ DOMAIN Body(Org, run, fill, TRUE).answers = DOMAIN fill
          /\ Body(Org, run, fill, TRUE).private = sourcePrivate(Org, run, DOMAIN fill)
          /\ DOMAIN fill \subseteq F /\ UserOf[p] = Org
      <3>1. F \subseteq Slugs
        BY <1>1
      <3>2. UserOf[p] = Org
        BY <1>4 DEF TakeTurn
      <3>3. DOMAIN fill \subseteq F
        BY FillFacts
      <3>4. DOMAIN Body(Org, run, fill, TRUE).answers = DOMAIN fill
        BY <3>1, BodyPosts
      <3>5. Body(Org, run, fill, TRUE).private = sourcePrivate(Org, run, DOMAIN fill)
        BY <3>1, BodyPosts
      <3>. QED BY <3>2, <3>3, <3>4, <3>5
    <2>. HIDE DEF s
    <2>4. Marked(UserOf[p], s)
      BY <1>1, <1>7, <2>2, <2>3 DEF Marked, MayMark
    <2>5. Knows(run, UserOf[p], s)
      BY <1>2, <2>2, <2>4 DEF Knows
    <2>. QED BY <1>3, <2>2, <2>5
  <1>5. CASE CustomerFills(p)
    <2>. DEFINE Pc(fill) == IF DOMAIN fill = {} THEN "submit" ELSE "reread"
    <2>1. PICK fill \in Fills(F) : \E marked \in SUBSET (DOMAIN fill \cap Sensitive) :
              Becomes(p, [NoProc EXCEPT !.pc = Pc(fill), !.run = run,
                             !.body = [Body(UserOf[p], run, fill, FALSE) EXCEPT !.private = marked]])
      BY <1>5 DEF CustomerFills, F
    <2>2. PICK marked \in SUBSET (DOMAIN fill \cap Sensitive) :
              Becomes(p, [NoProc EXCEPT !.pc = Pc(fill), !.run = run,
                             !.body = [Body(UserOf[p], run, fill, FALSE) EXCEPT !.private = marked]])
      BY <2>1
    <2>. DEFINE b == [Body(UserOf[p], run, fill, FALSE) EXCEPT !.private = marked]
                pc == Pc(fill)
                s == [NoProc EXCEPT !.pc = pc, !.run = run, !.body = b]
    <2>3. b.answers = Body(UserOf[p], run, fill, FALSE).answers /\ b.private = marked
      BY DEF Body
    <2>4. DOMAIN b.answers = DOMAIN fill /\ DOMAIN fill \subseteq F
      <3>1. F \subseteq Slugs
        BY <1>1
      <3>2. DOMAIN fill \subseteq F
        BY FillFacts
      <3>3. DOMAIN Body(UserOf[p], run, fill, FALSE).answers = DOMAIN fill
        BY <3>1, BodyPosts
      <3>. QED BY <2>3, <3>2, <3>3
    <2>5. pc = "reread" \/ (pc = "submit" /\ DOMAIN fill = {})
      OBVIOUS
    <2>6. Becomes(p, s)
      BY <2>2
    <2>. HIDE DEF b, pc
    <2>7. s.pc = pc /\ s.body = b /\ s.run = run
      BY DEF NoProc
    <2>. HIDE DEF s
    <2>8. Chosen(run, b)
      BY <1>1, <1>7, <2>3, <2>4 DEF Chosen
    <2>9. DOMAIN fill = {} => Marked(UserOf[p], s)
      <3>1. DOMAIN fill = {} => sourcePrivate(UserOf[p], run, DOMAIN fill) = {} /\ marked = {}
        BY DEF sourcePrivate
      <3>. QED BY <1>1, <1>7, <2>3, <2>4, <2>7, <3>1 DEF Marked, MayMark
    <2>10. Knows(run, UserOf[p], s)
      BY <1>2, <2>5, <2>7, <2>8, <2>9 DEF Knows
    <2>. QED BY <1>3, <2>6, <2>10
  <1>6. CASE CustomerMarks(p)
    <2>. DEFINE b == proc[p].body
                private == sourcePrivate(UserOf[p], run, DOMAIN b.answers)
                c == [b EXCEPT !.private = @ \cup private]
                s == [proc[p] EXCEPT !.pc = "submit", !.run = run, !.body = c]
    <2>1. proc[p].pc = "reread" /\ ProcOK(proc[p]) /\ Becomes(p, s)
      BY <1>6 DEF CustomerMarks, At, Shaped
    <2>2. PICK n \in DOMAIN flow.party :
              /\ DOMAIN b.answers \subseteq Fields(n) \cup Stray /\ UpTo(n, run.node)
              /\ b.private \subseteq Sensitive \cap DOMAIN b.answers
      BY <2>1 DEF KeptPrivate, Knows, Chosen
    <2>3. s.pc = "submit" /\ s.run = run /\ s.body = c
      BY <2>1 DEF ProcOK
    <2>4. c.answers = b.answers /\ c.private = b.private \cup private
      BY <2>1 DEF ProcOK
    <2>. HIDE DEF b, c, s
    <2>5. Marked(UserOf[p], s)
      BY <2>2, <2>3, <2>4 DEF Marked, MayMark
    <2>6. Knows(run, UserOf[p], s)
      BY <1>2, <2>3, <2>5 DEF Knows
    <2>. QED BY <1>3, <2>1, <2>6 DEF b, c, s
  <1>. QED BY <1>4, <1>5, <1>6

\* Answers are taken, or not.
LEMMA PrivateSubmit ==
    ASSUME Forward, Shaped, KeptPrivate, NEW p \in Process, Submit(p)
    PROVE  KeptPrivate'
  <1>. DEFINE b == proc[p].body
              moved == IF Takes(p) THEN Advanced(b) ELSE run
  <1>1. /\ proc[p].pc = "submit" /\ UNCHANGED <<flow, told>>
        /\ \/ /\ run' = moved
              /\ \/ IF Takes(p) THEN Becomes(p, AfterSubmit(p, moved)) ELSE Ends(p)
                 \/ Lost(p)
           \/ Lost(p) /\ UNCHANGED run
    BY DEF Submit, At
  <1>2. /\ flow \in Definition /\ run.node \in DOMAIN flow.party /\ Placed(run) /\ Along(run)
        /\ DOMAIN run = {"status", "node", "answers", "private"}
        /\ Knows(run, UserOf[p], proc[p])
    BY DEF Shaped, RunOK, KeptPrivate
  <1>3. AfterSubmit(p, moved).pc \in {"idle", "inputs"}
    <2>. HIDE DEF moved
    <2>1. [NoProc EXCEPT !.pc = "inputs", !.run = moved].pc = "inputs"
      BY DEF NoProc
    <2>. QED BY <2>1, NoProcFields DEF AfterSubmit
  <1>4. \E s : /\ Becomes(p, s)
               /\ \/ s.pc \in {"idle", "inputs"}
                  \/ s.pc = "submit" /\ s.run = proc[p].run /\ s.body = b
    <2>1. CASE Lost(p)
      BY <1>1, <2>1, LostPc
    <2>2. CASE Ends(p)
      BY <2>2, EndsPc
    <2>3. CASE Becomes(p, AfterSubmit(p, moved))
      BY <1>3, <2>3
    <2>. QED BY <1>1, <2>1, <2>2, <2>3
  <1>5. PICK s : /\ Becomes(p, s)
                 /\ \/ s.pc \in {"idle", "inputs"}
                    \/ s.pc = "submit" /\ s.run = proc[p].run /\ s.body = b
    BY <1>4
  <1>6. Knows(run, UserOf[p], s)
    BY <1>1, <1>2, <1>5, KnowsNothing, KnowsLost
  <1>7. CASE UNCHANGED run
    BY <1>1, <1>5, <1>6, <1>7, PrivateElse
  <1>8. CASE Takes(p) /\ run' = Advanced(b)
    <2>. DEFINE r == Advanced(b)
    <2>. DEFINE given == DOMAIN b.answers
    <2>1. /\ run.status = "awaiting" /\ flow.bindings[flow.party[run.node]] = UserOf[p]
          /\ given \subseteq Fields(run.node)
          /\ sourcePrivate(UserOf[p], run, given) \subseteq b.private
          /\ b.private \subseteq MayMark(UserOf[p], run, given)
      BY <1>1, <1>8, TakenAsIs
    <2>2. /\ r.private = run.private \cup b.private
          /\ DOMAIN r.answers = given \cup DOMAIN run.answers
          /\ \/ r.node = run.node /\ r.status # "awaiting"
             \/ /\ \E i \in DOMAIN flow.edges :
                      flow.edges[i].from = run.node /\ flow.edges[i].to = r.node
                /\ r.status = "awaiting"
      BY <1>2, <1>8, AdvancedFacts
    <2>. HIDE DEF r, b, given
    <2>3. b.private \subseteq given
      BY <2>1 DEF MayMark, sourcePrivate
    <2>4. r.node \in DOMAIN flow.party /\ Later(r) /\ Placed(r)
      BY <1>2, <2>1, <2>2, <2>3, TakenLater
    <2>5. Along(r)
      BY <1>2, <2>1, <2>2, TakenAlong
    <2>6. Knows(r, UserOf[p], s)
      BY <1>2, <1>6, <2>4, KnowsLater
    <2>7. run' = r
      BY <1>8 DEF r
    <2>. QED BY <1>1, <1>5, <2>4, <2>5, <2>6, <2>7, PrivateMove
  <1>. QED BY <1>1, <1>7, <1>8

\* A document is generated.
LEMMA PrivateGenerate ==
    ASSUME Forward, Shaped, KeptPrivate, NEW p \in Process, Generate(p)
    PROVE  KeptPrivate'
  <1>1. /\ proc[p].pc = "inputs" /\ UNCHANGED <<flow, told>> /\ RunOK /\ flow \in Definition
        /\ Placed(run) /\ Along(run)
    BY DEF Generate, At, Shaped, KeptPrivate
  <1>2. \E s : Becomes(p, s) /\ s.pc \in {"idle", "inputs", "refresh"}
    <2>1. CASE Becomes(p, [proc[p] EXCEPT !.pc = "refresh"])
      <3>. DEFINE s == [proc[p] EXCEPT !.pc = "refresh"]
      <3>1. s.pc = "refresh" /\ Becomes(p, s)
        BY <2>1 DEF Shaped, ProcOK
      <3>. HIDE DEF s
      <3>. QED BY <3>1
    <2>2. CASE Lost(p)
      BY <1>1, <2>2, LostPc
    <2>3. CASE Ends(p)
      BY <2>3, EndsPc
    <2>. QED BY <2>1, <2>2, <2>3 DEF Generate
  <1>3. PICK s : Becomes(p, s) /\ s.pc \in {"idle", "inputs", "refresh"}
    BY <1>2
  <1>4. CASE UNCHANGED run
    BY <1>1, <1>3, <1>4, KnowsNothing, PrivateElse
  <1>5. CASE Generates(p) /\ run' = [run EXCEPT !.status = "done"]
    <2>. DEFINE r == [run EXCEPT !.status = "done"]
    <2>1. /\ r.status = "done" /\ r.node = run.node /\ r.answers = run.answers
          /\ r.private = run.private /\ run.status = "generating" /\ run.node \in DOMAIN flow.party
      BY <1>1, <1>5 DEF RunOK, Generates
    <2>. HIDE DEF r
    <2>2. Later(r)
      <3>1. UpTo(run.node, r.node)
        BY <1>1, <2>1, Order
      <3>2. Since(r, run)
        BY <2>1 DEF Since
      <3>3. ASSUME NEW c, AsOf(run, c) PROVE AsOf(r, c)
        BY <2>1, <3>3 DEF AsOf
      <3>. QED BY <3>1, <3>2, <3>3 DEF Later
    <2>3. Placed(r) /\ Along(r)
      <3>1. \A u : Hidden(u, r) = Hidden(u, run)
        BY <2>1 DEF Hidden
      <3>2. Along(r)
        BY <1>1, <2>1, <3>1 DEF Along, KeptBehind
      <3>3. Placed(r)
        BY <1>1, <2>1 DEF Placed
      <3>. QED BY <3>2, <3>3
    <2>4. run' = r
      BY <1>5 DEF r
    <2>. QED BY <1>1, <1>3, <2>1, <2>2, <2>3, <2>4, KnowsNothing, PrivateMove
  <1>. QED BY <1>4, <1>5 DEF Generate

\* What a plugin will be sent comes from no answer that is private in the run as it was read.
LEMMA PrivateAsk ==
    ASSUME Forward, Shaped, KeptPrivate, NEW p \in Process, AskPlugin(p)
    PROVE  KeptPrivate'
  <1>1. PICK slug \in DOMAIN flow.wired, fill \in Fills(Fields(run.node)) :
            Becomes(p, [NoProc EXCEPT
                          !.pc = "pass", !.slug = slug,
                          !.sends = UNION {Sources(run, fill, k) :
                                             k \in pluginInputs(UserOf[p], run, slug, fill)}])
    BY DEF AskPlugin
  <1>. DEFINE sent == UNION {Sources(run, fill, k) :
                               k \in pluginInputs(UserOf[p], run, slug, fill)}
              s == [NoProc EXCEPT !.pc = "pass", !.slug = slug, !.sends = sent]
  <1>2. s.pc = "pass" /\ s.sends = sent /\ Becomes(p, s)
    BY <1>1 DEF NoProc
  <1>3. \A x \in sent : x \in DOMAIN run.answers /\ x \notin Hidden(UserOf[p], run)
    <2>. SUFFICES ASSUME NEW k \in pluginInputs(UserOf[p], run, slug, fill),
                         NEW x \in Sources(run, fill, k)
                  PROVE  x \in DOMAIN run.answers /\ x \notin Hidden(UserOf[p], run)
      OBVIOUS
    <2>1. ~ isPrivate(UserOf[p], run, DOMAIN fill, k)
      BY DEF pluginInputs
    <2>. QED BY <2>1 DEF Sources, isPrivate
  <1>. HIDE DEF s, sent
  <1>4. UNCHANGED <<flow, run, told>>
    BY DEF AskPlugin
  <1>5. Knows(run, UserOf[p], s)
    BY <1>2, <1>3 DEF Knows, Safe
  <1>. QED BY <1>2, <1>4, <1>5, PrivateElse

\* It is sent once the pass is there ...
LEMMA PrivatePass ==
    ASSUME Forward, Shaped, KeptPrivate, NEW p \in Process, FetchPass(p)
    PROVE  KeptPrivate'
  <1>1. /\ proc[p].pc = "pass" /\ UNCHANGED <<flow, run, told>> /\ ProcOK(proc[p])
        /\ \A slug \in proc[p].sends : Safe(run, [by |-> UserOf[p], slug |-> slug])
    BY DEF FetchPass, At, Shaped, KeptPrivate, Knows
  <1>2. CASE Ends(p)
    BY <1>1, <1>2, EndsPc, KnowsNothing, PrivateElse
  <1>3. CASE Becomes(p, [proc[p] EXCEPT !.pc = "call", !.key = key])
    <2>. DEFINE s == [proc[p] EXCEPT !.pc = "call", !.key = key]
    <2>1. s.pc = "call" /\ s.sends = proc[p].sends /\ Becomes(p, s)
      BY <1>1, <1>3 DEF ProcOK
    <2>. HIDE DEF s
    <2>2. Knows(run, UserOf[p], s)
      BY <1>1, <2>1 DEF Knows
    <2>. QED BY <1>1, <2>1, <2>2, PrivateElse
  <1>. QED BY <1>2, <1>3 DEF FetchPass

\* ... and comes from no answer that has become private since.
LEMMA PrivateCall ==
    ASSUME Forward, Shaped, KeptPrivate, NEW p \in Process, CallPlugin(p)
    PROVE  KeptPrivate'
  <1>1. /\ proc[p].pc = "call" /\ UNCHANGED <<flow, run>> /\ ProcOK(proc[p])
        /\ flow \in Definition /\ run.node \in DOMAIN flow.party /\ Placed(run) /\ Along(run)
        /\ \A slug \in proc[p].sends : Safe(run, [by |-> UserOf[p], slug |-> slug])
        /\ told' = told \cup {[by |-> UserOf[p], slug |-> x] : x \in proc[p].sends}
    BY DEF CallPlugin, At, Shaped, RunOK, KeptPrivate, Knows
  <1>2. \A t \in told' : t \in told \/ Safe(run, t)
    BY <1>1
  <1>3. \E s : /\ Becomes(p, s)
               /\ s.pc = "idle" \/ (s.pc = "call" /\ s.sends = proc[p].sends)
    <2>1. CASE Ends(p)
      BY <2>1, EndsPc
    <2>2. CASE Becomes(p, [proc[p] EXCEPT !.key = key, !.resealed = TRUE])
      <3>. DEFINE s == [proc[p] EXCEPT !.key = key, !.resealed = TRUE]
      <3>1. s.pc = "call" /\ s.sends = proc[p].sends /\ Becomes(p, s)
        BY <1>1, <2>2 DEF ProcOK
      <3>. HIDE DEF s
      <3>. QED BY <3>1
    <2>3. CASE Becomes(p, [proc[p] EXCEPT !.key = key, !.renewed = TRUE])
      <3>. DEFINE s == [proc[p] EXCEPT !.key = key, !.renewed = TRUE]
      <3>1. s.pc = "call" /\ s.sends = proc[p].sends /\ Becomes(p, s)
        BY <1>1, <2>3 DEF ProcOK
      <3>. HIDE DEF s
      <3>. QED BY <3>1
    <2>. QED BY <2>1, <2>2, <2>3 DEF CallPlugin
  <1>4. PICK s : /\ Becomes(p, s)
                 /\ s.pc = "idle" \/ (s.pc = "call" /\ s.sends = proc[p].sends)
    BY <1>3
  <1>5. Knows(run, UserOf[p], s)
    BY <1>1, <1>4 DEF Knows
  <1>6. run' = run /\ Later(run)
    BY <1>1, LaterSame
  <1>. QED BY <1>1, <1>2, <1>4, <1>5, <1>6, PrivateMove

\* No step tells what is private, or may become so.
LEMMA PrivateStep ==
    Forward /\ Shaped /\ KeptPrivate /\ [Next]_vars => KeptPrivate'
  <1>. SUFFICES ASSUME Forward, Shaped, KeptPrivate, [Next]_vars PROVE KeptPrivate'
    OBVIOUS
  <1>1. CASE UNCHANGED <<flow, run, proc, told>>
    <2>1. Placed(run') /\ Along(run') /\ flow' = flow
      BY <1>1 DEF KeptPrivate
    <2>2. \A t \in told' : Safe(run', t)
      BY <1>1 DEF KeptPrivate
    <2>3. \A p \in Process : Knows(run', UserOf[p], proc'[p])
      BY <1>1 DEF KeptPrivate
    <2>. QED BY <2>1, <2>2, <2>3, KeptNext
  <1>2. ASSUME NEW p \in Process, Ends(p), UNCHANGED <<flow, run, told>> PROVE KeptPrivate'
    BY <1>2, EndsPc, KnowsNothing, PrivateElse
  <1>3. ASSUME NEW p \in Process, Regenerate(p) \/ UploadInput(p) PROVE KeptPrivate'
    <2>1. UNCHANGED <<flow, run, told>>
      BY <1>3 DEF Regenerate, UploadInput
    <2>2. CASE Regenerate(p)
      <3>. DEFINE s == [NoProc EXCEPT !.pc = "inputs", !.run = run]
      <3>1. s.pc = "inputs" /\ Becomes(p, s)
        BY <2>2 DEF NoProc, Regenerate
      <3>. HIDE DEF s
      <3>. QED BY <2>1, <3>1, KnowsNothing, PrivateElse
    <2>3. CASE UploadInput(p)
      <3>1. ASSUME NEW d, Becomes(p, [proc[p] EXCEPT !.inputs = @ \cup {d}]) PROVE KeptPrivate'
        <4>. DEFINE s == [proc[p] EXCEPT !.inputs = @ \cup {d}]
        <4>1. s.pc = "inputs" /\ Becomes(p, s)
          BY <2>3, <3>1 DEF Shaped, ProcOK, UploadInput, At
        <4>. HIDE DEF s
        <4>. QED BY <2>1, <4>1, KnowsNothing, PrivateElse
      <3>. QED BY <1>2, <2>1, <2>3, <3>1 DEF UploadInput
    <2>. QED BY <1>3, <2>2, <2>3
  <1>4. ASSUME NEW p \in Process, Crash(p) \/ Refresh(p)
        PROVE  KeptPrivate'
    <2>1. UNCHANGED <<flow, run, told>>
      BY <1>4 DEF Crash, Refresh
    <2>. QED BY <1>2, <1>4, <2>1 DEF Crash, Refresh
  <1>5. CASE RotatePlugin
    BY <1>1, <1>5 DEF RotatePlugin
  <1>6. ASSUME NEW p \in Process, Drive(p) PROVE KeptPrivate'
    BY <1>3, <1>6, PrivateFill DEF Drive
  <1>7. ASSUME NEW p \in Process, Call(p) PROVE KeptPrivate'
    BY <1>3, <1>4, <1>7, PrivateFill, PrivateSubmit, PrivateGenerate, PrivatePass, PrivateCall DEF Call
  <1>8. ASSUME NEW p \in Process, AskPlugin(p) PROVE KeptPrivate'
    BY <1>8, PrivateAsk
  <1>9. UNCHANGED vars => UNCHANGED <<flow, run, proc, told>>
    BY DEF vars
  <1>. QED BY <1>1, <1>4, <1>5, <1>6, <1>7, <1>8, <1>9 DEF Next

\* Over definitions whose steps lead on: whoever fills in, marks and submits what, from
\* whichever copy of the run, with or without the list of what is private, an answer that may
\* come from a private one, through defaults and constants, is marked so, unless the private
\* one is of the same step and was marked by its party; and however often a plugin is asked, it
\* has been sent no value that may come from a stored answer that is private now.
THEOREM Privacy == Forward => (Spec => []PrivateStaysPrivate)
  <1>1. ASSUME Forward PROVE Spec => []PrivateStaysPrivate
    <2>1. Init => Shaped /\ KeptPrivate
      BY ShapedInit, PrivateInit
    <2>2. (Shaped /\ KeptPrivate) /\ [Next]_vars => (Shaped /\ KeptPrivate)'
      BY <1>1, ShapedStep, PrivateStep
    <2>3. Shaped /\ KeptPrivate => PrivateStaysPrivate
      BY DEF KeptPrivate, Along, Safe, PrivateStaysPrivate
    <2>. QED BY <2>1, <2>2, <2>3, PTL DEF Spec
  <1>. QED BY <1>1

-----------------------------------------------------------------------------
(* Routing.                                                                 *)

\* Answers as they are stored: texts.
Stored(a) ==
    /\ a = [s \in DOMAIN a |-> a[s]] /\ DOMAIN a \subseteq Slugs
    /\ \A s \in DOMAIN a : a[s] \in Text(s)

\* What a definition computes over stored answers is what it computed as they were filled in.
TextsAlike == \A d \in Definition : \A a : Stored(a) => TextsDecide(d, a)

\* What is posted was filled in, accepted and routed over a copy of the run, the process's own
\* unless it has read the run once more since.
Filled(r, s) ==
    \E c : \E fill \in Fills(Fields(c.node) \cup Stray) :
        /\ AsOf(r, c) /\ Accepted(c, fill)
        /\ DOMAIN s.body.answers = DOMAIN fill
        /\ \A x \in DOMAIN fill : s.body.answers[x].v = flowPlain(fill[x])
        /\ s.body.leaf = Way(c, fill).leaf /\ s.body.next = Way(c, fill).next
        /\ DOMAIN s.body.answers = {} => c = s.run

\* What a process posts, or is to mark, was filled in; it marks only what has an answer.
Routes(r, s) ==
    /\ s.pc \in {"reread", "submit"} => Filled(r, s)
    /\ s.pc = "reread" => DOMAIN s.body.answers # {}

\* Why the run goes where its answers lead.
KeptRoutes == \A p \in Process : Routes(run, proc[p])

\* A definition that stays has the same accepted answers, and leads the same way.
LEMMA SameRoutes ==
    ASSUME flow' = flow
    PROVE  \A r, s : Routes(r, s)' <=> Routes(r, s)
  <1>1. ASSUME NEW c, NEW fill PROVE Way(c, fill)' = Way(c, fill)
    BY DEF Way, Opened
  <1>2. ASSUME NEW c, NEW fill PROVE Accepted(c, fill)' <=> Accepted(c, fill)
    BY DEF Accepted, Valid, liveFlowAnswers, Opened, Fields
  <1>3. ASSUME NEW r, NEW c PROVE AsOf(r, c)' <=> AsOf(r, c)
    BY SameFlow DEF AsOf
  <1>4. \A n : Fields(n)' = Fields(n)
    BY SameFlow
  <1>5. ASSUME NEW n PROVE Fills(Fields(n) \cup Stray)' = Fills(Fields(n) \cup Stray)
    BY <1>4 DEF Fills
  <1>6. ASSUME NEW r, NEW s PROVE Filled(r, s)' <=> Filled(r, s)
    BY <1>1, <1>2, <1>3, <1>5 DEF Filled
  <1>. QED BY <1>6 DEF Routes

\* One process moves on, and the run with it or not at all.
LEMMA RoutesMove ==
    ASSUME Shaped, KeptRoutes, NEW p \in Process, NEW s, Becomes(p, s), UNCHANGED flow,
           \A c : AsOf(run, c) => AsOf(run', c), Routes(run, s)
    PROVE  KeptRoutes'
  <1>1. \A q \in Process : proc'[q] = IF q = p THEN s ELSE proc[q]
    BY DEF Shaped, Becomes
  <1>2. ASSUME NEW t, Filled(run, t) PROVE Filled(run', t)
    BY <1>2 DEF Filled
  <1>3. ASSUME NEW t, Routes(run, t) PROVE Routes(run', t)
    BY <1>2, <1>3 DEF Routes
  <1>4. ASSUME NEW q \in Process PROVE Routes(run', proc'[q])
    BY <1>1, <1>3 DEF KeptRoutes
  <1>. QED BY <1>4, SameRoutes DEF KeptRoutes

\* What is filled in is what is posted.
LEMMA BodyFilled ==
    ASSUME Shaped, NEW fill \in Fills(Fields(run.node) \cup Stray), Accepted(run, fill), NEW user,
           NEW all \in BOOLEAN, NEW s, s.run = run,
           s.body.answers = Body(user, run, fill, all).answers,
           s.body.leaf = Body(user, run, fill, all).leaf, s.body.next = Body(user, run, fill, all).next
    PROVE  Filled(run, s) /\ DOMAIN s.body.answers = DOMAIN fill
  <1>1. AsOf(run, run)
    BY DEF AsOf, Shaped, RunOK
  <1>2. s.body.leaf = Way(run, fill).leaf /\ s.body.next = Way(run, fill).next
    BY DEF Body
  <1>3. /\ DOMAIN s.body.answers = DOMAIN fill
        /\ \A x \in DOMAIN fill : s.body.answers[x].v = flowPlain(fill[x])
    BY DEF Body
  <1>. QED BY <1>1, <1>2, <1>3 DEF Filled

\* What the platform takes was filled in over the run as it is, if it tells of its step.
LEMMA TakenFilled ==
    ASSUME Forward, Shaped, KeptRoutes, NEW p \in Process, proc[p].pc = "submit", Takes(p),
           DOMAIN proc[p].body.answers # {} \/ proc[p].run.node = run.node
    PROVE  \E fill \in Fills(Fields(run.node)) :
               /\ Accepted(run, fill)
               /\ DOMAIN proc[p].body.answers = DOMAIN fill
               /\ \A s \in DOMAIN fill : proc[p].body.answers[s].v = flowPlain(fill[s])
               /\ proc[p].body.leaf = Way(run, fill).leaf
               /\ proc[p].body.next = Way(run, fill).next
  <1>. DEFINE b == proc[p].body
  <1>1. /\ flow \in Definition /\ run.node \in DOMAIN flow.party
        /\ run.status = "awaiting" /\ DOMAIN b.answers \subseteq Fields(run.node)
        /\ Filled(run, proc[p])
    BY DEF Shaped, RunOK, Takes, Turn, KeptRoutes, Routes
  <1>9. PICK c : \E fill \in Fills(Fields(c.node) \cup Stray) :
            /\ AsOf(run, c) /\ Accepted(c, fill)
            /\ DOMAIN b.answers = DOMAIN fill
            /\ \A s \in DOMAIN fill : b.answers[s].v = flowPlain(fill[s])
            /\ b.leaf = Way(c, fill).leaf /\ b.next = Way(c, fill).next
            /\ DOMAIN b.answers = {} => c = proc[p].run
    BY <1>1 DEF Filled
  <1>2. PICK fill \in Fills(Fields(c.node) \cup Stray) :
            /\ AsOf(run, c) /\ Accepted(c, fill)
            /\ DOMAIN b.answers = DOMAIN fill
            /\ \A s \in DOMAIN fill : b.answers[s].v = flowPlain(fill[s])
            /\ b.leaf = Way(c, fill).leaf /\ b.next = Way(c, fill).next
            /\ DOMAIN b.answers = {} => c = proc[p].run
    BY <1>9
  <1>. HIDE DEF b
  <1>3. /\ fill = [s \in DOMAIN fill |-> fill[s]] /\ DOMAIN fill \subseteq Fields(c.node) \cup Stray
        /\ \A s \in DOMAIN fill : fill[s] \in FillOf[s]
    BY <1>2, FillFacts
  <1>4. c.node \in DOMAIN flow.party
    BY <1>2 DEF AsOf
  <1>5. c.node = run.node
    <2>1. CASE DOMAIN b.answers = {}
      BY <1>2, <2>1 DEF b
    <2>2. CASE DOMAIN b.answers # {}
      <3>1. PICK x \in DOMAIN b.answers : TRUE
        BY <2>2
      <3>2. x \in Fields(run.node) /\ x \in Fields(c.node) \cup Stray
        BY <1>1, <1>2, <1>3, <3>1
      <3>. QED BY <1>1, <1>4, <3>2, DefinitionFacts
    <2>. QED BY <2>1, <2>2
  <1>6. ~ Before(c.node, run.node)
    BY <1>1, <1>5, Order
  <1>7. c = run
    BY <1>1, <1>2, <1>6 DEF AsOf
  <1>8. fill \in Fills(Fields(run.node))
    BY <1>1, <1>2, <1>3, FillFacts
  <1>. QED BY <1>2, <1>7, <1>8 DEF b

\* Answers that are taken lead the run where they lead as stored, within their bounds.
LEMMA TakenRoutes ==
    ASSUME TextsAlike, Shaped, NEW b, NEW fill \in Fills(Fields(run.node)), Accepted(run, fill),
           DOMAIN b.answers = DOMAIN fill,
           \A s \in DOMAIN fill : b.answers[s].v = flowPlain(fill[s]),
           b.leaf = Way(run, fill).leaf, b.next = Way(run, fill).next
    PROVE  LET r == Advanced(b)
               stored == Opened(r)
               way == NextNode(flow, run.node, stored)
           IN  /\ r.node = way.next
               /\ r.status # "awaiting" <=> way.leaf
               /\ \A s \in DOMAIN r.answers \ DOMAIN run.answers :
                    ~ BoundError(flow, s, stored[s], LiveAnswers(flow, stored))
  <1>. DEFINE before == Opened(run)
              stored == Over(Plain(fill), before)
              way == NextNode(flow, run.node, Over(fill, before))
  <1>1. /\ flow \in Definition /\ run.node \in DOMAIN flow.party
        /\ DOMAIN run.answers \subseteq Slugs
        /\ \A s \in DOMAIN run.answers : run.answers[s].v \in Text(s)
        /\ fill = [s \in DOMAIN fill |-> fill[s]] /\ DOMAIN fill \subseteq Fields(run.node)
    BY FillFacts DEF Shaped, RunOK
  <1>2. Stored(before)
    BY <1>1 DEF Stored, Opened
  <1>3. TextsDecide(flow, before)
    BY <1>1, <1>2 DEF TextsAlike
  <1>4. /\ NextNode(flow, run.node, stored) = way
        /\ way.leaf => way.next = run.node
        /\ \A s \in DOMAIN fill :
               BoundError(flow, s, fill[s], LiveAnswers(flow, Over(fill, before)))
                   = BoundError(flow, s, stored[s], LiveAnswers(flow, stored))
    BY <1>1, <1>3 DEF TextsDecide, Fields
  <1>5. /\ Advanced(b).answers = Over(b.answers, run.answers)
        /\ Advanced(b).node = IF b.leaf THEN run.node ELSE b.next
        /\ Advanced(b).status = IF ~ b.leaf THEN "awaiting"
                                ELSE IF flow.mode = "document" THEN "generating" ELSE "done"
    BY DEF Advanced
  <1>6. /\ DOMAIN Advanced(b).answers = DOMAIN fill \cup DOMAIN run.answers
        /\ \A s \in DOMAIN fill \cup DOMAIN run.answers :
               Advanced(b).answers[s].v = IF s \in DOMAIN fill THEN flowPlain(fill[s]) ELSE run.answers[s].v
    BY <1>5 DEF Over
  <1>7. /\ DOMAIN stored = DOMAIN fill \cup DOMAIN run.answers
        /\ \A s \in DOMAIN fill \cup DOMAIN run.answers :
               stored[s] = IF s \in DOMAIN fill THEN flowPlain(fill[s]) ELSE run.answers[s].v
        /\ stored = [s \in DOMAIN stored |-> stored[s]]
    BY DEF Over, Plain, Opened
  <1>8. Opened(Advanced(b)) = stored
    <2>1. Opened(Advanced(b)) = [s \in DOMAIN Advanced(b).answers |-> Advanced(b).answers[s].v]
      BY DEF Opened
    <2>. HIDE DEF stored
    <2>2. Opened(Advanced(b)) = [s \in DOMAIN fill \cup DOMAIN run.answers |-> stored[s]]
      BY <1>6, <1>7, <2>1
    <2>. QED BY <1>7, <2>2
  <1>9. b.leaf = way.leaf /\ b.next = way.next
    BY DEF Way
  <1>10. liveFlowAnswers(run, fill) = LiveAnswers(flow, Over(fill, before))
    <2>1. [s \in DOMAIN fill \cap Fields(run.node) |-> fill[s]] = fill
      <3>1. DOMAIN fill \cap Fields(run.node) = DOMAIN fill
        BY <1>1
      <3>. QED BY <1>1, <3>1
    <2>. QED BY <2>1 DEF liveFlowAnswers
  <1>11. \A s \in DOMAIN fill : ~ BoundError(flow, s, fill[s], LiveAnswers(flow, Over(fill, before)))
    BY <1>10 DEF Accepted
  <1>. HIDE DEF stored, way, before
  <1>12. Advanced(b).node = way.next /\ (Advanced(b).status # "awaiting" <=> way.leaf)
    BY <1>4, <1>5, <1>9
  <1>13. \A s \in DOMAIN Advanced(b).answers \ DOMAIN run.answers :
            ~ BoundError(flow, s, stored[s], LiveAnswers(flow, stored))
    BY <1>4, <1>6, <1>11
  <1>. QED BY <1>4, <1>8, <1>12, <1>13

\* A process that posts nothing may become what it will, while the run stays.
LEMMA RoutesElse ==
    ASSUME Shaped, KeptRoutes, NEW p \in Process, NEW s, Becomes(p, s), UNCHANGED <<flow, run>>,
           Routes(run, s)
    PROVE  KeptRoutes'
  <1>1. \A c : AsOf(run, c) => AsOf(run', c)
    BY DEF AsOf
  <1>. QED BY <1>1, RoutesMove

\* A party fills in its step, and marks it.
LEMMA RoutesFill ==
    ASSUME Forward, Shaped, KeptRoutes, NEW p \in Process,
           TakeTurn(p) \/ CustomerFills(p) \/ CustomerMarks(p)
    PROVE  KeptRoutes'
  <1>1. UNCHANGED <<flow, run>>
    BY DEF TakeTurn, CustomerFills, CustomerMarks
  <1>2. CASE TakeTurn(p)
    <2>1. PICK fill \in Fills(Fields(run.node) \cup Stray) :
              /\ Accepted(run, fill)
              /\ Becomes(p, [NoProc EXCEPT !.pc = "submit", !.run = run,
                                           !.body = Body(Org, run, fill, TRUE)])
      BY <1>2 DEF TakeTurn
    <2>. DEFINE b == Body(Org, run, fill, TRUE)
                s == [NoProc EXCEPT !.pc = "submit", !.run = run, !.body = b]
    <2>2. s.pc = "submit" /\ s.run = run /\ s.body = b
      BY DEF NoProc
    <2>3. Becomes(p, s)
      BY <2>1
    <2>. HIDE DEF s
    <2>4. Filled(run, s)
      BY <2>1, <2>2, BodyFilled
    <2>. QED BY <1>1, <2>2, <2>3, <2>4, RoutesElse DEF Routes
  <1>3. CASE CustomerFills(p)
    <2>. DEFINE Pc(fill) == IF DOMAIN fill = {} THEN "submit" ELSE "reread"
    <2>9. PICK fill \in Fills(Fields(run.node) \cup Stray) : \E marked :
              /\ Accepted(run, fill)
              /\ Becomes(p, [NoProc EXCEPT !.pc = Pc(fill), !.run = run,
                             !.body = [Body(UserOf[p], run, fill, FALSE) EXCEPT !.private = marked]])
      BY <1>3 DEF CustomerFills
    <2>1. PICK marked :
              /\ Accepted(run, fill)
              /\ Becomes(p, [NoProc EXCEPT !.pc = Pc(fill), !.run = run,
                             !.body = [Body(UserOf[p], run, fill, FALSE) EXCEPT !.private = marked]])
      BY <2>9
    <2>. DEFINE b == [Body(UserOf[p], run, fill, FALSE) EXCEPT !.private = marked]
                s == [NoProc EXCEPT !.pc = Pc(fill), !.run = run, !.body = b]
    <2>2. /\ b.answers = Body(UserOf[p], run, fill, FALSE).answers
          /\ b.leaf = Body(UserOf[p], run, fill, FALSE).leaf
          /\ b.next = Body(UserOf[p], run, fill, FALSE).next
      BY DEF Body
    <2>. HIDE DEF b
    <2>3. s.pc = Pc(fill) /\ s.run = run /\ s.body = b
      BY DEF NoProc
    <2>4. Becomes(p, s)
      BY <2>1 DEF b
    <2>. HIDE DEF s
    <2>5. Filled(run, s) /\ DOMAIN s.body.answers = DOMAIN fill
      BY <2>1, <2>2, <2>3, BodyFilled
    <2>6. Routes(run, s)
      BY <2>3, <2>5 DEF Routes
    <2>. QED BY <1>1, <2>4, <2>6, RoutesElse
  <1>4. CASE CustomerMarks(p)
    <2>. DEFINE b == proc[p].body
                c == [b EXCEPT !.private = @ \cup sourcePrivate(UserOf[p], run, DOMAIN b.answers)]
                s == [proc[p] EXCEPT !.pc = "submit", !.run = run, !.body = c]
    <2>1. proc[p].pc = "reread" /\ ProcOK(proc[p]) /\ Becomes(p, s)
      BY <1>4 DEF CustomerMarks, At, Shaped
    <2>2. Filled(run, proc[p]) /\ DOMAIN b.answers # {}
      BY <2>1 DEF KeptRoutes, Routes
    <2>3. /\ s.pc = "submit" /\ s.body = c /\ c.answers = b.answers /\ c.leaf = b.leaf
          /\ c.next = b.next
      BY <2>1 DEF ProcOK
    <2>. HIDE DEF c, s
    <2>4. Filled(run, s)
      BY <2>2, <2>3 DEF Filled
    <2>5. Becomes(p, s)
      BY <2>1 DEF c, s
    <2>. QED BY <1>1, <2>3, <2>4, <2>5, RoutesElse DEF Routes
  <1>. QED BY <1>2, <1>3, <1>4

\* What the run is after answers that are posted: what it was, or what they make of it.
LEMMA SubmitLeads ==
    ASSUME NEW p, Submit(p)
    PROVE  UNCHANGED run \/ (Takes(p) /\ run' = Advanced(proc[p].body))
  BY DEF Submit

\* Answers are posted, and whatever becomes of them, those of others remain what they were.
LEMMA RoutesSubmit ==
    ASSUME Forward, Shaped, KeptRoutes, NEW p \in Process, Submit(p)
    PROVE  KeptRoutes'
  <1>. DEFINE b == proc[p].body
              moved == IF Takes(p) THEN Advanced(b) ELSE run
  <1>1. /\ proc[p].pc = "submit" /\ UNCHANGED flow
        /\ \/ Takes(p) /\ Becomes(p, AfterSubmit(p, moved))
           \/ Ends(p) \/ Lost(p)
    BY DEF Submit, At
  <1>2. /\ flow \in Definition /\ run.node \in DOMAIN flow.party
        /\ DOMAIN run = {"status", "node", "answers", "private"} /\ Filled(run, proc[p])
    BY <1>1 DEF Shaped, RunOK, KeptRoutes, Routes
  <1>3. AfterSubmit(p, moved).pc \in {"idle", "inputs"}
    <2>. HIDE DEF moved
    <2>1. [NoProc EXCEPT !.pc = "inputs", !.run = moved].pc = "inputs"
      BY DEF NoProc
    <2>. QED BY <2>1, NoProcFields DEF AfterSubmit
  <1>4. \E s : /\ Becomes(p, s)
               /\ \/ s.pc \in {"idle", "inputs"}
                  \/ s.pc = "submit" /\ s.run = proc[p].run /\ s.body = proc[p].body
    BY <1>1, <1>3, LostPc, EndsPc
  <1>5. PICK s : /\ Becomes(p, s)
                 /\ \/ s.pc \in {"idle", "inputs"}
                    \/ s.pc = "submit" /\ s.run = proc[p].run /\ s.body = proc[p].body
    BY <1>4
  <1>6. Routes(run, s)
    <2>1. CASE s.pc \in {"idle", "inputs"}
      BY <2>1 DEF Routes
    <2>2. CASE s.pc = "submit" /\ s.run = proc[p].run /\ s.body = proc[p].body
      BY <1>2, <2>2 DEF Routes, Filled
    <2>. QED BY <1>5, <2>1, <2>2
  <1>7. CASE UNCHANGED run
    BY <1>1, <1>5, <1>6, <1>7, RoutesElse
  <1>8. CASE Takes(p) /\ run' = Advanced(b)
    <2>. DEFINE r == Advanced(b)
    <2>1. \/ r.node = run.node /\ r.status # "awaiting"
          \/ /\ \E i \in DOMAIN flow.edges :
                   flow.edges[i].from = run.node /\ flow.edges[i].to = r.node
             /\ r.status = "awaiting"
      BY <1>2, <1>8, AdvancedFacts
    <2>2. run.status = "awaiting"
      BY <1>8 DEF Takes, Turn
    <2>3. run' = r
      BY <1>8
    <2>. HIDE DEF r
    <2>4. r.node \in DOMAIN flow.party
      BY <1>2, <2>1, DefinitionFacts
    <2>5. r.node = run.node \/ Before(run.node, r.node)
      BY <1>2, <2>1, Order
    <2>6. r.status = "awaiting" => Before(run.node, r.node)
      BY <1>2, <2>1, Order
    <2>7. UpTo(run.node, r.node)
      BY <1>2, <2>4, <2>5, Order
    <2>8. \A c : AsOf(run, c) => AsOf(r, c)
      BY <1>2, <2>2, <2>4, <2>5, <2>6, <2>7, AsOfLater
    <2>. QED BY <1>1, <1>5, <1>6, <2>3, <2>8, RoutesMove
  <1>. QED BY <1>7, <1>8, SubmitLeads

\* Nothing else of a process is posted, nor do other steps change an answer.
LEMMA RoutesOthers ==
    ASSUME Shaped, KeptRoutes, NEW p \in Process,
           \/ Regenerate(p) \/ UploadInput(p) \/ Generate(p) \/ Refresh(p) \/ FetchPass(p)
           \/ CallPlugin(p) \/ Crash(p) \/ AskPlugin(p)
    PROVE  KeptRoutes' /\ ~ TakesAnswers
  <1>1. /\ UNCHANGED flow /\ RunOK
        /\ UNCHANGED run \/ (run.status = "generating" /\ run' = [run EXCEPT !.status = "done"])
    BY DEF Regenerate, UploadInput, Generate, Generates, Refresh, FetchPass, CallPlugin, Crash,
           AskPlugin, Shaped
  <1>2. ~ TakesAnswers /\ \A c : AsOf(run, c) => AsOf(run', c)
    <2>1. CASE UNCHANGED run
      BY <2>1 DEF AsOf, TakesAnswers
    <2>2. CASE run.status = "generating" /\ run' = [run EXCEPT !.status = "done"]
      <3>1. run'.status = "done" /\ run'.node = run.node
        BY <1>1, <2>2 DEF RunOK
      <3>. QED BY <2>2, <3>1 DEF AsOf, TakesAnswers
    <2>. QED BY <1>1, <2>1, <2>2
  <1>. SUFFICES KeptRoutes'
    BY <1>2
  <1>3. ASSUME NEW s, Becomes(p, s), s.pc \notin {"reread", "submit"} PROVE KeptRoutes'
    <2>1. Routes(run, s)
      BY <1>3 DEF Routes
    <2>. QED BY <1>1, <1>2, <1>3, <2>1, RoutesMove
  <1>4. ASSUME Ends(p) PROVE KeptRoutes'
    BY <1>3, <1>4, EndsPc
  <1>5. CASE Regenerate(p)
    <2>. DEFINE s == [NoProc EXCEPT !.pc = "inputs", !.run = run]
    <2>1. s.pc = "inputs" /\ Becomes(p, s)
      BY <1>5 DEF NoProc, Regenerate
    <2>. HIDE DEF s
    <2>. QED BY <1>3, <2>1
  <1>6. CASE AskPlugin(p)
    <2>1. PICK x, y : Becomes(p, [NoProc EXCEPT !.pc = "pass", !.slug = x, !.sends = y])
      BY <1>6 DEF AskPlugin
    <2>. DEFINE s == [NoProc EXCEPT !.pc = "pass", !.slug = x, !.sends = y]
    <2>2. s.pc = "pass" /\ Becomes(p, s)
      BY <2>1 DEF NoProc
    <2>. HIDE DEF s
    <2>. QED BY <1>3, <2>2
  <1>7. CASE UploadInput(p) \/ Generate(p)
    <2>1. proc[p].pc = "inputs" /\ ProcOK(proc[p])
      BY <1>7 DEF UploadInput, Generate, At, Shaped
    <2>2. ASSUME NEW d, Becomes(p, [proc[p] EXCEPT !.inputs = @ \cup {d}]) PROVE KeptRoutes'
      <3>. DEFINE s == [proc[p] EXCEPT !.inputs = @ \cup {d}]
      <3>1. s.pc = "inputs" /\ Becomes(p, s)
        BY <2>1, <2>2 DEF ProcOK
      <3>. HIDE DEF s
      <3>. QED BY <1>3, <3>1
    <2>3. CASE Becomes(p, [proc[p] EXCEPT !.pc = "refresh"])
      <3>. DEFINE s == [proc[p] EXCEPT !.pc = "refresh"]
      <3>1. s.pc = "refresh" /\ Becomes(p, s)
        BY <2>1, <2>3 DEF ProcOK
      <3>. HIDE DEF s
      <3>. QED BY <1>3, <3>1
    <2>4. CASE Lost(p)
      BY <1>3, <2>1, <2>4, LostPc
    <2>5. CASE Ends(p)
      BY <1>4, <2>5
    <2>. QED BY <1>7, <2>2, <2>3, <2>4, <2>5 DEF UploadInput, Generate
  <1>8. CASE FetchPass(p) \/ CallPlugin(p)
    <2>1. proc[p].pc \in {"pass", "call"} /\ ProcOK(proc[p])
      BY <1>8 DEF FetchPass, CallPlugin, At, Shaped
    <2>2. ASSUME Becomes(p, [proc[p] EXCEPT !.pc = "call", !.key = key])
          PROVE  KeptRoutes'
      <3>. DEFINE s == [proc[p] EXCEPT !.pc = "call", !.key = key]
      <3>1. s.pc = "call" /\ Becomes(p, s)
        BY <2>1, <2>2 DEF ProcOK
      <3>. HIDE DEF s
      <3>. QED BY <1>3, <3>1
    <2>3. CASE Becomes(p, [proc[p] EXCEPT !.key = key, !.resealed = TRUE])
      <3>. DEFINE s == [proc[p] EXCEPT !.key = key, !.resealed = TRUE]
      <3>1. s.pc = proc[p].pc /\ Becomes(p, s)
        BY <2>1, <2>3 DEF ProcOK
      <3>. HIDE DEF s
      <3>. QED BY <1>3, <2>1, <3>1
    <2>4. CASE Becomes(p, [proc[p] EXCEPT !.key = key, !.renewed = TRUE])
      <3>. DEFINE s == [proc[p] EXCEPT !.key = key, !.renewed = TRUE]
      <3>1. s.pc = proc[p].pc /\ Becomes(p, s)
        BY <2>1, <2>4 DEF ProcOK
      <3>. HIDE DEF s
      <3>. QED BY <1>3, <2>1, <3>1
    <2>5. CASE Ends(p)
      BY <1>4, <2>5
    <2>. QED BY <1>8, <2>2, <2>3, <2>4, <2>5 DEF FetchPass, CallPlugin
  <1>9. CASE Crash(p) \/ Refresh(p)
    BY <1>4, <1>9 DEF Crash, Refresh
  <1>. QED BY <1>2, <1>5, <1>6, <1>7, <1>8, <1>9

\* A step that leaves the run and the processes alone.
LEMMA RoutesSame ==
    ASSUME KeptRoutes, UNCHANGED <<flow, run, proc>>
    PROVE  KeptRoutes'
  <1>1. \A p \in Process : Routes(run', proc'[p])
    BY DEF KeptRoutes
  <1>. QED BY <1>1, SameRoutes DEF KeptRoutes

\* No step makes what is posted other than what was filled in.
LEMMA RoutesStep == Forward /\ Shaped /\ KeptRoutes /\ [Next]_vars => KeptRoutes'
  <1>. SUFFICES ASSUME Forward, Shaped, KeptRoutes, [Next]_vars PROVE KeptRoutes'
    OBVIOUS
  <1>1. CASE UNCHANGED vars
    BY <1>1, RoutesSame DEF vars
  <1>2. CASE RotatePlugin
    BY <1>2, RoutesSame DEF RotatePlugin
  <1>3. ASSUME NEW p \in Process,
               Drive(p) \/ Call(p) \/ Crash(p) \/ AskPlugin(p)
        PROVE  KeptRoutes'
    BY <1>3, RoutesFill, RoutesSubmit, RoutesOthers DEF Drive, Call
  <1>. QED BY <1>1, <1>2, <1>3 DEF Next

\* Whoever answers, from whichever copy of the run and however often it is sent: where answers
\* are taken of which the step can be told, the run goes where its stored answers lead it, and
\* what is stored is within its bounds over what is stored, over definitions whose steps lead
\* on and whose conditions and bounds do not tell a value filled in from its text.
THEOREM Routed == Forward /\ TextsAlike => (Spec => RoutedAsStored)
  <1>. DEFINE A == TakesAnswers =>
                     LET stored == Opened(run')
                         way == NextNode(flow, run.node, stored)
                         new == DOMAIN run'.answers \ DOMAIN run.answers
                     IN  /\ run'.node = way.next
                         /\ run'.status # "awaiting" <=> way.leaf
                         /\ \A s \in new :
                              ~ BoundError(flow, s, stored[s], LiveAnswers(flow, stored))
  <1>1. ASSUME Forward, TextsAlike PROVE Spec => RoutedAsStored
    <2>1. Init => Shaped /\ KeptRoutes
      <3>1. Init => KeptRoutes
        BY NoProcFields DEF Init, KeptRoutes, Routes
      <3>. QED BY <3>1, ShapedInit
    <2>2. (Shaped /\ KeptRoutes) /\ [Next]_vars => (Shaped /\ KeptRoutes)'
      BY <1>1, ShapedStep, RoutesStep
    <2>3. (Shaped /\ KeptRoutes) /\ [Next]_vars => [A]_vars
      <3>. SUFFICES ASSUME Shaped, KeptRoutes, [Next]_vars, ~ UNCHANGED vars PROVE A
        OBVIOUS
      <3>1. CASE UNCHANGED run
        BY <3>1 DEF TakesAnswers
      <3>2. ASSUME NEW p \in Process, Submit(p), Takes(p), run' = Advanced(proc[p].body),
                   TakesAnswers
            PROVE  A
        <4>. DEFINE b == proc[p].body
        <4>1. At(p, "submit") /\ DOMAIN run'.answers = DOMAIN b.answers \cup DOMAIN run.answers
          BY <3>2, AdvancedFacts DEF Submit, Shaped, RunOK
        <4>2. DOMAIN b.answers # {} \/ proc[p].run.node = run.node
          BY <3>2, <4>1 DEF TakesAnswers
        <4>3. PICK fill \in Fills(Fields(run.node)) :
                  /\ Accepted(run, fill)
                  /\ DOMAIN b.answers = DOMAIN fill
                  /\ \A s \in DOMAIN fill : b.answers[s].v = flowPlain(fill[s])
                  /\ b.leaf = Way(run, fill).leaf
                  /\ b.next = Way(run, fill).next
          BY <1>1, <3>2, <4>1, <4>2, TakenFilled DEF At
        <4>. HIDE DEF b
        <4>4. LET r == Advanced(b)
                  stored == Opened(r)
                  way == NextNode(flow, run.node, stored)
              IN  /\ r.node = way.next
                  /\ r.status # "awaiting" <=> way.leaf
                  /\ \A s \in DOMAIN r.answers \ DOMAIN run.answers :
                       ~ BoundError(flow, s, stored[s], LiveAnswers(flow, stored))
          BY <1>1, <4>3, TakenRoutes
        <4>5. run' = Advanced(b)
          BY <3>2 DEF b
        <4>. QED BY <4>4, <4>5
      <3>3. ASSUME NEW p \in Process, Submit(p) PROVE A
        BY <3>1, <3>2, <3>3, SubmitLeads
      <3>4. ASSUME NEW p \in Process,
                   \/ Regenerate(p) \/ UploadInput(p) \/ Generate(p) \/ Refresh(p) \/ FetchPass(p)
                   \/ CallPlugin(p) \/ Crash(p) \/ AskPlugin(p)
            PROVE  A
        BY <3>4, RoutesOthers
      <3>5. ASSUME NEW p \in Process, TakeTurn(p) \/ CustomerFills(p) \/ CustomerMarks(p) PROVE A
        <4>1. UNCHANGED run
          BY <3>5 DEF TakeTurn, CustomerFills, CustomerMarks
        <4>. QED BY <3>1, <4>1
      <3>6. CASE RotatePlugin
        BY <3>1, <3>6 DEF RotatePlugin
      <3>7. ASSUME NEW p \in Process,
                   Drive(p) \/ Call(p) \/ Crash(p) \/ AskPlugin(p)
            PROVE  A
        <4>. HIDE DEF A
        <4>. QED BY <3>3, <3>4, <3>5, <3>7 DEF Drive, Call
      <3>. HIDE DEF A
      <3>. QED BY <3>6, <3>7 DEF Next
    <2>. QED BY <2>1, <2>2, <2>3, PTL DEF Spec, RoutedAsStored
  <1>. QED BY <1>1
=============================================================================
