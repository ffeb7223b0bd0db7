---------------------------- MODULE FlowConstants ----------------------------
(***************************************************************************)
(* The constants of a flow definition (flowconstants.go) and what of them  *)
(* may be sent to a plugin (plugin.go).                                    *)
(*                                                                         *)
(* ComputeConstants orders the constants by a depth-first search over the  *)
(* keys their expressions name, then evaluates them in that order into the *)
(* map of answers.  pluginInputs sends a key of that map only if           *)
(* flowPrivacy finds no private answer behind it, which it decides from    *)
(* the definition alone.  What an expression does with its operands is     *)
(* left out: a value is the set of answers it may have been computed from. *)
(***************************************************************************)
EXTENDS Integers, FiniteSets, Sequences, SequencesExt

CONSTANTS
    Key,           \* keys of the live map: slugs, dotted plugin keys, constants
    BaseOf,        \* the key itself; of a dotted plugin key, its plugin's slug
    Definition,    \* the definitions considered
    MaxRank        \* ranks that order a definition without a cycle

\* declared: the constants, in order (a key may be declared twice).  refs: the keys a
\* constant's expression names, first use first, conditions included.  defaults: the keys
\* that the default of a drafted field names.  answered: keys with an answer, plugin
\* answers expanded.  private: answers that are another party's private values.  wired: the
\* keys wired to a plugin's inputs.
DefinitionType ==
    [declared : Seq(Key), refs : [Key -> Seq(Key)], defaults : [Key -> SUBSET Key],
     answered : SUBSET Key, private : SUBSET Key, wired : SUBSET Key]

ASSUME RankAssumption == MaxRank \in Nat
ASSUME BaseAssumption == BaseOf \in [Key -> Key]
ASSUME DefinitionAssumption ==
    /\ Definition \subseteq DefinitionType
    /\ \A d \in Definition : \A k \in ToSet(d.declared) : BaseOf[k] = k

VARIABLES
    def,      \* the definition
    stack,    \* the calls of visit in progress, each a key and its next dependency
    color,    \* state: "white", "grey" on the stack, "black" done
    next,     \* the next declared key to visit
    order,    \* constants in the order they were finished
    out,      \* the map: its keys
    source,   \* the answers each value of the map may come from
    done,     \* how many constants are evaluated
    back,     \* history: dependencies skipped because they were grey
    sent      \* keys sent to the plugin

vars == <<def, stack, color, next, order, out, source, done, back, sent>>

Constants == ToSet(def.declared)

\* The keys that a key leads to in any number of steps.
Behind(step, k) ==
    LET closed == {S \in SUBSET Key : k \in S /\ \A x \in S : step[x] \subseteq S}
    IN  {r \in Key : \A S \in closed : r \in S}

\* The keys a value is computed from: that of a drafted field from the keys of its default,
\* a constant's from those its expression names.
Feeds ==
    [k \in Key |-> IF k \in def.answered THEN def.defaults[BaseOf[k]]
                   ELSE IF k \in Constants THEN ToSet(def.refs[k]) ELSE {}]

\* The answers behind an answer, itself among them.
AnswerSource(k) == {BaseOf[r] : r \in Behind(Feeds, k) \cap def.answered}

TypeOK ==
    /\ def \in Definition
    /\ stack \in Seq([key : Constants, dep : Nat \ {0}])
    /\ color \in [Key -> {"white", "grey", "black"}]
    /\ next \in Nat \ {0}
    /\ order \in Seq(Constants)
    /\ out \subseteq Key
    /\ source \in [Key -> SUBSET Key]
    /\ done \in Nat
    /\ back \subseteq Key \X Key
    /\ sent \subseteq Key

Init ==
    /\ def \in Definition
    /\ stack = <<>>
    /\ color = [k \in Key |-> "white"]
    /\ next = 1
    /\ order = <<>>
    /\ out = def.answered
    /\ source = [k \in Key |-> IF k \in def.answered THEN AnswerSource(k) ELSE {}]
    /\ done = 0
    /\ back = {}
    /\ sent = {}

-----------------------------------------------------------------------------
(* The order: visit, for each declared key and each dependency.             *)

Push(k) ==
    /\ stack' = Append(stack, [key |-> k, dep |-> 1])
    /\ color' = [color EXCEPT ![k] = "grey"]

Visit ==
    /\ stack = <<>> /\ next <= Len(def.declared)
    /\ next' = next + 1
    /\ IF color[def.declared[next]] = "white" THEN Push(def.declared[next])
       ELSE UNCHANGED <<stack, color>>
    /\ UNCHANGED <<def, order, out, source, done, back, sent>>

Top == stack[Len(stack)]
Refs(k) == def.refs[k]
Popped == SubSeq(stack, 1, Len(stack) - 1)

\* The caller's loop goes on behind the dependency it visits.
Advanced == [stack EXCEPT ![Len(stack)].dep = @ + 1]

\* Mutant of Descend: a dependency is visited only by the declared keys' own turn.
SkipsDependency ==
    /\ stack # <<>> /\ Top.dep <= Len(Refs(Top.key))
    /\ stack' = Advanced
    /\ UNCHANGED <<def, color, next, order, out, source, done, back, sent>>

Descend ==
    /\ stack # <<>> /\ Top.dep <= Len(Refs(Top.key))
    /\ LET d == Refs(Top.key)[Top.dep]
       IN  IF d \in Constants /\ color[d] = "white"
           THEN /\ stack' = Append(Advanced, [key |-> d, dep |-> 1])
                /\ color' = [color EXCEPT ![d] = "grey"]
                /\ UNCHANGED back
           ELSE /\ stack' = Advanced
                /\ back' = IF d \in Constants /\ color[d] = "grey"
                           THEN back \cup {<<Top.key, d>>} ELSE back
                /\ UNCHANGED color
    /\ UNCHANGED <<def, next, order, out, source, done, sent>>

\* Mutant of Finish: a finished constant stays grey.
FinishesGrey ==
    /\ stack # <<>> /\ Top.dep > Len(Refs(Top.key))
    /\ order' = Append(order, Top.key)
    /\ stack' = Popped
    /\ UNCHANGED <<def, color, next, out, source, done, back, sent>>

Finish ==
    /\ stack # <<>> /\ Top.dep > Len(Refs(Top.key))
    /\ color' = [color EXCEPT ![Top.key] = "black"]
    /\ order' = Append(order, Top.key)
    /\ stack' = Popped
    /\ UNCHANGED <<def, next, out, source, done, back, sent>>

Ordered == stack = <<>> /\ next > Len(def.declared)

-----------------------------------------------------------------------------
(* The values, and what may be sent.                                        *)

\* An expression reads the keys it names from the map as it is by then.
Evaluate ==
    /\ Ordered /\ done < Len(order)
    /\ LET k == order[done + 1]
       IN  /\ out' = out \cup {k}
           /\ source' = [source EXCEPT ![k] = UNION {source[r] : r \in ToSet(Refs(k)) \cap out}]
    /\ done' = done + 1
    /\ UNCHANGED <<def, stack, color, next, order, back, sent>>

\* The keys one step of isPrivate leads to: a constant's refs, a drafted field's defaults.
\* A constant of the same key hides an answer.
LeadsTo(k) ==
    LET b == BaseOf[k] IN IF b \in Constants THEN ToSet(Refs(b)) ELSE def.defaults[b]

\* Mutant of Reached: the refs of a constant are looked at, not what lies behind them.
ReachedInOne(k) == {k} \cup LeadsTo(k)

\* All keys isPrivate comes by; its seen set cuts what was visited before.
Reached(k) == Behind([x \in Key |-> LeadsTo(x)], k)

IsPrivate(k) ==
    \E r \in Reached(k) : BaseOf[r] \notin Constants /\ BaseOf[r] \in def.private

\* pluginInputs.
Send(k) ==
    /\ Ordered /\ done = Len(order)
    /\ k \in def.wired \cap (out \ sent) /\ ~ IsPrivate(k)
    /\ sent' = sent \cup {k}
    /\ UNCHANGED <<def, stack, color, next, order, out, source, done, back>>

Next == Visit \/ Descend \/ Finish \/ Evaluate \/ \E k \in Key : Send(k)

Spec == Init /\ [][Next]_vars

-----------------------------------------------------------------------------
(* Properties.                                                              *)

Before(d, k) ==
    \E i, j \in DOMAIN order : i < j /\ order[i] = d /\ order[j] = k

\* "The post-order guarantees each constant is computed after its dependencies", in
\* whatever order they are declared; the dependencies skipped are the back edges of cycles.
DependenciesFirst ==
    \A j \in DOMAIN order :
        \A d \in ToSet(Refs(order[j])) \cap Constants :
            Before(d, order[j]) \/ <<order[j], d>> \in back

\* A definition without a cycle has no back edge (its keys can be ranked so that a
\* dependency has the smaller rank), so there the order is topological.
Ranks(rank) ==
    \A k \in Constants : \A d \in ToSet(Refs(k)) \cap Constants : rank[d] < rank[k]
OnlyCyclesAreCut ==
    \A rank \in [Constants -> 0 .. MaxRank] : Ranks(rank) => back = {}

\* Nothing that may come from another party's private value is sent to a plugin, through
\* however many constants and drafted defaults, in a definition whose constants have keys
\* of their own.
OwnKeys == Constants \cap {BaseOf[k] : k \in def.answered} = {}
NothingPrivateIsSent == OwnKeys => \A k \in sent : source[k] \cap def.private = {}
=============================================================================
