------------------------- MODULE FlowConstantsProofs -------------------------
(***************************************************************************)
(* Proofs about FlowConstants, for any definition: any number of constants *)
(* over each other, in any order, with any cycles.                         *)
(*                                                                         *)
(* The invariant says where the search stands.  The keys on the stack are  *)
(* exactly the grey ones, the finished ones exactly the black ones, and    *)
(* what a key on the stack has passed over is black, cut, or the key above *)
(* it.  For a definition whose keys can be ranked, the ranks fall from the *)
(* bottom of the stack to its top, so the key on top names no grey key.    *)
(***************************************************************************)
EXTENDS FlowConstants, SequenceTheorems, TLAPS

OnStack(k) == \E i \in DOMAIN stack : stack[i].key = k
InOrder(k) == \E j \in DOMAIN order : order[j] = k

\* Grey is on the stack, once, and black is in the order.
Colors ==
    \A k \in Key : /\ color[k] = "grey" <=> OnStack(k)
                   /\ color[k] = "black" <=> InOrder(k)
Distinct == \A i, j \in DOMAIN stack : stack[i].key = stack[j].key => i = j

\* What becomes of a dependency that the key at place i has passed over.
Settled(i, d) ==
    \/ color[d] = "black"
    \/ <<stack[i].key, d>> \in back
    \/ i < Len(stack) /\ d = stack[i + 1].key

Passed ==
    \A i \in DOMAIN stack : \A n \in DOMAIN Refs(stack[i].key) :
        LET d == Refs(stack[i].key)[n]
        IN  n < stack[i].dep /\ d \in Constants => Settled(i, d)

\* The ranks fall along the stack.
Falling(rank) ==
    \A i, j \in DOMAIN stack : i < j => rank[stack[j].key] < rank[stack[i].key]
Ranked ==
    \A rank \in [Constants -> 0 .. MaxRank] : Ranks(rank) => back = {} /\ Falling(rank)

Inv == TypeOK /\ Colors /\ Distinct /\ Passed /\ DependenciesFirst /\ Ranked
-----------------------------------------------------------------------------
(* What a definition and the top of the stack look like.                    *)

Entry == [key : Constants, dep : Nat \ {0}]

\* The parts of a definition have their types.
LEMMA DefinitionTyped ==
    ASSUME def \in Definition
    PROVE  /\ def.declared \in Seq(Key)
           /\ Constants \subseteq Key
           /\ \A n \in DOMAIN def.declared : def.declared[n] \in Constants
           /\ \A k \in Key : Refs(k) \in Seq(Key)
  <1>1. def \in DefinitionType
    BY DefinitionAssumption
  <1>2. def.declared \in Seq(Key) /\ def.refs \in [Key -> Seq(Key)]
    BY <1>1 DEF DefinitionType
  <1>3. Constants = {def.declared[n] : n \in DOMAIN def.declared}
    BY DEF Constants, ToSet
  <1> QED
    BY <1>2, <1>3 DEF Refs

\* A stack that is not empty has its top, a constant with its next dependency.
LEMMA TopTyped ==
    ASSUME TypeOK, stack # <<>>
    PROVE  /\ Len(stack) \in Nat \ {0}
           /\ Len(stack) \in DOMAIN stack
           /\ Top = stack[Len(stack)]
           /\ Top \in Entry /\ Top.key \in Constants /\ Top.key \in Key
           /\ Top.dep \in Nat \ {0}
           /\ Refs(Top.key) \in Seq(Key)
  <1>1. stack \in Seq(Entry)
    BY DEF TypeOK, Entry
  <1>2. Len(stack) \in Nat \ {0} /\ DOMAIN stack = 1 .. Len(stack)
    BY <1>1
  <1>3. Top \in Entry
    BY <1>1, <1>2 DEF Top
  <1> QED
    BY <1>2, <1>3, DefinitionTyped DEF Top, Entry, TypeOK

\* Advancing the top keeps every key, and moves only the dependency of the top.
LEMMA AdvancedShape ==
    ASSUME TypeOK, stack # <<>>
    PROVE  /\ Advanced \in Seq(Entry)
           /\ Len(Advanced) = Len(stack)
           /\ DOMAIN Advanced = DOMAIN stack
           /\ \A i \in DOMAIN stack :
                 /\ Advanced[i].key = stack[i].key
                 /\ Advanced[i].dep = IF i = Len(stack) THEN stack[i].dep + 1 ELSE stack[i].dep
  <1>1. stack \in Seq(Entry) /\ DOMAIN stack = 1 .. Len(stack) /\ Len(stack) \in Nat
    BY DEF TypeOK, Entry
  <1>2. Advanced = [stack EXCEPT ![Len(stack)] =
                       [key |-> stack[Len(stack)].key, dep |-> stack[Len(stack)].dep + 1]]
    <2>1. stack[Len(stack)] \in Entry
      BY TopTyped
    <2>2. [stack[Len(stack)] EXCEPT !.dep = stack[Len(stack)].dep + 1]
              = [key |-> stack[Len(stack)].key, dep |-> stack[Len(stack)].dep + 1]
      BY <2>1 DEF Entry
    <2> QED
      BY <2>2, <1>1 DEF Advanced
  <1>3. [key |-> stack[Len(stack)].key, dep |-> stack[Len(stack)].dep + 1] \in Entry
    BY TopTyped DEF Entry
  <1>4. Advanced \in Seq(Entry) /\ Len(Advanced) = Len(stack) /\ DOMAIN Advanced = DOMAIN stack
    BY <1>1, <1>2, <1>3
  <1>5. \A i \in DOMAIN stack : Advanced[i] =
            IF i = Len(stack)
            THEN [key |-> stack[i].key, dep |-> stack[i].dep + 1] ELSE stack[i]
    BY <1>1, <1>2
  <1> QED
    BY <1>4, <1>5

\* What is pushed lies on top of the rest.
LEMMA PushedShape ==
    ASSUME NEW s \in Seq(Entry), NEW d \in Constants
    PROVE  LET t == Append(s, [key |-> d, dep |-> 1])
           IN  /\ t \in Seq(Entry)
               /\ Len(t) = Len(s) + 1
               /\ DOMAIN t = 1 .. Len(s) + 1 /\ DOMAIN s = 1 .. Len(s) /\ Len(s) \in Nat
               /\ \A i \in DOMAIN s : t[i] = s[i]
               /\ t[Len(s) + 1].key = d /\ t[Len(s) + 1].dep = 1
  <1>1. [key |-> d, dep |-> 1] \in Entry
    BY DEF Entry
  <1> QED
    BY <1>1

\* What is popped uncovers the rest.
LEMMA PoppedShape ==
    ASSUME TypeOK, stack # <<>>
    PROVE  /\ Popped \in Seq(Entry)
           /\ Len(Popped) = Len(stack) - 1
           /\ DOMAIN Popped = 1 .. Len(stack) - 1 /\ DOMAIN stack = 1 .. Len(stack)
           /\ \A i \in DOMAIN Popped : Popped[i] = stack[i]
  <1>1. stack \in Seq(Entry)
    BY DEF TypeOK, Entry
  <1>2. Len(stack) \in Nat \ {0} /\ DOMAIN stack = 1 .. Len(stack)
    BY <1>1, TopTyped
  <1> DEFINE n == Len(stack) - 1
  <1>3. n \in Nat /\ \A i \in 1 .. n : stack[i] \in Entry
    BY <1>1, <1>2
  <1> HIDE DEF n
  <1>4. /\ SubSeq(stack, 1, n) \in Seq(Entry)
        /\ Len(SubSeq(stack, 1, n)) = n
        /\ \A i \in 1 .. n : SubSeq(stack, 1, n)[i] = stack[i]
    BY <1>3, SubSeqProperties
  <1> QED
    BY <1>2, <1>4 DEF Popped, n

\* The two ways a dependency is passed over.
DescendInto(d) ==
    /\ d \in Constants /\ color[d] = "white"
    /\ stack' = Append(Advanced, [key |-> d, dep |-> 1])
    /\ color' = [color EXCEPT ![d] = "grey"]
    /\ back' = back
DescendPast(d) ==
    /\ ~ (d \in Constants /\ color[d] = "white")
    /\ stack' = Advanced
    /\ back' = (IF d \in Constants /\ color[d] = "grey" THEN back \cup {<<Top.key, d>>} ELSE back)
    /\ color' = color

\* Descend takes the next dependency of the top, one way or the other.
LEMMA DescendShape ==
    ASSUME TypeOK, Descend
    PROVE  /\ stack # <<>>
           /\ \E d \in Key :
                 /\ Top.dep \in DOMAIN Refs(Top.key) /\ d = Refs(Top.key)[Top.dep]
                 /\ DescendInto(d) \/ DescendPast(d)
           /\ UNCHANGED <<def, next, order, out, source, done, sent>>
  <1>1. stack # <<>> /\ Top.dep <= Len(Refs(Top.key))
    BY DEF Descend
  <1>2. Refs(Top.key) \in Seq(Key) /\ Top.dep \in Nat \ {0}
    BY <1>1, TopTyped
  <1>3. Top.dep \in DOMAIN Refs(Top.key) /\ Refs(Top.key)[Top.dep] \in Key
    BY <1>1, <1>2
  <1>4. DescendInto(Refs(Top.key)[Top.dep]) \/ DescendPast(Refs(Top.key)[Top.dep])
    BY DEF Descend, DescendInto, DescendPast
  <1> QED
    BY <1>1, <1>3, <1>4 DEF Descend

-----------------------------------------------------------------------------
(* Types.                                                                   *)

\* Every variable keeps its type.
LEMMA TypeStep ==
    ASSUME TypeOK, [Next]_vars
    PROVE  TypeOK'
  <1>1. stack \in Seq(Entry) /\ order \in Seq(Constants) /\ Constants \subseteq Key
    BY DefinitionTyped DEF TypeOK, Entry
  <1>2. CASE Visit
    <2>1. def' = def /\ Constants' = Constants
      BY <1>2 DEF Visit, Constants
    <2>2. def.declared[next] \in Constants
      BY <1>2, DefinitionTyped DEF Visit, TypeOK
    <2>3. stack' \in Seq(Entry)
      BY <1>1, <1>2, <2>2, PushedShape DEF Visit, Push
    <2>4. color' \in [Key -> {"white", "grey", "black"}]
      BY <1>2 DEF Visit, Push, TypeOK
    <2> QED
      BY <1>2, <2>1, <2>3, <2>4 DEF Visit, TypeOK, Entry
  <1>3. CASE Descend
    <2>1. def' = def /\ Constants' = Constants
      BY <1>3 DEF Descend, Constants
    <2>2. PICK d \in Key : DescendInto(d) \/ DescendPast(d)
      BY <1>3, DescendShape
    <2>3. stack # <<>> /\ UNCHANGED <<def, next, order, out, source, done, sent>>
      BY <1>3, DescendShape
    <2>4. stack' \in Seq(Entry)
      BY <2>2, <2>3, AdvancedShape, PushedShape DEF DescendInto, DescendPast
    <2>5. color' \in [Key -> {"white", "grey", "black"}]
      BY <2>2 DEF DescendInto, DescendPast, TypeOK
    <2>6. back' \subseteq Key \X Key
      BY <2>2, <2>3, TopTyped DEF DescendInto, DescendPast, TypeOK
    <2> QED
      BY <2>1, <2>3, <2>4, <2>5, <2>6 DEF TypeOK, Entry
  <1>4. CASE Finish
    <2>1. def' = def /\ Constants' = Constants
      BY <1>4 DEF Finish, Constants
    <2>2. stack # <<>>
      BY <1>4 DEF Finish
    <2>3. stack' \in Seq(Entry)
      BY <1>4, <2>2, PoppedShape DEF Finish
    <2>4. order' \in Seq(Constants)
      BY <1>1, <1>4, <2>2, TopTyped DEF Finish
    <2>5. color' \in [Key -> {"white", "grey", "black"}]
      BY <1>4 DEF Finish, TypeOK
    <2> QED
      BY <1>4, <2>1, <2>3, <2>4, <2>5 DEF Finish, TypeOK, Entry
  <1>5. CASE Evaluate
    <2>1. def' = def /\ Constants' = Constants
      BY <1>5 DEF Evaluate, Constants
    <2>2. order[done + 1] \in Key
      BY <1>1, <1>5 DEF Evaluate, TypeOK
    <2>3. source' \in [Key -> SUBSET Key]
      <3> DEFINE k == order[done + 1]
                 v == UNION {source[r] : r \in (ToSet(Refs(k))) \cap out}
      <3>1. source' = [source EXCEPT ![k] = v]
        BY <1>5 DEF Evaluate
      <3>2. v \subseteq Key
        BY DEF TypeOK
      <3> QED
        BY <3>1, <3>2 DEF TypeOK
    <2>4. out' \subseteq Key
      BY <1>5, <2>2 DEF Evaluate, TypeOK
    <2> QED
      BY <1>5, <2>1, <2>3, <2>4 DEF Evaluate, TypeOK
  <1>6. CASE \E k \in Key : Send(k)
    <2>1. def' = def /\ Constants' = Constants
      BY <1>6 DEF Send, Constants
    <2> QED
      BY <1>6, <2>1 DEF Send, TypeOK
  <1>7. CASE UNCHANGED vars
    <2>1. def' = def /\ Constants' = Constants
      BY <1>7 DEF vars, Constants
    <2> QED
      BY <1>7, <2>1 DEF vars, TypeOK
  <1> QED
    BY <1>2, <1>3, <1>4, <1>5, <1>6, <1>7 DEF Next

-----------------------------------------------------------------------------
(* The invariant, action by action.                                         *)

\* What an action that leaves the search alone preserves.
LEMMA SearchStands ==
    ASSUME Inv, UNCHANGED <<def, stack, color, order, back>>
    PROVE  Colors' /\ Distinct' /\ Passed' /\ DependenciesFirst' /\ Ranked'
  <1>1. Constants' = Constants /\ \A k : Refs(k)' = Refs(k)
    BY DEF Constants, Refs
  <1>2. Colors' /\ Distinct'
    BY DEF Inv, Colors, Distinct, OnStack, InOrder
  <1>3. Passed'
    BY <1>1 DEF Inv, Passed, Settled, Refs
  <1>4. DependenciesFirst'
    BY <1>1 DEF Inv, DependenciesFirst, Before, Refs
  <1>5. Ranked'
    BY <1>1 DEF Inv, Ranked, Ranks, Falling, Refs
  <1> QED
    BY <1>2, <1>3, <1>4, <1>5

\* A declared key is visited while nothing is on the stack.
LEMMA VisitPreserves ==
    ASSUME Inv, Visit
    PROVE  Colors' /\ Distinct' /\ Passed' /\ DependenciesFirst' /\ Ranked'
  <1> DEFINE k == def.declared[next]
  <1>1. CASE color[k] # "white"
    BY <1>1, SearchStands DEF Visit
  <1>2. CASE color[k] = "white"
    <2>1. k \in Constants /\ k \in Key
      BY DefinitionTyped DEF Visit, Inv, TypeOK
    <2>2. stack = <<>> /\ UNCHANGED <<def, order, back>>
      BY DEF Visit
    <2>3. /\ Len(stack') = 1 /\ DOMAIN stack' = {1}
          /\ stack'[1].key = k /\ stack'[1].dep = 1
      <3>1. stack' = <<[key |-> k, dep |-> 1]>>
        BY <1>2, <2>2 DEF Visit, Push
      <3> QED
        BY <3>1
    <2>4. color' = [color EXCEPT ![k] = "grey"] /\ color \in [Key -> {"white", "grey", "black"}]
      BY <1>2 DEF Visit, Push, Inv, TypeOK
    <2> HIDE DEF k
    <2>5. Constants' = Constants /\ \A x : Refs(x)' = Refs(x)
      BY <2>2 DEF Constants, Refs
    <2>6. Colors'
      <3>1. \A x : OnStack(x)' <=> x = k
        BY <2>3 DEF OnStack
      <3>2. \A x : InOrder(x)' <=> InOrder(x)
        BY <2>2 DEF InOrder
      <3>3. \A x : ~ OnStack(x)
        BY <2>2 DEF OnStack
      <3> QED
        BY <1>2, <2>1, <2>4, <3>1, <3>2, <3>3 DEF Inv, Colors
    <2>7. Distinct'
      BY <2>3 DEF Distinct
    <2>8. Passed'
      <3>1. def.refs[k] \in Seq(Key)
        BY <2>1, DefinitionTyped DEF Inv, TypeOK, Refs
      <3>2. \A n \in DOMAIN def.refs[k] : ~ (n < 1)
        BY <3>1
      <3>3. \A i \in DOMAIN stack' : stack'[i].key = k /\ stack'[i].dep = 1
        BY <2>3
      <3>4. \A i \in DOMAIN stack' : \A n \in DOMAIN def.refs[stack'[i].key] : ~ (n < stack'[i].dep)
        BY <3>2, <3>3
      <3> QED
        BY <2>2, <3>4 DEF Passed, Refs
    <2>9. DependenciesFirst'
      BY <2>2, <2>5 DEF Inv, DependenciesFirst, Before, Refs
    <2>10. Ranked'
      <3>1. \A rank : Ranks(rank)' <=> Ranks(rank)
        BY <2>5 DEF Ranks, Refs
      <3>2. \A rank : Falling(rank)'
        BY <2>3 DEF Falling
      <3> QED
        BY <2>2, <2>5, <3>1, <3>2 DEF Inv, Ranked
    <2> QED
      BY <2>6, <2>7, <2>8, <2>9, <2>10
  <1> QED
    BY <1>1, <1>2

\* A dependency is visited: it comes to lie on top of the key that names it.
LEMMA DescendIntoPreserves ==
    ASSUME Inv, Descend, NEW d \in Key, Top.dep \in DOMAIN Refs(Top.key),
           d = Refs(Top.key)[Top.dep], DescendInto(d)
    PROVE  Colors' /\ Distinct' /\ Passed' /\ DependenciesFirst' /\ Ranked'
  <1> DEFINE L == Len(stack)
  <1>1. TypeOK /\ stack # <<>> /\ UNCHANGED <<def, order, back>>
    BY DescendShape DEF Inv, DescendInto
  <1>2. /\ L \in Nat \ {0} /\ DOMAIN stack = 1 .. L /\ DOMAIN stack' = 1 .. L + 1
        /\ Len(stack') = L + 1
        /\ \A i \in 1 .. L : /\ stack'[i].key = stack[i].key
                             /\ stack'[i].dep = IF i = L THEN stack[i].dep + 1 ELSE stack[i].dep
        /\ stack'[L + 1].key = d /\ stack'[L + 1].dep = 1
    <2>1. /\ Advanced \in Seq(Entry) /\ Len(Advanced) = L /\ DOMAIN Advanced = DOMAIN stack
          /\ \A i \in DOMAIN stack :
                /\ Advanced[i].key = stack[i].key
                /\ Advanced[i].dep = IF i = L THEN stack[i].dep + 1 ELSE stack[i].dep
      BY <1>1, AdvancedShape
    <2>2. stack' = Append(Advanced, [key |-> d, dep |-> 1]) /\ d \in Constants
      BY DEF DescendInto
    <2>3. /\ Len(stack') = L + 1 /\ DOMAIN stack' = 1 .. L + 1 /\ DOMAIN Advanced = 1 .. L
          /\ \A i \in DOMAIN Advanced : stack'[i] = Advanced[i]
          /\ stack'[L + 1].key = d /\ stack'[L + 1].dep = 1
      BY <2>1, <2>2, PushedShape
    <2> QED
      BY <1>1, <2>1, <2>3, TopTyped
  <1>3. d \in Constants /\ color[d] = "white" /\ color' = [color EXCEPT ![d] = "grey"]
    BY DEF DescendInto
  <1>4. Top = stack[L] /\ Top.dep \in Nat \ {0} /\ Refs(Top.key) \in Seq(Key) /\ Top.key \in Constants
    BY <1>1, TopTyped
  <1> HIDE DEF L
  <1>5. Constants' = Constants /\ \A x : Refs(x)' = Refs(x)
    BY <1>1 DEF Constants, Refs
  <1>6. color \in [Key -> {"white", "grey", "black"}]
    BY <1>1 DEF TypeOK
  <1>7. Colors'
    <2>1. \A x : OnStack(x)' <=> OnStack(x) \/ x = d
      BY <1>2 DEF OnStack
    <2>2. \A x : InOrder(x)' <=> InOrder(x)
      BY <1>1 DEF InOrder
    <2> QED
      BY <1>3, <1>6, <2>1, <2>2 DEF Inv, Colors
  <1>8. Distinct'
    <2>1. \A i \in 1 .. L : stack[i].key # d
      BY <1>2, <1>3, <1>6 DEF Inv, Colors, OnStack
    <2> QED
      BY <1>2, <2>1 DEF Inv, Distinct
  <1>9. Passed'
    <2> SUFFICES ASSUME NEW i \in 1 .. L + 1, NEW n \in DOMAIN def.refs[stack'[i].key],
                        n < stack'[i].dep, def.refs[stack'[i].key][n] \in Constants
                 PROVE  \/ color'[def.refs[stack'[i].key][n]] = "black"
                        \/ <<stack'[i].key, def.refs[stack'[i].key][n]>> \in back
                        \/ i < L + 1 /\ def.refs[stack'[i].key][n] = stack'[i + 1].key
      BY <1>1, <1>2, <1>5 DEF Passed, Settled, Refs
    <2>1. CASE i = L + 1
      <3>1. def.refs[d] \in Seq(Key)
        BY <1>1, DefinitionTyped DEF TypeOK, Refs
      <3> QED
        BY <1>2, <2>1, <3>1
    <2>2. CASE i = L /\ n = Top.dep
      BY <1>2, <1>4, <2>2 DEF Refs
    <2>3. CASE i \in 1 .. L /\ ~ (i = L /\ n = Top.dep)
      <3>1. stack'[i].key = stack[i].key /\ n \in DOMAIN def.refs[stack[i].key]
        BY <1>2, <2>3
      <3>2. n < stack[i].dep
        <4>1. CASE i = L
          <5>1. stack'[i].dep = Top.dep + 1 /\ n # Top.dep /\ stack[i] = Top
            BY <1>2, <1>4, <2>3, <4>1
          <5>2. n \in Nat
            BY <1>4, <3>1, <5>1 DEF Refs
          <5> QED
            BY <1>4, <5>1, <5>2
        <4>2. CASE i # L
          BY <1>2, <2>3, <4>2
        <4> QED
          BY <4>1, <4>2
      <3>3. Settled(i, def.refs[stack[i].key][n])
        BY <1>2, <2>3, <3>1, <3>2 DEF Inv, Passed, Refs
      <3>4. \A x : color[x] = "black" => color'[x] = "black"
        BY <1>3, <1>6
      <3>5. i + 1 \in 1 .. L => stack'[i + 1].key = stack[i + 1].key
        BY <1>2
      <3>6. L = Len(stack)
        BY DEF L
      <3> QED
        BY <1>2, <2>3, <3>1, <3>3, <3>4, <3>5, <3>6 DEF Settled
    <2> QED
      BY <1>2, <2>1, <2>2, <2>3
  <1>10. DependenciesFirst'
    BY <1>1, <1>5 DEF Inv, DependenciesFirst, Before, Refs
  <1>11. Ranked'
    <2>1. \A rank : Ranks(rank)' <=> Ranks(rank)
      BY <1>5 DEF Ranks, Refs
    <2>2. ASSUME NEW rank \in [Constants -> 0 .. MaxRank], Ranks(rank)
          PROVE  back = {} /\ Falling(rank)'
      <3>1. back = {} /\ Falling(rank)
        BY <2>2 DEF Inv, Ranked
      <3>2. rank[d] < rank[Top.key]
        <4>1. d \in ToSet(Refs(Top.key))
          BY DEF ToSet
        <4> QED
          BY <1>3, <1>4, <2>2, <4>1 DEF Ranks
      <3>3. \A i \in 1 .. L : stack[i].key \in Constants
        <4>1. stack \in Seq(Entry)
          BY <1>1 DEF TypeOK, Entry
        <4>2. \A i \in 1 .. L : stack[i] \in Entry
          BY <1>2, <4>1
        <4> QED
          BY <4>2 DEF Entry
      <3>4. \A i \in 1 .. L : rank[d] < rank[stack[i].key]
        <4> TAKE i \in 1 .. L
        <4>1. i = L \/ rank[stack[L].key] < rank[stack[i].key]
          <5>1. L \in DOMAIN stack /\ i \in DOMAIN stack /\ (i = L \/ i < L)
            BY <1>2
          <5> QED
            BY <3>1, <5>1 DEF Falling
        <4>2. rank[d] \in Int /\ rank[stack[i].key] \in Int /\ rank[Top.key] \in Int
          BY <1>3, <1>4, <2>2, <3>3, RankAssumption
        <4> QED
          BY <1>4, <3>2, <4>1, <4>2
      <3> QED
        BY <1>2, <3>1, <3>4 DEF Falling
    <2> QED
      BY <1>1, <1>5, <2>1, <2>2 DEF Ranked
  <1> QED
    BY <1>7, <1>8, <1>9, <1>10, <1>11

\* A dependency is passed over: it is done, no constant, or lies on the stack already,
\* which no ranks allow.
LEMMA DescendPastPreserves ==
    ASSUME Inv, Descend, NEW d \in Key, Top.dep \in DOMAIN Refs(Top.key),
           d = Refs(Top.key)[Top.dep], DescendPast(d)
    PROVE  Colors' /\ Distinct' /\ Passed' /\ DependenciesFirst' /\ Ranked'
  <1> DEFINE L == Len(stack)
  <1>1. TypeOK /\ stack # <<>> /\ UNCHANGED <<def, order, color>>
    BY DescendShape DEF Inv, DescendPast
  <1>2. /\ L \in Nat \ {0} /\ DOMAIN stack = 1 .. L /\ DOMAIN stack' = 1 .. L /\ Len(stack') = L
        /\ \A i \in 1 .. L : /\ stack'[i].key = stack[i].key
                             /\ stack'[i].dep = IF i = L THEN stack[i].dep + 1 ELSE stack[i].dep
    <2>1. DOMAIN stack = 1 .. L /\ L \in Nat \ {0}
      BY <1>1, TopTyped DEF TypeOK
    <2>2. stack' = Advanced
      BY DEF DescendPast
    <2> QED
      BY <1>1, <2>1, <2>2, AdvancedShape
  <1>3. back \subseteq back' /\ (color[d] # "grey" \/ d \notin Constants => back' = back)
    BY DEF DescendPast
  <1>4. Top = stack[L] /\ Top.dep \in Nat \ {0} /\ Refs(Top.key) \in Seq(Key) /\ Top.key \in Constants
    BY <1>1, TopTyped
  <1>5. d \in Constants => color[d] = "black" \/ <<Top.key, d>> \in back'
    BY <1>1 DEF DescendPast, TypeOK
  <1> HIDE DEF L
  <1>6. Constants' = Constants /\ \A x : Refs(x)' = Refs(x)
    BY <1>1 DEF Constants, Refs
  <1>7. Colors'
    <2>1. \A x : OnStack(x)' <=> OnStack(x)
      BY <1>2 DEF OnStack
    <2>2. \A x : InOrder(x)' <=> InOrder(x)
      BY <1>1 DEF InOrder
    <2> QED
      BY <1>1, <2>1, <2>2 DEF Inv, Colors
  <1>8. Distinct'
    BY <1>2 DEF Inv, Distinct
  <1>9. Passed'
    <2> SUFFICES ASSUME NEW i \in 1 .. L, NEW n \in DOMAIN def.refs[stack[i].key],
                        n < stack'[i].dep, def.refs[stack[i].key][n] \in Constants
                 PROVE  \/ color[def.refs[stack[i].key][n]] = "black"
                        \/ <<stack[i].key, def.refs[stack[i].key][n]>> \in back'
                        \/ i < L /\ def.refs[stack[i].key][n] = stack[i + 1].key
      BY <1>1, <1>2, <1>6 DEF Passed, Settled, Refs
    <2>1. CASE i = L /\ n = Top.dep
      BY <1>4, <1>5, <2>1 DEF Refs
    <2>2. CASE ~ (i = L /\ n = Top.dep)
      <3>1. n < stack[i].dep
        <4>1. CASE i = L
          <5>1. stack'[i].dep = Top.dep + 1 /\ n # Top.dep /\ stack[i] = Top
            BY <1>2, <1>4, <2>2, <4>1
          <5>2. n \in Nat
            BY <1>4, <5>1 DEF Refs
          <5> QED
            BY <1>4, <5>1, <5>2
        <4>2. CASE i # L
          BY <1>2, <4>2
        <4> QED
          BY <4>1, <4>2
      <3>2. Settled(i, def.refs[stack[i].key][n])
        BY <1>2, <3>1 DEF Inv, Passed, Refs
      <3> QED
        BY <1>2, <1>3, <3>2 DEF Settled, L
    <2> QED
      BY <2>1, <2>2
  <1>10. DependenciesFirst'
    BY <1>1, <1>3, <1>6 DEF Inv, DependenciesFirst, Before, Refs
  <1>11. Ranked'
    <2>1. \A rank : Ranks(rank)' <=> Ranks(rank)
      BY <1>6 DEF Ranks, Refs
    <2>2. ASSUME NEW rank \in [Constants -> 0 .. MaxRank], Ranks(rank)
          PROVE  back' = {} /\ Falling(rank)'
      <3>1. back = {} /\ Falling(rank)
        BY <2>2 DEF Inv, Ranked
      <3>2. Falling(rank)'
        BY <1>2, <3>1 DEF Falling
      <3>3. ASSUME d \in Constants, color[d] = "grey"
            PROVE  FALSE
        <4>1. PICK i \in 1 .. L : stack[i].key = d
          BY <1>2, <3>3 DEF Inv, Colors, OnStack
        <4>2. d \in ToSet(Refs(Top.key))
          BY DEF ToSet
        <4>3. rank[d] < rank[Top.key]
          BY <1>4, <2>2, <3>3, <4>2 DEF Ranks
        <4>4. rank[d] \in Int /\ rank[Top.key] \in Int
          BY <1>4, <2>2, <3>3, RankAssumption
        <4>5. CASE i = L
          BY <1>4, <4>1, <4>3, <4>4, <4>5
        <4>6. CASE i # L
          <5>1. L \in DOMAIN stack /\ i \in DOMAIN stack /\ i < L
            BY <1>2, <4>6
          <5>2. rank[stack[L].key] < rank[stack[i].key]
            BY <3>1, <5>1 DEF Falling
          <5> QED
            BY <1>4, <4>1, <4>3, <4>4, <5>2
        <4> QED
          BY <4>5, <4>6
      <3> QED
        BY <1>3, <3>1, <3>2, <3>3
    <2> QED
      BY <1>6, <2>1, <2>2 DEF Ranked
  <1> QED
    BY <1>7, <1>8, <1>9, <1>10, <1>11

\* A key leaves the stack for the end of the order.
LEMMA FinishPreserves ==
    ASSUME Inv, Finish, NEW k, k = Top.key
    PROVE  Colors' /\ Distinct' /\ Passed' /\ DependenciesFirst' /\ Ranked'
  <1> DEFINE L == Len(stack)
  <1>1. TypeOK /\ stack # <<>> /\ UNCHANGED <<def, back>>
    BY DEF Inv, Finish
  <1>2. /\ L \in Nat \ {0} /\ DOMAIN stack = 1 .. L /\ DOMAIN stack' = 1 .. L - 1
        /\ Len(stack') = L - 1 /\ \A i \in 1 .. L - 1 : stack'[i] = stack[i]
    <2>1. stack' = Popped
      BY DEF Finish
    <2> QED
      BY <1>1, <2>1, TopTyped, PoppedShape
  <1>3. /\ Top = stack[L] /\ Top.dep \in Nat \ {0} /\ Refs(k) \in Seq(Key)
        /\ k \in Constants /\ k \in Key
    BY <1>1, TopTyped
  <1>4. order \in Seq(Constants) /\ order' = Append(order, k)
    BY <1>1 DEF Finish, TypeOK
  <1>5. color' = [color EXCEPT ![k] = "black"] /\ color \in [Key -> {"white", "grey", "black"}]
    BY <1>1 DEF Finish, TypeOK
  <1>6. \A n \in DOMAIN Refs(k) : n < Top.dep
    BY <1>3 DEF Finish
  <1>7. Constants' = Constants /\ \A x : Refs(x)' = Refs(x)
    BY <1>1 DEF Constants, Refs
  <1>8. /\ Len(order) \in Nat /\ DOMAIN order = 1 .. Len(order)
        /\ DOMAIN order' = 1 .. Len(order) + 1
        /\ \A j \in 1 .. Len(order) : order'[j] = order[j]
        /\ order'[Len(order) + 1] = k
    BY <1>3, <1>4
  <1> HIDE DEF L
  <1>9. \A i \in 1 .. L - 1 : stack[i].key # k
    BY <1>2, <1>3 DEF Inv, Distinct
  <1>10. Colors'
    <2>1. \A x : OnStack(x)' <=> OnStack(x) /\ x # k
      <3>1. \A x : OnStack(x)' <=> \E i \in 1 .. L - 1 : stack[i].key = x
        BY <1>2 DEF OnStack
      <3>2. \A x : OnStack(x) <=> \E i \in 1 .. L : stack[i].key = x
        BY <1>2 DEF OnStack
      <3>3. \A x : OnStack(x) <=> x = k \/ \E i \in 1 .. L - 1 : stack[i].key = x
        <4>1. \A i : i \in 1 .. L <=> i = L \/ i \in 1 .. L - 1
          BY <1>2
        <4>2. stack[L].key = k
          BY <1>3
        <4> QED
          BY <3>2, <4>1, <4>2
      <3> QED
        BY <1>9, <3>1, <3>3
    <2>2. \A x : InOrder(x)' <=> InOrder(x) \/ x = k
      BY <1>8 DEF InOrder
    <2> QED
      BY <1>3, <1>5, <2>1, <2>2 DEF Inv, Colors
  <1>11. Distinct'
    BY <1>2 DEF Inv, Distinct
  <1>12. Passed'
    <2> SUFFICES ASSUME NEW i \in 1 .. L - 1, NEW n \in DOMAIN def.refs[stack'[i].key],
                        n < stack'[i].dep, def.refs[stack'[i].key][n] \in Constants
                 PROVE  \/ color'[def.refs[stack'[i].key][n]] = "black"
                        \/ <<stack'[i].key, def.refs[stack'[i].key][n]>> \in back
                        \/ i < L - 1 /\ def.refs[stack'[i].key][n] = stack'[i + 1].key
      BY <1>1, <1>2, <1>7 DEF Passed, Settled, Refs
    <2>1. stack'[i] = stack[i] /\ Settled(i, def.refs[stack[i].key][n])
      BY <1>2 DEF Inv, Passed, Refs
    <2>2. CASE i = L - 1
      <3>1. i + 1 = L
        BY <1>2, <2>2
      <3> QED
        BY <1>3, <1>5, <2>1, <3>1 DEF Settled
    <2>3. CASE i # L - 1
      <3>1. i < L - 1 /\ stack'[i + 1] = stack[i + 1]
        BY <1>2, <2>3
      <3> QED
        BY <1>3, <1>5, <2>1, <3>1 DEF Settled
    <2> QED
      BY <2>2, <2>3
  <1>13. DependenciesFirst'
    <2>1. \A x, y : Before(x, y) => Before(x, y)'
      BY <1>8 DEF Before
    <2>2. \A x \in ToSet(Refs(k)) \cap Constants : Before(x, k)' \/ <<k, x>> \in back
      <3> TAKE x \in ToSet(Refs(k)) \cap Constants
      <3>1. PICK n \in DOMAIN Refs(k) : Refs(k)[n] = x
        BY DEF ToSet
      <3>2. L \in DOMAIN stack /\ stack[L].key = k /\ n < stack[L].dep
        BY <1>2, <1>3, <1>6, <3>1
      <3>3. Settled(L, x)
        BY <3>1, <3>2 DEF Inv, Passed
      <3>4. CASE color[x] = "black"
        <4>1. x \in Key
          BY <1>1, DefinitionTyped DEF TypeOK
        <4>2. PICK j \in DOMAIN order : order[j] = x
          BY <3>4, <4>1 DEF Inv, Colors, InOrder
        <4>3. /\ j \in DOMAIN order' /\ Len(order) + 1 \in DOMAIN order' /\ j < Len(order) + 1
              /\ order'[j] = x /\ order'[Len(order) + 1] = k
          BY <1>8, <4>2
        <4> QED
          BY <4>3 DEF Before
      <3>5. CASE <<k, x>> \in back
        BY <3>5
      <3> QED
        BY <1>2, <3>2, <3>3, <3>4, <3>5 DEF Settled, L
    <2>3. \A j \in 1 .. Len(order) : \A x \in ToSet(Refs(order[j])) \cap Constants :
              Before(x, order[j]) \/ <<order[j], x>> \in back
      BY <1>8 DEF Inv, DependenciesFirst
    <2> QED
      <3> SUFFICES ASSUME NEW j \in 1 .. Len(order) + 1, NEW y, y = order'[j],
                          NEW x \in ToSet(Refs(y)) \cap Constants
                   PROVE  Before(x, y)' \/ <<y, x>> \in back
        BY <1>1, <1>7, <1>8 DEF DependenciesFirst, Before, Refs
      <3>1. CASE j = Len(order) + 1
        BY <1>8, <2>2, <3>1
      <3>2. CASE j \in 1 .. Len(order)
        BY <1>8, <2>1, <2>3, <3>2
      <3> QED
        BY <1>8, <3>1, <3>2
  <1>14. Ranked'
    <2>1. \A rank : Ranks(rank)' <=> Ranks(rank)
      BY <1>7 DEF Ranks, Refs
    <2>2. \A rank : Falling(rank) => Falling(rank)'
      BY <1>2 DEF Falling
    <2> QED
      BY <1>1, <1>7, <2>1, <2>2 DEF Inv, Ranked
  <1> QED
    BY <1>10, <1>11, <1>12, <1>13, <1>14

-----------------------------------------------------------------------------
(* The theorems.                                                            *)

\* No step breaks the invariant.
LEMMA Inductive ==
    ASSUME Inv, [Next]_vars
    PROVE  Inv'
  <1>1. TypeOK'
    BY TypeStep DEF Inv
  <1>2. CASE Visit
    BY <1>1, <1>2, VisitPreserves DEF Inv
  <1>3. CASE Descend
    <2>1. PICK d \in Key : /\ Top.dep \in DOMAIN Refs(Top.key) /\ d = Refs(Top.key)[Top.dep]
                           /\ DescendInto(d) \/ DescendPast(d)
      BY <1>3, DescendShape DEF Inv
    <2> QED
      BY <1>1, <1>3, <2>1, DescendIntoPreserves, DescendPastPreserves DEF Inv
  <1>4. CASE Finish
    BY <1>1, <1>4, FinishPreserves DEF Inv
  <1>5. CASE Evaluate
    BY <1>1, <1>5, SearchStands DEF Inv, Evaluate
  <1>6. CASE \E k \in Key : Send(k)
    BY <1>1, <1>6, SearchStands DEF Inv, Send
  <1>7. CASE UNCHANGED vars
    BY <1>1, <1>7, SearchStands DEF Inv, vars
  <1> QED
    BY <1>2, <1>3, <1>4, <1>5, <1>6, <1>7 DEF Next

\* The search starts with everything white.
LEMMA Initial ==
    ASSUME Init
    PROVE  Inv
  <1>1. def \in DefinitionType
    BY DefinitionAssumption DEF Init
  <1>2. TypeOK
    <2>1. \A k \in Key : AnswerSource(k) \subseteq Key
      BY BaseAssumption DEF AnswerSource, Behind
    <2>2. source \in [Key -> SUBSET Key]
      BY <2>1 DEF Init
    <2>3. stack \in Seq([key : Constants, dep : Nat \ {0}]) /\ order \in Seq(Constants)
      BY DEF Init
    <2> QED
      BY <1>1, <2>2, <2>3 DEF Init, TypeOK, DefinitionType
  <1>3. Colors /\ Distinct /\ Passed /\ DependenciesFirst /\ Ranked
    BY DEF Init, Colors, OnStack, InOrder, Distinct, Passed, DependenciesFirst, Ranked, Falling
  <1> QED
    BY <1>2, <1>3 DEF Inv

\* The invariant of the search: grey keys are the stack, black ones the order, and the
\* ranks of a definition without a cycle fall along the stack.
THEOREM SearchInvariant == Spec => []Inv
  <1>1. Init => Inv
    BY Initial
  <1>2. Inv /\ [Next]_vars => Inv'
    BY Inductive
  <1> QED
    BY <1>1, <1>2, PTL DEF Spec

\* Every variable keeps its type, and nothing but a declared constant is ever visited.
THEOREM TypeCorrect == Spec => []TypeOK
  <1>1. Inv => TypeOK
    BY DEF Inv
  <1> QED
    BY <1>1, SearchInvariant, PTL

\* Each constant comes after its dependencies, but for those a cycle cut.
THEOREM Ordering == Spec => []DependenciesFirst
  <1>1. Inv => DependenciesFirst
    BY DEF Inv
  <1> QED
    BY <1>1, SearchInvariant, PTL

\* Only a cycle is cut: where the keys can be ranked, the order is topological.
THEOREM NothingElseIsCut == Spec => []OnlyCyclesAreCut
  <1>1. Inv => OnlyCyclesAreCut
    BY DEF Inv, Ranked, OnlyCyclesAreCut
  <1> QED
    BY <1>1, SearchInvariant, PTL

-----------------------------------------------------------------------------
(* What may be sent.                                                        *)

\* The keys behind a key are the least set with it that the steps do not leave.
LEMMA Closure ==
    ASSUME NEW step \in [Key -> SUBSET Key], NEW k \in Key
    PROVE  /\ Behind(step, k) \subseteq Key /\ k \in Behind(step, k)
           /\ \A x \in Behind(step, k) : step[x] \subseteq Behind(step, k)
           /\ \A S \in SUBSET Key :
                k \in S /\ (\A x \in S : step[x] \subseteq S) => Behind(step, k) \subseteq S
  <1> DEFINE B == Behind(step, k)
  <1>1. \A r : r \in B <=>
             /\ r \in Key
             /\ \A S \in SUBSET Key :
                  k \in S /\ (\A x \in S : step[x] \subseteq S) => r \in S
    BY DEF Behind
  <1> HIDE DEF B
  <1>2. ASSUME NEW S \in SUBSET Key, k \in S, \A x \in S : step[x] \subseteq S
        PROVE  B \subseteq S
    BY <1>1, <1>2
  <1>3. k \in B
    BY <1>1
  <1>4. ASSUME NEW x \in B, NEW y \in step[x] PROVE y \in B
    <2>1. y \in Key
      BY <1>1, <1>4
    <2>2. ASSUME NEW S \in SUBSET Key, k \in S, \A z \in S : step[z] \subseteq S PROVE y \in S
      <3>1. x \in S
        BY <1>2, <1>4, <2>2
      <3> QED
        BY <1>4, <2>2, <3>1
    <2> QED
      BY <1>1, <2>1, <2>2
  <1> QED
    BY <1>1, <1>2, <1>3, <1>4 DEF B

\* What isPrivate sees of the answers behind a key.
Seen(k) == {BaseOf[r] : r \in Reached(k)} \ Constants

\* No value has an answer behind it that isPrivate does not see, and no key was sent that
\* it found private.
Watched ==
    OwnKeys => /\ \A k \in out : source[k] \subseteq Seen(k)
               /\ \A k \in sent : k \in out /\ ~ IsPrivate(k)

\* The steps isPrivate takes stay among the keys.
LEMMA StepsTyped ==
    ASSUME def \in Definition
    PROVE  /\ [x \in Key |-> LeadsTo(x)] \in [Key -> SUBSET Key]
           /\ Feeds \in [Key -> SUBSET Key]
           /\ \A k \in Constants : k \in Key /\ BaseOf[k] = k /\ LeadsTo(k) = ToSet(Refs(k))
  <1>1. def \in DefinitionType /\ BaseOf \in [Key -> Key]
    BY DefinitionAssumption, BaseAssumption
  <1>2. def.defaults \in [Key -> SUBSET Key] /\ def.refs \in [Key -> Seq(Key)]
    BY <1>1 DEF DefinitionType
  <1>3. \A k \in Key : ToSet(Refs(k)) \subseteq Key /\ Refs(k) = def.refs[k]
    BY <1>2 DEF ToSet, Refs
  <1>4. \A k \in Constants : k \in Key /\ BaseOf[k] = k
    BY DefinitionTyped, DefinitionAssumption DEF Constants
  <1>5. \A x \in Key : LeadsTo(x) \subseteq Key
    BY <1>1, <1>2, <1>3 DEF LeadsTo
  <1>6. \A k \in Constants : LeadsTo(k) = ToSet(Refs(k))
    BY <1>4 DEF LeadsTo
  <1>7. \A k \in Key : Feeds[k] \subseteq Key
    BY <1>1, <1>2, <1>3 DEF Feeds
  <1> QED
    BY <1>4, <1>5, <1>6, <1>7 DEF Feeds

\* isPrivate sees behind a key what it sees behind any key that one leads to.
LEMMA SeenAlong ==
    ASSUME def \in Definition, NEW k \in Key
    PROVE  /\ k \in Reached(k) /\ Reached(k) \subseteq Key
           /\ \A r \in Reached(k) : LeadsTo(r) \subseteq Reached(k)
           /\ \A r \in LeadsTo(k) : r \in Key => Seen(r) \subseteq Seen(k)
  <1> DEFINE step == [x \in Key |-> LeadsTo(x)]
  <1>1. step \in [Key -> SUBSET Key]
    BY StepsTyped
  <1>2. \A x \in Key : Reached(x) = Behind(step, x)
    BY DEF Reached
  <1>3. \A x \in Key : step[x] = LeadsTo(x)
    OBVIOUS
  <1> HIDE DEF step
  <1>4. /\ k \in Reached(k) /\ Reached(k) \subseteq Key
        /\ \A r \in Reached(k) : LeadsTo(r) \subseteq Reached(k)
    BY <1>1, <1>2, <1>3, Closure
  <1>5. ASSUME NEW r \in LeadsTo(k), r \in Key PROVE Seen(r) \subseteq Seen(k)
    <2>1. r \in Reached(k)
      BY <1>4, <1>5
    <2>2. \A S \in SUBSET Key :
            r \in S /\ (\A x \in S : step[x] \subseteq S) => Reached(r) \subseteq S
      BY <1>1, <1>2, <1>5, Closure
    <2>3. Reached(r) \subseteq Reached(k)
      BY <1>3, <1>4, <2>1, <2>2
    <2> QED
      BY <2>3 DEF Seen
  <1> QED
    BY <1>4, <1>5

\* At first: the answers behind an answer lie behind it for isPrivate as well.
LEMMA WatchedAtFirst == Init => Watched
  <1> SUFFICES ASSUME Init, OwnKeys, NEW k \in out PROVE source[k] \subseteq Seen(k)
    BY DEF Watched, Init
  <1>1. def \in Definition /\ def \in DefinitionType /\ out = def.answered
    BY DefinitionAssumption DEF Init
  <1>2. def.answered \subseteq Key /\ k \in Key /\ k \in def.answered
    BY <1>1 DEF DefinitionType
  <1>3. source[k] = {BaseOf[r] : r \in Behind(Feeds, k) \cap def.answered}
    BY <1>2 DEF Init, AnswerSource
  <1>4. \A r \in def.answered : BaseOf[r] \notin Constants
    BY DEF OwnKeys
  <1>5. ASSUME NEW r \in Key PROVE Feeds[r] \subseteq LeadsTo(r)
    <2>1. CASE r \in def.answered
      BY <1>4, <2>1 DEF Feeds, LeadsTo
    <2>2. CASE r \notin def.answered /\ r \in Constants
      BY <1>1, <2>2, StepsTyped DEF Feeds, Refs
    <2>3. CASE r \notin def.answered /\ r \notin Constants
      BY <2>3 DEF Feeds
    <2> QED
      BY <2>1, <2>2, <2>3
  <1>6. /\ k \in Reached(k) /\ Reached(k) \subseteq Key
        /\ \A r \in Reached(k) : LeadsTo(r) \subseteq Reached(k)
    BY <1>1, <1>2, SeenAlong
  <1>7. \A r \in Reached(k) : Feeds[r] \subseteq Reached(k)
    BY <1>5, <1>6
  <1>8. Behind(Feeds, k) \subseteq Reached(k)
    BY <1>1, <1>2, <1>6, <1>7, StepsTyped, Closure
  <1> QED
    BY <1>3, <1>4, <1>8 DEF Seen

\* What isPrivate sees depends on the definition alone.
LEMMA WatchedStill ==
    ASSUME Watched, UNCHANGED <<def, out, source, sent>>
    PROVE  Watched'
  BY DEF Watched, OwnKeys, Seen, Reached, LeadsTo, Constants, Refs, IsPrivate

\* A constant is computed from what it names, and a key is sent if isPrivate lets it.
LEMMA WatchedNext == TypeOK /\ Watched /\ [Next]_vars => Watched'
  <1> SUFFICES ASSUME TypeOK, Watched, [Next]_vars PROVE Watched'
    OBVIOUS
  <1>1. def \in Definition /\ source \in [Key -> SUBSET Key] /\ out \subseteq Key
    BY DEF TypeOK
  <1>s. ASSUME def' = def
        PROVE  /\ OwnKeys' = OwnKeys
               /\ \A k : Seen(k)' = Seen(k) /\ IsPrivate(k)' = IsPrivate(k)
    BY <1>s DEF OwnKeys, Seen, Reached, LeadsTo, Constants, Refs, IsPrivate
  <1>2. CASE Visit \/ Descend \/ Finish \/ UNCHANGED vars
    <2>1. UNCHANGED <<def, out, source, sent>>
      BY <1>2 DEF Visit, Descend, Finish, vars
    <2> QED
      BY <2>1, WatchedStill
  <1>3. CASE Evaluate
    <2> DEFINE k == order[done + 1]
    <2>1. k \in Constants
      <3>1. order \in Seq(Constants) /\ done \in Nat /\ done < Len(order)
        BY <1>3 DEF TypeOK, Evaluate
      <3> QED
        BY <3>1
    <2>2. /\ out' = out \cup {k} /\ def' = def /\ sent' = sent
          /\ source' = [source EXCEPT ![k] = UNION {source[r] : r \in ToSet(Refs(k)) \cap out}]
      BY <1>3 DEF Evaluate
    <2>3. k \in Key /\ LeadsTo(k) = ToSet(Refs(k))
      BY <1>1, <2>1, StepsTyped
    <2> HIDE DEF k
    <2> SUFFICES ASSUME OwnKeys PROVE Watched'
      BY <1>s, <2>2 DEF Watched
    <2>4. \A r \in out : source[r] \subseteq Seen(r)
      BY DEF Watched
    <2>5. UNION {source[r] : r \in ToSet(Refs(k)) \cap out} \subseteq Seen(k)
      <3>1. ASSUME NEW r \in ToSet(Refs(k)) \cap out PROVE source[r] \subseteq Seen(k)
        <4>1. r \in LeadsTo(k) /\ r \in Key
          BY <1>1, <2>3
        <4>2. Seen(r) \subseteq Seen(k)
          BY <1>1, <2>3, <4>1, SeenAlong
        <4> QED
          BY <2>4, <4>2
      <3> QED
        BY <3>1
    <2>6. \A r \in out' : source'[r] \subseteq Seen(r)
      BY <1>1, <2>2, <2>3, <2>4, <2>5
    <2>7. \A r \in sent : r \in out' /\ ~ IsPrivate(r)
      BY <2>2 DEF Watched
    <2> QED
      BY <1>s, <2>2, <2>6, <2>7 DEF Watched
  <1>4. ASSUME NEW k \in Key, Send(k) PROVE Watched'
    <2>1. /\ UNCHANGED <<def, out, source>> /\ sent' = sent \cup {k}
          /\ k \in out /\ ~ IsPrivate(k)
      BY <1>4 DEF Send
    <2> QED
      BY <1>s, <2>1 DEF Watched
  <1> QED
    BY <1>2, <1>3, <1>4 DEF Next

\* isPrivate, which looks at the definition alone, sees every answer behind a value, in
\* whatever order the constants were computed: the inductive invariant of what is sent.
THEOREM AllIsSeen == Spec => []Watched
  <1>1. Init => Watched
    BY WatchedAtFirst
  <1>2. TypeOK /\ Watched /\ [Next]_vars => Watched'
    BY WatchedNext
  <1> QED
    BY <1>1, <1>2, TypeCorrect, PTL DEF Spec

\* Nothing that another party's private value is behind goes to a plugin, for any definition
\* whose constants have keys of their own.
THEOREM PrivateStaysHere == Spec => []NothingPrivateIsSent
  <1>1. Watched => NothingPrivateIsSent
    <2> SUFFICES ASSUME Watched, OwnKeys, NEW k \in sent, NEW s \in source[k], s \in def.private
                 PROVE  FALSE
      BY DEF NothingPrivateIsSent
    <2>1. k \in out /\ ~ IsPrivate(k) /\ s \in Seen(k)
      BY DEF Watched
    <2> QED
      BY <2>1 DEF Seen, IsPrivate
  <1> QED
    BY <1>1, AllIsSeen, PTL
=============================================================================
