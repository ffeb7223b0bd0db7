-------------------------- MODULE MCFlowConstants --------------------------
(* Instances of FlowConstants for TLC. *)
EXTENDS FlowConstants

\* Three constants, a private answer, and a plugin answer with one output.
MCKey == {"c1", "c2", "c3", "own", "theirs", "p", "p.out"}
MCBaseOf == [k \in MCKey |-> IF k = "p.out" THEN "p" ELSE k]

NoRefs == [k \in MCKey |-> <<>>]
NoDefaults == [k \in MCKey |-> {}]

\* Up to two keys, in both orders.
Upto2(S) == {<<>>} \cup {<<a>> : a \in S} \cup {<<a, b>> : a \in S, b \in S}
Distinct(s) == Cardinality(ToSet(s)) = Len(s)
RefsOver(S) == {s \in Upto2(S) : Distinct(s)}

\* Every graph of three constants over each other and the private answer, one of them
\* declared twice.
Graphs3 ==
    {[declared |-> <<"c1", "c2", "c3", "c1">>,
      refs |-> [NoRefs EXCEPT !["c1"] = r1, !["c2"] = r2, !["c3"] = r3],
      defaults |-> NoDefaults, answered |-> {"theirs"}, private |-> {"theirs"},
      wired |-> {"c1"}] :
        r1 \in RefsOver({"c1", "c2", "c3", "theirs"}),
        r2 \in RefsOver({"c2", "c3", "theirs"}),
        r3 \in RefsOver({"c1", "c2", "theirs"})}

\* Two constants over answers, a drafted default and a plugin output.
Drafts ==
    {[declared |-> <<"c1", "c2">>,
      refs |-> [NoRefs EXCEPT !["c1"] = r1, !["c2"] = r2],
      defaults |-> [NoDefaults EXCEPT !["own"] = d], answered |-> {"own", "theirs", "p", "p.out"},
      private |-> p, wired |-> {"c1", "own", "p.out"}] :
        r1 \in RefsOver({"c1", "c2", "own", "p.out"}), r2 \in RefsOver({"c1", "theirs"}),
        d \in SUBSET {"theirs", "c2"}, p \in {{"theirs"}, {"p"}}}

\* A constant that has the key of an answer.
Shadows ==
    {[declared |-> <<"c1", "c2">>,
      refs |-> [NoRefs EXCEPT !["c1"] = r1, !["c2"] = r2],
      defaults |-> NoDefaults, answered |-> {"c1"}, private |-> {"c1"}, wired |-> {"c2"}] :
        r1 \in RefsOver({"c1", "c2"}), r2 \in RefsOver({"c1", "c2"})}

MCDefinition == Graphs3 \cup Drafts \cup Shadows
=============================================================================
