----------------------------- MODULE MCFlowRun -----------------------------
(* Instances of FlowRun for TLC. *)
EXTENDS FlowRun

A == INSTANCE FlowAnswers
MCLiveAnswers(d, answers) == A!Materialized(d, answers)
MCNextNode(d, node, answers) == A!computeNextNode(d, node, answers)
MCBoundError(d, slug, v, live) == A!flowBoundError(d, slug, v, live)

MCUserOf == [p \in Process |-> IF p = "c1" THEN "cust" ELSE "org"]

Leaf(op, field, value) == [op |-> op, field |-> field, value |-> value]
And(a, b) == [op |-> "and", children |-> <<a, b>>]
Not(a) == [op |-> "not", children |-> <<a>>]
Lit(v) == [type |-> "lit", value |-> v]
Ref(k) == [type |-> "ref", key |-> k]
Concat(a, b) == [type |-> "concat", sep |-> FALSE, parts |-> <<a, b>>]
Math(op, a, b) == [type |-> "math", op |-> op, args |-> <<a, b>>]
Edge(from, to, sort, when) == [from |-> from, to |-> to, sort |-> sort, when |-> when]

MCSlug == {"amount", "note", "iban", "scan", "copy", "wage"}
MCKey == MCSlug \cup {"double", "paid", "account", "wage.cao", "wage.rate"}
MCBaseOf == [k \in MCKey |-> IF k \in {"wage.cao", "wage.rate"} THEN "wage" ELSE k]
\* Several values only of the amount, which alone decides routes and bounds.
MCFillOf ==
    [amount |-> {Num(3), Num(8), Word(2)}, note |-> {Word(1)}, iban |-> {Word(5)},
     scan |-> {FileRef(1)}, copy |-> {Word(5)}, wage |-> {PluginAnswer(<<Word(3), Num(7)>>)}]
Types == [s \in MCSlug |-> IF s = "amount" THEN "number" ELSE "text"]
NoDefaults == [s \in MCSlug |-> {}]

\* Three steps: the company's amount, within 2 and twice 4; above 5 the customer's account
\* and scan; then the company's plugin answer and a copy of the account, and the contract.
Contract ==
    [first |-> "n1", mode |-> "document", today |-> Day(9),
     bindings |-> [company |-> "org", person |-> "cust"],
     party |-> [n1 |-> "company", n2 |-> "person", n3 |-> "company"],
     fields |-> [n1 |-> {"amount"}, n2 |-> {"iban", "scan"}, n3 |-> {"copy", "wage"}],
     sources |-> [n1 |-> {}, n2 |-> {}, n3 |-> {"scan", "conn:person:id"}],
     conn |-> {"conn:person:id"}, types |-> Types,
     edges |-> <<Edge("n1", "n3", 2, A!NoCondition),
                 Edge("n1", "n2", 1, And(Leaf("ge", "double", Num(10)),
                                         Not(Leaf("empty", "amount", Nil)))),
                 Edge("n2", "n3", 1, Leaf("answered", "scan", Nil))>>,
     constants |-> <<[key |-> "double", expr |-> Math("mul", Ref("amount"), Lit(Num(2)))],
                     [key |-> "paid", expr |-> Math("max", Ref("wage.rate"), Ref("amount"))],
                     [key |-> "account", expr |-> Concat(Ref("iban"), Ref("note"))]>>,
     refs |-> [double |-> {"amount"}, paid |-> {"wage.rate", "amount"}, account |-> {"iban", "note"}],
     plugins |-> [wage |-> <<"wage.cao", "wage.rate">>],
     wired |-> [wage |-> {"paid", "account", "copy"}],
     bounds |-> [amount |-> <<<<"min", Lit(Num(2))>>,
                              <<"max", Math("mul", Lit(Num(2)), Lit(Num(4)))>>>>],
     defaults |-> [NoDefaults EXCEPT !.copy = {"account"}], lists |-> TRUE]

\* Two steps of which the customer answers the last, and generates.
Offer ==
    [Contract EXCEPT
       !.edges = <<Edge("n1", "n2", 1, Leaf("lt", "amount", Num(9)))>>,
       !.sources = [n1 |-> {}, n2 |-> {"scan"}, n3 |-> {}]]

\* The contract, of which runs are read without the list of what is private.
Unlisted == [Contract EXCEPT !.lists = FALSE]

\* The contract, of whose account the customer's own step has the copy.
Copied ==
    [Contract EXCEPT !.fields = [@ EXCEPT !.n2 = {"iban", "scan", "copy"}, !.n3 = {"wage"}]]

MCDefinition == {Contract, Offer, Unlisted, Copied}
MCCopied == {Copied}

\* What the theorems ask of the definitions and of what they compute, over the answers that
\* can be stored.
Answered ==
    A!FoldSet(LAMBDA s, held : held \cup {Over([x \in {s} |-> v], a) : v \in Text(s), a \in held},
              {<<>>}, MCSlug)

ASSUME TextsDecideHolds == \A d \in Definition, a \in Answered : TextsDecide(d, a)
ASSUME ForwardHolds == Forward

\* refs has the keys that the constants name.
KeysOf(e) == IF e.type = "ref" THEN {e.key} ELSE {}
Named(e) ==
    CASE e.type = "math" -> UNION {KeysOf(e.args[i]) : i \in DOMAIN e.args}
      [] e.type = "concat" -> UNION {KeysOf(e.parts[i]) : i \in DOMAIN e.parts}
ASSUME RefsHold ==
    \A d \in Definition :
        /\ DOMAIN d.refs = {d.constants[i].key : i \in DOMAIN d.constants}
        /\ \A i \in DOMAIN d.constants : d.refs[d.constants[i].key] = Named(d.constants[i].expr)

\* Rounding, remainders and the units of a date difference against what defines them.
Fractions == {A!Fraction(n, d) : n \in -7 .. 7, d \in 1 .. 3}
ASSUME ArithmeticHolds ==
    /\ \A v \in Fractions :
           LET x == A!flowToNum(v)
               whole(op) == A!Arithmetic(op, <<v>>).n
           IN  /\ whole("floor") * x[2] <= x[1] /\ x[1] < (whole("floor") + 1) * x[2]
               /\ (whole("ceil") - 1) * x[2] < x[1] /\ x[1] <= whole("ceil") * x[2]
               /\ 2 * A!Magnitude(whole("round") * x[2] - x[1]) <= x[2]
    /\ \A v \in Fractions, w \in Fractions \ {Num(0)} :
           LET ratio == A!flowToNum(A!Arithmetic("div", <<v, w>>))
               times == Num(A!Quotient(ratio[1], ratio[2]))
               rest == A!Arithmetic("mod", <<v, w>>)
           IN  /\ v = A!Arithmetic("add", <<A!Arithmetic("mul", <<w, times>>), rest>>)
               /\ rest.n * v.n >= 0
ASSUME DifferencesHold ==
    \A a, b \in 1 .. 100 :
        LET months == A!DateDifference("months", Day(a), Day(b)).n
            weeks == A!DateDifference("weeks", Day(a), Day(b)).n
        IN  /\ a + 30 * months <= b /\ b < a + 30 * (months + 1)
            /\ 7 * A!Magnitude(weeks) <= A!Magnitude(b - a) /\ A!Magnitude(b - a) < 7 * (A!Magnitude(weeks) + 1)
=============================================================================
