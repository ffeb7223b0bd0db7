----------------------------- MODULE FlowAnswers -----------------------------
(***************************************************************************)
(* What a flow definition computes over the answers of a run: conditions   *)
(* (flowcondition.go), expressions (flowconstants.go), plugin answers, the *)
(* bounds of a field (plugin.go) and the next node (client.go).            *)
(***************************************************************************)
EXTENDS FlowValues, SequencesExt, FiniteSetsExt

-----------------------------------------------------------------------------
(* Conditions.                                                              *)

\* A number, and a text that shows one, as its numerator and denominator; else <<>>.
flowToNum(v) ==
    IF v.is = "num" THEN <<v.n, IF v.items = <<>> THEN 1 ELSE v.items[1]>> ELSE <<>>

\* One number below another.
Below(x, y) == x[1] * y[2] < y[1] * x[2]

flowTruthy(v) ==
    IF v.text THEN v # Empty
    ELSE CASE v.is = "nil" -> FALSE
           [] v.is \in {"bool", "num"} -> v.n # 0
           [] OTHER -> TRUE

\* The text of a value that is not a container; nil, a list and an object have none.
flowStr(v) == IF ~ v.text /\ v.is \in {"nil", "list", "file"} THEN Empty ELSE flowPlain(v)

flowLooseEq(a, b) ==
    IF Is(a, "bool") \/ Is(b, "bool") THEN flowTruthy(a) = flowTruthy(b)
    ELSE IF flowToNum(a) # <<>> /\ flowToNum(b) # <<>> THEN flowToNum(a) = flowToNum(b)
    ELSE flowStr(a) = flowStr(b)

flowInList(target, v) ==
    Is(target, "list") /\ \E i \in DOMAIN target.items : flowLooseEq(target.items[i], v)

\* Texts in byte order: digits before brackets and braces, words before those of a Boolean.
Rank(s) ==
    CASE s.is = "day" -> s.n - 2000
      [] s.is = "word" -> s.n
      [] s.is = "list" -> -500
      [] OTHER -> 500 + s.n

\* A text holds the texts it shows.
Shows(s, t) ==
    \/ t = Empty \/ s = t
    \/ s.is # "num" /\ \E i \in DOMAIN s.items : flowPlain(s.items[i]) = t

Compare(op, a, b) ==
    CASE op = "lt" -> a < b
      [] op = "gt" -> a > b
      [] op = "le" -> a <= b
      [] OTHER -> a >= b

\* Two numbers, or two texts of which neither is one; a mixed comparison is false.
Ordered(op, v, target) ==
    LET a == flowToNum(v)
        b == flowToNum(target)
    IN  IF a # <<>> /\ b # <<>> THEN Compare(op, a[1] * b[2], b[1] * a[2])
        ELSE a = <<>> /\ b = <<>> /\ Compare(op, Rank(flowStr(v)), Rank(flowStr(target)))

\* Anything that is no condition holds.
NoCondition == [op |-> "always"]

\* A comparison of one answer.
EvaluateLeaf(c, v) ==
    CASE c.op = "answered" -> flowAnswered(v)
      [] c.op = "empty" -> ~ flowAnswered(v)
      [] c.op = "in" -> flowInList(c.value, v)
      [] c.op = "nin" -> ~ flowInList(c.value, v)
      [] c.op = "contains" -> flowAnswered(v) /\ Shows(flowStr(v), flowStr(c.value))
      [] c.op = "not_contains" -> ~ (flowAnswered(v) /\ Shows(flowStr(v), flowStr(c.value)))
      [] c.op = "eq" -> flowAnswered(v) /\ flowLooseEq(c.value, v)
      [] c.op = "ne" -> flowAnswered(v) /\ ~ flowLooseEq(c.value, v)
      [] c.op \in {"lt", "gt", "le", "ge"} -> flowAnswered(v) /\ Ordered(c.op, v, c.value)
      [] OTHER -> FALSE

RECURSIVE EvaluateCondition(_, _)
EvaluateCondition(c, answers) ==
    CASE c.op = "always" -> TRUE
      [] c.op = "and" -> \A i \in DOMAIN c.children : EvaluateCondition(c.children[i], answers)
      [] c.op = "or" -> \E i \in DOMAIN c.children : EvaluateCondition(c.children[i], answers)
      [] c.op = "not" -> c.children # <<>> /\ ~ EvaluateCondition(c.children[1], answers)
      [] OTHER -> EvaluateLeaf(c, Lookup(answers, c.field))

-----------------------------------------------------------------------------
(* Expressions, over exact fractions.                                       *)

Sign(n) == IF n < 0 THEN -1 ELSE IF n > 0 THEN 1 ELSE 0
Magnitude(n) == Sign(n) * n

\* n divided by d, rounded towards zero.
Quotient(n, d) == Sign(n) * Sign(d) * (Magnitude(n) \div Magnitude(d))

\* The number n / d in lowest terms.
Fraction(n, d) ==
    LET g == Max({k \in 1 .. Magnitude(d) : n % k = 0 /\ d % k = 0})
        low == Magnitude(d) \div g
    IN  [Num((Sign(d) * n) \div g) EXCEPT !.items = IF low = 1 THEN <<>> ELSE <<low>>]

\* math.Mod keeps the sign of the dividend, math.Round goes away from zero at a half.
Remainder(x, y) ==
    LET whole == Quotient(x[1] * y[2], x[2] * y[1])
    IN  Fraction(x[1] * y[2] - whole * y[1] * x[2], x[2] * y[2])
Rounded(x) == Num(Sign(x[1]) * ((2 * Magnitude(x[1]) + x[2]) \div (2 * x[2])))

Numbers(vs) == SelectSeq([i \in DOMAIN vs |-> flowToNum(vs[i])], LAMBDA n : n # <<>>)

\* max and min skip what is no number; every other operator needs all its operands.
Arithmetic(op, vs) ==
    LET x == Numbers(vs)
        all == ToSet(x)
        value(y) == Fraction(y[1], y[2])
        one == Len(x) = Len(vs) /\ vs # <<>>
        two == one /\ Len(vs) >= 2
    IN  CASE op = "max" /\ all # {} -> value(CHOOSE y \in all : \A z \in all : ~ Below(y, z))
          [] op = "min" /\ all # {} -> value(CHOOSE y \in all : \A z \in all : ~ Below(z, y))
          [] op = "add" /\ Len(x) = Len(vs) ->
               value(FoldLeft(LAMBDA a, y : <<a[1] * y[2] + y[1] * a[2], a[2] * y[2]>>, <<0, 1>>, x))
          [] op = "mul" /\ Len(x) = Len(vs) ->
               value(FoldLeft(LAMBDA a, y : <<a[1] * y[1], a[2] * y[2]>>, <<1, 1>>, x))
          [] op = "sub" /\ two ->
               Fraction(x[1][1] * x[2][2] - x[2][1] * x[1][2], x[1][2] * x[2][2])
          [] op = "div" /\ two /\ x[2][1] # 0 ->
               Fraction(x[1][1] * x[2][2], x[1][2] * x[2][1])
          [] op = "mod" /\ two /\ x[2][1] # 0 -> Remainder(x[1], x[2])
          [] op = "neg" /\ one -> Fraction(- x[1][1], x[1][2])
          [] op = "abs" /\ one -> Fraction(Magnitude(x[1][1]), x[1][2])
          [] op = "round" /\ one -> Rounded(x[1])
          [] op = "floor" /\ one -> Num(x[1][1] \div x[1][2])
          [] op = "ceil" /\ one -> Num(- ((- x[1][1]) \div x[1][2]))
          [] OTHER -> Nil

\* Between two dates, in a calendar whose months have 30 days: whole days, whole weeks, and
\* months and years less one when the day, or the day of the year, has not come yet.
Difference(unit, from, to) ==
    LET since(days) == to \div days - from \div days
                           - IF to % days < from % days THEN 1 ELSE 0
    IN  CASE unit = "days" -> Num(to - from)
          [] unit = "weeks" -> Num(Quotient(to - from, 7))
          [] unit = "months" -> Num(since(30))
          [] unit = "years" -> Num(since(360))
          [] OTHER -> Nil

\* Anything that is no date gives nothing.
DateDifference(unit, from, to) ==
    IF from.is = "day" /\ to.is = "day" THEN Difference(unit, from.n, to.n) ELSE Nil

RECURSIVE evalExpr(_, _, _)
evalExpr(e, answers, today) ==
    CASE e.type = "lit" -> e.value
      [] e.type = "ref" -> Lookup(answers, e.key)
      [] e.type = "today" -> today
      [] e.type = "if" ->
           LET taken == {i \in DOMAIN e.cases : EvaluateCondition(e.cases[i].when, answers)}
           IN  evalExpr(IF taken = {} THEN e.else ELSE e.cases[Min(taken)].then, answers, today)
      [] e.type = "concat" ->
           LET parts == [i \in DOMAIN e.parts |-> flowStr(evalExpr(e.parts[i], answers, today))]
               shown == IF e.sep THEN parts ELSE SelectSeq(parts, LAMBDA s : s # Empty)
           IN  IF shown = <<>> THEN Empty
               ELSE IF Len(shown) = 1 THEN shown[1] ELSE Value("word", TRUE, 400, shown)
      [] e.type = "datediff" ->
           DateDifference(e.unit, evalExpr(e.from, answers, today), evalExpr(e.to, answers, today))
      [] e.type = "math" ->
           Arithmetic(e.op, [i \in DOMAIN e.args |-> evalExpr(e.args[i], answers, today)])
      [] OTHER -> Nil

\* The constants, given in an order in which each comes after those it refers to (the order
\* itself is FlowConstants).
ComputeConstants(constants, answers, today) ==
    FoldLeft(LAMBDA out, c : (c.key :> evalExpr(c.expr, out, today)) @@ out, answers, constants)

\* A finished plugin answer is replaced by its summary and joined by its pick and its
\* output; an unfinished one is taken out.  plugins maps a plugin's slug to the keys of the
\* two.
ExpandPluginAnswers(answers, plugins) ==
    LET given == {s \in DOMAIN answers \cap DOMAIN plugins : answers[s].is = "plugin"}
        unfinished == {s \in given : answers[s].items = <<>>}
        keys(s) == {plugins[s][i] : i \in {j \in DOMAIN answers[s].items :
                                             answers[s].items[j] # Nil}}
        dotted == [k \in UNION {keys(s) : s \in given} |->
                      LET s == CHOOSE x \in given : k \in keys(x)
                          i == CHOOSE j \in DOMAIN plugins[s] : plugins[s][j] = k
                      IN  answers[s].items[i]]
        summary(s) == flowStr(answers[s].items[1])
        plain == [k \in DOMAIN answers \ unfinished |->
                      IF k \in given THEN summary(k) ELSE answers[k]]
    IN  dotted @@ plain

\* The one map that routing, bounds and plugin inputs read.
Materialized(d, answers) ==
    ComputeConstants(d.constants, ExpandPluginAnswers(answers, d.plugins), d.today)

\* The first of the node's edges, by their sort and then as declared, whose condition
\* holds; none is a leaf.
computeNextNode(d, node, answers) ==
    LET map == Materialized(d, answers)
        holds == {i \in DOMAIN d.edges : d.edges[i].from = node
                                         /\ EvaluateCondition(d.edges[i].when, map)}
        first == {i \in holds : \A j \in holds : d.edges[i].sort <= d.edges[j].sort}
    IN  IF holds = {} THEN [leaf |-> TRUE, next |-> node]
        ELSE [leaf |-> FALSE, next |-> d.edges[Min(first)].to]

-----------------------------------------------------------------------------
(* Bounds.                                                                  *)

\* Whether v breaks a bound: numbers as numbers, dates as dates, anything else never.
Breaks(bound, v, limit) ==
    LET a == flowToNum(v)
        b == flowToNum(limit)
        beyond(x, y) == IF bound = "min" THEN Below(x, y) ELSE Below(y, x)
    IN  IF a # <<>> /\ b # <<>> THEN beyond(a, b)
        ELSE v.is = "day" /\ limit.is = "day" /\ beyond(<<v.n, 1>>, <<limit.n, 1>>)

\* bounds maps the slugs that have any to their <<"min" or "max", expression>> pairs.
flowBoundError(d, slug, v, live) ==
    /\ slug \in DOMAIN d.bounds /\ flowAnswered(v)
    /\ \E i \in DOMAIN d.bounds[slug] :
         Breaks(d.bounds[slug][i][1], v, evalExpr(d.bounds[slug][i][2], live, d.today))
=============================================================================
