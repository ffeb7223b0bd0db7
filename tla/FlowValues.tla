------------------------------ MODULE FlowValues ------------------------------
(***************************************************************************)
(* The answers of a flow run.  An answer is a typed value while it is      *)
(* filled in and a text once it is stored.  A text is kept as the value it *)
(* shows: "5" shows 5, "true" the Boolean, and a word shows only itself.   *)
(***************************************************************************)
EXTENDS Integers, Sequences

\* A value: what kind of thing it is or shows, and whether it is a text.  n carries a
\* number, a Boolean as 0 or 1, a date as a day, a word as its rank in byte order (0: the
\* empty text) and a file by its number; items are the members of a list, and the pick and
\* the output of a finished plugin answer.
Value(is, text, n, items) == [is |-> is, text |-> text, n |-> n, items |-> items]
Nil == Value("nil", FALSE, 0, <<>>)
Bool(b) == Value("bool", FALSE, IF b THEN 1 ELSE 0, <<>>)
Num(n) == Value("num", FALSE, n, <<>>)
Word(n) == Value("word", TRUE, n, <<>>)
Day(n) == Value("day", TRUE, n, <<>>)
List(s) == Value("list", FALSE, 0, s)
FileRef(n) == Value("file", FALSE, n, <<>>)
PluginAnswer(s) == Value("plugin", TRUE, 0, s)
Empty == Word(0)

Is(v, kind) == v.is = kind /\ ~ v.text

\* flowPlain: a text as it is, any other value as its JSON text.
flowPlain(v) == [v EXCEPT !.text = TRUE]

flowAnswered(v) == ~ Is(v, "nil") /\ v # Empty

Lookup(answers, k) == IF k \in DOMAIN answers THEN answers[k] ELSE Nil

\* The answers of one map over those of another.
Over(f, g) == [k \in DOMAIN f \cup DOMAIN g |-> IF k \in DOMAIN f THEN f[k] ELSE g[k]]
=============================================================================
