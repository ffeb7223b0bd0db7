----------------------------- MODULE Connections -----------------------------
(***************************************************************************)
(* Reading a list of the platform page by page (client.go).  Connections   *)
(* reads in a goroutine that hands each typed row over an unbuffered       *)
(* channel; its readers are ConnectionsList, which takes every row,        *)
(* resolveShareCode, which leaves at the first match, and callers of the   *)
(* iterator, who may leave at any row.  ListDocuments, Logs and FlowRuns   *)
(* follow the same cursor in the caller's own goroutine.                   *)
(*                                                                         *)
(* Connections come and go while a list is read: a page is what stands     *)
(* when it is asked for, from the marker on.                               *)
(***************************************************************************)
EXTENDS Integers, FiniteSets, Sequences, SequencesExt

CONSTANTS
    MaxRow,              \* rows are 1..MaxRow, in the order the platform lists them
    FirstRows,           \* rows that stand when the program starts
    Coded,               \* rows that carry a share code
    PageSize,            \* rows of a page
    connMax429Backoffs,  \* backoffs of one page of connections
    Walker,              \* goroutines that read a list, each once
    MaxChanges           \* bound: rows added or removed

Row == 1 .. MaxRow
ASSUME MaxRowAssumption == MaxRow \in Nat \ {0}
ASSUME RowsAssumption == FirstRows \subseteq Row /\ Coded \subseteq Row
ASSUME PageAssumption == PageSize \in Nat \ {0} /\ connMax429Backoffs \in Nat
ASSUME MaxChangesAssumption == MaxChanges \in Nat

VARIABLES
    rows,     \* platform: the rows that stand
    changes,  \* rows added or removed so far
    walk      \* each walker's reading of a list

walkVars == <<rows, changes, walk>>

\* One reading.  op says who reads; for "resolve" target is the row looked for.  after is
\* the marker sent, page the rows of the page still to hand over, next the page's own
\* marker (0: the last page), attempts the backoffs of this page.  reader is what became
\* of the receiving end of the channel, and live whether the context still is.  got, stood
\* and result are the outcome: rows handed over, rows that stood all along, and how the
\* reader's call returned; code is the row whose share code "resolve" returned.
WalkType ==
    [pc : {"idle", "fetch", "type", "offer", "closed", "over"},
     op : {"list", "resolve", "iterate", "pages"}, target : 0 .. MaxRow,
     after : 0 .. MaxRow, page : Seq(Row), next : 0 .. MaxRow,
     attempts : 0 .. connMax429Backoffs, reader : {"reading", "draining", "left"},
     live : BOOLEAN, failed : BOOLEAN, got : Seq(Row), stood : SUBSET Row,
     result : {"", "rows", "code", "none", "error"}, code : 0 .. MaxRow]

NoWalk ==
    [pc |-> "idle", op |-> "list", target |-> 0, after |-> 0, page |-> <<>>, next |-> 0,
     attempts |-> 0, reader |-> "reading", live |-> TRUE, failed |-> FALSE, got |-> <<>>,
     stood |-> {}, result |-> "", code |-> 0]

WalkTypeOK ==
    /\ rows \subseteq Row
    /\ changes \in 0 .. MaxChanges
    /\ walk \in [Walker -> WalkType]

WalkInit ==
    /\ rows = FirstRows
    /\ changes = 0
    /\ walk = [w \in Walker |-> NoWalk]

On(w, pc) == walk[w].pc = pc
Same == UNCHANGED <<rows, changes>>

-----------------------------------------------------------------------------
(* The platform.                                                            *)

\* A person connects or disconnects.
Change(r) ==
    /\ changes < MaxChanges
    /\ changes' = changes + 1
    /\ rows' = IF r \in rows THEN rows \ {r} ELSE rows \cup {r}
    /\ walk' = [w \in Walker |-> [walk[w] EXCEPT !.stood = @ \ {r}]]

\* The page from a marker on, in the platform's order, and its own marker.
Beyond(m) == {r \in rows : r > m}
Place(m, r) == Cardinality({q \in Beyond(m) : q <= r})
PageAfter(m) ==
    LET n == Cardinality(Beyond(m))
    IN  [i \in 1 .. (IF n > PageSize THEN PageSize ELSE n) |->
            CHOOSE r \in Beyond(m) : Place(m, r) = i]
MarkerAfter(m) ==
    IF Cardinality(Beyond(m)) > PageSize THEN Last(PageAfter(m)) ELSE 0

-----------------------------------------------------------------------------
(* The goroutine of Connections.                                            *)

Open(w, op, r) ==
    [NoWalk EXCEPT !.pc = "fetch", !.op = op, !.target = r, !.stood = rows]

Read(w, op) ==
    /\ On(w, "idle")
    /\ walk' = [walk EXCEPT ![w] = Open(w, op, 0)]
    /\ Same

\* The caller's context ends.
Cancel(w) ==
    /\ walk[w].pc \in {"fetch", "type", "offer"} /\ walk[w].live
    /\ walk' = [walk EXCEPT ![w].live = FALSE]
    /\ Same

\* Mutant of Turned: the marker of a page is not sent back.
TurnsWithoutMarker(k) ==
    IF k.page # <<>> THEN [k EXCEPT !.pc = "type"]
    ELSE IF k.next = 0 THEN [k EXCEPT !.pc = "closed"]
    ELSE [k EXCEPT !.pc = "fetch", !.attempts = 0]

\* After the last row of a page: the next page, or the end of the list.
Turned(k) ==
    IF k.page # <<>> THEN [k EXCEPT !.pc = "type"]
    ELSE IF k.next = 0 THEN [k EXCEPT !.pc = "closed", !.after = 0]
    ELSE [k EXCEPT !.pc = "fetch", !.after = k.next, !.attempts = 0]

\* The callers that page in their own goroutine take a page whole.
PageArrives(w) ==
    /\ On(w, "fetch") /\ walk[w].live
    /\ LET page == PageAfter(walk[w].after)
           turn == [walk[w] EXCEPT !.next = MarkerAfter(walk[w].after)]
       IN  walk' = [walk EXCEPT ![w] =
               IF turn.op = "pages" THEN Turned([turn EXCEPT !.got = @ \o page])
               ELSE Turned([turn EXCEPT !.page = page])]
    /\ Same

\* The goroutine puts its error into errc and closes both channels.
Failed(k) == [k EXCEPT !.pc = "closed", !.failed = TRUE, !.page = <<>>]

\* Mutant of PageLimited: a page of connections backs off for ever.
LimitedForEver(w) ==
    /\ On(w, "fetch") /\ walk[w].live
    /\ walk' = [walk EXCEPT ![w] =
           IF @.op = "pages" THEN Failed(@) ELSE [@ EXCEPT !.attempts = @ + 1]]
    /\ Same

\* A 429 the transport gave up on: a page of connections backs off a bounded number of
\* times, any other list reports it.
PageLimited(w) ==
    /\ On(w, "fetch") /\ walk[w].live
    /\ LET k == walk[w]
       IN  walk' = [walk EXCEPT ![w] =
               IF k.op = "pages" \/ k.attempts = connMax429Backoffs THEN Failed(k)
               ELSE [k EXCEPT !.attempts = @ + 1]]
    /\ Same

\* Any other error of the request, an ended context among them; prepareTyping and a row
\* that cannot be typed end the goroutine in the same way.
PageFails(w) ==
    /\ On(w, "fetch") \/ On(w, "type")
    /\ walk' = [walk EXCEPT ![w] = Failed(@)]
    /\ Same

TypeRow(w) ==
    /\ On(w, "type")
    /\ walk' = [walk EXCEPT ![w].pc = "offer"]
    /\ Same

\* The select of the goroutine: whichever of the reader and the context is ready.
GiveUpOffer(w) ==
    /\ On(w, "offer") /\ ~ walk[w].live
    /\ walk' = [walk EXCEPT ![w] = Failed(@)]
    /\ Same

HandOver(k) == Turned([k EXCEPT !.page = Tail(@), !.got = Append(@, Head(k.page))])

\* Mutant of Take: nothing drains the channel once resolveShareCode has its code.
TakesAndLeaves(w) ==
    /\ On(w, "offer") /\ walk[w].reader = "reading"
    /\ LET r == Head(walk[w].page)
       IN  walk' = [walk EXCEPT ![w] =
               IF @.op = "resolve" /\ r = @.target /\ r \in Coded
               THEN [HandOver(@) EXCEPT !.reader = "left", !.result = "code", !.code = r]
               ELSE HandOver(@)]
    /\ Same

\* A reader takes the row offered.  resolveShareCode returns with the first match that has
\* a code, and a goroutine of its own takes what is still to come.
Take(w) ==
    /\ On(w, "offer") /\ walk[w].reader # "left"
    /\ LET r == Head(walk[w].page)
           k == walk[w]
       IN  walk' = [walk EXCEPT ![w] =
               IF /\ k.reader = "reading" /\ k.op = "resolve"
                  /\ r = k.target /\ r \in Coded
               THEN [HandOver(k) EXCEPT !.reader = "draining", !.result = "code", !.code = r]
               ELSE HandOver(k)]
    /\ Same

\* A caller of the iterator reads no further.
Leave(w) ==
    /\ walk[w].op = "iterate" /\ walk[w].reader = "reading"
    /\ walk[w].pc \in {"fetch", "type", "offer"}
    /\ walk' = [walk EXCEPT ![w].reader = "left"]
    /\ Same

\* Both channels are closed: the reader reads errc last.
Returned(k) ==
    [k EXCEPT !.pc = "over", !.page = <<>>,
        !.result = IF @ # "" THEN @
                   ELSE IF k.failed THEN "error"
                   ELSE IF k.op = "resolve" THEN "none" ELSE "rows"]

Returns(w) ==
    /\ On(w, "closed")
    /\ walk' = [walk EXCEPT ![w] = Returned(@)]
    /\ Same

Goroutine(w) ==
    \/ PageArrives(w) \/ PageLimited(w) \/ PageFails(w) \/ TypeRow(w) \/ GiveUpOffer(w)
    \/ Take(w) \/ Returns(w)

WalkStep(w) == Goroutine(w) \/ Cancel(w) \/ Leave(w)

-----------------------------------------------------------------------------
(* Properties.                                                              *)

\* Paging loses and repeats nothing, whatever connects and disconnects meanwhile: rows
\* come in the platform's order, each once, and a list read to its end without an error
\* holds every row that stood all along.
NothingSkipped ==
    \A w \in Walker :
        LET k == walk[w]
        IN  /\ \A i, j \in 1 .. Len(k.got) : i < j => k.got[i] < k.got[j]
            /\ k.result \in {"rows", "none"} => k.stood \subseteq ToSet(k.got)

\* No goroutine of the iterator is left blocked on its channel, resolveShareCode's early
\* return included: it ends, unless a caller of the iterator left with the context still
\* alive ("cancel via ctx to stop early").
GoroutineEnds ==
    \A w \in Walker :
        walk[w].pc = "fetch" ~> \/ walk[w].pc = "over"
                                \/ [](/\ walk[w].op = "iterate"
                                     /\ walk[w].reader = "left" /\ walk[w].live)
=============================================================================
