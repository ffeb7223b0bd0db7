--------------------------- MODULE DocumentsProofs ---------------------------
(***************************************************************************)
(* Proofs about Documents, for any callers, requests, faults and bounds.   *)
(*                                                                         *)
(* Two invariants.  Inv ties each row on the platform to the call that     *)
(* made it: until a call has been answered it owns no row it knows of,     *)
(* from then on exactly the one whose id it holds.  What is proved of the  *)
(* calls holds whatever the readings do.  WalksInv is about the readings:  *)
(* the rows handed over lie behind the marker, in order, and every row     *)
(* that stood all along is behind it or still ahead.                       *)
(***************************************************************************)
EXTENDS
    Documents, SequenceTheorems, FiniteSetTheorems, WellFoundedInduction, TLAPS

TypeInv ==
    /\ docs \in Seq(DocType) /\ Len(docs) <= MaxDocs
    /\ call \in [Caller -> CallType]

\* A row is for the target of the call that made it.
RowInv ==
    \A i \in DOMAIN docs :
        /\ call[docs[i].by].pc # "idle"
        /\ docs[i].to = TargetOf(call[docs[i].by].req)
        /\ docs[i].body = "sealed" => docs[i].for = docs[i].to /\ docs[i].to # None
        /\ docs[i].body = "plain" => docs[i].to = None
        /\ docs[i].to = None => ~ docs[i].locked

Unwritten(c) == \A i \in DOMAIN docs : docs[i].by # c

\* A call that goes on was not refused, and has the key of its target once it writes.
Checked(c) ==
    /\ call[c].pc \notin {"idle", "over"} =>
         ~ Refused(Req(c)) /\ (Req(c).op = "message" => PerPerson(Req(c)))
    /\ call[c].pc \in {"resolve", "walk", "key"} => PerPerson(Req(c)) /\ Unwritten(c)
    /\ call[c].pc = "idle" => Unwritten(c)
    /\ call[c].pc = "key" => call[c].code = Req(c).to
    /\ call[c].pc \in {"create", "upload", "cleanup"} => call[c].key = TargetOf(Req(c))

Completed(c) ==
    call[c].result = "created" =>
        /\ call[c].id \in DOMAIN docs /\ docs[call[c].id].by = c
        /\ docs[call[c].id].body \in {"plain", "sealed"}
Excused(c) ==
    \A i \in DOMAIN docs :
        docs[i].by = c /\ docs[i].body = "pending" =>
            \/ ~ docs[i].answered
            \/ call[c].result = "error" /\ call[c].excuse # ""

\* The rows a call knows of.
Owned(c) ==
    /\ call[c].pc = "create" => \A i \in DOMAIN docs : docs[i].by = c => ~ docs[i].answered
    /\ call[c].pc \in {"upload", "cleanup"} =>
         /\ call[c].id \in DOMAIN docs /\ docs[call[c].id].by = c
         /\ \A i \in DOMAIN docs : docs[i].by = c /\ docs[i].answered => i = call[c].id
    /\ call[c].pc = "over" => Completed(c) /\ Excused(c)

CallInv(c) == Checked(c) /\ Owned(c)

Inv == TypeInv /\ RowInv /\ \A c \in Caller : CallInv(c)

-----------------------------------------------------------------------------
(* What a step of one call does to the others.                              *)

\* The step of c: other calls keep their state and their rows.
Apart(c) ==
    /\ \A d \in Caller \ {c} : call'[d] = call[d]
    /\ DOMAIN docs \subseteq DOMAIN docs'
    /\ \A i \in DOMAIN docs :
         docs'[i].by = docs[i].by /\ (docs[i].by # c => docs'[i] = docs[i])
    /\ \A i \in DOMAIN docs' \ DOMAIN docs : docs'[i].by = c

\* Fields of a call and of a row.
LEMMA Fields ==
    ASSUME TypeInv
    PROVE  /\ \A c \in Caller :
                /\ call[c] \in CallType
                /\ call[c].req \in Request
                /\ call[c].code \in Person \cup {None}
                /\ call[c].key \in Person \cup {None}
                /\ call[c].id \in 0 .. MaxDocs
                /\ call[c].resent \in BOOLEAN
           /\ \A i \in DOMAIN docs : docs[i] \in DocType /\ docs[i].by \in Caller
           /\ DOMAIN docs = 1 .. Len(docs)
           /\ Len(docs) \in Nat
  <1>1. \A c \in Caller : call[c] \in CallType
    BY DEF TypeInv
  <1>2. \A k \in CallType : /\ k.req \in Request
                           /\ k.code \in Person \cup {None}
                           /\ k.key \in Person \cup {None}
                           /\ k.id \in 0 .. MaxDocs
                           /\ k.resent \in BOOLEAN
    BY DEF CallType
  <1>3. DOMAIN docs = 1 .. Len(docs) /\ Len(docs) \in Nat
    BY DEF TypeInv
  <1>4. \A i \in DOMAIN docs : docs[i] \in DocType
    BY DEF TypeInv
  <1>5. \A d \in DocType : d.by \in Caller
    BY DEF DocType
  <1> QED
    BY <1>1, <1>2, <1>3, <1>4, <1>5

\* A step that keeps apart leaves what the invariant says of the other calls.
LEMMA OthersKeep ==
    ASSUME TypeInv, NEW c \in Caller, Apart(c), NEW d \in Caller \ {c}, CallInv(d)
    PROVE  CallInv(d)'
  <1>1. call'[d] = call[d]
    BY DEF Apart
  <1>2. \A i \in DOMAIN docs' : docs'[i].by = d => i \in DOMAIN docs /\ docs'[i] = docs[i]
    BY DEF Apart
  <1>3. \A i \in DOMAIN docs : docs[i].by = d => i \in DOMAIN docs' /\ docs'[i] = docs[i]
    BY DEF Apart
  <1>4. Unwritten(d) => Unwritten(d)'
    BY <1>2 DEF Unwritten
  <1>5. Checked(d)'
    BY <1>1, <1>4 DEF CallInv, Checked, Req
  <1>6. Completed(d) => Completed(d)'
    BY <1>1, <1>3 DEF Completed
  <1>7. Excused(d) => Excused(d)'
    BY <1>1, <1>2 DEF Excused
  <1>8. Owned(d)'
    BY <1>1, <1>2, <1>3, <1>6, <1>7 DEF CallInv, Owned
  <1> QED
    BY <1>5, <1>8 DEF CallInv

\* A step of one call that leaves the rows alone.
LEMMA RowsKeep ==
    ASSUME TypeInv, RowInv, NEW c \in Caller, docs' = docs,
           \A d \in Caller \ {c} : call'[d] = call[d],
           call'[c].req = call[c].req, call'[c].pc # "idle"
    PROVE  Apart(c) /\ RowInv'
  <1>1. Apart(c)
    BY DEF Apart
  <1>2. \A i \in DOMAIN docs : docs[i].by \in Caller
    BY Fields
  <1>3. \A i \in DOMAIN docs :
          call'[docs[i].by].req = call[docs[i].by].req /\ call'[docs[i].by].pc # "idle"
    BY <1>2 DEF RowInv
  <1>4. RowInv'
    BY <1>3 DEF RowInv
  <1> QED
    BY <1>1, <1>4

-----------------------------------------------------------------------------
(* The steps up to the first request that changes something.                *)

\* Begin keeps the invariant: a call that begins has no row.
LEMMA BeginKeeps ==
    ASSUME Inv, NEW c \in Caller, NEW q \in Asked, Begin(c, q)
    PROVE  Inv'
  <1> DEFINE pc == IF Refused(q) THEN "over"
                   ELSE IF ~ PerPerson(q) \/ q.via = "event" THEN "create"
                   ELSE IF q.via \in {"code", "connection+code"} THEN "key"
                   ELSE IF q.via = "user" THEN "walk" ELSE "resolve"
  <1>0. TypeInv /\ RowInv /\ CallInv(c) /\ call[c].pc = "idle" /\ docs' = docs
    BY DEF Inv, Begin, At
  <1>1. q \in Request /\ q.to \in Person
    BY AskedAssumption DEF Request
  <1>2. /\ call'[c].pc = pc
        /\ call'[c].req = q
        /\ call'[c].key = IF q.via = "event" THEN q.to ELSE None
        /\ call'[c].code = IF q.via \in {"code", "connection+code"} THEN q.to ELSE None
        /\ call'[c].id = call[c].id
        /\ call'[c].result = IF Refused(q) THEN "error" ELSE ""
        /\ \A d \in Caller \ {c} : call'[d] = call[d]
    BY <1>0 DEF TypeInv, CallType, Begin
  <1>3. call' \in [Caller -> CallType]
    <2>1. pc \in {"create", "key", "walk", "resolve", "over"}
      OBVIOUS
    <2>2. /\ (IF q.via = "event" THEN q.to ELSE None) \in Person \cup {None}
          /\ (IF q.via \in {"code", "connection+code"} THEN q.to ELSE None)
               \in Person \cup {None}
      BY <1>1
    <2> HIDE DEF pc
    <2>3. call' = [call EXCEPT ![c] = [call[c] EXCEPT
              !.req = q, !.key = IF q.via = "event" THEN q.to ELSE None,
              !.code = IF q.via \in {"code", "connection+code"} THEN q.to ELSE None,
              !.result = IF Refused(q) THEN "error" ELSE "", !.pc = pc]]
      BY DEF Begin, pc
    <2>4. [call[c] EXCEPT
              !.req = q, !.key = IF q.via = "event" THEN q.to ELSE None,
              !.code = IF q.via \in {"code", "connection+code"} THEN q.to ELSE None,
              !.result = IF Refused(q) THEN "error" ELSE "", !.pc = pc] \in CallType
      BY <1>0, <1>1, <2>1, <2>2 DEF TypeInv, CallType
    <2> QED
      BY <1>0, <2>3, <2>4 DEF TypeInv
  <1>4. Unwritten(c) /\ Unwritten(c)'
    BY <1>0 DEF CallInv, Checked, Unwritten
  <1>5. Apart(c)
    BY <1>0, <1>2 DEF Apart
  <1>6. RowInv'
    <2>1. \A i \in DOMAIN docs : docs[i].by \in Caller \ {c}
      BY <1>0, <1>4, Fields DEF Unwritten
    <2> QED
      BY <1>0, <1>2, <2>1 DEF RowInv
  <1>7. Checked(c)'
    <2>1. q.op = "message" => q.via \in {"connection", "connection+code", "event"}
      BY DEF Begin
    <2>2. q.op = "message" => PerPerson(q)
      BY <2>1 DEF PerPerson
    <2>3. pc \in {"resolve", "walk", "key"} => PerPerson(q)
      OBVIOUS
    <2>4. pc = "create" => (IF q.via = "event" THEN q.to ELSE None) = TargetOf(q)
      BY DEF TargetOf, PerPerson
    <2>5. pc # "over" => ~ Refused(q)
      OBVIOUS
    <2>6. pc \notin {"upload", "cleanup", "idle"}
      OBVIOUS
    <2>7. pc = "key" => q.via \in {"code", "connection+code"}
      OBVIOUS
    <2> HIDE DEF pc
    <2> QED
      BY <1>2, <1>4, <2>2, <2>3, <2>4, <2>5, <2>6, <2>7 DEF Checked, Req
  <1>8. Owned(c)'
    BY <1>2, <1>4 DEF Owned, Completed, Excused, Unwritten
  <1>9. \A d \in Caller \ {c} : CallInv(d)'
    BY <1>0, <1>5, OthersKeep DEF Inv
  <1> QED
    BY <1>0, <1>3, <1>6, <1>7, <1>8, <1>9 DEF Inv, TypeInv, CallInv

\* A call that moves on without a row.
Moves(c, pc, code, key, result) ==
    /\ docs' = docs
    /\ call' = [call EXCEPT ![c] =
           [call[c] EXCEPT !.pc = pc, !.code = code, !.key = key, !.result = result]]

\* The lookups keep the invariant: they find the key of the target, or end the call.
LEMMA MovesKeep ==
    ASSUME Inv, NEW c \in Caller, call[c].pc \in {"resolve", "walk", "key"},
           NEW pc \in {"walk", "key", "create", "over"},
           NEW code \in Person \cup {None}, NEW key \in Person \cup {None},
           NEW result \in {"", "created", "error"}, pc = "key" => code = Req(c).to,
           pc = "create" => key = Req(c).to, pc = "over" => result = "error",
           Moves(c, pc, code, key, result)
    PROVE  Inv'
  <1>0. TypeInv /\ RowInv /\ CallInv(c) /\ docs' = docs
    BY DEF Inv, Moves
  <1>1. /\ call'[c].pc = pc /\ call'[c].key = key /\ call'[c].result = result
        /\ call'[c].code = code
        /\ call'[c].req = call[c].req
        /\ \A d \in Caller \ {c} : call'[d] = call[d]
    BY <1>0 DEF TypeInv, CallType, Moves
  <1>2. call' \in [Caller -> CallType]
    <2>1. [call[c] EXCEPT !.pc = pc, !.code = code, !.key = key, !.result = result] \in CallType
      BY <1>0 DEF TypeInv, CallType
    <2> QED
      BY <1>0, <2>1 DEF TypeInv, Moves
  <1>3. /\ PerPerson(Req(c)) /\ Unwritten(c) /\ ~ Refused(Req(c))
        /\ Req(c).op = "message" => PerPerson(Req(c))
    BY <1>0 DEF CallInv, Checked
  <1>4. Apart(c) /\ RowInv'
    BY <1>0, <1>1, RowsKeep
  <1>5. Unwritten(c)'
    BY <1>0, <1>3 DEF Unwritten
  <1>6. Checked(c)'
    BY <1>1, <1>3, <1>5 DEF Checked, Req, TargetOf
  <1>7. Owned(c)'
    BY <1>1, <1>5 DEF Owned, Completed, Excused, Unwritten
  <1>8. \A d \in Caller \ {c} : CallInv(d)'
    BY <1>0, <1>4, OthersKeep DEF Inv
  <1> QED
    BY <1>0, <1>2, <1>4, <1>6, <1>7, <1>8 DEF Inv, TypeInv, CallInv

\* What a scan that ended with a code found is the code of the call's target.
Matched ==
    /\ \A w \in Walker : walk[w].result = "code" => walk[w].code = walk[w].target
    /\ \A c \in Caller : call[c].pc = "walk" => walk[c].target = Req(c).to

\* Resolve, Resolved and FetchKey are such moves.
LEMMA LookupKeeps ==
    ASSUME Inv, Matched, NEW c \in Caller, Resolve(c) \/ Resolved(c) \/ FetchKey(c)
    PROVE  Inv'
  <1>0. TypeInv /\ docs' = docs /\ call[c].pc \in {"resolve", "walk", "key"}
    BY DEF Inv, Resolve, Resolved, FetchKey, At
  <1>1. /\ call[c] \in CallType /\ call[c].key \in Person \cup {None}
        /\ call[c].code \in Person \cup {None}
        /\ call[c].result \in {"", "created", "error"}
        /\ Req(c).to \in Person
    BY <1>0, Fields DEF CallType, Request, Req
  <1>2. CASE call' = [call EXCEPT ![c].pc = "walk"]
    <2>1. Moves(c, "walk", call[c].code, call[c].key, call[c].result)
      BY <1>0, <1>1, <1>2 DEF Moves, CallType, TypeInv
    <2> QED
      BY <1>0, <1>1, <2>1, MovesKeep
  <1>3. CASE call' = [call EXCEPT ![c] = [@ EXCEPT !.pc = "over", !.result = "error"]]
    <2>1. Moves(c, "over", call[c].code, call[c].key, "error")
      BY <1>0, <1>1, <1>3 DEF Moves, CallType, TypeInv
    <2> QED
      BY <1>0, <1>1, <2>1, MovesKeep
  <1>4. CASE /\ call[c].pc = "key"
            /\ call' = [call EXCEPT ![c] = [@ EXCEPT !.key = call[c].code, !.pc = "create"]]
    <2>1. Moves(c, "create", call[c].code, call[c].code, call[c].result)
      BY <1>0, <1>1, <1>4 DEF Moves, CallType, TypeInv
    <2>2. call[c].code = Req(c).to
      BY <1>4 DEF Inv, CallInv, Checked
    <2> QED
      BY <1>0, <1>1, <2>1, <2>2, MovesKeep
  <1>5. ASSUME NEW p, p = Req(c).to, HasCode(c, p) PROVE Inv'
    <2>1. Moves(c, "key", p, call[c].key, call[c].result)
      BY <1>0, <1>1, <1>5 DEF Moves, HasCode, CallType, TypeInv
    <2> QED
      BY <1>0, <1>1, <1>5, <2>1, MovesKeep
  <1>6. CASE Resolve(c)
    BY <1>2, <1>3, <1>5, <1>6 DEF Resolve, Goto, Ends
  <1>7. CASE Resolved(c)
    <2>1. walk[c].result = "code" => walk[c].code = Req(c).to
      BY <1>7, CallerAssumption DEF Resolved, At, Matched
    <2> QED
      BY <1>3, <1>5, <1>7, <2>1 DEF Resolved, Ends
  <1>8. CASE FetchKey(c)
    BY <1>3, <1>4, <1>8 DEF FetchKey, At, Ends
  <1> QED
    BY <1>6, <1>7, <1>8

-----------------------------------------------------------------------------
(* The requests that change something.                                      *)

\* What a request may come to.
LEMMA Outcomes ==
    ASSUME NEW c, NEW o \in Outcome(c)
    PROVE  o.answer \in {"ok", "again", "error"} /\ (o.answer = "ok" => o.acted)
  BY DEF Outcome

\* A call that goes on with its own request and key, from one writing step to another.
Writes(c, pc) ==
    /\ call[c].pc \in {"create", "upload", "cleanup"}
    /\ pc \in {"create", "upload", "cleanup", "over"}
    /\ \A d \in Caller \ {c} : call'[d] = call[d]
    /\ call'[c] \in CallType /\ call' \in [Caller -> CallType]
    /\ call'[c].pc = pc /\ call'[c].req = call[c].req /\ call'[c].key = call[c].key

\* A writing step keeps the invariant when it keeps the rows of its call in order.
LEMMA WritesKeep ==
    ASSUME Inv, NEW c \in Caller, NEW pc, Writes(c, pc), Apart(c),
           docs' \in Seq(DocType), Len(docs') <= MaxDocs, RowInv', Owned(c)'
    PROVE  Inv'
  <1>1. Checked(c)'
    BY DEF Inv, CallInv, Checked, Writes, Req
  <1>2. \A d \in Caller \ {c} : CallInv(d)'
    BY OthersKeep DEF Inv
  <1> QED
    BY <1>1, <1>2 DEF Inv, TypeInv, CallInv, Writes

\* CreateFails ends a call that made no row it knows of.
LEMMA CreateFailsKeeps ==
    ASSUME Inv, NEW c \in Caller, CreateFails(c)
    PROVE  Inv'
  <1>0. TypeInv /\ RowInv /\ CallInv(c) /\ docs' = docs /\ call[c].pc = "create"
    BY DEF Inv, CreateFails, At
  <1>1. call' = [call EXCEPT ![c] = [@ EXCEPT !.pc = "over", !.result = "error"]]
    BY DEF CreateFails, Ends
  <1>2. call' \in [Caller -> CallType]
    <2>1. [call[c] EXCEPT !.pc = "over", !.result = "error"] \in CallType
      BY <1>0 DEF TypeInv, CallType
    <2> QED
      BY <1>0, <1>1, <2>1 DEF TypeInv
  <1>3. /\ \A d \in Caller \ {c} : call'[d] = call[d]
        /\ call'[c].pc = "over" /\ call'[c].req = call[c].req /\ call'[c].key = call[c].key
        /\ call'[c].result = "error"
    BY <1>0, <1>1 DEF TypeInv, CallType
  <1>4. Writes(c, "over")
    BY <1>0, <1>2, <1>3 DEF Writes
  <1>5. Apart(c) /\ RowInv'
    BY <1>0, <1>3, RowsKeep
  <1>6. Owned(c)'
    BY <1>0, <1>3 DEF CallInv, Owned, Completed, Excused
  <1> QED
    BY <1>0, <1>4, <1>5, <1>6, WritesKeep DEF TypeInv

\* SealFails leaves the row as it is, and says why.
LEMMA SealFailsKeeps ==
    ASSUME Inv, NEW c \in Caller, SealFails(c)
    PROVE  Inv'
  <1>0. TypeInv /\ RowInv /\ CallInv(c) /\ docs' = docs /\ call[c].pc = "upload"
    BY DEF Inv, SealFails, At
  <1>1. call' = [call EXCEPT ![c] =
                    [@ EXCEPT !.pc = "over", !.result = "error", !.excuse = "seal"]]
    BY DEF SealFails
  <1>2. call' \in [Caller -> CallType]
    <2>1. [call[c] EXCEPT !.pc = "over", !.result = "error", !.excuse = "seal"] \in CallType
      BY <1>0 DEF TypeInv, CallType
    <2> QED
      BY <1>0, <1>1, <2>1 DEF TypeInv
  <1>3. /\ \A d \in Caller \ {c} : call'[d] = call[d]
        /\ call'[c].pc = "over" /\ call'[c].req = call[c].req /\ call'[c].key = call[c].key
        /\ call'[c].result = "error" /\ call'[c].excuse = "seal"
    BY <1>0, <1>1 DEF TypeInv, CallType
  <1>4. Writes(c, "over")
    BY <1>0, <1>2, <1>3 DEF Writes
  <1>5. Apart(c) /\ RowInv'
    BY <1>0, <1>3, RowsKeep
  <1>6. Owned(c)'
    BY <1>3 DEF Owned, Completed, Excused
  <1> QED
    BY <1>0, <1>4, <1>5, <1>6, WritesKeep DEF TypeInv

\* A row as the invariant wants it of a call with this request.
GoodRow(d, q) ==
    /\ d.to = TargetOf(q)
    /\ d.body = "sealed" => d.for = d.to /\ d.to # None
    /\ d.body = "plain" => d.to = None
    /\ d.to = None => ~ d.locked

\* A step that writes one row of its call, a new one or one it made.
LEMMA OneRow ==
    ASSUME TypeInv, RowInv, NEW c \in Caller, NEW n, NEW d \in DocType,
           \/ n = Len(docs) + 1 /\ n <= MaxDocs /\ docs' = Append(docs, d)
           \/ n \in DOMAIN docs /\ docs[n].by = c /\ docs' = [docs EXCEPT ![n] = d],
           d.by = c, GoodRow(d, call[c].req),
           \A e \in Caller \ {c} : call'[e] = call[e],
           call'[c].req = call[c].req, call'[c].pc # "idle"
    PROVE  /\ Apart(c) /\ RowInv' /\ docs' \in Seq(DocType) /\ Len(docs') <= MaxDocs
           /\ DOMAIN docs' = DOMAIN docs \cup {n} /\ docs'[n] = d
           /\ \A i \in DOMAIN docs \ {n} : docs'[i] = docs[i]
  <1>0. docs \in Seq(DocType) /\ Len(docs) <= MaxDocs /\ Len(docs) \in Nat
        /\ DOMAIN docs = 1 .. Len(docs)
    BY Fields DEF TypeInv
  <1>1. /\ docs' \in Seq(DocType) /\ Len(docs') <= MaxDocs
        /\ DOMAIN docs' = DOMAIN docs \cup {n} /\ docs'[n] = d
        /\ \A i \in DOMAIN docs \ {n} : docs'[i] = docs[i]
    <2>1. CASE n = Len(docs) + 1 /\ n <= MaxDocs /\ docs' = Append(docs, d)
      <3>0. /\ Append(docs, d) \in Seq(DocType)
            /\ Len(Append(docs, d)) = Len(docs) + 1
            /\ \A i \in 1 .. Len(docs) : Append(docs, d)[i] = docs[i]
            /\ Append(docs, d)[Len(docs) + 1] = d
        <4>1. docs \in Seq(DocType) /\ d \in DocType
          BY <1>0
        <4> HIDE DEF DocType
        <4> QED
          BY <4>1, AppendProperties
      <3>1. /\ docs' \in Seq(DocType) /\ Len(docs') = Len(docs) + 1
            /\ \A i \in 1 .. Len(docs) : docs'[i] = docs[i]
            /\ docs'[Len(docs) + 1] = d
        BY <2>1, <3>0
      <3>2. DOMAIN docs' = 1 .. Len(docs) + 1
        BY <3>1, LenProperties
      <3>3. 1 .. Len(docs) + 1 = (1 .. Len(docs)) \cup {Len(docs) + 1}
        BY <1>0
      <3> QED
        BY <1>0, <2>1, <3>1, <3>2, <3>3
    <2>2. CASE n \in DOMAIN docs /\ docs[n].by = c /\ docs' = [docs EXCEPT ![n] = d]
      <3>1. docs' \in Seq(DocType) /\ Len(docs') = Len(docs)
        BY <1>0, <2>2, ExceptSeq
      <3>2. DOMAIN docs' = DOMAIN docs \cup {n}
        BY <1>0, <2>2
      <3>3. docs'[n] = d /\ \A i \in DOMAIN docs \ {n} : docs'[i] = docs[i]
        BY <2>2
      <3> QED
        BY <1>0, <3>1, <3>2, <3>3
    <2> QED
      BY <2>1, <2>2
  <1>2. n \in DOMAIN docs => docs[n].by = c
    BY <1>0
  <1>3. Apart(c)
    BY <1>1, <1>2 DEF Apart
  <1>4. \A i \in DOMAIN docs' : docs'[i].by \in Caller
    BY <1>1, Fields
  <1>5. \A i \in DOMAIN docs' \ {n} :
          /\ i \in DOMAIN docs /\ docs'[i] = docs[i]
          /\ call'[docs[i].by].req = call[docs[i].by].req /\ call'[docs[i].by].pc # "idle"
    BY <1>1, <1>4 DEF RowInv
  <1>6. RowInv'
    <2> SUFFICES ASSUME NEW i \in DOMAIN docs'
                 PROVE  /\ call'[docs'[i].by].pc # "idle"
                        /\ GoodRow(docs'[i], call'[docs'[i].by].req)
      BY DEF RowInv, GoodRow
    <2>1. CASE i = n
      BY <1>1, <2>1
    <2>2. CASE i # n
      BY <1>5, <2>2 DEF RowInv, GoodRow
    <2> QED
      BY <2>1, <2>2
  <1> QED
    BY <1>1, <1>3, <1>6

\* The row of CreateDocument or SendMessage.
LEMMA NewRowIsGood ==
    ASSUME Inv, NEW c \in Caller, call[c].pc = "create", NEW ok \in BOOLEAN
    PROVE  /\ NewRow(c, ok) \in DocType /\ NewRow(c, ok).by = c
           /\ NewRow(c, ok).answered = ok
           /\ GoodRow(NewRow(c, ok), Req(c))
           /\ Whole(Req(c)) => NewRow(c, ok).body \in {"plain", "sealed"}
  <1>1. /\ Req(c) \in Request /\ call[c].key \in Person \cup {None}
        /\ call[c].key = TargetOf(Req(c))
        /\ ~ Refused(Req(c)) /\ (Req(c).op = "message" => PerPerson(Req(c)))
    BY Fields DEF Inv, CallInv, Checked, Req
  <1>2. /\ Req(c).op \in {"document", "message"} /\ Req(c).to \in Person
        /\ Req(c).contract \in BOOLEAN /\ Req(c).private \in BOOLEAN
    BY <1>1 DEF Request
  <1>3. \A p \in Person : p # None
    BY MaxRowAssumption DEF Person, Row, None
  <1>4. PerPerson(Req(c)) => TargetOf(Req(c)) # None
    BY <1>2, <1>3 DEF TargetOf
  <1>5. ~ PerPerson(Req(c)) =>
          TargetOf(Req(c)) = None /\ ~ (Req(c).contract \/ Req(c).private)
    BY <1>1, <1>2 DEF TargetOf, Refused
  <1>6. TargetOf(Req(c)) \in Person \cup {None}
    BY <1>2 DEF TargetOf
  <1>7. NewRow(c, ok) \in DocType
    BY <1>1, <1>2, <1>6 DEF NewRow, DocType
  <1>8. GoodRow(NewRow(c, ok), Req(c))
    BY <1>1, <1>4, <1>5 DEF NewRow, GoodRow
  <1> QED
    BY <1>7, <1>8 DEF NewRow

\* Create keeps the invariant: an answer makes the row the call's own, a lost one leaves a
\* row that nobody was told of, and a second sending may leave two.
LEMMA CreateKeeps ==
    ASSUME Inv, NEW c \in Caller, Create(c)
    PROVE  Inv'
  <1>0. TypeInv /\ RowInv /\ CallInv(c) /\ call[c].pc = "create" /\ Len(docs) < MaxDocs
    BY DEF Inv, Create, At
  <1>1. PICK o \in Outcome(c) :
          /\ docs' = IF o.acted THEN Append(docs, NewRow(c, o.answer = "ok")) ELSE docs
          /\ call' = [call EXCEPT ![c] =
                CASE o.answer = "again" -> [@ EXCEPT !.resent = TRUE]
                  [] o.answer = "error" -> [@ EXCEPT !.pc = "over", !.result = "error"]
                  [] o.answer = "ok" ->
                       IF Whole(@.req)
                       THEN [@ EXCEPT !.pc = "over", !.result = "created", !.id = Len(docs) + 1]
                       ELSE [@ EXCEPT !.pc = "upload", !.id = Len(docs) + 1, !.resent = FALSE]]
    BY DEF Create
  <1> DEFINE n == Len(docs) + 1
             row == NewRow(c, o.answer = "ok")
  <1>2. o.answer \in {"ok", "again", "error"} /\ (o.answer = "ok" => o.acted)
    BY Outcomes
  <1>3. n \in 0 .. MaxDocs /\ n \notin DOMAIN docs /\ n <= MaxDocs
    BY <1>0, Fields, MaxDocsAssumption
  <1>4. /\ row \in DocType /\ row.by = c /\ row.answered = (o.answer = "ok")
        /\ GoodRow(row, call[c].req)
        /\ Whole(Req(c)) => row.body \in {"plain", "sealed"}
    BY <1>0, NewRowIsGood DEF Req
  <1>5. \A i \in DOMAIN docs : docs[i].by = c => ~ docs[i].answered
    BY <1>0 DEF CallInv, Owned
  <1>6. /\ call[c] \in CallType
        /\ \A d \in Caller \ {c} : call'[d] = call[d]
    BY <1>0, <1>1 DEF TypeInv
  <1>7. o.acted =>
          /\ docs' = Append(docs, row)
    BY <1>1
  <1> HIDE DEF row
  <1>8. ASSUME call'[c].req = call[c].req, call'[c].pc # "idle"
        PROVE  /\ Apart(c) /\ RowInv' /\ docs' \in Seq(DocType) /\ Len(docs') <= MaxDocs
               /\ o.acted => /\ DOMAIN docs' = DOMAIN docs \cup {n} /\ docs'[n] = row
                             /\ \A i \in DOMAIN docs \ {n} : docs'[i] = docs[i]
               /\ ~ o.acted => docs' = docs
    <2>1. CASE o.acted
      <3>1. docs' = Append(docs, row)
        BY <1>7, <2>1
      <3> QED
        BY <1>0, <1>3, <1>4, <1>6, <1>8, <2>1, <3>1, OneRow
    <2>2. CASE ~ o.acted
      <3>1. docs' = docs
        BY <1>1, <2>2
      <3> QED
        BY <1>0, <1>6, <1>8, <2>2, <3>1, RowsKeep DEF TypeInv
    <2> QED
      BY <2>1, <2>2
  <1>9. ASSUME call'[c].req = call[c].req, call'[c].pc # "idle", o.answer # "ok"
        PROVE  \A i \in DOMAIN docs' : docs'[i].by = c => ~ docs'[i].answered
    BY <1>3, <1>4, <1>5, <1>8, <1>9
  <1>10. CASE o.answer = "again"
    <2>1. [call[c] EXCEPT !.resent = TRUE] \in CallType
      BY <1>6 DEF CallType
    <2>2. call' = [call EXCEPT ![c] = [call[c] EXCEPT !.resent = TRUE]]
      BY <1>1, <1>10
    <2>3. Writes(c, "create")
      BY <1>0, <1>6, <2>1, <2>2 DEF Writes, TypeInv, CallType
    <2>4. call'[c].pc = "create" /\ call'[c].req = call[c].req
      BY <2>3 DEF Writes
    <2>5. Owned(c)'
      BY <1>9, <1>10, <2>4 DEF Owned
    <2> QED
      BY <1>8, <2>3, <2>4, <2>5, WritesKeep
  <1>11. CASE o.answer = "error"
    <2>1. [call[c] EXCEPT !.pc = "over", !.result = "error"] \in CallType
      BY <1>6 DEF CallType
    <2>2. call' = [call EXCEPT ![c] = [call[c] EXCEPT !.pc = "over", !.result = "error"]]
      BY <1>1, <1>11
    <2>3. Writes(c, "over") /\ call'[c].result = "error"
      BY <1>0, <1>6, <2>1, <2>2 DEF Writes, TypeInv, CallType
    <2>4. call'[c].pc = "over" /\ call'[c].req = call[c].req
      BY <2>3 DEF Writes
    <2>5. Owned(c)'
      BY <1>9, <1>11, <2>3, <2>4 DEF Owned, Completed, Excused
    <2> QED
      BY <1>8, <2>3, <2>4, <2>5, WritesKeep
  <1>12. CASE o.answer = "ok" /\ Whole(Req(c))
    <2>1. [call[c] EXCEPT !.pc = "over", !.result = "created", !.id = n] \in CallType
      BY <1>3, <1>6 DEF CallType
    <2>2. call' = [call EXCEPT ![c] =
              [call[c] EXCEPT !.pc = "over", !.result = "created", !.id = n]]
      BY <1>1, <1>12 DEF Req
    <2>3. Writes(c, "over") /\ call'[c].id = n
      BY <1>0, <1>6, <2>1, <2>2 DEF Writes, TypeInv, CallType
    <2>4. call'[c].pc = "over" /\ call'[c].req = call[c].req
      BY <2>3 DEF Writes
    <2>5. Owned(c)'
      BY <1>2, <1>4, <1>5, <1>8, <1>12, <2>3, <2>4 DEF Owned, Completed, Excused
    <2> QED
      BY <1>8, <2>3, <2>4, <2>5, WritesKeep
  <1>13. CASE o.answer = "ok" /\ ~ Whole(Req(c))
    <2>1. [call[c] EXCEPT !.pc = "upload", !.id = n, !.resent = FALSE] \in CallType
      BY <1>3, <1>6 DEF CallType
    <2>2. call' = [call EXCEPT ![c] =
              [call[c] EXCEPT !.pc = "upload", !.id = n, !.resent = FALSE]]
      BY <1>1, <1>13 DEF Req
    <2>3. Writes(c, "upload") /\ call'[c].id = n
      BY <1>0, <1>6, <2>1, <2>2 DEF Writes, TypeInv, CallType
    <2>4. call'[c].pc = "upload" /\ call'[c].req = call[c].req
      BY <2>3 DEF Writes
    <2>5. Owned(c)'
      BY <1>2, <1>3, <1>4, <1>5, <1>8, <1>13, <2>3, <2>4 DEF Owned
    <2> QED
      BY <1>8, <2>3, <2>4, <2>5, WritesKeep
  <1> QED
    BY <1>2, <1>10, <1>11, <1>12, <1>13

\* Upload keeps the invariant: the bytes go to the call's own row, for its own target.
LEMMA UploadKeeps ==
    ASSUME Inv, NEW c \in Caller, Upload(c)
    PROVE  Inv'
  <1>0. TypeInv /\ RowInv /\ CallInv(c) /\ call[c].pc = "upload"
    BY DEF Inv, Upload, At
  <1> DEFINE n == call[c].id
             row == [docs[n] EXCEPT !.body = IF PerPerson(Req(c)) THEN "sealed" ELSE "plain",
                                    !.for = call[c].key]
  <1>1. PICK o \in Outcome(c) :
          /\ docs' = IF o.acted
                     THEN [docs EXCEPT ![call[c].id] = [@ EXCEPT
                              !.body = IF PerPerson(Req(c)) THEN "sealed" ELSE "plain",
                              !.for = call[c].key]]
                     ELSE docs
          /\ call' = [call EXCEPT ![c] =
                CASE o.answer = "again" -> [@ EXCEPT !.resent = TRUE]
                  [] o.answer = "error" -> [@ EXCEPT !.pc = "cleanup", !.resent = FALSE]
                  [] OTHER -> [@ EXCEPT !.pc = "over", !.result = "created"]]
    BY DEF Upload
  <1>2. o.answer \in {"ok", "again", "error"} /\ (o.answer = "ok" => o.acted)
    BY Outcomes
  <1>3. /\ n \in DOMAIN docs /\ docs[n].by = c
        /\ \A i \in DOMAIN docs : docs[i].by = c /\ docs[i].answered => i = n
    BY <1>0 DEF CallInv, Owned
  <1>4. /\ call[c] \in CallType /\ call[c].key \in Person \cup {None}
        /\ docs[n] \in DocType
        /\ \A d \in Caller \ {c} : call'[d] = call[d]
    BY <1>0, <1>1, <1>3, Fields DEF TypeInv
  <1>5. /\ row \in DocType /\ row.by = c /\ row.answered = docs[n].answered
        /\ row.body \in {"plain", "sealed"} /\ row.to = docs[n].to
        /\ row.locked = docs[n].locked /\ row.for = call[c].key
        /\ row.body = "sealed" <=> PerPerson(Req(c))
    BY <1>3, <1>4 DEF DocType
  <1>6. GoodRow(row, call[c].req)
    <2>1. call[c].key = TargetOf(Req(c))
      BY <1>0 DEF CallInv, Checked
    <2>2. docs[n].to = TargetOf(Req(c)) /\ (docs[n].to = None => ~ docs[n].locked)
      BY <1>0, <1>3 DEF RowInv, Req
    <2>3. PerPerson(Req(c)) => TargetOf(Req(c)) # None
      <3>1. Req(c).to \in Row
        BY <1>0, Fields DEF Req, Request, Person
      <3> QED
        BY <3>1, MaxRowAssumption DEF TargetOf, Row, None
    <2>4. ~ PerPerson(Req(c)) => TargetOf(Req(c)) = None
      BY DEF TargetOf
    <2> HIDE DEF row, n
    <2> QED
      BY <1>5, <2>1, <2>2, <2>3, <2>4 DEF GoodRow, Req
  <1>7. o.acted => docs' = [docs EXCEPT ![n] = row]
    BY <1>1
  <1> HIDE DEF row, n
  <1>8. ASSUME call'[c].req = call[c].req, call'[c].pc # "idle"
        PROVE  /\ Apart(c) /\ RowInv' /\ docs' \in Seq(DocType) /\ Len(docs') <= MaxDocs
               /\ DOMAIN docs' = DOMAIN docs
               /\ docs'[n] = IF o.acted THEN row ELSE docs[n]
               /\ \A i \in DOMAIN docs \ {n} : docs'[i] = docs[i]
    <2>1. CASE o.acted
      <3>1. docs' = [docs EXCEPT ![n] = row]
        BY <1>7, <2>1
      <3>2. DOMAIN docs \cup {n} = DOMAIN docs
        BY <1>3
      <3> QED
        BY <1>0, <1>3, <1>4, <1>5, <1>6, <1>8, <2>1, <3>1, <3>2, OneRow
    <2>2. CASE ~ o.acted
      <3>1. docs' = docs
        BY <1>1, <2>2
      <3> QED
        BY <1>0, <1>4, <1>8, <2>2, <3>1, RowsKeep DEF TypeInv
    <2> QED
      BY <2>1, <2>2
  <1>9. CASE o.answer = "again"
    <2>1. [call[c] EXCEPT !.resent = TRUE] \in CallType
      BY <1>4 DEF CallType
    <2>2. call' = [call EXCEPT ![c] = [call[c] EXCEPT !.resent = TRUE]]
      BY <1>1, <1>9
    <2>3. Writes(c, "upload") /\ call'[c].id = n
      BY <1>0, <1>4, <2>1, <2>2 DEF Writes, TypeInv, CallType, n
    <2>4. call'[c].pc = "upload" /\ call'[c].req = call[c].req
      BY <2>3 DEF Writes
    <2>5. Owned(c)'
      BY <1>3, <1>5, <1>8, <2>3, <2>4 DEF Owned
    <2> QED
      BY <1>8, <2>3, <2>4, <2>5, WritesKeep
  <1>10. CASE o.answer = "error"
    <2>1. [call[c] EXCEPT !.pc = "cleanup", !.resent = FALSE] \in CallType
      BY <1>4 DEF CallType
    <2>2. call' = [call EXCEPT ![c] = [call[c] EXCEPT !.pc = "cleanup", !.resent = FALSE]]
      BY <1>1, <1>10
    <2>3. Writes(c, "cleanup") /\ call'[c].id = n
      BY <1>0, <1>4, <2>1, <2>2 DEF Writes, TypeInv, CallType, n
    <2>4. call'[c].pc = "cleanup" /\ call'[c].req = call[c].req
      BY <2>3 DEF Writes
    <2>5. Owned(c)'
      BY <1>3, <1>5, <1>8, <2>3, <2>4 DEF Owned
    <2> QED
      BY <1>8, <2>3, <2>4, <2>5, WritesKeep
  <1>11. CASE o.answer = "ok"
    <2>1. [call[c] EXCEPT !.pc = "over", !.result = "created"] \in CallType
      BY <1>4 DEF CallType
    <2>2. call' = [call EXCEPT ![c] = [call[c] EXCEPT !.pc = "over", !.result = "created"]]
      BY <1>1, <1>11
    <2>3. Writes(c, "over") /\ call'[c].id = n
      BY <1>0, <1>4, <2>1, <2>2 DEF Writes, TypeInv, CallType, n
    <2>4. call'[c].pc = "over" /\ call'[c].req = call[c].req
      BY <2>3 DEF Writes
    <2>5. docs'[n].body \in {"plain", "sealed"} /\ docs'[n].by = c
      BY <1>2, <1>5, <1>8, <1>11, <2>3, <2>4
    <2>6. \A i \in DOMAIN docs' \ {n} : docs'[i].by = c => ~ docs'[i].answered
      BY <1>3, <1>8, <2>4
    <2>7. Owned(c)'
      BY <1>3, <1>8, <2>3, <2>4, <2>5, <2>6 DEF Owned, Completed, Excused
    <2> QED
      BY <1>8, <2>3, <2>4, <2>7, WritesKeep
  <1> QED
    BY <1>2, <1>9, <1>10, <1>11

\* Cleanup keeps the invariant: it deletes the call's own row or says why not.
LEMMA CleanupKeeps ==
    ASSUME Inv, NEW c \in Caller, Cleanup(c)
    PROVE  Inv'
  <1>0. TypeInv /\ RowInv /\ CallInv(c) /\ call[c].pc = "cleanup"
    BY DEF Inv, Cleanup, At
  <1> DEFINE n == call[c].id
             row == [docs[n] EXCEPT !.body = "deleted"]
  <1>1. PICK o \in Outcome(c) :
          /\ docs' = IF o.acted THEN [docs EXCEPT ![call[c].id].body = "deleted"] ELSE docs
          /\ call' = [call EXCEPT ![c] =
                IF o.answer = "again" THEN [@ EXCEPT !.resent = TRUE]
                ELSE [@ EXCEPT !.pc = "over", !.result = "error",
                        !.excuse = IF o.answer = "ok" THEN ""
                                   ELSE IF walk[c].live THEN "delete" ELSE "context"]]
    BY DEF Cleanup
  <1>2. o.answer \in {"ok", "again", "error"} /\ (o.answer = "ok" => o.acted)
    BY Outcomes
  <1>3. /\ n \in DOMAIN docs /\ docs[n].by = c
        /\ \A i \in DOMAIN docs : docs[i].by = c /\ docs[i].answered => i = n
    BY <1>0 DEF CallInv, Owned
  <1>4. /\ call[c] \in CallType /\ docs[n] \in DocType
        /\ \A d \in Caller \ {c} : call'[d] = call[d]
    BY <1>0, <1>1, <1>3, Fields DEF TypeInv
  <1>5. /\ row \in DocType /\ row.by = c /\ row.answered = docs[n].answered
        /\ row.body = "deleted" /\ row.to = docs[n].to /\ row.locked = docs[n].locked
    BY <1>3, <1>4 DEF DocType
  <1>6. GoodRow(row, call[c].req)
    <2>1. docs[n].to = TargetOf(call[c].req) /\ (docs[n].to = None => ~ docs[n].locked)
      BY <1>0, <1>3 DEF RowInv
    <2> HIDE DEF row, n
    <2> QED
      BY <1>5, <2>1 DEF GoodRow
  <1>7. o.acted => docs' = [docs EXCEPT ![n] = row]
    BY <1>1
  <1> HIDE DEF row, n
  <1>8. ASSUME call'[c].req = call[c].req, call'[c].pc # "idle"
        PROVE  /\ Apart(c) /\ RowInv' /\ docs' \in Seq(DocType) /\ Len(docs') <= MaxDocs
               /\ DOMAIN docs' = DOMAIN docs
               /\ docs'[n] = IF o.acted THEN row ELSE docs[n]
               /\ \A i \in DOMAIN docs \ {n} : docs'[i] = docs[i]
    <2>1. CASE o.acted
      <3>1. docs' = [docs EXCEPT ![n] = row]
        BY <1>7, <2>1
      <3>2. DOMAIN docs \cup {n} = DOMAIN docs
        BY <1>3
      <3> QED
        BY <1>0, <1>3, <1>4, <1>5, <1>6, <1>8, <2>1, <3>1, <3>2, OneRow
    <2>2. CASE ~ o.acted
      <3>1. docs' = docs
        BY <1>1, <2>2
      <3> QED
        BY <1>0, <1>4, <1>8, <2>2, <3>1, RowsKeep DEF TypeInv
    <2> QED
      BY <2>1, <2>2
  <1>9. CASE o.answer = "again"
    <2>1. [call[c] EXCEPT !.resent = TRUE] \in CallType
      BY <1>4 DEF CallType
    <2>2. call' = [call EXCEPT ![c] = [call[c] EXCEPT !.resent = TRUE]]
      BY <1>1, <1>9
    <2>3. Writes(c, "cleanup") /\ call'[c].id = n
      BY <1>0, <1>4, <2>1, <2>2 DEF Writes, TypeInv, CallType, n
    <2>4. call'[c].pc = "cleanup" /\ call'[c].req = call[c].req
      BY <2>3 DEF Writes
    <2>5. Owned(c)'
      BY <1>3, <1>5, <1>8, <2>3, <2>4 DEF Owned
    <2> QED
      BY <1>8, <2>3, <2>4, <2>5, WritesKeep
  <1>10. CASE o.answer # "again"
    <2> DEFINE excuse == IF o.answer = "ok" THEN ""
                         ELSE IF walk[c].live THEN "delete" ELSE "context"
    <2>1. call' = [call EXCEPT ![c] =
              [call[c] EXCEPT !.pc = "over", !.result = "error", !.excuse = excuse]]
      BY <1>1, <1>10
    <2>2. excuse \in {"", "delete", "context"} /\ (excuse = "" => o.acted)
      BY <1>2
    <2> HIDE DEF excuse
    <2>3. [call[c] EXCEPT !.pc = "over", !.result = "error", !.excuse = excuse] \in CallType
      BY <1>4, <2>2 DEF CallType
    <2>4. Writes(c, "over") /\ call'[c].result = "error" /\ call'[c].excuse = excuse
      BY <1>0, <1>4, <2>1, <2>3 DEF Writes, TypeInv, CallType
    <2>5. call'[c].pc = "over" /\ call'[c].req = call[c].req
      BY <2>4 DEF Writes
    <2>6. excuse = "" => docs'[n].body = "deleted"
      BY <1>5, <1>8, <2>2, <2>5
    <2>7. \A i \in DOMAIN docs' \ {n} : docs'[i].by = c => ~ docs'[i].answered
      BY <1>3, <1>8, <2>5
    <2>8. Owned(c)'
      BY <1>8, <2>4, <2>5, <2>6, <2>7 DEF Owned, Completed, Excused
    <2> QED
      BY <1>8, <2>4, <2>5, <2>8, WritesKeep
  <1> QED
    BY <1>9, <1>10

-----------------------------------------------------------------------------
(* The invariant and what follows from it.                                  *)

\* At first no call has begun and no row is there.
LEMMA InitHolds == Init => Inv
  <1> SUFFICES ASSUME Init PROVE Inv
    OBVIOUS
  <1>1. docs = <<>> /\ call = [c \in Caller |-> NoCall]
    BY DEF Init
  <1>2. TypeInv
    <2>1. <<>> \in Seq(DocType) /\ Len(<<>>) = 0
      OBVIOUS
    <2>2. ASSUME NEW c \in Caller PROVE NoCall \in CallType
      <3>1. 1 \in Person
        BY MaxRowAssumption DEF Person, Row
      <3> QED
        BY <3>1, MaxDocsAssumption DEF NoCall, CallType, AnyRequest, Request, None
    <2> QED
      BY <1>1, <2>1, <2>2, MaxDocsAssumption DEF TypeInv
  <1>3. RowInv /\ \A c \in Caller : CallInv(c)
    <2>1. DOMAIN docs = {}
      BY <1>1
    <2>2. \A c \in Caller : call[c].pc = "idle"
      BY <1>1 DEF NoCall
    <2> QED
      BY <2>1, <2>2 DEF RowInv, CallInv, Checked, Owned, Unwritten
  <1> QED
    BY <1>2, <1>3 DEF Inv

\* What no call is part of leaves the rows and the calls alone.
LEMMA OthersStutter ==
    ASSUME Inv, UNCHANGED <<docs, call>>
    PROVE  Inv'
  <1>1. docs' = docs /\ call' = call
    OBVIOUS
  <1>2. TypeInv' /\ RowInv'
    BY <1>1 DEF Inv, TypeInv, RowInv
  <1>3. ASSUME NEW c \in Caller PROVE CallInv(c)'
    <2>1. CallInv(c)
      BY DEF Inv
    <2>2. Checked(c)'
      BY <1>1, <2>1 DEF CallInv, Checked, Unwritten, Req
    <2>3. Owned(c)'
      BY <1>1, <2>1 DEF CallInv, Owned, Completed, Excused
    <2> QED
      BY <2>2, <2>3 DEF CallInv
  <1> QED
    BY <1>2, <1>3 DEF Inv

\* Every step keeps the invariant, as long as the scans find the code they look for.
LEMMA NextKeeps == Inv /\ Matched /\ [Next]_vars => Inv'
  <1> SUFFICES ASSUME Inv, Matched, [Next]_vars PROVE Inv'
    OBVIOUS
  <1>1. CASE UNCHANGED <<docs, call>>
    BY <1>1, OthersStutter
  <1>2. CASE \E c \in Caller, q \in Asked : Begin(c, q)
    BY <1>2, BeginKeeps
  <1>3. CASE \E c \in Caller : Write(c)
    <2>1. PICK c \in Caller : Write(c)
      BY <1>3
    <2>2. CASE Resolve(c) \/ Resolved(c) \/ FetchKey(c)
      BY <2>2, LookupKeeps
    <2>3. CASE Create(c)
      BY <2>3, CreateKeeps
    <2>4. CASE CreateFails(c)
      BY <2>4, CreateFailsKeeps
    <2>5. CASE Upload(c)
      BY <2>5, UploadKeeps
    <2>6. CASE SealFails(c)
      BY <2>6, SealFailsKeeps
    <2>7. CASE Cleanup(c)
      BY <2>7, CleanupKeeps
    <2> QED
      BY <2>1, <2>2, <2>3, <2>4, <2>5, <2>6, <2>7 DEF Write
  <1>4. CASE Next
    <2>1. \A c \in Caller : Expire(c) => UNCHANGED <<docs, call>>
      BY DEF Expire
    <2>2. \A w \in Walker : ReadList(w) => UNCHANGED <<docs, call>>
      BY DEF ReadList
    <2> QED
      BY <1>1, <1>2, <1>3, <1>4, <2>1, <2>2 DEF Next
  <1>5. CASE UNCHANGED vars
    BY <1>1, <1>5 DEF vars
  <1> QED
    BY <1>4, <1>5

-----------------------------------------------------------------------------
(* The pages of the platform.                                               *)

\* A set of naturals has a least member.
LEMMA LeastOf == ASSUME NEW S \in SUBSET Nat, S # {} PROVE \E m \in S : \A k \in S : m <= k
  <1>1. PICK m \in S : \A k \in S : ~ (<<k, m>> \in OpToRel(<, Nat))
    BY WFMin, NatLessThanWellFounded
  <1>2. \A k \in S : ~ k < m
    BY <1>1 DEF OpToRel
  <1> QED
    BY <1>2

LEMMA RowNumbers ==
    /\ MaxRow \in Nat /\ MaxRow >= 1
    /\ \A m : rows \subseteq Row => Beyond(m) \subseteq 1 .. MaxRow
    /\ PageSize \in Nat /\ PageSize >= 1
  <1>1. MaxRow \in Nat /\ MaxRow >= 1 /\ PageSize \in Nat /\ PageSize >= 1
    BY MaxRowAssumption, PageAssumption
  <1>2. \A m : Beyond(m) \subseteq rows
    BY DEF Beyond
  <1> QED
    BY <1>1, <1>2 DEF Row

\* How places grow along the rows beyond a marker.
LEMMA Places ==
    ASSUME rows \subseteq Row, NEW m
    PROVE  /\ Cardinality(Beyond(m)) \in Nat
           /\ \A r \in 0 .. MaxRow : Place(m, r) \in Nat
           /\ Place(m, 0) = 0 /\ Place(m, MaxRow) = Cardinality(Beyond(m))
           /\ \A q, r \in 0 .. MaxRow : q <= r => Place(m, q) <= Place(m, r)
           /\ \A r \in 1 .. MaxRow : Place(m, r) = IF r \in Beyond(m) THEN Place(m, r - 1) + 1
                                                   ELSE Place(m, r - 1)
  <1> DEFINE Upto(r) == {q \in Beyond(m) : q <= r}
  <1>0. MaxRow \in Nat /\ MaxRow >= 1 /\ Beyond(m) \subseteq 1 .. MaxRow
    BY RowNumbers
  <1>1. IsFiniteSet(Beyond(m))
    <2>1. IsFiniteSet(1 .. MaxRow)
      BY <1>0, FS_Interval
    <2> QED
      BY <1>0, <2>1, FS_Subset
  <1>2. \A r : IsFiniteSet(Upto(r))
    BY <1>1, FS_Subset
  <1>3. \A r : Place(m, r) = Cardinality(Upto(r))
    BY DEF Place
  <1>4. \A r : Place(m, r) \in Nat
    BY <1>2, <1>3, FS_CardinalityType
  <1>5. Upto(0) = {} /\ Upto(MaxRow) = Beyond(m)
    BY <1>0
  <1>6. ASSUME NEW q \in 0 .. MaxRow, NEW r \in 0 .. MaxRow, q <= r
        PROVE  Place(m, q) <= Place(m, r)
    <2>1. Upto(q) \in SUBSET Upto(r)
      BY <1>0, <1>6
    <2> QED
      <3>1. IsFiniteSet(Upto(r)) /\ Upto(q) \in SUBSET Upto(r)
        BY <1>2, <2>1
      <3>2. Cardinality(Upto(q)) <= Cardinality(Upto(r))
        BY <3>1, FS_Subset
      <3> QED
        BY <1>3, <3>2
  <1>7. ASSUME NEW r \in 1 .. MaxRow
        PROVE  Place(m, r) = IF r \in Beyond(m) THEN Place(m, r - 1) + 1 ELSE Place(m, r - 1)
    <2>1. CASE r \in Beyond(m)
      <3>1. Upto(r) = Upto(r - 1) \cup {r} /\ r \notin Upto(r - 1)
        BY <1>0, <2>1
      <3>2. Cardinality(Upto(r)) = Cardinality(Upto(r - 1)) + 1
        BY <1>2, <3>1, FS_AddElement
      <3> QED
        BY <1>3, <2>1, <3>2
    <2>2. CASE r \notin Beyond(m)
      <3>1. Upto(r) = Upto(r - 1)
        BY <1>0, <2>2
      <3> QED
        BY <1>3, <2>2, <3>1
    <2> QED
      BY <2>1, <2>2
  <1>8. Place(m, 0) = 0 /\ Place(m, MaxRow) = Cardinality(Beyond(m))
    BY <1>3, <1>5, FS_EmptySet
  <1>9. Cardinality(Beyond(m)) \in Nat
    BY <1>1, FS_CardinalityType
  <1> QED
    BY <1>4, <1>6, <1>7, <1>8, <1>9

\* Each place up to the number of rows beyond the marker is one row's.
LEMMA PlaceTaken ==
    ASSUME rows \subseteq Row, NEW m, NEW i \in 1 .. Cardinality(Beyond(m))
    PROVE  \E r \in Beyond(m) : Place(m, r) = i
  <1> DEFINE S == {r \in 0 .. MaxRow : i <= Place(m, r)}
  <1>0. MaxRow \in Nat /\ Cardinality(Beyond(m)) \in Nat /\ Place(m, 0) = 0
        /\ Place(m, MaxRow) = Cardinality(Beyond(m))
    BY Places, MaxRowAssumption
  <1>1. MaxRow \in S /\ S \in SUBSET Nat
    BY <1>0
  <1>2. PICK r \in S : \A k \in S : r <= k
    BY <1>1, LeastOf
  <1>3. r # 0
    BY <1>0
  <1>4. r \in 1 .. MaxRow /\ r - 1 \in 0 .. MaxRow /\ r - 1 \notin S
    BY <1>0, <1>2, <1>3
  <1>5. Place(m, r - 1) < i /\ i <= Place(m, r)
    BY <1>0, <1>4, Places
  <1>6. Place(m, r) = IF r \in Beyond(m) THEN Place(m, r - 1) + 1 ELSE Place(m, r - 1)
    BY <1>4, Places
  <1>7. Place(m, r) \in Nat /\ Place(m, r - 1) \in Nat
    BY <1>4, Places
  <1> QED
    BY <1>5, <1>6, <1>7

\* The members of a sequence rise.
Rising(s) == \A i, j \in 1 .. Len(s) : i < j => s[i] < s[j]

\* A page is the lowest rows beyond the marker, in order: with a marker of its own it holds
\* all of them up to that one, without it all of them.
LEMMA Pages ==
    ASSUME rows \subseteq Row, NEW m
    PROVE  /\ PageAfter(m) \in Seq(Row) /\ Rising(PageAfter(m))
           /\ ToSet(PageAfter(m)) \subseteq Beyond(m)
           /\ MarkerAfter(m) \in 0 .. MaxRow
           /\ MarkerAfter(m) = 0 => Beyond(m) \subseteq ToSet(PageAfter(m))
           /\ MarkerAfter(m) # 0 =>
                /\ PageAfter(m) # <<>>
                /\ \A r \in Beyond(m) : r <= MarkerAfter(m) <=> r \in ToSet(PageAfter(m))
  <1> DEFINE B == Beyond(m)
             p == PageAfter(m)
             n == IF Cardinality(B) > PageSize THEN PageSize ELSE Cardinality(B)
  <1>0. /\ MaxRow \in Nat /\ B \subseteq 1 .. MaxRow /\ B \subseteq Row
        /\ Cardinality(B) \in Nat
        /\ PageSize \in Nat /\ PageSize >= 1
    BY RowNumbers, Places DEF Row
  <1>1. n \in Nat /\ n <= Cardinality(B)
    BY <1>0
  <1>a. B \subseteq Int
    BY <1>0
  <1>2. p = [i \in 1 .. n |-> CHOOSE r \in B : Place(m, r) = i]
    BY DEF PageAfter
  <1> HIDE DEF p, B, n
  <1>3. ASSUME NEW i \in 1 .. n PROVE p[i] \in B /\ Place(m, p[i]) = i
    <2>1. i \in 1 .. Cardinality(B)
      BY <1>0, <1>1
    <2>2. \E r \in B : Place(m, r) = i
      BY <2>1, PlaceTaken DEF B
    <2> QED
      BY <1>2, <2>2
  <1>4. p \in Seq(Row) /\ Len(p) = n /\ DOMAIN p = 1 .. n
    <2>1. p \in [1 .. n -> Row]
      BY <1>0, <1>2, <1>3
    <2> QED
      BY <1>1, <2>1
  <1>5. ASSUME NEW q \in B, NEW r \in B, Place(m, q) < Place(m, r) PROVE q < r
    <2>1. q \in 0 .. MaxRow /\ r \in 0 .. MaxRow
      BY <1>0
    <2>2. r <= q => Place(m, r) <= Place(m, q)
      BY <2>1, Places
    <2>3. Place(m, r) \in Nat /\ Place(m, q) \in Nat
      BY <2>1, Places
    <2> QED
      BY <1>5, <2>1, <2>2, <2>3
  <1>6. Rising(p)
    <2> SUFFICES ASSUME NEW i \in 1 .. n, NEW j \in 1 .. n, i < j PROVE p[i] < p[j]
      BY <1>4 DEF Rising
    <2> QED
      BY <1>3, <1>5
  <1>7. ToSet(p) \subseteq B
    BY <1>3, <1>4 DEF ToSet
  <1>8. \A q, r \in B : q < r => Place(m, q) < Place(m, r)
    <2> SUFFICES ASSUME NEW q \in B, NEW r \in B, q < r PROVE Place(m, q) < Place(m, r)
      OBVIOUS
    <2>1. r \in 1 .. MaxRow /\ r - 1 \in 0 .. MaxRow /\ q \in 0 .. MaxRow /\ q <= r - 1
      BY <1>0
    <2>2. Place(m, q) <= Place(m, r - 1) /\ Place(m, r) = Place(m, r - 1) + 1
      BY <2>1, Places DEF B
    <2>3. Place(m, q) \in Nat /\ Place(m, r - 1) \in Nat
      BY <2>1, Places
    <2> QED
      BY <2>2, <2>3
  <1>9. ASSUME NEW r \in B PROVE Place(m, r) \in 1 .. Cardinality(B)
    <2>1. r \in 1 .. MaxRow /\ r - 1 \in 0 .. MaxRow /\ MaxRow \in 0 .. MaxRow /\ r <= MaxRow
          /\ r \in 0 .. MaxRow
      BY <1>0
    <2>2. Place(m, r) = Place(m, r - 1) + 1 /\ Place(m, r - 1) \in Nat
      BY <2>1, Places DEF B
    <2>3. Place(m, r) <= Cardinality(B)
      BY <2>1, Places DEF B
    <2> QED
      BY <1>0, <2>2, <2>3
  <1>10. ASSUME NEW r \in B, Place(m, r) <= n PROVE r \in ToSet(p)
    <2>1. Place(m, r) \in 1 .. n
      BY <1>0, <1>9, <1>10
    <2>2. p[Place(m, r)] \in B /\ Place(m, p[Place(m, r)]) = Place(m, r)
      BY <1>3, <2>1
    <2>3. PICK q \in B : q = p[Place(m, r)] /\ Place(m, q) = Place(m, r)
      BY <2>2
    <2>4. r = p[Place(m, r)]
      <3>1. q \in Int /\ r \in Int
        BY <1>a
      <3>2. Place(m, r) \in Int
        BY <1>1, <2>1
      <3> QED
        BY <1>8, <2>3, <3>1, <3>2
    <2> QED
      BY <1>4, <2>1, <2>4 DEF ToSet
  <1>11. CASE Cardinality(B) > PageSize
    <2>0. MarkerAfter(m) = Last(p) /\ n = PageSize
      BY <1>11 DEF MarkerAfter, B, p, n
    <2>1. MarkerAfter(m) = p[n] /\ n >= 1 /\ n \in 1 .. n
      BY <1>0, <1>1, <1>4, <2>0 DEF Last
    <2>a. p[n] \in B /\ Place(m, p[n]) = n
      BY <1>3, <2>1
    <2>2. p[n] \in B /\ Place(m, p[n]) = n /\ p[n] \in 0 .. MaxRow /\ p[n] # 0
      <3>1. p[n] \in 1 .. MaxRow
        BY <1>0, <2>a
      <3> QED
        BY <1>0, <2>a, <3>1
    <2>3. p # <<>>
      BY <1>4, <2>1
    <2>4. ASSUME NEW r \in B, r <= p[n] PROVE r \in ToSet(p)
      <3>1. r \in 0 .. MaxRow /\ p[n] \in 0 .. MaxRow
        BY <1>0, <2>2
      <3>2. Place(m, r) <= n
        BY <2>2, <2>4, <3>1, Places
      <3> QED
        BY <1>10, <3>2
    <2>5. ASSUME NEW r \in B, r \in ToSet(p) PROVE r <= p[n]
      <3>1. PICK i \in 1 .. n : r = p[i]
        BY <1>4, <2>5 DEF ToSet
      <3>2. i = n \/ i < n
        BY <1>1
      <3> QED
        BY <1>0, <1>3, <1>5, <2>1, <2>2, <3>1, <3>2
    <2> QED
      BY <1>4, <1>6, <1>7, <2>1, <2>2, <2>3, <2>4, <2>5 DEF p, B
  <1>12. CASE ~ Cardinality(B) > PageSize
    <2>1. MarkerAfter(m) = 0 /\ n = Cardinality(B)
      BY <1>12 DEF MarkerAfter, B, n
    <2>2. B \subseteq ToSet(p)
      BY <1>0, <1>9, <1>10, <2>1
    <2> QED
      BY <1>0, <1>4, <1>6, <1>7, <2>1, <2>2 DEF p, B
  <1> QED
    BY <1>11, <1>12

-----------------------------------------------------------------------------
(* The readings.                                                            *)

\* The rows a reading has still to come by.
Ahead(k) ==
    IF k.pc = "fetch" THEN {r \in Row : r > k.after}
    ELSE ToSet(k.page) \cup {r \in Row : k.next # 0 /\ r > k.next}

\* A reading under way has its rows behind it and the other rows ahead of it; one that
\* came to the end of the list without an error holds them all.
Complete(k) ==
    /\ k.pc \in {"fetch", "type", "offer"} =>
         /\ k.stood \subseteq ToSet(k.got) \cup Ahead(k)
         /\ \A a \in ToSet(k.got) : \A b \in Ahead(k) : a < b
         /\ k.page = <<>> <=> k.pc = "fetch"
         /\ k.next # 0 => \A b \in ToSet(k.page) : b <= k.next
    /\ k.pc = "closed" => k.failed \/ k.stood \subseteq ToSet(k.got)
    /\ k.result \in {"rows", "none"} => k.pc = "over" /\ k.stood \subseteq ToSet(k.got)
    /\ Rising(k.got) /\ Rising(k.page)

WalkOK(k, stand) == k \in WalkType /\ k.stood \subseteq stand /\ Complete(k)

WalksInv ==
    /\ rows \subseteq Row /\ changes \in 0 .. MaxChanges
    /\ walk \in [Walker -> WalkType]
    /\ \A w \in Walker : WalkOK(walk[w], rows)

\* The fields of a reading.
LEMMA WalkFields ==
    ASSUME NEW k \in WalkType
    PROVE  /\ k.pc \in {"idle", "fetch", "type", "offer", "closed", "over"}
           /\ k.op \in {"list", "resolve", "iterate", "pages"}
           /\ k.target \in 0 .. MaxRow /\ k.after \in 0 .. MaxRow /\ k.next \in 0 .. MaxRow
           /\ k.page \in Seq(Row) /\ k.got \in Seq(Row)
           /\ k.attempts \in 0 .. connMax429Backoffs
           /\ k.reader \in {"reading", "draining", "left"}
           /\ k.live \in BOOLEAN /\ k.failed \in BOOLEAN
           /\ k.stood \in SUBSET Row
           /\ k.result \in {"", "rows", "code", "none", "error"}
           /\ k.code \in 0 .. MaxRow
  BY DEF WalkType

\* The members of a sequence that grows or loses its head.
LEMMA Members ==
    ASSUME NEW s \in Seq(Row)
    PROVE  /\ ToSet(s) \subseteq Row
           /\ \A r \in Row : ToSet(Append(s, r)) = ToSet(s) \cup {r}
           /\ \A t \in Seq(Row) : s \o t \in Seq(Row) /\ ToSet(s \o t) = ToSet(s) \cup ToSet(t)
           /\ s # <<>> => /\ Head(s) \in Row /\ Tail(s) \in Seq(Row)
                          /\ ToSet(s) = {Head(s)} \cup ToSet(Tail(s))
           /\ s = <<>> => ToSet(s) = {}
  <1>0. DOMAIN s = 1 .. Len(s) /\ Len(s) \in Nat /\ \A i \in DOMAIN s : s[i] \in Row
    OBVIOUS
  <1>1. ToSet(s) \subseteq Row
    BY <1>0 DEF ToSet
  <1>2. ASSUME NEW r \in Row PROVE ToSet(Append(s, r)) = ToSet(s) \cup {r}
    <2> DEFINE t == Append(s, r)
    <2>1. /\ DOMAIN t = 1 .. Len(s) + 1 /\ t[Len(s) + 1] = r
          /\ \A i \in 1 .. Len(s) : t[i] = s[i]
      BY <1>0
    <2>2. DOMAIN t = DOMAIN s \cup {Len(s) + 1}
      BY <1>0, <2>1
    <2> HIDE DEF t
    <2>3. ToSet(t) = ToSet(s) \cup {r}
      BY <1>0, <2>1, <2>2 DEF ToSet
    <2> QED
      BY <2>3 DEF t
  <1>3. ASSUME NEW t \in Seq(Row)
        PROVE  s \o t \in Seq(Row) /\ ToSet(s \o t) = ToSet(s) \cup ToSet(t)
    <2>1. /\ s \o t \in Seq(Row) /\ Len(s \o t) = Len(s) + Len(t)
          /\ \A i \in 1 .. Len(s) + Len(t) :
               (s \o t)[i] = IF i <= Len(s) THEN s[i] ELSE t[i - Len(s)]
      OBVIOUS
    <2>2. Len(t) \in Nat /\ DOMAIN t = 1 .. Len(t) /\ DOMAIN (s \o t) = 1 .. Len(s) + Len(t)
      BY <2>1
    <2>3. ASSUME NEW x \in ToSet(s \o t) PROVE x \in ToSet(s) \cup ToSet(t)
      <3>1. PICK i \in 1 .. Len(s) + Len(t) : x = (s \o t)[i]
        BY <2>2 DEF ToSet
      <3>2. CASE i <= Len(s)
        <4>1. i \in DOMAIN s /\ x = s[i]
          BY <1>0, <2>1, <3>1, <3>2
        <4> QED
          BY <4>1 DEF ToSet
      <3>3. CASE ~ i <= Len(s)
        <4>1. i - Len(s) \in DOMAIN t /\ x = t[i - Len(s)]
          BY <1>0, <2>1, <2>2, <3>1, <3>3
        <4> QED
          BY <4>1 DEF ToSet
      <3> QED
        BY <3>2, <3>3
    <2>4. ASSUME NEW i \in DOMAIN s PROVE s[i] \in ToSet(s \o t)
      <3>1. i \in DOMAIN (s \o t) /\ (s \o t)[i] = s[i]
        BY <1>0, <2>1, <2>2
      <3> QED
        BY <3>1 DEF ToSet
    <2>5. ASSUME NEW i \in DOMAIN t PROVE t[i] \in ToSet(s \o t)
      <3>1. i + Len(s) \in DOMAIN (s \o t) /\ (s \o t)[i + Len(s)] = t[i]
        BY <1>0, <2>1, <2>2
      <3> QED
        BY <3>1 DEF ToSet
    <2>6. ToSet(s) \subseteq ToSet(s \o t) /\ ToSet(t) \subseteq ToSet(s \o t)
      BY <2>4, <2>5 DEF ToSet
    <2> QED
      BY <2>1, <2>3, <2>6
  <1>4. ASSUME s # <<>>
        PROVE  /\ Head(s) \in Row /\ Tail(s) \in Seq(Row)
               /\ ToSet(s) = {Head(s)} \cup ToSet(Tail(s))
    <2>1. /\ Len(s) >= 1 /\ Head(s) = s[1] /\ Tail(s) \in Seq(Row)
          /\ Len(Tail(s)) = Len(s) - 1 /\ DOMAIN Tail(s) = 1 .. Len(s) - 1
          /\ \A i \in 1 .. Len(s) - 1 : Tail(s)[i] = s[i + 1]
      BY <1>0, <1>4
    <2>2. ASSUME NEW i \in DOMAIN s PROVE s[i] \in {Head(s)} \cup ToSet(Tail(s))
      <3>1. i = 1 \/ (i - 1 \in DOMAIN Tail(s) /\ Tail(s)[i - 1] = s[i])
        BY <1>0, <2>1
      <3> QED
        BY <2>1, <3>1 DEF ToSet
    <2>3. ASSUME NEW i \in DOMAIN Tail(s) PROVE Tail(s)[i] \in ToSet(s)
      <3>1. i + 1 \in DOMAIN s /\ s[i + 1] = Tail(s)[i]
        BY <1>0, <2>1
      <3> QED
        BY <3>1 DEF ToSet
    <2>4. 1 \in DOMAIN s
      BY <1>0, <2>1
    <2>5. Head(s) \in ToSet(s) /\ ToSet(Tail(s)) \subseteq ToSet(s)
      BY <2>1, <2>3, <2>4 DEF ToSet
    <2>6. ToSet(s) \subseteq {Head(s)} \cup ToSet(Tail(s))
      BY <2>2 DEF ToSet
    <2> QED
      BY <1>0, <2>1, <2>4, <2>5, <2>6
  <1>5. s = <<>> => ToSet(s) = {}
    BY DEF ToSet
  <1> QED
    BY <1>1, <1>2, <1>3, <1>4, <1>5

\* A rising sequence stays so when something higher follows, and without its head.
LEMMA RisingOn ==
    ASSUME NEW s \in Seq(Row), Rising(s)
    PROVE  /\ \A t \in Seq(Row) :
                Rising(t) /\ (\A a \in ToSet(s) : \A b \in ToSet(t) : a < b) => Rising(s \o t)
           /\ \A r \in Row : (\A a \in ToSet(s) : a < r) => Rising(Append(s, r))
           /\ s # <<>> => Rising(Tail(s)) /\ \A b \in ToSet(Tail(s)) : Head(s) < b
  <1>0. DOMAIN s = 1 .. Len(s) /\ Len(s) \in Nat /\ \A i \in DOMAIN s : s[i] \in ToSet(s)
    BY DEF ToSet
  <1>1. ASSUME NEW t \in Seq(Row), Rising(t), \A a \in ToSet(s) : \A b \in ToSet(t) : a < b
        PROVE  Rising(s \o t)
    <2> SUFFICES ASSUME NEW i \in 1 .. Len(s \o t), NEW j \in 1 .. Len(s \o t), i < j
                 PROVE  (s \o t)[i] < (s \o t)[j]
      BY DEF Rising
    <2>1. /\ Len(s \o t) = Len(s) + Len(t) /\ Len(t) \in Nat
          /\ \A n \in 1 .. Len(s) + Len(t) :
               (s \o t)[n] = IF n <= Len(s) THEN s[n] ELSE t[n - Len(s)]
      OBVIOUS
    <2>2. \A n \in 1 .. Len(t) : t[n] \in ToSet(t)
      BY DEF ToSet
    <2>3. CASE j <= Len(s)
      BY <1>0, <2>1, <2>3 DEF Rising
    <2>4. CASE ~ i <= Len(s)
      <3>1. i - Len(s) \in 1 .. Len(t) /\ j - Len(s) \in 1 .. Len(t) /\ i - Len(s) < j - Len(s)
        BY <1>0, <2>1, <2>4
      <3>2. t[i - Len(s)] < t[j - Len(s)]
        BY <1>1, <3>1 DEF Rising
      <3> QED
        BY <1>0, <2>1, <2>4, <3>2
    <2>5. CASE i <= Len(s) /\ ~ j <= Len(s)
      <3>1. i \in DOMAIN s /\ j - Len(s) \in 1 .. Len(t)
        BY <1>0, <2>1, <2>5
      <3>2. s[i] < t[j - Len(s)]
        BY <1>0, <1>1, <2>2, <3>1
      <3> QED
        BY <1>0, <2>1, <2>5, <3>2
    <2> QED
      BY <1>0, <2>1, <2>3, <2>4, <2>5
  <1>2. ASSUME NEW r \in Row, \A a \in ToSet(s) : a < r PROVE Rising(Append(s, r))
    <2>1. /\ Len(Append(s, r)) = Len(s) + 1 /\ Append(s, r)[Len(s) + 1] = r
          /\ \A i \in 1 .. Len(s) : Append(s, r)[i] = s[i]
      OBVIOUS
    <2> SUFFICES ASSUME NEW i \in 1 .. Len(s) + 1, NEW j \in 1 .. Len(s) + 1, i < j
                 PROVE  Append(s, r)[i] < Append(s, r)[j]
      BY <2>1 DEF Rising
    <2>2. i \in 1 .. Len(s) /\ (j = Len(s) + 1 \/ j \in 1 .. Len(s))
      BY <1>0
    <2>3. CASE j = Len(s) + 1
      BY <1>0, <1>2, <2>1, <2>2, <2>3
    <2>4. CASE j \in 1 .. Len(s)
      <3>1. s[i] < s[j]
        BY <2>2, <2>4 DEF Rising
      <3> QED
        BY <2>1, <2>2, <2>4, <3>1
    <2> QED
      BY <2>2, <2>3, <2>4
  <1>3. ASSUME s # <<>> PROVE Rising(Tail(s)) /\ \A b \in ToSet(Tail(s)) : Head(s) < b
    <2>1. /\ Len(s) >= 1 /\ Head(s) = s[1]
          /\ Len(Tail(s)) = Len(s) - 1 /\ DOMAIN Tail(s) = 1 .. Len(s) - 1
          /\ \A i \in 1 .. Len(s) - 1 : Tail(s)[i] = s[i + 1]
      BY <1>0, <1>3
    <2>2. ASSUME NEW i \in 1 .. Len(s) - 1, NEW j \in 1 .. Len(s) - 1, i < j
          PROVE  Tail(s)[i] < Tail(s)[j]
      <3>1. i + 1 \in 1 .. Len(s) /\ j + 1 \in 1 .. Len(s) /\ i + 1 < j + 1
        BY <1>0, <2>2
      <3>2. s[i + 1] < s[j + 1]
        BY <3>1 DEF Rising
      <3> QED
        BY <2>1, <3>2
    <2>3. ASSUME NEW i \in 1 .. Len(s) - 1 PROVE Head(s) < Tail(s)[i]
      <3>1. 1 \in 1 .. Len(s) /\ i + 1 \in 1 .. Len(s) /\ 1 < i + 1
        BY <1>0, <2>1
      <3>2. s[1] < s[i + 1]
        BY <3>1 DEF Rising
      <3> QED
        BY <2>1, <3>2
    <2> QED
      BY <2>1, <2>2, <2>3 DEF Rising, ToSet
  <1> QED
    BY <1>1, <1>2, <1>3

\* A reading between two rows, or between a page and the next.
Between(k) ==
    /\ k \in WalkType /\ k.result \notin {"rows", "none"}
    /\ k.stood \subseteq ToSet(k.got) \cup ToSet(k.page) \cup {r \in Row : k.next # 0 /\ r > k.next}
    /\ \A a \in ToSet(k.got) :
         /\ \A b \in ToSet(k.page) : a < b
         /\ k.next # 0 => a <= k.next
    /\ k.next # 0 => \A b \in ToSet(k.page) : b <= k.next
    /\ Rising(k.got) /\ Rising(k.page)

\* It goes on with the next row, with the next page, or is complete.
LEMMA TurnedKeeps ==
    ASSUME NEW k, Between(k)
    PROVE  /\ Turned(k) \in WalkType /\ Complete(Turned(k))
           /\ Turned(k).stood = k.stood /\ Turned(k).pc \in {"type", "closed", "fetch"}
           /\ Turned(k).result = k.result
  <1>0. k \in WalkType /\ ToSet(<<>>) = {}
    BY DEF Between, ToSet
  <1>a. ToSet(k.got) \subseteq Int /\ k.next \in Int /\ k.next \in 0 .. MaxRow
    <2>1. k.got \in Seq(Row) /\ k.next \in 0 .. MaxRow
      BY <1>0, WalkFields
    <2> QED
      BY <2>1, Members DEF Row
  <1>b. 0 \in 0 .. MaxRow /\ 0 \in 0 .. connMax429Backoffs
    BY RowNumbers, PageAssumption
  <1>1. CASE k.page # <<>>
    <2> DEFINE n == [k EXCEPT !.pc = "type"]
    <2>1. n \in WalkType
      BY <1>0 DEF WalkType
    <2>2. /\ n.pc = "type" /\ n.page = k.page /\ n.next = k.next /\ n.got = k.got
          /\ n.stood = k.stood /\ n.result = k.result
      BY <1>0 DEF WalkType
    <2>3. Turned(k) = n
      BY <1>1 DEF Turned
    <2> HIDE DEF n
    <2>4. Ahead(n) = ToSet(k.page) \cup {r \in Row : k.next # 0 /\ r > k.next}
      BY <2>2 DEF Ahead
    <2>5. \A a \in ToSet(k.got) : \A b \in Ahead(n) : a < b
      BY <1>a, <2>4 DEF Between, Row
    <2>6. Complete(n)
      BY <1>1, <2>2, <2>4, <2>5 DEF Complete, Between
    <2> QED
      BY <2>1, <2>2, <2>3, <2>6
  <1>2. CASE k.page = <<>> /\ k.next = 0
    <2> DEFINE n == [k EXCEPT !.pc = "closed", !.after = 0]
    <2>1. n \in WalkType
      BY <1>0, <1>b DEF WalkType
    <2>2. /\ n.pc = "closed" /\ n.page = k.page /\ n.got = k.got
          /\ n.stood = k.stood /\ n.result = k.result
      BY <1>0 DEF WalkType
    <2>3. Turned(k) = n
      BY <1>2 DEF Turned
    <2> HIDE DEF n
    <2>4. k.stood \subseteq ToSet(k.got)
      BY <1>0, <1>2 DEF Between
    <2>5. Complete(n)
      BY <2>2, <2>4 DEF Complete, Between
    <2> QED
      BY <2>1, <2>2, <2>3, <2>5
  <1>3. CASE k.page = <<>> /\ k.next # 0
    <2> DEFINE n == [k EXCEPT !.pc = "fetch", !.after = k.next, !.attempts = 0]
    <2>1. n \in WalkType
      BY <1>0, <1>a, <1>b DEF WalkType
    <2>2. /\ n.pc = "fetch" /\ n.page = <<>> /\ n.got = k.got /\ n.after = k.next
          /\ n.stood = k.stood /\ n.result = k.result
      BY <1>0, <1>3 DEF WalkType
    <2>3. Turned(k) = n
      BY <1>3 DEF Turned
    <2> HIDE DEF n
    <2>4. Ahead(n) = {r \in Row : r > k.next}
      BY <2>2 DEF Ahead
    <2>5. k.stood \subseteq ToSet(k.got) \cup Ahead(n)
      BY <1>0, <1>3, <2>4 DEF Between
    <2>6. \A a \in ToSet(k.got) : \A b \in Ahead(n) : a < b
      BY <1>3, <1>a, <2>4 DEF Between, Row
    <2>7. Complete(n)
      BY <1>0, <1>3, <2>2, <2>5, <2>6 DEF Complete, Between
    <2> QED
      BY <2>1, <2>2, <2>3, <2>7
  <1> QED
    BY <1>1, <1>2, <1>3

\* What the reader and the context do leaves the reading complete.
LEMMA SameReading ==
    ASSUME NEW k \in WalkType, Complete(k), NEW n \in WalkType,
           n.pc = k.pc \/ (k.pc = "type" /\ n.pc = "offer"),
           n.got = k.got, n.page = k.page, n.after = k.after, n.next = k.next,
           n.failed = k.failed, n.stood \subseteq k.stood,
           n.result \in {k.result, "code"}
    PROVE  Complete(n)
  <1>1. Ahead(n) = Ahead(k)
    BY DEF Ahead
  <1> QED
    BY <1>1 DEF Complete

\* Another page, as it stands, of a reading that asked for it.
LEMMA PageBetween ==
    ASSUME WalksInv, NEW w \in Walker, walk[w].pc = "fetch", NEW n \in WalkType,
           NEW page, page = PageAfter(walk[w].after), n.next = MarkerAfter(walk[w].after),
           \/ n.page = <<>> /\ n.got = walk[w].got \o page
           \/ n.page = page /\ n.got = walk[w].got,
           n.stood = walk[w].stood, n.result = walk[w].result
    PROVE  Between(n)
  <1> DEFINE k == walk[w]
             next == MarkerAfter(k.after)
  <1>0. k \in WalkType /\ WalkOK(k, rows) /\ rows \subseteq Row
    BY DEF WalksInv
  <1>1. /\ page \in Seq(Row) /\ Rising(page) /\ ToSet(page) \subseteq Beyond(k.after)
        /\ next \in 0 .. MaxRow
        /\ next = 0 => Beyond(k.after) \subseteq ToSet(page)
        /\ next # 0 =>
             /\ page # <<>>
             /\ \A r \in Beyond(k.after) : r <= next <=> r \in ToSet(page)
    BY <1>0, Pages
  <1>2. k.got \in Seq(Row) /\ k.after \in 0 .. MaxRow /\ ToSet(k.got) \subseteq Row
    BY <1>0, WalkFields, Members
  <1>3. Ahead(k) = {r \in Row : r > k.after}
    BY DEF Ahead
  <1>4. k.stood \subseteq rows /\ k.stood \subseteq ToSet(k.got) \cup Ahead(k)
    BY <1>0 DEF WalkOK, Complete
  <1>5. \A a \in ToSet(k.got) : \A b \in Row : b > k.after => a < b
    BY <1>0, <1>3 DEF WalkOK, Complete
  <1>6. Rising(k.got) /\ k.result \notin {"rows", "none"}
    BY <1>0 DEF WalkOK, Complete
  <1>7. Beyond(k.after) = {r \in rows : r > k.after}
    BY DEF Beyond
  <1> HIDE DEF k, next
  <1>8. k.stood \subseteq ToSet(k.got) \cup ToSet(page) \cup {r \in Row : next # 0 /\ r > next}
    <2> SUFFICES ASSUME NEW r \in k.stood, r \notin ToSet(k.got), r \notin ToSet(page)
                 PROVE  r \in Row /\ next # 0 /\ r > next
      OBVIOUS
    <2>1. r \in Row /\ r \in Beyond(k.after)
      BY <1>0, <1>3, <1>4, <1>7
    <2>2. next # 0 /\ ~ r <= next
      BY <1>1, <2>1
    <2> QED
      BY <1>1, <2>1, <2>2 DEF Row
  <1>9. \A a \in ToSet(k.got) : \A b \in ToSet(page) : a < b
    BY <1>0, <1>1, <1>5, <1>7
  <1>10. ASSUME next # 0 PROVE \A a \in ToSet(k.got) \cup ToSet(page) : a <= next
    <2>1. \A b \in ToSet(page) : b <= next
      BY <1>1, <1>10
    <2>2. Head(page) \in ToSet(page) /\ Head(page) \in Row
      BY <1>1, <1>10, Members
    <2>3. ASSUME NEW a \in ToSet(k.got) PROVE a <= next
      <3>1. a < Head(page) /\ Head(page) <= next
        BY <1>9, <2>1, <2>2
      <3> QED
        BY <1>1, <1>2, <2>2, <3>1 DEF Row
    <2> QED
      BY <2>1, <2>3
  <1>11. n.next = next /\ n.stood = k.stood /\ n.result = k.result
    BY DEF k, next
  <1>12. CASE n.page = <<>> /\ n.got = k.got \o page
    <2>a. ToSet(n.got) = ToSet(k.got) \cup ToSet(page)
      BY <1>1, <1>2, <1>12, Members
    <2>1. ToSet(n.got) = ToSet(k.got) \cup ToSet(page) /\ ToSet(n.page) = {}
      <3>1. ToSet(<<>>) = {}
        BY DEF ToSet
      <3> QED
        BY <1>12, <2>a, <3>1
    <2>2. Rising(n.got)
      BY <1>1, <1>2, <1>6, <1>9, <1>12, RisingOn
    <2>3. Rising(n.page)
      BY <1>12 DEF Rising
    <2> QED
      BY <1>6, <1>8, <1>10, <1>11, <2>1, <2>2, <2>3 DEF Between
  <1>13. CASE n.page = page /\ n.got = k.got
    BY <1>1, <1>6, <1>8, <1>9, <1>10, <1>11, <1>13 DEF Between
  <1> QED
    BY <1>12, <1>13 DEF k

\* A step of one reading.
LEMMA OneReads ==
    ASSUME WalksInv, NEW w \in Walker, NEW n, walk' = [walk EXCEPT ![w] = n], Same,
           n \in WalkType, n.stood \subseteq rows, Complete(n)
    PROVE  WalksInv'
  <1>1. rows' = rows /\ changes' = changes
    BY DEF Same
  <1>2. walk' \in [Walker -> WalkType]
    BY DEF WalksInv
  <1>3. ASSUME NEW v \in Walker PROVE WalkOK(walk'[v], rows)
    <2>1. walk'[v] = IF v = w THEN n ELSE walk[v]
      BY DEF WalksInv
    <2> QED
      BY <2>1 DEF WalksInv, WalkOK
  <1> QED
    BY <1>1, <1>2, <1>3 DEF WalksInv

\* A reading begins.
LEMMA OpensReading ==
    ASSUME WalksInv, NEW op \in {"list", "resolve", "iterate", "pages"}, NEW r \in 0 .. MaxRow
    PROVE  LET n == Open(0, op, r)
           IN  n \in WalkType /\ n.stood \subseteq rows /\ Complete(n)
  <1> DEFINE n == Open(0, op, r)
  <1>0. rows \subseteq Row
    BY DEF WalksInv
  <1>1. /\ n.pc = "fetch" /\ n.stood = rows /\ n.page = <<>> /\ n.got = <<>> /\ n.after = 0
        /\ n.result = "" /\ n.next = 0
    BY DEF Open, NoWalk
  <1>2. n \in WalkType
    <2>1. 0 \in 0 .. MaxRow /\ 0 \in 0 .. connMax429Backoffs /\ <<>> \in Seq(Row)
      BY RowNumbers, PageAssumption
    <2> QED
      BY <1>0, <2>1 DEF Open, NoWalk, WalkType
  <1> HIDE DEF n
  <1>3. Ahead(n) = Row
    <2>1. Ahead(n) = {b \in Row : b > 0}
      BY <1>1 DEF Ahead
    <2>2. \A b \in Row : b > 0
      BY RowNumbers DEF Row
    <2> QED
      BY <2>1, <2>2
  <1>4. ToSet(<<>>) = {} /\ Rising(<<>>)
    BY DEF ToSet, Rising
  <1>5. Complete(n)
    BY <1>0, <1>1, <1>3, <1>4 DEF Complete
  <1> QED
    BY <1>0, <1>1, <1>2, <1>5 DEF n

\* An error ends a reading, however far it came.
LEMMA FailedKeeps ==
    ASSUME WalksInv, NEW w \in Walker
    PROVE  LET n == Failed(walk[w])
           IN  walk[w].pc \in {"fetch", "type", "offer"} =>
                 n \in WalkType /\ n.stood \subseteq rows /\ Complete(n)
  <1> DEFINE k == walk[w]
             n == Failed(k)
  <1> SUFFICES ASSUME k.pc \in {"fetch", "type", "offer"}
               PROVE  n \in WalkType /\ n.stood \subseteq rows /\ Complete(n)
    OBVIOUS
  <1>0. k \in WalkType /\ k.stood \subseteq rows /\ Complete(k)
    BY DEF WalksInv, WalkOK
  <1>1. n \in WalkType
    <2>1. k \in WalkType /\ <<>> \in Seq(Row)
      BY <1>0
    <2> QED
      BY <2>1 DEF Failed, WalkType
  <1>2. /\ n.pc = "closed" /\ n.failed = TRUE /\ n.page = <<>> /\ n.got = k.got
        /\ n.stood = k.stood /\ n.result = k.result
    BY <1>0 DEF Failed, WalkType
  <1> HIDE DEF n
  <1>3. Rising(k.got) /\ k.result \notin {"rows", "none"} /\ Rising(<<>>)
    BY <1>0 DEF Complete, Rising
  <1>4. Complete(n)
    BY <1>2, <1>3 DEF Complete
  <1> QED
    BY <1>0, <1>1, <1>2, <1>4

\* The pages of a reading arrive.
LEMMA PageArrivesKeeps ==
    ASSUME WalksInv, NEW w \in Walker, PageArrives(w)
    PROVE  WalksInv'
  <1> DEFINE k == walk[w]
             page == PageAfter(k.after)
             marker == MarkerAfter(k.after)
             turn == [k EXCEPT !.next = marker]
             whole == [turn EXCEPT !.got = @ \o page]
             first == [turn EXCEPT !.page = page]
             n == IF turn.op = "pages" THEN whole ELSE first
  <1>0. k \in WalkType /\ k.stood \subseteq rows /\ Complete(k) /\ rows \subseteq Row
    BY DEF WalksInv, WalkOK
  <1>1. k.pc = "fetch" /\ Same
    BY DEF PageArrives, On
  <1>2. walk' = [walk EXCEPT ![w] = Turned(n)]
    BY DEF PageArrives
  <1>3. page \in Seq(Row) /\ marker \in 0 .. MaxRow
    BY <1>0, Pages
  <1>4. k.got \o page \in Seq(Row) /\ k.page = <<>>
    <2>1. k.got \in Seq(Row)
      BY <1>0, WalkFields
    <2>2. k.page = <<>>
      BY <1>0, <1>1 DEF Complete
    <2> QED
      BY <1>3, <2>1, <2>2, Members
  <1> HIDE DEF page, marker
  <1>5. /\ turn \in WalkType /\ turn.next = marker /\ turn.got = k.got /\ turn.page = k.page
        /\ turn.stood = k.stood /\ turn.result = k.result
    BY <1>0, <1>3 DEF WalkType
  <1>6. /\ first \in WalkType /\ first.next = marker /\ first.got = k.got /\ first.page = page
        /\ first.stood = k.stood /\ first.result = k.result
    BY <1>0, <1>3 DEF WalkType
  <1>7. /\ whole \in WalkType /\ whole.next = marker /\ whole.got = k.got \o page
        /\ whole.page = <<>> /\ whole.stood = k.stood /\ whole.result = k.result
    BY <1>0, <1>3, <1>4 DEF WalkType
  <1> HIDE DEF turn, whole, first
  <1>8. Between(whole) /\ Between(first)
    BY <1>1, <1>6, <1>7, PageBetween DEF page, marker
  <1>9. Between(n) /\ n.stood = k.stood
    BY <1>6, <1>7, <1>8
  <1> HIDE DEF n
  <1>10. Turned(n) \in WalkType /\ Complete(Turned(n)) /\ Turned(n).stood \subseteq rows
    BY <1>0, <1>9, TurnedKeeps
  <1> QED
    BY <1>1, <1>2, <1>10, OneReads

\* A reader takes a row.
LEMMA TakeKeeps ==
    ASSUME WalksInv, NEW w \in Walker, Take(w)
    PROVE  WalksInv'
  <1> DEFINE k == walk[w]
             r == Head(k.page)
             handed == [k EXCEPT !.page = Tail(@), !.got = Append(@, Head(k.page))]
             left == [Turned(handed) EXCEPT !.reader = "draining", !.result = "code", !.code = r]
  <1>0. k \in WalkType /\ k.stood \subseteq rows /\ Complete(k) /\ rows \subseteq Row
    BY DEF WalksInv, WalkOK
  <1>1. k.pc = "offer" /\ Same
    BY DEF Take, On
  <1>2. k.page # <<>> /\ k.page \in Seq(Row) /\ k.got \in Seq(Row) /\ k.next \in 0 .. MaxRow
    BY <1>0, <1>1, WalkFields DEF Complete
  <1> DEFINE rest == Tail(k.page)
             more == Append(k.got, r)
  <1>3. r \in Row /\ rest \in Seq(Row) /\ ToSet(k.page) = {r} \cup ToSet(rest)
    BY <1>2, Members
  <1>4. more \in Seq(Row) /\ ToSet(more) = ToSet(k.got) \cup {r}
    BY <1>2, <1>3, Members
  <1>5. Rising(k.page) /\ Rising(k.got) /\ \A a \in ToSet(k.got) : \A b \in Ahead(k) : a < b
    BY <1>0, <1>1 DEF Complete
  <1>6. Ahead(k) = ToSet(k.page) \cup {b \in Row : k.next # 0 /\ b > k.next}
    BY <1>1 DEF Ahead
  <1>7. Rising(rest) /\ \A b \in ToSet(rest) : r < b
    BY <1>2, <1>5, RisingOn
  <1>8. Rising(more)
    BY <1>2, <1>3, <1>5, <1>6, RisingOn
  <1> HIDE DEF r, rest, more
  <1>9. /\ handed \in WalkType /\ handed.page = rest /\ handed.got = more
        /\ handed.next = k.next /\ handed.stood = k.stood /\ handed.result = k.result
    BY <1>0, <1>3, <1>4 DEF WalkType, r, rest, more
  <1> HIDE DEF handed
  <1>10. Between(handed)
    <2>1. k.result \notin {"rows", "none"} /\ k.stood \subseteq ToSet(k.got) \cup Ahead(k)
      BY <1>0, <1>1 DEF Complete
    <2>2. k.next # 0 => \A b \in ToSet(k.page) : b <= k.next
      BY <1>0, <1>1 DEF Complete
    <2>3. k.stood \subseteq ToSet(more) \cup ToSet(rest) \cup {b \in Row : k.next # 0 /\ b > k.next}
      BY <1>3, <1>4, <1>6, <2>1
    <2>4. \A a \in ToSet(more) : \A b \in ToSet(rest) : a < b
      BY <1>3, <1>4, <1>5, <1>6, <1>7
    <2>5. ToSet(k.got) \subseteq Row
      BY <1>2, Members
    <2>6. ASSUME k.next # 0, NEW a \in ToSet(k.got) PROVE a <= k.next
      <3>1. a < r /\ r <= k.next
        BY <1>3, <1>5, <1>6, <2>2, <2>6
      <3> QED
        BY <1>2, <1>3, <2>5, <3>1 DEF Row
    <2>7. k.next # 0 => \A a \in ToSet(more) : a <= k.next
      BY <1>3, <1>4, <2>2, <2>6
    <2> QED
      BY <1>3, <1>7, <1>8, <1>9, <2>1, <2>2, <2>3, <2>4, <2>7 DEF Between
  <1>11. /\ Turned(handed) \in WalkType /\ Complete(Turned(handed))
         /\ Turned(handed).stood \subseteq rows
    BY <1>0, <1>9, <1>10, TurnedKeeps
  <1> DEFINE t == Turned(handed)
  <1> HIDE DEF t
  <1>12. /\ left \in WalkType /\ left.pc = t.pc /\ left.got = t.got /\ left.page = t.page
         /\ left.after = t.after /\ left.next = t.next /\ left.failed = t.failed
         /\ left.stood = t.stood /\ left.result = "code"
    <2>1. r \in 0 .. MaxRow
      BY <1>3, RowNumbers DEF Row
    <2>2. t \in WalkType
      BY <1>11 DEF t
    <2>3. left = [t EXCEPT !.reader = "draining", !.result = "code", !.code = r]
      BY DEF t
    <2> HIDE DEF left
    <2> QED
      BY <2>1, <2>2, <2>3 DEF WalkType
  <1> HIDE DEF left
  <1>13. Complete(left) /\ left.stood \subseteq rows
    BY <1>11, <1>12, SameReading DEF t
  <1>14. \/ walk' = [walk EXCEPT ![w] = left]
         \/ walk' = [walk EXCEPT ![w] = t]
    BY DEF Take, HandOver, left, t, handed, r
  <1>15. CASE walk' = [walk EXCEPT ![w] = left]
    BY <1>1, <1>12, <1>13, <1>15, OneReads
  <1>16. CASE walk' = [walk EXCEPT ![w] = t]
    BY <1>1, <1>11, <1>16, OneReads DEF t
  <1> QED
    BY <1>14, <1>15, <1>16

\* The other steps of a reading.
LEMMA WalkStepKeeps ==
    ASSUME WalksInv, NEW w \in Walker, WalkStep(w)
    PROVE  WalksInv'
  <1> DEFINE k == walk[w]
  <1>0. k \in WalkType /\ k.stood \subseteq rows /\ Complete(k)
    BY DEF WalksInv, WalkOK
  <1>1. k.attempts \in 0 .. connMax429Backoffs /\ k.reader \in {"reading", "draining", "left"}
    BY <1>0, WalkFields
  <1>f. ASSUME walk' = [walk EXCEPT ![w] = Failed(k)], Same, k.pc \in {"fetch", "type", "offer"}
        PROVE  WalksInv'
    BY <1>f, FailedKeeps, OneReads
  <1>s. ASSUME NEW n \in WalkType, walk' = [walk EXCEPT ![w] = n], Same,
               n.pc = k.pc \/ (k.pc = "type" /\ n.pc = "offer"),
               n.got = k.got, n.page = k.page, n.after = k.after, n.next = k.next,
               n.failed = k.failed, n.stood = k.stood, n.result = k.result
        PROVE  WalksInv'
    <2>1. Complete(n)
      BY <1>0, <1>s, SameReading
    <2> QED
      BY <1>0, <1>s, <2>1, OneReads
  <1>2. CASE PageArrives(w)
    BY <1>2, PageArrivesKeeps
  <1>3. CASE PageLimited(w)
    <2>1. CASE k.op = "pages" \/ k.attempts = connMax429Backoffs
      <3>1. walk' = [walk EXCEPT ![w] = Failed(k)] /\ Same /\ k.pc = "fetch"
        BY <1>3, <2>1 DEF PageLimited, On
      <3> QED
        BY <1>f, <3>1
    <2>2. CASE ~ (k.op = "pages" \/ k.attempts = connMax429Backoffs)
      <3> DEFINE n == [k EXCEPT !.attempts = @ + 1]
      <3>1. walk' = [walk EXCEPT ![w] = n] /\ Same
        BY <1>3, <2>2 DEF PageLimited
      <3>2. k.attempts + 1 \in 0 .. connMax429Backoffs
        BY <1>1, <2>2, PageAssumption
      <3>3. n \in WalkType
        BY <1>0, <3>2 DEF WalkType
      <3>4. /\ n.pc = k.pc /\ n.got = k.got /\ n.page = k.page /\ n.after = k.after
            /\ n.next = k.next /\ n.failed = k.failed /\ n.stood = k.stood
            /\ n.result = k.result
        BY <1>0 DEF WalkType
      <3> HIDE DEF n
      <3> QED
        BY <1>s, <3>1, <3>3, <3>4
    <2> QED
      BY <2>1, <2>2
  <1>4. CASE PageFails(w)
    <2>1. walk' = [walk EXCEPT ![w] = Failed(k)] /\ Same /\ k.pc \in {"fetch", "type"}
      BY <1>4 DEF PageFails, On
    <2> QED
      BY <1>f, <2>1
  <1>5. CASE TypeRow(w)
    <2> DEFINE n == [k EXCEPT !.pc = "offer"]
    <2>1. walk' = [walk EXCEPT ![w] = n] /\ Same /\ k.pc = "type"
      BY <1>5 DEF TypeRow, On
    <2>2. n \in WalkType
      BY <1>0 DEF WalkType
    <2>3. /\ n.pc = "offer" /\ n.got = k.got /\ n.page = k.page /\ n.after = k.after
          /\ n.next = k.next /\ n.failed = k.failed /\ n.stood = k.stood
          /\ n.result = k.result
      BY <1>0 DEF WalkType
    <2> HIDE DEF n
    <2> QED
      BY <1>s, <2>1, <2>2, <2>3
  <1>6. CASE GiveUpOffer(w)
    <2>1. walk' = [walk EXCEPT ![w] = Failed(k)] /\ Same /\ k.pc = "offer"
      BY <1>6 DEF GiveUpOffer, On
    <2> QED
      BY <1>f, <2>1
  <1>7. CASE Take(w)
    BY <1>7, TakeKeeps
  <1>8. CASE Returns(w)
    <2> DEFINE n == Returned(k)
               result == IF k.result # "" THEN k.result
                         ELSE IF k.failed THEN "error"
                         ELSE IF k.op = "resolve" THEN "none" ELSE "rows"
    <2>1. walk' = [walk EXCEPT ![w] = n] /\ Same /\ k.pc = "closed"
      BY <1>8 DEF Returns, On
    <2>2. result \in {"", "rows", "code", "none", "error"} /\ <<>> \in Seq(Row)
      <3>1. k.result \in {"", "rows", "code", "none", "error"}
        BY <1>0, WalkFields
      <3>2. <<>> \in Seq(Row)
        OBVIOUS
      <3> QED
        BY <3>1, <3>2
    <2>3. n = [k EXCEPT !.pc = "over", !.page = <<>>, !.result = result]
      BY <1>0 DEF Returned, WalkType
    <2>4. k.result \notin {"rows", "none"} /\ (k.failed \/ k.stood \subseteq ToSet(k.got))
          /\ Rising(k.got) /\ Rising(<<>>)
      BY <1>0, <2>1 DEF Complete, Rising
    <2>5. result \in {"rows", "none"} => k.stood \subseteq ToSet(k.got)
      BY <2>4
    <2> HIDE DEF result, n
    <2>6. n \in WalkType
      BY <1>0, <2>2, <2>3 DEF WalkType
    <2>7. /\ n.pc = "over" /\ n.page = <<>> /\ n.result = result /\ n.got = k.got
          /\ n.stood = k.stood
      BY <1>0, <2>3 DEF WalkType
    <2>8. Complete(n)
      BY <2>4, <2>5, <2>7 DEF Complete
    <2> QED
      BY <1>0, <2>1, <2>6, <2>7, <2>8, OneReads
  <1>9. CASE Cancel(w)
    <2> DEFINE n == [k EXCEPT !.live = FALSE]
    <2>1. walk' = [walk EXCEPT ![w] = n] /\ Same
      BY <1>9 DEF Cancel, WalksInv
    <2>2. n \in WalkType
      BY <1>0 DEF WalkType
    <2>3. /\ n.pc = k.pc /\ n.got = k.got /\ n.page = k.page /\ n.after = k.after
          /\ n.next = k.next /\ n.failed = k.failed /\ n.stood = k.stood
          /\ n.result = k.result
      BY <1>0 DEF WalkType
    <2> HIDE DEF n
    <2> QED
      BY <1>s, <2>1, <2>2, <2>3
  <1>10. CASE Leave(w)
    <2> DEFINE n == [k EXCEPT !.reader = "left"]
    <2>1. walk' = [walk EXCEPT ![w] = n] /\ Same
      BY <1>10 DEF Leave, WalksInv
    <2>2. n \in WalkType
      BY <1>0 DEF WalkType
    <2>3. /\ n.pc = k.pc /\ n.got = k.got /\ n.page = k.page /\ n.after = k.after
          /\ n.next = k.next /\ n.failed = k.failed /\ n.stood = k.stood
          /\ n.result = k.result
      BY <1>0 DEF WalkType
    <2> HIDE DEF n
    <2> QED
      BY <1>s, <2>1, <2>2, <2>3
  <1> QED
    BY <1>2, <1>3, <1>4, <1>5, <1>6, <1>7, <1>8, <1>9, <1>10 DEF WalkStep, Goroutine

\* A row comes or goes.
LEMMA ChangeKeeps ==
    ASSUME WalksInv, NEW r \in Row, Change(r)
    PROVE  WalksInv'
  <1>1. rows' \subseteq Row /\ rows \ {r} \subseteq rows'
    BY DEF WalksInv, Change
  <1>2. changes' \in 0 .. MaxChanges
    BY MaxChangesAssumption DEF WalksInv, Change
  <1>3. ASSUME NEW w \in Walker PROVE WalkOK(walk'[w], rows')
    <2> DEFINE k == walk[w]
               n == [k EXCEPT !.stood = @ \ {r}]
    <2>0. k \in WalkType /\ k.stood \subseteq rows /\ Complete(k) /\ k.stood \in SUBSET Row
      BY WalkFields DEF WalksInv, WalkOK
    <2>1. walk'[w] = n
      BY DEF Change
    <2>2. n \in WalkType
      BY <2>0 DEF WalkType
    <2>3. /\ n.pc = k.pc /\ n.got = k.got /\ n.page = k.page /\ n.after = k.after
          /\ n.next = k.next /\ n.failed = k.failed /\ n.stood = k.stood \ {r}
          /\ n.result = k.result
      BY <2>0 DEF WalkType
    <2> HIDE DEF n
    <2>4. Complete(n)
      BY <2>0, <2>2, <2>3, SameReading
    <2>5. n.stood \subseteq rows'
      BY <1>1, <2>0, <2>3
    <2> QED
      BY <2>1, <2>2, <2>4, <2>5 DEF WalkOK
  <1>4. walk' \in [Walker -> WalkType]
    <2>1. \A w \in Walker : walk'[w] \in WalkType
      BY <1>3 DEF WalkOK
    <2> QED
      BY <2>1 DEF Change
  <1> QED
    BY <1>1, <1>2, <1>3, <1>4 DEF WalksInv

\* The steps of a call open its reading, or end the context they share.
LEMMA CallsKeepWalks ==
    ASSUME TypeInv, WalksInv, NEW c \in Caller,
           (\E q \in Asked : Begin(c, q)) \/ Expire(c) \/ Write(c)
    PROVE  WalksInv'
  <1>0. c \in Walker /\ call[c].req \in Request
    BY CallerAssumption, Fields
  <1>o. ASSUME NEW q \in Request, walk' = [walk EXCEPT ![c] = Open(c, "resolve", q.to)], Same
        PROVE  WalksInv'
    <2>1. q.to \in 0 .. MaxRow
      BY RowNumbers DEF Request, Person, Row
    <2>2. Open(c, "resolve", q.to) = Open(0, "resolve", q.to)
      BY DEF Open
    <2> QED
      BY <1>0, <1>o, <2>1, <2>2, OpensReading, OneReads
  <1>u. ASSUME UNCHANGED walkVars PROVE WalksInv'
    BY <1>u DEF WalksInv, walkVars
  <1>1. ASSUME NEW q \in Asked, Begin(c, q) PROVE WalksInv'
    <2>1. q \in Request /\ Same
      BY <1>1, AskedAssumption DEF Begin, Same
    <2>2. CASE PerPerson(q) /\ q.via = "user" /\ ~ Refused(q)
      <3>1. walk' = [walk EXCEPT ![c] = Open(c, "resolve", q.to)]
        BY <1>1, <2>2 DEF Begin
      <3> QED
        BY <1>o, <2>1, <3>1
    <2>3. CASE ~ (PerPerson(q) /\ q.via = "user" /\ ~ Refused(q))
      <3>1. walk' = [walk EXCEPT ![c] = walk[c]]
        BY <1>1, <2>3 DEF Begin
      <3>2. walk' = walk
        BY <3>1 DEF WalksInv
      <3> QED
        BY <1>u, <2>1, <3>2 DEF Same, walkVars
    <2> QED
      BY <2>2, <2>3
  <1>2. CASE Expire(c)
    <2> DEFINE k == walk[c]
               n == [k EXCEPT !.live = FALSE]
    <2>0. k \in WalkType /\ k.stood \subseteq rows /\ Complete(k)
      BY <1>0 DEF WalksInv, WalkOK
    <2>1. walk' = [walk EXCEPT ![c] = n] /\ Same
      BY <1>2 DEF Expire, WalksInv, Same
    <2>2. n \in WalkType
      BY <2>0 DEF WalkType
    <2>3. /\ n.pc = k.pc /\ n.got = k.got /\ n.page = k.page /\ n.after = k.after
          /\ n.next = k.next /\ n.failed = k.failed /\ n.stood = k.stood
          /\ n.result = k.result
      BY <2>0 DEF WalkType
    <2> HIDE DEF n
    <2>4. Complete(n)
      BY <2>0, <2>2, <2>3, SameReading
    <2> QED
      BY <1>0, <2>0, <2>1, <2>2, <2>3, <2>4, OneReads
  <1>3. CASE Resolve(c)
    <2>1. Same
      BY <1>3 DEF Resolve, Same
    <2>2. \/ walk' = walk
          \/ walk' = [walk EXCEPT ![c] = Open(c, "resolve", call[c].req.to)]
      BY <1>3 DEF Resolve, Req
    <2> QED
      BY <1>0, <1>o, <1>u, <2>1, <2>2 DEF Same, walkVars
  <1>4. CASE Write(c) /\ ~ Resolve(c)
    <2>1. UNCHANGED walkVars
      BY <1>4 DEF Write, Resolved, FetchKey, Create, CreateFails, Upload, SealFails, Cleanup
    <2> QED
      BY <1>u, <2>1
  <1> QED
    BY <1>1, <1>2, <1>3, <1>4

\* At first no list has been read.
LEMMA WalksInit == Init => WalksInv
  <1> SUFFICES ASSUME Init PROVE WalksInv
    OBVIOUS
  <1>1. /\ rows = FirstRows /\ changes = 0 /\ walk = [w \in Walker |-> NoWalk]
        /\ FirstRows \subseteq Row
    BY RowsAssumption DEF Init, WalkInit
  <1>2. NoWalk \in WalkType
    <2>1. 0 \in 0 .. MaxRow /\ 0 \in 0 .. connMax429Backoffs /\ <<>> \in Seq(Row)
      BY RowNumbers, PageAssumption
    <2> QED
      BY <2>1 DEF NoWalk, WalkType
  <1>3. NoWalk.pc = "idle" /\ NoWalk.stood = {} /\ NoWalk.got = <<>> /\ NoWalk.page = <<>>
        /\ NoWalk.result = ""
    BY DEF NoWalk
  <1>4. Complete(NoWalk) /\ NoWalk.stood \subseteq rows
    <2>1. Rising(<<>>)
      BY DEF Rising
    <2> QED
      BY <1>3, <2>1 DEF Complete
  <1>5. 0 \in 0 .. MaxChanges
    BY MaxChangesAssumption
  <1> QED
    BY <1>1, <1>2, <1>4, <1>5 DEF WalksInv, WalkOK

\* Every step keeps the readings.
LEMMA WalksNext == TypeInv /\ WalksInv /\ [Next]_vars => WalksInv'
  <1> SUFFICES ASSUME TypeInv, WalksInv, [Next]_vars PROVE WalksInv'
    OBVIOUS
  <1>1. CASE \E r \in Row : Change(r)
    BY <1>1, ChangeKeeps
  <1>2. ASSUME NEW w \in Walker, ReadList(w) PROVE WalksInv'
    <2>1. PICK op \in {"list", "iterate", "pages"} : Read(w, op)
      BY <1>2 DEF ReadList
    <2>2. walk' = [walk EXCEPT ![w] = Open(0, op, 0)] /\ Same
      BY <2>1 DEF Read, Open
    <2>3. op \in {"list", "resolve", "iterate", "pages"} /\ 0 \in 0 .. MaxRow
      BY RowNumbers
    <2> QED
      BY <2>2, <2>3, OpensReading, OneReads
  <1>3. CASE \E w \in Walker : WalkStep(w)
    BY <1>3, WalkStepKeeps
  <1>4. CASE \E c \in Caller : (\E q \in Asked : Begin(c, q)) \/ Expire(c) \/ Write(c)
    BY <1>4, CallsKeepWalks
  <1>5. CASE UNCHANGED vars
    BY <1>5 DEF WalksInv, vars, walkVars
  <1> QED
    BY <1>1, <1>2, <1>3, <1>4, <1>5 DEF Next

-----------------------------------------------------------------------------
(* The scan and the call it is for.                                         *)

\* A step of a reading keeps what it looks for, and finds nothing else.
LEMMA ReadingFinds ==
    ASSUME WalksInv, WalksInv', NEW w \in Walker, WalkStep(w)
    PROVE  /\ \A v \in Walker \ {w} : walk'[v] = walk[v]
           /\ walk'[w].target = walk[w].target
           /\ walk'[w].result = "code" =>
                 \/ walk[w].result = "code" /\ walk'[w].code = walk[w].code
                 \/ walk'[w].code = walk[w].target
  <1> DEFINE k == walk[w]
  <1>0. k \in WalkType /\ walk \in [Walker -> WalkType]
    BY DEF WalksInv
  <1>1. ASSUME NEW n, walk' = [walk EXCEPT ![w] = n]
        PROVE  walk'[w] = n /\ \A v \in Walker \ {w} : walk'[v] = walk[v]
    BY <1>0, <1>1
  <1>2. CASE PageArrives(w)
    BY <1>0, <1>1, <1>2 DEF PageArrives, Turned, WalkType
  <1>f. ASSUME walk' = [walk EXCEPT ![w] = Failed(k)]
        PROVE  /\ \A v \in Walker \ {w} : walk'[v] = walk[v]
               /\ walk'[w].target = k.target
               /\ walk'[w].result = k.result /\ walk'[w].code = k.code
    BY <1>0, <1>1, <1>f DEF Failed, WalkType
  <1>3. CASE PageLimited(w) \/ PageFails(w) \/ GiveUpOffer(w)
    <2>1. CASE walk' = [walk EXCEPT ![w] = Failed(k)]
      BY <1>f, <2>1
    <2>2. CASE walk' = [walk EXCEPT ![w] = [k EXCEPT !.attempts = @ + 1]]
      BY <1>0, <1>1, <2>2 DEF WalkType
    <2> QED
      BY <1>3, <2>1, <2>2 DEF PageLimited, PageFails, GiveUpOffer
  <1>4. CASE TypeRow(w) \/ Cancel(w) \/ Leave(w)
    <2>1. CASE walk' = [walk EXCEPT ![w] = [k EXCEPT !.pc = "offer"]]
      BY <1>0, <1>1, <2>1 DEF WalkType
    <2>2. CASE walk' = [walk EXCEPT ![w] = [k EXCEPT !.live = FALSE]]
      BY <1>0, <1>1, <2>2 DEF WalkType
    <2>3. CASE walk' = [walk EXCEPT ![w] = [k EXCEPT !.reader = "left"]]
      BY <1>0, <1>1, <2>3 DEF WalkType
    <2> QED
      BY <1>0, <1>4, <2>1, <2>2, <2>3 DEF TypeRow, Cancel, Leave
  <1>5. CASE Take(w)
    BY <1>0, <1>1, <1>5 DEF Take, HandOver, Turned, WalkType
  <1>6. CASE Returns(w)
    BY <1>0, <1>1, <1>6 DEF Returns, Returned, WalkType
  <1> QED
    BY <1>2, <1>3, <1>4, <1>5, <1>6 DEF WalkStep, Goroutine

\* Every step keeps the scans and their calls together.
LEMMA MatchedNext ==
    ASSUME TypeInv, WalksInv, WalksInv', Matched, [Next]_vars
    PROVE  Matched'
  <1>0. walk \in [Walker -> WalkType] /\ call \in [Caller -> CallType] /\ Caller \subseteq Walker
    BY CallerAssumption DEF WalksInv, TypeInv
  <1>1. ASSUME NEW w \in Walker, UNCHANGED call,
               \A v \in Walker \ {w} : walk'[v] = walk[v],
               \/ /\ walk'[w].target = walk[w].target
                  /\ walk'[w].result = "code" =>
                        \/ walk[w].result = "code" /\ walk'[w].code = walk[w].code
                        \/ walk'[w].code = walk[w].target
               \/ walk'[w].result = "" /\ (w \in Caller => call[w].pc = "idle")
        PROVE  Matched'
    BY <1>0, <1>1 DEF Matched, Req
  <1>2. ASSUME NEW c \in Caller, \A d \in Caller \ {c} : call'[d] = call[d],
               \A v \in Walker \ {c} : walk'[v] = walk[v],
               \/ /\ walk'[c] = walk[c]
                  /\ call'[c].pc = "walk" => call[c].pc = "walk" /\ call'[c].req = call[c].req
               \/ walk'[c].result = "" /\ walk'[c].target = call'[c].req.to
        PROVE  Matched'
    <2>1. ASSUME NEW w \in Walker, walk'[w].result = "code" PROVE walk'[w].code = walk'[w].target
      BY <1>2, <2>1 DEF Matched
    <2>2. ASSUME NEW d \in Caller, call'[d].pc = "walk" PROVE walk'[d].target = call'[d].req.to
      <3>1. d \in Walker
        BY <1>0
      <3> QED
        BY <1>2, <2>2, <3>1 DEF Matched, Req
    <2> QED
      BY <2>1, <2>2 DEF Matched, Req
  <1>4. ASSUME NEW r \in Row, Change(r), UNCHANGED call PROVE Matched'
    <2>1. \A w \in Walker : /\ walk'[w].target = walk[w].target
                            /\ walk'[w].result = walk[w].result
                            /\ walk'[w].code = walk[w].code
      BY <1>0, <1>4 DEF Change, WalkType
    <2> QED
      BY <1>0, <1>4, <2>1 DEF Matched, Req
  <1>5. ASSUME NEW w \in Walker, ReadList(w) PROVE Matched'
    <2>1. PICK op \in {"list", "iterate", "pages"} : Read(w, op)
      BY <1>5 DEF ReadList
    <2>2. walk' = [walk EXCEPT ![w] = Open(w, op, 0)]
      BY <2>1 DEF Read
    <2>3. walk'[w].result = "" /\ \A v \in Walker \ {w} : walk'[v] = walk[v]
      <3>1. walk'[w] = Open(w, op, 0)
        BY <1>0, <2>2
      <3>2. Open(w, op, 0).result = ""
        BY DEF Open, NoWalk
      <3> QED
        BY <1>0, <2>2, <3>1, <3>2
    <2>4. UNCHANGED call /\ (w \in Caller => call[w].pc = "idle")
      BY <1>5 DEF ReadList, At
    <2> QED
      BY <1>1, <2>3, <2>4
  <1>6. ASSUME NEW w \in Walker, WalkStep(w), UNCHANGED call PROVE Matched'
    BY <1>1, <1>6, ReadingFinds
  <1>7. ASSUME NEW c \in Caller, NEW q \in Asked, Begin(c, q) PROVE Matched'
    <2>1. call[c] \in CallType
      BY <1>0
    <2>2. /\ call'[c].req = q /\ \A d \in Caller \ {c} : call'[d] = call[d]
          /\ call'[c].pc = "walk" => PerPerson(q) /\ q.via = "user" /\ ~ Refused(q)
      BY <1>0, <1>7, <2>1 DEF Begin, CallType
    <2>3. CASE PerPerson(q) /\ q.via = "user" /\ ~ Refused(q)
      <3>1. walk' = [walk EXCEPT ![c] = Open(c, "resolve", q.to)]
        BY <1>7, <2>3 DEF Begin
      <3>2. /\ walk'[c].result = "" /\ walk'[c].target = q.to
            /\ \A v \in Walker \ {c} : walk'[v] = walk[v]
        <4>1. Open(c, "resolve", q.to).result = "" /\ Open(c, "resolve", q.to).target = q.to
          BY DEF Open, NoWalk
        <4>2. walk'[c] = Open(c, "resolve", q.to)
          BY <1>0, <3>1
        <4> QED
          BY <1>0, <3>1, <4>1, <4>2
      <3> QED
        BY <1>2, <2>2, <3>2
    <2>4. CASE ~ (PerPerson(q) /\ q.via = "user" /\ ~ Refused(q))
      <3>1. walk' = [walk EXCEPT ![c] = walk[c]]
        BY <1>7, <2>4 DEF Begin
      <3> QED
        BY <1>0, <1>2, <2>2, <2>4, <3>1
    <2> QED
      BY <2>3, <2>4
  <1>g. ASSUME NEW c \in Caller, NEW n, call' = [call EXCEPT ![c] = n]
        PROVE  call'[c] = n /\ \A d \in Caller \ {c} : call'[d] = call[d]
    BY <1>0, <1>g
  <1>8. ASSUME NEW c \in Caller, Resolve(c) PROVE Matched'
    <2>0. call[c] \in CallType
      BY <1>0
    <2>o. /\ Open(c, "resolve", Req(c).to).result = ""
          /\ Open(c, "resolve", Req(c).to).target = call[c].req.to
      BY DEF Req, Open, NoWalk
    <2>1. CASE walk' = walk
      <3>1. \/ HasCode(c, Req(c).to) \/ Ends(c, "error")
            \/ walk' = [walk EXCEPT ![c] = Open(c, "resolve", Req(c).to)] /\ Goto(c, "walk")
        BY <1>8 DEF Resolve
      <3>2. CASE HasCode(c, Req(c).to) \/ Ends(c, "error")
        <4>1. call'[c].pc # "walk" /\ \A d \in Caller \ {c} : call'[d] = call[d]
          BY <1>0, <2>0, <3>2 DEF HasCode, Ends, CallType
        <4> QED
          BY <1>2, <2>1, <4>1
      <3>3. CASE walk' = [walk EXCEPT ![c] = Open(c, "resolve", Req(c).to)] /\ Goto(c, "walk")
        <4>1. walk'[c].result = "" /\ walk'[c].target = call[c].req.to
          <5>1. walk'[c] = Open(c, "resolve", Req(c).to)
            BY <1>0, <3>3
          <5> QED
            BY <2>o, <5>1
        <4>2. call'[c].req = call[c].req /\ \A d \in Caller \ {c} : call'[d] = call[d]
          BY <1>0, <2>0, <3>3 DEF Goto, CallType
        <4> QED
          BY <1>2, <2>1, <4>1, <4>2
      <3> QED
        BY <3>1, <3>2, <3>3
    <2>2. CASE walk' # walk
      <3>1. walk' = [walk EXCEPT ![c] = Open(c, "resolve", Req(c).to)] /\ Goto(c, "walk")
        BY <1>8, <2>2 DEF Resolve
      <3>2. /\ walk'[c].result = "" /\ walk'[c].target = call[c].req.to
            /\ \A v \in Walker \ {c} : walk'[v] = walk[v]
        <4>1. walk'[c] = Open(c, "resolve", Req(c).to)
          BY <1>0, <3>1
        <4> QED
          BY <1>0, <2>o, <3>1, <4>1
      <3>3. call'[c].req = call[c].req /\ \A d \in Caller \ {c} : call'[d] = call[d]
        BY <1>0, <2>0, <3>1 DEF Goto, CallType
      <3> QED
        BY <1>2, <3>2, <3>3
    <2> QED
      BY <2>1, <2>2
  <1>9. ASSUME NEW c \in Caller, Write(c), ~ Resolve(c) PROVE Matched'
    <2>0. call[c] \in CallType
      BY <1>0
    <2>1. walk' = walk
      BY <1>9 DEF Write, Resolved, FetchKey, Create, CreateFails, Upload, SealFails, Cleanup,
                  walkVars
    <2>2. PICK n : call' = [call EXCEPT ![c] = n]
      BY <1>9 DEF Write, Resolved, HasCode, Ends, FetchKey, Create, CreateFails, Upload,
                  SealFails, Cleanup
    <2>3. call'[c] = n /\ \A d \in Caller \ {c} : call'[d] = call[d]
      BY <1>g, <2>2
    <2>4. CASE Resolved(c)
      <3>1. call'[c].pc # "walk"
        BY <1>0, <2>0, <2>4 DEF Resolved, HasCode, Ends, CallType
      <3> QED
        BY <1>2, <2>1, <2>3, <3>1
    <2>5. CASE ~ Resolved(c)
      <3>1. call'[c].pc # "walk"
        <4>1. CASE FetchKey(c) \/ CreateFails(c) \/ SealFails(c)
          BY <1>0, <2>0, <4>1 DEF FetchKey, CreateFails, SealFails, Ends, CallType
        <4>2. CASE Create(c)
          <5>1. PICK o \in Outcome(c) :
                  call' = [call EXCEPT ![c] =
                    CASE o.answer = "again" -> [@ EXCEPT !.resent = TRUE]
                      [] o.answer = "error" -> [@ EXCEPT !.pc = "over", !.result = "error"]
                      [] o.answer = "ok" ->
                           IF Whole(@.req)
                           THEN [@ EXCEPT !.pc = "over", !.result = "created",
                                          !.id = Len(docs) + 1]
                           ELSE [@ EXCEPT !.pc = "upload", !.id = Len(docs) + 1,
                                          !.resent = FALSE]]
            BY <4>2 DEF Create
          <5>2. call[c].pc = "create" /\ o.answer \in {"ok", "again", "error"}
            BY <4>2, Outcomes DEF Create, At
          <5>3. CASE o.answer = "ok" /\ Whole(call[c].req)
            <6>1. call' = [call EXCEPT ![c] = [call[c] EXCEPT !.pc = "over", !.result = "created", !.id = Len(docs) + 1]]
              BY <5>1, <5>3
            <6> QED
              BY <1>0, <2>0, <5>2, <6>1 DEF CallType
          <5>4. CASE o.answer = "ok" /\ ~ Whole(call[c].req)
            <6>1. call' = [call EXCEPT ![c] = [call[c] EXCEPT !.pc = "upload", !.id = Len(docs) + 1, !.resent = FALSE]]
              BY <5>1, <5>4
            <6> QED
              BY <1>0, <2>0, <5>2, <6>1 DEF CallType
          <5>5. CASE o.answer = "again"
            <6>1. call' = [call EXCEPT ![c] = [call[c] EXCEPT !.resent = TRUE]]
              BY <5>1, <5>5
            <6> QED
              BY <1>0, <2>0, <5>2, <6>1 DEF CallType
          <5>6. CASE o.answer = "error"
            <6>1. call' = [call EXCEPT ![c] = [call[c] EXCEPT !.pc = "over", !.result = "error"]]
              BY <5>1, <5>6
            <6> QED
              BY <1>0, <2>0, <5>2, <6>1 DEF CallType
          <5> QED
            BY <5>2, <5>3, <5>4, <5>5, <5>6
        <4>3. CASE Upload(c)
          <5>1. PICK o \in Outcome(c) :
                  call' = [call EXCEPT ![c] =
                    CASE o.answer = "again" -> [@ EXCEPT !.resent = TRUE]
                      [] o.answer = "error" -> [@ EXCEPT !.pc = "cleanup", !.resent = FALSE]
                      [] OTHER -> [@ EXCEPT !.pc = "over", !.result = "created"]]
            BY <4>3 DEF Upload
          <5>2. call[c].pc = "upload" /\ o.answer \in {"ok", "again", "error"}
            BY <4>3, Outcomes DEF Upload, At
          <5>3. CASE o.answer = "again"
            <6>1. call' = [call EXCEPT ![c] = [call[c] EXCEPT !.resent = TRUE]]
              BY <5>1, <5>3
            <6> QED
              BY <1>0, <2>0, <5>2, <6>1 DEF CallType
          <5>4. CASE o.answer = "error"
            <6>1. call' = [call EXCEPT ![c] = [call[c] EXCEPT !.pc = "cleanup", !.resent = FALSE]]
              BY <5>1, <5>4
            <6> QED
              BY <1>0, <2>0, <5>2, <6>1 DEF CallType
          <5>5. CASE o.answer = "ok"
            <6>1. call' = [call EXCEPT ![c] = [call[c] EXCEPT !.pc = "over", !.result = "created"]]
              BY <5>1, <5>5
            <6> QED
              BY <1>0, <2>0, <5>2, <6>1 DEF CallType
          <5> QED
            BY <5>2, <5>3, <5>4, <5>5
        <4>4. CASE Cleanup(c)
          <5>1. PICK q : /\ q = [call[c] EXCEPT !.resent = TRUE] \/ q.pc = "over"
                         /\ call' = [call EXCEPT ![c] = q]
            <6>1. PICK o \in Outcome(c) : call' = [call EXCEPT ![c] =
                    IF o.answer = "again" THEN [@ EXCEPT !.resent = TRUE]
                    ELSE [@ EXCEPT !.pc = "over", !.result = "error",
                            !.excuse = IF o.answer = "ok" THEN ""
                                       ELSE IF walk[c].live THEN "delete" ELSE "context"]]
              BY <4>4 DEF Cleanup
            <6> DEFINE m == [call[c] EXCEPT !.pc = "over", !.result = "error",
                                !.excuse = IF o.answer = "ok" THEN ""
                                           ELSE IF walk[c].live THEN "delete" ELSE "context"]
            <6>2. m.pc = "over"
              BY <2>0 DEF CallType
            <6>3. \/ call' = [call EXCEPT ![c] = [call[c] EXCEPT !.resent = TRUE]]
                  \/ call' = [call EXCEPT ![c] = m]
              BY <6>1
            <6> HIDE DEF m
            <6> QED
              BY <6>2, <6>3
          <5>2. call[c].pc = "cleanup"
            BY <4>4 DEF Cleanup, At
          <5>3. q.pc # "walk"
            BY <2>0, <5>1, <5>2 DEF CallType
          <5> QED
            BY <1>0, <5>1, <5>3
        <4> QED
          BY <1>9, <2>5, <4>1, <4>2, <4>3, <4>4 DEF Write
      <3> QED
        BY <1>2, <2>1, <2>3, <3>1
    <2> QED
      BY <2>4, <2>5
  <1>10. ASSUME NEW c \in Caller, Expire(c) PROVE Matched'
    <2>1. /\ walk'[c].target = walk[c].target /\ walk'[c].result = walk[c].result
          /\ walk'[c].code = walk[c].code /\ \A v \in Walker \ {c} : walk'[v] = walk[v]
          /\ UNCHANGED call
      BY <1>0, <1>10 DEF Expire, WalkType
    <2> QED
      BY <1>0, <1>1, <2>1 DEF Matched
  <1>11. CASE UNCHANGED vars
    BY <1>11 DEF Matched, Req, vars, walkVars
  <1> QED
    BY <1>4, <1>5, <1>6, <1>7, <1>8, <1>9, <1>10, <1>11 DEF Next

-----------------------------------------------------------------------------
(* The theorems.                                                            *)

\* Calls, rows and readings keep their types; each row belongs to its call, and every
\* reading has its rows in order and those still to come ahead of it: the inductive
\* invariant.
THEOREM Invariant == Spec => [](Inv /\ WalksInv /\ Matched)
  <1>1. Init => Inv /\ WalksInv /\ Matched
    <2>1. Init => Matched
      <3>1. NoCall.pc = "idle" /\ NoWalk.result = ""
        BY DEF NoCall, NoWalk
      <3>2. Init => walk = [w \in Walker |-> NoWalk] /\ call = [c \in Caller |-> NoCall]
        BY DEF Init, WalkInit
      <3> QED
        BY <3>1, <3>2 DEF Matched
    <2> QED
      BY <2>1, InitHolds, WalksInit
  <1>2. Inv /\ WalksInv /\ Matched /\ [Next]_vars => Inv' /\ WalksInv' /\ Matched'
    <2>1. Inv => TypeInv
      BY DEF Inv
    <2> QED
      BY <2>1, NextKeeps, WalksNext, MatchedNext
  <1> QED
    BY <1>1, <1>2, PTL DEF Spec

\* Every variable of the calls, the documents and the readings keeps its type.
THEOREM TypeCorrect == Spec => []TypeOK
  <1>1. Inv /\ WalksInv => TypeOK
    BY DEF Inv, TypeInv, WalksInv, TypeOK, WalkTypeOK
  <1> QED
    BY <1>1, Invariant, PTL

\* Paging loses and repeats nothing, for any rows, page size and number of readings,
\* whatever connects and disconnects meanwhile.
THEOREM PagingIsComplete == Spec => []NothingSkipped
  <1>1. WalksInv => NothingSkipped
    BY DEF WalksInv, WalkOK, Complete, Rising, NothingSkipped
  <1> QED
    BY <1>1, Invariant, PTL

\* What CreateDocument and SendMessage write for one person is sealed with that person's
\* key, whatever fails, for any callers, requests and connections.
THEOREM Sealing == Spec => []SealedForItsTarget
  <1>1. Inv => SealedForItsTarget
    <2> SUFFICES ASSUME Inv, NEW i \in DOMAIN docs
                 PROVE  /\ docs[i].body = "sealed" => docs[i].for = docs[i].to
                                                      /\ docs[i].to # None
                        /\ docs[i].body = "plain" => docs[i].to = None
                        /\ docs[i].to = None => ~ docs[i].locked
                        /\ call[docs[i].by].req.via # "nobody" =>
                             docs[i].to = call[docs[i].by].req.to
      BY DEF SealedForItsTarget
    <2> QED
      BY DEF Inv, RowInv, TargetOf, PerPerson
  <1> QED
    BY <1>1, Invariant, PTL

\* CreateDocument returns a document only with its payload, and leaves a half one only with
\* an error and a reason, for any callers, requests and faults.
THEOREM NoneHalf == Spec => []NoHalfDocument
  <1>1. Inv => NoHalfDocument
    BY DEF Inv, CallInv, Owned, Completed, Excused, NoHalfDocument, At
  <1> QED
    BY <1>1, Invariant, PTL
=============================================================================
