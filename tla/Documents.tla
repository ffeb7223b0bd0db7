------------------------------ MODULE Documents ------------------------------
(***************************************************************************)
(* Writing to a connected person: CreateDocument and SendMessage of        *)
(* client.go, with the lookup of the share code they may need, which reads *)
(* the connections (Connections).                                          *)
(*                                                                         *)
(* A document of payload file is two requests, the row and its bytes, and  *)
(* a third one deletes the row when the bytes did not arrive.  A request   *)
(* may be refused, lost, answered too late, or sent twice because the      *)
(* connection was closed under it; the caller's context may end between    *)
(* any two steps, and from then on no request of the call is sent.         *)
(***************************************************************************)
EXTENDS Connections

CONSTANTS
    Caller,   \* the walkers that may write instead of reading
    Asked,    \* the requests they make
    Fault,    \* what may go wrong besides the context: "refused", "lost", "closed", "seal"
    MaxDocs   \* bound: rows the calls may create

ASSUME CallerAssumption == Caller \subseteq Walker
ASSUME FaultAssumption == Fault \subseteq {"refused", "lost", "closed", "seal"}

\* Persons are the rows they connect with; 0 is no person.
Person == Row
None == 0

\* CreateDocumentOptions and SendMessageOptions, as far as they decide anything.  via says
\* which of the target options are set, all of them of the person to; given says that
\* the payload is there.
Request ==
    [op : {"document", "message"}, payload : {"json", "file"}, contract : BOOLEAN,
     private : BOOLEAN, given : BOOLEAN, to : Person,
     via : {"nobody", "connection", "user", "code", "connection+user", "connection+code",
            "event"}]

ASSUME AskedAssumption == Asked \subseteq Request
ASSUME MaxDocsAssumption == MaxDocs \in Nat

VARIABLES
    docs,   \* platform: the documents and messages created, deleted ones included
    call    \* the call each caller makes

vars == <<walkVars, docs, call>>

\* body is what the platform holds of the payload and for whom it is sealed; answered
\* says that the caller was told of this row.
DocType ==
    [by : Caller, op : {"document", "message"}, to : Person \cup {None},
     locked : BOOLEAN, body : {"pending", "plain", "sealed", "deleted"},
     for : Person \cup {None}, answered : BOOLEAN]

\* code is the person whose share code is in hand, key the one whose public key is, id the
\* row that was answered, excuse (history) why a row could not be completed or removed.
CallType ==
    [pc : {"idle", "resolve", "walk", "key", "create", "upload", "cleanup", "over"},
     req : Request, code : Person \cup {None}, key : Person \cup {None},
     id : 0 .. MaxDocs, resent : BOOLEAN,
     excuse : {"", "context", "delete", "seal"}, result : {"", "created", "error"}]

TypeOK ==
    /\ WalkTypeOK
    /\ docs \in Seq(DocType) /\ Len(docs) <= MaxDocs
    /\ call \in [Caller -> CallType]

AnyRequest ==
    [op |-> "document", payload |-> "json", contract |-> FALSE, private |-> FALSE,
     given |-> TRUE, to |-> 1, via |-> "nobody"]
NoCall ==
    [pc |-> "idle", req |-> AnyRequest, code |-> None, key |-> None, id |-> 0, resent |-> FALSE,
     excuse |-> "", result |-> ""]

Init ==
    /\ WalkInit
    /\ docs = <<>>
    /\ call = [c \in Caller |-> NoCall]

At(c, pc) == call[c].pc = pc
Req(c) == call[c].req
Goto(c, pc) == call' = [call EXCEPT ![c].pc = pc]
HasCode(c, p) == call' = [call EXCEPT ![c] = [@ EXCEPT !.pc = "key", !.code = p]]
Ends(c, what) == call' = [call EXCEPT ![c] = [@ EXCEPT !.pc = "over", !.result = what]]

-----------------------------------------------------------------------------
(* The target: which person a request is for, and whose key seals it.       *)

\* Mutant of PerPerson: a share code alone does not make a target.
PerPersonByIds(q) == q.via \notin {"nobody", "code"}

PerPerson(q) == q.via # "nobody"
TargetOf(q) == IF PerPerson(q) THEN q.to ELSE None

\* The checks made before the first request.
Refused(q) ==
    \/ q.op = "document" /\ ~ PerPerson(q) /\ (q.contract \/ q.private)
    \/ q.op = "message" /\ ~ q.given

Begin(c, q) ==
    /\ At(c, "idle") /\ On(c, "idle")
    /\ q.op = "message" => q.via \in {"connection", "connection+code", "event"}
    /\ q.op = "document" => q.via # "event"
    /\ call' = [call EXCEPT ![c] = [@ EXCEPT
           !.req = q, !.key = IF q.via = "event" THEN q.to ELSE None,
           !.code = IF q.via \in {"code", "connection+code"} THEN q.to ELSE None,
           !.result = IF Refused(q) THEN "error" ELSE "",
           !.pc = IF Refused(q) THEN "over"
                  ELSE IF ~ PerPerson(q) \/ q.via = "event" THEN "create"
                  ELSE IF q.via \in {"code", "connection+code"} THEN "key"
                  ELSE IF q.via = "user" THEN "walk" ELSE "resolve"]]
    /\ walk' = [walk EXCEPT ![c] = IF PerPerson(q) /\ q.via = "user" /\ ~ Refused(q)
                                   THEN Open(c, "resolve", q.to) ELSE @]
    /\ UNCHANGED <<rows, changes, docs>>

\* resolveShareCode asks for the connection itself first.  One without a share code leaves
\* the scan by user id, or nothing.
Resolve(c) ==
    /\ At(c, "resolve")
    /\ \/ /\ walk[c].live /\ Req(c).to \in rows \cap Coded
          /\ HasCode(c, Req(c).to)
          /\ UNCHANGED walk
       \/ /\ walk[c].live /\ Req(c).to \in rows \ Coded
          /\ Req(c).via = "connection+user"
          /\ Goto(c, "walk")
          /\ walk' = [walk EXCEPT ![c] = Open(c, "resolve", Req(c).to)]
       \/ /\ walk[c].live => "refused" \in Fault \/ Req(c).to \notin rows
                             \/ (Req(c).to \notin Coded /\ Req(c).via = "connection")
          /\ Ends(c, "error")
          /\ UNCHANGED walk
    /\ UNCHANGED <<rows, changes, docs>>

\* The scan returned: with a code, or with the error that none was found.
Resolved(c) ==
    /\ At(c, "walk") /\ walk[c].result # ""
    /\ IF walk[c].result = "code" THEN HasCode(c, walk[c].code) ELSE Ends(c, "error")
    /\ UNCHANGED <<walkVars, docs>>

\* The context of a call ends; the reading of connections shares it.
Expire(c) ==
    /\ call[c].pc \notin {"idle", "over"} /\ walk[c].live
    /\ walk' = [walk EXCEPT ![c].live = FALSE]
    /\ UNCHANGED <<rows, changes, docs, call>>

\* recipientPublicKey of the share code in hand, from its cache or from the platform.
FetchKey(c) ==
    /\ At(c, "key")
    /\ \/ call' = [call EXCEPT ![c] = [@ EXCEPT !.key = call[c].code, !.pc = "create"]]
       \/ /\ walk[c].live => "refused" \in Fault
          /\ Ends(c, "error")
    /\ UNCHANGED <<walkVars, docs>>

-----------------------------------------------------------------------------
(* Requests that change something.                                          *)

\* What can come of one: acted says that the platform did it, answer what the caller
\* learns.  A closed connection is answered by sending the request once more.
Outcome(c) ==
    {o \in [acted : BOOLEAN, answer : {"ok", "again", "error"}] :
        IF ~ walk[c].live THEN ~ o.acted /\ o.answer = "error"
        ELSE \/ o.acted /\ o.answer = "ok"
             \/ o.answer = "again" /\ "closed" \in Fault /\ ~ call[c].resent
             \/ o.answer = "error" /\ (IF o.acted THEN "lost" ELSE "refused") \in Fault}

\* A message and a json document travel whole, a file's row travels ahead of its bytes.
Whole(q) == q.op = "message" \/ q.payload = "json"

NewRow(c, ok) ==
    LET q == Req(c)
    IN  [by |-> c, op |-> q.op, to |-> TargetOf(q), locked |-> q.contract \/ q.private,
         body |-> IF ~ Whole(q) THEN "pending"
                  ELSE IF PerPerson(q) THEN "sealed" ELSE "plain",
         for |-> IF Whole(q) /\ PerPerson(q) THEN call[c].key ELSE None, answered |-> ok]

Create(c) ==
    /\ At(c, "create") /\ Req(c).given
    /\ Len(docs) < MaxDocs
    /\ \E o \in Outcome(c) :
         /\ docs' = IF o.acted THEN Append(docs, NewRow(c, o.answer = "ok")) ELSE docs
         /\ call' = [call EXCEPT ![c] =
                CASE o.answer = "again" -> [@ EXCEPT !.resent = TRUE]
                  [] o.answer = "error" -> [@ EXCEPT !.pc = "over", !.result = "error"]
                  [] o.answer = "ok" ->
                       IF Whole(@.req)
                       THEN [@ EXCEPT !.pc = "over", !.result = "created", !.id = Len(docs) + 1]
                       ELSE [@ EXCEPT !.pc = "upload", !.id = Len(docs) + 1, !.resent = FALSE]]
    /\ UNCHANGED walkVars

\* The payload is missing, or cannot be sealed.
CreateFails(c) ==
    /\ At(c, "create")
    /\ ~ Req(c).given \/ (Whole(Req(c)) /\ PerPerson(Req(c)) /\ "seal" \in Fault)
    /\ Ends(c, "error")
    /\ UNCHANGED <<walkVars, docs>>

\* Mutant of Upload: a failed upload is reported, its row left as it is.
UploadsWithoutCleanup(c) ==
    /\ At(c, "upload")
    /\ \E o \in Outcome(c) :
         /\ docs' = IF o.acted
                    THEN [docs EXCEPT ![call[c].id] = [@ EXCEPT
                             !.body = IF PerPerson(Req(c)) THEN "sealed" ELSE "plain",
                             !.for = call[c].key]]
                    ELSE docs
         /\ call' = [call EXCEPT ![c] =
                CASE o.answer = "again" -> [@ EXCEPT !.resent = TRUE]
                  [] o.answer = "error" -> [@ EXCEPT !.pc = "over", !.result = "error"]
                  [] OTHER -> [@ EXCEPT !.pc = "over", !.result = "created"]]
    /\ UNCHANGED walkVars

\* The bytes go to the row that was answered, sealed for the person, or plain.
Upload(c) ==
    /\ At(c, "upload")
    /\ \E o \in Outcome(c) :
         /\ docs' = IF o.acted
                    THEN [docs EXCEPT ![call[c].id] = [@ EXCEPT
                             !.body = IF PerPerson(Req(c)) THEN "sealed" ELSE "plain",
                             !.for = call[c].key]]
                    ELSE docs
         /\ call' = [call EXCEPT ![c] =
                CASE o.answer = "again" -> [@ EXCEPT !.resent = TRUE]
                  [] o.answer = "error" -> [@ EXCEPT !.pc = "cleanup", !.resent = FALSE]
                  [] OTHER -> [@ EXCEPT !.pc = "over", !.result = "created"]]
    /\ UNCHANGED walkVars

\* The bytes cannot be sealed: the call returns at once, its row already there.
SealFails(c) ==
    /\ At(c, "upload") /\ PerPerson(Req(c)) /\ "seal" \in Fault
    /\ ~ call[c].resent
    /\ call' = [call EXCEPT ![c] =
           [@ EXCEPT !.pc = "over", !.result = "error", !.excuse = "seal"]]
    /\ UNCHANGED <<walkVars, docs>>

\* DeleteDocument with the call's own context; its error is swallowed, the upload's is
\* returned.
Cleanup(c) ==
    /\ At(c, "cleanup")
    /\ \E o \in Outcome(c) :
         /\ docs' = IF o.acted THEN [docs EXCEPT ![call[c].id].body = "deleted"] ELSE docs
         /\ call' = [call EXCEPT ![c] =
                IF o.answer = "again" THEN [@ EXCEPT !.resent = TRUE]
                ELSE [@ EXCEPT !.pc = "over", !.result = "error",
                        !.excuse = IF o.answer = "ok" THEN ""
                                   ELSE IF walk[c].live THEN "delete" ELSE "context"]]
    /\ UNCHANGED walkVars

Write(c) ==
    \/ Resolve(c) \/ Resolved(c) \/ FetchKey(c) \/ Create(c) \/ CreateFails(c)
    \/ Upload(c) \/ SealFails(c) \/ Cleanup(c)

\* A caller that writes reads no list of its own.
ReadList(w) ==
    /\ w \in Caller => At(w, "idle")
    /\ \E op \in {"list", "iterate", "pages"} : Read(w, op)
    /\ UNCHANGED <<docs, call>>

Next ==
    \/ \E r \in Row : Change(r) /\ UNCHANGED <<docs, call>>
    \/ \E w \in Walker : ReadList(w) \/ (WalkStep(w) /\ UNCHANGED <<docs, call>>)
    \/ \E c \in Caller : (\E q \in Asked : Begin(c, q)) \/ Expire(c) \/ Write(c)

\* The goroutines run, and a call in progress goes on.
Spec ==
    /\ Init /\ [][Next]_vars
    /\ \A w \in Walker : WF_vars(Goroutine(w) /\ UNCHANGED <<docs, call>>)
    /\ \A c \in Caller : WF_vars(Write(c))

-----------------------------------------------------------------------------
(* Properties.                                                              *)

\* What is meant for one person leaves the process sealed with that person's key, by
\* whichever of the options the person was named and however the share code was found; a
\* plain body is a broadcast's, and a broadcast is neither a contract nor private.
SealedForItsTarget ==
    \A i \in DOMAIN docs :
        LET d == docs[i]
        IN  /\ d.body = "sealed" => d.for = d.to /\ d.to # None
            /\ d.body = "plain" => d.to = None
            /\ d.to = None => ~ d.locked
            /\ call[d.by].req.via # "nobody" => d.to = call[d.by].req.to

\* CreateDocument returns a document only with its payload on the platform, and of the
\* rows it made none is left without one, except a row it was never told of, or one it
\* could not delete: the context had ended, the deletion failed as well, or the bytes
\* could not be sealed.
NoHalfDocument ==
    \A c \in Caller : At(c, "over") =>
        /\ call[c].result = "created" => docs[call[c].id].body \in {"plain", "sealed"}
        /\ \A i \in DOMAIN docs :
               docs[i].by = c /\ docs[i].body = "pending" =>
                   \/ ~ docs[i].answered
                   \/ call[c].result = "error" /\ call[c].excuse # ""
=============================================================================
