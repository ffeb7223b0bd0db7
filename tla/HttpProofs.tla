----------------------------- MODULE HttpProofs -----------------------------
(***************************************************************************)
(* Proofs about HttpClient, for any number of requests, regions and        *)
(* backoffs.                                                               *)
(*                                                                         *)
(* Each request pays for its attempts: one is its own, and every further   *)
(* one was bought by a refresh, a rebase or a counted backoff.  An attempt *)
(* that the platform acted on, and that was answered, ends the request.    *)
(* A request that runs alone finds after its refresh the token and the     *)
(* base of the home region, and after its rebase the base.                 *)
(***************************************************************************)
EXTENDS HttpClient, TLAPS

One(b) == IF b THEN 1 ELSE 0

\* What the retries so far have bought.
Paid(c) == call[c].retries429 + One(call[c].refreshed401) + One(call[c].rebased421)

\* A 421 on its way through rebaseTo.
Following(c) == call[c].pc \in {"compare", "rebase"} /\ call[c].status = 421

BudgetInv(c) ==
    /\ call[c].retries429 <= maxRetries429
    /\ call[c].sends <= Paid(c) + One(call[c].pc \in {"send", "answered"} \/ Following(c))
    /\ Following(c) => ~ call[c].rebased421
    /\ call[c].pc \notin {"answered", "compare", "rebase"} => call[c].status # 421

ReplayInv(c) ==
    call[c].served <=
        call[c].resends + One(call[c].pc = "answered" /\ call[c].status \in {200, 500})

\* What a request knows that runs alone: it holds what its own answers told it.
Knows(c) ==
    /\ \A d \in Caller \ {c} : At(d, "idle")
    /\ call[c].result = "none"
    /\ call[c].pc \in {"send", "answered"} => call[c].base = apiURL
    /\ call[c].rebased421 => apiURL = home
    /\ call[c].forced => /\ call[c].pc \in {"tokenURL", "mint", "keep", "compare", "rebase"}
                         /\ call[c].status # 421
    /\ call[c].refreshed401 /\ ~ call[c].forced =>
         /\ token = epoch /\ apiURL = home
         /\ call[c].pc \in {"url", "send", "answered"} => call[c].tok = epoch
    /\ call[c].pc = "keep" => call[c].tok = epoch /\ call[c].named = home
    /\ call[c].pc \in {"compare", "rebase"} /\ call[c].status # 421 =>
         call[c].tok = epoch /\ token = epoch /\ call[c].named = home
    /\ Following(c) => /\ call[c].named \in {home, NoBase} /\ apiURL # home
                       /\ call[c].pc = "rebase" => call[c].named = home
    /\ call[c].pc = "answered" /\ call[c].status = 401 =>
         call[c].base # home \/ call[c].tok # epoch
    /\ call[c].pc = "answered" /\ call[c].status = 421 =>
         call[c].base # home /\ call[c].named \in {home, NoBase}

\* What it has returned is no refusal, but one that named no base.
Served(c) ==
    /\ call[c].result # "unauthorized"
    /\ call[c].result = "misdirected" => call[c].named = NoBase

AloneInv(c) == call[c].alone => IF At(c, "idle") THEN Served(c) ELSE Knows(c)

\* Only a base that was named is stored.
NamedInv(c) == call[c].pc = "rebase" => call[c].named # NoBase

CallInv(c) == NamedInv(c) /\ BudgetInv(c) /\ ReplayInv(c) /\ AloneInv(c)

Inv == TypeOK /\ \A c \in Caller : CallInv(c)

-----------------------------------------------------------------------------
(* Types.                                                                   *)

\* The label takes a value of its type.
LEMMA PcTyped ==
    ASSUME NEW k \in CallType,
           NEW v \in {"idle", "bearer", "read", "tokenURL", "mint", "keep", "compare",
                  "rebase", "url", "send", "answered"}
    PROVE  [k EXCEPT !.pc = v] \in CallType
  BY DEF CallType

\* The token in hand takes a value of its type.
LEMMA TokTyped ==
    ASSUME NEW k \in CallType,
           NEW v \in Nat
    PROVE  [k EXCEPT !.tok = v] \in CallType
  BY DEF CallType

\* The base of the attempt takes a value of its type.
LEMMA BaseTyped ==
    ASSUME NEW k \in CallType,
           NEW v \in Base
    PROVE  [k EXCEPT !.base = v] \in CallType
  BY DEF CallType

\* The field named takes a value of its type.
LEMMA NamedTyped ==
    ASSUME NEW k \in CallType,
           NEW v \in Base \cup {NoBase}
    PROVE  [k EXCEPT !.named = v] \in CallType
  BY DEF CallType

\* The field status takes a value of its type.
LEMMA StatusTyped ==
    ASSUME NEW k \in CallType,
           NEW v \in {0, 200, 401, 421, 429, 500}
    PROVE  [k EXCEPT !.status = v] \in CallType
  BY DEF CallType

\* The field forced takes a value of its type.
LEMMA ForcedTyped ==
    ASSUME NEW k \in CallType,
           NEW v \in BOOLEAN
    PROVE  [k EXCEPT !.forced = v] \in CallType
  BY DEF CallType

\* The field refreshed401 takes a value of its type.
LEMMA Refreshed401Typed ==
    ASSUME NEW k \in CallType,
           NEW v \in BOOLEAN
    PROVE  [k EXCEPT !.refreshed401 = v] \in CallType
  BY DEF CallType

\* The field rebased421 takes a value of its type.
LEMMA Rebased421Typed ==
    ASSUME NEW k \in CallType,
           NEW v \in BOOLEAN
    PROVE  [k EXCEPT !.rebased421 = v] \in CallType
  BY DEF CallType

\* The field resent takes a value of its type.
LEMMA ResentTyped ==
    ASSUME NEW k \in CallType,
           NEW v \in BOOLEAN
    PROVE  [k EXCEPT !.resent = v] \in CallType
  BY DEF CallType

\* The field retries429 takes a value of its type.
LEMMA Retries429Typed ==
    ASSUME NEW k \in CallType,
           NEW v \in Nat
    PROVE  [k EXCEPT !.retries429 = v] \in CallType
  BY DEF CallType

\* The field sends takes a value of its type.
LEMMA SendsTyped ==
    ASSUME NEW k \in CallType,
           NEW v \in Nat
    PROVE  [k EXCEPT !.sends = v] \in CallType
  BY DEF CallType

\* The field resends takes a value of its type.
LEMMA ResendsTyped ==
    ASSUME NEW k \in CallType,
           NEW v \in Nat
    PROVE  [k EXCEPT !.resends = v] \in CallType
  BY DEF CallType

\* The field served takes a value of its type.
LEMMA ServedTyped ==
    ASSUME NEW k \in CallType,
           NEW v \in Nat
    PROVE  [k EXCEPT !.served = v] \in CallType
  BY DEF CallType

\* The field result takes a value of its type.
LEMMA ResultTyped ==
    ASSUME NEW k \in CallType,
           NEW v \in {"none", "ok", "token", "unauthorized", "misdirected", "limited", "error"}
    PROVE  [k EXCEPT !.result = v] \in CallType
  BY DEF CallType

\* The field alone takes a value of its type.
LEMMA AloneTyped ==
    ASSUME NEW k \in CallType,
           NEW v \in BOOLEAN
    PROVE  [k EXCEPT !.alone = v] \in CallType
  BY DEF CallType

\* The request as it returns has its type.
LEMMA ReturnTyped ==
    ASSUME NEW k \in CallType,
           NEW r \in {"ok", "token", "unauthorized", "misdirected", "limited", "error"}
    PROVE  [NoCall EXCEPT !.result = r, !.named = k.named, !.alone = k.alone] \in CallType
  <1> DEFINE k1 == [NoCall EXCEPT !.result = r]
  <1> DEFINE k2 == [k1 EXCEPT !.named = k.named]
  <1>1. NoCall \in CallType
    BY DEF NoCall, CallType, Base, NoToken
  <1>2. k.named \in Base \cup {NoBase} /\ k.alone \in BOOLEAN
    BY DEF CallType
  <1>3. k1 \in CallType
    BY <1>1, ResultTyped
  <1>4. k2 \in CallType
    BY <1>2, <1>3, NamedTyped
  <1> QED
    BY <1>2, <1>4, AloneTyped

\* Every step of a request keeps the types.
LEMMA TypeKeeps ==
    ASSUME Inv, NEW c \in Caller, Step(c)
    PROVE  TypeOK'
  <1>0. /\ home \in Region /\ epoch \in Nat /\ apiURL \in Base /\ token \in Nat
        /\ expired \in BOOLEAN /\ resets \in Nat /\ call \in [Caller -> CallType]
        /\ call[c] \in CallType
    BY DEF Inv, TypeOK
  <1>c. call \in [Caller -> CallType]
    BY <1>0
  <1>1. ASSUME NEW r \in {"ok", "token", "unauthorized", "misdirected", "limited", "error"},
               Return(c, r)
        PROVE  call' \in [Caller -> CallType]
    BY <1>0, <1>1, ReturnTyped DEF Return
  <1>2. /\ call[c].retries429 + 1 \in Nat /\ call[c].sends + 1 \in Nat
        /\ call[c].resends + 1 \in Nat /\ call[c].named \in Base \cup {NoBase}
        /\ call[c].tok \in Nat /\ call[c].base \in Base
        /\ \A a \in {0, 1} : call[c].served + a \in Nat
    BY <1>0 DEF CallType
  <1>3. home \in Base /\ Front \in Base
    BY <1>0 DEF Base
  <1>4. CASE TokenValid(c)
    <2> DEFINE k1 == [call[c] EXCEPT !.pc = IF token # NoToken /\ ~ expired THEN "read" ELSE "tokenURL"]
    <2>1. k1 \in CallType
      BY <1>0, PcTyped
    <2>2. call' = [call EXCEPT ![c] = k1]
      BY <1>0, <1>4 DEF TokenValid, Goto
    <2>3. call' \in [Caller -> CallType]
      <3> HIDE DEF k1
      <3> QED
        BY <1>0, <2>1, <2>2
    <2> QED
      BY <1>0, <1>4, <2>3 DEF TokenValid, TypeOK, client, platform
  <1>5. CASE ReadToken(c)
    <2> DEFINE k1 == [call[c] EXCEPT !.tok = token]
    <2> DEFINE k2 == [k1 EXCEPT !.pc = "url"]
    <2>1. k1 \in CallType
      BY <1>0, TokTyped
    <2>2. k2 \in CallType
      BY <1>0, PcTyped, <2>1
    <2>3. call' = [call EXCEPT ![c] = k2]
      BY <1>0, <1>5 DEF ReadToken
    <2>4. call' \in [Caller -> CallType]
      <3> HIDE DEF k2
      <3> QED
        BY <1>0, <2>2, <2>3
    <2> QED
      BY <1>0, <1>5, <2>4 DEF ReadToken, TypeOK, client, platform
  <1>6. CASE TokenURL(c)
    <2> DEFINE k1 == [call[c] EXCEPT !.base = apiURL]
    <2> DEFINE k2 == [k1 EXCEPT !.pc = "mint"]
    <2>1. k1 \in CallType
      BY <1>0, BaseTyped
    <2>2. k2 \in CallType
      BY <1>0, PcTyped, <2>1
    <2>3. call' = [call EXCEPT ![c] = k2]
      BY <1>0, <1>6 DEF TokenURL
    <2>4. call' \in [Caller -> CallType]
      <3> HIDE DEF k2
      <3> QED
        BY <1>0, <2>2, <2>3
    <2> QED
      BY <1>0, <1>6, <2>4 DEF TokenURL, TypeOK, client, platform
  <1>7. CASE Mint(c)
    <2>1. CASE call' = [call EXCEPT ![c].tok = epoch, ![c].named = home, ![c].pc = "keep"]
      <3> DEFINE k1 == [call[c] EXCEPT !.tok = epoch]
      <3> DEFINE k2 == [k1 EXCEPT !.named = home]
      <3> DEFINE k3 == [k2 EXCEPT !.pc = "keep"]
      <3>1. k1 \in CallType
        BY <1>0, TokTyped
      <3>2. k2 \in CallType
        BY <1>0, NamedTyped, <3>1, <1>3
      <3>3. k3 \in CallType
        BY <1>0, PcTyped, <3>2
      <3>4. call' = [call EXCEPT ![c] = k3]
        BY <1>0, <1>7, <2>1 DEF Mint
      <3>5. call' \in [Caller -> CallType]
        <4> HIDE DEF k3
        <4> QED
          BY <1>0, <3>3, <3>4
      <3> QED
        BY <1>0, <1>7, <2>1, <3>5 DEF Mint, TypeOK, client, platform
    <2>2. CASE Return(c, "token")
      BY <1>0, <1>1, <1>7, <2>2 DEF Mint, TypeOK, client, platform
    <2> QED
      BY <1>7, <2>1, <2>2 DEF Mint
  <1>8. CASE KeepToken(c)
    <2> DEFINE k1 == [call[c] EXCEPT !.pc = "compare"]
    <2>1. k1 \in CallType
      BY <1>0, PcTyped
    <2>2. call' = [call EXCEPT ![c] = k1]
      BY <1>0, <1>8, <1>2 DEF KeepToken, Goto
    <2>3. call' \in [Caller -> CallType]
      <3> HIDE DEF k1
      <3> QED
        BY <1>0, <2>1, <2>2
    <2> QED
      BY <1>0, <1>8, <1>2, <2>3 DEF KeepToken, TypeOK, client, platform
  <1>9. CASE OtherBase(c)
    <2> DEFINE k1 == [call[c] EXCEPT !.pc = "rebase"]
    <2>1. k1 \in CallType
      BY <1>0, PcTyped
    <2>2. call' = [call EXCEPT ![c] = k1]
      BY <1>0, <1>9 DEF OtherBase, Goto
    <2>3. call' \in [Caller -> CallType]
      <3> HIDE DEF k1
      <3> QED
        BY <1>0, <2>1, <2>2
    <2> QED
      BY <1>0, <1>9, <2>3 DEF OtherBase, TypeOK, client, platform
  <1>10. CASE SameBase(c)
    <2>1. CASE call[c].status = 421
      BY <1>0, <1>1, <1>10, <2>1 DEF SameBase, TypeOK, client, platform
    <2>2. CASE call[c].status # 421
      <3> DEFINE k1 == [call[c] EXCEPT !.pc = AfterToken(c)]
      <3> DEFINE k2 == [k1 EXCEPT !.forced = FALSE]
      <3>1. k1 \in CallType
        BY <1>0, PcTyped DEF AfterToken
      <3>2. k2 \in CallType
        BY <1>0, ForcedTyped, <3>1
      <3>3. call' = [call EXCEPT ![c] = k2]
        BY <1>0, <1>10, <2>2 DEF SameBase
      <3>4. call' \in [Caller -> CallType]
        <4> HIDE DEF k2
        <4> QED
          BY <1>0, <3>2, <3>3
      <3> QED
        BY <1>0, <1>10, <2>2, <3>4 DEF SameBase, TypeOK, client, platform
    <2> QED
      BY <2>1, <2>2
  <1>11. CASE Rebase(c)
    <2>0. call[c].named \in Base
      BY <1>2, <1>11 DEF Inv, CallInv, NamedInv, Rebase, At
    <2>1. CASE call[c].status = 421
      <3> DEFINE k1 == [call[c] EXCEPT !.rebased421 = TRUE]
      <3> DEFINE k2 == [k1 EXCEPT !.status = 0]
      <3> DEFINE k3 == [k2 EXCEPT !.pc = "bearer"]
      <3>1. k1 \in CallType
        BY <1>0, Rebased421Typed
      <3>2. k2 \in CallType
        BY <1>0, StatusTyped, <3>1
      <3>3. k3 \in CallType
        BY <1>0, PcTyped, <3>2
      <3>4. call' = [call EXCEPT ![c] = k3]
        <4>1. call' = [call EXCEPT ![c].rebased421 = TRUE, ![c].status = 0, ![c].pc = "bearer"]
          BY <1>11, <2>1 DEF Rebase
        <4> QED
          BY <1>c, <4>1
      <3>5. call' \in [Caller -> CallType]
        <4> HIDE DEF k3
        <4> QED
          BY <1>0, <3>3, <3>4
      <3> QED
        BY <1>0, <1>11, <2>1, <2>0, <3>5 DEF Rebase, TypeOK, client, platform
    <2>2. CASE call[c].status # 421
      <3> DEFINE k1 == [call[c] EXCEPT !.pc = AfterToken(c)]
      <3> DEFINE k2 == [k1 EXCEPT !.forced = FALSE]
      <3>1. k1 \in CallType
        BY <1>0, PcTyped DEF AfterToken
      <3>2. k2 \in CallType
        BY <1>0, ForcedTyped, <3>1
      <3>3. call' = [call EXCEPT ![c] = k2]
        BY <1>0, <1>11, <2>2 DEF Rebase
      <3>4. call' \in [Caller -> CallType]
        <4> HIDE DEF k2
        <4> QED
          BY <1>0, <3>2, <3>3
      <3> QED
        BY <1>0, <1>11, <2>2, <2>0, <3>4 DEF Rebase, TypeOK, client, platform
    <2> QED
      BY <2>1, <2>2
  <1>12. CASE ResolveURL(c)
    <2> DEFINE k1 == [call[c] EXCEPT !.base = apiURL]
    <2> DEFINE k2 == [k1 EXCEPT !.resent = FALSE]
    <2> DEFINE k3 == [k2 EXCEPT !.sends = call[c].sends + 1]
    <2> DEFINE k4 == [k3 EXCEPT !.pc = "send"]
    <2>1. k1 \in CallType
      BY <1>0, BaseTyped
    <2>2. k2 \in CallType
      BY <1>0, ResentTyped, <2>1
    <2>3. k3 \in CallType
      BY <1>0, SendsTyped, <2>2, <1>2
    <2>4. k4 \in CallType
      BY <1>0, PcTyped, <2>3
    <2>5. call' = [call EXCEPT ![c] = k4]
      BY <1>0, <1>12 DEF ResolveURL
    <2>6. call' \in [Caller -> CallType]
      <3> HIDE DEF k4
      <3> QED
        BY <1>0, <2>4, <2>5
    <2> QED
      BY <1>0, <1>12, <2>6 DEF ResolveURL, TypeOK, client, platform
  <1>13. CASE Platform(c)
    <2>1. ASSUME NEW s, s \in {200, 401, 421, 429, 500}, NEW b, b \in Base \cup {NoBase},
                 NEW a, a \in {0, 1}, Answer(c, s, b, a)
          PROVE  TypeOK'
      <3>s. s \in {0, 200, 401, 421, 429, 500}
        BY <2>1
      <3>b. b \in Base \cup {NoBase}
        BY <2>1
      <3>a. call[c].served + a \in Nat
        BY <1>2, <2>1
      <3> DEFINE k1 == [call[c] EXCEPT !.status = s]
      <3> DEFINE k2 == [k1 EXCEPT !.named = b]
      <3> DEFINE k3 == [k2 EXCEPT !.served = call[c].served + a]
      <3> DEFINE k4 == [k3 EXCEPT !.pc = "answered"]
      <3>1. k1 \in CallType
        BY <1>0, <1>c, <3>s DEF CallType
      <3>2. k2 \in CallType
        BY <1>0, NamedTyped, <3>1, <3>b
      <3>3. k3 \in CallType
        BY <1>0, ServedTyped, <3>2, <3>a
      <3>4. k4 \in CallType
        BY <1>0, PcTyped, <3>3
      <3>5. call' = [call EXCEPT ![c] = k4]
        <4>1. call' = [call EXCEPT ![c].status = s, ![c].named = b, ![c].served = call[c].served + a, ![c].pc = "answered"]
          BY <2>1 DEF Answer
        <4> QED
          BY <1>c, <4>1
      <3>6. call' \in [Caller -> CallType]
        <4> HIDE DEF k4
        <4> QED
          BY <1>0, <3>4, <3>5
      <3> QED
        BY <1>0, <2>1, <3>6 DEF Answer, TypeOK, client, platform
    <2>2. ASSUME NEW a \in {0, 1}, Resend(c),
                 call' = [call EXCEPT ![c].resent = TRUE, ![c].resends = @ + 1,
                                      ![c].served = @ + a]
          PROVE  TypeOK'
      <3> DEFINE k1 == [call[c] EXCEPT !.resent = TRUE]
      <3> DEFINE k2 == [k1 EXCEPT !.resends = call[c].resends + 1]
      <3> DEFINE k3 == [k2 EXCEPT !.served = call[c].served + a]
      <3>1. k1 \in CallType
        BY <1>0, ResentTyped
      <3>2. k2 \in CallType
        BY <1>0, ResendsTyped, <3>1, <1>2, <2>2
      <3>3. k3 \in CallType
        BY <1>0, ServedTyped, <3>2, <1>2, <2>2
      <3>4. call' = [call EXCEPT ![c] = k3]
        BY <1>0, <2>2 DEF Resend
      <3>5. call' \in [Caller -> CallType]
        <4> HIDE DEF k3
        <4> QED
          BY <1>0, <3>3, <3>4
      <3> QED
        BY <1>0, <2>2, <3>5 DEF Resend, TypeOK, client, platform
    <2>3. MayAct(c) \subseteq {0, 1}
      BY DEF MayAct
    <2>4. Resend(c) => TypeOK'
      BY <2>2, <2>3 DEF Resend
    <2> QED
      BY <1>3, <1>13, <2>1, <2>3, <2>4
      DEF Platform, Serve, Unauthorized, Misdirected, Limit, Break
  <1>14. CASE Refresh401(c)
    <2> DEFINE k1 == [call[c] EXCEPT !.refreshed401 = TRUE]
    <2> DEFINE k2 == [k1 EXCEPT !.forced = TRUE]
    <2> DEFINE k3 == [k2 EXCEPT !.pc = "tokenURL"]
    <2>1. k1 \in CallType
      BY <1>0, Refreshed401Typed
    <2>2. k2 \in CallType
      BY <1>0, ForcedTyped, <2>1
    <2>3. k3 \in CallType
      BY <1>0, PcTyped, <2>2
    <2>4. call' = [call EXCEPT ![c] = k3]
      <3>1. call' = [call EXCEPT ![c].refreshed401 = TRUE, ![c].forced = TRUE, ![c].pc = "tokenURL"]
        BY <1>14 DEF Refresh401
      <3> QED
        BY <1>c, <3>1
    <2>5. call' \in [Caller -> CallType]
      <3> HIDE DEF k3
      <3> QED
        BY <1>0, <2>3, <2>4
    <2> QED
      BY <1>0, <1>14, <2>5 DEF Refresh401, TypeOK, client, platform
  <1>15. CASE Follow421(c)
    <2> DEFINE k1 == [call[c] EXCEPT !.pc = "compare"]
    <2>1. k1 \in CallType
      BY <1>0, PcTyped
    <2>2. call' = [call EXCEPT ![c] = k1]
      BY <1>0, <1>15 DEF Follow421, Goto
    <2>3. call' \in [Caller -> CallType]
      <3> HIDE DEF k1
      <3> QED
        BY <1>0, <2>1, <2>2
    <2> QED
      BY <1>0, <1>15, <2>3 DEF Follow421, TypeOK, client, platform
  <1>16. CASE Backoff429(c)
    <2> DEFINE k1 == [call[c] EXCEPT !.retries429 = call[c].retries429 + 1]
    <2> DEFINE k2 == [k1 EXCEPT !.pc = "bearer"]
    <2>1. k1 \in CallType
      BY <1>0, Retries429Typed, <1>2
    <2>2. k2 \in CallType
      BY <1>0, PcTyped, <2>1
    <2>3. call' = [call EXCEPT ![c] = k2]
      <3>1. call' = [call EXCEPT ![c].retries429 = call[c].retries429 + 1, ![c].pc = "bearer"]
        BY <1>16 DEF Backoff429
      <3> QED
        BY <1>c, <3>1
    <2>4. call' \in [Caller -> CallType]
      <3> HIDE DEF k2
      <3> QED
        BY <1>0, <2>2, <2>3
    <2> QED
      BY <1>0, <1>16, <2>4 DEF Backoff429, TypeOK, client, platform
  <1>17. CASE Succeeds(c) \/ GiveUp401(c) \/ Surface421(c) \/ GiveUp429(c) \/ Surface(c)
    BY <1>0, <1>1, <1>17
    DEF Succeeds, GiveUp401, Surface421, GiveUp429, Surface, TypeOK, client, platform
  <1> QED
    BY <1>4, <1>5, <1>6, <1>7, <1>8, <1>9, <1>10, <1>11, <1>12, <1>13, <1>14, <1>15, <1>16, <1>17 DEF Step, FetchToken, Handle

-----------------------------------------------------------------------------
(* The budget, the replays and the request that runs alone.                 *)

\* A request that returned has nothing left, and is served unless it was refused.
LEMMA Returns ==
    ASSUME Inv, NEW c \in Caller, NEW r, Return(c, r),
           call[c].alone => /\ r # "unauthorized"
                            /\ r = "misdirected" => call[c].named = NoBase
    PROVE  CallInv(c)' /\ \A d \in Caller \ {c} : call'[d] = call[d]
  <1>1. /\ call'[c] = [NoCall EXCEPT !.result = r, !.named = call[c].named,
                                   !.alone = call[c].alone]
        /\ \A d \in Caller \ {c} : call'[d] = call[d]
    BY DEF Inv, TypeOK, Return
  <1>2. /\ call'[c].pc = "idle" /\ call'[c].status = 0 /\ call'[c].retries429 = 0
        /\ call'[c].sends = 0 /\ call'[c].served = 0 /\ call'[c].resends = 0
        /\ call'[c].refreshed401 = FALSE /\ call'[c].rebased421 = FALSE
        /\ call'[c].result = r /\ call'[c].named = call[c].named
        /\ call'[c].alone = call[c].alone
    BY <1>1 DEF NoCall
  <1>3. NamedInv(c)' /\ BudgetInv(c)' /\ ReplayInv(c)'
    BY <1>2, RetryAssumption DEF NamedInv, BudgetInv, Paid, One, Following, ReplayInv
  <1>4. AloneInv(c)'
    BY <1>2 DEF AloneInv, Served, At
  <1> QED
    BY <1>1, <1>3, <1>4 DEF CallInv

\* Every step of a request keeps what is known of it.
LEMMA OwnKeeps ==
    ASSUME Inv, NEW c \in Caller, Step(c)
    PROVE  CallInv(c)' /\ \A d \in Caller \ {c} : call'[d] = call[d]
  <1> USE RegionAssumption, RetryAssumption
  <1>0. /\ home \in Region /\ epoch \in Nat /\ apiURL \in Base /\ token \in Nat
        /\ call \in [Caller -> CallType] /\ call[c] \in CallType /\ CallInv(c)
    BY DEF Inv, TypeOK
  <1>1. CASE TokenValid(c)
    <2>1. NamedInv(c)' /\ BudgetInv(c)'
      BY <1>0, <1>1
      DEF TokenValid, Goto, CallInv, NamedInv, BudgetInv, Paid, One, Following, CallType, At
    <2>2. ReplayInv(c)'
      BY <1>0, <1>1 DEF TokenValid, Goto, CallInv, ReplayInv, One, CallType, At
    <2>3. \A d \in Caller \ {c} : call'[d] = call[d]
      BY <1>0, <1>1 DEF TokenValid, Goto, CallType
    <2>4. AloneInv(c)'
      BY <1>0, <1>1, <2>3
      DEF TokenValid, Goto, CallInv, NamedInv, AloneInv, BudgetInv, Knows, Following, CallType, At,
          client, platform
    <2> QED
      BY <2>1, <2>2, <2>3, <2>4 DEF CallInv
  <1>2. CASE ReadToken(c)
    <2>1. NamedInv(c)' /\ BudgetInv(c)'
      BY <1>0, <1>2
      DEF ReadToken, CallInv, NamedInv, BudgetInv, Paid, One, Following, CallType, At
    <2>2. ReplayInv(c)'
      BY <1>0, <1>2 DEF ReadToken, CallInv, ReplayInv, One, CallType, At
    <2>3. \A d \in Caller \ {c} : call'[d] = call[d]
      BY <1>0, <1>2 DEF ReadToken, CallType
    <2>4. AloneInv(c)'
      BY <1>0, <1>2, <2>3
      DEF ReadToken, CallInv, NamedInv, AloneInv, BudgetInv, Knows, Following, CallType, At,
          client, platform
    <2> QED
      BY <2>1, <2>2, <2>3, <2>4 DEF CallInv
  <1>3. CASE TokenURL(c)
    <2>1. NamedInv(c)' /\ BudgetInv(c)'
      BY <1>0, <1>3
      DEF TokenURL, CallInv, NamedInv, BudgetInv, Paid, One, Following, CallType, At
    <2>2. ReplayInv(c)'
      BY <1>0, <1>3 DEF TokenURL, CallInv, ReplayInv, One, CallType, At
    <2>3. \A d \in Caller \ {c} : call'[d] = call[d]
      BY <1>0, <1>3 DEF TokenURL, CallType
    <2>4. AloneInv(c)'
      BY <1>0, <1>3, <2>3
      DEF TokenURL, CallInv, NamedInv, AloneInv, BudgetInv, Knows, Following, CallType, At,
          client, platform
    <2> QED
      BY <2>1, <2>2, <2>3, <2>4 DEF CallInv
  <1>4. CASE Mint(c) /\ ~ Return(c, "token")
    <2>1. NamedInv(c)' /\ BudgetInv(c)'
      BY <1>0, <1>4
      DEF Mint, CallInv, NamedInv, BudgetInv, Paid, One, Following, CallType, At
    <2>2. ReplayInv(c)'
      BY <1>0, <1>4 DEF Mint, CallInv, ReplayInv, One, CallType, At
    <2>3. \A d \in Caller \ {c} : call'[d] = call[d]
      BY <1>0, <1>4 DEF Mint, CallType
    <2>4. AloneInv(c)'
      BY <1>0, <1>4, <2>3
      DEF Mint, CallInv, NamedInv, AloneInv, BudgetInv, Knows, Following, CallType, At,
          client, platform
    <2> QED
      BY <2>1, <2>2, <2>3, <2>4 DEF CallInv
  <1>5. CASE KeepToken(c)
    <2>1. NamedInv(c)' /\ BudgetInv(c)'
      BY <1>0, <1>5
      DEF KeepToken, Goto, CallInv, NamedInv, BudgetInv, Paid, One, Following, CallType, At
    <2>2. ReplayInv(c)'
      BY <1>0, <1>5 DEF KeepToken, Goto, CallInv, ReplayInv, One, CallType, At
    <2>3. \A d \in Caller \ {c} : call'[d] = call[d]
      BY <1>0, <1>5 DEF KeepToken, Goto, CallType
    <2>4. AloneInv(c)'
      BY <1>0, <1>5, <2>3
      DEF KeepToken, Goto, CallInv, NamedInv, AloneInv, BudgetInv, Knows, Following, CallType, At,
          client, platform
    <2> QED
      BY <2>1, <2>2, <2>3, <2>4 DEF CallInv
  <1>6. CASE OtherBase(c)
    <2>1. NamedInv(c)' /\ BudgetInv(c)'
      BY <1>0, <1>6
      DEF OtherBase, Goto, CallInv, NamedInv, BudgetInv, Paid, One, Following, CallType, At
    <2>2. ReplayInv(c)'
      BY <1>0, <1>6 DEF OtherBase, Goto, CallInv, ReplayInv, One, CallType, At
    <2>3. \A d \in Caller \ {c} : call'[d] = call[d]
      BY <1>0, <1>6 DEF OtherBase, Goto, CallType
    <2>4. AloneInv(c)'
      BY <1>0, <1>6, <2>3
      DEF OtherBase, Goto, CallInv, NamedInv, AloneInv, BudgetInv, Knows, Following, CallType, At,
          client, platform
    <2> QED
      BY <2>1, <2>2, <2>3, <2>4 DEF CallInv
  <1>7. CASE SameBase(c) /\ call[c].status # 421
    <2>1. NamedInv(c)' /\ BudgetInv(c)'
      BY <1>0, <1>7
      DEF SameBase, AfterToken, CallInv, NamedInv, BudgetInv, Paid, One, Following, CallType, At
    <2>2. ReplayInv(c)'
      BY <1>0, <1>7 DEF SameBase, AfterToken, CallInv, ReplayInv, One, CallType, At
    <2>3. \A d \in Caller \ {c} : call'[d] = call[d]
      BY <1>0, <1>7 DEF SameBase, AfterToken, CallType
    <2>4. AloneInv(c)'
      BY <1>0, <1>7, <2>3
      DEF SameBase, AfterToken, CallInv, NamedInv, AloneInv, BudgetInv, Knows, Following, CallType, At,
          client, platform
    <2> QED
      BY <2>1, <2>2, <2>3, <2>4 DEF CallInv
  <1>8. CASE Rebase(c)
    <2>1. NamedInv(c)' /\ BudgetInv(c)'
      BY <1>0, <1>8
      DEF Rebase, AfterToken, CallInv, NamedInv, BudgetInv, Paid, One, Following, CallType, At
    <2>2. ReplayInv(c)'
      BY <1>0, <1>8 DEF Rebase, AfterToken, CallInv, ReplayInv, One, CallType, At
    <2>3. \A d \in Caller \ {c} : call'[d] = call[d]
      BY <1>0, <1>8 DEF Rebase, AfterToken, CallType
    <2>4. AloneInv(c)'
      BY <1>0, <1>8, <2>3
      DEF Rebase, AfterToken, CallInv, NamedInv, AloneInv, BudgetInv, Knows, Following, CallType, At,
          client, platform
    <2> QED
      BY <2>1, <2>2, <2>3, <2>4 DEF CallInv
  <1>9. CASE ResolveURL(c)
    <2>1. NamedInv(c)' /\ BudgetInv(c)'
      BY <1>0, <1>9
      DEF ResolveURL, CallInv, NamedInv, BudgetInv, Paid, One, Following, CallType, At
    <2>2. ReplayInv(c)'
      BY <1>0, <1>9 DEF ResolveURL, CallInv, ReplayInv, One, CallType, At
    <2>3. \A d \in Caller \ {c} : call'[d] = call[d]
      BY <1>0, <1>9 DEF ResolveURL, CallType
    <2>4. AloneInv(c)'
      BY <1>0, <1>9, <2>3
      DEF ResolveURL, CallInv, NamedInv, AloneInv, BudgetInv, Knows, Following, CallType, At,
          client, platform
    <2> QED
      BY <2>1, <2>2, <2>3, <2>4 DEF CallInv
  <1>10. CASE Refresh401(c)
    <2>1. NamedInv(c)' /\ BudgetInv(c)'
      BY <1>0, <1>10
      DEF Refresh401, CallInv, NamedInv, BudgetInv, Paid, One, Following, CallType, At
    <2>2. ReplayInv(c)'
      BY <1>0, <1>10 DEF Refresh401, CallInv, ReplayInv, One, CallType, At
    <2>3. \A d \in Caller \ {c} : call'[d] = call[d]
      BY <1>0, <1>10 DEF Refresh401, CallType
    <2>4. AloneInv(c)'
      BY <1>0, <1>10, <2>3
      DEF Refresh401, CallInv, NamedInv, AloneInv, BudgetInv, Knows, Following, CallType, At,
          client, platform
    <2> QED
      BY <2>1, <2>2, <2>3, <2>4 DEF CallInv
  <1>11. CASE Follow421(c)
    <2>1. NamedInv(c)' /\ BudgetInv(c)'
      BY <1>0, <1>11
      DEF Follow421, Goto, CallInv, NamedInv, BudgetInv, Paid, One, Following, CallType, At
    <2>2. ReplayInv(c)'
      BY <1>0, <1>11 DEF Follow421, Goto, CallInv, ReplayInv, One, CallType, At
    <2>3. \A d \in Caller \ {c} : call'[d] = call[d]
      BY <1>0, <1>11 DEF Follow421, Goto, CallType
    <2>4. AloneInv(c)'
      BY <1>0, <1>11, <2>3
      DEF Follow421, Goto, CallInv, NamedInv, AloneInv, BudgetInv, Knows, Following, CallType, At,
          client, platform
    <2> QED
      BY <2>1, <2>2, <2>3, <2>4 DEF CallInv
  <1>12. CASE Backoff429(c)
    <2>1. NamedInv(c)' /\ BudgetInv(c)'
      BY <1>0, <1>12
      DEF Backoff429, CallInv, NamedInv, BudgetInv, Paid, One, Following, CallType, At
    <2>2. ReplayInv(c)'
      BY <1>0, <1>12 DEF Backoff429, CallInv, ReplayInv, One, CallType, At
    <2>3. \A d \in Caller \ {c} : call'[d] = call[d]
      BY <1>0, <1>12 DEF Backoff429, CallType
    <2>4. AloneInv(c)'
      BY <1>0, <1>12, <2>3
      DEF Backoff429, CallInv, NamedInv, AloneInv, BudgetInv, Knows, Following, CallType, At,
          client, platform
    <2> QED
      BY <2>1, <2>2, <2>3, <2>4 DEF CallInv
  <1>13. CASE Serve(c)
    <2>1. NamedInv(c)' /\ BudgetInv(c)'
      BY <1>0, <1>13
      DEF Serve, Answer, CallInv, NamedInv, BudgetInv, Paid, One, Following, CallType, At
    <2>2. ReplayInv(c)'
      BY <1>0, <1>13 DEF Serve, Answer, CallInv, ReplayInv, One, CallType, At
    <2>3. \A d \in Caller \ {c} : call'[d] = call[d]
      BY <1>0, <1>13 DEF Serve, Answer, CallType
    <2>4. AloneInv(c)'
      BY <1>0, <1>13, <2>3
      DEF Serve, Answer, CallInv, NamedInv, AloneInv, BudgetInv, Knows, Following, CallType, At,
          client, platform
    <2> QED
      BY <2>1, <2>2, <2>3, <2>4 DEF CallInv
  <1>14. CASE Unauthorized(c)
    <2>1. NamedInv(c)' /\ BudgetInv(c)'
      BY <1>0, <1>14
      DEF Unauthorized, Answer, CallInv, NamedInv, BudgetInv, Paid, One, Following, CallType, At
    <2>2. ReplayInv(c)'
      BY <1>0, <1>14 DEF Unauthorized, Answer, CallInv, ReplayInv, One, CallType, At
    <2>3. \A d \in Caller \ {c} : call'[d] = call[d]
      BY <1>0, <1>14 DEF Unauthorized, Answer, CallType
    <2>4. AloneInv(c)'
      BY <1>0, <1>14, <2>3
      DEF Unauthorized, Answer, CallInv, NamedInv, AloneInv, BudgetInv, Knows, Following, CallType, At,
          client, platform
    <2> QED
      BY <2>1, <2>2, <2>3, <2>4 DEF CallInv
  <1>15. CASE Misdirected(c)
    <2>1. NamedInv(c)' /\ BudgetInv(c)'
      BY <1>0, <1>15
      DEF Misdirected, Answer, CallInv, NamedInv, BudgetInv, Paid, One, Following, CallType, At
    <2>2. ReplayInv(c)'
      BY <1>0, <1>15 DEF Misdirected, Answer, CallInv, ReplayInv, One, CallType, At
    <2>3. \A d \in Caller \ {c} : call'[d] = call[d]
      BY <1>0, <1>15 DEF Misdirected, Answer, CallType
    <2>4. AloneInv(c)'
      BY <1>0, <1>15, <2>3
      DEF Misdirected, Answer, CallInv, NamedInv, AloneInv, BudgetInv, Knows, Following, CallType, At,
          client, platform
    <2> QED
      BY <2>1, <2>2, <2>3, <2>4 DEF CallInv
  <1>16. CASE Limit(c)
    <2>1. NamedInv(c)' /\ BudgetInv(c)'
      BY <1>0, <1>16
      DEF Limit, Answer, CallInv, NamedInv, BudgetInv, Paid, One, Following, CallType, At
    <2>2. ReplayInv(c)'
      BY <1>0, <1>16 DEF Limit, Answer, CallInv, ReplayInv, One, CallType, At
    <2>3. \A d \in Caller \ {c} : call'[d] = call[d]
      BY <1>0, <1>16 DEF Limit, Answer, CallType
    <2>4. AloneInv(c)'
      BY <1>0, <1>16, <2>3
      DEF Limit, Answer, CallInv, NamedInv, AloneInv, BudgetInv, Knows, Following, CallType, At,
          client, platform
    <2> QED
      BY <2>1, <2>2, <2>3, <2>4 DEF CallInv
  <1>17. CASE Break(c)
    <2>1. NamedInv(c)' /\ BudgetInv(c)'
      BY <1>0, <1>17
      DEF Break, Answer, MayAct, CallInv, NamedInv, BudgetInv, Paid, One, Following, CallType, At
    <2>2. ReplayInv(c)'
      BY <1>0, <1>17 DEF Break, Answer, MayAct, CallInv, ReplayInv, One, CallType, At
    <2>3. \A d \in Caller \ {c} : call'[d] = call[d]
      BY <1>0, <1>17 DEF Break, Answer, MayAct, CallType
    <2>4. AloneInv(c)'
      BY <1>0, <1>17, <2>3
      DEF Break, Answer, MayAct, CallInv, NamedInv, AloneInv, BudgetInv, Knows, Following, CallType, At,
          client, platform
    <2> QED
      BY <2>1, <2>2, <2>3, <2>4 DEF CallInv
  <1>18. CASE Resend(c)
    <2>1. NamedInv(c)' /\ BudgetInv(c)'
      BY <1>0, <1>18
      DEF Resend, MayAct, CallInv, NamedInv, BudgetInv, Paid, One, Following, CallType, At
    <2>2. ReplayInv(c)'
      BY <1>0, <1>18 DEF Resend, MayAct, CallInv, ReplayInv, One, CallType, At
    <2>3. \A d \in Caller \ {c} : call'[d] = call[d]
      BY <1>0, <1>18 DEF Resend, MayAct, CallType
    <2>4. AloneInv(c)'
      BY <1>0, <1>18, <2>3
      DEF Resend, MayAct, CallInv, NamedInv, AloneInv, BudgetInv, Knows, Following, CallType, At,
          client, platform
    <2> QED
      BY <2>1, <2>2, <2>3, <2>4 DEF CallInv
  <1>19. CASE Mint(c) /\ Return(c, "token")
    BY <1>19, Returns
  <1>20. CASE SameBase(c) /\ call[c].status = 421
    <2>1. call[c].alone => call[c].named = NoBase
      BY <1>0, <1>20 DEF CallInv, AloneInv, Knows, Following, SameBase, At
    <2> QED
      BY <1>20, <2>1, Returns DEF SameBase
  <1>21. CASE GiveUp401(c)
    <2>1. ~ call[c].alone
      BY <1>0, <1>21 DEF CallInv, AloneInv, Knows, GiveUp401, At, CallType
    <2> QED
      BY <1>21, <2>1, Returns DEF GiveUp401
  <1>22. CASE Surface421(c)
    <2>1. ~ call[c].alone
      BY <1>0, <1>22 DEF CallInv, AloneInv, Knows, Surface421, At, CallType
    <2> QED
      BY <1>22, <2>1, Returns DEF Surface421
  <1>23. CASE Succeeds(c) \/ GiveUp429(c) \/ Surface(c)
    BY <1>23, Returns DEF Succeeds, GiveUp429, Surface
  <1> QED
    BY <1>1, <1>2, <1>3, <1>4, <1>5, <1>6, <1>7, <1>8, <1>9, <1>10, <1>11, <1>12, <1>13, <1>14, <1>15, <1>16, <1>17, <1>18, <1>19, <1>20, <1>21, <1>22, <1>23
    DEF Step, FetchToken, Platform, Handle

\* What is known of another request is not disturbed by a step: one that runs alone
\* has returned.
LEMMA OthersKeep ==
    ASSUME Inv, NEW c \in Caller, Step(c), NEW d \in Caller \ {c}, call'[d] = call[d]
    PROVE  CallInv(d)'
  <1>1. CallInv(d)
    BY DEF Inv
  <1>2. ~ At(c, "idle")
    BY DEF Step, FetchToken, Platform, Handle, TokenValid, ReadToken, TokenURL, Mint,
           KeepToken, SameBase, OtherBase, Rebase, ResolveURL, Serve, Unauthorized,
           Misdirected, Limit, Break, Resend, Succeeds, Refresh401, GiveUp401, Follow421,
           Surface421, Backoff429, GiveUp429, Surface, At
  <1>3. NamedInv(d)' /\ BudgetInv(d)' /\ ReplayInv(d)'
    BY <1>1 DEF CallInv, NamedInv, BudgetInv, ReplayInv, Paid, One, Following
  <1>4. call[d].alone => At(d, "idle")
    BY <1>1, <1>2 DEF CallInv, AloneInv, Knows
  <1>5. AloneInv(d)'
    BY <1>1, <1>4 DEF CallInv, AloneInv, Served, At
  <1> QED
    BY <1>3, <1>5 DEF CallInv

\* A request that is no longer alone keeps the rest.
LEMMA Disturbing ==
    ASSUME Inv, NEW d \in Caller, call'[d] = [call[d] EXCEPT !.alone = FALSE]
    PROVE  CallInv(d)'
  <1>1. CallInv(d) /\ call[d] \in CallType
    BY DEF Inv, TypeOK
  <1>2. /\ call'[d].pc = call[d].pc /\ call'[d].status = call[d].status
        /\ call'[d].named = call[d].named /\ call'[d].retries429 = call[d].retries429
        /\ call'[d].refreshed401 = call[d].refreshed401
        /\ call'[d].rebased421 = call[d].rebased421 /\ call'[d].sends = call[d].sends
        /\ call'[d].resends = call[d].resends /\ call'[d].served = call[d].served
        /\ call'[d].alone = FALSE
    BY <1>1 DEF CallType
  <1>3. NamedInv(d)' /\ BudgetInv(d)' /\ ReplayInv(d)' /\ AloneInv(d)'
    BY <1>1, <1>2
    DEF CallInv, NamedInv, BudgetInv, ReplayInv, AloneInv, Paid, One, Following
  <1> QED
    BY <1>3 DEF CallInv

\* Nothing is known yet.
LEMMA InitHolds == Init => Inv
  <1> SUFFICES ASSUME Init
               PROVE  Inv
    OBVIOUS
  <1>1. NoCall \in CallType
    BY DEF NoCall, CallType, Base, NoToken
  <1>2. TypeOK
    BY <1>1 DEF Init, TypeOK, Base, NoToken
  <1>3. ASSUME NEW c \in Caller
        PROVE  CallInv(c)
    <2>1. call[c] = NoCall
      BY DEF Init
    <2>2. NamedInv(c) /\ BudgetInv(c) /\ ReplayInv(c) /\ AloneInv(c)
      BY <2>1, RetryAssumption
      DEF NoCall, NamedInv, BudgetInv, ReplayInv, AloneInv, Paid, One, Following
    <2> QED
      BY <2>2 DEF CallInv
  <1> QED
    BY <1>2, <1>3 DEF Inv

\* A request that starts has sent nothing; the others are no longer alone.
LEMMA BeginKeeps ==
    ASSUME Inv, NEW c \in Caller, Begin(c)
    PROVE  Inv'
  <1> DEFINE k1 == [NoCall EXCEPT !.pc = "bearer"]
  <1> DEFINE k2 == [k1 EXCEPT !.alone = \A d \in Caller \ {c} : At(d, "idle")]
  <1>0. call \in [Caller -> CallType]
    BY DEF Inv, TypeOK
  <1>1. k2 \in CallType
    <2>1. NoCall \in CallType
      BY DEF NoCall, CallType, Base, NoToken
    <2>2. k1 \in CallType
      BY <2>1, PcTyped
    <2> QED
      BY <2>2, AloneTyped
  <1>2. /\ call'[c] = k2
        /\ \A d \in Caller \ {c} : call'[d] = [call[d] EXCEPT !.alone = FALSE]
        /\ call' = [d \in Caller |-> call'[d]]
    BY <1>0 DEF Begin, Disturbed
  <1>3. ASSUME NEW d \in Caller \ {c}
        PROVE  call'[d] \in CallType
    <2>1. [call[d] EXCEPT !.alone = FALSE] \in CallType
      BY <1>0, AloneTyped
    <2>2. call'[d] = [call[d] EXCEPT !.alone = FALSE]
      BY <1>2
    <2> QED
      BY <2>1, <2>2
  <1>4. TypeOK'
    <2>1. call' \in [Caller -> CallType]
      <3> HIDE DEF k2
      <3> QED
        BY <1>1, <1>2, <1>3
    <2> QED
      BY <2>1 DEF Inv, TypeOK, Begin, client, platform
  <1>5. CallInv(c)'
    <2>1. /\ call'[c].pc = "bearer" /\ call'[c].status = 0 /\ call'[c].retries429 = 0
          /\ call'[c].sends = 0 /\ call'[c].served = 0 /\ call'[c].resends = 0
          /\ call'[c].refreshed401 = FALSE /\ call'[c].rebased421 = FALSE
          /\ call'[c].forced = FALSE /\ call'[c].result = "none"
          /\ call'[c].alone = (\A d \in Caller \ {c} : At(d, "idle"))
      BY <1>2 DEF NoCall
    <2>2. NamedInv(c)' /\ BudgetInv(c)' /\ ReplayInv(c)'
      BY <2>1, RetryAssumption DEF NamedInv, BudgetInv, ReplayInv, Paid, One, Following
    <2>3. ASSUME call'[c].alone
          PROVE  \A d \in Caller \ {c} : At(d, "idle")'
      BY <1>0, <1>2, <2>1, <2>3 DEF At, CallType
    <2>4. AloneInv(c)'
      BY <2>1, <2>3 DEF AloneInv, Knows, Following, At
    <2> QED
      BY <2>2, <2>4 DEF CallInv
  <1>6. ASSUME NEW d \in Caller \ {c}
        PROVE  CallInv(d)'
    BY <1>0, <1>2, <1>6, Disturbing
  <1> QED
    BY <1>4, <1>5, <1>6 DEF Inv

\* The company moves or its tokens are revoked: nobody runs alone any more.
LEMMA ChangeKeeps ==
    ASSUME Inv, Change
    PROVE  Inv'
  <1>0. call \in [Caller -> CallType] /\ epoch \in Nat
    BY DEF Inv, TypeOK
  <1>1. \A d \in Caller : call'[d] = [call[d] EXCEPT !.alone = FALSE]
    BY <1>0 DEF Change, Disturbed
  <1>2. \A d \in Caller : [call[d] EXCEPT !.alone = FALSE] \in CallType
    BY <1>0, AloneTyped
  <1>3. call' \in [Caller -> CallType]
    BY <1>2 DEF Change, Disturbed
  <1>4. TypeOK'
    BY <1>0, <1>3 DEF Inv, TypeOK, Change, client
  <1>5. \A d \in Caller : CallInv(d)'
    BY <1>0, <1>1, Disturbing
  <1> QED
    BY <1>4, <1>5 DEF Inv

\* The clock changes nothing that is known.
LEMMA ExpireKeeps ==
    ASSUME Inv, Expire
    PROVE  Inv'
  <1>1. TypeOK'
    BY DEF Inv, TypeOK, Expire, platform
  <1>2. ASSUME NEW c \in Caller
        PROVE  CallInv(c)'
    <2>1. CallInv(c)
      BY DEF Inv
    <2> QED
      BY <2>1
      DEF Expire, platform, CallInv, NamedInv, BudgetInv, ReplayInv, AloneInv, Knows, Served,
          Paid, One, Following, At
  <1> QED
    BY <1>1, <1>2 DEF Inv

\* Every step keeps the invariant.
LEMMA NextKeeps == Inv /\ [Next]_vars => Inv'
  <1> SUFFICES ASSUME Inv, [Next]_vars
               PROVE  Inv'
    OBVIOUS
  <1>1. ASSUME NEW c \in Caller, Step(c)
        PROVE  Inv'
    <2>1. TypeOK'
      BY <1>1, TypeKeeps
    <2>2. CallInv(c)' /\ \A d \in Caller \ {c} : call'[d] = call[d]
      BY <1>1, OwnKeeps
    <2>3. \A d \in Caller \ {c} : CallInv(d)'
      BY <1>1, <2>2, OthersKeep
    <2> QED
      BY <2>1, <2>2, <2>3 DEF Inv
  <1>2. CASE UNCHANGED vars
    BY <1>2
    DEF vars, platform, client, Inv, TypeOK, CallInv, NamedInv, BudgetInv, ReplayInv, AloneInv,
        Knows, Served, Paid, One, Following, At
  <1> QED
    BY <1>1, <1>2, BeginKeeps, ChangeKeeps, ExpireKeeps DEF Next

\* In every run, every request has paid for its attempts, and one that runs alone knows
\* what it needs: the inductive invariant behind the three properties of the run.
THEOREM RequestsInvariant == Spec => []Inv
  <1> QED
    BY InitHolds, NextKeeps, PTL DEF Spec

-----------------------------------------------------------------------------
(* The properties.                                                          *)

\* SendBudget, for any budget of backoffs and any number of requests at once: doRequest
\* never sends more than its first attempt, a refresh, a rebase and the budget.
THEOREM BudgetHolds == Spec => []SendBudget
  <1>1. Inv => SendBudget
    <2> SUFFICES ASSUME Inv, NEW c \in Caller
                 PROVE  call[c].sends <= 3 + maxRetries429
      BY DEF SendBudget
    <2>1. call[c].sends \in Nat /\ call[c].retries429 \in Nat
      BY DEF Inv, TypeOK, CallType
    <2>2. call[c].retries429 <= maxRetries429
      BY DEF Inv, CallInv, BudgetInv
    <2>3. call[c].sends <= Paid(c) + One(call[c].pc \in {"send", "answered"} \/ Following(c))
      BY DEF Inv, CallInv, BudgetInv
    <2> QED
      BY <2>1, <2>2, <2>3, RetryAssumption DEF Paid, One
  <1> QED
    BY <1>1, RequestsInvariant, PTL

\* ReplaysAreFirstDeliveries: the platform acts on a request again only after a
\* connection was closed under it.
THEOREM FirstDeliveries == Spec => []ReplaysAreFirstDeliveries
  <1>1. Inv => ReplaysAreFirstDeliveries
    <2> SUFFICES ASSUME Inv, NEW c \in Caller
                 PROVE  call[c].served <= 1 + call[c].resends
      BY DEF ReplaysAreFirstDeliveries
    <2>1. call[c].served \in Nat /\ call[c].resends \in Nat
      BY DEF Inv, TypeOK, CallType
    <2>2. ReplayInv(c)
      BY DEF Inv, CallInv
    <2> QED
      BY <2>1, <2>2 DEF ReplayInv, One
  <1> QED
    BY <1>1, RequestsInvariant, PTL

\* AloneIsServed: whatever token and base the requests before it left, one that runs
\* alone is not refused.
THEOREM Alone == Spec => []AloneIsServed
  <1>1. Inv => AloneIsServed
    <2> SUFFICES ASSUME Inv, NEW c \in Caller, call[c].alone
                 PROVE  Served(c)
      BY DEF AloneIsServed, Served
    <2>1. AloneInv(c)
      BY DEF Inv, CallInv
    <2> QED
      BY <2>1 DEF AloneInv, Knows, Served, At
  <1> QED
    BY <1>1, RequestsInvariant, PTL
=============================================================================
