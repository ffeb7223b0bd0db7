---------------------------- MODULE TypingProofs ----------------------------
(***************************************************************************)
(* Proofs about Typing: for a client that one goroutine uses at a time, a  *)
(* held catalog is covered by the registry, every absence is a verdict and *)
(* the refetches are bounded, for every set of slots and types.  With two  *)
(* goroutines that is false: both may make the first fetch, and the one    *)
(* that is stored last may be the older.                                   *)
(***************************************************************************)
EXTENDS Typing, TLAPS, FiniteSetTheorems

\* The types that a lookup does not ask for again.
Settled == registry.types \cup unresolvedTypes

Ensuring(c) == call[c].pc \in {"held", "load", "keep", "missing", "reload", "rekeep"}

\* What ensureTypesKnown holds at each of its steps.
EnsuringOK(c) ==
    /\ At(c, "load") \/ At(c, "keep") => ~ registry.held
    /\ call[c].pc \in {"missing", "reload", "rekeep", "publish", "registry"} => registry.held
    /\ At(c, "missing") => call[c].reg = registry
    /\ At(c, "keep") \/ At(c, "rekeep") =>
           call[c].reg.held /\ call[c].reg.types \subseteq rows
    /\ At(c, "rekeep") => /\ registry.types \subseteq call[c].reg.types
                          /\ call[c].want \ call[c].reg.types \subseteq denied.types
    /\ call[c].after # "validate"
    /\ call[c].pc \in {"look", "catalog", "named"} => call[c].after = "idle"
    /\ ~ At(c, "idle") => call[c].result = ""

\* The types of the catalog in hand are asked for, and settled when it is published or used.
BodyOK(c) ==
    /\ Ensuring(c) /\ call[c].after # "idle" =>
           TypesOf(call[c].body) \subseteq
               IF At(c, "reload") \/ At(c, "rekeep") THEN call[c].want \cup Settled
               ELSE call[c].want
    /\ At(c, "publish") \/ At(c, "registry") => TypesOf(call[c].body) \subseteq Settled
    /\ At(c, "validate") => TypesOf(call[c].body) \subseteq call[c].reg.types \cup unresolvedTypes

\* A refetch made for a slot brings it or denies it; CustomerClient makes none.
AskedOK(c) ==
    /\ call[c].asked \/ At(c, "named") => call[c].op = "value"
    /\ call[c].op = "value" => kind = "service"
    /\ call[c].asked =>
        /\ (Ensuring(c) \/ At(c, "publish")) /\ call[c].slug \notin call[c].body
               => call[c].slug \in denied.slugs
        /\ At(c, "look") \/ At(c, "named")
               => catalog.held /\ (call[c].slug \notin catalog.slugs => call[c].slug \in denied.slugs)

\* A value of Client is typed only for a slot that the catalog in hand carries.
ValueOK(c) ==
    kind = "service" =>
        /\ call[c].op # "answer"
        /\ call[c].pc \in {"look", "catalog", "named", "publish"} \/ call[c].after = "publish"
               => call[c].op # "flow"
        /\ call[c].pc \in {"registry", "validate"} \/ call[c].after = "registry"
               => call[c].slug \in call[c].body
        /\ At(c, "named") => catalog.held

IInv ==
    /\ TypeOK
    /\ RegistryCoversCatalog
    /\ AbsenceIsAVerdict
    /\ registry.held => registry.types \subseteq rows
    /\ \A c \in Caller : EnsuringOK(c) /\ BodyOK(c) /\ AskedOK(c) /\ ValueOK(c)

-----------------------------------------------------------------------------
(* Type correctness, for any number of goroutines.                          *)

\* The types of a set of slots are types.
LEMMA TypesOfType ==
    ASSUME NEW S \in SUBSET Slug
    PROVE  TypesOf(S) \subseteq Type
  BY TypeOfAssumption DEF TypesOf

\* A call that begins, or that is over, is well typed.
LEMMA BegunType ==
    ASSUME NEW p \in {"look", "idle"}, NEW o \in {"prepare", "value", "answer"}, NEW s \in Slug
    PROVE  Begun(p, o, s) \in CallType
  BY DEF Begun, CallType, NoRegistry, Registry

\* So is the call for a flow answer.
LEMMA FlowType ==
    ASSUME NEW s \in Slug
    PROVE  [Begun("held", "flow", s) EXCEPT
               !.body = {s}, !.want = {TypeOf[s]}, !.after = "registry"] \in CallType
  BY TypeOfAssumption DEF Begun, CallType, NoRegistry, Registry

\* A call that ended with a result is well typed.
LEMMA EndedType ==
    ASSUME NEW s \in Slug, NEW r \in {"", "ready", "typed", "untyped", "unknown", "error"}
    PROVE  Ended(s, r) \in CallType
  BY DEF Ended, Begun, CallType, NoRegistry, Registry

\* A step that ends a call keeps the calls well typed.
LEMMA FinishType ==
    ASSUME TypeOK, NEW c \in Caller,
           NEW r \in {"", "ready", "typed", "untyped", "unknown", "error"}, Finish(c, r)
    PROVE  call' \in [Caller -> CallType]
  <1>1. call[c].slug \in Slug
    BY DEF TypeOK, CallType
  <1>2. Ended(call[c].slug, r) \in CallType
    BY <1>1, EndedType
  <1>. QED BY <1>2 DEF Finish, TypeOK

\* A call that only moves on stays well typed.
LEMMA MoveType ==
    ASSUME NEW k \in CallType,
           NEW p \in {"idle", "look", "catalog", "held", "load", "keep", "missing", "reload",
                      "rekeep", "publish", "named", "registry", "validate"}
    PROVE  [k EXCEPT !.pc = p] \in CallType
  BY DEF CallType

\* So does one that is asked for other types,
LEMMA WantType ==
    ASSUME NEW k \in CallType, NEW p \in {"held", "reload"}, NEW W \in SUBSET Type
    PROVE  [k EXCEPT !.pc = p, !.want = W] \in CallType
  BY DEF CallType

\* one that takes a catalog in hand,
LEMMA BodyType ==
    ASSUME NEW k \in CallType, NEW S \in SUBSET Slug
    PROVE  [k EXCEPT !.pc = "registry", !.body = S] \in CallType
  BY DEF CallType

\* and one that takes a registry in hand.
LEMMA RegType ==
    ASSUME NEW k \in CallType, NEW p \in {"missing", "keep", "rekeep", "validate"},
           NEW r \in Registry
    PROVE  [k EXCEPT !.pc = p, !.reg = r] \in CallType
  BY DEF CallType

\* The fields of a call that a step reads.
LEMMA CallFields ==
    ASSUME NEW k \in CallType
    PROVE  /\ k.slug \in Slug /\ TypeOf[k.slug] \in Type /\ k.want \subseteq Type
           /\ k.body \subseteq Slug /\ k.reg \in Registry /\ k.reg.id \in Nat
           /\ k.reg.types \subseteq Type
  BY TypeOfAssumption DEF CallType, Registry

\* The first state is well typed.
LEMMA TypeInit == Init => TypeOK
  <1>. SUFFICES ASSUME Init PROVE TypeOK
    OBVIOUS
  <1>1. call \in [Caller -> CallType]
    BY EndedType DEF Init
  <1>2. catalog \in Catalog /\ registry \in Registry
    BY DEF Init, Catalog, NoCatalog, Registry, NoRegistry
  <1>3. denied \in [slugs : SUBSET Slug, types : SUBSET Type]
    BY DEF Init
  <1>. QED BY <1>1, <1>2, <1>3, FirstAssumption DEF Init, TypeOK

\* Every step keeps the state well typed, one case per action.
LEMMA TypeNext == TypeOK /\ [Next]_vars => TypeOK'
  <1>. SUFFICES ASSUME TypeOK, [Next]_vars PROVE TypeOK'
    OBVIOUS
  <1>0. /\ catalog.slugs \in SUBSET Slug /\ TypesOf(catalog.slugs) \in SUBSET Type
        /\ denied.slugs \subseteq Slug /\ denied.types \subseteq Type
    BY TypesOfType DEF TypeOK, Catalog
  <1>1. ASSUME NEW s \in Slug, AddSlot(s) PROVE TypeOK'
    BY <1>1 DEF AddSlot, cache, TypeOK
  <1>2. ASSUME NEW t \in Type, AddType(t) PROVE TypeOK'
    BY <1>2 DEF AddType, cache, TypeOK
  <1>3. ASSUME NEW c \in Caller, NEW k, call' = [call EXCEPT ![c] = k], k \in CallType
        PROVE  call' \in [Caller -> CallType]
    BY <1>3 DEF TypeOK
  <1>4. ASSUME NEW c \in Caller PROVE call[c] \in CallType
    BY DEF TypeOK
  <1>5. ASSUME NEW c \in Caller, Begin(c) PROVE TypeOK'
    <2>1. PICK s \in Slug : Prepare(c, s) \/ TypeValue(c, s) \/ FlowAnswer(c, s)
                              \/ EncryptTyped(c, s)
      BY <1>5 DEF Begin
    <2>2. call' \in [Caller -> CallType]
      BY <1>3, <2>1, BegunType, FlowType
      DEF Prepare, TypeValue, FlowAnswer, EncryptTyped
    <2>. QED BY <2>1, <2>2
      DEF Prepare, TypeValue, FlowAnswer, EncryptTyped, platform, cache, TypeOK
  <1>6. ASSUME NEW c \in Caller, Look(c) PROVE TypeOK'
    <2>1. \/ call' = [call EXCEPT ![c] = [call[c] EXCEPT !.pc = "catalog"]]
          \/ call' = [call EXCEPT ![c] = [call[c] EXCEPT !.pc = "named"]]
          \/ call' = [call EXCEPT ![c] = [call[c] EXCEPT !.pc = "held",
                                                        !.want = TypesOf(catalog.slugs)]]
          \/ call' = [call EXCEPT ![c] = [call[c] EXCEPT !.pc = "registry",
                                                        !.body = catalog.slugs]]
      BY <1>6 DEF Look
    <2>2. call' \in [Caller -> CallType]
      BY <1>0, <1>3, <1>4, <2>1, MoveType, WantType, BodyType
    <2>. QED BY <1>6, <2>2 DEF Look, platform, cache, TypeOK
  <1>7. ASSUME NEW c \in Caller, NEW S \in SUBSET Slug, TypeCatalog(c, S)
        PROVE  call' \in [Caller -> CallType]
    <2>1. ASSUME NEW k \in CallType
          PROVE  [k EXCEPT !.pc = "held", !.body = S, !.want = TypesOf(S), !.after = "publish"]
                     \in CallType
      BY <2>1, TypesOfType DEF CallType
    <2>. QED BY <1>3, <1>4, <1>7, <2>1 DEF TypeCatalog
  <1>8. ASSUME NEW c \in Caller, CatalogArrives(c) PROVE TypeOK'
    <2>1. call' \in [Caller -> CallType]
      BY <1>7, <1>8 DEF CatalogArrives, TypeOK
    <2>2. denied' \in [slugs : SUBSET Slug, types : SUBSET Type]
      BY <1>0, <1>4, <1>8, CallFields DEF CatalogArrives, TypeOK
    <2>. QED BY <1>8, <2>1, <2>2 DEF CatalogArrives, platform, cache, TypeOK
  <1>9. ASSUME NEW c \in Caller, CatalogFails(c) PROVE TypeOK'
    <2>1. call' \in [Caller -> CallType]
      BY <1>7, <1>9, FinishType DEF CatalogFails
    <2>. QED BY <1>9, <2>1 DEF CatalogFails, platform, cache, TypeOK
  <1>10. ASSUME NEW c \in Caller, Publish(c) PROVE TypeOK'
    <2>1. ASSUME NEW k \in CallType, NEW p \in {"look", "registry"}
          PROVE  [k EXCEPT !.pc = p, !.want = {}, !.after = "idle"] \in CallType
      BY DEF CallType
    <2>2. call' \in [Caller -> CallType]
      BY <1>3, <1>4, <1>10, <2>1 DEF Publish
    <2>3. catalog' \in Catalog
      BY <1>4, <1>10, CallFields DEF Publish, Catalog
    <2>. QED BY <1>10, <2>2, <2>3 DEF Publish, platform, TypeOK
  <1>11. ASSUME NEW c \in Caller, ReadHeld(c) PROVE TypeOK'
    <2>1. call' \in [Caller -> CallType]
      BY <1>3, <1>4, <1>11, MoveType, RegType DEF ReadHeld, TypeOK
    <2>. QED BY <1>11, <2>1 DEF ReadHeld, platform, cache, TypeOK
  <1>12. ASSUME NEW c \in Caller, RowsArrive(c) PROVE TypeOK'
    <2>1. [held |-> TRUE, id |-> loads + 1, types |-> rows] \in Registry
      BY DEF Registry, TypeOK
    <2>2. call' \in [Caller -> CallType]
      BY <1>3, <1>4, <1>12, <2>1, RegType DEF RowsArrive
    <2>3. denied' \in [slugs : SUBSET Slug, types : SUBSET Type]
      BY <1>0, <1>4, <1>12, CallFields DEF RowsArrive, TypeOK
    <2>4. loads' \in Nat
      BY <1>12 DEF RowsArrive, TypeOK
    <2>5. failed' \in BOOLEAN
      BY <1>12 DEF RowsArrive
    <2>6. UNCHANGED <<kind, slots, rows, catalog, registry, unresolvedSlugs,
                      unresolvedTypes, resolved>>
      BY <1>12 DEF RowsArrive, platform
    <2>. QED BY <2>2, <2>3, <2>4, <2>5, <2>6 DEF TypeOK
  <1>13. ASSUME NEW c \in Caller, RowsFail(c) PROVE TypeOK'
    <2>1. call' \in [Caller -> CallType]
      BY <1>13, FinishType DEF RowsFail
    <2>. QED BY <1>13, <2>1 DEF RowsFail, platform, TypeOK
  <1>14. ASSUME NEW c \in Caller, Keep(c) PROVE TypeOK'
    <2>1. call' \in [Caller -> CallType]
      BY <1>3, <1>4, <1>14, MoveType DEF Keep
    <2>2. registry' \in Registry
      BY <1>4, <1>14, CallFields DEF Keep
    <2>. QED BY <1>14, <2>1, <2>2 DEF Keep, platform, TypeOK
  <1>15. ASSUME NEW c \in Caller, Known(c) PROVE call' \in [Caller -> CallType]
    <2>1. CASE call[c].after = "idle"
      BY <1>15, <2>1, FinishType DEF Known
    <2>2. CASE call[c].after # "idle"
      <3>1. call[c].after \in {"publish", "registry", "validate", "idle"}
        BY <1>4 DEF CallType
      <3>. QED BY <1>3, <1>4, <1>15, <2>2, <3>1, MoveType DEF Known
    <2>. QED BY <2>1, <2>2
  <1>16. ASSUME NEW c \in Caller, CheckMissing(c) PROVE TypeOK'
    <2>1. ((call[c].want \ call[c].reg.types) \ unresolvedTypes) \in SUBSET Type
      BY <1>4, CallFields
    <2>2. call' \in [Caller -> CallType]
      BY <1>3, <1>4, <1>15, <1>16, <2>1, WantType DEF CheckMissing
    <2>. QED BY <1>16, <2>2 DEF CheckMissing, platform, cache, TypeOK
  <1>17. ASSUME NEW c \in Caller, Rekeep(c) PROVE TypeOK'
    <2>1. call' \in [Caller -> CallType]
      BY <1>15, <1>17 DEF Rekeep
    <2>2. call[c].reg \in Registry /\ call[c].want \subseteq Type
      BY <1>4, CallFields
    <2>. QED BY <1>17, <2>1, <2>2 DEF Rekeep, platform, TypeOK
  <1>18. ASSUME NEW c \in Caller, TypeForSlug(c) PROVE TypeOK'
    <2>1. call[c].slug \in Slug
      BY <1>4, CallFields
    <2>2. ASSUME NEW k \in CallType
          PROVE  [k EXCEPT !.pc = "catalog", !.asked = TRUE] \in CallType
      BY DEF CallType
    <2>3. call' \in [Caller -> CallType]
      BY <1>0, <1>3, <1>4, <1>18, <2>2, BodyType, FinishType DEF TypeForSlug
    <2>. QED BY <1>18, <2>1, <2>3 DEF TypeForSlug, platform, TypeOK
  <1>19. ASSUME NEW c \in Caller, ReadRegistry(c) PROVE TypeOK'
    <2>1. ASSUME NEW k \in CallType
          PROVE  [k EXCEPT !.pc = "load", !.after = "validate"] \in CallType
      BY DEF CallType
    <2>2. call' \in [Caller -> CallType]
      BY <1>3, <1>4, <1>19, <2>1, RegType, FinishType DEF ReadRegistry, TypeOK
    <2>. QED BY <1>19, <2>2 DEF ReadRegistry, platform, cache, TypeOK
  <1>20. ASSUME NEW c \in Caller, Validate(c) PROVE TypeOK'
    <2>1. call' \in [Caller -> CallType]
      BY <1>20, FinishType DEF Validate
    <2>. QED BY <1>4, <1>20, <2>1, CallFields DEF Validate, platform, TypeOK
  <1>21. CASE UNCHANGED vars
    BY <1>21 DEF vars, platform, cache, TypeOK
  <1>. QED BY <1>1, <1>2, <1>5, <1>6, <1>8, <1>9, <1>10, <1>11, <1>12, <1>13, <1>14, <1>16, <1>17,
              <1>18, <1>19, <1>20, <1>21
       DEF Next, LearnCatalog, LearnTypes

\* Type correctness: every reachable state is well typed.
THEOREM TypeCorrect == Spec => []TypeOK
  BY TypeInit, TypeNext, PTL DEF Spec
-----------------------------------------------------------------------------
(* Coverage and absence, for one goroutine at a time.                       *)

Single == \A c, d \in Caller : c = d

Verdict(c) ==
    /\ call[c].result = "untyped" /\ kind = "service" => call[c].slug \in denied.slugs
    /\ call[c].result = "unknown" => TypeOf[call[c].slug] \in denied.types

CallOK(c) == EnsuringOK(c) /\ BodyOK(c) /\ AskedOK(c) /\ ValueOK(c) /\ Verdict(c)

Shared ==
    /\ RegistryCoversCatalog
    /\ unresolvedSlugs \subseteq denied.slugs
    /\ unresolvedTypes \subseteq denied.types
    /\ registry.held => registry.types \subseteq rows

\* The invariant, and what is left to show of a step of the only goroutine.
LEMMA IInvParts == IInv <=> TypeOK /\ Shared /\ \A c \in Caller : CallOK(c)
  BY DEF IInv, Shared, CallOK, Verdict, AbsenceIsAVerdict

\* A call without business: what an ended call, whatever its result, has to show.
LEMMA EndedOK ==
    ASSUME TypeOK', Shared', NEW c \in Caller, NEW s \in Slug,
           NEW r \in {"", "ready", "typed", "untyped", "unknown", "error"},
           call'[c] = Ended(s, r),
           r = "untyped" /\ kind' = "service" => s \in denied'.slugs,
           r = "unknown" => TypeOf[s] \in denied'.types
    PROVE  CallOK(c)'
  <1>1. /\ call'[c].pc = "idle" /\ call'[c].op = "prepare" /\ call'[c].slug = s
        /\ call'[c].after = "idle" /\ call'[c].asked = FALSE /\ call'[c].result = r
    BY DEF Ended, Begun
  <1>. QED BY <1>1
    DEF CallOK, EnsuringOK, Ensuring, BodyOK, AskedOK, ValueOK, Verdict, At

\* The invariant holds at first: nothing is held and nothing was asked.
LEMMA InvInit == Init => IInv
  <1>. SUFFICES ASSUME Init PROVE IInv
    OBVIOUS
  <1>1. TypeOK
    BY TypeInit
  <1>2. Shared
    BY DEF Init, Shared, RegistryCoversCatalog, NoCatalog, NoRegistry
  <1>3. ASSUME NEW c \in Caller PROVE CallOK(c)
    <2>1. PICK s \in Slug : call = [d \in Caller |-> Ended(s, "")]
      BY DEF Init
    <2>2. /\ call[c].pc = "idle" /\ call[c].op = "prepare" /\ call[c].slug = s
          /\ call[c].after = "idle" /\ call[c].asked = FALSE /\ call[c].result = ""
      BY <2>1 DEF Ended, Begun
    <2>. QED BY <2>2 DEF CallOK, EnsuringOK, Ensuring, BodyOK, AskedOK, ValueOK, Verdict, At
  <1>. QED BY <1>1, <1>2, <1>3, IInvParts

\* The platform only adds: what is held stays covered.
LEMMA PlatformStep ==
    ASSUME IInv, TypeOK', rows \subseteq rows',
           UNCHANGED <<kind, cache, call, denied>>
    PROVE  IInv'
  <1>1. Shared'
    BY IInvParts DEF Shared, RegistryCoversCatalog, cache
  <1>2. ASSUME NEW c \in Caller PROVE CallOK(c)'
    <2>1. CallOK(c)
      BY IInvParts
    <2>2. EnsuringOK(c)'
      BY <2>1 DEF CallOK, EnsuringOK, At, cache
    <2>3. BodyOK(c)' /\ AskedOK(c)'
      BY <2>1 DEF CallOK, BodyOK, Ensuring, Settled, AskedOK, At, cache
    <2>4. ValueOK(c)' /\ Verdict(c)'
      BY <2>1 DEF CallOK, ValueOK, Verdict, At, cache
    <2>. QED BY <2>2, <2>3, <2>4 DEF CallOK
  <1>. QED
    <2>1. Shared' /\ \A c \in Caller : CallOK(c)'
      BY <1>1, <1>2
    <2>. QED BY <2>1 DEF IInv, Shared, CallOK, Verdict, AbsenceIsAVerdict

\* With one goroutine, a step has to be checked for the call it is a step of.
LEMMA OneCall ==
    ASSUME Single, NEW c \in Caller, TypeOK', Shared', CallOK(c)'
    PROVE  IInv'
  <1>1. \A d \in Caller : CallOK(d)'
    BY DEF Single
  <1>. QED BY <1>1 DEF IInv, Shared, CallOK, Verdict, AbsenceIsAVerdict

\* A call that ends, with no absence that was not denied, keeps the invariant.
LEMMA Finished ==
    ASSUME Single, TypeOK, TypeOK', Shared', NEW c \in Caller,
           NEW r \in {"", "ready", "typed", "untyped", "unknown", "error"}, Finish(c, r),
           r = "untyped" /\ kind' = "service" => call[c].slug \in denied'.slugs,
           r = "unknown" => TypeOf[call[c].slug] \in denied'.types
    PROVE  IInv'
  <1>1. call'[c] = Ended(call[c].slug, r) /\ call[c].slug \in Slug
    BY CallFields DEF Finish, TypeOK
  <1>2. CallOK(c)'
    BY <1>1, EndedOK
  <1>. QED BY <1>2, OneCall

\* The fields that a step leaves alone.
Same(c) ==
    /\ call'[c].op = call[c].op /\ call'[c].slug = call[c].slug
    /\ call'[c].asked = call[c].asked /\ call'[c].result = call[c].result

\* The call that a step starts from.
LEMMA Focus ==
    ASSUME IInv, NEW c \in Caller
    PROVE  TypeOK /\ Shared /\ CallOK(c) /\ call[c] \in CallType
  BY IInvParts DEF TypeOK

\* A call that begins with the held catalog keeps the invariant.
LEMMA BegunOK ==
    ASSUME Single, TypeOK, TypeOK', Shared', NEW c \in Caller, NEW s \in Slug,
           NEW o \in {"prepare", "value", "answer"},
           call' = [call EXCEPT ![c] = Begun("look", o, s)],
           kind' = IF o = "answer" THEN "customer" ELSE "service"
    PROVE  IInv'
  <1>1. /\ call'[c].pc = "look" /\ call'[c].op = o /\ call'[c].after = "idle"
        /\ call'[c].asked = FALSE /\ call'[c].result = ""
    BY DEF Begun, TypeOK
  <1>2. CallOK(c)'
    BY <1>1 DEF CallOK, EnsuringOK, Ensuring, BodyOK, AskedOK, ValueOK, Verdict, At
  <1>. QED BY <1>2, OneCall

\* The calls.
LEMMA BeginStep ==
    ASSUME Single, IInv, TypeOK', NEW c \in Caller, Begin(c)
    PROVE  IInv'
  <1>1. PICK s \in Slug : Prepare(c, s) \/ TypeValue(c, s) \/ FlowAnswer(c, s)
                              \/ EncryptTyped(c, s)
    BY DEF Begin
  <1>2. Shared' /\ UNCHANGED <<kind, platform, cache, denied>>
    BY <1>1, Focus
    DEF Prepare, TypeValue, FlowAnswer, EncryptTyped, Shared, RegistryCoversCatalog,
        cache, platform
  <1>3. CASE FlowAnswer(c, s)
    <2>1. /\ call'[c].pc = "held" /\ call'[c].op = "flow" /\ call'[c].slug = s
          /\ call'[c].want = {TypeOf[s]} /\ call'[c].after = "registry"
          /\ call'[c].body = {s} /\ call'[c].asked = FALSE /\ call'[c].result = ""
      BY <1>3, Focus DEF FlowAnswer, Begun, TypeOK
    <2>2. kind' = "service"
      BY <1>3 DEF FlowAnswer
    <2>3. CallOK(c)'
      BY <2>1, <2>2
      DEF CallOK, EnsuringOK, Ensuring, BodyOK, AskedOK, ValueOK, Verdict, At, TypesOf
    <2>. QED BY <1>2, <2>3, OneCall
  <1>4. TypeOK /\ s \in Slug /\ kind' = kind
    BY <1>2, Focus
  <1>5. CASE Prepare(c, s)
    <2>1. call' = [call EXCEPT ![c] = Begun("look", "prepare", s)] /\ kind = "service"
      BY <1>5 DEF Prepare
    <2>. QED BY <1>2, <1>4, <2>1, BegunOK
  <1>6. CASE TypeValue(c, s)
    <2>1. call' = [call EXCEPT ![c] = Begun("look", "value", s)] /\ kind = "service"
      BY <1>6 DEF TypeValue
    <2>. QED BY <1>2, <1>4, <2>1, BegunOK
  <1>7. CASE EncryptTyped(c, s)
    <2>1. call' = [call EXCEPT ![c] = Begun("look", "answer", s)] /\ kind = "customer"
      BY <1>7 DEF EncryptTyped
    <2>. QED BY <1>2, <1>4, <2>1, BegunOK
  <1>. QED BY <1>1, <1>3, <1>5, <1>6, <1>7

\* Reading the held catalog.
LEMMA LookStep ==
    ASSUME Single, IInv, TypeOK', NEW c \in Caller, Look(c)
    PROVE  IInv'
  <1>1. /\ TypeOK /\ Shared /\ CallOK(c) /\ call[c] \in CallType /\ call[c].pc = "look"
        /\ UNCHANGED <<kind, catalog, registry, unresolvedSlugs, unresolvedTypes, rows, denied>>
    BY Focus DEF Look, At, cache, platform
  <1>2. Shared'
    BY <1>1 DEF Shared, RegistryCoversCatalog
  <1>3. CASE ~ catalog.held
    <2>1. Same(c) /\ call'[c].pc = "catalog" /\ call'[c].after = call[c].after
      BY <1>1, <1>3 DEF Look, Same, TypeOK, CallType
    <2>2. CallOK(c)'
      <3>1. EnsuringOK(c)'
        BY <1>1, <2>1
        DEF CallOK, EnsuringOK, At, Same, Shared, RegistryCoversCatalog
      <3>2. BodyOK(c)'
        BY <1>1, <2>1
        DEF CallOK, EnsuringOK, BodyOK, Ensuring, Settled, At, Same
      <3>3. AskedOK(c)'
        BY <1>1, <2>1
        DEF CallOK, AskedOK, EnsuringOK, ValueOK, Ensuring, At, Same
      <3>4. ValueOK(c)'
        BY <1>1, <2>1
        DEF CallOK, ValueOK, EnsuringOK, AskedOK, At, Same
      <3>5. Verdict(c)'
        BY <1>1, <2>1
        DEF CallOK, Verdict, At, Same
      <3>. QED BY <3>1, <3>2, <3>3, <3>4, <3>5 DEF CallOK
    <2>. QED BY <1>2, <2>2, OneCall
  <1>4. CASE catalog.held /\ call[c].op = "prepare"
    <2>1. Same(c) /\ call'[c].pc = "held" /\ call'[c].after = call[c].after
          /\ call'[c].want = TypesOf(catalog.slugs) /\ call'[c].body = call[c].body
      BY <1>1, <1>4 DEF Look, Same, TypeOK, CallType
    <2>2. CallOK(c)'
      <3>1. EnsuringOK(c)'
        BY <1>1, <1>4, <2>1
        DEF CallOK, EnsuringOK, At, Same, Shared, RegistryCoversCatalog
      <3>2. BodyOK(c)'
        BY <1>1, <1>4, <2>1
        DEF CallOK, EnsuringOK, BodyOK, Ensuring, Settled, At, Same
      <3>3. AskedOK(c)'
        BY <1>1, <1>4, <2>1
        DEF CallOK, AskedOK, EnsuringOK, ValueOK, Ensuring, At, Same
      <3>4. ValueOK(c)'
        BY <1>1, <1>4, <2>1
        DEF CallOK, ValueOK, EnsuringOK, AskedOK, At, Same
      <3>5. Verdict(c)'
        BY <1>1, <1>4, <2>1
        DEF CallOK, Verdict, At, Same
      <3>. QED BY <3>1, <3>2, <3>3, <3>4, <3>5 DEF CallOK
    <2>. QED BY <1>2, <2>2, OneCall
  <1>5. CASE catalog.held /\ call[c].op = "value"
    <2>1. Same(c) /\ call'[c].pc = "named" /\ call'[c].after = call[c].after
      BY <1>1, <1>5 DEF Look, Same, TypeOK, CallType
    <2>2. CallOK(c)'
      <3>1. EnsuringOK(c)'
        BY <1>1, <1>5, <2>1
        DEF CallOK, EnsuringOK, At, Same, Shared, RegistryCoversCatalog
      <3>2. BodyOK(c)'
        BY <1>1, <1>5, <2>1
        DEF CallOK, EnsuringOK, BodyOK, Ensuring, Settled, At, Same
      <3>3. AskedOK(c)'
        BY <1>1, <1>5, <2>1
        DEF CallOK, AskedOK, EnsuringOK, ValueOK, Ensuring, At, Same
      <3>4. ValueOK(c)'
        BY <1>1, <1>5, <2>1
        DEF CallOK, ValueOK, EnsuringOK, AskedOK, At, Same
      <3>5. Verdict(c)'
        BY <1>1, <1>5, <2>1
        DEF CallOK, Verdict, At, Same
      <3>. QED BY <3>1, <3>2, <3>3, <3>4, <3>5 DEF CallOK
    <2>. QED BY <1>2, <2>2, OneCall
  <1>6. CASE catalog.held /\ call[c].op \notin {"prepare", "value"}
    <2>1. Same(c) /\ call'[c].pc = "registry" /\ call'[c].after = call[c].after
          /\ call'[c].body = catalog.slugs
      BY <1>1, <1>6 DEF Look, Same, TypeOK, CallType
    <2>2. kind # "service"
      BY <1>1, <1>6 DEF CallOK, ValueOK, At, CallType, Look
    <2>3. CallOK(c)'
      <3>1. EnsuringOK(c)'
        BY <1>1, <1>6, <2>1, <2>2
        DEF CallOK, EnsuringOK, At, Same, Shared, RegistryCoversCatalog
      <3>2. BodyOK(c)'
        BY <1>1, <1>6, <2>1, <2>2
        DEF CallOK, EnsuringOK, BodyOK, Ensuring, Settled, At, Same, Shared, RegistryCoversCatalog
      <3>3. AskedOK(c)'
        BY <1>1, <1>6, <2>1, <2>2
        DEF CallOK, AskedOK, EnsuringOK, ValueOK, Ensuring, At, Same
      <3>4. ValueOK(c)'
        BY <1>1, <1>6, <2>1, <2>2
        DEF CallOK, ValueOK, EnsuringOK, AskedOK, At, Same
      <3>5. Verdict(c)'
        BY <1>1, <1>6, <2>1, <2>2
        DEF CallOK, Verdict, At, Same
      <3>. QED BY <3>1, <3>2, <3>3, <3>4, <3>5 DEF CallOK
    <2>. QED BY <1>2, <2>3, OneCall
  <1>. QED BY <1>3, <1>4, <1>5, <1>6

\* What a fetched catalog has to show before it is typed.
LEMMA TypeCatalogStep ==
    ASSUME Single, IInv, TypeOK', Shared', NEW c \in Caller, NEW S \in SUBSET Slug,
           TypeCatalog(c, S), call[c].pc = "catalog", UNCHANGED <<kind, registry>>,
           call[c].asked /\ call[c].slug \notin S => call[c].slug \in denied'.slugs
    PROVE  IInv'
  <1>1. TypeOK /\ Shared /\ CallOK(c) /\ call[c] \in CallType /\ UNCHANGED <<kind, registry>>
    BY Focus
  <1>2. /\ Same(c) /\ call'[c].pc = "held" /\ call'[c].after = "publish"
        /\ call'[c].want = TypesOf(S) /\ call'[c].body = S
    BY <1>1 DEF TypeCatalog, Same, TypeOK, CallType
  <1>. QED
    <2>1. CallOK(c)'
      <3>1. EnsuringOK(c)'
        BY <1>1, <1>2 DEF CallOK, EnsuringOK, At, Same, Shared, RegistryCoversCatalog
      <3>2. BodyOK(c)'
        BY <1>1, <1>2 DEF CallOK, EnsuringOK, BodyOK, Ensuring, Settled, At, Same, Shared, RegistryCoversCatalog
      <3>3. AskedOK(c)'
        BY <1>1, <1>2 DEF CallOK, AskedOK, EnsuringOK, ValueOK, Ensuring, At, Same
      <3>4. ValueOK(c)'
        BY <1>1, <1>2 DEF CallOK, ValueOK, EnsuringOK, AskedOK, At, Same
      <3>5. Verdict(c)'
        BY <1>1, <1>2 DEF CallOK, Verdict, EnsuringOK, At, Same
      <3>. QED BY <3>1, <3>2, <3>3, <3>4, <3>5 DEF CallOK
    <2>. QED BY <2>1, OneCall

\* The answer to a catalog request, or its failure.
LEMMA CatalogStep ==
    ASSUME Single, IInv, TypeOK', NEW c \in Caller, CatalogArrives(c) \/ CatalogFails(c)
    PROVE  IInv'
  <1>1. /\ TypeOK /\ Shared /\ CallOK(c) /\ call[c] \in CallType /\ call[c].pc = "catalog"
        /\ UNCHANGED <<kind, catalog, registry, unresolvedSlugs, unresolvedTypes, rows>>
    BY Focus DEF CatalogArrives, CatalogFails, At, cache, platform
  <1>2. CASE CatalogArrives(c)
    <2>1. /\ denied.slugs \subseteq denied'.slugs /\ denied'.types = denied.types
          /\ call[c].asked /\ call[c].slug \notin slots => call[c].slug \in denied'.slugs
      BY <1>1, <1>2 DEF CatalogArrives, TypeOK
    <2>2. Shared'
      BY <1>1, <2>1 DEF Shared, RegistryCoversCatalog
    <2>3. TypeCatalog(c, slots) /\ slots \in SUBSET Slug
      BY <1>1, <1>2 DEF CatalogArrives, TypeOK
    <2>. QED BY <1>1, <2>1, <2>2, <2>3, TypeCatalogStep
  <1>3. CASE CatalogFails(c)
    <2>1. denied' = denied /\ Shared'
      BY <1>1, <1>3 DEF CatalogFails, Shared, RegistryCoversCatalog
    <2>2. CASE kind = "service"
      <3>1. Finish(c, "error")
        BY <1>3, <2>2 DEF CatalogFails
      <3>. QED BY <1>1, <2>1, <3>1, Finished
    <2>3. CASE kind # "service"
      <3>1. TypeCatalog(c, {}) /\ ~ call[c].asked
        BY <1>1, <1>3, <2>3 DEF CatalogFails, CallOK, AskedOK
      <3>. QED BY <1>1, <2>1, <3>1, TypeCatalogStep
    <2>. QED BY <2>2, <2>3
  <1>. QED BY <1>2, <1>3

\* Storing a catalog: its types were settled on the way here.
LEMMA PublishStep ==
    ASSUME Single, IInv, TypeOK', NEW c \in Caller, Publish(c)
    PROVE  IInv'
  <1>1. /\ TypeOK /\ Shared /\ CallOK(c) /\ call[c] \in CallType /\ call[c].pc = "publish"
        /\ UNCHANGED <<kind, registry, unresolvedSlugs, unresolvedTypes, rows, denied>>
    BY Focus DEF Publish, At, platform
  <1>2. catalog'.held /\ catalog'.slugs = call[c].body
    BY DEF Publish
  <1>3. /\ Same(c) /\ call'[c].pc = (IF kind = "service" THEN "look" ELSE "registry")
        /\ call'[c].after = "idle" /\ call'[c].body = call[c].body
    BY <1>1 DEF Publish, Same, TypeOK, CallType
  <1>4. registry.held /\ TypesOf(call[c].body) \subseteq Settled
    BY <1>1 DEF CallOK, EnsuringOK, BodyOK, At
  <1>5. Shared'
    BY <1>1, <1>2, <1>4 DEF Shared, RegistryCoversCatalog, Settled
  <1>. QED
    <2>1. CallOK(c)'
      <3>1. EnsuringOK(c)'
        BY <1>1, <1>2, <1>3, <1>4 DEF CallOK, EnsuringOK, At, Same, Shared, RegistryCoversCatalog
      <3>2. BodyOK(c)'
        BY <1>1, <1>2, <1>3, <1>4 DEF CallOK, EnsuringOK, BodyOK, Ensuring, Settled, At, Same, Shared, RegistryCoversCatalog
      <3>3. AskedOK(c)'
        BY <1>1, <1>2, <1>3, <1>4 DEF CallOK, AskedOK, EnsuringOK, ValueOK, Ensuring, At, Same
      <3>4. ValueOK(c)'
        BY <1>1, <1>2, <1>3, <1>4 DEF CallOK, ValueOK, EnsuringOK, AskedOK, At, Same
      <3>5. Verdict(c)'
        BY <1>1, <1>2, <1>3, <1>4 DEF CallOK, Verdict, EnsuringOK, At, Same
      <3>. QED BY <3>1, <3>2, <3>3, <3>4, <3>5 DEF CallOK
    <2>. QED BY <1>5, <2>1, OneCall

\* Reading the held registry.
LEMMA ReadHeldStep ==
    ASSUME Single, IInv, TypeOK', NEW c \in Caller, ReadHeld(c)
    PROVE  IInv'
  <1>1. /\ TypeOK /\ Shared /\ CallOK(c) /\ call[c] \in CallType /\ call[c].pc = "held"
        /\ UNCHANGED <<kind, catalog, registry, unresolvedSlugs, unresolvedTypes, rows, denied>>
    BY Focus DEF ReadHeld, At, cache, platform
  <1>2. Shared'
    BY <1>1 DEF Shared, RegistryCoversCatalog
  <1>3. /\ Same(c) /\ call'[c].after = call[c].after /\ call'[c].want = call[c].want
        /\ call'[c].body = call[c].body
        /\ call'[c].pc = (IF registry.held THEN "missing" ELSE "load")
        /\ registry.held => call'[c].reg = registry
    BY <1>1 DEF ReadHeld, Same, TypeOK, CallType
  <1>. QED
    <2>1. CallOK(c)'
      <3>1. EnsuringOK(c)'
        BY <1>1, <1>3 DEF CallOK, EnsuringOK, At, Same, Shared, RegistryCoversCatalog
      <3>2. BodyOK(c)'
        BY <1>1, <1>3 DEF CallOK, EnsuringOK, BodyOK, Ensuring, Settled, At, Same, Shared, RegistryCoversCatalog
      <3>3. AskedOK(c)'
        BY <1>1, <1>3 DEF CallOK, AskedOK, EnsuringOK, ValueOK, Ensuring, At, Same
      <3>4. ValueOK(c)'
        BY <1>1, <1>3 DEF CallOK, ValueOK, EnsuringOK, AskedOK, At, Same
      <3>5. Verdict(c)'
        BY <1>1, <1>3 DEF CallOK, Verdict, EnsuringOK, At, Same
      <3>. QED BY <3>1, <3>2, <3>3, <3>4, <3>5 DEF CallOK
    <2>. QED BY <1>2, <2>1, OneCall

\* The answer to a registry request, or its failure.
LEMMA RowsStep ==
    ASSUME Single, IInv, TypeOK', NEW c \in Caller, RowsArrive(c) \/ RowsFail(c)
    PROVE  IInv'
  <1>1. /\ TypeOK /\ Shared /\ CallOK(c) /\ call[c] \in CallType
        /\ call[c].pc \in {"load", "reload"}
        /\ UNCHANGED <<kind, catalog, registry, unresolvedSlugs, unresolvedTypes, rows>>
    BY Focus DEF RowsArrive, RowsFail, At, platform
  <1>2. CASE RowsFail(c)
    <2>1. denied' = denied /\ Finish(c, "error") /\ Shared'
      BY <1>1, <1>2 DEF RowsFail, Shared, RegistryCoversCatalog
    <2>. QED BY <1>1, <2>1, Finished
  <1>3. CASE RowsArrive(c)
    <2>1. /\ denied'.slugs = denied.slugs /\ denied.types \subseteq denied'.types
          /\ call[c].pc = "reload" => call[c].want \ rows \subseteq denied'.types
      BY <1>1, <1>3 DEF RowsArrive, TypeOK, At
    <2>2. Shared'
      BY <1>1, <2>1 DEF Shared, RegistryCoversCatalog
    <2>3. /\ Same(c) /\ call'[c].after = call[c].after /\ call'[c].want = call[c].want
          /\ call'[c].body = call[c].body
          /\ call'[c].pc = (IF call[c].pc = "load" THEN "keep" ELSE "rekeep")
      BY <1>1, <1>3 DEF RowsArrive, Same, TypeOK, CallType, At
    <2>4. call'[c].reg = [held |-> TRUE, id |-> loads + 1, types |-> rows]
      BY <1>1, <1>3 DEF RowsArrive, TypeOK, CallType
    <2>5. call'[c].reg.held /\ call'[c].reg.types = rows
      BY <2>4
    <2>6. CallOK(c)'
      <3>1. EnsuringOK(c)'
        BY <1>1, <2>1, <2>3, <2>5 DEF CallOK, EnsuringOK, At, Same, Shared, RegistryCoversCatalog
      <3>2. BodyOK(c)'
        BY <1>1, <2>1, <2>3, <2>5 DEF CallOK, EnsuringOK, BodyOK, Ensuring, Settled, At, Same, Shared, RegistryCoversCatalog
      <3>3. AskedOK(c)'
        BY <1>1, <2>1, <2>3, <2>5 DEF CallOK, AskedOK, EnsuringOK, ValueOK, Ensuring, At, Same
      <3>4. ValueOK(c)'
        BY <1>1, <2>1, <2>3, <2>5 DEF CallOK, ValueOK, EnsuringOK, AskedOK, At, Same
      <3>5. Verdict(c)'
        BY <1>1, <2>1, <2>3, <2>5 DEF CallOK, Verdict, EnsuringOK, At, Same
      <3>. QED BY <3>1, <3>2, <3>3, <3>4, <3>5 DEF CallOK
    <2>. QED BY <2>2, <2>6, OneCall
  <1>. QED BY <1>2, <1>3

\* Storing the first registry: nothing was held that it could fail to cover.
LEMMA KeepStep ==
    ASSUME Single, IInv, TypeOK', NEW c \in Caller, Keep(c)
    PROVE  IInv'
  <1>1. /\ TypeOK /\ Shared /\ CallOK(c) /\ call[c] \in CallType /\ call[c].pc = "keep"
        /\ UNCHANGED <<kind, catalog, unresolvedSlugs, unresolvedTypes, rows, denied>>
        /\ registry' = call[c].reg
    BY Focus DEF Keep, At, platform
  <1>2. ~ registry.held /\ call[c].reg.held /\ call[c].reg.types \subseteq rows /\ ~ catalog.held
    BY <1>1 DEF CallOK, EnsuringOK, At, Shared, RegistryCoversCatalog
  <1>3. Shared'
    BY <1>1, <1>2 DEF Shared, RegistryCoversCatalog
  <1>4. /\ Same(c) /\ call'[c].pc = "missing" /\ call'[c].after = call[c].after
        /\ call'[c].want = call[c].want /\ call'[c].body = call[c].body
        /\ call'[c].reg = call[c].reg
    BY <1>1 DEF Keep, Same, TypeOK, CallType, CallOK, EnsuringOK
  <1>. QED
    <2>1. CallOK(c)'
      <3>1. EnsuringOK(c)'
        BY <1>1, <1>2, <1>3, <1>4 DEF CallOK, EnsuringOK, At, Same, Shared, RegistryCoversCatalog
      <3>2. BodyOK(c)'
        BY <1>1, <1>2, <1>3, <1>4 DEF CallOK, EnsuringOK, BodyOK, Ensuring, Settled, At, Same, Shared, RegistryCoversCatalog
      <3>3. AskedOK(c)'
        BY <1>1, <1>2, <1>3, <1>4 DEF CallOK, AskedOK, EnsuringOK, ValueOK, Ensuring, At, Same
      <3>4. ValueOK(c)'
        BY <1>1, <1>2, <1>3, <1>4 DEF CallOK, ValueOK, EnsuringOK, AskedOK, At, Same
      <3>5. Verdict(c)'
        BY <1>1, <1>2, <1>3, <1>4 DEF CallOK, Verdict, EnsuringOK, At, Same
      <3>. QED BY <3>1, <3>2, <3>3, <3>4, <3>5 DEF CallOK
    <2>. QED BY <1>3, <2>1, OneCall

\* ensureTypesKnown returns with what it was asked for settled.
LEMMA KnownStep ==
    ASSUME Single, IInv, TypeOK', Shared', NEW c \in Caller, Known(c),
           call[c].pc \in {"missing", "rekeep"}, UNCHANGED <<kind, catalog>>, registry'.held,
           denied' = denied,
           call[c].after # "idle" => TypesOf(call[c].body) \subseteq Settled'
    PROVE  IInv'
  <1>1. TypeOK /\ Shared /\ CallOK(c) /\ call[c] \in CallType /\ UNCHANGED <<kind, catalog>>
    BY Focus
  <1>2. CASE call[c].after = "idle"
    BY <1>1, <1>2, Finished DEF Known
  <1>3. CASE call[c].after # "idle"
    <2>1. /\ Same(c) /\ call'[c].after = call[c].after /\ call'[c].body = call[c].body
          /\ call'[c].pc = call[c].after /\ call[c].after \in {"publish", "registry"}
      <3>1. call[c].after \in {"publish", "registry"}
        BY <1>1, <1>3 DEF CallType, CallOK, EnsuringOK
      <3>2. call' = [call EXCEPT ![c] = [call[c] EXCEPT !.pc = call[c].after]]
        BY <1>3 DEF Known
      <3>. QED BY <1>1, <3>1, <3>2 DEF Same, TypeOK, CallType
    <2>2. CallOK(c)'
      <3>1. EnsuringOK(c)'
        BY <1>1, <1>3, <2>1 DEF CallOK, EnsuringOK, At, Same, Shared, RegistryCoversCatalog
      <3>2. BodyOK(c)'
        BY <1>1, <1>3, <2>1 DEF CallOK, EnsuringOK, BodyOK, Ensuring, Settled, At, Same, Shared, RegistryCoversCatalog
      <3>3. AskedOK(c)'
        BY <1>1, <1>3, <2>1 DEF CallOK, AskedOK, EnsuringOK, ValueOK, Ensuring, At, Same
      <3>4. ValueOK(c)'
        BY <1>1, <1>3, <2>1 DEF CallOK, ValueOK, EnsuringOK, AskedOK, At, Same
      <3>5. Verdict(c)'
        BY <1>1, <1>3, <2>1 DEF CallOK, Verdict, EnsuringOK, At, Same
      <3>. QED BY <3>1, <3>2, <3>3, <3>4, <3>5 DEF CallOK
    <2>. QED BY <2>2, OneCall
  <1>. QED BY <1>2, <1>3

\* Comparing what is asked for with what is settled.
LEMMA CheckMissingStep ==
    ASSUME Single, IInv, TypeOK', NEW c \in Caller, CheckMissing(c)
    PROVE  IInv'
  <1>1. /\ TypeOK /\ Shared /\ CallOK(c) /\ call[c] \in CallType /\ call[c].pc = "missing"
        /\ UNCHANGED <<kind, catalog, registry, unresolvedSlugs, unresolvedTypes, rows, denied>>
    BY Focus DEF CheckMissing, At, cache, platform
  <1>2. Shared'
    BY <1>1 DEF Shared, RegistryCoversCatalog
  <1>3. /\ registry.held /\ call[c].reg = registry
        /\ call[c].after # "idle" => TypesOf(call[c].body) \subseteq call[c].want
    BY <1>1 DEF CallOK, EnsuringOK, BodyOK, Ensuring, At
  <1>4. CASE (call[c].want \ call[c].reg.types) \ unresolvedTypes = {}
    <2>1. Known(c) /\ call[c].want \subseteq Settled'
      BY <1>1, <1>3, <1>4 DEF CheckMissing, Settled
    <2>. QED BY <1>1, <1>2, <1>3, <2>1, KnownStep
  <1>5. CASE (call[c].want \ call[c].reg.types) \ unresolvedTypes # {}
    <2>1. /\ Same(c) /\ call'[c].pc = "reload" /\ call'[c].after = call[c].after
          /\ call'[c].body = call[c].body
          /\ call'[c].want = (call[c].want \ call[c].reg.types) \ unresolvedTypes
      <3>1. call' = [call EXCEPT ![c] = [call[c] EXCEPT !.pc = "reload",
                        !.want = (call[c].want \ call[c].reg.types) \ unresolvedTypes]]
        BY <1>5 DEF CheckMissing
      <3>. QED BY <1>1, <3>1 DEF Same, TypeOK, CallType
    <2>2. CallOK(c)'
      <3>1. EnsuringOK(c)'
        BY <1>1, <1>3, <2>1 DEF CallOK, EnsuringOK, At, Same, Shared, RegistryCoversCatalog
      <3>2. BodyOK(c)'
        BY <1>1, <1>3, <2>1 DEF CallOK, EnsuringOK, BodyOK, Ensuring, Settled, At, Same, Shared, RegistryCoversCatalog
      <3>3. AskedOK(c)'
        BY <1>1, <1>3, <2>1 DEF CallOK, AskedOK, EnsuringOK, ValueOK, Ensuring, At, Same
      <3>4. ValueOK(c)'
        BY <1>1, <1>3, <2>1 DEF CallOK, ValueOK, EnsuringOK, AskedOK, At, Same
      <3>5. Verdict(c)'
        BY <1>1, <1>3, <2>1 DEF CallOK, Verdict, EnsuringOK, At, Same
      <3>. QED BY <3>1, <3>2, <3>3, <3>4, <3>5 DEF CallOK
    <2>. QED BY <1>2, <2>2, OneCall
  <1>. QED BY <1>4, <1>5

\* Storing a refetched registry: it knows what the old one knew, and the rest is denied.
LEMMA RekeepStep ==
    ASSUME Single, IInv, TypeOK', NEW c \in Caller, Rekeep(c)
    PROVE  IInv'
  <1>1. /\ TypeOK /\ Shared /\ CallOK(c) /\ call[c] \in CallType /\ call[c].pc = "rekeep"
        /\ UNCHANGED <<kind, catalog, unresolvedSlugs, rows, denied>>
        /\ registry' = call[c].reg /\ Known(c)
        /\ unresolvedTypes' = unresolvedTypes \cup (call[c].want \ call[c].reg.types)
    BY Focus DEF Rekeep, At, platform
  <1>2. /\ registry.held /\ registry.types \subseteq call[c].reg.types
        /\ call[c].reg.held /\ call[c].reg.types \subseteq rows
        /\ call[c].want \ call[c].reg.types \subseteq denied.types
        /\ call[c].after # "idle" => TypesOf(call[c].body) \subseteq call[c].want \cup Settled
    BY <1>1 DEF CallOK, EnsuringOK, BodyOK, Ensuring, At
  <1>3. Shared'
    BY <1>1, <1>2 DEF Shared, RegistryCoversCatalog
  <1>4. call[c].after # "idle" => TypesOf(call[c].body) \subseteq Settled'
    BY <1>1, <1>2 DEF Settled
  <1>5. registry'.held
    BY <1>1, <1>2
  <1>. QED BY <1>1, <1>3, <1>4, <1>5, KnownStep

\* A slug is typed, refetched for once, or denied.
LEMMA TypeForSlugStep ==
    ASSUME Single, IInv, TypeOK', NEW c \in Caller, TypeForSlug(c)
    PROVE  IInv'
  <1>1. /\ TypeOK /\ Shared /\ CallOK(c) /\ call[c] \in CallType /\ call[c].pc = "named"
        /\ UNCHANGED <<kind, catalog, registry, unresolvedTypes, rows, denied>>
        /\ call[c].slug \in Slug
    BY Focus, CallFields DEF TypeForSlug, At, platform
  <1>2. catalog.held /\ kind = "service" /\ call[c].op = "value" /\ call[c].after = "idle"
    BY <1>1 DEF CallOK, ValueOK, AskedOK, EnsuringOK, At
  <1>3. CASE call[c].slug \in catalog.slugs
    <2>1. /\ Same(c) /\ call'[c].pc = "registry" /\ call'[c].body = catalog.slugs
          /\ call'[c].after = call[c].after /\ UNCHANGED unresolvedSlugs
      <3>1. call' = [call EXCEPT ![c] = [call[c] EXCEPT !.pc = "registry",
                                                       !.body = catalog.slugs]]
            /\ UNCHANGED unresolvedSlugs
        BY <1>3 DEF TypeForSlug
      <3>. QED BY <1>1, <3>1 DEF Same, TypeOK, CallType
    <2>2. Shared'
      BY <1>1, <2>1 DEF Shared, RegistryCoversCatalog
    <2>3. CallOK(c)'
      <3>1. EnsuringOK(c)'
        BY <1>1, <1>2, <1>3, <2>1 DEF CallOK, EnsuringOK, At, Same, Shared, RegistryCoversCatalog
      <3>2. BodyOK(c)'
        BY <1>1, <1>2, <1>3, <2>1 DEF CallOK, EnsuringOK, BodyOK, Ensuring, Settled, At, Same, Shared, RegistryCoversCatalog
      <3>3. AskedOK(c)'
        BY <1>1, <1>2, <1>3, <2>1 DEF CallOK, AskedOK, EnsuringOK, ValueOK, Ensuring, At, Same
      <3>4. ValueOK(c)'
        BY <1>1, <1>2, <1>3, <2>1 DEF CallOK, ValueOK, EnsuringOK, AskedOK, At, Same
      <3>5. Verdict(c)'
        BY <1>1, <1>2, <1>3, <2>1 DEF CallOK, Verdict, EnsuringOK, At, Same
      <3>. QED BY <3>1, <3>2, <3>3, <3>4, <3>5 DEF CallOK
    <2>. QED BY <2>2, <2>3, OneCall
  <1>4. CASE call[c].slug \notin catalog.slugs \cup unresolvedSlugs /\ ~ call[c].asked
    <2>1. /\ call'[c].pc = "catalog" /\ call'[c].op = call[c].op
          /\ call'[c].slug = call[c].slug /\ call'[c].result = call[c].result
          /\ call'[c].after = call[c].after /\ UNCHANGED unresolvedSlugs
      <3>1. call' = [call EXCEPT ![c] = [call[c] EXCEPT !.pc = "catalog", !.asked = TRUE]]
            /\ UNCHANGED unresolvedSlugs
        BY <1>4 DEF TypeForSlug
      <3>. QED BY <1>1, <3>1 DEF TypeOK, CallType
    <2>2. Shared'
      BY <1>1, <2>1 DEF Shared, RegistryCoversCatalog
    <2>3. CallOK(c)'
      <3>1. EnsuringOK(c)'
        BY <1>1, <1>2, <2>1 DEF CallOK, EnsuringOK, At, Same, Shared, RegistryCoversCatalog
      <3>2. BodyOK(c)'
        BY <1>1, <1>2, <2>1 DEF CallOK, EnsuringOK, BodyOK, Ensuring, Settled, At, Same, Shared, RegistryCoversCatalog
      <3>3. AskedOK(c)'
        BY <1>1, <1>2, <2>1 DEF CallOK, AskedOK, EnsuringOK, ValueOK, Ensuring, At, Same
      <3>4. ValueOK(c)'
        BY <1>1, <1>2, <2>1 DEF CallOK, ValueOK, EnsuringOK, AskedOK, At, Same
      <3>5. Verdict(c)'
        BY <1>1, <1>2, <2>1 DEF CallOK, Verdict, EnsuringOK, At, Same
      <3>. QED BY <3>1, <3>2, <3>3, <3>4, <3>5 DEF CallOK
    <2>. QED BY <2>2, <2>3, OneCall
  <1>5. CASE /\ call[c].slug \notin catalog.slugs
             /\ call[c].asked \/ call[c].slug \in unresolvedSlugs
    <2>1. Finish(c, "untyped")
      BY <1>5 DEF TypeForSlug
    <2>2. unresolvedSlugs' = unresolvedSlugs \cup {call[c].slug}
      BY <1>5 DEF TypeForSlug
    <2>3. call[c].slug \in denied.slugs
      BY <1>1, <1>5, <2>2 DEF CallOK, AskedOK, Shared, At
    <2>4. Shared'
      BY <1>1, <2>2, <2>3 DEF Shared, RegistryCoversCatalog
    <2>. QED BY <1>1, <2>1, <2>3, <2>4, Finished
  <1>. QED BY <1>3, <1>4, <1>5

\* Taking the held registry in hand.
LEMMA ReadRegistryStep ==
    ASSUME Single, IInv, TypeOK', NEW c \in Caller, ReadRegistry(c)
    PROVE  IInv'
  <1>1. /\ TypeOK /\ Shared /\ CallOK(c) /\ call[c] \in CallType /\ call[c].pc = "registry"
        /\ UNCHANGED <<kind, catalog, registry, unresolvedSlugs, unresolvedTypes, rows, denied>>
    BY Focus DEF ReadRegistry, At, cache, platform
  <1>2. Shared'
    BY <1>1 DEF Shared, RegistryCoversCatalog
  <1>3. registry.held
    BY <1>1 DEF CallOK, EnsuringOK, At
  <1>4. /\ Same(c) /\ call'[c].pc = "validate" /\ call'[c].after = call[c].after
        /\ call'[c].body = call[c].body /\ call'[c].reg = registry
    <2>1. call' = [call EXCEPT ![c] = [call[c] EXCEPT !.pc = "validate", !.reg = registry]]
      BY <1>3 DEF ReadRegistry
    <2>. QED BY <1>1, <2>1 DEF Same, TypeOK, CallType
  <1>. QED
    <2>1. CallOK(c)'
      <3>1. EnsuringOK(c)'
        BY <1>1, <1>3, <1>4 DEF CallOK, EnsuringOK, At, Same, Shared, RegistryCoversCatalog
      <3>2. BodyOK(c)'
        BY <1>1, <1>3, <1>4 DEF CallOK, EnsuringOK, BodyOK, Ensuring, Settled, At, Same, Shared, RegistryCoversCatalog
      <3>3. AskedOK(c)'
        BY <1>1, <1>3, <1>4 DEF CallOK, AskedOK, EnsuringOK, ValueOK, Ensuring, At, Same
      <3>4. ValueOK(c)'
        BY <1>1, <1>3, <1>4 DEF CallOK, ValueOK, EnsuringOK, AskedOK, At, Same
      <3>5. Verdict(c)'
        BY <1>1, <1>3, <1>4 DEF CallOK, Verdict, EnsuringOK, At, Same
      <3>. QED BY <3>1, <3>2, <3>3, <3>4, <3>5 DEF CallOK
    <2>. QED BY <1>2, <2>1, OneCall

\* A value is resolved by the registry in hand.
LEMMA ValidateStep ==
    ASSUME Single, IInv, TypeOK', NEW c \in Caller, Validate(c)
    PROVE  IInv'
  <1>1. /\ TypeOK /\ Shared /\ CallOK(c) /\ call[c] \in CallType /\ call[c].pc = "validate"
        /\ UNCHANGED <<kind, catalog, registry, unresolvedSlugs, unresolvedTypes, rows, denied>>
    BY Focus DEF Validate, At, platform
  <1>2. Shared'
    BY <1>1 DEF Shared, RegistryCoversCatalog
  <1>3. CASE call[c].slug \notin call[c].body
    <2>1. Finish(c, "untyped")
      BY <1>3 DEF Validate
    <2>2. kind' # "service"
      BY <1>1, <1>3 DEF CallOK, ValueOK, At
    <2>. QED BY <1>1, <1>2, <2>1, <2>2, Finished
  <1>4. CASE call[c].slug \in call[c].body /\ TypeOf[call[c].slug] \in call[c].reg.types
    <2>1. Finish(c, "typed")
      BY <1>4 DEF Validate
    <2>. QED BY <1>1, <1>2, <2>1, Finished
  <1>5. CASE call[c].slug \in call[c].body /\ TypeOf[call[c].slug] \notin call[c].reg.types
    <2>1. Finish(c, "unknown")
      BY <1>5 DEF Validate
    <2>2. TypeOf[call[c].slug] \in denied'.types
      BY <1>1, <1>5 DEF CallOK, BodyOK, Shared, TypesOf, At
    <2>. QED BY <1>1, <1>2, <2>1, <2>2, Finished
  <1>. QED BY <1>3, <1>4, <1>5

\* Every step of the only goroutine keeps the invariant.
LEMMA InvNext ==
    ASSUME Single, IInv, [Next]_vars
    PROVE  IInv'
  <1>1. TypeOK'
    BY TypeNext, IInvParts
  <1>2. ASSUME NEW s \in Slug, AddSlot(s) PROVE IInv'
    BY <1>1, <1>2, PlatformStep DEF AddSlot
  <1>3. ASSUME NEW t \in Type, AddType(t) PROVE IInv'
    BY <1>1, <1>3, PlatformStep DEF AddType
  <1>4. CASE UNCHANGED vars
    BY <1>1, <1>4, PlatformStep DEF vars, platform
  <1>5. ASSUME NEW c \in Caller,
               \/ Begin(c) \/ LearnCatalog(c) \/ LearnTypes(c)
               \/ TypeForSlug(c) \/ ReadRegistry(c) \/ Validate(c)
        PROVE  IInv'
    BY <1>1, <1>5, BeginStep, LookStep, CatalogStep, PublishStep, ReadHeldStep, RowsStep,
       KeepStep, CheckMissingStep, RekeepStep, TypeForSlugStep, ReadRegistryStep, ValidateStep
    DEF LearnCatalog, LearnTypes
  <1>. QED BY <1>2, <1>3, <1>4, <1>5 DEF Next

\* For a client that one goroutine uses at a time, every type that the held catalog names
\* is one that the held registry knows or that the deployment does not have.
THEOREM CatalogCovered == Single => (Spec => []RegistryCoversCatalog)
  <1>. SUFFICES ASSUME Single PROVE Spec => []RegistryCoversCatalog
    OBVIOUS
  <1>1. IInv /\ [Next]_vars => IInv'
    BY InvNext
  <1>2. IInv => RegistryCoversCatalog
    BY DEF IInv
  <1>. QED BY InvInit, <1>1, <1>2, PTL DEF Spec

\* For such a client, a slot or type is taken for absent only once a refetch made for it
\* came back without it: no failed request is ever read as an absence.
THEOREM AbsenceVerified == Single => (Spec => []AbsenceIsAVerdict)
  <1>. SUFFICES ASSUME Single PROVE Spec => []AbsenceIsAVerdict
    OBVIOUS
  <1>1. IInv /\ [Next]_vars => IInv'
    BY InvNext
  <1>2. IInv => AbsenceIsAVerdict
    BY DEF IInv
  <1>. QED BY InvInit, <1>1, <1>2, PTL DEF Spec

-----------------------------------------------------------------------------
(* The bound on the registry's fetches, for one goroutine at a time.        *)

\* What the client learned of the deployment after its first fetch.
Learned == unresolvedTypes \cup (registry.types \ FirstTypes)

\* What pays for the fetches, for the call in which they are made: a refetch is made for
\* types that are not settled yet, and settles them once it is stored.
BoundOK(c) ==
    /\ At(c, "keep") \/ At(c, "rekeep") => FirstTypes \subseteq call[c].reg.types
    /\ At(c, "reload") \/ At(c, "rekeep") =>
           call[c].want # {} /\ call[c].want \cap Settled = {}
    /\ ~ registry.held => loads = IF At(c, "keep") THEN 1 ELSE 0
    /\ registry.held =>
           loads <= 1 + Cardinality(Learned) + IF At(c, "rekeep") THEN 1 ELSE 0

LoadsInv ==
    /\ FirstTypes \subseteq rows
    /\ registry.held => FirstTypes \subseteq registry.types
    /\ Caller = {} => loads = 0
    /\ \A c \in Caller : BoundOK(c)

\* Any set of types is finite.
LEMMA TypesFinite ==
    ASSUME NEW S \in SUBSET Type
    PROVE  IsFiniteSet(S) /\ Cardinality(S) \in Nat
  BY FiniteAssumption, FS_Subset, FS_CardinalityType

\* A call that ends is idle.
LEMMA FinishIdle ==
    ASSUME TypeOK, NEW c \in Caller, NEW r, Finish(c, r)
    PROVE  call'[c].pc = "idle"
  BY DEF TypeOK, Finish, Ended, Begun

\* Nothing is held and nothing was fetched at first.
LEMMA LoadsInit == Init => LoadsInv
  <1>. SUFFICES ASSUME Init PROVE LoadsInv
    OBVIOUS
  <1>1. FirstTypes \subseteq rows /\ ~ registry.held /\ loads = 0
    BY DEF Init, NoRegistry
  <1>2. ASSUME NEW c \in Caller PROVE call[c].pc = "idle"
    <2>1. PICK s \in Slug : call = [d \in Caller |-> Ended(s, "")]
      BY DEF Init
    <2>. QED BY <2>1 DEF Ended, Begun
  <1>. QED BY <1>1, <1>2 DEF LoadsInv, BoundOK, At

\* A step that neither fetches nor stores a registry.
LEMMA QuietStep ==
    ASSUME Single, LoadsInv, NEW c \in Caller, UNCHANGED <<registry, unresolvedTypes, loads>>,
           rows \subseteq rows', call[c].pc \notin {"keep", "rekeep"},
           call'[c].pc \notin {"keep", "reload", "rekeep"}
    PROVE  LoadsInv'
  <1>1. BoundOK(c)
    BY DEF LoadsInv
  <1>2. BoundOK(c)'
    BY <1>1 DEF BoundOK, At, Learned
  <1>. QED BY <1>2 DEF LoadsInv, Single

\* A step of the platform, or of nobody.
LEMMA StillStep ==
    ASSUME LoadsInv, UNCHANGED <<registry, unresolvedTypes, loads, call>>, rows \subseteq rows'
    PROVE  LoadsInv'
  <1>1. ASSUME NEW c \in Caller PROVE BoundOK(c)'
    <2>1. BoundOK(c)
      BY DEF LoadsInv
    <2>. QED BY <2>1 DEF BoundOK, At, Learned, Settled
  <1>. QED BY <1>1 DEF LoadsInv

\* A fetch arrives: the first one, or one that is made for unsettled types.
LEMMA ArriveBound ==
    ASSUME Single, IInv, LoadsInv, NEW c \in Caller, RowsArrive(c)
    PROVE  LoadsInv'
  <1>1. TypeOK /\ CallOK(c) /\ call[c] \in CallType /\ BoundOK(c) /\ FirstTypes \subseteq rows
    BY Focus DEF LoadsInv
  <1>2. UNCHANGED <<registry, unresolvedTypes, rows>> /\ loads' = loads + 1 /\ loads \in Nat
    BY <1>1 DEF RowsArrive, platform, TypeOK
  <1>3. /\ call'[c].want = call[c].want
        /\ call'[c].pc = (IF call[c].pc = "load" THEN "keep" ELSE "rekeep")
        /\ call'[c].reg = [held |-> TRUE, id |-> loads + 1, types |-> rows]
    BY <1>1 DEF RowsArrive, TypeOK, CallType, At
  <1>4. call'[c].reg.types = rows
    BY <1>3
  <1>5. call[c].pc = "load" \/ call[c].pc = "reload"
    BY DEF RowsArrive, At
  <1>6. Cardinality(Learned) \in Nat /\ UNCHANGED <<Learned, Settled>>
    <2>1. Learned \in SUBSET Type
      BY <1>1 DEF TypeOK, Learned, Registry
    <2>. QED BY <1>2, <2>1, TypesFinite DEF Learned, Settled
  <1>7. CASE call[c].pc = "load"
    <2>1. ~ registry.held /\ loads = 0
      BY <1>1, <1>7 DEF CallOK, EnsuringOK, BoundOK, At
    <2>2. BoundOK(c)'
      BY <1>1, <1>2, <1>3, <1>4, <1>7, <2>1 DEF BoundOK, At
    <2>. QED BY <1>2, <2>2 DEF LoadsInv, Single
  <1>8. CASE call[c].pc = "reload"
    <2>0. registry.held
      BY <1>1, <1>8 DEF CallOK, EnsuringOK, At
    <2>1. loads <= 1 + Cardinality(Learned)
      <3>1. loads <= 1 + Cardinality(Learned) + 0
        BY <1>1, <1>8, <2>0 DEF BoundOK, At
      <3>. QED BY <1>2, <1>6, <3>1
    <2>2. /\ call[c].want # {} /\ call[c].want \cap Settled = {}
      BY <1>1, <1>8 DEF BoundOK, At
    <2>3. loads' <= 1 + Cardinality(Learned') + 1
      BY <1>2, <1>6, <2>1
    <2>4. BoundOK(c)'
      BY <1>1, <1>2, <1>3, <1>4, <1>6, <1>8, <2>0, <2>2, <2>3 DEF BoundOK, At
    <2>. QED BY <1>2, <2>4 DEF LoadsInv, Single
  <1>. QED BY <1>5, <1>7, <1>8

\* The first registry is stored: the one fetch before it is the one that is free.
LEMMA KeepBound ==
    ASSUME Single, IInv, LoadsInv, TypeOK', NEW c \in Caller, Keep(c)
    PROVE  LoadsInv'
  <1>1. TypeOK /\ CallOK(c) /\ call[c] \in CallType /\ BoundOK(c) /\ call[c].pc = "keep"
    BY Focus DEF LoadsInv, Keep, At
  <1>2. /\ UNCHANGED <<unresolvedTypes, rows, loads>> /\ registry' = call[c].reg
        /\ call'[c].pc \in {"validate", "missing"}
    BY <1>1 DEF Keep, platform, TypeOK
  <1>3. loads = 1 /\ FirstTypes \subseteq call[c].reg.types /\ call[c].reg.held
    BY <1>1 DEF CallOK, EnsuringOK, BoundOK, At
  <1>4. Cardinality(Learned)' \in Nat
    <2>1. Learned' \in SUBSET Type
      BY DEF TypeOK, Learned, Registry
    <2>. QED BY <2>1, TypesFinite
  <1>5. BoundOK(c)'
    <2>1. loads' <= 1 + Cardinality(Learned)' + 0
      BY <1>2, <1>3, <1>4
    <2>. QED BY <1>2, <1>3, <2>1 DEF BoundOK, At
  <1>. QED BY <1>2, <1>3, <1>5 DEF LoadsInv, Single

\* ensureTypesKnown returns to where its caller goes on.
LEMMA KnownPc ==
    ASSUME TypeOK, NEW c \in Caller, Known(c)
    PROVE  call'[c].pc \in {"idle", "publish", "registry", "validate"}
  <1>1. call[c] \in CallType
    BY DEF TypeOK
  <1>2. CASE call[c].after = "idle"
    BY <1>2, FinishIdle DEF Known
  <1>3. CASE call[c].after # "idle"
    <2>1. call' = [call EXCEPT ![c] = [call[c] EXCEPT !.pc = call[c].after]]
      BY <1>3 DEF Known
    <2>. QED BY <1>1, <2>1 DEF TypeOK, CallType
  <1>. QED BY <1>2, <1>3

\* What is asked for and not settled is settled by the next registry stored.
LEMMA MissingBound ==
    ASSUME Single, IInv, LoadsInv, NEW c \in Caller, CheckMissing(c)
    PROVE  LoadsInv'
  <1>1. TypeOK /\ CallOK(c) /\ call[c] \in CallType /\ BoundOK(c) /\ call[c].pc = "missing"
    BY Focus DEF LoadsInv, CheckMissing, At
  <1>2. UNCHANGED <<registry, unresolvedTypes, rows, loads>>
    BY DEF CheckMissing, platform, cache
  <1>3. registry.held /\ call[c].reg = registry
    BY <1>1 DEF CallOK, EnsuringOK, At
  <1>4. CASE (call[c].want \ call[c].reg.types) \ unresolvedTypes = {}
    <2>1. call'[c].pc \in {"idle", "publish", "registry", "validate"}
      BY <1>1, <1>4, KnownPc DEF CheckMissing
    <2>. QED BY <1>1, <1>2, <2>1, QuietStep
  <1>5. CASE (call[c].want \ call[c].reg.types) \ unresolvedTypes # {}
    <2>1. call' = [call EXCEPT ![c] = [call[c] EXCEPT !.pc = "reload",
                        !.want = (call[c].want \ call[c].reg.types) \ unresolvedTypes]]
      BY <1>5 DEF CheckMissing
    <2>2. /\ call'[c].pc = "reload"
          /\ call'[c].want = (call[c].want \ call[c].reg.types) \ unresolvedTypes
      BY <1>1, <2>1 DEF TypeOK, CallType
    <2>3. call'[c].want \cap Settled' = {} /\ call'[c].want # {}
      BY <1>2, <1>3, <1>5, <2>2 DEF Settled
    <2>4. BoundOK(c)'
      BY <1>1, <1>2, <1>3, <2>2, <2>3 DEF BoundOK, At, Learned
    <2>. QED BY <1>2, <2>4 DEF LoadsInv, Single
  <1>. QED BY <1>4, <1>5

\* A refetched registry is stored: at least one type is learned that was not before.
LEMMA RekeepBound ==
    ASSUME Single, IInv, LoadsInv, TypeOK', NEW c \in Caller, Rekeep(c)
    PROVE  LoadsInv'
  <1>1. TypeOK /\ CallOK(c) /\ call[c] \in CallType /\ BoundOK(c) /\ call[c].pc = "rekeep"
        /\ (registry.held => FirstTypes \subseteq registry.types)
    BY Focus DEF LoadsInv, Rekeep, At
  <1>2. /\ UNCHANGED <<rows, loads>> /\ registry' = call[c].reg /\ loads \in Nat
        /\ unresolvedTypes' = unresolvedTypes \cup (call[c].want \ call[c].reg.types)
    BY <1>1 DEF Rekeep, platform, TypeOK
  <1>3. call'[c].pc \in {"idle", "publish", "registry", "validate"}
    BY <1>1, KnownPc DEF Rekeep
  <1>4. /\ registry.held /\ registry.types \subseteq call[c].reg.types /\ call[c].reg.held
        /\ FirstTypes \subseteq call[c].reg.types
    BY <1>1 DEF CallOK, EnsuringOK, BoundOK, At
  <1>5. PICK t \in call[c].want : t \notin Settled
    BY <1>1 DEF BoundOK, At
  <1>6. loads <= 1 + Cardinality(Learned) + 1
    BY <1>1, <1>4 DEF BoundOK, At
  <1>7. Learned \subseteq Learned' /\ t \in Learned' /\ t \notin Learned
    BY <1>1, <1>2, <1>4, <1>5 DEF Learned, Settled
  <1>8. /\ IsFiniteSet(Learned') /\ Cardinality(Learned') \in Nat
        /\ Cardinality(Learned) \in Nat
    <2>1. Learned \in SUBSET Type /\ Learned' \in SUBSET Type
      BY <1>1 DEF TypeOK, Learned, Registry
    <2>. QED BY <2>1, TypesFinite
  <1>9. Cardinality(Learned) <= Cardinality(Learned')
        /\ (Cardinality(Learned) = Cardinality(Learned') => Learned = Learned')
    BY <1>7, <1>8, FS_Subset
  <1>10. Cardinality(Learned) < Cardinality(Learned')
    BY <1>7, <1>8, <1>9
  <1>11. loads' <= 1 + Cardinality(Learned') + 0
    BY <1>2, <1>6, <1>8, <1>10
  <1>12. BoundOK(c)'
    BY <1>2, <1>3, <1>4, <1>11 DEF BoundOK, At
  <1>. QED BY <1>2, <1>4, <1>12 DEF LoadsInv, Single

\* Every other step of a call neither fetches nor stores a registry.
LEMMA OtherBound ==
    ASSUME Single, IInv, LoadsInv, NEW c \in Caller,
           \/ Begin(c) \/ LearnCatalog(c) \/ ReadHeld(c) \/ RowsFail(c)
           \/ TypeForSlug(c) \/ ReadRegistry(c) \/ Validate(c)
    PROVE  LoadsInv'
  <1>. DEFINE Elsewhere == {"idle", "look", "catalog", "held", "load", "missing", "publish",
                            "named", "registry", "validate"}
  <1>1. TypeOK /\ call[c] \in CallType /\ call \in [Caller -> CallType]
    BY Focus DEF TypeOK
  <1>2. UNCHANGED <<registry, unresolvedTypes, loads, rows>>
    BY DEF Begin, Prepare, TypeValue, FlowAnswer, EncryptTyped, LearnCatalog, Look,
           CatalogArrives, CatalogFails, Publish, ReadHeld, RowsFail, TypeForSlug,
           ReadRegistry, Validate, cache, platform
  <1>3. call[c].pc \notin {"keep", "rekeep"}
    BY DEF Begin, Prepare, TypeValue, FlowAnswer, EncryptTyped, LearnCatalog, Look,
           CatalogArrives, CatalogFails, Publish, ReadHeld, RowsFail, TypeForSlug,
           ReadRegistry, Validate, At
  <1>. SUFFICES call'[c].pc \in Elsewhere
    BY <1>2, <1>3, QuietStep
  <1>4. ASSUME NEW s \in Slug,
               Prepare(c, s) \/ TypeValue(c, s) \/ FlowAnswer(c, s) \/ EncryptTyped(c, s)
        PROVE  call'[c].pc \in Elsewhere
    <2>1. CASE Prepare(c, s)
      BY <1>1, <2>1 DEF Prepare, Begun
    <2>2. CASE TypeValue(c, s)
      BY <1>1, <2>2 DEF TypeValue, Begun
    <2>3. CASE FlowAnswer(c, s)
      BY <1>1, <2>3 DEF FlowAnswer, Begun
    <2>4. CASE EncryptTyped(c, s)
      BY <1>1, <2>4 DEF EncryptTyped, Begun
    <2>. QED BY <1>4, <2>1, <2>2, <2>3, <2>4
  <1>5. CASE Look(c)
    <2>1. CASE ~ catalog.held
      BY <1>1, <1>5, <2>1 DEF Look, CallType
    <2>2. CASE catalog.held /\ call[c].op = "prepare"
      BY <1>1, <1>5, <2>2 DEF Look, CallType
    <2>3. CASE catalog.held /\ call[c].op = "value"
      BY <1>1, <1>5, <2>3 DEF Look, CallType
    <2>4. CASE catalog.held /\ call[c].op \notin {"prepare", "value"}
      BY <1>1, <1>5, <2>4 DEF Look, CallType
    <2>. QED BY <2>1, <2>2, <2>3, <2>4
  <1>6. ASSUME NEW S, TypeCatalog(c, S) PROVE call'[c].pc \in Elsewhere
    BY <1>1, <1>6 DEF TypeCatalog, CallType
  <1>7. CASE CatalogArrives(c)
    BY <1>6, <1>7 DEF CatalogArrives
  <1>8. CASE CatalogFails(c)
    BY <1>1, <1>6, <1>8, FinishIdle DEF CatalogFails
  <1>9. CASE Publish(c)
    BY <1>1, <1>9 DEF Publish, CallType
  <1>10. CASE ReadHeld(c)
    BY <1>1, <1>10 DEF ReadHeld, CallType
  <1>11. CASE RowsFail(c)
    BY <1>1, <1>11, FinishIdle DEF RowsFail
  <1>12. CASE TypeForSlug(c)
    <2>1. CASE Finish(c, "untyped")
      BY <1>1, <2>1, FinishIdle
    <2>2. CASE call' = [call EXCEPT ![c] = [call[c] EXCEPT !.pc = "registry",
                                                          !.body = catalog.slugs]]
      BY <1>1, <2>2 DEF CallType
    <2>3. CASE call' = [call EXCEPT ![c] = [call[c] EXCEPT !.pc = "catalog", !.asked = TRUE]]
      BY <1>1, <2>3 DEF CallType
    <2>. QED BY <1>12, <2>1, <2>2, <2>3 DEF TypeForSlug
  <1>13. CASE ReadRegistry(c)
    <2>1. CASE Finish(c, "error")
      BY <1>1, <2>1, FinishIdle
    <2>2. CASE call' = [call EXCEPT ![c] = [call[c] EXCEPT !.pc = "validate", !.reg = registry]]
      BY <1>1, <2>2 DEF CallType
    <2>3. CASE call' = [call EXCEPT ![c] = [call[c] EXCEPT !.pc = "load", !.after = "validate"]]
      BY <1>1, <2>3 DEF CallType
    <2>. QED BY <1>13, <2>1, <2>2, <2>3 DEF ReadRegistry
  <1>14. CASE Validate(c)
    BY <1>1, <1>14, FinishIdle DEF Validate
  <1>. QED
    BY <1>4, <1>5, <1>7, <1>8, <1>9, <1>10, <1>11, <1>12, <1>13, <1>14 DEF Begin, LearnCatalog

\* Every step keeps the fetches paid for.
LEMMA LoadsNext ==
    ASSUME Single, IInv, LoadsInv, [Next]_vars
    PROVE  LoadsInv'
  <1>1. TypeOK'
    BY TypeNext, IInvParts
  <1>2. CASE \/ \E s \in Slug : AddSlot(s)
             \/ \E t \in Type : AddType(t)
             \/ UNCHANGED vars
    <2>1. UNCHANGED <<registry, unresolvedTypes, loads, call>> /\ rows \subseteq rows'
      BY <1>2 DEF AddSlot, AddType, vars, cache, platform
    <2>. QED BY <2>1, StillStep
  <1>3. ASSUME NEW c \in Caller,
               \/ Begin(c) \/ LearnCatalog(c) \/ LearnTypes(c)
               \/ TypeForSlug(c) \/ ReadRegistry(c) \/ Validate(c)
        PROVE  LoadsInv'
    BY <1>1, <1>3, ArriveBound, KeepBound, MissingBound, RekeepBound, OtherBound
    DEF LearnTypes
  <1>. QED BY <1>2, <1>3 DEF Next

\* What pays for the fetches bounds them.
LEMMA LoadsBounded ==
    ASSUME Single, IInv, LoadsInv
    PROVE  RefetchesAreBounded
  <1>. DEFINE Told == unresolvedTypes \cup (rows \ FirstTypes)
              Storing == {c \in Caller : At(c, "rekeep")}
  <1>1. TypeOK /\ Shared /\ loads \in Nat
    BY IInvParts DEF TypeOK
  <1>2. IsFiniteSet(Told) /\ Cardinality(Told) \in Nat
    <2>1. Told \subseteq Type
      BY <1>1 DEF TypeOK
    <2>. QED BY <2>1, FiniteAssumption, FS_Subset, FS_CardinalityType
  <1>3. CASE Caller = {}
    <2>1. Storing = {} /\ loads = 0
      BY <1>3 DEF LoadsInv
    <2>2. Cardinality(Storing) = 0
      BY <2>1, FS_EmptySet
    <2>3. 0 <= 1 + Cardinality(Told) + 0
      BY <1>2
    <2>. QED BY <2>1, <2>2, <2>3 DEF RefetchesAreBounded
  <1>4. ASSUME NEW c \in Caller PROVE RefetchesAreBounded
    <2>1. Storing = IF At(c, "rekeep") THEN {c} ELSE {}
      BY DEF Single
    <2>2. Cardinality(Storing) = IF At(c, "rekeep") THEN 1 ELSE 0
      BY <2>1, FS_EmptySet, FS_Singleton
    <2>3. loads <= 1 + Cardinality(Told) + IF At(c, "rekeep") THEN 1 ELSE 0
      <3>1. BoundOK(c)
        BY DEF LoadsInv
      <3>2. CASE ~ registry.held
        <4>1. loads <= 1
          BY <1>1, <3>1, <3>2 DEF BoundOK
        <4>. QED BY <1>1, <1>2, <4>1
      <3>3. CASE registry.held
        <4>1. Learned \subseteq Told
          BY <1>1, <3>3 DEF Learned, Shared
        <4>2. Cardinality(Learned) <= Cardinality(Told)
          BY <1>2, <4>1, FS_Subset
        <4>3. loads <= 1 + Cardinality(Learned) + IF At(c, "rekeep") THEN 1 ELSE 0
          BY <3>1, <3>3 DEF BoundOK
        <4>4. Cardinality(Learned) \in Nat
          <5>1. Learned \in SUBSET Type
            BY <1>1 DEF TypeOK, Learned, Registry
          <5>. QED BY <5>1, TypesFinite
        <4>. QED BY <1>1, <1>2, <4>2, <4>3, <4>4
      <3>. QED BY <3>2, <3>3
    <2>. QED BY <2>2, <2>3 DEF RefetchesAreBounded
  <1>. QED BY <1>3, <1>4

\* For such a client, however many values it types and however many requests fail, the
\* registry is fetched once and then at most once for each type that was new or turned out
\* to be absent.
THEOREM RefetchesBounded == Single => (Spec => []RefetchesAreBounded)
  <1>. SUFFICES ASSUME Single PROVE Spec => []RefetchesAreBounded
    OBVIOUS
  <1>1. Init => IInv /\ LoadsInv
    BY InvInit, LoadsInit
  <1>2. IInv /\ LoadsInv /\ [Next]_vars => (IInv /\ LoadsInv)'
    BY InvNext, LoadsNext
  <1>3. IInv /\ LoadsInv => RefetchesAreBounded
    BY LoadsBounded
  <1>. QED BY <1>1, <1>2, <1>3, PTL DEF Spec
=============================================================================
