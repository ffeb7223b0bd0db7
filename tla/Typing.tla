-------------------------------- MODULE Typing --------------------------------
(***************************************************************************)
(* How a client learns the type of a value: the request catalog (slots of  *)
(* Client in client.go, rows of one service for CustomerClient in          *)
(* customer.go), and the field-type registry that says what a type means.  *)
(*                                                                         *)
(* Both are fetched once and healed: a name the held copy lacks triggers   *)
(* one refetch, and a name still absent then is remembered as absent.  A   *)
(* request may fail at any time, and slots and types are added while the   *)
(* client runs, so a copy may be old and an absence premature.  Each       *)
(* request, and each section that CustomerClient locks, is a step of its   *)
(* own; Client takes the same steps without a lock.                        *)
(***************************************************************************)
EXTENDS Integers, FiniteSets

CONSTANTS
    Kind,        \* the clients in question: "service" (Client), "customer"
    Caller,      \* goroutines that type values on one client
    Slug,        \* request slots, or request rows
    Type,        \* field types
    TypeOf,      \* the type of each slot
    FirstSlugs,  \* slots configured before the client started
    FirstTypes   \* types served before the client started

ASSUME KindAssumption == Kind \subseteq {"service", "customer"}
ASSUME TypeOfAssumption == TypeOf \in [Slug -> Type]
ASSUME FirstAssumption == FirstSlugs \subseteq Slug /\ FirstTypes \subseteq Type
ASSUME FiniteAssumption == IsFiniteSet(Type)

\* A catalog is its slots, a registry its types; one that is not held knows none.  A
\* registry has an identity: a caller goes on using the one it read once it is replaced.
Catalog == [held : BOOLEAN, slugs : SUBSET Slug]
NoCatalog == [held |-> FALSE, slugs |-> {}]
Registry == [held : BOOLEAN, id : Nat, types : SUBSET Type]
NoRegistry == [held |-> FALSE, id |-> 0, types |-> {}]

VARIABLES
    kind,             \* which client this is
    slots,            \* platform: configured slots
    rows,             \* platform: field types served
    catalog,          \* typeBySlug with fieldsLoaded / requestTypeCache
    registry,         \* fieldTypes
    failed,           \* fieldTypesErr is set
    unresolvedSlugs,  \* slots remembered as absent (Client only)
    unresolvedTypes,  \* types remembered as absent
    resolved,         \* what the resolved map of each registry holds
    call,             \* the call each caller is in
    loads,            \* history: registry fetches that arrived
    denied            \* history: names a refetch made for them did not bring

platform == <<slots, rows>>
cache == <<catalog, registry, failed, unresolvedSlugs, unresolvedTypes, resolved>>
vars == <<kind, platform, cache, call, loads, denied>>

\* One call.  It prepares the catalog, types a slot's value, validates a flow answer or a
\* customer's answer.  body is the catalog in hand, reg the registry in hand, want the
\* types ensureTypesKnown is asked for (then those it refetches for) and after where its
\* caller goes on; asked says that ensureSlugKnown has made its refetch.
CallType ==
    [pc : {"idle", "look", "catalog", "held", "load", "keep", "missing", "reload",
           "rekeep", "publish", "named", "registry", "validate"},
     op : {"prepare", "value", "flow", "answer"},
     slug : Slug, want : SUBSET Type, after : {"publish", "registry", "validate", "idle"},
     body : SUBSET Slug, asked : BOOLEAN, reg : Registry,
     result : {"", "ready", "typed", "untyped", "unknown", "error"}]

Begun(pc, op, s) ==
    [pc |-> pc, op |-> op, slug |-> s, want |-> {}, after |-> "idle", body |-> {},
     asked |-> FALSE, reg |-> NoRegistry, result |-> ""]
Ended(s, result) == [Begun("idle", "prepare", s) EXCEPT !.result = result]

TypesOf(S) == {TypeOf[s] : s \in S}
At(c, pc) == call[c].pc = pc
Finish(c, result) == call' = [call EXCEPT ![c] = Ended(@.slug, result)]

TypeOK ==
    /\ kind \in Kind
    /\ slots \subseteq Slug
    /\ rows \subseteq Type
    /\ catalog \in Catalog
    /\ registry \in Registry
    /\ failed \in BOOLEAN
    /\ unresolvedSlugs \subseteq Slug
    /\ unresolvedTypes \subseteq Type
    /\ resolved \subseteq Nat \X Type
    /\ call \in [Caller -> CallType]
    /\ loads \in Nat
    /\ denied \in [slugs : SUBSET Slug, types : SUBSET Type]

Init ==
    /\ kind \in Kind
    /\ slots = FirstSlugs
    /\ rows = FirstTypes
    /\ catalog = NoCatalog
    /\ registry = NoRegistry
    /\ failed = FALSE
    /\ unresolvedSlugs = {}
    /\ unresolvedTypes = {}
    /\ resolved = {}
    /\ \E s \in Slug : call = [c \in Caller |-> Ended(s, "")]
    /\ loads = 0
    /\ denied = [slugs |-> {}, types |-> {}]

-----------------------------------------------------------------------------
(* The platform: a slot is configured, a type is added; neither goes away.  *)

AddSlot(s) ==
    /\ slots' = slots \cup {s}
    /\ UNCHANGED <<kind, rows, cache, call, loads, denied>>

AddType(t) ==
    /\ rows' = rows \cup {t}
    /\ UNCHANGED <<kind, slots, cache, call, loads, denied>>

-----------------------------------------------------------------------------
(* The calls.                                                               *)

Prepare(c, s) ==
    /\ kind = "service" /\ At(c, "idle")
    /\ call' = [call EXCEPT ![c] = Begun("look", "prepare", s)]
    /\ UNCHANGED <<kind, platform, cache, loads, denied>>

TypeValue(c, s) ==
    /\ kind = "service" /\ At(c, "idle")
    /\ call' = [call EXCEPT ![c] = Begun("look", "value", s)]
    /\ UNCHANGED <<kind, platform, cache, loads, denied>>

\* SubmitFlowAnswers takes the type from the pinned definition and not from the catalog.
FlowAnswer(c, s) ==
    /\ kind = "service" /\ At(c, "idle")
    /\ call' = [call EXCEPT ![c] = [Begun("held", "flow", s) EXCEPT
                    !.body = {s}, !.want = {TypeOf[s]}, !.after = "registry"]]
    /\ UNCHANGED <<kind, platform, cache, loads, denied>>

EncryptTyped(c, s) ==
    /\ kind = "customer" /\ At(c, "idle")
    /\ call' = [call EXCEPT ![c] = Begun("look", "answer", s)]
    /\ UNCHANGED <<kind, platform, cache, loads, denied>>

-----------------------------------------------------------------------------
(* The catalog: RequestFields / requestFieldTypes.                          *)

Look(c) ==
    /\ At(c, "look")
    /\ LET held == catalog.slugs
       IN  call' = [call EXCEPT ![c] =
               IF ~ catalog.held THEN [@ EXCEPT !.pc = "catalog"]
               ELSE CASE @.op = "prepare" -> [@ EXCEPT !.pc = "held", !.want = TypesOf(held)]
                      [] @.op = "value"   -> [@ EXCEPT !.pc = "named"]
                      [] OTHER            -> [@ EXCEPT !.pc = "registry", !.body = held]]
    /\ UNCHANGED <<kind, platform, cache, loads, denied>>

\* The answer is typed before it is stored: its types go through ensureTypesKnown first.
TypeCatalog(c, S) ==
    call' = [call EXCEPT ![c] =
        [@ EXCEPT !.pc = "held", !.body = S, !.want = TypesOf(S), !.after = "publish"]]

\* Mutant of CatalogArrives: the catalog is stored before its types are settled.
StoresUntyped(c) ==
    /\ At(c, "catalog")
    /\ call' = [call EXCEPT ![c] = [@ EXCEPT !.pc = "publish", !.body = slots]]
    /\ denied' = [denied EXCEPT !.slugs = IF call[c].asked THEN @ \cup ({call[c].slug} \ slots)
                                          ELSE @]
    /\ UNCHANGED <<kind, platform, cache, loads>>

CatalogArrives(c) ==
    /\ At(c, "catalog")
    /\ TypeCatalog(c, slots)
    /\ denied' = [denied EXCEPT !.slugs = IF call[c].asked THEN @ \cup ({call[c].slug} \ slots)
                                          ELSE @]
    /\ UNCHANGED <<kind, platform, cache, loads>>

\* Mutant of CatalogFails: Client too takes a failure for an empty catalog.
FailureIsEmpty(c) ==
    /\ At(c, "catalog")
    /\ TypeCatalog(c, {})
    /\ UNCHANGED <<kind, platform, cache, loads, denied>>

\* Client reports the failure; CustomerClient takes it for a service without rows.
CatalogFails(c) ==
    /\ At(c, "catalog")
    /\ IF kind = "service" THEN Finish(c, "error") ELSE TypeCatalog(c, {})
    /\ UNCHANGED <<kind, platform, cache, loads, denied>>

Publish(c) ==
    /\ At(c, "publish")
    /\ catalog' = [held |-> TRUE, slugs |-> call[c].body]
    /\ call' = [call EXCEPT ![c] =
           [@ EXCEPT !.pc = IF kind = "service" THEN "look" ELSE "registry",
                     !.want = {}, !.after = "idle"]]
    /\ UNCHANGED <<kind, platform, registry, failed, unresolvedSlugs, unresolvedTypes,
                   resolved, loads, denied>>

-----------------------------------------------------------------------------
(* The registry: FieldTypes, loadFieldTypes, ensureTypesKnown.              *)

ReadHeld(c) ==
    /\ At(c, "held")
    /\ call' = [call EXCEPT ![c] =
           IF registry.held THEN [@ EXCEPT !.pc = "missing", !.reg = registry]
           ELSE [@ EXCEPT !.pc = "load"]]
    /\ UNCHANGED <<kind, platform, cache, loads, denied>>

\* One fetch of the rows.  pc is "load" for FieldTypes, "reload" for the bounded refetch.
RowsArrive(c) ==
    /\ At(c, "load") \/ At(c, "reload")
    /\ call' = [call EXCEPT ![c] =
           [@ EXCEPT !.pc = IF At(c, "load") THEN "keep" ELSE "rekeep",
                     !.reg = [held |-> TRUE, id |-> loads + 1, types |-> rows]]]
    /\ failed' = FALSE
    /\ loads' = loads + 1
    /\ denied' = [denied EXCEPT !.types = IF At(c, "reload") THEN @ \cup (call[c].want \ rows)
                                          ELSE @]
    /\ UNCHANGED <<kind, platform, catalog, registry, unresolvedSlugs, unresolvedTypes,
                   resolved>>

RowsFail(c) ==
    /\ At(c, "load") \/ At(c, "reload")
    /\ failed' = TRUE
    /\ Finish(c, "error")
    /\ UNCHANGED <<kind, platform, catalog, registry, unresolvedSlugs, unresolvedTypes,
                   resolved, loads, denied>>

Keep(c) ==
    /\ At(c, "keep")
    /\ registry' = call[c].reg
    /\ call' = [call EXCEPT ![c].pc = IF call[c].after = "validate" THEN "validate"
                                      ELSE "missing"]
    /\ UNCHANGED <<kind, platform, catalog, failed, unresolvedSlugs, unresolvedTypes,
                   resolved, loads, denied>>

\* ensureTypesKnown returns to its caller.
Known(c) ==
    IF call[c].after = "idle" THEN Finish(c, "ready")
    ELSE call' = [call EXCEPT ![c].pc = call[c].after]

CheckMissing(c) ==
    /\ At(c, "missing")
    /\ LET missing == (call[c].want \ call[c].reg.types) \ unresolvedTypes
       IN  IF missing = {} THEN Known(c)
           ELSE call' = [call EXCEPT ![c] = [@ EXCEPT !.pc = "reload", !.want = missing]]
    /\ UNCHANGED <<kind, platform, cache, loads, denied>>

\* Mutant of Rekeep: a type that is still absent is not remembered.
ForgetsAbsence(c) ==
    /\ At(c, "rekeep")
    /\ registry' = call[c].reg
    /\ Known(c)
    /\ UNCHANGED <<kind, platform, catalog, failed, unresolvedSlugs, unresolvedTypes,
                   resolved, loads, denied>>

\* The refetch replaces the held registry once it arrived.
Rekeep(c) ==
    /\ At(c, "rekeep")
    /\ registry' = call[c].reg
    /\ unresolvedTypes' = unresolvedTypes \cup (call[c].want \ call[c].reg.types)
    /\ Known(c)
    /\ UNCHANGED <<kind, platform, catalog, failed, unresolvedSlugs, resolved, loads, denied>>

-----------------------------------------------------------------------------
(* One value.                                                               *)

\* typeForSlug, with ensureSlugKnown before and after its refetch.
TypeForSlug(c) ==
    /\ At(c, "named")
    /\ \/ /\ call[c].slug \in catalog.slugs
          /\ call' = [call EXCEPT ![c] = [@ EXCEPT !.pc = "registry", !.body = catalog.slugs]]
          /\ UNCHANGED unresolvedSlugs
       \/ /\ call[c].slug \notin catalog.slugs \cup unresolvedSlugs
          /\ ~ call[c].asked
          /\ call' = [call EXCEPT ![c] = [@ EXCEPT !.pc = "catalog", !.asked = TRUE]]
          /\ UNCHANGED unresolvedSlugs
       \/ /\ call[c].slug \notin catalog.slugs
          /\ call[c].asked \/ call[c].slug \in unresolvedSlugs
          /\ unresolvedSlugs' = unresolvedSlugs \cup {call[c].slug}
          /\ Finish(c, "untyped")
    /\ UNCHANGED <<kind, platform, catalog, registry, failed, unresolvedTypes, resolved,
                   loads, denied>>

\* loadedFieldTypes for a value of Client: a client that never asked reads the empty
\* registry, one whose request failed reports it.  FieldTypes for an answer.
ReadRegistry(c) ==
    /\ At(c, "registry")
    /\ IF registry.held \/ (call[c].op = "value" /\ ~ failed)
       THEN call' = [call EXCEPT ![c] = [@ EXCEPT !.pc = "validate", !.reg = registry]]
       ELSE IF call[c].op = "value" THEN Finish(c, "error")
       ELSE call' = [call EXCEPT ![c] = [@ EXCEPT !.pc = "load", !.after = "validate"]]
    /\ UNCHANGED <<kind, platform, cache, loads, denied>>

\* An answer to a row that the catalog in hand lacks is not validated; any other value is
\* resolved, which fills the registry's resolved map, and an unknown type accepts anything.
Validate(c) ==
    /\ At(c, "validate")
    /\ LET type == TypeOf[call[c].slug]
       IN  IF call[c].slug \in call[c].body
           THEN /\ resolved' = resolved \cup {<<call[c].reg.id, type>>}
                /\ Finish(c, IF type \in call[c].reg.types THEN "typed" ELSE "unknown")
           ELSE /\ Finish(c, "untyped")
                /\ UNCHANGED resolved
    /\ UNCHANGED <<kind, platform, catalog, registry, failed, unresolvedSlugs,
                   unresolvedTypes, loads, denied>>

Begin(c) ==
    \E s \in Slug : Prepare(c, s) \/ TypeValue(c, s) \/ FlowAnswer(c, s)
                        \/ EncryptTyped(c, s)

LearnCatalog(c) == Look(c) \/ CatalogArrives(c) \/ CatalogFails(c) \/ Publish(c)

LearnTypes(c) ==
    \/ ReadHeld(c) \/ RowsArrive(c) \/ RowsFail(c) \/ Keep(c)
    \/ CheckMissing(c) \/ Rekeep(c)

Next ==
    \/ \E s \in Slug : AddSlot(s)
    \/ \E t \in Type : AddType(t)
    \/ \E c \in Caller : \/ Begin(c) \/ LearnCatalog(c) \/ LearnTypes(c)
                         \/ TypeForSlug(c) \/ ReadRegistry(c) \/ Validate(c)

Spec == Init /\ [][Next]_vars

-----------------------------------------------------------------------------
(* Properties.                                                              *)

\* A held catalog names no type that is neither in the held registry nor known to be
\* absent from this deployment: a catalog stored ahead of a failed heal is never retried,
\* and every value it types is read through a registry that does not know the type.
RegistryCoversCatalog ==
    catalog.held => /\ registry.held
                    /\ TypesOf(catalog.slugs) \subseteq registry.types \cup unresolvedTypes

\* An absence is the deployment's verdict, never a stand-in for a request that did not
\* happen: a slot or type is remembered as absent, and a value of Client is read as
\* untyped or accepted as of an unknown type, only once a refetch made for that very name
\* came back without it.
AbsenceIsAVerdict ==
    /\ unresolvedSlugs \subseteq denied.slugs
    /\ unresolvedTypes \subseteq denied.types
    /\ \A c \in Caller :
           /\ call[c].result = "untyped" /\ kind = "service"
                  => call[c].slug \in denied.slugs
           /\ call[c].result = "unknown" => TypeOf[call[c].slug] \in denied.types

\* "One bounded refetch, never asked for again": however many values are typed, the
\* registry is fetched once and then once for each type that was new or turned out absent.
RefetchesAreBounded ==
    loads <= 1 + Cardinality(unresolvedTypes \cup (rows \ FirstTypes))
               + Cardinality({c \in Caller : At(c, "rekeep")})

\* The resolved map of a registry is never read or written by one goroutine while another
\* writes it: resolving a type that the map lacks writes the map, without a lock.
ResolvesAlone ==
    \A c, d \in Caller :
        /\ c # d /\ At(c, "validate") /\ At(d, "validate")
        /\ call[c].slug \in call[c].body /\ call[d].slug \in call[d].body
        /\ call[c].reg.id = call[d].reg.id
        => <<call[c].reg.id, TypeOf[call[c].slug]>> \in resolved
=============================================================================
