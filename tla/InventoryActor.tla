---------------------------- MODULE InventoryActor ----------------------------
(* The inventory as an open component behind the semantic kernel, in an actor *)
(* (src/src/semantic-system: definition, kernel, inventory, actor, driver's   *)
(* registry). A reservation that passes the guards asks the outside for a     *)
(* fresh identifier and waits; the answer, a late one, a repeated one or one  *)
(* that is not an answer to it comes back as an observation. The actor takes  *)
(* one input at a time (ActorRuntime); its environment is free to send any    *)
(* message in any order, so the mailbox adds no behaviour and is left out.    *)
(*                                                                            *)
(* A payload's tag is its field kind, spelled as the tracer spells it; an     *)
(* identity is a sequence, longer when built from another. Diagnostics are    *)
(* left out.                                                                  *)
(*                                                                            *)
(* NoLonger_PendingOnly is a faulty version of NoLonger, used as a mutation.  *)
EXTENDS InventoryDomain

CONSTANTS
    AuthoredSpecs,      \* what a component may be defined from
    FirstStocks,        \* the inventories the actor may be started with
    CommandEnvelopes,   \* the commands and queries a client may send
    OutsideObservations,    \* observations that no registry made
    Identifiers,        \* the registry's sequence of identifiers
    MaxSafeInteger,     \* what an integer of a state may reach
    MaxInputs, MaxInterpretations       \* bounds of the model

VARIABLES
    component,  \* the defined component, or None
    started,    \* the inventory the actor was started with, None until then
    semantic,   \* InventorySemanticState
    journey,    \* [events, effects]: normalizeActorReactions of the reactions
    returned,   \* observations interpretEffectRequest returned, in order
    taken       \* how many inputs were sent; Failed when the actor has failed

actorVars == <<component, started, semantic, journey, returned, taken>>
-----------------------------------------------------------------------------
(* Defining the component: every family has a schema of its own and tags      *)
(* nobody else has, and every effect request has one protocol.                *)
Categories == {"command", "observation", "query", "event", "artifact", "effect"}

FamilyIsValid(family) == family.schemaId # "" /\ family.tags # <<>> /\ IsInjective(family.tags)

TagsOf(spec, category) == ToSet(spec.families[category].tags)

ProtocolIsValid(spec, protocol) ==
    /\ protocol.requestTag \in TagsOf(spec, "effect")
    /\ protocol.observationTags # {} /\ protocol.observationTags \subseteq TagsOf(spec, "observation")
    /\ protocol.maximumTurns > 0

SpecIsValid(spec) ==
    LET schemas(c) == spec.families[c].schemaId
        requests == {p.requestTag : p \in ToSet(spec.protocols)}
    IN /\ \A c \in Categories : FamilyIsValid(spec.families[c]) /\ schemas(c) # spec.stateSchemaId
       /\ \A c, d \in Categories :
            c # d => TagsOf(spec, c) \cap TagsOf(spec, d) = {} /\ schemas(c) # schemas(d)
       /\ \A i \in DOMAIN spec.protocols : ProtocolIsValid(spec, spec.protocols[i])
       /\ Cardinality(requests) = Len(spec.protocols) /\ TagsOf(spec, "effect") \subseteq requests

(* ---- what the schemas decode ----------------------------------------------*)
IsSafe(n) == -MaxSafeInteger <= n /\ n <= MaxSafeInteger
InventoryDecodes(st) ==
    /\ \A item \in DOMAIN st.stock : IsSafe(st.stock[item])
    /\ \A id \in DOMAIN st.reservations : IsSafe(st.reservations[id].quantity)

KindsOf == [command |-> {"Reserve", "Release"}, query |-> {"InventoryStatus"},
            observation |-> {"FreshIdentifierAllocated", "FreshIdentifierUnavailable", "FreshIdentifierUnknown"}]
FieldsOf == [Reserve |-> {"kind", "item", "quantity"}, Release |-> {"kind", "reservation_id"},
             FreshIdentifierAllocated |-> {"kind", "identifier"},
             FreshIdentifierUnavailable |-> {"kind", "reason"}, FreshIdentifierUnknown |-> {"kind"},
             InventoryStatus |-> {"kind"}]

Decodes(category, payload) ==
    payload.kind \in KindsOf[category] /\ DOMAIN payload = FieldsOf[payload.kind]

(* The values of the schemas are what their types say.                        *)
IsInventory(st) ==
    /\ st = [stock |-> st.stock, reservations |-> st.reservations]
    /\ \A item \in DOMAIN st.stock : st.stock[item] \in Int
    /\ \A id \in DOMAIN st.reservations : st.reservations[id].quantity \in Int

IsIdentity(id) == id \in Seq(ToSet(id))

ASSUME FirstStocksAreInventories == \A st \in FirstStocks : IsInventory(st)
ASSUME IdentifiersAreGiven == IsIdentity(Identifiers) /\ None \notin ToSet(Identifiers)
ASSUME InputsAreTyped ==
    \A input \in CommandEnvelopes \cup OutsideObservations :
        /\ input.category \in DOMAIN KindsOf /\ IsIdentity(input.messageId)
        /\ "quantity" \in DOMAIN input.payload => input.payload.quantity \in Int
        /\ "identifier" \in DOMAIN input.payload => input.payload.identifier # None

(* react and answer take an input only of this component, of the schema of    *)
(* its category, and with a payload that the family declares.                 *)
InputIsGuarded(input) ==
    /\ input.componentId = component.id
    /\ input.schemaId = component.families[input.category].schemaId
    /\ Decodes(input.category, input.payload) /\ input.payload.kind \in TagsOf(component, input.category)
-----------------------------------------------------------------------------
(* The handler: a draft is the next state, the events and the effect requests.*)
ReferenceState(st) == [stock |-> st.stock, reservations |-> st.reservations]
WithReference(st, next) == [st EXCEPT !.stock = next.stock, !.reservations = next.reservations]

Emission(input, event) ==
    [messageId |-> Append(input.messageId, "event"), correlationId |-> input.correlationId,
     causationId |-> input.messageId, payload |-> event]

NoOutput(st) == [state |-> st, events |-> <<>>, effects |-> <<>>]
Emits(st, input, event) == [NoOutput(st) EXCEPT !.events = <<Emission(input, event)>>]

Request(input) ==
    [category |-> "effect", componentId |-> component.id,
     schemaId |-> component.families["effect"].schemaId,
     messageId |-> Append(input.messageId, "request"), correlationId |-> input.correlationId,
     causationId |-> input.messageId, actionId |-> Append(input.messageId, "fresh"),
     payload |-> [kind |-> "FreshIdentifierRequested", item |-> input.payload.item,
                  quantity |-> input.payload.quantity]]

Waits(request) ==
    [commandMessageId |-> request.causationId, requestMessageId |-> request.messageId,
     correlationId |-> request.correlationId, item |-> request.payload.item,
     quantity |-> request.payload.quantity]

IsWaiting(st, action) == action \in DOMAIN st.pending \cup DOMAIN st.unknown

AskIdentifier(st, request) ==
    IF IsWaiting(st, request.actionId) THEN NoOutput(st)
    ELSE [NoOutput([st EXCEPT !.pending = With(@, request.actionId, Waits(request))])
            EXCEPT !.effects = <<request>>]

ReactCommand(st, input) ==
    LET m == input.payload
        accepted == [st EXCEPT !.processedCommands = @ \cup {input.messageId}]
        next == Transition("reference", m, ReferenceState(st), None)
    IN IF input.messageId \in st.processedCommands THEN NoOutput(st)
       ELSE IF m.kind = "Reserve" /\ NeedsFreshIdentifier(m, st)
            THEN AskIdentifier(accepted, Request(input))
       ELSE Emits(WithReference(accepted, next.state), input, next.event)

WaitingFor(st, action) ==
    IF action \in DOMAIN st.pending THEN st.pending[action] ELSE st.unknown[action]

AnswersRequest(st, input) ==
    /\ input.actionId # None /\ IsWaiting(st, input.actionId)
    /\ input.correlationId = WaitingFor(st, input.actionId).correlationId
    /\ input.causationId = WaitingFor(st, input.actionId).requestMessageId

NoLonger_PendingOnly(st, action) == [st EXCEPT !.pending = Without(@, action)]
NoLonger(st, action) == [st EXCEPT !.pending = Without(@, action), !.unknown = Without(@, action)]

(* The reservation is decided again, by the stock there is now. *)
Allocate(st, input, waiting) ==
    LET m == [kind |-> "Reserve", item |-> waiting.item, quantity |-> waiting.quantity]
        next == Transition("reference", m, ReferenceState(st), input.payload.identifier)
    IN Emits(WithReference(st, next.state), input, next.event)

Settle(st, input, waiting) ==
    LET base == NoLonger(st, input.actionId)
    IN CASE input.payload.kind = "FreshIdentifierUnknown" ->
              Emits([base EXCEPT !.unknown = With(@, input.actionId, waiting)], input,
                    [kind |-> "IdentifierOutcomeUnknown", actionId |-> input.actionId])
         [] input.payload.kind = "FreshIdentifierUnavailable" ->
              Emits(base, input, [kind |-> "ReservationRejected", item |-> waiting.item,
                                  quantity |-> waiting.quantity, reason |-> "identifier_unavailable"])
         [] OTHER -> Allocate(base, input, waiting)

ReactObservation(st, input) ==
    LET seen == [st EXCEPT !.processedObservations = @ \cup {input.messageId}]
    IN IF input.messageId \in st.processedObservations THEN NoOutput(st)
       ELSE IF AnswersRequest(st, input) THEN Settle(seen, input, WaitingFor(st, input.actionId))
       ELSE NoOutput(seen)

(* The kernel publishes a draft whole, or the reaction fails: the next state  *)
(* must decode, every emission be declared, and no identity be emitted twice. *)
DraftIsGuarded(draft) ==
    LET ids(emissions) == {emissions[i].messageId : i \in DOMAIN emissions}
        declared(emissions, category) ==
            \A i \in DOMAIN emissions : emissions[i].payload.kind \in TagsOf(component, category)
    IN /\ InventoryDecodes(draft.state)
       /\ declared(draft.events, "event") /\ declared(draft.effects, "effect")
       /\ IsInjective([i \in DOMAIN draft.effects |-> draft.effects[i].actionId])
       /\ Cardinality(ids(draft.events) \cup ids(draft.effects)) = Len(draft.events) + Len(draft.effects)

Draft(input) ==
    IF input.category = "command" THEN ReactCommand(semantic, input) ELSE ReactObservation(semantic, input)
-----------------------------------------------------------------------------
(* The actor. A failed transition ends it: its state is kept, nothing is      *)
(* published, and no later input is taken.                                    *)
IsOpen == started # None /\ taken # Failed

Define(spec) ==
    /\ component = None /\ started = None
    /\ SpecIsValid(spec) /\ component' = spec
    /\ UNCHANGED <<started, semantic, journey, returned, taken>>

Start(st) ==
    /\ component # None /\ started = None /\ InventoryDecodes(st)
    /\ started' = st
    /\ semantic' = [stock |-> st.stock, reservations |-> st.reservations, pending |-> <<>>,
                    unknown |-> <<>>, processedCommands |-> {}, processedObservations |-> {}]
    /\ UNCHANGED <<component, journey, returned, taken>>

Take == IsOpen /\ taken < MaxInputs

React(input) ==
    LET draft == Draft(input)
    IN /\ Take /\ input.category \in {"command", "observation"} /\ InputIsGuarded(input)
       /\ DraftIsGuarded(draft)
       /\ semantic' = draft.state /\ taken' = taken + 1
       /\ journey' = [events |-> journey.events \o draft.events, effects |-> journey.effects \o draft.effects]
       /\ UNCHANGED <<component, started, returned>>

(* A query's answer is an artifact made of the state; the actor keeps the     *)
(* state it had.                                                              *)
Answer(input) ==
    /\ Take /\ input.category = "query" /\ InputIsGuarded(input)
    /\ "InventoryStatusArtifact" \in TagsOf(component, "artifact")
    /\ taken' = taken + 1
    /\ UNCHANGED <<component, started, semantic, journey, returned>>

InputFails(input) ==
    /\ Take
    /\ \/ ~InputIsGuarded(input)
       \/ input.category = "query" /\ "InventoryStatusArtifact" \notin TagsOf(component, "artifact")
       \/ input.category # "query" /\ InputIsGuarded(input) /\ ~DraftIsGuarded(Draft(input))
    /\ taken' = Failed
    /\ UNCHANGED <<component, started, semantic, journey, returned>>

(* interpretEffectRequest with the deterministic registry: any request that   *)
(* was emitted may be interpreted, and again, since nothing remembers it.     *)
Interpreted(request) ==
    LET next == Len(returned) + 1
        payload == IF next > Len(Identifiers)
                   THEN [kind |-> "FreshIdentifierUnavailable", reason |-> "deterministic_sequence_exhausted"]
                   ELSE [kind |-> "FreshIdentifierAllocated", identifier |-> Identifiers[next]]
    IN [category |-> "observation", componentId |-> component.id,
        schemaId |-> component.families["observation"].schemaId,
        messageId |-> Append(request.messageId, "observation"), correlationId |-> request.correlationId,
        causationId |-> request.messageId, actionId |-> request.actionId, payload |-> payload]

Observes(request, kind) ==
    \E p \in ToSet(component.protocols) :
        p.requestTag = request.payload.kind /\ kind \in p.observationTags

Interpret(request) ==
    /\ Len(returned) < MaxInterpretations
    /\ Observes(request, Interpreted(request).payload.kind)
    /\ returned' = Append(returned, Interpreted(request))
    /\ UNCHANGED <<component, started, semantic, journey, taken>>

Sent == CommandEnvelopes \cup OutsideObservations \cup ToSet(returned)

ActorInit ==
    /\ component = None /\ started = None /\ semantic = None
    /\ journey = [events |-> <<>>, effects |-> <<>>] /\ returned = <<>> /\ taken = 0

ActorNext ==
    \/ \E spec \in AuthoredSpecs : Define(spec)
    \/ \E st \in FirstStocks : Start(st)
    \/ \E input \in Sent : React(input) \/ Answer(input) \/ InputFails(input)
    \/ \E request \in ToSet(journey.effects) : Interpret(request)

InventorySpec == ActorInit /\ [][ActorNext]_actorVars
-----------------------------------------------------------------------------
(* projectInventoryReferenceEvent: the published events that the tracer's     *)
(* inventory knows of. A replay changes nothing for any other.                *)
Payloads == [i \in DOMAIN journey.events |-> journey.events[i].payload]
ReferenceEvents == {i \in DOMAIN Payloads : Payloads[i].kind # "IdentifierOutcomeUnknown"}

(* Whatever was sent, sent again, answered late, answered wrongly or refused, *)
(* the published events tell the inventory: replayed from the stock it was    *)
(* started with they give its stock and reservations, with nothing below zero *)
(* when nothing was at the start; and every command taken is settled by       *)
(* exactly one of them, or waits in exactly one of pending and unknown        *)
(* (src/design-specs/0016: an allocated observation applies the reservation   *)
(* exactly once).                                                             *)
EventsTellTheInventory ==
    started # None =>
        /\ Replay(started, Payloads) = {ReferenceState(semantic)}
        /\ InvariantViolations(started) = {} => InvariantViolations(semantic) = {}
        /\ DOMAIN semantic.pending \cap DOMAIN semantic.unknown = {}
        /\ Cardinality(semantic.processedCommands)
             = Cardinality(ReferenceEvents) + Cardinality(DOMAIN semantic.pending \cup DOMAIN semantic.unknown)
=============================================================================
