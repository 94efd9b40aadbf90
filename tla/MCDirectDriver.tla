--------------------------- MODULE MCDirectDriver ---------------------------
(* The direct driver under every choice of small bounds; beside it, the       *)
(* inventory component in its actor, with two commands of one item, one       *)
(* identifier to give and observations that may be late, repeated or wrong.   *)
EXTENDS DirectDriver, InventoryActor

CONSTANTS MaxBound, MaxStock
MCBounds == [maximumInputs : 1..MaxBound, maximumEffects : 1..MaxBound,
             maximumQueueStock : 1..MaxStock, maximumObservations : 1..MaxBound]

ActionSymmetry == Permutations(Actions)
-----------------------------------------------------------------------------
(* The inventory's definition, and four that differ from it: two that are     *)
(* refused, and two whose kernel refuses an event or an answer later.         *)
Family(schemaId, tags) == [schemaId |-> schemaId, tags |-> tags]
AuthoredInventory ==
    [id |-> "inventory", stateSchemaId |-> "state",
     families |-> [command |-> Family("commands", <<"Reserve", "Release">>),
                   observation |-> Family("observations", <<"FreshIdentifierAllocated",
                                          "FreshIdentifierUnavailable", "FreshIdentifierUnknown">>),
                   query |-> Family("queries", <<"InventoryStatus">>),
                   event |-> Family("events", <<"Reserved", "Released", "ReservationRejected",
                                                "ReleaseRejected", "IdentifierOutcomeUnknown">>),
                   artifact |-> Family("artifacts", <<"InventoryStatusArtifact">>),
                   effect |-> Family("effects", <<"FreshIdentifierRequested">>)],
     protocols |-> <<[requestTag |-> "FreshIdentifierRequested", maximumTurns |-> 1,
                      observationTags |-> {"FreshIdentifierAllocated", "FreshIdentifierUnavailable",
                                           "FreshIdentifierUnknown"}]>>]
MCAuthoredSpecs ==
    {AuthoredInventory, [AuthoredInventory EXCEPT !.protocols = <<>>],
     [AuthoredInventory EXCEPT !.families.query.tags = <<"Reserve">>],
     [AuthoredInventory EXCEPT !.families.event.tags = <<"Reserved", "ReservationRejected">>],
     [AuthoredInventory EXCEPT !.families.artifact.tags = <<"Another">>]}

Held(q) == [item |-> "i", quantity |-> q]
MCFirstStocks ==
    {[stock |-> [i |-> 2], reservations |-> <<>>],
     [stock |-> [i |-> 1], reservations |-> [r1 |-> Held(1)]],
     [stock |-> [i |-> MaxSafeInteger], reservations |-> [r3 |-> Held(2)]],
     [stock |-> [i |-> MaxSafeInteger + 1], reservations |-> <<>>]}

MCIdentifiers == <<"r1">>

Envelope(category, schemaId, id, payload) ==
    [category |-> category, componentId |-> "inventory", schemaId |-> schemaId, messageId |-> id,
     correlationId |-> Append(id, "journey"), causationId |-> None, actionId |-> None, payload |-> payload]
MCCommandEnvelopes ==
    LET payloads == {[kind |-> "Reserve", item |-> "i", quantity |-> q] : q \in {0, 1, 2}}
                    \cup {[kind |-> "Release", reservation_id |-> id] : id \in {"r1", "r3"}}
        asks == Envelope("query", "queries", <<"q1">>, [kind |-> "InventoryStatus"])
        well == {Envelope("command", "commands", id, p) : id \in {<<"m1">>, <<"m2">>}, p \in payloads}
    IN well \cup {asks, [asks EXCEPT !.componentId = "another"], [asks EXCEPT !.category = "command"]}

Outside(id, m, payload) ==
    [Envelope("observation", "observations", id, payload)
        EXCEPT !.correlationId = <<m, "journey">>, !.causationId = <<m, "request">>,
               !.actionId = <<m, "fresh">>]
MCOutsideObservations ==
    LET allocated(id) == [kind |-> "FreshIdentifierAllocated", identifier |-> id]
        late == {Outside(<<"o1">>, m, p) : m \in {"m1", "m2"},
                 p \in {allocated("r1"), [kind |-> "FreshIdentifierUnknown"],
                        [kind |-> "FreshIdentifierUnavailable", reason |-> "outside"]}}
        right == Outside(<<"o2">>, "m1", allocated("r2"))
        early == Outside(<<"m1", "request", "observation">>, "m1", allocated("r2"))
    IN late \cup {right, [right EXCEPT !.actionId = None],
                  [right EXCEPT !.correlationId = <<"m2", "journey">>],
                  [early EXCEPT !.causationId = <<"m2", "request">>]}
-----------------------------------------------------------------------------
(* A behaviour is of the driver or of the inventory: the two share nothing.   *)
VARIABLE scene

DriverIsAway ==
    /\ Init /\ given = <<>> /\ status = "running"
    /\ bounds = [maximumInputs |-> 1, maximumEffects |-> 1, maximumQueueStock |-> 1, maximumObservations |-> 1]

MCInit ==
    /\ ActorInit
    /\ \/ scene = "driver" /\ Init
       \/ scene = "inventory" /\ DriverIsAway

MCNext ==
    \/ scene = "driver" /\ Next /\ UNCHANGED <<actorVars, scene>>
    \/ scene = "inventory" /\ ActorNext /\ UNCHANGED <<vars, scene>>

MCSpec == MCInit /\ [][MCNext]_<<vars, actorVars, scene>>
=============================================================================
