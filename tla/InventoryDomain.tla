--------------------------- MODULE InventoryDomain ---------------------------
(* The inventory (src/src/tracer/domain.ts): stock per item and reservations  *)
(* by id. The tracer's realizations and the inventory component share it.     *)
EXTENDS Integers, Sequences, FiniteSets, SequencesExt, Functions, TLC

CONSTANTS None, Failed      \* no value; an exception

With(f, x, v) == [y \in DOMAIN f \cup {x} |-> IF y = x THEN v ELSE f[y]]
Without(f, x) == [y \in DOMAIN f \ {x} |-> f[y]]

(* The inventory: a transition takes a message, a state and perhaps a fresh   *)
(* reservation id, and gives the next state and one event.                    *)
Available(st, item) == IF item \in DOMAIN st.stock THEN st.stock[item] ELSE 0

Refused(m, st, reason) ==
    [state |-> st,
     event |-> [kind |-> "ReservationRejected", item |-> m.item, quantity |-> m.quantity, reason |-> reason]]

Reserve(m, st, fresh, honorStockGuard) ==
    IF m.quantity <= 0 THEN Refused(m, st, "invalid_quantity")
    ELSE IF honorStockGuard /\ m.quantity > Available(st, m.item) THEN Refused(m, st, "insufficient_stock")
    ELSE IF fresh = None THEN Failed
    ELSE IF fresh \in DOMAIN st.reservations THEN Refused(m, st, "duplicate_reservation_id")
    ELSE [state |-> [stock |-> With(st.stock, m.item, Available(st, m.item) - m.quantity),
                     reservations |-> With(st.reservations, fresh, [item |-> m.item, quantity |-> m.quantity])],
          event |-> [kind |-> "Reserved", reservation_id |-> fresh, item |-> m.item, quantity |-> m.quantity]]

Restocked(st, id) ==
    LET r == st.reservations[id]
    IN [stock |-> With(st.stock, r.item, Available(st, r.item) + r.quantity),
        reservations |-> Without(st.reservations, id)]

Release(m, st) ==
    IF m.reservation_id \in DOMAIN st.reservations
    THEN [state |-> Restocked(st, m.reservation_id),
          event |-> [kind |-> "Released", reservation_id |-> m.reservation_id]]
    ELSE [state |-> st, event |-> [kind |-> "ReleaseRejected", reservation_id |-> m.reservation_id,
                                   reason |-> "unknown_reservation"]]

(* Only a reservation that passes both guards is given the fresh id. *)
NeedsFreshIdentifier(m, st) == m.quantity > 0 /\ m.quantity <= Available(st, m.item)

Transition(name, m, st, fresh) ==
    IF m.kind = "Release" THEN Release(m, st)
    ELSE IF name = "broken" THEN Reserve(m, st, fresh, FALSE)
    ELSE IF NeedsFreshIdentifier(m, st) THEN Reserve(m, st, fresh, TRUE)
    ELSE Reserve(m, st, None, TRUE)

(* The state that an event tells of, in a set: empty when the event cannot be *)
(* applied, which ends a replay in an exception.                              *)
ApplyEvent(st, e) ==
    IF e.kind = "Reserved"
    THEN {[stock |-> With(st.stock, e.item, Available(st, e.item) - e.quantity),
           reservations |-> With(st.reservations, e.reservation_id, [item |-> e.item, quantity |-> e.quantity])]}
    ELSE IF e.kind # "Released" THEN {st}
    ELSE IF e.reservation_id \in DOMAIN st.reservations THEN {Restocked(st, e.reservation_id)} ELSE {}

Applied(states, e) == UNION {ApplyEvent(st, e) : st \in states}

Replay(st, events) ==
    LET after[n \in 0 .. Len(events)] == IF n = 0 THEN {st} ELSE Applied(after[n - 1], events[n])
    IN after[Len(events)]

Stepped(ran, result) ==
    IF result = Failed THEN Failed ELSE [state |-> result.state, events |-> Append(ran.events, result.event)]

RunSteps(name, initial, steps) ==
    FoldLeft(LAMBDA ran, s : IF ran = Failed THEN Failed
                             ELSE Stepped(ran, Transition(name, s.message, ran.state, s.fresh)),
             [state |-> initial, events |-> <<>>], steps)

InvariantViolations(st) ==
    {item \in DOMAIN st.stock : st.stock[item] < 0}
    \cup {id \in DOMAIN st.reservations : st.reservations[id].quantity <= 0}
=============================================================================
