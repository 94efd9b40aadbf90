---------------------------- MODULE DirectDriver ----------------------------
(* src/src/semantic-system/driver.ts, runDirect: a semantic component run by  *)
(* one bounded loop. Inputs are reacted to first, in order; a reaction emits  *)
(* effect requests; when no input is left the oldest request is interpreted,  *)
(* and what the interpreter observed becomes an input again. The component's  *)
(* handler and the interpreters are anybody's: any reaction and any answer.   *)
(*                                                                            *)
(* A returned observation carries its request's action id, and is named by    *)
(* it. The component's state is the sequence of the inputs it has absorbed    *)
(* (processed); events, artifacts and payloads are left out.                  *)
(*                                                                            *)
(* Operators named X_Fault are faulty versions of X, used only as mutations.  *)
EXTENDS Integers, Sequences, SequencesExt

CONSTANTS
    Commands, Observations,   \* inputs the caller may give
    Actions,                  \* action ids
    Bounds,                   \* the bounds a caller may give
    MaxGiven,                 \* model bound: inputs given to one run
    MaxBurst                  \* model bound: requests of one reaction

Given == Commands \cup Observations
Inputs == Given \cup Actions

(* validateBound: every bound is a positive safe integer.                     *)
BoundsOf == [maximumInputs : Nat \ {0}, maximumEffects : Nat \ {0},
             maximumQueueStock : Nat \ {0}, maximumObservations : Nat \ {0}]

ASSUME BoundsArePositive == Bounds \subseteq BoundsOf
ASSUME GivenAreNotReturned == Given \cap Actions = {} /\ Commands \cap Observations = {}
ASSUME ModelBoundsAreNat == MaxGiven \in Nat /\ MaxBurst \in Nat

VARIABLES
    bounds, given,      \* the arguments: DriverBounds, initialInputs
    inputs, pending,    \* the two work queues: inputs, pendingEffects
    processed,          \* the inputs absorbed: state, processedInputs
    effects,            \* every request emitted
    observations,       \* every observation returned
    attempts,           \* every interpreter attempt reported
    seenActions,        \* action ids emitted so far
    tracedReturned,     \* tracedReturnedInputs: returned, traced, not yet absorbed
    trace,
    status              \* "running", "completed", a suspension's reason or a failure

work == <<inputs, pending, processed, effects, observations, attempts, seenActions>>
vars == <<bounds, given, work, tracedReturned, trace, status>>

(* What a run may stop with. "failed" is a typed failure of the Effect (a     *)
(* kernel or registry failure) or its interruption: the caller gets no result.*)
Suspensions == {"input_fuel_exhausted", "effect_fuel_exhausted", "observation_bound_exhausted",
                "queue_stock_exhausted", "duplicate_action",
                "interpreter_rejected", "interpreter_unknown"}
HasResult == status \in {"completed"} \cup Suspensions
QueueViolation == "queue_invariant_violated"

Entry(kind, value) == [kind |-> kind, value |-> value]
Entries(kind, values) == [i \in DOMAIN values |-> Entry(kind, values[i])]

(* The initial queue has to fit: a longer one fails the run at once.          *)
Admitted == Len(inputs) <= bounds.maximumQueueStock

Init ==
    /\ bounds \in Bounds /\ given \in BoundedSeq(Given, MaxGiven)
    /\ inputs = given /\ pending = <<>>
    /\ processed = <<>> /\ effects = <<>> /\ observations = <<>> /\ attempts = <<>>
    /\ seenActions = {} /\ tracedReturned = {} /\ trace = <<>>
    /\ status = IF Admitted THEN "running" ELSE "failed"

Stop(s) ==
    /\ status' = s
    /\ UNCHANGED <<bounds, given, work, tracedReturned, trace>>

Complete ==
    /\ status = "running" /\ inputs = <<>> /\ pending = <<>>
    /\ Stop("completed")

(* ---- an input is waiting: react -------------------------------------------*)

HasFuel_OneMore == Len(processed) <= bounds.maximumInputs
HasFuel == Len(processed) < bounds.maximumInputs
Reacting == status = "running" /\ inputs # <<>> /\ HasFuel

InputFuelExhausted ==
    /\ status = "running" /\ inputs # <<>> /\ ~HasFuel
    /\ Stop("input_fuel_exhausted")

(* kernel.ts refuses a reaction that uses one action id twice.                *)
Reactions == {r \in BoundedSeq(Actions, MaxBurst) : IsInjective(r)}

ReactionFails == Reacting /\ Stop("failed")

IsRepeated(request) == request \in seenActions
Repeats(requests) == \E i \in DOMAIN requests : IsRepeated(requests[i])

Overflows(requests) ==
    Len(Tail(inputs)) + Len(pending) + Len(requests) > bounds.maximumQueueStock

(* A suspended reaction leaves no mark: its input goes back to the front.     *)
DuplicateAction(requests) ==
    /\ Reacting
    /\ \E i \in DOMAIN requests :
          /\ IsRepeated(requests[i]) /\ \A j \in 1..(i - 1) : ~IsRepeated(requests[j])
          /\ trace' = Append(trace, Entry("diagnostic", requests[i]))
    /\ status' = "duplicate_action"
    /\ UNCHANGED <<bounds, given, work, tracedReturned>>

QueueStockExhausted_KeepsInput(requests) ==       \* without inputs.unshift(input)
    /\ Reacting /\ ~Repeats(requests) /\ Overflows(requests)
    /\ inputs' = Tail(inputs)
    /\ status' = "queue_stock_exhausted"
    /\ UNCHANGED <<bounds, given, pending, processed, effects, observations, attempts,
                   seenActions, tracedReturned, trace>>
QueueStockExhausted(requests) ==
    /\ Reacting /\ ~Repeats(requests) /\ Overflows(requests)
    /\ Stop("queue_stock_exhausted")

(* An observation the driver returned itself is in the trace already.         *)
InputEntries(input) ==
    IF input \in Commands THEN <<Entry("command", input)>>
    ELSE IF input \in tracedReturned THEN <<>> ELSE <<Entry("observation", input)>>

Remember_LastOnly(requests) ==                    \* a reaction's action ids replace the older
    IF requests = <<>> THEN seenActions ELSE ToSet(requests)
Remember(requests) == seenActions \cup ToSet(requests)

Absorb(requests) ==
    /\ Reacting /\ ~Repeats(requests) /\ ~Overflows(requests)
    /\ inputs' = Tail(inputs) /\ processed' = Append(processed, Head(inputs))
    /\ pending' = pending \o requests /\ effects' = effects \o requests
    /\ seenActions' = Remember(requests)
    /\ trace' = trace \o InputEntries(Head(inputs)) \o Entries("effect_request", requests)
    /\ tracedReturned' = tracedReturned \ {Head(inputs)}
    /\ UNCHANGED <<bounds, given, observations, attempts, status>>

(* ---- no input is waiting: interpret the oldest request --------------------*)

Interpreting ==
    /\ status = "running" /\ inputs = <<>> /\ pending # <<>>
    /\ Len(attempts) < bounds.maximumEffects
    /\ Len(observations) < bounds.maximumObservations

EffectFuelExhausted ==
    /\ status = "running" /\ inputs = <<>> /\ pending # <<>>
    /\ Len(attempts) >= bounds.maximumEffects
    /\ Stop("effect_fuel_exhausted")

ObservationBoundExhausted ==
    /\ status = "running" /\ inputs = <<>> /\ pending # <<>>
    /\ Len(attempts) < bounds.maximumEffects
    /\ Len(observations) >= bounds.maximumObservations
    /\ Stop("observation_bound_exhausted")

(* interpretEffectRequest: what an interpreter does, and what becomes of it.  *)
(* Only its own typed failure, a throw or an untyped failure of its Effect    *)
(* suspend the run; a wrong program or an unrelated observation fail it.      *)
Answers == {"observes", "fails_rejected", "fails_unknown", "throws", "dies",
            "returns_no_effect", "answers_unrelated", "interrupted"}
Outcome(answer) ==
    CASE answer = "observes" -> "observed"
      [] answer = "fails_rejected" -> "rejected"
      [] answer \in {"fails_unknown", "throws", "dies"} -> "unknown"
      [] OTHER -> "none"

InterpretationFails ==
    /\ Interpreting /\ \E answer \in Answers : Outcome(answer) = "none"
    /\ Stop("failed")

(* The request of an attempt without an observation goes back to the front,   *)
(* and nothing is tried again in this run.                                    *)
Unsettled(answer) ==
    /\ Interpreting /\ Outcome(answer) \in {"rejected", "unknown"}
    /\ LET attempt == [action |-> Head(pending), outcome |-> Outcome(answer)] IN
       /\ attempts' = Append(attempts, attempt)
       /\ trace' = Append(trace, Entry("interpreter_attempt", attempt))
    /\ status' = IF Outcome(answer) = "unknown" THEN "interpreter_unknown"
                 ELSE "interpreter_rejected"
    /\ UNCHANGED <<bounds, given, inputs, pending, processed, effects, observations,
                   seenActions, tracedReturned>>

(* An observation is queued as an input. The code checks the queue's bound    *)
(* once more and would fail.                                                  *)
Fits == Len(inputs) + Len(Tail(pending)) + 1 <= bounds.maximumQueueStock
Observed(answer) ==
    /\ Interpreting /\ Outcome(answer) = "observed"
    /\ LET action == Head(pending)
           attempt == [action |-> action, outcome |-> "observed"] IN
       /\ pending' = Tail(pending)
       /\ observations' = Append(observations, action)
       /\ attempts' = Append(attempts, attempt)
       /\ trace' = trace \o <<Entry("interpreter_attempt", attempt), Entry("observation", action)>>
       /\ tracedReturned' = tracedReturned \cup {action}
       /\ inputs' = IF Fits THEN Append(inputs, action) ELSE inputs
    /\ status' = IF Fits THEN "running" ELSE QueueViolation
    /\ UNCHANGED <<bounds, given, processed, effects, seenActions>>

Next ==
    \/ Complete
    \/ InputFuelExhausted
    \/ ReactionFails
    \/ \E requests \in Reactions :
          DuplicateAction(requests) \/ QueueStockExhausted(requests) \/ Absorb(requests)
    \/ EffectFuelExhausted
    \/ ObservationBoundExhausted
    \/ InterpretationFails
    \/ \E answer \in Answers : Unsettled(answer) \/ Observed(answer)

Spec == Init /\ [][Next]_vars

(* ---- properties -----------------------------------------------------------*)

Attempted == [action : Actions, outcome : {"observed", "rejected", "unknown"}]

(* Types, and the fuel: a run applies at most what its bounds allow.          *)
TypeOK ==
    /\ Len(processed) <= bounds.maximumInputs /\ Len(attempts) <= bounds.maximumEffects
    /\ Len(observations) <= bounds.maximumObservations
    /\ bounds \in Bounds /\ given \in Seq(Given)
    /\ inputs \in Seq(Inputs) /\ pending \in Seq(Actions)
    /\ processed \in Seq(Inputs) /\ effects \in Seq(Actions)
    /\ observations \in Seq(Actions) /\ attempts \in Seq(Attempted)
    /\ seenActions \subseteq Actions /\ tracedReturned \subseteq Actions
    /\ trace \in Seq([kind : {"command", "observation", "effect_request",
                              "interpreter_attempt", "diagnostic"},
                      value : Inputs \cup Attempted])
    /\ status \in {"running", "completed", "failed", QueueViolation} \cup Suspensions

(* The two queues together never hold more than maximumQueueStock, and the    *)
(* check runDirect makes after an observation (driver.ts:863) never fires: a  *)
(* run that interpreted its request is never thrown away for want of room.    *)
QueueStaysInBounds ==
    /\ status # "failed" => Len(inputs) + Len(pending) <= bounds.maximumQueueStock
    /\ status # QueueViolation

(* Whenever a run stops with a result, that result accounts for all the work: *)
(* every input given or returned is absorbed or remains, in order, and every  *)
(* request emitted has its observation or remains, in order. A reaction that  *)
(* was put back, or an attempt that failed, loses nothing.                    *)
NothingLost ==
    /\ given \o observations = processed \o inputs
    /\ effects = observations \o pending

(* No request's effect is carried out twice by one run, whatever action ids   *)
(* the component emits: "replay [...] repeating an external effect" is what   *)
(* seenActions and the suspension after an unknown outcome are there for.     *)
AttemptedOnce ==
    \A i, j \in DOMAIN attempts : attempts[i].action = attempts[j].action => i = j
=============================================================================
