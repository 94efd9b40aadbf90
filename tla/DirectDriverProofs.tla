------------------------- MODULE DirectDriverProofs -------------------------
(* Proofs about DirectDriver, for every set of commands, observations and     *)
(* actions and every set of positive bounds; the trace has no part in them.   *)
(* Then about InventoryActor, for every definition, stock and input.          *)
EXTENDS DirectDriver, InventoryActor, SequenceTheorems, FiniteSetTheorems, WellFoundedInduction, TLAPS

Types ==
    /\ bounds \in BoundsOf /\ given \in Seq(Inputs)
    /\ inputs \in Seq(Inputs) /\ pending \in Seq(Actions)
    /\ processed \in Seq(Inputs) /\ effects \in Seq(Actions)
    /\ observations \in Seq(Actions) /\ attempts \in Seq(Attempted)

(* The steps that only end the run.                                           *)
Ends ==
    /\ status = "running" /\ status' \in {"completed", "failed"} \cup Suspensions
    /\ UNCHANGED <<bounds, given, work>>

LEMMA NextCases ==
    ASSUME [Next]_vars
    PROVE  \/ Ends
           \/ \E requests \in Reactions : Absorb(requests)
           \/ \E answer \in Answers : Unsettled(answer) \/ Observed(answer)
           \/ UNCHANGED <<bounds, given, work, status>>
<1>1. CASE Complete \/ InputFuelExhausted \/ ReactionFails \/ EffectFuelExhausted
           \/ ObservationBoundExhausted \/ InterpretationFails
  BY <1>1 DEF Complete, InputFuelExhausted, ReactionFails, Reacting, EffectFuelExhausted,
     ObservationBoundExhausted, InterpretationFails, Interpreting, Stop, Ends, Suspensions
<1>2. CASE \E requests \in Reactions : DuplicateAction(requests) \/ QueueStockExhausted(requests)
  BY <1>2 DEF DuplicateAction, QueueStockExhausted, Reacting, Stop, Ends, Suspensions
<1>3. CASE UNCHANGED vars
  BY <1>3 DEF vars
<1> QED BY <1>1, <1>2, <1>3 DEF Next

(* A reaction's requests form a sequence of distinct actions.                 *)
LEMMA ReactionProperties ==
    ASSUME NEW requests \in Reactions
    PROVE  /\ requests \in Seq(Actions)
           /\ \A i, j \in DOMAIN requests : requests[i] = requests[j] => i = j
<1>1. \E m \in 0..MaxBurst : requests \in [1..m -> Actions]
  BY DEF Reactions, BoundedSeq, SeqOf
<1>2. PICK m \in 0..MaxBurst : requests \in [1..m -> Actions]
  BY <1>1
<1>3. requests \in Seq(Actions)
  <2>1. m \in Nat
    BY ModelBoundsAreNat
  <2> QED BY <1>2, <2>1
<1>4. IsInjective(requests)
  BY DEF Reactions
<1> QED BY <1>3, <1>4 DEF IsInjective

(* A queue is its head followed by its tail.                                  *)
LEMMA Unqueue ==
    ASSUME NEW S, NEW q \in Seq(S), q # <<>>
    PROVE  q = <<Head(q)>> \o Tail(q)
<1>1. /\ Head(q) \in S /\ Tail(q) \in Seq(S) /\ Len(Tail(q)) = Len(q) - 1
      /\ \A i \in 1 .. Len(Tail(q)) : Tail(q)[i] = q[i + 1]
  BY HeadTailProperties
<1>2. <<Head(q)>> \in Seq(S) /\ Len(<<Head(q)>>) = 1
  BY <1>1
<1>3. Len(<<Head(q)>> \o Tail(q)) = Len(q)
  BY <1>1, <1>2
<1>4. \A i \in 1 .. Len(q) : (<<Head(q)>> \o Tail(q))[i] = q[i]
  BY <1>1, <1>2
<1>5. <<Head(q)>> \o Tail(q) \in Seq(S)
  BY <1>1, <1>2, ConcatProperties
<1> QED BY <1>3, <1>4, <1>5, SeqEqual

(* Taking the head of a queue and appending it to what is done keeps what was *)
(* done and what is to do, put together, the same.                            *)
LEMMA MoveKeepsOrder ==
    ASSUME NEW S, NEW done \in Seq(S), NEW q \in Seq(S), q # <<>>
    PROVE  Append(done, Head(q)) \o Tail(q) = done \o q
<1>1. Head(q) \in S /\ Tail(q) \in Seq(S) /\ <<Head(q)>> \in Seq(S)
  BY HeadTailProperties
<1>2. Append(done, Head(q)) = done \o <<Head(q)>>
  BY <1>1, AppendIsConcat
<1>3. (done \o <<Head(q)>>) \o Tail(q) = done \o (<<Head(q)>> \o Tail(q))
  BY <1>1, ConcatAssociative
<1> QED BY <1>2, <1>3, Unqueue

-----------------------------------------------------------------------------
LEMMA TypesInit == Init => Types
<1> SUFFICES ASSUME Init PROVE Types
  OBVIOUS
<1>1. given \in Seq(Inputs)
  <2>1. PICK m \in 0..MaxGiven : given \in [1..m -> Given]
    BY DEF Init, BoundedSeq, SeqOf
  <2>2. m \in Nat /\ Given \subseteq Inputs
    BY ModelBoundsAreNat DEF Inputs
  <2>3. given \in [1..m -> Inputs]
    BY <2>1, <2>2
  <2> QED BY <2>2, <2>3
<1>2. <<>> \in Seq(Inputs) /\ <<>> \in Seq(Actions) /\ <<>> \in Seq(Attempted)
  BY EmptySeq
<1> QED BY <1>1, <1>2, BoundsArePositive DEF Init, Types

LEMMA TypesStep ==
    ASSUME Types, [Next]_vars PROVE Types'
<1> USE DEF Types
<1>1. CASE Ends
  BY <1>1 DEF Ends, work
<1>2. ASSUME NEW requests \in Reactions, Absorb(requests) PROVE Types'
  <2>1. requests \in Seq(Actions)
    BY ReactionProperties
  <2>2. Head(inputs) \in Inputs /\ Tail(inputs) \in Seq(Inputs)
    BY <1>2, HeadTailProperties DEF Absorb, Reacting
  <2>3. pending \o requests \in Seq(Actions) /\ effects \o requests \in Seq(Actions)
    BY <2>1, ConcatProperties
  <2>4. Append(processed, Head(inputs)) \in Seq(Inputs)
    BY <2>2, AppendProperties
  <2> QED BY <1>2, <2>2, <2>3, <2>4 DEF Absorb
<1>3. ASSUME NEW answer \in Answers, Interpreting,
             NEW outcome \in {"observed", "rejected", "unknown"}
      PROVE  /\ Head(pending) \in Actions /\ Tail(pending) \in Seq(Actions)
             /\ Append(attempts, [action |-> Head(pending), outcome |-> outcome]) \in Seq(Attempted)
  <2>1. Head(pending) \in Actions /\ Tail(pending) \in Seq(Actions)
    BY <1>3, HeadTailProperties DEF Interpreting
  <2>2. [action |-> Head(pending), outcome |-> outcome] \in Attempted
    BY <2>1 DEF Attempted
  <2> QED BY <2>1, <2>2, AppendProperties
<1>4. ASSUME NEW answer \in Answers, Unsettled(answer) PROVE Types'
  <2>1. Interpreting /\ Outcome(answer) \in {"observed", "rejected", "unknown"}
    BY <1>4 DEF Unsettled
  <2>2. attempts' \in Seq(Attempted)
    BY <1>3, <1>4, <2>1 DEF Unsettled
  <2> QED BY <1>4, <2>2 DEF Unsettled
<1>5. ASSUME NEW answer \in Answers, Observed(answer) PROVE Types'
  <2>1. Interpreting
    BY <1>5 DEF Observed
  <2>2. attempts' \in Seq(Attempted)
    BY <1>3, <1>5, <2>1 DEF Observed
  <2>3. Head(pending) \in Actions /\ Head(pending) \in Inputs /\ Tail(pending) \in Seq(Actions)
    BY <1>3, <2>1 DEF Inputs
  <2>4. Append(observations, Head(pending)) \in Seq(Actions)
    BY <2>3, AppendProperties
  <2>5. Append(inputs, Head(pending)) \in Seq(Inputs)
    BY <2>3, AppendProperties
  <2> QED BY <1>5, <2>2, <2>3, <2>4, <2>5 DEF Observed
<1>6. CASE UNCHANGED <<bounds, given, work, status>>
  BY <1>6 DEF work
<1> QED BY <1>1, <1>2, <1>4, <1>5, <1>6, NextCases

LEMMA TypesHold == Spec => []Types
<1> QED BY TypesInit, TypesStep, PTL DEF Spec

-----------------------------------------------------------------------------
(* The two work queues never hold more than maximumQueueStock: a reaction's   *)
(* requests are admitted against both queues, and an observation takes the    *)
(* place its request has left.                                                *)
THEOREM QueueStaysInBoundsHolds == Spec => []QueueStaysInBounds
<1> USE DEF QueueStaysInBounds, QueueViolation
<1>1. Init => QueueStaysInBounds
  BY DEF Init, Admitted
<1>2. ASSUME QueueStaysInBounds, Types, [Next]_vars PROVE QueueStaysInBounds'
  <2>1. CASE Ends
    BY <1>2, <2>1 DEF Ends, work, Suspensions
  <2>2. ASSUME NEW requests \in Reactions, Absorb(requests) PROVE QueueStaysInBounds'
    <3>1. requests \in Seq(Actions)
      BY ReactionProperties
    <3>2. Len(pending \o requests) = Len(pending) + Len(requests)
      BY <1>2, <3>1, ConcatProperties DEF Types
    <3>3. Tail(inputs) \in Seq(Inputs)
      BY <1>2, <2>2, HeadTailProperties DEF Absorb, Reacting, Types
    <3>4. Len(Tail(inputs)) + Len(pending) + Len(requests) <= bounds.maximumQueueStock
      <4>1. bounds.maximumQueueStock \in Nat
        BY <1>2 DEF Types, BoundsOf
      <4>2. /\ Len(Tail(inputs)) \in Nat /\ Len(pending) \in Nat /\ Len(requests) \in Nat
        BY <1>2, <3>1, <3>3, LenProperties DEF Types
      <4> QED BY <2>2, <4>1, <4>2 DEF Absorb, Overflows
    <3> QED BY <2>2, <1>2, <3>1, <3>2, <3>3, <3>4, LenProperties DEF Absorb, Reacting, Types
  <2>3. ASSUME NEW answer \in Answers, Unsettled(answer) PROVE QueueStaysInBounds'
    BY <1>2, <2>3 DEF Unsettled, Interpreting
  <2>4. ASSUME NEW answer \in Answers, Observed(answer) PROVE QueueStaysInBounds'
    <3>1. /\ status = "running" /\ inputs = <<>> /\ pending # <<>>
          /\ pending' = Tail(pending) /\ bounds' = bounds
          /\ inputs' = (IF Fits THEN Append(inputs, Head(pending)) ELSE inputs)
          /\ status' = (IF Fits THEN "running" ELSE QueueViolation)
      BY <2>4 DEF Observed, Interpreting
    <3>2. Len(Tail(pending)) = Len(pending) - 1 /\ Len(pending) \in Nat /\ Head(pending) \in Actions
      BY <1>2, <3>1, HeadTailProperties, LenProperties DEF Types
    <3>3. Len(inputs) = 0 /\ Len(Append(inputs, Head(pending))) = 1
      BY <3>1
    <3>4. Fits
      BY <1>2, <3>1, <3>2, <3>3 DEF Fits
    <3> QED BY <1>2, <3>1, <3>2, <3>3, <3>4
  <2>5. CASE UNCHANGED <<bounds, given, work, status>>
    BY <1>2, <2>5 DEF work
  <2> QED BY <1>2, <2>1, <2>2, <2>3, <2>4, <2>5, NextCases
<1> QED BY <1>1, <1>2, TypesHold, PTL DEF Spec

-----------------------------------------------------------------------------
(* Whatever a run stops with, every input is absorbed or remains and every    *)
(* request has its observation or remains, in order. (The state runDirect     *)
(* would fail with when the queue's bound broke is excluded by the theorem    *)
(* above.)                                                                    *)
THEOREM NothingLostHolds == Spec => []NothingLost
<1> USE DEF NothingLost
<1>1. Init => NothingLost
  <2> SUFFICES ASSUME Init PROVE NothingLost
    OBVIOUS
  <2>1. given \in Seq(Inputs) /\ inputs = given
    BY TypesInit DEF Types, Init
  <2>2. given \o <<>> = given /\ <<>> \o given = given
    BY <2>1, ConcatEmptySeq
  <2>3. <<>> \o <<>> = <<>>
    BY EmptySeq, ConcatEmptySeq
  <2> QED BY <2>1, <2>2, <2>3 DEF Init
<1>2. ASSUME NothingLost, Types, QueueStaysInBounds', [Next]_vars PROVE NothingLost'
  <2>1. CASE Ends
    BY <1>2, <2>1 DEF Ends, work
  <2>2. ASSUME NEW requests \in Reactions, Absorb(requests) PROVE NothingLost'
    <3>1. /\ inputs # <<>> /\ inputs' = Tail(inputs) /\ processed' = Append(processed, Head(inputs))
          /\ pending' = pending \o requests /\ effects' = effects \o requests
          /\ given' = given /\ observations' = observations
      BY <2>2 DEF Absorb, Reacting
    <3>2. processed' \o inputs' = processed \o inputs
      BY <1>2, <3>1, MoveKeepsOrder DEF Types
    <3>3. requests \in Seq(Actions) /\ observations \in Seq(Actions) /\ pending \in Seq(Actions)
      BY <1>2, ReactionProperties DEF Types
    <3>4. observations \o (pending \o requests) = (observations \o pending) \o requests
      BY <3>3, ConcatAssociative
    <3> QED BY <1>2, <3>1, <3>2, <3>4
  <2>3. ASSUME NEW answer \in Answers, Unsettled(answer) PROVE NothingLost'
    BY <1>2, <2>3 DEF Unsettled
  <2>4. ASSUME NEW answer \in Answers, Observed(answer) PROVE NothingLost'
    <3>1. /\ inputs = <<>> /\ pending # <<>> /\ pending' = Tail(pending)
          /\ observations' = Append(observations, Head(pending))
          /\ inputs' = (IF Fits THEN Append(inputs, Head(pending)) ELSE inputs)
          /\ status' = (IF Fits THEN "running" ELSE QueueViolation)
          /\ processed' = processed /\ effects' = effects /\ given' = given
      BY <2>4 DEF Observed, Interpreting
    <3>2. Fits
      BY <1>2, <3>1 DEF QueueStaysInBounds
    <3>3. observations' \o pending' = observations \o pending
      BY <1>2, <3>1, MoveKeepsOrder DEF Types
    <3>4. Head(pending) \in Actions /\ Head(pending) \in Inputs
      BY <1>2, <3>1, HeadTailProperties DEF Types, Inputs
    <3>5. observations \in Seq(Inputs) /\ <<Head(pending)>> \in Seq(Inputs) /\ given \in Seq(Inputs)
      BY <1>2, <3>4, Actions \subseteq Inputs, SeqMonotonic DEF Types, Inputs
    <3>6. given \o observations = processed
      BY <1>2, <3>1, ConcatEmptySeq DEF Types
    <3>7. given \o observations' = (given \o observations) \o <<Head(pending)>>
      <4>1. observations' = observations \o <<Head(pending)>>
        BY <3>1, <3>4, <3>5, AppendIsConcat
      <4>2. given \o (observations \o <<Head(pending)>>) = (given \o observations) \o <<Head(pending)>>
        BY <3>5, ConcatAssociative
      <4> QED BY <4>1, <4>2
    <3>8. inputs' = <<Head(pending)>>
      BY <3>1, <3>2
    <3> QED BY <1>2, <3>1, <3>3, <3>6, <3>7, <3>8
  <2>5. CASE UNCHANGED <<bounds, given, work, status>>
    BY <1>2, <2>5 DEF work
  <2> QED BY <1>2, <2>1, <2>2, <2>3, <2>4, <2>5, NextCases
<1> QED BY <1>1, <1>2, TypesHold, QueueStaysInBoundsHolds, PTL DEF Spec

-----------------------------------------------------------------------------
(* The requests ever emitted are distinct, and the attempts follow them one   *)
(* by one: only the last attempt of a run may be without an observation.      *)
Distinct ==
    /\ \A i \in DOMAIN effects : effects[i] \in seenActions
    /\ \A i, j \in DOMAIN effects : effects[i] = effects[j] => i = j

InStep ==
    /\ status = "running" => Len(attempts) = Len(observations)
    /\ Len(attempts) <= Len(effects)
    /\ \A i \in DOMAIN attempts : attempts[i].action = effects[i]

LEMMA DistinctHolds == Spec => []Distinct
<1> USE DEF Distinct
<1>1. Init => Distinct
  BY DEF Init
<1>2. ASSUME Distinct, Types, [Next]_vars PROVE Distinct'
  <2>1. CASE Ends
    BY <1>2, <2>1 DEF Ends, work
  <2>2. ASSUME NEW requests \in Reactions, Absorb(requests) PROVE Distinct'
    <3>1. /\ effects' = effects \o requests /\ seenActions' = seenActions \cup ToSet(requests)
          /\ \A i \in DOMAIN requests : requests[i] \notin seenActions
      BY <2>2 DEF Absorb, Remember, Repeats, IsRepeated
    <3>2. requests \in Seq(Actions) /\ effects \in Seq(Actions)
      BY <1>2, ReactionProperties DEF Types
    <3>3. \A i \in DOMAIN requests : requests[i] \in ToSet(requests)
      BY DEF ToSet
    <3>4. /\ DOMAIN effects' = 1..(Len(effects) + Len(requests))
          /\ \A i \in 1..(Len(effects) + Len(requests)) :
                effects'[i] = IF i <= Len(effects) THEN effects[i] ELSE requests[i - Len(effects)]
      BY <3>1, <3>2, ConcatProperties
    <3>5. ASSUME NEW i \in DOMAIN effects' PROVE effects'[i] \in seenActions'
      BY <1>2, <3>1, <3>2, <3>3, <3>4, <3>5
    <3>6. ASSUME NEW i \in DOMAIN effects', NEW j \in DOMAIN effects', effects'[i] = effects'[j]
          PROVE  i = j
      <4>1. CASE i <= Len(effects) /\ j <= Len(effects)
        BY <1>2, <3>2, <3>4, <3>6, <4>1
      <4>2. CASE ~(i <= Len(effects)) /\ ~(j <= Len(effects))
        <5>1. /\ i - Len(effects) \in DOMAIN requests /\ j - Len(effects) \in DOMAIN requests
              /\ requests[i - Len(effects)] = requests[j - Len(effects)]
          BY <3>2, <3>4, <3>6, <4>2
        <5>2. i - Len(effects) = j - Len(effects)
          BY <5>1, ReactionProperties
        <5> QED BY <3>2, <3>4, <5>2
      <4>3. CASE i <= Len(effects) /\ ~(j <= Len(effects))
        BY <1>2, <3>1, <3>2, <3>4, <3>6, <4>3
      <4>4. CASE ~(i <= Len(effects)) /\ j <= Len(effects)
        BY <1>2, <3>1, <3>2, <3>4, <3>6, <4>4
      <4> QED BY <4>1, <4>2, <4>3, <4>4
    <3> QED BY <3>5, <3>6
  <2>3. ASSUME NEW answer \in Answers, Unsettled(answer) \/ Observed(answer) PROVE Distinct'
    BY <1>2, <2>3 DEF Unsettled, Observed
  <2>4. CASE UNCHANGED <<bounds, given, work, status>>
    BY <1>2, <2>4 DEF work
  <2> QED BY <1>2, <2>1, <2>2, <2>3, <2>4, NextCases
<1> QED BY <1>1, <1>2, TypesHold, PTL DEF Spec

LEMMA InStepHolds == Spec => []InStep
<1> USE DEF InStep
<1>1. Init => InStep
  BY DEF Init
<1>2. ASSUME InStep, Types, NothingLost, [Next]_vars PROVE InStep'
  <2>1. CASE Ends
    BY <1>2, <2>1 DEF Ends, work, Suspensions
  <2>2. ASSUME NEW requests \in Reactions, Absorb(requests) PROVE InStep'
    <3>1. /\ effects' = effects \o requests /\ attempts' = attempts
          /\ observations' = observations /\ status' = status
      BY <2>2 DEF Absorb
    <3>2. requests \in Seq(Actions) /\ effects \in Seq(Actions) /\ attempts \in Seq(Attempted)
      BY <1>2, ReactionProperties DEF Types
    <3>3. /\ Len(effects') = Len(effects) + Len(requests)
          /\ \A i \in 1..Len(effects) : effects'[i] = effects[i]
      BY <3>1, <3>2, ConcatProperties
    <3> QED BY <1>2, <3>1, <3>2, <3>3
  <2>3. ASSUME status = "running", pending # <<>>, NEW outcome \in {"observed", "rejected", "unknown"},
               attempts' = Append(attempts, [action |-> Head(pending), outcome |-> outcome]),
               effects' = effects
        PROVE  /\ Len(attempts') = Len(observations) + 1 /\ Len(attempts') <= Len(effects')
               /\ \A i \in DOMAIN attempts' : attempts'[i].action = effects'[i]
    <3>1. effects = observations \o pending /\ Len(attempts) = Len(observations)
      BY <1>2, <2>3 DEF NothingLost
    <3>2. /\ Len(effects) = Len(observations) + Len(pending) /\ Len(pending) >= 1
          /\ effects[Len(observations) + 1] = Head(pending)
      BY <1>2, <2>3, <3>1, ConcatProperties, HeadTailProperties DEF Types
    <3>3. /\ DOMAIN attempts' = 1..(Len(attempts) + 1) /\ Len(attempts') = Len(attempts) + 1
          /\ attempts'[Len(attempts) + 1].action = Head(pending)
          /\ \A i \in 1..Len(attempts) : attempts'[i] = attempts[i]
      BY <1>2, <2>3 DEF Types
    <3>4. DOMAIN attempts = 1..Len(attempts) /\ Len(attempts) \in Nat
      BY <1>2, LenProperties DEF Types
    <3> QED BY <1>2, <2>3, <3>1, <3>2, <3>3, <3>4
  <2>4. ASSUME NEW answer \in Answers, Unsettled(answer) PROVE InStep'
    BY <1>2, <2>3, <2>4 DEF Unsettled, Interpreting
  <2>5. ASSUME NEW answer \in Answers, Observed(answer) PROVE InStep'
    <3>1. Head(pending) \in Actions
      BY <1>2, <2>5, HeadTailProperties DEF Observed, Interpreting, Types
    <3>2. Len(observations') = Len(observations) + 1
      BY <1>2, <2>5, <3>1, AppendProperties DEF Observed, Types
    <3>3. /\ Len(attempts') = Len(observations) + 1 /\ Len(attempts') <= Len(effects')
          /\ \A i \in DOMAIN attempts' : attempts'[i].action = effects'[i]
      BY <2>3, <2>5 DEF Observed, Interpreting
    <3> QED BY <3>2, <3>3
  <2>6. CASE UNCHANGED <<bounds, given, work, status>>
    BY <1>2, <2>6 DEF work
  <2> QED BY <1>2, <2>1, <2>2, <2>4, <2>5, <2>6, NextCases
<1> QED BY <1>1, <1>2, TypesHold, NothingLostHolds, PTL DEF Spec

(* One run never has the effect of one action carried out twice, whatever     *)
(* action ids the component emits.                                            *)
THEOREM AttemptedOnceHolds == Spec => []AttemptedOnce
<1>1. ASSUME Types, Distinct, InStep PROVE AttemptedOnce
  <2>1. DOMAIN attempts \subseteq DOMAIN effects
    BY <1>1 DEF Types, InStep
  <2> QED BY <1>1, <2>1 DEF Distinct, InStep, AttemptedOnce
<1> QED BY <1>1, TypesHold, DistinctHolds, InStepHolds, PTL
-----------------------------------------------------------------------------
(* Every set of naturals has a least element: induction, as a fact about sets. *)
LEMMA LeastOf == ASSUME NEW S \in SUBSET Nat, S # {} PROVE \E n \in S : \A m \in S : n <= m
<1> DEFINE R == OpToRel(<, Nat)
<1>1. IsWellFoundedOn(R, Nat)
  BY NatLessThanWellFounded
<1>2. \A a, b \in Nat : <<a, b>> \in R <=> a < b
  BY DEF OpToRel
<1> HIDE DEF R
<1>3. PICK n \in S : \A m \in S : ~(<<m, n>> \in R)
  BY <1>1, WFMin, Zenon
<1>4. ASSUME NEW m \in S PROVE n <= m
  <2>1. ~(<<m, n>> \in R) /\ m \in Nat /\ n \in Nat
    BY <1>3
  <2> QED BY <1>2, <2>1
<1> QED BY <1>4

(* ---- replaying ------------------------------------------------------------ *)
Steps(st, q, n, f) ==
    f = [k \in 0 .. n |-> IF k = 0 THEN {st} ELSE Applied(f[k - 1], q[k])]

SameTo(q, p, n) == \A k \in 1 .. n : q[k] = p[k]

LEMMA StepsBegin ==
    ASSUME NEW st, NEW q, NEW n \in Nat, NEW f, Steps(st, q, n, f)
    PROVE  f[0] = {st}
<1> DEFINE g == [k \in 0 .. n |-> IF k = 0 THEN {st} ELSE Applied(f[k - 1], q[k])]
<1>1. f = g
  BY DEF Steps
<1>2. g[0] = {st}
  OBVIOUS
<1> HIDE DEF g
<1> QED BY <1>1, <1>2

LEMMA StepsGoOn ==
    ASSUME NEW st, NEW q, NEW n \in Nat, NEW f, Steps(st, q, n, f), NEW k \in 1 .. n
    PROVE  f[k] = Applied(f[k - 1], q[k])
<1> DEFINE g == [j \in 0 .. n |-> IF j = 0 THEN {st} ELSE Applied(f[j - 1], q[j])]
<1>1. f = g
  BY DEF Steps
<1>2. k \in 0 .. n /\ k # 0
  OBVIOUS
<1>3. g[k] = Applied(f[k - 1], q[k])
  BY <1>2
<1> HIDE DEF g
<1> QED BY <1>1, <1>3

(* Two replays of one beginning agree on it.                                  *)
LEMMA StepsAgree ==
    ASSUME NEW st, NEW q, NEW p, NEW n \in Nat, NEW m \in Nat, n <= m,
           SameTo(q, p, n), NEW f, NEW g, Steps(st, q, n, f), Steps(st, p, m, g)
    PROVE  \A k \in 0 .. n : f[k] = g[k]
<1> DEFINE Bad == {k \in 0 .. n : f[k] # g[k]}
<1>1. ASSUME Bad # {} PROVE FALSE
  <2>1. Bad \in SUBSET Nat
    OBVIOUS
  <2> HIDE DEF Bad
  <2>2. PICK k \in Bad : \A j \in Bad : k <= j
    BY <1>1, <2>1, LeastOf
  <2>3. k \in 0 .. n /\ f[k] # g[k] /\ \A j \in 0 .. n : j < k => f[j] = g[j]
    BY <2>1, <2>2 DEF Bad
  <2>4. f[0] = g[0]
    BY StepsBegin, Zenon
  <2>5. k \in 1 .. n /\ k \in 1 .. m /\ k - 1 \in 0 .. n /\ k - 1 < k
    BY <2>3, <2>4
  <2>6. f[k - 1] = g[k - 1] /\ q[k] = p[k]
    BY <2>3, <2>5 DEF SameTo
  <2>7. f[k] = Applied(f[k - 1], q[k])
    BY <2>5, StepsGoOn
  <2>8. g[k] = Applied(g[k - 1], p[k])
    BY <2>5, StepsGoOn
  <2> QED BY <2>3, <2>6, <2>7, <2>8
<1> QED BY <1>1

LEMMA StepsExtend ==
    ASSUME NEW st, NEW q, NEW n \in Nat, NEW f, Steps(st, q, n, f)
    PROVE  \E g : Steps(st, q, n + 1, g)
<1> DEFINE last == Applied(f[n], q[n + 1])
           g == [k \in 0 .. n + 1 |-> IF k = n + 1 THEN last ELSE f[k]]
           h == [k \in 0 .. n + 1 |-> IF k = 0 THEN {st} ELSE Applied(g[k - 1], q[k])]
<1>1. ASSUME NEW k \in 0 .. n + 1 PROVE g[k] = h[k]
  <2>1. CASE k = 0
    <3>1. g[k] = f[0] /\ h[k] = {st}
      BY <2>1
    <3>2. f[0] = {st}
      BY StepsBegin, Zenon
    <3> QED BY <3>1, <3>2
  <2>2. CASE k = n + 1
    <3>1. g[k] = last /\ k # 0 /\ k - 1 = n /\ k - 1 \in 0 .. n + 1 /\ k - 1 # n + 1
      BY <2>2
    <3>2. g[k - 1] = f[n]
      BY <3>1
    <3>3. h[k] = Applied(g[k - 1], q[k])
      BY <3>1
    <3> QED BY <2>2, <3>1, <3>2, <3>3, Zenon
  <2>3. CASE k \in 1 .. n
    <3>1. k # n + 1 /\ k # 0 /\ k - 1 \in 0 .. n + 1 /\ k - 1 # n + 1
      BY <2>3
    <3>2. g[k] = f[k] /\ g[k - 1] = f[k - 1]
      BY <3>1
    <3>3. h[k] = Applied(g[k - 1], q[k])
      BY <3>1
    <3>4. f[k] = Applied(f[k - 1], q[k])
      BY <2>3, StepsGoOn
    <3> QED BY <3>2, <3>3, <3>4
  <2> QED BY <2>1, <2>2, <2>3
<1>2. g = h
  BY <1>1
<1>3. Steps(st, q, n + 1, g)
  BY <1>2 DEF Steps
<1> QED BY <1>3

LEMMA StepsExist == ASSUME NEW st, NEW q, NEW n \in Nat PROVE \E f : Steps(st, q, n, f)
<1> DEFINE Bad == {k \in Nat : ~\E f : Steps(st, q, k, f)}
<1>1. ASSUME Bad # {} PROVE FALSE
  <2>1. Bad \in SUBSET Nat
    OBVIOUS
  <2>2. PICK k \in Bad : \A j \in Bad : k <= j
    <3> HIDE DEF Bad
    <3> QED BY <1>1, <2>1, LeastOf
  <2>3. k # 0
    <3> DEFINE f == [j \in 0 .. 0 |-> {st}]
               g == [j \in 0 .. 0 |-> IF j = 0 THEN {st} ELSE Applied(f[j - 1], q[j])]
    <3>1. f = g
      OBVIOUS
    <3>2. Steps(st, q, 0, f)
      BY <3>1 DEF Steps
    <3> QED BY <2>2, <3>2
  <2>4. k - 1 \in Nat /\ k - 1 \notin Bad /\ k = (k - 1) + 1
    <3>1. k \in Nat /\ ~(k <= k - 1)
      BY <2>2
    <3> QED BY <2>2, <2>3, <3>1
  <2>5. PICK f : Steps(st, q, k - 1, f)
    BY <2>4
  <2>6. \E g : Steps(st, q, k, g)
    BY <2>4, <2>5, StepsExtend
  <2> QED BY <2>2, <2>6
<1> QED BY <1>1

LEMMA ReplayOfNone == ASSUME NEW st PROVE Replay(st, <<>>) = {st}
<1>1. Steps(st, <<>>, 0, CHOOSE f : Steps(st, <<>>, 0, f))
  BY StepsExist
<1>2. Replay(st, <<>>) = (CHOOSE f : Steps(st, <<>>, Len(<<>>), f))[Len(<<>>)]
  BY Zenon DEF Replay, Steps
<1>3. Len(<<>>) = 0
  OBVIOUS
<1> QED BY <1>1, <1>2, <1>3, StepsBegin, Zenon

LEMMA StepsMeet ==
    ASSUME NEW st, NEW q, NEW p, NEW n \in Nat, NEW m \in Nat, m = n + 1, SameTo(q, p, n),
           NEW f, NEW g, Steps(st, q, n, f), Steps(st, p, m, g)
    PROVE  g[m] = Applied(f[n], p[m])
<1>1. n <= m /\ n \in 0 .. n /\ m \in 1 .. m /\ m - 1 = n
  OBVIOUS
<1>2. f[n] = g[n]
  BY <1>1, StepsAgree
<1>3. g[m] = Applied(g[m - 1], p[m])
  <2>1. \A k \in 1 .. m : g[k] = Applied(g[k - 1], p[k])
    BY StepsGoOn
  <2> QED BY <1>1, <2>1
<1> QED BY <1>1, <1>2, <1>3

LEMMA ReplayOfMore ==
    ASSUME NEW st, NEW S, NEW q \in Seq(S), NEW p \in Seq(S), Len(p) = Len(q) + 1,
           SameTo(q, p, Len(q))
    PROVE  Replay(st, p) = Applied(Replay(st, q), p[Len(p)])
<1> DEFINE f == CHOOSE h : Steps(st, q, Len(q), h)
           g == CHOOSE h : Steps(st, p, Len(p), h)
<1>1. Len(q) \in Nat /\ Len(p) \in Nat
  OBVIOUS
<1>2. Steps(st, q, Len(q), f) /\ Steps(st, p, Len(p), g)
  BY <1>1, StepsExist
<1>3. Replay(st, q) = f[Len(q)] /\ Replay(st, p) = g[Len(p)]
  BY Zenon DEF Replay, Steps
<1> HIDE DEF f, g
<1>4. g[Len(p)] = Applied(f[Len(q)], p[Len(p)])
  BY <1>1, <1>2, StepsMeet
<1> QED BY <1>3, <1>4

(* ---- the decisions -------------------------------------------------------- *)
Decided(st, next, e) ==
    /\ ApplyEvent(st, e) = {next} /\ e.kind # "IdentifierOutcomeUnknown"
    /\ IsInventory(next)
    /\ InvariantViolations(st) = {} => InvariantViolations(next) = {}

LEMMA RefusedIsDecided ==
    ASSUME NEW st, IsInventory(st), NEW m, NEW reason
    PROVE  Decided(st, Refused(m, st, reason).state, Refused(m, st, reason).event)
<1> DEFINE r == Refused(m, st, reason)
<1>1. r.state = st /\ r.event.kind = "ReservationRejected"
  BY DEF Refused
<1> HIDE DEF r
<1>2. ApplyEvent(st, r.event) = {st} /\ r.event.kind # "IdentifierOutcomeUnknown"
  BY <1>1 DEF ApplyEvent
<1>3. Decided(st, r.state, r.event)
  BY <1>1, <1>2 DEF Decided
<1> QED BY <1>3 DEF r

LEMMA ReservedIsDecided ==
    ASSUME NEW st, IsInventory(st), NEW m, m.quantity \in Int, NEW fresh, fresh # None,
           NeedsFreshIdentifier(m, st)
    PROVE  LET next == Reserve(m, st, fresh, TRUE) IN Decided(st, next.state, next.event)
<1> DEFINE next == Reserve(m, st, fresh, TRUE)
<1>1. m.quantity > 0 /\ m.quantity <= Available(st, m.item)
  BY DEF NeedsFreshIdentifier
<1>2. Available(st, m.item) \in Int
  BY DEF Available, IsInventory
<1>3. ~(m.quantity <= 0) /\ ~(m.quantity > Available(st, m.item))
  BY <1>1, <1>2
<1>4. CASE fresh \in DOMAIN st.reservations
  <2>1. next = Refused(m, st, "duplicate_reservation_id")
    BY <1>3, <1>4 DEF Reserve
  <2> QED BY <2>1, RefusedIsDecided
<1>5. CASE fresh \notin DOMAIN st.reservations
  <2> DEFINE held == [item |-> m.item, quantity |-> m.quantity]
             stock == With(st.stock, m.item, Available(st, m.item) - m.quantity)
             reservations == With(st.reservations, fresh, held)
             after == [stock |-> stock, reservations |-> reservations]
             event == [kind |-> "Reserved", reservation_id |-> fresh, item |-> m.item, quantity |-> m.quantity]
  <2>1. next = [state |-> after, event |-> event]
    BY <1>3, <1>5 DEF Reserve
  <2>2. ApplyEvent(st, event) = {after} /\ event.kind = "Reserved"
    BY DEF ApplyEvent
  <2>3. /\ \A item \in DOMAIN stock :
             /\ stock[item] \in Int
             /\ \/ item \in DOMAIN st.stock /\ stock[item] = st.stock[item]
                \/ stock[item] >= 0
    BY <1>1, <1>2 DEF With, IsInventory
  <2>4. held.quantity = m.quantity
    OBVIOUS
  <2>5. \A id \in DOMAIN reservations :
          \/ id \in DOMAIN st.reservations /\ reservations[id] = st.reservations[id]
          \/ reservations[id] = held
    <3> HIDE DEF held
    <3> QED BY DEF With
  <2>6. /\ \A id \in DOMAIN reservations : reservations[id].quantity \in Int
        /\ \A id \in DOMAIN reservations :
              \/ id \in DOMAIN st.reservations /\ reservations[id] = st.reservations[id]
              \/ reservations[id].quantity > 0
    <3> HIDE DEF held, reservations
    <3> QED BY <1>1, <2>4, <2>5 DEF IsInventory
  <2>7. after.stock = stock /\ after.reservations = reservations
    OBVIOUS
  <2> HIDE DEF stock, reservations
  <2>8. IsInventory(after)
    BY <2>3, <2>6, <2>7 DEF IsInventory
  <2>9. InvariantViolations(st) = {} => InvariantViolations(after) = {}
    <3> HIDE DEF after
    <3>1. ASSUME InvariantViolations(st) = {}, NEW item \in DOMAIN stock PROVE ~(stock[item] < 0)
      BY <2>3, <3>1 DEF InvariantViolations
    <3>2. ASSUME InvariantViolations(st) = {}, NEW id \in DOMAIN reservations
          PROVE  ~(reservations[id].quantity <= 0)
      BY <2>6, <3>2 DEF InvariantViolations
    <3> QED BY <2>7, <3>1, <3>2 DEF InvariantViolations
  <2>10. next.state = after /\ next.event = event
    <3> HIDE DEF after, event, next
    <3> QED BY <2>1
  <2> HIDE DEF after, event, next
  <2>11. Decided(st, next.state, next.event)
    BY <2>2, <2>8, <2>9, <2>10 DEF Decided
  <2> QED BY <2>11 DEF next
<1> QED BY <1>4, <1>5

LEMMA ReleaseIsDecided ==
    ASSUME NEW st, IsInventory(st), NEW m
    PROVE  Decided(st, Release(m, st).state, Release(m, st).event)
<1> DEFINE next == Release(m, st)
           id == m.reservation_id
<1>1. CASE id \notin DOMAIN st.reservations
  <2>1. next.state = st /\ next.event.kind = "ReleaseRejected"
    BY <1>1 DEF Release
  <2> HIDE DEF next
  <2>2. ApplyEvent(st, next.event) = {st} /\ next.event.kind # "IdentifierOutcomeUnknown"
    BY <2>1 DEF ApplyEvent
  <2>3. Decided(st, next.state, next.event)
    BY <2>1, <2>2 DEF Decided
  <2> QED BY <2>3 DEF next
<1>2. CASE id \in DOMAIN st.reservations
  <2> DEFINE r == st.reservations[id]
             stock == With(st.stock, r.item, Available(st, r.item) + r.quantity)
             reservations == Without(st.reservations, id)
             after == Restocked(st, id)
  <2>1. next.state = after /\ next.event = [kind |-> "Released", reservation_id |-> id]
    BY <1>2 DEF Release
  <2>2. ApplyEvent(st, next.event) = {after} /\ next.event.kind = "Released"
    <3> HIDE DEF after, next
    <3>1. next.event.kind = "Released" /\ next.event.reservation_id = id
      BY <2>1
    <3>2. ApplyEvent(st, next.event) = {Restocked(st, id)}
      BY <1>2, <3>1 DEF ApplyEvent
    <3> QED BY <3>1, <3>2 DEF after
  <2>3. after = [stock |-> stock, reservations |-> reservations]
    BY DEF Restocked
  <2>4. Available(st, r.item) \in Int /\ r.quantity \in Int
    BY <1>2 DEF Available, IsInventory
  <2>5. /\ \A item \in DOMAIN stock : stock[item] \in Int
        /\ \A item \in DOMAIN stock :
              \/ item \in DOMAIN st.stock /\ stock[item] = st.stock[item]
              \/ stock[item] = Available(st, r.item) + r.quantity
    <3> HIDE DEF r
    <3> QED BY <2>4 DEF With, IsInventory
  <2>6. \A i \in DOMAIN reservations :
          i \in DOMAIN st.reservations /\ reservations[i] = st.reservations[i]
    BY DEF Without
  <2>7. after.stock = stock /\ after.reservations = reservations
    BY <2>3
  <2> HIDE DEF stock, reservations, after
  <2>8. IsInventory(after)
    BY <2>3, <2>5, <2>6, <2>7 DEF IsInventory
  <2>9. ASSUME InvariantViolations(st) = {} PROVE InvariantViolations(after) = {}
    <3>1. ~(Available(st, r.item) < 0) /\ ~(r.quantity <= 0)
      <4>1. ~(r.quantity <= 0)
        BY <1>2, <2>9 DEF InvariantViolations
      <4>2. ~(Available(st, r.item) < 0)
        BY <2>9 DEF InvariantViolations, Available
      <4> QED BY <4>1, <4>2
    <3> HIDE DEF r
    <3>2. ASSUME NEW item \in DOMAIN stock PROVE ~(stock[item] < 0)
      BY <2>4, <2>5, <2>9, <3>1 DEF InvariantViolations
    <3>3. ASSUME NEW i \in DOMAIN reservations PROVE ~(reservations[i].quantity <= 0)
      BY <2>6, <2>9 DEF InvariantViolations
    <3> QED BY <2>7, <3>2, <3>3 DEF InvariantViolations
  <2> HIDE DEF next
  <2>10. Decided(st, next.state, next.event)
    BY <2>1, <2>2, <2>8, <2>9 DEF Decided
  <2> QED BY <2>10 DEF next
<1> QED BY <1>1, <1>2

LEMMA TransitionIsDecided ==
    ASSUME NEW st, IsInventory(st), NEW m, m.kind # "Release" => m.quantity \in Int, NEW fresh,
           m.kind # "Release" /\ NeedsFreshIdentifier(m, st) => fresh # None
    PROVE  LET next == Transition("reference", m, st, fresh) IN Decided(st, next.state, next.event)
<1>1. CASE m.kind = "Release"
  BY <1>1, ReleaseIsDecided DEF Transition
<1>2. CASE m.kind # "Release" /\ NeedsFreshIdentifier(m, st)
  <2>1. Transition("reference", m, st, fresh) = Reserve(m, st, fresh, TRUE)
    BY <1>2 DEF Transition
  <2> QED BY <1>2, <2>1, ReservedIsDecided
<1>3. CASE m.kind # "Release" /\ ~NeedsFreshIdentifier(m, st)
  <2>1. Transition("reference", m, st, fresh) = Reserve(m, st, None, TRUE)
    BY <1>3 DEF Transition
  <2>2. Available(st, m.item) \in Int /\ m.quantity \in Int
    BY <1>3 DEF Available, IsInventory
  <2>3. m.quantity <= 0 \/ m.quantity > Available(st, m.item)
    BY <1>3, <2>2 DEF NeedsFreshIdentifier
  <2>4. \E reason : Reserve(m, st, None, TRUE) = Refused(m, st, reason)
    BY <2>3 DEF Reserve
  <2> QED BY <2>1, <2>4, RefusedIsDecided
<1> QED BY <1>1, <1>2, <1>3

(* ---- what holds of the inventory at every step ---------------------------- *)
SemanticFields == {"stock", "reservations", "pending", "unknown", "processedCommands", "processedObservations"}
Waiting == DOMAIN semantic.pending \cup DOMAIN semantic.unknown

(* Every sequence the actor publishes is one, and an answer gives a value.    *)
Published ==
    /\ journey.events \in Seq(ToSet(journey.events)) /\ DOMAIN journey = {"events", "effects"}
    /\ returned \in Seq(ToSet(returned))
    /\ \A o \in ToSet(returned) :
        /\ o.category = "observation"
        /\ "identifier" \in DOMAIN o.payload => o.payload.identifier # None

(* What waits, waits for a command that was taken, under the command's name.  *)
Custody ==
    /\ DOMAIN semantic = SemanticFields
    /\ \A action \in DOMAIN semantic.pending : semantic.pending[action].quantity \in Int
    /\ \A action \in DOMAIN semantic.unknown : semantic.unknown[action].quantity \in Int
    /\ \A action \in Waiting : \E m \in semantic.processedCommands : action = Append(m, "fresh")
    /\ \A m \in semantic.processedCommands : IsIdentity(m)
    /\ IsFiniteSet(semantic.processedCommands) /\ IsFiniteSet(Waiting)


(* ---- the drafts ----------------------------------------------------------- *)
InputIsTyped(input) ==
    /\ input.category = "command" =>
          IsIdentity(input.messageId) /\ ("quantity" \in DOMAIN input.payload => input.payload.quantity \in Int)
    /\ "identifier" \in DOMAIN input.payload => input.payload.identifier # None

LEMMA SentIsTyped == ASSUME Published, NEW input \in Sent PROVE InputIsTyped(input)
<1>1. CASE input \in CommandEnvelopes \cup OutsideObservations
  BY <1>1, InputsAreTyped, Zenon DEF InputIsTyped
<1>2. CASE input \in ToSet(returned)
  <2>1. input.category # "command"
    BY <1>2 DEF Published
  <2> QED BY <1>2, <2>1, Zenon DEF Published, InputIsTyped
<1> QED BY <1>1, <1>2 DEF Sent

(* What a reaction can come to, as the next state and the events.             *)
SameStock(next) == DOMAIN next = SemanticFields /\ ReferenceState(next) = ReferenceState(semantic)
StillWaits(next) == next.pending = semantic.pending /\ next.unknown = semantic.unknown
Emitted(next, events) ==
    /\ DOMAIN next = SemanticFields
    /\ \E e : events = <<e>> /\ Decided(ReferenceState(semantic), ReferenceState(next), e.payload)
TakesIn(next, id) ==
    id \notin semantic.processedCommands /\ IsIdentity(id)
    /\ next.processedCommands = semantic.processedCommands \cup {id}

Ignores(next, events) ==
    /\ SameStock(next) /\ StillWaits(next) /\ next.processedCommands = semantic.processedCommands
    /\ events = <<>>
Asks(next, events) ==
    \E id : /\ TakesIn(next, id) /\ SameStock(next) /\ events = <<>> /\ Append(id, "fresh") \notin Waiting
            /\ \E w : w.quantity \in Int /\ next.pending = With(semantic.pending, Append(id, "fresh"), w)
            /\ next.unknown = semantic.unknown
Decides(next, events) ==
    (\E id : TakesIn(next, id)) /\ StillWaits(next) /\ Emitted(next, events)
Settles(next, events) ==
    /\ next.processedCommands = semantic.processedCommands /\ Emitted(next, events)
    /\ \E action \in Waiting : /\ next.pending = Without(semantic.pending, action)
                               /\ next.unknown = Without(semantic.unknown, action)
LosesTrack(next, events) ==
    /\ next.processedCommands = semantic.processedCommands /\ SameStock(next)
    /\ \E e : events = <<e>> /\ e.payload.kind = "IdentifierOutcomeUnknown"
    /\ \E action \in Waiting : \E w :
          /\ w.quantity \in Int
          /\ next.pending = Without(semantic.pending, action)
          /\ next.unknown = With(Without(semantic.unknown, action), action, w)

ComesTo(next, events) ==
    \/ Ignores(next, events) \/ Asks(next, events) \/ Decides(next, events)
    \/ Settles(next, events) \/ LosesTrack(next, events)

(* A waiting action is named after a command that was taken, so the action of *)
(* a command that was not is not waiting.                                     *)
LEMMA ActionsAreNames ==
    ASSUME NEW a, NEW b, IsIdentity(a), IsIdentity(b), Append(a, "fresh") = Append(b, "fresh")
    PROVE  a = b
<1> DEFINE S == ToSet(a) \cup ToSet(b) \cup {"fresh"}
<1>1. a \in Seq(S) /\ b \in Seq(S) /\ "fresh" \in S
  <2>1. a \in Seq(ToSet(a)) /\ b \in Seq(ToSet(b))
    BY DEF IsIdentity
  <2> QED BY <2>1
<1> HIDE DEF S
<1>2. /\ Len(a) \in Nat /\ Len(b) \in Nat
      /\ Len(Append(a, "fresh")) = Len(a) + 1 /\ Len(Append(b, "fresh")) = Len(b) + 1
  BY <1>1
<1>3. Len(a) = Len(b)
  BY <1>2
<1>4. ASSUME NEW i \in 1 .. Len(a) PROVE a[i] = b[i]
  <2>1. Append(a, "fresh")[i] = a[i] /\ Append(b, "fresh")[i] = b[i]
    BY <1>1, <1>3
  <2> QED BY <2>1
<1> QED BY <1>1, <1>3, <1>4

LEMMA FreshIsNotWaiting ==
    ASSUME Custody, NEW id, IsIdentity(id), id \notin semantic.processedCommands
    PROVE  Append(id, "fresh") \notin Waiting
<1>1. ASSUME Append(id, "fresh") \in Waiting PROVE FALSE
  <2>1. PICK m \in semantic.processedCommands : Append(id, "fresh") = Append(m, "fresh")
    BY <1>1, Zenon DEF Custody
  <2>2. IsIdentity(m)
    BY <2>1, Zenon DEF Custody
  <2> QED BY <2>1, <2>2, ActionsAreNames
<1> QED BY <1>1

LEMMA CommandIs ==
    ASSUME IsInventory(ReferenceState(semantic)), Custody, NEW input, input.category = "command",
           InputIsTyped(input), InputIsGuarded(input)
    PROVE  ComesTo(ReactCommand(semantic, input).state, ReactCommand(semantic, input).events)
<1> DEFINE m == input.payload
           id == input.messageId
           accepted == [semantic EXCEPT !.processedCommands = @ \cup {id}]
           decided == Transition("reference", m, ReferenceState(semantic), None)
           draft == ReactCommand(semantic, input)
<1>1. /\ DOMAIN semantic = SemanticFields
      /\ DOMAIN accepted = SemanticFields /\ accepted.stock = semantic.stock
      /\ accepted.reservations = semantic.reservations /\ accepted.pending = semantic.pending
      /\ accepted.unknown = semantic.unknown
      /\ accepted.processedCommands = semantic.processedCommands \cup {id}
  BY DEF Custody, SemanticFields
<1>2. ReferenceState(accepted) = ReferenceState(semantic)
  BY <1>1, Zenon DEF ReferenceState
<1>3. ReferenceState(accepted).stock = semantic.stock /\ ReferenceState(semantic).stock = semantic.stock
  BY <1>1 DEF ReferenceState
<1>4. /\ m.kind \in {"Reserve", "Release"} /\ DOMAIN m = FieldsOf[m.kind]
  BY DEF InputIsGuarded, Decodes, KindsOf
<1>5. m.kind # "Release" => m.kind = "Reserve" /\ m.quantity \in Int
  <2>1. ASSUME m.kind # "Release" PROVE m.kind = "Reserve" /\ "quantity" \in DOMAIN m
    BY <1>4, <2>1 DEF FieldsOf
  <2> QED BY <2>1 DEF InputIsTyped
<1>6. CASE id \in semantic.processedCommands
  <2>1. draft.state = semantic /\ draft.events = <<>>
    BY <1>6 DEF ReactCommand, NoOutput
  <2> HIDE DEF draft
  <2>2. Ignores(draft.state, draft.events)
    BY <1>1, <2>1 DEF Ignores, SameStock, StillWaits
  <2> QED BY <2>2 DEF ComesTo, draft
<1>7. CASE id \notin semantic.processedCommands
  <2>1. IsIdentity(id)
    BY DEF InputIsTyped
  <2>2. CASE m.kind = "Reserve" /\ NeedsFreshIdentifier(m, semantic)
    <3> DEFINE request == Request(input)
               action == Append(id, "fresh")
               asked == [accepted EXCEPT !.pending = With(@, action, Waits(request))]
    <3>1. request.actionId = action /\ request.payload.quantity = m.quantity
      BY DEF Request
    <3>2. action \notin Waiting
      BY <1>7, <2>1, FreshIsNotWaiting
    <3>3. ~IsWaiting(accepted, action)
      <4> HIDE DEF accepted, action
      <4> QED BY <1>1, <3>2 DEF IsWaiting, Waiting
    <3>4. draft = AskIdentifier(accepted, request)
      BY <1>7, <2>2 DEF ReactCommand
    <3>5. draft.state = asked /\ draft.events = <<>>
      <4> HIDE DEF accepted, action, request, draft
      <4> QED BY <3>1, <3>3, <3>4 DEF AskIdentifier, NoOutput
    <3>6. /\ DOMAIN asked = SemanticFields /\ asked.stock = accepted.stock
          /\ asked.reservations = accepted.reservations
          /\ asked.pending = With(accepted.pending, action, Waits(request))
          /\ asked.unknown = accepted.unknown
          /\ asked.processedCommands = accepted.processedCommands
      <4> HIDE DEF accepted, action, request
      <4> QED BY <1>1 DEF SemanticFields
    <3>7. Waits(request).quantity = m.quantity
      <4> HIDE DEF request
      <4> QED BY <3>1 DEF Waits
    <3> HIDE DEF asked, action, request, draft, accepted
    <3>8. SameStock(asked)
      BY <1>1, <3>6 DEF SameStock, ReferenceState
    <3>9. TakesIn(asked, id)
      BY <1>1, <1>7, <2>1, <3>6 DEF TakesIn
    <3>10. Waits(request).quantity \in Int
      BY <1>5, <2>2, <3>7
    <3>11. asked.pending = With(semantic.pending, action, Waits(request)) /\ asked.unknown = semantic.unknown
      BY <1>1, <3>6
    <3>12. Asks(draft.state, draft.events)
      BY <3>2, <3>5, <3>8, <3>9, <3>10, <3>11, Zenon DEF Asks, action
    <3> QED BY <3>12 DEF ComesTo, draft
  <2>3. CASE ~(m.kind = "Reserve" /\ NeedsFreshIdentifier(m, semantic))
    <3> DEFINE told == WithReference(accepted, decided.state)
    <3>1. NeedsFreshIdentifier(m, ReferenceState(semantic)) <=> NeedsFreshIdentifier(m, semantic)
      BY <1>3 DEF NeedsFreshIdentifier, Available
    <3>2. Decided(ReferenceState(semantic), decided.state, decided.event)
      BY <1>5, <2>3, <3>1, TransitionIsDecided
    <3>3. draft = Emits(told, input, decided.event)
      BY <1>2, <1>7, <2>3, Zenon DEF ReactCommand
    <3>4. /\ DOMAIN told = SemanticFields
          /\ told.stock = decided.state.stock /\ told.reservations = decided.state.reservations
          /\ told.pending = accepted.pending /\ told.unknown = accepted.unknown
          /\ told.processedCommands = accepted.processedCommands
      <4> HIDE DEF accepted, decided
      <4> QED BY <1>1 DEF WithReference, SemanticFields
    <3> HIDE DEF told, decided, draft, accepted
    <3>5. ReferenceState(told) = decided.state
      BY <3>2, <3>4, Zenon DEF Decided, IsInventory, ReferenceState
    <3>6. draft.state = told /\ draft.events = <<Emission(input, decided.event)>>
      BY <3>3 DEF Emits, NoOutput
    <3>7. Emission(input, decided.event).payload = decided.event
      BY DEF Emission
    <3>8. Emitted(draft.state, draft.events)
      BY <3>2, <3>4, <3>5, <3>6, <3>7, Zenon DEF Emitted
    <3>9. TakesIn(draft.state, id) /\ StillWaits(draft.state)
      BY <1>1, <1>7, <2>1, <3>4, <3>6 DEF TakesIn, StillWaits
    <3>10. Decides(draft.state, draft.events)
      BY <3>8, <3>9, Zenon DEF Decides
    <3> QED BY <3>10 DEF ComesTo, draft
  <2> QED BY <2>2, <2>3
<1> QED BY <1>6, <1>7

LEMMA ObservationIs ==
    ASSUME IsInventory(ReferenceState(semantic)), Custody, NEW input, input.category = "observation",
           InputIsTyped(input), InputIsGuarded(input)
    PROVE  ComesTo(ReactObservation(semantic, input).state, ReactObservation(semantic, input).events)
<1> DEFINE m == input.payload
           action == input.actionId
           seen == [semantic EXCEPT !.processedObservations = @ \cup {input.messageId}]
           waiting == WaitingFor(semantic, action)
           base == NoLonger(seen, action)
           draft == ReactObservation(semantic, input)
<1>1. /\ DOMAIN semantic = SemanticFields
      /\ DOMAIN seen = SemanticFields /\ seen.stock = semantic.stock
      /\ seen.reservations = semantic.reservations /\ seen.pending = semantic.pending
      /\ seen.unknown = semantic.unknown /\ seen.processedCommands = semantic.processedCommands
  BY DEF Custody, SemanticFields
<1>2. CASE input.messageId \in semantic.processedObservations
  <2>1. draft.state = semantic /\ draft.events = <<>>
    BY <1>2 DEF ReactObservation, NoOutput
  <2> HIDE DEF draft
  <2>2. Ignores(draft.state, draft.events)
    BY <1>1, <2>1 DEF Ignores, SameStock, StillWaits
  <2> QED BY <2>2 DEF ComesTo, draft
<1>3. CASE input.messageId \notin semantic.processedObservations /\ ~AnswersRequest(semantic, input)
  <2>1. draft.state = seen /\ draft.events = <<>>
    BY <1>3 DEF ReactObservation, NoOutput
  <2> HIDE DEF draft, seen
  <2>2. Ignores(draft.state, draft.events)
    BY <1>1, <2>1 DEF Ignores, SameStock, StillWaits, ReferenceState
  <2> QED BY <2>2 DEF ComesTo, draft
<1>4. CASE input.messageId \notin semantic.processedObservations /\ AnswersRequest(semantic, input)
  <2>1. action \in Waiting
    BY <1>4 DEF AnswersRequest, IsWaiting, Waiting
  <2>2. waiting.quantity \in Int
    BY <2>1, Zenon DEF Custody, WaitingFor, Waiting
  <2>3. draft = Settle(seen, input, waiting)
    BY <1>4 DEF ReactObservation
  <2>4. /\ DOMAIN base = SemanticFields /\ base.stock = semantic.stock
        /\ base.reservations = semantic.reservations
        /\ base.pending = Without(semantic.pending, action)
        /\ base.unknown = Without(semantic.unknown, action)
        /\ base.processedCommands = semantic.processedCommands
    <3> HIDE DEF seen
    <3> QED BY <1>1 DEF NoLonger, SemanticFields
  <2>5. ReferenceState(base) = ReferenceState(semantic)
    <3> HIDE DEF base
    <3> QED BY <2>4, Zenon DEF ReferenceState
  <2>6. \A st, event : /\ Emits(st, input, event).state = st
                       /\ \E e : Emits(st, input, event).events = <<e>> /\ e.payload = event
    <3>1. \A event : Emission(input, event).payload = event
      BY DEF Emission
    <3>2. \A st, event : /\ Emits(st, input, event).state = st
                         /\ Emits(st, input, event).events = <<Emission(input, event)>>
      BY DEF Emits, NoOutput
    <3> QED BY <3>1, <3>2, Zenon
  <2>7. CASE m.kind = "FreshIdentifierUnknown"
    <3> DEFINE lost == [base EXCEPT !.unknown = With(@, action, waiting)]
               event == [kind |-> "IdentifierOutcomeUnknown", actionId |-> action]
    <3>1. /\ DOMAIN lost = SemanticFields /\ lost.stock = base.stock
          /\ lost.reservations = base.reservations /\ lost.pending = base.pending
          /\ lost.unknown = With(base.unknown, action, waiting)
          /\ lost.processedCommands = base.processedCommands
      <4> HIDE DEF base, waiting
      <4> QED BY <2>4 DEF SemanticFields
    <3>2. draft = Emits(lost, input, event)
      BY <2>3, <2>7 DEF Settle
    <3>3. event.kind = "IdentifierOutcomeUnknown"
      OBVIOUS
    <3> HIDE DEF lost, event, draft, base, waiting
    <3>4. draft.state = lost /\ \E e : draft.events = <<e>> /\ e.payload = event
      BY <2>6, <3>2
    <3>5. SameStock(lost)
      BY <2>4, <2>5, <3>1, Zenon DEF SameStock, ReferenceState
    <3>6. LosesTrack(draft.state, draft.events)
      BY <2>1, <2>2, <2>4, <3>1, <3>3, <3>4, <3>5, Zenon DEF LosesTrack
    <3> QED BY <3>6 DEF ComesTo, draft
  <2>8. ASSUME NEW next, NEW event, draft = Emits(WithReference(base, next), input, event),
               Decided(ReferenceState(semantic), next, event)
        PROVE  ComesTo(draft.state, draft.events)
    <3> DEFINE told == WithReference(base, next)
    <3>1. /\ DOMAIN told = SemanticFields /\ told.stock = next.stock
          /\ told.reservations = next.reservations /\ told.pending = base.pending
          /\ told.unknown = base.unknown /\ told.processedCommands = base.processedCommands
      <4> HIDE DEF base
      <4> QED BY <2>4 DEF WithReference, SemanticFields
    <3> HIDE DEF draft, base, waiting
    <3>2. draft.state = told /\ \E e : draft.events = <<e>> /\ e.payload = event
      BY <2>6, <2>8
    <3> HIDE DEF told
    <3>3. ReferenceState(told) = next
      BY <2>8, <3>1, Zenon DEF Decided, IsInventory, ReferenceState
    <3>4. Emitted(draft.state, draft.events)
      BY <2>8, <3>1, <3>2, <3>3, Zenon DEF Emitted
    <3>5. Settles(draft.state, draft.events)
      BY <2>1, <2>4, <3>1, <3>2, <3>4, Zenon DEF Settles
    <3> QED BY <3>5 DEF ComesTo
  <2>9. CASE m.kind = "FreshIdentifierUnavailable"
    <3> DEFINE event == [kind |-> "ReservationRejected", item |-> waiting.item,
                         quantity |-> waiting.quantity, reason |-> "identifier_unavailable"]
               st == ReferenceState(semantic)
    <3>1. draft = Emits(base, input, event)
      BY <2>3, <2>9 DEF Settle
    <3>2. event.kind = "ReservationRejected"
      OBVIOUS
    <3> HIDE DEF event
    <3>3. ApplyEvent(st, event) = {st}
      BY <3>2 DEF ApplyEvent
    <3>4. Decided(st, st, event)
      BY <3>2, <3>3 DEF Decided
    <3>5. WithReference(base, st) = base
      <4>1. st.stock = base.stock /\ st.reservations = base.reservations
        <5> HIDE DEF base
        <5> QED BY <2>4 DEF ReferenceState
      <4>2. base = [x \in SemanticFields |-> base[x]]
        BY <1>1 DEF NoLonger, SemanticFields
      <4> HIDE DEF base, st
      <4> QED BY <4>1, <4>2 DEF WithReference, SemanticFields
    <3> QED BY <2>8, <3>1, <3>4, <3>5
  <2>10. CASE m.kind \notin {"FreshIdentifierUnknown", "FreshIdentifierUnavailable"}
    <3> DEFINE asked == [kind |-> "Reserve", item |-> waiting.item, quantity |-> waiting.quantity]
               next == Transition("reference", asked, ReferenceState(base), m.identifier)
    <3>1. m.kind = "FreshIdentifierAllocated" /\ DOMAIN m = FieldsOf[m.kind]
      BY <2>10 DEF InputIsGuarded, Decodes, KindsOf
    <3>2. m.identifier # None
      BY <3>1 DEF InputIsTyped, FieldsOf
    <3>3. draft = Emits(WithReference(base, next.state), input, next.event)
      BY <2>3, <3>1 DEF Settle, Allocate
    <3>4. asked.quantity = waiting.quantity
      OBVIOUS
    <3> HIDE DEF asked
    <3>5. Decided(ReferenceState(semantic), next.state, next.event)
      BY <2>2, <2>5, <3>2, <3>4, TransitionIsDecided
    <3> QED BY <2>8, <3>3, <3>5
  <2> QED BY <2>7, <2>9, <2>10
<1> QED BY <1>2, <1>3, <1>4

(* ---- a step of the actor -------------------------------------------------- *)
LEMMA SequencesGrow ==
    ASSUME NEW q, q \in Seq(ToSet(q)), NEW e
    PROVE  /\ q \o <<e>> = Append(q, e) /\ Append(q, e) \in Seq(ToSet(Append(q, e)))
           /\ Len(q) \in Nat /\ DOMAIN q = 1 .. Len(q)
           /\ Len(Append(q, e)) = Len(q) + 1 /\ DOMAIN Append(q, e) = 1 .. Len(q) + 1
           /\ Append(q, e)[Len(q) + 1] = e /\ \A i \in 1 .. Len(q) : Append(q, e)[i] = q[i]
           /\ ToSet(Append(q, e)) = ToSet(q) \cup {e}
<1> DEFINE S == ToSet(q) \cup {e}
<1>1. q \in Seq(S) /\ e \in S
  OBVIOUS
<1> HIDE DEF S
<1>2. /\ q \o <<e>> = Append(q, e)
      /\ Len(q) \in Nat /\ DOMAIN q = 1 .. Len(q)
      /\ Append(q, e) \in Seq(S)
      /\ Len(Append(q, e)) = Len(q) + 1 /\ DOMAIN Append(q, e) = 1 .. Len(q) + 1
      /\ Append(q, e)[Len(q) + 1] = e /\ \A i \in 1 .. Len(q) : Append(q, e)[i] = q[i]
  BY <1>1
<1>3. ToSet(Append(q, e)) = ToSet(q) \cup {e}
  BY <1>2 DEF ToSet
<1> QED BY <1>2, <1>3 DEF S

LEMMA EventsGrow ==
    ASSUME Published, NEW e, (journey.events)' = journey.events \o <<e>>
    PROVE  /\ Replay(started, Payloads') = Applied(Replay(started, Payloads), e.payload)
           /\ ReferenceEvents' = ReferenceEvents \cup
                 {i \in {Len(journey.events) + 1} : e.payload.kind # "IdentifierOutcomeUnknown"}
           /\ Len(journey.events) + 1 \notin ReferenceEvents /\ IsFiniteSet(ReferenceEvents)
<1> DEFINE q == journey.events
           n == Len(q)
           P == {d.payload : d \in ToSet(q) \cup {e}}
<1>1. /\ q' = Append(q, e) /\ n \in Nat /\ DOMAIN q = 1 .. n /\ Len(q') = n + 1
      /\ DOMAIN q' = 1 .. n + 1 /\ q'[n + 1] = e /\ \A i \in 1 .. n : q'[i] = q[i]
  BY SequencesGrow DEF Published
<1>2. /\ Payloads = [i \in 1 .. n |-> q[i].payload]
      /\ Payloads' = [i \in 1 .. n + 1 |-> q'[i].payload]
  BY <1>1 DEF Payloads
<1>3. \A i \in 1 .. n : q[i] \in ToSet(q)
  BY <1>1 DEF ToSet
<1>4. /\ \A i \in 1 .. n : q[i].payload \in P
      /\ \A i \in 1 .. n + 1 : q'[i].payload \in P
  <2>1. ASSUME NEW i \in 1 .. n + 1 PROVE q'[i] \in ToSet(q) \cup {e}
    BY <1>1, <1>3
  <2> QED BY <1>3, <2>1
<1> HIDE DEF P, q, n
<1>5. /\ Payloads \in Seq(P) /\ Len(Payloads) = n
      /\ Payloads' \in Seq(P) /\ Len(Payloads') = n + 1
  <2>1. Payloads \in [1 .. n -> P] /\ Payloads' \in [1 .. n + 1 -> P] /\ n \in Nat /\ n + 1 \in Nat
    BY <1>1, <1>2, <1>4
  <2>2. ASSUME NEW f, NEW k \in Nat, f \in [1 .. k -> P] PROVE f \in Seq(P) /\ Len(f) = k
    BY <2>2
  <2> QED BY <2>1, <2>2
<1>6. /\ DOMAIN Payloads = 1 .. n /\ DOMAIN Payloads' = 1 .. n + 1
      /\ Payloads'[n + 1] = e.payload /\ \A i \in 1 .. n : Payloads'[i] = Payloads[i]
  BY <1>1, <1>2
<1>7. SameTo(Payloads, Payloads', Len(Payloads))
  BY <1>5, <1>6 DEF SameTo
<1>8. Replay(started, Payloads') = Applied(Replay(started, Payloads), Payloads'[Len(Payloads')])
  BY <1>5, <1>7, ReplayOfMore
<1>9. ReferenceEvents' = ReferenceEvents \cup {i \in {n + 1} : e.payload.kind # "IdentifierOutcomeUnknown"}
  BY <1>1, <1>6 DEF ReferenceEvents
<1>10. n + 1 \notin ReferenceEvents /\ ReferenceEvents \subseteq 1 .. n
  BY <1>1, <1>6 DEF ReferenceEvents
<1>11. IsFiniteSet(ReferenceEvents)
  <2>1. IsFiniteSet(1 .. n)
    BY <1>1, FS_Interval
  <2> QED BY <1>10, <2>1, FS_Subset
<1> QED BY <1>5, <1>6, <1>8, <1>9, <1>10, <1>11 DEF n, q

Counted == Cardinality(semantic.processedCommands) = Cardinality(ReferenceEvents) + Cardinality(Waiting)
Apart == DOMAIN semantic.pending \cap DOMAIN semantic.unknown = {}
Sound == InvariantViolations(started) = {} => InvariantViolations(semantic) = {}
TellsAll == Replay(started, Payloads) = {ReferenceState(semantic)}

LEMMA SameViolations == ASSUME NEW st PROVE InvariantViolations(ReferenceState(st)) = InvariantViolations(st)
<1>1. ReferenceState(st).stock = st.stock /\ ReferenceState(st).reservations = st.reservations
  BY DEF ReferenceState
<1> QED BY <1>1, Zenon DEF InvariantViolations

(* Of a map of waiting reservations: what it holds.                           *)
Holds(f) == \A action \in DOMAIN f : f[action].quantity \in Int

LEMMA HoldsStill ==
    ASSUME NEW f, Holds(f), NEW x, NEW v
    PROVE  Holds(Without(f, x)) /\ (v.quantity \in Int => Holds(With(f, x, v)))
<1>1. Holds(Without(f, x))
  BY DEF Holds, Without
<1>2. ASSUME v.quantity \in Int PROVE Holds(With(f, x, v))
  <2>1. ASSUME NEW y \in DOMAIN With(f, x, v) PROVE With(f, x, v)[y].quantity \in Int
    <3>1. CASE y = x
      BY <1>2, <3>1 DEF With
    <3>2. CASE y # x
      <4>1. y \in DOMAIN f /\ With(f, x, v)[y] = f[y]
        BY <2>1, <3>2 DEF With
      <4> QED BY <4>1 DEF Holds
    <3> QED BY <3>1, <3>2
  <2> QED BY <2>1 DEF Holds
<1> QED BY <1>1, <1>2

(* How the commands taken and the actions waiting move.                       *)
Moves(S, T, W, V) ==
    \/ T = S /\ V = W
    \/ \E id : id \notin S /\ IsIdentity(id) /\ T = S \cup {id} /\ V = W
    \/ \E id : /\ id \notin S /\ IsIdentity(id) /\ T = S \cup {id}
               /\ Append(id, "fresh") \notin W /\ V = W \cup {Append(id, "fresh")}
    \/ \E action \in W : T = S /\ V = W \ {action}

LEMMA CustodyStep ==
    ASSUME Custody, Apart, NEW events, ComesTo(semantic', events)
    PROVE  Custody' /\ Apart'
<1>1. /\ DOMAIN semantic = SemanticFields /\ Holds(semantic.pending) /\ Holds(semantic.unknown)
  BY DEF Custody, Holds
<1>2. DOMAIN semantic' = SemanticFields
  BY DEF ComesTo, Ignores, Asks, Decides, Settles, LosesTrack, Emitted, SameStock
<1>3. ASSUME StillWaits(semantic')
      PROVE  Holds(semantic'.pending) /\ Holds(semantic'.unknown) /\ Apart' /\ Waiting' = Waiting
  <2>1. semantic'.pending = semantic.pending /\ semantic'.unknown = semantic.unknown
    BY <1>3 DEF StillWaits
  <2> QED BY <1>1, <2>1 DEF Apart, Waiting
<1>4. /\ Holds(semantic'.pending) /\ Holds(semantic'.unknown) /\ Apart'
      /\ Moves(semantic.processedCommands, semantic'.processedCommands, Waiting, Waiting')
  <2>1. CASE Ignores(semantic', events)
    BY <1>3, <2>1 DEF Ignores, Moves
  <2>2. CASE Asks(semantic', events)
    <3>1. PICK id, w : /\ TakesIn(semantic', id) /\ Append(id, "fresh") \notin Waiting /\ w.quantity \in Int
                       /\ semantic'.pending = With(semantic.pending, Append(id, "fresh"), w)
                       /\ semantic'.unknown = semantic.unknown
      BY <2>2, Zenon DEF Asks
    <3> DEFINE action == Append(id, "fresh")
    <3> HIDE DEF action
    <3>2. DOMAIN semantic'.pending = DOMAIN semantic.pending \cup {action}
      BY <3>1 DEF action, With
    <3>3. Holds(semantic'.pending) /\ Holds(semantic'.unknown)
      BY <1>1, <3>1, HoldsStill, Zenon
    <3>4. Apart' /\ Waiting' = Waiting \cup {action}
      BY <3>1, <3>2 DEF Apart, Waiting, action
    <3>5. Moves(semantic.processedCommands, semantic'.processedCommands, Waiting, Waiting')
      BY <3>1, <3>4, Zenon DEF Moves, TakesIn, action
    <3> QED BY <3>3, <3>4, <3>5
  <2>3. CASE Decides(semantic', events)
    <3>1. StillWaits(semantic') /\ \E id : TakesIn(semantic', id)
      BY <2>3 DEF Decides
    <3>2. Moves(semantic.processedCommands, semantic'.processedCommands, Waiting, Waiting')
      BY <1>3, <3>1, Zenon DEF Moves, TakesIn
    <3> QED BY <1>3, <3>1, <3>2
  <2>4. CASE Settles(semantic', events)
    <3>1. PICK action \in Waiting : /\ semantic'.pending = Without(semantic.pending, action)
                                    /\ semantic'.unknown = Without(semantic.unknown, action)
      BY <2>4, Zenon DEF Settles
    <3>2. /\ DOMAIN semantic'.pending = DOMAIN semantic.pending \ {action}
          /\ DOMAIN semantic'.unknown = DOMAIN semantic.unknown \ {action}
      BY <3>1 DEF With, Without
    <3>3. Holds(semantic'.pending) /\ Holds(semantic'.unknown)
      BY <1>1, <3>1, HoldsStill, Zenon
    <3>4. Apart' /\ Waiting' = Waiting \ {action}
      BY <3>2 DEF Apart, Waiting
    <3>5. Moves(semantic.processedCommands, semantic'.processedCommands, Waiting, Waiting')
      BY <2>4, <3>4, Zenon DEF Moves, Settles
    <3> QED BY <3>3, <3>4, <3>5
  <2>5. CASE LosesTrack(semantic', events)
    <3>1. PICK action \in Waiting : \E w :
             /\ w.quantity \in Int /\ semantic'.pending = Without(semantic.pending, action)
             /\ semantic'.unknown = With(Without(semantic.unknown, action), action, w)
      BY <2>5, Zenon DEF LosesTrack
    <3>2. PICK w :
             /\ w.quantity \in Int /\ semantic'.pending = Without(semantic.pending, action)
             /\ semantic'.unknown = With(Without(semantic.unknown, action), action, w)
      BY <3>1
    <3>3. /\ DOMAIN semantic'.pending = DOMAIN semantic.pending \ {action}
          /\ DOMAIN semantic'.unknown = (DOMAIN semantic.unknown \ {action}) \cup {action}
      BY <3>2 DEF With, Without
    <3>4. Holds(semantic'.pending) /\ Holds(semantic'.unknown)
      BY <1>1, <3>2, HoldsStill, Zenon
    <3>5. Apart' /\ Waiting' = Waiting
      BY <3>3 DEF Apart, Waiting
    <3>6. Moves(semantic.processedCommands, semantic'.processedCommands, Waiting, Waiting')
      BY <2>5, <3>5, Zenon DEF Moves, LosesTrack
    <3> QED BY <3>4, <3>5, <3>6
  <2> QED BY <2>1, <2>2, <2>3, <2>4, <2>5 DEF ComesTo
<1>5. /\ IsFiniteSet(semantic'.processedCommands) /\ IsFiniteSet(Waiting')
      /\ \A m \in semantic'.processedCommands : IsIdentity(m)
      /\ \A action \in Waiting' : \E m \in semantic'.processedCommands : action = Append(m, "fresh")
  <2> DEFINE S == semantic.processedCommands
  <2>1. /\ IsFiniteSet(S) /\ IsFiniteSet(Waiting) /\ \A m \in S : IsIdentity(m)
        /\ \A action \in Waiting : \E m \in S : action = Append(m, "fresh")
    BY DEF Custody
  <2> HIDE DEF S
  <2>2. CASE S' = S /\ Waiting' = Waiting
    BY <2>1, <2>2 DEF S
  <2>3. ASSUME NEW id, id \notin S, IsIdentity(id), S' = S \cup {id},
               Waiting' = Waiting \/ Waiting' = Waiting \cup {Append(id, "fresh")}
        PROVE  /\ IsFiniteSet(S') /\ IsFiniteSet(Waiting') /\ \A m \in S' : IsIdentity(m)
               /\ \A action \in Waiting' : \E m \in S' : action = Append(m, "fresh")
    <3>1. IsFiniteSet(S') /\ IsFiniteSet(Waiting')
      BY <2>1, <2>3, FS_AddElement
    <3>2. \A action \in Waiting' : action \in Waiting \/ action = Append(id, "fresh")
      BY <2>3
    <3> QED BY <2>1, <2>3, <3>1, <3>2
  <2>4. ASSUME NEW action \in Waiting, S' = S, Waiting' = Waiting \ {action}
        PROVE  IsFiniteSet(Waiting')
    BY <2>1, <2>4, FS_RemoveElement
  <2> QED BY <1>4, <2>1, <2>2, <2>3, <2>4 DEF Moves, S
<1> QED BY <1>2, <1>4, <1>5 DEF Custody, Holds

(* What is published goes with the stock: an event that was decided tells of  *)
(* the step, and one of an unknown outcome of none.                           *)
LEMMA StockStep ==
    ASSUME Published, TellsAll, Sound, IsInventory(ReferenceState(semantic)), started' = started,
           NEW events, ComesTo(semantic', events), (journey.events)' = journey.events \o events
    PROVE  TellsAll' /\ Sound' /\ IsInventory(ReferenceState(semantic)')
<1> DEFINE st == ReferenceState(semantic)
<1>0. /\ InvariantViolations(started) = {} => InvariantViolations(st) = {}
      /\ (InvariantViolations(started) = {} => InvariantViolations(st') = {}) => Sound'
  <2>1. InvariantViolations(st) = InvariantViolations(semantic)
    BY SameViolations
  <2>2. InvariantViolations(ReferenceState(semantic')) = InvariantViolations(semantic')
    BY SameViolations
  <2>3. st' = ReferenceState(semantic')
    BY DEF ReferenceState
  <2> HIDE DEF st
  <2> QED BY <2>1, <2>2, <2>3 DEF Sound
<1>1. CASE events = <<>> /\ SameStock(semantic')
  <2>1. (journey.events)' = journey.events /\ st' = st
    BY <1>1 DEF Published, SameStock, ReferenceState
  <2>2. Payloads' = Payloads
    BY <2>1 DEF Payloads
  <2> HIDE DEF st
  <2> QED BY <1>0, <2>1, <2>2 DEF TellsAll, st
<1>2. ASSUME NEW e, events = <<e>> PROVE TellsAll' <=> Applied({st}, e.payload) = {st'}
  <2>1. Replay(started, Payloads') = Applied({st}, e.payload)
    BY <1>2, EventsGrow DEF TellsAll
  <2>2. Replay(started', Payloads') = Replay(started, Payloads')
    OBVIOUS
  <2> HIDE DEF st
  <2> QED BY <2>1, <2>2 DEF TellsAll, st
<1>3. \A next, p : Applied({st}, p) = {next} <=> ApplyEvent(st, p) = {next}
  <2> HIDE DEF st
  <2>1. \A p : Applied({st}, p) = ApplyEvent(st, p)
    BY DEF Applied
  <2> QED BY <2>1
<1>4. ASSUME NEW e, events = <<e>>, Decided(st, st', e.payload)
      PROVE  TellsAll' /\ Sound' /\ IsInventory(st')
  <2> HIDE DEF st
  <2>1. TellsAll'
    BY <1>2, <1>3, <1>4 DEF Decided
  <2>2. InvariantViolations(started) = {} => InvariantViolations(st') = {}
    BY <1>4, <1>0 DEF Decided, st
  <2> QED BY <1>4, <2>1, <2>2, <1>0 DEF Decided, st, Sound
<1>5. ASSUME NEW e, events = <<e>>, e.payload.kind = "IdentifierOutcomeUnknown", SameStock(semantic')
      PROVE  TellsAll' /\ Sound' /\ IsInventory(st')
  <2>1. st' = st
    BY <1>5 DEF SameStock, ReferenceState
  <2> HIDE DEF st
  <2>2. ApplyEvent(st, e.payload) = {st}
    BY <1>5 DEF ApplyEvent
  <2>3. TellsAll'
    BY <1>2, <1>3, <1>5, <2>1, <2>2
  <2> QED BY <2>1, <2>3, <1>0 DEF Sound, st
<1> QED
  BY <1>1, <1>4, <1>5
  DEF ComesTo, Ignores, Asks, Decides, Settles, LosesTrack, Emitted, ReferenceState

(* A command that is taken in is one more that waits or one more that an      *)
(* event settles, and an answer settles one that waited.                      *)
LEMMA CountStep ==
    ASSUME Published, Custody, Apart, Counted,
           NEW events, ComesTo(semantic', events), (journey.events)' = journey.events \o events
    PROVE  Counted'
<1> DEFINE S == semantic.processedCommands
           E == ReferenceEvents
<1>1. IsFiniteSet(S) /\ IsFiniteSet(Waiting)
  BY DEF Custody
<1>2. Cardinality(S) \in Nat /\ Cardinality(Waiting) \in Nat
  BY <1>1, FS_CardinalityType
<1>3. ASSUME NEW id, TakesIn(semantic', id) PROVE Cardinality(S') = Cardinality(S) + 1
  BY <1>1, <1>3, FS_AddElement DEF TakesIn
<1>4. ASSUME events = <<>> PROVE E' = E
  <2>1. (journey.events)' = journey.events
    BY <1>4 DEF Published
  <2>2. Payloads' = Payloads
    BY <2>1 DEF Payloads
  <2> QED BY <2>2 DEF ReferenceEvents
<1>5. ASSUME Emitted(semantic', events)
      PROVE  Cardinality(E') = Cardinality(E) + 1 /\ Cardinality(E) \in Nat
  <2>1. PICK e : events = <<e>> /\ e.payload.kind # "IdentifierOutcomeUnknown"
    BY <1>5 DEF Emitted, Decided
  <2> DEFINE i == Len(journey.events) + 1
  <2>2. E' = E \cup {i} /\ i \notin E /\ IsFiniteSet(E)
    BY <2>1, EventsGrow
  <2> HIDE DEF i, E
  <2> QED BY <2>2, FS_AddElement, FS_CardinalityType
<1>6. ASSUME StillWaits(semantic') PROVE Waiting' = Waiting
  BY <1>6 DEF StillWaits, Waiting
<1>7. CASE Ignores(semantic', events)
  BY <1>4, <1>6, <1>7 DEF Ignores, Counted
<1>8. CASE Asks(semantic', events)
  <2>1. PICK id : /\ TakesIn(semantic', id) /\ Append(id, "fresh") \notin Waiting /\ events = <<>>
                  /\ Waiting' = Waiting \cup {Append(id, "fresh")}
    BY <1>8 DEF Asks, Waiting, With
  <2>2. Cardinality(Waiting') = Cardinality(Waiting) + 1
    BY <1>1, <2>1, FS_AddElement
  <2>3. Cardinality(E) \in Nat
    <3>1. IsFiniteSet(1 .. Len(journey.events)) /\ E \subseteq 1 .. Len(journey.events)
      <4>1. Len(journey.events) \in Nat /\ DOMAIN journey.events = 1 .. Len(journey.events)
        BY DEF Published
      <4> QED BY <4>1, FS_Interval DEF ReferenceEvents, Payloads
    <3> QED BY <3>1, FS_Subset, FS_CardinalityType
  <2> HIDE DEF S, E
  <2>4. Cardinality(S') = Cardinality(S) + 1 /\ E' = E
    BY <1>3, <1>4, <2>1
  <2> QED BY <1>2, <2>2, <2>3, <2>4 DEF Counted, S, E
<1>9. CASE Decides(semantic', events)
  <2>1. /\ Cardinality(S') = Cardinality(S) + 1 /\ Waiting' = Waiting
        /\ Cardinality(E') = Cardinality(E) + 1 /\ Cardinality(E) \in Nat
    BY <1>3, <1>5, <1>6, <1>9 DEF Decides
  <2> QED BY <1>2, <2>1 DEF Counted
<1>10. CASE Settles(semantic', events)
  <2>1. PICK action \in Waiting : Waiting' = Waiting \ {action}
    BY <1>10 DEF Settles, Waiting, Without
  <2>2. Cardinality(Waiting') = Cardinality(Waiting) - 1
    BY <1>1, <2>1, FS_RemoveElement
  <2>3. S' = S /\ Cardinality(E') = Cardinality(E) + 1 /\ Cardinality(E) \in Nat
    BY <1>5, <1>10 DEF Settles
  <2> QED BY <1>2, <2>2, <2>3 DEF Counted
<1>11. CASE LosesTrack(semantic', events)
  <2>1. PICK e : events = <<e>> /\ e.payload.kind = "IdentifierOutcomeUnknown"
    BY <1>11 DEF LosesTrack
  <2>2. E' = E
    BY <2>1, EventsGrow
  <2>3. Waiting' = Waiting
    BY <1>11 DEF LosesTrack, Waiting, With, Without
  <2> QED BY <1>11, <2>2, <2>3 DEF LosesTrack, Counted
<1> QED BY <1>7, <1>8, <1>9, <1>10, <1>11 DEF ComesTo

Begun == started = None => journey.events = <<>> /\ journey.effects = <<>>
Running == started # None =>
    IsInventory(ReferenceState(semantic)) /\ Custody /\ Apart /\ Counted /\ Sound /\ TellsAll

LEMMA StartStep ==
    ASSUME Published, Begun, NEW st \in FirstStocks, Start(st)
    PROVE  Running'
<1>1. /\ started' = st /\ journey' = journey /\ journey.events = <<>>
      /\ semantic' = [stock |-> st.stock, reservations |-> st.reservations, pending |-> <<>>,
                      unknown |-> <<>>, processedCommands |-> {}, processedObservations |-> {}]
  BY DEF Start, Begun
<1>2. /\ DOMAIN semantic' = SemanticFields /\ semantic'.stock = st.stock
      /\ semantic'.reservations = st.reservations /\ semantic'.pending = <<>>
      /\ semantic'.unknown = <<>> /\ semantic'.processedCommands = {}
  BY <1>1 DEF SemanticFields
<1>3. IsInventory(st)
  BY FirstStocksAreInventories
<1>4. ReferenceState(semantic') = st
  BY <1>2, <1>3, Zenon DEF IsInventory, ReferenceState
<1>5. Waiting' = {}
  BY <1>2 DEF Waiting
<1>6. Custody' /\ Apart'
  BY <1>2, <1>5, FS_EmptySet DEF Custody, Apart
<1>7. Payloads' = <<>> /\ ReferenceEvents' = {}
  BY <1>1 DEF Payloads, ReferenceEvents
<1>8. Counted'
  BY <1>2, <1>5, <1>7, FS_EmptySet DEF Counted
<1>9. TellsAll'
  BY <1>1, <1>4, <1>7, ReplayOfNone DEF TellsAll, ReferenceState
<1>10. Sound'
  BY <1>1, <1>4, SameViolations DEF Sound
<1> QED BY <1>3, <1>4, <1>6, <1>8, <1>9, <1>10 DEF Running, ReferenceState

LEMMA ReactStep ==
    ASSUME Published, Running, NEW input \in Sent, React(input)
    PROVE  Running' /\ (journey.events)' \in Seq(ToSet((journey.events)'))
<1> DEFINE draft == Draft(input)
<1>1. /\ started # None /\ started' = started /\ InputIsGuarded(input)
      /\ input.category \in {"command", "observation"} /\ semantic' = draft.state
      /\ journey' = [events |-> journey.events \o draft.events, effects |-> journey.effects \o draft.effects]
  BY DEF React, Take, IsOpen
<1>2. InputIsTyped(input)
  BY SentIsTyped
<1>3. ComesTo(draft.state, draft.events)
  BY <1>1, <1>2, CommandIs, ObservationIs DEF Running, Draft
<1> HIDE DEF draft
<1>4. (journey.events)' = journey.events \o draft.events
  BY <1>1
<1>5. Custody' /\ Apart' /\ Counted' /\ TellsAll' /\ Sound' /\ IsInventory(ReferenceState(semantic)')
  BY <1>1, <1>3, <1>4, CustodyStep, CountStep, StockStep DEF Running
<1>6. draft.events = <<>> \/ \E e : draft.events = <<e>>
  BY <1>3 DEF ComesTo, Ignores, Asks, Decides, Settles, LosesTrack, Emitted
<1>7. (journey.events)' \in Seq(ToSet((journey.events)'))
  <2>1. CASE draft.events = <<>>
    BY <1>4, <2>1 DEF Published
  <2>2. ASSUME NEW e, draft.events = <<e>> PROVE (journey.events)' \in Seq(ToSet((journey.events)'))
    <3> DEFINE q == journey.events
    <3>1. q \in Seq(ToSet(q))
      BY DEF Published
    <3>2. q' = Append(q, e) /\ Append(q, e) \in Seq(ToSet(Append(q, e)))
      <4> HIDE DEF q
      <4>1. q \o <<e>> = Append(q, e) /\ Append(q, e) \in Seq(ToSet(Append(q, e)))
        BY <3>1, SequencesGrow
      <4> QED BY <1>4, <2>2, <4>1 DEF q
    <3> HIDE DEF q
    <3>3. q' \in Seq(ToSet(q'))
      BY <3>2, Zenon
    <3> QED BY <3>3 DEF q
  <2> QED BY <1>6, <2>1, <2>2
<1> QED BY <1>1, <1>5, <1>7 DEF Running, ReferenceState

LEMMA InterpretStep ==
    ASSUME Published, NEW request, Interpret(request)
    PROVE  returned' \in Seq(ToSet(returned')) /\ \A o \in ToSet(returned') :
              o.category = "observation" /\ ("identifier" \in DOMAIN o.payload => o.payload.identifier # None)
<1> DEFINE o == Interpreted(request)
           next == Len(returned) + 1
<1>1. returned' = Append(returned, o) /\ returned \in Seq(ToSet(returned))
  BY DEF Interpret, Published
<1>2. o.category = "observation"
  BY DEF Interpreted
<1>3. next \in Nat \ {0}
  BY <1>1
<1>4. "identifier" \in DOMAIN o.payload => o.payload.identifier # None
  <2>1. CASE next > Len(Identifiers)
    <3>1. o.payload = [kind |-> "FreshIdentifierUnavailable", reason |-> "deterministic_sequence_exhausted"]
      BY <2>1 DEF Interpreted
    <3> HIDE DEF o
    <3> QED BY <3>1
  <2>2. CASE ~(next > Len(Identifiers))
    <3>1. o.payload = [kind |-> "FreshIdentifierAllocated", identifier |-> Identifiers[next]]
      BY <2>2 DEF Interpreted
    <3>2. Identifiers \in Seq(ToSet(Identifiers))
      BY IdentifiersAreGiven DEF IsIdentity
    <3>3. next \in 1 .. Len(Identifiers) /\ DOMAIN Identifiers = 1 .. Len(Identifiers)
      BY <1>3, <2>2, <3>2
    <3> HIDE DEF next, o
    <3>4. Identifiers[next] \in ToSet(Identifiers)
      BY <3>3 DEF ToSet
    <3> QED BY <3>1, <3>4, IdentifiersAreGiven
  <2> QED BY <2>1, <2>2
<1> HIDE DEF o
<1>5. ToSet(returned') = ToSet(returned) \cup {o} /\ returned' \in Seq(ToSet(returned'))
  <2>1. ToSet(Append(returned, o)) = ToSet(returned) \cup {o} /\ Append(returned, o) \in Seq(ToSet(Append(returned, o)))
    BY <1>1, SequencesGrow
  <2> QED BY <1>1, <2>1, Zenon
<1> QED BY <1>2, <1>4, <1>5 DEF Published

InventoryInv == Published /\ Begun /\ Running

LEMMA InventoryInvHolds == InventorySpec => []InventoryInv
<1>1. ActorInit => InventoryInv
  BY DEF ActorInit, InventoryInv, Published, Begun, Running, ToSet
<1>2. ASSUME InventoryInv, [ActorNext]_actorVars PROVE InventoryInv'
  <2>1. ASSUME UNCHANGED <<started, semantic, journey, returned>> PROVE InventoryInv'
    <3>1. /\ Published' /\ Begun'
      BY <1>2, <2>1 DEF InventoryInv, Published, Begun
    <3>2. Waiting' = Waiting /\ ReferenceEvents' = ReferenceEvents /\ Payloads' = Payloads
      BY <2>1 DEF Waiting, ReferenceEvents, Payloads
    <3>3. Running'
      BY <1>2, <2>1, <3>2 DEF InventoryInv, Running, Custody, Apart, Counted, Sound, TellsAll, ReferenceState
    <3> QED BY <3>1, <3>3 DEF InventoryInv
  <2>2. ASSUME NEW spec \in AuthoredSpecs, Define(spec) PROVE InventoryInv'
    BY <2>1, <2>2 DEF Define
  <2>3. ASSUME NEW st \in FirstStocks, Start(st) PROVE InventoryInv'
    <3>1. Running'
      BY <1>2, <2>3, StartStep DEF InventoryInv
    <3>2. started = None /\ UNCHANGED <<journey, returned>>
      BY <2>3 DEF Start
    <3>3. Published' /\ Begun'
      BY <1>2, <3>2 DEF InventoryInv, Published, Begun
    <3> QED BY <3>1, <3>3 DEF InventoryInv
  <2>4. ASSUME NEW input \in Sent, React(input) PROVE InventoryInv'
    <3>1. Running' /\ (journey.events)' \in Seq(ToSet((journey.events)'))
      BY <1>2, <2>4, ReactStep DEF InventoryInv
    <3>2. /\ started # None /\ started' = started /\ returned' = returned
          /\ journey' = [events |-> journey.events \o Draft(input).events,
                         effects |-> journey.effects \o Draft(input).effects]
      BY <2>4 DEF React, Take, IsOpen
    <3>3. DOMAIN journey' = {"events", "effects"}
      BY <3>2
    <3>4. Published' /\ Begun'
      BY <1>2, <3>1, <3>2, <3>3 DEF InventoryInv, Published, Begun
    <3> QED BY <3>1, <3>4 DEF InventoryInv
  <2>5. ASSUME NEW input \in Sent, Answer(input) \/ InputFails(input) PROVE InventoryInv'
    BY <2>1, <2>5 DEF Answer, InputFails
  <2>6. ASSUME NEW request, Interpret(request) PROVE InventoryInv'
    <3>1. UNCHANGED <<started, semantic, journey>>
      BY <2>6 DEF Interpret
    <3>2. Published'
      BY <1>2, <2>6, <3>1, InterpretStep DEF InventoryInv, Published
    <3>3. Waiting' = Waiting /\ ReferenceEvents' = ReferenceEvents /\ Payloads' = Payloads
      BY <3>1 DEF Waiting, ReferenceEvents, Payloads
    <3>4. Begun' /\ Running'
      BY <1>2, <3>1, <3>3
      DEF InventoryInv, Begun, Running, Custody, Apart, Counted, Sound, TellsAll, ReferenceState
    <3> QED BY <3>2, <3>4 DEF InventoryInv
  <2> QED BY <1>2, <2>1, <2>2, <2>3, <2>4, <2>5, <2>6 DEF ActorNext, actorVars
<1> QED BY <1>1, <1>2, PTL DEF InventorySpec

(* Whatever definition is given, whatever is sent, repeated, answered late or *)
(* wrongly, the published events replay to the inventory, nothing goes below  *)
(* zero, and every command taken is settled by one event or waits once.       *)
THEOREM EventsTellTheInventoryHolds == InventorySpec => []EventsTellTheInventory
<1>1. InventoryInv => EventsTellTheInventory
  BY DEF InventoryInv, Running, EventsTellTheInventory, Apart, Counted, Sound, TellsAll, Waiting
<1> QED BY <1>1, InventoryInvHolds, PTL
=============================================================================
