------------------------------ MODULE StmProofs ------------------------------
(* Theorems about the transaction handler, for every set of cells, values and *)
(* descriptions whose journals tell the whole story (StmSound). The argument: *)
(* a publication gives every cell it changes a version no attempt has seen,   *)
(* so equal versions mean equal values; an attempt holds its description's    *)
(* evaluation on the store it began from; so an attempt with no stale         *)
(* observation, or a suspension with no changed dependency, would evaluate    *)
(* the same way now.  At the end, the interpreter's law for orElse.           *)
EXTENDS StmSound, SequenceTheorems, FiniteSetTheorems, WellFoundedInduction, TLAPS

(* A begun attempt is one more attempt; the others are as they were. *)
LEMMA BeginFacts ==
    ASSUME TypeOK, NEW d \in Descriptions, NEW r \in 1 .. MaxRoots, NEW o \in Nat \ {0},
           Begin(d, r, o)
    PROVE  /\ CellValues \in [Cells -> Values]
           /\ Evaluate(d, CellValues) \in Evaluations
           /\ attempts' \in Seq(Attempts)
           /\ Len(attempts') = Len(attempts) + 1
           /\ Len(attempts) \in Nat
           /\ \A a \in Ids : attempts'[a] = attempts[a]
           /\ attempts'[Len(attempts) + 1] =
                 [description |-> d, root |-> r, ordinal |-> o,
                  start |-> store, evaluation |-> Evaluate(d, CellValues)]
           /\ live' = live \cup {Len(attempts) + 1}
  <1> DEFINE t == [description |-> d, root |-> r, ordinal |-> o,
                   start |-> store, evaluation |-> Evaluate(d, CellValues)]
  <1>1. CellValues \in [Cells -> Values]
    BY DEF TypeOK, CellValues, ValuesOf, CellStates
  <1>2. Evaluate(d, CellValues) \in Evaluations
    BY <1>1, EvaluateSound
  <1>3. store \in [Cells -> CellStates]
    BY DEF TypeOK
  <1>4. t \in Attempts
    BY <1>2, <1>3 DEF Attempts
  <1>5. attempts \in Seq(Attempts) /\ attempts' = Append(attempts, t)
    BY DEF TypeOK, Begin
  <1>6. live' = live \cup {Len(attempts) + 1}
    BY DEF Begin
  <1> HIDE DEF t
  <1>7. /\ attempts' \in Seq(Attempts)
        /\ Len(attempts') = Len(attempts) + 1
        /\ \A a \in 1 .. Len(attempts) : attempts'[a] = attempts[a]
        /\ attempts'[Len(attempts) + 1] = t
    BY <1>4, <1>5, AppendProperties
  <1>8. Len(attempts) \in Nat
    BY <1>5, LenProperties
  <1> QED
    BY <1>1, <1>2, <1>6, <1>7, <1>8 DEF Ids, t

(* The types of every reachable state. *)
LEMMA TypeInit == Init => TypeOK
  <1> SUFFICES ASSUME Init PROVE TypeOK
    OBVIOUS
  <1>1. <<>> \in Seq(Attempts) /\ Len(<<>>) = 0
    OBVIOUS
  <1>2. store \in [Cells -> CellStates]
    BY InitialIsAStore DEF Init, CellStates
  <1>3. log \in Seq([attempt: Ids, kind: {"committed", "aborted"}])
    BY DEF Init
  <1> QED
    BY <1>1, <1>2, <1>3 DEF Init, TypeOK, Ids

LEMMA AttemptTypes ==
    ASSUME TypeOK, NEW a \in Ids
    PROVE  /\ attempts[a] \in Attempts
           /\ attempts[a].description \in Descriptions
           /\ attempts[a].root \in 1 .. MaxRoots
           /\ attempts[a].ordinal \in Nat \ {0}
           /\ attempts[a].ordinal + 1 \in Nat \ {0}
           /\ attempts[a].start \in [Cells -> CellStates]
           /\ attempts[a].evaluation \in Evaluations
  <1>1. attempts[a] \in Attempts
    BY ElementOfSeq DEF TypeOK, Ids
  <1> QED
    BY <1>1 DEF Attempts

LEMMA NextRoot ==
    ASSUME TypeOK, Cardinality(Roots) < MaxRoots
    PROVE  Cardinality(Roots) + 1 \in 1 .. MaxRoots
  <1>1. Roots \subseteq 1 .. MaxRoots
    BY AttemptTypes DEF Roots
  <1>2. IsFiniteSet(1 .. MaxRoots)
    BY FS_Interval, BoundsAreNat
  <1>3. Cardinality(Roots) \in Nat
    BY <1>1, <1>2, FS_Subset, FS_CardinalityType
  <1> QED
    BY <1>3, BoundsAreNat

(* Every step that begins an attempt keeps the types: BeginAttempt,           *)
(* RerunAttempt and WakeAndRerun are Begin with a smaller custody set.        *)
LEMMA BeginTypes ==
    ASSUME TypeOK, NEW d \in Descriptions, NEW r \in 1 .. MaxRoots, NEW o \in Nat \ {0},
           Begin(d, r, o), rerunnable' \subseteq rerunnable, sleeping' \subseteq sleeping,
           UNCHANGED <<store, log>>
    PROVE  TypeOK'
  <1>0. Len(attempts') = Len(attempts) + 1 /\ Len(attempts) \in Nat
    BY BeginFacts
  <1>1. Ids \subseteq Ids' /\ Len(attempts) + 1 \in Ids'
    BY <1>0 DEF Ids
  <1>2. attempts' \in Seq(Attempts) /\ live' \subseteq Ids'
    BY <1>1, BeginFacts DEF TypeOK
  <1>3. rerunnable' \subseteq Ids' /\ sleeping' \subseteq Ids'
    BY <1>1 DEF TypeOK
  <1>4. log' \in Seq([attempt: Ids, kind: {"committed", "aborted"}])'
    <2> DEFINE E == [attempt: Ids, kind: {"committed", "aborted"}]
    <2>1. log \in Seq(E)
      BY DEF TypeOK
    <2>2. E \subseteq E'
      BY <1>1
    <2> HIDE DEF E
    <2>3. log' \in Seq(E')
      BY <2>1, <2>2, SeqMonotonic
    <2> QED
      BY <2>3 DEF E
  <1>5. store' \in [Cells -> CellStates]
    BY DEF TypeOK
  <1> QED
    BY <1>2, <1>3, <1>4, <1>5 DEF TypeOK

LEMMA PublishTypes ==
    ASSUME TypeOK, NEW w \in Journals
    PROVE  /\ Publish(w) \in [Cells -> CellStates]
           /\ \A c \in Cells : /\ Publish(w)[c].version >= store[c].version
                               /\ Publish(w)[c].version = store[c].version => Publish(w)[c] = store[c]
  <1>1. store \in [Cells -> CellStates]
    BY DEF TypeOK
  <1>2. ASSUME NEW c \in Cells
        PROVE  /\ Publish(w)[c] \in CellStates
               /\ Publish(w)[c].version >= store[c].version
               /\ Publish(w)[c].version = store[c].version => Publish(w)[c] = store[c]
    <2>1. store[c] \in CellStates /\ store[c].version \in Nat
      BY <1>1, <1>2 DEF CellStates
    <2>2. CASE c \in DOMAIN w /\ w[c] # store[c].value
      <3>1. Publish(w)[c] = [value |-> w[c], version |-> store[c].version + 1]
        BY <1>2, <2>2 DEF Publish
      <3>2. w[c] \in Values
        BY <2>2 DEF Journals
      <3> QED
        BY <2>1, <3>1, <3>2 DEF CellStates
    <2>3. CASE ~ (c \in DOMAIN w /\ w[c] # store[c].value)
      <3>1. Publish(w)[c] = store[c]
        BY <1>2, <2>3 DEF Publish
      <3> QED
        BY <2>1, <3>1
    <2> QED
      BY <2>2, <2>3
  <1> QED
    BY <1>2 DEF Publish

LEMMA LogTypes ==
    ASSUME TypeOK, NEW a \in Ids, NEW k \in {"committed", "aborted"}, UNCHANGED attempts,
           log' = Append(log, [attempt |-> a, kind |-> k])
    PROVE  log' \in Seq([attempt: Ids, kind: {"committed", "aborted"}])'
  <1> DEFINE E == [attempt: Ids, kind: {"committed", "aborted"}]
  <1>1. [attempt |-> a, kind |-> k] \in E /\ E' = E
    BY DEF Ids
  <1>2. log \in Seq(E)
    BY DEF TypeOK
  <1> HIDE DEF E
  <1>3. log' \in Seq(E')
    BY <1>1, <1>2, AppendProperties
  <1> QED
    BY <1>3 DEF E

LEMMA TypeStep == TypeOK /\ [Next]_vars => TypeOK'
  <1> SUFFICES ASSUME TypeOK, [Next]_vars PROVE TypeOK'
    OBVIOUS
  <1>1. ASSUME NEW d \in Descriptions, BeginAttempt(d) PROVE TypeOK'
    BY <1>1, NextRoot, BeginTypes DEF BeginAttempt
  <1>2. ASSUME NEW a \in Ids, RerunAttempt(a) \/ WakeAndRerun(a) PROVE TypeOK'
    <2>1. attempts[a].description \in Descriptions /\ attempts[a].root \in 1 .. MaxRoots
          /\ attempts[a].ordinal + 1 \in Nat \ {0}
      BY <1>2, AttemptTypes
    <2> QED
      BY <1>2, <2>1, BeginTypes DEF RerunAttempt, WakeAndRerun
  <1>3. ASSUME NEW a \in Ids, SettleRetry(a) \/ SettleConflict(a) \/ DiscardAttempt(a) PROVE TypeOK'
    <2>1. UNCHANGED <<store, attempts, log>> /\ live' \subseteq live
      BY <1>3 DEF SettleRetry, SettleConflict, DiscardAttempt, Release
    <2>2. Ids' = Ids
      BY <2>1 DEF Ids
    <2>3. sleeping' \subseteq Ids /\ rerunnable' \subseteq Ids
      BY <1>3 DEF SettleRetry, SettleConflict, DiscardAttempt, TypeOK
    <2> QED
      BY <2>1, <2>2, <2>3 DEF TypeOK
  <1>4. ASSUME NEW a \in Ids, SettleAbort(a) PROVE TypeOK'
    <2>1. UNCHANGED <<store, attempts, rerunnable, sleeping>> /\ live' \subseteq live
      BY <1>4 DEF SettleAbort, Release
    <2>2. log' \in Seq([attempt: Ids, kind: {"committed", "aborted"}])'
      BY <1>4, LogTypes DEF SettleAbort
    <2>3. Ids' = Ids
      BY <2>1 DEF Ids
    <2> QED
      BY <2>1, <2>2, <2>3 DEF TypeOK
  <1>5. ASSUME NEW a \in Ids, SettleCommit(a) PROVE TypeOK'
    <2>1. UNCHANGED <<attempts, rerunnable, sleeping>> /\ live' \subseteq live
      BY <1>5 DEF SettleCommit, Release
    <2>2. log' \in Seq([attempt: Ids, kind: {"committed", "aborted"}])'
      BY <1>5, LogTypes DEF SettleCommit
    <2>3. attempts[a].evaluation.writes \in Journals
      BY AttemptTypes DEF Evaluations
    <2>4. store' \in [Cells -> CellStates]
      BY <1>5, <2>3, PublishTypes DEF SettleCommit
    <2>5. Ids' = Ids
      BY <2>1 DEF Ids
    <2> QED
      BY <2>1, <2>2, <2>4, <2>5 DEF TypeOK
  <1>6. ASSUME UNCHANGED vars PROVE TypeOK'
    BY <1>6 DEF vars, TypeOK, Ids
  <1> QED
    BY <1>1, <1>2, <1>3, <1>4, <1>5, <1>6 DEF Next

(* TypeOK is an invariant: store cells, attempts, custody sets and the log    *)
(* stay within their types through every settlement, rerun and wake-up.       *)
THEOREM TypeCorrect == Spec => []TypeOK
  <1> QED
    BY TypeInit, TypeStep, PTL DEF Spec
-----------------------------------------------------------------------------
(* The invariant behind validation: versions identify values, attempts hold  *)
(* the evaluation of the store they began from, and only retries sleep.       *)
Validity == VersionsIdentifyValues /\ EvaluatedAtStart

LEMMA ValidityInit == Init => Validity
  <1> SUFFICES ASSUME Init PROVE Validity
    OBVIOUS
  <1>1. Ids = {} /\ sleeping = {}
    BY DEF Init, Ids
  <1> QED
    BY <1>1 DEF Validity, VersionsIdentifyValues, EvaluatedAtStart

LEMMA BeginValid ==
    ASSUME TypeOK, Validity, NEW d \in Descriptions, NEW r \in 1 .. MaxRoots,
           NEW o \in Nat \ {0}, Begin(d, r, o), sleeping' \subseteq sleeping, UNCHANGED store
    PROVE  Validity'
  <1>1. /\ Len(attempts) \in Nat /\ Len(attempts') = Len(attempts) + 1
        /\ \A a \in Ids : attempts'[a] = attempts[a]
    BY BeginFacts
  <1>2. /\ attempts'[Len(attempts) + 1].description = d
        /\ attempts'[Len(attempts) + 1].start = store
        /\ attempts'[Len(attempts) + 1].evaluation = Evaluate(d, ValuesOf(store))
    <2>1. attempts'[Len(attempts) + 1] =
             [description |-> d, root |-> r, ordinal |-> o,
              start |-> store, evaluation |-> Evaluate(d, CellValues)]
      BY BeginFacts
    <2> QED
      BY <2>1 DEF CellValues
  <1>3. \A a \in Ids' : a \in Ids \/ a = Len(attempts) + 1
    BY <1>1 DEF Ids
  <1>4. VersionsIdentifyValues'
    <2> SUFFICES ASSUME NEW a \in Ids', NEW c \in Cells
                 PROVE  /\ attempts'[a].start[c].version <= store[c].version
                        /\ attempts'[a].start[c].version = store[c].version
                              => attempts'[a].start[c].value = store[c].value
      BY DEF VersionsIdentifyValues
    <2>1. CASE a \in Ids
      BY <1>1, <2>1 DEF Validity, VersionsIdentifyValues
    <2>2. CASE a = Len(attempts) + 1
      <3>1. store[c].version \in Nat
        BY DEF TypeOK, CellStates
      <3> QED
        BY <1>2, <2>2, <3>1
    <2> QED
      BY <1>3, <2>1, <2>2
  <1>5. EvaluatedAtStart'
    <2>1. \A a \in sleeping' : a \in Ids
      BY DEF TypeOK
    <2>2. \A a \in Ids' : attempts'[a].evaluation
                          = Evaluate(attempts'[a].description, ValuesOf(attempts'[a].start))
      BY <1>1, <1>2, <1>3 DEF Validity, EvaluatedAtStart
    <2>3. \A a \in sleeping' : attempts'[a].evaluation.kind = "retry"
      BY <1>1, <2>1 DEF Validity, EvaluatedAtStart
    <2> QED
      BY <2>2, <2>3 DEF EvaluatedAtStart
  <1> QED
    BY <1>4, <1>5 DEF Validity

(* A publication keeps the versions identifying values: a changed cell's new *)
(* version is above every version an attempt has seen.                        *)
LEMMA CommitValid ==
    ASSUME TypeOK, Validity, NEW a \in Ids, SettleCommit(a)
    PROVE  Validity'
  <1>1. attempts[a].evaluation.writes \in Journals
    BY AttemptTypes DEF Evaluations
  <1>2. UNCHANGED <<attempts, sleeping>> /\ store' = Publish(attempts[a].evaluation.writes)
    BY DEF SettleCommit
  <1>3. VersionsIdentifyValues'
    <2> SUFFICES ASSUME NEW b \in Ids, NEW c \in Cells
                 PROVE  /\ attempts[b].start[c].version <= store'[c].version
                        /\ attempts[b].start[c].version = store'[c].version
                              => attempts[b].start[c].value = store'[c].value
      BY <1>2 DEF VersionsIdentifyValues, Ids
    <2>1. /\ attempts[b].start[c].version \in Nat /\ store[c].version \in Nat
          /\ store' \in [Cells -> CellStates]
      BY <1>1, <1>2, AttemptTypes, PublishTypes DEF TypeOK, CellStates
    <2>2. store'[c].version \in Nat
      BY <2>1 DEF CellStates
    <2>3. /\ store'[c].version >= store[c].version
          /\ store'[c].version = store[c].version => store'[c] = store[c]
      BY <1>1, <1>2, PublishTypes
    <2>4. /\ attempts[b].start[c].version <= store[c].version
          /\ attempts[b].start[c].version = store[c].version
                => attempts[b].start[c].value = store[c].value
      BY DEF Validity, VersionsIdentifyValues
    <2> QED
      BY <2>1, <2>2, <2>3, <2>4
  <1>4. EvaluatedAtStart'
    BY <1>2 DEF Validity, EvaluatedAtStart, Ids
  <1> QED
    BY <1>3, <1>4 DEF Validity

LEMMA ValidityStep == TypeOK /\ Validity /\ [Next]_vars => Validity'
  <1> SUFFICES ASSUME TypeOK, Validity, [Next]_vars PROVE Validity'
    OBVIOUS
  <1>1. ASSUME NEW d \in Descriptions, BeginAttempt(d) PROVE Validity'
    BY <1>1, NextRoot, BeginValid DEF BeginAttempt
  <1>2. ASSUME NEW a \in Ids, RerunAttempt(a) \/ WakeAndRerun(a) PROVE Validity'
    <2>1. attempts[a].description \in Descriptions /\ attempts[a].root \in 1 .. MaxRoots
          /\ attempts[a].ordinal + 1 \in Nat \ {0}
      BY <1>2, AttemptTypes
    <2> QED
      BY <1>2, <2>1, BeginValid DEF RerunAttempt, WakeAndRerun
  <1>3. ASSUME NEW a \in Ids,
               SettleRetry(a) \/ SettleAbort(a) \/ SettleConflict(a) \/ DiscardAttempt(a)
        PROVE  Validity'
    <2>1. UNCHANGED <<store, attempts>>
      BY <1>3 DEF SettleRetry, SettleAbort, SettleConflict, DiscardAttempt
    <2>2. \A b \in sleeping' : attempts[b].evaluation.kind = "retry"
      BY <1>3 DEF SettleRetry, SettleAbort, SettleConflict, DiscardAttempt, Validity, EvaluatedAtStart
    <2> QED
      BY <2>1, <2>2 DEF Validity, VersionsIdentifyValues, EvaluatedAtStart, Ids
  <1>4. ASSUME NEW a \in Ids, SettleCommit(a) PROVE Validity'
    BY <1>4, CommitValid
  <1>5. ASSUME UNCHANGED vars PROVE Validity'
    BY <1>5 DEF vars, Validity, VersionsIdentifyValues, EvaluatedAtStart, Ids
  <1> QED
    BY <1>1, <1>2, <1>3, <1>4, <1>5 DEF Next

LEMMA ValidityInvariant == Spec => [](TypeOK /\ Validity)
  <1> QED
    BY TypeInit, TypeStep, ValidityInit, ValidityStep, PTL DEF Spec

(* A cell observed at its present version has the value it was observed with. *)
LEMMA Unchanged ==
    ASSUME TypeOK, Validity, NEW a \in Ids, NEW cells, cells \subseteq Cells, Changed(a, cells) = {}
    PROVE  \A c \in cells : CellValues[c] = ValuesOf(attempts[a].start)[c]
  <1> SUFFICES ASSUME NEW c \in cells
               PROVE  CellValues[c] = ValuesOf(attempts[a].start)[c]
    OBVIOUS
  <1>1. store[c].version = attempts[a].start[c].version
    BY DEF Changed
  <1>2. attempts[a].start[c].value = store[c].value
    BY <1>1 DEF Validity, VersionsIdentifyValues
  <1> QED
    BY <1>2 DEF CellValues, ValuesOf

LEMMA StoresAreValues ==
    ASSUME TypeOK, NEW a \in Ids
    PROVE  CellValues \in [Cells -> Values] /\ ValuesOf(attempts[a].start) \in [Cells -> Values]
  <1>1. attempts[a].start \in [Cells -> CellStates] /\ store \in [Cells -> CellStates]
    BY AttemptTypes DEF TypeOK
  <1> QED
    BY <1>1 DEF CellValues, ValuesOf, CellStates

(* Versions identify values in every reachable state: what validation, which *)
(* compares versions only, relies on (settleAttempt, changedDependencies).    *)
THEOREM VersionsIdentifyValuesHolds == Spec => []VersionsIdentifyValues
  <1>1. Validity => VersionsIdentifyValues
    BY DEF Validity
  <1> QED
    BY <1>1, ValidityInvariant, PTL

(* A suspension never sleeps through a state in which it could run: while no *)
(* dependency of it has a new version, its description still retries.         *)
THEOREM NoMissedWakeupHolds == Spec => []NoMissedWakeup
  <1>1. TypeOK /\ Validity => NoMissedWakeup
    <2> SUFFICES ASSUME TypeOK, Validity, NEW a \in sleeping, ChangedDependencies(a) = {}
                 PROVE  Evaluate(attempts[a].description, CellValues).kind = "retry"
      BY DEF NoMissedWakeup
    <2>1. a \in Ids
      BY DEF TypeOK
    <2> DEFINE d == attempts[a].description
               v == ValuesOf(attempts[a].start)
    <2>2. d \in Descriptions /\ attempts[a].evaluation \in Evaluations
      BY <2>1, AttemptTypes
    <2>3. CellValues \in [Cells -> Values] /\ v \in [Cells -> Values]
      BY <2>1, StoresAreValues
    <2>4. attempts[a].evaluation = Evaluate(d, v) /\ Evaluate(d, v).kind = "retry"
      BY <2>1 DEF Validity, EvaluatedAtStart
    <2>5. Evaluate(d, v).dependencies \subseteq Cells
      BY <2>2, <2>4 DEF Evaluations
    <2>6. \A c \in Evaluate(d, v).dependencies : CellValues[c] = v[c]
      BY <2>1, <2>4, <2>5, Unchanged DEF ChangedDependencies
    <2> HIDE DEF d, v
    <2>7. Evaluate(d, CellValues).kind = "retry"
      BY <2>2, <2>3, <2>4, <2>6, DependenciesDetermineRetry
    <2> QED
      BY <2>7 DEF d
  <1> QED
    BY <1>1, ValidityInvariant, PTL

(* An attempt that can commit would evaluate now as it did when it began. *)
LEMMA CommitIsCurrent ==
    ASSUME TypeOK, Validity, NEW a \in live, SettleCommit(a)
    PROVE  Evaluate(attempts[a].description, CellValues) = attempts[a].evaluation
  <1>1. a \in Ids
    BY DEF TypeOK
  <1> DEFINE d == attempts[a].description
             v == ValuesOf(attempts[a].start)
  <1>2. d \in Descriptions /\ attempts[a].evaluation \in Evaluations
    BY <1>1, AttemptTypes
  <1>3. CellValues \in [Cells -> Values] /\ v \in [Cells -> Values]
    BY <1>1, StoresAreValues
  <1>4. attempts[a].evaluation = Evaluate(d, v)
    BY <1>1 DEF Validity, EvaluatedAtStart
  <1>5. Evaluate(d, v).reads \subseteq Cells
    BY <1>2, <1>4 DEF Evaluations
  <1>6. \A c \in Evaluate(d, v).reads : CellValues[c] = v[c]
    BY <1>1, <1>4, <1>5, Unchanged DEF SettleCommit, Stale
  <1> HIDE DEF d, v
  <1>7. Evaluate(d, CellValues) = Evaluate(d, v)
    BY <1>2, <1>3, <1>6, ReadsDetermineEvaluation
  <1> QED
    BY <1>4, <1>7 DEF d

(* Every commit is the transaction run alone on the store it is published to. *)
THEOREM CommitsAreCurrentHolds == Spec => CommitsAreCurrent
  <1>1. TypeOK /\ Validity => \A a \in live : SettleCommit(a)
           => Evaluate(attempts[a].description, CellValues) = attempts[a].evaluation
    BY CommitIsCurrent
  <1> QED
    BY <1>1, ValidityInvariant, PTL DEF CommitsAreCurrent
-----------------------------------------------------------------------------
(* Custody: a transaction is in one place, so no settlement, rerun or wake-up *)
(* can be done twice for it.                                                  *)
InCustody == live \cup rerunnable \cup sleeping

CustodyInv ==
    /\ \E k \in Nat : Roots = 1 .. k
    /\ live \cap rerunnable = {} /\ live \cap sleeping = {} /\ rerunnable \cap sleeping = {}
    /\ \A a, b \in InCustody : attempts[a].root = attempts[b].root => a = b
    /\ \A i \in DOMAIN log, a \in InCustody : attempts[log[i].attempt].root # attempts[a].root
    /\ \A i, j \in DOMAIN log : attempts[log[i].attempt].root = attempts[log[j].attempt].root => i = j

LEMMA LogFacts ==
    ASSUME TypeOK
    PROVE  /\ DOMAIN log = 1 .. Len(log) /\ Len(log) \in Nat
           /\ \A i \in DOMAIN log : log[i].attempt \in Ids
  <1> DEFINE E == [attempt: Ids, kind: {"committed", "aborted"}]
  <1>1. log \in Seq(E) /\ \A e \in E : e.attempt \in Ids
    BY DEF TypeOK
  <1> HIDE DEF E
  <1>2. DOMAIN log = 1 .. Len(log) /\ Len(log) \in Nat
    BY <1>1, LenProperties
  <1>3. \A i \in 1 .. Len(log) : log[i] \in E
    BY <1>1, ElementOfSeq
  <1> QED
    BY <1>1, <1>2, <1>3

(* A new attempt of root r keeps custody unique when nothing else of r is     *)
(* held: a fresh root, or one whose previous attempt leaves its custody.      *)
LEMMA BeginCustody ==
    ASSUME TypeOK, CustodyInv, NEW d \in Descriptions, NEW r \in 1 .. MaxRoots,
           NEW o \in Nat \ {0}, Begin(d, r, o), UNCHANGED log,
           rerunnable' \subseteq rerunnable, sleeping' \subseteq sleeping,
           \A b \in live \cup rerunnable' \cup sleeping' : attempts[b].root # r,
           \A i \in DOMAIN log : attempts[log[i].attempt].root # r,
           \E k \in Nat : Roots \cup {r} = 1 .. k
    PROVE  CustodyInv'
  <1> DEFINE n == Len(attempts) + 1
  <1>1. /\ Len(attempts') = n /\ n \notin Ids /\ Ids' = Ids \cup {n}
        /\ live' = live \cup {n} /\ attempts'[n].root = r
        /\ \A a \in Ids : attempts'[a] = attempts[a]
    <2>1. /\ Len(attempts') = n /\ live' = live \cup {n} /\ Len(attempts) \in Nat
          /\ \A a \in Ids : attempts'[a] = attempts[a]
          /\ attempts'[n] = [description |-> d, root |-> r, ordinal |-> o,
                             start |-> store, evaluation |-> Evaluate(d, CellValues)]
      BY BeginFacts
    <2>2. n \notin Ids /\ Ids' = Ids \cup {n}
      BY <2>1 DEF Ids
    <2> QED
      BY <2>1, <2>2
  <1> HIDE DEF n
  <1>2. live \subseteq Ids /\ rerunnable \subseteq Ids /\ sleeping \subseteq Ids
    BY DEF TypeOK
  <1>3. Roots' = Roots \cup {r}
    BY <1>1 DEF Roots
  <1>4. /\ \A a \in Ids : attempts'[a].root = attempts[a].root
        /\ attempts'[n].root = r
        /\ InCustody' = live \cup rerunnable' \cup sleeping' \cup {n}
        /\ live \cup rerunnable' \cup sleeping' \subseteq InCustody
    BY <1>1 DEF InCustody
  <1>5. \A i \in DOMAIN log : attempts'[log'[i].attempt].root = attempts[log[i].attempt].root
    BY <1>4, LogFacts
  <1>6. \A a, b \in InCustody' : attempts'[a].root = attempts'[b].root => a = b
    BY <1>2, <1>4 DEF CustodyInv, InCustody
  <1>7. \A i \in DOMAIN log, a \in InCustody' : attempts'[log'[i].attempt].root # attempts'[a].root
    BY <1>2, <1>4, <1>5 DEF CustodyInv, InCustody
  <1>8. /\ live' \cap rerunnable' = {} /\ live' \cap sleeping' = {}
        /\ rerunnable' \cap sleeping' = {}
    BY <1>1, <1>2 DEF CustodyInv
  <1> QED
    BY <1>3, <1>5, <1>6, <1>7, <1>8 DEF CustodyInv

(* Settling moves an attempt out of live custody, to at most one other place. *)
LEMMA SettleCustody ==
    ASSUME TypeOK, CustodyInv, NEW a \in live, Release(a), UNCHANGED attempts,
           \/ UNCHANGED <<rerunnable, sleeping, log>>
           \/ sleeping' = sleeping \cup {a} /\ UNCHANGED <<rerunnable, log>>
           \/ rerunnable' = rerunnable \cup {a} /\ UNCHANGED <<sleeping, log>>
           \/ /\ \E k \in {"committed", "aborted"} :
                    log' = Append(log, [attempt |-> a, kind |-> k])
              /\ UNCHANGED <<rerunnable, sleeping>>
    PROVE  CustodyInv'
  <1>1. /\ Roots' = Roots /\ live' = live \ {a}
        /\ \A b : attempts'[b].root = attempts[b].root
    BY DEF Release, Roots, Ids
  <1>2. a \in InCustody /\ InCustody' \subseteq InCustody
    BY <1>1 DEF InCustody
  <1>3. /\ live' \cap rerunnable' = {} /\ live' \cap sleeping' = {}
        /\ rerunnable' \cap sleeping' = {}
    BY <1>1 DEF CustodyInv
  <1>4. CASE UNCHANGED log
    <2>1. \A i \in DOMAIN log : attempts'[log'[i].attempt].root = attempts[log[i].attempt].root
      BY <1>1, <1>4
    <2> QED
      BY <1>1, <1>2, <1>3, <1>4, <2>1 DEF CustodyInv
  <1>5. CASE ~ UNCHANGED log
    <2>1. PICK k \in {"committed", "aborted"} : log' = Append(log, [attempt |-> a, kind |-> k])
      BY <1>5
    <2>2. UNCHANGED <<rerunnable, sleeping>>
      BY <1>5
    <2> DEFINE e == [attempt |-> a, kind |-> k]
               E == [attempt: Ids, kind: {"committed", "aborted"}]
    <2>3. e \in E /\ log \in Seq(E) /\ log' = Append(log, e) /\ e.attempt = a
      BY <2>1 DEF TypeOK
    <2> HIDE DEF e, E
    <2>4. /\ DOMAIN log' = DOMAIN log \cup {Len(log) + 1}
          /\ Len(log) + 1 \notin DOMAIN log
          /\ log'[Len(log) + 1] = e
          /\ \A i \in DOMAIN log : log'[i] = log[i]
      <3>1. /\ Len(log') = Len(log) + 1 /\ Len(log) \in Nat
            /\ log'[Len(log) + 1] = e
            /\ \A i \in 1 .. Len(log) : log'[i] = log[i]
            /\ DOMAIN log' = 1 .. Len(log') /\ DOMAIN log = 1 .. Len(log)
        BY <2>3, AppendProperties, LenProperties
      <3> QED
        BY <3>1
    <2>5. InCustody' = InCustody \ {a}
      BY <1>1, <2>2 DEF InCustody, CustodyInv
    <2>6. /\ \A i \in DOMAIN log : attempts'[log'[i].attempt].root = attempts[log[i].attempt].root
          /\ attempts'[log'[Len(log) + 1].attempt].root = attempts[a].root
      BY <1>1, <2>3, <2>4
    <2>7. \A i \in DOMAIN log', b \in InCustody' : attempts'[log'[i].attempt].root # attempts'[b].root
      BY <1>1, <1>2, <2>4, <2>5, <2>6 DEF CustodyInv
    <2>8. \A i, j \in DOMAIN log' : attempts'[log'[i].attempt].root = attempts'[log'[j].attempt].root => i = j
      BY <1>2, <2>4, <2>6 DEF CustodyInv
    <2> QED
      BY <1>1, <1>2, <1>3, <2>7, <2>8 DEF CustodyInv
  <1> QED
    BY <1>4, <1>5

LEMMA CustodyStep == TypeOK /\ CustodyInv /\ [Next]_vars => CustodyInv'
  <1> SUFFICES ASSUME TypeOK, CustodyInv, [Next]_vars PROVE CustodyInv'
    OBVIOUS
  <1>1. ASSUME NEW d \in Descriptions, BeginAttempt(d) PROVE CustodyInv'
    <2>1. PICK k \in Nat : Roots = 1 .. k
      BY DEF CustodyInv
    <2>2. Cardinality(Roots) = k
      BY <2>1, FS_Interval
    <2>3. k + 1 \in 1 .. MaxRoots /\ Begin(d, k + 1, 1)
          /\ UNCHANGED <<store, rerunnable, sleeping, log>>
      BY <1>1, <2>2, NextRoot DEF BeginAttempt
    <2>4. Roots \cup {k + 1} = 1 .. (k + 1) /\ k + 1 \notin Roots
      BY <2>1
    <2>5. \A a \in Ids : attempts[a].root \in Roots
      BY DEF Roots
    <2>6. \A b \in live \cup rerunnable' \cup sleeping' : attempts[b].root # k + 1
      BY <2>3, <2>4, <2>5 DEF TypeOK
    <2>7. \A i \in DOMAIN log : attempts[log[i].attempt].root # k + 1
      BY <2>4, <2>5, LogFacts
    <2>8. 1 \in Nat \ {0} /\ k + 1 \in Nat
      OBVIOUS
    <2> QED
      BY <2>3, <2>4, <2>6, <2>7, <2>8, BeginCustody
  <1>2. ASSUME NEW a \in Ids, RerunAttempt(a) \/ WakeAndRerun(a) PROVE CustodyInv'
    <2>1. attempts[a].description \in Descriptions /\ attempts[a].root \in 1 .. MaxRoots
          /\ attempts[a].ordinal + 1 \in Nat \ {0}
      BY <1>2, AttemptTypes
    <2>2. /\ Begin(attempts[a].description, attempts[a].root, attempts[a].ordinal + 1)
          /\ UNCHANGED log /\ rerunnable' \subseteq rerunnable /\ sleeping' \subseteq sleeping
      BY <1>2 DEF RerunAttempt, WakeAndRerun
    <2>3. a \in InCustody 
      BY <1>2 DEF RerunAttempt, WakeAndRerun, InCustody
    <2>4. \A b \in live \cup rerunnable' \cup sleeping' : b \in InCustody /\ b # a
      BY <1>2 DEF RerunAttempt, WakeAndRerun, InCustody, CustodyInv
    <2>5. \A b \in live \cup rerunnable' \cup sleeping' : attempts[b].root # attempts[a].root
      BY <2>3, <2>4 DEF CustodyInv
    <2>6. \A i \in DOMAIN log : attempts[log[i].attempt].root # attempts[a].root
      BY <2>3 DEF CustodyInv
    <2>7. Roots \cup {attempts[a].root} = Roots
      BY DEF Roots
    <2>8. \E k \in Nat : Roots \cup {attempts[a].root} = 1 .. k
      BY <2>7 DEF CustodyInv
    <2> QED
      BY <2>1, <2>2, <2>5, <2>6, <2>8, BeginCustody
  <1>3. ASSUME NEW a \in Ids,
               \/ SettleRetry(a) \/ SettleAbort(a) \/ SettleConflict(a) \/ SettleCommit(a)
               \/ DiscardAttempt(a)
        PROVE  CustodyInv'
    <2>1. a \in live /\ Release(a) /\ UNCHANGED attempts
      BY <1>3 DEF SettleRetry, SettleAbort, SettleConflict, SettleCommit, DiscardAttempt
    <2>2. \/ UNCHANGED <<rerunnable, sleeping, log>>
          \/ sleeping' = sleeping \cup {a} /\ UNCHANGED <<rerunnable, log>>
          \/ rerunnable' = rerunnable \cup {a} /\ UNCHANGED <<sleeping, log>>
          \/ /\ \E k \in {"committed", "aborted"} :
                   log' = Append(log, [attempt |-> a, kind |-> k])
             /\ UNCHANGED <<rerunnable, sleeping>>
      BY <1>3 DEF SettleRetry, SettleAbort, SettleConflict, SettleCommit, DiscardAttempt
    <2> QED
      BY <2>1, <2>2, SettleCustody
  <1>4. ASSUME UNCHANGED vars PROVE CustodyInv'
    <2>1. Roots' = Roots /\ InCustody' = InCustody /\ UNCHANGED vars
      BY <1>4 DEF vars, InCustody, Roots, Ids
    <2> QED
      BY <2>1 DEF vars, CustodyInv
  <1> QED
    BY <1>1, <1>2, <1>3, <1>4 DEF Next

LEMMA CustodyInvariant == Spec => []CustodyInv
  <1>1. Init => CustodyInv
    <2> SUFFICES ASSUME Init PROVE CustodyInv
      OBVIOUS
    <2>1. Ids = {} /\ InCustody = {} /\ DOMAIN log = {}
      BY DEF Init, Ids, InCustody
    <2>2. Roots = 1 .. 0
      BY <2>1 DEF Roots
    <2> QED
      BY <2>1, <2>2 DEF Init, CustodyInv
  <1> QED
    BY <1>1, CustodyStep, TypeCorrect, PTL DEF Spec

LEMMA AtMostOne ==
    ASSUME NEW S, \A x, y \in S : x = y
    PROVE  Cardinality(S) <= 1
  <1>1. CASE S = {}
    BY <1>1, FS_EmptySet
  <1>2. CASE S # {}
    <2>1. PICK x \in S : S = {x}
      BY <1>2
    <2> QED
      BY <2>1, FS_Singleton
  <1> QED
    BY <1>1, <1>2

(* A transaction is in one custody at a time, so no chain of conflicts,       *)
(* wake-ups, discards and repeated settle calls publishes its writes, or      *)
(* returns its actions, twice (settleAttempt, rerunAttempt, wakeAndRerun).    *)
THEOREM SingleCustodyHolds == Spec => []SingleCustody
  <1>1. TypeOK /\ CustodyInv => SingleCustody
    <2> SUFFICES ASSUME TypeOK, CustodyInv, NEW r \in Roots
                 PROVE  Cardinality(Held(r)) <= 1
      BY DEF SingleCustody
    <2>1. ASSUME NEW x \in Held(r)
          PROVE  \/ \E a \in live : x = <<"live", a>> /\ attempts[a].root = r
                 \/ \E a \in rerunnable : x = <<"rerunnable", a>> /\ attempts[a].root = r
                 \/ \E a \in sleeping : x = <<"sleeping", a>> /\ attempts[a].root = r
                 \/ \E i \in DOMAIN log : x = <<"logged", i>> /\ attempts[log[i].attempt].root = r
      BY DEF Held
    <2>2. \A x, y \in Held(r) : x = y
      BY <2>1 DEF CustodyInv, InCustody
    <2> QED
      BY <2>2, AtMostOne
  <1> QED
    BY <1>1, TypeCorrect, CustodyInvariant, PTL
-----------------------------------------------------------------------------
(* Serializability: the commits, in the order they were published, are a      *)
(* serial history. What is carried along is that order and the values of the  *)
(* store after each of them.                                                  *)
History(order, values) ==
    /\ order \in Seq(Ids)
    /\ \A i \in 1 .. Len(order) : order[i] \in Committed
    /\ \A a \in Committed : \E i \in 1 .. Len(order) : order[i] = a
    /\ \A i, j \in 1 .. Len(order) : order[i] = order[j] => i = j
    /\ values[0] = Initial
    /\ \A i \in 1 .. Len(order) :
         /\ Evaluate(attempts[order[i]].description, values[i - 1]) = attempts[order[i]].evaluation
         /\ values[i] = After(attempts[order[i]].evaluation.writes, values[i - 1])
    /\ DOMAIN values = 0 .. Len(order)
    /\ values[Len(order)] = CellValues
HistoryInv == \E order, values : History(order, values)

(* What committing and aborting do to the set of committed attempts. *)
LEMMA CommittedFacts ==
    ASSUME TypeOK, NEW a \in Ids, NEW k \in {"committed", "aborted"},
           log' = Append(log, [attempt |-> a, kind |-> k])
    PROVE  Committed' = Committed \cup (IF k = "committed" THEN {a} ELSE {})
  <1> DEFINE e == [attempt |-> a, kind |-> k]
             E == [attempt: Ids, kind: {"committed", "aborted"}]
  <1>1. e \in E /\ log \in Seq(E) /\ log' = Append(log, e) /\ e.attempt = a /\ e.kind = k
    BY DEF TypeOK
  <1> HIDE DEF e, E
  <1>2. /\ Len(log') = Len(log) + 1 /\ Len(log) \in Nat
        /\ log'[Len(log) + 1] = e
        /\ \A i \in 1 .. Len(log) : log'[i] = log[i]
        /\ DOMAIN log' = 1 .. Len(log') /\ DOMAIN log = 1 .. Len(log)
    BY <1>1, AppendProperties, LenProperties
  <1>3. /\ DOMAIN log' = DOMAIN log \cup {Len(log) + 1} /\ Len(log) + 1 \notin DOMAIN log
        /\ \A i \in DOMAIN log : log'[i] = log[i]
    BY <1>2
  <1>4. CASE k = "committed"
    <2>1. {j \in DOMAIN log' : log'[j].kind = "committed"}
             = {j \in DOMAIN log : log[j].kind = "committed"} \cup {Len(log) + 1}
      BY <1>1, <1>2, <1>3, <1>4
    <2> QED
      BY <1>1, <1>2, <1>3, <1>4, <2>1 DEF Committed
  <1>5. CASE k = "aborted"
    <2>1. {j \in DOMAIN log' : log'[j].kind = "committed"}
             = {j \in DOMAIN log : log[j].kind = "committed"}
      BY <1>1, <1>2, <1>3, <1>5
    <2> QED
      BY <1>3, <1>5, <2>1 DEF Committed
  <1> QED
    BY <1>4, <1>5

(* A step that publishes nothing leaves the history as it is. *)
LEMMA QuietHistory ==
    ASSUME TypeOK, NEW order, NEW values, History(order, values),
           Committed' = Committed, store' = store, Ids \subseteq Ids',
           \A a \in Ids : attempts'[a] = attempts[a]
    PROVE  HistoryInv'
  <1>1. order \in Seq(Ids) /\ \A i \in 1 .. Len(order) : order[i] \in Ids
    BY ElementOfSeq DEF History
  <1>2. order \in Seq(Ids')
    BY <1>1, SeqMonotonic
  <1>3. CellValues' = CellValues
    BY DEF CellValues, ValuesOf
  <1>4. History(order, values)'
    BY <1>1, <1>2, <1>3 DEF History
  <1> QED
    BY <1>4 DEF HistoryInv

(* A commit extends it by one: the attempt, evaluated on the store as it is.  *)
LEMMA CommitHistory ==
    ASSUME TypeOK, Validity, CustodyInv, NEW order, NEW values, History(order, values),
           NEW a \in live, SettleCommit(a)
    PROVE  HistoryInv'
  <1> DEFINE n == Len(order)
  <1>1. a \in Ids /\ a \in InCustody /\ Committed' = Committed \cup {a}
    <2>1. log' = Append(log, [attempt |-> a, kind |-> "committed"]) /\ a \in Ids
      BY DEF SettleCommit, TypeOK
    <2> QED
      BY <2>1, CommittedFacts DEF InCustody
  <1>2. a \notin Committed
    BY <1>1 DEF Committed, CustodyInv
  <1>3. Evaluate(attempts[a].description, CellValues) = attempts[a].evaluation
    BY CommitIsCurrent
  <1>4. /\ UNCHANGED attempts /\ Ids' = Ids
        /\ store' = Publish(attempts[a].evaluation.writes)
    BY DEF SettleCommit, Ids
  <1>5. CellValues' = After(attempts[a].evaluation.writes, CellValues)
    BY <1>4 DEF CellValues, ValuesOf, After, Publish
  <1>6. PICK after : after = Append(order, a)
    OBVIOUS
  <1>7. PICK reached : reached = [i \in 0 .. (n + 1) |-> IF i = n + 1 THEN CellValues' ELSE values[i]]
    OBVIOUS
  <1>8. /\ n \in Nat /\ after \in Seq(Ids) /\ Len(after) = n + 1 /\ after[n + 1] = a
        /\ \A i \in 1 .. n : after[i] = order[i] /\ order[i] \in Ids
    BY <1>1, <1>6, AppendProperties, LenProperties, ElementOfSeq DEF History
  <1>9. DOMAIN reached = 0 .. (n + 1) /\ reached[n + 1] = CellValues'
        /\ \A i \in 0 .. n : reached[i] = values[i]
    BY <1>7, <1>8
  <1>10. History(order, values)
    OBVIOUS
  <1> HIDE DEF n
  <1>11. /\ \A i \in 1 .. (n + 1) : after[i] \in Committed'
         /\ \A b \in Committed' : \E i \in 1 .. (n + 1) : after[i] = b
         /\ \A i, j \in 1 .. (n + 1) : after[i] = after[j] => i = j
    <2>1. \A i \in 1 .. (n + 1) : i = n + 1 \/ i \in 1 .. n
      BY <1>8
    <2>2. /\ \A i \in 1 .. n : order[i] \in Committed
          /\ \A b \in Committed : \E i \in 1 .. n : order[i] = b
          /\ \A i, j \in 1 .. n : order[i] = order[j] => i = j
      BY <1>10 DEF History, n
    <2>3. 1 .. n \subseteq 1 .. (n + 1) /\ n + 1 \in 1 .. (n + 1)
      BY <1>8
    <2> QED
      BY <1>1, <1>2, <1>8, <2>1, <2>2, <2>3
  <1>12. ASSUME NEW i \in 1 .. (n + 1)
         PROVE  /\ Evaluate(attempts[after[i]].description, reached[i - 1]) = attempts[after[i]].evaluation
                /\ reached[i] = After(attempts[after[i]].evaluation.writes, reached[i - 1])
    <2>1. CASE i \in 1 .. n
      <3>1. i - 1 \in 0 .. n /\ i \in 0 .. n
        BY <1>8, <2>1
      <3>2. reached[i] = values[i] /\ reached[i - 1] = values[i - 1] /\ after[i] = order[i]
        BY <1>8, <1>9, <2>1, <3>1
      <3>3. /\ Evaluate(attempts[order[i]].description, values[i - 1]) = attempts[order[i]].evaluation
            /\ values[i] = After(attempts[order[i]].evaluation.writes, values[i - 1])
        BY <1>10, <2>1 DEF History, n
      <3> QED
        BY <3>2, <3>3
    <2>2. CASE i = n + 1
      <3>1. i - 1 = n /\ n \in 0 .. n
        BY <1>8, <2>2
      <3>2. reached[i - 1] = CellValues /\ reached[i] = CellValues' /\ after[i] = a
        BY <1>8, <1>9, <1>10, <2>2, <3>1 DEF History, n
      <3> QED
        BY <1>3, <1>5, <3>2
    <2> QED
      BY <1>8, <2>1, <2>2
  <1>13. reached[0] = Initial
    BY <1>8, <1>9, <1>10 DEF History
  <1>14. History(after, reached)'
    BY <1>4, <1>8, <1>9, <1>11, <1>12, <1>13 DEF History
  <1> QED
    BY <1>14 DEF HistoryInv

LEMMA HistoryStep == TypeOK /\ Validity /\ CustodyInv /\ HistoryInv /\ [Next]_vars => HistoryInv'
  <1> SUFFICES ASSUME TypeOK, Validity, CustodyInv, HistoryInv, [Next]_vars
               PROVE  HistoryInv'
    OBVIOUS
  <1>0. PICK order, values : History(order, values)
    BY DEF HistoryInv
  <1>1. ASSUME NEW d \in Descriptions, NEW r \in 1 .. MaxRoots, NEW o \in Nat \ {0},
               Begin(d, r, o), UNCHANGED <<store, log>>
        PROVE  HistoryInv'
    <2>1. /\ Len(attempts') = Len(attempts) + 1 /\ Len(attempts) \in Nat
          /\ \A a \in Ids : attempts'[a] = attempts[a]
      BY <1>1, BeginFacts
    <2>2. Ids \subseteq Ids' /\ Committed' = Committed /\ store' = store
      BY <1>1, <2>1 DEF Ids, Committed
    <2> QED
      BY <1>0, <2>1, <2>2, QuietHistory
  <1>2. ASSUME NEW d \in Descriptions, BeginAttempt(d) PROVE HistoryInv'
    BY <1>1, <1>2, NextRoot DEF BeginAttempt
  <1>3. ASSUME NEW a \in Ids, RerunAttempt(a) \/ WakeAndRerun(a) PROVE HistoryInv'
    <2>1. attempts[a].description \in Descriptions /\ attempts[a].root \in 1 .. MaxRoots
          /\ attempts[a].ordinal + 1 \in Nat \ {0}
      BY <1>3, AttemptTypes
    <2> QED
      BY <1>1, <1>3, <2>1 DEF RerunAttempt, WakeAndRerun
  <1>4. ASSUME NEW a \in Ids,
               SettleRetry(a) \/ SettleAbort(a) \/ SettleConflict(a) \/ DiscardAttempt(a)
        PROVE  HistoryInv'
    <2>1. UNCHANGED <<store, attempts>> /\ Ids' = Ids
      BY <1>4 DEF SettleRetry, SettleAbort, SettleConflict, DiscardAttempt, Ids
    <2>2. Committed' = Committed
      <3>1. CASE SettleAbort(a)
        <4>1. log' = Append(log, [attempt |-> a, kind |-> "aborted"])
          BY <3>1 DEF SettleAbort
        <4> QED
          BY <4>1, CommittedFacts
      <3>2. CASE ~ SettleAbort(a)
        BY <1>4, <3>2 DEF SettleRetry, SettleConflict, DiscardAttempt, Committed
      <3> QED
        BY <3>1, <3>2
    <2> QED
      BY <1>0, <2>1, <2>2, QuietHistory
  <1>5. ASSUME NEW a \in Ids, SettleCommit(a) PROVE HistoryInv'
    <2>1. a \in live
      BY <1>5 DEF SettleCommit
    <2> QED
      BY <1>0, <1>5, <2>1, CommitHistory
  <1>6. ASSUME UNCHANGED vars PROVE HistoryInv'
    <2>1. UNCHANGED <<store, attempts>> /\ Ids' = Ids /\ Committed' = Committed
      BY <1>6 DEF vars, Ids, Committed
    <2> QED
      BY <1>0, <2>1, QuietHistory
  <1> QED
    BY <1>2, <1>3, <1>4, <1>5, <1>6 DEF Next

LEMMA HistoryInvariant == Spec => []HistoryInv
  <1>1. Init => HistoryInv
    <2> SUFFICES ASSUME Init PROVE HistoryInv
      OBVIOUS
    <2>1. Committed = {}
      BY DEF Init, Committed
    <2>2. CellValues = Initial
      BY InitialIsAStore DEF Init, CellValues, ValuesOf
    <2>3. History(<<>>, [i \in 0 .. 0 |-> Initial])
      BY <2>1, <2>2 DEF History
    <2> QED
      BY <2>3 DEF HistoryInv
  <1> QED
    BY <1>1, HistoryStep, ValidityInvariant, CustodyInvariant, PTL DEF Spec

(* Every set of naturals has a least element: induction, as a fact about sets. *)
LEMMA LeastElement ==
    ASSUME NEW S \in SUBSET Nat, S # {}
    PROVE  \E n \in S : \A m \in S : n <= m
  <1> DEFINE R == OpToRel(<, Nat)
  <1>1. IsWellFoundedOn(R, Nat)
    BY NatLessThanWellFounded
  <1>2. \A a, b \in Nat : <<a, b>> \in R <=> a < b
    BY DEF OpToRel
  <1> HIDE DEF R
  <1>3. PICK n \in S : \A m \in S : ~ (<<m, n>> \in R)
    BY <1>1, WFMin, Zenon
  <1>4. ASSUME NEW m \in S PROVE n <= m
    <2>1. ~ (<<m, n>> \in R) /\ m \in Nat /\ n \in Nat
      BY <1>3
    <2>2. ~ (m < n)
      BY <1>2, <2>1
    <2> QED
      BY <2>1, <2>2
  <1> QED
    BY <1>4

(* Replaying computes what its definition says, when anything does. *)
LEMMA ReplayEquation ==
    ASSUME NEW order, NEW g,
           g = [i \in 0 .. Len(order) |->
                   IF i = 0 THEN Initial
                   ELSE After(Evaluate(attempts[order[i]].description, g[i - 1]).writes, g[i - 1])]
    PROVE  Replayed(order) =
              [i \in 0 .. Len(order) |->
                   IF i = 0 THEN Initial
                   ELSE After(Evaluate(attempts[order[i]].description, Replayed(order)[i - 1]).writes,
                              Replayed(order)[i - 1])]
  <1> DEFINE P(f) == f = [i \in 0 .. Len(order) |->
                   IF i = 0 THEN Initial
                   ELSE After(Evaluate(attempts[order[i]].description, f[i - 1]).writes, f[i - 1])]
  <1>1. Replayed(order) = CHOOSE f : P(f)
    BY DEF Replayed
  <1>2. P(g)
    OBVIOUS
  <1> HIDE DEF P
  <1>3. P(CHOOSE f : P(f))
    BY <1>2, Zenon
  <1>4. P(Replayed(order))
    BY <1>1, <1>3, Zenon
  <1> QED
    BY <1>4 DEF P

(* The committed transactions, replayed alone one after the other in the      *)
(* order of their commits, each have the evaluation they committed with and   *)
(* end in the store's values (settleAttempt: validation, then publication).   *)
THEOREM HistoryIsSerializable == Spec => []HistorySerializable
  <1>1. TypeOK /\ HistoryInv => HistorySerializable
    <2> SUFFICES ASSUME TypeOK, HistoryInv PROVE HistorySerializable
      OBVIOUS
    <2>1. PICK order, values : History(order, values)
      BY DEF HistoryInv
    <2> DEFINE n == Len(order)
               v == Replayed(order)
               Told(i) == Evaluate(attempts[order[i]].description, values[i - 1])
                             = attempts[order[i]].evaluation
    <2>2. n \in Nat /\ DOMAIN order = 1 .. n /\ order \in [1 .. n -> Committed]
      <3>1. order \in Seq(Ids) /\ \A i \in 1 .. n : order[i] \in Committed
        BY <2>1 DEF History
      <3> QED
        BY <3>1, LenProperties
    <2>3. \A i, j \in 1 .. n : order[i] = order[j] => i = j
      BY <2>1 DEF History
    <2>4. Cardinality(Committed) = n
      <3>1. order \in Bijection(1 .. n, Committed)
        BY <2>1, <2>2, <2>3 DEF History, Bijection, Injection, Surjection, IsInjective
      <3> QED
        BY <2>2, <3>1, FS_CountingElements DEF ExistsBijection
    <2>5. order \in Orderings
      BY <2>2, <2>3, <2>4 DEF Orderings
    <2>6. /\ DOMAIN values = 0 .. n /\ values[0] = Initial /\ values[n] = CellValues
          /\ \A i \in 1 .. n :
               /\ Told(i)
               /\ values[i] = After(attempts[order[i]].evaluation.writes, values[i - 1])
      BY <2>1 DEF History
    <2>7. /\ v[0] = Initial
          /\ \A i \in 1 .. n :
               v[i] = After(Evaluate(attempts[order[i]].description, v[i - 1]).writes, v[i - 1])
      <3>1. PICK g : g = [i \in 0 .. n |-> values[i]]
        OBVIOUS
      <3>2. g = [i \in 0 .. n |->
                   IF i = 0 THEN Initial
                   ELSE After(Evaluate(attempts[order[i]].description, g[i - 1]).writes, g[i - 1])]
        <4> SUFFICES ASSUME NEW i \in 0 .. n
                     PROVE  g[i] = IF i = 0 THEN Initial
                              ELSE After(Evaluate(attempts[order[i]].description, g[i - 1]).writes, g[i - 1])
          BY <3>1
        <4>1. CASE i = 0
          BY <2>6, <3>1, <4>1
        <4>2. CASE i # 0
          <5>1. i \in 1 .. n /\ i - 1 \in 0 .. n
            BY <2>2, <4>2
          <5>2. g[i] = values[i] /\ g[i - 1] = values[i - 1]
            BY <3>1, <5>1
          <5> QED
            BY <2>6, <4>2, <5>1, <5>2
        <4> QED
          BY <4>1, <4>2
      <3>3. v = [i \in 0 .. n |->
                   IF i = 0 THEN Initial
                   ELSE After(Evaluate(attempts[order[i]].description, v[i - 1]).writes, v[i - 1])]
        BY <3>2, ReplayEquation
      <3> HIDE DEF v
      <3>4. \A i \in 0 .. n :
               v[i] = IF i = 0 THEN Initial
                      ELSE After(Evaluate(attempts[order[i]].description, v[i - 1]).writes, v[i - 1])
        BY <3>3
      <3>5. \A i \in 1 .. n : i \in 0 .. n /\ i # 0
        BY <2>2
      <3>6. 0 \in 0 .. n
        BY <2>2
      <3> QED
        BY <3>4, <3>5, <3>6
    <2> HIDE DEF n, v
    <2>8. \A i \in 0 .. n : v[i] = values[i]
      <3> DEFINE wrong == {i \in 0 .. n : v[i] # values[i]}
      <3> SUFFICES ASSUME wrong # {} PROVE FALSE
        OBVIOUS
      <3>1. wrong \in SUBSET Nat
        BY <2>2
      <3>2. PICK m \in wrong : \A k \in wrong : m <= k
        BY <3>1, LeastElement
      <3>3. m \in 1 .. n /\ m - 1 \in 0 .. n /\ m - 1 \notin wrong
        BY <2>2, <2>6, <2>7, <3>2
      <3>4. v[m - 1] = values[m - 1]
        BY <3>3
      <3>5. v[m] = values[m]
        BY <2>6, <2>7, <3>3, <3>4
      <3> QED
        BY <3>2, <3>5
    <2>9. \A i \in 1 .. n :
             Evaluate(attempts[order[i]].description, v[i - 1]) = attempts[order[i]].evaluation
      <3>1. \A i \in 1 .. n : i - 1 \in 0 .. n
        BY <2>2
      <3> QED
        BY <2>6, <2>8, <3>1
    <2>10. v[Len(order)] = CellValues
      BY <2>2, <2>6, <2>8 DEF n
    <2> QED
      BY <2>2, <2>5, <2>9, <2>10 DEF HistorySerializable, v
  <1> QED
    BY <1>1, TypeCorrect, HistoryInvariant, PTL

-----------------------------------------------------------------------------
(* ---- the interpreter ------------------------------------------------------ *)
(* What holds of 0 and passes from one natural to the next, up to n.          *)
LEMMA Climb ==
    ASSUME NEW n \in Nat, NEW K, 0 \in K, \A k \in 1 .. n : k - 1 \in K => k \in K
    PROVE  \A k \in 0 .. n : k \in K
  <1> DEFINE Bad == {k \in 0 .. n : k \notin K}
             R   == OpToRel(<, Nat)
  <1>1. ASSUME Bad # {} PROVE FALSE
    <2>1. IsWellFoundedOn(R, Nat)
      BY NatLessThanWellFounded
    <2>2. \A a, b \in Nat : <<a, b>> \in R <=> a < b
      BY DEF OpToRel
    <2> HIDE DEF R
    <2>3. Bad \in SUBSET Nat
      OBVIOUS
    <2>4. PICK k \in Bad : \A j \in Bad : ~ (<<j, k>> \in R)
      <3> HIDE DEF Bad
      <3> QED
        BY <1>1, <2>1, <2>3, WFMin, Zenon
    <2>5. k \in Nat /\ \A j \in Bad : ~ (j < k)
      BY <2>2, <2>3, <2>4
    <2>6. k # 0 /\ k \in 1 .. n
      BY <2>4
    <2>7. k - 1 \in 0 .. n /\ k - 1 < k
      BY <2>6
    <2>8. k - 1 \in K
      BY <2>5, <2>7
    <2> QED
      BY <2>4, <2>6, <2>8
  <1> QED
    BY <1>1

(* The states a description's instructions go through: f[k] after k of them.  *)
IsPerformance(q, v, s, n, f) ==
    f = [k \in 0 .. n |-> IF k = 0 THEN s ELSE Step(f[k - 1], q[k], v)]

GoesThrough(q, v, s, n, f) ==
    f[0] = s /\ \A k \in 1 .. n : f[k] = Step(f[k - 1], q[k], v)

LEMMA PerformanceIs ==
    ASSUME NEW q, NEW v, NEW s, NEW n \in Nat, NEW f, IsPerformance(q, v, s, n, f)
    PROVE  GoesThrough(q, v, s, n, f)
  <1>1. PICK e : e = [k \in 0 .. n |-> IF k = 0 THEN s ELSE Step(f[k - 1], q[k], v)]
    OBVIOUS
  <1>2. e[0] = s /\ \A k \in 1 .. n : e[k] = Step(f[k - 1], q[k], v)
    BY <1>1
  <1> QED
    BY <1>1, <1>2 DEF IsPerformance, GoesThrough

LEMMA PerformanceExtends ==
    ASSUME NEW q, NEW v, NEW s, NEW n \in Nat, NEW f, IsPerformance(q, v, s, n, f)
    PROVE  \E g : IsPerformance(q, v, s, n + 1, g)
  <1> DEFINE last == Step(f[n], q[n + 1], v)
             g == [k \in 0 .. n + 1 |-> IF k = n + 1 THEN last ELSE f[k]]
             h == [k \in 0 .. n + 1 |-> IF k = 0 THEN s ELSE Step(g[k - 1], q[k], v)]
  <1>1. f[0] = s /\ \A k \in 1 .. n : f[k] = Step(f[k - 1], q[k], v)
    BY PerformanceIs DEF GoesThrough
  <1>2. ASSUME NEW k \in 0 .. n + 1 PROVE g[k] = h[k]
    <2>1. CASE k = 0
      BY <1>1, <2>1
    <2>2. CASE k = n + 1
      <3>1. g[k] = last /\ k # 0 /\ k - 1 = n /\ k - 1 \in 0 .. n + 1 /\ k - 1 # n + 1
        BY <2>2
      <3>2. g[k - 1] = f[n]
        BY <3>1
      <3>3. h[k] = Step(g[k - 1], q[k], v)
        BY <3>1
      <3> QED
        BY <2>2, <3>1, <3>2, <3>3, Zenon
    <2>3. CASE k \in 1 .. n
      <3>1. k # n + 1 /\ k # 0 /\ k - 1 \in 0 .. n + 1 /\ k - 1 # n + 1
        BY <2>3
      <3>2. g[k] = f[k] /\ g[k - 1] = f[k - 1]
        BY <3>1
      <3>3. h[k] = Step(g[k - 1], q[k], v)
        BY <3>1
      <3>4. f[k] = Step(f[k - 1], q[k], v)
        BY <1>1, <2>3
      <3> QED
        BY <3>2, <3>3, <3>4
    <2> QED
      BY <2>1, <2>2, <2>3
  <1>3. g = h
    BY <1>2
  <1>4. IsPerformance(q, v, s, n + 1, g)
    BY <1>3 DEF IsPerformance
  <1> QED
    BY <1>4

LEMMA Performance ==
    ASSUME NEW q, NEW v, NEW s, NEW n \in Nat
    PROVE  \E f : IsPerformance(q, v, s, n, f)
  <1> DEFINE Has == {k \in 0 .. n : \E f : IsPerformance(q, v, s, k, f)}
  <1>1. 0 \in Has
    <2> DEFINE f == [j \in 0 .. 0 |-> s]
               g == [j \in 0 .. 0 |-> IF j = 0 THEN s ELSE Step(f[j - 1], q[j], v)]
    <2>1. f = g
      OBVIOUS
    <2>2. IsPerformance(q, v, s, 0, f)
      BY <2>1 DEF IsPerformance
    <2> QED
      BY <2>2
  <1>2. ASSUME NEW k \in 1 .. n, k - 1 \in Has PROVE k \in Has
    <2>1. k - 1 \in Nat /\ (k - 1) + 1 = k
      OBVIOUS
    <2>2. PICK f : IsPerformance(q, v, s, k - 1, f)
      BY <1>2
    <2>3. \E g : IsPerformance(q, v, s, (k - 1) + 1, g)
      BY <2>1, <2>2, PerformanceExtends
    <2> QED
      BY <2>1, <2>3
  <1> HIDE DEF Has
  <1>3. n \in Has
    BY <1>1, <1>2, Climb
  <1> QED
    BY <1>3 DEF Has

(* Whatever goes from state to state by the instructions ends where Performed *)
(* does.                                                                      *)
LEMMA PerformedIs ==
    ASSUME NEW q, NEW v, NEW s, NEW n \in Nat, Len(q) = n, NEW g, GoesThrough(q, v, s, n, g)
    PROVE  Performed(q, v, s) = g[n]
  <1>1. \E f : IsPerformance(q, v, s, n, f)
    BY Performance
  <1>2. PICK f : IsPerformance(q, v, s, n, f) /\ Performed(q, v, s) = f[n]
    BY <1>1, Zenon DEF IsPerformance, Performed
  <1>3. f[0] = s /\ \A k \in 1 .. n : f[k] = Step(f[k - 1], q[k], v)
    BY <1>2, PerformanceIs DEF GoesThrough
  <1>4. g[0] = s /\ \A k \in 1 .. n : g[k] = Step(g[k - 1], q[k], v)
    BY DEF GoesThrough
  <1> DEFINE Same == {k \in 0 .. n : f[k] = g[k]}
  <1>5. 0 \in Same
    BY <1>3, <1>4
  <1>6. ASSUME NEW k \in 1 .. n, k - 1 \in Same PROVE k \in Same
    BY <1>3, <1>4, <1>6
  <1> HIDE DEF Same
  <1>7. \A k \in 0 .. n : k \in Same
    BY <1>5, <1>6, Climb
  <1>8. n \in 0 .. n
    OBVIOUS
  <1>9. n \in Same
    BY <1>7, <1>8
  <1> QED
    BY <1>2, <1>9 DEF Same

LEMMA PerformedHas ==
    ASSUME NEW q, NEW v, NEW s, NEW n \in Nat, Len(q) = n
    PROVE  \E f : GoesThrough(q, v, s, n, f) /\ Performed(q, v, s) = f[n]
  <1>1. PICK f : IsPerformance(q, v, s, n, f)
    BY Performance
  <1>2. GoesThrough(q, v, s, n, f)
    BY <1>1, PerformanceIs
  <1>3. Performed(q, v, s) = f[n]
    BY <1>2, PerformedIs
  <1> QED
    BY <1>2, <1>3

(* One sequence after another, one instruction, and none.                     *)
LEMMA PerformedAppends ==
    ASSUME NEW S, NEW p \in Seq(S), NEW q \in Seq(S), NEW v, NEW s
    PROVE  Performed(p \o q, v, s) = Performed(q, v, Performed(p, v, s))
  <1>1. PICK n \in Nat : n = Len(p)
    BY LenProperties
  <1>2. PICK m \in Nat : m = Len(q)
    BY LenProperties
  <1>3. /\ Len(p \o q) = n + m /\ n + m \in Nat
        /\ \A k \in 1 .. n : (p \o q)[k] = p[k]
        /\ \A k \in 1 .. m : (p \o q)[n + k] = q[k]
    <2>1. /\ Len(p \o q) = Len(p) + Len(q)
          /\ \A i \in 1 .. Len(p) + Len(q) :
                (p \o q)[i] = IF i <= Len(p) THEN p[i] ELSE q[i - Len(p)]
      BY ConcatProperties
    <2>2. ASSUME NEW k \in 1 .. n PROVE (p \o q)[k] = p[k]
      BY <1>1, <1>2, <2>1, <2>2
    <2>3. ASSUME NEW k \in 1 .. m PROVE (p \o q)[n + k] = q[k]
      <3>1. n + k \in 1 .. n + m /\ ~ (n + k <= n) /\ (n + k) - n = k
        BY <1>1, <1>2, <2>3
      <3>2. (p \o q)[n + k] = q[(n + k) - n]
        BY <1>1, <1>2, <2>1, <3>1
      <3> QED
        BY <3>1, <3>2
    <2> QED
      BY <1>1, <1>2, <2>1, <2>2, <2>3
  <1>4. PICK f : GoesThrough(p \o q, v, s, n + m, f) /\ Performed(p \o q, v, s) = f[n + m]
    <2>1. PICK whole : whole = p \o q
      OBVIOUS
    <2>2. PICK length \in Nat : length = n + m /\ Len(whole) = length
      BY <1>3, <2>1
    <2>3. \E f : GoesThrough(whole, v, s, length, f) /\ Performed(whole, v, s) = f[length]
      BY <2>2, PerformedHas
    <2> QED
      BY <2>1, <2>2, <2>3
  <1>r4. f[0] = s /\ \A k \in 1 .. n + m : f[k] = Step(f[k - 1], (p \o q)[k], v)
    BY <1>4 DEF GoesThrough
  <1>5. Performed(p, v, s) = f[n]
    <2>1. ASSUME NEW k \in 1 .. n PROVE f[k] = Step(f[k - 1], p[k], v)
      <3>1. k \in 1 .. n + m
        BY <1>2, <2>1
      <3>2. (p \o q)[k] = p[k]
        BY <1>3, <2>1
      <3> QED
        BY <1>r4, <3>1, <3>2
    <2>2. GoesThrough(p, v, s, n, f)
      BY <1>r4, <2>1 DEF GoesThrough
    <2> QED
      BY <1>1, <2>2, PerformedIs
  <1>6. Performed(q, v, f[n]) = f[n + m]
    <2> DEFINE g == [k \in 0 .. m |-> f[n + k]]
    <2>1. g[0] = f[n] /\ g[m] = f[n + m]
      OBVIOUS
    <2>2. ASSUME NEW k \in 1 .. m PROVE g[k] = Step(g[k - 1], q[k], v)
      <3>1. n + k \in 1 .. n + m /\ (n + k) - 1 = n + (k - 1) /\ k \in 0 .. m /\ k - 1 \in 0 .. m
        BY <2>2
      <3>2. f[n + k] = Step(f[(n + k) - 1], (p \o q)[n + k], v)
        BY <1>r4, <3>1
      <3>3. (p \o q)[n + k] = q[k]
        BY <1>3, <2>2
      <3>4. g[k] = f[n + k] /\ g[k - 1] = f[n + (k - 1)]
        BY <3>1
      <3> HIDE DEF g
      <3> QED
        BY <3>1, <3>2, <3>3, <3>4, Zenon
    <2> HIDE DEF g
    <2>3. GoesThrough(q, v, f[n], m, g)
      BY <2>1, <2>2 DEF GoesThrough
    <2>4. Performed(q, v, f[n]) = g[m]
      BY <1>2, <2>3, PerformedIs
    <2> QED
      BY <2>1, <2>4
  <1> QED
    BY <1>4, <1>5, <1>6

LEMMA PerformedOne ==
    ASSUME NEW q, NEW v, NEW s, Len(q) = 1
    PROVE  Performed(q, v, s) = Step(s, q[1], v)
  <1> DEFINE g == [k \in 0 .. 1 |-> IF k = 0 THEN s ELSE Step(s, q[1], v)]
  <1>1. g[0] = s /\ g[1] = Step(s, q[1], v)
    OBVIOUS
  <1>2. ASSUME NEW k \in 1 .. 1 PROVE g[k] = Step(g[k - 1], q[k], v)
    <2>1. k = 1 /\ k - 1 = 0
      BY <1>2
    <2> HIDE DEF g
    <2> QED
      BY <1>1, <2>1
  <1> HIDE DEF g
  <1>3. GoesThrough(q, v, s, 1, g)
    BY <1>1, <1>2 DEF GoesThrough
  <1> QED
    BY <1>1, <1>3, PerformedIs

(* An evaluation that has ended stays ended.                                  *)
LEMMA PerformedEnded ==
    ASSUME NEW q, NEW v, NEW s, NEW n \in Nat, Len(q) = n, s.kind # "running"
    PROVE  Performed(q, v, s) = s
  <1> DEFINE g == [k \in 0 .. n |-> s]
  <1>1. g[0] = s /\ g[n] = s
    OBVIOUS
  <1>2. ASSUME NEW k \in 1 .. n PROVE g[k] = Step(g[k - 1], q[k], v)
    <2>1. g[k] = s /\ g[k - 1] = s
      BY <1>2
    <2>2. Step(s, q[k], v) = s
      BY DEF Step
    <2> HIDE DEF g
    <2> QED
      BY <2>1, <2>2
  <1> HIDE DEF g
  <1>3. GoesThrough(q, v, s, n, g)
    BY <1>1, <1>2 DEF GoesThrough
  <1> QED
    BY <1>1, <1>3, PerformedIs

(* Of a state that runs, only its context is read.                            *)
Finish(s) == IF s.kind = "running" THEN Success(s.context, 0) ELSE s

LEMMA FinishIsInterpret ==
    ASSUME NEW q, NEW v, NEW c
    PROVE  Interpret(Whole(q), v, c) = Finish(Performed(q, v, Running(c)))
  <1>1. Whole(q).instructions = q /\ Whole(q).result = Literal(0)
    BY DEF Whole, Txn
  <1>2. \A b : EvalExpression(Literal(0), b) = 0
    BY DEF EvalExpression, Literal
  <1> QED
    BY <1>1, <1>2, Zenon DEF Interpret, Finish

LEMMA ContextIsAll ==
    ASSUME NEW q, NEW v, NEW s, NEW n \in Nat, Len(q) = n, s.kind = "running"
    PROVE  Finish(Performed(q, v, s)) = Finish(Performed(q, v, Running(s.context)))
  <1> DEFINE r == Running(s.context)
  <1>1. r.kind = "running" /\ r.context = s.context
    BY DEF Running
  <1> HIDE DEF r
  <1>2. \A i : Step(s, i, v) = Step(r, i, v)
    BY <1>1 DEF Step
  <1>3. PICK f : GoesThrough(q, v, s, n, f) /\ Performed(q, v, s) = f[n]
    BY PerformedHas
  <1>r3. f[0] = s /\ \A k \in 1 .. n : f[k] = Step(f[k - 1], q[k], v)
    BY <1>3 DEF GoesThrough
  <1>4. CASE n = 0
    <2>1. Performed(q, v, s) = s
      BY <1>3, <1>r3, <1>4
    <2>2. Performed(q, v, r) = r
      <3>1. PICK e : GoesThrough(q, v, r, n, e) /\ Performed(q, v, r) = e[n]
        BY PerformedHas
      <3> QED
        BY <1>4, <3>1 DEF GoesThrough
    <2> QED
      BY <1>1, <2>1, <2>2 DEF Finish, r
  <1>5. CASE n # 0
    <2> DEFINE g == [k \in 0 .. n |-> IF k = 0 THEN r ELSE f[k]]
    <2>1. g[0] = r /\ g[n] = f[n]
      BY <1>5
    <2>2. ASSUME NEW k \in 1 .. n PROVE g[k] = Step(g[k - 1], q[k], v)
      <3>1. g[k] = f[k] /\ f[k] = Step(f[k - 1], q[k], v)
        BY <1>r3, <2>2
      <3>2. CASE k = 1
        <4>1. g[k - 1] = r /\ f[k - 1] = s
          BY <1>r3, <2>1, <3>2
        <4> HIDE DEF g
        <4> QED
          BY <1>2, <3>1, <4>1
      <3>3. CASE k # 1
        <4>1. k - 1 \in 0 .. n /\ k - 1 # 0
          BY <2>2, <3>3
        <4>2. g[k - 1] = f[k - 1]
          BY <4>1
        <4> HIDE DEF g
        <4> QED
          BY <3>1, <4>2
      <3> QED
        BY <3>2, <3>3
    <2> HIDE DEF g
    <2>3. GoesThrough(q, v, r, n, g)
      BY <2>1, <2>2 DEF GoesThrough
    <2>4. Performed(q, v, r) = g[n]
      BY <2>3, PerformedIs
    <2> QED
      BY <1>3, <2>1, <2>4 DEF r
  <1> QED
    BY <1>4, <1>5

(* No instruction ends the evaluation with success: only the last one does.   *)
LEMMA PerformNeverSuccess ==
    ASSUME NEW i, i.op \in Operations, NEW v, NEW c
    PROVE  Perform(i, v, c).kind # "success"
  <1>1. \A x : Running(x).kind = "running"
    BY DEF Running
  <1>2. \A x, y : Retrying(x, y).kind = "retry" /\ TypedAbort(x, y).kind = "typed_abort"
    BY DEF Retrying, TypedAbort
  <1>3. \A x, n : Continue(x, n).kind # "success"
    BY <1>1 DEF Continue
  <1>4. \A x, y, z : BothRetry(x, y, z).kind = "retry"
    BY <1>2 DEF BothRetry
  <1>5. CASE i.op = "read"
    BY <1>1, <1>5 DEF Perform, PerformRead
  <1>6. CASE i.op = "write"
    BY <1>1, <1>6 DEF Perform, PerformWrite
  <1>7. CASE i.op = "after_commit"
    BY <1>1, <1>7 DEF Perform
  <1>8. CASE i.op = "abort"
    BY <1>2, <1>8 DEF Perform
  <1>9. CASE i.op = "retry"
    BY <1>2, <1>9 DEF Perform
  <1>10. CASE i.op = "nested"
    BY <1>3, <1>10 DEF Perform
  <1>11. CASE i.op = "when"
    BY <1>3, <1>11 DEF Perform
  <1>12. CASE i.op = "or_else"
    BY <1>3, <1>4, <1>12 DEF Perform
  <1> QED
    BY <1>5, <1>6, <1>7, <1>8, <1>9, <1>10, <1>11, <1>12 DEF Operations

LEMMA PerformedNeverSuccess ==
    ASSUME NEW q, NEW v, NEW s, s.kind # "success", NEW n \in Nat, Len(q) = n,
           \A k \in 1 .. n : q[k].op \in Operations
    PROVE  Performed(q, v, s).kind # "success"
  <1>1. PICK f : GoesThrough(q, v, s, n, f) /\ Performed(q, v, s) = f[n]
    BY PerformedHas
  <1>2. f[0] = s /\ \A k \in 1 .. n : f[k] = Step(f[k - 1], q[k], v)
    BY <1>1 DEF GoesThrough
  <1> DEFINE Not == {k \in 0 .. n : f[k].kind # "success"}
  <1>3. 0 \in Not
    BY <1>2
  <1>4. ASSUME NEW k \in 1 .. n, k - 1 \in Not PROVE k \in Not
    <2>1. f[k] = Step(f[k - 1], q[k], v) /\ k \in 0 .. n
      BY <1>2, <1>4
    <2>2. f[k - 1].kind # "success"
      BY <1>4
    <2>3. Perform(q[k], v, f[k - 1].context).kind # "success"
      BY <1>4, PerformNeverSuccess
    <2>4. Step(f[k - 1], q[k], v).kind # "success"
      BY <2>2, <2>3 DEF Step
    <2> QED
      BY <2>1, <2>4
  <1> HIDE DEF Not
  <1>5. \A k \in 0 .. n : k \in Not
    BY <1>3, <1>4, Climb
  <1>6. n \in 0 .. n
    OBVIOUS
  <1>7. n \in Not
    BY <1>5, <1>6
  <1> QED
    BY <1>1, <1>7 DEF Not

(* What the law's descriptions are made of.                                   *)
Instructions == {i \in UNION {Range(p) : p \in Openings \cup Branches} : i.op \in Operations}
LEMMA PartsAreInstructions ==
    ASSUME NEW p \in Openings \cup Branches
    PROVE  /\ p \in Seq(Instructions)
           /\ Len(p) \in Nat
           /\ \A k \in 1 .. Len(p) : p[k].op \in Operations
  <1>1. p \in Seq({i \in Range(p) : i.op \in Operations})
    BY WrittenInParts
  <1>2. {i \in Range(p) : i.op \in Operations} \subseteq Instructions
    BY DEF Instructions
  <1>3. p \in Seq(Instructions)
    <2> DEFINE own == {i \in Range(p) : i.op \in Operations}
    <2> HIDE DEF own, Instructions
    <2> QED
      BY <1>1, <1>2, SeqMonotonic DEF own
  <1>4. Len(p) \in Nat
    BY <1>3, LenProperties
  <1>5. ASSUME NEW k \in 1 .. Len(p) PROVE p[k].op \in Operations
    <2> DEFINE own == {i \in Range(p) : i.op \in Operations}
    <2>1. p[k] \in own
      <3> HIDE DEF own
      <3> QED
        BY <1>1, <1>5, ElementOfSeq DEF own
    <2> QED
      BY <2>1
  <1> QED
    BY <1>3, <1>4, <1>5

(* How the evaluation of a sequence from a state ends.                        *)
Ending(q, v, s) == Finish(Performed(q, v, s))

LEMMA EndingIs ==
    ASSUME NEW q, NEW v, NEW s, s.kind # "success", NEW n \in Nat, Len(q) = n,
           \A k \in 1 .. n : q[k].op \in Operations
    PROVE  /\ Ending(q, v, s).kind # "running"
           /\ Ending(q, v, s).kind = "success"
                 => Ending(q, v, s) = Success(Performed(q, v, s).context, 0)
  <1>1. Performed(q, v, s).kind # "success"
    BY PerformedNeverSuccess
  <1>2. \A x : Success(x, 0).kind = "success"
    BY DEF Success
  <1> QED
    BY <1>1, <1>2 DEF Ending, Finish

(* What an attempt keeps of an ending.                                        *)
Kept(end) ==
    [kind         |-> end.kind,
     value        |-> IF end.kind = "success" THEN end.value ELSE 0,
     reads        |-> end.context.reads,
     writes       |-> end.context.writes,
     dependencies |-> IF end.kind = "retry" THEN end.dependencies ELSE {},
     actions      |-> IF end.kind = "success" THEN end.context.actions
                      ELSE IF end.kind = "typed_abort" THEN end.actions ELSE <<>>]

LEMMA EvaluationIsKept ==
    ASSUME NEW q, NEW v
    PROVE  Evaluation(Whole(q), v) = Kept(Ending(q, v, Running(EmptyContext)))
  <1>1. Interpret(Whole(q), v, EmptyContext) = Ending(q, v, Running(EmptyContext))
    BY FinishIsInterpret DEF Ending
  <1> QED
    BY <1>1, Zenon DEF Evaluation, Kept

(* A binding is all that tells the caller's ending from its branch's.         *)
LEMMA BoundIsKept ==
    ASSUME NEW c, NEW m
    PROVE  Kept(Success(Bind(c, m, 0), 0)) = Kept(Success(c, 0))
  <1>1. /\ Bind(c, m, 0).reads = c.reads
        /\ Bind(c, m, 0).writes = c.writes
        /\ Bind(c, m, 0).actions = c.actions
    BY DEF Bind
  <1>2. \A x : /\ Success(x, 0).kind = "success"
               /\ Success(x, 0).value = 0
               /\ Success(x, 0).context = x
    BY DEF Success
  <1>3. ASSUME NEW x
        PROVE  Kept(Success(x, 0)) = [kind |-> "success", value |-> 0, reads |-> x.reads,
                                      writes |-> x.writes, dependencies |-> {}, actions |-> x.actions]
    <2> DEFINE end == Success(x, 0)
    <2>1. end.kind = "success" /\ end.value = 0 /\ end.context = x
      BY <1>2
    <2> HIDE DEF end
    <2>2. Kept(end) = [kind |-> "success", value |-> 0, reads |-> x.reads,
                       writes |-> x.writes, dependencies |-> {}, actions |-> x.actions]
      BY <2>1 DEF Kept
    <2> QED
      BY <2>2 DEF end
  <1> QED
    BY <1>1, <1>3

(* A branch that does not retry ends the caller as it ends by itself.         *)
LEMMA ContinueIsKept ==
    ASSUME NEW e, e.kind # "running", NEW c, e.kind = "success" => e = Success(c, 0)
    PROVE  Kept(Finish(Continue(e, "chosen"))) = Kept(e)
  <1>1. CASE e.kind = "success"
    <2>1. e = Success(c, 0) /\ e.context = c /\ e.value = 0
      BY <1>1 DEF Success
    <2>2. Continue(e, "chosen") = Running(Bind(c, "chosen", 0))
      BY <1>1, <2>1 DEF Continue
    <2>3. Finish(Running(Bind(c, "chosen", 0))) = Success(Bind(c, "chosen", 0), 0)
      BY DEF Finish, Running
    <2> QED
      BY <2>1, <2>2, <2>3, BoundIsKept
  <1>2. CASE e.kind # "success"
    BY <1>2 DEF Continue, Finish
  <1> QED
    BY <1>1, <1>2

(* The law, for one prefix, two branches and one store.                       *)
Lawful(before, l, r, result) ==
    IF before.kind # "success" THEN result = before
    ELSE IF l.kind # "retry" THEN result = l
    ELSE IF r.kind # "retry" THEN result = r
    ELSE /\ result.kind = "retry"
         /\ result.dependencies = l.dependencies \cup r.dependencies
         /\ result.reads = before.reads \cup result.dependencies
         /\ result.writes = before.writes

Alternatives(a, b) == [op |-> "or_else", left |-> Whole(a), right |-> Whole(b), bind |-> "chosen"]

(* After a prefix that ended, nothing is evaluated.                           *)
LEMMA LawAfterAnEnd ==
    ASSUME NEW s, s.kind # "running", s.kind # "success", NEW v,
           NEW a, NEW b, Len(a) \in Nat, Len(b) \in Nat, NEW o, Len(o) = 1
    PROVE  Lawful(Kept(Finish(s)), Kept(Ending(a, v, s)), Kept(Ending(b, v, s)), Kept(Ending(o, v, s)))
  <1>1. Ending(a, v, s) = Finish(s) /\ Ending(b, v, s) = Finish(s) /\ Ending(o, v, s) = Finish(s)
    <2>1. Performed(a, v, s) = s
      BY PerformedEnded
    <2>2. Performed(b, v, s) = s
      BY PerformedEnded
    <2>3. Performed(o, v, s) = s
      BY PerformedEnded
    <2> QED
      BY <2>1, <2>2, <2>3 DEF Ending
  <1>2. Finish(s) = s
    BY DEF Finish
  <1>3. Kept(s).kind # "success"
    BY DEF Kept
  <1> QED
    BY <1>1, <1>2, <1>3 DEF Lawful

(* Otherwise both branches are evaluated from the prefix's journal.           *)
LEMMA LawOfTheBranches ==
    ASSUME NEW s, s.kind = "running", NEW v,
           NEW a, Len(a) \in Nat, \A k \in 1 .. Len(a) : a[k].op \in Operations,
           NEW b, Len(b) \in Nat, \A k \in 1 .. Len(b) : b[k].op \in Operations,
           InterpretInner(Whole(a), v, s.context) = Interpret(Whole(a), v, s.context),
           InterpretInner(Whole(b), v, s.context) = Interpret(Whole(b), v, s.context),
           NEW o, Len(o) = 1, o[1] = Alternatives(a, b)
    PROVE  Lawful(Kept(Finish(s)), Kept(Ending(a, v, s)), Kept(Ending(b, v, s)), Kept(Ending(o, v, s)))
  <1>1. PICK l : l = Ending(a, v, s)
    OBVIOUS
  <1>2. PICK r : r = Ending(b, v, s)
    OBVIOUS
  <1>3. s.kind # "success"
    OBVIOUS
  <1>4. l.kind # "running" /\ (l.kind = "success" => l = Success(Performed(a, v, s).context, 0))
    <2>1. PICK n \in Nat : n = Len(a)
      OBVIOUS
    <2> QED
      BY <1>1, <1>3, <2>1, EndingIs
  <1>5. r.kind # "running" /\ (r.kind = "success" => r = Success(Performed(b, v, s).context, 0))
    <2>1. PICK n \in Nat : n = Len(b)
      OBVIOUS
    <2> QED
      BY <1>2, <1>3, <2>1, EndingIs
  <1>6. InterpretInner(Whole(a), v, s.context) = l
    BY <1>1, ContextIsAll, FinishIsInterpret DEF Ending
  <1>7. InterpretInner(Whole(b), v, s.context) = r
    BY <1>2, ContextIsAll, FinishIsInterpret DEF Ending
  <1>8. Performed(o, v, s) = IF l.kind # "retry" THEN Continue(l, "chosen")
                             ELSE IF r.kind = "retry" THEN BothRetry(s.context, l, r)
                             ELSE Continue(r, "chosen")
    <2> DEFINE i == Alternatives(a, b)
    <2>1. i.op = "or_else" /\ i.left = Whole(a) /\ i.right = Whole(b) /\ i.bind = "chosen"
      BY DEF Alternatives
    <2>2. Performed(o, v, s) = Perform(i, v, s.context)
      BY PerformedOne DEF Step
    <2> HIDE DEF i
    <2>3. Perform(i, v, s.context) = IF l.kind # "retry" THEN Continue(l, "chosen")
                                     ELSE IF r.kind = "retry" THEN BothRetry(s.context, l, r)
                                     ELSE Continue(r, "chosen")
      BY <1>6, <1>7, <2>1 DEF Perform, RightInput
    <2> QED
      BY <2>2, <2>3
  <1>9. /\ Kept(Finish(s)).kind = "success"
        /\ Kept(Finish(s)).reads = s.context.reads
        /\ Kept(Finish(s)).writes = s.context.writes
    BY DEF Kept, Finish, Success
  <1>10. \A e : Kept(e).kind = e.kind /\ (e.kind = "retry" => Kept(e).dependencies = e.dependencies)
    BY DEF Kept
  <1>11. CASE l.kind # "retry"
    <2>1. Kept(Ending(o, v, s)) = Kept(l)
      BY <1>4, <1>8, <1>11, ContinueIsKept DEF Ending
    <2> QED
      BY <1>1, <1>9, <1>10, <1>11, <2>1 DEF Lawful
  <1>12. CASE l.kind = "retry" /\ r.kind # "retry"
    <2>1. Kept(Ending(o, v, s)) = Kept(r)
      BY <1>5, <1>8, <1>12, ContinueIsKept DEF Ending
    <2> QED
      BY <1>1, <1>2, <1>9, <1>10, <1>12, <2>1 DEF Lawful
  <1>13. CASE l.kind = "retry" /\ r.kind = "retry"
    <2>1. Performed(o, v, s) = BothRetry(s.context, l, r)
      BY <1>8, <1>13
    <2> DEFINE both == BothRetry(s.context, l, r)
    <2>2. /\ both.kind = "retry"
          /\ both.dependencies = l.dependencies \cup r.dependencies
          /\ both.context.reads = s.context.reads \cup (l.dependencies \cup r.dependencies)
          /\ both.context.writes = s.context.writes
      BY DEF BothRetry, Retrying
    <2> HIDE DEF both
    <2>3. Ending(o, v, s) = both
      BY <2>1, <2>2 DEF Ending, Finish, both
    <2>4. /\ Kept(both).kind = "retry"
          /\ Kept(both).dependencies = l.dependencies \cup r.dependencies
          /\ Kept(both).reads = s.context.reads \cup (l.dependencies \cup r.dependencies)
          /\ Kept(both).writes = s.context.writes
      BY <2>2 DEF Kept
    <2> QED
      BY <1>1, <1>2, <1>9, <1>10, <1>13, <2>3, <2>4 DEF Lawful
  <1> QED
    BY <1>11, <1>12, <1>13

LEMMA OrElseLaw ==
    ASSUME NEW v \in Stores, prefix \in Openings, left \in Branches, right \in Branches
    PROVE  Lawful(Evaluation(Whole(prefix), v), Evaluation(Whole(prefix \o left), v),
                  Evaluation(Whole(prefix \o right), v), Evaluation(Choice, v))
  <1> DEFINE start == Running(EmptyContext)
             s == Performed(prefix, v, start)
             o == <<Alternatives(left, right)>>
             S == Instructions \cup {Alternatives(left, right)}
  <1>1. start.kind # "success"
    BY DEF Running
  <1>2. prefix \in Seq(S) /\ left \in Seq(S) /\ right \in Seq(S) /\ o \in Seq(S)
    <2>1. prefix \in Seq(Instructions) /\ left \in Seq(Instructions) /\ right \in Seq(Instructions)
      BY PartsAreInstructions
    <2>2. Instructions \subseteq S /\ Alternatives(left, right) \in S
      OBVIOUS
    <2> HIDE DEF S
    <2> QED
      BY <2>1, <2>2, SeqMonotonic
  <1>3. Choice = Whole(prefix \o o)
    BY DEF Choice, OrElse, Txn, Alternatives
  <1>4. Len(o) = 1 /\ o[1] = Alternatives(left, right)
    OBVIOUS
  <1>5. s.kind # "success"
    <2>1. PICK n \in Nat : n = Len(prefix)
      BY PartsAreInstructions
    <2>2. \A k \in 1 .. n : prefix[k].op \in Operations
      BY <2>1, PartsAreInstructions
    <2> HIDE DEF start
    <2> QED
      BY <1>1, <2>1, <2>2, PerformedNeverSuccess
  <1> HIDE DEF S, o, start
  <1>6. /\ Evaluation(Whole(prefix), v) = Kept(Finish(s))
        /\ Evaluation(Whole(prefix \o left), v) = Kept(Ending(left, v, s))
        /\ Evaluation(Whole(prefix \o right), v) = Kept(Ending(right, v, s))
        /\ Evaluation(Choice, v) = Kept(Ending(o, v, s))
    <2>1. ASSUME NEW q \in Seq(S)
          PROVE  Evaluation(Whole(prefix \o q), v) = Kept(Ending(q, v, s))
      <3>1. Performed(prefix \o q, v, start) = Performed(q, v, s)
        BY <1>2, <2>1, PerformedAppends
      <3> QED
        BY <3>1, EvaluationIsKept DEF Ending, start
    <2>2. Evaluation(Whole(prefix), v) = Kept(Finish(s))
      BY EvaluationIsKept DEF Ending, start
    <2> HIDE DEF s
    <2> QED
      BY <1>2, <1>3, <2>1, <2>2
  <1>7. /\ Len(left) \in Nat /\ \A k \in 1 .. Len(left) : left[k].op \in Operations
        /\ Len(right) \in Nat /\ \A k \in 1 .. Len(right) : right[k].op \in Operations
    BY PartsAreInstructions
  <1>8. /\ InterpretInner(Whole(left), v, s.context) = Interpret(Whole(left), v, s.context)
        /\ InterpretInner(Whole(right), v, s.context) = Interpret(Whole(right), v, s.context)
    BY InnerIsTheSame DEF start
  <1> HIDE DEF s
  <1>9. Lawful(Kept(Finish(s)), Kept(Ending(left, v, s)), Kept(Ending(right, v, s)), Kept(Ending(o, v, s)))
    BY <1>4, <1>5, <1>7, <1>8, LawAfterAnEnd, LawOfTheBranches
  <1> QED
    BY <1>6, <1>9

(* orElse runs one of its branches in place: however a prefix and two         *)
(* branches are written, and on every store, evaluating the alternatives      *)
(* after the prefix is evaluating the prefix with the left branch, or, where  *)
(* that retries, with the right one from the prefix's journal, or is a retry  *)
(* that waits on what either branch waits on (evaluate, "or_else").           *)
THEOREM OrElseRunsOneBranchHolds == ProgramsSpec => []OrElseRunsOneBranch
  <1> DEFINE Written == prefix \in Openings /\ left \in Branches /\ right \in Branches
  <1>1. ProgramsInit => Written
    BY WrittenInParts DEF ProgramsInit
  <1>2. Written /\ [ProgramsNext]_programVars => Written'
    BY DEF ProgramsNext, programVars
  <1>3. Written => OrElseRunsOneBranch
    <2> SUFFICES ASSUME Written, NEW v \in Stores
                 PROVE  Lawful(Evaluation(Whole(prefix), v), Evaluation(Whole(prefix \o left), v),
                               Evaluation(Whole(prefix \o right), v), Evaluation(Choice, v))
      BY Zenon DEF OrElseRunsOneBranch, Lawful
    <2> QED
      BY OrElseLaw
  <1> HIDE DEF Written
  <1> QED
    BY <1>1, <1>2, <1>3, PTL DEF ProgramsSpec
=============================================================================
