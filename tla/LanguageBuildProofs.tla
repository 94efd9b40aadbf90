------------------------- MODULE LanguageBuildProofs -------------------------
(* The store is closed whatever the order of inserts, bindings and replays,   *)
(* and what is built from it stays true.  Both rest on one invariant, Sound:  *)
(* what the store holds, and what a validated replay is about to put there.   *)
(* The traversal is an induction over its turns, as the least turn at which   *)
(* it would go wrong.                                                         *)
(*                                                                            *)
(* The second part is about the project model, which the same run composes:   *)
(* its loops are series of turns, each algorithm keeps an invariant of its    *)
(* turns, and every plan and every answer is true (ProjectIsTold).            *)
EXTENDS LanguageBuild, ProjectModel, SequenceTheorems, FiniteSetTheorems, WellFoundedInduction, TLAPS


(* ---- sets as sequences ---------------------------------------------------- *)
(* A finite set is listed once.                                               *)
LEMMA ListOf ==
    ASSUME NEW S, IsFiniteSet(S)
    PROVE  /\ SetToSeq(S) \in Seq(S) /\ Len(SetToSeq(S)) = Cardinality(S) /\ Cardinality(S) \in Nat
           /\ SetToSeq(S) \in [1 .. Cardinality(S) -> S]
           /\ \A i, j \in 1 .. Cardinality(S) : SetToSeq(S)[i] = SetToSeq(S)[j] => i = j
           /\ \A x \in S : \E i \in 1 .. Cardinality(S) : SetToSeq(S)[i] = x
<1>1. Cardinality(S) \in Nat /\ ExistsBijection(1 .. Cardinality(S), S)
  BY FS_CardinalityType
<1>2. PICK f : f \in Bijection(1 .. Cardinality(S), S)
  BY <1>1 DEF ExistsBijection
<1>3. f \in [1 .. Cardinality(S) -> S] /\ IsInjective(f)
  BY <1>2 DEF Bijection, Injection, IsInjective
<1>4. PICK g : g = SetToSeq(S)
  OBVIOUS
<1>5. g \in [1 .. Cardinality(S) -> S] /\ IsInjective(g)
  BY <1>3, <1>4 DEF SetToSeq
<1>6. g \in Injection(1 .. Cardinality(S), S)
  BY <1>5 DEF Injection, IsInjective
<1>7. IsFiniteSet(1 .. Cardinality(S)) /\ Cardinality(1 .. Cardinality(S)) = Cardinality(S)
  BY <1>1, FS_Interval
<1>8. g \in Surjection(1 .. Cardinality(S), S)
  BY <1>6, <1>7, FS_Injection
<1>9. \A x \in S : \E i \in 1 .. Cardinality(S) : g[i] = x
  BY <1>8 DEF Surjection
<1>10. g \in Seq(S) /\ Len(g) = Cardinality(S)
  BY <1>1, <1>5
<1>11. \A i, j \in 1 .. Cardinality(S) : g[i] = g[j] => i = j
  BY <1>5 DEF IsInjective
<1> QED BY <1>1, <1>4, <1>5, <1>9, <1>10, <1>11

LEMMA SequenceOf ==
    ASSUME NEW T, NEW n \in Nat, NEW f \in [1 .. n -> T]
    PROVE  f \in Seq(T) /\ Len(f) = n
<1> QED OBVIOUS

LEMMA ListOfNothing == SetToSeq({}) = <<>>
<1>1. IsFiniteSet({}) /\ Cardinality({}) = 0
  BY FS_EmptySet
<1>2. SetToSeq({}) \in [1 .. 0 -> {}]
  BY <1>1, ListOf
<1> QED BY <1>2

(* Keys that differ are as many as their positions.                           *)
LEMMA KeysCount ==
    ASSUME NEW n \in Nat, NEW key, key = [i \in 1 .. n |-> key[i]],
           \A i, j \in 1 .. n : key[i] = key[j] => i = j
    PROVE  Cardinality({key[i] : i \in 1 .. n}) = n
<1> DEFINE K == {key[i] : i \in 1 .. n}
<1>1. key \in Bijection(1 .. n, K)
  BY DEF Bijection, Injection, Surjection, IsInjective
<1>2. ExistsBijection(1 .. n, K)
  BY <1>1 DEF ExistsBijection
<1> QED BY <1>2, FS_CountingElements

(* ---- the store ------------------------------------------------------------- *)
(* What a stored state is: finitely many values and names, every value with a *)
(* variant, every variant under the value it validates to, and no name that   *)
(* targets nothing.                                                           *)
ValuesSound(values) ==
    /\ values = [s \in DOMAIN values |-> values[s]] /\ IsFiniteSet(DOMAIN values)
    /\ \A s \in DOMAIN values :
          /\ values[s] \subseteq Artifacts /\ IsFiniteSet(values[s]) /\ values[s] # {}
          /\ \A a \in values[s] : SemanticOf[a] = s
NamesSound(names, values) ==
    /\ names = [n \in DOMAIN names |-> names[n]] /\ IsFiniteSet(DOMAIN names)
    /\ \A n \in DOMAIN names : n \in Names /\ names[n] \in DOMAIN values
Sound(st) ==
    /\ st = [values |-> st.values, names |-> st.names]
    /\ ValuesSound(st.values) /\ NamesSound(st.names, st.values)

EntryOf(values, s) ==
    LET variants == SetToSeq(values[s])
    IN [semantic_identity |-> s,
        artifacts |-> [i \in DOMAIN variants |->
                          [artifact_identity |-> variants[i], canonical_bytes |-> variants[i]]]]
BindingOf(names, n) == [name |-> n, semantic_identity |-> names[n]]

LEMMA SnapshotIs ==
    ASSUME NEW st
    PROVE  SnapshotState(st) =
               [semantic_values |-> [i \in DOMAIN SetToSeq(DOMAIN st.values) |->
                                        EntryOf(st.values, SetToSeq(DOMAIN st.values)[i])],
                name_bindings |-> [i \in DOMAIN SetToSeq(DOMAIN st.names) |->
                                        BindingOf(st.names, SetToSeq(DOMAIN st.names)[i])]]
<1> QED BY DEF SnapshotState, EntryOf, BindingOf

(* An entry lists the variants of its value, each under its own identity.     *)
Document(a) == [artifact_identity |-> a, canonical_bytes |-> a]
LEMMA EntryFacts ==
    ASSUME NEW values, ValuesSound(values), NEW s \in DOMAIN values
    PROVE  LET v == EntryOf(values, s)
           IN /\ v.semantic_identity = s
              /\ v.artifacts \in Seq([artifact_identity : Artifacts, canonical_bytes : Artifacts])
              /\ v.artifacts # <<>> /\ Distinct(v.artifacts, LAMBDA a : a.artifact_identity)
              /\ Range(v.artifacts) = {Document(a) : a \in values[s]}
<1> DEFINE v == EntryOf(values, s)
           q == SetToSeq(values[s])
           n == Cardinality(values[s])
           T == [artifact_identity : Artifacts, canonical_bytes : Artifacts]
<1>1. IsFiniteSet(values[s]) /\ values[s] # {} /\ values[s] \subseteq Artifacts
  BY DEF ValuesSound
<1>2. /\ n \in Nat /\ q \in [1 .. n -> values[s]]
      /\ \A i, j \in 1 .. n : q[i] = q[j] => i = j
      /\ \A x \in values[s] : \E i \in 1 .. n : q[i] = x
  BY <1>1, ListOf
<1>3. v.semantic_identity = s /\ v.artifacts = [i \in DOMAIN q |-> Document(q[i])]
  BY DEF EntryOf, Document
<1> HIDE DEF v, q, n
<1>4. v.artifacts = [i \in 1 .. n |-> Document(q[i])]
  BY <1>2, <1>3
<1>5. \A a : Document(a).artifact_identity = a
  BY DEF Document
<1>6. \A a \in Artifacts : Document(a) \in T
  BY DEF Document
<1> HIDE DEF T
<1>7. v.artifacts \in [1 .. n -> T]
  BY <1>1, <1>2, <1>4, <1>6
<1>8. v.artifacts \in Seq(T) /\ Len(v.artifacts) = n
  BY <1>2, <1>7, SequenceOf
<1>9. v.artifacts # <<>>
  <2>1. PICK i \in 1 .. n : TRUE
    BY <1>1, <1>2
  <2> QED BY <1>2, <1>8, <2>1
<1>10. Distinct(v.artifacts, LAMBDA a : a.artifact_identity)
  <2>1. Cardinality({q[i] : i \in 1 .. n}) = n
    BY <1>2, KeysCount
  <2>2. {v.artifacts[i].artifact_identity : i \in DOMAIN v.artifacts} = {q[i] : i \in 1 .. n}
    <3>1. DOMAIN v.artifacts = 1 .. n /\ \A i \in 1 .. n : v.artifacts[i].artifact_identity = q[i]
      BY <1>4, <1>5
    <3> QED BY <3>1
  <2> QED BY <1>8, <2>1, <2>2 DEF Distinct
<1>11. Range(v.artifacts) = {Document(a) : a \in values[s]}
  BY <1>2, <1>4 DEF Range
<1> QED BY <1>3, <1>8, <1>9, <1>10, <1>11 DEF v, T

LEMMA SnapshotFacts ==
    ASSUME NEW st, Sound(st)
    PROVE  LET snapshot == SnapshotState(st)
           IN /\ snapshot = [semantic_values |-> snapshot.semantic_values,
                             name_bindings |-> snapshot.name_bindings]
              /\ snapshot.semantic_values
                   \in Seq([semantic_identity : Identities,
                            artifacts : Seq([artifact_identity : Artifacts, canonical_bytes : Artifacts])])
              /\ snapshot.name_bindings \in Seq([name : Names, semantic_identity : Identities])
              /\ Range(snapshot.semantic_values) = {EntryOf(st.values, s) : s \in DOMAIN st.values}
              /\ Range(snapshot.name_bindings) = {BindingOf(st.names, n) : n \in DOMAIN st.names}
              /\ Distinct(snapshot.semantic_values, LAMBDA v : v.semantic_identity)
              /\ Distinct(snapshot.name_bindings, LAMBDA b : b.name)
<1> DEFINE V == DOMAIN st.values
           M == DOMAIN st.names
           p == SetToSeq(V)
           q == SetToSeq(M)
           k == Cardinality(V)
           m == Cardinality(M)
           values == SnapshotState(st).semantic_values
           bindings == SnapshotState(st).name_bindings
           Entry == [semantic_identity : Identities,
                     artifacts : Seq([artifact_identity : Artifacts, canonical_bytes : Artifacts])]
           Binding == [name : Names, semantic_identity : Identities]
<1>1. IsFiniteSet(V) /\ IsFiniteSet(M)
  BY DEF Sound, ValuesSound, NamesSound
<1>2. /\ k \in Nat /\ p \in [1 .. k -> V]
      /\ \A i, j \in 1 .. k : p[i] = p[j] => i = j
      /\ \A x \in V : \E i \in 1 .. k : p[i] = x
  BY <1>1, ListOf
<1>3. /\ m \in Nat /\ q \in [1 .. m -> M]
      /\ \A i, j \in 1 .. m : q[i] = q[j] => i = j
      /\ \A x \in M : \E i \in 1 .. m : q[i] = x
  BY <1>1, ListOf
<1>4. \A s \in V : EntryOf(st.values, s) \in Entry /\ EntryOf(st.values, s).semantic_identity = s /\ s \in Identities
  <2> SUFFICES ASSUME NEW s \in V
               PROVE  EntryOf(st.values, s) \in Entry /\ EntryOf(st.values, s).semantic_identity = s /\ s \in Identities
    OBVIOUS
  <2>1. s \in Identities
    BY DEF Sound, ValuesSound, Identities
  <2>2. /\ EntryOf(st.values, s).semantic_identity = s
        /\ EntryOf(st.values, s).artifacts \in Seq([artifact_identity : Artifacts, canonical_bytes : Artifacts])
    BY EntryFacts DEF Sound
  <2>3. EntryOf(st.values, s) = [semantic_identity |-> EntryOf(st.values, s).semantic_identity,
                                 artifacts |-> EntryOf(st.values, s).artifacts]
    BY DEF EntryOf
  <2> QED BY <2>1, <2>2, <2>3
<1>5. \A x \in M : BindingOf(st.names, x) \in Binding /\ BindingOf(st.names, x).name = x
  BY <1>4 DEF Sound, NamesSound, BindingOf
<1>6. /\ SnapshotState(st) = [semantic_values |-> values, name_bindings |-> bindings]
      /\ values = [i \in DOMAIN p |-> EntryOf(st.values, p[i])]
      /\ bindings = [i \in DOMAIN q |-> BindingOf(st.names, q[i])]
  BY SnapshotIs
<1> HIDE DEF V, M, p, q, k, m, values, bindings, Entry, Binding
<1>7. /\ values = [i \in 1 .. k |-> EntryOf(st.values, p[i])]
      /\ bindings = [i \in 1 .. m |-> BindingOf(st.names, q[i])]
  BY <1>2, <1>3, <1>6
<1>8. values \in [1 .. k -> Entry] /\ bindings \in [1 .. m -> Binding]
  BY <1>2, <1>3, <1>4, <1>5, <1>7
<1>9. values \in Seq(Entry) /\ Len(values) = k /\ bindings \in Seq(Binding) /\ Len(bindings) = m
  BY <1>2, <1>3, <1>8, SequenceOf
<1>10. Distinct(values, LAMBDA v : v.semantic_identity)
  <2>1. Cardinality({p[i] : i \in 1 .. k}) = k
    BY <1>2, KeysCount
  <2>2. {values[i].semantic_identity : i \in DOMAIN values} = {p[i] : i \in 1 .. k}
    <3>1. DOMAIN values = 1 .. k /\ \A i \in 1 .. k : values[i].semantic_identity = p[i]
      BY <1>2, <1>4, <1>7
    <3> QED BY <3>1
  <2> QED BY <1>9, <2>1, <2>2 DEF Distinct
<1>11. Distinct(bindings, LAMBDA b : b.name)
  <2>1. Cardinality({q[i] : i \in 1 .. m}) = m
    BY <1>3, KeysCount
  <2>2. {bindings[i].name : i \in DOMAIN bindings} = {q[i] : i \in 1 .. m}
    <3>1. DOMAIN bindings = 1 .. m /\ \A i \in 1 .. m : bindings[i].name = q[i]
      BY <1>3, <1>5, <1>7
    <3> QED BY <3>1
  <2> QED BY <1>9, <2>1, <2>2 DEF Distinct
<1>12. Range(values) = {EntryOf(st.values, s) : s \in V}
  BY <1>2, <1>7 DEF Range
<1>13. Range(bindings) = {BindingOf(st.names, x) : x \in M}
  BY <1>3, <1>7 DEF Range
<1> QED BY <1>6, <1>9, <1>10, <1>11, <1>12, <1>13, Zenon DEF values, bindings, V, M, Entry, Binding

LEMMA SnapshotIsDocument == ASSUME NEW st, Sound(st) PROVE SnapshotState(st) # Malformed
<1> DEFINE snapshot == SnapshotState(st)
           values == snapshot.semantic_values
           bindings == snapshot.name_bindings
<1>1. /\ snapshot = [semantic_values |-> values, name_bindings |-> bindings]
      /\ values \in Seq([semantic_identity : Identities,
                         artifacts : Seq([artifact_identity : Artifacts, canonical_bytes : Artifacts])])
      /\ bindings \in Seq([name : Names, semantic_identity : Identities])
  BY SnapshotFacts
<1> HIDE DEF snapshot, values, bindings
<1>2. snapshot \in [semantic_values : Seq([semantic_identity : Identities,
                         artifacts : Seq([artifact_identity : Artifacts, canonical_bytes : Artifacts])]),
                    name_bindings : Seq([name : Names, semantic_identity : Identities])]
  BY <1>1
<1> QED BY <1>2, MalformedIsNoSnapshot DEF Identities, snapshot

(* A snapshot of a stored state within the bounds replays to that state.      *)
LEMMA SnapshotReplays ==
    ASSUME NEW st, Sound(st), WithinReplayBounds(SnapshotState(st))
    PROVE  PrepareSnapshot(SnapshotState(st)) = {st}
<1> DEFINE snapshot == SnapshotState(st)
           values == snapshot.semantic_values
           bindings == snapshot.name_bindings
           Declared(s) == CHOOSE v \in Range(values) : v.semantic_identity = s
           Target(n) == CHOOSE b \in Range(bindings) : b.name = n
           V == DOMAIN st.values
           M == DOMAIN st.names
<1>1. /\ Range(values) = {EntryOf(st.values, s) : s \in V}
      /\ Range(bindings) = {BindingOf(st.names, n) : n \in M}
      /\ Distinct(values, LAMBDA v : v.semantic_identity)
      /\ Distinct(bindings, LAMBDA b : b.name)
  BY SnapshotFacts, Zenon
<1>2. \A s \in V : LET v == EntryOf(st.values, s)
                   IN /\ v.semantic_identity = s /\ v.artifacts # <<>>
                      /\ Distinct(v.artifacts, LAMBDA a : a.artifact_identity)
                      /\ Range(v.artifacts) = {Document(a) : a \in st.values[s]}
  BY EntryFacts DEF Sound
<1>3. \A n \in M : BindingOf(st.names, n).name = n /\ BindingOf(st.names, n).semantic_identity = st.names[n]
  BY DEF BindingOf
<1>4. \A s \in V : \A a \in st.values[s] : a \in Artifacts /\ a # Junk /\ SemanticOf[a] = s
  BY JunkIsNoArtifact DEF Sound, ValuesSound
<1>5. ValuesAdmitted(values)
  <2> HIDE DEF values, V
  <2>1. ASSUME NEW v \in Range(values)
        PROVE  /\ v.artifacts # <<>> /\ Distinct(v.artifacts, LAMBDA a : a.artifact_identity)
               /\ \A a \in Range(v.artifacts) :
                     /\ a.canonical_bytes # Junk /\ a.canonical_bytes = a.artifact_identity
                     /\ SemanticOf[a.canonical_bytes] = v.semantic_identity
    <3>1. PICK s \in V : v = EntryOf(st.values, s)
      BY <1>1
    <3>2. \A a \in Range(v.artifacts) : \E x \in st.values[s] : a = Document(x)
      BY <1>2, <3>1
    <3>3. \A a \in Range(v.artifacts) :
             /\ a.canonical_bytes # Junk /\ a.canonical_bytes = a.artifact_identity
             /\ SemanticOf[a.canonical_bytes] = v.semantic_identity
      <4>1. v.semantic_identity = s
        BY <1>2, <3>1, Zenon
      <4>2. \A x : Document(x).canonical_bytes = x /\ Document(x).artifact_identity = x
        BY DEF Document
      <4> QED BY <1>4, <3>2, <4>1, <4>2
    <3>4. v.artifacts # <<>> /\ Distinct(v.artifacts, LAMBDA a : a.artifact_identity)
      BY <1>2, <3>1, Zenon
    <3> QED BY <3>3, <3>4, Zenon
  <2> QED BY <1>1, <2>1, Zenon DEF ValuesAdmitted
<1>6. BindingsAdmitted(bindings, values)
  <2>1. ASSUME NEW b \in Range(bindings) PROVE \E v \in Range(values) : v.semantic_identity = b.semantic_identity
    <3>1. PICK n \in M : b = BindingOf(st.names, n)
      BY <1>1, <2>1, Zenon
    <3>2. st.names[n] \in V
      BY DEF Sound, NamesSound
    <3> QED BY <1>1, <1>2, <1>3, <3>1, <3>2, Zenon
  <2> QED BY <1>1, <2>1, Zenon DEF BindingsAdmitted
<1>7. snapshot # Malformed
  BY SnapshotIsDocument
<1>8. PrepareSnapshot(snapshot) =
         {[values |-> [s \in {v.semantic_identity : v \in Range(values)} |->
                          {a.artifact_identity : a \in Range(Declared(s).artifacts)}],
           names |-> [n \in {b.name : b \in Range(bindings)} |-> Target(n).semantic_identity]]}
  BY <1>5, <1>6, <1>7, Zenon DEF PrepareSnapshot
<1> HIDE DEF snapshot, values, bindings
<1>9. ASSUME NEW s \in V PROVE Declared(s) = EntryOf(st.values, s)
  <2>1. EntryOf(st.values, s) \in Range(values) /\ EntryOf(st.values, s).semantic_identity = s
    BY <1>1, <1>2, Zenon
  <2>2. \A v \in Range(values) : v.semantic_identity = s => v = EntryOf(st.values, s)
    BY <1>1, <1>2, Zenon
  <2> QED BY <2>1, <2>2
<1>10. ASSUME NEW n \in M PROVE Target(n) = BindingOf(st.names, n)
  <2>1. BindingOf(st.names, n) \in Range(bindings) /\ BindingOf(st.names, n).name = n
    BY <1>1, <1>3, Zenon
  <2>2. \A b \in Range(bindings) : b.name = n => b = BindingOf(st.names, n)
    BY <1>1, <1>3, Zenon
  <2> QED BY <2>1, <2>2
<1>11. ASSUME NEW s \in V PROVE {a.artifact_identity : a \in Range(Declared(s).artifacts)} = st.values[s]
  <2>1. Range(Declared(s).artifacts) = {Document(a) : a \in st.values[s]}
    BY <1>2, <1>9, Zenon
  <2>2. \A a : Document(a).artifact_identity = a
    BY DEF Document
  <2>3. {a.artifact_identity : a \in {Document(x) : x \in st.values[s]}} = st.values[s]
    BY <2>2
  <2> QED BY <2>1, <2>3
<1>12. {v.semantic_identity : v \in Range(values)} = V
  <2>1. \A s \in V : EntryOf(st.values, s).semantic_identity = s
    BY <1>2, Zenon
  <2> QED BY <1>1, <2>1
<1>13. {b.name : b \in Range(bindings)} = M
  BY <1>1, <1>3
<1> HIDE DEF Declared, Target
<1>14. [s \in {v.semantic_identity : v \in Range(values)} |->
           {a.artifact_identity : a \in Range(Declared(s).artifacts)}] = [s \in V |-> st.values[s]]
  BY <1>11, <1>12
<1>15. [n \in {b.name : b \in Range(bindings)} |-> Target(n).semantic_identity] = [n \in M |-> st.names[n]]
  BY <1>3, <1>10, <1>13
<1>16. st = [values |-> [s \in V |-> st.values[s]], names |-> [n \in M |-> st.names[n]]]
  BY DEF Sound, ValuesSound, NamesSound
<1> QED BY <1>8, <1>14, <1>15, <1>16 DEF snapshot

(* The items of a sequence are finitely many.                                 *)
LEMMA FiniteItems == ASSUME NEW seq, seq \in Seq(Range(seq)) PROVE IsFiniteSet(Range(seq))
<1> DEFINE f == [i \in 1 .. Len(seq) |-> seq[i]]
<1>1. Len(seq) \in Nat /\ DOMAIN seq = 1 .. Len(seq)
  OBVIOUS
<1>2. f \in Surjection(1 .. Len(seq), Range(seq))
  BY <1>1 DEF Range, Surjection
<1> QED BY <1>1, <1>2, FS_Interval, FS_Surjection

(* What validation lets through is a state the store could have.              *)
LEMMA PreparedIsSound ==
    ASSUME NEW input \in ReplayInputs, NEW st \in PrepareSnapshot(input)
    PROVE  Sound(st)
<1> DEFINE values == input.semantic_values
           bindings == input.name_bindings
           V == {v.semantic_identity : v \in Range(values)}
           M == {b.name : b \in Range(bindings)}
           Declared(s) == CHOOSE v \in Range(values) : v.semantic_identity = s
           Target(n) == CHOOSE b \in Range(bindings) : b.name = n
           Held(s) == {a.artifact_identity : a \in Range(Declared(s).artifacts)}
<1>1. /\ input # Malformed /\ ValuesAdmitted(values) /\ BindingsAdmitted(bindings, values)
      /\ st = [values |-> [s \in V |-> Held(s)], names |-> [n \in M |-> Target(n).semantic_identity]]
  BY Zenon DEF PrepareSnapshot
<1>2. /\ values \in Seq(Range(values)) /\ bindings \in Seq(Range(bindings))
      /\ \A v \in Range(values) : v.artifacts \in Seq(Range(v.artifacts))
      /\ \A v \in Range(values) : \A a \in Range(v.artifacts) : a.canonical_bytes \in Artifacts \cup {Junk}
      /\ \A b \in Range(bindings) : b.name \in Names
  BY <1>1, ReplayInputsAreDocuments, Zenon
<1>3. ASSUME NEW v \in Range(values)
      PROVE  /\ v.artifacts # <<>>
             /\ \A a \in Range(v.artifacts) :
                   a.artifact_identity \in Artifacts /\ SemanticOf[a.artifact_identity] = v.semantic_identity
  <2>1. /\ v.artifacts # <<>>
        /\ \A a \in Range(v.artifacts) :
              /\ a.canonical_bytes # Junk
              /\ a.canonical_bytes = a.artifact_identity
              /\ SemanticOf[a.canonical_bytes] = v.semantic_identity
    BY <1>1, Zenon DEF ValuesAdmitted
  <2> QED BY <1>2, <2>1
<1>4. \A b \in Range(bindings) : \E v \in Range(values) : v.semantic_identity = b.semantic_identity
  BY <1>1, Zenon DEF BindingsAdmitted
<1> HIDE DEF values, bindings
<1>5. ASSUME NEW s \in V
      PROVE  Held(s) \subseteq Artifacts /\ IsFiniteSet(Held(s)) /\ Held(s) # {} /\ \A a \in Held(s) : SemanticOf[a] = s
  <2>1. Declared(s) \in Range(values) /\ Declared(s).semantic_identity = s
    OBVIOUS
  <2> DEFINE d == Declared(s)
             items == Range(d.artifacts)
             g == [a \in items |-> a.artifact_identity]
  <2>2. d.artifacts \in Seq(items) /\ d.artifacts # <<>>
    BY <1>2, <1>3, <2>1
  <2>3. \A a \in items : a.artifact_identity \in Artifacts /\ SemanticOf[a.artifact_identity] = s
    BY <1>3, <2>1
  <2> HIDE DEF d
  <2>4. IsFiniteSet(items)
    BY <2>2, FiniteItems
  <2>5. items # {}
    <3>1. Len(d.artifacts) \in Nat /\ Len(d.artifacts) # 0 /\ DOMAIN d.artifacts = 1 .. Len(d.artifacts)
      BY <2>2
    <3>2. 1 \in DOMAIN d.artifacts
      BY <3>1
    <3> QED BY <3>2 DEF Range
  <2> HIDE DEF items
  <2>6. g \in Surjection(items, {a.artifact_identity : a \in items})
    BY DEF Surjection
  <2>7. IsFiniteSet({a.artifact_identity : a \in items})
    BY <2>4, <2>6, FS_Surjection
  <2>8. Held(s) = {a.artifact_identity : a \in items}
    BY DEF items, d
  <2> HIDE DEF Held
  <2> QED BY <2>3, <2>5, <2>7, <2>8
<1>6. IsFiniteSet(V) /\ IsFiniteSet(M)
  <2>1. IsFiniteSet(Range(values)) /\ IsFiniteSet(Range(bindings))
    BY <1>2, FiniteItems
  <2>2. [v \in Range(values) |-> v.semantic_identity] \in Surjection(Range(values), V)
    BY DEF Surjection
  <2>3. [b \in Range(bindings) |-> b.name] \in Surjection(Range(bindings), M)
    BY DEF Surjection
  <2> QED BY <2>1, <2>2, <2>3, FS_Surjection
<1>7. ASSUME NEW n \in M PROVE n \in Names /\ Target(n).semantic_identity \in V
  <2>1. Target(n) \in Range(bindings) /\ Target(n).name = n
    OBVIOUS
  <2> QED BY <1>2, <1>4, <2>1
<1> HIDE DEF V, M, Held, Target
<1>8. st.values = [s \in V |-> Held(s)] /\ st.names = [n \in M |-> Target(n).semantic_identity]
  BY <1>1
<1>9. DOMAIN st.values = V /\ DOMAIN st.names = M
  BY <1>8
<1>10. ValuesSound(st.values)
  BY <1>5, <1>6, <1>8, <1>9 DEF ValuesSound
<1>11. NamesSound(st.names, st.values)
  BY <1>6, <1>7, <1>8, <1>9 DEF NamesSound
<1>12. st = [values |-> st.values, names |-> st.names]
  BY <1>1
<1> QED BY <1>10, <1>11, <1>12 DEF Sound

LEMMA InsertIsSound ==
    ASSUME Sound(store), NEW bytes \in Artifacts \cup {Junk}, Insert(bytes)
    PROVE  Sound(store')
<1> DEFINE s == SemanticOf[bytes]
           held == Variants(store.values, s) \cup {bytes}
           after == Put(store.values, s, held)
<1>1. bytes \in Artifacts /\ store' = [store EXCEPT !.values = after]
  BY DEF Insert
<1>2. store' = [values |-> after, names |-> store.names]
  BY <1>1 DEF Sound
<1>3. after = [y \in DOMAIN store.values \cup {s} |-> IF y = s THEN held ELSE store.values[y]]
  BY DEF Put
<1>4. held \subseteq Artifacts /\ IsFiniteSet(held) /\ held # {} /\ \A a \in held : SemanticOf[a] = s
  <2>1. CASE s \in DOMAIN store.values
    <3>1. held = store.values[s] \cup {bytes}
      BY <2>1 DEF Variants
    <3>2. /\ store.values[s] \subseteq Artifacts /\ IsFiniteSet(store.values[s])
          /\ \A a \in store.values[s] : SemanticOf[a] = s
      BY <2>1 DEF Sound, ValuesSound
    <3>3. IsFiniteSet(store.values[s] \cup {bytes})
      BY <3>2, FS_AddElement
    <3> HIDE DEF held
    <3> QED BY <1>1, <3>1, <3>2, <3>3 DEF s
  <2>2. CASE s \notin DOMAIN store.values
    <3>1. held = {bytes}
      BY <2>2 DEF Variants
    <3>2. IsFiniteSet({bytes})
      BY FS_Singleton
    <3> HIDE DEF held
    <3> QED BY <1>1, <3>1, <3>2 DEF s
  <2> QED BY <2>1, <2>2
<1> HIDE DEF s, held, after
<1>5. DOMAIN after = DOMAIN store.values \cup {s}
  BY <1>3
<1>6. IsFiniteSet(DOMAIN after)
  BY <1>5, FS_AddElement DEF Sound, ValuesSound
<1>7. ValuesSound(after)
  BY <1>3, <1>4, <1>5, <1>6 DEF Sound, ValuesSound
<1>8. NamesSound(store.names, after)
  BY <1>5 DEF Sound, NamesSound
<1> QED BY <1>2, <1>7, <1>8 DEF Sound

LEMMA BindIsSound ==
    ASSUME Sound(store), NEW n \in Names, NEW s, BindName(n, s)
    PROVE  Sound(store')
<1> DEFINE after == Put(store.names, n, s)
<1>1. s \in DOMAIN store.values /\ store' = [store EXCEPT !.names = after]
  BY DEF BindName
<1>2. store' = [values |-> store.values, names |-> after]
  BY <1>1 DEF Sound
<1>3. after = [y \in DOMAIN store.names \cup {n} |-> IF y = n THEN s ELSE store.names[y]]
  BY DEF Put
<1> HIDE DEF after
<1>4. DOMAIN after = DOMAIN store.names \cup {n}
  BY <1>3
<1>5. IsFiniteSet(DOMAIN after)
  BY <1>4, FS_AddElement DEF Sound, NamesSound
<1>6. NamesSound(after, store.values)
  BY <1>1, <1>3, <1>4, <1>5 DEF Sound, NamesSound
<1> QED BY <1>2, <1>6 DEF Sound

StoreSound == Sound(store) /\ (replaying = Nothing \/ Sound(replaying))

LEMMA StoreSoundInit == BuildInit => StoreSound
<1> SUFFICES ASSUME BuildInit PROVE StoreSound
  OBVIOUS
<1>1. store = EmptyStore /\ replaying = Nothing
  BY DEF BuildInit
<1>2. ValuesSound(EmptyStore.values) /\ NamesSound(EmptyStore.names, EmptyStore.values)
  BY FS_EmptySet DEF EmptyStore, ValuesSound, NamesSound
<1> QED BY <1>1, <1>2 DEF StoreSound, Sound, EmptyStore

LEMMA StoreSoundStep == StoreSound /\ [BuildNext]_buildVars => StoreSound'
<1> SUFFICES ASSUME StoreSound, [BuildNext]_buildVars PROVE StoreSound'
  OBVIOUS
<1> USE DEF StoreSound
<1>1. ASSUME NEW bytes \in Artifacts \cup {Junk}, Insert(bytes) PROVE StoreSound'
  BY <1>1, InsertIsSound DEF Insert
<1>2. ASSUME NEW n \in Names, NEW s \in Identities, BindName(n, s) PROVE StoreSound'
  BY <1>2, BindIsSound DEF BindName
<1>3. ASSUME NEW input \in ReplayInputs \cup {SnapshotState(store)}, BeginReplay(input) PROVE StoreSound'
  <2>1. replaying' \in PrepareSnapshot(input) /\ store' = store
    BY <1>3 DEF BeginReplay
  <2>2. CASE input \in ReplayInputs
    BY <2>1, <2>2, PreparedIsSound
  <2>3. CASE input = SnapshotState(store)
    <3>1. WithinReplayBounds(input)
      BY <2>1, Zenon DEF PrepareSnapshot
    <3> QED BY <2>1, <2>3, <3>1, SnapshotReplays
  <2> QED BY <1>3, <2>2, <2>3
<1>4. ASSUME FinishReplay PROVE StoreSound'
  BY <1>4 DEF FinishReplay
<1>5. ASSUME UNCHANGED <<store, replaying>> PROVE StoreSound'
  BY <1>5
<1> QED BY <1>1, <1>2, <1>3, <1>4, <1>5 DEF BuildNext, Analyze, TakeSnapshot, Build, buildVars

LEMMA StoreSoundAlways == BuildSpec => []StoreSound
<1> QED BY StoreSoundInit, StoreSoundStep, PTL DEF BuildSpec

(* Whatever the order of inserts, bindings and replays, no name dangles, every *)
(* variant is stored under the value it validates to, and a snapshot of the    *)
(* store within the bounds replays to the very same store.                     *)
THEOREM StoreIsClosedHolds == BuildSpec => []StoreIsClosed
<1>1. StoreSound => StoreIsClosed
  <2> SUFFICES ASSUME Sound(store) PROVE StoreIsClosed
    BY DEF StoreSound
  <2>1. Range(store.names) \subseteq DOMAIN store.values
    BY DEF Sound, NamesSound, Range
  <2>2. \A s \in DOMAIN store.values :
           store.values[s] # {} /\ \A a \in store.values[s] : SemanticOf[a] = s
    BY DEF Sound, ValuesSound
  <2> QED BY <2>1, <2>2, SnapshotReplays DEF StoreIsClosed
<1> QED BY <1>1, StoreSoundAlways, PTL

(* ---- the traversal --------------------------------------------------------- *)
(* Every set of naturals has a least element: induction, as a fact about sets. *)
LEMMA LeastOf == ASSUME NEW S \in SUBSET Nat, S # {} PROVE \E n \in S : \A m \in S : n <= m
<1> DEFINE R == OpToRel(<, Nat)
<1>1. IsWellFoundedOn(R, Nat)
  BY NatLessThanWellFounded
<1>2. \A a, b \in Nat : <<a, b>> \in R <=> a < b
  BY DEF OpToRel
<1> HIDE DEF R
<1>3. PICK n \in S : \A m \in S : ~(<<m, n>> \in R)
  BY <1>1, WFMin, Zenon
<1>4. ASSUME NEW m \in S PROVE n <= m
  <2>1. ~(<<m, n>> \in R) /\ m \in Nat /\ n \in Nat
    BY <1>3
  <2> QED BY <1>2, <2>1
<1> QED BY <1>4

(* The turns of the loop, up to the n-th.                                     *)
Start(root) == [pending |-> <<root>>, visited |-> {}]
Traversal(graph, root, n, f) ==
    f = [k \in 0 .. n |-> IF k = 0 THEN Start(root) ELSE Turn(graph, f[k - 1])]

LEMMA TraversalRuns ==
    ASSUME NEW graph, NEW root, NEW n \in Nat, NEW f, Traversal(graph, root, n, f)
    PROVE  f[0] = Start(root) /\ \A k \in 1 .. n : f[k] = Turn(graph, f[k - 1])
<1> DEFINE g == [k \in 0 .. n |-> IF k = 0 THEN Start(root) ELSE Turn(graph, f[k - 1])]
<1>1. f = g
  BY DEF Traversal
<1>2. g[0] = Start(root)
  OBVIOUS
<1>3. ASSUME NEW k \in 1 .. n PROVE g[k] = Turn(graph, f[k - 1])
  <2>1. k \in 0 .. n /\ k # 0
    OBVIOUS
  <2> QED BY <2>1
<1> HIDE DEF g
<1> QED BY <1>1, <1>2, <1>3

LEMMA TraversalExtends ==
    ASSUME NEW graph, NEW root, NEW n \in Nat, NEW f, Traversal(graph, root, n, f)
    PROVE  \E g : Traversal(graph, root, n + 1, g)
<1> DEFINE last == Turn(graph, f[n])
           g == [k \in 0 .. n + 1 |-> IF k = n + 1 THEN last ELSE f[k]]
           h == [k \in 0 .. n + 1 |-> IF k = 0 THEN Start(root) ELSE Turn(graph, g[k - 1])]
<1>1. ASSUME NEW k \in 0 .. n + 1 PROVE g[k] = h[k]
  <2>1. CASE k = 0
    <3>1. g[k] = f[0] /\ h[k] = Start(root)
      BY <2>1
    <3>2. f[0] = Start(root)
      BY TraversalRuns, Zenon
    <3> QED BY <3>1, <3>2
  <2>2. CASE k = n + 1
    <3>1. g[k] = last /\ k # 0 /\ k - 1 = n /\ k - 1 \in 0 .. n + 1 /\ k - 1 # n + 1
      BY <2>2
    <3>2. g[k - 1] = f[n]
      BY <3>1
    <3>3. h[k] = Turn(graph, g[k - 1])
      BY <3>1
    <3> QED BY <2>2, <3>1, <3>2, <3>3, Zenon
  <2>3. CASE k \in 1 .. n
    <3>1. k # n + 1 /\ k # 0 /\ k - 1 \in 0 .. n + 1 /\ k - 1 # n + 1
      BY <2>3
    <3>2. g[k] = f[k] /\ g[k - 1] = f[k - 1]
      BY <3>1
    <3>3. h[k] = Turn(graph, g[k - 1])
      BY <3>1
    <3>4. f[k] = Turn(graph, f[k - 1])
      BY <2>3, TraversalRuns
    <3> QED BY <3>2, <3>3, <3>4
  <2> QED BY <2>1, <2>2, <2>3
<1>2. g = h
  BY <1>1
<1>3. Traversal(graph, root, n + 1, g)
  BY <1>2 DEF Traversal
<1> QED BY <1>3

LEMMA TraversalExists == ASSUME NEW graph, NEW root, NEW n \in Nat PROVE \E f : Traversal(graph, root, n, f)
<1> DEFINE Bad == {k \in Nat : ~\E f : Traversal(graph, root, k, f)}
<1>1. ASSUME Bad # {} PROVE FALSE
  <2>1. Bad \in SUBSET Nat
    OBVIOUS
  <2>2. PICK k \in Bad : \A j \in Bad : k <= j
    <3> HIDE DEF Bad
    <3> QED BY <1>1, <2>1, LeastOf
  <2>3. k # 0
    <3> DEFINE f == [j \in 0 .. 0 |-> Start(root)]
               g == [j \in 0 .. 0 |-> IF j = 0 THEN Start(root) ELSE Turn(graph, f[j - 1])]
    <3>1. f = g
      OBVIOUS
    <3>2. Traversal(graph, root, 0, f)
      BY <3>1 DEF Traversal
    <3> QED BY <2>2, <3>2
  <2>4. k - 1 \in Nat /\ k - 1 \notin Bad /\ k = (k - 1) + 1
    <3>1. k \in Nat /\ ~(k <= k - 1)
      BY <2>2
    <3> QED BY <2>2, <2>3, <3>1
  <2>5. PICK f : Traversal(graph, root, k - 1, f)
    BY <2>4
  <2>6. \E g : Traversal(graph, root, k, g)
    BY <2>4, <2>5, TraversalExtends
  <2> QED BY <2>2, <2>6
<1> QED BY <1>1

(* A graph that validation lets through: finite, closed, with its root.       *)
GraphSound(graph, root) ==
    /\ IsFiniteSet(DOMAIN graph) /\ root \in DOMAIN graph
    /\ \A s \in DOMAIN graph : graph[s] \subseteq DOMAIN graph

(* What was met and what is on the stack: together they hold the root and     *)
(* whatever a value already met needs, and nothing that the root does not.    *)
Frontier(at) == at.visited \cup Range(at.pending)
Exploring(graph, root, at) ==
    /\ at = [pending |-> at.pending, visited |-> at.visited]
    /\ at.pending \in Seq(DOMAIN graph) /\ at.visited \subseteq DOMAIN graph
    /\ root \in Frontier(at)
    /\ \A s \in at.visited : graph[s] \subseteq Frontier(at)
    /\ \A S \in SUBSET DOMAIN graph : root \in S /\ ClosedUnder(graph, S) => Frontier(at) \subseteq S

(* How long the loop can still go on.                                         *)
Left(graph, at) ==
    LET N == Cardinality(DOMAIN graph) IN (N - Cardinality(at.visited)) * (N + 1) + Len(at.pending)

LEMMA Popped ==
    ASSUME NEW D, NEW q \in Seq(D), q # <<>>
    PROVE  /\ Front(q) \in Seq(D) /\ Len(Front(q)) = Len(q) - 1 /\ Last(q) \in D
           /\ Range(q) = Range(Front(q)) \cup {Last(q)}
<1>1. Len(q) \in Nat /\ Len(q) >= 1 /\ DOMAIN q = 1 .. Len(q)
  OBVIOUS
<1>2. /\ Front(q) \in Seq(D) /\ Len(Front(q)) = Len(q) - 1
      /\ \A i \in 1 .. Len(q) - 1 : Front(q)[i] = q[i]
  BY <1>1 DEF Front
<1>3. DOMAIN Front(q) = 1 .. Len(q) - 1
  BY <1>2
<1>4. Last(q) = q[Len(q)] /\ Last(q) \in D
  BY <1>1 DEF Last
<1>5. \A i \in 1 .. Len(q) : i = Len(q) \/ i \in 1 .. Len(q) - 1
  <2>1. \A k \in Nat : \A i \in 1 .. k : i = k \/ i \in 1 .. k - 1
    OBVIOUS
  <2>2. Len(q) \in Nat
    BY <1>1
  <2> QED BY <2>1, <2>2, Zenon
<1>6. \A i \in 1 .. Len(q) - 1 : i \in 1 .. Len(q)
  BY <1>1
<1>7. ASSUME NEW x \in Range(q) PROVE x \in Range(Front(q)) \cup {Last(q)}
  <2>1. PICK i \in 1 .. Len(q) : x = q[i]
    BY <1>1 DEF Range
  <2> QED BY <1>2, <1>3, <1>4, <1>5, <2>1 DEF Range
<1>8. ASSUME NEW x \in Range(Front(q)) \cup {Last(q)} PROVE x \in Range(q)
  <2>1. CASE x = Last(q)
    BY <1>1, <1>4, <2>1 DEF Range
  <2>2. CASE x \in Range(Front(q))
    <3>1. PICK i \in 1 .. Len(q) - 1 : x = Front(q)[i]
      BY <1>3, <2>2 DEF Range
    <3> QED BY <1>1, <1>2, <1>6, <3>1 DEF Range
  <2> QED BY <1>8, <2>1, <2>2
<1> QED BY <1>2, <1>4, <1>7, <1>8

LEMMA Joined ==
    ASSUME NEW D, NEW p \in Seq(D), NEW q \in Seq(D)
    PROVE  p \o q \in Seq(D) /\ Len(p \o q) = Len(p) + Len(q) /\ Range(p \o q) = Range(p) \cup Range(q)
<1>1. /\ p \o q \in Seq(D) /\ Len(p \o q) = Len(p) + Len(q)
      /\ \A i \in 1 .. Len(p) : (p \o q)[i] = p[i]
      /\ \A i \in 1 .. Len(q) : (p \o q)[Len(p) + i] = q[i]
  OBVIOUS
<1>2. Len(p) \in Nat /\ Len(q) \in Nat /\ DOMAIN p = 1 .. Len(p) /\ DOMAIN q = 1 .. Len(q)
  OBVIOUS
<1>3. DOMAIN (p \o q) = 1 .. Len(p) + Len(q)
  <2>1. PICK r \in Seq(D) : r = p \o q /\ Len(r) = Len(p) + Len(q)
    BY <1>1, Zenon
  <2>2. DOMAIN r = 1 .. Len(r)
    OBVIOUS
  <2> QED BY <2>1, <2>2
<1>4. ASSUME NEW i \in 1 .. Len(p) + Len(q) PROVE (p \o q)[i] \in Range(p) \cup Range(q)
  <2>1. CASE i \in 1 .. Len(p)
    BY <1>1, <1>2, <2>1 DEF Range
  <2>2. CASE i \notin 1 .. Len(p)
    <3>1. i - Len(p) \in 1 .. Len(q) /\ i = Len(p) + (i - Len(p))
      BY <1>2, <2>2
    <3>2. (p \o q)[i] = q[i - Len(p)]
      BY <1>1, <3>1
    <3> QED BY <1>2, <3>1, <3>2 DEF Range
  <2> QED BY <2>1, <2>2
<1>5. ASSUME NEW x \in Range(p) \cup Range(q) PROVE \E i \in 1 .. Len(p) + Len(q) : (p \o q)[i] = x
  <2>1. CASE x \in Range(p)
    <3>1. PICK i \in 1 .. Len(p) : p[i] = x
      BY <1>2, <2>1 DEF Range
    <3>2. i \in 1 .. Len(p) + Len(q)
      BY <1>2
    <3> QED BY <1>1, <3>1, <3>2
  <2>2. CASE x \in Range(q)
    <3>1. PICK i \in 1 .. Len(q) : q[i] = x
      BY <1>2, <2>2 DEF Range
    <3>2. Len(p) + i \in 1 .. Len(p) + Len(q)
      BY <1>2
    <3> QED BY <1>1, <3>1, <3>2
  <2> QED BY <1>5, <2>1, <2>2
<1>6. Range(p \o q) = Range(p) \cup Range(q)
  <2>1. Range(p \o q) = {(p \o q)[i] : i \in 1 .. Len(p) + Len(q)}
    BY <1>3 DEF Range
  <2> QED BY <1>4, <1>5, <2>1
<1> QED BY <1>1, <1>6

LEMMA Spare ==
    ASSUME NEW c \in Nat, NEW N \in Nat
    PROVE  c * (N + 1) \in Nat /\ (c > 0 => (c - 1) * (N + 1) = c * (N + 1) - (N + 1))
<1> QED BY SMT

(* A turn keeps what is known of the stack and brings the end nearer.         *)
LEMMA TurnExplores ==
    ASSUME NEW graph, NEW root, GraphSound(graph, root), NEW at, Exploring(graph, root, at),
           at.pending # <<>>
    PROVE  LET next == Turn(graph, at)
           IN /\ Exploring(graph, root, next)
              /\ Left(graph, at) \in Nat /\ Left(graph, next) \in Nat /\ Left(graph, next) < Left(graph, at)
<1> DEFINE D == DOMAIN graph
           s == Last(at.pending)
           rest == Front(at.pending)
           seen == at.visited \cup {s}
           fresh == graph[s] \ seen
           next == Turn(graph, at)
<1>1. /\ rest \in Seq(D) /\ Len(rest) = Len(at.pending) - 1 /\ s \in D
      /\ Range(at.pending) = Range(rest) \cup {s} /\ Len(rest) \in Nat /\ Len(at.pending) \in Nat
  BY Popped DEF Exploring
<1>2. PICK N \in Nat : N = Cardinality(D)
  BY FS_CardinalityType DEF GraphSound
<1>3. ASSUME NEW S \in SUBSET D PROVE IsFiniteSet(S) /\ Cardinality(S) \in Nat /\ Cardinality(S) <= N
  BY <1>2, FS_Subset, FS_CardinalityType DEF GraphSound
<1>4. at.visited \subseteq D /\ seen \subseteq D /\ fresh \subseteq D
  BY <1>1 DEF Exploring, GraphSound
<1>5. PICK c \in Nat : c = N - Cardinality(at.visited)
  BY <1>2, <1>3, <1>4
<1>6. Left(graph, at) = c * (N + 1) + Len(at.pending) /\ Left(graph, at) \in Nat
  BY <1>1, <1>2, <1>5, Spare DEF Left
<1> HIDE DEF s, rest, next
<1>7. CASE s \in at.visited
  <2>1. next = [at EXCEPT !.pending = rest]
    BY <1>7 DEF next, s, rest, Turn
  <2>2. next = [pending |-> rest, visited |-> at.visited]
    BY <2>1 DEF Exploring
  <2>3. Frontier(next) = Frontier(at)
    BY <1>1, <1>7, <2>2 DEF Frontier
  <2>4. Exploring(graph, root, next)
    BY <1>1, <2>2, <2>3 DEF Exploring
  <2>5. Left(graph, next) = c * (N + 1) + Len(rest) /\ c * (N + 1) \in Nat
    BY <1>2, <1>5, <2>2, Spare DEF Left
  <2>6. Left(graph, next) \in Nat /\ Left(graph, next) < Left(graph, at)
    <3> HIDE DEF rest
    <3>1. PICK w \in Nat, m \in Nat, k \in Nat : w = c * (N + 1) /\ m = Len(rest) /\ k = Len(at.pending)
      BY <1>1, <2>5
    <3>2. Left(graph, next) = w + m /\ Left(graph, at) = w + k /\ m = k - 1
      BY <1>1, <1>6, <2>5, <3>1
    <3> QED BY <3>2
  <2> QED BY <1>6, <2>4, <2>6, Zenon DEF next
<1>8. CASE s \notin at.visited
  <2> DEFINE list == SetToSeq(fresh)
  <2>1. next = [pending |-> rest \o list, visited |-> seen]
    BY <1>8 DEF next, s, rest, Turn
  <2>2. IsFiniteSet(fresh) /\ Cardinality(fresh) \in Nat /\ Cardinality(fresh) <= N
    BY <1>3, <1>4
  <2>3. list \in Seq(fresh) /\ Len(list) = Cardinality(fresh) /\ Range(list) = fresh
    <3>1. /\ list \in Seq(fresh) /\ Len(list) = Cardinality(fresh)
          /\ list \in [1 .. Cardinality(fresh) -> fresh]
          /\ \A x \in fresh : \E i \in 1 .. Cardinality(fresh) : list[i] = x
      BY <2>2, ListOf
    <3> HIDE DEF list, fresh
    <3> QED BY <3>1 DEF Range
  <2>4. list \in Seq(D)
    <3> HIDE DEF list, fresh
    <3> QED BY <1>4, <2>3
  <2> HIDE DEF list, fresh, seen
  <2>5. /\ rest \o list \in Seq(D) /\ Len(rest \o list) = Len(rest) + Cardinality(fresh)
        /\ Range(rest \o list) = Range(rest) \cup fresh
    BY <1>1, <2>3, <2>4, Joined
  <2>6. Frontier(next) = Frontier(at) \cup graph[s]
    BY <1>1, <2>1, <2>5 DEF Frontier, seen, fresh
  <2>7. ASSUME NEW x \in seen PROVE graph[x] \subseteq Frontier(next)
    BY <2>6, <2>7 DEF seen, Exploring
  <2>8. ASSUME NEW S \in SUBSET D, root \in S, ClosedUnder(graph, S) PROVE Frontier(next) \subseteq S
    <3>1. Frontier(at) \subseteq S
      BY <2>8 DEF Exploring
    <3>2. s \in S
      BY <1>1, <3>1 DEF Frontier
    <3> QED BY <2>6, <2>8, <3>1, <3>2 DEF ClosedUnder
  <2>9. Exploring(graph, root, next)
    <3>1. root \in Frontier(next)
      BY <2>6 DEF Exploring
    <3> QED BY <1>4, <2>1, <2>5, <2>7, <2>8, <3>1 DEF Exploring
  <2>10. Cardinality(seen) = Cardinality(at.visited) + 1 /\ Cardinality(seen) <= N
    BY <1>3, <1>4, <1>8, FS_AddElement DEF seen
  <2>11. c > 0 /\ c - 1 \in Nat /\ N - Cardinality(seen) = c - 1
    BY <1>3, <1>4, <1>5, <2>10
  <2>12. Left(graph, next) = (c - 1) * (N + 1) + (Len(rest) + Cardinality(fresh))
    BY <1>2, <2>1, <2>5, <2>11 DEF Left
  <2>13. PICK w \in Nat : w = c * (N + 1) /\ (c - 1) * (N + 1) = w - (N + 1) /\ (c - 1) * (N + 1) \in Nat
    BY <2>11, Spare
  <2>14. Left(graph, next) \in Nat /\ Left(graph, next) < Left(graph, at)
    <3>1. PICK m \in Nat, k \in Nat, e \in Nat :
              m = Len(rest) /\ k = Len(at.pending) /\ e = Cardinality(fresh) /\ m = k - 1 /\ e <= N
      BY <1>1, <2>2
    <3>2. PICK v \in Nat : v = (c - 1) * (N + 1) /\ v = w - (N + 1)
      BY <2>13
    <3>3. Left(graph, next) = v + (m + e) /\ Left(graph, at) = w + k
      BY <1>6, <2>12, <2>13, <3>1, <3>2
    <3> QED BY <3>1, <3>2, <3>3
  <2> QED BY <1>6, <2>9, <2>14, Zenon DEF next
<1> QED BY <1>7, <1>8

(* The traversal, cut off after its turns, finds exactly what the root needs: *)
(* of a finite closed graph, the values in every set closed under dependency. *)
THEOREM ClosureIsNeeded ==
    ASSUME NEW graph, NEW root, GraphSound(graph, root)
    PROVE  /\ DeriveClosure(graph, root) = Needed(graph, root)
           /\ DeriveClosure(graph, root) \subseteq DOMAIN graph
<1>1. PICK N \in Nat : N = Cardinality(DOMAIN graph)
  BY FS_CardinalityType DEF GraphSound
<1>2. PICK T \in Nat : T = Turns(graph) /\ T = N * (N + 1) + 1
  BY <1>1, Spare DEF Turns
<1>3. PICK f : Traversal(graph, root, T, f) /\ DeriveClosure(graph, root) = f[T].visited
  <2>1. \E f : Traversal(graph, root, T, f)
    BY TraversalExists
  <2>2. DeriveClosure(graph, root) = (CHOOSE f : Traversal(graph, root, T, f))[T].visited
    BY <1>2, Zenon DEF DeriveClosure, Traversal, Start
  <2> QED BY <2>1, <2>2
<1> DEFINE Good(k) == Exploring(graph, root, f[k]) /\ (f[k].pending = <<>> \/ Left(graph, f[k]) + k <= T)
           Bad == {k \in 0 .. T : ~Good(k)}
<1>4. Good(0)
  <2>1. f[0] = Start(root)
    BY <1>3, TraversalRuns
  <2>2. Exploring(graph, root, Start(root))
    BY DEF Exploring, Start, Frontier, Range, GraphSound
  <2>3. Left(graph, Start(root)) = T
    <3>1. Cardinality({}) = 0
      BY FS_EmptySet
    <3>2. Left(graph, Start(root)) = (N - 0) * (N + 1) + 1
      BY <1>1, <3>1 DEF Left, Start
    <3> QED BY <1>2, <3>2
  <2> QED BY <1>2, <2>1, <2>2, <2>3
<1>5. ASSUME Bad # {} PROVE FALSE
  <2>1. PICK k \in Bad : \A j \in Bad : k <= j
    <3>1. Bad \in SUBSET Nat
      OBVIOUS
    <3> HIDE DEF Bad
    <3> QED BY <1>5, <3>1, LeastOf
  <2>2. k \in 1 .. T /\ k - 1 \in 0 .. T /\ k - 1 \in Nat
    BY <1>4, <2>1
  <2>3. Good(k - 1)
    <3>1. ~(k <= k - 1)
      BY <2>2
    <3> HIDE DEF Good
    <3> QED BY <2>1, <2>2, <3>1
  <2>4. f[k] = Turn(graph, f[k - 1])
    BY <1>3, <2>2, TraversalRuns
  <2>5. CASE f[k - 1].pending = <<>>
    <3>1. f[k] = f[k - 1]
      BY <2>4, <2>5 DEF Turn
    <3> QED BY <2>1, <2>3, <2>5, <3>1
  <2>6. CASE f[k - 1].pending # <<>>
    <3>1. /\ Exploring(graph, root, f[k]) /\ Left(graph, f[k]) < Left(graph, f[k - 1])
          /\ Left(graph, f[k]) \in Nat /\ Left(graph, f[k - 1]) \in Nat
      BY <2>3, <2>4, <2>6, TurnExplores
    <3>2. Left(graph, f[k]) + k <= T
      BY <2>2, <2>3, <2>6, <3>1
    <3> QED BY <2>1, <3>1, <3>2
  <2> QED BY <2>5, <2>6
<1>6. Good(T)
  <2>1. T \in 0 .. T
    OBVIOUS
  <2> HIDE DEF Good
  <2> QED BY <1>5, <2>1
<1> DEFINE at == f[T]
<1>7. Exploring(graph, root, at)
  BY <1>6
<1>8. at.pending = <<>>
  <2> SUFFICES ASSUME at.pending # <<>> PROVE FALSE
    OBVIOUS
  <2>1. Left(graph, at) + T <= T
    BY <1>6
  <2>2. /\ Left(graph, at) \in Nat /\ Left(graph, Turn(graph, at)) \in Nat
        /\ Left(graph, Turn(graph, at)) < Left(graph, at)
    BY <1>7, TurnExplores
  <2> QED BY <2>1, <2>2
<1> HIDE DEF at
<1>9. Frontier(at) = at.visited
  BY <1>8 DEF Frontier, Range
<1>10. at.visited \in SUBSET DOMAIN graph /\ root \in at.visited /\ ClosedUnder(graph, at.visited)
  BY <1>7, <1>9 DEF Exploring, ClosedUnder
<1>11. \A S \in SUBSET DOMAIN graph : root \in S /\ ClosedUnder(graph, S) => at.visited \subseteq S
  BY <1>7, <1>9 DEF Exploring
<1>12. Needed(graph, root) = at.visited
  BY <1>10, <1>11 DEF Needed
<1> QED BY <1>3, <1>10, <1>12 DEF at

(* ---- what is built --------------------------------------------------------- *)
(* What a builder holds was derived from a graph that validation let through. *)
Derived(receipt) == \E graph, root : GraphSound(graph, root) /\ receipt = Receipt(graph, root)
Built(manifest) ==
    \E graph, root, members :
        /\ GraphSound(graph, root)
        /\ members = [s \in DeriveClosure(graph, root) |-> members[s]]
        /\ manifest = Manifest(Receipt(graph, root), members)
DeskSound ==
    /\ desk.stage \in {"receipt", "snapshot"} => Derived(desk.receipt)
    /\ desk.stage = "manifest" => Built(desk.manifest)

LEMMA StoredValues ==
    ASSUME NEW st, Sound(st) PROVE StoredIn(SnapshotState(st)) = DOMAIN st.values
<1>1. Range(SnapshotState(st).semantic_values) = {EntryOf(st.values, s) : s \in DOMAIN st.values}
  BY SnapshotFacts, Zenon
<1>2. \A s : EntryOf(st.values, s).semantic_identity = s
  BY DEF EntryOf
<1> QED BY <1>1, <1>2 DEF StoredIn

LEMMA ValidIsSound ==
    ASSUME NEW st, Sound(st), NEW graph, NEW root, UniverseValid(graph, root, SnapshotState(st))
    PROVE  GraphSound(graph, root)
<1>1. DOMAIN graph \subseteq DOMAIN st.values /\ root \in DOMAIN graph /\ UNION Range(graph) \subseteq DOMAIN graph
  BY StoredValues DEF UniverseValid
<1>2. IsFiniteSet(DOMAIN graph)
  BY <1>1, FS_Subset DEF Sound, ValuesSound
<1>3. ASSUME NEW s \in DOMAIN graph PROVE graph[s] \subseteq DOMAIN graph
  BY <1>1 DEF Range
<1> QED BY <1>1, <1>2, <1>3 DEF GraphSound

LEMMA AnalyzeIsSound == ASSUME StoreSound, NEW declared, Analyze(declared) PROVE DeskSound'
<1>1. PICK receipt \in AnalyzeJson(declared, SnapshotState(store)) : desk' = [stage |-> "receipt", receipt |-> receipt]
  BY DEF Analyze
<1>2. PICK graph : UniverseValid(graph, declared.root, SnapshotState(store)) /\ receipt = Receipt(graph, declared.root)
  BY <1>1, Zenon DEF AnalyzeJson
<1>3. Derived(receipt)
  BY <1>2, ValidIsSound, Zenon DEF StoreSound, Derived
<1>4. desk'.stage = "receipt" /\ desk'.receipt = receipt
  BY <1>1
<1> QED BY <1>3, <1>4 DEF DeskSound

LEMMA BuildIsSound == ASSUME DeskSound, NEW selection, Build(selection) PROVE DeskSound'
<1>1. PICK manifest \in BuildRuntimeClosure(desk.snapshot, desk.receipt, selection) :
          desk.stage = "snapshot" /\ desk' = [stage |-> "manifest", manifest |-> manifest]
  BY DEF Build
<1>2. PICK snapshot, chosen : /\ chosen \in NormalizeSelection(selection, desk.receipt, snapshot)
                             /\ manifest = Manifest(desk.receipt, chosen)
  BY <1>1, Zenon DEF BuildRuntimeClosure, AssembledClosure
<1>3. PICK graph, root : GraphSound(graph, root) /\ desk.receipt = Receipt(graph, root)
  BY <1>1 DEF DeskSound, Derived
<1>4. desk.receipt.reachable = DeriveClosure(graph, root)
  BY <1>3 DEF Receipt
<1>5. chosen = [s \in DeriveClosure(graph, root) |-> (CHOOSE m \in Range(selection) : m.semantic = s).artifact]
  BY <1>2, <1>4, Zenon DEF NormalizeSelection
<1>6. chosen = [s \in DeriveClosure(graph, root) |-> chosen[s]]
  BY <1>5
<1>7. Built(manifest)
  BY <1>2, <1>3, <1>6, Zenon DEF Built
<1>8. desk'.stage = "manifest" /\ desk'.manifest = manifest
  BY <1>1
<1> QED BY <1>7, <1>8 DEF DeskSound

LEMMA DeskSoundAlways == BuildSpec => []DeskSound
<1>1. BuildInit => DeskSound
  BY DEF BuildInit, DeskSound
<1>2. StoreSound /\ DeskSound /\ [BuildNext]_buildVars => DeskSound'
  <2> SUFFICES ASSUME StoreSound, DeskSound, [BuildNext]_buildVars PROVE DeskSound'
    OBVIOUS
  <2>1. ASSUME UNCHANGED desk PROVE DeskSound'
    BY <2>1 DEF DeskSound
  <2>2. ASSUME NEW declared \in Graphs, Analyze(declared) PROVE DeskSound'
    BY <2>2, AnalyzeIsSound
  <2>3. ASSUME TakeSnapshot PROVE DeskSound'
    <3>1. /\ desk.stage = "receipt"
          /\ desk' = [stage |-> "snapshot", receipt |-> desk.receipt, snapshot |-> SnapshotState(store)]
      BY <2>3 DEF TakeSnapshot
    <3> DEFINE now == SnapshotState(store)
    <3> HIDE DEF now
    <3>2. desk' = [stage |-> "snapshot", receipt |-> desk.receipt, snapshot |-> now]
      BY <3>1 DEF now
    <3>3. desk'.stage = "snapshot" /\ desk'.receipt = desk.receipt
      BY <3>2
    <3> QED BY <3>1, <3>3 DEF DeskSound
  <2>4. ASSUME NEW selection \in Selections, Build(selection) PROVE DeskSound'
    BY <2>4, BuildIsSound
  <2> QED BY <2>1, <2>2, <2>3, <2>4 DEF BuildNext, Insert, BindName, BeginReplay, FinishReplay, buildVars
<1> QED BY <1>1, <1>2, StoreSoundAlways, PTL DEF BuildSpec

(* The members as a selection, each value once, under the variant they name.  *)
Member(members, s) == [semantic |-> s, artifact |-> members[s]]

LEMMA MemberSeqFacts ==
    ASSUME NEW members, IsFiniteSet(DOMAIN members)
    PROVE  /\ Range(MemberSeq(members)) = {Member(members, s) : s \in DOMAIN members}
           /\ Distinct(MemberSeq(members), LAMBDA m : m.semantic)
<1> DEFINE order == SetToSeq(DOMAIN members)
           n == Cardinality(DOMAIN members)
           list == MemberSeq(members)
<1>1. /\ n \in Nat /\ order \in [1 .. n -> DOMAIN members]
      /\ \A i, j \in 1 .. n : order[i] = order[j] => i = j
      /\ \A x \in DOMAIN members : \E i \in 1 .. n : order[i] = x
  BY ListOf
<1>2. list = [i \in DOMAIN order |-> Member(members, order[i])]
  BY DEF MemberSeq, Member
<1> HIDE DEF order, n, list
<1>3. list = [i \in 1 .. n |-> Member(members, order[i])]
  BY <1>1, <1>2
<1>4. Range(list) = {Member(members, s) : s \in DOMAIN members}
  BY <1>1, <1>3 DEF Range
<1>5. Len(list) = n /\ DOMAIN list = 1 .. n
  BY <1>1, <1>3
<1>6. Distinct(list, LAMBDA m : m.semantic)
  <2>1. Cardinality({order[i] : i \in 1 .. n}) = n
    BY <1>1, KeysCount
  <2>2. \A i \in 1 .. n : list[i].semantic = order[i]
    BY <1>3 DEF Member
  <2>3. {list[i].semantic : i \in DOMAIN list} = {order[i] : i \in 1 .. n}
    BY <1>5, <2>2
  <2> QED BY <1>5, <2>1, <2>3 DEF Distinct
<1> QED BY <1>4, <1>6 DEF list

(* The state without its names, which is what a private store replays.        *)
Bare(st) == [values |-> st.values, names |-> EmptyStore.names]

LEMMA BareIsSound ==
    ASSUME NEW st, Sound(st)
    PROVE  Sound(Bare(st)) /\ [SnapshotState(st) EXCEPT !.name_bindings = <<>>] = SnapshotState(Bare(st))
<1>1. Bare(st).values = st.values /\ DOMAIN Bare(st).names = {} /\ Bare(st).names = [n \in {} |-> Nothing]
  BY DEF Bare, EmptyStore
<1>2. NamesSound(Bare(st).names, st.values)
  BY <1>1, FS_EmptySet DEF NamesSound
<1>3. Sound(Bare(st))
  BY <1>1, <1>2 DEF Sound, Bare
<1> DEFINE entries == [i \in DOMAIN SetToSeq(DOMAIN st.values) |-> EntryOf(st.values, SetToSeq(DOMAIN st.values)[i])]
           bindings == [i \in DOMAIN SetToSeq(DOMAIN st.names) |->
                           BindingOf(st.names, SetToSeq(DOMAIN st.names)[i])]
           none == [i \in DOMAIN SetToSeq(DOMAIN Bare(st).names) |->
                        BindingOf(Bare(st).names, SetToSeq(DOMAIN Bare(st).names)[i])]
<1>4. SnapshotState(st) = [semantic_values |-> entries, name_bindings |-> bindings]
  BY SnapshotIs
<1>5. SnapshotState(Bare(st)) = [semantic_values |-> entries, name_bindings |-> none]
  BY <1>1, SnapshotIs
<1>6. none = <<>>
  <2>1. SetToSeq(DOMAIN Bare(st).names) = <<>>
    BY <1>1, ListOfNothing
  <2> QED BY <2>1
<1> HIDE DEF entries, bindings, none
<1> QED BY <1>3, <1>4, <1>5, <1>6

LEMMA StoredVariantIs ==
    ASSUME NEW st, Sound(st), NEW m
    PROVE  StoredVariant(SnapshotState(st), m) <=>
               m.semantic \in DOMAIN st.values /\ m.artifact \in st.values[m.semantic]
<1>1. Range(SnapshotState(st).semantic_values) = {EntryOf(st.values, s) : s \in DOMAIN st.values}
  BY SnapshotFacts, Zenon
<1>2. ASSUME NEW s \in DOMAIN st.values
      PROVE  /\ EntryOf(st.values, s).semantic_identity = s
             /\ (\E a \in Range(EntryOf(st.values, s).artifacts) : a.artifact_identity = m.artifact)
                   <=> m.artifact \in st.values[s]
  <2>1. /\ EntryOf(st.values, s).semantic_identity = s
        /\ Range(EntryOf(st.values, s).artifacts) = {Document(a) : a \in st.values[s]}
    BY EntryFacts, Zenon DEF Sound
  <2>2. \A a : Document(a).artifact_identity = a
    BY DEF Document
  <2> QED BY <2>1, <2>2, Zenon
<1>3. ASSUME StoredVariant(SnapshotState(st), m)
      PROVE  m.semantic \in DOMAIN st.values /\ m.artifact \in st.values[m.semantic]
  <2>1. PICK v \in Range(SnapshotState(st).semantic_values) :
            v.semantic_identity = m.semantic /\ \E a \in Range(v.artifacts) : a.artifact_identity = m.artifact
    BY <1>3, Zenon DEF StoredVariant
  <2>2. PICK s \in DOMAIN st.values : v = EntryOf(st.values, s)
    BY <1>1, <2>1, Zenon
  <2> QED BY <1>2, <2>1, <2>2, Zenon
<1>4. ASSUME m.semantic \in DOMAIN st.values, m.artifact \in st.values[m.semantic]
      PROVE  StoredVariant(SnapshotState(st), m)
  <2>1. EntryOf(st.values, m.semantic) \in Range(SnapshotState(st).semantic_values)
    BY <1>1, <1>4, Zenon
  <2> QED BY <1>2, <1>4, <2>1, Zenon DEF StoredVariant
<1> QED BY <1>3, <1>4

(* When a manifest of a sound graph validates on a snapshot of a stored state. *)
Holds(st, graph, members) ==
    /\ WithinReplayBounds([SnapshotState(st) EXCEPT !.name_bindings = <<>>])
    /\ DOMAIN graph \subseteq DOMAIN st.values
    /\ \A s \in DOMAIN members : members[s] \in st.values[s]

LEMMA ValidatesWhenHeld ==
    ASSUME NEW st, Sound(st), NEW graph, NEW root, GraphSound(graph, root), NEW members,
           members = [s \in DeriveClosure(graph, root) |-> members[s]]
    PROVE  ValidateRuntimeClosure(SnapshotState(st), Manifest(Receipt(graph, root), members))
               <=> Holds(st, graph, members)
<1> DEFINE now == SnapshotState(st)
           bare == Bare(st)
           stripped == [now EXCEPT !.name_bindings = <<>>]
           receipt == Receipt(graph, root)
           manifest == Manifest(receipt, members)
           list == MemberSeq(members)
           items == {Member(members, s) : s \in DOMAIN members}
<1>1. Sound(bare) /\ stripped = SnapshotState(bare) /\ bare.values = st.values
  BY BareIsSound DEF Bare
<1>2. DOMAIN members = DeriveClosure(graph, root)
  OBVIOUS
<1>3. DOMAIN members \subseteq DOMAIN graph /\ IsFiniteSet(DOMAIN members)
  BY <1>2, ClosureIsNeeded, FS_Subset DEF GraphSound
<1>4. Range(list) = items /\ Distinct(list, LAMBDA m : m.semantic)
  BY <1>3, MemberSeqFacts, Zenon
<1> HIDE DEF list
<1>11. \A s : Member(members, s).semantic = s /\ Member(members, s).artifact = members[s]
  BY DEF Member
<1>5. receipt.graph = graph /\ receipt.root = root /\ receipt.reachable = DOMAIN members
  BY <1>2 DEF Receipt
<1>6. manifest.analysis = receipt /\ manifest.members = members
  BY DEF Manifest
<1>7. now # Malformed
  BY SnapshotIsDocument
<1> HIDE DEF now, bare, stripped, receipt, manifest, list
<1>8. PrivateSnapshot(now) = {SnapshotState(private) : private \in PrepareSnapshot(stripped)}
  BY <1>7 DEF PrivateSnapshot, stripped
<1>9. CASE ~WithinReplayBounds(stripped)
  <2>1. PrivateSnapshot(now) = {}
    BY <1>8, <1>9 DEF PrepareSnapshot
  <2>2. AssembledClosure(now, receipt, list) = {}
    BY <2>1 DEF AssembledClosure
  <2>3. ~ValidateRuntimeClosure(now, manifest)
    BY <1>6, <2>2 DEF ValidateRuntimeClosure, list
  <2> QED BY <1>9, <2>3 DEF Holds, stripped, now, manifest, receipt
<1>10. CASE WithinReplayBounds(stripped)
  <2>1. PrivateSnapshot(now) = {stripped}
    BY <1>1, <1>8, <1>10, SnapshotReplays
  <2>2. ValidatedReceipt(receipt, stripped) <=> DOMAIN graph \subseteq DOMAIN st.values
    <3>1. StoredIn(stripped) = DOMAIN st.values
      BY <1>1, StoredValues
    <3>2. UNION Range(graph) \subseteq DOMAIN graph /\ root \in DOMAIN graph
      BY DEF GraphSound, Range
    <3>3. UniverseValid(graph, root, stripped) <=> DOMAIN graph \subseteq DOMAIN st.values
      BY <3>1, <3>2 DEF UniverseValid
    <3> QED BY <1>5, <3>3 DEF ValidatedReceipt, receipt
  <2>3. ASSUME DOMAIN graph \subseteq DOMAIN st.values
        PROVE  (\A m \in Range(list) : StoredVariant(stripped, m))
                  <=> \A s \in DOMAIN members : members[s] \in st.values[s]
    <3>1. \A m : StoredVariant(stripped, m)
                    <=> m.semantic \in DOMAIN st.values /\ m.artifact \in st.values[m.semantic]
      BY <1>1, StoredVariantIs
    <3>2. \A s \in DOMAIN members :
             StoredVariant(stripped, Member(members, s)) <=> members[s] \in st.values[s]
      BY <1>3, <1>11, <2>3, <3>1
    <3> QED BY <1>4, <3>2
  <2>4. NormalizeSelection(list, receipt, stripped) =
            IF \A m \in Range(list) : StoredVariant(stripped, m) THEN {members} ELSE {}
    <3>1. {m.semantic : m \in Range(list)} = DOMAIN members
      <4>1. {m.semantic : m \in items} = DOMAIN members
        BY <1>11
      <4> QED BY <1>4, <4>1
    <3> DEFINE Of(s) == CHOOSE m \in Range(list) : m.semantic = s
    <3>2. ASSUME NEW s \in DOMAIN members PROVE Of(s).artifact = members[s]
      <4>1. \E m \in Range(list) : m.semantic = s
        BY <3>1
      <4>2. Of(s) \in items /\ Of(s).semantic = s
        BY <1>4, <4>1
      <4> HIDE DEF Of
      <4> QED BY <1>11, <4>2
    <3> HIDE DEF Of
    <3>3. [s \in receipt.reachable |-> Of(s).artifact] = members
      BY <1>2, <1>5, <3>2
    <3>4. NormalizeSelection(list, receipt, stripped) =
              IF \A m \in Range(list) : StoredVariant(stripped, m)
              THEN {[s \in receipt.reachable |-> Of(s).artifact]} ELSE {}
      BY <1>4, <1>5, <3>1, Zenon DEF NormalizeSelection, Of
    <3> QED BY <3>3, <3>4
  <2>5. AssembledClosure(now, receipt, list) =
            {Manifest(receipt, chosen) : chosen \in
                UNION {NormalizeSelection(list, receipt, snapshot) :
                          snapshot \in {x \in {stripped} : ValidatedReceipt(receipt, x)}}}
    BY <2>1, Zenon DEF AssembledClosure
  <2>6. manifest \in AssembledClosure(now, receipt, list)
            <=> /\ DOMAIN graph \subseteq DOMAIN st.values
                /\ \A s \in DOMAIN members : members[s] \in st.values[s]
    <3>1. CASE ~(DOMAIN graph \subseteq DOMAIN st.values)
      <4>1. AssembledClosure(now, receipt, list) = {}
        BY <2>2, <2>5, <3>1
      <4> QED BY <3>1, <4>1
    <3>2. CASE DOMAIN graph \subseteq DOMAIN st.values
      <4>1. AssembledClosure(now, receipt, list) =
                {Manifest(receipt, chosen) : chosen \in NormalizeSelection(list, receipt, stripped)}
        BY <2>2, <2>5, <3>2
      <4> QED BY <2>3, <2>4, <3>2, <4>1 DEF manifest
    <3> QED BY <3>1, <3>2
  <2>7. ValidateRuntimeClosure(now, manifest) <=> manifest \in AssembledClosure(now, receipt, list)
    BY <1>6 DEF ValidateRuntimeClosure, list
  <2> QED BY <1>10, <2>6, <2>7 DEF Holds, stripped, now, manifest, receipt
<1> QED BY <1>9, <1>10

(* An action on a manifest tells what the manifest holds, and its receipt     *)
(* validates.                                                                 *)
ToldOf(observation, recipe, manifest) ==
    ~recipe.kind = "closure.member-count"
        => observation = (\E m \in Range(MemberSeq(manifest.members)) :
                             m.semantic = recipe.semantic /\ m.artifact = recipe.artifact)

LEMMA ActionsAreTrue ==
    ASSUME NEW now, NEW manifest, NEW recipe, NEW environment, IsFiniteSet(DOMAIN manifest.members),
           NEW receipt \in ExecuteReproducibleAction(now, manifest, recipe, environment)
    PROVE  /\ ValidateRuntimeClosure(now, manifest)
           /\ receipt.required \subseteq Range(environment)
           /\ ValidateActionReceipt(now, manifest, receipt)
           /\ ToldOf(receipt.observation, recipe, manifest)
<1>1. PICK capabilities \in NormalizeEnvironment(environment) :
          receipt \in ActionReceipt(now, manifest, recipe, capabilities)
  BY Zenon DEF ExecuteReproducibleAction
<1>2. capabilities = Range(environment)
  BY DEF NormalizeEnvironment
<1>3. /\ ValidateRuntimeClosure(now, manifest) /\ RequiredCapability(recipe) \in capabilities
      /\ receipt = [recipe |-> recipe, environment |-> capabilities, required |-> {RequiredCapability(recipe)},
                    manifest |-> manifest, observation |-> Interpret(recipe, manifest)]
  BY <1>1, Zenon DEF ActionReceipt
<1>4. /\ receipt.recipe = recipe /\ receipt.environment = capabilities
      /\ receipt.required = {RequiredCapability(recipe)} /\ receipt.observation = Interpret(recipe, manifest)
  BY <1>3
<1>5. ValidateActionReceipt(now, manifest, receipt)
  BY <1>1, <1>4 DEF ValidateActionReceipt
<1>6. ASSUME ~recipe.kind = "closure.member-count"
      PROVE  Interpret(recipe, manifest) = (\E m \in Range(MemberSeq(manifest.members)) :
                 m.semantic = recipe.semantic /\ m.artifact = recipe.artifact)
  <2> DEFINE told == Interpret(recipe, manifest)
             held == \E m \in Range(MemberSeq(manifest.members)) :
                        m.semantic = recipe.semantic /\ m.artifact = recipe.artifact
  <2>1. told = (recipe.semantic \in DOMAIN manifest.members
                  /\ manifest.members[recipe.semantic] = recipe.artifact)
    BY <1>6, Zenon DEF Interpret
  <2>2. Range(MemberSeq(manifest.members)) =
            {Member(manifest.members, s) : s \in DOMAIN manifest.members}
    BY MemberSeqFacts
  <2>3. held <=> (recipe.semantic \in DOMAIN manifest.members
                    /\ manifest.members[recipe.semantic] = recipe.artifact)
    <3>1. \A s : Member(manifest.members, s).semantic = s /\ Member(manifest.members, s).artifact = manifest.members[s]
      BY DEF Member
    <3> QED BY <2>2, <3>1
  <2> QED BY <2>1, <2>3, Zenon
<1>7. ToldOf(receipt.observation, recipe, manifest)
  BY <1>4, <1>6, Zenon DEF ToldOf
<1> QED BY <1>2, <1>3, <1>4, <1>5, <1>7

(* A manifest names one variant for exactly the values its root needs and     *)
(* excludes the rest; it validates on exactly those stores that still hold    *)
(* what it names; and an action on it tells what it holds.                    *)
THEOREM ClosuresStayTrueHolds == BuildSpec => []ClosuresStayTrue
<1>1. StoreSound /\ DeskSound => ClosuresStayTrue
  <2> SUFFICES ASSUME Sound(store), DeskSound, desk.stage = "manifest" PROVE ClosuresStayTrue
    BY DEF StoreSound, ClosuresStayTrue
  <2> DEFINE manifest == desk.manifest
             now == SnapshotState(store)
  <2>1. PICK graph, root, members :
            /\ GraphSound(graph, root)
            /\ members = [s \in DeriveClosure(graph, root) |-> members[s]]
            /\ manifest = Manifest(Receipt(graph, root), members)
    BY DEF DeskSound, Built
  <2>2. /\ manifest.analysis.graph = graph /\ manifest.root = root /\ manifest.members = members
        /\ manifest.excluded = DOMAIN graph \ DeriveClosure(graph, root)
    BY <2>1 DEF Manifest, Receipt
  <2>3. /\ DOMAIN members = DeriveClosure(graph, root) /\ DOMAIN members = Needed(graph, root)
        /\ IsFiniteSet(DOMAIN members)
    <3>1. DOMAIN members = DeriveClosure(graph, root)
      BY <2>1
    <3> QED BY <2>1, <3>1, ClosureIsNeeded, FS_Subset DEF GraphSound
  <2>4. ValidateRuntimeClosure(now, manifest) <=> Holds(store, graph, members)
    BY <2>1, ValidatesWhenHeld
  <2> HIDE DEF manifest, now
  <2>5. IsFiniteSet(DOMAIN manifest.members)
    BY <2>2, <2>3
  <2> DEFINE held == Holds(store, manifest.analysis.graph, manifest.members)
  <2>6. /\ DOMAIN manifest.members = Needed(manifest.analysis.graph, manifest.root)
        /\ manifest.excluded = DOMAIN manifest.analysis.graph \ DOMAIN manifest.members
        /\ ValidateRuntimeClosure(now, manifest) <=> held
    BY <2>2, <2>3, <2>4
  <2> HIDE DEF held
  <2>7. ASSUME NEW recipe \in Recipes, NEW environment \in Environments,
               NEW receipt \in ExecuteReproducibleAction(now, manifest, recipe, environment)
        PROVE  /\ held
               /\ receipt.required \subseteq Range(environment)
               /\ ValidateActionReceipt(now, manifest, receipt)
               /\ ToldOf(receipt.observation, recipe, manifest)
    BY <2>5, <2>6, ActionsAreTrue, Zenon
  <2> QED BY <2>6, <2>7, Zenon DEF ClosuresStayTrue, ToldOf, Holds, held, manifest, now
<1> QED BY <1>1, StoreSoundAlways, DeskSoundAlways, PTL

-----------------------------------------------------------------------------
(* ---- repetition ----------------------------------------------------------- *)
(* What holds of 0 and passes from one natural to the next, up to n.          *)
LEMMA Climb ==
    ASSUME NEW n \in Nat, NEW K, 0 \in K, \A k \in 1 .. n : k - 1 \in K => k \in K
    PROVE  \A k \in 0 .. n : k \in K
<1> DEFINE Bad == {k \in 0 .. n : k \notin K}
<1>1. ASSUME Bad # {} PROVE FALSE
  <2>1. Bad \in SUBSET Nat
    OBVIOUS
  <2>2. PICK k \in Bad : \A j \in Bad : k <= j
    <3> HIDE DEF Bad
    <3> QED BY <1>1, <2>1, LeastOf
  <2>3. k # 0 /\ k \in 1 .. n
    BY <2>2
  <2>4. k - 1 \in 0 .. n /\ ~(k <= k - 1)
    BY <2>3
  <2>5. k - 1 \in K
    BY <2>2, <2>4
  <2> QED BY <2>2, <2>3, <2>5
<1> QED BY <1>1

IsRun(turn, start, n, f) == f = [k \in 0 .. n |-> IF k = 0 THEN start ELSE turn[k][f[k - 1]]]

(* A run of n turns goes on to the next.                                      *)
LEMMA RunExtends ==
    ASSUME NEW turn, NEW start, NEW n \in Nat, NEW f, IsRun(turn, start, n, f)
    PROVE  \E g : IsRun(turn, start, n + 1, g)
<1> DEFINE last == turn[n + 1][f[n]]
           g == [k \in 0 .. n + 1 |-> IF k = n + 1 THEN last ELSE f[k]]
           h == [k \in 0 .. n + 1 |-> IF k = 0 THEN start ELSE turn[k][g[k - 1]]]
           e == [k \in 0 .. n |-> IF k = 0 THEN start ELSE turn[k][f[k - 1]]]
<1>1. f = e
  BY DEF IsRun
<1>2. e[0] = start /\ \A k \in 1 .. n : e[k] = turn[k][f[k - 1]]
  OBVIOUS
<1>3. f[0] = start /\ \A k \in 1 .. n : f[k] = turn[k][f[k - 1]]
  <2> HIDE DEF e
  <2> QED BY <1>1, <1>2
<1>4. ASSUME NEW k \in 0 .. n + 1 PROVE g[k] = h[k]
  <2>1. CASE k = 0
    BY <1>3, <2>1
  <2>2. CASE k = n + 1
    <3>1. g[k] = last /\ k # 0 /\ k - 1 = n /\ k - 1 \in 0 .. n + 1 /\ k - 1 # n + 1
      BY <2>2
    <3>2. g[k - 1] = f[n]
      BY <3>1
    <3>3. h[k] = turn[k][g[k - 1]]
      BY <3>1
    <3> QED BY <2>2, <3>1, <3>2, <3>3, Zenon
  <2>3. CASE k \in 1 .. n
    <3>1. k # n + 1 /\ k # 0 /\ k - 1 \in 0 .. n + 1 /\ k - 1 # n + 1
      BY <2>3
    <3>2. g[k] = f[k] /\ g[k - 1] = f[k - 1]
      BY <3>1
    <3>3. h[k] = turn[k][g[k - 1]]
      BY <3>1
    <3>4. f[k] = turn[k][f[k - 1]]
      BY <1>3, <2>3
    <3> QED BY <3>2, <3>3, <3>4
  <2> QED BY <2>1, <2>2, <2>3
<1>5. g = h
  BY <1>4
<1>6. IsRun(turn, start, n + 1, g)
  BY <1>5 DEF IsRun
<1> QED BY <1>6

(* Each place of a run is the turn of the one before.                         *)
LEMMA RunIs ==
    ASSUME NEW turn, NEW start, NEW n \in Nat, NEW f, IsRun(turn, start, n, f)
    PROVE  f[0] = start /\ \A k \in 1 .. n : f[k] = turn[k][f[k - 1]]
<1>1. PICK e : e = [k \in 0 .. n |-> IF k = 0 THEN start ELSE turn[k][f[k - 1]]]
  OBVIOUS
<1>2. e[0] = start /\ \A k \in 1 .. n : e[k] = turn[k][f[k - 1]]
  BY <1>1
<1> QED BY <1>1, <1>2 DEF IsRun

(* A loop has a run, and with it whatever its turns keep.                     *)
LEMMA Runs ==
    ASSUME NEW n \in Nat, NEW kept, NEW start, start \in kept[0], NEW turn,
           \A k \in 1 .. n : \A s \in kept[k - 1] : turn[k][s] \in kept[k]
    PROVE  \E f : IsRun(turn, start, n, f) /\ \A k \in 0 .. n : f[k] \in kept[k]
<1> DEFINE Has == {k \in 0 .. n : \E f : IsRun(turn, start, k, f)}
<1>1. \E f : IsRun(turn, start, n, f)
  <2>1. 0 \in Has
    <3> DEFINE f == [j \in 0 .. 0 |-> start]
               g == [j \in 0 .. 0 |-> IF j = 0 THEN start ELSE turn[j][f[j - 1]]]
    <3>1. f = g
      OBVIOUS
    <3>2. IsRun(turn, start, 0, f)
      BY <3>1 DEF IsRun
    <3> QED BY <3>2
  <2>2. ASSUME NEW k \in 1 .. n, k - 1 \in Has PROVE k \in Has
    <3>1. k - 1 \in Nat /\ (k - 1) + 1 = k
      OBVIOUS
    <3>2. PICK f : IsRun(turn, start, k - 1, f)
      BY <2>2
    <3>3. \E g : IsRun(turn, start, (k - 1) + 1, g)
      BY <3>1, <3>2, RunExtends
    <3> QED BY <3>1, <3>3
  <2> HIDE DEF Has
  <2>3. n \in Has
    BY <2>1, <2>2, Climb
  <2> QED BY <2>3 DEF Has
<1>2. PICK f : IsRun(turn, start, n, f)
  BY <1>1
<1>3. f[0] = start /\ \A k \in 1 .. n : f[k] = turn[k][f[k - 1]]
  BY <1>2, RunIs
<1> DEFINE K == {k \in 0 .. n : f[k] \in kept[k]}
<1>4. 0 \in K
  BY <1>3
<1>5. ASSUME NEW k \in 1 .. n, k - 1 \in K PROVE k \in K
  <2>1. f[k - 1] \in kept[k - 1] /\ f[k] = turn[k][f[k - 1]] /\ k \in 0 .. n
    BY <1>3, <1>5
  <2> QED BY <2>1
<1>6. \A k \in 0 .. n : k \in K
  <2> HIDE DEF K
  <2> QED BY <1>4, <1>5, Climb
<1> QED BY <1>2, <1>6

(* ---- what is within reach -------------------------------------------------- *)
Further(edges, s) == s \cup {e.target : e \in {x \in edges : x.source \in s}}
Spreads(edges, roots, n, f) ==
    f[0] = roots /\ \A k \in 1 .. n : f[k] = Further(edges, f[k - 1])

(* What is within n steps is the last of a series that spreads n times.       *)
LEMMA WithinRuns ==
    ASSUME NEW edges, NEW roots, NEW n \in Nat
    PROVE  \E f : Spreads(edges, roots, n, f) /\ Within(edges, roots, n) = f[n]
<1> DEFINE U == roots \cup {e.target : e \in edges}
           kept == [k \in 0 .. n |-> SUBSET U]
           turn == [k \in 1 .. n |-> [s \in SUBSET U |-> Further(edges, s)]]
           Is(f) == f = [k \in 0 .. n |-> IF k = 0 THEN roots ELSE Further(edges, f[k - 1])]
<1>1. roots \in kept[0]
  OBVIOUS
<1>2. ASSUME NEW s \in SUBSET U PROVE Further(edges, s) \in SUBSET U
  BY DEF Further
<1>3. /\ \A k \in 1 .. n : \A s \in kept[k - 1] : turn[k][s] \in kept[k]
      /\ \A k \in 1 .. n : \A s \in kept[k - 1] : turn[k][s] = Further(edges, s)
  <2> HIDE DEF U
  <2> QED BY <1>2
<1> HIDE DEF turn, kept
<1>4. PICK f : IsRun(turn, roots, n, f) /\ \A k \in 0 .. n : f[k] \in kept[k]
  BY <1>1, <1>3, Runs, Zenon
<1>5. Is(f)
  <2>1. PICK e : e = [k \in 0 .. n |-> IF k = 0 THEN roots ELSE turn[k][f[k - 1]]]
    OBVIOUS
  <2>2. PICK h : h = [k \in 0 .. n |-> IF k = 0 THEN roots ELSE Further(edges, f[k - 1])]
    OBVIOUS
  <2>3. ASSUME NEW k \in 0 .. n PROVE e[k] = h[k]
    <3>1. CASE k = 0
      BY <2>1, <2>2, <3>1
    <3>2. CASE k # 0
      <4>1. k \in 1 .. n /\ k - 1 \in 0 .. n
        BY <3>2
      <4>2. turn[k][f[k - 1]] = Further(edges, f[k - 1])
        BY <1>3, <1>4, <4>1, Zenon
      <4> QED BY <2>1, <2>2, <3>2, <4>2
    <3> QED BY <3>1, <3>2
  <2>4. e = h
    BY <2>1, <2>2, <2>3
  <2> QED BY <1>4, <2>1, <2>2, <2>4, Zenon DEF IsRun
<1> DEFINE run == CHOOSE g : Is(g)
<1>6. Is(run)
  BY <1>5
<1>7. Within(edges, roots, n) = run[n]
  BY DEF Within, Repeated, Further
<1>8. Spreads(edges, roots, n, run)
  <2> HIDE DEF run
  <2>1. PICK e : e = [k \in 0 .. n |-> IF k = 0 THEN roots ELSE Further(edges, run[k - 1])]
    OBVIOUS
  <2>2. e[0] = roots /\ \A k \in 1 .. n : e[k] = Further(edges, run[k - 1])
    BY <2>1
  <2> QED BY <1>6, <2>1, <2>2 DEF Spreads
<1> QED BY <1>7, <1>8

(* One step more is what the edges of the subjects so far lead to.            *)
LEMMA WithinGrows ==
    ASSUME NEW edges, NEW roots, NEW n \in Nat
    PROVE  /\ Within(edges, roots, 0) = roots
           /\ Within(edges, roots, n + 1) = Further(edges, Within(edges, roots, n))
<1>1. Within(edges, roots, 0) = roots
  BY WithinRuns DEF Spreads
<1>2. PICK f : Spreads(edges, roots, n, f) /\ Within(edges, roots, n) = f[n]
  BY WithinRuns
<1>3. PICK g : Spreads(edges, roots, n + 1, g) /\ Within(edges, roots, n + 1) = g[n + 1]
  BY WithinRuns
<1> DEFINE K == {k \in 0 .. n : f[k] = g[k]}
<1>4. 0 \in K
  BY <1>2, <1>3 DEF Spreads
<1>5. ASSUME NEW k \in 1 .. n, k - 1 \in K PROVE k \in K
  BY <1>2, <1>3, <1>5 DEF Spreads
<1>6. n \in K
  <2> HIDE DEF K
  <2> QED BY <1>4, <1>5, Climb
<1>7. g[n + 1] = Further(edges, g[n])
  BY <1>3 DEF Spreads
<1> QED BY <1>1, <1>2, <1>3, <1>6, <1>7

(* What is within some steps stays within more, and is within ids.            *)
LEMMA WithinKeeps ==
    ASSUME NEW edges, NEW roots, NEW n \in Nat
    PROVE  /\ \A j \in 0 .. n : Within(edges, roots, j) \subseteq Within(edges, roots, n)
           /\ \A S : roots \subseteq S /\ (\A e \in edges : e.target \in S) => Within(edges, roots, n) \subseteq S
<1> DEFINE W(k) == Within(edges, roots, k)
<1>1. \A k \in 0 .. n : W(0) = roots /\ W(k + 1) = Further(edges, W(k))
  BY WithinGrows
<1> HIDE DEF W
<1>2. ASSUME NEW j \in 0 .. n PROVE W(j) \subseteq W(n)
  <2> DEFINE K == {k \in 0 .. n : k < j \/ W(j) \subseteq W(k)}
  <2>1. 0 \in K
    BY <1>1
  <2>2. ASSUME NEW k \in 1 .. n, k - 1 \in K PROVE k \in K
    <3>1. W((k - 1) + 1) = Further(edges, W(k - 1)) /\ (k - 1) + 1 = k
      BY <1>1
    <3>2. W(k - 1) \subseteq W(k)
      BY <3>1 DEF Further
    <3>3. k - 1 < j => k < j \/ k = j
      OBVIOUS
    <3> QED BY <2>2, <3>2, <3>3
  <2>3. n \in K
    <3> HIDE DEF K
    <3> QED BY <2>1, <2>2, Climb
  <2> QED BY <2>3
<1>3. ASSUME NEW S, roots \subseteq S, \A e \in edges : e.target \in S PROVE W(n) \subseteq S
  <2> DEFINE K == {k \in 0 .. n : W(k) \subseteq S}
  <2>1. 0 \in K
    BY <1>1, <1>3
  <2>2. ASSUME NEW k \in 1 .. n, k - 1 \in K PROVE k \in K
    <3>1. W((k - 1) + 1) = Further(edges, W(k - 1)) /\ (k - 1) + 1 = k
      BY <1>1
    <3>2. Further(edges, W(k - 1)) \subseteq S
      BY <1>3, <2>2 DEF Further
    <3> QED BY <3>1, <3>2
  <2>3. n \in K
    <3> HIDE DEF K
    <3> QED BY <2>1, <2>2, Climb
  <2> QED BY <2>3
<1> QED BY <1>2, <1>3 DEF W

(* ---- the order of names, and sequences ------------------------------------- *)
(* A rank is a natural number.                                                *)
LEMMA RankIs == \A part : Rank(part) \in 0 .. Len(KeyOrder) /\ Len(KeyOrder) \in Nat
<1> SUFFICES ASSUME NEW part PROVE Rank(part) \in 0 .. Len(KeyOrder) /\ Len(KeyOrder) \in Nat
  OBVIOUS
<1> DEFINE I == {i \in 1 .. Len(KeyOrder) : KeyOrder[i] = part}
<1>1. Len(KeyOrder) \in Nat
  BY InputsAssumption DEF KeyOrderAssumption
<1>2. Rank(part) = IF I # {} THEN Min(I) ELSE 0
  BY DEF Rank, SelectInSeq
<1>3. I # {} => Min(I) \in I
  <2>1. I \in SUBSET Nat
    BY <1>1
  <2>2. I # {} => \E i \in I : \A j \in I : i <= j
    <3> HIDE DEF I
    <3> QED BY <2>1, LeastOf
  <2> HIDE DEF I
  <2> QED BY <2>2 DEF Min
<1> QED BY <1>1, <1>2, <1>3

(* A set that is not empty has a least and a greatest name in it.             *)
LEMMA LeastIs ==
    ASSUME NEW ids, ids # {}
    PROVE  Least(ids) \in ids /\ Greatest(ids) \in ids
<1> DEFINE R == {Rank(x) : x \in ids}
           L == Len(KeyOrder)
           Q == {L - Rank(x) : x \in ids}
<1>1. L \in Nat /\ \A x \in ids : Rank(x) \in 0 .. L
  BY RankIs
<1> HIDE DEF L
<1>2. R \in SUBSET Nat /\ R # {} /\ Q \in SUBSET Nat /\ Q # {}
  BY <1>1
<1>3. PICK m \in R : \A k \in R : m <= k
  <2> HIDE DEF R
  <2> QED BY <1>2, LeastOf
<1>4. PICK q \in Q : \A k \in Q : q <= k
  <2> HIDE DEF Q
  <2> QED BY <1>2, LeastOf
<1>5. PICK x \in ids : m = Rank(x)
  OBVIOUS
<1>6. PICK z \in ids : q = L - Rank(z)
  OBVIOUS
<1>7. \A y \in ids : Rank(x) <= Rank(y)
  BY <1>3, <1>5
<1>8. \A y \in ids : Rank(y) <= Rank(z)
  <2>1. ASSUME NEW y \in ids PROVE Rank(y) <= Rank(z)
    <3>1. L - Rank(z) <= L - Rank(y)
      BY <1>4, <1>6
    <3> QED BY <1>1, <3>1
  <2> QED BY <2>1
<1> QED BY <1>7, <1>8 DEF Least, Greatest

(* A sequence without repetition has as many items as places.                 *)
LEMMA AsMany ==
    ASSUME NEW D, NEW p \in Seq(D), IsInjective(p)
    PROVE  /\ IsFiniteSet(ToSet(p)) /\ Cardinality(ToSet(p)) = Len(p) /\ Len(p) \in Nat
           /\ ToSet(p) \subseteq D
           /\ IsFiniteSet(D) => Len(p) <= Cardinality(D)
<1>1. Len(p) \in Nat /\ DOMAIN p = 1 .. Len(p) /\ p \in [1 .. Len(p) -> D]
  OBVIOUS
<1>2. p \in Bijection(1 .. Len(p), ToSet(p))
  BY <1>1 DEF Bijection, Injection, Surjection, IsInjective, ToSet
<1>3. IsFiniteSet(1 .. Len(p)) /\ Cardinality(1 .. Len(p)) = Len(p)
  BY <1>1, FS_Interval
<1>4. IsFiniteSet(ToSet(p)) /\ Cardinality(ToSet(p)) = Len(p)
  BY <1>2, <1>3, FS_Bijection DEF ExistsBijection
<1>5. ToSet(p) \subseteq D
  BY <1>1 DEF ToSet
<1>6. IsFiniteSet(D) => Len(p) <= Cardinality(D)
  BY <1>4, <1>5, FS_Subset
<1> QED BY <1>1, <1>4, <1>5, <1>6

(* What an Append makes of a sequence.                                        *)
LEMMA Longer ==
    ASSUME NEW D, NEW p \in Seq(D), NEW x \in D
    PROVE  /\ Append(p, x) \in Seq(D) /\ Len(Append(p, x)) = Len(p) + 1 /\ Len(p) \in Nat
           /\ \A i \in 1 .. Len(p) : Append(p, x)[i] = p[i]
           /\ Append(p, x)[Len(p) + 1] = x /\ Last(Append(p, x)) = x
           /\ ToSet(Append(p, x)) = ToSet(p) \cup {x}
           /\ IsInjective(p) /\ x \notin ToSet(p) => IsInjective(Append(p, x))
<1> DEFINE q == Append(p, x)
<1>1. Len(p) \in Nat /\ DOMAIN p = 1 .. Len(p)
  OBVIOUS
<1>2. /\ q \in Seq(D) /\ Len(q) = Len(p) + 1
      /\ \A i \in 1 .. Len(p) : q[i] = p[i]
      /\ q[Len(p) + 1] = x
  OBVIOUS
<1>3. DOMAIN q = 1 .. Len(p) + 1
  BY <1>2
<1> HIDE DEF q
<1>4. \A i \in 1 .. Len(p) + 1 : i \in 1 .. Len(p) \/ i = Len(p) + 1
  BY <1>1
<1>5. ToSet(q) = ToSet(p) \cup {x}
  <2>1. ToSet(q) = {q[i] : i \in 1 .. Len(p) + 1} /\ ToSet(p) = {p[i] : i \in 1 .. Len(p)}
    BY <1>1, <1>3 DEF ToSet
  <2>2. \A i \in 1 .. Len(p) : i \in 1 .. Len(p) + 1
    BY <1>1
  <2>3. Len(p) + 1 \in 1 .. Len(p) + 1
    BY <1>1
  <2> QED BY <1>2, <1>4, <2>1, <2>2, <2>3
<1>6. ASSUME IsInjective(p), x \notin ToSet(p) PROVE IsInjective(q)
  <2>1. \A i \in 1 .. Len(p) : p[i] # x
    BY <1>1, <1>6 DEF ToSet
  <2>2. \A i, j \in 1 .. Len(p) : p[i] = p[j] => i = j
    BY <1>1, <1>6 DEF IsInjective
  <2>3. \A i, j \in 1 .. Len(p) + 1 : q[i] = q[j] => i = j
    BY <1>2, <1>4, <2>1, <2>2
  <2> QED BY <1>3, <2>3 DEF IsInjective
<1>7. Last(q) = x
  BY <1>2 DEF Last
<1> QED BY <1>1, <1>2, <1>5, <1>6, <1>7 DEF q

(* What Front leaves of a sequence.                                           *)
LEMMA Shorter ==
    ASSUME NEW D, NEW p \in Seq(D), p # <<>>
    PROVE  /\ Front(p) \in Seq(D) /\ Len(Front(p)) = Len(p) - 1 /\ Len(p) \in Nat /\ Len(p) >= 1
           /\ \A i \in 1 .. Len(p) - 1 : Front(p)[i] = p[i]
           /\ Last(p) = p[Len(p)] /\ Last(p) \in D
           /\ ToSet(p) = ToSet(Front(p)) \cup {Last(p)}
           /\ IsInjective(p) => IsInjective(Front(p)) /\ Last(p) \notin ToSet(Front(p))
<1>1. Len(p) \in Nat /\ Len(p) >= 1 /\ DOMAIN p = 1 .. Len(p)
  OBVIOUS
<1>2. /\ Front(p) \in Seq(D) /\ Len(Front(p)) = Len(p) - 1
      /\ \A i \in 1 .. Len(p) - 1 : Front(p)[i] = p[i]
  BY <1>1 DEF Front
<1>3. DOMAIN Front(p) = 1 .. Len(p) - 1
  BY <1>2
<1>4. Last(p) = p[Len(p)] /\ Last(p) \in D
  BY <1>1 DEF Last
<1>12. PICK n \in Nat : n = Len(p) /\ n >= 1
  BY <1>1
<1>5. \A i \in 1 .. Len(p) : i = Len(p) \/ i \in 1 .. Len(p) - 1
  <2>1. \A i \in 1 .. n : i = n \/ i \in 1 .. n - 1
    OBVIOUS
  <2> QED BY <1>12, <2>1, Zenon
<1>6. \A i \in 1 .. Len(p) - 1 : i \in 1 .. Len(p) /\ i # Len(p)
  <2>1. \A i \in 1 .. n - 1 : i \in 1 .. n /\ i # n
    OBVIOUS
  <2> QED BY <1>12, <2>1, Zenon
<1>7. Len(p) \in 1 .. Len(p)
  BY <1>12
<1>8. ToSet(p) = {p[i] : i \in 1 .. Len(p)} /\ ToSet(Front(p)) = {Front(p)[i] : i \in 1 .. Len(p) - 1}
  BY <1>1, <1>3 DEF ToSet
<1>9. ToSet(p) = ToSet(Front(p)) \cup {Last(p)}
  BY <1>2, <1>4, <1>5, <1>6, <1>7, <1>8
<1>10. IsInjective(p) => IsInjective(Front(p)) /\ Last(p) \notin ToSet(Front(p))
  <2> SUFFICES ASSUME \A i, j \in 1 .. Len(p) : p[i] = p[j] => i = j
               PROVE  IsInjective(Front(p)) /\ Last(p) \notin ToSet(Front(p))
    BY <1>1 DEF IsInjective
  <2>1. \A i, j \in 1 .. Len(p) - 1 : Front(p)[i] = Front(p)[j] => i = j
    BY <1>2, <1>6
  <2>2. \A i \in 1 .. Len(p) - 1 : Front(p)[i] # p[Len(p)]
    BY <1>2, <1>6, <1>7
  <2> QED BY <1>3, <1>4, <1>8, <2>1, <2>2 DEF IsInjective
<1> QED BY <1>1, <1>2, <1>4, <1>9, <1>10

(* ---- depth-first search ---------------------------------------------------- *)
Digraph(graph) ==
    IsFiniteSet(DOMAIN graph) /\ \A n \in DOMAIN graph : graph[n] \subseteq DOMAIN graph

(* Nodes from which every walk falls: none of them is on a cycle.             *)
FallsBy(graph, nodes, rank) ==
    /\ rank \in [nodes -> Nat]
    /\ \A v \in nodes : rank[v] < Cardinality(nodes) /\ \A t \in graph[v] : t \in nodes /\ rank[t] < rank[v]
Falls(graph, nodes) == \E rank : FallsBy(graph, nodes, rank)

(* The search: its stack is a simple walk of nodes not yet left, what was     *)
(* left falls, and a turn enters or leaves a node until there is nothing to   *)
(* enter or a walk that closes.                                               *)
Closing(graph, walk, i, cycle) ==
    /\ i \in 1 .. Len(walk) /\ walk[i] \in graph[Last(walk)]
    /\ cycle = Append(SubSeq(walk, i, Len(walk)), walk[i])
Closes(graph, walk, cycle) == \E i : Closing(graph, walk, i, cycle)
Entered(graph, k, st) ==
    st.visited = DOMAIN graph \/ 2 * Cardinality(st.visited) + Len(st.stack) = k
OnSearch(graph, k, st) ==
    /\ IsInjective(st.stack) /\ IsWalk(graph, st.stack) /\ ToSet(st.stack) \cap st.visited = {}
    /\ st.cycle # <<>> => Closes(graph, st.stack, st.cycle)
    /\ st.cycle = <<>> => Falls(graph, st.visited) /\ Entered(graph, k, st)
Searches(graph) == [visited : SUBSET DOMAIN graph, stack : Seq(DOMAIN graph), cycle : Seq(DOMAIN graph)]
Searching(graph, k) == {st \in Searches(graph) : OnSearch(graph, k, st)}

(* A turn of VisitNode leaves a search.                                       *)
LEMMA VisitSearches ==
    ASSUME NEW graph, Digraph(graph), NEW k \in Nat, NEW st \in Searching(graph, k)
    PROVE  Visit(graph, st) \in Searching(graph, k + 1)
<1> DEFINE D == DOMAIN graph
           open == (IF st.stack = <<>> THEN D ELSE graph[Last(st.stack)]) \ st.visited
           node == Least(open)
           again == SelectInSeq(st.stack, LAMBDA x : x = node)
           next == Visit(graph, st)
<1>1. /\ st = [visited |-> st.visited, stack |-> st.stack, cycle |-> st.cycle]
      /\ st.visited \subseteq D /\ st.stack \in Seq(D) /\ st.cycle \in Seq(D)
      /\ IsInjective(st.stack) /\ IsWalk(graph, st.stack) /\ ToSet(st.stack) \cap st.visited = {}
  BY DEF Searching, Searches, OnSearch
<1>2. st.cycle # <<>> => Closes(graph, st.stack, st.cycle)
  BY DEF Searching, OnSearch
<1>3. st.cycle = <<>> => Falls(graph, st.visited) /\ Entered(graph, k, st)
  BY DEF Searching, OnSearch
<1>4. /\ st.stack # <<>> => Last(st.stack) \in D /\ Last(st.stack) \in ToSet(st.stack)
      /\ open \subseteq D
  BY <1>1, Shorter DEF Digraph
<1>5. open # {} => node \in open
  BY LeastIs
<1>6. IsFiniteSet(st.visited) /\ Cardinality(st.visited) \in Nat
  BY <1>1, FS_Subset, FS_CardinalityType DEF Digraph
<1>7. CASE st.cycle # <<>> \/ (open = {} /\ st.stack = <<>>)
  <2>1. next = st
    BY <1>7 DEF Visit
  <2>2. st.cycle = <<>> => Entered(graph, k + 1, st)
    BY <1>1, <1>7 DEF Entered
  <2> HIDE DEF next, open
  <2>3. OnSearch(graph, k + 1, st)
    BY <1>1, <1>2, <1>3, <2>2, Zenon DEF OnSearch
  <2>4. st \in Searches(graph)
    BY DEF Searching
  <2> QED BY <2>1, <2>3, <2>4, Zenon DEF Searching, next
<1>8. CASE st.cycle = <<>> /\ open = {} /\ st.stack # <<>>
  <2> DEFINE x == Last(st.stack)
  <2>1. next = [visited |-> st.visited \cup {x}, stack |-> Front(st.stack), cycle |-> <<>>]
    <3>1. next = [st EXCEPT !.stack = Front(@), !.visited = @ \cup {Last(st.stack)}]
      BY <1>8, Zenon DEF Visit
    <3> QED BY <1>1, <1>8, <3>1
  <2>2. /\ Front(st.stack) \in Seq(D) /\ x \in D /\ Len(Front(st.stack)) = Len(st.stack) - 1 /\ Len(st.stack) \in Nat
        /\ Len(st.stack) >= 1
        /\ IsInjective(Front(st.stack)) /\ ToSet(st.stack) = ToSet(Front(st.stack)) \cup {x}
        /\ x \notin ToSet(Front(st.stack))
        /\ \A i \in 1 .. Len(st.stack) - 1 : Front(st.stack)[i] = st.stack[i]
    BY <1>1, <1>8, Shorter
  <2>3. IsWalk(graph, Front(st.stack))
    <3> SUFFICES ASSUME NEW i \in 2 .. Len(Front(st.stack))
                 PROVE  Front(st.stack)[i] \in graph[Front(st.stack)[i - 1]]
      BY DEF IsWalk
    <3>1. PICK n \in Nat : n = Len(st.stack)
      BY <2>2
    <3>2. i \in 2 .. n /\ i \in 1 .. n - 1 /\ i - 1 \in 1 .. n - 1
      BY <2>2, <3>1
    <3>3. st.stack[i] \in graph[st.stack[i - 1]]
      BY <1>1, <3>1, <3>2 DEF IsWalk
    <3> QED BY <2>2, <3>1, <3>2, <3>3
  <2>4. x \notin st.visited /\ graph[x] \subseteq st.visited
    BY <1>1, <1>4, <1>8
  <2>5. /\ Cardinality(st.visited \cup {x}) = Cardinality(st.visited) + 1
        /\ IsFiniteSet(st.visited \cup {x})
    BY <1>6, <2>4, FS_AddElement
  <2>6. Falls(graph, st.visited \cup {x})
    <3>1. PICK rank : FallsBy(graph, st.visited, rank)
      BY <1>3, <1>8 DEF Falls
    <3>2. /\ rank \in [st.visited -> Nat]
          /\ \A v \in st.visited : /\ rank[v] < Cardinality(st.visited)
                                   /\ \A t \in graph[v] : t \in st.visited /\ rank[t] < rank[v]
      BY <3>1 DEF FallsBy
    <3> DEFINE r == [v \in st.visited \cup {x} |-> IF v = x THEN Cardinality(st.visited) ELSE rank[v]]
    <3>3. r \in [st.visited \cup {x} -> Nat]
      BY <1>6, <3>2
    <3>4. ASSUME NEW v \in st.visited \cup {x}
          PROVE  /\ r[v] < Cardinality(st.visited \cup {x})
                 /\ \A t \in graph[v] : t \in st.visited \cup {x} /\ r[t] < r[v]
      <4>1. r[x] = Cardinality(st.visited) /\ \A t \in st.visited : r[t] = rank[t] /\ rank[t] \in Nat
        BY <2>4, <3>2
      <4> HIDE DEF r, x
      <4>2. CASE v = x
        BY <1>6, <2>4, <2>5, <3>2, <4>1, <4>2
      <4>3. CASE v \in st.visited
        BY <1>6, <2>5, <3>2, <4>1, <4>3
      <4> QED BY <4>2, <4>3
    <3>5. FallsBy(graph, st.visited \cup {x}, r)
      BY <3>3, <3>4 DEF FallsBy
    <3> QED BY <3>5 DEF Falls
  <2> HIDE DEF next, open, x
  <2>7. (ToSet(Front(st.stack)) \cap (st.visited \cup {x})) = {}
    BY <1>1, <2>2
  <2>8. \/ st.visited \cup {x} = D
        \/ 2 * Cardinality(st.visited \cup {x}) + Len(Front(st.stack)) = k + 1
    <3>1. PICK c \in Nat : c = Cardinality(st.visited)
      BY <1>6
    <3>2. PICK l \in Nat : l = Len(st.stack)
      BY <2>2
    <3>3. st.visited = D \/ 2 * c + l = k
      BY <1>3, <1>8, <3>1, <3>2 DEF Entered
    <3>4. 2 * (c + 1) + (l - 1) = (2 * c + l) + 1
      OBVIOUS
    <3>5. CASE st.visited = D
      BY <1>1, <2>2, <3>5
    <3>6. CASE 2 * c + l = k
      BY <2>2, <2>5, <3>1, <3>2, <3>4, <3>6
    <3> QED BY <3>3, <3>5, <3>6
  <2>9. next \in [visited : SUBSET D, stack : Seq(D), cycle : Seq(D)]
    BY <1>1, <2>1, <2>2
  <2>10. next.visited = st.visited \cup {x} /\ next.stack = Front(st.stack) /\ next.cycle = <<>>
    BY <2>1
  <2>11. Entered(graph, k + 1, next)
    BY <2>8, <2>10, Zenon DEF Entered
  <2>12. OnSearch(graph, k + 1, next)
    BY <2>2, <2>3, <2>6, <2>7, <2>10, <2>11, Zenon DEF OnSearch
  <2> QED BY <2>9, <2>12, Zenon DEF Searching, Searches, next
<1>9. CASE st.cycle = <<>> /\ open # {} /\ node \in ToSet(st.stack)
  <2> DEFINE n == Len(st.stack)
             I == {i \in 1 .. n : st.stack[i] = node}
             cycle == Append(SubSeq(st.stack, again, n), node)
  <2>1. next = [visited |-> st.visited, stack |-> st.stack, cycle |-> cycle]
    <3>1. next = [st EXCEPT !.cycle = cycle]
      <4>1. ~(st.cycle # <<>> \/ (open = {} /\ st.stack = <<>>)) /\ open # {} /\ node \in ToSet(st.stack)
        BY <1>9
      <4> QED BY <4>1, Zenon DEF Visit
    <3> HIDE DEF next, open, cycle
    <3> QED BY <1>1, <3>1
  <2>2. n \in Nat /\ DOMAIN st.stack = 1 .. n /\ st.stack # <<>>
    BY <1>1, <1>9 DEF ToSet
  <2>3. again \in I
    <3>1. again = IF I # {} THEN Min(I) ELSE 0
      BY DEF SelectInSeq
    <3>2. I # {} /\ I \in SUBSET Nat
      <4>1. PICK i \in 1 .. n : st.stack[i] = node
        BY <1>9, <2>2 DEF ToSet
      <4>2. 1 .. n \subseteq Nat
        BY <2>2
      <4> HIDE DEF n, node
      <4> QED BY <4>1, <4>2
    <3>3. \E i \in I : \A j \in I : i <= j
      <4> HIDE DEF I
      <4> QED BY <3>2, LeastOf
    <3> HIDE DEF I
    <3> QED BY <3>1, <3>2, <3>3 DEF Min
  <2>4. again \in 1 .. n /\ st.stack[again] = node
    BY <2>3
  <2>5. node \in graph[Last(st.stack)] /\ node \in D
    BY <1>4, <1>5, <1>9, <2>2
  <2> HIDE DEF next, open, node, again
  <2>6. Closing(graph, st.stack, again, cycle)
    BY <2>4, <2>5 DEF Closing
  <2>7. cycle \in Seq(D) /\ cycle # <<>>
    <3>1. SubSeq(st.stack, again, n) \in Seq(D)
      BY <1>1, <2>2, <2>4
    <3>2. PICK r \in Seq(D) : r = SubSeq(st.stack, again, n)
      BY <3>1, Zenon
    <3>3. Append(r, node) \in Seq(D) /\ Append(r, node) # <<>>
      BY <2>5
    <3> QED BY <3>2, <3>3, Zenon
  <2> HIDE DEF cycle
  <2>8. next \in [visited : SUBSET D, stack : Seq(D), cycle : Seq(D)]
    BY <1>1, <2>1, <2>7
  <2>9. next.visited = st.visited /\ next.stack = st.stack /\ next.cycle = cycle
    BY <2>1
  <2>10. Closes(graph, st.stack, cycle)
    BY <2>6 DEF Closes
  <2>11. OnSearch(graph, k + 1, next)
    BY <1>1, <2>7, <2>9, <2>10, Zenon DEF OnSearch
  <2> QED BY <2>8, <2>11, Zenon DEF Searching, Searches, next
<1>10. CASE st.cycle = <<>> /\ open # {} /\ node \notin ToSet(st.stack)
  <2> DEFINE q == Append(st.stack, node)
  <2>1. next = [visited |-> st.visited, stack |-> q, cycle |-> <<>>]
    <3>1. next = [st EXCEPT !.stack = Append(@, node)]
      <4>1. ~(st.cycle # <<>> \/ (open = {} /\ st.stack = <<>>)) /\ open # {} /\ ~(node \in ToSet(st.stack))
        BY <1>10
      <4> QED BY <4>1, Zenon DEF Visit
    <3> HIDE DEF next, open
    <3> QED BY <1>1, <1>10, <3>1
  <2>2. node \in D /\ node \notin st.visited /\ (st.stack # <<>> => node \in graph[Last(st.stack)])
    BY <1>4, <1>5, <1>10
  <2> HIDE DEF next, open, node
  <2>3. /\ q \in Seq(D) /\ Len(q) = Len(st.stack) + 1 /\ Len(st.stack) \in Nat
        /\ \A i \in 1 .. Len(st.stack) : q[i] = st.stack[i]
        /\ q[Len(st.stack) + 1] = node /\ ToSet(q) = ToSet(st.stack) \cup {node}
        /\ IsInjective(q)
    BY <1>1, <1>10, <2>2, Longer
  <2> HIDE DEF q
  <2>4. IsWalk(graph, q)
    <3>1. PICK n \in Nat : n = Len(st.stack)
      BY <2>3
    <3> SUFFICES ASSUME NEW i \in 2 .. n + 1 PROVE q[i] \in graph[q[i - 1]]
      BY <2>3, <3>1 DEF IsWalk
    <3>2. i - 1 \in 1 .. n
      OBVIOUS
    <3>3. CASE i = n + 1
      <4>1. n # 0
        BY <3>2, <3>3
      <4>2. st.stack # <<>> /\ Last(st.stack) = st.stack[n]
        BY <1>1, <3>1, <4>1 DEF Last
      <4>3. q[i - 1] = st.stack[n] /\ q[i] = node
        BY <2>3, <3>1, <3>2, <3>3
      <4> QED BY <2>2, <4>2, <4>3
    <3>4. CASE i # n + 1
      <4>1. i \in 2 .. n /\ i \in 1 .. n
        BY <3>4
      <4>2. st.stack[i] \in graph[st.stack[i - 1]]
        BY <1>1, <3>1, <4>1 DEF IsWalk
      <4> QED BY <2>3, <3>1, <3>2, <4>1, <4>2
    <3> QED BY <3>3, <3>4
  <2>5. ToSet(q) \cap st.visited = {}
    BY <1>1, <2>2, <2>3
  <2>6. st.visited = D \/ 2 * Cardinality(st.visited) + Len(q) = k + 1
    <3>1. PICK c \in Nat : c = Cardinality(st.visited)
      BY <1>6
    <3>2. PICK l \in Nat : l = Len(st.stack)
      BY <2>3
    <3>3. st.visited = D \/ 2 * c + l = k
      BY <1>3, <1>10, <3>1, <3>2 DEF Entered
    <3>4. Len(q) = l + 1
      BY <2>3, <3>2
    <3>5. st.visited = D \/ 2 * c + Len(q) = k + 1
      <4> HIDE DEF q
      <4> QED BY <3>1, <3>2, <3>3, <3>4
    <3> QED BY <3>1, <3>5
  <2>7. next \in [visited : SUBSET D, stack : Seq(D), cycle : Seq(D)]
    BY <1>1, <2>1, <2>3
  <2>8. next.visited = st.visited /\ next.stack = q /\ next.cycle = <<>>
    BY <2>1
  <2>9. Entered(graph, k + 1, next)
    BY <2>6, <2>8, Zenon DEF Entered
  <2>10. OnSearch(graph, k + 1, next)
    BY <1>3, <1>10, <2>3, <2>4, <2>5, <2>8, <2>9, Zenon DEF OnSearch
  <2> QED BY <2>7, <2>10, Zenon DEF Searching, Searches, next
<1> QED BY <1>7, <1>8, <1>9, <1>10

(* The cycle that is found is that of a search after all its turns.           *)
LEMMA SearchRuns ==
    ASSUME NEW graph, Digraph(graph)
    PROVE  \E st \in Searching(graph, 2 * Cardinality(DOMAIN graph)) : FindCycle(graph) = st.cycle
<1> DEFINE n == 2 * Cardinality(DOMAIN graph)
           start == [visited |-> {}, stack |-> <<>>, cycle |-> <<>>]
           Turned(s, k) == Visit(graph, s)
           Kept(k) == Searching(graph, k)
<1>n. n \in Nat
  BY FS_CardinalityType DEF Digraph
<1> HIDE DEF n
<1>a. start \in Kept(0)
  <2>1. Falls(graph, {})
    <3>1. [v \in {} |-> 0] \in [{} -> Nat]
      OBVIOUS
    <3>2. FallsBy(graph, {}, [v \in {} |-> 0])
      BY <3>1 DEF FallsBy
    <3> QED BY <3>2 DEF Falls
  <2>2. start \in Searches(graph)
    BY DEF Searches
  <2>3. IsInjective(<<>>) /\ IsWalk(graph, <<>>) /\ ToSet(<<>>) = {}
    BY DEF IsInjective, IsWalk, ToSet
  <2>4. Entered(graph, 0, start)
    BY FS_EmptySet DEF Entered
  <2>5. start.visited = {} /\ start.stack = <<>> /\ start.cycle = <<>>
    OBVIOUS
  <2>6. ToSet(<<>>) \cap {} = {}
    OBVIOUS
  <2> HIDE DEF start
  <2>7. OnSearch(graph, 0, start)
    BY <2>1, <2>3, <2>4, <2>5, <2>6, Zenon DEF OnSearch
  <2> QED BY <2>2, <2>7, Zenon DEF Searching
<1>b. ASSUME NEW k \in 1 .. n, NEW s \in Kept(k - 1) PROVE Turned(s, k) \in Kept(k)
  <2>1. k - 1 \in Nat /\ (k - 1) + 1 = k
    BY <1>n
  <2>2. Visit(graph, s) \in Searching(graph, (k - 1) + 1)
    BY <2>1, VisitSearches
  <2> QED BY <2>1, <2>2
<1> DEFINE kept == [k \in 0 .. n |-> Kept(k)]
           turn == [k \in 1 .. n |-> [s \in Kept(k - 1) |-> Turned(s, k)]]
           Is(f) == f = [k \in 0 .. n |-> IF k = 0 THEN start ELSE Turned(f[k - 1], k)]
           run == CHOOSE f : Is(f)
<1>r1. start \in kept[0]
  <2>1. 0 \in 0 .. n
    BY <1>n
  <2> HIDE DEF Kept
  <2> QED BY <1>a, <2>1
<1>r2. /\ \A k \in 1 .. n : \A s \in kept[k - 1] : turn[k][s] \in kept[k]
       /\ \A k \in 1 .. n : \A s \in kept[k - 1] : turn[k][s] = Turned(s, k)
  <2> HIDE DEF Kept, Turned
  <2> SUFFICES ASSUME NEW k \in 1 .. n, NEW s \in kept[k - 1]
               PROVE  turn[k][s] \in kept[k] /\ turn[k][s] = Turned(s, k)
    OBVIOUS
  <2>1. k \in 0 .. n /\ k - 1 \in 0 .. n
    BY <1>n
  <2>2. kept[k - 1] = Kept(k - 1) /\ kept[k] = Kept(k)
    BY <2>1
  <2>3. turn[k][s] = Turned(s, k)
    BY <2>2
  <2>4. Turned(s, k) \in Kept(k)
    BY <1>b, <2>2
  <2> QED BY <2>2, <2>3, <2>4
<1>r3. \A k \in 0 .. n : kept[k] = Kept(k)
  <2> HIDE DEF Kept
  <2> QED OBVIOUS
<1> HIDE DEF turn, kept, Turned, Kept, start
<1>r4. PICK f : IsRun(turn, start, n, f) /\ \A k \in 0 .. n : f[k] \in kept[k]
  BY <1>n, <1>r1, <1>r2, Runs, Zenon
<1>r5. Is(f)
  <2>1. PICK e : e = [k \in 0 .. n |-> IF k = 0 THEN start ELSE turn[k][f[k - 1]]]
    OBVIOUS
  <2>2. PICK h : h = [k \in 0 .. n |-> IF k = 0 THEN start ELSE Turned(f[k - 1], k)]
    OBVIOUS
  <2>3. ASSUME NEW k \in 0 .. n PROVE e[k] = h[k]
    <3>1. CASE k = 0
      BY <2>1, <2>2, <3>1
    <3>2. CASE k # 0
      <4>1. k \in 1 .. n /\ k - 1 \in 0 .. n
        BY <1>n, <3>2
      <4>2. turn[k][f[k - 1]] = Turned(f[k - 1], k)
        BY <1>r2, <1>r4, <4>1, Zenon
      <4> QED BY <2>1, <2>2, <3>2, <4>2
    <3> QED BY <3>1, <3>2
  <2>4. e = h
    BY <2>1, <2>2, <2>3
  <2> QED BY <1>r4, <2>1, <2>2, <2>4, Zenon DEF IsRun
<1>r6. Is(run)
  BY <1>r5, Zenon
<1>r7. run[0] = start /\ \A k \in 1 .. n : run[k] = Turned(run[k - 1], k)
  <2> HIDE DEF run
  <2>1. PICK e : e = [k \in 0 .. n |-> IF k = 0 THEN start ELSE Turned(run[k - 1], k)]
    OBVIOUS
  <2>2. e[0] = start /\ \A k \in 1 .. n : e[k] = Turned(run[k - 1], k)
    BY <1>n, <2>1
  <2> QED BY <1>r6, <2>1, <2>2
<1>r8. \A k \in 0 .. n : run[k] \in Kept(k)
  <2> DEFINE K == {k \in 0 .. n : run[k] \in Kept(k)}
  <2> HIDE DEF run
  <2>1. 0 \in K
    BY <1>n, <1>a, <1>r7
  <2>2. ASSUME NEW k \in 1 .. n, k - 1 \in K PROVE k \in K
    <3>1. run[k - 1] \in Kept(k - 1) /\ run[k] = Turned(run[k - 1], k) /\ k \in 0 .. n
      BY <1>n, <1>r7, <2>2
    <3> QED BY <1>b, <3>1
  <2> HIDE DEF K
  <2>3. \A k \in 0 .. n : k \in K
    BY <1>n, <2>1, <2>2, Climb
  <2> QED BY <2>3 DEF K
<1>r9. FindCycle(graph) = run[n].cycle
  BY Zenon DEF FindCycle, Repeated, run, n, Turned, start
<1>r10. n \in 0 .. n
  BY <1>n
<1> QED BY <1>r8, <1>r9, <1>r10, Zenon DEF Kept, n

(* Along a walk the ranks fall.                                               *)
LEMMA WalkFalls ==
    ASSUME NEW graph, NEW rank, FallsBy(graph, DOMAIN graph, rank),
           NEW p \in Seq(DOMAIN graph), IsWalk(graph, p)
    PROVE  \A i, j \in 1 .. Len(p) : i < j => rank[p[j]] < rank[p[i]]
<1> DEFINE D == DOMAIN graph
<1>1. PICK n \in Nat : n = Len(p)
  OBVIOUS
<1>2. \A i \in 1 .. n : p[i] \in D
  BY <1>1
<1>3. /\ \A v \in D : rank[v] \in Nat
      /\ \A v \in D : \A t \in graph[v] : t \in D /\ rank[t] < rank[v]
  BY DEF FallsBy
<1>4. \A i \in 2 .. n : p[i] \in graph[p[i - 1]]
  BY <1>1 DEF IsWalk
<1> DEFINE K == {k \in 0 .. n : \A i \in 1 .. k : i < k => rank[p[k]] < rank[p[i]]}
<1>5. 0 \in K
  OBVIOUS
<1>6. ASSUME NEW k \in 1 .. n, k - 1 \in K PROVE k \in K
  <2> SUFFICES ASSUME NEW i \in 1 .. k, i < k PROVE rank[p[k]] < rank[p[i]]
    OBVIOUS
  <2>1. k \in 2 .. n /\ k - 1 \in 1 .. n /\ i \in 1 .. k - 1 /\ i \in 1 .. n
    OBVIOUS
  <2>2. rank[p[k]] < rank[p[k - 1]]
    BY <1>2, <1>3, <1>4, <2>1
  <2>3. i = k - 1 \/ rank[p[k - 1]] < rank[p[i]]
    BY <1>6, <2>1
  <2>4. rank[p[k]] \in Nat /\ rank[p[k - 1]] \in Nat /\ rank[p[i]] \in Nat
    BY <1>2, <1>3, <2>1
  <2> QED BY <2>2, <2>3, <2>4
<1>7. \A k \in 0 .. n : k \in K
  <2> HIDE DEF K
  <2> QED BY <1>5, <1>6, Climb
<1>8. ASSUME NEW i \in 1 .. n, NEW j \in 1 .. n, i < j PROVE rank[p[j]] < rank[p[i]]
  <2>1. j \in K
    BY <1>7
  <2> QED BY <1>8, <2>1
<1> QED BY <1>1, <1>8

(* After all its turns a search without a cycle has left every node.          *)
LEMMA NothingLeft ==
    ASSUME NEW graph, Digraph(graph), NEW st \in Searching(graph, 2 * Cardinality(DOMAIN graph)), st.cycle = <<>>
    PROVE  Falls(graph, DOMAIN graph)
<1> DEFINE D == DOMAIN graph
<1>1. /\ st.visited \subseteq D /\ st.stack \in Seq(D) /\ IsInjective(st.stack)
      /\ ToSet(st.stack) \cap st.visited = {}
      /\ Falls(graph, st.visited) /\ Entered(graph, 2 * Cardinality(D), st)
  BY DEF Searching, Searches, OnSearch
<1>2. IsFiniteSet(D) /\ IsFiniteSet(st.visited)
  BY <1>1, FS_Subset DEF Digraph
<1>3. IsFiniteSet(ToSet(st.stack)) /\ Cardinality(ToSet(st.stack)) = Len(st.stack) /\ ToSet(st.stack) \subseteq D
  BY <1>1, AsMany
<1>4. PICK c \in Nat : c = Cardinality(st.visited)
  BY <1>2, FS_CardinalityType
<1>5. PICK l \in Nat : l = Len(st.stack)
  BY <1>1
<1>6. PICK N \in Nat : N = Cardinality(D)
  BY <1>2, FS_CardinalityType
<1>7. Cardinality(ToSet(st.stack) \cup st.visited) = l + c
  <2>1. Cardinality(ToSet(st.stack) \cup st.visited) =
            Cardinality(ToSet(st.stack)) + Cardinality(st.visited) - Cardinality(ToSet(st.stack) \cap st.visited)
    BY <1>2, <1>3, FS_Union
  <2>2. Cardinality(ToSet(st.stack) \cap st.visited) = 0
    BY <1>1, FS_EmptySet
  <2> QED BY <1>3, <1>4, <1>5, <2>1, <2>2
<1>8. l + c <= N
  <2>1. ToSet(st.stack) \cup st.visited \subseteq D
    BY <1>1, <1>3
  <2>2. Cardinality(ToSet(st.stack) \cup st.visited) <= Cardinality(D)
    BY <1>2, <2>1, FS_Subset
  <2> QED BY <1>6, <1>7, <2>2
<1>9. st.visited = D \/ 2 * c + l = 2 * N
  BY <1>1, <1>4, <1>5, <1>6 DEF Entered
<1>10. st.visited = D \/ c = N
  BY <1>8, <1>9
<1>11. st.visited = D
  BY <1>1, <1>2, <1>4, <1>6, <1>10, FS_Subset
<1> QED BY <1>1, <1>11

(* A cycle is found exactly when a walk closes, and is one (graph.ts): for    *)
(* every finite graph, within the turns that entering and leaving each node   *)
(* once takes.                                                                *)
THEOREM CycleIsTold ==
    ASSUME NEW graph, Digraph(graph)
    PROVE  LET cycle == FindCycle(graph)
               closed == \E p \in Paths(graph) : p # <<>> /\ p[1] \in graph[Last(p)]
           IN /\ closed <=> cycle # <<>>
              /\ closed => IsWalk(graph, cycle) /\ Head(cycle) = Last(cycle) /\ Len(cycle) > 1
              /\ cycle = <<>> => Falls(graph, DOMAIN graph)
<1> DEFINE D == DOMAIN graph
           N == Cardinality(D)
           cycle == FindCycle(graph)
           closed == \E p \in Paths(graph) : p # <<>> /\ p[1] \in graph[Last(p)]
<1>1. PICK st \in Searching(graph, 2 * N) : cycle = st.cycle
  BY SearchRuns
<1>2. cycle = <<>> => Falls(graph, D)
  BY <1>1, NothingLeft
<1>3. ASSUME Falls(graph, D), closed PROVE FALSE
  <2>1. PICK rank : FallsBy(graph, D, rank)
    BY <1>3 DEF Falls
  <2>2. PICK p \in Paths(graph) : p # <<>> /\ p[1] \in graph[Last(p)]
    BY <1>3
  <2>3. p \in Seq(D) /\ IsWalk(graph, p)
    BY <2>2 DEF Paths, BoundedSeq, SeqOf
  <2>4. PICK n \in Nat : n = Len(p) /\ n >= 1
    BY <2>2, <2>3
  <2>5. p[1] \in D /\ p[n] \in D /\ Last(p) = p[n]
    BY <2>3, <2>4 DEF Last
  <2>6. rank[p[1]] < rank[p[n]] /\ rank[p[1]] \in Nat /\ rank[p[n]] \in Nat
    BY <2>1, <2>2, <2>5 DEF FallsBy
  <2>7. 1 < n => rank[p[n]] < rank[p[1]]
    BY <2>1, <2>3, <2>4, WalkFalls
  <2> QED BY <2>4, <2>6, <2>7
<1>4. ASSUME cycle # <<>>
      PROVE  closed /\ IsWalk(graph, cycle) /\ Head(cycle) = Last(cycle) /\ Len(cycle) > 1
  <2>1. st.stack \in Seq(D) /\ IsInjective(st.stack) /\ IsWalk(graph, st.stack) /\ Closes(graph, st.stack, cycle)
    BY <1>1, <1>4 DEF Searching, Searches, OnSearch
  <2>2. PICK i : Closing(graph, st.stack, i, cycle)
    BY <2>1 DEF Closes
  <2>3. PICK n \in Nat : n = Len(st.stack)
    BY <2>1
  <2> DEFINE p == SubSeq(st.stack, i, n)
             x == st.stack[i]
  <2>4. i \in 1 .. n /\ x \in graph[Last(st.stack)] /\ cycle = Append(p, x) /\ x \in D
    BY <2>1, <2>2, <2>3 DEF Closing
  <2>5. PICK m \in Nat : m = n - i + 1 /\ m >= 1
    <3>1. i \in 1 .. n
      BY <2>4
    <3>2. n - i + 1 \in Nat /\ n - i + 1 >= 1
      BY <2>3, <3>1
    <3> QED BY <3>2
  <2>6. p \in Seq(D) /\ Len(p) = m /\ DOMAIN p = 1 .. m /\ \A j \in 1 .. m : p[j] = st.stack[j + i - 1]
    BY <2>1, <2>3, <2>4, <2>5
  <2> HIDE DEF p
  <2>7. \A j \in 1 .. m : j + i - 1 \in 1 .. n
    BY <2>4, <2>5
  <2>8. IsInjective(p)
    <3>1. \A a, b \in 1 .. n : st.stack[a] = st.stack[b] => a = b
      BY <2>1, <2>3 DEF IsInjective
    <3>2. ASSUME NEW a \in 1 .. m, NEW b \in 1 .. m, p[a] = p[b] PROVE a = b
      <4>1. a + i - 1 = b + i - 1
        BY <2>6, <2>7, <3>1, <3>2
      <4> QED BY <2>4, <4>1
    <3> QED BY <2>6, <3>2 DEF IsInjective
  <2>9. \A j \in 2 .. m : p[j] \in graph[p[j - 1]]
    <3> SUFFICES ASSUME NEW j \in 2 .. m PROVE p[j] \in graph[p[j - 1]]
      OBVIOUS
    <3>1. j \in 1 .. m /\ j - 1 \in 1 .. m /\ (j - 1) + i - 1 = (j + i - 1) - 1 /\ j + i - 1 \in 2 .. n
      BY <2>4, <2>5
    <3>2. st.stack[j + i - 1] \in graph[st.stack[(j + i - 1) - 1]]
      BY <2>1, <2>3, <3>1 DEF IsWalk
    <3> QED BY <2>6, <3>1, <3>2
  <2>10. p[1] = x /\ p[m] = st.stack[n] /\ Last(p) = Last(st.stack) /\ p # <<>>
    <3>1. 1 \in 1 .. m /\ m \in 1 .. m /\ 1 + i - 1 = i /\ m + i - 1 = n
      BY <2>4, <2>5
    <3>2. p[1] = x /\ p[m] = st.stack[n]
      BY <2>6, <3>1
    <3> QED BY <2>3, <2>5, <2>6, <3>2 DEF Last
  <2>11. p \in Paths(graph)
    <3>1. m <= N /\ N \in Nat
      BY <2>6, <2>8, AsMany, FS_CardinalityType DEF Digraph
    <3>2. p \in [1 .. m -> D] /\ m \in 0 .. N
      BY <2>6, <3>1
    <3>3. p \in BoundedSeq(D, N)
      BY <3>2 DEF BoundedSeq, SeqOf
    <3>4. IsWalk(graph, p)
      BY <2>6, <2>9 DEF IsWalk
    <3> QED BY <2>8, <3>3, <3>4 DEF Paths
  <2>12. closed
    <3>1. p[1] \in graph[Last(p)]
      BY <2>4, <2>10
    <3> QED BY <2>10, <2>11, <3>1
  <2> HIDE DEF x
  <2>13. /\ cycle \in Seq(D) /\ Len(cycle) = m + 1 /\ cycle[m + 1] = x /\ Last(cycle) = x
         /\ \A j \in 1 .. m : cycle[j] = p[j]
    BY <2>4, <2>6, Longer
  <2> HIDE DEF cycle, closed
  <2>14. Head(cycle) = x
    BY <2>5, <2>10, <2>13
  <2>15. IsWalk(graph, cycle)
    <3> SUFFICES ASSUME NEW j \in 2 .. m + 1 PROVE cycle[j] \in graph[cycle[j - 1]]
      BY <2>13 DEF IsWalk
    <3>1. j - 1 \in 1 .. m
      BY <2>5
    <3>2. CASE j = m + 1
      <4>1. cycle[j] = x /\ cycle[j - 1] = p[m]
        BY <2>13, <3>1, <3>2
      <4>2. Last(st.stack) = st.stack[n]
        BY <2>3 DEF Last
      <4> QED BY <2>4, <2>10, <4>1, <4>2
    <3>3. CASE j # m + 1
      <4>1. j \in 2 .. m /\ j \in 1 .. m
        BY <3>3, <2>5
      <4> QED BY <2>9, <2>13, <3>1, <4>1
    <3> QED BY <3>2, <3>3
  <2> QED BY <2>5, <2>12, <2>13, <2>14, <2>15
<1> HIDE DEF cycle, closed
<1>5. /\ closed <=> cycle # <<>>
      /\ closed => IsWalk(graph, cycle) /\ Head(cycle) = Last(cycle) /\ Len(cycle) > 1
      /\ cycle = <<>> => Falls(graph, DOMAIN graph)
  BY <1>2, <1>3, <1>4
<1> QED BY <1>5 DEF cycle, closed

(* ---- Kahn's order ------------------------------------------------------------ *)
(* Every node of the order comes after its predecessors.                      *)
Topological(graph, order) ==
    /\ order \in Seq(DOMAIN graph) /\ IsInjective(order)
    /\ \A i \in 1 .. Len(order) :
          \A m \in Predecessors(graph, order[i]) : \E j \in 1 .. i - 1 : order[j] = m

(* Where every walk falls some node outside the order is ready.               *)
LEMMA OneIsReady ==
    ASSUME NEW graph, Digraph(graph), Falls(graph, DOMAIN graph),
           NEW order \in Seq(DOMAIN graph), DOMAIN graph \ ToSet(order) # {}
    PROVE  Ready(graph, order) # {}
<1> DEFINE D == DOMAIN graph
           Out == D \ ToSet(order)
<1>1. PICK rank : FallsBy(graph, D, rank)
  BY DEF Falls
<1>2. PICK N \in Nat : N = Cardinality(D)
  BY FS_CardinalityType DEF Digraph
<1>3. \A v \in D : rank[v] \in Nat /\ rank[v] < N /\ \A t \in graph[v] : rank[t] < rank[v]
  BY <1>1, <1>2 DEF FallsBy
<1> DEFINE Depths == {N - rank[v] : v \in Out}
<1>4. Depths \in SUBSET Nat /\ Depths # {}
  BY <1>3
<1>5. PICK l \in Depths : \A k \in Depths : l <= k
  <2> HIDE DEF Depths
  <2> QED BY <1>4, LeastOf
<1>6. PICK v \in Out : l = N - rank[v]
  OBVIOUS
<1>7. ASSUME NEW m \in Predecessors(graph, v), m \notin ToSet(order) PROVE FALSE
  <2>1. m \in Out /\ v \in graph[m] /\ m \in D /\ v \in D
    BY <1>7 DEF Predecessors
  <2>2. rank[v] < rank[m] /\ rank[v] \in Nat /\ rank[m] \in Nat
    BY <1>3, <2>1
  <2>3. N - rank[v] <= N - rank[m]
    BY <1>5, <1>6, <2>1
  <2> QED BY <2>2, <2>3
<1>8. v \in Ready(graph, order)
  BY <1>7 DEF Ready
<1> QED BY <1>8

(* Of a graph without a cycle, Kahn's algorithm orders every node after its   *)
(* predecessors (graph.ts).                                                   *)
THEOREM OrderIsTopological ==
    ASSUME NEW graph, Digraph(graph), Falls(graph, DOMAIN graph)
    PROVE  /\ Topological(graph, TopologicalOrder(graph))
           /\ Len(TopologicalOrder(graph)) = Cardinality(DOMAIN graph)
           /\ ToSet(TopologicalOrder(graph)) = DOMAIN graph
<1> DEFINE D == DOMAIN graph
           n == Cardinality(D)
           start == <<>>
           Turned(s, k) == IF Ready(graph, s) = {} THEN s ELSE Append(s, Least(Ready(graph, s)))
           Kept(k) == {s \in Seq(D) : Topological(graph, s) /\ Len(s) = k}
<1>n. n \in Nat
  BY FS_CardinalityType DEF Digraph
<1> HIDE DEF n
<1>a. start \in Kept(0)
  <2>1. <<>> \in Seq(D) /\ IsInjective(<<>>) /\ Len(<<>>) = 0
    BY DEF IsInjective
  <2> QED BY <2>1 DEF Topological
<1>b. ASSUME NEW k \in 1 .. n, NEW s \in Kept(k - 1) PROVE Turned(s, k) \in Kept(k)
  <2>1. s \in Seq(D) /\ Topological(graph, s) /\ Len(s) = k - 1 /\ IsInjective(s)
    BY <1>b DEF Topological
  <2>2. D \ ToSet(s) # {}
    <3>1. IsFiniteSet(D) /\ IsFiniteSet(ToSet(s)) /\ Cardinality(ToSet(s)) = k - 1 /\ ToSet(s) \subseteq D
      BY <2>1, AsMany DEF Digraph
    <3>2. Cardinality(D) # k - 1
      BY <1>n DEF n
    <3>3. ToSet(s) # D
      BY <3>1, <3>2
    <3> QED BY <3>1, <3>3
  <2> DEFINE x == Least(Ready(graph, s))
  <2>3. Ready(graph, s) # {}
    BY <2>1, <2>2, OneIsReady
  <2>4. x \in Ready(graph, s)
    BY <2>3, LeastIs
  <2>5. x \in D /\ x \notin ToSet(s) /\ Predecessors(graph, x) \subseteq ToSet(s)
    BY <2>4 DEF Ready
  <2>6. Turned(s, k) = Append(s, x)
    BY <2>3
  <2> HIDE DEF x, Turned
  <2> DEFINE q == Append(s, x)
  <2>7. /\ q \in Seq(D) /\ Len(q) = (k - 1) + 1 /\ IsInjective(q)
        /\ \A i \in 1 .. k - 1 : q[i] = s[i]
        /\ q[(k - 1) + 1] = x
    BY <2>1, <2>5, Longer
  <2> HIDE DEF q
  <2>8. ASSUME NEW i \in 1 .. k, NEW m \in Predecessors(graph, q[i]) PROVE \E j \in 1 .. i - 1 : q[j] = m
    <3>1. CASE i = k
      <4>1. q[i] = x /\ m \in ToSet(s)
        BY <1>n, <2>5, <2>7, <2>8, <3>1
      <4>2. PICK j \in 1 .. k - 1 : s[j] = m
        BY <2>1, <4>1 DEF ToSet
      <4> QED BY <2>7, <3>1, <4>2
    <3>2. CASE i # k
      <4>1. i \in 1 .. k - 1 /\ q[i] = s[i]
        BY <1>n, <2>7, <3>2
      <4>2. PICK j \in 1 .. i - 1 : s[j] = m
        BY <2>1, <2>8, <4>1 DEF Topological
      <4>3. j \in 1 .. k - 1
        BY <4>1, <4>2
      <4> QED BY <2>7, <4>2, <4>3
    <3> QED BY <3>1, <3>2
  <2>9. (k - 1) + 1 = k
    BY <1>n
  <2>10. Topological(graph, q)
    BY <2>7, <2>8, <2>9 DEF Topological
  <2> QED BY <2>6, <2>7, <2>9, <2>10 DEF q
<1> DEFINE kept == [k \in 0 .. n |-> Kept(k)]
           turn == [k \in 1 .. n |-> [s \in Kept(k - 1) |-> Turned(s, k)]]
           Is(f) == f = [k \in 0 .. n |-> IF k = 0 THEN start ELSE Turned(f[k - 1], k)]
           run == CHOOSE f : Is(f)
<1>r1. start \in kept[0]
  <2>1. 0 \in 0 .. n
    BY <1>n
  <2> HIDE DEF Kept
  <2> QED BY <1>a, <2>1
<1>r2. /\ \A k \in 1 .. n : \A s \in kept[k - 1] : turn[k][s] \in kept[k]
       /\ \A k \in 1 .. n : \A s \in kept[k - 1] : turn[k][s] = Turned(s, k)
  <2> HIDE DEF Kept, Turned
  <2> SUFFICES ASSUME NEW k \in 1 .. n, NEW s \in kept[k - 1]
               PROVE  turn[k][s] \in kept[k] /\ turn[k][s] = Turned(s, k)
    OBVIOUS
  <2>1. k \in 0 .. n /\ k - 1 \in 0 .. n
    BY <1>n
  <2>2. kept[k - 1] = Kept(k - 1) /\ kept[k] = Kept(k)
    BY <2>1
  <2>3. turn[k][s] = Turned(s, k)
    BY <2>2
  <2>4. Turned(s, k) \in Kept(k)
    BY <1>b, <2>2
  <2> QED BY <2>2, <2>3, <2>4
<1>r3. \A k \in 0 .. n : kept[k] = Kept(k)
  <2> HIDE DEF Kept
  <2> QED OBVIOUS
<1> HIDE DEF turn, kept, Turned, Kept, start
<1>r4. PICK f : IsRun(turn, start, n, f) /\ \A k \in 0 .. n : f[k] \in kept[k]
  BY <1>n, <1>r1, <1>r2, Runs, Zenon
<1>r5. Is(f)
  <2>1. PICK e : e = [k \in 0 .. n |-> IF k = 0 THEN start ELSE turn[k][f[k - 1]]]
    OBVIOUS
  <2>2. PICK h : h = [k \in 0 .. n |-> IF k = 0 THEN start ELSE Turned(f[k - 1], k)]
    OBVIOUS
  <2>3. ASSUME NEW k \in 0 .. n PROVE e[k] = h[k]
    <3>1. CASE k = 0
      BY <2>1, <2>2, <3>1
    <3>2. CASE k # 0
      <4>1. k \in 1 .. n /\ k - 1 \in 0 .. n
        BY <1>n, <3>2
      <4>2. turn[k][f[k - 1]] = Turned(f[k - 1], k)
        BY <1>r2, <1>r4, <4>1, Zenon
      <4> QED BY <2>1, <2>2, <3>2, <4>2
    <3> QED BY <3>1, <3>2
  <2>4. e = h
    BY <2>1, <2>2, <2>3
  <2> QED BY <1>r4, <2>1, <2>2, <2>4, Zenon DEF IsRun
<1>r6. Is(run)
  BY <1>r5, Zenon
<1>r7. run[0] = start /\ \A k \in 1 .. n : run[k] = Turned(run[k - 1], k)
  <2> HIDE DEF run
  <2>1. PICK e : e = [k \in 0 .. n |-> IF k = 0 THEN start ELSE Turned(run[k - 1], k)]
    OBVIOUS
  <2>2. e[0] = start /\ \A k \in 1 .. n : e[k] = Turned(run[k - 1], k)
    BY <1>n, <2>1
  <2> QED BY <1>r6, <2>1, <2>2
<1>r8. \A k \in 0 .. n : run[k] \in Kept(k)
  <2> DEFINE K == {k \in 0 .. n : run[k] \in Kept(k)}
  <2> HIDE DEF run
  <2>1. 0 \in K
    BY <1>n, <1>a, <1>r7
  <2>2. ASSUME NEW k \in 1 .. n, k - 1 \in K PROVE k \in K
    <3>1. run[k - 1] \in Kept(k - 1) /\ run[k] = Turned(run[k - 1], k) /\ k \in 0 .. n
      BY <1>n, <1>r7, <2>2
    <3> QED BY <1>b, <3>1
  <2> HIDE DEF K
  <2>3. \A k \in 0 .. n : k \in K
    BY <1>n, <2>1, <2>2, Climb
  <2> QED BY <2>3 DEF K
<1> DEFINE order == run[n]
<1>1. n \in 0 .. n
  BY <1>n
<1>2. order \in Seq(D) /\ Topological(graph, order) /\ Len(order) = n
  BY <1>r8, <1>1 DEF Kept
<1>3. TopologicalOrder(graph) = IF Len(order) = n THEN order ELSE <<>>
  BY Zenon DEF TopologicalOrder, Repeated, order, run, n, Turned, start
<1> HIDE DEF order
<1>4. TopologicalOrder(graph) = order
  BY <1>2, <1>3
<1>5. ToSet(order) = D
  <2>1. IsFiniteSet(D) /\ Cardinality(ToSet(order)) = n /\ ToSet(order) \subseteq D
    BY <1>2, AsMany DEF Digraph, Topological
  <2> QED BY <2>1, FS_Subset DEF n
<1> QED BY <1>2, <1>4, <1>5 DEF n

(* ---- the scores ---------------------------------------------------------------- *)
(* A node's score is its weight, or that and the score of the node before it; *)
(* the first k nodes of the order have told their targets.                    *)
Explained(graph, weights, order, k, score, previous) ==
    \A n \in DOMAIN graph :
       /\ previous[n] = Absent => score[n] = weights[n]
       /\ previous[n] # Absent =>
             /\ previous[n] \in DOMAIN graph /\ n \in graph[previous[n]]
             /\ \E j \in 1 .. k : order[j] = previous[n]
             /\ score[n] = score[previous[n]] + weights[n]
       /\ weights[n] <= score[n]
Told(graph, weights, order, k, score) ==
    \A j \in 1 .. k : \A n \in graph[order[j]] : score[order[j]] + weights[n] <= score[n]
Scores(graph) == [score : [DOMAIN graph -> Int], previous : [DOMAIN graph -> DOMAIN graph \cup {Absent}]]
Scoring(graph, weights, order, k) ==
    {st \in Scores(graph) : /\ Explained(graph, weights, order, k, st.score, st.previous)
                            /\ Told(graph, weights, order, k, st.score)}

(* Relaxing the edges of the k-th node keeps the scores explained.            *)
LEMMA RelaxedScores ==
    ASSUME NEW graph, Digraph(graph), NEW weights \in [DOMAIN graph -> Int],
           NEW order, Topological(graph, order), Absent \notin DOMAIN graph,
           NEW k \in 1 .. Len(order), NEW st \in Scoring(graph, weights, order, k - 1)
    PROVE  Relaxed(graph, weights, st, order[k]) \in Scoring(graph, weights, order, k)
<1> DEFINE D == DOMAIN graph
           source == order[k]
<1>1. PICK score \in [D -> Int], previous \in [D -> D \cup {Absent}] :
        score = st.score /\ previous = st.previous
  BY DEF Scoring, Scores
<1>2. Explained(graph, weights, order, k - 1, score, previous) /\ Told(graph, weights, order, k - 1, score)
  BY <1>1 DEF Scoring
<1>3. PICK L \in Nat : L = Len(order)
  BY DEF Topological
<1>4. k \in 1 .. L /\ k - 1 \in Nat /\ \A j \in 1 .. k : j \in 1 .. L
  BY <1>3
<1>5. /\ \A j \in 1 .. L : order[j] \in D
      /\ \A i, j \in 1 .. L : order[i] = order[j] => i = j
  <2>1. order \in Seq(D) /\ IsInjective(order)
    BY DEF Topological
  <2>2. DOMAIN order = 1 .. L
    BY <1>3, <2>1
  <2>3. \A j \in 1 .. L : order[j] \in D
    BY <1>3, <2>1
  <2>4. \A i, j \in 1 .. L : order[i] = order[j] => i = j
    BY <2>1, <2>2, Zenon DEF IsInjective
  <2> QED BY <2>3, <2>4
<1>6. source \in D
  BY <1>4, <1>5
<1>7. \A v \in D : graph[v] \subseteq D
  BY DEF Digraph
<1> DEFINE candidate(m) == score[source] + weights[m]
           better == {m \in graph[source] : candidate(m) > score[m]}
           score2 == [m \in D |-> IF m \in better THEN candidate(m) ELSE score[m]]
           previous2 == [m \in D |-> IF m \in better THEN source ELSE previous[m]]
<1>8. Relaxed(graph, weights, st, source) = [score |-> score2, previous |-> previous2]
  <2>1. DOMAIN st.score = D /\ DOMAIN st.previous = D
    BY <1>1
  <2> QED BY <1>1, <2>1 DEF Relaxed
<1>9. \A j \in 1 .. k : order[j] \notin graph[source]
  <2>1. ASSUME NEW j \in 1 .. k, order[j] \in graph[source] PROVE FALSE
    <3>1. source \in Predecessors(graph, order[j]) /\ j \in 1 .. L
      BY <1>4, <1>6, <2>1 DEF Predecessors
    <3>2. PICK i \in 1 .. j - 1 : order[i] = source
      BY <1>3, <3>1 DEF Topological
    <3>3. i \in 1 .. L /\ i # k
      BY <1>4, <3>2
    <3> QED BY <1>4, <1>5, <3>2, <3>3
  <2> QED BY <2>1
<1>10. \A m \in D : score[m] \in Int /\ weights[m] \in Int /\ candidate(m) \in Int
  BY <1>6
<1>11. \A m \in D : score2[m] = IF m \in better THEN candidate(m) ELSE score[m]
  OBVIOUS
<1>12. \A m \in D : previous2[m] = IF m \in better THEN source ELSE previous[m]
  OBVIOUS
<1>13. score2 \in [D -> Int] /\ previous2 \in [D -> D \cup {Absent}]
  BY <1>6, <1>10
<1>14. \A j \in 1 .. k : score2[order[j]] = score[order[j]]
  <2>1. ASSUME NEW j \in 1 .. k PROVE score2[order[j]] = score[order[j]]
    <3>1. order[j] \notin better /\ order[j] \in D
      BY <1>4, <1>5, <1>9
    <3> QED BY <1>11, <3>1
  <2> QED BY <2>1
<1>15. \A m \in D : score[m] <= score2[m]
  <2>1. ASSUME NEW m \in D PROVE score[m] <= score2[m]
    <3>1. CASE m \in better
      <4>1. score2[m] = candidate(m) /\ candidate(m) > score[m]
        BY <1>11, <3>1
      <4> QED BY <1>10, <4>1
    <3>2. CASE m \notin better
      BY <1>10, <1>11, <3>2
    <3> QED BY <3>1, <3>2
  <2> QED BY <2>1
<1> HIDE DEF score2, previous2
<1>16. ASSUME NEW m \in D
       PROVE  /\ previous2[m] = Absent => score2[m] = weights[m]
              /\ previous2[m] # Absent =>
                    /\ previous2[m] \in D /\ m \in graph[previous2[m]]
                    /\ \E j \in 1 .. k : order[j] = previous2[m]
                    /\ score2[m] = score2[previous2[m]] + weights[m]
              /\ weights[m] <= score2[m]
  <2>1. weights[m] <= score[m]
    BY <1>2 DEF Explained
  <2>2. weights[m] <= score2[m]
    BY <1>10, <1>13, <1>15, <2>1
  <2>3. CASE m \in better
    <3>1. previous2[m] = source /\ score2[m] = score[source] + weights[m] /\ m \in graph[source]
      BY <1>11, <1>12, <2>3
    <3>2. k \in 1 .. k /\ score2[source] = score[source]
      BY <1>4, <1>14
    <3> QED BY <1>6, <2>2, <3>1, <3>2
  <2>4. CASE m \notin better
    <3>1. previous2[m] = previous[m] /\ score2[m] = score[m]
      BY <1>11, <1>12, <2>4
    <3>2. previous[m] = Absent => score[m] = weights[m]
      BY <1>2 DEF Explained
    <3>3. ASSUME previous[m] # Absent
          PROVE  /\ previous[m] \in D /\ m \in graph[previous[m]]
                 /\ \E j \in 1 .. k : order[j] = previous[m]
                 /\ score[m] = score2[previous[m]] + weights[m]
      <4>1. /\ previous[m] \in D /\ m \in graph[previous[m]]
            /\ score[m] = score[previous[m]] + weights[m]
        BY <1>2, <3>3 DEF Explained
      <4>2. PICK j \in 1 .. k - 1 : order[j] = previous[m]
        BY <1>2, <3>3 DEF Explained
      <4>3. j \in 1 .. k
        BY <1>4
      <4>4. score2[previous[m]] = score[previous[m]]
        BY <1>14, <4>2, <4>3
      <4> QED BY <4>1, <4>2, <4>3, <4>4
    <3> QED BY <2>2, <3>1, <3>2, <3>3
  <2> QED BY <2>3, <2>4
<1>17. ASSUME NEW j \in 1 .. k, NEW m \in graph[order[j]]
       PROVE  score2[order[j]] + weights[m] <= score2[m]
  <2>1. m \in D /\ order[j] \in D
    BY <1>4, <1>5, <1>7
  <2>2. score2[order[j]] = score[order[j]] /\ score[m] <= score2[m]
    BY <1>14, <1>15, <2>1
  <2>3. CASE j = k /\ m \in better
    <3>1. score2[m] = score[source] + weights[m]
      BY <1>11, <2>1, <2>3
    <3> QED BY <1>10, <1>13, <2>1, <2>2, <2>3, <3>1
  <2>4. CASE j = k /\ m \notin better
    <3>1. ~(candidate(m) > score[m])
      BY <1>17, <2>4
    <3> QED BY <1>6, <1>10, <1>13, <2>1, <2>2, <2>4, <3>1
  <2>5. CASE j # k
    <3>1. j \in 1 .. k - 1
      BY <1>4, <2>5
    <3>2. score[order[j]] + weights[m] <= score[m]
      BY <1>2, <1>17, <3>1 DEF Told
    <3> QED BY <1>10, <1>13, <2>1, <2>2, <3>2
  <2> QED BY <2>3, <2>4, <2>5
<1>18. Explained(graph, weights, order, k, score2, previous2) /\ Told(graph, weights, order, k, score2)
  BY <1>16, <1>17, Zenon DEF Explained, Told
<1> DEFINE next == [score |-> score2, previous |-> previous2]
<1>19. next \in Scores(graph) /\ next.score = score2 /\ next.previous = previous2
  BY <1>13 DEF Scores
<1> HIDE DEF next
<1>20. next \in Scoring(graph, weights, order, k)
  BY <1>18, <1>19, Zenon DEF Scoring
<1> QED BY <1>8, <1>20 DEF next

(* At the end every node has told its targets.                                *)
LEMMA ScoredIs ==
    ASSUME NEW graph, Digraph(graph), NEW weights \in [DOMAIN graph -> Int],
           NEW order, Topological(graph, order), Absent \notin DOMAIN graph
    PROVE  Scored(graph, weights, order) \in Scoring(graph, weights, order, Len(order))
<1> DEFINE n == Len(order)
           start == [score |-> weights, previous |-> [v \in DOMAIN graph |-> Absent]]
           Turned(s, k) == Relaxed(graph, weights, s, order[k])
           Kept(k) == Scoring(graph, weights, order, k)
<1>n. n \in Nat
  BY DEF Topological
<1>a. start \in Kept(0)
  <2>1. start \in Scores(graph) /\ start.score = weights /\ start.previous = [v \in DOMAIN graph |-> Absent]
    BY DEF Scores
  <2>2. Explained(graph, weights, order, 0, weights, [v \in DOMAIN graph |-> Absent])
    BY DEF Explained
  <2>3. Told(graph, weights, order, 0, weights)
    BY DEF Told
  <2> HIDE DEF start
  <2> QED BY <2>1, <2>2, <2>3, Zenon DEF Scoring
<1>b. ASSUME NEW k \in 1 .. n, NEW s \in Kept(k - 1) PROVE Turned(s, k) \in Kept(k)
  BY <1>b, RelaxedScores
<1> HIDE DEF n
<1> DEFINE kept == [k \in 0 .. n |-> Kept(k)]
           turn == [k \in 1 .. n |-> [s \in Kept(k - 1) |-> Turned(s, k)]]
           Is(f) == f = [k \in 0 .. n |-> IF k = 0 THEN start ELSE Turned(f[k - 1], k)]
           run == CHOOSE f : Is(f)
<1>r1. start \in kept[0]
  <2>1. 0 \in 0 .. n
    BY <1>n
  <2> HIDE DEF Kept
  <2> QED BY <1>a, <2>1
<1>r2. /\ \A k \in 1 .. n : \A s \in kept[k - 1] : turn[k][s] \in kept[k]
       /\ \A k \in 1 .. n : \A s \in kept[k - 1] : turn[k][s] = Turned(s, k)
  <2> HIDE DEF Kept, Turned
  <2> SUFFICES ASSUME NEW k \in 1 .. n, NEW s \in kept[k - 1]
               PROVE  turn[k][s] \in kept[k] /\ turn[k][s] = Turned(s, k)
    OBVIOUS
  <2>1. k \in 0 .. n /\ k - 1 \in 0 .. n
    BY <1>n
  <2>2. kept[k - 1] = Kept(k - 1) /\ kept[k] = Kept(k)
    BY <2>1
  <2>3. turn[k][s] = Turned(s, k)
    BY <2>2
  <2>4. Turned(s, k) \in Kept(k)
    BY <1>b, <2>2
  <2> QED BY <2>2, <2>3, <2>4
<1>r3. \A k \in 0 .. n : kept[k] = Kept(k)
  <2> HIDE DEF Kept
  <2> QED OBVIOUS
<1> HIDE DEF turn, kept, Turned, Kept, start
<1>r4. PICK f : IsRun(turn, start, n, f) /\ \A k \in 0 .. n : f[k] \in kept[k]
  BY <1>n, <1>r1, <1>r2, Runs, Zenon
<1>r5. Is(f)
  <2>1. PICK e : e = [k \in 0 .. n |-> IF k = 0 THEN start ELSE turn[k][f[k - 1]]]
    OBVIOUS
  <2>2. PICK h : h = [k \in 0 .. n |-> IF k = 0 THEN start ELSE Turned(f[k - 1], k)]
    OBVIOUS
  <2>3. ASSUME NEW k \in 0 .. n PROVE e[k] = h[k]
    <3>1. CASE k = 0
      BY <2>1, <2>2, <3>1
    <3>2. CASE k # 0
      <4>1. k \in 1 .. n /\ k - 1 \in 0 .. n
        BY <1>n, <3>2
      <4>2. turn[k][f[k - 1]] = Turned(f[k - 1], k)
        BY <1>r2, <1>r4, <4>1, Zenon
      <4> QED BY <2>1, <2>2, <3>2, <4>2
    <3> QED BY <3>1, <3>2
  <2>4. e = h
    BY <2>1, <2>2, <2>3
  <2> QED BY <1>r4, <2>1, <2>2, <2>4, Zenon DEF IsRun
<1>r6. Is(run)
  BY <1>r5, Zenon
<1>r7. run[0] = start /\ \A k \in 1 .. n : run[k] = Turned(run[k - 1], k)
  <2> HIDE DEF run
  <2>1. PICK e : e = [k \in 0 .. n |-> IF k = 0 THEN start ELSE Turned(run[k - 1], k)]
    OBVIOUS
  <2>2. e[0] = start /\ \A k \in 1 .. n : e[k] = Turned(run[k - 1], k)
    BY <1>n, <2>1
  <2> QED BY <1>r6, <2>1, <2>2
<1>r8. \A k \in 0 .. n : run[k] \in Kept(k)
  <2> DEFINE K == {k \in 0 .. n : run[k] \in Kept(k)}
  <2> HIDE DEF run
  <2>1. 0 \in K
    BY <1>n, <1>a, <1>r7
  <2>2. ASSUME NEW k \in 1 .. n, k - 1 \in K PROVE k \in K
    <3>1. run[k - 1] \in Kept(k - 1) /\ run[k] = Turned(run[k - 1], k) /\ k \in 0 .. n
      BY <1>n, <1>r7, <2>2
    <3> QED BY <1>b, <3>1
  <2> HIDE DEF K
  <2>3. \A k \in 0 .. n : k \in K
    BY <1>n, <2>1, <2>2, Climb
  <2> QED BY <2>3 DEF K
<1>1. n \in 0 .. n
  BY <1>n
<1>2. Scored(graph, weights, order) = run[n]
  BY Zenon DEF Scored, Repeated, run, n, Turned, start
<1> QED BY <1>r8, <1>1, <1>2, Zenon DEF Kept, n

(* ---- the critical path ------------------------------------------------------- *)
(* Where every walk falls a walk repeats no node.                             *)
LEMMA WalkIsPath ==
    ASSUME NEW graph, Digraph(graph), Falls(graph, DOMAIN graph),
           NEW p \in Seq(DOMAIN graph), IsWalk(graph, p)
    PROVE  p \in Paths(graph) /\ Len(p) <= Cardinality(DOMAIN graph)
<1> DEFINE D == DOMAIN graph
<1>1. PICK rank : FallsBy(graph, D, rank)
  BY DEF Falls
<1>2. PICK n \in Nat : n = Len(p)
  OBVIOUS
<1>3. p \in [1 .. n -> D] /\ DOMAIN p = 1 .. n
  BY <1>2
<1>4. PICK N \in Nat : N = Cardinality(D)
  BY FS_CardinalityType DEF Digraph
<1>5. \A i, j \in 1 .. n : i < j => rank[p[j]] < rank[p[i]]
  BY <1>1, <1>2, WalkFalls
<1>6. \A i \in 1 .. n : rank[p[i]] \in Nat
  BY <1>1, <1>3 DEF FallsBy
<1>7. \A i, j \in 1 .. n : p[i] = p[j] => i = j
  <2>1. ASSUME NEW i \in 1 .. n, NEW j \in 1 .. n, p[i] = p[j], i < j PROVE FALSE
    <3>1. rank[p[j]] < rank[p[i]] /\ rank[p[i]] \in Nat
      BY <1>5, <1>6, <2>1
    <3> QED BY <2>1, <3>1
  <2> QED BY <2>1
<1>8. IsInjective(p)
  BY <1>3, <1>7 DEF IsInjective
<1>9. n <= N
  BY <1>2, <1>4, <1>8, AsMany DEF Digraph
<1>10. p \in BoundedSeq(D, N)
  BY <1>2, <1>3, <1>9 DEF BoundedSeq, SeqOf
<1> QED BY <1>2, <1>4, <1>8, <1>9, <1>10 DEF Paths

(* What a new head makes of a sequence.                                       *)
LEMMA Prepended ==
    ASSUME NEW D, NEW p \in Seq(D), p # <<>>, NEW x \in D
    PROVE  /\ <<x>> \o p \in Seq(D) /\ Len(<<x>> \o p) = Len(p) + 1 /\ Len(p) \in Nat
           /\ (<<x>> \o p)[1] = x /\ \A i \in 1 .. Len(p) : (<<x>> \o p)[i + 1] = p[i]
           /\ Last(<<x>> \o p) = Last(p) /\ <<x>> \o p # <<>>
<1> DEFINE q == <<x>> \o p
<1>1. PICK n \in Nat : n = Len(p) /\ n >= 1
  OBVIOUS
<1>2. q \in Seq(D) /\ Len(q) = n + 1 /\ q[1] = x /\ \A i \in 1 .. n : q[i + 1] = p[i]
  BY <1>1
<1> HIDE DEF q
<1>3. Last(q) = q[n + 1] /\ Last(p) = p[n] /\ n \in 1 .. n
  BY <1>1, <1>2 DEF Last
<1>4. q # <<>>
  BY <1>2
<1> QED BY <1>1, <1>2, <1>3, <1>4 DEF q

(* Each node of the path is what is recorded before the next one.             *)
Chained(previous, path) == \A i \in 2 .. Len(path) : path[i - 1] = previous[path[i]]

(* Following the record back from a node gives a path to it.                  *)
LEMMA PathToIs ==
    ASSUME NEW graph, Digraph(graph), Falls(graph, DOMAIN graph), Absent \notin DOMAIN graph,
           NEW previous \in [DOMAIN graph -> DOMAIN graph \cup {Absent}],
           \A v \in DOMAIN graph : previous[v] # Absent => v \in graph[previous[v]],
           NEW end \in DOMAIN graph
    PROVE  \E p \in Paths(graph) :
              /\ PathTo(previous, end, Cardinality(DOMAIN graph)) = p
              /\ p # <<>> /\ Last(p) = end /\ previous[p[1]] = Absent /\ Chained(previous, p)
<1> DEFINE D == DOMAIN graph
           n == Cardinality(D)
           start == <<end>>
           Turned(p, k) == IF previous[p[1]] = Absent THEN p ELSE <<previous[p[1]]>> \o p
           Kept(k) == {p \in Seq(D) : /\ p # <<>> /\ Last(p) = end /\ Chained(previous, p)
                                      /\ previous[p[1]] = Absent \/ Len(p) = k + 1}
<1>n. n \in Nat
  BY FS_CardinalityType DEF Digraph
<1> HIDE DEF n
<1>a. start \in Kept(0)
  <2>1. start \in Seq(D) /\ Len(start) = 1 /\ start # <<>> /\ start[1] = end
    OBVIOUS
  <2>2. Last(start) = end
    BY <2>1 DEF Last
  <2>3. Chained(previous, start)
    BY <2>1 DEF Chained
  <2> QED BY <2>1, <2>2, <2>3
<1>b. ASSUME NEW k \in 1 .. n, NEW p \in Kept(k - 1) PROVE Turned(p, k) \in Kept(k)
  <2>1. CASE previous[p[1]] = Absent
    <3>1. Turned(p, k) = p
      BY <2>1
    <3> QED BY <2>1, <3>1
  <2>2. CASE previous[p[1]] # Absent
    <3>1. p \in Seq(D) /\ p # <<>> /\ Last(p) = end /\ Chained(previous, p) /\ Len(p) = (k - 1) + 1
      BY <2>2
    <3>2. p[1] \in D
      BY <3>1
    <3> DEFINE x == previous[p[1]]
               q == <<x>> \o p
    <3>3. x \in D
      BY <2>2, <3>2
    <3>4. Turned(p, k) = q
      BY <2>2
    <3>5. PICK l \in Nat : l = Len(p) /\ l = k
      BY <1>n, <3>1
    <3>6. /\ q \in Seq(D) /\ Len(q) = l + 1 /\ Last(q) = end /\ q # <<>> /\ q[1] = x
          /\ \A i \in 1 .. l : q[i + 1] = p[i]
      BY <3>1, <3>3, <3>5, Prepended
    <3> HIDE DEF q
    <3>7. ASSUME NEW i \in 2 .. l + 1 PROVE q[i - 1] = previous[q[i]]
      <4>1. i - 1 \in 1 .. l /\ (i - 1) + 1 = i
        OBVIOUS
      <4>2. q[i] = p[i - 1]
        BY <3>6, <4>1
      <4>3. CASE i = 2
        BY <3>6, <4>2, <4>3
      <4>4. CASE i # 2
        <5>1. i - 2 \in 1 .. l /\ (i - 2) + 1 = i - 1 /\ i - 1 \in 2 .. l /\ (i - 1) - 1 = i - 2
          BY <4>4
        <5>2. q[i - 1] = p[i - 2]
          BY <3>6, <5>1
        <5>3. p[(i - 1) - 1] = previous[p[i - 1]]
          BY <3>1, <3>5, <5>1 DEF Chained
        <5> QED BY <4>2, <5>1, <5>2, <5>3
      <4> QED BY <4>3, <4>4
    <3>8. Chained(previous, q)
      BY <3>6, <3>7 DEF Chained
    <3>9. Len(q) = k + 1
      BY <3>5, <3>6
    <3> HIDE DEF Turned
    <3> QED BY <3>4, <3>6, <3>8, <3>9
  <2> QED BY <2>1, <2>2
<1> DEFINE kept == [k \in 0 .. n |-> Kept(k)]
           turn == [k \in 1 .. n |-> [s \in Kept(k - 1) |-> Turned(s, k)]]
           Is(f) == f = [k \in 0 .. n |-> IF k = 0 THEN start ELSE Turned(f[k - 1], k)]
           run == CHOOSE f : Is(f)
<1>r1. start \in kept[0]
  <2>1. 0 \in 0 .. n
    BY <1>n
  <2> HIDE DEF Kept
  <2> QED BY <1>a, <2>1
<1>r2. /\ \A k \in 1 .. n : \A s \in kept[k - 1] : turn[k][s] \in kept[k]
       /\ \A k \in 1 .. n : \A s \in kept[k - 1] : turn[k][s] = Turned(s, k)
  <2> HIDE DEF Kept, Turned
  <2> SUFFICES ASSUME NEW k \in 1 .. n, NEW s \in kept[k - 1]
               PROVE  turn[k][s] \in kept[k] /\ turn[k][s] = Turned(s, k)
    OBVIOUS
  <2>1. k \in 0 .. n /\ k - 1 \in 0 .. n
    BY <1>n
  <2>2. kept[k - 1] = Kept(k - 1) /\ kept[k] = Kept(k)
    BY <2>1
  <2>3. turn[k][s] = Turned(s, k)
    BY <2>2
  <2>4. Turned(s, k) \in Kept(k)
    BY <1>b, <2>2
  <2> QED BY <2>2, <2>3, <2>4
<1>r3. \A k \in 0 .. n : kept[k] = Kept(k)
  <2> HIDE DEF Kept
  <2> QED OBVIOUS
<1> HIDE DEF turn, kept, Turned, Kept, start
<1>r4. PICK f : IsRun(turn, start, n, f) /\ \A k \in 0 .. n : f[k] \in kept[k]
  BY <1>n, <1>r1, <1>r2, Runs, Zenon
<1>r5. Is(f)
  <2>1. PICK e : e = [k \in 0 .. n |-> IF k = 0 THEN start ELSE turn[k][f[k - 1]]]
    OBVIOUS
  <2>2. PICK h : h = [k \in 0 .. n |-> IF k = 0 THEN start ELSE Turned(f[k - 1], k)]
    OBVIOUS
  <2>3. ASSUME NEW k \in 0 .. n PROVE e[k] = h[k]
    <3>1. CASE k = 0
      BY <2>1, <2>2, <3>1
    <3>2. CASE k # 0
      <4>1. k \in 1 .. n /\ k - 1 \in 0 .. n
        BY <1>n, <3>2
      <4>2. turn[k][f[k - 1]] = Turned(f[k - 1], k)
        BY <1>r2, <1>r4, <4>1, Zenon
      <4> QED BY <2>1, <2>2, <3>2, <4>2
    <3> QED BY <3>1, <3>2
  <2>4. e = h
    BY <2>1, <2>2, <2>3
  <2> QED BY <1>r4, <2>1, <2>2, <2>4, Zenon DEF IsRun
<1>r6. Is(run)
  BY <1>r5, Zenon
<1>r7. run[0] = start /\ \A k \in 1 .. n : run[k] = Turned(run[k - 1], k)
  <2> HIDE DEF run
  <2>1. PICK e : e = [k \in 0 .. n |-> IF k = 0 THEN start ELSE Turned(run[k - 1], k)]
    OBVIOUS
  <2>2. e[0] = start /\ \A k \in 1 .. n : e[k] = Turned(run[k - 1], k)
    BY <1>n, <2>1
  <2> QED BY <1>r6, <2>1, <2>2
<1>r8. \A k \in 0 .. n : run[k] \in Kept(k)
  <2> DEFINE K == {k \in 0 .. n : run[k] \in Kept(k)}
  <2> HIDE DEF run
  <2>1. 0 \in K
    BY <1>n, <1>a, <1>r7
  <2>2. ASSUME NEW k \in 1 .. n, k - 1 \in K PROVE k \in K
    <3>1. run[k - 1] \in Kept(k - 1) /\ run[k] = Turned(run[k - 1], k) /\ k \in 0 .. n
      BY <1>n, <1>r7, <2>2
    <3> QED BY <1>b, <3>1
  <2> HIDE DEF K
  <2>3. \A k \in 0 .. n : k \in K
    BY <1>n, <2>1, <2>2, Climb
  <2> QED BY <2>3 DEF K
<1> DEFINE p == run[n]
<1>1. n \in 0 .. n
  BY <1>n
<1>2. /\ p \in Seq(D) /\ p # <<>> /\ Last(p) = end /\ Chained(previous, p)
      /\ previous[p[1]] = Absent \/ Len(p) = n + 1
  BY <1>r8, <1>1 DEF Kept
<1>3. PathTo(previous, end, n) = p
  BY Zenon DEF PathTo, Repeated, p, run, Turned, start
<1> HIDE DEF p
<1>4. IsWalk(graph, p)
  <2> SUFFICES ASSUME NEW i \in 2 .. Len(p) PROVE p[i] \in graph[p[i - 1]]
    BY DEF IsWalk
  <2>1. PICK l \in Nat : l = Len(p)
    BY <1>2
  <2>2. i \in 1 .. l /\ i - 1 \in 1 .. l
    BY <2>1
  <2>3. p[i] \in D /\ p[i - 1] \in D /\ p[i - 1] = previous[p[i]]
    BY <1>2, <2>1, <2>2 DEF Chained
  <2> QED BY <2>3
<1>5. p \in Paths(graph) /\ Len(p) <= n
  BY <1>2, <1>4, WalkIsPath DEF n
<1>6. Len(p) # n + 1
  BY <1>n, <1>5
<1> QED BY <1>2, <1>3, <1>5, <1>6 DEF n

(* A weight is a sum along the path.                                          *)
LEMMA WeightIs ==
    ASSUME NEW p \in Seq(Work), Efforts \in [Work -> Int]
    PROVE  \E sum \in [0 .. Len(p) -> Int] :
              /\ Weight(p) = sum[Len(p)] /\ sum[0] = 0
              /\ \A i \in 1 .. Len(p) : sum[i] = sum[i - 1] + Efforts[p[i]]
<1> DEFINE n == Len(p)
           start == 0
           Turned(s, k) == s + Efforts[p[k]]
           Kept(k) == Int
<1>n. n \in Nat
  OBVIOUS
<1>0. \A k \in 1 .. n : p[k] \in Work
  OBVIOUS
<1> HIDE DEF n
<1>a. start \in Kept(0)
  OBVIOUS
<1>b. ASSUME NEW k \in 1 .. n, NEW s \in Kept(k - 1) PROVE Turned(s, k) \in Kept(k)
  BY <1>0
<1> DEFINE kept == [k \in 0 .. n |-> Kept(k)]
           turn == [k \in 1 .. n |-> [s \in Kept(k - 1) |-> Turned(s, k)]]
           Is(f) == f = [k \in 0 .. n |-> IF k = 0 THEN start ELSE Turned(f[k - 1], k)]
           run == CHOOSE f : Is(f)
<1>r1. start \in kept[0]
  <2>1. 0 \in 0 .. n
    BY <1>n
  <2> HIDE DEF Kept
  <2> QED BY <1>a, <2>1
<1>r2. /\ \A k \in 1 .. n : \A s \in kept[k - 1] : turn[k][s] \in kept[k]
       /\ \A k \in 1 .. n : \A s \in kept[k - 1] : turn[k][s] = Turned(s, k)
  <2> HIDE DEF Kept, Turned
  <2> SUFFICES ASSUME NEW k \in 1 .. n, NEW s \in kept[k - 1]
               PROVE  turn[k][s] \in kept[k] /\ turn[k][s] = Turned(s, k)
    OBVIOUS
  <2>1. k \in 0 .. n /\ k - 1 \in 0 .. n
    BY <1>n
  <2>2. kept[k - 1] = Kept(k - 1) /\ kept[k] = Kept(k)
    BY <2>1
  <2>3. turn[k][s] = Turned(s, k)
    BY <2>2
  <2>4. Turned(s, k) \in Kept(k)
    BY <1>b, <2>2
  <2> QED BY <2>2, <2>3, <2>4
<1>r3. \A k \in 0 .. n : kept[k] = Kept(k)
  <2> HIDE DEF Kept
  <2> QED OBVIOUS
<1> HIDE DEF turn, kept, Turned, Kept, start
<1>r4. PICK f : IsRun(turn, start, n, f) /\ \A k \in 0 .. n : f[k] \in kept[k]
  BY <1>n, <1>r1, <1>r2, Runs, Zenon
<1>r5. Is(f)
  <2>1. PICK e : e = [k \in 0 .. n |-> IF k = 0 THEN start ELSE turn[k][f[k - 1]]]
    OBVIOUS
  <2>2. PICK h : h = [k \in 0 .. n |-> IF k = 0 THEN start ELSE Turned(f[k - 1], k)]
    OBVIOUS
  <2>3. ASSUME NEW k \in 0 .. n PROVE e[k] = h[k]
    <3>1. CASE k = 0
      BY <2>1, <2>2, <3>1
    <3>2. CASE k # 0
      <4>1. k \in 1 .. n /\ k - 1 \in 0 .. n
        BY <1>n, <3>2
      <4>2. turn[k][f[k - 1]] = Turned(f[k - 1], k)
        BY <1>r2, <1>r4, <4>1, Zenon
      <4> QED BY <2>1, <2>2, <3>2, <4>2
    <3> QED BY <3>1, <3>2
  <2>4. e = h
    BY <2>1, <2>2, <2>3
  <2> QED BY <1>r4, <2>1, <2>2, <2>4, Zenon DEF IsRun
<1>r6. Is(run)
  BY <1>r5, Zenon
<1>r7. run[0] = start /\ \A k \in 1 .. n : run[k] = Turned(run[k - 1], k)
  <2> HIDE DEF run
  <2>1. PICK e : e = [k \in 0 .. n |-> IF k = 0 THEN start ELSE Turned(run[k - 1], k)]
    OBVIOUS
  <2>2. e[0] = start /\ \A k \in 1 .. n : e[k] = Turned(run[k - 1], k)
    BY <1>n, <2>1
  <2> QED BY <1>r6, <2>1, <2>2
<1>r8. \A k \in 0 .. n : run[k] \in Kept(k)
  <2> DEFINE K == {k \in 0 .. n : run[k] \in Kept(k)}
  <2> HIDE DEF run
  <2>1. 0 \in K
    BY <1>n, <1>a, <1>r7
  <2>2. ASSUME NEW k \in 1 .. n, k - 1 \in K PROVE k \in K
    <3>1. run[k - 1] \in Kept(k - 1) /\ run[k] = Turned(run[k - 1], k) /\ k \in 0 .. n
      BY <1>n, <1>r7, <2>2
    <3> QED BY <1>b, <3>1
  <2> HIDE DEF K
  <2>3. \A k \in 0 .. n : k \in K
    BY <1>n, <2>1, <2>2, Climb
  <2> QED BY <2>3 DEF K
<1>1. Weight(p) = run[n]
  BY Zenon DEF Weight, Repeated, run, n, Turned, start
<1> DEFINE sum == [k \in 0 .. n |-> run[k]]
<1>2. sum \in [0 .. n -> Int]
  BY <1>r8 DEF Kept
<1>3. sum[0] = 0 /\ \A i \in 1 .. n : sum[i] = sum[i - 1] + Efforts[p[i]]
  <2>1. 0 \in 0 .. n /\ \A i \in 1 .. n : i \in 0 .. n /\ i - 1 \in 0 .. n
    BY <1>n
  <2> HIDE DEF run
  <2> QED BY <1>r7, <2>1 DEF Turned, start
<1>4. sum[n] = run[n]
  BY <1>n
<1> HIDE DEF sum, run
<1> QED BY <1>1, <1>2, <1>3, <1>4 DEF n

(* Some node of a topological order has the greatest score.                   *)
LEMMA OneIsBest ==
    ASSUME NEW graph, NEW order, Topological(graph, order), ToSet(order) = DOMAIN graph, DOMAIN graph # {},
           NEW score \in [DOMAIN graph -> Int]
    PROVE  \E n \in DOMAIN graph : \A m \in DOMAIN graph : score[m] <= score[n]
<1> DEFINE D == DOMAIN graph
<1>1. PICK n \in Nat : n = Len(order)
  BY DEF Topological
<1>2. DOMAIN order = 1 .. n /\ \A i \in 1 .. n : order[i] \in D
  BY <1>1 DEF Topological
<1>3. \A i \in 1 .. n : score[order[i]] \in Int
  BY <1>2
<1> DEFINE K == {k \in 0 .. n : k = 0 \/ \E i \in 1 .. k : \A j \in 1 .. k : score[order[j]] <= score[order[i]]}
<1>4. 0 \in K
  OBVIOUS
<1>5. ASSUME NEW k \in 1 .. n, k - 1 \in K PROVE k \in K
  <2>1. \A j \in 1 .. k : (j \in 1 .. k - 1 \/ j = k) /\ j \in 1 .. n
    OBVIOUS
  <2>2. CASE k - 1 = 0
    <3>1. \A j \in 1 .. k : j = k
      BY <2>2
    <3> QED BY <1>3, <3>1
  <2>3. CASE k - 1 # 0
    <3>1. PICK i \in 1 .. k - 1 : \A j \in 1 .. k - 1 : score[order[j]] <= score[order[i]]
      BY <1>5, <2>3
    <3>2. i \in 1 .. k /\ i \in 1 .. n /\ k \in 1 .. k
      BY <3>1
    <3>3. CASE score[order[k]] <= score[order[i]]
      <4>1. \A j \in 1 .. k : score[order[j]] <= score[order[i]]
        BY <2>1, <3>1, <3>3
      <4> QED BY <3>2, <4>1
    <3>4. CASE ~(score[order[k]] <= score[order[i]])
      <4>1. \A j \in 1 .. k : score[order[j]] <= score[order[k]]
        BY <1>3, <2>1, <3>1, <3>2, <3>4
      <4> QED BY <3>2, <4>1
    <3> QED BY <3>3, <3>4
  <2> QED BY <2>2, <2>3
<1>6. \A k \in 0 .. n : k \in K
  <2> HIDE DEF K
  <2> QED BY <1>4, <1>5, Climb
<1>7. D = {order[i] : i \in 1 .. n}
  BY <1>2 DEF ToSet
<1>8. n # 0
  BY <1>7
<1>9. n \in K
  <2>1. n \in 0 .. n
    BY <1>1
  <2> HIDE DEF K
  <2> QED BY <1>6, <2>1
<1>10. PICK i \in 1 .. n : \A j \in 1 .. n : score[order[j]] <= score[order[i]]
  BY <1>8, <1>9
<1>11. \A m \in D : score[m] <= score[order[i]]
  BY <1>7, <1>10
<1> QED BY <1>2, <1>10, <1>11

(* What the assumptions leave of a project: finitely many entities.           *)
ProjectIsSane ==
    /\ IsFiniteSet(Entities) /\ Absent \notin Entities
    /\ \A id \in Entities : project.entities[id].effort \in Int

(* The graphs of a project are finite and have their edges within.            *)
LEMMA PlanGraphs ==
    ASSUME ProjectIsSane
    PROVE  /\ Digraph(Dependencies) /\ DOMAIN Dependencies = Work /\ Absent \notin Work
           /\ Digraph(Containment) /\ DOMAIN Containment = Entities
           /\ Efforts \in [Work -> Int] /\ IsFiniteSet(Work)
<1>1. IsFiniteSet(Work) /\ Work \subseteq Entities
  BY FS_Subset DEF ProjectIsSane, Work
<1>2. DOMAIN Dependencies = Work /\ DOMAIN Containment = Entities
  BY DEF Dependencies, Containment, Adjacency
<1>3. \A e \in Reversed(EdgesOf("blocks", Work)) : e[2] \in Work
  BY DEF Reversed, EdgesOf
<1>4. \A e \in EdgesOf("contains", Entities) : e[2] \in Entities
  BY DEF EdgesOf
<1>5. \A n \in Work : Dependencies[n] \subseteq Work
  BY <1>3 DEF Dependencies, Adjacency
<1>6. \A n \in Entities : Containment[n] \subseteq Entities
  BY <1>4 DEF Containment, Adjacency
<1>7. Efforts \in [Work -> Int]
  BY <1>1 DEF Efforts, ProjectIsSane
<1> QED BY <1>1, <1>2, <1>5, <1>6, <1>7 DEF ProjectIsSane, Digraph

(* The critical path is a chain of dependencies that no chain outweighs       *)
(* (graph.ts, schedule.ts): for every project without a cycle.                *)
THEOREM CriticalPathIsHeaviest ==
    ASSUME ProjectIsSane, FindCycle(Dependencies) = <<>>
    PROVE  /\ CriticalPath \in Paths(Dependencies)
           /\ \A p \in Paths(Dependencies) \ {<<>>} : Weight(p) <= Weight(CriticalPath)
<1>0. PICK graph : graph = Dependencies
  OBVIOUS
<1>1. Digraph(graph) /\ DOMAIN graph = Work /\ Absent \notin Work /\ Efforts \in [Work -> Int]
  BY <1>0, PlanGraphs
<1>2. Falls(graph, Work)
  BY <1>0, <1>1, CycleIsTold
<1>3. PICK order : /\ order = TopologicalOrder(graph) /\ Topological(graph, order)
                   /\ Len(order) = Cardinality(Work) /\ ToSet(order) = Work
  BY <1>1, <1>2, OrderIsTopological
<1>4. PICK final \in Scoring(graph, Efforts, order, Len(order)) : final = Scored(graph, Efforts, order)
  BY <1>1, <1>3, ScoredIs
<1>5. PICK score \in [Work -> Int], previous \in [Work -> Work \cup {Absent}] :
         score = final.score /\ previous = final.previous
  BY <1>1, <1>4 DEF Scoring, Scores
<1>6. Explained(graph, Efforts, order, Len(order), score, previous) /\ Told(graph, Efforts, order, Len(order), score)
  BY <1>4, <1>5 DEF Scoring
<1> DEFINE best == {n \in Work : \A m \in Work : score[m] <= score[n]}
           end == Greatest(best)
<1>7. CriticalPath = IF order = <<>> THEN <<>> ELSE PathTo(previous, end, Len(order))
  <2>1. CriticalPath = LongestPath(graph, Efforts)
    BY <1>0 DEF CriticalPath
  <2> QED BY <1>1, <1>3, <1>4, <1>5, <2>1 DEF LongestPath
<1>8. order \in Seq(Work) /\ Work = {order[i] : i \in 1 .. Len(order)}
  <2>1. order \in Seq(Work)
    BY <1>1, <1>3 DEF Topological
  <2>2. DOMAIN order = 1 .. Len(order)
    BY <2>1
  <2> QED BY <1>3, <2>1, <2>2 DEF ToSet
<1>9. \A p \in Paths(graph) : p \in Seq(Work) /\ IsWalk(graph, p)
  <2>1. ASSUME NEW p \in Paths(graph) PROVE p \in Seq(DOMAIN graph) /\ IsWalk(graph, p)
    BY DEF Paths, BoundedSeq, SeqOf
  <2> QED BY <1>1, <2>1
<1>10. CASE order = <<>>
  <2>1. Work = {}
    BY <1>8, <1>10
  <2>2. CriticalPath = <<>>
    BY <1>7, <1>10
  <2>3. <<>> \in Paths(graph)
    <3>1. IsWalk(graph, <<>>) /\ <<>> \in Seq(Work)
      BY DEF IsWalk
    <3> QED BY <1>1, <1>2, <3>1, WalkIsPath
  <2>4. Paths(graph) \ {<<>>} = {}
    BY <1>9, <2>1
  <2> QED BY <1>0, <2>2, <2>3, <2>4
<1>11. CASE order # <<>>
  <2>1. Work # {}
    <3>1. 1 \in 1 .. Len(order)
      BY <1>8, <1>11
    <3>2. order[1] \in {order[i] : i \in 1 .. Len(order)}
      BY <3>1, Zenon
    <3> QED BY <1>8, <3>2, Zenon
  <2>2. end \in Work /\ \A m \in Work : score[m] <= score[end]
    <3>1. best # {}
      BY <1>1, <1>3, <2>1, OneIsBest
    <3>2. end \in best
      BY <3>1, LeastIs
    <3> QED BY <3>2
  <2> HIDE DEF end
  <2>3. \A v \in Work : previous[v] # Absent => v \in graph[previous[v]]
    BY <1>1, <1>6 DEF Explained
  <2>4. PICK p \in Paths(graph) :
           /\ PathTo(previous, end, Cardinality(Work)) = p
           /\ p # <<>> /\ Last(p) = end /\ previous[p[1]] = Absent /\ Chained(previous, p)
    BY <1>1, <1>2, <2>2, <2>3, PathToIs
  <2>5. CriticalPath = p
    BY <1>3, <1>7, <1>11, <2>4
  <2>6. Weight(p) = score[end]
    <3>1. p \in Seq(Work)
      BY <1>9
    <3>2. PICK n \in Nat : n = Len(p) /\ n >= 1
      BY <2>4, <3>1
    <3>3. PICK sum \in [0 .. n -> Int] :
             /\ Weight(p) = sum[n] /\ sum[0] = 0
             /\ \A i \in 1 .. n : sum[i] = sum[i - 1] + Efforts[p[i]]
      BY <1>1, <3>1, <3>2, WeightIs
    <3>4. \A i \in 1 .. n : p[i] \in Work
      BY <3>1, <3>2
    <3> DEFINE K == {k \in 0 .. n : k = 0 \/ sum[k] = score[p[k]]}
    <3>5. 0 \in K
      OBVIOUS
    <3>6. ASSUME NEW k \in 1 .. n, k - 1 \in K PROVE k \in K
      <4>1. sum[k] = sum[k - 1] + Efforts[p[k]] /\ p[k] \in Work /\ Efforts[p[k]] \in Int
        BY <1>1, <3>3, <3>4
      <4>2. CASE k = 1
        <5>1. score[p[k]] = Efforts[p[k]]
          BY <1>1, <1>6, <2>4, <3>4, <4>2 DEF Explained
        <5> QED BY <3>3, <4>1, <4>2, <5>1
      <4>3. CASE k # 1
        <5>1. k \in 2 .. n /\ k - 1 # 0 /\ k - 1 \in 1 .. n
          BY <4>3
        <5>2. p[k - 1] = previous[p[k]] /\ p[k - 1] \in Work
          BY <2>4, <3>2, <3>4, <5>1 DEF Chained
        <5>3. score[p[k]] = score[p[k - 1]] + Efforts[p[k]]
          BY <1>1, <1>6, <4>1, <5>2 DEF Explained
        <5>4. sum[k - 1] = score[p[k - 1]]
          BY <3>6, <5>1
        <5> QED BY <4>1, <5>3, <5>4
      <4> QED BY <4>2, <4>3
    <3>7. \A k \in 0 .. n : k \in K
      <4> HIDE DEF K
      <4> QED BY <3>5, <3>6, Climb
    <3>8. n \in K
      BY <3>7
    <3>9. Last(p) = p[n]
      BY <3>2 DEF Last
    <3> QED BY <2>4, <3>2, <3>3, <3>8, <3>9
  <2>7. ASSUME NEW q \in Paths(graph) \ {<<>>} PROVE Weight(q) <= score[end]
    <3>1. q \in Seq(Work) /\ IsWalk(graph, q) /\ q # <<>>
      BY <1>9
    <3>2. PICK n \in Nat : n = Len(q) /\ n >= 1
      BY <3>1
    <3>3. PICK sum \in [0 .. n -> Int] :
             /\ Weight(q) = sum[n] /\ sum[0] = 0
             /\ \A i \in 1 .. n : sum[i] = sum[i - 1] + Efforts[q[i]]
      BY <1>1, <3>1, <3>2, WeightIs
    <3>4. \A i \in 1 .. n : q[i] \in Work /\ score[q[i]] \in Int /\ Efforts[q[i]] \in Int
      BY <1>1, <3>1, <3>2
    <3> DEFINE K == {k \in 0 .. n : k = 0 \/ sum[k] <= score[q[k]]}
    <3>5. 0 \in K
      OBVIOUS
    <3>6. ASSUME NEW k \in 1 .. n, k - 1 \in K PROVE k \in K
      <4>1. sum[k] = sum[k - 1] + Efforts[q[k]] /\ sum[k - 1] \in Int
        BY <3>3
      <4>2. CASE k = 1
        <5>1. Efforts[q[k]] <= score[q[k]]
          BY <1>1, <1>6, <3>4 DEF Explained
        <5>2. sum[k] = Efforts[q[k]]
          BY <3>3, <3>4, <4>1, <4>2
        <5> QED BY <5>1, <5>2
      <4>3. CASE k # 1
        <5>1. k \in 2 .. n /\ k - 1 # 0 /\ k - 1 \in 1 .. n
          BY <4>3
        <5>2. q[k] \in graph[q[k - 1]]
          BY <3>1, <3>2, <5>1 DEF IsWalk
        <5>3. PICK j \in 1 .. Len(order) : order[j] = q[k - 1]
          BY <1>8, <3>4, <5>1
        <5>4. score[q[k - 1]] + Efforts[q[k]] <= score[q[k]]
          BY <1>6, <5>2, <5>3 DEF Told
        <5>5. sum[k - 1] <= score[q[k - 1]]
          BY <3>6, <5>1
        <5> QED BY <3>4, <4>1, <5>1, <5>4, <5>5
      <4> QED BY <4>2, <4>3
    <3>7. \A k \in 0 .. n : k \in K
      <4> HIDE DEF K
      <4> QED BY <3>5, <3>6, Climb
    <3>8. n \in K
      BY <3>7
    <3>9. sum[n] <= score[q[n]]
      BY <3>2, <3>8
    <3>10. score[q[n]] <= score[end] /\ q[n] \in Work
      BY <2>2, <3>2, <3>4
    <3> QED BY <2>2, <3>3, <3>4, <3>9, <3>10
  <2> QED BY <1>0, <2>4, <2>5, <2>6, <2>7
<1> QED BY <1>10, <1>11

(* Of unfinished work without a cycle some waits for none.                    *)
LEMMA SomeWorkIsReady ==
    ASSUME ProjectIsSane, FindCycle(Dependencies) = <<>>,
           \A id \in Entities : project.entities[id].kind = "decision" => IsComplete(id),
           \E w \in Work : ~IsComplete(w),
           \A w \in Work : ~IsComplete(w) => IsStartable(w)
    PROVE  \E w \in Work : ~IsComplete(w) /\ IsReady(w)
<1> DEFINE Open == {w \in Work : ~IsComplete(w)}
<1>1. Digraph(Dependencies) /\ DOMAIN Dependencies = Work
  BY PlanGraphs
<1>2. PICK rank : FallsBy(Dependencies, Work, rank)
  BY <1>1, CycleIsTold DEF Falls
<1>3. PICK N \in Nat : N = Cardinality(Work)
  BY <1>1, FS_CardinalityType DEF Digraph
<1>4. \A v \in Work : rank[v] \in Nat /\ rank[v] < N /\ \A t \in Dependencies[v] : rank[t] < rank[v]
  BY <1>2, <1>3 DEF FallsBy
<1> DEFINE R == {N - rank[v] : v \in Open}
<1>5. R \in SUBSET Nat /\ R # {}
  BY <1>4
<1>6. PICK l \in R : \A k \in R : l <= k
  <2> HIDE DEF R
  <2> QED BY <1>5, LeastOf
<1>7. PICK w \in Open : l = N - rank[w]
  OBVIOUS
<1>8. ASSUME NEW b \in Blockers(w) PROVE FALSE
  <2>1. ~IsComplete(b)
    BY <1>8 DEF Blockers
  <2>2. \/ b \in Entities /\ project.entities[b].kind = "decision"
        \/ b \in Work /\ \E r \in Relations : r.source = w /\ r.kind = "blocks" /\ r.target = b
    BY <1>8 DEF Blockers
  <2>3. b \in Work /\ \E r \in Relations : r.source = w /\ r.kind = "blocks" /\ r.target = b
    BY <2>1, <2>2
  <2>4. <<w, b>> \in EdgesOf("blocks", Work)
    BY <2>3 DEF EdgesOf
  <2>5. <<b, w>> \in Reversed(EdgesOf("blocks", Work))
    <3>1. <<w, b>>[1] = w /\ <<w, b>>[2] = b
      OBVIOUS
    <3> QED BY <2>4, <3>1 DEF Reversed
  <2>6. w \in Dependencies[b]
    <3>1. <<b, w>>[1] = b /\ <<b, w>>[2] = w
      OBVIOUS
    <3> QED BY <2>3, <2>5, <3>1 DEF Dependencies, Adjacency
  <2>7. rank[w] < rank[b] /\ rank[w] \in Nat /\ rank[b] \in Nat
    BY <1>4, <2>3, <2>6
  <2>8. N - rank[w] <= N - rank[b]
    BY <1>6, <1>7, <2>1, <2>3
  <2> QED BY <2>7, <2>8
<1>9. IsReady(w)
  BY <1>8 DEF IsReady
<1> QED BY <1>9

LEMMA PlanHolds == ProjectIsSane => PlanIsSound
<1> SUFFICES ASSUME ProjectIsSane PROVE PlanIsSound
  OBVIOUS
<1> DEFINE cycle == FindCycle(Dependencies)
           closed == \E p \in Paths(Dependencies) : p # <<>> /\ p[1] \in Dependencies[Last(p)]
<1>1. Digraph(Dependencies)
  BY PlanGraphs
<1>2. /\ closed <=> cycle # <<>>
      /\ closed => IsWalk(Dependencies, cycle) /\ Head(cycle) = Last(cycle) /\ Len(cycle) > 1
  BY <1>1, CycleIsTold
<1>3. ~closed => /\ CriticalPath \in Paths(Dependencies)
                 /\ \A p \in Paths(Dependencies) \ {<<>>} : Weight(p) <= Weight(CriticalPath)
  BY <1>2, CriticalPathIsHeaviest
<1>4. ASSUME ProjectIsValid, \A id \in Entities : project.entities[id].kind = "decision" => IsComplete(id),
             {w \in Work : ~IsComplete(w)} # {}, \A w \in {v \in Work : ~IsComplete(v)} : IsStartable(w)
      PROVE  \E w \in {v \in Work : ~IsComplete(v)} : IsReady(w)
  <2>1. cycle = <<>>
    BY <1>4 DEF ProjectIsValid
  <2> QED BY <1>4, <2>1, SomeWorkIsReady
<1> HIDE DEF closed, cycle
<1> QED BY <1>2, <1>3, <1>4, Zenon DEF PlanIsSound, closed, cycle

(* ---- queries: the queue and the edges ----------------------------------------- *)
(* The roots, sorted, are the roots.                                          *)
LEMMA SortedIs ==
    ASSUME NEW ids, IsFiniteSet(ids)
    PROVE  Sorted(ids) \in Seq(ids) /\ ToSet(Sorted(ids)) = ids /\ Len(Sorted(ids)) = Cardinality(ids)
<1> DEFINE n == Cardinality(ids)
           start == <<>>
           Turned(s, k) == Append(s, Least(ids \ ToSet(s)))
           Kept(k) == {s \in Seq(ids) : IsInjective(s) /\ Len(s) = k}
<1>n. n \in Nat
  BY FS_CardinalityType
<1>0. n = Cardinality(ids)
  OBVIOUS
<1> HIDE DEF n
<1>a. start \in Kept(0)
  BY DEF IsInjective
<1>b. ASSUME NEW k \in 1 .. n, NEW s \in Kept(k - 1) PROVE Turned(s, k) \in Kept(k)
  <2>1. s \in Seq(ids) /\ IsInjective(s) /\ Len(s) = k - 1
    BY <1>b
  <2>2. IsFiniteSet(ToSet(s)) /\ Cardinality(ToSet(s)) = k - 1 /\ ToSet(s) \subseteq ids
    BY <2>1, AsMany
  <2>3. ids \ ToSet(s) # {}
    <3>1. ToSet(s) # ids
      BY <1>n, <1>0, <2>2
    <3> QED BY <2>2, <3>1
  <2> DEFINE x == Least(ids \ ToSet(s))
  <2>4. x \in ids \ ToSet(s)
    BY <2>3, LeastIs
  <2> HIDE DEF x
  <2>5. Append(s, x) \in Seq(ids) /\ Len(Append(s, x)) = (k - 1) + 1 /\ IsInjective(Append(s, x))
    BY <2>1, <2>4, Longer
  <2>6. (k - 1) + 1 = k
    BY <1>n
  <2> QED BY <2>5, <2>6 DEF x
<1> DEFINE kept == [k \in 0 .. n |-> Kept(k)]
           turn == [k \in 1 .. n |-> [s \in Kept(k - 1) |-> Turned(s, k)]]
           Is(f) == f = [k \in 0 .. n |-> IF k = 0 THEN start ELSE Turned(f[k - 1], k)]
           run == CHOOSE f : Is(f)
<1>r1. start \in kept[0]
  <2>1. 0 \in 0 .. n
    BY <1>n
  <2> HIDE DEF Kept
  <2> QED BY <1>a, <2>1
<1>r2. /\ \A k \in 1 .. n : \A s \in kept[k - 1] : turn[k][s] \in kept[k]
       /\ \A k \in 1 .. n : \A s \in kept[k - 1] : turn[k][s] = Turned(s, k)
  <2> HIDE DEF Kept, Turned
  <2> SUFFICES ASSUME NEW k \in 1 .. n, NEW s \in kept[k - 1]
               PROVE  turn[k][s] \in kept[k] /\ turn[k][s] = Turned(s, k)
    OBVIOUS
  <2>1. k \in 0 .. n /\ k - 1 \in 0 .. n
    BY <1>n
  <2>2. kept[k - 1] = Kept(k - 1) /\ kept[k] = Kept(k)
    BY <2>1
  <2>3. turn[k][s] = Turned(s, k)
    BY <2>2
  <2>4. Turned(s, k) \in Kept(k)
    BY <1>b, <2>2
  <2> QED BY <2>2, <2>3, <2>4
<1>r3. \A k \in 0 .. n : kept[k] = Kept(k)
  <2> HIDE DEF Kept
  <2> QED OBVIOUS
<1> HIDE DEF turn, kept, Turned, Kept, start
<1>r4. PICK f : IsRun(turn, start, n, f) /\ \A k \in 0 .. n : f[k] \in kept[k]
  BY <1>n, <1>r1, <1>r2, Runs, Zenon
<1>r5. Is(f)
  <2>1. PICK e : e = [k \in 0 .. n |-> IF k = 0 THEN start ELSE turn[k][f[k - 1]]]
    OBVIOUS
  <2>2. PICK h : h = [k \in 0 .. n |-> IF k = 0 THEN start ELSE Turned(f[k - 1], k)]
    OBVIOUS
  <2>3. ASSUME NEW k \in 0 .. n PROVE e[k] = h[k]
    <3>1. CASE k = 0
      BY <2>1, <2>2, <3>1
    <3>2. CASE k # 0
      <4>1. k \in 1 .. n /\ k - 1 \in 0 .. n
        BY <1>n, <3>2
      <4>2. turn[k][f[k - 1]] = Turned(f[k - 1], k)
        BY <1>r2, <1>r4, <4>1, Zenon
      <4> QED BY <2>1, <2>2, <3>2, <4>2
    <3> QED BY <3>1, <3>2
  <2>4. e = h
    BY <2>1, <2>2, <2>3
  <2> QED BY <1>r4, <2>1, <2>2, <2>4, Zenon DEF IsRun
<1>r6. Is(run)
  BY <1>r5, Zenon
<1>r7. run[0] = start /\ \A k \in 1 .. n : run[k] = Turned(run[k - 1], k)
  <2> HIDE DEF run
  <2>1. PICK e : e = [k \in 0 .. n |-> IF k = 0 THEN start ELSE Turned(run[k - 1], k)]
    OBVIOUS
  <2>2. e[0] = start /\ \A k \in 1 .. n : e[k] = Turned(run[k - 1], k)
    BY <1>n, <2>1
  <2> QED BY <1>r6, <2>1, <2>2
<1>r8. \A k \in 0 .. n : run[k] \in Kept(k)
  <2> DEFINE K == {k \in 0 .. n : run[k] \in Kept(k)}
  <2> HIDE DEF run
  <2>1. 0 \in K
    BY <1>n, <1>a, <1>r7
  <2>2. ASSUME NEW k \in 1 .. n, k - 1 \in K PROVE k \in K
    <3>1. run[k - 1] \in Kept(k - 1) /\ run[k] = Turned(run[k - 1], k) /\ k \in 0 .. n
      BY <1>n, <1>r7, <2>2
    <3> QED BY <1>b, <3>1
  <2> HIDE DEF K
  <2>3. \A k \in 0 .. n : k \in K
    BY <1>n, <2>1, <2>2, Climb
  <2> QED BY <2>3 DEF K
<1> DEFINE order == run[n]
<1>1. n \in 0 .. n
  BY <1>n
<1>2. order \in Seq(ids) /\ IsInjective(order) /\ Len(order) = n
  BY <1>r8, <1>1 DEF Kept
<1>3. Sorted(ids) = order
  BY Zenon DEF Sorted, Repeated, order, run, n, Turned, start
<1> HIDE DEF order
<1>4. ToSet(order) = ids
  <2>1. Cardinality(ToSet(order)) = n /\ ToSet(order) \subseteq ids
    BY <1>2, AsMany
  <2> QED BY <1>0, <2>1, FS_Subset
<1> QED BY <1>0, <1>2, <1>3, <1>4

(* What Tail leaves of a sequence.                                            *)
LEMMA Behind ==
    ASSUME NEW D, NEW p \in Seq(D), p # <<>>
    PROVE  /\ Tail(p) \in Seq(D) /\ Len(Tail(p)) = Len(p) - 1 /\ Len(p) \in Nat /\ Len(p) >= 1
           /\ Head(p) = p[1] /\ Head(p) \in D
           /\ \A i \in 1 .. Len(p) - 1 : Tail(p)[i] = p[i + 1]
           /\ ToSet(p) = ToSet(Tail(p)) \cup {Head(p)}
<1>1. PICK n \in Nat : n = Len(p) /\ n >= 1
  OBVIOUS
<1>2. /\ Tail(p) \in Seq(D) /\ Len(Tail(p)) = n - 1 /\ Head(p) = p[1] /\ Head(p) \in D
      /\ \A i \in 1 .. n - 1 : Tail(p)[i] = p[i + 1]
  BY <1>1
<1>3. DOMAIN p = 1 .. n /\ DOMAIN Tail(p) = 1 .. n - 1
  BY <1>1, <1>2
<1>4. \A i \in 1 .. n : i = 1 \/ (i - 1 \in 1 .. n - 1 /\ (i - 1) + 1 = i)
  OBVIOUS
<1>5. 1 \in 1 .. n /\ \A i \in 1 .. n - 1 : i + 1 \in 1 .. n
  BY <1>1
<1> DEFINE q == Tail(p)
           h == Head(p)
<1>6. ToSet(p) = {p[i] : i \in 1 .. n} /\ ToSet(q) = {q[i] : i \in 1 .. n - 1}
  BY <1>3 DEF ToSet
<1>7. \A i \in 1 .. n - 1 : q[i] = p[i + 1]
  BY <1>2
<1>8. h = p[1]
  BY <1>2
<1> HIDE DEF q, h
<1>9. ToSet(p) \subseteq ToSet(q) \cup {h}
  <2>1. ASSUME NEW i \in 1 .. n PROVE p[i] \in ToSet(q) \cup {h}
    <3>1. CASE i = 1
      BY <1>8, <3>1
    <3>2. CASE i # 1
      BY <1>4, <1>6, <1>7, <3>2
    <3> QED BY <3>1, <3>2
  <2> QED BY <1>6, <2>1
<1>10. ToSet(q) \cup {h} \subseteq ToSet(p)
  BY <1>5, <1>6, <1>7, <1>8
<1> QED BY <1>1, <1>2, <1>9, <1>10 DEF q, h

(* Keys of a length are ordered.                                              *)
LEMMA PrecedesOrders ==
    ASSUME NEW n \in Nat
    PROVE  /\ \A a : Len(a) = n => ~Precedes(a, a)
           /\ \A a, b, c : Len(a) = n /\ Len(b) = n /\ Len(c) = n /\ Precedes(a, b) /\ Precedes(b, c)
                 => Precedes(a, c)
<1>1. ASSUME NEW a, NEW b, Len(a) = n, Len(b) = n
      PROVE  Precedes(a, b) <=> \E k \in 1 .. n : (\A j \in 1 .. k - 1 : a[j] = b[j]) /\ Rank(a[k]) < Rank(b[k])
  <2>1. Min({n, n}) = n
    BY DEF Min
  <2> QED BY <1>1, <2>1 DEF Precedes
<1>2. \A x : Rank(x) \in Nat
  BY RankIs
<1>3. ASSUME NEW a, Len(a) = n PROVE ~Precedes(a, a)
  BY <1>1, <1>2, <1>3
<1>4. ASSUME NEW a, NEW b, NEW c, Len(a) = n, Len(b) = n, Len(c) = n, Precedes(a, b), Precedes(b, c)
      PROVE  Precedes(a, c)
  <2>1. PICK k \in 1 .. n : Rank(a[k]) < Rank(b[k]) /\ \A j \in 1 .. k - 1 : a[j] = b[j]
    BY <1>1, <1>4
  <2>2. PICK l \in 1 .. n : Rank(b[l]) < Rank(c[l]) /\ \A j \in 1 .. l - 1 : b[j] = c[j]
    BY <1>1, <1>4
  <2>3. CASE k < l
    <3>1. k \in 1 .. l - 1 /\ \A j \in 1 .. k - 1 : j \in 1 .. l - 1
      BY <2>3
    <3>2. b[k] = c[k] /\ \A j \in 1 .. k - 1 : a[j] = c[j]
      BY <2>1, <2>2, <3>1
    <3> QED BY <1>1, <1>4, <2>1, <3>2
  <2>4. CASE l < k
    <3>1. l \in 1 .. k - 1 /\ \A j \in 1 .. l - 1 : j \in 1 .. k - 1
      BY <2>4
    <3>2. a[l] = b[l] /\ \A j \in 1 .. l - 1 : a[j] = c[j]
      BY <2>1, <2>2, <3>1
    <3> QED BY <1>1, <1>4, <2>2, <3>2
  <2>5. CASE l = k
    <3>1. \A j \in 1 .. k - 1 : a[j] = c[j]
      BY <2>1, <2>2, <2>5
    <3>2. Rank(a[k]) < Rank(c[k])
      BY <1>2, <2>1, <2>2, <2>5
    <3> QED BY <1>1, <1>4, <3>1, <3>2
  <2> QED BY <2>3, <2>4, <2>5
<1> QED BY <1>3, <1>4

(* Of finitely many keys of a length one comes first.                         *)
LEMMA OneComesFirst ==
    ASSUME NEW n \in Nat, NEW keys, IsFiniteSet(keys), keys # {}, \A k \in keys : Len(k) = n
    PROVE  \E k \in keys : \A other \in keys : ~Precedes(other, k)
<1> DEFINE Below(k) == {o \in keys : Precedes(o, k)}
           Sizes == {Cardinality(Below(k)) : k \in keys}
<1>1. \A k \in keys : IsFiniteSet(Below(k)) /\ Cardinality(Below(k)) \in Nat
  <2>1. ASSUME NEW k \in keys PROVE IsFiniteSet(Below(k)) /\ Cardinality(Below(k)) \in Nat
    <3>1. Below(k) \in SUBSET keys
      OBVIOUS
    <3> QED BY <3>1, FS_Subset, FS_CardinalityType
  <2> QED BY <2>1
<1>2. Sizes \in SUBSET Nat /\ Sizes # {}
  BY <1>1
<1>3. PICK m \in Sizes : \A x \in Sizes : m <= x
  <2> HIDE DEF Sizes
  <2> QED BY <1>2, LeastOf
<1>4. PICK k \in keys : m = Cardinality(Below(k))
  OBVIOUS
<1>5. ASSUME NEW o \in keys, Precedes(o, k) PROVE FALSE
  <2>1. ~Precedes(o, o) /\ \A a \in keys : Precedes(a, o) => Precedes(a, k)
    BY <1>5, PrecedesOrders
  <2>2. o \in Below(k) /\ o \notin Below(o) /\ Below(o) \subseteq Below(k)
    BY <1>5, <2>1
  <2>3. Cardinality(Below(k)) <= Cardinality(Below(o))
    BY <1>3, <1>4
  <2> HIDE DEF Below
  <2>4. Cardinality(Below(o)) <= Cardinality(Below(k)) /\ Cardinality(Below(k)) # Cardinality(Below(o))
    BY <1>1, <2>2, FS_Subset
  <2> QED BY <1>1, <2>3, <2>4
<1> QED BY <1>5

(* The edges of a graph of ids: a key names one of them, and of several to    *)
(* one target there is a first.                                               *)
Wired(edges, ids) ==
    /\ \A e \in edges : e.source \in ids /\ e.target \in ids
    /\ \A e, f \in edges : e.key = f.key => e.source = f.source /\ e.target = f.target
    /\ \A s \in ids : \A t \in Targets(edges, s) :
          \E e \in edges : e.source = s /\ e.target = t /\ e.key = KeyTo(edges, s, t)

(* Edges whose keys name one of them each are wired.                          *)
LEMMA KeysWire ==
    ASSUME NEW ids, NEW edges, IsFiniteSet(edges), NEW n \in Nat,
           \A e \in edges : e.source \in ids /\ e.target \in ids /\ Len(e.key) = n,
           \A e, f \in edges : e.key = f.key => e.source = f.source /\ e.target = f.target
    PROVE  Wired(edges, ids)
<1> SUFFICES ASSUME NEW s \in ids, NEW t \in Targets(edges, s)
             PROVE  \E e \in edges : e.source = s /\ e.target = t /\ e.key = KeyTo(edges, s, t)
  BY DEF Wired
<1> DEFINE between == {x \in edges : x.source = s /\ x.target = t}
           keys == {e.key : e \in between}
           keyOf == [e \in between |-> e.key]
<1>1. IsFiniteSet(between)
  <2>1. between \in SUBSET edges
    OBVIOUS
  <2> HIDE DEF between
  <2> QED BY <2>1, FS_Subset
<1>2. keyOf \in Surjection(between, keys)
  BY DEF Surjection
<1>3. IsFiniteSet(keys)
  <2> HIDE DEF keyOf, keys, between
  <2> QED BY <1>1, <1>2, FS_Surjection
<1>4. keys # {} /\ \A k \in keys : Len(k) = n
  BY DEF Targets
<1>5. \E k \in keys : \A other \in keys : ~Precedes(other, k)
  <2> HIDE DEF keys
  <2> QED BY <1>3, <1>4, OneComesFirst
<1>6. KeyTo(edges, s, t) = CHOOSE k \in keys : \A other \in keys : ~Precedes(other, k)
  BY Zenon DEF KeyTo, keys, between
<1>7. KeyTo(edges, s, t) \in keys
  <2> HIDE DEF keys
  <2> QED BY <1>5, <1>6
<1> QED BY <1>7

(* ---- queries: the traversal --------------------------------------------------- *)
(* Of what is visited, at depths up to the bound: a depth is the least number *)
(* of steps, and the path has that many and leads there.                      *)
Exact(edges, roots, depth, visited) ==
    \A s \in DOMAIN visited : \A j \in 0 .. depth :
       s \in Within(edges, roots, j) <=> visited[s].depth <= j
Traced(edges, roots, visited) ==
    \A s \in DOMAIN visited :
       /\ Len(visited[s].path) = visited[s].depth
       /\ visited[s].depth > 0 => Leads(edges, roots, visited[s].path, s)
(* The queue holds one depth or two, the lesser ahead.                        *)
Lined(visited, queue) ==
    \A i, j \in 1 .. Len(queue) : i <= j =>
       /\ visited[queue[i]].depth <= visited[queue[j]].depth
       /\ visited[queue[j]].depth <= visited[queue[i]].depth + 1
(* What has left the queue has nowhere new to lead to, but at the bound.      *)
Finished(edges, depth, visited, queue, limited) ==
    \A s \in DOMAIN visited \ ToSet(queue) :
       Targets(edges, s) \subseteq DOMAIN visited \/ (limited /\ visited[s].depth = depth)
Cut(edges, depth, visited, queue, limited) ==
    limited => /\ \A i \in 1 .. Len(queue) : visited[queue[i]].depth = depth
               /\ \E s \in DOMAIN visited : ~(Targets(edges, s) \subseteq DOMAIN visited)
(* Every turn but the last ones enters a subject or leaves one.               *)
Counted(roots, k, visited, queue) ==
    2 * Cardinality(DOMAIN visited) - Len(queue) = Cardinality(roots) + k
Overfull(edges, roots, request) ==
    Cardinality(Within(edges, roots, request.depth)) > request.nodes

Surveyed(edges, roots, depth, visited, queue, limited) ==
    /\ roots \subseteq DOMAIN visited /\ queue \in Seq(DOMAIN visited)
    /\ Exact(edges, roots, depth, visited) /\ Traced(edges, roots, visited)
    /\ Lined(visited, queue) /\ Finished(edges, depth, visited, queue, limited)
    /\ Cut(edges, depth, visited, queue, limited)

Step(edges, depth) == [depth : 0 .. depth, path : Seq({e.key : e \in edges})]
Surveys(edges, ids, depth) ==
    [visited : UNION {[V -> Step(edges, depth)] : V \in SUBSET ids}, queue : Seq(ids),
     limited : BOOLEAN, failed : BOOLEAN]
Surveying(edges, ids, roots, request, k) ==
    {st \in Surveys(edges, ids, request.depth) :
       /\ Surveyed(edges, roots, request.depth, st.visited, st.queue, st.limited)
       /\ st.failed => Overfull(edges, roots, request)
       /\ st.queue # <<>> /\ ~st.failed => Counted(roots, k, st.visited, st.queue)}

(* Whatever is nearer than the head of the queue is visited: with an empty    *)
(* queue, whatever is within the bound.                                       *)
LEMMA NearerIsVisited ==
    ASSUME NEW edges, NEW roots, NEW depth \in Nat, NEW visited, NEW queue, NEW limited,
           \A s \in DOMAIN visited : visited[s].depth \in 0 .. depth,
           Surveyed(edges, roots, depth, visited, queue, limited),
           NEW d \in 0 .. depth, \A i \in 1 .. Len(queue) : d <= visited[queue[i]].depth
    PROVE  Within(edges, roots, d) \subseteq DOMAIN visited
<1> DEFINE V == DOMAIN visited
           W(j) == Within(edges, roots, j)
           K == {j \in 0 .. d : W(j) \subseteq V}
<1>1. 0 \in K
  <2>1. W(0) = roots
    BY WithinGrows
  <2> QED BY <2>1 DEF Surveyed
<1>2. ASSUME NEW j \in 1 .. d, j - 1 \in K PROVE j \in K
  <2>1. j - 1 \in Nat /\ (j - 1) + 1 = j /\ j - 1 \in 0 .. depth /\ j - 1 < d
    OBVIOUS
  <2>2. W(j) = Further(edges, W(j - 1)) /\ W(j - 1) \subseteq V
    BY <1>2, <2>1, WithinGrows
  <2>3. ASSUME NEW e \in edges, e.source \in W(j - 1) PROVE e.target \in V
    <3> DEFINE s == e.source
    <3>1. s \in V /\ visited[s].depth <= j - 1
      BY <2>1, <2>2, <2>3 DEF Surveyed, Exact
    <3>2. visited[s].depth < d /\ visited[s].depth # depth
      BY <2>1, <3>1
    <3>3. s \notin ToSet(queue)
      <4>1. ASSUME s \in ToSet(queue) PROVE FALSE
        <5>1. queue \in Seq(V)
          BY DEF Surveyed
        <5>2. PICK i \in 1 .. Len(queue) : queue[i] = s
          BY <4>1, <5>1 DEF ToSet
        <5> QED BY <3>1, <3>2, <5>2
      <4> QED BY <4>1
    <3>4. Targets(edges, s) \subseteq V
      BY <3>1, <3>2, <3>3 DEF Surveyed, Finished
    <3>5. e.target \in Targets(edges, s)
      BY DEF Targets
    <3> QED BY <3>4, <3>5
  <2>4. W(j) \subseteq V
    <3> HIDE DEF W, V
    <3> QED BY <2>2, <2>3 DEF Further
  <2> QED BY <2>4
<1>3. d \in K
  <2>1. d \in Nat /\ d \in 0 .. d
    OBVIOUS
  <2> HIDE DEF K
  <2> QED BY <1>1, <1>2, <2>1, Climb
<1> QED BY <1>3

(* The head is left: it leads nowhere new, or its depth is the bound.         *)
LEMMA HeadIsLeft ==
    ASSUME NEW edges, NEW roots, NEW depth \in Nat, NEW visited, NEW queue, NEW limited \in BOOLEAN,
           \A s \in DOMAIN visited : visited[s].depth \in 0 .. depth,
           Surveyed(edges, roots, depth, visited, queue, limited), queue # <<>>,
           NEW fresh, fresh = Targets(edges, Head(queue)) \ DOMAIN visited,
           fresh = {} \/ visited[Head(queue)].depth >= depth
    PROVE  Surveyed(edges, roots, depth, visited, Tail(queue), limited \/ fresh # {})
<1> DEFINE V == DOMAIN visited
           q == Tail(queue)
           h == Head(queue)
<1>1. queue \in Seq(V)
  BY DEF Surveyed
<1>2. PICK n \in Nat : n = Len(queue) /\ n >= 1
  BY <1>1
<1>3. /\ q \in Seq(V) /\ Len(q) = n - 1 /\ h = queue[1] /\ h \in V
      /\ \A i \in 1 .. n - 1 : q[i] = queue[i + 1]
      /\ ToSet(queue) = ToSet(q) \cup {h}
  BY <1>1, <1>2, Behind
<1>4. h = Head(queue)
  OBVIOUS
<1> HIDE DEF q, h
<1>5. \A i \in 1 .. n - 1 : i + 1 \in 1 .. n /\ 1 <= i + 1 /\ 1 \in 1 .. n
  BY <1>2
<1>6. \A i \in 1 .. n : queue[i] \in V
  BY <1>1, <1>2
<1>7. Lined(visited, q)
  <2>1. ASSUME NEW i \in 1 .. n - 1, NEW j \in 1 .. n - 1, i <= j
        PROVE  /\ visited[q[i]].depth <= visited[q[j]].depth
               /\ visited[q[j]].depth <= visited[q[i]].depth + 1
    <3>1. i + 1 <= j + 1 /\ i + 1 \in 1 .. n /\ j + 1 \in 1 .. n
      BY <2>1, <1>5
    <3>2. /\ visited[queue[i + 1]].depth <= visited[queue[j + 1]].depth
          /\ visited[queue[j + 1]].depth <= visited[queue[i + 1]].depth + 1
      BY <1>2, <3>1 DEF Surveyed, Lined
    <3>3. q[i] = queue[i + 1] /\ q[j] = queue[j + 1]
      BY <1>3
    <3> QED BY <3>2, <3>3
  <2> QED BY <1>3, <2>1 DEF Lined
<1>8. fresh # {} => visited[h].depth = depth
  BY <1>3, <1>4
<1>9. Finished(edges, depth, visited, q, limited \/ fresh # {})
  <2> SUFFICES ASSUME NEW s \in V \ ToSet(q)
               PROVE  \/ Targets(edges, s) \subseteq V
                      \/ (limited \/ fresh # {}) /\ visited[s].depth = depth
    BY DEF Finished
  <2>1. CASE s = h
    BY <1>4, <1>8, <2>1
  <2>2. CASE s # h
    <3>1. s \in V \ ToSet(queue)
      BY <1>3, <2>2
    <3> QED BY <3>1 DEF Surveyed, Finished
  <2> QED BY <2>1, <2>2
<1>10. Cut(edges, depth, visited, q, limited \/ fresh # {})
  <2> SUFFICES ASSUME limited \/ fresh # {}
               PROVE  /\ \A i \in 1 .. n - 1 : visited[q[i]].depth = depth
                      /\ \E s \in V : ~(Targets(edges, s) \subseteq V)
    BY <1>3 DEF Cut
  <2>1. CASE limited
    <3>1. /\ \A i \in 1 .. n : visited[queue[i]].depth = depth
          /\ \E s \in V : ~(Targets(edges, s) \subseteq V)
      BY <1>2, <2>1 DEF Surveyed, Cut
    <3> QED BY <1>3, <1>5, <3>1
  <2>2. CASE fresh # {}
    <3>1. ~(Targets(edges, h) \subseteq V)
      BY <1>4, <2>2
    <3>2. \A i \in 1 .. n : visited[queue[1]].depth <= visited[queue[i]].depth
      BY <1>2 DEF Surveyed, Lined
    <3>3. \A i \in 1 .. n : visited[queue[i]].depth = depth
      BY <1>3, <1>6, <1>8, <2>2, <3>2
    <3> QED BY <1>3, <1>5, <3>1, <3>3
  <2> QED BY <2>1, <2>2
<1>11. roots \subseteq V /\ Exact(edges, roots, depth, visited) /\ Traced(edges, roots, visited)
  BY DEF Surveyed
<1> QED BY <1>3, <1>7, <1>9, <1>10, <1>11 DEF Surveyed, q

(* A path that an edge prolongs leads on.                                     *)
LEMMA LeadsOn ==
    ASSUME NEW edges, NEW ids, Wired(edges, ids), NEW roots, NEW path \in Seq({x.key : x \in edges}),
           NEW e \in edges, NEW s, s = e.source,
           IF path = <<>> THEN s \in roots ELSE Leads(edges, roots, path, s)
    PROVE  Leads(edges, roots, Append(path, e.key), e.target)
<1> DEFINE K == {x.key : x \in edges}
           long == Append(path, e.key)
           last(p, i) == {x.target : x \in {y \in edges : y.key = p[i]}}
           first(p, i) == {x.source : x \in {y \in edges : y.key = p[i]}}
<1>1. PICK n \in Nat : n = Len(path)
  OBVIOUS
<1>2. /\ long \in Seq(K) /\ Len(long) = n + 1 /\ long[n + 1] = e.key
      /\ \A i \in 1 .. n : long[i] = path[i]
  BY <1>1
<1> HIDE DEF long
<1>3. long # <<>>
  BY <1>2
<1>4. last(long, n + 1) = {e.target} /\ first(long, n + 1) = {s}
  <2>1. \A x \in edges : x.key = e.key => x.source = e.source /\ x.target = e.target
    BY DEF Wired
  <2> QED BY <1>2, <2>1
<1>5. \A i \in 1 .. n : last(long, i) = last(path, i) /\ first(long, i) = first(path, i)
  BY <1>2
<1>6. path # <<>> => /\ first(path, 1) \subseteq roots /\ last(path, n) = {s}
                     /\ \A i \in 2 .. n : first(path, i) = last(path, i - 1)
  <2>1. path # <<>> => Leads(edges, roots, path, s)
    OBVIOUS
  <2> QED BY <1>1, <2>1 DEF Leads
<1>7. path # <<>> <=> n # 0
  BY <1>1
<1> HIDE DEF last, first
<1>8. first(long, 1) \subseteq roots
  <2>1. CASE n = 0
    BY <1>4, <1>7, <2>1
  <2>2. CASE n # 0
    BY <1>5, <1>6, <1>7, <2>2
  <2> QED BY <2>1, <2>2
<1>9. ASSUME NEW i \in 2 .. n + 1 PROVE first(long, i) = last(long, i - 1)
  <2>1. CASE i = n + 1
    <3>1. n # 0 /\ i - 1 = n /\ n \in 1 .. n
      BY <2>1
    <3> QED BY <1>4, <1>5, <1>6, <1>7, <2>1, <3>1
  <2>2. CASE i # n + 1
    <3>1. i \in 2 .. n /\ i \in 1 .. n /\ i - 1 \in 1 .. n /\ n # 0
      BY <2>2
    <3> QED BY <1>5, <1>6, <1>7, <3>1
  <2> QED BY <2>1, <2>2
<1>10. /\ long # <<>> /\ first(long, 1) \subseteq roots /\ last(long, Len(long)) = {e.target}
       /\ \A i \in 2 .. Len(long) : first(long, i) = last(long, i - 1)
  BY <1>2, <1>3, <1>4, <1>8, <1>9
<1> QED BY <1>10 DEF Leads, last, first, long

(* The head is followed to a subject that is new.                             *)
Found(edges, visited, subject, target) ==
    [depth |-> visited[subject].depth + 1, path |-> Append(visited[subject].path, KeyTo(edges, subject, target))]
Entering(edges, visited, subject, target) ==
    [s \in DOMAIN visited \cup {target} |->
       IF s = target THEN Found(edges, visited, subject, target) ELSE visited[s]]

(* A depth within the bound and a path of keys are a step.                    *)
LEMMA StepIs ==
    ASSUME NEW edges, NEW depth \in Nat, NEW d \in 0 .. depth, NEW p \in Seq({e.key : e \in edges})
    PROVE  [depth |-> d, path |-> p] \in Step(edges, depth)
<1> DEFINE K == {e.key : e \in edges}
<1>1. Step(edges, depth) = [depth : 0 .. depth, path : Seq(K)]
  BY DEF Step
<1> HIDE DEF K
<1> QED BY <1>1 DEF K

MayEnter(edges, ids, roots, depth, V, visited, queue, limited, target) ==
    /\ Wired(edges, ids) /\ V \in SUBSET ids /\ visited \in [V -> Step(edges, depth)] /\ limited \in BOOLEAN
    /\ Surveyed(edges, roots, depth, visited, queue, limited) /\ queue # <<>>
    /\ visited[Head(queue)].depth < depth
    /\ target \in Targets(edges, Head(queue)) \ V
HasEntered(edges, ids, roots, depth, V, entered, queue, limited, target) ==
    /\ entered \in [V \cup {target} -> Step(edges, depth)] /\ target \in ids
    /\ target \in Within(edges, roots, depth)
    /\ Surveyed(edges, roots, depth, entered, Append(queue, target), limited)

(* Entering what is new keeps the survey.                                     *)
LEMMA OneIsEntered ==
    ASSUME NEW edges, NEW ids, NEW roots, NEW depth \in Nat, NEW V, NEW visited, NEW queue, NEW limited, NEW target,
           MayEnter(edges, ids, roots, depth, V, visited, queue, limited, target)
    PROVE  HasEntered(edges, ids, roots, depth, V, Entering(edges, visited, Head(queue), target),
                      queue, limited, target)
<1>may. /\ Wired(edges, ids) /\ V \in SUBSET ids /\ visited \in [V -> Step(edges, depth)] /\ limited \in BOOLEAN
        /\ Surveyed(edges, roots, depth, visited, queue, limited) /\ queue # <<>>
        /\ visited[Head(queue)].depth < depth
        /\ target \in Targets(edges, Head(queue)) \ V
  BY DEF MayEnter
<1> USE <1>may
<1>pick. PICK entered : entered = Entering(edges, visited, Head(queue), target)
  OBVIOUS
<1> DEFINE W(j) == Within(edges, roots, j)
           K == {x.key : x \in edges}
           U == V \cup {target}
<1>0. PICK h : h = Head(queue)
  OBVIOUS
<1> DEFINE next == Found(edges, visited, h, target)
<1>entered. entered = [s \in V \cup {target} |-> IF s = target THEN next ELSE visited[s]]
  BY <1>0, <1>pick DEF Entering
<1> HIDE DEF next
<1>1. queue \in Seq(V)
  BY DEF Surveyed
<1>2. PICK n \in Nat : n = Len(queue) /\ n >= 1
  BY <1>1
<1>3. h = queue[1] /\ h \in V /\ 1 \in 1 .. n /\ \A i \in 1 .. n : queue[i] \in V
  BY <1>0, <1>1, <1>2
<1>4. \A s \in V : visited[s].depth \in 0 .. depth /\ visited[s].path \in Seq(K)
  BY DEF Step
<1>5. PICK d \in 0 .. depth : d = visited[h].depth /\ d < depth
  BY <1>0, <1>3, <1>4
<1>6. PICK e \in edges : e.source = h /\ e.target = target /\ e.key = KeyTo(edges, h, target)
  <2>1. h \in ids /\ target \in Targets(edges, h)
    BY <1>0, <1>3
  <2> QED BY <2>1 DEF Wired
<1>7. target \in ids /\ e.key \in K /\ target \notin V
  BY <1>6 DEF Wired
<1>8. \A i \in 1 .. n : d <= visited[queue[i]].depth /\ visited[queue[i]].depth <= d + 1
  BY <1>2, <1>3, <1>5 DEF Surveyed, Lined
<1>9. W(d) \subseteq V
  <2>1. DOMAIN visited = V
    OBVIOUS
  <2> QED BY <1>2, <1>4, <1>8, <2>1, NearerIsVisited
<1>10. target \in W(d + 1)
  <2>1. h \in W(d)
    BY <1>3, <1>5 DEF Surveyed, Exact
  <2>2. W(d + 1) = Further(edges, W(d))
    BY WithinGrows
  <2> QED BY <1>6, <2>1, <2>2 DEF Further
<1>11. \A j \in 0 .. depth : target \in W(j) <=> d + 1 <= j
  <2>1. ASSUME NEW j \in 0 .. depth, d + 1 <= j PROVE target \in W(j)
    <3>1. d + 1 \in 0 .. j /\ j \in Nat
      BY <2>1
    <3>2. W(d + 1) \subseteq W(j)
      BY <3>1, WithinKeeps
    <3> QED BY <1>10, <3>2
  <2>2. ASSUME NEW j \in 0 .. depth, ~(d + 1 <= j) PROVE target \notin W(j)
    <3>1. j \in 0 .. d /\ d \in Nat
      BY <2>2
    <3>2. W(j) \subseteq W(d)
      BY <3>1, WithinKeeps
    <3> QED BY <1>7, <1>9, <3>2
  <2> QED BY <2>1, <2>2
<1>12. PICK path \in Seq(K) : path = visited[h].path /\ Len(path) = d
  BY <1>3, <1>4, <1>5 DEF Surveyed, Traced
<1>13. PICK long \in Seq(K) : long = Append(path, e.key) /\ Len(long) = d + 1
  <2> HIDE DEF K
  <2>1. Append(path, e.key) \in Seq(K) /\ Len(Append(path, e.key)) = Len(path) + 1
    BY <1>7, <1>12, Longer
  <2> QED BY <1>12, <2>1
<1>14. next = [depth |-> d + 1, path |-> long]
  BY <1>0, <1>5, <1>6, <1>12, <1>13 DEF next, Found
<1>15. next \in Step(edges, depth) /\ next.depth = d + 1 /\ next.path = long
  <2>1. d + 1 \in 0 .. depth
    BY <1>5
  <2>2. [depth |-> d + 1, path |-> long] \in Step(edges, depth)
    BY <1>13, <2>1, StepIs
  <2> QED BY <1>14, <2>2
<1>16. entered \in [U -> Step(edges, depth)]
  BY <1>15, <1>entered
<1>17. DOMAIN entered = U /\ entered[target] = next /\ \A s \in V : entered[s] = visited[s]
  BY <1>7, <1>entered
<1>18. /\ entered[target].depth = d + 1 /\ entered[target].path = long
       /\ \A s \in V : entered[s].depth = visited[s].depth /\ entered[s].path = visited[s].path
  BY <1>15, <1>17
<1> HIDE DEF W
<1>19. Exact(edges, roots, depth, entered)
  <2>1. \A s \in V : \A j \in 0 .. depth : s \in W(j) <=> visited[s].depth <= j
    BY DEF Surveyed, Exact, W
  <2>2. \A s \in U : \A j \in 0 .. depth : s \in W(j) <=> entered[s].depth <= j
    BY <1>11, <1>18, <2>1
  <2> QED BY <1>17, <2>2 DEF Exact, W
<1>20. Leads(edges, roots, long, target)
  <2>1. IF path = <<>> THEN h \in roots ELSE Leads(edges, roots, path, h)
    <3>1. CASE path = <<>>
      <4>1. d = 0
        BY <1>12, <3>1
      <4>2. h \in W(0)
        <5>1. \A s \in V : \A j \in 0 .. depth : s \in Within(edges, roots, j) <=> visited[s].depth <= j
          BY DEF Surveyed, Exact
        <5>2. 0 \in 0 .. depth /\ visited[h].depth <= 0
          BY <1>5, <4>1
        <5> QED BY <1>3, <5>1, <5>2 DEF W
      <4>3. W(0) = roots
        BY WithinGrows DEF W
      <4> QED BY <3>1, <4>2, <4>3
    <3>2. CASE path # <<>>
      <4>1. d > 0
        BY <1>12, <3>2
      <4> QED BY <1>3, <1>5, <1>12, <3>2, <4>1 DEF Surveyed, Traced
    <3> QED BY <3>1, <3>2
  <2> HIDE DEF K
  <2> QED BY <1>6, <1>12, <1>13, <2>1, LeadsOn DEF K
<1>21. Traced(edges, roots, entered)
  <2>1. \A s \in V : /\ Len(visited[s].path) = visited[s].depth
                     /\ visited[s].depth > 0 => Leads(edges, roots, visited[s].path, s)
    BY DEF Surveyed, Traced
  <2>2. ASSUME NEW s \in U
        PROVE  /\ Len(entered[s].path) = entered[s].depth
               /\ entered[s].depth > 0 => Leads(edges, roots, entered[s].path, s)
    <3>1. CASE s = target
      BY <1>13, <1>18, <1>20, <3>1
    <3>2. CASE s # target
      BY <1>18, <2>1, <3>2
    <3> QED BY <3>1, <3>2
  <2> QED BY <1>17, <2>2 DEF Traced
<1> DEFINE q == Append(queue, target)
<1>22. /\ q \in Seq(U) /\ Len(q) = n + 1 /\ q[n + 1] = target /\ ToSet(q) = ToSet(queue) \cup {target}
       /\ \A i \in 1 .. n : q[i] = queue[i]
  <2>1. queue \in Seq(U) /\ target \in U
    BY <1>1
  <2> HIDE DEF U
  <2>2. /\ q \in Seq(U) /\ Len(q) = Len(queue) + 1 /\ q[Len(queue) + 1] = target
        /\ \A i \in 1 .. Len(queue) : q[i] = queue[i]
        /\ ToSet(q) = ToSet(queue) \cup {target}
    BY <2>1, Longer
  <2> QED BY <1>2, <2>2, Zenon
<1> HIDE DEF q
<1>23. Lined(entered, q)
  <2>1. \A i \in 1 .. n + 1 : i \in 1 .. n \/ i = n + 1
    OBVIOUS
  <2>2. \A i \in 1 .. n : entered[q[i]].depth = visited[queue[i]].depth
    BY <1>3, <1>18, <1>22
  <2>3. entered[q[n + 1]].depth = d + 1
    BY <1>18, <1>22
  <2>4. \A i, j \in 1 .. n : i <= j => /\ visited[queue[i]].depth <= visited[queue[j]].depth
                                       /\ visited[queue[j]].depth <= visited[queue[i]].depth + 1
    BY <1>2 DEF Surveyed, Lined
  <2>5. ASSUME NEW i \in 1 .. n + 1, NEW j \in 1 .. n + 1, i <= j
        PROVE  /\ entered[q[i]].depth <= entered[q[j]].depth
               /\ entered[q[j]].depth <= entered[q[i]].depth + 1
    <3>1. CASE i \in 1 .. n /\ j \in 1 .. n
      BY <2>2, <2>4, <2>5, <3>1
    <3>2. CASE i \in 1 .. n /\ j = n + 1
      <4>1. visited[queue[i]].depth \in Int /\ d <= visited[queue[i]].depth /\ visited[queue[i]].depth <= d + 1
        <5>1. queue[i] \in V /\ d <= visited[queue[i]].depth /\ visited[queue[i]].depth <= d + 1
          BY <1>3, <1>8, <3>2
        <5>2. visited[queue[i]].depth \in 0 .. depth
          BY <1>4, <5>1
        <5> QED BY <5>1, <5>2
      <4>2. entered[q[i]].depth = visited[queue[i]].depth /\ entered[q[j]].depth = d + 1
        BY <2>2, <2>3, <3>2
      <4> QED BY <4>1, <4>2
    <3>3. CASE i = n + 1 /\ j = n + 1
      BY <2>3, <3>3
    <3> QED BY <2>1, <2>5, <3>1, <3>2, <3>3
  <2> QED BY <1>22, <2>5 DEF Lined
<1>24. Finished(edges, depth, entered, q, limited)
  <2> SUFFICES ASSUME NEW s \in U \ ToSet(q)
               PROVE  Targets(edges, s) \subseteq U \/ (limited /\ entered[s].depth = depth)
    BY <1>17 DEF Finished
  <2>1. s \in V \ ToSet(queue)
    BY <1>22
  <2>2. Targets(edges, s) \subseteq V \/ (limited /\ visited[s].depth = depth)
    BY <2>1 DEF Surveyed, Finished
  <2> QED BY <1>18, <2>1, <2>2
<1>25. ~limited
  <2>1. limited => visited[queue[1]].depth = depth
    BY <1>2, <1>3 DEF Surveyed, Cut
  <2> QED BY <1>3, <1>5, <2>1
<1>26. Cut(edges, depth, entered, q, limited)
  BY <1>25 DEF Cut
<1>27. roots \subseteq U
  BY DEF Surveyed
<1>28. target \in Within(edges, roots, depth)
  BY <1>5, <1>11 DEF W
<1> QED BY <1>7, <1>16, <1>17, <1>19, <1>21, <1>22, <1>23, <1>24, <1>26, <1>27, <1>28, <1>pick, Zenon DEF Surveyed, HasEntered, q

(* A turn of the traversal keeps the survey.                                  *)
LEMMA TurnSurveys ==
    ASSUME NEW edges, NEW ids, IsFiniteSet(ids), Wired(edges, ids), NEW roots \in SUBSET ids,
           NEW request, request.depth \in Nat, request.nodes \in Nat,
           NEW k \in Nat, NEW st \in Surveying(edges, ids, roots, request, k)
    PROVE  TakeNext(st, edges, request) \in Surveying(edges, ids, roots, request, k + 1)
<1> DEFINE depth == request.depth
           next == TakeNext(st, edges, request)
<1>1. PICK V \in SUBSET ids :
         \E visited \in [V -> Step(edges, depth)], queue \in Seq(ids), limited \in BOOLEAN, failed \in BOOLEAN :
            st = [visited |-> visited, queue |-> queue, limited |-> limited, failed |-> failed]
  BY DEF Surveying, Surveys
<1>2. PICK visited \in [V -> Step(edges, depth)], queue \in Seq(ids), limited \in BOOLEAN, failed \in BOOLEAN :
         st = [visited |-> visited, queue |-> queue, limited |-> limited, failed |-> failed]
  BY <1>1
<1>3. /\ st.visited = visited /\ st.queue = queue /\ st.limited = limited /\ st.failed = failed
      /\ DOMAIN visited = V
  BY <1>2
<1>4. /\ Surveyed(edges, roots, depth, visited, queue, limited)
      /\ failed => Overfull(edges, roots, request)
      /\ queue # <<>> /\ ~failed => Counted(roots, k, visited, queue)
  BY <1>3 DEF Surveying
<1>5. queue \in Seq(V) /\ roots \subseteq V
  BY <1>3, <1>4 DEF Surveyed
<1>6. \A s \in V : visited[s].depth \in 0 .. depth
  BY DEF Step
<1>7. IsFiniteSet(V) /\ IsFiniteSet(roots)
  BY FS_Subset
<1>8. PICK v \in Nat : v = Cardinality(V)
  BY <1>7, FS_CardinalityType
<1>9. PICK n \in Nat : n = Len(queue) /\ (queue # <<>> => n >= 1)
  BY <1>5
<1>10. PICK r \in Nat : r = Cardinality(roots)
  BY <1>7, FS_CardinalityType
<1>11. queue # <<>> /\ ~failed => 2 * v - n = r + k
  BY <1>3, <1>4, <1>8, <1>9, <1>10 DEF Counted
<1> DEFINE h == Head(queue)
           fresh == Targets(edges, h) \ V
           target == Least(fresh)
<1>12. queue # <<>> => h \in V
  BY <1>5
<1>13. next = IF queue = <<>> \/ failed THEN st
              ELSE IF fresh = {} \/ visited[h].depth >= depth
              THEN [st EXCEPT !.queue = Tail(@), !.limited = @ \/ fresh # {}]
              ELSE IF v >= request.nodes THEN [st EXCEPT !.failed = TRUE]
              ELSE [st EXCEPT !.visited = [s \in DOMAIN @ \cup {target} |->
                                             IF s = target
                                             THEN [depth |-> visited[h].depth + 1,
                                                   path |-> Append(visited[h].path, KeyTo(edges, h, target))]
                                             ELSE @[s]],
                              !.queue = Append(queue, target)]
  BY <1>3, <1>8, Zenon DEF TakeNext, Enqueued
<1> HIDE DEF next, depth
<1>14. st \in Surveys(edges, ids, depth)
  BY DEF Surveying, depth
<1>15. CASE queue = <<>> \/ failed
  <2>1. next = st
    BY <1>13, <1>15
  <2>2. queue # <<>> /\ ~failed => Counted(roots, k + 1, visited, queue)
    BY <1>15
  <2>3. st \in Surveying(edges, ids, roots, request, k + 1)
    BY <1>3, <1>4, <1>14, <2>2, Zenon DEF Surveying, depth
  <2> QED BY <2>1, <2>3 DEF next
<1>16. CASE queue # <<>> /\ ~failed /\ (fresh = {} \/ visited[h].depth >= depth)
  <2> DEFINE q == Tail(queue)
             more == limited \/ fresh # {}
  <2>1. next = [visited |-> visited, queue |-> q, limited |-> more, failed |-> failed]
    <3>1. next = [st EXCEPT !.queue = Tail(@), !.limited = @ \/ fresh # {}]
      BY <1>13, <1>16
    <3> HIDE DEF fresh
    <3> QED BY <1>2, <3>1
  <2>2. Surveyed(edges, roots, depth, visited, q, more)
    <3> HIDE DEF fresh
    <3>1. fresh = Targets(edges, Head(queue)) \ DOMAIN visited
      BY <1>3 DEF fresh
    <3> HIDE DEF q
    <3>2. \A s \in DOMAIN visited : visited[s].depth \in 0 .. depth
      BY <1>3, <1>6
    <3>3. depth \in Nat
      BY DEF depth
    <3> QED BY <1>4, <1>16, <3>1, <3>2, <3>3, HeadIsLeft DEF q
  <2>3. q \in Seq(ids) /\ Len(q) = n - 1
    BY <1>5, <1>9, <1>16
  <2>4. 2 * v - Len(q) = r + (k + 1)
    BY <1>11, <1>16, <2>3
  <2> HIDE DEF q, more, fresh
  <2>5. Counted(roots, k + 1, visited, q)
    BY <1>3, <1>8, <1>10, <2>4 DEF Counted
  <2>6. more \in BOOLEAN
    BY DEF more
  <2>7. next \in Surveys(edges, ids, depth)
    BY <1>14, <2>1, <2>3, <2>6 DEF Surveys
  <2>8. next.visited = visited /\ next.queue = q /\ next.limited = more /\ next.failed = failed
    BY <2>1
  <2> QED BY <1>4, <2>2, <2>5, <2>7, <2>8, Zenon DEF Surveying, next, depth
<1>17. CASE queue # <<>> /\ ~failed /\ fresh # {} /\ visited[h].depth < depth
  <2>1. target \in fresh
    BY <1>17, LeastIs
  <2>2. visited[h].depth \in 0 .. depth /\ ~(visited[h].depth >= depth) /\ depth \in Nat
    <3>1. depth \in Nat
      BY DEF depth
    <3> QED BY <1>6, <1>12, <1>17, <3>1
  <2> DEFINE entered == Entering(edges, visited, h, target)
             q == Append(queue, target)
  <2> HIDE DEF target
  <2>3. /\ entered \in [V \cup {target} -> Step(edges, depth)] /\ target \in ids
        /\ target \in Within(edges, roots, depth)
        /\ Surveyed(edges, roots, depth, entered, q, limited)
    <3>1. target \in Targets(edges, Head(queue)) \ V /\ visited[Head(queue)].depth < depth
      BY <1>17, <2>1
    <3>2. entered = Entering(edges, visited, Head(queue), target)
      OBVIOUS
    <3> HIDE DEF entered, q
    <3>3. MayEnter(edges, ids, roots, depth, V, visited, queue, limited, target)
      BY <1>4, <1>17, <3>1, Zenon DEF MayEnter
    <3>4. HasEntered(edges, ids, roots, depth, V, entered, queue, limited, target)
      BY <2>2, <3>2, <3>3, OneIsEntered, Zenon
    <3> QED BY <3>4, Zenon DEF HasEntered, q
  <2>4. target \notin V
    BY <2>1
  <2>5. Cardinality(V \cup {target}) = v + 1 /\ IsFiniteSet(V \cup {target})
    BY <1>7, <1>8, <2>4, FS_AddElement
  <2>6. CASE v >= request.nodes
    <3>1. next = [visited |-> visited, queue |-> queue, limited |-> limited, failed |-> TRUE]
      <4>1. next = [st EXCEPT !.failed = TRUE]
        BY <1>13, <1>17, <2>2, <2>6
      <4> QED BY <1>2, <4>1
    <3>2. Overfull(edges, roots, request)
      <4> DEFINE near == Within(edges, roots, depth)
      <4>1. V \cup {target} \subseteq near
        <5>1. \A s \in V : s \in near
          <6>1. \A s \in V : \A j \in 0 .. depth : s \in Within(edges, roots, j) <=> visited[s].depth <= j
            BY <1>3, <1>4 DEF Surveyed, Exact
          <6>2. depth \in 0 .. depth
            BY <2>2
          <6>3. \A s \in V : visited[s].depth <= depth
            BY <1>6, <2>2
          <6> QED BY <6>1, <6>2, <6>3
        <5> QED BY <2>3, <5>1
      <4>2. near \subseteq ids
        <5>1. \A x \in edges : x.target \in ids
          BY DEF Wired
        <5> QED BY <2>2, <5>1, WithinKeeps
      <4> HIDE DEF near
      <4>3. IsFiniteSet(near) /\ Cardinality(near) \in Nat
        BY <4>2, FS_Subset, FS_CardinalityType
      <4>4. v + 1 <= Cardinality(near)
        BY <2>5, <4>1, <4>3, FS_Subset
      <4> QED BY <2>6, <4>3, <4>4 DEF Overfull, near, depth
    <3>3. next \in Surveys(edges, ids, depth)
      BY <1>14, <2>2, <3>1, <1>3 DEF Surveys
    <3>4. next.visited = visited /\ next.queue = queue /\ next.limited = limited /\ next.failed = TRUE
      BY <3>1
    <3> QED BY <1>4, <3>2, <3>3, <3>4, Zenon DEF Surveying, next, depth
  <2>7. CASE ~(v >= request.nodes)
    <3>1. next = [visited |-> entered, queue |-> q, limited |-> limited, failed |-> failed]
      <4> DEFINE new == Found(edges, visited, h, target)
      <4>1. next = [st EXCEPT !.visited = [s \in DOMAIN @ \cup {target} |-> IF s = target THEN new ELSE @[s]],
                              !.queue = Append(queue, target)]
        BY <1>13, <1>17, <2>2, <2>7, Zenon DEF new, Found
      <4> HIDE DEF new
      <4>2. entered = [s \in DOMAIN visited \cup {target} |-> IF s = target THEN new ELSE visited[s]]
        BY DEF Entering, new
      <4> HIDE DEF entered
      <4> QED BY <1>2, <4>1, <4>2
    <3> HIDE DEF entered
    <3>2. q \in Seq(ids) /\ Len(q) = n + 1
      BY <1>9, <2>3
    <3> HIDE DEF q
    <3>3. DOMAIN entered = V \cup {target}
      BY <2>3
    <3>4. 2 * (v + 1) - (n + 1) = r + (k + 1)
      BY <1>11, <1>17
    <3>5. Counted(roots, k + 1, entered, q)
      BY <1>10, <2>5, <3>2, <3>3, <3>4 DEF Counted
    <3>6. next \in Surveys(edges, ids, depth)
      <4>1. V \cup {target} \in SUBSET ids
        BY <2>3
      <4>2. entered \in UNION {[U -> Step(edges, depth)] : U \in SUBSET ids}
        BY <2>3, <4>1
      <4> QED BY <3>1, <3>2, <4>2 DEF Surveys
    <3>7. next.visited = entered /\ next.queue = q /\ next.limited = limited /\ next.failed = failed
      BY <3>1
    <3> QED BY <1>4, <2>3, <3>5, <3>6, <3>7, Zenon DEF Surveying, next, depth
  <2> QED BY <2>6, <2>7
<1>18. queue # <<>> => (visited[h].depth >= depth \/ visited[h].depth < depth)
  BY <1>6, <1>12 DEF depth
<1> HIDE DEF fresh
<1> QED BY <1>15, <1>16, <1>17, <1>18 DEF next

(* The traversal ends as a survey after all its turns.                        *)
LEMMA TraverseSurveys ==
    ASSUME NEW edges, NEW ids, IsFiniteSet(ids), Wired(edges, ids),
           NEW request, ToSet(request.subjects) \subseteq ids, request.depth \in Nat, request.nodes \in Nat
    PROVE  Traverse(request, edges, ids) \in
              Surveying(edges, ids, ToSet(request.subjects), request, 2 * Cardinality(ids))
<1> DEFINE roots == ToSet(request.subjects)
           depth == request.depth
           n == 2 * Cardinality(ids)
           visited == [s \in roots |-> [depth |-> 0, path |-> <<>>]]
           queue == Sorted(roots)
           start == [visited |-> visited, queue |-> queue,
                     limited |-> FALSE, failed |-> Cardinality(roots) > request.nodes]
           Turned(s, k) == TakeNext(s, edges, request)
           Kept(k) == Surveying(edges, ids, roots, request, k)
<1>n. n \in Nat
  BY FS_CardinalityType
<1> HIDE DEF n
<1>a. start \in Kept(0)
  <2>1. IsFiniteSet(roots) /\ Cardinality(roots) \in Nat
    BY FS_Subset, FS_CardinalityType
  <2>2. queue \in Seq(roots) /\ ToSet(queue) = roots /\ Len(queue) = Cardinality(roots)
    BY <2>1, SortedIs
  <2>3. visited \in [roots -> Step(edges, depth)]
    <3>1. [depth |-> 0, path |-> <<>>] \in Step(edges, depth)
      BY DEF Step
    <3> QED BY <3>1
  <2>4. DOMAIN visited = roots /\ \A s \in roots : visited[s].depth = 0 /\ visited[s].path = <<>>
    OBVIOUS
  <2>5. start \in Surveys(edges, ids, depth)
    <3>1. visited \in UNION {[V -> Step(edges, depth)] : V \in SUBSET ids}
      BY <2>3
    <3>2. queue \in Seq(ids)
      BY <2>2
    <3>3. (Cardinality(roots) > request.nodes) \in BOOLEAN
      OBVIOUS
    <3> HIDE DEF visited, queue
    <3> QED BY <3>1, <3>2, <3>3 DEF Surveys
  <2>6. /\ start.visited = visited /\ start.queue = queue /\ start.limited = FALSE
        /\ start.failed = (Cardinality(roots) > request.nodes)
    OBVIOUS
  <2> HIDE DEF start, visited, queue
  <2>7. \A j \in 0 .. depth : roots \subseteq Within(edges, roots, j)
    <3>1. ASSUME NEW j \in 0 .. depth PROVE roots \subseteq Within(edges, roots, j)
      <4>1. j \in Nat /\ 0 \in 0 .. j
        OBVIOUS
      <4> QED BY <4>1, WithinGrows, WithinKeeps
    <3> QED BY <3>1
  <2>8. Exact(edges, roots, depth, visited)
    BY <2>4, <2>7 DEF Exact
  <2>9. Traced(edges, roots, visited)
    BY <2>4 DEF Traced
  <2>10. \A i \in 1 .. Len(queue) : queue[i] \in roots
    BY <2>2
  <2>11. Lined(visited, queue)
    BY <2>4, <2>10 DEF Lined
  <2>12. Finished(edges, depth, visited, queue, FALSE) /\ Cut(edges, depth, visited, queue, FALSE)
    BY <2>2, <2>4 DEF Finished, Cut
  <2>13. Surveyed(edges, roots, depth, visited, queue, FALSE)
    BY <2>2, <2>4, <2>8, <2>9, <2>11, <2>12, Zenon DEF Surveyed
  <2>14. Counted(roots, 0, visited, queue)
    BY <2>1, <2>2, <2>4 DEF Counted
  <2>15. Cardinality(roots) > request.nodes => Overfull(edges, roots, request)
    <3> DEFINE near == Within(edges, roots, depth)
    <3>1. roots \subseteq near
      <4>1. depth \in 0 .. depth
        OBVIOUS
      <4> QED BY <2>7, <4>1
    <3>2. near \subseteq ids
      <4>1. \A x \in edges : x.target \in ids
        BY DEF Wired
      <4> QED BY <4>1, WithinKeeps
    <3> HIDE DEF near
    <3>3. IsFiniteSet(near) /\ Cardinality(near) \in Nat
      BY <3>2, FS_Subset, FS_CardinalityType
    <3>4. Cardinality(roots) <= Cardinality(near)
      BY <3>1, <3>3, FS_Subset
    <3> HIDE DEF roots
    <3> QED BY <2>1, <3>3, <3>4 DEF Overfull, near
  <2> HIDE DEF roots
  <2> QED BY <2>5, <2>6, <2>13, <2>14, <2>15, Zenon DEF Surveying
<1>b. ASSUME NEW k \in 1 .. n, NEW s \in Kept(k - 1) PROVE Turned(s, k) \in Kept(k)
  <2>1. k - 1 \in Nat /\ (k - 1) + 1 = k /\ roots \in SUBSET ids
    BY <1>n
  <2> HIDE DEF roots
  <2>2. TakeNext(s, edges, request) \in Surveying(edges, ids, roots, request, (k - 1) + 1)
    BY <2>1, TurnSurveys
  <2> QED BY <2>1, <2>2
<1> DEFINE kept == [k \in 0 .. n |-> Kept(k)]
           turn == [k \in 1 .. n |-> [s \in Kept(k - 1) |-> Turned(s, k)]]
           Is(f) == f = [k \in 0 .. n |-> IF k = 0 THEN start ELSE Turned(f[k - 1], k)]
           run == CHOOSE f : Is(f)
<1>r1. start \in kept[0]
  <2>1. 0 \in 0 .. n
    BY <1>n
  <2> HIDE DEF Kept
  <2> QED BY <1>a, <2>1
<1>r2. /\ \A k \in 1 .. n : \A s \in kept[k - 1] : turn[k][s] \in kept[k]
       /\ \A k \in 1 .. n : \A s \in kept[k - 1] : turn[k][s] = Turned(s, k)
  <2> HIDE DEF Kept, Turned
  <2> SUFFICES ASSUME NEW k \in 1 .. n, NEW s \in kept[k - 1]
               PROVE  turn[k][s] \in kept[k] /\ turn[k][s] = Turned(s, k)
    OBVIOUS
  <2>1. k \in 0 .. n /\ k - 1 \in 0 .. n
    BY <1>n
  <2>2. kept[k - 1] = Kept(k - 1) /\ kept[k] = Kept(k)
    BY <2>1
  <2>3. turn[k][s] = Turned(s, k)
    BY <2>2
  <2>4. Turned(s, k) \in Kept(k)
    BY <1>b, <2>2
  <2> QED BY <2>2, <2>3, <2>4
<1>r3. \A k \in 0 .. n : kept[k] = Kept(k)
  <2> HIDE DEF Kept
  <2> QED OBVIOUS
<1> HIDE DEF turn, kept, Turned, Kept, start
<1>r4. PICK f : IsRun(turn, start, n, f) /\ \A k \in 0 .. n : f[k] \in kept[k]
  BY <1>n, <1>r1, <1>r2, Runs, Zenon
<1>r5. Is(f)
  <2>1. PICK e : e = [k \in 0 .. n |-> IF k = 0 THEN start ELSE turn[k][f[k - 1]]]
    OBVIOUS
  <2>2. PICK h : h = [k \in 0 .. n |-> IF k = 0 THEN start ELSE Turned(f[k - 1], k)]
    OBVIOUS
  <2>3. ASSUME NEW k \in 0 .. n PROVE e[k] = h[k]
    <3>1. CASE k = 0
      BY <2>1, <2>2, <3>1
    <3>2. CASE k # 0
      <4>1. k \in 1 .. n /\ k - 1 \in 0 .. n
        BY <1>n, <3>2
      <4>2. turn[k][f[k - 1]] = Turned(f[k - 1], k)
        BY <1>r2, <1>r4, <4>1, Zenon
      <4> QED BY <2>1, <2>2, <3>2, <4>2
    <3> QED BY <3>1, <3>2
  <2>4. e = h
    BY <2>1, <2>2, <2>3
  <2> QED BY <1>r4, <2>1, <2>2, <2>4, Zenon DEF IsRun
<1>r6. Is(run)
  BY <1>r5, Zenon
<1>r7. run[0] = start /\ \A k \in 1 .. n : run[k] = Turned(run[k - 1], k)
  <2> HIDE DEF run
  <2>1. PICK e : e = [k \in 0 .. n |-> IF k = 0 THEN start ELSE Turned(run[k - 1], k)]
    OBVIOUS
  <2>2. e[0] = start /\ \A k \in 1 .. n : e[k] = Turned(run[k - 1], k)
    BY <1>n, <2>1
  <2> QED BY <1>r6, <2>1, <2>2
<1>r8. \A k \in 0 .. n : run[k] \in Kept(k)
  <2> DEFINE K == {k \in 0 .. n : run[k] \in Kept(k)}
  <2> HIDE DEF run
  <2>1. 0 \in K
    BY <1>n, <1>a, <1>r7
  <2>2. ASSUME NEW k \in 1 .. n, k - 1 \in K PROVE k \in K
    <3>1. run[k - 1] \in Kept(k - 1) /\ run[k] = Turned(run[k - 1], k) /\ k \in 0 .. n
      BY <1>n, <1>r7, <2>2
    <3> QED BY <1>b, <3>1
  <2> HIDE DEF K
  <2>3. \A k \in 0 .. n : k \in K
    BY <1>n, <2>1, <2>2, Climb
  <2> QED BY <2>3 DEF K
<1>1. n \in 0 .. n
  BY <1>n
<1>2. Traverse(request, edges, ids) = run[n]
  BY Zenon DEF Traverse, Repeated, run, n, Turned, start, roots, visited, queue
<1> QED BY <1>r8, <1>1, <1>2, Zenon DEF Kept, n

(* ---- queries: the facts and the answer ---------------------------------------- *)
(* Finitely many facts have finitely many subjects and edges.                 *)
LEMMA FactsAreFinite ==
    ASSUME NEW facts, IsFiniteSet(ToSet(facts)), NEW query
    PROVE  IsFiniteSet(Subjects(facts)) /\ IsFiniteSet(Followed(facts, query))
<1> DEFINE E == EntityFacts(facts)
           R == RelationFacts(facts)
           B == {x \in R : x.kind \in Backward[query]}
           F == {x \in R : x.kind \in Forward[query]}
           back == {[source |-> f.object, target |-> f.subject, key |-> f.key] : f \in B}
           forth == {[source |-> f.subject, target |-> f.object, key |-> f.key] : f \in F}
<1>1. E \in SUBSET ToSet(facts) /\ B \in SUBSET ToSet(facts) /\ F \in SUBSET ToSet(facts)
  BY DEF EntityFacts, RelationFacts
<1> HIDE DEF E, B, F
<1>2. IsFiniteSet(E) /\ IsFiniteSet(B) /\ IsFiniteSet(F)
  BY <1>1, FS_Subset
<1>3. IsFiniteSet({f.subject : f \in E})
  <2> DEFINE g == [f \in E |-> f.subject]
  <2>1. g \in Surjection(E, {f.subject : f \in E})
    BY DEF Surjection
  <2> HIDE DEF g
  <2> QED BY <1>2, <2>1, FS_Surjection
<1>4. IsFiniteSet(back)
  <2> DEFINE g == [f \in B |-> [source |-> f.object, target |-> f.subject, key |-> f.key]]
  <2>1. g \in Surjection(B, back)
    BY DEF Surjection
  <2> HIDE DEF g, back
  <2> QED BY <1>2, <2>1, FS_Surjection
<1>5. IsFiniteSet(forth)
  <2> DEFINE g == [f \in F |-> [source |-> f.subject, target |-> f.object, key |-> f.key]]
  <2>1. g \in Surjection(F, forth)
    BY DEF Surjection
  <2> HIDE DEF g, forth
  <2> QED BY <1>2, <2>1, FS_Surjection
<1>6. Followed(facts, query) = back \cup forth
  BY Zenon DEF Followed, back, forth, B, F, R
<1>7. Subjects(facts) = {f.subject : f \in E}
  BY Zenon DEF Subjects, E
<1> HIDE DEF back, forth
<1>8. IsFiniteSet(back \cup forth)
  BY <1>4, <1>5, FS_Union
<1> QED BY <1>3, <1>6, <1>7, <1>8

(* An edge that a query follows is a relation fact, one way or the other.     *)
LEMMA EdgesAreFacts ==
    ASSUME NEW facts, NEW query, NEW e \in Followed(facts, query)
    PROVE  \E f \in RelationFacts(facts) :
              /\ e.key = f.key
              /\ \/ f.kind \in Backward[query] /\ e.source = f.object /\ e.target = f.subject
                 \/ f.kind \in Forward[query] /\ e.source = f.subject /\ e.target = f.object
<1>1. CASE \E f \in RelationFacts(facts) :
              /\ f.kind \in Backward[query]
              /\ e = [source |-> f.object, target |-> f.subject, key |-> f.key]
  <2>1. PICK f \in RelationFacts(facts) :
              /\ f.kind \in Backward[query]
              /\ e = [source |-> f.object, target |-> f.subject, key |-> f.key]
    BY <1>1
  <2>2. e.key = f.key /\ e.source = f.object /\ e.target = f.subject
    BY <2>1
  <2> QED BY <2>1, <2>2
<1>2. CASE \E f \in RelationFacts(facts) :
              /\ f.kind \in Forward[query]
              /\ e = [source |-> f.subject, target |-> f.object, key |-> f.key]
  <2>1. PICK f \in RelationFacts(facts) :
              /\ f.kind \in Forward[query]
              /\ e = [source |-> f.subject, target |-> f.object, key |-> f.key]
    BY <1>2
  <2>2. e.key = f.key /\ e.source = f.subject /\ e.target = f.object
    BY <2>1
  <2> QED BY <2>1, <2>2
<1> QED BY <1>1, <1>2, Zenon DEF Followed

(* A key says which relation it is of, and no kind is followed both ways.     *)
LEMMA FactsWire ==
    ASSUME NEW export, ExportIsValid(export), IsFiniteSet(ToSet(export.payload.facts)),
           NEW query \in {"impact", "evidence"}
    PROVE  Wired(Followed(export.payload.facts, query), Subjects(export.payload.facts))
<1> DEFINE facts == export.payload.facts
           ids == Subjects(facts)
           edges == Followed(facts, query)
<1>1. /\ \A f \in ToSet(facts) : FactIsKeyed(f)
      /\ \A f \in RelationFacts(facts) : f.subject \in ids /\ f.object \in ids
  BY Zenon DEF ExportIsValid
<1>2. \A f \in RelationFacts(facts) : f.key = <<"relation", f.document, f.subject, f.kind, f.object>>
  BY <1>1 DEF RelationFacts, FactIsKeyed
<1>3. Backward[query] \cap Forward[query] = {}
  BY DEF Backward, Forward
<1>4. IsFiniteSet(edges)
  BY FactsAreFinite
<1> HIDE DEF facts, ids, edges
<1>5. ASSUME NEW e \in edges PROVE e.source \in ids /\ e.target \in ids /\ Len(e.key) = 5
  <2>1. PICK f \in RelationFacts(facts) :
              /\ e.key = f.key
              /\ \/ f.kind \in Backward[query] /\ e.source = f.object /\ e.target = f.subject
                 \/ f.kind \in Forward[query] /\ e.source = f.subject /\ e.target = f.object
    BY EdgesAreFacts DEF edges
  <2>2. Len(e.key) = 5
    BY <1>2, <2>1
  <2> QED BY <1>1, <2>1, <2>2
<1>6. ASSUME NEW e \in edges, NEW g \in edges, e.key = g.key
      PROVE  e.source = g.source /\ e.target = g.target
  <2>1. PICK f \in RelationFacts(facts) :
              /\ e.key = f.key
              /\ \/ f.kind \in Backward[query] /\ e.source = f.object /\ e.target = f.subject
                 \/ f.kind \in Forward[query] /\ e.source = f.subject /\ e.target = f.object
    BY EdgesAreFacts DEF edges
  <2>2. PICK h \in RelationFacts(facts) :
              /\ g.key = h.key
              /\ \/ h.kind \in Backward[query] /\ g.source = h.object /\ g.target = h.subject
                 \/ h.kind \in Forward[query] /\ g.source = h.subject /\ g.target = h.object
    BY EdgesAreFacts DEF edges
  <2>3. \A x \in RelationFacts(facts) : x.key[3] = x.subject /\ x.key[4] = x.kind /\ x.key[5] = x.object
    BY <1>2
  <2>4. f.subject = h.subject /\ f.kind = h.kind /\ f.object = h.object
    <3>1. f.key = h.key
      BY <1>6, <2>1, <2>2
    <3> QED BY <2>3, <3>1
  <2> QED BY <1>3, <2>1, <2>2, <2>4
<1> QED BY <1>4, <1>5, <1>6, KeysWire DEF facts, ids, edges

(* The traversal finds what is within the depth asked for and nothing else,   *)
(* at its least depth and by a path of keys that leads there; it fails only   *)
(* when that is more than is allowed, and says limited exactly when there is  *)
(* more (relational-facts.ts): for every finite set of wired edges.           *)
THEOREM SurveyIs ==
    ASSUME NEW edges, NEW ids, IsFiniteSet(ids), Wired(edges, ids),
           NEW request, ToSet(request.subjects) \subseteq ids, request.depth \in Nat, request.nodes \in Nat,
           NEW seen, seen = Traverse(request, edges, ids)
    PROVE  LET roots == ToSet(request.subjects)
               near == Within(edges, roots, request.depth)
           IN /\ seen.failed => Cardinality(near) > request.nodes
              /\ ~seen.failed =>
                    /\ DOMAIN seen.visited = near /\ near \subseteq ids
                    /\ seen.limited <=> Within(edges, roots, request.depth + 1) # near
                    /\ \A s \in near \ roots :
                          LET d == seen.visited[s].depth
                          IN /\ s \in Within(edges, roots, d) \ Within(edges, roots, d - 1)
                             /\ Len(seen.visited[s].path) = d
                             /\ Leads(edges, roots, seen.visited[s].path, s)
<1> DEFINE roots == ToSet(request.subjects)
           depth == request.depth
           near == Within(edges, roots, depth)
           n == 2 * Cardinality(ids)
<1>1. seen \in Surveying(edges, ids, roots, request, n)
  BY TraverseSurveys
<1>2. /\ Surveyed(edges, roots, depth, seen.visited, seen.queue, seen.limited)
      /\ seen.failed => Overfull(edges, roots, request)
      /\ seen.queue # <<>> /\ ~seen.failed => Counted(roots, n, seen.visited, seen.queue)
      /\ seen \in Surveys(edges, ids, depth)
  BY <1>1 DEF Surveying
<1>3. PICK V \in SUBSET ids : seen.visited \in [V -> Step(edges, depth)]
  BY <1>2 DEF Surveys
<1>4. PICK visited \in [V -> Step(edges, depth)] : visited = seen.visited
  BY <1>3
<1>5. DOMAIN visited = V /\ seen.limited \in BOOLEAN
  BY <1>2, <1>4 DEF Surveys
<1>6. \A s \in V : visited[s].depth \in 0 .. depth
  BY <1>4 DEF Step
<1>7. seen.failed => Cardinality(near) > request.nodes
  BY <1>2 DEF Overfull
<1> HIDE DEF near, n, roots, depth
<1>depth. depth \in Nat /\ depth + 1 \in Nat /\ depth \in 0 .. depth
  BY DEF depth
<1>8. ASSUME ~seen.failed PROVE seen.queue = <<>>
  <2>1. ASSUME seen.queue # <<>> PROVE FALSE
    <3>1. 2 * Cardinality(V) - Len(seen.queue) = Cardinality(roots) + n
      BY <1>2, <1>4, <1>5, <1>8, <2>1 DEF Counted
    <3>2. PICK l \in Nat : l = Len(seen.queue) /\ l >= 1
      <4>1. seen.queue \in Seq(V)
        BY <1>2, <1>4, <1>5 DEF Surveyed
      <4> QED BY <2>1, <4>1
    <3>3. PICK v \in Nat, i \in Nat : v = Cardinality(V) /\ i = Cardinality(ids) /\ v <= i
      BY FS_Subset, FS_CardinalityType
    <3>4. PICK r \in Nat : r = Cardinality(roots)
      BY FS_Subset, FS_CardinalityType DEF roots
    <3>5. 2 * v - l = r + 2 * i
      BY <3>1, <3>2, <3>3, <3>4 DEF n
    <3> QED BY <3>2, <3>3, <3>4, <3>5
  <2> QED BY <2>1
<1>9. ASSUME ~seen.failed PROVE V = near
  <2>1. near \subseteq V
    <3>1. \A i \in 1 .. Len(seen.queue) : depth <= visited[seen.queue[i]].depth
      BY <1>8, <1>9
    <3>2. Surveyed(edges, roots, depth, visited, seen.queue, seen.limited)
      BY <1>2, <1>4
    <3>3. \A s \in DOMAIN visited : visited[s].depth \in 0 .. depth
      BY <1>5, <1>6
    <3>4. Within(edges, roots, depth) \subseteq DOMAIN visited
      BY <1>depth, <3>1, <3>2, <3>3, NearerIsVisited
    <3> QED BY <1>5, <3>4 DEF near
  <2>2. V \subseteq near
    <3>1. \A s \in V : \A j \in 0 .. depth : s \in Within(edges, roots, j) <=> visited[s].depth <= j
      BY <1>2, <1>4, <1>5 DEF Surveyed, Exact
    <3>2. \A s \in V : visited[s].depth <= depth
      BY <1>6, <1>depth
    <3> QED BY <1>depth, <3>1, <3>2 DEF near
  <2> QED BY <2>1, <2>2
<1>10. ASSUME ~seen.failed PROVE seen.limited <=> Within(edges, roots, depth + 1) # near
  <2>1. Within(edges, roots, depth + 1) = Further(edges, near)
    BY <1>depth, WithinGrows DEF near
  <2>2. Further(edges, near) = near <=> \A s \in near : Targets(edges, s) \subseteq near
    BY DEF Further, Targets
  <2>3. seen.limited => \E s \in V : ~(Targets(edges, s) \subseteq V)
    BY <1>2, <1>4, <1>5 DEF Surveyed, Cut
  <2>4. ~seen.limited => \A s \in V : Targets(edges, s) \subseteq V
    <3>1. ToSet(seen.queue) = {}
      BY <1>8, <1>10 DEF ToSet
    <3> QED BY <1>2, <1>4, <1>5, <3>1 DEF Surveyed, Finished
  <2> QED BY <1>9, <1>10, <2>1, <2>2, <2>3, <2>4
<1>11. ASSUME NEW s \in V \ roots
       PROVE  /\ s \in Within(edges, roots, visited[s].depth) \ Within(edges, roots, visited[s].depth - 1)
              /\ Len(visited[s].path) = visited[s].depth
              /\ Leads(edges, roots, visited[s].path, s)
  <2>1. PICK d \in 0 .. depth : d = visited[s].depth
    BY <1>6
  <2>2. \A j \in 0 .. depth : s \in Within(edges, roots, j) <=> d <= j
    BY <1>2, <1>4, <1>5, <2>1 DEF Surveyed, Exact
  <2>3. d # 0
    <3>1. Within(edges, roots, 0) = roots
      BY WithinGrows
    <3> QED BY <1>depth, <2>2, <3>1
  <2>4. d - 1 \in 0 .. depth /\ ~(d <= d - 1) /\ d > 0
    BY <1>depth, <2>3
  <2>5. Len(visited[s].path) = d /\ Leads(edges, roots, visited[s].path, s)
    BY <1>2, <1>4, <1>5, <2>1, <2>4 DEF Surveyed, Traced
  <2> QED BY <2>1, <2>2, <2>4, <2>5
<1>12. /\ seen.failed => Cardinality(near) > request.nodes
       /\ ~seen.failed =>
             /\ DOMAIN seen.visited = near /\ near \subseteq ids
             /\ seen.limited <=> Within(edges, roots, depth + 1) # near
             /\ \A s \in near \ roots :
                   /\ s \in Within(edges, roots, seen.visited[s].depth)
                            \ Within(edges, roots, seen.visited[s].depth - 1)
                   /\ Len(seen.visited[s].path) = seen.visited[s].depth
                   /\ Leads(edges, roots, seen.visited[s].path, s)
  BY <1>4, <1>5, <1>7, <1>9, <1>10, <1>11
<1> QED BY <1>12, Zenon DEF near, roots, depth

(* The matches of an answer are the entities asked for, each once.            *)
KindOf(facts, id) == (CHOOSE f \in EntityFacts(facts) : f.subject = id).kind
Listed(facts, visited, request) ==
    {id \in DOMAIN visited \ ToSet(request.subjects) : Included(request.query, KindOf(facts, id))}

LEMMA MatchesAre ==
    ASSUME NEW facts, IsFiniteSet(Subjects(facts)),
           \A f, g \in EntityFacts(facts) : f.subject = g.subject => f = g,
           NEW visited, DOMAIN visited \subseteq Subjects(facts), NEW request
    PROVE  /\ {m.subject : m \in Matches(visited, facts, request)} = Listed(facts, visited, request)
           /\ Cardinality(Matches(visited, facts, request)) = Cardinality(Listed(facts, visited, request))
           /\ \A m \in Matches(visited, facts, request) :
                 /\ m.subject \in Listed(facts, visited, request)
                 /\ m.depth = visited[m.subject].depth /\ m.path = visited[m.subject].path
<1> DEFINE E == EntityFacts(facts)
           kindOf(id) == KindOf(facts, id)
           listed == Listed(facts, visited, request)
           matches == Matches(visited, facts, request)
           told(id) == [subject |-> id, kind |-> kindOf(id), depth |-> visited[id].depth, path |-> visited[id].path]
<1>0. listed = {id \in DOMAIN visited \ ToSet(request.subjects) : Included(request.query, kindOf(id))}
  BY DEF Listed
<1> HIDE DEF listed
<1>1. \A f \in E : kindOf(f.subject) = f.kind
  <2>1. ASSUME NEW f \in E PROVE kindOf(f.subject) = f.kind
    <3>1. (CHOOSE g \in E : g.subject = f.subject) = f
      OBVIOUS
    <3> QED BY <3>1 DEF KindOf
  <2> QED BY <2>1
<1>2. \A id \in DOMAIN visited : \E f \in E : f.subject = id
  BY DEF Subjects
<1> HIDE DEF kindOf
<1>3. matches = {told(id) : id \in listed}
  <2>1. ASSUME NEW m \in matches PROVE m \in {told(id) : id \in listed}
    <3>1. PICK f \in E : /\ f.subject \in DOMAIN visited \ ToSet(request.subjects)
                         /\ Included(request.query, f.kind)
                         /\ m = [subject |-> f.subject, kind |-> f.kind, depth |-> visited[f.subject].depth,
                                 path |-> visited[f.subject].path]
      BY <2>1, Zenon DEF Matches
    <3>2. kindOf(f.subject) = f.kind
      BY <1>1
    <3>3. f.subject \in listed
      BY <1>0, <3>1, <3>2
    <3>4. m = told(f.subject)
      BY <3>1, <3>2
    <3> HIDE DEF listed, told
    <3> QED BY <3>3, <3>4
  <2>2. ASSUME NEW id \in listed PROVE told(id) \in matches
    <3>1. PICK f \in E : f.subject = id
      BY <1>0, <1>2, <2>2
    <3>2. kindOf(id) = f.kind
      BY <1>1, <3>1
    <3>3. f \in {e \in {g \in E : g.subject \in DOMAIN visited \ ToSet(request.subjects)} : Included(request.query, e.kind)}
      BY <1>0, <2>2, <3>1, <3>2
    <3>4. told(id) = [subject |-> f.subject, kind |-> f.kind, depth |-> visited[f.subject].depth,
                       path |-> visited[f.subject].path]
      BY <3>1, <3>2
    <3> HIDE DEF told
    <3> QED BY <3>3, <3>4, Zenon DEF Matches
  <2> HIDE DEF matches, listed, told
  <2> QED BY <2>1, <2>2
<1>4. \A id \in listed : /\ told(id).subject = id /\ told(id).depth = visited[id].depth
                         /\ told(id).path = visited[id].path
  OBVIOUS
<1>5. IsFiniteSet(listed)
  <2>1. listed \in SUBSET Subjects(facts)
    BY <1>0
  <2> HIDE DEF listed
  <2> QED BY <2>1, FS_Subset
<1> HIDE DEF matches, listed, told
<1>6. {m.subject : m \in matches} = listed
  BY <1>3, <1>4
<1>7. Cardinality(matches) = Cardinality(listed)
  <2> DEFINE g == [id \in listed |-> told(id)]
  <2>1. g \in [listed -> matches] /\ \A id \in listed : g[id] = told(id)
    BY <1>3
  <2> HIDE DEF g
  <2>2. \A a, b \in listed : g[a] = g[b] => a = b
    BY <1>4, <2>1
  <2>3. \A m \in matches : \E id \in listed : g[id] = m
    BY <1>3, <2>1
  <2>4. g \in Bijection(listed, matches)
    BY <2>1, <2>2, <2>3 DEF Bijection, Injection, Surjection, IsInjective
  <2> QED BY <1>5, <2>4, FS_Bijection DEF ExistsBijection
<1>8. \A m \in matches : /\ m.subject \in listed
                         /\ m.depth = visited[m.subject].depth /\ m.path = visited[m.subject].path
  BY <1>3, <1>4
<1> QED BY <1>6, <1>7, <1>8, Zenon DEF matches, listed

(* ---- what holds of the project, the bytes and the last query ------------------ *)
AnswerIsKept ==
    /\ asked.request \in Requests /\ asked.result = Answered(artifact, asked.request)
    /\ IsFiniteSet(ToSet(artifact.payload.facts))

(* An answer of the traversal over what was kept is a true one.               *)
LEMMA AnswerHolds ==
    (asked # Absent => AnswerIsKept) => QueriesAreTrue
<1> SUFFICES ASSUME asked # Absent, AnswerIsKept PROVE QueriesAreTrue
  BY DEF QueriesAreTrue
<1> DEFINE facts == artifact.payload.facts
           request == asked.request
           edges == Followed(facts, request.query)
           roots == ToSet(request.subjects)
           ids == Subjects(facts)
           near == Within(edges, roots, request.depth)
           kindOf(id) == (CHOOSE f \in EntityFacts(facts) : f.subject = id).kind
           listed == {id \in near \ roots : Included(request.query, kindOf(id))}
           refused == \/ ~ExportIsValid(artifact) \/ ~RequestIsValid(request) \/ ~(roots \subseteq ids)
                      \/ Cardinality(near) > request.nodes
           seen == Traverse(request, edges, ids)
           sound == ExportIsValid(artifact) /\ RequestIsValid(request) /\ roots \subseteq ids
           answer0 == [matches |-> Matches(seen.visited, facts, request), depth_limited |-> seen.limited]
<1>1. asked.result = IF sound /\ ~seen.failed THEN {answer0} ELSE {}
  BY Zenon DEF AnswerIsKept, Answered
<1>2. /\ request.query \in {"impact", "evidence"} /\ request.depth \in Nat /\ request.nodes \in Nat
      /\ IsFiniteSet(ToSet(facts))
  BY InputsAssumption DEF AnswerIsKept, RequestsAssumption
<1>3. IsFiniteSet(ids)
  BY <1>2, FactsAreFinite
<1>4. ASSUME sound
      PROVE  /\ seen.failed => Cardinality(near) > request.nodes
             /\ ~seen.failed =>
                   /\ DOMAIN seen.visited = near /\ near \subseteq ids
                   /\ seen.limited <=> Within(edges, roots, request.depth + 1) # near
                   /\ \A s \in near \ roots :
                         /\ s \in Within(edges, roots, seen.visited[s].depth)
                                  \ Within(edges, roots, seen.visited[s].depth - 1)
                         /\ Len(seen.visited[s].path) = seen.visited[s].depth
                         /\ Leads(edges, roots, seen.visited[s].path, s)
  <2>1. Wired(edges, ids)
    BY <1>2, <1>4, FactsWire
  <2> HIDE DEF edges, ids, request
  <2>2. PICK all : all = seen
    OBVIOUS
  <2>3. roots \subseteq ids
    BY <1>4
  <2> HIDE DEF sound
  <2> QED BY <1>2, <1>3, <2>1, <2>3, SurveyIs, Zenon
<1>5. asked.result = {} => refused
  <2>1. ASSUME asked.result = {}, sound PROVE seen.failed
    <3> HIDE DEF sound, answer0, seen
    <3> QED BY <1>1, <2>1
  <2> HIDE DEF seen, near
  <2> QED BY <1>4, <2>1
<1>6. ASSUME NEW answer \in asked.result
      PROVE  /\ \A f \in RelationFacts(facts) : {f.subject, f.object} \subseteq ids
             /\ {m.subject : m \in answer.matches} = listed
             /\ Cardinality(answer.matches) = Cardinality(listed)
             /\ \A m \in answer.matches :
                   /\ m.subject \in Within(edges, roots, m.depth) \ Within(edges, roots, m.depth - 1)
                   /\ Len(m.path) = m.depth /\ Leads(edges, roots, m.path, m.subject)
             /\ answer.depth_limited <=> Within(edges, roots, request.depth + 1) # near
  <2>1. sound /\ ~seen.failed /\ answer = answer0
    <3> HIDE DEF sound, answer0, seen
    <3> QED BY <1>1, <1>6
  <2>2. answer.matches = Matches(seen.visited, facts, request) /\ answer.depth_limited = seen.limited
    <3> HIDE DEF seen
    <3> QED BY <2>1
  <2>3. /\ \A f \in RelationFacts(facts) : {f.subject, f.object} \subseteq ids
        /\ \A f, g \in EntityFacts(facts) : f.subject = g.subject => f = g
    BY <2>1, Zenon DEF ExportIsValid
  <2>4. /\ DOMAIN seen.visited = near /\ near \subseteq ids
        /\ seen.limited <=> Within(edges, roots, request.depth + 1) # near
        /\ \A s \in near \ roots :
              /\ s \in Within(edges, roots, seen.visited[s].depth)
                       \ Within(edges, roots, seen.visited[s].depth - 1)
              /\ Len(seen.visited[s].path) = seen.visited[s].depth
              /\ Leads(edges, roots, seen.visited[s].path, s)
    <3> HIDE DEF sound, seen, near, edges, roots, request, ids
    <3> QED BY <1>4, <2>1
  <2> DEFINE visited == seen.visited
             kept == Listed(facts, visited, request)
             matches == Matches(visited, facts, request)
  <2>5. /\ {m.subject : m \in matches} = kept
        /\ Cardinality(matches) = Cardinality(kept)
        /\ \A m \in matches : /\ m.subject \in kept
                              /\ m.depth = visited[m.subject].depth /\ m.path = visited[m.subject].path
    <3>1. DOMAIN visited \subseteq Subjects(facts)
      <4> HIDE DEF seen, near
      <4> QED BY <2>4
    <3>2. IsFiniteSet(Subjects(facts)) /\ \A f, g \in EntityFacts(facts) : f.subject = g.subject => f = g
      BY <1>3, <2>3
    <3> HIDE DEF visited, facts, request, ids
    <3>3. /\ {m.subject : m \in Matches(visited, facts, request)} = Listed(facts, visited, request)
          /\ Cardinality(Matches(visited, facts, request)) = Cardinality(Listed(facts, visited, request))
          /\ \A m \in Matches(visited, facts, request) :
                 /\ m.subject \in Listed(facts, visited, request)
                 /\ m.depth = visited[m.subject].depth /\ m.path = visited[m.subject].path
      BY <3>1, <3>2, MatchesAre
    <3> QED BY <3>3, Zenon
  <2> HIDE DEF seen, near, edges, ids
  <2>6. kept = listed
    BY <2>4 DEF Listed, KindOf
  <2> HIDE DEF kindOf
  <2> HIDE DEF matches, roots, request, facts
  <2>7. \A m \in matches : m.subject \in near \ roots
    BY <2>5, <2>6
  <2> HIDE DEF kept, listed
  <2>8. \A m \in matches :
           /\ m.subject \in Within(edges, roots, m.depth) \ Within(edges, roots, m.depth - 1)
           /\ Len(m.path) = m.depth /\ Leads(edges, roots, m.path, m.subject)
    <3> SUFFICES ASSUME NEW m \in matches
                 PROVE  /\ m.subject \in Within(edges, roots, m.depth) \ Within(edges, roots, m.depth - 1)
                        /\ Len(m.path) = m.depth /\ Leads(edges, roots, m.path, m.subject)
      OBVIOUS
    <3>1. m.subject \in near \ roots /\ m.depth = visited[m.subject].depth /\ m.path = visited[m.subject].path
      BY <2>5, <2>7
    <3>2. PICK s \in near \ roots : s = m.subject
      BY <3>1
    <3>3. /\ s \in Within(edges, roots, visited[s].depth) \ Within(edges, roots, visited[s].depth - 1)
          /\ Len(visited[s].path) = visited[s].depth
          /\ Leads(edges, roots, visited[s].path, s)
      BY <2>4
    <3> HIDE DEF visited
    <3> QED BY <3>1, <3>2, <3>3
  <2>9. answer.matches = matches
    BY <2>2 DEF matches
  <2> HIDE DEF visited
  <2> QED BY <2>2, <2>3, <2>4, <2>5, <2>6, <2>8, <2>9
<1> HIDE DEF refused, listed, near, ids, roots, edges, request, facts, kindOf
<1> QED BY <1>5, <1>6, Zenon DEF QueriesAreTrue, refused, listed, near, ids, roots, edges, request, facts, kindOf

(* ---- what is kept of the project and the bytes --------------------------------- *)
Lists(p) == \E S : p \in Seq(S)

(* What is asked of sequences, and how they are made.                         *)
LEMMA ListsAre ==
    /\ \A p : Lists(p) => /\ IsFiniteSet(ToSet(p)) /\ Len(p) \in Nat /\ DOMAIN p = 1 .. Len(p)
                          /\ \A x : Lists(Append(p, x))
                          /\ Lists(Front(p))
                          /\ \A i \in DOMAIN p : Lists(RemoveAt(p, i))
    /\ \A n \in Nat : \A p : p = [i \in 1 .. n |-> p[i]] => Lists(p)
<1>1. ASSUME NEW p, Lists(p) PROVE Len(p) \in Nat /\ DOMAIN p = 1 .. Len(p) /\ IsFiniteSet(ToSet(p))
  <2>1. PICK S : p \in Seq(S)
    BY <1>1 DEF Lists
  <2>2. Len(p) \in Nat /\ DOMAIN p = 1 .. Len(p)
    BY <2>1
  <2>3. IsFiniteSet(1 .. Len(p))
    BY <2>2, FS_Interval
  <2> DEFINE g == [i \in 1 .. Len(p) |-> p[i]]
  <2>4. g \in Surjection(1 .. Len(p), ToSet(p))
    BY <2>2 DEF Surjection, ToSet
  <2> HIDE DEF g
  <2> QED BY <2>2, <2>3, <2>4, FS_Surjection
<1>2. ASSUME NEW p, Lists(p), NEW x PROVE Lists(Append(p, x))
  <2>1. PICK S : p \in Seq(S)
    BY <1>2 DEF Lists
  <2>2. p \in Seq(S \cup {x}) /\ x \in S \cup {x}
    BY <2>1
  <2>3. Append(p, x) \in Seq(S \cup {x})
    BY <2>2, Longer
  <2> QED BY <2>3 DEF Lists
<1>3. ASSUME NEW p, Lists(p) PROVE Lists(Front(p))
  <2>1. PICK S : p \in Seq(S)
    BY <1>3 DEF Lists
  <2>2. CASE p = <<>>
    <3>1. Len(p) = 0
      BY <2>2
    <3>2. Front(p) \in Seq(S)
      BY <2>1, <3>1 DEF Front
    <3> QED BY <3>2 DEF Lists
  <2>3. CASE p # <<>>
    <3>1. Front(p) \in Seq(S)
      BY <2>1, <2>3, Shorter
    <3> QED BY <3>1 DEF Lists
  <2> QED BY <2>2, <2>3
<1>4. ASSUME NEW p, Lists(p), NEW i \in DOMAIN p PROVE Lists(RemoveAt(p, i))
  <2>1. PICK S : p \in Seq(S)
    BY <1>4 DEF Lists
  <2>2. PICK n \in Nat : n = Len(p)
    BY <2>1
  <2>3. i \in 1 .. n
    BY <2>1, <2>2
  <2>4. SubSeq(p, 1, i - 1) \in Seq(S)
    BY <2>1, <2>2, <2>3
  <2>5. SubSeq(p, i + 1, n) \in Seq(S)
    BY <2>1, <2>2, <2>3
  <2>6. RemoveAt(p, i) = SubSeq(p, 1, i - 1) \o SubSeq(p, i + 1, n)
    BY <2>2 DEF RemoveAt
  <2>7. RemoveAt(p, i) \in Seq(S)
    BY <2>4, <2>5, <2>6
  <2> QED BY <2>7 DEF Lists
<1>5. ASSUME NEW n \in Nat, NEW p, p = [i \in 1 .. n |-> p[i]] PROVE Lists(p)
  <2>1. p \in [1 .. n -> {p[i] : i \in 1 .. n}]
    BY <1>5
  <2>2. p \in Seq({p[i] : i \in 1 .. n})
    BY <2>1, SequenceOf
  <2> QED BY <2>2 DEF Lists
<1> QED BY <1>1, <1>2, <1>3, <1>4, <1>5

ProjectIsKept ==
    /\ ProjectIsSane /\ Lists(project.relations)
    /\ project = [entities |-> project.entities, relations |-> project.relations]
SealedBytes(export) == export = [payload |-> export.payload, identity |-> export.identity]
BytesAreKept == Lists(artifact.payload.facts) /\ SealedBytes(artifact)
ProjectInv ==
    /\ project # Absent => ProjectIsKept
    /\ artifact # Absent => BytesAreKept
    /\ asked # Absent => /\ artifact # Absent /\ asked.request \in Requests
                         /\ asked.result = Answered(artifact, asked.request)

(* An export is a sequence of facts.                                          *)
LEMMA ExportLists ==
    ASSUME ProjectIsKept, ExportOf # Denied
    PROVE  \E facts, entities, relations :
              Lists(facts) /\ ExportOf = Sealed(ExportPayload(facts, entities, relations))
<1> DEFINE entityFacts == {EntityFact(id) : id \in Entities}
           first == SetToSeq(entityFacts)
           second == [i \in DOMAIN project.relations |-> RelationFact(project.relations[i])]
           list == first \o second
           before(i, j) == IF i < j THEN ~Precedes(list[j].key, list[i].key) ELSE Precedes(list[i].key, list[j].key)
           place == [j \in DOMAIN list |-> 1 + Cardinality({i \in DOMAIN list : before(i, j)})]
           facts == [k \in DOMAIN list |-> list[CHOOSE j \in DOMAIN list : place[j] = k]]
<1>1. IsFiniteSet(entityFacts)
  <2> DEFINE g == [id \in Entities |-> EntityFact(id)]
  <2>1. g \in Surjection(Entities, entityFacts)
    BY DEF Surjection
  <2>2. IsFiniteSet(Entities)
    BY DEF ProjectIsKept, ProjectIsSane
  <2> HIDE DEF g, entityFacts
  <2> QED BY <2>1, <2>2, FS_Surjection
<1>2. first \in Seq(entityFacts)
  <2> HIDE DEF entityFacts
  <2> QED BY <1>1, ListOf
<1>3. PICK n \in Nat : DOMAIN project.relations = 1 .. n
  BY ListsAre DEF ProjectIsKept
<1>4. second \in Seq({second[i] : i \in 1 .. n})
  <2> DEFINE T == {second[i] : i \in 1 .. n}
  <2>1. second \in [1 .. n -> T]
    BY <1>3
  <2> HIDE DEF second, T
  <2> QED BY <2>1, SequenceOf
<1>5. PICK A, B : first \in Seq(A) /\ second \in Seq(B)
  BY <1>2, <1>4
<1>6. list \in Seq(A \cup B)
  <2> HIDE DEF first, second
  <2> QED BY <1>5
<1> HIDE DEF first, second
<1>7. PICK m \in Nat : DOMAIN list = 1 .. m
  <2> HIDE DEF list
  <2> QED BY <1>6
<1>8. Lists(facts)
  <2> HIDE DEF list, place
  <2>1. facts = [k \in 1 .. m |-> facts[k]]
    BY <1>7
  <2> HIDE DEF facts
  <2> QED BY <2>1, ListsAre
<1>9. ExportOf = Denied
      \/ ExportOf = Sealed(ExportPayload(facts, Cardinality(Entities), Len(project.relations)))
  <2>1. facts = [k \in DOMAIN list |-> list[CHOOSE j \in DOMAIN list : place[j] = k]]
    OBVIOUS
  <2> QED BY Zenon DEF ExportOf, facts, place, before, list, first, second, entityFacts
<1> HIDE DEF facts
<1> QED BY <1>8, <1>9

(* ---- what is kept by every step -------------------------------------------- *)
(* Sealing keeps the facts.                                                   *)
LEMMA SealedKeeps ==
    \A facts, n, m : /\ Sealed(ExportPayload(facts, n, m)).payload.facts = facts
                     /\ SealedBytes(Sealed(ExportPayload(facts, n, m)))
                     /\ Resealed(facts).payload.facts = facts
                     /\ SealedBytes(Resealed(facts))
BY DEF Sealed, ExportPayload, Resealed, SealedBytes

(* Whoever alters the bytes of an export leaves a sequence of facts.          *)
LEMMA ForgeriesAreBytes ==
    ASSUME NEW export, Lists(export.payload.facts), SealedBytes(export), NEW forged \in Forgeries(export)
    PROVE  Lists(forged.payload.facts) /\ SealedBytes(forged)
<1> DEFINE facts == export.payload.facts
           size == Len(facts)
           last == facts[size]
           pointed(id) == [last EXCEPT !.object = id, !.key = [@ EXCEPT ![5] = id], !.record = [@ EXCEPT ![4] = id]]
           points == IF IsRelation(last) THEN {[last EXCEPT !.object = last.subject], pointed(last.subject),
                                               pointed("nobody"), [last EXCEPT !.family = "other"]}
                     ELSE {}
           swapped == [facts EXCEPT ![1] = facts[2], ![2] = facts[1]]
           kept == [export EXCEPT !.payload = Resealed(Front(facts)).payload]
<1>1. PICK k \in Nat : k = size /\ DOMAIN facts = 1 .. k
  BY ListsAre
<1>2. \/ \E i \in {1, 3, size} \cap DOMAIN facts : forged = Resealed(RemoveAt(facts, i))
      \/ \E g \in points : forged = Resealed([facts EXCEPT ![size] = g])
      \/ forged = Resealed(swapped)
      \/ forged = kept
  <2> HIDE DEF points
  <2>1. forged \in {Resealed(RemoveAt(facts, i)) : i \in {1, 3, size} \cap DOMAIN facts}
                   \cup {Resealed([facts EXCEPT ![size] = g]) : g \in points}
                   \cup {Resealed(swapped), kept}
    <3> USE DEF points
    <3> QED BY Zenon DEF Forgeries
  <2> HIDE DEF swapped, kept, size
  <2> QED BY <2>1
<1> HIDE DEF points
<1>3. CASE \E i \in {1, 3, size} \cap DOMAIN facts : forged = Resealed(RemoveAt(facts, i))
  <2>1. PICK i \in DOMAIN facts : forged = Resealed(RemoveAt(facts, i))
    BY <1>3
  <2>2. Lists(RemoveAt(facts, i))
    BY ListsAre
  <2> QED BY <2>1, <2>2, SealedKeeps
<1>4. CASE \E g \in points : forged = Resealed([facts EXCEPT ![size] = g])
  <2>1. PICK g \in points : forged = Resealed([facts EXCEPT ![size] = g])
    BY <1>4
  <2> DEFINE p == [facts EXCEPT ![size] = g]
  <2>2. p = [i \in 1 .. k |-> p[i]]
    BY <1>1
  <2>3. Lists(p)
    <3> HIDE DEF p
    <3> QED BY <2>2, ListsAre
  <2> QED BY <2>1, <2>3, SealedKeeps
<1>5. CASE forged = Resealed(swapped)
  <2>1. swapped = [i \in 1 .. k |-> swapped[i]]
    BY <1>1
  <2>2. Lists(swapped)
    <3> HIDE DEF swapped
    <3> QED BY <2>1, ListsAre
  <2> HIDE DEF swapped
  <2> QED BY <1>5, <2>2, SealedKeeps
<1>6. CASE forged = kept
  <2>1. kept.payload = Resealed(Front(facts)).payload /\ SealedBytes(kept)
    BY DEF SealedBytes
  <2>2. Lists(Front(facts))
    BY ListsAre
  <2> HIDE DEF kept
  <2> QED BY <1>6, <2>1, <2>2, SealedKeeps
<1> QED BY <1>2, <1>3, <1>4, <1>5, <1>6

(* A loaded project is one as assumed.                                        *)
LEMMA LoadKeepsProject ==
    ASSUME NEW p \in FirstProjects, project' = p
    PROVE  ProjectIsKept'
<1>1. /\ p = [entities |-> p.entities, relations |-> p.relations]
      /\ IsFiniteSet(DOMAIN p.entities) /\ Absent \notin DOMAIN p.entities
      /\ \A id \in DOMAIN p.entities : p.entities[id].effort \in Int
      /\ p.relations \in Seq(Range(p.relations))
  BY InputsAssumption, Zenon DEF ProjectsAssumption
<1>2. Lists(p.relations)
  BY <1>1 DEF Lists
<1> QED BY <1>1, <1>2, Zenon DEF ProjectIsKept, ProjectIsSane, Entities

(* A new relation leaves the entities alone and the relations a sequence.     *)
LEMMA AuthorKeepsProject ==
    ASSUME ProjectIsKept, NEW r, project' = [project EXCEPT !.relations = Append(@, r)]
    PROVE  ProjectIsKept'
<1> DEFINE list == Append(project.relations, r)
<1>1. project' = [entities |-> project.entities, relations |-> list]
  BY DEF ProjectIsKept
<1>2. Lists(list)
  <2>1. Lists(project.relations)
    BY DEF ProjectIsKept
  <2> QED BY <2>1, ListsAre
<1> HIDE DEF list
<1>3. project'.entities = project.entities /\ project'.relations = list
  BY <1>1
<1>4. ProjectIsSane'
  BY <1>3 DEF ProjectIsKept, ProjectIsSane, Entities
<1> QED BY <1>1, <1>2, <1>3, <1>4 DEF ProjectIsKept

(* What every step keeps.                                                     *)
LEMMA ProjectIsKeptHolds == ProjectSpec => []ProjectInv
<1>1. ProjectInit => ProjectInv
  BY DEF ProjectInit, ProjectInv
<1>2. ASSUME ProjectInv, [ProjectNext]_projectVars PROVE ProjectInv'
  <2>1. CASE Load
    <3>1. PICK p \in FirstProjects : project' = p
      BY <2>1 DEF Load
    <3>2. ProjectIsKept'
      BY <3>1, LoadKeepsProject
    <3>3. artifact' = artifact /\ asked' = asked
      BY <2>1 DEF Load
    <3>4. BytesAreKept' <=> BytesAreKept
      BY <3>3 DEF BytesAreKept, SealedBytes
    <3> QED BY <1>2, <3>2, <3>3, <3>4 DEF ProjectInv
  <2>2. CASE \E r \in NewRelations : Author(r)
    <3>1. PICK r \in NewRelations : Author(r)
      BY <2>2
    <3>2. /\ project # Absent /\ project' = [project EXCEPT !.relations = Append(@, r)]
          /\ artifact' = Absent /\ asked' = Absent
      BY <3>1 DEF Author
    <3>3. ProjectIsKept
      BY <1>2, <3>2 DEF ProjectInv
    <3>4. ProjectIsKept'
      BY <3>2, <3>3, AuthorKeepsProject
    <3> QED BY <3>2, <3>4 DEF ProjectInv
  <2>3. CASE BuildExport
    <3>1. /\ project # Absent /\ artifact = Absent /\ ExportOf # Denied
          /\ artifact' = ExportOf /\ project' = project /\ asked' = asked
      BY <2>3 DEF BuildExport
    <3>2. ProjectIsKept /\ asked = Absent
      BY <1>2, <3>1 DEF ProjectInv
    <3>3. PICK facts, n, m : Lists(facts) /\ ExportOf = Sealed(ExportPayload(facts, n, m))
      BY <3>1, <3>2, ExportLists
    <3>4. artifact'.payload.facts = facts /\ SealedBytes(artifact')
      BY <3>1, <3>3, SealedKeeps
    <3>5. BytesAreKept'
      BY <3>3, <3>4 DEF BytesAreKept, SealedBytes
    <3>6. ProjectIsKept'
      BY <3>1, <3>2 DEF ProjectIsKept, ProjectIsSane, Entities
    <3> QED BY <3>1, <3>2, <3>5, <3>6 DEF ProjectInv
  <2>4. CASE Forge
    <3>1. /\ asked = Absent /\ artifact # Absent /\ artifact = ExportOf
          /\ artifact' \in Forgeries(artifact) /\ project' = project /\ asked' = asked
      BY <2>4 DEF Forge
    <3>2. Lists(artifact.payload.facts) /\ SealedBytes(artifact)
      BY <1>2, <3>1 DEF ProjectInv, BytesAreKept
    <3>3. Lists(artifact'.payload.facts) /\ SealedBytes(artifact')
      BY <3>1, <3>2, ForgeriesAreBytes
    <3>4. BytesAreKept'
      BY <3>3 DEF BytesAreKept, SealedBytes
    <3>5. ProjectIsKept' <=> ProjectIsKept
      BY <3>1 DEF ProjectIsKept, ProjectIsSane, Entities
    <3> QED BY <1>2, <3>1, <3>4, <3>5 DEF ProjectInv
  <2>5. CASE \E request \in Requests : Query(request)
    <3>1. PICK request \in Requests : Query(request)
      BY <2>5
    <3>2. /\ artifact # Absent /\ asked' = [request |-> request, result |-> Answered(artifact, request)]
          /\ project' = project /\ artifact' = artifact
      BY <3>1 DEF Query
    <3>3. asked'.request = request /\ asked'.result = Answered(artifact', request)
      <4> DEFINE answer == Answered(artifact, request)
      <4>1. Answered(artifact', request) = answer
        BY <3>2
      <4>2. asked' = [request |-> request, result |-> answer]
        BY <3>2
      <4> HIDE DEF answer
      <4> QED BY <4>1, <4>2
    <3>4. (ProjectIsKept' <=> ProjectIsKept) /\ (BytesAreKept' <=> BytesAreKept)
      BY <3>2 DEF ProjectIsKept, ProjectIsSane, Entities, BytesAreKept, SealedBytes
    <3> QED BY <1>2, <3>2, <3>3, <3>4 DEF ProjectInv
  <2>6. CASE UNCHANGED projectVars
    <3>1. project' = project /\ artifact' = artifact /\ asked' = asked
      BY <2>6 DEF projectVars
    <3>2. (ProjectIsKept' <=> ProjectIsKept) /\ (BytesAreKept' <=> BytesAreKept)
      BY <3>1 DEF ProjectIsKept, ProjectIsSane, Entities, BytesAreKept, SealedBytes
    <3>3. Answered(artifact', asked'.request) = Answered(artifact, asked.request)
      BY <3>1
    <3> QED BY <1>2, <3>1, <3>2, <3>3 DEF ProjectInv
  <2> QED BY <1>2, <2>1, <2>2, <2>3, <2>4, <2>5, <2>6 DEF ProjectNext
<1> QED BY <1>1, <1>2, PTL DEF ProjectSpec

(* Every plan and every answer the project model gives is true, whatever was  *)
(* loaded, authored, exported, altered and asked: ProjectIsTold (schedule.ts, *)
(* relational-facts.ts) for every project, request and bound.                 *)
THEOREM ProjectIsToldHolds == ProjectSpec => []ProjectIsTold
<1>1. ASSUME ProjectInv PROVE ProjectIsTold
  <2>1. ASSUME project # Absent PROVE PlanIsSound
    <3>1. ProjectIsSane
      BY <1>1, <2>1 DEF ProjectInv, ProjectIsKept
    <3> QED BY <3>1, PlanHolds
  <2>2. QueriesAreTrue
    <3>1. ASSUME asked # Absent PROVE AnswerIsKept
      <4>1. /\ asked.request \in Requests /\ asked.result = Answered(artifact, asked.request)
            /\ Lists(artifact.payload.facts)
        BY <1>1, <3>1 DEF ProjectInv, BytesAreKept
      <4>2. IsFiniteSet(ToSet(artifact.payload.facts))
        BY <4>1, ListsAre
      <4> QED BY <4>1, <4>2 DEF AnswerIsKept
    <3> QED BY <3>1, AnswerHolds
  <2> QED BY <2>1, <2>2 DEF ProjectIsTold
<1> QED BY <1>1, ProjectIsKeptHolds, PTL
=============================================================================
