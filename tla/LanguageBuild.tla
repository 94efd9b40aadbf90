---------------------------- MODULE LanguageBuild ----------------------------
(* The language-build service (src/src/language-build): a store of accepted   *)
(* artifacts and authored names, whose replay validates a snapshot before it  *)
(* replaces the state, and the content-addressed documents derived from it:   *)
(* a reachability receipt over a declared graph, a runtime closure over a     *)
(* receipt and a selection of artifacts, and an action's receipt over a       *)
(* closure.  Bytes and identities are abstracted to the value they encode or  *)
(* hash: two documents have the same bytes exactly when they are equal.       *)
EXTENDS Integers, Sequences, FiniteSets, SequencesExt, Functions, TLC

CONSTANTS
    Artifacts,          \* accepted normalized-core artifacts
    SemanticOf,         \* the semantic identity each one is a variant of
    Junk,               \* bytes that normalized-core validation rejects
    Names,              \* authored names
    Malformed,          \* an input that is no document of the expected shape
    ReplayInputs,       \* snapshots that callers hand to replay
    Graphs,             \* declared graphs: [root, nodes: Seq([identity, dependencies: Seq])]
    Selections,         \* Seq([semantic, artifact])
    Recipes, Environments,
    MaxValues, MaxArtifacts, MaxBindings,    \* semanticStoreReplayBounds
    MaxNodes, MaxEdges, MaxCapabilities,     \* reachabilityBounds, reproducibleActionBounds
    Nothing

(* What the boundaries of the service admit: arrays of objects, whatever they *)
(* claim; and values that are no documents differ from every document.        *)
ASSUME JunkIsNoArtifact == Junk \notin Artifacts
ASSUME ReplayInputsAreDocuments ==
    \A d \in ReplayInputs \ {Malformed} :
        /\ d.semantic_values \in Seq(Range(d.semantic_values))
        /\ \A v \in Range(d.semantic_values) :
              /\ v.artifacts \in Seq(Range(v.artifacts))
              /\ \A a \in Range(v.artifacts) : a.canonical_bytes \in Artifacts \cup {Junk}
        /\ d.name_bindings \in Seq(Range(d.name_bindings))
        /\ \A b \in Range(d.name_bindings) : b.name \in Names
ASSUME MalformedIsNoSnapshot ==
    Malformed \notin
        [semantic_values : Seq([semantic_identity : {SemanticOf[a] : a \in Artifacts},
                                artifacts : Seq([artifact_identity : Artifacts, canonical_bytes : Artifacts])]),
         name_bindings : Seq([name : Names, semantic_identity : {SemanticOf[a] : a \in Artifacts}])]

VARIABLES
    store,      \* [values: identity -> variants, names: name -> identity]
    replaying,  \* a validated snapshot whose replay has not yet replaced the store
    desk        \* what a builder holds: a receipt, then a snapshot too, then a manifest

buildVars == <<store, replaying, desk>>

Identities == {SemanticOf[a] : a \in Artifacts}

(* An operator that may refuse its input returns a set: what it derives from  *)
(* the input, or nothing.                                                     *)
(* Operators named X_Fault are faulty versions of X, used only as mutations.  *)
-----------------------------------------------------------------------------
(* The store. *)
EmptyStore == [values |-> [s \in {} |-> {}], names |-> [n \in {} |-> Nothing]]

Put(f, x, v) == [y \in DOMAIN f \cup {x} |-> IF y = x THEN v ELSE f[y]]
Variants(values, s) == IF s \in DOMAIN values THEN values[s] ELSE {}

(* An artifact is stored under the semantic identity its validation derives. *)
Insert(bytes) ==
    /\ bytes # Junk
    /\ LET s == SemanticOf[bytes]
       IN store' = [store EXCEPT !.values = Put(@, s, Variants(@, s) \cup {bytes})]
    /\ UNCHANGED <<replaying, desk>>

(* A name is bound, or bound again, to a value the store has. *)
BindName(n, s) ==
    /\ s \in DOMAIN store.values
    /\ store' = [store EXCEPT !.names = Put(@, n, s)]
    /\ UNCHANGED <<replaying, desk>>

SnapshotState(state) ==
    LET values == SetToSeq(DOMAIN state.values)
        names  == SetToSeq(DOMAIN state.names)
        Entry(s) == LET variants == SetToSeq(state.values[s])
                    IN [semantic_identity |-> s,
                        artifacts |-> [i \in DOMAIN variants |->
                            [artifact_identity |-> variants[i], canonical_bytes |-> variants[i]]]]
    IN [semantic_values |-> [i \in DOMAIN values |-> Entry(values[i])],
        name_bindings   |-> [i \in DOMAIN names |->
                                [name |-> names[i], semantic_identity |-> state.names[names[i]]]]]

(* What the snapshot's capture and its decoding admit: a closed shape within  *)
(* the replay bounds.                                                         *)
WithinReplayBounds(snapshot) ==
    /\ Len(snapshot.semantic_values) <= MaxValues
    /\ Len(snapshot.name_bindings) <= MaxBindings
    /\ FoldFunctionOnSet(LAMBDA v, n : Len(v.artifacts) + n, 0, snapshot.semantic_values,
                         DOMAIN snapshot.semantic_values) <= MaxArtifacts

Distinct(seq, Key(_)) == Cardinality({Key(seq[i]) : i \in DOMAIN seq}) = Len(seq)

(* Each value is declared once, has a variant, and has only variants that     *)
(* validate to the identities they are declared under.                        *)
ValuesAdmitted(entries) ==
    /\ Distinct(entries, LAMBDA v : v.semantic_identity)
    /\ \A v \in Range(entries) :
          /\ v.artifacts # <<>>
          /\ Distinct(v.artifacts, LAMBDA a : a.artifact_identity)
          /\ \A a \in Range(v.artifacts) :
                /\ a.canonical_bytes # Junk
                /\ a.canonical_bytes = a.artifact_identity
                /\ SemanticOf[a.canonical_bytes] = v.semantic_identity

BindingsAdmitted_Dangling(bindings, values) == Distinct(bindings, LAMBDA b : b.name)
BindingsAdmitted(bindings, values) ==
    /\ Distinct(bindings, LAMBDA b : b.name)
    /\ \A b \in Range(bindings) : \E v \in Range(values) : v.semantic_identity = b.semantic_identity

PrepareSnapshot(input) ==
    IF \/ input = Malformed
       \/ ~WithinReplayBounds(input)
       \/ ~ValuesAdmitted(input.semantic_values)
       \/ ~BindingsAdmitted(input.name_bindings, input.semantic_values)
    THEN {}
    ELSE LET Declared(s) == CHOOSE v \in Range(input.semantic_values) : v.semantic_identity = s
             Bound(n) == CHOOSE b \in Range(input.name_bindings) : b.name = n
         IN {[values |-> [s \in {v.semantic_identity : v \in Range(input.semantic_values)} |->
                             {a.artifact_identity : a \in Range(Declared(s).artifacts)}],
              names  |-> [n \in {b.name : b \in Range(input.name_bindings)} |->
                             Bound(n).semantic_identity]]}

(* A replay validates its input, artifact by artifact, before it replaces the *)
(* state in one step: inserts and bindings may come in between.               *)
BeginReplay(input) ==
    /\ replaying = Nothing
    /\ replaying' \in PrepareSnapshot(input)
    /\ UNCHANGED <<store, desk>>

FinishReplay ==
    /\ replaying # Nothing
    /\ store' = replaying
    /\ replaying' = Nothing
    /\ UNCHANGED desk
-----------------------------------------------------------------------------
(* Reachability: a declared graph over the values of one snapshot. *)
StoredIn(snapshot) == {v.semantic_identity : v \in Range(snapshot.semantic_values)}

EdgeCount(graph) == FoldFunctionOnSet(LAMBDA d, n : Cardinality(d) + n, 0, graph, DOMAIN graph)

NormalizeNodes(nodes) ==
    LET Node(s) == CHOOSE n \in Range(nodes) : n.identity = s
        graph == [s \in {n.identity : n \in Range(nodes)} |-> Range(Node(s).dependencies)]
    IN IF /\ Len(nodes) <= MaxNodes
          /\ Distinct(nodes, LAMBDA n : n.identity)
          /\ \A n \in Range(nodes) : Distinct(n.dependencies, LAMBDA d : d)
          /\ EdgeCount(graph) <= MaxEdges
       THEN {graph}
       ELSE {}

UniverseValid(graph, root, snapshot) ==
    /\ DOMAIN graph \subseteq StoredIn(snapshot)
    /\ root \in DOMAIN graph
    /\ UNION Range(graph) \subseteq DOMAIN graph

(* The traversal: a stack of identities, each one's dependencies pushed when  *)
(* it is first met. The loop ends when the stack is empty; as a node is met   *)
(* first once, and then pushes fewer nodes than there are, it has ended after *)
(* N * (N + 1) + 1 turns.                                                     *)
Turn(graph, at) ==
    LET s == Last(at.pending)
        rest == Front(at.pending)
        seen == at.visited \cup {s}
    IN IF at.pending = <<>> THEN at
       ELSE IF s \in at.visited THEN [at EXCEPT !.pending = rest]
       ELSE [pending |-> rest \o SetToSeq(graph[s] \ seen), visited |-> seen]
Turns(graph) == LET N == Cardinality(DOMAIN graph) IN N * (N + 1) + 1

DeriveClosure_Direct(graph, root) == {root} \cup graph[root]
DeriveClosure(graph, root) ==
    LET after[n \in 0 .. Turns(graph)] ==
            IF n = 0 THEN [pending |-> <<root>>, visited |-> {}] ELSE Turn(graph, after[n - 1])
    IN after[Turns(graph)].visited

Receipt(graph, root) ==
    LET reachable == DeriveClosure(graph, root)
    IN [graph |-> graph, root |-> root, reachable |-> reachable,
        unreachable |-> DOMAIN graph \ reachable,
        node_count |-> Cardinality(DOMAIN graph), edge_count |-> EdgeCount(graph)]

AnalyzeJson(declared, snapshot) ==
    IF declared = Malformed THEN {}
    ELSE {Receipt(graph, declared.root) :
             graph \in {g \in NormalizeNodes(declared.nodes) : UniverseValid(g, declared.root, snapshot)}}

(* A receipt is accepted when it is the one its own graph derives. *)
ValidatedReceipt(receipt, snapshot) ==
    /\ UniverseValid(receipt.graph, receipt.root, snapshot)
    /\ receipt = Receipt(receipt.graph, receipt.root)
-----------------------------------------------------------------------------
(* Runtime closures: one stored variant for each reachable value. *)
(* The supplied snapshot is replayed, without its names, into a private store *)
(* and read back from there.                                                  *)
PrivateSnapshot(input) ==
    IF input = Malformed THEN {}
    ELSE {SnapshotState(private) : private \in PrepareSnapshot([input EXCEPT !.name_bindings = <<>>])}

StoredVariant(snapshot, m) ==
    \E v \in Range(snapshot.semantic_values) :
        /\ v.semantic_identity = m.semantic
        /\ \E a \in Range(v.artifacts) : a.artifact_identity = m.artifact

NormalizeSelection(members, analysis, snapshot) ==
    IF /\ Distinct(members, LAMBDA m : m.semantic)
       /\ {m.semantic : m \in Range(members)} = analysis.reachable
       /\ \A m \in Range(members) : StoredVariant(snapshot, m)
    THEN {[s \in analysis.reachable |->
              (CHOOSE m \in Range(members) : m.semantic = s).artifact]}
    ELSE {}

Manifest(analysis, members) ==
    [analysis |-> analysis, root |-> analysis.root, members |-> members,
     excluded |-> analysis.unreachable, member_count |-> Cardinality(DOMAIN members),
     excluded_count |-> Cardinality(analysis.unreachable)]

(* The closure of a receipt and a selection over a snapshot. *)
AssembledClosure(snapshotJson, receipt, members) ==
    {Manifest(receipt, chosen) : chosen \in
        UNION {NormalizeSelection(members, receipt, snapshot) :
                  snapshot \in {x \in PrivateSnapshot(snapshotJson) : ValidatedReceipt(receipt, x)}}}

BuildRuntimeClosure(snapshotJson, receipt, selection) ==
    IF selection = Malformed \/ Len(selection) > MaxNodes THEN {}
    ELSE AssembledClosure(snapshotJson, receipt, selection)

MemberSeq(members) ==
    LET order == SetToSeq(DOMAIN members)
    IN [i \in DOMAIN order |-> [semantic |-> order[i], artifact |-> members[order[i]]]]

ValidateRuntimeClosure(snapshotJson, manifest) ==
    manifest \in AssembledClosure(snapshotJson, manifest.analysis, MemberSeq(manifest.members))
-----------------------------------------------------------------------------
(* Actions: a recipe run, in an environment that declares the capability it   *)
(* needs, on a closure that validates.                                        *)
NormalizeEnvironment(environment) ==
    IF Len(environment) <= MaxCapabilities /\ Distinct(environment, LAMBDA c : c)
    THEN {Range(environment)}
    ELSE {}

RequiredCapability(recipe) ==
    IF recipe.kind = "closure.member-count" THEN "member-count" ELSE "membership-query"

Interpret(recipe, manifest) ==
    IF recipe.kind = "closure.member-count" THEN manifest.member_count
    ELSE recipe.semantic \in DOMAIN manifest.members
         /\ manifest.members[recipe.semantic] = recipe.artifact

ActionReceipt(snapshotJson, manifest, recipe, capabilities) ==
    IF /\ ValidateRuntimeClosure(snapshotJson, manifest)
       /\ RequiredCapability(recipe) \in capabilities
    THEN {[recipe |-> recipe, environment |-> capabilities,
           required |-> {RequiredCapability(recipe)},
           manifest |-> manifest, observation |-> Interpret(recipe, manifest)]}
    ELSE {}

ExecuteReproducibleAction(snapshotJson, manifest, recipe, environment) ==
    IF recipe = Malformed \/ environment = Malformed THEN {}
    ELSE UNION {ActionReceipt(snapshotJson, manifest, recipe, capabilities) :
                   capabilities \in NormalizeEnvironment(environment)}

ValidateActionReceipt(snapshotJson, manifest, receipt) ==
    receipt \in ActionReceipt(snapshotJson, manifest, receipt.recipe, receipt.environment)
-----------------------------------------------------------------------------
(* A builder analyzes the live store, later takes a snapshot of it, and       *)
(* builds from the two, whatever has been inserted or replayed in between.    *)
Analyze(declared) ==
    /\ \E receipt \in AnalyzeJson(declared, SnapshotState(store)) :
           desk' = [stage |-> "receipt", receipt |-> receipt]
    /\ UNCHANGED <<store, replaying>>

TakeSnapshot ==
    /\ desk.stage = "receipt"
    /\ desk' = [stage |-> "snapshot", receipt |-> desk.receipt, snapshot |-> SnapshotState(store)]
    /\ UNCHANGED <<store, replaying>>

Build(selection) ==
    /\ desk.stage = "snapshot"
    /\ \E manifest \in BuildRuntimeClosure(desk.snapshot, desk.receipt, selection) :
           desk' = [stage |-> "manifest", manifest |-> manifest]
    /\ UNCHANGED <<store, replaying>>

BuildInit ==
    /\ store = EmptyStore
    /\ replaying = Nothing
    /\ desk = [stage |-> "empty"]

BuildNext ==
    \/ \E bytes \in Artifacts \cup {Junk} : Insert(bytes)
    \/ \E n \in Names, s \in Identities : BindName(n, s)
    \/ \E input \in ReplayInputs \cup {SnapshotState(store)} : BeginReplay(input)
    \/ FinishReplay
    \/ \E declared \in Graphs : Analyze(declared)
    \/ TakeSnapshot
    \/ \E selection \in Selections : Build(selection)

BuildSpec == BuildInit /\ [][BuildNext]_buildVars
-----------------------------------------------------------------------------
(* Whatever the order of inserts, bindings and replays, every name targets a  *)
(* stored value, every value has a variant, every variant is stored under the *)
(* value it validates to; and a snapshot of the store within the replay       *)
(* bounds replays to the very same store.                                     *)
StoreIsClosed ==
    /\ Range(store.names) \subseteq DOMAIN store.values
    /\ \A s \in DOMAIN store.values :
          /\ store.values[s] # {}
          /\ \A a \in store.values[s] : SemanticOf[a] = s
    /\ WithinReplayBounds(SnapshotState(store)) => PrepareSnapshot(SnapshotState(store)) = {store}

ClosedUnder(graph, S) == \A s \in S : graph[s] \subseteq S
(* The values a root needs: those in every set closed under dependency that   *)
(* holds the root.                                                            *)
Needed(graph, root) ==
    {s \in DOMAIN graph : \A S \in SUBSET DOMAIN graph :
        root \in S /\ ClosedUnder(graph, S) => s \in S}

(* A manifest names one variant for exactly the values its root needs and     *)
(* excludes the rest; it validates on exactly those stores that still hold    *)
(* the values and variants it names, whatever else was inserted, bound or     *)
(* replayed since; and an action on it tells what the manifest holds, and its *)
(* receipt validates wherever the manifest does.                              *)
ClosuresStayTrue ==
    desk.stage = "manifest" =>
        LET manifest == desk.manifest
            graph == manifest.analysis.graph
            now == SnapshotState(store)
            holds == /\ WithinReplayBounds([now EXCEPT !.name_bindings = <<>>])
                     /\ DOMAIN graph \subseteq DOMAIN store.values
                     /\ \A s \in DOMAIN manifest.members : manifest.members[s] \in store.values[s]
        IN /\ DOMAIN manifest.members = Needed(graph, manifest.root)
           /\ manifest.excluded = DOMAIN graph \ DOMAIN manifest.members
           /\ ValidateRuntimeClosure(now, manifest) <=> holds
           /\ \A recipe \in Recipes, environment \in Environments :
                 \A receipt \in ExecuteReproducibleAction(now, manifest, recipe, environment) :
                       /\ holds
                       /\ receipt.required \subseteq Range(environment)
                       /\ ValidateActionReceipt(now, manifest, receipt)
                       /\ ~recipe.kind = "closure.member-count"
                             => receipt.observation = (\E m \in Range(MemberSeq(manifest.members)) :
                                    m.semantic = recipe.semantic /\ m.artifact = recipe.artifact)
=============================================================================
