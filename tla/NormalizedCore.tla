--------------------------- MODULE NormalizedCore ---------------------------
(* The inert artifact a checked program is written to, with what its author   *)
(* says of its sources and assumptions; and what is demanded of an artifact   *)
(* that comes back.  An identity is its domain and the payload it digests, so *)
(* equal exactly where those are; where the code sorts by identity, the order *)
(* is that of the payload's name.  Bytes, depth and node bounds are left out. *)
EXTENDS KernelExecution

CONSTANTS
    Filed,              \* the programs that are written to artifacts, a bound
    Metadata,           \* what authors say: [assumptions, units, correspondence]
    CodePoints,         \* every name, in code point order
    Rewritten(_),       \* what others may make of an artifact, unsealed
    MaxOperations, MaxAssumptions, MaxSourceUnits, MaxCorrespondences

VARIABLES
    artifact,           \* the artifact that is emitted, or was received, or NoArtifact
    outcome             \* what became of it, or "none"

coreVars == <<artifact, outcome>>
NoArtifact == [version |-> 0]

CoreInit == artifact = NoArtifact /\ outcome = "none"

Under(signature) == INSTANCE KernelChecker WITH Signature <- signature

-----------------------------------------------------------------------------
(* Orders.                                                                    *)
Rank(name) == SelectInSeq(CodePoints, LAMBDA n : n = name)
Less(m, n) == \E i \in DOMAIN m \cap DOMAIN n : m[i] < n[i] /\ \A j \in 1..(i - 1) : m[j] = n[j]
Ordered(seq, Key(_)) == SortSeq(seq, LAMBDA a, b : Less(Key(a), Key(b)))
Canonical(seq, Key(_)) == \A i \in 2..Len(seq) : Less(Key(seq[i - 1]), Key(seq[i]))
Duplicated(seq, Key(_)) == \E i, j \in DOMAIN seq : i < j /\ Key(seq[i]) = Key(seq[j])

ByName(name) == <<Rank(name)>>
ByOperation(d) == <<Rank(d.label), Rank(d.op)>>
ByClause(c) == <<Rank(c.op)>>
ByStatement(a) == <<Rank(a.statement)>>
ByUnit(u) == <<Rank(u.uri), u.length>>
PathRank(path) == [i \in DOMAIN path |-> IF path[i].field = "index" THEN 1 + path[i].at ELSE Rank(path[i].field)]
ByCorrespondence(c) ==                  \* correspondenceOrder
    PathRank(c.path) \o <<0>> \o ByUnit(c.source.payload) \o <<Rank(c.role), c.start, c.end>>

-----------------------------------------------------------------------------
(* Normal forms: rows and clauses become sorted sequences, nothing else is    *)
(* changed; and back.                                                         *)
Ascending(names) == SelectSeq(CodePoints, LAMBDA n : n \in names)

RECURSIVE NormalType(_), RestoredType(_), NormalTerm(_), RestoredTerm(_)
NormalType(t) ==
    [f \in DOMAIN t |-> CASE f = "effects" -> Ascending(t[f])
                          [] f \in PartFields -> NormalType(t[f])
                          [] OTHER -> t[f]]
RestoredType(t) ==
    [f \in DOMAIN t |-> CASE f = "effects" -> Range(t[f])
                          [] f \in PartFields -> RestoredType(t[f])
                          [] OTHER -> t[f]]
NormalTerm(t) ==
    [f \in DOMAIN t \ {"type"} |->
        CASE f = "clauses" -> LET ops == Ascending(DOMAIN t.clauses)
                              IN [i \in DOMAIN ops |-> [op |-> ops[i], body |-> NormalTerm(t.clauses[ops[i]])]]
          [] f = "parameter" -> NormalType(t[f])
          [] f \in PartFields -> NormalTerm(t[f])
          [] OTHER -> t[f]]
RestoredTerm(t) ==
    [f \in DOMAIN t \cup (IF t.k = "thunk" THEN {"type"} ELSE {}) |->
        CASE f = "type" -> Untyped
          [] f = "clauses" -> [op \in {c.op : c \in Range(t.clauses)} |->
                                  RestoredTerm((CHOOSE c \in Range(t.clauses) : c.op = op).body)]
          [] f = "parameter" -> RestoredType(t[f])
          [] f \in PartFields -> RestoredTerm(t[f])
          [] OTHER -> t[f]]

RECURSIVE ReadsType(_), ReadsTerm(_)
ReadsType(t) ==
    /\ "effects" \in DOMAIN t => Canonical(t.effects, ByName)
    /\ \A f \in DOMAIN t \cap PartFields : ReadsType(t[f])
ClausesInOrder_Any(clauses) == ~Duplicated(clauses, ByClause)
ClausesInOrder(clauses) == Canonical(clauses, ByClause)
ReadsTerm(t) ==
    /\ "parameter" \in DOMAIN t => ReadsType(t.parameter)
    /\ "clauses" \in DOMAIN t => /\ ClausesInOrder(t.clauses)
                                 /\ \A c \in Range(t.clauses) : ReadsTerm(c.body)
    /\ \A f \in DOMAIN t \cap (PartFields \ {"parameter"}) : ReadsTerm(t[f])

-----------------------------------------------------------------------------
(* Identities.  What a payload holds is what the identity depends on.         *)
Identity(domain, payload) == [domain |-> domain, payload |-> payload]
Without(r, fields) == [f \in DOMAIN r \ fields |-> r[f]]
Identified(domain, payload) == payload @@ [identity |-> Identity(domain, payload)]

OperationIdentity(d) == Identity("operation", Without(d, {"identity"}))
AssumptionIdentity(a) == Identity("assumption", Without(a, {"identity"}))
UnitIdentity(u) == Identity("source-unit", Without(u, {"identity"}))
SemanticPayload(a) == Without(a, {"semantic", "self", "units", "correspondence"})
SemanticIdentity(a) == Identity("semantic", SemanticPayload(a))
ArtifactIdentity(a) == Identity("artifact", Without(a, {"self"}))

WithSemantic(a) == [f \in DOMAIN a \cup {"semantic"} |-> IF f = "semantic" THEN SemanticIdentity(a) ELSE a[f]]
WithSelf(a) == [f \in DOMAIN a \cup {"self"} |-> IF f = "self" THEN ArtifactIdentity(a) ELSE a[f]]

(* The identities of an artifact, all derived again.                          *)
Sealed(a) ==
    LET Derived(entries, Of(_)) == [i \in DOMAIN entries |-> [entries[i] EXCEPT !.identity = Of(entries[i])]]
    IN WithSelf(WithSemantic([a EXCEPT !.signature = Derived(@, OperationIdentity),
                                       !.assumptions = Derived(@, AssumptionIdentity),
                                       !.units = Derived(@, UnitIdentity)]))

VerifiesIdentities(a) ==
    /\ \A i \in DOMAIN a.signature : a.signature[i].identity = OperationIdentity(a.signature[i])
    /\ \A i \in DOMAIN a.assumptions : a.assumptions[i].identity = AssumptionIdentity(a.assumptions[i])
    /\ \A i \in DOMAIN a.units : a.units[i].identity = UnitIdentity(a.units[i])
    /\ a.semantic = SemanticIdentity(a)
    /\ a.self = ArtifactIdentity(a)

-----------------------------------------------------------------------------
(* resolvePointer: a path names a node below the semantic payload.  Paths     *)
(* into types are left out, but for the type of the summary.                  *)
Field(name) == [field |-> name]
Index(n) == [field |-> "index", at |-> n]

RECURSIVE InTerm(_, _)
InTerm(t, path) ==
    \/ path = << >>
    \/ /\ Head(path).field \in DOMAIN t \cap (PartFields \ {"parameter"})
       /\ InTerm(t[Head(path).field], Tail(path))
    \/ /\ Len(path) >= 2 /\ Head(path) = Field("clauses") /\ "clauses" \in DOMAIN t
       /\ path[2].field = "index" /\ path[2].at \in 0..(Len(t.clauses) - 1)
       /\ \/ Len(path) = 2
          \/ path[3] = Field("body") /\ InTerm(t.clauses[path[2].at + 1].body, SubSeq(path, 4, Len(path)))

Resolves(payload, path) ==
    CASE path[1] = Field("term") -> InTerm(payload.term, Tail(path))
      [] path[1] = Field("summary") -> path \in {<<Field("summary")>>, <<Field("summary"), Field("type")>>}
      [] path[1].field \in {"signature", "assumptions"} ->
            /\ Len(path) = 2 /\ path[2].field = "index"
            /\ path[2].at \in 0..(Len(payload[path[1].field]) - 1)
      [] OTHER -> FALSE

InRange(c, length) == c.start <= c.end /\ c.end <= length

-----------------------------------------------------------------------------
(* emit, of a signature and a term that the checker accepts.                  *)
Entries(signature) ==
    Ordered([i \in DOMAIN signature |->
                Identified("operation", [label |-> signature[i].label, op |-> signature[i].op,
                                         argument |-> NormalType(signature[i].argument),
                                         result |-> NormalType(signature[i].result)])], ByOperation)

Content(signature, term, checks, told) ==
    [version |-> 1, obligations |-> << >>,
     signature |-> Entries(signature),
     assumptions |-> Ordered([i \in DOMAIN told.assumptions |->
                                 Identified("assumption", [kind |-> "declared", statement |-> told.assumptions[i]])],
                             ByStatement),
     term |-> NormalTerm(term),
     summary |-> [type |-> NormalType(checks.type), effects |-> Ascending(checks.effects), usage |-> checks.usage]]

UnitOf(u) == Identified("source-unit", [uri |-> u.uri, length |-> u.length])
UnitFor(told, key) == LET n == SelectInSeq(told.units, LAMBDA u : u.key = key) IN UnitOf(told.units[n])
Corresponds(told, c) ==
    [path |-> c.path, source |-> UnitFor(told, c.key).identity, role |-> c.role, start |-> c.start, end |-> c.end]

Filing(signature, told, checks, payload, units, matched) ==
    CASE Len(told.assumptions) > MaxAssumptions -> Failed("decode.assumptions-exceeded")
      [] Len(told.units) > MaxSourceUnits -> Failed("decode.source-units-exceeded")
      [] Duplicated(told.units, LAMBDA u : u.key) -> Failed("metadata.duplicate-source-key")
      [] Len(told.correspondence) > MaxCorrespondences -> Failed("decode.correspondences-exceeded")
      [] Len(signature) > MaxOperations -> Failed("decode.operations-exceeded")
      [] Duplicated(signature, ByOperation) \/ ~checks.ok -> Failed("custody.incoherent-program")
      [] Duplicated(payload.assumptions, ByStatement) -> Failed("metadata.duplicate-assumption")
      [] Duplicated(units, ByUnit) -> Failed("metadata.duplicate-source-unit")
      [] \E c \in Range(told.correspondence) : \A u \in Range(told.units) : u.key # c.key ->
           Failed("source.unknown-key")
      [] \E c \in Range(matched) : ~Resolves(payload, c.path) -> Failed("source.pointer")
      [] \E c \in Range(matched) : ~InRange(c, c.source.payload.length) -> Failed("source.range")
      [] Duplicated(matched, ByCorrespondence) -> Failed("source.duplicate-correspondence")
      [] OTHER ->
           [ok |-> TRUE,
            artifact |-> WithSelf([units |-> units, correspondence |-> Ordered(matched, ByCorrespondence)]
                                  @@ WithSemantic(payload))]

Emitted(signature, told, checks, payload) ==
    Filing(signature, told, checks, payload,
           Ordered([i \in DOMAIN told.units |-> UnitOf(told.units[i])], ByUnit),
           [i \in DOMAIN told.correspondence |-> Corresponds(told, told.correspondence[i])])

EmittedFrom(signature, term, told, checks) ==
    Emitted(signature, told, checks, Content(signature, term, checks, told))
Emission(signature, term, told) ==
    EmittedFrom(signature, term, told, Under(signature)!Check(term))

-----------------------------------------------------------------------------
(* validateNormalizedCore: decode, then check again.                          *)
Decodes(a) ==                           \* parseArtifact, verifyIdentities
    /\ a.version = 1 /\ a.obligations = << >>
    /\ Len(a.signature) <= MaxOperations /\ Canonical(a.signature, ByOperation)
    /\ Len(a.assumptions) <= MaxAssumptions /\ Canonical(a.assumptions, ByStatement)
    /\ Len(a.units) <= MaxSourceUnits /\ Canonical(a.units, ByUnit)
    /\ Len(a.correspondence) <= MaxCorrespondences /\ Canonical(a.correspondence, ByCorrespondence)
    /\ \A d \in Range(a.signature) : ReadsType(d.argument) /\ ReadsType(d.result)
    /\ ReadsTerm(a.term)
    /\ ReadsType(a.summary.type) /\ Canonical(a.summary.effects, ByName)
    /\ \A c \in Range(a.correspondence) :
          /\ \E u \in Range(a.units) : u.identity = c.source /\ InRange(c, u.length)
          /\ Resolves(SemanticPayload(a), c.path)
    /\ VerifiesIdentities(a)

RestoredSignature(a) ==
    [i \in DOMAIN a.signature |->
        [label |-> a.signature[i].label, op |-> a.signature[i].op,
         argument |-> RestoredType(a.signature[i].argument), result |-> RestoredType(a.signature[i].result)]]

Reproduces(checks, a) ==
    /\ checks.ok
    /\ checks.type = RestoredType(a.summary.type)
    /\ checks.effects = Range(a.summary.effects)
    /\ checks.usage = a.summary.usage
Validates(a) == Decodes(a) /\ Reproduces(Under(RestoredSignature(a))!Check(RestoredTerm(a.term)), a)

-----------------------------------------------------------------------------
(* A program is emitted; only one the checker keeps is.  A digest may fail.   *)
EmitArtifact ==
    /\ phase = "checked" /\ program \in Filed
    /\ \E told \in Metadata : \E written \in {Emission(Signature, program, told)} :
          \/ /\ checked.ok /\ written.ok
             /\ phase' = "emitted" /\ artifact' = written.artifact /\ outcome' = "emitted"
          \/ /\ phase' = "filed"
             /\ outcome' = IF ~checked.ok THEN "custody.checked-program-required"
                           ELSE IF ~written.ok THEN written.code ELSE "digest-failed"
             /\ UNCHANGED artifact
    /\ UNCHANGED <<origin, program, checked, bound, reference, machineVars, vmVars, replayVars>>

(* An artifact is received: the one that was emitted or what another made of  *)
(* it, with the identities it had or with ones derived for it.                *)
ValidateArtifact ==
    /\ phase = "emitted"
    /\ \E other \in Rewritten(artifact), seal \in BOOLEAN :
          LET received == IF seal THEN Sealed(other) ELSE other
          IN /\ artifact' = received
             /\ outcome' = IF Validates(received) THEN "accepted" ELSE "rejected"
    /\ phase' = "filed"
    /\ UNCHANGED <<origin, program, checked, bound, reference, machineVars, vmVars, replayVars>>

CoreNext == EmitArtifact \/ ValidateArtifact

-----------------------------------------------------------------------------
(* What the artifact says its author said.                                    *)
RestoredMetadata(a) ==
    [assumptions |-> [i \in DOMAIN a.assumptions |-> a.assumptions[i].statement],
     units |-> [i \in DOMAIN a.units |-> [key |-> a.units[i].identity, uri |-> a.units[i].uri,
                                          length |-> a.units[i].length]],
     correspondence |-> [i \in DOMAIN a.correspondence |->
                            [key |-> a.correspondence[i].source] @@ a.correspondence[i]]]

(* An artifact is accepted exactly if it is the one artifact its program and  *)
(* its author's words are written to: whatever is emitted is accepted when it *)
(* comes back, and no second spelling of the same program has an identity of  *)
(* its own (normalize.ts: emit against parseArtifact and validateArtifact).   *)
AcceptedIsCanonical ==
    /\ phase = "emitted" => RestoredTerm(artifact.term) = program
    /\ outcome \in {"accepted", "rejected"} =>
          \A again \in {Emission(RestoredSignature(artifact), RestoredTerm(artifact.term), RestoredMetadata(artifact))} :
             (outcome = "accepted") = (again.ok /\ again.artifact = artifact)
=============================================================================
