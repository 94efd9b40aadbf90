--------------------------- MODULE KernelDocument ---------------------------
(* The document a program arrives in and the observation of its check: what   *)
(* the two decoders in front of the checker admit, the tables the accepted    *)
(* judgments are written to, and what the decoder of observations demands of  *)
(* them.  Both are JSON; the bytes, the order of fields and the names of      *)
(* occurrences are left out, and a label stands for its index in the table.   *)
EXTENDS KernelChecker, FiniteSetsExt

CONSTANTS
    MaxRawDepth, MaxRawNodes,       \* of a JSON document
    MaxTermDepth, MaxTermNodes,     \* of a term the calculus decodes
    MaxCollection,                  \* maximumOperationClauses, maximumEffectLabels
    MaxContext, MaxJudgments, MaxTypeNodes      \* of an observation

-----------------------------------------------------------------------------
(* The size of a term or type as JSON, where names, grades and numbers count, *)
(* and as the calculus decodes it, where only records do.                     *)
PartFields == {"first", "second", "computation", "value", "parameter", "result", "arg", "bound", "body"}
PartsOf(t) == [f \in DOMAIN t \cap PartFields |-> t[f]]
ClausesOf(t) == IF t.k = "handle" THEN t.clauses ELSE [op \in {} |-> Untyped]
Rows(t) == IF "effects" \in DOMAIN t THEN {t.effects} ELSE {}

Scalars(t) ==
    CASE t.k = "operation" -> 3
      [] t.k \in {"return", "lambda", "function", "handle", "resume", "var", "resumption"}
           \/ (t.k = "int" /\ "literal" \in DOMAIN t) -> 1
      [] OTHER -> 0

(* How far below a handler its return clause is, and its operation clauses.   *)
Below(t, f) == IF t.k = "handle" /\ f = "body" THEN 2 ELSE 1
BelowClauses(raw) == IF raw THEN 3 ELSE 2

RECURSIVE Depth(_, _), Nodes(_, _)
Depth(t, raw) ==
    Max({0} \cup {Below(t, f) + Depth(t[f], raw) : f \in DOMAIN PartsOf(t)}
            \cup {BelowClauses(raw) + Depth(c, raw) : c \in Range(ClausesOf(t))}
            \cup (IF raw THEN {1 : i \in 1..Scalars(t)} \cup {IF row = {} THEN 1 ELSE 2 : row \in Rows(t)}
                  ELSE {}))

Nodes(t, raw) ==
    LET clauses == ClausesOf(t)
        records == 1 + (IF t.k = "handle" THEN 1 + Cardinality(DOMAIN clauses) ELSE 0)
        others == Scalars(t) + SumSet({1 + Cardinality(row) : row \in Rows(t)})
                  + (IF t.k = "handle" THEN 1 + Cardinality(DOMAIN clauses) ELSE 0)
    IN records + (IF raw THEN others ELSE 0)
       + MapThenSumSet(LAMBDA f : Nodes(t[f], raw), DOMAIN PartsOf(t))
       + MapThenSumSet(LAMBDA op : Nodes(clauses[op], raw), DOMAIN clauses)

RECURSIVE Widths(_)
Widths(t) ==                            \* the sizes of the collections in it
    {Cardinality(row) : row \in Rows(t)} \cup {Cardinality(DOMAIN ClausesOf(t))}
        \cup UNION {Widths(t[f]) : f \in DOMAIN PartsOf(t)}
        \cup UNION {Widths(c) : c \in Range(ClausesOf(t))}

SignatureNodes ==
    1 + FoldLeft(LAMBDA n, d : n + 3 + Nodes(d.argument, TRUE) + Nodes(d.result, TRUE), 0, Signature)

(* decodeKernelDocumentValue: the program stands one level below the document.*)
DecodesAsJson(t) ==
    /\ 1 + Depth(t, TRUE) <= MaxRawDepth
    /\ 1 + SignatureNodes + Nodes(t, TRUE) <= MaxRawNodes
    /\ \A n \in Widths(t) : n <= MaxCollection

(* projectKernelProgram: the calculus decodes what it is given once more.     *)
DecodesAsTerm(t) == Depth(t, FALSE) <= MaxTermDepth /\ Nodes(t, FALSE) <= MaxTermNodes

CheckDocument(t) == IF DecodesAsTerm(t) THEN Check(t) ELSE Rejected("checker.invalid-input")

-----------------------------------------------------------------------------
(* The table of types: an entry for every different type, its parts before it.*)
TypeParts(type) ==
    CASE type.k = "pair" -> <<type.first, type.second>>
      [] type.k = "thunk" -> <<type.computation>>
      [] type.k = "return" -> <<type.value>>
      [] type.k = "function" -> <<type.parameter, type.result>>
      [] OTHER -> << >>

(* A sequence without the elements it has had before.                         *)
FirstMet(s) ==
    LET firsts == SelectSeq([i \in DOMAIN s |-> i], LAMBDA i : \A j \in 1..(i - 1) : s[j] # s[i])
    IN [n \in DOMAIN firsts |-> s[firsts[n]]]

(* Interner.type: the parts of a type are entered before it.                  *)
RECURSIVE PartsFirst(_)
PartsFirst(type) ==
    FlattenSeq([i \in DOMAIN TypeParts(type) |-> PartsFirst(TypeParts(type)[i])]) \o <<type>>
Interned(types) == FirstMet(FlattenSeq([i \in DOMAIN types |-> PartsFirst(types[i])]))

Place(interned, type) == SelectInSeq(interned, LAMBDA t : t = type)
Places(interned, types) == [i \in DOMAIN types |-> Place(interned, types[i])]

Entry(interned, type) ==
    [k |-> type.k, parts |-> Places(interned, TypeParts(type)),
     effects |-> UNION Rows(type), grade |-> IF "grade" \in DOMAIN type THEN type.grade ELSE "0"]

(* The types of the resumptions of a judgment: what each takes and returns.   *)
ResumptionTypes(resumptions) ==
    FlattenSeq([i \in DOMAIN resumptions |-> <<resumptions[i].input, resumptions[i].output>>])

(* translateJudgment: the types it interns, in order.                         *)
Written_ResumptionsFirst(j) == ResumptionTypes(j.resumptions) \o j.context \o <<j.type>>
Written(j) == j.context \o ResumptionTypes(j.resumptions) \o <<j.type>>

(* observeCheckedKernelDocument: the observation of an accepted check.        *)
Observe(judgments) ==
    LET interned == Interned(FirstMet(FlattenSeq([i \in DOMAIN judgments |-> Written(judgments[i])])))
        types == [n \in DOMAIN interned |-> Entry(interned, interned[n])]
        Effects(j) == j.effects \cup UNION {r.effects : r \in Range(j.resumptions)}
    IN [types |-> types,
        inferred |-> Place(interned, judgments[1].type),
        labels |-> UNION {Effects(j) : j \in Range(judgments)} \cup UNION {e.effects : e \in Range(types)},
        judgments |-> [i \in DOMAIN judgments |->
            LET j == judgments[i]
            IN [rule |-> j.rule, usage |-> j.usage, effects |-> j.effects,
                context |-> Places(interned, j.context),
                resumptions |-> Places(interned, ResumptionTypes(j.resumptions)),
                type |-> Place(interned, j.type),
                premises |-> [p \in DOMAIN j.premises |-> i + j.premises[p]]]]]

-----------------------------------------------------------------------------
(* ObservationDecoder: what an observation must be to be read.                *)

(* typeTable: parts before wholes, nothing twice.                             *)
WellOrdered(types) == \A i \in DOMAIN types : \A p \in Range(types[i].parts) : p < i
Shared(types) == \A i, j \in DOMAIN types : types[i] = types[j] => i = j

(* verifyTraversalOrder: read in the order of the references, the entries are *)
(* met for the first time in the order of the table.                          *)
RECURSIVE Visit(_, _)
Visit(types, i) == FlattenSeq([p \in DOMAIN types[i].parts |-> Visit(types, types[i].parts[p])]) \o <<i>>
MetInOrder(o) ==
    LET Read(j) == j.context \o j.resumptions \o <<j.type>>
        references == <<o.inferred>> \o FlattenSeq([i \in DOMAIN o.judgments |-> Read(o.judgments[i])])
        visited == FlattenSeq([n \in DOMAIN FirstMet(references) |-> Visit(o.types, FirstMet(references)[n])])
    IN FirstMet(visited) = [i \in DOMAIN o.types |-> i]

JudgmentReads(o, i) ==
    LET j == o.judgments[i]
    IN /\ \A n \in {Len(j.context), Len(j.resumptions) \div 2, Len(j.usage)} : n <= MaxContext
       /\ Range(j.context) \cup Range(j.resumptions) \cup {j.type} \subseteq DOMAIN o.types
       /\ j.effects \subseteq o.labels
       /\ \A p \in Range(j.premises) : i < p /\ p <= Len(o.judgments)

Reads(o) ==
    /\ Len(o.types) <= MaxTypeNodes
    /\ WellOrdered(o.types) /\ Shared(o.types)
    /\ \A e \in Range(o.types) : e.effects \subseteq o.labels
    /\ Len(o.judgments) \in 1..MaxJudgments
    /\ \A i \in DOMAIN o.judgments : JudgmentReads(o, i)
    /\ o.judgments[1].type = o.inferred
    /\ MetInOrder(o)

-----------------------------------------------------------------------------
(* What a reader makes of an observation: the types, the derivation.          *)
RECURSIVE TypeRead(_, _), DerivationRead(_, _), DerivationOf(_)
TypeRead(types, at) ==
    LET e == types[at]
        Part(i) == TypeRead(types, e.parts[i])
    IN CASE e.k = "pair" -> PairType(Part(1), Part(2))
         [] e.k = "thunk" -> ThunkType(e.effects, Part(1))
         [] e.k = "return" -> ReturnType(e.grade, Part(1))
         [] e.k = "function" -> FunctionType(Part(1), e.grade, e.effects, Part(2))
         [] OTHER -> [k |-> e.k]

DerivationRead(o, i) ==
    <<o.judgments[i].rule>> \o [p \in DOMAIN o.judgments[i].premises |->
                                   DerivationRead(o, o.judgments[i].premises[p])]

(* The derivation a term should have: a premise for each of its parts.        *)
Subterms(t) ==
    LET fields == SelectSeq(<<"bound", "arg", "first", "second", "body">>, LAMBDA f : f \in DOMAIN t)
        clauses == ClausesOf(t)
        ops == SetToSeq(DOMAIN clauses)
    IN [i \in DOMAIN fields |-> t[fields[i]]] \o [i \in DOMAIN ops |-> clauses[ops[i]]]
DerivationOf(t) == <<t.k>> \o [i \in DOMAIN Subterms(t) |-> DerivationOf(Subterms(t)[i])]
=============================================================================
