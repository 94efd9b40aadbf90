---------------------------- MODULE KernelTerms ----------------------------
(* The syntax of the kernel calculus: value and computation types, value and *)
(* computation terms with de Bruijn indices, grades, and what a run shows of  *)
(* a runtime value.  Labels, operations and literals are drawn from small     *)
(* sets by the modules that use these constructors.                           *)
EXTENDS Naturals, Sequences, SequencesExt

CONSTANT Signature      \* the operations: a sequence of [label, op, argument, result]

Declared(label, op) ==
    {i \in DOMAIN Signature : Signature[i].label = label /\ Signature[i].op = op}
Declaration(label, op) == Signature[CHOOSE i \in Declared(label, op) : TRUE]
OperationsOf(label) == {Signature[i].op : i \in {j \in DOMAIN Signature : Signature[j].label = label}}

-----------------------------------------------------------------------------
(* Grades: how often a value may be used.                                     *)
Grades == {"0", "1", "omega"}

GradeAtMost(g, h) == g = h \/ g = "0" \/ h = "omega"

AddGrades(g, h) == IF g = "0" THEN h ELSE IF h = "0" THEN g ELSE "omega"

MultiplyGrades(g, h) ==
    IF "0" \in {g, h} THEN "0" ELSE IF "omega" \in {g, h} THEN "omega" ELSE "1"

AtLeastOnce(g) == IF g = "0" THEN "1" ELSE g

(* A usage vector has one grade for each binder in scope, innermost first.    *)
ZeroUsage(n) == [i \in 1..n |-> "0"]
BasisUsage(n, index) == [i \in 1..n |-> IF i = index + 1 THEN "1" ELSE "0"]
AddUsage(u, w) == [i \in DOMAIN u |-> AddGrades(u[i], w[i])]
ScaleUsage(g, u) == [i \in DOMAIN u |-> MultiplyGrades(g, u[i])]

-----------------------------------------------------------------------------
(* Types.  An effect row is the set of its labels.                            *)
UnitType == [k |-> "unit"]
IntType == [k |-> "int"]
PairType(a, b) == [k |-> "pair", first |-> a, second |-> b]
ThunkType(effects, c) == [k |-> "thunk", effects |-> effects, computation |-> c]
ReturnType(g, a) == [k |-> "return", grade |-> g, value |-> a]
FunctionType(a, g, effects, c) ==
    [k |-> "function", parameter |-> a, grade |-> g, effects |-> effects, result |-> c]

RECURSIVE ContainsThunk(_)
ContainsThunk(type) ==
    \/ type.k = "thunk"
    \/ type.k = "pair" /\ (ContainsThunk(type.first) \/ ContainsThunk(type.second))

-----------------------------------------------------------------------------
(* Terms.  A thunk carries the type the checker records for it (valueTypes);  *)
(* in a term that is not checked yet the type is Untyped.                     *)
Untyped == [k |-> "untyped"]

Var(i) == [k |-> "var", index |-> i]
UnitTerm == [k |-> "unit"]
IntTerm(n) == [k |-> "int", literal |-> n]
PairTerm(a, b) == [k |-> "pair", first |-> a, second |-> b]
Thunk(c) == [k |-> "thunk", body |-> c, type |-> Untyped]
ResumptionTerm(i) == [k |-> "resumption", index |-> i]

Return(g, v) == [k |-> "return", grade |-> g, arg |-> v]
Let(bound, body) == [k |-> "let", bound |-> bound, body |-> body]
Force(v) == [k |-> "force", arg |-> v]
Lambda(type, g, body) == [k |-> "lambda", parameter |-> type, grade |-> g, body |-> body]
Apply(c, v) == [k |-> "apply", bound |-> c, arg |-> v]
Operation(g, label, op, v) ==
    [k |-> "operation", grade |-> g, label |-> label, op |-> op, arg |-> v]
Handle(label, c, return, clauses) ==
    [k |-> "handle", label |-> label, bound |-> c, body |-> return, clauses |-> clauses]
Resume(i, v) == [k |-> "resume", index |-> i, arg |-> v]

-----------------------------------------------------------------------------
(* What an observation shows of a runtime value: the closures stay inside.    *)
RECURSIVE Observable(_)
Observable(v) ==
    CASE v.k \in {"thunk", "function"} -> [k |-> v.k]
      [] v.k = "pair" -> PairTerm(Observable(v.first), Observable(v.second))
      [] OTHER -> v

(* The shape the observed value of a result of that type must have.           *)
RECURSIVE Shaped(_, _)
Shaped(v, type) ==
    /\ v.k = type.k
    /\ v.k = "pair" => Shaped(v.first, type.first) /\ Shaped(v.second, type.second)

-----------------------------------------------------------------------------
(* How a run of either backend ends.                                          *)
NoAnswer == [tag |-> "running"]
Returned(v) == [tag |-> "returned", value |-> v]
RuntimeRejected(code) == [tag |-> "runtime-rejected", code |-> code]
Exhausted(reason) == [tag |-> "inconclusive", reason |-> reason]
Suspended(request) == [tag |-> "suspended", request |-> request]

(* What a suspended run asks its caller for.                                  *)
Request(label, op, v) ==
    [label |-> label, op |-> op, argument |-> Observable(v), type |-> Declaration(label, op).result]

Unbound == [k |-> "unbound"]        \* no value: a name with no binding
=============================================================================
