--------------------------- MODULE KernelChecker ---------------------------
(* The algorithmic checker of the kernel calculus: it infers a type, an       *)
(* effect row and the usage of every binder, or rejects with a code.          *)
(*                                                                            *)
(* A result carries the term again with the type of every thunk recorded in   *)
(* it: the checker's valueTypes map, which the machine consults; and the      *)
(* judgments of the term and its parts, in preorder.  Derivations, which say  *)
(* the same, are left out; so are paths, usage limits and signature origins.  *)
EXTENDS KernelTerms, FiniteSets

Rejected(code) == [ok |-> FALSE, code |-> code]
Computation(type, effects, usage, resumptions, term, premises) ==
    [ok |-> TRUE, type |-> type, effects |-> effects, usage |-> usage,
     resumptions |-> resumptions, term |-> term, premises |-> premises]
Value(type, usage, resumptions, term, premises) ==
    Computation(type, {}, usage, resumptions, term, premises)

(* What is judged of a term, before the judgments of its parts; where each    *)
(* premise is, counted from it.                                               *)
Judged(t, context, resumptions, r) ==
    LET tables == [i \in DOMAIN r.premises |-> r.premises[i].judgments]
        own == [rule |-> t.k, context |-> context, resumptions |-> resumptions, type |-> r.type,
                effects |-> r.effects, usage |-> r.usage,
                premises |-> [i \in DOMAIN tables |->
                                 1 + Len(FlattenSeq(SubSeq(tables, 1, i - 1)))]]
    IN IF ~r.ok THEN r
       ELSE [ok |-> TRUE, type |-> r.type, effects |-> r.effects, usage |-> r.usage,
             resumptions |-> r.resumptions, term |-> r.term,
             judgments |-> <<own>> \o FlattenSeq(tables)]

(* A binder used more than its limit allows.                                  *)
Overused(limit, actual) ==
    Rejected(IF limit = "1" /\ actual = "omega" THEN "usage.affine-duplicated"
                                                ELSE "usage.exceeds-grade")

RECURSIVE CheckValue(_, _, _), CheckComputation(_, _, _), SettleClauses(_, _, _, _, _, _)

(* context: the types of the value binders; resumptions: what each resumption *)
(* binder accepts, returns and performs.  Innermost binder first.             *)
ValueUnchecked(t, context, resumptions) ==
    LET none == ZeroUsage(Len(context))
        unresumed == ZeroUsage(Len(resumptions))
    IN CASE t.k = "var" ->
              IF t.index >= Len(context) THEN Rejected("scope.variable-out-of-range")
              ELSE Value(context[t.index + 1], BasisUsage(Len(context), t.index), unresumed, t, << >>)
         [] t.k = "unit" -> Value(UnitType, none, unresumed, t, << >>)
         [] t.k = "int" -> Value(IntType, none, unresumed, t, << >>)
         [] t.k = "pair" ->
              LET first == CheckValue(t.first, context, resumptions)
                  second == CheckValue(t.second, context, resumptions)
              IN IF ~first.ok THEN first
                 ELSE IF ~second.ok THEN second
                 ELSE Value(PairType(first.type, second.type), AddUsage(first.usage, second.usage),
                            AddUsage(first.resumptions, second.resumptions),
                            PairTerm(first.term, second.term), <<first, second>>)
         [] t.k = "thunk" ->
              LET body == CheckComputation(t.body, context, resumptions)
                  type == ThunkType(body.effects, body.type)
              IN IF ~body.ok THEN body
                 ELSE Value(type, body.usage, body.resumptions,
                            [k |-> "thunk", body |-> body.term, type |-> type], <<body>>)
         [] t.k = "resumption" -> Rejected("resumption.escape")

CheckValue(t, context, resumptions) ==
    Judged(t, context, resumptions, ValueUnchecked(t, context, resumptions))

CheckReturn(t, context, resumptions) ==
    LET v == CheckValue(t.arg, context, resumptions)
    IN IF ~v.ok THEN v
       ELSE Computation(ReturnType(t.grade, v.type), {}, ScaleUsage(t.grade, v.usage),
                        ScaleUsage(t.grade, v.resumptions), Return(t.grade, v.term), <<v>>)

(* The bound computation runs once, but what it returns is used as often as   *)
(* the body's result is: its usage is scaled by the body's grade.             *)
CheckLet(t, context, resumptions) ==
    LET bound == CheckComputation(t.bound, context, resumptions)
        body == CheckComputation(t.body, <<bound.type.value>> \o context, resumptions)
        times == AtLeastOnce(body.type.grade)
        limit == MultiplyGrades(bound.type.grade, times)
    IN IF ~bound.ok THEN bound
       ELSE IF bound.type.k # "return" THEN Rejected("type.expected-return")
       ELSE IF ~body.ok THEN body
       ELSE IF body.type.k # "return" THEN Rejected("type.expected-return")
       ELSE IF ~GradeAtMost(body.usage[1], limit) THEN Overused(limit, body.usage[1])
       ELSE Computation(body.type, bound.effects \cup body.effects,
                        AddUsage(ScaleUsage(times, bound.usage), Tail(body.usage)),
                        AddUsage(ScaleUsage(times, bound.resumptions), body.resumptions),
                        Let(bound.term, body.term), <<bound, body>>)

CheckForce(t, context, resumptions) ==
    LET v == CheckValue(t.arg, context, resumptions)
    IN IF ~v.ok THEN v
       ELSE IF v.type.k # "thunk" THEN Rejected("type.expected-thunk")
       ELSE Computation(v.type.computation, v.type.effects, v.usage, v.resumptions, Force(v.term),
                        <<v>>)

CheckLambda(t, context, resumptions) ==
    LET body == CheckComputation(t.body, <<t.parameter>> \o context, resumptions)
    IN IF ~body.ok THEN body
       ELSE IF ~GradeAtMost(body.usage[1], t.grade) THEN Overused(t.grade, body.usage[1])
       ELSE Computation(FunctionType(t.parameter, t.grade, body.effects, body.type), {},
                        Tail(body.usage), body.resumptions, Lambda(t.parameter, t.grade, body.term),
                        <<body>>)

(* Applying a function performs what its body performs.                       *)
AppliedEffects_LatentForgotten(function) == function.effects
AppliedEffects(function) == function.effects \cup function.type.effects

CheckApply(t, context, resumptions) ==
    LET function == CheckComputation(t.bound, context, resumptions)
        v == CheckValue(t.arg, context, resumptions)
    IN IF ~function.ok THEN function
       ELSE IF function.type.k # "function" THEN Rejected("type.expected-function")
       ELSE IF ~v.ok THEN v
       ELSE IF v.type # function.type.parameter THEN Rejected("type.argument-mismatch")
       ELSE Computation(function.type.result, AppliedEffects(function),
                        AddUsage(function.usage, ScaleUsage(function.type.grade, v.usage)),
                        AddUsage(function.resumptions,
                                 ScaleUsage(function.type.grade, v.resumptions)),
                        Apply(function.term, v.term), <<function, v>>)

(* The argument's usage is not scaled, whatever the handling clause does with *)
(* it and whatever grade the operation returns at.                            *)
CheckOperation(t, context, resumptions) ==
    LET v == CheckValue(t.arg, context, resumptions)
    IN IF Declared(t.label, t.op) = {} THEN Rejected("signature.operation-unknown")
       ELSE IF ~v.ok THEN v
       ELSE IF v.type # Declaration(t.label, t.op).argument
            THEN Rejected("type.operation-argument-mismatch")
       ELSE Computation(ReturnType(t.grade, Declaration(t.label, t.op).result), {t.label},
                        v.usage, v.resumptions, Operation(t.grade, t.label, t.op, v.term), <<v>>)

CheckResume(t, context, resumptions) ==
    LET v == CheckValue(t.arg, context, resumptions)
        expected == resumptions[t.index + 1]
    IN IF t.index >= Len(resumptions) THEN Rejected("scope.resumption-out-of-range")
       ELSE IF ~v.ok THEN v
       ELSE IF v.type # expected.input THEN Rejected("type.resumption-argument-mismatch")
       ELSE Computation(expected.output, expected.effects, v.usage,
                        AddUsage(v.resumptions, BasisUsage(Len(resumptions), t.index)),
                        Resume(t.index, v.term), <<v>>)

(* How often a clause may use its own resumption.                             *)
ResumptionLimit_Unlimited == "omega"
ResumptionLimit == "1"

(* One operation clause of a handler: its argument may be used at will, its   *)
(* resumption at most once, and it returns what the return clause returns.    *)
CheckClause(t, op, context, resumptions, output, assumed) ==
    LET declared == Declaration(t.label, op)
        expected == [input |-> declared.result, output |-> output, effects |-> assumed]
        clause == CheckComputation(t.clauses[op], <<declared.argument>> \o context,
                                   <<expected>> \o resumptions)
    IN IF ~clause.ok THEN clause
       ELSE IF clause.type # output THEN Rejected("type.handler-clause-mismatch")
       ELSE IF ~GradeAtMost(clause.resumptions[1], ResumptionLimit) THEN Rejected("usage.affine-duplicated")
       ELSE clause

(* The clauses are checked under assumed effects until what they perform is   *)
(* what was assumed.  The code stops after one round more than the signature  *)
(* has operations; the effects grow in every round before the last.           *)
SettleClauses(t, context, resumptions, output, base, assumed) ==
    LET clauses == [op \in DOMAIN t.clauses |->
                        CheckClause(t, op, context, resumptions, output, assumed)]
        failing == {op \in DOMAIN clauses : ~clauses[op].ok}
        next == base \cup UNION {clauses[op].effects : op \in DOMAIN clauses}
    IN IF failing # {} THEN clauses[CHOOSE op \in failing : TRUE]
       ELSE IF next = assumed THEN [ok |-> TRUE, clauses |-> clauses, effects |-> assumed]
       ELSE SettleClauses(t, context, resumptions, output, base, next)

(* What the clauses use of the enclosing binders is added once, although a    *)
(* deep handler runs its clause at every operation of the handled computation.*)
HandleJudged(t, handled, returned, settled) ==
    LET ops == SetToSeq(DOMAIN t.clauses)
        use == FoldLeft(AddUsage, AddUsage(handled.usage, Tail(returned.usage)),
                        [i \in DOMAIN ops |-> Tail(settled.clauses[ops[i]].usage)])
        resumed == FoldLeft(AddUsage, AddUsage(handled.resumptions, returned.resumptions),
                            [i \in DOMAIN ops |-> Tail(settled.clauses[ops[i]].resumptions)])
    IN IF ~handled.ok THEN handled
       ELSE IF handled.type.k # "return" THEN Rejected("type.expected-return")
       ELSE IF OperationsOf(t.label) = {} THEN Rejected("handler.label-unknown")
       ELSE IF DOMAIN t.clauses # OperationsOf(t.label) THEN Rejected("handler.clauses-inexact")
       ELSE IF ~returned.ok THEN returned
       ELSE IF returned.type.k # "return" THEN Rejected("type.expected-return")
       ELSE IF returned.type.grade # handled.type.grade THEN Rejected("type.handler-grade-mismatch")
       ELSE IF ~GradeAtMost(returned.usage[1], handled.type.grade)
            THEN Overused(handled.type.grade, returned.usage[1])
       ELSE IF ~settled.ok THEN settled
       ELSE Computation(returned.type, settled.effects, use, resumed,
                        Handle(t.label, handled.term, returned.term,
                               [op \in DOMAIN t.clauses |-> settled.clauses[op].term]),
                        <<handled, returned>> \o [i \in DOMAIN ops |-> settled.clauses[ops[i]]])

CheckHandle(t, context, resumptions) ==
    LET handled == CheckComputation(t.bound, context, resumptions)
        returned == CheckComputation(t.body, <<handled.type.value>> \o context, resumptions)
        base == (handled.effects \ {t.label}) \cup returned.effects
    IN HandleJudged(t, handled, returned,
                    SettleClauses(t, context, resumptions, returned.type, base, base))

ComputationUnchecked(t, context, resumptions) ==
    CASE t.k = "return" -> CheckReturn(t, context, resumptions)
      [] t.k = "let" -> CheckLet(t, context, resumptions)
      [] t.k = "force" -> CheckForce(t, context, resumptions)
      [] t.k = "lambda" -> CheckLambda(t, context, resumptions)
      [] t.k = "apply" -> CheckApply(t, context, resumptions)
      [] t.k = "operation" -> CheckOperation(t, context, resumptions)
      [] t.k = "handle" -> CheckHandle(t, context, resumptions)
      [] t.k = "resume" -> CheckResume(t, context, resumptions)

CheckComputation(t, context, resumptions) ==
    Judged(t, context, resumptions, ComputationUnchecked(t, context, resumptions))

(* A whole program is a closed computation.                                   *)
Check(t) == CheckComputation(t, << >>, << >>)
=============================================================================
