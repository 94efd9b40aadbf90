------------------------------ MODULE MCStmSkew ------------------------------
(* Two transactions that each set one cell if the other one's is already set, *)
(* and otherwise the other cell: orElse(x = 0 retries, y := 1) and            *)
(* orElse(y = 0 retries, x := 1). Serially the second sees what the first     *)
(* wrote and writes nothing.                                                  *)
EXTENDS Stm, SequencesExt

CONSTANTS EvalOperand(_, _), InterpretInner(_, _, _)
INSTANCE StmEvaluate

(* The evaluator, given itself as often as these descriptions nest: an arm in *)
(* a branch is as deep as they go, and operands have no operands.             *)
DeeperOperand(e, bindings) == Assert(FALSE, "an expression in an operand")
DeeperInner(t, values, context) == Assert(FALSE, "a description nested more than twice")
Arm == INSTANCE StmEvaluate WITH EvalOperand <- DeeperOperand, InterpretInner <- DeeperInner
Branch == INSTANCE StmEvaluate WITH EvalOperand <- Arm!EvalExpression, InterpretInner <- Arm!Interpret
MCOperand(e, bindings) == Arm!EvalExpression(e, bindings)
MCInner(t, values, context) == Branch!Interpret(t, values, context)

Unset(c, n) == Sequence(<<Read(c, n), When(Binary("equal", Binding(n), Literal(0)),
                                           Retry, Txn(<<>>, Literal(0)), NoBind)>>, Literal(0))
Program(d) ==
    IF d = "setY" THEN OrElse(Unset("x", "a"), Write("y", Literal(1)), "chosen")
                  ELSE OrElse(Unset("y", "b"), Write("x", Literal(1)), "chosen")
MCEvaluate(d, v) == Evaluation(Program(d), v)
MCInitial == [c \in {"x", "y"} |-> 0]
=============================================================================
