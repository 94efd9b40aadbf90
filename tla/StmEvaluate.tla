----------------------------- MODULE StmEvaluate -----------------------------
(* The interpreter of transaction descriptions (src/src/stm/model.ts,         *)
(* "evaluate"): a description is data, a sequence of instructions and a       *)
(* result expression, and one evaluation of it reads a fixed store, stages    *)
(* its writes in a journal and ends in success, retry or a typed abort.       *)
(* Stm takes what it needs of it as a constant operator. The two functions of *)
(* the code that call themselves do so here through a constant each, which    *)
(* stands for the operator itself: no definition is recursive, StmSound says  *)
(* what of that a proof relies on, and a run gives the evaluator itself as    *)
(* often as its descriptions nest.                                            *)
EXTENDS Integers, Sequences, SequencesExt

CONSTANTS
    EvalOperand(_, _),         \* EvalExpression, of an operand
    InterpretInner(_, _, _)    \* Interpret, of a description in another

NoBind == "unbound"

(* Operators named X_Fault are faulty versions of X, used only as mutations. *)

(* Expressions: a value, a binding, or an operation on two expressions. *)
Literal(v)      == [kind |-> "literal", value |-> v]
Binding(n)      == [kind |-> "binding", name |-> n]
Binary(k, l, r) == [kind |-> k, left |-> l, right |-> r]

EvalExpression(e, bindings) ==
    IF e.kind = "literal" THEN e.value
    ELSE IF e.kind = "binding" THEN bindings[e.name]
    ELSE LET left  == EvalOperand(e.left, bindings)
             right == EvalOperand(e.right, bindings)
         IN CASE e.kind = "equal"        -> left = right
              [] e.kind = "greater_than" -> left > right
              [] e.kind = "add"          -> left + right
              [] e.kind = "subtract"     -> left - right

(* The description constructors. *)
Txn(instructions, result) == [instructions |-> instructions, result |-> result]
Read(c, n)     == Txn(<<[op |-> "read", cell |-> c, bind |-> n]>>, Binding(n))
Write(c, e)    == Txn(<<[op |-> "write", cell |-> c, value |-> e]>>, Literal(0))
AfterCommit(x) == Txn(<<[op |-> "after_commit", action |-> x]>>, Literal(0))
Abort(xs)      == Txn(<<[op |-> "abort", actions |-> xs]>>, Literal(0))
Retry          == Txn(<<[op |-> "retry"]>>, Literal(0))
Sequence(parts, result) ==
    Txn(FlattenSeq([i \in DOMAIN parts |-> parts[i].instructions]), result)
Nested(t, n) ==
    Txn(<<[op |-> "nested", transaction |-> t, bind |-> n]>>,
        IF n = NoBind THEN t.result ELSE Binding(n))
OrElse(l, r, n) ==
    Txn(<<[op |-> "or_else", left |-> l, right |-> r, bind |-> n]>>, Binding(n))
When(e, t, f, n) ==
    Txn(<<[op |-> "when", condition |-> e, ifTrue |-> t, ifFalse |-> f, bind |-> n]>>,
        IF n = NoBind THEN Literal(0) ELSE Binding(n))

(* The attempt's context. A cell's observation is its value and version in   *)
(* the store the attempt began from, so the set of observed cells is all of  *)
(* it that evaluation decides.                                                *)
EmptyContext ==
    [bindings |-> [n \in {} |-> 0], reads |-> {}, writes |-> [c \in {} |-> 0],
     dependencies |-> {}, actions |-> <<>>]

Bind(context, n, v) ==
    IF n = NoBind THEN context
    ELSE [bindings |-> [m \in DOMAIN context.bindings \cup {n} |-> IF m = n THEN v ELSE context.bindings[m]],
          reads |-> context.reads, writes |-> context.writes,
          dependencies |-> context.dependencies, actions |-> context.actions]

Running(context)            == [kind |-> "running", context |-> context]
Success(context, v)         == [kind |-> "success", context |-> context, value |-> v]
Retrying(context, cells)    == [kind |-> "retry", context |-> context, dependencies |-> cells]
TypedAbort(context, actions) == [kind |-> "typed_abort", context |-> context, actions |-> actions]

PerformRead(i, values, context) ==
    LET staged == i.cell \in DOMAIN context.writes
        seen   == IF staged THEN context.writes[i.cell] ELSE values[i.cell]
    IN Running([Bind(context, i.bind, seen) EXCEPT
                   !.reads        = IF staged THEN @ ELSE @ \cup {i.cell},
                   !.dependencies = @ \cup {i.cell}])

PerformWrite(i, context) ==
    LET v == EvalExpression(i.value, context.bindings)
    IN Running([context EXCEPT
                   !.reads  = @ \cup {i.cell},
                   !.writes = [c \in DOMAIN @ \cup {i.cell} |-> IF c = i.cell THEN v ELSE @[c]]])

(* A branch's success continues the caller with its value bound; its retry   *)
(* or abort is the caller's.                                                  *)
Continue(branch, n) ==
    IF branch.kind = "success" THEN Running(Bind(branch.context, n, branch.value)) ELSE branch

(* The right alternative starts from the branch's input, not from what the   *)
(* retrying left one left behind.                                             *)
RightInput_AfterLeft(context, left) == left.context
RightInput(context, left) == context

(* Both alternatives retried: the caller's journal keeps its own entries and *)
(* gains the observations its suspension will wait on.                        *)
BothRetry(context, left, right) ==
    LET cells == left.dependencies \cup right.dependencies
    IN Retrying([bindings |-> context.bindings, reads |-> context.reads \cup cells,
                 writes |-> context.writes, dependencies |-> context.dependencies \cup cells,
                 actions |-> context.actions], cells)

Perform(i, values, context) ==
    CASE i.op = "read"         -> PerformRead(i, values, context)
      [] i.op = "write"        -> PerformWrite(i, context)
      [] i.op = "after_commit" -> Running([context EXCEPT !.actions = Append(@, i.action)])
      [] i.op = "abort"        -> TypedAbort(context, i.actions)
      [] i.op = "retry"        -> Retrying(context, context.dependencies)
      [] i.op = "nested"       -> Continue(InterpretInner(i.transaction, values, context), i.bind)
      [] i.op = "when"         ->
            Continue(InterpretInner(IF EvalExpression(i.condition, context.bindings)
                                    THEN i.ifTrue ELSE i.ifFalse, values, context), i.bind)
      [] i.op = "or_else"      ->
            LET left  == InterpretInner(i.left, values, context)
                right == InterpretInner(i.right, values, RightInput(context, left))
            IN IF left.kind # "retry" THEN Continue(left, i.bind)
               ELSE IF right.kind = "retry" THEN BothRetry(context, left, right)
               ELSE Continue(right, i.bind)

(* The instructions one after the other, up to one that ends the evaluation.  *)
Step(state, i, values) == IF state.kind = "running" THEN Perform(i, values, state.context) ELSE state
Performed(instructions, values, state) ==
    LET run[k \in 0 .. Len(instructions)] ==
            IF k = 0 THEN state ELSE Step(run[k - 1], instructions[k], values)
    IN run[Len(instructions)]

Interpret(t, values, context) ==
    LET end == Performed(t.instructions, values, Running(context))
    IN IF end.kind = "running"
       THEN Success(end.context, EvalExpression(t.result, end.context.bindings))
       ELSE end

(* What an attempt keeps of an evaluation that starts from an empty journal.  *)
Evaluation(t, values) ==
    LET end == Interpret(t, values, EmptyContext)
    IN [kind         |-> end.kind,
        value        |-> IF end.kind = "success" THEN end.value ELSE 0,
        reads        |-> end.context.reads,
        writes       |-> end.context.writes,
        dependencies |-> IF end.kind = "retry" THEN end.dependencies ELSE {},
        actions      |-> IF end.kind = "success" THEN end.context.actions
                         ELSE IF end.kind = "typed_abort" THEN end.actions ELSE <<>>]
=============================================================================
