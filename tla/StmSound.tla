------------------------------- MODULE StmSound -------------------------------
(* Transactions whose journals tell the whole story: what an evaluation       *)
(* observed decides what it does, and what a retry waits on decides that it   *)
(* retries. A description without orElse has it; one whose orElse took its    *)
(* right branch need not, because the left branch's observations are dropped  *)
(* (see MCStmSkew).                                                           *)
(*                                                                            *)
(* Beside the handler, and sharing no step with it, the interpreter against   *)
(* its law for orElse: somebody writes a prefix and two branches, part by     *)
(* part, and each such description is evaluated on every store.               *)
EXTENDS Stm, SequencesExt

CONSTANTS
    EvalOperand(_, _),         \* StmEvaluate's evaluators of operands
    InterpretInner(_, _, _),   \* and of descriptions in others
    Parts,                     \* what a description is written from: instructions
    Openings, Branches,        \* bounds: the prefixes and branches that are written
    Stores                     \* the cells' values to evaluate on

VARIABLES prefix, left, right      \* sequences of instructions

INSTANCE StmEvaluate

programVars == <<prefix, left, right>>

ASSUME ReadsDetermineEvaluation ==
    \A d \in Descriptions, v, w \in [Cells -> Values] :
        (\A c \in Evaluate(d, v).reads : w[c] = v[c]) => Evaluate(d, w) = Evaluate(d, v)

ASSUME DependenciesDetermineRetry ==
    \A d \in Descriptions, v, w \in [Cells -> Values] :
        /\ Evaluate(d, v).kind = "retry"
        /\ \A c \in Evaluate(d, v).dependencies : w[c] = v[c]
        => Evaluate(d, w).kind = "retry"

-----------------------------------------------------------------------------
(* The law's descriptions are sequences of instructions, and the evaluator    *)
(* evaluates a branch inside orElse as it evaluates one anywhere else.        *)
Whole(instructions) == Txn(instructions, Literal(0))

Operations == {"read", "write", "after_commit", "abort", "retry", "nested", "when", "or_else"}

ASSUME WrittenInParts ==
    /\ <<>> \in Openings \cap Branches
    /\ \A p \in Openings \cup Branches : p \in Seq({i \in Range(p) : i.op \in Operations})

ASSUME InnerIsTheSame ==
    \A v \in Stores, p \in Openings, b \in Branches :
        LET context == Performed(p, v, Running(EmptyContext)).context
        IN InterpretInner(Whole(b), v, context) = Interpret(Whole(b), v, context)

ProgramsInit == prefix = <<>> /\ left = <<>> /\ right = <<>>
Extended(instructions) == {instructions \o p : p \in Parts}
ProgramsNext ==
    \/ prefix' \in Extended(prefix) \cap Openings /\ UNCHANGED <<left, right>>
    \/ left' \in Extended(left) \cap Branches /\ UNCHANGED <<prefix, right>>
    \/ right' \in Extended(right) \cap Branches /\ UNCHANGED <<prefix, left>>
ProgramsSpec == ProgramsInit /\ [][ProgramsNext]_programVars

Choice == Whole(prefix \o OrElse(Whole(left), Whole(right), "chosen").instructions)

(* orElse is one of its branches run in place, as if the other were not       *)
(* there: the left unless it retries, then the right from the same journal;   *)
(* and if both retry, a retry that waits on what either waits on. Nothing a   *)
(* retrying branch wrote, observed or noted is left behind.                   *)
OrElseRunsOneBranch ==
    \A v \in Stores :
        LET before == Evaluation(Whole(prefix), v)
            l == Evaluation(Whole(prefix \o left), v)
            r == Evaluation(Whole(prefix \o right), v)
            result == Evaluation(Choice, v)
        IN IF before.kind # "success" THEN result = before
           ELSE IF l.kind # "retry" THEN result = l
           ELSE IF r.kind # "retry" THEN result = r
           ELSE /\ result.kind = "retry"
                /\ result.dependencies = l.dependencies \cup r.dependencies
                /\ result.reads = before.reads \cup result.dependencies
                /\ result.writes = before.writes
=============================================================================
