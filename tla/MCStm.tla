-------------------------------- MODULE MCStm --------------------------------
(* Two cells and seven descriptions: read-modify-write, a swap, two that each *)
(* write one cell or abort on what they read in the other, a wait, and        *)
(* alternatives that can both retry (whose left branch reads only what was    *)
(* read before it).  Beside the handler, as a part of its own that shares no  *)
(* step with it, the interpreter against its law for orElse, over every       *)
(* description built from the parts below.                                    *)
EXTENDS StmSound

VARIABLES part

(* The evaluator, given itself as often as these descriptions nest: an arm in *)
(* a branch is as deep as they go, and operands have no operands.             *)
DeeperOperand(e, bindings) == Assert(FALSE, "an expression in an operand")
DeeperInner(t, values, context) == Assert(FALSE, "a description nested more than twice")
Arm == INSTANCE StmEvaluate WITH EvalOperand <- DeeperOperand, InterpretInner <- DeeperInner
Branch == INSTANCE StmEvaluate WITH EvalOperand <- Arm!EvalExpression, InterpretInner <- Arm!Interpret
MCOperand(e, bindings) == Arm!EvalExpression(e, bindings)
MCInner(t, values, context) == Branch!Interpret(t, values, context)

When0(n, t, f) == When(Binary("equal", Binding(n), Literal(0)), t, f, NoBind)
Skip == Txn(<<>>, Literal(0))
Flip(c, n) == Write(c, Binary("subtract", Literal(1), Binding(n)))

Toggle == Sequence(<<Read("x", "a"), Flip("x", "a"), AfterCommit("toggled")>>, Binding("a"))
Swap == Sequence(<<Read("x", "a"), Read("y", "b"), Write("x", Binding("b")),
                   Write("y", Binding("a"))>>, Literal(0))
BlindOrAbort == Sequence(<<Read("x", "a"),
                           When0("a", Nested(Write("y", Literal(1)), NoBind), Abort(<<"refused">>))>>,
                         Literal(0))
Mirror == Sequence(<<Read("y", "b"),
                     When0("b", Write("x", Literal(1)), Abort(<<"refused">>))>>, Literal(0))
Await == Sequence(<<Write("x", Literal(1)), Read("y", "b"), When0("b", Retry, Skip),
                    Flip("y", "b"), AfterCommit("taken")>>, Literal(0))
Either == Sequence(<<Read("x", "a"),
                     OrElse(Sequence(<<Write("y", Literal(1)), AfterCommit("left"),
                                       When0("a", Retry, Skip)>>, Literal(0)),
                            Sequence(<<Read("y", "b"), When0("b", Retry, Skip), Flip("x", "a")>>,
                                     Literal(1)), "chosen")>>, Binding("chosen"))
Total == Sequence(<<Read("x", "a"), Read("y", "b")>>, Binary("add", Binding("a"), Binding("b")))

Program(d) ==
    CASE d = "toggle" -> Toggle [] d = "swap" -> Swap [] d = "blind" -> BlindOrAbort
                [] d = "mirror" -> Mirror
                [] d = "await" -> Await [] d = "either" -> Either [] d = "total" -> Total
MCEvaluate(d, v) == Evaluation(Program(d), v)

MCInitial == [c \in {"x", "y"} |-> 0]

-----------------------------------------------------------------------------
WhenZero(n, t) == When(Binary("equal", Binding(n), Literal(0)), t, Txn(<<>>, Literal(0)), NoBind)
Flipped == Sequence(<<Read("x", "a"), Write("x", Binary("subtract", Literal(1), Binding("a")))>>, Literal(0))
AwaitCell(c, n) == Sequence(<<Read(c, n), WhenZero(n, Retry)>>, Literal(0))
MCParts ==
    {t.instructions : t \in {Flipped, Write("x", Literal(1)), Write("y", Literal(1)), AfterCommit("noted"),
                             Retry, Abort(<<"refused">>), AwaitCell("x", "a"), AwaitCell("y", "b")}}
MCOpenings == MCParts \cup {<<>>}                              \* up to one part
MCBranches == {p \o q : p \in MCOpenings, q \in MCOpenings}    \* up to two
MCStores == [{"x", "y"} -> {0, 1}]

-----------------------------------------------------------------------------
MCInit == Init /\ ProgramsInit /\ part \in {"handler", "programs"}
MCNext ==
    \/ part = "handler" /\ Next /\ UNCHANGED <<part, programVars>>
    \/ part = "programs" /\ ProgramsNext /\ UNCHANGED <<part, vars>>
MCSpec == MCInit /\ [][MCNext]_<<vars, programVars, part>>
=============================================================================
