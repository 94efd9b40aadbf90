--------------------------- MODULE KernelMachine ---------------------------
(* The reference machine of the kernel calculus: control, a stack of frames   *)
(* (innermost last), and one-shot resumptions.  One action for each rule of   *)
(* transition; every step uses one unit of fuel and adds one trace entry.     *)
(*                                                                            *)
(* A run ends with an answer; one that is suspended goes on when its external *)
(* resumption is given a value.  Occurrence paths and snapshots are left out. *)
EXTENDS KernelTerms, FiniteSets

CONSTANT MaxTrace       \* maximumTraceEntries

VARIABLES
    control,            \* a term with its environment, or a result
    frames,             \* let, apply and handler frames
    issued,             \* resumptions created so far (nextIdentity - 1)
    consumed,           \* identities of the internal resumptions used up
    fuel,               \* transitions left
    traced,             \* entries of the trace
    answer              \* how the run ended, or NoAnswer

machineVars == <<control, frames, issued, consumed, fuel, traced, answer>>

-----------------------------------------------------------------------------
(* Values and environments.                                                   *)
RECURSIVE EvaluateValue(_, _)
EvaluateValue(t, env) ==
    CASE t.k = "var" -> IF t.index < Len(env.values) THEN env.values[t.index + 1] ELSE Unbound
      [] t.k \in {"unit", "int"} -> t
      [] t.k = "pair" ->
            LET first == EvaluateValue(t.first, env)
                second == EvaluateValue(t.second, env)
            IN IF Unbound \in {first, second} THEN Unbound ELSE PairTerm(first, second)
      [] t.k = "thunk" ->
            IF t.type.k = "thunk"
            THEN [k |-> "thunk", body |-> t.body, env |-> env, type |-> t.type]
            ELSE Unbound

RECURSIVE HasType(_, _)
HasType(v, type) ==
    /\ v.k = type.k
    /\ v.k = "pair" => HasType(v.first, type.first) /\ HasType(v.second, type.second)
    /\ v.k = "thunk" => v.type = type

Bind(env, v) == [env EXCEPT !.values = <<v>> \o @]
Term(t, env) == [k |-> "term", t |-> t, env |-> env]
Result(v) == [k |-> "result", value |-> v]
AtTerm(kind) == control.k = "term" /\ control.t.k = kind
AtFrame(kind) == control.k = "result" /\ frames # << >> /\ Last(frames).k = kind
Argument == EvaluateValue(control.t.arg, control.env)

(* The innermost handler of a label, 0 when there is none.                    *)
HandlerOf(label) ==
    SelectLastInSeq(frames, LAMBDA f : f.k = "handler" /\ f.label = label)

-----------------------------------------------------------------------------
(* Every rule is a step of a run that has fuel and room for a trace entry.    *)
Running == answer = NoAnswer
MayStep == Running /\ fuel > 0 /\ traced < MaxTrace
Step == MayStep /\ fuel' = fuel - 1 /\ traced' = traced + 1
Goto(c) == control' = c /\ UNCHANGED answer
Finish(a) == answer' = a /\ UNCHANGED <<control, frames, issued, consumed>>
SameTokens == UNCHANGED <<issued, consumed>>

Complete ==
    /\ Step
    /\ control.k = "result" /\ frames = << >>
    /\ Finish(Returned(control.value))

(* A result meets a let or a handler frame: its value is bound.               *)
BindResult ==
    /\ Step
    /\ AtFrame("let") \/ AtFrame("handler")
    /\ control.value.k # "function"
    /\ Goto(Term(Last(frames).body, Bind(Last(frames).env, control.value)))
    /\ frames' = Front(frames)
    /\ SameTokens

ApplyResult ==
    /\ Step
    /\ AtFrame("apply")
    /\ control.value.k = "function"
    /\ LET v == EvaluateValue(Last(frames).arg, Last(frames).env)
       IN /\ v # Unbound
          /\ Goto(Term(control.value.body, Bind(control.value.env, v)))
    /\ frames' = Front(frames)
    /\ SameTokens

ReturnValue ==
    /\ Step
    /\ AtTerm("return")
    /\ Argument # Unbound
    /\ Goto(Result(Argument))
    /\ UNCHANGED frames /\ SameTokens

MakeFunction ==
    /\ Step
    /\ AtTerm("lambda")
    /\ Goto(Result([k |-> "function", body |-> control.t.body, env |-> control.env]))
    /\ UNCHANGED frames /\ SameTokens

ForceThunk ==
    /\ Step
    /\ AtTerm("force")
    /\ Argument.k = "thunk"
    /\ Goto(Term(Argument.body, Argument.env))
    /\ UNCHANGED frames /\ SameTokens

(* let, apply and handle evaluate their first computation under a new frame.  *)
PushFrame ==
    /\ Step
    /\ AtTerm("let") \/ AtTerm("apply") \/ AtTerm("handle")
    /\ Goto(Term(control.t.bound, control.env))
    /\ frames' = Append(frames,
          CASE AtTerm("let") -> [k |-> "let", body |-> control.t.body, env |-> control.env]
            [] AtTerm("apply") -> [k |-> "apply", arg |-> control.t.arg, env |-> control.env]
            [] AtTerm("handle") -> [k |-> "handler", label |-> control.t.label,
                                    body |-> control.t.body, clauses |-> control.t.clauses,
                                    env |-> control.env])
    /\ SameTokens

(* The frames a clause runs on.                                               *)
FramesBelow_KeepsHandler(h) == SubSeq(frames, 1, h)
FramesBelow(h) == SubSeq(frames, 1, h - 1)

(* An operation under a handler: the frames above the handler are captured in *)
(* a fresh resumption, and the handler with them is gone while the clause runs.*)
HandleOperation ==
    /\ Step
    /\ AtTerm("operation")
    /\ Argument # Unbound
    /\ LET h == HandlerOf(control.t.label)
           handler == frames[h]
           token == [id |-> issued + 1, type |-> Declaration(control.t.label, control.t.op).result,
                     handler |-> handler, captured |-> SubSeq(frames, h + 1, Len(frames))]
       IN /\ h # 0
          /\ control.t.op \in DOMAIN handler.clauses
          /\ Goto(Term(handler.clauses[control.t.op],
                       [values |-> <<Argument>> \o handler.env.values,
                        resumptions |-> <<token>> \o handler.env.resumptions]))
          /\ frames' = FramesBelow(h)
    /\ issued' = issued + 1
    /\ UNCHANGED consumed

(* An operation no handler is there for: the run ends and asks its caller.    *)
SuspendOperation ==
    /\ Step
    /\ AtTerm("operation")
    /\ Argument # Unbound
    /\ HandlerOf(control.t.label) = 0
    /\ answer' = Suspended(Request(control.t.label, control.t.op, Argument))
    /\ control' = Result(UnitTerm)
    /\ issued' = issued + 1
    /\ UNCHANGED <<frames, consumed>>

(* resume: the value is checked, then the resumption is used up, and its      *)
(* handler and the frames it captured are put back on the clause's frames.    *)
Resumed == control.env.resumptions[control.t.index + 1]
ResumptionFault ==
    IF control.t.index >= Len(control.env.resumptions) \/ Argument = Unbound
        THEN "runtime.invalid-resumption"
    ELSE IF ~HasType(Argument, Resumed.type) THEN "resumption.result-type-mismatch"
    ELSE IF Resumed.id \in consumed THEN "resumption.already-used"
    ELSE "none"

ResumeToken ==
    /\ Step
    /\ AtTerm("resume")
    /\ ResumptionFault = "none"
    /\ Goto(Result(Argument))
    /\ frames' = frames \o <<Resumed.handler>> \o Resumed.captured
    /\ consumed' = consumed \cup {Resumed.id}
    /\ UNCHANGED issued

(* Where no rule applies the run is rejected.                                 *)
Fault ==
    CASE control.k = "result" ->
            IF frames = << >> THEN "none"
            ELSE IF Last(frames).k # "apply"
            THEN IF control.value.k = "function" THEN "runtime.expected-value" ELSE "none"
            ELSE IF control.value.k # "function" THEN "runtime.expected-function"
            ELSE IF EvaluateValue(Last(frames).arg, Last(frames).env) = Unbound
            THEN "runtime.invalid-closure" ELSE "none"
      [] AtTerm("return") -> IF Argument = Unbound THEN "runtime.invalid-value" ELSE "none"
      [] AtTerm("force") -> IF Argument.k # "thunk" THEN "runtime.expected-thunk" ELSE "none"
      [] AtTerm("operation") ->
            IF Argument = Unbound THEN "runtime.invalid-operation"
            ELSE IF HandlerOf(control.t.label) = 0 THEN "none"
            ELSE IF control.t.op \notin DOMAIN frames[HandlerOf(control.t.label)].clauses
            THEN "runtime.missing-handler-clause" ELSE "none"
      [] AtTerm("resume") -> ResumptionFault
      [] OTHER -> "none"

Reject ==
    /\ Step
    /\ Fault # "none"
    /\ Finish(RuntimeRejected(Fault))

(* A bound ends the run before its next step; fuel is looked at first.        *)
Exhaust ==
    /\ Running
    /\ ~MayStep
    /\ Finish(Exhausted(IF fuel = 0 THEN "fuel" ELSE "trace"))
    /\ UNCHANGED <<fuel, traced>>

MachineStep ==
    \/ Complete \/ BindResult \/ ApplyResult \/ ReturnValue \/ MakeFunction \/ ForceThunk
    \/ PushFrame \/ HandleOperation \/ SuspendOperation \/ ResumeToken \/ Reject \/ Exhaust

(* evaluate: a checked program starts with no frames and nothing in scope.    *)
MachineIdle(bound) ==
    /\ control = Result(UnitTerm)
    /\ frames = << >>
    /\ issued = 0
    /\ consumed = {}
    /\ fuel = bound
    /\ traced = 0
    /\ answer = NoAnswer
Evaluate(t) ==
    /\ control' = Term(t, [values |-> << >>, resumptions |-> << >>])
    /\ UNCHANGED <<frames, issued, consumed, fuel, traced, answer>>

(* resume of the external resumption: its run goes on with new fuel, the same *)
(* trace, and the value where the operation was.                              *)
ResumeExternal(v, bound) ==
    /\ answer.tag = "suspended"
    /\ HasType(v, answer.request.type)
    /\ control' = Result(v)
    /\ answer' = NoAnswer
    /\ fuel' = bound
    /\ UNCHANGED <<frames, issued, consumed, traced>>
=============================================================================
