------------------------------ MODULE KernelVm ------------------------------
(* The second backend of the kernel: a compiler from checked terms to blocks  *)
(* of instructions, and the stack machine that runs them.                     *)
(*                                                                            *)
(* let and handle are compiled in line, into the block of the computation     *)
(* around them; thunks, functions and the clauses of a handler get blocks of  *)
(* their own.  A continuation is the place after a call in its block.  The    *)
(* constant table and the capacities of the compiler are left out.            *)
EXTENDS KernelTerms, FiniteSets

CONSTANTS
    MaxVmTrace,         \* maximumTraceEntries
    MaxOperands,        \* maximumOperandStackDepth
    MaxDepth            \* maximumContinuationDepth

VARIABLES
    graph,              \* the compiled blocks
    vm,                 \* block, pc, locals, operands and continuation stack
    vmIssued,           \* internal resumptions made so far
    vmUsed,             \* those no longer live
    vmFuel,             \* instructions left
    vmTraced,           \* entries of the trace
    vmAnswer            \* how the run ended, or NoAnswer

vmVars == <<graph, vm, vmIssued, vmUsed, vmFuel, vmTraced, vmAnswer>>

-----------------------------------------------------------------------------
(* The compiler.  A builder holds the blocks so far and the next free slot;   *)
(* a context holds the slots of the binders in scope, innermost first.        *)
Emit(b, block, i) == [b EXCEPT !.blocks[block] = Append(@, i)]
EmitPlain(b, block, kind) == Emit(b, block, [k |-> kind])
NewBlock(b) == Len(b.blocks) + 1
Slots(context) == ToSet(context.values) \cup ToSet(context.resumptions)
WithValue(context, slot) == [context EXCEPT !.values = <<slot>> \o @]

RECURSIVE CompileValue(_, _, _, _), CompileComputation(_, _, _, _)

CompileClosedBlock(b, t, context) ==
    EmitPlain(CompileComputation([b EXCEPT !.blocks = Append(@, << >>)], NewBlock(b), t, context),
              NewBlock(b), "Return")

CompileValue(b, block, t, context) ==
    CASE t.k = "var" -> Emit(b, block, [k |-> "LoadSlot", slot |-> context.values[t.index + 1]])
      [] t.k \in {"unit", "int"} -> Emit(b, block, [k |-> "Push", value |-> t])
      [] t.k = "pair" ->
            EmitPlain(CompileValue(CompileValue(b, block, t.first, context),
                                   block, t.second, context), block, "MakePair")
      [] t.k = "thunk" ->
            Emit(CompileClosedBlock(b, t.body, context), block,
                 [k |-> "MakeThunk", entry |-> NewBlock(b), captured |-> Slots(context)])

CompileLambda(b, block, t, context) ==
    LET slot == b.next
        reserved == [b EXCEPT !.next = slot + 1]
    IN Emit(CompileClosedBlock(reserved, t.body, WithValue(context, slot)), block,
            [k |-> "MakeFunction", entry |-> NewBlock(b), parameter |-> slot,
             captured |-> Slots(context)])

CompileLet(b, block, t, context) ==
    LET bound == CompileComputation(b, block, t.bound, context)
        slot == bound.next
    IN CompileComputation(
          Emit([bound EXCEPT !.next = slot + 1], block, [k |-> "BindSlot", slot |-> slot]),
          block, t.body, WithValue(context, slot))

CompileHandle(b, block, t, context) ==
    LET slot == b.next
        returning == CompileClosedBlock([b EXCEPT !.next = slot + 1], t.body,
                                        WithValue(context, slot))
        AddClause(acc, op) ==
            LET argument == acc.b.next
                inner == [values |-> <<argument>> \o context.values,
                          resumptions |-> <<argument + 1>> \o context.resumptions]
            IN [b |-> CompileClosedBlock([acc.b EXCEPT !.next = argument + 2], t.clauses[op], inner),
                clauses |-> (op :> [entry |-> NewBlock(acc.b), argument |-> argument,
                                    resumption |-> argument + 1]) @@ acc.clauses]
        compiled == FoldLeft(AddClause, [b |-> returning, clauses |-> << >>],
                             SetToSeq(DOMAIN t.clauses))
        entered == Emit(compiled.b, block,
                        [k |-> "EnterHandler", label |-> t.label, entry |-> NewBlock(b),
                         slot |-> slot, clauses |-> compiled.clauses])
    IN EmitPlain(CompileComputation(entered, block, t.bound, context), block, "LeaveHandler")

CompileComputation(b, block, t, context) ==
    CASE t.k = "return" -> CompileValue(b, block, t.arg, context)
      [] t.k = "let" -> CompileLet(b, block, t, context)
      [] t.k = "force" -> EmitPlain(CompileValue(b, block, t.arg, context), block, "Force")
      [] t.k = "lambda" -> CompileLambda(b, block, t, context)
      [] t.k = "apply" ->
            EmitPlain(CompileValue(CompileComputation(b, block, t.bound, context),
                                   block, t.arg, context), block, "Call")
      [] t.k = "operation" ->
            Emit(CompileValue(b, block, t.arg, context), block,
                 [k |-> "Request", label |-> t.label, op |-> t.op])
      [] t.k = "handle" -> CompileHandle(b, block, t, context)
      [] t.k = "resume" ->
            Emit(CompileValue(b, block, t.arg, context), block,
                 [k |-> "ResumeSlot", slot |-> context.resumptions[t.index + 1]])

(* The entry block of a program is block 1.                                   *)
Compile(t) ==
    CompileClosedBlock([blocks |-> << >>, next |-> 1], t,
                       [values |-> << >>, resumptions |-> << >>]).blocks

-----------------------------------------------------------------------------
(* One instruction uses one unit of fuel and adds one trace entry.            *)
VmRunning == vmAnswer = NoAnswer
VmMayStep == VmRunning /\ vmFuel > 0 /\ vmTraced < MaxVmTrace
VmStep == VmMayStep /\ vmFuel' = vmFuel - 1 /\ vmTraced' = vmTraced + 1 /\ UNCHANGED graph
VmSameTokens == UNCHANGED <<vmIssued, vmUsed>>
VmGoto(next) == vm' = next /\ UNCHANGED vmAnswer
VmFinish(a) == vmAnswer' = a /\ UNCHANGED <<vm, vmIssued, vmUsed>>

Instruction == graph[vm.block][vm.pc]
At(kind) == Instruction.k = kind
Top == Last(vm.operands)
Popped == Front(vm.operands)
Makers == {"Push", "LoadSlot", "MakePair", "MakeThunk", "MakeFunction"}

(* The place after the current instruction, and the frame to come back to it. *)
ReturnFrame(operands) ==
    [k |-> "return", block |-> vm.block, pc |-> vm.pc + 1, locals |-> vm.locals,
     operands |-> operands]

(* The frames a clause runs on.                                               *)
StackBelow_KeepsHandler(h) == SubSeq(vm.stack, 1, h)
StackBelow(h) == SubSeq(vm.stack, 1, h - 1)

(* Control enters a block with an empty operand stack of its own.             *)
Enter(block, locals, stack) ==
    [block |-> block, pc |-> 1, locals |-> locals, operands |-> << >>, stack |-> stack]

Captured == [s \in Instruction.captured |-> vm.locals[s]]
Made ==
    CASE At("Push") -> Instruction.value
      [] At("LoadSlot") -> vm.locals[Instruction.slot]
      [] At("MakePair") -> PairTerm(Last(Popped), Top)
      [] At("MakeThunk") -> [k |-> "thunk", entry |-> Instruction.entry, locals |-> Captured]
      [] At("MakeFunction") ->
            [k |-> "function", entry |-> Instruction.entry, parameter |-> Instruction.parameter,
             locals |-> Captured]

(* The operands left after the arguments of the instruction are taken.        *)
Rest == IF At("MakePair") THEN Front(Popped) ELSE vm.operands

VmHandlerOf(label) ==
    SelectLastInSeq(vm.stack, LAMBDA f : f.k = "handler" /\ f.label = label)

VmToken == vm.locals[Instruction.slot]

(* Where an instruction cannot be carried out the run is rejected.  The other *)
(* boundary checks of the machine are against graphs no compiler makes.       *)
VmFault ==
    CASE Instruction.k \in Makers ->
            IF Len(Rest) >= MaxOperands THEN "operand-stack-exceeded" ELSE "none"
      [] At("BindSlot") -> IF Top.k = "function" THEN "expected-value" ELSE "none"
      [] At("Force") ->
            IF Top.k # "thunk" THEN "expected-thunk"
            ELSE IF Len(vm.stack) >= MaxDepth THEN "continuation-stack-exceeded" ELSE "none"
      [] At("Call") ->
            IF Last(Popped).k # "function" THEN "expected-function"
            ELSE IF Len(vm.stack) >= MaxDepth THEN "continuation-stack-exceeded" ELSE "none"
      [] At("EnterHandler") ->
            IF Len(vm.stack) >= MaxDepth THEN "continuation-stack-exceeded" ELSE "none"
      [] At("LeaveHandler") ->
            IF Top.k = "function" \/ vm.stack = << >> \/ Last(vm.stack).k # "handler"
            THEN "invalid-handler-boundary" ELSE "none"
      [] At("ResumeSlot") ->
            IF ~Shaped(Top, VmToken.type) THEN "resumption-result-type-mismatch"
            ELSE IF VmToken.id \in vmUsed THEN "resumption-already-used"
            ELSE IF Len(vm.stack) + 2 + Len(VmToken.captured) > MaxDepth
            THEN "continuation-stack-exceeded"
            ELSE IF Len(VmToken.frame.operands) >= MaxOperands THEN "operand-stack-exceeded"
            ELSE "none"
      [] At("Return") ->
            IF vm.stack # << >> /\ Last(vm.stack).k # "return" THEN "invalid-handler-boundary"
            ELSE IF vm.stack # << >> /\ Len(Last(vm.stack).operands) >= MaxOperands
            THEN "operand-stack-exceeded" ELSE "none"
      [] OTHER -> "none"

VmReject == VmStep /\ VmFault # "none" /\ VmFinish(RuntimeRejected(VmFault))

(* Every instruction below acts only where it has no fault.                   *)
Executes(kind) == VmStep /\ At(kind) /\ VmFault = "none"

PushMade ==
    /\ VmStep
    /\ Instruction.k \in Makers
    /\ VmFault = "none"
    /\ VmGoto([vm EXCEPT !.pc = @ + 1, !.operands = Append(Rest, Made)])
    /\ VmSameTokens

BindSlot ==
    /\ Executes("BindSlot")
    /\ VmGoto([vm EXCEPT !.pc = @ + 1, !.operands = Popped,
                         !.locals = (Instruction.slot :> Top) @@ @])
    /\ VmSameTokens

ForceSlot ==
    /\ Executes("Force")
    /\ VmGoto(Enter(Top.entry, Top.locals, Append(vm.stack, ReturnFrame(Popped))))
    /\ VmSameTokens

Call ==
    /\ Executes("Call")
    /\ LET callable == Last(Popped)
       IN VmGoto(Enter(callable.entry, (callable.parameter :> Top) @@ callable.locals,
                       Append(vm.stack, ReturnFrame(Front(Popped)))))
    /\ VmSameTokens

EnterHandler ==
    /\ Executes("EnterHandler")
    /\ VmGoto([vm EXCEPT !.pc = @ + 1,
                         !.stack = Append(@, [k |-> "handler", label |-> Instruction.label,
                                              entry |-> Instruction.entry, slot |-> Instruction.slot,
                                              clauses |-> Instruction.clauses,
                                              locals |-> vm.locals, operands |-> vm.operands])])
    /\ VmSameTokens

(* The handled computation is done: the return clause runs, and comes back to *)
(* the place after the handler with what was there when it was entered.       *)
LeaveHandler ==
    /\ Executes("LeaveHandler")
    /\ LET handler == Last(vm.stack)
           back == [ReturnFrame(handler.operands) EXCEPT !.locals = handler.locals]
       IN VmGoto(Enter(handler.entry, (handler.slot :> Top) @@ handler.locals,
                       Append(Front(vm.stack), back)))
    /\ VmSameTokens

(* A handled operation: the place after it and the frames above the handler   *)
(* go into a token, and the clause runs on the frames below the handler.      *)
HandleRequest ==
    /\ Executes("Request")
    /\ VmHandlerOf(Instruction.label) # 0
    /\ LET h == VmHandlerOf(Instruction.label)
           handler == vm.stack[h]
           clause == handler.clauses[Instruction.op]
           token == [k |-> "token", id |-> vmIssued + 1,
                     type |-> Declaration(Instruction.label, Instruction.op).result,
                     frame |-> ReturnFrame(Popped), handler |-> handler,
                     captured |-> SubSeq(vm.stack, h + 1, Len(vm.stack))]
       IN VmGoto(Enter(clause.entry,
                       (clause.argument :> Top) @@ (clause.resumption :> token) @@ handler.locals,
                       StackBelow(h)))
    /\ vmIssued' = vmIssued + 1
    /\ UNCHANGED vmUsed

SuspendRequest ==
    /\ Executes("Request")
    /\ VmHandlerOf(Instruction.label) = 0
    /\ vm' = [vm EXCEPT !.pc = @ + 1, !.operands = Popped]
    /\ vmAnswer' = Suspended(Request(Instruction.label, Instruction.op, Top))
    /\ VmSameTokens

ResumeSlot ==
    /\ Executes("ResumeSlot")
    /\ VmGoto([block |-> VmToken.frame.block, pc |-> VmToken.frame.pc,
               locals |-> VmToken.frame.locals,
               operands |-> Append(VmToken.frame.operands, Top),
               stack |-> vm.stack \o <<ReturnFrame(Popped), VmToken.handler>> \o VmToken.captured])
    /\ vmUsed' = vmUsed \cup {VmToken.id}
    /\ UNCHANGED vmIssued

ReturnToFrame ==
    /\ Executes("Return")
    /\ vm.stack # << >>
    /\ LET f == Last(vm.stack)
       IN VmGoto([block |-> f.block, pc |-> f.pc, locals |-> f.locals,
                  operands |-> Append(f.operands, Top), stack |-> Front(vm.stack)])
    /\ VmSameTokens

ReturnFromProgram ==
    /\ Executes("Return")
    /\ vm.stack = << >>
    /\ VmFinish(Returned(Top))

VmExhaust ==
    /\ VmRunning
    /\ ~VmMayStep
    /\ VmFinish(Exhausted(IF vmFuel = 0 THEN "fuel" ELSE "trace"))
    /\ UNCHANGED <<graph, vmFuel, vmTraced>>

VmInstruction ==
    \/ PushMade \/ BindSlot \/ ForceSlot \/ Call \/ EnterHandler \/ LeaveHandler
    \/ HandleRequest \/ SuspendRequest \/ ResumeSlot \/ ReturnToFrame \/ ReturnFromProgram
    \/ VmReject \/ VmExhaust

(* run: a compiled program starts in its entry block.                         *)
VmIdle(bound) ==
    /\ graph = << >>
    /\ vm = Enter(1, << >>, << >>)
    /\ vmIssued = 0
    /\ vmUsed = {}
    /\ vmFuel = bound
    /\ vmTraced = 0
    /\ vmAnswer = NoAnswer

(* resume of an external suspension: the value must have the type and find    *)
(* room; the run goes on with new fuel, the same trace, after the request.    *)
VmResumable(v) == Shaped(v, vmAnswer.request.type) /\ Len(vm.operands) < MaxOperands
VmResumeExternal(v, bound) ==
    /\ vmAnswer.tag = "suspended"
    /\ VmResumable(v)
    /\ vm' = [vm EXCEPT !.operands = Append(@, v)]
    /\ vmFuel' = bound
    /\ vmAnswer' = NoAnswer
    /\ UNCHANGED <<graph, vmIssued, vmUsed, vmTraced>>
=============================================================================
