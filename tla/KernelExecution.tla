-------------------------- MODULE KernelExecution --------------------------
(* A program is written in the surface language or given as a document, is    *)
(* checked, and then run twice with the same script of external observations: *)
(* by the reference machine, and compiled, by the VM.                         *)
EXTENDS KernelDocument, SurfaceLanguage, KernelMachine, KernelVm, ObservationReplay

CONSTANTS
    Sources,            \* sources: records [text, meant], with the program it should say
    Programs,           \* the programs of documents: closed terms
    Scripts,            \* sequences of observations
    Bounds              \* fuel: records [reference, compiled]

VARIABLES
    origin,             \* the source not read yet, or NoSource
    program,            \* the term given
    checked,            \* what the checker says of it, or Unchecked
    bound,              \* the fuel of each backend
    phase,              \* how far the program is
    reference           \* the report of the first backend, or NoReport

executionVars == <<origin, program, checked, bound, phase, reference>>
vars == <<executionVars, machineVars, vmVars, replayVars>>

NoSource == [text |-> << >>, meant |-> Unbound]
Unchecked == [ok |-> FALSE, code |-> "none"]

Idle ==
    /\ bound = [reference |-> 0, compiled |-> 0]
    /\ checked = Unchecked
    /\ reference = NoReport
    /\ MachineIdle(0)
    /\ VmIdle(0)
    /\ script = << >>
    /\ requests = << >>
    /\ applied = 0
    /\ report = NoReport

Init ==
    /\ Idle
    /\ \/ phase = "source" /\ origin \in Sources /\ program = Unbound
       \/ phase = "document" /\ origin = NoSource /\ program \in Programs

(* compileSurfaceSource: the source is parsed and elaborated, and the strict  *)
(* decoder of documents admits the term, or the command fails.  A source may  *)
(* leave out operations that it does not use.                                 *)
ReadSource ==
    /\ phase = "source"
    /\ \E read \in {Compiled(origin.text)} :
          \/ /\ read.ok /\ DecodesAsJson(read.program)
             /\ read.signature \subseteq Range(Signature)
             /\ phase' = "elaborated"
             /\ program' = read.program
             /\ UNCHANGED <<origin, checked>>
          \/ /\ ~(read.ok /\ DecodesAsJson(read.program))
             /\ phase' = "done"
             /\ checked' = Rejected(IF read.ok THEN "surface.kernel-boundary.rejected" ELSE read.code)
             /\ UNCHANGED <<origin, program>>
    /\ UNCHANGED <<bound, reference, machineVars, vmVars, replayVars>>

(* Its document is encoded.                                                   *)
EncodeDocument ==
    /\ phase = "elaborated"
    /\ phase' = "document"
    /\ origin' = NoSource
    /\ UNCHANGED <<program, checked, bound, reference, machineVars, vmVars, replayVars>>

(* checkKernelDocumentWithCustody: the check a command shows, and the run     *)
(* does again.                                                                *)
CheckProgram ==
    /\ phase = "document"
    /\ phase' = "checked"
    /\ checked' = IF DecodesAsJson(program) THEN CheckDocument(program)
                  ELSE Rejected("representation-rejected")
    /\ UNCHANGED <<origin, program, bound, reference, machineVars, vmVars, replayVars>>

(* A run is asked for, with a script and bounds.                              *)
ProvideScript(given, limits) ==
    /\ phase = "checked"
    /\ phase' = "prepare"
    /\ script' = given
    /\ bound' = limits
    /\ fuel' = limits.reference
    /\ vmFuel' = limits.compiled
    /\ checked' = IF checked.ok THEN [checked EXCEPT !.judgments = << >>] ELSE checked
    /\ UNCHANGED <<origin, program, reference, requests, applied, report>>
    /\ UNCHANGED <<control, frames, issued, consumed, traced, answer>>
    /\ UNCHANGED <<graph, vm, vmIssued, vmUsed, vmTraced, vmAnswer>>

Provide == \E given \in Scripts, limits \in Bounds : ProvideScript(given, limits)

Rejection ==
    IF checked.code = "representation-rejected" THEN [tag |-> checked.code]
    ELSE [tag |-> "check-rejected", code |-> checked.code]

(* prepareKernelJsonBytes: the checker decides whether the program runs.      *)
Prepare ==
    /\ phase = "prepare"
    /\ UNCHANGED <<origin, program, bound, checked, reference, vmVars>>
    /\ \/ /\ checked.ok
          /\ phase' = "reference"
          /\ Evaluate(checked.term)
          /\ UNCHANGED replayVars
       \/ /\ ~checked.ok
          /\ phase' = "done"
          /\ RejectProgram(Rejection)
          /\ UNCHANGED machineVars

StepReference ==
    /\ phase = "reference"
    /\ MachineStep
    /\ UNCHANGED <<executionVars, vmVars, replayVars>>

StepCompiled ==
    /\ phase = "compiled"
    /\ VmInstruction
    /\ UNCHANGED <<executionVars, machineVars, replayVars>>

(* What is shown of an answer that ends the run.                              *)
Shown(a) == IF a.tag = "returned" THEN Returned(Observable(a.value)) ELSE a

(* The backend is suspended: no observation is left, or it cannot be used.    *)
Decline(a) ==
    /\ a.tag = "suspended"
    /\ \/ StopForObservation(a.request)
       \/ RefuseThunk(a.request)
       \/ RefuseType(a.request)
    /\ UNCHANGED <<executionVars, machineVars, vmVars>>

(* The interpreter always takes an observation of the right type.             *)
ObserveReference ==
    /\ phase = "reference"
    /\ \/ Decline(answer)
       \/ /\ answer.tag = "suspended"
          /\ ApplyObservation(answer.request)
          /\ ResumeExternal(NextObservation, bound.reference)
          /\ UNCHANGED <<executionVars, vmVars>>

(* So does the VM: the argument of the request has left room for its answer.  *)
ObserveCompiled ==
    /\ phase = "compiled"
    /\ \/ Decline(vmAnswer)
       \/ /\ vmAnswer.tag = "suspended"
          /\ ApplyObservation(vmAnswer.request)
          /\ VmResumeExternal(NextObservation, bound.compiled)
          /\ UNCHANGED <<executionVars, machineVars>>

FinishReference ==
    /\ phase = "reference"
    /\ ReportResult(Shown(answer))
    /\ UNCHANGED <<executionVars, machineVars, vmVars>>

FinishCompiled ==
    /\ phase = "compiled"
    /\ ReportResult(Shown(vmAnswer))
    /\ UNCHANGED <<executionVars, machineVars, vmVars>>

(* The same script is given to the compiled program.                          *)
SwitchBackend ==
    /\ phase = "reference"
    /\ DriveNext
    /\ phase' = "compiled"
    /\ reference' = report
    /\ graph' = Compile(checked.term)
    /\ UNCHANGED <<origin, program, checked, bound, machineVars>>
    /\ UNCHANGED <<vm, vmIssued, vmUsed, vmFuel, vmTraced, vmAnswer>>

Compare ==
    /\ phase = "compiled"
    /\ report # NoReport
    /\ phase' = "done"
    /\ UNCHANGED <<origin, program, checked, bound, reference, machineVars, vmVars, replayVars>>

Stop == phase \in {"done", "filed"} /\ UNCHANGED vars

Replay ==
    \/ ReadSource \/ EncodeDocument \/ CheckProgram \/ Prepare
    \/ StepReference \/ ObserveReference \/ FinishReference \/ SwitchBackend
    \/ StepCompiled \/ ObserveCompiled \/ FinishCompiled \/ Compare \/ Stop

Next == Provide \/ Replay

Spec == Init /\ [][Next]_vars

-----------------------------------------------------------------------------
(* Where a handler stands in a term.                                          *)
RECURSIVE Parts(_)
Parts(t) ==                             \* the subterms of a term, itself included
    {t} \cup UNION {Parts(t[f]) : f \in DOMAIN t \cap {"arg", "bound", "body", "first", "second"}}
        \cup (IF "clauses" \in DOMAIN t
              THEN UNION {Parts(t.clauses[op]) : op \in DOMAIN t.clauses} ELSE {})

(* A handler is followed by nothing in the block it is compiled into.         *)
RECURSIVE HandlesInLine(_)
HandlesInLine(t) ==
    \/ t.k = "handle"
    \/ t.k = "let" /\ (HandlesInLine(t.bound) \/ HandlesInLine(t.body))
TailHandlers(t) == \A p \in Parts(t) : p.k \in {"let", "handle"} => ~HandlesInLine(p.bound)

(* A clause resumes the operation of a handler around its own.                *)
ResumesOuter(t) == \E p \in Parts(t) : p.k = "resume" /\ p.index > 0

-----------------------------------------------------------------------------
(* A source that is compiled says the program it was written for: nothing is  *)
(* captured, dropped or regrouped on the way through the names, whatever      *)
(* names its binders have (parser.ts, elaborate.ts).                          *)
SourceTellsTheProgram == phase = "elaborated" => program = origin.meant

(* The observation of an accepted check is one its own decoder reads, and     *)
(* what is read is what was judged: every type, and the derivation of the     *)
(* program (observe.ts writes what decode.ts demands).                        *)
ObservationReadsBack ==
    phase = "checked" /\ checked.ok =>
        LET o == Observe(checked.judgments)
        IN /\ Reads(o)
           /\ DerivationRead(o, 1) = DerivationOf(program)
           /\ \A i \in DOMAIN o.judgments :
                  TypeRead(o.types, o.judgments[i].type) = checked.judgments[i].type

(* What the checker says of a program holds of its run: a returned value has  *)
(* the shape of the type, the run asks only for operations of its effect row, *)
(* with an argument of the declared type (check against transition).          *)
TypeSound ==
    phase = "reference" =>
        /\ answer.tag = "returned" =>
              IF checked.type.k = "return" THEN Shaped(answer.value, checked.type.value)
              ELSE answer.value.k = "function"
        /\ answer.tag = "suspended" =>
              LET r == answer.request
              IN r.label \in checked.effects
                 /\ Shaped(r.argument, Declaration(r.label, r.op).argument)

(* An accepted program runs to an end of its own. It never meets a broken     *)
(* runtime boundary, except that a clause that resumes an outer operation may *)
(* find it resumed already; and with room enough no run is inconclusive.      *)
AcceptedRunsToAnEnd ==
    /\ answer.tag = "runtime-rejected" =>
          answer.code = "resumption.already-used" /\ ResumesOuter(program)
    /\ answer.tag = "inconclusive" => bound.reference < 100

(* Neither report is the fault of a bound, nor of a resumption used twice.    *)
Comparable ==
    LET faults == {"resumption.already-used", "resumption-already-used",
                   "operand-stack-exceeded", "continuation-stack-exceeded"}
        Settled(result) == result.tag # "inconclusive"
                           /\ (result.tag = "runtime-rejected" => result.code \notin faults)
    IN phase = "done" /\ checked.ok /\ Settled(reference.result) /\ Settled(report.result)

(* The two backends report the same, request for request, of a program whose  *)
(* handlers are the last thing in their blocks                                *)
(* (compareKernelRunObservations; compiler.ts compiles a handler in line).    *)
TailBackendsAgree == Comparable /\ TailHandlers(program) => report = reference

(* What the documents promise of the second backend: every program.           *)
BackendsAgree == Comparable => report = reference

(* What the documents promise of the checker: it rejects a second use.        *)
NoRuntimeReuse == answer.tag = "runtime-rejected" => answer.code # "resumption.already-used"
=============================================================================
