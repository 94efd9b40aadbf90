-------------------------- MODULE EffectProjection --------------------------
(* A lifecycle script told as a kernel program: its events become requests,   *)
(* every acquired resource an affine thunk that asks for its cleanup, a       *)
(* transfer a move of the thunk and a finalization its force.  The script is  *)
(* interpreted (ResourceLifecycle), the program written, checked and run by   *)
(* both backends (KernelExecution), and what they asked for is compared with  *)
(* what the lifecycle did.  A payload has five of the eight slots: attempts,  *)
(* messages and exit causes are left out.                                     *)
EXTENDS Integers, KernelExecution

CONSTANTS
    Histories,                      \* the scripts: sequences of events
    Names,                          \* every name, in code point order
    MaxProjectedEvents,             \* maximumEvents
    MaxProjectedResources,          \* maximumSuccessfulResources
    MaxReplayRequests,              \* maximumReplayRequests
    MaxGeneratedLets,               \* maximumGeneratedLets
    Scopes, Root, Resources, Attempts, NoScope, MaxScopes, MaxResources, MaxEvents

VARIABLES
    pending,            \* the events not interpreted yet
    history,            \* those that were, each with the resources it finalized
    verdict,            \* how the projection ended, or "none"
    state, above, owned, registration, owner, cleanup, failing, attempts,
    observations, events, rejected

Lifecycle == INSTANCE ResourceLifecycle

lifecycleVars == <<state, above, owned, registration, owner, cleanup, failing, attempts,
                   observations, events, rejected>>
projectionVars == <<pending, history, verdict, lifecycleVars>>
allVars == <<vars, projectionVars>>

Projecting == phase = "author" \/ history # << >>

ProjectionInit ==
    /\ Lifecycle!Init
    /\ history = << >> /\ verdict = "none"
    /\ \/ Init /\ pending = << >>
       \/ /\ Idle
          /\ phase = "author" /\ origin = NoSource /\ program = Unbound
          /\ pending \in Histories

-----------------------------------------------------------------------------
(* The script is interpreted.                                                 *)
Succeeds(e) == e.tag = "acquire" /\ e.outcome # "refused"

Permitted(e) ==
    /\ events < MaxEvents
    /\ CASE e.tag = "open" -> Lifecycle!CanOpen(e.scope, e.parent)
         [] e.tag = "acquire" -> IF Succeeds(e) THEN Lifecycle!CanAcquire(e.attempt, e.scope, e.resource)
                                 ELSE Lifecycle!CanAttempt(e.attempt, e.scope)
         [] e.tag = "transfer" -> Lifecycle!CanTransfer(e.resource, e.scope, e.to)
         [] e.tag = "release" -> Lifecycle!CanRelease(e.resource, e.scope)
         [] e.tag = "exit" -> Lifecycle!IsOpen(e.scope)

Happens(e) ==
    \/ e.tag = "open" /\ Lifecycle!OpenScope(e.scope, e.parent)
    \/ Succeeds(e) /\ Lifecycle!Acquire(e.attempt, e.scope, e.resource, e.outcome)
    \/ e.tag = "acquire" /\ ~Succeeds(e) /\ Lifecycle!FailToAcquire(e.attempt, e.scope)
    \/ e.tag = "transfer" /\ Lifecycle!Transfer(e.resource, e.scope, e.to)
    \/ e.tag = "release" /\ Lifecycle!Release(e.resource, e.scope)
    \/ e.tag = "exit" /\ (Lifecycle!ExitBlocked(e.scope) \/ Lifecycle!ExitScope(e.scope))

Blocks(e) == e.tag = "exit" /\ Lifecycle!OpenDescendants(e.scope) # {}

(* The resources that the observations from the n-th on say were finalized.   *)
Finalized(seen, n) ==
    LET since == SelectSeq(SubSeq(seen, n, Len(seen)), LAMBDA o : o.tag \in {"released", "exited"})
    IN [i \in DOMAIN since |-> since[i].resource]

InterpretEvent ==
    /\ phase = "author" /\ pending # << >>
    /\ LET e == Head(pending)
       IN /\ Permitted(e)
          /\ Happens(e)
          /\ history' = Append(history, [event |-> e, blocked |-> Blocks(e),
                                         finalized |-> Finalized(observations', Len(observations) + 1)])
    /\ pending' = Tail(pending)
    /\ UNCHANGED <<vars, verdict>>

RejectScript ==
    /\ phase = "author" /\ pending # << >>
    /\ ~Permitted(Head(pending))
    /\ phase' = "done"
    /\ verdict' = "lifecycle.rejected"
    /\ UNCHANGED <<origin, program, checked, bound, reference, machineVars, vmVars, replayVars>>
    /\ UNCHANGED <<pending, history, lifecycleVars>>

-----------------------------------------------------------------------------
(* The plan.  A resource is held by the binder of its acquisition, renamed at *)
(* every transfer.                                                            *)
Event(i) == history[i].event
AcquiredAt(r) == CHOOSE i \in DOMAIN history : Succeeds(Event(i)) /\ Event(i).resource = r
Held == {Event(i).resource : i \in {j \in DOMAIN history : Succeeds(Event(j))}}

Moves_Forgotten(r, i) == 0
Moves(r, i) == Cardinality({j \in 1..i : Event(j).tag = "transfer" /\ Event(j).resource = r})
Binder(r, i) == <<AcquiredAt(r), Moves(r, i)>>

(* stringTable: the names of the script, each for its place among them.       *)
Mentioned ==
    {Root} \cup UNION {{Event(i)[f] : f \in DOMAIN Event(i) \cap {"scope", "parent", "to"}}
                          \cup (IF "resource" \in DOMAIN Event(i) THEN {Event(i).resource} ELSE {}) :
                       i \in DOMAIN history}
IndexOf(name) == SelectInSeq(SelectSeq(Names, LAMBDA n : n \in Mentioned), LAMBDA n : n = name) - 1

Outcome(e) == CASE e.outcome = "succeeded" -> 2 [] e.outcome = "failed" -> 1 [] OTHER -> 0

(* eventPayloads *)
Payload(i) ==
    LET e == Event(i)
    IN CASE e.tag = "open" -> <<i, IndexOf(e.scope), IndexOf(e.parent), -1, -1>>
         [] e.tag = "acquire" ->
              <<i, IndexOf(e.scope), IF Succeeds(e) THEN IndexOf(e.resource) ELSE -1, -1, Outcome(e)>>
         [] e.tag = "transfer" -> <<i, IndexOf(e.resource), IndexOf(e.scope), IndexOf(e.to), -1>>
         [] e.tag = "release" -> <<i, IndexOf(e.resource), IndexOf(e.scope), -1, -1>>
         [] e.tag = "exit" -> <<i, IndexOf(e.scope), -1, -1, -1>>
CleanupSlots(r) ==
    LET e == Event(AcquiredAt(r))
    IN <<AcquiredAt(r), IndexOf(r), IndexOf(e.scope), -1, Outcome(e)>>

(* buildPlan: what the program does for each event, and what the ledger says. *)
Raw(i) == [tag |-> "raw", event |-> i, op |-> Event(i).tag, slots |-> Payload(i)]
Create(i, r) == [tag |-> "create", event |-> i, resource |-> r, owner |-> Event(i).scope,
                 binder |-> Binder(r, i), slots |-> CleanupSlots(r)]
Move(i, r) == [tag |-> "move", event |-> i, resource |-> r, owner |-> Event(i).to,
               from |-> Binder(r, i - 1), binder |-> Binder(r, i)]
ForceCleanup(i, r) == [tag |-> "force", event |-> i, resource |-> r, binder |-> Binder(r, i)]

Planned(i) ==
    <<Raw(i)>>
    \o (IF Succeeds(Event(i)) THEN <<Create(i, Event(i).resource)>> ELSE << >>)
    \o (IF Event(i).tag = "transfer" THEN <<Move(i, Event(i).resource)>> ELSE << >>)
    \o [n \in DOMAIN history[i].finalized |-> ForceCleanup(i, history[i].finalized[n])]
Plan == FlattenSeq([i \in DOMAIN history |-> Planned(i)])

OfTag(plan, tag) == SelectSeq(plan, LAMBDA a : a.tag = tag)
RawRequests(plan) ==
    LET raw == OfTag(plan, "raw") IN [i \in DOMAIN raw |-> [op |-> raw[i].op, slots |-> raw[i].slots]]
Cleanups(plan) ==
    LET forced == OfTag(plan, "force") IN [i \in DOMAIN forced |-> CleanupSlots(forced[i].resource)]
ReplayRequests(plan) == Len(RawRequests(plan)) + Len(Cleanups(plan))

LimitReached ==
    CASE Len(history) > MaxProjectedEvents -> "limit.events"
      [] Cardinality(Held) > MaxProjectedResources -> "limit.resources"
      [] ReplayRequests(Plan) > MaxReplayRequests -> "limit.requests"
      [] Len(Plan) > MaxGeneratedLets -> "limit.lets"
      [] OTHER -> "none"

-----------------------------------------------------------------------------
(* generateSource: a let for every action of the plan.                        *)
Word(text) == <<Lexeme("identifier", text)>>
Mark(text) == <<Lexeme("symbol", text)>>
Number(n) == <<[kind |-> "integer", text |-> ToString(n), value |-> n]>>
Inside(open, text, close) == Mark(open) \o text \o Mark(close)
Graded(g) == Mark("[") \o (IF g = "omega" THEN Word(g) ELSE <<Lexeme("integer", g)>>) \o Mark("]")

RECURSIVE TupleType(_), Tuple(_)
TupleType(n) == IF n = 1 THEN Word("Int") ELSE Word("Int") \o Mark("*") \o Inside("(", TupleType(n - 1), ")")
Tuple(slots) ==
    IF Len(slots) = 1 THEN Number(slots[1])
    ELSE Inside("(", Number(slots[1]) \o Mark(",") \o Tuple(Tail(slots)), ")")

BinderName(b) == Word("cleanup_e" \o ToString(b[1]) \o "_m" \o ToString(b[2]))
Performs(label, op, slots) ==
    Word("perform") \o Graded("0") \o Word(label) \o Mark(".") \o Word(op) \o Inside("(", Tuple(slots), ")")
Returns(text) == Word("return") \o Graded("1") \o text

Said(a) ==
    CASE a.tag = "raw" ->
           Word("raw_e" \o ToString(a.event)) \o Mark("=") \o Performs("lifecycle", a.op, a.slots)
      [] a.tag = "create" ->
           BinderName(a.binder) \o Mark("=")
               \o Returns(Word("thunk") \o Inside("{", Performs("cleanup", "finalize", a.slots), "}"))
      [] a.tag = "move" -> BinderName(a.binder) \o Mark("=") \o Returns(BinderName(a.from))
      [] a.tag = "force" ->
           Word("finalized_" \o a.resource) \o Mark("=") \o Word("force") \o BinderName(a.binder)

ProjectedOperations ==
    <<<<"lifecycle", "open">>, <<"lifecycle", "acquire">>, <<"lifecycle", "transfer">>,
      <<"lifecycle", "release">>, <<"lifecycle", "exit">>, <<"cleanup", "finalize">>>>

GeneratedSource(plan) ==
    Word("kernel") \o <<Lexeme("string", Marker)>> \o Mark(";")
    \o FlattenSeq([n \in DOMAIN ProjectedOperations |->
           Word("effect") \o Word(ProjectedOperations[n][1]) \o Mark(".") \o Word(ProjectedOperations[n][2])
           \o Mark(":") \o TupleType(5) \o Mark("->") \o Word("Unit") \o Mark(";")])
    \o Word("run")
    \o FlattenSeq([n \in DOMAIN plan |-> Word("let") \o Said(plan[n]) \o Word("in")])
    \o Returns(Mark("(") \o Mark(")"))

(* The program it is meant to say.                                            *)
RECURSIVE TupleTerm(_), MeantProgram(_, _)
TupleTerm(slots) ==
    IF Len(slots) = 1 THEN IntTerm(slots[1]) ELSE PairTerm(IntTerm(slots[1]), TupleTerm(Tail(slots)))
MeantProgram(plan, n) ==
    LET a == plan[n]
        Holder(b) == Var(n - 1 - SelectInSeq(plan, LAMBDA c : c.tag \in {"create", "move"} /\ c.binder = b))
        meant == CASE a.tag = "raw" -> Operation("0", "lifecycle", a.op, TupleTerm(a.slots))
                   [] a.tag = "create" ->
                        Return("1", Thunk(Operation("0", "cleanup", "finalize", TupleTerm(a.slots))))
                   [] a.tag = "move" -> Return("1", Holder(a.from))
                   [] a.tag = "force" -> Force(Holder(a.binder))
    IN IF n > Len(plan) THEN Return("1", UnitTerm) ELSE Let(meant, MeantProgram(plan, n + 1))

-----------------------------------------------------------------------------
(* projectResourceLifecycleEffects, once the script is interpreted.           *)
RefuseProjection ==
    /\ phase = "author" /\ pending = << >>
    /\ LimitReached # "none"
    /\ phase' = "done"
    /\ verdict' = LimitReached
    /\ UNCHANGED <<origin, program, checked, bound, reference, machineVars, vmVars, replayVars>>
    /\ UNCHANGED <<pending, history, lifecycleVars>>

WriteProgram ==
    /\ phase = "author" /\ pending = << >>
    /\ LimitReached = "none"
    /\ phase' = "source"
    /\ origin' = [text |-> GeneratedSource(Plan), meant |-> MeantProgram(Plan, 1)]
    /\ UNCHANGED <<program, checked, bound, reference, machineVars, vmVars, replayVars, projectionVars>>

(* Every request is answered with unit.                                       *)
ProvideUnits ==
    /\ phase = "checked" /\ Projecting
    /\ ProvideScript([i \in 1..ReplayRequests(Plan) |-> UnitTerm], [reference |-> 100, compiled |-> 200])
    /\ UNCHANGED projectionVars

(* decodeRequests: every unit was applied, and unit returned.                 *)
Incomplete(run) ==
    ~ /\ run.tag = "executed"
      /\ run.provided = ReplayRequests(Plan) /\ run.applied = run.provided
      /\ Len(run.requests) = run.provided
      /\ run.result = Returned(UnitTerm)

RECURSIVE SlotsOf(_)
SlotsOf(v) == IF v.k = "pair" THEN <<v.first.literal>> \o SlotsOf(v.second) ELSE <<v.literal>>
AskedOf(run, label) == SelectSeq(run.requests, LAMBDA r : r.label = label)
RawOf(run) ==
    LET raw == AskedOf(run, "lifecycle")
    IN [i \in DOMAIN raw |-> [op |-> raw[i].op, slots |-> SlotsOf(raw[i].argument)]]
CleanupsOf(run) ==
    LET asked == AskedOf(run, "cleanup") IN [i \in DOMAIN asked |-> SlotsOf(asked[i].argument)]

Agreed ==
    /\ RawOf(reference) = RawRequests(Plan)
    /\ CleanupsOf(reference) = Cleanups(Plan)
    /\ reference = report
    /\ \A i \in DOMAIN history : history[i].blocked => history[i].finalized = << >>

Conclude ==
    /\ phase = "done" /\ Projecting /\ verdict = "none"
    /\ verdict' = CASE ~checked.ok -> checked.code
                    [] checked.ok /\ (Incomplete(reference) \/ Incomplete(report)) -> "backend.incomplete"
                    [] OTHER -> IF Agreed THEN "reported" ELSE "comparison.disagreed"
    /\ UNCHANGED <<vars, pending, history, lifecycleVars>>

ProjectionNext ==
    \/ InterpretEvent \/ RejectScript \/ RefuseProjection \/ WriteProgram \/ ProvideUnits \/ Conclude
    \/ ~Projecting /\ Provide /\ UNCHANGED projectionVars
    \/ Replay /\ UNCHANGED projectionVars

ProjectionSpec == ProjectionInit /\ [][ProjectionNext]_allVars

-----------------------------------------------------------------------------
(* The ledger of a resource: created, moved from binder to binder, and forced *)
(* at most once, at the end.                                                  *)
LedgerOf(r) == SelectSeq(Plan, LAMBDA a : a.tag # "raw" /\ a.resource = r)
HandedOn(ledger) ==
    \A n \in DOMAIN ledger :
        /\ (ledger[n].tag = "create") = (n = 1)
        /\ ledger[n].tag = "move" => ledger[n].from = ledger[n - 1].binder
        /\ ledger[n].tag = "force" => n = Len(ledger) /\ ledger[n].binder = ledger[n - 1].binder

(* A script that is interpreted, within the limits, is always reported: its   *)
(* program is written, accepted and asks for what the lifecycle did.  And     *)
(* what the report claims without comparing it is true: cleanup has the       *)
(* multiplicity of finalization, and the transfer chain of every resource     *)
(* ends with the scope that owns it (model.ts, comparisons).                  *)
ProjectionAgrees ==
    /\ verdict \in {"none", "reported", "lifecycle.rejected", "limit.events", "limit.resources", "limit.lets"}
    /\ verdict = "reported" =>
          \A r \in Held :
              LET ledger == LedgerOf(r)
                  last == ledger[Len(ledger)]
              IN /\ HandedOn(ledger)
                 /\ (last.tag = "force") = (cleanup[r] = "finalized")
                 /\ last.tag # "force" => last.owner = owner[r]
=============================================================================
