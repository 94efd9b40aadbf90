-------------------------- MODULE StructuredAdapter --------------------------
(* src/src/structured-concurrency/effect-adapter.ts: the same scripts carried *)
(* out by concurrent fibers. A caller offers one event at a time to a driver  *)
(* through a queue of capacity one and waits for its acknowledgement; the     *)
(* driver keeps the ledger (the variables of StructuredConcurrency) and, for  *)
(* every task, a gate (a Deferred) a fiber of its own waits on. The driver    *)
(* may end at any step: its fiber dies of a defect or is interrupted.         *)
(*                                                                            *)
(* Operators named X_Fault are faulty versions of X, used only as mutations.  *)
EXTENDS StructuredConcurrency, Sequences

CONSTANT NoEvent
ASSUME NoEventIsNoEvent == NoEvent \notin Events

VARIABLES
    caller,    \* "ready", "waiting", "polling", "finished", "refused" or "abandoned"
    queue,     \* the bounded(1) queue of envelopes
    ack,       \* the current event's acknowledgement: "none", "pending", "done" or "refused"
    driver,    \* "taking", "applying", "completing", "replying" or "exited"
    inHand,    \* the event of the envelope the driver took
    verdict,   \* what applyAdapterEvent returned: "done" or "refused"
    gate,      \* task: terminal, "absent", "pending", "success" or "failure"
    fibers     \* the tasks whose fiber still waits at its gate

ledger == <<scopeVars, taskVars, totalYields, answer, rejected>>
driverVars == <<driver, inHand, verdict>>
adapterVars == <<caller, queue, ack, driverVars, gate, fibers>>
allVars == <<ledger, adapterVars>>

AdapterInit ==
    /\ Init
    /\ caller = "ready" /\ queue = <<>> /\ ack = "none"
    /\ driver = "taking" /\ inHand = NoEvent /\ verdict = "done"
    /\ gate = [t \in Tasks |-> "absent"] /\ fibers = {}

(* taskExit: a gate tells a success from everything else.                     *)
ExitOf(o) == IF o = "succeeded" THEN "success" ELSE "failure"
IsComplete(t) == gate[t] \in {"success", "failure"}

(* The driver's loop: take an envelope, apply its event, acknowledge it.      *)
Take ==
    /\ driver = "taking" /\ queue # <<>>
    /\ inHand' = Head(queue) /\ queue' = Tail(queue)
    /\ driver' = "applying"
    /\ UNCHANGED <<ledger, caller, ack, verdict, gate, fibers>>

(* A spawn makes the gate and starts the fiber before the ledger knows of the *)
(* task.                                                                      *)
Fork(t) ==
    /\ driver = "applying" /\ inHand.tag = "spawn" /\ inHand.task = t
    /\ CanSpawn(t, inHand.scope, inHand.program) /\ gate[t] = "absent"
    /\ gate' = [gate EXCEPT ![t] = "pending"]
    /\ fibers' = fibers \cup {t}
    /\ UNCHANGED <<ledger, caller, queue, ack, driverVars>>

(* The ledger is written in one synchronous step; a task that settles has its *)
(* gate completed in the next.                                                *)
AfterRecording_Reply == "replying"             \* settled tasks' gates are left pending
AfterRecording ==
    IF \E t \in Tasks : phase[t] # "terminal" /\ phase'[t] = "terminal"
    THEN "completing" ELSE "replying"
Record(tags) ==
    /\ driver = "applying" /\ inHand.tag \in tags
    /\ Perform(inHand)
    /\ driver' = AfterRecording /\ verdict' = "done"
    /\ UNCHANGED <<inHand, caller, queue, ack, gate, fibers>>
RecordScope == Record({"open_scope", "transfer"})
RecordSpawn == Record({"spawn"}) /\ gate[inHand.task] # "absent"
RecordProgress == Record({"dispatch", "request_cancel", "deliver_cancel"})
RecordExit == Record({"exit_scope"})
Complete ==
    /\ driver = "completing"
    /\ gate' = [gate EXCEPT ![inHand.task] = ExitOf(outcome[inHand.task])]
    /\ driver' = "replying"
    /\ UNCHANGED <<ledger, inHand, verdict, caller, queue, ack, fibers>>

(* A join asks the gate, not the ledger, and compares the two.                *)
Agrees(t) == outcome[t] # "none" /\ gate[t] = ExitOf(outcome[t])
JoinGate(t) ==
    /\ driver = "applying" /\ inHand.tag = "join" /\ inHand.task = t
    /\ t \in Spawned
    /\ IF IsComplete(t) /\ ~Agrees(t)          \* adapter.terminal-mismatch
       THEN rejected' = TRUE /\ verdict' = "refused" /\ UNCHANGED answer
       ELSE /\ answer' = <<t, IF IsComplete(t) THEN outcome[t] ELSE "none">>
            /\ verdict' = "done" /\ UNCHANGED rejected
    /\ driver' = "replying"
    /\ UNCHANGED <<scopeVars, taskVars, totalYields, inHand, caller, queue, ack, gate, fibers>>
Refuse ==
    /\ driver = "applying"
    /\ Reject(inHand)
    /\ driver' = "replying" /\ verdict' = "refused"
    /\ UNCHANGED <<inHand, caller, queue, ack, gate, fibers>>

Reply ==
    /\ driver = "replying"
    /\ ack' = verdict
    /\ driver' = "taking" /\ inHand' = NoEvent /\ verdict' = "done"
    /\ UNCHANGED <<ledger, caller, queue, gate, fibers>>

Driver ==
    \/ Take \/ RecordScope \/ RecordSpawn \/ RecordProgress \/ RecordExit \/ Complete \/ Refuse \/ Reply
    \/ \E t \in Tasks : Fork(t) \/ JoinGate(t)
DriverExits ==
    /\ driver # "exited"
    /\ driver' = "exited"
    /\ UNCHANGED <<ledger, inHand, verdict, caller, queue, ack, gate, fibers>>

(* The caller offers an event and waits: for the acknowledgement or, racing   *)
(* with it, for the driver's end. After the driver's end it looks at the      *)
(* acknowledgement once more.                                                 *)
Offer_Ahead(e) ==                              \* more events while one is under way
    /\ caller \in {"ready", "waiting"} /\ Len(queue) <= 1
    /\ queue' = Append(queue, e) /\ ack' = "pending"
    /\ caller' = "waiting"
    /\ UNCHANGED <<ledger, driverVars, gate, fibers>>
Offer(e) ==
    /\ caller = "ready" /\ queue = <<>>
    /\ queue' = <<e>> /\ ack' = "pending"
    /\ caller' = "waiting"
    /\ UNCHANGED <<ledger, driverVars, gate, fibers>>
Heard == IF ack = "done" THEN "ready" ELSE "refused"
HearReply ==
    /\ caller = "waiting" /\ ack # "pending"
    /\ caller' = Heard
    /\ UNCHANGED <<ledger, driverVars, queue, ack, gate, fibers>>
HearExit_Never == FALSE                        \* only the acknowledgement is awaited
HearExit_AtOnce ==                             \* the acknowledgement is not polled
    /\ caller = "waiting" /\ driver = "exited"
    /\ caller' = "abandoned"
    /\ UNCHANGED <<ledger, driverVars, queue, ack, gate, fibers>>
HearExit ==
    /\ caller = "waiting" /\ driver = "exited"
    /\ caller' = "polling"
    /\ UNCHANGED <<ledger, driverVars, queue, ack, gate, fibers>>
Poll ==
    /\ caller = "polling"
    /\ caller' = IF ack = "pending" THEN "abandoned" ELSE Heard
    /\ UNCHANGED <<ledger, driverVars, queue, ack, gate, fibers>>
Finish ==
    /\ caller = "ready"
    /\ caller' = "finished" /\ driver' = "exited"
    /\ UNCHANGED <<ledger, inHand, verdict, queue, ack, gate, fibers>>

(* However it ends, the ambient scope interrupts the driver and every fiber.  *)
HasEnded == caller \in {"finished", "refused", "abandoned"}
CloseScope ==
    /\ HasEnded
    /\ driver' = "exited" /\ fibers' = {}
    /\ UNCHANGED <<ledger, inHand, verdict, caller, queue, ack, gate>>

FiberEnds(t) ==
    /\ t \in fibers /\ IsComplete(t)
    /\ fibers' = fibers \ {t}
    /\ UNCHANGED <<ledger, driverVars, caller, queue, ack, gate>>

Caller == HearReply \/ HearExit \/ Poll \/ Finish \/ \E e \in Events : Offer(e)
AdapterNext ==
    \/ Driver \/ DriverExits \/ Caller \/ CloseScope
    \/ \E t \in Tasks : FiberEnds(t)

(* The runtime schedules every fiber that can run; nothing obliges a script   *)
(* to have more events, or the driver to end.                                 *)
AdapterSpec ==
    /\ AdapterInit /\ [][AdapterNext]_allVars
    /\ WF_allVars(Driver)
    /\ WF_allVars(HearReply \/ HearExit \/ Poll)
    /\ WF_allVars(CloseScope)
    /\ \A t \in Tasks : WF_allVars(FiberEnds(t))
-----------------------------------------------------------------------------
(* Types; and at most one envelope is ever in the queue, so the caller's      *)
(* offer never waits for room.                                                *)
AdapterTypeOK ==
    /\ caller \in {"ready", "waiting", "polling", "finished", "refused", "abandoned"}
    /\ queue \in Seq(Events) /\ Len(queue) <= 1
    /\ ack \in {"none", "pending", "done", "refused"}
    /\ driver \in {"taking", "applying", "completing", "replying", "exited"}
    /\ inHand \in Events \cup {NoEvent}
    /\ verdict \in {"done", "refused"}
    /\ gate \in [Tasks -> {"absent", "pending", "success", "failure"}]
    /\ fibers \subseteq Tasks

(* The adapter is held to the oracle by running both on the same scripts      *)
(* (src/tests/structured-concurrency-law-tracer.test.ts). Here for every      *)
(* script: each step of the fibers is one event of the oracle, with its       *)
(* effect and its answer to a join, or it changes neither.                    *)
Oracle == INSTANCE StructuredConcurrency
RefinesOracle == Oracle!Spec

(* "A completed acknowledgement wins ties": the caller reports an exited      *)
(* driver only for an event that was never acknowledged, and goes on (or      *)
(* finishes) only after one that was carried out.                             *)
CallerIsToldTheTruth ==
    /\ caller = "abandoned" => ack = "pending" /\ driver = "exited"
    /\ caller \in {"ready", "finished"} => ack # "pending" /\ ~rejected
    /\ caller = "refused" => rejected

(* No event leaves the caller suspended for ever, whenever the driver ends;   *)
(* and once the run is over no fiber outlives it.                             *)
EveryEventIsAnswered ==
    /\ caller \in {"waiting", "polling"} ~> caller \notin {"waiting", "polling"}
    /\ HasEnded ~> (fibers = {} /\ driver = "exited")
=============================================================================
