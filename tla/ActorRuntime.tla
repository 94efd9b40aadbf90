---------------------------- MODULE ActorRuntime ----------------------------
(***************************************************************************)
(* The scoped actor of src/actor/runtime.ts: an unbounded implementation   *)
(* queue whose occupancy is bounded by a capacity semaphore, an acceptance *)
(* gate (a one-permit semaphore), one worker fiber that owns the private   *)
(* state, a bounded diagnostic trace and a Deferred that publishes the     *)
(* closing snapshot.                                                       *)
(*                                                                         *)
(* An action runs from one point where another fiber can observe or change *)
(* the shared state to the next one.  Everything the code does under the   *)
(* acceptance gate is uninterruptible but not atomic: the worker runs      *)
(* between RecordAcceptance and Offer.                                     *)
(***************************************************************************)
EXTENDS Naturals, Sequences, FiniteSets

CONSTANTS
  Senders,          \* fibers that call `send`
  Closers,          \* fibers that call `close`, the scope finalizer included
  MailboxCapacity,  \* definition.mailboxCapacity
  TraceCapacity,    \* definition.traceCapacity
  MaxSequence       \* bound: no send starts once this many were accepted

\* spawn rejects capacities that are not positive safe integers.
ASSUME CapacityAssumption ==
  /\ MailboxCapacity \in Nat \ {0}
  /\ TraceCapacity \in Nat \ {0}

ASSUME ClientAssumption ==
  /\ IsFiniteSet(Senders)
  /\ MaxSequence \in Nat

VARIABLES
  permits,       \* free permits of the `capacity` semaphore
  accepting,     \* "open", "closing" or "transition_failed"
  nextSequence,  \* last sequence number handed out
  mailbox,       \* signals: a message is its sequence number, a close is 0
  receipts,      \* receipts[n]: the Deferred of message n
  trace,         \* the Ref: retained entries and the two lifetime counters
  privateState,  \* the messages the committed transitions have applied
  closed,        \* the Deferred close awaits: NoSnapshot or the snapshot
  sender,        \* where each sending fiber is
  ticket,        \* the sequence number whose receipt a sender awaits
  closer,        \* where each closing fiber is
  worker,        \* where the worker fiber is
  current        \* the message the worker has taken

clientVars == <<sender, ticket, closer>>
workerVars == <<worker, current, privateState>>
vars == <<permits, accepting, nextSequence, mailbox, receipts, trace, closed,
          clientVars, workerVars>>

CloseSignal == 0
NoSnapshot == [kind |-> "pending"]

Outcome == {"pending", "committed", "failed", "not_processed"}
EntryKind == {"accepted", "started", "committed", "transition_failed", "closed"}
Entry == [kind : EntryKind, number : Nat]

(***************************************************************************)
(* Trace retention (trace-retention-internal.ts).                          *)
(***************************************************************************)
emptyActorTraceState == [entries |-> <<>>, totalObserved |-> 0, acceptedCount |-> 0]

\* Fault: the buffer is treated as full only once it has overflowed.
Retain_KeepsOneMore(entries, entry) ==
  IF Len(entries) <= TraceCapacity
  THEN Append(entries, entry)
  ELSE Append(Tail(entries), entry)

\* The newest TraceCapacity entries: the oldest one goes when the buffer is full.
Retain(entries, entry) ==
  IF Len(entries) < TraceCapacity
  THEN Append(entries, entry)
  ELSE Append(Tail(entries), entry)

appendActorObservation(state, entry) ==
  [entries       |-> Retain(state.entries, entry),
   totalObserved |-> state.totalObserved + 1,
   acceptedCount |-> state.acceptedCount]

acceptActorEnvelope(state, sequence) ==
  [entries       |-> Retain(state.entries, [kind |-> "accepted", number |-> sequence]),
   totalObserved |-> state.totalObserved + 1,
   acceptedCount |-> state.acceptedCount + 1]

closeActorTrace(state) ==
  appendActorObservation(state, [kind |-> "closed", number |-> state.acceptedCount])

snapshotActorTrace(state) ==
  [kind            |-> "snapshot",
   entries         |-> state.entries,
   totalObserved   |-> state.totalObserved,
   evicted         |-> state.totalObserved - Len(state.entries),
   acceptedCount   |-> state.acceptedCount,
   completeHistory |-> state.totalObserved = Len(state.entries)]

Observe(kind, sequence) ==
  trace' = appendActorObservation(trace, [kind |-> kind, number |-> sequence])

(***************************************************************************)
(* The acceptance gate: withPermit on a semaphore of one.  Closers and the *)
(* worker hold it within one step; a sender holds it from EnterGate to     *)
(* Offer.                                                                  *)
(***************************************************************************)
InGate(s) == sender[s] \in {"checking", "recorded"}
\* Fault: acceptance runs without the gate.
GateFree_NoGate == TRUE

GateFree == \A s \in Senders : ~InGate(s)

Init ==
  /\ permits = MailboxCapacity
  /\ accepting = "open"
  /\ nextSequence = 0
  /\ mailbox = <<>>
  /\ receipts = <<>>
  /\ trace = emptyActorTraceState
  /\ privateState = <<>>
  /\ closed = NoSnapshot
  /\ sender = [s \in Senders |-> "idle"]
  /\ ticket = [s \in Senders |-> 0]
  /\ closer = [c \in Closers |-> "idle"]
  /\ worker = "idle"
  /\ current = 0

-----------------------------------------------------------------------------
(***************************************************************************)
(* send: accept, then await the receipt.                                   *)
(***************************************************************************)
\* The call; the fiber now waits for a capacity permit.
RequestSend(s) ==
  /\ sender[s] = "idle"
  /\ nextSequence < MaxSequence
  /\ sender' = [sender EXCEPT ![s] = "waiting"]
  /\ UNCHANGED <<permits, accepting, nextSequence, mailbox, receipts, trace,
                 closed, ticket, closer, workerVars>>

\* restore(capacity.take(1)): the only interruptible part of accept.
TakePermit(s) ==
  /\ sender[s] = "waiting"
  /\ permits > 0
  /\ permits' = permits - 1
  /\ sender' = [sender EXCEPT ![s] = "permitted"]
  /\ UNCHANGED <<accepting, nextSequence, mailbox, receipts, trace, closed,
                 ticket, closer, workerVars>>

InterruptSend(s) ==
  /\ sender[s] \in {"waiting", "awaiting"}
  /\ sender' = [sender EXCEPT ![s] = "idle"]
  /\ UNCHANGED <<permits, accepting, nextSequence, mailbox, receipts, trace,
                 closed, ticket, closer, workerVars>>

EnterGate(s) ==
  /\ sender[s] = "permitted"
  /\ GateFree
  /\ sender' = [sender EXCEPT ![s] = "checking"]
  /\ UNCHANGED <<permits, accepting, nextSequence, mailbox, receipts, trace,
                 closed, ticket, closer, workerVars>>

\* Fault: a refused send keeps the permit it was granted.
Refuse_KeepsPermit(s) ==
  /\ sender[s] = "checking"
  /\ accepting # "open"
  /\ sender' = [sender EXCEPT ![s] = "done"]
  /\ UNCHANGED <<permits, accepting, nextSequence, mailbox, receipts, trace,
                 closed, ticket, closer, workerVars>>

\* ActorClosed: the actor no longer accepts.  The permit goes back.
Refuse(s) ==
  /\ sender[s] = "checking"
  /\ accepting # "open"
  /\ permits' = permits + 1
  /\ sender' = [sender EXCEPT ![s] = "done"]
  /\ UNCHANGED <<accepting, nextSequence, mailbox, receipts, trace, closed,
                 ticket, closer, workerVars>>

\* ActorMessageNotTransferable: the message does not survive cloneActorValue.
RejectMessage(s) ==
  /\ sender[s] = "checking"
  /\ accepting = "open"
  /\ permits' = permits + 1
  /\ sender' = [sender EXCEPT ![s] = "done"]
  /\ UNCHANGED <<accepting, nextSequence, mailbox, receipts, trace, closed,
                 ticket, closer, workerVars>>

\* The sequence number, the receipt and the accepted observation.
RecordAcceptance(s) ==
  /\ sender[s] = "checking"
  /\ accepting = "open"
  /\ nextSequence' = nextSequence + 1
  /\ receipts' = Append(receipts, "pending")
  /\ trace' = acceptActorEnvelope(trace, nextSequence + 1)
  /\ ticket' = [ticket EXCEPT ![s] = nextSequence + 1]
  /\ sender' = [sender EXCEPT ![s] = "recorded"]
  /\ UNCHANGED <<permits, accepting, mailbox, closed, closer, workerVars>>

\* Queue.offerUnsafe; the permit now belongs to the envelope, the gate is free.
Offer(s) ==
  /\ sender[s] = "recorded"
  /\ mailbox' = Append(mailbox, ticket[s])
  /\ sender' = [sender EXCEPT ![s] = "awaiting"]
  /\ UNCHANGED <<permits, accepting, nextSequence, receipts, trace, closed,
                 ticket, closer, workerVars>>

\* Deferred.await(envelope.receipt) returns or fails.
ObserveReceipt(s) ==
  /\ sender[s] = "awaiting"
  /\ receipts[ticket[s]] # "pending"
  /\ sender' = [sender EXCEPT ![s] = "idle"]
  /\ UNCHANGED <<permits, accepting, nextSequence, mailbox, receipts, trace,
                 closed, ticket, closer, workerVars>>

(***************************************************************************)
(* close: idempotent, and concurrent with everything else.                 *)
(***************************************************************************)
BeginClose(c) ==
  /\ closer[c] = "idle"
  /\ GateFree
  /\ IF accepting = "open"
     THEN /\ accepting' = "closing"
          /\ mailbox' = Append(mailbox, CloseSignal)
     ELSE UNCHANGED <<accepting, mailbox>>
  /\ closer' = [closer EXCEPT ![c] = "awaiting"]
  /\ UNCHANGED <<permits, nextSequence, receipts, trace, closed, sender,
                 ticket, workerVars>>

\* The closing fiber gets the snapshot, or is interrupted while it awaits it.
EndClose(c) ==
  /\ closer[c] = "awaiting"
  /\ closed # NoSnapshot
  /\ closer' = [closer EXCEPT ![c] = "idle"]
  /\ UNCHANGED <<permits, accepting, nextSequence, mailbox, receipts, trace,
                 closed, sender, ticket, workerVars>>

InterruptClose(c) ==
  /\ closer[c] = "awaiting"
  /\ closed = NoSnapshot
  /\ closer' = [closer EXCEPT ![c] = "idle"]
  /\ UNCHANGED <<permits, accepting, nextSequence, mailbox, receipts, trace,
                 closed, sender, ticket, workerVars>>

(***************************************************************************)
(* The worker loop.                                                        *)
(***************************************************************************)
StartMessage ==
  /\ worker = "idle"
  /\ mailbox # <<>>
  /\ Head(mailbox) # CloseSignal
  /\ mailbox' = Tail(mailbox)
  /\ current' = Head(mailbox)
  /\ Observe("started", Head(mailbox))
  /\ worker' = "running"
  /\ UNCHANGED <<permits, accepting, nextSequence, receipts, closed,
                 privateState, clientVars>>

\* The transition, on a clone of the private state, succeeds.
CommitTransition ==
  /\ worker = "running"
  /\ privateState' = Append(privateState, current)
  /\ Observe("committed", current)
  /\ worker' = "committed"
  /\ UNCHANGED <<permits, accepting, nextSequence, mailbox, receipts, closed,
                 current, clientVars>>

SucceedReceipt ==
  /\ worker = "committed"
  /\ receipts' = [receipts EXCEPT ![current] = "committed"]
  /\ worker' = "settled"
  /\ UNCHANGED <<permits, accepting, nextSequence, mailbox, trace, closed,
                 current, privateState, clientVars>>

\* Fault: the permit of a committed message is not released.
ReleaseCommitted_Forgotten ==
  /\ worker = "settled"
  /\ worker' = "idle"
  /\ UNCHANGED <<permits, accepting, nextSequence, mailbox, receipts, trace,
                 closed, current, privateState, clientVars>>

ReleaseCommitted ==
  /\ worker = "settled"
  /\ permits' = permits + 1
  /\ worker' = "idle"
  /\ UNCHANGED <<accepting, nextSequence, mailbox, receipts, trace, closed,
                 current, privateState, clientVars>>

\* A clone or the transition fails, or the transition is interrupted.
FailTransition ==
  /\ worker = "running"
  /\ Observe("transition_failed", current)
  /\ worker' = "failing"
  /\ UNCHANGED <<permits, accepting, nextSequence, mailbox, receipts, closed,
                 current, privateState, clientVars>>

\* Fault: the failed state is not established under the gate.
StopAccepting_NoGate ==
  /\ worker = "failing"
  /\ accepting' = "transition_failed"
  /\ worker' = "stopped"
  /\ UNCHANGED <<permits, nextSequence, mailbox, receipts, trace, closed,
                 current, privateState, clientVars>>

\* acceptanceGate.withPermit: failure overrides a close already requested.
StopAccepting ==
  /\ worker = "failing"
  /\ GateFree
  /\ accepting' = "transition_failed"
  /\ worker' = "stopped"
  /\ UNCHANGED <<permits, nextSequence, mailbox, receipts, trace, closed,
                 current, privateState, clientVars>>

FailReceipt ==
  /\ worker = "stopped"
  /\ receipts' = [receipts EXCEPT ![current] = "failed"]
  /\ worker' = "failed"
  /\ UNCHANGED <<permits, accepting, nextSequence, mailbox, trace, closed,
                 current, privateState, clientVars>>

ReleaseFailed ==
  /\ worker = "failed"
  /\ permits' = permits + 1
  /\ worker' = "draining"
  /\ UNCHANGED <<accepting, nextSequence, mailbox, receipts, trace, closed,
                 current, privateState, clientVars>>

\* Fault: the receipts of drained envelopes are left pending.
FailPending_KeepsReceipt ==
  /\ worker = "draining"
  /\ mailbox # <<>>
  /\ mailbox' = Tail(mailbox)
  /\ permits' = IF Head(mailbox) = CloseSignal THEN permits ELSE permits + 1
  /\ UNCHANGED <<accepting, nextSequence, receipts, trace, closed, workerVars,
                 clientVars>>

\* One turn of failPending's loop; a close signal in the queue is dropped.
FailPending ==
  /\ worker = "draining"
  /\ mailbox # <<>>
  /\ mailbox' = Tail(mailbox)
  /\ IF Head(mailbox) = CloseSignal
     THEN UNCHANGED <<receipts, permits>>
     ELSE /\ receipts' = [receipts EXCEPT ![Head(mailbox)] = "not_processed"]
          /\ permits' = permits + 1
  /\ UNCHANGED <<accepting, nextSequence, trace, closed, workerVars,
                 clientVars>>

\* finishClosed, reached by the close signal or when the mailbox is drained.
FinishClosed ==
  /\ \/ /\ worker = "idle"
        /\ mailbox # <<>>
        /\ Head(mailbox) = CloseSignal
        /\ mailbox' = Tail(mailbox)
     \/ /\ worker = "draining"
        /\ mailbox = <<>>
        /\ UNCHANGED mailbox
  /\ trace' = IF \E i \in DOMAIN trace.entries : trace.entries[i].kind = "closed"
              THEN trace
              ELSE closeActorTrace(trace)
  /\ worker' = "closing"
  /\ UNCHANGED <<permits, accepting, nextSequence, receipts, closed, current,
                 privateState, clientVars>>

PublishSnapshot ==
  /\ worker = "closing"
  /\ closed' = snapshotActorTrace(trace)
  /\ worker' = "exited"
  /\ UNCHANGED <<permits, accepting, nextSequence, mailbox, receipts, trace,
                 current, privateState, clientVars>>

-----------------------------------------------------------------------------
SenderStep(s) ==
  \/ TakePermit(s) \/ EnterGate(s) \/ Refuse(s) \/ RejectMessage(s)
  \/ RecordAcceptance(s) \/ Offer(s) \/ ObserveReceipt(s)

WorkerStep ==
  \/ StartMessage \/ CommitTransition \/ SucceedReceipt \/ ReleaseCommitted
  \/ FailTransition \/ StopAccepting \/ FailReceipt \/ ReleaseFailed
  \/ FailPending \/ FinishClosed \/ PublishSnapshot

Next ==
  \/ \E s \in Senders : RequestSend(s) \/ InterruptSend(s) \/ SenderStep(s)
  \/ \E c \in Closers : BeginClose(c) \/ EndClose(c) \/ InterruptClose(c)
  \/ WorkerStep

Spec == Init /\ [][Next]_vars

(***************************************************************************)
(* The Effect scheduler runs every runnable fiber again and a transition   *)
(* terminates: weak fairness of each fiber's next step.  Nothing obliges a *)
(* caller to start a send or a close, or to be interrupted.                *)
(***************************************************************************)
Fairness ==
  /\ \A s \in Senders : WF_vars(SenderStep(s))
  /\ \A c \in Closers : WF_vars(EndClose(c))
  /\ WF_vars(WorkerStep)

FairSpec == Spec /\ Fairness
-----------------------------------------------------------------------------
(***************************************************************************)
(* Correctness.                                                            *)
(***************************************************************************)
\* Every variable stays in its range; the trace buffer never outgrows its
\* declared capacity (design-specs/0013).
TypeOK ==
  /\ permits \in 0..MailboxCapacity
  /\ accepting \in {"open", "closing", "transition_failed"}
  /\ nextSequence \in Nat
  /\ mailbox \in Seq(Nat)
  /\ receipts \in Seq(Outcome)
  /\ trace \in [entries : Seq(Entry), totalObserved : Nat, acceptedCount : Nat]
  /\ Len(trace.entries) <= TraceCapacity
  /\ privateState \in Seq(Nat)
  /\ closed # NoSnapshot => closed.kind = "snapshot"
  /\ sender \in [Senders -> {"idle", "waiting", "permitted", "checking",
                             "recorded", "awaiting", "done"}]
  /\ ticket \in [Senders -> Nat]
  /\ closer \in [Closers -> {"idle", "awaiting"}]
  /\ worker \in {"idle", "running", "committed", "settled", "failing",
                 "stopped", "failed", "draining", "closing", "exited"}
  /\ current \in Nat

PermitHolders == {s \in Senders : sender[s] = "permitted" \/ InGate(s)}
MessageCount(signals) ==
  IF signals # <<>> /\ signals[Len(signals)] = CloseSignal
  THEN Len(signals) - 1 ELSE Len(signals)
Queued == MessageCount(mailbox)
Held == IF worker \in {"running", "committed", "settled", "failing", "stopped", "failed"}
        THEN 1 ELSE 0

\* No permit of the capacity semaphore is lost or duplicated, whichever way a
\* send, a transition or the shutdown ends: each one is free, held by a sender
\* that was granted it, carried by a queued envelope, or held by the worker.
PermitConservation ==
  permits + Cardinality(PermitHolders) + Queued + Held = MailboxCapacity

Settled(n) == receipts[n] # "pending"
Unsettled == worker \in {"running", "committed", "failing", "stopped"}
Recorded == \E s \in Senders : sender[s] = "recorded"

\* Receiver FIFO: queued envelopes are the newest accepted messages in
\* acceptance order, a close signal only ever comes last, everything older than
\* the queue and the worker's message is settled, and the private state is the
\* fold of exactly the committed messages, in acceptance order.
FifoDelivery ==
  /\ Len(receipts) = nextSequence
  /\ \A i \in 1..Queued :
       mailbox[i] = nextSequence - Queued + i - (IF Recorded THEN 1 ELSE 0)
  /\ \A n \in 1..nextSequence :
       Settled(n) <=> /\ \A i \in 1..Queued : mailbox[i] # n
                      /\ ~(Unsettled /\ current = n)
                      /\ ~\E s \in Senders : sender[s] = "recorded" /\ ticket[s] = n
  /\ \A n \in DOMAIN privateState : privateState[n] = n
  /\ \A n \in 1..nextSequence :
       receipts[n] = "committed" <=>
         n <= Len(privateState) - (IF worker = "committed" THEN 1 ELSE 0)

Count(outcome) == Cardinality({n \in DOMAIN receipts : receipts[n] = outcome})
Position(kind, n) ==
  {i \in DOMAIN trace.entries : trace.entries[i] = [kind |-> kind, number |-> n]}

\* The published snapshot is final and exact: every accepted message has been
\* settled, the counters account for every observation of the actor's life even
\* when entries were evicted, the closed entry is the last one, and no retained
\* entry precedes what it is a consequence of.
SnapshotFaithful ==
  closed # NoSnapshot =>
    /\ ~\E n \in DOMAIN receipts : receipts[n] = "pending"
    /\ mailbox = <<>>
    /\ closed = snapshotActorTrace(trace)
    /\ closed.acceptedCount = nextSequence
    /\ closed.totalObserved =
         nextSequence + 2 * Count("committed") + 2 * Count("failed") + 1
    /\ closed.entries[Len(closed.entries)] =
         [kind |-> "closed", number |-> nextSequence]
    /\ \A n \in 1..nextSequence :
         /\ \A i \in Position("accepted", n), j \in Position("started", n) : i < j
         /\ \A i \in Position("started", n),
               j \in Position("committed", n) \cup Position("transition_failed", n) : i < j

\* Once anybody can learn that a transition failed, or holds the closing
\* snapshot, no message is accepted any more (design-specs/0012, revision 5).
FailureStopsAcceptance ==
  [][closed # NoSnapshot \/ (\E n \in DOMAIN receipts : receipts[n] = "failed")
       => nextSequence' = nextSequence]_vars

\* A sender blocked on a full mailbox is eventually served or interrupted,
\* during and after a shutdown included.
WaitingServed == \A s \in Senders : sender[s] = "waiting" ~> sender[s] # "waiting"

\* The runtime implements what ActorContract promises, its liveness included:
\* every accepted message is eventually settled and every close answered.
Contract == INSTANCE ActorContract WITH closed <- closed # NoSnapshot
ImplementsContract == Contract!FairSpec
=============================================================================
