------------------------- MODULE ActorRuntimeProofs -------------------------
(***************************************************************************)
(* Proofs about ActorRuntime for every set of senders and closers and      *)
(* every pair of capacities.  The invariants are proved in layers, each    *)
(* using the ones below it: types, the gate, the shutdown protocol, the    *)
(* permits of the mailbox.                                                 *)
(***************************************************************************)
EXTENDS ActorRuntime, FiniteSetTheorems, SequenceTheorems, TLAPS

SenderActions(s) ==
  \/ RequestSend(s) \/ TakePermit(s) \/ InterruptSend(s) \/ EnterGate(s)
  \/ Refuse(s) \/ RejectMessage(s) \/ RecordAcceptance(s) \/ Offer(s)
  \/ ObserveReceipt(s)

CloserActions(c) == BeginClose(c) \/ EndClose(c) \/ InterruptClose(c)

LEMMA NextCases ==
  Next <=> \/ \E s \in Senders : SenderActions(s)
           \/ \E c \in Closers : CloserActions(c)
           \/ WorkerStep
BY DEF Next, SenderActions, SenderStep, CloserActions

-----------------------------------------------------------------------------
(* The trace buffer. *)

\* What a bounded append returns: a buffer of entries within its capacity.
LEMMA RetainProperties ==
  ASSUME NEW entries \in Seq(Entry), Len(entries) <= TraceCapacity,
         NEW entry \in Entry
  PROVE  /\ Retain(entries, entry) \in Seq(Entry)
         /\ Len(Retain(entries, entry)) <= TraceCapacity
<1>1. CASE Len(entries) < TraceCapacity
  BY <1>1, CapacityAssumption DEF Retain
<1>2. CASE ~(Len(entries) < TraceCapacity)
  <2>1. entries # <<>>
    BY <1>2, CapacityAssumption
  <2>2. Tail(entries) \in Seq(Entry) /\ Len(Tail(entries)) = Len(entries) - 1
    BY <2>1
  <2> QED BY <1>2, <2>2, CapacityAssumption DEF Retain
<1> QED BY <1>1, <1>2

TraceTyped(t) ==
  /\ t \in [entries : Seq(Entry), totalObserved : Nat, acceptedCount : Nat]
  /\ Len(t.entries) <= TraceCapacity

LEMMA AppendTyped ==
  ASSUME NEW t, TraceTyped(t), NEW entry \in Entry
  PROVE  TraceTyped(appendActorObservation(t, entry))
BY RetainProperties DEF TraceTyped, appendActorObservation

LEMMA AcceptTyped ==
  ASSUME NEW t, TraceTyped(t), NEW n \in Nat
  PROVE  TraceTyped(acceptActorEnvelope(t, n))
BY RetainProperties, [kind |-> "accepted", number |-> n] \in Entry
   DEF TraceTyped, acceptActorEnvelope, Entry, EntryKind

LEMMA CloseTyped ==
  ASSUME NEW t, TraceTyped(t)
  PROVE  TraceTyped(closeActorTrace(t))
BY AppendTyped, [kind |-> "closed", number |-> t.acceptedCount] \in Entry
   DEF TraceTyped, closeActorTrace, Entry, EntryKind

-----------------------------------------------------------------------------
(* Layer 1: types, without the upper bound on the free permits. *)

TypeInv ==
  /\ permits \in Nat
  /\ accepting \in {"open", "closing", "transition_failed"}
  /\ nextSequence \in Nat
  /\ mailbox \in Seq(Nat)
  /\ receipts \in Seq(Outcome)
  /\ TraceTyped(trace)
  /\ privateState \in Seq(Nat)
  /\ closed # NoSnapshot => closed.kind = "snapshot"
  /\ sender \in [Senders -> {"idle", "waiting", "permitted", "checking",
                             "recorded", "awaiting", "done"}]
  /\ ticket \in [Senders -> Nat]
  /\ closer \in [Closers -> {"idle", "awaiting"}]
  /\ worker \in {"idle", "running", "committed", "settled", "failing",
                 "stopped", "failed", "draining", "closing", "exited"}
  /\ current \in Nat

LEMMA InitType == Init => TypeInv
BY CapacityAssumption
   DEF Init, TypeInv, TraceTyped, emptyActorTraceState, Outcome, Entry, NoSnapshot

LEMMA SenderType ==
  ASSUME TypeInv, NEW s \in Senders, SenderActions(s)
  PROVE  TypeInv'
<1> USE DEF TypeInv
<1>1. CASE RequestSend(s) BY <1>1 DEF RequestSend, workerVars
<1>2. CASE TakePermit(s) BY <1>2 DEF TakePermit, workerVars
<1>3. CASE InterruptSend(s) BY <1>3 DEF InterruptSend, workerVars
<1>4. CASE EnterGate(s) BY <1>4 DEF EnterGate, workerVars
<1>5. CASE Refuse(s) BY <1>5 DEF Refuse, workerVars
<1>6. CASE RejectMessage(s) BY <1>6 DEF RejectMessage, workerVars
<1>7. CASE RecordAcceptance(s)
  <2>1. TraceTyped(trace')
    BY <1>7, AcceptTyped, nextSequence + 1 \in Nat DEF RecordAcceptance
  <2>2. receipts' \in Seq(Outcome)
    BY <1>7 DEF RecordAcceptance, Outcome
  <2> QED BY <1>7, <2>1, <2>2 DEF RecordAcceptance, workerVars
<1>8. CASE Offer(s) BY <1>8 DEF Offer, workerVars
<1>9. CASE ObserveReceipt(s) BY <1>9 DEF ObserveReceipt, workerVars
<1> QED BY <1>1, <1>2, <1>3, <1>4, <1>5, <1>6, <1>7, <1>8, <1>9 DEF SenderActions

LEMMA CloserType ==
  ASSUME TypeInv, NEW c \in Closers, CloserActions(c)
  PROVE  TypeInv'
<1> USE DEF TypeInv, workerVars
<1>1. CASE BeginClose(c)
  <2>1. mailbox' = mailbox \/ mailbox' = Append(mailbox, 0)
    BY <1>1 DEF BeginClose, CloseSignal
  <2>2. Append(mailbox, 0) \in Seq(Nat)
    BY AppendProperties
  <2>3. mailbox' \in Seq(Nat)
    BY <2>1, <2>2
  <2> QED BY <1>1, <2>3 DEF BeginClose
<1>2. CASE EndClose(c) BY <1>2 DEF EndClose
<1>3. CASE InterruptClose(c) BY <1>3 DEF InterruptClose
<1> QED BY <1>1, <1>2, <1>3 DEF CloserActions

\* Every worker step that writes to the trace appends an entry.
LEMMA ObserveTyped ==
  ASSUME TypeInv, NEW kind \in EntryKind, NEW n \in Nat, Observe(kind, n)
  PROVE  TraceTyped(trace')
BY AppendTyped, [kind |-> kind, number |-> n] \in Entry DEF TypeInv, Observe, Entry

\* Settling a receipt leaves a sequence of outcomes, as long as it was.
LEMMA SettleTyped ==
  ASSUME NEW r \in Seq(Outcome), NEW n, NEW o \in Outcome
  PROVE  /\ [r EXCEPT ![n] = o] \in Seq(Outcome)
         /\ Len([r EXCEPT ![n] = o]) = Len(r)
<1>1. CASE n \in 1..Len(r)
  BY <1>1, ExceptSeq
<1>2. CASE n \notin 1..Len(r)
  <2>1. r \in [1..Len(r) -> Outcome]
    BY LenProperties
  <2>2. [r EXCEPT ![n] = o] = r
    BY <1>2, <2>1
  <2> QED BY <2>2
<1> QED BY <1>1, <1>2

LEMMA WorkerType ==
  ASSUME TypeInv, WorkerStep
  PROVE  TypeInv'
<1> USE DEF TypeInv, clientVars
<1>1. CASE StartMessage
  <2>1. Head(mailbox) \in Nat /\ Tail(mailbox) \in Seq(Nat)
    BY <1>1 DEF StartMessage
  <2>2. TraceTyped(trace')
    BY <1>1, <2>1, ObserveTyped DEF StartMessage, EntryKind
  <2> QED BY <1>1, <2>1, <2>2 DEF StartMessage
<1>2. CASE CommitTransition
  <2>1. TraceTyped(trace')
    BY <1>2, ObserveTyped DEF CommitTransition, EntryKind
  <2> QED BY <1>2, <2>1 DEF CommitTransition
<1>3. CASE SucceedReceipt
  <2>1. receipts' \in Seq(Outcome)
    BY <1>3, SettleTyped, "committed" \in Outcome DEF SucceedReceipt, Outcome
  <2> QED BY <1>3, <2>1 DEF SucceedReceipt
<1>4. CASE ReleaseCommitted BY <1>4 DEF ReleaseCommitted
<1>5. CASE FailTransition
  <2>1. TraceTyped(trace')
    BY <1>5, ObserveTyped DEF FailTransition, EntryKind
  <2> QED BY <1>5, <2>1 DEF FailTransition
<1>6. CASE StopAccepting BY <1>6 DEF StopAccepting
<1>7. CASE FailReceipt
  <2>1. receipts' \in Seq(Outcome)
    BY <1>7, SettleTyped, "failed" \in Outcome DEF FailReceipt, Outcome
  <2> QED BY <1>7, <2>1 DEF FailReceipt
<1>8. CASE ReleaseFailed BY <1>8 DEF ReleaseFailed
<1>9. CASE FailPending
  <2>1. [receipts EXCEPT ![Head(mailbox)] = "not_processed"] \in Seq(Outcome)
    BY SettleTyped, "not_processed" \in Outcome DEF Outcome
  <2>2. receipts' \in Seq(Outcome)
    BY <1>9, <2>1 DEF FailPending
  <2>3. mailbox' \in Seq(Nat)
    BY <1>9, HeadTailProperties DEF FailPending
  <2>4. permits' \in Nat
    BY <1>9 DEF FailPending
  <2> QED BY <1>9, <2>2, <2>3, <2>4 DEF FailPending, workerVars
<1>10. CASE FinishClosed
  <2>1. TraceTyped(trace')
    BY <1>10, CloseTyped DEF FinishClosed
  <2>2. mailbox' = mailbox \/ (mailbox # <<>> /\ mailbox' = Tail(mailbox))
    BY <1>10 DEF FinishClosed
  <2>3. mailbox' \in Seq(Nat)
    BY <2>2, HeadTailProperties
  <2> QED BY <1>10, <2>1, <2>3 DEF FinishClosed
<1>11. CASE PublishSnapshot BY <1>11 DEF PublishSnapshot, snapshotActorTrace
<1> QED BY <1>1, <1>2, <1>3, <1>4, <1>5, <1>6, <1>7, <1>8, <1>9, <1>10, <1>11
        DEF WorkerStep

LEMMA TypeInvariant == Spec => []TypeInv
<1>1. TypeInv /\ [Next]_vars => TypeInv'
  <2> SUFFICES ASSUME TypeInv, [Next]_vars PROVE TypeInv'
    OBVIOUS
  <2>1. CASE Next
    BY <2>1, NextCases, SenderType, CloserType, WorkerType
  <2>2. CASE UNCHANGED vars
    BY <2>2 DEF TypeInv, vars, clientVars, workerVars
  <2> QED BY <2>1, <2>2
<1> QED BY <1>1, InitType, PTL DEF Spec

-----------------------------------------------------------------------------
(* Layer 2: the acceptance gate admits one sender, and what that sender     *)
(* recorded is still the newest sequence number when it offers it.          *)

GateInv ==
  /\ \A s, t \in Senders : InGate(s) /\ InGate(t) => s = t
  /\ \A s \in Senders : sender[s] = "recorded" =>
       accepting = "open" /\ ticket[s] = nextSequence /\ nextSequence # 0

\* What a worker step leaves alone, and when it may touch `accepting`.
LEMMA WorkerFrame ==
  ASSUME WorkerStep
  PROVE  /\ UNCHANGED <<sender, ticket, closer, nextSequence>>
         /\ \/ accepting' = accepting
            \/ GateFree /\ accepting' = "transition_failed"
BY DEF WorkerStep, StartMessage, CommitTransition, SucceedReceipt, ReleaseCommitted,
       FailTransition, StopAccepting, FailReceipt, ReleaseFailed, FailPending,
       FinishClosed, PublishSnapshot, workerVars, clientVars

LEMMA CloserFrame ==
  ASSUME NEW c \in Closers, CloserActions(c)
  PROVE  /\ UNCHANGED <<sender, ticket, nextSequence, receipts, permits, trace,
                        closed, workerVars>>
         /\ \/ UNCHANGED <<accepting, mailbox>>
            \/ /\ GateFree
               /\ accepting = "open"
               /\ accepting' = "closing"
               /\ mailbox' = Append(mailbox, CloseSignal)
BY DEF CloserActions, BeginClose, EndClose, InterruptClose

LEMMA GateInvariant == Spec => []GateInv
<1>1. Init => GateInv
  BY DEF Init, GateInv, InGate
<1>2. TypeInv /\ GateInv /\ [Next]_vars => GateInv'
  <2> SUFFICES ASSUME TypeInv, GateInv, [Next]_vars PROVE GateInv'
    OBVIOUS
  <2>1. ASSUME NEW s \in Senders, SenderActions(s) PROVE GateInv'
    <3> USE DEF GateInv, InGate, TypeInv
    <3>1. CASE RequestSend(s) BY <3>1 DEF RequestSend
    <3>2. CASE TakePermit(s) BY <3>2 DEF TakePermit
    <3>3. CASE InterruptSend(s) BY <3>3 DEF InterruptSend
    <3>4. CASE EnterGate(s) BY <3>4 DEF EnterGate, GateFree
    <3>5. CASE Refuse(s) BY <3>5 DEF Refuse
    <3>6. CASE RejectMessage(s) BY <3>6 DEF RejectMessage
    <3>7. CASE RecordAcceptance(s) BY <3>7 DEF RecordAcceptance
    <3>8. CASE Offer(s) BY <3>8 DEF Offer
    <3>9. CASE ObserveReceipt(s) BY <3>9 DEF ObserveReceipt
    <3> QED BY <2>1, <3>1, <3>2, <3>3, <3>4, <3>5, <3>6, <3>7, <3>8, <3>9
            DEF SenderActions
  <2>2. ASSUME NEW c \in Closers, CloserActions(c) PROVE GateInv'
    BY <2>2, CloserFrame DEF GateInv, GateFree, InGate
  <2>3. CASE WorkerStep
    BY <2>3, WorkerFrame DEF GateInv, GateFree, InGate
  <2>4. CASE UNCHANGED vars
    BY <2>4 DEF vars, clientVars, GateInv, InGate
  <2> QED BY <2>1, <2>2, <2>3, <2>4, NextCases
<1> QED BY <1>1, <1>2, TypeInvariant, PTL DEF Spec

-----------------------------------------------------------------------------
(* Layer 3: the shutdown protocol. *)

CloseSignalLast ==
  \A i \in 1..Len(mailbox) :
    mailbox[i] = CloseSignal => i = Len(mailbox) /\ accepting # "open"

ShutdownInv ==
  /\ CloseSignalLast
  /\ worker \in {"stopped", "failed", "draining"} => accepting = "transition_failed"
  /\ worker \in {"closing", "exited"} => accepting # "open"
  /\ closed # NoSnapshot => worker = "exited"
  /\ \A n \in 1..Len(receipts) :
       receipts[n] = "failed" => accepting = "transition_failed"

\* A queue that loses its head keeps its close signal last.
LEMMA TailKeepsCloseLast ==
  ASSUME TypeInv, CloseSignalLast, mailbox # <<>>, mailbox' = Tail(mailbox),
         accepting' = accepting
  PROVE  CloseSignalLast'
<1> DEFINE n == Len(mailbox)
           np == Len(mailbox')
<1>1. np = n - 1 /\ n \in Nat
  BY HeadTailProperties, LenProperties DEF TypeInv
<1>2. \A i \in 1..np : mailbox'[i] = mailbox[i + 1]
  BY HeadTailProperties DEF TypeInv
<1>3. \A i \in 1..n : mailbox[i] = CloseSignal => i = n /\ accepting # "open"
  BY DEF CloseSignalLast
<1> HIDE DEF n, np
<1>4. ASSUME NEW i \in 1..np, mailbox'[i] = CloseSignal
      PROVE  i = np /\ accepting' # "open"
  <2>1. i + 1 \in 1..n
    BY <1>1, <1>4
  <2>2. mailbox[i + 1] = CloseSignal
    BY <1>2, <1>4
  <2>3. i + 1 = n /\ accepting # "open"
    BY <1>3, <2>1, <2>2
  <2> QED BY <1>1, <2>3
<1> QED BY <1>4 DEF CloseSignalLast, np

LEMMA SenderShutdown ==
  ASSUME TypeInv, GateInv, ShutdownInv, NEW s \in Senders, SenderActions(s)
  PROVE  ShutdownInv'
<1> USE DEF ShutdownInv
<1>1. CASE RecordAcceptance(s)
  <2>1. receipts' = Append(receipts, "pending") /\ accepting = "open"
    BY <1>1 DEF RecordAcceptance
  <2>2. /\ Len(receipts') = Len(receipts) + 1
        /\ \A n \in 1..Len(receipts) : receipts'[n] = receipts[n]
        /\ receipts'[Len(receipts) + 1] = "pending"
    BY <2>1, AppendProperties, "pending" \in Outcome DEF TypeInv, Outcome
  <2> QED BY <1>1, <2>1, <2>2 DEF RecordAcceptance, CloseSignalLast, workerVars, TypeInv
<1>2. CASE Offer(s)
  <2>1. /\ mailbox' = Append(mailbox, ticket[s])
        /\ ticket[s] \in Nat /\ ticket[s] # CloseSignal /\ accepting = "open"
    BY <1>2 DEF Offer, GateInv, TypeInv, CloseSignal
  <2>2. /\ Len(mailbox') = Len(mailbox) + 1
        /\ \A i \in 1..Len(mailbox) : mailbox'[i] = mailbox[i]
        /\ mailbox'[Len(mailbox) + 1] = ticket[s]
    BY <2>1, AppendProperties DEF TypeInv
  <2>3. CloseSignalLast'
    BY <1>2, <2>1, <2>2 DEF Offer, CloseSignalLast, TypeInv
  <2> QED BY <1>2, <2>3 DEF Offer, workerVars
<1>3. CASE ~RecordAcceptance(s) /\ ~Offer(s)
  BY <1>3 DEF SenderActions, RequestSend, TakePermit, InterruptSend, EnterGate,
     Refuse, RejectMessage, ObserveReceipt, CloseSignalLast, workerVars
<1> QED BY <1>1, <1>2, <1>3

LEMMA CloserShutdown ==
  ASSUME TypeInv, ShutdownInv, NEW c \in Closers, CloserActions(c)
  PROVE  ShutdownInv'
<1>1. CASE UNCHANGED <<accepting, mailbox>>
  BY <1>1, CloserFrame DEF ShutdownInv, CloseSignalLast, workerVars
<1>2. CASE ~UNCHANGED <<accepting, mailbox>>
  <2>1. /\ accepting = "open" /\ accepting' = "closing"
        /\ mailbox' = Append(mailbox, CloseSignal)
    BY <1>2, CloserFrame
  <2>2. /\ Len(mailbox') = Len(mailbox) + 1
        /\ \A i \in 1..Len(mailbox) : mailbox'[i] = mailbox[i]
    BY <2>1, AppendProperties DEF TypeInv, CloseSignal
  <2> QED BY <2>1, <2>2, CloserFrame
          DEF ShutdownInv, CloseSignalLast, workerVars, TypeInv
<1> QED BY <1>1, <1>2

LEMMA WorkerShutdown ==
  ASSUME TypeInv, ShutdownInv, WorkerStep
  PROVE  ShutdownInv'
<1> USE DEF ShutdownInv, clientVars
<1>1. CASE StartMessage
  BY <1>1, TailKeepsCloseLast DEF StartMessage
<1>2. CASE CommitTransition BY <1>2 DEF CommitTransition, CloseSignalLast
<1>3. CASE SucceedReceipt
  BY <1>3, SettleTyped DEF SucceedReceipt, CloseSignalLast, TypeInv, Outcome
<1>4. CASE ReleaseCommitted BY <1>4 DEF ReleaseCommitted, CloseSignalLast
<1>5. CASE FailTransition BY <1>5 DEF FailTransition, CloseSignalLast
<1>6. CASE StopAccepting BY <1>6 DEF StopAccepting, CloseSignalLast
<1>7. CASE FailReceipt
  BY <1>7, SettleTyped DEF FailReceipt, CloseSignalLast, TypeInv, Outcome
<1>8. CASE ReleaseFailed BY <1>8 DEF ReleaseFailed, CloseSignalLast
<1>9. CASE FailPending
  <2>1. CloseSignalLast'
    BY <1>9, TailKeepsCloseLast DEF FailPending
  <2> QED BY <1>9, <2>1, SettleTyped DEF FailPending, TypeInv, Outcome, workerVars
<1>10. CASE FinishClosed
  <2>1. CloseSignalLast'
    BY <1>10, TailKeepsCloseLast DEF FinishClosed, CloseSignalLast
  <2>2. accepting # "open"
    BY <1>10, HeadTailProperties DEF FinishClosed, CloseSignalLast, TypeInv
  <2> QED BY <1>10, <2>1, <2>2 DEF FinishClosed
<1>11. CASE PublishSnapshot BY <1>11 DEF PublishSnapshot, CloseSignalLast
<1> QED BY <1>1, <1>2, <1>3, <1>4, <1>5, <1>6, <1>7, <1>8, <1>9, <1>10, <1>11
        DEF WorkerStep

LEMMA ShutdownInvariant == Spec => []ShutdownInv
<1>1. Init => ShutdownInv
  BY DEF Init, ShutdownInv, CloseSignalLast
<1>2. TypeInv /\ GateInv /\ ShutdownInv /\ [Next]_vars => ShutdownInv'
  <2> SUFFICES ASSUME TypeInv, GateInv, ShutdownInv, [Next]_vars PROVE ShutdownInv'
    OBVIOUS
  <2>1. CASE UNCHANGED vars
    BY <2>1 DEF vars, clientVars, workerVars, ShutdownInv, CloseSignalLast
  <2> QED BY <2>1, NextCases, SenderShutdown, CloserShutdown, WorkerShutdown
<1> QED BY <1>1, <1>2, TypeInvariant, GateInvariant, PTL DEF Spec

\* Once a receipt has failed or the closing snapshot is published, no message
\* is accepted any more (StopAccepting before FailReceipt, close's signal last).
THEOREM FailureStopsAcceptanceHolds == Spec => FailureStopsAcceptance
<1>1. TypeInv /\ ShutdownInv /\ [Next]_vars
        => [closed # NoSnapshot \/ (\E n \in DOMAIN receipts : receipts[n] = "failed")
              => nextSequence' = nextSequence]_vars
  <2> SUFFICES ASSUME TypeInv, ShutdownInv, Next,
                      closed # NoSnapshot \/ (\E n \in DOMAIN receipts : receipts[n] = "failed")
               PROVE  nextSequence' = nextSequence
    BY DEF vars
  <2>1. accepting # "open"
    BY LenProperties DEF ShutdownInv, TypeInv
  <2>2. ASSUME NEW s \in Senders, SenderActions(s) PROVE nextSequence' = nextSequence
    BY <2>1, <2>2 DEF SenderActions, RequestSend, TakePermit, InterruptSend, EnterGate,
       Refuse, RejectMessage, RecordAcceptance, Offer, ObserveReceipt
  <2> QED BY <2>2, NextCases, CloserFrame, WorkerFrame
<1> QED BY <1>1, TypeInvariant, ShutdownInvariant, PTL DEF Spec, FailureStopsAcceptance

-----------------------------------------------------------------------------
(* Layer 4: the permits of the mailbox. *)

\* What the queue operations do to the number of queued messages.
LEMMA MessageCountAppend ==
  ASSUME NEW m \in Seq(Nat), NEW signal \in Nat,
         \A i \in 1..Len(m) : m[i] # CloseSignal
  PROVE  MessageCount(Append(m, signal)) =
           MessageCount(m) + (IF signal = CloseSignal THEN 0 ELSE 1)
<1> DEFINE a == Append(m, signal)
<1>1. a # <<>> /\ Len(a) = Len(m) + 1 /\ a[Len(m) + 1] = signal
  BY AppendProperties
<1>2. Len(m) \in Nat
  BY LenProperties
<1>3. MessageCount(m) = Len(m)
  <2>1. m # <<>> => Len(m) \in 1..Len(m)
    BY EmptySeq
  <2> QED BY <2>1 DEF MessageCount
<1>4. MessageCount(a) = IF a # <<>> /\ a[Len(a)] = CloseSignal THEN Len(a) - 1 ELSE Len(a)
  BY DEF MessageCount
<1> HIDE DEF a
<1>5. MessageCount(a) = Len(m) + (IF signal = CloseSignal THEN 0 ELSE 1)
  BY <1>1, <1>2, <1>4
<1> QED BY <1>3, <1>5 DEF a

LEMMA MessageCountTail ==
  ASSUME NEW m \in Seq(Nat), m # <<>>,
         \A i \in 1..Len(m) : m[i] = CloseSignal => i = Len(m)
  PROVE  MessageCount(Tail(m)) =
           MessageCount(m) - (IF Head(m) = CloseSignal THEN 0 ELSE 1)
<1> DEFINE t == Tail(m)
           n == Len(m)
<1>1. t \in Seq(Nat) /\ Len(t) = n - 1
  BY HeadTailProperties
<1>2. \A i \in 1..Len(t) : t[i] = m[i + 1]
  BY HeadTailProperties
<1>3. n \in Nat \ {0}
  BY EmptySeq
<1>4. Head(m) = m[1]
  OBVIOUS
<1>5. (t = <<>>) <=> (Len(t) = 0)
  BY <1>1, EmptySeq
<1>6. MessageCount(m) = IF m[n] = CloseSignal THEN n - 1 ELSE n
  BY DEF MessageCount
<1>7. MessageCount(t) = IF t # <<>> /\ t[Len(t)] = CloseSignal THEN Len(t) - 1 ELSE Len(t)
  BY DEF MessageCount
<1>8. \A i \in 1..n : m[i] = CloseSignal => i = n
  OBVIOUS
<1> HIDE DEF t, n
<1>9. CASE n = 1
  <2>1. Len(t) = 0 /\ MessageCount(t) = 0
    BY <1>1, <1>5, <1>7, <1>9
  <2>2. MessageCount(m) = IF Head(m) = CloseSignal THEN 0 ELSE 1
    BY <1>4, <1>6, <1>9
  <2>3. MessageCount(Tail(m)) = 0
    BY <2>1 DEF t
  <2> QED BY <2>2, <2>3
<1>10. CASE n # 1
  <2>1. Len(t) = n - 1 /\ Len(t) \in 1..Len(t) /\ t # <<>>
    BY <1>1, <1>3, <1>5, <1>10
  <2>2. t[Len(t)] = m[n]
    BY <1>2, <1>3, <2>1
  <2>3. m[1] # CloseSignal
    BY <1>3, <1>8, <1>10
  <2> QED BY <1>3, <1>4, <1>6, <1>7, <2>1, <2>2, <2>3 DEF t
<1> QED BY <1>9, <1>10

\* A sender that is granted, or gives up, a permit changes the holders by one.
LEMMA HoldersFinite == IsFiniteSet(PermitHolders) /\ Cardinality(PermitHolders) \in Nat
BY ClientAssumption, FS_Subset, FS_CardinalityType, PermitHolders \subseteq Senders
   DEF PermitHolders

LEMMA HoldersGrow ==
  ASSUME NEW s \in Senders, s \notin PermitHolders, PermitHolders' = PermitHolders \cup {s}
  PROVE  Cardinality(PermitHolders') = Cardinality(PermitHolders) + 1
BY HoldersFinite, FS_AddElement

LEMMA HoldersShrink ==
  ASSUME NEW s \in Senders, s \in PermitHolders, PermitHolders' = PermitHolders \ {s}
  PROVE  Cardinality(PermitHolders') = Cardinality(PermitHolders) - 1
BY HoldersFinite, FS_RemoveElement

LEMMA SenderPermits ==
  ASSUME TypeInv, GateInv, ShutdownInv, PermitConservation,
         NEW s \in Senders, SenderActions(s)
  PROVE  PermitConservation'
<1> USE DEF PermitConservation, workerVars, TypeInv
<1>1. Held' = Held
  BY DEF SenderActions, RequestSend, TakePermit, InterruptSend, EnterGate, Refuse,
     RejectMessage, RecordAcceptance, Offer, ObserveReceipt, Held
<1>2. Cardinality(PermitHolders) \in Nat
  BY HoldersFinite
<1>3. Queued \in Int /\ Held \in Nat
  BY LenProperties DEF Queued, MessageCount, Held
<1>4. CASE RequestSend(s) \/ InterruptSend(s) \/ EnterGate(s) \/ RecordAcceptance(s)
           \/ ObserveReceipt(s)
  <2>1. PermitHolders' = PermitHolders
    BY <1>4 DEF PermitHolders, InGate, RequestSend, InterruptSend, EnterGate,
       RecordAcceptance, ObserveReceipt
  <2>2. UNCHANGED <<permits, mailbox>>
    BY <1>4 DEF RequestSend, InterruptSend, EnterGate, RecordAcceptance, ObserveReceipt
  <2> QED BY <1>1, <2>1, <2>2 DEF Queued
<1>5. CASE TakePermit(s)
  <2>1. s \notin PermitHolders /\ PermitHolders' = PermitHolders \cup {s}
    BY <1>5 DEF PermitHolders, InGate, TakePermit
  <2>2. Cardinality(PermitHolders') = Cardinality(PermitHolders) + 1
    BY <2>1, HoldersGrow
  <2>3. permits' = permits - 1 /\ Queued' = Queued
    BY <1>5 DEF TakePermit, Queued
  <2> QED BY <1>1, <1>2, <1>3, <2>2, <2>3
<1>6. CASE Refuse(s) \/ RejectMessage(s)
  <2>1. s \in PermitHolders /\ PermitHolders' = PermitHolders \ {s}
    BY <1>6 DEF PermitHolders, InGate, Refuse, RejectMessage
  <2>2. Cardinality(PermitHolders') = Cardinality(PermitHolders) - 1
    BY <2>1, HoldersShrink
  <2>3. permits' = permits + 1 /\ Queued' = Queued
    BY <1>6 DEF Refuse, RejectMessage, Queued
  <2> QED BY <1>1, <1>2, <1>3, <2>2, <2>3
<1>7. CASE Offer(s)
  <2>1. s \in PermitHolders /\ PermitHolders' = PermitHolders \ {s}
    BY <1>7 DEF PermitHolders, InGate, Offer
  <2>2. /\ mailbox' = Append(mailbox, ticket[s]) /\ permits' = permits
        /\ ticket[s] \in Nat /\ ticket[s] # CloseSignal
        /\ \A i \in 1..Len(mailbox) : mailbox[i] # CloseSignal
    BY <1>7 DEF Offer, GateInv, ShutdownInv, CloseSignalLast, CloseSignal
  <2>3. Queued' = Queued + 1
    BY <2>2, MessageCountAppend DEF Queued
  <2>4. Cardinality(PermitHolders') = Cardinality(PermitHolders) - 1
    BY <2>1, HoldersShrink
  <2> QED BY <1>1, <1>2, <1>3, <2>2, <2>3, <2>4
<1> QED BY <1>4, <1>5, <1>6, <1>7 DEF SenderActions

LEMMA CloserPermits ==
  ASSUME TypeInv, ShutdownInv, PermitConservation, NEW c \in Closers, CloserActions(c)
  PROVE  PermitConservation'
<1>1. PermitHolders' = PermitHolders /\ Held' = Held /\ permits' = permits
  BY CloserFrame DEF PermitHolders, InGate, Held, workerVars
<1>2. Queued' = Queued
  <2>1. CASE UNCHANGED mailbox BY <2>1 DEF Queued
  <2>2. CASE accepting = "open" /\ mailbox' = Append(mailbox, CloseSignal)
    <3>1. \A i \in 1..Len(mailbox) : mailbox[i] # CloseSignal
      BY <2>2 DEF ShutdownInv, CloseSignalLast
    <3>2. Queued \in Int
      BY LenProperties DEF Queued, MessageCount, TypeInv
    <3>3. MessageCount(Append(mailbox, CloseSignal)) = MessageCount(mailbox) + 0
      BY <3>1, MessageCountAppend DEF TypeInv, CloseSignal
    <3> QED BY <2>2, <3>2, <3>3 DEF Queued
  <2> QED BY <2>1, <2>2, CloserFrame
<1> QED BY <1>1, <1>2 DEF PermitConservation

LEMMA WorkerPermits ==
  ASSUME TypeInv, ShutdownInv, PermitConservation, WorkerStep
  PROVE  PermitConservation'
<1> USE DEF PermitConservation, Held, clientVars
<1>1. PermitHolders' = PermitHolders
  BY WorkerFrame DEF PermitHolders, InGate
<1>2. Cardinality(PermitHolders) \in Nat /\ permits \in Nat
  BY HoldersFinite DEF TypeInv
<1>3. Queued \in Int
  BY LenProperties DEF Queued, MessageCount, TypeInv
<1>4. ASSUME mailbox # <<>>, mailbox' = Tail(mailbox)
      PROVE  Queued' = Queued - (IF Head(mailbox) = CloseSignal THEN 0 ELSE 1)
  BY <1>4, MessageCountTail DEF Queued, ShutdownInv, CloseSignalLast, TypeInv
<1>5. CASE StartMessage
  BY <1>1, <1>2, <1>3, <1>4, <1>5 DEF StartMessage
<1>6. CASE CommitTransition \/ SucceedReceipt \/ FailTransition \/ StopAccepting
           \/ FailReceipt \/ PublishSnapshot
  BY <1>1, <1>6 DEF Queued, CommitTransition, SucceedReceipt, FailTransition,
     StopAccepting, FailReceipt, PublishSnapshot
<1>7. CASE ReleaseCommitted \/ ReleaseFailed
  BY <1>1, <1>2, <1>3, <1>7 DEF Queued, ReleaseCommitted, ReleaseFailed
<1>8. CASE FailPending
  BY <1>1, <1>2, <1>3, <1>4, <1>8 DEF FailPending, workerVars
<1>9. CASE FinishClosed
  <2>1. Queued' = Queued
    BY <1>3, <1>4, <1>9 DEF FinishClosed, Queued
  <2> QED BY <1>1, <1>9, <2>1 DEF FinishClosed
<1> QED BY <1>5, <1>6, <1>7, <1>8, <1>9 DEF WorkerStep

\* No permit of the capacity semaphore is lost or duplicated, however sends,
\* interruptions, failures and the shutdown interleave.
THEOREM PermitsConserved == Spec => []PermitConservation
<1>1. Init => PermitConservation
  <2> SUFFICES ASSUME Init PROVE PermitConservation
    OBVIOUS
  <2>1. PermitHolders = {}
    BY DEF Init, PermitHolders, InGate
  <2>2. Cardinality(PermitHolders) = 0
    BY <2>1, FS_EmptySet
  <2>3. Queued = 0 /\ Held = 0
    BY DEF Init, Queued, MessageCount, Held
  <2> QED BY <2>2, <2>3, CapacityAssumption DEF Init, PermitConservation
<1>2. TypeInv /\ GateInv /\ ShutdownInv /\ PermitConservation /\ [Next]_vars
        => PermitConservation'
  <2> SUFFICES ASSUME TypeInv, GateInv, ShutdownInv, PermitConservation, [Next]_vars
               PROVE  PermitConservation'
    OBVIOUS
  <2>1. CASE UNCHANGED vars
    BY <2>1 DEF vars, clientVars, workerVars, PermitConservation, PermitHolders, InGate,
       Queued, Held
  <2> QED BY <2>1, NextCases, SenderPermits, CloserPermits, WorkerPermits
<1> QED BY <1>1, <1>2, TypeInvariant, GateInvariant, ShutdownInvariant, PTL DEF Spec

\* Every variable stays in its range: in particular the free permits never exceed
\* the mailbox capacity and the trace buffer never outgrows its own.
THEOREM TypeCorrect == Spec => []TypeOK
<1>1. TypeInv /\ ShutdownInv /\ PermitConservation => TypeOK
  <2> SUFFICES ASSUME TypeInv, PermitConservation PROVE TypeOK
    OBVIOUS
  <2>1. Cardinality(PermitHolders) \in Nat /\ Held \in Nat
    BY HoldersFinite DEF Held
  <2>2. Queued \in Nat
    BY LenProperties, EmptySeq DEF Queued, MessageCount, TypeInv
  <2>3. permits \in 0..MailboxCapacity
    BY <2>1, <2>2, CapacityAssumption DEF PermitConservation, TypeInv
  <2> QED BY <2>3 DEF TypeInv, TraceTyped, TypeOK
<1> QED BY <1>1, TypeInvariant, ShutdownInvariant, PermitsConserved, PTL

-----------------------------------------------------------------------------
(* Layer 5: the order of delivery.  The first Taken accepted messages have  *)
(* left the mailbox; the queue holds the next ones, in order, and a message *)
(* recorded but not yet offered is the newest.                              *)

Taken == nextSequence - Queued - (IF Recorded THEN 1 ELSE 0)
Applied == Len(privateState)
Working == worker \in {"running", "committed", "settled", "failing", "stopped", "failed"}
\* The receipt of the message whose transition failed has been failed.
FailureTold ==
  \/ worker \in {"failed", "draining"}
  \/ worker \in {"closing", "exited"} /\ accepting = "transition_failed"

\* The queue and the receipts, read from left to right.
QueueInv ==
  /\ Len(receipts) = nextSequence
  /\ Taken \in Nat
  /\ \A i \in 1..Queued : mailbox[i] = Taken + i
  /\ \A n \in 1..nextSequence :
       receipts[n] # "pending" <=> n <= Taken - (IF Unsettled THEN 1 ELSE 0)
  /\ \A n \in 1..nextSequence :
       receipts[n] = "committed" <=> n <= Applied - (IF worker = "committed" THEN 1 ELSE 0)
  /\ \A n \in 1..nextSequence :
       receipts[n] = "failed" <=> FailureTold /\ n = Applied + 1

\* Where the worker is, in terms of the messages it has taken and applied.
WorkerInv ==
  /\ Working => Taken # 0 /\ current = Taken
  /\ worker \in {"idle", "committed", "settled"} => Applied = Taken
  /\ worker \in {"running", "failing", "stopped", "failed"} => Applied = Taken - 1
  /\ worker = "draining" => Applied < Taken
  /\ worker \in {"closing", "exited"} =>
       IF accepting = "transition_failed" THEN Applied < Taken ELSE Applied = Taken
  /\ worker \in {"idle", "running", "committed", "settled", "failing"} =>
       accepting # "transition_failed"
  /\ worker \in {"closing", "exited"} => mailbox = <<>>
  /\ \A n \in 1..Applied : privateState[n] = n

DeliveryInv == QueueInv /\ WorkerInv

LEMMA QueueFacts ==
  ASSUME TypeInv, ShutdownInv
  PROVE  /\ Queued \in Nat
         /\ accepting = "open" => Queued = Len(mailbox)
         /\ mailbox = <<>> => Queued = 0
         /\ mailbox # <<>> /\ Head(mailbox) # CloseSignal => Queued # 0 /\ Head(mailbox) = mailbox[1]
         /\ mailbox # <<>> /\ Head(mailbox) = CloseSignal =>
              Queued = 0 /\ Tail(mailbox) = <<>> /\ accepting # "open"
<1> DEFINE n == Len(mailbox)
           t == Tail(mailbox)
<1>1. n \in Nat /\ (mailbox = <<>> <=> n = 0)
  BY EmptySeq, LenProperties DEF TypeInv
<1>2. \A i \in 1..n : mailbox[i] = CloseSignal => i = n /\ accepting # "open"
  BY DEF ShutdownInv, CloseSignalLast
<1>3. Queued = IF mailbox # <<>> /\ mailbox[n] = CloseSignal THEN n - 1 ELSE n
  BY DEF Queued, MessageCount
<1>4. mailbox # <<>> => /\ Head(mailbox) = mailbox[1]
                        /\ t \in Seq(Nat) /\ Len(t) = n - 1
  BY HeadTailProperties DEF TypeInv
<1> HIDE DEF n, t
<1>5. mailbox # <<>> /\ n = 1 => t = <<>>
  BY <1>4, EmptySeq
<1>6. /\ Queued \in Nat
      /\ accepting = "open" => Queued = n
      /\ mailbox = <<>> => Queued = 0
      /\ mailbox # <<>> /\ mailbox[1] # CloseSignal => Queued # 0
      /\ mailbox # <<>> /\ mailbox[1] = CloseSignal => n = 1 /\ Queued = 0 /\ accepting # "open"
  BY <1>1, <1>2, <1>3
<1> QED BY <1>4, <1>5, <1>6 DEF n, t

\* Taking a message off the queue: the ones behind it move up.
LEMMA TakeMessage ==
  ASSUME TypeInv, ShutdownInv, mailbox # <<>>, Head(mailbox) # CloseSignal,
         mailbox' = Tail(mailbox)
  PROVE  /\ Queued' = Queued - 1
         /\ \A i \in 1..Queued' : mailbox'[i] = mailbox[i + 1]
<1>1. MessageCount(Tail(mailbox)) = MessageCount(mailbox) - 1
  BY MessageCountTail DEF TypeInv, ShutdownInv, CloseSignalLast
<1>2. \A i \in 1..Len(Tail(mailbox)) : Tail(mailbox)[i] = mailbox[i + 1]
  BY HeadTailProperties DEF TypeInv
<1>3. Tail(mailbox) \in Seq(Nat)
  BY HeadTailProperties DEF TypeInv
<1>4. Queued' <= Len(Tail(mailbox))
  BY <1>3, LenProperties DEF Queued, MessageCount
<1>5. Queued' = Queued - 1
  BY <1>1 DEF Queued
<1>6. Queued' \in Int /\ Len(Tail(mailbox)) \in Nat
  BY <1>3, <1>5, QueueFacts, LenProperties
<1> QED BY <1>2, <1>4, <1>5, <1>6

LEMMA QuietDelivery ==
  ASSUME DeliveryInv, Recorded' = Recorded,
         UNCHANGED <<mailbox, receipts, nextSequence, privateState, worker, current, accepting>>
  PROVE  DeliveryInv'
BY DEF DeliveryInv, QueueInv, WorkerInv, Taken, Queued, Applied, Working, FailureTold, Unsettled

LEMMA SenderDelivery ==
  ASSUME TypeInv, GateInv, ShutdownInv, DeliveryInv, NEW s \in Senders, SenderActions(s)
  PROVE  DeliveryInv'
<1>1. CASE RecordAcceptance(s)
  <2>1. /\ nextSequence' = nextSequence + 1 /\ receipts' = Append(receipts, "pending")
        /\ accepting = "open"
        /\ UNCHANGED <<mailbox, accepting, worker, current, privateState>>
    BY <1>1 DEF RecordAcceptance, workerVars
  <2>2. ~Recorded /\ Recorded'
    BY <1>1 DEF RecordAcceptance, Recorded, GateInv, InGate, TypeInv
  <2>3. Queued' = Queued /\ Applied' = Applied /\ (Unsettled <=> Unsettled')
        /\ (FailureTold <=> FailureTold') /\ (Working <=> Working')
    BY <2>1 DEF Queued, Applied, Unsettled, FailureTold, Working
  <2>4. nextSequence \in Nat /\ Queued \in Nat /\ Applied \in Nat
    BY QueueFacts, LenProperties DEF TypeInv, Applied
  <2>5. Taken' = Taken
    BY <2>1, <2>2, <2>3, <2>4 DEF Taken
  <2>6. /\ Len(receipts') = nextSequence + 1
        /\ \A n \in 1..nextSequence : receipts'[n] = receipts[n]
        /\ receipts'[nextSequence + 1] = "pending"
    BY <2>1, AppendProperties, "pending" \in Outcome DEF TypeInv, Outcome, DeliveryInv, QueueInv
  <2>7. Taken <= nextSequence /\ Applied <= Taken /\ Taken \in Nat
    BY <2>1, <2>2, <2>4 DEF Taken, DeliveryInv, QueueInv, WorkerInv, TypeInv
  <2>8. FailureTold => accepting = "transition_failed"
    BY DEF ShutdownInv, FailureTold
  <2>9. QueueInv'
    BY <2>1, <2>3, <2>4, <2>5, <2>6, <2>7, <2>8 DEF DeliveryInv, QueueInv
  <2>10. WorkerInv'
    BY <2>1, <2>3, <2>5 DEF DeliveryInv, WorkerInv
  <2> QED BY <2>9, <2>10 DEF DeliveryInv
<1>2. CASE Offer(s)
  <2>1. /\ mailbox' = Append(mailbox, ticket[s]) /\ ticket[s] = nextSequence /\ accepting = "open"
        /\ UNCHANGED <<nextSequence, receipts, accepting, worker, current, privateState>>
        /\ ticket[s] # CloseSignal
    BY <1>2 DEF Offer, GateInv, workerVars, CloseSignal
  <2>2. Recorded /\ ~Recorded'
    BY <1>2 DEF Offer, Recorded, GateInv, InGate, TypeInv
  <2>3. Applied' = Applied /\ (Unsettled <=> Unsettled')
        /\ (FailureTold <=> FailureTold') /\ (Working <=> Working')
    BY <2>1 DEF Applied, Unsettled, FailureTold, Working
  <2>4. nextSequence \in Nat /\ Queued \in Nat /\ Queued = Len(mailbox)
    BY <2>1, QueueFacts DEF TypeInv
  <2>5. \A i \in 1..Len(mailbox) : mailbox[i] # CloseSignal
    BY <2>1 DEF ShutdownInv, CloseSignalLast
  <2>6. Queued' = Queued + 1
    BY <2>1, <2>5, MessageCountAppend DEF Queued, TypeInv
  <2>7. Taken' = Taken /\ Taken \in Nat /\ nextSequence = Taken + Queued + 1
    BY <2>1, <2>2, <2>4, <2>6 DEF Taken, DeliveryInv, QueueInv
  <2>8. /\ \A i \in 1..Queued : mailbox'[i] = mailbox[i]
        /\ mailbox'[Queued + 1] = nextSequence
    BY <2>1, <2>4, AppendProperties DEF TypeInv
  <2>9. \A i \in 1..Queued' : mailbox'[i] = Taken' + i
    BY <2>4, <2>6, <2>7, <2>8 DEF DeliveryInv, QueueInv
  <2>10. mailbox' # <<>>
    BY <2>1, AppendProperties DEF TypeInv
  <2>11. worker \notin {"closing", "exited"}
    BY <2>1 DEF ShutdownInv
  <2>12. QueueInv'
    BY <2>1, <2>3, <2>7, <2>9 DEF DeliveryInv, QueueInv
  <2>13. WorkerInv'
    BY <2>1, <2>3, <2>7, <2>11 DEF DeliveryInv, WorkerInv
  <2> QED BY <2>12, <2>13 DEF DeliveryInv
<1>3. CASE ~RecordAcceptance(s) /\ ~Offer(s)
  <2>1. UNCHANGED <<mailbox, receipts, nextSequence, privateState, worker, current, accepting>>
    BY <1>3 DEF SenderActions, RequestSend, TakePermit, InterruptSend, EnterGate, Refuse,
       RejectMessage, ObserveReceipt, workerVars
  <2>2. Recorded' = Recorded
    BY <1>3 DEF SenderActions, RequestSend, TakePermit, InterruptSend, EnterGate, Refuse,
       RejectMessage, ObserveReceipt, Recorded, TypeInv
  <2> QED BY <2>1, <2>2, QuietDelivery
<1> QED BY <1>1, <1>2, <1>3

LEMMA CloserDelivery ==
  ASSUME TypeInv, ShutdownInv, DeliveryInv, NEW c \in Closers, CloserActions(c)
  PROVE  DeliveryInv'
<1>1. /\ UNCHANGED <<receipts, nextSequence, privateState, worker, current>>
      /\ Recorded' = Recorded
  BY CloserFrame DEF workerVars, Recorded
<1>2. CASE UNCHANGED <<accepting, mailbox>>
  BY <1>1, <1>2, QuietDelivery
<1>3. CASE ~UNCHANGED <<accepting, mailbox>>
  <2>1. accepting = "open" /\ accepting' = "closing" /\ mailbox' = Append(mailbox, CloseSignal)
    BY <1>3, CloserFrame
  <2>2. \A i \in 1..Len(mailbox) : mailbox[i] # CloseSignal
    BY <2>1 DEF ShutdownInv, CloseSignalLast
  <2>3. Queued \in Nat /\ Queued = Len(mailbox)
    BY <2>1, QueueFacts
  <2>4. Queued' = Queued
    <3>1. MessageCount(Append(mailbox, CloseSignal)) = MessageCount(mailbox) + 0
      BY <2>2, MessageCountAppend DEF TypeInv, CloseSignal
    <3> QED BY <2>1, <2>3, <3>1 DEF Queued
  <2>5. \A i \in 1..Queued : mailbox'[i] = mailbox[i]
    BY <2>1, <2>3, AppendProperties, CloseSignal \in Nat DEF TypeInv, CloseSignal
  <2>6. Taken' = Taken /\ Applied' = Applied /\ (Unsettled' <=> Unsettled)
        /\ (Working' <=> Working)
    BY <1>1, <2>4 DEF Taken, Applied, Unsettled, Working
  <2>7. worker \notin {"closing", "exited"} /\ (FailureTold' <=> FailureTold)
    BY <1>1, <2>1 DEF ShutdownInv, FailureTold
  <2>8. QueueInv'
    BY <1>1, <2>4, <2>5, <2>6, <2>7 DEF DeliveryInv, QueueInv
  <2>9. WorkerInv'
    BY <1>1, <2>1, <2>6, <2>7 DEF DeliveryInv, WorkerInv
  <2> QED BY <2>8, <2>9 DEF DeliveryInv
<1> QED BY <1>2, <1>3

\* Settling the receipt of message m says nothing of the others.
LEMMA SettleReceipt ==
  ASSUME TypeInv, DeliveryInv, NEW m \in 1..nextSequence, NEW outcome,
         receipts' = [receipts EXCEPT ![m] = outcome]
  PROVE  /\ Len(receipts') = nextSequence
         /\ receipts'[m] = outcome
         /\ \A n \in 1..nextSequence : n # m => receipts'[n] = receipts[n]
<1>1. receipts \in [1..nextSequence -> Outcome]
  BY LenProperties DEF TypeInv, DeliveryInv, QueueInv
<1>2. DOMAIN receipts' = 1..nextSequence
  BY <1>1
<1>3. receipts' \in [1..nextSequence -> Outcome \cup {outcome}]
  BY <1>1
<1>4. Len(receipts') = nextSequence
  BY <1>3, LenProperties DEF TypeInv
<1> QED BY <1>1, <1>4

LEMMA WorkerDelivery ==
  ASSUME TypeInv, GateInv, ShutdownInv, DeliveryInv, WorkerStep
  PROVE  DeliveryInv'
<1> USE DEF Working, Unsettled, FailureTold, clientVars
<1>1. Recorded' = Recorded /\ nextSequence' = nextSequence
  BY WorkerFrame DEF Recorded
<1>2. /\ nextSequence \in Nat /\ Queued \in Nat /\ Applied \in Nat
      /\ Taken \in Nat /\ Taken <= nextSequence /\ Taken + Queued <= nextSequence
  BY QueueFacts, LenProperties DEF TypeInv, Applied, Taken, DeliveryInv, QueueInv
<1>3. ASSUME UNCHANGED mailbox PROVE Queued' = Queued /\ Taken' = Taken
  BY <1>1, <1>3 DEF Queued, Taken
<1>4. ASSUME UNCHANGED privateState PROVE Applied' = Applied
  BY <1>4 DEF Applied
<1>5. ASSUME mailbox # <<>>, Head(mailbox) # CloseSignal, mailbox' = Tail(mailbox)
      PROVE  /\ Taken' = Taken + 1 /\ Taken' <= nextSequence /\ Head(mailbox) = Taken + 1
             /\ \A i \in 1..Queued' : mailbox'[i] = Taken' + i
  <2>1. Queued' = Queued - 1 /\ \A i \in 1..Queued' : mailbox'[i] = mailbox[i + 1]
    BY <1>5, TakeMessage
  <2>2. Queued # 0 /\ Head(mailbox) = mailbox[1]
    BY <1>5, QueueFacts
  <2>3. Taken' = Taken + 1
    BY <1>1, <1>2, <2>1 DEF Taken
  <2>4. \A i \in 1..Queued : mailbox[i] = Taken + i
    BY DEF DeliveryInv, QueueInv
  <2> QED BY <1>2, <2>1, <2>2, <2>3, <2>4
<1>6. CASE StartMessage
  <2>1. /\ worker = "idle" /\ worker' = "running" /\ current' = Taken'
        /\ UNCHANGED <<receipts, privateState, accepting>>
        /\ Taken' = Taken + 1 /\ Taken' <= nextSequence
        /\ \A i \in 1..Queued' : mailbox'[i] = Taken' + i
    BY <1>5, <1>6 DEF StartMessage
  <2>2. QueueInv'
    BY <1>1, <1>2, <1>4, <2>1 DEF DeliveryInv, QueueInv
  <2>3. WorkerInv'
    BY <1>1, <1>2, <1>4, <2>1 DEF DeliveryInv, WorkerInv
  <2> QED BY <2>2, <2>3 DEF DeliveryInv
<1>7. CASE CommitTransition
  <2>1. /\ worker = "running" /\ worker' = "committed"
        /\ privateState' = Append(privateState, current)
        /\ UNCHANGED <<receipts, accepting, mailbox, current>>
    BY <1>7 DEF CommitTransition
  <2>2. /\ Applied' = Applied + 1 /\ privateState'[Applied + 1] = current
        /\ \A n \in 1..Applied : privateState'[n] = privateState[n]
    BY <2>1, AppendProperties DEF TypeInv, Applied
  <2>3. QueueInv'
    BY <1>1, <1>2, <1>3, <2>1, <2>2 DEF DeliveryInv, QueueInv, WorkerInv
  <2>4. WorkerInv'
    BY <1>1, <1>2, <1>3, <2>1, <2>2 DEF DeliveryInv, WorkerInv
  <2> QED BY <2>3, <2>4 DEF DeliveryInv
<1>8. CASE SucceedReceipt
  <2>1. /\ worker = "committed" /\ worker' = "settled" /\ current \in 1..nextSequence
        /\ receipts' = [receipts EXCEPT ![current] = "committed"] /\ current = Taken
        /\ UNCHANGED <<privateState, accepting, mailbox, current>>
    BY <1>2, <1>8 DEF SucceedReceipt, DeliveryInv, WorkerInv
  <2>2. QueueInv'
    BY <1>1, <1>2, <1>3, <1>4, <2>1, SettleReceipt DEF DeliveryInv, QueueInv, WorkerInv
  <2>3. WorkerInv'
    BY <1>1, <1>3, <1>4, <2>1 DEF DeliveryInv, WorkerInv
  <2> QED BY <2>2, <2>3 DEF DeliveryInv
<1>9. CASE ReleaseCommitted \/ FailTransition \/ ReleaseFailed
  <2>1. UNCHANGED <<receipts, privateState, accepting, mailbox, current>>
    BY <1>9 DEF ReleaseCommitted, FailTransition, ReleaseFailed
  <2>2. \/ worker = "settled" /\ worker' = "idle"
        \/ worker = "running" /\ worker' = "failing"
        \/ worker = "failed" /\ worker' = "draining"
    BY <1>9 DEF ReleaseCommitted, FailTransition, ReleaseFailed
  <2>3. QueueInv'
    BY <1>1, <1>3, <1>4, <2>1, <2>2 DEF DeliveryInv, QueueInv
  <2>4. WorkerInv'
    BY <1>1, <1>2, <1>3, <1>4, <2>1, <2>2 DEF DeliveryInv, WorkerInv
  <2> QED BY <2>3, <2>4 DEF DeliveryInv
<1>10. CASE StopAccepting
  <2>1. /\ worker = "failing" /\ worker' = "stopped" /\ accepting' = "transition_failed"
        /\ UNCHANGED <<receipts, privateState, mailbox, current>>
    BY <1>10 DEF StopAccepting
  <2>2. QueueInv'
    BY <1>1, <1>3, <1>4, <2>1 DEF DeliveryInv, QueueInv
  <2>3. WorkerInv'
    BY <1>1, <1>2, <1>3, <1>4, <2>1 DEF DeliveryInv, WorkerInv
  <2> QED BY <2>2, <2>3 DEF DeliveryInv
<1>11. CASE FailReceipt
  <2>1. /\ worker = "stopped" /\ worker' = "failed" /\ current \in 1..nextSequence
        /\ receipts' = [receipts EXCEPT ![current] = "failed"] /\ current = Taken
        /\ Applied = Taken - 1
        /\ UNCHANGED <<privateState, accepting, mailbox, current>>
    BY <1>2, <1>11 DEF FailReceipt, DeliveryInv, WorkerInv
  <2>2. QueueInv'
    BY <1>1, <1>2, <1>3, <1>4, <2>1, SettleReceipt DEF DeliveryInv, QueueInv
  <2>3. WorkerInv'
    BY <1>1, <1>3, <1>4, <2>1 DEF DeliveryInv, WorkerInv
  <2> QED BY <2>2, <2>3 DEF DeliveryInv
<1>12. CASE FailPending
  <2>1. /\ worker = "draining" /\ mailbox # <<>> /\ mailbox' = Tail(mailbox)
        /\ UNCHANGED <<accepting, worker, current, privateState>>
        /\ Applied < Taken
    BY <1>12 DEF FailPending, workerVars, DeliveryInv, WorkerInv
  <2>2. CASE Head(mailbox) = CloseSignal
    <3>1. receipts' = receipts /\ mailbox' = <<>> /\ Queued = 0
      BY <1>12, <2>1, <2>2, QueueFacts DEF FailPending
    <3>2. Queued' = 0
      BY <3>1, LenProperties, EmptySeq DEF Queued, MessageCount
    <3>3. Taken' = Taken
      BY <1>1, <3>1, <3>2 DEF Taken
    <3>4. QueueInv'
      BY <1>1, <1>4, <2>1, <3>1, <3>2, <3>3 DEF DeliveryInv, QueueInv
    <3>5. WorkerInv'
      BY <1>4, <2>1, <3>3 DEF DeliveryInv, WorkerInv
    <3> QED BY <3>4, <3>5 DEF DeliveryInv
  <2>3. CASE Head(mailbox) # CloseSignal
    <3>0. receipts' = [receipts EXCEPT ![Head(mailbox)] = "not_processed"]
      BY <1>12, <2>3 DEF FailPending
    <3>1. /\ Head(mailbox) = Taken + 1 /\ Taken' = Taken + 1 /\ Taken' <= nextSequence
          /\ \A i \in 1..Queued' : mailbox'[i] = Taken' + i
      BY <1>5, <2>1, <2>3, Zenon
    <3>5. Taken + 1 \in 1..nextSequence
      BY <1>2, <3>1
    <3>4. /\ Len(receipts') = nextSequence
          /\ receipts'[Taken + 1] = "not_processed"
          /\ \A n \in 1..nextSequence : n # Taken + 1 => receipts'[n] = receipts[n]
      BY <3>0, <3>1, <3>5, SettleReceipt
    <3>6. /\ Applied' = Applied /\ ~Unsettled /\ ~Unsettled' /\ FailureTold /\ FailureTold'
          /\ Taken' \in Nat
      BY <1>2, <1>4, <2>1, <3>1
    <3>7. ASSUME NEW n \in 1..nextSequence
          PROVE  /\ receipts'[n] # "pending" <=> n <= Taken + 1
                 /\ receipts'[n] = "committed" <=> n <= Applied
                 /\ receipts'[n] = "failed" <=> n = Applied + 1
      <4>1. CASE n = Taken + 1
        BY <1>2, <2>1, <3>4, <4>1
      <4>2. CASE n # Taken + 1
        <5>1. receipts'[n] = receipts[n]
          BY <3>4, <4>2
        <5>2. /\ receipts[n] # "pending" <=> n <= Taken
              /\ receipts[n] = "committed" <=> n <= Applied
              /\ receipts[n] = "failed" <=> n = Applied + 1
          BY <1>2, <2>1, <3>6 DEF DeliveryInv, QueueInv
        <5> QED BY <1>2, <4>2, <5>1, <5>2
      <4> QED BY <4>1, <4>2
    <3>2. QueueInv'
      <4> HIDE DEF Unsettled, FailureTold
      <4>1. Taken' - (IF Unsettled' THEN 1 ELSE 0) = Taken + 1
        BY <1>2, <3>1, <3>6
      <4>2. Applied' - (IF worker' = "committed" THEN 1 ELSE 0) = Applied
        BY <1>2, <2>1, <3>6
      <4> QED BY <1>1, <3>1, <3>4, <3>6, <3>7, <4>1, <4>2 DEF QueueInv
    <3>3. WorkerInv'
      BY <1>2, <1>4, <2>1, <3>1 DEF DeliveryInv, WorkerInv
    <3> QED BY <3>2, <3>3 DEF DeliveryInv
  <2> QED BY <2>2, <2>3
<1>13. CASE FinishClosed
  <2>1. /\ worker' = "closing" /\ UNCHANGED <<accepting, receipts, current, privateState>>
        /\ \/ worker = "idle" /\ mailbox # <<>> /\ Head(mailbox) = CloseSignal
              /\ mailbox' = Tail(mailbox)
           \/ worker = "draining" /\ mailbox = <<>> /\ mailbox' = mailbox
    BY <1>13 DEF FinishClosed
  <2>2. Queued = 0 /\ mailbox' = <<>>
    BY <2>1, QueueFacts
  <2>3. Queued' = 0
    BY <2>2, LenProperties, EmptySeq DEF Queued, MessageCount
  <2>4. Taken' = Taken
    BY <1>1, <2>2, <2>3 DEF Taken
  <2>5. worker = "draining" => accepting = "transition_failed"
    BY DEF ShutdownInv
  <2>6. QueueInv'
    BY <1>1, <1>4, <2>1, <2>3, <2>4, <2>5 DEF DeliveryInv, QueueInv, WorkerInv
  <2>7. WorkerInv'
    BY <1>4, <2>1, <2>2, <2>4, <2>5 DEF DeliveryInv, WorkerInv
  <2> QED BY <2>6, <2>7 DEF DeliveryInv
<1>14. CASE PublishSnapshot
  <2>1. /\ worker = "closing" /\ worker' = "exited"
        /\ UNCHANGED <<receipts, privateState, accepting, mailbox, current>>
    BY <1>14 DEF PublishSnapshot
  <2>2. QueueInv'
    BY <1>1, <1>3, <1>4, <2>1 DEF DeliveryInv, QueueInv
  <2>3. WorkerInv'
    BY <1>1, <1>3, <1>4, <2>1 DEF DeliveryInv, WorkerInv
  <2> QED BY <2>2, <2>3 DEF DeliveryInv
<1> QED BY <1>6, <1>7, <1>8, <1>9, <1>10, <1>11, <1>12, <1>13, <1>14 DEF WorkerStep

LEMMA DeliveryInvariant == Spec => []DeliveryInv
<1>1. Init => DeliveryInv
  <2> SUFFICES ASSUME Init PROVE DeliveryInv
    OBVIOUS
  <2>1. Queued = 0 /\ ~Recorded /\ Applied = 0 /\ nextSequence = 0 /\ Len(receipts) = 0
    BY DEF Init, Queued, MessageCount, Recorded, Applied
  <2>2. Taken = 0 - 0 - 0
    BY <2>1, Zenon DEF Taken
  <2>3. Taken = 0
    BY <2>2
  <2> QED BY <2>1, <2>3 DEF Init, DeliveryInv, QueueInv, WorkerInv, Working, FailureTold,
             Unsettled
<1>2. TypeInv /\ GateInv /\ ShutdownInv /\ DeliveryInv /\ [Next]_vars => DeliveryInv'
  <2> SUFFICES ASSUME TypeInv, GateInv, ShutdownInv, DeliveryInv, [Next]_vars
               PROVE  DeliveryInv'
    OBVIOUS
  <2>1. CASE UNCHANGED vars
    BY <2>1, QuietDelivery DEF vars, clientVars, workerVars, Recorded
  <2> QED BY <2>1, NextCases, SenderDelivery, CloserDelivery, WorkerDelivery
<1> QED BY <1>1, <1>2, TypeInvariant, GateInvariant, ShutdownInvariant, PTL DEF Spec

\* Receiver FIFO: queued envelopes are the newest accepted messages in acceptance
\* order, everything older than them and the worker's message is settled, and the
\* private state is the fold of exactly the committed messages (send, the worker
\* loop and failPending, interleaved with closes and interruptions).
THEOREM DeliveryIsFifo == Spec => []FifoDelivery
<1>1. TypeInv /\ GateInv /\ ShutdownInv /\ DeliveryInv => FifoDelivery
  <2> SUFFICES ASSUME TypeInv, GateInv, ShutdownInv, DeliveryInv PROVE FifoDelivery
    OBVIOUS
  <2>1. /\ nextSequence \in Nat /\ Queued \in Nat /\ Applied \in Nat /\ Taken \in Nat
        /\ nextSequence = Taken + Queued + (IF Recorded THEN 1 ELSE 0)
    BY QueueFacts, LenProperties DEF TypeInv, Applied, Taken, DeliveryInv, QueueInv
  <2>2. \A i \in 1..Queued :
          mailbox[i] = nextSequence - Queued + i - (IF Recorded THEN 1 ELSE 0)
    BY <2>1 DEF DeliveryInv, QueueInv
  <2>3. ASSUME NEW n \in 1..nextSequence
        PROVE  Settled(n) <=> /\ \A i \in 1..Queued : mailbox[i] # n
                              /\ ~(Unsettled /\ current = n)
                              /\ ~\E s \in Senders : sender[s] = "recorded" /\ ticket[s] = n
    <3>1. Settled(n) <=> n <= Taken - (IF Unsettled THEN 1 ELSE 0)
      BY DEF Settled, DeliveryInv, QueueInv
    <3>2. (\A i \in 1..Queued : mailbox[i] # n) <=> n <= Taken \/ n > Taken + Queued
      <4>1. \A i \in 1..Queued : mailbox[i] = Taken + i
        BY DEF DeliveryInv, QueueInv
      <4>2. ASSUME n > Taken, n <= Taken + Queued
            PROVE  \E i \in 1..Queued : mailbox[i] = n
        <5>1. n - Taken \in 1..Queued
          BY <2>1, <4>2
        <5>2. mailbox[n - Taken] = n
          BY <2>1, <4>1, <5>1
        <5> QED BY <5>1, <5>2
      <4> QED BY <2>1, <4>1, <4>2
    <3>3. Unsettled => current = Taken /\ Taken # 0
      BY DEF Unsettled, DeliveryInv, WorkerInv, Working
    <3>4. (\E s \in Senders : sender[s] = "recorded" /\ ticket[s] = n)
            <=> Recorded /\ n = nextSequence
      BY DEF Recorded, GateInv
    <3>5. n \in Nat /\ n <= nextSequence
      BY <2>1
    <3> HIDE DEF Settled
    <3> QED BY <2>1, <3>1, <3>2, <3>3, <3>4, <3>5
  <2>4. \A n \in DOMAIN privateState : privateState[n] = n
    BY LenProperties DEF DeliveryInv, WorkerInv, TypeInv, Applied
  <2> QED BY <2>2, <2>3, <2>4 DEF FifoDelivery, DeliveryInv, QueueInv, Applied
<1> QED BY <1>1, TypeInvariant, GateInvariant, ShutdownInvariant, DeliveryInvariant, PTL

-----------------------------------------------------------------------------
(* Layer 6: the diagnostic trace. *)

Failure == worker = "failing" \/ accepting = "transition_failed"
TraceClosed == worker \in {"closing", "exited"}

CountersInv ==
  /\ trace.acceptedCount = nextSequence
  /\ trace.totalObserved =
       nextSequence + 2 * Applied + (IF worker = "running" THEN 1 ELSE 0)
         + (IF Failure THEN 2 ELSE 0) + (IF TraceClosed THEN 1 ELSE 0)

\* What a retained entry says is true of the actor.
EntryHolds(entry) ==
  /\ entry.kind = "started" => entry.number <= nextSequence
  /\ entry.kind = "committed" => entry.number <= Applied
  /\ entry.kind = "transition_failed" => Failure
  /\ entry.kind = "closed" => TraceClosed

\* Of two entries, the second is not a cause of the first.
NotReversed(first, second) ==
  first.number = second.number =>
    /\ ~(first.kind = "started" /\ second.kind = "accepted")
    /\ ~(first.kind \in {"committed", "transition_failed"} /\ second.kind = "started")

EntriesInv ==
  /\ \A i \in 1..Len(trace.entries) : EntryHolds(trace.entries[i])
  /\ \A i, j \in 1..Len(trace.entries) :
       i < j => NotReversed(trace.entries[i], trace.entries[j])
  /\ TraceClosed =>
       /\ Len(trace.entries) # 0
       /\ trace.entries[Len(trace.entries)] = [kind |-> "closed", number |-> nextSequence]

TraceInv ==
  /\ CountersInv
  /\ EntriesInv
  /\ closed # NoSnapshot => closed = snapshotActorTrace(trace)

\* A bounded append keeps the entries it does not evict, in order, before the new one.
LEMMA RetainShape ==
  ASSUME NEW entries \in Seq(Entry), Len(entries) <= TraceCapacity, NEW entry \in Entry
  PROVE  \E shift \in {0, 1} :
           /\ Len(Retain(entries, entry)) = Len(entries) - shift + 1
           /\ Len(entries) - shift \in Nat
           /\ \A i \in 1..(Len(entries) - shift) :
                Retain(entries, entry)[i] = entries[i + shift]
           /\ Retain(entries, entry)[Len(entries) - shift + 1] = entry
<1>1. CASE Len(entries) < TraceCapacity
  <2>1. Retain(entries, entry) = Append(entries, entry)
    BY <1>1 DEF Retain
  <2>2. /\ Len(entries) \in Nat
        /\ Len(Append(entries, entry)) = Len(entries) + 1
        /\ \A i \in 1..Len(entries) : Append(entries, entry)[i] = entries[i]
        /\ Append(entries, entry)[Len(entries) + 1] = entry
    BY AppendProperties, LenProperties
  <2> WITNESS 0 \in {0, 1}
  <2> QED BY <2>1, <2>2
<1>2. CASE ~(Len(entries) < TraceCapacity)
  <2> DEFINE rest == Tail(entries)
  <2>1. entries # <<>>
    BY <1>2, CapacityAssumption
  <2>2. /\ rest \in Seq(Entry) /\ Len(rest) = Len(entries) - 1
        /\ \A i \in 1..Len(rest) : rest[i] = entries[i + 1]
    BY <2>1, HeadTailProperties
  <2>3. Retain(entries, entry) = Append(rest, entry)
    BY <1>2 DEF Retain
  <2> HIDE DEF rest
  <2>4. /\ Len(rest) \in Nat
        /\ Len(Append(rest, entry)) = Len(rest) + 1
        /\ \A i \in 1..Len(rest) : Append(rest, entry)[i] = rest[i]
        /\ Append(rest, entry)[Len(rest) + 1] = entry
    BY <2>2, AppendProperties, LenProperties
  <2> WITNESS 1 \in {0, 1}
  <2> QED BY <2>2, <2>3, <2>4
<1> QED BY <1>1, <1>2

\* What holds of a list of retained entries, some condition aside.
Told(entries) == \A i \in 1..Len(entries) : EntryHolds(entries[i])
InOrder(entries) ==
  \A i, j \in 1..Len(entries) : i < j => NotReversed(entries[i], entries[j])

\* Appending an entry that is true, and no cause of one retained, keeps the order.
LEMMA RetainInOrder ==
  ASSUME TypeInv, NEW entry \in Entry, InOrder(trace.entries),
         \A i \in 1..Len(trace.entries) : NotReversed(trace.entries[i], entry)
  PROVE  /\ InOrder(Retain(trace.entries, entry))
         /\ \A i \in 1..Len(Retain(trace.entries, entry)) :
              \/ Retain(trace.entries, entry)[i] = entry
              \/ \E j \in 1..Len(trace.entries) :
                   Retain(trace.entries, entry)[i] = trace.entries[j]
         /\ Len(Retain(trace.entries, entry)) # 0
         /\ Retain(trace.entries, entry)[Len(Retain(trace.entries, entry))] = entry
<1> DEFINE old == trace.entries
           new == Retain(old, entry)
<1>1. old \in Seq(Entry) /\ Len(old) <= TraceCapacity /\ Len(old) \in Nat
  BY LenProperties DEF TypeInv, TraceTyped
<1>2. InOrder(old) /\ \A i \in 1..Len(old) : NotReversed(old[i], entry)
  OBVIOUS
<1>3. PICK shift \in {0, 1} :
        /\ Len(new) = Len(old) - shift + 1
        /\ Len(old) - shift \in Nat
        /\ \A i \in 1..(Len(old) - shift) : new[i] = old[i + shift]
        /\ new[Len(old) - shift + 1] = entry
  BY <1>1, RetainShape
<1> HIDE DEF old, new
<1>4. ASSUME NEW i \in 1..Len(new), NEW j \in 1..Len(new), i < j
      PROVE  NotReversed(new[i], new[j])
  <2>1. i \in 1..(Len(old) - shift) /\ i + shift \in 1..Len(old)
    BY <1>1, <1>3, <1>4
  <2>2. CASE j = Len(new)
    BY <1>2, <1>3, <2>1, <2>2
  <2>3. CASE j # Len(new)
    <3>1. j \in 1..(Len(old) - shift) /\ j + shift \in 1..Len(old) /\ i + shift < j + shift
      BY <1>1, <1>3, <1>4, <2>3
    <3> QED BY <1>2, <1>3, <2>1, <3>1 DEF InOrder
  <2> QED BY <2>2, <2>3
<1>5. ASSUME NEW i \in 1..Len(new)
      PROVE  new[i] = entry \/ \E j \in 1..Len(old) : new[i] = old[j]
  <2>1. CASE i = Len(new)
    BY <1>3, <2>1
  <2>2. CASE i # Len(new)
    <3>1. i \in 1..(Len(old) - shift) /\ i + shift \in 1..Len(old)
      BY <1>1, <1>3, <2>2
    <3> QED BY <1>3, <3>1
  <2> QED BY <2>1, <2>2
<1>6. InOrder(new) /\ Len(new) # 0 /\ new[Len(new)] = entry
  BY <1>3, <1>4 DEF InOrder
<1> QED BY <1>5, <1>6 DEF old, new

\* What an entry says stays true: nothing is unapplied, no failure or close undone.
LEMMA EntriesStayTrue ==
  ASSUME TypeInv, ShutdownInv, DeliveryInv, [Next]_vars, NEW entry \in Entry, EntryHolds(entry)
  PROVE  EntryHolds(entry)'
<1>1. entry.number \in Nat /\ nextSequence \in Nat /\ Applied \in Nat
  BY LenProperties DEF Entry, TypeInv, Applied
<1> USE DEF EntryHolds
<1>2. ASSUME NEW s \in Senders, SenderActions(s)
      PROVE  EntryHolds(entry)'
  <2>1. /\ UNCHANGED <<accepting, worker, privateState>>
        /\ nextSequence' = nextSequence \/ nextSequence' = nextSequence + 1
    BY <1>2 DEF SenderActions, RequestSend, TakePermit, InterruptSend, EnterGate, Refuse,
       RejectMessage, RecordAcceptance, Offer, ObserveReceipt, workerVars
  <2> QED BY <1>1, <2>1 DEF Failure, TraceClosed, Applied
<1>3. ASSUME NEW c \in Closers, CloserActions(c)
      PROVE  EntryHolds(entry)'
  <2>1. /\ UNCHANGED <<nextSequence, worker, privateState>>
        /\ accepting' = accepting \/ accepting = "open"
    BY <1>3, CloserFrame DEF workerVars
  <2> QED BY <2>1 DEF Failure, TraceClosed, Applied
<1>4. CASE WorkerStep
  <2>1. nextSequence' = nextSequence /\ (accepting' = accepting \/ accepting' = "transition_failed")
    BY <1>4, WorkerFrame
  <2>2. Applied' = Applied \/ Applied' = Applied + 1
    <3>1. CASE CommitTransition
      BY <3>1, AppendProperties DEF CommitTransition, Applied, TypeInv
    <3>2. CASE ~CommitTransition
      BY <1>4, <3>2 DEF WorkerStep, StartMessage, SucceedReceipt, ReleaseCommitted,
         FailTransition, StopAccepting, FailReceipt, ReleaseFailed, FailPending,
         FinishClosed, PublishSnapshot, workerVars, Applied
    <3> QED BY <3>1, <3>2
  <2>3. TraceClosed => TraceClosed'
    BY <1>4 DEF TraceClosed, WorkerStep, StartMessage, CommitTransition, SucceedReceipt,
       ReleaseCommitted, FailTransition, StopAccepting, FailReceipt, ReleaseFailed,
       FailPending, FinishClosed, PublishSnapshot, workerVars
  <2>4. worker = "failing" => worker' = "failing" \/ accepting' = "transition_failed"
    BY <1>4 DEF WorkerStep, StartMessage, CommitTransition, SucceedReceipt,
       ReleaseCommitted, FailTransition, StopAccepting, FailReceipt, ReleaseFailed,
       FailPending, FinishClosed, PublishSnapshot, workerVars
  <2> QED BY <1>1, <2>1, <2>2, <2>3, <2>4 DEF Failure
<1>5. CASE UNCHANGED vars
  BY <1>5 DEF vars, workerVars, Failure, TraceClosed, Applied
<1> QED BY <1>2, <1>3, <1>4, <1>5, NextCases

\* A step that retains one entry: what remains is to say that the entry is true, and
\* that it is no cause of one retained before it.
LEMMA RetainedEntries ==
  ASSUME TypeInv, ShutdownInv, DeliveryInv, EntriesInv, Next, NEW entry \in Entry,
         trace'.entries = Retain(trace.entries, entry),
         EntryHolds(entry)',
         \A i \in 1..Len(trace.entries) : NotReversed(trace.entries[i], entry)
  PROVE  /\ Told(trace.entries)'
         /\ InOrder(trace.entries)'
         /\ (Len(trace.entries) # 0)'
         /\ (trace.entries[Len(trace.entries)])' = entry
<1>1. InOrder(trace.entries)
  BY DEF EntriesInv, InOrder
<1>2. /\ InOrder(trace'.entries)
      /\ Len(trace'.entries) # 0
      /\ trace'.entries[Len(trace'.entries)] = entry
      /\ \A i \in 1..Len(trace'.entries) :
           \/ trace'.entries[i] = entry
           \/ \E j \in 1..Len(trace.entries) : trace'.entries[i] = trace.entries[j]
  BY <1>1, RetainInOrder
<1>3. ASSUME NEW i \in 1..Len(trace'.entries)
      PROVE  EntryHolds(trace.entries[i])'
  <2>1. CASE trace'.entries[i] = entry
    BY <2>1 DEF EntryHolds
  <2>2. ASSUME NEW j \in 1..Len(trace.entries), trace'.entries[i] = trace.entries[j]
        PROVE  EntryHolds(trace.entries[i])'
    <3>1. PICK x \in Entry : x = trace.entries[j]
      BY LenProperties DEF TypeInv, TraceTyped
    <3>2. EntryHolds(x)
      BY <3>1 DEF EntriesInv
    <3>3. EntryHolds(x)'
      BY <3>2, EntriesStayTrue
    <3> QED BY <2>2, <3>1, <3>3 DEF EntryHolds
  <2> QED BY <1>2, <2>1, <2>2
<1>4. Told(trace.entries)'
  BY <1>3 DEF Told
<1> QED BY <1>2, <1>4 DEF InOrder

\* A step that leaves the trace alone leaves its entries true and in order.
LEMMA KeptEntries ==
  ASSUME TypeInv, ShutdownInv, DeliveryInv, EntriesInv, [Next]_vars, trace' = trace
  PROVE  Told(trace.entries)' /\ InOrder(trace.entries)'
<1>1. ASSUME NEW i \in 1..Len(trace.entries) PROVE EntryHolds(trace.entries[i])'
  <2>1. PICK x \in Entry : x = trace.entries[i]
    BY LenProperties DEF TypeInv, TraceTyped
  <2>2. EntryHolds(x)'
    BY <2>1, EntriesStayTrue DEF EntriesInv
  <2> QED BY <2>1, <2>2 DEF EntryHolds
<1> QED BY <1>1 DEF EntriesInv, Told, InOrder

LEMMA SenderTrace ==
  ASSUME TypeInv, GateInv, ShutdownInv, DeliveryInv, TraceInv, Next,
         NEW s \in Senders, SenderActions(s)
  PROVE  TraceInv'
<1>1. UNCHANGED <<accepting, closed, privateState, worker>>
  BY DEF SenderActions, RequestSend, TakePermit, InterruptSend, EnterGate, Refuse,
     RejectMessage, RecordAcceptance, Offer, ObserveReceipt, workerVars
<1>2. /\ Applied' = Applied /\ (Failure' <=> Failure) /\ (TraceClosed' <=> TraceClosed)
      /\ Applied \in Nat /\ nextSequence \in Nat
  BY <1>1, LenProperties DEF Applied, Failure, TraceClosed, TypeInv
<1>3. CASE RecordAcceptance(s)
  <2> DEFINE entry == [kind |-> "accepted", number |-> nextSequence + 1]
  <2>1. /\ nextSequence' = nextSequence + 1 /\ accepting = "open"
        /\ trace' = acceptActorEnvelope(trace, nextSequence + 1)
    BY <1>3 DEF RecordAcceptance
  <2>2. ~TraceClosed /\ closed = NoSnapshot
    BY <2>1 DEF ShutdownInv, TraceClosed
  <2>3. entry \in Entry
    BY <1>2 DEF Entry, EntryKind
  <2>4. \A i \in 1..Len(trace.entries) : NotReversed(trace.entries[i], entry)
    <3> SUFFICES ASSUME NEW i \in 1..Len(trace.entries)
                 PROVE  NotReversed(trace.entries[i], entry)
      OBVIOUS
    <3>1. trace.entries[i] \in Entry /\ EntryHolds(trace.entries[i])
      BY LenProperties DEF TypeInv, TraceTyped, TraceInv, EntriesInv
    <3> QED BY <1>2, <3>1 DEF EntryHolds, NotReversed, Entry
  <2>5. PICK x \in Entry : x = entry
    BY <2>3
  <2>6. EntryHolds(x)'
    BY <2>5 DEF EntryHolds
  <2>7. trace'.entries = Retain(trace.entries, x)
    BY <2>1, <2>5 DEF acceptActorEnvelope
  <2>8. Told(trace.entries)' /\ InOrder(trace.entries)'
    BY <2>4, <2>5, <2>6, <2>7, RetainedEntries DEF TraceInv
  <2>9. CountersInv'
    BY <1>1, <1>2, <2>1 DEF TraceInv, CountersInv, acceptActorEnvelope, TypeInv, TraceTyped
  <2>10. EntriesInv'
    BY <1>2, <2>2, <2>8 DEF EntriesInv, Told, InOrder
  <2> QED BY <1>1, <2>2, <2>9, <2>10 DEF TraceInv
<1>4. CASE ~RecordAcceptance(s)
  <2>1. UNCHANGED <<trace, nextSequence>>
    BY <1>4 DEF SenderActions, RequestSend, TakePermit, InterruptSend, EnterGate, Refuse,
       RejectMessage, Offer, ObserveReceipt
  <2>2. Told(trace.entries)' /\ InOrder(trace.entries)'
    BY <2>1, KeptEntries DEF TraceInv
  <2>3. CountersInv'
    BY <1>1, <1>2, <2>1 DEF TraceInv, CountersInv
  <2>4. EntriesInv'
    BY <1>2, <2>1, <2>2 DEF TraceInv, EntriesInv, Told, InOrder
  <2> QED BY <1>1, <2>1, <2>3, <2>4 DEF TraceInv
<1> QED BY <1>3, <1>4

LEMMA CloserTrace ==
  ASSUME TypeInv, ShutdownInv, DeliveryInv, TraceInv, Next, NEW c \in Closers, CloserActions(c)
  PROVE  TraceInv'
<1>1. /\ UNCHANGED <<trace, closed, nextSequence, privateState, worker>>
      /\ accepting' = accepting \/ (accepting = "open" /\ accepting' = "closing")
  BY CloserFrame DEF workerVars
<1>2. Applied' = Applied /\ (Failure' <=> Failure) /\ (TraceClosed' <=> TraceClosed)
  BY <1>1 DEF Applied, Failure, TraceClosed
<1>3. Told(trace.entries)' /\ InOrder(trace.entries)'
  BY <1>1, KeptEntries DEF TraceInv
<1>4. CountersInv'
  BY <1>1, <1>2 DEF TraceInv, CountersInv
<1>5. EntriesInv'
  BY <1>1, <1>2, <1>3 DEF TraceInv, EntriesInv, Told, InOrder
<1> QED BY <1>1, <1>4, <1>5 DEF TraceInv

\* The worker's own observation of a message: started, committed or failed.
LEMMA ObservedEntries ==
  ASSUME TypeInv, ShutdownInv, DeliveryInv, TraceInv, Next,
         NEW kind \in EntryKind, NEW n \in Nat, Observe(kind, n), ~TraceClosed',
         kind \notin {"accepted", "closed"},
         EntryHolds([kind |-> kind, number |-> n])',
         kind = "started" =>
           \A i \in 1..Len(trace.entries) :
              /\ trace.entries[i].kind # "transition_failed"
              /\ ~(trace.entries[i].kind = "committed" /\ trace.entries[i].number = n)
  PROVE  EntriesInv' /\ trace'.totalObserved = trace.totalObserved + 1
         /\ trace'.acceptedCount = trace.acceptedCount
<1>1. PICK x \in Entry : x = [kind |-> kind, number |-> n]
  BY DEF Entry
<1>2. EntryHolds(x)'
  BY <1>1 DEF EntryHolds
<1>3. \A i \in 1..Len(trace.entries) : NotReversed(trace.entries[i], x)
  BY <1>1 DEF NotReversed
<1>4. /\ trace'.entries = Retain(trace.entries, x)
      /\ trace'.totalObserved = trace.totalObserved + 1
      /\ trace'.acceptedCount = trace.acceptedCount
  BY <1>1 DEF Observe, appendActorObservation
<1>5. Told(trace.entries)' /\ InOrder(trace.entries)'
  BY <1>2, <1>3, <1>4, RetainedEntries DEF TraceInv
<1> QED BY <1>4, <1>5 DEF EntriesInv, Told, InOrder

LEMMA WorkerTrace ==
  ASSUME TypeInv, GateInv, ShutdownInv, DeliveryInv, TraceInv, Next, WorkerStep
  PROVE  TraceInv'
<1> USE DEF clientVars
<1>1. /\ nextSequence' = nextSequence /\ nextSequence \in Nat /\ Applied \in Nat
      /\ Taken \in Nat /\ Taken <= nextSequence
  BY WorkerFrame, QueueFacts, LenProperties
     DEF TypeInv, Applied, Taken, DeliveryInv, QueueInv
<1>2. closed = NoSnapshot
  BY DEF ShutdownInv, WorkerStep, StartMessage, CommitTransition, SucceedReceipt,
     ReleaseCommitted, FailTransition, StopAccepting, FailReceipt, ReleaseFailed,
     FailPending, FinishClosed, PublishSnapshot
<1>3. /\ worker \in {"idle", "running", "committed", "settled", "failing"} =>
           accepting # "transition_failed"
      /\ worker \in {"stopped", "failed", "draining"} => accepting = "transition_failed"
      /\ trace.totalObserved \in Nat
  BY DEF DeliveryInv, WorkerInv, ShutdownInv, TypeInv, TraceTyped
<1>4. CASE StartMessage
  <2>1. /\ worker = "idle" /\ worker' = "running" /\ UNCHANGED <<accepting, privateState, closed>>
        /\ Observe("started", Head(mailbox)) /\ Head(mailbox) = Taken + 1
        /\ Taken + 1 <= nextSequence /\ Applied = Taken
    <3>1. Queued \in Nat /\ Queued # 0 /\ Head(mailbox) = mailbox[1]
      BY <1>4, QueueFacts DEF StartMessage
    <3>2. Head(mailbox) = Taken + 1
      BY <3>1 DEF DeliveryInv, QueueInv
    <3>3. Taken + 1 <= nextSequence
      BY <1>1, <3>1 DEF Taken
    <3> QED BY <1>4, <3>2, <3>3 DEF StartMessage, DeliveryInv, WorkerInv
  <2>2. Applied' = Applied /\ ~Failure /\ ~Failure' /\ ~TraceClosed /\ ~TraceClosed'
    BY <1>3, <2>1 DEF Applied, Failure, TraceClosed
  <2>0. PICK n \in Nat : n = Taken + 1
    BY <1>1
  <2>3. EntryHolds([kind |-> "started", number |-> n])'
    BY <1>1, <2>1, <2>0 DEF EntryHolds
  <2>4. ASSUME NEW i \in 1..Len(trace.entries)
        PROVE  /\ trace.entries[i].kind # "transition_failed"
               /\ ~(trace.entries[i].kind = "committed" /\ trace.entries[i].number = n)
    BY <1>1, <2>1, <2>2, <2>0 DEF TraceInv, EntriesInv, EntryHolds
  <2>5. EntriesInv' /\ trace'.totalObserved = trace.totalObserved + 1
        /\ trace'.acceptedCount = trace.acceptedCount
    <3>1. Observe("started", n)
      BY <2>1, <2>0
    <3> QED BY <2>2, <2>3, <2>4, <3>1, ObservedEntries, "started" \in EntryKind DEF EntryKind
  <2>6. CountersInv'
    BY <1>1, <1>3, <2>1, <2>2, <2>5 DEF TraceInv, CountersInv
  <2> QED BY <1>2, <2>1, <2>5, <2>6 DEF TraceInv
<1>5. CASE CommitTransition
  <2>1. /\ worker = "running" /\ worker' = "committed" /\ UNCHANGED <<accepting, closed>>
        /\ Observe("committed", current) /\ Applied' = Applied + 1 /\ current = Applied + 1
    BY <1>1, <1>5, AppendProperties
       DEF CommitTransition, Applied, TypeInv, DeliveryInv, WorkerInv, Working
  <2>2. ~Failure /\ ~Failure' /\ ~TraceClosed /\ ~TraceClosed'
    BY <1>3, <2>1 DEF Failure, TraceClosed
  <2>0. PICK n \in Nat : n = current
    BY DEF TypeInv
  <2>3. EntryHolds([kind |-> "committed", number |-> n])'
    BY <1>1, <2>1, <2>0 DEF EntryHolds
  <2>4. EntriesInv' /\ trace'.totalObserved = trace.totalObserved + 1
        /\ trace'.acceptedCount = trace.acceptedCount
    <3>1. Observe("committed", n)
      BY <2>1, <2>0
    <3> QED BY <2>2, <2>3, <3>1, ObservedEntries, "committed" \in EntryKind DEF EntryKind
  <2>5. CountersInv'
    BY <1>1, <1>3, <2>1, <2>2, <2>4 DEF TraceInv, CountersInv
  <2> QED BY <1>2, <2>1, <2>4, <2>5 DEF TraceInv
<1>6. CASE FailTransition
  <2>1. /\ worker = "running" /\ worker' = "failing" /\ UNCHANGED <<accepting, closed, privateState>>
        /\ Observe("transition_failed", current) /\ Applied' = Applied
    BY <1>6 DEF FailTransition, Applied
  <2>2. ~Failure /\ Failure' /\ ~TraceClosed /\ ~TraceClosed'
    BY <1>3, <2>1 DEF Failure, TraceClosed
  <2>0. PICK n \in Nat : n = current
    BY DEF TypeInv
  <2>3. EntryHolds([kind |-> "transition_failed", number |-> n])'
    BY <2>2 DEF EntryHolds
  <2>4. EntriesInv' /\ trace'.totalObserved = trace.totalObserved + 1
        /\ trace'.acceptedCount = trace.acceptedCount
    <3>1. Observe("transition_failed", n)
      BY <2>1, <2>0
    <3> QED BY <2>2, <2>3, <3>1, ObservedEntries, "transition_failed" \in EntryKind
            DEF EntryKind
  <2>5. CountersInv'
    BY <1>1, <1>3, <2>1, <2>2, <2>4 DEF TraceInv, CountersInv
  <2> QED BY <1>2, <2>1, <2>4, <2>5 DEF TraceInv
<1>7. CASE FinishClosed
  <2>1. /\ worker \in {"idle", "draining"} /\ worker' = "closing"
        /\ UNCHANGED <<accepting, closed, privateState>> /\ Applied' = Applied
    BY <1>7 DEF FinishClosed, Applied
  <2>2. (Failure' <=> Failure) /\ ~TraceClosed /\ TraceClosed'
    BY <2>1 DEF Failure, TraceClosed
  <2>3. ~\E i \in DOMAIN trace.entries : trace.entries[i].kind = "closed"
    BY <2>2, LenProperties DEF TraceInv, EntriesInv, EntryHolds, TypeInv, TraceTyped
  <2>4. trace' = closeActorTrace(trace)
    BY <1>7, <2>3 DEF FinishClosed
  <2>5. PICK x \in Entry : x = [kind |-> "closed", number |-> nextSequence]
    BY <1>1 DEF Entry, EntryKind
  <2>6. EntryHolds(x)'
    BY <2>2, <2>5 DEF EntryHolds
  <2>7. \A i \in 1..Len(trace.entries) : NotReversed(trace.entries[i], x)
    BY <2>5 DEF NotReversed
  <2>8. /\ trace'.entries = Retain(trace.entries, x)
        /\ trace'.totalObserved = trace.totalObserved + 1
        /\ trace'.acceptedCount = trace.acceptedCount
    BY <2>4, <2>5 DEF closeActorTrace, appendActorObservation, TraceInv, CountersInv
  <2>9. /\ Told(trace.entries)' /\ InOrder(trace.entries)'
        /\ (Len(trace.entries) # 0)'
        /\ (trace.entries[Len(trace.entries)])' = x
    BY <2>6, <2>7, <2>8, RetainedEntries DEF TraceInv
  <2>10. EntriesInv'
    BY <1>1, <2>5, <2>9 DEF EntriesInv, Told, InOrder
  <2>11. CountersInv'
    BY <1>1, <1>3, <2>1, <2>2, <2>8 DEF TraceInv, CountersInv
  <2> QED BY <1>2, <2>1, <2>10, <2>11 DEF TraceInv
<1>8. CASE SucceedReceipt \/ ReleaseCommitted \/ StopAccepting \/ FailReceipt
           \/ ReleaseFailed \/ FailPending \/ PublishSnapshot
  <2>1. UNCHANGED <<trace, privateState>>
    BY <1>8 DEF SucceedReceipt, ReleaseCommitted, StopAccepting, FailReceipt, ReleaseFailed,
       FailPending, PublishSnapshot, workerVars
  <2>2. /\ worker # "running" /\ worker' # "running" /\ (Failure' <=> Failure)
        /\ (TraceClosed' <=> TraceClosed)
    BY <1>3, <1>8 DEF SucceedReceipt, ReleaseCommitted, StopAccepting, FailReceipt,
       ReleaseFailed, FailPending, PublishSnapshot, workerVars, Failure, TraceClosed
  <2>3. Told(trace.entries)' /\ InOrder(trace.entries)'
    BY <2>1, KeptEntries DEF TraceInv
  <2>4. CountersInv'
    BY <1>1, <2>1, <2>2 DEF TraceInv, CountersInv, Applied
  <2>5. EntriesInv'
    BY <1>1, <2>1, <2>2, <2>3 DEF TraceInv, EntriesInv, Told, InOrder
  <2>6. closed' = NoSnapshot \/ closed' = snapshotActorTrace(trace)
    BY <1>2, <1>8 DEF SucceedReceipt, ReleaseCommitted, StopAccepting, FailReceipt,
       ReleaseFailed, FailPending, PublishSnapshot
  <2>7. snapshotActorTrace(trace)' = snapshotActorTrace(trace)
    BY <2>1 DEF snapshotActorTrace
  <2>8. (closed # NoSnapshot => closed = snapshotActorTrace(trace))'
    BY <2>6, <2>7
  <2> QED BY <2>4, <2>5, <2>8 DEF TraceInv
<1> QED BY <1>4, <1>5, <1>6, <1>7, <1>8 DEF WorkerStep

LEMMA TraceInvariant == Spec => []TraceInv
<1>1. Init => TraceInv
  BY DEF Init, TraceInv, CountersInv, EntriesInv, emptyActorTraceState, Failure,
     TraceClosed, Applied
<1>2. TypeInv /\ GateInv /\ ShutdownInv /\ DeliveryInv /\ TraceInv /\ [Next]_vars
        => TraceInv'
  <2> SUFFICES ASSUME TypeInv, GateInv, ShutdownInv, DeliveryInv, TraceInv, [Next]_vars
               PROVE  TraceInv'
    OBVIOUS
  <2>1. CASE UNCHANGED vars
    BY <2>1 DEF vars, workerVars, TraceInv, CountersInv, EntriesInv, EntryHolds, Failure,
       TraceClosed, Applied, snapshotActorTrace
  <2> QED BY <2>1, NextCases, SenderTrace, CloserTrace, WorkerTrace
<1> QED BY <1>1, <1>2, TypeInvariant, GateInvariant, ShutdownInvariant, DeliveryInvariant,
        PTL DEF Spec

\* The published snapshot is final and exact: every accepted message is settled, the
\* counters account for everything observed even when entries were evicted, the closed
\* entry is the last, and no retained entry precedes its cause (finishClosed, the
\* trace buffer, and the sends that race with the shutdown).
THEOREM SnapshotIsFaithful == Spec => []SnapshotFaithful
<1>1. TypeInv /\ GateInv /\ ShutdownInv /\ DeliveryInv /\ TraceInv => SnapshotFaithful
  <2> SUFFICES ASSUME TypeInv, GateInv, ShutdownInv, DeliveryInv, TraceInv,
                      closed # NoSnapshot
               PROVE  /\ ~\E n \in DOMAIN receipts : receipts[n] = "pending"
                      /\ mailbox = <<>>
                      /\ closed = snapshotActorTrace(trace)
                      /\ closed.acceptedCount = nextSequence
                      /\ closed.totalObserved =
                           nextSequence + 2 * Count("committed") + 2 * Count("failed") + 1
                      /\ closed.entries[Len(closed.entries)] =
                           [kind |-> "closed", number |-> nextSequence]
                      /\ \A n \in 1..nextSequence :
                           /\ \A i \in Position("accepted", n), j \in Position("started", n) :
                                i < j
                           /\ \A i \in Position("started", n),
                                 j \in Position("committed", n)
                                         \cup Position("transition_failed", n) : i < j
    BY DEF SnapshotFaithful
  <2>1. /\ worker = "exited" /\ accepting # "open" /\ mailbox = <<>>
        /\ closed = snapshotActorTrace(trace)
    BY DEF ShutdownInv, DeliveryInv, WorkerInv, TraceInv
  <2>2. /\ closed.acceptedCount = trace.acceptedCount
        /\ closed.totalObserved = trace.totalObserved
        /\ closed.entries = trace.entries
    BY <2>1 DEF snapshotActorTrace
  <2>3. nextSequence \in Nat /\ Applied \in Nat /\ Queued = 0 /\ DOMAIN receipts = 1..nextSequence
    BY <2>1, QueueFacts, LenProperties DEF TypeInv, Applied, DeliveryInv, QueueInv
  <2>4. Taken \in Nat /\ Taken <= nextSequence
    BY <2>3 DEF Taken, DeliveryInv, QueueInv
  <2>5. {n \in DOMAIN receipts : receipts[n] = "committed"} = 1..Applied
    BY <2>1, <2>3, <2>4 DEF DeliveryInv, QueueInv, WorkerInv
  <2>6. Count("committed") = Applied
    <3>1. Cardinality(1..Applied) = Applied
      BY <2>3, FS_Interval
    <3> QED BY <2>5, <3>1 DEF Count
  <2>7. ~Unsettled /\ ~Recorded
    BY <2>1 DEF Unsettled, Recorded, GateInv
  <2>8. Count("failed") = IF Failure THEN 1 ELSE 0
    <3>1. CASE accepting = "transition_failed"
      <4>1. Applied + 1 \in 1..nextSequence
        BY <2>1, <2>3, <2>4, <3>1 DEF DeliveryInv, WorkerInv
      <4>2. {n \in DOMAIN receipts : receipts[n] = "failed"} = {Applied + 1}
        BY <2>1, <2>3, <3>1, <4>1 DEF DeliveryInv, QueueInv, FailureTold
      <4> QED BY <3>1, <4>2, FS_Singleton DEF Count, Failure
    <3>2. CASE accepting # "transition_failed"
      <4>1. {n \in DOMAIN receipts : receipts[n] = "failed"} = {}
        BY <2>1, <2>3, <3>2 DEF DeliveryInv, QueueInv, FailureTold
      <4> QED BY <2>1, <3>2, <4>1, FS_EmptySet DEF Count, Failure
    <3> QED BY <3>1, <3>2
  <2>9. closed.totalObserved = nextSequence + 2 * Count("committed") + 2 * Count("failed") + 1
    BY <2>1, <2>2, <2>3, <2>6, <2>8 DEF TraceInv, CountersInv, TraceClosed
  <2>10. ~\E n \in DOMAIN receipts : receipts[n] = "pending"
    BY <2>3, <2>4, <2>7 DEF DeliveryInv, QueueInv, Taken
  <2>11. /\ closed.acceptedCount = nextSequence
         /\ closed.entries[Len(closed.entries)] = [kind |-> "closed", number |-> nextSequence]
    BY <2>1, <2>2 DEF TraceInv, CountersInv, EntriesInv, TraceClosed
  <2>12. ASSUME NEW n \in 1..nextSequence, NEW first \in EntryKind, NEW second \in EntryKind,
                \/ first = "accepted" /\ second = "started"
                \/ first = "started" /\ second \in {"committed", "transition_failed"},
                NEW i \in Position(first, n), NEW j \in Position(second, n)
         PROVE  i < j
    <3>1. /\ i \in 1..Len(trace.entries) /\ j \in 1..Len(trace.entries)
          /\ trace.entries[i] = [kind |-> first, number |-> n]
          /\ trace.entries[j] = [kind |-> second, number |-> n]
      BY LenProperties DEF Position, TypeInv, TraceTyped
    <3>2. i # j
      BY <2>12, <3>1
    <3>3. ~(j < i)
      BY <2>12, <3>1 DEF TraceInv, EntriesInv, NotReversed
    <3>4. i \in Int /\ j \in Int
      BY <3>1
    <3> QED BY <3>2, <3>3, <3>4
  <2>13. ASSUME NEW n \in 1..nextSequence
         PROVE  /\ \A i \in Position("accepted", n), j \in Position("started", n) : i < j
                /\ \A i \in Position("started", n),
                      j \in Position("committed", n) \cup Position("transition_failed", n) : i < j
    BY <2>12 DEF EntryKind
  <2> QED BY <2>1, <2>9, <2>10, <2>11, <2>13
<1> QED BY <1>1, TypeInvariant, GateInvariant, ShutdownInvariant, DeliveryInvariant,
        TraceInvariant, PTL

-----------------------------------------------------------------------------
(* The safety of ActorContract: every step of the runtime is a step of the  *)
(* contract or leaves its variables alone.  Its liveness is TLC's.          *)

\* The message the worker settles next is the oldest pending one.
LEMMA OldestIsNext ==
  ASSUME TypeInv, ShutdownInv, DeliveryInv, NEW m \in 1..nextSequence,
         m = Taken + (IF Unsettled THEN 0 ELSE 1)
  PROVE  Contract!OldestPending(m) /\ m \in DOMAIN receipts
<1>1. Taken \in Nat /\ nextSequence \in Nat /\ DOMAIN receipts = 1..nextSequence
  BY LenProperties DEF TypeInv, DeliveryInv, QueueInv
<1>2. receipts[m] = "pending"
  BY <1>1 DEF DeliveryInv, QueueInv
<1>3. \A n \in 1..(m - 1) : receipts[n] # "pending"
  BY <1>1 DEF DeliveryInv, QueueInv
<1> QED BY <1>1, <1>2, <1>3 DEF Contract!OldestPending

LEMMA ContractStep ==
  ASSUME TypeInv, GateInv, ShutdownInv, DeliveryInv, [Next]_vars
  PROVE  [Contract!Next]_(Contract!vars)
<1> USE DEF Contract!Next, Contract!vars
<1>1. Taken \in Nat /\ nextSequence \in Nat /\ Taken <= nextSequence
      /\ DOMAIN receipts = 1..nextSequence
  BY QueueFacts, LenProperties DEF TypeInv, DeliveryInv, QueueInv, Taken
<1>2. ASSUME NEW s \in Senders, SenderActions(s)
      PROVE  [Contract!Next]_(Contract!vars)
  <2>1. CASE RecordAcceptance(s)
    BY <2>1 DEF RecordAcceptance, Contract!Accept
  <2>2. CASE ~RecordAcceptance(s)
    BY <1>2, <2>2 DEF SenderActions, RequestSend, TakePermit, InterruptSend, EnterGate,
       Refuse, RejectMessage, Offer, ObserveReceipt
  <2> QED BY <2>1, <2>2
<1>3. ASSUME NEW c \in Closers, CloserActions(c)
      PROVE  [Contract!Next]_(Contract!vars)
  BY <1>3, CloserFrame DEF Contract!RequestClose
<1>4. CASE SucceedReceipt
  <2>1. /\ worker = "committed" /\ Unsettled /\ current = Taken /\ current \in 1..nextSequence
        /\ accepting # "transition_failed"
        /\ receipts' = [receipts EXCEPT ![current] = "committed"]
        /\ UNCHANGED <<accepting, closed>>
    BY <1>1, <1>4 DEF SucceedReceipt, Unsettled, DeliveryInv, WorkerInv, Working
  <2>2. Contract!OldestPending(current) /\ current \in DOMAIN receipts
    BY <1>1, <2>1, OldestIsNext
  <2> QED BY <2>1, <2>2 DEF Contract!Resolve, Contract!Commit, Contract!Settle
<1>5. CASE StopAccepting
  <2>1. /\ worker = "failing" /\ Unsettled /\ current = Taken /\ current \in 1..nextSequence
        /\ accepting # "transition_failed" /\ accepting' = "transition_failed"
        /\ UNCHANGED <<receipts, closed>>
    BY <1>1, <1>5 DEF StopAccepting, Unsettled, DeliveryInv, WorkerInv, Working
  <2>2. Contract!OldestPending(current) /\ current \in DOMAIN receipts
    BY <1>1, <2>1, OldestIsNext
  <2> QED BY <2>1, <2>2 DEF Contract!Stop, Contract!Has, Contract!OldestPending
<1>6. CASE FailReceipt
  <2>1. /\ worker = "stopped" /\ Unsettled /\ current = Taken /\ current \in 1..nextSequence
        /\ accepting = "transition_failed" /\ ~FailureTold
        /\ receipts' = [receipts EXCEPT ![current] = "failed"]
        /\ UNCHANGED <<accepting, closed>>
    BY <1>1, <1>6 DEF FailReceipt, Unsettled, DeliveryInv, WorkerInv, Working, ShutdownInv,
       FailureTold
  <2>2. Contract!OldestPending(current) /\ current \in DOMAIN receipts
    BY <1>1, <2>1, OldestIsNext
  <2>3. ~Contract!Has("failed")
    BY <1>1, <2>1 DEF Contract!Has, DeliveryInv, QueueInv
  <2> QED BY <2>1, <2>2, <2>3 DEF Contract!Resolve, Contract!Fail, Contract!Settle
<1>7. CASE FailPending
  <2>1. /\ worker = "draining" /\ ~Unsettled /\ mailbox # <<>>
        /\ FailureTold /\ Applied < Taken /\ UNCHANGED <<accepting, closed>>
    BY <1>7 DEF FailPending, Unsettled, DeliveryInv, WorkerInv, FailureTold
  <2>2. CASE Head(mailbox) = CloseSignal
    BY <1>7, <2>1, <2>2 DEF FailPending
  <2>3. CASE Head(mailbox) # CloseSignal
    <3>1. receipts' = [receipts EXCEPT ![Head(mailbox)] = "not_processed"]
      BY <1>7, <2>3 DEF FailPending
    <3>2. Queued \in Nat /\ Queued # 0 /\ Head(mailbox) = mailbox[1]
      BY <2>1, <2>3, QueueFacts
    <3>3. Head(mailbox) = Taken + 1
      BY <3>2 DEF DeliveryInv, QueueInv
    <3>4. Taken + 1 \in 1..nextSequence
      BY <1>1, <3>2 DEF Taken
    <3>5. Contract!OldestPending(Taken + 1) /\ Taken + 1 \in DOMAIN receipts
      BY <1>1, <2>1, <3>4, OldestIsNext
    <3>6. Contract!Has("failed")
      <4>1. Applied \in Nat
        BY LenProperties DEF Applied, TypeInv
      <4>2. Applied + 1 \in 1..nextSequence
        BY <1>1, <2>1, <4>1
      <4>3. receipts[Applied + 1] = "failed"
        BY <2>1, <4>2 DEF DeliveryInv, QueueInv
      <4> QED BY <1>1, <4>2, <4>3 DEF Contract!Has
    <3> QED BY <2>1, <3>1, <3>3, <3>5, <3>6
            DEF Contract!Resolve, Contract!Cancel, Contract!Settle
  <2> QED BY <2>2, <2>3
<1>8. CASE PublishSnapshot
  <2>1. /\ worker = "closing" /\ accepting # "open" /\ closed = NoSnapshot
        /\ mailbox = <<>> /\ closed' = snapshotActorTrace(trace)
        /\ UNCHANGED <<accepting, receipts>>
    BY <1>8 DEF PublishSnapshot, ShutdownInv, DeliveryInv, WorkerInv
  <2>2. closed' # NoSnapshot
    <3>1. closed'.kind = "snapshot" /\ NoSnapshot.kind = "pending"
      BY <2>1 DEF snapshotActorTrace, NoSnapshot
    <3> QED BY <3>1
  <2>3. ~Unsettled /\ ~Recorded /\ Queued = 0
    BY <2>1, QueueFacts DEF Unsettled, Recorded, GateInv
  <2>4. Taken = nextSequence
    BY <1>1, <2>3 DEF Taken
  <2>5. ~Contract!Has("pending")
    BY <1>1, <2>3, <2>4 DEF Contract!Has, DeliveryInv, QueueInv
  <2> QED BY <2>1, <2>2, <2>5 DEF Contract!Close
<1>9. CASE StartMessage \/ CommitTransition \/ ReleaseCommitted \/ FailTransition
           \/ ReleaseFailed \/ FinishClosed
  BY <1>9 DEF StartMessage, CommitTransition, ReleaseCommitted, FailTransition,
     ReleaseFailed, FinishClosed
<1>10. CASE UNCHANGED vars
  BY <1>10 DEF vars
<1> QED BY <1>2, <1>3, <1>4, <1>5, <1>6, <1>7, <1>8, <1>9, <1>10, NextCases DEF WorkerStep

\* The runtime implements ActorContract's specification, fairness aside: messages are
\* accepted only while the actor is open, their receipts resolve in acceptance order, a
\* failure stops it before anybody learns of it and close answers when nothing is pending.
THEOREM ContractKept == Spec => Contract!Spec
<1>1. Init => Contract!Init
  BY DEF Init, Contract!Init
<1>2. TypeInv /\ GateInv /\ ShutdownInv /\ DeliveryInv /\ [Next]_vars
        => [Contract!Next]_(Contract!vars)
  BY ContractStep
<1> QED BY <1>1, <1>2, TypeInvariant, GateInvariant, ShutdownInvariant, DeliveryInvariant,
        PTL DEF Spec, Contract!Spec
=============================================================================
