--------------------------- MODULE StructuredProofs ---------------------------
(* Proofs about structured concurrency for any scopes, tasks, programs and    *)
(* bounds. Part 1: the algebra of tasks and scopes (StructuredConcurrency).   *)
(* Part 2: its Effect adapter, the caller's protocol with the driver, and     *)
(* that the adapter implements the algebra.                                   *)
EXTENDS StructuredAdapter, TLAPS

-----------------------------------------------------------------------------
(* Part 1. The algebra.                                                       *)
Types ==
    /\ ScopeTypes /\ TaskTypes
    /\ totalYields \in Nat /\ rejected \in BOOLEAN
    /\ \A t \in Tasks : phase[t] # "unspawned" => program[t] \in Programs

(* One event is one of the eight operations, or a rejection that touches      *)
(* nothing a property speaks of.                                              *)
Operations ==
    \/ \E s, p \in Scopes : OpenScope(s, p)
    \/ \E t \in Tasks, s \in Scopes, g \in Programs : Spawn(t, s, g)
    \/ \E t \in Tasks, from, to \in Scopes : Transfer(t, from, to)
    \/ \E t \in Tasks : DispatchYield(t) \/ DispatchSettle(t) \/ RequestCancel(t)
                          \/ DeliverCancel(t) \/ Join(t)
    \/ \E s \in Scopes : ExitScope(s)

LEMMA StepCases ==
    ASSUME Next
    PROVE  \/ Operations /\ UNCHANGED rejected
           \/ UNCHANGED <<scopeVars, taskVars, answer>> /\ rejected'
                /\ (totalYields \in Nat => totalYields' \in Nat)
<1>1. PICK e \in Events : Perform(e) \/ Reject(e)  BY DEF Next
<1>2. CASE Perform(e)
  <2>1. CASE e.tag = "open_scope"  BY <1>1, <1>2, <2>1 DEF Perform, Operations, Events
  <2>2. CASE e.tag = "spawn"       BY <1>1, <1>2, <2>2 DEF Perform, Operations, Events
  <2>3. CASE e.tag = "transfer"    BY <1>1, <1>2, <2>3 DEF Perform, Operations, Events
  <2>4. CASE e.tag = "dispatch"    BY <1>1, <1>2, <2>4 DEF Perform, Operations, Events
  <2>5. CASE e.tag = "request_cancel"  BY <1>1, <1>2, <2>5 DEF Perform, Operations, Events
  <2>6. CASE e.tag = "deliver_cancel"  BY <1>1, <1>2, <2>6 DEF Perform, Operations, Events
  <2>7. CASE e.tag = "join"        BY <1>1, <1>2, <2>7 DEF Perform, Operations, Events
  <2>8. CASE e.tag = "exit_scope"  BY <1>1, <1>2, <2>8 DEF Perform, Operations, Events
  <2> QED  BY <1>2, <2>1, <2>2, <2>3, <2>4, <2>5, <2>6, <2>7, <2>8 DEF Perform
<1>3. CASE Reject(e)
  <2>1. e.tag = "spawn" => e.program.yields \in Nat
        BY <1>1, ProgramsAreFinite DEF Events
  <2>2. UNCHANGED <<scopeVars, taskVars, answer>> /\ rejected'
        BY <1>3 DEF Reject
  <2>3. totalYields' = totalYields \/ (e.tag = "spawn" /\ totalYields' = totalYields + e.program.yields)
        BY <1>3 DEF Reject
  <2>4. totalYields \in Nat => totalYields' \in Nat
        BY <2>1, <2>3
  <2> QED  BY <2>2, <2>4
<1> QED  BY <1>1, <1>2, <1>3

LEMMA TypesInit == Init => Types
<1> SUFFICES ASSUME Init PROVE Types
    OBVIOUS
<1>1. ScopeTypes  BY RootIsAScope DEF Init, ScopeTypes
<1>2. TaskTypes   BY DEF Init, TaskTypes, Outcomes
<1>3. totalYields \in Nat /\ rejected \in BOOLEAN
          /\ \A t \in Tasks : phase[t] # "unspawned" => program[t] \in Programs
      BY DEF Init
<1> QED  BY <1>1, <1>2, <1>3 DEF Types

LEMMA TypesStep == Types /\ [Next]_vars => Types'
<1> SUFFICES ASSUME Types, [Next]_vars PROVE Types'
    OBVIOUS
<1> USE DEF Types, ScopeTypes, TaskTypes, Outcomes
<1>1. CASE Operations /\ UNCHANGED rejected
  <2>1. CASE \E s, p \in Scopes : OpenScope(s, p)
        BY <1>1, <2>1 DEF OpenScope, taskVars
  <2>2. CASE \E t \in Tasks, s \in Scopes, g \in Programs : Spawn(t, s, g)
        BY <1>1, <2>2, ProgramsAreFinite DEF Spawn, scopeVars
  <2>3. CASE \E t \in Tasks, from, to \in Scopes : Transfer(t, from, to)
        BY <1>1, <2>3 DEF Transfer, scopeVars
  <2>4. ASSUME NEW t \in Tasks, DispatchYield(t) PROVE Types'
        BY <1>1, <2>4 DEF DispatchYield, scopeVars
  <2>5. ASSUME NEW t \in Tasks, DispatchSettle(t) PROVE Types'
    <3>1. program[t].terminal \in {"succeeded", "failed"}
          BY <2>5, ProgramsAreFinite DEF DispatchSettle, IsLive
    <3> QED  BY <1>1, <2>5, <3>1, ProgramsAreFinite DEF DispatchSettle, Settle, IsLive, scopeVars
  <2>6. ASSUME NEW t \in Tasks, RequestCancel(t) PROVE Types'
        BY <1>1, <2>6 DEF RequestCancel, scopeVars
  <2>7. ASSUME NEW t \in Tasks, DeliverCancel(t) PROVE Types'
        BY <1>1, <2>7 DEF DeliverCancel, CanDeliver, IsLive, Settle, scopeVars
  <2>8. ASSUME NEW t \in Tasks, Join(t) PROVE Types'
        BY <1>1, <2>8 DEF Join, scopeVars, taskVars
  <2>9. ASSUME NEW s \in Scopes, ExitScope(s) PROVE Types'
        BY <1>1, <2>9 DEF ExitScope
  <2> QED  BY <1>1, <2>1, <2>2, <2>3, <2>4, <2>5, <2>6, <2>7, <2>8, <2>9 DEF Operations
<1>2. CASE UNCHANGED <<scopeVars, taskVars, answer>> /\ rejected' /\ totalYields' \in Nat
      BY <1>2 DEF scopeVars, taskVars
<1>3. CASE UNCHANGED vars
      BY <1>3 DEF vars, scopeVars, taskVars
<1> QED  BY <1>1, <1>2, <1>3, StepCases

LEMMA TypesAlways == Spec => []Types
BY TypesInit, TypesStep, PTL DEF Spec

(* The inductive invariant: the two properties, that a task has had no steps  *)
(* before it is spawned, and that an open scope's parent is open (an exit     *)
(* looks at direct children only, and this is why it may).                    *)
Custody ==
    /\ Types /\ SingularOwnership /\ OutcomeIsEarned
    /\ \A t \in Tasks : phase[t] = "unspawned" => nextStep[t] = 0
    /\ \A c \in Scopes : /\ parent[c] \in Scopes => state[c] # "unopened" /\ (IsOpen(c) => IsOpen(parent[c]))
                         /\ state[c] = "unopened" => parent[c] = NoScope

LEMMA CustodyInit == Init => Custody
<1> SUFFICES ASSUME Init PROVE Custody
    OBVIOUS
<1>1. Types  BY TypesInit
<1>2. SingularOwnership /\ OutcomeIsEarned
      BY DEF Init, SingularOwnership, OutcomeIsEarned, Spawned
<1>3. /\ \A c \in Scopes : parent[c] = NoScope
      /\ \A t \in Tasks : nextStep[t] = 0
      BY DEF Init
<1> QED  BY <1>1, <1>2, <1>3, RootIsAScope DEF Custody

LEMMA CustodyStep == Custody /\ [Next]_vars => Custody'
<1> SUFFICES ASSUME Custody, [Next]_vars PROVE Custody'
    OBVIOUS
<1>0. Types'  BY TypesStep DEF Custody
<1> USE <1>0, RootIsAScope DEF Types, ScopeTypes, TaskTypes, Outcomes, Custody, SingularOwnership, OutcomeIsEarned, Spawned, IsOpen, IsLive
<1>1. CASE Operations /\ UNCHANGED rejected
  <2>1. ASSUME NEW s \in Scopes, NEW p \in Scopes, OpenScope(s, p) PROVE Custody'
        BY <2>1 DEF OpenScope, CanOpen, taskVars
  <2>2. ASSUME NEW t \in Tasks, NEW s \in Scopes, NEW g \in Programs, Spawn(t, s, g) PROVE Custody'
        BY <2>2, ProgramsAreFinite DEF Spawn, CanSpawn, MaySpawn, scopeVars
  <2>3. ASSUME NEW t \in Tasks, NEW from \in Scopes, NEW to \in Scopes, Transfer(t, from, to) PROVE Custody'
        BY <2>3 DEF Transfer, CanTransfer, scopeVars
  <2>4. ASSUME NEW t \in Tasks, DispatchYield(t) PROVE Custody'
        BY <2>4, ProgramsAreFinite DEF DispatchYield, scopeVars
  <2>5. ASSUME NEW t \in Tasks, DispatchSettle(t) PROVE Custody'
        BY <2>5, ProgramsAreFinite DEF DispatchSettle, Settle, scopeVars
  <2>6. ASSUME NEW t \in Tasks, RequestCancel(t) PROVE Custody'
        BY <2>6 DEF RequestCancel, scopeVars
  <2>7. ASSUME NEW t \in Tasks, DeliverCancel(t) PROVE Custody'
        BY <2>7 DEF DeliverCancel, CanDeliver, Settle, scopeVars
  <2>8. ASSUME NEW t \in Tasks, Join(t) PROVE Custody'
        BY <2>8 DEF Join, scopeVars, taskVars
  <2>9. ASSUME NEW s \in Scopes, ExitScope(s) PROVE Custody'
        BY <2>9 DEF ExitScope, Blocked, OpenChildren, LiveTasks
  <2> QED  BY <1>1, <2>1, <2>2, <2>3, <2>4, <2>5, <2>6, <2>7, <2>8, <2>9 DEF Operations
<1>2. CASE UNCHANGED <<scopeVars, taskVars, answer>> /\ rejected' /\ totalYields' \in Nat
      BY <1>2 DEF scopeVars, taskVars
<1>3. CASE UNCHANGED vars
      BY <1>3 DEF vars, scopeVars, taskVars
<1> QED  BY <1>1, <1>2, <1>3, StepCases

LEMMA CustodyAlways == Spec => []Custody
BY CustodyInit, CustodyStep, PTL DEF Spec

(* A live task belongs to one open scope and a terminal one to none, however  *)
(* tasks are spawned, moved, cancelled and scopes exited.                     *)
THEOREM SingularOwnershipHolds == Spec => []SingularOwnership
<1>1. Custody => SingularOwnership  BY DEF Custody
<1> QED  BY <1>1, CustodyAlways, PTL

(* A task ends by its own program after exactly its steps, or by a requested  *)
(* cancellation before that.                                                  *)
THEOREM OutcomeIsEarnedHolds == Spec => []OutcomeIsEarned
<1>1. Custody => OutcomeIsEarned  BY DEF Custody
<1> QED  BY <1>1, CustodyAlways, PTL

(* A closed scope has nothing open below it at any depth, and no live task:   *)
(* the closed scopes are a set closed under children.                         *)
LEMMA CustodyDone == Custody => ClosedScopesAreDone
<1> SUFFICES ASSUME Custody, NEW s \in Scopes, state[s] = "closed", NEW c \in Below(s)
             PROVE  state[c] = "closed" /\ \A t \in Tasks : IsLive(t) => owner[t] # c
    BY DEF ClosedScopesAreDone
<1> DEFINE Closed == {d \in Scopes : state[d] = "closed"}
<1>1. ClosedUnderChildren(Closed)
      BY RootIsAScope DEF ClosedUnderChildren, Custody, Types, ScopeTypes, IsOpen
<1>2. c \in Closed  BY <1>1 DEF Below
<1>3. \A t \in Tasks : IsLive(t) => IsOpen(owner[t])
      BY DEF Custody, SingularOwnership, IsLive
<1> QED  BY <1>2, <1>3 DEF IsOpen
THEOREM ClosedScopesAreDoneHolds == Spec => []ClosedScopesAreDone
<1> QED  BY CustodyDone, CustodyAlways, PTL

(* What an answer says is the case: joins tell the outcome there is, and      *)
(* every other event silences the answer or changes no outcome.               *)
AnswersAreTrue == \A t \in Tasks, o \in Outcomes : answer = <<t, o>> => outcome[t] = o

LEMMA AnswersStep == Types /\ AnswersAreTrue /\ [Next]_vars => AnswersAreTrue'
<1> SUFFICES ASSUME Types, AnswersAreTrue, [Next]_vars PROVE AnswersAreTrue'
    OBVIOUS
<1>1. CASE Operations
  <2>1. \/ answer' = Silence
        \/ \E t \in Tasks : answer' = <<t, outcome[t]>> /\ outcome' = outcome
        BY <1>1 DEF Operations, OpenScope, Spawn, Transfer, DispatchYield, DispatchSettle,
                    RequestCancel, DeliverCancel, Settle, Join, ExitScope, taskVars
  <2> QED  BY <2>1, SilenceIsNoAnswer DEF AnswersAreTrue, Outcomes
<1>2. CASE UNCHANGED <<taskVars, answer>>
      BY <1>2 DEF AnswersAreTrue, taskVars
<1> QED  BY <1>1, <1>2, StepCases DEF vars

LEMMA AnswersAlways == Spec => [](Types /\ AnswersAreTrue)
<1>1. Init => AnswersAreTrue
      BY SilenceIsNoAnswer DEF Init, AnswersAreTrue, Outcomes
<1> QED  BY <1>1, AnswersStep, TypesAlways, PTL DEF Spec

(* No operation touches a task that is terminal.                              *)
LEMMA TerminalStep ==
    ASSUME Types, Next, NEW u \in Tasks, phase[u] = "terminal"
    PROVE  /\ phase'[u] = "terminal" /\ outcome'[u] = outcome[u]
           /\ nextStep'[u] = nextStep[u] /\ requested'[u] = requested[u]
<1> USE DEF Types, TaskTypes, IsLive, taskVars
<1>1. ASSUME NEW s \in Scopes, NEW p \in Scopes, OpenScope(s, p) PROVE UNCHANGED taskVars
      BY <1>1 DEF OpenScope
<1>2. ASSUME NEW t \in Tasks, NEW s \in Scopes, NEW g \in Programs, Spawn(t, s, g)
      PROVE  UNCHANGED <<nextStep, requested, outcome>> /\ phase'[u] = "terminal"
      BY <1>2 DEF Spawn, CanSpawn, MaySpawn
<1>3. ASSUME NEW t \in Tasks, NEW from \in Scopes, NEW to \in Scopes, Transfer(t, from, to)
      PROVE  UNCHANGED <<phase, nextStep, requested, outcome>>
      BY <1>3 DEF Transfer
<1>4. ASSUME NEW t \in Tasks, DispatchYield(t) \/ DispatchSettle(t) \/ RequestCancel(t) \/ DeliverCancel(t)
      PROVE  /\ phase'[u] = phase[u] /\ outcome'[u] = outcome[u]
             /\ nextStep'[u] = nextStep[u] /\ requested'[u] = requested[u]
  <2>1. t # u
        BY <1>4 DEF DispatchYield, DispatchSettle, RequestCancel, DeliverCancel, CanDeliver
  <2> QED  BY <1>4, <2>1 DEF DispatchYield, DispatchSettle, RequestCancel, DeliverCancel, Settle
<1>5. ASSUME NEW t \in Tasks, Join(t) PROVE UNCHANGED taskVars
      BY <1>5 DEF Join
<1>6. ASSUME NEW s \in Scopes, ExitScope(s)
      PROVE  UNCHANGED <<phase, nextStep, outcome>> /\ requested'[u] = requested[u]
      BY <1>6 DEF ExitScope, LiveTasks
<1> QED  BY <1>1, <1>2, <1>3, <1>4, <1>5, <1>6, StepCases DEF Operations

LEMMA ClosedStep ==
    ASSUME Types, Next, NEW d \in Scopes, state[d] = "closed"
    PROVE  state'[d] = "closed"
<1>1. CASE Operations
      BY <1>1 DEF Operations, Types, ScopeTypes, scopeVars, OpenScope, CanOpen, Spawn, Transfer,
                  DispatchYield, DispatchSettle, RequestCancel, DeliverCancel, Join, ExitScope
<1> QED  BY <1>1, StepCases DEF scopeVars

(* An outcome is for ever, a closed scope stays closed, and a join answers    *)
(* with the outcome there is.                                                 *)
THEOREM TerminalIsFinalHolds == Spec => TerminalIsFinal
<1>1. Types /\ (Types /\ AnswersAreTrue)' /\ [Next]_vars =>
        [/\ \A t \in Tasks : phase[t] = "terminal" =>
               /\ phase'[t] = "terminal" /\ outcome'[t] = outcome[t]
               /\ nextStep'[t] = nextStep[t] /\ requested'[t] = requested[t]
         /\ \A s \in Scopes : state[s] = "closed" => state'[s] = "closed"
         /\ \A t \in Tasks, o \in Outcomes : answer' = <<t, o>> => outcome'[t] = o]_vars
  <2> SUFFICES ASSUME Types, AnswersAreTrue', Next
               PROVE  /\ \A t \in Tasks : phase[t] = "terminal" =>
                            /\ phase'[t] = "terminal" /\ outcome'[t] = outcome[t]
                            /\ nextStep'[t] = nextStep[t] /\ requested'[t] = requested[t]
                      /\ \A s \in Scopes : state[s] = "closed" => state'[s] = "closed"
                      /\ \A t \in Tasks, o \in Outcomes : answer' = <<t, o>> => outcome'[t] = o
      OBVIOUS
  <2>1. \A t \in Tasks : phase[t] = "terminal" =>
            /\ phase'[t] = "terminal" /\ outcome'[t] = outcome[t]
            /\ nextStep'[t] = nextStep[t] /\ requested'[t] = requested[t]
        BY TerminalStep
  <2>2. \A s \in Scopes : state[s] = "closed" => state'[s] = "closed"
        BY ClosedStep
  <2>3. \A t \in Tasks, o \in Outcomes : answer' = <<t, o>> => outcome'[t] = o
        BY DEF AnswersAreTrue
  <2> QED  BY <2>1, <2>2, <2>3
<1> QED  BY <1>1, AnswersAlways, PTL DEF Spec, TerminalIsFinal

-----------------------------------------------------------------------------
(* Part 2. The adapter.                                                       *)
Busy == {"applying", "completing", "replying"}

(* The protocol of the caller and the driver. While the driver is busy the    *)
(* caller waits and the queue is empty; a failed script is about to be        *)
(* answered, was answered, or never will be because the driver is gone.       *)
Channel ==
    /\ driver \in Busy => /\ caller = "waiting" /\ ack = "pending" /\ queue = <<>>
                          /\ inHand \in Events
    /\ driver \in {"applying", "completing"} => ~rejected
    /\ driver = "completing" => verdict = "done"
    /\ driver = "replying" => (verdict = "refused" <=> rejected)
    /\ queue # <<>> => /\ caller \in {"waiting", "polling", "abandoned"}
                       /\ ack = "pending" /\ driver \in {"taking", "exited"} /\ ~rejected
    /\ ack = "refused" => rejected
    /\ ack \in {"none", "done"} => ~rejected
    /\ caller \in {"ready", "finished"} => ack \in {"none", "done"}
    /\ caller \in {"waiting", "polling"} => ack # "none"
    /\ caller = "finished" => driver = "exited"
    /\ caller = "polling" => driver = "exited"
    /\ caller = "refused" => ack = "refused"
    /\ caller = "abandoned" => ack = "pending" /\ driver = "exited"

(* The gates and the ledger. A completed gate tells the outcome of its task;  *)
(* only the task being settled can be terminal behind a pending gate, unless  *)
(* the driver ended in between.                                               *)
Gates ==
    /\ \A t \in Tasks :
         /\ gate[t] = "absent" => phase[t] = "unspawned"
         /\ IsComplete(t) => phase[t] = "terminal" /\ gate[t] = ExitOf(outcome[t])
         /\ gate[t] = "pending" /\ phase[t] = "terminal" =>
                driver = "exited" \/ (driver = "completing" /\ inHand.task = t)
    /\ driver = "completing" =>
         /\ inHand.tag \in {"dispatch", "deliver_cancel"} /\ inHand.task \in Tasks
         /\ phase[inHand.task] = "terminal" /\ gate[inHand.task] = "pending"

AdapterCustody == Custody /\ AdapterTypeOK /\ Channel /\ Gates

LEMMA AdapterCustodyInit == AdapterInit => AdapterCustody
<1> SUFFICES ASSUME AdapterInit PROVE AdapterCustody
    OBVIOUS
<1>1. Custody  BY CustodyInit DEF AdapterInit
<1>2. AdapterTypeOK  BY DEF AdapterInit, AdapterTypeOK
<1>3. Channel  BY DEF AdapterInit, Init, Channel, Busy
<1>4. Gates  BY DEF AdapterInit, Init, Gates, IsComplete
<1> QED  BY <1>1, <1>2, <1>3, <1>4 DEF AdapterCustody

(* Every step of the adapter is an event of the ledger or leaves it alone. A  *)
(* join asks the gate, and what the gate says is what the ledger says.        *)
LEMMA JoinIsTold ==
    ASSUME AdapterCustody, NEW t \in Tasks, JoinGate(t)
    PROVE  Perform(inHand) /\ verdict' = "done"
<1> USE DEF AdapterCustody, JoinGate
<1>1. inHand \in Events /\ ~rejected  BY DEF Channel, Busy
<1>2. phase[t] \in {"suspended", "terminal"}
      BY DEF Custody, Types, TaskTypes, Spawned
<1>3. gate[t] \in {"absent", "pending", "success", "failure"}  BY DEF AdapterTypeOK
<1>4. IsComplete(t) => Agrees(t)
      BY DEF Gates, Custody, SingularOwnership, Agrees
<1>5. ~IsComplete(t) => outcome[t] = "none"
  <2> SUFFICES ASSUME ~IsComplete(t) PROVE outcome[t] = "none"
      OBVIOUS
  <2>1. gate[t] = "pending"  BY <1>2, <1>3 DEF Gates, IsComplete
  <2>2. phase[t] = "suspended"  BY <1>2, <2>1 DEF Gates
  <2> QED  BY <2>2 DEF Custody, SingularOwnership
<1>6. /\ answer' = <<t, outcome[t]>> /\ verdict' = "done" /\ UNCHANGED rejected
      BY <1>4, <1>5
<1>7. Join(t)  BY <1>6 DEF Join
<1> QED  BY <1>1, <1>6, <1>7 DEF Perform

LEMMA AdapterStepIsOracleStep ==
    AdapterCustody /\ [AdapterNext]_allVars => [Next]_vars
<1> SUFFICES ASSUME AdapterCustody, [AdapterNext]_allVars PROVE [Next]_vars
    OBVIOUS
<1>1. ASSUME UNCHANGED ledger PROVE [Next]_vars
      BY <1>1 DEF ledger, vars
<1>2. ASSUME RecordScope \/ RecordSpawn \/ RecordProgress \/ RecordExit PROVE Next
  <2>1. inHand \in Events
        BY <1>2 DEF AdapterCustody, Channel, Busy, RecordScope, RecordSpawn, RecordProgress, RecordExit, Record
  <2>2. Perform(inHand)
        BY <1>2 DEF RecordScope, RecordSpawn, RecordProgress, RecordExit, Record
  <2> QED  BY <2>1, <2>2 DEF Next
<1>3. ASSUME NEW t \in Tasks, JoinGate(t) PROVE Next
  <2>1. inHand \in Events  BY <1>3 DEF AdapterCustody, Channel, Busy, JoinGate
  <2> QED  BY <1>3, <2>1, JoinIsTold DEF Next
<1>4. ASSUME Refuse PROVE Next
  <2>1. inHand \in Events /\ Reject(inHand)
        BY <1>4 DEF AdapterCustody, Channel, Busy, Refuse
  <2> QED  BY <2>1 DEF Next
<1>5. ASSUME NEW t \in Tasks, Fork(t) \/ FiberEnds(t) PROVE UNCHANGED ledger
      BY <1>5 DEF Fork, FiberEnds
<1>6. ASSUME Take \/ Complete \/ Reply \/ DriverExits \/ CloseScope PROVE UNCHANGED ledger
      BY <1>6 DEF Take, Complete, Reply, DriverExits, CloseScope
<1>7. ASSUME Caller PROVE UNCHANGED ledger
      BY <1>7 DEF Caller, HearReply, HearExit, Poll, Finish, Offer
<1>8. ASSUME UNCHANGED allVars PROVE UNCHANGED ledger
      BY <1>8 DEF allVars
<1> QED  BY <1>1, <1>2, <1>3, <1>4, <1>5, <1>6, <1>7, <1>8 DEF AdapterNext, Driver
(* What a recorded event does to the phases and outcomes the gates speak of.  *)
LEMMA Recorded ==
    ASSUME NEW e \in Events, Types, Perform(e)
    PROVE  \/ UNCHANGED <<phase, outcome>>
           \/ /\ e.tag = "spawn" /\ e.task \in Tasks /\ phase[e.task] = "unspawned"
              /\ phase' = [phase EXCEPT ![e.task] = "suspended"] /\ UNCHANGED outcome
           \/ /\ e.tag \in {"dispatch", "deliver_cancel"} /\ e.task \in Tasks
              /\ phase[e.task] = "suspended"
              /\ phase' = [phase EXCEPT ![e.task] = "terminal"]
              /\ \E o \in Outcomes : outcome' = [outcome EXCEPT ![e.task] = o]
<1> USE DEF Perform, Events, taskVars
<1>1. CASE e.tag = "open_scope"  BY <1>1 DEF OpenScope
<1>2. CASE e.tag = "spawn"  BY <1>2 DEF Spawn, CanSpawn, MaySpawn
<1>3. CASE e.tag = "transfer"  BY <1>3 DEF Transfer
<1>4. CASE e.tag = "dispatch"
  <2>1. DispatchYield(e.task) \/ DispatchSettle(e.task)  BY <1>4
  <2>2. CASE DispatchYield(e.task)  BY <2>2 DEF DispatchYield
  <2>3. CASE DispatchSettle(e.task)
    <3>1. program[e.task].terminal \in Outcomes
          BY <1>4, <2>3, ProgramsAreFinite DEF DispatchSettle, IsLive, Types, TaskTypes, Outcomes
    <3> QED  BY <1>4, <2>3, <3>1 DEF DispatchSettle, Settle, IsLive
  <2> QED  BY <2>1, <2>2, <2>3
<1>5. CASE e.tag = "request_cancel"  BY <1>5 DEF RequestCancel
<1>6. CASE e.tag = "deliver_cancel"  BY <1>6 DEF DeliverCancel, CanDeliver, IsLive, Settle, Outcomes
<1>7. CASE e.tag = "join"  BY <1>7 DEF Join
<1>8. CASE e.tag = "exit_scope"  BY <1>8 DEF ExitScope
<1> QED  BY <1>1, <1>2, <1>3, <1>4, <1>5, <1>6, <1>7, <1>8

LEMMA AdapterTypeStep == AdapterCustody /\ [AdapterNext]_allVars => AdapterTypeOK'
<1> SUFFICES ASSUME AdapterCustody, [AdapterNext]_allVars PROVE AdapterTypeOK'
    OBVIOUS
<1>0. AdapterTypeOK /\ Channel /\ Gates  BY DEF AdapterCustody
<1> USE <1>0 DEF AdapterTypeOK
<1>1. CASE Take
  <2>1. Head(queue) \in Events /\ Tail(queue) \in Seq(Events) /\ Len(Tail(queue)) <= 1
        BY <1>1 DEF Take
  <2> QED  BY <1>1, <2>1 DEF Take
<1>2. CASE RecordScope \/ RecordSpawn \/ RecordProgress \/ RecordExit
      BY <1>2 DEF RecordScope, RecordSpawn, RecordProgress, RecordExit, Record, AfterRecording
<1>3. CASE Complete  BY <1>3 DEF Complete, ExitOf
<1>4. CASE Refuse  BY <1>4 DEF Refuse
<1>5. CASE Reply  BY <1>5 DEF Reply
<1>6. ASSUME NEW t \in Tasks, Fork(t) \/ FiberEnds(t) PROVE AdapterTypeOK'
      BY <1>6 DEF Fork, FiberEnds, driverVars
<1>7. ASSUME NEW t \in Tasks, JoinGate(t) PROVE AdapterTypeOK'
      BY <1>7 DEF JoinGate
<1>8. CASE DriverExits \/ CloseScope  BY <1>8 DEF DriverExits, CloseScope
<1>9. ASSUME NEW e \in Events, Offer(e) PROVE AdapterTypeOK'
  <2>1. <<e>> \in Seq(Events) /\ Len(<<e>>) <= 1  OBVIOUS
  <2> QED  BY <1>9, <2>1 DEF Offer, driverVars
<1>10. CASE HearReply \/ HearExit \/ Poll \/ Finish
      BY <1>10 DEF HearReply, HearExit, Poll, Finish, Heard, driverVars
<1>11. CASE UNCHANGED allVars  BY <1>11 DEF allVars, adapterVars, driverVars
<1> QED  BY <1>1, <1>2, <1>3, <1>4, <1>5, <1>6, <1>7, <1>8, <1>9, <1>10, <1>11 DEF AdapterNext, Driver, Caller

LEMMA ChannelStep == AdapterCustody /\ [AdapterNext]_allVars => Channel'
<1> SUFFICES ASSUME AdapterCustody, [AdapterNext]_allVars PROVE Channel'
    OBVIOUS
<1>0. AdapterTypeOK /\ Channel /\ Gates /\ rejected \in BOOLEAN
      BY DEF AdapterCustody, Custody, Types
<1> USE <1>0 DEF Channel, Busy
<1>1. CASE Take
  <2>1. Head(queue) \in Events /\ Tail(queue) = <<>>
        BY <1>1 DEF Take, AdapterTypeOK
  <2> QED  BY <1>1, <2>1 DEF Take, ledger
<1>2. CASE RecordScope \/ RecordSpawn \/ RecordProgress \/ RecordExit
  <2>1. driver = "applying" /\ UNCHANGED <<rejected, inHand, caller, queue, ack>>
        BY <1>2 DEF RecordScope, RecordSpawn, RecordProgress, RecordExit, Record, Perform
  <2>2. driver' \in {"completing", "replying"} /\ verdict' = "done"
        BY <1>2 DEF RecordScope, RecordSpawn, RecordProgress, RecordExit, Record, AfterRecording
  <2> QED  BY <2>1, <2>2
<1>3. CASE Complete
  <2>1. verdict = "done"  BY <1>3 DEF Complete
  <2> QED  BY <1>3, <2>1 DEF Complete, ledger
<1>4. CASE Refuse  BY <1>4 DEF Refuse, Reject
<1>5. CASE Reply  BY <1>5 DEF Reply, ledger, AdapterTypeOK
<1>6. ASSUME NEW t \in Tasks, Fork(t) \/ FiberEnds(t) PROVE Channel'
      BY <1>6 DEF Fork, FiberEnds, driverVars, ledger
<1>7. ASSUME NEW t \in Tasks, JoinGate(t) PROVE Channel'
  <2>1. Perform(inHand) /\ verdict' = "done"  BY <1>7, JoinIsTold
  <2>2. UNCHANGED rejected  BY <2>1 DEF Perform
  <2> QED  BY <1>7, <2>1, <2>2 DEF JoinGate
<1>8. CASE DriverExits  BY <1>8 DEF DriverExits, ledger
<1>9. CASE CloseScope  BY <1>9 DEF CloseScope, HasEnded, ledger
<1>10. ASSUME NEW e \in Events, Offer(e) PROVE Channel'
      BY <1>10 DEF Offer, driverVars, ledger, AdapterTypeOK
<1>11. CASE HearReply \/ HearExit \/ Poll
      BY <1>11 DEF HearReply, HearExit, Poll, Heard, driverVars, ledger, AdapterTypeOK
<1>12. CASE Finish  BY <1>12 DEF Finish, ledger, AdapterTypeOK
<1>13. CASE UNCHANGED allVars  BY <1>13 DEF allVars, adapterVars, driverVars, ledger
<1> QED  BY <1>1, <1>2, <1>3, <1>4, <1>5, <1>6, <1>7, <1>8, <1>9, <1>10, <1>11, <1>12, <1>13 DEF AdapterNext, Driver, Caller

LEMMA GatesStep == AdapterCustody /\ [AdapterNext]_allVars => Gates'
<1> SUFFICES ASSUME AdapterCustody, [AdapterNext]_allVars PROVE Gates'
    OBVIOUS
<1>0. AdapterTypeOK /\ Channel /\ Gates /\ Types  BY DEF AdapterCustody, Custody
<1> USE <1>0 DEF Gates, IsComplete, Types, TaskTypes, AdapterTypeOK
<1>1. CASE RecordScope \/ RecordSpawn \/ RecordProgress \/ RecordExit
  <2>1. /\ driver = "applying" /\ UNCHANGED <<inHand, gate>> /\ Perform(inHand) /\ driver' = AfterRecording
        /\ inHand.tag = "spawn" => gate[inHand.task] # "absent"
        BY <1>1 DEF RecordScope, RecordSpawn, RecordProgress, RecordExit, Record
  <2>2. inHand \in Events  BY <2>1 DEF Channel, Busy
  <2>3. CASE UNCHANGED <<phase, outcome>>
    <3>1. driver' = "replying"  BY <2>1, <2>3 DEF AfterRecording
    <3> QED  BY <2>1, <2>3, <3>1
  <2>4. CASE /\ inHand.tag = "spawn" /\ inHand.task \in Tasks /\ phase[inHand.task] = "unspawned"
             /\ phase' = [phase EXCEPT ![inHand.task] = "suspended"] /\ UNCHANGED outcome
    <3>1. driver' = "replying"  BY <2>1, <2>4 DEF AfterRecording
    <3>2. gate[inHand.task] # "absent"  BY <2>1, <2>4
    <3> QED  BY <2>1, <2>4, <3>1, <3>2
  <2>5. CASE /\ inHand.tag \in {"dispatch", "deliver_cancel"} /\ inHand.task \in Tasks
             /\ phase[inHand.task] = "suspended"
             /\ phase' = [phase EXCEPT ![inHand.task] = "terminal"]
             /\ \E o \in Outcomes : outcome' = [outcome EXCEPT ![inHand.task] = o]
    <3>1. driver' = "completing"
      <4>1. phase'[inHand.task] = "terminal"  BY <2>5
      <4> QED  BY <2>1, <2>5, <4>1 DEF AfterRecording
    <3>2. gate[inHand.task] = "pending"  BY <2>5
    <3> QED  BY <2>1, <2>5, <3>1, <3>2
  <2> QED  BY <2>1, <2>2, <2>3, <2>4, <2>5, Recorded
<1>2. CASE Complete
  <2> DEFINE u == inHand.task
  <2>1. /\ driver = "completing" /\ driver' = "replying" /\ UNCHANGED <<phase, outcome>>
        /\ gate' = [gate EXCEPT ![u] = ExitOf(outcome[u])]
        BY <1>2 DEF Complete, ledger, taskVars
  <2>2. u \in Tasks /\ phase[u] = "terminal" /\ ExitOf(outcome[u]) \in {"success", "failure"}
        BY <2>1 DEF ExitOf
  <2> QED  BY <2>1, <2>2
<1>3. CASE Refuse
      BY <1>3 DEF Refuse, Reject, taskVars
<1>4. CASE Reply  BY <1>4 DEF Reply, ledger, taskVars
<1>5. ASSUME NEW t \in Tasks, Fork(t) PROVE Gates'
      BY <1>5 DEF Fork, CanSpawn, MaySpawn, ledger, taskVars, driverVars
<1>6. ASSUME NEW t \in Tasks, FiberEnds(t) PROVE Gates'
      BY <1>6 DEF FiberEnds, ledger, taskVars, driverVars
<1>7. ASSUME NEW t \in Tasks, JoinGate(t) PROVE Gates'
      BY <1>7 DEF JoinGate, taskVars
<1>8. CASE Take \/ DriverExits \/ CloseScope
      BY <1>8 DEF Take, DriverExits, CloseScope, ledger, taskVars
<1>9. CASE Caller
  <2>1. UNCHANGED <<phase, outcome, gate, inHand>> /\ (driver' = driver \/ driver' = "exited")
        BY <1>9 DEF Caller, HearReply, HearExit, Poll, Finish, Offer, ledger, taskVars, driverVars
  <2> QED  BY <2>1
<1>10. CASE UNCHANGED allVars
      BY <1>10 DEF allVars, adapterVars, driverVars, ledger, taskVars
<1> QED  BY <1>1, <1>2, <1>3, <1>4, <1>5, <1>6, <1>7, <1>8, <1>9, <1>10 DEF AdapterNext, Driver

LEMMA AdapterCustodyStep == AdapterCustody /\ [AdapterNext]_allVars => AdapterCustody'
<1> SUFFICES ASSUME AdapterCustody, [AdapterNext]_allVars PROVE AdapterCustody'
    OBVIOUS
<1>1. Custody'  BY AdapterStepIsOracleStep, CustodyStep DEF AdapterCustody
<1> QED  BY <1>1, AdapterTypeStep, ChannelStep, GatesStep DEF AdapterCustody

LEMMA AdapterCustodyAlways == AdapterSpec => []AdapterCustody
BY AdapterCustodyInit, AdapterCustodyStep, PTL DEF AdapterSpec

(* The adapter's types; the queue of capacity one is never full when the      *)
(* caller offers, so an offer never waits.                                    *)
THEOREM AdapterTypeCorrect == AdapterSpec => []AdapterTypeOK
<1>1. AdapterCustody => AdapterTypeOK  BY DEF AdapterCustody
<1> QED  BY <1>1, AdapterCustodyAlways, PTL

(* The caller goes on or finishes only after an event that was carried out,   *)
(* is refused only by a script that failed, and reports the driver's end only *)
(* for an event that will never be acknowledged: whenever the driver ends.    *)
THEOREM CallerIsToldTheTruthHolds == AdapterSpec => []CallerIsToldTheTruth
<1>1. AdapterCustody => CallerIsToldTheTruth
      BY DEF AdapterCustody, Channel, CallerIsToldTheTruth
<1> QED  BY <1>1, AdapterCustodyAlways, PTL

(* adapter.terminal-mismatch is never raised: a gate that is complete tells   *)
(* the outcome the ledger has, so no join is refused on account of it.        *)
NoMismatch == \A t \in Tasks : IsComplete(t) => Agrees(t)
THEOREM NoMismatchHolds == AdapterSpec => []NoMismatch
<1>1. AdapterCustody => NoMismatch
      BY DEF AdapterCustody, Gates, Custody, SingularOwnership, NoMismatch, Agrees
<1> QED  BY <1>1, AdapterCustodyAlways, PTL

(* The oracle's laws hold of the adapter's ledger too: of a closed scope      *)
(* nothing below is open or live, and outcomes are earned, though fibers run, *)
(* the driver dies and gates are completed a step after the ledger.           *)
THEOREM LawsCarryOver == AdapterSpec => [](SingularOwnership /\ ClosedScopesAreDone /\ OutcomeIsEarned)
<1>1. AdapterCustody => SingularOwnership /\ ClosedScopesAreDone /\ OutcomeIsEarned
      BY CustodyDone DEF AdapterCustody, Custody
<1> QED  BY <1>1, AdapterCustodyAlways, PTL

(* The instance's definitions are the oracle's own.                           *)
LEMMA OracleInit == Init => Oracle!Init
BY DEF Init, Oracle!Init
LEMMA OracleTests ==
    /\ \A s : IsOpen(s) <=> Oracle!IsOpen(s)
    /\ \A t : IsLive(t) <=> Oracle!IsLive(t)
    /\ Opened = Oracle!Opened /\ Spawned = Oracle!Spawned
    /\ Events = Oracle!Events
<1>1. \A s : IsOpen(s) <=> Oracle!IsOpen(s)  BY DEF IsOpen, Oracle!IsOpen
<1>2. \A t : IsLive(t) <=> Oracle!IsLive(t)  BY DEF IsLive, Oracle!IsLive
<1>3. Opened = Oracle!Opened    BY DEF Opened, Oracle!Opened
<1>4. Spawned = Oracle!Spawned  BY DEF Spawned, Oracle!Spawned
<1>5. Events = Oracle!Events    BY DEF Events, Oracle!Events
<1> QED  BY <1>1, <1>2, <1>3, <1>4, <1>5

LEMMA OraclePreconditions ==
    /\ \A s, p : CanOpen(s, p) <=> Oracle!CanOpen(s, p)
    /\ \A t, s : MaySpawn(t, s) <=> Oracle!MaySpawn(t, s)
    /\ \A t, s, g : CanSpawn(t, s, g) <=> Oracle!CanSpawn(t, s, g)
    /\ \A t, s, u : CanTransfer(t, s, u) <=> Oracle!CanTransfer(t, s, u)
    /\ \A t : CanDeliver(t) <=> Oracle!CanDeliver(t)
<1>0. /\ Cardinality(Opened) = Oracle!Cardinality(Oracle!Opened)
      /\ Cardinality(Spawned) = Oracle!Cardinality(Oracle!Spawned)
      BY OracleTests, Zenon DEF Cardinality, Oracle!Cardinality
<1>1. \A s, p : CanOpen(s, p) <=> Oracle!CanOpen(s, p)
      BY OracleTests, <1>0, Zenon DEF CanOpen, Oracle!CanOpen
<1>2. \A t, s : MaySpawn(t, s) <=> Oracle!MaySpawn(t, s)
      BY OracleTests, <1>0, Zenon DEF MaySpawn, Oracle!MaySpawn
<1>3. \A t, s, g : CanSpawn(t, s, g) <=> Oracle!CanSpawn(t, s, g)
      BY <1>2 DEF CanSpawn, Oracle!CanSpawn
<1>4. \A t, s, u : CanTransfer(t, s, u) <=> Oracle!CanTransfer(t, s, u)
      BY OracleTests DEF CanTransfer, Oracle!CanTransfer
<1>5. \A t : CanDeliver(t) <=> Oracle!CanDeliver(t)
      BY OracleTests DEF CanDeliver, Oracle!CanDeliver
<1> QED  BY <1>1, <1>2, <1>3, <1>4, <1>5

LEMMA OracleStep == [Next]_vars => [Oracle!Next]_Oracle!vars
<1> SUFFICES ASSUME [Next]_vars PROVE [Oracle!Next]_Oracle!vars
    OBVIOUS
<1>1. CASE UNCHANGED vars
      BY <1>1 DEF vars, scopeVars, taskVars, Oracle!vars, Oracle!scopeVars, Oracle!taskVars
<1>2. ASSUME NEW e \in Events, Perform(e) PROVE Oracle!Next
  <2>1. Oracle!Perform(e)
    <3> USE DEF scopeVars, taskVars, Oracle!scopeVars, Oracle!taskVars
    <3>1. ASSUME NEW s, NEW p, OpenScope(s, p) PROVE Oracle!OpenScope(s, p)
          BY <3>1, OraclePreconditions DEF OpenScope, Oracle!OpenScope
    <3>2. ASSUME NEW t, NEW s, NEW g, Spawn(t, s, g) PROVE Oracle!Spawn(t, s, g)
          BY <3>2, OraclePreconditions DEF Spawn, Oracle!Spawn
    <3>3. ASSUME NEW t, NEW s, NEW u, Transfer(t, s, u) PROVE Oracle!Transfer(t, s, u)
          BY <3>3, OraclePreconditions DEF Transfer, Oracle!Transfer
    <3>4. ASSUME NEW t, DispatchYield(t) PROVE Oracle!DispatchYield(t)
          BY <3>4, OracleTests DEF DispatchYield, Oracle!DispatchYield
    <3>5. ASSUME NEW t, DispatchSettle(t) PROVE Oracle!DispatchSettle(t)
          BY <3>5, OracleTests DEF DispatchSettle, Oracle!DispatchSettle, Settle, Oracle!Settle
    <3>6. ASSUME NEW t, RequestCancel(t) PROVE Oracle!RequestCancel(t)
          BY <3>6, OracleTests DEF RequestCancel, Oracle!RequestCancel
    <3>7. ASSUME NEW t, DeliverCancel(t) PROVE Oracle!DeliverCancel(t)
          BY <3>7, OraclePreconditions DEF DeliverCancel, Oracle!DeliverCancel, Settle, Oracle!Settle
    <3>8. ASSUME NEW t, Join(t) PROVE Oracle!Join(t)
          BY <3>8, OracleTests DEF Join, Oracle!Join
    <3>9. ASSUME NEW s, ExitScope(s) PROVE Oracle!ExitScope(s)
      <4>1. LiveTasks(s) = Oracle!LiveTasks(s)  BY OracleTests DEF LiveTasks, Oracle!LiveTasks
      <4>2. OpenChildren(s) = Oracle!OpenChildren(s)  BY OracleTests DEF OpenChildren, Oracle!OpenChildren
      <4>3. Blocked(s) <=> Oracle!Blocked(s)  BY <4>1, <4>2 DEF Blocked, Oracle!Blocked
      <4> QED  BY <3>9, <4>1, <4>3, OracleTests DEF ExitScope, Oracle!ExitScope
    <3>10. ~rejected /\ UNCHANGED rejected  BY <1>2 DEF Perform
    <3> QED  BY <1>2, <3>1, <3>2, <3>3, <3>4, <3>5, <3>6, <3>7, <3>8, <3>9, <3>10, Zenon DEF Perform, Oracle!Perform
  <2> QED  BY <2>1, OracleTests DEF Oracle!Next
<1>3. ASSUME NEW e \in Events, Reject(e) PROVE Oracle!Next
  <2>1. Oracle!Refused(e)
        BY <1>3, OracleTests, OraclePreconditions DEF Reject, Refused, Oracle!Refused
  <2>2. Oracle!Reject(e)
        BY <1>3, <2>1, OraclePreconditions
        DEF Reject, Oracle!Reject, scopeVars, taskVars, Oracle!scopeVars, Oracle!taskVars
  <2> QED  BY <2>2, OracleTests DEF Oracle!Next
<1> QED  BY <1>1, <1>2, <1>3 DEF Next

(* Whatever the interleaving of fibers and wherever the driver ends, what the *)
(* adapter does to its ledger is what the oracle does for the events of the   *)
(* same script, join answers included.                                        *)
THEOREM RefinesOracleHolds == AdapterSpec => RefinesOracle
<1>1. AdapterInit => Oracle!Init  BY OracleInit DEF AdapterInit
<1>2. AdapterCustody /\ [AdapterNext]_allVars => [Oracle!Next]_Oracle!vars
      BY AdapterStepIsOracleStep, OracleStep
<1> QED  BY <1>1, <1>2, AdapterCustodyAlways, PTL DEF AdapterSpec, RefinesOracle, Oracle!Spec
=============================================================================
