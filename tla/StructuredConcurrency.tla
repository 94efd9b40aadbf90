------------------------ MODULE StructuredConcurrency ------------------------
(* The task and scope algebra of src/src/structured-concurrency/oracle.ts: a  *)
(* script opens and exits a tree of scopes and spawns, moves, steps, cancels  *)
(* and joins tasks. One violated precondition rejects the script. Scripts are *)
(* not bounded here: identities are used once, so the states are finite.      *)
(* Of the observations only what a join answers is kept: the others repeat    *)
(* the change of state. Event indexes, labels and the happens-before edges    *)
(* derived from them are report data nothing decides on, and are left out.    *)
(*                                                                            *)
(* Operators named X_Fault are faulty versions of X, used only as mutations.  *)
EXTENDS Naturals, FiniteSets, FiniteSetsExt

CONSTANTS
    Scopes, Root, NoScope,  \* scope identities, the script's root, "no owner"
    Tasks,                  \* task identities
    Programs,               \* [yields, terminal]: yields before the authored outcome
    NoProgram,              \* the program of a task not yet spawned
    Silence,                \* the answer of an event that is no join
    MaxScopes, MaxTasks, MaxYields   \* structuredConcurrencyBounds

ASSUME RootIsAScope == Root \in Scopes /\ NoScope \notin Scopes
ASSUME ProgramsAreFinite ==
    /\ Programs \subseteq [yields: Nat, terminal: {"succeeded", "failed"}]
    /\ NoProgram \notin Programs
ASSUME SilenceIsNoAnswer ==
    Silence \notin Tasks \X {"none", "succeeded", "failed", "cancelled"}

VARIABLES
    state,        \* scope: "unopened", "open" or "closed"
    parent,       \* scope: its parent
    phase,        \* task: "unspawned", "suspended" or "terminal"
    spawnScope,   \* task: the scope that spawned it
    owner,        \* task: the scope that owns it
    program,      \* task: its authored program
    nextStep,     \* task: dispatches it has had
    requested,    \* task: cancellationRequested
    outcome,      \* task: "none", "succeeded", "failed" or "cancelled"
    totalYields,  \* authored yields of all spawned tasks
    answer,       \* what the latest event, if a join, observed
    rejected      \* the script has failed

scopeVars == <<state, parent>>
taskVars  == <<phase, spawnScope, owner, program, nextStep, requested, outcome>>
vars == <<scopeVars, taskVars, totalYields, answer, rejected>>

Outcomes == {"none", "succeeded", "failed", "cancelled"}

Events ==
    [tag: {"open_scope"}, scope: Scopes, parent: Scopes]
      \cup [tag: {"spawn"}, task: Tasks, scope: Scopes, program: Programs]
      \cup [tag: {"transfer"}, task: Tasks, from: Scopes, to: Scopes]
      \cup [tag: {"dispatch", "request_cancel", "deliver_cancel", "join"}, task: Tasks]
      \cup [tag: {"exit_scope"}, scope: Scopes]

IsOpen(s) == state[s] = "open"
IsLive(t) == phase[t] = "suspended"
Opened    == {s \in Scopes : state[s] # "unopened"}
Spawned   == {t \in Tasks : phase[t] # "unspawned"}

Init ==
    /\ state = [s \in Scopes |-> IF s = Root THEN "open" ELSE "unopened"]
    /\ parent = [s \in Scopes |-> NoScope]
    /\ phase = [t \in Tasks |-> "unspawned"]
    /\ spawnScope = [t \in Tasks |-> NoScope]
    /\ owner = [t \in Tasks |-> NoScope]
    /\ program = [t \in Tasks |-> NoProgram]
    /\ nextStep = [t \in Tasks |-> 0]
    /\ requested = [t \in Tasks |-> FALSE]
    /\ outcome = [t \in Tasks |-> "none"]
    /\ totalYields = 0
    /\ answer = Silence
    /\ rejected = FALSE

(* The preconditions of the events.                                           *)
CanOpen(s, p) ==
    /\ state[s] = "unopened"
    /\ IsOpen(p)
    /\ Cardinality(Opened) < MaxScopes
MaySpawn_LimitLate(t, s) ==                    \* one task past the bound
    /\ phase[t] = "unspawned" /\ IsOpen(s)
    /\ Cardinality(Spawned) <= MaxTasks
MaySpawn(t, s) ==
    /\ phase[t] = "unspawned" /\ IsOpen(s)
    /\ Cardinality(Spawned) < MaxTasks
CanSpawn(t, s, g) == MaySpawn(t, s) /\ totalYields + g.yields <= MaxYields
CanTransfer(t, from, to) ==
    /\ IsLive(t) /\ owner[t] = from
    /\ from # to
    /\ IsOpen(from) /\ IsOpen(to)
CanDeliver_Unrequested(t) == IsLive(t)         \* no request is needed
CanDeliver(t) == IsLive(t) /\ requested[t]

(* What an exit of scope s waits for.                                         *)
OpenChildren(s) == {c \in Scopes : parent[c] = s /\ IsOpen(c)}
LiveTasks_Spawned(s) == {t \in Tasks : spawnScope[t] = s /\ IsLive(t)}   \* the spawner, not the owner
LiveTasks(s) == {t \in Tasks : owner[t] = s /\ IsLive(t)}
Blocked(s) == OpenChildren(s) # {} \/ LiveTasks(s) # {}

OpenScope(s, p) ==
    /\ CanOpen(s, p)
    /\ state' = [state EXCEPT ![s] = "open"]
    /\ parent' = [parent EXCEPT ![s] = p]
    /\ answer' = Silence
    /\ UNCHANGED <<taskVars, totalYields>>

Spawn(t, s, g) ==
    /\ CanSpawn(t, s, g)
    /\ phase' = [phase EXCEPT ![t] = "suspended"]
    /\ spawnScope' = [spawnScope EXCEPT ![t] = s]
    /\ owner' = [owner EXCEPT ![t] = s]
    /\ program' = [program EXCEPT ![t] = g]
    /\ totalYields' = totalYields + g.yields
    /\ answer' = Silence
    /\ UNCHANGED <<scopeVars, nextStep, requested, outcome>>

Transfer_Forgives(t, from, to) ==              \* the new owner forgets the cancellation request
    /\ CanTransfer(t, from, to)
    /\ owner' = [owner EXCEPT ![t] = to]
    /\ requested' = [requested EXCEPT ![t] = FALSE]
    /\ answer' = Silence
    /\ UNCHANGED <<scopeVars, phase, spawnScope, program, nextStep, outcome, totalYields>>
Transfer(t, from, to) ==
    /\ CanTransfer(t, from, to)
    /\ owner' = [owner EXCEPT ![t] = to]
    /\ answer' = Silence
    /\ UNCHANGED <<scopeVars, phase, spawnScope, program, nextStep, requested, outcome, totalYields>>

(* A terminal task gives its ownership up with its outcome.                   *)
Settle(t, o) ==
    /\ phase' = [phase EXCEPT ![t] = "terminal"]
    /\ owner' = [owner EXCEPT ![t] = NoScope]
    /\ outcome' = [outcome EXCEPT ![t] = o]
    /\ answer' = Silence

(* One step of the task: a yield while it has yields left, else its outcome.  *)
DispatchYield(t) ==
    /\ IsLive(t)
    /\ nextStep[t] < program[t].yields
    /\ nextStep' = [nextStep EXCEPT ![t] = @ + 1]
    /\ answer' = Silence
    /\ UNCHANGED <<scopeVars, phase, spawnScope, owner, program, requested, outcome, totalYields>>
DispatchSettle(t) ==
    /\ IsLive(t)
    /\ nextStep[t] >= program[t].yields
    /\ nextStep' = [nextStep EXCEPT ![t] = @ + 1]
    /\ Settle(t, program[t].terminal)
    /\ UNCHANGED <<scopeVars, spawnScope, program, requested, totalYields>>

RequestCancel(t) ==
    /\ IsLive(t)
    /\ requested' = [requested EXCEPT ![t] = TRUE]
    /\ answer' = Silence
    /\ UNCHANGED <<scopeVars, phase, spawnScope, owner, program, nextStep, outcome, totalYields>>

DeliverCancel(t) ==
    /\ CanDeliver(t)
    /\ Settle(t, "cancelled")
    /\ UNCHANGED <<scopeVars, spawnScope, program, nextStep, requested, totalYields>>

Join(t) ==
    /\ t \in Spawned
    /\ answer' = <<t, outcome[t]>>
    /\ UNCHANGED <<scopeVars, taskVars, totalYields>>

(* An exit asks every task the scope still owns to cancel, and closes the     *)
(* scope only if nothing was open or live below it.                           *)
ExitScope(s) ==
    /\ IsOpen(s)
    /\ requested' = [t \in Tasks |-> t \in LiveTasks(s) \/ requested[t]]
    /\ answer' = Silence
    /\ state' = IF Blocked(s) THEN state ELSE [state EXCEPT ![s] = "closed"]
    /\ UNCHANGED <<parent, phase, spawnScope, owner, program, nextStep, outcome, totalYields>>

(* An event that meets its preconditions; a later event sees a script that    *)
(* has not failed.                                                            *)
Perform(e) ==
    /\ ~rejected /\ UNCHANGED rejected
    /\ \/ e.tag = "open_scope" /\ OpenScope(e.scope, e.parent)
       \/ e.tag = "spawn" /\ Spawn(e.task, e.scope, e.program)
       \/ e.tag = "transfer" /\ Transfer(e.task, e.from, e.to)
       \/ e.tag = "dispatch" /\ (DispatchYield(e.task) \/ DispatchSettle(e.task))
       \/ e.tag = "request_cancel" /\ RequestCancel(e.task)
       \/ e.tag = "deliver_cancel" /\ DeliverCancel(e.task)
       \/ e.tag = "join" /\ Join(e.task)
       \/ e.tag = "exit_scope" /\ ExitScope(e.scope)

(* An event that misses one. The yields of a spawn are counted before their   *)
(* limit is checked.                                                          *)
Refused(e) ==
    \/ e.tag = "open_scope" /\ ~CanOpen(e.scope, e.parent)
    \/ e.tag = "spawn" /\ ~CanSpawn(e.task, e.scope, e.program)
    \/ e.tag = "transfer" /\ ~CanTransfer(e.task, e.from, e.to)
    \/ e.tag \in {"dispatch", "request_cancel"} /\ ~IsLive(e.task)
    \/ e.tag = "deliver_cancel" /\ ~CanDeliver(e.task)
    \/ e.tag = "join" /\ e.task \notin Spawned
    \/ e.tag = "exit_scope" /\ ~IsOpen(e.scope)
Reject(e) ==
    /\ ~rejected /\ Refused(e)
    /\ rejected' = TRUE
    /\ totalYields' = IF e.tag = "spawn" /\ MaySpawn(e.task, e.scope)
                      THEN totalYields + e.program.yields ELSE totalYields
    /\ UNCHANGED <<scopeVars, taskVars, answer>>

Next == \E e \in Events : Perform(e) \/ Reject(e)

Spec == Init /\ [][Next]_vars

(* A script that never stops asking: it exits every scope again and again and *)
(* delivers the cancellations that were requested.                            *)
KeepsExiting(s) == Perform([tag |-> "exit_scope", scope |-> s])
KeepsDelivering(t) == Perform([tag |-> "deliver_cancel", task |-> t])
DrainingSpec ==
    /\ Spec
    /\ \A s \in Scopes : WF_vars(KeepsExiting(s))
    /\ \A t \in Tasks : WF_vars(KeepsDelivering(t))
-----------------------------------------------------------------------------
ScopeTypes ==
    /\ state \in [Scopes -> {"unopened", "open", "closed"}]
    /\ parent \in [Scopes -> Scopes \cup {NoScope}]
TaskTypes ==
    /\ phase \in [Tasks -> {"unspawned", "suspended", "terminal"}]
    /\ spawnScope \in [Tasks -> Scopes \cup {NoScope}]
    /\ owner \in [Tasks -> Scopes \cup {NoScope}]
    /\ program \in [Tasks -> Programs \cup {NoProgram}]
    /\ nextStep \in [Tasks -> Nat]
    /\ requested \in [Tasks -> BOOLEAN]
    /\ outcome \in [Tasks -> Outcomes]

(* Types, and the declared bounds: yields are counted per spawned task and    *)
(* stay within the limit for as long as the script is accepted.               *)
TypeOK ==
    /\ ScopeTypes /\ TaskTypes
    /\ totalYields \in Nat /\ rejected \in BOOLEAN
    /\ Cardinality(Opened) <= MaxScopes /\ Cardinality(Spawned) <= MaxTasks
    /\ ~rejected => /\ totalYields <= MaxYields
                    /\ totalYields =
                           FoldSet(LAMBDA t, sum : sum + program[t].yields, 0, Spawned)

(* The report's singular_ownership law: a live task is owned by one scope,    *)
(* and that scope is open; a terminal task by none, and it has an outcome.    *)
SingularOwnership ==
    \A t \in Tasks :
        /\ phase[t] = "suspended" => owner[t] \in Scopes /\ IsOpen(owner[t]) /\ outcome[t] = "none"
        /\ phase[t] = "terminal"  => owner[t] = NoScope /\ outcome[t] # "none"
        /\ phase[t] = "unspawned" => owner[t] = NoScope /\ outcome[t] = "none"

(* scope_exit_waits, and what makes it last: the exit looks only at direct    *)
(* children, yet nothing at any depth below a closed scope is open, and no    *)
(* live task was moved or left in it.                                         *)
ClosedUnderChildren(S) == \A c \in Scopes : parent[c] \in S => c \in S
Below(s) ==
    {c \in Scopes : \A S \in SUBSET Scopes : s \in S /\ ClosedUnderChildren(S) => c \in S}
ClosedScopesAreDone ==
    \A s \in Scopes : state[s] = "closed" =>
        \A c \in Below(s) : state[c] = "closed" /\ \A t \in Tasks : IsLive(t) => owner[t] # c

(* What a task has become follows from what was done to it: it ends by its    *)
(* own program after exactly its yields and one step more, or it is cancelled *)
(* before that, after a request.                                              *)
OutcomeIsEarned ==
    \A t \in Spawned :
        /\ outcome[t] = "none" => nextStep[t] <= program[t].yields
        /\ outcome[t] = "cancelled" => requested[t] /\ nextStep[t] <= program[t].yields
        /\ outcome[t] \in {"succeeded", "failed"} =>
               outcome[t] = program[t].terminal /\ nextStep[t] = program[t].yields + 1

(* stable_terminal_join: once a task has an outcome nothing about the task    *)
(* changes any more, so every later join observes the same; and a scope does  *)
(* not reopen.                                                                *)
TerminalIsFinal ==
    [][/\ \A t \in Tasks : phase[t] = "terminal" =>
             /\ phase'[t] = "terminal" /\ outcome'[t] = outcome[t]
             /\ nextStep'[t] = nextStep[t] /\ requested'[t] = requested[t]
       /\ \A s \in Scopes : state[s] = "closed" => state'[s] = "closed"
       /\ \A t \in Tasks, o \in Outcomes : answer' = <<t, o>> => outcome'[t] = o]_vars

(* Exits converge: a script that keeps exiting scopes and delivering the      *)
(* cancellations asked for closes every scope, however its tasks are moved    *)
(* between scopes meanwhile, unless a bad event ends the script.              *)
ExitsConverge == \A s \in Scopes : IsOpen(s) ~> (state[s] = "closed" \/ rejected)
=============================================================================
