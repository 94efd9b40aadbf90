# Verification of semantic-systems

TLA+ modules of the parts of this repository that keep state, run concurrently
or decide something over small data, TLC configurations that model-check them on
small instances, and proofs that TLAPS checks for every value of the constants.
Source paths below are relative to the repository's root directory `src/`, so
`src/actor/runtime.ts` of the repository is written `src/src/actor/runtime.ts` in
`PROJECT.json`.

Contents: 1 the system, 2 modules and code, 3 runs, 4 fairness, 5 proofs,
6 findings, 7 what is not modelled, 8 what could come next.


## 1. The system

The repository is a TypeScript (Effect) workbench for semantic systems: a set of
small executable semantics, each with an interpreter, laws and evidence, and the
tooling that keeps references and project knowledge in order. There is no
server and no database; state lives in in-process fibers, in values threaded
through pure interpreters, and in the files of `.references/` and `references/`.

| Component | State it keeps | Operations | Hard behaviours |
|---|---|---|---|
| Actor runtime (`src/actor/runtime.ts`, `trace-retention-internal.ts`) | capacity semaphore, acceptance gate, unbounded queue, worker's private state, receipts (Deferreds), bounded trace, closing snapshot | `spawn`, `send`, `close`, the worker loop, failure stop, scope finalizer | fibers interleave between acceptance, offer and shutdown; callers are interrupted; a failing transition races sends and closes |
| Transaction handler (`src/stm/model.ts`) | versioned cells, four custody sets (live, rerunnable, suspended, settled), per-attempt journals | `begin`, `settle`, `discard`, `rerun`, `wakeAndRerun`, evaluation with `orElse`, `retry`, abort, after-commit actions | stale attempts, missed wake-ups, double settlement, nested alternatives |
| Resource lifecycle (`src/resource-lifecycle/model.ts`) | scope tree, cleanup registers, resource ownership, observations | open, acquire, transfer, release, exit | ownership kept twice, order of cleanup after transfers, failing finalizers |
| Structured concurrency oracle (`src/structured-concurrency/oracle.ts`) | scope tree, tasks, cancellation requests, outcomes | open, spawn, transfer, dispatch, request and deliver cancellation, join, exit | exits that look only one level down, cancellation around settlement |
| Effect adapter (`src/structured-concurrency/effect-adapter.ts`) | queue of one envelope, driver fiber, one gate and one fiber per task | the same script, event by event, between a caller and the driver | the driver may die at any step; ledger and gate change in two steps |
| Reference custody (`src/references/`) | catalog, lock file, object caches and backups, checkouts, curator lock (flock held by a child) | lock (remote, offline), materialize (remote, offline), status | any file operation fails, a process is killed between two of them, the holder dies, inputs read before the lock is held, origins and catalogs that move |
| Direct driver (`src/semantic-system/driver.ts`) | two work queues, fuel counters, seen action ids, trace | `runDirect`: react, emit, interpret, observe, suspend | eight stopping places, requeued work, repeated action ids |
| Semantic components in actors (`src/semantic-system/definition.ts`, `kernel.ts`, `inventory.ts`, `actor.ts`) | the component's state; for the inventory stock, reservations, pending and unknown requests, processed ids | define, react, answer, interpret a request | answers that are late, repeated, unknown or another request's |
| Language build (`src/language-build/`) | artifacts, names, receipts behind one `Ref` | insert, bind, snapshot, replay; reachability receipt, runtime closure, action receipt | replay replaces state after an asynchronous validation; documents outlive what they name |
| Kernel (`src/kernel-calculus`, `kernel-bytecode`, `kernel-execution`, `kernel-json`, `kernel-interpreter`) | machine state, one-shot resumptions, checker's tables | decode, check, run, suspend, resume, observe | resumptions used twice, bounds, two backends that must agree, a reader apart from its writer |
| Surface language (`src/surface-language`) | none | lex, parse, elaborate | shadowing and two contexts of names |
| Normalized core (`src/normalized-core`) | none | emit, parse, validate, identify artifacts | many documents, one content |
| Lifecycle projection (`src/resource-lifecycle-projection`) | ledger of affine binders | project a script to a program, run it, compare | binders renamed at transfers |
| Tracer (`src/tracer`), checker experiment (`research/experiments/independent-checker-policy`) | registries of authored documents, outcomes of evidence | normalize, run suites, bind outcomes, adjudicate, write and read a claim, check it independently | documents edited and outcomes lost, rebound or altered between two steps |
| Project model (`src/project-model`) | a graph of entities and relations | validate, schedule, export, query | cycles, bounded traversal, exports that somebody altered |
| Portfolio, explorer, command lines, control room | none | conversion, lookup, printing | none a model would reach |

How they interact. The two structured-concurrency parts run the same scripts:
the oracle says what a script means and the adapter carries it out with fibers,
so one is modelled as an implementation of the other. `actor.ts` puts a
component's reactions into an actor; the direct driver runs a component without
one; the inventory runs on both and shares its domain (`src/tracer/domain.ts`)
with the tracer. Locking, materialization and status meet in the curator lock,
the lock file and the caches. A source text becomes a kernel program (surface
language), a program is checked and run by two backends with scripted
observations, may be written to an artifact (normalized core) and may come from
a lifecycle script (projection). Otherwise the parts share no state.

What makes each correct, in a line (the properties of section 3 say it exactly):

- actor: accepted messages are processed once, in order; no permit is lost; the
  first failed transition ends acceptance before anybody can know of it; close
  is always answered and its snapshot is exact;
- STM: commits are serializable, published once, and no suspension sleeps
  through a state in which it could run;
- resource lifecycle: one owner per live resource, cleanup last in first out,
  children before parents;
- structured concurrency: nothing lives below a closed scope, an outcome is
  earned and final, exits can always be completed; the adapter adds: the caller
  is always answered, truthfully;
- reference custody: locked objects are recoverable whatever fails or is killed,
  from the cache or from the backup a publication made of it; a transaction does
  all or nothing; a status is never better than the checkout;
- direct driver: a result accounts for all the work and no effect happens twice;
- inventory: its events tell its state, each command is settled once;
- language build: names never dangle, a document stays true or is refused;
- kernel: an accepted program runs to an end, within its type, on both backends
  alike, and every document read back is the document written;
- tracer and checker: a selection is earned, a claim says one decision only;
- project model: plan and queries are those of the graph.


## 2. Modules and code

`PROJECT.json` maps each definition to its source lines. Names are those of the
source where it has one. A definition whose name is that of a mapped one with a
suffix (`Refuse_KeepsPermit`, `Stale_Unread`) is a faulty version of it, used
only to show that a property can fail; no specification refers to it.

| Module | Stands for | Notes |
|---|---|---|
| `ActorContract` | what an `ActorRef` promises its clients | abstract: accept, resolve in order, stop, close |
| `ActorRuntime` | `spawn` and all it returns | one action from one point where another fiber can look to the next; implements `ActorContract` |
| `StmEvaluate` | `evaluate` and its helpers | evaluation of descriptions to journals; the code's recursion goes through two constants |
| `Stm` | the handler's functions on the store | evaluation is the constant `Evaluate`; any number of attempts outstanding |
| `StmSound` | the assumption that journals tell the whole story; the interpreter beside its law for `orElse` | what `StmProofs` needs; see findings |
| `ResourceLifecycle` | `interpretLifecycle` | a behaviour is a script; the reject action is the interpreter's error path |
| `StructuredConcurrency` | the oracle's `applyEvent` | same form, scripts of any length |
| `StructuredAdapter` | the adapter's fibers | EXTENDS the oracle's module, whose variables are the ledger |
| `ReferenceCustody` | the publication transaction of remote locking | processes, disk, holder; one action per file operation or group that cannot be told apart |
| `ReferenceRepository` | what Git calls observe, what inspections, catalog and lock reader conclude | operators over an abstract repository |
| `ReferenceCheckouts` | lock, materialize and status, as commands of several processes | the steps between reading an input and using it; a publication goes cache by cache and can fail or be killed anywhere |
| `DirectDriver` | `runDirect` and `interpretEffectRequest` | component and interpreters are arbitrary |
| `InventoryDomain` | `src/tracer/domain.ts`: transitions, events, replay | pure |
| `InventoryActor` | defining a component, the guards of `kernel.ts`, the inventory's handler, its actor and registry | any message in any order |
| `KernelTerms` | syntax of the calculus | pure |
| `KernelChecker` | the algorithmic checker | recursive operators; a result carries the judgments |
| `KernelMachine` | the reference machine | one action per rule of `transition` |
| `KernelVm` | compiler and stack machine | one action per instruction |
| `ObservationReplay` | the driver that answers a suspended backend from a script | any backend |
| `KernelDocument` | decoders of programs and observations, the tables between them | |
| `SurfaceLanguage` | parser and elaboration | grammar as data; recursive operators |
| `KernelExecution` | source or document, check, both backends, one script | EXTENDS the kernel modules |
| `EffectProjection` | lifecycle script to program, run and comparison | the script is interpreted by `ResourceLifecycle`'s own actions (INSTANCE) |
| `NormalizedCore` | artifacts and their identities | |
| `LanguageBuild` | semantic store, reachability, runtime closure, action receipts | validation and application of a replay are two steps |
| `TracerResolution` | registries, evidence, resolver, claim writer and reader | edits and outcomes between any two steps |
| `PolicyChecker` | both sides of the checker experiment | EXTENDS `TracerResolution` |
| `ProjectModel` | cycles, critical path, readiness, export, queries | an altered export is a step of somebody else |
| `*Proofs` | theorems and proofs | see section 5 |
| `MC*` | constants of the runs | model values, programs, symmetry; a variable `scene` where one run holds parts that share nothing; `ToolsSpec`, the kernel's three kinds of command together, is in `MCKernelExecution` |

**ActorRuntime.** `permits` is the `capacity` semaphore, `GateFree`/`InGate` the
one-permit acceptance semaphore, `mailbox` the queue of envelopes and close
signals, `receipts` the Deferreds, `trace` the `Ref` with its two lifetime
counters, `worker` the worker fiber's place in its loop and `sender`, `closer`
those of the callers. `RecordAcceptance` and `Offer` are two actions because the
worker runs between them, although both happen under the gate. `Retain` is the
bounded retention of `trace-retention-internal.ts`. `structuredClone` of a
message is a choice between success and refusal; the transition is an opaque
effect that succeeds or fails.

**Stm, StmEvaluate.** The handler's functions take the store as a value and
return the next; the specification keeps one current store, which is how a host
uses them, and leaves every attempt and suspension available to be settled,
discarded, rerun or woken at any time. `Evaluate` is a constant so that the
handler can be proved about without the evaluator; `MCStm` instantiates it with
`StmEvaluate` on seven descriptions. `evaluate` calls itself on the branches of a
`nested`, `when` or `or_else` instruction, and `evalExpression` on operands:
`StmEvaluate` has a constant for each of the two calls (`InterpretInner`,
`EvalOperand`), so a proof needs no recursion. A run gives them the evaluator
itself as often as its descriptions nest (`Arm` in `Branch`), and stops with an
error at a description that nests deeper.
`StmSound` writes, part by part, a prefix and two branches (`ProgramsSpec`), and
evaluates them with and without `orElse`. Rejection of values that were not made
by the handler is left out: every value in the model was.

**ResourceLifecycle, StructuredConcurrency.** Each event of a script is an
action with its precondition (`CanOpen`, `CanTransfer`, ...) as a guard, and
`Reject` is enabled exactly by an event whose precondition fails: one bad event
fails the script. An exit cleans up along `CleanupOrder`, an order chosen by what
the code sorts by (innermost scope first, then the newest installation). Because any event may come next, a behaviour is a script, and
checking all behaviours is checking all scripts. Diagnostics and report data
that decide nothing (exit causes, labels, event indexes, happens-before edges)
are left out.

**StructuredAdapter.** `Take`, `Fork`, `Record`, `Complete`, `Refuse`, `Reply`
follow the driver's loop through one event. `DriverExits` may happen at every
step. `Poll` is the second look the caller takes at the acknowledgement when it
finds the driver gone. `CloseScope` and `FiberEnds` are what the Effect scope
does to the fibers left.

**ReferenceCustody.** A process goes through acquiring, fetching, displacing and
installing each cache, writing the lock file, cleaning up, or undoing. Each
rename, removal and the write of the lock file is an action of its own and can
fail; `Crash` kills a process between any two, `HolderDies` takes the lock away
from a living one, and a killed process leaves its holder (`Orphan`) until
`OrphanEnds`. A removal that fails part-way leaves `Damaged`. The sources still
to do are a set of which the first in the command's order is next; the order
lists every source and no id twice, as the catalog is refused with duplicate ids
(`catalog.ts:254`).

**ReferenceRepository, ReferenceCheckouts.** A commit is a place in a linear
history and stands for its tree and license bytes; a digest is the record it is
computed from; a repository has refs, commits it holds whole or only in part,
and at most one administrative defect. A command is a sequence of steps: it reads
the catalog, for materialization also the lock file, takes the curator lock,
fetches or selects a local repository, inspects, and publishes or records. The
world edits catalog, origins, siblings, checkouts and lock entries between any
two of them, and a process may stop there. Records name origins that exist
(`RecordsHaveOrigins`), and people edit an entry's commit or its verified flag
(`EditsAreKnown`): a lock file forged consistently is not told apart.

A remote lock is published in the steps of `publishStagedCaches`: `MoveAside` and
`PutInPlace` for each source in the command's order, `CommitLock` for the lock
file, then `DropBackup` for each backup. Each of them can fail (`Fault`); before
the lock file is written, `TakeBack` and `PutBack` then undo what was installed, in
the reverse order and as far as they succeed, a removal that fails leaving a
directory whole or in pieces. `Stop` kills a process at any of these steps too, so
the next command meets what was left: a cache that is absent or new beside an old
entry, a backup that stands in the way. Losing the curator interrupts a process
only outside a publication, and is the same `Stop`; that two publications then
overlap is left to `ReferenceCustody`. That module has the transaction over opaque
contents, with the orphaned holder and the outcome the command reports; this one
has what is in a cache (its origin, refs, commits held whole and in part), which
decides what can be replayed, and the commands that read caches in between.

**DirectDriver.** `inputs`, `pending`, `processed`, `effects`, `observations`,
`attempts`, `seenActions`, `tracedReturned` and `trace` are the driver's local
variables. Each of the places at which the loop stops is an action; `Absorb` is
a reaction that is accepted, `Observed` an effect carried out. `Bounds` are the
caller's four bounds; the component's state is the sequence of inputs it has
absorbed. What a component emits is any sequence of distinct ids, which
`react` (`kernel.ts`) enforces.

**InventoryActor.** `semantic` is `InventorySemanticState`; `journey` is what
`normalizeActorReactions` makes of the reactions. `Define` and `Start` admit a
specification and a first state exactly when the code does; `React`, `Answer`
and `InputFails` are one transition of the actor, which ends at its first
failure. `Interpret` may interpret any request that was emitted, and again, as
`interpretEffectRequest` remembers nothing. A message's identity is a sequence,
longer when it is built from another. The mailbox is left out: its order is the
order in which the environment chooses to send. Each category has its schema,
integers are safe on both sides, and inputs are typed as their schemas say
(`InputsAreTyped`, `FirstStocksAreInventories`). `Replay` returns the states its
events lead to: one, or none where the code throws.

**Kernel modules.** `KernelMachine` has an action for every rule of the reference
machine's `transition`, over control, frames (innermost last) and one-shot
resumptions; `KernelVm` compiles a checked term to blocks and has an action for
every instruction. `KernelChecker` infers type, effect row, usage of binders and
of resumptions, and keeps the type of every thunk, which the machine consults.
`KernelDocument` says what the two decoders admit and how an observation's tables
are written and read. In `KernelExecution` a program is chosen as a source or a
document (`phase` is "author"), prepared, run by the machine, then by the VM,
each driven by `ObservationReplay` with the same script. Booleans, occurrence
paths, diagnostics and byte encodings are left out.

**SurfaceLanguage.** The grammar is data: a form is the sequence of its tokens
and items. `Parse` follows the parser, with its limits, to the first fault;
elaboration keeps two contexts, of values and of resumptions. A source is the
sequence of its lexemes or a lexer's fault.

**EffectProjection, NormalizedCore.** A lifecycle script is interpreted by
`ResourceLifecycle`'s own actions (an INSTANCE), event by event beside the ledger
of affine binders; the program it becomes goes through `KernelExecution`, and the
report compares what was asked for with what the lifecycle did. An artifact is a
record, its identity the domain and payload it digests, equal exactly where those
are.

**LanguageBuild.** The store's `Ref` is `store`; a replay is validated in one step
and applied in another, with inserts, bindings and snapshots between. Receipts,
manifests and actions are documents that outlive the store they were made of and
are validated against the present one. Two documents have the same identity
exactly when they are equal. An operator that may refuse its input returns a set,
empty when it does. The traversal is the code's loop over a stack, unrolled to
`Turns`, more turns than it can take; that the stack is empty by then is proved.
Assumed of the inputs: snapshots handed to replay are arrays of objects, and
bytes that validation rejects are no artifact.

**TracerResolution, PolicyChecker.** Theories, realizations, suites and policies
are authored documents that edits replace; an identity is a document's canonical
payload. A suite's evidence is what running its cases on `InventoryDomain` gives.
Outcomes come in any order, may be lost, bound again or altered; the resolver
adjudicates, the claim is written, and a reader validates it. `PolicyChecker`
writes the production side and the checker of the experiment side by side, with
every comparison the checker makes.

**ProjectModel.** A canonical key is the tuple it encodes, ordered by the code
points of its parts. `Author` adds a relation, `BuildExport` and `Query` are the
functions of `relational-facts.ts`, and `Forge` is somebody who alters the bytes
(a fact dropped, two swapped, a relation pointed elsewhere) with or without
recomputing what can be recomputed. `FindCycle`, `TopologicalOrder`,
`LongestPath` and `Traverse` are the loops of `graph.ts` and
`relational-facts.ts`, turn by turn (`Repeated`): a turn of the search enters or
leaves a node, a turn of the traversal follows one edge or leaves one subject, so
the number of turns is known beforehand, and that it is enough is proved. The
sort of the exported facts puts each in the place that the stable sort gives it.
The property states what the algorithms find without them. Assumed of the inputs
(`InputsAssumption`): a project has finitely many entities, with integers for
efforts, a decoded request names its query and asks for natural numbers.


## 3. Runs

Each run asks one question; "states" is distinct states.

| Run | Instance | Question | States |
|---|---|---|---|
| `actor` | 3 senders, 1 closer, 2 permits, trace of 2, 2 messages, fair | do permits, order and snapshot hold in every interleaving; is a blocked sender served; does the runtime implement its contract | 103,872 |
| `stm` | 2 binary cells, 7 descriptions, 3 roots, 6 attempts; every description of a prefix of one part and two branches of two parts | what do concurrent attempts publish; does `orElse` run one branch | 88,248 |
| `stm_orelse_skew` | 2 transactions with `orElse`, one attempt each | finding 1: expected violation | |
| `resource_lifecycle` | 4 scopes, 3 may open, 2 resources, 3 attempts, 7 events | what does every script leave behind | 55,654 |
| `structured` | 3 scopes, 2 tasks, programs of up to 1 yield, scripts of any length, fair exits and deliveries | closed scopes, outcomes; can a script always close everything | 155,180 |
| `structured_adapter` | 2 scopes, 1 task, 1 yield, driver may end anywhere, fair fibers | does the adapter implement the oracle and always answer | 72,152 |
| `custody` | 2 processes, 2 sources; transactions: 2 versions, 3 transactions, 2 crashes, 1 lost holder; checkouts: 3 commits, 5 refs, 3 commands, 1 edit, 1 stop, 2 failing file operations, 5 of these events in all, an edit counted twice | what survives failure and death; is what commands report, publish and leave behind true although their inputs move, they fail and they are killed | 934,512 |
| `custody_holder_loss` | the transactions without crashes, two curators at once | finding 2: expected violation | |
| `direct_driver` | 1 command, 1 observation, 3 actions, up to 2 given inputs, reactions of up to 2 requests, fuel 1..4, stock 1..3; the inventory: 5 specifications, 4 first stocks, 5 inputs, 2 interpretations, safe integers up to 3 | what a run that stops leaves; what an inventory's events tell | 178,835 |
| `kernel` | programs from handled computations, clauses and handler places in every combination, the sources of each, faulty ones; 4 observation scripts, ample and scarce fuel; lifecycle scripts of up to 5 projected events; artifacts and what others make of them | do types hold of runs, do runs end, do the backends agree, do documents read back | 122,797 |
| `kernel_agree` | the same programs without artifacts and scripts | finding 3: expected violation | |
| `language_build` | a store of 3 values, 4 artifacts, 1 name; 2 edits, 2 outcomes, 1 fault and 2 claims of the tracer; the checker over the same; projects of 5 entities and up to 4 relations, 7 queries | do names, documents, selections, claims, plans and queries stay true | 170,347 |

What they show:

- **Actor.** `PermitConservation`: each permit is free, held by a sender,
  carried by an envelope or held by the worker, through all five ways a send
  ends. `FifoDelivery` ties queue, receipts, worker and private state together:
  the queue holds the newest accepted messages in order, everything older is
  settled, and the private state is the fold of exactly the committed ones.
  `SnapshotFaithful`: the closing snapshot is final, its counters exact although
  entries were evicted. `WaitingServed` and `ImplementsContract` add progress.
- **STM.** `SingleCustody` (one attempt of a transaction in one custody, so no
  double publication), `NoMissedWakeup`, `HistorySerializable` (some serial
  order of the committed transactions explains evaluations and store), and
  `OrElseRunsOneBranch`, a law of the evaluator over every small description.
- **Resource lifecycle.** `SingularOwnership` (the scope's register and the
  resource's owner agree), `ClosedScopesAreDone`, `ReverseInstallation`.
- **Structured concurrency.** `ClosedScopesAreDone` at any depth,
  `OutcomeIsEarned`, `ExitsConverge`. The adapter: `RefinesOracle` (each step of
  the fibers is an event of the oracle or changes nothing of it),
  `CallerIsToldTheTruth`, `EveryEventIsAnswered`.
- **Custody.** `LockedIsRecoverable` and `AllOrNothing`, as long as two curators
  were not at work at once.
- **Custody**, the commands. `StatusIsTrue`: a status is never better than the
  checkout and the entry it is about, and one without an assumption is of a commit
  its origin has shown under the recorded ref, although the ref may move between
  the fetch and the confirmation. `LockedIsReplayable`: what the lock file names
  can be replayed from the cache at its place; from the moment a publication moves
  that cache aside, from the backup, until it is put back or a lock of that source
  is written.
  It does not say that materialization succeeds in between: killed between moving
  aside and writing the lock, or failing to undo, a publication leaves an entry
  whose cache is absent or another one, and a person has to put the backup back,
  which the code asks for (`remote-lock.ts:204`, `357`). Excepted are sources whose
  cache somebody damaged, entries whose commit somebody edited, and offline locks
  of a cache that a failed removal had left in pieces: `lock --offline` does not
  prove the closure of what it locks, only materialization does.
  `CheckoutsAreKept`: no command touches a checkout that is there.
- **Direct driver.** `NothingLost`, `AttemptedOnce`. The inventory:
  `EventsTellTheInventory`, the published events replayed give the stock and the
  reservations, and every command is settled by exactly one event or waits in
  exactly one place.
- **Kernel.** `SourceTellsTheProgram` (a source written for a program compiles to
  it or, where names collide, is refused), `ObservationReadsBack`, `TypeSound`,
  `AcceptedRunsToAnEnd`, `TailBackendsAgree` (the two backends give one answer to
  every program whose handlers are in tail position), `ReplayFits`,
  `ProjectionAgrees` (a projected script's requests are the lifecycle's
  finalizations, in order), `AcceptedIsCanonical` (two accepted artifacts of one
  content are one document).
- **Language build.** `StoreIsClosed`, `ClosuresStayTrue`. **Tracer.**
  `SelectionIsEarned`, `ClaimsReadBack`. **Checker.** `CheckerAgrees`: it accepts
  exactly the claims that production would write of the same documents now.
  **Project model.** `ProjectIsTold`: a cycle is reported when there is one and is
  one; no chain of dependencies outweighs the critical path; a query lists all
  and only what is within its depth, each at its least distance with a path that
  proves it, and says when there is more.

Some properties are proved and have no run: `VersionsIdentifyValues` and
`CommitsAreCurrent` of the STM, `FailureStopsAcceptance` of the actor,
`QueueStaysInBounds` of the driver, `TerminalIsFinal` and `SingularOwnership` of
structured concurrency, and of its adapter `NoMismatch` and the oracle's laws.

Why the bounds are enough. They were chosen so that each hazard's actors meet.
Actor: with three senders and two permits one sender blocks while another is in
the gate and the worker is stopping; two trace entries are fewer than two
messages produce, so entries are evicted.
STM: three roots give write skew, lost update and a waiter whose two
dependencies change one after the other; six attempts give each root a rerun.
Two values a cell can return to make an ABA possible. Resource lifecycle: a
transfer and two exits with two resources fit in seven events, and three scopes
make a chain and a fork. Structured concurrency: three scopes make a
grandparent, two tasks race; scripts are unbounded. Adapter: the caller has one
event in flight, so one task with its gate meets every step of the driver; two
scopes allow a transfer. Custody: two sources make a half-done transaction, two
crashes one during the work and one during the recovery's own transaction, three
transactions let a later command meet what an earlier one left; among the
commits one has a submodule and one no license, the refs hold two branches between
which the origin's HEAD may turn, a tag and an annotated tag, and a command's two
steps can have an edit and another command between them; the five events are enough
for a lock, one that fails in the middle and fails again while it is undone or is
killed, and a third command that meets what was left. Direct driver: every bound reaches its limit before, at and
after the others; three ids suffice for a repeat across two reactions.
Inventory: two commands compete for one item, and five inputs fit a
reservation, an unknown answer, the late one, its repetition and a query; one of
the first stocks is at the largest integer, where a release overflows.
Kernel: handlers in tail and other places, clauses that resume never, once, later
or from a thunk, a handler in a clause and one around a handler; the limits of
parser, decoders and machines are scaled down so that programs lie on both sides
of each. Language build: three values make a chain and a cycle; a replay input
agrees, differs, repeats or dangles. Tracer: two edits change a document and
change it back. Project model: three work items make a cycle of three, a diamond
and a path of three steps, a decision and an evidence entity the other edges.

Limits on the reading. The passing custody run does not follow states where two
curators overlap (`OneAtATime`), which only the loss of a holder makes possible;
the violation run does. In its second scene a process that publishes keeps the curator
until it ends or is killed. Artifacts are written only for the programs of `Filed`,
and payloads of projected requests have five of their eight slots. Symmetry is
declared only in runs whose properties are safety, over values no definition
tells apart. Parts that share no variable are checked in one run by a variable
`scene` that a behaviour never changes.


## 4. Fairness

- Actor (`FairSpec`): weak fairness of each sender's own steps, of a closer's
  end and of the worker. The Effect scheduler runs every runnable fiber again,
  and a transition is assumed to terminate. Starting a send or a close, and
  interrupting one, are not fair: nobody has to do them.
- Adapter (`AdapterSpec`): weak fairness of the driver's steps, of the caller's
  hearing, of the scope's closing and of each fiber's end. None for offers or for
  the driver's death.
- Structured concurrency (`DrainingSpec`): weak fairness of each scope's exit and
  each task's delivery. This is the assumption of the question itself (a script
  that keeps asking), not of the code.
- Everything else claims safety only. A run of the direct driver or of the kernel
  ends in any case: each step uses fuel or stops.


## 5. Proofs

Each proof module extends the module it is about. None assumes anything but the
named assumptions of the constants.

| Module | Theorem | Property |
|---|---|---|
| `ActorRuntimeProofs` | `TypeCorrect`, `PermitsConserved`, `DeliveryIsFifo`, `SnapshotIsFaithful`, `FailureStopsAcceptanceHolds`, `ContractKept` | `TypeOK`, `PermitConservation`, `FifoDelivery`, `SnapshotFaithful`, `FailureStopsAcceptance`, `Contract!Spec` |
| `StmProofs` | `TypeCorrect`, `VersionsIdentifyValuesHolds`, `NoMissedWakeupHolds`, `CommitsAreCurrentHolds`, `SingleCustodyHolds`, `HistoryIsSerializable`, `OrElseRunsOneBranchHolds` | `TypeOK`, the same names, `HistorySerializable` |
| `ResourceLifecycleProofs` | `SingularOwnershipHolds`, `ClosedScopesAreDoneHolds`, `ReverseInstallationHolds` | the same names |
| `StructuredProofs` | `SingularOwnershipHolds`, `OutcomeIsEarnedHolds`, `ClosedScopesAreDoneHolds`, `TerminalIsFinalHolds` of the oracle; `CallerIsToldTheTruthHolds`, `NoMismatchHolds`, `LawsCarryOver`, `RefinesOracleHolds` of the adapter | the same names; the oracle's three invariants, of the adapter; `RefinesOracle` |
| `ReferenceProofs` | `CustodyTypeCorrect`, `LockedIsRecoverableHolds`, `AllOrNothingHolds`; `StatusIsTrueHolds`, `LockedIsReplayableHolds`, `CheckoutsAreKeptHolds` | `TypeOK` and the same names |
| `DirectDriverProofs` | `QueueStaysInBoundsHolds`, `NothingLostHolds`, `AttemptedOnceHolds`; `EventsTellTheInventoryHolds` | the same names |
| `ReadBackProofs` | `ReportsFit`; `SelectionIsEarnedHolds`, `ClaimsReadBackHolds`; `CheckerAgreesHolds` | `ReplayFits`; `SelectionIsEarned`, `ClaimsReadBack`; `CheckerAgrees` |
| `LanguageBuildProofs` | `StoreIsClosedHolds`, `ClosureIsNeeded`, `ClosuresStayTrueHolds` | `StoreIsClosed`; that the traversal finds what `Needed` defines; `ClosuresStayTrue` |
| the same, on `ProjectModel` | `CycleIsTold`, `OrderIsTopological`, `CriticalPathIsHeaviest`, `SurveyIs`; `ProjectIsToldHolds` | what the search, the order, the critical path and the traversal find on every finite graph; `ProjectIsTold` |

The arguments:

- **Actor** (any finite set of senders, any capacities). `TypeOK` is not
  inductive: nothing in it says that a permit given back was taken, so the bound
  on free permits needs the permit equation, and the equation needs to know
  where a close signal may stand in the queue. The layers: `TypeInv` (types,
  without that bound); `GateInv` (one sender at most is in the gate, and between
  recording and offering the actor is open and the sender's number is still the
  newest); `ShutdownInv` with `CloseSignalLast` (a close signal is only ever the
  last thing queued, the worker's later stages find the actor no longer open,
  and a failed receipt implies that it stopped); then `PermitConservation`, by
  counting, from which the bound follows. `FailureStopsAcceptance` is read off
  `ShutdownInv`: once a receipt failed or the snapshot is out, the actor is not
  open, and every action that hands out a number needs it to be. `FifoDelivery`
  is not inductive either: it is two statements about the same numbers,
  `QueueInv` (queue and receipts, read from left to right, split the accepted
  messages at the number the worker has taken) and `WorkerInv` (each place of the
  worker fixes how many of those it has applied), each of which needs the other.
  `SnapshotFaithful` adds `CountersInv` (the trace's counters are functions of
  those numbers and of the worker's place, whatever was evicted) and `EntriesInv`
  (no retained entry stands before one that caused it). `ContractKept` maps every
  step to a step of `ActorContract` or a stutter, from `DeliveryInv`: a receipt
  settles in the order of acceptance only because of it.
- **Stm** (any cells, values, descriptions; any evaluation that satisfies
  `StmSound`). The invariant is `TypeOK`, `VersionsIdentifyValues` and
  `EvaluatedAtStart` (each attempt's evaluation is that of the values its start
  store holds). A commit passes validation, so its read set has the values of
  its start, so by `ReadsDetermineEvaluation` its evaluation is today's. The
  same with `DependenciesDetermineRetry` for suspensions. The two assumptions
  say that a journal tells all an evaluation depended on; TLC evaluates them for
  the seven descriptions of `MCStm`, and an `orElse` that took its right branch
  may violate them (finding 1). `CustodyInv` says in which of the custody sets
  an attempt may be and that no other attempt of its root is in one, or in the
  log; without the disjointness of the sets a wake-up could leave an attempt
  where it was. `HistoryInv` carries the serial order itself: the committed
  attempts in order of publication and the store's values after each, and each
  commit extends it because its evaluation is today's.
  `OrElseRunsOneBranch` holds of every prefix and branches (`OrElseLaw`). The
  states the instructions go through are one function (`Performance`), so a
  sequence after another goes on from where that one ended (`PerformedAppends`).
  Of a state that runs only the context is read (`ContextIsAll`), so a branch
  inside `orElse` ends as it ends after the prefix; an ended evaluation stays
  ended; and no instruction ends one with success (`PerformedNeverSuccess`), so
  the binding of the result is all that `orElse` adds. It rests on
  `WrittenInParts` (the instructions are of the eight kinds) and `InnerIsTheSame`
  (the evaluator in place of `InterpretInner`, which the code's recursion is).
- **ResourceLifecycle.** `Custody` is `OwnershipTypes`, `SingularOwnership` and
  `ClosedScopesAreDone` together: an exit finalizes what its register names, so
  it empties the scope only because register and owner agree, and nothing new
  comes into a closed scope only because ancestors of an open scope are open.
  `ReverseInstallation` is about the log of observations: `InOrder` (registration
  numbers stand in the order of the installations that the log shows), `Nested`
  (scopes form a tree) and `Undone` (the log so far is in order). That an exit
  has an order to clean up in, of which `CleanupOrder` chooses one, is an
  induction over the number of resources.
- **StructuredProofs**, the oracle. `Types`; `Custody` adds that an open scope's
  parent is open, which turns the exit's look at direct children into a fact
  about every depth; `AnswersAreTrue` says a join's answer is the task's outcome.
  The adapter: `Channel` is the protocol of caller and driver (while the driver
  is busy the caller waits and the queue is empty; a failed script is answered or
  the driver is gone), `Gates` relates gate and ledger (a completed gate tells
  its task's outcome; only the task being settled may be terminal behind a
  pending gate, unless the driver ended in between). With `Custody` they are
  inductive, and give that the caller is told the truth, that the adapter never
  meets its own terminal mismatch, that the oracle's laws hold of its ledger, and
  that each of its steps is a step of the oracle or changes nothing of it.
- **ReferenceProofs**, the transactions (any sources, versions, processes).
  Nothing holds once two curators overlapped, so the invariant is under
  `~overlapped`, with `Alone` and `Promise` to keep it there: the holder of the
  lock is the process at work unless a holder was lost. `Saving`, `Forward`,
  `Reversible`, `Restoring` and `Finishing` say what a process at each step
  relies on: what the lock file names is in the cache or in the backup it will be
  restored from, and undoing the entries installed so far gives back the disk as
  it was when publication began, as long as no undoing step has failed.
  The commands, `CheckoutCustody`. `World` says what is on disk: remote entries were
  shown by their origins, and each entry is `Held`, replayable from where its bytes
  are (`Whereabouts`: the backup while the source is in `aside`). `Lawful` says of
  each process where it is (`Place`), what it knows and reports (`Knows`, `Told`),
  that what it would write can be replayed (`Prepares`), and how far a publication
  has come (`Swaps`). The curator lock keeps others from the caches meanwhile.
  The step that needs it all is the undoing, which removes an installed cache: it
  may, because the source is `Unpromised` (its old cache is aside or was damaged, or
  nothing was promised of it, as of a source that had no cache); and a backup may
  be dropped, because the lock has been written by then, which ended the source's
  time in `aside`.
- **DirectDriver** (any bounds, any component). `Types`; the queue bound, by the
  driver's own checks before it appends; `NothingLost`, where a put-back input is
  the one shifted; then `Distinct` (emitted ids are pairwise distinct and all in
  `seenActions`) and `InStep` (the n-th attempt is of the n-th request emitted,
  and a running driver has observed every attempt), which give `AttemptedOnce`.
  The inventory (any specification, stocks and inputs): `Published` types what is
  in the journey, `Custody` ties what waits to a command that was taken and to
  the name it was taken under, and then `Counted` (taken commands are those
  settled by an event and those waiting), `Apart`, `Sound` (the domain's
  invariants are kept) and `TellsAll` (replaying the events gives the state).
  `TellsAll` needs that replay is a function of the events alone: one more event
  is one more step, which is an induction over the length of the replay.
- **LanguageBuild** (any artifacts, names and inputs). `StoreSound` says of the
  store, and of a validated replay not yet applied, that they are finite, that
  variants stand under the value they validate to and that no name dangles; a
  snapshot lists it once and validation reads the same state from the list.
  `ClosureIsNeeded`: each turn of the traversal keeps `Exploring` (what was met
  and what is on the stack hold the root and the dependencies of all that was
  met, and nothing outside a closed set with the root) and lowers `Left`, so
  after `Turns` turns the stack is empty. `DeskSound` says that what a builder
  holds was derived from a graph that validation let through; a manifest then
  validates exactly where its values and variants are, because the selection it
  lists is again the one it was made from.
- **ProjectModel** (any projects, requests and bounds that satisfy
  `InputsAssumption`). Each algorithm has an invariant of its turns, and the
  lemma `Runs` carries it through the loop. The search (`Searching`): the stack is
  a simple walk of nodes not yet left; from the nodes left every walk falls along a
  rank (`Falls`), so none is on a cycle; and visits and stack count the turns, so
  after two turns a node everything was left or a walk closed. Where all walks
  fall, some node outside Kahn's order is ready, the one of highest rank, so the
  order is complete; relaxing along it keeps every score `Explained` (the weight of
  a path that ends there) and `Told` to all successors so far, from which no path
  outweighs the best score, by induction along that path. The same rank finds
  unfinished work that waits for none. The traversal (`Surveying`): the depths of
  the queue rise by one at most (`Lined`), so everything nearer than its head is
  visited, at its exact distance; what left the queue has nowhere new to lead to,
  or stands at the bound and `limited` says so (`Finished`, `Cut`). That a subject
  is entered and left once (`Counted`) bounds the turns. A valid export has keys
  that say which relation each is of (`FactsWire`), which makes a path of keys a
  path of the graph. The invariant of the specification, `ProjectInv`, is then
  small: projects stay as assumed, bytes stay a sequence of facts whoever altered
  them, and a kept answer is the one these bytes give.
- **ReadBackProofs**, the observation reports (any script, any backend). What was applied is a prefix
  of the script and no longer than what was requested; while a run goes on the
  two have the same length, and each way to end keeps the relation that the
  reader of the report demands of that end.
  The tracer (any theories, realizations, suites, policies and cases). The
  invariant `TracerSound`: documents are authored ones; an outcome in transport is
  `Genuine`, the identity of its result is a body that testing some documents
  gives, whoever holds it and whatever its body says by now; a claim is
  `EarnedClaim` and `Written`. Identity is what makes the first kind of fault
  harmless: a result whose body was altered is not its identity any more and does
  not parse, one whose outcome was rebound names another realization. So a
  candidate is eligible exactly if its own outcome is about it and passed
  (`EarnedIff`), and the selection, which counts the eligible ones, is
  the one earned. `Written` says that candidates have distinct ids, stand in the
  order of their ids, and are of the claim's theory: then sorting them again
  changes nothing, a claim finalizes to itself, and the counts written beside each
  body are recomputed from it when read. What the constants must satisfy is
  named: `DocumentsAssumption` (authored lists are lists), `IdsAssumption` (the
  order of ids is an order), `NoneAssumption` (the absent value is neither an
  exception nor a document) and `CasesAssumption`, which is what
  `tests/inventory-tracer.test.ts` says of the two realizations: the reference
  does what every case expects, the broken one what those expect that do not mind
  the stock. TLC evaluates the four for the authored documents of
  `MCLanguageBuild`.
  The independent checker (any documents). `CheckerSound` says that documents are
  authored ones, that a packet is `Traceable` (the identity of its result is a
  body the fixtures make of some documents) and that a claim is `ClaimIssued`.
  The two sides read documents alike (`TheoriesAgree`, `RealizationsAgree`), find
  the same first precondition broken and the same requirements unmet
  (`AdjudicatedIs`, `RecomputedIs`: one is a filter of the table, the other the
  least of a set), and count the same packets as passed. So nothing is amiss with
  a claim production writes (`AdjudicatedPasses`). For the converse,
  `AcceptedFollows`: every field of an accepted claim but the diagnostics is a
  function of the documents and the packets. That needs the shape production
  gives a candidate, where the reasons alone tell whether it has evidence, because
  the checker compares the evidence only where there is some; two claims that
  follow from the same packets have the same ids in the same places (`SamePlaces`),
  so they are equal. `FieldsAssumption` says which fields the documents have that
  each side hashes, `NoPacketAssumption` that the absent value is neither a reason
  nor the document of a packet.

Induction. The library's induction theorems cannot be instantiated here, so an
induction over a number is made by taking the least natural at which the claim
would fail (`WFMin` with `NatLessThanWellFounded`): the existence of the replay's
and the traversal's functions, the cleanup order and the least source are proved
so. What holds of the turns of a loop is carried from one to the next likewise
(`Climb`). What a `RECURSIVE` operator or `SelectSeq` computes stays out of reach.

Only model-checked:

- liveness: `WaitingServed`, `ExitsConverge`, `EveryEventIsAnswered`, and the
  fairness part of `ImplementsContract` (the prover has no rule for fairness);
- what depends on recursive operators: `SourceTellsTheProgram`,
  `ObservationReadsBack`, `TypeSound`, `AcceptedRunsToAnEnd`,
  `TailBackendsAgree`, `ProjectionAgrees`, `AcceptedIsCanonical` (the kernel's
  syntax).


## 6. Findings

1. `orElse` drops what its retrying left branch observed. `src/stm/model.ts:1078`
   continues with the right branch's journal only, so the cells that made the
   left branch retry are not validated. Two transactions
   `orElse(x = 0 retries, y := 1)` and `orElse(y = 0 retries, x := 1)` begun on
   one store both commit; no serial order does that. design-specs/0014 asks that
   every observed version be validated (line 163) and that each committed
   history be equivalent to a serial one (228-230); its own law L5 (194)
   describes the dropping. Run `stm_orelse_skew`.
2. A publication goes on after its lock holder died. It is uninterruptible
   (`src/references/remote-lock.ts:347`), so a second curator may work beside it,
   and the first one's rollback then removes a cache the second has published
   and locked. design-specs/0004 (127, 177) has the lock prevent concurrent
   mutation and failed operations preserve prior artifacts. Run
   `custody_holder_loss`.
3. The VM loses what follows a handler in its block. `src/kernel-bytecode/vm.ts:553`
   captures a resumption from the continuation stack below the handler, but
   `compiler.ts:235` compiles `handle` in line, so a `let` around it goes on in
   the same block, which is not on that stack. design-specs/0032:41 has the two
   backends return the same observation. Run `kernel_agree`; `TailBackendsAgree`
   in the run `kernel` delimits it.

Noticed while modelling, without a run of their own:

- Relation `blocks`: scheduling and validation (`schedule.ts:57`, `validate.ts:155`)
  and the authored documents read "a blocks b" as "a waits for b", while impact
  queries (`relational-facts.ts:982`, design-specs/0034:143) flow from source to
  target, so they list what a work item waits for, not what waits for it.
- The decoder's label table admits 256 UTF-8 bytes, `ast.ts` 256 UTF-16 units
  (comment at `bounds.ts:29`).
- An observation refused for its correlation or causation is remembered as
  processed (`inventory.ts:376`), so the right one under the same id is dropped
  and the command waits for ever.
- A tag that is annotated shows only its own object to `git ls-remote` with an
  exact ref, so the confirmation of a resolved ref never succeeds for it although
  `undereference` (`git.ts:1132`) expects peeled lines. A cache of a tag has HEAD
  on `refs/heads/custody`, which an offline lock of track "HEAD" then records.
- design-specs/0004 has materialize alone mutate `.references/`; remote locking
  writes caches there as well.
- design-specs/0018 (104-106, 363-365, 478) calls a second use of a resumption
  impossible in accepted programs; a clause that resumes an outer operation can
  meet it (the exception in `AcceptedRunsToAnEnd`).
- The projection's code `limit.requests` cannot be reached, and two of its
  report's comparisons are stated true without comparing.
- Tracer: an outcome bound to a realization that is later edited to another
  theory still resolves, but its claim cannot be built. The checker of the
  experiment compares neither diagnostics nor stored counterexamples, and its
  production side ignores stored aggregates.
- Unreachable: the already-waiting branch of the inventory's command, behind
  `processedCommands`; the limit on facts of an export, behind the limits on
  entities and relations.


## 7. Not modelled

- A transition that sends to, closes or awaits its own actor (`runtime.ts:398`):
  the transition is the caller's code.
- The forged-value checks of the STM handler and the snapshotting of payloads
  (`custody.ts`): they concern values a well-typed caller cannot make, one at a
  time.
- Reports, diagnostics, encodings, schemas and command lines: nothing that is
  decided depends on them. This includes bytes and field order of JSON and TOML,
  the constant table and capacities of the compiler, and the derived description
  of a component (`semantic-system/graph.ts`).
- The file system's durability below a rename, the environment of Git processes,
  and the supervision of the holder process's pipes and timer
  (`curator-holder.ts:14`): represented by outcomes.
- A second `runDirect` that continues a first one: `seenActions` is local to a run
  (`driver.ts:678`), and what a caller makes of the remaining work is the
  caller's. That an observation always finds room in the queue (`driver.ts:865`)
  is proved (`QueueStaysInBounds`).
- A resume with invalid bounds uses its token up before the bounds are looked at
  (`machine.ts:1173`); bounds are valid in the model.
- The closed inventory actor (`actor/inventory.ts`), whose transitions are those
  of `InventoryDomain`, and the scripted demonstrations.
- Portfolio model, explorer and algebra frontier: published data decoded against
  schemas, and lookups in it. The control room: a user interface over exported
  JSON. Scripts and model data.

`PROJECT.json` lists every component with its status and every hazard with the
properties that cover it.


## 8. What could come next

Theorems: type soundness of one step of the kernel machine, once its terms are
described without recursion.

Models: the derived component graph, the compiler's capacities, and the actor
runtime with a component's reactions for transitions.
