--------------------------------- MODULE Stm ---------------------------------
(* The transaction handler of src/src/stm/model.ts: optimistic attempts over  *)
(* a store of versioned cells. Handler functions take the store as a value;   *)
(* this specification gives them one current store, the one a host threads    *)
(* from call to call, and any number of outstanding attempts and suspensions  *)
(* settled, discarded, rerun and woken in any order.                          *)
(*                                                                            *)
(* What one evaluation of a description does is the constant Evaluate.        *)
(*                                                                            *)
(* Operators named X_Fault are faulty versions of X, used only as mutations.  *)
EXTENDS Integers, Sequences, FiniteSets

CONSTANTS
    Cells, Values,         \* TVar ids and the values they hold
    Descriptions,          \* custodied transaction descriptions
    Actions, Results,      \* inert action values, transaction results
    Evaluate(_, _),        \* a description's evaluation on the cells' values
    Initial,               \* the cells' initial values
    MaxAttempts,           \* bound: attempts begun in a behaviour
    MaxRoots               \* bound: attempts that are not reruns

VARIABLES
    store,                 \* cells: value and version
    attempts,              \* every attempt begun, in order
    live, rerunnable,      \* liveAttemptCustody, rerunnableAttemptCustody
    sleeping,              \* liveSuspensionCustody, by the attempt suspended
    log                    \* what settlements published, in order

vars == <<store, attempts, live, rerunnable, sleeping, log>>

Kinds == {"success", "retry", "typed_abort"}
Journals == UNION {[cs -> Values] : cs \in SUBSET Cells}
Evaluations ==
    [kind: Kinds, value: Results, reads: SUBSET Cells, writes: Journals,
     dependencies: SUBSET Cells, actions: Seq(Actions)]

(* Every cell an evaluation writes or waits on is among those it observed.    *)
ASSUME EvaluateSound ==
    \A d \in Descriptions, v \in [Cells -> Values] :
        LET e == Evaluate(d, v)
        IN /\ e \in Evaluations
           /\ DOMAIN e.writes \subseteq e.reads
           /\ e.dependencies \subseteq e.reads
ASSUME InitialIsAStore == Initial \in [Cells -> Values]
ASSUME BoundsAreNat == MaxAttempts \in Nat /\ MaxRoots \in Nat

CellStates == [value: Values, version: Nat]
Attempts ==
    [description: Descriptions, root: 1 .. MaxRoots, ordinal: Nat \ {0},
     start: [Cells -> CellStates], evaluation: Evaluations]
Ids == 1 .. Len(attempts)

ValuesOf(s) == [c \in Cells |-> s[c].value]
CellValues == ValuesOf(store)
Roots == {attempts[a].root : a \in Ids}

Init ==
    /\ store = [c \in Cells |-> [value |-> Initial[c], version |-> 0]]
    /\ attempts = <<>>
    /\ live = {} /\ rerunnable = {} /\ sleeping = {}
    /\ log = <<>>

(* beginAttempt: evaluate the whole description against one store. The       *)
(* attempt's read set is that store (start) at the cells the evaluation read. *)
Begin(d, root, ordinal) ==
    LET e == Evaluate(d, CellValues)
    IN /\ Len(attempts) < MaxAttempts
       /\ attempts' = Append(attempts,
              [description |-> d, root |-> root, ordinal |-> ordinal,
               start |-> store, evaluation |-> e])
       /\ live' = live \cup {Len(attempts) + 1}

(* The versions of attempt a's observations that the store has left behind. *)
Changed(a, cells) ==
    {c \in cells : store[c].version # attempts[a].start[c].version}
Stale_Unread(a) ==                                \* validates written cells only
    Changed(a, DOMAIN attempts[a].evaluation.writes)
Stale(a) == Changed(a, attempts[a].evaluation.reads)

(* A suspension keeps the observations of its dependencies.                  *)
ChangedDependencies_First(a) ==                   \* only one dependency is watched
    LET cells == attempts[a].evaluation.dependencies
    IN IF cells = {} THEN {} ELSE Changed(a, {CHOOSE c \in cells : TRUE})
ChangedDependencies(a) == Changed(a, attempts[a].evaluation.dependencies)

(* Publication of a journal: a write that leaves the value as it is keeps    *)
(* the version too.                                                           *)
Publish_SameVersion(writes) ==                    \* a changed cell keeps its version
    [c \in Cells |->
        IF c \in DOMAIN writes THEN [value |-> writes[c], version |-> store[c].version] ELSE store[c]]
Publish(writes) ==
    [c \in Cells |->
        IF c \in DOMAIN writes /\ writes[c] # store[c].value
        THEN [value |-> writes[c], version |-> store[c].version + 1]
        ELSE store[c]]

(* Settling takes the attempt out of custody whatever it decides.            *)
Release_Kept(a) == UNCHANGED live                 \* the attempt can be settled again
Release(a) == live' = live \ {a}

BeginAttempt(d) ==
    /\ Cardinality(Roots) < MaxRoots
    /\ Begin(d, Cardinality(Roots) + 1, 1)
    /\ UNCHANGED <<store, rerunnable, sleeping, log>>

SettleRetry(a) ==
    /\ a \in live
    /\ attempts[a].evaluation.kind = "retry"
    /\ Release(a)
    /\ sleeping' = sleeping \cup {a}
    /\ UNCHANGED <<store, attempts, rerunnable, log>>

SettleAbort(a) ==
    /\ a \in live
    /\ attempts[a].evaluation.kind = "typed_abort"
    /\ Release(a)
    /\ log' = Append(log, [attempt |-> a, kind |-> "aborted"])
    /\ UNCHANGED <<store, attempts, rerunnable, sleeping>>

SettleConflict(a) ==
    /\ a \in live
    /\ attempts[a].evaluation.kind = "success"
    /\ Stale(a) # {}
    /\ Release(a)
    /\ rerunnable' = rerunnable \cup {a}
    /\ UNCHANGED <<store, attempts, sleeping, log>>

SettleCommit(a) ==
    /\ a \in live
    /\ attempts[a].evaluation.kind = "success"
    /\ Stale(a) = {}
    /\ Release(a)
    /\ store' = Publish(attempts[a].evaluation.writes)
    /\ log' = Append(log, [attempt |-> a, kind |-> "committed"])
    /\ UNCHANGED <<attempts, rerunnable, sleeping>>

DiscardAttempt(a) ==
    /\ a \in live
    /\ Release(a)
    /\ UNCHANGED <<store, attempts, rerunnable, sleeping, log>>

RerunAttempt_CountsDown(a) ==                     \* ordinal 0 is not an attempt's
    /\ a \in rerunnable
    /\ Begin(attempts[a].description, attempts[a].root, attempts[a].ordinal - 1)
    /\ rerunnable' = rerunnable \ {a}
    /\ UNCHANGED <<store, sleeping, log>>
RerunAttempt(a) ==
    /\ a \in rerunnable
    /\ Begin(attempts[a].description, attempts[a].root, attempts[a].ordinal + 1)
    /\ rerunnable' = rerunnable \ {a}
    /\ UNCHANGED <<store, sleeping, log>>

WakeAndRerun(a) ==
    /\ a \in sleeping
    /\ ChangedDependencies(a) # {}
    /\ Begin(attempts[a].description, attempts[a].root, attempts[a].ordinal + 1)
    /\ sleeping' = sleeping \ {a}
    /\ UNCHANGED <<store, rerunnable, log>>

Next ==
    \/ \E d \in Descriptions : BeginAttempt(d)
    \/ \E a \in Ids :
         \/ SettleRetry(a) \/ SettleAbort(a) \/ SettleConflict(a) \/ SettleCommit(a)
         \/ DiscardAttempt(a) \/ RerunAttempt(a) \/ WakeAndRerun(a)

Spec == Init /\ [][Next]_vars
-----------------------------------------------------------------------------
(* Types of the store, the attempts and the custody sets. *)
TypeOK ==
    /\ store \in [Cells -> CellStates]
    /\ attempts \in Seq(Attempts)
    /\ live \subseteq Ids /\ rerunnable \subseteq Ids /\ sleeping \subseteq Ids
    /\ log \in Seq([attempt: Ids, kind: {"committed", "aborted"}])

(* Each attempt holds its description's evaluation on the store it began      *)
(* from, and only retries sleep (the strengthening StmProofs needs).          *)
EvaluatedAtStart ==
    /\ \A a \in Ids : attempts[a].evaluation
                         = Evaluate(attempts[a].description, ValuesOf(attempts[a].start))
    /\ \A a \in sleeping : attempts[a].evaluation.kind = "retry"

(* Versions are fresh: a cell observed at the version it has now has the     *)
(* value it had then (a write of the same value keeps the version, and a     *)
(* value that returns does not return with its version). Publication         *)
(* compares versions only.                                                    *)
VersionsIdentifyValues ==
    \A a \in Ids, c \in Cells :
        LET seen == attempts[a].start[c]
        IN /\ seen.version <= store[c].version
           /\ seen.version = store[c].version => seen.value = store[c].value

(* A transaction is in one custody at a time: at most one of its attempts is *)
(* live, waiting to be rerun, asleep, or permanently settled. So no chain of *)
(* conflicts, wake-ups and repeated settle calls publishes its writes, or    *)
(* returns its actions, twice.                                                *)
Held(r) ==
    {<<"live", a>> : a \in {b \in live : attempts[b].root = r}}
    \cup {<<"rerunnable", a>> : a \in {b \in rerunnable : attempts[b].root = r}}
    \cup {<<"sleeping", a>> : a \in {b \in sleeping : attempts[b].root = r}}
    \cup {<<"logged", i>> : i \in {j \in DOMAIN log : attempts[log[j].attempt].root = r}}
SingleCustody == \A r \in Roots : Cardinality(Held(r)) <= 1

(* A suspension never sleeps through a state in which it could run: as long  *)
(* as none of its dependencies has changed, and wakeAndRerun would leave it  *)
(* asleep, evaluating it now would still retry.                               *)
NoMissedWakeup ==
    \A a \in sleeping :
        ChangedDependencies(a) = {} => Evaluate(attempts[a].description, CellValues).kind = "retry"

(* Each commit is the transaction run alone at the moment it commits: what   *)
(* the attempt evaluated earlier, from a store other attempts have since     *)
(* published to, is what it would evaluate on the store it is published to.  *)
CommitsAreCurrent ==
    [][\A a \in live : SettleCommit(a)
           => Evaluate(attempts[a].description, CellValues) = attempts[a].evaluation]_vars

(* The committed transactions, replayed one at a time from the initial store *)
(* in some order, each have the evaluation they committed with and end in    *)
(* the store's values.                                                        *)
Committed == {log[i].attempt : i \in {j \in DOMAIN log : log[j].kind = "committed"}}
Orderings == {f \in [1 .. Cardinality(Committed) -> Committed] :
                  \A i, j \in DOMAIN f : f[i] = f[j] => i = j}
After(writes, v) == [c \in Cells |-> IF c \in DOMAIN writes THEN writes[c] ELSE v[c]]
Replayed(order) ==
    LET v[i \in 0 .. Len(order)] ==
            IF i = 0 THEN Initial
            ELSE After(Evaluate(attempts[order[i]].description, v[i - 1]).writes, v[i - 1])
    IN v
HistorySerializable ==
    \E order \in Orderings :
        LET v == Replayed(order)
        IN /\ \A i \in DOMAIN order :
                 Evaluate(attempts[order[i]].description, v[i - 1]) = attempts[order[i]].evaluation
           /\ v[Len(order)] = CellValues
=============================================================================
