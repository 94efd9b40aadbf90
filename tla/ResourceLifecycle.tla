-------------------------- MODULE ResourceLifecycle --------------------------
(* The lifecycle interpreter of src/src/resource-lifecycle/model.ts: a script *)
(* of events opens and exits a tree of scopes, acquires resources into them,  *)
(* transfers and releases them. One violated precondition rejects the whole   *)
(* script. Exit causes and diagnostic texts are left out: nothing the         *)
(* interpreter decides depends on them.                                       *)
(*                                                                            *)
(* Operators named X_Fault are faulty versions of X, used only as mutations.  *)
EXTENDS Naturals, Sequences, FiniteSets

CONSTANTS
    Scopes, Root,          \* scope identities, the script's root scope
    Resources, Attempts,   \* resource and acquisition-attempt identities
    NoScope,               \* the owner of a resource that has none
    MaxScopes,             \* maximumScopes
    MaxResources,          \* maximumResources
    MaxEvents              \* maximumEvents

ASSUME RootIsAScope == Root \in Scopes /\ NoScope \notin Scopes

VARIABLES
    state,         \* scope: "unopened", "open" or "closed"
    above,         \* scope: its proper ancestors, what isDescendant's walk up the parents visits
    owned,         \* <<scope, resource, registration>>: the scopes' cleanup registers
    registration,  \* the next registration number
    owner,         \* resource: ownerScope
    cleanup,       \* resource: "absent", "pending" or "finalized"
    failing,       \* resources whose scripted finalizer outcome is a failure
    attempts,      \* acquisition attempts seen
    observations,  \* ownership changes and finalizations, in order
    events,        \* events interpreted
    rejected       \* the script has failed

vars == <<state, above, owned, registration, owner, cleanup, failing, attempts,
          observations, events, rejected>>

Opened   == {s \in Scopes : state[s] # "unopened"}
IsOpen(s) == state[s] = "open"
Acquired == {r \in Resources : cleanup[r] # "absent"}
OwnedBy(s) == {o[2] : o \in {q \in owned : q[1] = s}}
RegisteredAt(s, r) == (CHOOSE o \in owned : o[1] = s /\ o[2] = r)[3]

Init ==
    /\ state = [s \in Scopes |-> IF s = Root THEN "open" ELSE "unopened"]
    /\ above = [s \in Scopes |-> {}]
    /\ owned = {} /\ registration = 0
    /\ owner = [r \in Resources |-> NoScope]
    /\ cleanup = [r \in Resources |-> "absent"]
    /\ failing = {} /\ attempts = {}
    /\ observations = <<>> /\ events = 0 /\ rejected = FALSE

Observe(tag, r, s) == observations' = Append(observations, [tag |-> tag, resource |-> r, scope |-> s])

(* One event of the script: interpretation stops at the first failure. *)
Interpret == ~rejected /\ events < MaxEvents /\ events' = events + 1

(* Cleanup ownership is consumed before the scripted outcome is seen; a      *)
(* failing finalizer is as terminal as a succeeding one.                      *)
Finalize(rs, s) ==
    /\ owned' = {o \in owned : ~(o[1] = s /\ o[2] \in rs)}
    /\ owner' = [r \in Resources |-> IF r \in rs THEN NoScope ELSE owner[r]]
    /\ cleanup' = [r \in Resources |-> IF r \in rs THEN "finalized" ELSE cleanup[r]]

(* The preconditions of the five events; an event that misses one rejects.   *)
CanOpen_LimitLate(s, p) ==                    \* one scope past the bound
    /\ state[s] = "unopened"
    /\ IsOpen(p)
    /\ Cardinality(Opened) <= MaxScopes
CanOpen(s, p) ==
    /\ state[s] = "unopened"
    /\ IsOpen(p)
    /\ Cardinality(Opened) < MaxScopes
CanAttempt(a, s) == a \notin attempts /\ IsOpen(s)
CanAcquire(a, s, r) ==
    /\ CanAttempt(a, s)
    /\ cleanup[r] = "absent"
    /\ Cardinality(Acquired) < MaxResources
CanTransfer(r, from, to) ==
    /\ cleanup[r] = "pending"
    /\ owner[r] = from
    /\ from # to
    /\ IsOpen(from) /\ IsOpen(to)
CanRelease_AnyScope(r, s) == cleanup[r] = "pending" /\ IsOpen(s)    \* any scope may release
CanRelease(r, s) ==
    /\ cleanup[r] = "pending"
    /\ owner[r] = s
    /\ IsOpen(s)

OpenScope(s, p) ==
    /\ Interpret /\ CanOpen(s, p)
    /\ state' = [state EXCEPT ![s] = "open"]
    /\ above' = [above EXCEPT ![s] = above[p] \cup {p}]
    /\ UNCHANGED <<owned, registration, owner, cleanup, failing, attempts, observations, rejected>>

Acquire(a, s, r, outcome) ==
    /\ Interpret /\ CanAcquire(a, s, r)
    /\ attempts' = attempts \cup {a}
    /\ owned' = owned \cup {<<s, r, registration>>}
    /\ registration' = registration + 1
    /\ owner' = [owner EXCEPT ![r] = s]
    /\ cleanup' = [cleanup EXCEPT ![r] = "pending"]
    /\ failing' = IF outcome = "failed" THEN failing \cup {r} ELSE failing
    /\ Observe("acquired", r, s)
    /\ UNCHANGED <<state, above, rejected>>

FailToAcquire(a, s) ==
    /\ Interpret /\ CanAttempt(a, s)
    /\ attempts' = attempts \cup {a}
    /\ UNCHANGED <<state, above, owned, registration, owner, cleanup, failing, observations, rejected>>

Transfer_KeepsPlace(r, from, to) ==           \* the old registration number travels with it
    /\ Interpret /\ CanTransfer(r, from, to)
    /\ owned' = {o \in owned : ~(o[1] = from /\ o[2] = r)} \cup {<<to, r, RegisteredAt(from, r)>>}
    /\ owner' = [owner EXCEPT ![r] = to]
    /\ Observe("transferred", r, to)
    /\ UNCHANGED <<state, above, registration, cleanup, failing, attempts, rejected>>
Transfer(r, from, to) ==
    /\ Interpret /\ CanTransfer(r, from, to)
    /\ owned' = {o \in owned : ~(o[1] = from /\ o[2] = r)} \cup {<<to, r, registration>>}
    /\ registration' = registration + 1
    /\ owner' = [owner EXCEPT ![r] = to]
    /\ Observe("transferred", r, to)
    /\ UNCHANGED <<state, above, cleanup, failing, attempts, rejected>>

Release(r, s) ==
    /\ Interpret /\ CanRelease(r, s)
    /\ Finalize({r}, s)
    /\ Observe("released", r, s)
    /\ UNCHANGED <<state, above, registration, failing, attempts, rejected>>

OpenDescendants_None(s) == {}                 \* a scope may exit over its children
OpenDescendants(s) == {t \in Scopes : IsOpen(t) /\ s \in above[t]}

ExitBlocked(s) ==
    /\ Interpret /\ IsOpen(s)
    /\ OpenDescendants(s) # {}
    /\ UNCHANGED <<state, above, owned, registration, owner, cleanup, failing, attempts,
                   observations, rejected>>

(* Everything the scope owns is finalized whatever the outcomes, the latest   *)
(* registration first.                                                        *)
ToFinalize(s) == OwnedBy(s)
CleanupOrder(s) ==
    CHOOSE order \in [1 .. Cardinality(ToFinalize(s)) -> ToFinalize(s)] :
        \A i, j \in DOMAIN order : i < j => RegisteredAt(s, order[i]) > RegisteredAt(s, order[j])

ExitScope(s) ==
    /\ Interpret /\ IsOpen(s)
    /\ OpenDescendants(s) = {}
    /\ Finalize(ToFinalize(s), s)
    /\ observations' = observations \o
           [i \in DOMAIN CleanupOrder(s) |->
               [tag |-> "exited", resource |-> CleanupOrder(s)[i], scope |-> s]]
    /\ state' = [state EXCEPT ![s] = "closed"]
    /\ UNCHANGED <<above, registration, failing, attempts, rejected>>

Reject ==
    /\ Interpret
    /\ \/ \E s, p \in Scopes : ~CanOpen(s, p)
       \/ \E a \in Attempts, s \in Scopes : ~CanAttempt(a, s)
       \/ \E a \in Attempts, s \in Scopes, r \in Resources : ~CanAcquire(a, s, r)
       \/ \E r \in Resources, s, t \in Scopes : ~CanTransfer(r, s, t)
       \/ \E r \in Resources, s \in Scopes : ~CanRelease(r, s)
       \/ \E s \in Scopes : ~IsOpen(s)
    /\ rejected' = TRUE
    /\ UNCHANGED <<state, above, owned, registration, owner, cleanup, failing, attempts, observations>>

Next ==
    \/ \E s, p \in Scopes : OpenScope(s, p)
    \/ \E a \in Attempts, s \in Scopes :
         \/ FailToAcquire(a, s)
         \/ \E r \in Resources, o \in {"succeeded", "failed"} : Acquire(a, s, r, o)
    \/ \E r \in Resources, s \in Scopes :
         \/ Release(r, s)
         \/ \E t \in Scopes : Transfer(r, s, t)
    \/ \E s \in Scopes : ExitBlocked(s) \/ ExitScope(s)
    \/ Reject

Spec == Init /\ [][Next]_vars
-----------------------------------------------------------------------------
OwnershipTypes ==
    /\ state \in [Scopes -> {"unopened", "open", "closed"}]
    /\ above \in [Scopes -> SUBSET Scopes]
    /\ owned \subseteq Scopes \X Resources \X Nat
    /\ registration \in Nat /\ events \in Nat
    /\ owner \in [Resources -> Scopes \cup {NoScope}]
    /\ cleanup \in [Resources -> {"absent", "pending", "finalized"}]
    /\ failing \subseteq Resources /\ attempts \subseteq Attempts
    /\ rejected \in BOOLEAN

(* Types of the interpreter's whole state, and its declared bounds. *)
TypeOK ==
    /\ OwnershipTypes
    /\ Cardinality(Opened) <= MaxScopes /\ Cardinality(Acquired) <= MaxResources
    /\ observations \in Seq([tag: {"acquired", "transferred", "released", "exited"},
                             resource: Resources, scope: Scopes])

(* The report's singular_ownership law: the scopes' registers and the         *)
(* resources' owners, which are kept apart, agree. A pending resource is      *)
(* registered once, with the scope that owns it; any other with none.         *)
Registrations(r) == {o \in owned : o[2] = r}
SingularOwnership ==
    \A r \in Resources :
        IF cleanup[r] = "pending"
        THEN owner[r] \in Scopes /\ \E n \in 0 .. registration : Registrations(r) = {<<owner[r], r, n>>}
        ELSE owner[r] = NoScope /\ Registrations(r) = {}

(* closed_scope_resources_finalized, and what makes it last: a scope that has *)
(* exited owns nothing, nothing below it is open, and nothing can be opened,  *)
(* acquired or transferred into it again.                                     *)
ClosedScopesAreDone ==
    \A s \in Scopes : ~IsOpen(s) =>
        /\ \A r \in Resources : owner[r] # s
        /\ \A o \in owned : o[1] # s
        /\ \A t \in Scopes : s \in above[t] => ~IsOpen(t)

Finalizations == {i \in DOMAIN observations : observations[i].tag \in {"released", "exited"}}

(* Cleanup undoes installation: of two resources a scope's exit finalizes,    *)
(* the one that came into the scope last (by acquisition or by transfer) goes *)
(* first; and a scope's resources go only after those of the scopes below it. *)
LastInstalled(r, i) ==
    CHOOSE j \in 1 .. i :
        /\ observations[j].resource = r /\ j \notin Finalizations
        /\ \A k \in j + 1 .. i : observations[k].resource = r => k \in Finalizations
ReverseInstallation ==
    \A i, j \in Finalizations :
        i < j /\ observations[i].tag = "exited" /\ observations[j].tag = "exited" =>
            /\ observations[i].scope = observations[j].scope
                  => LastInstalled(observations[i].resource, i) > LastInstalled(observations[j].resource, j)
            /\ observations[i].scope \notin above[observations[j].scope]
=============================================================================
