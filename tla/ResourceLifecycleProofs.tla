----------------------- MODULE ResourceLifecycleProofs -----------------------
(* For every set of scopes and resources: the two records of ownership agree, *)
(* a scope that has exited is done, and cleanup undoes installation.          *)
(*                                                                            *)
(* The first two are one induction over three invariants: the types,          *)
(* SingularOwnership (an exit finds all it must finalize in the scope's own   *)
(* register) and ClosedScopesAreDone (an open scope's ancestors are open, so  *)
(* a new child has open ancestors too).                                       *)
(*                                                                            *)
(* The third adds what the log says: InOrder (the registers' numbers are in   *)
(* the order of the installations the log shows), Nested (scopes form a tree) *)
(* and Undone (the log so far is in order). That CleanupOrder has an order to *)
(* choose is an induction on the size of the scope's register, made through   *)
(* the least element of a set of naturals.                                    *)
EXTENDS ResourceLifecycle, SequenceTheorems, FiniteSetTheorems,
        WellFoundedInduction, TLAPS

Custody == OwnershipTypes /\ SingularOwnership /\ ClosedScopesAreDone

LEMMA CustodyInit == Init => Custody
  <1> SUFFICES ASSUME Init PROVE Custody
    OBVIOUS
  <1>1. OwnershipTypes
    BY DEF Init, OwnershipTypes
  <1>2. SingularOwnership
    BY DEF Init, SingularOwnership, Registrations
  <1>3. ClosedScopesAreDone
    BY RootIsAScope DEF Init, ClosedScopesAreDone, IsOpen
  <1> QED
    BY <1>1, <1>2, <1>3 DEF Custody

(* Finalizing a set of resources that one scope owns. *)
LEMMA FinalizeCustody ==
    ASSUME Custody, NEW s \in Scopes, NEW rs \in SUBSET Resources, Finalize(rs, s), UNCHANGED registration,
           \A r \in rs : cleanup[r] = "pending" /\ owner[r] = s
    PROVE  /\ owned' \subseteq owned
           /\ owner' \in [Resources -> Scopes \cup {NoScope}]
           /\ cleanup' \in [Resources -> {"absent", "pending", "finalized"}]
           /\ SingularOwnership'
           /\ \A r \in Resources : owner'[r] = NoScope \/ (owner'[r] = owner[r] /\ r \notin rs)
  <1>1. owned' = {o \in owned : ~(o[1] = s /\ o[2] \in rs)}
    BY DEF Finalize
  <1>2. /\ owner' = [r \in Resources |-> IF r \in rs THEN NoScope ELSE owner[r]]
        /\ cleanup' = [r \in Resources |-> IF r \in rs THEN "finalized" ELSE cleanup[r]]
    BY DEF Finalize
  <1>3. ASSUME NEW r \in Resources, r \in rs
        PROVE  Registrations(r)' = {} /\ owner'[r] = NoScope /\ cleanup'[r] = "finalized"
    <2>1. PICK n \in 0 .. registration : Registrations(r) = {<<s, r, n>>}
      BY <1>3 DEF Custody, SingularOwnership
    <2>2. \A o \in owned : o[2] = r => o[1] = s
      BY <2>1 DEF Registrations
    <2> QED
      BY <1>1, <1>2, <1>3, <2>2 DEF Registrations
  <1>4. ASSUME NEW r \in Resources, r \notin rs
        PROVE  Registrations(r)' = Registrations(r) /\ owner'[r] = owner[r] /\ cleanup'[r] = cleanup[r]
    BY <1>1, <1>2, <1>4 DEF Registrations
  <1>5. SingularOwnership'
    BY <1>3, <1>4 DEF Custody, SingularOwnership
  <1>6. /\ owner' \in [Resources -> Scopes \cup {NoScope}]
        /\ cleanup' \in [Resources -> {"absent", "pending", "finalized"}]
    BY <1>2 DEF Custody, OwnershipTypes
  <1> QED
    BY <1>1, <1>3, <1>4, <1>5, <1>6

(* A resource comes to be registered once, at an open scope: by acquisition   *)
(* (it was registered nowhere) or by transfer (its old entry is removed).     *)
LEMMA InstallCustody ==
    ASSUME Custody, NEW r \in Resources, NEW s \in Scopes, IsOpen(s),
           NEW kept \in SUBSET owned, \A o \in kept : o[2] # r,
           \A o \in owned : o[2] # r => o \in kept,
           owned' = kept \cup {<<s, r, registration>>}, registration' = registration + 1,
           owner' = [owner EXCEPT ![r] = s],
           cleanup' = [cleanup EXCEPT ![r] = "pending"],
           UNCHANGED <<state, above>>
    PROVE  /\ owned' \subseteq Scopes \X Resources \X Nat
           /\ registration' \in Nat
           /\ owner' \in [Resources -> Scopes \cup {NoScope}]
           /\ cleanup' \in [Resources -> {"absent", "pending", "finalized"}]
           /\ SingularOwnership'
           /\ ClosedScopesAreDone'
  <1>1. registration \in Nat /\ owned \subseteq Scopes \X Resources \X Nat
    BY DEF Custody, OwnershipTypes
  <1>2. owned' \subseteq Scopes \X Resources \X Nat /\ registration' \in Nat
    BY <1>1
  <1>3. /\ owner' \in [Resources -> Scopes \cup {NoScope}]
        /\ cleanup' \in [Resources -> {"absent", "pending", "finalized"}]
        /\ owner'[r] = s /\ cleanup'[r] = "pending"
        /\ \A q \in Resources \ {r} : owner'[q] = owner[q] /\ cleanup'[q] = cleanup[q]
    BY DEF Custody, OwnershipTypes
  <1>4. Registrations(r)' = {<<s, r, registration>>}
    BY DEF Registrations
  <1>5. \A q \in Resources \ {r} : Registrations(q)' = Registrations(q)
    BY DEF Registrations
  <1>6. SingularOwnership'
    <2> SUFFICES ASSUME NEW q \in Resources
                 PROVE  IF cleanup'[q] = "pending"
                        THEN owner'[q] \in Scopes /\ \E n \in 0 .. registration' : Registrations(q)' = {<<owner'[q], q, n>>}
                        ELSE owner'[q] = NoScope /\ Registrations(q)' = {}
      BY DEF SingularOwnership
    <2>1. CASE q = r
      BY <1>1, <1>3, <1>4, <2>1
    <2>2. CASE q # r
      <3>1. 0 .. registration \subseteq 0 .. registration'
        BY <1>1
      <3> QED
        BY <1>3, <1>5, <2>2, <3>1 DEF Custody, SingularOwnership
    <2> QED
      BY <2>1, <2>2
  <1>7. ClosedScopesAreDone'
    <2> SUFFICES ASSUME NEW t \in Scopes, ~IsOpen(t)
                 PROVE  /\ \A q \in Resources : owner'[q] # t
                        /\ \A o \in owned' : o[1] # t
                        /\ \A u \in Scopes : t \in above[u] => ~IsOpen(u)
      BY DEF ClosedScopesAreDone, IsOpen
    <2>1. /\ \A q \in Resources : owner[q] # t
          /\ \A o \in owned : o[1] # t
          /\ \A u \in Scopes : t \in above[u] => ~IsOpen(u)
      BY DEF Custody, ClosedScopesAreDone
    <2>2. t # s
      OBVIOUS
    <2>3. \A q \in Resources : owner'[q] # t
      BY <1>3, <2>1, <2>2
    <2>4. \A o \in owned' : o[1] # t
      BY <2>1, <2>2
    <2> QED
      BY <2>1, <2>3, <2>4
  <1> QED
    BY <1>2, <1>3, <1>6, <1>7

LEMMA OpenCustody ==
    ASSUME Custody, NEW s \in Scopes, NEW p \in Scopes, OpenScope(s, p)
    PROVE  Custody'
  <1>1. /\ state[s] = "unopened" /\ state[p] = "open"
        /\ state' = [state EXCEPT ![s] = "open"]
        /\ above' = [above EXCEPT ![s] = above[p] \cup {p}]
        /\ UNCHANGED <<owned, registration, owner, cleanup, failing, attempts, rejected>>
        /\ events' = events + 1
    BY DEF OpenScope, CanOpen, IsOpen, Interpret
  <1>2. OwnershipTypes'
    BY <1>1 DEF Custody, OwnershipTypes
  <1>3. SingularOwnership'
    BY <1>1 DEF Custody, SingularOwnership, Registrations
  <1>4. ClosedScopesAreDone'
    <2> SUFFICES ASSUME NEW t \in Scopes, state'[t] # "open"
                 PROVE  /\ \A r \in Resources : owner'[r] # t
                        /\ \A o \in owned' : o[1] # t
                        /\ \A u \in Scopes : t \in above'[u] => state'[u] # "open"
      BY DEF ClosedScopesAreDone, IsOpen
    <2>1. t # s /\ state[t] # "open" /\ t # p
      BY <1>1 DEF Custody, OwnershipTypes
    <2>2. /\ \A r \in Resources : owner[r] # t
          /\ \A o \in owned : o[1] # t
          /\ \A u \in Scopes : t \in above[u] => state[u] # "open"
      BY <2>1 DEF Custody, ClosedScopesAreDone, IsOpen
    <2>3. \A u \in Scopes : t \in above'[u] => state'[u] # "open"
      <3> SUFFICES ASSUME NEW u \in Scopes, t \in above'[u] PROVE state'[u] # "open"
        OBVIOUS
      <3>1. CASE u = s
        <4>1. t \in above[p]
          BY <1>1, <2>1, <3>1 DEF Custody, OwnershipTypes
        <4> QED
          BY <1>1, <2>2, <4>1
      <3>2. CASE u # s
        BY <1>1, <2>2, <3>2 DEF Custody, OwnershipTypes
      <3> QED
        BY <3>1, <3>2
    <2> QED
      BY <1>1, <2>2, <2>3
  <1> QED
    BY <1>2, <1>3, <1>4 DEF Custody

LEMMA AcquireCustody ==
    ASSUME Custody, NEW a \in Attempts, NEW s \in Scopes, NEW r \in Resources,
           NEW outcome, Acquire(a, s, r, outcome)
    PROVE  Custody'
  <1>1. /\ IsOpen(s) /\ cleanup[r] = "absent" /\ events' = events + 1
        /\ attempts' = attempts \cup {a}
        /\ failing' \subseteq failing \cup {r}
        /\ owned' = owned \cup {<<s, r, registration>>} /\ registration' = registration + 1
        /\ owner' = [owner EXCEPT ![r] = s] /\ cleanup' = [cleanup EXCEPT ![r] = "pending"]
        /\ UNCHANGED <<state, above, rejected>>
    BY DEF Acquire, CanAcquire, CanAttempt, Interpret
  <1>2. \A o \in owned : o[2] # r
    BY <1>1 DEF Custody, SingularOwnership, Registrations
  <1>3. /\ owned' \subseteq Scopes \X Resources \X Nat
        /\ registration' \in Nat
        /\ owner' \in [Resources -> Scopes \cup {NoScope}]
        /\ cleanup' \in [Resources -> {"absent", "pending", "finalized"}]
        /\ SingularOwnership' /\ ClosedScopesAreDone'
    BY <1>1, <1>2, InstallCustody
  <1> QED
    BY <1>1, <1>3 DEF Custody, OwnershipTypes

LEMMA TransferCustody ==
    ASSUME Custody, NEW r \in Resources, NEW from \in Scopes, NEW to \in Scopes,
           Transfer(r, from, to)
    PROVE  Custody'
  <1> DEFINE kept == {o \in owned : ~(o[1] = from /\ o[2] = r)}
  <1>1. /\ IsOpen(to) /\ cleanup[r] = "pending" /\ owner[r] = from /\ events' = events + 1
        /\ owned' = kept \cup {<<to, r, registration>>} /\ registration' = registration + 1
        /\ owner' = [owner EXCEPT ![r] = to]
        /\ UNCHANGED <<state, above, cleanup, failing, attempts, rejected>>
    BY DEF Transfer, CanTransfer, Interpret
  <1>2. cleanup' = [cleanup EXCEPT ![r] = "pending"]
    BY <1>1 DEF Custody, OwnershipTypes
  <1>3. PICK n \in 0 .. registration : Registrations(r) = {<<from, r, n>>}
    BY <1>1 DEF Custody, SingularOwnership
  <1>4. \A o \in owned : o[2] = r => o[1] = from
    BY <1>3 DEF Registrations
  <1>5. kept \in SUBSET owned /\ (\A o \in kept : o[2] # r) /\ (\A o \in owned : o[2] # r => o \in kept)
    BY <1>4
  <1> HIDE DEF kept
  <1>6. /\ owned' \subseteq Scopes \X Resources \X Nat
        /\ registration' \in Nat
        /\ owner' \in [Resources -> Scopes \cup {NoScope}]
        /\ SingularOwnership' /\ ClosedScopesAreDone'
    BY <1>1, <1>2, <1>5, InstallCustody
  <1> QED
    BY <1>1, <1>6 DEF Custody, OwnershipTypes

LEMMA ReleaseCustody ==
    ASSUME Custody, NEW r \in Resources, NEW s \in Scopes, Release(r, s)
    PROVE  Custody'
  <1>1. /\ cleanup[r] = "pending" /\ owner[r] = s /\ Finalize({r}, s) /\ events' = events + 1
        /\ UNCHANGED <<state, above, registration, failing, attempts, rejected>>
    BY DEF Release, CanRelease, Interpret
  <1>2. /\ owned' \subseteq owned
        /\ owner' \in [Resources -> Scopes \cup {NoScope}]
        /\ cleanup' \in [Resources -> {"absent", "pending", "finalized"}]
        /\ SingularOwnership'
        /\ \A q \in Resources : owner'[q] = NoScope \/ owner'[q] = owner[q]
    BY <1>1, FinalizeCustody
  <1>3. ClosedScopesAreDone'
    BY <1>1, <1>2, RootIsAScope DEF Custody, ClosedScopesAreDone, IsOpen
  <1> QED
    BY <1>1, <1>2, <1>3 DEF Custody, OwnershipTypes

(* An exit finds everything it must finalize in the scope's own register.     *)
LEMMA ExitCustody ==
    ASSUME Custody, NEW s \in Scopes, ExitScope(s)
    PROVE  Custody'
  <1> DEFINE rs == OwnedBy(s)
  <1>1. /\ IsOpen(s) /\ OpenDescendants(s) = {} /\ Finalize(rs, s) /\ events' = events + 1
        /\ state' = [state EXCEPT ![s] = "closed"]
        /\ UNCHANGED <<above, registration, failing, attempts, rejected>>
    BY DEF ExitScope, Interpret, ToFinalize
  <1>2. rs \in SUBSET Resources
    BY DEF OwnedBy, Custody, OwnershipTypes
  <1>3. ASSUME NEW r \in rs PROVE cleanup[r] = "pending" /\ owner[r] = s
    <2>1. PICK o \in owned : o[1] = s /\ o[2] = r
      BY DEF OwnedBy
    <2>2. o \in Registrations(r)
      BY <2>1 DEF Registrations
    <2>3. cleanup[r] = "pending" /\ \E n \in 0 .. registration : Registrations(r) = {<<owner[r], r, n>>}
      BY <1>2, <1>3, <2>2 DEF Custody, SingularOwnership
    <2> QED
      BY <2>1, <2>2, <2>3
  <1>4. \A r \in Resources : owner[r] = s => r \in rs
    <2> SUFFICES ASSUME NEW r \in Resources, owner[r] = s PROVE r \in rs
      OBVIOUS
    <2>1. PICK n \in 0 .. registration : Registrations(r) = {<<s, r, n>>}
      BY RootIsAScope DEF Custody, SingularOwnership
    <2>2. <<s, r, n>> \in owned
      BY <2>1 DEF Registrations
    <2> QED
      BY <2>2 DEF OwnedBy
  <1>5. \A o \in owned : o[1] = s => o[2] \in rs
    BY DEF OwnedBy
  <1>6. owned' = {o \in owned : ~(o[1] = s /\ o[2] \in rs)}
    BY <1>1 DEF Finalize
  <1> HIDE DEF rs
  <1>7. /\ owned' \subseteq owned
        /\ owner' \in [Resources -> Scopes \cup {NoScope}]
        /\ cleanup' \in [Resources -> {"absent", "pending", "finalized"}]
        /\ SingularOwnership'
        /\ \A r \in Resources : owner'[r] = NoScope \/ (owner'[r] = owner[r] /\ r \notin rs)
    BY <1>1, <1>2, <1>3, FinalizeCustody
  <1>8. ClosedScopesAreDone'
    <2> SUFFICES ASSUME NEW t \in Scopes, state'[t] # "open"
                 PROVE  /\ \A r \in Resources : owner'[r] # t
                        /\ \A o \in owned' : o[1] # t
                        /\ \A u \in Scopes : t \in above'[u] => state'[u] # "open"
      BY DEF ClosedScopesAreDone, IsOpen
    <2>1. CASE t = s
      <3>1. \A r \in Resources : owner'[r] # t
        BY <1>4, <1>7, <2>1, RootIsAScope
      <3>2. \A o \in owned' : o[1] # t
        BY <1>5, <1>6, <2>1
      <3>3. \A u \in Scopes : t \in above'[u] => state'[u] # "open"
        BY <1>1, <2>1 DEF OpenDescendants, IsOpen, Custody, OwnershipTypes
      <3> QED
        BY <3>1, <3>2, <3>3
    <2>2. CASE t # s
      <3>1. state[t] # "open"
        BY <1>1, <2>2 DEF Custody, OwnershipTypes
      <3>2. /\ \A r \in Resources : owner[r] # t
            /\ \A o \in owned : o[1] # t
            /\ \A u \in Scopes : t \in above[u] => state[u] # "open"
        BY <3>1 DEF Custody, ClosedScopesAreDone, IsOpen
      <3>3. \A r \in Resources : owner'[r] # t
        BY <1>7, <3>2, RootIsAScope
      <3>4. \A u \in Scopes : t \in above'[u] => state'[u] # "open"
        BY <1>1, <3>2 DEF Custody, OwnershipTypes
      <3> QED
        BY <1>7, <3>2, <3>3, <3>4
    <2> QED
      BY <2>1, <2>2
  <1>9. OwnershipTypes'
    BY <1>1, <1>7 DEF Custody, OwnershipTypes
  <1> QED
    BY <1>7, <1>8, <1>9 DEF Custody

LEMMA CustodyStep == Custody /\ [Next]_vars => Custody'
  <1> SUFFICES ASSUME Custody, [Next]_vars PROVE Custody'
    OBVIOUS
  <1>1. ASSUME NEW s \in Scopes, NEW p \in Scopes, OpenScope(s, p) PROVE Custody'
    BY <1>1, OpenCustody
  <1>2. ASSUME NEW a \in Attempts, NEW s \in Scopes, NEW r \in Resources,
               NEW o \in {"succeeded", "failed"}, Acquire(a, s, r, o)
        PROVE  Custody'
    BY <1>2, AcquireCustody
  <1>3. ASSUME NEW r \in Resources, NEW s \in Scopes, Release(r, s) PROVE Custody'
    BY <1>3, ReleaseCustody
  <1>4. ASSUME NEW r \in Resources, NEW s \in Scopes, NEW t \in Scopes, Transfer(r, s, t)
        PROVE  Custody'
    BY <1>4, TransferCustody
  <1>5. ASSUME NEW s \in Scopes, ExitScope(s) PROVE Custody'
    BY <1>5, ExitCustody
  <1>6. ASSUME \/ \E a \in Attempts, s \in Scopes : FailToAcquire(a, s)
               \/ \E s \in Scopes : ExitBlocked(s)
               \/ Reject
               \/ UNCHANGED vars
        PROVE  Custody'
    <2>1. /\ UNCHANGED <<state, above, owned, registration, owner, cleanup, failing>>
          /\ events' \in {events, events + 1} /\ attempts' \in SUBSET Attempts /\ rejected' \in BOOLEAN
      BY <1>6 DEF FailToAcquire, ExitBlocked, Reject, vars, Interpret, Custody, OwnershipTypes
    <2>2. OwnershipTypes'
      BY <2>1 DEF Custody, OwnershipTypes
    <2>3. SingularOwnership' /\ ClosedScopesAreDone'
      BY <2>1 DEF Custody, SingularOwnership, Registrations, ClosedScopesAreDone, IsOpen
    <2> QED
      BY <2>2, <2>3 DEF Custody
  <1> QED
    BY <1>1, <1>2, <1>3, <1>4, <1>5, <1>6 DEF Next

LEMMA CustodyInvariant == Spec => []Custody
  <1> QED
    BY CustodyInit, CustodyStep, PTL DEF Spec

(* Every pending resource has one owner and is in that scope's register once; *)
(* no other resource is in any (the report's singular_ownership law).         *)
THEOREM SingularOwnershipHolds == Spec => []SingularOwnership
  <1>1. Custody => SingularOwnership
    BY DEF Custody
  <1> QED
    BY <1>1, CustodyInvariant, PTL

(* A scope that has exited owns nothing and has nothing open below it, from   *)
(* then on (the report's closed_scope_resources_finalized law).               *)
THEOREM ClosedScopesAreDoneHolds == Spec => []ClosedScopesAreDone
  <1>1. Custody => ClosedScopesAreDone
    BY DEF Custody
  <1> QED
    BY <1>1, CustodyInvariant, PTL

(* ---- the order of an exit ------------------------------------------------- *)
(* Every set of naturals has a least element: induction, as a fact about sets. *)
LEMMA LeastOf == ASSUME NEW S \in SUBSET Nat, S # {} PROVE \E n \in S : \A m \in S : n <= m
  <1> DEFINE R == OpToRel(<, Nat)
  <1>1. IsWellFoundedOn(R, Nat)
    BY NatLessThanWellFounded
  <1>2. \A a, b \in Nat : <<a, b>> \in R <=> a < b
    BY DEF OpToRel
  <1> HIDE DEF R
  <1>3. PICK n \in S : \A m \in S : ~(<<m, n>> \in R)
    BY <1>1, WFMin, Zenon
  <1>4. ASSUME NEW m \in S PROVE n <= m
    <2>1. ~(<<m, n>> \in R) /\ m \in Nat /\ n \in Nat
      BY <1>3
    <2> QED
      BY <1>2, <2>1
  <1> QED
    BY <1>4

Sorted(key, S, n, order) ==
    order \in [1 .. n -> S] /\ \A i, j \in 1 .. n : i < j => key[order[i]] > key[order[j]]
Keyed(key, S) == IsFiniteSet(S) /\ (\A r \in S : key[r] \in Nat) /\ \A q, r \in S : key[q] = key[r] => q = r

(* The least of a set goes after all the others.                              *)
LEMMA SortedExtends ==
    ASSUME NEW key, NEW S, Keyed(key, S), NEW n \in Nat, NEW r \in S, \A q \in S : key[r] <= key[q],
           NEW order, Sorted(key, S \ {r}, n, order)
    PROVE  \E longer : Sorted(key, S, n + 1, longer)
  <1> DEFINE longer == [i \in 1 .. n + 1 |-> IF i = n + 1 THEN r ELSE order[i]]
  <1>1. \A i \in 1 .. n : order[i] \in S /\ order[i] # r
    BY DEF Sorted
  <1>2. longer \in [1 .. n + 1 -> S]
    BY <1>1
  <1>3. \A i \in 1 .. n : longer[i] = order[i] /\ i \in 1 .. n + 1
    OBVIOUS
  <1>4. longer[n + 1] = r
    OBVIOUS
  <1> HIDE DEF longer
  <1>5. ASSUME NEW i \in 1 .. n + 1, NEW j \in 1 .. n + 1, i < j PROVE key[longer[i]] > key[longer[j]]
    <2>1. i \in 1 .. n
      BY <1>5
    <2>2. CASE j = n + 1
      <3>1. key[r] # key[order[i]] /\ key[r] <= key[order[i]] /\ key[r] \in Nat /\ key[order[i]] \in Nat
        BY <1>1, <2>1 DEF Keyed
      <3> QED
        BY <1>3, <1>4, <2>1, <2>2, <3>1
    <2>3. CASE j # n + 1
      <3>1. j \in 1 .. n
        BY <2>3
      <3> QED
        BY <1>3, <1>5, <2>1, <3>1 DEF Sorted
    <2> QED
      BY <2>2, <2>3
  <1>6. Sorted(key, S, n + 1, longer)
    BY <1>2, <1>5 DEF Sorted
  <1> QED
    BY <1>6

LEMMA SortingExists ==
    ASSUME NEW key, NEW S, Keyed(key, S)
    PROVE  \E order : Sorted(key, S, Cardinality(S), order)
  <1> DEFINE Bad == {n \in Nat : \E T \in SUBSET S : Cardinality(T) = n /\ ~\E order : Sorted(key, T, n, order)}
  <1>1. ASSUME Bad # {} PROVE FALSE
    <2>1. PICK n \in Bad : \A m \in Bad : n <= m
      <3>1. Bad \in SUBSET Nat
        OBVIOUS
      <3> HIDE DEF Bad
      <3> QED
        BY <1>1, <3>1, LeastOf
    <2>2. PICK T \in SUBSET S : Cardinality(T) = n /\ ~\E order : Sorted(key, T, n, order)
      BY <2>1
    <2>3. n \in Nat /\ IsFiniteSet(T) /\ Keyed(key, T)
      BY <2>1, FS_Subset DEF Keyed
    <2>4. CASE T = {}
      <3>1. n = 0
        BY <2>2, <2>4, FS_EmptySet
      <3>2. Sorted(key, T, n, [i \in 1 .. n |-> i])
        BY <3>1 DEF Sorted
      <3> QED
        BY <2>2, <3>2
    <2>5. CASE T # {}
      <3> DEFINE K == {key[q] : q \in T}
      <3>1. PICK k \in K : \A m \in K : k <= m
        <4>1. K \in SUBSET Nat /\ K # {}
          BY <2>3, <2>5 DEF Keyed
        <4> HIDE DEF K
        <4> QED
          BY <4>1, LeastOf
      <3>2. PICK r \in T : \A q \in T : key[r] <= key[q]
        BY <3>1
      <3>3. Cardinality(T \ {r}) = n - 1 /\ IsFiniteSet(T \ {r})
        BY <2>2, <2>3, FS_RemoveElement
      <3>4. n - 1 \in Nat
        BY <3>3, FS_CardinalityType
      <3>5. n - 1 \notin Bad
        <4>1. ~(n <= n - 1)
          BY <2>3
        <4> HIDE DEF Bad
        <4> QED
          BY <2>1, <4>1
      <3>6. PICK order : Sorted(key, T \ {r}, n - 1, order)
        BY <3>3, <3>4, <3>5
      <3>7. \E longer : Sorted(key, T, (n - 1) + 1, longer)
        BY <2>3, <3>2, <3>4, <3>6, SortedExtends
      <3>8. (n - 1) + 1 = n
        BY <2>3
      <3> QED
        BY <2>2, <3>7, <3>8
    <2> QED
      BY <2>4, <2>5
  <1>2. Cardinality(S) \in Nat
    BY FS_CardinalityType DEF Keyed
  <1> QED
    BY <1>1, <1>2

(* ---- installations -------------------------------------------------------- *)
(* Of the first i observations, the j-th is the last that installs r.         *)
Ending == {"released", "exited"}
Installs(obs, r, i, j) ==
    /\ j \in 1 .. i /\ obs[j].resource = r /\ obs[j].tag \notin Ending
    /\ \A k \in j + 1 .. i : obs[k].resource = r => obs[k].tag \in Ending

Observed == [tag : {"acquired", "transferred", "released", "exited"}, resource : Resources, scope : Scopes]
Last(r, j) == Installs(observations, r, Len(observations), j)

(* The registers are in the order of the installations.                       *)
InOrder ==
    /\ observations \in Seq(Observed) /\ IsFiniteSet(owned)
    /\ \A o \in owned : o[3] < registration /\ \E j \in 1 .. Len(observations) : Last(o[2], j)
    /\ \A o, p \in owned : o[3] = p[3] => o = p
    /\ \A o, p \in owned : o[3] > p[3] =>
          \A i, j \in 1 .. Len(observations) : Last(o[2], i) /\ Last(p[2], j) => i > j

(* Scopes form a tree: a scope is below scopes that were opened before it.    *)
Nested == \A s \in Scopes : s \notin above[s] /\ \A t \in above[s] : state[t] # "unopened"

(* What an exit finalized had been installed, and no exit undoes another.     *)
Exits == {i \in 1 .. Len(observations) : observations[i].tag = "exited"}
OfScope(i) == observations[i].scope
InstalledAt(i, a) == Installs(observations, observations[i].resource, i, a)
Undone ==
    /\ \A i \in Exits : state[OfScope(i)] = "closed" /\ \E a \in 1 .. i : InstalledAt(i, a)
    /\ \A i, j \in Exits : i < j =>
          /\ OfScope(i) \notin above[OfScope(j)]
          /\ OfScope(i) = OfScope(j) =>
                \A a \in 1 .. i, b \in 1 .. j : InstalledAt(i, a) /\ InstalledAt(j, b) => a > b

LEMMA InstallsOnce ==
    ASSUME NEW obs, NEW r, NEW i \in Nat, NEW a, NEW b, Installs(obs, r, i, a), Installs(obs, r, i, b)
    PROVE  a = b
  <1>1. a \in 1 .. i /\ b \in 1 .. i
    BY DEF Installs
  <1>2. ~(a < b)
    <2>1. ASSUME a < b PROVE FALSE
      <3>1. b \in a + 1 .. i
        BY <1>1, <2>1
      <3> QED
        BY <3>1 DEF Installs
    <2> QED
      BY <2>1
  <1>3. ~(b < a)
    <2>1. ASSUME b < a PROVE FALSE
      <3>1. a \in b + 1 .. i
        BY <1>1, <2>1
      <3> QED
        BY <3>1 DEF Installs
    <2> QED
      BY <2>1
  <1> QED
    BY <1>1, <1>2, <1>3

LEMMA InstallsSame ==
    ASSUME NEW obs, NEW ext, NEW i \in Nat, \A k \in 1 .. i : ext[k] = obs[k], NEW r, NEW a
    PROVE  Installs(obs, r, i, a) <=> Installs(ext, r, i, a)
  <1>1. ASSUME NEW j \in 1 .. i PROVE \A k \in j + 1 .. i : k \in 1 .. i
    OBVIOUS
  <1> QED
    BY <1>1 DEF Installs

(* Observations that install r no more do not change where it was installed.  *)
LEMMA InstallsLonger ==
    ASSUME NEW obs, NEW i \in Nat, NEW m \in Nat, i <= m, NEW r,
           \A k \in i + 1 .. m : obs[k].resource = r => obs[k].tag \in Ending, NEW a
    PROVE  Installs(obs, r, i, a) <=> Installs(obs, r, m, a)
  <1>1. ASSUME Installs(obs, r, i, a) PROVE Installs(obs, r, m, a)
    <2>1. a \in 1 .. i /\ a \in 1 .. m
      BY <1>1 DEF Installs
    <2>2. \A k \in a + 1 .. m : k \in a + 1 .. i \/ k \in i + 1 .. m
      BY <2>1
    <2> QED
      BY <1>1, <2>1, <2>2 DEF Installs
  <1>2. ASSUME Installs(obs, r, m, a) PROVE Installs(obs, r, i, a)
    <2>1. a \in 1 .. m /\ ~(a \in i + 1 .. m)
      BY <1>2 DEF Installs
    <2>2. a \in 1 .. i /\ \A k \in a + 1 .. i : k \in a + 1 .. m
      BY <2>1
    <2> QED
      BY <1>2, <2>2 DEF Installs
  <1> QED
    BY <1>1, <1>2

(* An exit finalizes what it owns, the latest registered first.               *)
LEMMA ExitOrder ==
    ASSUME Custody, InOrder, NEW s \in Scopes
    PROVE  /\ IsFiniteSet(OwnedBy(s)) /\ Cardinality(OwnedBy(s)) \in Nat
           /\ CleanupOrder(s) \in [1 .. Cardinality(OwnedBy(s)) -> OwnedBy(s)]
           /\ \A r \in OwnedBy(s) : \E o \in owned : o[1] = s /\ o[2] = r /\ o[3] = RegisteredAt(s, r)
           /\ \A i, j \in 1 .. Cardinality(OwnedBy(s)) :
                 i < j => RegisteredAt(s, CleanupOrder(s)[i]) > RegisteredAt(s, CleanupOrder(s)[j])
  <1> DEFINE Own == OwnedBy(s)
             key == [r \in Own |-> RegisteredAt(s, r)]
             Here == {o \in owned : o[1] = s}
             f == [o \in Here |-> o[2]]
  <1>1. \A r \in Own : \E o \in owned : o[1] = s /\ o[2] = r /\ o[3] = RegisteredAt(s, r)
    <2> SUFFICES ASSUME NEW r \in Own PROVE \E o \in owned : o[1] = s /\ o[2] = r /\ o[3] = RegisteredAt(s, r)
      OBVIOUS
    <2>1. \E o \in owned : o[1] = s /\ o[2] = r
      BY DEF OwnedBy
    <2>2. PICK o : o = CHOOSE p \in owned : p[1] = s /\ p[2] = r
      OBVIOUS
    <2>3. o \in owned /\ o[1] = s /\ o[2] = r
      BY <2>1, <2>2
    <2> QED
      BY <2>2, <2>3 DEF RegisteredAt
  <1>2. IsFiniteSet(Own)
    <2>1. IsFiniteSet(Here)
      BY FS_Subset DEF InOrder
    <2>2. f \in Surjection(Here, Own)
      BY DEF Surjection, OwnedBy
    <2> QED
      BY <2>1, <2>2, FS_Surjection
  <1>3. Keyed(key, Own)
    <2>1. \A r \in Own : key[r] = RegisteredAt(s, r)
      OBVIOUS
    <2> HIDE DEF Own, key
    <2>2. \A r \in Own : key[r] \in Nat
      BY <1>1, <2>1 DEF Custody, OwnershipTypes
    <2>3. \A q, r \in Own : key[q] = key[r] => q = r
      <3> SUFFICES ASSUME NEW q \in Own, NEW r \in Own, key[q] = key[r] PROVE q = r
        OBVIOUS
      <3>1. PICK o \in owned : o[2] = q /\ o[3] = key[q]
        BY <1>1, <2>1
      <3>2. PICK p \in owned : p[2] = r /\ p[3] = key[r]
        BY <1>1, <2>1
      <3> QED
        BY <3>1, <3>2 DEF InOrder
    <2> QED
      BY <1>2, <2>2, <2>3 DEF Keyed
  <1>4. PICK order : Sorted(key, Own, Cardinality(Own), order)
    <2> HIDE DEF key, Own
    <2> QED
      BY <1>3, SortingExists
  <1>5. Cardinality(Own) \in Nat
    BY <1>2, FS_CardinalityType
  <1>6. order \in [1 .. Cardinality(Own) -> Own]
    BY <1>4 DEF Sorted
  <1>7. \A i, j \in DOMAIN order : i < j => RegisteredAt(s, order[i]) > RegisteredAt(s, order[j])
    <2> SUFFICES ASSUME NEW i \in DOMAIN order, NEW j \in DOMAIN order, i < j
                 PROVE  RegisteredAt(s, order[i]) > RegisteredAt(s, order[j])
      OBVIOUS
    <2>1. i \in 1 .. Cardinality(Own) /\ j \in 1 .. Cardinality(Own)
      BY <1>6
    <2>2. order[i] \in Own /\ order[j] \in Own
      BY <1>6, <2>1
    <2>3. key[order[i]] > key[order[j]]
      <3> HIDE DEF key, Own
      <3> QED
        BY <1>4, <2>1 DEF Sorted
    <2>4. key[order[i]] = RegisteredAt(s, order[i]) /\ key[order[j]] = RegisteredAt(s, order[j])
      BY <2>2
    <2> HIDE DEF key
    <2> QED
      BY <2>3, <2>4
  <1>8. ToFinalize(s) = Own
    BY DEF ToFinalize
  <1> HIDE DEF Own, key, f, Here
  <1>9. /\ CleanupOrder(s) \in [1 .. Cardinality(Own) -> Own]
        /\ \A i, j \in DOMAIN CleanupOrder(s) :
              i < j => RegisteredAt(s, CleanupOrder(s)[i]) > RegisteredAt(s, CleanupOrder(s)[j])
    BY <1>6, <1>7, <1>8, Zenon DEF CleanupOrder
  <1>10. DOMAIN CleanupOrder(s) = 1 .. Cardinality(Own)
    BY <1>9
  <1> QED
    BY <1>1, <1>2, <1>5, <1>9, <1>10 DEF Own

(* ---- the steps ------------------------------------------------------------- *)
(* What a step appends leaves the earlier observations where they were.       *)
Grows(obs, ext) ==
    /\ obs \in Seq(Observed) /\ ext \in Seq(Observed) /\ Len(obs) <= Len(ext)
    /\ \A k \in 1 .. Len(obs) : ext[k] = obs[k]

LEMMA Appended ==
    ASSUME NEW obs \in Seq(Observed), NEW entries \in Seq(Observed)
    PROVE  /\ Grows(obs, obs \o entries)
           /\ Len(obs \o entries) = Len(obs) + Len(entries)
           /\ \A k \in 1 .. Len(entries) : (obs \o entries)[Len(obs) + k] = entries[k]
  <1> QED
    BY DEF Grows

(* While r is only finalized, its last installation stays the last.           *)
LEMMA LastStays ==
    ASSUME NEW obs, NEW ext, Grows(obs, ext), NEW r, NEW i \in Len(obs) .. Len(ext),
           \A k \in Len(obs) + 1 .. i : ext[k].resource = r => ext[k].tag \in Ending, NEW a
    PROVE  Installs(obs, r, Len(obs), a) <=> Installs(ext, r, i, a)
  <1>1. Len(obs) \in Nat /\ i \in Nat /\ Len(obs) <= i
    BY DEF Grows
  <1>2. \A k \in 1 .. Len(obs) : ext[k] = obs[k]
    BY DEF Grows
  <1>3. Installs(obs, r, Len(obs), a) <=> Installs(ext, r, Len(obs), a)
    BY <1>1, <1>2, InstallsSame
  <1>4. Installs(ext, r, Len(obs), a) <=> Installs(ext, r, i, a)
    BY <1>1, InstallsLonger
  <1> QED
    BY <1>3, <1>4

LEMMA PastStays ==
    ASSUME Grows(observations, observations'), NEW i \in 1 .. Len(observations)
    PROVE  OfScope(i)' = OfScope(i) /\ \A a : InstalledAt(i, a)' <=> InstalledAt(i, a)
  <1>1. observations'[i] = observations[i] /\ i \in Nat
    BY DEF Grows
  <1>2. \A k \in 1 .. i : observations'[k] = observations[k]
    <2>1. \A k \in 1 .. i : k \in 1 .. Len(observations)
      BY DEF Grows
    <2> QED
      BY <2>1 DEF Grows
  <1>3. ASSUME NEW a PROVE InstalledAt(i, a)' <=> InstalledAt(i, a)
    <2>1. Installs(observations, observations[i].resource, i, a) <=> Installs(observations', observations[i].resource, i, a)
      BY <1>1, <1>2, InstallsSame
    <2> QED
      BY <1>1, <2>1 DEF InstalledAt
  <1> QED
    BY <1>1, <1>3 DEF OfScope

(* A step that installs nothing.                                              *)
LEMMA OrderStays ==
    ASSUME InOrder, Grows(observations, observations'), owned' \subseteq owned, registration' = registration,
           \A k \in Len(observations) + 1 .. Len(observations') : observations'[k].tag \in Ending
    PROVE  InOrder'
  <1>1. Len(observations') \in Len(observations) .. Len(observations')
    BY DEF Grows
  <1>2. \A r, j : Last(r, j)' <=> Last(r, j)
    BY <1>1, LastStays DEF Last
  <1>3. \A j \in 1 .. Len(observations) : j \in 1 .. Len(observations')
    BY DEF Grows
  <1>4. \A r, j : Last(r, j) => j \in 1 .. Len(observations)
    BY DEF Last, Installs
  <1>5. observations' \in Seq(Observed) /\ IsFiniteSet(owned')
    BY FS_Subset DEF Grows, InOrder
  <1>6. \A o \in owned' : o[3] < registration' /\ \E j \in 1 .. Len(observations') : Last(o[2], j)'
    BY <1>2, <1>3 DEF InOrder
  <1>7. \A o, p \in owned' : o[3] = p[3] => o = p
    BY DEF InOrder
  <1>8. \A o, p \in owned' : o[3] > p[3] =>
           \A i, j \in 1 .. Len(observations') : Last(o[2], i)' /\ Last(p[2], j)' => i > j
    BY <1>2, <1>4 DEF InOrder
  <1> QED
    BY <1>5, <1>6, <1>7, <1>8 DEF InOrder

(* A step that finalizes nothing by an exit.                                  *)
LEMMA UndoneStays ==
    ASSUME Undone, Grows(observations, observations'),
           \A k \in Len(observations) + 1 .. Len(observations') : observations'[k].tag # "exited",
           \A s \in Scopes : state[s] = "closed" => state'[s] = "closed" /\ above'[s] = above[s]
    PROVE  Undone'
  <1>1. ASSUME NEW i \in Exits'
        PROVE  i \in Exits /\ i \in 1 .. Len(observations) /\ OfScope(i) \in Scopes
    <2>1. i \in 1 .. Len(observations') /\ observations'[i].tag = "exited"
      BY <1>1 DEF Exits
    <2>2. i \in 1 .. Len(observations)
      BY <2>1 DEF Grows
    <2>3. observations[i] \in Observed /\ observations'[i] = observations[i]
      BY <2>2 DEF Grows
    <2>4. observations[i].tag = "exited" /\ OfScope(i) \in Scopes
      BY <2>1, <2>3 DEF OfScope, Observed
    <2> QED
      BY <2>2, <2>4 DEF Exits
  <1>2. \A i \in Exits' : OfScope(i)' = OfScope(i) /\ \A a : InstalledAt(i, a)' <=> InstalledAt(i, a)
    BY <1>1, PastStays
  <1>3. \A i \in Exits' : state'[OfScope(i)'] = "closed" /\ \E a \in 1 .. i : InstalledAt(i, a)'
    BY <1>1, <1>2 DEF Undone
  <1>4. \A i \in Exits' : above'[OfScope(i)'] = above[OfScope(i)]
    BY <1>1, <1>2 DEF Undone
  <1>5. ASSUME NEW i \in Exits', NEW j \in Exits', i < j
        PROVE  /\ OfScope(i)' \notin above'[OfScope(j)']
               /\ OfScope(i)' = OfScope(j)' =>
                     \A a \in 1 .. i, b \in 1 .. j : InstalledAt(i, a)' /\ InstalledAt(j, b)' => a > b
    BY <1>1, <1>2, <1>4, <1>5 DEF Undone
  <1> QED
    BY <1>3, <1>5 DEF Undone

(* A resource that is installed gets the largest registration and the latest  *)
(* place.                                                                     *)
LEMMA InstallOrder ==
    ASSUME Custody, InOrder, NEW r \in Resources, NEW s \in Scopes, NEW tag \in {"acquired", "transferred"},
           Observe(tag, r, s), NEW kept \in SUBSET owned, \A o \in kept : o[2] # r,
           owned' = kept \cup {<<s, r, registration>>}, registration' = registration + 1
    PROVE  /\ InOrder' /\ Grows(observations, observations')
           /\ \A k \in Len(observations) + 1 .. Len(observations') : observations'[k].tag # "exited"
  <1>0. PICK n \in Nat : n = Len(observations)
    BY DEF InOrder
  <1> DEFINE e == [tag |-> tag, resource |-> r, scope |-> s]
  <1>1. observations \in Seq(Observed) /\ e \in Observed /\ n \in Nat /\ tag \notin Ending /\ registration \in Nat
    BY <1>0 DEF InOrder, Observed, Ending, Custody, OwnershipTypes
  <1>2. /\ Grows(observations, observations') /\ Len(observations') = n + 1 /\ observations'[n + 1] = e
    BY <1>0, <1>1 DEF Observe, Grows
  <1>3. \A k \in n + 1 .. Len(observations') : k = n + 1
    BY <1>1, <1>2
  <1>4. ASSUME NEW q, q # r, NEW j PROVE Last(q, j)' <=> Last(q, j)
    <2>1. \A k \in n + 1 .. n + 1 : observations'[k].resource # q
      BY <1>2, <1>3, <1>4
    <2>2. n + 1 \in n .. Len(observations')
      BY <1>1, <1>2
    <2> QED
      BY <1>0, <1>2, <2>1, <2>2, LastStays DEF Last
  <1>5. Last(r, n + 1)'
    <2>1. n + 1 \in 1 .. n + 1 /\ (n + 1) + 1 .. n + 1 = {}
      BY <1>1
    <2>2. observations'[n + 1].resource = r /\ observations'[n + 1].tag \notin Ending
      BY <1>1, <1>2
    <2> HIDE DEF e
    <2>3. Installs(observations', r, n + 1, n + 1)
      BY <2>1, <2>2 DEF Installs
    <2> QED
      BY <1>2, <2>3 DEF Last
  <1>6. ASSUME NEW j, Last(r, j)' PROVE j = n + 1
    <2>1. n + 1 \in Nat
      BY <1>1
    <2> HIDE DEF e
    <2>2. Installs(observations', r, n + 1, j) /\ Installs(observations', r, n + 1, n + 1)
      BY <1>2, <1>5, <1>6 DEF Last
    <2> QED
      BY <2>1, <2>2, InstallsOnce
  <1>7. \A q, j : Last(q, j) => j \in 1 .. n
    BY <1>0 DEF Last, Installs
  <1> DEFINE new == <<s, r, registration>>
  <1>8. new[2] = r /\ new[3] = registration
    OBVIOUS
  <1>9. \A o \in kept : o[3] < registration /\ o[3] \in Nat /\ o \in owned
    BY DEF InOrder, Custody, OwnershipTypes
  <1>10. observations' \in Seq(Observed) /\ IsFiniteSet(owned')
    <2>1. IsFiniteSet(kept)
      BY FS_Subset DEF InOrder
    <2>2. owned' = kept \cup {new}
      OBVIOUS
    <2> HIDE DEF new
    <2>3. IsFiniteSet(kept \cup {new})
      BY <2>1, FS_AddElement
    <2> QED
      BY <1>2, <2>2, <2>3 DEF Grows
  <1> HIDE DEF e, new
  <1>11. \A o \in owned' : o = new \/ o \in kept
    BY DEF new
  <1>12. ASSUME NEW o \in owned'
         PROVE  o[3] < registration' /\ \E j \in 1 .. Len(observations') : Last(o[2], j)'
    <2>1. CASE o = new
      <3>1. n + 1 \in 1 .. Len(observations')
        BY <1>1, <1>2
      <3>2. registration < registration + 1
        BY <1>1
      <3>3. o[2] = r /\ o[3] < registration'
        BY <1>8, <2>1, <3>2
      <3>4. Last(o[2], n + 1)'
        BY <1>5, <3>3
      <3> QED
        BY <3>1, <3>3, <3>4
    <2>2. CASE o \in kept
      <3>1. PICK j \in 1 .. n : Last(o[2], j)
        BY <1>0, <1>9, <2>2 DEF InOrder
      <3>2. Last(o[2], j)' /\ j \in 1 .. Len(observations')
        BY <1>1, <1>2, <1>4, <2>2, <3>1
      <3> QED
        BY <1>1, <1>9, <2>2, <3>2
    <2> QED
      BY <1>11, <1>12, <2>1, <2>2
  <1>13. \A o, p \in owned' : o[3] = p[3] => o = p
    <2>1. \A o \in kept : o[3] # new[3]
      BY <1>1, <1>8, <1>9
    <2>2. \A o, p \in kept : o[3] = p[3] => o = p
      BY DEF InOrder
    <2> QED
      BY <1>11, <2>1, <2>2
  <1>14. ASSUME NEW o \in owned', NEW p \in owned', o[3] > p[3], NEW i, NEW j, Last(o[2], i)', Last(p[2], j)'
         PROVE  i > j
    <2>1. CASE p = new
      <3>1. CASE o = new
        BY <1>1, <1>8, <1>14, <2>1, <3>1
      <3>2. CASE o \in kept
        BY <1>1, <1>8, <1>9, <1>14, <2>1, <3>2
      <3> QED
        BY <1>11, <1>14, <3>1, <3>2
    <2>2. CASE p \in kept /\ o = new
      <3>1. i = n + 1
        BY <1>6, <1>8, <1>14, <2>2
      <3>2. j \in 1 .. n
        BY <1>4, <1>7, <1>14, <2>2
      <3> QED
        BY <1>1, <3>1, <3>2
    <2>3. CASE p \in kept /\ o \in kept
      <3>1. Last(o[2], i) /\ Last(p[2], j)
        BY <1>4, <1>14, <2>3
      <3>2. i \in 1 .. Len(observations) /\ j \in 1 .. Len(observations)
        BY <1>0, <1>7, <3>1
      <3> QED
        BY <1>9, <1>14, <2>3, <3>1, <3>2 DEF InOrder
    <2> QED
      BY <1>11, <1>14, <2>1, <2>2, <2>3
  <1>15. InOrder'
    BY <1>10, <1>12, <1>13, <1>14 DEF InOrder
  <1>16. \A k \in Len(observations) + 1 .. Len(observations') : observations'[k].tag # "exited"
    BY <1>0, <1>1, <1>2, <1>3 DEF Ending, e
  <1> QED
    BY <1>2, <1>15, <1>16

(* An exit finalizes all it owns at once: its entries come after those of any *)
(* scope below it, and before none of theirs.                                 *)
LEMMA ExitUndoes ==
    ASSUME Custody, InOrder, Nested, Undone, NEW s \in Scopes, ExitScope(s)
    PROVE  InOrder' /\ Undone'
  <1> DEFINE order == CleanupOrder(s)
             entries == [i \in DOMAIN order |-> [tag |-> "exited", resource |-> order[i], scope |-> s]]
  <1>0. PICK n \in Nat, c \in Nat : n = Len(observations) /\ c = Cardinality(OwnedBy(s))
    BY ExitOrder DEF InOrder
  <1>1. /\ state[s] = "open" /\ state' = [state EXCEPT ![s] = "closed"] /\ above' = above
        /\ owned' \subseteq owned /\ registration' = registration
        /\ observations' = observations \o entries
    BY DEF ExitScope, Finalize, IsOpen
  <1>2. OwnedBy(s) \subseteq Resources
    BY DEF OwnedBy, Custody, OwnershipTypes
  <1>3. order \in [1 .. c -> OwnedBy(s)]
    BY <1>0, ExitOrder
  <1>4. /\ entries \in Seq(Observed) /\ Len(entries) = c
        /\ \A k \in 1 .. c : entries[k].tag = "exited" /\ entries[k].resource = order[k] /\ entries[k].scope = s
    <2> HIDE DEF order
    <2>1. DOMAIN order = 1 .. c /\ \A k \in 1 .. c : order[k] \in Resources
      BY <1>2, <1>3
    <2>2. entries \in [1 .. c -> Observed]
      BY <2>1 DEF Observed
    <2>3. entries \in Seq(Observed) /\ DOMAIN entries = 1 .. c
      BY <1>0, <2>2
    <2> QED
      BY <1>0, <2>1, <2>3
  <1> HIDE DEF order, entries
  <1>5. observations \in Seq(Observed)
    BY DEF InOrder
  <1>6. /\ Grows(observations, observations') /\ Len(observations') = n + c
        /\ \A k \in 1 .. c : observations'[n + k] = entries[k]
    <2>1. /\ Grows(observations, observations \o entries)
          /\ Len(observations \o entries) = Len(observations) + Len(entries)
          /\ \A k \in 1 .. Len(entries) : (observations \o entries)[Len(observations) + k] = entries[k]
      BY <1>4, <1>5, Appended, Zenon
    <2> QED
      BY <1>0, <1>1, <1>4, <2>1
  <1>7. ASSUME NEW i \in n + 1 .. n + c
        PROVE  /\ observations'[i].tag = "exited" /\ observations'[i].scope = s
               /\ i - n \in 1 .. c /\ observations'[i].resource = order[i - n]
    <2>1. i - n \in 1 .. c /\ i = n + (i - n)
      BY <1>0
    <2> QED
      BY <1>4, <1>6, <2>1
  <1>8. InOrder'
    <2>1. \A k \in Len(observations) + 1 .. Len(observations') : observations'[k].tag \in Ending
      BY <1>0, <1>6, <1>7 DEF Ending
    <2> QED
      BY <1>1, <1>6, <2>1, OrderStays
  <1>9. ASSUME NEW i \in n + 1 .. n + c
        PROVE  \A a : InstalledAt(i, a)' <=> Last(order[i - n], a)
    <2>1. i \in Len(observations) .. Len(observations')
      BY <1>0, <1>6
    <2>2. \A k \in Len(observations) + 1 .. i : observations'[k].tag \in Ending
      <3>1. \A k \in Len(observations) + 1 .. i : k \in n + 1 .. n + c
        BY <1>0
      <3> QED
        BY <1>7, <3>1 DEF Ending
    <2>3. \A a : Last(order[i - n], a) <=> Installs(observations', order[i - n], i, a)
      BY <1>6, <2>1, <2>2, LastStays DEF Last
    <2> QED
      BY <1>7, <2>3 DEF InstalledAt
  <1>10. ASSUME NEW i \in Exits'
         PROVE  \/ /\ i \in Exits /\ i \in 1 .. n /\ OfScope(i) \in Scopes /\ OfScope(i)' = OfScope(i)
                   /\ \A a : InstalledAt(i, a)' <=> InstalledAt(i, a)
                \/ i \in n + 1 .. n + c /\ OfScope(i)' = s
    <2>1. i \in 1 .. n + c /\ observations'[i].tag = "exited"
      BY <1>6, <1>10 DEF Exits
    <2>2. CASE i \in 1 .. n
      <3>1. observations[i] \in Observed /\ observations'[i] = observations[i]
        BY <1>0, <1>6, <2>2 DEF Grows
      <3> QED
        BY <1>0, <1>6, <2>1, <2>2, <3>1, PastStays DEF Exits, OfScope, Observed
    <2>3. CASE i \in n + 1 .. n + c
      BY <1>7, <2>3 DEF OfScope
    <2> QED
      BY <1>0, <2>1, <2>2, <2>3
  <1>11. ASSUME NEW r \in OwnedBy(s)
         PROVE  \E o \in owned : o[1] = s /\ o[2] = r /\ o[3] = RegisteredAt(s, r)
    BY <1>11, ExitOrder
  <1>12. ASSUME NEW i \in Exits'
         PROVE  state'[OfScope(i)'] = "closed" /\ \E a \in 1 .. i : InstalledAt(i, a)'
    <2>1. CASE i \in Exits /\ OfScope(i) \in Scopes /\ OfScope(i)' = OfScope(i) /\ \A a : InstalledAt(i, a)' <=> InstalledAt(i, a)
      <3>1. state[OfScope(i)] = "closed" /\ \E a \in 1 .. i : InstalledAt(i, a)
        BY <2>1 DEF Undone
      <3> QED
        BY <1>1, <2>1, <3>1 DEF Custody, OwnershipTypes
    <2>2. CASE i \in n + 1 .. n + c /\ OfScope(i)' = s
      <3>1. order[i - n] \in OwnedBy(s)
        BY <1>3, <1>7, <2>2
      <3>2. PICK a \in 1 .. n : Last(order[i - n], a)
        BY <1>0, <1>11, <3>1 DEF InOrder
      <3>3. a \in 1 .. i /\ InstalledAt(i, a)'
        BY <1>0, <1>9, <2>2, <3>2
      <3>4. state'[s] = "closed"
        BY <1>1 DEF Custody, OwnershipTypes
      <3> QED
        BY <2>2, <3>3, <3>4
    <2> QED
      BY <1>10, <1>12, <2>1, <2>2
  <1>13. ASSUME NEW i \in Exits', NEW j \in Exits', i < j
         PROVE  /\ OfScope(i)' \notin above'[OfScope(j)']
                /\ OfScope(i)' = OfScope(j)' =>
                      \A a \in 1 .. i, b \in 1 .. j : InstalledAt(i, a)' /\ InstalledAt(j, b)' => a > b
    <2> DEFINE Past(k) == /\ k \in Exits /\ k \in 1 .. n /\ OfScope(k) \in Scopes /\ OfScope(k)' = OfScope(k)
                          /\ \A a : InstalledAt(k, a)' <=> InstalledAt(k, a)
               New(k) == k \in n + 1 .. n + c /\ OfScope(k)' = s
    <2>1. (Past(i) \/ New(i)) /\ (Past(j) \/ New(j))
      BY <1>10, <1>13
    <2>2. CASE Past(i) /\ Past(j)
      <3>1. /\ OfScope(i) \notin above[OfScope(j)]
            /\ OfScope(i) = OfScope(j) =>
                  \A a \in 1 .. i, b \in 1 .. j : InstalledAt(i, a) /\ InstalledAt(j, b) => a > b
        BY <1>13, <2>2 DEF Undone
      <3> QED
        BY <1>1, <2>2, <3>1
    <2>3. CASE Past(i) /\ New(j)
      <3>1. state[OfScope(i)] = "closed"
        BY <2>3 DEF Undone
      <3>2. OfScope(i) \notin above[s]
        BY <1>1, <2>3, <3>1 DEF Custody, ClosedScopesAreDone, IsOpen
      <3>3. OfScope(i) # s
        BY <1>1, <3>1
      <3> QED
        BY <1>1, <2>3, <3>2, <3>3
    <2>4. CASE New(i) /\ New(j)
      <3>1. s \notin above[s]
        BY DEF Nested
      <3>2. ASSUME NEW a \in 1 .. i, NEW b \in 1 .. j, InstalledAt(i, a)', InstalledAt(j, b)' PROVE a > b
        <4>1. Last(order[i - n], a) /\ Last(order[j - n], b)
          BY <1>9, <2>4, <3>2
        <4>2. i - n \in 1 .. c /\ j - n \in 1 .. c /\ i - n < j - n
          BY <1>0, <1>13, <2>4
        <4>3. RegisteredAt(s, order[i - n]) > RegisteredAt(s, order[j - n])
          BY <1>0, <4>2, ExitOrder DEF order
        <4>4. PICK o \in owned : o[2] = order[i - n] /\ o[3] = RegisteredAt(s, order[i - n])
          BY <1>3, <1>11, <4>2
        <4>5. PICK p \in owned : p[2] = order[j - n] /\ p[3] = RegisteredAt(s, order[j - n])
          BY <1>3, <1>11, <4>2
        <4>6. a \in 1 .. Len(observations) /\ b \in 1 .. Len(observations)
          BY <4>1 DEF Last, Installs
        <4> QED
          BY <4>1, <4>3, <4>4, <4>5, <4>6 DEF InOrder
      <3> QED
        BY <1>1, <2>4, <3>1, <3>2
    <2>5. ~(New(i) /\ Past(j))
      BY <1>0, <1>13
    <2> HIDE DEF Past, New
    <2> QED
      BY <2>1, <2>2, <2>3, <2>4, <2>5
  <1>14. Undone'
    BY <1>12, <1>13 DEF Undone
  <1> QED
    BY <1>8, <1>14

Unwinding == Custody /\ InOrder /\ Nested /\ Undone

LEMMA UnwindingInit == Init => Unwinding
  <1> SUFFICES ASSUME Init PROVE Unwinding
    OBVIOUS
  <1>1. Custody
    BY CustodyInit
  <1>2. observations = <<>> /\ owned = {} /\ Len(observations) = 0
    BY DEF Init
  <1>3. InOrder
    BY <1>2, FS_EmptySet DEF InOrder
  <1>4. Nested
    BY DEF Init, Nested
  <1>5. Undone
    <2>1. Exits = {}
      BY <1>2 DEF Exits
    <2> QED
      BY <2>1 DEF Undone
  <1> QED
    BY <1>1, <1>3, <1>4, <1>5 DEF Unwinding

(* Only opening adds to the tree, and what it adds was never opened before.   *)
LEMMA NestedStep == ASSUME Custody, Nested, Next PROVE Nested'
  <1>1. ASSUME NEW s \in Scopes, NEW p \in Scopes, OpenScope(s, p) PROVE Nested'
    <2>1. /\ state[s] = "unopened" /\ state[p] = "open"
          /\ state' = [state EXCEPT ![s] = "open"]
          /\ above' = [above EXCEPT ![s] = above[p] \cup {p}]
      BY <1>1 DEF OpenScope, CanOpen, IsOpen
    <2>2. state' \in [Scopes -> {"unopened", "open", "closed"}] /\ above \in [Scopes -> SUBSET Scopes]
      BY <2>1 DEF Custody, OwnershipTypes
    <2>3. \A t \in Scopes : state[t] # "unopened" => state'[t] # "unopened"
      BY <2>1 DEF Custody, OwnershipTypes
    <2>4. ASSUME NEW u \in Scopes
          PROVE  u \notin above'[u] /\ \A t \in above'[u] : state'[t] # "unopened"
      <3>1. CASE u = s
        <4>1. above'[u] = above[p] \cup {p}
          BY <2>1, <2>2, <3>1
        <4>2. \A t \in above[p] \cup {p} : t \in Scopes /\ state[t] # "unopened"
          BY <2>1, <2>2 DEF Nested
        <4> QED
          BY <2>1, <2>3, <3>1, <4>1, <4>2
      <3>2. CASE u # s
        <4>1. above'[u] = above[u] /\ \A t \in above[u] : t \in Scopes
          BY <2>1, <2>2, <3>2
        <4> QED
          BY <2>3, <4>1 DEF Nested
      <3> QED
        BY <3>1, <3>2
    <2> QED
      BY <2>4 DEF Nested
  <1>2. ASSUME NEW s \in Scopes, ExitScope(s) PROVE Nested'
    <2>1. state' = [state EXCEPT ![s] = "closed"] /\ above' = above
      BY <1>2 DEF ExitScope
    <2>2. \A t \in Scopes : state[t] # "unopened" => state'[t] # "unopened"
      BY <2>1 DEF Custody, OwnershipTypes
    <2> QED
      BY <2>1, <2>2 DEF Nested, Custody, OwnershipTypes
  <1>3. ASSUME UNCHANGED <<state, above>> PROVE Nested'
    BY <1>3 DEF Nested
  <1> QED
    BY <1>1, <1>2, <1>3 DEF Next, FailToAcquire, Acquire, Release, Transfer, ExitBlocked, Reject

LEMMA UnwindingStep == Unwinding /\ [Next]_vars => Unwinding'
  <1> SUFFICES ASSUME Unwinding, [Next]_vars PROVE Unwinding'
    OBVIOUS
  <1> USE DEF Unwinding
  <1>1. Custody'
    BY CustodyStep
  <1>2. Nested'
    <2>1. CASE Next
      BY <2>1, NestedStep
    <2>2. CASE UNCHANGED vars
      BY <2>2 DEF vars, Nested
    <2> QED
      BY <2>1, <2>2
  <1>3. observations \in Seq(Observed) /\ Len(observations) \in Nat
    BY DEF InOrder
  <1>4. \A s \in Scopes : UNCHANGED <<state, above>> => (state[s] = "closed" => state'[s] = "closed" /\ above'[s] = above[s])
    OBVIOUS
  <1>5. ASSUME UNCHANGED <<owned, registration, observations>>,
               \A s \in Scopes : state[s] = "closed" => state'[s] = "closed" /\ above'[s] = above[s]
        PROVE  InOrder' /\ Undone'
    <2>1. Grows(observations, observations') /\ Len(observations) + 1 .. Len(observations') = {}
      BY <1>3, <1>5 DEF Grows
    <2> QED
      BY <1>5, <2>1, OrderStays, UndoneStays
  <1>6. ASSUME NEW s \in Scopes, NEW p \in Scopes, OpenScope(s, p) PROVE InOrder' /\ Undone'
    <2>1. /\ state[s] = "unopened" /\ state' = [state EXCEPT ![s] = "open"]
          /\ above' = [above EXCEPT ![s] = above[p] \cup {p}] /\ UNCHANGED <<owned, registration, observations>>
      BY <1>6 DEF OpenScope, CanOpen
    <2>2. \A t \in Scopes : state[t] = "closed" => state'[t] = "closed" /\ above'[t] = above[t]
      BY <2>1 DEF Custody, OwnershipTypes
    <2> QED
      BY <1>5, <2>1, <2>2
  <1>7. ASSUME NEW a \in Attempts, NEW s \in Scopes, NEW r \in Resources,
               NEW o \in {"succeeded", "failed"}, Acquire(a, s, r, o)
        PROVE  InOrder' /\ Undone'
    <2>1. /\ cleanup[r] = "absent" /\ Observe("acquired", r, s)
          /\ owned' = owned \cup {<<s, r, registration>>} /\ registration' = registration + 1
          /\ UNCHANGED <<state, above>>
      BY <1>7 DEF Acquire, CanAcquire
    <2>2. \A q \in owned : q[2] # r
      BY <2>1 DEF Custody, SingularOwnership, Registrations
    <2>3. /\ InOrder' /\ Grows(observations, observations')
          /\ \A k \in Len(observations) + 1 .. Len(observations') : observations'[k].tag # "exited"
      BY <2>1, <2>2, InstallOrder
    <2> QED
      BY <1>4, <2>1, <2>3, UndoneStays
  <1>8. ASSUME NEW r \in Resources, NEW from \in Scopes, NEW to \in Scopes, Transfer(r, from, to)
        PROVE  InOrder' /\ Undone'
    <2> DEFINE kept == {o \in owned : ~(o[1] = from /\ o[2] = r)}
    <2>1. /\ cleanup[r] = "pending" /\ owner[r] = from /\ Observe("transferred", r, to)
          /\ owned' = kept \cup {<<to, r, registration>>} /\ registration' = registration + 1
          /\ UNCHANGED <<state, above>>
      BY <1>8 DEF Transfer, CanTransfer
    <2>2. PICK n \in 0 .. registration : Registrations(r) = {<<from, r, n>>}
      BY <2>1 DEF Custody, SingularOwnership
    <2>3. kept \in SUBSET owned /\ \A o \in kept : o[2] # r
      BY <2>2 DEF Registrations
    <2> HIDE DEF kept
    <2>4. /\ InOrder' /\ Grows(observations, observations')
          /\ \A k \in Len(observations) + 1 .. Len(observations') : observations'[k].tag # "exited"
      BY <2>1, <2>3, InstallOrder
    <2> QED
      BY <1>4, <2>1, <2>4, UndoneStays
  <1>9. ASSUME NEW r \in Resources, NEW s \in Scopes, Release(r, s) PROVE InOrder' /\ Undone'
    <2> DEFINE e == [tag |-> "released", resource |-> r, scope |-> s]
    <2>1. /\ observations' = Append(observations, e) /\ owned' \subseteq owned
          /\ UNCHANGED <<state, above, registration>>
      BY <1>9 DEF Release, Observe, Finalize
    <2>2. e \in Observed /\ e.tag = "released"
      BY DEF Observed
    <2> HIDE DEF e
    <2>3. /\ Grows(observations, observations')
          /\ \A k \in Len(observations) + 1 .. Len(observations') : observations'[k] = e
      BY <1>3, <2>1, <2>2 DEF Grows
    <2>4. InOrder'
      BY <2>1, <2>2, <2>3, OrderStays DEF Ending
    <2>5. Undone'
      BY <1>4, <2>1, <2>2, <2>3, UndoneStays
    <2> QED
      BY <2>4, <2>5
  <1>10. ASSUME NEW s \in Scopes, ExitScope(s) PROVE InOrder' /\ Undone'
    BY <1>10, ExitUndoes
  <1>11. ASSUME \/ \E a \in Attempts, s \in Scopes : FailToAcquire(a, s)
                \/ \E s \in Scopes : ExitBlocked(s)
                \/ Reject
                \/ UNCHANGED vars
         PROVE  InOrder' /\ Undone'
    <2>1. UNCHANGED <<state, above, owned, registration, observations>>
      BY <1>11 DEF FailToAcquire, ExitBlocked, Reject, vars
    <2> QED
      BY <1>4, <1>5, <2>1
  <1>12. InOrder' /\ Undone'
    BY <1>6, <1>7, <1>8, <1>9, <1>10, <1>11 DEF Next
  <1> QED
    BY <1>1, <1>2, <1>12

(* Of two resources a scope's exit finalizes the one installed last goes      *)
(* first, and a scope is finalized only after those below it.                 *)
THEOREM ReverseInstallationHolds == Spec => []ReverseInstallation
  <1>1. Unwinding => ReverseInstallation
    <2> SUFFICES ASSUME Unwinding, NEW i \in Finalizations, NEW j \in Finalizations, i < j,
                        observations[i].tag = "exited", observations[j].tag = "exited"
                 PROVE  /\ observations[i].scope = observations[j].scope
                              => LastInstalled(observations[i].resource, i) > LastInstalled(observations[j].resource, j)
                        /\ observations[i].scope \notin above[observations[j].scope]
      BY DEF ReverseInstallation
    <2>1. i \in Exits /\ j \in Exits /\ i \in Nat /\ j \in Nat
      BY DEF Finalizations, Exits, Unwinding, InOrder
    <2>2. ASSUME NEW k \in Exits
          PROVE  /\ LastInstalled(observations[k].resource, k) \in 1 .. k
                 /\ InstalledAt(k, LastInstalled(observations[k].resource, k))
      <3> DEFINE r == observations[k].resource
                 P(a) == /\ observations[a].resource = r /\ a \notin Finalizations
                         /\ \A b \in a + 1 .. k : observations[b].resource = r => b \in Finalizations
      <3>1. k \in 1 .. Len(observations) /\ Len(observations) \in Nat
        BY <2>2 DEF Exits, Unwinding, InOrder
      <3>2. \A a \in 1 .. k : a \in Finalizations <=> observations[a].tag \in Ending
        BY <3>1 DEF Finalizations, Ending, Unwinding, InOrder
      <3>3. \A a \in 1 .. k : \A b \in a + 1 .. k : b \in 1 .. k
        BY <3>1
      <3>4. \A a \in 1 .. k : P(a) <=> Installs(observations, r, k, a)
        BY <3>2, <3>3 DEF Installs
      <3>5. \E a \in 1 .. k : P(a)
        BY <2>2, <3>4 DEF Unwinding, Undone, InstalledAt
      <3>6. LastInstalled(r, k) = CHOOSE a \in 1 .. k : P(a)
        BY DEF LastInstalled
      <3> HIDE DEF P
      <3>7. LastInstalled(r, k) \in 1 .. k /\ P(LastInstalled(r, k))
        BY <3>5, <3>6
      <3> QED
        BY <3>4, <3>7 DEF InstalledAt
    <2> QED
      BY <2>1, <2>2 DEF Unwinding, Undone, OfScope
  <1>2. Spec => []Unwinding
    BY UnwindingInit, UnwindingStep, PTL DEF Spec
  <1> QED
    BY <1>1, <1>2, PTL
=============================================================================
