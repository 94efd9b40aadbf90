--------------------------- MODULE ReferenceProofs ---------------------------
(* Proofs about reference custody for any sources, versions, processes and    *)
(* bounds. Part 1, the transaction of a remote lock (ReferenceCustody): at    *)
(* every step, whatever fails, what the lock file names is recoverable, and a *)
(* transaction that has ended has done all of its work or none. Part 2, the   *)
(* commands beside each other (ReferenceCheckouts): what a status reports was *)
(* so, what a lock promises can be replayed from its cache or the backup of   *)
(* it through every step of a publication, and no command changes a checkout  *)
(* that is there.                                                             *)
EXTENDS ReferenceCustody, ReferenceCheckouts, SequenceTheorems, FiniteSetTheorems, WellFoundedInduction, TLAPS

RangeOf(q) == {q[i] : i \in 1 .. Len(q)}
Once(q) == \A i, j \in 1 .. Len(q) : q[i][1] = q[j][1] => i = j

(* Sequences of <<source, displaced>> seen as sets of entries.                *)
LEMMA AppendedRange ==
    ASSUME NEW q \in Seq(Sources \X BOOLEAN), NEW e \in Sources \X BOOLEAN
    PROVE  /\ RangeOf(Append(q, e)) = RangeOf(q) \cup {e}
           /\ Once(q) /\ (\A d \in RangeOf(q) : d[1] # e[1]) => Once(Append(q, e))
           /\ Append(q, e) \in Seq(Sources \X BOOLEAN)
           /\ Append(q, e) # <<>> /\ Append(q, e)[Len(Append(q, e))] = e
<1> DEFINE a == Append(q, e)
<1>1. /\ Len(a) = Len(q) + 1 /\ Len(q) \in Nat
      /\ \A i \in 1 .. Len(q) : a[i] = q[i]
      /\ a[Len(q) + 1] = e
      /\ a \in Seq(Sources \X BOOLEAN)
      OBVIOUS
<1> HIDE DEF a
<1>d. 1 .. (Len(q) + 1) = (1 .. Len(q)) \cup {Len(q) + 1} /\ Len(q) + 1 \notin 1 .. Len(q)  BY <1>1
<1>2. RangeOf(a) = RangeOf(q) \cup {e}
      BY <1>1, <1>d DEF RangeOf
<1>3. ASSUME Once(q), \A d \in RangeOf(q) : d[1] # e[1] PROVE Once(a)
  <2>1. \A i \in 1 .. Len(q) : q[i][1] # e[1]  BY <1>3 DEF RangeOf
  <2>2. \A i, j \in 1 .. Len(q) : a[i][1] = a[j][1] => i = j
        BY <1>1, <1>3 DEF Once
  <2>3. \A i \in 1 .. Len(q) : a[i][1] # a[Len(q) + 1][1]
        BY <1>1, <2>1
  <2>4. \A i, j \in (1 .. Len(q)) \cup {Len(q) + 1} : a[i][1] = a[j][1] => i = j
        BY <2>2, <2>3
  <2> QED  BY <1>1, <1>d, <2>4 DEF Once
<1>4. a # <<>>
  <2>1. Len(a) # 0  BY <1>1
  <2> QED  BY <2>1
<1>5. a[Len(a)] = e  BY <1>1
<1> QED  BY <1>1, <1>2, <1>3, <1>4, <1>5 DEF a

LEMMA FrontRange ==
    ASSUME NEW q \in Seq(Sources \X BOOLEAN), q # <<>>
    PROVE  /\ SubSeq(q, 1, Len(q) - 1) \in Seq(Sources \X BOOLEAN)
           /\ q[Len(q)] \in RangeOf(q)
           /\ RangeOf(SubSeq(q, 1, Len(q) - 1)) \subseteq RangeOf(q)
           /\ \A d \in RangeOf(q) : d = q[Len(q)] \/ d \in RangeOf(SubSeq(q, 1, Len(q) - 1))
           /\ Once(q) => /\ Once(SubSeq(q, 1, Len(q) - 1))
                         /\ \A d \in RangeOf(SubSeq(q, 1, Len(q) - 1)) : d[1] # q[Len(q)][1]
<1> DEFINE f == SubSeq(q, 1, Len(q) - 1)
<1>1. Len(q) \in Nat /\ Len(q) > 0  OBVIOUS
<1>2. Len(f) = Len(q) - 1 /\ \A i \in 1 .. Len(q) - 1 : f[i] = q[i]
  <2>1. /\ Len(q) - 1 \in Nat /\ Len(q) - 1 + 0 = Len(q) - 1
        /\ \A i \in 1 .. Len(q) - 1 : q[i] \in Sources \X BOOLEAN
        BY <1>1
  <2>2. /\ Len(f) = IF 1 <= Len(q) - 1 THEN Len(q) - 1 - 1 + 1 ELSE 0
        /\ \A i \in 1 .. Len(q) - 1 - 1 + 1 : f[i] = q[1 + i - 1]
        BY <2>1, SubSeqProperties
  <2>3. Len(f) = Len(q) - 1  BY <2>1, <2>2
  <2>4. \A i \in 1 .. Len(q) - 1 : f[i] = q[i]
    <3>1. \A i \in 1 .. Len(q) - 1 : i \in 1 .. Len(q) - 1 - 1 + 1 /\ 1 + i - 1 = i  BY <1>1
    <3> QED  BY <2>2, <3>1
  <2> QED  BY <2>3, <2>4
<1>3. f \in Seq(Sources \X BOOLEAN)
  <2>1. Len(q) - 1 \in Int /\ \A i \in 1 .. Len(q) - 1 : q[i] \in Sources \X BOOLEAN
        BY <1>1
  <2> QED  BY <2>1, SubSeqProperties
<1> HIDE DEF f
<1>4. RangeOf(f) \subseteq RangeOf(q) /\ q[Len(q)] \in RangeOf(q)
  <2>1. 1 .. Len(q) - 1 \subseteq 1 .. Len(q) /\ Len(q) \in 1 .. Len(q)  BY <1>1
  <2> QED  BY <1>2, <2>1, Zenon DEF RangeOf
<1>5. \A d \in RangeOf(q) : d = q[Len(q)] \/ d \in RangeOf(f)
  <2>1. \A i \in 1 .. Len(q) : i = Len(q) \/ i \in 1 .. Len(q) - 1  BY <1>1
  <2> QED  BY <1>2, <2>1, Zenon DEF RangeOf
<1>6. ASSUME Once(q) PROVE Once(f) /\ \A d \in RangeOf(f) : d[1] # q[Len(q)][1]
      BY <1>1, <1>2, <1>6 DEF Once, RangeOf
<1> QED  BY <1>3, <1>4, <1>5, <1>6 DEF f

LEMMA TailRange ==
    ASSUME NEW q \in Seq(Sources \X BOOLEAN), q # <<>>
    PROVE  /\ Tail(q) \in Seq(Sources \X BOOLEAN) /\ RangeOf(Tail(q)) \subseteq RangeOf(q)
           /\ Head(q) \in RangeOf(q)
<1>1. Len(Tail(q)) = Len(q) - 1 /\ \A i \in 1 .. Len(Tail(q)) : Tail(q)[i] = q[i + 1]  OBVIOUS
<1>2. Len(q) \in Nat /\ Len(q) > 0 /\ Head(q) = q[1] /\ Tail(q) \in Seq(Sources \X BOOLEAN)  OBVIOUS
<1> QED  BY <1>1, <1>2 DEF RangeOf

(* The next source is one that is left to do: the order has a first place     *)
(* with such a source, as the places are natural numbers.                     *)
LEMMA FirstIsLeft == ASSUME NEW S \in SUBSET Sources, S # {} PROVE First(S) \in S
<1> DEFINE Places == {i \in DOMAIN Order : Order[i] \in S}
           R == OpToRel(<, Nat)
<1>1. Order \in Seq(Sources) /\ DOMAIN Order = 1 .. Len(Order) /\ Len(Order) \in Nat
      BY OrderListsSources
<1>2. Places # {} /\ Places \subseteq Nat  BY <1>1, OrderListsSources
<1>3. IsWellFoundedOn(R, Nat)  BY NatLessThanWellFounded
<1>4. \A a, b \in Nat : <<a, b>> \in R <=> a < b  BY DEF OpToRel
<1> HIDE DEF R, Places
<1>5. PICK n \in Places : \A m \in Places : ~(<<m, n>> \in R)
      BY <1>2, <1>3, WFMin, Zenon
<1>6. n \in DOMAIN Order /\ Order[n] \in S /\ \A j \in 1 .. n - 1 : Order[j] \notin S
  <2>1. n \in 1 .. Len(Order) /\ Order[n] \in S  BY <1>1, <1>5 DEF Places
  <2>2. ASSUME NEW j \in 1 .. n - 1, Order[j] \in S PROVE FALSE
    <3>1. j \in Places /\ j \in Nat /\ n \in Nat /\ j < n  BY <1>1, <2>1, <2>2 DEF Places
    <3> QED  BY <1>4, <1>5, <3>1
  <2> QED  BY <1>1, <2>1, <2>2
<1>7. Earliest(S) \in DOMAIN Order /\ Order[Earliest(S)] \in S
      BY <1>6, Zenon DEF Earliest
<1> QED  BY <1>7 DEF First

(* Types of the whole state, and the curator lock's promise.                  *)
Kept == Contents \cup {Damaged}
Disk == [lock: [Sources -> Contents], cache: [Sources -> Kept], backup: [Sources -> Kept]]
DiskTypes ==
    /\ lock \in [Sources -> Contents]
    /\ cache \in [Sources -> Kept] /\ backup \in [Sources -> Kept]
StepTypes ==
    /\ at \in [Processes -> Steps]
    /\ outcome \in [Processes -> {"none", "committed", "failed", "unrestored", "lost"}]
    /\ holder \in Processes \cup {Nobody, Orphan}
    /\ spent \in [transactions: Nat, crashes: Nat, losses: Nat]
    /\ overlapped \in BOOLEAN
WorkTypes ==
    /\ read \in [Processes -> [Sources -> Contents]]
    /\ staged \in [Processes -> [Sources -> Contents]]
    /\ todo \in [Processes -> SUBSET Sources]
    /\ installed \in [Processes -> Seq(Sources \X BOOLEAN)]
    /\ clean \in [Processes -> BOOLEAN]
    /\ before \in [Processes -> Disk]
UnderWay ==
    \A p \in Processes :
        /\ at[p] = "installing" => todo[p] # {}
        /\ at[p] = "restoring" => installed[p] # <<>>
Promise == spent.losses = 0 => \A p \in Processes : at[p] # "idle" => holder = p
Types == DiskTypes /\ StepTypes /\ WorkTypes /\ UnderWay /\ Promise

LEMMA Marks ==
    /\ Nothing \in [Sources -> Contents] /\ Nothing \in [Sources -> Kept]
    /\ [lock |-> Nothing, cache |-> Nothing, backup |-> Nothing] \in Disk
    /\ Absent \in Contents /\ Absent \in Kept /\ Damaged \in Kept /\ Contents \subseteq Kept
    /\ <<>> \in Seq(Sources \X BOOLEAN)
BY DEF Nothing, Contents, Kept, Disk

LEMMA TypesInit == Init => Types
<1> SUFFICES ASSUME Init PROVE Types
    OBVIOUS
<1>1. Now \in Disk  BY Marks DEF Init, Now, Disk
<1>2. DiskTypes /\ UnderWay /\ Promise  BY Marks DEF Init, DiskTypes, UnderWay, Promise
<1>3. StepTypes  BY DEF Init, StepTypes, Steps
<1>4. WorkTypes  BY <1>1, Marks DEF Init, WorkTypes
<1> QED  BY <1>2, <1>3, <1>4 DEF Types

(* What each kind of step leaves alone, by parts of the invariant.            *)
LEMMA NothingTouched ==
    /\ DiskTypes /\ UNCHANGED disk => DiskTypes'
    /\ WorkTypes /\ UNCHANGED <<read, staged, todo, installed, clean, before>> => WorkTypes'
    /\ StepTypes /\ UNCHANGED <<at, outcome, holder, spent, overlapped>> => StepTypes'
BY DEF DiskTypes, WorkTypes, StepTypes, disk

LEMMA PromiseKept ==
    ASSUME StepTypes, Promise, UNCHANGED holder, UNCHANGED spent, NEW p \in Processes,
           at[p] # "idle", \A q \in Processes \ {p} : at'[q] = at[q]
    PROVE  Promise'
BY DEF StepTypes, Promise

LEMMA TypesStep == Types /\ [Next]_vars => Types'
<1> SUFFICES ASSUME Types, [Next]_vars PROVE Types'
    OBVIOUS
<1>0. DiskTypes /\ StepTypes /\ WorkTypes /\ UnderWay /\ Promise  BY DEF Types
<1>a. Now \in Disk  BY <1>0 DEF DiskTypes, Now, Disk
<1> USE <1>0, <1>a, Marks DEF Move, disk, own
<1>1. ASSUME NEW p \in Processes, Acquire(p) PROVE Types'
  <2>1. DiskTypes' BY <1>1, NothingTouched DEF Acquire
  <2>2. StepTypes'  BY <1>1 DEF Acquire, StepTypes, Steps
  <2>3. WorkTypes'  BY <1>1 DEF Acquire, WorkTypes, DiskTypes
  <2>4. UnderWay'  BY <1>1 DEF Acquire, UnderWay, StepTypes, WorkTypes
  <2>5. Promise'
    <3>1. spent'.losses = spent.losses  BY <1>1 DEF Acquire, StepTypes
    <3>2. holder = Nobody /\ \A q \in Processes : holder # q
          BY <1>1, HoldersAreProcesses DEF Acquire, MayAcquire
    <3>3. /\ holder' = p /\ at' = [at EXCEPT ![p] = "fetching"]
          BY <1>1 DEF Acquire
    <3> QED  BY <3>1, <3>2, <3>3 DEF Promise, StepTypes
  <2> QED  BY <2>1, <2>2, <2>3, <2>4, <2>5 DEF Types
<1>2. ASSUME NEW p \in Processes, FetchFails(p) \/ Interrupted(p) PROVE Types'
  <2> USE <1>2 DEF FetchFails, Interrupted, End
  <2>1. DiskTypes' BY NothingTouched
  <2>2. StepTypes'  BY DEF StepTypes, Steps
  <2>3. WorkTypes'  BY DEF WorkTypes
  <2>4. UnderWay'  BY DEF UnderWay, StepTypes
  <2>5. Promise'  BY PromiseKept DEF StepTypes
  <2> QED  BY <2>1, <2>2, <2>3, <2>4, <2>5 DEF Types
<1>3. ASSUME NEW p \in Processes, NEW found \in [Sources -> Contents], Fetched(p, found) PROVE Types'
  <2> USE <1>3 DEF Fetched
  <2>1. DiskTypes' BY NothingTouched
  <2>2. StepTypes'  BY DEF StepTypes, Steps
  <2>3. WorkTypes'  BY DEF WorkTypes
  <2>4. UnderWay'  BY DEF UnderWay, StepTypes, WorkTypes
  <2>5. Promise'  BY PromiseKept DEF StepTypes
  <2> QED  BY <2>1, <2>2, <2>3, <2>4, <2>5 DEF Types
<1>4. ASSUME NEW p \in Processes, Displace(p) PROVE Types'
  <2>1. First(todo[p]) \in Sources /\ todo[p] # {}
        BY <1>4, FirstIsLeft DEF Displace, WorkTypes
  <2>2. \A m \in BOOLEAN : Append(installed[p], <<First(todo[p]), m>>) \in Seq(Sources \X BOOLEAN)
        BY <2>1, AppendedRange DEF WorkTypes
  <2>3. /\ at[p] = "publishing" /\ UNCHANGED <<lock, todo, holder, read, staged, clean, outcome, before, spent, overlapped>>
        /\ \/ at' = [at EXCEPT ![p] = "installing"]
           \/ at' = [at EXCEPT ![p] = "removing"]
        /\ \/ UNCHANGED <<cache, backup>>
           \/ /\ backup' = [backup EXCEPT ![First(todo[p])] = cache[First(todo[p])]]
              /\ cache' = [cache EXCEPT ![First(todo[p])] = Absent]
        /\ \/ UNCHANGED installed
           \/ \E m \in BOOLEAN : installed' = [installed EXCEPT ![p] = Append(@, <<First(todo[p]), m>>)]
        BY <1>4 DEF Displace, Displaced, Disturb
  <2>4. DiskTypes'  BY <2>1, <2>3 DEF DiskTypes
  <2>5. StepTypes'  BY <2>3 DEF StepTypes, Steps
  <2>6. WorkTypes'  BY <2>2, <2>3 DEF WorkTypes
  <2>7. UnderWay'  BY <2>1, <2>2, <2>3 DEF UnderWay, StepTypes, WorkTypes
  <2>8. Promise'  BY <2>3, PromiseKept DEF StepTypes
  <2> QED  BY <2>4, <2>5, <2>6, <2>7, <2>8 DEF Types
<1>5. ASSUME NEW p \in Processes, Install(p) PROVE Types'
  <2>0. todo[p] # {} /\ todo[p] \in SUBSET Sources
    <3>1. at[p] = "installing"  BY <1>5 DEF Install
    <3>2. todo[p] # {}  BY <1>5, <3>1 DEF UnderWay
    <3>3. todo[p] \in SUBSET Sources  BY DEF WorkTypes
    <3> QED  BY <3>2, <3>3
  <2>1. First(todo[p]) \in Sources /\ todo[p] # {}
        BY <2>0, FirstIsLeft
  <2>2. /\ at[p] = "installing" /\ UNCHANGED <<lock, backup, installed, holder, read, staged, clean, outcome, before, spent, overlapped>>
        /\ \/ at' = [at EXCEPT ![p] = "publishing"]
           \/ at' = [at EXCEPT ![p] = "removing"]
        /\ \/ UNCHANGED cache
           \/ cache' = [cache EXCEPT ![First(todo[p])] = staged[p][First(todo[p])]]
        /\ \/ UNCHANGED todo
           \/ todo' = [todo EXCEPT ![p] = @ \ {First(todo[p])}]
        BY <1>5 DEF Install, Disturb
  <2>3. staged[p][First(todo[p])] \in Kept  BY <2>1 DEF WorkTypes
  <2>4. DiskTypes'  BY <2>1, <2>2, <2>3 DEF DiskTypes
  <2>5. StepTypes'  BY <2>2 DEF StepTypes, Steps
  <2>6. WorkTypes'
    <3>1. todo \in [Processes -> SUBSET Sources]  BY DEF WorkTypes
    <3>2. todo[p] \ {First(todo[p])} \in SUBSET Sources  BY <3>1
    <3>3. todo' \in [Processes -> SUBSET Sources]
      <4>1. CASE UNCHANGED todo  BY <3>1, <4>1
      <4>2. CASE todo' = [todo EXCEPT ![p] = @ \ {First(todo[p])}]  BY <3>1, <3>2, <4>2
      <4> QED  BY <2>2, <4>1, <4>2
    <3> QED  BY <2>2, <3>3 DEF WorkTypes
  <2>7. UnderWay'  BY <2>1, <2>2 DEF UnderWay, StepTypes, WorkTypes
  <2>8. Promise'  BY <2>2, PromiseKept DEF StepTypes
  <2> QED  BY <2>4, <2>5, <2>6, <2>7, <2>8 DEF Types
<1>6. ASSUME NEW p \in Processes, WriteLock(p) PROVE Types'
  <2>1. Entries(p) \in [Sources -> Contents]  BY DEF Entries, WorkTypes
  <2> USE <1>6 DEF WriteLock, Disturb
  <2>2. DiskTypes'  BY <2>1 DEF DiskTypes
  <2>3. StepTypes'  BY DEF StepTypes, Steps
  <2>4. WorkTypes'  BY DEF WorkTypes
  <2>5. UnderWay'  BY DEF UnderWay, StepTypes, WorkTypes
  <2>6. Promise'
    <3>1. at[p] # "idle" /\ \A q \in Processes \ {p} : at'[q] = at[q]  BY DEF StepTypes
    <3> QED  BY <3>1, PromiseKept
  <2> QED  BY <2>2, <2>3, <2>4, <2>5, <2>6 DEF Types
<1>7. ASSUME NEW p \in Processes, Clean(p) PROVE Types'
  <2>1. /\ Tail(installed[p]) \in Seq(Sources \X BOOLEAN) /\ Head(installed[p]) \in Sources \X BOOLEAN
        BY <1>7 DEF Clean, WorkTypes
  <2>2. /\ at[p] = "cleaning" /\ UNCHANGED <<lock, cache, holder, at, read, staged, todo, clean, outcome, before, spent, overlapped>>
        /\ installed' = [installed EXCEPT ![p] = Tail(@)]
        /\ \/ UNCHANGED backup
           \/ \E left \in {backup[Head(installed[p])[1]], Damaged, Absent} :
                 backup' = [backup EXCEPT ![Head(installed[p])[1]] = left]
        BY <1>7 DEF Clean
  <2>3. DiskTypes'
    <3>1. Head(installed[p])[1] \in Sources  BY <2>1
    <3> QED  BY <2>2, <3>1 DEF DiskTypes
  <2>4. StepTypes'  BY <2>2, NothingTouched
  <2>5. WorkTypes'  BY <2>1, <2>2 DEF WorkTypes
  <2>6. UnderWay'  BY <2>1, <2>2 DEF UnderWay, WorkTypes
  <2>7. Promise'  BY <2>2, PromiseKept
  <2> QED  BY <2>3, <2>4, <2>5, <2>6, <2>7 DEF Types
<1>8. ASSUME NEW p \in Processes, Commit(p) \/ RolledBack(p) PROVE Types'
  <2> USE <1>8 DEF Commit, RolledBack, End
  <2>1. DiskTypes' BY NothingTouched
  <2>2. StepTypes'  BY DEF StepTypes, Steps
  <2>3. WorkTypes'  BY NothingTouched
  <2>4. UnderWay'  BY DEF UnderWay, StepTypes
  <2>5. Promise'
    <3>1. at[p] # "idle" /\ \A q \in Processes \ {p} : at'[q] = at[q]  BY DEF StepTypes
    <3> QED  BY <3>1, PromiseKept
  <2> QED  BY <2>1, <2>2, <2>3, <2>4, <2>5 DEF Types
<1>9. ASSUME NEW p \in Processes, RemovePublished(p) PROVE Types'
  <2> DEFINE front == SubSeq(installed[p], 1, Len(installed[p]) - 1)
  <2>1. /\ front \in Seq(Sources \X BOOLEAN) /\ Last(p) \in Sources \X BOOLEAN
        BY <1>9, FrontRange DEF RemovePublished, Last, WorkTypes
  <2>2. Last(p)[1] \in Sources  BY <2>1
  <2>3. /\ at[p] = "removing" /\ installed[p] # <<>>
        /\ UNCHANGED <<lock, backup, holder, read, staged, todo, outcome, before, spent, overlapped>>
        /\ \/ at' = [at EXCEPT ![p] = "restoring"] /\ UNCHANGED installed
           \/ at' = [at EXCEPT ![p] = "removing"] /\ installed' = [installed EXCEPT ![p] = front]
        /\ \E left \in {cache[Last(p)[1]], Damaged, Absent} : cache' = [cache EXCEPT ![Last(p)[1]] = left]
        /\ \/ UNCHANGED clean
           \/ clean' = [clean EXCEPT ![p] = FALSE]
        BY <1>9 DEF RemovePublished, NextToUndo, Undone
  <2> HIDE DEF front
  <2>4. DiskTypes'  BY <2>2, <2>3 DEF DiskTypes
  <2>5. StepTypes'  BY <2>3 DEF StepTypes, Steps
  <2>6. WorkTypes'
    <3>1. installed' \in [Processes -> Seq(Sources \X BOOLEAN)]  BY <2>1, <2>3 DEF WorkTypes
    <3>2. clean' \in [Processes -> BOOLEAN]  BY <2>3 DEF WorkTypes
    <3> QED  BY <2>3, <3>1, <3>2 DEF WorkTypes
  <2>7. UnderWay'  BY <2>1, <2>3 DEF UnderWay, StepTypes, WorkTypes
  <2>8. Promise'  BY <2>3, PromiseKept DEF StepTypes
  <2> QED  BY <2>4, <2>5, <2>6, <2>7, <2>8 DEF Types
<1>10. ASSUME NEW p \in Processes, RestoreBackup(p) PROVE Types'
  <2> DEFINE front == SubSeq(installed[p], 1, Len(installed[p]) - 1)
  <2>0. installed[p] # <<>> /\ installed[p] \in Seq(Sources \X BOOLEAN)
    <3>1. at[p] = "restoring"  BY <1>10 DEF RestoreBackup
    <3>2. installed[p] # <<>>  BY <1>10, <3>1 DEF UnderWay
    <3>3. installed[p] \in Seq(Sources \X BOOLEAN)  BY DEF WorkTypes
    <3> QED  BY <3>2, <3>3
  <2>1. /\ front \in Seq(Sources \X BOOLEAN) /\ Last(p) \in Sources \X BOOLEAN
        BY <2>0, FrontRange DEF Last
  <2>2. Last(p)[1] \in Sources  BY <2>1
  <2>3. /\ at[p] = "restoring"
        /\ UNCHANGED <<lock, holder, read, staged, todo, outcome, before, spent, overlapped>>
        /\ at' = [at EXCEPT ![p] = "removing"] /\ installed' = [installed EXCEPT ![p] = front]
        /\ \/ UNCHANGED <<cache, backup>>
           \/ /\ cache' = [cache EXCEPT ![Last(p)[1]] = backup[Last(p)[1]]]
              /\ backup' = [backup EXCEPT ![Last(p)[1]] = Absent]
        /\ \/ UNCHANGED clean
           \/ clean' = [clean EXCEPT ![p] = FALSE]
        BY <1>10 DEF RestoreBackup, Undone
  <2> HIDE DEF front
  <2>4. DiskTypes'  BY <2>2, <2>3 DEF DiskTypes
  <2>5. StepTypes'  BY <2>3 DEF StepTypes, Steps
  <2>6. WorkTypes'  BY <2>1, <2>3 DEF WorkTypes
  <2>7. UnderWay'  BY <2>1, <2>3 DEF UnderWay, StepTypes, WorkTypes
  <2>8. Promise'  BY <2>3, PromiseKept DEF StepTypes
  <2> QED  BY <2>4, <2>5, <2>6, <2>7, <2>8 DEF Types
<1>11. ASSUME NEW p \in Processes, Forget(p), UNCHANGED <<disk, overlapped>>,
              holder' \in Processes \cup {Nobody, Orphan},
              spent' \in [transactions: Nat, crashes: Nat, losses: Nat],
              spent'.losses = spent.losses, holder # p => holder' = holder
       PROVE  Types'
  <2>1. DiskTypes' BY <1>11, NothingTouched
  <2>2. StepTypes'  BY <1>11 DEF Forget, StepTypes, Steps
  <2>3. WorkTypes'  BY <1>11 DEF Forget, WorkTypes
  <2>4. UnderWay'  BY <1>11 DEF Forget, UnderWay, StepTypes, WorkTypes
  <2>5. at' = [at EXCEPT ![p] = "idle"]  BY <1>11 DEF Forget
  <2>6. Promise'  BY <1>11, <2>5 DEF Promise, StepTypes
  <2> QED  BY <2>1, <2>2, <2>3, <2>4, <2>6 DEF Types
<1>12. ASSUME NEW p \in Processes, Release(p) PROVE Types'
      BY <1>11, <1>12 DEF Release, StepTypes
<1>13. ASSUME NEW p \in Processes, Crash(p) PROVE Types'
  <2>1. /\ Forget(p) /\ UNCHANGED <<disk, overlapped>> /\ spent' = [spent EXCEPT !.crashes = @ + 1]
        /\ holder' \in IF holder = p THEN {Nobody, Orphan} ELSE {holder}
        BY <1>13 DEF Crash
  <2>2. /\ spent' \in [transactions: Nat, crashes: Nat, losses: Nat] /\ spent'.losses = spent.losses
        BY <2>1 DEF StepTypes
  <2>3. holder' \in Processes \cup {Nobody, Orphan} /\ (holder # p => holder' = holder)
        BY <2>1 DEF StepTypes
  <2> QED  BY <1>11, <2>1, <2>2, <2>3
<1>14. CASE OrphanEnds
  <2>1. UNCHANGED <<disk, at, own, spent, overlapped>> /\ holder = Orphan /\ holder' = Nobody
        BY <1>14 DEF OrphanEnds
  <2>2. StepTypes'  BY <2>1 DEF StepTypes
  <2>3. UnderWay'  BY <2>1 DEF UnderWay
  <2>4. Promise'
    <3>1. \A q \in Processes : q # Orphan  BY HoldersAreProcesses
    <3> QED  BY <2>1, <3>1 DEF Promise
  <2> QED  BY <2>1, <2>2, <2>3, <2>4, NothingTouched DEF Types
<1>15. CASE HolderDies
  <2>1. UNCHANGED <<disk, at, own, overlapped>> /\ holder' = Nobody /\ spent' = [spent EXCEPT !.losses = @ + 1]
        BY <1>15 DEF HolderDies
  <2>2. StepTypes'  BY <2>1 DEF StepTypes
  <2>3. UnderWay'  BY <2>1 DEF UnderWay
  <2>4. Promise'
    <3>1. spent'.losses = spent.losses + 1 /\ spent.losses \in Nat  BY <2>1 DEF StepTypes
    <3> QED  BY <3>1 DEF Promise
  <2> QED  BY <2>1, <2>2, <2>3, <2>4, NothingTouched DEF Types
<1>16. CASE UNCHANGED vars
  <2>1. UnderWay' /\ Promise'  BY <1>16 DEF vars, UnderWay, Promise
  <2> QED  BY <1>16, <2>1, NothingTouched DEF vars, Types
<1> QED  BY <1>1, <1>2, <1>3, <1>4, <1>5, <1>6, <1>7, <1>8, <1>9, <1>10, <1>12, <1>13, <1>14, <1>15, <1>16 DEF Next

LEMMA TypesAlways == Spec => []Types
BY TypesInit, TypesStep, PTL DEF Spec

(* The types; and a process that has anything under way holds the curator     *)
(* lock, unless a holder has died.                                            *)
THEOREM CustodyTypeCorrect == Spec => []TypeOK
<1>1. Types => TypeOK
      BY DEF Types, DiskTypes, StepTypes, Promise, TypeOK, Kept
<1> QED  BY <1>1, TypesAlways, PTL
-----------------------------------------------------------------------------
(* What a process at work on its transaction relies on, step by step, while   *)
(* it is alone. Fwd: publishing; Back: rolling back.                          *)
Fwd  == {"publishing", "installing"}
Back == {"removing", "restoring"}
Alone == \A p, q \in Processes : at[p] # "idle" /\ at[q] # "idle" => p = q

(* The lock file is as the process read it until it writes it, and what the   *)
(* lock file names was moved aside wherever a new cache takes its place.      *)
Saving(p) ==
    /\ at[p] \in {"fetching"} \cup Fwd \cup Back => read[p] = lock
    /\ at[p] \in Fwd \cup Back =>
         /\ before[p].lock = lock
         /\ Once(installed[p])
         /\ \A e \in RangeOf(installed[p]) : lock[e[1]] # Absent => lock[e[1]] = backup[e[1]]

(* Publishing: a selected source is still to do, or its cache is in place.    *)
Forward(p) ==
    /\ at[p] \in Fwd =>
         /\ clean[p]
         /\ \A s \in todo[p] : staged[p][s] # Absent
         /\ \A e \in RangeOf(installed[p]) : staged[p][e[1]] # Absent
         /\ \A s \in Sources : staged[p][s] # Absent => s \in todo[p] \/ cache[s] = staged[p][s]
         /\ \A e \in RangeOf(installed[p]) :
               e[1] \in todo[p] => at[p] = "installing" /\ e[1] = First(todo[p])
    /\ at[p] = "installing" =>
         \E e \in RangeOf(installed[p]) : e[1] = First(todo[p])

(* What undoing the installed entries gives back, while no step has failed.   *)
Reversible(p) ==
    at[p] \in Fwd \cup Back /\ clean[p] =>
        /\ \A s \in Sources :
              (\A e \in RangeOf(installed[p]) : e[1] # s) =>
                  cache[s] = before[p].cache[s] /\ backup[s] = before[p].backup[s]
        /\ \A e \in RangeOf(installed[p]) :
              IF e[2]
              THEN /\ before[p].backup[e[1]] = Absent
                   /\ before[p].cache[e[1]] = backup[e[1]] /\ backup[e[1]] # Absent
              ELSE before[p].cache[e[1]] = Absent /\ before[p].backup[e[1]] = backup[e[1]]
Restoring(p) ==
    at[p] = "restoring" => /\ Last(p)[2]
                           /\ clean[p] => cache[Last(p)[1]] = Absent

Finishing(p) ==
    /\ at[p] = "cleaning" =>
         /\ Whole(p)
         /\ \A e \in RangeOf(installed[p]) : staged[p][e[1]] # Absent
    /\ at[p] = "ended" =>
         /\ outcome[p] = "committed" => Whole(p)
         /\ outcome[p] = "failed" => Now = before[p]
         /\ outcome[p] = "unrestored" => lock = before[p].lock
         /\ outcome[p] = "lost" => Whole(p) \/ lock = before[p].lock

Work(p) == Saving(p) /\ Forward(p) /\ Reversible(p) /\ Restoring(p) /\ Finishing(p)
Preserved == ~overlapped => Alone /\ Recoverable /\ \A p \in Processes : Work(p)
LEMMA PreservedInit == Init => Preserved
<1> SUFFICES ASSUME Init PROVE Preserved
    OBVIOUS
<1>1. Alone /\ \A p \in Processes : at[p] = "idle"  BY DEF Init, Alone
<1>2. Recoverable  BY DEF Init, Nothing, Recoverable
<1>3. \A p \in Processes : Work(p)
      BY <1>1 DEF Work, Saving, Forward, Reversible, Restoring, Finishing, Fwd, Back
<1> QED  BY <1>1, <1>2, <1>3 DEF Preserved

(* A step of the one process at work has to answer for that process only.     *)
LEMMA OnlyWorker ==
    ASSUME StepTypes, Alone, NEW p \in Processes, at[p] # "idle",
           NEW x, at' = [at EXCEPT ![p] = x], Recoverable', Work(p)'
    PROVE  Preserved'
<1>1. \A q \in Processes \ {p} : at[q] = "idle" /\ at'[q] = "idle"
      BY DEF StepTypes, Alone
<1>2. Alone'  BY <1>1 DEF Alone
<1>3. ASSUME NEW q \in Processes, q # p PROVE Work(q)'
  <2>1. at'[q] = "idle"  BY <1>1, <1>3
  <2> QED  BY <2>1 DEF Work, Saving, Forward, Reversible, Restoring, Finishing, Fwd, Back
<1>4. \A q \in Processes : Work(q)'  BY <1>3
<1> QED  BY <1>2, <1>4 DEF Preserved
LEMMA NobodyWorks ==
    ASSUME \A q \in Processes : at'[q] = "idle", Recoverable'
    PROVE  Preserved'
<1>1. Alone'  BY DEF Alone
<1>2. ASSUME NEW q \in Processes PROVE Work(q)'
      BY DEF Work, Saving, Forward, Reversible, Restoring, Finishing, Fwd, Back
<1> QED  BY <1>1, <1>2 DEF Preserved

(* A step that fails: what was installed is undone next.                      *)
LEMMA DisturbStep ==
    ASSUME Types, Alone, Recoverable, NEW p \in Processes, Work(p), at[p] \in Fwd, Disturb(p),
           UNCHANGED <<read, staged, clean, outcome, before>>
    PROVE  Preserved'
<1> USE DEF Types, Disturb, disk, Move
<1>1. at' = [at EXCEPT ![p] = "removing"] /\ at[p] # "idle" /\ at'[p] = "removing"
      BY DEF StepTypes, Fwd
<1>2. Recoverable'  BY DEF Recoverable
<1>3. Saving(p)'  BY <1>1 DEF Work, Saving, Fwd, Back
<1>4. Reversible(p)'  BY <1>1 DEF Work, Reversible, Fwd, Back
<1>5. Forward(p)' /\ Restoring(p)' /\ Finishing(p)'  BY <1>1 DEF Forward, Restoring, Finishing, Fwd
<1> QED  BY <1>1, <1>2, <1>3, <1>4, <1>5, OnlyWorker DEF Work

LEMMA AcquireStep ==
    ASSUME Types, Recoverable, NEW p \in Processes, Acquire(p), ~overlapped'
    PROVE  Preserved'
<1> USE DEF Types, Acquire, disk, Move
<1>1. \A q \in Processes \ {p} : at[q] = "idle" /\ at'[q] = "idle"
      BY DEF StepTypes
<1>2. at'[p] = "fetching" /\ read'[p] = lock'  BY DEF StepTypes, WorkTypes
<1>3. Alone'  BY <1>1 DEF Alone
<1>4. Recoverable'  BY DEF Recoverable
<1>5. Work(p)'
      BY <1>2 DEF Work, Saving, Forward, Reversible, Restoring, Finishing, Fwd, Back
<1>6. ASSUME NEW q \in Processes, q # p PROVE Work(q)'
  <2>1. at'[q] = "idle"  BY <1>1, <1>6
  <2> QED  BY <2>1 DEF Work, Saving, Forward, Reversible, Restoring, Finishing, Fwd, Back
<1>7. \A q \in Processes : Work(q)'  BY <1>5, <1>6
<1> QED  BY <1>3, <1>4, <1>7 DEF Preserved

LEMMA FetchedStep ==
    ASSUME Types, Alone, Recoverable, NEW p \in Processes, Work(p),
           NEW found \in [Sources -> Contents], Fetched(p, found)
    PROVE  Preserved'
<1> USE DEF Types, Fetched, disk, Move
<1>1. /\ at' = [at EXCEPT ![p] = "publishing"] /\ at[p] = "fetching" /\ at'[p] = "publishing"
      /\ staged'[p] = found /\ todo'[p] = {s \in Sources : found[s] # Absent}
      /\ installed'[p] = <<>> /\ clean'[p] /\ before'[p] = Now
      BY DEF StepTypes, WorkTypes
<1>2. RangeOf(installed'[p]) = {} /\ Once(installed'[p])
      BY <1>1 DEF RangeOf, Once
<1>3. Recoverable'  BY DEF Recoverable
<1>4. Saving(p)'
  <2>1. before'[p].lock = lock'  BY <1>1 DEF Now
  <2> QED  BY <1>1, <1>2, <2>1 DEF Work, Saving, Fwd, Back
<1>5. Forward(p)'  BY <1>1, <1>2 DEF Forward, Fwd
<1>6. Reversible(p)'  BY <1>1, <1>2 DEF Reversible, Now
<1>7. Restoring(p)' /\ Finishing(p)'  BY <1>1 DEF Restoring, Finishing
<1> QED  BY <1>1, <1>3, <1>4, <1>5, <1>6, <1>7, OnlyWorker DEF Work

(* The selected source is one whose cache has not been touched yet.           *)
LEMMA DisplaceStep ==
    ASSUME Types, Alone, Recoverable, NEW p \in Processes, Work(p), Displace(p)
    PROVE  Preserved'
<1> DEFINE s == First(todo[p])
           q == installed[p]
<1>0. /\ at[p] = "publishing" /\ todo[p] # {}
      /\ UNCHANGED <<read, staged, clean, outcome, before>>
      BY DEF Displace
<1>1. s \in todo[p] /\ s \in Sources /\ q \in Seq(Sources \X BOOLEAN)
      BY <1>0, FirstIsLeft DEF Types, WorkTypes
<1>2. \A e \in RangeOf(q) : e[1] # s
      BY <1>0, <1>1 DEF Work, Forward, Fwd
<1>3. ASSUME NEW m \in BOOLEAN, Displaced(p, s, m),
             IF m THEN /\ cache[s] # Absent /\ backup[s] = Absent
                       /\ backup' = [backup EXCEPT ![s] = cache[s]] /\ cache' = [cache EXCEPT ![s] = Absent]
             ELSE cache[s] = Absent /\ UNCHANGED <<cache, backup>>
      PROVE  Preserved'
  <2>1. /\ at' = [at EXCEPT ![p] = "installing"] /\ at'[p] = "installing"
        /\ UNCHANGED <<lock, todo>> /\ installed'[p] = Append(q, <<s, m>>)
        BY <1>3 DEF Displaced, Move, Types, StepTypes, WorkTypes
  <2>2. /\ RangeOf(installed'[p]) = RangeOf(q) \cup {<<s, m>>}
        /\ Once(q) => Once(installed'[p])
    <3>1. <<s, m>> \in Sources \X BOOLEAN /\ <<s, m>>[1] = s  BY <1>1
    <3>2. \A d \in RangeOf(q) : d[1] # <<s, m>>[1]  BY <1>2, <3>1
    <3> HIDE DEF s, q
    <3> QED  BY <1>1, <2>1, <3>1, <3>2, AppendedRange
  <2>3. /\ cache'[s] = Absent /\ backup'[s] = (IF m THEN cache[s] ELSE backup[s])
        /\ \A u \in Sources \ {s} : cache'[u] = cache[u] /\ backup'[u] = backup[u]
        BY <1>1, <1>3 DEF Types, DiskTypes
  <2>4. lock[s] # Absent => lock[s] = backup'[s]
        BY <1>1, <1>3, <2>3 DEF Recoverable
  <2>5. Recoverable'
        BY <2>1, <2>3, <2>4 DEF Recoverable
  <2>6. \A e \in RangeOf(q) : e[1] \in Sources /\ e[1] # s /\ e = <<e[1], e[2]>>
        BY <1>1, <1>2 DEF RangeOf
  <2>7. Saving(p)'
    <3>1. /\ read[p] = lock /\ before[p].lock = lock /\ Once(q)
          /\ \A e \in RangeOf(q) : lock[e[1]] # Absent => lock[e[1]] = backup[e[1]]
          BY <1>0 DEF Work, Saving, Fwd, Back
    <3>2. \A e \in RangeOf(q) : lock[e[1]] # Absent => lock[e[1]] = backup'[e[1]]
          BY <2>3, <2>6, <3>1
    <3>3. <<s, m>>[1] = s  OBVIOUS
    <3> HIDE DEF s, q
    <3>4. \A e \in RangeOf(q) \cup {<<s, m>>} : lock[e[1]] # Absent => lock[e[1]] = backup'[e[1]]
          BY <2>4, <3>2, <3>3
    <3> QED  BY <1>0, <2>1, <2>2, <3>1, <3>4 DEF Saving, Fwd, Back
  <2>8. Forward(p)'
    <3>1. /\ clean[p] /\ \A u \in todo[p] : staged[p][u] # Absent
          /\ \A e \in RangeOf(q) : staged[p][e[1]] # Absent /\ e[1] \notin todo[p]
          /\ \A u \in Sources : staged[p][u] # Absent => u \in todo[p] \/ cache[u] = staged[p][u]
          BY <1>0 DEF Work, Forward, Fwd
    <3>2. \A e \in RangeOf(q) \cup {<<s, m>>} :
             staged[p][e[1]] # Absent /\ (e[1] \in todo[p] => e[1] = s)
          BY <1>1, <3>1
    <3>3. \A u \in Sources : staged[p][u] # Absent => u \in todo[p] \/ cache'[u] = staged[p][u]
          BY <1>1, <2>3, <3>1
    <3>4. \E e \in RangeOf(q) \cup {<<s, m>>} : e[1] = s
      <4>1. <<s, m>>[1] = s  OBVIOUS
      <4> QED  BY <4>1
    <3> QED  BY <1>0, <2>1, <2>2, <3>1, <3>2, <3>3, <3>4 DEF Forward, Fwd
  <2>9. Reversible(p)'
    <3>1. /\ \A u \in Sources : (\A e \in RangeOf(q) : e[1] # u) =>
                  cache[u] = before[p].cache[u] /\ backup[u] = before[p].backup[u]
          /\ \A e \in RangeOf(q) :
                IF e[2]
                THEN /\ before[p].backup[e[1]] = Absent
                     /\ before[p].cache[e[1]] = backup[e[1]] /\ backup[e[1]] # Absent
                ELSE before[p].cache[e[1]] = Absent /\ before[p].backup[e[1]] = backup[e[1]]
          BY <1>0 DEF Work, Forward, Reversible, Fwd, Back
    <3>2. cache[s] = before[p].cache[s] /\ backup[s] = before[p].backup[s]
          BY <1>1, <1>2, <3>1
    <3>3. \A u \in Sources : (\A e \in RangeOf(q) \cup {<<s, m>>} : e[1] # u) =>
                  cache'[u] = before[p].cache[u] /\ backup'[u] = before[p].backup[u]
      <4>1. <<s, m>>[1] = s  OBVIOUS
      <4> QED  BY <2>3, <3>1, <4>1
    <3>4. \A e \in RangeOf(q) :
                IF e[2]
                THEN /\ before[p].backup[e[1]] = Absent
                     /\ before[p].cache[e[1]] = backup'[e[1]] /\ backup'[e[1]] # Absent
                ELSE before[p].cache[e[1]] = Absent /\ before[p].backup[e[1]] = backup'[e[1]]
          BY <2>3, <2>6, <3>1
    <3>5. IF m THEN /\ before[p].backup[s] = Absent
                    /\ before[p].cache[s] = backup'[s] /\ backup'[s] # Absent
          ELSE before[p].cache[s] = Absent /\ before[p].backup[s] = backup'[s]
          BY <1>3, <2>3, <3>2
    <3> HIDE DEF s, q
    <3>6. \A e \in RangeOf(q) \cup {<<s, m>>} :
                IF e[2]
                THEN /\ before[p].backup[e[1]] = Absent
                     /\ before[p].cache[e[1]] = backup'[e[1]] /\ backup'[e[1]] # Absent
                ELSE before[p].cache[e[1]] = Absent /\ before[p].backup[e[1]] = backup'[e[1]]
          BY <3>4, <3>5
    <3> QED  BY <1>0, <2>2, <3>3, <3>6 DEF Reversible
  <2>10. Restoring(p)' /\ Finishing(p)'  BY <2>1 DEF Restoring, Finishing
  <2> QED  BY <1>0, <2>1, <2>5, <2>7, <2>8, <2>9, <2>10, OnlyWorker DEF Work, Types
<1>4. CASE Disturb(p)
      BY <1>0, <1>4, DisturbStep DEF Fwd
<1>5. CASE cache[s] = Absent /\ Displaced(p, s, FALSE) /\ UNCHANGED <<cache, backup>>
      BY <1>3, <1>5
<1>6. CASE /\ cache[s] # Absent /\ MayDisplace(s) /\ Displaced(p, s, TRUE)
           /\ backup' = [backup EXCEPT ![s] = cache[s]] /\ cache' = [cache EXCEPT ![s] = Absent]
      BY <1>3, <1>6 DEF MayDisplace
<1> QED  BY <1>4, <1>5, <1>6 DEF Displace
LEMMA InstallStep ==
    ASSUME Types, Alone, Recoverable, NEW p \in Processes, Work(p), Install(p)
    PROVE  Preserved'
<1> DEFINE s == First(todo[p])
           q == installed[p]
<1>0. /\ at[p] = "installing" /\ UNCHANGED <<read, staged, clean, outcome, before>>
      BY DEF Install
<1>1. s \in todo[p] /\ s \in Sources /\ q \in Seq(Sources \X BOOLEAN) /\ todo[p] \in SUBSET Sources
  <2>1. todo[p] # {} /\ todo[p] \in SUBSET Sources  BY <1>0 DEF Types, UnderWay, WorkTypes
  <2> QED  BY <2>1, FirstIsLeft DEF Types, WorkTypes
<1>2. CASE Disturb(p)
      BY <1>0, <1>2, DisturbStep DEF Fwd
<1>3. CASE /\ cache[s] = Absent /\ cache' = [cache EXCEPT ![s] = staged[p][s]]
           /\ todo' = [todo EXCEPT ![p] = @ \ {s}] /\ Move(p, "publishing")
           /\ UNCHANGED <<lock, backup, installed>>
  <2>1. /\ at' = [at EXCEPT ![p] = "publishing"] /\ at'[p] = "publishing"
        /\ todo'[p] = todo[p] \ {s}
        /\ cache'[s] = staged[p][s] /\ \A u \in Sources \ {s} : cache'[u] = cache[u]
        BY <1>1, <1>3 DEF Move, Types, StepTypes, WorkTypes, DiskTypes
  <2>2. Recoverable'
        BY <1>1, <1>3, <2>1 DEF Recoverable
  <2>3. Saving(p)'
        BY <1>0, <1>3, <2>1 DEF Work, Saving, Fwd, Back
  <2>4. /\ clean[p] /\ \A u \in todo[p] : staged[p][u] # Absent
        /\ \A e \in RangeOf(q) : staged[p][e[1]] # Absent /\ (e[1] \in todo[p] => e[1] = s)
        /\ \A u \in Sources : staged[p][u] # Absent => u \in todo[p] \/ cache[u] = staged[p][u]
        /\ \E e \in RangeOf(q) : e[1] = s
        BY <1>0 DEF Work, Forward, Fwd
  <2>5. /\ \A u \in todo'[p] : staged[p][u] # Absent
        /\ \A e \in RangeOf(q) : e[1] \notin todo'[p]
        /\ \A u \in Sources : staged[p][u] # Absent => u \in todo'[p] \/ cache'[u] = staged[p][u]
        BY <2>1, <2>4
  <2>6. Forward(p)'
    <3> HIDE DEF s, q
    <3>1. installed'[p] = q  BY <1>3 DEF q
    <3> QED  BY <1>0, <2>1, <2>4, <2>5, <3>1 DEF Forward, Fwd
  <2>7. Reversible(p)'
    <3>1. /\ \A u \in Sources : (\A e \in RangeOf(q) : e[1] # u) =>
                  cache[u] = before[p].cache[u] /\ backup[u] = before[p].backup[u]
          /\ \A e \in RangeOf(q) :
                IF e[2]
                THEN /\ before[p].backup[e[1]] = Absent
                     /\ before[p].cache[e[1]] = backup[e[1]] /\ backup[e[1]] # Absent
                ELSE before[p].cache[e[1]] = Absent /\ before[p].backup[e[1]] = backup[e[1]]
          BY <1>0, <2>4 DEF Work, Reversible, Fwd, Back
    <3>2. \A u \in Sources : (\A e \in RangeOf(q) : e[1] # u) =>
                  cache'[u] = before[p].cache[u] /\ backup[u] = before[p].backup[u]
          BY <2>1, <2>4, <3>1
    <3> HIDE DEF s
    <3> QED  BY <1>0, <1>3, <3>1, <3>2 DEF Reversible
  <2>8. Restoring(p)' /\ Finishing(p)'  BY <2>1 DEF Restoring, Finishing
  <2> QED  BY <1>0, <2>1, <2>2, <2>3, <2>6, <2>7, <2>8, OnlyWorker DEF Work, Types
<1> QED  BY <1>2, <1>3 DEF Install

(* The new lock file names what is in place, and the rest as it was.          *)
LEMMA WriteLockStep ==
    ASSUME Types, Alone, Recoverable, NEW p \in Processes, Work(p), WriteLock(p)
    PROVE  Preserved'
<1>0. /\ at[p] = "publishing" /\ todo[p] = {} /\ UNCHANGED <<read, staged, clean, outcome, before>>
      BY DEF WriteLock
<1>1. CASE Disturb(p)
      BY <1>0, <1>1, DisturbStep DEF Fwd
<1>2. CASE lock' = Entries(p) /\ Move(p, "cleaning") /\ UNCHANGED <<cache, backup, todo, installed>>
  <2>1. /\ at' = [at EXCEPT ![p] = "cleaning"] /\ at'[p] = "cleaning"
        /\ \A s \in Sources : lock'[s] = IF staged[p][s] = Absent THEN read[p][s] ELSE staged[p][s]
        BY <1>2 DEF Move, Entries, Types, StepTypes
  <2>2. /\ read[p] = lock /\ before[p].lock = lock /\ clean[p]
        /\ \A s \in Sources : staged[p][s] # Absent => cache[s] = staged[p][s]
        /\ \A e \in RangeOf(installed[p]) : staged[p][e[1]] # Absent
        BY <1>0 DEF Work, Saving, Forward, Fwd, Back
  <2>3. \A s \in Sources : staged[p][s] = Absent =>
            cache[s] = before[p].cache[s] /\ backup[s] = before[p].backup[s]
    <3>1. \A s \in Sources : (\A e \in RangeOf(installed[p]) : e[1] # s) =>
              cache[s] = before[p].cache[s] /\ backup[s] = before[p].backup[s]
          BY <1>0, <2>2 DEF Work, Reversible, Fwd, Back
    <3> QED  BY <2>2, <3>1
  <2>4. Whole(p)'
        BY <1>0, <1>2, <2>1, <2>2, <2>3 DEF Whole
  <2>5. Recoverable'
        BY <1>2, <2>1, <2>2 DEF Recoverable
  <2>6. Work(p)'
        BY <1>0, <1>2, <2>1, <2>2, <2>4 DEF Work, Saving, Forward, Reversible, Restoring, Finishing, Fwd, Back
  <2> QED  BY <1>0, <2>1, <2>5, <2>6, OnlyWorker DEF Types
<1> QED  BY <1>1, <1>2 DEF WriteLock

LEMMA CleanStep ==
    ASSUME Types, Alone, Recoverable, NEW p \in Processes, Work(p), Clean(p)
    PROVE  Preserved'
<1> DEFINE i == Head(installed[p])
<1>0. /\ at[p] = "cleaning" /\ installed[p] # <<>> /\ UNCHANGED <<lock, cache, at, read, staged, todo, clean, outcome, before>>
      /\ installed' = [installed EXCEPT ![p] = Tail(@)]
      BY DEF Clean
<1>1. installed[p] \in Seq(Sources \X BOOLEAN)  BY DEF Types, WorkTypes
<1>2. /\ i \in RangeOf(installed[p]) /\ i[1] \in Sources
      /\ installed'[p] = Tail(installed[p]) /\ RangeOf(installed'[p]) \subseteq RangeOf(installed[p])
      BY <1>0, <1>1, TailRange DEF Types, WorkTypes
<1>3. Whole(p) /\ \A e \in RangeOf(installed[p]) : staged[p][e[1]] # Absent
      BY <1>0 DEF Work, Finishing
<1>4. \A u \in Sources : u # i[1] => backup'[u] = backup[u]
  <2>1. UNCHANGED backup \/ \E left : backup' = [backup EXCEPT ![i[1]] = left]
        BY DEF Clean
  <2> QED  BY <1>2, <2>1 DEF Types, DiskTypes
<1>5. staged[p][i[1]] # Absent /\ lock[i[1]] = cache[i[1]]
      BY <1>2, <1>3 DEF Whole
<1>6. Recoverable'  BY <1>0, <1>4, <1>5 DEF Recoverable
<1>7. Whole(p)'  BY <1>0, <1>3, <1>4, <1>5 DEF Whole
<1>8. Work(p)'
      BY <1>0, <1>2, <1>3, <1>7 DEF Work, Saving, Forward, Reversible, Restoring, Finishing, Fwd, Back
<1>9. at' = [at EXCEPT ![p] = "cleaning"] /\ at[p] # "idle"  BY <1>0 DEF Types, StepTypes
<1> QED  BY <1>6, <1>8, <1>9, OnlyWorker DEF Types

(* The command ends: its outcome tells what became of the transaction.        *)
LEMMA EndStep ==
    ASSUME Types, Alone, Recoverable, NEW p \in Processes, Work(p),
           FetchFails(p) \/ Interrupted(p) \/ Commit(p) \/ RolledBack(p)
    PROVE  Preserved'
<1>0. /\ at' = [at EXCEPT ![p] = "ended"] /\ at[p] # "idle" /\ at'[p] = "ended"
      /\ UNCHANGED <<lock, cache, backup, staged>>
      BY DEF FetchFails, Interrupted, Commit, RolledBack, End, Move, disk, Types, StepTypes
<1>1. Recoverable'  BY <1>0 DEF Recoverable
<1>2. CASE FetchFails(p) \/ Interrupted(p)
  <2>1. before'[p] = Now /\ outcome'[p] \in {"failed", "lost"}
        BY <1>2 DEF FetchFails, Interrupted, End, Types, StepTypes, WorkTypes
  <2>2. Now' = before'[p] /\ lock' = before'[p].lock  BY <1>0, <2>1 DEF Now
  <2>3. Finishing(p)'  BY <1>0, <2>1, <2>2 DEF Finishing
  <2> QED  BY <1>0, <1>1, <2>3, OnlyWorker DEF Work, Saving, Forward, Reversible, Restoring, Fwd, Back, Types
<1>3. CASE Commit(p)
  <2>1. UNCHANGED before /\ outcome'[p] \in {"committed", "lost"} /\ Whole(p)
        BY <1>3 DEF Commit, End, Types, StepTypes, Work, Finishing
  <2>2. Whole(p)'  BY <1>0, <2>1 DEF Whole
  <2>3. Finishing(p)'  BY <1>0, <2>1, <2>2 DEF Finishing
  <2> QED  BY <1>0, <1>1, <2>3, OnlyWorker DEF Work, Saving, Forward, Reversible, Restoring, Fwd, Back, Types
<1>4. CASE RolledBack(p)
  <2>1. /\ UNCHANGED before /\ at[p] = "removing" /\ installed[p] = <<>>
        /\ outcome'[p] \in {"lost", "failed", "unrestored"} /\ (outcome'[p] = "failed" => clean[p])
        BY <1>4 DEF RolledBack, End, Types, StepTypes
  <2>2. lock = before[p].lock  BY <2>1 DEF Work, Saving, Back
  <2>3. clean[p] => Now = before[p]
    <3> SUFFICES ASSUME clean[p] PROVE Now = before[p]
        OBVIOUS
    <3>1. RangeOf(installed[p]) = {}  BY <2>1 DEF RangeOf
    <3>2. \A s \in Sources : cache[s] = before[p].cache[s] /\ backup[s] = before[p].backup[s]
          BY <2>1, <3>1 DEF Work, Reversible, Back
    <3>3. before[p] \in Disk  BY DEF Types, WorkTypes
    <3>4. cache = before[p].cache /\ backup = before[p].backup
          BY <3>2, <3>3 DEF Types, DiskTypes, Disk
    <3> QED  BY <2>2, <3>3, <3>4 DEF Disk, Now
  <2>4. Finishing(p)'
    <3>1. Now' = Now /\ before'[p] = before[p] /\ lock' = lock  BY <1>0, <2>1 DEF Now
    <3> QED  BY <1>0, <2>1, <2>2, <2>3, <3>1 DEF Finishing
  <2> QED  BY <1>0, <1>1, <2>4, OnlyWorker DEF Work, Saving, Forward, Reversible, Restoring, Fwd, Back, Types
<1> QED  BY <1>2, <1>3, <1>4

(* Undoing: the published cache goes; only what the lock file does not name,  *)
(* or has in the backup, is ever removed.                                     *)
LEMMA RemoveStep ==
    ASSUME Types, Alone, Recoverable, NEW p \in Processes, Work(p), RemovePublished(p)
    PROVE  Preserved'
<1> DEFINE q == installed[p]
           l == Last(p)
           front == SubSeq(q, 1, Len(q) - 1)
<1>0. /\ at[p] = "removing" /\ q # <<>> /\ UNCHANGED <<lock, backup, read, staged, todo, before>>
      BY DEF RemovePublished
<1>1. q \in Seq(Sources \X BOOLEAN)  BY DEF Types, WorkTypes
<1>2. /\ read[p] = lock /\ before[p].lock = lock /\ Once(q)
      /\ \A e \in RangeOf(q) : lock[e[1]] # Absent => lock[e[1]] = backup[e[1]]
      BY <1>0 DEF Work, Saving, Back
<1>3. /\ l \in RangeOf(q) /\ l[1] \in Sources
      /\ RangeOf(front) \subseteq RangeOf(q) /\ Once(front)
      /\ \A e \in RangeOf(q) : e = l \/ e \in RangeOf(front)
      /\ \A e \in RangeOf(front) : e[1] # l[1]
  <2>1. l = q[Len(q)]  BY DEF Last
  <2>2. l \in RangeOf(q)  BY <1>0, <1>1, <2>1, FrontRange
  <2>3. l[1] \in Sources  BY <1>1, <2>2 DEF RangeOf
  <2> QED  BY <1>0, <1>1, <1>2, <2>1, <2>2, <2>3, FrontRange
<1>4. /\ \A u \in Sources : u # l[1] => cache'[u] = cache[u]
      /\ clean'[p] => clean[p] /\ cache'[l[1]] = Absent
  <2>1. \/ cache' = [cache EXCEPT ![l[1]] = Absent] /\ UNCHANGED clean
        \/ /\ \E left : cache' = [cache EXCEPT ![l[1]] = left]
           /\ clean' = [clean EXCEPT ![p] = FALSE]
        BY DEF RemovePublished
  <2> QED  BY <1>3, <2>1 DEF Types, DiskTypes, WorkTypes
<1>5. Recoverable'
      BY <1>0, <1>2, <1>3, <1>4 DEF Recoverable
<1>6. clean[p] =>
        /\ \A u \in Sources : (\A e \in RangeOf(q) : e[1] # u) =>
               cache[u] = before[p].cache[u] /\ backup[u] = before[p].backup[u]
        /\ \A e \in RangeOf(q) :
               IF e[2]
               THEN /\ before[p].backup[e[1]] = Absent
                    /\ before[p].cache[e[1]] = backup[e[1]] /\ backup[e[1]] # Absent
               ELSE before[p].cache[e[1]] = Absent /\ before[p].backup[e[1]] = backup[e[1]]
      BY <1>0 DEF Work, Reversible, Back
<1>7. CASE l[2]
  <2>1. /\ at' = [at EXCEPT ![p] = "restoring"] /\ at'[p] = "restoring" /\ UNCHANGED installed
        BY <1>7 DEF RemovePublished, NextToUndo, Move, Types, StepTypes
  <2>2. Saving(p)'  BY <1>0, <1>2, <2>1 DEF Saving, Fwd, Back
  <2>3. Reversible(p)'
    <3> HIDE DEF q
    <3>1. clean'[p] => \A u \in Sources : (\A e \in RangeOf(q) : e[1] # u) =>
               cache'[u] = before[p].cache[u] /\ backup[u] = before[p].backup[u]
          BY <1>3, <1>4, <1>6
    <3>2. installed'[p] = q  BY <2>1 DEF q
    <3> HIDE DEF l, front
    <3> QED  BY <1>0, <1>4, <1>6, <3>1, <3>2 DEF Reversible
  <2>4. Restoring(p)'
    <3>1. Last(p)' = l  BY <2>1 DEF Last
    <3> QED  BY <1>4, <1>7, <2>1, <3>1 DEF Restoring
  <2>5. Forward(p)' /\ Finishing(p)'  BY <2>1 DEF Forward, Finishing, Fwd
  <2> QED  BY <1>0, <1>5, <2>1, <2>2, <2>3, <2>4, <2>5, OnlyWorker DEF Work, Types
<1>8. CASE ~l[2]
  <2>1. /\ at' = [at EXCEPT ![p] = "removing"] /\ at'[p] = "removing" /\ installed'[p] = front
        BY <1>8 DEF RemovePublished, NextToUndo, Undone, Move, Types, StepTypes, WorkTypes
  <2>2. Saving(p)'  BY <1>0, <1>2, <1>3, <2>1 DEF Saving, Fwd, Back
  <2>3. Reversible(p)'
    <3> HIDE DEF q, l, front
    <3>1. ASSUME clean'[p], NEW u \in Sources, \A e \in RangeOf(front) : e[1] # u
          PROVE  cache'[u] = before[p].cache[u] /\ backup[u] = before[p].backup[u]
      <4>1. CASE u = l[1]  BY <1>3, <1>4, <1>6, <1>8, <3>1, <4>1
      <4>2. CASE u # l[1]
        <5>1. \A e \in RangeOf(q) : e[1] # u  BY <1>3, <3>1, <4>2
        <5> QED  BY <1>4, <1>6, <3>1, <4>2, <5>1
      <4> QED  BY <4>1, <4>2
    <3>2. clean'[p] => \A e \in RangeOf(front) :
               IF e[2]
               THEN /\ before[p].backup[e[1]] = Absent
                    /\ before[p].cache[e[1]] = backup[e[1]] /\ backup[e[1]] # Absent
               ELSE before[p].cache[e[1]] = Absent /\ before[p].backup[e[1]] = backup[e[1]]
          BY <1>3, <1>4, <1>6
    <3> QED  BY <1>0, <2>1, <3>1, <3>2 DEF Reversible
  <2>4. Restoring(p)' /\ Forward(p)' /\ Finishing(p)'
        BY <2>1 DEF Restoring, Forward, Finishing, Fwd
  <2> QED  BY <1>0, <1>5, <2>1, <2>2, <2>3, <2>4, OnlyWorker DEF Work, Types
<1>9. l[2] \in BOOLEAN
  <2>1. l \in Sources \X BOOLEAN  BY <1>1, <1>3 DEF RangeOf
  <2> QED  BY <2>1
<1> QED  BY <1>7, <1>8, <1>9

(* The displaced cache is renamed back, or the failure is remembered.         *)
LEMMA RestoreStep ==
    ASSUME Types, Alone, Recoverable, NEW p \in Processes, Work(p), RestoreBackup(p)
    PROVE  Preserved'
<1> DEFINE q == installed[p]
           l == Last(p)
           front == SubSeq(q, 1, Len(q) - 1)
<1>0. /\ at[p] = "restoring" /\ UNCHANGED <<lock, read, staged, todo, before>>
      /\ at' = [at EXCEPT ![p] = "removing"] /\ at'[p] = "removing" /\ installed'[p] = front
      BY DEF RestoreBackup, Undone, Move, Types, StepTypes, WorkTypes
<1>1. q \in Seq(Sources \X BOOLEAN) /\ q # <<>>  BY <1>0 DEF Types, WorkTypes, UnderWay
<1>2. /\ read[p] = lock /\ before[p].lock = lock /\ Once(q)
      /\ \A e \in RangeOf(q) : lock[e[1]] # Absent => lock[e[1]] = backup[e[1]]
      BY <1>0 DEF Work, Saving, Back
<1>3. /\ l \in RangeOf(q) /\ l[1] \in Sources
      /\ RangeOf(front) \subseteq RangeOf(q) /\ Once(front)
      /\ \A e \in RangeOf(q) : e = l \/ e \in RangeOf(front)
      /\ \A e \in RangeOf(front) : e[1] # l[1] /\ e[1] \in Sources
  <2>1. l = q[Len(q)]  BY DEF Last
  <2>2. l \in RangeOf(q)  BY <1>1, <2>1, FrontRange
  <2>3. \A e \in RangeOf(q) : e[1] \in Sources  BY <1>1 DEF RangeOf
  <2> QED  BY <1>1, <1>2, <2>1, <2>2, <2>3, FrontRange
<1>4. l[2] /\ (clean[p] => cache[l[1]] = Absent)
      BY <1>0 DEF Work, Restoring
<1>5. \/ /\ cache[l[1]] = Absent /\ backup[l[1]] # Absent /\ UNCHANGED clean
         /\ cache'[l[1]] = backup[l[1]] /\ backup'[l[1]] = Absent
         /\ \A u \in Sources : u # l[1] => cache'[u] = cache[u] /\ backup'[u] = backup[u]
      \/ UNCHANGED <<cache, backup>> /\ ~clean'[p]
  <2>1. \/ /\ cache[l[1]] = Absent /\ backup[l[1]] # Absent /\ UNCHANGED clean
           /\ cache' = [cache EXCEPT ![l[1]] = backup[l[1]]]
           /\ backup' = [backup EXCEPT ![l[1]] = Absent]
        \/ UNCHANGED <<cache, backup>> /\ clean' = [clean EXCEPT ![p] = FALSE]
        BY DEF RestoreBackup
  <2> QED  BY <1>3, <2>1 DEF Types, DiskTypes, WorkTypes
<1>6. clean[p] =>
        /\ \A u \in Sources : (\A e \in RangeOf(q) : e[1] # u) =>
               cache[u] = before[p].cache[u] /\ backup[u] = before[p].backup[u]
        /\ \A e \in RangeOf(q) :
               IF e[2]
               THEN /\ before[p].backup[e[1]] = Absent
                    /\ before[p].cache[e[1]] = backup[e[1]] /\ backup[e[1]] # Absent
               ELSE before[p].cache[e[1]] = Absent /\ before[p].backup[e[1]] = backup[e[1]]
      BY <1>0 DEF Work, Reversible, Back
<1> HIDE DEF q, l, front
<1>7. Recoverable'
  <2> SUFFICES ASSUME NEW u \in Sources, lock[u] # Absent PROVE lock[u] \in {cache'[u], backup'[u]}
      BY <1>0 DEF Recoverable
  <2>1. lock[u] \in {cache[u], backup[u]}  BY DEF Recoverable
  <2>2. CASE u = l[1]  BY <1>2, <1>3, <1>5, <2>1, <2>2
  <2>3. CASE u # l[1]  BY <1>5, <2>1, <2>3
  <2> QED  BY <2>2, <2>3
<1>8. Saving(p)'
  <2>1. \A e \in RangeOf(front) : lock[e[1]] # Absent => lock[e[1]] = backup'[e[1]]
        BY <1>2, <1>3, <1>5
  <2> QED  BY <1>0, <1>2, <1>3, <2>1 DEF Saving, Fwd, Back
<1>9. Reversible(p)'
  <2> SUFFICES ASSUME clean'[p]
               PROVE  /\ \A u \in Sources : (\A e \in RangeOf(front) : e[1] # u) =>
                           cache'[u] = before[p].cache[u] /\ backup'[u] = before[p].backup[u]
                      /\ \A e \in RangeOf(front) :
                           IF e[2]
                           THEN /\ before[p].backup[e[1]] = Absent
                                /\ before[p].cache[e[1]] = backup'[e[1]] /\ backup'[e[1]] # Absent
                           ELSE before[p].cache[e[1]] = Absent /\ before[p].backup[e[1]] = backup'[e[1]]
      BY <1>0 DEF Reversible
  <2>1. /\ clean[p] /\ cache'[l[1]] = backup[l[1]] /\ backup'[l[1]] = Absent
        /\ \A u \in Sources : u # l[1] => cache'[u] = cache[u] /\ backup'[u] = backup[u]
        BY <1>5
  <2>2. before[p].backup[l[1]] = Absent /\ before[p].cache[l[1]] = backup[l[1]]
        BY <1>3, <1>4, <1>6, <2>1
  <2>3. ASSUME NEW u \in Sources, \A e \in RangeOf(front) : e[1] # u
        PROVE  cache'[u] = before[p].cache[u] /\ backup'[u] = before[p].backup[u]
    <3>1. CASE u = l[1]  BY <2>1, <2>2, <3>1
    <3>2. CASE u # l[1]
      <4>1. \A e \in RangeOf(q) : e[1] # u  BY <1>3, <2>3, <3>2
      <4> QED  BY <1>6, <2>1, <3>2, <4>1
    <3> QED  BY <3>1, <3>2
  <2>4. \A e \in RangeOf(front) : backup'[e[1]] = backup[e[1]]  BY <1>3, <2>1
  <2> QED  BY <1>3, <1>6, <2>1, <2>3, <2>4
<1>10. Restoring(p)' /\ Forward(p)' /\ Finishing(p)'
      BY <1>0 DEF Restoring, Forward, Finishing, Fwd
<1> QED  BY <1>0, <1>7, <1>8, <1>9, <1>10, OnlyWorker DEF Work, Types

LEMMA ForgetStep ==
    ASSUME Types, Alone, Recoverable, NEW p \in Processes, at[p] # "idle", Forget(p), UNCHANGED disk
    PROVE  Preserved'
<1>1. at' = [at EXCEPT ![p] = "idle"]  BY DEF Forget, Move
<1>2. \A q \in Processes : at'[q] = "idle"  BY <1>1 DEF Types, StepTypes, Alone
<1>3. Recoverable'  BY DEF Recoverable, disk
<1> QED  BY <1>2, <1>3, NobodyWorks

LEMMA PreservedStep == Types /\ Preserved /\ [Next]_vars => Preserved'
<1> SUFFICES ASSUME Types, Preserved, [Next]_vars, ~overlapped' PROVE Preserved'
    BY DEF Preserved
<1>0. overlapped => overlapped'
  <2>1. CASE \E p \in Processes : Acquire(p)  BY <2>1 DEF Acquire
  <2>2. CASE UNCHANGED overlapped  BY <2>2
  <2>3. (\E p \in Processes : Acquire(p)) \/ UNCHANGED overlapped
        BY DEF Next, Fetched, FetchFails, Interrupted, Displace, Install, WriteLock, Clean, Commit,
               RemovePublished, RestoreBackup, RolledBack, Release, Crash, OrphanEnds, HolderDies, vars
  <2> QED  BY <2>1, <2>2, <2>3
<1>1. Alone /\ Recoverable /\ \A p \in Processes : Work(p)  BY <1>0 DEF Preserved
<1>2. ASSUME NEW p \in Processes, Acquire(p) PROVE Preserved'
      BY <1>1, <1>2, AcquireStep
<1>3. ASSUME NEW p \in Processes, FetchFails(p) \/ Interrupted(p) \/ Commit(p) \/ RolledBack(p) PROVE Preserved'
      BY <1>1, <1>3, EndStep
<1>4. ASSUME NEW p \in Processes, NEW found \in [Sources -> Contents], Fetched(p, found) PROVE Preserved'
      BY <1>1, <1>4, FetchedStep
<1>5. ASSUME NEW p \in Processes, Displace(p) \/ Install(p) \/ WriteLock(p) \/ Clean(p) PROVE Preserved'
      BY <1>1, <1>5, DisplaceStep, InstallStep, WriteLockStep, CleanStep
<1>6. ASSUME NEW p \in Processes, RemovePublished(p) \/ RestoreBackup(p) PROVE Preserved'
      BY <1>1, <1>6, RemoveStep, RestoreStep
<1>7. ASSUME NEW p \in Processes, Release(p) \/ Crash(p) PROVE Preserved'
  <2>1. at[p] # "idle" /\ Forget(p) /\ UNCHANGED disk  BY <1>7 DEF Release, Crash
  <2> QED  BY <1>1, <1>7, <2>1, ForgetStep
<1>8. CASE OrphanEnds \/ HolderDies \/ UNCHANGED vars
  <2>1. UNCHANGED <<lock, cache, backup, at, read, staged, todo, installed, clean, outcome, before>>
        BY <1>8 DEF OrphanEnds, HolderDies, vars, disk, own
  <2>2. Alone'  BY <1>1, <2>1 DEF Alone
  <2>3. Recoverable'  BY <1>1, <2>1 DEF Recoverable
  <2>4. ASSUME NEW p \in Processes PROVE Work(p)'
    <3>1. Work(p)  BY <1>1
    <3>2. Saving(p)' /\ Forward(p)'  BY <2>1, <3>1 DEF Work, Saving, Forward
    <3>3. Reversible(p)' /\ Restoring(p)'  BY <2>1, <3>1 DEF Work, Reversible, Restoring, Last
    <3>4. Finishing(p)'  BY <2>1, <3>1 DEF Work, Finishing, Whole, Now
    <3> QED  BY <3>2, <3>3, <3>4 DEF Work
  <2>5. \A p \in Processes : Work(p)'  BY <2>4
  <2> QED  BY <2>2, <2>3, <2>5 DEF Preserved
<1> QED  BY <1>2, <1>3, <1>4, <1>5, <1>6, <1>7, <1>8 DEF Next

LEMMA PreservedAlways == Spec => []Preserved
BY TypesAlways, PreservedInit, PreservedStep, PTL DEF Spec

(* Whatever file operation fails and wherever a process is killed or loses    *)
(* the curator, the objects of each locked version are in the cache or in the *)
(* backup beside it, as long as no two curators were at work at once.         *)
THEOREM LockedIsRecoverableHolds == Spec => []LockedIsRecoverable
<1>1. Preserved => LockedIsRecoverable  BY DEF Preserved, LockedIsRecoverable
<1> QED  BY <1>1, PreservedAlways, PTL

(* A transaction reports what became of it: everything done, everything as it *)
(* was, or, when undoing failed or the holder died, the old lock file.        *)
THEOREM AllOrNothingHolds == Spec => []AllOrNothing
<1>1. Preserved => AllOrNothing  BY DEF Preserved, Work, Finishing, AllOrNothing
<1> QED  BY <1>1, PreservedAlways, PTL
-----------------------------------------------------------------------------
(* Part 2, the commands over catalog, lock file, caches and checkouts         *)
(* (ReferenceCheckouts). What the files, a process and its job are.           *)
JobFields == {"step", "kind", "broad", "catalog", "entries", "todo", "failed", "locked", "fetched",
              "installed", "moved", "seen", "ref", "built", "report"}
EntryFields == {"origin", "track", "ref", "commit", "tree", "digest", "acquisition", "verified", "licenses"}
RepositoryFields == {"url", "head", "refs", "whole", "partial", "defect"}
Publication == {"installing", "cleaning", "removing", "restoring"}
Holding == {"working", "naming", "confirming", "cloning", "probing", "fetching", "publishing"} \cup Publication
Locking(p) ==
    /\ job[p].step \in {"working", "naming", "confirming", "installing"}
    /\ job[p].kind \in {"lock offline", "lock online"}

(* A remote entry is of a commit its origin has shown; the refs of a cache    *)
(* point at objects it has, unless it was damaged. What an entry promises can *)
(* be replayed from the cache or, as long as that is aside, from its backup.  *)
Truthful(e) ==
    e # Refused =>
        /\ DOMAIN e = EntryFields
        /\ e.acquisition = "remote" => <<e.origin, e.ref, e.tree>> \in advertised
IsCache(o) ==
    o # Refused =>
        /\ DOMAIN o = RepositoryFields
        /\ \A r \in Refs : o.refs[r] # 0 => o.refs[r] \in o.whole \/ o.partial # {}
Promised(e) == e # Refused /\ e.acquisition # "local-sibling"
Replays(e, o) ==
    o # Refused /\ (e.tree \in o.whole \/ (e.acquisition = "local-object-cache" /\ o.partial # {}))
Replayable(e, o, s) == s \in harmed \/ (Promised(e) => Replays(e, o))
Held(e, s) == Replayable(e, Whereabouts(s), s)
IsCheckout(c) == c # Refused => c \in Worktrees({c.head})
Located(c) == \A s \in SourceIds : c[s] # Refused => c[s].origin \in DOMAIN FirstOrigins

Files ==
    /\ budget \in [commands: Nat, edits: Nat, stops: Nat, faults: Nat]
    /\ DOMAIN catalog = SourceIds /\ DOMAIN origins = DOMAIN FirstOrigins
    /\ DOMAIN entries = SourceIds /\ DOMAIN objects = SourceIds /\ DOMAIN backups = SourceIds
    /\ DOMAIN checkouts = SourceIds /\ DOMAIN job = Tools /\ curator \in Tools \cup {Free}
World ==
    /\ Located(catalog)
    /\ \A url \in DOMAIN origins : ShownBy(url, origins[url]) \subseteq advertised
    /\ \A s \in SourceIds : /\ Truthful(entries[s]) /\ IsCheckout(checkouts[s])
                            /\ IsCache(objects[s]) /\ IsCache(backups[s]) /\ Held(entries[s], s)

(* A job: its form; where it is; what it knows; of a lock under way, that     *)
(* what it would write can be replayed; and how far a publication is.         *)
Form(p) ==
    /\ DOMAIN job[p] = JobFields
    /\ job[p].todo \in SUBSET SourceIds
    /\ job[p].installed \in SUBSET SourceIds /\ job[p].moved \in SUBSET SourceIds
    /\ DOMAIN job[p].locked = SourceIds /\ DOMAIN job[p].fetched = SourceIds
Place(p) ==
    /\ job[p].step \in {"idle", "begun", "wanting", "reporting"} \cup Holding
    /\ job[p].step \in Holding => curator = p
    /\ job[p].step \in Holding \ (Publication \cup {"working"}) => job[p].todo # {}
    /\ job[p].step \in {"naming", "confirming"} => job[p].kind = "lock online" /\ job[p].seen # 0
    /\ job[p].step = "confirming" => job[p].ref \in Refs
    /\ job[p].step \in {"cloning", "probing", "fetching", "publishing"} => Materializes(p)
    /\ job[p].step = "publishing" => job[p].built = CheckedOut(EntryOf(p).commit)
Knows(p) ==
    /\ Located(job[p].catalog) /\ \A s \in job[p].todo : job[p].catalog[s] # Refused
    /\ \A s \in SourceIds : Truthful(job[p].entries[s]) /\ Truthful(job[p].locked[s])
    /\ job[p].step = "reporting" => Loads(job[p].entries)
Told(p) ==
    \A r \in {job[p].report} \ {Refused} :
        r.state \in {"materialized_verified", "materialized_with_visible_assumption"} =>
            /\ r.checkout = CheckedOut(r.entry.commit)
            /\ r.state = "materialized_verified" =>
                   <<r.entry.origin, r.entry.ref, r.entry.commit>> \in advertised
Ready(p, s) ==
    /\ job[p].locked[s] = Refused => Held(job[p].entries[s], s)
    /\ job[p].fetched[s] # Refused =>
          job[p].locked[s] # Refused /\ IsCache(job[p].fetched[s]) /\ Replays(job[p].locked[s], job[p].fetched[s])
    /\ job[p].kind = "lock online" /\ job[p].locked[s] # Refused => job[p].fetched[s] # Refused
    /\ job[p].kind = "lock offline" => Replayable(job[p].locked[s], objects[s], s)
Prepares(p) ==
    /\ job[p].step \in {"begun", "wanting"} \/ job[p].kind = "lock offline" =>
           \A s \in SourceIds : job[p].fetched[s] = Refused
    /\ job[p].step \in {"begun", "wanting"} =>
           \A s \in SourceIds : job[p].locked[s] = Refused
    /\ Locking(p) => \A s \in SourceIds : Ready(p, s)

(* A cache that was installed beside a cache aside endangers no entry, nor    *)
(* does one that was installed where no promised cache was.                   *)
Unpromised(s) == s \in harmed \/ s \in aside \/ ~Promised(entries[s])
Swaps(p) ==
    /\ job[p].installed # {} \/ job[p].moved # {} \/ job[p].step \in Publication =>
          job[p].kind = "lock online" /\ job[p].todo = {} /\ job[p].step \in Publication \cup {"working"}
    /\ \A s \in job[p].installed : job[p].fetched[s] # Refused
    /\ job[p].step \in {"working", "removing", "restoring"} => job[p].moved \subseteq job[p].installed
    /\ job[p].step = "installing" =>
          /\ Left(p) # {} /\ objects[Foremost(Left(p))] = Refused
          /\ job[p].moved \subseteq job[p].installed \cup {Foremost(Left(p))}
    /\ job[p].step = "cleaning" => job[p].moved \cap aside = {}
    /\ job[p].step # "cleaning" => job[p].moved \subseteq aside /\ \A s \in job[p].installed : Unpromised(s)
    /\ job[p].step \in {"working", "installing"} =>
          \A s \in job[p].installed : s \in harmed \/ objects[s] = job[p].fetched[s]
    /\ job[p].step = "restoring" => job[p].installed # {} /\ Hindmost(job[p].installed) \in job[p].moved
Lawful(p) == Form(p) /\ Place(p) /\ Knows(p) /\ Told(p) /\ Prepares(p) /\ Swaps(p)
CheckoutCustody == Files /\ World /\ \A p \in Tools : Lawful(p)

LEMMA ForemostIsListed == ASSUME NEW S \in SUBSET SourceIds, S # {} PROVE Foremost(S) \in S
<1> DEFINE Places == {i \in DOMAIN AllIds : AllIds[i] \in S}
           R == OpToRel(<, Nat)
<1>1. AllIds \in Seq(SourceIds) /\ DOMAIN AllIds = 1 .. Len(AllIds) /\ Len(AllIds) \in Nat
      BY IdsAreOrdered
<1>2. Places # {} /\ Places \subseteq Nat  BY <1>1, IdsAreOrdered
<1>3. IsWellFoundedOn(R, Nat)  BY NatLessThanWellFounded
<1>4. \A a, b \in Nat : <<a, b>> \in R <=> a < b  BY DEF OpToRel
<1> HIDE DEF R, Places
<1>5. PICK n \in Places : \A m \in Places : ~(<<m, n>> \in R)
      BY <1>2, <1>3, WFMin, Zenon
<1>6. n \in DOMAIN AllIds /\ AllIds[n] \in S /\ \A j \in 1 .. n - 1 : AllIds[j] \notin S
  <2>1. n \in 1 .. Len(AllIds) /\ AllIds[n] \in S  BY <1>1, <1>5 DEF Places
  <2>2. ASSUME NEW j \in 1 .. n - 1, AllIds[j] \in S PROVE FALSE
    <3>1. j \in Places /\ j \in Nat /\ n \in Nat /\ j < n  BY <1>1, <2>1, <2>2 DEF Places
    <3> QED  BY <1>4, <1>5, <3>1
  <2> QED  BY <1>1, <2>1, <2>2
<1> QED  BY <1>6, Zenon DEF Foremost

LEMMA HindmostIsListed == ASSUME NEW S \in SUBSET SourceIds, S # {} PROVE Hindmost(S) \in S
<1> DEFINE n == Len(AllIds)
           Places == {k \in Nat : n - k \in DOMAIN AllIds /\ AllIds[n - k] \in S}
           R == OpToRel(<, Nat)
<1>1. DOMAIN AllIds = 1 .. n /\ n \in Nat  BY IdsAreOrdered
<1>2. Places # {} /\ Places \subseteq Nat
  <2>1. PICK i \in DOMAIN AllIds : AllIds[i] \in S  BY IdsAreOrdered
  <2>2. n - i \in Nat /\ n - (n - i) = i  BY <1>1, <2>1
  <2> QED  BY <2>1, <2>2
<1>3. IsWellFoundedOn(R, Nat)  BY NatLessThanWellFounded
<1>4. \A a, b \in Nat : <<a, b>> \in R <=> a < b  BY DEF OpToRel
<1> HIDE DEF R, Places, n
<1>5. PICK k \in Places : \A m \in Places : ~(<<m, k>> \in R)
      BY <1>2, <1>3, WFMin, Zenon
<1>6. n - k \in DOMAIN AllIds /\ AllIds[n - k] \in S /\ \A j \in DOMAIN AllIds : j > n - k => AllIds[j] \notin S
  <2>1. n - k \in DOMAIN AllIds /\ AllIds[n - k] \in S /\ k \in Nat  BY <1>5 DEF Places
  <2>2. ASSUME NEW j \in DOMAIN AllIds, j > n - k, AllIds[j] \in S PROVE FALSE
    <3>1. n - j \in Nat /\ n - (n - j) = j /\ n - j < k  BY <1>1, <2>1, <2>2
    <3>2. n - j \in Places  BY <2>2, <3>1 DEF Places
    <3> QED  BY <1>4, <1>5, <2>1, <3>1, <3>2
  <2> QED  BY <2>1, <2>2
<1> QED  BY <1>6, Zenon DEF Hindmost

(* Nothing is installed but by a remote lock that has no source left to lock. *)
LEMMA NothingInstalled ==
    ASSUME NEW p, Lawful(p),
           \/ job[p].todo # {} \/ job[p].kind # "lock online"
           \/ job[p].step \notin Publication \cup {"working"}
    PROVE  job[p].installed = {} /\ job[p].moved = {} /\ job[p].step \notin Publication
BY DEF Lawful, Swaps

LEMMA NoSwaps ==
    ASSUME NEW p, job[p].installed = {}, job[p].moved = {}, job[p].step \notin Publication
    PROVE  Swaps(p)
BY DEF Swaps, Publication

(* A command that ends leaves a lawful job.                                   *)
LEMMA IdleIsLawful ==
    ASSUME NEW p \in Tools, job'[p] = Idle PROVE Lawful(p)'
<1>1. Form(p)'  BY DEF Form, Idle, NoneYet, JobFields
<1>2. Place(p)'  BY DEF Place, Idle, Holding, Publication
<1>3. Knows(p)'  BY DEF Knows, Idle, NoneYet, Located, Truthful
<1>4. Told(p)'  BY DEF Told, Idle
<1>5. Prepares(p)'  BY DEF Prepares, Idle, NoneYet, Locking
<1>6. Swaps(p)'  BY DEF Swaps, Idle, Publication
<1> QED  BY <1>1, <1>2, <1>3, <1>4, <1>5, <1>6 DEF Lawful

(* A process that does not act keeps a lawful job, while nobody takes the     *)
(* curator lock from it and, as long as it has that, no cache changes and no  *)
(* entry comes to promise more.                                               *)
Undisturbed ==
    /\ UNCHANGED <<objects, backups, aside, harmed>>
    /\ \A s \in SourceIds : Promised(entries[s])' => Promised(entries[s])
LEMMA OthersStayLawful ==
    ASSUME NEW q \in Tools, Lawful(q), job'[q] = job[q], advertised \subseteq advertised',
           curator = q => curator' = q, Undisturbed \/ job[q].step \notin Holding
    PROVE  Lawful(q)'
<1>1. Form(q)'  BY DEF Lawful, Form
<1>2. Place(q)'
  <2>1. EntryOf(q)' = EntryOf(q) /\ Materializes(q)' = Materializes(q)
        BY DEF EntryOf, Id, Materializes
  <2> QED  BY <2>1 DEF Lawful, Place
<1>3. Knows(q)'  BY DEF Lawful, Knows, Truthful, Loads
<1>4. Told(q)'  BY DEF Lawful, Told
<1>5. CASE job[q].step \notin Holding
  <2>1. job[q].installed = {} /\ job[q].moved = {} /\ job[q].step \notin Publication
        BY <1>5, NothingInstalled DEF Holding
  <2>2. Swaps(q)'  BY <2>1 DEF Swaps, Publication
  <2>3. Prepares(q)'  BY <1>5 DEF Lawful, Prepares, Locking, Holding, Publication
  <2> QED  BY <1>1, <1>2, <1>3, <1>4, <2>2, <2>3 DEF Lawful
<1>6. CASE Undisturbed
  <2>1. \A s \in SourceIds : Ready(q, s) => Ready(q, s)'
        BY <1>6 DEF Undisturbed, Ready, Held, Replayable, Whereabouts, Replays, Promised, IsCache
  <2>2. Prepares(q)'  BY <2>1 DEF Lawful, Prepares, Locking
  <2>3. \A s \in job[q].installed : Unpromised(s) => Unpromised(s)'
        BY <1>6 DEF Undisturbed, Unpromised, Lawful, Form
  <2>4. Left(q)' = Left(q)  BY DEF Left
  <2>5. Swaps(q)'  BY <1>6, <2>3, <2>4 DEF Undisturbed, Lawful, Swaps
  <2> QED  BY <1>1, <1>2, <1>3, <1>4, <2>2, <2>5 DEF Lawful
<1> QED  BY <1>5, <1>6

(* What a job would write stays safe while no cache that it counts on goes.   *)
LEMMA ReadyStays ==
    ASSUME NEW p, NEW s, Ready(p, s), UNCHANGED harmed,
           job[p].locked[s] = Refused => Whereabouts(s)' = Whereabouts(s),
           job[p].kind = "lock offline" => UNCHANGED objects,
           job'[p].kind = job[p].kind, job'[p].entries[s] = job[p].entries[s],
           job'[p].locked[s] = job[p].locked[s], job'[p].fetched[s] = job[p].fetched[s]
    PROVE  Ready(p, s)'
<1>1. (job[p].locked[s] = Refused)' = (job[p].locked[s] = Refused)
      /\ (job[p].fetched[s] = Refused)' = (job[p].fetched[s] = Refused)
      OBVIOUS
<1>2. job[p].locked[s] = Refused => (Held(job[p].entries[s], s) => Held(job[p].entries[s], s)')
      BY DEF Held, Replayable, Replays, Promised
<1>3. IsCache(job[p].fetched[s]) => IsCache(job[p].fetched[s])'  BY DEF IsCache
<1>4. Replays(job[p].locked[s], job[p].fetched[s]) => Replays(job[p].locked[s], job[p].fetched[s])'
      BY DEF Replays
<1>5. job[p].kind = "lock offline" =>
         (Replayable(job[p].locked[s], objects[s], s) => Replayable(job[p].locked[s], objects[s], s)')
      BY DEF Replayable, Replays, Promised
<1> QED  BY <1>1, <1>2, <1>3, <1>4, <1>5 DEF Ready

(* A step of one process that changes neither files nor what is around them.  *)
Budgets == [commands: Nat, edits: Nat, stops: Nat, faults: Nat]
LEMMA CommandStep ==
    ASSUME CheckoutCustody, NEW p \in Tools, UNCHANGED <<world, kept>>,
           DOMAIN job' = Tools, \A q \in Tools \ {p} : job'[q] = job[q],
           budget' \in Budgets, curator' \in Tools \cup {Free},
           \A q \in Tools \ {p} : curator = q => curator' = q,
           Lawful(p)'
    PROVE  CheckoutCustody'
<1>0. UNCHANGED <<catalog, origins, siblings, advertised, harmed, entries, objects, backups, aside, checkouts>>
      BY DEF world, kept, caches
<1>1. Files'  BY <1>0 DEF CheckoutCustody, Files, Budgets
<1>2. World'
      BY <1>0 DEF CheckoutCustody, World, Located, Truthful, ShownBy, IsCache, IsCheckout, Held, Replayable,
         Whereabouts, Replays, Promised
<1>3. ASSUME NEW q \in Tools PROVE Lawful(q)'
  <2>1. CASE q = p  BY <2>1
  <2>2. CASE q # p
    <3>1. Lawful(q) /\ job'[q] = job[q] /\ advertised \subseteq advertised' /\ Undisturbed
          BY <1>0, <1>3, <2>2 DEF CheckoutCustody, Undisturbed
    <3> QED  BY <1>3, <2>2, <3>1, OthersStayLawful
  <2> QED  BY <2>1, <2>2
<1> QED  BY <1>1, <1>2, <1>3 DEF CheckoutCustody

LEMMA FinishStep ==
    ASSUME CheckoutCustody, NEW p \in Tools, UNCHANGED <<world, kept>>, Finish(p), budget' \in Budgets
    PROVE  CheckoutCustody'
<1>1. DOMAIN job' = Tools /\ job'[p] = Idle /\ \A q \in Tools \ {p} : job'[q] = job[q]
      BY DEF Finish, Becomes, CheckoutCustody, Files
<1>2. curator' \in Tools \cup {Free} /\ \A q \in Tools \ {p} : curator = q => curator' = q
      BY DEF Finish, CheckoutCustody, Files
<1> QED  BY <1>1, <1>2, IdleIsLawful, CommandStep

LEMMA BudgetStep ==
    ASSUME CheckoutCustody
    PROVE  /\ budget \in Budgets
           /\ Fault => budget' \in Budgets /\ budget'.edits = budget.edits
           /\ \A max : /\ May("commands", max) => budget' \in Budgets /\ budget'.edits = budget.edits
                       /\ May("stops", max) => budget' \in Budgets /\ budget'.edits = budget.edits
                       /\ May("edits", max) => budget' \in Budgets /\ budget'.edits # budget.edits
<1>1. budget \in Budgets  BY DEF CheckoutCustody, Files, Budgets
<1> QED  BY <1>1 DEF Fault, May, Budgets

(* A process at work goes from one step to another and has the same inputs    *)
(* and results, and as much to do or less.                                    *)
LEMMA GoingOn ==
    ASSUME CheckoutCustody, NEW p \in Tools, UNCHANGED <<world, kept, curator, budget>>,
           DOMAIN job' = Tools, \A q \in Tools \ {p} : job'[q] = job[q],
           job[p].step \in Holding, job'[p].step \in Holding \ Publication,
           job[p].todo # {} \/ job[p].kind # "lock online",
           DOMAIN job'[p] = JobFields,
           job'[p].kind = job[p].kind, job'[p].catalog = job[p].catalog, job'[p].entries = job[p].entries,
           job'[p].locked = job[p].locked, job'[p].fetched = job[p].fetched, job'[p].report = job[p].report,
           job'[p].installed = job[p].installed, job'[p].moved = job[p].moved,
           job'[p].todo \subseteq job[p].todo, Locking(p)' => Locking(p), Place(p)'
    PROVE  CheckoutCustody'
<1>0. Lawful(p)  BY DEF CheckoutCustody
<1>1. Form(p)'  BY <1>0 DEF Lawful, Form
<1>2. Knows(p)'  BY <1>0 DEF Lawful, Knows, Truthful, Loads, world, Holding, Publication
<1>3. Told(p)'  BY <1>0 DEF Lawful, Told, world
<1>4. Prepares(p)'
  <2>1. job'[p].step \notin {"begun", "wanting"}  BY DEF Holding, Publication
  <2>2. UNCHANGED <<objects, backups, aside, harmed>>  BY DEF world, kept, caches
  <2>3. \A s \in SourceIds : Ready(p, s) => Ready(p, s)'  BY <2>2, ReadyStays DEF Whereabouts
  <2> QED  BY <1>0, <2>1, <2>3 DEF Lawful, Prepares
<1>5. job[p].installed = {} /\ job[p].moved = {}  BY <1>0, NothingInstalled
<1>6. Swaps(p)'  BY <1>5 DEF Swaps, Publication
<1>7. Lawful(p)'  BY <1>1, <1>2, <1>3, <1>4, <1>6 DEF Lawful
<1>8. budget' \in Budgets /\ curator' \in Tools \cup {Free} /\ \A q \in Tools \ {p} : curator = q => curator' = q
      BY BudgetStep DEF CheckoutCustody, Files
<1> QED  BY <1>7, <1>8, CommandStep

LEMMA FailStep ==
    ASSUME CheckoutCustody, NEW p \in Tools, UNCHANGED <<world, kept, budget>>, Fail(p),
           job[p].step \in Holding,
           (job[p].step \in {"working", "naming", "confirming"} /\ job[p].todo # {}) \/ Materializes(p)
    PROVE  CheckoutCustody'
<1>0. DOMAIN job = Tools /\ DOMAIN job[p] = JobFields /\ Place(p)
      BY DEF CheckoutCustody, Files, Lawful, Form
<1>1. UNCHANGED curator /\ DOMAIN job' = Tools /\ \A q \in Tools \ {p} : job'[q] = job[q]
      BY <1>0 DEF Fail, Proceed, Becomes
<1>2. /\ DOMAIN job'[p] = JobFields /\ job'[p].step = "working" /\ job'[p].todo \subseteq job[p].todo
      /\ job'[p].kind = job[p].kind /\ job'[p].catalog = job[p].catalog /\ job'[p].entries = job[p].entries
      /\ job'[p].locked = job[p].locked /\ job'[p].fetched = job[p].fetched /\ job'[p].report = job[p].report
      /\ job'[p].installed = job[p].installed /\ job'[p].moved = job[p].moved
      BY <1>0 DEF Fail, Proceed, Becomes, JobFields
<1>3. Place(p)'  BY <1>0, <1>1, <1>2 DEF Place, Holding, Publication
<1>4. Locking(p)' => Locking(p)  BY <1>2 DEF Locking, Materializes
<1> QED  BY <1>1, <1>2, <1>3, <1>4, GoingOn DEF Holding, Publication, Materializes

LEMMA BeginStep == ASSUME CheckoutCustody, NEW p \in Tools, Begin(p) PROVE CheckoutCustody'
<1>1. PICK ids \in Selections(catalog), kind \in Kinds, broad \in BOOLEAN :
         Becomes(p, [Idle EXCEPT !.step = "begun", !.kind = kind, !.broad = broad,
                                 !.catalog = catalog, !.todo = ids])
      BY DEF Begin
<1>2. /\ DOMAIN job' = Tools /\ \A q \in Tools \ {p} : job'[q] = job[q]
      /\ DOMAIN job'[p] = JobFields /\ job'[p].step = "begun" /\ job'[p].todo = ids
      /\ job'[p].catalog = catalog /\ job'[p].entries = NoneYet
      /\ job'[p].locked = NoneYet /\ job'[p].fetched = NoneYet /\ job'[p].report = Refused
      /\ job'[p].installed = {} /\ job'[p].moved = {}
      BY <1>1 DEF Becomes, Idle, JobFields, CheckoutCustody, Files
<1>3. ids \subseteq SourceIds /\ \A s \in ids : catalog[s] # Refused
      BY DEF Selections, InCatalog
<1>4. Form(p)'  BY <1>2, <1>3 DEF Form, NoneYet
<1>5. Place(p)'  BY <1>2 DEF Place, Holding, Publication
<1>6. Knows(p)'  BY <1>2, <1>3 DEF Knows, NoneYet, Truthful, CheckoutCustody, World, Located
<1>7. Told(p)' /\ Prepares(p)' /\ Swaps(p)'
      BY <1>2 DEF Told, Prepares, NoneYet, Locking, Swaps, Publication
<1>8. UNCHANGED <<world, kept, curator>> /\ curator \in Tools \cup {Free}
      BY DEF Begin, CheckoutCustody, Files
<1>9. budget' \in Budgets  BY BudgetStep DEF Begin
<1> QED  BY <1>2, <1>4, <1>5, <1>6, <1>7, <1>8, <1>9, CommandStep DEF Lawful

LEMMA LoadForStatusStep == ASSUME CheckoutCustody, NEW p \in Tools, LoadForStatus(p) PROVE CheckoutCustody'
<1>0. UNCHANGED <<world, kept, budget>> /\ budget' \in Budgets  BY BudgetStep DEF LoadForStatus
<1>1. CASE Finish(p)  BY <1>0, <1>1, FinishStep
<1>2. CASE Loads(entries) /\ Becomes(p, [job[p] EXCEPT !.step = "reporting", !.entries = entries]) /\ UNCHANGED curator
  <2>1. Lawful(p) /\ DOMAIN job = Tools /\ DOMAIN job[p] = JobFields /\ curator \in Tools \cup {Free}
        BY DEF CheckoutCustody, Files, Lawful, Form
  <2>2. /\ DOMAIN job' = Tools /\ \A q \in Tools \ {p} : job'[q] = job[q]
        /\ DOMAIN job'[p] = JobFields /\ job'[p].step = "reporting" /\ job'[p].entries = entries
        /\ job'[p].kind = job[p].kind /\ job'[p].todo = job[p].todo /\ job'[p].catalog = job[p].catalog
        /\ job'[p].locked = job[p].locked /\ job'[p].fetched = job[p].fetched /\ job'[p].report = job[p].report
        /\ job'[p].installed = job[p].installed /\ job'[p].moved = job[p].moved
        BY <1>2, <2>1 DEF Becomes, JobFields
  <2>3. Form(p)'  BY <2>1, <2>2 DEF Lawful, Form
  <2>4. Place(p)'  BY <2>2 DEF Place, Holding, Publication
  <2>5. Knows(p)'
        BY <1>0, <1>2, <2>1, <2>2 DEF Lawful, Knows, Truthful, Loads, CheckoutCustody, World, world, kept
  <2>6. Told(p)' /\ Prepares(p)'  BY <1>0, <2>1, <2>2 DEF LoadForStatus, Lawful, Told, Prepares, Locking, world
  <2>7. job[p].installed = {} /\ job[p].moved = {}
        BY <2>1, NothingInstalled DEF LoadForStatus, Publication
  <2>8. Swaps(p)'  BY <2>2, <2>7 DEF Swaps, Publication
  <2> QED  BY <1>0, <1>2, <2>1, <2>2, <2>3, <2>4, <2>5, <2>6, <2>8, CommandStep DEF Lawful
<1> QED  BY <1>1, <1>2 DEF LoadForStatus

LEMMA LoadAgainStep == ASSUME CheckoutCustody, NEW p \in Tools, LoadAgain(p) PROVE CheckoutCustody'
<1>0. UNCHANGED <<world, kept, budget>> /\ budget' \in Budgets  BY BudgetStep DEF LoadAgain
<1>1. CASE Finish(p)  BY <1>0, <1>1, FinishStep
<1>2. ASSUME NEW lock2 \in {job[p].entries, entries}, NEW ids \in SUBSET job[p].todo,
             \A s \in job[p].todo : IsThere(catalog[s]), UNCHANGED curator,
             Becomes(p, [job[p] EXCEPT !.step = "wanting", !.catalog = catalog, !.entries = lock2, !.todo = ids])
      PROVE  CheckoutCustody'
  <2>1. Lawful(p) /\ DOMAIN job = Tools /\ DOMAIN job[p] = JobFields /\ curator \in Tools \cup {Free}
        BY DEF CheckoutCustody, Files, Lawful, Form
  <2>2. /\ DOMAIN job' = Tools /\ \A q \in Tools \ {p} : job'[q] = job[q]
        /\ DOMAIN job'[p] = JobFields /\ job'[p].step = "wanting" /\ job'[p].entries = lock2
        /\ job'[p].kind = job[p].kind /\ job'[p].todo = ids /\ job'[p].catalog = catalog
        /\ job'[p].locked = job[p].locked /\ job'[p].fetched = job[p].fetched /\ job'[p].report = job[p].report
        /\ job'[p].installed = job[p].installed /\ job'[p].moved = job[p].moved
        BY <1>2, <2>1 DEF Becomes, JobFields
  <2>3. Form(p)'  BY <1>2, <2>1, <2>2 DEF Lawful, Form
  <2>4. Place(p)'  BY <2>2 DEF Place, Holding, Publication
  <2>5. Knows(p)'
    <3>1. Located(job'[p].catalog) /\ \A s \in job'[p].todo : job'[p].catalog[s] # Refused
          BY <1>2, <2>2 DEF IsThere, CheckoutCustody, World
    <3>2. \A s \in SourceIds : Truthful(job[p].entries[s]) /\ Truthful(job[p].locked[s]) /\ Truthful(entries[s])
          BY <2>1 DEF Lawful, Knows, CheckoutCustody, World
    <3>3. \A s \in SourceIds : Truthful(lock2[s]) /\ Truthful(job[p].locked[s])
          BY <1>2, <3>2
    <3>4. \A s \in SourceIds : Truthful(job[p].entries[s])' /\ Truthful(job[p].locked[s])'
          BY <1>0, <2>2, <3>3 DEF Truthful, world
    <3> QED  BY <2>2, <3>1, <3>4 DEF Knows, Located
  <2>6. Told(p)' /\ Prepares(p)'
        BY <1>0, <2>1, <2>2 DEF LoadAgain, Lawful, Told, Prepares, Locking, world
  <2>7. job[p].installed = {} /\ job[p].moved = {}
        BY <2>1, NothingInstalled DEF LoadAgain, Publication
  <2>8. Swaps(p)'  BY <2>2, <2>7 DEF Swaps, Publication
  <2> QED  BY <1>0, <1>2, <2>1, <2>2, <2>3, <2>4, <2>5, <2>6, <2>8, CommandStep DEF Lawful
<1>3. CASE Becomes(p, [job[p] EXCEPT !.step = "wanting", !.catalog = catalog]) /\ UNCHANGED curator
           /\ \A s \in job[p].todo : IsThere(catalog[s])
  <2>1. [job[p] EXCEPT !.step = "wanting", !.catalog = catalog]
        = [job[p] EXCEPT !.step = "wanting", !.catalog = catalog, !.entries = job[p].entries, !.todo = job[p].todo]
    <3>1. DOMAIN job[p] = JobFields  BY DEF CheckoutCustody, Lawful, Form
    <3> QED  BY <3>1 DEF JobFields
  <2> QED  BY <1>2, <1>3, <2>1
<1>4. CASE /\ Becomes(p, [job[p] EXCEPT !.step = "wanting", !.catalog = catalog, !.entries = entries,
                                        !.todo = Candidates(p, job[p].todo)])
           /\ UNCHANGED curator /\ \A s \in job[p].todo : IsThere(catalog[s])
      BY <1>2, <1>4 DEF Candidates
<1> QED  BY <1>1, <1>3, <1>4 DEF LoadAgain

LEMMA AcquireCuratorStep == ASSUME CheckoutCustody, NEW p \in Tools, AcquireCurator(p) PROVE CheckoutCustody'
<1>0. UNCHANGED <<world, kept, budget>> /\ budget' \in Budgets  BY BudgetStep DEF AcquireCurator
<1>1. CASE Finish(p)  BY <1>0, <1>1, FinishStep
<1>2. ASSUME NEW lock2, NEW ids \in SUBSET job[p].todo, job[p].step = "wanting",
             curator = Free, curator' = p,
             \/ lock2 = entries
             \/ lock2 = job[p].entries /\ job[p].kind \notin {"lock offline", "lock online"},
             Becomes(p, [job[p] EXCEPT !.step = "working", !.entries = lock2, !.todo = ids])
      PROVE  CheckoutCustody'
  <2>1. Lawful(p) /\ DOMAIN job = Tools /\ DOMAIN job[p] = JobFields
        BY DEF CheckoutCustody, Files, Lawful, Form
  <2>2. /\ DOMAIN job' = Tools /\ \A q \in Tools \ {p} : job'[q] = job[q]
        /\ DOMAIN job'[p] = JobFields /\ job'[p].step = "working" /\ job'[p].entries = lock2
        /\ job'[p].kind = job[p].kind /\ job'[p].todo = ids /\ job'[p].catalog = job[p].catalog
        /\ job'[p].locked = job[p].locked /\ job'[p].fetched = job[p].fetched /\ job'[p].report = job[p].report
        /\ job'[p].installed = job[p].installed /\ job'[p].moved = job[p].moved
        BY <1>2, <2>1 DEF Becomes, JobFields
  <2>3. Form(p)'  BY <1>2, <2>1, <2>2 DEF Lawful, Form
  <2>4. Place(p)'  BY <1>2, <2>2 DEF Place, Holding, Publication
  <2>5. Knows(p)'
    <3>1. Located(job'[p].catalog) /\ \A s \in job'[p].todo : job'[p].catalog[s] # Refused
          BY <1>2, <2>1, <2>2 DEF Lawful, Knows
    <3>2. \A s \in SourceIds : Truthful(job[p].entries[s]) /\ Truthful(job[p].locked[s]) /\ Truthful(entries[s])
          BY <2>1 DEF Lawful, Knows, CheckoutCustody, World
    <3>3. \A s \in SourceIds : Truthful(lock2[s]) /\ Truthful(job[p].locked[s])
          BY <1>2, <3>2
    <3>4. \A s \in SourceIds : Truthful(job[p].entries[s])' /\ Truthful(job[p].locked[s])'
          BY <1>0, <2>2, <3>3 DEF Truthful, world
    <3> QED  BY <2>2, <3>1, <3>4 DEF Knows, Located
  <2>6. Told(p)'  BY <1>0, <2>1, <2>2 DEF Lawful, Told, world
  <2>7. Prepares(p)'
    <3>1. \A s \in SourceIds : job[p].fetched[s] = Refused /\ job[p].locked[s] = Refused
          BY <1>2, <2>1 DEF Lawful, Prepares
    <3>2. Locking(p)' => lock2 = entries  BY <1>2, <2>2 DEF Locking
    <3>3. \A s \in SourceIds : Held(entries[s], s)  BY DEF CheckoutCustody, World
    <3>4. UNCHANGED <<objects, backups, aside, harmed>>  BY <1>0 DEF world, kept, caches
    <3>5. ASSUME Locking(p)', NEW s \in SourceIds PROVE Ready(p, s)'
      <4>1. Held(job[p].entries[s], s)'
            BY <2>2, <3>2, <3>3, <3>4, <3>5 DEF Held, Replayable, Whereabouts, Replays, Promised
      <4> QED  BY <2>2, <3>1, <3>5, <4>1 DEF Ready, Replayable, Promised
    <3> QED  BY <2>2, <3>1, <3>5 DEF Prepares
  <2>9. job[p].installed = {} /\ job[p].moved = {}
        BY <1>2, <2>1, NothingInstalled DEF Publication
  <2>10. Swaps(p)'  BY <2>2, <2>9 DEF Swaps, Publication
  <2>8. curator' \in Tools \cup {Free} /\ \A q \in Tools \ {p} : curator = q => curator' = q
        BY <1>2, FreeIsNoTool
  <2> QED  BY <1>0, <2>2, <2>3, <2>4, <2>5, <2>6, <2>7, <2>8, <2>10, CommandStep DEF Lawful
<1>3. CASE /\ job[p].step = "wanting" /\ curator = Free /\ curator' = p
           /\ Becomes(p, [job[p] EXCEPT !.step = "working"]) /\ job[p].kind \notin {"lock offline", "lock online"}
  <2>1. [job[p] EXCEPT !.step = "working"]
        = [job[p] EXCEPT !.step = "working", !.entries = job[p].entries, !.todo = job[p].todo]
    <3>1. DOMAIN job[p] = JobFields  BY DEF CheckoutCustody, Lawful, Form
    <3> QED  BY <3>1 DEF JobFields
  <2> QED  BY <1>2, <1>3, <2>1
<1>4. CASE /\ job[p].step = "wanting" /\ curator = Free /\ curator' = p
           /\ Becomes(p, [job[p] EXCEPT !.step = "working", !.entries = entries,
                                        !.todo = {s \in job[p].todo : IsLockable(job[p].catalog[s])}])
      BY <1>2, <1>4
<1> QED  BY <1>1, <1>3, <1>4 DEF AcquireCurator

(* The next source of a process that has some left.                           *)
LEMMA NextSource ==
    ASSUME CheckoutCustody, NEW p \in Tools, job[p].todo # {}
    PROVE  /\ Id(p) \in SourceIds /\ Id(p) \in job[p].todo /\ Source(p) # Refused
           /\ Source(p).origin \in DOMAIN origins
<1>1. job[p].todo \in SUBSET SourceIds /\ Knows(p) /\ DOMAIN origins = DOMAIN FirstOrigins
      BY DEF CheckoutCustody, Lawful, Form, Files
<1>2. Id(p) \in job[p].todo  BY <1>1, ForemostIsListed DEF Id
<1>3. job[p].catalog[Id(p)] # Refused  BY <1>1, <1>2 DEF Knows
<1> QED  BY <1>1, <1>2, <1>3 DEF Knows, Located, Source

(* A selector that names one ref names one of the refs shown.                 *)
LEMMA OneRef ==
    ASSUME NEW location, NEW track
    PROVE  /\ ConcreteRef(location, track) # None =>
                  ConcreteRef(location, track) \in Refs /\ location.refs[ConcreteRef(location, track)] # 0
           /\ ResolveCommit(location, track) # 0 =>
                  \E r \in Refs : location.refs[r] # 0 /\ ResolveCommit(location, track) = location.refs[r]
<1> DEFINE M == Matching(location, track)
<1>1. \A r \in M : r \in Refs /\ location.refs[r] # 0  BY DEF Matching
<1> HIDE DEF M
<1>2. Cardinality(M) = 1 => M # {}  BY FS_EmptySet
<1>3. Cardinality(M) = 1 => (CHOOSE ref \in M : TRUE) \in M  BY <1>2
<1> QED  BY <1>1, <1>3 DEF M, ConcreteRef, ResolveCommit

(* The lock of a source is recorded, and with it, online, the cache.          *)
LEMMA RecordStep ==
    ASSUME CheckoutCustody, NEW p \in Tools, UNCHANGED <<world, kept, budget, curator>>,
           job[p].step \in {"working", "naming", "confirming"},
           job[p].kind \in {"lock offline", "lock online"}, job[p].todo # {},
           NEW e, NEW o, NEW new, Proceed(p, new), DOMAIN new = JobFields, new.todo = job[p].todo,
           new.kind = job[p].kind, new.catalog = job[p].catalog, new.entries = job[p].entries,
           new.report = job[p].report,
           DOMAIN new.locked = SourceIds /\ DOMAIN new.fetched = SourceIds,
           new.locked[Id(p)] = e /\ new.fetched[Id(p)] = o,
           \A s \in SourceIds \ {Id(p)} : new.locked[s] = job[p].locked[s] /\ new.fetched[s] = job[p].fetched[s],
           new.installed = job[p].installed /\ new.moved = job[p].moved,
           Truthful(e), e # Refused,
           o # Refused => job[p].kind = "lock online" /\ IsCache(o) /\ Replays(e, o),
           o = Refused => job[p].kind = "lock offline" /\ Replayable(e, objects[Id(p)], Id(p))
    PROVE  CheckoutCustody'
<1>1. /\ Lawful(p) /\ DOMAIN job = Tools /\ DOMAIN job[p] = JobFields /\ curator \in Tools \cup {Free}
      /\ DOMAIN job[p].locked = SourceIds /\ DOMAIN job[p].fetched = SourceIds
      BY DEF CheckoutCustody, Files, Lawful, Form
<1>2. Id(p) \in SourceIds  BY NextSource
<1>3. /\ DOMAIN job' = Tools /\ \A q \in Tools \ {p} : job'[q] = job[q]
      /\ DOMAIN job'[p] = JobFields /\ job'[p].step = "working" /\ job'[p].todo \subseteq job[p].todo
      /\ job'[p].entries = job[p].entries /\ job'[p].kind = job[p].kind /\ job'[p].catalog = job[p].catalog
      /\ job'[p].report = job[p].report
      /\ job'[p].installed = job[p].installed /\ job'[p].moved = job[p].moved
      /\ job'[p].locked = new.locked /\ job'[p].fetched = new.fetched
      BY <1>1 DEF Proceed, Becomes, JobFields
<1>4. Form(p)'  BY <1>1, <1>3 DEF Lawful, Form
<1>5. Place(p)'  BY <1>1, <1>3 DEF Lawful, Place, Holding, Publication
<1>6. Knows(p)'
  <2>1. \A s \in SourceIds : Truthful(job'[p].locked[s]) /\ Truthful(job'[p].entries[s])
        BY <1>1, <1>2, <1>3 DEF Lawful, Knows
  <2>2. \A s \in SourceIds : Truthful(job[p].locked[s])' /\ Truthful(job[p].entries[s])'
        BY <2>1 DEF Truthful, world
  <2> QED  BY <1>1, <1>3, <2>2 DEF Lawful, Knows
<1>7. Told(p)'  BY <1>1, <1>3 DEF Lawful, Told, world
<1>8. Prepares(p)'
  <2>1. Locking(p)  BY DEF Locking
  <2>2. \A s \in SourceIds \ {Id(p)} : job'[p].locked[s] = job[p].locked[s] /\ job'[p].fetched[s] = job[p].fetched[s]
        BY <1>1, <1>3
  <2>3. job'[p].locked[Id(p)] = e /\ job'[p].fetched[Id(p)] = o  BY <1>1, <1>2, <1>3
  <2>4. UNCHANGED <<objects, backups, aside, harmed>>  BY DEF world, kept, caches
  <2>5. ASSUME NEW s \in SourceIds PROVE Ready(p, s)'
    <3>1. Ready(p, s)  BY <1>1, <2>1 DEF Lawful, Prepares
    <3>2. CASE s = Id(p)
      <4>1. IsCache(o) => IsCache(job[p].fetched[s])'  BY <2>3, <3>2 DEF IsCache
      <4>2. Replays(e, o) => Replays(job[p].locked[s], job[p].fetched[s])'  BY <2>3, <3>2 DEF Replays
      <4>3. Replayable(e, objects[s], s) => Replayable(job[p].locked[s], objects[s], s)'
            BY <2>3, <2>4, <3>2 DEF Replayable, Replays, Promised
      <4> QED  BY <1>3, <2>3, <3>2, <4>1, <4>2, <4>3 DEF Ready
    <3>3. CASE s # Id(p)
      <4>1. job'[p].locked[s] = job[p].locked[s] /\ job'[p].fetched[s] = job[p].fetched[s]  BY <2>2, <2>5, <3>3
      <4> QED  BY <1>3, <2>4, <3>1, <4>1, ReadyStays DEF Whereabouts
    <3> QED  BY <3>2, <3>3
  <2>6. job[p].kind = "lock offline" => \A s \in SourceIds : job'[p].fetched[s] = Refused
        BY <1>1, <2>2, <2>3 DEF Lawful, Prepares
  <2> QED  BY <1>3, <2>5, <2>6 DEF Prepares
<1>9. job[p].installed = {} /\ job[p].moved = {}  BY <1>1, NothingInstalled
<1>10. Swaps(p)'  BY <1>3, <1>9 DEF Swaps, Publication
<1>11. budget' \in Budgets /\ curator' \in Tools \cup {Free} /\ \A q \in Tools \ {p} : curator = q => curator' = q
      BY <1>1, BudgetStep
<1> QED  BY <1>3, <1>4, <1>5, <1>6, <1>7, <1>8, <1>10, <1>11, CommandStep DEF Lawful

LEMMA ObserveSourceStep == ASSUME CheckoutCustody, NEW p \in Tools, ObserveSource(p) PROVE CheckoutCustody'
<1> DEFINE found == LockOffline(Source(p), objects[Id(p)], siblings[Id(p)])
<1>1. /\ job[p].step = "working" /\ job[p].kind = "lock offline" /\ job[p].todo # {}
      /\ UNCHANGED <<world, kept, budget>>
      BY DEF ObserveSource, Works
<1>2. CASE Fail(p)  BY <1>1, <1>2, FailStep DEF Holding
<1>3. CASE found # Refused /\ Proceed(p, [job[p] EXCEPT !.locked[Id(p)] = found]) /\ UNCHANGED curator
  <2>1. /\ DOMAIN job[p] = JobFields /\ DOMAIN job[p].locked = SourceIds /\ DOMAIN job[p].fetched = SourceIds
        /\ \A s \in SourceIds : job[p].fetched[s] = Refused
        BY <1>1 DEF CheckoutCustody, Lawful, Form, Prepares
  <2>2. Id(p) \in SourceIds  BY <1>1, NextSource
  <2> DEFINE new == [job[p] EXCEPT !.locked[Id(p)] = found]
  <2>3. /\ DOMAIN new = JobFields /\ new.todo = job[p].todo
        /\ new.kind = job[p].kind /\ new.catalog = job[p].catalog /\ new.entries = job[p].entries
        /\ new.report = job[p].report /\ new.installed = job[p].installed /\ new.moved = job[p].moved
        /\ DOMAIN new.locked = SourceIds /\ DOMAIN new.fetched = SourceIds
        /\ new.locked[Id(p)] = found /\ new.fetched[Id(p)] = Refused
        /\ \A s \in SourceIds \ {Id(p)} : new.locked[s] = job[p].locked[s] /\ new.fetched[s] = job[p].fetched[s]
        BY <2>1, <2>2 DEF JobFields
  <2>4. PICK from \in {objects[Id(p)], siblings[Id(p)]}, acquisition \in {"local-sibling", "local-object-cache"} :
           /\ found = ObserveOffline(Source(p), from, acquisition)
           /\ acquisition = "local-object-cache" => from = objects[Id(p)] /\ IsThere(objects[Id(p)])
        BY <1>3, Zenon DEF LockOffline, LockFromLocalSibling
  <2>5. PICK ref, commit :
           /\ found = Entry(Source(p), ref, commit, acquisition)
           /\ commit = ResolveCommit(from, Source(p).track) /\ commit # 0
        BY <1>3, <2>4 DEF ObserveOffline
  <2>6. /\ DOMAIN found = EntryFields /\ found.acquisition = acquisition /\ found.tree = commit
        BY <2>5 DEF Entry, EntryFields
  <2>7. Truthful(found)  BY <2>6 DEF Truthful
  <2>8. Replayable(found, objects[Id(p)], Id(p))
    <3>1. IsCache(objects[Id(p)])  BY <2>2 DEF CheckoutCustody, World
    <3>2. PICK r \in Refs : from.refs[r] # 0 /\ commit = from.refs[r]  BY <2>5, OneRef
    <3>3. ASSUME acquisition = "local-object-cache"
          PROVE  objects[Id(p)] # Refused /\ (commit \in objects[Id(p)].whole \/ objects[Id(p)].partial # {})
          BY <2>4, <3>1, <3>2, <3>3 DEF IsCache, IsThere
    <3> QED  BY <2>4, <2>6, <3>3 DEF Replayable, Replays, Promised
  <2> HIDE DEF found, new
  <2>9. Proceed(p, new)  BY <1>3 DEF new
  <2> QED  BY <1>1, <1>3, <2>3, <2>7, <2>8, <2>9, RecordStep
<1> QED  BY <1>2, <1>3 DEF ObserveSource

LEMMA FetchSelectorStep == ASSUME CheckoutCustody, NEW p \in Tools, FetchSelector(p) PROVE CheckoutCustody'
<1>1. /\ job[p].step = "working" /\ job[p].kind = "lock online" /\ job[p].todo # {}
      /\ UNCHANGED <<world, kept, budget>>
      BY DEF FetchSelector, Works
<1>2. CASE Fail(p)  BY <1>1, <1>2, FailStep DEF Holding
<1>3. ASSUME NEW commit, commit # 0, Becomes(p, [job[p] EXCEPT !.step = "naming", !.seen = commit]),
             UNCHANGED curator
      PROVE  CheckoutCustody'
  <2>1. DOMAIN job = Tools /\ DOMAIN job[p] = JobFields /\ Place(p)
        BY DEF CheckoutCustody, Files, Lawful, Form
  <2>2. /\ DOMAIN job' = Tools /\ \A q \in Tools \ {p} : job'[q] = job[q]
        /\ DOMAIN job'[p] = JobFields /\ job'[p].step = "naming" /\ job'[p].seen = commit
        /\ job'[p].todo = job[p].todo /\ job'[p].kind = job[p].kind /\ job'[p].catalog = job[p].catalog
        /\ job'[p].entries = job[p].entries /\ job'[p].locked = job[p].locked
        /\ job'[p].fetched = job[p].fetched /\ job'[p].report = job[p].report
        /\ job'[p].installed = job[p].installed /\ job'[p].moved = job[p].moved
        BY <1>3, <2>1 DEF Becomes, JobFields
  <2>3. Place(p)'  BY <1>1, <1>3, <2>1, <2>2 DEF Place, Holding, Publication
  <2> QED  BY <1>1, <1>3, <2>2, <2>3, GoingOn DEF Holding, Locking, Publication
<1> QED  BY <1>2, <1>3 DEF FetchSelector

LEMMA NameRefStep == ASSUME CheckoutCustody, NEW p \in Tools, NameRef(p) PROVE CheckoutCustody'
<1>1. /\ job[p].step = "naming" /\ UNCHANGED <<world, kept, budget>>  BY DEF NameRef
<1>0. job[p].todo # {}  BY <1>1 DEF CheckoutCustody, Lawful, Place, Holding, Publication
<1>2. CASE Fail(p)  BY <1>0, <1>1, <1>2, FailStep DEF Holding
<1>3. ASSUME NEW ref \in Refs, Becomes(p, [job[p] EXCEPT !.step = "confirming", !.ref = ref]),
             UNCHANGED curator
      PROVE  CheckoutCustody'
  <2>1. DOMAIN job = Tools /\ DOMAIN job[p] = JobFields /\ Place(p)
        BY DEF CheckoutCustody, Files, Lawful, Form
  <2>2. /\ DOMAIN job' = Tools /\ \A q \in Tools \ {p} : job'[q] = job[q]
        /\ DOMAIN job'[p] = JobFields /\ job'[p].step = "confirming" /\ job'[p].seen = job[p].seen
        /\ job'[p].ref = ref
        /\ job'[p].todo = job[p].todo /\ job'[p].kind = job[p].kind /\ job'[p].catalog = job[p].catalog
        /\ job'[p].entries = job[p].entries /\ job'[p].locked = job[p].locked
        /\ job'[p].fetched = job[p].fetched /\ job'[p].report = job[p].report
        /\ job'[p].installed = job[p].installed /\ job'[p].moved = job[p].moved
        BY <1>3, <2>1 DEF Becomes, JobFields
  <2>3. Place(p)'  BY <1>1, <1>3, <2>1, <2>2 DEF Place, Holding, Publication
  <2> QED  BY <1>0, <1>1, <1>3, <2>2, <2>3, GoingOn DEF Holding, Locking, Publication
<1>4. ConcreteRef(origins[Source(p).origin], Source(p).track) # None
      => ConcreteRef(origins[Source(p).origin], Source(p).track) \in Refs
      BY OneRef
<1> QED  BY <1>2, <1>3, <1>4 DEF NameRef

LEMMA ConfirmRefStep == ASSUME CheckoutCustody, NEW p \in Tools, ConfirmRef(p) PROVE CheckoutCustody'
<1>1. /\ job[p].step = "confirming" /\ UNCHANGED <<world, kept, budget>>  BY DEF ConfirmRef
<1>0. job[p].todo # {}  BY <1>1 DEF CheckoutCustody, Lawful, Place, Holding, Publication
<1>2. CASE Fail(p)  BY <1>0, <1>1, <1>2, FailStep DEF Holding
<1> DEFINE origin == Source(p).origin
           e == Entry(Source(p), job[p].ref, job[p].seen, "remote")
           o == ReplayCache(origin, job[p].ref, job[p].seen)
           new == [job[p] EXCEPT !.locked[Id(p)] = e, !.fetched[Id(p)] = o]
<1>3. CASE Confirms(origins[origin], job[p].ref, job[p].seen) /\ Proceed(p, new) /\ UNCHANGED curator
  <2>1. /\ DOMAIN job[p] = JobFields /\ DOMAIN job[p].locked = SourceIds /\ DOMAIN job[p].fetched = SourceIds
        /\ job[p].todo # {} /\ job[p].kind = "lock online" /\ job[p].seen # 0 /\ job[p].ref \in Refs
        BY <1>1 DEF CheckoutCustody, Lawful, Form, Place, Holding, Publication
  <2>2. Id(p) \in SourceIds /\ origin \in DOMAIN origins  BY <2>1, NextSource
  <2>3. /\ DOMAIN new = JobFields /\ new.todo = job[p].todo
        /\ new.kind = job[p].kind /\ new.catalog = job[p].catalog /\ new.entries = job[p].entries
        /\ new.report = job[p].report /\ new.installed = job[p].installed /\ new.moved = job[p].moved
        /\ DOMAIN new.locked = SourceIds /\ DOMAIN new.fetched = SourceIds
        /\ new.locked[Id(p)] = e /\ new.fetched[Id(p)] = o
        /\ \A s \in SourceIds \ {Id(p)} : new.locked[s] = job[p].locked[s] /\ new.fetched[s] = job[p].fetched[s]
        BY <2>1, <2>2 DEF JobFields
  <2>4. <<origin, job[p].ref, job[p].seen>> \in advertised
    <3>1. origins[origin].refs[job[p].ref] = job[p].seen
          BY <1>3, <2>1 DEF Confirms, Shown
    <3>2. <<origin, job[p].ref, job[p].seen>> \in ShownBy(origin, origins[origin])
          BY <2>1, <3>1 DEF ShownBy
    <3> QED  BY <2>2, <3>2 DEF CheckoutCustody, World
  <2>5. e # Refused /\ DOMAIN e = EntryFields /\ e.tree = job[p].seen /\ e.origin = origin /\ e.ref = job[p].ref
        BY DEF Entry, EntryFields, Refused
  <2>6. Truthful(e)  BY <2>4, <2>5 DEF Truthful
  <2>7. /\ o # Refused /\ DOMAIN o = RepositoryFields /\ o.whole = {job[p].seen}
        /\ \A r \in Refs : o.refs[r] # 0 => o.refs[r] = job[p].seen
        BY DEF ReplayCache, Repository, RepositoryFields, Refused
  <2>8. IsCache(o) /\ Replays(e, o)  BY <2>5, <2>7 DEF IsCache, Replays
  <2> HIDE DEF e, o, new
  <2> QED  BY <1>1, <1>3, <2>1, <2>3, <2>5, <2>6, <2>7, <2>8, RecordStep
<1> QED  BY <1>2, <1>3 DEF ConfirmRef

(* A step of the curator, which may change caches and entries: the others     *)
(* hold no curator lock and rely on neither.                                  *)
Safe ==
    /\ DOMAIN entries = SourceIds /\ DOMAIN objects = SourceIds /\ DOMAIN backups = SourceIds
    /\ \A s \in SourceIds : /\ Truthful(entries[s]) /\ IsCache(objects[s]) /\ IsCache(backups[s])
                            /\ Held(entries[s], s)
LEMMA CuratorStep ==
    ASSUME CheckoutCustody, NEW p \in Tools, job[p].step \in Holding, UNCHANGED <<world, checkouts>>, Safe',
           DOMAIN job' = Tools, \A q \in Tools \ {p} : job'[q] = job[q],
           budget' \in Budgets, curator' \in Tools \cup {Free},
           \A q \in Tools \ {p} : curator = q => curator' = q,
           Lawful(p)'
    PROVE  CheckoutCustody'
<1>0. UNCHANGED <<catalog, origins, advertised, harmed, checkouts>>  BY DEF world
<1>1. Files'  BY <1>0 DEF CheckoutCustody, Files, Budgets, Safe
<1>2. Located(catalog)' /\ (\A url \in DOMAIN origins : ShownBy(url, origins[url]) \subseteq advertised)'
      BY <1>0 DEF CheckoutCustody, World, Located, ShownBy
<1>3. \A s \in SourceIds : IsCheckout(checkouts[s])'  BY <1>0 DEF CheckoutCustody, World, IsCheckout
<1>4. World'  BY <1>2, <1>3 DEF World, Safe
<1>5. curator = p  BY DEF CheckoutCustody, Lawful, Place
<1>6. ASSUME NEW q \in Tools PROVE Lawful(q)'
  <2>1. CASE q = p  BY <2>1
  <2>2. CASE q # p
    <3>1. Lawful(q) /\ job'[q] = job[q] /\ advertised \subseteq advertised' /\ curator # q
          BY <1>0, <1>5, <1>6, <2>2 DEF CheckoutCustody
    <3>2. job[q].step \notin Holding  BY <3>1 DEF Lawful, Place
    <3> QED  BY <1>6, <3>1, <3>2, OthersStayLawful
  <2> QED  BY <2>1, <2>2
<1> QED  BY <1>1, <1>4, <1>6 DEF CheckoutCustody

LEMMA SafeNow == CheckoutCustody => Safe
BY DEF CheckoutCustody, Files, World, Safe

(* What is written can be replayed from where the caches are.                 *)
LEMMA EndLockStep == ASSUME CheckoutCustody, NEW p \in Tools, EndLock(p) PROVE CheckoutCustody'
<1>0. UNCHANGED <<world, objects, backups, checkouts, budget>> /\ Finish(p) /\ Locking(p) /\ job[p].step = "working"
      BY DEF EndLock, Locking
<1>1. CASE UNCHANGED <<entries, aside>>
      BY <1>0, <1>1, BudgetStep, FinishStep DEF kept, caches
<1>2. CASE job[p].kind = "lock offline" /\ WritesLock(p)
  <2>1. /\ DOMAIN job' = Tools /\ job'[p] = Idle /\ \A q \in Tools \ {p} : job'[q] = job[q]
        /\ curator' \in Tools \cup {Free} /\ curator = p
        BY <1>0 DEF Finish, Becomes, CheckoutCustody, Files, Lawful, Place, Holding
  <2>2. ASSUME NEW s \in SourceIds PROVE Truthful(entries[s])' /\ Held(entries[s], s)'
    <3>1. /\ entries'[s] = IF job[p].locked[s] = Refused THEN job[p].entries[s] ELSE job[p].locked[s]
          /\ s \in aside' <=> s \in aside /\ job[p].locked[s] = Refused
          BY <1>2 DEF WritesLock, Updated
    <3>2. Ready(p, s) /\ Truthful(job[p].entries[s]) /\ Truthful(job[p].locked[s])
          BY <1>0 DEF CheckoutCustody, Lawful, Knows, Prepares
    <3>3. Truthful(entries[s])'  BY <1>0, <3>1, <3>2 DEF Truthful, world
    <3>4. UNCHANGED <<objects, backups, harmed>>  BY <1>0 DEF world
    <3>5. CASE job[p].locked[s] = Refused
      <4>1. Whereabouts(s)' = Whereabouts(s) /\ entries'[s] = job[p].entries[s]
            BY <3>1, <3>4, <3>5 DEF Whereabouts
      <4>2. Held(job[p].entries[s], s)  BY <3>2, <3>5 DEF Ready
      <4> QED  BY <3>3, <3>4, <4>1, <4>2 DEF Held, Replayable, Replays, Promised
    <3>6. CASE job[p].locked[s] # Refused
      <4>1. Whereabouts(s)' = objects[s] /\ entries'[s] = job[p].locked[s]
            BY <3>1, <3>4, <3>6 DEF Whereabouts
      <4>2. Replayable(job[p].locked[s], objects[s], s)  BY <1>2, <3>2 DEF Ready
      <4> QED  BY <3>3, <3>4, <4>1, <4>2 DEF Held, Replayable, Replays, Promised
    <3> QED  BY <3>3, <3>5, <3>6
  <2>3. DOMAIN entries' = SourceIds  BY <1>2 DEF WritesLock, Updated
  <2>4. Safe'
    <3>1. \A s \in SourceIds : IsCache(objects[s])' /\ IsCache(backups[s])'
          BY <1>0, SafeNow DEF Safe, IsCache
    <3> QED  BY <1>0, <2>2, <2>3, <3>1, SafeNow DEF Safe
  <2>5. budget' \in Budgets /\ \A q \in Tools \ {p} : curator = q => curator' = q
        BY <1>0, <2>1, BudgetStep
  <2> QED  BY <1>0, <2>1, <2>4, <2>5, IdleIsLawful, CuratorStep DEF Holding
<1> QED  BY <1>1, <1>2 DEF EndLock

(* A step of a publication: the job is the same but for how far it is.        *)
Advances(p, new) ==
    /\ Becomes(p, new) /\ DOMAIN new = JobFields
    /\ new.step \in Publication \cup {"working"}
    /\ new.kind = job[p].kind /\ new.catalog = job[p].catalog /\ new.entries = job[p].entries
    /\ new.todo = job[p].todo /\ new.locked = job[p].locked /\ new.fetched = job[p].fetched
    /\ new.report = job[p].report
    /\ new.installed \in SUBSET SourceIds /\ new.moved \in SUBSET SourceIds
Swapping(p) ==
    /\ job[p].step \in Publication \cup {"working"} /\ job[p].kind = "lock online" /\ job[p].todo = {}
LEMMA PublicationStep ==
    ASSUME CheckoutCustody, NEW p \in Tools, Swapping(p), NEW new, Advances(p, new),
           UNCHANGED <<world, checkouts, curator>>, budget' \in Budgets, Safe',
           new.step \in {"working", "installing"} => \A s \in SourceIds : Ready(p, s)', Swaps(p)'
    PROVE  CheckoutCustody'
<1>1. Lawful(p) /\ DOMAIN job = Tools /\ curator = p
      BY DEF CheckoutCustody, Files, Lawful, Place, Swapping, Holding
<1>2. DOMAIN job' = Tools /\ job'[p] = new /\ \A q \in Tools \ {p} : job'[q] = job[q]
      BY <1>1 DEF Advances, Becomes
<1>3. Form(p)'  BY <1>1, <1>2 DEF Lawful, Form, Advances
<1>4. Place(p)'  BY <1>1, <1>2 DEF Place, Holding, Publication, Advances
<1>5. Knows(p)'  BY <1>1, <1>2 DEF Lawful, Knows, Truthful, Advances, Publication, world
<1>6. Told(p)'  BY <1>1, <1>2 DEF Lawful, Told, Advances, world
<1>7. Prepares(p)'  BY <1>2 DEF Prepares, Locking, Advances, Swapping, Publication
<1>8. Lawful(p)'  BY <1>3, <1>4, <1>5, <1>6, <1>7 DEF Lawful
<1> QED  BY <1>1, <1>2, <1>8, CuratorStep DEF Swapping, Holding

(* What is so of a publication under way.                                     *)
LEMMA Underway ==
    ASSUME CheckoutCustody, NEW p \in Tools, job[p].step \in Publication \/ Publishes(p)
    PROVE  /\ Swapping(p) /\ Swaps(p) /\ DOMAIN job[p] = JobFields
           /\ job[p].installed \in SUBSET SourceIds /\ job[p].moved \in SUBSET SourceIds
           /\ Left(p) \in SUBSET SourceIds
           /\ job[p].step \in {"working", "installing"} => \A s \in SourceIds : Ready(p, s)
<1>1. Lawful(p)  BY DEF CheckoutCustody
<1>2. Swapping(p)  BY <1>1 DEF Lawful, Swaps, Swapping, Publishes, Publication
<1> QED  BY <1>1, <1>2 DEF Lawful, Form, Prepares, Locking, Swapping, Left

LEMMA SafeStays ==
    ASSUME CheckoutCustody, UNCHANGED <<world, entries, caches>>
    PROVE  Safe'
<1>1. UNCHANGED <<advertised, harmed, entries, objects, backups, aside>>  BY DEF world, caches
<1> QED  BY <1>1, SafeNow DEF Safe, Truthful, IsCache, Held, Replayable, Whereabouts, Replays, Promised

(* An entry is as safe as before, when neither it nor its cache has changed.  *)
LEMMA HeldStays ==
    ASSUME NEW s, Held(entries[s], s), UNCHANGED <<entries, harmed>>, Whereabouts(s)' = Whereabouts(s)
    PROVE  Held(entries[s], s)'
BY DEF Held, Replayable, Replays, Promised
LEMMA UnpromisedIsHeld ==
    ASSUME NEW s, s \in harmed \/ ~Promised(entries[s]), UNCHANGED <<entries, harmed>>
    PROVE  Held(entries[s], s)'
BY DEF Held, Replayable, Promised
LEMMA AbsentIsUnpromised ==
    ASSUME CheckoutCustody, NEW s \in SourceIds, Whereabouts(s) = Refused
    PROVE  s \in harmed \/ ~Promised(entries[s])
BY DEF CheckoutCustody, World, Held, Replayable, Replays

LEMMA UndoStep ==
    ASSUME CheckoutCustody, NEW p \in Tools, job[p].step = "installing" \/ Publishes(p),
           NEW tried \in SUBSET SourceIds, Undo(p, tried),
           \A s \in tried : Unpromised(s) /\ job[p].fetched[s] # Refused,
           job[p].moved \subseteq job[p].installed \cup tried,
           UNCHANGED <<world, checkouts, curator>>, budget' \in Budgets
    PROVE  CheckoutCustody'
<1> DEFINE new == [job[p] EXCEPT !.step = "removing", !.installed = @ \cup tried]
<1>1. /\ Swapping(p) /\ Swaps(p) /\ DOMAIN job[p] = JobFields /\ DOMAIN job = Tools
      /\ job[p].installed \in SUBSET SourceIds /\ job[p].moved \in SUBSET SourceIds
      BY Underway DEF Publication, CheckoutCustody, Files
<1>2. /\ new.step = "removing" /\ new.installed = job[p].installed \cup tried /\ new.moved = job[p].moved
      /\ new.kind = job[p].kind /\ new.todo = job[p].todo /\ new.fetched = job[p].fetched
      /\ Advances(p, new)
      BY <1>1 DEF Undo, Advances, Publication, JobFields
<1> HIDE DEF new
<1>3. job'[p] = new /\ UNCHANGED <<entries, objects, backups, aside, harmed>>
      BY <1>1, <1>2 DEF Advances, Becomes, Undo, caches, world
<1>4. \A s \in job[p].installed \cup tried : Unpromised(s)'
      BY <1>1, <1>3 DEF Swaps, Unpromised, Promised, Publishes
<1>5. Swaps(p)'
      BY <1>1, <1>2, <1>3, <1>4 DEF Swaps, Publication, Swapping, Publishes
<1>6. Safe'  BY <1>3, SafeStays DEF caches
<1> QED  BY <1>1, <1>2, <1>5, <1>6, PublicationStep

LEMMA MoveAsideStep == ASSUME CheckoutCustody, NEW p \in Tools, MoveAside(p) PROVE CheckoutCustody'
<1> DEFINE s == Foremost(Left(p))
           on == [job[p] EXCEPT !.step = "installing"]
           away == [job[p] EXCEPT !.step = "installing", !.moved = @ \cup {s}]
<1>1. Publishes(p) /\ Left(p) # {} /\ UNCHANGED <<world, checkouts, curator>>  BY DEF MoveAside
<1>2. /\ Swapping(p) /\ Swaps(p) /\ DOMAIN job[p] = JobFields /\ DOMAIN job = Tools
      /\ job[p].installed \in SUBSET SourceIds /\ job[p].moved \in SUBSET SourceIds
      /\ job[p].step = "working" /\ \A t \in SourceIds : Ready(p, t)
      BY <1>1, Underway DEF Publishes, CheckoutCustody, Files
<1>3. s \in Left(p) /\ s \in SourceIds /\ job[p].fetched[s] # Refused /\ s \notin job[p].installed
      BY <1>1, <1>2, Underway, ForemostIsListed DEF Left
<1>4. /\ UNCHANGED harmed /\ DOMAIN objects = SourceIds /\ DOMAIN backups = SourceIds
      BY <1>1 DEF world, CheckoutCustody, Files
<1>5. budget \in Budgets /\ (Fault => budget' \in Budgets)  BY BudgetStep
<1>6. CASE Undo(p, {}) /\ (UNCHANGED budget \/ Fault)
  <2>1. budget' \in Budgets  BY <1>5, <1>6
  <2>2. job[p].moved \subseteq job[p].installed \cup {}  BY <1>2 DEF Swaps
  <2> QED  BY <1>1, <1>6, <2>1, <2>2, UndoStep
<1>7. CASE ~IsThere(objects[s]) /\ Becomes(p, on) /\ UNCHANGED <<entries, caches, budget>>
  <2>1. /\ on.step = "installing" /\ on.installed = job[p].installed /\ on.moved = job[p].moved
        /\ on.kind = job[p].kind /\ on.todo = job[p].todo /\ on.entries = job[p].entries
        /\ on.locked = job[p].locked /\ on.fetched = job[p].fetched /\ Advances(p, on)
        BY <1>2, <1>7 DEF Advances, Publication, JobFields
  <2> HIDE DEF on
  <2>2. job'[p] = on /\ UNCHANGED <<entries, objects, backups, aside>>
        BY <1>2, <1>7, <2>1 DEF Becomes, caches
  <2>3. Left(p)' = Left(p)  BY <2>1, <2>2 DEF Left
  <2>4. \A t \in job[p].installed : Unpromised(t)'
        BY <1>2, <1>4, <2>2 DEF Swaps, Unpromised, Promised
  <2>5. Swaps(p)'
        BY <1>1, <1>2, <1>4, <1>7, <2>1, <2>2, <2>3, <2>4 DEF Swaps, Publication, Swapping, IsThere
  <2>6. \A t \in SourceIds : Ready(p, t)'  BY <1>2, <1>4, <2>1, <2>2, ReadyStays DEF Whereabouts
  <2>7. Safe'  BY <1>1, <1>7, SafeStays
  <2> QED  BY <1>1, <1>2, <1>5, <1>7, <2>1, <2>5, <2>6, <2>7, PublicationStep
<1>8. CASE /\ IsThere(objects[s]) /\ ~IsThere(backups[s])
           /\ backups' = [backups EXCEPT ![s] = objects[s]]
           /\ objects' = [objects EXCEPT ![s] = Refused]
           /\ aside' = aside \cup {s}
           /\ Becomes(p, away) /\ UNCHANGED <<entries, budget>>
  <2>1. /\ away.step = "installing" /\ away.installed = job[p].installed /\ away.moved = job[p].moved \cup {s}
        /\ away.kind = job[p].kind /\ away.todo = job[p].todo /\ away.entries = job[p].entries
        /\ away.locked = job[p].locked /\ away.fetched = job[p].fetched /\ Advances(p, away)
        BY <1>2, <1>3, <1>8 DEF Advances, Publication, JobFields
  <2> HIDE DEF away
  <2>2. /\ job'[p] = away /\ objects'[s] = Refused /\ backups'[s] = objects[s]
        /\ \A t \in SourceIds \ {s} : objects'[t] = objects[t] /\ backups'[t] = backups[t]
        BY <1>2, <1>3, <1>4, <1>8, <2>1 DEF Becomes
  <2>3. Left(p)' = Left(p)  BY <2>1, <2>2 DEF Left
  <2>4. \A t \in job[p].installed : Unpromised(t)'
        BY <1>2, <1>4, <1>8, <2>2 DEF Swaps, Unpromised, Promised
  <2>5. \A t \in job[p].installed : t \in harmed' \/ objects'[t] = job[p].fetched[t]
        BY <1>2, <1>3, <1>4, <2>2 DEF Swaps
  <2>6. Swaps(p)'
    <3>1. Left(p)' # {} /\ objects'[Foremost(Left(p)')] = Refused  BY <1>1, <2>2, <2>3
    <3>2. job[p].moved \subseteq job[p].installed /\ job[p].moved \subseteq aside  BY <1>2 DEF Swaps
    <3>3. /\ away.moved \subseteq aside'
          /\ away.moved \subseteq job[p].installed \cup {Foremost(Left(p)')}
          BY <1>8, <2>1, <2>3, <3>2
    <3>4. \A t \in job[p].installed : job[p].fetched[t] # Refused  BY <1>2 DEF Swaps
    <3> QED  BY <1>2, <2>1, <2>2, <2>4, <2>5, <3>1, <3>3, <3>4 DEF Swaps, Publication, Swapping
  <2>7. ASSUME NEW t \in SourceIds PROVE Ready(p, t)'
    <3>1. job[p].locked[t] = Refused => t # s  BY <1>2, <1>3, <2>7 DEF Ready
    <3>2. job[p].locked[t] = Refused => Whereabouts(t)' = Whereabouts(t)
          BY <1>8, <2>2, <2>7, <3>1 DEF Whereabouts
    <3> QED  BY <1>2, <1>4, <2>1, <2>2, <2>7, <3>2, ReadyStays DEF Swapping
  <2>8. Safe'
    <3>1. ASSUME NEW t \in SourceIds PROVE Held(entries[t], t)'
      <4>1. CASE t = s /\ s \in aside
        <5>1. Whereabouts(s) = Refused  BY <1>8, <4>1 DEF Whereabouts, IsThere
        <5> QED  BY <1>3, <1>4, <1>8, <4>1, <5>1, AbsentIsUnpromised, UnpromisedIsHeld
      <4>2. CASE t # s \/ s \notin aside
        <5>1. Whereabouts(t)' = Whereabouts(t)  BY <1>8, <2>2, <3>1, <4>2 DEF Whereabouts
        <5>2. Held(entries[t], t)  BY <3>1, SafeNow DEF Safe
        <5> QED  BY <1>4, <1>8, <5>1, <5>2, HeldStays
      <4> QED  BY <4>1, <4>2
    <3>2. \A t \in SourceIds : Truthful(entries[t])'  BY <1>1, <1>8, SafeNow DEF Safe, Truthful, world
    <3>3. ASSUME NEW t \in SourceIds PROVE IsCache(objects[t])' /\ IsCache(backups[t])'
      <4>1. IsCache(objects[t]) /\ IsCache(backups[t])  BY <3>3, SafeNow DEF Safe
      <4> QED  BY <2>2, <3>3, <4>1 DEF IsCache
    <3> QED  BY <1>4, <1>8, <3>1, <3>2, <3>3, SafeNow DEF Safe
  <2> QED  BY <1>1, <1>2, <1>5, <1>8, <2>1, <2>6, <2>7, <2>8, PublicationStep
<1> HIDE DEF s, on, away
<1>9. \/ ~IsThere(objects[s]) /\ Becomes(p, on) /\ UNCHANGED <<entries, caches, budget>>
      \/ /\ IsThere(objects[s]) /\ ~IsThere(backups[s])
         /\ backups' = [backups EXCEPT ![s] = objects[s]]
         /\ objects' = [objects EXCEPT ![s] = Refused]
         /\ aside' = aside \cup {s}
         /\ Becomes(p, away) /\ UNCHANGED <<entries, budget>>
      \/ Undo(p, {}) /\ (UNCHANGED budget \/ Fault)
      BY DEF MoveAside, s, on, away
<1> QED  BY <1>6, <1>7, <1>8, <1>9

LEMMA PutInPlaceStep == ASSUME CheckoutCustody, NEW p \in Tools, PutInPlace(p) PROVE CheckoutCustody'
<1> DEFINE s == Foremost(Left(p))
           new == [job[p] EXCEPT !.step = "working", !.installed = @ \cup {s}]
<1>1. job[p].step = "installing" /\ UNCHANGED <<world, checkouts, curator>>  BY DEF PutInPlace
<1>2. /\ Swapping(p) /\ Swaps(p) /\ DOMAIN job[p] = JobFields /\ DOMAIN job = Tools
      /\ job[p].installed \in SUBSET SourceIds /\ job[p].moved \in SUBSET SourceIds
      /\ \A t \in SourceIds : Ready(p, t)
      BY <1>1, Underway DEF Publication, CheckoutCustody, Files
<1>3. /\ s \in SourceIds /\ job[p].fetched[s] # Refused /\ s \notin job[p].installed
      /\ objects[s] = Refused /\ job[p].moved \subseteq job[p].installed \cup {s} /\ job[p].moved \subseteq aside
      /\ job[p].locked[s] # Refused /\ IsCache(job[p].fetched[s])
  <2>1. Left(p) # {} /\ Left(p) \in SUBSET SourceIds  BY <1>1, <1>2, Underway DEF Swaps, Publication
  <2>2. s \in Left(p)  BY <2>1, ForemostIsListed
  <2>3. s \in SourceIds /\ job[p].fetched[s] # Refused /\ s \notin job[p].installed  BY <2>2 DEF Left
  <2> QED  BY <1>1, <1>2, <2>3 DEF Swaps, Ready
<1>4. UNCHANGED harmed /\ DOMAIN objects = SourceIds  BY <1>1 DEF world, CheckoutCustody, Files
<1>5. Unpromised(s)
  <2>1. s \notin aside => Whereabouts(s) = Refused  BY <1>3 DEF Whereabouts
  <2> QED  BY <1>3, <2>1, AbsentIsUnpromised DEF Unpromised
<1> HIDE DEF s
<1>6. CASE Undo(p, {s}) /\ Fault
  <2>1. budget' \in Budgets  BY <1>6, BudgetStep
  <2> QED  BY <1>1, <1>3, <1>5, <1>6, <2>1, UndoStep
<1>7. CASE /\ objects' = [objects EXCEPT ![s] = job[p].fetched[s]] /\ Becomes(p, new)
           /\ UNCHANGED <<entries, backups, aside, budget>>
  <2>1. /\ new.step = "working" /\ new.installed = job[p].installed \cup {s} /\ new.moved = job[p].moved
        /\ new.kind = job[p].kind /\ new.todo = job[p].todo /\ new.entries = job[p].entries
        /\ new.locked = job[p].locked /\ new.fetched = job[p].fetched /\ Advances(p, new)
        BY <1>2, <1>3, <1>7 DEF Advances, JobFields
  <2> HIDE DEF new
  <2>2. /\ job'[p] = new /\ objects'[s] = job[p].fetched[s]
        /\ \A t \in SourceIds \ {s} : objects'[t] = objects[t]
        BY <1>2, <1>3, <1>4, <1>7, <2>1 DEF Becomes
  <2>3. \A t \in new.installed : Unpromised(t)' /\ job[p].fetched[t] # Refused
        BY <1>1, <1>2, <1>3, <1>4, <1>5, <1>7, <2>1 DEF Swaps, Unpromised, Promised
  <2>4. \A t \in new.installed : t \in harmed' \/ objects'[t] = job[p].fetched[t]
        BY <1>1, <1>2, <1>4, <2>1, <2>2 DEF Swaps
  <2>5. Swaps(p)'
    <3>1. new.moved \subseteq new.installed /\ new.moved \subseteq aside'  BY <1>3, <1>7, <2>1
    <3>2. new.kind = "lock online" /\ new.todo = {} /\ new.fetched = job[p].fetched  BY <1>2, <2>1 DEF Swapping
    <3> QED  BY <2>1, <2>2, <2>3, <2>4, <3>1, <3>2 DEF Swaps, Publication
  <2>6. ASSUME NEW t \in SourceIds PROVE Ready(p, t)'
    <3>1. job[p].locked[t] = Refused => Whereabouts(t)' = Whereabouts(t)
          BY <1>3, <1>7, <2>2, <2>6 DEF Whereabouts
    <3> QED  BY <1>2, <1>4, <2>1, <2>2, <2>6, <3>1, ReadyStays DEF Swapping
  <2>7. Safe'
    <3>1. ASSUME NEW t \in SourceIds PROVE Held(entries[t], t)'
      <4>1. CASE t = s /\ s \notin aside
            BY <1>4, <1>5, <1>7, <4>1, UnpromisedIsHeld DEF Unpromised
      <4>2. CASE t # s \/ s \in aside
        <5>1. Whereabouts(t)' = Whereabouts(t)  BY <1>7, <2>2, <3>1, <4>2 DEF Whereabouts
        <5>2. Held(entries[t], t)  BY <3>1, SafeNow DEF Safe
        <5> QED  BY <1>4, <1>7, <5>1, <5>2, HeldStays
      <4> QED  BY <4>1, <4>2
    <3>2. \A t \in SourceIds : Truthful(entries[t])'  BY <1>1, <1>7, SafeNow DEF Safe, Truthful, world
    <3>3. ASSUME NEW t \in SourceIds PROVE IsCache(objects[t])' /\ IsCache(backups[t])'
      <4>1. IsCache(objects[t]) /\ IsCache(backups[t])  BY <3>3, SafeNow DEF Safe
      <4>2. objects'[t] = objects[t] \/ (t = s /\ objects'[t] = job[p].fetched[s])  BY <2>2, <3>3
      <4> QED  BY <1>3, <1>7, <4>1, <4>2 DEF IsCache
    <3> QED  BY <1>4, <1>7, <3>1, <3>2, <3>3, SafeNow DEF Safe
  <2> QED  BY <1>1, <1>2, <1>7, <2>1, <2>5, <2>6, <2>7, BudgetStep, PublicationStep
<1>8. \/ /\ objects' = [objects EXCEPT ![s] = job[p].fetched[s]] /\ Becomes(p, new)
         /\ UNCHANGED <<entries, backups, aside, budget>>
      \/ Undo(p, {s}) /\ Fault
      BY DEF PutInPlace, s
<1> QED  BY <1>6, <1>7, <1>8

LEMMA CommitLockStep == ASSUME CheckoutCustody, NEW p \in Tools, CommitLock(p) PROVE CheckoutCustody'
<1> DEFINE new == [job[p] EXCEPT !.step = "cleaning"]
<1>1. Publishes(p) /\ Left(p) = {} /\ UNCHANGED <<world, checkouts, curator>>  BY DEF CommitLock
<1>2. /\ Swapping(p) /\ Swaps(p) /\ DOMAIN job[p] = JobFields /\ DOMAIN job = Tools
      /\ job[p].installed \in SUBSET SourceIds /\ job[p].moved \in SUBSET SourceIds
      /\ job[p].step = "working" /\ \A t \in SourceIds : Ready(p, t)
      BY <1>1, Underway DEF Publishes, CheckoutCustody, Files
<1>3. UNCHANGED <<harmed, advertised>> /\ DOMAIN objects = SourceIds /\ DOMAIN backups = SourceIds
      BY <1>1 DEF world, CheckoutCustody, Files
<1>4. CASE Undo(p, {}) /\ Fault
  <2>1. budget' \in Budgets  BY <1>4, BudgetStep
  <2>2. job[p].moved \subseteq job[p].installed \cup {}  BY <1>2 DEF Swaps
  <2> QED  BY <1>1, <1>4, <2>1, <2>2, UndoStep
<1>5. CASE WritesLock(p) /\ Becomes(p, new) /\ UNCHANGED <<objects, backups, budget>>
  <2>1. /\ new.step = "cleaning" /\ new.installed = job[p].installed /\ new.moved = job[p].moved
        /\ new.kind = job[p].kind /\ new.todo = job[p].todo /\ new.fetched = job[p].fetched /\ Advances(p, new)
        BY <1>2, <1>5 DEF Advances, Publication, JobFields
  <2> HIDE DEF new
  <2>2. job'[p] = new  BY <1>2, <1>5 DEF Becomes
  <2>3. ASSUME NEW s \in SourceIds
        PROVE  /\ entries'[s] = IF job[p].locked[s] = Refused THEN job[p].entries[s] ELSE job[p].locked[s]
               /\ s \in aside' <=> s \in aside /\ job[p].locked[s] = Refused
        BY <1>5, <2>3 DEF WritesLock, Updated
  <2>4. \A s \in job[p].installed : job[p].fetched[s] # Refused /\ job[p].locked[s] # Refused
        BY <1>2 DEF Swaps, Ready
  <2>5. Swaps(p)'
    <3>1. job[p].moved \cap aside' = {}  BY <1>2, <2>3, <2>4 DEF Swaps
    <3> QED  BY <1>2, <2>1, <2>2, <2>4, <3>1 DEF Swaps, Publication, Swapping
  <2>6. ASSUME NEW s \in SourceIds PROVE Truthful(entries[s])' /\ Held(entries[s], s)'
    <3>1. Ready(p, s)  BY <1>2, <2>6
    <3>2. Truthful(job[p].entries[s]) /\ Truthful(job[p].locked[s])
          BY <2>6 DEF CheckoutCustody, Lawful, Knows
    <3>3. CASE job[p].locked[s] = Refused
      <4>1. Whereabouts(s)' = Whereabouts(s) /\ entries'[s] = job[p].entries[s]
            BY <1>5, <2>3, <2>6, <3>3 DEF Whereabouts
      <4>2. Held(job[p].entries[s], s)  BY <3>1, <3>3 DEF Ready
      <4> QED  BY <1>3, <3>2, <4>1, <4>2 DEF Truthful, Held, Replayable, Replays, Promised
    <3>4. CASE job[p].locked[s] # Refused
      <4>1. Whereabouts(s)' = objects[s] /\ entries'[s] = job[p].locked[s]
            BY <1>5, <2>3, <2>6, <3>4 DEF Whereabouts
      <4>2. job[p].fetched[s] # Refused  BY <1>2, <3>1, <3>4 DEF Ready, Swapping
      <4>3. s \in job[p].installed  BY <1>1, <2>6, <4>2 DEF Left
      <4>4. s \in harmed \/ objects[s] = job[p].fetched[s]  BY <1>2, <4>3 DEF Swaps
      <4>5. Replays(job[p].locked[s], job[p].fetched[s])  BY <3>1, <4>2 DEF Ready
      <4> QED  BY <1>3, <3>2, <4>1, <4>4, <4>5 DEF Truthful, Held, Replayable, Replays, Promised
    <3> QED  BY <3>3, <3>4
  <2>7. Safe'
    <3>1. DOMAIN entries' = SourceIds  BY <1>5 DEF WritesLock, Updated
    <3> QED  BY <1>3, <1>5, <2>6, <3>1, SafeNow DEF Safe, IsCache
  <2> QED  BY <1>1, <1>2, <1>5, <2>1, <2>5, <2>7, BudgetStep, PublicationStep
<1> QED  BY <1>1, <1>4, <1>5 DEF CommitLock

(* A failed removal leaves a directory that is there, in whole or in pieces.  *)
LEMMA RemnantsAreCaches ==
    ASSUME NEW directories, DOMAIN directories = SourceIds, NEW s \in SourceIds, IsCache(directories[s]),
           NEW after, after = [directories EXCEPT ![s] = Refused] \/ after \in Remnants(directories, s)
    PROVE  /\ DOMAIN after = SourceIds /\ IsCache(after[s])
           /\ \A t \in SourceIds \ {s} : after[t] = directories[t]
<1>1. CASE after = [directories EXCEPT ![s] = Refused]  BY <1>1 DEF IsCache
<1>2. CASE after = directories  BY <1>2
<1>3. CASE IsThere(directories[s]) /\ after = [directories EXCEPT ![s] = InPieces(@)]
  <2>1. DOMAIN directories[s] = RepositoryFields  BY <1>3 DEF IsCache, IsThere
  <2>2. after[s] = [directories[s] EXCEPT !.whole = {}, !.partial = @ \cup directories[s].whole]
        BY <1>3 DEF InPieces
  <2>3. /\ DOMAIN after[s] = RepositoryFields /\ after[s].refs = directories[s].refs
        /\ after[s].partial = directories[s].partial \cup directories[s].whole
        BY <2>1, <2>2 DEF RepositoryFields
  <2>4. IsCache(after[s])  BY <1>3, <2>3 DEF IsCache, IsThere
  <2> QED  BY <1>3, <2>4
<1> QED  BY <1>1, <1>2, <1>3 DEF Remnants

LEMMA DropBackupStep == ASSUME CheckoutCustody, NEW p \in Tools, DropBackup(p) PROVE CheckoutCustody'
<1> DEFINE s == Foremost(job[p].moved)
           new == [job[p] EXCEPT !.moved = @ \ {s}]
<1>1. /\ job[p].step = "cleaning" /\ UNCHANGED <<world, entries, objects, aside, checkouts, curator>>
      /\ Becomes(p, new)
      BY DEF DropBackup
<1>2. /\ Swapping(p) /\ Swaps(p) /\ DOMAIN job[p] = JobFields /\ DOMAIN job = Tools
      /\ job[p].installed \in SUBSET SourceIds /\ job[p].moved \in SUBSET SourceIds
      BY <1>1, Underway DEF Publication, CheckoutCustody, Files
<1>3. s \in SourceIds /\ s \notin aside
  <2>1. s \in job[p].moved  BY <1>2, ForemostIsListed DEF DropBackup
  <2> QED  BY <1>1, <1>2, <2>1 DEF Swaps
<1>4. \/ backups' = [backups EXCEPT ![s] = Refused] /\ UNCHANGED budget
      \/ backups' \in Remnants(backups, s) /\ Fault
      BY DEF DropBackup
<1>5. UNCHANGED <<harmed, advertised>> /\ DOMAIN backups = SourceIds /\ IsCache(backups[s])
      BY <1>1, <1>3 DEF world, CheckoutCustody, Files, World
<1>6. budget' \in Budgets  BY <1>4, BudgetStep
<1> HIDE DEF s
<1>7. DOMAIN backups' = SourceIds /\ IsCache(backups'[s]) /\ \A t \in SourceIds \ {s} : backups'[t] = backups[t]
      BY <1>3, <1>4, <1>5, RemnantsAreCaches
<1>8. /\ new.step = "cleaning" /\ new.installed = job[p].installed /\ new.moved \subseteq job[p].moved
      /\ new.kind = job[p].kind /\ new.todo = job[p].todo /\ new.fetched = job[p].fetched /\ Advances(p, new)
      BY <1>1, <1>2 DEF Advances, Publication, JobFields
<1> HIDE DEF new
<1>9. job'[p] = new  BY <1>1, <1>2 DEF Becomes
<1>10. Swaps(p)'
  <2>1. new.moved \cap aside' = {}  BY <1>1, <1>2, <1>8 DEF Swaps
  <2>2. \A t \in new.installed : new.fetched[t] # Refused  BY <1>2, <1>8 DEF Swaps
  <2>3. new.kind = "lock online" /\ new.todo = {}  BY <1>2, <1>8 DEF Swapping
  <2> QED  BY <1>8, <1>9, <2>1, <2>2, <2>3 DEF Swaps, Publication
<1>11. Safe'
  <2>1. ASSUME NEW t \in SourceIds
        PROVE  Truthful(entries[t])' /\ IsCache(objects[t])' /\ IsCache(backups[t])' /\ Held(entries[t], t)'
    <3>1. Truthful(entries[t]) /\ IsCache(objects[t]) /\ IsCache(backups[t]) /\ Held(entries[t], t)
          BY <2>1, SafeNow DEF Safe
    <3>2. Whereabouts(t)' = Whereabouts(t)  BY <1>1, <1>3, <1>7, <2>1 DEF Whereabouts
    <3>3. Held(entries[t], t)'  BY <1>1, <1>5, <3>1, <3>2, HeldStays
    <3> QED  BY <1>1, <1>5, <1>7, <2>1, <3>1, <3>3 DEF Truthful, IsCache
  <2> QED  BY <1>1, <1>7, <2>1, SafeNow DEF Safe
<1> QED  BY <1>1, <1>2, <1>6, <1>8, <1>10, <1>11, PublicationStep

LEMMA TakeBackStep == ASSUME CheckoutCustody, NEW p \in Tools, TakeBack(p) PROVE CheckoutCustody'
<1> DEFINE s == Installed(p)
           kept2 == [job[p] EXCEPT !.step = "restoring"]
           done == [job[p] EXCEPT !.installed = @ \ {s}]
           new == IF s \in job[p].moved THEN kept2 ELSE done
<1>1. /\ job[p].step = "removing" /\ job[p].installed # {}
      /\ UNCHANGED <<world, entries, backups, aside, checkouts, curator>> /\ Becomes(p, new)
      BY DEF TakeBack
<1>2. /\ Swapping(p) /\ Swaps(p) /\ DOMAIN job[p] = JobFields /\ DOMAIN job = Tools
      /\ job[p].installed \in SUBSET SourceIds /\ job[p].moved \in SUBSET SourceIds
      BY <1>1, Underway DEF Publication, CheckoutCustody, Files
<1>3. s \in job[p].installed /\ s \in SourceIds /\ Unpromised(s)
  <2>1. s \in job[p].installed  BY <1>1, <1>2, HindmostIsListed DEF Installed
  <2> QED  BY <1>1, <1>2, <2>1 DEF Swaps
<1>4. \/ objects' = [objects EXCEPT ![s] = Refused] /\ UNCHANGED budget
      \/ objects' \in Remnants(objects, s) /\ Fault
      BY DEF TakeBack
<1>5. UNCHANGED <<harmed, advertised>> /\ DOMAIN objects = SourceIds /\ IsCache(objects[s])
      BY <1>1, <1>3 DEF world, CheckoutCustody, Files, World
<1>6. budget' \in Budgets  BY <1>4, BudgetStep
<1>7. s = Hindmost(job[p].installed)  BY DEF Installed
<1> HIDE DEF s
<1>8. DOMAIN objects' = SourceIds /\ IsCache(objects'[s]) /\ \A t \in SourceIds \ {s} : objects'[t] = objects[t]
      BY <1>3, <1>4, <1>5, RemnantsAreCaches
<1>9. /\ new.moved = job[p].moved /\ new.fetched = job[p].fetched /\ Advances(p, new)
      /\ \/ new.step = "restoring" /\ new.installed = job[p].installed /\ s \in job[p].moved
         \/ new.step = "removing" /\ new.installed = job[p].installed \ {s} /\ s \notin job[p].moved
  <2>1. CASE s \in job[p].moved
        BY <1>1, <1>2, <2>1 DEF Advances, Publication, JobFields
  <2>2. CASE s \notin job[p].moved
        BY <1>1, <1>2, <2>2 DEF Advances, Publication, JobFields
  <2> QED  BY <2>1, <2>2
<1> HIDE DEF new
<1>10. job'[p] = new  BY <1>1, <1>2 DEF Becomes
<1>11. Swaps(p)'
  <2>1. new.kind = "lock online" /\ new.todo = {}  BY <1>2, <1>9 DEF Swapping, Advances
  <2>2. \A t \in new.installed : new.fetched[t] # Refused  BY <1>2, <1>9 DEF Swaps
  <2>3. new.moved \subseteq new.installed /\ new.moved \subseteq aside'  BY <1>1, <1>2, <1>9 DEF Swaps
  <2>4. \A t \in new.installed : Unpromised(t)'
        BY <1>1, <1>2, <1>5, <1>9 DEF Swaps, Unpromised, Promised
  <2>5. new.step = "restoring" => new.installed # {} /\ Hindmost(new.installed) \in new.moved
        BY <1>1, <1>7, <1>9
  <2> QED  BY <1>9, <1>10, <2>1, <2>2, <2>3, <2>4, <2>5 DEF Swaps, Publication
<1>12. Safe'
  <2>1. ASSUME NEW t \in SourceIds
        PROVE  Truthful(entries[t])' /\ IsCache(objects[t])' /\ IsCache(backups[t])' /\ Held(entries[t], t)'
    <3>1. Truthful(entries[t]) /\ IsCache(objects[t]) /\ IsCache(backups[t]) /\ Held(entries[t], t)
          BY <2>1, SafeNow DEF Safe
    <3>2. Held(entries[t], t)'
      <4>1. CASE t = s /\ s \notin aside
            BY <1>1, <1>3, <1>5, <4>1, UnpromisedIsHeld DEF Unpromised
      <4>2. CASE t # s \/ s \in aside
        <5>1. Whereabouts(t)' = Whereabouts(t)  BY <1>1, <1>8, <2>1, <4>2 DEF Whereabouts
        <5> QED  BY <1>1, <1>5, <3>1, <5>1, HeldStays
      <4> QED  BY <4>1, <4>2
    <3> QED  BY <1>1, <1>5, <1>8, <2>1, <3>1, <3>2 DEF Truthful, IsCache
  <2> QED  BY <1>1, <1>8, <2>1, SafeNow DEF Safe
<1> QED  BY <1>1, <1>2, <1>6, <1>9, <1>11, <1>12, PublicationStep DEF Advances, Publication

LEMMA PutBackStep == ASSUME CheckoutCustody, NEW p \in Tools, PutBack(p) PROVE CheckoutCustody'
<1> DEFINE s == Installed(p)
           new == [job[p] EXCEPT !.step = "removing", !.installed = @ \ {s}, !.moved = @ \ {s}]
<1>1. /\ job[p].step = "restoring" /\ UNCHANGED <<world, entries, checkouts, curator>> /\ Becomes(p, new)
      BY DEF PutBack
<1>2. /\ Swapping(p) /\ Swaps(p) /\ DOMAIN job[p] = JobFields /\ DOMAIN job = Tools
      /\ job[p].installed \in SUBSET SourceIds /\ job[p].moved \in SUBSET SourceIds
      BY <1>1, Underway DEF Publication, CheckoutCustody, Files
<1>3. s \in SourceIds /\ s \in aside  BY <1>1, <1>2 DEF Swaps, Installed
<1>4. \/ /\ objects' = [objects EXCEPT ![s] = backups[s]]
         /\ backups' = [backups EXCEPT ![s] = Refused]
         /\ aside' = aside \ {s} /\ UNCHANGED budget
      \/ UNCHANGED caches /\ (UNCHANGED budget \/ Fault)
      BY DEF PutBack
<1>5. /\ UNCHANGED <<harmed, advertised>> /\ DOMAIN objects = SourceIds /\ DOMAIN backups = SourceIds
      BY <1>1 DEF world, CheckoutCustody, Files
<1>6. budget' \in Budgets  BY <1>4, BudgetStep
<1> HIDE DEF s
<1>7. /\ new.moved = job[p].moved \ {s} /\ new.fetched = job[p].fetched /\ Advances(p, new)
      /\ new.step = "removing" /\ new.installed = job[p].installed \ {s}
      BY <1>1, <1>2 DEF Advances, Publication, JobFields
<1> HIDE DEF new
<1>8. job'[p] = new  BY <1>1, <1>2 DEF Becomes
<1>9. aside \ {s} \subseteq aside'  BY <1>4 DEF caches
<1>10. Swaps(p)'
  <2>1. new.kind = "lock online" /\ new.todo = {}  BY <1>2, <1>7 DEF Swapping, Advances
  <2>2. \A t \in new.installed : new.fetched[t] # Refused  BY <1>2, <1>7 DEF Swaps
  <2>3. new.moved \subseteq new.installed /\ new.moved \subseteq aside'
        BY <1>1, <1>2, <1>7, <1>9 DEF Swaps
  <2>4. ASSUME NEW t \in new.installed PROVE Unpromised(t)'
    <3>1. Unpromised(t) /\ t # s  BY <1>1, <1>2, <1>7, <2>4 DEF Swaps
    <3> QED  BY <1>1, <1>5, <1>9, <3>1 DEF Unpromised, Promised
  <2> QED  BY <1>7, <1>8, <2>1, <2>2, <2>3, <2>4 DEF Swaps, Publication
<1>11. ASSUME NEW t \in SourceIds PROVE Whereabouts(t)' = Whereabouts(t)
       BY <1>3, <1>4, <1>5, <1>11 DEF Whereabouts, caches
<1>12. Safe'
  <2>1. ASSUME NEW t \in SourceIds
        PROVE  Truthful(entries[t])' /\ IsCache(objects[t])' /\ IsCache(backups[t])' /\ Held(entries[t], t)'
    <3>1. /\ Truthful(entries[t]) /\ IsCache(objects[t]) /\ IsCache(backups[t]) /\ Held(entries[t], t)
          /\ IsCache(Refused)
          BY <2>1, SafeNow DEF Safe, IsCache
    <3>2. Held(entries[t], t)'  BY <1>1, <1>5, <1>11, <2>1, <3>1, HeldStays
    <3>3. objects'[t] \in {objects[t], backups[t]} /\ backups'[t] \in {backups[t], Refused}
          BY <1>3, <1>4, <1>5, <2>1 DEF caches
    <3> QED  BY <1>1, <1>5, <2>1, <3>1, <3>2, <3>3 DEF Truthful, IsCache
  <2>2. DOMAIN objects' = SourceIds /\ DOMAIN backups' = SourceIds  BY <1>4, <1>5 DEF caches
  <2> QED  BY <1>1, <2>1, <2>2, SafeNow DEF Safe
<1> QED  BY <1>1, <1>2, <1>6, <1>7, <1>10, <1>12, PublicationStep

LEMMA CheckExistingStep == ASSUME CheckoutCustody, NEW p \in Tools, CheckExisting(p) PROVE CheckoutCustody'
<1>1. /\ job[p].step = "working" /\ Materializes(p) /\ job[p].todo # {}
      /\ UNCHANGED <<world, kept, curator, budget>>
      BY DEF CheckExisting
<1>2. DOMAIN job = Tools /\ DOMAIN job[p] = JobFields /\ Place(p)
      BY DEF CheckoutCustody, Files, Lawful, Form
<1>3. /\ DOMAIN job' = Tools /\ \A q \in Tools \ {p} : job'[q] = job[q]
      /\ DOMAIN job'[p] = JobFields
      /\ \/ job'[p].step = "working" /\ job'[p].todo \subseteq job[p].todo
         \/ job'[p].step \in {"cloning", "probing"} /\ job'[p].todo = job[p].todo
      /\ job'[p].kind = job[p].kind /\ job'[p].catalog = job[p].catalog
      /\ job'[p].entries = job[p].entries /\ job'[p].locked = job[p].locked
      /\ job'[p].fetched = job[p].fetched /\ job'[p].report = job[p].report
      /\ job'[p].installed = job[p].installed /\ job'[p].moved = job[p].moved
  <2> DEFINE on == [job[p] EXCEPT !.step = "working", !.todo = @ \ {Foremost(@)}, !.seen = 0, !.ref = None,
                             !.built = Refused]
         turned(step) == [job[p] EXCEPT !.step = step]
  <2>1. job' = [job EXCEPT ![p] = on] \/ \E step \in {"cloning", "probing"} : job' = [job EXCEPT ![p] = turned(step)]
    <3>1. CASE IsThere(checkouts[Id(p)])
          BY <3>1 DEF CheckExisting, Proceed, Becomes
    <3>2. CASE ~IsThere(checkouts[Id(p)])
          BY <3>2 DEF CheckExisting, Becomes
    <3> QED  BY <3>1, <3>2
  <2>2. CASE job' = [job EXCEPT ![p] = on]
    <3>1. /\ DOMAIN on = JobFields /\ on.step = "working" /\ on.todo \subseteq job[p].todo
          /\ on.kind = job[p].kind /\ on.catalog = job[p].catalog
          /\ on.entries = job[p].entries /\ on.locked = job[p].locked
          /\ on.fetched = job[p].fetched /\ on.report = job[p].report
          /\ on.installed = job[p].installed /\ on.moved = job[p].moved
          BY <1>2 DEF JobFields
    <3> HIDE DEF on
    <3> QED  BY <1>2, <2>2, <3>1
  <2>3. ASSUME NEW step \in {"cloning", "probing"}, job' = [job EXCEPT ![p] = turned(step)] PROVE
         /\ DOMAIN job' = Tools /\ \A q \in Tools \ {p} : job'[q] = job[q]
         /\ DOMAIN job'[p] = JobFields /\ job'[p].step = step /\ job'[p].todo = job[p].todo
         /\ job'[p].kind = job[p].kind /\ job'[p].catalog = job[p].catalog
         /\ job'[p].entries = job[p].entries /\ job'[p].locked = job[p].locked
         /\ job'[p].fetched = job[p].fetched /\ job'[p].report = job[p].report
         /\ job'[p].installed = job[p].installed /\ job'[p].moved = job[p].moved
      /\ job'[p].installed = job[p].installed /\ job'[p].moved = job[p].moved
    <3>1. /\ DOMAIN turned(step) = JobFields /\ turned(step).step = step /\ turned(step).todo = job[p].todo
          /\ turned(step).kind = job[p].kind /\ turned(step).catalog = job[p].catalog
          /\ turned(step).entries = job[p].entries /\ turned(step).locked = job[p].locked
          /\ turned(step).fetched = job[p].fetched /\ turned(step).report = job[p].report
          /\ turned(step).installed = job[p].installed /\ turned(step).moved = job[p].moved
          BY <1>2 DEF JobFields
    <3> HIDE DEF turned
    <3> QED  BY <1>2, <2>3, <3>1
  <2> QED  BY <2>1, <2>2, <2>3
<1>4. job'[p].step \in Holding \ Publication /\ job[p].step \in Holding /\ job'[p].todo \subseteq job[p].todo
      BY <1>1, <1>3 DEF Holding, Publication
<1>5. Place(p)'  BY <1>1, <1>2, <1>3 DEF Place, Holding, Publication, Materializes
<1>6. Locking(p)' => Locking(p)  BY <1>1, <1>3 DEF Locking
<1> QED  BY <1>1, <1>3, <1>4, <1>5, <1>6, GoingOn

LEMMA BuiltStep ==
    ASSUME CheckoutCustody, NEW p \in Tools, UNCHANGED <<world, kept, budget>>,
           job[p].step \in {"cloning", "fetching"}, NEW available, Built(p, available)
    PROVE  CheckoutCustody'
<1>1. DOMAIN job = Tools /\ DOMAIN job[p] = JobFields /\ Place(p)
      BY DEF CheckoutCustody, Files, Lawful, Form
<1>2. Materializes(p) /\ job[p].todo # {}  BY <1>1 DEF Place, Holding, Publication
<1>3. CASE Fail(p)  BY <1>2, <1>3, FailStep DEF Holding
<1>4. ASSUME NEW new, new = CheckedOut(EntryOf(p).commit), UNCHANGED curator,
             Becomes(p, [job[p] EXCEPT !.step = "publishing", !.built = new])
      PROVE  CheckoutCustody'
  <2>1. /\ DOMAIN job' = Tools /\ \A q \in Tools \ {p} : job'[q] = job[q]
        /\ DOMAIN job'[p] = JobFields /\ job'[p].step = "publishing" /\ job'[p].built = new
        /\ job'[p].todo = job[p].todo
        /\ job'[p].kind = job[p].kind /\ job'[p].catalog = job[p].catalog
        /\ job'[p].entries = job[p].entries /\ job'[p].locked = job[p].locked
        /\ job'[p].fetched = job[p].fetched /\ job'[p].report = job[p].report
        /\ job'[p].installed = job[p].installed /\ job'[p].moved = job[p].moved
        BY <1>1, <1>4 DEF Becomes, JobFields
  <2>2. EntryOf(p)' = EntryOf(p)  BY <2>1 DEF EntryOf, Id
  <2>3. Place(p)'
        BY <1>1, <1>2, <1>4, <2>1, <2>2 DEF Place, Holding, Publication, Materializes, CheckedOut
  <2>4. ~Locking(p)'  BY <2>1 DEF Locking
  <2>5. job'[p].step \in Holding \ Publication /\ job[p].step \in Holding  BY <2>1 DEF Holding, Publication
  <2> QED  BY <1>2, <1>4, <2>1, <2>3, <2>4, <2>5, GoingOn
<1> QED  BY <1>3, <1>4 DEF Built

LEMMA ProbeRefStep == ASSUME CheckoutCustody, NEW p \in Tools, ProbeRef(p) PROVE CheckoutCustody'
<1>0. job[p].step = "probing" /\ UNCHANGED <<world, kept, budget>>  BY DEF ProbeRef
<1>1. DOMAIN job = Tools /\ DOMAIN job[p] = JobFields /\ Place(p)
      BY DEF CheckoutCustody, Files, Lawful, Form
<1>2. Materializes(p) /\ job[p].todo # {}  BY <1>0, <1>1 DEF Place, Holding, Publication
<1>3. CASE Fail(p)  BY <1>0, <1>2, <1>3, FailStep DEF Holding
<1>4. ASSUME NEW target, Becomes(p, [job[p] EXCEPT !.step = "fetching", !.seen = target]), UNCHANGED curator
      PROVE  CheckoutCustody'
  <2>1. /\ DOMAIN job' = Tools /\ \A q \in Tools \ {p} : job'[q] = job[q]
        /\ DOMAIN job'[p] = JobFields /\ job'[p].step = "fetching" /\ job'[p].todo = job[p].todo
        /\ job'[p].kind = job[p].kind /\ job'[p].catalog = job[p].catalog
        /\ job'[p].entries = job[p].entries /\ job'[p].locked = job[p].locked
        /\ job'[p].fetched = job[p].fetched /\ job'[p].report = job[p].report
        /\ job'[p].installed = job[p].installed /\ job'[p].moved = job[p].moved
        BY <1>1, <1>4 DEF Becomes, JobFields
  <2>2. Place(p)'  BY <1>0, <1>1, <1>2, <1>4, <2>1 DEF Place, Holding, Publication, Materializes
  <2>3. ~Locking(p)'  BY <2>1 DEF Locking
  <2> QED  BY <1>0, <1>2, <1>4, <2>1, <2>2, <2>3, GoingOn DEF Holding, Publication
<1> QED  BY <1>3, <1>4 DEF ProbeRef

LEMMA PublishStep ==
    ASSUME CheckoutCustody, NEW p \in Tools, Publish(p)
    PROVE  /\ CheckoutCustody'
           /\ \A s \in SourceIds : checkouts'[s] # checkouts[s] =>
                 /\ checkouts[s] = Refused /\ Id(p) = s
                 /\ checkouts'[s] = CheckedOut(EntryOf(p).commit)
<1>0. job[p].step = "publishing" /\ UNCHANGED <<world, entries, caches, budget>>  BY DEF Publish
<1>1. /\ DOMAIN job = Tools /\ DOMAIN job[p] = JobFields /\ Place(p) /\ DOMAIN checkouts = SourceIds
      /\ curator \in Tools \cup {Free}
      BY DEF CheckoutCustody, Files, Lawful, Form
<1>2. Materializes(p) /\ job[p].todo # {} /\ job[p].built = CheckedOut(EntryOf(p).commit)
      BY <1>0, <1>1 DEF Place, Holding, Publication
<1>3. CASE Fail(p) /\ UNCHANGED checkouts  BY <1>0, <1>2, <1>3, FailStep DEF Holding, kept
<1>4. CASE /\ ~IsThere(checkouts[Id(p)])
           /\ checkouts' = [checkouts EXCEPT ![Id(p)] = job[p].built] /\ Proceed(p, job[p]) /\ UNCHANGED curator
  <2>1. /\ DOMAIN job' = Tools /\ \A q \in Tools \ {p} : job'[q] = job[q]
        /\ DOMAIN job'[p] = JobFields /\ job'[p].step = "working" /\ job'[p].todo \subseteq job[p].todo
        /\ job'[p].kind = job[p].kind /\ job'[p].catalog = job[p].catalog
        /\ job'[p].entries = job[p].entries /\ job'[p].locked = job[p].locked
        /\ job'[p].fetched = job[p].fetched /\ job'[p].report = job[p].report
        /\ job'[p].installed = job[p].installed /\ job'[p].moved = job[p].moved
        BY <1>1, <1>4 DEF Proceed, Becomes, JobFields
  <2>2. \A s \in SourceIds : checkouts'[s] # checkouts[s] =>
                 /\ checkouts[s] = Refused /\ Id(p) = s
                 /\ checkouts'[s] = CheckedOut(EntryOf(p).commit)
        BY <1>1, <1>2, <1>4 DEF IsThere
  <2>3. \A s \in SourceIds : IsCheckout(checkouts'[s])
    <3>1. IsCheckout(CheckedOut(EntryOf(p).commit))
      <4>1. ASSUME NEW h PROVE CheckedOut(h) \in Worktrees({CheckedOut(h).head})
            BY DEF CheckedOut, Worktrees
      <4> QED  BY <4>1 DEF IsCheckout
    <3>2. \A s \in SourceIds : IsCheckout(checkouts[s])  BY DEF CheckoutCustody, World
    <3> QED  BY <2>2, <3>1, <3>2
  <2>4. UNCHANGED <<catalog, origins, advertised, harmed, entries, objects, backups, aside, budget>>
        BY <1>0 DEF world, caches
  <2>5. Files' /\ World'
    <3>1. \A s \in SourceIds : IsCheckout(checkouts[s])'  BY <2>3 DEF IsCheckout
    <3>2. (\A s \in SourceIds : /\ Truthful(entries[s]) /\ IsCache(objects[s]) /\ IsCache(backups[s])
                                /\ Held(entries[s], s))'
          BY <1>0, SafeStays DEF Safe
    <3>3. World'  BY <2>4, <3>1, <3>2 DEF CheckoutCustody, World, Located, ShownBy
    <3> QED  BY <1>1, <1>4, <2>1, <2>4, <3>3 DEF CheckoutCustody, Files
  <2>6. Place(p)'  BY <1>0, <1>1, <1>4, <2>1 DEF Place, Holding, Publication
  <2>7. ~Locking(p)'  BY <1>2, <2>1 DEF Locking, Materializes
  <2>8. Lawful(p)'
    <3>0. Lawful(p)  BY DEF CheckoutCustody
    <3>1. Form(p)'  BY <2>1, <3>0 DEF Lawful, Form
    <3>2. Knows(p)'  BY <2>1, <2>4, <3>0 DEF Lawful, Knows, Truthful, Loads
    <3>3. Told(p)'  BY <2>1, <2>4, <3>0 DEF Lawful, Told
    <3>4. Prepares(p)'  BY <2>1, <2>7, <3>0 DEF Lawful, Prepares
    <3>5. job[p].installed = {} /\ job[p].moved = {}
          BY <1>2, <3>0, NothingInstalled DEF Materializes
    <3>6. Swaps(p)'  BY <2>1, <3>5 DEF Swaps, Publication
    <3> QED  BY <2>6, <3>1, <3>2, <3>3, <3>4, <3>6 DEF Lawful
  <2>9. ASSUME NEW q \in Tools PROVE Lawful(q)'
    <3>1. CASE q = p  BY <2>8, <3>1
    <3>2. CASE q # p
      <4>1. Lawful(q) /\ job'[q] = job[q] /\ advertised \subseteq advertised'
            /\ Undisturbed
            BY <2>1, <2>4, <2>9, <3>2 DEF CheckoutCustody, Undisturbed
      <4> QED  BY <1>4, <2>9, <4>1, OthersStayLawful
    <3> QED  BY <3>1, <3>2
  <2> QED  BY <2>2, <2>5, <2>9 DEF CheckoutCustody
<1> QED  BY <1>3, <1>4 DEF Publish

(* A checkout in which verifyCheckout finds nothing is the locked commit,     *)
(* detached, clean and whole.                                                 *)
LEMMA NothingFound ==
    ASSUME NEW checkout, checkout # Refused, IsCheckout(checkout), NEW entry,
           VerifyCheckout(checkout, entry).reasons = {}
    PROVE  checkout = CheckedOut(entry.commit) /\ entry.tree = entry.commit
<1> DEFINE last == {"tree" : t \in {entry.tree} \ {checkout.head}}
                     \cup LicenseReasons(checkout, entry) \cup IndirectionReasons(checkout)
<1>1. \A head, reasons : Found(head, reasons).reasons = reasons  BY DEF Found
<1> HIDE DEF last
<1>2. /\ CheckoutAdministration(checkout) /\ ProgramReasons(checkout) = {} /\ IsDetachedHead(checkout)
      /\ checkout.head = entry.commit /\ TreeIsComplete(checkout)
      /\ HiddenIndexReasons(checkout) = {} /\ IsCleanWorktree(checkout) /\ last = {}
      BY <1>1 DEF VerifyCheckout, last
<1>3. entry.tree = checkout.head  BY <1>2 DEF last
<1>4. checkout \in [head: {checkout.head}, detached: BOOLEAN, dirty: BOOLEAN, hidden: BOOLEAN,
                    objects: {"whole", "missing", "corrupt"}, defect: {None, "linked", "objects elsewhere", "program"}]
      BY DEF IsCheckout, Worktrees
<1>5. checkout.detached = TRUE /\ checkout.hidden = FALSE /\ checkout.dirty = FALSE
      BY <1>2, <1>4 DEF IsDetachedHead, HiddenIndexReasons, IsCleanWorktree
<1>6. checkout.objects = "whole" /\ checkout.defect = None
      BY <1>2, <1>4 DEF TreeIsComplete, ObjectIdentityHolds, BlobsAreLocal, CheckoutAdministration,
         ObjectStorageInside, ProgramReasons, None
<1>7. checkout = CheckedOut(checkout.head)  BY <1>4, <1>5, <1>6 DEF CheckedOut
<1> QED  BY <1>2, <1>3, <1>7

LEMMA StatusSays ==
    ASSUME NEW source, NEW entry, NEW checkout, IsCheckout(checkout),
           FullStatus(source, entry, checkout) \in {"materialized_verified", "materialized_with_visible_assumption"}
    PROVE  /\ entry # Refused /\ checkout = CheckedOut(entry.commit) /\ entry.tree = entry.commit
           /\ FullStatus(source, entry, checkout) = "materialized_verified" => entry.verified
<1>1. LockOnlyStatus(source, entry) = "locked_unmaterialized" /\ IsThere(checkout)
  <2>1. LockOnlyStatus(source, entry) \in {"queued_unlocked", "drifted", "locked_unmaterialized"}
        BY DEF LockOnlyStatus
  <2> QED  BY <2>1 DEF FullStatus
<1>2. entry # Refused  BY <1>1 DEF LockOnlyStatus
<1>3. VerifyCheckout(checkout, entry).reasons = {}
      BY <1>1 DEF FullStatus
<1>4. FullStatus(source, entry, checkout) = "materialized_verified" => entry.verified
      BY <1>1, <1>3 DEF FullStatus
<1> QED  BY <1>1, <1>2, <1>3, <1>4, NothingFound DEF IsThere

LEMMA ReportStep == ASSUME CheckoutCustody, NEW p \in Tools, Report(p) PROVE CheckoutCustody'
<1> DEFINE s == Id(p)
           e == EntryOf(p)
           c == checkouts[s]
           state == FullStatus(Source(p), e, c)
           report == [entry |-> e, checkout |-> c, state |-> state]
<1>0. /\ job[p].step = "reporting" /\ job[p].todo # {} /\ UNCHANGED <<world, kept, curator, budget>>
      /\ Becomes(p, [job[p] EXCEPT !.todo = @ \ {s}, !.report = report])
      BY DEF Report
<1>1. /\ Lawful(p) /\ DOMAIN job = Tools /\ DOMAIN job[p] = JobFields /\ curator \in Tools \cup {Free}
      /\ s \in SourceIds
      BY <1>0, NextSource DEF CheckoutCustody, Files, Lawful, Form
<1> HIDE DEF s, report
<1>2. /\ DOMAIN job' = Tools /\ \A q \in Tools \ {p} : job'[q] = job[q]
      /\ DOMAIN job'[p] = JobFields /\ job'[p].step = "reporting" /\ job'[p].todo \subseteq job[p].todo
      /\ job'[p].report = report
      /\ job'[p].kind = job[p].kind /\ job'[p].catalog = job[p].catalog
      /\ job'[p].entries = job[p].entries /\ job'[p].locked = job[p].locked
      /\ job'[p].fetched = job[p].fetched
      /\ job'[p].installed = job[p].installed /\ job'[p].moved = job[p].moved
      BY <1>0, <1>1 DEF Becomes, JobFields
<1>3. ASSUME state \in {"materialized_verified", "materialized_with_visible_assumption"}
      PROVE  /\ c = CheckedOut(e.commit)
             /\ state = "materialized_verified" => <<e.origin, e.ref, e.commit>> \in advertised
  <2>1. IsCheckout(c)  BY <1>1 DEF CheckoutCustody, World
  <2>2. /\ e # Refused /\ c = CheckedOut(e.commit) /\ e.tree = e.commit
        /\ state = "materialized_verified" => e.verified
        BY <1>3, <2>1, StatusSays
  <2>3. Truthful(e) /\ Loads(job[p].entries)
        BY <1>0, <1>1 DEF Lawful, Knows, EntryOf, s
  <2>4. ValidEntry(e)  BY <1>1, <2>2, <2>3 DEF Loads, EntryOf, s
  <2>5. e.verified => e.acquisition = "remote"  BY <2>4 DEF ValidEntry
  <2> QED  BY <2>2, <2>3, <2>5 DEF Truthful
<1>4. Told(p)'
  <2>1. report.entry = e /\ report.checkout = c /\ report.state = state  BY DEF report
  <2> QED  BY <1>0, <1>2, <1>3, <2>1 DEF Told, world
<1>5. Form(p)'  BY <1>1, <1>2 DEF Lawful, Form
<1>6. Place(p)'  BY <1>2 DEF Place, Holding, Publication
<1>7. Knows(p)'  BY <1>0, <1>1, <1>2 DEF Lawful, Knows, Truthful, Loads, world
<1>8. Prepares(p)'  BY <1>1, <1>2 DEF Lawful, Prepares, Locking
<1>9. job[p].installed = {} /\ job[p].moved = {}  BY <1>0, <1>1, NothingInstalled DEF Publication
<1>10. Swaps(p)'  BY <1>2, <1>9 DEF Swaps, Publication
<1>11. budget' \in Budgets  BY <1>0, BudgetStep
<1> QED  BY <1>0, <1>1, <1>2, <1>4, <1>5, <1>6, <1>7, <1>8, <1>10, <1>11, CommandStep DEF Lawful

LEMMA CommandKeeps == ASSUME CheckoutCustody, NEW p \in Tools, Command(p) PROVE CheckoutCustody'
<1>1. CASE Reported(p) \/ EndMaterialize(p) \/ EndPublication(p)
  <2>1. UNCHANGED <<world, kept, budget>> /\ Finish(p)  BY <1>1 DEF Reported, EndMaterialize, EndPublication
  <2> QED  BY <2>1, BudgetStep, FinishStep
<1>2. CASE Stop(p)
  <2>1. UNCHANGED <<world, kept>> /\ Finish(p) /\ budget' \in Budgets  BY <1>2, BudgetStep DEF Stop
  <2> QED  BY <2>1, FinishStep
<1>3. CASE CloneLocal(p)
      BY <1>3, BuiltStep DEF CloneLocal
<1>4. CASE FetchLocked(p)
  <2>1. job[p].step = "fetching" /\ UNCHANGED <<world, kept, budget>> /\ \E available : Built(p, available)
        BY <1>4 DEF FetchLocked
  <2> QED  BY <2>1, BuiltStep
<1> QED  BY <1>1, <1>2, <1>3, <1>4, BeginStep, LoadForStatusStep, ReportStep, LoadAgainStep,
            AcquireCuratorStep, ObserveSourceStep, FetchSelectorStep, NameRefStep, ConfirmRefStep, EndLockStep,
            MoveAsideStep, PutInPlaceStep, CommitLockStep, DropBackupStep, TakeBackStep, PutBackStep,
            CheckExistingStep, ProbeRefStep, PublishStep DEF Command

LEMMA CheckoutInitHolds == CheckoutInit => CheckoutCustody
<1> SUFFICES ASSUME CheckoutInit PROVE CheckoutCustody
    OBVIOUS
<1>1. Files  BY RecordsHaveOrigins DEF CheckoutInit, Files, NoneYet
<1>2. Located(catalog)  BY RecordsHaveOrigins DEF CheckoutInit, Located, IsThere
<1>3. \A url \in DOMAIN origins : ShownBy(url, origins[url]) \subseteq advertised
      BY DEF CheckoutInit
<1>4. \A s \in SourceIds : /\ entries[s] = Refused /\ objects[s] = Refused
                           /\ backups[s] = Refused /\ checkouts[s] = Refused
      BY DEF CheckoutInit, NoneYet
<1>5. World  BY <1>2, <1>3, <1>4 DEF World, Truthful, IsCheckout, IsCache, Held, Replayable, Promised
<1>6. ASSUME NEW p \in Tools PROVE Lawful(p)
  <2>1. job[p] = Idle  BY <1>6 DEF CheckoutInit
  <2>2. Form(p)  BY <2>1 DEF Form, Idle, NoneYet, JobFields
  <2>3. Place(p)  BY <2>1 DEF Place, Idle, Holding, Publication
  <2>4. Knows(p)  BY <2>1 DEF Knows, Idle, NoneYet, Located, Truthful
  <2>5. Told(p)  BY <2>1 DEF Told, Idle
  <2>6. Prepares(p)  BY <2>1 DEF Prepares, Idle, NoneYet, Locking
  <2>7. Swaps(p)  BY <2>1 DEF Swaps, Idle, Publication
  <2> QED  BY <2>2, <2>3, <2>4, <2>5, <2>6, <2>7 DEF Lawful
<1> QED  BY <1>1, <1>5, <1>6 DEF CheckoutCustody

(* What people change: no job, and never what a job relies on.                *)
LEMMA EditStep ==
    ASSUME CheckoutCustody, Edit, World', UNCHANGED <<caches, harmed>>, advertised \subseteq advertised',
           DOMAIN catalog' = SourceIds, DOMAIN origins' = DOMAIN origins,
           DOMAIN entries' = SourceIds, DOMAIN checkouts' = SourceIds,
           \A s \in SourceIds : Promised(entries[s])' => Promised(entries[s])
    PROVE  CheckoutCustody'
<1>1. budget' \in Budgets /\ UNCHANGED <<curator, job>>  BY BudgetStep DEF Edit
<1>2. Files'  BY <1>1 DEF CheckoutCustody, Files, Budgets, caches
<1>3. ASSUME NEW q \in Tools PROVE Lawful(q)'
  <2>1. Lawful(q) /\ Undisturbed  BY <1>3 DEF CheckoutCustody, Undisturbed, caches
  <2> QED  BY <1>1, <1>3, <2>1, OthersStayLawful
<1> QED  BY <1>2, <1>3 DEF CheckoutCustody

LEMMA EditCatalogStep ==
    ASSUME CheckoutCustody, NEW s \in SourceIds, NEW record \in CatalogEdits[s], EditCatalog(s, record)
    PROVE  CheckoutCustody'
<1>1. /\ Edit /\ catalog' = [catalog EXCEPT ![s] = record]
      /\ UNCHANGED <<origins, siblings, advertised, harmed, entries, caches, checkouts>> /\ DOMAIN catalog = SourceIds
      /\ DOMAIN entries = SourceIds /\ DOMAIN checkouts = SourceIds
      BY DEF EditCatalog, kept, CheckoutCustody, Files
<1>2. Located(catalog)'
      BY <1>1, RecordsHaveOrigins DEF CheckoutCustody, World, Located, IsThere
<1>3. World'
      BY <1>1, <1>2 DEF CheckoutCustody, World, Truthful, ShownBy, IsCheckout, IsCache, caches, Held, Replayable,
         Whereabouts, Replays, Promised
<1>4. \A t \in SourceIds : Promised(entries[t])' => Promised(entries[t])  BY <1>1 DEF Promised
<1> QED  BY <1>1, <1>3, <1>4, EditStep

LEMMA EditSiblingStep ==
    ASSUME CheckoutCustody, NEW s \in SourceIds, NEW new, EditSibling(s, new)
    PROVE  CheckoutCustody'
<1>1. /\ Edit /\ UNCHANGED <<catalog, origins, advertised, harmed, entries, caches, checkouts>>
      /\ DOMAIN catalog = SourceIds /\ DOMAIN entries = SourceIds /\ DOMAIN checkouts = SourceIds
      BY DEF EditSibling, kept, CheckoutCustody, Files
<1>2. World'
      BY <1>1 DEF CheckoutCustody, World, Located, Truthful, ShownBy, IsCheckout, IsCache, caches, Held, Replayable,
         Whereabouts, Replays, Promised
<1>3. \A t \in SourceIds : Promised(entries[t])' => Promised(entries[t])  BY <1>1 DEF Promised
<1> QED  BY <1>1, <1>2, <1>3, EditStep

LEMMA EditOriginStep ==
    ASSUME CheckoutCustody, NEW url, NEW new, EditOrigin(url, new)
    PROVE  CheckoutCustody'
<1>1. /\ Edit /\ UNCHANGED <<catalog, harmed, entries, caches, checkouts>>
      /\ origins' = [origins EXCEPT ![url] = new] /\ advertised' = advertised \cup ShownBy(url, new)
      /\ DOMAIN catalog = SourceIds /\ DOMAIN entries = SourceIds /\ DOMAIN checkouts = SourceIds
      BY DEF EditOrigin, kept, CheckoutCustody, Files
<1>2. ASSUME NEW u \in DOMAIN origins PROVE ShownBy(u, origins'[u]) \subseteq advertised'
  <2>1. ShownBy(u, origins[u]) \subseteq advertised  BY <1>2 DEF CheckoutCustody, World
  <2>2. origins'[u] = IF u = url THEN new ELSE origins[u]  BY <1>1, <1>2
  <2> QED  BY <1>1, <2>1, <2>2
<1>3. DOMAIN origins' = DOMAIN origins  BY <1>1
<1>4. (\A u \in DOMAIN origins : ShownBy(u, origins[u]) \subseteq advertised)'
      BY <1>2, <1>3 DEF ShownBy
<1>5. \A s \in SourceIds : Truthful(entries[s])'
      BY <1>1 DEF CheckoutCustody, World, Truthful
<1>6. World'
      BY <1>1, <1>4, <1>5 DEF CheckoutCustody, World, Located, IsCheckout, IsCache, caches, Held, Replayable,
         Whereabouts, Replays, Promised
<1>7. \A t \in SourceIds : Promised(entries[t])' => Promised(entries[t])  BY <1>1 DEF Promised
<1> QED  BY <1>1, <1>3, <1>6, <1>7, EditStep

LEMMA EditCheckoutStep ==
    ASSUME CheckoutCustody, NEW s \in SourceIds, NEW new \in CheckoutEdits[s], EditCheckout(s, new)
    PROVE  CheckoutCustody'
<1>1. /\ Edit /\ checkouts' = [checkouts EXCEPT ![s] = new]
      /\ UNCHANGED <<catalog, origins, siblings, advertised, harmed, entries, caches>>
      /\ DOMAIN catalog = SourceIds /\ DOMAIN entries = SourceIds /\ DOMAIN checkouts = SourceIds
      BY DEF EditCheckout, world, CheckoutCustody, Files
<1>2. IsCheckout(new)
  <2>1. ASSUME new # Refused PROVE new \in Worktrees({new.head})
    <3>1. new \in Worktrees(Commits)  BY <2>1, EditsAreKnown
    <3> QED  BY <3>1 DEF Worktrees
  <2> QED  BY <2>1 DEF IsCheckout
<1>3. \A t \in SourceIds : IsCheckout(checkouts'[t])
      BY <1>1, <1>2 DEF CheckoutCustody, World
<1>4. \A t \in SourceIds : IsCheckout(checkouts[t])'  BY <1>3 DEF IsCheckout
<1>5. World'
      BY <1>1, <1>4 DEF CheckoutCustody, World, Located, Truthful, ShownBy, IsCache, caches, Held, Replayable,
         Whereabouts, Replays, Promised
<1>6. \A t \in SourceIds : Promised(entries[t])' => Promised(entries[t])  BY <1>1 DEF Promised
<1> QED  BY <1>1, <1>5, <1>6, EditStep

LEMMA EditEntryStep ==
    ASSUME CheckoutCustody, NEW s \in SourceIds, NEW field \in {"commit", "verified"}, NEW value,
           EditEntry(s, field, value)
    PROVE  CheckoutCustody'
<1>1. /\ Edit /\ entries[s] # Refused /\ entries' = [entries EXCEPT ![s][field] = value]
      /\ UNCHANGED <<catalog, origins, siblings, advertised, harmed, caches, checkouts>>
      /\ DOMAIN catalog = SourceIds /\ DOMAIN entries = SourceIds /\ DOMAIN checkouts = SourceIds
      BY DEF EditEntry, world, CheckoutCustody, Files
<1>2. DOMAIN entries[s] = EntryFields  BY <1>1 DEF CheckoutCustody, World, Truthful
<1>3. /\ DOMAIN entries'[s] = EntryFields
      /\ entries'[s].acquisition = entries[s].acquisition /\ entries'[s].origin = entries[s].origin
      /\ entries'[s].ref = entries[s].ref /\ entries'[s].tree = entries[s].tree
      /\ \A t \in SourceIds \ {s} : entries'[t] = entries[t]
      BY <1>1, <1>2 DEF EntryFields
<1>4. ASSUME NEW t \in SourceIds
      PROVE  Truthful(entries[t])' /\ Held(entries[t], t)' /\ (Promised(entries[t])' => Promised(entries[t]))
  <2>1. Truthful(entries[t]) /\ Held(entries[t], t)  BY <1>4 DEF CheckoutCustody, World
  <2>2. Whereabouts(t)' = Whereabouts(t)  BY <1>1 DEF Whereabouts, caches
  <2>3. CASE t = s
        BY <1>1, <1>3, <2>1, <2>2, <2>3 DEF Truthful, Held, Replayable, Replays, Promised
  <2>4. CASE t # s
        BY <1>1, <1>3, <1>4, <2>1, <2>2, <2>4 DEF Truthful, Held, Replayable, Replays, Promised
  <2> QED  BY <2>3, <2>4
<1>5. World'
      BY <1>1, <1>4 DEF CheckoutCustody, World, Located, ShownBy, IsCheckout, IsCache, caches
<1> QED  BY <1>1, <1>4, <1>5, EditStep

LEMMA DamageCacheStep ==
    ASSUME CheckoutCustody, NEW s \in SourceIds, DamageCache(s)
    PROVE  CheckoutCustody'
<1>1. /\ budget' \in Budgets /\ UNCHANGED <<curator, job>> /\ objects[s] # Refused
      /\ objects' = [objects EXCEPT ![s] = InPieces(@)] /\ harmed' = harmed \cup {s}
      /\ UNCHANGED <<catalog, origins, siblings, advertised, entries, backups, aside, checkouts>>
      /\ DOMAIN objects = SourceIds
      BY BudgetStep DEF DamageCache, Edit, CheckoutCustody, Files
<1>2. /\ DOMAIN objects' = SourceIds /\ IsCache(objects'[s])
      /\ \A t \in SourceIds \ {s} : objects'[t] = objects[t]
  <2>1. IsCache(objects[s])  BY DEF CheckoutCustody, World
  <2>2. objects' \in Remnants(objects, s)  BY <1>1 DEF Remnants, IsThere
  <2> QED  BY <1>1, <2>1, <2>2, RemnantsAreCaches
<1>3. Files'  BY <1>1, <1>2 DEF CheckoutCustody, Files, Budgets
<1>4. ASSUME NEW e, NEW t \in SourceIds
      PROVE  Held(e, t) => t \in harmed' \/ (Promised(e) => Replays(e, Whereabouts(t)'))
      BY <1>1, <1>2, <1>4 DEF Held, Replayable, Whereabouts
<1>5. World'
  <2>1. \A t \in SourceIds : Held(entries[t], t)'
        BY <1>1, <1>4 DEF CheckoutCustody, World, Held, Replayable, Replays, Promised
  <2>2. \A t \in SourceIds : IsCache(objects[t])' /\ IsCache(backups[t])'
        BY <1>1, <1>2 DEF CheckoutCustody, World, IsCache
  <2> QED  BY <1>1, <2>1, <2>2 DEF CheckoutCustody, World, Located, ShownBy, IsCheckout, Truthful
<1>6. ASSUME NEW q \in Tools PROVE Lawful(q)'
  <2>1. Lawful(q)  BY <1>6 DEF CheckoutCustody
  <2>2. Form(q)' /\ Told(q)'  BY <1>1, <2>1 DEF Lawful, Form, Told
  <2>3. EntryOf(q)' = EntryOf(q) /\ Materializes(q)' = Materializes(q)
        BY <1>1 DEF EntryOf, Id, Materializes
  <2>4. Place(q)'  BY <1>1, <2>1, <2>3 DEF Lawful, Place
  <2>5. Knows(q)'  BY <1>1, <2>1 DEF Lawful, Knows, Truthful, Loads
  <2>6. ASSUME NEW t \in SourceIds, Ready(q, t) PROVE Ready(q, t)'
    <3>1. Held(job[q].entries[t], t) => Held(job[q].entries[t], t)'
          BY <1>1, <1>4, <2>6 DEF Held, Replayable, Replays, Promised
    <3>2. Replayable(job[q].locked[t], objects[t], t) => Replayable(job[q].locked[t], objects[t], t)'
          BY <1>1, <1>2, <2>6 DEF Replayable, Replays, Promised
    <3> QED  BY <1>1, <2>6, <3>1, <3>2 DEF Ready, IsCache, Replays
  <2>7. Prepares(q)'  BY <1>1, <2>1, <2>6 DEF Lawful, Prepares, Locking
  <2>8. Left(q)' = Left(q)  BY <1>1 DEF Left
  <2>9. \A t \in job[q].installed : Unpromised(t) => Unpromised(t)'  BY <1>1 DEF Unpromised, Promised
  <2>10. \A t \in job[q].installed :
            t \in harmed \/ objects[t] = job[q].fetched[t] => t \in harmed' \/ objects'[t] = job[q].fetched[t]
         BY <1>1, <1>2, <2>1 DEF Lawful, Form
  <2>11. job[q].step = "installing" => objects'[Foremost(Left(q))] = Refused
    <3>1. job[q].step = "installing" => objects[Foremost(Left(q))] = Refused  BY <2>1 DEF Lawful, Swaps
    <3> QED  BY <1>1, <3>1
  <2>12. Swaps(q)'  BY <1>1, <2>1, <2>8, <2>9, <2>10, <2>11 DEF Lawful, Swaps
  <2> QED  BY <2>2, <2>4, <2>5, <2>7, <2>12 DEF Lawful
<1> QED  BY <1>3, <1>5, <1>6 DEF CheckoutCustody

LEMMA CheckoutCustodyStep == CheckoutCustody /\ [CheckoutNext]_checkoutVars => CheckoutCustody'
<1> SUFFICES ASSUME CheckoutCustody, [CheckoutNext]_checkoutVars PROVE CheckoutCustody'
    OBVIOUS
<1>1. CASE \E p \in Tools : Command(p)  BY <1>1, CommandKeeps
<1>2. ASSUME NEW s \in SourceIds, NEW e \in EntryEdits[s], EditEntry(s, e[1], e[2]) PROVE CheckoutCustody'
  <2>1. e[1] \in {"commit", "verified"}  BY <1>2, EditsAreKnown
  <2> QED  BY <1>2, <2>1, EditEntryStep
<1>3. CASE UNCHANGED checkoutVars
  <2>1. UNCHANGED <<catalog, origins, siblings, advertised, harmed, entries, objects, backups, aside, checkouts,
                    curator, job, budget>>
        BY <1>3 DEF checkoutVars, world, kept, caches
  <2>2. Files'  BY <2>1 DEF CheckoutCustody, Files
  <2>3. World'
        BY <2>1 DEF CheckoutCustody, World, Located, Truthful, ShownBy, IsCheckout, IsCache, Held, Replayable,
           Whereabouts, Replays, Promised
  <2>4. ASSUME NEW q \in Tools PROVE Lawful(q)'
    <3>1. Lawful(q) /\ Undisturbed  BY <2>1, <2>4 DEF CheckoutCustody, Undisturbed, Promised
    <3> QED  BY <2>1, <2>4, <3>1, OthersStayLawful
  <2> QED  BY <2>2, <2>3, <2>4 DEF CheckoutCustody
<1> QED  BY <1>1, <1>2, <1>3, EditCatalogStep, EditSiblingStep, EditCheckoutStep, EditOriginStep,
            DamageCacheStep DEF CheckoutNext

LEMMA CheckoutCustodyAlways == CheckoutSpec => []CheckoutCustody
BY CheckoutInitHolds, CheckoutCustodyStep, PTL DEF CheckoutSpec

(* A status that calls a checkout verified was true of it when it was         *)
(* reported: computeStatus, over entries that only a confirmed origin makes   *)
(* remote, whatever people edit and however commands overlap.                 *)
THEOREM StatusIsTrueHolds == CheckoutSpec => []StatusIsTrue
<1>1. CheckoutCustody => StatusIsTrue
      BY DEF CheckoutCustody, Lawful, Told, StatusIsTrue
<1> QED  BY <1>1, CheckoutCustodyAlways, PTL

(* What was locked from the origin or the cache can be replayed from that    *)
(* cache or, while a publication has it aside, from the backup beside it, but *)
(* for sources whose cache somebody damaged: publishStagedCaches moves a      *)
(* cache only where no backup is, writes the lock over caches that hold what  *)
(* it names, and drops no backup before that, whichever of its steps fails    *)
(* and wherever it is killed.                                                 *)
THEOREM LockedIsReplayableHolds == CheckoutSpec => []LockedIsReplayable
<1>1. CheckoutCustody => LockedIsReplayable
  <2> SUFFICES ASSUME CheckoutCustody, NEW s \in SourceIds \ harmed, entries[s] # Refused,
                      entries[s].acquisition # "local-sibling", entries[s].tree = entries[s].commit
               PROVE  /\ Whereabouts(s) # Refused
                      /\ \/ ClosureHolds(Whereabouts(s), entries[s].commit)
                         \/ entries[s].acquisition = "local-object-cache" /\ Whereabouts(s).partial # {}
      BY DEF LockedIsReplayable
  <2>1. Held(entries[s], s)  BY DEF CheckoutCustody, World
  <2> QED  BY <2>1 DEF Held, Replayable, Replays, Promised, ClosureHolds
<1> QED  BY <1>1, CheckoutCustodyAlways, PTL

(* No command touches a checkout that is there, and what one adds is the      *)
(* commit of an entry it has read (publishCheckout).                          *)
THEOREM CheckoutsAreKeptHolds == CheckoutSpec => CheckoutsAreKept
<1> DEFINE Touched(s) ==
               \/ budget'.edits # budget.edits
               \/ /\ checkouts[s] = Refused
                  /\ \E p \in Tools : /\ job[p].step = "publishing" /\ Id(p) = s
                                      /\ checkouts'[s] = CheckedOut(EntryOf(p).commit)
<1>1. ASSUME CheckoutCustody, CheckoutNext, NEW s \in SourceIds, checkouts'[s] # checkouts[s]
      PROVE  Touched(s)
  <2>1. ASSUME NEW p \in Tools, Command(p) PROVE Touched(s)
    <3>1. checkouts' = checkouts \/ Publish(p)
          BY <2>1 DEF Command, Begin, LoadForStatus, Report, Reported, LoadAgain, AcquireCurator,
             ObserveSource, FetchSelector, NameRef, ConfirmRef, EndLock, MoveAside, PutInPlace, CommitLock,
             DropBackup, TakeBack, PutBack, EndPublication, CheckExisting, CloneLocal,
             ProbeRef, FetchLocked, EndMaterialize, Stop, kept
    <3>2. Publish(p)  BY <1>1, <3>1
    <3>3. job[p].step = "publishing"  BY <3>2 DEF Publish
    <3> QED  BY <1>1, <3>2, <3>3, PublishStep
  <2>2. CASE Edit  BY <1>1, <2>2, BudgetStep DEF Edit
  <2> HIDE DEF Touched
  <2> QED  BY <1>1, <2>1, <2>2
           DEF CheckoutNext, EditCatalog, EditOrigin, EditSibling, EditCheckout, DamageCache, EditEntry
<1>2. CheckoutCustody /\ [CheckoutNext]_checkoutVars
      => [\A s \in SourceIds : checkouts'[s] # checkouts[s] => Touched(s)]_checkoutVars
      BY <1>1
<1> QED  BY <1>2, CheckoutCustodyAlways, PTL DEF CheckoutSpec, CheckoutsAreKept
=============================================================================
