-------------------------- MODULE ReferenceCustody --------------------------
(* src/src/references/remote-lock.ts, curator.ts and writeLock: processes     *)
(* that lock remote sources under one project directory. Each takes the       *)
(* curator lock (a flock a child process holds), fetches every selected       *)
(* source into a directory of its own, and publishes all of them and the lock *)
(* file in one transaction of renames that undoes itself on failure. Any file *)
(* operation can fail, and a process can be killed between any two of them.   *)
(* Lock entries written by offline locking, and checkouts, are not modelled.  *)
(*                                                                            *)
(* Operators named X_Fault are faulty versions of X, used only as mutations.  *)
EXTENDS Naturals, Sequences, FiniteSets

CONSTANTS
    Sources,          \* the ids of lockable sources
    Order,            \* the order in which a command goes through them
    Versions,         \* what a fetch of a source may find
    Absent, Damaged,  \* a directory that is not there; one a failed removal left in pieces
    Processes,
    Nobody, Orphan,   \* the curator lock is free; it is held for a process that is gone
    MaxTransactions, MaxCrashes, MaxLosses   \* bounds of the model

ASSUME OrderListsSources ==
    /\ Order \in Seq(Sources)
    /\ \A s \in Sources : \E i \in DOMAIN Order : Order[i] = s
ASSUME MarksAreNoVersions == {Absent, Damaged} \cap Versions = {} /\ Absent # Damaged
ASSUME HoldersAreProcesses == {Nobody, Orphan} \cap Processes = {} /\ Nobody # Orphan

VARIABLES
    lock,      \* source: the locked version in references/sources.lock.json
    cache,     \* source: its object cache .git-cache
    backup,    \* source: .git-cache.backup-swap
    holder,    \* who holds .references/.curator.lock
    at,        \* process: the step of its transaction
    read,      \* process: the lock file as it loaded it
    staged,    \* process, source: what its fetch directory holds
    todo,      \* process: sources still to publish
    installed, \* process: <<source, displaced a cache?>>, in order of publication
    clean,     \* process: no rollback step has failed
    outcome,   \* process: what its command reports
    before,    \* process: the disk when it began to publish (history)
    spent,     \* transactions, crashes and holder losses so far
    overlapped \* a process has begun beside another that had lost the lock (history)

disk == <<lock, cache, backup>>
own  == <<read, staged, todo, installed, clean, outcome, before>>
vars == <<disk, holder, at, own, spent, overlapped>>

Contents == Versions \cup {Absent}
Nothing == [s \in Sources |-> Absent]
Now == [lock |-> lock, cache |-> cache, backup |-> backup]

Init ==
    /\ lock = Nothing /\ cache = Nothing /\ backup = Nothing
    /\ holder = Nobody
    /\ at = [p \in Processes |-> "idle"]
    /\ read = [p \in Processes |-> Nothing]
    /\ staged = [p \in Processes |-> Nothing]
    /\ todo = [p \in Processes |-> {}]
    /\ installed = [p \in Processes |-> <<>>]
    /\ clean = [p \in Processes |-> TRUE]
    /\ outcome = [p \in Processes |-> "none"]
    /\ before = [p \in Processes |-> Now]
    /\ spent = [transactions |-> 0, crashes |-> 0, losses |-> 0]
    /\ overlapped = FALSE

Move(p, step) == at' = [at EXCEPT ![p] = step]

(* acquireCuratorLock does not wait; the lock file is loaded once it is held. *)
MayAcquire_Anyway(p) == TRUE
MayAcquire(p) == holder = Nobody
Acquire(p) ==
    /\ at[p] = "idle" /\ spent.transactions < MaxTransactions
    /\ MayAcquire(p)
    /\ holder' = p
    /\ read' = [read EXCEPT ![p] = lock]
    /\ staged' = [staged EXCEPT ![p] = Nothing]
    /\ Move(p, "fetching")
    /\ spent' = [spent EXCEPT !.transactions = @ + 1]
    /\ overlapped' = (overlapped \/ \E q \in Processes \ {p} : at[q] # "idle")
    /\ UNCHANGED <<disk, todo, installed, clean, outcome, before>>

(* The sources of a command are gone through in its order.                    *)
Earliest(S) == CHOOSE i \in DOMAIN Order : Order[i] \in S /\ \A j \in 1 .. i - 1 : Order[j] \notin S
First(S) == Order[Earliest(S)]

(* Every selected source fetched and verified: publishing begins. One that    *)
(* fails, and nothing is published. Only the fetch directories are touched.   *)
Fetched(p, found) ==
    /\ at[p] = "fetching"
    /\ staged' = [staged EXCEPT ![p] = found]
    /\ todo' = [todo EXCEPT ![p] = {s \in Sources : found[s] # Absent}]
    /\ installed' = [installed EXCEPT ![p] = <<>>]
    /\ clean' = [clean EXCEPT ![p] = TRUE]
    /\ before' = [before EXCEPT ![p] = Now]
    /\ Move(p, "publishing")
    /\ UNCHANGED <<disk, holder, read, outcome, spent, overlapped>>

End(p, result) ==
    /\ outcome' = [outcome EXCEPT ![p] = IF holder = p THEN result ELSE "lost"]
    /\ Move(p, "ended")
FetchFails(p) ==
    /\ at[p] = "fetching"
    /\ before' = [before EXCEPT ![p] = Now]
    /\ End(p, "failed")
    /\ UNCHANGED <<disk, holder, read, staged, todo, installed, clean, spent, overlapped>>
(* The supervising race: the holder's exit interrupts whatever may be         *)
(* interrupted. Publishing may not.                                           *)
Interrupted(p) ==
    /\ at[p] = "fetching" /\ holder # p
    /\ before' = [before EXCEPT ![p] = Now]
    /\ End(p, "lost")
    /\ UNCHANGED <<disk, holder, read, staged, todo, installed, clean, spent, overlapped>>

Disturb(p) ==    \* a publishing step fails: undo what was installed
    /\ Move(p, "removing")
    /\ UNCHANGED <<disk, todo, installed>>

(* displaceExisting: a cache is moved aside unless a backup is already there. *)
MayDisplace_OverOldBackup(s) == TRUE           \* an unexplained backup is replaced
MayDisplace(s) == backup[s] = Absent
Displaced(p, s, moved) ==
    /\ installed' = [installed EXCEPT ![p] = Append(@, <<s, moved>>)]
    /\ Move(p, "installing")
    /\ UNCHANGED <<lock, todo>>
Displace(p) ==
    /\ at[p] = "publishing" /\ todo[p] # {}
    /\ LET s == First(todo[p])
       IN  \/ /\ cache[s] = Absent
              /\ Displaced(p, s, FALSE)
              /\ UNCHANGED <<cache, backup>>
           \/ /\ cache[s] # Absent /\ MayDisplace(s)
              /\ backup' = [backup EXCEPT ![s] = cache[s]]
              /\ cache' = [cache EXCEPT ![s] = Absent]
              /\ Displaced(p, s, TRUE)
           \/ Disturb(p)
    /\ UNCHANGED <<holder, read, staged, clean, outcome, before, spent, overlapped>>

(* A directory is renamed only to a place that is free.                       *)
Install(p) ==
    /\ at[p] = "installing"
    /\ LET s == First(todo[p])
       IN  \/ /\ cache[s] = Absent
              /\ cache' = [cache EXCEPT ![s] = staged[p][s]]
              /\ todo' = [todo EXCEPT ![p] = @ \ {s}]
              /\ Move(p, "publishing")
              /\ UNCHANGED <<lock, backup, installed>>
           \/ Disturb(p)
    /\ UNCHANGED <<holder, read, staged, clean, outcome, before, spent, overlapped>>

(* writeLock: all entries the process loaded, the selected ones replaced.     *)
Entries_SelectedOnly(p) == staged[p]           \* the other entries are forgotten
Entries(p) == [s \in Sources |-> IF staged[p][s] = Absent THEN read[p][s] ELSE staged[p][s]]
WriteLock(p) ==
    /\ at[p] = "publishing" /\ todo[p] = {}
    /\ \/ /\ lock' = Entries(p)
          /\ Move(p, "cleaning")
          /\ UNCHANGED <<cache, backup, todo, installed>>
       \/ Disturb(p)
    /\ UNCHANGED <<holder, read, staged, clean, outcome, before, spent, overlapped>>

(* Once the lock is written the backups go, each once: what cannot be removed *)
(* is reported as residue, not as a failure.                                  *)
Clean(p) ==
    /\ at[p] = "cleaning" /\ installed[p] # <<>>
    /\ LET i == Head(installed[p])
       IN  \/ ~i[2] /\ UNCHANGED backup
           \/ i[2] /\ \E left \in {backup[i[1]], Damaged, Absent} : backup' = [backup EXCEPT ![i[1]] = left]
    /\ installed' = [installed EXCEPT ![p] = Tail(@)]
    /\ UNCHANGED <<lock, cache, holder, at, read, staged, todo, clean, outcome, before, spent, overlapped>>
Commit(p) ==
    /\ at[p] = "cleaning" /\ installed[p] = <<>>
    /\ End(p, "committed")
    /\ UNCHANGED <<disk, holder, read, staged, todo, installed, clean, before, spent, overlapped>>

(* Rollback, last installed first: the published cache is removed, then the   *)
(* displaced one is renamed back. A step that fails is remembered, and the    *)
(* others are still tried.                                                    *)
Last(p) == installed[p][Len(installed[p])]
Undone(p) == installed' = [installed EXCEPT ![p] = SubSeq(@, 1, Len(@) - 1)]
NextToUndo_Remove(p) == "removing"             \* the backup is not renamed back
NextToUndo(p) == IF Last(p)[2] THEN "restoring" ELSE "removing"
RemovePublished(p) ==
    /\ at[p] = "removing" /\ installed[p] # <<>>
    /\ LET s == Last(p)[1]
       IN  \/ cache' = [cache EXCEPT ![s] = Absent] /\ UNCHANGED clean
           \/ /\ cache[s] # Absent
              /\ \E left \in {cache[s], Damaged} : cache' = [cache EXCEPT ![s] = left]
              /\ clean' = [clean EXCEPT ![p] = FALSE]
    /\ Move(p, NextToUndo(p))
    /\ IF NextToUndo(p) = "restoring" THEN UNCHANGED installed ELSE Undone(p)
    /\ UNCHANGED <<lock, backup, holder, read, staged, todo, outcome, before, spent, overlapped>>
RestoreBackup(p) ==
    /\ at[p] = "restoring"
    /\ LET s == Last(p)[1]
       IN  \/ /\ cache[s] = Absent /\ backup[s] # Absent
              /\ cache' = [cache EXCEPT ![s] = backup[s]]
              /\ backup' = [backup EXCEPT ![s] = Absent]
              /\ UNCHANGED clean
           \/ clean' = [clean EXCEPT ![p] = FALSE] /\ UNCHANGED <<cache, backup>>
    /\ Undone(p) /\ Move(p, "removing")
    /\ UNCHANGED <<lock, holder, read, staged, todo, outcome, before, spent, overlapped>>
RolledBack(p) ==
    /\ at[p] = "removing" /\ installed[p] = <<>>
    /\ End(p, IF clean[p] THEN "failed" ELSE "unrestored")
    /\ UNCHANGED <<disk, holder, read, staged, todo, installed, clean, before, spent, overlapped>>

(* The scope closes: the holder child is killed and its flock released.       *)
Forget(p) ==
    /\ read' = [read EXCEPT ![p] = Nothing] /\ staged' = [staged EXCEPT ![p] = Nothing]
    /\ todo' = [todo EXCEPT ![p] = {}] /\ installed' = [installed EXCEPT ![p] = <<>>]
    /\ clean' = [clean EXCEPT ![p] = TRUE] /\ outcome' = [outcome EXCEPT ![p] = "none"]
    /\ before' = [before EXCEPT ![p] = [lock |-> Nothing, cache |-> Nothing, backup |-> Nothing]]
    /\ Move(p, "idle")
Release(p) ==
    /\ at[p] = "ended"
    /\ holder' = IF holder = p THEN Nobody ELSE holder
    /\ Forget(p)
    /\ UNCHANGED <<disk, spent, overlapped>>

(* A killed process leaves the disk as it is. The holder child only waits on  *)
(* a timer, so it may outlive the process and keep the lock until it is ended *)
(* by hand. The holder may also die under a live process.                     *)
Crash(p) ==
    /\ at[p] # "idle" /\ spent.crashes < MaxCrashes
    /\ holder' \in IF holder = p THEN {Nobody, Orphan} ELSE {holder}
    /\ Forget(p)
    /\ spent' = [spent EXCEPT !.crashes = @ + 1]
    /\ UNCHANGED <<disk, overlapped>>
OrphanEnds ==
    /\ holder = Orphan
    /\ holder' = Nobody
    /\ UNCHANGED <<disk, at, own, spent, overlapped>>
HolderDies ==
    /\ holder \in Processes /\ spent.losses < MaxLosses
    /\ holder' = Nobody
    /\ spent' = [spent EXCEPT !.losses = @ + 1]
    /\ UNCHANGED <<disk, at, own, overlapped>>

Next ==
    \/ \E p \in Processes :
         \/ Acquire(p) \/ FetchFails(p) \/ Interrupted(p)
         \/ \E found \in [Sources -> Contents] : Fetched(p, found)
         \/ Displace(p) \/ Install(p) \/ WriteLock(p) \/ Clean(p) \/ Commit(p)
         \/ RemovePublished(p) \/ RestoreBackup(p) \/ RolledBack(p)
         \/ Release(p) \/ Crash(p)
    \/ OrphanEnds \/ HolderDies

Spec == Init /\ [][Next]_vars
-----------------------------------------------------------------------------
Steps == {"idle", "fetching", "publishing", "installing", "cleaning", "removing", "restoring",
          "ended"}

(* Types; and the curator lock's promise while holders live: a process that   *)
(* has anything under way holds it ("prevents concurrent mutation").          *)
TypeOK ==
    /\ lock \in [Sources -> Contents]
    /\ cache \in [Sources -> Contents \cup {Damaged}]
    /\ backup \in [Sources -> Contents \cup {Damaged}]
    /\ holder \in Processes \cup {Nobody, Orphan}
    /\ at \in [Processes -> Steps]
    /\ outcome \in [Processes -> {"none", "committed", "failed", "unrestored", "lost"}]
    /\ spent.losses = 0 => \A p \in Processes : at[p] # "idle" => holder = p

(* "Failed operations preserve prior valid artifacts": at every moment, so    *)
(* after every crash too, the objects of each locked version are intact in    *)
(* the source's cache or in the backup beside it.                             *)
Recoverable ==
    \A s \in Sources : lock[s] # Absent => lock[s] \in {cache[s], backup[s]}

(* The same as long as no two curators were at work at once: through failed   *)
(* renames, rollbacks, crashes and the loss of the holder process.            *)
LockedIsRecoverable == ~overlapped => Recoverable

(* Every selected source has its cache and its lock entry of the version that *)
(* was fetched, every other source is as it was.                              *)
Whole(p) ==
    \A s \in Sources :
        IF staged[p][s] # Absent
        THEN lock[s] = staged[p][s] /\ cache[s] = staged[p][s]
        ELSE /\ lock[s] = before[p].lock[s] /\ cache[s] = before[p].cache[s]
             /\ backup[s] = before[p].backup[s]

(* A transaction does all of its work or none. If it reports success it is    *)
(* whole. If it reports a plain failure it has undone itself: lock file,      *)
(* caches and backups are what they were when it began to publish; if it says *)
(* that it could not restore everything, the lock file is the old one. If its *)
(* holder died it is whole as well, or has left the lock file alone: what     *)
(* could not be interrupted was finished or undone.                           *)
AllOrNothing ==
    \A p \in Processes : ~overlapped /\ at[p] = "ended" =>
        /\ outcome[p] = "committed" => Whole(p)
        /\ outcome[p] = "failed" => Now = before[p]
        /\ outcome[p] = "unrestored" => lock = before[p].lock
        /\ outcome[p] = "lost" => Whole(p) \/ lock = before[p].lock
=============================================================================
