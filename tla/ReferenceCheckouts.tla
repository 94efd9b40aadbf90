-------------------------- MODULE ReferenceCheckouts --------------------------
(* src/src/references: the lock, materialize and status commands, run by      *)
(* several processes over one project while its catalog, its checkouts, the   *)
(* local siblings and the origins change. A command loads the catalog before  *)
(* it asks for the curator lock; materialize loads the lock file then, too.   *)
(*                                                                            *)
(* A remote lock is published in the steps of publishStagedCaches, each of    *)
(* which can fail: every cache is moved aside and replaced, the lock file is  *)
(* written, the backups are dropped; or what was done is undone, as far as    *)
(* that succeeds. A process can be killed between any two steps of a command; *)
(* one that loses the curator is interrupted, but not while it publishes:     *)
(* what two publications at once do is in ReferenceCustody alone. Temporary   *)
(* directories, which nothing reads, are not modelled.                        *)
EXTENDS ReferenceRepository

CONSTANTS
    SourceIds, AllIds,    \* the ids of the catalog; the same in the order of a command
    Tools, Free,          \* processes; the curator lock is not held
    MaxCommands, MaxEdits, MaxStops,   \* bounds of the model: commands, edits, stops,
    MaxFaults, MaxEvents, \* failed file operations; and all of these, an edit counted twice
    FirstCatalog, FirstOrigins, FirstSiblings, \* the world at the beginning,
    CatalogEdits, OriginEdits, SiblingEdits, CheckoutEdits, EntryEdits   \* and what may become of it

ASSUME IdsAreOrdered ==
    /\ AllIds \in Seq(SourceIds)
    /\ \A s \in SourceIds : \E i \in DOMAIN AllIds : AllIds[i] = s
ASSUME FreeIsNoTool == Free \notin Tools
(* Records name origins that exist. A checkout is somewhere, and what can be  *)
(* wrong with it is what the code looks for. An entry is edited in its commit *)
(* or its verified flag: a lock file forged consistently is not told apart.   *)
ASSUME RecordsHaveOrigins ==
    /\ DOMAIN FirstCatalog = SourceIds
    /\ \A s \in SourceIds : \A record \in {FirstCatalog[s]} \cup CatalogEdits[s] :
          IsThere(record) => record.origin \in DOMAIN FirstOrigins
Worktrees(heads) ==
    [head: heads, detached: BOOLEAN, dirty: BOOLEAN, hidden: BOOLEAN,
     objects: {"whole", "missing", "corrupt"}, defect: {None, "linked", "objects elsewhere", "program"}]
ASSUME EditsAreKnown ==
    \A s \in SourceIds :
        /\ CheckoutEdits[s] \ {Refused} \subseteq Worktrees(Commits)
        /\ \A e \in EntryEdits[s] : e[1] \in {"commit", "verified"}

VARIABLES
    catalog,     \* id: its record in references/sources.toml, or Refused
    origins,     \* url: the repository there
    siblings,    \* id: the local sibling
    entries,     \* id: its entry in references/sources.lock.json
    objects,     \* id: .references/<id>/.git-cache
    backups,     \* id: .references/<id>/.git-cache.backup-swap
    checkouts,   \* id: .references/<id>/checkout
    curator,     \* the process that holds the curator lock
    job,         \* process: its command
    budget,      \* commands, edits, stops and faults so far
    advertised,  \* every <<url, ref, commit>> an origin has shown (history)
    aside,       \* ids whose cache was moved aside, and neither put back nor locked anew (history)
    harmed       \* ids whose cache somebody has damaged (history)

world  == <<catalog, origins, siblings, advertised, harmed>>
caches == <<objects, backups, aside>>
kept   == <<entries, caches, checkouts>>
checkoutVars == <<world, kept, curator, job, budget>>

NoneYet == [s \in SourceIds |-> Refused]
Idle ==
    [step |-> "idle", kind |-> None, broad |-> FALSE, catalog |-> NoneYet, entries |-> NoneYet, todo |-> {},
     failed |-> FALSE, locked |-> NoneYet, fetched |-> NoneYet, installed |-> {}, moved |-> {},
     seen |-> 0, ref |-> None, built |-> Refused, report |-> Refused]
ShownBy(url, repository) ==
    {<<url, ref, repository.refs[ref]>> : ref \in {r \in Refs : repository.refs[r] # 0}}

CheckoutInit ==
    /\ catalog = FirstCatalog /\ origins = FirstOrigins /\ siblings = FirstSiblings
    /\ entries = NoneYet /\ objects = NoneYet /\ backups = NoneYet /\ checkouts = NoneYet
    /\ aside = {} /\ harmed = {}
    /\ curator = Free
    /\ job = [p \in Tools |-> Idle]
    /\ budget = [commands |-> 0, edits |-> 0, stops |-> 0, faults |-> 0]
    /\ advertised = UNION {ShownBy(url, origins[url]) : url \in DOMAIN origins}

May(kind, max) ==
    /\ budget[kind] < max
    /\ budget' = [budget EXCEPT ![kind] = @ + 1]
    /\ budget'.commands + 2 * budget'.edits + budget'.stops + budget'.faults <= MaxEvents
Fault == May("faults", MaxFaults)
Becomes(p, new) == job' = [job EXCEPT ![p] = new]
(* The sources of a command, in the order of the catalog. *)
Foremost(ids) ==
    AllIds[CHOOSE i \in DOMAIN AllIds : AllIds[i] \in ids /\ \A j \in 1 .. i - 1 : AllIds[j] \notin ids]
Id(p) == Foremost(job[p].todo)
Source(p) == job[p].catalog[Id(p)]
EntryOf(p) == job[p].entries[Id(p)]

(* The scope of a command closes and the curator lock is released. *)
Finish(p) ==
    /\ Becomes(p, Idle)
    /\ curator' = IF curator = p THEN Free ELSE curator
(* A source is done with: the next one. *)
Proceed(p, new) ==
    Becomes(p, [new EXCEPT !.step = "working", !.todo = @ \ {Foremost(@)}, !.seen = 0, !.ref = None, !.built = Refused])
Fail(p) == Proceed(p, [job[p] EXCEPT !.failed = TRUE]) /\ UNCHANGED curator
-----------------------------------------------------------------------------
(* runSemrefs: an id of the catalog or all of them. *)
Kinds == {"status", "lock offline", "lock online", "materialize offline", "materialize online"}
InCatalog(c) == {s \in SourceIds : c[s] # Refused}
Selections(c) == {InCatalog(c)} \cup {{s} : s \in InCatalog(c)}
Begin(p) ==
    /\ job[p].step = "idle" /\ May("commands", MaxCommands)
    /\ LoadsCatalog(catalog)
    /\ \E ids \in Selections(catalog), kind \in Kinds, broad \in BOOLEAN :
         /\ broad => kind = "materialize online"
         /\ Becomes(p, [Idle EXCEPT !.step = "begun", !.kind = kind, !.broad = broad,
                                    !.catalog = catalog, !.todo = ids])
    /\ UNCHANGED <<world, kept, curator>>

(* loadLock refuses a file with an entry that cannot be. *)
Loads(lock) == \A s \in SourceIds : lock[s] # Refused => ValidEntry(lock[s])

(* status loads the lock, then reports on one source after the other; nothing *)
(* it does takes the curator lock. The last report is kept.                   *)
LoadForStatus(p) ==
    /\ job[p].step = "begun" /\ job[p].kind = "status"
    /\ IF Loads(entries)
       THEN Becomes(p, [job[p] EXCEPT !.step = "reporting", !.entries = entries]) /\ UNCHANGED curator
       ELSE Finish(p)
    /\ UNCHANGED <<world, kept, budget>>
Report(p) ==
    /\ job[p].step = "reporting" /\ job[p].todo # {}
    /\ LET s == Id(p)
           report == [entry |-> EntryOf(p), checkout |-> checkouts[s],
                      state |-> FullStatus(Source(p), EntryOf(p), checkouts[s])]
       IN  Becomes(p, [job[p] EXCEPT !.todo = @ \ {s}, !.report = report])
    /\ UNCHANGED <<world, kept, curator, budget>>
Reported(p) ==
    /\ job[p].step = "reporting" /\ job[p].todo = {}
    /\ Finish(p)
    /\ UNCHANGED <<world, kept, budget>>

(* The other commands load the catalog again; an id it no longer has ends the *)
(* command. materialize loads the lock now: sources without an entry, or with *)
(* one the record does not bind, fail, and without a candidate it ends.       *)
Candidates(p, ids) == {s \in ids : entries[s] # Refused /\ Bound(catalog[s], entries[s])}
LoadAgain(p) ==
    /\ job[p].step = "begun" /\ job[p].kind # "status"
    /\ LET ids == job[p].todo
           known == LoadsCatalog(catalog) /\ \A s \in ids : IsThere(catalog[s])
           locks == job[p].kind \in {"lock offline", "lock online"}
       IN  IF known /\ locks
           THEN Becomes(p, [job[p] EXCEPT !.step = "wanting", !.catalog = catalog]) /\ UNCHANGED curator
           ELSE IF known /\ Loads(entries) /\ Candidates(p, ids) # {}
           THEN /\ Becomes(p, [job[p] EXCEPT !.step = "wanting", !.catalog = catalog, !.entries = entries,
                                             !.todo = Candidates(p, ids)])
                /\ UNCHANGED curator
           ELSE Finish(p)
    /\ UNCHANGED <<world, kept, budget>>

(* acquireCuratorLock does not wait. A lock command loads the lock file, and  *)
(* drops what cannot be locked, once it holds the curator.                    *)
AcquireCurator(p) ==
    /\ job[p].step = "wanting"
    /\ LET locks == job[p].kind \in {"lock offline", "lock online"}
           lockable == {s \in job[p].todo : IsLockable(job[p].catalog[s])}
       IN  IF curator # Free \/ (locks /\ ~Loads(entries)) THEN Finish(p)
           ELSE /\ curator' = p
                /\ Becomes(p, IF locks
                              THEN [job[p] EXCEPT !.step = "working", !.entries = entries, !.todo = lockable]
                              ELSE [job[p] EXCEPT !.step = "working"])
    /\ UNCHANGED <<world, kept, budget>>
-----------------------------------------------------------------------------
Works(p, kind) == job[p].step = "working" /\ job[p].kind = kind /\ job[p].todo # {}

(* lock --offline: one source after the other is observed. *)
ObserveSource(p) ==
    /\ Works(p, "lock offline")
    /\ LET found == LockOffline(Source(p), objects[Id(p)], siblings[Id(p)])
       IN  IF found = Refused THEN Fail(p)
           ELSE Proceed(p, [job[p] EXCEPT !.locked[Id(p)] = found]) /\ UNCHANGED curator
    /\ UNCHANGED <<world, kept, budget>>

(* lockRemoteSource. The selector is fetched, its license blobs are hashed,   *)
(* and the origin is asked twice more: for the ref of the selector, and       *)
(* whether that ref still shows the commit fetched.                           *)
FetchSelector(p) ==
    /\ Works(p, "lock online")
    /\ LET commit == FetchShallow(origins[Source(p).origin], Source(p).track)
       IN  IF commit = 0 \/ HashLicenses(Source(p), commit) = Refused THEN Fail(p)
           ELSE Becomes(p, [job[p] EXCEPT !.step = "naming", !.seen = commit]) /\ UNCHANGED curator
    /\ UNCHANGED <<world, kept, budget>>
NameRef(p) ==
    /\ job[p].step = "naming"
    /\ LET ref == ConcreteRef(origins[Source(p).origin], Source(p).track)
       IN  IF ref = None THEN Fail(p)
           ELSE Becomes(p, [job[p] EXCEPT !.step = "confirming", !.ref = ref]) /\ UNCHANGED curator
    /\ UNCHANGED <<world, kept, budget>>
ConfirmRef(p) ==
    /\ job[p].step = "confirming"
    /\ LET origin == Source(p).origin
           entry == Entry(Source(p), job[p].ref, job[p].seen, "remote")
       IN  IF ~Confirms(origins[origin], job[p].ref, job[p].seen) THEN Fail(p)
           ELSE /\ Proceed(p, [job[p] EXCEPT !.locked[Id(p)] = entry,
                                             !.fetched[Id(p)] = ReplayCache(origin, job[p].ref, job[p].seen)])
                /\ UNCHANGED curator
    /\ UNCHANGED <<world, kept, budget>>

(* Both lock commands go on when no source has failed: the entries loaded,    *)
(* the selected ones replaced, are written. Or nothing changes.               *)
Updated(old, new) == [s \in SourceIds |-> IF new[s] = Refused THEN old[s] ELSE new[s]]
WritesLock(p) ==
    /\ entries' = Updated(job[p].entries, job[p].locked)
    /\ aside' = aside \ {s \in SourceIds : job[p].locked[s] # Refused}
EndLock(p) ==
    /\ job[p].step = "working" /\ job[p].todo = {} /\ job[p].kind \in {"lock offline", "lock online"}
    /\ \/ job[p].kind = "lock offline" /\ ~job[p].failed /\ WritesLock(p)
       \/ (job[p].kind = "lock online" => job[p].failed) /\ UNCHANGED <<entries, aside>>
    /\ Finish(p)
    /\ UNCHANGED <<world, objects, backups, checkouts, budget>>

(* publishStagedCaches, for the sources whose caches were fetched, in order.  *)
(* Any file operation can fail, and then what was installed is undone.        *)
Publishes(p) == job[p].step = "working" /\ job[p].kind = "lock online" /\ job[p].todo = {} /\ ~job[p].failed
Left(p) == {s \in SourceIds : job[p].fetched[s] # Refused} \ job[p].installed
Undo_Fault(p, tried) ==                            \* the backups are dropped, whatever came of it
    /\ Becomes(p, [job[p] EXCEPT !.step = "cleaning", !.installed = @ \cup tried])
    /\ UNCHANGED <<entries, caches>>
Undo(p, tried) ==
    /\ Becomes(p, [job[p] EXCEPT !.step = "removing", !.installed = @ \cup tried])
    /\ UNCHANGED <<entries, caches>>

(* displaceExisting: a cache is moved aside, unless a backup is already there.*)
MoveAside(p) ==
    /\ Publishes(p) /\ Left(p) # {}
    /\ LET s == Foremost(Left(p))
       IN  \/ /\ ~IsThere(objects[s])
              /\ Becomes(p, [job[p] EXCEPT !.step = "installing"])
              /\ UNCHANGED <<entries, caches, budget>>
           \/ /\ IsThere(objects[s]) /\ ~IsThere(backups[s])
              /\ backups' = [backups EXCEPT ![s] = objects[s]]
              /\ objects' = [objects EXCEPT ![s] = Refused]
              /\ aside' = aside \cup {s}
              /\ Becomes(p, [job[p] EXCEPT !.step = "installing", !.moved = @ \cup {s}])
              /\ UNCHANGED <<entries, budget>>
           \/ IsThere(objects[s]) /\ IsThere(backups[s]) /\ Undo(p, {}) /\ UNCHANGED budget
           \/ Undo(p, {}) /\ Fault
    /\ UNCHANGED <<world, checkouts, curator>>
PutInPlace(p) ==
    /\ job[p].step = "installing"
    /\ LET s == Foremost(Left(p))
       IN  \/ /\ ~IsThere(objects[s])
              /\ objects' = [objects EXCEPT ![s] = job[p].fetched[s]]
              /\ Becomes(p, [job[p] EXCEPT !.step = "working", !.installed = @ \cup {s}])
              /\ UNCHANGED <<entries, backups, aside, budget>>
           \/ Undo(p, {s}) /\ Fault
    /\ UNCHANGED <<world, checkouts, curator>>
CommitLock(p) ==
    /\ Publishes(p) /\ Left(p) = {}
    /\ \/ /\ WritesLock(p)
          /\ Becomes(p, [job[p] EXCEPT !.step = "cleaning"])
          /\ UNCHANGED <<objects, backups, budget>>
       \/ Undo(p, {}) /\ Fault
    /\ UNCHANGED <<world, checkouts, curator>>

(* Removing a directory can fail before it has begun or in the middle. A      *)
(* backup that stays is reported, not a failure.                              *)
InPieces(o) == [o EXCEPT !.whole = {}, !.partial = @ \cup o.whole]
Remnants(directories, s) ==
    {directories} \cup IF IsThere(directories[s]) THEN {[directories EXCEPT ![s] = InPieces(@)]} ELSE {}
DropBackup(p) ==
    /\ job[p].step = "cleaning" /\ job[p].moved # {}
    /\ LET s == Foremost(job[p].moved)
       IN  /\ \/ backups' = [backups EXCEPT ![s] = Refused] /\ UNCHANGED budget
              \/ backups' \in Remnants(backups, s) /\ Fault
           /\ Becomes(p, [job[p] EXCEPT !.moved = @ \ {s}])
    /\ UNCHANGED <<world, entries, objects, aside, checkouts, curator>>

(* rollback, in reverse order: the installed cache is removed, and the one    *)
(* moved aside is put back. What fails is left, and the next source is tried. *)
Hindmost(ids) ==
    AllIds[CHOOSE i \in DOMAIN AllIds : AllIds[i] \in ids /\ \A j \in DOMAIN AllIds : j > i => AllIds[j] \notin ids]
Installed(p) == Hindmost(job[p].installed)
TakeBack(p) ==
    /\ job[p].step = "removing" /\ job[p].installed # {}
    /\ LET s == Installed(p)
       IN  /\ \/ objects' = [objects EXCEPT ![s] = Refused] /\ UNCHANGED budget
              \/ objects' \in Remnants(objects, s) /\ Fault
           /\ Becomes(p, IF s \in job[p].moved
                         THEN [job[p] EXCEPT !.step = "restoring"]
                         ELSE [job[p] EXCEPT !.installed = @ \ {s}])
    /\ UNCHANGED <<world, entries, backups, aside, checkouts, curator>>
PutBack(p) ==
    /\ job[p].step = "restoring"
    /\ LET s == Installed(p)
       IN  /\ \/ /\ ~IsThere(objects[s]) /\ IsThere(backups[s])
                 /\ objects' = [objects EXCEPT ![s] = backups[s]]
                 /\ backups' = [backups EXCEPT ![s] = Refused]
                 /\ aside' = aside \ {s} /\ UNCHANGED budget
              \/ IsThere(objects[s]) /\ UNCHANGED <<caches, budget>>
              \/ UNCHANGED caches /\ Fault
           /\ Becomes(p, [job[p] EXCEPT !.step = "removing", !.installed = @ \ {s}, !.moved = @ \ {s}])
    /\ UNCHANGED <<world, entries, checkouts, curator>>
EndPublication(p) ==
    /\ \/ job[p].step = "cleaning" /\ job[p].moved = {}
       \/ job[p].step = "removing" /\ job[p].installed = {}
    /\ Finish(p)
    /\ UNCHANGED <<world, kept, budget>>
-----------------------------------------------------------------------------
(* materialize, one source after the other. An existing checkout is verified  *)
(* and left alone, whatever it is.                                            *)
Materializes(p) == job[p].kind \in {"materialize offline", "materialize online"}
CheckExisting(p) ==
    /\ job[p].step = "working" /\ Materializes(p) /\ job[p].todo # {}
    /\ IF IsThere(checkouts[Id(p)])
       THEN Proceed(p, job[p])
       ELSE Becomes(p, [job[p] EXCEPT !.step = IF job[p].kind = "materialize offline" THEN "cloning" ELSE "probing"])
    /\ UNCHANGED <<world, kept, curator, budget>>

(* A detached checkout of the locked commit in a temporary directory, ready   *)
(* if it verifies; only then does the code go on to publish it.               *)
Built(p, available) ==
    LET new == CheckedOut(EntryOf(p).commit)
    IN  IF available /\ Publishable(VerifyCheckout(new, EntryOf(p)))
        THEN Becomes(p, [job[p] EXCEPT !.step = "publishing", !.built = new]) /\ UNCHANGED curator
        ELSE Fail(p)
CloneLocal(p) ==
    /\ job[p].step = "cloning"
    /\ Built(p, FoundOffline(Source(p), objects[Id(p)], siblings[Id(p)], EntryOf(p).commit))
    /\ UNCHANGED <<world, kept, budget>>

(* materializeRemoteSource: where the recorded ref points at the origin now.  *)
(* It decides what may be fetched: the commit, or by that ref, while they     *)
(* agree; the history of the selector if not, and only if that was allowed.   *)
ProbeRef(p) ==
    /\ job[p].step = "probing"
    /\ LET target == Shown(origins[Source(p).origin], EntryOf(p).ref)
       IN  IF target # EntryOf(p).commit /\ ~job[p].broad THEN Fail(p)
           ELSE Becomes(p, [job[p] EXCEPT !.step = "fetching", !.seen = target]) /\ UNCHANGED curator
    /\ UNCHANGED <<world, kept, budget>>
FetchLocked(p) ==
    /\ job[p].step = "fetching"
    /\ LET origin == origins[Source(p).origin]
           commit == EntryOf(p).commit
       IN  \/ /\ job[p].seen = commit
              /\ \E served \in BOOLEAN : Built(p, served \/ Shown(origin, EntryOf(p).ref) = commit)
           \/ /\ job[p].seen # commit
              /\ Built(p, commit \in FetchHistory(origin, EntryOf(p).track))
    /\ UNCHANGED <<world, kept, budget>>

(* The place is looked at once more, and mv does not replace what is there.   *)
Publish_Fault(p) ==                                \* mv as it is without --update=none-fail
    /\ job[p].step = "publishing"
    /\ checkouts' = [checkouts EXCEPT ![Id(p)] = job[p].built] /\ Proceed(p, job[p]) /\ UNCHANGED curator
    /\ UNCHANGED <<world, entries, caches, budget>>
Publish(p) ==
    /\ job[p].step = "publishing"
    /\ IF ~IsThere(checkouts[Id(p)])
       THEN checkouts' = [checkouts EXCEPT ![Id(p)] = job[p].built] /\ Proceed(p, job[p]) /\ UNCHANGED curator
       ELSE Fail(p) /\ UNCHANGED checkouts
    /\ UNCHANGED <<world, entries, caches, budget>>
EndMaterialize(p) ==
    /\ job[p].step = "working" /\ Materializes(p) /\ job[p].todo = {}
    /\ Finish(p)
    /\ UNCHANGED <<world, kept, budget>>

(* A process is killed; or its curator is lost and the supervising race       *)
(* interrupts it, between steps that are not of a publication.                *)
Stop(p) ==
    /\ job[p].step # "idle" /\ May("stops", MaxStops)
    /\ Finish(p)
    /\ UNCHANGED <<world, kept>>
-----------------------------------------------------------------------------
(* The people who edit the catalog and their checkouts, siblings and entries, *)
(* and the origins.                                                           *)
Edit == May("edits", MaxEdits) /\ UNCHANGED <<curator, job>>
EditCatalog(s, record) ==
    /\ Edit /\ catalog[s] # record
    /\ catalog' = [catalog EXCEPT ![s] = record]
    /\ UNCHANGED <<origins, siblings, advertised, harmed, kept>>
EditOrigin(url, new) ==
    /\ Edit /\ origins[url] # new
    /\ origins' = [origins EXCEPT ![url] = new]
    /\ advertised' = advertised \cup ShownBy(url, new)
    /\ UNCHANGED <<catalog, siblings, harmed, kept>>
EditSibling(s, new) ==
    /\ Edit /\ siblings[s] # new
    /\ siblings' = [siblings EXCEPT ![s] = new]
    /\ UNCHANGED <<catalog, origins, advertised, harmed, kept>>
EditCheckout(s, new) ==
    /\ Edit /\ checkouts[s] # new
    /\ checkouts' = [checkouts EXCEPT ![s] = new]
    /\ UNCHANGED <<world, entries, caches>>
DamageCache(s) ==
    /\ Edit /\ objects[s] # Refused /\ objects[s].whole # {}
    /\ objects' = [objects EXCEPT ![s] = InPieces(@)]
    /\ harmed' = harmed \cup {s}
    /\ UNCHANGED <<catalog, origins, siblings, advertised, entries, backups, aside, checkouts>>
EditEntry(s, field, value) ==
    /\ Edit /\ entries[s] # Refused /\ entries[s][field] # value
    /\ entries' = [entries EXCEPT ![s][field] = value]
    /\ UNCHANGED <<world, caches, checkouts>>

Command(p) ==
    \/ Begin(p) \/ LoadForStatus(p) \/ Report(p) \/ Reported(p)
    \/ LoadAgain(p) \/ AcquireCurator(p)
    \/ ObserveSource(p) \/ FetchSelector(p) \/ NameRef(p) \/ ConfirmRef(p) \/ EndLock(p)
    \/ MoveAside(p) \/ PutInPlace(p) \/ CommitLock(p) \/ DropBackup(p)
    \/ TakeBack(p) \/ PutBack(p) \/ EndPublication(p)
    \/ CheckExisting(p) \/ CloneLocal(p) \/ ProbeRef(p) \/ FetchLocked(p) \/ Publish(p) \/ EndMaterialize(p)
    \/ Stop(p)

CheckoutNext ==
    \/ \E p \in Tools : Command(p)
    \/ \E s \in SourceIds :
         \/ \E record \in CatalogEdits[s] : EditCatalog(s, record)
         \/ \E new \in SiblingEdits[s] : EditSibling(s, new)
         \/ \E new \in CheckoutEdits[s] : EditCheckout(s, new)
         \/ \E e \in EntryEdits[s] : EditEntry(s, e[1], e[2])
         \/ DamageCache(s)
    \/ \E e \in OriginEdits : EditOrigin(e[1], e[2])

CheckoutSpec == CheckoutInit /\ [][CheckoutNext]_checkoutVars
-----------------------------------------------------------------------------
(* "Local-only custody remains visibly weaker than remote-verified custody":  *)
(* a report that calls a checkout verified, or verified but for an            *)
(* assumption, was made of a detached, clean and intact checkout of the       *)
(* locked commit, whatever the index hides; and one that assumes nothing, of  *)
(* a commit the declared origin itself has shown under the recorded ref.      *)
StatusIsTrue ==
    \A p \in Tools : \A r \in {job[p].report} \ {Refused} :
        r.state \in {"materialized_verified", "materialized_with_visible_assumption"} =>
            /\ r.checkout = CheckedOut(r.entry.commit)
            /\ r.state = "materialized_verified" =>
                   <<r.entry.origin, r.entry.ref, r.entry.commit>> \in advertised

(* "A present-but-mismatched checkout is never repaired, overwritten, or      *)
(* deleted": only people change a checkout, whichever process looked for it   *)
(* before it came to be; and what a command adds verifies for the commit of   *)
(* an entry the command has read.                                             *)
CheckoutsAreKept ==
    [][\A s \in SourceIds :
         checkouts'[s] # checkouts[s] =>
             \/ budget'.edits # budget.edits
             \/ /\ checkouts[s] = Refused
                /\ \E p \in Tools : /\ job[p].step = "publishing" /\ Id(p) = s
                                    /\ checkouts'[s] = CheckedOut(EntryOf(p).commit)]_checkoutVars

(* "Later materializes those same bytes offline": what was locked from the    *)
(* origin can be replayed from the cache, whatever locks, edits, refusals and *)
(* stops there are, until a publication moves that cache aside; and then from *)
(* the backup beside it, until it is put back or a lock of that source is     *)
(* written, however the publication fails, is undone or is killed. The same   *)
(* holds of what was locked from the cache, but for a cache that a failed     *)
(* removal had left in pieces. Excepted are the sources whose cache somebody  *)
(* has damaged, and entries whose commit somebody has edited.                 *)
Whereabouts(s) == IF s \in aside THEN backups[s] ELSE objects[s]
LockedIsReplayable ==
    \A s \in SourceIds \ harmed :
        (/\ entries[s] # Refused /\ entries[s].acquisition # "local-sibling"
         /\ entries[s].tree = entries[s].commit) =>
            /\ Whereabouts(s) # Refused
            /\ \/ ClosureHolds(Whereabouts(s), entries[s].commit)
               \/ entries[s].acquisition = "local-object-cache" /\ Whereabouts(s).partial # {}
=============================================================================
