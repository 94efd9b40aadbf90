------------------------- MODULE ReferenceRepository -------------------------
(* src/src/references/git.ts, paths.ts, acquire.ts, verify.ts and status.ts:  *)
(* what the reference commands observe of Git repositories, and what they     *)
(* conclude from it. Every Git call reads one repository or asks one origin.  *)
(*                                                                            *)
(* A commit is its place in a linear history and stands for its tree and its  *)
(* license bytes as well; a digest is the record it is computed from. A       *)
(* repository has refs, the commits whose complete closure it holds intact,   *)
(* those it holds only in part or damaged, and a defect of administration.    *)
(*                                                                            *)
(* Operators named X_Fault are faulty versions of X, used only as mutations.  *)
EXTENDS Naturals, Sequences, FiniteSets

CONSTANTS
    Commits,        \* 1..n, each the parent of the next
    Linked,         \* the commits with a submodule gitlink or a Git LFS pointer
    Unlicensed,     \* the commits whose license path is absent, a link or a tree
    Refs,           \* concrete names, refs/...
    ShortName,      \* ref: the selector that matches it
    Annotated,      \* the refs that name a tag object, not a commit
    Branches, Custody   \* refs/heads/..., and the branch the tool keeps in a cache

None == "none"
Refused == [refused |-> TRUE]
History(commit) == 1..commit
Repository(url, head, refs, whole) ==
    [url |-> url, head |-> head, refs |-> refs, whole |-> whole, partial |-> {}, defect |-> None]

(* inspectManagedDirectory: whether there is a directory, a plain one. *)
IsThere(place) == place # Refused

(* resolveCommit and resolveCommitIfPresent: the selector HEAD follows HEAD,  *)
(* another one the ref it is the short name of.                               *)
Matching(location, track) ==
    {ref \in Refs : location.refs[ref] # 0 /\
        IF track = "HEAD" THEN ref = location.head ELSE ShortName[ref] = track}
ResolveCommit(repository, track) ==
    IF Cardinality(Matching(repository, track)) # 1 THEN 0
    ELSE repository.refs[CHOOSE ref \in Matching(repository, track) : TRUE]

(* lsRemoteRefs: the object a location shows for a concrete ref. For an       *)
(* annotated tag that is the tag object: Git peels only what the pattern      *)
(* matches.                                                                   *)
Shown(location, ref) == IF ref \in Annotated THEN 0 ELSE location.refs[ref]

(* observeConcreteRef in its two questions: which one ref the selector names, *)
(* and whether that ref shows the commit observed.                            *)
ConcreteRef(location, track) ==
    IF Cardinality(Matching(location, track)) # 1 THEN None
    ELSE CHOOSE ref \in Matching(location, track) : TRUE
Confirms_Fault(location, ref, commit) == ref # None  \* the ref is not asked for its commit again
Confirms(location, ref, commit) == ref # None /\ Shown(location, ref) = commit

(* fetchShallowBlobless and fetchBloblessHistory: what a selector of an       *)
(* origin brings, alone or with its history.                                  *)
FetchShallow(origin, track) == ResolveCommit(origin, track)
FetchHistory(origin, track) == History(ResolveCommit(origin, track))

(* commitObjectExists: the commit object alone. verifyRepositoryObjectClosure *)
(* proves that every object below is there and hashes to its id.              *)
CommitObjectExists(repository, commit) == commit \in repository.whole \cup repository.partial
ClosureHolds(repository, commit) == commit \in repository.whole

(* inspectCheckoutAdministration, inspectObjectCacheAdministration and        *)
(* repositoryProgramReasons: no file of the administration is a link, missing *)
(* or redirects it, and the configuration runs no program.                    *)
ObjectStorageInside(place) == place.defect # "objects elsewhere"
CheckoutAdministration(place) == ObjectStorageInside(place) /\ place.defect # "linked"
ObjectCacheAdministration(place) == ObjectStorageInside(place) /\ place.defect # "linked"
ProgramReasons(place) == {place.defect} \cap {"program"}

(* lsTreeEntry and hashLicenses: each declared path is a regular blob of the  *)
(* commit.                                                                    *)
LicenseBlob(commit) == commit \notin Unlicensed
HashLicenses(source, commit) ==
    IF ~LicenseBlob(commit) THEN Refused ELSE [path \in source.licenses |-> commit]
-----------------------------------------------------------------------------
(* A catalog record: origin, track, licenses, and whether it declares a local *)
(* sibling; aliases are further spellings of the origin. validateRecord has   *)
(* track and licenses declared together, and one bad record spoils the whole  *)
(* catalog.                                                                   *)
ValidRecord(source) == (source.track = None) <=> (source.licenses = {})
LoadsCatalog(catalog) == \A s \in DOMAIN catalog : IsThere(catalog[s]) => ValidRecord(catalog[s])
IsLockable(source) == source.track # None /\ source.licenses # {}

Entry(source, ref, commit, acquisition) ==
    [origin |-> source.origin, track |-> source.track, ref |-> ref, commit |-> commit, tree |-> commit,
     digest |-> source, acquisition |-> acquisition, verified |-> acquisition = "remote",
     licenses |-> HashLicenses(source, commit)]

(* validateLockEntry: only a remote acquisition can have seen the origin.     *)
ValidEntry(entry) == entry.verified <=> entry.acquisition = "remote"

(* rawLocalRemoteUrl, resolveLocalSibling, requireSelfContainedManagedCache:  *)
(* a sibling may have any declared spelling of the origin, a cache only one.  *)
RawUrl(repository) == repository.url
SiblingUsable(source, sibling) ==
    /\ source.hint /\ IsThere(sibling)
    /\ CheckoutAdministration(sibling) /\ ProgramReasons(sibling) = {}
    /\ RawUrl(sibling) \in {source.origin} \cup source.aliases
CacheUsable(source, cache) ==
    /\ ObjectCacheAdministration(cache) /\ ProgramReasons(cache) = {}
    /\ RawUrl(cache) = source.origin

(* observeOfflineRepository: the selector, its commit, its one concrete ref   *)
(* and the license blobs of that commit. An entry of equal content is kept    *)
(* with its timestamp, which is not modelled.                                 *)
ObserveOffline(source, repository, acquisition) ==
    LET commit == ResolveCommit(repository, source.track)
        ref    == ConcreteRef(repository, source.track)
    IN  IF \/ commit = 0
           \/ ~Confirms(repository, ref, commit)
           \/ HashLicenses(source, commit) = Refused
        THEN Refused
        ELSE Entry(source, ref, commit, acquisition)

(* lockFromLocalSibling and lockOfflineSource: a managed cache that has the   *)
(* selector is preferred; one that may not be used is never passed over.      *)
LockFromLocalSibling(source, sibling) ==
    IF SiblingUsable(source, sibling) THEN ObserveOffline(source, sibling, "local-sibling") ELSE Refused
LockOffline(source, cache, sibling) ==
    IF ~IsThere(cache) THEN LockFromLocalSibling(source, sibling)
    ELSE IF ~CacheUsable(source, cache) THEN Refused
    ELSE IF ResolveCommit(cache, source.track) # 0 THEN ObserveOffline(source, cache, "local-object-cache")
    ELSE LockFromLocalSibling(source, sibling)

(* resolveOfflineMaterializationRepository: whether a repository holds the    *)
(* locked commit, the cache before the sibling, and its closure is proved.    *)
FoundOffline(source, cache, sibling, commit) ==
    IF IsThere(cache) /\ (~CacheUsable(source, cache) \/ CommitObjectExists(cache, commit))
    THEN CacheUsable(source, cache) /\ ClosureHolds(cache, commit)
    ELSE SiblingUsable(source, sibling) /\ CommitObjectExists(sibling, commit) /\ ClosureHolds(sibling, commit)

(* What a remote lock makes of its fetch directory: the closure of one commit *)
(* (hydrateReplayObjects), named by the custody branch and the resolved ref   *)
(* alone, HEAD on a branch (prepareReplayRefs).                               *)
ReplayCache(origin, ref, commit) ==
    Repository(origin, IF ref \in Branches THEN ref ELSE Custody,
               [r \in Refs |-> IF r \in {ref, Custody} THEN commit ELSE 0], {commit})
-----------------------------------------------------------------------------
(* A checkout: where HEAD is and whether it is detached; whether tracked      *)
(* files differ, and whether index flags or a sparse checkout hide that;      *)
(* whether its objects are whole, missing or corrupt; its defect.             *)
CheckedOut(commit) ==
    [head |-> commit, detached |-> TRUE, dirty |-> FALSE, hidden |-> FALSE, objects |-> "whole", defect |-> None]

(* isDetachedHead, hiddenIndexReasons and isCleanWorktree: Git reports no     *)
(* difference that the index hides. inspectCompleteTree reads every object    *)
(* and blob: none is missing, and each hashes to its id. The listing of a     *)
(* tree shows its submodules and the pointers of Git LFS.                     *)
HiddenIndexReasons(checkout) == IF checkout.hidden THEN {"hidden"} ELSE {}
IsDetachedHead(checkout) == checkout.detached
IsCleanWorktree(checkout) == checkout.hidden \/ ~checkout.dirty
ObjectIdentityHolds(checkout) == checkout.objects # "corrupt"
BlobsAreLocal(checkout) == checkout.objects # "missing"
TreeIsComplete(checkout) == ObjectIdentityHolds(checkout) /\ BlobsAreLocal(checkout)
LicenseReasons(checkout, entry) ==
    {"license" : path \in {l \in DOMAIN entry.licenses : entry.licenses[l] # checkout.head}}
ListsIndirection(commit) == commit \in Linked
IndirectionReasons(checkout) == IF ListsIndirection(checkout.head) THEN {"indirection"} ELSE {}

(* verifyCheckout, in the order of the code: the first group of findings that *)
(* is not empty is returned, and an observation that fails is a finding too.  *)
Found(head, reasons) == [elsewhere |-> head, reasons |-> reasons]
VerifyCheckout(checkout, entry) ==
    IF ~CheckoutAdministration(checkout) THEN Found(0, {"administration"})
    ELSE IF ProgramReasons(checkout) # {} THEN Found(0, ProgramReasons(checkout))
    ELSE IF ~IsDetachedHead(checkout) THEN Found(0, {"attached"})
    ELSE IF checkout.head # entry.commit THEN Found(checkout.head, {"elsewhere"})
    ELSE IF ~TreeIsComplete(checkout) THEN Found(0, {"integrity"})
    ELSE IF HiddenIndexReasons(checkout) # {} THEN Found(0, HiddenIndexReasons(checkout))
    ELSE IF ~IsCleanWorktree(checkout) THEN Found(0, {"dirty"})
    ELSE Found(0, {"tree" : t \in {entry.tree} \ {checkout.head}}
                     \cup LicenseReasons(checkout, entry) \cup IndirectionReasons(checkout))

(* publicationBlockingReasons: visible indirections may be published.         *)
Publishable(verification) ==
    verification.elsewhere = 0 /\ verification.reasons \subseteq {"indirection"}

(* catalogBindingReasons: the entry is an observation of this record.         *)
Bound(source, entry) ==
    /\ entry.digest = source
    /\ entry.origin = source.origin
    /\ source.track # None /\ entry.track = source.track
    /\ DOMAIN entry.licenses = source.licenses

(* computeLockOnlyStatus and computeStatus. *)
LockOnlyStatus(source, entry) ==
    IF entry = Refused THEN "queued_unlocked"
    ELSE IF ~Bound(source, entry) THEN "drifted"
    ELSE "locked_unmaterialized"
FullStatus(source, entry, checkout) ==
    IF LockOnlyStatus(source, entry) # "locked_unmaterialized" THEN LockOnlyStatus(source, entry)
    ELSE IF ~IsThere(checkout) THEN "locked_unmaterialized"
    ELSE LET verification == VerifyCheckout(checkout, entry)
         IN  IF verification.elsewhere # 0 THEN "drifted"
             ELSE IF verification.reasons # {} THEN "unverifiable"
             ELSE IF entry.verified THEN "materialized_verified"
             ELSE "materialized_with_visible_assumption"
=============================================================================
