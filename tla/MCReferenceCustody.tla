------------------------- MODULE MCReferenceCustody -------------------------
(* Two scenes over the same reference custody, with two processes each. In    *)
(* the first, two curators publish two versions of two sources, and any file  *)
(* operation fails (ReferenceCustody). In the second, lock, materialize and   *)
(* status commands overlap with edits of what they read, fail and are stopped *)
(* (ReferenceCheckouts).                                                      *)
EXTENDS ReferenceCustody, ReferenceCheckouts, TLC

CONSTANTS alpha, beta, v1, v2, absent, damaged, p1, p2, nobody, orphan, Scenes
VARIABLE scene
MCOrder == <<alpha, beta>>
MCSymmetry == Permutations({v1, v2}) \cup Permutations({p1, p2})

(* The passing run does not follow what two curators do at the same time,     *)
(* which only the loss of a holder makes possible: MCReferenceLoss.cfg does.  *)
OneAtATime == ~overlapped

(* The third commit has a submodule, the second no license. alpha follows     *)
(* HEAD, then a branch or a tag; beta shares its origin, declares a sibling   *)
(* and names a second spelling of the origin.                                 *)
Master == "refs/heads/master"
Upcoming == "refs/heads/next"
Release1 == "refs/tags/r1"
Signed == "refs/tags/signed"
MCRefs == {Master, Upcoming, Release1, Signed, "refs/heads/custody"}
MCShortName == (Master :> "master") @@ (Upcoming :> "next") @@ (Release1 :> "r1") @@ (Signed :> "signed") @@ ("refs/heads/custody" :> "custody")
At(master, tag, signed) ==
    [r \in MCRefs |-> CASE r = Master -> master [] r = Release1 -> tag [] r = Signed -> signed [] OTHER -> 0]
Moved == [At(3, 3, 1) EXCEPT ![Upcoming] = 3]
Record(track, hint) ==
    [origin |-> "origin", aliases |-> {"mirror"}, track |-> track, licenses |-> {"LICENSE"}, hint |-> hint]
MCCatalog == (alpha :> Record("HEAD", FALSE)) @@ (beta :> Record("r1", TRUE))
MCOrigins == ("origin" :> Repository("origin", Master, At(1, 1, 1), {1})) @@
             ("fork"   :> Repository("fork", Master, At(3, 0, 0), 1..3))
Sibling == Repository("mirror", Master, At(1, 1, 0), {1})
MCSiblings == (alpha :> Refused) @@ (beta :> Sibling)
MCCatalogEdits == (alpha :> {Refused, [Record("master", FALSE) EXCEPT !.origin = "fork"]}) @@
                  (beta :> {Record("signed", TRUE), Record(None, TRUE), [Record(None, TRUE) EXCEPT !.licenses = {}]})
MCOriginEdits == {<<"origin", Repository("origin", Master, At(2, 1, 1), 1..2)>>,
                  <<"origin", Repository("origin", Upcoming, Moved, 1..3)>>}
MCSiblingEdits == (alpha :> {}) @@
                  (beta :> {[Sibling EXCEPT !.defect = "program"], [Sibling EXCEPT !.whole = {}, !.partial = {1}]})
MCCheckoutEdits == (alpha :> {Refused, [CheckedOut(1) EXCEPT !.dirty = TRUE, !.hidden = TRUE],
                             [CheckedOut(1) EXCEPT !.objects = "corrupt"]}) @@
                   (beta :> {[CheckedOut(1) EXCEPT !.defect = "linked"]})
MCEntryEdits == (alpha :> {<<"commit", 3>>}) @@ (beta :> {<<"verified", TRUE>>})

MCInit ==
    /\ Init /\ CheckoutInit /\ scene \in Scenes
MCNext ==
    \/ scene = "transactions" /\ Next /\ UNCHANGED <<checkoutVars, scene>>
    \/ scene = "checkouts" /\ CheckoutNext /\ UNCHANGED <<vars, scene>>
MCSpec == MCInit /\ [][MCNext]_<<vars, checkoutVars, scene>>
=============================================================================
