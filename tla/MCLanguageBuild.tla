--------------------------- MODULE MCLanguageBuild ---------------------------
(* One name, four artifacts of three semantic values, and replays that agree, *)
(* differ or are malformed; beside the store, the tracer's registries and the *)
(* reports of the checker experiment over small configurations.               *)
EXTENDS LanguageBuild, PolicyChecker, ProjectModel
CONSTANTS a1, a2, b1, c1, junk, malformed, nothing, n
MCSemanticOf == a1 :> "s" @@ a2 :> "s" @@ b1 :> "t" @@ c1 :> "u"
Stored(s, as) == [semantic_identity |-> s,
                  artifacts |-> [i \in DOMAIN as |-> [artifact_identity |-> as[i], canonical_bytes |-> as[i]]]]
Bound(s) == <<[name |-> n, semantic_identity |-> s]>>
MCReplayInputs ==
    {malformed,
     [semantic_values |-> <<Stored("s", <<a1>>), Stored("t", <<b1>>)>>, name_bindings |-> Bound("t")],
     [semantic_values |-> <<Stored("s", <<a2>>), Stored("t", <<b1>>)>>, name_bindings |-> <<>>],
     [semantic_values |-> <<Stored("t", <<b1>>)>>, name_bindings |-> Bound("s")],
     [semantic_values |-> <<Stored("u", <<b1>>)>>, name_bindings |-> <<>>],
     [semantic_values |-> <<Stored("t", <<b1>>), Stored("t", <<b1>>)>>, name_bindings |-> <<>>],
     [semantic_values |-> <<Stored("t", <<junk>>)>>, name_bindings |-> <<>>],
     [semantic_values |-> <<Stored("t", <<>>)>>, name_bindings |-> Bound("t")]}
Node(s, ds) == [identity |-> s, dependencies |-> ds]
Graph(r, ns) == [root |-> r, nodes |-> ns]
MCGraphs ==
    {malformed,
     Graph("s", <<Node("s", <<"t">>), Node("t", <<"u">>), Node("u", <<>>)>>),
     Graph("t", <<Node("s", <<"t">>), Node("t", <<"u">>), Node("u", <<"t">>)>>),
     Graph("s", <<Node("t", <<>>), Node("s", <<"s", "t">>)>>),
     Graph("s", <<Node("s", <<"t", "t">>), Node("t", <<>>)>>),
     Graph("s", <<Node("s", <<>>), Node("s", <<"t">>), Node("t", <<>>)>>),
     Graph("s", <<Node("s", <<"u">>), Node("t", <<>>)>>)}
Pick(s, a) == [semantic |-> s, artifact |-> a]
MCSelections ==
    {malformed, <<Pick("t", b1), Pick("s", a1)>>, <<Pick("s", a2), Pick("t", b1)>>,
     <<Pick("t", b1), Pick("u", c1)>>, <<Pick("s", a1), Pick("t", b1), Pick("u", c1)>>,
     <<Pick("s", a1)>>, <<Pick("s", b1), Pick("t", b1)>>, <<Pick("t", b1), Pick("t", b1), Pick("u", c1)>>}
MCRecipes == {malformed, [kind |-> "closure.member-count"],
              [kind |-> "closure.artifact-present", semantic |-> "s", artifact |-> a1],
              [kind |-> "closure.artifact-present", semantic |-> "u", artifact |-> c1]}
MCEnvironments == {malformed, <<>>, <<"member-count">>, <<"membership-query", "member-count">>,
                   <<"member-count", "member-count">>}
-----------------------------------------------------------------------------
(* The authored cases of the inventory, and the tracer's scenario. *)
NoReservations == [id \in {} |-> None]
Holding(k, reservations) == [stock |-> "i" :> k, reservations |-> reservations]
Take(q, fresh) == [message |-> [kind |-> "Reserve", item |-> "i", quantity |-> q], fresh |-> fresh]
Give(id) == [message |-> [kind |-> "Release", reservation_id |-> id], fresh |-> None]
Taken(q, id) == [kind |-> "Reserved", reservation_id |-> id, item |-> "i", quantity |-> q]
Given(id) == [kind |-> "Released", reservation_id |-> id]
NotTaken(q, why) == [kind |-> "ReservationRejected", item |-> "i", quantity |-> q, reason |-> why]
NotGiven(id) == [kind |-> "ReleaseRejected", reservation_id |-> id, reason |-> "unknown_reservation"]
Case(k, steps, expected, final) ==
    [initial |-> Holding(k, NoReservations), steps |-> steps, expected |-> expected, final |-> final]
MCCaseOf ==
    "release-twice" :>
        Case(2, <<Take(1, "r"), Give("r"), Give("r")>>, <<Taken(1, "r"), Given("r"), NotGiven("r")>>,
             Holding(2, NoReservations)) @@
    "insufficient-stock" :>
        Case(1, <<Take(2, "r")>>, <<NotTaken(2, "insufficient_stock")>>, Holding(1, NoReservations)) @@
    "invalid-zero-quantity" :>
        Case(1, <<Take(0, None)>>, <<NotTaken(0, "invalid_quantity")>>, Holding(1, NoReservations)) @@
    "duplicate-fresh-identifier" :>
        Case(3, <<Take(1, "r"), Take(1, "r")>>, <<Taken(1, "r"), NotTaken(1, "duplicate_reservation_id")>>,
             Holding(2, "r" :> [item |-> "i", quantity |-> 1]))
MCScenario == Case(2, <<Take(2, "d"), Give("d")>>, <<Taken(2, "d"), Given("d")>>, Holding(2, NoReservations))

(* The documents that edits choose from. *)
Law(id, body) == [id |-> id, body |-> body, note |-> "first"]
Theory(laws, obligations) ==
    [id |-> "t", normalization |-> "theory-norm-v0", laws |-> laws, obligations |-> obligations]
L1 == Law("l1", "a")
L2 == Law("l2", "a")
MCTheories ==
    {Theory(<<L1, L2>>, <<"o">>), Theory(<<[L2 EXCEPT !.note = "second"], L1>>, <<"o">>),
     Theory(<<Law("l1", "b"), L2>>, <<"o">>), Theory(<<L1, L2>>, <<"o", "p">>),
     [Theory(<<L1, L2>>, <<"o">>) EXCEPT !.id = "v"], Theory(<<L1, L1>>, <<"o">>)}
Real(id, theory, t, assumptions) ==
    [id |-> id, theory |-> theory, operations |-> [transition |-> t, replay |-> "replay"],
     assumptions |-> assumptions]
Pure == Real("pure", "t", "reference", {})
Broken == Real("broken", "t", "broken", {})
MCRealizationLists ==
    {<<Broken, Pure>>, <<Real("broken", "t", "reference", {}), Pure>>,
     <<Pure, Real("broken", "t", "broken", {"in range"})>>, <<Real("broken", "u", "broken", {}), Pure>>,
     <<Broken, Real("broken", "t", "reference", {})>>,
     <<Real("broken", "t", "nowhere", {}), Real("pure", "u", "reference", {})>>}
Identity(body) == [laws |-> {[id |-> "l1", body |-> body], [id |-> "l2", body |-> "a"]}, obligations |-> {"o"}]
Suite(identity, obligation, cases, assumptions) ==
    [shape |-> "conformance_suite v1", theory |-> "t", theory_identity |-> identity, obligation |-> obligation,
     category |-> "example_test", assumptions |-> assumptions, cases |-> cases]
AllCases == <<"release-twice", "insufficient-stock", "invalid-zero-quantity", "duplicate-fresh-identifier">>
WeakCases == <<"release-twice", "duplicate-fresh-identifier">>
Full == Suite(Identity("a"), "o", AllCases, {})
MCSuiteLists ==
    {<<Full>>, <<>>, <<Full, Suite(Identity("a"), "o", WeakCases, {})>>,
     <<Suite(Identity("a"), "o", WeakCases, {"sampled"})>>, <<Suite(Identity("b"), "o", AllCases, {})>>,
     <<Suite(Identity("a"), "p", AllCases, {})>>,
     <<Suite(Identity("a"), "o", <<"release-twice", "release-twice">>, {})>>}
Policy(ob, categories, allow, ambiguity) ==
    [id |-> "d", requirements |-> ob :> [accepted_categories |-> categories, allow_assumptions |-> allow],
     ambiguity |-> ambiguity]
Dev == Policy("o", {"example_test", "proof"}, TRUE, "reject")
MCPolicies ==
    {Dev, Policy("o", {"proof"}, FALSE, "reject"), Policy("o", {"example_test"}, FALSE, "reject"),
     Policy("p", {"example_test"}, TRUE, "reject"), Policy("o", {"example_test"}, TRUE, "first")}
MCFirst == [theory |-> Theory(<<L1, L2>>, <<"o">>), realizations |-> <<Broken, Pure>>, suites |-> <<Full>>,
            policy |-> Dev]
MCIdOrder == <<"broken", "pure">>

-----------------------------------------------------------------------------
(* Three projects: work that waits for a decision and for other work, the     *)
(* same with its decision made and some work done, and one of two efforts     *)
(* that do not add up the way they look.                                      *)
Item(kind, status, effort) ==
    [kind |-> kind, status |-> status, effort |-> effort, document |-> "m", sound |-> TRUE]
Link(source, kind, target) == [source |-> source, kind |-> kind, target |-> target, document |-> "m"]
Project(status, decided, efforts, relations) ==
    [entities |-> [w1 |-> Item("work_item", status, efforts[1]), w2 |-> Item("work_item", "planned", efforts[2]),
                   w3 |-> Item("work_item", "ready", efforts[3]), d |-> Item("decision", decided, 1),
                   e |-> Item("evidence", "accepted", 1)],
     relations |-> relations]
MCFirstProjects ==
    LET chain == <<Link("w1", "blocks", "w2"), Link("w1", "requires", "d")>>
    IN {Project("planned", "proposed", <<1, 2, 3>>, chain),
        Project("complete", "accepted", <<2, 0, 2>>, chain),
        Project("in_progress", "accepted", <<3, -1, 2>>, <<Link("w3", "requires", "w1"), Link("w2", "blocks", "w3")>>)}
MCNewRelations ==
    {Link("w1", "blocks", "w2"), Link("w2", "blocks", "w3"), Link("w3", "blocks", "w1"),
     Link("w3", "blocks", "d"), Link("w2", "contains", "w2"),
     Link("e", "supports", "w1"), Link("w1", "assumes", "w3"), Link("w3", "reviewed_by", "e"),
     Link("w1", "blocks", "x"), [Link("w1", "blocks", "w3") EXCEPT !.document = "n"],
     [Link("w1", "blocks", "w3") EXCEPT !.document = "outside"]}
MCRequests ==
    LET asks(query, subjects, depth, nodes) ==
            [query |-> query, subjects |-> subjects, depth |-> depth, nodes |-> nodes]
    IN {asks("impact", <<"d">>, 2, 3), asks("impact", <<"w2", "d">>, 3, 4), asks("impact", <<"w1">>, 1, 2),
        asks("evidence", <<"w1">>, 2, 4), asks("evidence", <<"w1", "w1">>, 1, 4), asks("impact", <<"nobody">>, 1, 4),
        asks("impact", <<"d">>, 3, 4)}
MCKeyOrder ==
    <<"assumes", "blocks", "contains", "d", "e", "entity", "m", "n", "nobody", "relation", "requires",
      "reviewed_by", "supports", "w1", "w2", "w3">>

(* A behaviour is of the store and its builder, of the tracer, of the         *)
(* experiment or of the project model: the four share nothing.                *)
VARIABLE scene

MCInit ==
    /\ BuildInit /\ ProjectInit
    /\ \/ scene = "programs" /\ CheckerInit
       \/ scene \in {"build", "project"} /\ TracerInit /\ house = "tracer"

MCNext ==
    \/ scene = "build" /\ BuildNext /\ UNCHANGED <<checkerVars, projectVars, scene>>
    \/ scene = "programs" /\ CheckerNext /\ UNCHANGED <<buildVars, projectVars, scene>>
    \/ scene = "project" /\ ProjectNext /\ UNCHANGED <<buildVars, checkerVars, scene>>

MCSpec == MCInit /\ [][MCNext]_<<buildVars, checkerVars, projectVars, scene>>
=============================================================================
