----------------------------- MODULE ProjectModel -----------------------------
(* The project model (src/src/project-model): a graph of entities and         *)
(* relations that people edit. It is validated, its work is scheduled, it is  *)
(* exported as canonical facts, and the export - which a reader may get       *)
(* altered - answers bounded queries.                                         *)
(*                                                                            *)
(* A canonical key is the tuple it encodes, ordered by the code points of its *)
(* parts; an identity is the payload it is the hash of. What the checks of an *)
(* entity's own fields look at is one Boolean, sound.                         *)
(*                                                                            *)
(* Enqueued_First is a faulty version of Enqueued, used as a mutation.        *)
EXTENDS Integers, Sequences, FiniteSets, SequencesExt, FiniteSetsExt, Functions

CONSTANTS
    FirstProjects,  \* the projects as loaded: [entities, relations]
    NewRelations,       \* relations an author may add
    Requests,       \* query requests
    KeyOrder,          \* every part of a key, in code point order
    Documents,      \* the documents under model/
    MaxEntities, MaxRelations, MaxQueryRoots, MaxQueryDepth, MaxQueryNodes,    \* relationalFactBounds
    Denied, Absent,   \* a typed failure; no value
    MaxAuthored     \* bound of the model: relations of a project

VARIABLES
    project,    \* [entities: id -> [kind, status, effort, document, sound],
                \* relations: a sequence]
    artifact,   \* the export's bytes as a reader has them, or Absent
    asked       \* the last query of this artifact: [request, result], or Absent

projectVars == <<project, artifact, asked>>

(* What the assumptions say of the inputs: a loaded project has finitely many *)
(* entities, whose efforts are integers (schedule.ts reads anything else as   *)
(* 1); a request that decodes names its query and asks for natural numbers.   *)
ProjectsAssumption ==
    \A p \in FirstProjects :
       /\ p = [entities |-> p.entities, relations |-> p.relations]
       /\ IsFiniteSet(DOMAIN p.entities) /\ Absent \notin DOMAIN p.entities
       /\ \A id \in DOMAIN p.entities : p.entities[id].effort \in Int
       /\ p.relations \in Seq(Range(p.relations))
RequestsAssumption ==
    \A request \in Requests :
       /\ request.query \in {"impact", "evidence"} /\ request.subjects \in Seq(Range(request.subjects))
       /\ request.depth \in Nat /\ request.nodes \in Nat
KeyOrderAssumption == KeyOrder \in Seq(Range(KeyOrder))
ASSUME InputsAssumption == ProjectsAssumption /\ RequestsAssumption /\ KeyOrderAssumption

(* A loop whose k-th turn takes its state to Turn(state, k), after n turns.   *)
Repeated(Turn(_, _), start, n) ==
    LET run[k \in 0..n] == IF k = 0 THEN start ELSE Turn(run[k - 1], k)
    IN run[n]

Rank(part) == SelectInSeq(KeyOrder, LAMBDA p : p = part)
Least(ids) == CHOOSE x \in ids : \A y \in ids : Rank(x) <= Rank(y)
Greatest(ids) == CHOOSE x \in ids : \A y \in ids : Rank(y) <= Rank(x)
Sorted(ids) == Repeated(LAMBDA list, k : Append(list, Least(ids \ ToSet(list))), <<>>, Cardinality(ids))
Precedes(left, right) ==
    \E k \in 1..Min({Len(left), Len(right)}) :
       (\A j \in 1..(k - 1) : left[j] = right[j]) /\ Rank(left[k]) < Rank(right[k])
-----------------------------------------------------------------------------
(* graph.ts: a graph maps each node to the set of its targets. *)
Adjacency(nodes, edges) == [n \in nodes |-> {e[2] : e \in {x \in edges : x[1] = n}}]

(* A turn of the depth-first search. Whatever was tried before is visited, so *)
(* the next to try is the least that is not; a node without any is left.      *)
Visit(graph, st) ==
    LET open == (IF st.stack = <<>> THEN DOMAIN graph ELSE graph[Last(st.stack)]) \ st.visited
        node == Least(open)
        again == SelectInSeq(st.stack, LAMBDA x : x = node)
    IN IF st.cycle # <<>> \/ (open = {} /\ st.stack = <<>>) THEN st
       ELSE IF open = {} THEN [st EXCEPT !.stack = Front(@), !.visited = @ \cup {Last(st.stack)}]
       ELSE IF node \in ToSet(st.stack)
       THEN [st EXCEPT !.cycle = Append(SubSeq(st.stack, again, Len(st.stack)), node)]
       ELSE [st EXCEPT !.stack = Append(@, node)]

(* A node is entered and left once. *)
FindCycle(graph) ==
    Repeated(LAMBDA st, k : Visit(graph, st), [visited |-> {}, stack |-> <<>>, cycle |-> <<>>],
             2 * Cardinality(DOMAIN graph)).cycle

Predecessors(graph, node) == {n \in DOMAIN graph : node \in graph[n]}

(* Kahn's algorithm with the ready nodes kept sorted; no order is <<>>.       *)
Ready(graph, order) == {n \in DOMAIN graph \ ToSet(order) : Predecessors(graph, n) \subseteq ToSet(order)}
TopologicalOrder(graph) ==
    LET turn(order, k) == IF Ready(graph, order) = {} THEN order ELSE Append(order, Least(Ready(graph, order)))
        order == Repeated(turn, <<>>, Cardinality(DOMAIN graph))
    IN IF Len(order) = Cardinality(DOMAIN graph) THEN order ELSE <<>>

(* score is the weight of the best path that ends in a node, previous the     *)
(* node before it there.                                                      *)
Relaxed(graph, weights, st, source) ==
    LET candidate(n) == st.score[source] + weights[n]
        better == {n \in graph[source] : candidate(n) > st.score[n]}
    IN [score |-> [n \in DOMAIN st.score |-> IF n \in better THEN candidate(n) ELSE st.score[n]],
        previous |-> [n \in DOMAIN st.previous |-> IF n \in better THEN source ELSE st.previous[n]]]
Scored(graph, weights, order) ==
    Repeated(LAMBDA st, k : Relaxed(graph, weights, st, order[k]),
             [score |-> weights, previous |-> [n \in DOMAIN graph |-> Absent]], Len(order))

PathTo(previous, end, turns) ==
    Repeated(LAMBDA path, k : IF previous[path[1]] = Absent THEN path ELSE <<previous[path[1]]>> \o path,
             <<end>>, turns)

LongestPath(graph, weights) ==
    LET order == TopologicalOrder(graph)
        final == Scored(graph, weights, order)
        best == {n \in DOMAIN graph : \A m \in DOMAIN graph : final.score[m] <= final.score[n]}
    IN IF order = <<>> THEN <<>> ELSE PathTo(final.previous, Greatest(best), Len(order))
-----------------------------------------------------------------------------
(* validate.ts and schedule.ts: in this graph "a blocks b" says that a waits  *)
(* for b.                                                                     *)
Entities == DOMAIN project.entities
Relations == ToSet(project.relations)
Work == {id \in Entities : project.entities[id].kind = "work_item"}
Complete == {"complete", "accepted", "superseded"}
IsComplete(id) == project.entities[id].status \in Complete

EdgesOf(kind, nodes) ==
    {<<r.source, r.target>> : r \in {x \in Relations : x.kind = kind /\ {x.source, x.target} \subseteq nodes}}
Reversed(edges) == {<<e[2], e[1]>> : e \in edges}
Containment == Adjacency(Entities, EdgesOf("contains", Entities))
Dependencies == Adjacency(Work, Reversed(EdgesOf("blocks", Work)))

RelationFamily ==
    [blocks |-> "dependency", requires |-> "dependency", supports |-> "evidence",
     discharges |-> "evidence", covers |-> "evidence", assumes |-> "evidence",
     reviewed_by |-> "evidence", validates |-> "evidence", derives |-> "derivation", contains |-> "other"]

ProjectIsValid ==
    /\ \A id \in Entities : project.entities[id].sound
    /\ \A r \in Relations : r.kind \in DOMAIN RelationFamily /\ {r.source, r.target} \subseteq Entities
    /\ FindCycle(Containment) = <<>> /\ FindCycle(Dependencies) = <<>>

Blockers(id) ==
    LET targets(kind) == {r.target : r \in {x \in Relations : x.source = id /\ x.kind = kind}}
        decisions == {d \in targets("requires") \cap Entities : project.entities[d].kind = "decision"}
    IN {b \in (targets("blocks") \cap Work) \cup decisions : ~IsComplete(b)}

IsStartable(id) == project.entities[id].status \in {"ready", "planned", "in_progress"}
IsReady(id) == IsStartable(id) /\ Blockers(id) = {}

Efforts == [id \in Work |-> project.entities[id].effort]
CriticalPath ==
    IF FindCycle(Dependencies) # <<>> THEN <<>> ELSE LongestPath(Dependencies, Efforts)
-----------------------------------------------------------------------------
(* relational-facts.ts: the export. Facts are ordered by their keys, and a    *)
(* fact's keys say again what its fields say.                                 *)
DocumentIsKept(document) == document \in Documents

EntityFact(id) ==
    LET e == project.entities[id]
    IN [key |-> <<"entity", e.document, id>>, subject |-> id, kind |-> e.kind, document |-> e.document,
        record |-> <<"entity", id>>]

RelationFact(r) ==
    [key |-> <<"relation", r.document, r.source, r.kind, r.target>>, subject |-> r.source,
     object |-> r.target, kind |-> r.kind, family |-> RelationFamily[r.kind], document |-> r.document,
     record |-> <<"relation", r.source, r.kind, r.target>>]

IsRelation(fact) == "object" \in DOMAIN fact
EntityFacts(facts) == {f \in ToSet(facts) : ~IsRelation(f)}
RelationFacts(facts) == {f \in ToSet(facts) : IsRelation(f)}

ExportPayload(facts, entities, relations) ==
    [facts |-> facts, entity_count |-> entities, relation_count |-> relations, fact_count |-> Len(facts)]
Sealed(payload) == [payload |-> payload, identity |-> payload]

FactsInOrder(facts) == \A i \in 2..Len(facts) : Precedes(facts[i - 1].key, facts[i].key)

ExportOf ==
    LET documents == {project.entities[id].document : id \in Entities} \cup {r.document : r \in Relations}
        list == SetToSeq({EntityFact(id) : id \in Entities})
                \o [i \in DOMAIN project.relations |-> RelationFact(project.relations[i])]
        before(i, j) == IF i < j THEN ~Precedes(list[j].key, list[i].key) ELSE Precedes(list[i].key, list[j].key)
        place == [j \in DOMAIN list |-> 1 + Cardinality({i \in DOMAIN list : before(i, j)})]
        facts == [k \in DOMAIN list |-> list[CHOOSE j \in DOMAIN list : place[j] = k]]
    IN IF /\ Cardinality(Entities) <= MaxEntities /\ Len(project.relations) <= MaxRelations
          /\ ProjectIsValid /\ \A d \in documents : DocumentIsKept(d)
       THEN IF FactsInOrder(facts)
            THEN Sealed(ExportPayload(facts, Cardinality(Entities), Len(project.relations)))
            ELSE Denied
       ELSE Denied

(* validateRelationalFactExportBytes: what a reader of the bytes checks. *)
FactIsKeyed(fact) ==
    /\ DocumentIsKept(fact.document)
    /\ IF IsRelation(fact)
       THEN /\ fact.key = <<"relation", fact.document, fact.subject, fact.kind, fact.object>>
            /\ fact.record = <<"relation", fact.subject, fact.kind, fact.object>>
            /\ fact.family = RelationFamily[fact.kind]
       ELSE fact.key = <<"entity", fact.document, fact.subject>> /\ fact.record = <<"entity", fact.subject>>

Subjects(facts) == {f.subject : f \in EntityFacts(facts)}

(* Facts that are in order are distinct. *)
ExportIsValid(export) ==
    LET facts == export.payload.facts
    IN /\ export.payload = ExportPayload(facts, Cardinality(EntityFacts(facts)), Cardinality(RelationFacts(facts)))
       /\ FactsInOrder(facts) /\ \A f, g \in EntityFacts(facts) : f.subject = g.subject => f = g
       /\ \A f \in ToSet(facts) : FactIsKeyed(f)
       /\ \A f \in RelationFacts(facts) : {f.subject, f.object} \subseteq Subjects(facts)
       /\ export.identity = export.payload

(* ---- queries --------------------------------------------------------------*)
RequestIsValid(request) ==
    /\ Len(request.subjects) <= MaxQueryRoots /\ IsInjective(request.subjects)
    /\ request.depth <= MaxQueryDepth /\ request.nodes \in 1..MaxQueryNodes

(* The relation kinds a query follows, and the ways it follows them. *)
Backward == [impact |-> {"requires"}, evidence |-> {"supports", "discharges", "covers"}]
Forward == [impact |-> {"blocks"}, evidence |-> {"assumes", "reviewed_by"}]
EvidenceKinds == {"evidence", "obligation", "assumption", "human"}

Followed(facts, query) ==
    {[source |-> f.object, target |-> f.subject, key |-> f.key] :
        f \in {x \in RelationFacts(facts) : x.kind \in Backward[query]}}
    \cup {[source |-> f.subject, target |-> f.object, key |-> f.key] :
             f \in {x \in RelationFacts(facts) : x.kind \in Forward[query]}}

(* The edges of a subject are sorted by target, then by key: of several to    *)
(* one target only the first is ever taken.                                   *)
Targets(edges, subject) == {e.target : e \in {x \in edges : x.source = subject}}
KeyTo(edges, subject, target) ==
    LET keys == {e.key : e \in {x \in edges : x.source = subject /\ x.target = target}}
    IN CHOOSE k \in keys : \A other \in keys : ~Precedes(other, k)

Enqueued_First(st, target) == <<target>> \o st.queue      \* the queue as a stack
Enqueued(st, target) == Append(st.queue, target)

(* A turn of the traversal: the next edge of the queue's head to somewhere    *)
(* new, or the next head once there is none that may be followed.             *)
TakeNext(st, edges, request) ==
    LET subject == Head(st.queue)
        from == st.visited[subject]
        fresh == Targets(edges, subject) \ DOMAIN st.visited
        target == Least(fresh)
        next == [depth |-> from.depth + 1, path |-> Append(from.path, KeyTo(edges, subject, target))]
    IN IF st.queue = <<>> \/ st.failed THEN st
       ELSE IF fresh = {} \/ from.depth >= request.depth
       THEN [st EXCEPT !.queue = Tail(@), !.limited = @ \/ fresh # {}]
       ELSE IF Cardinality(DOMAIN st.visited) >= request.nodes THEN [st EXCEPT !.failed = TRUE]
       ELSE [st EXCEPT !.visited = [s \in DOMAIN @ \cup {target} |-> IF s = target THEN next ELSE @[s]],
                       !.queue = Enqueued(st, target)]

(* A subject enters the queue and leaves it once. *)
Traverse(request, edges, ids) ==
    LET roots == ToSet(request.subjects)
        start == [visited |-> [s \in roots |-> [depth |-> 0, path |-> <<>>]], queue |-> Sorted(roots),
                  limited |-> FALSE, failed |-> Cardinality(roots) > request.nodes]
    IN Repeated(LAMBDA st, k : TakeNext(st, edges, request), start, 2 * Cardinality(ids))

Included(query, kind) == query = "impact" \/ kind \in EvidenceKinds

Matches(visited, facts, request) ==
    LET entities == {f \in EntityFacts(facts) : f.subject \in DOMAIN visited \ ToSet(request.subjects)}
    IN {[subject |-> f.subject, kind |-> f.kind, depth |-> visited[f.subject].depth,
         path |-> visited[f.subject].path] : f \in {e \in entities : Included(request.query, e.kind)}}

(* The answer to a request; none when it is denied. *)
Answered(export, request) ==
    LET facts == export.payload.facts
        seen == Traverse(request, Followed(facts, request.query), Subjects(facts))
    IN IF /\ ExportIsValid(export) /\ RequestIsValid(request)
          /\ ToSet(request.subjects) \subseteq Subjects(facts) /\ ~seen.failed
       THEN {[matches |-> Matches(seen.visited, facts, request), depth_limited |-> seen.limited]}
       ELSE {}
-----------------------------------------------------------------------------
Load ==
    /\ project = Absent /\ project' \in FirstProjects
    /\ UNCHANGED <<artifact, asked>>

(* An edit leaves no bytes behind: they answer for the project they were made *)
(* of, whatever it has become.                                                *)
Author(r) ==
    /\ project # Absent /\ Len(project.relations) < MaxAuthored
    /\ project' = [project EXCEPT !.relations = Append(@, r)]
    /\ artifact' = Absent /\ asked' = Absent

BuildExport ==
    /\ project # Absent /\ artifact = Absent /\ ExportOf # Denied
    /\ artifact' = ExportOf
    /\ UNCHANGED <<project, asked>>

Resealed(facts) ==
    Sealed(ExportPayload(facts, Cardinality(EntityFacts(facts)), Cardinality(RelationFacts(facts))))

(* What somebody may make of the bytes: one of three facts dropped, with a    *)
(* new identity or the old one; two facts in the other order; a relation      *)
(* pointed elsewhere, with its keys or without.                               *)
Forgeries(export) ==
    LET facts == export.payload.facts
        size == Len(facts)
        last == facts[size]
        pointed(id) == [last EXCEPT !.object = id, !.key = [@ EXCEPT ![5] = id], !.record = [@ EXCEPT ![4] = id]]
        points == IF IsRelation(last) THEN {[last EXCEPT !.object = last.subject], pointed(last.subject),
                                            pointed("nobody"), [last EXCEPT !.family = "other"]}
                  ELSE {}
    IN {Resealed(RemoveAt(facts, i)) : i \in {1, 3, size} \cap DOMAIN facts}
       \cup {Resealed([facts EXCEPT ![size] = f]) : f \in points}
       \cup {Resealed([facts EXCEPT ![1] = facts[2], ![2] = facts[1]]),
             [export EXCEPT !.payload = Resealed(Front(facts)).payload]}

Forge ==
    /\ asked = Absent /\ artifact # Absent /\ artifact = ExportOf
    /\ artifact' \in Forgeries(artifact)
    /\ UNCHANGED <<project, asked>>

Query(request) ==
    /\ artifact # Absent /\ asked = Absent
    /\ asked' = [request |-> request, result |-> Answered(artifact, request)]
    /\ UNCHANGED <<project, artifact>>

ProjectInit == project = Absent /\ artifact = Absent /\ asked = Absent

ProjectNext ==
    \/ Load
    \/ \E r \in NewRelations : Author(r)
    \/ BuildExport \/ Forge
    \/ \E request \in Requests : Query(request)

ProjectSpec == ProjectInit /\ [][ProjectNext]_projectVars
-----------------------------------------------------------------------------
(* A walk along the edges of a graph. *)
IsWalk(graph, path) == \A i \in 2..Len(path) : path[i] \in graph[path[i - 1]]
Paths(graph) == {p \in BoundedSeq(DOMAIN graph, Cardinality(DOMAIN graph)) : IsInjective(p) /\ IsWalk(graph, p)}
Weight(path) == Repeated(LAMBDA sum, i : sum + Efforts[path[i]], 0, Len(path))

(* The plan. A cycle is reported when there is one and is one; the critical   *)
(* path is a chain of dependencies that no chain outweighs; and in a valid    *)
(* project whose decisions are made, unfinished work is never all waiting.    *)
PlanIsSound ==
    LET cycle == FindCycle(Dependencies)
        closed == \E p \in Paths(Dependencies) : p # <<>> /\ p[1] \in Dependencies[Last(p)]
        unfinished == {w \in Work : ~IsComplete(w)}
        decided == \A id \in Entities : project.entities[id].kind = "decision" => IsComplete(id)
    IN /\ closed <=> cycle # <<>>
       /\ closed => IsWalk(Dependencies, cycle) /\ Head(cycle) = Last(cycle) /\ Len(cycle) > 1
       /\ ~closed => /\ CriticalPath \in Paths(Dependencies)
                     /\ \A p \in Paths(Dependencies) \ {<<>>} : Weight(p) <= Weight(CriticalPath)
       /\ ProjectIsValid /\ decided /\ unfinished # {} /\ (\A w \in unfinished : IsStartable(w))
             => \E w \in unfinished : IsReady(w)

(* The subjects within k steps of the roots. *)
Within(edges, roots, k) ==
    Repeated(LAMBDA s, i : s \cup {e.target : e \in {x \in edges : x.source \in s}}, roots, k)

(* path is the keys of edges that lead from a root to the subject.            *)
Leads(edges, roots, path, subject) ==
    LET last(i) == {e.target : e \in {x \in edges : x.key = path[i]}}
        first(i) == {e.source : e \in {x \in edges : x.key = path[i]}}
    IN /\ path # <<>> /\ first(1) \subseteq roots /\ last(Len(path)) = {subject}
       /\ \A i \in 2..Len(path) : first(i) = last(i - 1)

(* The queries. Of bytes that are accepted, the facts are a graph; an answer  *)
(* lists what is within the depth asked for and nothing else, each with its   *)
(* least distance and a path of that length that starts at a root; it says    *)
(* depth_limited exactly when there is more; and a sound question is refused  *)
(* only when more subjects are within the depth than it allows.               *)
QueriesAreTrue ==
    LET facts == artifact.payload.facts
        request == asked.request
        edges == Followed(facts, request.query)
        roots == ToSet(request.subjects)
        ids == Subjects(facts)
        near == Within(edges, roots, request.depth)
        kindOf(id) == (CHOOSE f \in EntityFacts(facts) : f.subject = id).kind
        listed == {id \in near \ roots : Included(request.query, kindOf(id))}
        refused == \/ ~ExportIsValid(artifact) \/ ~RequestIsValid(request) \/ ~(roots \subseteq ids)
                   \/ Cardinality(near) > request.nodes
    IN asked # Absent =>
         /\ asked.result = {} => refused
         /\ \A answer \in asked.result :
               /\ \A f \in RelationFacts(facts) : {f.subject, f.object} \subseteq ids
               /\ {m.subject : m \in answer.matches} = listed
               /\ Cardinality(answer.matches) = Cardinality(listed)
               /\ \A m \in answer.matches :
                     /\ m.subject \in Within(edges, roots, m.depth) \ Within(edges, roots, m.depth - 1)
                     /\ Len(m.path) = m.depth /\ Leads(edges, roots, m.path, m.subject)
               /\ answer.depth_limited <=> Within(edges, roots, request.depth + 1) # near

(* What the project model tells its readers: its plan and its queries, over   *)
(* every graph that can be authored and every export that can be made of it   *)
(* (src/design-specs/0034: a depth-limited result cannot claim complete       *)
(* closure; a cycle cannot make a query recurse).                             *)
ProjectIsTold ==
    project # Absent => IF artifact = Absent THEN PlanIsSound ELSE QueriesAreTrue
=============================================================================
