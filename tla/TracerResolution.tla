--------------------------- MODULE TracerResolution ---------------------------
(* The inventory tracer (src/src/tracer): authored documents are normalized   *)
(* to identities, conformance suites are run against each realization of a    *)
(* theory, the outcomes are bound to the realizations and adjudicated under a *)
(* policy, and the decision is written as a resolution claim that a reader    *)
(* validates again.  Documents may be edited between any two of these, and    *)
(* outcomes come in any order, lost, rebound or altered.  An identity is the  *)
(* hash of a canonical payload: here, the payload.                            *)
EXTENDS InventoryDomain

CONSTANTS
    CaseOf,             \* authored case -> [initial, steps, expected, final]
    Scenario,           \* the case the selected realization executes
    IdOrder,            \* the realization ids in lexical order
    FirstDocuments,     \* [theory, realizations, suites, policy] as first authored
    Theories, RealizationLists, SuiteLists, Policies,    \* what edits put there
    MaxEdits, MaxOutcomes, MaxFaults, MaxClaims          \* bounds of the model

VARIABLES
    documents,  \* the authored documents
    outcomes,   \* the producer outcomes collected so far, a sequence
    spent,      \* [edits, faults]: how much of the model's bounds is used
    claims      \* the claims built: [claim, documents, outcomes, execution]

tracerVars == <<documents, outcomes, spent, claims>>

Ids(ds) == [i \in DOMAIN ds |-> ds[i].id]

(* Operators named X_Fault are faulty versions of X, used only as mutations. *)
-----------------------------------------------------------------------------
(* The operation tables: what a realization may name. *)
TransitionNames == {"reference", "broken"}
ReplayNames == {"replay"}

MatchesOracle(c, ran) == ran.events = c.expected /\ ran.state = c.final

CaseJudged(id, c, ran) ==
    IF ran = Failed THEN Failed
    ELSE LET passed == /\ MatchesOracle(c, ran)
                       /\ Replay(c.initial, ran.events) = {ran.state}
                       /\ InvariantViolations(ran.state) = {}
         IN [id |-> id, passed |-> passed, detail |-> IF passed THEN None ELSE ran]

RunCase(id, name) == CaseJudged(id, CaseOf[id], RunSteps(name, CaseOf[id].initial, CaseOf[id].steps))

CaseResults == [x \in (DOMAIN CaseOf) \X TransitionNames |-> RunCase(x[1], x[2])]
-----------------------------------------------------------------------------
(* Theories and realizations.  A theory's identity forgets its id, its        *)
(* display fields and the order of its declarations; a realization's is over  *)
(* the theory's identity and its own content, without its id or its target.   *)
NormalizeTheory(d) ==
    IF d.normalization = "theory-norm-v0" /\ IsInjective(Ids(d.laws)) /\ IsInjective(d.obligations)
    THEN [id |-> d.id,
          identity |-> [laws |-> {[id |-> l.id, body |-> l.body] : l \in ToSet(d.laws)},
                        obligations |-> ToSet(d.obligations)],
          obligation |-> IF Len(d.obligations) = 1 THEN d.obligations[1] ELSE None]
    ELSE Failed

NormalizeRealization(d, theory) ==
    [id |-> d.id,
     identity |-> [theory |-> theory.identity, operations |-> d.operations, assumptions |-> d.assumptions],
     targets |-> d.theory = theory.id,
     operations |-> d.operations,
     assumptions |-> d.assumptions]

(* Evidence.  An artifact carries its identity beside the fields it hashes;   *)
(* its serialized form adds what can be counted from them.                    *)
EvidenceCategory == "example_test"
PassedCases(body) == {i \in DOMAIN body.cases : body.cases[i].passed}
EvidencePassed(body) == body.cases # <<>> /\ Cardinality(PassedCases(body)) = Len(body.cases)
Counterexamples(body) == SelectSeq(body.cases, LAMBDA c : ~c.passed)

Minted(body) == [identity |-> body, body |-> body]

Summary(body) ==
    [passed |-> EvidencePassed(body), total_cases |-> Len(body.cases),
     passed_cases |-> Cardinality(PassedCases(body)), counterexamples |-> Counterexamples(body)]

EvidenceToJson(e) == [identity |-> e.identity, body |-> e.body, summary |-> Summary(e.body)]

EvidenceReads(doc) ==
    /\ doc.body.category = EvidenceCategory
    /\ doc.body.cases # <<>>
    /\ \A c \in ToSet(doc.body.cases) : c.passed = (c.detail = None)
    /\ IsInjective(Ids(doc.body.cases))

ParseEvidenceResult_Fault(doc) ==
    IF EvidenceReads(doc) /\ doc.summary = Summary(doc.body)
    THEN [identity |-> doc.identity, body |-> doc.body]
    ELSE Failed

ParseEvidenceResult(doc) ==
    IF /\ EvidenceReads(doc)
       /\ doc.identity = doc.body
       /\ doc.summary = Summary(doc.body)
    THEN [identity |-> doc.identity, body |-> doc.body]
    ELSE Failed

(* A suite is a recipe: its envelope is validated against the very theory it  *)
(* is run for, before an operation is bound or a case executed.               *)
RecipeIsValid(suite, theory) ==
    /\ suite.shape = "conformance_suite v1"
    /\ suite.theory = theory.id
    /\ suite.theory_identity = theory.identity
    /\ suite.category = EvidenceCategory
    /\ suite.cases # <<>>
    /\ IsInjective(suite.cases)

ResultsOf(realization, suite) ==
    [i \in DOMAIN suite.cases |-> CaseResults[<<suite.cases[i], realization.operations.transition>>]]

Tested(theory, realization, suite) ==
    [category |-> EvidenceCategory, recipe |-> suite, theory |-> theory.identity,
     realization |-> realization.identity, obligation |-> suite.obligation,
     assumptions |-> suite.assumptions, cases |-> ResultsOf(realization, suite)]

RunConformance(theory, realization, suite) ==
    IF Failed \in ToSet(ResultsOf(realization, suite)) THEN Failed ELSE Minted(Tested(theory, realization, suite))

Diagnosed(realization, kind) ==
    [ok |-> FALSE, id |-> realization.id, identity |-> realization.identity, result |-> None, diagnostic |-> kind]

Concluded(realization, result) ==
    IF result = Failed THEN Failed
    ELSE [ok |-> TRUE, id |-> realization.id, identity |-> realization.identity, result |-> result,
          diagnostic |-> None]

ProduceFrom(theory, realization, suite) ==
    IF suite.theory_identity # theory.identity THEN Diagnosed(realization, "stale_evidence_recipe")
    ELSE IF suite.obligation # theory.obligation THEN Diagnosed(realization, "evidence_obligation_mismatch")
    ELSE IF ~RecipeIsValid(suite, theory) THEN Failed
    ELSE IF ~({"transition", "replay"} \subseteq DOMAIN realization.operations) THEN Failed
    ELSE IF \/ realization.operations.transition \notin TransitionNames
            \/ realization.operations.replay \notin ReplayNames
         THEN Diagnosed(realization, "unbound_operation")
    ELSE Concluded(realization, RunConformance(theory, realization, suite))

ProduceMatching(theory, realization, suites, matching) ==
    IF matching = {} THEN Diagnosed(realization, "missing_evidence")
    ELSE IF Cardinality(matching) > 1 THEN Diagnosed(realization, "ambiguous_evidence")
    ELSE ProduceFrom(theory, realization, suites[CHOOSE i \in matching : TRUE])

ProduceEvidence(theory, realization, suites) ==
    IF ~realization.targets THEN Diagnosed(realization, "not_targeted")
    ELSE IF theory.obligation = None THEN Diagnosed(realization, "obligation_unsupported")
    ELSE ProduceMatching(theory, realization, suites, {i \in DOMAIN suites : suites[i].theory = theory.id})
-----------------------------------------------------------------------------
(* The resolver: every realization has exactly one outcome, about that very   *)
(* realization and theory; each result is validated again as if it were read  *)
(* from a document; the gates run in order; exactly one eligible wins.        *)
OutcomeOf(outs, id) == outs[SelectInSeq(outs, LAMBDA o : o.id = id)]

OutcomesBind(theory, realizations, outs) ==
    /\ IsInjective(Ids(realizations))
    /\ IsInjective(Ids(outs))
    /\ ToSet(Ids(outs)) = ToSet(Ids(realizations))
    /\ \A r \in ToSet(realizations) : \E o \in {OutcomeOf(outs, r.id)} :
          /\ o.identity = r.identity
          /\ o.ok => o.result.body.realization = r.identity /\ o.result.body.theory = theory.identity

OutcomeIsValid(o) == o.ok => ParseEvidenceResult(EvidenceToJson(o.result)) # Failed

DiagnosticKinds == {"not_targeted", "obligation_unsupported", "missing_evidence", "ambiguous_evidence",
                    "stale_evidence_recipe", "evidence_obligation_mismatch", "unbound_operation"}
DiagnosticReason(kind) == CASE kind = "not_targeted" -> "theory_mismatch"
                            [] kind = "obligation_unsupported" -> "required_obligation_set_unsupported"
                            [] OTHER -> kind

When(p, reason) == IF p THEN {reason} ELSE {}

PolicyReasons(policy, realization, body) ==
    IF body.obligation \notin DOMAIN policy.requirements THEN {"obligation_not_governed"}
    ELSE LET rule == policy.requirements[body.obligation]
         IN When(body.category \notin rule.accepted_categories, "evidence_category_not_accepted")
            \cup When(/\ body.assumptions # {} \/ realization.assumptions # {}
                      /\ ~rule.allow_assumptions, "assumptions_not_allowed")

Candidate(realization, evidence, diagnostic, reasons) ==
    [id |-> realization.id, identity |-> realization.identity, targets |-> realization.targets,
     assumptions |-> realization.assumptions, evidence |-> evidence, diagnostic |-> diagnostic,
     eligible |-> reasons = {}, reasons |-> reasons]

EvaluateCandidate(theory, realization, outcome, policy) ==
    LET Reject(reason) == Candidate(realization, None, outcome.diagnostic, {reason})
    IN IF ~realization.targets THEN Reject("theory_mismatch")
       ELSE IF theory.obligation = None THEN Reject("required_obligation_set_unsupported")
       ELSE IF ~outcome.ok THEN Reject(DiagnosticReason(outcome.diagnostic))
       ELSE IF outcome.result.body.obligation # theory.obligation THEN Reject("evidence_obligation_mismatch")
       ELSE Candidate(realization, outcome.result, None,
                      PolicyReasons(policy, realization, outcome.result.body)
                      \cup When(~EvidencePassed(outcome.result.body), "conformance_failed"))

(* Candidates differ in their ids, so a set of them counts them. *)
Eligible(candidates) == {c \in ToSet(candidates) : c.eligible}
TheOne(winners) == CHOOSE w \in winners : TRUE

Decided(candidates) ==
    [candidates |-> candidates,
     status     |-> IF Cardinality(Eligible(candidates)) = 1 THEN "selected" ELSE "rejected",
     selected   |-> IF Cardinality(Eligible(candidates)) = 1 THEN TheOne(Eligible(candidates)).id ELSE None]

Resolve(theory, realizations, outs, policy) ==
    IF /\ policy.ambiguity = "reject"
       /\ OutcomesBind(theory, realizations, outs)
       /\ \A o \in ToSet(outs) : OutcomeIsValid(o)
    THEN Decided([i \in DOMAIN realizations |->
            EvaluateCandidate(theory, realizations[i], OutcomeOf(outs, realizations[i].id), policy)])
    ELSE Failed
-----------------------------------------------------------------------------
(* Claims.  A claim is built, or read, only through Finalize. *)
Shaped(c) ==
    /\ (c.evidence = None) # (c.diagnostic = None)
    /\ c.eligible = (c.reasons = {})
    /\ c.eligible => c.evidence # None

EvidenceIsAbout(c, draft) ==
    c.evidence # None =>
        /\ c.evidence.body.theory = draft.theory.identity
        /\ c.evidence.body.realization = c.identity
        /\ c.evidence.body.obligation = draft.required_obligation

Projection(c) == c.assumptions \cup (IF c.evidence = None THEN {} ELSE c.evidence.body.assumptions)
Subject(c) == [id |-> c.id, identity |-> c.identity]

DecisionHolds_Fault(draft, winners) ==
    draft.status = "selected" =>
        Cardinality(winners) = 1 /\ draft.selected = Subject(TheOne(winners))

DecisionHolds(draft, winners) ==
    IF draft.status = "selected"
    THEN /\ Cardinality(winners) = 1
         /\ draft.selected = Subject(TheOne(winners))
         /\ draft.selected_assumptions = Projection(TheOne(winners))
    ELSE /\ Cardinality(winners) # 1
         /\ draft.selected = None
         /\ draft.selected_assumptions = {}

(* The n-th candidate is the one that n of them do not come after. *)
Place(id) == SelectInSeq(IdOrder, LAMBDA x : x = id)
UpTo(cs, c) == {d \in ToSet(cs) : Place(d.id) <= Place(c.id)}
SortedById(cs) == [n \in DOMAIN cs |-> CHOOSE c \in ToSet(cs) : Cardinality(UpTo(cs, c)) = n]

FinalizeResolutionClaim(draft) ==
    IF /\ draft.candidates # <<>>
       /\ \A c \in ToSet(draft.candidates) : Shaped(c) /\ EvidenceIsAbout(c, draft)
       /\ IsInjective(Ids(draft.candidates))
       /\ DecisionHolds(draft, {c \in Eligible(draft.candidates) : c.evidence # None})
    THEN [draft EXCEPT !.candidates = SortedById(@)]
    ELSE Failed

BuildResolutionClaim(theory, policy, resolution) ==
    LET chosen == {c \in ToSet(resolution.candidates) : c.id = resolution.selected}
    IN FinalizeResolutionClaim(
         [theory |-> [id |-> theory.id, identity |-> theory.identity],
          required_obligation |-> theory.obligation,
          policy |-> [id |-> policy.id, content_identity |-> policy],
          candidates |-> resolution.candidates,
          status |-> resolution.status,
          selected |-> IF chosen = {} THEN None ELSE Subject(TheOne(chosen)),
          selected_assumptions |-> IF chosen = {} THEN {} ELSE Projection(TheOne(chosen))])

CandidateToJson(c) == [c EXCEPT !.evidence = IF @ = None THEN None ELSE EvidenceToJson(@)]

ResolutionClaimToJson(claim) ==
    [claim EXCEPT !.candidates = [i \in DOMAIN @ |-> CandidateToJson(@[i])]]

ParseCandidate(c) == [c EXCEPT !.evidence = IF @ = None THEN None ELSE ParseEvidenceResult(@)]

ParseCandidates(cs) == [i \in DOMAIN cs |-> ParseCandidate(cs[i])]

ParseResolutionClaim(doc) ==
    IF /\ doc.status \in {"selected", "rejected"}
       /\ \A c \in ToSet(doc.candidates) : c.diagnostic = None \/ c.diagnostic \in DiagnosticKinds
       /\ \A c \in ToSet(ParseCandidates(doc.candidates)) : c.evidence # Failed
    THEN FinalizeResolutionClaim([doc EXCEPT !.candidates = ParseCandidates(@)])
    ELSE Failed
-----------------------------------------------------------------------------
(* The documents are edited, outcomes are produced from them and travel to    *)
(* the resolver, and a claim is built.                                        *)
Normalized(docs, theory) ==
    [i \in DOMAIN docs.realizations |-> NormalizeRealization(docs.realizations[i], theory)]

Edit(field, values) ==
    /\ spent.edits < MaxEdits
    /\ \E v \in values \ {documents[field]} : documents' = [documents EXCEPT ![field] = v]
    /\ spent' = [spent EXCEPT !.edits = @ + 1]
    /\ UNCHANGED <<outcomes, claims>>

Edits ==
    \/ Edit("theory", Theories)
    \/ Edit("realizations", RealizationLists)
    \/ Edit("suites", SuiteLists)
    \/ Edit("policy", Policies)

Collect(outs) ==
    /\ Len(outcomes) < MaxOutcomes
    /\ \E o \in outs \ {Failed} : outcomes' = Append(outcomes, o)
    /\ UNCHANGED <<documents, spent, claims>>

ProduceOne(theory) ==
    /\ theory # Failed
    /\ Collect({ProduceEvidence(theory, r, documents.suites) : r \in ToSet(Normalized(documents, theory))})

Fault(outs) ==
    /\ spent.faults < MaxFaults
    /\ outcomes' \in outs \ {outcomes}
    /\ spent' = [spent EXCEPT !.faults = @ + 1]
    /\ UNCHANGED <<documents, claims>>

LoseOutcome == Fault({RemoveAt(outcomes, i) : i \in DOMAIN outcomes})

(* A result is handed on under another realization's name. *)
RebindOutcome(realizations) ==
    \E i \in DOMAIN outcomes, r \in ToSet(realizations) :
        Fault({[outcomes EXCEPT ![i].id = r.id, ![i].identity = r.identity]})

(* The cases of a result are rewritten as passed, under the identity it had. *)
Whitewashed(body) == [body EXCEPT !.cases = [i \in DOMAIN @ |-> [@[i] EXCEPT !.passed = TRUE, !.detail = None]]]
AlterOutcome ==
    Fault({[outcomes EXCEPT ![i].result.body = Whitewashed(@)] : i \in {j \in DOMAIN outcomes : outcomes[j].ok}})

Transport ==
    \/ LoseOutcome
    \/ NormalizeTheory(documents.theory) # Failed
       /\ RebindOutcome(Normalized(documents, NormalizeTheory(documents.theory)))
    \/ AlterOutcome

(* executeScenario: the selected realization's transition on the scenario. *)
Execution(claim, realizations) ==
    IF claim.status # "selected" THEN None
    ELSE LET winner == realizations[SelectInSeq(realizations, LAMBDA r : r.id = claim.selected.id)]
             ran == RunSteps(winner.operations.transition, Scenario.initial, Scenario.steps)
         IN [by |-> winner.id, matches |-> ran # Failed /\ MatchesOracle(Scenario, ran)]

Claimed(theory, policy, resolution) ==
    IF resolution = Failed THEN Failed ELSE BuildResolutionClaim(theory, policy, resolution)

Record(claim, outs, execution) ==
    /\ claim # Failed
    /\ claims' = Append(claims, [claim |-> claim, documents |-> documents, outcomes |-> outs, execution |-> execution])
    /\ UNCHANGED <<documents, outcomes, spent>>

ResolveOutcomes(theory) ==
    /\ outcomes # <<>> /\ claims = <<>>
    /\ theory # Failed
    /\ Record(Claimed(theory, documents.policy,
                      Resolve(theory, Normalized(documents, theory), outcomes, documents.policy)),
              outcomes, None)

(* runDemo: the inventory is loaded, evidence is produced for every           *)
(* realization in turn, and the selected one executes the scenario.           *)
Loads(docs) == docs.realizations # <<>> /\ IsInjective(Ids(docs.realizations))

Demonstrate(theory, realizations, outs) ==
    /\ Failed \notin ToSet(outs)
    /\ \E claim \in {Claimed(theory, documents.policy, Resolve(theory, realizations, outs, documents.policy))} \ {Failed} :
          Record(claim, outs, Execution(claim, realizations))

RunDemo(theory) ==
    /\ outcomes = <<>> /\ Len(claims) < MaxClaims
    /\ \A k \in ToSet(claims) : k.documents # documents
    /\ Loads(documents) /\ theory # Failed
    /\ \E realizations \in {Normalized(documents, theory)} :
          Demonstrate(theory, realizations,
                      [i \in DOMAIN realizations |-> ProduceEvidence(theory, realizations[i], documents.suites)])

TracerInit ==
    /\ documents = FirstDocuments
    /\ outcomes = <<>>
    /\ spent = [edits |-> 0, faults |-> 0]
    /\ claims = <<>>

TracerNext ==
    \/ Edits
    \/ claims = <<>> /\ ProduceOne(NormalizeTheory(documents.theory))
    \/ claims = <<>> /\ Transport
    \/ ResolveOutcomes(NormalizeTheory(documents.theory))
    \/ RunDemo(NormalizeTheory(documents.theory))

TracerSpec == TracerInit /\ [][TracerNext]_tracerVars
-----------------------------------------------------------------------------
(* A case whose authored events refuse a reservation for want of stock tells  *)
(* a realization that minds the stock from one that does not.                 *)
MindsStock(case) ==
    \E e \in ToSet(case.expected) : e.kind = "ReservationRejected" /\ e.reason = "insufficient_stock"

(* What the authored documents are: lists, of suites over authored cases and  *)
(* of theories whose obligations have names.                                  *)
AllTheories == Theories \cup {FirstDocuments.theory}
AllRealizationLists == RealizationLists \cup {FirstDocuments.realizations}
AllSuiteLists == SuiteLists \cup {FirstDocuments.suites}

DocumentsAreListed(docs) ==
    /\ docs.realizations \in Seq(ToSet(docs.realizations))
    /\ docs.suites \in Seq(ToSet(docs.suites))
    /\ \A s \in ToSet(docs.suites) : s.cases \in Seq(DOMAIN CaseOf)
    /\ docs.theory.obligations \in Seq(ToSet(docs.theory.obligations))
    /\ None \notin ToSet(docs.theory.obligations)

AllDocuments ==
    [theory : AllTheories, realizations : AllRealizationLists, suites : AllSuiteLists,
     policy : Policies \cup {FirstDocuments.policy}]

ASSUME DocumentsAssumption ==
    FirstDocuments \in AllDocuments /\ \A docs \in AllDocuments : DocumentsAreListed(docs)

(* The lexical order of ids is one of all of them. *)
ASSUME IdsAssumption ==
    /\ IdOrder \in Seq(ToSet(IdOrder)) /\ IsInjective(IdOrder)
    /\ \A rs \in AllRealizationLists : ToSet(Ids(rs)) \subseteq ToSet(IdOrder)

(* No value is neither an exception nor a document of evidence. *)
Testable(docs, theory) == {r \in ToSet(Normalized(docs, theory)) : r.operations.transition \in TransitionNames}
BodiesFrom(docs, theory) ==
    UNION {{Tested(theory, r, s) : s \in ToSet(docs.suites)} : r \in Testable(docs, theory)}
Bodies ==
    UNION {BodiesFrom(docs, NormalizeTheory(docs.theory)) :
             docs \in {d \in AllDocuments : NormalizeTheory(d.theory) # Failed}}

ASSUME NoneAssumption ==
    /\ None # Failed
    /\ None \notin [identity : Bodies, body : Bodies, summary : {Summary(b) : b \in Bodies}]

(* What the authored cases are: the reference does what each one expects, and *)
(* a realization that ignores the stock exactly what those expect that do not *)
(* mind it (tests/inventory-tracer.test.ts).                                *)
ASSUME CasesAssumption ==
    \A id \in DOMAIN CaseOf :
        /\ CaseResults[<<id, "reference">>].passed
        /\ CaseResults[<<id, "broken">>].passed = ~MindsStock(CaseOf[id])

Earned(docs, r, outs) ==
    /\ r.theory = docs.theory.id
    /\ \E ob \in ToSet(docs.theory.obligations), rule \in Range(docs.policy.requirements),
          suite \in {o.result.body.recipe : o \in {x \in ToSet(outs) : x.id = r.id /\ x.ok}} :
          /\ docs.theory.obligations = <<ob>>
          /\ ob \in DOMAIN docs.policy.requirements /\ rule = docs.policy.requirements[ob]
          /\ EvidenceCategory \in rule.accepted_categories
          /\ rule.allow_assumptions \/ (r.assumptions = {} /\ suite.assumptions = {})
          /\ suite.obligation = ob
          /\ r.operations.transition = "reference" \/ \A id \in ToSet(suite.cases) : ~MindsStock(CaseOf[id])

(* A claim selects a realization exactly when it is the only one of the       *)
(* documents resolved that earned it: it targets the theory, its one          *)
(* obligation is governed by a rule that takes such evidence and assumptions, *)
(* and the suite its evidence was produced by tells it from a realization     *)
(* that ignores the stock.  Neither late, lost, rebound nor altered outcomes  *)
(* change that (resolver.ts, evidence.ts, domain.ts).                         *)
SelectionIsEarned ==
    \A k \in ToSet(claims) :
        LET earners == {r.id : r \in {x \in ToSet(k.documents.realizations) : Earned(k.documents, x, k.outcomes)}}
        IN /\ (k.claim.status = "selected") = (Cardinality(earners) = 1)
           /\ k.claim.selected # None => earners = {k.claim.selected.id}
           /\ k.execution # None => {k.execution.by} = earners

Decision(claim) == <<claim.status, claim.selected, claim.selected_assumptions>>

Spliced(a, b, field) == [a EXCEPT ![field] = b[field]]

(* The counted summary of the evidence is another document's. *)
Recounted(a, b) ==
    [a EXCEPT !.candidates = [i \in DOMAIN @ |->
        IF i \in DOMAIN b.candidates /\ b.candidates[i].evidence # None /\ @[i].evidence # None
        THEN [@[i] EXCEPT !.evidence.summary = b.candidates[i].evidence.summary] ELSE @[i]]]

(* A claim that is written and read again is the same claim; a document with  *)
(* one field taken from another claim either does not read, or tells the      *)
(* decision of the claim its candidates come from; and with another claim's   *)
(* counts, it does not read unless they are the same (resolution-claim.ts,    *)
(* evidence-result.ts).                                                       *)
ClaimsReadBack ==
    \A i, j \in DOMAIN claims :
        LET a == ResolutionClaimToJson(claims[i].claim)
            b == ResolutionClaimToJson(claims[j].claim)
        IN /\ ParseResolutionClaim(Recounted(a, b)) \in {claims[i].claim, Failed}
           /\ i = j => ParseResolutionClaim(a) = claims[i].claim
           /\ i # j => \A field \in DOMAIN a \ {"candidates"} :
                 \E read \in {ParseResolutionClaim(Spliced(a, b, field))} :
                    read # Failed => Decision(read) = Decision(claims[i].claim)
           /\ i # j => \E read \in {ParseResolutionClaim(Spliced(a, b, "candidates"))} :
                 read # Failed => Decision(read) = Decision(claims[j].claim)
=============================================================================
