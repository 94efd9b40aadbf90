----------------------------- MODULE PolicyChecker -----------------------------
(* The independent-checker experiment                                          *)
(* (src/research/experiments/independent-checker-policy): a production side    *)
(* that adjudicates packets under tables of rules and writes a claim, and a    *)
(* checker, authored apart from it, that reads a claim against the documents   *)
(* and packets it is given and lists what does not agree.  The two share only  *)
(* the tables.  Documents, packets and claims are those of TracerResolution.   *)
EXTENDS TracerResolution

VARIABLE house      \* whose programs run: "tracer" or "experiment"

RequestedTheory == FirstDocuments.theory.id
-----------------------------------------------------------------------------
(* The tables (policy-contract.ts). *)
Rule(check, reason, dependsOn) == [check |-> check, reason |-> reason, dependsOn |-> dependsOn]

PRECONDITION_RULES ==
    <<Rule("targets_theory", "theory_mismatch", None),
      Rule("obligation_declared", "required_obligation_set_unsupported", None),
      Rule("producer_ok", None, None),
      Rule("evidence_obligation_match", "evidence_obligation_mismatch", None)>>

REQUIREMENT_RULES ==
    {Rule("requirement_governed", "obligation_not_governed", None),
     Rule("category_accepted", "evidence_category_not_accepted", "requirement_governed"),
     Rule("assumptions_allowed", "assumptions_not_allowed", "requirement_governed"),
     Rule("conformance_passed", "conformance_failed", None)}

TERMINAL_RULES == [zero |-> "rejected", one |-> "selected", many |-> "rejected"]

EligibleCount(n) == IF n = 0 THEN "zero" ELSE IF n = 1 THEN "one" ELSE "many"
-----------------------------------------------------------------------------
(* The production side (production.ts).  Its theory identity forgets the id   *)
(* only: the order and the display fields of the declarations count.          *)
AuthoredTheory(d) ==
    [id |-> d.id,
     identity |-> [normalization |-> d.normalization, laws |-> d.laws, obligations |-> d.obligations],
     obligation |-> IF Len(d.obligations) = 1 THEN d.obligations[1] ELSE None]

AuthoredRealization(d, theory) ==
    [id |-> d.id,
     identity |-> [theory |-> theory.identity, operations |-> d.operations, assumptions |-> d.assumptions],
     targets |-> d.theory = theory.id,
     operations |-> d.operations,
     assumptions |-> d.assumptions]

Authored(docs, theory) ==
    [i \in DOMAIN docs.realizations |-> AuthoredRealization(docs.realizations[i], theory)]

(* A packet's aggregates are not read on this side. *)
ParsePacket(o) ==
    o.ok => /\ o.result.body.category = EvidenceCategory
            /\ o.result.body.cases # <<>>
            /\ \A c \in ToSet(o.result.body.cases) : c.passed = (c.detail = None)
            /\ IsInjective(Ids(o.result.body.cases))
            /\ o.result.identity = o.result.body

PacketsBind(realizations, outs) ==
    /\ IsInjective(Ids(realizations))
    /\ IsInjective(Ids(outs))
    /\ ToSet(Ids(outs)) = ToSet(Ids(realizations))
    /\ \A r \in ToSet(realizations) : \E o \in {OutcomeOf(outs, r.id)} :
          o.identity = r.identity /\ (o.ok => o.result.body.realization = r.identity)

EvaluatePrecondition(check, theory, r, o) ==
    CASE check = "targets_theory" -> r.targets
      [] check = "obligation_declared" -> theory.obligation # None
      [] check = "producer_ok" -> o.ok
      [] OTHER -> o.ok /\ o.result.body.obligation = theory.obligation

EvaluateRequirement(check, policy, r, body) ==
    CASE check = "requirement_governed" -> body.obligation \in DOMAIN policy.requirements
      [] check = "category_accepted" ->
           body.category \in policy.requirements[body.obligation].accepted_categories
      [] check = "assumptions_allowed" ->
           \/ body.assumptions = {} /\ r.assumptions = {}
           \/ policy.requirements[body.obligation].allow_assumptions
      [] OTHER -> body.cases # <<>> /\ \A c \in ToSet(body.cases) : c.passed

AdjudicateRequirements(policy, r, result) ==
    Candidate(r, result, None,
        {rule.reason : rule \in {x \in REQUIREMENT_RULES :
            /\ x.dependsOn = None \/ EvaluateRequirement(x.dependsOn, policy, r, result.body)
            /\ ~EvaluateRequirement(x.check, policy, r, result.body)}})

AdjudicateCandidate(theory, r, o, policy) ==
    LET first == SelectInSeq(PRECONDITION_RULES, LAMBDA x : ~EvaluatePrecondition(x.check, theory, r, o))
    IN IF first = 0 THEN AdjudicateRequirements(policy, r, o.result)
       ELSE Candidate(r, None, o.diagnostic,
              {IF PRECONDITION_RULES[first].reason = None THEN DiagnosticReason(o.diagnostic)
               ELSE PRECONDITION_RULES[first].reason})

Coherent(c) == (c.evidence = None) # (c.diagnostic = None) /\ c.eligible = (c.reasons = {})

AssembleClaim(theory, policy, candidates, winners) ==
    LET status == TERMINAL_RULES[EligibleCount(Cardinality(winners))]
    IN IF \E c \in ToSet(candidates) : ~Coherent(c) THEN Failed
       ELSE [theory |-> [id |-> theory.id, identity |-> theory.identity],
             required_obligation |-> theory.obligation,
             policy |-> [id |-> policy.id, content_identity |-> policy],
             candidates |-> SortedById(candidates),
             status |-> status,
             selected |-> IF status = "selected" THEN Subject(TheOne(winners)) ELSE None,
             selected_assumptions |-> IF status = "selected" THEN Projection(TheOne(winners)) ELSE {}]

AdjudicateAll(theory, policy, candidates) ==
    AssembleClaim(theory, policy, candidates, Eligible(candidates))

AdjudicateFor(theory, realizations, docs, outs) ==
    IF /\ theory.id = RequestedTheory
       /\ docs.policy.ambiguity = "reject"
       /\ \A o \in ToSet(outs) : ParsePacket(o)
       /\ PacketsBind(realizations, outs)
    THEN AdjudicateAll(theory, docs.policy, [i \in DOMAIN realizations |->
            AdjudicateCandidate(theory, realizations[i], OutcomeOf(outs, realizations[i].id), docs.policy)])
    ELSE Failed

Adjudicate(docs, outs) ==
    AdjudicateFor(AuthoredTheory(docs.theory), Authored(docs, AuthoredTheory(docs.theory)), docs, outs)
-----------------------------------------------------------------------------
(* The checker (checker.ts), authored apart: its own reading of documents,    *)
(* packets and claims, its own interpreter of the tables.                     *)
RecomputeTheory(d) ==
    [id |-> d.id, identity |-> [f \in DOMAIN d \ {"id"} |-> d[f]],
     obligation |-> IF Len(d.obligations) = 1 THEN d.obligations[1] ELSE None]

RecomputeRealization(d, theory) ==
    [id |-> d.id,
     identity |-> [f \in (DOMAIN d \ {"id", "theory"}) \cup {"theory"} |->
                     IF f = "theory" THEN theory.identity ELSE d[f]],
     targets |-> d.theory = theory.id,
     assumptions |-> d.assumptions]

(* Unlike the production side, the checker recounts the packet's aggregates,  *)
(* but not the counterexamples listed beside them.                            *)
ReadEvidence(doc) ==
    /\ doc.body.category = EvidenceCategory
    /\ doc.body.cases # <<>>
    /\ \A c \in ToSet(doc.body.cases) : c.passed = (c.detail = None)
    /\ IsInjective(Ids(doc.body.cases))
    /\ doc.identity = doc.body
    /\ doc.summary.passed = (\A c \in ToSet(doc.body.cases) : c.passed)
    /\ doc.summary.total_cases = Len(doc.body.cases)
    /\ doc.summary.passed_cases = Cardinality({c \in ToSet(doc.body.cases) : c.passed})

ReadPacket(o) == o.ok => ReadEvidence(EvidenceToJson(o.result))

ReadClaim(doc) ==
    /\ \A c \in ToSet(doc.candidates) :
          /\ c.evidence # None => ReadEvidence(c.evidence)
          /\ c.diagnostic # None => c.diagnostic \in DiagnosticKinds
    /\ IsInjective(Ids(doc.candidates))
    /\ doc.status \in {"selected", "rejected"}

CheckPrecondition(check, theory, r, o) ==
    \/ check = "targets_theory" /\ r.targets
    \/ check = "obligation_declared" /\ theory.obligation # None
    \/ check = "producer_ok" /\ o.ok
    \/ check = "evidence_obligation_match" /\ o.ok /\ o.result.body.obligation = theory.obligation

CheckRequirement_Fault(check, policy, r, body) ==
    \/ check = "requirement_governed" /\ body.obligation \in DOMAIN policy.requirements
    \/ check = "category_accepted" /\ body.category \in policy.requirements[body.obligation].accepted_categories
    \/ check = "assumptions_allowed" /\ (body.assumptions # {} => policy.requirements[body.obligation].allow_assumptions)
    \/ check = "conformance_passed" /\ \A c \in ToSet(body.cases) : c.passed

CheckRequirement(check, policy, r, body) ==
    \/ check = "requirement_governed" /\ body.obligation \in DOMAIN policy.requirements
    \/ check = "category_accepted" /\ body.category \in policy.requirements[body.obligation].accepted_categories
    \/ /\ check = "assumptions_allowed"
       /\ body.assumptions \cup r.assumptions # {} => policy.requirements[body.obligation].allow_assumptions
    \/ check = "conformance_passed" /\ \A c \in ToSet(body.cases) : c.passed

RecomputeReasons(theory, r, o, policy) ==
    LET broken == {i \in DOMAIN PRECONDITION_RULES :
                     ~CheckPrecondition(PRECONDITION_RULES[i].check, theory, r, o)}
        first  == CHOOSE i \in broken : \A j \in broken : i <= j
    IN IF broken = {}
       THEN {rule.reason : rule \in {x \in REQUIREMENT_RULES :
               /\ x.dependsOn # None => CheckRequirement(x.dependsOn, policy, r, o.result.body)
               /\ ~CheckRequirement(x.check, policy, r, o.result.body)}}
       ELSE {IF PRECONDITION_RULES[first].reason = None THEN DiagnosticReason(o.diagnostic)
             ELSE PRECONDITION_RULES[first].reason}

CandidateViolations(c, r, o, theory, reasons) ==
    When(o.identity # r.identity, "packet_subject_stale")
    \cup When(o.ok /\ o.result.body.realization # r.identity, "evidence_subject_stale")
    \cup When(o.ok /\ o.result.body.theory # theory.identity, "evidence_theory_stale")
    \cup When(c.identity # r.identity, "candidate_realization_identity_stale")
    \cup When(c.targets # r.targets, "candidate_targets_theory_stale")
    \cup When(c.assumptions # r.assumptions, "candidate_assumptions_stale")
    \cup When((c.evidence = None) = (c.diagnostic = None), "evidence_diagnostic_exclusivity")
    \cup When(o.ok /\ c.evidence # None /\ c.evidence.body.recipe # o.result.body.recipe,
              "recipe_identity_not_propagated")
    \cup When(o.ok /\ c.evidence # None /\ c.evidence.identity # o.result.identity, "candidate_evidence_stale")
    \cup When(c.eligible # (reasons = {}), "eligibility_stale")
    \cup When(c.reasons # reasons, "reason_set_stale")

(* What is decided over again, from the packets of the claim's candidates. *)
DecisionViolations(claim, winners) ==
    LET status   == TERMINAL_RULES[EligibleCount(Cardinality(winners))]
        selected == status = "selected"
    IN When(claim.status # status, "status_stale")
       \cup When(claim.selected # (IF selected THEN Subject(TheOne(winners).r) ELSE None), "selected_stale")
       \cup When(claim.selected_assumptions #
                   (IF selected THEN TheOne(winners).r.assumptions \cup TheOne(winners).o.result.body.assumptions
                    ELSE {}),
                 "selected_assumptions_stale")

HeaderViolations(claim, theory, policy) ==
    When(theory.id # RequestedTheory, "theory_id_mismatch")
    \cup When(claim.theory.id # theory.id, "theory_id_stale")
    \cup When(claim.theory.identity # theory.identity, "theory_identity_stale")
    \cup When(claim.required_obligation # theory.obligation, "required_obligation_stale")
    \cup When(policy.ambiguity # "reject", "unsupported_ambiguity_policy")
    \cup When(claim.policy.id # policy.id, "policy_id_stale")
    \cup When(claim.policy.content_identity # policy, "policy_content_identity_stale")

CoverageViolations(claim, realizations, outs) ==
    LET authored == ToSet(Ids(realizations))  claimed == ToSet(Ids(claim.candidates))  packed == ToSet(Ids(outs))
    IN When(~IsInjective(Ids(realizations)), "duplicate_authored_realization")
       \cup When(~(authored \subseteq claimed), "missing_candidate")
       \cup When(~(claimed \subseteq authored), "foreign_candidate")
       \cup When(~IsInjective(Ids(outs)), "duplicate_evidence_packet")
       \cup When(~(packed \subseteq authored), "foreign_evidence_packet")
       \cup When(~(authored \subseteq packed), "missing_evidence_packet")

(* A candidate with the realization and the packet of its id: of two          *)
(* realizations the last, of two packets the first. *)
RealizationOf(realizations, id) == realizations[SelectLastInSeq(realizations, LAMBDA r : r.id = id)]

JudgedCandidate(c, r, o, theory, policy) ==
    [id |-> c.id, c |-> c, r |-> r, o |-> o, reasons |-> RecomputeReasons(theory, r, o, policy)]

Judged(claim, realizations, outs, theory, policy) ==
    {JudgedCandidate(c, RealizationOf(realizations, c.id), OutcomeOf(outs, c.id), theory, policy) :
        c \in {x \in ToSet(claim.candidates) : x.id \in ToSet(Ids(realizations)) \cap ToSet(Ids(outs))}}

Amiss(judged, theory) == UNION {CandidateViolations(j.c, j.r, j.o, theory, j.reasons) : j \in judged}
EligibleAgain(judged) == {j \in judged : j.reasons = {}}

Violations(claim, realizations, outs, theory, policy, judged) ==
    HeaderViolations(claim, theory, policy)
    \cup CoverageViolations(claim, realizations, outs)
    \cup Amiss(judged, theory)
    \cup DecisionViolations(claim, EligibleAgain(judged))

CompareWith(claim, theory, realizations, docs, outs) ==
    IF ~ReadClaim(claim) THEN {"malformed_claim"}
    ELSE IF \E o \in ToSet(outs) : ~ReadPacket(o) THEN {"malformed_authored_input"}
    ELSE Violations(claim, realizations, outs, theory, docs.policy,
                    Judged(claim, realizations, outs, theory, docs.policy))

Compare(docs, outs, claim) ==
    \* the documents are read once, as in parseAuthoredInput
    LET theory == RecomputeTheory(docs.theory)
    IN CompareWith(claim, theory,
                   [i \in DOMAIN docs.realizations |-> RecomputeRealization(docs.realizations[i], theory)],
                   docs, outs)
-----------------------------------------------------------------------------
(* Packets are made as the experiment's fixtures make them: by the tracer's   *)
(* rules, for the identities of the experiment. *)
Readdressed(d, suite, theory) ==
    IF NormalizeTheory(d) # Failed /\ suite.theory_identity = NormalizeTheory(d).identity
    THEN [suite EXCEPT !.theory_identity = theory.identity] ELSE suite

PacketSuites(docs, theory) == [i \in DOMAIN docs.suites |-> Readdressed(docs.theory, docs.suites[i], theory)]

MakePacket(theory) ==
    Collect({ProduceEvidence(theory, r, PacketSuites(documents, theory)) : r \in ToSet(Authored(documents, theory))})

Adjudication ==
    /\ outcomes # <<>> /\ claims = <<>>
    /\ Record(Adjudicate(documents, outcomes), outcomes, None)

CheckerTransport ==
    \/ LoseOutcome
    \/ RebindOutcome(Authored(documents, AuthoredTheory(documents.theory)))
    \/ AlterOutcome

CheckerInit == TracerInit /\ house \in {"tracer", "experiment"}

InTracer == house = "tracer" /\ UNCHANGED house
InExperiment == house = "experiment" /\ UNCHANGED house

CheckerNext ==
    \/ InTracer /\ TracerNext
    \/ InExperiment /\ Edits
    \/ InExperiment /\ MakePacket(AuthoredTheory(documents.theory))
    \/ InExperiment /\ CheckerTransport
    \/ InExperiment /\ Adjudication

checkerVars == <<tracerVars, house>>

CheckerSpec == CheckerInit /\ [][CheckerNext]_checkerVars

Undiagnosed(claim) ==
    [claim EXCEPT !.candidates = [i \in DOMAIN @ |-> [@[i] EXCEPT !.diagnostic = None]]]

(* The documents have the fields that each side hashes. *)
ASSUME FieldsAssumption ==
    \A docs \in AllDocuments :
        /\ DOMAIN docs.theory = {"id", "normalization", "laws", "obligations"}
        /\ \A r \in ToSet(docs.realizations) : DOMAIN r = {"id", "theory", "operations", "assumptions"}
        /\ \A s \in ToSet(docs.suites) : {"cases", "theory_identity"} \subseteq DOMAIN s

(* No value is neither a reason nor a document of a packet's evidence. *)
PacketsFrom(docs, theory) ==
    UNION {{Tested(theory, r, s) : s \in ToSet(PacketSuites(docs, theory))} :
             r \in {x \in ToSet(Authored(docs, theory)) : x.operations.transition \in TransitionNames}}
PacketBodies == UNION {PacketsFrom(docs, AuthoredTheory(docs.theory)) : docs \in AllDocuments}

ASSUME NoPacketAssumption ==
    /\ None \notin {PRECONDITION_RULES[i].reason : i \in {1, 2, 4}}
    /\ None \notin [identity : PacketBodies, body : PacketBodies, summary : {Summary(b) : b \in PacketBodies}]

(* The two sides agree: what production writes, the checker accepts; and a    *)
(* claim the checker accepts, whatever was edited, lost or altered since, is  *)
(* the one production would write now, if it writes any, up to the            *)
(* diagnostics, which the checker does not compare.                           *)
CheckerAgrees ==
    house = "experiment" =>
        \A now \in {Adjudicate(documents, outcomes)} :
            /\ now # Failed => Compare(documents, outcomes, ResolutionClaimToJson(now)) = {}
            /\ \A k \in ToSet(claims) :
                  now # Failed /\ Compare(documents, outcomes, ResolutionClaimToJson(k.claim)) = {}
                    => Undiagnosed(k.claim) = Undiagnosed(now)
=============================================================================
