---------------------------- MODULE ReadBackProofs ----------------------------
(* What is written and read back.  Part 1: every report of the observation    *)
(* driver passes the reader's test, for every script, every backend and every *)
(* answer a backend may give.  Part 2: the tracer's claims select what earned *)
(* it, whatever happened to the documents and the outcomes.  Part 3: the      *)
(* independent checker and the production side agree on claims.               *)
EXTENDS ObservationReplay, PolicyChecker, SequenceTheorems, FiniteSetTheorems, TLAPS

(* While the driver runs, every request so far was answered: a request that   *)
(* is not answered ends the run.                                              *)
ReplayInv ==
    /\ script \in Seq(Values)
    /\ requests \in Seq(Requests)
    /\ applied \in 0..Len(script)
    /\ report = NoReport => Len(requests) = applied
    /\ ReplayFits

LEMMA ReplayInvInit == ReplayInit => ReplayInv
  BY DEF ReplayInit, ReplayInv, ReplayFits

(* A run that stops at a request is rejected or suspended; either report fits.*)
LEMMA AskedFits ==
  ASSUME ReplayInv, report = NoReport, UNCHANGED script,
         NEW request \in Requests, NEW result, AskAndReport(request, result),
         \/ result = [tag |-> "suspended", request |-> request] /\ Unanswered
         \/ \E code : result = DriverRejected(code) /\ ~Unanswered
  PROVE  ReplayInv'
  <1>1. /\ requests' \in Seq(Requests)
        /\ Len(requests') = applied + 1
        /\ requests'[Len(requests')] = request
    BY DEF ReplayInv, AskAndReport
  <1>2. /\ report'.provided = Len(script) /\ report'.applied = applied
        /\ report'.requests = requests' /\ report'.result = result
        /\ report' # NoReport
    BY DEF AskAndReport, Report, NoReport
  <1>3. applied \in 0..Len(script) /\ applied' = applied /\ Len(script) \in Nat
    BY DEF ReplayInv, AskAndReport
  <1>4. CASE result = [tag |-> "suspended", request |-> request] /\ Unanswered
    <2>1. result.tag = "suspended" /\ result.request = request /\ applied = Len(script)
      BY <1>4 DEF Unanswered
    <2>2. Fits(report')
      BY <1>1, <1>2, <1>3, <2>1 DEF Fits
    <2>3. QED BY <1>1, <1>2, <1>3, <2>2 DEF ReplayInv, ReplayFits
  <1>5. CASE \E code : result = DriverRejected(code) /\ ~Unanswered
    <2>1. result.tag = "runtime-rejected" /\ applied # Len(script)
      BY <1>5 DEF DriverRejected, Unanswered
    <2>2. Fits(report')
      BY <1>1, <1>2, <1>3, <2>1 DEF Fits
    <2>3. QED BY <1>1, <1>2, <1>3, <2>2 DEF ReplayInv, ReplayFits
  <1>6. QED BY <1>4, <1>5

(* A run that ends by itself has every request answered.                      *)
LEMMA EndedFits ==
  ASSUME ReplayInv, report = NoReport, UNCHANGED <<script, requests, applied>>, NEW result,
         report' = Report(requests, applied, result),
         result.tag # "suspended",
         result.tag \in {"representation-rejected", "check-rejected"} => requests = << >>
  PROVE  ReplayInv'
  <1>1. /\ report'.provided = Len(script) /\ report'.applied = applied
        /\ report'.requests = requests /\ report'.result = result
        /\ report' # NoReport
    BY DEF Report, NoReport
  <1>2. applied \in 0..Len(script) /\ Len(script) \in Nat /\ Len(requests) = applied
    BY DEF ReplayInv
  <1>3. Fits(report')
    BY <1>1, <1>2 DEF Fits
  <1>4. QED BY <1>1, <1>2, <1>3 DEF ReplayInv, ReplayFits

LEMMA ReplayInvStep == ReplayInv /\ [ReplayNext]_replayVars => ReplayInv'
  <1> SUFFICES ASSUME ReplayInv, [ReplayNext]_replayVars PROVE ReplayInv'
    OBVIOUS
  <1>1. ASSUME NEW request \in Requests, StopForObservation(request) PROVE ReplayInv'
    BY <1>1, AskedFits DEF StopForObservation, Driving
  <1>2. ASSUME NEW request \in Requests, RefuseThunk(request) PROVE ReplayInv'
    BY <1>2, AskedFits DEF RefuseThunk, Driving
  <1>3. ASSUME NEW request \in Requests, RefuseType(request) PROVE ReplayInv'
    BY <1>3, AskedFits DEF RefuseType, Driving
  <1>4. ASSUME NEW request \in Requests, ApplyObservation(request) PROVE ReplayInv'
    <2>1. applied' = applied + 1 /\ applied # Len(script) /\ script' = script
      BY <1>4 DEF ApplyObservation, Driving, Answerable, Unanswered
    <2>2. requests' \in Seq(Requests) /\ Len(requests') = applied + 1
      BY <1>4 DEF ApplyObservation, Driving, ReplayInv
    <2>3. report' = NoReport
      BY <1>4 DEF ApplyObservation, Driving
    <2>4. applied' \in 0..Len(script)
      BY <2>1 DEF ReplayInv
    <2>5. QED BY <2>1, <2>2, <2>3, <2>4 DEF ReplayInv, ReplayFits
  <1>5. ASSUME NEW request \in Requests, NEW code, NotApplied(request, code) PROVE ReplayInv'
    BY <1>5, AskedFits DEF NotApplied, Driving, Answerable
  <1>6. ASSUME NEW result, ReportResult(result) PROVE ReplayInv'
    BY <1>6, EndedFits DEF ReportResult, Driving
  <1>7. ASSUME NEW result, RejectProgram(result) PROVE ReplayInv'
    BY <1>7, EndedFits DEF RejectProgram, Driving
  <1>8. CASE DriveNext
    BY <1>8 DEF DriveNext, ReplayInv, ReplayFits
  <1>9. CASE UNCHANGED replayVars
    BY <1>9 DEF replayVars, ReplayInv, ReplayFits, Fits
  <1>10. QED
    BY <1>1, <1>2, <1>3, <1>4, <1>5, <1>6, <1>7, <1>8, <1>9 DEF ReplayNext

(* Every report the driver makes passes the reader's test of it, whatever the *)
(* script and whatever the two backends ask and answer.                       *)
THEOREM ReportsFit == ReplaySpec => []ReplayFits
  <1>1. ReplayInv => ReplayFits
    BY DEF ReplayInv
  <1>2. QED BY ReplayInvInit, ReplayInvStep, <1>1, PTL DEF ReplaySpec
-----------------------------------------------------------------------------
(* Part 2.  The tracer.                                                       *)
(* ---- what is one among many ------------------------------------------------ *)
LEMMA OutcomeOfIs ==
    ASSUME NEW T, NEW outs \in Seq(T), IsInjective(Ids(outs)), NEW j \in DOMAIN outs
    PROVE  OutcomeOf(outs, outs[j].id) = outs[j]
<1> DEFINE I == {i \in 1 .. Len(outs) : outs[i].id = outs[j].id}
<1>1. DOMAIN outs = 1 .. Len(outs) /\ j \in Nat
  OBVIOUS
<1>2. \A i \in DOMAIN outs : outs[i].id = outs[j].id => i = j
  BY DEF IsInjective, Ids
<1>3. I = {j}
  BY <1>1, <1>2
<1>4. Min({j}) = j
  BY <1>1 DEF Min
<1>5. SelectInSeq(outs, LAMBDA o : o.id = outs[j].id) = j
  BY <1>3, <1>4 DEF SelectInSeq
<1> QED BY <1>5 DEF OutcomeOf

LEMMA AllCounted ==
    ASSUME NEW T, NEW seq \in Seq(T), NEW S \in SUBSET DOMAIN seq
    PROVE  (Cardinality(S) = Len(seq)) = (S = DOMAIN seq)
<1>1. PICK n \in Nat : n = Len(seq)
  OBVIOUS
<1>2. DOMAIN seq = 1 .. n
  BY <1>1
<1>3. IsFiniteSet(1 .. n) /\ Cardinality(1 .. n) = n
  BY FS_Interval
<1>4. Cardinality(S) = n => S = 1 .. n
  BY <1>2, <1>3, FS_Subset
<1> QED BY <1>1, <1>2, <1>3, <1>4

LEMMA SequenceOf ==
    ASSUME NEW T, NEW n \in Nat, NEW f \in [1 .. n -> T]
    PROVE  f \in Seq(T) /\ Len(f) = n
<1> QED OBVIOUS

LEMMA ListedFinite ==
    ASSUME NEW T, NEW seq \in Seq(T)
    PROVE  IsFiniteSet(ToSet(seq))
<1>1. Len(seq) \in Nat /\ DOMAIN seq = 1 .. Len(seq) /\ seq \in [1 .. Len(seq) -> ToSet(seq)]
  BY DEF ToSet
<1>2. IsFiniteSet(1 .. Len(seq))
  BY <1>1, FS_Interval
<1>3. seq \in Surjection(1 .. Len(seq), ToSet(seq))
  BY <1>1 DEF Surjection, ToSet
<1> QED BY <1>2, <1>3, FS_Surjection

(* ---- evidence ------------------------------------------------------------- *)
(* Evidence passes when every case does, and there is one.                    *)
LEMMA PassedIff ==
    ASSUME NEW T, NEW body, body.cases \in Seq(T)
    PROVE  EvidencePassed(body) <=> body.cases # <<>> /\ \A i \in DOMAIN body.cases : body.cases[i].passed
<1>1. PICK cases : cases = body.cases
  OBVIOUS
<1>2. cases \in Seq(T)
  BY <1>1
<1>3. PassedCases(body) \in SUBSET DOMAIN cases
  BY <1>1 DEF PassedCases
<1>4. (Cardinality(PassedCases(body)) = Len(cases)) = (PassedCases(body) = DOMAIN cases)
  BY <1>2, <1>3, AllCounted
<1>5. (PassedCases(body) = DOMAIN cases) <=> \A i \in DOMAIN cases : cases[i].passed
  BY <1>1 DEF PassedCases
<1> QED BY <1>1, <1>4, <1>5 DEF EvidencePassed

(* An artifact as it was minted: what a suite found of a realization that     *)
(* names one of the two transitions.                                          *)
MintedFrom(body, realization, suite) ==
    /\ body = [category |-> EvidenceCategory, recipe |-> suite, theory |-> body.theory,
               realization |-> realization, obligation |-> suite.obligation,
               assumptions |-> suite.assumptions,
               cases |-> [i \in DOMAIN suite.cases |->
                            CaseResults[<<suite.cases[i], realization.operations.transition>>]]]
    /\ realization.operations.transition \in TransitionNames
    /\ suite.cases # <<>> /\ suite.cases \in Seq(DOMAIN CaseOf)
Authentic(body) == MintedFrom(body, body.realization, body.recipe)

LEMMA AuthenticPasses ==
    ASSUME NEW body, Authentic(body)
    PROVE  EvidencePassed(body) <=>
              \/ body.realization.operations.transition = "reference"
              \/ \A id \in ToSet(body.recipe.cases) : ~MindsStock(CaseOf[id])
<1>1. PICK cases, name, ids : cases = body.cases /\ name = body.realization.operations.transition /\ ids = body.recipe.cases
  OBVIOUS
<1>2. /\ cases = [i \in DOMAIN ids |-> CaseResults[<<ids[i], name>>]]
      /\ name \in {"reference", "broken"}
      /\ ids # <<>> /\ ids \in Seq(DOMAIN CaseOf)
  BY <1>1 DEF Authentic, MintedFrom, TransitionNames
<1>3. cases \in Seq(Range(cases)) /\ cases # <<>> /\ DOMAIN cases = DOMAIN ids
  <2>1. DOMAIN ids = 1 .. Len(ids) /\ Len(ids) \in Nat
    BY <1>2
  <2>2. PICK n \in Nat : n = Len(ids)
    BY <2>1
  <2>3. cases \in [1 .. n -> Range(cases)]
    BY <1>2, <2>1, <2>2 DEF Range
  <2>4. cases \in Seq(Range(cases)) /\ Len(cases) = n
    BY <2>3
  <2> QED BY <1>2, <2>1, <2>2, <2>4
<1>4. EvidencePassed(body) <=> \A i \in DOMAIN ids : cases[i].passed
  BY <1>1, <1>3, PassedIff
<1>5. \A i \in DOMAIN ids : ids[i] \in DOMAIN CaseOf
  BY <1>2
<1>6. ASSUME name = "reference"
      PROVE  \A i \in DOMAIN ids : cases[i].passed
  BY <1>2, <1>5, <1>6, CasesAssumption
<1>7. ASSUME name = "broken"
      PROVE  (\A i \in DOMAIN ids : cases[i].passed) <=> \A id \in ToSet(ids) : ~MindsStock(CaseOf[id])
  <2>1. \A i \in DOMAIN ids : cases[i].passed = ~MindsStock(CaseOf[ids[i]])
    BY <1>2, <1>5, <1>7, CasesAssumption
  <2>2. ToSet(ids) = {ids[i] : i \in DOMAIN ids}
    BY DEF ToSet
  <2> QED BY <2>1, <2>2
<1>8. "reference" # "broken"
  OBVIOUS
<1> QED BY <1>1, <1>2, <1>4, <1>6, <1>7, <1>8

(* ---- outcomes -------------------------------------------------------------- *)
(* An outcome, wherever it has been: it may be named for another realization  *)
(* and its body may be altered, but the identity of its result is the one it  *)
(* was minted with.                                                           *)
Genuine(o) ==
    /\ o = [ok |-> o.ok, id |-> o.id, identity |-> o.identity, result |-> o.result, diagnostic |-> o.diagnostic]
    /\ o.ok \in BOOLEAN
    /\ o.ok => /\ o.result = [identity |-> o.result.identity, body |-> o.result.body]
               /\ Authentic(o.result.identity) /\ o.result.identity \in Bodies
    /\ o.diagnostic \in DiagnosticKinds \cup {None}

LEMMA DiagnosedIsGenuine ==
    ASSUME NEW realization, NEW kind \in DiagnosticKinds
    PROVE  Genuine(Diagnosed(realization, kind))
<1> QED BY DEF Genuine, Diagnosed

LEMMA TestedIsAuthentic ==
    ASSUME NEW theory, NEW realization, NEW suite, suite.cases \in Seq(DOMAIN CaseOf), suite.cases # <<>>,
           realization.operations.transition \in TransitionNames,
           realization.identity.operations = realization.operations
    PROVE  Authentic(Tested(theory, realization, suite))
<1>1. PICK b : b = Tested(theory, realization, suite)
  OBVIOUS
<1>2. /\ b.recipe = suite /\ b.realization = realization.identity
      /\ b = [category |-> EvidenceCategory, recipe |-> suite, theory |-> theory.identity,
              realization |-> realization.identity, obligation |-> suite.obligation,
              assumptions |-> suite.assumptions, cases |-> ResultsOf(realization, suite)]
  BY <1>1 DEF Tested
<1>3. b.theory = theory.identity
  BY <1>2
<1>4. ResultsOf(realization, suite) =
        [i \in DOMAIN suite.cases |-> CaseResults[<<suite.cases[i], realization.identity.operations.transition>>]]
  BY DEF ResultsOf
<1>5. MintedFrom(b, realization.identity, suite)
  BY <1>2, <1>3, <1>4 DEF MintedFrom
<1> QED BY <1>1, <1>2, <1>5 DEF Authentic

LEMMA ProducedIsGenuine ==
    ASSUME NEW theory, NEW realization, realization.identity.operations = realization.operations,
           NEW suites, \A i \in DOMAIN suites : suites[i].cases \in Seq(DOMAIN CaseOf),
           realization.operations.transition \in TransitionNames =>
              \A i \in DOMAIN suites : Tested(theory, realization, suites[i]) \in Bodies,
           ProduceEvidence(theory, realization, suites) # Failed
    PROVE  Genuine(ProduceEvidence(theory, realization, suites))
<1> DEFINE matching == {i \in DOMAIN suites : suites[i].theory = theory.id}
           made == ProduceEvidence(theory, realization, suites)
<1>1. \A kind \in DiagnosticKinds : Genuine(Diagnosed(realization, kind))
  BY DiagnosedIsGenuine
<1>2. /\ "not_targeted" \in DiagnosticKinds /\ "obligation_unsupported" \in DiagnosticKinds
      /\ "missing_evidence" \in DiagnosticKinds /\ "ambiguous_evidence" \in DiagnosticKinds
      /\ "stale_evidence_recipe" \in DiagnosticKinds /\ "evidence_obligation_mismatch" \in DiagnosticKinds
      /\ "unbound_operation" \in DiagnosticKinds
  BY DEF DiagnosticKinds
<1>3. \/ \E kind \in DiagnosticKinds : made = Diagnosed(realization, kind)
      \/ made = ProduceMatching(theory, realization, suites, matching)
  BY <1>2 DEF ProduceEvidence
<1>4. ASSUME made = ProduceMatching(theory, realization, suites, matching)
      PROVE  \/ \E kind \in DiagnosticKinds : made = Diagnosed(realization, kind)
             \/ \E i \in matching : made = ProduceFrom(theory, realization, suites[i])
  BY <1>2, <1>4 DEF ProduceMatching
<1>5. ASSUME NEW suite, suite.cases \in Seq(DOMAIN CaseOf),
             realization.operations.transition \in TransitionNames => Tested(theory, realization, suite) \in Bodies,
             made = ProduceFrom(theory, realization, suite)
      PROVE  Genuine(made)
  <2>1. \/ \E kind \in DiagnosticKinds : made = Diagnosed(realization, kind)
        \/ /\ RecipeIsValid(suite, theory) /\ realization.operations.transition \in TransitionNames
           /\ made = Concluded(realization, RunConformance(theory, realization, suite))
    BY <1>2, <1>5 DEF ProduceFrom
  <2>2. ASSUME RecipeIsValid(suite, theory), realization.operations.transition \in TransitionNames,
               made = Concluded(realization, RunConformance(theory, realization, suite))
        PROVE  Genuine(made)
    <3>1. RunConformance(theory, realization, suite) # Failed
      BY <2>2 DEF Concluded
    <3>2. PICK result : result = RunConformance(theory, realization, suite)
      OBVIOUS
    <3>3. result = Minted(Tested(theory, realization, suite))
      BY <3>1, <3>2 DEF RunConformance
    <3>4. suite.cases # <<>>
      BY <2>2 DEF RecipeIsValid
    <3>5. Authentic(Tested(theory, realization, suite))
      BY <1>5, <2>2, <3>4, TestedIsAuthentic
    <3>6. /\ result.identity = Tested(theory, realization, suite)
          /\ result = [identity |-> result.identity, body |-> result.body]
      BY <3>3 DEF Minted
    <3>7. made = [ok |-> TRUE, id |-> realization.id, identity |-> realization.identity, result |-> result,
                  diagnostic |-> None]
      BY <2>2, <3>1, <3>2 DEF Concluded
    <3>8. Tested(theory, realization, suite) \in Bodies
      BY <1>5, <2>2
    <3> QED BY <3>5, <3>6, <3>7, <3>8 DEF Genuine
  <2> QED BY <1>1, <2>1, <2>2
<1> QED BY <1>1, <1>3, <1>4, <1>5

(* Evidence as it was minted, which a reader finds to be what it says.        *)
Kept(e) ==
    /\ e = [identity |-> e.body, body |-> e.body]
    /\ e.body \in Bodies /\ e # Failed /\ ParseEvidenceResult(EvidenceToJson(e)) = e

(* A result that is read as it is written has the body it was minted with.    *)
LEMMA ValidIsAuthentic ==
    ASSUME NEW o, Genuine(o), o.ok, OutcomeIsValid(o)
    PROVE  Authentic(o.result.body) /\ Kept(o.result)
<1>1. PICK doc : doc = EvidenceToJson(o.result)
  OBVIOUS
<1>2. doc.identity = o.result.identity /\ doc.body = o.result.body
  BY <1>1 DEF EvidenceToJson
<1>3. ParseEvidenceResult(doc) # Failed
  BY <1>1 DEF OutcomeIsValid
<1>4. doc.identity = doc.body /\ ParseEvidenceResult(doc) = [identity |-> doc.identity, body |-> doc.body]
  BY <1>3 DEF ParseEvidenceResult
<1>5. /\ o.result = [identity |-> o.result.identity, body |-> o.result.body]
      /\ Authentic(o.result.identity) /\ o.result.identity \in Bodies
  BY DEF Genuine
<1> QED BY <1>1, <1>2, <1>3, <1>4, <1>5 DEF Kept

(* ---- candidates ------------------------------------------------------------ *)
Accepted(theory, r, o, policy) ==
    /\ r.targets /\ theory.obligation # None /\ o.ok
    /\ o.result.body.obligation = theory.obligation
    /\ theory.obligation \in DOMAIN policy.requirements
    /\ o.result.body.category \in policy.requirements[theory.obligation].accepted_categories
    /\ \/ o.result.body.assumptions = {} /\ r.assumptions = {}
       \/ policy.requirements[theory.obligation].allow_assumptions
    /\ EvidencePassed(o.result.body)

LEMMA CandidateIs ==
    ASSUME NEW r, NEW evidence, NEW diagnostic, NEW reasons, NEW c,
           c = Candidate(r, evidence, diagnostic, reasons)
    PROVE  /\ c.id = r.id /\ c.identity = r.identity /\ c.assumptions = r.assumptions
           /\ c.evidence = evidence /\ c.diagnostic = diagnostic /\ c.reasons = reasons
           /\ c.eligible = (reasons = {})
           /\ c = [id |-> c.id, identity |-> c.identity, targets |-> c.targets, assumptions |-> c.assumptions,
                   evidence |-> c.evidence, diagnostic |-> c.diagnostic, eligible |-> c.eligible,
                   reasons |-> c.reasons]
<1> QED BY DEF Candidate

LEMMA NoReasons ==
    ASSUME NEW policy, NEW r, NEW body
    PROVE  (PolicyReasons(policy, r, body) \cup When(~EvidencePassed(body), "conformance_failed") = {})
           <=> /\ body.obligation \in DOMAIN policy.requirements
               /\ body.category \in policy.requirements[body.obligation].accepted_categories
               /\ \/ body.assumptions = {} /\ r.assumptions = {}
                  \/ policy.requirements[body.obligation].allow_assumptions
               /\ EvidencePassed(body)
<1>1. \A p, reason : (When(p, reason) = {}) <=> ~p
  BY DEF When
<1>2. \A S, T : (S \cup T = {}) <=> S = {} /\ T = {}
  OBVIOUS
<1>3. \A x : {x} # {}
  OBVIOUS
<1>4. (PolicyReasons(policy, r, body) = {})
      <=> /\ body.obligation \in DOMAIN policy.requirements
          /\ body.category \in policy.requirements[body.obligation].accepted_categories
          /\ \/ body.assumptions = {} /\ r.assumptions = {}
             \/ policy.requirements[body.obligation].allow_assumptions
  <2> DEFINE unlisted == body.category \notin policy.requirements[body.obligation].accepted_categories
             unallowed == /\ body.assumptions # {} \/ r.assumptions # {}
                          /\ ~policy.requirements[body.obligation].allow_assumptions
  <2>1. ASSUME body.obligation \notin DOMAIN policy.requirements PROVE PolicyReasons(policy, r, body) # {}
    BY <1>3, <2>1 DEF PolicyReasons
  <2>2. ASSUME body.obligation \in DOMAIN policy.requirements
        PROVE  (PolicyReasons(policy, r, body) = {}) <=> ~unlisted /\ ~unallowed
    <3>1. PolicyReasons(policy, r, body) =
            When(unlisted, "evidence_category_not_accepted") \cup When(unallowed, "assumptions_not_allowed")
      BY <2>2 DEF PolicyReasons
    <3>2. (When(unlisted, "evidence_category_not_accepted") = {}) <=> ~unlisted
      BY DEF When
    <3>3. (When(unallowed, "assumptions_not_allowed") = {}) <=> ~unallowed
      BY DEF When
    <3> HIDE DEF unlisted, unallowed
    <3> QED BY <1>2, <3>1, <3>2, <3>3, Zenon
  <2> QED BY <2>1, <2>2, Zenon
<1> QED BY <1>1, <1>2, <1>4, Zenon

LEMMA EvaluatedIs ==
    ASSUME NEW theory, NEW r, NEW o, Genuine(o), NEW policy, NEW c, c = EvaluateCandidate(theory, r, o, policy)
    PROVE  /\ c.id = r.id /\ c.identity = r.identity /\ c.eligible \in BOOLEAN
           /\ c.eligible <=> Accepted(theory, r, o, policy)
           /\ c.evidence = None \/ (o.ok /\ c.evidence = o.result)
           /\ c.diagnostic \in DiagnosticKinds \cup {None}
           /\ c = [id |-> c.id, identity |-> c.identity, targets |-> c.targets, assumptions |-> c.assumptions,
                   evidence |-> c.evidence, diagnostic |-> c.diagnostic, eligible |-> c.eligible,
                   reasons |-> c.reasons]
<1> DEFINE body == o.result.body
           reasons == PolicyReasons(policy, r, body) \cup When(~EvidencePassed(body), "conformance_failed")
<1>1. \/ /\ ~(r.targets /\ theory.obligation # None /\ o.ok /\ body.obligation = theory.obligation)
         /\ \E reason : c = Candidate(r, None, o.diagnostic, {reason})
      \/ /\ r.targets /\ theory.obligation # None /\ o.ok /\ body.obligation = theory.obligation
         /\ c = Candidate(r, o.result, None, reasons)
  BY Zenon DEF EvaluateCandidate
<1>2. o.diagnostic \in DiagnosticKinds \cup {None}
  BY DEF Genuine
<1>3. ASSUME NEW reason, c = Candidate(r, None, o.diagnostic, {reason}),
             ~(r.targets /\ theory.obligation # None /\ o.ok /\ body.obligation = theory.obligation)
      PROVE  /\ c.id = r.id /\ c.identity = r.identity /\ c.eligible = FALSE
             /\ ~Accepted(theory, r, o, policy)
             /\ c.evidence = None /\ c.diagnostic = o.diagnostic
  <2>1. {reason} # {}
    OBVIOUS
  <2>2. ~Accepted(theory, r, o, policy)
    BY <1>3 DEF Accepted
  <2>3. /\ c.id = r.id /\ c.identity = r.identity /\ c.evidence = None /\ c.diagnostic = o.diagnostic
        /\ c.eligible = ({reason} = {})
    BY <1>3, CandidateIs
  <2> QED BY <2>1, <2>2, <2>3
<1>4. ASSUME c = Candidate(r, o.result, None, reasons),
             r.targets /\ theory.obligation # None /\ o.ok /\ body.obligation = theory.obligation
      PROVE  /\ c.id = r.id /\ c.identity = r.identity /\ c.eligible \in BOOLEAN
             /\ c.eligible <=> Accepted(theory, r, o, policy)
             /\ c.evidence = o.result /\ c.diagnostic = None
  <2>1. /\ c.id = r.id /\ c.identity = r.identity /\ c.evidence = o.result /\ c.diagnostic = None
        /\ c.eligible = (reasons = {})
    BY <1>4, CandidateIs
  <2>2. (reasons = {}) <=> Accepted(theory, r, o, policy)
    <3>1. (reasons = {}) <=>
              /\ body.obligation \in DOMAIN policy.requirements
              /\ body.category \in policy.requirements[body.obligation].accepted_categories
              /\ \/ body.assumptions = {} /\ r.assumptions = {}
                 \/ policy.requirements[body.obligation].allow_assumptions
              /\ EvidencePassed(body)
      BY NoReasons
    <3> HIDE DEF reasons
    <3> QED BY <1>4, <3>1, Zenon DEF Accepted
  <2> QED BY <2>1, <2>2, Zenon
<1>5. c = [id |-> c.id, identity |-> c.identity, targets |-> c.targets, assumptions |-> c.assumptions,
           evidence |-> c.evidence, diagnostic |-> c.diagnostic, eligible |-> c.eligible,
           reasons |-> c.reasons]
  <2>1. \E evidence, diagnostic, why : c = Candidate(r, evidence, diagnostic, why)
    BY <1>1
  <2> QED BY <2>1, CandidateIs
<1>6. CASE \E reason : c = Candidate(r, None, o.diagnostic, {reason})
           /\ ~(r.targets /\ theory.obligation # None /\ o.ok /\ body.obligation = theory.obligation)
  BY <1>2, <1>3, <1>5, <1>6
<1>7. CASE /\ c = Candidate(r, o.result, None, reasons)
           /\ r.targets /\ theory.obligation # None /\ o.ok /\ body.obligation = theory.obligation
  <2>1. None \in DiagnosticKinds \cup {None}
    OBVIOUS
  <2> HIDE DEF reasons
  <2> QED BY <1>4, <1>5, <1>7, <2>1
<1> QED BY <1>1, <1>6, <1>7

(* ---- what is resolved ------------------------------------------------------ *)
LEMMA TheoryIs ==
    ASSUME NEW d, d.obligations \in Seq(ToSet(d.obligations)), None \notin ToSet(d.obligations),
           NEW theory, theory = NormalizeTheory(d), theory # Failed
    PROVE  /\ theory.id = d.id
           /\ theory.obligation # None => d.obligations = <<theory.obligation>>
           /\ (\E ob : d.obligations = <<ob>>) => theory.obligation # None
<1>1. /\ theory.id = d.id
      /\ theory.obligation = IF Len(d.obligations) = 1 THEN d.obligations[1] ELSE None
  BY DEF NormalizeTheory
<1>2. PICK obs : obs = d.obligations
  OBVIOUS
<1>3. obs \in Seq(ToSet(obs)) /\ None \notin ToSet(obs)
  BY <1>2
<1>4. ASSUME Len(obs) = 1 PROVE obs = <<obs[1]>> /\ obs[1] # None
  <2>1. PICK T : T = ToSet(obs)
    OBVIOUS
  <2>2. obs \in Seq(T)
    BY <1>3, <2>1
  <2>3. obs = <<obs[1]>> /\ obs[1] \in T
    <3>1. PICK m \in Nat : m = Len(obs) /\ obs \in [1 .. m -> T] /\ DOMAIN obs = 1 .. m
      BY <2>2
    <3>2. m = 1 /\ DOMAIN obs = 1 .. 1
      BY <1>4, <3>1
    <3>3. 1 \in DOMAIN obs
      BY <3>2
    <3>4. obs[1] \in T
      BY <3>1, <3>3
    <3>5. <<obs[1]>> = [k \in 1 .. 1 |-> obs[1]]
      OBVIOUS
    <3>6. \A k \in 1 .. 1 : k = 1
      OBVIOUS
    <3>7. obs = [k \in 1 .. 1 |-> obs[k]]
      BY <3>1, <3>2
    <3>8. obs = [k \in 1 .. 1 |-> obs[1]]
      BY <3>6, <3>7
    <3> QED BY <3>4, <3>5, <3>8
  <2> QED BY <1>3, <2>1, <2>3
<1>5. \A ob : obs = <<ob>> => Len(obs) = 1
  OBVIOUS
<1> QED BY <1>1, <1>2, <1>4, <1>5

LEMMA NormalizedIs ==
    ASSUME NEW docs, NEW theory, NEW i \in DOMAIN docs.realizations
    PROVE  /\ Normalized(docs, theory)[i] = NormalizeRealization(docs.realizations[i], theory)
           /\ DOMAIN Normalized(docs, theory) = DOMAIN docs.realizations
           /\ Normalized(docs, theory)[i].id = docs.realizations[i].id
           /\ Normalized(docs, theory)[i].operations = docs.realizations[i].operations
           /\ Normalized(docs, theory)[i].assumptions = docs.realizations[i].assumptions
           /\ Normalized(docs, theory)[i].targets = (docs.realizations[i].theory = theory.id)
           /\ Normalized(docs, theory)[i].identity.operations = docs.realizations[i].operations
<1> QED BY DEF Normalized, NormalizeRealization

LEMMA ListsNormalized ==
    ASSUME NEW docs, docs.realizations \in Seq(ToSet(docs.realizations)), NEW theory
    PROVE  /\ Normalized(docs, theory) \in Seq(ToSet(Normalized(docs, theory)))
           /\ Len(Normalized(docs, theory)) = Len(docs.realizations)
<1>1. PICK rs : rs = docs.realizations
  OBVIOUS
<1>2. rs \in Seq(ToSet(rs))
  BY <1>1
<1>3. PICK n \in Nat : n = Len(rs)
  BY <1>2
<1>4. DOMAIN rs = 1 .. n
  BY <1>2, <1>3
<1>5. PICK ns : ns = Normalized(docs, theory)
  OBVIOUS
<1>6. ns = [i \in 1 .. n |-> NormalizeRealization(rs[i], theory)]
  BY <1>1, <1>4, <1>5 DEF Normalized
<1>7. ns \in [1 .. n -> ToSet(ns)]
  BY <1>6 DEF ToSet
<1>8. ns \in Seq(ToSet(ns)) /\ Len(ns) = n
  BY <1>7
<1> QED BY <1>1, <1>3, <1>5, <1>8

(* Every realization has its outcome among those that bind.                   *)
LEMMA BoundOutcome ==
    ASSUME NEW T, NEW outs \in Seq(T), NEW theory, NEW realizations,
           OutcomesBind(theory, realizations, outs), NEW i \in DOMAIN realizations
    PROVE  \E j \in DOMAIN outs :
              /\ outs[j].id = realizations[i].id /\ OutcomeOf(outs, realizations[i].id) = outs[j]
              /\ outs[j].identity = realizations[i].identity
              /\ outs[j].ok => /\ outs[j].result.body.realization = realizations[i].identity
                               /\ outs[j].result.body.theory = theory.identity
              /\ \A o \in ToSet(outs) : o.id = realizations[i].id => o = outs[j]
<1>1. realizations[i].id \in ToSet(Ids(realizations))
  BY DEF ToSet, Ids
<1>2. realizations[i].id \in ToSet(Ids(outs))
  BY <1>1 DEF OutcomesBind
<1>3. PICK j \in DOMAIN outs : outs[j].id = realizations[i].id
  BY <1>2 DEF ToSet, Ids
<1>4. IsInjective(Ids(outs))
  BY DEF OutcomesBind
<1>5. OutcomeOf(outs, outs[j].id) = outs[j]
  BY <1>4, OutcomeOfIs
<1>6. \A k \in DOMAIN outs : outs[k].id = outs[j].id => k = j
  BY <1>4 DEF IsInjective, Ids
<1>7. \A o \in ToSet(outs) : o.id = realizations[i].id => o = outs[j]
  BY <1>3, <1>6 DEF ToSet
<1>8. realizations[i] \in ToSet(realizations)
  BY DEF ToSet
<1>9. \E o \in {OutcomeOf(outs, realizations[i].id)} :
        /\ o.identity = realizations[i].identity
        /\ o.ok => o.result.body.realization = realizations[i].identity /\ o.result.body.theory = theory.identity
  BY <1>8 DEF OutcomesBind
<1> QED BY <1>3, <1>5, <1>7, <1>9

(* A candidate is accepted exactly when its realization earned it.            *)
LEMMA EarnedIff ==
    ASSUME NEW docs, DocumentsAreListed(docs), NEW T, NEW outs \in Seq(T),
           \A o \in ToSet(outs) : Genuine(o) /\ OutcomeIsValid(o),
           NEW theory, theory = NormalizeTheory(docs.theory), theory # Failed,
           OutcomesBind(theory, Normalized(docs, theory), outs),
           NEW i \in DOMAIN docs.realizations
    PROVE  Earned(docs, docs.realizations[i], outs)
             <=> Accepted(theory, Normalized(docs, theory)[i],
                          OutcomeOf(outs, Normalized(docs, theory)[i].id), docs.policy)
<1>1. PICK d, r, n, obs : d = docs.theory /\ r = docs.realizations[i] /\ n = Normalized(docs, theory)[i] /\ obs = d.obligations
  OBVIOUS
<1>2. /\ n.id = r.id /\ n.assumptions = r.assumptions /\ n.targets = (r.theory = theory.id)
      /\ n.identity.operations = r.operations /\ i \in DOMAIN Normalized(docs, theory)
  BY <1>1, NormalizedIs
<1>3. /\ theory.id = d.id
      /\ theory.obligation # None => obs = <<theory.obligation>>
      /\ (\E ob : obs = <<ob>>) => theory.obligation # None
  BY <1>1, TheoryIs DEF DocumentsAreListed
<1>4. PICK o : /\ o = OutcomeOf(outs, n.id) /\ o.id = r.id /\ o \in ToSet(outs)
               /\ o.ok => o.result.body.realization = n.identity
               /\ \A x \in ToSet(outs) : x.id = r.id => x = o
  BY <1>1, <1>2, BoundOutcome DEF ToSet
<1>5. {x \in ToSet(outs) : x.id = r.id /\ x.ok} = IF o.ok THEN {o} ELSE {}
  BY <1>4
<1>6. CASE ~o.ok
  <2>1. ~Earned(docs, r, outs)
    BY <1>5, <1>6 DEF Earned
  <2>2. ~Accepted(theory, n, o, docs.policy)
    BY <1>6 DEF Accepted
  <2> QED BY <1>1, <1>4, <2>1, <2>2
<1>7. CASE o.ok
  <2>1. PICK body, suite : body = o.result.body /\ suite = body.recipe
    OBVIOUS
  <2>2. Authentic(body)
    BY <1>4, <1>7, <2>1, ValidIsAuthentic
  <2>3. /\ body.category = EvidenceCategory /\ body.obligation = suite.obligation
        /\ body.assumptions = suite.assumptions
    BY <2>1, <2>2 DEF Authentic, MintedFrom
  <2>4. body.realization.operations.transition = r.operations.transition
    BY <1>2, <1>4, <1>7, <2>1
  <2>5. EvidencePassed(body) <=> \/ r.operations.transition = "reference"
                                 \/ \A id \in ToSet(suite.cases) : ~MindsStock(CaseOf[id])
    BY <2>1, <2>2, <2>4, AuthenticPasses
  <2>6. {x.result.body.recipe : x \in {y \in ToSet(outs) : y.id = r.id /\ y.ok}} = {suite}
    BY <1>5, <1>7, <2>1
  <2>7. PICK requirements : requirements = docs.policy.requirements
    OBVIOUS
  <2> DEFINE Fair(ob) ==
        /\ ob \in DOMAIN requirements
        /\ EvidenceCategory \in requirements[ob].accepted_categories
        /\ requirements[ob].allow_assumptions \/ (r.assumptions = {} /\ suite.assumptions = {})
        /\ suite.obligation = ob
        /\ EvidencePassed(body)
  <2>8. Accepted(theory, n, o, docs.policy) <=>
          r.theory = theory.id /\ theory.obligation # None /\ Fair(theory.obligation)
    BY <1>2, <1>7, <2>1, <2>3, <2>7, Zenon DEF Accepted
  <2>9. Earned(docs, r, outs) <=>
          /\ r.theory = d.id
          /\ \E ob \in ToSet(obs) : obs = <<ob>> /\ Fair(ob)
    <3>1. ASSUME Earned(docs, r, outs)
          PROVE  r.theory = d.id /\ \E ob \in ToSet(obs) : obs = <<ob>> /\ Fair(ob)
      <4>1. PICK ob \in ToSet(obs), rule \in Range(requirements), s \in {suite} :
              /\ obs = <<ob>>
              /\ ob \in DOMAIN requirements /\ rule = requirements[ob]
              /\ EvidenceCategory \in rule.accepted_categories
              /\ rule.allow_assumptions \/ (r.assumptions = {} /\ s.assumptions = {})
              /\ s.obligation = ob
              /\ r.operations.transition = "reference" \/ \A id \in ToSet(s.cases) : ~MindsStock(CaseOf[id])
        BY <1>1, <2>6, <2>7, <3>1, Zenon DEF Earned
      <4>2. r.theory = d.id
        BY <1>1, <3>1 DEF Earned
      <4>3. Fair(ob)
        BY <2>5, <4>1
      <4> QED BY <4>1, <4>2, <4>3
    <3>2. ASSUME r.theory = d.id, NEW ob \in ToSet(obs), obs = <<ob>>, Fair(ob)
          PROVE  Earned(docs, r, outs)
      <4>1. requirements[ob] \in Range(requirements)
        BY <3>2 DEF Range
      <4>2. r.operations.transition = "reference" \/ \A id \in ToSet(suite.cases) : ~MindsStock(CaseOf[id])
        BY <2>5, <3>2
      <4>3. suite \in {x.result.body.recipe : x \in {y \in ToSet(outs) : y.id = r.id /\ y.ok}}
        BY <2>6
      <4> QED BY <1>1, <2>7, <3>2, <4>1, <4>2, <4>3, Zenon DEF Earned
    <3> HIDE DEF Fair
    <3> QED BY <3>1, <3>2
  <2>10. \A ob : obs = <<ob>> => ob \in ToSet(obs)
    BY DEF ToSet
  <2>11. \A x, y : obs = <<x>> /\ obs = <<y>> => x = y
    OBVIOUS
  <2> HIDE DEF Fair
  <2> QED BY <1>1, <1>3, <1>4, <2>8, <2>9, <2>10, <2>11
<1> QED BY <1>6, <1>7

(* ---- one among the candidates ---------------------------------------------- *)
(* Candidates that differ in their ids are counted by them.                   *)
LEMMA CountedById ==
    ASSUME NEW E, IsFiniteSet(E), \A c, d \in E : c.id = d.id => c = d,
           NEW names, names = {c.id : c \in E}
    PROVE  /\ (Cardinality(E) = 1) = (Cardinality(names) = 1)
           /\ Cardinality(E) = 1 => E = {TheOne(E)} /\ names = {TheOne(E).id}
<1> DEFINE f == [c \in E |-> c.id]
<1>1. f \in Surjection(E, names)
  BY DEF Surjection
<1>2. IsFiniteSet(names)
  BY <1>1, FS_Surjection
<1>3. ASSUME Cardinality(E) = 1
      PROVE  E = {TheOne(E)} /\ names = {TheOne(E).id} /\ Cardinality(names) = 1
  <2>1. PICK e : E = {e}
    BY <1>3, FS_Singleton
  <2>2. TheOne(E) = e
    BY <2>1 DEF TheOne
  <2>3. names = {e.id}
    BY <2>1
  <2> QED BY <2>1, <2>2, <2>3, FS_Singleton
<1>4. ASSUME Cardinality(names) = 1
      PROVE  Cardinality(E) = 1
  <2>1. PICK id : names = {id}
    BY <1>2, <1>4, FS_Singleton
  <2>2. PICK e \in E : e.id = id
    BY <2>1
  <2>3. \A c \in E : c.id = id
    BY <2>1
  <2>4. E = {e}
    BY <2>2, <2>3
  <2> QED BY <2>4, FS_Singleton
<1> QED BY <1>3, <1>4

CandidatesOf(theory, realizations, outs, policy) ==
    [i \in DOMAIN realizations |->
        EvaluateCandidate(theory, realizations[i], OutcomeOf(outs, realizations[i].id), policy)]

Bound(theory, realizations, outs) ==
    OutcomesBind(theory, realizations, outs) /\ \A o \in ToSet(outs) : OutcomeIsValid(o)

(* What is known of the candidates of a resolution, one by one.               *)
LEMMA CandidatesAre ==
    ASSUME NEW docs, DocumentsAreListed(docs), NEW T, NEW outs \in Seq(T), \A o \in ToSet(outs) : Genuine(o),
           NEW theory, theory = NormalizeTheory(docs.theory), theory # Failed,
           Bound(theory, Normalized(docs, theory), outs),
           NEW cs, cs = CandidatesOf(theory, Normalized(docs, theory), outs, docs.policy)
    PROVE  /\ cs \in Seq(ToSet(cs)) /\ DOMAIN cs = DOMAIN docs.realizations /\ IsInjective(Ids(cs))
           /\ \A i \in DOMAIN cs :
                 /\ cs[i].id = docs.realizations[i].id /\ cs[i].eligible \in BOOLEAN
                 /\ cs[i].eligible <=> Earned(docs, docs.realizations[i], outs)
                 /\ cs[i].evidence # None => Kept(cs[i].evidence)
                 /\ cs[i].diagnostic \in DiagnosticKinds \cup {None}
                 /\ cs[i] = [id |-> cs[i].id, identity |-> cs[i].identity, targets |-> cs[i].targets,
                             assumptions |-> cs[i].assumptions, evidence |-> cs[i].evidence,
                             diagnostic |-> cs[i].diagnostic, eligible |-> cs[i].eligible, reasons |-> cs[i].reasons]
<1>1. PICK rs : rs = Normalized(docs, theory)
  OBVIOUS
<1>2. /\ rs \in Seq(ToSet(rs)) /\ DOMAIN rs = DOMAIN docs.realizations
      /\ \A i \in DOMAIN rs : rs[i].id = docs.realizations[i].id
  <2>1. rs \in Seq(ToSet(rs)) /\ Len(rs) = Len(docs.realizations)
    BY <1>1, ListsNormalized DEF DocumentsAreListed
  <2>2. DOMAIN rs = DOMAIN docs.realizations
    BY <1>1 DEF Normalized
  <2>3. \A i \in DOMAIN rs : rs[i].id = docs.realizations[i].id
    BY <1>1, <2>2, NormalizedIs
  <2> QED BY <2>1, <2>2, <2>3
<1>3. DOMAIN cs = DOMAIN rs
  BY <1>1 DEF CandidatesOf
<1>4. cs \in Seq(ToSet(cs))
  <2>1. PICK n \in Nat : n = Len(rs) /\ DOMAIN rs = 1 .. n
    BY <1>2
  <2>2. cs \in [1 .. n -> ToSet(cs)]
    BY <1>1, <2>1 DEF CandidatesOf, ToSet
  <2> QED BY <2>2
<1>5. ASSUME NEW i \in DOMAIN cs
      PROVE  /\ cs[i].id = docs.realizations[i].id /\ cs[i].eligible \in BOOLEAN
             /\ cs[i].eligible <=> Earned(docs, docs.realizations[i], outs)
             /\ cs[i].evidence # None => Kept(cs[i].evidence)
             /\ cs[i].diagnostic \in DiagnosticKinds \cup {None}
             /\ cs[i] = [id |-> cs[i].id, identity |-> cs[i].identity, targets |-> cs[i].targets,
                         assumptions |-> cs[i].assumptions, evidence |-> cs[i].evidence,
                         diagnostic |-> cs[i].diagnostic, eligible |-> cs[i].eligible, reasons |-> cs[i].reasons]
  <2>1. PICK o : o = OutcomeOf(outs, rs[i].id) /\ o \in ToSet(outs)
    BY <1>1, <1>3, <1>5, BoundOutcome DEF Bound, ToSet
  <2>2. Genuine(o) /\ OutcomeIsValid(o)
    BY <1>1, <2>1 DEF Bound
  <2>3. PICK c : c = cs[i]
    OBVIOUS
  <2>4. c = EvaluateCandidate(theory, rs[i], o, docs.policy)
    BY <1>1, <1>3, <1>5, <2>1, <2>3 DEF CandidatesOf
  <2>5. /\ c.id = rs[i].id /\ c.eligible \in BOOLEAN
        /\ c.eligible <=> Accepted(theory, rs[i], o, docs.policy)
        /\ c.evidence = None \/ (o.ok /\ c.evidence = o.result)
        /\ c.diagnostic \in DiagnosticKinds \cup {None}
        /\ c = [id |-> c.id, identity |-> c.identity, targets |-> c.targets, assumptions |-> c.assumptions,
                evidence |-> c.evidence, diagnostic |-> c.diagnostic, eligible |-> c.eligible,
                reasons |-> c.reasons]
    BY <2>2, <2>4, EvaluatedIs
  <2>6. Earned(docs, docs.realizations[i], outs) <=> Accepted(theory, rs[i], o, docs.policy)
    BY <1>1, <1>2, <1>3, <1>5, <2>1, EarnedIff DEF Bound
  <2>7. c.evidence # None => Kept(c.evidence)
    BY <2>2, <2>5, ValidIsAuthentic
  <2> QED BY <1>2, <1>3, <1>5, <2>1, <2>3, <2>5, <2>6, <2>7
<1>6. IsInjective(Ids(cs))
  <2>1. IsInjective(Ids(rs))
    BY <1>1 DEF Bound, OutcomesBind
  <2>2. \A i, j \in DOMAIN cs : rs[i].id = rs[j].id => i = j
    BY <1>3, <2>1 DEF IsInjective, Ids
  <2>3. ASSUME NEW i \in DOMAIN cs PROVE cs[i].id = rs[i].id
    <3>1. cs[i].id = docs.realizations[i].id
      BY <1>5
    <3>2. rs[i].id = docs.realizations[i].id
      BY <1>2, <1>3
    <3> QED BY <3>1, <3>2
  <2> QED BY <2>2, <2>3 DEF IsInjective, Ids
<1> QED BY <1>2, <1>3, <1>4, <1>5, <1>6

LEMMA ClaimedIs ==
    ASSUME NEW theory, NEW policy, NEW realizations, NEW outs,
           NEW claim, claim = Claimed(theory, policy, Resolve(theory, realizations, outs, policy)), claim # Failed
    PROVE  /\ Bound(theory, realizations, outs)
           /\ claim = BuildResolutionClaim(theory, policy, Decided(CandidatesOf(theory, realizations, outs, policy)))
<1>1. Resolve(theory, realizations, outs, policy) # Failed
  BY DEF Claimed
<1>2. PICK resolution : resolution = Resolve(theory, realizations, outs, policy)
  OBVIOUS
<1>3. Bound(theory, realizations, outs) /\ resolution = Decided(CandidatesOf(theory, realizations, outs, policy))
  BY <1>1, <1>2 DEF Resolve, Bound, CandidatesOf
<1> QED BY <1>1, <1>2, <1>3 DEF Claimed

(* What building a claim makes sure of.                                       *)
Drafted(theory, policy, resolution) ==
    LET chosen == {c \in ToSet(resolution.candidates) : c.id = resolution.selected}
    IN [theory |-> [id |-> theory.id, identity |-> theory.identity],
        required_obligation |-> theory.obligation,
        policy |-> [id |-> policy.id, content_identity |-> policy],
        candidates |-> resolution.candidates,
        status |-> resolution.status,
        selected |-> IF chosen = {} THEN None ELSE Subject(TheOne(chosen)),
        selected_assumptions |-> IF chosen = {} THEN {} ELSE Projection(TheOne(chosen))]

LEMMA BuiltIs ==
    ASSUME NEW theory, NEW policy, NEW resolution,
           NEW claim, claim = BuildResolutionClaim(theory, policy, resolution), claim # Failed
    PROVE  \E draft :
              /\ draft = Drafted(theory, policy, resolution)
              /\ draft.candidates = resolution.candidates /\ draft.status = resolution.status
              /\ claim = FinalizeResolutionClaim(draft)
<1>1. PICK draft : draft = Drafted(theory, policy, resolution)
  OBVIOUS
<1>2. draft.candidates = resolution.candidates /\ draft.status = resolution.status
  BY <1>1 DEF Drafted
<1>3. claim = FinalizeResolutionClaim(draft)
  BY <1>1 DEF Drafted, BuildResolutionClaim
<1> QED BY <1>1, <1>2, <1>3

LEMMA FinalizedIs ==
    ASSUME NEW draft, NEW claim, claim = FinalizeResolutionClaim(draft), claim # Failed
    PROVE  /\ draft.candidates # <<>>
           /\ \A c \in ToSet(draft.candidates) : Shaped(c) /\ EvidenceIsAbout(c, draft)
           /\ IsInjective(Ids(draft.candidates))
           /\ DecisionHolds(draft, {c \in Eligible(draft.candidates) : c.evidence # None})
           /\ {c \in Eligible(draft.candidates) : c.evidence # None} = Eligible(draft.candidates)
           /\ claim = [draft EXCEPT !.candidates = SortedById(@)]
<1>1. /\ draft.candidates # <<>>
      /\ \A c \in ToSet(draft.candidates) : Shaped(c) /\ EvidenceIsAbout(c, draft)
      /\ IsInjective(Ids(draft.candidates))
      /\ DecisionHolds(draft, {c \in Eligible(draft.candidates) : c.evidence # None})
      /\ claim = [draft EXCEPT !.candidates = SortedById(@)]
  BY DEF FinalizeResolutionClaim
<1>2. \A c \in Eligible(draft.candidates) : c.evidence # None
  BY <1>1 DEF Eligible, Shaped
<1> QED BY <1>1, <1>2

(* ---- selections are earned ------------------------------------------------- *)
EarnersOf(docs, outs) == {r.id : r \in {x \in ToSet(docs.realizations) : Earned(docs, x, outs)}}

(* SelectionIsEarned, of one claim.                                           *)
EarnedClaim(k) ==
    LET earners == EarnersOf(k.documents, k.outcomes)
    IN /\ (k.claim.status = "selected") = (Cardinality(earners) = 1)
       /\ k.claim.selected # None => earners = {k.claim.selected.id}
       /\ k.execution # None => {k.execution.by} = earners

LEMMA EarnedClaims == (\A k \in ToSet(claims) : EarnedClaim(k)) => SelectionIsEarned
<1> QED BY DEF SelectionIsEarned, EarnedClaim, EarnersOf

LEMMA DecidedTells ==
    ASSUME NEW docs, DocumentsAreListed(docs), NEW T, NEW outs \in Seq(T), \A o \in ToSet(outs) : Genuine(o),
           NEW theory, theory = NormalizeTheory(docs.theory), theory # Failed,
           NEW claim, claim # Failed,
           claim = Claimed(theory, docs.policy, Resolve(theory, Normalized(docs, theory), outs, docs.policy))
    PROVE  /\ (claim.status = "selected") = (Cardinality(EarnersOf(docs, outs)) = 1)
           /\ claim.selected # None => EarnersOf(docs, outs) = {claim.selected.id}
           /\ claim.status = "selected" =>
                 /\ EarnersOf(docs, outs) = {claim.selected.id}
                 /\ \E i \in DOMAIN docs.realizations : docs.realizations[i].id = claim.selected.id
<1>1. PICK cs, earners :
        /\ cs = CandidatesOf(theory, Normalized(docs, theory), outs, docs.policy)
        /\ earners = EarnersOf(docs, outs)
  OBVIOUS
<1>2. Bound(theory, Normalized(docs, theory), outs) /\ claim = BuildResolutionClaim(theory, docs.policy, Decided(cs))
  BY <1>1, ClaimedIs
<1>3. /\ cs \in Seq(ToSet(cs)) /\ DOMAIN cs = DOMAIN docs.realizations /\ IsInjective(Ids(cs))
      /\ \A i \in DOMAIN cs :
            /\ cs[i].id = docs.realizations[i].id
            /\ cs[i].eligible <=> Earned(docs, docs.realizations[i], outs)
  BY <1>1, <1>2, CandidatesAre
<1>4. PICK draft : /\ draft = Drafted(theory, docs.policy, Decided(cs))
                   /\ draft.candidates = cs /\ draft.status = Decided(cs).status
                   /\ claim = FinalizeResolutionClaim(draft)
  <2>1. Decided(cs).candidates = cs
    BY DEF Decided
  <2> QED BY <1>2, <2>1, BuiltIs
<1>5. /\ DecisionHolds(draft, Eligible(cs))
      /\ claim = [draft EXCEPT !.candidates = SortedById(@)]
  BY <1>4, FinalizedIs
<1>6. claim.status = draft.status /\ claim.selected = draft.selected
  BY <1>4, <1>5 DEF Drafted
<1>7. earners = {c.id : c \in Eligible(cs)}
  <2>1. ASSUME NEW id \in earners PROVE \E c \in Eligible(cs) : c.id = id
    <3>1. PICK i \in DOMAIN docs.realizations :
            Earned(docs, docs.realizations[i], outs) /\ id = docs.realizations[i].id
      BY <1>1, <2>1 DEF EarnersOf, ToSet
    <3>2. cs[i] \in Eligible(cs) /\ cs[i].id = id
      BY <1>3, <3>1 DEF Eligible, ToSet
    <3> QED BY <3>2
  <2>2. ASSUME NEW c \in Eligible(cs) PROVE c.id \in earners
    <3>1. PICK i \in DOMAIN cs : c = cs[i] /\ cs[i].eligible
      BY DEF Eligible, ToSet
    <3>2. docs.realizations[i] \in {x \in ToSet(docs.realizations) : Earned(docs, x, outs)}
      BY <1>3, <3>1 DEF ToSet
    <3>3. c.id = docs.realizations[i].id
      BY <1>3, <3>1
    <3> QED BY <1>1, <3>2, <3>3 DEF EarnersOf
  <2> QED BY <2>1, <2>2
<1>8. /\ (Cardinality(Eligible(cs)) = 1) = (Cardinality(earners) = 1)
      /\ Cardinality(Eligible(cs)) = 1 => Eligible(cs) = {TheOne(Eligible(cs))} /\ earners = {TheOne(Eligible(cs)).id}
  <2>1. IsFiniteSet(Eligible(cs))
    <3>1. IsFiniteSet(ToSet(cs))
      BY <1>3, ListedFinite
    <3>2. Eligible(cs) \in SUBSET ToSet(cs)
      BY DEF Eligible
    <3> QED BY <3>1, <3>2, FS_Subset
  <2>2. \A c, d \in Eligible(cs) : c.id = d.id => c = d
    <3>1. \A i, j \in DOMAIN cs : cs[i].id = cs[j].id => i = j
      BY <1>3 DEF IsInjective, Ids
    <3>2. \A c \in Eligible(cs) : \E i \in DOMAIN cs : c = cs[i]
      BY DEF Eligible, ToSet
    <3> QED BY <3>1, <3>2
  <2> QED BY <1>7, <2>1, <2>2, CountedById
<1>9. draft.status = IF Cardinality(Eligible(cs)) = 1 THEN "selected" ELSE "rejected"
  BY <1>4 DEF Decided
<1>10. (claim.status = "selected") = (Cardinality(earners) = 1)
  BY <1>6, <1>8, <1>9
<1>11. ASSUME claim.status = "selected"
       PROVE  /\ earners = {claim.selected.id}
              /\ \E i \in DOMAIN docs.realizations : docs.realizations[i].id = claim.selected.id
  <2>1. Cardinality(Eligible(cs)) = 1
    BY <1>8, <1>10, <1>11
  <2>2. claim.selected = Subject(TheOne(Eligible(cs)))
    BY <1>5, <1>6, <1>11 DEF DecisionHolds
  <2>3. claim.selected.id = TheOne(Eligible(cs)).id
    BY <2>2 DEF Subject
  <2>4. TheOne(Eligible(cs)) \in Eligible(cs)
    BY <1>8, <2>1
  <2>5. PICK i \in DOMAIN cs : cs[i] = TheOne(Eligible(cs))
    BY <2>4 DEF Eligible, ToSet
  <2> QED BY <1>3, <1>8, <2>1, <2>3, <2>5
<1>12. ASSUME claim.status # "selected" PROVE claim.selected = None
  BY <1>5, <1>6, <1>12 DEF DecisionHolds
<1> QED BY <1>1, <1>10, <1>11, <1>12

(* The selected realization is the one that executes.                         *)
LEMMA ExecutedIsSelected ==
    ASSUME NEW docs, DocumentsAreListed(docs), NEW theory, IsInjective(Ids(Normalized(docs, theory))),
           NEW claim, Execution(claim, Normalized(docs, theory)) # None,
           claim.status = "selected" =>
              \E i \in DOMAIN docs.realizations : docs.realizations[i].id = claim.selected.id
    PROVE  /\ claim.status = "selected"
           /\ Execution(claim, Normalized(docs, theory)).by = claim.selected.id
<1>1. PICK rs : rs = Normalized(docs, theory)
  OBVIOUS
<1>2. claim.status = "selected"
  BY <1>1 DEF Execution
<1>3. PICK i \in DOMAIN docs.realizations : docs.realizations[i].id = claim.selected.id
  BY <1>2
<1>4. i \in DOMAIN rs /\ rs[i].id = claim.selected.id
  BY <1>1, <1>3, NormalizedIs
<1>5. rs \in Seq(ToSet(rs))
  BY <1>1, ListsNormalized DEF DocumentsAreListed
<1>6. OutcomeOf(rs, claim.selected.id) = rs[i]
  BY <1>1, <1>4, <1>5, OutcomeOfIs
<1>7. Execution(claim, rs).by = OutcomeOf(rs, claim.selected.id).id
  BY <1>2 DEF Execution, OutcomeOf
<1> QED BY <1>1, <1>2, <1>4, <1>6, <1>7

LEMMA RecordedIsEarned ==
    ASSUME NEW docs, DocumentsAreListed(docs), NEW T, NEW outs \in Seq(T), \A o \in ToSet(outs) : Genuine(o),
           NEW theory, theory = NormalizeTheory(docs.theory), theory # Failed,
           NEW claim, claim # Failed,
           claim = Claimed(theory, docs.policy, Resolve(theory, Normalized(docs, theory), outs, docs.policy)),
           NEW execution, execution \in {None, Execution(claim, Normalized(docs, theory))}
    PROVE  EarnedClaim([claim |-> claim, documents |-> docs, outcomes |-> outs, execution |-> execution])
<1>1. /\ (claim.status = "selected") = (Cardinality(EarnersOf(docs, outs)) = 1)
      /\ claim.selected # None => EarnersOf(docs, outs) = {claim.selected.id}
      /\ claim.status = "selected" =>
            /\ EarnersOf(docs, outs) = {claim.selected.id}
            /\ \E i \in DOMAIN docs.realizations : docs.realizations[i].id = claim.selected.id
  BY DecidedTells
<1>2. IsInjective(Ids(Normalized(docs, theory)))
  BY ClaimedIs DEF Bound, OutcomesBind
<1>3. ASSUME execution # None PROVE {execution.by} = EarnersOf(docs, outs)
  <2>1. execution = Execution(claim, Normalized(docs, theory))
    BY <1>3
  <2>2. claim.status = "selected" /\ execution.by = claim.selected.id
    BY <1>1, <1>2, <1>3, <2>1, ExecutedIsSelected
  <2> QED BY <1>1, <2>2
<1> QED BY <1>1, <1>3 DEF EarnedClaim

(* ---- the order of a claim's candidates -------------------------------------- *)
(* Candidates with ids of their own, each of which has a place.               *)
Sortable(cs) ==
    /\ cs \in Seq(ToSet(cs)) /\ IsInjective(Ids(cs))
    /\ \A c \in ToSet(cs) : c.id \in ToSet(IdOrder)

LEMMA PlacesDiffer ==
    /\ \A id \in ToSet(IdOrder) : Place(id) \in Nat
    /\ \A x, y \in ToSet(IdOrder) : Place(x) = Place(y) => x = y
<1>1. PICK T, order : T = ToSet(IdOrder) /\ order = IdOrder
  OBVIOUS
<1>2. order \in Seq(T) /\ \A i, j \in DOMAIN order : order[i] = order[j] => i = j
  BY <1>1, IdsAssumption DEF IsInjective
<1>3. ASSUME NEW j \in DOMAIN order PROVE Place(order[j]) = j /\ j \in Nat
  <2> DEFINE I == {i \in 1 .. Len(order) : order[i] = order[j]}
  <2>1. DOMAIN order = 1 .. Len(order) /\ j \in Nat
    BY <1>2
  <2>2. I = {j}
    BY <1>2, <2>1
  <2>3. Min({j}) = j
    BY <2>1 DEF Min
  <2>4. SelectInSeq(order, LAMBDA x : x = order[j]) = j
    BY <2>2, <2>3 DEF SelectInSeq
  <2> QED BY <1>1, <2>1, <2>4 DEF Place
<1>4. \A id \in ToSet(IdOrder) : \E j \in DOMAIN order : id = order[j]
  BY <1>1 DEF ToSet
<1> QED BY <1>3, <1>4

LEMMA Distinguished ==
    ASSUME NEW cs, Sortable(cs)
    PROVE  /\ \A c, d \in ToSet(cs) : c.id = d.id => c = d
           /\ \A c, d \in ToSet(cs) : Place(c.id) = Place(d.id) => c = d
           /\ \A c \in ToSet(cs) : Place(c.id) \in Nat
           /\ IsFiniteSet(ToSet(cs)) /\ Cardinality(ToSet(cs)) = Len(cs)
<1>1. \A i, j \in DOMAIN cs : cs[i].id = cs[j].id => i = j
  BY DEF Sortable, IsInjective, Ids
<1>2. \A c, d \in ToSet(cs) : c.id = d.id => c = d
  BY <1>1 DEF ToSet
<1>3. \A c \in ToSet(cs) : c.id \in ToSet(IdOrder)
  BY DEF Sortable
<1>4. IsFiniteSet(ToSet(cs))
  BY ListedFinite DEF Sortable
<1>5. PICK n \in Nat : n = Len(cs) /\ DOMAIN cs = 1 .. n
  BY DEF Sortable
<1>6. cs \in [1 .. n -> ToSet(cs)] /\ IsFiniteSet(1 .. n) /\ Cardinality(1 .. n) = n
  BY <1>5, FS_Interval DEF Sortable
<1>7. cs \in Surjection(1 .. n, ToSet(cs)) /\ cs \in Injection(1 .. n, ToSet(cs))
  <2>1. \A i, j \in 1 .. n : cs[i] = cs[j] => i = j
    BY <1>1, <1>5
  <2> QED BY <1>5, <1>6, <2>1 DEF Surjection, Injection, IsInjective, ToSet
<1>8. Cardinality(ToSet(cs)) = n
  BY <1>6, <1>7, FS_Surjection
<1> QED BY <1>2, <1>3, <1>4, <1>5, <1>8, PlacesDiffer

(* Every number of candidates has one that so many do not come after.         *)
LEMMA Ranked ==
    ASSUME NEW cs, Sortable(cs)
    PROVE  /\ \A n \in DOMAIN cs : \E c \in ToSet(cs) : Cardinality(UpTo(cs, c)) = n
           /\ \A c \in ToSet(cs) : Cardinality(UpTo(cs, c)) \in DOMAIN cs
           /\ \A c, d \in ToSet(cs) : Cardinality(UpTo(cs, c)) = Cardinality(UpTo(cs, d)) => c = d
<1>1. PICK n \in Nat : n = Len(cs) /\ DOMAIN cs = 1 .. n
  BY DEF Sortable
<1>2. PICK S : S = ToSet(cs)
  OBVIOUS
<1>3. IsFiniteSet(S) /\ Cardinality(S) = n
  BY <1>1, <1>2, Distinguished
<1>4. ASSUME NEW c \in S
      PROVE  /\ UpTo(cs, c) \in SUBSET S /\ c \in UpTo(cs, c) /\ IsFiniteSet(UpTo(cs, c))
             /\ Cardinality(UpTo(cs, c)) \in 1 .. n
  <2>1. Place(c.id) \in Nat
    BY <1>2, Distinguished
  <2>2. UpTo(cs, c) \in SUBSET S /\ c \in UpTo(cs, c)
    BY <1>2, <2>1 DEF UpTo
  <2>3. IsFiniteSet(UpTo(cs, c)) /\ Cardinality(UpTo(cs, c)) <= n
    BY <1>3, <2>2, FS_Subset
  <2>4. Cardinality(UpTo(cs, c)) \in Nat /\ Cardinality(UpTo(cs, c)) # 0
    BY <2>2, <2>3, FS_CardinalityType, FS_EmptySet
  <2> QED BY <2>2, <2>3, <2>4
<1>5. ASSUME NEW c \in S, NEW d \in S, Cardinality(UpTo(cs, c)) = Cardinality(UpTo(cs, d)), Place(c.id) <= Place(d.id)
      PROVE  c = d
  <2>1. Place(c.id) \in Nat /\ Place(d.id) \in Nat /\ \A x \in S : Place(x.id) \in Nat
    BY <1>2, Distinguished
  <2>2. UpTo(cs, c) \subseteq UpTo(cs, d)
    BY <1>2, <1>5, <2>1 DEF UpTo
  <2>3. UpTo(cs, c) = UpTo(cs, d)
    BY <1>4, <1>5, <2>2, FS_Subset
  <2>4. d \in UpTo(cs, c)
    BY <1>4, <2>3
  <2>5. Place(d.id) <= Place(c.id)
    BY <2>4 DEF UpTo
  <2>6. Place(c.id) = Place(d.id)
    BY <1>5, <2>1, <2>5
  <2> QED BY <1>2, <2>6, Distinguished
<1>6. ASSUME NEW c \in S, NEW d \in S, Cardinality(UpTo(cs, c)) = Cardinality(UpTo(cs, d))
      PROVE  c = d
  <2>1. Place(c.id) \in Nat /\ Place(d.id) \in Nat
    BY <1>2, Distinguished
  <2>2. Place(c.id) <= Place(d.id) \/ Place(d.id) <= Place(c.id)
    BY <2>1
  <2> QED BY <1>5, <1>6, <2>2
<1> DEFINE rank == [c \in S |-> Cardinality(UpTo(cs, c))]
<1>7. rank \in Injection(S, 1 .. n)
  <2>1. rank \in [S -> 1 .. n]
    BY <1>4
  <2>2. \A c, d \in S : rank[c] = rank[d] => c = d
    BY <1>6
  <2> QED BY <2>1, <2>2 DEF Injection, IsInjective
<1>8. IsFiniteSet(1 .. n) /\ Cardinality(1 .. n) = n
  BY FS_Interval
<1>9. rank \in Surjection(S, 1 .. n)
  BY <1>3, <1>7, <1>8, FS_Injection
<1>10. \A m \in 1 .. n : \E c \in S : rank[c] = m
  BY <1>9 DEF Surjection
<1> QED BY <1>1, <1>2, <1>4, <1>6, <1>10

(* Sorting keeps the candidates, and sorting again changes nothing.           *)
LEMMA SortedKeeps ==
    ASSUME NEW cs, Sortable(cs)
    PROVE  /\ DOMAIN SortedById(cs) = DOMAIN cs /\ ToSet(SortedById(cs)) = ToSet(cs)
           /\ SortedById(cs) \in Seq(ToSet(SortedById(cs)))
           /\ IsInjective(Ids(SortedById(cs)))
           /\ SortedById(SortedById(cs)) = SortedById(cs)
<1>1. PICK sorted : sorted = SortedById(cs)
  OBVIOUS
<1>2. /\ sorted = [n \in DOMAIN cs |-> sorted[n]] /\ DOMAIN sorted = DOMAIN cs
      /\ \A n \in DOMAIN cs : sorted[n] = CHOOSE c \in ToSet(cs) : Cardinality(UpTo(cs, c)) = n
  BY <1>1 DEF SortedById
<1>3. ASSUME NEW n \in DOMAIN cs
      PROVE  sorted[n] \in ToSet(cs) /\ Cardinality(UpTo(cs, sorted[n])) = n
  BY <1>2, Ranked
<1>4. ToSet(sorted) = ToSet(cs)
  <2>1. ASSUME NEW c \in ToSet(cs) PROVE c \in ToSet(sorted)
    <3>1. PICK n \in DOMAIN cs : Cardinality(UpTo(cs, c)) = n
      BY Ranked
    <3>2. sorted[n] = c
      BY <1>3, <3>1, Ranked
    <3> QED BY <1>2, <3>2 DEF ToSet
  <2>2. ToSet(sorted) \subseteq ToSet(cs)
    BY <1>2, <1>3 DEF ToSet
  <2> QED BY <2>1, <2>2
<1>5. IsInjective(Ids(sorted))
  <2>1. ASSUME NEW m \in DOMAIN cs, NEW n \in DOMAIN cs, sorted[m].id = sorted[n].id PROVE m = n
    <3>1. sorted[m] = sorted[n]
      BY <1>3, <2>1, Distinguished
    <3> QED BY <1>3, <3>1
  <2> QED BY <1>2, <2>1 DEF IsInjective, Ids
<1>6. sorted \in Seq(ToSet(sorted))
  <2>1. PICK n \in Nat : DOMAIN cs = 1 .. n
    BY DEF Sortable
  <2>2. sorted \in [1 .. n -> ToSet(sorted)]
    BY <1>2, <2>1 DEF ToSet
  <2> QED BY <2>2, SequenceOf
<1>7. SortedById(sorted) = sorted
  <2>1. \A c : UpTo(sorted, c) = UpTo(cs, c)
    BY <1>4 DEF UpTo
  <2>2. SortedById(sorted) = [n \in DOMAIN cs |-> CHOOSE c \in ToSet(cs) : Cardinality(UpTo(cs, c)) = n]
    BY <1>2, <1>4, <2>1 DEF SortedById
  <2> QED BY <1>1, <2>2 DEF SortedById
<1> QED BY <1>1, <1>2, <1>4, <1>5, <1>6, <1>7

(* ---- claims read back ------------------------------------------------------ *)
Winners(cs) == {c \in Eligible(cs) : c.evidence # None}

CandidateKept(c) ==
    /\ c = [id |-> c.id, identity |-> c.identity, targets |-> c.targets, assumptions |-> c.assumptions,
            evidence |-> c.evidence, diagnostic |-> c.diagnostic, eligible |-> c.eligible, reasons |-> c.reasons]
    /\ Shaped(c)
    /\ c.evidence # None => Kept(c.evidence)
    /\ c.diagnostic \in DiagnosticKinds \cup {None}

ClaimFields ==
    {"theory", "required_obligation", "policy", "candidates", "status", "selected", "selected_assumptions"}

(* A claim as building it leaves it.                                          *)
Written(claim) ==
    /\ claim = [f \in ClaimFields |-> claim[f]]
    /\ claim.status \in {"selected", "rejected"}
    /\ claim.candidates # <<>> /\ Sortable(claim.candidates) /\ SortedById(claim.candidates) = claim.candidates
    /\ DecisionHolds(claim, Winners(claim.candidates))
    /\ \A c \in ToSet(claim.candidates) : CandidateKept(c) /\ EvidenceIsAbout(c, claim)

LEMMA ClaimRecord ==
    ASSUME NEW a1, NEW a2, NEW a3, NEW a4, NEW a5, NEW a6, NEW a7, NEW r,
           r = [theory |-> a1, required_obligation |-> a2, policy |-> a3, candidates |-> a4, status |-> a5,
                selected |-> a6, selected_assumptions |-> a7]
    PROVE  r = [f \in ClaimFields |-> r[f]]
<1> QED BY DEF ClaimFields

LEMMA BuiltIsWritten ==
    ASSUME NEW docs \in AllDocuments, NEW T, NEW outs \in Seq(T), \A o \in ToSet(outs) : Genuine(o),
           NEW theory, theory = NormalizeTheory(docs.theory), theory # Failed,
           NEW claim, claim # Failed,
           claim = Claimed(theory, docs.policy, Resolve(theory, Normalized(docs, theory), outs, docs.policy))
    PROVE  Written(claim)
<1>1. PICK cs : cs = CandidatesOf(theory, Normalized(docs, theory), outs, docs.policy)
  OBVIOUS
<1>2. Bound(theory, Normalized(docs, theory), outs) /\ claim = BuildResolutionClaim(theory, docs.policy, Decided(cs))
  BY <1>1, ClaimedIs
<1>3. DocumentsAreListed(docs)
  BY DocumentsAssumption
<1>4. /\ cs \in Seq(ToSet(cs)) /\ DOMAIN cs = DOMAIN docs.realizations /\ IsInjective(Ids(cs))
      /\ \A i \in DOMAIN cs :
            /\ cs[i].id = docs.realizations[i].id
            /\ cs[i].evidence # None => Kept(cs[i].evidence)
            /\ cs[i].diagnostic \in DiagnosticKinds \cup {None}
            /\ cs[i] = [id |-> cs[i].id, identity |-> cs[i].identity, targets |-> cs[i].targets,
                        assumptions |-> cs[i].assumptions, evidence |-> cs[i].evidence,
                        diagnostic |-> cs[i].diagnostic, eligible |-> cs[i].eligible, reasons |-> cs[i].reasons]
  BY <1>1, <1>2, <1>3, CandidatesAre
<1>5. PICK draft : /\ draft = Drafted(theory, docs.policy, Decided(cs))
                   /\ draft.candidates = cs /\ draft.status = Decided(cs).status
                   /\ claim = FinalizeResolutionClaim(draft)
  <2>1. Decided(cs).candidates = cs
    BY DEF Decided
  <2> QED BY <1>2, <2>1, BuiltIs
<1>6. /\ cs # <<>>
      /\ \A c \in ToSet(cs) : Shaped(c) /\ EvidenceIsAbout(c, draft)
      /\ DecisionHolds(draft, Winners(cs))
      /\ claim = [draft EXCEPT !.candidates = SortedById(@)]
  BY <1>5, FinalizedIs DEF Winners
<1>7. draft.status \in {"selected", "rejected"}
  BY <1>5 DEF Decided
<1>8. draft = [f \in ClaimFields |-> draft[f]]
  <2>1. \E a1, a2, a3, a4, a5, a6, a7 :
          draft = [theory |-> a1, required_obligation |-> a2, policy |-> a3, candidates |-> a4, status |-> a5,
                   selected |-> a6, selected_assumptions |-> a7]
    BY <1>5, Zenon DEF Drafted
  <2> QED BY <2>1, ClaimRecord
<1>9. /\ claim = [f \in ClaimFields |-> claim[f]]
      /\ \A f \in ClaimFields \ {"candidates"} : claim[f] = draft[f]
      /\ claim.candidates = SortedById(cs)
  BY <1>5, <1>6, <1>8 DEF ClaimFields
<1>10. /\ claim.status = draft.status /\ claim.selected = draft.selected
       /\ claim.selected_assumptions = draft.selected_assumptions
       /\ claim.theory = draft.theory /\ claim.required_obligation = draft.required_obligation
  BY <1>9 DEF ClaimFields
<1>11. Sortable(cs)
  <2>1. ASSUME NEW i \in DOMAIN cs PROVE cs[i].id \in ToSet(IdOrder)
    <3>1. docs.realizations \in AllRealizationLists
      BY DEF AllDocuments
    <3>2. docs.realizations[i].id \in ToSet(Ids(docs.realizations))
      BY <1>4 DEF ToSet, Ids
    <3> QED BY <1>4, <3>1, <3>2, IdsAssumption
  <2> QED BY <1>4, <2>1 DEF Sortable, ToSet
<1>12. PICK sorted : sorted = SortedById(cs)
  OBVIOUS
<1>13. /\ DOMAIN sorted = DOMAIN cs /\ ToSet(sorted) = ToSet(cs) /\ sorted \in Seq(ToSet(sorted))
       /\ IsInjective(Ids(sorted)) /\ SortedById(sorted) = sorted
  BY <1>11, <1>12, SortedKeeps
<1>14. Sortable(sorted)
  BY <1>11, <1>13 DEF Sortable
<1>15. sorted # <<>>
  <2>1. DOMAIN cs # {}
    <3>1. PICK n \in Nat : n = Len(cs) /\ DOMAIN cs = 1 .. n
      BY <1>4
    <3>2. n # 0
      BY <1>4, <1>6, <3>1
    <3>3. 1 \in 1 .. n
      BY <3>2
    <3> QED BY <3>1, <3>3
  <2> QED BY <1>13, <2>1
<1>16. Winners(sorted) = Winners(cs)
  BY <1>13 DEF Winners, Eligible
<1>17. DecisionHolds(claim, Winners(sorted))
  BY <1>6, <1>10, <1>16 DEF DecisionHolds
<1>18. ASSUME NEW c \in ToSet(sorted) PROVE CandidateKept(c) /\ EvidenceIsAbout(c, claim)
  <2>1. PICK i \in DOMAIN cs : c = cs[i]
    BY <1>13 DEF ToSet
  <2>2. Shaped(c) /\ EvidenceIsAbout(c, draft)
    BY <1>6, <1>13
  <2> QED BY <1>4, <1>10, <2>1, <2>2 DEF CandidateKept, EvidenceIsAbout
<1> QED BY <1>7, <1>9, <1>10, <1>12, <1>13, <1>14, <1>15, <1>17, <1>18 DEF Written

(* Reading what was written.                                                  *)
LEMMA EvidenceIsSome ==
    ASSUME NEW e, Kept(e), NEW b \in Bodies
    PROVE  [identity |-> e.body, body |-> e.body, summary |-> Summary(b)] # None
<1> QED BY NoneAssumption DEF Kept

LEMMA EvidenceToJsonIs ==
    ASSUME NEW e, Kept(e)
    PROVE  EvidenceToJson(e) = [identity |-> e.body, body |-> e.body, summary |-> Summary(e.body)]
<1> QED BY DEF Kept, EvidenceToJson

LEMMA CandidateReads ==
    ASSUME NEW c, CandidateKept(c)
    PROVE  /\ ParseCandidate(CandidateToJson(c)) = c /\ c.evidence # Failed
           /\ CandidateToJson(c).diagnostic = c.diagnostic
           /\ (CandidateToJson(c).evidence = None) <=> (c.evidence = None)
<1>1. PICK x : x = CandidateToJson(c)
  OBVIOUS
<1>2. CASE c.evidence = None
  <2>1. x = c
    BY <1>1, <1>2 DEF CandidateToJson, CandidateKept
  <2>2. ParseCandidate(c) = c
    BY <1>2 DEF ParseCandidate, CandidateKept
  <2> QED BY <1>1, <1>2, <2>1, <2>2, NoneAssumption
<1>3. CASE c.evidence # None
  <2>1. PICK e : e = c.evidence /\ Kept(e)
    BY <1>3 DEF CandidateKept
  <2>2. PICK doc : doc = EvidenceToJson(e)
    OBVIOUS
  <2>3. doc # None /\ ParseEvidenceResult(doc) = e /\ e # Failed
    BY <2>1, <2>2, EvidenceIsSome, EvidenceToJsonIs DEF Kept
  <2>4. x = [c EXCEPT !.evidence = doc]
    BY <1>1, <1>3, <2>1, <2>2 DEF CandidateToJson
  <2>5. x.evidence = doc /\ x.diagnostic = c.diagnostic
    BY <2>4 DEF CandidateKept
  <2>6. ParseCandidate(x) = [x EXCEPT !.evidence = e]
    BY <2>3, <2>5 DEF ParseCandidate
  <2>7. [x EXCEPT !.evidence = e] = c
    BY <2>1, <2>4 DEF CandidateKept
  <2> QED BY <1>1, <1>3, <2>1, <2>3, <2>5, <2>6, <2>7
<1> QED BY <1>2, <1>3

(* With the counts of other evidence, a candidate does not read, or is the    *)
(* same.                                                                      *)
LEMMA RecountedReads ==
    ASSUME NEW c, CandidateKept(c), c.evidence # None, NEW e, Kept(e),
           NEW x, x = [CandidateToJson(c) EXCEPT !.evidence.summary = EvidenceToJson(e).summary],
           ParseCandidate(x).evidence # Failed
    PROVE  ParseCandidate(x) = c /\ x.diagnostic = c.diagnostic
<1>1. PICK own : own = c.evidence /\ Kept(own)
  BY DEF CandidateKept
<1>2. EvidenceToJson(own) = [identity |-> own.body, body |-> own.body, summary |-> Summary(own.body)]
  BY <1>1, EvidenceToJsonIs
<1>3. EvidenceToJson(e).summary = Summary(e.body) /\ e.body \in Bodies
  BY DEF EvidenceToJson, Kept
<1>4. PICK doc : doc = [identity |-> own.body, body |-> own.body, summary |-> Summary(e.body)]
  OBVIOUS
<1>5. doc # None
  BY <1>1, <1>3, <1>4, EvidenceIsSome
<1>6. CandidateToJson(c) = [c EXCEPT !.evidence = EvidenceToJson(own)]
  BY <1>1 DEF CandidateToJson
<1>7. x = [c EXCEPT !.evidence = doc]
  <2>1. PICK y : y = CandidateToJson(c)
    OBVIOUS
  <2>2. y = [c EXCEPT !.evidence = EvidenceToJson(own)] /\ y.evidence = EvidenceToJson(own)
    BY <1>6, <2>1 DEF CandidateKept
  <2>3. x = [y EXCEPT !.evidence = [y.evidence EXCEPT !.summary = Summary(e.body)]]
    BY <1>3, <2>1
  <2>4. [y.evidence EXCEPT !.summary = Summary(e.body)] = doc
    BY <1>2, <1>4, <2>2
  <2>5. x = [y EXCEPT !.evidence = doc]
    BY <2>3, <2>4
  <2> QED BY <2>2, <2>5 DEF CandidateKept
<1>8. x.evidence = doc /\ x.diagnostic = c.diagnostic
  BY <1>7 DEF CandidateKept
<1>9. ParseCandidate(x) = [x EXCEPT !.evidence = ParseEvidenceResult(doc)]
  BY <1>5, <1>8 DEF ParseCandidate
<1>10. ParseCandidate(x).evidence = ParseEvidenceResult(doc)
  BY <1>7, <1>9 DEF CandidateKept
<1>11. ParseEvidenceResult(doc) = [identity |-> doc.identity, body |-> doc.body]
  BY <1>10 DEF ParseEvidenceResult
<1>12. ParseEvidenceResult(doc) = own
  BY <1>1, <1>4, <1>11 DEF Kept
<1>13. [x EXCEPT !.evidence = own] = c
  BY <1>1, <1>7 DEF CandidateKept
<1> QED BY <1>8, <1>9, <1>12, <1>13

LEMMA ToJsonIs ==
    ASSUME NEW claim, Written(claim), NEW a, a = ResolutionClaimToJson(claim)
    PROVE  /\ a = [f \in ClaimFields |-> a[f]]
           /\ \A f \in ClaimFields \ {"candidates"} : a[f] = claim[f]
           /\ a.candidates = [i \in DOMAIN claim.candidates |-> CandidateToJson(claim.candidates[i])]
<1>1. PICK cs : cs = [i \in DOMAIN claim.candidates |-> CandidateToJson(claim.candidates[i])]
  OBVIOUS
<1>2. claim = [f \in ClaimFields |-> claim[f]] /\ "candidates" \in ClaimFields
  BY DEF Written, ClaimFields
<1>3. a = [claim EXCEPT !.candidates = cs]
  BY <1>1 DEF ResolutionClaimToJson
<1> QED BY <1>1, <1>2, <1>3

LEMMA FinalizedAgain ==
    ASSUME NEW claim, Written(claim)
    PROVE  FinalizeResolutionClaim(claim) = claim
<1>1. /\ claim.candidates # <<>>
      /\ \A c \in ToSet(claim.candidates) : Shaped(c) /\ EvidenceIsAbout(c, claim)
      /\ IsInjective(Ids(claim.candidates))
      /\ DecisionHolds(claim, {c \in Eligible(claim.candidates) : c.evidence # None})
  BY DEF Written, CandidateKept, Winners, Sortable
<1>2. FinalizeResolutionClaim(claim) = [claim EXCEPT !.candidates = SortedById(@)]
  BY <1>1 DEF FinalizeResolutionClaim
<1>3. claim = [f \in ClaimFields |-> claim[f]] /\ SortedById(claim.candidates) = claim.candidates
  BY DEF Written
<1> QED BY <1>2, <1>3

LEMMA DecisionIsOfWinners ==
    ASSUME NEW d, NEW e, NEW winners, DecisionHolds(d, winners), DecisionHolds(e, winners),
           d.status \in {"selected", "rejected"}, e.status \in {"selected", "rejected"}
    PROVE  Decision(d) = Decision(e)
<1> QED BY DEF DecisionHolds, Decision

(* A document that has the candidates of a claim tells its decision or does   *)
(* not read.                                                                  *)
LEMMA ReadTellsDecision ==
    ASSUME NEW claim, Written(claim), NEW doc, doc = [f \in ClaimFields |-> doc[f]],
           ParseCandidates(doc.candidates) = claim.candidates,
           ParseResolutionClaim(doc) # Failed
    PROVE  Decision(ParseResolutionClaim(doc)) = Decision(claim)
<1>1. PICK draft, read : /\ draft = [doc EXCEPT !.candidates = ParseCandidates(@)]
                         /\ read = ParseResolutionClaim(doc)
  OBVIOUS
<1>2. doc.status \in {"selected", "rejected"} /\ read = FinalizeResolutionClaim(draft)
  BY <1>1 DEF ParseResolutionClaim
<1>3. /\ draft = [f \in ClaimFields |-> draft[f]] /\ draft.candidates = claim.candidates /\ draft.status = doc.status
  BY <1>1 DEF ClaimFields
<1>4. /\ DecisionHolds(draft, Winners(claim.candidates))
      /\ read = [draft EXCEPT !.candidates = SortedById(@)]
  BY <1>1, <1>2, <1>3, FinalizedIs DEF Winners
<1>5. /\ read.status = draft.status /\ read.selected = draft.selected
      /\ read.selected_assumptions = draft.selected_assumptions
  BY <1>3, <1>4 DEF ClaimFields
<1>6. Decision(draft) = Decision(claim)
  BY <1>2, <1>3, <1>4, DecisionIsOfWinners DEF Written
<1> QED BY <1>1, <1>5, <1>6 DEF Decision

LEMMA CandidatesRead ==
    ASSUME NEW claim, Written(claim)
    PROVE  ParseCandidates(ResolutionClaimToJson(claim).candidates) = claim.candidates
<1>1. PICK a, cs : a = ResolutionClaimToJson(claim) /\ cs = claim.candidates
  OBVIOUS
<1>2. a.candidates = [i \in DOMAIN cs |-> CandidateToJson(cs[i])]
  BY <1>1, ToJsonIs
<1>3. \A i \in DOMAIN cs : ParseCandidate(a.candidates[i]) = cs[i]
  BY <1>1, <1>2, CandidateReads DEF Written, ToSet
<1>4. cs = [i \in DOMAIN cs |-> cs[i]]
  <2>1. PICK n \in Nat : DOMAIN cs = 1 .. n /\ cs \in [1 .. n -> ToSet(cs)]
    BY <1>1 DEF Written, Sortable
  <2> QED BY <2>1
<1> QED BY <1>1, <1>2, <1>3, <1>4 DEF ParseCandidates

(* A claim reads back as itself.                                              *)
LEMMA WrittenReads ==
    ASSUME NEW claim, Written(claim)
    PROVE  ParseResolutionClaim(ResolutionClaimToJson(claim)) = claim
<1>1. PICK a, cs : a = ResolutionClaimToJson(claim) /\ cs = claim.candidates
  OBVIOUS
<1>2. /\ a = [f \in ClaimFields |-> a[f]] /\ a.status = claim.status
      /\ \A f \in ClaimFields \ {"candidates"} : a[f] = claim[f]
      /\ a.candidates = [i \in DOMAIN cs |-> CandidateToJson(cs[i])]
  <2>1. "status" \in ClaimFields \ {"candidates"}
    BY DEF ClaimFields
  <2> QED BY <1>1, <2>1, ToJsonIs
<1>3. ParseCandidates(a.candidates) = cs
  BY <1>1, CandidatesRead
<1>4. \A c \in ToSet(a.candidates) : c.diagnostic = None \/ c.diagnostic \in DiagnosticKinds
  <2>1. ASSUME NEW i \in DOMAIN cs
        PROVE  CandidateToJson(cs[i]).diagnostic \in DiagnosticKinds \cup {None}
    <3>1. CandidateKept(cs[i])
      BY <1>1 DEF Written, ToSet
    <3> QED BY <3>1, CandidateReads DEF CandidateKept
  <2> QED BY <1>2, <2>1 DEF ToSet
<1>5. \A c \in ToSet(cs) : c.evidence # Failed
  BY <1>1, CandidateReads DEF Written
<1>6. claim = [f \in ClaimFields |-> claim[f]] /\ claim.status \in {"selected", "rejected"}
  BY DEF Written
<1>7. [a EXCEPT !.candidates = cs] = claim
  BY <1>1, <1>2, <1>6 DEF ClaimFields
<1>8. [a EXCEPT !.candidates = ParseCandidates(@)] = claim
  BY <1>3, <1>7
<1> QED BY <1>1, <1>2, <1>3, <1>4, <1>5, <1>6, <1>8, FinalizedAgain DEF ParseResolutionClaim

(* With the counts of another claim, it reads as itself or not at all.        *)
LEMMA RecountedClaimReads ==
    ASSUME NEW claim, Written(claim), NEW other, Written(other), NEW doc,
           doc = Recounted(ResolutionClaimToJson(claim), ResolutionClaimToJson(other)),
           ParseResolutionClaim(doc) # Failed
    PROVE  ParseResolutionClaim(doc) = claim
<1>1. PICK a, b, cs, ds : /\ a = ResolutionClaimToJson(claim) /\ b = ResolutionClaimToJson(other)
                          /\ cs = claim.candidates /\ ds = other.candidates
  OBVIOUS
<1>2. /\ a = [f \in ClaimFields |-> a[f]]
      /\ \A f \in ClaimFields \ {"candidates"} : a[f] = claim[f]
      /\ a.candidates = [i \in DOMAIN cs |-> CandidateToJson(cs[i])]
      /\ b.candidates = [i \in DOMAIN ds |-> CandidateToJson(ds[i])]
  BY <1>1, ToJsonIs
<1> DEFINE spoilt(i) == /\ i \in DOMAIN b.candidates /\ b.candidates[i].evidence # None
                        /\ a.candidates[i].evidence # None
           told(i) == IF spoilt(i)
                      THEN [a.candidates[i] EXCEPT !.evidence.summary = b.candidates[i].evidence.summary]
                      ELSE a.candidates[i]
<1>3. doc = [a EXCEPT !.candidates = [i \in DOMAIN a.candidates |-> told(i)]]
  BY <1>1 DEF Recounted
<1>4. doc.candidates = [i \in DOMAIN cs |-> told(i)]
  BY <1>2, <1>3 DEF ClaimFields
<1>5. \A c \in ToSet(ParseCandidates(doc.candidates)) : c.evidence # Failed
  BY DEF ParseResolutionClaim
<1>6. ASSUME NEW i \in DOMAIN cs PROVE ParseCandidate(doc.candidates[i]) = cs[i]
  <2>1. CandidateKept(cs[i])
    BY <1>1 DEF Written, ToSet
  <2>2. a.candidates[i] = CandidateToJson(cs[i]) /\ doc.candidates[i] = told(i)
    BY <1>2, <1>4
  <2>3. ParseCandidate(doc.candidates[i]).evidence # Failed
    <3>1. ParseCandidates(doc.candidates)[i] = ParseCandidate(doc.candidates[i])
          /\ i \in DOMAIN ParseCandidates(doc.candidates)
      BY <1>4 DEF ParseCandidates
    <3> QED BY <1>5, <3>1 DEF ToSet
  <2>4. CASE ~spoilt(i)
    <3>1. doc.candidates[i] = CandidateToJson(cs[i])
      BY <2>2, <2>4
    <3> QED BY <2>1, <3>1, CandidateReads
  <2>5. CASE spoilt(i)
    <3>1. i \in DOMAIN ds /\ b.candidates[i] = CandidateToJson(ds[i])
      BY <1>2, <2>5
    <3>2. CandidateKept(ds[i])
      BY <1>1, <3>1 DEF Written, ToSet
    <3>3. cs[i].evidence # None /\ ds[i].evidence # None
      BY <2>1, <2>2, <2>5, <3>1, <3>2, CandidateReads
    <3>4. PICK e : e = ds[i].evidence /\ Kept(e)
      BY <3>2, <3>3 DEF CandidateKept
    <3>5. b.candidates[i].evidence = EvidenceToJson(e)
      BY <3>1, <3>2, <3>3, <3>4 DEF CandidateToJson, CandidateKept
    <3>6. doc.candidates[i] = [CandidateToJson(cs[i]) EXCEPT !.evidence.summary = EvidenceToJson(e).summary]
      BY <2>2, <2>5, <3>5
    <3> QED BY <2>1, <2>3, <3>3, <3>4, <3>6, RecountedReads
  <2> QED BY <2>4, <2>5
<1>7. ParseCandidates(doc.candidates) = cs
  <2>1. PICK n \in Nat : DOMAIN cs = 1 .. n /\ cs \in [1 .. n -> ToSet(cs)]
    BY <1>1 DEF Written, Sortable
  <2>2. cs = [i \in DOMAIN cs |-> cs[i]]
    BY <2>1
  <2>3. ParseCandidates(doc.candidates) = [i \in DOMAIN cs |-> ParseCandidate(doc.candidates[i])]
    BY <1>4 DEF ParseCandidates
  <2> HIDE DEF told
  <2> QED BY <1>6, <2>2, <2>3
<1>8. [doc EXCEPT !.candidates = cs] = claim
  <2>1. claim = [f \in ClaimFields |-> claim[f]]
    BY DEF Written
  <2>2. PICK xs : doc = [a EXCEPT !.candidates = xs]
    BY <1>3
  <2> QED BY <1>1, <1>2, <2>1, <2>2 DEF ClaimFields
<1>9. ParseResolutionClaim(doc) = FinalizeResolutionClaim([doc EXCEPT !.candidates = ParseCandidates(@)])
  BY DEF ParseResolutionClaim
<1>10. [doc EXCEPT !.candidates = ParseCandidates(@)] = claim
  BY <1>7, <1>8
<1> QED BY <1>9, <1>10, FinalizedAgain

(* What a written claim prints as has the fields of a claim.                   *)
IsDocument(a) == a = [f \in ClaimFields |-> a[f]]

LEMMA WrittenIsDocument ==
    ASSUME NEW claim, Written(claim)
    PROVE  IsDocument(ResolutionClaimToJson(claim))
<1>1. PICK a, cs : /\ a = ResolutionClaimToJson(claim)
                   /\ cs = [i \in DOMAIN claim.candidates |-> CandidateToJson(claim.candidates[i])]
  OBVIOUS
<1>2. claim = [f \in ClaimFields |-> claim[f]]
  BY DEF Written
<1>3. a = [claim EXCEPT !.candidates = cs]
  BY <1>1 DEF ResolutionClaimToJson
<1>4. a = [f \in ClaimFields |-> a[f]]
  BY <1>2, <1>3
<1> QED BY <1>1, <1>4 DEF IsDocument

LEMMA SplicedRead ==
    ASSUME NEW claim, Written(claim), NEW other, Written(other), NEW field \in ClaimFields, NEW doc,
           doc = Spliced(ResolutionClaimToJson(claim), ResolutionClaimToJson(other), field),
           ParseResolutionClaim(doc) # Failed
    PROVE  Decision(ParseResolutionClaim(doc)) = Decision(IF field = "candidates" THEN other ELSE claim)
<1>1. PICK a, b : a = ResolutionClaimToJson(claim) /\ b = ResolutionClaimToJson(other)
  OBVIOUS
<1>2. a = [f \in ClaimFields |-> a[f]]
  <2>1. IsDocument(a)
    BY <1>1, WrittenIsDocument
  <2> QED BY <2>1 DEF IsDocument
<1>3. doc = [a EXCEPT ![field] = b[field]]
  BY <1>1 DEF Spliced
<1>4. doc = [f \in ClaimFields |-> doc[f]] /\ \A f \in ClaimFields : doc[f] = IF f = field THEN b[f] ELSE a[f]
  BY <1>2, <1>3
<1>5. doc.candidates = IF field = "candidates" THEN b.candidates ELSE a.candidates
  BY <1>4 DEF ClaimFields
<1>6. ParseCandidates(a.candidates) = claim.candidates /\ ParseCandidates(b.candidates) = other.candidates
  BY <1>1, CandidatesRead
<1>7. CASE field = "candidates"
  BY <1>4, <1>5, <1>6, <1>7, ReadTellsDecision
<1>8. CASE field # "candidates"
  BY <1>4, <1>5, <1>6, <1>8, ReadTellsDecision
<1> QED BY <1>7, <1>8

(* ClaimsReadBack, of two claims, or of one claim twice.                      *)
PairReads(claim, other, same) ==
    LET a == ResolutionClaimToJson(claim)
        b == ResolutionClaimToJson(other)
    IN /\ ParseResolutionClaim(Recounted(a, b)) \in {claim, Failed}
       /\ same => ParseResolutionClaim(a) = claim
       /\ ~same => \A field \in DOMAIN a \ {"candidates"} :
             \E read \in {ParseResolutionClaim(Spliced(a, b, field))} :
                read # Failed => Decision(read) = Decision(claim)
       /\ ~same => \E read \in {ParseResolutionClaim(Spliced(a, b, "candidates"))} :
             read # Failed => Decision(read) = Decision(other)

LEMMA PairOfWritten ==
    ASSUME NEW claim, Written(claim), NEW other, Written(other), NEW same
    PROVE  PairReads(claim, other, same)
<1>1. PICK a, b : a = ResolutionClaimToJson(claim) /\ b = ResolutionClaimToJson(other)
  OBVIOUS
<1>2. DOMAIN a = ClaimFields /\ "candidates" \in ClaimFields
  <2>1. IsDocument(a)
    BY <1>1, WrittenIsDocument
  <2> QED BY <2>1 DEF ClaimFields, IsDocument
<1>3. ParseResolutionClaim(Recounted(a, b)) \in {claim, Failed}
  BY <1>1, RecountedClaimReads
<1>4. ParseResolutionClaim(a) = claim
  BY <1>1, WrittenReads
<1>5. ASSUME NEW field \in ClaimFields, ParseResolutionClaim(Spliced(a, b, field)) # Failed
      PROVE  Decision(ParseResolutionClaim(Spliced(a, b, field)))
               = Decision(IF field = "candidates" THEN other ELSE claim)
  BY <1>1, <1>5, SplicedRead
<1> QED BY <1>1, <1>2, <1>3, <1>4, <1>5 DEF PairReads

LEMMA WrittenClaims == (\A k \in ToSet(claims) : Written(k.claim)) => ClaimsReadBack
<1> SUFFICES ASSUME \A k \in ToSet(claims) : Written(k.claim),
                    NEW i \in DOMAIN claims, NEW j \in DOMAIN claims
             PROVE  PairReads(claims[i].claim, claims[j].claim, i = j)
  BY DEF ClaimsReadBack, PairReads
<1> QED BY PairOfWritten DEF ToSet

(* ---- the behaviour --------------------------------------------------------- *)
LEMMA Appended ==
    ASSUME NEW seq, seq \in Seq(ToSet(seq)), NEW e
    PROVE  /\ Append(seq, e) \in Seq(ToSet(Append(seq, e)))
           /\ \A x \in ToSet(Append(seq, e)) : x \in ToSet(seq) \/ x = e
<1>1. PICK T : T = ToSet(seq)
  OBVIOUS
<1>2. seq \in Seq(T)
  BY <1>1
<1>3. PICK n \in Nat : n = Len(seq) /\ DOMAIN seq = 1 .. n
  BY <1>2
<1>4. PICK more : more = Append(seq, e)
  OBVIOUS
<1>5. /\ DOMAIN more = 1 .. n + 1 /\ more \in Seq(T \cup {e}) /\ Len(more) = n + 1
      /\ \A i \in 1 .. n + 1 : more[i] = IF i = n + 1 THEN e ELSE seq[i]
  BY <1>2, <1>3, <1>4
<1>6. more \in [1 .. n + 1 -> ToSet(more)]
  BY <1>5 DEF ToSet
<1>7. more \in Seq(ToSet(more))
  BY <1>6
<1>8. ASSUME NEW x \in ToSet(more) PROVE x \in T \/ x = e
  <2>1. PICK i \in 1 .. n + 1 : x = more[i]
    BY <1>5 DEF ToSet
  <2>2. i # n + 1 => i \in DOMAIN seq
    BY <1>3
  <2> QED BY <1>1, <1>5, <2>1, <2>2 DEF ToSet
<1> QED BY <1>1, <1>4, <1>7, <1>8

LEMMA Removed ==
    ASSUME NEW seq, seq \in Seq(ToSet(seq)), NEW i \in DOMAIN seq
    PROVE  /\ RemoveAt(seq, i) \in Seq(ToSet(RemoveAt(seq, i)))
           /\ ToSet(RemoveAt(seq, i)) \subseteq ToSet(seq)
<1>1. PICK T : T = ToSet(seq)
  OBVIOUS
<1>2. seq \in Seq(T)
  BY <1>1
<1>3. PICK n \in Nat : n = Len(seq) /\ DOMAIN seq = 1 .. n
  BY <1>2
<1>4. PICK less : less = RemoveAt(seq, i)
  OBVIOUS
<1>5. SubSeq(seq, 1, i - 1) \in Seq(T) /\ SubSeq(seq, i + 1, Len(seq)) \in Seq(T)
  BY <1>2, <1>3
<1>6. less \in Seq(T)
  BY <1>4, <1>5 DEF RemoveAt
<1>7. PICK m \in Nat : DOMAIN less = 1 .. m /\ Len(less) = m
  BY <1>6
<1>8. less \in [1 .. m -> ToSet(less)]
  BY <1>6, <1>7 DEF ToSet
<1>9. less \in Seq(ToSet(less))
  BY <1>8
<1>10. ToSet(less) \subseteq T
  BY <1>6 DEF ToSet
<1> QED BY <1>1, <1>4, <1>9, <1>10

LEMMA Replaced ==
    ASSUME NEW seq, seq \in Seq(ToSet(seq)), NEW i \in DOMAIN seq, NEW e, NEW other,
           other = [seq EXCEPT ![i] = e]
    PROVE  /\ other \in Seq(ToSet(other))
           /\ \A x \in ToSet(other) : x \in ToSet(seq) \/ x = e
<1>1. PICK T : T = ToSet(seq)
  OBVIOUS
<1>2. seq \in Seq(T)
  BY <1>1
<1>3. PICK n \in Nat : n = Len(seq) /\ DOMAIN seq = 1 .. n
  BY <1>2
<1>4. /\ other = [j \in 1 .. n |-> other[j]]
      /\ \A j \in 1 .. n : other[j] = IF j = i THEN e ELSE seq[j]
  BY <1>2, <1>3
<1>5. other \in [1 .. n -> ToSet(other)]
  BY <1>4 DEF ToSet
<1>6. other \in Seq(ToSet(other))
  BY <1>5, SequenceOf
<1> QED BY <1>3, <1>4, <1>6 DEF ToSet

OutcomesGenuine == outcomes \in Seq(ToSet(outcomes)) /\ \A o \in ToSet(outcomes) : Genuine(o)
ClaimsSound == claims \in Seq(ToSet(claims)) /\ \A k \in ToSet(claims) : EarnedClaim(k) /\ Written(k.claim)
TracerSound == documents \in AllDocuments /\ OutcomesGenuine /\ ClaimsSound

LEMMA SoundInit == TracerInit => TracerSound
<1> SUFFICES ASSUME TracerInit PROVE TracerSound
  OBVIOUS
<1>1. documents \in AllDocuments
  BY DocumentsAssumption DEF TracerInit
<1>2. outcomes = <<>> /\ claims = <<>> /\ ToSet(<<>>) = {} /\ <<>> \in Seq({})
  BY DEF TracerInit, ToSet
<1> QED BY <1>1, <1>2 DEF TracerSound, OutcomesGenuine, ClaimsSound

LEMMA EditsAreListed == ASSUME documents \in AllDocuments, Edits PROVE documents' \in AllDocuments
<1>1. ASSUME NEW values, NEW field \in {"theory", "realizations", "suites", "policy"}, Edit(field, values),
             \A v \in values, d \in AllDocuments : [d EXCEPT ![field] = v] \in AllDocuments
      PROVE  documents' \in AllDocuments
  BY <1>1 DEF Edit
<1>2. \A v \in Theories, d \in AllDocuments : [d EXCEPT !["theory"] = v] \in AllDocuments
  BY DEF AllDocuments, AllTheories
<1>3. \A v \in RealizationLists, d \in AllDocuments : [d EXCEPT !["realizations"] = v] \in AllDocuments
  BY DEF AllDocuments, AllRealizationLists
<1>4. \A v \in SuiteLists, d \in AllDocuments : [d EXCEPT !["suites"] = v] \in AllDocuments
  BY DEF AllDocuments, AllSuiteLists
<1>5. \A v \in Policies, d \in AllDocuments : [d EXCEPT !["policy"] = v] \in AllDocuments
  BY DEF AllDocuments
<1> QED BY <1>1, <1>2, <1>3, <1>4, <1>5 DEF Edits

LEMMA Listed == ASSUME documents \in AllDocuments PROVE DocumentsAreListed(documents)
<1> QED BY DocumentsAssumption

(* What is produced of any of the documents' realizations.                    *)
LEMMA ProducedFromDocuments ==
    ASSUME documents \in AllDocuments, NEW theory, theory = NormalizeTheory(documents.theory), theory # Failed,
           NEW i \in DOMAIN documents.realizations,
           NEW o, o = ProduceEvidence(theory, Normalized(documents, theory)[i], documents.suites), o # Failed
    PROVE  Genuine(o)
<1>1. \A j \in DOMAIN documents.suites : documents.suites[j].cases \in Seq(DOMAIN CaseOf)
  BY Listed DEF DocumentsAreListed, ToSet
<1>2. Normalized(documents, theory)[i].identity.operations = Normalized(documents, theory)[i].operations
  BY NormalizedIs
<1>3. ASSUME NEW j \in DOMAIN documents.suites,
             Normalized(documents, theory)[i].operations.transition \in TransitionNames
      PROVE  Tested(theory, Normalized(documents, theory)[i], documents.suites[j]) \in Bodies
  <2>1. PICK r : r = Normalized(documents, theory)[i] /\ r \in Testable(documents, theory)
    <3>1. i \in DOMAIN Normalized(documents, theory)
      BY DEF Normalized
    <3> QED BY <1>3, <3>1 DEF Testable, ToSet
  <2>2. documents.suites[j] \in ToSet(documents.suites)
    BY DEF ToSet
  <2>3. Tested(theory, r, documents.suites[j]) \in BodiesFrom(documents, theory)
    BY <2>1, <2>2 DEF BodiesFrom
  <2>4. documents \in {d \in AllDocuments : NormalizeTheory(d.theory) # Failed}
    OBVIOUS
  <2> QED BY <2>1, <2>3, <2>4, Zenon DEF Bodies
<1> QED BY <1>1, <1>2, <1>3, ProducedIsGenuine

LEMMA CollectedIsGenuine ==
    ASSUME OutcomesGenuine, NEW outs, \A o \in outs \ {Failed} : Genuine(o), Collect(outs)
    PROVE  OutcomesGenuine'
<1>1. PICK o \in outs \ {Failed} : outcomes' = Append(outcomes, o)
  BY DEF Collect
<1> QED BY <1>1, Appended DEF OutcomesGenuine

LEMMA ReplacedIsGenuine ==
    ASSUME OutcomesGenuine, NEW i \in DOMAIN outcomes, NEW o, Genuine(o), outcomes' = [outcomes EXCEPT ![i] = o]
    PROVE  OutcomesGenuine'
<1>1. /\ outcomes' \in Seq(ToSet(outcomes'))
      /\ \A x \in ToSet(outcomes') : x \in ToSet(outcomes) \/ x = o
  BY Replaced DEF OutcomesGenuine
<1> QED BY <1>1 DEF OutcomesGenuine

LEMMA TransportIsGenuine == ASSUME OutcomesGenuine, Transport PROVE OutcomesGenuine'
<1>1. ASSUME LoseOutcome PROVE OutcomesGenuine'
  <2>1. PICK i \in DOMAIN outcomes : outcomes' = RemoveAt(outcomes, i)
    BY <1>1 DEF LoseOutcome, Fault
  <2> QED BY <2>1, Removed DEF OutcomesGenuine
<1>2. ASSUME NEW realizations, RebindOutcome(realizations) PROVE OutcomesGenuine'
  <2>1. PICK i \in DOMAIN outcomes, r \in ToSet(realizations) :
          outcomes' = [outcomes EXCEPT ![i].id = r.id, ![i].identity = r.identity]
    BY <1>2 DEF RebindOutcome, Fault
  <2>2. PICK o : o = [outcomes[i] EXCEPT !.id = r.id, !.identity = r.identity]
    OBVIOUS
  <2>3. outcomes' = [outcomes EXCEPT ![i] = o]
    BY <2>1, <2>2
  <2>4. Genuine(outcomes[i])
    BY DEF OutcomesGenuine, ToSet
  <2>5. Genuine(o)
    BY <2>2, <2>4 DEF Genuine
  <2> QED BY <2>3, <2>5, ReplacedIsGenuine
<1>3. ASSUME AlterOutcome PROVE OutcomesGenuine'
  <2>1. PICK i \in DOMAIN outcomes :
          outcomes[i].ok /\ outcomes' = [outcomes EXCEPT ![i].result.body = Whitewashed(@)]
    BY <1>3 DEF AlterOutcome, Fault
  <2>2. PICK o : o = [outcomes[i] EXCEPT !.result.body = Whitewashed(@)]
    OBVIOUS
  <2>3. outcomes' = [outcomes EXCEPT ![i] = o]
    BY <2>1, <2>2
  <2>4. Genuine(outcomes[i])
    BY DEF OutcomesGenuine, ToSet
  <2>5. Genuine(o)
    BY <2>1, <2>2, <2>4 DEF Genuine
  <2> QED BY <2>3, <2>5, ReplacedIsGenuine
<1> QED BY <1>1, <1>2, <1>3 DEF Transport

LEMMA RecordedClaims ==
    ASSUME TracerSound, NEW theory, theory = NormalizeTheory(documents.theory), theory # Failed,
           NEW outs, outs \in Seq(ToSet(outs)), \A o \in ToSet(outs) : Genuine(o),
           NEW claim,
           claim = Claimed(theory, documents.policy,
                           Resolve(theory, Normalized(documents, theory), outs, documents.policy)),
           NEW execution, execution \in {None, Execution(claim, Normalized(documents, theory))},
           Record(claim, outs, execution)
    PROVE  TracerSound'
<1>1. /\ claim # Failed
      /\ claims' = Append(claims, [claim |-> claim, documents |-> documents, outcomes |-> outs, execution |-> execution])
      /\ documents' = documents /\ outcomes' = outcomes
  BY DEF Record
<1>2. EarnedClaim([claim |-> claim, documents |-> documents, outcomes |-> outs, execution |-> execution])
  BY <1>1, Listed, RecordedIsEarned DEF TracerSound
<1>3. Written(claim)
  BY <1>1, BuiltIsWritten DEF TracerSound
<1>4. ClaimsSound'
  BY <1>1, <1>2, <1>3, Appended DEF TracerSound, ClaimsSound
<1> QED BY <1>1, <1>4 DEF TracerSound, OutcomesGenuine

LEMMA SoundStep == TracerSound /\ [TracerNext]_tracerVars => TracerSound'
<1> SUFFICES ASSUME TracerSound, [TracerNext]_tracerVars PROVE TracerSound'
  OBVIOUS
<1> PICK theory : theory = NormalizeTheory(documents.theory)
  OBVIOUS
<1>1. CASE Edits
  <2>1. documents' \in AllDocuments
    BY <1>1, EditsAreListed DEF TracerSound
  <2>2. outcomes' = outcomes /\ claims' = claims
    BY <1>1 DEF Edits, Edit
  <2> QED BY <2>1, <2>2 DEF TracerSound, OutcomesGenuine, ClaimsSound
<1>2. CASE ProduceOne(theory)
  <2> DEFINE outs == {ProduceEvidence(theory, r, documents.suites) : r \in ToSet(Normalized(documents, theory))}
  <2>1. ASSUME NEW o \in outs \ {Failed} PROVE Genuine(o)
    <3>1. PICK i \in DOMAIN Normalized(documents, theory) :
            o = ProduceEvidence(theory, Normalized(documents, theory)[i], documents.suites)
      BY DEF ToSet
    <3>2. i \in DOMAIN documents.realizations
      BY DEF Normalized
    <3>3. theory # Failed
      BY <1>2 DEF ProduceOne
    <3> QED BY <3>1, <3>2, <3>3, ProducedFromDocuments DEF TracerSound
  <2>2. Collect(outs)
    BY <1>2 DEF ProduceOne
  <2>3. OutcomesGenuine'
    BY <2>1, <2>2, CollectedIsGenuine DEF TracerSound
  <2>4. documents' = documents /\ claims' = claims
    BY <2>2 DEF Collect
  <2> QED BY <2>3, <2>4 DEF TracerSound, ClaimsSound
<1>3. CASE Transport
  <2>1. OutcomesGenuine'
    BY <1>3, TransportIsGenuine DEF TracerSound
  <2>2. documents' = documents /\ claims' = claims
    <3>1. CASE LoseOutcome \/ AlterOutcome
      BY <3>1 DEF LoseOutcome, AlterOutcome, Fault
    <3>2. CASE RebindOutcome(Normalized(documents, NormalizeTheory(documents.theory)))
      BY <3>2 DEF RebindOutcome, Fault
    <3> QED BY <1>3, <3>1, <3>2 DEF Transport
  <2> QED BY <2>1, <2>2 DEF TracerSound, ClaimsSound
<1>4. CASE ResolveOutcomes(theory)
  BY <1>4, RecordedClaims DEF ResolveOutcomes, TracerSound, OutcomesGenuine
<1>5. CASE RunDemo(theory)
  <2>1. PICK realizations, outs :
          /\ realizations = Normalized(documents, theory)
          /\ outs = [i \in DOMAIN realizations |-> ProduceEvidence(theory, realizations[i], documents.suites)]
    OBVIOUS
  <2>2. theory # Failed /\ Demonstrate(theory, realizations, outs)
    BY <1>5, <2>1 DEF RunDemo
  <2>3. Failed \notin ToSet(outs)
    BY <2>2 DEF Demonstrate
  <2>4. PICK claim : /\ claim = Claimed(theory, documents.policy, Resolve(theory, realizations, outs, documents.policy))
                     /\ Record(claim, outs, Execution(claim, realizations))
    BY <2>2 DEF Demonstrate
  <2>5. outs \in Seq(ToSet(outs))
    <3>1. realizations \in Seq(ToSet(realizations))
      BY <2>1, Listed, ListsNormalized DEF TracerSound, DocumentsAreListed
    <3>2. PICK n \in Nat : DOMAIN realizations = 1 .. n
      BY <3>1
    <3>3. outs \in [1 .. n -> ToSet(outs)]
      BY <2>1, <3>2 DEF ToSet
    <3> QED BY <3>3
  <2>6. ASSUME NEW o \in ToSet(outs) PROVE Genuine(o)
    <3>1. PICK i \in DOMAIN realizations : o = ProduceEvidence(theory, realizations[i], documents.suites)
      BY <2>1 DEF ToSet
    <3>2. i \in DOMAIN documents.realizations
      BY <2>1 DEF Normalized
    <3>3. o # Failed
      BY <2>3
    <3> QED BY <2>1, <2>2, <3>1, <3>2, <3>3, ProducedFromDocuments DEF TracerSound
  <2> QED BY <2>1, <2>2, <2>4, <2>5, <2>6, RecordedClaims
<1>6. CASE UNCHANGED tracerVars
  BY <1>6 DEF tracerVars, TracerSound, OutcomesGenuine, ClaimsSound
<1> QED BY <1>1, <1>2, <1>3, <1>4, <1>5, <1>6 DEF TracerNext

(* A claim selects a realization exactly when it is the only one that earned  *)
(* it, whatever edits, losses, rebindings and alterations of outcomes came    *)
(* between (resolver.ts, evidence.ts).                                        *)
THEOREM SelectionIsEarnedHolds == TracerSpec => []SelectionIsEarned
<1>1. TracerSound => SelectionIsEarned
  BY EarnedClaims DEF TracerSound, ClaimsSound
<1> QED BY SoundInit, SoundStep, <1>1, PTL DEF TracerSpec

(* A claim reads back as itself, and with something of another claim in it as *)
(* a claim of the same decision as its candidates, or not at all              *)
(* (resolution-claim.ts, evidence-result.ts).                                 *)
THEOREM ClaimsReadBackHolds == TracerSpec => []ClaimsReadBack
<1>1. TracerSound => ClaimsReadBack
  BY WrittenClaims DEF TracerSound, ClaimsSound
<1> QED BY SoundInit, SoundStep, <1>1, PTL DEF TracerSpec
-----------------------------------------------------------------------------
(* Part 3.  The production side and the independent checker.                  *)
(* ---- one reading of the documents ------------------------------------------ *)
Recomputed(docs, theory) ==
    [i \in DOMAIN docs.realizations |-> RecomputeRealization(docs.realizations[i], theory)]

LEMMA TheoriesAgree ==
    ASSUME NEW docs \in AllDocuments
    PROVE  RecomputeTheory(docs.theory) = AuthoredTheory(docs.theory)
<1>1. PICK d : d = docs.theory /\ DOMAIN d = {"id", "normalization", "laws", "obligations"}
  BY FieldsAssumption
<1>2. DOMAIN d \ {"id"} = {"normalization", "laws", "obligations"}
  BY <1>1
<1>3. [f \in {"normalization", "laws", "obligations"} |-> d[f]]
        = [normalization |-> d.normalization, laws |-> d.laws, obligations |-> d.obligations]
  OBVIOUS
<1> QED BY <1>1, <1>2, <1>3 DEF RecomputeTheory, AuthoredTheory

LEMMA RealizationsAgree ==
    ASSUME NEW docs \in AllDocuments, NEW theory, NEW i \in DOMAIN docs.realizations
    PROVE  /\ Recomputed(docs, theory)[i].id = docs.realizations[i].id
           /\ Authored(docs, theory)[i].id = docs.realizations[i].id
           /\ Recomputed(docs, theory)[i].identity = Authored(docs, theory)[i].identity
           /\ Recomputed(docs, theory)[i].targets = Authored(docs, theory)[i].targets
           /\ Recomputed(docs, theory)[i].assumptions = Authored(docs, theory)[i].assumptions
           /\ Authored(docs, theory)[i].identity.theory = theory.identity
<1>1. PICK d : /\ d = docs.realizations[i] /\ d \in ToSet(docs.realizations)
               /\ DOMAIN d = {"id", "theory", "operations", "assumptions"}
  BY FieldsAssumption DEF ToSet
<1>2. (DOMAIN d \ {"id", "theory"}) \cup {"theory"} = {"theory", "operations", "assumptions"}
  BY <1>1
<1>3. [f \in {"theory", "operations", "assumptions"} |-> IF f = "theory" THEN theory.identity ELSE d[f]]
        = [theory |-> theory.identity, operations |-> d.operations, assumptions |-> d.assumptions]
  OBVIOUS
<1> QED BY <1>1, <1>2, <1>3 DEF Recomputed, Authored, RecomputeRealization, AuthoredRealization

(* ---- one reading of the tables --------------------------------------------- *)
(* A candidate that a precondition stops, and what it is told then.           *)
Blocked(theory, r, o) ==
    ~r.targets \/ theory.obligation = None \/ ~o.ok \/ o.result.body.obligation # theory.obligation

EarlyReason(theory, r, o) ==
    IF ~r.targets THEN "theory_mismatch"
    ELSE IF theory.obligation = None THEN "required_obligation_set_unsupported"
    ELSE IF ~o.ok THEN DiagnosticReason(o.diagnostic)
    ELSE "evidence_obligation_mismatch"

LateReasons(policy, r, body) ==
    {rule.reason : rule \in {x \in REQUIREMENT_RULES :
        /\ x.dependsOn = None \/ EvaluateRequirement(x.dependsOn, policy, r, body)
        /\ ~EvaluateRequirement(x.check, policy, r, body)}}

RequirementReasons ==
    {"obligation_not_governed", "evidence_category_not_accepted", "assumptions_not_allowed", "conformance_failed"}

LEMMA LateAreRequirements ==
    ASSUME NEW policy, NEW r, NEW body
    PROVE  LateReasons(policy, r, body) \subseteq RequirementReasons
<1> QED BY DEF LateReasons, REQUIREMENT_RULES, Rule, RequirementReasons

LEMMA EarlyIsNone ==
    ASSUME NEW theory, NEW r, NEW o, ~o.ok => o.diagnostic \in DiagnosticKinds
    PROVE  EarlyReason(theory, r, o) \notin RequirementReasons
<1> QED BY DEF EarlyReason, DiagnosticReason, DiagnosticKinds, RequirementReasons

(* The rules by their place.                                                  *)
LEMMA PreconditionsAre ==
    /\ DOMAIN PRECONDITION_RULES = 1 .. 4 /\ Len(PRECONDITION_RULES) = 4
    /\ PRECONDITION_RULES[1].check = "targets_theory" /\ PRECONDITION_RULES[1].reason = "theory_mismatch"
    /\ PRECONDITION_RULES[2].check = "obligation_declared"
    /\ PRECONDITION_RULES[2].reason = "required_obligation_set_unsupported"
    /\ PRECONDITION_RULES[3].check = "producer_ok" /\ PRECONDITION_RULES[3].reason = None
    /\ PRECONDITION_RULES[4].check = "evidence_obligation_match"
    /\ PRECONDITION_RULES[4].reason = "evidence_obligation_mismatch"
    /\ None \notin {"theory_mismatch", "required_obligation_set_unsupported", "evidence_obligation_mismatch"}
<1>1. /\ DOMAIN PRECONDITION_RULES = 1 .. 4 /\ Len(PRECONDITION_RULES) = 4
      /\ PRECONDITION_RULES[1].check = "targets_theory" /\ PRECONDITION_RULES[1].reason = "theory_mismatch"
      /\ PRECONDITION_RULES[2].check = "obligation_declared"
      /\ PRECONDITION_RULES[2].reason = "required_obligation_set_unsupported"
      /\ PRECONDITION_RULES[3].check = "producer_ok" /\ PRECONDITION_RULES[3].reason = None
      /\ PRECONDITION_RULES[4].check = "evidence_obligation_match"
      /\ PRECONDITION_RULES[4].reason = "evidence_obligation_mismatch"
  BY DEF PRECONDITION_RULES, Rule
<1> QED BY <1>1, NoPacketAssumption

(* The first of four that fails.                                              *)
LEMMA FourPlaces == ASSUME NEW S \in SUBSET (1 .. 4) PROVE S # {} <=> 1 \in S \/ 2 \in S \/ 3 \in S \/ 4 \in S
<1>1. \A i \in S : i = 1 \/ i = 2 \/ i = 3 \/ i = 4
  OBVIOUS
<1> QED BY <1>1

LEMMA FirstOfFour ==
    ASSUME NEW S, S \in SUBSET (1 .. 4)
    PROVE  /\ S # {} => Min(S) = IF 1 \in S THEN 1 ELSE IF 2 \in S THEN 2 ELSE IF 3 \in S THEN 3 ELSE 4
           /\ S # {} => Min(S) \in S
<1> SUFFICES ASSUME S # {} PROVE \E m \in S : Min(S) = m /\ \A j \in S : m <= j
  OBVIOUS
<1>1. PICK m \in S : \A j \in S : m <= j
  <2>1. 1 \in S \/ 2 \in S \/ 3 \in S \/ 4 \in S
    BY FourPlaces
  <2>2. 1 \in S => \A j \in S : 1 <= j
    OBVIOUS
  <2>3. 1 \notin S /\ 2 \in S => \A j \in S : 2 <= j
    OBVIOUS
  <2>4. 1 \notin S /\ 2 \notin S /\ 3 \in S => \A j \in S : 3 <= j
    OBVIOUS
  <2>5. 1 \notin S /\ 2 \notin S /\ 3 \notin S /\ 4 \in S => \A j \in S : 4 <= j
    OBVIOUS
  <2> QED BY <2>1, <2>2, <2>3, <2>4, <2>5
<1>2. \A x \in S : (\A j \in S : x <= j) => x = m
  BY <1>1
<1>3. Min(S) = m
  BY <1>1, <1>2 DEF Min
<1> QED BY <1>1, <1>3

LEMMA AdjudicatedIs ==
    ASSUME NEW theory, NEW r, NEW o, NEW policy
    PROVE  AdjudicateCandidate(theory, r, o, policy) =
             IF Blocked(theory, r, o)
             THEN Candidate(r, None, o.diagnostic, {EarlyReason(theory, r, o)})
             ELSE Candidate(r, o.result, None, LateReasons(policy, r, o.result.body))
<1>1. PICK S : S = {i \in 1 .. 4 : ~EvaluatePrecondition(PRECONDITION_RULES[i].check, theory, r, o)}
  OBVIOUS
<1>2. /\ 1 \in S <=> ~r.targets
      /\ 2 \in S <=> theory.obligation = None
      /\ 3 \in S <=> ~o.ok
      /\ 4 \in S <=> ~(o.ok /\ o.result.body.obligation = theory.obligation)
  BY <1>1, PreconditionsAre DEF EvaluatePrecondition
<1>3. PICK first : first = SelectInSeq(PRECONDITION_RULES, LAMBDA x : ~EvaluatePrecondition(x.check, theory, r, o))
  OBVIOUS
<1>4. first = IF S # {} THEN Min(S) ELSE 0
  BY <1>1, <1>3, PreconditionsAre DEF SelectInSeq
<1>5. Blocked(theory, r, o) <=> S # {}
  <2>1. S # {} <=> 1 \in S \/ 2 \in S \/ 3 \in S \/ 4 \in S
    BY <1>1, FourPlaces
  <2> QED BY <1>2, <2>1 DEF Blocked
<1>6. first # 0 => first \in 1 .. 4
  BY <1>1, <1>4, FirstOfFour
<1>7. AdjudicateCandidate(theory, r, o, policy) =
        IF first = 0 THEN AdjudicateRequirements(policy, r, o.result)
        ELSE Candidate(r, None, o.diagnostic,
               {IF PRECONDITION_RULES[first].reason = None THEN DiagnosticReason(o.diagnostic)
                ELSE PRECONDITION_RULES[first].reason})
  BY <1>3 DEF AdjudicateCandidate
<1>8. CASE S = {}
  BY <1>4, <1>5, <1>7, <1>8 DEF AdjudicateRequirements, LateReasons
<1>9. CASE S # {}
  <2>1. first = IF 1 \in S THEN 1 ELSE IF 2 \in S THEN 2 ELSE IF 3 \in S THEN 3 ELSE 4
    BY <1>1, <1>4, <1>9, FirstOfFour
  <2>2. (IF PRECONDITION_RULES[first].reason = None THEN DiagnosticReason(o.diagnostic)
         ELSE PRECONDITION_RULES[first].reason) = EarlyReason(theory, r, o)
    BY <1>2, <2>1, PreconditionsAre DEF EarlyReason
  <2>3. first # 0
    BY <2>1
  <2> QED BY <1>5, <1>7, <1>9, <2>2, <2>3
<1> QED BY <1>8, <1>9

LEMMA RecomputedIs ==
    ASSUME NEW theory, NEW r, NEW o, NEW policy, NEW q, q.targets = r.targets, q.assumptions = r.assumptions,
           Blocked(theory, r, o) \/ o.result.body.cases # <<>>
    PROVE  RecomputeReasons(theory, q, o, policy) =
             IF Blocked(theory, r, o) THEN {EarlyReason(theory, r, o)}
             ELSE LateReasons(policy, r, o.result.body)
<1>1. PICK S : S = {i \in DOMAIN PRECONDITION_RULES : ~CheckPrecondition(PRECONDITION_RULES[i].check, theory, q, o)}
  OBVIOUS
<1>2. /\ S \in SUBSET (1 .. 4)
      /\ 1 \in S <=> ~r.targets
      /\ 2 \in S <=> theory.obligation = None
      /\ 3 \in S <=> ~o.ok
      /\ 4 \in S <=> ~(o.ok /\ o.result.body.obligation = theory.obligation)
  BY <1>1, PreconditionsAre DEF CheckPrecondition
<1>3. Blocked(theory, r, o) <=> S # {}
  <2>1. S # {} <=> 1 \in S \/ 2 \in S \/ 3 \in S \/ 4 \in S
    BY <1>2, FourPlaces
  <2> QED BY <1>2, <2>1 DEF Blocked
<1>4. PICK first : first = CHOOSE i \in S : \A j \in S : i <= j
  OBVIOUS
<1>5. first = Min(S)
  BY <1>4 DEF Min
<1>6. RecomputeReasons(theory, q, o, policy) =
        IF S = {}
        THEN {rule.reason : rule \in {x \in REQUIREMENT_RULES :
                /\ x.dependsOn # None => CheckRequirement(x.dependsOn, policy, q, o.result.body)
                /\ ~CheckRequirement(x.check, policy, q, o.result.body)}}
        ELSE {IF PRECONDITION_RULES[first].reason = None THEN DiagnosticReason(o.diagnostic)
              ELSE PRECONDITION_RULES[first].reason}
  BY <1>1, <1>4 DEF RecomputeReasons
<1>7. CASE S # {}
  <2>1. first = IF 1 \in S THEN 1 ELSE IF 2 \in S THEN 2 ELSE IF 3 \in S THEN 3 ELSE 4
    BY <1>2, <1>5, <1>7, FirstOfFour
  <2>2. (IF PRECONDITION_RULES[first].reason = None THEN DiagnosticReason(o.diagnostic)
         ELSE PRECONDITION_RULES[first].reason) = EarlyReason(theory, r, o)
    BY <1>2, <2>1, PreconditionsAre DEF EarlyReason
  <2> QED BY <1>3, <1>6, <1>7, <2>2
<1>8. CASE S = {}
  <2>1. PICK body : body = o.result.body /\ body.cases # <<>>
    BY <1>3, <1>8
  <2>2. ASSUME NEW check \in {"requirement_governed", "category_accepted", "assumptions_allowed", "conformance_passed"}
        PROVE  CheckRequirement(check, policy, q, body) <=> EvaluateRequirement(check, policy, r, body)
    BY <2>1 DEF CheckRequirement, EvaluateRequirement
  <2>3. \A x \in REQUIREMENT_RULES :
          /\ x.check \in {"requirement_governed", "category_accepted", "assumptions_allowed", "conformance_passed"}
          /\ x.dependsOn \in {None, "requirement_governed"}
    BY DEF REQUIREMENT_RULES, Rule
  <2>4. \A x \in REQUIREMENT_RULES :
          (/\ x.dependsOn # None => CheckRequirement(x.dependsOn, policy, q, body)
           /\ ~CheckRequirement(x.check, policy, q, body))
          <=> (/\ x.dependsOn = None \/ EvaluateRequirement(x.dependsOn, policy, r, body)
               /\ ~EvaluateRequirement(x.check, policy, r, body))
    BY <2>2, <2>3
  <2> QED BY <1>3, <1>6, <1>8, <2>1, <2>4 DEF LateReasons
<1> QED BY <1>7, <1>8


(* ---- packets --------------------------------------------------------------- *)
(* A packet, wherever it has been: the identity of its result is the one it   *)
(* was made with.                                                             *)
Traceable(o) ==
    /\ o = [ok |-> o.ok, id |-> o.id, identity |-> o.identity, result |-> o.result, diagnostic |-> o.diagnostic]
    /\ o.ok \in BOOLEAN
    /\ o.ok => /\ o.result = [identity |-> o.result.identity, body |-> o.result.body]
               /\ o.result.identity \in PacketBodies
    /\ ~o.ok => o.diagnostic \in DiagnosticKinds
    /\ o.diagnostic \in DiagnosticKinds \cup {None}

LEMMA PacketBodyIs ==
    ASSUME NEW b \in PacketBodies
    PROVE  b.theory = b.realization.theory /\ b.cases \in Seq(ToSet(b.cases))
<1>1. PICK docs \in AllDocuments : b \in PacketsFrom(docs, AuthoredTheory(docs.theory))
  BY DEF PacketBodies
<1>2. PICK theory : theory = AuthoredTheory(docs.theory)
  OBVIOUS
<1>3. PICK r \in ToSet(Authored(docs, theory)), s \in ToSet(PacketSuites(docs, theory)) : b = Tested(theory, r, s)
  BY <1>1, <1>2 DEF PacketsFrom
<1>4. PICK i \in DOMAIN docs.realizations : r = Authored(docs, theory)[i]
  BY <1>3 DEF ToSet, Authored
<1>5. PICK j \in DOMAIN docs.suites : s = Readdressed(docs.theory, docs.suites[j], theory)
  BY <1>3 DEF ToSet, PacketSuites
<1>6. s.cases = docs.suites[j].cases
  <2>1. {"cases", "theory_identity"} \subseteq DOMAIN docs.suites[j]
    BY FieldsAssumption DEF ToSet
  <2> QED BY <1>5, <2>1 DEF Readdressed
<1>7. s.cases \in Seq(DOMAIN CaseOf)
  BY <1>6, DocumentsAssumption DEF DocumentsAreListed, ToSet
<1>8. b.theory = theory.identity /\ b.realization = r.identity /\ b.cases = ResultsOf(r, s)
  BY <1>3 DEF Tested
<1>9. b.realization.theory = theory.identity
  BY <1>4, <1>8, RealizationsAgree
<1>10. PICK n \in Nat : DOMAIN s.cases = 1 .. n
  BY <1>7
<1>11. b.cases \in [1 .. n -> ToSet(b.cases)]
  BY <1>8, <1>10 DEF ResultsOf, ToSet
<1> QED BY <1>8, <1>9, <1>11, SequenceOf

(* Cases that differ in their ids are counted by their places.                *)
LEMMA CountedByPlace ==
    ASSUME NEW cases, cases \in Seq(ToSet(cases)), IsInjective(Ids(cases))
    PROVE  Cardinality({i \in DOMAIN cases : cases[i].passed}) = Cardinality({c \in ToSet(cases) : c.passed})
<1> DEFINE P == {i \in DOMAIN cases : cases[i].passed}
           Q == {c \in ToSet(cases) : c.passed}
           f == [i \in P |-> cases[i]]
<1>1. PICK n \in Nat : DOMAIN cases = 1 .. n
  OBVIOUS
<1>2. IsFiniteSet(P)
  <2>1. IsFiniteSet(1 .. n)
    BY FS_Interval
  <2> QED BY <1>1, <2>1, FS_Subset
<1>3. \A i, j \in DOMAIN cases : cases[i] = cases[j] => i = j
  BY DEF IsInjective, Ids
<1>4. f \in [P -> Q]
  BY DEF ToSet
<1>5. \A i, j \in P : f[i] = f[j] => i = j
  BY <1>3
<1>6. \A c \in Q : \E i \in P : f[i] = c
  BY DEF ToSet
<1>7. f \in Surjection(P, Q) /\ f \in Injection(P, Q)
  BY <1>4, <1>5, <1>6 DEF Surjection, Injection, IsInjective
<1>8. Cardinality(Q) = Cardinality(P)
  BY <1>2, <1>7, FS_Surjection
<1> QED BY <1>8

(* Evidence as a claim carries it.                                            *)
PacketKept(e) ==
    /\ e = [identity |-> e.body, body |-> e.body]
    /\ e.body \in PacketBodies
    /\ ReadEvidence(EvidenceToJson(e))

LEMMA ParsedIsKept ==
    ASSUME NEW o, Traceable(o), ParsePacket(o), o.ok
    PROVE  /\ PacketKept(o.result) /\ ReadPacket(o)
           /\ o.result.body.cases # <<>> /\ o.result.body.theory = o.result.body.realization.theory
<1>1. PICK e, body : /\ e = o.result /\ body = o.result.body /\ e = [identity |-> body, body |-> body]
                     /\ body \in PacketBodies
  BY DEF Traceable, ParsePacket
<1>2. body.theory = body.realization.theory /\ body.cases \in Seq(ToSet(body.cases))
  BY <1>1, PacketBodyIs
<1>3. PICK cases : cases = body.cases
  OBVIOUS
<1>4. /\ body.category = EvidenceCategory /\ cases # <<>>
      /\ \A c \in ToSet(cases) : c.passed = (c.detail = None)
      /\ IsInjective(Ids(cases))
  BY <1>1, <1>3 DEF ParsePacket
<1>5. EvidencePassed(body) <=> \A c \in ToSet(cases) : c.passed
  <2>1. EvidencePassed(body) <=> \A i \in DOMAIN cases : cases[i].passed
    BY <1>2, <1>3, <1>4, PassedIff
  <2> QED BY <2>1 DEF ToSet
<1>6. Cardinality(PassedCases(body)) = Cardinality({c \in ToSet(cases) : c.passed})
  BY <1>2, <1>3, <1>4, CountedByPlace DEF PassedCases
<1>7. PICK doc : doc = EvidenceToJson(e)
  OBVIOUS
<1>8. /\ doc.identity = body /\ doc.body = body
      /\ doc.summary.total_cases = Len(cases)
      /\ doc.summary.passed_cases = Cardinality(PassedCases(body))
      /\ doc.summary.passed = EvidencePassed(body)
  BY <1>1, <1>3, <1>7 DEF EvidenceToJson, Summary
<1>9. EvidencePassed(body) \in BOOLEAN
  BY DEF EvidencePassed
<1>10. doc.summary.passed = (\A c \in ToSet(cases) : c.passed)
  BY <1>5, <1>8, <1>9
<1>11. ReadEvidence(doc)
  BY <1>3, <1>4, <1>6, <1>8, <1>10 DEF ReadEvidence
<1> QED BY <1>1, <1>2, <1>3, <1>4, <1>7, <1>11 DEF PacketKept, ReadPacket

LEMMA KeptIsSome ==
    ASSUME NEW e, PacketKept(e)
    PROVE  EvidenceToJson(e) # None /\ EvidenceToJson(e).body = e.body /\ EvidenceToJson(e).identity = e.body
<1>1. PICK doc : doc = EvidenceToJson(e)
  OBVIOUS
<1>2. doc = [identity |-> e.body, body |-> e.body, summary |-> Summary(e.body)] /\ e.body \in PacketBodies
  BY <1>1 DEF PacketKept, EvidenceToJson
<1>3. doc \in [identity : PacketBodies, body : PacketBodies, summary : {Summary(b) : b \in PacketBodies}]
  BY <1>2
<1> QED BY <1>1, <1>2, <1>3, NoPacketAssumption


(* ---- candidates ------------------------------------------------------------ *)
(* A candidate as adjudication leaves it: its reasons tell whether it has     *)
(* evidence.                                                                  *)
CandidateIssued(c) ==
    /\ c = [id |-> c.id, identity |-> c.identity, targets |-> c.targets, assumptions |-> c.assumptions,
            evidence |-> c.evidence, diagnostic |-> c.diagnostic, eligible |-> c.eligible, reasons |-> c.reasons]
    /\ Coherent(c)
    /\ c.evidence # None => PacketKept(c.evidence) /\ c.reasons \subseteq RequirementReasons
    /\ c.evidence = None => \E x : c.reasons = {x} /\ x \notin RequirementReasons
    /\ c.diagnostic \in DiagnosticKinds \cup {None}

LEMMA CandidateFields ==
    ASSUME NEW r, NEW evidence, NEW diagnostic, NEW reasons, NEW c, c = Candidate(r, evidence, diagnostic, reasons)
    PROVE  /\ c = [id |-> c.id, identity |-> c.identity, targets |-> c.targets, assumptions |-> c.assumptions,
                   evidence |-> c.evidence, diagnostic |-> c.diagnostic, eligible |-> c.eligible,
                   reasons |-> c.reasons]
           /\ c.id = r.id /\ c.identity = r.identity /\ c.targets = r.targets /\ c.assumptions = r.assumptions
           /\ c.evidence = evidence /\ c.diagnostic = diagnostic /\ c.eligible = (reasons = {}) /\ c.reasons = reasons
<1> QED BY DEF Candidate

(* What a candidate says of its realization and packet.                       *)
IssuedFor(c, theory, r, o, policy) ==
    /\ c.id = r.id /\ c.identity = r.identity /\ c.targets = r.targets /\ c.assumptions = r.assumptions
    /\ c.evidence # None => ~Blocked(theory, r, o) /\ c.evidence = o.result
    /\ ~Blocked(theory, r, o) => c.evidence # None
    /\ c.reasons = IF Blocked(theory, r, o) THEN {EarlyReason(theory, r, o)}
                   ELSE LateReasons(policy, r, o.result.body)

LEMMA AdjudicatedIsIssued ==
    ASSUME NEW theory, NEW r, NEW o, Traceable(o), ParsePacket(o), NEW policy,
           NEW c, c = AdjudicateCandidate(theory, r, o, policy), Coherent(c)
    PROVE  CandidateIssued(c) /\ IssuedFor(c, theory, r, o, policy)
<1>1. CASE Blocked(theory, r, o)
  <2>1. c = Candidate(r, None, o.diagnostic, {EarlyReason(theory, r, o)})
    BY <1>1, AdjudicatedIs
  <2>2. EarlyReason(theory, r, o) \notin RequirementReasons
    BY EarlyIsNone DEF Traceable
  <2>3. o.diagnostic \in DiagnosticKinds \cup {None}
    BY DEF Traceable
  <2> QED BY <1>1, <2>1, <2>2, <2>3, CandidateFields DEF CandidateIssued, IssuedFor
<1>2. CASE ~Blocked(theory, r, o)
  <2>1. c = Candidate(r, o.result, None, LateReasons(policy, r, o.result.body))
    BY <1>2, AdjudicatedIs
  <2>2. PICK reasons : reasons = LateReasons(policy, r, o.result.body)
    OBVIOUS
  <2>3. /\ c.evidence = o.result /\ c.diagnostic = None /\ c.reasons = reasons
        /\ c.id = r.id /\ c.identity = r.identity /\ c.targets = r.targets /\ c.assumptions = r.assumptions
        /\ c = [id |-> c.id, identity |-> c.identity, targets |-> c.targets, assumptions |-> c.assumptions,
                evidence |-> c.evidence, diagnostic |-> c.diagnostic, eligible |-> c.eligible,
                reasons |-> c.reasons]
    BY <2>1, <2>2, CandidateFields
  <2>4. c.evidence # None
    BY <2>3 DEF Coherent
  <2>5. reasons \subseteq RequirementReasons
    BY <2>2, LateAreRequirements
  <2>6. o.ok
    BY <1>2 DEF Blocked
  <2>7. PacketKept(o.result)
    BY <2>6, ParsedIsKept
  <2> QED BY <1>2, <2>2, <2>3, <2>4, <2>5, <2>7 DEF CandidateIssued, IssuedFor
<1> QED BY <1>1, <1>2

(* What a candidate prints as.                                                *)
LEMMA PrintedCandidate ==
    ASSUME NEW c, CandidateIssued(c), NEW p, p = CandidateToJson(c)
    PROVE  /\ p.id = c.id /\ p.identity = c.identity /\ p.targets = c.targets /\ p.assumptions = c.assumptions
           /\ p.diagnostic = c.diagnostic /\ p.eligible = c.eligible /\ p.reasons = c.reasons
           /\ (p.evidence = None) <=> (c.evidence = None)
           /\ c.evidence # None => /\ p.evidence = EvidenceToJson(c.evidence)
                                   /\ p.evidence.body = c.evidence.body /\ p.evidence.identity = c.evidence.body
<1>1. p.evidence = IF c.evidence = None THEN None ELSE EvidenceToJson(c.evidence)
  BY DEF CandidateToJson, CandidateIssued
<1>2. c.evidence # None => PacketKept(c.evidence)
  BY DEF CandidateIssued
<1>3. /\ p.id = c.id /\ p.identity = c.identity /\ p.targets = c.targets /\ p.assumptions = c.assumptions
      /\ p.diagnostic = c.diagnostic /\ p.eligible = c.eligible /\ p.reasons = c.reasons
  BY DEF CandidateToJson, CandidateIssued
<1> QED BY <1>1, <1>2, <1>3, KeptIsSome

(* Nothing is amiss with a candidate as production leaves it.                 *)
LEMMA CandidateAgrees ==
    ASSUME NEW theory, NEW r, NEW q, q.identity = r.identity, q.targets = r.targets, q.assumptions = r.assumptions,
           r.identity.theory = theory.identity,
           NEW o, Traceable(o), ParsePacket(o), o.identity = r.identity,
           o.ok => o.result.body.realization = r.identity,
           NEW policy, NEW c, c = AdjudicateCandidate(theory, r, o, policy), Coherent(c)
    PROVE  /\ c.reasons = RecomputeReasons(theory, q, o, policy)
           /\ CandidateViolations(CandidateToJson(c), q, o, theory, RecomputeReasons(theory, q, o, policy)) = {}
<1>1. /\ CandidateIssued(c)
      /\ c.identity = r.identity /\ c.targets = r.targets /\ c.assumptions = r.assumptions
      /\ c.evidence # None => ~Blocked(theory, r, o) /\ c.evidence = o.result
      /\ c.reasons = IF Blocked(theory, r, o) THEN {EarlyReason(theory, r, o)}
                     ELSE LateReasons(policy, r, o.result.body)
  <2>1. CandidateIssued(c) /\ IssuedFor(c, theory, r, o, policy)
    BY AdjudicatedIsIssued
  <2> QED BY <2>1 DEF IssuedFor
<1>2. Blocked(theory, r, o) \/ o.ok
  BY DEF Blocked
<1>3. ASSUME o.ok
      PROVE  /\ o.result.body.cases # <<>> /\ o.result.body.theory = o.result.body.realization.theory
             /\ o.result.identity = o.result.body
  <2>1. PacketKept(o.result) /\ o.result.body.cases # <<>> /\ o.result.body.theory = o.result.body.realization.theory
    BY <1>3, ParsedIsKept
  <2> QED BY <2>1 DEF PacketKept
<1>4. c.reasons = RecomputeReasons(theory, q, o, policy)
  BY <1>1, <1>2, <1>3, RecomputedIs
<1>5. PICK p, reasons : p = CandidateToJson(c) /\ reasons = RecomputeReasons(theory, q, o, policy)
  OBVIOUS
<1>6. /\ p.identity = c.identity /\ p.targets = c.targets /\ p.assumptions = c.assumptions
      /\ p.diagnostic = c.diagnostic /\ p.eligible = c.eligible /\ p.reasons = c.reasons
      /\ (p.evidence = None) <=> (c.evidence = None)
      /\ c.evidence # None => p.evidence.body = c.evidence.body /\ p.evidence.identity = c.evidence.body
  BY <1>1, <1>5, PrintedCandidate
<1>7. ((c.evidence = None) # (c.diagnostic = None)) /\ c.eligible = (c.reasons = {})
  BY DEF Coherent
<1>8. ~(o.identity # q.identity) /\ ~(o.ok /\ o.result.body.realization # q.identity)
      /\ ~(o.ok /\ o.result.body.theory # theory.identity)
  BY <1>3
<1>9. /\ ~(p.identity # q.identity) /\ ~(p.targets # q.targets) /\ ~(p.assumptions # q.assumptions)
      /\ ~((p.evidence = None) = (p.diagnostic = None))
      /\ ~(p.eligible # (reasons = {})) /\ ~(p.reasons # reasons)
  BY <1>1, <1>4, <1>5, <1>6, <1>7
<1>10. ~(o.ok /\ p.evidence # None /\ p.evidence.body.recipe # o.result.body.recipe)
       /\ ~(o.ok /\ p.evidence # None /\ p.evidence.identity # o.result.identity)
  BY <1>1, <1>3, <1>6
<1>11. CandidateViolations(p, q, o, theory, reasons) = {}
  BY <1>8, <1>9, <1>10 DEF CandidateViolations, When
<1> QED BY <1>4, <1>5, <1>11


(* ---- claims ---------------------------------------------------------------- *)
(* A claim as adjudication leaves it.                                         *)
ClaimIssued(claim) ==
    /\ claim = [f \in ClaimFields |-> claim[f]]
    /\ claim.theory = [id |-> claim.theory.id, identity |-> claim.theory.identity]
    /\ claim.policy = [id |-> claim.policy.id, content_identity |-> claim.policy.content_identity]
    /\ Sortable(claim.candidates) /\ SortedById(claim.candidates) = claim.candidates
    /\ \A c \in ToSet(claim.candidates) : CandidateIssued(c)

LEMMA StatusIs ==
    ASSUME NEW n
    PROVE  TERMINAL_RULES[EligibleCount(n)] = IF n = 1 THEN "selected" ELSE "rejected"
<1> QED BY DEF TERMINAL_RULES, EligibleCount

LEMMA NamesAre == ASSUME NEW cs PROVE ToSet(Ids(cs)) = {c.id : c \in ToSet(cs)}
<1> QED BY DEF ToSet, Ids

(* A candidate's place among the others is its id's among theirs.             *)
LEMMA RankedByName ==
    ASSUME NEW cs, Sortable(cs), NEW names, names = ToSet(Ids(cs)), NEW c \in ToSet(cs)
    PROVE  Cardinality(UpTo(cs, c)) = Cardinality({id \in names : Place(id) <= Place(c.id)})
<1> DEFINE S == UpTo(cs, c)
           N == {id \in names : Place(id) <= Place(c.id)}
           f == [d \in S |-> d.id]
<1>1. names = {d.id : d \in ToSet(cs)}
  BY NamesAre
<1>2. IsFiniteSet(S)
  <2>1. IsFiniteSet(ToSet(cs)) /\ S \subseteq ToSet(cs)
    BY Distinguished DEF UpTo
  <2> QED BY <2>1, FS_Subset
<1>3. f \in [S -> N]
  BY <1>1 DEF UpTo
<1>4. \A x, y \in S : f[x] = f[y] => x = y
  BY Distinguished DEF UpTo
<1>5. \A id \in N : \E d \in S : f[d] = id
  BY <1>1 DEF UpTo
<1>6. f \in Surjection(S, N) /\ f \in Injection(S, N)
  BY <1>3, <1>4, <1>5 DEF Surjection, Injection, IsInjective
<1>7. Cardinality(N) = Cardinality(S)
  BY <1>2, <1>6, FS_Surjection
<1> QED BY <1>7

LEMMA NamesCount ==
    ASSUME NEW cs, Sortable(cs)
    PROVE  Cardinality(ToSet(Ids(cs))) = Len(cs) /\ Len(cs) \in Nat /\ DOMAIN cs = 1 .. Len(cs)
<1> DEFINE S == ToSet(cs)
           N == ToSet(Ids(cs))
           f == [d \in S |-> d.id]
<1>1. N = {d.id : d \in S}
  BY NamesAre
<1>2. IsFiniteSet(S) /\ Cardinality(S) = Len(cs) /\ \A x, y \in S : x.id = y.id => x = y
  BY Distinguished
<1>3. f \in Surjection(S, N) /\ f \in Injection(S, N)
  BY <1>1, <1>2 DEF Surjection, Injection, IsInjective
<1>4. Cardinality(N) = Cardinality(S)
  BY <1>2, <1>3, FS_Surjection
<1> QED BY <1>2, <1>4 DEF Sortable

LEMMA SortedRank ==
    ASSUME NEW cs, Sortable(cs), SortedById(cs) = cs, NEW n \in DOMAIN cs
    PROVE  cs[n] \in ToSet(cs) /\ Cardinality(UpTo(cs, cs[n])) = n
<1>1. SortedById(cs)[n] = CHOOSE c \in ToSet(cs) : Cardinality(UpTo(cs, c)) = n
  BY DEF SortedById
<1>2. \E c \in ToSet(cs) : Cardinality(UpTo(cs, c)) = n
  BY Ranked
<1> QED BY <1>1, <1>2

(* Two sorted lists of the same ids have them in the same places.             *)
LEMMA SamePlaces ==
    ASSUME NEW xs, Sortable(xs), SortedById(xs) = xs, NEW ys, Sortable(ys), SortedById(ys) = ys,
           ToSet(Ids(xs)) = ToSet(Ids(ys))
    PROVE  DOMAIN xs = DOMAIN ys /\ \A n \in DOMAIN xs : xs[n].id = ys[n].id
<1>1. DOMAIN xs = DOMAIN ys
  <2>1. Len(xs) = Len(ys)
    BY NamesCount
  <2>2. DOMAIN xs = 1 .. Len(xs) /\ DOMAIN ys = 1 .. Len(ys)
    BY NamesCount
  <2> QED BY <2>1, <2>2
<1>2. ASSUME NEW n \in DOMAIN xs PROVE xs[n].id = ys[n].id
  <2>1. PICK names : names = ToSet(Ids(xs)) /\ names = ToSet(Ids(ys))
    OBVIOUS
  <2>2. PICK c : c = xs[n] /\ c \in ToSet(xs) /\ Cardinality(UpTo(xs, c)) = n
    BY SortedRank
  <2>3. PICK d \in ToSet(ys) : d.id = c.id
    <3>1. c.id \in names
      BY <2>1, <2>2, NamesAre
    <3>2. names = {d.id : d \in ToSet(ys)}
      BY <2>1, NamesAre
    <3> QED BY <3>1, <3>2
  <2>4. Cardinality(UpTo(xs, c)) = Cardinality({id \in names : Place(id) <= Place(c.id)})
    BY <2>1, <2>2, RankedByName
  <2>5. Cardinality(UpTo(ys, d)) = Cardinality({id \in names : Place(id) <= Place(c.id)})
    BY <2>1, <2>3, RankedByName
  <2>6. Cardinality(UpTo(ys, d)) = n
    BY <2>2, <2>4, <2>5
  <2>7. ys[n] \in ToSet(ys) /\ Cardinality(UpTo(ys, ys[n])) = n
    BY <1>1, SortedRank
  <2>8. ys[n] = d
    BY <2>6, <2>7, Ranked
  <2> QED BY <2>2, <2>3, <2>8
<1> QED BY <1>1, <1>2

(* ---- what the checker compares --------------------------------------------- *)
LEMMA ComparedIs ==
    ASSUME NEW docs \in AllDocuments, NEW theory, theory = AuthoredTheory(docs.theory), NEW outs, NEW doc
    PROVE  Compare(docs, outs, doc) = CompareWith(doc, theory, Recomputed(docs, theory), docs, outs)
<1>1. RecomputeTheory(docs.theory) = theory
  BY TheoriesAgree
<1> QED BY <1>1 DEF Compare, Recomputed

Clean(doc, realizations, outs, theory, policy, judged) ==
    /\ ReadClaim(doc) /\ \A o \in ToSet(outs) : ReadPacket(o)
    /\ HeaderViolations(doc, theory, policy) = {}
    /\ CoverageViolations(doc, realizations, outs) = {}
    /\ Amiss(judged, theory) = {}
    /\ DecisionViolations(doc, EligibleAgain(judged)) = {}

LEMMA CleanIff ==
    ASSUME NEW doc, NEW docs, NEW realizations, NEW outs, NEW theory,
           NEW judged, judged = Judged(doc, realizations, outs, theory, docs.policy)
    PROVE  CompareWith(doc, theory, realizations, docs, outs) = {}
             <=> Clean(doc, realizations, outs, theory, docs.policy, judged)
<1>1. Violations(doc, realizations, outs, theory, docs.policy, judged)
        = HeaderViolations(doc, theory, docs.policy)
          \cup CoverageViolations(doc, realizations, outs)
          \cup Amiss(judged, theory)
          \cup DecisionViolations(doc, EligibleAgain(judged))
  BY DEF Violations
<1>2. Violations(doc, realizations, outs, theory, docs.policy, judged) = {}
        <=> /\ HeaderViolations(doc, theory, docs.policy) = {}
            /\ CoverageViolations(doc, realizations, outs) = {}
            /\ Amiss(judged, theory) = {}
            /\ DecisionViolations(doc, EligibleAgain(judged)) = {}
  BY <1>1
<1>3. {"malformed_claim"} # {} /\ {"malformed_authored_input"} # {}
  OBVIOUS
<1> QED BY <1>2, <1>3 DEF CompareWith, Clean

LEMMA NothingAmiss ==
    ASSUME NEW judged, NEW theory
    PROVE  Amiss(judged, theory) = {}
             <=> \A j \in judged : CandidateViolations(j.c, j.r, j.o, theory, j.reasons) = {}
<1> QED BY DEF Amiss

LEMMA HeaderIff ==
    ASSUME NEW doc, NEW theory, NEW policy
    PROVE  HeaderViolations(doc, theory, policy) = {}
             <=> /\ theory.id = RequestedTheory /\ doc.theory.id = theory.id
                 /\ doc.theory.identity = theory.identity /\ doc.required_obligation = theory.obligation
                 /\ policy.ambiguity = "reject" /\ doc.policy.id = policy.id
                 /\ doc.policy.content_identity = policy
<1> QED BY DEF HeaderViolations, When

LEMMA CoverageIff ==
    ASSUME NEW doc, NEW realizations, NEW outs
    PROVE  CoverageViolations(doc, realizations, outs) = {}
             <=> /\ IsInjective(Ids(realizations)) /\ IsInjective(Ids(outs))
                 /\ ToSet(Ids(realizations)) = ToSet(Ids(doc.candidates))
                 /\ ToSet(Ids(outs)) = ToSet(Ids(realizations))
<1> QED BY DEF CoverageViolations, When

LEMMA DecisionIff ==
    ASSUME NEW doc, NEW winners
    PROVE  DecisionViolations(doc, winners) = {}
             <=> IF Cardinality(winners) = 1
                 THEN /\ doc.status = "selected" /\ doc.selected = Subject(TheOne(winners).r)
                      /\ doc.selected_assumptions
                           = TheOne(winners).r.assumptions \cup TheOne(winners).o.result.body.assumptions
                 ELSE doc.status = "rejected" /\ doc.selected = None /\ doc.selected_assumptions = {}
<1>1. PICK status : /\ status = TERMINAL_RULES[EligibleCount(Cardinality(winners))]
                    /\ status = IF Cardinality(winners) = 1 THEN "selected" ELSE "rejected"
  BY StatusIs
<1> QED BY <1>1 DEF DecisionViolations, When


(* ---- verdicts -------------------------------------------------------------- *)
LEMMA PrintedClaim ==
    ASSUME NEW claim, ClaimIssued(claim), NEW doc, doc = ResolutionClaimToJson(claim)
    PROVE  /\ doc.theory = claim.theory /\ doc.required_obligation = claim.required_obligation
           /\ doc.policy = claim.policy /\ doc.status = claim.status /\ doc.selected = claim.selected
           /\ doc.selected_assumptions = claim.selected_assumptions
           /\ DOMAIN doc.candidates = DOMAIN claim.candidates
           /\ \A i \in DOMAIN claim.candidates : doc.candidates[i] = CandidateToJson(claim.candidates[i])
           /\ ToSet(Ids(doc.candidates)) = ToSet(Ids(claim.candidates))
           /\ IsInjective(Ids(doc.candidates))
<1>1. PICK cs, ps : cs = claim.candidates /\ ps = [i \in DOMAIN cs |-> CandidateToJson(cs[i])]
  OBVIOUS
<1>2. claim = [f \in ClaimFields |-> claim[f]] /\ "candidates" \in ClaimFields
  BY DEF ClaimIssued, ClaimFields
<1>3. doc = [claim EXCEPT !.candidates = ps]
  BY <1>1 DEF ResolutionClaimToJson
<1>4. doc.candidates = ps
  BY <1>2, <1>3
<1>5. /\ doc.theory = claim.theory /\ doc.required_obligation = claim.required_obligation
      /\ doc.policy = claim.policy /\ doc.status = claim.status /\ doc.selected = claim.selected
      /\ doc.selected_assumptions = claim.selected_assumptions
  BY <1>2, <1>3 DEF ClaimFields
<1>6. \A i \in DOMAIN cs : ps[i].id = cs[i].id
  <2>1. ASSUME NEW i \in DOMAIN cs PROVE ps[i].id = cs[i].id
    <3>1. CandidateIssued(cs[i])
      BY <1>1 DEF ClaimIssued, ToSet
    <3> QED BY <1>1, <3>1, PrintedCandidate
  <2> QED BY <2>1
<1>7. Ids(ps) = Ids(cs)
  BY <1>1, <1>6 DEF Ids
<1>8. IsInjective(Ids(cs))
  BY <1>1 DEF ClaimIssued, Sortable
<1> QED BY <1>1, <1>4, <1>5, <1>7, <1>8

(* The realizations that the packets clear.                                   *)
Cleared(realizations, outs, theory, policy) ==
    {id \in ToSet(Ids(realizations)) :
        RecomputeReasons(theory, RealizationOf(realizations, id), OutcomeOf(outs, id), policy) = {}}

JudgedOf(c, realizations, outs, theory, policy) ==
    JudgedCandidate(CandidateToJson(c), RealizationOf(realizations, c.id), OutcomeOf(outs, c.id), theory, policy)

LEMMA JudgedOfIs ==
    ASSUME NEW c, CandidateIssued(c), NEW realizations, NEW outs, NEW theory, NEW policy,
           NEW j, j = JudgedOf(c, realizations, outs, theory, policy)
    PROVE  /\ j.id = c.id /\ j.c = CandidateToJson(c)
           /\ j.r = RealizationOf(realizations, c.id) /\ j.o = OutcomeOf(outs, c.id)
           /\ j.reasons = RecomputeReasons(theory, RealizationOf(realizations, c.id), OutcomeOf(outs, c.id), policy)
<1>1. CandidateToJson(c).id = c.id
  BY PrintedCandidate
<1> QED BY <1>1 DEF JudgedOf, JudgedCandidate

LEMMA JudgedAre ==
    ASSUME NEW claim, ClaimIssued(claim), NEW realizations, NEW outs, NEW theory, NEW policy,
           ToSet(Ids(claim.candidates)) = ToSet(Ids(realizations)), ToSet(Ids(outs)) = ToSet(Ids(realizations)),
           NEW judged, judged = Judged(ResolutionClaimToJson(claim), realizations, outs, theory, policy)
    PROVE  /\ \A c \in ToSet(claim.candidates) : JudgedOf(c, realizations, outs, theory, policy) \in judged
           /\ \A j \in judged : \E c \in ToSet(claim.candidates) : j = JudgedOf(c, realizations, outs, theory, policy)
<1>1. PICK doc, cs : doc = ResolutionClaimToJson(claim) /\ cs = claim.candidates
  OBVIOUS
<1>2. /\ DOMAIN doc.candidates = DOMAIN cs
      /\ \A i \in DOMAIN cs : doc.candidates[i] = CandidateToJson(cs[i])
      /\ ToSet(Ids(doc.candidates)) = ToSet(Ids(cs))
  BY <1>1, PrintedClaim
<1>3. \A c \in ToSet(cs) : CandidateToJson(c).id = c.id /\ c.id \in ToSet(Ids(cs))
  <2>1. ASSUME NEW c \in ToSet(cs) PROVE CandidateToJson(c).id = c.id
    <3>1. CandidateIssued(c)
      BY <1>1 DEF ClaimIssued
    <3> QED BY <3>1, PrintedCandidate
  <2> QED BY <2>1, NamesAre
<1>4. ASSUME NEW c \in ToSet(cs) PROVE JudgedOf(c, realizations, outs, theory, policy) \in judged
  <2>1. PICK x : x = CandidateToJson(c) /\ x \in ToSet(doc.candidates)
    BY <1>2 DEF ToSet
  <2>2. x.id = c.id /\ x.id \in ToSet(Ids(realizations)) \cap ToSet(Ids(outs))
    BY <1>1, <1>3, <2>1
  <2> QED BY <1>1, <2>1, <2>2 DEF Judged, JudgedOf
<1>5. ASSUME NEW j \in judged
      PROVE  \E c \in ToSet(cs) : j = JudgedOf(c, realizations, outs, theory, policy)
  <2>1. PICK x \in ToSet(doc.candidates) :
          j = JudgedCandidate(x, RealizationOf(realizations, x.id), OutcomeOf(outs, x.id), theory, policy)
    BY <1>1 DEF Judged
  <2>2. PICK c \in ToSet(cs) : x = CandidateToJson(c)
    BY <1>2 DEF ToSet
  <2> QED BY <1>3, <2>1, <2>2 DEF JudgedOf
<1> QED BY <1>1, <1>4, <1>5

(* Those cleared are counted by their names.                                  *)
LEMMA ClearedAre ==
    ASSUME NEW claim, ClaimIssued(claim), NEW realizations, NEW outs, NEW theory, NEW policy,
           ToSet(Ids(claim.candidates)) = ToSet(Ids(realizations)), ToSet(Ids(outs)) = ToSet(Ids(realizations)),
           NEW judged, judged = Judged(ResolutionClaimToJson(claim), realizations, outs, theory, policy),
           NEW winners, winners = EligibleAgain(judged)
    PROVE  /\ IsFiniteSet(winners) /\ \A i, j \in winners : i.id = j.id => i = j
           /\ Cleared(realizations, outs, theory, policy) = {j.id : j \in winners}
           /\ \A j \in winners : j.r = RealizationOf(realizations, j.id) /\ j.o = OutcomeOf(outs, j.id)
<1>1. PICK cs, S : cs = claim.candidates /\ S = ToSet(cs)
  OBVIOUS
<1> DEFINE J(c) == JudgedOf(c, realizations, outs, theory, policy)
<1>2. /\ \A c \in S : J(c) \in judged
      /\ \A j \in judged : \E c \in S : j = J(c)
  BY <1>1, JudgedAre
<1>3. ASSUME NEW c \in S
      PROVE  /\ J(c).id = c.id
             /\ J(c).r = RealizationOf(realizations, c.id) /\ J(c).o = OutcomeOf(outs, c.id)
             /\ J(c).reasons = RecomputeReasons(theory, RealizationOf(realizations, c.id), OutcomeOf(outs, c.id), policy)
  <2>1. CandidateIssued(c)
    BY <1>1 DEF ClaimIssued
  <2> QED BY <2>1, JudgedOfIs
<1>4. IsFiniteSet(S) /\ \A c, d \in S : c.id = d.id => c = d
  BY <1>1, Distinguished DEF ClaimIssued
<1> HIDE DEF J
<1>5. IsFiniteSet(judged)
  <2> DEFINE f == [c \in S |-> J(c)]
  <2>1. f \in Surjection(S, judged)
    BY <1>2 DEF Surjection
  <2> QED BY <1>4, <2>1, FS_Surjection
<1>6. winners \subseteq judged /\ \A j \in judged : j \in winners <=> j.reasons = {}
  BY DEF EligibleAgain
<1>7. IsFiniteSet(winners)
  BY <1>5, <1>6, FS_Subset
<1>8. \A i, j \in winners : i.id = j.id => i = j
  BY <1>2, <1>3, <1>4, <1>6
<1>9. \A j \in winners : j.r = RealizationOf(realizations, j.id) /\ j.o = OutcomeOf(outs, j.id)
  BY <1>2, <1>3, <1>6
<1>10. \A id : id \in Cleared(realizations, outs, theory, policy)
               <=> \E c \in S : /\ id = c.id
                                /\ RecomputeReasons(theory, RealizationOf(realizations, c.id),
                                                    OutcomeOf(outs, c.id), policy) = {}
  <2>1. ToSet(Ids(realizations)) = {c.id : c \in S}
    BY <1>1, NamesAre
  <2> QED BY <2>1 DEF Cleared
<1>11. \A id : id \in Cleared(realizations, outs, theory, policy) <=> \E j \in winners : id = j.id
  <2>1. ASSUME NEW id, id \in Cleared(realizations, outs, theory, policy) PROVE \E j \in winners : id = j.id
    BY <1>2, <1>3, <1>6, <1>10, <2>1
  <2>2. ASSUME NEW j \in winners PROVE j.id \in Cleared(realizations, outs, theory, policy)
    BY <1>2, <1>3, <1>6, <1>10
  <2> QED BY <2>1, <2>2
<1>12. Cleared(realizations, outs, theory, policy) = {j.id : j \in winners}
  BY <1>11
<1> QED BY <1>7, <1>8, <1>9, <1>12

(* What those cleared decide.                                                 *)
Verdict(claim, realizations, outs, names) ==
    IF Cardinality(names) = 1
    THEN \E id : /\ names = {id}
                 /\ claim.status = "selected" /\ claim.selected = Subject(RealizationOf(realizations, id))
                 /\ claim.selected_assumptions
                      = RealizationOf(realizations, id).assumptions \cup OutcomeOf(outs, id).result.body.assumptions
    ELSE claim.status = "rejected" /\ claim.selected = None /\ claim.selected_assumptions = {}

LEMMA VerdictIs ==
    ASSUME NEW claim, ClaimIssued(claim), NEW realizations, NEW outs, NEW theory, NEW policy,
           ToSet(Ids(claim.candidates)) = ToSet(Ids(realizations)), ToSet(Ids(outs)) = ToSet(Ids(realizations)),
           NEW doc, doc = ResolutionClaimToJson(claim),
           NEW judged, judged = Judged(doc, realizations, outs, theory, policy)
    PROVE  DecisionViolations(doc, EligibleAgain(judged)) = {}
             <=> Verdict(claim, realizations, outs, Cleared(realizations, outs, theory, policy))
<1>1. PICK winners, names : winners = EligibleAgain(judged) /\ names = Cleared(realizations, outs, theory, policy)
  OBVIOUS
<1>2. /\ IsFiniteSet(winners) /\ \A i, j \in winners : i.id = j.id => i = j
      /\ names = {j.id : j \in winners}
      /\ \A j \in winners : j.r = RealizationOf(realizations, j.id) /\ j.o = OutcomeOf(outs, j.id)
  BY <1>1, ClearedAre
<1>3. /\ (Cardinality(winners) = 1) = (Cardinality(names) = 1)
      /\ Cardinality(winners) = 1 => winners = {TheOne(winners)} /\ names = {TheOne(winners).id}
  BY <1>2, CountedById
<1>4. doc.status = claim.status /\ doc.selected = claim.selected /\ doc.selected_assumptions = claim.selected_assumptions
  BY PrintedClaim
<1>5. CASE Cardinality(winners) = 1
  <2>1. PICK j : j = TheOne(winners) /\ j \in winners /\ names = {j.id}
    BY <1>3, <1>5
  <2>2. j.r = RealizationOf(realizations, j.id) /\ j.o = OutcomeOf(outs, j.id)
    BY <1>2, <2>1
  <2>3. DecisionViolations(doc, winners) = {}
          <=> /\ doc.status = "selected" /\ doc.selected = Subject(j.r)
              /\ doc.selected_assumptions = j.r.assumptions \cup j.o.result.body.assumptions
    BY <1>5, <2>1, DecisionIff
  <2>4. \A id : names = {id} <=> id = j.id
    BY <2>1
  <2> QED BY <1>1, <1>3, <1>4, <1>5, <2>2, <2>3, <2>4 DEF Verdict
<1>6. CASE Cardinality(winners) # 1
  <2>1. DecisionViolations(doc, winners) = {}
          <=> doc.status = "rejected" /\ doc.selected = None /\ doc.selected_assumptions = {}
    BY <1>6, DecisionIff
  <2> QED BY <1>1, <1>3, <1>4, <1>6, <2>1 DEF Verdict
<1> QED BY <1>5, <1>6


(* ---- two claims that the checker accepts ----------------------------------- *)
(* A candidate as the packets tell it.                                        *)
Told(id, q, o, reasons) ==
    [id |-> id, identity |-> q.identity, targets |-> q.targets, assumptions |-> q.assumptions,
     evidence |-> IF reasons \subseteq RequirementReasons
                  THEN [identity |-> o.result.identity, body |-> o.result.identity] ELSE None,
     diagnostic |-> None, eligible |-> reasons = {}, reasons |-> reasons]

(* A candidate with which nothing is amiss is told by what is found again, up *)
(* to its diagnostic.                                                         *)
LEMMA CandidateFollows ==
    ASSUME NEW c, CandidateIssued(c), NEW o, Traceable(o), NEW q, NEW theory, NEW policy,
           NEW reasons, reasons = RecomputeReasons(theory, q, o, policy),
           CandidateViolations(CandidateToJson(c), q, o, theory, reasons) = {}
    PROVE  [c EXCEPT !.diagnostic = None] = Told(c.id, q, o, reasons)
<1>1. PICK p : p = CandidateToJson(c)
  OBVIOUS
<1>2. /\ p.identity = c.identity /\ p.targets = c.targets /\ p.assumptions = c.assumptions
      /\ p.eligible = c.eligible /\ p.reasons = c.reasons
      /\ (p.evidence = None) <=> (c.evidence = None)
      /\ c.evidence # None => p.evidence.identity = c.evidence.body
  BY <1>1, PrintedCandidate
<1>3. /\ p.identity = q.identity /\ p.targets = q.targets /\ p.assumptions = q.assumptions
      /\ p.eligible = (reasons = {}) /\ p.reasons = reasons
      /\ o.ok /\ p.evidence # None => p.evidence.identity = o.result.identity
  BY <1>1 DEF CandidateViolations, When
<1>4. c.evidence = IF reasons \subseteq RequirementReasons
                   THEN [identity |-> o.result.identity, body |-> o.result.identity] ELSE None
  <2>1. CASE c.evidence # None
    <3>1. PacketKept(c.evidence) /\ reasons \subseteq RequirementReasons
      BY <1>2, <1>3, <2>1 DEF CandidateIssued
    <3>2. o.ok
      <4>1. SUFFICES ASSUME ~o.ok PROVE FALSE
        OBVIOUS
      <4>2. Blocked(theory, q, o)
        BY <4>1 DEF Blocked
      <4>3. reasons = {EarlyReason(theory, q, o)}
        BY <4>2, RecomputedIs
      <4>4. EarlyReason(theory, q, o) \notin RequirementReasons
        BY EarlyIsNone DEF Traceable
      <4> QED BY <3>1, <4>3, <4>4
    <3>3. c.evidence.body = o.result.identity
      BY <1>2, <1>3, <2>1, <3>2
    <3> QED BY <3>1, <3>3 DEF PacketKept
  <2>2. CASE c.evidence = None
    <3>1. \E x : reasons = {x} /\ x \notin RequirementReasons
      BY <1>2, <1>3, <2>2 DEF CandidateIssued
    <3> QED BY <2>2, <3>1
  <2> QED BY <2>1, <2>2
<1>5. c = [id |-> c.id, identity |-> c.identity, targets |-> c.targets, assumptions |-> c.assumptions,
           evidence |-> c.evidence, diagnostic |-> c.diagnostic, eligible |-> c.eligible, reasons |-> c.reasons]
  BY DEF CandidateIssued
<1> DEFINE e == IF reasons \subseteq RequirementReasons
                THEN [identity |-> o.result.identity, body |-> o.result.identity] ELSE None
<1>6. c.evidence = e
  BY <1>4
<1> HIDE DEF e
<1>7. [c EXCEPT !.diagnostic = None] =
        [id |-> c.id, identity |-> q.identity, targets |-> q.targets, assumptions |-> q.assumptions,
         evidence |-> e, diagnostic |-> None, eligible |-> reasons = {}, reasons |-> reasons]
  BY <1>2, <1>3, <1>5, <1>6
<1> QED BY <1>7 DEF e, Told

LEMMA RealizationOfIs ==
    ASSUME NEW T, NEW rs \in Seq(T), IsInjective(Ids(rs)), NEW j \in DOMAIN rs
    PROVE  RealizationOf(rs, rs[j].id) = rs[j]
<1> DEFINE I == {i \in 1 .. Len(rs) : rs[i].id = rs[j].id}
<1>1. DOMAIN rs = 1 .. Len(rs) /\ j \in Nat
  OBVIOUS
<1>2. \A i \in DOMAIN rs : rs[i].id = rs[j].id => i = j
  BY DEF IsInjective, Ids
<1>3. I = {j}
  BY <1>1, <1>2
<1>4. Max({j}) = j
  BY <1>1 DEF Max
<1>5. SelectLastInSeq(rs, LAMBDA o : o.id = rs[j].id) = j
  BY <1>3, <1>4 DEF SelectLastInSeq
<1> QED BY <1>5 DEF RealizationOf

(* What an accepted claim says, candidate by candidate.                       *)
ToldBy(id, realizations, outs, theory, policy) ==
    Told(id, RealizationOf(realizations, id), OutcomeOf(outs, id),
         RecomputeReasons(theory, RealizationOf(realizations, id), OutcomeOf(outs, id), policy))

Follows(claim, realizations, outs, theory, policy) ==
    /\ claim.theory = [id |-> theory.id, identity |-> theory.identity]
    /\ claim.required_obligation = theory.obligation
    /\ claim.policy = [id |-> policy.id, content_identity |-> policy]
    /\ ToSet(Ids(claim.candidates)) = ToSet(Ids(realizations))
    /\ Verdict(claim, realizations, outs, Cleared(realizations, outs, theory, policy))
    /\ \A c \in ToSet(claim.candidates) :
          [c EXCEPT !.diagnostic = None] = ToldBy(c.id, realizations, outs, theory, policy)

LEMMA AcceptedFollows ==
    ASSUME NEW docs \in AllDocuments, NEW theory, theory = AuthoredTheory(docs.theory),
           NEW outs, outs \in Seq(ToSet(outs)), \A o \in ToSet(outs) : Traceable(o),
           NEW claim, ClaimIssued(claim), Compare(docs, outs, ResolutionClaimToJson(claim)) = {}
    PROVE  Follows(claim, Recomputed(docs, theory), outs, theory, docs.policy)
<1>1. PICK doc, rs, judged : /\ doc = ResolutionClaimToJson(claim) /\ rs = Recomputed(docs, theory)
                             /\ judged = Judged(doc, rs, outs, theory, docs.policy)
  OBVIOUS
<1>2. Clean(doc, rs, outs, theory, docs.policy, judged)
  BY <1>1, ComparedIs, CleanIff
<1>3. /\ doc.theory.id = theory.id /\ doc.theory.identity = theory.identity
      /\ doc.required_obligation = theory.obligation
      /\ doc.policy.id = docs.policy.id /\ doc.policy.content_identity = docs.policy
  BY <1>2, HeaderIff DEF Clean
<1>4. /\ IsInjective(Ids(outs)) /\ ToSet(Ids(rs)) = ToSet(Ids(doc.candidates)) /\ ToSet(Ids(outs)) = ToSet(Ids(rs))
  BY <1>2, CoverageIff DEF Clean
<1>5. /\ doc.theory = claim.theory /\ doc.required_obligation = claim.required_obligation
      /\ doc.policy = claim.policy /\ ToSet(Ids(doc.candidates)) = ToSet(Ids(claim.candidates))
  BY <1>1, PrintedClaim
<1>6. /\ claim.theory = [id |-> theory.id, identity |-> theory.identity]
      /\ claim.policy = [id |-> docs.policy.id, content_identity |-> docs.policy]
  BY <1>3, <1>5 DEF ClaimIssued
<1>7. ToSet(Ids(claim.candidates)) = ToSet(Ids(rs)) /\ ToSet(Ids(outs)) = ToSet(Ids(rs))
  BY <1>4, <1>5
<1>8. Verdict(claim, rs, outs, Cleared(rs, outs, theory, docs.policy))
  BY <1>1, <1>2, <1>7, VerdictIs DEF Clean
<1>9. ASSUME NEW c \in ToSet(claim.candidates)
      PROVE  [c EXCEPT !.diagnostic = None] = ToldBy(c.id, rs, outs, theory, docs.policy)
  <2>1. PICK q, o, reasons : /\ q = RealizationOf(rs, c.id) /\ o = OutcomeOf(outs, c.id)
                             /\ reasons = RecomputeReasons(theory, q, o, docs.policy)
    OBVIOUS
  <2>2. CandidateIssued(c)
    BY DEF ClaimIssued
  <2>3. PICK j : j = JudgedOf(c, rs, outs, theory, docs.policy) /\ j \in judged
    BY <1>1, <1>7, JudgedAre
  <2>4. j.c = CandidateToJson(c) /\ j.r = q /\ j.o = o /\ j.reasons = reasons
    BY <2>1, <2>2, <2>3, JudgedOfIs
  <2>5. CandidateViolations(CandidateToJson(c), q, o, theory, reasons) = {}
    BY <1>2, <2>3, <2>4, NothingAmiss DEF Clean
  <2>6. o \in ToSet(outs)
    <3>1. c.id \in ToSet(Ids(outs))
      BY <1>7, NamesAre
    <3>2. PICK i \in DOMAIN outs : outs[i].id = c.id
      BY <3>1 DEF ToSet, Ids
    <3>3. OutcomeOf(outs, outs[i].id) = outs[i]
      BY <1>4, OutcomeOfIs
    <3> QED BY <2>1, <3>2, <3>3 DEF ToSet
  <2>7. Traceable(o)
    BY <2>6
  <2>8. [c EXCEPT !.diagnostic = None] = Told(c.id, q, o, reasons)
    BY <2>1, <2>2, <2>5, <2>7, CandidateFollows
  <2> QED BY <2>1, <2>8 DEF ToldBy
<1>10. claim.required_obligation = theory.obligation
  BY <1>3, <1>5
<1> QED BY <1>1, <1>6, <1>7, <1>8, <1>9, <1>10, Zenon DEF Follows

LEMMA FollowersAgree ==
    ASSUME NEW k, ClaimIssued(k), NEW n, ClaimIssued(n), NEW rs, NEW outs, NEW theory, NEW policy,
           Follows(k, rs, outs, theory, policy), Follows(n, rs, outs, theory, policy)
    PROVE  Undiagnosed(k) = Undiagnosed(n)
<1>1. PICK ks, ns : ks = k.candidates /\ ns = n.candidates
  OBVIOUS
<1>2. DOMAIN ks = DOMAIN ns /\ \A i \in DOMAIN ks : ks[i].id = ns[i].id
  <2>1. ToSet(Ids(ks)) = ToSet(Ids(ns))
    BY <1>1 DEF Follows
  <2>2. Sortable(ks) /\ SortedById(ks) = ks /\ Sortable(ns) /\ SortedById(ns) = ns
    BY <1>1 DEF ClaimIssued
  <2> QED BY <2>1, <2>2, SamePlaces
<1>3. ASSUME NEW i \in DOMAIN ks PROVE [ks[i] EXCEPT !.diagnostic = None] = [ns[i] EXCEPT !.diagnostic = None]
  <2>1. PICK c, d : c = ks[i] /\ d = ns[i] /\ c.id = d.id /\ c \in ToSet(ks) /\ d \in ToSet(ns)
    BY <1>2 DEF ToSet
  <2>2. PICK told : told = ToldBy(c.id, rs, outs, theory, policy)
    OBVIOUS
  <2>3. [c EXCEPT !.diagnostic = None] = told
    BY <1>1, <2>1, <2>2, Zenon DEF Follows
  <2>4. [d EXCEPT !.diagnostic = None] = told
    BY <1>1, <2>1, <2>2, Zenon DEF Follows
  <2> QED BY <2>1, <2>3, <2>4
<1>4. \A f \in ClaimFields \ {"candidates"} : k[f] = n[f]
  <2>1. k.theory = n.theory /\ k.required_obligation = n.required_obligation /\ k.policy = n.policy
    BY DEF Follows
  <2>2. PICK names : names = Cleared(rs, outs, theory, policy)
    OBVIOUS
  <2>3. Verdict(k, rs, outs, names) /\ Verdict(n, rs, outs, names)
    BY <2>2 DEF Follows
  <2>4. k.status = n.status /\ k.selected = n.selected /\ k.selected_assumptions = n.selected_assumptions
    <3>1. CASE Cardinality(names) = 1
      <4>1. PICK id : /\ names = {id}
                      /\ k.status = "selected" /\ k.selected = Subject(RealizationOf(rs, id))
                      /\ k.selected_assumptions
                           = RealizationOf(rs, id).assumptions \cup OutcomeOf(outs, id).result.body.assumptions
        BY <2>3, <3>1, Zenon DEF Verdict
      <4>2. PICK it : /\ names = {it}
                      /\ n.status = "selected" /\ n.selected = Subject(RealizationOf(rs, it))
                      /\ n.selected_assumptions
                           = RealizationOf(rs, it).assumptions \cup OutcomeOf(outs, it).result.body.assumptions
        BY <2>3, <3>1, Zenon DEF Verdict
      <4>3. id = it
        BY <4>1, <4>2
      <4> QED BY <4>1, <4>2, <4>3
    <3>2. CASE Cardinality(names) # 1
      BY <2>3, <3>2 DEF Verdict
    <3> QED BY <3>1, <3>2
  <2> QED BY <2>1, <2>4 DEF ClaimFields
<1>5. k = [f \in ClaimFields |-> k[f]] /\ n = [f \in ClaimFields |-> n[f]]
  BY DEF ClaimIssued
<1>6. PICK us : us = [i \in DOMAIN ks |-> [ks[i] EXCEPT !.diagnostic = None]]
  OBVIOUS
<1>7. us = [i \in DOMAIN ns |-> [ns[i] EXCEPT !.diagnostic = None]]
  BY <1>2, <1>3, <1>6
<1>8. Undiagnosed(k) = [k EXCEPT !.candidates = us] /\ Undiagnosed(n) = [n EXCEPT !.candidates = us]
  BY <1>1, <1>6, <1>7 DEF Undiagnosed
<1> QED BY <1>4, <1>5, <1>8


(* ---- the claim that production writes --------------------------------------- *)
CandidatesBy(theory, realizations, outs, policy) ==
    [i \in DOMAIN realizations |->
        AdjudicateCandidate(theory, realizations[i], OutcomeOf(outs, realizations[i].id), policy)]

Admitted(theory, realizations, docs, outs) ==
    /\ theory.id = RequestedTheory /\ docs.policy.ambiguity = "reject"
    /\ \A o \in ToSet(outs) : ParsePacket(o)
    /\ PacketsBind(realizations, outs)
    /\ \A c \in ToSet(CandidatesBy(theory, realizations, outs, docs.policy)) : Coherent(c)

ClaimBy(theory, policy, cs, winners) ==
    [theory |-> [id |-> theory.id, identity |-> theory.identity],
     required_obligation |-> theory.obligation,
     policy |-> [id |-> policy.id, content_identity |-> policy],
     candidates |-> SortedById(cs),
     status |-> IF Cardinality(winners) = 1 THEN "selected" ELSE "rejected",
     selected |-> IF Cardinality(winners) = 1 THEN Subject(TheOne(winners)) ELSE None,
     selected_assumptions |-> IF Cardinality(winners) = 1 THEN Projection(TheOne(winners)) ELSE {}]

LEMMA AdjudicationIs ==
    ASSUME NEW docs, NEW theory, theory = AuthoredTheory(docs.theory), NEW outs,
           NEW rs, rs = Authored(docs, theory),
           NEW now, now = Adjudicate(docs, outs), now # Failed,
           NEW cs, cs = CandidatesBy(theory, rs, outs, docs.policy)
    PROVE  Admitted(theory, rs, docs, outs) /\ now = ClaimBy(theory, docs.policy, cs, Eligible(cs))
<1>1. now = AdjudicateFor(theory, rs, docs, outs)
  BY DEF Adjudicate
<1>2. /\ theory.id = RequestedTheory /\ docs.policy.ambiguity = "reject"
      /\ \A o \in ToSet(outs) : ParsePacket(o)
      /\ PacketsBind(rs, outs)
      /\ now = AdjudicateAll(theory, docs.policy, cs)
  BY <1>1 DEF AdjudicateFor, CandidatesBy
<1>3. PICK winners, status : /\ winners = Eligible(cs)
                             /\ status = TERMINAL_RULES[EligibleCount(Cardinality(winners))]
                             /\ status = IF Cardinality(winners) = 1 THEN "selected" ELSE "rejected"
  BY StatusIs
<1>4. now = AssembleClaim(theory, docs.policy, cs, winners)
  BY <1>2, <1>3 DEF AdjudicateAll
<1>5. \A c \in ToSet(cs) : Coherent(c)
  BY <1>4 DEF AssembleClaim
<1>6. now = ClaimBy(theory, docs.policy, cs, winners)
  BY <1>3, <1>4, <1>5 DEF AssembleClaim, ClaimBy
<1> QED BY <1>2, <1>3, <1>5, <1>6 DEF Admitted

LEMMA RealizationsListed ==
    ASSUME NEW docs \in AllDocuments, NEW theory, NEW rs, rs = Authored(docs, theory),
           NEW qs, qs = Recomputed(docs, theory)
    PROVE  /\ rs \in Seq(ToSet(rs)) /\ qs \in Seq(ToSet(qs))
           /\ DOMAIN rs = DOMAIN docs.realizations /\ DOMAIN qs = DOMAIN docs.realizations
           /\ Ids(qs) = Ids(rs)
           /\ \A i \in DOMAIN rs : rs[i].id \in ToSet(IdOrder)
<1>1. PICK ds : ds = docs.realizations /\ ds \in Seq(ToSet(ds)) /\ ds \in AllRealizationLists
  BY DocumentsAssumption DEF DocumentsAreListed, AllDocuments
<1>2. PICK n \in Nat : DOMAIN ds = 1 .. n
  BY <1>1
<1>3. DOMAIN rs = 1 .. n /\ DOMAIN qs = 1 .. n
  BY <1>1, <1>2 DEF Authored, Recomputed
<1>4. rs \in [1 .. n -> ToSet(rs)] /\ qs \in [1 .. n -> ToSet(qs)]
  BY <1>1, <1>2 DEF Authored, Recomputed, ToSet
<1>5. \A i \in 1 .. n : qs[i].id = ds[i].id /\ rs[i].id = ds[i].id
  BY <1>1, <1>2, RealizationsAgree
<1>6. Ids(qs) = Ids(rs)
  BY <1>3, <1>5 DEF Ids
<1>7. \A i \in 1 .. n : ds[i].id \in ToSet(IdOrder)
  BY <1>1, <1>2, IdsAssumption DEF ToSet, Ids
<1> QED BY <1>1, <1>2, <1>3, <1>4, <1>5, <1>6, <1>7, SequenceOf

LEMMA BoundPacket ==
    ASSUME NEW T, NEW outs \in Seq(T), NEW rs, PacketsBind(rs, outs), NEW i \in DOMAIN rs,
           NEW o, o = OutcomeOf(outs, rs[i].id)
    PROVE  /\ o \in ToSet(outs) /\ o.identity = rs[i].identity
           /\ o.ok => o.result.body.realization = rs[i].identity
<1>1. rs[i] \in ToSet(rs) /\ rs[i].id \in ToSet(Ids(rs))
  BY DEF ToSet, Ids
<1>2. rs[i].id \in ToSet(Ids(outs)) /\ IsInjective(Ids(outs))
  BY <1>1 DEF PacketsBind
<1>3. PICK j \in DOMAIN outs : outs[j].id = rs[i].id
  BY <1>2 DEF ToSet, Ids
<1>4. o = outs[j]
  BY <1>2, <1>3, OutcomeOfIs
<1>5. o \in ToSet(outs)
  BY <1>4 DEF ToSet
<1> QED BY <1>1, <1>5 DEF PacketsBind

(* A candidate agrees with what the checker finds again.                      *)
FoundAgain(c, qs, outs, theory, policy) ==
    /\ CandidateIssued(c) /\ Coherent(c)
    /\ c.reasons = RecomputeReasons(theory, RealizationOf(qs, c.id), OutcomeOf(outs, c.id), policy)
    /\ CandidateViolations(CandidateToJson(c), RealizationOf(qs, c.id), OutcomeOf(outs, c.id), theory,
                           RecomputeReasons(theory, RealizationOf(qs, c.id), OutcomeOf(outs, c.id), policy)) = {}
    /\ Subject(RealizationOf(qs, c.id)) = Subject(c) /\ RealizationOf(qs, c.id).assumptions = c.assumptions
    /\ c.evidence # None => c.evidence = OutcomeOf(outs, c.id).result

LEMMA CandidatesAgree ==
    ASSUME NEW docs \in AllDocuments, NEW theory, theory = AuthoredTheory(docs.theory),
           NEW outs, outs \in Seq(ToSet(outs)), \A o \in ToSet(outs) : Traceable(o),
           NEW rs, rs = Authored(docs, theory), NEW qs, qs = Recomputed(docs, theory),
           Admitted(theory, rs, docs, outs),
           NEW cs, cs = CandidatesBy(theory, rs, outs, docs.policy)
    PROVE  /\ Sortable(cs) /\ Ids(cs) = Ids(qs)
           /\ \A c \in ToSet(cs) : FoundAgain(c, qs, outs, theory, docs.policy)
<1>1. /\ rs \in Seq(ToSet(rs)) /\ qs \in Seq(ToSet(qs))
      /\ DOMAIN rs = DOMAIN docs.realizations /\ DOMAIN qs = DOMAIN docs.realizations
      /\ Ids(qs) = Ids(rs) /\ \A i \in DOMAIN rs : rs[i].id \in ToSet(IdOrder)
  BY RealizationsListed
<1>2. IsInjective(Ids(rs)) /\ IsInjective(Ids(qs)) /\ PacketsBind(rs, outs)
  BY <1>1 DEF Admitted, PacketsBind
<1>3. DOMAIN cs = DOMAIN rs
  BY DEF CandidatesBy
<1>4. ASSUME NEW i \in DOMAIN cs
      PROVE  FoundAgain(cs[i], qs, outs, theory, docs.policy) /\ cs[i].id = rs[i].id
  <2>1. PICK r, q, o, c : r = rs[i] /\ q = qs[i] /\ o = OutcomeOf(outs, rs[i].id) /\ c = cs[i]
    OBVIOUS
  <2>2. o \in ToSet(outs) /\ o.identity = r.identity /\ (o.ok => o.result.body.realization = r.identity)
    BY <1>2, <1>3, <1>4, <2>1, BoundPacket
  <2>3. Traceable(o) /\ ParsePacket(o)
    BY <2>2 DEF Admitted
  <2>4. q.id = r.id /\ q.identity = r.identity /\ q.targets = r.targets /\ q.assumptions = r.assumptions
        /\ r.identity.theory = theory.identity
    <3>1. i \in DOMAIN docs.realizations
      BY <1>1, <1>3, <1>4
    <3> QED BY <2>1, <3>1, RealizationsAgree
  <2>5. c = AdjudicateCandidate(theory, r, o, docs.policy)
    BY <1>3, <1>4, <2>1 DEF CandidatesBy
  <2>6. Coherent(c)
    BY <1>4, <2>1 DEF Admitted, ToSet
  <2>7. /\ CandidateIssued(c) /\ c.id = r.id /\ c.identity = r.identity /\ c.assumptions = r.assumptions
        /\ c.evidence # None => c.evidence = o.result
    <3>1. CandidateIssued(c) /\ IssuedFor(c, theory, r, o, docs.policy)
      BY <2>3, <2>5, <2>6, AdjudicatedIsIssued
    <3> QED BY <3>1 DEF IssuedFor
  <2>8. /\ c.reasons = RecomputeReasons(theory, q, o, docs.policy)
        /\ CandidateViolations(CandidateToJson(c), q, o, theory, RecomputeReasons(theory, q, o, docs.policy)) = {}
    BY <2>2, <2>3, <2>4, <2>5, <2>6, CandidateAgrees
  <2>9. RealizationOf(qs, c.id) = q /\ OutcomeOf(outs, c.id) = o
    <3>1. c.id = qs[i].id /\ i \in DOMAIN qs
      BY <1>1, <1>3, <1>4, <2>1, <2>4, <2>7
    <3>2. RealizationOf(qs, qs[i].id) = qs[i]
      BY <1>1, <1>2, <3>1, RealizationOfIs
    <3> QED BY <2>1, <2>7, <3>1, <3>2
  <2>10. Subject(q) = Subject(c) /\ q.assumptions = c.assumptions
    BY <2>4, <2>7 DEF Subject
  <2>11. FoundAgain(c, qs, outs, theory, docs.policy)
    BY <2>6, <2>7, <2>8, <2>9, <2>10 DEF FoundAgain
  <2> QED BY <2>1, <2>7, <2>11
<1>5. Ids(cs) = Ids(rs)
  BY <1>3, <1>4 DEF Ids
<1>6. cs \in Seq(ToSet(cs))
  <2>1. PICK n \in Nat : DOMAIN rs = 1 .. n
    BY <1>1
  <2>2. cs \in [1 .. n -> ToSet(cs)]
    BY <2>1 DEF CandidatesBy, ToSet
  <2> QED BY <2>2, SequenceOf
<1>7. ASSUME NEW c \in ToSet(cs)
      PROVE  c.id \in ToSet(IdOrder) /\ FoundAgain(c, qs, outs, theory, docs.policy)
  <2>1. PICK i \in DOMAIN cs : c = cs[i]
    BY DEF ToSet
  <2>2. FoundAgain(cs[i], qs, outs, theory, docs.policy) /\ cs[i].id = rs[i].id
    BY <1>4
  <2> QED BY <1>1, <1>3, <2>1, <2>2
<1>8. Sortable(cs)
  BY <1>2, <1>5, <1>6, <1>7 DEF Sortable
<1> QED BY <1>1, <1>5, <1>7, <1>8

LEMMA WrittenIsIssued ==
    ASSUME NEW cs, Sortable(cs), \A c \in ToSet(cs) : CandidateIssued(c), NEW theory, NEW policy, NEW winners,
           NEW claim, claim = ClaimBy(theory, policy, cs, winners)
    PROVE  /\ ClaimIssued(claim) /\ ToSet(claim.candidates) = ToSet(cs)
           /\ ToSet(Ids(claim.candidates)) = ToSet(Ids(cs))
<1>1. PICK sorted : sorted = SortedById(cs)
  OBVIOUS
<1>2. /\ ToSet(sorted) = ToSet(cs) /\ sorted \in Seq(ToSet(sorted)) /\ IsInjective(Ids(sorted))
      /\ SortedById(sorted) = sorted
  BY <1>1, SortedKeeps
<1>3. Sortable(sorted)
  BY <1>2 DEF Sortable
<1>4. /\ claim = [f \in ClaimFields |-> claim[f]] /\ claim.candidates = sorted
      /\ claim.theory = [id |-> claim.theory.id, identity |-> claim.theory.identity]
      /\ claim.policy = [id |-> claim.policy.id, content_identity |-> claim.policy.content_identity]
  BY <1>1 DEF ClaimBy, ClaimFields
<1>5. ToSet(Ids(sorted)) = ToSet(Ids(cs))
  BY <1>2, NamesAre
<1> QED BY <1>2, <1>3, <1>4, <1>5 DEF ClaimIssued

LEMMA WrittenDecides ==
    ASSUME NEW cs, Sortable(cs), NEW qs, NEW outs, NEW theory, NEW policy, ToSet(Ids(cs)) = ToSet(Ids(qs)),
           \A c \in ToSet(cs) : FoundAgain(c, qs, outs, theory, policy),
           NEW claim, claim = ClaimBy(theory, policy, cs, Eligible(cs))
    PROVE  Verdict(claim, qs, outs, Cleared(qs, outs, theory, policy))
<1>1. PICK winners, names : winners = Eligible(cs) /\ names = {c.id : c \in winners}
  OBVIOUS
<1>2. /\ IsFiniteSet(ToSet(cs)) /\ \A c, d \in ToSet(cs) : c.id = d.id => c = d
  BY Distinguished
<1>3. /\ winners \subseteq ToSet(cs) /\ IsFiniteSet(winners)
      /\ \A c, d \in winners : c.id = d.id => c = d
  BY <1>1, <1>2, FS_Subset DEF Eligible
<1>4. /\ (Cardinality(winners) = 1) = (Cardinality(names) = 1)
      /\ Cardinality(winners) = 1 => winners = {TheOne(winners)} /\ names = {TheOne(winners).id}
  BY <1>1, <1>3, CountedById
<1>5. ASSUME NEW c \in ToSet(cs)
      PROVE  c \in winners
               <=> RecomputeReasons(theory, RealizationOf(qs, c.id), OutcomeOf(outs, c.id), policy) = {}
  <2>1. FoundAgain(c, qs, outs, theory, policy)
    OBVIOUS
  <2>2. c.eligible = (c.reasons = {})
        /\ c.reasons = RecomputeReasons(theory, RealizationOf(qs, c.id), OutcomeOf(outs, c.id), policy)
    BY <2>1 DEF FoundAgain, Coherent
  <2> QED BY <1>1, <2>2 DEF Eligible
<1>6. Cleared(qs, outs, theory, policy) = names
  <2>1. ToSet(Ids(qs)) = {c.id : c \in ToSet(cs)}
    BY NamesAre
  <2>2. ASSUME NEW id \in Cleared(qs, outs, theory, policy) PROVE id \in names
    <3>1. PICK c \in ToSet(cs) : id = c.id
      BY <2>1 DEF Cleared
    <3>2. RecomputeReasons(theory, RealizationOf(qs, c.id), OutcomeOf(outs, c.id), policy) = {}
      BY <3>1 DEF Cleared
    <3> QED BY <1>1, <1>5, <3>1, <3>2
  <2>3. ASSUME NEW id \in names PROVE id \in Cleared(qs, outs, theory, policy)
    <3>1. PICK c \in ToSet(cs) : id = c.id /\ c \in winners
      BY <1>1, <1>3
    <3>2. RecomputeReasons(theory, RealizationOf(qs, c.id), OutcomeOf(outs, c.id), policy) = {}
      BY <1>5, <3>1
    <3> QED BY <2>1, <3>1, <3>2 DEF Cleared
  <2> QED BY <2>2, <2>3
<1>7. CASE Cardinality(winners) = 1
  <2>1. PICK w : w = TheOne(winners) /\ w \in winners /\ names = {w.id}
    BY <1>4, <1>7
  <2>2. claim.status = "selected" /\ claim.selected = Subject(w) /\ claim.selected_assumptions = Projection(w)
    BY <1>1, <1>7, <2>1 DEF ClaimBy
  <2>3. FoundAgain(w, qs, outs, theory, policy)
    BY <1>3, <2>1
  <2>4. w.reasons = {}
    BY <1>1, <2>1, <2>3 DEF FoundAgain, Coherent, Eligible
  <2>5. w.evidence # None
    BY <2>3, <2>4 DEF FoundAgain, CandidateIssued
  <2>6. /\ Subject(w) = Subject(RealizationOf(qs, w.id))
        /\ Projection(w) = RealizationOf(qs, w.id).assumptions \cup OutcomeOf(outs, w.id).result.body.assumptions
    BY <2>3, <2>5 DEF FoundAgain, Projection
  <2> QED BY <1>4, <1>6, <1>7, <2>1, <2>2, <2>6 DEF Verdict
<1>8. CASE Cardinality(winners) # 1
  BY <1>1, <1>4, <1>6, <1>8 DEF ClaimBy, Verdict
<1> QED BY <1>7, <1>8

(* What production writes, the checker accepts.                               *)
LEMMA AdjudicatedPasses ==
    ASSUME NEW docs \in AllDocuments, NEW outs, outs \in Seq(ToSet(outs)), \A o \in ToSet(outs) : Traceable(o),
           NEW now, now = Adjudicate(docs, outs), now # Failed
    PROVE  ClaimIssued(now) /\ Compare(docs, outs, ResolutionClaimToJson(now)) = {}
<1>1. PICK theory, policy : theory = AuthoredTheory(docs.theory) /\ policy = docs.policy
  OBVIOUS
<1>2. PICK rs, qs : rs = Authored(docs, theory) /\ qs = Recomputed(docs, theory)
  OBVIOUS
<1>3. PICK cs : cs = CandidatesBy(theory, rs, outs, policy)
  OBVIOUS
<1>4. Admitted(theory, rs, docs, outs) /\ now = ClaimBy(theory, policy, cs, Eligible(cs))
  BY <1>1, <1>2, <1>3, AdjudicationIs
<1>5. /\ Sortable(cs) /\ Ids(cs) = Ids(qs)
      /\ \A c \in ToSet(cs) : FoundAgain(c, qs, outs, theory, policy)
  BY <1>1, <1>2, <1>3, <1>4, CandidatesAgree
<1>6. \A c \in ToSet(cs) : CandidateIssued(c)
  BY <1>5 DEF FoundAgain
<1>7. /\ ClaimIssued(now) /\ ToSet(now.candidates) = ToSet(cs)
      /\ ToSet(Ids(now.candidates)) = ToSet(Ids(cs))
  BY <1>4, <1>5, <1>6, WrittenIsIssued
<1>8. ToSet(Ids(now.candidates)) = ToSet(Ids(qs))
  BY <1>5, <1>7
<1>9. /\ Ids(rs) = Ids(qs) /\ IsInjective(Ids(qs)) /\ IsInjective(Ids(outs)) /\ ToSet(Ids(outs)) = ToSet(Ids(qs))
  BY <1>2, <1>4, RealizationsListed DEF Admitted, PacketsBind
<1>10. PICK doc, judged : doc = ResolutionClaimToJson(now) /\ judged = Judged(doc, qs, outs, theory, policy)
  OBVIOUS
<1>11. DecisionViolations(doc, EligibleAgain(judged)) = {}
  <2>1. Verdict(now, qs, outs, Cleared(qs, outs, theory, policy))
    BY <1>4, <1>5, WrittenDecides
  <2> QED BY <1>7, <1>8, <1>9, <1>10, <2>1, VerdictIs
<1>12. Amiss(judged, theory) = {}
  <2>1. ASSUME NEW j \in judged PROVE CandidateViolations(j.c, j.r, j.o, theory, j.reasons) = {}
    <3>1. PICK c \in ToSet(now.candidates) : j = JudgedOf(c, qs, outs, theory, policy)
      BY <1>7, <1>8, <1>9, <1>10, JudgedAre
    <3>2. FoundAgain(c, qs, outs, theory, policy)
      BY <1>5, <1>7
    <3>3. /\ j.c = CandidateToJson(c) /\ j.r = RealizationOf(qs, c.id) /\ j.o = OutcomeOf(outs, c.id)
          /\ j.reasons = RecomputeReasons(theory, RealizationOf(qs, c.id), OutcomeOf(outs, c.id), policy)
      BY <1>6, <1>7, <3>1, JudgedOfIs
    <3> QED BY <3>2, <3>3 DEF FoundAgain
  <2> QED BY <2>1, NothingAmiss
<1>13. /\ doc.theory = now.theory /\ doc.required_obligation = now.required_obligation
       /\ doc.policy = now.policy /\ doc.status = now.status
       /\ DOMAIN doc.candidates = DOMAIN now.candidates
       /\ \A i \in DOMAIN now.candidates : doc.candidates[i] = CandidateToJson(now.candidates[i])
       /\ ToSet(Ids(doc.candidates)) = ToSet(Ids(now.candidates)) /\ IsInjective(Ids(doc.candidates))
  BY <1>7, <1>10, PrintedClaim
<1>14. HeaderViolations(doc, theory, policy) = {}
  <2>1. /\ now.theory.id = theory.id /\ now.theory.identity = theory.identity
        /\ now.required_obligation = theory.obligation /\ now.policy.id = policy.id
        /\ now.policy.content_identity = policy
    BY <1>4 DEF ClaimBy
  <2>2. theory.id = RequestedTheory /\ policy.ambiguity = "reject"
    BY <1>1, <1>4 DEF Admitted
  <2> QED BY <1>13, <2>1, <2>2, HeaderIff
<1>15. CoverageViolations(doc, qs, outs) = {}
  BY <1>8, <1>9, <1>13, CoverageIff
<1>16. ReadClaim(doc)
  <2>1. ASSUME NEW p \in ToSet(doc.candidates)
        PROVE  /\ p.evidence # None => ReadEvidence(p.evidence)
               /\ p.diagnostic # None => p.diagnostic \in DiagnosticKinds
    <3>1. PICK c \in ToSet(now.candidates) : p = CandidateToJson(c)
      BY <1>13 DEF ToSet
    <3>2. CandidateIssued(c)
      BY <1>6, <1>7
    <3>3. /\ p.diagnostic = c.diagnostic
          /\ (p.evidence = None) <=> (c.evidence = None)
          /\ c.evidence # None => p.evidence = EvidenceToJson(c.evidence)
      BY <3>1, <3>2, PrintedCandidate
    <3>4. c.evidence # None => PacketKept(c.evidence)
      BY <3>2 DEF CandidateIssued
    <3>5. p.evidence # None => ReadEvidence(p.evidence)
      BY <3>3, <3>4 DEF PacketKept
    <3>6. c.diagnostic \in DiagnosticKinds \cup {None}
      BY <3>2 DEF CandidateIssued
    <3>7. p.diagnostic # None => p.diagnostic \in DiagnosticKinds
      BY <3>3, <3>6
    <3> QED BY <3>5, <3>7
  <2>2. doc.status \in {"selected", "rejected"}
    BY <1>4, <1>13 DEF ClaimBy
  <2> QED BY <1>13, <2>1, <2>2 DEF ReadClaim
<1>17. \A o \in ToSet(outs) : ReadPacket(o)
  <2>1. ASSUME NEW o \in ToSet(outs) PROVE ReadPacket(o)
    <3>1. Traceable(o) /\ ParsePacket(o)
      BY <1>4 DEF Admitted
    <3> QED BY <3>1, ParsedIsKept DEF ReadPacket
  <2> QED BY <2>1
<1>18. Clean(doc, qs, outs, theory, policy, judged)
  BY <1>11, <1>12, <1>14, <1>15, <1>16, <1>17 DEF Clean
<1>19. CompareWith(doc, theory, qs, docs, outs) = {}
  BY <1>1, <1>10, <1>18, CleanIff
<1> QED BY <1>1, <1>2, <1>7, <1>10, <1>19, ComparedIs

(* A claim that it accepts is the one production would write now.             *)
LEMMA AcceptedIsNow ==
    ASSUME NEW docs \in AllDocuments, NEW outs, outs \in Seq(ToSet(outs)), \A o \in ToSet(outs) : Traceable(o),
           NEW now, now = Adjudicate(docs, outs), now # Failed,
           NEW claim, ClaimIssued(claim), Compare(docs, outs, ResolutionClaimToJson(claim)) = {}
    PROVE  Undiagnosed(claim) = Undiagnosed(now)
<1>1. PICK theory, rs : theory = AuthoredTheory(docs.theory) /\ rs = Recomputed(docs, theory)
  OBVIOUS
<1>2. ClaimIssued(now) /\ Compare(docs, outs, ResolutionClaimToJson(now)) = {}
  BY AdjudicatedPasses
<1>3. Follows(claim, rs, outs, theory, docs.policy) /\ Follows(now, rs, outs, theory, docs.policy)
  BY <1>1, <1>2, AcceptedFollows
<1> QED BY <1>2, <1>3, FollowersAgree


(* ---- the behaviour of the experiment ---------------------------------------- *)
OutcomesTraceable == outcomes \in Seq(ToSet(outcomes)) /\ \A o \in ToSet(outcomes) : Traceable(o)
ClaimsIssued == claims \in Seq(ToSet(claims)) /\ \A k \in ToSet(claims) : ClaimIssued(k.claim)
CheckerSound == house = "experiment" => documents \in AllDocuments /\ OutcomesTraceable /\ ClaimsIssued

LEMMA DiagnosedIsTraceable ==
    ASSUME NEW realization, NEW kind \in DiagnosticKinds
    PROVE  Traceable(Diagnosed(realization, kind))
<1> QED BY DEF Traceable, Diagnosed

LEMMA ProducedIsTraceable ==
    ASSUME NEW theory, NEW realization, NEW suites,
           realization.operations.transition \in TransitionNames =>
              \A i \in DOMAIN suites : Tested(theory, realization, suites[i]) \in PacketBodies,
           NEW made, made = ProduceEvidence(theory, realization, suites), made # Failed
    PROVE  Traceable(made)
<1> DEFINE matching == {i \in DOMAIN suites : suites[i].theory = theory.id}
<1>1. \A kind \in DiagnosticKinds : Traceable(Diagnosed(realization, kind))
  BY DiagnosedIsTraceable
<1>2. /\ "not_targeted" \in DiagnosticKinds /\ "obligation_unsupported" \in DiagnosticKinds
      /\ "missing_evidence" \in DiagnosticKinds /\ "ambiguous_evidence" \in DiagnosticKinds
      /\ "stale_evidence_recipe" \in DiagnosticKinds /\ "evidence_obligation_mismatch" \in DiagnosticKinds
      /\ "unbound_operation" \in DiagnosticKinds
  BY DEF DiagnosticKinds
<1>3. \/ \E kind \in DiagnosticKinds : made = Diagnosed(realization, kind)
      \/ made = ProduceMatching(theory, realization, suites, matching)
  BY <1>2 DEF ProduceEvidence
<1>4. ASSUME made = ProduceMatching(theory, realization, suites, matching)
      PROVE  \/ \E kind \in DiagnosticKinds : made = Diagnosed(realization, kind)
             \/ \E i \in matching : made = ProduceFrom(theory, realization, suites[i])
  BY <1>2, <1>4 DEF ProduceMatching
<1>5. ASSUME NEW suite,
             realization.operations.transition \in TransitionNames => Tested(theory, realization, suite) \in PacketBodies,
             made = ProduceFrom(theory, realization, suite)
      PROVE  Traceable(made)
  <2>1. \/ \E kind \in DiagnosticKinds : made = Diagnosed(realization, kind)
        \/ /\ realization.operations.transition \in TransitionNames
           /\ made = Concluded(realization, RunConformance(theory, realization, suite))
    BY <1>2, <1>5 DEF ProduceFrom
  <2>2. ASSUME realization.operations.transition \in TransitionNames,
               made = Concluded(realization, RunConformance(theory, realization, suite))
        PROVE  Traceable(made)
    <3>1. RunConformance(theory, realization, suite) # Failed
      BY <2>2 DEF Concluded
    <3>2. PICK result : result = RunConformance(theory, realization, suite)
      OBVIOUS
    <3>3. result = Minted(Tested(theory, realization, suite))
      BY <3>1, <3>2 DEF RunConformance
    <3>4. /\ result.identity = Tested(theory, realization, suite)
          /\ result = [identity |-> result.identity, body |-> result.body]
      BY <3>3 DEF Minted
    <3>5. made = [ok |-> TRUE, id |-> realization.id, identity |-> realization.identity, result |-> result,
                  diagnostic |-> None]
      BY <2>2, <3>1, <3>2 DEF Concluded
    <3>6. Tested(theory, realization, suite) \in PacketBodies
      BY <1>5, <2>2
    <3> QED BY <3>4, <3>5, <3>6 DEF Traceable
  <2> QED BY <1>1, <2>1, <2>2
<1> QED BY <1>1, <1>3, <1>4, <1>5

LEMMA PacketFromDocuments ==
    ASSUME documents \in AllDocuments, NEW theory, theory = AuthoredTheory(documents.theory),
           NEW r \in ToSet(Authored(documents, theory)),
           NEW o, o = ProduceEvidence(theory, r, PacketSuites(documents, theory)), o # Failed
    PROVE  Traceable(o)
<1>1. PICK suites : suites = PacketSuites(documents, theory)
  OBVIOUS
<1>2. ASSUME NEW i \in DOMAIN suites, r.operations.transition \in TransitionNames
      PROVE  Tested(theory, r, suites[i]) \in PacketBodies
  <2>1. suites[i] \in ToSet(suites)
    BY DEF ToSet
  <2>2. r \in {x \in ToSet(Authored(documents, theory)) : x.operations.transition \in TransitionNames}
    BY <1>2
  <2>3. Tested(theory, r, suites[i]) \in PacketsFrom(documents, theory)
    BY <1>1, <2>1, <2>2 DEF PacketsFrom
  <2> QED BY <2>3, Zenon DEF PacketBodies
<1> QED BY <1>1, <1>2, ProducedIsTraceable

LEMMA PacketMade ==
    ASSUME documents \in AllDocuments, OutcomesTraceable, NEW theory, theory = AuthoredTheory(documents.theory),
           MakePacket(theory)
    PROVE  OutcomesTraceable'
<1>1. PICK outs : /\ outs = {ProduceEvidence(theory, r, PacketSuites(documents, theory)) :
                               r \in ToSet(Authored(documents, theory))}
                  /\ Collect(outs)
  BY DEF MakePacket
<1>2. PICK o \in outs \ {Failed} : outcomes' = Append(outcomes, o)
  BY <1>1 DEF Collect
<1>3. PICK r \in ToSet(Authored(documents, theory)) : o = ProduceEvidence(theory, r, PacketSuites(documents, theory))
  BY <1>1, <1>2
<1>4. Traceable(o)
  BY <1>2, <1>3, PacketFromDocuments
<1> QED BY <1>2, <1>4, Appended DEF OutcomesTraceable

LEMMA ReplacedIsTraceable ==
    ASSUME OutcomesTraceable, NEW i \in DOMAIN outcomes, NEW o, Traceable(o), outcomes' = [outcomes EXCEPT ![i] = o]
    PROVE  OutcomesTraceable'
<1>1. /\ outcomes' \in Seq(ToSet(outcomes'))
      /\ \A x \in ToSet(outcomes') : x \in ToSet(outcomes) \/ x = o
  BY Replaced DEF OutcomesTraceable
<1> QED BY <1>1 DEF OutcomesTraceable

LEMMA TransportIsTraceable == ASSUME OutcomesTraceable, CheckerTransport PROVE OutcomesTraceable'
<1>1. ASSUME LoseOutcome PROVE OutcomesTraceable'
  <2>1. PICK i \in DOMAIN outcomes : outcomes' = RemoveAt(outcomes, i)
    BY <1>1 DEF LoseOutcome, Fault
  <2> QED BY <2>1, Removed DEF OutcomesTraceable
<1>2. ASSUME NEW realizations, RebindOutcome(realizations) PROVE OutcomesTraceable'
  <2>1. PICK i \in DOMAIN outcomes, r \in ToSet(realizations) :
          outcomes' = [outcomes EXCEPT ![i].id = r.id, ![i].identity = r.identity]
    BY <1>2 DEF RebindOutcome, Fault
  <2>2. PICK o : o = [outcomes[i] EXCEPT !.id = r.id, !.identity = r.identity]
    OBVIOUS
  <2>3. outcomes' = [outcomes EXCEPT ![i] = o]
    BY <2>1, <2>2
  <2>4. Traceable(outcomes[i])
    BY DEF OutcomesTraceable, ToSet
  <2>5. Traceable(o)
    BY <2>2, <2>4 DEF Traceable
  <2> QED BY <2>3, <2>5, ReplacedIsTraceable
<1>3. ASSUME AlterOutcome PROVE OutcomesTraceable'
  <2>1. PICK i \in DOMAIN outcomes :
          outcomes[i].ok /\ outcomes' = [outcomes EXCEPT ![i].result.body = Whitewashed(@)]
    BY <1>3 DEF AlterOutcome, Fault
  <2>2. PICK o : o = [outcomes[i] EXCEPT !.result.body = Whitewashed(@)]
    OBVIOUS
  <2>3. outcomes' = [outcomes EXCEPT ![i] = o]
    BY <2>1, <2>2
  <2>4. Traceable(outcomes[i])
    BY DEF OutcomesTraceable, ToSet
  <2>5. Traceable(o)
    BY <2>1, <2>2, <2>4 DEF Traceable
  <2> QED BY <2>3, <2>5, ReplacedIsTraceable
<1> QED BY <1>1, <1>2, <1>3 DEF CheckerTransport

LEMMA CheckerSoundInit == CheckerInit => CheckerSound
<1> SUFFICES ASSUME CheckerInit PROVE documents \in AllDocuments /\ OutcomesTraceable /\ ClaimsIssued
  BY DEF CheckerSound
<1>1. documents \in AllDocuments
  BY DocumentsAssumption DEF CheckerInit, TracerInit
<1>2. outcomes = <<>> /\ claims = <<>> /\ ToSet(<<>>) = {} /\ <<>> \in Seq({})
  BY DEF CheckerInit, TracerInit, ToSet
<1> QED BY <1>1, <1>2 DEF OutcomesTraceable, ClaimsIssued

LEMMA CheckerSoundStep == CheckerSound /\ [CheckerNext]_checkerVars => CheckerSound'
<1> SUFFICES ASSUME CheckerSound, [CheckerNext]_checkerVars, house' = "experiment"
             PROVE  documents' \in AllDocuments /\ OutcomesTraceable' /\ ClaimsIssued'
  BY DEF CheckerSound
<1>1. house = "experiment"
  BY DEF CheckerNext, InTracer, InExperiment, checkerVars
<1>2. documents \in AllDocuments /\ OutcomesTraceable /\ ClaimsIssued
  BY <1>1 DEF CheckerSound
<1>3. PICK theory : theory = AuthoredTheory(documents.theory)
  OBVIOUS
<1>4. CASE Edits
  <2>1. documents' \in AllDocuments
    BY <1>2, <1>4, EditsAreListed
  <2>2. outcomes' = outcomes /\ claims' = claims
    BY <1>4 DEF Edits, Edit
  <2> QED BY <1>2, <2>1, <2>2 DEF OutcomesTraceable, ClaimsIssued
<1>5. CASE MakePacket(theory)
  <2>1. documents' = documents /\ claims' = claims
    BY <1>5 DEF MakePacket, Collect
  <2>2. OutcomesTraceable'
    BY <1>2, <1>3, <1>5, PacketMade
  <2> QED BY <1>2, <2>1, <2>2 DEF ClaimsIssued
<1>6. CASE CheckerTransport
  <2>1. documents' = documents /\ claims' = claims
    BY <1>6 DEF CheckerTransport, LoseOutcome, RebindOutcome, AlterOutcome, Fault
  <2>2. OutcomesTraceable'
    BY <1>2, <1>6, TransportIsTraceable
  <2> QED BY <1>2, <2>1, <2>2 DEF ClaimsIssued
<1>7. CASE Adjudication
  <2>1. PICK now : now = Adjudicate(documents, outcomes) /\ Record(now, outcomes, None)
    BY <1>7 DEF Adjudication
  <2>2. /\ now # Failed
        /\ claims' = Append(claims, [claim |-> now, documents |-> documents, outcomes |-> outcomes, execution |-> None])
        /\ documents' = documents /\ outcomes' = outcomes
    BY <2>1 DEF Record
  <2>3. ClaimIssued(now)
    BY <1>2, <2>1, <2>2, AdjudicatedPasses DEF OutcomesTraceable
  <2>4. ClaimsIssued'
    BY <1>2, <2>2, <2>3, Appended DEF ClaimsIssued
  <2> QED BY <1>2, <2>2, <2>4 DEF OutcomesTraceable
<1>8. CASE UNCHANGED checkerVars
  BY <1>2, <1>8 DEF checkerVars, tracerVars, OutcomesTraceable, ClaimsIssued
<1>9. ~InTracer
  BY <1>1 DEF InTracer
<1> QED BY <1>3, <1>4, <1>5, <1>6, <1>7, <1>8, <1>9 DEF CheckerNext

(* The independent checker accepts what the production side writes; and the   *)
(* claims it accepts, whatever came between, are those that production would  *)
(* write now (production.ts, checker.ts).                                     *)
THEOREM CheckerAgreesHolds == CheckerSpec => []CheckerAgrees
<1>1. ASSUME CheckerSound, house = "experiment", NEW now, now = Adjudicate(documents, outcomes)
      PROVE  /\ now # Failed => Compare(documents, outcomes, ResolutionClaimToJson(now)) = {}
             /\ \A k \in ToSet(claims) :
                   now # Failed /\ Compare(documents, outcomes, ResolutionClaimToJson(k.claim)) = {}
                     => Undiagnosed(k.claim) = Undiagnosed(now)
  <2>1. documents \in AllDocuments /\ OutcomesTraceable /\ ClaimsIssued
    BY <1>1 DEF CheckerSound
  <2>2. now # Failed => Compare(documents, outcomes, ResolutionClaimToJson(now)) = {}
    BY <1>1, <2>1, AdjudicatedPasses DEF OutcomesTraceable
  <2>3. ASSUME NEW k \in ToSet(claims), now # Failed,
               Compare(documents, outcomes, ResolutionClaimToJson(k.claim)) = {}
        PROVE  Undiagnosed(k.claim) = Undiagnosed(now)
    BY <1>1, <2>1, <2>3, AcceptedIsNow DEF OutcomesTraceable, ClaimsIssued
  <2> QED BY <2>2, <2>3
<1>2. CheckerSound => CheckerAgrees
  BY <1>1 DEF CheckerAgrees
<1> QED BY CheckerSoundInit, CheckerSoundStep, <1>2, PTL DEF CheckerSpec

=============================================================================
