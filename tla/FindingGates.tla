----------------------------- MODULE FindingGates -----------------------------
(***************************************************************************)
(* The decisions that stand between an assessment and a finding:           *)
(* admission of evidence, admission of a candidate, independent            *)
(* verification, the validation tiers, admission of a finding proposal,    *)
(* and the creation of the finding.  Every operator is a function of what  *)
(* the code loads before it decides; nothing here keeps state.             *)
(*                                                                         *)
(* The three evaluation strategies name their claims: "echo" (diagnostic   *)
(* plumbing), "authz" (object access differential) and "workflow" (state   *)
(* transition).  Claim s is the positive claim of strategy s.              *)
(***************************************************************************)
EXTENDS Integers

Strategy == {"echo", "authz", "workflow"}

Http == {"authz", "workflow"}

(* AssessmentOutcome; NONE: there is no assessment. *)
Outcome == {"CONSISTENT", "CONTRADICTS", "INCONCLUSIVE", "UNUSABLE", "CONTEXT"}

AttemptState == {"AUTHORIZED", "DISPATCHING", "COMPLETED", "FAILED", "UNKNOWN_OUTCOME"}

(* ExperimentExecutionState.  FAILED stands for EXECUTION_FAILED and
   CANCELLED, BLOCKED also for BUDGET_EXHAUSTED. *)
ExperimentState == {"PLANNED", "AUTHORIZATION_CHECK", "READY", "RUNNING", "SUCCEEDED",
                    "FAILED", "BLOCKED"}

(* FAILED stands for FAILED, TIMED_OUT and CANCELLED. *)
UNUSABLE_ATTEMPT_STATES == {"FAILED", "UNKNOWN_OUTCOME"}
UNUSABLE_EXPERIMENT_STATES == {"FAILED", "BLOCKED"}

----------------------------------------------------------------------------
(* Evidence. *)

(***************************************************************************)
(* EvidenceAdmissionContext: the strategy of the plan, the outcome of the  *)
(* assessment ("NONE" without one), whether there are observations, the    *)
(* state of the first attempt and of the experiment, the worker's status.  *)
(***************************************************************************)
EvidenceContext == [strategy : Strategy \cup {"other"}, outcome : Outcome \cup {"NONE"},
                    observed : BOOLEAN, attempt : AttemptState \cup {"NONE"},
                    state : ExperimentState, worker : {"OK", "FAILED", "NONE"}]

execution_unusable(c) ==
    \/ c.outcome = "UNUSABLE"
    \/ c.attempt \in UNUSABLE_ATTEMPT_STATES
    \/ c.state \in UNUSABLE_EXPERIMENT_STATES
    \/ c.worker = "FAILED"

(* Whether one of the propose_... functions builds a proposal. *)
Proposable(c) ==
    ~execution_unusable(c) /\ c.outcome # "NONE" /\ c.observed

(* The defects of a proposal that copies its references from the context. *)
CopiedCodes(c) ==
    (IF c.observed THEN {} ELSE {"ABSENT_SOURCE"})
        \cup (IF c.outcome = "NONE" THEN {"ASSESSMENT_REQUIRED"} ELSE {})

(* A proposal: polarity, claim and the defects of its references. *)
EvidenceProposal == [polarity : {"SUPPORTING", "CONTRADICTING", "NEUTRAL"},
                     claim : Strategy \cup {"mismatch", "held"},
                     codes : SUBSET {"WRONG_RUN", "MISSING_SOURCE", "ABSENT_SOURCE",
                                     "WRONG_HYPOTHESIS", "ASSESSMENT_REQUIRED"}]

NoProposal == [polarity |-> "NONE"]

propose_diagnostic_echo_evidence(c) ==
    IF c.strategy = "echo" /\ Proposable(c) /\ c.outcome \in {"CONSISTENT", "CONTRADICTS"}
    THEN IF c.outcome = "CONSISTENT"
         THEN [polarity |-> "SUPPORTING", claim |-> "echo", codes |-> {}]
         ELSE [polarity |-> "CONTRADICTING", claim |-> "mismatch", codes |-> {}]
    ELSE NoProposal

propose_authorization_differential_evidence(c) ==
    IF c.strategy = "authz" /\ Proposable(c) /\ c.outcome = "CONSISTENT"
    THEN [polarity |-> "SUPPORTING", claim |-> "authz", codes |-> {}]
    ELSE NoProposal

propose_state_transition_evidence(c) ==
    IF c.strategy = "workflow" /\ Proposable(c) /\ c.outcome = "CONSISTENT"
    THEN [polarity |-> "SUPPORTING", claim |-> "workflow", codes |-> {}]
    ELSE NoProposal

Broken == {"WRONG_RUN", "MISSING_SOURCE", "ABSENT_SOURCE"}

(* The second half of the decision for a strategy that only a consistent
   assessment and its own claim can satisfy. *)
_admit_http_authorization_evidence(p, c) ==
    CASE c.outcome # "CONSISTENT"    -> "REJECTED_INSUFFICIENT_SUPPORT"
      [] c.outcome = "CONSISTENT" /\ p.claim # "authz" -> "REJECTED_POLICY_CONFLICT"
      [] OTHER -> IF p.polarity = "SUPPORTING" /\ p.codes = {}
                  THEN "ADMITTED" ELSE "REJECTED_INSUFFICIENT_SUPPORT"

_admit_state_transition_evidence(p, c) ==
    CASE c.outcome # "CONSISTENT"    -> "REJECTED_INSUFFICIENT_SUPPORT"
      [] c.outcome = "CONSISTENT" /\ p.claim # "workflow" -> "REJECTED_POLICY_CONFLICT"
      [] OTHER -> IF p.polarity = "SUPPORTING" /\ p.codes = {}
                  THEN "ADMITTED" ELSE "REJECTED_INSUFFICIENT_SUPPORT"

AdmitDiagnostic(p, c) ==
    LET expected == IF c.outcome = "CONSISTENT" THEN "echo" ELSE "mismatch" IN
    IF c.outcome \notin {"CONSISTENT", "CONTRADICTS"} THEN "REJECTED_INSUFFICIENT_SUPPORT"
    ELSE IF p.claim # expected THEN "REJECTED_POLICY_CONFLICT"
    ELSE IF p.codes # {} THEN "REJECTED_INSUFFICIENT_SUPPORT"
    ELSE "ADMITTED"

(* Faulty variant: a failed execution is not looked at. *)
admit_evidence_unusable(p, c) ==
    IF p.codes \cap Broken # {} THEN "REJECTED_BROKEN_PROVENANCE"
    ELSE CASE c.strategy = "authz"    -> _admit_http_authorization_evidence(p, c)
           [] c.strategy = "workflow" -> _admit_state_transition_evidence(p, c)
           [] c.strategy = "echo"     -> AdmitDiagnostic(p, c)
           [] OTHER                   -> "REJECTED_POLICY_CONFLICT"

admit_evidence(p, c) ==
    IF execution_unusable(c) THEN "REJECTED_EXECUTION_UNUSABLE"
    ELSE IF p.codes \cap Broken # {} THEN "REJECTED_BROKEN_PROVENANCE"
    ELSE CASE c.strategy = "authz"    -> _admit_http_authorization_evidence(p, c)
           [] c.strategy = "workflow" -> _admit_state_transition_evidence(p, c)
           [] c.strategy = "echo"     -> AdmitDiagnostic(p, c)
           [] OTHER                   -> "REJECTED_POLICY_CONFLICT"

(***************************************************************************)
(* AdmitDiagnosticEvidence without a given proposal: the strategy's own    *)
(* proposal; a neutral one that is bound to be refused when the execution  *)
(* was unusable or the http claim was not established; else an error.      *)
(***************************************************************************)
ProposalFor(c) ==
    LET own == CASE c.strategy = "authz" -> propose_authorization_differential_evidence(c)
                 [] c.strategy = "workflow" -> propose_state_transition_evidence(c)
                 [] OTHER -> propose_diagnostic_echo_evidence(c)
    IN IF own = NoProposal /\ (execution_unusable(c) \/ c.strategy \in Http)
       THEN [polarity |-> "NEUTRAL", claim |-> "held", codes |-> CopiedCodes(c)]
       ELSE own

(* The polarity of the evidence that is inserted, "NONE" if none is. *)
AdmittedEvidence(c) ==
    LET p == ProposalFor(c) IN
    IF c.strategy \in Strategy /\ p # NoProposal
    THEN IF admit_evidence(p, c) = "ADMITTED" THEN p.polarity ELSE "NONE"
    ELSE "NONE"

(* Not an error: AdmitDiagnosticEvidence returns, admitted or refused. *)
Admissible(c) == c.strategy \in Strategy /\ ProposalFor(c) # NoProposal

----------------------------------------------------------------------------
(* Candidate. *)

CandidateState == {"OPEN", "VERIFYING", "VALIDATED", "REJECTED", "INCONCLUSIVE"}

ClosedCandidate == {"VALIDATED", "REJECTED", "INCONCLUSIVE"}

(* OUT_OF_SCOPE and DUPLICATE need arguments that no caller gives. *)
LEGAL_CANDIDATE_TRANSITIONS ==
    {<<"OPEN", "VERIFYING">>} \cup ({"VERIFYING"} \X ClosedCandidate)

(* propose_..._candidate: one supporting evidence, whose claim decides. *)
propose_candidate(e) ==
    IF e.polarity = "SUPPORTING" /\ e.claim \in Strategy
    THEN [class |-> e.claim, claim |-> e.claim, codes |-> {}]
    ELSE NoProposal

(* e: the evidence the proposal cites. *)
admit_candidate(p, e) ==
    CASE p.codes \cap {"WRONG_RUN", "MISSING_EVIDENCE", "ABSENT_EVIDENCE"} # {} ->
             "REJECTED_BROKEN_PROVENANCE"
      [] p.class \notin Strategy -> "REJECTED_NOT_TESTABLE"
      [] p.class \in Http /\ e.claim \in Http \ {p.class} -> "REJECTED_NOT_TESTABLE"
      [] p.claim # p.class -> "REJECTED_NOT_TESTABLE"
      [] e.polarity # "SUPPORTING" \/ e.claim # p.class -> "REJECTED_INSUFFICIENT_SUPPORT"
      [] p.codes # {} -> "REJECTED_INSUFFICIENT_SUPPORT"
      [] OTHER -> "ADMITTED"

----------------------------------------------------------------------------
(* Verification. *)

(* A VerificationEvidenceRef: the experiment, attempt (request) and
   observations that the evidence rests on, what it says, and whether the
   negative controls in the observed facts held. *)
EvidenceRef(e, x, q, o, pol, cl, held) ==
    [id |-> e, exp |-> x, request |-> q, obs |-> o, polarity |-> pol, claim |-> cl,
     held |-> held]

NoRef == [id |-> -1]

_independent(o, r) ==
    /\ o.id # r.id /\ o.exp # r.exp /\ o.request # r.request
    /\ o.obs \cap r.obs = {}

(***************************************************************************)
(* VerificationContext c: original and reproduction evidence (NoRef if     *)
(* there is none), whether the reproduction's execution is unusable, its   *)
(* experiment, request (0 if there is none), observations, and the outcome *)
(* of its assessment.                                                      *)
(***************************************************************************)
evaluate_diagnostic_verification(c) ==
    LET r == c.reproduction IN
    CASE c.unusable -> "INCONCLUSIVE"
      [] ~c.unusable /\ r = NoRef -> "INCONCLUSIVE"
      [] OTHER ->
           IF ~_independent(c.original, r) THEN "INCONCLUSIVE"
           ELSE IF r.polarity = "CONTRADICTING" /\ r.claim = "mismatch" THEN "REJECTED"
           ELSE IF r.polarity = "SUPPORTING" /\ r.claim = "echo" /\ r.held
                THEN "VALIDATED"
           ELSE "INCONCLUSIVE"

_reproduction_independent_of_original(c) ==
    LET r == c.reproduction
        exp == IF r = NoRef THEN c.exp ELSE r.exp
        request == IF r = NoRef THEN c.request ELSE r.request
        obs == IF r = NoRef THEN c.obs ELSE r.obs
    IN /\ r # NoRef => c.original.id # r.id
       /\ request # 0
       /\ c.original.exp # exp
       /\ c.original.request # request
       /\ c.original.obs \cap obs = {}

(* Faulty variant: the negative controls of the reproduction are not looked at. *)
AuthorizationVerificationUncontrolled(c) ==
    LET r == c.reproduction IN
    CASE c.unusable \/ ~_reproduction_independent_of_original(c) -> "INCONCLUSIVE"
      [] OTHER -> IF r # NoRef /\ r.polarity = "SUPPORTING" /\ r.claim = "authz"
                  THEN "VALIDATED"
                  ELSE IF c.outcome = "CONTRADICTS" THEN "REJECTED" ELSE "INCONCLUSIVE"

(* Faulty variant: what does not support the claim refutes it. *)
AuthorizationVerificationHasty(c) ==
    LET r == c.reproduction IN
    IF r # NoRef /\ r.polarity = "SUPPORTING" /\ r.claim = "authz" /\ r.held
    THEN "VALIDATED" ELSE "REJECTED"

evaluate_authorization_differential_verification(c) ==
    LET r == c.reproduction IN
    CASE c.unusable \/ ~_reproduction_independent_of_original(c) -> "INCONCLUSIVE"
      [] OTHER ->
           IF r # NoRef /\ r.polarity = "SUPPORTING" /\ r.claim = "authz" /\ r.held
           THEN "VALIDATED"
           ELSE IF c.outcome = "CONTRADICTS" THEN "REJECTED" ELSE "INCONCLUSIVE"

evaluate_state_transition_verification(c) ==
    LET r == c.reproduction IN
    CASE c.unusable \/ ~_reproduction_independent_of_original(c) -> "INCONCLUSIVE"
      [] OTHER ->
           IF r # NoRef /\ r.polarity = "SUPPORTING" /\ r.claim = "workflow" /\ r.held
           THEN "VALIDATED"
           ELSE IF c.outcome = "CONTRADICTS" THEN "REJECTED" ELSE "INCONCLUSIVE"

(* The evaluator that CompleteCandidateVerification takes by classification. *)
evaluate_verification(class, c) ==
    CASE class = "authz"    -> evaluate_authorization_differential_verification(c)
      [] class = "workflow" -> evaluate_state_transition_verification(c)
      [] OTHER              -> evaluate_diagnostic_verification(c)

----------------------------------------------------------------------------
(* Validation tiers, finding proposal, approval and finding. *)

Tier == {"V1", "V2", "V3"}

TierOutcome == {"PASSED", "REJECTED", "INCONCLUSIVE", "QUEUED"}

(* _REQUIRED_CHAIN *)
RequiredChain(tier) ==
    CASE tier = "V1" -> {"V1"} [] tier = "V2" -> {"V1", "V2"} [] OTHER -> Tier

(* observed[t]: the outcome of the latest event of tier t, or "NONE". *)
validate_required_tiers(tier, observed) ==
    IF \E t \in RequiredChain(tier) : observed[t] = "NONE"
    THEN "REJECTED_MISSING_REQUIRED_TIER"
    ELSE IF \E t \in RequiredChain(tier) : observed[t] # "PASSED"
    THEN "REJECTED_TIER_NOT_PASSED"
    ELSE "ADMITTED"

(* Faulty variant: a queued tier passes. *)
TiersQueuedPass(class, observed) ==
    class = "echo" \/ \A t \in Tier : observed[t] \in {"PASSED", "QUEUED"}

(* read_validation_audit_view: diagnostics need no tier, the rest all. *)
TiersPassed(class, observed) ==
    class = "echo" \/ validate_required_tiers("V3", observed) = "ADMITTED"

ProposalState == {"PROPOSED", "HUMAN_REVIEW", "APPROVED", "REJECTED"}

LEGAL_FINDING_PROPOSAL_TRANSITIONS ==
    {<<"PROPOSED", "HUMAN_REVIEW">>, <<"HUMAN_REVIEW", "APPROVED">>,
     <<"HUMAN_REVIEW", "REJECTED">>}

(* propose_..._finding_proposal and admit_finding_proposal: the draft copies
   candidate, evidence and verifications from its context. *)
admit_finding_proposal(candidate, verified) ==
    IF candidate = "VALIDATED" /\ verified THEN "ADMITTED"
    ELSE "REJECTED_CANDIDATE_NOT_VALIDATED"

(* check_approval and evaluate_recorded_approval: a record is valid when a
   human decided about this subject; only APPROVE authorizes. *)
valid_record(a) == a.recorded /\ a.actor = "HUMAN_OPERATOR" /\ a.subject

authorizes(a) == valid_record(a) /\ a.decision = "APPROVE"

(* evaluate_finding_creation: c has the states of candidate and proposal, the
   review (decision, actor and whether it is about this content) and the
   approval. *)
evaluate_finding_creation(c) ==
    CASE c.candidate # "VALIDATED" -> "REJECTED_CANDIDATE_NOT_VALIDATED"
      [] c.candidate = "VALIDATED" /\ c.proposal # "HUMAN_REVIEW" -> "REJECTED_ILLEGAL_STATE"
      [] OTHER ->
         IF c.review.decision = "NONE" THEN "REJECTED_MISSING_REVIEW"
         ELSE IF c.review.actor # "HUMAN_OPERATOR" \/ c.approval.actor # "HUMAN_OPERATOR"
         THEN "REJECTED_ACTOR"
         ELSE IF ~c.review.same THEN "REJECTED_SUBJECT_MISMATCH"
         ELSE IF ~valid_record(c.approval) THEN "REJECTED_MISSING_APPROVAL"
         ELSE IF c.approval.decision # c.review.decision
         THEN "REJECTED_INCONSISTENT_DECISIONS"
         ELSE IF c.review.decision = "REJECT" \/ ~authorizes(c.approval)
         THEN "REJECTED_PROPOSAL"
         ELSE "CREATED"
=============================================================================
