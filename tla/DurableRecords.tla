--------------------------- MODULE DurableRecords ---------------------------
(***************************************************************************)
(* What the record classes of data/records.py admit: one definition per    *)
(* class, in the vocabulary of DurableTables.  Every row is built through  *)
(* its class twice, when it is written (Repository.insert takes a record)  *)
(* and when it is read (mapping.py), so a row its class refuses cannot be  *)
(* read.  Types and time zones of the fields are left out.                 *)
(***************************************************************************)
EXTENDS DurableTables

----------------------------------------------------------------------------
(* Rules only records have: text that must not be blank, a payload that    *)
(* must not carry credentials, a payload that must not carry some keys.    *)
NonEmpty(columns)     == <<"non-empty", "text", columns>>
NoSecrets(columns)    == <<"no secrets", "payload", columns>>
Without(column, keys) == <<"without keys", column, keys>>

Record(t, rules) == {<<t, r[1], r[2], r[3]>> : r \in rules}

ASSESSMENT_RATIONALE_FORBIDDEN_KEYS ==
  {"severity", "evidence", "finding", "confidence", "candidate"}
FINDING_FORBIDDEN_KEYS ==
  {"severity", "cvss", "cve", "bounty", "exploitability", "confidence", "vulnerability"}
CANDIDATE_FORBIDDEN_KEYS ==
  {"severity", "cvss", "finding", "finding_proposal", "exploitability", "authorization",
   "confidence"}

----------------------------------------------------------------------------
ProgramRecord == Record("program",
  { NonEmpty({"program_id"}) })

ScopeRuleV2Record == Record("scope_rule_v2",
  { NonEmpty({"rule_id", "program_id", "source_reference"}), Positive("port"),
    Check("host xor host_pattern") })

ProgramPolicyRecord == Record("program_policy",
  { NonEmpty({"program_id"}), NotNegative("max_response_bytes"),
    NotNegative("timeout_ms"), NotNegative("daily_llm_budget_microdollars"),
    NoSecrets({"action_policy"}) })

SensorObservationRecord == Record("sensor_observation",
  { NonEmpty({"observation_id", "research_run_id", "sensor_id", "target_reference",
         "payload_digest", "epistemic_status"}),
    NoSecrets({"source_metadata", "payload"}) })

RateLimitProfileRecord == Record("rate_limit_profile",
  { NonEmpty({"profile_id", "program_id"}), NotNegative("max_requests_per_window"),
    NotNegative("window_seconds") })

OastTokenRecord == Record("oast_token",
  { NonEmpty({"token_id", "research_run_id", "hypothesis_id", "target_reference"}) })

OastCorrelationRecord == Record("oast_correlation",
  { NonEmpty({"correlation_id", "attempt_id", "experiment_id", "research_run_id",
         "target_reference", "identity_id"}), Check("expires after armed") })

OastCallbackDeliveryRecord == Record("oast_callback_delivery",
  { NonEmpty({"delivery_id", "correlation_id"}), In("provider_adapter_id", {"1..128"}),
    In("provider_event_id", {"1..256"}),
    In("normalized_payload", {"object within 16384 bytes",
         "only compact within 16384"}), In("normalized_digest", {"sha256"}),
    NoSecrets({"normalized_payload"}) })

OastAdmissionRecord == Record("oast_admission",
  { NonEmpty({"admission_id", "correlation_id", "research_run_id",
         "sensor_observation_id", "discovery_fact_id"}) })

BountyTableRecord == Record("bounty_table",
  { NonEmpty({"program_id", "severity"}), NoSecrets({"reward_range"}) })

AuthorizationSourceRecord == Record("authorization_source",
  { NonEmpty({"authorization_source_id", "program_id", "provenance_reference"}),
    In("state", {"ACTIVE", "EXPIRED", "REVOKED"}), Check("effective window") })

ResearchRunRecord == Record("research_run",
  { NonEmpty({"research_run_id", "program_id", "authorization_source_id",
         "initiated_by_actor_id"}),
    In("initiated_by_actor_type", {"HUMAN_OPERATOR", "CONTROL_PLANE", "WORKER",
         "INTEGRATION"}) })

IssuedBudgetRecord == Record("issued_budget",
  { NonEmpty({"budget_id", "research_run_id"}), NotNegative("max_requests"),
    NotNegative("max_tool_calls"), NotNegative("max_runtime_ms"),
    NotNegative("max_concurrency") })

HypothesisRecord == Record("hypothesis",
  { NonEmpty({"hypothesis_id", "research_run_id", "claim", "origin_reference",
         "identity_id"}) })

ResearchReasoningRecord == Record("research_reasoning",
  { NonEmpty({"reasoning_record_id", "research_run_id", "hypothesis_id",
         "adapter_identity", "provider_adapter_identity", "correlation_id",
         "context_fingerprint", "model_id", "model_version"}),
    In("role", {"GENERATOR", "FALSIFIER"}), NoSecrets({"structured_output"}) })

ResearchAdmissionRecord == Record("research_admission",
  { NonEmpty({"admission_record_id", "research_run_id", "reason", "reason_code",
         "context_fingerprint", "generator_reasoning_record_id",
         "falsifier_reasoning_record_id", "admitted_hypothesis_id"}),
    In("outcome", {"ADMITTED", "REJECTED_UNTESTABLE", "REJECTED_UNSUPPORTED",
         "REJECTED_POLICY_CONFLICT", "NEEDS_MORE_CONTEXT", "MODEL_INVOCATION_FAILED"}),
    Check("admitted iff admitted_hypothesis_id") })

ExperimentPlanRecord == Record("experiment_plan",
  { NonEmpty({"experiment_id", "research_run_id", "hypothesis_id",
         "required_capability", "action", "target_reference", "requested_budget_id",
         "expected_observation", "disconfirming_observation", "evaluation_strategy",
         "capability_version", "capability_definition_fingerprint"}),
    Level("side_effect_level"), NoSecrets({"arguments"}) })

HypothesisAssessmentRecord == Record("hypothesis_assessment",
  { NonEmpty({"assessment_id", "hypothesis_id", "experiment_id", "research_run_id",
         "evaluator_version", "evaluation_strategy"}),
    In("assessment_outcome", {"CONSISTENT_WITH_PREDICTION", "CONTRADICTS_PREDICTION",
         "INCONCLUSIVE", "EXECUTION_UNUSABLE", "NEEDS_MORE_CONTEXT"}),
    In("evaluator_kind", {"DETERMINISTIC"}),
    Without("rationale", ASSESSMENT_RATIONALE_FORBIDDEN_KEYS), NoSecrets({"rationale"}) })

EvidenceRecord == Record("evidence",
  { NonEmpty({"evidence_id", "research_run_id", "hypothesis_id", "experiment_id",
         "admission_record_id", "claim_scope", "observation_ids", "assessment_ids"}),
    In("polarity", {"SUPPORTING", "CONTRADICTING", "NEUTRAL"}) })

EvidenceAdmissionRecord == Record("evidence_admission",
  { NonEmpty({"admission_record_id", "proposal_id", "research_run_id", "reason_codes",
         "admission_policy_version", "evaluator_version", "claim_scope"}),
    In("outcome", {"ADMITTED", "REJECTED_INSUFFICIENT_SUPPORT",
         "REJECTED_BROKEN_PROVENANCE", "REJECTED_EXECUTION_UNUSABLE",
         "REJECTED_POLICY_CONFLICT", "NEEDS_VERIFICATION"}),
    In("polarity", {"SUPPORTING", "CONTRADICTING", "NEUTRAL"}),
    Check("admitted iff admitted_evidence_id") })

CandidateRecord == Record("candidate",
  { NonEmpty({"candidate_id", "research_run_id", "hypothesis_id",
         "admission_record_id", "claim", "evidence_ids"}),
    In("classification", {"DIAGNOSTIC_PLUMBING", "HTTP_AUTHORIZATION_DIFFERENTIAL",
         "HTTP_STATE_TRANSITION_AUTHORIZATION"}),
    In("state", {"OPEN", "VERIFYING", "VALIDATED", "REJECTED", "INCONCLUSIVE",
         "DUPLICATE", "OUT_OF_SCOPE"}) })

CandidateAdmissionRecord == Record("candidate_admission",
  { NonEmpty({"admission_record_id", "proposal_id", "research_run_id", "reason_codes",
         "admission_policy_version", "claim"}),
    In("outcome", {"ADMITTED", "REJECTED_INSUFFICIENT_SUPPORT",
         "REJECTED_BROKEN_PROVENANCE", "REJECTED_CLAIM_EXCEEDS_EVIDENCE",
         "REJECTED_NOT_TESTABLE", "REJECTED_POLICY_CONFLICT"}),
    In("classification", {"DIAGNOSTIC_PLUMBING", "HTTP_AUTHORIZATION_DIFFERENTIAL",
         "HTTP_STATE_TRANSITION_AUTHORIZATION"}),
    Check("admitted iff admitted_candidate_id") })

VerificationRecord == Record("verification",
  { NonEmpty({"verification_id", "candidate_id", "research_run_id", "strategy",
         "verifier_identity", "original_evidence_ids"}),
    In("outcome", {"VALIDATED", "REJECTED", "INCONCLUSIVE", "DUPLICATE",
         "OUT_OF_SCOPE"}),
    In("proposed_candidate_state", {"OPEN", "VERIFYING", "VALIDATED", "REJECTED",
         "INCONCLUSIVE", "DUPLICATE", "OUT_OF_SCOPE"}),
    In("verifier_kind", {"DETERMINISTIC"}), Check("proposed state = outcome"),
    Without("alternative_explanation_checks", CANDIDATE_FORBIDDEN_KEYS),
    NoSecrets({"alternative_explanation_checks"}) })

PromotionRunRecord == Record("promotion_run",
  { NonEmpty({"promotion_run_id", "research_run_id", "assessment_id",
         "original_experiment_id", "evidence_id", "candidate_id", "verification_id",
         "finding_proposal_id", "reproduction_experiment_id", "stop_reason"}),
    In("stage", {"EVIDENCE_REJECTED", "EVIDENCE_ADMITTED", "CANDIDATE_REJECTED",
         "CANDIDATE_OPEN", "VERIFYING", "REPRODUCTION_EXECUTED", "VERIFIED",
         "PROPOSAL_RECORDED", "STOPPED"}) })

FindingProposalRecord == Record("finding_proposal",
  { NonEmpty({"proposal_id", "candidate_id", "research_run_id", "title", "claim",
         "evidence_ids", "verification_ids", "content_fingerprint"}),
    In("classification", {"DIAGNOSTIC_PLUMBING", "HTTP_AUTHORIZATION_DIFFERENTIAL",
         "HTTP_STATE_TRANSITION_AUTHORIZATION"}),
    In("state", {"PROPOSED", "HUMAN_REVIEW", "APPROVED", "REJECTED"}) })

HumanReviewRecord == Record("human_review",
  { NonEmpty({"review_id", "proposal_id", "reviewer_id", "content_fingerprint",
         "reason_codes", "note"}), In("decision", {"APPROVE", "REJECT"}),
    In("actor_type", {"HUMAN_OPERATOR", "CONTROL_PLANE", "WORKER", "INTEGRATION"}) })

ApprovalRecord == Record("approval",
  { NonEmpty({"approval_id", "subject_reference", "decided_by", "research_run_id",
         "proposal_id", "human_review_id"}), In("decision", {"APPROVE", "REJECT"}),
    In("actor_type", {"HUMAN_OPERATOR", "CONTROL_PLANE", "WORKER", "INTEGRATION"}),
    In("recorded", {"true"}) })

FindingRecord == Record("finding",
  { NonEmpty({"finding_id", "finding_proposal_id", "candidate_id", "research_run_id",
         "approval_id", "human_review_id", "title", "claim", "evidence_ids",
         "verification_ids"}),
    In("classification", {"DIAGNOSTIC_PLUMBING", "HTTP_AUTHORIZATION_DIFFERENTIAL",
         "HTTP_STATE_TRANSITION_AUTHORIZATION"}) })

TargetInferenceRecord == Record("target_inference",
  { NonEmpty({"inference_id", "research_run_id", "opaque_ref", "statement",
         "source_refs", "strategy_version"}),
    In("kind", {"ACTOR", "ROLE", "SESSION", "RESOURCE", "ACTION", "STATE",
         "RELATIONSHIP", "STATE_TRANSITION"}),
    In("epistemic_status", {"INFERRED", "HYPOTHESIZED"}), NoSecrets({"attributes"}) })

DifferentialObservationRecord == Record("differential_observation",
  { NonEmpty({"differential_id", "research_run_id", "case_id", "strategy_version",
         "baseline_observation_ids", "variant_observation_ids", "changed_dimensions",
         "common_dimensions", "source_refs"}),
    In("interpretation", {"CONTROLLED_DIFFERENCE", "EQUIVALENT", "INCOMPARABLE"}),
    NoSecrets({"observed_differences", "observed_similarities"}) })

InvariantHypothesisRecord == Record("invariant_hypothesis",
  { NonEmpty({"invariant_id", "research_run_id", "expected_behavior",
         "falsification_direction", "proposer_provenance", "strategy_version",
         "source_refs"}),
    In("invariant_kind", {"ACCESS_RELATION", "STATE_TRANSITION", "OWNERSHIP_RELATION",
         "ROLE_BOUNDARY", "SESSION_BINDING", "RESOURCE_ISOLATION",
         "IMMUTABILITY_AFTER_STATE", "SEQUENCE_PRECONDITION", "INPUT_OUTPUT_RELATION",
         "OTHER"}), In("status", {"TESTABLE", "CHALLENGED", "RETIRED"}),
    NoSecrets({"applicability_context"}) })

InvariantSourceRefRecord == Record("invariant_source_ref",
  { NonEmpty({"invariant_id", "source_ref"}) })

InvariantCounterexampleRefRecord == Record("invariant_counterexample_ref",
  { NonEmpty({"counterexample_id", "invariant_id", "source_ref"}) })

ChainHypothesisRecord == Record("chain_hypothesis",
  { NonEmpty({"chain_id", "research_run_id", "structural_identity",
         "expected_resulting_capability", "strategy_version", "source_refs"}),
    In("steps", {"two or more"}), NoSecrets({"descriptive_features"}) })

ResearchOpportunityRecord == Record("research_opportunity",
  { NonEmpty({"opportunity_id", "research_run_id", "structural_identity",
         "proposed_direction", "unresolved_question", "source_refs",
         "context_signature", "strategy_version"}),
    In("opportunity_kind", {"HYPOTHESIS_FOLLOWUP", "DIFFERENTIAL_FOLLOWUP",
         "INVARIANT_CHALLENGE", "CHAIN_EXTENSION", "NEGATIVE_KNOWLEDGE_REVISIT",
         "UNRESOLVED_TARGET_RELATION", "CONTROL_EXPERIMENT", "SURFACE_DISCOVERY",
         "HUNTER_COVERAGE_GAP", "REGISTRY_EXTERNAL_EXPLORATORY", "OTHER"}),
    In("mode", {"EXPLORATION", "EXPLOITATION"}),
    Without("dimensions", FINDING_FORBIDDEN_KEYS \cup {"priority_score",
         "weighted_score"}) })

ResearchSelectionRecord == Record("research_selection",
  { NonEmpty({"selection_id", "research_run_id", "opportunity_id",
         "structural_identity"}),
    In("outcome", {"SELECT", "DEFER", "SKIP_DUPLICATE", "SKIP_LOW_INFORMATION",
         "BLOCKED_BUDGET", "BLOCKED_POLICY", "NEEDS_MORE_CONTEXT"}) })

OpportunitySelectionCandidateRecord == Record("opportunity_selection_candidate",
  { NonEmpty({"candidate_id", "research_run_id", "structural_identity",
         "proposed_direction", "unresolved_question", "source_refs",
         "context_signature", "strategy_version", "resulting_opportunity_id"}),
    In("source_system", {"HUNTER_COVERAGE", "REGISTRY_EXTERNAL_ANOMALY"}),
    In("opportunity_kind", {"HYPOTHESIS_FOLLOWUP", "DIFFERENTIAL_FOLLOWUP",
         "INVARIANT_CHALLENGE", "CHAIN_EXTENSION", "NEGATIVE_KNOWLEDGE_REVISIT",
         "UNRESOLVED_TARGET_RELATION", "CONTROL_EXPERIMENT", "SURFACE_DISCOVERY",
         "HUNTER_COVERAGE_GAP", "REGISTRY_EXTERNAL_EXPLORATORY", "OTHER"}),
    In("mode", {"EXPLORATION", "EXPLOITATION"}),
    In("outcome", {"PENDING", "ADMITTED", "NOT_ADMITTED"}),
    Without("dimensions", FINDING_FORBIDDEN_KEYS \cup {"priority_score",
         "weighted_score"}), Check("pending has no decision"),
    Check("decided has decided_at"), Check("admitted iff resulting_opportunity_id") })

SnapshotRecord == Record("snapshot",
  { NonEmpty({"snapshot_id", "research_run_id", "program_id", "target_identity",
         "strategy_version"}) })

SnapshotMemberRecord == Record("snapshot_member",
  { NonEmpty({"snapshot_id", "observation_id"}) })

ChangeEventRecord == Record("change_event",
  { NonEmpty({"change_event_id", "research_run_id", "baseline_snapshot_id",
         "variant_snapshot_id", "statement", "strategy_version"}),
    In("category", {"ADDED", "REMOVED", "MODIFIED", "RELATION_CHANGED",
         "STATE_CHANGED", "BEHAVIOR_CHANGED", "UNKNOWN_CHANGE"}) })

ExperimentRecord == Record("experiment",
  { NonEmpty({"experiment_id", "research_run_id", "hypothesis_id", "budget_id"}),
    In("execution_state", {"PLANNED", "AUTHORIZATION_CHECK", "READY", "RUNNING",
         "EXECUTION_SUCCEEDED", "EXECUTION_FAILED", "BLOCKED", "CANCELLED",
         "BUDGET_EXHAUSTED"}) })

ExecutionAttemptRecord == Record("execution_attempt",
  { NonEmpty({"attempt_id", "request_id", "experiment_id", "research_run_id",
         "correlation_id", "worker_capability", "action", "target_reference",
         "budget_id", "authorization_decision_reference"}), Level("side_effect_level"),
    In("state", {"AUTHORIZED", "DISPATCHING", "COMPLETED", "FAILED", "TIMED_OUT",
         "CANCELLED", "UNKNOWN_OUTCOME"}),
    In("target_contact_status", {"CONFIRMED", "NOT_CONTACTED", "UNKNOWN"}) })

WorkerResultRecord == Record("worker_result",
  { NonEmpty({"worker_result_id", "experiment_id", "research_run_id", "request_id",
         "correlation_id", "worker_capability", "action",
         "authorization_decision_reference", "budget_id", "worker_id",
         "contract_version", "parent_request_id"}),
    In("status", {"SUCCEEDED", "EXECUTION_FAILED", "BLOCKED", "CANCELLED", "TIMED_OUT",
         "BUDGET_EXHAUSTED", "REAUTHORIZATION_REQUIRED"}), Level("side_effect_level"),
    NoSecrets({"raw_result", "diagnostics", "control_signal",
         "raw_artifact_descriptors"}) })

ObservationRecord == Record("observation",
  { NonEmpty({"observation_id", "worker_result_id", "observation_kind",
         "normalization_version"}), NoSecrets({"payload"}) })

AuditEventRecord == Record("audit_event",
  { NonEmpty({"audit_event_id", "actor_id", "subject_id", "event_type", "subject_type",
         "correlation_id"}),
    In("actor_type", {"HUMAN_OPERATOR", "CONTROL_PLANE", "WORKER", "INTEGRATION"}),
    NoSecrets({"payload"}) })

RunFaultRecord == Record("run_fault",
  { NonEmpty({"fault_id", "research_run_id", "fault_code", "hypothesis_id",
         "experiment_id", "attempt_id", "request_id", "capability", "action",
         "runtime_instance_id", "correlation_id"}),
    In("component", {"CONTROL", "EXECUTION", "WORKER", "RUNTIME", "SUPERVISOR",
         "PERSISTENCE", "PLANNING"}),
    In("phase", {"AUTHORIZATION", "DISPATCH", "INVOCATION", "INGESTION", "TICK",
         "HEARTBEAT", "RECONCILIATION", "PERSISTENCE", "PLANNING"}),
    In("fault_class", {"EXECUTION", "RUNTIME", "SUPERVISOR", "PERSISTENCE", "POLICY"}),
    In("diagnostic_summary", {"1..1000", "1001..1014"}),
    Check("resolved after occurred") })

ResearchOrchestrationRecord == Record("research_orchestration",
  { NonEmpty({"research_run_id", "budget_id", "last_phase", "policy_version",
         "target_reference", "research_question", "last_opportunity_id",
         "last_hypothesis_id", "last_experiment_id", "active_cycle_id",
         "last_attempt_id", "last_observation_id", "last_assessment_id",
         "last_worker_result_id", "pause_reason", "stop_reason",
         "routing_policy_version"}),
    In("state", {"READY", "RUNNING", "PAUSED", "WAITING_HUMAN", "BLOCKED",
         "BUDGET_EXHAUSTED", "COMPLETED", "FAILED_OPERATIONAL"}),
    NotNegative("lease_epoch"), NotNegative("cycle_number"), NotNegative("max_cycles"),
    NotNegative("max_experiments"), NotNegative("max_model_calls"),
    NotNegative("max_worker_invocations"), NotNegative("max_elapsed_ms"),
    NotNegative("max_selected_opportunities"), NotNegative("max_runtime_fallback"),
    Level("side_effect_ceiling"),
    In("current_phase", {"CYCLE_READY", "OPPORTUNITY_SELECTED", "HYPOTHESIS_ADMITTED",
         "EXPERIMENT_PLANNED", "AUTHORIZATION_REQUESTED", "ATTEMPT_AUTHORIZED",
         "DISPATCHING", "WORKER_RESULT_RECORDED", "TRANSITION_A_COMPLETE",
         "ASSESSMENT_COMPLETE", "TRANSITION_B_COMPLETE", "CYCLE_COMPLETE"}),
    In("configuration_fingerprint", {"64"}), In("scope_fingerprint", {"64"}) })

RuntimeInstanceRecord == Record("runtime_instance",
  { NonEmpty({"runtime_instance_id", "host_identity", "process_id", "engine_version"}),
    In("status", {"STARTING", "RUNNING", "DRAINING", "STOPPED"}),
    NoSecrets({"capabilities_summary"}) })

PreflightReportRecord == Record("preflight_report",
  { NonEmpty({"preflight_report_id", "research_run_id", "runtime_instance_id",
         "release_version", "configuration_fingerprint"}),
    In("status", {"READY_TO_START", "NOT_READY"}), NoSecrets({"checks"}) })

ResearchCycleRecord == Record("research_cycle",
  { NonEmpty({"cycle_id", "research_run_id", "phase_completed", "opportunity_id",
         "hypothesis_id", "experiment_id", "stop_reason"}), NotNegative("cycle_number"),
    In("outcome", {"CONTINUE", "PAUSE", "COMPLETE", "BLOCKED", "REQUIRE_HUMAN_REVIEW"}) })

BudgetConsumptionRecord == Record("budget_consumption",
  { NonEmpty({"consumption_id", "budget_id", "research_run_id", "provenance",
         "experiment_id", "request_id"}),
    In("resource_type", {"MODEL_CALL", "MODEL_TOKENS_IN", "MODEL_TOKENS_OUT",
         "MODEL_ESCALATION_DECISION", "WORKER_INVOCATION", "REQUEST", "EXECUTION_TIME",
         "ARTIFACT_BYTES", "COST"}), In("unit", {"count", "milliseconds", "bytes"}),
    Positive("amount"), Check("unit of the resource"), NoSecrets({"resource_metadata"}) })

SessionContextRecord == Record("session_context",
  { NonEmpty({"session_context_id", "research_run_id", "identity_id",
         "actor_reference", "authentication_profile_reference", "origin",
         "secret_scheme", "secret_name", "session_cookie_name"}),
    In("authentication_method", {"HTTP_FORM_LOGIN"}),
    In("state", {"NEW", "AUTHENTICATING", "ACTIVE", "EXPIRED", "REVOKED", "FAILED"}) })

DiscoveryRunConfigRecord == Record("discovery_run_config",
  { NonEmpty({"research_run_id", "configuration_fingerprint"}),
    In("strategy_version", {"surface.discovery.v1"}),
    NotNegative("max_discovery_cycles"), NotNegative("max_frontier_items"),
    NotNegative("max_new_facts_per_cycle"), NotNegative("max_browser_actions"),
    NotNegative("max_http_transactions"), NotNegative("max_per_route_revisit"),
    NotNegative("max_identity_variants"), NotNegative("max_transition_depth"),
    NotNegative("max_graph_depth_from_seed"),
    NotNegative("max_template_inference_fanout"),
    NotNegative("max_duplicate_observations") })

ControlEventRecord == Record("control_event",
  { NonEmpty({"control_event_id", "research_run_id", "worker_result_id", "identity_id",
         "target_reference", "session_context_id", "request_id"}),
    In("event_kind", {"REAUTHORIZATION_REQUIRED", "REDIRECT_BOUNDARY",
         "POPUP_BOUNDARY", "NEW_ORIGIN_BOUNDARY", "IFRAME_BOUNDARY"}) })

DiscoveryFactRecord == Record("discovery_fact",
  { NonEmpty({"fact_id", "research_run_id", "canonical_key", "identity_id",
         "target_reference"}),
    In("fact_kind", {"ORIGIN", "EXACT_PATH", "HTTP_OPERATION", "PAGE_STATE", "CONTROL",
         "FORM", "RESPONSE_SHAPE", "RESOURCE_INSTANCE_CANDIDATE", "WORKFLOW_STATE",
         "WORKFLOW_TRANSITION", "SCOPE_BOUNDARY_CANDIDATE", "DOMAIN", "HOSTNAME",
         "CERT", "SERVICE", "TECH", "JS_BUNDLE", "API_SPEC"}),
    In("epistemic_status", {"OBSERVED", "DERIVED"}), Check("boundary is derived"),
    NoSecrets({"attributes"}) })

DiscoveryFactSourceRecord == Record("discovery_fact_source",
  { NonEmpty({"source_row_id", "research_run_id", "fact_id"}),
    Check("one primary source, sensors included") })

DiscoveryInferenceRecord == Record("discovery_inference",
  { NonEmpty({"inference_id", "research_run_id"}),
    In("inference_kind", {"ROUTE_TEMPLATE", "OBJECT_TYPE", "OBJECT_INSTANCE",
         "SAME_AS"}), In("epistemic_status", {"INFERRED", "HYPOTHESIZED"}),
    NoSecrets({"attributes"}) })

DiscoveryInferenceSourceRecord == Record("discovery_inference_source",
  { NonEmpty({"source_row_id", "research_run_id", "inference_id"}),
    Check("one primary source") })

FrontierItemRecord == Record("frontier_item",
  { NonEmpty({"frontier_id", "research_run_id"}),
    In("strategy_version", {"surface.discovery.v1"}),
    In("goal_kind", {"INSPECT_PATH", "INSPECT_CONTROL", "CHARACTERIZE_HTTP_OPERATION",
         "OBSERVE_UNDER_IDENTITY", "RESOLVE_TRANSITION_RESULT", "RESOLVE_OBJECT_TYPE",
         "INSPECT_SPA_PATH"}), In("structural_signature", {"stable"}),
    Level("expected_side_effect"), Level("budget_class"), NoSecrets({"attributes"}) })

FrontierSourceRecord == Record("frontier_source",
  { NonEmpty({"source_row_id", "research_run_id", "frontier_id"}),
    Check("one primary source"), Check("seed of the same run") })

FrontierEventRecord == Record("frontier_event",
  { NonEmpty({"event_id", "frontier_id", "research_run_id"}),
    In("event_kind", {"CREATED", "ELIGIBLE", "SELECTED", "BLOCKED_SCOPE",
         "BLOCKED_AUTH", "BLOCKED_BUDGET", "AWAITING_REAUTHORIZATION",
         "NO_NEW_INFORMATION", "OBSERVED", "FAILED_TRANSIENT", "FAILED_TERMINAL",
         "SUPERSEDED"}), Positive("sequence"), Check("selected has generation") })

DiscoveryProjectionReceiptRecord == Record("discovery_projection_receipt",
  { NonEmpty({"receipt_id", "research_run_id"}),
    In("strategy_version", {"surface.discovery.v1"}), Check("receipt plane") })

AttackSurfaceSnapshotRecord == Record("attack_surface_snapshot",
  { NonEmpty({"snapshot_id", "research_run_id", "strategy_version"}),
    NotNegative("node_count"), NotNegative("edge_count"), In("graph_hash", {"64"}) })

CoverageDebtSnapshotRecord == Record("coverage_debt_snapshot",
  { NonEmpty({"snapshot_id", "research_run_id"}), In("matrix_hash", {"64"}),
    NotNegative("total_debt"), NoSecrets({"cell_counts"}) })

HunterFamilyRecord == Record("hunter_family",
  { NonEmpty({"family_id", "name", "claim_template"}),
    In("validation_tier", {"V1", "V2", "V3"}), Positive("version"),
    NoSecrets({"preconditions", "evidence_requirements"}) })

HuntV3QueueRecord == Record("hunt_v3_queue",
  { NonEmpty({"queue_id", "research_run_id", "hypothesis_id", "family_id",
         "node_canonical_key", "identity_id", "capability", "action"}),
    Level("side_effect_level"), In("state", {"PENDING", "APPROVED", "RUN", "BLOCKED"}),
    NoSecrets({"arguments"}) })

ImpactChainRecord == Record("impact_chain",
  { NonEmpty({"chain_id", "research_run_id", "program_id"}), In("graph_hash", {"64"}) })

ImpactChainNodeRecord == Record("impact_chain_node",
  { NonEmpty({"node_id", "chain_id", "impact_kind", "claim_text", "proof_refs"}),
    NotNegative("ordering"), NoSecrets({"scope_ref"}) })

ImpactChainEdgeRecord == Record("impact_chain_edge",
  { NonEmpty({"edge_id", "chain_id", "from_node_id", "to_node_id", "relation",
         "proof_refs"}) })

(* Every rule of every record class.                                       *)
RecordRules == UNION
  { ProgramRecord, ScopeRuleV2Record, ProgramPolicyRecord, SensorObservationRecord,
    RateLimitProfileRecord, OastTokenRecord, OastCorrelationRecord,
    OastCallbackDeliveryRecord, OastAdmissionRecord, BountyTableRecord,
    AuthorizationSourceRecord, ResearchRunRecord, IssuedBudgetRecord,
    HypothesisRecord, ResearchReasoningRecord, ResearchAdmissionRecord,
    ExperimentPlanRecord, HypothesisAssessmentRecord, EvidenceRecord,
    EvidenceAdmissionRecord, CandidateRecord, CandidateAdmissionRecord,
    VerificationRecord, PromotionRunRecord, FindingProposalRecord, HumanReviewRecord,
    ApprovalRecord, FindingRecord, TargetInferenceRecord,
    DifferentialObservationRecord, InvariantHypothesisRecord,
    InvariantSourceRefRecord, InvariantCounterexampleRefRecord,
    ChainHypothesisRecord, ResearchOpportunityRecord, ResearchSelectionRecord,
    OpportunitySelectionCandidateRecord, SnapshotRecord, SnapshotMemberRecord,
    ChangeEventRecord, ExperimentRecord, ExecutionAttemptRecord, WorkerResultRecord,
    ObservationRecord, AuditEventRecord, RunFaultRecord, ResearchOrchestrationRecord,
    RuntimeInstanceRecord, PreflightReportRecord, ResearchCycleRecord,
    BudgetConsumptionRecord, SessionContextRecord, DiscoveryRunConfigRecord,
    ControlEventRecord, DiscoveryFactRecord, DiscoveryFactSourceRecord,
    DiscoveryInferenceRecord, DiscoveryInferenceSourceRecord, FrontierItemRecord,
    FrontierSourceRecord, FrontierEventRecord, DiscoveryProjectionReceiptRecord,
    AttackSurfaceSnapshotRecord, CoverageDebtSnapshotRecord, HunterFamilyRecord,
    HuntV3QueueRecord, ImpactChainRecord, ImpactChainNodeRecord,
    ImpactChainEdgeRecord }
=============================================================================
