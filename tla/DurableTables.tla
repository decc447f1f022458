--------------------------- MODULE DurableTables ---------------------------
(***************************************************************************)
(* The tables the program declares (data/postgres/tables.py), one          *)
(* definition per Table: what it refers to, which column sets are unique   *)
(* and which values its CHECKs admit.                                      *)
(*                                                                         *)
(* A constraint is <<table, kind, column, set>>.  Data is abstract: a      *)
(* number is "negative", "zero" or "positive", a level "0" .. "3", a text  *)
(* is named by what a constraint can tell of it, NULL is "null".  Columns  *)
(* no constraint speaks about (names, payloads, times of creation) are     *)
(* left out, and so are NOT NULL on columns that were never without it and *)
(* non-unique indexes.                                                     *)
(***************************************************************************)
EXTENDS FiniteSets

----------------------------------------------------------------------------
(* The kinds of constraint.                                                *)

(* A foreign key to another table; a nullable one; one that is paired with *)
(* research_run_id, so that the row it names belongs to the same run; a    *)
(* nullable one of those (MATCH SIMPLE: a NULL column switches it off).    *)
Ref(column, table)     == <<"references", column, {table}>>
MayRef(column, table)  == <<"may reference", column, {table}>>
Same(column, table)    == <<"references in run", column, {table}>>
MaySame(column, table) == <<"may reference in run", column, {table}>>

Unique(columns)             == <<"unique", "always", columns>>
UniqueWhen(where, columns)  == <<"unique", where, columns>>

(* A CHECK is satisfied when it is not false, so NULL passes it.           *)
In(column, values)     == <<"in", column, values>>
NotNegative(column)    == In(column, {"zero", "positive"})
Positive(column)       == In(column, {"positive"})
Level(column)          == In(column, {"0", "1", "2", "3"})
Check(name)            == <<"check", name, {}>>

(* NOT NULL, where a revision has lifted it.                               *)
Required(column)       == <<"required", column, {}>>

(* A second CHECK on a column that has one; a column added to a table that  *)
(* existed, with what its rows get in it ({} when there is no default).     *)
AlsoIn(column, values) == <<"also in", column, values>>
Column(column, default) == <<"column", column, default>>

(* BEFORE UPDATE OR DELETE ... research_os_reject_mutation(), and BEFORE   *)
(* INSERT ... research_os_observation_same_run().                          *)
AppendOnly             == <<"append only", "row", {}>>
ObservationInRun       == <<"observation in run", "observation_id", {}>>

OfRun       == Ref("research_run_id", "research_run")
OfHypothesis  == Same("hypothesis_id", "hypothesis")
OfExperiment  == Same("experiment_id", "experiment")
ActorTypes  == {"HUMAN_OPERATOR", "CONTROL_PLANE", "WORKER", "INTEGRATION"}
Polarities  == {"SUPPORTING", "CONTRADICTING", "NEUTRAL"}
Classifications == {"DIAGNOSTIC_PLUMBING", "HTTP_AUTHORIZATION_DIFFERENTIAL",
                    "HTTP_STATE_TRANSITION_AUTHORIZATION"}
Verdicts    == {"VALIDATED", "REJECTED", "INCONCLUSIVE", "DUPLICATE", "OUT_OF_SCOPE"}
CandidateStates == {"OPEN", "VERIFYING"} \cup Verdicts
Discovery   == In("strategy_version", {"surface.discovery.v1"})

(* The constraints of table t.                                             *)
Table(t, rules) == {<<t, "exists", "table", {}>>}
                   \cup {<<t, r[1], r[2], r[3]>> : r \in rules}

----------------------------------------------------------------------------
(* Programs, their policy and their sensors.                               *)

program == Table("program", {})

scope_rule_v2 == Table("scope_rule_v2",
  { Ref("program_id", "program"), Unique({"rule_id", "program_id"}),
    In("effect", {"ALLOW", "DENY", "OUT_OF_SCOPE", "UNKNOWN"}),
    In("scheme", {"http", "https"}), Check("host xor host_pattern"),
    In("host_pattern", {"wildcard"}), Positive("port"),
    In("path_prefix", {"absolute"}), Check("expires after created") })

program_policy == Table("program_policy",
  { Ref("program_id", "program"), NotNegative("max_response_bytes"),
    NotNegative("timeout_ms"), NotNegative("daily_llm_budget_microdollars") })

sensor_observation == Table("sensor_observation",
  { OfRun, Unique({"observation_id", "research_run_id"}),
    In("epistemic_status", {"UNTRUSTED_EXTERNAL"}) })

rate_limit_profile == Table("rate_limit_profile",
  { Ref("program_id", "program"), Unique({"program_id"}),
    NotNegative("max_requests_per_window"), NotNegative("window_seconds") })

oast_token == Table("oast_token", { OfRun, Unique({"token_id", "research_run_id"}) })

oast_correlation == Table("oast_correlation",
  { Same("attempt_id", "execution_attempt"), Same("experiment_id", "experiment_plan"),
    Unique({"correlation_id", "research_run_id"}), Unique({"attempt_id"}),
    Check("expires after armed") })

oast_callback_delivery == Table("oast_callback_delivery",
  { Ref("correlation_id", "oast_correlation"),
    Unique({"provider_adapter_id", "provider_event_id"}),
    Unique({"correlation_id", "normalized_digest"}),
    In("provider_adapter_id", {"1..128"}), In("provider_event_id", {"1..256"}),
    In("normalized_payload", {"object within 16384 bytes"}),
    In("normalized_digest", {"sha256"}) })

oast_admission == Table("oast_admission",
  { Same("correlation_id", "oast_correlation"),
    Same("sensor_observation_id", "sensor_observation"),
    Same("discovery_fact_id", "discovery_fact"), Unique({"correlation_id"}) })

bounty_table == Table("bounty_table",
  { Ref("program_id", "program"), In("severity", {"P1", "P2", "P3", "P4", "P5"}) })

authorization_source == Table("authorization_source",
  { Ref("program_id", "program"), Unique({"authorization_source_id", "program_id"}),
    In("state", {"ACTIVE", "EXPIRED", "REVOKED"}), Check("effective window") })

----------------------------------------------------------------------------
(* A run, its hypotheses, experiments, attempts and results.               *)

(* The pair (authorization_source_id, program_id) is a foreign key: a run  *)
(* is authorized by a source of its own program.                           *)
research_run == Table("research_run",
  { Ref("program_id", "program"), Ref("authorization_source_id", "authorization_source"),
    Check("authorization of the same program"), In("initiated_by_actor_type", ActorTypes) })

issued_budget == Table("issued_budget",
  { MayRef("research_run_id", "research_run"), Unique({"budget_id", "research_run_id"}),
    NotNegative("max_requests"), NotNegative("max_tool_calls"),
    NotNegative("max_runtime_ms"), NotNegative("max_concurrency") })

hypothesis == Table("hypothesis",
  { OfRun, Unique({"hypothesis_id", "research_run_id"}),
    UniqueWhen("origin_reference LIKE exh:", {"research_run_id", "origin_reference"}) })

experiment == Table("experiment",
  { OfHypothesis, Same("budget_id", "issued_budget"),
    Unique({"experiment_id", "research_run_id"}),
    In("execution_state", {"PLANNED", "AUTHORIZATION_CHECK", "READY", "RUNNING",
         "EXECUTION_SUCCEEDED", "EXECUTION_FAILED", "BLOCKED", "CANCELLED",
         "BUDGET_EXHAUSTED"}) })

execution_attempt == Table("execution_attempt",
  { OfExperiment, Same("budget_id", "issued_budget"),
    Ref("authorization_decision_reference", "audit_event"),
    Unique({"request_id"}), Unique({"attempt_id", "research_run_id"}),
    In("state", {"AUTHORIZED", "DISPATCHING", "COMPLETED", "FAILED", "TIMED_OUT",
                 "CANCELLED", "UNKNOWN_OUTCOME"}),
    Level("side_effect_level"),
    In("target_contact_status", {"CONFIRMED", "NOT_CONTACTED", "UNKNOWN"}) })

worker_result == Table("worker_result",
  { OfExperiment, Same("budget_id", "issued_budget"),
    Unique({"request_id"}), Unique({"worker_result_id", "research_run_id"}),
    In("status", {"SUCCEEDED", "EXECUTION_FAILED", "BLOCKED", "CANCELLED", "TIMED_OUT",
                  "BUDGET_EXHAUSTED", "REAUTHORIZATION_REQUIRED"}),
    Level("side_effect_level") })

observation == Table("observation",
  { Ref("worker_result_id", "worker_result"),
    Unique({"worker_result_id", "observation_kind", "normalization_version"}) })

audit_event == Table("audit_event", { In("actor_type", ActorTypes) })

run_fault == Table("run_fault",
  { OfRun, MayRef("runtime_instance_id", "runtime_instance"),
    MaySame("hypothesis_id", "hypothesis"), MaySame("experiment_id", "experiment"),
    MaySame("attempt_id", "execution_attempt"),
    In("component", {"CONTROL", "EXECUTION", "WORKER", "RUNTIME", "SUPERVISOR",
                     "PERSISTENCE", "PLANNING"}),
    In("phase", {"AUTHORIZATION", "DISPATCH", "INVOCATION", "INGESTION", "TICK",
                 "HEARTBEAT", "RECONCILIATION", "PERSISTENCE", "PLANNING"}),
    In("fault_class", {"EXECUTION", "RUNTIME", "SUPERVISOR", "PERSISTENCE", "POLICY"}),
    In("fault_code", {"1..128"}), In("diagnostic_summary", {"1..1000"}),
    Check("resolved after occurred") })

----------------------------------------------------------------------------
(* Reasoning, plans, assessments, evidence, candidates and findings.       *)

research_reasoning == Table("research_reasoning",
  { OfRun, MaySame("hypothesis_id", "hypothesis"), In("role", {"GENERATOR", "FALSIFIER"}) })

research_admission == Table("research_admission",
  { OfRun, MayRef("generator_reasoning_record_id", "research_reasoning"),
    MayRef("falsifier_reasoning_record_id", "research_reasoning"),
    MaySame("admitted_hypothesis_id", "hypothesis"),
    In("outcome", {"ADMITTED", "REJECTED_UNTESTABLE", "REJECTED_UNSUPPORTED",
         "REJECTED_POLICY_CONFLICT", "NEEDS_MORE_CONTEXT", "MODEL_INVOCATION_FAILED"}),
    Check("admitted iff admitted_hypothesis_id") })

experiment_plan == Table("experiment_plan",
  { OfExperiment, OfHypothesis, Same("requested_budget_id", "issued_budget"),
    Unique({"experiment_id", "research_run_id"}), Level("side_effect_level") })

hypothesis_assessment == Table("hypothesis_assessment",
  { OfHypothesis, OfExperiment,
    In("assessment_outcome", {"CONSISTENT_WITH_PREDICTION", "CONTRADICTS_PREDICTION",
         "INCONCLUSIVE", "EXECUTION_UNUSABLE", "NEEDS_MORE_CONTEXT"}),
    In("evaluator_kind", {"DETERMINISTIC"}) })

evidence == Table("evidence",
  { OfRun, OfHypothesis, OfExperiment, In("polarity", Polarities),
    UniqueWhen("polarity = SUPPORTING", {"experiment_id"}) })

evidence_observation == Table("evidence_observation",
  { Ref("evidence_id", "evidence"), Ref("observation_id", "observation") })

evidence_admission == Table("evidence_admission",
  { OfRun, MayRef("admitted_evidence_id", "evidence"),
    In("outcome", {"ADMITTED", "REJECTED_INSUFFICIENT_SUPPORT",
         "REJECTED_BROKEN_PROVENANCE", "REJECTED_EXECUTION_UNUSABLE",
         "REJECTED_POLICY_CONFLICT", "NEEDS_VERIFICATION"}),
    Check("admitted iff admitted_evidence_id"), In("polarity", Polarities) })

candidate == Table("candidate",
  { OfRun, OfHypothesis, In("state", CandidateStates),
    In("classification", Classifications) })

candidate_evidence == Table("candidate_evidence",
  { Ref("candidate_id", "candidate"), Ref("evidence_id", "evidence"),
    Unique({"evidence_id"}) })

candidate_admission == Table("candidate_admission",
  { OfRun, MayRef("admitted_candidate_id", "candidate"),
    In("outcome", {"ADMITTED", "REJECTED_INSUFFICIENT_SUPPORT",
         "REJECTED_BROKEN_PROVENANCE", "REJECTED_CLAIM_EXCEEDS_EVIDENCE",
         "REJECTED_NOT_TESTABLE", "REJECTED_POLICY_CONFLICT"}),
    Check("admitted iff admitted_candidate_id"), In("classification", Classifications) })

verification == Table("verification",
  { Ref("candidate_id", "candidate"), OfRun, Unique({"candidate_id"}),
    In("outcome", Verdicts), In("proposed_candidate_state", CandidateStates),
    Check("proposed state = outcome"), In("verifier_kind", {"DETERMINISTIC"}) })

promotion_run == Table("promotion_run",
  { OfRun, MayRef("evidence_id", "evidence"), MayRef("candidate_id", "candidate"),
    MayRef("verification_id", "verification"),
    MayRef("finding_proposal_id", "finding_proposal"), Unique({"assessment_id"}),
    UniqueWhen("reproduction_experiment_id IS NOT NULL", {"reproduction_experiment_id"}),
    In("stage", {"EVIDENCE_REJECTED", "EVIDENCE_ADMITTED", "CANDIDATE_REJECTED",
         "CANDIDATE_OPEN", "VERIFYING", "REPRODUCTION_EXECUTED", "VERIFIED",
         "PROPOSAL_RECORDED", "STOPPED"}) })

finding_proposal == Table("finding_proposal",
  { Ref("candidate_id", "candidate"), OfRun, Unique({"candidate_id"}),
    In("state", {"PROPOSED", "HUMAN_REVIEW", "APPROVED", "REJECTED"}),
    In("classification", Classifications) })

human_review == Table("human_review",
  { Ref("proposal_id", "finding_proposal"), Unique({"proposal_id", "content_fingerprint"}),
    In("decision", {"APPROVE", "REJECT"}), In("actor_type", ActorTypes) })

approval == Table("approval",
  { OfRun, Ref("proposal_id", "finding_proposal"), Ref("human_review_id", "human_review"),
    Unique({"subject_reference"}), In("decision", {"APPROVE", "REJECT"}),
    In("actor_type", ActorTypes), In("recorded", {"true"}) })

finding == Table("finding",
  { OfRun, Ref("finding_proposal_id", "finding_proposal"),
    Ref("candidate_id", "candidate"), Ref("approval_id", "approval"),
    Ref("human_review_id", "human_review"), Unique({"finding_proposal_id"}),
    In("classification", Classifications) })

----------------------------------------------------------------------------
(* Inferences, opportunities, snapshots; orchestration and its ledger.     *)

target_inference == Table("target_inference",
  { OfRun, In("epistemic_status", {"INFERRED", "HYPOTHESIZED"}),
    In("kind", {"ACTOR", "ROLE", "SESSION", "RESOURCE", "ACTION", "STATE",
                "RELATIONSHIP", "STATE_TRANSITION"}) })

differential_observation == Table("differential_observation",
  { OfRun, In("interpretation", {"CONTROLLED_DIFFERENCE", "EQUIVALENT", "INCOMPARABLE"}) })

invariant_hypothesis == Table("invariant_hypothesis",
  { OfRun, In("status", {"TESTABLE", "CHALLENGED", "RETIRED"}),
    In("invariant_kind", {"ACCESS_RELATION", "STATE_TRANSITION", "OWNERSHIP_RELATION",
         "ROLE_BOUNDARY", "SESSION_BINDING", "RESOURCE_ISOLATION",
         "IMMUTABILITY_AFTER_STATE", "SEQUENCE_PRECONDITION",
         "INPUT_OUTPUT_RELATION", "OTHER"}) })

invariant_source_ref == Table("invariant_source_ref",
  { Ref("invariant_id", "invariant_hypothesis") })

invariant_counterexample_ref == Table("invariant_counterexample_ref",
  { Ref("invariant_id", "invariant_hypothesis") })

chain_hypothesis == Table("chain_hypothesis",
  { OfRun, Unique({"research_run_id", "structural_identity"}) })

research_opportunity == Table("research_opportunity",
  { OfRun, In("mode", {"EXPLORATION", "EXPLOITATION"}),
    Unique({"research_run_id", "structural_identity"}) })

research_selection == Table("research_selection",
  { OfRun, In("outcome", {"SELECT", "DEFER", "SKIP_DUPLICATE", "SKIP_LOW_INFORMATION",
      "BLOCKED_BUDGET", "BLOCKED_POLICY", "NEEDS_MORE_CONTEXT"}) })

opportunity_selection_candidate == Table("opportunity_selection_candidate",
  { OfRun, In("source_system", {"HUNTER_COVERAGE", "REGISTRY_EXTERNAL_ANOMALY"}),
    In("mode", {"EXPLORATION", "EXPLOITATION"}),
    In("outcome", {"PENDING", "ADMITTED", "NOT_ADMITTED"}),
    Unique({"research_run_id", "structural_identity"}) })

snapshot == Table("snapshot", { OfRun, Ref("program_id", "program") })

snapshot_member == Table("snapshot_member",
  { Ref("snapshot_id", "snapshot"), Ref("observation_id", "observation") })

change_event == Table("change_event",
  { OfRun, Ref("baseline_snapshot_id", "snapshot"), Ref("variant_snapshot_id", "snapshot"),
    In("category", {"ADDED", "REMOVED", "MODIFIED", "RELATION_CHANGED",
         "STATE_CHANGED", "BEHAVIOR_CHANGED", "UNKNOWN_CHANGE"}) })

research_orchestration == Table("research_orchestration",
  { OfRun, NotNegative("lease_epoch"), NotNegative("cycle_number"),
    NotNegative("max_cycles"), NotNegative("max_experiments"),
    NotNegative("max_model_calls"), NotNegative("max_worker_invocations"),
    NotNegative("max_elapsed_ms"), NotNegative("max_selected_opportunities"),
    NotNegative("max_runtime_fallback"), Level("side_effect_ceiling"),
    In("state", {"READY", "RUNNING", "PAUSED", "WAITING_HUMAN", "BLOCKED",
         "BUDGET_EXHAUSTED", "COMPLETED", "FAILED_OPERATIONAL"}),
    In("current_phase", {"CYCLE_READY", "OPPORTUNITY_SELECTED", "HYPOTHESIS_ADMITTED",
         "EXPERIMENT_PLANNED", "AUTHORIZATION_REQUESTED", "ATTEMPT_AUTHORIZED",
         "DISPATCHING", "WORKER_RESULT_RECORDED", "TRANSITION_A_COMPLETE",
         "ASSESSMENT_COMPLETE", "TRANSITION_B_COMPLETE", "CYCLE_COMPLETE"}) })

research_cycle == Table("research_cycle",
  { OfRun, Unique({"research_run_id", "cycle_number"}), NotNegative("cycle_number"),
    In("outcome", {"CONTINUE", "PAUSE", "COMPLETE", "BLOCKED", "REQUIRE_HUMAN_REVIEW"}) })

budget_consumption == Table("budget_consumption",
  { MaySame("budget_id", "issued_budget"),
    Unique({"budget_id", "request_id", "resource_type"}), Positive("amount"),
    AlsoIn("resource_type", {"MODEL_CALL", "MODEL_TOKENS_IN", "MODEL_TOKENS_OUT",
         "MODEL_ESCALATION_DECISION", "WORKER_INVOCATION", "REQUEST",
         "EXECUTION_TIME", "ARTIFACT_BYTES", "COST"}),
    In("unit", {"count", "milliseconds", "bytes"}) })

session_context == Table("session_context",
  { OfRun, Unique({"session_context_id", "research_run_id"}),
    In("state", {"NEW", "AUTHENTICATING", "ACTIVE", "EXPIRED", "REVOKED", "FAILED"}),
    In("authentication_method", {"HTTP_FORM_LOGIN"}) })

----------------------------------------------------------------------------
(* Surface discovery, the hunt, impact chains and runtime instances.       *)

discovery_run_config == Table("discovery_run_config", { OfRun, Discovery })

control_event == Table("control_event",
  { OfRun, Same("worker_result_id", "worker_result"),
    Unique({"control_event_id", "research_run_id"}), Unique({"worker_result_id"}) })

discovery_fact == Table("discovery_fact",
  { OfRun, Unique({"fact_id", "research_run_id"}),
    Unique({"research_run_id", "canonical_key"}),
    In("epistemic_status", {"OBSERVED", "DERIVED"}) })

discovery_inference == Table("discovery_inference",
  { OfRun, Unique({"inference_id", "research_run_id"}),
    Unique({"research_run_id", "canonical_key"}),
    In("epistemic_status", {"INFERRED", "HYPOTHESIZED"}) })

discovery_inference_source == Table("discovery_inference_source",
  { Same("inference_id", "discovery_inference"), MayRef("observation_id", "observation"),
    MaySame("control_event_id", "control_event"),
    MaySame("source_fact_id", "discovery_fact"),
    MaySame("source_inference_id", "discovery_inference") })

discovery_fact_source == Table("discovery_fact_source",
  { Same("fact_id", "discovery_fact"), MayRef("observation_id", "observation"),
    MayRef("sensor_observation_id", "sensor_observation"),
    MaySame("control_event_id", "control_event"),
    MaySame("source_fact_id", "discovery_fact"),
    MaySame("source_inference_id", "discovery_inference"),
    UniqueWhen("observation_id IS NOT NULL", {"fact_id", "observation_id"}),
    UniqueWhen("control_event_id IS NOT NULL", {"fact_id", "control_event_id"}) })

frontier_item == Table("frontier_item",
  { OfRun, Unique({"frontier_id", "research_run_id"}),
    Unique({"research_run_id", "dedupe_identity"}),
    In("structural_signature", {"stable"}) })

frontier_source == Table("frontier_source",
  { Same("frontier_id", "frontier_item"), MayRef("observation_id", "observation"),
    MayRef("seed_config_run_id", "discovery_run_config"),
    MaySame("source_fact_id", "discovery_fact"),
    MaySame("source_inference_id", "discovery_inference"),
    MaySame("control_event_id", "control_event") })

frontier_event == Table("frontier_event",
  { Same("frontier_id", "frontier_item"),
    MaySame("execution_attempt_id", "execution_attempt"),
    Unique({"frontier_id", "sequence"}),
    UniqueWhen("event_kind = SELECTED", {"frontier_id", "selection_generation"}) })

ReceiptKey(column) == UniqueWhen(column,
  {"research_run_id", "strategy_version", "source_plane", column})

discovery_projection_receipt == Table("discovery_projection_receipt",
  { OfRun, MayRef("observation_id", "observation"),
    MaySame("control_event_id", "control_event"),
    ReceiptKey("observation_id"), ReceiptKey("control_event_id") })

attack_surface_snapshot == Table("attack_surface_snapshot",
  { OfRun, NotNegative("node_count"), NotNegative("edge_count"),
    In("graph_hash", {"64"}) })

hunter_family == Table("hunter_family",
  { In("validation_tier", {"V1", "V2", "V3"}), Positive("version") })

hunt_v3_queue == Table("hunt_v3_queue",
  { OfRun, OfHypothesis, Level("side_effect_level"),
    In("state", {"PENDING", "APPROVED", "RUN", "BLOCKED"}) })

coverage_debt_snapshot == Table("coverage_debt_snapshot",
  { OfRun, Unique({"snapshot_id", "research_run_id"}), In("matrix_hash", {"64"}),
    NotNegative("total_debt") })

impact_chain == Table("impact_chain",
  { OfRun, Ref("program_id", "program"), Unique({"chain_id", "research_run_id"}),
    In("graph_hash", {"64"}) })

impact_chain_node == Table("impact_chain_node",
  { Ref("chain_id", "impact_chain"), NotNegative("ordering") })

impact_chain_edge == Table("impact_chain_edge",
  { Ref("chain_id", "impact_chain"), In("relation", {"ENABLES", "ESCALATES", "CONFIRMS"}) })

runtime_instance == Table("runtime_instance",
  { In("status", {"STARTING", "RUNNING", "DRAINING", "STOPPED"}) })

preflight_report == Table("preflight_report",
  { OfRun, Ref("runtime_instance_id", "runtime_instance"),
    In("status", {"READY_TO_START", "NOT_READY"}) })

(* Every declared constraint (SPINE_TABLES).                               *)
SPINE_TABLES == UNION
  { program, scope_rule_v2, program_policy, sensor_observation, rate_limit_profile,
    oast_token, oast_correlation, oast_callback_delivery, oast_admission, bounty_table,
    authorization_source, research_run, issued_budget, hypothesis, experiment,
    execution_attempt, worker_result, observation, audit_event, run_fault,
    research_reasoning, research_admission, experiment_plan, hypothesis_assessment,
    evidence, evidence_observation, evidence_admission, candidate, candidate_evidence,
    candidate_admission, verification, promotion_run, finding_proposal, human_review,
    approval, finding, target_inference, differential_observation, invariant_hypothesis,
    invariant_source_ref, invariant_counterexample_ref, chain_hypothesis,
    research_opportunity, research_selection, opportunity_selection_candidate, snapshot,
    snapshot_member, change_event, research_orchestration, research_cycle,
    budget_consumption, session_context, discovery_run_config, control_event,
    discovery_fact, discovery_inference, discovery_inference_source,
    discovery_fact_source, frontier_item, frontier_source, frontier_event,
    discovery_projection_receipt, attack_surface_snapshot, hunter_family, hunt_v3_queue,
    coverage_debt_snapshot, impact_chain, impact_chain_node, impact_chain_edge,
    runtime_instance, preflight_report }
=============================================================================
