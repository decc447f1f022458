----------------------------- MODULE Migrations -----------------------------
(***************************************************************************)
(* The revisions of the schema (alembic/versions), in the order of their   *)
(* down_revision chain: what upgrade() and downgrade() of each add and     *)
(* remove.  The schema is the set of constraints in force, in the          *)
(* vocabulary of DurableTables.                                            *)
(***************************************************************************)
EXTENDS DurableTables, Naturals, Sequences

----------------------------------------------------------------------------
(* A step drops whole tables, drops and adds constraints of the others,    *)
(* and may insist that some tables are empty.                              *)

On(t, rules) == {<<t, r[1], r[2], r[3]>> : r \in rules}

Step(lost, drop, add) == [lost |-> lost, drop |-> drop, add |-> add, empty |-> {}]
Adds(add)             == Step({}, {}, add)
Removes(drop)         == Step({}, drop, {})
Replaces(drop, add)   == Step({}, drop, add)
Drops(lost)           == Step(lost, {}, {})
DropsAnd(lost, drop)  == Step(lost, drop, {})
DropsEmpty(lost, drop) == [lost |-> lost, drop |-> drop, add |-> {}, empty |-> lost]

(* A constraint is dropped by its name, which says nothing of its values.  *)
Named(c) == <<c[1], c[2], c[3], IF c[2] = "unique" THEN c[4] ELSE {}>>

Apply(schema, step) ==
  LET names == {Named(c) : c \in step.drop}
  IN  {c \in schema : c[1] \notin step.lost /\ Named(c) \notin names} \cup step.add

----------------------------------------------------------------------------
(* The revisions.                                                          *)

a3_upgrade ==
  Adds(UNION {
      Table("program", {}),
      Table("authorization_source",
        { Ref("program_id", "program"),
          Unique({"authorization_source_id", "program_id"}),
          In("state", {"ACTIVE", "EXPIRED", "REVOKED"}), Check("effective window") }),
      Table("research_run",
        { Ref("program_id", "program"),
          Ref("authorization_source_id", "authorization_source"),
          Check("authorization of the same program"),
          In("initiated_by_actor_type", {"HUMAN_OPERATOR", "CONTROL_PLANE", "WORKER",
               "INTEGRATION"}) }),
      Table("issued_budget",
        { OfRun, Required("research_run_id"), Unique({"budget_id", "research_run_id"}),
          NotNegative("max_requests"), NotNegative("max_tool_calls"),
          NotNegative("max_runtime_ms"), NotNegative("max_concurrency"), AppendOnly }),
      Table("hypothesis", { OfRun, Unique({"hypothesis_id", "research_run_id"}) }),
      Table("experiment",
        { OfHypothesis, Same("budget_id", "issued_budget"),
          In("execution_state", {"PLANNED", "AUTHORIZATION_CHECK", "READY", "RUNNING",
               "EXECUTION_SUCCEEDED", "EXECUTION_FAILED", "BLOCKED", "CANCELLED",
               "BUDGET_EXHAUSTED"}) }),
      Table("worker_result",
        { Ref("experiment_id", "experiment"),
          In("status", {"SUCCEEDED", "EXECUTION_FAILED", "BLOCKED", "CANCELLED",
               "TIMED_OUT", "BUDGET_EXHAUSTED", "REAUTHORIZATION_REQUIRED"}) }),
      Table("observation", { Ref("worker_result_id", "worker_result") }),
      Table("audit_event",
        { In("actor_type", {"HUMAN_OPERATOR", "CONTROL_PLANE", "WORKER",
               "INTEGRATION"}), AppendOnly }) })
a3_downgrade ==
  Drops({"audit_event", "observation", "worker_result", "experiment", "hypothesis",
    "issued_budget", "research_run", "authorization_source", "program"})

(* A worker result joins its run: the columns have no default, so the      *)
(* step is refused while worker_result holds rows.                         *)
a6_upgrade ==
  Replaces(On("worker_result", { Ref("experiment_id", "experiment") }),
    UNION {
      On("experiment", { Unique({"experiment_id", "research_run_id"}) }),
      On("worker_result",
        { Column("research_run_id", {}), Column("request_id", {}),
          Column("parent_request_id", {"null"}), Column("worker_capability", {}),
          Column("action", {}), Column("authorization_decision_reference", {}),
          Column("budget_id", {}), Column("side_effect_level", {}), OfExperiment,
          Same("budget_id", "issued_budget"), Unique({"request_id"}),
          Level("side_effect_level") }),
      On("observation",
        { Unique({"worker_result_id", "observation_kind", "normalization_version"}) }) })
a6_downgrade ==
  Replaces(UNION {
      On("observation",
        { Unique({"worker_result_id", "observation_kind", "normalization_version"}) }),
      On("worker_result",
        { In("side_effect_level", {}), Unique({"request_id"}),
          Same("budget_id", "issued_budget"), OfExperiment,
          Column("side_effect_level", {}), Column("budget_id", {}),
          Column("authorization_decision_reference", {}), Column("action", {}),
          Column("worker_capability", {}), Column("parent_request_id", {}),
          Column("request_id", {}), Column("research_run_id", {}) }),
      On("experiment", { Unique({"experiment_id", "research_run_id"}) }) },
    On("worker_result", { Ref("experiment_id", "experiment") }))

a7_upgrade ==
  Adds(Table("execution_attempt",
      { OfExperiment, Same("budget_id", "issued_budget"),
        Ref("authorization_decision_reference", "audit_event"), Unique({"request_id"}),
        In("state", {"AUTHORIZED", "DISPATCHING", "COMPLETED", "FAILED", "TIMED_OUT",
             "CANCELLED", "UNKNOWN_OUTCOME"}), Level("side_effect_level") }))
a7_downgrade == Drops({"execution_attempt"})

a8_upgrade ==
  Adds(Table("research_reasoning",
      { OfHypothesis, Required("hypothesis_id"), In("role", {"GENERATOR", "FALSIFIER"}),
        AppendOnly }))
a8_downgrade == Drops({"research_reasoning"})

a9_upgrade ==
  Replaces(On("research_reasoning", { OfHypothesis, Required("hypothesis_id") }),
    UNION {
      Table("research_admission",
        { OfRun, MayRef("generator_reasoning_record_id", "research_reasoning"),
          MayRef("falsifier_reasoning_record_id", "research_reasoning"),
          MaySame("admitted_hypothesis_id", "hypothesis"),
          In("outcome", {"ADMITTED", "REJECTED_UNTESTABLE", "REJECTED_UNSUPPORTED",
               "REJECTED_POLICY_CONFLICT", "NEEDS_MORE_CONTEXT",
               "MODEL_INVOCATION_FAILED"}),
          Check("admitted iff admitted_hypothesis_id"), AppendOnly }),
      Table("experiment_plan",
        { OfExperiment, OfHypothesis, Same("requested_budget_id", "issued_budget"),
          Unique({"experiment_id", "research_run_id"}), Level("side_effect_level"),
          AppendOnly }),
      Table("hypothesis_assessment",
        { OfHypothesis, OfExperiment,
          In("assessment_outcome", {"CONSISTENT_WITH_PREDICTION",
               "CONTRADICTS_PREDICTION", "INCONCLUSIVE", "EXECUTION_UNUSABLE",
               "NEEDS_MORE_CONTEXT"}), In("evaluator_kind", {"DETERMINISTIC"}),
          AppendOnly }),
      On("research_reasoning", { OfRun, MaySame("hypothesis_id", "hypothesis") }) })
a9_downgrade ==
  Step(
    {"hypothesis_assessment", "experiment_plan", "research_admission"},
    On("research_reasoning", { MaySame("hypothesis_id", "hypothesis"), OfRun }),
    On("research_reasoning", { OfHypothesis, Required("hypothesis_id") }))

a10_upgrade ==
  Adds(UNION {
      Table("evidence",
        { OfRun, OfHypothesis, OfExperiment,
          In("polarity", {"SUPPORTING", "CONTRADICTING", "NEUTRAL"}), AppendOnly }),
      Table("evidence_observation",
        { Ref("evidence_id", "evidence"), Ref("observation_id", "observation"),
          AppendOnly }),
      Table("evidence_admission",
        { OfRun, MayRef("admitted_evidence_id", "evidence"),
          In("outcome", {"ADMITTED", "REJECTED_INSUFFICIENT_SUPPORT",
               "REJECTED_BROKEN_PROVENANCE", "REJECTED_EXECUTION_UNUSABLE",
               "REJECTED_POLICY_CONFLICT", "NEEDS_VERIFICATION"}),
          Check("admitted iff admitted_evidence_id"),
          In("polarity", {"SUPPORTING", "CONTRADICTING", "NEUTRAL"}), AppendOnly }) })
a10_downgrade == Drops({"evidence_admission", "evidence_observation", "evidence"})

a11_upgrade ==
  Adds(UNION {
      Table("candidate",
        { OfRun, OfHypothesis,
          In("state", {"OPEN", "VERIFYING", "VALIDATED", "REJECTED", "INCONCLUSIVE",
               "DUPLICATE", "OUT_OF_SCOPE"}),
          In("classification", {"DIAGNOSTIC_PLUMBING"}) }),
      Table("candidate_evidence",
        { Ref("candidate_id", "candidate"), Ref("evidence_id", "evidence"), AppendOnly }),
      Table("candidate_admission",
        { OfRun, MayRef("admitted_candidate_id", "candidate"),
          In("outcome", {"ADMITTED", "REJECTED_INSUFFICIENT_SUPPORT",
               "REJECTED_BROKEN_PROVENANCE", "REJECTED_CLAIM_EXCEEDS_EVIDENCE",
               "REJECTED_NOT_TESTABLE", "REJECTED_POLICY_CONFLICT"}),
          Check("admitted iff admitted_candidate_id"),
          In("classification", {"DIAGNOSTIC_PLUMBING"}), AppendOnly }),
      Table("verification",
        { Ref("candidate_id", "candidate"), OfRun,
          In("outcome", {"VALIDATED", "REJECTED", "INCONCLUSIVE", "DUPLICATE",
               "OUT_OF_SCOPE"}),
          In("proposed_candidate_state", {"OPEN", "VERIFYING", "VALIDATED", "REJECTED",
               "INCONCLUSIVE", "DUPLICATE", "OUT_OF_SCOPE"}),
          Check("proposed state = outcome"), In("verifier_kind", {"DETERMINISTIC"}),
          AppendOnly }) })
a11_downgrade ==
  Drops({"verification", "candidate_admission", "candidate_evidence", "candidate"})

a12_upgrade ==
  Adds(UNION {
      Table("finding_proposal",
        { Ref("candidate_id", "candidate"), OfRun,
          In("state", {"PROPOSED", "HUMAN_REVIEW", "APPROVED", "REJECTED"}),
          In("classification", {"DIAGNOSTIC_PLUMBING"}) }),
      Table("human_review",
        { Ref("proposal_id", "finding_proposal"),
          Unique({"proposal_id", "content_fingerprint"}),
          In("decision", {"APPROVE", "REJECT"}),
          In("actor_type", {"HUMAN_OPERATOR", "CONTROL_PLANE", "WORKER",
               "INTEGRATION"}), AppendOnly }),
      Table("approval",
        { OfRun, Ref("proposal_id", "finding_proposal"),
          Ref("human_review_id", "human_review"), Unique({"subject_reference"}),
          In("decision", {"APPROVE", "REJECT"}),
          In("actor_type", {"HUMAN_OPERATOR", "CONTROL_PLANE", "WORKER",
               "INTEGRATION"}), In("recorded", {"true"}), AppendOnly }),
      Table("finding",
        { Ref("finding_proposal_id", "finding_proposal"),
          Ref("candidate_id", "candidate"), OfRun, Ref("approval_id", "approval"),
          Ref("human_review_id", "human_review"), Unique({"finding_proposal_id"}),
          In("classification", {"DIAGNOSTIC_PLUMBING"}), AppendOnly }) })
a12_downgrade == Drops({"finding", "approval", "human_review", "finding_proposal"})

a13_upgrade ==
  Adds(UNION {
      Table("target_inference",
        { OfRun, In("epistemic_status", {"INFERRED", "HYPOTHESIZED"}),
          In("kind", {"ACTOR", "ROLE", "SESSION", "RESOURCE", "ACTION", "STATE",
               "RELATIONSHIP", "STATE_TRANSITION"}), AppendOnly }),
      Table("differential_observation",
        { OfRun,
          In("interpretation", {"CONTROLLED_DIFFERENCE", "EQUIVALENT", "INCOMPARABLE"}),
          AppendOnly }) })
a13_downgrade == Drops({"differential_observation", "target_inference"})

a14_upgrade ==
  Adds(UNION {
      Table("invariant_hypothesis",
        { OfRun, In("status", {"TESTABLE", "CHALLENGED", "RETIRED"}),
          In("invariant_kind", {"ACCESS_RELATION", "STATE_TRANSITION",
               "OWNERSHIP_RELATION", "ROLE_BOUNDARY", "SESSION_BINDING",
               "RESOURCE_ISOLATION", "IMMUTABILITY_AFTER_STATE",
               "SEQUENCE_PRECONDITION", "INPUT_OUTPUT_RELATION", "OTHER"}) }),
      Table("invariant_source_ref",
        { Ref("invariant_id", "invariant_hypothesis"), AppendOnly }),
      Table("invariant_counterexample_ref",
        { Ref("invariant_id", "invariant_hypothesis"), AppendOnly }),
      Table("chain_hypothesis",
        { OfRun, Unique({"research_run_id", "structural_identity"}), AppendOnly }) })
a14_downgrade ==
  Drops({"chain_hypothesis", "invariant_counterexample_ref", "invariant_source_ref",
    "invariant_hypothesis"})

a15_upgrade ==
  Adds(UNION {
      Table("research_opportunity",
        { OfRun, In("mode", {"EXPLORATION", "EXPLOITATION"}),
          Unique({"research_run_id", "structural_identity"}), AppendOnly }),
      Table("research_selection",
        { OfRun,
          In("outcome", {"SELECT", "DEFER", "SKIP_DUPLICATE", "SKIP_LOW_INFORMATION",
               "BLOCKED_BUDGET", "BLOCKED_POLICY", "NEEDS_MORE_CONTEXT"}), AppendOnly }),
      Table("snapshot", { OfRun, Ref("program_id", "program"), AppendOnly }),
      Table("snapshot_member",
        { Ref("snapshot_id", "snapshot"), Ref("observation_id", "observation"),
          AppendOnly }),
      Table("change_event",
        { OfRun, Ref("baseline_snapshot_id", "snapshot"),
          Ref("variant_snapshot_id", "snapshot"),
          In("category", {"ADDED", "REMOVED", "MODIFIED", "RELATION_CHANGED",
               "STATE_CHANGED", "BEHAVIOR_CHANGED", "UNKNOWN_CHANGE"}), AppendOnly }) })
a15_downgrade ==
  Drops({"change_event", "snapshot_member", "snapshot", "research_selection",
    "research_opportunity"})

a16_upgrade ==
  Adds(UNION {
      Table("research_orchestration",
        { OfRun,
          In("state", {"READY", "RUNNING", "PAUSED", "WAITING_HUMAN", "BLOCKED",
               "BUDGET_EXHAUSTED", "COMPLETED", "FAILED_OPERATIONAL"}),
          NotNegative("cycle_number"), NotNegative("max_cycles"),
          NotNegative("max_experiments"), NotNegative("max_model_calls"),
          NotNegative("max_worker_invocations"), NotNegative("max_elapsed_ms"),
          NotNegative("max_selected_opportunities"),
          NotNegative("max_runtime_fallback"), Level("side_effect_ceiling") }),
      Table("research_cycle",
        { OfRun, Unique({"research_run_id", "cycle_number"}),
          NotNegative("cycle_number"),
          In("outcome", {"CONTINUE", "PAUSE", "COMPLETE", "BLOCKED",
               "REQUIRE_HUMAN_REVIEW"}), AppendOnly }),
      Table("budget_consumption",
        { Same("budget_id", "issued_budget"), Required("research_run_id"),
          Unique({"budget_id", "request_id", "resource_type"}), Positive("amount"),
          In("resource_type", {"MODEL_CALL", "WORKER_INVOCATION", "REQUEST",
               "EXECUTION_TIME", "ARTIFACT_BYTES", "COST"}),
          In("unit", {"count", "milliseconds", "bytes"}), AppendOnly }) })
a16_downgrade ==
  Drops({"budget_consumption", "research_cycle", "research_orchestration"})

a17_upgrade ==
  Adds(On("research_orchestration",
      { Column("budget_id", {"budget-unset"}),
        Column("target_reference", {"target-unset"}),
        Column("research_question", {"diagnostic-question-unset"}),
        Column("configuration_fingerprint", {"64"}),
        Column("current_phase", {"CYCLE_READY"}), Column("active_cycle_id", {"null"}),
        Column("last_attempt_id", {"null"}), Column("last_observation_id", {"null"}),
        Column("last_assessment_id", {"null"}),
        Column("last_worker_result_id", {"null"}),
        Column("routing_policy_version", {"null"}),
        Column("scope_fingerprint", {"null"}),
        In("current_phase", {"CYCLE_READY", "OPPORTUNITY_SELECTED",
             "HYPOTHESIS_ADMITTED", "EXPERIMENT_PLANNED", "AUTHORIZATION_REQUESTED",
             "ATTEMPT_AUTHORIZED", "DISPATCHING", "WORKER_RESULT_RECORDED",
             "TRANSITION_A_COMPLETE", "ASSESSMENT_COMPLETE", "TRANSITION_B_COMPLETE",
             "CYCLE_COMPLETE"}) }))
a17_downgrade ==
  Removes(On("research_orchestration",
      { In("current_phase", {}), Column("scope_fingerprint", {}),
        Column("routing_policy_version", {}), Column("last_worker_result_id", {}),
        Column("last_assessment_id", {}), Column("last_observation_id", {}),
        Column("last_attempt_id", {}), Column("active_cycle_id", {}),
        Column("current_phase", {}), Column("configuration_fingerprint", {}),
        Column("research_question", {}), Column("target_reference", {}),
        Column("budget_id", {}) }))

(* The same CHECK on the four tables that carry a claim's classification.  *)
Classified(classes) == UNION
  { On(t, { In("classification", classes) }) :
      t \in {"candidate", "candidate_admission", "finding_proposal", "finding"} }

a18_upgrade ==
  Replaces(Classified({}), Classified({"DIAGNOSTIC_PLUMBING", "HTTP_AUTHORIZATION_DIFFERENTIAL"}))
a18_downgrade ==
  Replaces(Classified({}), Classified({"DIAGNOSTIC_PLUMBING"}))

a19_upgrade ==
  Replaces(Classified({}), Classified({"DIAGNOSTIC_PLUMBING", "HTTP_AUTHORIZATION_DIFFERENTIAL",
                                       "HTTP_STATE_TRANSITION_AUTHORIZATION"}))
(* The downgrade goes back one revision too far.                           *)
a19_downgrade_too_far == Replaces(Classified({}), Classified({"DIAGNOSTIC_PLUMBING"}))
a19_downgrade ==
  Replaces(Classified({}), Classified({"DIAGNOSTIC_PLUMBING", "HTTP_AUTHORIZATION_DIFFERENTIAL"}))

a20_upgrade ==
  Adds(On("experiment_plan",
      { Column("capability_version", {"null"}),
        Column("capability_definition_fingerprint", {"null"}) }))
a20_downgrade ==
  Removes(On("experiment_plan",
      { Column("capability_definition_fingerprint", {}),
        Column("capability_version", {}) }))

a21_upgrade ==
  Adds(Table("session_context",
      { OfRun, Unique({"session_context_id", "research_run_id"}),
        In("state", {"NEW", "AUTHENTICATING", "ACTIVE", "EXPIRED", "REVOKED",
             "FAILED"}), In("authentication_method", {"HTTP_FORM_LOGIN"}) }))
a21_downgrade == Drops({"session_context"})

a22_facts ==
  UNION {
    Table("discovery_run_config",
      { OfRun, In("strategy_version", {"surface.discovery.v1"}), Check("bounds") }),
    Table("control_event",
      { OfRun, Same("worker_result_id", "worker_result"),
        Unique({"control_event_id", "research_run_id"}), Unique({"worker_result_id"}),
        In("event_kind", {"REAUTHORIZATION_REQUIRED", "REDIRECT_BOUNDARY",
             "POPUP_BOUNDARY", "NEW_ORIGIN_BOUNDARY", "IFRAME_BOUNDARY"}) }),
    Table("discovery_fact",
      { OfRun, Unique({"fact_id", "research_run_id"}),
        Unique({"research_run_id", "canonical_key"}),
        In("fact_kind", {"ORIGIN", "EXACT_PATH", "HTTP_OPERATION", "PAGE_STATE",
             "CONTROL", "FORM", "RESPONSE_SHAPE", "RESOURCE_INSTANCE_CANDIDATE",
             "WORKFLOW_STATE", "WORKFLOW_TRANSITION", "SCOPE_BOUNDARY_CANDIDATE"}),
        In("epistemic_status", {"OBSERVED", "DERIVED"}), Check("boundary is derived") }),
    Table("discovery_inference",
      { OfRun, Unique({"inference_id", "research_run_id"}),
        Unique({"research_run_id", "canonical_key"}),
        In("inference_kind", {"ROUTE_TEMPLATE", "OBJECT_TYPE", "OBJECT_INSTANCE",
             "SAME_AS"}), In("epistemic_status", {"INFERRED", "HYPOTHESIZED"}) }) }

a22_sources ==
  UNION {
    Table("discovery_inference_source",
      { Same("inference_id", "discovery_inference"),
        MayRef("observation_id", "observation"),
        MaySame("control_event_id", "control_event"),
        MaySame("source_fact_id", "discovery_fact"),
        MaySame("source_inference_id", "discovery_inference"),
        Check("one primary source"),
        UniqueWhen("observation_id IS NOT NULL", {"inference_id", "observation_id"}),
        UniqueWhen("source_fact_id IS NOT NULL", {"inference_id", "source_fact_id"}),
        ObservationInRun }),
    Table("discovery_fact_source",
      { Same("fact_id", "discovery_fact"), MayRef("observation_id", "observation"),
        MaySame("control_event_id", "control_event"),
        MaySame("source_fact_id", "discovery_fact"),
        MaySame("source_inference_id", "discovery_inference"),
        Check("one primary source"),
        UniqueWhen("observation_id IS NOT NULL", {"fact_id", "observation_id"}),
        UniqueWhen("control_event_id IS NOT NULL", {"fact_id", "control_event_id"}),
        ObservationInRun }) }

a22_frontier ==
  UNION {
    Table("frontier_item",
      { OfRun, Unique({"frontier_id", "research_run_id"}),
        Unique({"research_run_id", "dedupe_identity"}),
        In("strategy_version", {"surface.discovery.v1"}),
        In("goal_kind", {"INSPECT_PATH", "INSPECT_CONTROL",
             "CHARACTERIZE_HTTP_OPERATION", "OBSERVE_UNDER_IDENTITY",
             "RESOLVE_TRANSITION_RESULT", "RESOLVE_OBJECT_TYPE", "INSPECT_SPA_PATH"}),
        Level("expected_side_effect"), Level("budget_class"),
        In("structural_signature", {"stable"}) }),
    Table("frontier_source",
      { Same("frontier_id", "frontier_item"),
        MayRef("seed_config_run_id", "discovery_run_config"),
        MaySame("source_fact_id", "discovery_fact"),
        MaySame("source_inference_id", "discovery_inference"),
        MaySame("control_event_id", "control_event"),
        MayRef("observation_id", "observation"), Check("one primary source"),
        Check("seed of the same run"), ObservationInRun }),
    Table("frontier_event",
      { Same("frontier_id", "frontier_item"),
        MaySame("execution_attempt_id", "execution_attempt"),
        Unique({"frontier_id", "sequence"}),
        In("event_kind", {"CREATED", "ELIGIBLE", "SELECTED", "BLOCKED_SCOPE",
             "BLOCKED_AUTH", "BLOCKED_BUDGET", "AWAITING_REAUTHORIZATION",
             "NO_NEW_INFORMATION", "OBSERVED", "FAILED_TRANSIENT", "FAILED_TERMINAL",
             "SUPERSEDED"}), Positive("sequence"), Check("selected has generation"),
        UniqueWhen("event_kind = SELECTED", {"frontier_id", "selection_generation"}) }),
    Table("discovery_projection_receipt",
      { OfRun, MayRef("observation_id", "observation"),
        MaySame("control_event_id", "control_event"),
        In("strategy_version", {"surface.discovery.v1"}), Check("receipt plane"),
        ReceiptKey("observation_id"), ReceiptKey("control_event_id"), ObservationInRun }) }

a22_upgrade ==
  Adds(UNION {
    a22_facts, a22_sources, a22_frontier,
    On("worker_result", { Unique({"worker_result_id", "research_run_id"}) }),
    On("execution_attempt", { Unique({"attempt_id", "research_run_id"}) }) })
a22_downgrade ==
  DropsAnd(
    {"discovery_projection_receipt", "frontier_event", "frontier_source",
    "frontier_item", "discovery_fact_source", "discovery_inference_source",
    "discovery_inference", "discovery_fact", "control_event", "discovery_run_config"},
    UNION {
      On("execution_attempt", { Unique({"attempt_id", "research_run_id"}) }),
      On("worker_result", { Unique({"worker_result_id", "research_run_id"}) }) })

a23_upgrade ==
  Adds(UNION {
      Table("scope_rule_v2",
        { Ref("program_id", "program"), Unique({"rule_id", "program_id"}),
          In("effect", {"ALLOW", "DENY", "OUT_OF_SCOPE", "UNKNOWN"}),
          In("scheme", {"http", "https"}), Check("host xor host_pattern"),
          In("host_pattern", {"wildcard"}), Positive("port"),
          In("path_prefix", {"absolute"}), Check("expires after created") }),
      Table("program_policy",
        { Ref("program_id", "program"), NotNegative("max_response_bytes"),
          NotNegative("timeout_ms") }),
      Table("rate_limit_profile",
        { Ref("program_id", "program"), Unique({"program_id"}),
          NotNegative("max_requests_per_window"), NotNegative("window_seconds") }),
      Table("bounty_table",
        { Ref("program_id", "program"), In("severity", {"P1", "P2", "P3", "P4", "P5"}) }),
      On("program",
        { Column("handle", {"null"}), Column("platform", {"null"}),
          In("platform", {"hackerone", "bugcrowd", "manual"}) }) })
a23_downgrade ==
  DropsAnd(
    {"bounty_table", "rate_limit_profile", "program_policy", "scope_rule_v2"},
    On("program",
      { In("platform", {}), Column("platform", {}), Column("handle", {}) }))

a24_upgrade ==
  Adds(Table("sensor_observation",
      { OfRun, Unique({"observation_id", "research_run_id"}),
        In("epistemic_status", {"UNTRUSTED_EXTERNAL"}) }))
a24_downgrade == Drops({"sensor_observation"})

a25_upgrade ==
  Replaces(On("discovery_fact", { In("fact_kind", {}) }),
    On("discovery_fact",
      { In("fact_kind", {"ORIGIN", "EXACT_PATH", "HTTP_OPERATION", "PAGE_STATE",
             "CONTROL", "FORM", "RESPONSE_SHAPE", "RESOURCE_INSTANCE_CANDIDATE",
             "WORKFLOW_STATE", "WORKFLOW_TRANSITION", "SCOPE_BOUNDARY_CANDIDATE",
             "DOMAIN", "HOSTNAME", "CERT", "SERVICE", "TECH", "JS_BUNDLE", "API_SPEC"}) }))
a25_downgrade ==
  Replaces(On("discovery_fact", { In("fact_kind", {}) }),
    On("discovery_fact",
      { In("fact_kind", {"ORIGIN", "EXACT_PATH", "HTTP_OPERATION", "PAGE_STATE",
             "CONTROL", "FORM", "RESPONSE_SHAPE", "RESOURCE_INSTANCE_CANDIDATE",
             "WORKFLOW_STATE", "WORKFLOW_TRANSITION", "SCOPE_BOUNDARY_CANDIDATE"}) }))

a26_upgrade ==
  Replaces(On("discovery_fact_source", { Check("one primary source") }),
    On("discovery_fact_source",
      { Column("sensor_observation_id", {"null"}),
        MayRef("sensor_observation_id", "sensor_observation"),
        Check("one primary source, sensors included") }))
a26_downgrade ==
  Replaces(On("discovery_fact_source",
      { Check("one primary source, sensors included"),
        MayRef("sensor_observation_id", "sensor_observation"),
        Column("sensor_observation_id", {}) }),
    On("discovery_fact_source", { Check("one primary source") }))

a27_upgrade ==
  Adds(Table("attack_surface_snapshot",
      { OfRun, NotNegative("node_count"), NotNegative("edge_count"),
        In("graph_hash", {"64"}) }))
a27_downgrade == Drops({"attack_surface_snapshot"})

(* The run of a program-wide budget is NULL: while there is such a row the *)
(* step cannot be undone.  The wider list of resource types is a second    *)
(* CHECK beside the first one.                                             *)
a28_upgrade ==
  Replaces(UNION {
      On("issued_budget", { OfRun, Required("research_run_id") }),
      On("budget_consumption",
        { Same("budget_id", "issued_budget"), Required("research_run_id") }) },
    UNION {
      On("issued_budget", { MayRef("research_run_id", "research_run") }),
      On("program_policy",
        { Column("daily_llm_budget_microdollars", {"null"}),
          NotNegative("daily_llm_budget_microdollars") }),
      On("budget_consumption",
        { Column("resource_metadata", {"null"}), MaySame("budget_id", "issued_budget"),
          AlsoIn("resource_type", {"MODEL_CALL", "MODEL_TOKENS_IN", "MODEL_TOKENS_OUT",
               "MODEL_ESCALATION_DECISION", "WORKER_INVOCATION", "REQUEST",
               "EXECUTION_TIME", "ARTIFACT_BYTES", "COST"}) }) })
a28_downgrade ==
  Replaces(UNION {
      On("budget_consumption",
        { AlsoIn("resource_type", {}), Column("resource_metadata", {}),
          MaySame("budget_id", "issued_budget") }),
      On("program_policy",
        { In("daily_llm_budget_microdollars", {}),
          Column("daily_llm_budget_microdollars", {}) }),
      On("issued_budget", { MayRef("research_run_id", "research_run") }) },
    UNION {
      On("budget_consumption",
        { Same("budget_id", "issued_budget"), Required("research_run_id") }),
      On("issued_budget", { OfRun, Required("research_run_id") }) })

(* The queue names its hypothesis alone, not with its run.                 *)
a29_upgrade_loose_key ==
  Adds(Table("hunter_family", {}) \cup
       Table("hunt_v3_queue", { OfRun, Ref("hypothesis_id", "hypothesis") }))
a29_upgrade ==
  Adds(UNION {
      Table("hunter_family",
        { In("validation_tier", {"V1", "V2", "V3"}), Positive("version") }),
      Table("hunt_v3_queue",
        { OfRun, OfHypothesis, Level("side_effect_level"),
          In("state", {"PENDING", "APPROVED", "RUN", "BLOCKED"}) }) })
a29_downgrade == Drops({"hunt_v3_queue", "hunter_family"})

a30_upgrade ==
  Adds(Table("oast_token", { OfRun, Unique({"token_id", "research_run_id"}) }))
a30_downgrade == Drops({"oast_token"})

a31_upgrade ==
  Adds(UNION {
      Table("impact_chain",
        { OfRun, Ref("program_id", "program"), Unique({"chain_id", "research_run_id"}),
          In("graph_hash", {"64"}) }),
      Table("impact_chain_node",
        { Ref("chain_id", "impact_chain"), NotNegative("ordering") }),
      Table("impact_chain_edge",
        { Ref("chain_id", "impact_chain"),
          In("relation", {"ENABLES", "ESCALATES", "CONFIRMS"}) }),
      On("finding_proposal", { Column("impact_chain_ids", {"[]"}) }) })
a31_downgrade ==
  DropsAnd(
    {"impact_chain_edge", "impact_chain_node", "impact_chain"},
    On("finding_proposal", { Column("impact_chain_ids", {}) }))

a32_upgrade ==
  Adds(Table("coverage_debt_snapshot",
      { OfRun, Unique({"snapshot_id", "research_run_id"}), In("matrix_hash", {"64"}),
        NotNegative("total_debt") }))
a32_downgrade == Drops({"coverage_debt_snapshot"})

a33_upgrade ==
  Adds(UNION {
      On("hypothesis", { Column("identity_id", {"null"}) }),
      On("hunt_v3_queue", { Column("identity_id", {"null"}) }) })
a33_downgrade ==
  Removes(UNION {
      On("hunt_v3_queue", { Column("identity_id", {}) }),
      On("hypothesis", { Column("identity_id", {}) }) })

a34_upgrade ==
  Replaces(On("program", { In("platform", {}) }),
    On("program",
      { In("platform", {"hackerone", "bugcrowd", "manual", "yeswehack", "intigriti",
             "other"}) }))
a34_downgrade ==
  Replaces(On("program", { In("platform", {}) }),
    On("program", { In("platform", {"hackerone", "bugcrowd", "manual"}) }))

a35_upgrade ==
  Adds(On("research_orchestration",
      { Column("owner_runtime_instance_id", {"null"}), Column("lease_epoch", {"zero"}),
        Column("lease_expires_at", {"null"}), NotNegative("lease_epoch") }))
a35_downgrade ==
  Removes(On("research_orchestration",
      { In("lease_epoch", {}), Column("lease_expires_at", {}),
        Column("lease_epoch", {}), Column("owner_runtime_instance_id", {}) }))

a36_upgrade ==
  Adds(Table("opportunity_selection_candidate",
      { OfRun, In("source_system", {"HUNTER_COVERAGE"}),
        In("mode", {"EXPLORATION", "EXPLOITATION"}),
        In("outcome", {"PENDING", "ADMITTED", "NOT_ADMITTED"}),
        Unique({"research_run_id", "structural_identity"}) }))
a36_downgrade == Drops({"opportunity_selection_candidate"})

a37_upgrade == Adds(On("impact_chain_edge", { Column("proof_refs", {"[]"}) }))
a37_downgrade == Removes(On("impact_chain_edge", { Column("proof_refs", {}) }))

a38_upgrade ==
  Adds(Table("promotion_run",
      { OfRun, Unique({"assessment_id"}),
        In("stage", {"EVIDENCE_REJECTED", "EVIDENCE_ADMITTED", "CANDIDATE_REJECTED",
             "CANDIDATE_OPEN", "VERIFYING", "REPRODUCTION_EXECUTED", "VERIFIED",
             "PROPOSAL_RECORDED", "STOPPED"}) }))
a38_downgrade == Drops({"promotion_run"})

(* _require_no_duplicates looks first; the keys would be refused anyway.   *)
a39_upgrade ==
  Adds(UNION {
      On("evidence", { UniqueWhen("polarity = SUPPORTING", {"experiment_id"}) }),
      On("candidate_evidence", { Unique({"evidence_id"}) }),
      On("verification", { Unique({"candidate_id"}) }),
      On("finding_proposal", { Unique({"candidate_id"}) }),
      On("promotion_run",
        { UniqueWhen("reproduction_experiment_id IS NOT NULL",
               {"reproduction_experiment_id"}), MayRef("evidence_id", "evidence"),
          MayRef("candidate_id", "candidate"),
          MayRef("verification_id", "verification"),
          MayRef("finding_proposal_id", "finding_proposal") }) })
a39_downgrade ==
  Removes(UNION {
      On("promotion_run",
        { MayRef("finding_proposal_id", "finding_proposal"),
          MayRef("verification_id", "verification"),
          MayRef("candidate_id", "candidate"), MayRef("evidence_id", "evidence"),
          UniqueWhen("reproduction_experiment_id IS NOT NULL",
               {"reproduction_experiment_id"}) }),
      On("finding_proposal", { Unique({"candidate_id"}) }),
      On("verification", { Unique({"candidate_id"}) }),
      On("candidate_evidence", { Unique({"evidence_id"}) }),
      On("evidence", { UniqueWhen("polarity = SUPPORTING", {"experiment_id"}) }) })

a40_upgrade ==
  Replaces(On("opportunity_selection_candidate", { In("source_system", {}) }),
    UNION {
      On("opportunity_selection_candidate",
        { In("source_system", {"HUNTER_COVERAGE", "REGISTRY_EXTERNAL_ANOMALY"}) }),
      On("hypothesis",
        { UniqueWhen("origin_reference LIKE exh:", {"research_run_id",
               "origin_reference"}) }) })
a40_downgrade ==
  Replaces(UNION {
      On("hypothesis",
        { UniqueWhen("origin_reference LIKE exh:", {"research_run_id",
               "origin_reference"}) }),
      On("opportunity_selection_candidate", { In("source_system", {}) }) },
    On("opportunity_selection_candidate",
      { In("source_system", {"HUNTER_COVERAGE"}) }))

a41_upgrade ==
  Adds(Table("runtime_instance",
      { In("status", {"STARTING", "RUNNING", "DRAINING", "STOPPED"}) }))
a41_downgrade == Drops({"runtime_instance"})

a42_upgrade ==
  Adds(Table("preflight_report",
      { OfRun, Ref("runtime_instance_id", "runtime_instance"),
        In("status", {"READY_TO_START", "NOT_READY"}) }))
a42_downgrade == Drops({"preflight_report"})

(* The first CHECK, which still refused token rows, goes.  The downgrade   *)
(* refuses while token rows exist, as the CHECK it restores does.          *)
a43_upgrade == Removes(On("budget_consumption", { In("resource_type", {}) }))
a43_downgrade ==
  Adds(On("budget_consumption",
      { In("resource_type", {"MODEL_CALL", "WORKER_INVOCATION", "REQUEST",
             "EXECUTION_TIME", "ARTIFACT_BYTES", "COST"}) }))

(* Downgrades that refuse to drop a table that holds rows.                 *)
a44_upgrade ==
  Adds(UNION {
      Table("oast_correlation",
        { Same("attempt_id", "execution_attempt"),
          Same("experiment_id", "experiment_plan"),
          Unique({"correlation_id", "research_run_id"}), Unique({"attempt_id"}),
          Check("expires after armed"), AppendOnly }),
      Table("oast_callback_delivery",
        { Ref("correlation_id", "oast_correlation"),
          Unique({"provider_adapter_id", "provider_event_id"}),
          Unique({"correlation_id", "normalized_digest"}),
          In("provider_adapter_id", {"1..128"}), In("provider_event_id", {"1..256"}),
          In("normalized_payload", {"object within 16384 bytes"}),
          In("normalized_digest", {"sha256"}), AppendOnly }),
      Table("oast_admission",
        { Same("correlation_id", "oast_correlation"),
          Same("sensor_observation_id", "sensor_observation"),
          Same("discovery_fact_id", "discovery_fact"), Unique({"correlation_id"}),
          AppendOnly }) })
a44_downgrade ==
  DropsEmpty(
    {"oast_admission", "oast_callback_delivery", "oast_correlation"},
    {})

a45_upgrade ==
  Adds(UNION {
      Table("run_fault",
        { OfRun, MayRef("runtime_instance_id", "runtime_instance"),
          MaySame("hypothesis_id", "hypothesis"),
          MaySame("experiment_id", "experiment"),
          MaySame("attempt_id", "execution_attempt"),
          In("component", {"CONTROL", "EXECUTION", "WORKER", "RUNTIME", "SUPERVISOR",
               "PERSISTENCE", "PLANNING"}),
          In("phase", {"AUTHORIZATION", "DISPATCH", "INVOCATION", "INGESTION", "TICK",
               "HEARTBEAT", "RECONCILIATION", "PERSISTENCE", "PLANNING"}),
          In("fault_class", {"EXECUTION", "RUNTIME", "SUPERVISOR", "PERSISTENCE",
               "POLICY"}), In("fault_code", {"1..128"}),
          In("diagnostic_summary", {"1..1000"}), Check("resolved after occurred"),
          AppendOnly }),
      On("execution_attempt",
        { Column("target_contact_status", {"UNKNOWN"}),
          In("target_contact_status", {"CONFIRMED", "NOT_CONTACTED", "UNKNOWN"}) }) })
a45_downgrade ==
  DropsEmpty(
    {"run_fault"},
    On("execution_attempt",
      { In("target_contact_status", {}), Column("target_contact_status", {}) }))

----------------------------------------------------------------------------
Upgrades ==
  << a3_upgrade, a6_upgrade, a7_upgrade, a8_upgrade, a9_upgrade, a10_upgrade,
     a11_upgrade, a12_upgrade, a13_upgrade, a14_upgrade, a15_upgrade, a16_upgrade,
     a17_upgrade, a18_upgrade, a19_upgrade, a20_upgrade, a21_upgrade, a22_upgrade,
     a23_upgrade, a24_upgrade, a25_upgrade, a26_upgrade, a27_upgrade, a28_upgrade,
     a29_upgrade, a30_upgrade, a31_upgrade, a32_upgrade, a33_upgrade, a34_upgrade,
     a35_upgrade, a36_upgrade, a37_upgrade, a38_upgrade, a39_upgrade, a40_upgrade,
     a41_upgrade, a42_upgrade, a43_upgrade, a44_upgrade, a45_upgrade >>

Downgrades ==
  << a3_downgrade, a6_downgrade, a7_downgrade, a8_downgrade, a9_downgrade,
     a10_downgrade, a11_downgrade, a12_downgrade, a13_downgrade, a14_downgrade,
     a15_downgrade, a16_downgrade, a17_downgrade, a18_downgrade, a19_downgrade,
     a20_downgrade, a21_downgrade, a22_downgrade, a23_downgrade, a24_downgrade,
     a25_downgrade, a26_downgrade, a27_downgrade, a28_downgrade, a29_downgrade,
     a30_downgrade, a31_downgrade, a32_downgrade, a33_downgrade, a34_downgrade,
     a35_downgrade, a36_downgrade, a37_downgrade, a38_downgrade, a39_downgrade,
     a40_downgrade, a41_downgrade, a42_downgrade, a43_downgrade, a44_downgrade,
     a45_downgrade >>

LastRevision == Len(Upgrades)

(* The schema of a revision: what an upgrade up to it added and no later    *)
(* one, up to it, dropped by name or with its table.                        *)
Dropped(c, step) == c[1] \in step.lost \/ Named(c) \in {Named(d) : d \in step.drop}

SchemaAt(r) ==
  UNION {{c \in Upgrades[k].add : \A j \in k + 1 .. r : ~Dropped(c, Upgrades[j])} :
           k \in 1 .. r}
=============================================================================
