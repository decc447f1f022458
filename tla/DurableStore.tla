---------------------------- MODULE DurableStore ----------------------------
(***************************************************************************)
(* The durable store: a database whose schema moves up and down the        *)
(* revisions of Migrations while rows are written and updated through the  *)
(* repositories (data/postgres/repositories.py, discovery_repositories.py) *)
(* and read back through the record classes (data/postgres/mapping.py).    *)
(*                                                                         *)
(* One row is followed.  What it holds is the set of its deviations from   *)
(* an ordinary row, one that every constraint and every record class       *)
(* accepts: one field at a time is written out of the ordinary.  A write   *)
(* made at an earlier revision comes from the program of that time: it has *)
(* today's record classes, restricted to the columns that existed.         *)
(***************************************************************************)
EXTENDS Migrations, DurableRecords

VARIABLES
  revision,   \* alembic_version, as a position in Upgrades
  schema,     \* the constraints in force
  row,        \* <<table, deviations>>
  rewritten,  \* whether a repository has changed the row since it was inserted
  refused     \* <<table, deviation>> of the last write its record class admitted
              \* and the database refused

vars == <<revision, schema, row, rewritten, refused>>

NoRow == <<"none", {}>>
None  == <<"none", <<"ordinary", "row", {}>>>>

APPEND_ONLY_TABLES ==
  { "issued_budget", "audit_event", "research_reasoning", "research_admission",
    "experiment_plan", "hypothesis_assessment", "evidence", "evidence_observation",
    "evidence_admission", "candidate_evidence", "candidate_admission",
    "verification", "human_review", "approval", "finding", "target_inference",
    "differential_observation", "invariant_source_ref",
    "invariant_counterexample_ref", "chain_hypothesis", "research_opportunity",
    "research_selection", "snapshot", "snapshot_member", "change_event",
    "research_cycle", "budget_consumption", "discovery_run_config", "control_event",
    "discovery_fact", "discovery_inference", "discovery_inference_source",
    "discovery_fact_source", "frontier_source", "frontier_event",
    "discovery_projection_receipt", "sensor_observation", "hunter_family",
    "coverage_debt_snapshot", "impact_chain", "impact_chain_node",
    "impact_chain_edge", "oast_correlation", "oast_callback_delivery",
    "oast_admission", "preflight_report", "run_fault" }

----------------------------------------------------------------------------
(* Deviations: a value of a constrained column, a reference to a row that  *)
(* does not exist or belongs to another run, a duplicate of a unique key,  *)
(* a broken CHECK over several columns, a blank text, a credential or a    *)
(* forbidden key in a payload.                                             *)

Ordinary == <<"ordinary", "row", {}>>

References == {"references", "may reference", "references in run", "may reference in run"}
WithinRun  == {"references in run", "may reference in run", "observation in run"}

(* A constraint c = <<table, kind, column, set>> against one deviation.    *)
Violates(d, c) ==
  \/ /\ c[2] \in {"in", "also in"}
     /\ d[1] = "value" /\ d[2] = c[3] /\ d[3] \cap (c[4] \cup {"null"}) = {}
  \/ c[2] = "required" /\ d = <<"value", c[3], {"null"}>>
  \/ c[2] \in References /\ d = <<"reference", c[3], {"missing"}>>
  \/ c[2] \in WithinRun /\ d = <<"reference", c[3], {"other run"}>>
  \/ c[2] = "unique" /\ d = <<"duplicate", c[3], c[4]>>
  \/ c[2] = "check" /\ d = <<"breaks", c[3], {}>>
  \/ /\ c[2] = "non-empty"
     /\ \E column \in c[4] : d \in {<<"blank", column, {}>>, <<"value", column, {"[]"}>>}
  \/ c[2] = "no secrets" /\ \E column \in c[4] : d = <<"secret", column, {}>>
  \/ c[2] = "without keys" /\ d[1] = "key" /\ d[2] = c[3] /\ d[3] \subseteq c[4]

Of(t, rules) == {c \in rules : c[1] = t}
Accepts(rules, t, d) == \A c \in Of(t, rules) : ~Violates(d, c)

(* Everything any revision, any table and any record class has ever said.  *)
Revisions == 0 .. LastRevision
Schemas   == {<<r, SchemaAt(r)>> : r \in Revisions}
AllRules  == RecordRules \cup SPINE_TABLES \cup UNION {s[2] : s \in Schemas}
Tables    == {c[1] : c \in AllRules}

ValuesOf(t, column) ==
  {"unlisted"} \cup UNION {c[4] : c \in {c \in Of(t, AllRules) :
                                          c[2] \in {"in", "also in"} /\ c[3] = column}}

(* The tables whose rows belong to a run.                                  *)
RunScoped == {c[1] : c \in {c \in AllRules :
                \/ c[2] \in WithinRun
                \/ c[2] \in References /\ c[4] = {"research_run"}}}

(* The deviations that c gives a reason to look at.                        *)
Suggests(c) ==
  CASE c[2] \in {"in", "also in"} ->
         {<<"value", c[3], {v}>> : v \in ValuesOf(c[1], c[3])}
    [] c[2] \in References \cup WithinRun ->
         {<<"reference", c[3], {"missing"}>>} \cup
           (IF {c[1]} \cup c[4] \subseteq RunScoped
              THEN {<<"reference", c[3], {"other run"}>>} ELSE {})
    [] c[2] = "required"     -> {<<"value", c[3], {"null"}>>}
    [] c[2] = "unique"       -> {<<"duplicate", c[3], c[4]>>}
    [] c[2] = "check"        -> {<<"breaks", c[3], {}>>}
    [] c[2] = "non-empty"    -> {<<"blank", column, {}>> : column \in c[4]}
    [] c[2] = "no secrets"   -> {<<"secret", column, {}>> : column \in c[4]}
    [] c[2] = "without keys" -> {<<"key", c[3], {k}>> : k \in c[4]}
    [] OTHER                 -> {}

(* <<table, deviation>>: only what some rule refuses is a deviation.       *)
Deviations ==
  (Tables \X {Ordinary}) \cup
  {p \in UNION {{<<c[1], d>> : d \in Suggests(c)} : c \in AllRules} :
     p[2][3] = {"other run"} \/ ~Accepts(AllRules, p[1], p[2])}

LateColumns == {<<c[1], c[3]>> : c \in {c \in AllRules : c[2] = "column"}}
HasColumn(t, column) ==
  <<t, column>> \in LateColumns =>
    \E c \in schema : c[1] = t /\ c[2] = "column" /\ c[3] = column

----------------------------------------------------------------------------
(* What a repository may do: the tables it inserts into, the columns its   *)
(* methods set and what they may write in them, the rows it saves whole.   *)

Inserts(tables)              == [inserts |-> tables, updates |-> {}]
InsertsAnd(tables, updates)  == [inserts |-> tables, updates |-> updates]
Sets(t, column, values)      ==
  [table |-> t, columns |-> {column}, writes |-> {{<<"value", column, {v}>>} : v \in values}]
Saves(t)                     == [table |-> t, columns |-> {"whole row"}, writes |-> {}]
Allowed(t, column) ==
  UNION {c[4] : c \in {c \in RecordRules : c[1] = t /\ c[2] = "in" /\ c[3] = column}}

PostgresProgramRepository == Inserts({"program"})
PostgresScopeRuleV2Repository == Inserts({"scope_rule_v2"})
PostgresProgramPolicyRepository == Inserts({"program_policy"})
PostgresSensorObservationRepository == Inserts({"sensor_observation"})
PostgresRateLimitProfileRepository == Inserts({"rate_limit_profile"})
PostgresOastTokenRepository == Inserts({"oast_token"})
PostgresOastCorrelationRepository == Inserts({"oast_correlation"})
PostgresOastCallbackDeliveryRepository == Inserts({"oast_callback_delivery"})
PostgresOastAdmissionRepository == Inserts({"oast_admission"})
PostgresBountyTableRepository == Inserts({"bounty_table"})
PostgresAuthorizationSourceRepository == Inserts({"authorization_source"})
PostgresResearchRunRepository == Inserts({"research_run"})
PostgresIssuedBudgetRepository == Inserts({"issued_budget"})
PostgresHypothesisRepository == Inserts({"hypothesis"})
PostgresExperimentRepository ==
  InsertsAnd({"experiment"},
    { Sets("experiment", "execution_state", Allowed("experiment", "execution_state")) })
PostgresExecutionAttemptRepository ==
  InsertsAnd({"execution_attempt"},
    { Sets("execution_attempt", "state", Allowed("execution_attempt", "state")),
      Sets("execution_attempt", "target_contact_status",
           Allowed("execution_attempt", "target_contact_status")) })
PostgresWorkerResultRepository == Inserts({"worker_result"})
PostgresObservationRepository == Inserts({"observation"})
PostgresResearchReasoningRepository == Inserts({"research_reasoning"})
PostgresResearchAdmissionRepository == Inserts({"research_admission"})
PostgresExperimentPlanRepository == Inserts({"experiment_plan"})
PostgresHypothesisAssessmentRepository == Inserts({"hypothesis_assessment"})
PostgresEvidenceRepository == Inserts({"evidence", "evidence_observation"})
PostgresEvidenceAdmissionRepository == Inserts({"evidence_admission"})
PostgresCandidateRepository ==
  InsertsAnd({"candidate", "candidate_evidence"},
    { Sets("candidate", "state", Allowed("candidate", "state")) })
PostgresCandidateAdmissionRepository == Inserts({"candidate_admission"})
PostgresPromotionRunRepository ==
  InsertsAnd({"promotion_run"},
    { Saves("promotion_run") })
PostgresVerificationRepository == Inserts({"verification"})
PostgresFindingProposalRepository ==
  InsertsAnd({"finding_proposal"},
    { Sets("finding_proposal", "state", Allowed("finding_proposal", "state")) })
PostgresHumanReviewRepository == Inserts({"human_review"})
PostgresApprovalRepository == Inserts({"approval"})
PostgresFindingRepository == Inserts({"finding"})
PostgresTargetInferenceRepository == Inserts({"target_inference"})
PostgresDifferentialObservationRepository == Inserts({"differential_observation"})
(* add_counterexample inserts the reference and sets CHALLENGED.           *)
PostgresInvariantHypothesisRepository ==
  InsertsAnd({"invariant_hypothesis", "invariant_counterexample_ref", "invariant_source_ref"},
    { Sets("invariant_hypothesis", "status",
           Allowed("invariant_hypothesis", "status")) })
PostgresChainHypothesisRepository == Inserts({"chain_hypothesis"})
PostgresResearchOpportunityRepository == Inserts({"research_opportunity"})
PostgresResearchSelectionRepository == Inserts({"research_selection"})

(* Faulty variant: the opportunity is left to be named later.              *)
DecisionsUnnamed == { <<"ADMITTED", "null">>, <<"NOT_ADMITTED", "null">> }

(* SelectResearchOpportunities, the one caller of mark_decided, names the  *)
(* opportunity of a candidate it admits and of no other.                   *)
Decisions == { <<"ADMITTED", "opportunity">>, <<"NOT_ADMITTED", "null">> }

(* mark_decided sets the outcome, the opportunity and the time of a        *)
(* decision in one UPDATE.  It checks the outcome alone: which opportunity *)
(* comes with it is checked by nothing before the row is read.  (A second  *)
(* call for the row does nothing: here, the same again.)                   *)
mark_decided(outcome, opportunity) ==
  {<<"value", "outcome", {outcome}>>} \cup
    (IF (outcome = "ADMITTED") = (opportunity # "null") THEN {}
     ELSE {<<"breaks", "admitted iff resulting_opportunity_id", {}>>})

PostgresOpportunitySelectionCandidateRepository ==
  InsertsAnd({"opportunity_selection_candidate"},
    { [table |-> "opportunity_selection_candidate",
       columns |-> {"outcome", "resulting_opportunity_id", "decided_at"},
       writes |-> {mark_decided(d[1], d[2]) : d \in Decisions}] })
PostgresSnapshotRepository == Inserts({"snapshot", "snapshot_member"})
PostgresChangeEventRepository == Inserts({"change_event"})
PostgresAuditEventRepository == Inserts({"audit_event"})
PostgresRunFaultRepository == Inserts({"run_fault"})
PostgresResearchOrchestrationRepository ==
  InsertsAnd({"research_orchestration"},
    { Saves("research_orchestration") })
PostgresResearchCycleRepository == Inserts({"research_cycle"})
PostgresBudgetConsumptionRepository == Inserts({"budget_consumption"})
PostgresSessionContextRepository ==
  InsertsAnd({"session_context"},
    { Sets("session_context", "state", Allowed("session_context", "state")) })
(* A registry whose families can be changed in place.                      *)
RegistryWithUpdate ==
  InsertsAnd({"hunter_family"}, { Saves("hunter_family") })
PostgresHunterFamilyRepository == Inserts({"hunter_family"})
PostgresHuntV3QueueRepository ==
  InsertsAnd({"hunt_v3_queue"},
    { Sets("hunt_v3_queue", "state", Allowed("hunt_v3_queue", "state")) })
PostgresImpactChainRepository ==
  Inserts({"impact_chain", "impact_chain_node", "impact_chain_edge"})
PostgresRuntimeInstanceRepository ==
  InsertsAnd({"runtime_instance"},
    { Saves("runtime_instance") })
PostgresPreflightReportRepository == Inserts({"preflight_report"})
PostgresDiscoveryRunConfigRepository == Inserts({"discovery_run_config"})
PostgresControlEventRepository == Inserts({"control_event"})
PostgresDiscoveryFactRepository == Inserts({"discovery_fact"})
PostgresDiscoveryFactSourceRepository == Inserts({"discovery_fact_source"})
PostgresDiscoveryInferenceRepository == Inserts({"discovery_inference"})
PostgresDiscoveryInferenceSourceRepository == Inserts({"discovery_inference_source"})
(* set_cache_state checks nothing; its one caller selects (claim.py).       *)
PostgresFrontierItemRepository ==
  InsertsAnd({"frontier_item"},
    { Sets("frontier_item", "current_state", {"SELECTED"}) })
PostgresFrontierSourceRepository == Inserts({"frontier_source"})
PostgresFrontierEventRepository == Inserts({"frontier_event"})
PostgresDiscoveryProjectionReceiptRepository ==
  Inserts({"discovery_projection_receipt"})
PostgresAttackSurfaceSnapshotRepository == Inserts({"attack_surface_snapshot"})
PostgresCoverageDebtSnapshotRepository == Inserts({"coverage_debt_snapshot"})

Repositories ==
  { PostgresProgramRepository, PostgresScopeRuleV2Repository,
    PostgresProgramPolicyRepository, PostgresSensorObservationRepository,
    PostgresRateLimitProfileRepository, PostgresOastTokenRepository,
    PostgresOastCorrelationRepository, PostgresOastCallbackDeliveryRepository,
    PostgresOastAdmissionRepository, PostgresBountyTableRepository,
    PostgresAuthorizationSourceRepository, PostgresResearchRunRepository,
    PostgresIssuedBudgetRepository, PostgresHypothesisRepository,
    PostgresExperimentRepository, PostgresExecutionAttemptRepository,
    PostgresWorkerResultRepository, PostgresObservationRepository,
    PostgresResearchReasoningRepository, PostgresResearchAdmissionRepository,
    PostgresExperimentPlanRepository, PostgresHypothesisAssessmentRepository,
    PostgresEvidenceRepository, PostgresEvidenceAdmissionRepository,
    PostgresCandidateRepository, PostgresCandidateAdmissionRepository,
    PostgresPromotionRunRepository, PostgresVerificationRepository,
    PostgresFindingProposalRepository, PostgresHumanReviewRepository,
    PostgresApprovalRepository, PostgresFindingRepository,
    PostgresTargetInferenceRepository, PostgresDifferentialObservationRepository,
    PostgresInvariantHypothesisRepository, PostgresChainHypothesisRepository,
    PostgresResearchOpportunityRepository, PostgresResearchSelectionRepository,
    PostgresOpportunitySelectionCandidateRepository, PostgresSnapshotRepository,
    PostgresChangeEventRepository, PostgresAuditEventRepository,
    PostgresRunFaultRepository, PostgresResearchOrchestrationRepository,
    PostgresResearchCycleRepository, PostgresBudgetConsumptionRepository,
    PostgresSessionContextRepository, PostgresHunterFamilyRepository,
    PostgresHuntV3QueueRepository, PostgresImpactChainRepository,
    PostgresRuntimeInstanceRepository, PostgresPreflightReportRepository,
    PostgresDiscoveryRunConfigRepository, PostgresControlEventRepository,
    PostgresDiscoveryFactRepository, PostgresDiscoveryFactSourceRepository,
    PostgresDiscoveryInferenceRepository, PostgresDiscoveryInferenceSourceRepository,
    PostgresFrontierItemRepository, PostgresFrontierSourceRepository,
    PostgresFrontierEventRepository, PostgresDiscoveryProjectionReceiptRepository,
    PostgresAttackSurfaceSnapshotRepository, PostgresCoverageDebtSnapshotRepository }

----------------------------------------------------------------------------
(* Rows are read through the record classes.                               *)
program_rows_from_row == UNION
  { ProgramRecord, ScopeRuleV2Record, ProgramPolicyRecord, SensorObservationRecord,
    RateLimitProfileRecord, OastTokenRecord, OastCorrelationRecord,
    OastCallbackDeliveryRecord, OastAdmissionRecord, BountyTableRecord,
    AuthorizationSourceRecord }
run_rows_from_row == UNION
  { ResearchRunRecord, IssuedBudgetRecord, HypothesisRecord, ExperimentRecord,
    ExecutionAttemptRecord, WorkerResultRecord, ObservationRecord, AuditEventRecord,
    RunFaultRecord }
reasoning_rows_from_row == UNION
  { ResearchReasoningRecord, ResearchAdmissionRecord, ExperimentPlanRecord,
    HypothesisAssessmentRecord, EvidenceRecord, EvidenceAdmissionRecord, CandidateRecord }
promotion_rows_from_row == UNION
  { CandidateAdmissionRecord, VerificationRecord, PromotionRunRecord,
    FindingProposalRecord, HumanReviewRecord, ApprovalRecord, FindingRecord,
    TargetInferenceRecord }
knowledge_rows_from_row == UNION
  { DifferentialObservationRecord, InvariantHypothesisRecord,
    InvariantCounterexampleRefRecord, ChainHypothesisRecord, ResearchOpportunityRecord,
    ResearchSelectionRecord, OpportunitySelectionCandidateRecord, SnapshotRecord }
control_rows_from_row == UNION
  { SnapshotMemberRecord, ChangeEventRecord, ResearchOrchestrationRecord,
    ResearchCycleRecord, BudgetConsumptionRecord, SessionContextRecord,
    DiscoveryRunConfigRecord }
discovery_rows_from_row == UNION
  { ControlEventRecord, DiscoveryFactRecord, DiscoveryFactSourceRecord,
    DiscoveryInferenceRecord, DiscoveryInferenceSourceRecord, FrontierItemRecord,
    FrontierSourceRecord, FrontierEventRecord, DiscoveryProjectionReceiptRecord }
hunt_rows_from_row == UNION
  { AttackSurfaceSnapshotRecord, CoverageDebtSnapshotRecord, HunterFamilyRecord,
    HuntV3QueueRecord, ImpactChainRecord, ImpactChainNodeRecord, ImpactChainEdgeRecord,
    RuntimeInstanceRecord, PreflightReportRecord }

ReadRules == UNION
  { program_rows_from_row, run_rows_from_row, reasoning_rows_from_row,
    promotion_rows_from_row, knowledge_rows_from_row, control_rows_from_row,
    discovery_rows_from_row, hunt_rows_from_row }

----------------------------------------------------------------------------
(* A new database, or one that was deployed at the last revision.          *)
Init ==
  /\ revision \in {0, LastRevision} /\ schema = SchemaAt(revision)
  /\ row = NoRow /\ rewritten = FALSE /\ refused = None

(* A step is done when the rows that are left satisfy the schema it ends   *)
(* in, and otherwise leaves everything as it was.  (One alembic command    *)
(* runs all its steps in one transaction; each is a step of its own here,  *)
(* as if it were the only one asked for.)  Rows of a dropped table go; a   *)
(* dropped column takes its value along; a new column gives its default to *)
(* the rows there are, and one that is required and has none refuses a     *)
(* table with rows.                                                        *)
ColumnsOf(t, constraints) ==
  {c \in constraints : c[1] = t /\ c[2] = "column"}

Migrated(step) ==
  IF row[1] \in step.lost THEN NoRow
  ELSE <<row[1],
         {d \in row[2] : \A c \in ColumnsOf(row[1], step.drop) : d[2] # c[3]}
           \cup {<<"value", c[3], c[4]>> :
                   c \in {c \in ColumnsOf(row[1], step.add) : c[4] # {"null"}}}>>

Migrate(step, to) ==
  /\ refused = None
  /\ row[1] \notin step.empty
  /\ \A c \in ColumnsOf(row[1], step.add) : c[4] # {}
  /\ revision' = to
  /\ schema' = Apply(schema, step)
  /\ row' = Migrated(step) /\ rewritten' = (rewritten /\ row' # NoRow)
  /\ \A d \in row'[2] : Accepts(schema', row'[1], d)
  /\ UNCHANGED refused

Upgrade   == /\ revision < LastRevision
             /\ Migrate(Upgrades[revision + 1], revision + 1)
Downgrade == /\ revision > 0
             /\ Migrate(Downgrades[revision], revision - 1)

(* The repositories take rows that no record class has seen.               *)
WriteUnvalidated(t, d, deviations) ==
  /\ \A e \in deviations : Accepts(schema, t, e)
  /\ row' = <<t, deviations>> /\ rewritten' = (row # NoRow)
  /\ UNCHANGED <<revision, schema, refused>>

(* A write: the record class first, then the database in a SAVEPOINT.      *)
_execute_write(t, d, deviations) ==
  /\ Accepts({c \in RecordRules : HasColumn(t, c[3])}, t, d)
  /\ IF \A e \in deviations : Accepts(schema, t, e)
       THEN row' = <<t, deviations>> /\ rewritten' = (row # NoRow) /\ UNCHANGED refused
       ELSE refused' = <<t, d>> /\ UNCHANGED <<row, rewritten>>
  /\ UNCHANGED <<revision, schema>>

Insert ==
  \E p \in Deviations, repository \in Repositories :
    /\ row = NoRow /\ refused = None
    /\ p[1] \in repository.inserts
    /\ <<p[1], "exists", "table", {}>> \in schema
    /\ HasColumn(p[1], p[2][2])
    /\ _execute_write(p[1], p[2], {p[2]} \ {Ordinary})

Mutable(t) == <<t, "append only", "row", {}>> \notin schema

(* An UPDATE of some columns: the method checks what it is given, not the  *)
(* row that comes of it, and the trigger of an append-only table refuses   *)
(* it.                                                                     *)
Update ==
  \E repository \in Repositories : \E u \in repository.updates : \E write \in u.writes :
    LET deviations == {e \in row[2] : e[2] \notin u.columns}
                        \cup {d \in write : <<u.table, d>> \in Deviations}
    IN  /\ row[1] = u.table /\ refused = None /\ Mutable(u.table)
        /\ \A column \in u.columns : HasColumn(u.table, column)
        /\ IF \A d \in write : Accepts(schema, u.table, d)
             THEN row' = <<u.table, deviations>> /\ rewritten' = TRUE /\ UNCHANGED refused
             ELSE /\ \E d \in write : ~Accepts(schema, u.table, d) /\ refused' = <<u.table, d>>
                  /\ UNCHANGED <<row, rewritten>>
        /\ UNCHANGED <<revision, schema>>

(* An UPDATE of every column from a record read before and changed.        *)
Save ==
  \E repository \in Repositories : \E u \in repository.updates :
    /\ row[1] = u.table /\ refused = None /\ u.columns = {"whole row"} /\ Mutable(u.table)
    /\ \E d \in {p[2] : p \in {p \in Deviations : p[1] = u.table}} :
         /\ HasColumn(u.table, d[2])
         /\ _execute_write(u.table, d, {d} \ {Ordinary})

(* The caller's unit of work is left by the exception: nothing it wrote    *)
(* stays.                                                                  *)
Rollback ==
  /\ refused # None
  /\ refused' = None
  /\ UNCHANGED <<revision, schema, row, rewritten>>

Next == Upgrade \/ Downgrade \/ Insert \/ Update \/ Save \/ Rollback

Spec == Init /\ [][Next]_vars

----------------------------------------------------------------------------
(* Type correctness: the row is of a table the schema has, with deviations *)
(* of that table or defaults a migration gave it.                          *)
TypeOK ==
  /\ revision \in Revisions
  /\ schema \subseteq AllRules
  /\ row = NoRow \/ <<row[1], "exists", "table", {}>> \in schema
  /\ \A d \in row[2] : d[1] # "ordinary"
  /\ rewritten \in BOOLEAN
  /\ refused = None \/ refused \in Deviations

(* However the database got to a revision, by upgrades, downgrades and     *)
(* upgrades again, its schema is the one that upgrading from nothing gives *)
(* (every downgrade() undoes its upgrade()), and at the last revision      *)
(* everything tables.py declares is in force (the migrations and the       *)
(* declarations are written by hand, apart from each other).               *)
SchemaFollowsItsRevision ==
  /\ <<revision, schema>> \in Schemas
  /\ revision = LastRevision => SPINE_TABLES \subseteq schema

(* A row that was written can be read: no migration default, no UPDATE of  *)
(* some columns and no round trip of the schema leaves a row its record    *)
(* class refuses, which would make every list of its table raise.  The     *)
(* database would take a decided candidate without its opportunity; it is  *)
(* the caller of mark_decided that keeps the two together.  a37 says of   *)
(* itself that the edges it finds get an empty proof_refs "that the record *)
(* layer rejects on read": the one exception.                              *)
EveryRowIsReadable ==
  revision = LastRevision =>
    \A d \in row[2] \ {<<"value", "proof_refs", {"[]"}>>} : Accepts(ReadRules, row[1], d)

(* The references whose run no key compares: the writers (admission,       *)
(* verification, promotion, finding, snapshot and sensor services) take    *)
(* the run from the row they name, and the seed has a CHECK of its own.    *)
ComparedByTheWriter ==
  { <<"research_admission", "generator_reasoning_record_id">>,
    <<"research_admission", "falsifier_reasoning_record_id">>,
    <<"evidence_admission", "admitted_evidence_id">>,
    <<"candidate_admission", "admitted_candidate_id">>,
    <<"verification", "candidate_id">>, <<"promotion_run", "evidence_id">>,
    <<"promotion_run", "candidate_id">>, <<"promotion_run", "verification_id">>,
    <<"promotion_run", "finding_proposal_id">>, <<"finding_proposal", "candidate_id">>,
    <<"finding", "candidate_id">>, <<"finding", "finding_proposal_id">>,
    <<"finding", "approval_id">>, <<"approval", "proposal_id">>,
    <<"change_event", "baseline_snapshot_id">>, <<"change_event", "variant_snapshot_id">>,
    <<"frontier_source", "seed_config_run_id">>,
    <<"discovery_fact_source", "sensor_observation_id">> }

(* What belongs to a run refers to rows of the same run only: whatever the *)
(* repositories are asked to write, and whatever was written before a      *)
(* revision added the key, no row at the last revision names a row of      *)
(* another run through a column the database can compare.                  *)
LineageWithinOneRun ==
  revision = LastRevision =>
    \A d \in row[2] : d[3] = {"other run"} => <<row[1], d[2]>> \in ComparedByTheWriter

(* A row of a table the code lists as append-only is never rewritten by a  *)
(* repository.  For 16 of these tables no trigger stands behind the list,  *)
(* and it is only what the repositories offer that keeps it.               *)
HistoryIsKept == rewritten => row[1] \notin APPEND_ONLY_TABLES

(* A run fault that its record class has bounded and admitted is stored.   *)
AdmittedFaultIsStored ==
  ~(/\ revision = LastRevision /\ refused[1] = "run_fault"
    /\ refused[2][1] = "value" /\ refused[2][2] = "diagnostic_summary")
=============================================================================
