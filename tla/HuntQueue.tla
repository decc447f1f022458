------------------------------ MODULE HuntQueue ------------------------------
(***************************************************************************)
(* The hunt: a cycle makes hypotheses for the cells of the attack surface  *)
(* and validates them tier by tier; what passes and needs an active        *)
(* experiment is queued, a human approves it, and dispatchers compile and  *)
(* execute approved items, one unit of a matrix or of a protocol plan at a *)
(* time.  Every step of a dispatcher is one transaction or the call of the *)
(* executor; it can crash between any two of them, and an operator may     *)
(* start another one.                                                      *)
(*                                                                         *)
(* A queue item is named by the index of its hypothesis.                   *)
(***************************************************************************)
EXTENDS HuntCoverage, ExperimentCompilers

CONSTANTS Graph, RegistryChoices,  \* the attack surface; the registries of families
          Catalog,                 \* the authoritative matrix of each mutation family
          Age,                     \* hours since the last activity on each node
          Approver, Dispatcher,
          Unit,                    \* the units a dispatcher may select; -1 is none
          ExtraFields,             \* what compile_arguments may add
          CoreViews,               \* what Core may be shown at dispatch
          Outcomes,                \* the outcomes of an assessment
          TopN, MaxCandidates, MAX_IDENTITIES_PER_NODE,
          MinimumSample, Threshold,
          Statuses,                \* what the executor may answer
          Reporting,               \* bound: the registries reports are made of
          MaxHyps, MaxRuns, MaxReports \* bounds

ASSUME BoundAssumption == MaxHyps \in Nat

Core == INSTANCE CoreDecision

VARIABLES registry,    \* the enabled families
          hyps,        \* hypotheses, each with the cell it is about
          events,      \* tier decisions in the audit log
          work,        \* hypotheses the running cycle has still to validate
          queue,       \* state of each queue item, "NONE" when there is none
          approval,    \* the decision recorded for each item's subject
          approving,   \* the item an approver has read as PENDING, 0 for none
          units,       \* unit events in the audit log
          disp,        \* the dispatchers
          runs,        \* worker invocations
          assessed,    \* outcome of the feedback on each hypothesis
          proposed,    \* cells proposed as opportunities
          snapshot,    \* last coverage snapshot
          breaker      \* last decision of each family's circuit breaker

cycle == <<registry, hyps, events, work>>
reports == <<proposed, snapshot, breaker>>
vars == <<cycle, queue, approval, approving, units, disp, runs, assessed, reports>>

Hyp == 1 .. MaxHyps

NodeOf(key) == CHOOSE n \in Graph.nodes : n.key = key
FamilyOf(id) == CHOOSE f \in registry : f.id = id

Idle == [step |-> "idle", q |-> 0, unit |-> -1, plan |-> _blocked("NONE"), status |-> "NONE"]

Init ==
    /\ registry \in RegistryChoices /\ hyps = <<>> /\ events = {} /\ work = <<>>
    /\ queue = [h \in Hyp |-> "NONE"] /\ approval = [h \in Hyp |-> "NONE"]
    /\ approving = [a \in Approver |-> 0]
    /\ units = {} /\ disp = [d \in Dispatcher |-> Idle] /\ runs = {}
    /\ assessed = [h \in Hyp |-> "NONE"]
    /\ proposed = {} /\ snapshot = <<>> /\ breaker = [f \in {} |-> "ALLOW"]

----------------------------------------------------------------------------
(* Coverage and its reports *)

Matrix == compute_coverage_debt(Graph, registry, build_coverage_hypothesis_view(hyps, events))

_build_family_stats(id) ==
    LET of(outcome) == Cardinality({h \in DOMAIN hyps : hyps[h].family = id /\ assessed[h] = outcome})
    IN [supported |-> of("CONSISTENT_WITH_PREDICTION"), falsified |-> of("CONTRADICTS_PREDICTION")]

Scored(exhausted) ==
    LET stats == [id \in {f.id : f \in registry} |-> _build_family_stats(id)]
    IN schedule(Matrix, stats, Age, exhausted)

(* Bound: nothing but the next report reads one, so that few are made, of some
   registries, and before the first dispatch. *)
ReportsLeft ==
    /\ registry \in Reporting /\ runs = {} /\ \A d \in Dispatcher : disp[d] = Idle
    /\ Cardinality(proposed) + Len(snapshot) + Cardinality(DOMAIN breaker) < MaxReports

HunterCoverageOpportunitySource ==
    /\ ReportsLeft
    /\ proposed' = proposed \cup HunterCoverageCandidates(Scored(FALSE), MaxCandidates, proposed)
    /\ proposed' # proposed
    /\ UNCHANGED <<cycle, queue, approval, approving, units, disp, runs, assessed, snapshot, breaker>>

(* CoverageDebtView with persist, then the comparison with the snapshot before
   it, whose verdict is only written to the audit log. *)
RefreshLiveCoverageDebt ==
    /\ ReportsLeft
    /\ assess_live_coverage_debt(snapshot, Matrix) # "MATRIX_UNCHANGED"
    /\ snapshot' = <<Matrix>>
    /\ UNCHANGED <<cycle, queue, approval, approving, units, disp, runs, assessed, proposed, breaker>>

EvaluateFamilyCircuitBreaker(f) ==
    /\ ReportsLeft
    /\ \E counts \in _family_outcome_counts({e \in events : hyps[e.h].family = f.id}) :
         LET action == evaluate_family_circuit_breaker(counts, MinimumSample, Threshold) IN
         breaker' = [i \in DOMAIN breaker \cup {f.id} |-> IF i = f.id THEN action ELSE breaker[i]]
    /\ UNCHANGED <<cycle, queue, approval, approving, units, disp, runs, assessed, proposed, snapshot>>

----------------------------------------------------------------------------
(* The hunt cycle *)

FirstIdentities(n) ==
    {i \in _identity_ids_for_node(n) :
        Cardinality({j \in _identity_ids_for_node(n) : j < i}) < MAX_IDENTITIES_PER_NODE}

_generate_from_graph ==
    SetToSortSeq(UNION {{Cell(n, f, i) : f \in families_for_node(n, Graph, registry),
                                         i \in FirstIdentities(n)} : n \in Graph.nodes}, Before)

_generate_from_schedule(scored) ==
    LET take == IF Len(scored) < TopN THEN Len(scored) ELSE TopN
    IN [i \in 1 .. take |-> scored[i].cell]

(* A generation is one transaction; it does not ask what exists already. *)
Generate(cells) ==
    /\ work = <<>> /\ Len(cells) \in 1 .. MaxHyps - Len(hyps)
    /\ hyps' = hyps \o cells
    /\ work' = [i \in 1 .. Len(cells) |-> Len(hyps) + i]
    /\ UNCHANGED <<registry, events, queue, approval, approving, units, disp, runs, assessed, reports>>

RunHuntCycle == Generate(_generate_from_graph)

RunScheduledCycle(exhausted) == Generate(_generate_from_schedule(Scored(exhausted)))

V3_CAPABILITY_FOR_FAMILY(name) ==
    CASE name = "OBJECT_AUTHORIZATION"      -> "http.authorization_differential"
      [] name = "WORKFLOW_STATE_TRANSITION" -> "http.state_transition_authorization"
      [] name \in MUTATION_MATRIX_FAMILIES  -> "mutation.matrix"
      [] name \in PROTOCOL_FAMILIES         -> "protocol.parser"
      [] OTHER                              -> "NONE"

_side_effect_for_family(name) ==
    CASE name \in PROTOCOL_FAMILIES -> 3 [] name = "WORKFLOW_STATE_TRANSITION" -> 1 [] OTHER -> 0

_matching_protocol_surface_signals(n, f) == f.signals \cap n.signals

(* What makes the enqueueing raise, which undoes the whole validation. *)
EnqueueRaises(n, f) ==
    \/ n.scope # IN_SCOPE
    \/ V3_CAPABILITY_FOR_FAMILY(f.name) = "NONE"
    \/ f.name \in PROTOCOL_FAMILIES /\ _matching_protocol_surface_signals(n, f) = {}

Decision(h, tier, outcome) == [h |-> h, tier |-> tier, outcome |-> outcome]

_tier_audit(h, v1, v2, queued) ==
    {Decision(h, "V1", IF v1 THEN "PASSED" ELSE "REJECTED")}
    \cup (IF v1 THEN {Decision(h, "V2", IF v2 THEN "PASSED" ELSE "REJECTED")} ELSE {})
    \cup (IF queued THEN {Decision(h, "V3", "QUEUED")} ELSE {})

(* An exception leaves the cycle: the hypotheses after it stay unvalidated. *)
ValidateTiers(h) ==
    LET n == NodeOf(hyps[h].node) f == FamilyOf(hyps[h].family)
        v1 == _v1_static_check(n, f, Graph) v2 == _v2_passive_check(n, f, Graph)
        queued == v1 /\ v2 /\ f.tier = "V3"
    IN IF queued /\ EnqueueRaises(n, f)
       THEN work' = <<>> /\ UNCHANGED <<events, queue>>
       ELSE /\ events' = events \cup _tier_audit(h, v1, v2, queued)
            /\ queue' = IF queued THEN [queue EXCEPT ![h] = "PENDING"] ELSE queue
            /\ work' = Tail(work)

ValidateHuntTiers ==
    /\ work # <<>> /\ ValidateTiers(Head(work))
    /\ UNCHANGED <<registry, hyps, approval, approving, units, disp, runs, assessed, reports>>

CycleCrash ==
    /\ work # <<>> /\ work' = <<>>
    /\ UNCHANGED <<registry, hyps, events, queue, approval, approving, units, disp, runs, assessed, reports>>

----------------------------------------------------------------------------
(* Approval *)

(* The recorded decision about an item's subject; there is one per subject. *)
RecordApproval(h, decision) ==
    /\ queue[h] # "NONE" /\ approval[h] = "NONE"
    /\ approval' = [approval EXCEPT ![h] = decision]
    /\ UNCHANGED <<cycle, queue, approving, units, disp, runs, assessed, reports>>

(* Faulty variant: a recorded decision will do, whichever it is. *)
AuthorizesAnyDecision(h) == approval[h] # "NONE"

Authorizes(h) ==
    approval[h] # "NONE" /\
        Core!check_approval([recorded |-> TRUE, actor |-> "HUMAN_OPERATOR", subject |-> h,
                             decision |-> approval[h]], h) = "ALLOWED"

(* An item of level 3 must carry the marker the enqueueing puts into the
   arguments of a protocol family. *)
_se3_marker_valid(h) ==
    LET name == FamilyOf(hyps[h].family).name
    IN _side_effect_for_family(name) = 3 => name \in PROTOCOL_FAMILIES

(* The item and the approval are read... *)
ReadPending(a, h) ==
    /\ approving[a] = 0 /\ queue[h] = "PENDING" /\ _se3_marker_valid(h) /\ Authorizes(h)
    /\ approving' = [approving EXCEPT ![a] = h]
    /\ UNCHANGED <<cycle, queue, approval, units, disp, runs, assessed, reports>>

(* ... and the state is set, whatever it has become. *)
ApproveHuntV3Queue(a) ==
    /\ approving[a] # 0
    /\ queue' = [queue EXCEPT ![approving[a]] = "APPROVED"]
    /\ approving' = [approving EXCEPT ![a] = 0]
    /\ UNCHANGED <<cycle, approval, units, disp, runs, assessed, reports>>

----------------------------------------------------------------------------
(* Dispatch *)

ContextKeys ==
    {"origin", "authorized_origin", "path", "method", "resource_id", "actor", "own_object",
     "cross_object", "mode", "transition", "area"}

_node_compile_context(n) ==
    (n.fields \cap ContextKeys) \cup (IF "origin" \in n.fields THEN {"authorized_origin"} ELSE {})

ItemFamily(q) == FamilyOf(hyps[q].family)

_compile(q, unit, extra) ==
    LET f == ItemFamily(q) IN
    ExperimentCompilerRegistry(
        [family |-> f.name, fields |-> _node_compile_context(NodeOf(hyps[q].node)) \cup extra,
         unit |-> unit, hash |-> f.plan, matrix |-> Catalog[f.name], argsOk |-> TRUE,
         cap |-> "NONE", action |-> "NONE", rule |-> FALSE, proposal |-> FALSE])

Units(q) == ItemFamily(q).name \in UNIT_FAMILIES

UnitEvent(q, unit, kind, eligible) == [q |-> q, unit |-> unit, kind |-> kind, eligible |-> eligible]

(* Faulty variant: only what has an outcome counts as attempted. *)
_prior_outcome(q, unit) == \E e \in units : e.q = q /\ e.unit = unit /\ e.kind = "OUTCOME"

_prior_unit(q, unit) == \E e \in units : e.q = q /\ e.unit = unit

(* Faulty variant: an item that waits for its approval is taken up as well. *)
_load_pending(q) == queue[q] \in {"PENDING", "APPROVED"}

(* What lets a dispatcher take an item up. *)
_load_approved(q) == queue[q] = "APPROVED"

(* Faulty variant: no from_state. *)
SetStateAlways(q, to) == queue' = [queue EXCEPT ![q] = to]

SetState(q, to) == queue' = IF queue[q] = "APPROVED" THEN [queue EXCEPT ![q] = to] ELSE queue

_block(q) == SetState(q, "BLOCKED")

_mark_run(q) == SetState(q, "RUN")

(* An item that is RUN is answered ALREADY_DISPATCHED, any other one that is
   not APPROVED is an error: neither changes anything.  A unit that has an
   event was attempted.  One that is not named, or does not compile, leaves an
   OUTCOME; an item without units is blocked. *)
Load(d, q, unit, extra) ==
    LET c == _compile(q, unit, extra) IN
    /\ disp[d] = Idle /\ q <= Len(hyps) /\ _load_approved(q)
    /\ IF Units(q) THEN ~_prior_unit(q, unit) ELSE unit = -1
    /\ IF c.outcome = "COMPILED"
       THEN /\ disp' = [disp EXCEPT ![d] = [Idle EXCEPT !.step = "prepared", !.q = q, !.unit = unit, !.plan = c]]
            /\ UNCHANGED <<units, queue>>
       ELSE IF Units(q)
       THEN units' = units \cup {UnitEvent(q, unit, "OUTCOME", FALSE)} /\ UNCHANGED <<queue, disp>>
       ELSE _block(q) /\ UNCHANGED <<units, disp>>
    /\ UNCHANGED <<cycle, approval, approving, runs, assessed, reports>>

(* The experiment is prepared and a unit's INTENT is recorded. *)
Intend(d) ==
    LET p == disp[d] IN
    /\ p.step = "prepared"
    /\ units' = IF Units(p.q) THEN units \cup {UnitEvent(p.q, p.unit, "INTENT", FALSE)} ELSE units
    /\ disp' = [disp EXCEPT ![d].step = "intended"]
    /\ UNCHANGED <<cycle, queue, approval, approving, runs, assessed, reports>>

Invoked == {"OBSERVATION_PRODUCED", "NO_OBSERVATION", "INVOCATION_FAILED", "UNKNOWN_OUTCOME"}

Refused(decision) ==
    IF decision = "DENY" THEN "DISPATCH_DENIED" ELSE "HUMAN_REVIEW_REQUIRED"

(* ExecutePlannedExperiment: a rejected input, or Core asked afresh about the
   plan's level, and the worker only on its ALLOW. *)
Execute(d, view, status) ==
    LET p == disp[d]
        decision == Core!evaluate_execution([view EXCEPT !.level = p.plan.level])
        nth == 1 + Cardinality({r \in runs : r.q = p.q /\ r.unit = p.unit})
    IN /\ p.step = "intended" /\ Cardinality(runs) < MaxRuns
       /\ \/ status = "INPUT_REJECTED" /\ runs' = runs
          \/ decision # "ALLOW" /\ status = Refused(decision) /\ runs' = runs
          \/ /\ decision = "ALLOW" /\ status \in Invoked
             /\ runs' = runs \cup {[q |-> p.q, unit |-> p.unit, by |-> d, nth |-> nth]}
       /\ disp' = [disp EXCEPT ![d].step = "executed", ![d].status = status]
       /\ UNCHANGED <<cycle, queue, approval, approving, units, assessed, reports>>

(* EvaluateExperimentFeedback. *)
Assess(d, outcome) ==
    LET p == disp[d] IN
    /\ p.step = "executed"
    /\ p.status \in Invoked \ {"UNKNOWN_OUTCOME"}
    /\ outcome = "INCONCLUSIVE" \/ p.status = "OBSERVATION_PRODUCED"
    /\ assessed' = [assessed EXCEPT ![p.q] = outcome]
    /\ disp' = [disp EXCEPT ![d].step = "assessed"]
    /\ UNCHANGED <<cycle, queue, approval, approving, units, runs, reports>>

Finish(d) ==
    LET p == disp[d] IN
    /\ \/ p.step = "assessed"
       \/ p.step = "executed" /\ p.status \notin Invoked \ {"UNKNOWN_OUTCOME"}
    /\ IF p.status \in {"DISPATCH_DENIED", "HUMAN_REVIEW_REQUIRED"}
       THEN _block(p.q) /\ UNCHANGED units
       ELSE IF Units(p.q)
       THEN /\ units' = units \cup {UnitEvent(p.q, p.unit, "OUTCOME", p.status = "OBSERVATION_PRODUCED")}
            /\ UNCHANGED queue
       ELSE _mark_run(p.q) /\ UNCHANGED units
    /\ disp' = [disp EXCEPT ![d] = Idle]
    /\ UNCHANGED <<cycle, approval, approving, runs, assessed, reports>>

Crash(d) ==
    /\ disp[d] # Idle /\ disp' = [disp EXCEPT ![d] = Idle]
    /\ UNCHANGED <<cycle, queue, approval, approving, units, runs, assessed, reports>>

----------------------------------------------------------------------------

Next ==
    \/ RunHuntCycle \/ ValidateHuntTiers \/ CycleCrash
    \/ \E exhausted \in BOOLEAN : RunScheduledCycle(exhausted)
    \/ HunterCoverageOpportunitySource \/ RefreshLiveCoverageDebt
    \/ \E f \in registry : EvaluateFamilyCircuitBreaker(f)
    \/ \E h \in Hyp, decision \in {"APPROVE", "REJECT"} : RecordApproval(h, decision)
    \/ \E a \in Approver : ApproveHuntV3Queue(a) \/ \E h \in Hyp : ReadPending(a, h)
    \/ \E d \in Dispatcher :
         \/ \E q \in Hyp, unit \in Unit, extra \in ExtraFields : Load(d, q, unit, extra)
         \/ Intend(d) \/ Finish(d) \/ Crash(d)
         \/ \E view \in CoreViews, status \in Statuses : Execute(d, view, status)
         \/ \E outcome \in Outcomes : Assess(d, outcome)

Spec == Init /\ [][Next]_vars

----------------------------------------------------------------------------
(* Types. *)
TypeOK ==
    /\ registry \in RegistryChoices
    /\ Len(hyps) <= MaxHyps /\ \A h \in DOMAIN hyps : \E f \in registry : f.id = hyps[h].family
    /\ \A e \in events : e.h \in DOMAIN hyps /\ e.tier \in {"V1", "V2", "V3"}
    /\ \A i \in DOMAIN work : work[i] \in DOMAIN hyps
    /\ queue \in [Hyp -> {"NONE", "PENDING", "APPROVED", "RUN", "BLOCKED"}]
    /\ \A a \in Approver : approving[a] \in 0 .. Len(hyps)
    /\ \A d \in Dispatcher : disp[d].step # "idle" => disp[d].q \in DOMAIN hyps
    /\ \A r \in runs : r.by \in Dispatcher /\ r.unit \in Unit
    /\ \A c \in Matrix : c.state \in CoverageState

(* Whatever a dispatcher had a worker do was asked for by a hypothesis about a
   node in scope that passed the static and the passive check, was queued, and
   has a human's approval of exactly this item: an approval of another item, a
   rejection, a crash or a second dispatcher never lead around it. *)
OnlyApprovedRuns ==
    \A r \in runs :
        /\ NodeOf(hyps[r.q].node).scope = IN_SCOPE
        /\ {Decision(r.q, "V1", "PASSED"), Decision(r.q, "V2", "PASSED"),
            Decision(r.q, "V3", "QUEUED")} \subseteq events
        /\ approval[r.q] = "APPROVE"

(* RUN and BLOCKED are final but for one hole: of two dispatchers that hold the
   same approved item, and may have executed it, the slower one never takes back
   the state the faster one gave it; only an approval that read the item while
   it was PENDING can, since set_state of ApproveHuntV3Queue names no state it
   expects.  No approval begins once the item is settled, so that when those in
   flight have ended it stays settled for good. *)
OnlyStaleApprovalUnsettles ==
    [][\A h \in Hyp : queue[h] \in {"RUN", "BLOCKED"} =>
          /\ \A a \in Approver : approving'[a] = h => approving[a] = h
          /\ \/ queue'[h] = queue[h]
             \/ queue'[h] = "APPROVED" /\ \E a \in Approver : approving[a] = h /\ approving'[a] = 0]_vars

(* RUN and BLOCKED are final, without exception. *)
SettledIsFinal ==
    [][\A h \in Hyp : queue[h] \in {"RUN", "BLOCKED"} => queue'[h] = queue[h]]_queue

(* A unit is not retried blindly: once a dispatcher recorded its INTENT the
   unit counts as attempted, so that however often a dispatcher crashes and is
   started again it executes a unit of an item at most once. *)
UnitOncePerDispatcher ==
    \A r, s \in runs : r.unit # -1 /\ r.q = s.q /\ r.unit = s.unit /\ r.by = s.by => r = s

(* An approved item that is not divided into units reaches an attempt exactly
   once: it is not executed again. *)
ApprovedRunsOnce ==
    \A r, s \in runs : ~Units(r.q) /\ r.q = s.q => r = s
=============================================================================
