----------------------------- MODULE HuntCoverage -----------------------------
(***************************************************************************)
(* Which hunter families apply to which nodes of the attack surface, what  *)
(* coverage is still owed, and in which order it is recommended: the pure  *)
(* functions of zest/research/selection.py, research/coverage,             *)
(* research/scheduler and research/validation.                             *)
(*                                                                         *)
(* A node is [key, kind, scope, ids, attrs, signals]; its key and the ids  *)
(* of families and identities are numbers, of which only the order         *)
(* matters; identity 0 is ANONYMOUS.  A graph is [nodes, edges].  A family *)
(* is [id, name, tier, enabled, kinds, scope, absent, required, attrs,     *)
(* facts, edge, ...]; "NONE" and {} stand for a condition it does not set, *)
(* attrs has, for each attribute it names, the values that will do.        *)
(***************************************************************************)
EXTENDS Integers, Sequences, FiniteSets, SequencesExt

ANONYMOUS_IDENTITY == 0

IN_SCOPE == "IN_SCOPE"

----------------------------------------------------------------------------
(* Applicable families *)

_node_has_edge_kind(n, g, kind) ==
    \E e \in g.edges : e.kind = kind /\ n.key \in {e.from, e.to}

families_for_node(n, g, registry) ==
    {f \in registry :
        /\ f.enabled /\ n.kind \in f.kinds
        /\ f.scope \in {"NONE", n.scope}
        /\ f.absent = "NONE" \/ ~_node_has_edge_kind(n, g, f.absent)
        /\ f.required = "NONE" \/ _node_has_edge_kind(n, g, f.required)
        /\ \A allowed \in f.attrs : allowed \cap n.attrs # {}}

_kind_matched_families(n, registry) == {f \in registry : f.enabled /\ n.kind \in f.kinds}

_identity_ids_for_node(n) == IF n.ids = {} THEN {ANONYMOUS_IDENTITY} ELSE n.ids

----------------------------------------------------------------------------
(* Static and passive validation *)

_v1_static_check(n, f, g) == f \in families_for_node(n, g, {f})

_v2_passive_check(n, f, g) ==
    /\ f.facts = {} \/ n.kind \in f.facts
    /\ f.edge = "NONE" \/ _node_has_edge_kind(n, g, f.edge)

----------------------------------------------------------------------------
(* Coverage debt *)

Tier == {"UNTESTED", "V1", "V2", "V3_QUEUED", "COVERED"}

CoverageState ==
    {"UNTESTED", "HYPOTHESIZED", "V1_PASSED", "V2_PASSED", "V3_QUEUED", "COVERED", "NOT_APPLICABLE"}

_tier_rank(t) ==
    CASE t = "V1" -> 1 [] t = "V2" -> 2 [] t = "V3_QUEUED" -> 3 [] t = "COVERED" -> 4 [] OTHER -> 0

_tier_to_state(t) ==
    CASE t = "V1" -> "V1_PASSED" [] t = "V2" -> "V2_PASSED" [] t = "V3_QUEUED" -> "V3_QUEUED"
      [] t = "COVERED" -> "COVERED" [] OTHER -> "UNTESTED"

(* The event types that raise a hypothesis's tier in the coverage view, and
   the tier decisions as hunt_validation names them. *)
_TIER_PASS_EVENTS(event) ==
    CASE event = "HYPOTHESIS_TIER_V1_PASSED" -> "V1"
      [] event = "HYPOTHESIS_TIER_V2_PASSED" -> "V2"
      [] event = "HYPOTHESIS_TIER_V3_QUEUED" -> "V3_QUEUED"
      [] OTHER                               -> "UNTESTED"

_event_type_for_tier(tier, outcome) ==
    CASE tier = "V1" -> IF outcome = "PASSED" THEN "HUNT_TIER_V1_PASSED" ELSE "HUNT_TIER_V1_REJECTED"
      [] tier = "V2" -> IF outcome = "PASSED" THEN "HUNT_TIER_V2_PASSED" ELSE "HUNT_TIER_V2_REJECTED"
      [] OTHER       -> IF outcome = "QUEUED" THEN "HUNT_TIER_V3_QUEUED" ELSE "HUNT_TIER_DECISION"

_highest_tier_from_events(events) ==
    LET tiers == {"UNTESTED"} \cup {_TIER_PASS_EVENTS(_event_type_for_tier(e.tier, e.outcome)) : e \in events}
    IN CHOOSE t \in tiers : \A u \in tiers : _tier_rank(u) <= _tier_rank(t)

(***************************************************************************)
(* hyps: the hypotheses of the run in the order they were made; events:    *)
(* the tier decisions [h, tier, outcome].  Every generated hypothesis      *)
(* carries its identity, so that a view is bound to one cell, and a later  *)
(* view of a cell replaces an earlier one.                                 *)
(***************************************************************************)
build_coverage_hypothesis_view(hyps, events) ==
    [h \in 1 .. Len(hyps) |->
        [cell |-> hyps[h], tier |-> _highest_tier_from_events({e \in events : e.h = h})]]

CellState(cell, views) ==
    LET of == {h \in DOMAIN views : views[h].cell = cell} IN
    IF of = {} THEN "UNTESTED"
    ELSE LET last  == CHOOSE h \in of : \A k \in of : k <= h
             state == _tier_to_state(views[last].tier)
         IN IF state = "UNTESTED" THEN "HYPOTHESIZED" ELSE state

Cell(n, f, i) == [node |-> n.key, family |-> f.id, identity |-> i]

compute_coverage_debt(g, registry, views) ==
    UNION {IF n.scope # IN_SCOPE
           THEN {[cell |-> Cell(n, f, ANONYMOUS_IDENTITY), state |-> "NOT_APPLICABLE"]
                    : f \in _kind_matched_families(n, registry)}
           ELSE {[cell |-> Cell(n, f, i), state |-> CellState(Cell(n, f, i), views)]
                    : f \in families_for_node(n, g, registry), i \in _identity_ids_for_node(n)}
           : n \in g.nodes}

NoDebt == {"COVERED", "NOT_APPLICABLE"}

total_debt(matrix) == Cardinality({c \in matrix : c.state \notin NoDebt})

(* A snapshot keeps the matrix by its hash; the empty sequence is none. *)
assess_live_coverage_debt(previous, current) ==
    IF previous = <<>> THEN "LIVE_COVERAGE_BASELINE_CREATED"
    ELSE LET delta == total_debt(current) - total_debt(previous[1]) IN
         CASE current = previous[1]               -> "MATRIX_UNCHANGED"
           [] current # previous[1] /\ delta > 0 -> "COVERAGE_DEBT_INCREASED"
           [] delta < 0                           -> "COVERAGE_DEBT_DECREASED"
           [] OTHER                               -> "COVERAGE_DEBT_REBALANCED"

----------------------------------------------------------------------------
(* The order of recommendation *)

STATE_WEIGHT(state) ==
    CASE state = "UNTESTED" -> 50 [] state = "HYPOTHESIZED" -> 40 [] state = "V1_PASSED" -> 30
      [] state = "V2_PASSED" -> 20 [] state = "V3_QUEUED" -> 10 [] OTHER -> 0

Clamp(x, low, high) == IF x < low THEN low ELSE IF x > high THEN high ELSE x

(* stats: [supported, falsified], both 0 for a family without history. *)
family_success_bonus(stats) == Clamp(5 * (stats.supported - stats.falsified), -20, 20)

family_exploration_bonus(stats) ==
    IF stats.supported < 2 /\ stats.falsified = 0 THEN 5 ELSE 0

(* age: whole hours since the last activity on the node, -1 when unknown. *)
freshness_bonus(age) == IF age = -1 \/ age > 24 THEN 0 ELSE 24 - age

budget_suitability_bonus(exhausted, state) ==
    CASE ~exhausted -> 0
      [] exhausted /\ state \in {"V2_PASSED", "V3_QUEUED"} -> -20
      [] OTHER -> 5

score_cell(c, stats, age, exhausted) ==
    IF c.state \in NoDebt THEN 0
    ELSE STATE_WEIGHT(c.state) + family_success_bonus(stats) + family_exploration_bonus(stats)
           + freshness_bonus(age) + budget_suitability_bonus(exhausted, c.state)

Before(c, d) ==
    \/ c.node < d.node
    \/ c.node = d.node /\ c.identity < d.identity
    \/ c.node = d.node /\ c.identity = d.identity /\ c.family < d.family

(* Highest score first, ties by node, identity and family; stats is a function
   of the family and age one of the node. *)
schedule(matrix, stats, age, exhausted) ==
    LET score(c) == score_cell(c, stats[c.cell.family], age[c.cell.node], exhausted)
        before(c, d) == \/ score(c) > score(d)
                        \/ score(c) = score(d) /\ Before(c.cell, d.cell)
    IN SetToSortSeq({c \in matrix : c.state \notin NoDebt}, before)

(* The first max of the eligible cells; only then are those already proposed
   left out. *)
HunterCoverageCandidates(scored, max, seen) ==
    LET eligible == SelectSeq(scored, LAMBDA c : c.state \in {"UNTESTED", "HYPOTHESIZED"})
        taken == SubSeq(eligible, 1, IF Len(eligible) < max THEN Len(eligible) ELSE max)
    IN {taken[i].cell : i \in DOMAIN taken} \ seen

----------------------------------------------------------------------------
(* The circuit breaker of a family *)

(***************************************************************************)
(* The latest outcome of each hypothesis counts.  One validation writes    *)
(* its decisions with one timestamp, and the order among them is that of   *)
(* their random ids: any of them may be the latest.                        *)
(***************************************************************************)
_family_outcome_counts(events) ==
    LET told == {e \in events : e.outcome \in {"PASSED", "REJECTED"}}
        hs   == {e.h : e \in told}
        choices == {s \in [hs -> {"PASSED", "REJECTED"}] :
                        \A h \in hs : \E e \in told : e.h = h /\ e.outcome = s[h]}
    IN {[supported |-> Cardinality({h \in hs : s[h] = "PASSED"}),
         bad       |-> Cardinality({h \in hs : s[h] = "REJECTED"})] : s \in choices}

(* threshold: the share of bad outcomes in per cent. *)
evaluate_family_circuit_breaker(counts, minimum, threshold) ==
    LET total == counts.supported + counts.bad IN
    IF total >= minimum /\ 100 * counts.bad >= threshold * total THEN "THROTTLE" ELSE "ALLOW"
=============================================================================
