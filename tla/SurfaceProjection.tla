-------------------------- MODULE SurfaceProjection --------------------------
(***************************************************************************)
(* What one observation or control event says of the attack surface: the   *)
(* facts, the route templates inferred from them and the frontier of work  *)
(* still to do.  The pure functions of zest/research/discovery.            *)
(*                                                                         *)
(* A path is a sequence of segments [t, v] with t in "word", "n" and       *)
(* "uuid".  A canonical key is the tuple its hash is taken of: facts and   *)
(* frontier items are records whose fields make it up, with detail for the *)
(* text and nth for the number in it ("" and 0 when there is none).        *)
(***************************************************************************)
EXTENDS Integers, Sequences, FiniteSets, SequencesExt

ANONYMOUS_IDENTITY_ID == "ANONYMOUS"

----------------------------------------------------------------------------
(* Facts *)

Fact(kind, origin, path, detail, nth, status) ==
    [kind |-> kind, origin |-> origin, path |-> path, detail |-> detail, nth |-> nth, status |-> status]

Observed(kind, v, path, detail) == Fact(kind, v.origin, path, detail, 0, "OBSERVED")

Derived(kind, v, path, detail, nth) == Fact(kind, v.origin, path, detail, nth, "DERIVED")

instance_token_from_segment(s) == s.t \in {"n", "uuid"}

_instance_from_path(path) == path # <<>> /\ instance_token_from_segment(Last(path))

InstanceFacts(v, path) ==
    IF _instance_from_path(path)
    THEN {Derived("RESOURCE_INSTANCE_CANDIDATE", v, path, "", 0)} ELSE {}

(* A control's href: "" for none, "other" for a scheme that is not http, or
   the origin it leads to. *)
_scope_boundary_from_control(v, c) == c.href \notin {"", v.origin}

ControlFacts(v) ==
    {Observed("CONTROL", v, v.path, c.sig) : c \in Range(v.controls)}
    \cup {Fact("SCOPE_BOUNDARY_CANDIDATE", c.href, v.path, c.sig, 0, "DERIVED")
            : c \in {d \in Range(v.controls) : _scope_boundary_from_control(v, d)}}

form_known(v) == \E c \in Range(v.controls) : c.form

NetworkFacts(v) ==
    UNION {{Observed("HTTP_OPERATION", v, e.path, e.method), Observed("EXACT_PATH", v, e.path, "")}
             \cup InstanceFacts(v, e.path) : e \in v.net}

(* An interaction is bound to the page state before it, if one is known. *)
_workflow_complete(wf) == wf.pre

WorkflowFacts(v, wf) ==
    IF wf.bound /\ _workflow_complete(wf)
    THEN {Derived("WORKFLOW_TRANSITION", v, v.path, "", v.id)} ELSE {}

PageFacts(v, wf) ==
    {Observed("PAGE_STATE", v, v.path, v.fp), Observed("WORKFLOW_STATE", v, v.path, v.identity)}
    \cup ControlFacts(v) \cup (IF form_known(v) THEN {Observed("FORM", v, v.path, "")} ELSE {})
    \cup NetworkFacts(v) \cup InstanceFacts(v, v.path) \cup WorkflowFacts(v, wf)

ObservationFacts(v, wf) ==
    {Observed("ORIGIN", v, <<>>, ""), Observed("EXACT_PATH", v, v.path, "")}
    \cup (IF v.method = "" THEN {} ELSE {Observed("HTTP_OPERATION", v, v.path, v.method)})
    \cup IF v.kind = "BROWSER_PAGE_STATE" THEN PageFacts(v, wf)
         ELSE {Observed("RESPONSE_SHAPE", v, v.path, v.method)} \cup InstanceFacts(v, v.path)

(* The boundary a worker stopped at; nth is its result. *)
project_control_event(e) ==
    {Fact("SCOPE_BOUNDARY_CANDIDATE", "", e.path, e.kind, e.result, "DERIVED")}

----------------------------------------------------------------------------
(* The frontier *)

GOAL_PRIORITY ==
    <<"INSPECT_PATH", "INSPECT_SPA_PATH", "OBSERVE_UNDER_IDENTITY", "CHARACTERIZE_HTTP_OPERATION",
      "INSPECT_CONTROL", "RESOLVE_TRANSITION_RESULT", "RESOLVE_OBJECT_TYPE">>

FrontierItem(goal, origin, path, identity, detail, nth) ==
    [goal |-> goal, origin |-> origin, path |-> path, identity |-> identity, detail |-> detail, nth |-> nth]

(* An operation is characterized once, whoever made the request. *)
dedupe_identity(i) ==
    IF i.goal = "CHARACTERIZE_HTTP_OPERATION" THEN [i EXCEPT !.identity = ""] ELSE i

proposed_capability(i) ==
    IF i.goal = "CHARACTERIZE_HTTP_OPERATION" THEN "http.transaction" ELSE "browser.page"

budget_class(i) ==
    IF \/ i.goal = "INSPECT_CONTROL"
       \/ i.goal = "CHARACTERIZE_HTTP_OPERATION" /\ i.detail \notin {"GET", "HEAD", "OPTIONS"}
    THEN 1 ELSE 0

seed_inspect_path_frontier(origin, path) ==
    FrontierItem("INSPECT_PATH", origin, path, ANONYMOUS_IDENTITY_ID, "", -1)

ObservationItems(v, wf) ==
    IF v.kind # "BROWSER_PAGE_STATE" THEN {}
    ELSE {FrontierItem("INSPECT_CONTROL", v.origin, v.path, v.identity, c.sig, 0) : c \in Range(v.controls)}
         \cup {FrontierItem("CHARACTERIZE_HTTP_OPERATION", v.origin, e.path, v.identity, e.method, 0)
                 : e \in v.net}
         \cup IF wf.bound /\ ~_workflow_complete(wf)
              THEN {FrontierItem("RESOLVE_TRANSITION_RESULT", v.origin, v.path, v.identity, "", 0)}
              ELSE {}

(* What is not on the frontier yet. *)
project_observation_view(v, wf, items) ==
    [facts |-> ObservationFacts(v, wf),
     items |-> {i \in ObservationItems(v, wf) :
                   \A j \in items : dedupe_identity(j) # dedupe_identity(i)}]

LEGAL_TRANSITIONS(latest) ==
    LET blocked == {"BLOCKED_SCOPE", "BLOCKED_AUTH", "BLOCKED_BUDGET"} IN
    CASE latest = "CREATED"                  -> blocked \cup {"ELIGIBLE", "SUPERSEDED"}
      [] latest = "ELIGIBLE"                 -> blocked \cup {"SELECTED", "SUPERSEDED", "NO_NEW_INFORMATION"}
      [] latest = "SELECTED"                 -> blocked \cup {"OBSERVED", "NO_NEW_INFORMATION", "FAILED_TRANSIENT",
                                                   "FAILED_TERMINAL", "AWAITING_REAUTHORIZATION", "SUPERSEDED"}
      [] latest = "FAILED_TRANSIENT"         -> {"ELIGIBLE", "FAILED_TERMINAL", "SUPERSEDED"}
      [] latest = "AWAITING_REAUTHORIZATION" -> {"ELIGIBLE", "BLOCKED_AUTH", "SUPERSEDED"}
      [] latest \in {"NO_NEW_INFORMATION", "BLOCKED_AUTH"} -> {"ELIGIBLE", "SUPERSEDED"}
      [] latest = "SUPERSEDED"               -> {}
      [] OTHER                               -> {"SUPERSEDED"}

legal_frontier_transition(events, next) ==
    IF events = <<>> THEN next = "CREATED" ELSE next \in LEGAL_TRANSITIONS(Last(events))

_goal_rank(i) == CHOOSE n \in DOMAIN GOAL_PRIORITY : GOAL_PRIORITY[n] = i.goal

(* Among equals the order is that of a hash: any of them may be first. *)
select_eligible_frontier(log, max_side_effect) ==
    LET eligible == {i \in DOMAIN log : budget_class(i) <= max_side_effect /\ Last(log[i]) = "ELIGIBLE"}
        rank(i) == <<budget_class(i), _goal_rank(i)>>
        before(a, b) == a[1] < b[1] \/ (a[1] = b[1] /\ a[2] < b[2])
    IN {i \in eligible : \A j \in eligible : ~before(rank(j), rank(i))}

----------------------------------------------------------------------------
(* Route templates *)

MIN_TEMPLATE_PATHS == 3

_placeholder_for(s) == IF instance_token_from_segment(s) THEN [t |-> s.t, v |-> "*"] ELSE s

(* Paths of one family have one form once their tokens are replaced. *)
_template_family(path) == [n \in DOMAIN path |-> _placeholder_for(path[n])]

(* Exactly one segment differs; it is a token of the same kind in each path,
   for the paths are of one family. *)
route_template_from_paths(paths) ==
    LET differs(n) == Cardinality({p[n] : p \in paths}) > 1
        first == CHOOSE p \in paths : TRUE
        varying == {n \in DOMAIN first : differs(n)}
    IN IF Cardinality(paths) >= MIN_TEMPLATE_PATHS /\ Cardinality(varying) = 1
       THEN {[n \in DOMAIN first |-> IF n \in varying THEN _placeholder_for(first[n]) ELSE first[n]]}
       ELSE {}

admit_route_templates(paths) ==
    LET tokens == {p \in paths : _template_family(p) # p}
        family(p) == {q \in tokens : _template_family(q) = _template_family(p)}
    IN UNION {{[template |-> t, paths |-> family(p)] : t \in route_template_from_paths(family(p))} : p \in tokens}

route_template_drafts_from_facts(facts, origin) ==
    {[origin |-> origin, template |-> a.template, paths |-> a.paths]
        : a \in admit_route_templates({f.path : f \in {g \in facts : g.kind = "EXACT_PATH" /\ g.origin = origin}})}

(* A template is inferred, within the run, from three paths or more. *)
admit_discovery_inference(d) == Cardinality(d.paths) >= MIN_TEMPLATE_PATHS

(* A template that is known keeps the paths it was admitted with. *)
_admit_templates(facts, known) ==
    {d \in UNION {route_template_drafts_from_facts(facts, o) : o \in {f.origin : f \in facts}} :
        /\ admit_discovery_inference(d)
        /\ \A k \in known : <<k.origin, k.template>> # <<d.origin, d.template>>}
=============================================================================
