----------------------------- MODULE CoreDecision -----------------------------
(***************************************************************************)
(* Core: the pure decisions about one execution (zest/core).  Every        *)
(* operator is a function of the views the application hands to Core.  A   *)
(* check returns "ALLOWED" or the reason code it refuses with.             *)
(***************************************************************************)
EXTENDS Integers, FiniteSets

SideEffectLevel == 0 .. 3

Effect == {"ALLOW", "DENY", "OUT_OF_SCOPE", "UNKNOWN"}

----------------------------------------------------------------------------
(* Capability *)

(***************************************************************************)
(* A view is the claim of the application: the capability and the action   *)
(* it names, whether its version and fingerprint are the registry's, the   *)
(* minimum it believes in and the level it will use.  def is what the      *)
(* registry has: class, actions with their minimum and maximum.            *)
(***************************************************************************)
CapabilityView == [known : BOOLEAN, action : BOOLEAN, version : BOOLEAN,
                   fingerprint : BOOLEAN, minimum : SideEffectLevel,
                   effective : SideEffectLevel]

NoCapability == [known |-> FALSE]

(* The levels, which worker and integration entries are both held to. *)
CheckLevels(v, def, level) ==
    CASE v.minimum # def.min \/ v.effective < def.min -> "RISK_UNDERSTATEMENT"
      [] v.minimum = def.min /\ v.effective > def.max -> "RISK_EXCEEDS_CAPABILITY"
      [] OTHER -> IF v.effective # level THEN "SIDE_EFFECT_BINDING_MISMATCH" ELSE "ALLOWED"

_check_integration_allowlist(v, def, level) ==
    CASE def.class # "integration" -> "UNKNOWN_CAPABILITY"
      [] def.class = "integration" /\ ~v.action -> "UNKNOWN_ACTION"
      [] OTHER -> CheckLevels(v, def, level)

check_capability_authorization(v, def, level) ==
    CASE v = NoCapability -> "CAPABILITY_AUTHORIZATION_MISSING"
      [] v # NoCapability /\ ~v.known -> _check_integration_allowlist(v, def, level)
      [] OTHER ->
         IF def.class # "worker"   THEN "UNKNOWN_CAPABILITY"
         ELSE IF ~v.action         THEN "UNKNOWN_ACTION"
         ELSE IF ~v.version        THEN "UNSUPPORTED_CAPABILITY_VERSION"
         ELSE IF ~v.fingerprint    THEN "DEFINITION_FINGERPRINT_MISMATCH"
         ELSE CheckLevels(v, def, level)

(* capability_view_for_plan: a plan that persisted version and fingerprint is
   held to them; a legacy plan gets the current ones when its level and its
   arguments still fit.  The alternative is a CapabilityBindingError. *)
BindingError(p, def) ==
    \/ ~p.known \/ ~p.action \/ def.class # "worker"
    \/ ~p.bound /\ (p.level < def.min \/ p.level > def.max \/ p.args # "valid")

capability_view_for_plan(p, def) ==
    [known |-> TRUE, action |-> TRUE, version |-> ~p.bound \/ p.version,
     fingerprint |-> ~p.bound \/ p.version, minimum |-> def.min, effective |-> p.level]

----------------------------------------------------------------------------
(* Authorization source, scope, budget, approval *)

check_authorization(source) ==
    CASE source = "NONE"   -> "AUTHORIZATION_MISSING"
      [] source = "ACTIVE" -> "ALLOWED"
      [] OTHER             -> "AUTHORIZATION_INACTIVE"

(* effects: those of the matching rules. *)
check_scope(effects, ambiguous) ==
    CASE effects \cap {"DENY", "OUT_OF_SCOPE"} # {} ->
             [decision |-> "DENY", reason |-> "SCOPE_DENIED"]
      [] effects \cap {"DENY", "OUT_OF_SCOPE"} = {} /\ ambiguous ->
             [decision |-> "REVIEW", reason |-> "SCOPE_AMBIGUOUS"]
      [] OTHER ->
         IF "ALLOW" \in effects THEN [decision |-> "ALLOW", reason |-> "ALLOWED"]
         ELSE IF "UNKNOWN" \in effects
         THEN [decision |-> "DENY", reason |-> "SCOPE_UNKNOWN_CLASSIFICATION"]
         ELSE [decision |-> "DENY", reason |-> "SCOPE_NOT_EXPLICITLY_ALLOWED"]

Dimension == {"requests", "tool_calls", "runtime_ms", "concurrency"}

(* A dimension that is used up to its limit is exhausted: 0 allows nothing. *)
check_budget(issued, usage, same) ==
    CASE ~same -> "BUDGET_MISMATCH"
      [] same /\ (\E d \in Dimension : usage[d] >= issued[d]) -> "BUDGET_EXHAUSTED"
      [] OTHER -> "ALLOWED"

(* allocate_experiment_budget raises unless the child fits its parent. *)
AllocationFits(parent, child) == \A d \in Dimension : child[d] <= parent[d]

check_program_daily_budget(spent, limit, same) ==
    CASE ~same -> "BUDGET_MISMATCH"
      [] same /\ spent >= limit -> "BUDGET_EXHAUSTED"
      [] OTHER -> "ALLOWED"

(* An unknown model has no price; a missing token count is none. *)
estimate_cost(price, in, out) == (in * price.in + out * price.out) \div 1000000

NoApproval == [recorded |-> FALSE, actor |-> "NONE"]

check_approval(a, subject) ==
    CASE a = NoApproval -> "APPROVAL_REQUIRED"
      [] a # NoApproval /\ ~a.recorded -> "APPROVAL_NOT_RECORDED"
      [] OTHER -> IF a.actor # "HUMAN_OPERATOR"   THEN "APPROVAL_INVALID_ACTOR"
                  ELSE IF a.subject # subject     THEN "APPROVAL_SUBJECT_MISMATCH"
                  ELSE IF a.decision = "REJECT"   THEN "APPROVAL_REJECTED"
                  ELSE "ALLOWED"

----------------------------------------------------------------------------
(* The decision *)

(***************************************************************************)
(* ExecutionRequest r: the results of the four checks, the level and the   *)
(* approval with the subject it must name.                                 *)
(***************************************************************************)
(* Faulty variant: a human's approval lets level 3 pass. *)
ExecutionApprovedLevel3(r) ==
    LET approval == check_approval(r.approval, r.subject) IN
    CASE r.capability # "ALLOWED"    -> "DENY"
      [] r.capability = "ALLOWED" /\ r.source # "ALLOWED" -> "DENY"
      [] OTHER ->
         IF r.scope.decision = "DENY" \/ r.budget # "ALLOWED" THEN "DENY"
         ELSE IF r.scope.decision = "REVIEW" THEN "REQUIRE_HUMAN_REVIEW"
         ELSE IF r.level \in {0, 1} \/ approval = "ALLOWED" THEN "ALLOW"
         ELSE IF approval = "APPROVAL_REQUIRED" THEN "REQUIRE_HUMAN_REVIEW" ELSE "DENY"

evaluate_execution(r) ==
    LET approval == check_approval(r.approval, r.subject) IN
    CASE r.capability # "ALLOWED"    -> "DENY"
      [] r.capability = "ALLOWED" /\ r.source # "ALLOWED" -> "DENY"
      [] OTHER ->
         IF r.scope.decision = "DENY" \/ r.budget # "ALLOWED" \/ r.level = 3 THEN "DENY"
         ELSE IF r.scope.decision = "REVIEW" THEN "REQUIRE_HUMAN_REVIEW"
         ELSE IF r.level \in {0, 1} \/ approval = "ALLOWED" THEN "ALLOW"
         ELSE IF approval = "APPROVAL_REQUIRED" THEN "REQUIRE_HUMAN_REVIEW" ELSE "DENY"

(* What an experiment becomes when Core refuses it. *)
_deny_experiment_state(budget) ==
    IF budget = "BUDGET_EXHAUSTED" THEN "BUDGET_EXHAUSTED" ELSE "BLOCKED"

----------------------------------------------------------------------------
(* Rate limit, redirects, retries *)

(* Faulty variant: one attempt too many in a window. *)
RateLimitLoose(profile, times, now) ==
    /\ profile.max # 0 /\ profile.window # 0
    /\ Cardinality({a \in DOMAIN times : times[a] > now - profile.window /\ times[a] <= now})
         <= profile.max

(* times[a]: when attempt a was authorized. *)
check_rate_limit(profile, times, now) ==
    /\ profile.max # 0 /\ profile.window # 0
    /\ Cardinality({a \in DOMAIN times : times[a] > now - profile.window /\ times[a] <= now})
         < profile.max

(* The method a redirect would be repeated with. *)
proposed_redirect_method(method, status) ==
    CASE status \in {307, 308}      -> method
      [] status \in {301, 302, 303} ->
             IF method = "HEAD" /\ status # 303 THEN "HEAD" ELSE "GET"
      [] OTHER                      -> method

(* An attempt: its state, whether the target was contacted, its level and
   whether it was ever dispatched. *)
classify_retry_semantics(a) ==
    CASE a.state = "COMPLETED" -> "NON_RETRYABLE"
      [] a.state # "COMPLETED" /\
             (a.state \in {"DISPATCHING", "UNKNOWN_OUTCOME"} \/ a.dispatched) ->
             "UNSAFE_UNKNOWN_OUTCOME"
      [] OTHER ->
         IF a.contact = "UNKNOWN" THEN "HUMAN_DECISION_REQUIRED"
         ELSE IF a.level > 0 THEN "REAUTHORIZE_THEN_RETRY"
         ELSE IF a.contact = "NOT_CONTACTED"
                 /\ a.state \in {"AUTHORIZED", "FAILED", "TIMED_OUT", "CANCELLED"}
         THEN "SAFE_RETRY"
         ELSE "HUMAN_DECISION_REQUIRED"
=============================================================================
