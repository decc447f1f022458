-------------------------- MODULE AuthorizedExecution --------------------------
(***************************************************************************)
(* One run's experiments on their way to the target: the authorization     *)
(* transaction (scope, rate limit, Core, session binding), the dispatch    *)
(* with its charge, the worker's requests, the record of the outcome and   *)
(* the ingestion with its effects on the sessions.  The run's lease makes  *)
(* the executor one process; it may crash between any two steps, and loses *)
(* the grant and the session material it holds in memory: what is left     *)
(* AUTHORIZED is dispatched again without its envelope and its secret.     *)
(***************************************************************************)
EXTENDS CoreDecision, HttpWorkers

CONSTANTS
    Exp,           \* experiments of the run
    Session,       \* session contexts
    Before,        \* the session rows that other runs have left
    PlanChoices,   \* the persisted plans: functions from Exp
    RuleChoices,   \* compiled scopes: sequences of rules
    Subresources,  \* what a page may ask the browser for
    Policy,        \* "program" or "fixture"
    Profile,       \* rate limit profile [max, window]
    Issued,        \* the budget of the experiments, a function of Dimension
    BROWSER_PAGE_MAX_NETWORK_REQUESTS,
    MaxTime        \* bound on the clock

(* A URL as it is sent: it has a path, if only "/". *)
RawUrl == [scheme : STRING, user : BOOLEAN, host : Seq(STRING), port : Nat,
           path : {p \in Seq(STRING) : p # <<>> /\ p[1] = "/"}, odd : STRING]

ASSUME BoundsAssumption ==
    /\ IsFiniteSet(Exp) /\ "NONE" \notin Session
    /\ Profile \in [max : Nat, window : Nat]
    /\ BROWSER_PAGE_MAX_NETWORK_REQUESTS \in Nat /\ MaxTime \in Nat

(* The origin that a session is bound to; a port that is not written is not
   the scheme's (_origin_key). *)
Origin(u) == [scheme |-> u.scheme, host |-> u.host, port |-> u.port]

NoSession == [state |-> "NONE", identity |-> "NONE", run |-> "NONE", auth |-> "NONE",
              origin |-> [scheme |-> "NONE", host |-> NoHost, port |-> 0], expires |-> 0]

(* A row: whose session, of which run and authentication profile, at which
   origin, and when it expires (0: never, as every writer leaves it). *)
SessionRow == [state : {"NONE", "AUTHENTICATING", "ACTIVE", "FAILED", "EXPIRED", "REVOKED"},
               identity : STRING, run : STRING, auth : STRING,
               origin : [scheme : STRING, host : Seq(STRING), port : Nat], expires : Nat]

ASSUME SessionAssumption ==
    /\ Before \in [Session -> SessionRow]
    /\ \A s \in Session : Before[s] = NoSession \/ Before[s].run # "this"

(* What the schema of a plan's arguments and the compiler of rules admit. *)
ASSUME InputAssumption ==
    /\ \A p \in PlanChoices : \A e \in Exp :
          /\ p[e].url \in RawUrl /\ p[e].identity \in STRING /\ p[e].mode \in STRING
          /\ p[e].auth \in STRING
          /\ p[e].session \in Session \cup {"NONE"}
          /\ p[e].cap = "http.authentication" => p[e].session \in Session
    /\ Subresources \subseteq RawUrl
    /\ \A rules \in RuleChoices : \A i \in DOMAIN rules : rules[i].prefix \in Seq(STRING)

VARIABLES
    now, plan, scope,
    exp,       \* experiment execution states
    att,       \* attempt states
    authAt,    \* when an attempt was authorized, -1: never
    session,   \* session context rows
    material,  \* sessions whose cookie is in the process's store
    charge,    \* requests charged to each experiment
    sent,      \* requests that reached the network, with their experiment
    count,     \* how many, per experiment
    result,    \* ingested worker results
    proc       \* the executor: step, experiment, envelope, secret, index, answer

vars == <<now, plan, scope, exp, att, authAt, session, material, charge, sent, count, result,
          proc>>

rows == <<exp, att, authAt, session, charge, result>>

HTTP_SCOPE_CAPABILITIES ==
    {"http.transaction", "http.authentication", "browser.page",
     "http.authorization.differential", "http.state_transition", "http.raw_exchange"}

TERMINAL_EXPERIMENT_STATES ==
    {"BLOCKED", "BUDGET_EXHAUSTED", "EXECUTION_SUCCEEDED", "EXECUTION_FAILED", "CANCELLED"}

(* The packaged definitions: an action has one level, and none is above 1. *)
Definition(cap) ==
    LET level == IF cap \in {"http.authentication", "http.state_transition"} THEN 1 ELSE 0
    IN [class |-> "worker", min |-> level, max |-> level]

NoAnswer == [status |-> "NONE", answer |-> "NONE"]

Idle == [step |-> "idle", exp |-> "NONE", envelope |-> NoEnvelope, secret |-> FALSE,
         index |-> 0, reply |-> NoAnswer]

Init ==
    /\ now = 1 /\ plan \in PlanChoices /\ scope \in RuleChoices
    /\ exp = [e \in Exp |-> "PLANNED"] /\ att = [e \in Exp |-> "NONE"]
    /\ authAt = [e \in Exp |-> -1]
    /\ session = Before /\ material = {s \in Session : Before[s].state = "ACTIVE"}
    /\ charge = [e \in Exp |-> 0] /\ sent = {} /\ count = [e \in Exp |-> 0]
    /\ result = [e \in Exp |-> NoAnswer]
    /\ proc = Idle

Tick ==
    /\ now < MaxTime /\ now' = now + 1
    /\ UNCHANGED <<plan, scope, rows, material, sent, count, proc>>

----------------------------------------------------------------------------
(* Authorization *)

Candidate(p) == normalize_url(p.url)

Check(p) == evaluate_scope_candidate(Candidate(p), scope, now)

(* authorize_http_transaction_plan: malformed arguments reject the input. *)
InputRejected(p) == p.cap \in HTTP_SCOPE_CAPABILITIES /\ p.args # "valid"

HttpAccepted(p) == p.cap \in HTTP_SCOPE_CAPABILITIES => Check(p).decision = "ALLOW"

Envelope(p) ==
    IF p.cap \in HTTP_SCOPE_CAPABILITIES
    THEN derive_authorized_network_envelope(Candidate(p), scope, Check(p),
                                            derive_loopback_only(Policy, scope))
    ELSE NoEnvelope

Sum(f) == LET S[T \in SUBSET DOMAIN f] ==
                  IF T = {} THEN 0 ELSE LET x == CHOOSE x \in T : TRUE IN f[x] + S[T \ {x}]
          IN S[DOMAIN f]

(* The ledger's totals; nothing is charged for runtime or concurrency. *)
Usage == [requests   |-> Sum(charge),
          tool_calls |-> Cardinality({e \in Exp : charge[e] > 0}),
          runtime_ms |-> 0, concurrency |-> 0]

CoreScope(p) ==
    IF p.cap \in HTTP_SCOPE_CAPABILITIES
    THEN LET view == scope_evaluation_from_compiled_check(Check(p), scope)
         IN check_scope(view.effects, view.ambiguous)
    ELSE check_scope({"ALLOW"}, FALSE)

CoreBudget == check_budget(Issued, Usage, TRUE)

CoreCapability(p) ==
    check_capability_authorization(capability_view_for_plan(p, Definition(p.cap)),
                                   Definition(p.cap), p.level)

Core(p) ==
    evaluate_execution(
        [capability |-> CoreCapability(p), source |-> check_authorization("ACTIVE"),
         scope |-> CoreScope(p), budget |-> CoreBudget, level |-> p.level,
         approval |-> p.approval, subject |-> "target"])

UsesSession(p) == p.cap \in {"http.transaction", "browser.page"} /\ p.session # "NONE"

(* The row of a login that is authorized now. *)
authenticating_session_record(p) ==
    [state |-> "AUTHENTICATING", identity |-> p.identity, run |-> "this", auth |-> p.auth,
     origin |-> Origin(p.url), expires |-> 0]

(* The row can be used now, and its cookie is in the store. *)
Usable(p) ==
    LET row == session[p.session] IN
    IF \/ row.origin # Origin(p.url) \/ (row.expires # 0 /\ row.expires <= now)
       \/ row.state # "ACTIVE"
    THEN "REFUSE"
    ELSE IF p.session \in material THEN "ACCEPT" ELSE "REJECT"

(* Faulty variant: whose session it is does not matter. *)
BindAnyIdentity(p) ==
    LET row == session[p.session] IN
    IF \/ p.identity = "NONE" \/ row = NoSession
       \/ row.run # "this" \/ ~p.target \/ row.auth # p.auth
    THEN "REJECT" ELSE Usable(p)

_bind_existing_session(p) ==
    LET row == session[p.session] IN
    IF \/ p.identity = "NONE" \/ row = NoSession \/ row.identity # p.identity
       \/ row.run # "this" \/ ~p.target \/ row.auth # p.auth
    THEN "REJECT" ELSE Usable(p)

_bind_login(p) == IF p.identity = "NONE" \/ ~p.target THEN "REJECT" ELSE "ACCEPT"

bind_identity_session(p) ==
    CASE p.cap = "http.authentication" -> _bind_login(p)
      [] UsesSession(p)                -> _bind_existing_session(p)
      [] OTHER                         -> "ACCEPT"

(* What is checked before Core is asked; otherwise nothing is stored. *)
Authorizable(e) ==
    /\ proc = Idle /\ att[e] = "NONE" /\ exp[e] \notin TERMINAL_EXPERIMENT_STATES
    /\ ~BindingError(plan[e], Definition(plan[e].cap)) /\ ~InputRejected(plan[e])

Times == [e \in {x \in Exp : authAt[x] # -1} |-> authAt[e]]

WithinRate == check_rate_limit(Profile, Times, now)

RateLimited(e) ==
    /\ Authorizable(e) /\ ~WithinRate
    /\ exp' = [exp EXCEPT ![e] = "BLOCKED"]
    /\ UNCHANGED <<now, plan, scope, att, authAt, session, material, charge, sent, count, result,
                   proc>>

(* The decision after the HTTP gate and the session binding.  No packaged
   action has level 2 and a scope in review fails the gate, so that the
   answer REQUIRE_HUMAN_REVIEW is never Core's here. *)
Decision(p) ==
    CASE ~HttpAccepted(p) -> "DENY"
      [] HttpAccepted(p) /\ Core(p) = "ALLOW" /\ bind_identity_session(p) # "ACCEPT" -> "DENY"
      [] OTHER -> Core(p)

Decidable(e) == Authorizable(e) /\ WithinRate /\ bind_identity_session(plan[e]) # "REJECT"

Deny(e) ==
    /\ Decidable(e) /\ Decision(plan[e]) = "DENY"
    /\ exp' = [exp EXCEPT ![e] = _deny_experiment_state(
                                     IF HttpAccepted(plan[e]) /\ CoreCapability(plan[e]) = "ALLOWED"
                                     THEN CoreBudget ELSE "ALLOWED")]
    /\ UNCHANGED <<now, plan, scope, att, authAt, session, material, charge, sent, count, result,
                   proc>>

(* A login also inserts its session row, which must not exist. *)
Allow(e) ==
    LET p == plan[e] IN
    /\ Decidable(e) /\ Decision(p) = "ALLOW"
    /\ IF p.cap = "http.authentication"
       THEN /\ session[p.session] = NoSession
            /\ session' = [session EXCEPT ![p.session] = authenticating_session_record(p)]
       ELSE UNCHANGED session
    /\ att' = [att EXCEPT ![e] = "AUTHORIZED"] /\ exp' = [exp EXCEPT ![e] = "READY"]
    /\ authAt' = [authAt EXCEPT ![e] = now]
    /\ proc' = [Idle EXCEPT !.step = "granted", !.exp = e, !.envelope = Envelope(p),
                            !.secret = p.cap = "http.authentication" \/ UsesSession(p)]
    /\ UNCHANGED <<now, plan, scope, material, charge, sent, count, result>>

----------------------------------------------------------------------------
(* Dispatch *)

Least(a, b) == IF a <= b THEN a ELSE b

Remaining == Issued["requests"] - Usage["requests"]

(* Faulty variant: every capability but the browser's is one request. *)
ConsumptionOfOne(p) ==
    IF p.cap = "browser.page" THEN Least(Remaining, BROWSER_PAGE_MAX_NETWORK_REQUESTS) ELSE 1

_request_consumption_amount(p) ==
    CASE p.cap = "http.raw_exchange" ->
             IF p.profile = "http1_connection_reuse" THEN 2 ELSE 1
      [] p.cap = "browser.page" -> Least(Remaining, BROWSER_PAGE_MAX_NETWORK_REQUESTS)
      [] OTHER -> 1

(* The charge fits, and a browser page has something left to spend. *)
Affordable(p) ==
    /\ Usage["tool_calls"] + 1 <= Issued["tool_calls"]
    /\ p.cap = "browser.page" => Remaining \in Nat \ {0}
    /\ _request_consumption_amount(p) <= Remaining

(* The next tick after a crash takes up an attempt that is AUTHORIZED, unless
   one is under way or lost; the request is built anew from the plan. *)
_resume_authorized(e) ==
    /\ proc = Idle /\ att[e] = "AUTHORIZED"
    /\ \A x \in Exp : att[x] \notin {"DISPATCHING", "UNKNOWN_OUTCOME"}
    /\ proc' = [Idle EXCEPT !.step = "granted", !.exp = e]
    /\ UNCHANGED <<now, plan, scope, rows, material, sent, count>>

Dispatch ==
    LET e == proc.exp IN
    /\ proc.step = "granted" /\ att[e] = "AUTHORIZED" /\ Affordable(plan[e])
    /\ att' = [att EXCEPT ![e] = "DISPATCHING"] /\ exp' = [exp EXCEPT ![e] = "RUNNING"]
    /\ charge' = [charge EXCEPT ![e] = _request_consumption_amount(plan[e])]
    /\ proc' = [proc EXCEPT !.step = "invoke"]
    /\ UNCHANGED <<now, plan, scope, authAt, session, material, sent, count, result>>

DispatchDenied ==
    /\ proc.step = "granted" /\ ~Affordable(plan[proc.exp])
    /\ proc' = Idle
    /\ UNCHANGED <<now, plan, scope, rows, material, sent, count>>

(* A dispatch that was under way when the process died is never repeated. *)
MarkUnknown(e) ==
    /\ proc = Idle /\ att[e] = "DISPATCHING"
    /\ att' = [att EXCEPT ![e] = "UNKNOWN_OUTCOME"]
    /\ UNCHANGED <<now, plan, scope, exp, authAt, session, material, charge, sent, count, result,
                   proc>>

----------------------------------------------------------------------------
(* The worker *)

WorkerRequest(e) ==
    [envelope |-> proc.envelope, url |-> plan[e].url, complete |-> TRUE,
     session |-> plan[e].session, secret |-> proc.secret, action |-> "read",
     method |-> plan[e].method, header |-> "none", body |-> "none",
     mode |-> plan[e].mode, profile |-> plan[e].profile]

Replies(status, answer) ==
    proc' = [proc EXCEPT !.step = "answered", !.reply = [status |-> status, answer |-> answer]]

WorkerRefuses ==
    /\ proc.step = "invoke" /\ plan[proc.exp].cap \in HTTP_SCOPE_CAPABILITIES
    /\ LET status == Preflight(plan[proc.exp].cap, WorkerRequest(proc.exp))
       IN status # Go /\ Replies(status, "NONE")
    /\ UNCHANGED <<now, plan, scope, rows, material, sent, count>>

WorkerStarts ==
    LET e == proc.exp IN
    /\ proc.step = "invoke" /\ plan[e].cap \in HTTP_SCOPE_CAPABILITIES
    /\ Preflight(plan[e].cap, WorkerRequest(e)) = Go
    /\ proc' = [proc EXCEPT !.step = "send", !.index = 1]
    /\ UNCHANGED <<now, plan, scope, rows, material, sent, count>>

(* The one worker that contacts nothing. *)
_execute_echo ==
    /\ proc.step = "invoke" /\ plan[proc.exp].cap = "diagnostic.echo"
    /\ Replies("SUCCEEDED", "NONE")
    /\ UNCHANGED <<now, plan, scope, rows, material, sent, count>>

Contact(u) ==
    /\ sent' = sent \cup {[exp |-> proc.exp, url |-> u]}
    /\ count' = [count EXCEPT ![proc.exp] = @ + 1]

(* The next of the planned requests and the target's answer to it. *)
WorkerSends(answer) ==
    LET cap == plan[proc.exp].cap
        planned == Planned(cap, WorkerRequest(proc.exp))
        u == planned[proc.index]
        status == _exchange(cap, answer)
    IN /\ proc.step = "send" /\ cap # "browser.page"
       /\ ChecksEach(cap) => envelope_allows(proc.envelope, u)
       /\ answer = "cookie" => cap = "http.authentication"
       /\ Contact(u)
       /\ IF status # Go THEN Replies(status, answer)
          ELSE IF proc.index = Len(planned) THEN Replies("SUCCEEDED", answer)
          ELSE proc' = [proc EXCEPT !.index = @ + 1]
       /\ UNCHANGED <<now, plan, scope, rows, material>>

WorkerStops ==
    LET cap == plan[proc.exp].cap IN
    /\ proc.step = "send" /\ ChecksEach(cap)
    /\ ~envelope_allows(proc.envelope, Planned(cap, WorkerRequest(proc.exp))[proc.index])
    /\ Replies("EXECUTION_FAILED", "NONE")
    /\ UNCHANGED <<now, plan, scope, rows, material, sent, count>>

(* A page asks for its document and then for what it likes; the browser
   fetches what the envelope allows, up to the number that was charged. *)
BrowserFetches(u) ==
    /\ proc.step = "send" /\ plan[proc.exp].cap = "browser.page"
    /\ u = plan[proc.exp].url \/ (proc.index > 1 /\ u \in Subresources)
    /\ envelope_allows(proc.envelope, u)
    /\ proc.index <= charge[proc.exp]
    /\ Contact(u)
    /\ proc' = [proc EXCEPT !.index = @ + 1]
    /\ UNCHANGED <<now, plan, scope, rows, material>>

BrowserEnds(status) ==
    /\ proc.step = "send" /\ plan[proc.exp].cap = "browser.page"
    /\ status = "BUDGET_EXHAUSTED" => proc.index > charge[proc.exp]
    /\ status = "SUCCEEDED" => proc.index > 1
    /\ Replies(status, "NONE")
    /\ UNCHANGED <<now, plan, scope, rows, material, sent, count>>

(* The transport fails: no result document comes back. *)
TransportFails(status) ==
    /\ proc.step \in {"invoke", "send"}
    /\ Replies(status, "NONE")
    /\ UNCHANGED <<now, plan, scope, rows, material, sent, count>>

----------------------------------------------------------------------------
(* Outcome *)

TransportStatus == {"INV_TIMED_OUT", "INV_CANCELLED", "INV_FAILED", "INV_UNKNOWN"}

_classify_invocation(status) ==
    CASE status = "REAUTHORIZATION_REQUIRED" -> <<"COMPLETED", "AUTHORIZATION_CHECK">>
      [] status = "BUDGET_EXHAUSTED"         -> <<"COMPLETED", "BUDGET_EXHAUSTED">>
      [] status = "BLOCKED"                  -> <<"COMPLETED", "BLOCKED">>
      [] status = "INV_TIMED_OUT"            -> <<"TIMED_OUT", "EXECUTION_FAILED">>
      [] status = "INV_CANCELLED"            -> <<"CANCELLED", "CANCELLED">>
      [] status = "INV_FAILED"               -> <<"FAILED", "EXECUTION_FAILED">>
      [] status = "INV_UNKNOWN"              -> <<"UNKNOWN_OUTCOME", "RUNNING">>
      [] OTHER                               -> <<"COMPLETED", "EXECUTION_SUCCEEDED">>

RecordOutcome ==
    LET e == proc.exp
        states == _classify_invocation(proc.reply.status)
    IN /\ proc.step = "answered"
       /\ att' = [att EXCEPT ![e] = states[1]] /\ exp' = [exp EXCEPT ![e] = states[2]]
       /\ proc' = IF proc.reply.status \in TransportStatus THEN Idle
                  ELSE [proc EXCEPT !.step = "ingest"]
       /\ UNCHANGED <<now, plan, scope, authAt, session, material, charge, sent, count, result>>

(* The commit of the outcome fails: the attempt stays DISPATCHING and the
   result is dropped. *)
RecordFails ==
    /\ proc.step = "answered" /\ proc' = Idle
    /\ UNCHANGED <<now, plan, scope, rows, material, sent, count>>

(* The rows and the material after a result: capture_login_result ... *)
LoginSession(p, reply) ==
    IF p.cap # "http.authentication" \/ reply.status = "REAUTHORIZATION_REQUIRED" THEN session
    ELSE [session EXCEPT ![p.session].state =
             IF reply.status = "SUCCEEDED" /\ session_established(reply.answer)
             THEN "ACTIVE" ELSE "FAILED"]

LoginMaterial(p, reply) ==
    IF p.cap = "http.authentication" /\ reply.status = "SUCCEEDED"
         /\ session_established(reply.answer)
    THEN material \cup {p.session} ELSE material

(* ... and expire_session_on_unauthenticated_response. *)
Unauthenticated(p, reply) ==
    p.cap = "http.transaction" /\ p.session # "NONE" /\ reply.answer = "unauthorized"

(* Faulty variant: the row is expired when the browser is refused too, and
   never for an HTTP transaction. *)
ExpireBrowserOnly(p, reply) ==
    IF p.cap = "browser.page" /\ p.session # "NONE" /\ reply.answer = "unauthorized"
    THEN {p.session} ELSE {}

expire_session_on_unauthenticated_response(p, reply) ==
    IF Unauthenticated(p, reply) /\ session[p.session].state = "ACTIVE" THEN {p.session} ELSE {}

Ingest ==
    LET e == proc.exp
        p == plan[e]
        gone == expire_session_on_unauthenticated_response(p, proc.reply)
    IN /\ proc.step = "ingest"
       /\ result' = [result EXCEPT ![e] = proc.reply]
       /\ session' = [s \in Session |->
             IF s \in gone THEN [LoginSession(p, proc.reply)[s] EXCEPT !.state = "EXPIRED"]
             ELSE LoginSession(p, proc.reply)[s]]
       /\ material' = LoginMaterial(p, proc.reply) \ gone
       /\ proc' = Idle
       /\ UNCHANGED <<now, plan, scope, exp, att, authAt, charge, sent, count>>

(* The result does not pass the contract or the normalizer. *)
IngestRejected ==
    LET e == proc.exp IN
    /\ proc.step = "ingest"
    /\ att' = [att EXCEPT ![e] = "FAILED"] /\ exp' = [exp EXCEPT ![e] = "EXECUTION_FAILED"]
    /\ proc' = Idle
    /\ UNCHANGED <<now, plan, scope, authAt, session, material, charge, sent, count, result>>

(* The commit fails: the rows are as before, but the secret store has already
   taken the new cookie or dropped the old one. *)
IngestFails ==
    LET p == plan[proc.exp] IN
    /\ proc.step = "ingest"
    /\ material' = LoginMaterial(p, proc.reply)
                     \ expire_session_on_unauthenticated_response(p, proc.reply)
    /\ proc' = Idle
    /\ UNCHANGED <<now, plan, scope, rows, sent, count>>

Crash ==
    /\ proc # Idle \/ material # {}
    /\ proc' = Idle /\ material' = {}
    /\ UNCHANGED <<now, plan, scope, rows, sent, count>>

----------------------------------------------------------------------------
Next ==
    \/ Tick \/ Crash
    \/ \E e \in Exp : \/ RateLimited(e) \/ Deny(e) \/ Allow(e)
                     \/ MarkUnknown(e) \/ _resume_authorized(e)
    \/ Dispatch \/ DispatchDenied
    \/ WorkerRefuses \/ WorkerStarts \/ WorkerStops \/ _execute_echo
    \/ \E a \in Answer : WorkerSends(a)
    \/ \E u \in Subresources \cup {plan[e].url : e \in Exp} : BrowserFetches(u)
    \/ \E s \in {"SUCCEEDED", "BUDGET_EXHAUSTED", "BLOCKED", "REAUTHORIZATION_REQUIRED"} :
          BrowserEnds(s)
    \/ \E s \in TransportStatus : TransportFails(s)
    \/ RecordOutcome \/ RecordFails
    \/ Ingest \/ IngestRejected \/ IngestFails

Spec == Init /\ [][Next]_vars

----------------------------------------------------------------------------
(* Properties *)

(* The rows, the process and the counters have their types; a process that is
   at work has an attempt, and the charges fit the budget. *)
TypeOK ==
    /\ now \in 1 .. MaxTime
    /\ exp \in [Exp -> TERMINAL_EXPERIMENT_STATES
                       \cup {"PLANNED", "AUTHORIZATION_CHECK", "READY", "RUNNING"}]
    /\ att \in [Exp -> {"NONE", "AUTHORIZED", "DISPATCHING", "COMPLETED", "FAILED", "TIMED_OUT",
                        "CANCELLED", "UNKNOWN_OUTCOME"}]
    /\ \A s \in Session : session[s].state \in {"NONE", "AUTHENTICATING", "ACTIVE", "FAILED",
                                                "EXPIRED", "REVOKED"}
    /\ material \subseteq Session
    /\ charge \in [Exp -> Nat] /\ Usage["requests"] <= Issued["requests"]
    /\ proc.step \in {"idle", "granted", "invoke", "send", "answered", "ingest"}
    /\ proc.step # "idle" => proc.exp \in Exp /\ att[proc.exp] # "NONE"

(* Whatever a worker sends goes to the origin of a plan whose document the
   compiled scope allowed at the moment of authorization, and never to a path
   that an exclusion naming this host covers. *)
ContactWithinScope ==
    \A c \in sent :
       LET u == normalize_url(c.url)
           doc == Candidate(plan[c.exp])
       IN /\ evaluate_scope_candidate(doc, scope, authAt[c.exp]).decision = "ALLOW"
          /\ u.scheme = doc.scheme /\ u.host = doc.host /\ u.port = doc.port
          /\ ~\E i \in DOMAIN scope :
                 /\ scope[i].effect \in {"DENY", "OUT_OF_SCOPE"}
                 /\ EnvelopeOrigin(u, scope[i]) /\ Matches(u, scope[i])

(* No window of the profile's length holds more authorized attempts than the
   profile's maximum, whatever the order of ticks, denials and crashes. *)
RateWindowKept ==
    \A t \in 1 .. MaxTime :
       Cardinality({e \in Exp : /\ authAt[e] # -1
                                /\ authAt[e] \in (t - Profile.window + 1) .. t}) <= Profile.max

(* A worker holds a session's cookie only for the identity, the profile and
   the origin that logged in during this run, and never after a durable
   answer 401 or 403 to it; a crash, a failed commit or a dispatch that is
   taken up again on the way does not open the session to another plan. *)
CookieBoundToItsLogin ==
    proc.step \in {"granted", "invoke", "send"} /\ proc.secret /\ UsesSession(plan[proc.exp]) =>
       LET p == plan[proc.exp] IN
       /\ \E e \in Exp : /\ plan[e].cap = "http.authentication" /\ plan[e].session = p.session
                         /\ plan[e].identity = p.identity /\ plan[e].auth = p.auth
                         /\ Origin(plan[e].url) = Origin(p.url) /\ result[e].answer = "cookie"
       /\ ~\E e \in Exp : /\ plan[e].cap = "http.transaction" /\ plan[e].session = p.session
                          /\ result[e].answer = "unauthorized"

(* The network never sees more requests of an experiment than the ledger was
   charged for it.  (The two probes that send four requests for one charge
   are outside of this statement.) *)
RequestsWithinCharge ==
    \A e \in Exp : ~ChecksEach(plan[e].cap) => count[e] <= charge[e]

(* "Worker may only enforce this more strictly": every request is one that
   the evaluation of Core would have allowed. *)
EnvelopeWithinScope ==
    \A c \in sent :
       evaluate_scope_candidate(normalize_url(c.url), scope, authAt[c.exp]).decision = "ALLOW"
=============================================================================
