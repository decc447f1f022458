------------------------------ MODULE HttpWorkers ------------------------------
(***************************************************************************)
(* The HTTP workers (zest/worker_runtime/python): what each one refuses    *)
(* before it opens a connection, the requests it then makes in order, and  *)
(* the status it reports for what the target answers.                      *)
(*                                                                         *)
(* A request record holds the envelope, the plan's url (origin and path),  *)
(* whether the arguments are complete, and what the capability adds to     *)
(* them: method, header, body, session, secret (whether the resolved       *)
(* secret came with the request), mode, profile.                           *)
(***************************************************************************)
EXTENDS ScopeRules

WorkerStatus == {"SUCCEEDED", "BLOCKED", "EXECUTION_FAILED", "TIMED_OUT",
                 "REAUTHORIZATION_REQUIRED", "BUDGET_EXHAUSTED"}

(* What the target may do with one request. *)
Answer == {"ok", "cookie", "unauthorized", "redirect", "oversized", "timeout", "broken"}

ALLOWED_READ_METHODS   == {"GET", "HEAD", "OPTIONS"}
ALLOWED_MUTATE_METHODS == {"POST", "PUT", "PATCH", "DELETE"}

(* No refusal: the worker goes on to the network. *)
Go == "GO"

(* The paths that a worker's own check finds ambiguous; the raw exchange does
   not look at escapes and empty segments. *)
_reject_path(u) == u.odd \in {"bslash", "dots", "dslash", "encoded"}
RawRejectPath(u) == u.odd \in {"bslash", "dots"}

_reject_origin(u, schemes) == u.scheme \notin schemes \/ u.user

_request_headers(r) == r.header \in {"none", "listed"}

_request_body(r) == r.body = "none" \/ (r.action = "mutate" /\ r.body = "small")

(* execute_http_transaction, down to the exchange. *)
execute_http_transaction(r) ==
    CASE r.envelope = NoEnvelope -> "EXECUTION_FAILED"
      [] r.envelope # NoEnvelope /\ r.session # "NONE" /\ ~r.secret -> "BLOCKED"
      [] OTHER ->
         IF ~r.complete THEN "EXECUTION_FAILED"
         ELSE IF \/ _reject_path(r.url) \/ _reject_origin(r.url, {"http", "https"})
                 \/ r.method \notin (IF r.action = "read" THEN ALLOWED_READ_METHODS
                                     ELSE ALLOWED_MUTATE_METHODS)
                 \/ ~_request_headers(r) \/ ~_request_body(r)
         THEN "BLOCKED"
         ELSE IF envelope_allows(r.envelope, r.url) THEN Go ELSE "EXECUTION_FAILED"

(* execute_http_authentication *)
execute_http_authentication(r) ==
    CASE r.envelope = NoEnvelope \/ ~r.complete -> "EXECUTION_FAILED"
      [] r.envelope # NoEnvelope /\ r.complete
         /\ (_reject_origin(r.url, {"http"}) \/ ~r.secret) -> "BLOCKED"
      [] OTHER -> IF envelope_allows(r.envelope, r.url) THEN Go ELSE "EXECUTION_FAILED"

(* execute_http_raw_exchange: the loopback host only. *)
execute_http_raw_exchange(r) ==
    CASE r.envelope = NoEnvelope \/ ~r.complete -> "EXECUTION_FAILED"
      [] r.envelope # NoEnvelope /\ r.complete
         /\ (\/ r.profile = "unlisted" \/ _reject_origin(r.url, {"http"})
             \/ r.url.host # <<"lo">> \/ RawRejectPath(r.url)) -> "BLOCKED"
      [] OTHER -> IF envelope_allows(r.envelope, r.url) THEN Go ELSE "EXECUTION_FAILED"

(* execute_http_authorization: the four requests are checked one at a time. *)
execute_http_authorization(r) ==
    CASE r.envelope = NoEnvelope \/ ~r.complete -> "EXECUTION_FAILED"
      [] OTHER -> IF _reject_origin(r.url, {"http"}) THEN "BLOCKED" ELSE Go

(* execute_http_state_transition *)
execute_http_state_transition(r) ==
    CASE r.envelope = NoEnvelope \/ ~r.complete -> "EXECUTION_FAILED"
      [] OTHER -> IF _reject_origin(r.url, {"http"}) THEN "BLOCKED" ELSE Go

(* execute_browser_page, down to the engine, which asks the envelope for every
   request of the page. *)
execute_browser_page(r) ==
    CASE r.envelope = NoEnvelope \/ ~r.complete -> "EXECUTION_FAILED"
      [] OTHER ->
         IF \/ _reject_origin(r.url, {"http", "https"}) \/ _reject_path(r.url)
            \/ ~_request_headers(r) \/ (r.session # "NONE" /\ ~r.secret)
         THEN "BLOCKED" ELSE Go

At(r, path) == [r.url EXCEPT !.path = path, !.odd = "plain"]

(* What the raw exchange writes on its one connection. *)
_catalog_writes(r) ==
    IF r.profile = "http1_connection_reuse" THEN <<r.url, r.url>> ELSE <<r.url>>

(* owner, cross object, secure control, unauthenticated control. *)
PlannedDifferential(r) ==
    LET area == IF r.mode = "vulnerable" THEN "vulnerable" ELSE "secure"
        Account(a, o) == At(r, <<"/", a, "/", "accounts", "/", o>>)
    IN IF r.mode = "redirect" THEN <<At(r, <<"/", "redirect">>)>>
       ELSE <<Account(area, "own"), Account(area, "cross"), Account("secure", "cross"),
              Account(area, "cross")>>

(* state before, control, transition, state after. *)
PlannedTransition(r) ==
    LET Req(a) == <<"/", a, "/", "requests", "/", "id">>
    IN IF r.mode = "redirect" THEN <<At(r, <<"/", "redirect">>)>>
       ELSE <<At(r, Req(r.mode)), At(r, Req("control") \o <<"/", "go">>),
              At(r, Req(r.mode) \o <<"/", "go">>), At(r, Req(r.mode))>>

(* The requests of an invocation, in order. *)
Planned(cap, r) ==
    CASE cap = "http.authorization.differential" -> PlannedDifferential(r)
      [] cap = "http.state_transition"           -> PlannedTransition(r)
      [] cap = "http.raw_exchange"               -> _catalog_writes(r)
      [] OTHER                                   -> <<r.url>>

Preflight(cap, r) ==
    CASE cap = "http.transaction"                -> execute_http_transaction(r)
      [] cap = "http.authentication"             -> execute_http_authentication(r)
      [] cap = "http.raw_exchange"               -> execute_http_raw_exchange(r)
      [] cap = "http.authorization.differential" -> execute_http_authorization(r)
      [] cap = "http.state_transition"           -> execute_http_state_transition(r)
      [] cap = "browser.page"                    -> execute_browser_page(r)

(* The workers that ask the envelope before each request, and not only once. *)
ChecksEach(cap) == cap \in {"http.authorization.differential", "http.state_transition"}

(***************************************************************************)
(* _exchange and its siblings: the answer to one request, Go when the      *)
(* worker carries on.  A redirect is never followed.  The raw exchange     *)
(* reads at most its bound and calls nothing oversized.                    *)
(***************************************************************************)
_exchange(cap, answer) ==
    CASE answer = "redirect"  -> "REAUTHORIZATION_REQUIRED"
      [] answer = "timeout"   -> "TIMED_OUT"
      [] answer = "broken"    -> "EXECUTION_FAILED"
      [] answer = "oversized" -> IF cap = "http.raw_exchange" THEN Go ELSE "EXECUTION_FAILED"
      [] OTHER                -> Go

(* A login is established by an accepted code that came with the cookie. *)
session_established(answer) == answer = "cookie"
=============================================================================
