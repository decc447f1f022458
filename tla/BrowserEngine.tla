--------------------------- MODULE BrowserEngine ---------------------------
(***************************************************************************)
(* The browser of one persistent Worker: execute_browser_page over         *)
(* PlaywrightChromiumEngine.  A request names a context by its reference   *)
(* or has one made; the context keeps its page, its cookies and its lease  *)
(* from one request to the next, and the oldest is evicted for a new one.  *)
(*                                                                         *)
(* The Worker serves one request at a time, but Playwright runs the        *)
(* handlers of every context's events (_handle_route, _on_popup, ...)      *)
(* while any of its calls waits, whichever context the call is for; and a  *)
(* handler that fetches lets the others run.  pc is the call that waits,   *)
(* cur the context it is for.  The pages are not Zest's: what they do is   *)
(* any event, at any such moment.                                          *)
(*                                                                         *)
(* A request that is answered before the engine changes is no step: every  *)
(* early return is a guard.  An exception that nothing catches ends the    *)
(* Worker (Stop).  Controls and network events are left out, a snapshot's  *)
(* fingerprint being that of the page it was taken of.                     *)
(***************************************************************************)
EXTENDS Integers, Sequences

CONSTANTS
    Contexts,      \* context references, uuid4
    Bindings,      \* what a lease binds: run, identity, session, origin, target
    NoSession,     \* the session of a binding without one
    None,          \* no reference, no fingerprint
    Urls,          \* the URLs pages and servers name
    Opaque,        \* those with no http(s) form, which no envelope allows
    Blank,         \* about:blank, where a page begins
    Envelopes,     \* the network envelopes Core issues, as the URLs they allow
    Asked,         \* what max_attempted_requests may be
    MaxContexts,   \* limits.max_active_contexts
    MaxAttempted,  \* MAX_ATTEMPTED_REQUESTS
    MaxActions,    \* bound of the model: requests served
    MaxEvents      \* bound of the model: events of the pages

ASSUME UrlAssumption ==
    /\ Opaque \subseteq Urls /\ Blank \notin Urls
    /\ Envelopes \subseteq SUBSET (Urls \ Opaque)
ASSUME NoneAssumption == None \notin Contexts \cup Urls \cup {Blank}
ASSUME BoundAssumption ==
    /\ Asked \subseteq Nat \ {0}
    /\ MaxContexts \in Nat \ {0} /\ MaxAttempted \in Nat \ {0}
    /\ MaxActions \in Nat /\ MaxEvents \in Nat

VARIABLES
    engine,    \* _ENGINE: not made, "on", or _ENGINE_UNAVAILABLE
    order,     \* the references in _runtimes, as they were inserted
    rt,        \* rt[c]: the _Runtime of c
    used,      \* the references handed out by all Workers so far
    pc,        \* the Playwright call that waits
    cur,       \* the context it is for
    req,       \* the request whose context is being acquired
    answer,    \* the status of the last request that was served
    actions,   \* how many requests were served
    events     \* how many events the pages had

vars == <<engine, order, rt, used, pc, cur, req, answer, actions, events>>

Status == {"NONE", "SUCCEEDED", "REAUTHORIZATION_REQUIRED", "BLOCKED",
           "BUDGET_EXHAUSTED", "TIMED_OUT", "EXECUTION_FAILED"}

Sessions == {b.session : b \in Bindings}

(* The lease, what _begin_action sets, and the context and page Chromium has:
   the cookies put in it, the URL of its main frame, the requests of its pages
   being fetched.  The last four are ghosts: the session of the request that
   began the action, whether a page was seen outside, the requests sent and
   the requests the actions were given. *)
Runtime == [binding : Bindings \cup {None}, frozen : BOOLEAN,
            envelope : SUBSET Urls, limit : Nat, attempted : Nat, pending : Status,
            committed : BOOLEAN, fp : Urls \cup {Blank, None},
            jar : SUBSET Sessions, page : Urls \cup {Blank}, inflight : SUBSET Urls,
            owner : SUBSET Sessions, crossed : BOOLEAN, sent : Nat, granted : Nat]

NoRuntime == [binding |-> None, frozen |-> FALSE,
              envelope |-> {}, limit |-> 0, attempted |-> 0, pending |-> "NONE",
              committed |-> FALSE, fp |-> None,
              jar |-> {}, page |-> Blank, inflight |-> {},
              owner |-> {}, crossed |-> FALSE, sent |-> 0, granted |-> 0]

Request == [ref : Contexts \cup {None}, binding : Bindings, envelope : Envelopes,
            limit : Nat]

PC == {"idle", "seed", "goto", "act", "settle", "failed", "snapshot"}

Tracked == {order[i] : i \in 1..Len(order)}

Cookies(b) == IF b.session = NoSession THEN {} ELSE {b.session}

(* Faulty variant: the session is not compared. *)
MatchesTarget(l, b) ==
    l.run = b.run /\ l.identity = b.identity /\ l.origin = b.origin /\ l.target = b.target

lease_binding_matches(l, b) ==
    /\ l.run = b.run /\ l.identity = b.identity /\ l.session = b.session
    /\ l.origin = b.origin /\ l.target = b.target

(* max_attempted, of execute_browser_page *)
Limit(asked) == IF asked < MaxAttempted THEN asked ELSE MaxAttempted

Init ==
    /\ engine = "none" /\ order = <<>> /\ used = {}
    /\ rt = [c \in Contexts |-> NoRuntime]
    /\ pc = "idle" /\ cur = None /\ req = None /\ answer = "NONE"
    /\ actions = 0 /\ events = 0

----------------------------------------------------------------------------
(* _production_engine: an engine that did not start is not tried again. *)
Start ==
    /\ engine = "none"
    /\ engine' \in {"on", "unavailable"}
    /\ UNCHANGED <<order, rt, used, pc, cur, req, answer, actions, events>>

(* The Worker ends: asked to (shutdown_engine), by an exception of a call, or
   killed.  The next Worker knows none of the references. *)
Stop ==
    /\ engine # "none"
    /\ engine' = "none" /\ order' = <<>> /\ rt' = [c \in Contexts |-> NoRuntime]
    /\ pc' = "idle" /\ cur' = None /\ req' = None /\ answer' = "NONE"
    /\ UNCHANGED <<used, actions, events>>

----------------------------------------------------------------------------
(* The requests. *)

(* _require_lease: the lease of a reference, if the request may use it. *)
MayUse(ref, b) ==
    /\ ref \in Tracked
    /\ lease_binding_matches(rt[ref].binding, b)
    /\ ~rt[ref].frozen

Serving ==
    /\ engine = "on" /\ pc = "idle" /\ actions < MaxActions
    /\ actions' = actions + 1
    /\ UNCHANGED <<engine, events>>

(* The call waits for context c; the request is kept while c is acquired. *)
Wait(call, c, q) == pc' = call /\ cur' = c /\ req' = q /\ answer' = "NONE"

Answered(status) == pc' = "idle" /\ cur' = None /\ req' = None /\ answer' = status

Pend(r, status) == [r EXCEPT !.pending = status]

Freeze(r) == [r EXCEPT !.frozen = TRUE]

(* A page of r is outside the envelope: the context is frozen. *)
Cross(r) == [Freeze(r) EXCEPT !.crossed = TRUE]

(* _begin_action: what an earlier action left pending is forgotten. *)
Begun(r, q) ==
    [r EXCEPT !.envelope = q.envelope, !.limit = q.limit, !.attempted = 0,
              !.pending = "NONE",
              !.owner = Cookies(q.binding), !.granted = @ + q.limit]

(* _denied *)
Denied(u) == IF u \in Opaque \cup {Blank} THEN "BLOCKED" ELSE "REAUTHORIZATION_REQUIRED"

(* navigate, to a URL its own envelope does not allow: an existing context is
   frozen and nothing else happens. *)
NavigateOutside(q, u) ==
    /\ Serving /\ MayUse(q.ref, q.binding) /\ u \notin q.envelope
    /\ rt' = [rt EXCEPT ![q.ref] = Freeze(@)]
    /\ Answered(Denied(u))
    /\ UNCHANGED <<order, used>>

(* navigate, to a URL of its envelope (which of them does not matter here),
   and _acquire, of an existing context: its session's cookies are put in it
   again, which waits, before the action begins. *)
NavigateAgain(q) ==
    /\ Serving /\ MayUse(q.ref, q.binding) /\ q.envelope # {}
    /\ \/ /\ Cookies(q.binding) # {}
          /\ Wait("seed", q.ref, q)
          /\ UNCHANGED rt
       \/ /\ Cookies(q.binding) = {}
          /\ rt' = [rt EXCEPT ![q.ref] = Begun(@, q)]
          /\ Wait("goto", q.ref, None)
    /\ UNCHANGED <<order, used>>

(* _evict_oldest_runtime, when there is no room for another *)
Kept == IF Len(order) >= MaxContexts THEN Tail(order) ELSE order

(* _acquire, of a new context: its guards are installed before anything is
   loaded.  navigate and observe without a reference come here. *)
NavigateNew(q, c) ==
    /\ Serving /\ q.ref = None /\ q.envelope # {}
    /\ c \in Contexts \ used
    /\ used' = used \cup {c}
    /\ order' = Append(Kept, c)
    /\ rt' = [d \in Contexts |->
                 IF d = c
                 THEN [NoRuntime EXCEPT !.binding = q.binding, !.envelope = q.envelope,
                                        !.limit = q.limit]
                 ELSE IF \E i \in 1..Len(Kept) : Kept[i] = d THEN rt[d] ELSE NoRuntime]
    /\ Wait("seed", c, q)

(* _seed_cookie *)
Seed(r, b) == [r EXCEPT !.jar = @ \cup Cookies(b)]

(* The end of _acquire and the last check of navigate: the context may have
   been frozen while the cookies were put in it. *)
Seeded ==
    /\ pc = "seed"
    /\ rt' = [rt EXCEPT ![cur] = Begun(Seed(@, req.binding), req)]
    /\ IF rt[cur].frozen THEN Answered("BLOCKED") ELSE Wait("goto", cur, None)
    /\ UNCHANGED <<engine, order, used, actions, events>>

(* _check_main_url, with the runtime r of c: a page outside the envelope is
   not looked at, and its context is frozen. *)
CheckMainUrl(c, r) ==
    \/ /\ r.page \in r.envelope
       /\ Wait("snapshot", c, None)
       /\ rt' = [rt EXCEPT ![c] = r]
    \/ /\ r.page \notin r.envelope
       /\ Answered(Denied(r.page))
       /\ rt' = [rt EXCEPT ![c] = Cross(r)]

(* observe *)
Observe(q) ==
    /\ Serving /\ MayUse(q.ref, q.binding)
    /\ CheckMainUrl(q.ref, Begun(rt[q.ref], q))
    /\ UNCHANGED <<order, used>>

(* _interact and interact: the fingerprint is compared with that of the last
   snapshot, not with the page. *)
Interact(q, fp) ==
    /\ Serving /\ MayUse(q.ref, q.binding)
    /\ fp = rt[q.ref].fp
    /\ rt' = [rt EXCEPT ![q.ref] = Begun(@, q)]
    /\ Wait("act", q.ref, None)
    /\ UNCHANGED <<order, used>>

----------------------------------------------------------------------------
(* The calls end. *)

(* _pending, and what is answered if nothing is. *)
PendingOr(status) == IF rt[cur].pending # "NONE" THEN rt[cur].pending ELSE status

(* goto: the document is one the guard let through. *)
Loaded(u) ==
    /\ pc = "goto" /\ u \in rt[cur].envelope
    /\ rt' = [rt EXCEPT ![cur] = [@ EXCEPT !.page = u, !.committed = TRUE]]
    /\ pc' = "settle"
    /\ UNCHANGED <<engine, order, used, cur, req, answer, actions, events>>

(* The timeout of a navigation tells what is pending, that of an interaction
   does not. *)
TimesOut ==
    /\ \/ pc = "goto" /\ Answered(PendingOr("TIMED_OUT"))
       \/ pc = "act" /\ Answered("TIMED_OUT")
    /\ UNCHANGED <<engine, order, rt, used, actions, events>>

(* click, fill, select or press returns; or it, or goto, raises, and _settle
   waits all the same. *)
ActionEnds ==
    /\ \/ pc = "act" /\ pc' = "settle"
       \/ pc \in {"act", "goto"} /\ pc' = "failed"
    /\ UNCHANGED <<engine, order, rt, used, cur, req, answer, actions, events>>

FailureSettled ==
    /\ pc = "failed"
    /\ Answered(PendingOr("EXECUTION_FAILED"))
    /\ UNCHANGED <<engine, order, rt, used, actions, events>>

Settled ==
    /\ pc = "settle"
    /\ \/ rt[cur].pending # "NONE" /\ Answered(rt[cur].pending) /\ UNCHANGED rt
       \/ rt[cur].pending = "NONE" /\ CheckMainUrl(cur, rt[cur])
    /\ UNCHANGED <<engine, order, used, actions, events>>

(* _take_snapshot, and _succeeded with whatever happened meanwhile. *)
TakeSnapshot ==
    /\ pc = "snapshot"
    /\ rt' = [rt EXCEPT ![cur] = [@ EXCEPT !.fp = rt[cur].page]]
    /\ Answered("SUCCEEDED")
    /\ UNCHANGED <<engine, order, used, actions, events>>

----------------------------------------------------------------------------
(* The handlers, for any context there is, while a call waits; a context just
   made has an empty page, of which nothing comes. *)

Fresh(c) == pc = "seed" /\ cur = c /\ req.ref = None

Handling(c) ==
    /\ pc # "idle" /\ c \in Tracked /\ ~Fresh(c)
    /\ events < MaxEvents /\ events' = events + 1
    /\ UNCHANGED <<engine, order, used, pc, cur, req, answer, actions>>

(* Faulty variant: the budget is compared once it is overspent. *)
RoutedLate(r, u) ==
    IF r.attempted > r.limit THEN Pend(r, "BUDGET_EXHAUSTED")
    ELSE IF u \notin r.envelope THEN Pend([r EXCEPT !.attempted = @ + 1], Denied(u))
    ELSE [r EXCEPT !.attempted = @ + 1, !.sent = @ + 1, !.inflight = @ \cup {u}]

(* _handle_route, up to the fetch: u is requested by a page of c, by a frame
   of it or by a redirect that was let through. *)
Routed(r, u) ==
    IF r.attempted >= r.limit THEN Pend(r, "BUDGET_EXHAUSTED")
    ELSE IF u \notin r.envelope THEN Pend([r EXCEPT !.attempted = @ + 1], Denied(u))
    ELSE [r EXCEPT !.attempted = @ + 1, !.sent = @ + 1, !.inflight = @ \cup {u}]

Route(c, u) ==
    /\ Handling(c)
    /\ rt' = [rt EXCEPT ![c] = Routed(@, u)]

(* ... and from the answer on, which the envelope in force by then judges: a
   fetch that failed, a page, a redirect within it; a download; a redirect
   out of it. *)
Fetched(c, u) ==
    /\ Handling(c) /\ u \in rt[c].inflight
    /\ \E r \in {[rt[c] EXCEPT !.inflight = @ \ {u}]} :
          \/ rt' = [rt EXCEPT ![c] = r]
          \/ rt' = [rt EXCEPT ![c] = Pend(r, "BLOCKED")]
          \/ \E v \in Urls \ r.envelope : rt' = [rt EXCEPT ![c] = Pend(r, Denied(v))]

(* Faulty variant: a popup is reported and its context goes on. *)
PopupReported(c) ==
    /\ Handling(c)
    /\ rt' = [rt EXCEPT ![c] = [Pend(@, "REAUTHORIZATION_REQUIRED") EXCEPT !.crossed = TRUE]]

(* _on_popup and _on_extra_page *)
OnPopup(c) ==
    /\ Handling(c)
    /\ rt' = [rt EXCEPT ![c] = Cross(Pend(@, "REAUTHORIZATION_REQUIRED"))]

(* _on_websocket and _on_download *)
OnChannel(c) ==
    /\ Handling(c)
    /\ rt' = [rt EXCEPT ![c] = Pend(@, "BLOCKED")]

(* _on_frame_navigated, of the main frame: a page that leaves the envelope by
   itself freezes its context once a navigation was committed. *)
OnMainFrame(c, u) ==
    /\ Handling(c)
    /\ \E r \in {[rt[c] EXCEPT !.page = u]} :
          rt' = [rt EXCEPT ![c] = IF u \in r.envelope \cup {Blank} \/ ~r.committed THEN r
                                  ELSE Cross(Pend(r, "REAUTHORIZATION_REQUIRED"))]

(* ... and of another frame that shows a URL outside the envelope. *)
OnFrame(c, u) ==
    /\ Handling(c) /\ u \notin rt[c].envelope
    /\ rt' = [rt EXCEPT ![c] = Cross(Pend(@, Denied(u)))]

----------------------------------------------------------------------------
Serve(q) ==
    \/ NavigateAgain(q) \/ Observe(q)
    \/ \E u \in Urls : NavigateOutside(q, u)
    \/ \E c \in Contexts : NavigateNew(q, c)
    \/ \E fp \in Urls \cup {Blank} : Interact(q, fp)

CallEnds ==
    \/ Seeded \/ TimesOut \/ ActionEnds \/ FailureSettled \/ Settled \/ TakeSnapshot
    \/ \E u \in Urls : Loaded(u)

Handle(c) ==
    \/ OnPopup(c) \/ OnChannel(c) \/ OnMainFrame(c, Blank)
    \/ \E u \in Urls : Route(c, u) \/ Fetched(c, u) \/ OnMainFrame(c, u) \/ OnFrame(c, u)

Next ==
    \/ Start \/ Stop \/ CallEnds
    \/ \E ref \in Contexts \cup {None}, b \in Bindings, e \in Envelopes, n \in Asked :
          Serve([ref |-> ref, binding |-> b, envelope |-> e, limit |-> Limit(n)])
    \/ \E c \in Contexts : Handle(c)

Spec == Init /\ [][Next]_vars

----------------------------------------------------------------------------
(* The state has its type; the references in _runtimes are distinct, were
   handed out, and are at most max_active_contexts; a call waits for one of
   them. *)
TypeOK ==
    /\ engine \in {"none", "on", "unavailable"}
    /\ order \in Seq(Contexts) /\ used \subseteq Contexts /\ Tracked \subseteq used
    /\ \A i, j \in 1..Len(order) : order[i] = order[j] => i = j
    /\ Len(order) <= MaxContexts
    /\ rt \in [Contexts -> Runtime]
    /\ \A c \in Tracked : rt[c].binding \in Bindings
    /\ pc \in PC /\ answer \in Status /\ actions \in Nat /\ events \in Nat
    /\ IF pc = "idle" THEN cur = None ELSE cur \in Tracked
    /\ IF pc = "seed" THEN req \in Request ELSE req = None

(* A context never sends more requests than the actions begun in it were
   given, whoever's call its pages sent them in: those that run on after
   their action, or in a frozen context, included. *)
RequestsWithinLimits == \A c \in Contexts : rt[c].sent <= rt[c].granted

(* What authenticates the requests of a context is the session of the request
   whose envelope they are let through by, or nothing. *)
SessionsStayApart == \A c \in Tracked : rt[c].jar \subseteq rt[c].owner

(* Nothing is navigated, clicked or read in a context of which a page was seen
   outside its envelope, in a popup or a frame: the references to it that the
   caller still has are of no use. *)
CrossedIsLeft ==
    [][pc' \in {"goto", "act", "snapshot"} /\ pc' # pc => ~rt'[cur'].crossed]_vars
=============================================================================
