-------------------------- MODULE SurfaceDiscovery --------------------------
(***************************************************************************)
(* surface.discovery.v1: runners drive a run cycle by cycle.  A cycle      *)
(* projects what is stored and not yet projected, claims the best item of  *)
(* the frontier, compiles and executes it (TX A stores the result and the  *)
(* observation) and projects the outcome (TX B), one receipt a source.     *)
(* application/discovery/runner.py and project.py, and the step of         *)
(* autonomous_research_controller.py that drives them.                     *)
(*                                                                         *)
(* A runner is a process with the live pages it holds in memory; more than *)
(* one may be at work on a run, and each may crash between two             *)
(* transactions.  The transactions that insert what they have not found    *)
(* (the seed, a cycle's first one and TX B) are two steps, the reads and    *)
(* the commit: what another runner inserted meanwhile refuses the commit.   *)
(***************************************************************************)
EXTENDS SurfaceProjection, TLC

CONSTANTS
    Runners,             \* processes that may drive the run
    Driver,              \* "steps": a caller of step gives the discovery start each time;
                         \* "daemon": zestd's supervisor, which clears it after one tick
    Origin, Path,        \* the seed
    Identities,          \* configured identities besides ANONYMOUS
    Sessions,            \* the ones that come with a session context
    InScope,             \* paths the compiled scope accepts
    Site,                \* pages [origin, path, fp, controls, net] a browser may show
    Statuses,            \* outcomes of an experiment that occur
    Bounds,              \* DiscoveryBounds, the ones that are read
    MaxCrashes           \* bound on the crashes of all runners

VARIABLES
    run,         \* the orchestration row: "open" or "stopped"
    log,         \* frontier item -> its events
    facts,       \* discovery_fact rows, by canonical key
    templates,   \* route templates inferred, with the paths they came from
    exps,        \* experiments, their attempt, result and observation
    receipts,    \* sources that are projected
    live,        \* per runner, the pages it can still act on
    pc, cur,     \* per runner, its place in the cycle and its locals
    launched,    \* the run was launched once
    drives,      \* per runner, its command carries the discovery start
    crashes

vars == <<run, log, facts, templates, exps, receipts, live, pc, cur, launched, drives, crashes>>
db == <<log, facts, templates, receipts>>

Denied == {"DISPATCH_DENIED", "HUMAN_REVIEW_REQUIRED", "INPUT_REJECTED"}
WithResult == {"OBSERVATION_PRODUCED", "NO_OBSERVATION", "REAUTHORIZATION_REQUIRED"}

NoItem == FrontierItem("", "", <<>>, "", "", 0)
NoPage == [origin |-> "", path |-> <<>>, fp |-> "", controls |-> <<>>, net |-> {}]
NoRows == [facts |-> {}, items |-> {}, templates |-> {}]
Idle == [item |-> NoItem, pend |-> {}, rows |-> NoRows, exp |-> 0]

Init ==
    /\ run = "open" /\ log = <<>> /\ facts = {} /\ templates = {} /\ exps = <<>> /\ receipts = {}
    /\ live = [r \in Runners |-> {}] /\ pc = [r \in Runners |-> "down"]
    /\ cur = [r \in Runners |-> Idle] /\ launched = FALSE
    /\ drives = [r \in Runners |-> FALSE] /\ crashes = 0

----------------------------------------------------------------------------
(* Projection (TX B) *)

(* Only a browser plan names the identity; an HTTP plan has it from its
   session, or is taken for anonymous. *)
_identity_for(e) ==
    IF e.action # "http" \/ e.item.identity \in Sessions THEN e.item.identity ELSE ANONYMOUS_IDENTITY_ID

observation_view(n) ==
    LET e == exps[n] IN
    [id |-> n, kind |-> IF e.action = "http" THEN "HTTP_TRANSACTION" ELSE "BROWSER_PAGE_STATE",
     origin |-> e.page.origin, path |-> e.page.path, method |-> IF e.action = "http" THEN e.item.detail ELSE "",
     fp |-> e.page.fp, controls |-> e.page.controls, net |-> e.page.net, identity |-> _identity_for(e)]

_workflow_binding(st, n) ==
    [bound |-> exps[n].action = "interact",
     pre |-> \E f \in st.facts : /\ f.kind = "PAGE_STATE"
                                 /\ f.origin = exps[n].page.origin /\ f.path = exps[n].page.path]

_persist_delta(st, delta) ==
    [st EXCEPT !.facts = @ \cup delta.facts,
               !.log = @ @@ [i \in delta.items |-> <<"CREATED", "ELIGIBLE">>]]

project_observation(st, n) ==
    LET delta == project_observation_view(observation_view(n), _workflow_binding(st, n), DOMAIN st.log)
        new == _persist_delta(st, delta)
    IN [new EXCEPT !.templates = @ \cup _admit_templates(new.facts, @)]

(* The event a stopped result stands for: its kind is that of the channel. *)
ingest_control_event_from_worker_result(n) ==
    [path |-> exps[n].item.path, kind |-> "REDIRECT_BOUNDARY", result |-> n]

project_control(st, n) ==
    _persist_delta(st, [facts |-> project_control_event(ingest_control_event_from_worker_result(n)), items |-> {}])

(* Stored observations, and results that stopped at a boundary, without a
   receipt. *)
Unprojected ==
    {n \in DOMAIN exps : /\ exps[n].stored
                         /\ exps[n].status \in {"OBSERVATION_PRODUCED", "REAUTHORIZATION_REQUIRED"}} \ receipts

(* Observations in their order, then events in theirs.  The one value in a
   set, for the actions to bind with \E. *)
reconcile_missing_projections(pend) ==
    LET rows == [facts |-> facts, log |-> log, templates |-> templates]
        order == SetToSortSeq(pend, <)
        observations == SelectSeq(order, LAMBDA n : exps[n].status = "OBSERVATION_PRODUCED")
        events == SelectSeq(order, LAMBDA n : exps[n].status # "OBSERVATION_PRODUCED")
    IN IF pend = {} THEN {rows}
       ELSE {FoldLeft(project_control, FoldLeft(project_observation, rows, observations), events)}

(* The rows that a projection inserts beside its receipts. *)
Rows(st) == [facts |-> st.facts \ facts, items |-> DOMAIN st.log \ DOMAIN log,
             templates |-> st.templates \ templates]

(* Each of them is unique, and so is a receipt: what another runner inserted
   since it was looked for refuses the commit. *)
Clash(r) ==
    \/ cur[r].pend \cap receipts # {}
    \/ cur[r].rows.items \cap DOMAIN log # {}
    \/ cur[r].rows.facts \cap facts # {} \/ cur[r].rows.templates \cap templates # {}

Projected(r) == log @@ [i \in cur[r].rows.items |-> <<"CREATED", "ELIGIBLE">>]

(* The receipts are committed with what they are for. *)
Commit(r, newlog) ==
    /\ facts' = facts \cup cur[r].rows.facts /\ templates' = templates \cup cur[r].rows.templates
    /\ receipts' = receipts \cup cur[r].pend /\ log' = newlog

_append_event(l, i, kind) == [l EXCEPT ![i] = Append(@, kind)]

_bound_stop_reason(l) ==
    LET results(capability) ==
            {n \in DOMAIN exps : /\ exps[n].stored
                                 /\ proposed_capability(exps[n].item) = capability}
    IN \/ Len(exps) >= Bounds.max_discovery_cycles
       \/ Cardinality(DOMAIN l) >= Bounds.max_frontier_items
       \/ Cardinality(results("browser.page")) >= Bounds.max_browser_actions
       \/ Cardinality(results("http.transaction")) >= Bounds.max_http_transactions

----------------------------------------------------------------------------
(* Starting *)

_unknown_open == \E n \in DOMAIN exps : exps[n].attempt \in {"DISPATCHING", "UNKNOWN_OUTCOME"}

(* A process that takes the run up.  The daemon builds the discovery start
   only for a launch, never for a recovery. *)
reconstruct_run_command(r) == drives' = [drives EXCEPT ![r] = Driver = "steps" \/ ~launched]

Start(r) ==
    /\ pc[r] = "down" /\ run = "open"
    /\ reconstruct_run_command(r)
    /\ launched' = TRUE /\ pc' = [pc EXCEPT ![r] = "idle"] /\ live' = [live EXCEPT ![r] = {}]
    /\ UNCHANGED <<run, db, exps, cur, crashes>>

(* A tick that carries the discovery start. *)
_step_surface_discovery(r) ==
    /\ pc[r] = "idle" /\ drives[r] /\ run = "open"
    /\ IF _unknown_open THEN run' = "stopped" /\ UNCHANGED pc
       ELSE pc' = [pc EXCEPT ![r] = "cycle"] /\ UNCHANGED run
    /\ UNCHANGED <<db, exps, live, cur, launched, drives, crashes>>

_seed ==
    {seed_inspect_path_frontier(Origin, Path)}
    \cup {FrontierItem("OBSERVE_UNDER_IDENTITY", Origin, Path, i, "", 0)
            : i \in CHOOSE s \in SUBSET Identities :
                        Cardinality(s) = Min({Cardinality(Identities), Bounds.max_identity_variants})}

(* No configuration is found ... *)
ensure_started(r) ==
    /\ pc[r] = "cycle" /\ log = <<>>
    /\ pc' = [pc EXCEPT ![r] = "seed"]
    /\ UNCHANGED <<run, db, exps, live, cur, launched, drives, crashes>>

(* ... and one is inserted with the seed, unless there is one by now. *)
Seed(r) ==
    /\ pc[r] = "seed" /\ log = <<>>
    /\ log' = [i \in _seed |-> <<"CREATED", "ELIGIBLE">>]
    /\ pc' = [pc EXCEPT ![r] = "cycle"]
    /\ UNCHANGED <<run, facts, templates, exps, receipts, live, cur, launched, drives, crashes>>

----------------------------------------------------------------------------
(* Choosing an item *)

(* What a cycle goes on with, once its reads are done. *)
Chosen(r, p, i, st) ==
    /\ pc' = [pc EXCEPT ![r] = p]
    /\ cur' = [cur EXCEPT ![r] = [item |-> i, pend |-> Unprojected, rows |-> Rows(st), exp |-> 0]]

(* The reads of a cycle's first transaction.  Its reconciliation comes before
   the bounds and the choice, which see what it adds. *)
Select(r) ==
    /\ pc[r] = "cycle" /\ log # <<>>
    /\ \E st \in reconcile_missing_projections(Unprojected) :
          IF _bound_stop_reason(st.log) \/ select_eligible_frontier(st.log, 1) = {}
          THEN Chosen(r, "halt", NoItem, st)
          ELSE \E i \in select_eligible_frontier(st.log, 1) :
                  Chosen(r, IF i.origin = Origin THEN "claim" ELSE "block", i, st)
    /\ UNCHANGED <<run, db, exps, live, launched, drives, crashes>>

(* The events are read again under the item's lock. *)
Claimable(i) == i \in DOMAIN log => legal_frontier_transition(log[i], "SELECTED")

(* The transaction's error leaves nothing; the supervisor fails the run, any
   other caller just ends. *)
Fail(r) ==
    /\ \/ pc[r] \in {"claim", "block", "halt", "project"} /\ Clash(r)
       \/ pc[r] = "claim" /\ ~Claimable(cur[r].item)
       \/ pc[r] = "seed" /\ log # <<>>
    /\ run' = IF Driver = "daemon" THEN "stopped" ELSE run
    /\ pc' = [pc EXCEPT ![r] = "down"] /\ cur' = [cur EXCEPT ![r] = Idle]
    /\ UNCHANGED <<db, exps, live, launched, drives, crashes>>

(* The projections and the claim are committed. *)
Claim(r) ==
    /\ pc[r] = "claim" /\ ~Clash(r)
    /\ Commit(r, _append_event(Projected(r), cur[r].item, "SELECTED"))
    /\ pc' = [pc EXCEPT ![r] = "compile"]
    /\ cur' = [cur EXCEPT ![r].pend = {}, ![r].rows = NoRows]
    /\ UNCHANGED <<run, exps, live, launched, drives, crashes>>

(* Faulty variant: the choice is taken for granted. *)
ClaimUnchecked(r) == Claim(r)

claim_frontier_selected(r) == Claim(r) /\ Claimable(cur[r].item)

(* An item of another origin is blocked, without a lock; it or the lack of
   work ends the run. *)
_block(r) ==
    /\ pc[r] \in {"block", "halt"} /\ ~Clash(r)
    /\ Commit(r, IF pc[r] = "block" THEN _append_event(Projected(r), cur[r].item, "BLOCKED_SCOPE")
                 ELSE Projected(r))
    /\ pc' = [pc EXCEPT ![r] = "stop"]
    /\ cur' = [cur EXCEPT ![r].pend = {}, ![r].rows = NoRows]
    /\ UNCHANGED <<run, exps, live, launched, drives, crashes>>

(* The controller's _stop, in a transaction of its own. *)
_stop(r) ==
    /\ pc[r] = "stop"
    /\ run' = "stopped" /\ pc' = [pc EXCEPT ![r] = "idle"] /\ cur' = [cur EXCEPT ![r] = Idle]
    /\ UNCHANGED <<db, exps, live, launched, drives, crashes>>

(* The daemon's supervisor drops the discovery start once a tick leaves the run
   open: its next tick is not discovery. *)
tick(r) == drives' = [drives EXCEPT ![r] = @ /\ Driver = "steps"]

(* A cycle ends and the run goes on. *)
_complete_cycle(r) ==
    /\ pc' = [pc EXCEPT ![r] = "idle"] /\ cur' = [cur EXCEPT ![r] = Idle]
    /\ tick(r)

----------------------------------------------------------------------------
(* Compiling it *)

LivePage(r, i) ==
    {p \in live[r] : p.origin = i.origin /\ p.path = i.path /\ p.identity = i.identity}

(* Exactly one control of the live page has the signature. *)
resolve_control_ref(r, i) ==
    \E p \in LivePage(r, i) : Cardinality({n \in DOMAIN p.controls : p.controls[n].sig = i.detail}) = 1

compile_frontier_plan(r, i) ==
    CASE i.goal = "INSPECT_CONTROL"             -> IF resolve_control_ref(r, i) THEN "interact" ELSE "reobserve"
      [] i.goal = "CHARACTERIZE_HTTP_OPERATION" -> "http"
      [] OTHER                                  -> "observe"

(* A control without a live page waits for another look at its page, as long
   as the route may be revisited. *)
_reobserve(r) ==
    LET i == cur[r].item
        same_route == {j \in DOMAIN log : /\ j.goal = "INSPECT_PATH" /\ j.identity = i.identity
                                          /\ j.origin = i.origin /\ j.path = i.path}
        again == FrontierItem("INSPECT_PATH", i.origin, i.path, i.identity, "", Cardinality(same_route))
    IN /\ pc[r] = "compile" /\ compile_frontier_plan(r, i) = "reobserve"
       /\ log' = IF Cardinality(same_route) >= Bounds.max_per_route_revisit \/ again \in DOMAIN log
                 THEN _append_event(log, i, "NO_NEW_INFORMATION")
                 ELSE _append_event(_append_event(log, i, "FAILED_TRANSIENT"), i, "ELIGIBLE")
                        @@ (again :> <<"CREATED", "ELIGIBLE">>)
       /\ _complete_cycle(r)
       /\ UNCHANGED <<run, facts, templates, exps, receipts, live, launched, crashes>>

(* The compiled scope's answer, and then the experiment's row. *)
Prepare(r) ==
    LET i == cur[r].item
        action == compile_frontier_plan(r, i)
    IN /\ pc[r] = "compile" /\ action # "reobserve"
       /\ IF i.path \in InScope
          THEN /\ exps' = Append(exps, [item |-> i, action |-> action, attempt |-> "", status |-> "",
                                        page |-> NoPage, stored |-> FALSE])
               /\ pc' = [pc EXCEPT ![r] = "execute"] /\ cur' = [cur EXCEPT ![r].exp = Len(exps) + 1]
               /\ UNCHANGED log
          ELSE /\ log' = _append_event(log, i, "BLOCKED_SCOPE")
               /\ pc' = [pc EXCEPT ![r] = "stop"] /\ UNCHANGED <<exps, cur>>
       /\ UNCHANGED <<run, facts, templates, receipts, live, launched, drives, crashes>>

----------------------------------------------------------------------------
(* Executing it: the whole of AuthorizedExecution, by what it leaves behind *)

(* Core denies, or the attempt is marked before the worker is called. *)
Dispatch(r) ==
    /\ pc[r] = "execute" /\ exps[cur[r].exp].attempt = ""
    /\ \/ /\ exps' = [exps EXCEPT ![cur[r].exp].attempt = "DISPATCHING"]
          /\ UNCHANGED pc
       \/ \E s \in Denied \cap Statuses :
             /\ exps' = [exps EXCEPT ![cur[r].exp].status = s]
             /\ pc' = [pc EXCEPT ![r] = "settle"]
    /\ UNCHANGED <<run, db, live, cur, launched, drives, crashes>>

(* What the worker may have seen: the page at the path, any page after a
   click, the exchange itself. *)
Seen(e) ==
    IF e.action = "http"
    THEN {[NoPage EXCEPT !.origin = e.item.origin, !.path = e.item.path]}
    ELSE {p \in Site : e.action = "interact" \/ p.path = e.item.path}

Answer(r) ==
    LET n == cur[r].exp IN
    /\ pc[r] = "execute" /\ exps[n].attempt = "DISPATCHING"
    /\ \E s \in Statuses \ Denied :
          \E p \in IF s = "OBSERVATION_PRODUCED" THEN Seen(exps[n]) ELSE {NoPage} :
             exps' = [exps EXCEPT ![n].status = s, ![n].page = p,
                                  ![n].attempt = IF s = "UNKNOWN_OUTCOME" THEN s ELSE "COMPLETED"]
    /\ pc' = [pc EXCEPT ![r] = IF exps'[n].status \in WithResult THEN "ingest" ELSE "settle"]
    /\ UNCHANGED <<run, db, live, cur, launched, drives, crashes>>

(* The result and what is observed, in a transaction after the attempt's. *)
Ingest(r) ==
    /\ pc[r] = "ingest"
    /\ exps' = [exps EXCEPT ![cur[r].exp].stored = TRUE] /\ pc' = [pc EXCEPT ![r] = "settle"]
    /\ UNCHANGED <<run, db, live, cur, launched, drives, crashes>>

----------------------------------------------------------------------------
(* Settling it *)

(* A click keeps the browser context of the page it was made on: every page
   held of that context is gone. *)
_remember_live_page(r, n) ==
    LET e == exps[n]
        context == IF e.action = "interact" THEN {p.context : p \in LivePage(r, e.item)} ELSE {n}
        page == [origin |-> e.page.origin, path |-> e.page.path, identity |-> e.item.identity,
                 controls |-> e.page.controls, context |-> CHOOSE c \in context : TRUE]
        kept == {p \in live[r] : p.context \notin context}
    IN IF e.action = "http" THEN live[r]
       ELSE {p \in kept : <<p.origin, p.path, p.identity>> # <<page.origin, page.path, page.identity>>}
            \cup {page}

_drop_live_pages(r, i) == {p \in live[r] : ~(p.origin = i.origin /\ p.identity = i.identity)}

SettleFailed(r) ==
    LET e == exps[cur[r].exp] IN
    /\ pc[r] = "settle" /\ e.status \in {"INVOCATION_FAILED", "UNKNOWN_OUTCOME"}
    /\ log' = IF e.status = "INVOCATION_FAILED" THEN _append_event(log, e.item, "FAILED_TERMINAL") ELSE log
    /\ pc' = [pc EXCEPT ![r] = "stop"]
    /\ UNCHANGED <<run, facts, templates, exps, receipts, live, cur, launched, drives, crashes>>

(* TX B: what has no receipt yet is read and projected ... *)
Project(r) ==
    /\ pc[r] = "settle" /\ exps[cur[r].exp].status \notin {"INVOCATION_FAILED", "UNKNOWN_OUTCOME"}
    /\ pc' = [pc EXCEPT ![r] = "project"]
    /\ \E st \in reconcile_missing_projections(Unprojected) :
          cur' = [cur EXCEPT ![r].pend = Unprojected, ![r].rows = Rows(st)]
    /\ UNCHANGED <<run, db, exps, live, launched, drives, crashes>>

(* The item's event after the answer to experiment e. *)
Settled(l, e) ==
    CASE e.status = "OBSERVATION_PRODUCED"     -> _append_event(l, e.item, "OBSERVED")
      [] e.status = "REAUTHORIZATION_REQUIRED" -> _append_event(l, e.item, "AWAITING_REAUTHORIZATION")
      [] OTHER                                 -> l

(* What becomes of the cycle and of the pages held when TX B is committed. *)
AfterSettling(r) ==
    LET n == cur[r].exp
        e == exps[n]
        observed == e.status = "OBSERVATION_PRODUCED"
    IN /\ IF _bound_stop_reason(Projected(r))
          THEN pc' = [pc EXCEPT ![r] = "stop"] /\ UNCHANGED <<cur, drives>>
          ELSE _complete_cycle(r)
       /\ live' = [live EXCEPT ![r] =
                     CASE observed -> _remember_live_page(r, n)
                       [] ~observed /\ proposed_capability(e.item) = "browser.page" -> _drop_live_pages(r, e.item)
                       [] OTHER -> @]
       /\ UNCHANGED <<run, exps, launched, crashes>>

(* Faulty variant: the item's event is committed first, and the projection left to the
   next cycle. *)
SettleUnprojected(r) ==
    /\ pc[r] = "project"
    /\ log' = Settled(log, exps[cur[r].exp]) /\ UNCHANGED <<facts, templates, receipts>>
    /\ AfterSettling(r)

(* ... and committed with the item's event; so is the answer to whether the
   bounds are reached.  A conflict (Fail) leaves the item SELECTED. *)
Settle(r) ==
    /\ pc[r] = "project" /\ ~Clash(r)
    /\ Commit(r, Settled(Projected(r), exps[cur[r].exp]))
    /\ AfterSettling(r)

(* A process ends anywhere between two transactions, and its pages with it. *)
Crash(r) ==
    /\ pc[r] # "down" /\ run = "open" /\ crashes < MaxCrashes
    /\ crashes' = crashes + 1
    /\ pc' = [pc EXCEPT ![r] = "down"] /\ cur' = [cur EXCEPT ![r] = Idle]
    /\ UNCHANGED <<run, db, exps, live, launched, drives>>

Step(r) ==
    \/ Start(r) \/ _step_surface_discovery(r) \/ ensure_started(r) \/ Seed(r)
    \/ Select(r) \/ Fail(r) \/ claim_frontier_selected(r) \/ _block(r) \/ _stop(r)
    \/ _reobserve(r) \/ Prepare(r) \/ Dispatch(r) \/ Answer(r) \/ Ingest(r)
    \/ SettleFailed(r) \/ Project(r) \/ Settle(r)

Next == \E r \in Runners : Step(r) \/ Crash(r)

(* A process that is up goes on, and one that is down is started again. *)
Fairness == \A r \in Runners : WF_vars(Step(r))

Spec == Init /\ [][Next]_vars /\ Fairness

----------------------------------------------------------------------------
(* Properties *)

(* Every item's events are a path of LEGAL_TRANSITIONS, whichever runners
   wrote them, but for the block of a foreign item, which two may write; and
   the worker was called for it at most once for each time it was claimed: a
   replay of TX B does not dispatch again. *)
LegalHistory ==
    \A i \in DOMAIN log :
       /\ \A k \in DOMAIN log[i] :
             \/ legal_frontier_transition(SubSeq(log[i], 1, k - 1), log[i][k])
             \/ i.origin # Origin /\ log[i][k] = "BLOCKED_SCOPE" /\ log[i][k - 1] = "BLOCKED_SCOPE"
       /\ Cardinality({n \in DOMAIN exps : exps[n].item = i /\ exps[n].attempt # ""})
            <= Cardinality({k \in DOMAIN log[i] : log[i][k] = "SELECTED"})

(* TX B is whole: each time an item is OBSERVED an observation of it has been
   projected, whether by the runner that made it, by one that found it without
   a receipt, or by both at once, when the commit of one is refused. *)
ObservedIsProjected ==
    \A i \in DOMAIN log :
        Cardinality({k \in DOMAIN log[i] : log[i][k] = "OBSERVED"})
          <= Cardinality({n \in receipts : exps[n].item = i /\ exps[n].status = "OBSERVATION_PRODUCED"})

(* A crash after TX A and before TX B is recovered: an observation that is
   stored is projected sooner or later, also when the cycle that stored it
   was the last one the bounds allow. *)
EveryObservationIsProjected ==
    \A n \in 1..Bounds.max_discovery_cycles :
        (n \in DOMAIN exps /\ exps[n].stored /\ exps[n].status = "OBSERVATION_PRODUCED") ~> (n \in receipts)
=============================================================================
