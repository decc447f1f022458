---------------------------- MODULE BudgetLedger ----------------------------
(***************************************************************************)
(* The append-only consumption ledger of one IssuedBudget, charged by      *)
(* concurrent supervisors of its run (the lease holder and any predecessor *)
(* still in a step).                                                       *)
(*                                                                         *)
(* Two kinds of transaction charge it: BudgetEnforcedModelPort.complete    *)
(* reserves a MODEL_CALL before the model is called, and                   *)
(* ExecutePlannedExperiment.dispatch reserves a WORKER_INVOCATION and the  *)
(* REQUESTs of an attempt together with its DISPATCHING mark.  Both go     *)
(* through insert_within_allowance: lock the issued_budget row, list the   *)
(* ledger, skip a charge made before, refuse one that exceeds the          *)
(* allowance, insert.  Every statement is an action of its own.            *)
(***************************************************************************)
EXTENDS Integers, FiniteSets

CONSTANTS Proc,           \* supervisors
          Nobody,         \* a row lock nobody holds
          ModelRequest,   \* invocation ids of model calls
          Attempt,        \* execution attempts (their request ids)
          NoRequest,      \* a supervisor outside a transaction
          MaxModelCalls,  \* orchestration.max_model_calls
          MaxToolCalls,   \* issued.max_tool_calls
          MaxRequests,    \* issued.max_requests
          PageRequests    \* BROWSER_PAGE_MAX_NETWORK_REQUESTS

ASSUME NobodyAssumption == Nobody \notin Proc
ASSUME RequestAssumption ==
    /\ ModelRequest \cap Attempt = {}
    /\ NoRequest \notin ModelRequest \cup Attempt
ASSUME AllowanceAssumption ==
    /\ MaxModelCalls \in Nat /\ MaxToolCalls \in Nat
    /\ MaxRequests \in Nat /\ PageRequests \in Nat \ {0}

Resource == {"MODEL_CALL", "WORKER_INVOCATION", "REQUEST"}

Allowance == [MODEL_CALL |-> MaxModelCalls, WORKER_INVOCATION |-> MaxToolCalls,
              REQUEST |-> MaxRequests]

(* How an attempt is charged: an HTTP exchange is one request, a reused raw
   connection two, a browser page as many as are left, up to PageRequests. *)
Capability == {"exchange", "reuse", "page"}

(***************************************************************************)
(* A ledger row of amount n for a request is kept as n units, so that the  *)
(* sum over the rows of a resource is the number of its units.             *)
(***************************************************************************)
Unit == [resource : Resource, request : ModelRequest \cup Attempt, nr : Nat]

Charge(resource, q, n) ==
    {[resource |-> resource, request |-> q, nr |-> i] : i \in 1 .. n}

UnitsOf(l, resource) == {u \in l : u.resource = resource}

RowOf(l, resource, q) == {u \in l : u.resource = resource /\ u.request = q}

(* ledger_totals *)
Total(l, resource) == Cardinality(UnitsOf(l, resource))

(* remaining_for_resource and remaining_model_calls *)
Remaining(l, resource) == Allowance[resource] - Total(l, resource)

Recorded(l, resource, q) == RowOf(l, resource, q) # {}

(* assert_within_allowance *)
Within(l, resource, n) == n <= Remaining(l, resource)

(* insert_within_allowance, on the listed rows l: what it inserts. *)
Inserted(l, resource, q, n) ==
    IF Recorded(l, resource, q) THEN {} ELSE Charge(resource, q, n)

Accepts(l, resource, q, n) == Recorded(l, resource, q) \/ Within(l, resource, n)

VARIABLES
    ledger,      \* the committed rows of budget_consumption
    attempt,     \* attempt[a]: AUTHORIZED or DISPATCHING
    capability,  \* capability[a]: how attempt a is charged
    lock,        \* who holds the issued_budget row FOR UPDATE
    rowlock,     \* rowlock[a]: who has an uncommitted UPDATE of attempt a
    pc,          \* pc[p]: where supervisor p is
    req,         \* req[p]: the request it reserves for
    amount,      \* amount[p]: the REQUESTs it is about to reserve
    seen,        \* seen[p]: the rows it listed under the lock
    called,      \* the requests for which the model or a Worker was called
    granted      \* granted[a]: most requests one Worker call for page a was granted

locks == <<lock, rowlock>>
vars  == <<ledger, attempt, capability, lock, rowlock, pc, req, amount, seen,
           called, granted>>

Reserving == {"lock", "list", "charge"}
PC == {"idle", "call", "mark", "amount", "invoke"} \cup Reserving

Init ==
    /\ ledger = {}
    /\ attempt = [a \in Attempt |-> "AUTHORIZED"]
    /\ capability \in [Attempt -> Capability]
    /\ lock = Nobody
    /\ rowlock = [a \in Attempt |-> Nobody]
    /\ pc = [p \in Proc |-> "idle"]
    /\ req = [p \in Proc |-> NoRequest]
    /\ amount = [p \in Proc |-> 0]
    /\ seen = [p \in Proc |-> {}]
    /\ called = {}
    /\ granted = [a \in Attempt |-> 0]

Goto(p, point) == pc' = [pc EXCEPT ![p] = point]

(* Faulty variant: the session keeps the issued_budget row locked. *)
EndLeavingLock(p) ==
    /\ UNCHANGED lock
    /\ rowlock' = [a \in Attempt |-> IF rowlock[a] = p THEN Nobody ELSE rowlock[a]]
    /\ seen' = [seen EXCEPT ![p] = {}]

(* The transaction of p ends, committed or not: its locks are released. *)
EndTransaction(p) ==
    /\ lock' = IF lock = p THEN Nobody ELSE lock
    /\ rowlock' = [a \in Attempt |-> IF rowlock[a] = p THEN Nobody ELSE rowlock[a]]
    /\ seen' = [seen EXCEPT ![p] = {}]

(* p is out of the reservation, its memory of it forgotten. *)
Forget(p) ==
    /\ Goto(p, "idle")
    /\ req' = [req EXCEPT ![p] = NoRequest]
    /\ amount' = [amount EXCEPT ![p] = 0]

----------------------------------------------------------------------------
(* BudgetEnforcedModelPort.complete and RecordBudgetConsumption.execute. *)

(* The look at the ledger before the lock: a replay is not charged again. *)
ReserveModelCall(p) ==
    /\ pc[p] = "idle"
    /\ \E q \in ModelRequest :
          /\ req' = [req EXCEPT ![p] = q]
          /\ Goto(p, IF Recorded(ledger, "MODEL_CALL", q) THEN "call" ELSE "lock")
    /\ amount' = [amount EXCEPT ![p] = 1]
    /\ UNCHANGED <<ledger, attempt, capability, locks, seen, called, granted>>

(* The reservation is committed, or BudgetConsumptionRejected is raised. *)
ChargeModelCall(p) ==
    /\ pc[p] = "charge" /\ req[p] \in ModelRequest
    /\ \/ /\ Accepts(seen[p], "MODEL_CALL", req[p], amount[p])
          /\ ledger' = ledger \cup Inserted(seen[p], "MODEL_CALL", req[p], amount[p])
          /\ Goto(p, "call")
          /\ UNCHANGED <<req, amount>>
       \/ /\ ~Accepts(seen[p], "MODEL_CALL", req[p], amount[p])
          /\ Forget(p)
          /\ UNCHANGED ledger
    /\ EndTransaction(p)
    /\ UNCHANGED <<attempt, capability, called, granted>>

(* Faulty variant: the invocation's identity is lost before it is noted. *)
CallModelUnnamed(p) ==
    /\ pc[p] = "call"
    /\ Forget(p)
    /\ called' = called \cup {req'[p]}
    /\ UNCHANGED <<ledger, attempt, capability, locks, seen, granted>>

CallModel(p) ==
    /\ pc[p] = "call"
    /\ called' = called \cup {req[p]}
    /\ Forget(p)
    /\ UNCHANGED <<ledger, attempt, capability, locks, seen, granted>>

----------------------------------------------------------------------------
(* ExecutePlannedExperiment.dispatch. *)

(* The attempt is read without a lock: two supervisors may both see it
   AUTHORIZED. *)
ReadAttempt(p) ==
    /\ pc[p] = "idle"
    /\ \E a \in Attempt : attempt[a] = "AUTHORIZED" /\ req' = [req EXCEPT ![p] = a]
    /\ Goto(p, "mark")
    /\ UNCHANGED <<ledger, attempt, capability, locks, amount, seen, called, granted>>

(* set_state(DISPATCHING): the UPDATE waits for an uncommitted one. *)
MarkDispatching(p) ==
    /\ pc[p] = "mark"
    /\ rowlock[req[p]] = Nobody
    /\ rowlock' = [rowlock EXCEPT ![req[p]] = p]
    /\ Goto(p, "amount")
    /\ UNCHANGED <<ledger, attempt, capability, lock, req, amount, seen, called, granted>>

(* _request_consumption_amount, for a page from an unlocked look at the
   ledger; nothing left is BudgetOverspendError, which rolls everything back. *)
RequestAmount(p) ==
    /\ pc[p] = "amount"
    /\ LET left == Remaining(ledger, "REQUEST")
           kind == capability[req[p]]
       IN \/ /\ kind = "page" /\ left < 1
             /\ Forget(p)
             /\ EndTransaction(p)
          \/ /\ kind = "page" => left >= 1
             /\ amount' = [amount EXCEPT ![p] =
                   CASE kind = "exchange" -> 1
                     [] kind = "reuse" -> 2
                     [] kind = "page" -> IF left < PageRequests THEN left
                                         ELSE PageRequests]
             /\ Goto(p, "lock")
             /\ UNCHANGED <<req, seen, locks>>
    /\ UNCHANGED <<ledger, attempt, capability, called, granted>>

(* Faulty variant: the reservation is charged on its own, and a refusal
   leaves the invocation charged and undone. *)
ChargeInvocationFirst(p) ==
    /\ pc[p] = "charge" /\ req[p] \in Attempt
    /\ LET a == req[p]
           invocation == Accepts(seen[p], "WORKER_INVOCATION", a, 1)
           requests   == Accepts(seen[p], "REQUEST", a, amount[p])
       IN /\ ledger' = ledger
                \cup (IF invocation THEN Inserted(seen[p], "WORKER_INVOCATION", a, 1)
                      ELSE {})
                \cup (IF invocation /\ requests
                      THEN Inserted(seen[p], "REQUEST", a, amount[p]) ELSE {})
          /\ IF invocation /\ requests
             THEN /\ attempt' = [attempt EXCEPT ![a] = "DISPATCHING"]
                  /\ Goto(p, "invoke")
                  /\ UNCHANGED <<req, amount>>
             ELSE Forget(p) /\ UNCHANGED attempt
    /\ EndTransaction(p)
    /\ UNCHANGED <<capability, called, granted>>

(* _record_dispatch_consumption and the commit: the mark and both charges,
   or, when either charge is refused, nothing at all. *)
ChargeDispatch(p) ==
    /\ pc[p] = "charge" /\ req[p] \in Attempt
    /\ LET a == req[p]
           accepted == /\ Accepts(seen[p], "WORKER_INVOCATION", a, 1)
                       /\ Accepts(seen[p], "REQUEST", a, amount[p])
       IN \/ /\ accepted
             /\ ledger' = ledger \cup Inserted(seen[p], "WORKER_INVOCATION", a, 1)
                                 \cup Inserted(seen[p], "REQUEST", a, amount[p])
             /\ attempt' = [attempt EXCEPT ![a] = "DISPATCHING"]
             /\ Goto(p, "invoke")
             /\ UNCHANGED <<req, amount>>
          \/ /\ ~accepted
             /\ Forget(p)
             /\ UNCHANGED <<ledger, attempt>>
    /\ EndTransaction(p)
    /\ UNCHANGED <<capability, called, granted>>

(* Faulty variant: a page may always send as much as a page can. *)
InvokeWorkerUncapped(p) ==
    /\ pc[p] = "invoke"
    /\ granted' = [granted EXCEPT ![req[p]] =
                      IF capability[req[p]] = "page" THEN PageRequests ELSE @]
    /\ called' = called \cup {req[p]}
    /\ Forget(p)
    /\ UNCHANGED <<ledger, attempt, capability, locks, seen>>

(* The Worker is called; that of a page is told the amount reserved, as its
   max_attempted_requests, any other what its plan says. *)
InvokeWorker(p) ==
    /\ pc[p] = "invoke"
    /\ granted' = [granted EXCEPT ![req[p]] =
                      IF capability[req[p]] = "page" /\ @ < amount[p] THEN amount[p] ELSE @]
    /\ called' = called \cup {req[p]}
    /\ Forget(p)
    /\ UNCHANGED <<ledger, attempt, capability, locks, seen>>

(* The fenced port refuses: another supervisor has the run. *)
InvocationRefused(p) ==
    /\ pc[p] = "invoke"
    /\ Forget(p)
    /\ UNCHANGED <<ledger, attempt, capability, locks, seen, called, granted>>

----------------------------------------------------------------------------
(* insert_within_allowance, the statements both transactions share. *)

(* Faulty variant: the row is read without FOR UPDATE. *)
LockNothing(p) ==
    /\ pc[p] = "lock"
    /\ lock' = p
    /\ Goto(p, "list")
    /\ UNCHANGED <<ledger, attempt, capability, rowlock, req, amount, seen, called,
                   granted>>

LockBudget(p) ==
    /\ pc[p] = "lock"
    /\ lock = Nobody
    /\ lock' = p
    /\ Goto(p, "list")
    /\ UNCHANGED <<ledger, attempt, capability, rowlock, req, amount, seen, called,
                   granted>>

ListLedger(p) ==
    /\ pc[p] = "list"
    /\ seen' = [seen EXCEPT ![p] = ledger]
    /\ Goto(p, "charge")
    /\ UNCHANGED <<ledger, attempt, capability, locks, req, amount, called, granted>>

(* The process dies and the server rolls its transaction back. *)
Crash(p) ==
    /\ pc[p] # "idle"
    /\ Forget(p)
    /\ EndTransaction(p)
    /\ UNCHANGED <<ledger, attempt, capability, called, granted>>

----------------------------------------------------------------------------
Step(p) ==
    \/ ChargeModelCall(p) \/ CallModel(p)
    \/ RequestAmount(p) \/ ChargeDispatch(p)
    \/ InvokeWorker(p) \/ InvocationRefused(p)
    \/ ListLedger(p)

Wait(p) == MarkDispatching(p) \/ LockBudget(p)

Begin(p) == ReserveModelCall(p) \/ ReadAttempt(p)

Next == \E p \in Proc : Step(p) \/ Wait(p) \/ Begin(p) \/ Crash(p)

Spec == Init /\ [][Next]_vars

(* Statements return; a waiter for a row lock that keeps being released gets
   it (PostgreSQL queues the waiters of a row). *)
Fairness == \A p \in Proc : WF_vars(Step(p)) /\ SF_vars(Wait(p))

FairSpec == Spec /\ Fairness

----------------------------------------------------------------------------
(* Every variable has a value the code can give it. *)
TypeOK ==
    /\ ledger \subseteq Unit
    /\ attempt \in [Attempt -> {"AUTHORIZED", "DISPATCHING"}]
    /\ capability \in [Attempt -> Capability]
    /\ lock \in Proc \cup {Nobody}
    /\ rowlock \in [Attempt -> Proc \cup {Nobody}]
    /\ pc \in [Proc -> PC]
    /\ req \in [Proc -> ModelRequest \cup Attempt \cup {NoRequest}]
    /\ amount \in [Proc -> Nat]
    /\ seen \in [Proc -> SUBSET Unit]
    /\ called \subseteq ModelRequest \cup Attempt
    /\ granted \in [Attempt -> Nat]

(***************************************************************************)
(* No resource is overspent, however reservations overlap: the row lock    *)
(* taken before the ledger is summed is what insert_within_allowance rests *)
(* on ("row lock + ledger sum before insert").                             *)
(***************************************************************************)
WithinAllowance ==
    \A resource \in Resource : Total(ledger, resource) <= Allowance[resource]

(***************************************************************************)
(* An attempt is DISPATCHING exactly when both its charges are in the      *)
(* ledger: a refused or crashed dispatch leaves neither half behind, and   *)
(* the two dispatchers of a contested attempt do not charge it twice.      *)
(***************************************************************************)
DispatchedIsCharged ==
    \A a \in Attempt :
        /\ attempt[a] = "DISPATCHING" <=> Recorded(ledger, "WORKER_INVOCATION", a)
        /\ attempt[a] = "DISPATCHING" <=> Recorded(ledger, "REQUEST", a)

(***************************************************************************)
(* Reserved before spent: the model and the Workers are only called for a  *)
(* request that the ledger charges, and the Worker of a page is never told *)
(* it may send more requests than the ledger charges to its attempt, not   *)
(* even by the late one of two dispatchers, which computed its own amount. *)
(***************************************************************************)
SpentWasReserved ==
    /\ \A q \in called :
          \/ Recorded(ledger, "MODEL_CALL", q)
          \/ Recorded(ledger, "WORKER_INVOCATION", q) /\ Recorded(ledger, "REQUEST", q)
    /\ \A a \in Attempt : granted[a] <= Cardinality(RowOf(ledger, "REQUEST", a))

(***************************************************************************)
(* A reservation ends, granted or refused: no transaction that waits for   *)
(* the attempt row or for the issued_budget row waits for ever.            *)
(***************************************************************************)
EveryReservationEnds == \A p \in Proc : pc[p] # "idle" ~> pc[p] = "idle"
=============================================================================
