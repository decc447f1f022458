-------------------------- MODULE OrchestrationRow --------------------------
(***************************************************************************)
(* The research_orchestration row of one ResearchRun and the conditional   *)
(* UPDATE statements of PostgresResearchOrchestrationRepository            *)
(* (data/postgres/repositories.py).  Every operator is a function of a     *)
(* row: what the WHERE clause of a statement accepts, and the row that the *)
(* statement leaves.  PostgreSQL evaluates a single-row UPDATE on the      *)
(* latest committed row, so a module that uses one of them in one action   *)
(* models one statement.                                                   *)
(*                                                                         *)
(* Time.  lease_expires_at is kept as `left`, the number of time units     *)
(* until it passes: `left = 0` is lease_expires_at < now.  A unit of time  *)
(* takes one off every copy of the row, stored or remembered (Older), so   *)
(* time needs no bound.                                                    *)
(***************************************************************************)
EXTENDS Integers

CONSTANTS Runtime,     \* runtime_instance_ids
          NoOwner,     \* owner_runtime_instance_id IS NULL
          Experiment,  \* experiment ids
          NoExperiment,\* last_experiment_id IS NULL
          TTL          \* lease_ttl_seconds, in time units

ASSUME OwnerAssumption == NoOwner \notin Runtime
ASSUME ExperimentAssumption == NoExperiment \notin Experiment
ASSUME TTLAssumption == TTL \in Nat \ {0}

(***************************************************************************)
(* OrchestrationState, TERMINAL_ORCHESTRATION_STATES and the states in     *)
(* which the controller works at all.                                      *)
(***************************************************************************)
State == {"READY", "RUNNING", "PAUSED", "WAITING_HUMAN", "BLOCKED",
          "BUDGET_EXHAUSTED", "COMPLETED", "FAILED_OPERATIONAL"}

Terminal == {"COMPLETED", "BUDGET_EXHAUSTED", "FAILED_OPERATIONAL"}

Runnable == {"READY", "RUNNING"}

(***************************************************************************)
(* current_phase, as far as a resuming step tells phases apart: CYCLE (a   *)
(* new cycle may begin), PLANNED (EXPERIMENT_PLANNED to                    *)
(* ATTEMPT_AUTHORIZED) and RESULT (WORKER_RESULT_RECORDED to               *)
(* TRANSITION_B_COMPLETE).  DISPATCHING is only ever written together with *)
(* FAILED_OPERATIONAL, which no step resumes.                              *)
(***************************************************************************)
Phase == {"CYCLE", "PLANNED", "RESULT"}

Row == [state : State,
        owner : Runtime \cup {NoOwner},
        epoch : Nat,
        left  : 0 .. TTL,
        cycle : Nat,
        phase : Phase,
        exp   : Experiment \cup {NoExperiment}]

(* The row AutonomousResearchController.start inserts: never leased. *)
FreshRow == [state |-> "READY", owner |-> NoOwner, epoch |-> 0, left |-> 0,
             cycle |-> 0, phase |-> "CYCLE", exp |-> NoExperiment]

(* Faulty variant: a lease that runs past its end. *)
OlderUnfloored(row) == [row EXCEPT !.left = @ - 1]

(* One unit of time passes for a copy of the row. *)
Older(row) == [row EXCEPT !.left = IF @ > 0 THEN @ - 1 ELSE 0]

Expired(row) == row.left = 0

----------------------------------------------------------------------------
(* Faulty variant: the lease of a dead owner is never taken over. *)
CanAcquireUnowned(row, me) ==
    row.state \notin Terminal /\ row.owner \in {NoOwner, me}

(* acquire_lease: non-terminal, and unowned, mine already, or expired. *)
CanAcquire(row, me) ==
    /\ row.state \notin Terminal
    /\ row.owner = NoOwner \/ row.owner = me \/ Expired(row)

Acquired(row, me) ==
    [row EXCEPT !.owner = me, !.epoch = @ + 1, !.left = TTL]

(* The (owner, epoch) pair that renew, release and a fenced save insist on. *)
Holds(row, me, epoch) == row.owner = me /\ row.epoch = epoch

(* renew_lease: an expired lease nobody else took is renewed as well. *)
CanRenew(row, me, epoch) ==
    Holds(row, me, epoch) /\ row.state \notin Terminal

Renewed(row) == [row EXCEPT !.left = TTL]

(* Faulty variant: the epoch is cleared together with the owner. *)
ReleasedForgetful(row) == [row EXCEPT !.owner = NoOwner, !.left = 0, !.epoch = 0]

(* release_lease: allowed on a terminal row; the epoch stays. *)
CanRelease(row, me, epoch) == Holds(row, me, epoch)

Released(row) == [row EXCEPT !.owner = NoOwner, !.left = 0]

(* Faulty variant: the terminal states are not protected. *)
CanSaveAnything(row) == TRUE

(***************************************************************************)
(* save: the two forms of its WHERE clause that a zestd process uses,      *)
(* unfenced and fenced.  A save that is accepted writes the caller's whole *)
(* record, lease columns included, so the new row is the record itself.    *)
(***************************************************************************)
CanSave(row) == row.state \notin Terminal

CanSaveFenced(row, me, epoch) == CanSave(row) /\ Holds(row, me, epoch)

(* ZestdRuntime._lease_held_by_other *)
HeldByOther(row, me) == row.owner \notin {NoOwner, me} /\ ~Expired(row)
=============================================================================
