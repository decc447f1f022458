--------------------------- MODULE RunSupervision ---------------------------
(***************************************************************************)
(* One ResearchRun driven by several zestd processes.                      *)
(*                                                                         *)
(* Each runtime r has a supervisor thread (LocalRunSupervisor: renew the   *)
(* lease, reload, run AutonomousResearchController.step, release on stop)  *)
(* and a management thread (ZestdRuntime: recover_runs at start, then the  *)
(* operator's START, PAUSE, RESUME and CANCEL).  They share the            *)
(* research_orchestration row, the execution_attempt rows and the Worker.  *)
(* Every action is one database transaction or one external call, except   *)
(* that a transaction that reads and later writes under READ COMMITTED is  *)
(* split at that point, so that two of them can overlap.                   *)
(***************************************************************************)
EXTENDS OrchestrationRow, FiniteSets

CONSTANTS Attempt,     \* execution_attempt ids
          NoAttempt,   \* a step that has no attempt in hand
          MaxCycles,   \* bounds.max_cycles
          MaxEpoch,    \* bound of the model: leases granted in a behaviour
          CycleBound,  \* bound of the model: cycles closed by a denied dispatch
          Command,     \* the operator commands a behaviour may use
          MaxCommands  \* bound of the model: commands given in a behaviour

ASSUME AttemptAssumption == NoAttempt \notin Attempt
ASSUME BoundAssumption ==
    /\ MaxCycles \in Nat /\ MaxEpoch \in Nat
    /\ CycleBound \in Nat /\ MaxCommands \in Nat
ASSUME CommandAssumption ==
    Command \subseteq {"START", "PAUSE", "RESUME", "CANCEL"}

VARIABLES
    row,      \* the research_orchestration row
    attempt,  \* the execution_attempt table: the experiment and state of each
    planned,  \* the experiments inserted so far
    invoked,  \* invoked[a]: how often the Worker was called for attempt a
    proc,     \* proc[r]: the life of the process of runtime r
    pc,       \* pc[r]: where the supervisor thread of r is
    held,     \* held[r]: the lease_epoch this supervisor was built with
    cur,      \* cur[r]: the orchestration record `current` of a step
    att,      \* att[r]: the attempt a step is dispatching
    mode,     \* mode[r]: which path of the controller reached the attempt
    goal,     \* goal[r]: the state with which the step will close the cycle
    stop,     \* stop[r]: the _stop_event of a live supervisor
    mpc,      \* mpc[r]: where the management thread of r is
    mcur,     \* mcur[r]: the record read by its open transaction
    given,    \* how many operator commands were given
    reverted  \* history: an unfenced save has put back a lease that had
              \* changed since it was read

db    == <<row, attempt, planned, invoked>>
super == <<pc, held, cur, att, mode, goal, stop>>
mgr   == <<mpc, mcur, given, reverted>>
vars  == <<row, attempt, planned, invoked, proc, pc, held, cur, att, mode,
           goal, stop, mpc, mcur, given, reverted>>

(* FAILED stands for FAILED, TIMED_OUT and CANCELLED; NONE: not inserted. *)
AttemptState == {"NONE", "AUTHORIZED", "DISPATCHING", "COMPLETED", "FAILED",
                 "UNKNOWN_OUTCOME"}

AttemptRecord == [exp : Experiment \cup {NoExperiment}, state : AttemptState]

Open == {"DISPATCHING", "UNKNOWN_OUTCOME"}

(* The program points of a supervisor thread, in the order of a cycle. *)
StepPC == {"step", "mark", "plan", "auth", "insert", "read", "dispatch",
           "fence", "call", "wait", "result", "close"}
PC == {"off", "loop"} \cup StepPC

(* The points at which the management thread holds an open transaction. *)
Saving == {"HOLD", "PAUSE", "RESUME", "CANCEL"}
MPC == {"off", "list", "classify", "attach", "idle", "stop"} \cup Saving

Init ==
    /\ row = FreshRow
    /\ attempt = [a \in Attempt |-> [exp |-> NoExperiment, state |-> "NONE"]]
    /\ planned = {}
    /\ invoked = [a \in Attempt |-> 0]
    /\ proc = [r \in Runtime |-> "new"]
    /\ pc = [r \in Runtime |-> "off"]
    /\ held = [r \in Runtime |-> 0]
    /\ cur = [r \in Runtime |-> FreshRow]
    /\ att = [r \in Runtime |-> NoAttempt]
    /\ mode = [r \in Runtime |-> "cycle"]
    /\ goal = [r \in Runtime |-> "READY"]
    /\ stop = [r \in Runtime |-> FALSE]
    /\ mpc = [r \in Runtime |-> "off"]
    /\ mcur = [r \in Runtime |-> FreshRow]
    /\ given = 0
    /\ reverted = FALSE

----------------------------------------------------------------------------
(* Helpers of the supervisor thread. *)

Goto(r, point) == pc' = [pc EXCEPT ![r] = point]

(* The thread is back at the loop, its step's memory forgotten. *)
Forget(r) ==
    /\ cur' = [cur EXCEPT ![r] = FreshRow]
    /\ att' = [att EXCEPT ![r] = NoAttempt]
    /\ mode' = [mode EXCEPT ![r] = "cycle"]
    /\ goal' = [goal EXCEPT ![r] = "READY"]

(***************************************************************************)
(* A save of the fenced repository that raises.  On a terminal row it is   *)
(* TerminalOrchestrationStateError: tick reloads, sees a terminal state    *)
(* and sets the stop event.  Otherwise it is LeaseFencingError: the lease  *)
(* is lost, the thread ends and releases nothing.                          *)
(***************************************************************************)
SaveRaises(r) ==
    /\ ~CanSaveFenced(row, r, held[r])
    /\ Forget(r)
    /\ IF row.state \in Terminal
       THEN Goto(r, "loop") /\ stop' = [stop EXCEPT ![r] = TRUE]
       ELSE Goto(r, "off") /\ stop' = [stop EXCEPT ![r] = FALSE]
    /\ UNCHANGED <<db, proc, held, mgr>>

(* The step will close its cycle and leave the run in state s. *)
CloseWith(r, s) ==
    /\ Goto(r, "close")
    /\ goal' = [goal EXCEPT ![r] = s]

(* MAX_CYCLES_REACHED is decided from the remembered cycle_number. *)
AfterCycle(r) == IF cur[r].cycle + 1 >= MaxCycles THEN "COMPLETED" ELSE "READY"

(* AttemptsOf: list_for_experiment *)
AttemptsOf(x) == {a \in Attempt : attempt[a].state # "NONE" /\ attempt[a].exp = x}

SetState(a, s) == attempt' = [attempt EXCEPT ![a].state = s]

----------------------------------------------------------------------------
(* The supervisor's loop: LocalRunSupervisor._run, tick and the registry. *)

(***************************************************************************)
(* A stop was asked for: leave the loop and release the lease if it is     *)
(* ours.  A release that fails is swallowed and the lease is left to       *)
(* expire.                                                                 *)
(***************************************************************************)
SupervisorExit(r) ==
    /\ pc[r] = "loop" /\ stop[r]
    /\ Goto(r, "off")
    /\ \/ row' = IF CanRelease(row, r, held[r]) THEN Released(row) ELSE row
       \/ UNCHANGED row
    /\ stop' = [stop EXCEPT ![r] = FALSE]
    /\ UNCHANGED <<attempt, planned, invoked, proc, held, cur, att, mode, goal,
                   mgr>>

(* The heartbeat or the reload of a tick cannot reach the database: the
   exception ends the thread, and nothing is released. *)
TickFault(r) ==
    /\ pc[r] = "loop" /\ ~stop[r]
    /\ Goto(r, "off")
    /\ UNCHANGED <<db, proc, held, cur, att, mode, goal, stop, mgr>>

(* Faulty variant: the heartbeat goes on for a supervisor that was asked to
   stop. *)
RenewWhileStopping(r) ==
    /\ pc[r] = "loop"
    /\ \/ /\ CanRenew(row, r, held[r])
          /\ row' = Renewed(row)
          /\ UNCHANGED pc
       \/ /\ ~CanRenew(row, r, held[r])
          /\ Goto(r, "off")
          /\ UNCHANGED row
    /\ UNCHANGED <<attempt, planned, invoked, proc, held, cur, att, mode, goal,
                   stop, mgr>>

(* A heartbeat is due: renew, or give the run up when the renewal is refused. *)
RenewLease(r) ==
    /\ pc[r] = "loop" /\ ~stop[r]
    /\ \/ /\ CanRenew(row, r, held[r])
          /\ row' = Renewed(row)
          /\ UNCHANGED pc
       \/ /\ ~CanRenew(row, r, held[r])
          /\ Goto(r, "off")
          /\ UNCHANGED row
    /\ UNCHANGED <<attempt, planned, invoked, proc, held, cur, att, mode, goal,
                   stop, mgr>>

(* Reload: a runnable row starts a controller step, a terminal one ends it. *)
Tick(r) ==
    /\ pc[r] = "loop" /\ ~stop[r]
    /\ \/ /\ row.state \in Runnable
          /\ Goto(r, "step")
          /\ cur' = [cur EXCEPT ![r] = row]
          /\ UNCHANGED stop
       \/ /\ row.state \in Terminal
          /\ stop' = [stop EXCEPT ![r] = TRUE]
          /\ UNCHANGED <<pc, cur>>
    /\ UNCHANGED <<db, proc, held, att, mode, goal, mgr>>

(***************************************************************************)
(* An exception other than the two lease errors, anywhere in a step:       *)
(* stop_for_operational_failure on the freshly read row, through the same  *)
(* fence, which may fail in turn; the thread stops either way.             *)
(***************************************************************************)
StepFault(r) ==
    /\ pc[r] \in StepPC
    /\ \/ /\ row.state \in Runnable /\ CanSaveFenced(row, r, held[r])
          /\ row' = [row EXCEPT !.state = "FAILED_OPERATIONAL"]
       \/ UNCHANGED row
    /\ Goto(r, "loop")
    /\ stop' = [stop EXCEPT ![r] = TRUE]
    /\ Forget(r)
    /\ UNCHANGED <<attempt, planned, invoked, proc, held, mgr>>

----------------------------------------------------------------------------
(* AutonomousResearchController.step, one action per transaction. *)

(* Which path the persisted phase and the run's attempts call for. *)
Inspect(r) ==
    /\ pc[r] = "step"
    /\ LET open       == {a \in Attempt : attempt[a].state \in Open}
           authorized == {a \in Attempt : attempt[a].state = "AUTHORIZED"}
       IN \/ /\ open # {}
             /\ CloseWith(r, "FAILED_OPERATIONAL")
             /\ UNCHANGED <<att, mode>>
          \/ /\ open = {}
             /\ \E a \in authorized :
                   /\ att' = [att EXCEPT ![r] = a]
                   /\ mode' = [mode EXCEPT ![r] = "authorized"]
                   /\ Goto(r, "read")
                   /\ UNCHANGED goal
          \/ /\ open = {} /\ authorized = {}
             /\ \/ /\ cur[r].phase = "PLANNED"
                   /\ mode' = [mode EXCEPT ![r] = "planned"]
                   /\ Goto(r, "auth")
                   /\ UNCHANGED goal
                \/ /\ cur[r].phase = "RESULT"
                   /\ CloseWith(r, AfterCycle(r))
                   /\ UNCHANGED mode
                \/ /\ cur[r].phase = "CYCLE" /\ cur[r].cycle >= MaxCycles
                   /\ CloseWith(r, "COMPLETED")
                   /\ UNCHANGED mode
                \/ /\ cur[r].phase = "CYCLE" /\ cur[r].cycle < MaxCycles
                   /\ Goto(r, "mark")
                   /\ UNCHANGED <<mode, goal>>
             /\ UNCHANGED att
    /\ UNCHANGED <<db, proc, held, cur, stop, mgr>>

(* _mark_running and the reload after it. *)
MarkRunning(r) ==
    /\ pc[r] = "mark"
    /\ \/ /\ CanSaveFenced(row, r, held[r])
          /\ row' = [cur[r] EXCEPT !.state = "RUNNING"]
          /\ cur' = [cur EXCEPT ![r] = row']
          /\ Goto(r, "plan")
          /\ UNCHANGED <<attempt, planned, invoked, proc, held, att, mode, goal,
                         stop, mgr>>
       \/ SaveRaises(r)

(***************************************************************************)
(* Routing, selection or the model ends the cycle before an experiment; a  *)
(* hypothesis that is not admitted (READY) does not even count as a cycle. *)
(***************************************************************************)
NothingToDo(r) ==
    /\ pc[r] = "plan"
    /\ \/ /\ \E s \in {"COMPLETED", "BLOCKED", "BUDGET_EXHAUSTED",
                       "FAILED_OPERATIONAL"} : CloseWith(r, s)
          /\ UNCHANGED mode
       \/ /\ CloseWith(r, "READY")
          /\ mode' = [mode EXCEPT ![r] = "skip"]
    /\ UNCHANGED <<db, proc, held, cur, att, stop, mgr>>

(* The experiment and the EXPERIMENT_PLANNED checkpoint, one transaction. *)
PlanExperiment(r) ==
    /\ pc[r] = "plan"
    /\ \/ /\ CanSaveFenced(row, r, held[r])
          /\ \E x \in Experiment \ planned :
                /\ planned' = planned \cup {x}
                /\ row' = [cur[r] EXCEPT !.phase = "PLANNED", !.exp = x]
          /\ cur' = [cur EXCEPT ![r] = row']
          /\ Goto(r, "auth")
          /\ UNCHANGED <<attempt, invoked, proc, held, att, mode, goal, stop, mgr>>
       \/ SaveRaises(r)

(* _fail_closed_existing and the reads that open authorize's transaction. *)
ReadExisting(r) ==
    /\ pc[r] = "auth"
    /\ \/ /\ AttemptsOf(cur[r].exp) = {}
          /\ Goto(r, "insert")
          /\ UNCHANGED <<attempt, goal>>
       \/ \E a \in AttemptsOf(cur[r].exp) :
             \/ /\ attempt[a].state = "DISPATCHING"
                /\ SetState(a, "UNKNOWN_OUTCOME")
                /\ CloseWith(r, "FAILED_OPERATIONAL")
             \/ /\ attempt[a].state = "UNKNOWN_OUTCOME"
                /\ CloseWith(r, "FAILED_OPERATIONAL")
                /\ UNCHANGED attempt
             \/ /\ attempt[a].state \in {"AUTHORIZED", "COMPLETED", "FAILED"}
                /\ CloseWith(r, AfterCycle(r))
                /\ UNCHANGED attempt
    /\ UNCHANGED <<row, planned, invoked, proc, held, cur, att, mode, stop, mgr>>

(* Faulty variant: the attempt is inserted without the fenced checkpoint. *)
AuthorizeUnfenced(r) ==
    /\ pc[r] = "insert"
    /\ \E a \in Attempt :
          /\ attempt[a].state = "NONE"
          /\ attempt' = [attempt EXCEPT
                 ![a] = [exp |-> cur[r].exp, state |-> "AUTHORIZED"]]
          /\ att' = [att EXCEPT ![r] = a]
    /\ Goto(r, "read")
    /\ UNCHANGED <<row, planned, invoked, proc, held, cur, mode, goal, stop, mgr>>

(* Core allows: the attempt and the ATTEMPT_AUTHORIZED checkpoint commit
   together, or neither does. *)
Authorize(r) ==
    /\ pc[r] = "insert"
    /\ \/ /\ CanSaveFenced(row, r, held[r])
          /\ \E a \in Attempt :
                /\ attempt[a].state = "NONE"
                /\ attempt' = [attempt EXCEPT
                       ![a] = [exp |-> cur[r].exp, state |-> "AUTHORIZED"]]
                /\ att' = [att EXCEPT ![r] = a]
          /\ row' = [cur[r] EXCEPT !.state = "RUNNING"]
          /\ cur' = [cur EXCEPT ![r] = row']
          /\ Goto(r, "read")
          /\ UNCHANGED <<planned, invoked, proc, held, mode, goal, stop, mgr>>
       \/ SaveRaises(r)

(* Core, or the rate limit before it, denies or asks for a human; or the
   input is rejected, which just ends the cycle. *)
Refuse(r) ==
    /\ pc[r] = "insert"
    /\ \E s \in {"BLOCKED", "WAITING_HUMAN", AfterCycle(r)} : CloseWith(r, s)
    /\ UNCHANGED <<db, proc, held, cur, att, mode, stop, mgr>>

----------------------------------------------------------------------------
(* ExecutePlannedExperiment.dispatch and _record_outcome. *)

(* The read that opens the dispatch transaction. *)
ReadAttempt(r) ==
    /\ pc[r] = "read"
    /\ LET s == attempt[att[r]].state
       IN \/ /\ s = "AUTHORIZED"
             /\ Goto(r, "dispatch")
             /\ UNCHANGED <<attempt, goal>>
          \/ /\ s = "DISPATCHING"
             /\ SetState(att[r], "UNKNOWN_OUTCOME")
             /\ CloseWith(r, "FAILED_OPERATIONAL")
          \/ /\ s = "UNKNOWN_OUTCOME"
             /\ CloseWith(r, "FAILED_OPERATIONAL")
             /\ UNCHANGED attempt
          \/ /\ s \in {"COMPLETED", "FAILED"}
             /\ CloseWith(r, IF mode[r] = "authorized" THEN "READY"
                             ELSE AfterCycle(r))
             /\ UNCHANGED attempt
    /\ UNCHANGED <<row, planned, invoked, proc, held, cur, att, mode, stop, mgr>>

(* Faulty variant: the Worker is called before DISPATCHING is written. *)
DispatchUnmarked(r) ==
    /\ pc[r] = "dispatch"
    /\ Goto(r, "fence")
    /\ UNCHANGED <<db, proc, held, cur, att, mode, goal, stop, mgr>>

(***************************************************************************)
(* set_state is keyed by the attempt id alone: the UPDATE writes           *)
(* DISPATCHING whatever another process has written since the read.        *)
(***************************************************************************)
MarkDispatching(r) ==
    /\ pc[r] = "dispatch"
    /\ SetState(att[r], "DISPATCHING")
    /\ Goto(r, "fence")
    /\ UNCHANGED <<row, planned, invoked, proc, held, cur, att, mode, goal, stop,
                   mgr>>

(* The budget is spent: the transaction rolls back, the attempt stays
   AUTHORIZED; only a freshly authorized one blocks the run.  A resumed one
   is tried again in the next cycle, without end: CycleBound. *)
DispatchDenied(r) ==
    /\ pc[r] = "dispatch"
    /\ cur[r].cycle < CycleBound
    /\ CloseWith(r, IF mode[r] = "authorized" THEN "READY" ELSE "BLOCKED")
    /\ UNCHANGED <<db, proc, held, cur, att, mode, stop, mgr>>

(* Faulty variant: the fence is not consulted. *)
CallUnfenced(r) ==
    /\ pc[r] = "fence"
    /\ Goto(r, "call")
    /\ UNCHANGED <<db, proc, held, cur, att, mode, goal, stop, mgr>>

(* LeaseFencedWorkerPort.invoke: confirm the lease in a transaction of its
   own before the Worker is called. *)
CheckFence(r) ==
    /\ pc[r] = "fence"
    /\ \/ /\ Holds(row, r, held[r])
          /\ Goto(r, "call")
          /\ UNCHANGED <<cur, att, mode, goal, stop>>
       \/ /\ ~Holds(row, r, held[r])
          /\ Goto(r, "off")
          /\ stop' = [stop EXCEPT ![r] = FALSE]
          /\ Forget(r)
    /\ UNCHANGED <<db, proc, held, mgr>>

(* The external side effect. *)
InvokeWorker(r) ==
    /\ pc[r] = "call"
    /\ invoked' = [invoked EXCEPT ![att[r]] = @ + 1]
    /\ Goto(r, "wait")
    /\ UNCHANGED <<row, attempt, planned, proc, held, cur, att, mode, goal, stop,
                   mgr>>

(* The Worker answered, and its outcome is written without a fence. *)
RecordOutcome(r) ==
    /\ pc[r] = "wait"
    /\ \/ /\ SetState(att[r], "UNKNOWN_OUTCOME")
          /\ CloseWith(r, "FAILED_OPERATIONAL")
       \/ /\ mode[r] = "cycle"
          /\ \E s \in {"COMPLETED", "FAILED"} : SetState(att[r], s)
          /\ Goto(r, "result")
          /\ UNCHANGED goal
       \/ /\ mode[r] # "cycle"
          /\ \E s \in {"COMPLETED", "FAILED"} : SetState(att[r], s)
          /\ CloseWith(r, IF mode[r] = "authorized" THEN "READY"
                          ELSE AfterCycle(r))
    /\ UNCHANGED <<row, planned, invoked, proc, held, cur, att, mode, stop, mgr>>

(* The Worker answered and the write of its outcome failed. *)
RecordFails(r) ==
    /\ pc[r] = "wait"
    /\ \/ mode[r] = "cycle" /\ Goto(r, "result") /\ UNCHANGED goal
       \/ mode[r] = "planned" /\ CloseWith(r, AfterCycle(r))
       \/ mode[r] = "authorized" /\ CloseWith(r, "READY")
    /\ UNCHANGED <<db, proc, held, cur, att, mode, stop, mgr>>

(* The checkpoints from WORKER_RESULT_RECORDED to ASSESSMENT_COMPLETE.
   _checkpoint swallows a terminal row: it reloads it and goes on. *)
CheckpointResult(r) ==
    /\ pc[r] = "result"
    /\ \/ /\ CanSaveFenced(row, r, held[r])
          /\ row' = [cur[r] EXCEPT !.state = "RUNNING", !.phase = "RESULT"]
          /\ cur' = [cur EXCEPT ![r] = row']
          /\ CloseWith(r, AfterCycle(r))
          /\ UNCHANGED <<attempt, planned, invoked, proc, held, att, mode, stop,
                         mgr>>
       \/ /\ row.state \in Terminal
          /\ cur' = [cur EXCEPT ![r] = row]
          /\ CloseWith(r, AfterCycle(r))
          /\ UNCHANGED <<db, proc, held, att, mode, stop, mgr>>
       \/ row.state \notin Terminal /\ SaveRaises(r)

(***************************************************************************)
(* _stop and _complete_cycle: the remembered record with the new state, a  *)
(* cycle more and no phase to resume.  A terminal row is left alone.       *)
(***************************************************************************)
CompleteCycle(r) ==
    /\ pc[r] = "close"
    /\ \/ /\ CanSaveFenced(row, r, held[r])
          /\ row' = [cur[r] EXCEPT !.state = goal[r], !.phase = "CYCLE",
                        !.cycle = IF mode[r] = "skip" THEN @ ELSE @ + 1,
                        !.exp = IF mode[r] = "authorized"
                                THEN attempt[att[r]].exp ELSE @]
          /\ Goto(r, "loop")
          /\ stop' = [stop EXCEPT ![r] = @ \/ goal[r] \in Terminal]
          /\ Forget(r)
          /\ UNCHANGED <<attempt, planned, invoked, proc, held, mgr>>
       \/ SaveRaises(r)

----------------------------------------------------------------------------
(* The process: start_process, recover_runs, drain, and a crash. *)

StartProcess(r) ==
    /\ proc[r] = "new"
    /\ proc' = [proc EXCEPT ![r] = "up"]
    /\ mpc' = [mpc EXCEPT ![r] = "list"]
    /\ UNCHANGED <<db, super, mcur, given, reverted>>

(* list_recoverable and the host-clock look at the lease. *)
ListRecoverable(r) ==
    /\ mpc[r] = "list"
    /\ mpc' = [mpc EXCEPT ![r] =
          IF row.state \in Runnable /\ ~HeldByOther(row, r) THEN "classify"
          ELSE "idle"]
    /\ UNCHANGED <<db, proc, super, mcur, given, reverted>>

(***************************************************************************)
(* ClassifyRuntimeRecovery: the first attempt that is open decides; a      *)
(* DISPATCHING or UNKNOWN_OUTCOME attempt is held for a human,             *)
(* an AUTHORIZED one, or none, is resumed.  _hold_for_human opens its      *)
(* transaction by reading the row again.                                   *)
(***************************************************************************)
Classify(r) ==
    /\ mpc[r] = "classify"
    /\ LET undecided == {a \in Attempt :
                            attempt[a].state \in Open \cup {"AUTHORIZED"}}
       IN \/ /\ row.state \notin Runnable
             /\ mpc' = [mpc EXCEPT ![r] = "idle"]
             /\ UNCHANGED mcur
          \/ /\ row.state \in Runnable
             /\ \E a \in undecided : attempt[a].state \in Open
             /\ mpc' = [mpc EXCEPT ![r] = "HOLD"]
             /\ mcur' = [mcur EXCEPT ![r] = row]
          \/ /\ row.state \in Runnable
             /\ \/ undecided = {}
                \/ \E a \in undecided : attempt[a].state = "AUTHORIZED"
             /\ mpc' = [mpc EXCEPT ![r] = "attach"]
             /\ UNCHANGED mcur
    /\ UNCHANGED <<db, proc, super, given, reverted>>

(***************************************************************************)
(* _attach_supervisor and LocalRunSupervisorRegistry.start.  Nothing comes *)
(* of it when the thread is still alive, even one asked to stop, when the  *)
(* preflight is not READY_TO_START, when the database cannot be reached or *)
(* when the lease is refused, and nobody tries again.  Else the lease is   *)
(* acquired and a new thread starts with its epoch.                        *)
(***************************************************************************)
Attach(r) ==
    /\ mpc[r] = "attach"
    /\ mpc' = [mpc EXCEPT ![r] = "idle"]
    /\ \/ /\ pc[r] = "off" /\ CanAcquire(row, r) /\ row.epoch < MaxEpoch
          /\ row' = Acquired(row, r)
          /\ held' = [held EXCEPT ![r] = row.epoch + 1]
          /\ Goto(r, "loop")
          /\ stop' = [stop EXCEPT ![r] = FALSE]
       \/ UNCHANGED <<row, held, pc, stop>>
    /\ UNCHANGED <<attempt, planned, invoked, proc, cur, att, mode, goal, mcur,
                   given, reverted>>

(* drain: ask the supervisor to stop and take no more commands. *)
Drain(r) ==
    /\ proc[r] = "up" /\ mpc[r] = "idle"
    /\ proc' = [proc EXCEPT ![r] = "draining"]
    /\ mpc' = [mpc EXCEPT ![r] = "off"]
    /\ stop' = [stop EXCEPT ![r] = pc[r] # "off"]
    /\ UNCHANGED <<db, pc, held, cur, att, mode, goal, mcur, given, reverted>>

(* The process dies: its threads, and the transactions they had open, with
   it.  A new process registers a new runtime_instance_id. *)
Crash(r) ==
    /\ proc[r] \in {"up", "draining"}
    /\ proc' = [proc EXCEPT ![r] = "dead"]
    /\ Goto(r, "off")
    /\ Forget(r)
    /\ stop' = [stop EXCEPT ![r] = FALSE]
    /\ mpc' = [mpc EXCEPT ![r] = "off"]
    /\ mcur' = [mcur EXCEPT ![r] = FreshRow]
    /\ UNCHANGED <<db, held, given, reverted>>

----------------------------------------------------------------------------
(***************************************************************************)
(* Operator commands, as ZestdRuntime serves them.  PAUSE, RESUME and      *)
(* CANCEL read the row, decide, and save the record they read, with a new  *)
(* state, through the unfenced controller.                                 *)
(***************************************************************************)
Give == given < MaxCommands /\ given' = given + 1

StartRun(r) ==
    /\ "START" \in Command
    /\ mpc[r] = "idle" /\ Give
    /\ pc[r] = "off" /\ row.state \notin Terminal
    /\ mpc' = [mpc EXCEPT ![r] = "attach"]
    /\ UNCHANGED <<db, proc, super, mcur, reverted>>

(* pause_run and cancel_run: a terminal row rejects the command, and the
   local supervisor is stopped all the same. *)
BeginStop(r) ==
    /\ mpc[r] = "idle" /\ Give
    /\ \E c \in Command \cap {"PAUSE", "CANCEL"} :
          IF row.state \in Terminal
          THEN mpc' = [mpc EXCEPT ![r] = "stop"] /\ UNCHANGED mcur
          ELSE /\ mpc' = [mpc EXCEPT ![r] = c]
               /\ mcur' = [mcur EXCEPT ![r] = row]
    /\ UNCHANGED <<db, proc, super, reverted>>

(* resume_run: a run that is READY already is attached as well. *)
BeginResume(r) ==
    /\ "RESUME" \in Command
    /\ mpc[r] = "idle" /\ Give
    /\ \/ /\ row.state = "PAUSED"
          /\ mpc' = [mpc EXCEPT ![r] = "RESUME"]
          /\ mcur' = [mcur EXCEPT ![r] = row]
       \/ /\ row.state = "READY"
          /\ mpc' = [mpc EXCEPT ![r] = "attach"]
          /\ UNCHANGED mcur
    /\ UNCHANGED <<db, proc, super, reverted>>

SavedState(c) == CASE c = "PAUSE"  -> "PAUSED"
                   [] c = "RESUME" -> "READY"
                   [] c = "CANCEL" -> "COMPLETED"
                   [] c = "HOLD"   -> "WAITING_HUMAN"

AfterSave(c) == CASE c \in {"PAUSE", "CANCEL"} -> "stop"
                  [] c = "RESUME" -> "attach"
                  [] c = "HOLD" -> "idle"

(***************************************************************************)
(* The unfenced save.  It writes the lease columns as they were read; if   *)
(* the lease changed meanwhile, the change is undone.  Refused on a row    *)
(* that became terminal, the error goes to the caller and nothing else is  *)
(* done.                                                                   *)
(***************************************************************************)
OperatorSave(r) ==
    /\ mpc[r] \in Saving
    /\ IF CanSave(row)
       THEN /\ row' = [mcur[r] EXCEPT !.state = SavedState(mpc[r])]
            /\ mpc' = [mpc EXCEPT ![r] = AfterSave(mpc[r])]
            /\ reverted' = (reverted \/ mcur[r].owner # row.owner
                                     \/ mcur[r].epoch # row.epoch)
       ELSE /\ UNCHANGED <<row, reverted>>
            /\ mpc' = [mpc EXCEPT ![r] = "idle"]
    /\ mcur' = [mcur EXCEPT ![r] = FreshRow]
    /\ UNCHANGED <<attempt, planned, invoked, proc, super, given>>

(* LocalRunSupervisorRegistry.stop *)
StopSupervisor(r) ==
    /\ mpc[r] = "stop"
    /\ mpc' = [mpc EXCEPT ![r] = "idle"]
    /\ stop' = [stop EXCEPT ![r] = pc[r] # "off"]
    /\ UNCHANGED <<db, proc, pc, held, cur, att, mode, goal, mcur, given, reverted>>

(* Leases run down, in the row and in every remembered copy of it. *)
TimePasses ==
    /\ row.left > 0
    /\ row' = Older(row)
    /\ cur' = [r \in Runtime |-> Older(cur[r])]
    /\ mcur' = [r \in Runtime |-> Older(mcur[r])]
    /\ UNCHANGED <<attempt, planned, invoked, proc, pc, held, att, mode, goal,
                   stop, mpc, given, reverted>>

----------------------------------------------------------------------------
SupervisorStep(r) ==
    \/ SupervisorExit(r) \/ RenewLease(r) \/ Tick(r)
    \/ Inspect(r) \/ MarkRunning(r) \/ NothingToDo(r) \/ PlanExperiment(r)
    \/ ReadExisting(r) \/ Authorize(r) \/ Refuse(r)
    \/ ReadAttempt(r) \/ MarkDispatching(r) \/ DispatchDenied(r)
    \/ CheckFence(r) \/ InvokeWorker(r) \/ RecordOutcome(r) \/ RecordFails(r)
    \/ CheckpointResult(r) \/ CompleteCycle(r)

ManagerStep(r) ==
    \/ ListRecoverable(r) \/ Classify(r) \/ Attach(r)
    \/ OperatorSave(r) \/ StopSupervisor(r)

OperatorCommand(r) == StartRun(r) \/ BeginStop(r) \/ BeginResume(r)

Next ==
    \/ TimePasses
    \/ \E r \in Runtime :
          \/ SupervisorStep(r) \/ TickFault(r) \/ StepFault(r)
          \/ ManagerStep(r) \/ OperatorCommand(r)
          \/ StartProcess(r) \/ Drain(r) \/ Crash(r)

Spec == Init /\ [][Next]_vars

(***************************************************************************)
(* A step in progress goes on and an open transaction ends: threads are    *)
(* scheduled, database calls return and the Worker answers within its      *)
(* budgeted runtime.  Time goes on by itself.  No operator command,        *)
(* process start or drain is owed.                                         *)
(***************************************************************************)
Fairness ==
    /\ WF_vars(TimePasses)
    /\ \A r \in Runtime : WF_vars(SupervisorStep(r)) /\ WF_vars(ManagerStep(r))

FairSpec == Spec /\ Fairness

----------------------------------------------------------------------------
(* Every variable has a value the code can give it. *)
TypeOK ==
    /\ row \in Row
    /\ attempt \in [Attempt -> AttemptRecord]
    /\ planned \subseteq Experiment
    /\ invoked \in [Attempt -> Nat]
    /\ proc \in [Runtime -> {"new", "up", "draining", "dead"}]
    /\ pc \in [Runtime -> PC]
    /\ held \in [Runtime -> Nat]
    /\ cur \in [Runtime -> Row]
    /\ att \in [Runtime -> Attempt \cup {NoAttempt}]
    /\ mode \in [Runtime -> {"cycle", "planned", "authorized", "skip"}]
    /\ goal \in [Runtime -> State]
    /\ stop \in [Runtime -> BOOLEAN]
    /\ mpc \in [Runtime -> MPC]
    /\ mcur \in [Runtime -> Row]
    /\ given \in Nat
    /\ reverted \in BOOLEAN

(***************************************************************************)
(* The Worker is called at most once for an attempt, whatever supervisors  *)
(* crash, stall past their lease and are replaced: the fence of            *)
(* LeaseFencedWorkerPort, the DISPATCHING mark that precedes it and the    *)
(* refusal to dispatch anything but an AUTHORIZED attempt, together.       *)
(* ("Do not blindly repeat side-effectful work.")  One thing undoes it, an *)
(* operator's command whose unfenced save puts a lost lease back.          *)
(***************************************************************************)
SecondCallNeedsStaleSave ==
    (\E a \in Attempt : invoked[a] > 1) => reverted

(***************************************************************************)
(* An experiment gets at most one attempt.  No unique constraint says so:  *)
(* it rests on the checkpoint that commits with the attempt being fenced,  *)
(* and on the holder having looked for an attempt after it got the lease.  *)
(* Again only a save that puts a lost lease back undoes it.                *)
(***************************************************************************)
SecondAttemptNeedsStaleSave ==
    (\E a, b \in Attempt :
        /\ a # b
        /\ attempt[a].state # "NONE"
        /\ attempt[b].state # "NONE"
        /\ attempt[a].exp = attempt[b].exp)
    => reverted

(***************************************************************************)
(* The lease_epoch falls only where an operator's save has written back    *)
(* lease columns it read before they changed: neither a release, nor a     *)
(* takeover, nor a checkpoint of a supervisor that stalled and came back   *)
(* does it, with as many transactions in flight as there may be.           *)
(***************************************************************************)
EpochFallsByStaleSaveOnly ==
    [][row'.epoch < row.epoch => reverted']_vars

(***************************************************************************)
(* An attempt that recovery may resume (AUTHORIZED) was never sent to the  *)
(* Worker, and one that was sent is not thought to be merely authorized,   *)
(* not even when the outcome could not be written.                         *)
(***************************************************************************)
ResumableWasNeverSent ==
    \A a \in Attempt : attempt[a].state \in {"NONE", "AUTHORIZED"} => invoked[a] = 0

(***************************************************************************)
(* Terminal is terminal: once COMPLETED, BUDGET_EXHAUSTED or               *)
(* FAILED_OPERATIONAL, no supervisor or operator transaction still in      *)
(* flight changes the verdict or the cycle count, leases the run again or  *)
(* adds an experiment or an attempt.                                       *)
(***************************************************************************)
TerminalIsFinal ==
    [][row.state \in Terminal =>
         /\ row'.state = row.state
         /\ row'.cycle = row.cycle
         /\ row'.epoch = row.epoch
         /\ planned' = planned
         /\ \A a \in Attempt :
               attempt[a].state = "NONE" => attempt'[a].state = "NONE"]_vars

(***************************************************************************)
(* A supervisor that was asked to stop does stop, whatever its step was    *)
(* doing and whoever took the lease from it.                               *)
(***************************************************************************)
StopEndsSupervision == \A r \in Runtime : stop[r] ~> pc[r] = "off"

(***************************************************************************)
(* A run is not locked up by the lease of a thread that is gone: it died,  *)
(* with its process or alone, or stopped and could not release the lease.  *)
(* Sooner or later every other process could acquire it, unless the run    *)
(* ended or the same process took it up again.                             *)
(***************************************************************************)
Abandoned(r) == pc[r] = "off" /\ row.owner = r /\ row.state \notin Terminal

AbandonedRunIsFree ==
    \A r \in Runtime :
        Abandoned(r) ~> ~Abandoned(r) \/ \A q \in Runtime : CanAcquire(row, q)

----------------------------------------------------------------------------
(* What the documentation says and the code, as modelled, does not keep. *)

(***************************************************************************)
(* orchestration_lease.py: ownership is a monotonically increasing         *)
(* lease_epoch.  It does not fall back below one that was handed out to a  *)
(* thread that still runs.                                                 *)
(***************************************************************************)
NoEpochRegression ==
    \A r \in Runtime : pc[r] # "off" => held[r] <= row.epoch

(***************************************************************************)
(* lease_fencing.py: a stale owner cannot invoke the Worker.  A supervisor *)
(* about to call the Worker is the holder of the lease.                    *)
(***************************************************************************)
StaleOwnerNeverInvokes ==
    \A r \in Runtime : pc[r] = "call" => Holds(row, r, held[r])

(***************************************************************************)
(* PAUSE is permanent: a paused run leaves PAUSED only by the save of a    *)
(* RESUME or a CANCEL command.                                             *)
(***************************************************************************)
PauseIsDurable ==
    [][row.state = "PAUSED" /\ row'.state # "PAUSED" =>
         \E r \in Runtime : mpc[r] \in {"RESUME", "CANCEL"} /\ mpc'[r] # mpc[r]]_vars
=============================================================================
