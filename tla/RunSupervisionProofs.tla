------------------------ MODULE RunSupervisionProofs ------------------------
(* Theorems about RunSupervision, for every set of runtimes, experiments and
   attempts and every bound. *)
EXTENDS RunSupervision, TLAPS

----------------------------------------------------------------------------
(* Type correctness. *)

(* A row is still one when a column gets a value of its type: one lemma for
   each column. *)
LEMMA RowState ==
    \A x \in Row, s \in State : [x EXCEPT !.state = s] \in Row
BY DEF Row

(* Writing the owner of a row leaves a row. *)
LEMMA RowOwner ==
    \A x \in Row, o \in Runtime \cup {NoOwner} : [x EXCEPT !.owner = o] \in Row
BY DEF Row

(* Writing the lease_epoch of a row leaves a row. *)
LEMMA RowEpoch ==
    \A x \in Row, n \in Nat : [x EXCEPT !.epoch = n] \in Row
BY DEF Row

(* Writing the lease end of a row leaves a row. *)
LEMMA RowLeft ==
    \A x \in Row, n \in 0 .. TTL : [x EXCEPT !.left = n] \in Row
BY DEF Row

(* Writing the cycle_number of a row leaves a row. *)
LEMMA RowCycle ==
    \A x \in Row, n \in Nat : [x EXCEPT !.cycle = n] \in Row
BY DEF Row

(* Writing the phase of a row leaves a row. *)
LEMMA RowPhase ==
    \A x \in Row, p \in Phase : [x EXCEPT !.phase = p] \in Row
BY DEF Row

(* Writing last_experiment_id leaves a row. *)
LEMMA RowExp ==
    \A x \in Row, e \in Experiment \cup {NoExperiment} : [x EXCEPT !.exp = e] \in Row
BY DEF Row

(* The columns that the code reads. *)
LEMMA RowValues ==
    ASSUME NEW x \in Row
    PROVE  /\ x.epoch \in Nat /\ x.cycle \in Nat /\ x.left \in 0 .. TTL
           /\ x.owner \in Runtime \cup {NoOwner}
           /\ x.exp \in Experiment \cup {NoExperiment}
           /\ x.state \in State /\ x.phase \in Phase
BY DEF Row

(* Time keeps a row a row. *)
LEMMA OlderType == \A x \in Row : Older(x) \in Row
<1>. SUFFICES ASSUME NEW x \in Row PROVE Older(x) \in Row
  OBVIOUS
<1>1. (IF x.left > 0 THEN x.left - 1 ELSE 0) \in 0 .. TTL
  BY RowValues, TTLAssumption
<1>2. QED
  BY <1>1, RowLeft DEF Older

(* The updates of the orchestration row stay within its type. *)
LEMMA RowTypes ==
    ASSUME NEW x \in Row, NEW r \in Runtime
    PROVE  /\ Acquired(x, r) \in Row
           /\ Renewed(x) \in Row
           /\ Released(x) \in Row
<1>1. 0 \in 0 .. TTL /\ TTL \in 0 .. TTL /\ x.epoch + 1 \in Nat
  BY TTLAssumption, RowValues
<1>2. Acquired(x, r) \in Row
  <2>1. [x EXCEPT !.owner = r] \in Row
    BY RowOwner
  <2>2. [[x EXCEPT !.owner = r] EXCEPT !.epoch = x.epoch + 1] \in Row
    BY <1>1, <2>1, RowEpoch
  <2>3. [[[x EXCEPT !.owner = r] EXCEPT !.epoch = x.epoch + 1]
            EXCEPT !.left = TTL] \in Row
    BY <1>1, <2>2, RowLeft
  <2>4. QED
    BY <2>3 DEF Acquired
<1>3. Renewed(x) \in Row
  BY <1>1, RowLeft DEF Renewed
<1>4. Released(x) \in Row
  <2>1. [x EXCEPT !.owner = NoOwner] \in Row
    BY RowOwner
  <2>2. QED
    BY <1>1, <2>1, RowLeft DEF Released
<1>5. QED
  BY <1>2, <1>3, <1>4

(* The record that _complete_cycle saves is a row. *)
LEMMA ClosedRowType ==
    ASSUME NEW x \in Row, NEW s \in State, NEW n \in Nat,
           NEW e \in Experiment \cup {NoExperiment}
    PROVE  [x EXCEPT !.state = s, !.phase = "CYCLE", !.cycle = n, !.exp = e] \in Row
<1>1. [x EXCEPT !.state = s] \in Row
  BY RowState
<1>2. [[x EXCEPT !.state = s] EXCEPT !.phase = "CYCLE"] \in Row
  BY <1>1, RowPhase DEF Phase
<1>3. [[[x EXCEPT !.state = s] EXCEPT !.phase = "CYCLE"] EXCEPT !.cycle = n] \in Row
  BY <1>2, RowCycle
<1>4. [[[[x EXCEPT !.state = s] EXCEPT !.phase = "CYCLE"] EXCEPT !.cycle = n]
          EXCEPT !.exp = e] \in Row
  BY <1>3, RowExp
<1>5. QED
  BY <1>4

(* The records that the checkpoints of a cycle save are rows. *)
LEMMA CheckpointTypes ==
    ASSUME NEW x \in Row
    PROVE  /\ [x EXCEPT !.state = "RUNNING"] \in Row
           /\ [x EXCEPT !.state = "RUNNING", !.phase = "RESULT"] \in Row
           /\ \A e \in Experiment : [x EXCEPT !.phase = "PLANNED", !.exp = e] \in Row
<1>1. [x EXCEPT !.state = "RUNNING"] \in Row
  BY RowState DEF State
<1>2. [[x EXCEPT !.state = "RUNNING"] EXCEPT !.phase = "RESULT"] \in Row
  BY <1>1, RowPhase DEF Phase
<1>3. ASSUME NEW e \in Experiment
      PROVE  [x EXCEPT !.phase = "PLANNED", !.exp = e] \in Row
  <2>1. [x EXCEPT !.phase = "PLANNED"] \in Row
    BY RowPhase DEF Phase
  <2>2. [[x EXCEPT !.phase = "PLANNED"] EXCEPT !.exp = e] \in Row
    BY <2>1, RowExp
  <2>3. QED
    BY <2>2
<1>4. QED
  BY <1>1, <1>2, <1>3

(* The row that the controller inserts is a row. *)
LEMMA FreshRowType == FreshRow \in Row
BY TTLAssumption DEF Row, FreshRow, State, Phase

(* A step that dispatches, or that resumed an authorized attempt, has one. *)
AttemptInHand ==
    \A r \in Runtime :
        \/ pc[r] \in {"read", "dispatch", "fence", "call", "wait"}
        \/ mode[r] = "authorized"
        => att[r] \in Attempt

(* Type correctness made inductive: the close of a resumed cycle reads the
   attempt in hand. *)
Typed == TypeOK /\ AttemptInHand

(* The type invariant holds initially. *)
LEMMA InitType == Init => Typed
<1>. SUFFICES ASSUME Init PROVE Typed
  OBVIOUS
<1>1. reverted \in BOOLEAN
  BY Zenon DEF Init
<1>2. QED
  BY <1>1, FreshRowType
  DEF Init, Typed, TypeOK, AttemptInHand, AttemptRecord, AttemptState, State, PC, MPC

(* An update of one attempt keeps the type of the table. *)
LEMMA SetStateType ==
    ASSUME TypeOK, NEW a, NEW s \in AttemptState, SetState(a, s)
    PROVE  attempt' \in [Attempt -> AttemptRecord]
BY DEF TypeOK, SetState, AttemptRecord

(* So does forgetting the memory of a step. *)
LEMMA ForgetType ==
    ASSUME TypeOK, NEW r \in Runtime, Forget(r)
    PROVE  /\ cur' \in [Runtime -> Row]
           /\ att' \in [Runtime -> Attempt \cup {NoAttempt}]
           /\ mode' \in [Runtime -> {"cycle", "planned", "authorized", "skip"}]
           /\ goal' \in [Runtime -> State]
BY FreshRowType DEF Forget, TypeOK, State

(* A save that raises keeps the types. *)
LEMMA RaiseTypes ==
    ASSUME Typed, NEW r \in Runtime, SaveRaises(r)
    PROVE  Typed'
<1>. USE DEF SaveRaises, Goto, Forget, db, mgr
<1>1. TypeOK'
  BY FreshRowType DEF PC, State, Typed, TypeOK
<1>2. AttemptInHand'
  BY DEF Typed, TypeOK, AttemptInHand
<1>3. QED
  BY <1>1, <1>2 DEF Typed

(* The supervisor's loop keeps the types. *)
LEMMA LoopTypes ==
    ASSUME Typed, NEW r \in Runtime,
           \/ SupervisorExit(r) \/ RenewLease(r) \/ Tick(r)
           \/ TickFault(r) \/ StepFault(r)
    PROVE  Typed'
<1>. TypeOK /\ AttemptInHand
  BY DEF Typed
<1>. USE DEF Goto, db, mgr
<1>1. CASE SupervisorExit(r)
  <2>1. TypeOK'
    BY <1>1, RowTypes DEF SupervisorExit, TypeOK, PC
  <2>2. AttemptInHand'
    BY <1>1 DEF SupervisorExit, TypeOK, AttemptInHand
  <2>3. QED
    BY <2>1, <2>2 DEF Typed
<1>2. CASE RenewLease(r)
  <2>1. TypeOK'
    BY <1>2, RowTypes DEF RenewLease, TypeOK, PC
  <2>2. AttemptInHand'
    BY <1>2 DEF RenewLease, TypeOK, AttemptInHand
  <2>3. QED
    BY <2>1, <2>2 DEF Typed
<1>3. CASE Tick(r)
  <2>1. TypeOK'
    BY <1>3 DEF Tick, TypeOK, PC, StepPC
  <2>2. AttemptInHand'
    BY <1>3 DEF Tick, TypeOK, AttemptInHand
  <2>3. QED
    BY <2>1, <2>2 DEF Typed
<1>4. CASE StepFault(r)
  <2>1. [row EXCEPT !.state = "FAILED_OPERATIONAL"] \in Row
    BY RowState DEF TypeOK, State
  <2>2. TypeOK'
    BY <1>4, <2>1, FreshRowType DEF StepFault, TypeOK, Forget, State, PC
  <2>3. AttemptInHand'
    BY <1>4 DEF StepFault, TypeOK, AttemptInHand, Forget
  <2>4. QED
    BY <2>2, <2>3 DEF Typed
<1>5. CASE TickFault(r)
  BY <1>5 DEF TickFault, Typed, TypeOK, AttemptInHand, PC
<1>6. QED
  BY <1>1, <1>2, <1>3, <1>4, <1>5

(* The steps of a cycle up to the attempt keep the types. *)
LEMMA CycleTypes ==
    ASSUME Typed, NEW r \in Runtime,
           \/ Inspect(r) \/ MarkRunning(r) \/ NothingToDo(r) \/ PlanExperiment(r)
           \/ ReadExisting(r) \/ Authorize(r) \/ Refuse(r)
    PROVE  Typed'
<1>. TypeOK /\ AttemptInHand
  BY DEF Typed
<1>. USE DEF Goto, CloseWith, db, mgr
<1>1. CASE Inspect(r)
  <2>1. AfterCycle(r) \in State
    BY DEF AfterCycle, State
  <2>2. TypeOK'
    BY <1>1, <2>1 DEF Inspect, TypeOK, State, PC, StepPC
  <2>3. AttemptInHand'
    BY <1>1 DEF Inspect, TypeOK, AttemptInHand
  <2>4. QED
    BY <2>2, <2>3 DEF Typed
<1>2. CASE MarkRunning(r)
  <2>1. [cur[r] EXCEPT !.state = "RUNNING"] \in Row
    BY CheckpointTypes DEF TypeOK
  <2>2. CASE SaveRaises(r)
    BY <2>2, RaiseTypes
  <2>3. CASE ~SaveRaises(r)
    <3>1. TypeOK'
      BY <1>2, <2>3, <2>1 DEF MarkRunning, TypeOK, PC, StepPC
    <3>2. AttemptInHand'
      BY <1>2, <2>3 DEF MarkRunning, TypeOK, AttemptInHand
    <3>3. QED
      BY <3>1, <3>2 DEF Typed
  <2>4. QED
    BY <2>2, <2>3
<1>3. CASE NothingToDo(r)
  <2>1. TypeOK'
    BY <1>3 DEF NothingToDo, TypeOK, State, PC, StepPC
  <2>2. AttemptInHand'
    BY <1>3 DEF NothingToDo, TypeOK, AttemptInHand
  <2>3. QED
    BY <2>1, <2>2 DEF Typed
<1>4. CASE PlanExperiment(r)
  <2>1. \A e \in Experiment : [cur[r] EXCEPT !.phase = "PLANNED", !.exp = e] \in Row
    BY CheckpointTypes DEF TypeOK
  <2>2. CASE SaveRaises(r)
    BY <2>2, RaiseTypes
  <2>3. CASE ~SaveRaises(r)
    <3>1. TypeOK'
      <4>1. PICK x \in Experiment :
                /\ planned' = planned \cup {x}
                /\ row' = [cur[r] EXCEPT !.phase = "PLANNED", !.exp = x]
        BY <1>4, <2>3 DEF PlanExperiment
      <4>2. row' \in Row /\ planned' \subseteq Experiment
        BY <4>1, <2>1 DEF TypeOK
      <4>3. QED
        <5>1. /\ cur' = [cur EXCEPT ![r] = row']
              /\ pc' = [pc EXCEPT ![r] = "auth"]
              /\ UNCHANGED <<attempt, invoked, proc, held, att, mode, goal, stop, mgr>>
          BY <1>4, <2>3 DEF PlanExperiment
        <5>2. QED
          BY <4>2, <5>1 DEF TypeOK, PC, StepPC
    <3>2. AttemptInHand'
      BY <1>4, <2>3 DEF PlanExperiment, TypeOK, AttemptInHand
    <3>3. QED
      BY <3>1, <3>2 DEF Typed
  <2>4. QED
    BY <2>2, <2>3
<1>5. CASE ReadExisting(r)
  <2>1. AfterCycle(r) \in State
    BY DEF AfterCycle, State
  <2>2. TypeOK'
    BY <1>5, <2>1, SetStateType DEF ReadExisting, TypeOK, State, AttemptState, PC, StepPC
  <2>3. AttemptInHand'
    BY <1>5 DEF ReadExisting, TypeOK, AttemptInHand
  <2>4. QED
    BY <2>2, <2>3 DEF Typed
<1>6. CASE Authorize(r)
  <2>1. [cur[r] EXCEPT !.state = "RUNNING"] \in Row
    BY CheckpointTypes DEF TypeOK
  <2>2. cur[r].exp \in Experiment \cup {NoExperiment}
    BY RowValues DEF TypeOK
  <2>3. CASE SaveRaises(r)
    BY <2>3, RaiseTypes
  <2>4. CASE ~SaveRaises(r)
    <3>1. TypeOK'
      <4>1. PICK a \in Attempt :
                /\ attempt' = [attempt EXCEPT
                       ![a] = [exp |-> cur[r].exp, state |-> "AUTHORIZED"]]
                /\ att' = [att EXCEPT ![r] = a]
        BY <1>6, <2>4 DEF Authorize
      <4>2. [exp |-> cur[r].exp, state |-> "AUTHORIZED"] \in AttemptRecord
        BY <2>2 DEF AttemptRecord, AttemptState
      <4>3. /\ attempt' \in [Attempt -> AttemptRecord]
            /\ att' \in [Runtime -> Attempt \cup {NoAttempt}]
        BY <4>1, <4>2 DEF TypeOK
      <4>4. QED
        BY <1>6, <2>1, <2>4, <4>3 DEF Authorize, TypeOK, PC, StepPC
    <3>2. AttemptInHand'
      BY <1>6, <2>4 DEF Authorize, TypeOK, AttemptInHand
    <3>3. QED
      BY <3>1, <3>2 DEF Typed
  <2>5. QED
    BY <2>3, <2>4
<1>7. CASE Refuse(r)
  <2>1. TypeOK'
    BY <1>7 DEF Refuse, AfterCycle, TypeOK, State, PC, StepPC
  <2>2. AttemptInHand'
    BY <1>7 DEF Refuse, TypeOK, AttemptInHand
  <2>3. QED
    BY <2>1, <2>2 DEF Typed
<1>8. QED
  BY <1>1, <1>2, <1>3, <1>4, <1>5, <1>6, <1>7

(* Dispatch, the Worker and the close of a cycle keep the types. *)
LEMMA DispatchTypes ==
    ASSUME Typed, NEW r \in Runtime,
           \/ ReadAttempt(r) \/ MarkDispatching(r) \/ DispatchDenied(r)
           \/ CheckFence(r) \/ InvokeWorker(r) \/ RecordOutcome(r)
           \/ RecordFails(r) \/ CheckpointResult(r) \/ CompleteCycle(r)
    PROVE  Typed'
<1>. TypeOK /\ AttemptInHand
  BY DEF Typed
<1>. USE DEF Goto, CloseWith, db, mgr
<1>1. CASE ReadAttempt(r)
  <2>1. AfterCycle(r) \in State
    BY DEF AfterCycle, State
  <2>2. TypeOK'
    BY <1>1, <2>1, SetStateType DEF ReadAttempt, TypeOK, State, AttemptState, PC, StepPC
  <2>3. AttemptInHand'
    BY <1>1 DEF ReadAttempt, TypeOK, AttemptInHand
  <2>4. QED
    BY <2>2, <2>3 DEF Typed
<1>2. CASE MarkDispatching(r)
  <2>1. TypeOK'
    BY <1>2, SetStateType DEF MarkDispatching, TypeOK, AttemptState, PC, StepPC
  <2>2. AttemptInHand'
    BY <1>2 DEF MarkDispatching, TypeOK, AttemptInHand
  <2>3. QED
    BY <2>1, <2>2 DEF Typed
<1>3. CASE DispatchDenied(r)
  <2>1. TypeOK'
    BY <1>3 DEF DispatchDenied, TypeOK, State, PC, StepPC
  <2>2. AttemptInHand'
    BY <1>3 DEF DispatchDenied, TypeOK, AttemptInHand
  <2>3. QED
    BY <2>1, <2>2 DEF Typed
<1>4. CASE CheckFence(r)
  <2>1. TypeOK'
    <3>1. CASE Holds(row, r, held[r])
      BY <1>4, <3>1 DEF CheckFence, TypeOK, PC, StepPC
    <3>2. CASE ~Holds(row, r, held[r])
      <4>1. /\ pc' = [pc EXCEPT ![r] = "off"]
            /\ stop' = [stop EXCEPT ![r] = FALSE]
            /\ Forget(r)
            /\ UNCHANGED <<db, proc, held, mgr>>
        BY <1>4, <3>2 DEF CheckFence
      <4>2. QED
        BY <4>1, ForgetType DEF TypeOK, PC
    <3>3. QED
      BY <3>1, <3>2
  <2>2. AttemptInHand'
    BY <1>4 DEF CheckFence, TypeOK, AttemptInHand, Forget
  <2>3. QED
    BY <2>1, <2>2 DEF Typed
<1>5. CASE InvokeWorker(r)
  <2>1. TypeOK'
    <3>1. att[r] \in Attempt
      BY <1>5 DEF InvokeWorker, AttemptInHand
    <3>2. invoked' \in [Attempt -> Nat]
      BY <1>5, <3>1 DEF InvokeWorker, TypeOK
    <3>3. QED
      BY <1>5, <3>2 DEF InvokeWorker, TypeOK, PC, StepPC
  <2>2. AttemptInHand'
    BY <1>5 DEF InvokeWorker, TypeOK, AttemptInHand
  <2>3. QED
    BY <2>1, <2>2 DEF Typed
<1>6. CASE RecordOutcome(r)
  <2>1. AfterCycle(r) \in State
    BY DEF AfterCycle, State
  <2>2. TypeOK'
    BY <1>6, <2>1, SetStateType DEF RecordOutcome, TypeOK, State, AttemptState, PC, StepPC
  <2>3. AttemptInHand'
    BY <1>6 DEF RecordOutcome, TypeOK, AttemptInHand
  <2>4. QED
    BY <2>2, <2>3 DEF Typed
<1>7. CASE RecordFails(r)
  <2>1. AfterCycle(r) \in State
    BY DEF AfterCycle, State
  <2>2. TypeOK'
    BY <1>7, <2>1 DEF RecordFails, TypeOK, State, PC, StepPC
  <2>3. AttemptInHand'
    BY <1>7 DEF RecordFails, TypeOK, AttemptInHand
  <2>4. QED
    BY <2>2, <2>3 DEF Typed
<1>8. CASE CheckpointResult(r)
  <2>1. [cur[r] EXCEPT !.state = "RUNNING", !.phase = "RESULT"] \in Row
    BY CheckpointTypes DEF TypeOK
  <2>2. AfterCycle(r) \in State
    BY DEF AfterCycle, State
  <2>3. CASE SaveRaises(r)
    BY <2>3, RaiseTypes
  <2>4. CASE ~SaveRaises(r)
    <3>1. TypeOK'
      BY <1>8, <2>4, <2>1, <2>2 DEF CheckpointResult, TypeOK, PC, StepPC
    <3>2. AttemptInHand'
      BY <1>8, <2>4 DEF CheckpointResult, TypeOK, AttemptInHand
    <3>3. QED
      BY <3>1, <3>2 DEF Typed
  <2>5. QED
    BY <2>3, <2>4
<1>9. CASE CompleteCycle(r)
  <2>1. (IF mode[r] = "skip" THEN cur[r].cycle ELSE cur[r].cycle + 1) \in Nat
    BY RowValues DEF TypeOK
  <2>2. (IF mode[r] = "authorized" THEN attempt[att[r]].exp ELSE cur[r].exp)
            \in Experiment \cup {NoExperiment}
    BY RowValues DEF TypeOK, AttemptInHand, AttemptRecord
  <2>3. cur[r] \in Row /\ goal[r] \in State
    BY DEF TypeOK
  <2>4. [cur[r] EXCEPT !.state = goal[r], !.phase = "CYCLE",
            !.cycle = IF mode[r] = "skip" THEN cur[r].cycle ELSE cur[r].cycle + 1,
            !.exp = IF mode[r] = "authorized" THEN attempt[att[r]].exp
                    ELSE cur[r].exp] \in Row
    BY <2>1, <2>2, <2>3, ClosedRowType
  <2>5. CASE SaveRaises(r)
    BY <2>5, RaiseTypes
  <2>6. CASE ~SaveRaises(r)
    <3>1. TypeOK'
      <4>1. /\ row' \in Row
            /\ pc' = [pc EXCEPT ![r] = "loop"]
            /\ stop' = [stop EXCEPT ![r] = @ \/ goal[r] \in Terminal]
            /\ Forget(r)
            /\ UNCHANGED <<attempt, planned, invoked, proc, held, mgr>>
        BY <1>9, <2>4, <2>6 DEF CompleteCycle
      <4>2. stop' \in [Runtime -> BOOLEAN]
        BY <4>1, Zenon DEF TypeOK
      <4>3. QED
        BY <4>1, <4>2, ForgetType DEF TypeOK, PC
    <3>2. AttemptInHand'
      BY <1>9, <2>6 DEF CompleteCycle, TypeOK, AttemptInHand, Forget
    <3>3. QED
      BY <3>1, <3>2 DEF Typed
  <2>7. QED
    BY <2>5, <2>6
<1>10. QED
  BY <1>1, <1>2, <1>3, <1>4, <1>5, <1>6, <1>7, <1>8, <1>9

(* Recovery, operator commands, the life of a process and time keep the types. *)
LEMMA ManagementTypes ==
    ASSUME Typed, NEW r \in Runtime,
           \/ ManagerStep(r) \/ OperatorCommand(r)
           \/ StartProcess(r) \/ Drain(r) \/ Crash(r)
    PROVE  Typed'
<1>. TypeOK /\ AttemptInHand
  BY DEF Typed
<1>. USE DEF Goto, db, super, MPC, Saving
<1>1. CASE ListRecoverable(r)
  BY <1>1 DEF ListRecoverable, Typed, TypeOK, AttemptInHand
<1>2. CASE Classify(r)
  BY <1>2 DEF Classify, Typed, TypeOK, AttemptInHand
<1>3. CASE Attach(r)
  <2>1. Acquired(row, r) \in Row /\ row.epoch + 1 \in Nat
    <3>1. row \in Row
      BY DEF TypeOK
    <3>2. row.epoch \in Nat
      BY <3>1, RowValues
    <3>3. QED
      BY <3>1, <3>2, RowTypes
  <2>2. TypeOK'
    BY <1>3, <2>1 DEF Attach, TypeOK, PC
  <2>3. AttemptInHand'
    BY <1>3 DEF Attach, TypeOK, AttemptInHand
  <2>4. QED
    BY <2>2, <2>3 DEF Typed
<1>4. CASE OperatorSave(r)
  <2>1. SavedState(mpc[r]) \in State
    BY <1>4 DEF OperatorSave, SavedState, State
  <2>2. [mcur[r] EXCEPT !.state = SavedState(mpc[r])] \in Row
    BY <2>1, RowState DEF TypeOK
  <2>3. AfterSave(mpc[r]) \in MPC
    BY <1>4 DEF OperatorSave, AfterSave
  <2>4. TypeOK'
    BY <1>4, <2>2, <2>3, FreshRowType DEF OperatorSave, TypeOK
  <2>5. AttemptInHand'
    BY <1>4 DEF OperatorSave, AttemptInHand
  <2>6. QED
    BY <2>4, <2>5 DEF Typed
<1>5. CASE StopSupervisor(r)
  BY <1>5 DEF StopSupervisor, Typed, TypeOK, AttemptInHand
<1>6. CASE StartRun(r)
  BY <1>6 DEF StartRun, Give, Typed, TypeOK, AttemptInHand
<1>7. CASE BeginStop(r)
  BY <1>7 DEF BeginStop, Give, Typed, TypeOK, AttemptInHand
<1>8. CASE BeginResume(r)
  BY <1>8 DEF BeginResume, Give, Typed, TypeOK, AttemptInHand
<1>9. CASE StartProcess(r)
  BY <1>9 DEF StartProcess, Typed, TypeOK, AttemptInHand
<1>10. CASE Drain(r)
  BY <1>10 DEF Drain, Typed, TypeOK, AttemptInHand
<1>11. CASE Crash(r)
  <2>1. TypeOK'
    BY <1>11, FreshRowType DEF Crash, Forget, TypeOK, PC, State
  <2>2. AttemptInHand'
    BY <1>11 DEF Crash, Forget, TypeOK, AttemptInHand
  <2>3. QED
    BY <2>1, <2>2 DEF Typed
<1>12. QED
  BY <1>1, <1>2, <1>3, <1>4, <1>5, <1>6, <1>7, <1>8, <1>9, <1>10, <1>11
  DEF ManagerStep, OperatorCommand

(* Every step keeps the types. *)
LEMMA NextTypes == Typed /\ [Next]_vars => Typed'
<1>. SUFFICES ASSUME Typed, [Next]_vars PROVE Typed'
  OBVIOUS
<1>1. CASE TimePasses
  <2>1. /\ Older(row) \in Row
        /\ \A r \in Runtime : Older(cur[r]) \in Row /\ Older(mcur[r]) \in Row
    <3>1. row \in Row /\ \A r \in Runtime : cur[r] \in Row /\ mcur[r] \in Row
      BY DEF Typed, TypeOK
    <3>2. QED
      BY <3>1, OlderType
  <2>2. TypeOK'
    BY <1>1, <2>1 DEF TimePasses, Typed, TypeOK
  <2>3. AttemptInHand'
    BY <1>1 DEF TimePasses, Typed, AttemptInHand
  <2>4. QED
    BY <2>2, <2>3 DEF Typed
<1>2. ASSUME NEW r \in Runtime, SupervisorStep(r) \/ TickFault(r) \/ StepFault(r)
      PROVE  Typed'
  BY <1>2, LoopTypes, CycleTypes, DispatchTypes DEF SupervisorStep
<1>3. CASE UNCHANGED vars
  BY <1>3 DEF vars, Typed, TypeOK, AttemptInHand
<1>4. QED
  BY <1>1, <1>2, <1>3, ManagementTypes DEF Next

(***************************************************************************)
(* Every variable keeps a value of its type, whatever the bounds and       *)
(* however many runtimes, experiments and attempts there are.              *)
(***************************************************************************)
THEOREM TypeCorrect == Spec => []TypeOK
<1>1. Typed => TypeOK
  BY DEF Typed
<1>2. QED
  BY <1>1, InitType, NextTypes, PTL DEF Spec

----------------------------------------------------------------------------
(***************************************************************************)
(* At most one invocation, one attempt per experiment and no epoch         *)
(* regression, as long as no unfenced save has put a lost lease back.  The *)
(* inductive invariant says why the fence is enough: a supervisor that     *)
(* lost the lease never gets it back under the epoch it works for, so      *)
(* whoever passes the fence for an attempt leaves every other supervisor   *)
(* that still means to dispatch it stale.                                  *)
(***************************************************************************)
AtMostOneInvocation == \A a \in Attempt : invoked[a] <= 1

OneAttemptPerExperiment ==
    \A a, b \in Attempt :
        /\ attempt[a].state # "NONE"
        /\ attempt[b].state # "NONE"
        /\ attempt[a].exp = attempt[b].exp
        => a = b

InHand == {"read", "dispatch", "fence", "call", "wait"}

(* No supervisor's epoch is ahead of the row, and the holder's record of the
   lease is the stored one, so that its saves leave the lease as it is. *)
LeaseInv ==
    /\ \A r \in Runtime : held[r] <= row.epoch
    /\ \A r \in Runtime :
          pc[r] \in StepPC /\ Holds(row, r, held[r])
          => cur[r].owner = r /\ cur[r].epoch = held[r]

(* The attempt in hand exists, and is marked before the fence is asked. *)
MarkInv ==
    \A r \in Runtime :
        /\ pc[r] \in InHand => attempt[att[r]].state # "NONE"
        /\ pc[r] \in {"fence", "call", "wait"} => attempt[att[r]].state # "AUTHORIZED"

(* Attempt a was sent to the Worker, or is past the fence. *)
Sent(a) == invoked[a] > 0 \/ \E r \in Runtime : pc[r] = "call" /\ att[r] = a

(* What was sent is not AUTHORIZED, and nobody who may pass the fence is
   about to send it again. *)
SentInv ==
    \A a \in Attempt : Sent(a) =>
        /\ attempt[a].state \notin {"NONE", "AUTHORIZED"}
        /\ \A q \in Runtime : pc[q] \in {"dispatch", "fence"} /\ att[q] = a
                               => ~Holds(row, q, held[q])

(* A call past the fence is the first one and the only one. *)
CallInv ==
    /\ AtMostOneInvocation
    /\ \A r \in Runtime : pc[r] = "call" => invoked[att[r]] = 0
    /\ \A r, q \in Runtime :
          pc[r] = "call" /\ pc[q] = "call" /\ att[r] = att[q] => r = q

(* The holder that is about to insert an attempt found none, and there is
   still none. *)
InsertInv ==
    /\ OneAttemptPerExperiment
    /\ \A r \in Runtime :
          pc[r] = "insert" /\ Holds(row, r, held[r]) =>
            \A a \in Attempt :
                attempt[a].state # "NONE" => attempt[a].exp # cur[r].exp

Inv == LeaseInv /\ MarkInv /\ SentInv /\ CallInv /\ InsertInv

IInv == Typed /\ Inv

(* What is inductive for every step of Spec. *)
Guarded == Typed /\ (reverted \/ Inv)

(* The lease invariant holds initially. *)
LEMMA InitIInv == Init => IInv
<1>. SUFFICES ASSUME Init PROVE IInv
  OBVIOUS
<1>1. Typed
  BY InitType
<1>3. LeaseInv
  BY DEF Init, LeaseInv, FreshRow, StepPC
<1>4. MarkInv /\ SentInv /\ CallInv
  BY DEF Init, MarkInv, SentInv, Sent, CallInv, AtMostOneInvocation, InHand
<1>5. InsertInv
  BY DEF Init, InsertInv, OneAttemptPerExperiment
<1>6. QED
  BY <1>1, <1>3, <1>4, <1>5 DEF IInv, Inv

(***************************************************************************)
(* A quiet step of supervisor r: the lease, the attempts and the Worker    *)
(* are left alone, and r does not come to hold an attempt or to be about   *)
(* to insert one.                                                          *)
(***************************************************************************)
LEMMA QuietStep ==
    ASSUME IInv, NEW r \in Runtime, NEW p, NEW c, NEW a,
           row'.owner = row.owner, row'.epoch = row.epoch,
           attempt' = attempt, invoked' = invoked, held' = held,
           pc' = [pc EXCEPT ![r] = p],
           cur' = [cur EXCEPT ![r] = c],
           att' = [att EXCEPT ![r] = a],
           p \notin InHand, p # "insert",
           p \in StepPC /\ Holds(row, r, held[r]) => c.owner = r /\ c.epoch = held[r]
    PROVE  Inv'
<1>. TypeOK
  BY DEF IInv, Typed
<1>1. LeaseInv'
  BY DEF IInv, Inv, LeaseInv, Holds, TypeOK
<1>2. MarkInv'
  BY DEF IInv, Inv, MarkInv, InHand, TypeOK
<1>3. SentInv'
  BY DEF IInv, Inv, SentInv, Sent, Holds, InHand, TypeOK
<1>4. CallInv'
  BY DEF IInv, Inv, CallInv, AtMostOneInvocation, InHand, TypeOK
<1>5. InsertInv'
  BY DEF IInv, Inv, InsertInv, OneAttemptPerExperiment, Holds, TypeOK
<1>6. QED
  BY <1>1, <1>2, <1>3, <1>4, <1>5 DEF Inv

(* A step of a management thread that leaves the lease and the supervisors
   alone. *)
LEMMA QuietManagement ==
    ASSUME IInv,
           row'.owner = row.owner, row'.epoch = row.epoch,
           UNCHANGED <<attempt, invoked, held, pc, cur, att>>
    PROVE  Inv'
<1>1. LeaseInv'
  BY DEF IInv, Inv, LeaseInv, Holds
<1>2. MarkInv'
  BY DEF IInv, Inv, MarkInv
<1>3. SentInv'
  BY DEF IInv, Inv, SentInv, Sent, Holds
<1>4. CallInv'
  BY DEF IInv, Inv, CallInv, AtMostOneInvocation
<1>5. InsertInv'
  BY DEF IInv, Inv, InsertInv, OneAttemptPerExperiment, Holds
<1>6. QED
  BY <1>1, <1>2, <1>3, <1>4, <1>5 DEF Inv

(* A fenced save of the step's own record leaves the lease as it is. *)
LEMMA FencedSaveKeepsLease ==
    ASSUME IInv, NEW r \in Runtime, pc[r] \in StepPC,
           CanSaveFenced(row, r, held[r])
    PROVE  /\ cur[r].owner = r /\ cur[r].epoch = held[r]
           /\ cur[r].owner = row.owner /\ cur[r].epoch = row.epoch
           /\ cur[r] \in Row
BY DEF IInv, Inv, LeaseInv, CanSaveFenced, Holds, Typed, TypeOK

(* The columns of a saved record that a save does not set are kept. *)
LEMMA SavedLease ==
    ASSUME NEW x \in Row, NEW s, NEW p, NEW n, NEW e
    PROVE  /\ [x EXCEPT !.state = s].owner = x.owner
           /\ [x EXCEPT !.state = s].epoch = x.epoch
           /\ [x EXCEPT !.state = s, !.phase = p].owner = x.owner
           /\ [x EXCEPT !.state = s, !.phase = p].epoch = x.epoch
           /\ [x EXCEPT !.phase = p, !.exp = e].owner = x.owner
           /\ [x EXCEPT !.phase = p, !.exp = e].epoch = x.epoch
           /\ [x EXCEPT !.state = s, !.phase = p, !.cycle = n, !.exp = e].owner = x.owner
           /\ [x EXCEPT !.state = s, !.phase = p, !.cycle = n, !.exp = e].epoch = x.epoch
           /\ Renewed(x).owner = x.owner
           /\ Renewed(x).epoch = x.epoch
BY DEF Row, Renewed

(* A save that raises is quiet. *)
LEMMA RaiseSafe ==
    ASSUME IInv, NEW r \in Runtime, SaveRaises(r)
    PROVE  Inv'
<1>1. PICK p \in {"loop", "off"} : pc' = [pc EXCEPT ![r] = p]
  BY DEF SaveRaises, Goto
<1>2. /\ cur' = [cur EXCEPT ![r] = FreshRow]
      /\ att' = [att EXCEPT ![r] = NoAttempt]
      /\ UNCHANGED <<row, attempt, invoked, held>>
  BY DEF SaveRaises, Forget, db
<1>3. QED
  BY <1>1, <1>2, QuietStep DEF InHand, StepPC

(* The loop of a supervisor that keeps its lease, and a fault of its step. *)
LEMMA LoopSafe ==
    ASSUME IInv, NEW r \in Runtime,
           RenewLease(r) \/ Tick(r) \/ TickFault(r) \/ StepFault(r)
    PROVE  Inv'
<1>. TypeOK
  BY DEF IInv, Typed
<1>1. CASE RenewLease(r)
  <2>1. row'.owner = row.owner /\ row'.epoch = row.epoch
    BY <1>1, SavedLease DEF RenewLease, TypeOK
  <2>2. PICK p \in {"loop", "off"} : pc' = [pc EXCEPT ![r] = p]
    BY <1>1 DEF RenewLease, Goto, TypeOK
  <2>3. /\ cur' = [cur EXCEPT ![r] = cur[r]]
        /\ att' = [att EXCEPT ![r] = att[r]]
        /\ UNCHANGED <<attempt, invoked, held>>
    BY <1>1 DEF RenewLease, TypeOK
  <2>4. QED
    BY <2>1, <2>2, <2>3, QuietStep DEF InHand, StepPC
<1>2. CASE Tick(r)
  <2>1. CASE row.state \in Runnable
    <3>1. /\ pc' = [pc EXCEPT ![r] = "step"]
          /\ cur' = [cur EXCEPT ![r] = row]
          /\ att' = [att EXCEPT ![r] = att[r]]
          /\ UNCHANGED <<row, attempt, invoked, held>>
      BY <1>2, <2>1 DEF Tick, Goto, db, TypeOK, Runnable, Terminal
    <3>2. QED
      BY <3>1, QuietStep DEF InHand, Holds
  <2>2. CASE row.state \notin Runnable
    BY <1>2, <2>2, QuietManagement DEF Tick, db
  <2>3. QED
    BY <2>1, <2>2
<1>3. CASE StepFault(r)
  <2>1. row'.owner = row.owner /\ row'.epoch = row.epoch
    <3>1. \/ row' = row
          \/ row' = [row EXCEPT !.state = "FAILED_OPERATIONAL"]
      BY <1>3 DEF StepFault
    <3>2. QED
      BY <3>1 DEF TypeOK, Row
  <2>2. /\ pc' = [pc EXCEPT ![r] = "loop"]
        /\ cur' = [cur EXCEPT ![r] = FreshRow]
        /\ att' = [att EXCEPT ![r] = NoAttempt]
        /\ UNCHANGED <<attempt, invoked, held>>
    BY <1>3 DEF StepFault, Goto, Forget
  <2>3. QED
    BY <2>1, <2>2, QuietStep DEF InHand, StepPC
<1>4. CASE TickFault(r)
  <2>1. /\ pc' = [pc EXCEPT ![r] = "off"]
        /\ cur' = [cur EXCEPT ![r] = cur[r]]
        /\ att' = [att EXCEPT ![r] = att[r]]
        /\ UNCHANGED <<row, attempt, invoked, held>>
    BY <1>4 DEF TickFault, Goto, db, TypeOK
  <2>2. QED
    BY <2>1, QuietStep DEF InHand, StepPC
<1>5. QED
  BY <1>1, <1>2, <1>3, <1>4

(* The steps of a cycle that save the record or only decide what is next. *)
LEMMA CycleSafe ==
    ASSUME IInv, NEW r \in Runtime,
           \/ MarkRunning(r) \/ NothingToDo(r) \/ PlanExperiment(r) \/ Refuse(r)
           \/ DispatchDenied(r) \/ RecordFails(r)
           \/ CheckpointResult(r) \/ CompleteCycle(r)
    PROVE  Inv'
<1>. TypeOK
  BY DEF IInv, Typed
<1>1. CASE MarkRunning(r)
  <2>1. CASE CanSaveFenced(row, r, held[r])
    <3>1. /\ row' = [cur[r] EXCEPT !.state = "RUNNING"]
          /\ cur' = [cur EXCEPT ![r] = row']
          /\ pc' = [pc EXCEPT ![r] = "plan"]
          /\ att' = [att EXCEPT ![r] = att[r]]
          /\ UNCHANGED <<attempt, invoked, held>>
      BY <1>1, <2>1 DEF MarkRunning, SaveRaises, Goto, TypeOK
    <3>2. pc[r] \in StepPC
      BY <1>1 DEF MarkRunning, StepPC, SaveRaises
    <3>3. row'.owner = row.owner /\ row'.epoch = row.epoch /\ row'.owner = r
          /\ row'.epoch = held[r]
      BY <2>1, <3>1, <3>2, FencedSaveKeepsLease, SavedLease
    <3>4. QED
      BY <3>1, <3>3, QuietStep DEF InHand
  <2>2. CASE ~CanSaveFenced(row, r, held[r])
    BY <1>1, <2>2, RaiseSafe DEF MarkRunning
  <2>3. QED
    BY <2>1, <2>2
<1>2. CASE PlanExperiment(r)
  <2>1. CASE CanSaveFenced(row, r, held[r])
    <3>1. PICK x \in Experiment :
              row' = [cur[r] EXCEPT !.phase = "PLANNED", !.exp = x]
      BY <1>2, <2>1 DEF PlanExperiment, SaveRaises
    <3>2. /\ cur' = [cur EXCEPT ![r] = row']
          /\ pc' = [pc EXCEPT ![r] = "auth"]
          /\ att' = [att EXCEPT ![r] = att[r]]
          /\ UNCHANGED <<attempt, invoked, held>>
      BY <1>2, <2>1 DEF PlanExperiment, SaveRaises, Goto, TypeOK
    <3>3. pc[r] \in StepPC
      BY <1>2 DEF PlanExperiment, StepPC, SaveRaises
    <3>4. row'.owner = row.owner /\ row'.epoch = row.epoch /\ row'.owner = r
          /\ row'.epoch = held[r]
      BY <2>1, <3>1, <3>3, FencedSaveKeepsLease, SavedLease
    <3>5. QED
      BY <3>2, <3>4, QuietStep DEF InHand
  <2>2. CASE ~CanSaveFenced(row, r, held[r])
    BY <1>2, <2>2, RaiseSafe DEF PlanExperiment
  <2>3. QED
    BY <2>1, <2>2
<1>3. CASE NothingToDo(r) \/ Refuse(r) \/ DispatchDenied(r)
  <2>1. /\ pc' = [pc EXCEPT ![r] = "close"]
        /\ cur' = [cur EXCEPT ![r] = cur[r]]
        /\ att' = [att EXCEPT ![r] = att[r]]
        /\ UNCHANGED <<row, attempt, invoked, held>>
        /\ pc[r] \in StepPC
    BY <1>3 DEF NothingToDo, Refuse, DispatchDenied, CloseWith, Goto, db, TypeOK, StepPC
  <2>2. Holds(row, r, held[r]) => cur[r].owner = r /\ cur[r].epoch = held[r]
    BY <2>1 DEF IInv, Inv, LeaseInv
  <2>3. QED
    BY <2>1, <2>2, QuietStep DEF InHand
<1>4. CASE RecordFails(r)
  <2>1. PICK p \in {"result", "close"} : pc' = [pc EXCEPT ![r] = p]
    BY <1>4 DEF RecordFails, CloseWith, Goto
  <2>2. /\ cur' = [cur EXCEPT ![r] = cur[r]]
        /\ att' = [att EXCEPT ![r] = att[r]]
        /\ UNCHANGED <<row, attempt, invoked, held>>
        /\ pc[r] \in StepPC
    BY <1>4 DEF RecordFails, db, TypeOK, StepPC
  <2>3. Holds(row, r, held[r]) => cur[r].owner = r /\ cur[r].epoch = held[r]
    BY <2>2 DEF IInv, Inv, LeaseInv
  <2>4. QED
    BY <2>1, <2>2, <2>3, QuietStep DEF InHand
<1>5. CASE CheckpointResult(r)
  <2>1. pc[r] \in StepPC
    BY <1>5 DEF CheckpointResult, StepPC
  <2>2. CASE CanSaveFenced(row, r, held[r])
    <3>1. /\ row' = [cur[r] EXCEPT !.state = "RUNNING", !.phase = "RESULT"]
          /\ cur' = [cur EXCEPT ![r] = row']
          /\ pc' = [pc EXCEPT ![r] = "close"]
          /\ att' = [att EXCEPT ![r] = att[r]]
          /\ UNCHANGED <<attempt, invoked, held>>
      BY <1>5, <2>2
      DEF CheckpointResult, SaveRaises, CloseWith, Goto, TypeOK, CanSaveFenced, CanSave
    <3>2. row'.owner = row.owner /\ row'.epoch = row.epoch /\ row'.owner = r
          /\ row'.epoch = held[r]
      BY <2>1, <2>2, <3>1, FencedSaveKeepsLease, SavedLease
    <3>3. QED
      BY <3>1, <3>2, QuietStep DEF InHand
  <2>3. CASE row.state \in Terminal
    <3>1. /\ cur' = [cur EXCEPT ![r] = row]
          /\ pc' = [pc EXCEPT ![r] = "close"]
          /\ att' = [att EXCEPT ![r] = att[r]]
          /\ UNCHANGED <<row, attempt, invoked, held>>
      BY <1>5, <2>3
      DEF CheckpointResult, CloseWith, Goto, db, TypeOK, CanSaveFenced, CanSave
    <3>2. QED
      BY <3>1, QuietStep DEF InHand, Holds
  <2>4. CASE ~CanSaveFenced(row, r, held[r]) /\ row.state \notin Terminal
    BY <1>5, <2>4, RaiseSafe DEF CheckpointResult
  <2>5. QED
    BY <2>2, <2>3, <2>4
<1>6. CASE CompleteCycle(r)
  <2>1. pc[r] \in StepPC
    BY <1>6 DEF CompleteCycle, StepPC
  <2>2. CASE CanSaveFenced(row, r, held[r])
    <3>1. /\ pc' = [pc EXCEPT ![r] = "loop"]
          /\ cur' = [cur EXCEPT ![r] = FreshRow]
          /\ att' = [att EXCEPT ![r] = NoAttempt]
          /\ UNCHANGED <<attempt, invoked, held>>
      BY <1>6, <2>2 DEF CompleteCycle, SaveRaises, Goto, Forget
    <3>2. row'.owner = cur[r].owner /\ row'.epoch = cur[r].epoch
      <4>1. cur[r] \in Row
        BY DEF TypeOK
      <4>2. PICK n, e : row' = [cur[r] EXCEPT !.state = goal[r], !.phase = "CYCLE",
                                  !.cycle = n, !.exp = e]
        BY <1>6, <2>2 DEF CompleteCycle, SaveRaises
      <4>3. QED
        BY <4>1, <4>2, SavedLease
    <3>3. row'.owner = row.owner /\ row'.epoch = row.epoch
      BY <2>1, <2>2, <3>2, FencedSaveKeepsLease
    <3>4. QED
      BY <3>1, <3>3, QuietStep DEF InHand, StepPC
  <2>3. CASE ~CanSaveFenced(row, r, held[r])
    BY <1>6, <2>3, RaiseSafe DEF CompleteCycle
  <2>4. QED
    BY <2>2, <2>3
<1>7. QED
  BY <1>1, <1>2, <1>3, <1>4, <1>5, <1>6

(***************************************************************************)
(* Acquiring and releasing the lease.  The row gets an owner other than a  *)
(* working supervisor, or an epoch that no supervisor has: none that was   *)
(* stale becomes the holder.                                               *)
(***************************************************************************)
LEMMA ExitSafe ==
    ASSUME IInv, NEW r \in Runtime, SupervisorExit(r)
    PROVE  Inv'
<1>. TypeOK
  BY DEF IInv, Typed
<1>1. /\ pc' = [pc EXCEPT ![r] = "off"]
      /\ UNCHANGED <<attempt, invoked, held, cur, att>>
  BY DEF SupervisorExit, Goto
<1>2. row'.epoch = row.epoch /\ row'.owner \in {row.owner, NoOwner}
  BY DEF SupervisorExit, Released, TypeOK, Row
<1>3. \A q \in Runtime : Holds(row', q, held[q]) => Holds(row, q, held[q])
  BY <1>2, OwnerAssumption DEF Holds
<1>4. LeaseInv'
  BY <1>1, <1>2, <1>3 DEF IInv, Inv, LeaseInv, TypeOK, StepPC
<1>5. MarkInv'
  BY <1>1 DEF IInv, Inv, MarkInv, TypeOK, InHand
<1>6. SentInv'
  BY <1>1, <1>3 DEF IInv, Inv, SentInv, Sent, TypeOK
<1>7. CallInv'
  BY <1>1 DEF IInv, Inv, CallInv, AtMostOneInvocation, TypeOK
<1>8. InsertInv'
  BY <1>1, <1>3 DEF IInv, Inv, InsertInv, OneAttemptPerExperiment, TypeOK
<1>9. QED
  BY <1>4, <1>5, <1>6, <1>7, <1>8 DEF Inv

(* A new lease keeps the invariant: its epoch is above every one held. *)
LEMMA AttachSafe ==
    ASSUME IInv, NEW r \in Runtime, Attach(r)
    PROVE  Inv'
<1>. TypeOK
  BY DEF IInv, Typed
<1>1. CASE UNCHANGED <<row, held, pc>>
  BY <1>1, QuietManagement DEF Attach
<1>2. CASE ~UNCHANGED <<row, held, pc>>
  <2>1. /\ pc[r] = "off"
        /\ row' = Acquired(row, r)
        /\ held' = [held EXCEPT ![r] = row.epoch + 1]
        /\ pc' = [pc EXCEPT ![r] = "loop"]
        /\ UNCHANGED <<attempt, invoked, cur, att>>
    BY <1>2 DEF Attach, Goto
  <2>2. row'.owner = r /\ row'.epoch = row.epoch + 1 /\ row.epoch \in Nat
    BY <2>1 DEF Acquired, TypeOK, Row
  <2>3. \A q \in Runtime \ {r} : ~Holds(row', q, held'[q])
    BY <2>2 DEF Holds
  <2>4. LeaseInv'
    BY <2>1, <2>2, <2>3 DEF IInv, Inv, LeaseInv, TypeOK, StepPC
  <2>5. MarkInv'
    BY <2>1 DEF IInv, Inv, MarkInv, TypeOK, InHand
  <2>6. SentInv'
    BY <2>1, <2>3 DEF IInv, Inv, SentInv, Sent, TypeOK
  <2>7. CallInv'
    BY <2>1 DEF IInv, Inv, CallInv, AtMostOneInvocation, TypeOK
  <2>8. InsertInv'
    BY <2>1, <2>3 DEF IInv, Inv, InsertInv, OneAttemptPerExperiment, TypeOK
  <2>9. QED
    BY <2>4, <2>5, <2>6, <2>7, <2>8 DEF Inv
<1>3. QED
  BY <1>1, <1>2

(* The other steps of a management thread and the life of a process. *)
LEMMA ManagementSafe ==
    ASSUME IInv, ~reverted', NEW r \in Runtime,
           \/ ManagerStep(r) \/ OperatorCommand(r)
           \/ StartProcess(r) \/ Drain(r) \/ Crash(r)
    PROVE  Inv'
<1>. TypeOK
  BY DEF IInv, Typed
<1>1. CASE ListRecoverable(r) \/ Classify(r) \/ StopSupervisor(r)
  BY <1>1, QuietManagement DEF ListRecoverable, Classify, StopSupervisor, db, super
<1>2. CASE OperatorCommand(r)
  BY <1>2, QuietManagement
  DEF OperatorCommand, StartRun, BeginStop, BeginResume, db, super
<1>3. CASE StartProcess(r) \/ Drain(r)
  BY <1>3, QuietManagement DEF StartProcess, Drain, db, super
<1>4. CASE OperatorSave(r)
  <2>1. mcur[r] \in Row
    BY <1>4 DEF OperatorSave, TypeOK
  <2>2. row'.owner = row.owner /\ row'.epoch = row.epoch
    <3>1. CASE CanSave(row)
      <4>1. /\ row' = [mcur[r] EXCEPT !.state = SavedState(mpc[r])]
            /\ mcur[r].owner = row.owner /\ mcur[r].epoch = row.epoch
        BY <1>4, <3>1 DEF OperatorSave
      <4>2. QED
        BY <2>1, <4>1, SavedLease
    <3>2. CASE ~CanSave(row)
      BY <1>4, <3>2 DEF OperatorSave
    <3>3. QED
      BY <3>1, <3>2
  <2>3. QED
    BY <1>4, <2>2, QuietManagement DEF OperatorSave, super
<1>5. CASE Crash(r)
  <2>1. /\ pc' = [pc EXCEPT ![r] = "off"]
        /\ cur' = [cur EXCEPT ![r] = FreshRow]
        /\ att' = [att EXCEPT ![r] = NoAttempt]
        /\ UNCHANGED <<row, attempt, invoked, held>>
    BY <1>5 DEF Crash, Goto, Forget, db
  <2>2. QED
    BY <2>1, QuietStep DEF InHand, StepPC
<1>6. QED
  BY <1>1, <1>2, <1>3, <1>4, <1>5, AttachSafe DEF ManagerStep

(* Deciding what a step is to do, and reading what exists. *)
LEMMA InspectSafe ==
    ASSUME IInv, NEW r \in Runtime, Inspect(r)
    PROVE  Inv'
<1>. TypeOK
  BY DEF IInv, Typed
<1>1. /\ UNCHANGED <<row, attempt, invoked, held, cur>>
      /\ pc[r] = "step"
  BY DEF Inspect, db
<1>2. Holds(row, r, held[r]) => cur[r].owner = r /\ cur[r].epoch = held[r]
  BY <1>1 DEF IInv, Inv, LeaseInv, StepPC
<1>3. CASE pc' = [pc EXCEPT ![r] = "read"]
  <2>1. PICK a \in Attempt : /\ attempt[a].state = "AUTHORIZED"
                            /\ att' = [att EXCEPT ![r] = a]
    BY <1>1, <1>3 DEF Inspect, CloseWith, Goto, TypeOK
  <2>2. LeaseInv'
    BY <1>1, <1>2, <1>3 DEF IInv, Inv, LeaseInv, TypeOK, StepPC
  <2>3. MarkInv'
    BY <1>1, <1>3, <2>1 DEF IInv, Inv, MarkInv, InHand, TypeOK
  <2>4. SentInv'
    BY <1>1, <1>3, <2>1 DEF IInv, Inv, SentInv, Sent, TypeOK
  <2>5. CallInv'
    BY <1>1, <1>3, <2>1 DEF IInv, Inv, CallInv, AtMostOneInvocation, TypeOK
  <2>6. InsertInv'
    BY <1>1, <1>3 DEF IInv, Inv, InsertInv, OneAttemptPerExperiment, TypeOK
  <2>7. QED
    BY <2>2, <2>3, <2>4, <2>5, <2>6 DEF Inv
<1>4. CASE pc' # [pc EXCEPT ![r] = "read"]
  <2>1. PICK p \in {"close", "auth", "mark"} : pc' = [pc EXCEPT ![r] = p]
    BY <1>4 DEF Inspect, CloseWith, Goto
  <2>2. /\ att' = [att EXCEPT ![r] = att[r]]
        /\ cur' = [cur EXCEPT ![r] = cur[r]]
    BY <1>1, <1>4 DEF Inspect, Goto, TypeOK
  <2>3. QED
    BY <1>1, <1>2, <2>1, <2>2, QuietStep DEF InHand
<1>5. QED
  BY <1>3, <1>4

(***************************************************************************)
(* A supervisor in hand of no attempt, or of one that it read as not       *)
(* AUTHORIZED, fails it closed or leaves it, and goes to a point where it  *)
(* holds none; or it records the outcome of the one it called for.         *)
(***************************************************************************)
LEMMA LetGo ==
    ASSUME IInv, NEW r \in Runtime, NEW p, NEW a \in Attempt, NEW s \in AttemptState,
           attempt[a].state \notin {"NONE", "AUTHORIZED"},
           s \notin {"NONE", "AUTHORIZED"},
           pc[r] \in StepPC,
           attempt' = [attempt EXCEPT ![a].state = s],
           pc' = [pc EXCEPT ![r] = p],
           p \in StepPC, p \notin InHand, p # "insert",
           UNCHANGED <<row, invoked, held, cur, att>>
    PROVE  Inv'
<1>. TypeOK
  BY DEF IInv, Typed
<1>1. \A b \in Attempt : /\ attempt'[b].exp = attempt[b].exp
                         /\ attempt'[b].state = "NONE" <=> attempt[b].state = "NONE"
                         /\ attempt'[b].state = "AUTHORIZED"
                              <=> attempt[b].state = "AUTHORIZED"
  BY DEF TypeOK, AttemptRecord
<1>2. LeaseInv'
  BY DEF IInv, Inv, LeaseInv, TypeOK, StepPC
<1>3. MarkInv'
  <2>1. \A q \in Runtime : pc'[q] \in InHand => pc'[q] = pc[q] /\ att[q] \in Attempt
    BY DEF IInv, Typed, AttemptInHand, TypeOK, InHand
  <2>2. QED
    BY <1>1, <2>1 DEF IInv, Inv, MarkInv, InHand
<1>4. SentInv'
  BY <1>1 DEF IInv, Inv, SentInv, Sent, TypeOK, InHand
<1>5. CallInv'
  BY DEF IInv, Inv, CallInv, AtMostOneInvocation, TypeOK, InHand
<1>6. InsertInv'
  BY <1>1 DEF IInv, Inv, InsertInv, OneAttemptPerExperiment, TypeOK
<1>7. QED
  BY <1>2, <1>3, <1>4, <1>5, <1>6 DEF Inv

(* Looking for an attempt of the planned experiment. *)
LEMMA ReadExistingSafe ==
    ASSUME IInv, NEW r \in Runtime, ReadExisting(r)
    PROVE  Inv'
<1>. TypeOK
  BY DEF IInv, Typed
<1>1. /\ pc[r] = "auth" /\ pc[r] \in StepPC
      /\ UNCHANGED <<row, invoked, held, cur, att>>
  BY DEF ReadExisting, StepPC
<1>2. Holds(row, r, held[r]) => cur[r].owner = r /\ cur[r].epoch = held[r]
  BY <1>1 DEF IInv, Inv, LeaseInv
<1>3. CASE AttemptsOf(cur[r].exp) = {}
  <2>1. pc' = [pc EXCEPT ![r] = "insert"] /\ attempt' = attempt
    BY <1>3 DEF ReadExisting, Goto
  <2>2. \A a \in Attempt : attempt[a].state # "NONE" => attempt[a].exp # cur[r].exp
    BY <1>3 DEF AttemptsOf
  <2>3. LeaseInv'
    BY <1>1, <1>2, <2>1 DEF IInv, Inv, LeaseInv, TypeOK, StepPC
  <2>4. MarkInv' /\ SentInv' /\ CallInv'
    BY <1>1, <2>1
    DEF IInv, Inv, MarkInv, SentInv, Sent, CallInv, AtMostOneInvocation, InHand, TypeOK
  <2>5. InsertInv'
    BY <1>1, <2>1, <2>2 DEF IInv, Inv, InsertInv, OneAttemptPerExperiment, TypeOK
  <2>6. QED
    BY <2>3, <2>4, <2>5 DEF Inv
<1>4. CASE AttemptsOf(cur[r].exp) # {}
  <2>1. pc' = [pc EXCEPT ![r] = "close"]
    BY <1>4 DEF ReadExisting, CloseWith, Goto
  <2>2. CASE attempt' = attempt
    <3>1. att' = [att EXCEPT ![r] = att[r]] /\ cur' = [cur EXCEPT ![r] = cur[r]]
      BY <1>1 DEF TypeOK
    <3>2. QED
      BY <1>1, <1>2, <2>1, <2>2, <3>1, QuietStep DEF InHand
  <2>3. CASE attempt' # attempt
    <3>1. PICK a \in Attempt :
              /\ attempt[a].state = "DISPATCHING"
              /\ attempt' = [attempt EXCEPT ![a].state = "UNKNOWN_OUTCOME"]
      BY <1>4, <2>3 DEF ReadExisting, SetState, AttemptsOf
    <3>2. QED
      BY <1>1, <2>1, <3>1, LetGo DEF InHand, StepPC, AttemptState
  <2>4. QED
    BY <2>2, <2>3
<1>5. QED
  BY <1>3, <1>4

(* Inserting the attempt: only the holder does, and it found none. *)
LEMMA AuthorizeSafe ==
    ASSUME IInv, NEW r \in Runtime, Authorize(r)
    PROVE  Inv'
<1>. TypeOK
  BY DEF IInv, Typed
<1>1. pc[r] = "insert" /\ pc[r] \in StepPC
  BY DEF Authorize, StepPC
<1>2. CASE CanSaveFenced(row, r, held[r])
  <2>1. PICK a \in Attempt :
            /\ attempt[a].state = "NONE"
            /\ attempt' = [attempt EXCEPT
                   ![a] = [exp |-> cur[r].exp, state |-> "AUTHORIZED"]]
            /\ att' = [att EXCEPT ![r] = a]
    BY <1>2 DEF Authorize, SaveRaises
  <2>2. /\ row' = [cur[r] EXCEPT !.state = "RUNNING"]
        /\ cur' = [cur EXCEPT ![r] = row']
        /\ pc' = [pc EXCEPT ![r] = "read"]
        /\ UNCHANGED <<invoked, held>>
    BY <1>2 DEF Authorize, SaveRaises, Goto
  <2>3. /\ row'.owner = row.owner /\ row'.epoch = row.epoch
        /\ row'.owner = r /\ row'.epoch = held[r]
    BY <1>1, <1>2, <2>2, FencedSaveKeepsLease, SavedLease
  <2>4. /\ attempt'[a].exp = cur[r].exp /\ attempt'[a].state = "AUTHORIZED"
        /\ \A b \in Attempt \ {a} : attempt'[b] = attempt[b]
    BY <2>1 DEF TypeOK
  <2>5. \A q \in Runtime \ {r} : ~Holds(row, q, held[q]) /\ ~Holds(row', q, held'[q])
    BY <1>2, <2>3 DEF CanSaveFenced, Holds
  <2>6. LeaseInv'
    BY <2>2, <2>3, <2>5 DEF IInv, Inv, LeaseInv, TypeOK
  <2>7. MarkInv'
    BY <2>1, <2>2, <2>4 DEF IInv, Inv, MarkInv, InHand, Typed, AttemptInHand, TypeOK
  <2>8. SentInv'
    BY <2>1, <2>2, <2>4, <2>5 DEF IInv, Inv, SentInv, Sent, TypeOK
  <2>9. CallInv'
    BY <2>1, <2>2 DEF IInv, Inv, CallInv, AtMostOneInvocation, TypeOK
  <2>10. InsertInv'
    <3>1. \A b \in Attempt : attempt[b].state # "NONE" => attempt[b].exp # cur[r].exp
      BY <1>1, <1>2 DEF IInv, Inv, InsertInv, CanSaveFenced
    <3>2. OneAttemptPerExperiment'
      BY <2>4, <3>1 DEF IInv, Inv, InsertInv, OneAttemptPerExperiment
    <3>3. QED
      BY <2>2, <2>5, <3>2 DEF InsertInv, TypeOK
  <2>11. QED
    BY <2>6, <2>7, <2>8, <2>9, <2>10 DEF Inv
<1>3. CASE ~CanSaveFenced(row, r, held[r])
  BY <1>3, RaiseSafe DEF Authorize
<1>4. QED
  BY <1>2, <1>3

(* Reading the attempt before dispatch: what was sent is not AUTHORIZED. *)
LEMMA ReadAttemptSafe ==
    ASSUME IInv, NEW r \in Runtime, ReadAttempt(r)
    PROVE  Inv'
<1>. TypeOK
  BY DEF IInv, Typed
<1>1. /\ pc[r] = "read" /\ pc[r] \in StepPC
      /\ att[r] \in Attempt
      /\ UNCHANGED <<row, invoked, held, cur, att>>
  BY DEF ReadAttempt, StepPC, IInv, Typed, AttemptInHand
<1>2. Holds(row, r, held[r]) => cur[r].owner = r /\ cur[r].epoch = held[r]
  BY <1>1 DEF IInv, Inv, LeaseInv
<1>3. CASE attempt[att[r]].state = "AUTHORIZED"
  <2>1. pc' = [pc EXCEPT ![r] = "dispatch"] /\ attempt' = attempt
    BY <1>3 DEF ReadAttempt, Goto
  <2>2. LeaseInv'
    BY <1>1, <1>2, <2>1 DEF IInv, Inv, LeaseInv, TypeOK, StepPC
  <2>3. MarkInv'
    BY <1>1, <1>3, <2>1 DEF IInv, Inv, MarkInv, InHand, TypeOK
  <2>4. SentInv'
    BY <1>1, <1>3, <2>1 DEF IInv, Inv, SentInv, Sent, TypeOK
  <2>5. CallInv'
    BY <1>1, <2>1 DEF IInv, Inv, CallInv, AtMostOneInvocation, TypeOK
  <2>6. InsertInv'
    BY <1>1, <2>1 DEF IInv, Inv, InsertInv, OneAttemptPerExperiment, TypeOK
  <2>7. QED
    BY <2>2, <2>3, <2>4, <2>5, <2>6 DEF Inv
<1>4. CASE attempt[att[r]].state # "AUTHORIZED"
  <2>1. pc' = [pc EXCEPT ![r] = "close"]
    BY <1>4 DEF ReadAttempt, CloseWith, Goto
  <2>2. CASE attempt' = attempt
    <3>1. att' = [att EXCEPT ![r] = att[r]] /\ cur' = [cur EXCEPT ![r] = cur[r]]
      BY <1>1 DEF TypeOK
    <3>2. QED
      BY <1>1, <1>2, <2>1, <2>2, <3>1, QuietStep DEF InHand
  <2>3. CASE attempt' # attempt
    <3>1. /\ attempt[att[r]].state = "DISPATCHING"
          /\ attempt' = [attempt EXCEPT ![att[r]].state = "UNKNOWN_OUTCOME"]
      BY <1>4, <2>3 DEF ReadAttempt, SetState
    <3>2. QED
      BY <1>1, <2>1, <3>1, LetGo DEF InHand, StepPC, AttemptState
  <2>4. QED
    BY <2>2, <2>3
<1>5. QED
  BY <1>3, <1>4

(* Marking the attempt, whatever it is by now. *)
LEMMA MarkSafe ==
    ASSUME IInv, NEW r \in Runtime, MarkDispatching(r)
    PROVE  Inv'
<1>. TypeOK
  BY DEF IInv, Typed
<1>1. /\ pc[r] = "dispatch" /\ pc[r] \in StepPC
      /\ att[r] \in Attempt
      /\ attempt' = [attempt EXCEPT ![att[r]].state = "DISPATCHING"]
      /\ pc' = [pc EXCEPT ![r] = "fence"]
      /\ UNCHANGED <<row, invoked, held, cur, att>>
  BY DEF MarkDispatching, SetState, Goto, StepPC, IInv, Typed, AttemptInHand
<1>2. /\ attempt'[att[r]].state = "DISPATCHING"
      /\ \A b \in Attempt : attempt'[b].exp = attempt[b].exp
      /\ \A b \in Attempt \ {att[r]} : attempt'[b] = attempt[b]
  BY <1>1 DEF TypeOK, AttemptRecord
<1>3. attempt[att[r]].state # "NONE"
  BY <1>1 DEF IInv, Inv, MarkInv, InHand
<1>4. LeaseInv'
  BY <1>1 DEF IInv, Inv, LeaseInv, TypeOK
<1>5. MarkInv'
  BY <1>1, <1>2 DEF IInv, Inv, MarkInv, InHand, Typed, AttemptInHand, TypeOK
<1>6. SentInv'
  BY <1>1, <1>2 DEF IInv, Inv, SentInv, Sent, TypeOK
<1>7. CallInv'
  BY <1>1 DEF IInv, Inv, CallInv, AtMostOneInvocation, TypeOK
<1>8. InsertInv'
  BY <1>1, <1>2, <1>3 DEF IInv, Inv, InsertInv, OneAttemptPerExperiment, TypeOK
<1>9. QED
  BY <1>4, <1>5, <1>6, <1>7, <1>8 DEF Inv

(* Passing the fence: only the holder does, so every other is stale. *)
LEMMA FenceSafe ==
    ASSUME IInv, NEW r \in Runtime, CheckFence(r)
    PROVE  Inv'
<1>. TypeOK
  BY DEF IInv, Typed
<1>1. pc[r] = "fence" /\ att[r] \in Attempt
  BY DEF CheckFence, IInv, Typed, AttemptInHand
<1>2. CASE Holds(row, r, held[r])
  <2>1. /\ pc' = [pc EXCEPT ![r] = "call"]
        /\ UNCHANGED <<row, attempt, invoked, held, cur, att>>
    BY <1>2 DEF CheckFence, Goto, db
  <2>2. ~Sent(att[r])
    BY <1>1, <1>2 DEF IInv, Inv, SentInv
  <2>3. \A q \in Runtime \ {r} : ~Holds(row, q, held[q])
    BY <1>2 DEF Holds
  <2>4. LeaseInv'
    BY <1>1, <2>1 DEF IInv, Inv, LeaseInv, TypeOK, StepPC
  <2>5. MarkInv'
    BY <1>1, <2>1 DEF IInv, Inv, MarkInv, InHand, TypeOK
  <2>6. SentInv'
    <3>1. attempt[att[r]].state \notin {"NONE", "AUTHORIZED"}
      BY <1>1 DEF IInv, Inv, MarkInv, InHand
    <3>2. \A a \in Attempt : Sent(a)' => Sent(a) \/ a = att[r]
      BY <2>1 DEF Sent, TypeOK
    <3>3. QED
      BY <2>1, <2>3, <3>1, <3>2 DEF IInv, Inv, SentInv, TypeOK
  <2>7. CallInv'
    BY <1>1, <2>1, <2>2
    DEF IInv, Inv, CallInv, AtMostOneInvocation, Sent, TypeOK
  <2>8. InsertInv'
    BY <2>1 DEF IInv, Inv, InsertInv, OneAttemptPerExperiment, TypeOK
  <2>9. QED
    BY <2>4, <2>5, <2>6, <2>7, <2>8 DEF Inv
<1>3. CASE ~Holds(row, r, held[r])
  <2>1. /\ pc' = [pc EXCEPT ![r] = "off"]
        /\ cur' = [cur EXCEPT ![r] = FreshRow]
        /\ att' = [att EXCEPT ![r] = NoAttempt]
        /\ UNCHANGED <<row, attempt, invoked, held>>
    BY <1>3 DEF CheckFence, Goto, Forget, db
  <2>2. QED
    BY <2>1, QuietStep DEF InHand, StepPC
<1>4. QED
  BY <1>2, <1>3

(* The call itself, and its outcome. *)
LEMMA InvokeSafe ==
    ASSUME IInv, NEW r \in Runtime, InvokeWorker(r)
    PROVE  Inv'
<1>. TypeOK
  BY DEF IInv, Typed
<1>1. /\ pc[r] = "call" /\ att[r] \in Attempt
      /\ invoked' = [invoked EXCEPT ![att[r]] = @ + 1]
      /\ pc' = [pc EXCEPT ![r] = "wait"]
      /\ UNCHANGED <<row, attempt, held, cur, att>>
  BY DEF InvokeWorker, Goto, IInv, Typed, AttemptInHand
<1>2. invoked[att[r]] = 0 /\ Sent(att[r])
  BY <1>1 DEF IInv, Inv, CallInv, Sent
<1>3. /\ invoked'[att[r]] = 1
      /\ \A b \in Attempt \ {att[r]} : invoked'[b] = invoked[b]
  BY <1>1, <1>2 DEF TypeOK
<1>4. LeaseInv'
  BY <1>1 DEF IInv, Inv, LeaseInv, TypeOK, StepPC
<1>5. MarkInv'
  BY <1>1 DEF IInv, Inv, MarkInv, InHand, TypeOK
<1>6. SentInv'
  <2>1. \A a \in Attempt : Sent(a)' => Sent(a)
    BY <1>1, <1>2, <1>3 DEF Sent, TypeOK
  <2>2. QED
    BY <1>1, <2>1 DEF IInv, Inv, SentInv, TypeOK
<1>7. CallInv'
  <2>1. AtMostOneInvocation'
    BY <1>1, <1>3 DEF IInv, Inv, CallInv, AtMostOneInvocation
  <2>2. \A q \in Runtime : pc'[q] = "call" => invoked'[att'[q]] = 0
    BY <1>1, <1>3 DEF IInv, Inv, CallInv, Typed, AttemptInHand, TypeOK
  <2>3. QED
    BY <1>1, <2>1, <2>2 DEF IInv, Inv, CallInv, TypeOK
<1>8. InsertInv'
  BY <1>1 DEF IInv, Inv, InsertInv, OneAttemptPerExperiment, TypeOK
<1>9. QED
  BY <1>4, <1>5, <1>6, <1>7, <1>8 DEF Inv

(* Recording an outcome, or failing to, keeps the invariant. *)
LEMMA OutcomeSafe ==
    ASSUME IInv, NEW r \in Runtime, RecordOutcome(r)
    PROVE  Inv'
<1>1. /\ pc[r] = "wait" /\ att[r] \in Attempt
      /\ UNCHANGED <<row, invoked, held, cur, att>>
  BY DEF RecordOutcome, IInv, Typed, AttemptInHand
<1>2. attempt[att[r]].state \notin {"NONE", "AUTHORIZED"}
  BY <1>1 DEF IInv, Inv, MarkInv, InHand
<1>3. PICK p \in {"result", "close"} : pc' = [pc EXCEPT ![r] = p]
  BY DEF RecordOutcome, CloseWith, Goto
<1>4. PICK s \in {"COMPLETED", "FAILED", "UNKNOWN_OUTCOME"} :
          attempt' = [attempt EXCEPT ![att[r]].state = s]
  BY DEF RecordOutcome, SetState
<1>5. QED
  BY <1>1, <1>2, <1>3, <1>4, LetGo DEF InHand, StepPC, AttemptState

(* Time changes no lease column but its remaining life. *)
LEMMA TimeSafe ==
    ASSUME IInv, TimePasses
    PROVE  Inv'
<1>. TypeOK
  BY DEF IInv, Typed
<1>1. \A x \in Row : /\ Older(x).owner = x.owner /\ Older(x).epoch = x.epoch
                     /\ Older(x).exp = x.exp
  BY DEF Row, Older
<1>2. /\ row'.owner = row.owner /\ row'.epoch = row.epoch
      /\ \A r \in Runtime : /\ cur'[r].owner = cur[r].owner
                            /\ cur'[r].epoch = cur[r].epoch
                            /\ cur'[r].exp = cur[r].exp
      /\ UNCHANGED <<attempt, invoked, held, pc, att>>
  BY <1>1 DEF TimePasses, TypeOK
<1>3. LeaseInv'
  BY <1>2 DEF IInv, Inv, LeaseInv, Holds
<1>4. MarkInv'
  BY <1>2 DEF IInv, Inv, MarkInv
<1>5. SentInv'
  BY <1>2 DEF IInv, Inv, SentInv, Sent, Holds
<1>6. CallInv'
  BY <1>2 DEF IInv, Inv, CallInv, AtMostOneInvocation
<1>7. InsertInv'
  BY <1>2 DEF IInv, Inv, InsertInv, OneAttemptPerExperiment, Holds
<1>8. QED
  BY <1>3, <1>4, <1>5, <1>6, <1>7 DEF Inv

(* The lease invariant survives every step but a save that reverts. *)
LEMMA NextInv == IInv /\ [Next]_vars /\ ~reverted' => Inv'
<1>. SUFFICES ASSUME IInv, [Next]_vars, ~reverted' PROVE Inv'
  OBVIOUS
<1>1. ASSUME NEW r \in Runtime, SupervisorStep(r) \/ TickFault(r) \/ StepFault(r)
      PROVE  Inv'
  BY <1>1, LoopSafe, ExitSafe, InspectSafe, CycleSafe, ReadExistingSafe,
     AuthorizeSafe, ReadAttemptSafe, MarkSafe, FenceSafe, InvokeSafe, OutcomeSafe
  DEF SupervisorStep
<1>2. CASE UNCHANGED vars
  BY <1>2, QuietManagement DEF vars
<1>3. QED
  BY <1>1, <1>2, TimeSafe, ManagementSafe DEF Next

(* Only an operator's save sets the history variable, and nothing clears it. *)
LEMMA RevertedStays ==
    ASSUME Typed, [Next]_vars, reverted
    PROVE  reverted'
<1>1. ASSUME NEW r \in Runtime, SupervisorStep(r) \/ TickFault(r) \/ StepFault(r)
      PROVE  reverted' = reverted
  BY <1>1 DEF SupervisorStep, SupervisorExit, RenewLease, Tick, TickFault, StepFault,
     Inspect, MarkRunning, NothingToDo, PlanExperiment, ReadExisting, Authorize, Refuse,
     ReadAttempt, MarkDispatching, DispatchDenied, CheckFence, InvokeWorker,
     RecordOutcome, RecordFails, CheckpointResult, CompleteCycle, SaveRaises, mgr
<1>2. ASSUME NEW r \in Runtime,
             \/ ManagerStep(r) \/ OperatorCommand(r)
             \/ StartProcess(r) \/ Drain(r) \/ Crash(r)
      PROVE  reverted'
  BY <1>2 DEF ManagerStep, ListRecoverable, Classify, Attach, OperatorSave,
     StopSupervisor, OperatorCommand, StartRun, BeginStop, BeginResume, StartProcess,
     Drain, Crash
<1>3. CASE TimePasses \/ UNCHANGED vars
  BY <1>3 DEF TimePasses, vars
<1>4. QED
  BY <1>1, <1>2, <1>3 DEF Next

(* Guarded holds initially. *)
LEMMA InitGuarded == Init => Guarded
BY InitIInv DEF IInv, Guarded

(* Guarded is inductive for every step. *)
LEMMA NextGuarded == Guarded /\ [Next]_vars => Guarded'
<1>. SUFFICES ASSUME Guarded, [Next]_vars PROVE Guarded'
  OBVIOUS
<1>1. Typed'
  BY NextTypes DEF Guarded
<1>2. CASE reverted
  BY <1>1, <1>2, RevertedStays DEF Guarded
<1>3. CASE ~reverted
  BY <1>1, <1>3, NextInv DEF Guarded, IInv
<1>4. QED
  BY <1>2, <1>3

(***************************************************************************)
(* However many supervisors stall, crash and take over, and whatever the   *)
(* operator's transactions overlap with, the Worker is called a second     *)
(* time for an attempt only after a save that put a lost lease back.       *)
(***************************************************************************)
THEOREM InvokedAtMostOnce == Spec => []SecondCallNeedsStaleSave
<1>1. Guarded => SecondCallNeedsStaleSave
  BY DEF Guarded, Inv, CallInv, AtMostOneInvocation, SecondCallNeedsStaleSave, Typed,
     TypeOK
<1>2. QED
  BY <1>1, InitGuarded, NextGuarded, PTL DEF Spec

(* Likewise an experiment gets a second attempt only after such a save,
   though no constraint of the schema forbids it. *)
THEOREM AttemptIsUnique == Spec => []SecondAttemptNeedsStaleSave
<1>1. Guarded => SecondAttemptNeedsStaleSave
  BY DEF Guarded, Inv, InsertInv, OneAttemptPerExperiment, SecondAttemptNeedsStaleSave
<1>2. QED
  BY <1>1, InitGuarded, NextGuarded, PTL DEF Spec

(* A step of a supervisor leaves the epoch: its saves are of its own lease. *)
LEMMA SupervisorKeepsEpoch ==
    ASSUME IInv, NEW r \in Runtime, SupervisorStep(r) \/ TickFault(r) \/ StepFault(r)
    PROVE  row'.epoch = row.epoch
<1>. TypeOK
  BY DEF IInv, Typed
<1>1. CASE SupervisorExit(r) \/ RenewLease(r) \/ StepFault(r)
  BY <1>1 DEF SupervisorExit, RenewLease, StepFault, Released, Renewed, TypeOK, Row
<1>2. CASE \/ TickFault(r) \/ Tick(r) \/ Inspect(r) \/ NothingToDo(r)
           \/ ReadExisting(r) \/ Refuse(r) \/ ReadAttempt(r) \/ MarkDispatching(r)
           \/ DispatchDenied(r) \/ CheckFence(r) \/ InvokeWorker(r)
           \/ RecordOutcome(r) \/ RecordFails(r)
  BY <1>2 DEF TickFault, Tick, Inspect, NothingToDo, ReadExisting, Refuse, ReadAttempt,
     MarkDispatching, DispatchDenied, CheckFence, InvokeWorker, RecordOutcome,
     RecordFails, db
<1>3. CASE \/ MarkRunning(r) \/ PlanExperiment(r) \/ Authorize(r)
           \/ CheckpointResult(r) \/ CompleteCycle(r)
  <2>1. CASE row' = row
    BY <2>1
  <2>2. CASE row' # row
    <3>1. pc[r] \in StepPC /\ CanSaveFenced(row, r, held[r])
      BY <1>3, <2>2 DEF MarkRunning, PlanExperiment, Authorize, CheckpointResult,
         CompleteCycle, SaveRaises, db, StepPC
    <3>2. cur[r].epoch = row.epoch /\ cur[r] \in Row
      BY <3>1, FencedSaveKeepsLease
    <3>3. row'.epoch = cur[r].epoch
      <4>1. CASE MarkRunning(r) \/ Authorize(r) \/ CheckpointResult(r)
        BY <2>2, <3>2, <4>1
        DEF MarkRunning, Authorize, CheckpointResult, SaveRaises, db, Row
      <4>2. CASE PlanExperiment(r)
        BY <2>2, <3>2, <4>2 DEF PlanExperiment, SaveRaises, db, Row
      <4>3. CASE CompleteCycle(r)
        BY <2>2, <3>2, <4>3 DEF CompleteCycle, SaveRaises, db, Row
      <4>4. QED
        BY <1>3, <4>1, <4>2, <4>3
    <3>4. QED
      BY <3>2, <3>3
  <2>3. QED
    BY <2>1, <2>2
<1>4. QED
  BY <1>1, <1>2, <1>3 DEF SupervisorStep

(* Until a save reverts a lease, the epoch only grows. *)
LEMMA EpochStep ==
    ASSUME IInv, ~reverted', Next
    PROVE  ~(row'.epoch < row.epoch)
<1>. TypeOK
  BY DEF IInv, Typed
<1>. row \in Row /\ row.epoch \in Nat
  BY RowValues DEF TypeOK
<1>1. ASSUME NEW r \in Runtime, Attach(r)
      PROVE  row'.epoch \in {row.epoch, row.epoch + 1}
  <2>1. row' = row \/ row' = Acquired(row, r)
    BY <1>1 DEF Attach
  <2>2. QED
    BY <2>1 DEF Acquired, Row
<1>2. ASSUME NEW r \in Runtime, OperatorSave(r)
      PROVE  row'.epoch = row.epoch
  <2>1. mcur[r] \in Row
    BY DEF TypeOK
  <2>2. CASE CanSave(row)
    <3>1. /\ row' = [mcur[r] EXCEPT !.state = SavedState(mpc[r])]
          /\ mcur[r].epoch = row.epoch
      BY <1>2, <2>2 DEF OperatorSave
    <3>2. QED
      BY <2>1, <3>1 DEF Row
  <2>3. CASE ~CanSave(row)
    BY <1>2, <2>3 DEF OperatorSave
  <2>4. QED
    BY <2>2, <2>3
<1>3. ASSUME NEW r \in Runtime,
             \/ ListRecoverable(r) \/ Classify(r) \/ StopSupervisor(r)
             \/ OperatorCommand(r) \/ StartProcess(r) \/ Drain(r) \/ Crash(r)
      PROVE  row' = row
  BY <1>3 DEF ListRecoverable, Classify, StopSupervisor, OperatorCommand, StartRun,
     BeginStop, BeginResume, StartProcess, Drain, Crash, db
<1>4. ASSUME TimePasses PROVE row'.epoch = row.epoch
  BY <1>4 DEF TimePasses, Older, Row
<1>5. row'.epoch \in {row.epoch, row.epoch + 1}
  BY <1>1, <1>2, <1>3, <1>4, SupervisorKeepsEpoch DEF Next, ManagerStep
<1>6. QED
  BY <1>5

(* The lease_epoch only ever falls where a save has put a lost lease back. *)
THEOREM EpochNeverRegresses == Spec => EpochFallsByStaleSaveOnly
<1>1. Guarded /\ [Next]_vars => [row'.epoch < row.epoch => reverted']_vars
  BY EpochStep, RevertedStays DEF Guarded, IInv
<1>2. QED
  BY <1>1, InitGuarded, NextGuarded, PTL DEF Spec, EpochFallsByStaleSaveOnly

----------------------------------------------------------------------------
(***************************************************************************)
(* What holds of every behaviour of Spec, overlapping operator saves       *)
(* included: an attempt only ever leaves NONE by being inserted and        *)
(* AUTHORIZED by being marked, and the mark precedes the call.             *)
(***************************************************************************)
Marked == Typed /\ MarkInv /\ ResumableWasNeverSent

(* Nothing is sent initially. *)
LEMMA InitMarked == Init => Marked
BY InitType DEF Init, Marked, MarkInv, ResumableWasNeverSent, InHand

(* A step that changes no attempt and sends nothing, and after which r has
   no attempt in hand that it had not before. *)
LEMMA MarkedQuiet ==
    ASSUME Marked, UNCHANGED <<attempt, invoked>>,
           \A q \in Runtime : pc'[q] \in InHand => pc'[q] = pc[q] /\ att'[q] = att[q]
    PROVE  MarkInv' /\ ResumableWasNeverSent'
BY DEF Marked, MarkInv, ResumableWasNeverSent, InHand

(* A step that changes the state of one attempt, which was inserted before,
   to one past AUTHORIZED. *)
LEMMA MarkedForward ==
    ASSUME Marked, NEW a \in Attempt, NEW s,
           attempt[a].state # "NONE", s \notin {"NONE", "AUTHORIZED"},
           attempt' = [attempt EXCEPT ![a].state = s],
           UNCHANGED <<invoked, att>>,
           \A q \in Runtime : pc'[q] \in InHand =>
               pc'[q] = pc[q] \/ (pc[q] \in InHand /\ att[q] = a)
    PROVE  MarkInv' /\ ResumableWasNeverSent'
<1>1. /\ attempt'[a].state = s
      /\ \A b \in Attempt \ {a} : attempt'[b] = attempt[b]
  BY DEF Marked, Typed, TypeOK, AttemptRecord
<1>2. \A q \in Runtime : pc'[q] \in InHand => pc[q] \in InHand /\ att[q] \in Attempt
  BY DEF Marked, Typed, AttemptInHand, InHand
<1>3. MarkInv'
  BY <1>1, <1>2 DEF Marked, MarkInv, InHand
<1>4. ResumableWasNeverSent'
  BY <1>1 DEF Marked, ResumableWasNeverSent
<1>5. QED
  BY <1>3, <1>4

(* That only marked attempts are sent is inductive, for every step. *)
LEMMA NextMarked == Marked /\ [Next]_vars => Marked'
<1>. SUFFICES ASSUME Marked, [Next]_vars PROVE MarkInv' /\ ResumableWasNeverSent'
  BY NextTypes DEF Marked
<1>. TypeOK
  BY DEF Marked, Typed
<1>1. CASE UNCHANGED <<attempt, invoked, pc, att>>
  BY <1>1 DEF Marked, MarkInv, ResumableWasNeverSent
<1>2. ASSUME NEW r \in Runtime,
             \/ SupervisorExit(r) \/ RenewLease(r) \/ Tick(r)
             \/ TickFault(r) \/ StepFault(r)
             \/ MarkRunning(r) \/ NothingToDo(r) \/ PlanExperiment(r) \/ Refuse(r)
             \/ DispatchDenied(r) \/ RecordFails(r) \/ CheckpointResult(r)
             \/ CompleteCycle(r) \/ Attach(r) \/ Crash(r)
      PROVE  MarkInv' /\ ResumableWasNeverSent'
  <2>1. UNCHANGED <<attempt, invoked>>
    BY <1>2 DEF SupervisorExit, RenewLease, Tick, TickFault, StepFault, MarkRunning, NothingToDo,
       PlanExperiment, Refuse, DispatchDenied, RecordFails, CheckpointResult,
       CompleteCycle, Attach, Crash, SaveRaises, db
  <2>2. \A q \in Runtime : pc'[q] \in InHand => pc'[q] = pc[q] /\ att'[q] = att[q]
    <3>1. \/ pc' = pc
          \/ \E p \in {"off", "loop", "step", "plan", "auth", "result", "close"} :
                pc' = [pc EXCEPT ![r] = p]
      BY <1>2 DEF SupervisorExit, RenewLease, Tick, TickFault, StepFault, MarkRunning, NothingToDo,
         PlanExperiment, Refuse, DispatchDenied, RecordFails, CheckpointResult,
         CompleteCycle, Attach, Crash, SaveRaises, CloseWith, Goto
    <3>2. \/ att' = att
          \/ att' = [att EXCEPT ![r] = NoAttempt] /\ pc'[r] \in {"off", "loop"}
      BY <1>2 DEF SupervisorExit, RenewLease, Tick, TickFault, StepFault, MarkRunning, NothingToDo,
         PlanExperiment, Refuse, DispatchDenied, RecordFails, CheckpointResult,
         CompleteCycle, Attach, Crash, SaveRaises, Forget, Goto, TypeOK
    <3>3. QED
      BY <3>1, <3>2 DEF InHand, TypeOK
  <2>3. QED
    BY <2>1, <2>2, MarkedQuiet
<1>3. ASSUME NEW r \in Runtime, Inspect(r)
      PROVE  MarkInv' /\ ResumableWasNeverSent'
  <2>1. UNCHANGED <<attempt, invoked>>
    BY <1>3 DEF Inspect, db
  <2>2. CASE pc' = [pc EXCEPT ![r] = "read"]
    <3>1. PICK a \in Attempt : /\ attempt[a].state = "AUTHORIZED"
                              /\ att' = [att EXCEPT ![r] = a]
      BY <1>3, <2>2 DEF Inspect, CloseWith, Goto, TypeOK
    <3>2. QED
      BY <2>1, <2>2, <3>1 DEF Marked, MarkInv, ResumableWasNeverSent, InHand, TypeOK
  <2>3. CASE pc' # [pc EXCEPT ![r] = "read"]
    <3>1. PICK p \in {"close", "auth", "mark"} : pc' = [pc EXCEPT ![r] = p]
      BY <1>3, <2>3 DEF Inspect, CloseWith, Goto
    <3>2. att' = att
      BY <1>3, <2>3 DEF Inspect, Goto
    <3>3. QED
      BY <2>1, <3>1, <3>2, MarkedQuiet DEF InHand, TypeOK
  <2>4. QED
    BY <2>2, <2>3
<1>4. ASSUME NEW r \in Runtime, ReadExisting(r)
      PROVE  MarkInv' /\ ResumableWasNeverSent'
  <2>1. /\ UNCHANGED <<invoked, att>>
        /\ \E p \in {"insert", "close"} : pc' = [pc EXCEPT ![r] = p]
    BY <1>4 DEF ReadExisting, CloseWith, Goto
  <2>2. \A q \in Runtime : pc'[q] \in InHand => pc'[q] = pc[q]
    BY <2>1 DEF InHand, TypeOK
  <2>3. CASE attempt' = attempt
    BY <2>1, <2>2, <2>3, MarkedQuiet
  <2>4. CASE attempt' # attempt
    <3>1. PICK a \in Attempt :
              /\ attempt[a].state = "DISPATCHING"
              /\ attempt' = [attempt EXCEPT ![a].state = "UNKNOWN_OUTCOME"]
      BY <1>4, <2>4 DEF ReadExisting, SetState, AttemptsOf
    <3>2. QED
      <4>1. attempt[a].state # "NONE"
        BY <3>1
      <4>2. PICK s \in {"UNKNOWN_OUTCOME"} : attempt' = [attempt EXCEPT ![a].state = s]
        BY <3>1
      <4>3. QED
        BY <2>1, <2>2, <4>1, <4>2, MarkedForward
  <2>5. QED
    BY <2>3, <2>4
<1>5. ASSUME NEW r \in Runtime, Authorize(r)
      PROVE  MarkInv' /\ ResumableWasNeverSent'
  <2>1. CASE SaveRaises(r)
    BY <2>1, MarkedQuiet DEF SaveRaises, Goto, Forget, db, InHand, TypeOK
  <2>2. CASE ~SaveRaises(r)
    <3>1. PICK a \in Attempt :
              /\ attempt[a].state = "NONE"
              /\ attempt' = [attempt EXCEPT
                     ![a] = [exp |-> cur[r].exp, state |-> "AUTHORIZED"]]
              /\ att' = [att EXCEPT ![r] = a]
              /\ pc' = [pc EXCEPT ![r] = "read"]
              /\ UNCHANGED invoked
      BY <1>5, <2>2 DEF Authorize, Goto
    <3>2. /\ attempt'[a].state = "AUTHORIZED"
          /\ \A b \in Attempt \ {a} : attempt'[b] = attempt[b]
      BY <3>1 DEF TypeOK
    <3>3. MarkInv'
      BY <3>1, <3>2 DEF Marked, MarkInv, InHand, Typed, AttemptInHand, TypeOK
    <3>4. ResumableWasNeverSent'
      BY <3>1, <3>2 DEF Marked, ResumableWasNeverSent
    <3>5. QED
      BY <3>3, <3>4
  <2>3. QED
    BY <2>1, <2>2
<1>6. ASSUME NEW r \in Runtime, ReadAttempt(r)
      PROVE  MarkInv' /\ ResumableWasNeverSent'
  <2>1. /\ UNCHANGED <<invoked, att>> /\ pc[r] = "read" /\ att[r] \in Attempt
        /\ \E p \in {"dispatch", "close"} : pc' = [pc EXCEPT ![r] = p]
    BY <1>6 DEF ReadAttempt, CloseWith, Goto, Marked, Typed, AttemptInHand
  <2>2. CASE attempt' = attempt
    BY <2>1, <2>2 DEF Marked, MarkInv, ResumableWasNeverSent, InHand, TypeOK
  <2>3. CASE attempt' # attempt
    <3>1. /\ attempt[att[r]].state = "DISPATCHING"
          /\ attempt' = [attempt EXCEPT ![att[r]].state = "UNKNOWN_OUTCOME"]
      BY <1>6, <2>3 DEF ReadAttempt, SetState
    <3>2. \A q \in Runtime : pc'[q] \in InHand =>
              pc'[q] = pc[q] \/ (pc[q] \in InHand /\ att[q] = att[r])
      BY <2>1 DEF InHand, TypeOK
    <3>3. QED
      <4>1. attempt[att[r]].state # "NONE"
        BY <3>1
      <4>2. PICK s \in {"UNKNOWN_OUTCOME"} :
                attempt' = [attempt EXCEPT ![att[r]].state = s]
        BY <3>1
      <4>3. QED
        BY <2>1, <3>2, <4>1, <4>2, MarkedForward
  <2>4. QED
    BY <2>2, <2>3
<1>7. ASSUME NEW r \in Runtime, MarkDispatching(r) \/ RecordOutcome(r)
      PROVE  MarkInv' /\ ResumableWasNeverSent'
  <2>1. /\ pc[r] \in InHand /\ att[r] \in Attempt
        /\ UNCHANGED <<invoked, att>>
        /\ \E p \in {"fence", "result", "close"} : pc' = [pc EXCEPT ![r] = p]
    BY <1>7 DEF MarkDispatching, RecordOutcome, CloseWith, Goto, InHand, Marked, Typed,
       AttemptInHand
  <2>2. PICK s \in {"DISPATCHING", "COMPLETED", "FAILED", "UNKNOWN_OUTCOME"} :
            attempt' = [attempt EXCEPT ![att[r]].state = s]
    BY <1>7 DEF MarkDispatching, RecordOutcome, SetState
  <2>3. attempt[att[r]].state # "NONE"
    BY <2>1 DEF Marked, MarkInv
  <2>4. \A q \in Runtime : pc'[q] \in InHand =>
            pc'[q] = pc[q] \/ (pc[q] \in InHand /\ att[q] = att[r])
    BY <2>1 DEF TypeOK
  <2>5. QED
    BY <2>1, <2>2, <2>3, <2>4, MarkedForward
<1>8. ASSUME NEW r \in Runtime, CheckFence(r)
      PROVE  MarkInv' /\ ResumableWasNeverSent'
  BY <1>8
  DEF CheckFence, Goto, Forget, db, Marked, MarkInv, ResumableWasNeverSent, InHand, TypeOK
<1>9. ASSUME NEW r \in Runtime, InvokeWorker(r)
      PROVE  MarkInv' /\ ResumableWasNeverSent'
  <2>1. /\ pc[r] = "call" /\ att[r] \in Attempt
        /\ invoked' = [invoked EXCEPT ![att[r]] = @ + 1]
        /\ pc' = [pc EXCEPT ![r] = "wait"]
        /\ UNCHANGED <<attempt, att>>
    BY <1>9 DEF InvokeWorker, Goto, Marked, Typed, AttemptInHand
  <2>2. attempt[att[r]].state \notin {"NONE", "AUTHORIZED"}
    BY <2>1 DEF Marked, MarkInv, InHand
  <2>3. MarkInv'
    BY <2>1 DEF Marked, MarkInv, InHand, TypeOK
  <2>4. ResumableWasNeverSent'
    BY <2>1, <2>2 DEF Marked, ResumableWasNeverSent, TypeOK
  <2>5. QED
    BY <2>3, <2>4
<1>10. ASSUME NEW r \in Runtime,
              \/ ListRecoverable(r) \/ Classify(r) \/ OperatorSave(r)
              \/ StopSupervisor(r) \/ OperatorCommand(r) \/ StartProcess(r) \/ Drain(r)
       PROVE  UNCHANGED <<attempt, invoked, pc, att>>
  BY <1>10 DEF ListRecoverable, Classify, OperatorSave, StopSupervisor, OperatorCommand,
     StartRun, BeginStop, BeginResume, StartProcess, Drain, db, super
<1>11. CASE TimePasses \/ UNCHANGED vars
  BY <1>1, <1>11 DEF TimePasses, vars
<1>12. QED
  BY <1>1, <1>2, <1>3, <1>4, <1>5, <1>6, <1>7, <1>8, <1>9, <1>10, <1>11
  DEF Next, SupervisorStep, ManagerStep

(* Recovery may always resume an AUTHORIZED attempt: it was never sent. *)
THEOREM AuthorizedWasNeverSent == Spec => []ResumableWasNeverSent
<1>1. Marked => ResumableWasNeverSent
  BY DEF Marked
<1>2. QED
  BY <1>1, InitMarked, NextMarked, PTL DEF Spec

(* With a terminal row, every step leaves the verdict and adds no work. *)
LEMMA TerminalStep ==
    ASSUME Marked, Next, row.state \in Terminal
    PROVE  /\ row'.state = row.state
           /\ row'.cycle = row.cycle
           /\ row'.epoch = row.epoch
           /\ planned' = planned
           /\ \A a \in Attempt : attempt[a].state = "NONE" => attempt'[a].state = "NONE"
<1>. TypeOK
  BY DEF Marked, Typed
<1>. row.state \notin Runnable
  BY DEF Terminal, Runnable
<1>. /\ ~CanSave(row)
     /\ \A r \in Runtime : /\ ~CanSaveFenced(row, r, held[r])
                           /\ ~CanRenew(row, r, held[r])
                           /\ ~CanAcquire(row, r)
  BY DEF CanSave, CanSaveFenced, CanRenew, CanAcquire
<1>1. CASE TimePasses
  <2>1. row'.state = row.state /\ row'.cycle = row.cycle /\ row'.epoch = row.epoch
    BY <1>1 DEF TimePasses, Older, TypeOK, Row
  <2>2. QED
    BY <1>1, <2>1 DEF TimePasses
<1>2. ASSUME NEW r \in Runtime, SupervisorExit(r)
      PROVE  /\ row'.state = row.state /\ row'.cycle = row.cycle
             /\ row'.epoch = row.epoch /\ UNCHANGED <<attempt, planned>>
  <2>1. row'.state = row.state /\ row'.cycle = row.cycle /\ row'.epoch = row.epoch
    BY <1>2 DEF SupervisorExit, Released, TypeOK, Row
  <2>2. QED
    BY <1>2, <2>1 DEF SupervisorExit
<1>3. ASSUME NEW r \in Runtime,
             \/ RenewLease(r) \/ Tick(r) \/ TickFault(r) \/ StepFault(r) \/ Inspect(r)
             \/ MarkRunning(r) \/ NothingToDo(r) \/ PlanExperiment(r) \/ Authorize(r)
             \/ Refuse(r) \/ DispatchDenied(r) \/ CheckFence(r) \/ InvokeWorker(r)
             \/ RecordFails(r) \/ CheckpointResult(r) \/ CompleteCycle(r)
      PROVE  UNCHANGED <<row, attempt, planned>>
  BY <1>3 DEF RenewLease, Tick, TickFault, StepFault, Inspect, MarkRunning, NothingToDo,
     PlanExperiment, Authorize, Refuse, DispatchDenied, CheckFence, InvokeWorker,
     RecordFails, CheckpointResult, CompleteCycle, SaveRaises, db
<1>4. ASSUME NEW r \in Runtime,
             \/ ManagerStep(r) \/ OperatorCommand(r) \/ StartProcess(r)
             \/ Drain(r) \/ Crash(r)
      PROVE  UNCHANGED <<row, attempt, planned>>
  BY <1>4 DEF ManagerStep, ListRecoverable, Classify, Attach, OperatorSave,
     StopSupervisor, OperatorCommand, StartRun, BeginStop, BeginResume, StartProcess,
     Drain, Crash, db
<1>5. ASSUME NEW r \in Runtime,
             \/ ReadExisting(r) \/ ReadAttempt(r) \/ MarkDispatching(r) \/ RecordOutcome(r)
      PROVE  /\ UNCHANGED <<row, planned>>
             /\ \A a \in Attempt :
                   attempt[a].state = "NONE" => attempt'[a].state = "NONE"
  <2>1. UNCHANGED <<row, planned>>
    BY <1>5 DEF ReadExisting, ReadAttempt, MarkDispatching, RecordOutcome
  <2>2. CASE attempt' = attempt
    BY <2>1, <2>2
  <2>3. CASE attempt' # attempt
    <3>1. PICK b, s : attempt[b].state # "NONE" /\ SetState(b, s)
      <4>1. CASE ReadExisting(r) \/ ReadAttempt(r)
        BY <2>3, <4>1 DEF ReadExisting, ReadAttempt
      <4>2. CASE MarkDispatching(r) \/ RecordOutcome(r)
        <5>1. attempt[att[r]].state # "NONE"
          BY <4>2 DEF MarkDispatching, RecordOutcome, Marked, MarkInv, InHand
        <5>2. \E s : SetState(att[r], s)
          BY <4>2 DEF MarkDispatching, RecordOutcome
        <5>3. QED
          BY <5>1, <5>2
      <4>3. QED
        BY <1>5, <4>1, <4>2
    <3>2. \A a \in Attempt : a # b => attempt'[a] = attempt[a]
      BY <3>1 DEF SetState, TypeOK
    <3>3. QED
      BY <2>1, <3>1, <3>2
  <2>4. QED
    BY <2>2, <2>3
<1>6. QED
  BY <1>1, <1>2, <1>3, <1>4, <1>5 DEF Next, SupervisorStep

(* Terminal is terminal, under every overlap of supervisors and operators. *)
THEOREM TerminalStaysFinal == Spec => TerminalIsFinal
<1>1. Marked /\ [Next]_vars =>
          [row.state \in Terminal =>
             /\ row'.state = row.state
             /\ row'.cycle = row.cycle
             /\ row'.epoch = row.epoch
             /\ planned' = planned
             /\ \A a \in Attempt :
                   attempt[a].state = "NONE" => attempt'[a].state = "NONE"]_vars
  BY TerminalStep
<1>2. QED
  BY <1>1, InitMarked, NextMarked, PTL DEF Spec, TerminalIsFinal
=============================================================================
