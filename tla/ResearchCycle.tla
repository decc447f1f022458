---------------------------- MODULE ResearchCycle ----------------------------
(***************************************************************************)
(* The research cycle of one ResearchRun, as AutonomousResearchController  *)
(* drives it: select an opportunity, have the model propose and challenge  *)
(* a hypothesis, plan an experiment, authorize it, dispatch it, assess the *)
(* result, reproduce what it supports, close the cycle.                    *)
(*                                                                         *)
(* Here one controller holds the run throughout (RunSupervision is about   *)
(* several), so its `current` is the stored row; what makes this hard is   *)
(* that the process may die between any two transactions, and that the     *)
(* next step must go on from the phase and the ids in the row.  Every      *)
(* action is one transaction or one external call.                         *)
(***************************************************************************)
EXTENDS Integers, FiniteSets, HypothesisAdmission

CONSTANTS Hypothesis,      \* hypothesis ids
          Experiment,      \* experiment ids
          None,            \* an id that IS NULL
          MaxCycles,       \* bounds.max_cycles
          MaxExperiments,  \* bounds.max_experiments
          MaxModelCalls,   \* bounds.max_model_calls
          MaxInvocations,  \* bounds.max_worker_invocations
          RepeatControl,   \* bounds.allow_repeated_control_experiments
          MaxRounds,       \* bound of the model: opportunities selected
          MaxCrashes,      \* bound of the model: crashes in a behaviour
          CycleBound       \* bound of the model: cycles closed by a denied dispatch

ASSUME NoneAssumption == None \notin Hypothesis \cup Experiment
ASSUME LimitAssumption ==
    /\ MaxCycles \in Nat /\ MaxExperiments \in Nat
    /\ MaxModelCalls \in Nat /\ MaxInvocations \in Nat
    /\ RepeatControl \in BOOLEAN
    /\ MaxRounds \in Nat /\ MaxCrashes \in Nat /\ CycleBound \in Nat

Runnable == {"READY", "RUNNING"}
Stopped  == {"COMPLETED", "BUDGET_EXHAUSTED", "FAILED_OPERATIONAL", "BLOCKED",
             "WAITING_HUMAN"}

(***************************************************************************)
(* OrchestrationPhase, as far as a resuming step tells phases apart:       *)
(* CYCLE is CYCLE_READY, CYCLE_COMPLETE or NULL; PLANNED is                *)
(* EXPERIMENT_PLANNED to ATTEMPT_AUTHORIZED; RESULT is                     *)
(* WORKER_RESULT_RECORDED and TRANSITION_A_COMPLETE; ASSESSED is           *)
(* ASSESSMENT_COMPLETE.                                                    *)
(***************************************************************************)
Phase == {"CYCLE", "SELECTED", "ADMITTED", "PLANNED", "RESULT", "ASSESSED"}

(* The opportunity in hand: none (bootstrap), one for the model, or a
   registry-external exploratory one, which needs no model. *)
Opportunity == {"none", "plain", "exploratory"}

Role == {"generator", "falsifier"}

Row == [state : Runnable \cup Stopped, cycle : Nat, phase : Phase,
        opp : Opportunity, hyp : Hypothesis \cup {None},
        exp : Experiment \cup {None}, cycleId : Nat]

(* NONE: not inserted; FAILED: FAILED, TIMED_OUT or CANCELLED; REAUTHORIZE:
   COMPLETED with a result that asks for a new authorization. *)
AttemptState == {"NONE", "AUTHORIZED", "DISPATCHING", "COMPLETED", "REAUTHORIZE",
                 "FAILED", "UNKNOWN_OUTCOME"}

Open == {"DISPATCHING", "UNKNOWN_OUTCOME"}

VARIABLES
    row,       \* research_orchestration: state, phase and last ids
    hypotheses,\* the hypothesis table: "plain", "exploratory" or "NONE"
    tests,     \* the experiment table: the hypothesis of each, or None
    attempt,   \* attempt[x]: the state of the execution_attempt of x
    assessed,  \* the experiments with a hypothesis_assessment
    stage,     \* promotion_run, by original experiment: its stage
    repro,     \* promotion_run: its reproduction_experiment_id
    cycles,    \* research_cycle: number and experiment of each closed cycle
    charged,   \* the MODEL_CALL rows of the ledger: cycle id and role
    called,    \* the model calls made: round and role
    round,     \* how many opportunities were selected so far
    pc,        \* where the controller is
    opp,       \* the opportunity of this step
    role,      \* the role the model is called in
    exp,       \* the experiment of this step
    via,       \* which path of the controller reached it
    goal,      \* the state with which the step will close the cycle
    crashes    \* how often the process died

db     == <<row, hypotheses, tests, attempt, assessed, stage, repro, cycles, charged>>
promo  == <<stage, repro>>
ghost  == <<called, round>>
memory == <<opp, role, exp, via, goal>>
vars   == <<row, hypotheses, tests, attempt, assessed, stage, repro, cycles, charged,
            called, round, pc, opp, role, exp, via, goal, crashes>>

PC == {"down", "idle", "admitted", "select", "reserve", "call", "admit", "plan",
       "auth", "dispatch", "worker", "result", "assess", "promote", "prepare",
       "reauthorize", "redispatch", "rerun", "checkpoint", "close"}

Init ==
    /\ row = [state |-> "READY", cycle |-> 0, phase |-> "CYCLE", opp |-> "none",
              hyp |-> None, exp |-> None, cycleId |-> 0]
    /\ hypotheses = [h \in Hypothesis |-> "NONE"]
    /\ tests = [x \in Experiment |-> None]
    /\ attempt = [x \in Experiment |-> "NONE"]
    /\ assessed = {} /\ cycles = {} /\ charged = {}
    /\ stage = [x \in Experiment |-> "NONE"]
    /\ repro = [x \in Experiment |-> None]
    /\ called = {} /\ round = 0
    /\ pc = "idle" /\ opp = "none" /\ role = "generator" /\ exp = None
    /\ via = "cycle" /\ goal = "READY" /\ crashes = 0

Forget ==
    /\ opp' = "none" /\ role' = "generator" /\ exp' = None
    /\ via' = "cycle" /\ goal' = "READY"

(* The step will close its cycle, about experiment x, in state s. *)
CloseWith(s, x) == pc' = "close" /\ goal' = s /\ exp' = x

(* new_opaque_id: which of the unused ids it is makes no difference. *)
NewId(unused) == IF unused = {} THEN {} ELSE {CHOOSE i \in unused : TRUE}

Planned == {x \in Experiment : tests[x] # None}

(* The experiments that repeat another one for a promotion run; those are not
   counted by _usage. *)
Reproductions == {repro[x] : x \in Experiment} \ {None}
Research == Planned \ Reproductions

Unused == Experiment \ (Planned \cup Reproductions)

(* _existing_experiment_id: the last of a list ordered by opaque ids, so any;
   a reproduction of one is in the list too. *)
ExperimentsOf(h) == {x \in Planned : tests[x] = h}

OpenAttempts == {x \in Experiment : attempt[x] \in Open}

AuthorizedAttempts == {x \in Experiment : attempt[x] = "AUTHORIZED"}

Dispatched == {x \in Experiment : attempt[x] \notin {"NONE", "AUTHORIZED"}}

(* The step begins with what the row and the attempts say, in this order. *)
Stepping == pc = "idle" /\ row.state \in Runnable
Settled  == Stepping /\ OpenAttempts = {} /\ AuthorizedAttempts = {}

----------------------------------------------------------------------------
(* The ways in which a step goes on with what an earlier one left. *)

(* _unknown_open: nothing is repeated, the run is stopped. *)
StopUnknown ==
    /\ Stepping /\ OpenAttempts # {}
    /\ CloseWith("FAILED_OPERATIONAL", None)
    /\ UNCHANGED <<db, ghost, opp, role, via, crashes>>

(* _resume_authorized: before the phase and before the bounds. *)
ResumeAuthorized ==
    /\ Stepping /\ OpenAttempts = {}
    /\ \E x \in AuthorizedAttempts : exp' = x
    /\ via' = "authorized"
    /\ pc' = "dispatch"
    /\ UNCHANGED <<db, ghost, opp, role, goal, crashes>>

(* OPPORTUNITY_SELECTED: the hypothesis of the row, which must be exploratory if
   the opportunity is; otherwise _latest_hypothesis_id, the last of a list
   ordered by opaque ids, will do as well. *)
Reusable ==
    CASE row.opp = "exploratory" -> {h \in {row.hyp} \ {None} : hypotheses[h] = "exploratory"}
      [] row.opp # "exploratory" /\ row.hyp # None -> {row.hyp}
      [] OTHER -> {h \in Hypothesis : hypotheses[h] # "NONE"}

ReuseHypothesis ==
    /\ Settled /\ row.phase = "SELECTED"
    /\ \E h \in Reusable :
          row' = [row EXCEPT !.state = "RUNNING", !.phase = "ADMITTED", !.hyp = h]
    /\ pc' = "admitted"
    /\ UNCHANGED <<hypotheses, tests, attempt, assessed, promo, cycles, charged, ghost,
                   memory, crashes>>

(* Faulty variant: the resumed hypothesis always gets a new experiment. *)
ResumeAdmittedAnew ==
    /\ pc = "admitted" \/ (Settled /\ row.phase = "ADMITTED")
    /\ \E x \in NewId(Unused) :
          /\ tests' = [tests EXCEPT ![x] = row.hyp]
          /\ row' = [row EXCEPT !.phase = "PLANNED", !.exp = x]
    /\ via' = "planned" /\ exp' = row'.exp /\ pc' = "auth"
    /\ UNCHANGED <<hypotheses, attempt, assessed, promo, cycles, charged, ghost, opp,
                   role, goal, crashes>>

(***************************************************************************)
(* _resume_admitted_hypothesis: the experiment is the last one of the row, *)
(* or one of the hypothesis, or a new one.                                 *)
(***************************************************************************)
ResumeAdmitted ==
    /\ pc = "admitted" \/ (Settled /\ row.phase = "ADMITTED")
    /\ \/ /\ row.exp # None
          /\ row' = [row EXCEPT !.state = "RUNNING", !.phase = "PLANNED"]
          /\ UNCHANGED tests
       \/ /\ row.exp = None
          /\ \E x \in ExperimentsOf(row.hyp) :
                row' = [row EXCEPT !.state = "RUNNING", !.phase = "PLANNED", !.exp = x]
          /\ UNCHANGED tests
       \/ /\ row.exp = None /\ ExperimentsOf(row.hyp) = {}
          /\ \E x \in NewId(Unused) :
                /\ tests' = [tests EXCEPT ![x] = row.hyp]
                /\ row' = [row EXCEPT !.phase = "PLANNED", !.exp = x]
    /\ via' = "planned" /\ exp' = row'.exp /\ pc' = "auth"
    /\ UNCHANGED <<hypotheses, attempt, assessed, promo, cycles, charged, ghost, opp,
                   role, goal, crashes>>

(* Faulty variant: a planned experiment is not looked at again. *)
ResumePlannedNever == FALSE /\ UNCHANGED vars

ResumePlanned ==
    /\ Settled /\ row.phase = "PLANNED"
    /\ via' = "planned" /\ exp' = row.exp /\ pc' = "auth"
    /\ UNCHANGED <<db, ghost, opp, role, goal, crashes>>

(* Faulty variant: the run is not made READY for the next cycle. *)
AfterCycleRunning == IF row.cycle + 1 >= MaxCycles THEN "COMPLETED" ELSE row.state

(* The state with which a cycle that ran its course is closed. *)
AfterCycle == IF row.cycle + 1 >= MaxCycles THEN "COMPLETED" ELSE "READY"

(* _resume_after_worker *)
ResumeAfterWorker ==
    /\ Settled /\ row.phase \in {"RESULT", "ASSESSED"}
    /\ IF row.phase = "RESULT"
       THEN pc' = "assess" /\ exp' = row.exp /\ UNCHANGED goal
       ELSE CloseWith(AfterCycle, row.exp)
    /\ UNCHANGED <<db, ghost, opp, role, via, crashes>>

----------------------------------------------------------------------------
(* A new cycle, or one whose hypothesis is still to be found. *)

NewCycle ==
    /\ Settled
    /\ row.phase = "CYCLE" \/ (row.phase = "SELECTED" /\ Reusable = {})

(* check_orchestration_bounds; the elapsed time may be up at any moment. *)
Exhausted ==
    \/ Cardinality(Research) >= MaxExperiments
    \/ Cardinality(charged) >= MaxModelCalls
    \/ Cardinality(Dispatched) >= MaxInvocations

CheckBounds ==
    /\ NewCycle
    /\ \/ CloseWith("COMPLETED", None)
       \/ row.cycle < MaxCycles /\ Exhausted /\ CloseWith("BUDGET_EXHAUSTED", None)
    /\ UNCHANGED <<db, ghost, opp, role, via, crashes>>

(* _execute_body: an exploratory opportunity is admitted without the model;
   any other is put, with the context read for it, to the generator. *)
Propose(o) == pc' = IF o = "exploratory" THEN "admit" ELSE "reserve"

(* Faulty variant: the experiments already run are not counted. *)
MarkRunningUnchecked ==
    /\ NewCycle
    /\ row.cycle < MaxCycles
    /\ row' = [row EXCEPT !.state = "RUNNING"]
    /\ IF row.phase = "CYCLE" THEN pc' = "select" /\ UNCHANGED opp
       ELSE /\ opp' = row.opp
            /\ Propose(row.opp)
    /\ UNCHANGED <<hypotheses, tests, attempt, assessed, promo, cycles, charged, ghost,
                   role, exp, via, goal, crashes>>

(* _mark_running; a cycle that has its opportunity is not routed again. *)
MarkRunning ==
    /\ NewCycle
    /\ row.cycle < MaxCycles /\ ~Exhausted
    /\ row' = [row EXCEPT !.state = "RUNNING"]
    /\ IF row.phase = "CYCLE" THEN pc' = "select" /\ UNCHANGED opp
       ELSE /\ opp' = row.opp
            /\ Propose(row.opp)
    /\ UNCHANGED <<hypotheses, tests, attempt, assessed, promo, cycles, charged, ghost,
                   role, exp, via, goal, crashes>>

(* No runtime, blocked by policy, or nothing left to select. *)
SelectNothing ==
    /\ pc = "select"
    /\ \E s \in {"BLOCKED", "COMPLETED"} : CloseWith(s, None)
    /\ UNCHANGED <<db, ghost, opp, role, via, crashes>>

(* SelectResearchOpportunities.execute: the first opportunity it selects, if
   any; what is known about the target decides, and an exploratory one has a
   source that was a candidate. *)
Selected ==
    {"none", "plain"} \cup
    {"exploratory" : s \in {s \in Source : IsCandidate(s, FALSE)}}

(* next_cycle_action: without an opportunity the diagnostic bootstrap, once or,
   if the bounds say so, again. *)
next_cycle_action(o) ==
    o = "none" => RepeatControl \/ \A h \in Hypothesis : hypotheses[h] = "NONE"

(* The OPPORTUNITY_SELECTED checkpoint.  The active cycle id is a new one only
   when the row has none. *)
SelectOpportunity ==
    /\ pc = "select" /\ round < MaxRounds
    /\ \E o \in Selected :
          /\ next_cycle_action(o)
          /\ opp' = o
          /\ row' = [row EXCEPT !.state = "RUNNING", !.phase = "SELECTED",
                        !.opp = IF o = "none" THEN @ ELSE o,
                        !.cycleId = IF @ = 0 THEN round + 1 ELSE @]
          /\ Propose(o)
    /\ round' = round + 1
    /\ UNCHANGED <<hypotheses, tests, attempt, assessed, promo, cycles, charged, called,
                   role, exp, via, goal, crashes>>

(* BudgetEnforcedModelPort.complete: the reservation of one MODEL_CALL under
   the invocation id of this cycle, role and (first) attempt, unless the
   ledger or, at any time, the program's daily budget refuses it. *)
ReserveModelCall ==
    /\ pc = "reserve"
    /\ LET invocation == <<row.cycleId, role>>
           accepted == invocation \in charged \/ Cardinality(charged) < MaxModelCalls
       IN \/ /\ accepted
             /\ charged' = charged \cup {invocation}
             /\ pc' = "call"
             /\ UNCHANGED <<exp, goal>>
          \/ /\ CloseWith("BUDGET_EXHAUSTED", None)
             /\ UNCHANGED charged
    /\ UNCHANGED <<row, hypotheses, tests, attempt, assessed, promo, cycles, ghost, opp,
                   role, via, crashes>>

(* The state in which a run is stopped whose model call failed: a block by the
   provider's policy, no runtime, no login or a rate limit blocks it, a
   cancelled call completes it, anything else is operational. *)
stop_reason_for_runtime_outcome(o) ==
    CASE o \in {"CONTENT_POLICY_BLOCKED", "UNAVAILABLE", "AUTH_FAILED", "RATE_LIMITED"} -> "BLOCKED"
      [] o = "CANCELLED" -> "COMPLETED"
      [] OTHER -> "FAILED_OPERATIONAL"

RuntimeOutcome ==
    {"CONTENT_POLICY_BLOCKED", "UNAVAILABLE", "AUTH_FAILED", "RATE_LIMITED", "CANCELLED",
     "TIMED_OUT", "PROCESS_FAILED", "STRUCTURED_OUTPUT_INVALID", "PROTOCOL_ERROR"}

(* generate_proposal: an answer that parses is put to the falsifier. *)
GeneratorAnswers ==
    /\ role = "generator"
    /\ {a \in GeneratorAnswer : parse_hypothesis_proposal(a) = "PARSED"} # {}
    /\ role' = "falsifier" /\ pc' = "reserve"
    /\ UNCHANGED <<exp, via, goal>>

(* generate_challenge: a challenge that parses goes on to admission. *)
FalsifierAnswers ==
    /\ role = "falsifier"
    /\ {a \in FalsifierAnswer : parse_hypothesis_challenge(a) = "PARSED"} # {}
    /\ pc' = "admit"
    /\ UNCHANGED <<role, exp, via, goal>>

(* MODEL_INVOCATION_FAILED *)
ModelFails ==
    /\ \E o \in RuntimeOutcome : CloseWith(stop_reason_for_runtime_outcome(o), None)
    /\ UNCHANGED <<role, via>>

(* Either answer is refused: the cycle ends and does not count. *)
AnswerRejected ==
    /\ CloseWith("READY", None)
    /\ via' = "skip"
    /\ UNCHANGED role

CallModel ==
    /\ pc = "call"
    /\ called' = called \cup {<<round, role>>}
    /\ GeneratorAnswers \/ FalsifierAnswers \/ ModelFails \/ AnswerRejected
    /\ UNCHANGED <<db, round, opp, crashes>>

(* What admission may say of what was parsed, and of a source. *)
PlainOutcomes ==
    {OutcomeOf(p, c) : p \in {a \in GeneratorAnswer : parse_hypothesis_proposal(a) = "PARSED"},
                       c \in {a \in FalsifierAnswer : parse_hypothesis_challenge(a) = "PARSED"}}

ExploratoryOutcomes ==
    {_admit_registry_external(s, owned) : s \in {s \in Source : IsCandidate(s, FALSE)},
                                          owned \in BOOLEAN}

Outcomes == IF opp = "exploratory" THEN ExploratoryOutcomes ELSE PlainOutcomes

(* _write_cycle: a proposal of the model is a hypothesis of its own. *)
_write_cycle(h) ==
    /\ h \in NewId({g \in Hypothesis : hypotheses[g] = "NONE"})
    /\ hypotheses' = [hypotheses EXCEPT ![h] = "plain"]

(* _persist_exploratory: an anomaly with the same structural identity may be in
   the table already and is reused. *)
_persist_exploratory(h) ==
    \/ /\ h \in NewId({g \in Hypothesis : hypotheses[g] = "NONE"})
       /\ hypotheses' = [hypotheses EXCEPT ![h] = "exploratory"]
    \/ /\ hypotheses[h] = "exploratory"
       /\ UNCHANGED hypotheses

(* The hypothesis and, by _persist_hypothesis, the HYPOTHESIS_ADMITTED
   checkpoint: one transaction. *)
Admit ==
    /\ pc = "admit" /\ "ADMITTED" \in Outcomes
    /\ \E h \in Hypothesis :
          /\ IF opp = "exploratory" THEN _persist_exploratory(h) ELSE _write_cycle(h)
          /\ row' = [row EXCEPT !.state = "RUNNING", !.phase = "ADMITTED", !.hyp = h]
    /\ pc' = "plan"
    /\ UNCHANGED <<tests, attempt, assessed, promo, cycles, charged, ghost, memory, crashes>>

(* Admission, or the planning of the experiment (_persist_cycle), refuses. *)
NotAdmitted ==
    /\ pc = "admit" /\ Outcomes # {"ADMITTED"}
    /\ CloseWith("READY", None)
    /\ via' = "skip"
    /\ UNCHANGED <<db, ghost, opp, role, crashes>>

(* The plan exceeds the side-effect ceiling. *)
PlanTooRisky ==
    /\ pc = "plan"
    /\ CloseWith("BLOCKED", None)
    /\ UNCHANGED <<db, ghost, opp, role, via, crashes>>

(* The experiment and its checkpoint, or the one the hypothesis has. *)
PlanExperiment ==
    /\ pc = "plan"
    /\ \/ /\ \E x \in ExperimentsOf(row.hyp) : exp' = x
          /\ via' = "planned"
          /\ UNCHANGED tests
       \/ /\ ExperimentsOf(row.hyp) = {}
          /\ \E x \in NewId(Unused) :
                exp' = x /\ tests' = [tests EXCEPT ![x] = row.hyp]
          /\ UNCHANGED via
    /\ row' = [row EXCEPT !.phase = "PLANNED", !.exp = exp']
    /\ pc' = "auth"
    /\ UNCHANGED <<hypotheses, attempt, assessed, promo, cycles, charged, ghost, opp, role,
                   goal, crashes>>

----------------------------------------------------------------------------
(* ExecutePlannedExperiment, as the controller uses it. *)

Authorize ==
    /\ pc = "auth"
    /\ \/ /\ attempt[exp] = "NONE"
          /\ attempt' = [attempt EXCEPT ![exp] = "AUTHORIZED"]
          /\ row' = [row EXCEPT !.state = "RUNNING", !.phase = "PLANNED"]
          /\ pc' = "dispatch"
          /\ UNCHANGED <<exp, goal>>
       \/ /\ attempt[exp] \notin {"NONE", "REAUTHORIZE"}
          /\ pc' = "assess"
          /\ UNCHANGED <<row, attempt, exp, goal>>
       \/ /\ attempt[exp] = "REAUTHORIZE"
          /\ CloseWith(AfterCycle, exp)
          /\ UNCHANGED <<row, attempt>>
    /\ UNCHANGED <<hypotheses, tests, assessed, promo, cycles, charged, ghost, opp, role,
                   via, crashes>>

(* Core denies or asks for a human, or the input is rejected before it. *)
Refuse ==
    /\ pc = "auth" /\ attempt[exp] = "NONE"
    /\ \/ \E s \in {"BLOCKED", "WAITING_HUMAN"} : CloseWith(s, exp)
       \/ via = "cycle" /\ CloseWith(AfterCycle, exp)
       \/ via = "planned" /\ pc' = "assess" /\ UNCHANGED <<exp, goal>>
    /\ UNCHANGED <<db, ghost, opp, role, via, crashes>>

MarkDispatching ==
    /\ pc = "dispatch"
    /\ attempt' = [attempt EXCEPT ![exp] = "DISPATCHING"]
    /\ pc' = "worker"
    /\ UNCHANGED <<row, hypotheses, tests, assessed, promo, cycles, charged, ghost, memory,
                   crashes>>

(* The issued budget is spent; a resumed attempt is tried again for ever. *)
DispatchDenied ==
    /\ pc = "dispatch" /\ row.cycle < CycleBound
    /\ CloseWith(IF via = "authorized" THEN "READY" ELSE "BLOCKED", exp)
    /\ UNCHANGED <<db, ghost, opp, role, via, crashes>>

(* The Worker answers; when its outcome cannot be written the attempt stays
   DISPATCHING and the step goes on. *)
WorkerReturns ==
    /\ pc = "worker"
    /\ \/ /\ attempt' = [attempt EXCEPT ![exp] = "UNKNOWN_OUTCOME"]
          /\ CloseWith("FAILED_OPERATIONAL", exp)
       \/ /\ attempt' = [attempt EXCEPT ![exp] = "REAUTHORIZE"]
          /\ CloseWith(IF via = "authorized" THEN "READY" ELSE AfterCycle, exp)
       \/ /\ \E s \in {"COMPLETED", "FAILED", "DISPATCHING"} :
                attempt' = [attempt EXCEPT ![exp] = s]
          /\ CASE via = "cycle" -> pc' = "result" /\ UNCHANGED <<exp, goal>>
               [] via = "planned" -> pc' = "assess" /\ UNCHANGED <<exp, goal>>
               [] via = "authorized" -> CloseWith("READY", exp)
    /\ UNCHANGED <<row, hypotheses, tests, assessed, promo, cycles, charged, ghost, opp,
                   role, via, crashes>>

CheckpointResult ==
    /\ pc = "result"
    /\ row' = [row EXCEPT !.state = "RUNNING", !.phase = "RESULT"]
    /\ pc' = "assess"
    /\ UNCHANGED <<hypotheses, tests, attempt, assessed, promo, cycles, charged, ghost,
                   memory, crashes>>

(* PromoteOnAssessment: EvaluateExperimentFeedback, which reuses an assessment
   made before, and on_assessment.  A supported experiment gets a candidate and
   a promotion run that is VERIFYING, unless its evidence or its candidate is
   refused (DONE); a reproduction is not promoted in its turn. *)
Assess ==
    /\ pc = "assess"
    /\ assessed' = assessed \cup {exp}
    /\ \/ UNCHANGED stage
       \/ /\ attempt[exp] = "COMPLETED" /\ stage[exp] = "NONE" /\ exp \notin Reproductions
          /\ \E s \in {"VERIFYING", "DONE"} : stage' = [stage EXCEPT ![exp] = s]
    /\ pc' = "promote"
    /\ UNCHANGED <<row, hypotheses, tests, attempt, repro, cycles, charged, ghost, opp,
                   role, exp, via, goal, crashes>>

(* What the controller does after _continue_promotion. *)
Continue ==
    IF via = "planned" THEN CloseWith(AfterCycle, exp)
    ELSE pc' = "checkpoint" /\ UNCHANGED <<exp, goal>>

(* _continue_promotion and advance: a VERIFYING run claims an id for its
   reproduction, or finds the one it claimed before. *)
Promote ==
    /\ pc = "promote"
    /\ \/ /\ stage[exp] = "VERIFYING" /\ repro[exp] = None
          /\ \E x \in NewId(Unused) : repro' = [repro EXCEPT ![exp] = x]
          /\ pc' = "prepare"
          /\ UNCHANGED <<exp, goal>>
       \/ /\ stage[exp] = "VERIFYING" /\ repro[exp] # None
          /\ pc' = "prepare"
          /\ UNCHANGED <<repro, exp, goal>>
       \/ /\ stage[exp] # "VERIFYING"
          /\ Continue
          /\ UNCHANGED repro
    /\ UNCHANGED <<row, hypotheses, tests, attempt, assessed, stage, cycles, charged,
                   ghost, opp, role, via, crashes>>

(* The promotion run is at its end as far as experiments go. *)
EndPromotion == stage' = [stage EXCEPT ![exp] = "DONE"] /\ Continue

(* _execute_independent_reproduction: any attempt counts as one that ran; an
   experiment prepared before is found again. *)
PrepareReproduction ==
    /\ pc = "prepare"
    /\ \/ /\ attempt[repro[exp]] # "NONE"
          /\ EndPromotion
          /\ UNCHANGED tests
       \/ /\ attempt[repro[exp]] = "NONE"
          /\ tests' = [tests EXCEPT ![repro[exp]] = tests[exp]]
          /\ pc' = "reauthorize"
          /\ UNCHANGED <<stage, exp, goal>>
    /\ UNCHANGED <<row, hypotheses, attempt, assessed, repro, cycles, charged, ghost,
                   opp, role, via, crashes>>

(* Its authorization, which leaves the row alone; a refusal ends the run. *)
AuthorizeReproduction ==
    /\ pc = "reauthorize"
    /\ \/ /\ attempt' = [attempt EXCEPT ![repro[exp]] = "AUTHORIZED"]
          /\ pc' = "redispatch"
          /\ UNCHANGED <<stage, exp, goal>>
       \/ EndPromotion /\ UNCHANGED attempt
    /\ UNCHANGED <<row, hypotheses, tests, assessed, repro, cycles, charged, ghost, opp,
                   role, via, crashes>>

(* Its dispatch; if the budget is spent the attempt stays AUTHORIZED. *)
DispatchReproduction ==
    /\ pc = "redispatch"
    /\ \/ /\ attempt' = [attempt EXCEPT ![repro[exp]] = "DISPATCHING"]
          /\ pc' = "rerun"
          /\ UNCHANGED <<stage, exp, goal>>
       \/ EndPromotion /\ UNCHANGED attempt
    /\ UNCHANGED <<row, hypotheses, tests, assessed, repro, cycles, charged, ghost, opp,
                   role, via, crashes>>

(* The Worker's answer; an experiment that ran is assessed as well. *)
ReproductionReturns ==
    /\ pc = "rerun"
    /\ \E s \in {"COMPLETED", "REAUTHORIZE", "FAILED", "UNKNOWN_OUTCOME", "DISPATCHING"} :
          /\ attempt' = [attempt EXCEPT ![repro[exp]] = s]
          /\ assessed' = IF s = "COMPLETED" THEN assessed \cup {repro[exp]} ELSE assessed
    /\ EndPromotion
    /\ UNCHANGED <<row, hypotheses, tests, repro, cycles, charged, ghost, opp, role, via,
                   crashes>>

CheckpointAssessment ==
    /\ pc = "checkpoint"
    /\ row' = [row EXCEPT !.state = "RUNNING", !.phase = "ASSESSED"]
    /\ CloseWith(AfterCycle, exp)
    /\ UNCHANGED <<hypotheses, tests, attempt, assessed, promo, cycles, charged, ghost, opp,
                   role, via, crashes>>

----------------------------------------------------------------------------
(* Faulty variant: only a cycle that goes on is counted in the row. *)
CompleteCycleUncounted ==
    /\ pc = "close"
    /\ LET counts == via # "skip"
       IN /\ row' = [row EXCEPT !.state = goal, !.phase = "CYCLE",
                        !.cycle = IF counts /\ goal = "READY" THEN @ + 1 ELSE @,
                        !.hyp = IF via = "authorized" /\ goal = "READY"
                                THEN tests[exp] ELSE @,
                        !.exp = IF exp = None THEN @ ELSE exp]
          /\ cycles' = IF counts THEN cycles \cup {[nr |-> row.cycle + 1, exp |-> exp]}
                       ELSE cycles
    /\ pc' = "idle"
    /\ Forget
    /\ UNCHANGED <<hypotheses, tests, attempt, assessed, promo, charged, ghost, crashes>>

(* _stop and _complete_cycle; a hypothesis that was not admitted ends the
   cycle without counting it. *)
CompleteCycle ==
    /\ pc = "close"
    /\ LET counts == via # "skip"
           nr == IF counts THEN row.cycle + 1 ELSE row.cycle
       IN /\ row' = [row EXCEPT !.state = goal, !.cycle = nr, !.phase = "CYCLE",
                        !.hyp = IF via = "authorized" /\ goal = "READY"
                                THEN tests[exp] ELSE @,
                        !.exp = IF exp = None THEN @ ELSE exp]
          /\ cycles' = IF counts THEN cycles \cup {[nr |-> nr, exp |-> exp]}
                       ELSE cycles
    /\ pc' = "idle"
    /\ Forget
    /\ UNCHANGED <<hypotheses, tests, attempt, assessed, promo, charged, ghost, crashes>>

(* An exception in the step: stop_for_operational_failure closes no cycle. *)
StepFault ==
    /\ pc \notin {"down", "idle"}
    /\ row' = [row EXCEPT !.state = "FAILED_OPERATIONAL"]
    /\ pc' = "idle"
    /\ Forget
    /\ UNCHANGED <<hypotheses, tests, attempt, assessed, promo, cycles, charged, ghost, crashes>>

(* The process dies between two transactions. *)
Crash ==
    /\ pc \notin {"down", "idle"} /\ crashes < MaxCrashes
    /\ pc' = "down"
    /\ crashes' = crashes + 1
    /\ Forget
    /\ UNCHANGED <<db, ghost>>

(* recover_runs: an attempt of unknown outcome is held for a human. *)
Recover ==
    /\ pc = "down"
    /\ row' = IF OpenAttempts # {} THEN [row EXCEPT !.state = "WAITING_HUMAN"] ELSE row
    /\ pc' = "idle"
    /\ UNCHANGED <<hypotheses, tests, attempt, assessed, promo, cycles, charged, ghost,
                   memory, crashes>>

----------------------------------------------------------------------------
Step ==
    \/ StopUnknown \/ ResumeAuthorized \/ ReuseHypothesis \/ ResumeAdmitted
    \/ ResumePlanned \/ ResumeAfterWorker
    \/ CheckBounds \/ MarkRunning \/ SelectNothing \/ SelectOpportunity
    \/ ReserveModelCall \/ CallModel \/ Admit \/ NotAdmitted
    \/ PlanTooRisky \/ PlanExperiment
    \/ Authorize \/ Refuse \/ MarkDispatching \/ DispatchDenied \/ WorkerReturns
    \/ CheckpointResult \/ Assess \/ Promote \/ PrepareReproduction
    \/ AuthorizeReproduction \/ DispatchReproduction \/ ReproductionReturns
    \/ CheckpointAssessment \/ CompleteCycle
    \/ Recover

Next == Step \/ StepFault \/ Crash

Spec == Init /\ [][Next]_vars

(* The supervisor ticks, transactions end, the model and the Worker answer
   within their timeouts, and a process that died is started again. *)
FairSpec == Spec /\ WF_vars(Step)

----------------------------------------------------------------------------
(* Every variable has a value the code can give it. *)
TypeOK ==
    /\ row \in Row
    /\ hypotheses \in [Hypothesis -> {"NONE", "plain", "exploratory"}]
    /\ tests \in [Experiment -> Hypothesis \cup {None}]
    /\ attempt \in [Experiment -> AttemptState]
    /\ assessed \subseteq Experiment
    /\ stage \in [Experiment -> {"NONE", "VERIFYING", "DONE"}]
    /\ repro \in [Experiment -> Experiment \cup {None}]
    /\ cycles \subseteq [nr : Nat, exp : Experiment \cup {None}]
    /\ charged \subseteq Nat \X Role
    /\ called \subseteq Nat \X Role
    /\ round \in Nat /\ pc \in PC
    /\ opp \in Opportunity /\ role \in Role /\ exp \in Experiment \cup {None}
    /\ via \in {"cycle", "planned", "authorized", "skip"}
    /\ goal \in {"READY"} \cup Stopped
    /\ crashes \in Nat

(***************************************************************************)
(* A hypothesis is tested by at most one experiment and, when that one     *)
(* supports it, its one reproduction, wherever between the admission, the  *)
(* plan, the claim and the reproduction's plan the process died ("Existing *)
(* per-entity uniqueness prevents duplicate Experiment ...": for           *)
(* experiments it is the look-ups of PlanExperiment, ResumeAdmitted and    *)
(* Promote that do).                                                       *)
(***************************************************************************)
OneExperimentPerHypothesis ==
    \A x, y \in Planned :
        x # y /\ tests[x] = tests[y] => repro[x] = y \/ repro[y] = x

(***************************************************************************)
(* max_experiments is a hard limit: the resuming paths, which plan an      *)
(* experiment without looking at the bounds, do not exceed it either.  A   *)
(* reproduction does not count.                                            *)
(***************************************************************************)
ExperimentsWithinBound == Cardinality(Research) <= MaxExperiments

(***************************************************************************)
(* research_cycle is complete: the closed cycles of the row are exactly    *)
(* its rows 1 .. cycle_number, each once, although cycles are closed from  *)
(* five places and some do not count.                                      *)
(***************************************************************************)
CyclesRecorded ==
    /\ {c.nr : c \in cycles} = 1 .. row.cycle
    /\ \A c, d \in cycles : c.nr = d.nr => c = d

(***************************************************************************)
(* No planned experiment is forgotten: after any crash the run comes back  *)
(* to it and closes a cycle about it or about its reproduction, unless a   *)
(* step failed operationally or the outcome of an attempt is unknown.  A   *)
(* run that completes, is blocked or waits for a human about the           *)
(* experiment has closed its cycle.                                        *)
(***************************************************************************)
EveryExperimentIsClosed ==
    \A x \in Experiment :
        x \in Research ~> \/ \E c \in cycles : c.exp \in {x, repro[x]} \ {None}
                         \/ row.state = "FAILED_OPERATIONAL"
                         \/ OpenAttempts # {}

----------------------------------------------------------------------------
(* What the documentation says and the code, as modelled, does not keep. *)

(***************************************************************************)
(* "Every ModelPort complete() used by autonomous orchestration reserves   *)
(* one MODEL_CALL on the append-only ledger before the external            *)
(* invocation": as many calls, replays of a crashed cycle apart, as rows.  *)
(***************************************************************************)
EveryCallIsReserved == Cardinality(called) <= Cardinality(charged)

(***************************************************************************)
(* "Restart reloads phase first and resumes existing objects": the planned *)
(* experiment of the row is one that tests the hypothesis of the row.      *)
(***************************************************************************)
ResumesItsOwnExperiment ==
    row.phase = "PLANNED" => tests[row.exp] = row.hyp

(***************************************************************************)
(* "Worker/Integration -> Transition A -> assessment": a cycle whose       *)
(* experiment the Worker completed is not closed before it is assessed.    *)
(***************************************************************************)
CompletedIsAssessed ==
    \A c \in cycles :
        c.exp # None /\ attempt[c.exp] = "COMPLETED" => c.exp \in assessed
=============================================================================
