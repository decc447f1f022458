------------------------ MODULE ResearchCycleProofs ------------------------
(***************************************************************************)
(* Proofs about ResearchCycle, for any hypotheses, experiments and bounds, *)
(* any number of opportunities and any number of crashes.                  *)
(*                                                                         *)
(* What a step holds in memory is lost by a crash, so the invariant says   *)
(* what the rows alone guarantee (RowInv) and what the memory of the step  *)
(* under way adds to it (MemoryInv, BoundInv).                             *)
(***************************************************************************)
EXTENDS ResearchCycle, FiniteSetTheorems, TLAPS

Reproducing == {"prepare", "reauthorize", "redispatch", "rerun"}

Executing == {"auth", "dispatch", "worker", "result", "assess", "promote", "checkpoint"}
                 \cup Reproducing

Searching == {"select", "reserve", "call", "admit", "plan"}

(***************************************************************************)
(* The rows by themselves: a phase that resumes an object has the id of    *)
(* that object, the experiment named by the row or by an attempt is in the *)
(* experiment table, and once there is one the row names one.              *)
(***************************************************************************)
RowInv ==
    /\ row.phase = "ADMITTED" => row.hyp # None
    /\ row.phase \in {"PLANNED", "RESULT", "ASSESSED"} => row.exp # None
    /\ row.exp # None => tests[row.exp] # None
    /\ \A x \in Experiment : attempt[x] # "NONE" => tests[x] # None
    /\ Planned # {} => row.exp # None

(* The memory of a step: the experiment it is about is in the table. *)
MemoryInv ==
    /\ pc \in {"admitted", "plan"} => row.phase = "ADMITTED"
    /\ pc \in Executing => exp # None
    /\ exp # None => tests[exp] # None
    /\ via = "authorized" => pc \in {"dispatch", "worker", "close"} /\ exp # None
    /\ via = "skip" => pc = "close"
    /\ pc \in Reproducing => repro[exp] # None
    /\ pc \in Reproducing \ {"prepare"} => tests[repro[exp]] # None

(***************************************************************************)
(* Originals and reproductions: an experiment is reproduced by at most one *)
(* other, about its own hypothesis, reproduces none itself, and is in the  *)
(* table before its reproduction is; no two that are not reproductions are *)
(* about the same hypothesis.  What is promoted is not a reproduction.     *)
(***************************************************************************)
PairInv ==
    /\ \A x, y \in Experiment : repro[x] # None => repro[y] # x
    /\ \A x, y \in Experiment : repro[x] # None /\ repro[x] = repro[y] => x = y
    /\ \A x \in Experiment : repro[x] # None =>
           tests[x] # None /\ tests[repro[x]] \in {None, tests[x]}
    /\ \A x, y \in Research : tests[x] = tests[y] => x = y

StageInv ==
    \A x \in Experiment : stage[x] # "NONE" =>
        tests[x] # None /\ \A y \in Experiment : repro[y] # x

(***************************************************************************)
(* The bound: a step that looks for a hypothesis has seen room for one     *)
(* more experiment, and a cycle left between its opportunity and its       *)
(* experiment has seen it at some time, when there may have been none.     *)
(***************************************************************************)
BoundInv ==
    /\ IsFiniteSet(Research)
    /\ Cardinality(Research) <= MaxExperiments
    /\ pc \in Searching => Cardinality(Research) < MaxExperiments
    /\ row.phase \in {"SELECTED", "ADMITTED"} => MaxExperiments >= 1

IInv ==
    /\ TypeOK /\ RowInv /\ MemoryInv /\ PairInv /\ StageInv /\ BoundInv
    /\ CyclesRecorded

----------------------------------------------------------------------------
(* What a new row or a closed cycle does to the sets the bounds count. *)

(* new_opaque_id gives one of the unused ids. *)
LEMMA NewIdUnused ==
    ASSUME NEW S
    PROVE  NewId(S) \subseteq S
  BY DEF NewId

(* An opportunity that is selected is of a kind the row can name. *)
LEMMA SelectedKind ==
    Selected \subseteq Opportunity
  BY DEF Selected, Opportunity

(* A failed call stops the run. *)
LEMMA StopState ==
    ASSUME NEW o
    PROVE  stop_reason_for_runtime_outcome(o) \in {"BLOCKED", "COMPLETED", "FAILED_OPERATIONAL"}
  BY DEF stop_reason_for_runtime_outcome

(***************************************************************************)
(* A call to the model leaves the rows alone: it goes on to the next call, *)
(* to admission, or to the end of the cycle.                               *)
(***************************************************************************)
LEMMA ModelStep ==
    ASSUME CallModel, role \in Role, via # "skip"
    PROVE  /\ role' \in Role /\ goal' \in {goal, "READY"} \cup Stopped
           /\ exp' \in {exp, None} /\ via' \in {via, "skip"}
           /\ \/ pc' \in {"reserve", "admit"} /\ exp' = exp /\ via' = via
              \/ pc' = "close" /\ exp' = None
           /\ UNCHANGED <<db, round, opp, crashes>>
<1>1. CASE GeneratorAnswers
  BY <1>1 DEF CallModel, GeneratorAnswers, Role
<1>2. CASE FalsifierAnswers
  BY <1>2 DEF CallModel, FalsifierAnswers, Role
<1>3. CASE ModelFails
  BY <1>3, StopState DEF CallModel, ModelFails, CloseWith, Stopped
<1>4. CASE AnswerRejected
  BY <1>4 DEF CallModel, AnswerRejected, CloseWith
<1> QED
  BY <1>1, <1>2, <1>3, <1>4 DEF CallModel

(* Admission gives the row a hypothesis and the table one of the right kind. *)
LEMMA AdmitStep ==
    ASSUME Admit, hypotheses \in [Hypothesis -> {"NONE", "plain", "exploratory"}]
    PROVE  /\ hypotheses' \in [Hypothesis -> {"NONE", "plain", "exploratory"}]
           /\ \E h \in Hypothesis :
                 row' = [row EXCEPT !.state = "RUNNING", !.phase = "ADMITTED", !.hyp = h]
<1>1. PICK h \in Hypothesis :
          /\ IF opp = "exploratory" THEN _persist_exploratory(h) ELSE _write_cycle(h)
          /\ row' = [row EXCEPT !.state = "RUNNING", !.phase = "ADMITTED", !.hyp = h]
  BY DEF Admit
<1>2. CASE opp = "exploratory"
  BY <1>1, <1>2 DEF _persist_exploratory
<1>3. CASE opp # "exploratory"
  BY <1>1, <1>3 DEF _write_cycle
<1> QED
  BY <1>1, <1>2, <1>3

(* As long as no row is inserted and no id is claimed, the counts and the
   look-ups agree. *)
LEMMA SameTests ==
    ASSUME UNCHANGED <<tests, repro>>
    PROVE  /\ Planned' = Planned /\ Reproductions' = Reproductions /\ Research' = Research
           /\ PairInv => PairInv'
<1>1. Planned' = Planned
  BY DEF Planned
<1>2. Reproductions' = Reproductions
  BY DEF Reproductions
<1>3. Research' = Research
  BY <1>1, <1>2 DEF Research
<1>4. PairInv => PairInv'
  BY <1>3 DEF PairInv
<1> QED
  BY <1>1, <1>2, <1>3, <1>4

(* An experiment is a reproduction when some promotion run names it. *)
LEMMA IsReproduction ==
    ASSUME NEW x \in Experiment
    PROVE  x \in Reproductions <=> \E y \in Experiment : repro[y] = x
  BY NoneAssumption DEF Reproductions

(***************************************************************************)
(* The insertion of an experiment for a hypothesis that has none: one more *)
(* is counted, and still no two are about the same hypothesis.             *)
(***************************************************************************)
LEMMA InsertExperiment ==
    ASSUME TypeOK, PairInv, StageInv, IsFiniteSet(Research),
           NEW h \in Hypothesis, ExperimentsOf(h) = {},
           NEW x \in Unused, tests' = [tests EXCEPT ![x] = h], UNCHANGED <<stage, repro>>
    PROVE  /\ tests'[x] = h
           /\ \A y \in Experiment : tests[y] # None => tests'[y] # None
           /\ PairInv' /\ StageInv'
           /\ IsFiniteSet(Research') /\ Cardinality(Research') = Cardinality(Research) + 1
<1>1. h # None
  BY NoneAssumption
<1>2. /\ tests \in [Experiment -> Hypothesis \cup {None}]
      /\ x \in Experiment /\ x \notin Planned /\ x \notin Reproductions
  BY DEF TypeOK, Unused
<1>3. tests'[x] = h /\ \A y \in Experiment \ {x} : tests'[y] = tests[y]
  BY <1>2
<1>4. Planned' = Planned \cup {x}
  BY <1>1, <1>2, <1>3 DEF Planned
<1>5. Reproductions' = Reproductions
  BY DEF Reproductions
<1>6. Research' = Research \cup {x} /\ x \notin Research
  BY <1>2, <1>4, <1>5 DEF Research
<1>7. PairInv'
  <2>1. \A y \in Research : y \in Experiment /\ tests[y] # h /\ y # x
    BY <1>2 DEF ExperimentsOf, Research, Planned
  <2>2. \A y \in Experiment : repro[y] # x
    BY <1>2, IsReproduction
  <2>3. \A y, z \in Research' : tests'[y] = tests'[z] => y = z
    <3> SUFFICES ASSUME NEW y \in Research', NEW z \in Research', tests'[y] = tests'[z]
                 PROVE  y = z
      OBVIOUS
    <3>1. CASE y \in Research /\ z \in Research
      BY <1>3, <2>1, <3>1 DEF PairInv
    <3>2. CASE y = x \/ z = x
      BY <1>3, <1>6, <2>1, <3>2
    <3> QED
      BY <1>6, <3>1, <3>2
  <2>4. ASSUME NEW y \in Experiment, repro[y] # None
        PROVE  tests'[y] # None /\ tests'[repro[y]] \in {None, tests'[y]}
    <3>1. repro[y] \in Experiment /\ repro[y] # x /\ y # x
      BY <1>2, <2>2, <2>4 DEF TypeOK, PairInv, Planned
    <3> QED
      BY <1>3, <2>4, <3>1 DEF PairInv
  <2> QED
    BY <2>3, <2>4 DEF PairInv
<1>8. StageInv'
  BY <1>1, <1>3 DEF StageInv
<1>9. IsFiniteSet(Research') /\ Cardinality(Research') = Cardinality(Research) + 1
  BY <1>6, FS_AddElement
<1> QED
  BY <1>1, <1>3, <1>7, <1>8, <1>9

(* PairInv says of the whole table what the property says. *)
LEMMA PairsOnly ==
    ASSUME TypeOK, PairInv
    PROVE  OneExperimentPerHypothesis
<1> SUFFICES ASSUME NEW x \in Planned, NEW y \in Planned, x # y, tests[x] = tests[y]
             PROVE  repro[x] = y \/ repro[y] = x
  BY DEF OneExperimentPerHypothesis
<1>1. x \in Experiment /\ y \in Experiment /\ tests[x] # None
  BY DEF Planned
<1>2. ASSUME NEW z \in Planned
      PROVE  \E o \in Research : tests[o] = tests[z] /\ (o = z \/ repro[o] = z)
  <2>1. z \in Experiment /\ tests[z] # None
    BY DEF Planned
  <2>2. CASE z \notin Reproductions
    BY <2>2 DEF Research
  <2>3. CASE z \in Reproductions
    <3>1. PICK o \in Experiment : repro[o] = z
      BY <2>1, <2>3, IsReproduction
    <3>2. repro[o] # None
      BY <2>1, <3>1, NoneAssumption
    <3>3. tests[o] # None /\ tests[z] = tests[o] /\ \A w \in Experiment : repro[w] # o
      BY <2>1, <3>1, <3>2 DEF PairInv
    <3>4. o \in Research
      BY <3>3, IsReproduction DEF Research, Planned
    <3> QED
      BY <3>1, <3>3, <3>4
  <2> QED
    BY <2>2, <2>3
<1>3. PICK o \in Research : tests[o] = tests[x] /\ (o = x \/ repro[o] = x)
  BY <1>2
<1>4. PICK q \in Research : tests[q] = tests[y] /\ (q = y \/ repro[q] = y)
  BY <1>2
<1>5. o = q
  BY <1>3, <1>4 DEF PairInv
<1> QED
  BY <1>3, <1>4, <1>5

(* Closing a cycle under the next number keeps the numbers complete. *)
LEMMA RecordCycle ==
    ASSUME TypeOK, CyclesRecorded, NEW x,
           row'.cycle = row.cycle + 1,
           cycles' = cycles \cup {[nr |-> row.cycle + 1, exp |-> x]}
    PROVE  CyclesRecorded'
<1> DEFINE n == row.cycle
           new == [nr |-> n + 1, exp |-> x]
<1>1. n \in Nat
  BY DEF TypeOK, Row
<1>2. {c.nr : c \in cycles} = 1 .. n /\ \A c, d \in cycles : c.nr = d.nr => c = d
  BY DEF CyclesRecorded
<1>3. {c.nr : c \in cycles'} = {c.nr : c \in cycles} \cup {n + 1}
  <2>1. new.nr = n + 1 /\ cycles' = cycles \cup {new}
    OBVIOUS
  <2> HIDE DEF new
  <2> QED
    BY <2>1
<1>4. 1 .. (n + 1) = (1 .. n) \cup {n + 1}
  BY <1>1
<1>5. \A c \in cycles : c.nr \in 1 .. n
  BY <1>2
<1>6. \A c \in cycles : c.nr # n + 1
  BY <1>1, <1>5
<1>7. ASSUME NEW c \in cycles', NEW d \in cycles', c.nr = d.nr
      PROVE  c = d
  <2>1. new.nr = n + 1 /\ cycles' = cycles \cup {new}
    OBVIOUS
  <2> HIDE DEF new, n
  <2> QED
    BY <1>2, <1>6, <1>7, <2>1
<1> QED
  BY <1>2, <1>3, <1>4, <1>7 DEF CyclesRecorded

----------------------------------------------------------------------------
(* Each part of the invariant, over every action. *)

(* Every action keeps the types. *)
LEMMA TypeStep ==
    ASSUME IInv, Next
    PROVE  TypeOK'
<1> USE DEF TypeOK, memory, ghost, db, promo
<1>1. CASE StopUnknown
  BY <1>1 DEF IInv, StopUnknown, Stopped, PC, CloseWith
<1>2. CASE ResumeAuthorized
  BY <1>2 DEF IInv, ResumeAuthorized, AuthorizedAttempts, PC
<1>3. CASE ReuseHypothesis
  <2>1. Reusable \subseteq Hypothesis
    BY DEF IInv, Reusable, Row
  <2>2. PICK h \in Hypothesis :
            row' = [row EXCEPT !.state = "RUNNING", !.phase = "ADMITTED", !.hyp = h]
    BY <1>3, <2>1 DEF ReuseHypothesis
  <2>3. row' \in Row
    BY <2>2 DEF IInv, Row, Runnable, Phase
  <2> QED
    BY <1>3, <2>3 DEF IInv, ReuseHypothesis, PC
<1>4. CASE ResumeAdmitted
  <2>1. row.hyp \in Hypothesis
    BY <1>4 DEF IInv, RowInv, MemoryInv, ResumeAdmitted, Row
  <2>2. \A x \in ExperimentsOf(row.hyp) : x \in Experiment
    BY DEF ExperimentsOf, Planned
  <2>3. \A x \in NewId(Unused) : x \in Experiment
    BY NewIdUnused DEF Unused
  <2>4. row' \in Row /\ tests' \in [Experiment -> Hypothesis \cup {None}]
    BY <1>4, <2>1, <2>2, <2>3 DEF IInv, ResumeAdmitted, Row, Runnable, Phase
  <2> QED
    BY <1>4, <2>4 DEF IInv, ResumeAdmitted, Row, PC
<1>5. CASE ResumePlanned
  BY <1>5 DEF IInv, ResumePlanned, Row, PC
<1>6. CASE ResumeAfterWorker
  BY <1>6 DEF IInv, ResumeAfterWorker, Row, Stopped, PC, CloseWith, AfterCycle
<1>7. CASE CheckBounds
  BY <1>7 DEF IInv, CheckBounds, Stopped, PC, CloseWith
<1>8. CASE MarkRunning
  BY <1>8 DEF IInv, MarkRunning, Propose, Row, Runnable, Stopped, Phase, PC
<1>9. CASE SelectNothing
  BY <1>9 DEF IInv, SelectNothing, Stopped, PC, CloseWith
<1>10. CASE SelectOpportunity
  <2>0. PICK o \in Opportunity :
            row' = [row EXCEPT !.state = "RUNNING", !.phase = "SELECTED",
                        !.opp = IF o = "none" THEN @ ELSE o,
                        !.cycleId = IF @ = 0 THEN round + 1 ELSE @]
    BY <1>10, SelectedKind DEF SelectOpportunity
  <2>1. row' \in Row
    <3>1. round + 1 \in Nat
      BY DEF IInv
    <3> QED
      BY <2>0, <3>1 DEF IInv, Row, Runnable, Phase
  <2> QED
    BY <1>10, <2>1, SelectedKind DEF IInv, SelectOpportunity, Propose, PC
<1>11. CASE ReserveModelCall
  <2>1. <<row.cycleId, role>> \in Nat \X Role
    BY DEF IInv, Row
  <2> QED
    BY <1>11, <2>1 DEF IInv, ReserveModelCall, Stopped, PC, CloseWith
<1>12. CASE CallModel
  <2>1. called' \subseteq Nat \X Role
    BY <1>12 DEF IInv, CallModel
  <2> QED
    BY <1>12, <2>1, ModelStep DEF IInv, MemoryInv, CallModel, PC
<1>13. CASE Admit
  <2>1. PICK h \in Hypothesis :
            row' = [row EXCEPT !.state = "RUNNING", !.phase = "ADMITTED", !.hyp = h]
    BY <1>13, AdmitStep DEF IInv
  <2>2. row' \in Row
    BY <2>1 DEF IInv, Row, Runnable, Phase
  <2>3. hypotheses' \in [Hypothesis -> {"NONE", "plain", "exploratory"}]
    BY <1>13, AdmitStep DEF IInv
  <2> QED
    BY <1>13, <2>2, <2>3 DEF IInv, Admit, PC
<1>14. CASE NotAdmitted
  BY <1>14 DEF IInv, NotAdmitted, Stopped, PC, CloseWith
<1>15. CASE PlanTooRisky
  BY <1>15 DEF IInv, PlanTooRisky, Stopped, PC, CloseWith
<1>16. CASE PlanExperiment
  <2>1. row.hyp \in Hypothesis
    BY <1>16 DEF IInv, RowInv, MemoryInv, PlanExperiment, Row
  <2>2. \A x \in ExperimentsOf(row.hyp) : x \in Experiment
    BY DEF ExperimentsOf, Planned
  <2>3. \A x \in NewId(Unused) : x \in Experiment
    BY NewIdUnused DEF Unused
  <2>4. exp' \in Experiment /\ tests' \in [Experiment -> Hypothesis \cup {None}]
    BY <1>16, <2>1, <2>2, <2>3 DEF IInv, PlanExperiment
  <2>5. row' \in Row
    BY <1>16, <2>4 DEF IInv, PlanExperiment, Row, Phase
  <2> QED
    BY <1>16, <2>4, <2>5 DEF IInv, PlanExperiment, PC
<1>17. CASE Authorize
  <2>1. row' \in Row
    BY <1>17 DEF IInv, Authorize, Row, Runnable, Phase
  <2>2. attempt' \in [Experiment -> AttemptState]
    BY <1>17 DEF IInv, Authorize, AttemptState
  <2> QED
    BY <1>17, <2>1, <2>2 DEF IInv, Authorize, CloseWith, AfterCycle, PC, Stopped
<1>18. CASE Refuse
  BY <1>18 DEF IInv, Refuse, Stopped, PC, CloseWith, AfterCycle
<1>19. CASE MarkDispatching
  <2>1. attempt' \in [Experiment -> AttemptState]
    BY <1>19 DEF IInv, MarkDispatching, AttemptState
  <2> QED
    BY <1>19, <2>1 DEF IInv, MarkDispatching, PC
<1>20. CASE DispatchDenied
  BY <1>20 DEF IInv, DispatchDenied, Stopped, PC, CloseWith
<1>21. CASE WorkerReturns
  <2>1. attempt' \in [Experiment -> AttemptState]
    BY <1>21 DEF IInv, WorkerReturns, AttemptState
  <2>2. via # "skip"
    BY <1>21 DEF IInv, MemoryInv, WorkerReturns
  <2>3. /\ pc' \in PC /\ exp' \in Experiment \cup {None}
        /\ goal' \in {"READY"} \cup Stopped
    BY <1>21, <2>2 DEF IInv, WorkerReturns, CloseWith, AfterCycle, PC, Stopped
  <2> QED
    BY <1>21, <2>1, <2>3 DEF IInv, WorkerReturns
<1>22. CASE CheckpointResult
  BY <1>22 DEF IInv, CheckpointResult, Row, Runnable, Stopped, Phase, PC
<1>23. CASE Assess
  <2>1. exp \in Experiment
    BY <1>23 DEF IInv, MemoryInv, Assess, Executing
  <2>2. stage' \in [Experiment -> {"NONE", "VERIFYING", "DONE"}]
    BY <1>23, <2>1 DEF IInv, Assess
  <2> QED
    BY <1>23, <2>1, <2>2 DEF IInv, Assess, PC
<1>24. CASE CheckpointAssessment
  BY <1>24 DEF IInv, CheckpointAssessment, Row, Runnable, Stopped, Phase, PC,
     CloseWith, AfterCycle
<1>25. CASE CompleteCycle
  <2>1. via = "authorized" => tests[exp] \in Hypothesis \cup {None}
    BY DEF IInv, MemoryInv
  <2>2. row.cycle \in Nat /\ row.cycle + 1 \in Nat
    BY DEF IInv, Row
  <2>3. row' \in Row
    BY <1>25, <2>1, <2>2 DEF IInv, CompleteCycle, Row, Runnable, Phase
  <2>4. cycles' \subseteq [nr : Nat, exp : Experiment \cup {None}]
    BY <1>25, <2>2 DEF IInv, CompleteCycle
  <2> QED
    BY <1>25, <2>3, <2>4 DEF IInv, CompleteCycle, Forget, PC, Opportunity, Role
<1>26. CASE Recover
  BY <1>26 DEF IInv, Recover, Row, Runnable, Stopped, Phase, PC
<1>27. CASE StepFault
  <2>1. row' \in Row
    BY <1>27 DEF IInv, StepFault, Row, Stopped
  <2> QED
    BY <1>27, <2>1 DEF IInv, StepFault, Forget, PC, Opportunity, Role
<1>28. CASE Crash
  BY <1>28 DEF IInv, Crash, Forget, PC, Opportunity, Role
<1>29. ASSUME pc \in Executing, Continue
       PROVE  /\ pc' \in PC /\ exp' \in Experiment \cup {None}
              /\ goal' \in {"READY"} \cup Stopped
  BY <1>29 DEF IInv, Continue, CloseWith, AfterCycle, PC, Stopped
<1>30. ASSUME pc \in Executing, EndPromotion
       PROVE  /\ stage' \in [Experiment -> {"NONE", "VERIFYING", "DONE"}]
              /\ pc' \in PC /\ exp' \in Experiment \cup {None}
              /\ goal' \in {"READY"} \cup Stopped
  BY <1>29, <1>30 DEF IInv, EndPromotion
<1>31. CASE Promote
  <2>1. NewId(Unused) \subseteq Experiment
    BY NewIdUnused DEF Unused
  <2>2. repro' \in [Experiment -> Experiment \cup {None}]
    BY <1>31, <2>1 DEF IInv, Promote
  <2>3. /\ pc' \in PC /\ exp' \in Experiment \cup {None}
        /\ goal' \in {"READY"} \cup Stopped
    BY <1>29, <1>31 DEF IInv, Promote, Executing, PC
  <2> QED
    BY <1>31, <2>2, <2>3 DEF IInv, Promote
<1>32. CASE PrepareReproduction
  <2>1. /\ stage' \in [Experiment -> {"NONE", "VERIFYING", "DONE"}]
        /\ pc' \in PC /\ exp' \in Experiment \cup {None}
        /\ goal' \in {"READY"} \cup Stopped
    BY <1>30, <1>32 DEF IInv, PrepareReproduction, Executing, Reproducing, PC
  <2>2. exp \in Experiment
    BY <1>32 DEF IInv, MemoryInv, PrepareReproduction, Executing, Reproducing
  <2>3. tests' \in [Experiment -> Hypothesis \cup {None}]
    BY <1>32, <2>2 DEF IInv, PrepareReproduction
  <2> QED
    BY <1>32, <2>1, <2>3 DEF IInv, PrepareReproduction
<1>33. CASE AuthorizeReproduction
  <2>1. /\ stage' \in [Experiment -> {"NONE", "VERIFYING", "DONE"}]
        /\ pc' \in PC /\ exp' \in Experiment \cup {None}
        /\ goal' \in {"READY"} \cup Stopped
    BY <1>30, <1>33 DEF IInv, AuthorizeReproduction, Executing, Reproducing, PC
  <2>2. attempt' \in [Experiment -> AttemptState]
    BY <1>33 DEF IInv, AuthorizeReproduction, AttemptState
  <2> QED
    BY <1>33, <2>1, <2>2 DEF IInv, AuthorizeReproduction
<1>34. CASE DispatchReproduction
  <2>1. /\ stage' \in [Experiment -> {"NONE", "VERIFYING", "DONE"}]
        /\ pc' \in PC /\ exp' \in Experiment \cup {None}
        /\ goal' \in {"READY"} \cup Stopped
    BY <1>30, <1>34 DEF IInv, DispatchReproduction, Executing, Reproducing, PC
  <2>2. attempt' \in [Experiment -> AttemptState]
    BY <1>34 DEF IInv, DispatchReproduction, AttemptState
  <2> QED
    BY <1>34, <2>1, <2>2 DEF IInv, DispatchReproduction
<1>35. CASE ReproductionReturns
  <2>1. /\ stage' \in [Experiment -> {"NONE", "VERIFYING", "DONE"}]
        /\ pc' \in PC /\ exp' \in Experiment \cup {None}
        /\ goal' \in {"READY"} \cup Stopped
    BY <1>30, <1>35 DEF IInv, ReproductionReturns, Executing, Reproducing, PC
  <2>2. attempt' \in [Experiment -> AttemptState]
    BY <1>35 DEF IInv, ReproductionReturns, AttemptState
  <2>3. repro[exp] \in Experiment
    BY <1>35 DEF IInv, MemoryInv, ReproductionReturns, Executing, Reproducing
  <2>4. assessed' \subseteq Experiment
    BY <1>35, <2>3 DEF IInv, ReproductionReturns
  <2> QED
    BY <1>35, <2>1, <2>2, <2>4 DEF IInv, ReproductionReturns
<1> QED
  BY <1>1, <1>2, <1>3, <1>4, <1>5, <1>6, <1>7, <1>8, <1>9, <1>10, <1>11, <1>12,
     <1>13, <1>14, <1>15, <1>16, <1>17, <1>18, <1>19, <1>20, <1>21, <1>22, <1>23,
     <1>24, <1>25, <1>26, <1>27, <1>28, <1>31, <1>32, <1>33, <1>34, <1>35
     DEF Next, Step

(***************************************************************************)
(* The two actions that plan: either the hypothesis has its experiment, or *)
(* one is inserted, and then there is room for it.  On the resuming path,  *)
(* which does not look at the bounds, there is room because the row would  *)
(* name an experiment if there were any.                                   *)
(***************************************************************************)
Reuses == UNCHANGED tests /\ exp' \in Planned

Inserts ==
    /\ exp' \in Unused
    /\ tests' = [tests EXCEPT ![exp'] = row.hyp]
    /\ ExperimentsOf(row.hyp) = {}
    /\ Cardinality(Research) < MaxExperiments

LEMMA PlanFacts ==
    ASSUME IInv, ResumeAdmitted \/ PlanExperiment
    PROVE  /\ row.hyp \in Hypothesis
           /\ Reuses \/ Inserts
           /\ row'.exp = exp' /\ row'.phase = "PLANNED" /\ row'.cycle = row.cycle
           /\ pc' = "auth" /\ via' \in {"planned", "cycle"}
           /\ UNCHANGED <<attempt, cycles, stage, repro>>
<1> USE DEF IInv, TypeOK, promo
<1>1. row.hyp \in Hypothesis
  BY DEF RowInv, MemoryInv, ResumeAdmitted, PlanExperiment, Row
<1>2. Planned \subseteq Experiment
  BY DEF Planned
<1>3. ExperimentsOf(row.hyp) \subseteq Planned
  BY DEF ExperimentsOf
<1>4. NewId(Unused) \subseteq Unused /\ Unused \subseteq Experiment
  BY NewIdUnused DEF Unused
<1>5. CASE PlanExperiment
  <2>1. Cardinality(Research) < MaxExperiments
    BY <1>5 DEF PlanExperiment, BoundInv, Searching
  <2>2. Reuses \/ Inserts
    BY <1>3, <1>4, <1>5, <2>1 DEF PlanExperiment, Reuses, Inserts
  <2>3. exp' \in Experiment
    BY <1>2, <1>4, <2>2 DEF Reuses, Inserts
  <2>4. row'.exp = exp' /\ row'.phase = "PLANNED" /\ row'.cycle = row.cycle
    BY <1>5, <2>3 DEF PlanExperiment, Row
  <2>5. via' \in {"planned", "cycle"}
    BY <1>5 DEF PlanExperiment, MemoryInv
  <2> QED
    BY <1>1, <1>5, <2>2, <2>4, <2>5 DEF PlanExperiment
<1>6. CASE ResumeAdmitted
  <2>1. row'.exp = exp' /\ row'.phase = "PLANNED" /\ row'.cycle = row.cycle
    BY <1>6 DEF ResumeAdmitted, Row
  <2>2. CASE row.exp # None
    <3>1. row.exp \in Planned
      BY <2>2 DEF RowInv, Planned, Row
    <3>2. exp' = row.exp /\ UNCHANGED tests
      BY <1>6, <2>2 DEF ResumeAdmitted, Row
    <3> QED
      BY <1>1, <1>6, <2>1, <3>1, <3>2 DEF ResumeAdmitted, Reuses
  <2>3. CASE row.exp = None
    <3>1. Planned = {}
      BY <2>3 DEF RowInv
    <3>2. Research = {} /\ Cardinality(Research) = 0
      BY <3>1, FS_EmptySet DEF Research
    <3>3. row.phase = "ADMITTED"
      BY <1>6 DEF ResumeAdmitted, MemoryInv
    <3>4. Cardinality(Research) < MaxExperiments
      BY <3>2, <3>3, LimitAssumption DEF BoundInv
    <3>5. ExperimentsOf(row.hyp) = {}
      BY <1>3, <3>1
    <3>6. PICK x \in NewId(Unused) :
              /\ tests' = [tests EXCEPT ![x] = row.hyp]
              /\ row' = [row EXCEPT !.phase = "PLANNED", !.exp = x]
      BY <1>6, <2>3, <3>5 DEF ResumeAdmitted
    <3>7. exp' = x
      BY <2>1, <3>6 DEF Row
    <3>8. Inserts
      BY <1>4, <3>4, <3>5, <3>6, <3>7 DEF Inserts
    <3> QED
      BY <1>1, <1>6, <2>1, <3>8 DEF ResumeAdmitted
  <2> QED
    BY <2>2, <2>3
<1> QED
  BY <1>5, <1>6

(* The invariant but for the types, over the actions that plan. *)
LEMMA PlanStep ==
    ASSUME IInv, ResumeAdmitted \/ PlanExperiment
    PROVE  /\ RowInv' /\ MemoryInv' /\ PairInv' /\ StageInv' /\ BoundInv'
           /\ CyclesRecorded'
<1> USE PlanFacts DEF IInv
<1>1. /\ exp' \in Experiment /\ tests'[exp'] # None
      /\ \A y \in Experiment : tests[y] # None => tests'[y] # None
      /\ PairInv' /\ StageInv'
      /\ IsFiniteSet(Research') /\ Cardinality(Research') <= MaxExperiments
  <2>1. CASE Reuses
    <3>1. Research' = Research /\ PairInv'
      BY <2>1, SameTests DEF Reuses
    <3>2. StageInv'
      BY <2>1 DEF Reuses, StageInv
    <3> QED
      BY <2>1, <3>1, <3>2 DEF Reuses, Planned, BoundInv
  <2>2. CASE Inserts
    <3>1. Cardinality(Research) \in Nat
      BY FS_CardinalityType DEF BoundInv
    <3>2. /\ tests'[exp'] = row.hyp
          /\ \A y \in Experiment : tests[y] # None => tests'[y] # None
          /\ PairInv' /\ StageInv'
          /\ IsFiniteSet(Research') /\ Cardinality(Research') = Cardinality(Research) + 1
      BY <2>2, InsertExperiment DEF Inserts, BoundInv
    <3>3. exp' \in Experiment
      BY <2>2 DEF Inserts, Unused
    <3> QED
      BY <2>2, <3>1, <3>2, <3>3, LimitAssumption, NoneAssumption DEF Inserts
  <2> QED
    BY <2>1, <2>2
<1>2. exp' # None /\ row'.exp # None
  BY <1>1, NoneAssumption
<1>3. RowInv'
  BY <1>1, <1>2 DEF RowInv
<1>4. MemoryInv'
  BY <1>1, <1>2 DEF MemoryInv, Reproducing
<1>5. BoundInv'
  BY <1>1 DEF BoundInv, Searching
<1>6. CyclesRecorded'
  BY DEF CyclesRecorded
<1> QED
  BY <1>1, <1>3, <1>4, <1>5, <1>6

(* The other actions leave the experiment table and the claims alone. *)
Others ==
    \/ StopUnknown \/ ResumeAuthorized \/ ReuseHypothesis
    \/ ResumePlanned \/ ResumeAfterWorker
    \/ CheckBounds \/ MarkRunning \/ SelectNothing \/ SelectOpportunity
    \/ ReserveModelCall \/ CallModel \/ Admit \/ NotAdmitted \/ PlanTooRisky
    \/ Authorize \/ Refuse \/ MarkDispatching \/ DispatchDenied \/ WorkerReturns
    \/ CheckpointResult \/ Assess \/ CheckpointAssessment \/ CompleteCycle
    \/ Recover \/ StepFault \/ Crash
    \/ AuthorizeReproduction \/ DispatchReproduction \/ ReproductionReturns

(* What is inserted stays, and is all there is to look up. *)
LEMMA TestsKept ==
    ASSUME IInv, Others
    PROVE  UNCHANGED <<tests, repro>>
<1> USE DEF IInv, TypeOK, db, memory, ghost, promo
<1>1. CASE StopUnknown
  BY <1>1 DEF StopUnknown
<1>2. CASE ResumeAuthorized
  BY <1>2 DEF ResumeAuthorized
<1>3. CASE ReuseHypothesis
  BY <1>3 DEF ReuseHypothesis
<1>4. CASE ResumePlanned
  BY <1>4 DEF ResumePlanned
<1>5. CASE ResumeAfterWorker
  BY <1>5 DEF ResumeAfterWorker
<1>6. CASE CheckBounds
  BY <1>6 DEF CheckBounds
<1>7. CASE MarkRunning
  BY <1>7 DEF MarkRunning
<1>8. CASE SelectNothing
  BY <1>8 DEF SelectNothing
<1>9. CASE SelectOpportunity
  BY <1>9 DEF SelectOpportunity
<1>10. CASE ReserveModelCall
  BY <1>10 DEF ReserveModelCall
<1>11. CASE CallModel
  BY <1>11 DEF CallModel
<1>12. CASE Admit
  BY <1>12 DEF Admit
<1>13. CASE NotAdmitted
  BY <1>13 DEF NotAdmitted
<1>14. CASE PlanTooRisky
  BY <1>14 DEF PlanTooRisky
<1>15. CASE Authorize
  BY <1>15 DEF Authorize
<1>16. CASE Refuse
  BY <1>16 DEF Refuse
<1>17. CASE MarkDispatching
  BY <1>17 DEF MarkDispatching
<1>18. CASE DispatchDenied
  BY <1>18 DEF DispatchDenied
<1>19. CASE WorkerReturns
  BY <1>19 DEF WorkerReturns
<1>20. CASE CheckpointResult
  BY <1>20 DEF CheckpointResult
<1>21. CASE Assess
  BY <1>21 DEF Assess
<1>22. CASE CheckpointAssessment
  BY <1>22 DEF CheckpointAssessment
<1>23. CASE CompleteCycle
  BY <1>23 DEF CompleteCycle
<1>24. CASE Recover
  BY <1>24 DEF Recover
<1>25. CASE StepFault
  BY <1>25 DEF StepFault
<1>26. CASE Crash
  BY <1>26 DEF Crash
<1>27. CASE AuthorizeReproduction
  BY <1>27 DEF AuthorizeReproduction
<1>28. CASE DispatchReproduction
  BY <1>28 DEF DispatchReproduction
<1>29. CASE ReproductionReturns
  BY <1>29 DEF ReproductionReturns
<1> QED
  BY <1>1, <1>2, <1>3, <1>4, <1>5, <1>6, <1>7, <1>8, <1>9, <1>10, <1>11,
     <1>12, <1>13, <1>14, <1>15, <1>16, <1>17, <1>18, <1>19, <1>20, <1>21,
     <1>22, <1>23, <1>24, <1>25, <1>26, <1>27, <1>28, <1>29 DEF Others

(* The rows alone stay resumable. *)
LEMMA RowStep ==
    ASSUME IInv, Others
    PROVE  RowInv'
<1> USE DEF IInv, TypeOK, db, memory, ghost, promo, RowInv, Row
<1>1. CASE StopUnknown
  BY <1>1, TestsKept DEF Planned, MemoryInv, Executing, StopUnknown, CloseWith, Stepping
<1>2. CASE ResumeAuthorized
  BY <1>2, TestsKept DEF Planned, MemoryInv, Executing, ResumeAuthorized, Stepping,
     AuthorizedAttempts
<1>3. CASE ReuseHypothesis
  <2>1. PICK h \in Reusable :
            row' = [row EXCEPT !.state = "RUNNING", !.phase = "ADMITTED", !.hyp = h]
    BY <1>3 DEF ReuseHypothesis
  <2>2. h # None
    BY NoneAssumption DEF Reusable
  <2>3. row'.hyp = h /\ row'.phase = "ADMITTED" /\ row'.exp = row.exp
    BY <2>1
  <2> QED
    BY <1>3, <2>2, <2>3, TestsKept DEF Planned, ReuseHypothesis
<1>4. CASE ResumePlanned
  BY <1>4, TestsKept DEF Planned, MemoryInv, Executing, ResumePlanned, Settled, Stepping
<1>5. CASE ResumeAfterWorker
  BY <1>5, TestsKept DEF Planned, MemoryInv, Executing, ResumeAfterWorker, CloseWith,
     Settled, Stepping
<1>6. CASE CheckBounds
  BY <1>6, TestsKept DEF Planned, MemoryInv, Executing, CheckBounds, CloseWith,
     NewCycle, Settled, Stepping
<1>7. CASE MarkRunning
  BY <1>7, TestsKept DEF Planned, MemoryInv, Executing, MarkRunning, NewCycle, Settled,
     Stepping
<1>8. CASE SelectNothing
  BY <1>8, TestsKept DEF Planned, MemoryInv, Executing, SelectNothing, CloseWith
<1>9. CASE SelectOpportunity
  BY <1>9, TestsKept DEF Planned, MemoryInv, Executing, SelectOpportunity, Propose
<1>10. CASE ReserveModelCall
  BY <1>10, TestsKept DEF Planned, MemoryInv, Executing, ReserveModelCall, CloseWith
<1>11. CASE CallModel
  BY <1>11, TestsKept, ModelStep DEF Planned, MemoryInv, Executing, CallModel
<1>12. CASE Admit
  <2>1. PICK h \in Hypothesis :
            row' = [row EXCEPT !.state = "RUNNING", !.phase = "ADMITTED", !.hyp = h]
    BY <1>12, AdmitStep DEF IInv, TypeOK
  <2>2. row'.hyp = h /\ row'.phase = "ADMITTED" /\ row'.exp = row.exp
    BY <2>1
  <2> QED
    BY <1>12, <2>2, TestsKept, NoneAssumption DEF Planned, Admit
<1>13. CASE NotAdmitted
  BY <1>13, TestsKept DEF Planned, MemoryInv, Executing, NotAdmitted, CloseWith
<1>14. CASE PlanTooRisky
  BY <1>14, TestsKept DEF Planned, MemoryInv, Executing, PlanTooRisky, CloseWith
<1>15. CASE Authorize
  BY <1>15, TestsKept DEF Planned, MemoryInv, Executing, Authorize, CloseWith
<1>16. CASE Refuse
  BY <1>16, TestsKept DEF Planned, MemoryInv, Executing, Refuse, CloseWith
<1>17. CASE MarkDispatching
  BY <1>17, TestsKept DEF Planned, MemoryInv, Executing, MarkDispatching
<1>18. CASE DispatchDenied
  BY <1>18, TestsKept DEF Planned, MemoryInv, Executing, DispatchDenied, CloseWith
<1>19. CASE WorkerReturns
  BY <1>19, TestsKept DEF Planned, MemoryInv, Executing, WorkerReturns, CloseWith
<1>20. CASE CheckpointResult
  BY <1>20, TestsKept DEF Planned, MemoryInv, Executing, CheckpointResult
<1>21. CASE Assess
  BY <1>21, TestsKept DEF Planned, Assess
<1>22. CASE CheckpointAssessment
  BY <1>22, TestsKept DEF Planned, MemoryInv, Executing, CheckpointAssessment, CloseWith
<1>23. CASE CompleteCycle
  BY <1>23, TestsKept DEF Planned, MemoryInv, Executing, CompleteCycle, Forget
<1>24. CASE Recover
  BY <1>24, TestsKept DEF Planned, MemoryInv, Executing, Recover
<1>25. CASE StepFault
  BY <1>25, TestsKept DEF Planned, MemoryInv, Executing, StepFault, Forget
<1>26. CASE Crash
  BY <1>26, TestsKept DEF Planned, MemoryInv, Executing, Crash, Forget
<1>27. CASE AuthorizeReproduction
  <2>1. repro[exp] \in Experiment /\ tests[repro[exp]] # None
    BY <1>27 DEF MemoryInv, Executing, Reproducing, AuthorizeReproduction
  <2> QED
    BY <1>27, <2>1, TestsKept DEF Planned, AuthorizeReproduction
<1>28. CASE DispatchReproduction
  <2>1. repro[exp] \in Experiment /\ tests[repro[exp]] # None
    BY <1>28 DEF MemoryInv, Executing, Reproducing, DispatchReproduction
  <2> QED
    BY <1>28, <2>1, TestsKept DEF Planned, DispatchReproduction
<1>29. CASE ReproductionReturns
  <2>1. repro[exp] \in Experiment /\ tests[repro[exp]] # None
    BY <1>29 DEF MemoryInv, Executing, Reproducing, ReproductionReturns
  <2> QED
    BY <1>29, <2>1, TestsKept DEF Planned, ReproductionReturns
<1> QED
  BY <1>1, <1>2, <1>3, <1>4, <1>5, <1>6, <1>7, <1>8, <1>9, <1>10, <1>11,
     <1>12, <1>13, <1>14, <1>15, <1>16, <1>17, <1>18, <1>19, <1>20, <1>21,
     <1>22, <1>23, <1>24, <1>25, <1>26, <1>27, <1>28, <1>29 DEF Others

(* The memory of a step is about an experiment in the table. *)
LEMMA MemoryStep ==
    ASSUME IInv, Others
    PROVE  MemoryInv'
<1> USE DEF IInv, TypeOK, db, memory, ghost, promo, MemoryInv, Executing, Reproducing
<1>1. CASE StopUnknown
  BY <1>1, TestsKept DEF RowInv, Row, StopUnknown, CloseWith, Stepping
<1>2. CASE ResumeAuthorized
  <2>1. exp' \in Experiment /\ attempt[exp'] = "AUTHORIZED"
    BY <1>2 DEF ResumeAuthorized, AuthorizedAttempts
  <2>2. exp' # None /\ tests[exp'] # None
    BY <2>1, NoneAssumption DEF RowInv
  <2> QED
    BY <1>2, <2>2, TestsKept DEF ResumeAuthorized
<1>3. CASE ReuseHypothesis
  BY <1>3, TestsKept DEF RowInv, Row, ReuseHypothesis, Settled, Reusable, Stepping
<1>4. CASE ResumePlanned
  BY <1>4, TestsKept DEF RowInv, Row, ResumePlanned, Settled, Stepping
<1>5. CASE ResumeAfterWorker
  BY <1>5, TestsKept DEF RowInv, Row, ResumeAfterWorker, CloseWith, Settled, Stepping
<1>6. CASE CheckBounds
  BY <1>6, TestsKept DEF RowInv, Row, CheckBounds, CloseWith, NewCycle, Settled, Stepping
<1>7. CASE MarkRunning
  BY <1>7, TestsKept DEF RowInv, Row, MarkRunning, Propose, NewCycle, Settled, Stepping
<1>8. CASE SelectNothing
  BY <1>8, TestsKept DEF RowInv, Row, SelectNothing, CloseWith
<1>9. CASE SelectOpportunity
  BY <1>9, TestsKept DEF RowInv, Row, SelectOpportunity, Propose
<1>10. CASE ReserveModelCall
  BY <1>10, TestsKept DEF RowInv, Row, ReserveModelCall, CloseWith
<1>11. CASE CallModel
  BY <1>11, TestsKept, ModelStep DEF RowInv, Row, CallModel
<1>12. CASE Admit
  BY <1>12, TestsKept, AdmitStep, NoneAssumption DEF IInv, TypeOK, RowInv, Row, Admit
<1>13. CASE NotAdmitted
  BY <1>13, TestsKept DEF RowInv, Row, NotAdmitted, CloseWith
<1>14. CASE PlanTooRisky
  BY <1>14, TestsKept DEF RowInv, Row, PlanTooRisky, CloseWith
<1>15. CASE Authorize
  BY <1>15, TestsKept DEF RowInv, Row, Authorize, CloseWith
<1>16. CASE Refuse
  BY <1>16, TestsKept DEF RowInv, Row, Refuse, CloseWith
<1>17. CASE MarkDispatching
  BY <1>17, TestsKept DEF RowInv, Row, MarkDispatching
<1>18. CASE DispatchDenied
  BY <1>18, TestsKept DEF RowInv, Row, DispatchDenied, CloseWith
<1>19. CASE WorkerReturns
  BY <1>19, TestsKept DEF RowInv, Row, WorkerReturns, CloseWith
<1>20. CASE CheckpointResult
  BY <1>20, TestsKept DEF RowInv, Row, CheckpointResult
<1>21. CASE Assess
  BY <1>21, TestsKept DEF RowInv, Row, Assess
<1>22. CASE CheckpointAssessment
  BY <1>22, TestsKept DEF RowInv, Row, CheckpointAssessment, CloseWith
<1>23. CASE CompleteCycle
  BY <1>23, TestsKept DEF RowInv, Row, CompleteCycle, Forget
<1>24. CASE Recover
  BY <1>24, TestsKept DEF RowInv, Row, Recover
<1>25. CASE StepFault
  BY <1>25, TestsKept DEF RowInv, Row, StepFault, Forget
<1>26. CASE Crash
  BY <1>26, TestsKept DEF RowInv, Row, Crash, Forget
<1>27. CASE AuthorizeReproduction
  BY <1>27, TestsKept DEF AuthorizeReproduction, EndPromotion, Continue, CloseWith
<1>28. CASE DispatchReproduction
  BY <1>28, TestsKept DEF DispatchReproduction, EndPromotion, Continue, CloseWith
<1>29. CASE ReproductionReturns
  BY <1>29, TestsKept DEF ReproductionReturns, EndPromotion, Continue, CloseWith
<1> QED
  BY <1>1, <1>2, <1>3, <1>4, <1>5, <1>6, <1>7, <1>8, <1>9, <1>10, <1>11,
     <1>12, <1>13, <1>14, <1>15, <1>16, <1>17, <1>18, <1>19, <1>20, <1>21,
     <1>22, <1>23, <1>24, <1>25, <1>26, <1>27, <1>28, <1>29 DEF Others

(* The numbers of the closed cycles stay complete. *)
LEMMA CyclesStep ==
    ASSUME IInv, Others
    PROVE  CyclesRecorded'
<1> USE DEF IInv, TypeOK, db, memory, ghost
<1>1. CASE StopUnknown
  BY <1>1 DEF CyclesRecorded, Row, StopUnknown
<1>2. CASE ResumeAuthorized
  BY <1>2 DEF CyclesRecorded, Row, ResumeAuthorized
<1>3. CASE ReuseHypothesis
  BY <1>3 DEF CyclesRecorded, Row, ReuseHypothesis
<1>4. CASE ResumePlanned
  BY <1>4 DEF CyclesRecorded, Row, ResumePlanned
<1>5. CASE ResumeAfterWorker
  BY <1>5 DEF CyclesRecorded, Row, ResumeAfterWorker
<1>6. CASE CheckBounds
  BY <1>6 DEF CyclesRecorded, Row, CheckBounds
<1>7. CASE MarkRunning
  BY <1>7 DEF CyclesRecorded, Row, MarkRunning
<1>8. CASE SelectNothing
  BY <1>8 DEF CyclesRecorded, Row, SelectNothing
<1>9. CASE SelectOpportunity
  BY <1>9 DEF CyclesRecorded, Row, SelectOpportunity
<1>10. CASE ReserveModelCall
  BY <1>10 DEF CyclesRecorded, Row, ReserveModelCall
<1>11. CASE CallModel
  BY <1>11 DEF CyclesRecorded, Row, CallModel
<1>12. CASE Admit
  BY <1>12, AdmitStep DEF IInv, TypeOK, CyclesRecorded, Row, Admit
<1>13. CASE NotAdmitted
  BY <1>13 DEF CyclesRecorded, Row, NotAdmitted
<1>14. CASE PlanTooRisky
  BY <1>14 DEF CyclesRecorded, Row, PlanTooRisky
<1>15. CASE Authorize
  BY <1>15 DEF CyclesRecorded, Row, Authorize
<1>16. CASE Refuse
  BY <1>16 DEF CyclesRecorded, Row, Refuse
<1>17. CASE MarkDispatching
  BY <1>17 DEF CyclesRecorded, Row, MarkDispatching
<1>18. CASE DispatchDenied
  BY <1>18 DEF CyclesRecorded, Row, DispatchDenied
<1>19. CASE WorkerReturns
  BY <1>19 DEF CyclesRecorded, Row, WorkerReturns
<1>20. CASE CheckpointResult
  BY <1>20 DEF CyclesRecorded, Row, CheckpointResult
<1>21. CASE Assess
  BY <1>21 DEF CyclesRecorded, Row, Assess
<1>22. CASE CheckpointAssessment
  BY <1>22 DEF CyclesRecorded, Row, CheckpointAssessment
<1>23. CASE CompleteCycle
  <2>1. CASE via = "skip"
    BY <1>23, <2>1 DEF CyclesRecorded, Row, CompleteCycle
  <2>2. CASE via # "skip"
    <3>1. row'.cycle = row.cycle + 1
      BY <1>23, <2>2 DEF Row, CompleteCycle
    <3>2. cycles' = cycles \cup {[nr |-> row.cycle + 1, exp |-> exp]}
      BY <1>23, <2>2 DEF CompleteCycle
    <3> QED
      BY <3>1, <3>2, RecordCycle
  <2> QED
    BY <2>1, <2>2
<1>24. CASE Recover
  BY <1>24 DEF CyclesRecorded, Row, Recover
<1>25. CASE StepFault
  BY <1>25 DEF CyclesRecorded, Row, StepFault
<1>26. CASE Crash
  BY <1>26 DEF CyclesRecorded, Row, Crash
<1>27. CASE AuthorizeReproduction
  BY <1>27 DEF CyclesRecorded, Row, AuthorizeReproduction
<1>28. CASE DispatchReproduction
  BY <1>28 DEF CyclesRecorded, Row, DispatchReproduction
<1>29. CASE ReproductionReturns
  BY <1>29 DEF CyclesRecorded, Row, ReproductionReturns
<1> QED
  BY <1>1, <1>2, <1>3, <1>4, <1>5, <1>6, <1>7, <1>8, <1>9, <1>10, <1>11,
     <1>12, <1>13, <1>14, <1>15, <1>16, <1>17, <1>18, <1>19, <1>20, <1>21,
     <1>22, <1>23, <1>24, <1>25, <1>26, <1>27, <1>28, <1>29 DEF Others

(* A promotion run is begun only for an experiment that is in the table and that
   no other run claims. *)
LEMMA StageStep ==
    ASSUME IInv, Others
    PROVE  StageInv'
<1> USE DEF IInv
<1>1. CASE Assess
  <2>1. exp \in Experiment /\ tests[exp] # None
    BY <1>1 DEF TypeOK, MemoryInv, Executing, Assess
  <2>2. CASE UNCHANGED stage
    BY <1>1, <2>2 DEF Assess, StageInv
  <2>3. CASE exp \notin Reproductions /\ \E t : stage' = [stage EXCEPT ![exp] = t]
    <3>1. \A y \in Experiment : repro[y] # exp
      BY <2>1, <2>3, IsReproduction
    <3> QED
      BY <1>1, <2>1, <2>3, <3>1 DEF TypeOK, Assess, StageInv
  <2> QED
    BY <1>1, <2>2, <2>3 DEF Assess
<1>2. ASSUME pc \in Reproducing, EndPromotion, UNCHANGED <<tests, repro>>
      PROVE  StageInv'
  <2>1. exp \in Experiment /\ tests[exp] # None /\ \A y \in Experiment : repro[y] # exp
    BY <1>2 DEF TypeOK, MemoryInv, Executing, PairInv
  <2> QED
    BY <1>2, <2>1 DEF TypeOK, EndPromotion, StageInv
<1>3. CASE AuthorizeReproduction \/ DispatchReproduction \/ ReproductionReturns
  <2>1. pc \in Reproducing /\ UNCHANGED <<tests, repro>>
    BY <1>3 DEF AuthorizeReproduction, DispatchReproduction, ReproductionReturns,
       Reproducing
  <2>2. EndPromotion \/ UNCHANGED stage
    BY <1>3 DEF AuthorizeReproduction, DispatchReproduction, ReproductionReturns
  <2> QED
    BY <1>2, <2>1, <2>2 DEF StageInv
<1>4. CASE UNCHANGED <<stage, tests, repro>>
  BY <1>4 DEF StageInv
<1>5. CASE Others /\ ~Assess /\ ~AuthorizeReproduction /\ ~DispatchReproduction
           /\ ~ReproductionReturns
  BY <1>4, <1>5 DEF Others, db, promo, memory, ghost, StopUnknown, ResumeAuthorized,
     ReuseHypothesis, ResumePlanned, ResumeAfterWorker, CheckBounds, MarkRunning,
     SelectNothing, SelectOpportunity, ReserveModelCall, CallModel, Admit, NotAdmitted,
     PlanTooRisky, Authorize, Refuse, MarkDispatching, DispatchDenied, WorkerReturns,
     CheckpointResult, CheckpointAssessment, CompleteCycle, Recover, StepFault, Crash
<1> QED
  BY <1>1, <1>3, <1>5

(***************************************************************************)
(* The promotion of an experiment: the id claimed for its reproduction is  *)
(* one that nothing else has, and the row inserted under it is about the   *)
(* same hypothesis and is not counted.                                     *)
(***************************************************************************)
LEMMA PromoteStep ==
    ASSUME IInv, Promote
    PROVE  /\ RowInv' /\ MemoryInv' /\ PairInv' /\ StageInv' /\ BoundInv'
           /\ CyclesRecorded'
<1> USE DEF IInv
<1>1. /\ exp \in Experiment /\ tests[exp] # None /\ pc = "promote"
      /\ UNCHANGED <<row, tests, attempt, stage, cycles, via>>
  BY DEF TypeOK, MemoryInv, Executing, Promote
<1>2. RowInv' /\ CyclesRecorded'
  BY <1>1 DEF RowInv, CyclesRecorded, Planned
<1>3. CASE UNCHANGED repro
  <2>0. ASSUME stage[exp] = "VERIFYING"
        PROVE  MemoryInv'
    <3>1. \A x \in NewId(Unused) : x \in Experiment /\ x # None
      BY NewIdUnused, NoneAssumption DEF Unused
    <3>2. repro'[exp] # None /\ pc' = "prepare" /\ UNCHANGED exp
      BY <1>1, <1>3, <2>0, <3>1 DEF Promote, TypeOK
    <3> QED
      BY <1>1, <1>3, <3>2 DEF MemoryInv, Executing, Reproducing
  <2>1. MemoryInv'
    <3>1. CASE stage[exp] # "VERIFYING"
      BY <1>1, <1>3, <3>1 DEF Promote, Continue, CloseWith, MemoryInv, Executing,
         Reproducing
    <3> QED
      BY <2>0, <3>1
  <2>2. PairInv' /\ Research' = Research
    BY <1>1, <1>3, SameTests
  <2>3. StageInv'
    BY <1>1, <1>3 DEF StageInv
  <2>4. BoundInv'
    BY <1>1, <2>2 DEF BoundInv, Promote, Continue, CloseWith, Searching
  <2> QED
    BY <1>2, <2>1, <2>2, <2>3, <2>4
<1>4. CASE repro' # repro
  <2>1. PICK x \in NewId(Unused) : repro' = [repro EXCEPT ![exp] = x]
    BY <1>4 DEF Promote
  <2>2. /\ stage[exp] = "VERIFYING" /\ repro[exp] = None /\ pc' = "prepare"
        /\ UNCHANGED exp
    BY <1>4 DEF Promote
  <2>3. x \in Experiment /\ x \notin Planned /\ x \notin Reproductions
    BY NewIdUnused DEF Unused
  <2>4. x # None /\ tests[x] = None /\ \A y \in Experiment : repro[y] # x
    BY <2>3, NoneAssumption, IsReproduction DEF Planned
  <2>5. \A y \in Experiment : repro[y] # exp
    BY <1>1, <2>2 DEF StageInv
  <2>6. repro'[exp] = x /\ \A y \in Experiment \ {exp} : repro'[y] = repro[y]
    BY <1>1, <2>1 DEF TypeOK
  <2>7. MemoryInv'
    BY <1>1, <2>2, <2>4, <2>6, NoneAssumption DEF MemoryInv, Executing, Reproducing
  <2>8. Research' = Research
    <3>1. Planned' = Planned
      BY <1>1 DEF Planned
    <3>2. Reproductions' = Reproductions \cup {x}
      BY <1>1, <2>2, <2>4, <2>6 DEF Reproductions
    <3> QED
      BY <2>3, <3>1, <3>2 DEF Research
  <2>9. PairInv'
    <3>1. \A y, z \in Experiment : repro'[y] # None => repro'[z] # y
      BY <1>1, <2>4, <2>5, <2>6 DEF PairInv
    <3>2. \A y, z \in Experiment : repro'[y] # None /\ repro'[y] = repro'[z] => y = z
      BY <2>4, <2>6 DEF PairInv
    <3>3. \A y \in Experiment : repro'[y] # None =>
             tests'[y] # None /\ tests'[repro'[y]] \in {None, tests'[y]}
      BY <1>1, <2>4, <2>6 DEF PairInv
    <3>4. \A y, z \in Research' : tests'[y] = tests'[z] => y = z
      BY <1>1, <2>8 DEF PairInv
    <3> QED
      BY <3>1, <3>2, <3>3, <3>4 DEF PairInv
  <2>10. StageInv'
    BY <1>1, <2>4, <2>5, <2>6 DEF StageInv
  <2>11. BoundInv'
    BY <1>1, <2>2, <2>8 DEF BoundInv, Searching
  <2> QED
    BY <1>2, <2>7, <2>9, <2>10, <2>11
<1> QED
  BY <1>3, <1>4

LEMMA PrepareStep ==
    ASSUME IInv, PrepareReproduction
    PROVE  /\ RowInv' /\ MemoryInv' /\ PairInv' /\ StageInv' /\ BoundInv'
           /\ CyclesRecorded'
<1> USE DEF IInv
<1> DEFINE x == repro[exp]
<1>1. /\ exp \in Experiment /\ tests[exp] # None /\ pc = "prepare" /\ x # None
      /\ x \in Experiment /\ UNCHANGED <<row, repro, attempt, cycles, via>>
  BY DEF TypeOK, MemoryInv, Executing, Reproducing, PrepareReproduction
<1>2. \A y \in Experiment : repro[y] # exp
  BY <1>1 DEF PairInv
<1>3. CASE UNCHANGED tests /\ EndPromotion
  <2>1. RowInv' /\ CyclesRecorded'
    BY <1>1, <1>3 DEF RowInv, CyclesRecorded, Planned
  <2>2. MemoryInv'
    BY <1>1, <1>3 DEF EndPromotion, Continue, CloseWith, MemoryInv, Executing, Reproducing
  <2>3. PairInv' /\ Research' = Research
    BY <1>1, <1>3, SameTests
  <2>4. StageInv'
    BY <1>1, <1>2, <1>3 DEF TypeOK, StageInv, EndPromotion
  <2>5. BoundInv'
    BY <1>1, <1>3, <2>3 DEF BoundInv, EndPromotion, Continue, CloseWith, Searching
  <2> QED
    BY <2>1, <2>2, <2>3, <2>4, <2>5
<1>4. CASE /\ tests' = [tests EXCEPT ![x] = tests[exp]] /\ pc' = "reauthorize"
           /\ UNCHANGED <<stage, exp, goal>>
  <2>1. x # exp
    BY <1>1, <1>2
  <2>2. tests'[x] = tests[exp] /\ \A y \in Experiment \ {x} : tests'[y] = tests[y]
    BY <1>1, <1>4 DEF TypeOK
  <2>3. \A y \in Experiment : tests[y] # None => tests'[y] = tests[y]
    BY <1>1, <2>2 DEF PairInv
  <2>4. Planned # {} /\ row.exp # None
    BY <1>1 DEF Planned, RowInv
  <2>5. RowInv'
    BY <1>1, <2>2, <2>3, <2>4 DEF RowInv, TypeOK, Row
  <2>6. MemoryInv'
    BY <1>1, <1>4, <2>1, <2>2, <2>3 DEF MemoryInv, Executing, Reproducing
  <2>7. Research' = Research
    <3>1. Planned' = Planned \cup {x}
      BY <1>1, <2>1, <2>2, <2>3 DEF Planned
    <3>2. Reproductions' = Reproductions /\ x \in Reproductions
      BY <1>1 DEF Reproductions
    <3> QED
      BY <3>1, <3>2 DEF Research
  <2>8. PairInv'
    <3>1. \A y, z \in Research' : tests'[y] = tests'[z] => y = z
      <4>1. \A y \in Research : y \in Experiment /\ tests[y] # None
        BY DEF Research, Planned
      <4> QED
        BY <2>3, <2>7, <4>1 DEF PairInv
    <3>2. ASSUME NEW y \in Experiment, repro[y] # None
          PROVE  tests'[y] # None /\ tests'[repro[y]] \in {None, tests'[y]}
      <4>1. tests[y] # None /\ tests'[y] = tests[y] /\ repro[y] \in Experiment
        BY <2>3, <3>2 DEF PairInv, TypeOK
      <4>2. CASE y = exp
        BY <2>2, <4>1, <4>2
      <4>3. CASE y # exp
        <5>1. repro[y] # x
          BY <1>1, <3>2, <4>3 DEF PairInv
        <5> QED
          BY <2>2, <3>2, <4>1, <5>1 DEF PairInv
      <4> QED
        BY <4>2, <4>3
    <3> QED
      BY <1>1, <3>1, <3>2 DEF PairInv
  <2>9. StageInv'
    BY <1>1, <1>4, <2>3 DEF StageInv
  <2>10. BoundInv' /\ CyclesRecorded'
    BY <1>1, <1>4, <2>7 DEF BoundInv, Searching, CyclesRecorded
  <2> QED
    BY <2>5, <2>6, <2>8, <2>9, <2>10
<1> QED
  BY <1>3, <1>4 DEF PrepareReproduction

(* Only MarkRunning begins a search, and it has looked at the bound. *)
LEMMA SearchStep ==
    ASSUME IInv, Others, pc' \in Searching
    PROVE  Cardinality(Research) < MaxExperiments
<1> USE DEF IInv, TypeOK, Searching, db, memory, ghost, promo
<1>1. Cardinality(Research) \in Nat /\ MaxExperiments \in Nat
  BY FS_CardinalityType, LimitAssumption DEF BoundInv
<1>2. CASE MarkRunning
  BY <1>1, <1>2 DEF MarkRunning, Exhausted
<1>3. CASE pc \in Searching
  BY <1>3 DEF BoundInv
<1>4. ~WorkerReturns
  <2> SUFFICES ASSUME WorkerReturns PROVE FALSE
    OBVIOUS
  <2>1. pc = "worker" /\ via \in {"cycle", "planned", "authorized"}
    BY DEF WorkerReturns, MemoryInv
  <2> QED
    BY <2>1 DEF WorkerReturns, CloseWith
<1>5. CASE ~MarkRunning /\ pc \notin Searching
  BY <1>4, <1>5 DEF Others, StopUnknown, ResumeAuthorized, ReuseHypothesis,
     ResumePlanned, ResumeAfterWorker, CheckBounds, SelectNothing, SelectOpportunity,
     ReserveModelCall, CallModel, Admit, NotAdmitted, PlanTooRisky, Authorize, Refuse,
     MarkDispatching, DispatchDenied, CheckpointResult, Assess, CheckpointAssessment,
     CompleteCycle, Recover, StepFault, Crash, CloseWith, AuthorizeReproduction,
     DispatchReproduction, ReproductionReturns, EndPromotion, Continue
<1> QED
  BY <1>2, <1>3, <1>5

(* Only a search brings a cycle to an opportunity or to a hypothesis. *)
LEMMA FoundStep ==
    ASSUME IInv, Others, row'.phase \in {"SELECTED", "ADMITTED"}
    PROVE  MaxExperiments >= 1
<1> USE DEF IInv, TypeOK, db, memory, ghost, promo
<1>1. Cardinality(Research) \in Nat /\ MaxExperiments \in Nat
  BY FS_CardinalityType, LimitAssumption DEF BoundInv
<1>2. CASE row.phase \in {"SELECTED", "ADMITTED"}
  BY <1>2 DEF BoundInv
<1>3. CASE pc \in Searching
  BY <1>1, <1>3 DEF BoundInv
<1>4. CASE row.phase \notin {"SELECTED", "ADMITTED"} /\ pc \notin Searching
  BY <1>4 DEF Row, Searching, Others, StopUnknown, ResumeAuthorized, ReuseHypothesis,
     ResumePlanned, ResumeAfterWorker, CheckBounds, MarkRunning, SelectNothing,
     SelectOpportunity, ReserveModelCall, CallModel, Admit, NotAdmitted, PlanTooRisky,
     Authorize, Refuse, MarkDispatching, DispatchDenied, WorkerReturns,
     CheckpointResult, Assess, CheckpointAssessment, CompleteCycle, Recover, StepFault,
     Crash, AuthorizeReproduction, DispatchReproduction, ReproductionReturns
<1> QED
  BY <1>2, <1>3, <1>4

(* The invariant holds at first and is kept by every step. *)
LEMMA Initially ==
    Init => IInv
<1> SUFFICES ASSUME Init PROVE IInv
  OBVIOUS
<1>1. TypeOK
  BY DEF Init, TypeOK, Row, Runnable, Phase, Opportunity, Role, AttemptState, PC
<1>2. Planned = {} /\ Research = {}
  BY DEF Init, Planned, Research
<1>3. IsFiniteSet(Research) /\ Cardinality(Research) = 0
  BY <1>2, FS_EmptySet
<1>4. RowInv /\ MemoryInv
  BY <1>2 DEF Init, RowInv, MemoryInv, Executing, Reproducing
<1>5. BoundInv
  BY <1>3, LimitAssumption DEF Init, BoundInv, Searching
<1>6. PairInv /\ StageInv
  BY <1>2 DEF Init, PairInv, StageInv
<1>7. CyclesRecorded
  BY DEF Init, CyclesRecorded
<1> QED
  BY <1>1, <1>4, <1>5, <1>6, <1>7 DEF IInv

LEMMA Inductive ==
    IInv /\ [Next]_vars => IInv'
<1> SUFFICES ASSUME IInv, [Next]_vars PROVE IInv'
  OBVIOUS
<1>1. CASE ResumeAdmitted \/ PlanExperiment
  <2>1. Next
    BY <1>1 DEF Next, Step
  <2> QED
    BY <1>1, <2>1, PlanStep, TypeStep DEF IInv
<1>2. CASE Others
  <2>1. Next
    BY <1>2 DEF Others, Next, Step
  <2>2. Research' = Research /\ PairInv'
    BY <1>2, TestsKept, SameTests DEF IInv
  <2>3. BoundInv'
    BY <1>2, <2>2, SearchStep, FoundStep DEF IInv, BoundInv
  <2> QED
    BY <1>2, <2>1, <2>2, <2>3, TypeStep, RowStep, MemoryStep, StageStep, CyclesStep
    DEF IInv
<1>3. CASE Promote
  <2>1. Next
    BY <1>3 DEF Next, Step
  <2> QED
    BY <1>3, <2>1, PromoteStep, TypeStep DEF IInv
<1>4. CASE PrepareReproduction
  <2>1. Next
    BY <1>4 DEF Next, Step
  <2> QED
    BY <1>4, <2>1, PrepareStep, TypeStep DEF IInv
<1>5. CASE UNCHANGED vars
  <2>1. UNCHANGED <<tests, repro>>
    BY <1>5 DEF vars
  <2>2. Research' = Research /\ PairInv' /\ Planned' = Planned
    BY <2>1, SameTests DEF IInv
  <2> QED
    BY <1>5, <2>2 DEF vars, IInv, TypeOK, RowInv, MemoryInv, BoundInv, StageInv,
       CyclesRecorded
<1> QED
  BY <1>1, <1>2, <1>3, <1>4, <1>5 DEF Others, Next, Step

(* IInv holds in every state of the controller, whatever its model, its Worker and
   its crashes do. *)
THEOREM Invariance ==
    Spec => []IInv
  BY Initially, Inductive, PTL DEF Spec

----------------------------------------------------------------------------
(* The rows and the memory of the controller have their types at any time. *)
THEOREM CycleTyped ==
    Spec => []TypeOK
<1>1. IInv => TypeOK
  BY DEF IInv
<1> QED
  BY <1>1, Invariance, PTL

(***************************************************************************)
(* Whatever the sequence of crashes, faults and resumed phases, two rows   *)
(* of experiment about the same hypothesis are an original and its one     *)
(* reproduction, although the table has no uniqueness constraint that      *)
(* would say so.                                                           *)
(***************************************************************************)
THEOREM NeverTestedTwice ==
    Spec => []OneExperimentPerHypothesis
<1>1. IInv => OneExperimentPerHypothesis
  BY PairsOnly DEF IInv
<1> QED
  BY <1>1, Invariance, PTL

(***************************************************************************)
(* max_experiments is never exceeded, for any bound and any run, by the    *)
(* paths that check it and by those that resume and do not.                *)
(***************************************************************************)
THEOREM BoundIsHard ==
    Spec => []ExperimentsWithinBound
<1>1. IInv => ExperimentsWithinBound
  BY DEF IInv, BoundInv, ExperimentsWithinBound
<1> QED
  BY <1>1, Invariance, PTL

(* The closed cycles are numbered 1 .. cycle_number, each once, always. *)
THEOREM NoCycleIsLost ==
    Spec => []CyclesRecorded
<1>1. IInv => CyclesRecorded
  BY DEF IInv
<1> QED
  BY <1>1, Invariance, PTL

----------------------------------------------------------------------------
(* What admission promises of every answer and of every source. *)

(***************************************************************************)
(* admit_hypothesis, after the parsers: an admitted proposal rests on at   *)
(* least one item of the context that is not untrusted content, on none    *)
(* outside the context, says how it could be refuted, claims no authority  *)
(* and kept an alternative explanation through the challenge.              *)
(***************************************************************************)
THEOREM AdmittedIsGrounded ==
    ASSUME NEW p \in GeneratorAnswer, NEW c \in FalsifierAnswer,
           OutcomeOf(p, c) = "ADMITTED"
    PROVE  /\ "seen" \in p.refs /\ p.refs \subseteq {"seen", "external"}
           /\ p.parts = ProposalPart /\ c.parts = ChallengePart
           /\ ~p.authority /\ ~c.authority /\ ~p.policy
<1>1. p.refs \subseteq Ref /\ p.parts \subseteq ProposalPart /\ c.parts \subseteq ChallengePart
  BY DEF GeneratorAnswer, FalsifierAnswer
<1>2. parse_hypothesis_proposal(p) = "PARSED"
  BY DEF OutcomeOf, parse_hypothesis_proposal
<1>3. parse_hypothesis_challenge(c) = "PARSED"
  BY <1>2 DEF OutcomeOf, parse_hypothesis_challenge
<1>4. admit_hypothesis(p, c) = "ADMITTED"
  BY <1>2, <1>3 DEF OutcomeOf
<1>5. ~p.authority /\ p.parts = ProposalPart
  BY <1>2 DEF parse_hypothesis_proposal
<1>6. ~c.authority
  BY <1>3 DEF parse_hypothesis_challenge
<1>7. ~p.policy
  BY <1>4 DEF admit_hypothesis
<1>8. "omitted" \notin p.refs /\ "seen" \in p.refs
  BY <1>4, <1>7 DEF admit_hypothesis
<1>9. c.parts = ChallengePart
  BY <1>4, <1>7, <1>8 DEF admit_hypothesis
<1> QED
  BY <1>1, <1>5, <1>6, <1>7, <1>8, <1>9 DEF Ref

(***************************************************************************)
(* Selection and admission agree: a source that became a candidate belongs *)
(* to this run, and when it is classified again at its admission it is     *)
(* refused only if a HunterFamily has come to claim it meanwhile or the    *)
(* compiler does not take its arguments.                                   *)
(***************************************************************************)
THEOREM CandidateIsAdmitted ==
    ASSUME NEW s \in Source, NEW owned \in BOOLEAN, IsCandidate(s, FALSE)
    PROVE  /\ s.run = "own"
           /\ s.kind = "DIFFERENTIAL" => s.about \subseteq {"own"}
           /\ _admit_registry_external(s, owned) = "ADMITTED" <=> ~owned /\ s.compiles
<1>1. s.complete /\ load_identity_anomaly_context(s, FALSE) = "REGISTRY_EXTERNAL"
  BY DEF IsCandidate
<1>2. s.kind \in {"DIFFERENTIAL", "OBSERVATION"} /\ s.about \subseteq RunOf
  BY DEF Source
<1>3. ASSUME s.kind = "DIFFERENTIAL"
     PROVE  /\ s.run = "own" /\ Anomaly(s, FALSE) = "REGISTRY_EXTERNAL"
            /\ s.kind = "DIFFERENTIAL" => s.about \subseteq {"own"}
            /\ load_identity_anomaly_context(s, owned) = Anomaly(s, owned)
  <2>1. classify_identity_differential(s, FALSE) = "REGISTRY_EXTERNAL"
    BY <1>1, <1>3 DEF load_identity_anomaly_context
  <2>2. /\ s.run = "own" /\ "none" \notin s.about /\ "other" \notin s.about
        /\ Anomaly(s, FALSE) = "REGISTRY_EXTERNAL"
    BY <2>1 DEF classify_identity_differential, Anomaly
  <2>3. s.about \subseteq {"own"}
    BY <1>2, <2>2 DEF RunOf
  <2>4. load_identity_anomaly_context(s, owned) = Anomaly(s, owned)
    BY <1>3, <2>2 DEF load_identity_anomaly_context, classify_identity_differential
  <2> QED
    BY <2>2, <2>3, <2>4
<1>4. ASSUME s.kind = "OBSERVATION"
     PROVE  /\ s.run = "own" /\ Anomaly(s, FALSE) = "REGISTRY_EXTERNAL"
            /\ s.kind = "DIFFERENTIAL" => s.about \subseteq {"own"}
            /\ load_identity_anomaly_context(s, owned) = Anomaly(s, owned)
  <2>1. classify_http_authorization_observation(s, FALSE) = "REGISTRY_EXTERNAL"
    BY <1>1, <1>4 DEF load_identity_anomaly_context
  <2>2. s.run = "own" /\ Anomaly(s, FALSE) = "REGISTRY_EXTERNAL"
    BY <2>1 DEF classify_http_authorization_observation, Anomaly
  <2>3. load_identity_anomaly_context(s, owned) = Anomaly(s, owned)
    BY <1>4, <2>2 DEF load_identity_anomaly_context, classify_http_authorization_observation
  <2> QED
    BY <1>4, <2>2, <2>3
<1>5. /\ s.run = "own" /\ Anomaly(s, FALSE) = "REGISTRY_EXTERNAL"
      /\ s.kind = "DIFFERENTIAL" => s.about \subseteq {"own"}
      /\ load_identity_anomaly_context(s, owned) = Anomaly(s, owned)
  BY <1>2, <1>3, <1>4
<1>6. s.identity /\ s.divergent
  BY <1>5 DEF Anomaly
<1>7. Anomaly(s, owned) = IF owned THEN "KNOWN_FAMILY" ELSE "REGISTRY_EXTERNAL"
  BY <1>6 DEF Anomaly
<1>8. admit_hypothesis(identity_anomaly_proposal, identity_anomaly_challenge) = "ADMITTED"
  BY DEF admit_hypothesis, identity_anomaly_proposal, identity_anomaly_challenge, ProposalPart
<1>9. s.compiles \in BOOLEAN
  BY DEF Source
<1>10. _admit_registry_external(s, owned) = "ADMITTED" <=> ~owned /\ s.compiles
  BY <1>1, <1>5, <1>7, <1>8, <1>9
     DEF _admit_registry_external, compile_identity_anomaly_experiment
<1> QED
  BY <1>5, <1>10
=============================================================================
