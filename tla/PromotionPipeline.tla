--------------------------- MODULE PromotionPipeline ---------------------------
(***************************************************************************)
(* The promotion of one assessment to a finding (application/              *)
(* promotion_pipeline.py and the use cases it calls).  Reporters call      *)
(* on_assessment, which admits evidence, opens a candidate and starts its  *)
(* verification; advancers call advance, which has an independent          *)
(* reproduction executed, completes the verification and submits a finding *)
(* proposal; a human reviews the proposal.  Several processes may promote  *)
(* the same assessment: a supervisor that lost its lease still ends its    *)
(* step while the next owner repeats it.                                   *)
(*                                                                         *)
(* Every process keeps the promotion_run row it read and saves the whole   *)
(* row back (_save), so an action is one transaction and a copy may be     *)
(* stale.  A transaction whose result rests on a unique constraint is one  *)
(* step; the three that read and then write unguarded                      *)
(* (StartCandidateVerification, authorize and StartHumanReview) are split  *)
(* at that point.                                                          *)
(***************************************************************************)
EXTENDS FindingGates, FiniteSets, Sequences

CONSTANTS Reporter,    \* the calls of on_assessment for the assessment
          Advancer,    \* the calls of advance for the assessment
          Reviewer,    \* the calls of StartHumanReview for the proposal
          InPlay,      \* evaluation strategies of the assessments considered
          MaxCalls,    \* bound of the model: calls of the two
          MaxRep,      \* bound of the model: reproduction experiments
          MaxCrashes   \* bound of the model: processes that die

ASSUME BoundAssumption == MaxRep \in Nat /\ MaxCrashes \in Nat /\ MaxCalls \in Nat
ASSUME InPlayAssumption == InPlay \subseteq Strategy

Rep  == 1 .. MaxRep
Orig == MaxRep + 1      \* stands for the ids of the original experiment

VARIABLES
    original,   \* the original experiment: its admission context
    answer,     \* what the target shows a reproduction
    evidence,   \* polarity of the original's evidence, "NONE" before
    prun,       \* the promotion_run row of the assessment
    cand,       \* state of the candidate, "NONE" before
    rep,        \* rep[r]: reproduction experiment r with its rows
    verif,      \* the verification: outcome and reproductions cited
    tiers,      \* latest validation tier outcomes of the hypothesis
    prop,       \* state of the finding proposal, "NONE" before
    review,     \* decision of the human review, "NONE" before
    approval,   \* decision of the Core approval, "NONE" before
    finding,    \* whether the finding exists
    readers,    \* the calls of StartHumanReview that read PROPOSED
    rp,         \* rp[r]: what reporter r does and remembers
    ad,         \* ad[p]: what advancer p does and remembers
    crashes     \* how many processes died

human == <<review, approval, finding, readers>>
authority == <<evidence, cand, verif, prop, human>>
vars == <<original, answer, evidence, prun, cand, rep, verif, tiers, prop, review,
          approval, finding, readers, rp, ad, crashes>>

Stage == {"NONE", "EVIDENCE_REJECTED", "EVIDENCE_ADMITTED", "CANDIDATE_OPEN",
          "VERIFYING", "REPRODUCTION_EXECUTED", "VERIFIED", "PROPOSAL_RECORDED",
          "STOPPED"}

PENDING_VERIFICATION_STAGES == {"VERIFYING", "REPRODUCTION_EXECUTED"}

(* PromotionRunRecord; repro 0 is reproduction_experiment_id IS NULL, and the
   flags say whether the row refers to evidence, candidate, ... yet. *)
Run == [stage : Stage, ev : BOOLEAN, cand : BOOLEAN, repro : 0 .. MaxRep,
        verif : BOOLEAN, prop : BOOLEAN]

NoRun == [stage |-> "NONE", ev |-> FALSE, cand |-> FALSE, repro |-> 0,
          verif |-> FALSE, prop |-> FALSE]

(* A reproduction: the experiment ("NONE" before it is planned), its attempts,
   whether it has observations, the status of the worker's result, its
   assessment and the polarity of its evidence. *)
Reproduction == [state : ExperimentState \cup {"NONE"}, attempts : Seq(AttemptState),
                 observed : BOOLEAN, worker : {"NONE", "OK", "FAILED", "REAUTH"},
                 assessed : Outcome \cup {"NONE"},
                 ev : {"NONE", "SUPPORTING", "CONTRADICTING"}]

NoRep == [state |-> "NONE", attempts |-> <<>>, observed |-> FALSE, worker |-> "NONE",
          assessed |-> "NONE", ev |-> "NONE"]

ReporterNew  == [pc |-> "new", existing |-> NoRun, run |-> NoRun, ok |-> FALSE]
AdvancerNew  == [pc |-> "new", run |-> NoRun, mine |-> 0, status |-> "none"]

Init ==
    /\ original \in [strategy : InPlay, outcome : {"CONSISTENT"}, observed : {TRUE},
                     attempt : {"COMPLETED"}, state : {"SUCCEEDED"}, worker : {"OK", "FAILED"}]
    /\ answer \in {"supports", "weak", "contradicts"}
    /\ tiers = [t \in Tier |-> IF t = "V3" THEN "QUEUED" ELSE "PASSED"]
    /\ evidence = "NONE" /\ prun = NoRun /\ cand = "NONE"
    /\ rep = [r \in Rep |-> NoRep]
    /\ verif = [outcome |-> "NONE", by |-> {}]
    /\ prop = "NONE" /\ review = "NONE" /\ approval = "NONE" /\ finding = FALSE
    /\ readers = {}
    /\ rp = [r \in Reporter |-> ReporterNew]
    /\ ad = [p \in Advancer |-> AdvancerNew]
    /\ crashes = 0

Given == <<original, answer, tiers>>

(* How many calls have begun. *)
Calls == Cardinality({r \in Reporter : rp[r].pc # "new"})
           + Cardinality({p \in Advancer : ad[p].pc # "new"})

----------------------------------------------------------------------------
(* on_assessment *)

Goto(r, pc, run) == rp' = [rp EXCEPT ![r].pc = pc, ![r].run = run]

Return(r) == rp' = [rp EXCEPT ![r] = [ReporterNew EXCEPT !.pc = "done"]]

(* The guards of on_assessment, and the row found for the assessment.  The call
   is repeated by a step that resumes: after one that died, or beside one whose
   supervisor lost its lease. *)
OnAssessment(r) ==
    /\ rp[r].pc = "new" /\ Calls < MaxCalls
    /\ original.outcome = "CONSISTENT" /\ original.strategy \in Strategy
    /\ rp' = [rp EXCEPT ![r] = [ReporterNew EXCEPT !.pc = "admit", !.existing = prun]]
    /\ UNCHANGED <<Given, authority, prun, rep, ad, crashes>>

(* AdmitDiagnosticEvidence: an admission that was granted is found again. *)
AdmitOriginal(r) ==
    /\ rp[r].pc = "admit"
    /\ evidence' = IF evidence = "NONE" THEN AdmittedEvidence(original) ELSE evidence
    /\ rp' = [rp EXCEPT ![r].pc = "ensure", ![r].ok = evidence' # "NONE"]
    /\ UNCHANGED <<Given, prun, cand, verif, prop, human, rep, ad, crashes>>

(* What on_assessment does with a row once it has one.  Evidence is refused on
   what was stored before the assessment, so every call refuses it and the row
   is EVIDENCE_REJECTED since its insert: it never has to be saved as such. *)
AfterEnsure(r, run) ==
    LET l == rp[r] IN
    IF ~l.ok THEN Return(r)
    ELSE IF l.existing # NoRun
             /\ l.existing.stage \notin {"EVIDENCE_ADMITTED", "CANDIDATE_OPEN"}
    THEN Return(r)
    ELSE IF run.stage \in {"EVIDENCE_REJECTED", "EVIDENCE_ADMITTED"} \/ l.existing = NoRun
    THEN Goto(r, "saveAdmitted", run)
    ELSE Goto(r, "propose", run)

(* _ensure_promotion_run: the row read before, the row of a concurrent
   reporter, or a new one. *)
EnsureRun(r) ==
    /\ rp[r].pc = "ensure"
    /\ LET fresh == [NoRun EXCEPT !.stage = IF rp[r].ok THEN "EVIDENCE_ADMITTED"
                                            ELSE "EVIDENCE_REJECTED",
                                  !.ev = rp[r].ok]
           run == IF rp[r].existing # NoRun THEN rp[r].existing
                  ELSE IF prun # NoRun THEN prun ELSE fresh
       IN /\ prun' = IF prun = NoRun /\ rp[r].existing = NoRun THEN fresh ELSE prun
          /\ AfterEnsure(r, run)
    /\ UNCHANGED <<Given, authority, rep, ad, crashes>>

(* _save of a reporter: the whole row, whatever is stored by now. *)
ReporterSave(r, from, to, run) ==
    /\ rp[r].pc = from
    /\ prun' = run
    /\ IF to = "done" THEN Return(r) ELSE Goto(r, to, run)
    /\ UNCHANGED <<Given, authority, rep, ad, crashes>>

SaveAdmitted(r) ==
    ReporterSave(r, "saveAdmitted", "propose",
                 [rp[r].run EXCEPT !.stage = "EVIDENCE_ADMITTED", !.ev = TRUE])

(* ProposeCandidateFromEvidence, or the candidate that the evidence has.  The
   proposal is built from supporting evidence and always admitted. *)
ProposeCandidate(r) ==
    /\ rp[r].pc = "propose"
    /\ LET e == [polarity |-> evidence, claim |-> original.strategy] IN
       cand' = IF cand = "NONE" /\ admit_candidate(propose_candidate(e), e) = "ADMITTED"
               THEN "OPEN" ELSE cand
    /\ Goto(r, "saveOpen", rp[r].run)
    /\ UNCHANGED <<Given, evidence, verif, prop, human, prun, rep, ad, crashes>>

SaveOpen(r) ==
    ReporterSave(r, "saveOpen", "start",
                 [rp[r].run EXCEPT !.stage = "CANDIDATE_OPEN", !.cand = TRUE])

(* The candidate is read, and StartCandidateVerification decides: one that is
   not OPEN any more is left alone. *)
StartVerification(r) ==
    /\ rp[r].pc = "start"
    /\ Goto(r, IF cand = "OPEN" THEN "setVerifying" ELSE "saveVerifying", rp[r].run)
    /\ UNCHANGED <<Given, authority, prun, rep, ad, crashes>>

(* ... and its set_state, which is keyed by the candidate alone. *)
SetVerifying(r) ==
    /\ rp[r].pc = "setVerifying"
    /\ cand' = "VERIFYING"
    /\ Goto(r, "saveVerifying", rp[r].run)
    /\ UNCHANGED <<Given, evidence, verif, prop, human, prun, rep, ad, crashes>>

SaveVerifying(r) ==
    ReporterSave(r, "saveVerifying", "done",
                 [rp[r].run EXCEPT !.stage = "VERIFYING", !.cand = TRUE])

Report(r) ==
    \/ OnAssessment(r) \/ AdmitOriginal(r) \/ EnsureRun(r) \/ SaveAdmitted(r)
    \/ ProposeCandidate(r) \/ SaveOpen(r) \/ StartVerification(r) \/ SetVerifying(r) \/ SaveVerifying(r)
----------------------------------------------------------------------------
(* advance *)

Move(p, pc) == ad' = [ad EXCEPT ![p].pc = pc]

With(p, pc, run) == ad' = [ad EXCEPT ![p].pc = pc, ![p].run = run]

Finish(p) == ad' = [ad EXCEPT ![p] = [AdvancerNew EXCEPT !.pc = "done"]]

Kept == <<Given, evidence, prop, human, rp, crashes>>

(* _pending_runs with an assessment_id, as every caller gives one: the row,
   whatever its stage. *)
Advance(p) ==
    /\ ad[p].pc = "new" /\ prun # NoRun /\ prun.cand /\ Calls < MaxCalls
    /\ With(p, "check", prun)
    /\ UNCHANGED <<Kept, cand, verif, prun, rep>>

(* The head of _advance_one_body. *)
Check(p) ==
    /\ ad[p].pc = "check"
    /\ LET run == ad[p].run IN
       Move(p, CASE verif.outcome # "NONE" -> "saveVerified"
                 [] verif.outcome = "NONE" /\ run.stage = "VERIFYING" ->
                        IF run.repro = 0 THEN "claim" ELSE "exec"
                 [] OTHER -> IF run.repro = 0 THEN "stop" ELSE "admit")
    /\ UNCHANGED <<Kept, cand, verif, prun, rep>>

NewRep == {r \in Rep : rep[r].state = "NONE" /\ prun.repro # r
                       /\ \A p \in Advancer : ad[p].run.repro # r}

CanClaim == prun.stage = "VERIFYING" /\ prun.repro = 0 /\ NewRep # {}

(* claim_reproduction: one conditional UPDATE. *)
Claim(p) ==
    /\ ad[p].pc = "claim"
    /\ IF CanClaim
       THEN /\ prun' = [prun EXCEPT !.repro = CHOOSE r \in NewRep : TRUE]
            /\ ad' = [ad EXCEPT ![p].pc = "claimed", ![p].status = "claimed"]
       ELSE /\ prun' = prun
            /\ ad' = [ad EXCEPT ![p].pc = "claimed", ![p].status = "none"]
    /\ UNCHANGED <<Kept, cand, verif, rep>>

(* The row is read again; who did not get the reservation leaves, unless the
   verification is there by now. *)
Claimed(p) ==
    /\ ad[p].pc = "claimed"
    /\ IF ad[p].status = "claimed" THEN With(p, "exec", prun)
       ELSE IF verif.outcome # "NONE" THEN With(p, "check", prun) ELSE Finish(p)
    /\ UNCHANGED <<Kept, cand, verif, prun, rep>>

(* _execute_independent_reproduction: whatever attempt there is counts as
   done. *)
Exec(p) ==
    /\ ad[p].pc = "exec"
    /\ LET r == ad[p].run.repro IN
       IF r = 0 THEN ad' = [ad EXCEPT ![p].pc = "reload", ![p].status = "none"]
       ELSE IF rep[r].attempts # <<>>
       THEN ad' = [ad EXCEPT ![p].pc = "reload", ![p].status = "scientific"]
       ELSE Move(p, "prepare")
    /\ UNCHANGED <<Kept, cand, verif, prun, rep>>

(* PreparePlannedExperiment: the plan of the original, under the new id. *)
Prepare(p) ==
    /\ ad[p].pc = "prepare"
    /\ rep' = [rep EXCEPT ![ad[p].run.repro].state = IF @ = "NONE" THEN "PLANNED" ELSE @]
    /\ Move(p, "execute")
    /\ UNCHANGED <<Kept, cand, verif, prun>>

(* A status of ExecutePlannedExperiment: to be evaluated, or the end. *)
Status(p, s) ==
    IF s = "evaluate"
    THEN ad' = [ad EXCEPT ![p].pc = "evaluate", ![p].status = "scientific"]
    ELSE ad' = [ad EXCEPT ![p].pc = "reload", ![p].status = s]

(* _outcome_for_existing *)
OutcomeForExisting(a) ==
    IF a \in {"AUTHORIZED", "UNKNOWN_OUTCOME"} THEN "operational" ELSE "evaluate"

(* _fail_closed_existing, with _mark_unknown for an attempt in flight. *)
FailClosedExisting(p) ==
    LET r == ad[p].run.repro
        x == rep[r]
    IN /\ ad[p].pc = "execute"
       /\ IF x.attempts = <<>>
          THEN /\ IF x.state \in {"SUCCEEDED", "FAILED", "BLOCKED"}
                  THEN Status(p, "evaluate") ELSE Move(p, "auth")
               /\ rep' = rep
          ELSE IF x.attempts[1] = "DISPATCHING"
          THEN /\ rep' = [rep EXCEPT ![r].attempts[1] = "UNKNOWN_OUTCOME"]
               /\ Status(p, "operational")
          ELSE /\ rep' = rep
               /\ Status(p, IF x.attempts[1] = "COMPLETED" /\ x.worker = "REAUTH"
                            THEN "operational" ELSE OutcomeForExisting(x.attempts[1]))
       /\ UNCHANGED <<Kept, cand, verif, prun>>

(* authorize, up to the Core decision: attempts are looked for, and a refusal
   that is rolled back leaves no trace. *)
Authorize(p) ==
    LET x == rep[ad[p].run.repro] IN
    /\ ad[p].pc = "auth"
    /\ \/ x.attempts # <<>> /\ Status(p, OutcomeForExisting(x.attempts[1]))
       \/ x.attempts = <<>> /\ Status(p, "operational")
       \/ x.attempts = <<>> /\ Move(p, "insert")
    /\ UNCHANGED <<Kept, cand, verif, prun, rep>>

(* ... and its commit: the attempt, the experiment BLOCKED, or the experiment
   left where the check began, for a human to look at. *)
InsertAttempt(p) ==
    LET r == ad[p].run.repro IN
    /\ ad[p].pc = "insert"
    /\ \/ /\ rep' = [rep EXCEPT ![r].attempts = Append(@, "AUTHORIZED"),
                                ![r].state = "READY"]
          /\ ad' = [ad EXCEPT ![p].pc = "dispatch",
                              ![p].mine = Len(rep[r].attempts) + 1]
       \/ /\ \E s \in {"BLOCKED", "AUTHORIZATION_CHECK"} : rep' = [rep EXCEPT ![r].state = s]
          /\ Status(p, "operational")
    /\ UNCHANGED <<Kept, cand, verif, prun>>

(* dispatch, up to the invocation; the budget may refuse it. *)
Dispatch(p) ==
    LET r == ad[p].run.repro IN
    /\ ad[p].pc = "dispatch"
    /\ \/ rep' = rep /\ Status(p, "operational")
       \/ /\ rep' = [rep EXCEPT ![r].attempts[ad[p].mine] = "DISPATCHING",
                                ![r].state = "RUNNING"]
          /\ Move(p, "invoke")
    /\ UNCHANGED <<Kept, cand, verif, prun>>

(* The worker's answer and the commit of _record_outcome. *)
RecordOutcome(p) ==
    LET r == ad[p].run.repro
        Record(a, s) == rep' = [rep EXCEPT ![r].attempts[ad[p].mine] = a, ![r].state = s]
    IN /\ ad[p].pc = "invoke"
       /\ \/ \E s \in {"SUCCEEDED", "BLOCKED", "AUTHORIZATION_CHECK"} :
                Record("COMPLETED", s) /\ Move(p, "ingest")
          \/ Record("FAILED", "FAILED") /\ Status(p, "operational")
          \/ Record("UNKNOWN_OUTCOME", "RUNNING") /\ Status(p, "operational")
       /\ UNCHANGED <<Kept, cand, verif, prun>>

(* IngestCompletedWorkerInvocation, in a transaction of its own. *)
Ingest(p) ==
    LET r == ad[p].run.repro
        Result(w, o) == rep' = [rep EXCEPT ![r].worker = IF @ = "NONE" THEN w ELSE @,
                                           ![r].observed = @ \/ o]
    IN /\ ad[p].pc = "ingest"
       /\ CASE rep[r].state = "AUTHORIZATION_CHECK" ->
                   Result("REAUTH", FALSE) /\ Status(p, "operational")
            [] rep[r].state = "BLOCKED" -> Result("OK", FALSE) /\ Status(p, "evaluate")
            [] OTHER -> \/ Result("OK", TRUE) /\ Status(p, "evaluate")
                        \/ Result("FAILED", FALSE) /\ Status(p, "evaluate")
                        \/ /\ rep' = [rep EXCEPT ![r].attempts[ad[p].mine] = "FAILED",
                                                 ![r].state = "FAILED"]
                           /\ Status(p, "operational")
       /\ UNCHANGED <<Kept, cand, verif, prun>>

FirstAttempt(x) == IF x.attempts = <<>> THEN "NONE" ELSE x.attempts[1]

(* EvaluateExperimentFeedback with the evaluator of the strategy. *)
Assess(x) ==
    IF FirstAttempt(x) \in UNUSABLE_ATTEMPT_STATES \/ x.state \in UNUSABLE_EXPERIMENT_STATES
    THEN "UNUSABLE"
    ELSE IF ~x.observed THEN "INCONCLUSIVE"
    ELSE IF answer = "contradicts" THEN "CONTRADICTS" ELSE "CONSISTENT"

Evaluate(p) ==
    LET r == ad[p].run.repro IN
    /\ ad[p].pc = "evaluate"
    /\ rep' = [rep EXCEPT ![r].assessed = IF @ = "NONE" THEN Assess(rep[r]) ELSE @]
    /\ Move(p, "reload")
    /\ UNCHANGED <<Kept, cand, verif, prun>>

(* The row is read again after the reproduction. *)
Reload(p) ==
    /\ ad[p].pc = "reload"
    /\ With(p, IF ad[p].status = "scientific" THEN "saveExecuted" ELSE "stop", prun)
    /\ UNCHANGED <<Kept, cand, verif, prun, rep>>

(* _save of an advancer: the whole row it remembers, with one change. *)
AdvancerSave(p, from, to, run) ==
    /\ ad[p].pc = from
    /\ prun' = run
    /\ IF to = "done" THEN Finish(p) ELSE With(p, to, run)
    /\ UNCHANGED <<Kept, cand, verif, rep>>

SaveStopped(p) ==
    AdvancerSave(p, "stop", "done", [ad[p].run EXCEPT !.stage = "STOPPED"])

(* Faulty variant: the call ends with the reproduction. *)
SaveExecutedEnds(p) ==
    AdvancerSave(p, "saveExecuted", "done",
                 [ad[p].run EXCEPT !.stage = "REPRODUCTION_EXECUTED"])

SaveExecuted(p) ==
    AdvancerSave(p, "saveExecuted", IF ad[p].run.repro = 0 THEN "stop" ELSE "admit",
                 [ad[p].run EXCEPT !.stage = "REPRODUCTION_EXECUTED"])

RepContext(x) == [strategy |-> original.strategy, outcome |-> x.assessed,
                  observed |-> x.observed, attempt |-> FirstAttempt(x),
                  state |-> x.state, worker |-> IF x.worker = "REAUTH" THEN "OK" ELSE x.worker]

(* _admit_reproduction_evidence: refusals and errors change nothing. *)
AdmitReproduction(p) ==
    LET r == ad[p].run.repro IN
    /\ ad[p].pc = "admit"
    /\ rep' = [rep EXCEPT ![r].ev = IF @ = "NONE" /\ rep[r].state # "NONE"
                                    THEN AdmittedEvidence(RepContext(rep[r])) ELSE @]
    /\ Move(p, "complete")
    /\ UNCHANGED <<Kept, cand, verif, prun>>

(* The evidence of reproduction r, as the verifier is shown it. *)
RefOf(r) ==
    IF rep[r].ev = "NONE" THEN NoRef
    ELSE EvidenceRef(r, r, r, {r}, rep[r].ev,
                     IF rep[r].ev = "SUPPORTING" THEN original.strategy ELSE "mismatch",
                     answer # "weak")

(* _execution_unusable of complete_candidate_verification. *)
ReproductionUnusable(x) ==
    \/ x.state \in UNUSABLE_EXPERIMENT_STATES
    \/ FirstAttempt(x) \in UNUSABLE_ATTEMPT_STATES
    \/ x.worker = "FAILED"

VerificationContext(r) ==
    [original |-> EvidenceRef(Orig, Orig, Orig, {Orig}, "SUPPORTING", original.strategy, TRUE),
     reproduction |-> RefOf(r), unusable |-> ReproductionUnusable(rep[r]), exp |-> r,
     request |-> IF rep[r].attempts = <<>> THEN 0 ELSE r,
     obs |-> IF rep[r].observed THEN {r} ELSE {}, outcome |-> rep[r].assessed]

(* CompleteCandidateVerification: verification and candidate in one commit;
   the verification of a concurrent process is found.  An experiment that is
   not there, or a candidate that is not VERIFYING, is an error. *)
CompleteVerification(p) ==
    LET r == ad[p].run.repro
        o == evaluate_verification(original.strategy, VerificationContext(r))
    IN /\ ad[p].pc = "complete"
       /\ CASE verif.outcome # "NONE" ->
                   /\ UNCHANGED <<cand, verif>>
                   /\ ad' = [ad EXCEPT ![p].pc = "saveVerified", ![p].status = "fresh"]
            [] verif.outcome = "NONE" /\ rep[r].state # "NONE"
                    /\ <<cand, o>> \in LEGAL_CANDIDATE_TRANSITIONS ->
                   /\ cand' = o
                   /\ verif' = [outcome |-> o, by |-> IF rep[r].ev = "NONE" THEN {} ELSE {r}]
                   /\ ad' = [ad EXCEPT ![p].pc = "saveVerified", ![p].status = "fresh"]
            [] OTHER -> Finish(p) /\ UNCHANGED <<cand, verif>>
       /\ UNCHANGED <<Kept, prun, rep>>

SaveVerified(p) ==
    AdvancerSave(p, "saveVerified", IF verif.outcome = "VALIDATED" THEN "submit" ELSE "done",
                 [ad[p].run EXCEPT !.stage = IF ad[p].run.prop /\ ad[p].status # "fresh"
                                             THEN @ ELSE "VERIFIED",
                                   !.verif = TRUE])

(* SubmitFindingProposal behind _submit_if_validated. *)
Submit(p) ==
    /\ ad[p].pc = "submit"
    /\ CASE prop # "NONE" -> prop' = prop /\ Move(p, "saveProposal")
         [] prop = "NONE" /\ admit_finding_proposal(cand, verif.outcome # "NONE") # "ADMITTED" ->
                prop' = prop /\ Finish(p)
         [] OTHER -> IF TiersPassed(original.strategy, tiers)
                     THEN prop' = "PROPOSED" /\ Move(p, "saveProposal")
                     ELSE prop' = prop /\ Move(p, "saveRefused")
    /\ UNCHANGED <<Given, evidence, cand, verif, human, rp, crashes, prun, rep>>

SaveProposal(p) ==
    AdvancerSave(p, "saveProposal", "done",
                 [ad[p].run EXCEPT !.stage = "PROPOSAL_RECORDED", !.prop = TRUE, !.verif = TRUE])

SaveRefused(p) ==
    AdvancerSave(p, "saveRefused", "done",
                 [ad[p].run EXCEPT !.stage = "VERIFIED", !.verif = TRUE])

(* The steps of a call that is under way; its next step once it has begun. *)
Proceed(p) ==
    \/ Check(p) \/ Claim(p) \/ Claimed(p) \/ Exec(p) \/ Prepare(p)
    \/ FailClosedExisting(p) \/ Authorize(p) \/ InsertAttempt(p) \/ Dispatch(p)
    \/ RecordOutcome(p) \/ Ingest(p) \/ Evaluate(p) \/ Reload(p) \/ SaveStopped(p)
    \/ SaveExecuted(p) \/ AdmitReproduction(p) \/ CompleteVerification(p)
    \/ SaveVerified(p) \/ Submit(p) \/ SaveProposal(p) \/ SaveRefused(p)
----------------------------------------------------------------------------
(* The human, the validation of hypotheses, and crashes. *)

Rest == <<Given, evidence, prun, cand, rep, verif, rp, ad, crashes>>

(* StartHumanReview: the proposal is read and its transition is legal ... *)
StartHumanReview(v) ==
    /\ <<prop, "HUMAN_REVIEW">> \in LEGAL_FINDING_PROPOSAL_TRANSITIONS
    /\ readers' = readers \cup {v}
    /\ UNCHANGED <<Rest, prop, review, approval, finding>>

(* ... and its set_state, which is keyed by the proposal alone. *)
SetHumanReview(v) ==
    /\ v \in readers
    /\ prop' = "HUMAN_REVIEW"
    /\ readers' = readers \ {v}
    /\ UNCHANGED <<Rest, review, approval, finding>>

(* Faulty variant: a later review replaces the first. *)
RecordHumanReviewAgain ==
    /\ prop = "HUMAN_REVIEW"
    /\ review' \in {"APPROVE", "REJECT"}
    /\ UNCHANGED <<Rest, prop, approval, finding, readers>>

(* Only a human's review is admitted, and the first one stays. *)
RecordHumanReview ==
    /\ prop = "HUMAN_REVIEW" /\ review = "NONE"
    /\ review' \in {"APPROVE", "REJECT"}
    /\ UNCHANGED <<Rest, prop, approval, finding, readers>>

(* FinalizeFinding by actor a: the Core approval copies the review's decision;
   refusals of the gate, and a second approval of the subject, are errors and
   change nothing. *)
FinalizeFinding(a) ==
    LET c == [candidate |-> cand, proposal |-> prop,
              review |-> [decision |-> review, actor |-> "HUMAN_OPERATOR", same |-> TRUE],
              approval |-> [recorded |-> review # "NONE", actor |-> a, subject |-> TRUE,
                            decision |-> review]]
        o == evaluate_finding_creation(c)
    IN /\ prop \in {"PROPOSED", "HUMAN_REVIEW"} /\ approval = "NONE"
       /\ o \in {"CREATED", "REJECTED_PROPOSAL"}
       /\ approval' = review
       /\ prop' = IF o = "CREATED" THEN "APPROVED" ELSE "REJECTED"
       /\ finding' = (o = "CREATED")
       /\ UNCHANGED <<Rest, review, readers>>

(* The queued V3 validation of the hypothesis ends. *)
V3Ends ==
    /\ tiers["V3"] = "QUEUED"
    /\ \E o \in {"PASSED", "REJECTED"} : tiers' = [tiers EXCEPT !["V3"] = o]
    /\ UNCHANGED <<original, answer, authority, prun, rep, rp, ad, crashes>>

CrashReporter(r) ==
    /\ rp[r].pc \notin {"new", "done", "dead"} /\ crashes < MaxCrashes
    /\ rp' = [rp EXCEPT ![r] = [ReporterNew EXCEPT !.pc = "dead"]] /\ crashes' = crashes + 1
    /\ UNCHANGED <<Given, authority, prun, rep, ad>>

CrashAdvancer(p) ==
    /\ ad[p].pc \notin {"new", "done"} /\ crashes < MaxCrashes
    /\ Finish(p) /\ crashes' = crashes + 1
    /\ UNCHANGED <<Given, authority, prun, rep, rp>>

Next ==
    \/ \E r \in Reporter : Report(r) \/ CrashReporter(r)
    \/ \E p \in Advancer : Advance(p) \/ Proceed(p) \/ CrashAdvancer(p)
    \/ \E v \in Reviewer : StartHumanReview(v) \/ SetHumanReview(v)
    \/ RecordHumanReview
    \/ \E a \in {"HUMAN_OPERATOR", "CONTROL_PLANE"} : FinalizeFinding(a)
    \/ V3Ends

(* A call of advance that has begun goes on: its steps are the program's own. *)
Fairness == \A p \in Advancer : WF_vars(Proceed(p))

Spec == Init /\ [][Next]_vars /\ Fairness
----------------------------------------------------------------------------
Process == {"new", "done", "dead", "admit", "ensure", "saveAdmitted", "propose",
            "saveOpen", "start", "setVerifying", "saveVerifying"}

Steps == {"new", "done", "check", "claim", "claimed", "exec", "prepare", "execute", "auth",
          "insert", "dispatch", "invoke", "ingest", "evaluate", "reload", "stop",
          "saveExecuted", "admit", "complete", "saveVerified", "submit",
          "saveProposal", "saveRefused"}

(* Every row and every copy of a row has the type of its record. *)
TypeOK ==
    /\ original \in EvidenceContext
    /\ answer \in {"supports", "weak", "contradicts"}
    /\ evidence \in {"NONE", "SUPPORTING"}
    /\ prun \in Run
    /\ cand \in CandidateState \cup {"NONE"}
    /\ rep \in [Rep -> Reproduction]
    /\ verif \in [outcome : ClosedCandidate \cup {"NONE"}, by : SUBSET Rep]
    /\ tiers \in [Tier -> TierOutcome \cup {"NONE"}]
    /\ prop \in ProposalState \cup {"NONE"}
    /\ review \in {"NONE", "APPROVE", "REJECT"}
    /\ approval \in {"NONE", "APPROVE", "REJECT"}
    /\ readers \subseteq Reviewer
    /\ finding \in BOOLEAN
    /\ rp \in [Reporter -> [pc : Process, existing : Run, run : Run, ok : BOOLEAN]]
    /\ ad \in [Advancer -> [pc : Steps, run : Run, mine : Nat,
                            status : {"none", "claimed", "scientific", "operational", "fresh"}]]
    /\ crashes \in 0 .. MaxCrashes

(* However the reports and advances interleave, a candidate is VALIDATED only
   on a reproduction whose worker answered, whose observation supports the
   claim with its negative controls, and which was assessed after it was
   observed: in particular a process never counts an attempt of another one
   that is still in flight as a reproduction. *)
ValidatedIsReproduced ==
    cand = "VALIDATED" =>
        \E r \in verif.by : /\ rep[r].ev = "SUPPORTING" /\ rep[r].observed
                            /\ "COMPLETED" \in {rep[r].attempts[i] : i \in DOMAIN rep[r].attempts}
                            /\ rep[r].assessed = "CONSISTENT" /\ answer = "supports"

(* A candidate is REJECTED only when the target really contradicted the claim:
   failures, refusals, crashes and lost races leave it INCONCLUSIVE
   ("FAILURE_TO_VERIFY_IS_NOT_REJECTION"). *)
FailureIsNotRejection == cand = "REJECTED" => answer = "contradicts"

(* A proposal, and with it a finding, has the whole chain behind it: an
   admitted evidence, a verification that validated the claim, and for a
   security claim all three validation tiers, at the time it was proposed.  Its
   candidate is VALIDATED, or was taken back to VERIFYING by a reporter that
   had read it OPEN, and nothing else. *)
ProposalHasChain ==
    prop # "NONE" =>
        /\ evidence = "SUPPORTING" /\ original.worker = "OK"
        /\ verif.outcome = "VALIDATED" /\ cand \in {"VALIDATED", "VERIFYING"}
        /\ original.strategy # "echo" => tiers["V1"] = "PASSED" /\ tiers["V3"] = "PASSED"

(* A reproduction that a call of advance has in hand is carried to an end by the
   calls that are at it, unless one of them dies: the run does not stay pending
   (a reporter that saves its old copy later may make it pending again). *)
ReservedRunSettles ==
    (prun.repro # 0 /\ \E p \in Advancer : ad[p].run.repro = prun.repro)
        ~> (prun.stage \notin PENDING_VERIFICATION_STAGES \/ crashes > 0)

(* What is settled stays so: no report reopens a run whose candidate was
   verified. *)
VerifiedRunStays ==
    [][prun.stage \in {"VERIFIED", "PROPOSAL_RECORDED"} =>
       prun'.stage \in {"VERIFIED", "PROPOSAL_RECORDED"}]_vars

(* With a target that supports the claim, an execution that was neither
   refused nor failed, and no crash, concurrent advances end in VALIDATED. *)
SupportedIsValidated ==
    (verif.outcome = "INCONCLUSIVE" /\ answer = "supports" /\ crashes = 0) =>
        \E r \in Rep : ReproductionUnusable(rep[r]) \/ rep[r].worker # "OK"

(* What was decided stays: with a finding, or a refusal, the proposal is at the
   end of its lifecycle. *)
ConcludedStays ==
    approval # "NONE" => prop = IF finding THEN "APPROVED" ELSE "REJECTED"

(* The promotion implements FindingAuthority.  What counts is what is written
   once (verification, approval, finding): the states of candidate and proposal
   may be taken back by a stale set_state. *)
phase ==
    CASE finding                  -> "FINDING"
      [] ~finding /\ approval = "REJECT" -> "REFUSED"
      [] OTHER -> CASE prop = "PROPOSED" -> "PROPOSED"
                    [] prop \notin {"NONE", "PROPOSED"} -> "REVIEW"
                    [] OTHER -> CASE verif.outcome = "VALIDATED" -> "VALIDATED"
                                  [] verif.outcome \in {"REJECTED", "INCONCLUSIVE"} -> "CLOSED"
                                  [] OTHER -> CASE cand = "VERIFYING" -> "VERIFYING"
                                                [] cand = "OPEN" -> "CANDIDATE"
                                                [] OTHER -> IF evidence = "NONE"
                                                            THEN "CLAIMED" ELSE "EVIDENCE"

Authority == INSTANCE FindingAuthority
    WITH Reproduction <- Rep, phase <- phase, verdict <- review,
         proof <- IF verif.outcome = "VALIDATED" THEN verif.by ELSE {}

(* Every step of every process is a step of FindingAuthority or none: the
   claim goes one way, is validated by one reproduction, and becomes a finding
   exactly when the human approved it. *)
ImplementsAuthority == Authority!Spec
=============================================================================
