-------------------------- MODULE PromotionProofs --------------------------
(***************************************************************************)
(* Proofs about PromotionPipeline, for any number of reporters, advancers, *)
(* reproductions and crashes, and for every strategy and answer.           *)
(*                                                                         *)
(* Several advancers may be at the same reproduction, each with an attempt *)
(* of its own, and all write its rows.  So the invariant says whose an     *)
(* attempt is while it may still change (MineInv), and that what an        *)
(* observation rests on is nobody's any more (ObservedIsSettled).          *)
(***************************************************************************)
EXTENDS PromotionPipeline, SequenceTheorems, TLAPS

(* Where an advancer has a reproduction in hand, and where an attempt. *)
AtReproduction == {"prepare", "execute", "auth", "insert", "dispatch", "invoke",
                   "ingest", "evaluate", "admit", "complete"}

AtAttempt == {"dispatch", "invoke", "ingest"}

(* Advancer p still changes attempt i of reproduction r. *)
Owns(p, r, i) ==
    ad[p].pc \in AtAttempt /\ ad[p].run.repro = r /\ ad[p].mine = i

Settled(r, i) ==
    /\ i \in 1 .. Len(rep[r].attempts) /\ rep[r].attempts[i] = "COMPLETED"
    /\ \A p \in Advancer : ~Owns(p, r, i)

(* The original is the assessed experiment that on_assessment is given. *)
OriginalInv ==
    /\ original.strategy \in Strategy /\ original.outcome = "CONSISTENT"
    /\ original.worker \in {"OK", "FAILED"}
    /\ evidence = "SUPPORTING" => original.worker = "OK"

(* An advancer's reproduction and attempt are there, and it shares no attempt. *)
MineInv ==
    /\ \A p \in Advancer :
          /\ ad[p].pc \in AtReproduction => ad[p].run.repro # 0
          /\ ad[p].pc \in AtAttempt => ad[p].mine \in 1 .. Len(rep[ad[p].run.repro].attempts)
          /\ ad[p].pc = "ingest" => rep[ad[p].run.repro].attempts[ad[p].mine] = "COMPLETED"
    /\ \A p, q \in Advancer :
          p # q /\ ad[p].pc \in AtAttempt => ~Owns(q, ad[p].run.repro, ad[p].mine)

(* An observation has a completed attempt behind it that stays completed. *)
ObservedIsSettled ==
    \A r \in Rep : rep[r].observed => \E i \in 1 .. Len(rep[r].attempts) : Settled(r, i)

(* What is assessed is what the target shows, and evidence is of that. *)
AssessedInv ==
    \A r \in Rep :
        /\ rep[r].assessed = "CONSISTENT" => answer # "contradicts"
        /\ rep[r].assessed = "CONTRADICTS" => answer = "contradicts"
        /\ rep[r].ev # "NONE" => rep[r].observed
        /\ rep[r].ev = "SUPPORTING" => rep[r].assessed = "CONSISTENT"
        /\ rep[r].ev = "CONTRADICTING" => rep[r].assessed = "CONTRADICTS"

(* The verification, and the candidate that it closed. *)
VerifiedInv ==
    /\ cand \in ClosedCandidate => verif.outcome = cand
    /\ verif.outcome = "VALIDATED" =>
          /\ answer = "supports"
          /\ \E r \in Rep : verif.by = {r} /\ rep[r].ev = "SUPPORTING"
    /\ verif.outcome = "REJECTED" => answer = "contradicts"

(* A reporter goes on, and there is a candidate, only with the evidence. *)
ReporterInv ==
    /\ \A r \in Reporter :
          /\ rp[r].ok => evidence = "SUPPORTING"
          /\ rp[r].pc \notin {"new", "done", "dead", "admit", "ensure"} => rp[r].ok
    /\ cand # "NONE" => evidence = "SUPPORTING"

(* What is written once is ahead of what a stale set_state may take back: the
   candidate is as it was verified or VERIFYING again, the proposal has its
   chain, and the approval says what the one review says. *)
ChainInv ==
    /\ verif.outcome # "NONE" => cand \in {verif.outcome, "VERIFYING"}
    /\ \A r \in Reporter : rp[r].pc = "setVerifying" => cand # "NONE"
    /\ ProposalHasChain
    /\ approval # "NONE" => approval = review
    /\ finding <=> approval = "APPROVE"
    /\ prop \in {"NONE", "PROPOSED"} => review = "NONE"
    /\ prop = "NONE" => readers = {}

IInv ==
    /\ TypeOK /\ OriginalInv /\ MineInv /\ ObservedIsSettled /\ AssessedInv
    /\ VerifiedInv /\ ReporterInv /\ ChainInv

----------------------------------------------------------------------------
(* The gates. *)

(***************************************************************************)
(* Evidence is admitted from an observation of a usable execution, and     *)
(* says what the assessment says.                                          *)
(***************************************************************************)
LEMMA AdmittedFacts ==
    ASSUME NEW c
    PROVE  /\ AdmittedEvidence(c) \in {"NONE", "SUPPORTING", "CONTRADICTING"}
           /\ AdmittedEvidence(c) # "NONE" => c.observed /\ c.worker # "FAILED"
           /\ AdmittedEvidence(c) = "SUPPORTING" => c.outcome = "CONSISTENT"
           /\ AdmittedEvidence(c) = "CONTRADICTING" => c.outcome = "CONTRADICTS"
  BY DEF AdmittedEvidence, ProposalFor, admit_evidence, execution_unusable, Proposable,
         propose_diagnostic_echo_evidence, propose_authorization_differential_evidence,
         propose_state_transition_evidence, NoProposal, AdmitDiagnostic, Strategy, Http,
         _admit_http_authorization_evidence, _admit_state_transition_evidence

(***************************************************************************)
(* The verdict of the verifier on reproduction r: validated on supporting  *)
(* evidence with its negative controls, rejected on a contradiction.       *)
(***************************************************************************)
LEMMA VerdictFacts ==
    ASSUME NEW c, NEW class
    PROVE  LET o == evaluate_verification(class, c) IN
           /\ o \in ClosedCandidate
           /\ o = "VALIDATED" => /\ c.reproduction # NoRef /\ c.reproduction.held
                                 /\ c.reproduction.polarity = "SUPPORTING"
           /\ o = "REJECTED" => \/ c.outcome = "CONTRADICTS"
                                \/ /\ c.reproduction # NoRef
                                   /\ c.reproduction.polarity = "CONTRADICTING"
  BY DEF evaluate_verification, evaluate_diagnostic_verification, ClosedCandidate,
         evaluate_authorization_differential_verification,
         evaluate_state_transition_verification

----------------------------------------------------------------------------
(* The steps of an advancer: what it remembers then. *)

AdStatus == {"none", "claimed", "scientific", "operational", "fresh"}

AdType == [Advancer -> [pc : Steps, run : Run, mine : Nat, status : AdStatus]]

OnlyMine(p) == \A q \in Advancer \ {p} : ad'[q] = ad[q]

LEMMA MoveFacts ==
    ASSUME ad \in AdType, NEW p \in Advancer, NEW c \in Steps, Move(p, c)
    PROVE  /\ ad' \in AdType /\ OnlyMine(p)
           /\ ad'[p].pc = c /\ ad'[p].run = ad[p].run /\ ad'[p].mine = ad[p].mine
  BY DEF AdType, OnlyMine, Move

LEMMA ToFacts ==
    ASSUME ad \in AdType, NEW p \in Advancer, NEW c \in Steps, NEW t \in AdStatus,
           ad' = [ad EXCEPT ![p].pc = c, ![p].status = t]
    PROVE  /\ ad' \in AdType /\ OnlyMine(p)
           /\ ad'[p].pc = c /\ ad'[p].run = ad[p].run /\ ad'[p].mine = ad[p].mine
  BY DEF AdType, OnlyMine

LEMMA StatusFacts ==
    ASSUME ad \in AdType, NEW p \in Advancer, NEW t \in {"evaluate", "operational"},
           Status(p, t)
    PROVE  /\ ad' \in AdType /\ OnlyMine(p)
           /\ ad'[p].pc = (IF t = "evaluate" THEN "evaluate" ELSE "reload")
           /\ ad'[p].run = ad[p].run /\ ad'[p].mine = ad[p].mine
<1> "evaluate" \in Steps /\ "reload" \in Steps
  BY DEF Steps
<1> "scientific" \in AdStatus /\ "operational" \in AdStatus
  BY DEF AdStatus
<1> QED
  BY ToFacts DEF Status

LEMMA WithFacts ==
    ASSUME ad \in AdType, NEW p \in Advancer, NEW c \in Steps, NEW u \in Run, With(p, c, u)
    PROVE  /\ ad' \in AdType /\ OnlyMine(p)
           /\ ad'[p].pc = c /\ ad'[p].run = u
  BY DEF AdType, OnlyMine, With

LEMMA NoRunType == NoRun \in Run
  BY BoundAssumption DEF NoRun, Run, Stage

LEMMA FinishFacts ==
    ASSUME ad \in AdType, NEW p \in Advancer, Finish(p)
    PROVE  ad' \in AdType /\ OnlyMine(p) /\ ad'[p].pc = "done"
<1> DEFINE l == [AdvancerNew EXCEPT !.pc = "done"]
<1>1. l \in [pc : Steps, run : Run, mine : Nat, status : AdStatus] /\ l.pc = "done"
  BY NoRunType DEF AdvancerNew, Steps, AdStatus
<1> HIDE DEF l
<1>2. ad' = [ad EXCEPT ![p] = l]
  BY DEF Finish, l
<1> QED
  BY <1>1, <1>2 DEF AdType, OnlyMine

----------------------------------------------------------------------------
(* The steps of an advancer: what the reproductions are then. *)

(* Only an attempt of its own, or one in flight, is changed. *)
KeepsAttempts(p) ==
    \A r \in Rep :
        /\ Len(rep'[r].attempts) >= Len(rep[r].attempts)
        /\ \A i \in 1 .. Len(rep[r].attempts) :
              \/ rep'[r].attempts[i] = rep[r].attempts[i]
              \/ Owns(p, r, i) \/ rep[r].attempts[i] = "DISPATCHING"

(* It has the reproduction and the attempt it is at, and got the attempt by
   inserting it. *)
Holds(p) ==
    LET l == ad'[p] IN
    /\ l.pc \in AtReproduction => l.run.repro # 0
    /\ l.pc \in AtAttempt =>
          /\ l.mine \in 1 .. Len(rep'[l.run.repro].attempts)
          /\ Owns(p, l.run.repro, l.mine) \/ l.mine > Len(rep[l.run.repro].attempts)
    /\ l.pc = "ingest" => rep'[l.run.repro].attempts[l.mine] = "COMPLETED"

(* It observes only what is settled. *)
Observes ==
    \A r \in Rep :
        rep'[r].observed => \/ rep[r].observed
                            \/ \E i \in 1 .. Len(rep'[r].attempts) : Settled(r, i)'

(* Evidence stays. *)
KeepsEvidence == \A r \in Rep : rep[r].ev # "NONE" => rep'[r].ev = rep[r].ev

Effect(p) ==
    /\ ad' \in AdType /\ OnlyMine(p) /\ rep' \in [Rep -> Reproduction]
    /\ KeepsAttempts(p) /\ Holds(p) /\ Observes /\ KeepsEvidence /\ AssessedInv'

(* A step with such an effect keeps the attempts apart and settled. *)
LEMMA EffectKeeps ==
    ASSUME IInv, NEW p \in Advancer, Effect(p)
    PROVE  MineInv' /\ ObservedIsSettled'
<1> USE DEF Effect
<1>1. /\ ad \in AdType /\ rep \in [Rep -> Reproduction]
      /\ \A q \in Advancer : q # p => ad'[q] = ad[q]
  BY DEF IInv, TypeOK, AdType, AdStatus, OnlyMine
<1>2. \A q \in Advancer : ad[q].run.repro \in Nat /\ ad'[q].run.repro \in Nat
                          /\ ad[q].run.repro \in 0 .. MaxRep /\ ad'[q].run.repro \in 0 .. MaxRep
                          /\ ad[q].mine \in Nat /\ ad'[q].mine \in Nat
  BY <1>1, BoundAssumption DEF AdType, Run
<1>3. \A r \in Rep : Len(rep[r].attempts) \in Nat /\ Len(rep'[r].attempts) \in Nat
  BY <1>1, LenProperties DEF Reproduction
<1>4. \A q \in Advancer : /\ ad[q].pc \in AtAttempt => ad[q].run.repro \in Rep
                          /\ ad'[q].pc \in AtAttempt => ad'[q].run.repro \in Rep
  <2>1. AtAttempt \subseteq AtReproduction
    BY DEF AtAttempt, AtReproduction
  <2>2. \A q \in Advancer : /\ ad[q].pc \in AtAttempt => ad[q].run.repro # 0
                            /\ ad'[q].pc \in AtAttempt => ad'[q].run.repro # 0
    BY <1>1, <2>1 DEF IInv, MineInv, Holds
  <2> QED
    BY <1>2, <2>2, BoundAssumption DEF Rep
(* an attempt of q's, or a settled one, is not changed by p *)
<1>5. ASSUME NEW q \in Advancer, q # p, ad[q].pc \in AtAttempt
      PROVE  /\ ad[q].mine \in 1 .. Len(rep'[ad[q].run.repro].attempts)
             /\ ~Owns(p, ad[q].run.repro, ad[q].mine)
             /\ ad[q].pc = "ingest" => rep'[ad[q].run.repro].attempts[ad[q].mine] = "COMPLETED"
  <2>1. ad[q].run.repro \in Rep /\ ad[q].mine \in 1 .. Len(rep[ad[q].run.repro].attempts)
    BY <1>4, <1>5 DEF IInv, MineInv
  <2>2. ~Owns(p, ad[q].run.repro, ad[q].mine)
    BY <1>5 DEF IInv, MineInv
  <2>3. ad[q].mine \in 1 .. Len(rep'[ad[q].run.repro].attempts)
    BY <1>3, <2>1 DEF KeepsAttempts
  <2>4. ad[q].pc = "ingest" => rep'[ad[q].run.repro].attempts[ad[q].mine] = "COMPLETED"
    BY <2>1, <2>2 DEF IInv, MineInv, KeepsAttempts
  <2> QED
    BY <2>2, <2>3, <2>4
<1>6. ASSUME NEW q \in Advancer, q # p, ad[q].pc \in AtAttempt, ad'[p].pc \in AtAttempt,
             ad'[p].run.repro = ad[q].run.repro
      PROVE  ad'[p].mine # ad[q].mine
  <2>1. CASE Owns(p, ad'[p].run.repro, ad'[p].mine)
    BY <1>5, <1>6, <2>1
  <2>2. CASE ad'[p].mine > Len(rep[ad'[p].run.repro].attempts)
    <3>1. ad[q].mine \in 1 .. Len(rep[ad[q].run.repro].attempts) /\ ad[q].run.repro \in Rep
      BY <1>4, <1>6 DEF IInv, MineInv
    <3> QED
      BY <1>2, <1>3, <1>6, <2>2, <3>1
  <2> QED
    BY <1>6, <2>1, <2>2 DEF Holds
<1>7. MineInv'
  <2>1. ASSUME NEW q \in Advancer
        PROVE  /\ ad'[q].pc \in AtReproduction => ad'[q].run.repro # 0
               /\ ad'[q].pc \in AtAttempt => ad'[q].mine \in 1 .. Len(rep'[ad'[q].run.repro].attempts)
               /\ ad'[q].pc = "ingest" => rep'[ad'[q].run.repro].attempts[ad'[q].mine] = "COMPLETED"
    <3>1. CASE q = p
      BY <3>1 DEF Holds
    <3>2. CASE q # p
      BY <1>1, <1>5, <3>2 DEF IInv, MineInv, AtAttempt
    <3> QED
      BY <3>1, <3>2
  <2>2. ASSUME NEW q \in Advancer, NEW t \in Advancer, q # t, ad'[q].pc \in AtAttempt
        PROVE  ~(/\ ad'[t].pc \in AtAttempt /\ ad'[t].run.repro = ad'[q].run.repro
                 /\ ad'[t].mine = ad'[q].mine)
    <3>1. CASE q = p
      BY <1>1, <1>6, <2>2, <3>1 DEF Owns
    <3>2. CASE t = p
      BY <1>1, <1>6, <2>2, <3>2 DEF Owns
    <3>3. CASE q # p /\ t # p
      BY <1>1, <2>2, <3>3 DEF Owns, IInv, MineInv
    <3> QED
      BY <3>1, <3>2, <3>3
  <2> QED
    BY <2>1, <2>2 DEF MineInv, Owns
<1>8. ObservedIsSettled'
  <2> SUFFICES ASSUME NEW r \in Rep, rep[r].observed
               PROVE  \E i \in 1 .. Len(rep'[r].attempts) : Settled(r, i)'
    BY DEF Observes, ObservedIsSettled
  <2>1. PICK i \in 1 .. Len(rep[r].attempts) : Settled(r, i)
    BY DEF IInv, ObservedIsSettled
  <2>2. i \in 1 .. Len(rep'[r].attempts) /\ rep'[r].attempts[i] = "COMPLETED"
    BY <1>3, <2>1 DEF KeepsAttempts, Settled
  <2>3. ASSUME NEW q \in Advancer PROVE ~Owns(q, r, i)'
    <3>1. CASE q # p
      BY <1>1, <2>1, <3>1 DEF Settled, Owns
    <3>2. CASE q = p
      BY <1>2, <1>3, <2>1, <3>2 DEF Settled, Owns, Holds
    <3> QED
      BY <3>1, <3>2
  <2> QED
    BY <2>2, <2>3 DEF Settled
<1> QED
  BY <1>7, <1>8

(* A step that leaves the reproductions alone and has no attempt after it. *)
LEMMA QuietEffect ==
    ASSUME IInv, NEW p \in Advancer, UNCHANGED <<rep, answer>>,
           ad' \in AdType, OnlyMine(p), ad'[p].pc \notin AtAttempt,
           ad'[p].pc \in AtReproduction => ad'[p].run.repro # 0
    PROVE  Effect(p)
<1>1. rep \in [Rep -> Reproduction]
  BY DEF IInv, TypeOK
<1>2. \A r \in Rep : Len(rep[r].attempts) \in Nat
  BY <1>1, LenProperties DEF Reproduction
<1>3. KeepsAttempts(p)
  BY <1>2 DEF KeepsAttempts
<1>4. Holds(p)
  BY DEF Holds, AtAttempt
<1>5. AssessedInv'
  BY DEF IInv, AssessedInv
<1> QED
  BY <1>1, <1>3, <1>4, <1>5 DEF Effect, Observes, KeepsEvidence

(* Fields of one reproduction but its attempts are set. *)
LEMMA FieldEffect ==
    ASSUME IInv, NEW p \in Advancer, NEW r \in Rep, NEW x \in Reproduction,
           rep' = [rep EXCEPT ![r] = x],
           x.attempts = rep[r].attempts, x.observed = rep[r].observed,
           rep[r].ev # "NONE" => x.ev = rep[r].ev, AssessedInv',
           ad' \in AdType, OnlyMine(p), ad'[p].pc \notin AtAttempt,
           ad'[p].pc \in AtReproduction => ad'[p].run.repro # 0
    PROVE  Effect(p)
<1>1. rep \in [Rep -> Reproduction]
  BY DEF IInv, TypeOK
<1>2. rep' \in [Rep -> Reproduction] /\ rep'[r] = x /\ \A s \in Rep \ {r} : rep'[s] = rep[s]
  BY <1>1
<1>3. \A s \in Rep : /\ Len(rep[s].attempts) \in Nat /\ rep'[s].attempts = rep[s].attempts
                     /\ rep'[s].observed = rep[s].observed
                     /\ rep[s].ev # "NONE" => rep'[s].ev = rep[s].ev
  BY <1>1, <1>2, LenProperties DEF Reproduction
<1>4. KeepsAttempts(p)
  BY <1>3 DEF KeepsAttempts
<1>5. Holds(p)
  BY DEF Holds, AtAttempt
<1>6. Observes /\ KeepsEvidence
  BY <1>3 DEF Observes, KeepsEvidence
<1> QED
  BY <1>2, <1>4, <1>5, <1>6 DEF Effect

(* One attempt of a reproduction, and with it its state, is set. *)
LEMMA SetAttempt ==
    ASSUME rep \in [Rep -> Reproduction], NEW r \in Rep,
           NEW m \in 1 .. Len(rep[r].attempts), NEW a \in AttemptState,
           NEW x \in ExperimentState \cup {"NONE"},
           rep' = [rep EXCEPT ![r].attempts[m] = a, ![r].state = x]
    PROVE  /\ rep' \in [Rep -> Reproduction]
           /\ \A s \in Rep :
                /\ Len(rep'[s].attempts) = Len(rep[s].attempts)
                /\ \A i \in 1 .. Len(rep[s].attempts) :
                      rep'[s].attempts[i] = IF s = r /\ i = m THEN a ELSE rep[s].attempts[i]
                /\ rep'[s].observed = rep[s].observed /\ rep'[s].ev = rep[s].ev
                /\ rep'[s].assessed = rep[s].assessed
<1> DEFINE t == [rep[r].attempts EXCEPT ![m] = a]
           y == [rep[r] EXCEPT !.attempts = t, !.state = x]
<1>1. rep[r] \in Reproduction /\ rep[r].attempts \in Seq(AttemptState)
  BY DEF Reproduction
<1>2. /\ t \in Seq(AttemptState) /\ Len(t) = Len(rep[r].attempts)
      /\ \A i \in 1 .. Len(rep[r].attempts) : t[i] = IF i = m THEN a ELSE rep[r].attempts[i]
  BY <1>1, ExceptSeq
<1>3. /\ rep'[r] = y /\ \A s \in Rep \ {r} : rep'[s] = rep[s]
      /\ DOMAIN rep' = Rep /\ rep' = [rep EXCEPT ![r] = y]
  OBVIOUS
<1> HIDE DEF t
<1>4. y \in Reproduction
  BY <1>1, <1>2 DEF Reproduction
<1>5. /\ y.attempts = t /\ y.observed = rep[r].observed /\ y.ev = rep[r].ev
      /\ y.assessed = rep[r].assessed
  BY <1>1 DEF Reproduction
<1> HIDE DEF y
<1>6. rep' \in [Rep -> Reproduction]
  BY <1>3, <1>4
<1> QED
  BY <1>2, <1>3, <1>5, <1>6

(* The effect of setting an attempt that is one's own, or in flight. *)
LEMMA AttemptEffect ==
    ASSUME IInv, NEW p \in Advancer, NEW r \in Rep, UNCHANGED answer,
           NEW m \in 1 .. Len(rep[r].attempts), NEW a \in AttemptState,
           NEW x \in ExperimentState \cup {"NONE"},
           rep' = [rep EXCEPT ![r].attempts[m] = a, ![r].state = x],
           Owns(p, r, m) \/ rep[r].attempts[m] = "DISPATCHING",
           ad' \in AdType, OnlyMine(p),
           ad'[p].run.repro = r /\ r # 0,
           ad'[p].pc \in AtAttempt => Owns(p, r, m) /\ ad'[p].mine = m,
           ad'[p].pc = "ingest" => a = "COMPLETED"
    PROVE  Effect(p)
<1>1. rep \in [Rep -> Reproduction]
  BY DEF IInv, TypeOK
<1>2. \A s \in Rep : Len(rep[s].attempts) \in Nat
  BY <1>1, LenProperties DEF Reproduction
<1>3. /\ rep' \in [Rep -> Reproduction]
      /\ \A s \in Rep :
           /\ Len(rep'[s].attempts) = Len(rep[s].attempts)
           /\ \A i \in 1 .. Len(rep[s].attempts) :
                 rep'[s].attempts[i] = IF s = r /\ i = m THEN a ELSE rep[s].attempts[i]
           /\ rep'[s].observed = rep[s].observed /\ rep'[s].ev = rep[s].ev
           /\ rep'[s].assessed = rep[s].assessed
  BY ONLY <1>1, SetAttempt, Zenon, rep' = [rep EXCEPT ![r].attempts[m] = a, ![r].state = x]
<1>4. KeepsAttempts(p)
  BY <1>2, <1>3 DEF KeepsAttempts
<1>5. Holds(p)
  <2>1. m \in 1 .. Len(rep'[r].attempts) /\ rep'[r].attempts[m] = a
    BY <1>2, <1>3
  <2> QED
    BY <2>1 DEF Holds, AtAttempt
<1>6. AssessedInv'
  BY <1>3 DEF IInv, AssessedInv
<1>7. Observes /\ KeepsEvidence
  BY <1>3 DEF Observes, KeepsEvidence
<1> QED
  BY <1>3, <1>4, <1>5, <1>6, <1>7 DEF Effect

(* The reproduction in hand. *)
LEMMA InHand ==
    ASSUME IInv, NEW p \in Advancer, ad[p].pc \in AtReproduction
    PROVE  ad[p].run.repro \in Rep /\ ad[p].run.repro # 0
<1>1. ad[p].run.repro \in 0 .. MaxRep
  BY DEF IInv, TypeOK, Run
<1> QED
  BY <1>1, BoundAssumption DEF IInv, MineInv, Rep

LEMMA IInvTypes ==
    ASSUME IInv
    PROVE  /\ ad \in AdType /\ rep \in [Rep -> Reproduction] /\ prun \in Run
           /\ \A p \in Advancer : ad[p].run \in Run
  BY DEF IInv, TypeOK, AdType, AdStatus

(* The steps that do not touch a reproduction. *)
LEMMA QuietSteps ==
    ASSUME IInv, NEW p \in Advancer,
           \/ Advance(p) \/ Check(p) \/ Claim(p) \/ Claimed(p) \/ Exec(p) \/ Authorize(p)
           \/ Reload(p) \/ SaveStopped(p) \/ SaveExecuted(p) \/ CompleteVerification(p)
           \/ SaveVerified(p) \/ Submit(p) \/ SaveProposal(p) \/ SaveRefused(p)
           \/ CrashAdvancer(p)
    PROVE  Effect(p)
<1> USE IInvTypes
<1> SUFFICES /\ UNCHANGED <<rep, answer>> /\ ad' \in AdType /\ OnlyMine(p)
             /\ ad'[p].pc \notin AtAttempt
             /\ ad'[p].pc \in AtReproduction => ad'[p].run.repro # 0
  BY QuietEffect
<1> USE DEF Kept, Given, AtAttempt
<1>0. \A c \in {"check", "saveVerified", "claim", "exec", "stop", "admit", "claimed",
               "reload", "prepare", "evaluate", "insert", "saveExecuted", "done",
               "complete", "submit", "saveProposal", "saveRefused"} : c \in Steps
  BY DEF Steps
<1>1. CASE Advance(p)
  BY <1>0, <1>1, WithFacts DEF Advance, AtReproduction
<1>2. CASE Check(p)
  <2>1. PICK c \in {"saveVerified", "claim", "exec", "stop", "admit"} :
            Move(p, c) /\ (c = "admit" => ad[p].run.repro # 0)
    BY <1>2 DEF Check
  <2> QED
    BY <1>0, <1>2, <2>1, MoveFacts DEF Check, AtReproduction
<1>3. CASE Claim(p)
  <2>1. PICK t \in {"claimed", "none"} : ad' = [ad EXCEPT ![p].pc = "claimed", ![p].status = t]
    BY <1>3 DEF Claim
  <2>2. t \in AdStatus
    BY DEF AdStatus
  <2> QED
    BY <1>0, <1>3, <2>1, <2>2, ToFacts DEF Claim, AtReproduction
<1>4. CASE Claimed(p)
  <2>1. CASE Finish(p)
    BY <1>4, <2>1, FinishFacts DEF Claimed, AtReproduction
  <2>2. CASE With(p, "exec", prun) \/ With(p, "check", prun)
    BY <1>0, <1>4, <2>2, WithFacts DEF Claimed, AtReproduction
  <2> QED
    BY <1>4, <2>1, <2>2 DEF Claimed
<1>5. CASE Exec(p)
  <2>1. CASE Move(p, "prepare") /\ ad[p].run.repro # 0
    BY <1>0, <1>5, <2>1, MoveFacts DEF Exec
  <2>2. CASE ~(Move(p, "prepare") /\ ad[p].run.repro # 0)
    <3>1. PICK t \in {"none", "scientific"} : ad' = [ad EXCEPT ![p].pc = "reload", ![p].status = t]
      BY <1>5, <2>2 DEF Exec
    <3>2. t \in AdStatus
      BY DEF AdStatus
    <3> QED
      BY <1>0, <1>5, <3>1, <3>2, ToFacts DEF Exec, AtReproduction
  <2> QED
    BY <2>1, <2>2
<1>6. CASE Authorize(p)
  <2>1. ad[p].run.repro # 0
    BY <1>6, InHand DEF Authorize, AtReproduction
  <2>2. CASE Move(p, "insert")
    BY <1>0, <1>6, <2>1, <2>2, MoveFacts DEF Authorize
  <2>3. CASE \E t \in {"evaluate", "operational"} : Status(p, t)
    BY <1>6, <2>1, <2>3, StatusFacts DEF Authorize
  <2> QED
    BY <1>6, <2>2, <2>3 DEF Authorize, OutcomeForExisting
<1>7. CASE Reload(p)
  BY <1>0, <1>7, WithFacts DEF Reload, AtReproduction
<1>8. CASE CompleteVerification(p)
  <2>1. CASE Finish(p)
    BY <1>8, <2>1, FinishFacts DEF CompleteVerification, AtReproduction
  <2>2. CASE ad' = [ad EXCEPT ![p].pc = "saveVerified", ![p].status = "fresh"]
    <3>1. "fresh" \in AdStatus
      BY DEF AdStatus
    <3> QED
      BY <1>0, <1>8, <2>2, <3>1, ToFacts DEF CompleteVerification, AtReproduction
  <2> QED
    BY <1>8, <2>1, <2>2 DEF CompleteVerification
<1>9. CASE Submit(p)
  <2>1. CASE Finish(p)
    BY <1>9, <2>1, FinishFacts DEF Submit, AtReproduction
  <2>2. CASE Move(p, "saveProposal") \/ Move(p, "saveRefused")
    BY <1>0, <1>9, <2>2, MoveFacts DEF Submit, AtReproduction
  <2> QED
    BY <1>9, <2>1, <2>2 DEF Submit
<1>10. CASE CrashAdvancer(p)
  BY <1>10, FinishFacts DEF CrashAdvancer, AtReproduction
<1>11. CASE \/ SaveStopped(p) \/ SaveExecuted(p) \/ SaveVerified(p) \/ SaveProposal(p)
            \/ SaveRefused(p)
  <2>1. PICK from \in Steps, to \in {"done", "stop", "admit", "submit"}, run \in Run :
            /\ AdvancerSave(p, from, to, run)
            /\ to = "admit" => run.repro # 0
    <3>1. CASE SaveStopped(p)
      BY <3>1 DEF SaveStopped, Run, Stage, Steps
    <3>2. CASE SaveExecuted(p)
      BY <3>2 DEF SaveExecuted, Run, Stage, Steps
    <3>3. CASE SaveVerified(p)
      <4>1. [ad[p].run EXCEPT !.stage = IF ad[p].run.prop /\ ad[p].status # "fresh"
                                        THEN @ ELSE "VERIFIED", !.verif = TRUE] \in Run
        BY DEF Run, Stage
      <4> QED
        BY <3>3, <4>1 DEF SaveVerified, Steps
    <3>4. CASE SaveProposal(p)
      BY <3>4 DEF SaveProposal, Run, Stage, Steps
    <3>5. CASE SaveRefused(p)
      BY <3>5 DEF SaveRefused, Run, Stage, Steps
    <3> QED
      BY <1>11, <3>1, <3>2, <3>3, <3>4, <3>5
  <2>2. CASE to = "done"
    BY <2>1, <2>2, FinishFacts DEF AdvancerSave, AtReproduction
  <2>3. CASE to # "done"
    BY <1>0, <2>1, <2>3, WithFacts DEF AdvancerSave, AtReproduction
  <2> QED
    BY <2>2, <2>3
<1> QED
  BY <1>1, <1>2, <1>3, <1>4, <1>5, <1>6, <1>7, <1>8, <1>9, <1>10, <1>11

(* The steps that set other fields of the reproduction than its attempts. *)
LEMMA PrepareEffect ==
    ASSUME IInv, NEW p \in Advancer, Prepare(p)
    PROVE  Effect(p)
<1> DEFINE r == ad[p].run.repro
           x == [rep[r] EXCEPT !.state = IF @ = "NONE" THEN "PLANNED" ELSE @]
<1>1. r \in Rep /\ r # 0
  BY InHand DEF Prepare, AtReproduction
<1>2. rep[r] \in Reproduction
  BY <1>1, IInvTypes
<1>3. /\ x \in Reproduction /\ x.attempts = rep[r].attempts /\ x.observed = rep[r].observed
      /\ x.ev = rep[r].ev /\ x.assessed = rep[r].assessed
  BY <1>2 DEF Reproduction, ExperimentState
<1>4. rep' = [rep EXCEPT ![r] = x] /\ UNCHANGED answer /\ Move(p, "execute")
  BY DEF Prepare, Kept, Given
<1> HIDE DEF x
<1>5. \A s \in Rep : rep'[s] = IF s = r THEN x ELSE rep[s]
  BY <1>1, <1>4, IInvTypes
<1>6. AssessedInv'
  BY <1>3, <1>4, <1>5 DEF IInv, AssessedInv
<1>7. /\ ad' \in AdType /\ OnlyMine(p) /\ ad'[p].pc = "execute" /\ ad'[p].run.repro = r
  BY <1>4, IInvTypes, MoveFacts DEF Steps
<1> QED
  BY <1>1, <1>3, <1>4, <1>6, <1>7, FieldEffect DEF AtAttempt

LEMMA EvaluateEffect ==
    ASSUME IInv, NEW p \in Advancer, Evaluate(p)
    PROVE  Effect(p)
<1> DEFINE r == ad[p].run.repro
           x == [rep[r] EXCEPT !.assessed = IF @ = "NONE" THEN Assess(rep[r]) ELSE @]
<1>1. r \in Rep /\ r # 0
  BY InHand DEF Evaluate, AtReproduction
<1>2. rep[r] \in Reproduction
  BY <1>1, IInvTypes
<1>3. /\ Assess(rep[r]) \in Outcome
      /\ Assess(rep[r]) = "CONSISTENT" => answer # "contradicts"
      /\ Assess(rep[r]) = "CONTRADICTS" => answer = "contradicts"
  BY DEF Assess, Outcome
<1>4. /\ x \in Reproduction /\ x.attempts = rep[r].attempts /\ x.observed = rep[r].observed
      /\ x.ev = rep[r].ev
      /\ x.assessed = IF rep[r].assessed = "NONE" THEN Assess(rep[r]) ELSE rep[r].assessed
  BY <1>2, <1>3 DEF Reproduction
<1>5. rep' = [rep EXCEPT ![r] = x] /\ UNCHANGED answer /\ Move(p, "reload")
  BY DEF Evaluate, Kept, Given
<1> HIDE DEF x
<1>6. \A s \in Rep : rep'[s] = IF s = r THEN x ELSE rep[s]
  BY <1>1, <1>5, IInvTypes
<1>7. AssessedInv'
  BY <1>3, <1>4, <1>5, <1>6 DEF IInv, AssessedInv
<1>8. /\ ad' \in AdType /\ OnlyMine(p) /\ ad'[p].pc = "reload"
  BY <1>5, IInvTypes, MoveFacts DEF Steps
<1> QED
  BY <1>1, <1>4, <1>5, <1>7, <1>8, FieldEffect DEF AtAttempt, AtReproduction

LEMMA AdmitReproductionEffect ==
    ASSUME IInv, NEW p \in Advancer, AdmitReproduction(p)
    PROVE  Effect(p)
<1> DEFINE r == ad[p].run.repro
           e == AdmittedEvidence(RepContext(rep[r]))
           x == [rep[r] EXCEPT !.ev = IF @ = "NONE" /\ rep[r].state # "NONE" THEN e ELSE @]
<1>1. r \in Rep /\ r # 0
  BY InHand DEF AdmitReproduction, AtReproduction
<1>2. rep[r] \in Reproduction
  BY <1>1, IInvTypes
<1>3. RepContext(rep[r]).outcome = rep[r].assessed /\ RepContext(rep[r]).observed = rep[r].observed
  BY DEF RepContext
<1>4. /\ e \in {"NONE", "SUPPORTING", "CONTRADICTING"}
      /\ e # "NONE" => rep[r].observed
      /\ e = "SUPPORTING" => rep[r].assessed = "CONSISTENT"
      /\ e = "CONTRADICTING" => rep[r].assessed = "CONTRADICTS"
  BY <1>3, AdmittedFacts
<1>5. rep' = [rep EXCEPT ![r] = x] /\ UNCHANGED answer /\ Move(p, "complete")
  BY DEF AdmitReproduction, Kept, Given
<1> HIDE DEF e
<1>6. /\ x \in Reproduction /\ x.attempts = rep[r].attempts /\ x.observed = rep[r].observed
      /\ x.assessed = rep[r].assessed
      /\ x.ev = IF rep[r].ev = "NONE" /\ rep[r].state # "NONE" THEN e ELSE rep[r].ev
  BY <1>2, <1>4 DEF Reproduction
<1> HIDE DEF x
<1>7. \A s \in Rep : rep'[s] = IF s = r THEN x ELSE rep[s]
  BY <1>1, <1>5, IInvTypes
<1>8. AssessedInv'
  BY <1>4, <1>5, <1>6, <1>7 DEF IInv, AssessedInv
<1>9. /\ ad' \in AdType /\ OnlyMine(p) /\ ad'[p].pc = "complete" /\ ad'[p].run.repro = r
  BY <1>5, IInvTypes, MoveFacts DEF Steps
<1> QED
  BY <1>1, <1>5, <1>6, <1>8, <1>9, FieldEffect DEF AtAttempt

(* The attempt that is inserted is nobody's yet. *)
LEMMA InsertAttemptEffect ==
    ASSUME IInv, NEW p \in Advancer, InsertAttempt(p)
    PROVE  Effect(p)
<1> DEFINE r == ad[p].run.repro
           n == Len(rep[r].attempts) + 1
<1>1. r \in Rep /\ r # 0
  BY InHand DEF InsertAttempt, AtReproduction
<1>2. rep[r] \in Reproduction /\ rep[r].attempts \in Seq(AttemptState) /\ n \in Nat
  BY <1>1, IInvTypes, LenProperties DEF Reproduction
<1>3. ad \in AdType /\ rep \in [Rep -> Reproduction] /\ UNCHANGED answer
  BY IInvTypes DEF InsertAttempt, Kept, Given
<1>4. ASSUME rep' = [rep EXCEPT ![r].attempts = Append(@, "AUTHORIZED"), ![r].state = "READY"],
             ad' = [ad EXCEPT ![p].pc = "dispatch", ![p].mine = n]
      PROVE  Effect(p)
  <2> DEFINE t == Append(rep[r].attempts, "AUTHORIZED")
             x == [rep[r] EXCEPT !.attempts = t, !.state = "READY"]
  <2>1. /\ t \in Seq(AttemptState) /\ Len(t) = n
        /\ \A i \in 1 .. Len(rep[r].attempts) : t[i] = rep[r].attempts[i]
    BY <1>2, AppendProperties DEF AttemptState
  <2>2. rep' = [rep EXCEPT ![r] = x]
    BY <1>4
  <2> HIDE DEF t
  <2>3. /\ x \in Reproduction /\ x.attempts = t /\ x.observed = rep[r].observed
        /\ x.assessed = rep[r].assessed /\ x.ev = rep[r].ev
    BY <1>2, <2>1 DEF Reproduction, ExperimentState
  <2> HIDE DEF x
  <2>4. rep' \in [Rep -> Reproduction] /\ \A s \in Rep : rep'[s] = IF s = r THEN x ELSE rep[s]
    BY <1>1, <1>3, <2>2, <2>3
  <2>5. \A s \in Rep : Len(rep[s].attempts) \in Nat
    BY <1>3, LenProperties DEF Reproduction
  <2>6. KeepsAttempts(p)
    <3>1. ASSUME NEW s \in Rep
          PROVE  /\ Len(rep'[s].attempts) >= Len(rep[s].attempts)
                 /\ \A i \in 1 .. Len(rep[s].attempts) :
                       rep'[s].attempts[i] = rep[s].attempts[i]
      <4>1. CASE s = r
        <5>1. rep'[s].attempts = t /\ Len(rep[s].attempts) \in Nat
          BY <2>3, <2>4, <2>5, <4>1
        <5>2. Len(t) = Len(rep[s].attempts) + 1
          BY <2>1, <4>1
        <5>3. Len(rep'[s].attempts) >= Len(rep[s].attempts)
          BY <5>1, <5>2
        <5> QED
          BY <2>1, <4>1, <5>1, <5>3
      <4>2. CASE s # r
        BY <2>4, <2>5, <4>2
      <4> QED
        BY <4>1, <4>2
    <3> QED
      BY <3>1 DEF KeepsAttempts
  <2>7. /\ ad' \in AdType /\ OnlyMine(p)
        /\ ad'[p].pc = "dispatch" /\ ad'[p].run.repro = r /\ ad'[p].mine = n
    BY <1>2, <1>3, <1>4 DEF AdType, OnlyMine, Steps
  <2>8. Holds(p)
    <3>0. rep'[r].attempts = t /\ Len(rep[r].attempts) \in Nat
      BY <1>1, <2>3, <2>4, <2>5
    <3>1. n \in 1 .. Len(rep'[r].attempts) /\ n > Len(rep[r].attempts)
      <4>1. Len(rep'[r].attempts) = n
        BY <2>1, <3>0
      <4>2. n \in 1 .. n /\ n > Len(rep[r].attempts)
        <5> DEFINE k == Len(rep[r].attempts)
        <5>1. k \in Nat /\ n = k + 1
          BY <3>0
        <5> HIDE DEF k, n
        <5>2. n \in 1 .. n /\ n > k
          BY <5>1
        <5> QED
          BY <5>2 DEF k
      <4> QED
        BY <4>1, <4>2
    <3>2. /\ ad'[p].mine \in 1 .. Len(rep'[ad'[p].run.repro].attempts)
          /\ ad'[p].mine > Len(rep[ad'[p].run.repro].attempts)
      BY <2>7, <3>1
    <3> QED
      BY <1>1, <2>7, <3>2 DEF Holds
  <2>9. AssessedInv' /\ Observes /\ KeepsEvidence
    BY <1>3, <2>3, <2>4 DEF IInv, AssessedInv, Observes, KeepsEvidence
  <2> QED
    BY <2>4, <2>6, <2>7, <2>8, <2>9 DEF Effect
<1>5. ASSUME NEW st \in {"BLOCKED", "AUTHORIZATION_CHECK"}, rep' = [rep EXCEPT ![r].state = st],
             Status(p, "operational")
      PROVE  Effect(p)
  <2> DEFINE x == [rep[r] EXCEPT !.state = st]
  <2>1. rep' = [rep EXCEPT ![r] = x]
    BY <1>5
  <2>2. /\ x \in Reproduction /\ x.attempts = rep[r].attempts /\ x.observed = rep[r].observed
        /\ x.assessed = rep[r].assessed /\ x.ev = rep[r].ev
    BY <1>2 DEF Reproduction, ExperimentState
  <2> HIDE DEF x
  <2>3. \A s \in Rep : rep'[s] = IF s = r THEN x ELSE rep[s]
    BY <1>1, <1>3, <2>1
  <2>4. AssessedInv'
    BY <1>3, <2>2, <2>3 DEF IInv, AssessedInv
  <2>5. ad' \in AdType /\ OnlyMine(p) /\ ad'[p].pc = "reload"
    BY <1>3, <1>5, StatusFacts
  <2> QED
    BY <1>1, <2>1, <2>2, <2>4, <2>5, FieldEffect DEF AtAttempt, AtReproduction
<1> QED
  BY <1>4, <1>5 DEF InsertAttempt

(* The steps that set an attempt: one in flight, or the advancer's own. *)
LEMMA FailClosedEffect ==
    ASSUME IInv, NEW p \in Advancer, FailClosedExisting(p)
    PROVE  Effect(p)
<1> DEFINE r == ad[p].run.repro
<1>1. r \in Rep /\ r # 0
  BY InHand DEF FailClosedExisting, AtReproduction
<1>2. ad \in AdType /\ rep \in [Rep -> Reproduction] /\ UNCHANGED answer
  BY IInvTypes DEF FailClosedExisting, Kept, Given
<1>3. rep[r] \in Reproduction /\ rep[r].attempts \in Seq(AttemptState)
  BY <1>1, <1>2 DEF Reproduction
<1>4. CASE rep' = rep
  <2>1. CASE Move(p, "auth")
    <3>1. ad' \in AdType /\ OnlyMine(p) /\ ad'[p].pc = "auth" /\ ad'[p].run.repro = r
      BY <1>2, <2>1, MoveFacts DEF Steps
    <3> QED
      BY <1>1, <1>2, <1>4, <3>1, QuietEffect DEF AtAttempt
  <2>2. CASE \E t \in {"evaluate", "operational"} : Status(p, t)
    <3>1. /\ ad' \in AdType /\ OnlyMine(p) /\ ad'[p].pc \in {"evaluate", "reload"}
          /\ ad'[p].run.repro = r
      BY <1>2, <2>2, StatusFacts
    <3> QED
      BY <1>1, <1>2, <1>4, <3>1, QuietEffect DEF AtAttempt
  <2>3. CASE rep[r].attempts # <<>> /\ rep[r].attempts[1] = "DISPATCHING"
    BY <1>4, <2>2, <2>3 DEF FailClosedExisting
  <2> QED
    BY <1>4, <2>1, <2>2, <2>3 DEF FailClosedExisting, OutcomeForExisting
<1>5. CASE rep' # rep
  <2>1. /\ rep[r].attempts # <<>> /\ rep[r].attempts[1] = "DISPATCHING"
        /\ rep' = [rep EXCEPT ![r].attempts[1] = "UNKNOWN_OUTCOME"]
        /\ Status(p, "operational")
    BY <1>5 DEF FailClosedExisting
  <2>2. 1 \in 1 .. Len(rep[r].attempts)
    BY <1>3, <2>1, EmptySeq, LenProperties
  <2>3. rep' = [rep EXCEPT ![r].attempts[1] = "UNKNOWN_OUTCOME", ![r].state = rep[r].state]
    BY <1>1, <1>2, <1>3, <2>1 DEF Reproduction
  <2>4. ad' \in AdType /\ OnlyMine(p) /\ ad'[p].pc = "reload" /\ ad'[p].run.repro = r
    BY <1>2, <2>1, StatusFacts
  <2>5. rep[r].state \in ExperimentState \cup {"NONE"} /\ "UNKNOWN_OUTCOME" \in AttemptState
    BY <1>3 DEF Reproduction, AttemptState
  <2>6. /\ ad'[p].pc \in AtAttempt => Owns(p, r, 1) /\ ad'[p].mine = 1
        /\ ad'[p].pc = "ingest" => "UNKNOWN_OUTCOME" = "COMPLETED"
        /\ Owns(p, r, 1) \/ rep[r].attempts[1] = "DISPATCHING"
    BY <2>1, <2>4 DEF AtAttempt
  <2> HIDE DEF r
  <2> QED
    BY <1>1, <1>2, <2>2, <2>3, <2>4, <2>5, <2>6, AttemptEffect, Zenon
<1> QED
  BY <1>4, <1>5

(* The attempt in hand. *)
LEMMA AttemptInHand ==
    ASSUME IInv, NEW p \in Advancer, ad[p].pc \in AtAttempt
    PROVE  /\ ad[p].run.repro \in Rep /\ ad[p].run.repro # 0
           /\ ad[p].mine \in 1 .. Len(rep[ad[p].run.repro].attempts)
           /\ Owns(p, ad[p].run.repro, ad[p].mine)
  BY InHand DEF IInv, MineInv, AtAttempt, AtReproduction, Owns

(* An attempt of one's own is set, and kept or left. *)
LEMMA OwnAttemptEffect ==
    ASSUME IInv, NEW p \in Advancer, ad[p].pc \in AtAttempt, UNCHANGED answer,
           NEW a \in AttemptState, NEW x \in ExperimentState \cup {"NONE"},
           rep' = [rep EXCEPT ![ad[p].run.repro].attempts[ad[p].mine] = a,
                              ![ad[p].run.repro].state = x],
           ad' \in AdType, OnlyMine(p), ad'[p].run = ad[p].run, ad'[p].mine = ad[p].mine,
           ad'[p].pc = "ingest" => a = "COMPLETED"
    PROVE  Effect(p)
<1> DEFINE r == ad[p].run.repro
           m == ad[p].mine
<1>1. r \in Rep /\ r # 0 /\ m \in 1 .. Len(rep[r].attempts) /\ Owns(p, r, m)
  BY AttemptInHand
<1>2. /\ rep' = [rep EXCEPT ![r].attempts[m] = a, ![r].state = x]
      /\ ad'[p].run.repro = r /\ ad'[p].mine = m
  OBVIOUS
<1> HIDE DEF r, m
<1> QED
  BY <1>1, <1>2, AttemptEffect

LEMMA DispatchEffect ==
    ASSUME IInv, NEW p \in Advancer, Dispatch(p)
    PROVE  Effect(p)
<1>1. ad \in AdType /\ UNCHANGED answer /\ ad[p].pc \in AtAttempt /\ ad[p].run.repro # 0
  BY IInvTypes, AttemptInHand DEF Dispatch, Kept, Given, AtAttempt
<1>2. CASE rep' = rep /\ Status(p, "operational")
  <2>1. ad' \in AdType /\ OnlyMine(p) /\ ad'[p].pc = "reload"
    BY <1>1, <1>2, StatusFacts
  <2> QED
    BY <1>1, <1>2, <2>1, QuietEffect DEF AtAttempt, AtReproduction
<1>3. CASE /\ rep' = [rep EXCEPT ![ad[p].run.repro].attempts[ad[p].mine] = "DISPATCHING",
                                 ![ad[p].run.repro].state = "RUNNING"]
           /\ Move(p, "invoke")
  <2>1. "invoke" \in Steps /\ "DISPATCHING" \in AttemptState /\ "RUNNING" \in ExperimentState
    BY DEF Steps, AttemptState, ExperimentState
  <2>2. /\ ad' \in AdType /\ OnlyMine(p) /\ ad'[p].pc = "invoke"
        /\ ad'[p].run = ad[p].run /\ ad'[p].mine = ad[p].mine
    BY <1>1, <1>3, <2>1, MoveFacts
  <2> QED
    BY <1>1, <1>3, <2>1, <2>2, OwnAttemptEffect
<1> QED
  BY <1>2, <1>3 DEF Dispatch

LEMMA RecordOutcomeEffect ==
    ASSUME IInv, NEW p \in Advancer, RecordOutcome(p)
    PROVE  Effect(p)
<1>1. ad \in AdType /\ UNCHANGED answer /\ ad[p].pc \in AtAttempt
  BY IInvTypes DEF RecordOutcome, Kept, Given, AtAttempt
<1>2. PICK a \in {"COMPLETED", "FAILED", "UNKNOWN_OUTCOME"},
           x \in {"SUCCEEDED", "BLOCKED", "AUTHORIZATION_CHECK", "FAILED", "RUNNING"} :
        /\ rep' = [rep EXCEPT ![ad[p].run.repro].attempts[ad[p].mine] = a,
                              ![ad[p].run.repro].state = x]
        /\ (a = "COMPLETED" /\ Move(p, "ingest")) \/ Status(p, "operational")
  BY DEF RecordOutcome
<1>3. a \in AttemptState /\ x \in ExperimentState /\ "ingest" \in Steps
  BY DEF AttemptState, ExperimentState, Steps
<1>4. /\ ad' \in AdType /\ OnlyMine(p)
      /\ ad'[p].pc = "ingest" => a = "COMPLETED"
      /\ ad'[p].run = ad[p].run /\ ad'[p].mine = ad[p].mine
  <2>1. CASE a = "COMPLETED" /\ Move(p, "ingest")
    BY <1>1, <1>3, <2>1, MoveFacts
  <2>2. CASE Status(p, "operational")
    BY <1>1, <2>2, StatusFacts
  <2> QED
    BY <1>2, <2>1, <2>2
<1> QED
  BY <1>1, <1>2, <1>3, <1>4, OwnAttemptEffect

(* What is ingested is observed on an attempt that nobody has any more. *)
LEMMA IngestEffect ==
    ASSUME IInv, NEW p \in Advancer, Ingest(p)
    PROVE  Effect(p)
<1> DEFINE r == ad[p].run.repro
           m == ad[p].mine
<1>1. ad \in AdType /\ rep \in [Rep -> Reproduction] /\ UNCHANGED answer
  BY IInvTypes DEF Ingest, Kept, Given
<1>2. ad[p].pc \in AtAttempt
  BY DEF Ingest, AtAttempt
<1>3. /\ r \in Rep /\ r # 0 /\ m \in 1 .. Len(rep[r].attempts)
      /\ rep[r].attempts[m] = "COMPLETED" /\ rep[r] \in Reproduction
      /\ \A q \in Advancer : q # p => ~Owns(q, r, m)
  BY <1>1, <1>2, AttemptInHand DEF Ingest, IInv, MineInv
<1>4. ASSUME NEW w \in {"OK", "FAILED", "REAUTH"}, NEW o \in BOOLEAN,
             NEW t \in {"evaluate", "operational"}, Status(p, t),
             rep' = [rep EXCEPT ![r].worker = IF @ = "NONE" THEN w ELSE @,
                                ![r].observed = @ \/ o]
      PROVE  Effect(p)
  <2> DEFINE x == [rep[r] EXCEPT !.worker = IF @ = "NONE" THEN w ELSE @,
                                 !.observed = @ \/ o]
  <2>1. rep' = [rep EXCEPT ![r] = x]
    BY <1>4
  <2>2. /\ x \in Reproduction /\ x.attempts = rep[r].attempts
        /\ rep[r].observed => x.observed
        /\ x.assessed = rep[r].assessed /\ x.ev = rep[r].ev
    BY <1>3 DEF Reproduction
  <2> HIDE DEF x
  <2>3. rep' \in [Rep -> Reproduction] /\ \A s \in Rep : rep'[s] = IF s = r THEN x ELSE rep[s]
    BY <1>1, <1>3, <2>1, <2>2
  <2>4. /\ ad' \in AdType /\ OnlyMine(p) /\ ad'[p].pc \in {"evaluate", "reload"}
        /\ ad'[p].run.repro = r
    BY <1>1, <1>4, StatusFacts
  <2>5. \A s \in Rep : Len(rep[s].attempts) \in Nat /\ rep'[s].attempts = rep[s].attempts
    BY <1>1, <2>2, <2>3, LenProperties DEF Reproduction
  <2>6. KeepsAttempts(p)
    BY <2>5 DEF KeepsAttempts
  <2>7. Holds(p)
    BY <1>3, <2>4 DEF Holds, AtAttempt
  <2>8. AssessedInv' /\ KeepsEvidence
    BY <1>1, <2>2, <2>3 DEF IInv, AssessedInv, KeepsEvidence
  <2>9. Observes
    <3>1. PICK y \in Rep, i \in 1 .. Len(rep[r].attempts) : y = r /\ i = m
      BY <1>3
    <3>2. i \in 1 .. Len(rep'[y].attempts) /\ rep'[y].attempts[i] = "COMPLETED"
      BY <1>3, <2>5, <3>1
    <3>3. ASSUME NEW q \in Advancer PROVE ~Owns(q, y, i)'
      <4>1. CASE q = p
        BY <2>4, <4>1 DEF Owns, AtAttempt
      <4>2. CASE q # p
        BY <1>3, <2>4, <3>1, <4>2 DEF Owns, OnlyMine
      <4> QED
        BY <4>1, <4>2
    <3>4. Settled(y, i)'
      BY <3>2, <3>3 DEF Settled
    <3> QED
      BY <2>3, <3>1, <3>2, <3>4 DEF Observes
  <2> QED
    BY <2>3, <2>4, <2>6, <2>7, <2>8, <2>9 DEF Effect
<1>5. ASSUME rep' = [rep EXCEPT ![r].attempts[m] = "FAILED", ![r].state = "FAILED"],
             Status(p, "operational")
      PROVE  Effect(p)
  <2>1. "FAILED" \in AttemptState /\ "FAILED" \in ExperimentState
    BY DEF AttemptState, ExperimentState
  <2>2. /\ ad' \in AdType /\ OnlyMine(p) /\ ad'[p].pc = "reload"
        /\ ad'[p].run = ad[p].run /\ ad'[p].mine = ad[p].mine
    BY <1>1, <1>5, StatusFacts
  <2> QED
    BY <1>1, <1>2, <1>5, <2>1, <2>2, OwnAttemptEffect
<1> QED
  BY <1>4, <1>5 DEF Ingest

(* Every step of an advancer keeps the attempts apart and settled. *)
LEMMA AdvancerEffect ==
    ASSUME IInv, NEW p \in Advancer, Advance(p) \/ Proceed(p) \/ CrashAdvancer(p)
    PROVE  Effect(p)
  BY QuietSteps, PrepareEffect, EvaluateEffect, AdmitReproductionEffect,
     InsertAttemptEffect, FailClosedEffect, DispatchEffect, RecordOutcomeEffect,
     IngestEffect DEF Proceed

----------------------------------------------------------------------------
(* The steps of an advancer: what they make of the claim. *)

LEMMA AdvancerFrame ==
    ASSUME IInv, NEW p \in Advancer, Advance(p) \/ Proceed(p) \/ CrashAdvancer(p)
    PROVE  /\ UNCHANGED <<original, answer, tiers, evidence, human, rp>>
           /\ prun' \in Run /\ crashes' \in 0 .. MaxCrashes
           /\ UNCHANGED <<cand, verif>> \/ CompleteVerification(p)
           /\ UNCHANGED prop \/ Submit(p)
<1> USE IInvTypes DEF Kept, Given, authority
<1>1. crashes \in 0 .. MaxCrashes
  BY DEF IInv, TypeOK
<1>2. CASE Advance(p) \/ Check(p) \/ Claimed(p) \/ Exec(p) \/ Prepare(p) \/ Authorize(p)
  BY <1>1, <1>2 DEF Advance, Check, Claimed, Exec, Prepare, Authorize
<1>3. CASE \/ FailClosedExisting(p) \/ InsertAttempt(p) \/ Dispatch(p) \/ RecordOutcome(p)
           \/ Ingest(p) \/ Evaluate(p) \/ Reload(p) \/ AdmitReproduction(p)
  BY <1>1, <1>3 DEF FailClosedExisting, InsertAttempt, Dispatch, RecordOutcome, Ingest,
     Evaluate, Reload, AdmitReproduction
<1>4. CASE Claim(p)
  <2>1. prun' \in Run
    <3>1. CASE CanClaim
      <4>1. (CHOOSE r \in NewRep : TRUE) \in Rep
        BY <3>1 DEF CanClaim, NewRep
      <4>2. (CHOOSE r \in NewRep : TRUE) \in 0 .. MaxRep
        BY <4>1, BoundAssumption DEF Rep
      <4> QED
        BY <1>4, <3>1, <4>2 DEF Claim, Run
    <3>2. CASE ~CanClaim
      BY <1>4, <3>2 DEF Claim
    <3> QED
      BY <3>1, <3>2
  <2> QED
    BY <1>1, <1>4, <2>1 DEF Claim
<1>5. CASE \/ SaveStopped(p) \/ SaveExecuted(p) \/ SaveProposal(p) \/ SaveRefused(p)
  <2>1. prun' \in Run
    BY <1>5 DEF SaveStopped, SaveExecuted, SaveProposal, SaveRefused, AdvancerSave, Run,
       Stage
  <2> QED
    BY <1>1, <1>5, <2>1 DEF SaveStopped, SaveExecuted, SaveProposal, SaveRefused,
       AdvancerSave
<1>6. CASE SaveVerified(p)
  <2>1. [ad[p].run EXCEPT !.stage = IF ad[p].run.prop /\ ad[p].status # "fresh"
                                    THEN @ ELSE "VERIFIED", !.verif = TRUE] \in Run
    BY DEF Run, Stage
  <2> QED
    BY <1>1, <1>6, <2>1 DEF SaveVerified, AdvancerSave
<1>7. CASE CompleteVerification(p)
  BY <1>1, <1>7 DEF CompleteVerification
<1>8. CASE Submit(p)
  BY <1>1, <1>8 DEF Submit
<1>9. CASE CrashAdvancer(p)
  <2>1. crashes + 1 \in 0 .. MaxCrashes
    BY <1>1, <1>9, BoundAssumption DEF CrashAdvancer
  <2> QED
    BY <1>9, <2>1 DEF CrashAdvancer
<1> QED
  BY <1>2, <1>3, <1>4, <1>5, <1>6, <1>7, <1>8, <1>9 DEF Proceed

(***************************************************************************)
(* The verdict on the reproduction in hand: what closes the candidate was  *)
(* VERIFYING, and a verdict for or against the claim is what the target    *)
(* showed.                                                                 *)
(***************************************************************************)
LEMMA VerdictStep ==
    ASSUME IInv, NEW p \in Advancer, CompleteVerification(p)
    PROVE  \/ UNCHANGED <<cand, verif>>
           \/ /\ cand = "VERIFYING" /\ verif.outcome = "NONE"
              /\ cand' \in ClosedCandidate /\ verif'.outcome = cand'
              /\ verif' \in [outcome : ClosedCandidate \cup {"NONE"}, by : SUBSET Rep]
              /\ cand' = "REJECTED" => answer = "contradicts"
              /\ cand' = "VALIDATED" =>
                    /\ answer = "supports"
                    /\ \E r \in Rep : verif'.by = {r} /\ rep[r].ev = "SUPPORTING"
<1> DEFINE r == ad[p].run.repro
           c == VerificationContext(r)
           o == evaluate_verification(original.strategy, c)
<1>1. r \in Rep
  BY InHand DEF CompleteVerification, AtReproduction
<1>2. rep[r] \in Reproduction
  BY <1>1, IInvTypes
<1>3. /\ c.reproduction = RefOf(r) /\ c.outcome = rep[r].assessed
  BY DEF VerificationContext
<1>4. /\ RefOf(r) # NoRef => rep[r].ev # "NONE"
      /\ RefOf(r) # NoRef => RefOf(r).polarity = rep[r].ev
      /\ RefOf(r) # NoRef /\ RefOf(r).held => answer # "weak"
  BY DEF RefOf, EvidenceRef, NoRef
<1>5. /\ o \in ClosedCandidate
      /\ o = "VALIDATED" => rep[r].ev = "SUPPORTING" /\ answer # "weak"
      /\ o = "REJECTED" => rep[r].assessed = "CONTRADICTS" \/ rep[r].ev = "CONTRADICTING"
  <2> HIDE DEF c
  <2> QED
    BY <1>3, <1>4, VerdictFacts
<1>6. /\ o = "VALIDATED" => answer = "supports"
      /\ o = "REJECTED" => answer = "contradicts"
  BY <1>1, <1>5 DEF IInv, AssessedInv, TypeOK
<1>7. CASE UNCHANGED <<cand, verif>>
  BY <1>7
<1>8. CASE /\ verif.outcome = "NONE" /\ <<cand, o>> \in LEGAL_CANDIDATE_TRANSITIONS
           /\ cand' = o
           /\ verif' = [outcome |-> o, by |-> IF rep[r].ev = "NONE" THEN {} ELSE {r}]
  <2> HIDE DEF o, r
  <2>1. cand = "VERIFYING"
    BY <1>5, <1>8 DEF LEGAL_CANDIDATE_TRANSITIONS, ClosedCandidate
  <2>2. /\ verif'.outcome = o /\ verif' \in [outcome : ClosedCandidate \cup {"NONE"}, by : SUBSET Rep]
        /\ rep[r].ev # "NONE" => verif'.by = {r}
    BY <1>1, <1>5, <1>8
  <2> QED
    BY <1>1, <1>5, <1>6, <1>8, <2>1, <2>2
<1> QED
  BY <1>7, <1>8 DEF CompleteVerification

(* A proposal is submitted for a validated candidate whose tiers have passed. *)
LEMMA SubmitStep ==
    ASSUME IInv, NEW p \in Advancer, Submit(p), prop' # prop
    PROVE  /\ prop = "NONE" /\ prop' = "PROPOSED" /\ cand = "VALIDATED"
           /\ original.strategy # "echo" => \A t \in Tier : tiers[t] = "PASSED"
<1>1. /\ prop = "NONE" /\ prop' = "PROPOSED" /\ TiersPassed(original.strategy, tiers)
      /\ admit_finding_proposal(cand, verif.outcome # "NONE") = "ADMITTED"
  BY DEF Submit
<1>2. cand = "VALIDATED"
  BY <1>1 DEF admit_finding_proposal
<1>3. original.strategy # "echo" => \A t \in Tier : tiers[t] = "PASSED"
  BY <1>1 DEF TiersPassed, validate_required_tiers, RequiredChain
<1> QED
  BY <1>1, <1>2, <1>3

LEMMA AdvancerStep ==
    ASSUME IInv, NEW p \in Advancer, Advance(p) \/ Proceed(p) \/ CrashAdvancer(p)
    PROVE  IInv'
<1>1. Effect(p)
  BY AdvancerEffect
<1>2. /\ UNCHANGED <<original, answer, tiers, evidence, human, rp>>
      /\ prun' \in Run /\ crashes' \in 0 .. MaxCrashes
      /\ UNCHANGED <<cand, verif>> \/ CompleteVerification(p)
      /\ UNCHANGED prop \/ Submit(p)
  BY AdvancerFrame
<1>3. MineInv' /\ ObservedIsSettled' /\ AssessedInv'
  BY <1>1, EffectKeeps DEF Effect
<1>4. \/ UNCHANGED <<cand, verif>>
      \/ /\ cand = "VERIFYING" /\ verif.outcome = "NONE" /\ UNCHANGED prop
         /\ cand' \in ClosedCandidate /\ verif'.outcome = cand'
         /\ verif' \in [outcome : ClosedCandidate \cup {"NONE"}, by : SUBSET Rep]
         /\ cand' = "REJECTED" => answer = "contradicts"
         /\ cand' = "VALIDATED" =>
               /\ answer = "supports"
               /\ \E r \in Rep : verif'.by = {r} /\ rep[r].ev = "SUPPORTING"
  <2>1. CASE CompleteVerification(p)
    <3>1. UNCHANGED prop
      BY <2>1 DEF CompleteVerification, Kept
    <3> QED
      BY <2>1, <3>1, VerdictStep
  <2> QED
    BY <1>2, <2>1
<1>5. UNCHANGED prop \/ (/\ prop = "NONE" /\ prop' = "PROPOSED" /\ cand = "VALIDATED"
                         /\ original.strategy # "echo" => \A t \in Tier : tiers[t] = "PASSED")
  BY <1>2, SubmitStep
<1>6. TypeOK'
  <2>1. /\ ad' \in AdType /\ rep' \in [Rep -> Reproduction]
    BY <1>1 DEF Effect
  <2>2. cand' \in CandidateState \cup {"NONE"}
    BY <1>4 DEF IInv, TypeOK, ClosedCandidate, CandidateState
  <2>3. verif' \in [outcome : ClosedCandidate \cup {"NONE"}, by : SUBSET Rep]
    BY <1>4 DEF IInv, TypeOK
  <2>4. prop' \in ProposalState \cup {"NONE"}
    BY <1>5 DEF IInv, TypeOK, ProposalState
  <2> QED
    BY <1>2, <2>1, <2>2, <2>3, <2>4 DEF IInv, TypeOK, AdType, AdStatus, human
<1>7. OriginalInv'
  BY <1>2 DEF IInv, OriginalInv
<1>8. VerifiedInv'
  <2>1. \A r \in Rep : rep[r].ev = "SUPPORTING" => rep'[r].ev = "SUPPORTING"
    BY <1>1 DEF Effect, KeepsEvidence
  <2>2. CASE UNCHANGED <<cand, verif>>
    BY <1>2, <2>1, <2>2 DEF IInv, VerifiedInv
  <2>3. CASE ~UNCHANGED <<cand, verif>>
    BY <1>2, <1>4, <2>1, <2>3 DEF VerifiedInv
  <2> QED
    BY <2>2, <2>3
<1>9. ReporterInv'
  BY <1>2, <1>4 DEF IInv, ReporterInv
<1>10. ChainInv'
  <2>1. ChainInv /\ VerifiedInv /\ ReporterInv /\ OriginalInv
    BY DEF IInv
  <2>2. ProposalHasChain'
    <3>1. CASE UNCHANGED prop
      BY <1>2, <1>4, <2>1, <3>1 DEF ChainInv, ProposalHasChain
    <3>2. CASE prop' # prop
      <4>1. cand = "VALIDATED" /\ UNCHANGED <<cand, verif>>
        BY <1>4, <1>5, <3>2
      <4>2. verif.outcome = "VALIDATED" /\ evidence = "SUPPORTING" /\ original.worker = "OK"
        BY <2>1, <4>1 DEF VerifiedInv, ReporterInv, OriginalInv, ClosedCandidate
      <4> QED
        BY <1>2, <1>5, <3>2, <4>1, <4>2 DEF ProposalHasChain, Tier
    <3> QED
      BY <3>1, <3>2
  <2>3. \A r \in Reporter : rp'[r].pc = "setVerifying" => cand' # "NONE"
    BY <1>2, <1>4, <2>1 DEF ChainInv, ClosedCandidate
  <2>4. verif'.outcome # "NONE" => cand' \in {verif'.outcome, "VERIFYING"}
    BY <1>4, <2>1 DEF ChainInv
  <2>5. /\ approval' # "NONE" => approval' = review'
        /\ finding' <=> approval' = "APPROVE"
        /\ prop' \in {"NONE", "PROPOSED"} => review' = "NONE"
        /\ prop' = "NONE" => readers' = {}
    BY <1>2, <1>5, <2>1 DEF ChainInv, human
  <2> QED
    BY <2>2, <2>3, <2>4, <2>5 DEF ChainInv
<1> QED
  BY <1>3, <1>6, <1>7, <1>8, <1>9, <1>10 DEF IInv

----------------------------------------------------------------------------
(* The steps of a reporter. *)

RpType == [Reporter -> [pc : Process, existing : Run, run : Run, ok : BOOLEAN]]

OthersReport(r) == \A q \in Reporter \ {r} : rp'[q] = rp[q]

LEMMA GotoFacts ==
    ASSUME rp \in RpType, NEW r \in Reporter, NEW c \in Process, NEW u \in Run, Goto(r, c, u)
    PROVE  rp' \in RpType /\ OthersReport(r) /\ rp'[r].pc = c /\ rp'[r].ok = rp[r].ok
  BY DEF RpType, OthersReport, Goto

(* A reporter whose call begins, ends or is cut off. *)
LEMMA RestartFacts ==
    ASSUME rp \in RpType, NEW r \in Reporter, NEW c \in {"admit", "done", "dead"},
           NEW u \in Run, rp' = [rp EXCEPT ![r] = [ReporterNew EXCEPT !.pc = c, !.existing = u]]
    PROVE  rp' \in RpType /\ OthersReport(r) /\ rp'[r].pc = c /\ rp'[r].ok = FALSE
<1> DEFINE l == [ReporterNew EXCEPT !.pc = c, !.existing = u]
<1>1. l \in [pc : Process, existing : Run, run : Run, ok : BOOLEAN] /\ l.pc = c /\ l.ok = FALSE
  BY NoRunType DEF ReporterNew, Process
<1> HIDE DEF l
<1>2. rp' = [rp EXCEPT ![r] = l]
  BY DEF l
<1> QED
  BY <1>1, <1>2 DEF RpType, OthersReport

LEMMA ReturnFacts ==
    ASSUME rp \in RpType, NEW r \in Reporter, NEW c \in {"done", "dead"},
           rp' = [rp EXCEPT ![r] = [ReporterNew EXCEPT !.pc = c]]
    PROVE  rp' \in RpType /\ OthersReport(r) /\ rp'[r].pc = c /\ rp'[r].ok = FALSE
<1> DEFINE l == [ReporterNew EXCEPT !.pc = c]
<1>1. l \in [pc : Process, existing : Run, run : Run, ok : BOOLEAN] /\ l.pc = c /\ l.ok = FALSE
  BY NoRunType DEF ReporterNew, Process
<1> HIDE DEF l
<1>2. rp' = [rp EXCEPT ![r] = l]
  BY DEF l
<1> QED
  BY <1>1, <1>2 DEF RpType, OthersReport

LEMMA ReporterTypes ==
    ASSUME IInv, NEW r \in Reporter
    PROVE  /\ rp \in RpType /\ prun \in Run /\ rp[r].run \in Run /\ rp[r].existing \in Run
           /\ rp[r].ok \in BOOLEAN
  BY DEF IInv, TypeOK, RpType

(***************************************************************************)
(* What a step of reporter r amounts to: the evidence it admits is granted *)
(* by the gate, the candidate is opened on it or set VERIFYING, and the    *)
(* reporter goes on only with the evidence.                                *)
(***************************************************************************)
ReportEffect(r) ==
    /\ UNCHANGED <<original, answer, tiers, verif, prop, human, rep, ad>>
    /\ rp' \in RpType /\ OthersReport(r) /\ prun' \in Run /\ crashes' \in 0 .. MaxCrashes
    /\ rp[r].pc \notin {"done", "dead"} /\ rp'[r].pc # "new"
    /\ \/ UNCHANGED evidence
       \/ evidence = "NONE" /\ evidence' = "SUPPORTING" /\ original.worker = "OK"
    /\ \/ UNCHANGED cand
       \/ cand = "NONE" /\ cand' = "OPEN" /\ evidence = "SUPPORTING" /\ UNCHANGED evidence
       \/ rp[r].pc = "setVerifying" /\ cand' = "VERIFYING" /\ UNCHANGED evidence
    /\ rp'[r].ok => evidence' = "SUPPORTING"
    /\ rp'[r].pc \notin {"new", "done", "dead", "admit", "ensure"} => rp'[r].ok
    /\ rp'[r].pc = "setVerifying" => cand' = "OPEN"

(* _save of a reporter that has its evidence. *)
LEMMA SaveEffect ==
    ASSUME IInv, NEW r \in Reporter, NEW from, NEW to \in Process \ {"new", "setVerifying"},
           NEW u \in Run, ReporterSave(r, from, to, u),
           from \in {"saveAdmitted", "saveOpen", "saveVerifying"}
    PROVE  ReportEffect(r)
<1> USE ReporterTypes DEF Given, authority
<1>1. rp[r].pc = from /\ rp[r].ok /\ evidence = "SUPPORTING" /\ crashes \in 0 .. MaxCrashes
  BY DEF ReporterSave, IInv, ReporterInv, TypeOK
<1>2. CASE to = "done"
  <2>1. rp' \in RpType /\ OthersReport(r) /\ rp'[r].pc = "done" /\ rp'[r].ok = FALSE
    BY <1>2, ReturnFacts DEF ReporterSave, Return
  <2> QED
    BY <1>1, <2>1 DEF ReporterSave, ReportEffect
<1>3. CASE to # "done"
  <2>1. rp' \in RpType /\ OthersReport(r) /\ rp'[r].pc = to /\ rp'[r].ok = rp[r].ok
    BY <1>3, GotoFacts DEF ReporterSave
  <2> QED
    BY <1>1, <2>1 DEF ReporterSave, ReportEffect
<1> QED
  BY <1>2, <1>3

(* The candidate that is proposed on the evidence. *)
LEMMA ProposeEffect ==
    ASSUME IInv, NEW r \in Reporter, ProposeCandidate(r)
    PROVE  ReportEffect(r)
<1> USE ReporterTypes DEF Given
<1>1. rp[r].pc = "propose" /\ rp[r].ok /\ evidence = "SUPPORTING" /\ crashes \in 0 .. MaxCrashes
  BY DEF ProposeCandidate, IInv, ReporterInv, TypeOK
<1>2. cand' = cand \/ (cand = "NONE" /\ cand' = "OPEN")
  BY DEF ProposeCandidate
<1>3. rp' \in RpType /\ OthersReport(r) /\ rp'[r].pc = "saveOpen" /\ rp'[r].ok = rp[r].ok
  BY GotoFacts DEF ProposeCandidate, Process
<1> QED
  BY <1>1, <1>2, <1>3 DEF ProposeCandidate, ReportEffect

(* The evidence of the original. *)
LEMMA AdmitEffect ==
    ASSUME IInv, NEW r \in Reporter, AdmitOriginal(r)
    PROVE  ReportEffect(r)
<1> USE ReporterTypes DEF Given
<1>1. /\ rp[r].pc = "admit" /\ crashes \in 0 .. MaxCrashes
      /\ evidence \in {"NONE", "SUPPORTING"}
  BY DEF AdmitOriginal, IInv, TypeOK
<1>2. /\ AdmittedEvidence(original) \in {"NONE", "SUPPORTING"}
      /\ AdmittedEvidence(original) # "NONE" => original.worker = "OK"
  BY AdmittedFacts DEF IInv, OriginalInv
<1>3. \/ UNCHANGED evidence
      \/ evidence = "NONE" /\ evidence' = "SUPPORTING" /\ original.worker = "OK"
  BY <1>1, <1>2 DEF AdmitOriginal
<1>4. evidence' \in {"NONE", "SUPPORTING"}
  BY <1>1, <1>3
<1>5. /\ rp' \in RpType /\ OthersReport(r) /\ rp'[r].pc = "ensure"
      /\ rp'[r].ok = (evidence' # "NONE")
  BY DEF AdmitOriginal, RpType, OthersReport, Process
<1> QED
  BY <1>1, <1>3, <1>4, <1>5 DEF AdmitOriginal, ReportEffect

(* The row that is found or inserted. *)
LEMMA EnsureEffect ==
    ASSUME IInv, NEW r \in Reporter, EnsureRun(r)
    PROVE  ReportEffect(r)
<1> USE ReporterTypes DEF Given, authority
<1> DEFINE fresh == [NoRun EXCEPT !.stage = IF rp[r].ok THEN "EVIDENCE_ADMITTED"
                                            ELSE "EVIDENCE_REJECTED",
                                  !.ev = rp[r].ok]
           run == IF rp[r].existing # NoRun THEN rp[r].existing
                  ELSE IF prun # NoRun THEN prun ELSE fresh
<1>1. fresh \in Run
  <2>1. ASSUME NEW b \in BOOLEAN, NEW t \in Stage
        PROVE  [NoRun EXCEPT !.stage = t, !.ev = b] \in Run
    BY NoRunType DEF Run
  <2>2. (IF rp[r].ok THEN "EVIDENCE_ADMITTED" ELSE "EVIDENCE_REJECTED") \in Stage
    BY DEF Stage
  <2> QED
    BY <2>1, <2>2
<1>2. /\ rp[r].pc = "ensure" /\ crashes \in 0 .. MaxCrashes
      /\ rp[r].ok => evidence = "SUPPORTING"
  BY DEF EnsureRun, IInv, ReporterInv, TypeOK
<1>3. /\ prun' \in {prun, fresh} /\ AfterEnsure(r, run)
      /\ UNCHANGED <<original, answer, tiers, evidence, cand, verif, prop, human, rep, ad,
                     crashes>>
  BY DEF EnsureRun
<1>4. run \in Run
  BY <1>1
<1> HIDE DEF run, fresh
<1>5. CASE Return(r)
  <2>1. rp' \in RpType /\ OthersReport(r) /\ rp'[r].pc = "done" /\ rp'[r].ok = FALSE
    BY <1>5, ReturnFacts DEF Return
  <2> QED
    BY <1>1, <1>2, <1>3, <2>1 DEF ReportEffect
<1>6. CASE rp[r].ok /\ (Goto(r, "saveAdmitted", run) \/ Goto(r, "propose", run))
  <2>1. /\ rp' \in RpType /\ OthersReport(r) /\ rp'[r].pc \in {"saveAdmitted", "propose"}
        /\ rp'[r].ok = rp[r].ok
    BY <1>4, <1>6, GotoFacts DEF Process
  <2> QED
    BY <1>1, <1>2, <1>3, <1>6, <2>1 DEF ReportEffect
<1> QED
  BY <1>3, <1>5, <1>6 DEF AfterEnsure

(* The head of the call, and the verification it starts. *)
LEMMA StartEffect ==
    ASSUME IInv, NEW r \in Reporter,
           OnAssessment(r) \/ StartVerification(r) \/ SetVerifying(r) \/ CrashReporter(r)
    PROVE  ReportEffect(r)
<1> USE ReporterTypes DEF Given, authority
<1>1. crashes \in 0 .. MaxCrashes
  BY DEF IInv, TypeOK
<1>2. CASE OnAssessment(r)
  <2>1. rp' \in RpType /\ OthersReport(r) /\ rp'[r].pc = "admit" /\ rp'[r].ok = FALSE
    BY <1>2, RestartFacts DEF OnAssessment
  <2> QED
    BY <1>1, <1>2, <2>1 DEF OnAssessment, ReportEffect
<1>3. CASE StartVerification(r)
  <2>1. rp[r].pc = "start" /\ rp[r].ok /\ evidence = "SUPPORTING"
    BY <1>3 DEF StartVerification, IInv, ReporterInv
  <2>2. /\ rp' \in RpType /\ OthersReport(r) /\ rp'[r].ok = rp[r].ok
        /\ rp'[r].pc = IF cand = "OPEN" THEN "setVerifying" ELSE "saveVerifying"
    BY <1>3, GotoFacts DEF StartVerification, Process
  <2> QED
    BY <1>1, <1>3, <2>1, <2>2 DEF StartVerification, ReportEffect
<1>4. CASE SetVerifying(r)
  <2>1. rp[r].pc = "setVerifying" /\ rp[r].ok /\ evidence = "SUPPORTING"
    BY <1>4 DEF SetVerifying, IInv, ReporterInv
  <2>2. /\ rp' \in RpType /\ OthersReport(r) /\ rp'[r].ok = rp[r].ok
        /\ rp'[r].pc = "saveVerifying"
    BY <1>4, GotoFacts DEF SetVerifying, Process
  <2> QED
    BY <1>1, <1>4, <2>1, <2>2 DEF SetVerifying, ReportEffect
<1>5. CASE CrashReporter(r)
  <2>1. rp' \in RpType /\ OthersReport(r) /\ rp'[r].pc = "dead" /\ rp'[r].ok = FALSE
    BY <1>5, ReturnFacts DEF CrashReporter
  <2>2. crashes' \in 0 .. MaxCrashes
    BY <1>1, <1>5, BoundAssumption DEF CrashReporter
  <2> QED
    BY <1>5, <2>1, <2>2 DEF CrashReporter, ReportEffect
<1> QED
  BY <1>2, <1>3, <1>4, <1>5

LEMMA ReporterEffect ==
    ASSUME IInv, NEW r \in Reporter, Report(r) \/ CrashReporter(r)
    PROVE  ReportEffect(r)
<1>1. rp[r].run \in Run /\ rp[r].run.repro \in 0 .. MaxRep
  BY ReporterTypes DEF Run
<1>2. CASE SaveAdmitted(r)
  <2>1. [rp[r].run EXCEPT !.stage = "EVIDENCE_ADMITTED", !.ev = TRUE] \in Run
    BY <1>1 DEF Run, Stage
  <2> QED
    BY <1>2, <2>1, SaveEffect DEF SaveAdmitted, Process
<1>3. CASE SaveOpen(r)
  <2>1. [rp[r].run EXCEPT !.stage = "CANDIDATE_OPEN", !.cand = TRUE] \in Run
    BY <1>1 DEF Run, Stage
  <2> QED
    BY <1>3, <2>1, SaveEffect DEF SaveOpen, Process
<1>4. CASE SaveVerifying(r)
  <2>1. [rp[r].run EXCEPT !.stage = "VERIFYING", !.cand = TRUE] \in Run
    BY <1>1 DEF Run, Stage
  <2> QED
    BY <1>4, <2>1, SaveEffect DEF SaveVerifying, Process
<1> QED
  BY <1>2, <1>3, <1>4, AdmitEffect, EnsureEffect, ProposeEffect, StartEffect DEF Report

LEMMA ReporterStep ==
    ASSUME IInv, NEW r \in Reporter, ReportEffect(r)
    PROVE  IInv'
<1> USE DEF ReportEffect
<1>1. TypeOK'
  <2>1. evidence' \in {"NONE", "SUPPORTING"} /\ cand' \in CandidateState \cup {"NONE"}
    BY DEF IInv, TypeOK, CandidateState
  <2> QED
    BY <2>1 DEF IInv, TypeOK, RpType, human
<1>2. OriginalInv'
  BY DEF IInv, OriginalInv
<1>3. MineInv' /\ ObservedIsSettled' /\ AssessedInv'
  BY DEF IInv, MineInv, ObservedIsSettled, AssessedInv, Settled, Owns
<1>4. VerifiedInv'
  BY DEF IInv, VerifiedInv, ClosedCandidate
<1>5. ReporterInv'
  <2>1. cand' # "NONE" => evidence' = "SUPPORTING"
    BY DEF IInv, ReporterInv
  <2>2. ASSUME NEW q \in Reporter
        PROVE  /\ rp'[q].ok => evidence' = "SUPPORTING"
               /\ rp'[q].pc \notin {"new", "done", "dead", "admit", "ensure"} => rp'[q].ok
    <3>1. CASE q = r
      BY <3>1
    <3>2. CASE q # r
      BY <3>2 DEF IInv, ReporterInv, OthersReport
    <3> QED
      BY <3>1, <3>2
  <2> QED
    BY <2>1, <2>2 DEF ReporterInv
<1>6. ChainInv'
  <2>1. ChainInv /\ VerifiedInv /\ ReporterInv
    BY DEF IInv
  <2>2. cand' = cand \/ cand = "NONE" \/ cand' = "VERIFYING"
    OBVIOUS
  <2>3. cand # "NONE" => cand' # "NONE"
    BY <2>2
  <2>4. ASSUME NEW q \in Reporter, rp'[q].pc = "setVerifying" PROVE cand' # "NONE"
    BY <2>1, <2>3, <2>4 DEF ChainInv, OthersReport
  <2>5. verif'.outcome # "NONE" => cand' \in {verif'.outcome, "VERIFYING"}
    BY <2>1, <2>2 DEF ChainInv, IInv, TypeOK, ClosedCandidate
  <2>6. ProposalHasChain'
    BY <2>1, <2>2 DEF ChainInv, ProposalHasChain
  <2> QED
    BY <2>1, <2>4, <2>5, <2>6 DEF ChainInv, human
<1> QED
  BY <1>1, <1>2, <1>3, <1>4, <1>5, <1>6 DEF IInv

----------------------------------------------------------------------------
(* The human and the tiers. *)

(* What is decided about a proposal, once. *)
LEMMA FinalizeFacts ==
    ASSUME IInv, NEW a, FinalizeFinding(a)
    PROVE  /\ prop = "HUMAN_REVIEW" /\ cand = "VALIDATED" /\ ~finding
           /\ approval = "NONE" /\ approval' = review
           /\ \/ review = "APPROVE" /\ prop' = "APPROVED" /\ finding' = TRUE
              \/ review = "REJECT" /\ prop' = "REJECTED" /\ finding' = FALSE
           /\ UNCHANGED <<Rest, review, readers>>
<1>1. approval = "NONE" /\ ~finding
  BY DEF FinalizeFinding, IInv, ChainInv
<1> QED
  BY <1>1 DEF FinalizeFinding, evaluate_finding_creation, valid_record, authorizes, IInv,
     TypeOK

HumanNext ==
    \/ \E v \in Reviewer : StartHumanReview(v) \/ SetHumanReview(v)
    \/ RecordHumanReview
    \/ \E a \in {"HUMAN_OPERATOR", "CONTROL_PLANE"} : FinalizeFinding(a)

(***************************************************************************)
(* A step of the human: a review is recorded once and never taken back,    *)
(* and neither is an approval, whatever becomes of the proposal's state.   *)
(***************************************************************************)
LEMMA HumanEffect ==
    ASSUME IInv, HumanNext
    PROVE  /\ UNCHANGED Rest
           /\ prop # "NONE" /\ prop' \in ProposalState /\ readers' \subseteq Reviewer
           /\ \/ prop' \notin {"NONE", "PROPOSED"} \/ UNCHANGED <<prop, review>>
           /\ \/ UNCHANGED <<review, approval, finding>>
              \/ /\ prop = "HUMAN_REVIEW" /\ review = "NONE" /\ UNCHANGED <<approval, finding>>
                 /\ review' \in {"APPROVE", "REJECT"} /\ approval = "NONE"
              \/ /\ UNCHANGED review /\ approval = "NONE" /\ approval' = review
                 /\ review \in {"APPROVE", "REJECT"} /\ finding' = (review = "APPROVE")
<1>1. CASE \E v \in Reviewer : StartHumanReview(v)
  BY <1>1 DEF StartHumanReview, LEGAL_FINDING_PROPOSAL_TRANSITIONS, ProposalState, IInv, TypeOK
<1>2. CASE \E v \in Reviewer : SetHumanReview(v)
  BY <1>2 DEF SetHumanReview, ProposalState, IInv, TypeOK, ChainInv
<1>3. CASE RecordHumanReview
  BY <1>3 DEF RecordHumanReview, ProposalState, IInv, TypeOK, ChainInv
<1>4. CASE \E a \in {"HUMAN_OPERATOR", "CONTROL_PLANE"} : FinalizeFinding(a)
  <2>1. PICK a \in {"HUMAN_OPERATOR", "CONTROL_PLANE"} : FinalizeFinding(a)
    BY <1>4
  <2> QED
    BY <2>1, FinalizeFacts DEF ProposalState, IInv, TypeOK
<1> QED
  BY <1>1, <1>2, <1>3, <1>4 DEF HumanNext

LEMMA HumanStep ==
    ASSUME IInv, HumanNext
    PROVE  IInv'
<1>1. UNCHANGED <<original, answer, tiers, evidence, prun, cand, rep, verif, rp, ad, crashes>>
  BY HumanEffect DEF Rest, Given
<1>2. TypeOK'
  BY <1>1, HumanEffect DEF IInv, TypeOK
<1>3. OriginalInv' /\ MineInv' /\ ObservedIsSettled' /\ AssessedInv'
  BY <1>1 DEF IInv, OriginalInv, MineInv, ObservedIsSettled, AssessedInv, Settled, Owns
<1>4. VerifiedInv' /\ ReporterInv'
  BY <1>1 DEF IInv, VerifiedInv, ReporterInv
<1>5. ChainInv'
  <2>1. ProposalHasChain'
    BY <1>1, HumanEffect DEF IInv, ChainInv, ProposalHasChain
  <2>2. /\ approval' # "NONE" => approval' = review'
        /\ finding' <=> approval' = "APPROVE"
    <3>1. CASE UNCHANGED <<approval, finding>>
      BY <3>1, HumanEffect DEF IInv, ChainInv
    <3>2. CASE ~UNCHANGED <<approval, finding>>
      BY <3>2, HumanEffect
    <3> QED
      BY <3>1, <3>2
  <2>3. /\ prop' \in {"NONE", "PROPOSED"} => review' = "NONE"
        /\ prop' # "NONE"
    BY HumanEffect DEF IInv, ChainInv, ProposalState
  <2> QED
    BY <1>1, <2>1, <2>2, <2>3 DEF IInv, ChainInv
<1> QED
  BY <1>2, <1>3, <1>4, <1>5 DEF IInv

(* A tier that has passed is not queued any more. *)
LEMMA TierStep ==
    ASSUME IInv, V3Ends
    PROVE  IInv'
<1>1. /\ UNCHANGED <<original, answer, evidence, prun, cand, rep, verif, prop, review, approval,
                     finding, readers, rp, ad, crashes>>
      /\ tiers["V3"] = "QUEUED"
  BY DEF V3Ends, authority, human
<1>2. tiers' \in [Tier -> TierOutcome \cup {"NONE"}]
  BY DEF IInv, TypeOK, V3Ends, TierOutcome
<1>3. tiers'["V1"] = tiers["V1"]
  BY DEF IInv, TypeOK, V3Ends, Tier
<1>4. TypeOK'
  BY <1>1, <1>2 DEF IInv, TypeOK
<1>5. OriginalInv' /\ MineInv' /\ ObservedIsSettled' /\ AssessedInv'
  BY <1>1 DEF IInv, OriginalInv, MineInv, ObservedIsSettled, AssessedInv, Settled, Owns
<1>6. VerifiedInv' /\ ReporterInv'
  BY <1>1 DEF IInv, VerifiedInv, ReporterInv
<1>7. ChainInv'
  BY <1>1, <1>3 DEF IInv, ChainInv, ProposalHasChain
<1> QED
  BY <1>4, <1>5, <1>6, <1>7 DEF IInv

----------------------------------------------------------------------------
LEMMA Initially ==
    Init => IInv
<1> SUFFICES ASSUME Init PROVE IInv
  OBVIOUS
<1>1. /\ original \in EvidenceContext /\ original.strategy \in Strategy
      /\ original.outcome = "CONSISTENT" /\ original.worker \in {"OK", "FAILED"}
  BY InPlayAssumption DEF Init, EvidenceContext, Outcome, AttemptState, ExperimentState
<1>2. /\ rep \in [Rep -> Reproduction]
      /\ \A r \in Rep : /\ rep[r].attempts = <<>> /\ ~rep[r].observed
                         /\ rep[r].ev = "NONE" /\ rep[r].assessed = "NONE"
  <2>1. NoRep \in Reproduction
    BY EmptySeq DEF NoRep, Reproduction
  <2> QED
    BY <2>1 DEF Init, NoRep
<1>3. tiers \in [Tier -> TierOutcome \cup {"NONE"}]
  BY DEF Init, TierOutcome
<1>4. /\ rp \in [Reporter -> [pc : Process, existing : Run, run : Run, ok : BOOLEAN]]
      /\ \A r \in Reporter : rp[r].pc = "new" /\ rp[r].ok = FALSE
  BY NoRunType DEF Init, ReporterNew, Process
<1>5. /\ ad \in AdType /\ \A p \in Advancer : ad[p].pc = "new"
  BY NoRunType DEF Init, AdvancerNew, AdType, AdStatus, Steps
<1>6. TypeOK
  <2>1. prun \in Run /\ crashes \in 0 .. MaxCrashes
    BY NoRunType, BoundAssumption DEF Init
  <2>2. verif \in [outcome : ClosedCandidate \cup {"NONE"}, by : SUBSET Rep]
    BY DEF Init
  <2>3. /\ answer \in {"supports", "weak", "contradicts"} /\ evidence \in {"NONE", "SUPPORTING"}
        /\ cand \in CandidateState \cup {"NONE"} /\ prop \in ProposalState \cup {"NONE"}
        /\ review \in {"NONE", "APPROVE", "REJECT"} /\ finding \in BOOLEAN
        /\ approval \in {"NONE", "APPROVE", "REJECT"} /\ readers \subseteq Reviewer
    BY DEF Init
  <2> QED
    BY <1>1, <1>2, <1>3, <1>4, <1>5, <2>1, <2>2, <2>3 DEF TypeOK, AdType, AdStatus
<1>7. OriginalInv
  BY <1>1 DEF Init, OriginalInv
<1>8. MineInv /\ ObservedIsSettled /\ AssessedInv
  BY <1>2, <1>5 DEF MineInv, AtReproduction, AtAttempt, Owns, ObservedIsSettled, AssessedInv
<1>9. VerifiedInv
  BY DEF Init, VerifiedInv, ClosedCandidate
<1>10. ReporterInv
  BY <1>4 DEF Init, ReporterInv
<1>11. ChainInv
  BY <1>4 DEF Init, ChainInv, ProposalHasChain
<1> QED
  BY <1>6, <1>7, <1>8, <1>9, <1>10, <1>11 DEF IInv

LEMMA Inductive ==
    IInv /\ [Next]_vars => IInv'
<1> SUFFICES ASSUME IInv, [Next]_vars PROVE IInv'
  OBVIOUS
<1>1. CASE UNCHANGED vars
  BY <1>1 DEF vars, IInv, TypeOK, OriginalInv, MineInv, ObservedIsSettled, AssessedInv,
     VerifiedInv, ReporterInv, ChainInv, ProposalHasChain, Settled, Owns
<1> QED
  BY <1>1, AdvancerStep, ReporterEffect, ReporterStep, HumanStep, TierStep DEF Next, HumanNext

(* IInv holds in every state of the promotion, however its calls interleave and
   die. *)
THEOREM Invariance ==
    Spec => []IInv
  BY Initially, Inductive, PTL DEF Spec

(* Rows and copies of rows have the types of their records at any time. *)
THEOREM PromotionTyped ==
    Spec => []TypeOK
<1>1. IInv => TypeOK
  BY DEF IInv
<1> QED
  BY <1>1, Invariance, PTL

(***************************************************************************)
(* A candidate is VALIDATED only on a reproduction that was completed,     *)
(* observed, assessed and admitted: for any number of calls of             *)
(* on_assessment and advance in any interleaving, overlapping or not.      *)
(***************************************************************************)
THEOREM ValidationIsEarned ==
    Spec => []ValidatedIsReproduced
<1>1. IInv => ValidatedIsReproduced
  <2> SUFFICES ASSUME IInv, cand = "VALIDATED"
               PROVE  \E r \in verif.by :
                         /\ rep[r].ev = "SUPPORTING" /\ rep[r].observed
                         /\ "COMPLETED" \in {rep[r].attempts[i] : i \in DOMAIN rep[r].attempts}
                         /\ rep[r].assessed = "CONSISTENT" /\ answer = "supports"
    BY DEF ValidatedIsReproduced
  <2>1. PICK r \in Rep : verif.by = {r} /\ rep[r].ev = "SUPPORTING" /\ answer = "supports"
    BY DEF IInv, VerifiedInv, ClosedCandidate
  <2>2. rep[r].observed /\ rep[r].assessed = "CONSISTENT"
    BY <2>1 DEF IInv, AssessedInv
  <2>3. PICK i \in 1 .. Len(rep[r].attempts) : rep[r].attempts[i] = "COMPLETED"
    BY <2>2 DEF IInv, ObservedIsSettled, Settled
  <2>4. rep[r].attempts \in Seq(AttemptState)
    BY IInvTypes DEF Reproduction
  <2>5. i \in DOMAIN rep[r].attempts
    BY <2>3, <2>4, LenProperties
  <2> QED
    BY <2>1, <2>2, <2>3, <2>5
<1> QED
  BY <1>1, Invariance, PTL

(* "FAILURE_TO_VERIFY_IS_NOT_REJECTION": only a target that contradicted the
   claim has it REJECTED, whatever fails, is refused or dies. *)
THEOREM RejectionIsEarned ==
    Spec => []FailureIsNotRejection
<1>1. IInv => FailureIsNotRejection
  BY DEF IInv, VerifiedInv, ClosedCandidate, FailureIsNotRejection
<1> QED
  BY <1>1, Invariance, PTL

(***************************************************************************)
(* A proposal has its evidence, its validation and its tiers behind it for *)
(* good, whatever calls of on_assessment, advance and review overlap: two  *)
(* reports that both find the candidate OPEN may set it back to VERIFYING, *)
(* and no further.                                                         *)
(***************************************************************************)
THEOREM ProposalKeepsItsChain ==
    Spec => []ProposalHasChain
<1>1. IInv => ProposalHasChain
  BY DEF IInv, ChainInv
<1> QED
  BY <1>1, Invariance, PTL

----------------------------------------------------------------------------
(* The refinement of FindingAuthority, step by step. *)

Proof == IF verif.outcome = "VALIDATED" THEN verif.by ELSE {}

(* Where the claim stands, by what was written once; only before there is a
   verification does the state of the candidate count. *)
LEMMA PhaseFacts ==
    ASSUME TypeOK, ChainInv
    PROVE  /\ approval = "APPROVE" => phase = "FINDING"
           /\ approval = "REJECT" => phase = "REFUSED"
           /\ approval = "NONE" /\ prop \notin {"NONE", "PROPOSED"} => phase = "REVIEW"
           /\ prop = "PROPOSED" => phase = "PROPOSED"
           /\ prop = "NONE" /\ verif.outcome = "VALIDATED" => phase = "VALIDATED"
           /\ prop = "NONE" /\ verif.outcome \in {"REJECTED", "INCONCLUSIVE"} => phase = "CLOSED"
           /\ prop = "NONE" /\ verif.outcome = "NONE" =>
                 /\ cand = "VERIFYING" => phase = "VERIFYING"
                 /\ cand = "OPEN" => phase = "CANDIDATE"
                 /\ cand = "NONE" => phase = IF evidence = "NONE" THEN "CLAIMED" ELSE "EVIDENCE"
  BY DEF ChainInv, TypeOK, phase

LEMMA PhaseFactsNext ==
    ASSUME TypeOK', ChainInv'
    PROVE  /\ approval' = "APPROVE" => phase' = "FINDING"
           /\ approval' = "REJECT" => phase' = "REFUSED"
           /\ approval' = "NONE" /\ prop' \notin {"NONE", "PROPOSED"} => phase' = "REVIEW"
           /\ prop' = "PROPOSED" => phase' = "PROPOSED"
           /\ prop' = "NONE" /\ verif'.outcome = "VALIDATED" => phase' = "VALIDATED"
           /\ prop' = "NONE" /\ verif'.outcome \in {"REJECTED", "INCONCLUSIVE"} => phase' = "CLOSED"
           /\ prop' = "NONE" /\ verif'.outcome = "NONE" =>
                 /\ cand' = "VERIFYING" => phase' = "VERIFYING"
                 /\ cand' = "OPEN" => phase' = "CANDIDATE"
                 /\ cand' = "NONE" => phase' = IF evidence' = "NONE" THEN "CLAIMED" ELSE "EVIDENCE"
  BY DEF ChainInv, TypeOK, phase

(* A step of the promotion on the claim is one of FindingAuthority. *)
LEMMA AdvanceRefines ==
    ASSUME IInv, IInv', NEW p \in Advancer, Advance(p) \/ Proceed(p) \/ CrashAdvancer(p)
    PROVE  [Authority!Next]_(Authority!vars)
<1>1. /\ UNCHANGED <<evidence, review, approval, finding>>
      /\ UNCHANGED <<cand, verif>> \/ CompleteVerification(p)
      /\ UNCHANGED prop \/ Submit(p)
  BY AdvancerFrame DEF human
<1>2. /\ TypeOK /\ TypeOK' /\ VerifiedInv /\ VerifiedInv' /\ ChainInv /\ ChainInv'
  BY DEF IInv
<1>3. CASE UNCHANGED <<cand, verif, prop>>
  <2>1. UNCHANGED <<phase, Proof, review>>
    BY <1>1, <1>3 DEF phase, Proof
  <2> QED
    BY <2>1 DEF Authority!vars, Proof
<1>4. CASE UNCHANGED prop /\ ~UNCHANGED <<cand, verif>>
  <2>1. /\ cand = "VERIFYING" /\ verif.outcome = "NONE"
        /\ cand' \in ClosedCandidate /\ verif'.outcome = cand'
        /\ cand' = "VALIDATED" => \E r \in Rep : verif'.by = {r}
    BY <1>1, <1>4, VerdictStep
  <2>2. prop = "NONE" /\ prop' = "NONE"
    BY <1>2, <1>4, <2>1 DEF ChainInv, ProposalHasChain
  <2>3. phase = "VERIFYING" /\ phase' = IF cand' = "VALIDATED" THEN "VALIDATED" ELSE "CLOSED"
    BY <1>2, <2>1, <2>2, PhaseFacts, PhaseFactsNext DEF ClosedCandidate
  <2>4. Proof = {} /\ Proof' = IF cand' = "VALIDATED" THEN verif'.by ELSE {}
    BY <2>1 DEF Proof
  <2>5. Authority!Next
    BY <1>1, <2>1, <2>3, <2>4 DEF Proof, Authority!Next, Authority!Advance, Authority!Move,
       Authority!Validate
  <2> QED
    BY <2>5
<1>5. CASE ~UNCHANGED prop
  <2>1. prop = "NONE" /\ prop' = "PROPOSED" /\ cand = "VALIDATED"
    BY <1>1, <1>5, SubmitStep
  <2>2. UNCHANGED <<cand, verif>> /\ verif.outcome = "VALIDATED"
    BY <1>1, <1>2, <1>5, <2>1 DEF Submit, CompleteVerification, Kept, VerifiedInv,
       ClosedCandidate
  <2>3. phase = "VALIDATED" /\ phase' = "PROPOSED" /\ Proof' = Proof
    BY <1>2, <2>1, <2>2, PhaseFacts, PhaseFactsNext DEF Proof
  <2> QED
    BY <1>1, <2>3 DEF Proof, Authority!Next, Authority!Advance, Authority!Move
<1> QED
  BY <1>3, <1>4, <1>5

(* A report moves the claim on to its verification; one that comes late sets
   the candidate back and does not move the claim. *)
LEMMA ReportRefines ==
    ASSUME IInv, IInv', NEW r \in Reporter, ReportEffect(r)
    PROVE  [Authority!Next]_(Authority!vars)
<1> USE DEF ReportEffect
<1>1. TypeOK /\ TypeOK' /\ ReporterInv /\ VerifiedInv /\ ChainInv /\ ChainInv'
  BY DEF IInv
<1>2. Proof' = Proof /\ UNCHANGED <<review, approval, finding>>
  BY DEF Proof, human
<1>3. CASE UNCHANGED <<evidence, cand>>
  <2>1. phase' = phase
    BY <1>2, <1>3 DEF phase
  <2> QED
    BY <1>2, <2>1 DEF Authority!vars, Proof
<1>4. CASE ~UNCHANGED evidence
  <2>1. /\ evidence = "NONE" /\ evidence' = "SUPPORTING" /\ cand' = "NONE" /\ cand = "NONE"
        /\ prop = "NONE" /\ prop' = "NONE"
    BY <1>1, <1>4 DEF ReporterInv, ChainInv, ProposalHasChain
  <2>2. verif.outcome = "NONE" /\ verif' = verif
    BY <1>1, <2>1 DEF ChainInv
  <2>3. phase = "CLAIMED" /\ phase' = "EVIDENCE"
    BY <1>1, <2>1, <2>2, PhaseFacts, PhaseFactsNext
  <2> QED
    BY <1>2, <2>3 DEF Proof, Authority!Next, Authority!Advance, Authority!Move
<1>5. CASE verif.outcome # "NONE" /\ UNCHANGED evidence
  <2>1. phase' = phase
    BY <1>1, <1>2, <1>5 DEF phase, TypeOK, ClosedCandidate
  <2> QED
    BY <1>2, <2>1 DEF Authority!vars, Proof
<1>6. CASE verif.outcome = "NONE" /\ UNCHANGED evidence /\ ~UNCHANGED cand
  <2>1. /\ prop = "NONE" /\ prop' = "NONE" /\ verif' = verif
        /\ \/ cand = "NONE" /\ cand' = "OPEN" /\ evidence = "SUPPORTING"
           \/ cand = "OPEN" /\ cand' = "VERIFYING"
    <3>1. cand \notin ClosedCandidate
      BY <1>1, <1>6 DEF VerifiedInv, ClosedCandidate
    <3>2. cand \in {"NONE", "OPEN", "VERIFYING"}
      BY <1>1, <3>1 DEF TypeOK, CandidateState, ClosedCandidate
    <3> QED
      BY <1>1, <1>6, <3>2 DEF ChainInv, ProposalHasChain
  <2>2. \/ phase = "EVIDENCE" /\ phase' = "CANDIDATE"
        \/ phase = "CANDIDATE" /\ phase' = "VERIFYING"
    BY <1>1, <1>6, <2>1, PhaseFacts, PhaseFactsNext
  <2> QED
    BY <1>2, <2>2 DEF Proof, Authority!Next, Authority!Advance, Authority!Move
<1> QED
  BY <1>3, <1>4, <1>5, <1>6

(* So does the human: a review that is started again after the decision sets
   the proposal back and does not move the claim. *)
LEMMA HumanRefines ==
    ASSUME IInv, IInv', HumanNext
    PROVE  [Authority!Next]_(Authority!vars)
<1>1. TypeOK /\ TypeOK' /\ ChainInv /\ ChainInv'
  BY DEF IInv
<1>2. UNCHANGED <<evidence, cand, verif>> /\ Proof' = Proof
  BY HumanEffect DEF Rest, Proof
<1>3. CASE \E v \in Reviewer : StartHumanReview(v)
  <2>1. UNCHANGED <<prop, review, approval, finding>>
    BY <1>3 DEF StartHumanReview
  <2>2. phase' = phase
    BY <1>2, <2>1 DEF phase
  <2> QED
    BY <1>2, <2>1, <2>2 DEF Authority!vars, Proof
<1>4. CASE \E v \in Reviewer : SetHumanReview(v)
  <2>1. UNCHANGED <<review, approval, finding>> /\ prop' = "HUMAN_REVIEW" /\ prop # "NONE"
    BY <1>4, HumanEffect DEF SetHumanReview
  <2>2. phase' = phase \/ (phase = "PROPOSED" /\ phase' = "REVIEW")
    <3>1. CASE approval = "NONE"
      BY <1>1, <2>1, <3>1, PhaseFacts, PhaseFactsNext DEF TypeOK
    <3>2. CASE approval # "NONE"
      BY <1>1, <2>1, <3>2, PhaseFacts, PhaseFactsNext DEF TypeOK
    <3> QED
      BY <3>1, <3>2
  <2> QED
    BY <1>2, <2>1, <2>2 DEF Proof, Authority!vars, Authority!Next, Authority!Advance,
       Authority!Move
<1>5. CASE RecordHumanReview
  <2>1. /\ prop = "HUMAN_REVIEW" /\ prop' = prop /\ review = "NONE"
        /\ review' \in {"APPROVE", "REJECT"} /\ approval = "NONE" /\ approval' = "NONE"
    BY <1>1, <1>5 DEF RecordHumanReview, ChainInv
  <2>2. phase = "REVIEW" /\ phase' = "REVIEW"
    BY <1>1, <2>1, PhaseFacts, PhaseFactsNext
  <2> QED
    BY <1>2, <2>1, <2>2 DEF Proof, Authority!Next, Authority!Decide
<1>6. CASE \E a \in {"HUMAN_OPERATOR", "CONTROL_PLANE"} : FinalizeFinding(a)
  <2>1. PICK a \in {"HUMAN_OPERATOR", "CONTROL_PLANE"} : FinalizeFinding(a)
    BY <1>6
  <2>2. /\ UNCHANGED review /\ prop = "HUMAN_REVIEW" /\ approval = "NONE" /\ approval' = review
        /\ review \in {"APPROVE", "REJECT"}
    BY <2>1, FinalizeFacts
  <2>3. /\ phase = "REVIEW"
        /\ \/ review = "APPROVE" /\ phase' = "FINDING"
           \/ review = "REJECT" /\ phase' = "REFUSED"
    BY <1>1, <2>2, PhaseFacts, PhaseFactsNext
  <2> QED
    BY <1>2, <2>2, <2>3 DEF Proof, Authority!Next, Authority!Conclude
<1> QED
  BY <1>3, <1>4, <1>5, <1>6 DEF HumanNext

(***************************************************************************)
(* The promotion implements FindingAuthority, for any number of reports,   *)
(* advances, reviews, reproductions and crashes, overlapping or not: the   *)
(* claim goes one way, is validated by one reproduction and is a finding   *)
(* exactly when the human approved it.                                     *)
(***************************************************************************)
THEOREM PromotionRefines ==
    Spec => ImplementsAuthority
<1>1. Init => Authority!Init
  BY DEF Init, Authority!Init, phase
<1>2. IInv /\ IInv' /\ [Next]_vars => [Authority!Next]_(Authority!vars)
  <2> SUFFICES ASSUME IInv, IInv', [Next]_vars PROVE [Authority!Next]_(Authority!vars)
    OBVIOUS
  <2>1. CASE UNCHANGED vars
    BY <2>1 DEF vars, Authority!vars, phase
  <2>2. CASE V3Ends
    BY <2>2 DEF V3Ends, authority, human, Authority!vars, phase
  <2> QED
    BY <2>1, <2>2, AdvanceRefines, ReporterEffect, ReportRefines, HumanRefines
       DEF Next, HumanNext
<1> QED
  BY <1>1, <1>2, Invariance, PTL DEF Spec, ImplementsAuthority, Authority!Spec
=============================================================================
