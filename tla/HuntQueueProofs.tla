-------------------------- MODULE HuntQueueProofs --------------------------
(***************************************************************************)
(* Safety of HuntQueue, for any graph, registries, approvers, dispatchers, *)
(* units and number of hypotheses.                                         *)
(***************************************************************************)
EXTENDS HuntQueue, TLAPS

QueueState == {"NONE", "PENDING", "APPROVED", "RUN", "BLOCKED"}

(* What the steps of the queue need of the types.  A compiled plan and the
   executor's answer are carried along and may be anything. *)
IsTask(t) == \E s, q, u, p, a : t = [step |-> s, q |-> q, unit |-> u, plan |-> p, status |-> a]

Typed ==
    /\ Len(hyps) \in 0 .. MaxHyps /\ work \in Seq(1 .. Len(hyps))
    /\ queue \in [Hyp -> QueueState]
    /\ approval \in [Hyp -> {"NONE", "APPROVE", "REJECT"}]
    /\ approving \in [Approver -> {0} \cup Hyp]
    /\ disp = [d \in Dispatcher |-> disp[d]]
    /\ \A d \in Dispatcher : IsTask(disp[d]) /\ disp[d].q \in {0} \cup Hyp

(* Hypothesis h was validated and is in scope: this is never taken back. *)
Vetted(h) ==
    /\ h \in 1 .. Len(hyps)
    /\ NodeOf(hyps[h].node).scope = IN_SCOPE
    /\ {Decision(h, "V1", "PASSED"), Decision(h, "V2", "PASSED"),
        Decision(h, "V3", "QUEUED")} \subseteq events

(* ... and a human approved it. *)
Cleared(h) == Vetted(h) /\ approval[h] = "APPROVE"

QueueInv ==
    /\ \A h \in Hyp : queue[h] # "NONE" => Vetted(h)
    /\ \A h \in Hyp : queue[h] \in {"APPROVED", "RUN", "BLOCKED"} => approval[h] = "APPROVE"

ApprovingInv ==
    \A a \in Approver : approving[a] # 0 =>
        Cleared(approving[a]) /\ queue[approving[a]] # "NONE"

(* A dispatcher's unit is one of a family that has units, and is on record
   before it is executed. *)
DispInv ==
    \A d \in Dispatcher : disp[d].step # "idle" =>
        /\ Cleared(disp[d].q)
        /\ disp[d].unit # -1 => Units(disp[d].q)
        /\ disp[d].unit # -1 /\ disp[d].step # "prepared" => _prior_unit(disp[d].q, disp[d].unit)
        /\ disp[d].unit # -1 /\ disp[d].step \in {"prepared", "intended"} =>
              ~\E r \in runs : r.q = disp[d].q /\ r.unit = disp[d].unit /\ r.by = d

RunsInv ==
    \A r \in runs : Cleared(r.q) /\ (r.unit # -1 => _prior_unit(r.q, r.unit))

(* The hypotheses that wait for validation are not queued yet, each once. *)
WorkInv ==
    /\ \A i \in 1 .. Len(work) : queue[work[i]] = "NONE"
    /\ \A i, j \in 1 .. Len(work) : work[i] = work[j] => i = j

IInv ==
    /\ Typed /\ QueueInv /\ ApprovingInv /\ DispInv /\ RunsInv
    /\ UnitOncePerDispatcher /\ WorkInv

----------------------------------------------------------------------------
(* What a step leaves alone. *)

LEMMA Unmoved ==
    ASSUME IInv, UNCHANGED <<cycle, queue, approval, approving, units, disp, runs>>
    PROVE  IInv'
<1> USE DEF cycle
<1>1. \A h : (Vetted(h) <=> Vetted(h)') /\ (Cleared(h) <=> Cleared(h)')
  BY DEF Vetted, Cleared
<1>2. \A q, u : (Units(q) <=> Units(q)') /\ (_prior_unit(q, u) <=> _prior_unit(q, u)')
  BY DEF Units, ItemFamily, FamilyOf, _prior_unit
<1>3. Typed' /\ UnitOncePerDispatcher' /\ WorkInv'
  BY DEF IInv, Typed, UnitOncePerDispatcher, WorkInv
<1>4. QueueInv' /\ ApprovingInv' /\ RunsInv'
  BY <1>1, <1>2 DEF IInv, QueueInv, ApprovingInv, RunsInv
<1>5. DispInv'
  BY <1>1, <1>2 DEF IInv, DispInv
<1> QED
  BY <1>3, <1>4, <1>5 DEF IInv

(* The verdict on a hypothesis stands while hypotheses, events and approvals
   only grow. *)
LEMMA VerdictsStand ==
    ASSUME Typed, Len(hyps') \in Len(hyps) .. MaxHyps,
           \A i \in 1 .. Len(hyps) : hyps'[i] = hyps[i],
           events \subseteq events', registry' = registry, NEW h, Vetted(h)
    PROVE  Vetted(h)' /\ (Units(h)' <=> Units(h))
<1>1. h \in 1 .. Len(hyps) /\ hyps'[h] = hyps[h] /\ h \in 1 .. Len(hyps')
  BY DEF Typed, Vetted
<1> QED
  BY <1>1 DEF Vetted, Units, ItemFamily, FamilyOf

----------------------------------------------------------------------------
(* The cycle. *)

LEMMA GenerateKeeps ==
    ASSUME IInv, NEW cells, Generate(cells)
    PROVE  IInv'
<1> DEFINE n == Len(hyps)
           k == Len(cells)
<1>1. n \in 0 .. MaxHyps /\ k \in 1 .. MaxHyps - n /\ hyps' = hyps \o cells /\ work = <<>>
  BY DEF IInv, Typed, Generate
<1>2. Len(hyps') = n + k /\ \A i \in 1 .. n : hyps'[i] = hyps[i]
  BY <1>1
<1>3. work' = [i \in 1 .. k |-> n + i] /\ k \in Nat
  BY <1>1 DEF Generate
<1>4. work' \in Seq(1 .. n + k) /\ Len(work') = k
  BY <1>1, <1>3
<1>5. UNCHANGED <<registry, events, queue, approval, approving, units, disp, runs>>
  BY DEF Generate
<1>6. \A h : Vetted(h) => Vetted(h)' /\ (Units(h)' <=> Units(h))
  BY <1>1, <1>2, <1>5, VerdictsStand, BoundAssumption DEF IInv
<1>7. \A h : Cleared(h) => Cleared(h)' /\ (Units(h)' <=> Units(h))
  BY <1>5, <1>6 DEF Cleared
<1>8. \A q, u : _prior_unit(q, u) <=> _prior_unit(q, u)'
  BY <1>5 DEF _prior_unit
<1>9. Typed'
  BY <1>1, <1>2, <1>4, <1>5, BoundAssumption DEF IInv, Typed
<1>10. QueueInv' /\ ApprovingInv' /\ RunsInv'
  BY <1>5, <1>6, <1>7, <1>8 DEF IInv, QueueInv, ApprovingInv, RunsInv
<1>11. DispInv'
  BY <1>5, <1>7, <1>8 DEF IInv, DispInv
<1>12. WorkInv'
  <2>1. \A h \in n + 1 .. MaxHyps : queue[h] = "NONE"
    BY <1>1, BoundAssumption DEF IInv, QueueInv, Vetted, Hyp
  <2>2. \A i \in 1 .. Len(work') : work'[i] = n + i /\ n + i \in n + 1 .. MaxHyps
    BY <1>1, <1>3, <1>4, BoundAssumption
  <2>3. \A i \in 1 .. Len(work') : queue'[work'[i]] = "NONE"
    BY <1>5, <2>1, <2>2
  <2>4. \A i, j \in 1 .. Len(work') : work'[i] = work'[j] => i = j
    BY <1>1, <1>4, <2>2
  <2> QED
    BY <2>3, <2>4 DEF WorkInv
<1>13. UnitOncePerDispatcher'
  BY <1>5 DEF IInv, UnitOncePerDispatcher
<1> QED
  BY <1>9, <1>10, <1>11, <1>12, <1>13 DEF IInv

(* The validation of h keeps what is known of the others, and queues h only
   once it has its three decisions. *)
LEMMA ValidateKeeps ==
    ASSUME IInv, ValidateHuntTiers
    PROVE  IInv'
<1> PICK h : h = Head(work)
  OBVIOUS
<1>1. /\ UNCHANGED <<registry, hyps, approval, approving, units, disp, runs>>
      /\ work # <<>> /\ ValidateTiers(h)
  BY DEF ValidateHuntTiers
<1>2. /\ work \in Seq(1 .. Len(hyps)) /\ Len(hyps) \in 0 .. MaxHyps
      /\ h \in 1 .. Len(hyps) /\ h \in Hyp /\ h = work[1] /\ Len(work) \in Nat \ {0}
  BY <1>1, BoundAssumption DEF IInv, Typed, Hyp
<1>3. events \subseteq events'
  BY <1>1 DEF ValidateTiers
<1>4. \A g : Vetted(g) => Vetted(g)' /\ (Units(g)' <=> Units(g))
  BY <1>1, <1>2, <1>3, VerdictsStand DEF IInv
<1>5. \A g : Cleared(g) => Cleared(g)' /\ (Units(g)' <=> Units(g))
  BY <1>1, <1>4 DEF Cleared
<1>6. \A q, u : _prior_unit(q, u) <=> _prior_unit(q, u)'
  BY <1>1 DEF _prior_unit
<1>7. /\ work' = <<>> \/ work' = Tail(work)
      /\ \/ queue' = queue
         \/ queue' = [queue EXCEPT ![h] = "PENDING"] /\ Vetted(h)'
  <2> DEFINE nd == NodeOf(hyps[h].node)
             f == FamilyOf(hyps[h].family)
             v1 == _v1_static_check(nd, f, Graph)
             v2 == _v2_passive_check(nd, f, Graph)
             queued == v1 /\ v2 /\ f.tier = "V3"
  <2>1. CASE queued /\ EnqueueRaises(nd, f)
    BY <1>1, <2>1 DEF ValidateTiers
  <2>2. CASE ~(queued /\ EnqueueRaises(nd, f))
    <3>1. /\ events' = events \cup _tier_audit(h, v1, v2, queued)
          /\ queue' = IF queued THEN [queue EXCEPT ![h] = "PENDING"] ELSE queue
          /\ work' = Tail(work)
      BY <1>1, <2>2 DEF ValidateTiers
    <3>2. ASSUME queued PROVE Vetted(h)'
      <4>1. nd.scope = IN_SCOPE
        BY <2>2, <3>2 DEF EnqueueRaises
      <4>2. {Decision(h, "V1", "PASSED"), Decision(h, "V2", "PASSED"),
             Decision(h, "V3", "QUEUED")} \subseteq _tier_audit(h, v1, v2, queued)
        BY <3>2 DEF _tier_audit
      <4> QED
        BY <1>1, <1>2, <3>1, <4>1, <4>2 DEF Vetted
    <3> QED
      BY <3>1, <3>2
  <2> QED
    BY <2>1, <2>2
<1>8. /\ queue' \in [Hyp -> QueueState] /\ queue[h] = "NONE"
      /\ \A g \in Hyp : \/ queue'[g] = queue[g]
                        \/ g = h /\ queue'[g] = "PENDING" /\ Vetted(g)'
  <2>1. 1 \in 1 .. Len(work)
    BY <1>2
  <2>2. queue[h] = "NONE" /\ queue \in [Hyp -> QueueState]
    BY <1>2, <2>1 DEF IInv, Typed, WorkInv
  <2>3. queue' \in [Hyp -> QueueState]
    BY <1>2, <1>7, <2>2 DEF QueueState
  <2>4. ASSUME NEW g \in Hyp, queue'[g] # queue[g]
        PROVE  g = h /\ queue'[g] = "PENDING"
    BY <1>2, <1>7, <2>2, <2>4
  <2>5. queue' # queue => Vetted(h)'
    BY <1>7
  <2>6. ASSUME NEW g \in Hyp, queue'[g] # queue[g]
        PROVE  Vetted(g)'
    <3>1. g = h /\ Vetted(h)'
      BY <2>4, <2>5, <2>6
    <3> QED
      BY <3>1 DEF Vetted
  <2> QED
    BY <2>2, <2>3, <2>4, <2>6
<1>9. /\ work' \in Seq(1 .. Len(hyps)) /\ Len(work') \in Nat
      /\ \A i \in 1 .. Len(work') : i + 1 \in 1 .. Len(work) /\ work'[i] = work[i + 1]
  <2>1. CASE work' = <<>>
    BY <2>1
  <2>2. CASE work' = Tail(work)
    BY <1>1, <1>2, <2>2
  <2> QED
    BY <1>7, <2>1, <2>2
<1>10. Typed'
  BY <1>1, <1>8, <1>9 DEF IInv, Typed
<1>11. QueueInv' /\ ApprovingInv' /\ RunsInv'
  BY <1>1, <1>4, <1>5, <1>6, <1>8 DEF IInv, QueueInv, ApprovingInv, RunsInv, Typed
<1>12. DispInv'
  BY <1>1, <1>5, <1>6 DEF IInv, DispInv
<1>13. WorkInv'
  <2>1. \A i \in 1 .. Len(work') : work[i + 1] # h /\ queue[work[i + 1]] = "NONE"
                                   /\ work[i + 1] \in Hyp
    <3> SUFFICES ASSUME NEW i \in 1 .. Len(work')
                 PROVE  work[i + 1] # h /\ queue[work[i + 1]] = "NONE" /\ work[i + 1] \in Hyp
      OBVIOUS
    <3>1. 1 \in 1 .. Len(work) /\ i + 1 \in 1 .. Len(work) /\ i + 1 # 1
      BY <1>2, <1>9
    <3>2. work[i + 1] # h /\ queue[work[i + 1]] = "NONE"
      BY <1>2, <3>1 DEF IInv, WorkInv
    <3>3. work[i + 1] \in 1 .. Len(hyps)
      BY <1>2, <3>1
    <3> QED
      BY <1>2, <3>2, <3>3, BoundAssumption DEF Hyp
  <2>2. \A i \in 1 .. Len(work') : queue'[work'[i]] = "NONE"
    BY <1>8, <1>9, <2>1
  <2>3. \A i, j \in 1 .. Len(work') : work'[i] = work'[j] => i = j
    BY <1>2, <1>9 DEF IInv, WorkInv
  <2> QED
    BY <2>2, <2>3 DEF WorkInv
<1>14. UnitOncePerDispatcher'
  BY <1>1 DEF IInv, UnitOncePerDispatcher
<1> QED
  BY <1>10, <1>11, <1>12, <1>13, <1>14 DEF IInv

LEMMA CycleCrashKeeps ==
    ASSUME IInv, CycleCrash
    PROVE  IInv'
<1>1. UNCHANGED <<registry, hyps, events, queue, approval, approving, units, disp, runs>>
  BY DEF CycleCrash
<1>2. work' = <<>> /\ Len(work') = 0
  BY DEF CycleCrash
<1>3. Typed' /\ WorkInv'
  BY <1>1, <1>2 DEF IInv, Typed, WorkInv
<1>4. \A h : (Vetted(h) <=> Vetted(h)') /\ (Cleared(h) <=> Cleared(h)')
  BY <1>1 DEF Vetted, Cleared
<1>5. \A q, u : (Units(q) <=> Units(q)') /\ (_prior_unit(q, u) <=> _prior_unit(q, u)')
  BY <1>1 DEF Units, ItemFamily, FamilyOf, _prior_unit
<1>6. UnitOncePerDispatcher'
  BY <1>1 DEF IInv, UnitOncePerDispatcher
<1>7. QueueInv' /\ ApprovingInv' /\ RunsInv' /\ DispInv'
  BY <1>1, <1>4, <1>5 DEF IInv, QueueInv, ApprovingInv, RunsInv, DispInv
<1> QED
  BY <1>3, <1>6, <1>7 DEF IInv

----------------------------------------------------------------------------
(* Approval. *)

(* Approvals only grow, and nothing a verdict rests on changes. *)
LEMMA ClearedStands ==
    ASSUME UNCHANGED cycle, NEW h,
           Cleared(h), approval'[h] = approval[h]
    PROVE  Cleared(h)'
  BY DEF cycle, Cleared, Vetted

LEMMA SameVerdicts ==
    ASSUME UNCHANGED cycle
    PROVE  \A h : (Vetted(h) <=> Vetted(h)') /\ (Units(h) <=> Units(h)')
  BY DEF cycle, Vetted, Units, ItemFamily, FamilyOf

LEMMA RecordKeeps ==
    ASSUME IInv, NEW h \in Hyp, NEW decision \in {"APPROVE", "REJECT"},
           RecordApproval(h, decision)
    PROVE  IInv'
<1>1. /\ UNCHANGED <<cycle, queue, approving, units, disp, runs>>
      /\ approval[h] = "NONE" /\ approval' = [approval EXCEPT ![h] = decision]
  BY DEF RecordApproval
<1>2. UNCHANGED <<registry, hyps, events, work>>
  BY <1>1 DEF cycle
<1>3. \A g \in Hyp : approval[g] = "APPROVE" => approval'[g] = approval[g]
  BY <1>1 DEF IInv, Typed
<1>4. \A g \in Hyp : Cleared(g) => Cleared(g)'
  BY <1>1, <1>3, ClearedStands DEF Cleared
<1>5. \A g : (Vetted(g) <=> Vetted(g)') /\ (Units(g) <=> Units(g)')
  BY <1>1, SameVerdicts
<1>6. \A q, u : _prior_unit(q, u) <=> _prior_unit(q, u)'
  BY <1>1 DEF _prior_unit
<1>7. \A g : Cleared(g) => g \in Hyp
  BY BoundAssumption DEF IInv, Typed, Cleared, Vetted, Hyp
<1>8. Typed'
  BY <1>1, <1>2 DEF IInv, Typed
<1>9. QueueInv' /\ ApprovingInv' /\ RunsInv'
  BY <1>1, <1>3, <1>4, <1>5, <1>6, <1>7 DEF IInv, QueueInv, ApprovingInv, RunsInv
<1>10. DispInv'
  BY <1>1, <1>4, <1>5, <1>6, <1>7 DEF IInv, DispInv
<1>11. UnitOncePerDispatcher' /\ WorkInv'
  BY <1>1, <1>2 DEF IInv, UnitOncePerDispatcher, WorkInv
<1> QED
  BY <1>8, <1>9, <1>10, <1>11 DEF IInv

(* What authorizes an item is a human's APPROVE. *)
LEMMA AuthorizedIsApproved ==
    ASSUME Typed, NEW h \in Hyp, Authorizes(h)
    PROVE  approval[h] = "APPROVE"
  BY DEF Typed, Authorizes, Core!check_approval, Core!NoApproval

LEMMA ReadKeeps ==
    ASSUME IInv, NEW a \in Approver, NEW h \in Hyp, ReadPending(a, h)
    PROVE  IInv'
<1>1. /\ UNCHANGED <<cycle, queue, approval, units, disp, runs>>
      /\ queue[h] = "PENDING" /\ approving' = [approving EXCEPT ![a] = h]
  BY DEF ReadPending
<1>2. UNCHANGED <<registry, hyps, events, work>>
  BY <1>1 DEF cycle
<1>3. \A g : (Vetted(g) <=> Vetted(g)') /\ (Units(g) <=> Units(g)') /\ (Cleared(g) <=> Cleared(g)')
  BY <1>1, SameVerdicts DEF Cleared
<1>4. \A q, u : _prior_unit(q, u) <=> _prior_unit(q, u)'
  BY <1>1 DEF _prior_unit
<1>5. Typed'
  BY <1>1, <1>2 DEF IInv, Typed
<1>6. Cleared(h)
  BY <1>1, AuthorizedIsApproved DEF IInv, QueueInv, Cleared, ReadPending
<1>7. ApprovingInv'
  BY <1>1, <1>3, <1>6 DEF IInv, Typed, ApprovingInv
<1>8. QueueInv' /\ RunsInv' /\ DispInv'
  BY <1>1, <1>3, <1>4 DEF IInv, QueueInv, RunsInv, DispInv
<1>9. UnitOncePerDispatcher' /\ WorkInv'
  BY <1>1, <1>2 DEF IInv, UnitOncePerDispatcher, WorkInv
<1> QED
  BY <1>5, <1>7, <1>8, <1>9 DEF IInv

(* A queue that changes only at items that were vetted, approved and queued. *)
LEMMA QueueMoves ==
    ASSUME IInv, UNCHANGED cycle, UNCHANGED approval,
           queue' \in [Hyp -> QueueState],
           \A h \in Hyp : queue'[h] # queue[h] => Cleared(h) /\ queue[h] # "NONE"
    PROVE  QueueInv' /\ WorkInv'
<1>1. UNCHANGED <<registry, hyps, events, work>>
  BY DEF cycle
<1>2. \A h : (Vetted(h) <=> Vetted(h)')
  BY SameVerdicts
<1>3. QueueInv'
  BY <1>2 DEF IInv, QueueInv, Cleared
<1>4. \A i \in 1 .. Len(work) : work[i] \in Hyp
  BY BoundAssumption DEF IInv, Typed, Hyp
<1>5. WorkInv'
  BY <1>1, <1>4 DEF IInv, WorkInv
<1> QED
  BY <1>3, <1>5

LEMMA ApproveKeeps ==
    ASSUME IInv, NEW a \in Approver, ApproveHuntV3Queue(a)
    PROVE  IInv'
<1> PICK h : h = approving[a]
  OBVIOUS
<1>1. /\ UNCHANGED <<cycle, approval, units, disp, runs>> /\ h # 0
      /\ queue' = [queue EXCEPT ![h] = "APPROVED"] /\ approving' = [approving EXCEPT ![a] = 0]
  BY DEF ApproveHuntV3Queue
<1>2. UNCHANGED <<registry, hyps, events, work>>
  BY <1>1 DEF cycle
<1>3. \A g : (Vetted(g) <=> Vetted(g)') /\ (Units(g) <=> Units(g)') /\ (Cleared(g) <=> Cleared(g)')
  BY <1>1, SameVerdicts DEF Cleared
<1>4. \A q, u : _prior_unit(q, u) <=> _prior_unit(q, u)'
  BY <1>1 DEF _prior_unit
<1>5. h \in Hyp /\ Cleared(h)
  BY <1>1 DEF IInv, Typed, ApprovingInv
<1>6. Typed'
  BY <1>1, <1>2 DEF IInv, Typed, QueueState
<1>7. QueueInv'
  BY <1>1, <1>3, <1>5 DEF IInv, Typed, QueueInv, Cleared
<1>8. ApprovingInv' /\ RunsInv' /\ DispInv'
  BY <1>1, <1>3, <1>4 DEF IInv, Typed, ApprovingInv, RunsInv, DispInv
<1>9. UnitOncePerDispatcher'
  BY <1>1 DEF IInv, UnitOncePerDispatcher
<1>10. WorkInv'
  BY <1>1, <1>5, <1>6, QueueMoves DEF IInv, Typed, ApprovingInv
<1> QED
  BY <1>6, <1>7, <1>8, <1>9, <1>10 DEF IInv

----------------------------------------------------------------------------
(* Dispatch: the task a step leaves its dispatcher with. *)
Moved(t, v) == [t EXCEPT !.step = v]
Answered(t, w) == [t EXCEPT !.step = "executed", !.status = w]
Prepared(q, u, c) == [Idle EXCEPT !.step = "prepared", !.q = q, !.unit = u, !.plan = c]

LEMMA MovedTask ==
    ASSUME NEW t, IsTask(t), NEW v
    PROVE  /\ IsTask(Moved(t, v)) /\ Moved(t, v).step = v
           /\ Moved(t, v).q = t.q /\ Moved(t, v).unit = t.unit
<1> PICK s, q, u, p, a : t = [step |-> s, q |-> q, unit |-> u, plan |-> p, status |-> a]
  BY DEF IsTask
<1>1. Moved(t, v) = [step |-> v, q |-> q, unit |-> u, plan |-> p, status |-> a]
  BY DEF Moved
<1>2. PICK z : z = Moved(t, v)
  OBVIOUS
<1>3. z = [step |-> v, q |-> q, unit |-> u, plan |-> p, status |-> a]
  BY <1>1, <1>2
<1>4. IsTask(z)
  BY <1>3 DEF IsTask
<1> QED
  BY <1>2, <1>3, <1>4

LEMMA AnsweredTask ==
    ASSUME NEW t, IsTask(t), NEW w
    PROVE  /\ IsTask(Answered(t, w)) /\ Answered(t, w).step = "executed"
           /\ Answered(t, w).q = t.q /\ Answered(t, w).unit = t.unit
<1> PICK s, q, u, p, a : t = [step |-> s, q |-> q, unit |-> u, plan |-> p, status |-> a]
  BY DEF IsTask
<1>1. PICK x : x = [t EXCEPT !.step = "executed"]
  OBVIOUS
<1>2. x = [step |-> "executed", q |-> q, unit |-> u, plan |-> p, status |-> a]
  BY <1>1
<1>3. [x EXCEPT !.status = w] = [step |-> "executed", q |-> q, unit |-> u, plan |-> p, status |-> w]
  BY <1>2
<1>4. Answered(t, w) = [[t EXCEPT !.step = "executed"] EXCEPT !.status = w]
  BY DEF Answered
<1>5. Answered(t, w) = [step |-> "executed", q |-> q, unit |-> u, plan |-> p, status |-> w]
  BY <1>1, <1>3, <1>4
<1>6. PICK z : z = Answered(t, w)
  OBVIOUS
<1>7. z = [step |-> "executed", q |-> q, unit |-> u, plan |-> p, status |-> w]
  BY <1>5, <1>6
<1>8. IsTask(z)
  BY <1>7 DEF IsTask
<1> QED
  BY <1>6, <1>7, <1>8

LEMMA IdleFacts ==
    IsTask(Idle) /\ Idle.step = "idle" /\ Idle.q = 0
  BY DEF IsTask, Idle

LEMMA PreparedTask ==
    ASSUME NEW q, NEW u, NEW c
    PROVE  /\ IsTask(Prepared(q, u, c)) /\ Prepared(q, u, c).step = "prepared"
           /\ Prepared(q, u, c).q = q /\ Prepared(q, u, c).unit = u
<1>1. PICK x : x = [Idle EXCEPT !.step = "prepared"]
  OBVIOUS
<1>2. x = [step |-> "prepared", q |-> 0, unit |-> -1, plan |-> _blocked("NONE"), status |-> "NONE"]
  BY <1>1 DEF Idle
<1>3. PICK y : y = [x EXCEPT !.q = q]
  OBVIOUS
<1>4. y = [step |-> "prepared", q |-> q, unit |-> -1, plan |-> _blocked("NONE"), status |-> "NONE"]
  BY <1>2, <1>3
<1>5. PICK w : w = [y EXCEPT !.unit = u]
  OBVIOUS
<1>6. w = [step |-> "prepared", q |-> q, unit |-> u, plan |-> _blocked("NONE"), status |-> "NONE"]
  BY <1>4, <1>5
<1>7. [w EXCEPT !.plan = c] = [step |-> "prepared", q |-> q, unit |-> u, plan |-> c, status |-> "NONE"]
  BY <1>6
<1>8. Prepared(q, u, c)
        = [[[[Idle EXCEPT !.step = "prepared"] EXCEPT !.q = q] EXCEPT !.unit = u] EXCEPT !.plan = c]
  BY DEF Prepared
<1>9. Prepared(q, u, c) = [step |-> "prepared", q |-> q, unit |-> u, plan |-> c, status |-> "NONE"]
  BY <1>1, <1>3, <1>5, <1>7, <1>8
<1>10. PICK z : z = Prepared(q, u, c)
  OBVIOUS
<1>11. z = [step |-> "prepared", q |-> q, unit |-> u, plan |-> c, status |-> "NONE"]
  BY <1>9, <1>10
<1>12. IsTask(z)
  BY <1>11 DEF IsTask
<1> QED
  BY <1>10, <1>11, <1>12

(* A step of dispatcher d that leaves it with task t, whatever else it does
   to the queue, the units and the runs. *)
DispatchEffect(d, t) ==
    /\ UNCHANGED <<cycle, approval, approving>>
    /\ disp' = [disp EXCEPT ![d] = t] /\ IsTask(t) /\ t.q \in {0} \cup Hyp
    /\ queue' \in [Hyp -> QueueState]
    /\ \A h \in Hyp : queue'[h] # queue[h] => queue[h] = "APPROVED" /\ queue'[h] \in {"RUN", "BLOCKED"}
    /\ units \subseteq units'
    /\ \A r \in runs' \ runs :
          /\ disp[d].step = "intended" /\ t.step = "executed"
          /\ r.q = disp[d].q /\ r.unit = disp[d].unit /\ r.by = d
    /\ \A r, s \in runs' \ runs : r = s
    /\ t.step # "idle" =>
          /\ Cleared(t.q) /\ (t.unit # -1 => Units(t.q))
          /\ t.unit # -1 /\ t.step # "prepared" => _prior_unit(t.q, t.unit)'
          /\ t.unit # -1 /\ t.step \in {"prepared", "intended"} =>
                ~\E r \in runs' : r.q = t.q /\ r.unit = t.unit /\ r.by = d
    /\ runs \subseteq runs'

LEMMA DispatchKeeps ==
    ASSUME IInv, NEW d \in Dispatcher, NEW t, DispatchEffect(d, t)
    PROVE  IInv'
<1> USE DEF DispatchEffect
<1>1. UNCHANGED <<registry, hyps, events, work>>
  BY DEF cycle
<1>2. \A g : (Vetted(g) <=> Vetted(g)') /\ (Units(g) <=> Units(g)') /\ (Cleared(g) <=> Cleared(g)')
  BY SameVerdicts DEF Cleared
<1>3. \A q, u : _prior_unit(q, u) => _prior_unit(q, u)'
  BY DEF _prior_unit
<1>4. /\ disp' = [e \in Dispatcher |-> disp'[e]] /\ disp'[d] = t
      /\ \A e \in Dispatcher : e # d => disp'[e] = disp[e]
  BY DEF IInv, Typed
<1>5. Typed'
  BY <1>1, <1>4 DEF IInv, Typed
<1>6. \A h \in Hyp : queue'[h] # queue[h] => Cleared(h) /\ queue[h] # "NONE"
  BY DEF IInv, QueueInv, Cleared
<1>7. QueueInv' /\ WorkInv'
  BY <1>6, QueueMoves
<1>8. ApprovingInv'
  <2>1. \A h \in Hyp : /\ queue[h] # "NONE" => queue'[h] # "NONE"
                       /\ queue[h] = "PENDING" => queue'[h] = "PENDING"
    OBVIOUS
  <2> QED
    BY <1>2, <2>1 DEF IInv, Typed, ApprovingInv
<1>9. RunsInv'
  <2> SUFFICES ASSUME NEW r \in runs'
               PROVE  Cleared(r.q)' /\ (r.unit # -1 => _prior_unit(r.q, r.unit)')
    BY DEF RunsInv
  <2>1. CASE r \in runs
    BY <1>2, <1>3, <2>1 DEF IInv, RunsInv
  <2>2. CASE r \notin runs
    <3>1. disp[d].step = "intended" /\ r.q = disp[d].q /\ r.unit = disp[d].unit
      BY <2>2
    <3> QED
      BY <1>2, <1>3, <3>1 DEF IInv, DispInv
  <2> QED
    BY <2>1, <2>2
<1>10. DispInv'
  <2> SUFFICES ASSUME NEW e \in Dispatcher
               PROVE  (disp[e].step # "idle" =>
                         /\ Cleared(disp[e].q)
                         /\ disp[e].unit # -1 => Units(disp[e].q)
                         /\ disp[e].unit # -1 /\ disp[e].step # "prepared" =>
                               _prior_unit(disp[e].q, disp[e].unit)
                         /\ disp[e].unit # -1 /\ disp[e].step \in {"prepared", "intended"} =>
                               ~\E r \in runs : /\ r.q = disp[e].q /\ r.unit = disp[e].unit
                                                /\ r.by = e)'
    BY DEF DispInv
  <2>1. CASE e = d
    <3>1. disp'[e] = t
      BY <1>4, <2>1
    <3> QED
      BY <1>2, <2>1, <3>1 DEF _prior_unit
  <2>2. CASE e # d
    <3>1. disp'[e] = disp[e]
      BY <1>4, <2>2
    <3>2. \A r \in runs' : r.by = e => r \in runs
      BY <2>2
    <3> QED
      BY <1>2, <1>3, <3>1, <3>2 DEF IInv, DispInv
  <2> QED
    BY <2>1, <2>2
<1>11. UnitOncePerDispatcher'
  <2> SUFFICES ASSUME NEW r \in runs', NEW s \in runs', r.unit # -1,
                      r.q = s.q, r.unit = s.unit, r.by = s.by
               PROVE  r = s
    BY DEF UnitOncePerDispatcher
  <2>1. CASE r \in runs /\ s \in runs
    BY <2>1 DEF IInv, UnitOncePerDispatcher
  <2>2. CASE r \notin runs /\ s \notin runs
    BY <2>2
  <2>3. ASSUME NEW x \in runs' \ runs, NEW y \in runs, x.unit # -1,
               x.q = y.q, x.unit = y.unit, x.by = y.by
        PROVE  FALSE
    <3>1. /\ disp[d].step = "intended" /\ y.q = disp[d].q /\ y.unit = disp[d].unit
          /\ y.by = d /\ disp[d].unit # -1
      BY <2>3
    <3> QED
      BY <3>1 DEF IInv, DispInv
  <2> QED
    BY <2>1, <2>2, <2>3
<1> QED
  BY <1>5, <1>7, <1>8, <1>9, <1>10, <1>11 DEF IInv

LEMMA LoadKeeps ==
    ASSUME IInv, NEW d \in Dispatcher, NEW q \in Hyp, NEW unit \in Unit, NEW extra,
           Load(d, q, unit, extra)
    PROVE  IInv'
<1> PICK c : c = _compile(q, unit, extra)
  OBVIOUS
<1>1. /\ UNCHANGED <<cycle, approval, approving, runs>> /\ disp[d] = Idle
      /\ IF Units(q) THEN ~_prior_unit(q, unit) ELSE unit = -1
      /\ queue[q] = "APPROVED"
  BY DEF Load, _load_approved
<1>2. /\ queue \in [Hyp -> QueueState] /\ disp = [e \in Dispatcher |-> disp[e]] /\ Cleared(q)
  BY <1>1 DEF IInv, Typed, QueueInv, Cleared
<1>3. CASE c.outcome = "COMPILED"
  <2>1. PICK t : t = Prepared(q, unit, c)
    OBVIOUS
  <2>2. disp' = [disp EXCEPT ![d] = t] /\ UNCHANGED <<units, queue>>
    BY <1>3, <2>1 DEF Load, Prepared
  <2>3. IsTask(t) /\ t.step = "prepared" /\ t.q = q /\ t.unit = unit
    BY <2>1, PreparedTask
  <2>4. unit # -1 => ~\E r \in runs : r.q = q /\ r.unit = unit
    BY <1>1 DEF IInv, RunsInv
  <2>5. DispatchEffect(d, t)
    BY <1>1, <1>2, <2>2, <2>3, <2>4 DEF DispatchEffect
  <2> QED
    BY <2>5, DispatchKeeps
<1>4. CASE c.outcome # "COMPILED"
  <2>1. UNCHANGED disp /\ units \subseteq units' /\ (queue' = queue \/ queue' = [queue EXCEPT ![q] = "BLOCKED"])
    BY <1>4 DEF Load, _block, SetState
  <2>2. disp' = [disp EXCEPT ![d] = Idle]
    BY <1>1, <1>2, <2>1
  <2>3. queue' \in [Hyp -> QueueState]
    BY <1>2, <2>1 DEF QueueState
  <2>4. \A h \in Hyp : queue'[h] # queue[h] => queue[h] = "APPROVED" /\ queue'[h] \in {"RUN", "BLOCKED"}
    BY <1>1, <1>2, <2>1
  <2>5. DispatchEffect(d, Idle)
    BY <1>1, <2>1, <2>2, <2>3, <2>4, IdleFacts DEF DispatchEffect
  <2> QED
    BY <2>5, DispatchKeeps
<1> QED
  BY <1>3, <1>4

LEMMA IntendKeeps ==
    ASSUME IInv, NEW d \in Dispatcher, Intend(d)
    PROVE  IInv'
<1>1. PICK p : p = disp[d]
  OBVIOUS
<1>2. PICK t : t = Moved(p, "intended")
  OBVIOUS
<1>3. /\ UNCHANGED <<cycle, queue, approval, approving, runs>> /\ p.step = "prepared"
      /\ units' = IF Units(p.q) THEN units \cup {UnitEvent(p.q, p.unit, "INTENT", FALSE)} ELSE units
      /\ disp' = [disp EXCEPT ![d].step = "intended"]
  BY <1>1 DEF Intend
<1>4. disp' = [disp EXCEPT ![d] = t]
  BY <1>1, <1>2, <1>3 DEF Moved
<1>5. IsTask(p) /\ p.q \in {0} \cup Hyp /\ queue \in [Hyp -> QueueState]
  BY <1>1 DEF IInv, Typed
<1>6. IsTask(t) /\ t.step = "intended" /\ t.q = p.q /\ t.unit = p.unit
  BY <1>2, <1>5, MovedTask
<1>7. /\ Cleared(p.q) /\ (p.unit # -1 => Units(p.q))
      /\ p.unit # -1 => ~\E r \in runs : r.q = p.q /\ r.unit = p.unit /\ r.by = d
  BY <1>1, <1>3 DEF IInv, DispInv
<1>8. p.unit # -1 => _prior_unit(p.q, p.unit)'
  <2>1. UnitEvent(p.q, p.unit, "INTENT", FALSE).q = p.q /\ UnitEvent(p.q, p.unit, "INTENT", FALSE).unit = p.unit
    BY DEF UnitEvent
  <2>2. p.unit # -1 => UnitEvent(p.q, p.unit, "INTENT", FALSE) \in units'
    BY <1>3, <1>7
  <2> QED
    BY <2>1, <2>2 DEF _prior_unit
<1>9. DispatchEffect(d, t)
  BY <1>3, <1>4, <1>5, <1>6, <1>7, <1>8 DEF DispatchEffect, _prior_unit
<1> QED
  BY <1>9, DispatchKeeps

LEMMA ExecuteKeeps ==
    ASSUME IInv, NEW d \in Dispatcher, NEW view, NEW status, Execute(d, view, status)
    PROVE  IInv'
<1>1. PICK p : p = disp[d]
  OBVIOUS
<1>2. PICK t : t = Answered(p, status)
  OBVIOUS
<1>3. /\ UNCHANGED <<cycle, queue, approval, approving, units>> /\ p.step = "intended"
      /\ disp' = [disp EXCEPT ![d].step = "executed", ![d].status = status]
  BY <1>1 DEF Execute
<1>4. PICK nth : \/ runs' = runs
                 \/ runs' = runs \cup {[q |-> p.q, unit |-> p.unit, by |-> d, nth |-> nth]}
  BY <1>1 DEF Execute
<1>5. IsTask(p) /\ p.q \in {0} \cup Hyp /\ queue \in [Hyp -> QueueState]
      /\ disp = [e \in Dispatcher |-> disp[e]]
  BY <1>1 DEF IInv, Typed
<1>6. disp' = [disp EXCEPT ![d] = t]
  BY <1>1, <1>2, <1>3, <1>5 DEF Answered
<1>7. IsTask(t) /\ t.step = "executed" /\ t.q = p.q /\ t.unit = p.unit
  BY <1>2, <1>5, AnsweredTask
<1>8. /\ Cleared(p.q) /\ (p.unit # -1 => Units(p.q))
      /\ p.unit # -1 => _prior_unit(p.q, p.unit)'
  BY <1>1, <1>3 DEF IInv, DispInv, _prior_unit
<1>9. /\ runs \subseteq runs' /\ \A r, s \in runs' \ runs : r = s
      /\ \A r \in runs' \ runs : r.q = p.q /\ r.unit = p.unit /\ r.by = d
  BY <1>4
<1>10. DispatchEffect(d, t)
  BY <1>1, <1>3, <1>5, <1>6, <1>7, <1>8, <1>9 DEF DispatchEffect
<1> QED
  BY <1>10, DispatchKeeps

LEMMA AssessKeeps ==
    ASSUME IInv, NEW d \in Dispatcher, NEW outcome, Assess(d, outcome)
    PROVE  IInv'
<1>1. PICK p : p = disp[d]
  OBVIOUS
<1>2. PICK t : t = Moved(p, "assessed")
  OBVIOUS
<1>3. /\ UNCHANGED <<cycle, queue, approval, approving, units, runs>> /\ p.step = "executed"
      /\ disp' = [disp EXCEPT ![d].step = "assessed"]
  BY <1>1 DEF Assess
<1>4. disp' = [disp EXCEPT ![d] = t]
  BY <1>1, <1>2, <1>3 DEF Moved
<1>5. IsTask(p) /\ p.q \in {0} \cup Hyp /\ queue \in [Hyp -> QueueState]
  BY <1>1 DEF IInv, Typed
<1>6. IsTask(t) /\ t.step = "assessed" /\ t.q = p.q /\ t.unit = p.unit
  BY <1>2, <1>5, MovedTask
<1>7. /\ Cleared(p.q) /\ (p.unit # -1 => Units(p.q))
      /\ p.unit # -1 => _prior_unit(p.q, p.unit)'
  BY <1>1, <1>3 DEF IInv, DispInv, _prior_unit
<1>8. DispatchEffect(d, t)
  BY <1>3, <1>4, <1>5, <1>6, <1>7 DEF DispatchEffect
<1> QED
  BY <1>8, DispatchKeeps

LEMMA FinishKeeps ==
    ASSUME IInv, NEW d \in Dispatcher, Finish(d)
    PROVE  IInv'
<1>1. PICK p : p = disp[d]
  OBVIOUS
<1>2. /\ UNCHANGED <<cycle, approval, approving, runs>> /\ disp' = [disp EXCEPT ![d] = Idle]
      /\ units \subseteq units'
  BY <1>1 DEF Finish
<1>3. \/ queue' = queue
      \/ queue[p.q] = "APPROVED" /\ \E to \in {"RUN", "BLOCKED"} : queue' = [queue EXCEPT ![p.q] = to]
  BY <1>1 DEF Finish, _block, _mark_run, SetState
<1>4. p.q \in Hyp /\ queue \in [Hyp -> QueueState]
  BY <1>1, BoundAssumption DEF IInv, Typed, DispInv, Finish, Cleared, Vetted, Hyp
<1>5. queue' \in [Hyp -> QueueState]
  BY <1>3, <1>4 DEF QueueState
<1>6. \A h \in Hyp : queue'[h] # queue[h] => queue[h] = "APPROVED" /\ queue'[h] \in {"RUN", "BLOCKED"}
  BY <1>3, <1>4
<1>7. DispatchEffect(d, Idle)
  BY <1>2, <1>5, <1>6, IdleFacts DEF DispatchEffect
<1> QED
  BY <1>7, DispatchKeeps

LEMMA CrashKeeps ==
    ASSUME IInv, NEW d \in Dispatcher, Crash(d)
    PROVE  IInv'
<1>1. DispatchEffect(d, Idle)
  BY IdleFacts DEF IInv, Typed, Crash, DispatchEffect
<1> QED
  BY <1>1, DispatchKeeps

----------------------------------------------------------------------------

LEMMA Initially ==
    Init => IInv
<1> SUFFICES ASSUME Init
             PROVE  IInv
  OBVIOUS
<1> USE DEF Init
<1>1. \A d \in Dispatcher : disp[d] = Idle
  OBVIOUS
<1>2. Typed
  BY <1>1, IdleFacts, BoundAssumption DEF Typed, QueueState
<1>3. DispInv
  BY <1>1, IdleFacts DEF DispInv
<1>4. QueueInv /\ ApprovingInv /\ RunsInv /\ UnitOncePerDispatcher
  BY DEF QueueInv, ApprovingInv, RunsInv, UnitOncePerDispatcher
<1>5. WorkInv
  BY DEF WorkInv
<1> QED
  BY <1>2, <1>3, <1>4, <1>5 DEF IInv

LEMMA Inductive ==
    IInv /\ [Next]_vars => IInv'
<1> SUFFICES ASSUME IInv, [Next]_vars
             PROVE  IInv'
  OBVIOUS
<1>1. CASE RunHuntCycle
  BY <1>1, GenerateKeeps DEF RunHuntCycle
<1>2. CASE \E exhausted \in BOOLEAN : RunScheduledCycle(exhausted)
  BY <1>2, GenerateKeeps DEF RunScheduledCycle
<1>3. CASE ValidateHuntTiers
  BY <1>3, ValidateKeeps
<1>4. CASE CycleCrash
  BY <1>4, CycleCrashKeeps
<1>5. CASE HunterCoverageOpportunitySource
  BY <1>5, Unmoved DEF HunterCoverageOpportunitySource
<1>6. CASE RefreshLiveCoverageDebt
  BY <1>6, Unmoved DEF RefreshLiveCoverageDebt
<1>7. CASE \E f \in registry : EvaluateFamilyCircuitBreaker(f)
  BY <1>7, Unmoved DEF EvaluateFamilyCircuitBreaker
<1>8. CASE \E h \in Hyp, decision \in {"APPROVE", "REJECT"} : RecordApproval(h, decision)
  BY <1>8, RecordKeeps
<1>9. CASE \E a \in Approver : ApproveHuntV3Queue(a)
  BY <1>9, ApproveKeeps
<1>10. CASE \E a \in Approver, h \in Hyp : ReadPending(a, h)
  BY <1>10, ReadKeeps
<1>11. CASE \E d \in Dispatcher, q \in Hyp, unit \in Unit, extra \in ExtraFields : Load(d, q, unit, extra)
  BY <1>11, LoadKeeps
<1>12. CASE \E d \in Dispatcher : Intend(d) \/ Finish(d) \/ Crash(d)
  BY <1>12, IntendKeeps, FinishKeeps, CrashKeeps
<1>13. CASE \E d \in Dispatcher, view \in CoreViews, status \in Statuses : Execute(d, view, status)
  BY <1>13, ExecuteKeeps
<1>14. CASE \E d \in Dispatcher, outcome \in Outcomes : Assess(d, outcome)
  BY <1>14, AssessKeeps
<1>15. CASE UNCHANGED vars
  BY <1>15, Unmoved DEF vars
<1> QED
  BY <1>1, <1>2, <1>3, <1>4, <1>5, <1>6, <1>7, <1>8, <1>9, <1>10, <1>11, <1>12, <1>13, <1>14, <1>15
  DEF Next

(* The inductive invariant holds in every reachable state: what is queued was
   vetted, what is past PENDING was approved, and whatever an approver or a
   dispatcher still holds of the queue rests on verdicts that stand. *)
THEOREM Invariance ==
    Spec => []IInv
  BY Initially, Inductive, PTL DEF Spec

(* Whatever a worker was invoked for was in scope, validated, queued and
   approved as itself, by any number of approvers and dispatchers. *)
THEOREM OnlyApprovedIsRun ==
    Spec => []OnlyApprovedRuns
<1>1. IInv => OnlyApprovedRuns
  BY DEF IInv, RunsInv, Cleared, Vetted, OnlyApprovedRuns
<1> QED
  BY <1>1, Invariance, PTL

(* A dispatcher executes a unit of an item at most once, however often it
   crashes and is started again, and however many others work beside it. *)
THEOREM UnitNeverRetried ==
    Spec => []UnitOncePerDispatcher
<1>1. IInv => UnitOncePerDispatcher
  BY DEF IInv
<1> QED
  BY <1>1, Invariance, PTL

(* What a step makes of a settled item. *)
LEMMA SettledStep ==
    ASSUME IInv, [Next]_vars, NEW h \in Hyp, queue[h] \in {"RUN", "BLOCKED"}
    PROVE  /\ \A a \in Approver : approving'[a] = h => approving[a] = h
           /\ \/ queue'[h] = queue[h]
              \/ /\ queue'[h] = "APPROVED"
                 /\ \E a \in Approver : approving[a] = h /\ approving'[a] = 0
<1> USE DEF cycle
<1>0. queue \in [Hyp -> QueueState] /\ approving \in [Approver -> {0} \cup Hyp] /\ h # 0
  BY BoundAssumption DEF IInv, Typed, Hyp
<1>1. CASE ValidateHuntTiers
  <2> PICK g : g = Head(work)
    OBVIOUS
  <2>1. work # <<>> /\ ValidateTiers(g) /\ UNCHANGED approving
    BY <1>1 DEF ValidateHuntTiers
  <2>2. g = work[1] /\ 1 \in 1 .. Len(work)
    BY <2>1 DEF IInv, Typed
  <2>3. queue[g] = "NONE"
    BY <2>2 DEF IInv, WorkInv
  <2>4. queue' = queue \/ queue' = [queue EXCEPT ![g] = "PENDING"]
    BY <2>1 DEF ValidateTiers
  <2> QED
    BY <1>0, <2>1, <2>3, <2>4
<1>2. CASE \E a \in Approver : ApproveHuntV3Queue(a)
  <2> PICK a \in Approver : ApproveHuntV3Queue(a)
    BY <1>2
  <2>1. /\ approving' = [approving EXCEPT ![a] = 0] /\ approving[a] \in Hyp
        /\ queue' = [queue EXCEPT ![approving[a]] = "APPROVED"]
    BY <1>0 DEF ApproveHuntV3Queue
  <2> QED
    BY <1>0, <2>1
<1>3. CASE \E a \in Approver, g \in Hyp : ReadPending(a, g)
  <2> PICK a \in Approver, g \in Hyp : ReadPending(a, g)
    BY <1>3
  <2>1. queue[g] = "PENDING" /\ approving' = [approving EXCEPT ![a] = g] /\ UNCHANGED queue
    BY DEF ReadPending
  <2> QED
    BY <1>0, <2>1
<1>4. CASE \E d \in Dispatcher, q \in Hyp, unit \in Unit, extra \in ExtraFields : Load(d, q, unit, extra)
  BY <1>0, <1>4 DEF Load, _block, SetState
<1>5. CASE \E d \in Dispatcher : Finish(d)
  BY <1>0, <1>5 DEF Finish, _block, _mark_run, SetState
<1>6. CASE UNCHANGED <<queue, approving>>
  BY <1>6
<1>7. \/ UNCHANGED <<queue, approving>> \/ ValidateHuntTiers
      \/ \E a \in Approver : ApproveHuntV3Queue(a)
      \/ \E a \in Approver, g \in Hyp : ReadPending(a, g)
      \/ \E d \in Dispatcher, q \in Hyp, unit \in Unit, extra \in ExtraFields : Load(d, q, unit, extra)
      \/ \E d \in Dispatcher : Finish(d)
  BY DEF Next, vars, RunHuntCycle, RunScheduledCycle, Generate, CycleCrash,
         HunterCoverageOpportunitySource, RefreshLiveCoverageDebt, EvaluateFamilyCircuitBreaker,
         RecordApproval, Intend, Crash, Execute, Assess
<1> QED
  BY <1>1, <1>2, <1>3, <1>4, <1>5, <1>6, <1>7

(* For any number of approvers and dispatchers: no dispatcher takes a settled
   item back, only an approval that was already in flight does, and none begins
   once the item is settled. *)
THEOREM SettledStays ==
    Spec => OnlyStaleApprovalUnsettles
<1>1. IInv /\ [Next]_vars =>
        [\A h \in Hyp : queue[h] \in {"RUN", "BLOCKED"} =>
            /\ \A a \in Approver : approving'[a] = h => approving[a] = h
            /\ \/ queue'[h] = queue[h]
               \/ queue'[h] = "APPROVED" /\ \E a \in Approver : approving[a] = h /\ approving'[a] = 0]_vars
  BY SettledStep
<1> QED
  BY <1>1, Invariance, PTL DEF Spec, OnlyStaleApprovalUnsettles
=============================================================================
