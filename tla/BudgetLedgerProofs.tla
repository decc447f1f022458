------------------------- MODULE BudgetLedgerProofs -------------------------
(***************************************************************************)
(* Proofs about BudgetLedger, for every number of supervisors, model       *)
(* invocations and attempts and for every allowance.                       *)
(***************************************************************************)
EXTENDS BudgetLedger, FiniteSetTheorems, TLAPS

----------------------------------------------------------------------------
(* The ledger as a set of units. *)

(* A charge of n units has n units. *)
LEMMA ChargeSize ==
    ASSUME NEW r, NEW q, NEW n \in Nat
    PROVE  IsFiniteSet(Charge(r, q, n)) /\ Cardinality(Charge(r, q, n)) = n
<1> DEFINE S == 1 .. n
           T == Charge(r, q, n)
           f == [i \in S |-> [resource |-> r, request |-> q, nr |-> i]]
<1>1. IsFiniteSet(S) /\ Cardinality(S) = n
  BY FS_Interval
<1>2. f \in [S -> T]
  BY DEF Charge
<1>3. \A i, j \in S : f[i] = f[j] => i = j
  OBVIOUS
<1>4. \A t \in T : \E i \in S : f[i] = t
  BY DEF Charge
<1>5. f \in Bijection(S, T)
  <2> HIDE DEF f, T, S
  <2>1. f \in Injection(S, T)
    BY <1>2, <1>3 DEF Injection, IsInjective
  <2>2. f \in Surjection(S, T)
    BY <1>2, <1>4 DEF Surjection
  <2> QED
    BY <2>1, <2>2 DEF Bijection
<1>6. ExistsBijection(S, T)
  BY <1>5 DEF ExistsBijection
<1> QED
  BY <1>1, <1>6, FS_Bijection

(* Summing a ledger that a charge was added to: another resource is not
   affected, a row that was not there adds exactly its amount. *)
LEMMA ChargedTotal ==
    ASSUME NEW l, IsFiniteSet(l), NEW r, NEW q, NEW n \in Nat,
           ~Recorded(l, r, q), NEW r2
    PROVE  LET l2 == l \cup Charge(r, q, n)
           IN  Total(l2, r2) = IF r2 = r THEN Total(l, r) + n ELSE Total(l, r2)
<1> DEFINE C == Charge(r, q, n)
           l2 == l \cup C
<1>1. CASE r2 # r
  <2>1. UnitsOf(l2, r2) = UnitsOf(l, r2)
    BY <1>1 DEF UnitsOf, Charge
  <2> QED
    BY <1>1, <2>1 DEF Total
<1>2. CASE r2 = r
  <2>1. UnitsOf(l2, r) = UnitsOf(l, r) \cup C
    BY DEF UnitsOf, Charge
  <2>2. UnitsOf(l, r) \cap C = {}
    BY DEF UnitsOf, Charge, Recorded, RowOf
  <2>3. IsFiniteSet(UnitsOf(l, r))
    BY FS_Subset DEF UnitsOf
  <2>4. IsFiniteSet(C) /\ Cardinality(C) = n
    BY ChargeSize
  <2>5. Cardinality(UnitsOf(l, r) \cap C) = 0
    BY <2>2, FS_EmptySet
  <2>6. Cardinality(UnitsOf(l, r)) \in Nat
    BY <2>3, FS_CardinalityType
  <2>7. Cardinality(UnitsOf(l, r) \cup C) = Cardinality(UnitsOf(l, r)) + n
    <3> DEFINE A == UnitsOf(l, r)
    <3> HIDE DEF A, C
    <3>1. Cardinality(A \cup C) = Cardinality(A) + Cardinality(C) - Cardinality(A \cap C)
      BY <2>3, <2>4, FS_Union DEF A
    <3> QED
      BY <3>1, <2>4, <2>5, <2>6 DEF A
  <2> QED
    BY <1>2, <2>1, <2>7 DEF Total
<1> QED
  BY <1>1, <1>2

(* The sum of a resource is a natural number. *)
LEMMA TotalType ==
    ASSUME NEW l, IsFiniteSet(l), NEW r
    PROVE  Total(l, r) \in Nat
<1>1. IsFiniteSet(UnitsOf(l, r))
  BY FS_Subset DEF UnitsOf
<1> QED
  BY <1>1, FS_CardinalityType DEF Total

(* Each resource has an allowance. *)
LEMMA AllowanceType ==
    ASSUME NEW r \in Resource
    PROVE  Allowance[r] \in Nat
  BY AllowanceAssumption DEF Resource, Allowance

(* What an accepted insert_within_allowance makes of a ledger l. *)
InsertOutcome(l, l2, r, q, n) ==
    /\ IsFiniteSet(l2)
    /\ Recorded(l2, r, q)
    /\ Total(l2, r) <= Allowance[r]
    /\ \A r2 : r2 # r => Total(l2, r2) = Total(l, r2)
    /\ Total(l, r) <= Total(l2, r)
    /\ ~Recorded(l, r, q) => /\ Cardinality(RowOf(l2, r, q)) = n
                             /\ Total(l2, r) = Total(l, r) + n
    /\ Recorded(l, r, q) => l2 = l

(* An insert that is accepted has that outcome. *)
LEMMA InsertFacts ==
    ASSUME NEW l, IsFiniteSet(l), NEW r \in Resource, NEW q,
           NEW n \in Nat \ {0}, Accepts(l, r, q, n),
           Total(l, r) <= Allowance[r],
           NEW l2, l2 = l \cup Inserted(l, r, q, n)
    PROVE  InsertOutcome(l, l2, r, q, n)
<1> DEFINE C == Charge(r, q, n)
<1>0. Total(l, r) \in Nat /\ Allowance[r] \in Nat
  BY TotalType, AllowanceType
<1>1. CASE Recorded(l, r, q)
  <2>1. l2 = l
    BY <1>1 DEF Inserted
  <2> QED
    BY <1>0, <1>1, <2>1 DEF InsertOutcome
<1>2. CASE ~Recorded(l, r, q)
  <2>1. l2 = l \cup C
    BY <1>2 DEF Inserted
  <2>2. IsFiniteSet(C) /\ Cardinality(C) = n
    BY ChargeSize
  <2>3. IsFiniteSet(l2)
    <3> HIDE DEF C
    <3>1. IsFiniteSet(l \cup C)
      BY <2>2, FS_Union
    <3> QED
      BY <2>1, <3>1
  <2>4. RowOf(l2, r, q) = C
    BY <1>2, <2>1 DEF RowOf, Charge, Recorded
  <2>5. C # {}
    <3>1. [resource |-> r, request |-> q, nr |-> 1] \in C
      BY DEF Charge
    <3> QED
      BY <3>1
  <2>6. Recorded(l2, r, q)
    BY <2>4, <2>5 DEF Recorded
  <2>7. Total(l2, r) = Total(l, r) + n
    BY <1>2, <2>1, ChargedTotal
  <2>8. \A r2 : r2 # r => Total(l2, r2) = Total(l, r2)
    BY <1>2, <2>1, ChargedTotal
  <2>9. n <= Allowance[r] - Total(l, r)
    BY <1>2 DEF Accepts, Within, Remaining
  <2>10. Cardinality(RowOf(l2, r, q)) = n
    BY <2>2, <2>4
  <2>11. Total(l2, r) <= Allowance[r] /\ Total(l, r) <= Total(l2, r)
    BY <1>0, <2>7, <2>9
  <2> QED
    BY <1>2, <2>3, <2>6, <2>7, <2>8, <2>10, <2>11 DEF InsertOutcome
<1> QED
  BY <1>1, <1>2

(* Rows of other requests or resources are not touched. *)
LEMMA InsertElsewhere ==
    ASSUME NEW l, NEW r, NEW q, NEW n, NEW r2, NEW q2, r2 # r \/ q2 # q
    PROVE  RowOf(l \cup Inserted(l, r, q, n), r2, q2) = RowOf(l, r2, q2)
  BY DEF RowOf, Inserted, Charge

----------------------------------------------------------------------------
(* The inductive invariant. *)

(* The issued_budget row is locked by whoever lists or charges. *)
LockInv == \A p \in Proc : pc[p] \in {"list", "charge"} <=> lock = p

(* What is charged from is what is there. *)
SeenInv == \A p \in Proc : pc[p] = "charge" => seen[p] = ledger

(* A supervisor reserves for a request of the kind its program point is about,
   and never for nothing. *)
ReqInv ==
    \A p \in Proc :
        /\ pc[p] = "call" => req[p] \in ModelRequest
        /\ pc[p] \in {"mark", "amount", "invoke"} => req[p] \in Attempt
        /\ pc[p] \in Reserving => req[p] \in ModelRequest \cup Attempt
        /\ pc[p] \in Reserving => amount[p] \in Nat \ {0}

LedgerInv ==
    /\ TypeOK
    /\ IsFiniteSet(ledger)
    /\ LockInv
    /\ SeenInv
    /\ ReqInv
    /\ WithinAllowance
    /\ DispatchedIsCharged

(* Nothing is recorded in an empty ledger. *)
LEMMA EmptyLedger ==
    ASSUME NEW r, NEW q
    PROVE  Total({}, r) = 0 /\ ~Recorded({}, r, q) /\ Cardinality(RowOf({}, r, q)) = 0
<1>1. UnitsOf({}, r) = {} /\ RowOf({}, r, q) = {}
  BY DEF UnitsOf, RowOf
<1> QED
  BY <1>1, FS_EmptySet DEF Total, Recorded

(* The empty ledger satisfies the invariant. *)
LEMMA InitLedger == Init => LedgerInv
<1> SUFFICES ASSUME Init PROVE LedgerInv
  OBVIOUS
<1> USE DEF Init
<1>1. TypeOK
  BY NobodyAssumption DEF TypeOK, PC, Reserving
<1>2. IsFiniteSet(ledger)
  BY FS_EmptySet
<1>3. LockInv /\ SeenInv /\ ReqInv
  BY NobodyAssumption DEF LockInv, SeenInv, ReqInv, Reserving
<1>4. WithinAllowance
  BY EmptyLedger, AllowanceType DEF WithinAllowance
<1>5. DispatchedIsCharged
  BY EmptyLedger DEF DispatchedIsCharged
<1> QED
  BY <1>1, <1>2, <1>3, <1>4, <1>5 DEF LedgerInv

(* A charge is made of units. *)
LEMMA InsertedType ==
    ASSUME NEW l, NEW r \in Resource, NEW q \in ModelRequest \cup Attempt, NEW n \in Nat
    PROVE  Inserted(l, r, q, n) \subseteq Unit
  BY DEF Inserted, Charge, Unit

(* A step that leaves ledger, attempts and locks alone, and does not list. *)
LEMMA Elsewhere ==
    ASSUME LedgerInv, NEW p \in Proc, UNCHANGED <<ledger, attempt>>
    PROVE  IsFiniteSet(ledger)' /\ WithinAllowance' /\ DispatchedIsCharged'
  BY DEF LedgerInv, WithinAllowance, DispatchedIsCharged, Total, Recorded, UnitsOf, RowOf

(* The steps that do not charge keep the invariant. *)
LEMMA QuietSteps ==
    ASSUME LedgerInv, NEW p \in Proc,
           \/ ReserveModelCall(p) \/ CallModel(p) \/ ReadAttempt(p)
           \/ MarkDispatching(p) \/ InvokeWorker(p) \/ InvocationRefused(p)
           \/ LockBudget(p) \/ ListLedger(p) \/ Crash(p)
    PROVE  LedgerInv'
<1>0. UNCHANGED <<ledger, attempt, capability>>
  BY DEF ReserveModelCall, CallModel, ReadAttempt, MarkDispatching, InvokeWorker,
         InvocationRefused, LockBudget, ListLedger, Crash
<1>a. IsFiniteSet(ledger)' /\ WithinAllowance' /\ DispatchedIsCharged'
  BY <1>0, Elsewhere
<1>t. TypeOK /\ LockInv /\ SeenInv /\ ReqInv
  BY DEF LedgerInv
<1>1. CASE ReserveModelCall(p)
  <2> USE <1>t, <1>0, <1>1 DEF ReserveModelCall, Goto, locks
  <2>1. TypeOK'
    BY DEF TypeOK, PC, Reserving
  <2>2. LockInv'
    BY NobodyAssumption DEF LockInv, TypeOK, Reserving
  <2>3. SeenInv'
    BY DEF SeenInv, TypeOK, Reserving
  <2>4. ReqInv'
    BY DEF ReqInv, TypeOK, Reserving
  <2> QED
    BY <1>a, <2>1, <2>2, <2>3, <2>4 DEF LedgerInv
<1>2. CASE CallModel(p)
  <2> USE <1>t, <1>0, <1>2 DEF CallModel, Forget, Goto, locks
  <2>1. TypeOK'
    BY DEF TypeOK, PC, Reserving, ReqInv
  <2>2. LockInv'
    BY NobodyAssumption DEF LockInv, TypeOK, Reserving
  <2>3. SeenInv'
    BY DEF SeenInv, TypeOK, Reserving
  <2>4. ReqInv'
    BY DEF ReqInv, TypeOK, Reserving
  <2> QED
    BY <1>a, <2>1, <2>2, <2>3, <2>4 DEF LedgerInv
<1>3. CASE ReadAttempt(p)
  <2> USE <1>t, <1>0, <1>3 DEF ReadAttempt, Goto, locks
  <2>1. TypeOK'
    BY DEF TypeOK, PC, Reserving
  <2>2. LockInv'
    BY NobodyAssumption DEF LockInv, TypeOK, Reserving
  <2>3. SeenInv'
    BY DEF SeenInv, TypeOK, Reserving
  <2>4. ReqInv'
    BY DEF ReqInv, TypeOK, Reserving
  <2> QED
    BY <1>a, <2>1, <2>2, <2>3, <2>4 DEF LedgerInv
<1>4. CASE MarkDispatching(p)
  <2> USE <1>t, <1>0, <1>4 DEF MarkDispatching, Goto
  <2>1. TypeOK'
    BY DEF TypeOK, PC, Reserving
  <2>2. LockInv'
    BY NobodyAssumption DEF LockInv, TypeOK, Reserving
  <2>3. SeenInv'
    BY DEF SeenInv, TypeOK, Reserving
  <2>4. ReqInv'
    BY DEF ReqInv, TypeOK, Reserving
  <2> QED
    BY <1>a, <2>1, <2>2, <2>3, <2>4 DEF LedgerInv
<1>5. CASE InvokeWorker(p)
  <2> USE <1>t, <1>0, <1>5 DEF InvokeWorker, Forget, Goto, locks
  <2>1. TypeOK'
    BY DEF TypeOK, PC, Reserving, ReqInv
  <2>2. LockInv'
    BY NobodyAssumption DEF LockInv, TypeOK, Reserving
  <2>3. SeenInv'
    BY DEF SeenInv, TypeOK, Reserving
  <2>4. ReqInv'
    BY DEF ReqInv, TypeOK, Reserving
  <2> QED
    BY <1>a, <2>1, <2>2, <2>3, <2>4 DEF LedgerInv
<1>6. CASE InvocationRefused(p)
  <2> USE <1>t, <1>0, <1>6 DEF InvocationRefused, Forget, Goto, locks
  <2>1. TypeOK'
    BY DEF TypeOK, PC, Reserving
  <2>2. LockInv'
    BY NobodyAssumption DEF LockInv, TypeOK, Reserving
  <2>3. SeenInv'
    BY DEF SeenInv, TypeOK, Reserving
  <2>4. ReqInv'
    BY DEF ReqInv, TypeOK, Reserving
  <2> QED
    BY <1>a, <2>1, <2>2, <2>3, <2>4 DEF LedgerInv
<1>7. CASE LockBudget(p)
  <2> USE <1>t, <1>0, <1>7 DEF LockBudget, Goto
  <2>1. TypeOK'
    BY DEF TypeOK, PC, Reserving
  <2>2. LockInv'
    BY NobodyAssumption DEF LockInv, TypeOK, Reserving
  <2>3. SeenInv'
    BY DEF SeenInv, TypeOK, Reserving
  <2>4. ReqInv'
    BY DEF ReqInv, TypeOK, Reserving
  <2> QED
    BY <1>a, <2>1, <2>2, <2>3, <2>4 DEF LedgerInv
<1>8. CASE ListLedger(p)
  <2> USE <1>t, <1>0, <1>8 DEF ListLedger, Goto, locks
  <2>1. TypeOK'
    BY DEF TypeOK, PC, Reserving
  <2>2. LockInv'
    BY NobodyAssumption DEF LockInv, TypeOK, Reserving
  <2>3. SeenInv'
    BY DEF SeenInv, TypeOK, Reserving
  <2>4. ReqInv'
    BY DEF ReqInv, TypeOK, Reserving
  <2> QED
    BY <1>a, <2>1, <2>2, <2>3, <2>4 DEF LedgerInv
<1>9. CASE Crash(p)
  <2> USE <1>t, <1>0, <1>9 DEF Crash, Forget, Goto, EndTransaction
  <2>1. TypeOK'
    BY DEF TypeOK, PC, Reserving
  <2>2. LockInv'
    BY NobodyAssumption DEF LockInv, TypeOK, Reserving
  <2>3. SeenInv'
    BY DEF SeenInv, TypeOK, Reserving
  <2>4. ReqInv'
    BY DEF ReqInv, TypeOK, Reserving
  <2> QED
    BY <1>a, <2>1, <2>2, <2>3, <2>4 DEF LedgerInv
<1> QED
  BY <1>1, <1>2, <1>3, <1>4, <1>5, <1>6, <1>7, <1>8, <1>9

(* The amount of a dispatch is fixed from the ledger; nothing left rolls back. *)
LEMMA AmountSafe ==
    ASSUME LedgerInv, NEW p \in Proc, RequestAmount(p)
    PROVE  LedgerInv'
<1> DEFINE left == Remaining(ledger, "REQUEST")
<1>0. UNCHANGED <<ledger, attempt, capability>>
  BY DEF RequestAmount
<1>a. IsFiniteSet(ledger)' /\ WithinAllowance' /\ DispatchedIsCharged'
  BY <1>0, Elsewhere
<1>t. TypeOK /\ LockInv /\ SeenInv /\ ReqInv
  BY DEF LedgerInv
<1>l. left \in Int
  BY TotalType, AllowanceType DEF LedgerInv, Remaining, Resource
<1> HIDE DEF left
<1>1. CASE Forget(p) /\ EndTransaction(p)
  <2> USE <1>t, <1>0, <1>1 DEF RequestAmount, Forget, Goto, EndTransaction
  <2>1. TypeOK'
    BY DEF TypeOK, PC, Reserving
  <2>2. LockInv'
    BY NobodyAssumption DEF LockInv, TypeOK, Reserving
  <2>3. SeenInv'
    BY DEF SeenInv, TypeOK, Reserving
  <2>4. ReqInv'
    BY DEF ReqInv, TypeOK, Reserving
  <2> QED
    BY <1>a, <2>1, <2>2, <2>3, <2>4 DEF LedgerInv
<1>2. CASE /\ amount' = [amount EXCEPT ![p] = amount'[p]]
           /\ amount'[p] \in Nat \ {0}
           /\ Goto(p, "lock")
           /\ UNCHANGED <<req, seen, locks, called, granted>>
  <2> USE <1>t, <1>0, <1>2 DEF Goto, locks
  <2>p. pc[p] = "amount"
    BY DEF RequestAmount
  <2>1. TypeOK'
    BY <2>p DEF TypeOK, PC, Reserving
  <2>2. LockInv'
    BY <2>p, NobodyAssumption DEF LockInv, TypeOK, Reserving
  <2>3. SeenInv'
    BY <2>p DEF SeenInv, TypeOK, Reserving
  <2>4. ReqInv'
    BY <2>p DEF ReqInv, TypeOK, Reserving
  <2> QED
    BY <1>a, <2>1, <2>2, <2>3, <2>4 DEF LedgerInv
<1>3. \/ Forget(p) /\ EndTransaction(p)
      \/ /\ amount' = [amount EXCEPT ![p] = amount'[p]]
         /\ amount'[p] \in Nat \ {0}
         /\ Goto(p, "lock")
         /\ UNCHANGED <<req, seen, locks, called, granted>>
  <2> DEFINE kind == capability[req[p]]
  <2>1. kind \in Capability
    BY <1>t DEF TypeOK, ReqInv, RequestAmount
  <2>2. PageRequests \in Nat \ {0}
    BY AllowanceAssumption
  <2> QED
    BY <1>t, <1>l, <2>1, <2>2 DEF RequestAmount, TypeOK, Capability, left
<1> QED
  BY <1>1, <1>2, <1>3

(* Only the holder of the lock has a list in hand. *)
LEMMA OnlyHolder ==
    ASSUME LedgerInv, NEW p \in Proc, pc[p] = "charge"
    PROVE  /\ lock = p /\ seen[p] = ledger
           /\ \A o \in Proc \ {p} : pc[o] \notin {"list", "charge"}
  BY DEF LedgerInv, LockInv, SeenInv

(* The end of a charging transaction, apart from what it writes. *)
LEMMA Released ==
    ASSUME LedgerInv, NEW p \in Proc, pc[p] = "charge",
           NEW point \in {"idle", "call", "invoke"},
           Goto(p, point), EndTransaction(p)
    PROVE  LockInv' /\ SeenInv'
<1> USE OnlyHolder, NobodyAssumption DEF Goto, EndTransaction, LedgerInv
<1>1. LockInv'
  BY DEF LockInv, TypeOK
<1>2. SeenInv'
  BY DEF SeenInv, TypeOK
<1> QED
  BY <1>1, <1>2

(* A model call is reserved, or rejected. *)
LEMMA ModelCallSafe ==
    ASSUME LedgerInv, NEW p \in Proc, ChargeModelCall(p)
    PROVE  LedgerInv'
<1> DEFINE q == req[p]
           n == amount[p]
<1>t. TypeOK /\ ReqInv /\ IsFiniteSet(ledger) /\ WithinAllowance /\ DispatchedIsCharged
  BY DEF LedgerInv
<1>p. pc[p] = "charge" /\ q \in ModelRequest /\ seen[p] = ledger
      /\ n \in Nat \ {0} /\ UNCHANGED <<attempt, capability, called, granted>>
      /\ EndTransaction(p)
  BY <1>t, OnlyHolder DEF ChargeModelCall, ReqInv, Reserving
<1>1. CASE Accepts(ledger, "MODEL_CALL", q, n)
  <2>1. /\ ledger' = ledger \cup Inserted(ledger, "MODEL_CALL", q, n)
        /\ Goto(p, "call") /\ UNCHANGED <<req, amount>>
    BY <1>1, <1>p DEF ChargeModelCall
  <2>2. "MODEL_CALL" \in Resource /\ Total(ledger, "MODEL_CALL") <= Allowance["MODEL_CALL"]
    BY <1>t DEF WithinAllowance, Resource
  <2>3. /\ IsFiniteSet(ledger')
        /\ Total(ledger', "MODEL_CALL") <= Allowance["MODEL_CALL"]
        /\ \A r2 : r2 # "MODEL_CALL" => Total(ledger', r2) = Total(ledger, r2)
    <3> HIDE DEF q, n
    <3>1. InsertOutcome(ledger, ledger', "MODEL_CALL", q, n)
      BY <1>1, <1>t, <1>p, <2>1, <2>2, InsertFacts
    <3> QED
      BY <3>1 DEF InsertOutcome
  <2>4. TypeOK'
    <3>1. Inserted(ledger, "MODEL_CALL", q, n) \subseteq Unit
      BY <1>p, <2>2, InsertedType
    <3> QED
      BY <1>t, <1>p, <2>1, <3>1 DEF TypeOK, Goto, EndTransaction, PC, Reserving
  <2>5. LockInv' /\ SeenInv'
    BY <1>p, <2>1, Released
  <2>6. ReqInv'
    BY <1>t, <1>p, <2>1 DEF ReqInv, TypeOK, Goto, Reserving
  <2>7. WithinAllowance'
    BY <1>t, <2>3 DEF WithinAllowance
  <2>8. DispatchedIsCharged'
    <3>1. \A a \in Attempt, r \in {"WORKER_INVOCATION", "REQUEST"} :
             RowOf(ledger', r, a) = RowOf(ledger, r, a)
      BY <2>1, InsertElsewhere
    <3> QED
      BY <1>t, <1>p, <3>1 DEF DispatchedIsCharged, Recorded
  <2> QED
    BY <2>3, <2>4, <2>5, <2>6, <2>7, <2>8 DEF LedgerInv
<1>2. CASE ~Accepts(ledger, "MODEL_CALL", q, n)
  <2>1. Forget(p) /\ UNCHANGED ledger
    BY <1>2, <1>p DEF ChargeModelCall
  <2>2. IsFiniteSet(ledger)' /\ WithinAllowance' /\ DispatchedIsCharged'
    BY <1>p, <2>1, Elsewhere
  <2>3. TypeOK'
    BY <1>t, <1>p, <2>1 DEF TypeOK, Forget, Goto, EndTransaction, PC, Reserving
  <2>4. LockInv' /\ SeenInv'
    BY <1>p, <2>1, Released DEF Forget
  <2>5. ReqInv'
    BY <1>t, <1>p, <2>1 DEF ReqInv, TypeOK, Forget, Goto, Reserving
  <2> QED
    BY <2>2, <2>3, <2>4, <2>5 DEF LedgerInv
<1> QED
  BY <1>1, <1>2

(***************************************************************************)
(* The two inserts of a dispatch: both allowances are respected, both rows *)
(* are there afterwards, no other row changes.                             *)
(***************************************************************************)
LEMMA DispatchInserts ==
    ASSUME NEW l, IsFiniteSet(l), NEW a, NEW n \in Nat \ {0},
           \A r \in Resource : Total(l, r) <= Allowance[r],
           Accepts(l, "WORKER_INVOCATION", a, 1),
           Accepts(l, "REQUEST", a, n),
           NEW l2, l2 = l \cup Inserted(l, "WORKER_INVOCATION", a, 1)
                          \cup Inserted(l, "REQUEST", a, n)
    PROVE  /\ IsFiniteSet(l2)
           /\ \A r \in Resource : Total(l2, r) <= Allowance[r]
           /\ Recorded(l2, "WORKER_INVOCATION", a) /\ Recorded(l2, "REQUEST", a)
           /\ \A r, b : b # a \/ r \notin {"WORKER_INVOCATION", "REQUEST"}
                       => RowOf(l2, r, b) = RowOf(l, r, b)
           /\ Total(l, "REQUEST") <= Total(l2, "REQUEST")
           /\ ~Recorded(l, "REQUEST", a) =>
                 /\ Cardinality(RowOf(l2, "REQUEST", a)) = n
                 /\ Total(l2, "REQUEST") = Total(l, "REQUEST") + n
           /\ Recorded(l, "REQUEST", a) =>
                 RowOf(l2, "REQUEST", a) = RowOf(l, "REQUEST", a)
<1> DEFINE m == l \cup Inserted(l, "WORKER_INVOCATION", a, 1)
<1>1. /\ "WORKER_INVOCATION" \in Resource /\ "REQUEST" \in Resource
      /\ 1 \in Nat \ {0}
  BY DEF Resource
<1>2. /\ IsFiniteSet(m)
      /\ Recorded(m, "WORKER_INVOCATION", a)
      /\ Total(m, "WORKER_INVOCATION") <= Allowance["WORKER_INVOCATION"]
      /\ \A r : r # "WORKER_INVOCATION" => Total(m, r) = Total(l, r)
  <2>1. InsertOutcome(l, m, "WORKER_INVOCATION", a, 1)
    BY <1>1, InsertFacts
  <2> QED
    BY <2>1 DEF InsertOutcome
<1>3. \A r, b : b # a \/ r # "WORKER_INVOCATION" => RowOf(m, r, b) = RowOf(l, r, b)
  BY InsertElsewhere
<1>4. Recorded(m, "REQUEST", a) <=> Recorded(l, "REQUEST", a)
  BY <1>3 DEF Recorded
<1>5. Total(m, "REQUEST") = Total(l, "REQUEST")
  BY <1>2
<1>6. Accepts(m, "REQUEST", a, n)
  BY <1>4, <1>5 DEF Accepts, Within, Remaining
<1>7. l2 = m \cup Inserted(m, "REQUEST", a, n)
  BY <1>4 DEF Inserted
<1>8. Total(m, "REQUEST") <= Allowance["REQUEST"]
  BY <1>1, <1>5
<1> HIDE DEF m
<1>9. /\ IsFiniteSet(l2)
      /\ Recorded(l2, "REQUEST", a)
      /\ Total(l2, "REQUEST") <= Allowance["REQUEST"]
      /\ \A r : r # "REQUEST" => Total(l2, r) = Total(m, r)
      /\ Total(m, "REQUEST") <= Total(l2, "REQUEST")
      /\ ~Recorded(m, "REQUEST", a) =>
            /\ Cardinality(RowOf(l2, "REQUEST", a)) = n
            /\ Total(l2, "REQUEST") = Total(m, "REQUEST") + n
      /\ Recorded(m, "REQUEST", a) => l2 = m
  <2>1. InsertOutcome(m, l2, "REQUEST", a, n)
    BY <1>1, <1>2, <1>6, <1>7, <1>8, InsertFacts
  <2> QED
    BY <2>1 DEF InsertOutcome
<1>10. \A r, b : b # a \/ r # "REQUEST" => RowOf(l2, r, b) = RowOf(m, r, b)
  BY <1>7, InsertElsewhere
<1>11. Recorded(l2, "WORKER_INVOCATION", a)
  BY <1>2, <1>10 DEF Recorded
<1>12. \A r \in Resource : Total(l2, r) <= Allowance[r]
  BY <1>2, <1>9
<1>13. \A r, b : b # a \/ r \notin {"WORKER_INVOCATION", "REQUEST"}
                 => RowOf(l2, r, b) = RowOf(l, r, b)
  BY <1>3, <1>10
<1>14. Recorded(l, "REQUEST", a) => RowOf(l2, "REQUEST", a) = RowOf(l, "REQUEST", a)
  BY <1>3, <1>4, <1>9
<1> QED
  BY <1>4, <1>5, <1>9, <1>11, <1>12, <1>13, <1>14

(* A dispatch is charged and marked, or not at all. *)
LEMMA DispatchSafe ==
    ASSUME LedgerInv, NEW p \in Proc, ChargeDispatch(p)
    PROVE  LedgerInv'
<1> DEFINE a == req[p]
           n == amount[p]
           accepted == /\ Accepts(ledger, "WORKER_INVOCATION", a, 1)
                       /\ Accepts(ledger, "REQUEST", a, n)
<1>t. TypeOK /\ ReqInv /\ IsFiniteSet(ledger) /\ WithinAllowance /\ DispatchedIsCharged
  BY DEF LedgerInv
<1>p. pc[p] = "charge" /\ a \in Attempt /\ seen[p] = ledger
      /\ n \in Nat \ {0} /\ UNCHANGED <<capability, called, granted>>
      /\ EndTransaction(p)
  BY <1>t, OnlyHolder DEF ChargeDispatch, ReqInv, Reserving
<1>1. CASE accepted
  <2>1. /\ ledger' = ledger \cup Inserted(ledger, "WORKER_INVOCATION", a, 1)
                           \cup Inserted(ledger, "REQUEST", a, n)
        /\ attempt' = [attempt EXCEPT ![a] = "DISPATCHING"]
        /\ Goto(p, "invoke") /\ UNCHANGED <<req, amount>>
    BY <1>1, <1>p DEF ChargeDispatch
  <2>2. /\ IsFiniteSet(ledger')
        /\ \A r \in Resource : Total(ledger', r) <= Allowance[r]
        /\ Recorded(ledger', "WORKER_INVOCATION", a) /\ Recorded(ledger', "REQUEST", a)
        /\ \A r, b : b # a => RowOf(ledger', r, b) = RowOf(ledger, r, b)
    <3>1. \A r \in Resource : Total(ledger, r) <= Allowance[r]
      BY <1>t DEF WithinAllowance
    <3> HIDE DEF a, n
    <3> QED
      BY <1>1, <1>t, <1>p, <2>1, <3>1, DispatchInserts
  <2>3. TypeOK'
    <3>1. /\ Inserted(ledger, "WORKER_INVOCATION", a, 1) \subseteq Unit
          /\ Inserted(ledger, "REQUEST", a, n) \subseteq Unit
      BY <1>p, InsertedType DEF Resource
    <3> QED
      BY <1>t, <1>p, <2>1, <3>1 DEF TypeOK, Goto, EndTransaction, PC, Reserving
  <2>4. LockInv' /\ SeenInv'
    BY <1>p, <2>1, Released
  <2>5. ReqInv'
    BY <1>t, <1>p, <2>1 DEF ReqInv, TypeOK, Goto, Reserving
  <2>6. WithinAllowance'
    BY <2>2 DEF WithinAllowance
  <2>7. DispatchedIsCharged'
    <3> SUFFICES ASSUME NEW b \in Attempt
                 PROVE  /\ attempt'[b] = "DISPATCHING" <=> Recorded(ledger', "WORKER_INVOCATION", b)
                        /\ attempt'[b] = "DISPATCHING" <=> Recorded(ledger', "REQUEST", b)
      BY DEF DispatchedIsCharged, Recorded, RowOf
    <3>1. CASE b = a
      BY <1>t, <1>p, <2>1, <2>2, <3>1 DEF TypeOK
    <3>2. CASE b # a
      <4>1. attempt'[b] = attempt[b]
        BY <1>t, <1>p, <2>1, <3>2 DEF TypeOK
      <4>2. \A r : Recorded(ledger', r, b) <=> Recorded(ledger, r, b)
        BY <2>2, <3>2 DEF Recorded
      <4>3. /\ attempt[b] = "DISPATCHING" <=> Recorded(ledger, "WORKER_INVOCATION", b)
            /\ attempt[b] = "DISPATCHING" <=> Recorded(ledger, "REQUEST", b)
        BY <1>t DEF DispatchedIsCharged
      <4> QED
        BY <4>1, <4>2, <4>3
    <3> QED
      BY <3>1, <3>2
  <2> QED
    BY <2>2, <2>3, <2>4, <2>5, <2>6, <2>7 DEF LedgerInv
<1>2. CASE ~accepted
  <2>1. Forget(p) /\ UNCHANGED <<ledger, attempt>>
    BY <1>2, <1>p DEF ChargeDispatch
  <2>2. IsFiniteSet(ledger)' /\ WithinAllowance' /\ DispatchedIsCharged'
    BY <1>p, <2>1, Elsewhere
  <2>3. TypeOK'
    BY <1>t, <1>p, <2>1 DEF TypeOK, Forget, Goto, EndTransaction, PC, Reserving
  <2>4. LockInv' /\ SeenInv'
    BY <1>p, <2>1, Released DEF Forget
  <2>5. ReqInv'
    BY <1>t, <1>p, <2>1 DEF ReqInv, TypeOK, Forget, Goto, Reserving
  <2> QED
    BY <2>2, <2>3, <2>4, <2>5 DEF LedgerInv
<1> QED
  BY <1>1, <1>2

(* Every step keeps the invariant. *)
LEMMA NextLedger == LedgerInv /\ [Next]_vars => LedgerInv'
<1> SUFFICES ASSUME LedgerInv, [Next]_vars PROVE LedgerInv'
  OBVIOUS
<1>1. CASE Next
  <2>1. PICK p \in Proc : Step(p) \/ Wait(p) \/ Begin(p) \/ Crash(p)
    BY <1>1 DEF Next
  <2> QED
    BY <2>1, QuietSteps, AmountSafe, ModelCallSafe, DispatchSafe DEF Step, Wait, Begin
<1>2. CASE UNCHANGED vars
  BY <1>2 DEF vars, LedgerInv, TypeOK, LockInv, SeenInv, ReqInv, WithinAllowance,
              DispatchedIsCharged, Total, UnitsOf, Recorded, RowOf
<1> QED
  BY <1>1, <1>2

(***************************************************************************)
(* Every reachable state of the ledger is well typed, also across crashes: *)
(* what a transaction remembers is always a request it may still serve.    *)
(***************************************************************************)
THEOREM LedgerTyped == Spec => []TypeOK
<1>1. LedgerInv => TypeOK
  BY DEF LedgerInv
<1> QED
  BY InitLedger, NextLedger, <1>1, PTL DEF Spec

(***************************************************************************)
(* No overlap of reservations, crash or replay overspends a resource of    *)
(* the issued budget or the model-call allowance.                          *)
(***************************************************************************)
THEOREM NeverOverspent == Spec => []WithinAllowance
<1>1. LedgerInv => WithinAllowance
  BY DEF LedgerInv
<1> QED
  BY InitLedger, NextLedger, <1>1, PTL DEF Spec

(***************************************************************************)
(* The DISPATCHING mark and the two charges of an attempt exist together   *)
(* or not at all.                                                          *)
(***************************************************************************)
THEOREM ChargedTogether == Spec => []DispatchedIsCharged
<1>1. LedgerInv => DispatchedIsCharged
  BY DEF LedgerInv
<1> QED
  BY InitLedger, NextLedger, <1>1, PTL DEF Spec

----------------------------------------------------------------------------
(* Reserved before spent. *)

(* How many requests the ledger charges to attempt a. *)
Charged(a) == Cardinality(RowOf(ledger, "REQUEST", a))

(* From the mark to the commit a dispatcher has the attempt row to itself. *)
RowLockInv ==
    \A p \in Proc :
        \/ pc[p] = "amount"
        \/ pc[p] \in Reserving /\ req[p] \in Attempt
        => rowlock[req[p]] = p

(* An amount that was computed before the lock is the capability's own, or
   takes all that is left. *)
AmountInv ==
    \A p \in Proc : pc[p] \in Reserving /\ req[p] \in Attempt =>
        /\ capability[req[p]] = "exchange" => amount[p] = 1
        /\ capability[req[p]] = "reuse" => amount[p] = 2
        /\ capability[req[p]] = "page" =>
              \/ amount[p] = PageRequests
              \/ Remaining(ledger, "REQUEST") <= amount[p]

(* A late dispatcher's amount is no more than the row that is there already. *)
LateInv ==
    \A p \in Proc :
        /\ pc[p] \in Reserving /\ req[p] \in Attempt
        /\ Recorded(ledger, "REQUEST", req[p])
        => amount[p] <= Charged(req[p])

(* A charged row is of full size, or nothing is left for a later page. *)
RowSizeInv ==
    \A a \in Attempt : Recorded(ledger, "REQUEST", a) =>
        /\ capability[a] = "exchange" => Charged(a) = 1
        /\ capability[a] = "reuse" => Charged(a) = 2
        /\ capability[a] = "page" =>
              Charged(a) = PageRequests \/ Remaining(ledger, "REQUEST") <= 0

(* What is about to be spent is reserved. *)
AboutToSpend ==
    \A p \in Proc :
        /\ pc[p] = "call" => Recorded(ledger, "MODEL_CALL", req[p])
        /\ pc[p] = "invoke" =>
              /\ amount[p] <= Charged(req[p])
              /\ Recorded(ledger, "WORKER_INVOCATION", req[p]) /\ Recorded(ledger, "REQUEST", req[p])

SpentInv == /\ RowLockInv /\ AmountInv /\ LateInv /\ RowSizeInv
            /\ AboutToSpend /\ SpentWasReserved

(* The empty ledger. *)
LEMMA InitSpent == Init => SpentInv
<1> SUFFICES ASSUME Init PROVE SpentInv
  OBVIOUS
<1>1. RowLockInv /\ AmountInv /\ LateInv /\ AboutToSpend
  BY DEF Init, RowLockInv, AmountInv, LateInv, AboutToSpend, Reserving
<1>2. RowSizeInv
  BY EmptyLedger DEF Init, RowSizeInv
<1>3. SpentWasReserved
  BY EmptyLedger DEF Init, SpentWasReserved
<1> QED
  BY <1>1, <1>2, <1>3 DEF SpentInv

(* The quiet steps spend only what they were about to spend. *)
LEMMA QuietSpent ==
    ASSUME LedgerInv, SpentInv, NEW p \in Proc,
           \/ ReserveModelCall(p) \/ CallModel(p) \/ ReadAttempt(p)
           \/ MarkDispatching(p) \/ InvokeWorker(p) \/ InvocationRefused(p)
           \/ LockBudget(p) \/ ListLedger(p) \/ Crash(p)
    PROVE  SpentInv'
<1>0. UNCHANGED <<ledger, attempt, capability>>
  BY DEF ReserveModelCall, CallModel, ReadAttempt, MarkDispatching, InvokeWorker,
         InvocationRefused, LockBudget, ListLedger, Crash
<1>t. TypeOK /\ ReqInv /\ RowLockInv /\ AmountInv /\ LateInv /\ RowSizeInv
      /\ AboutToSpend /\ SpentWasReserved
  BY DEF LedgerInv, SpentInv
<1>r. RowSizeInv'
  BY <1>t, <1>0 DEF RowSizeInv, Charged
<1>1. CASE ReserveModelCall(p)
  <2> USE <1>t, <1>0, <1>1 DEF ReserveModelCall, Goto, locks
  <2>1. RowLockInv'
    BY RequestAssumption, NobodyAssumption DEF RowLockInv, ReqInv, TypeOK, Reserving
  <2>2. AmountInv'
    BY RequestAssumption DEF AmountInv, TypeOK, Reserving
  <2>3. LateInv'
    BY RequestAssumption DEF LateInv, TypeOK, Reserving, Charged
  <2>4. AboutToSpend'
    BY DEF AboutToSpend, TypeOK, Charged
  <2>5. SpentWasReserved'
    BY DEF SpentWasReserved, AboutToSpend, ReqInv, TypeOK, Charged
  <2> QED
    BY <1>r, <2>1, <2>2, <2>3, <2>4, <2>5 DEF SpentInv
<1>2. CASE CallModel(p)
  <2> USE <1>t, <1>0, <1>2 DEF CallModel, Forget, Goto, locks
  <2>1. RowLockInv'
    BY RequestAssumption, NobodyAssumption DEF RowLockInv, ReqInv, TypeOK, Reserving
  <2>2. AmountInv'
    BY RequestAssumption DEF AmountInv, TypeOK, Reserving
  <2>3. LateInv'
    BY RequestAssumption DEF LateInv, TypeOK, Reserving, Charged
  <2>4. AboutToSpend'
    BY DEF AboutToSpend, TypeOK, Charged
  <2>5. SpentWasReserved'
    BY DEF SpentWasReserved, AboutToSpend, ReqInv, TypeOK, Charged
  <2> QED
    BY <1>r, <2>1, <2>2, <2>3, <2>4, <2>5 DEF SpentInv
<1>3. CASE ReadAttempt(p)
  <2> USE <1>t, <1>0, <1>3 DEF ReadAttempt, Goto, locks
  <2>1. RowLockInv'
    BY RequestAssumption, NobodyAssumption DEF RowLockInv, ReqInv, TypeOK, Reserving
  <2>2. AmountInv'
    BY RequestAssumption DEF AmountInv, TypeOK, Reserving
  <2>3. LateInv'
    BY RequestAssumption DEF LateInv, TypeOK, Reserving, Charged
  <2>4. AboutToSpend'
    BY DEF AboutToSpend, TypeOK, Charged
  <2>5. SpentWasReserved'
    BY DEF SpentWasReserved, AboutToSpend, ReqInv, TypeOK, Charged
  <2> QED
    BY <1>r, <2>1, <2>2, <2>3, <2>4, <2>5 DEF SpentInv
<1>4. CASE MarkDispatching(p)
  <2> USE <1>t, <1>0, <1>4 DEF MarkDispatching, Goto
  <2>1. RowLockInv'
    BY RequestAssumption, NobodyAssumption DEF RowLockInv, ReqInv, TypeOK, Reserving
  <2>2. AmountInv'
    BY RequestAssumption DEF AmountInv, TypeOK, Reserving
  <2>3. LateInv'
    BY RequestAssumption DEF LateInv, TypeOK, Reserving, Charged
  <2>4. AboutToSpend'
    BY DEF AboutToSpend, TypeOK, Charged
  <2>5. SpentWasReserved'
    BY DEF SpentWasReserved, AboutToSpend, ReqInv, TypeOK, Charged
  <2> QED
    BY <1>r, <2>1, <2>2, <2>3, <2>4, <2>5 DEF SpentInv
<1>5. CASE InvokeWorker(p)
  <2> USE <1>t, <1>0, <1>5 DEF InvokeWorker, Forget, Goto, locks
  <2>1. RowLockInv'
    BY RequestAssumption, NobodyAssumption DEF RowLockInv, ReqInv, TypeOK, Reserving
  <2>2. AmountInv'
    BY RequestAssumption DEF AmountInv, TypeOK, Reserving
  <2>3. LateInv'
    BY RequestAssumption DEF LateInv, TypeOK, Reserving, Charged
  <2>4. AboutToSpend'
    BY DEF AboutToSpend, TypeOK, Charged
  <2>5. SpentWasReserved'
    BY DEF SpentWasReserved, AboutToSpend, ReqInv, TypeOK, Charged
  <2> QED
    BY <1>r, <2>1, <2>2, <2>3, <2>4, <2>5 DEF SpentInv
<1>6. CASE InvocationRefused(p)
  <2> USE <1>t, <1>0, <1>6 DEF InvocationRefused, Forget, Goto, locks
  <2>1. RowLockInv'
    BY RequestAssumption, NobodyAssumption DEF RowLockInv, ReqInv, TypeOK, Reserving
  <2>2. AmountInv'
    BY RequestAssumption DEF AmountInv, TypeOK, Reserving
  <2>3. LateInv'
    BY RequestAssumption DEF LateInv, TypeOK, Reserving, Charged
  <2>4. AboutToSpend'
    BY DEF AboutToSpend, TypeOK, Charged
  <2>5. SpentWasReserved'
    BY DEF SpentWasReserved, AboutToSpend, ReqInv, TypeOK, Charged
  <2> QED
    BY <1>r, <2>1, <2>2, <2>3, <2>4, <2>5 DEF SpentInv
<1>7. CASE LockBudget(p)
  <2> USE <1>t, <1>0, <1>7 DEF LockBudget, Goto
  <2>1. RowLockInv'
    BY RequestAssumption, NobodyAssumption DEF RowLockInv, ReqInv, TypeOK, Reserving
  <2>2. AmountInv'
    BY RequestAssumption DEF AmountInv, TypeOK, Reserving
  <2>3. LateInv'
    BY RequestAssumption DEF LateInv, TypeOK, Reserving, Charged
  <2>4. AboutToSpend'
    BY DEF AboutToSpend, TypeOK, Charged
  <2>5. SpentWasReserved'
    BY DEF SpentWasReserved, AboutToSpend, ReqInv, TypeOK, Charged
  <2> QED
    BY <1>r, <2>1, <2>2, <2>3, <2>4, <2>5 DEF SpentInv
<1>8. CASE ListLedger(p)
  <2> USE <1>t, <1>0, <1>8 DEF ListLedger, Goto, locks
  <2>1. RowLockInv'
    BY RequestAssumption, NobodyAssumption DEF RowLockInv, ReqInv, TypeOK, Reserving
  <2>2. AmountInv'
    BY RequestAssumption DEF AmountInv, TypeOK, Reserving
  <2>3. LateInv'
    BY RequestAssumption DEF LateInv, TypeOK, Reserving, Charged
  <2>4. AboutToSpend'
    BY DEF AboutToSpend, TypeOK, Charged
  <2>5. SpentWasReserved'
    BY DEF SpentWasReserved, AboutToSpend, ReqInv, TypeOK, Charged
  <2> QED
    BY <1>r, <2>1, <2>2, <2>3, <2>4, <2>5 DEF SpentInv
<1>9. CASE Crash(p)
  <2> USE <1>t, <1>0, <1>9 DEF Crash, Forget, Goto, EndTransaction
  <2>1. RowLockInv'
    BY RequestAssumption, NobodyAssumption DEF RowLockInv, ReqInv, TypeOK, Reserving
  <2>2. AmountInv'
    BY RequestAssumption DEF AmountInv, TypeOK, Reserving
  <2>3. LateInv'
    BY RequestAssumption DEF LateInv, TypeOK, Reserving, Charged
  <2>4. AboutToSpend'
    BY DEF AboutToSpend, TypeOK, Charged
  <2>5. SpentWasReserved'
    BY DEF SpentWasReserved, AboutToSpend, ReqInv, TypeOK, Charged
  <2> QED
    BY <1>r, <2>1, <2>2, <2>3, <2>4, <2>5 DEF SpentInv
<1> QED
  BY <1>1, <1>2, <1>3, <1>4, <1>5, <1>6, <1>7, <1>8, <1>9

(* A row already charged is at least as large as the amount computed now. *)
LEMMA AmountSpent ==
    ASSUME LedgerInv, SpentInv, NEW p \in Proc, RequestAmount(p)
    PROVE  SpentInv'
<1> DEFINE left == Remaining(ledger, "REQUEST")
           kind == capability[req[p]]
<1>0. UNCHANGED <<ledger, attempt, capability, called, granted>> /\ pc[p] = "amount"
  BY DEF RequestAmount
<1>t. TypeOK /\ ReqInv /\ RowLockInv /\ AmountInv /\ LateInv /\ RowSizeInv
      /\ AboutToSpend /\ SpentWasReserved
  BY DEF LedgerInv, SpentInv
<1>a. req[p] \in Attempt /\ kind \in Capability /\ rowlock[req[p]] = p
  BY <1>0, <1>t DEF ReqInv, TypeOK, RowLockInv
<1>l. left \in Int /\ PageRequests \in Nat \ {0}
  BY TotalType, AllowanceType, AllowanceAssumption DEF LedgerInv, Remaining, Resource
<1>r. RowSizeInv' /\ SpentWasReserved'
  BY <1>t, <1>0 DEF RowSizeInv, SpentWasReserved, Charged
<1>1. CASE Forget(p) /\ EndTransaction(p)
  <2> USE <1>t, <1>0, <1>1 DEF Forget, Goto, EndTransaction
  <2>1. RowLockInv'
    BY DEF RowLockInv, ReqInv, TypeOK, Reserving
  <2>2. AmountInv'
    BY DEF AmountInv, TypeOK, Reserving
  <2>3. LateInv'
    BY DEF LateInv, TypeOK, Reserving, Charged
  <2>4. AboutToSpend'
    BY DEF AboutToSpend, TypeOK, Charged
  <2> QED
    BY <1>r, <2>1, <2>2, <2>3, <2>4 DEF SpentInv
<1>2. CASE ~(Forget(p) /\ EndTransaction(p))
  <2>1. /\ kind = "page" => left >= 1
        /\ Goto(p, "lock")
        /\ UNCHANGED <<req, seen, lock, rowlock>>
        /\ amount' = [amount EXCEPT ![p] =
              CASE kind = "exchange" -> 1
                [] kind = "reuse" -> 2
                [] kind = "page" -> IF left < PageRequests THEN left ELSE PageRequests]
    BY <1>2 DEF RequestAmount, locks
  <2> HIDE DEF left, kind
  <2>2. /\ kind = "exchange" => amount'[p] = 1
        /\ kind = "reuse" => amount'[p] = 2
        /\ kind = "page" => /\ amount'[p] = PageRequests \/ left <= amount'[p]
                            /\ amount'[p] <= PageRequests
        /\ \A o \in Proc \ {p} : amount'[o] = amount[o] /\ pc'[o] = pc[o]
        /\ pc'[p] = "lock" /\ req' = req /\ rowlock' = rowlock
    BY <1>t, <1>a, <1>l, <2>1 DEF TypeOK, Goto, Capability
  <2>3. RowLockInv'
    BY <1>t, <1>a, <2>2 DEF RowLockInv
  <2>4. AmountInv'
    BY <1>t, <1>0, <2>2 DEF AmountInv, left, kind
  <2>5. LateInv'
    <3>1. Recorded(ledger, "REQUEST", req[p]) => amount'[p] <= Charged(req[p])
      <4> SUFFICES ASSUME Recorded(ledger, "REQUEST", req[p])
                   PROVE  amount'[p] <= Charged(req[p])
        OBVIOUS
      <4>1. /\ kind = "exchange" => Charged(req[p]) = 1
            /\ kind = "reuse" => Charged(req[p]) = 2
            /\ kind = "page" => Charged(req[p]) = PageRequests \/ left <= 0
        BY <1>t, <1>a DEF RowSizeInv, left, kind
      <4> QED
        BY <1>a, <1>l, <2>1, <2>2, <4>1 DEF Capability
    <3> QED
      BY <1>t, <1>0, <2>2, <3>1 DEF LateInv, Charged
  <2>6. AboutToSpend'
    BY <1>t, <1>0, <2>2 DEF AboutToSpend, Charged
  <2> QED
    BY <1>r, <2>3, <2>4, <2>5, <2>6 DEF SpentInv
<1> QED
  BY <1>1, <1>2

(* A model call is reserved for itself: no row of a request changes. *)
LEMMA ModelCallSpent ==
    ASSUME LedgerInv, SpentInv, NEW p \in Proc, ChargeModelCall(p)
    PROVE  SpentInv'
<1> DEFINE q == req[p]
           n == amount[p]
<1>t. TypeOK /\ ReqInv /\ RowLockInv /\ AmountInv /\ LateInv /\ RowSizeInv
      /\ AboutToSpend /\ SpentWasReserved /\ IsFiniteSet(ledger) /\ WithinAllowance
  BY DEF LedgerInv, SpentInv
<1>p. pc[p] = "charge" /\ q \in ModelRequest /\ seen[p] = ledger /\ q \notin Attempt
      /\ n \in Nat \ {0} /\ UNCHANGED <<attempt, capability, called, granted>>
      /\ EndTransaction(p)
  BY <1>t, OnlyHolder, RequestAssumption DEF ChargeModelCall, ReqInv, Reserving
<1>1. /\ \A a \in Attempt : RowOf(ledger', "REQUEST", a) = RowOf(ledger, "REQUEST", a)
      /\ Total(ledger', "REQUEST") = Total(ledger, "REQUEST")
      /\ ledger \subseteq ledger'
      /\ pc' = [pc EXCEPT ![p] = pc'[p]]
      /\ \A o \in Proc \ {p} : amount'[o] = amount[o] /\ req'[o] = req[o]
      /\ pc'[p] \in {"idle", "call"}
      /\ pc'[p] = "call" => Recorded(ledger', "MODEL_CALL", req'[p])
  <2>1. CASE Accepts(ledger, "MODEL_CALL", q, n)
    <3>1. /\ ledger' = ledger \cup Inserted(ledger, "MODEL_CALL", q, n)
          /\ Goto(p, "call") /\ UNCHANGED <<req, amount>>
      BY <2>1, <1>p DEF ChargeModelCall
    <3>2. InsertOutcome(ledger, ledger', "MODEL_CALL", q, n)
      <4>1. "MODEL_CALL" \in Resource /\ Total(ledger, "MODEL_CALL") <= Allowance["MODEL_CALL"]
        BY <1>t DEF WithinAllowance, Resource
      <4> HIDE DEF q, n
      <4> QED
        BY <2>1, <1>t, <1>p, <3>1, <4>1, InsertFacts
    <3>3. Recorded(ledger', "MODEL_CALL", req'[p]) /\ Total(ledger', "REQUEST") = Total(ledger, "REQUEST")
      BY <3>1, <3>2 DEF InsertOutcome
    <3>4. \A a \in Attempt : RowOf(ledger', "REQUEST", a) = RowOf(ledger, "REQUEST", a)
      BY <3>1, InsertElsewhere
    <3> QED
      BY <1>t, <3>1, <3>3, <3>4 DEF TypeOK, Goto
  <2>2. CASE ~Accepts(ledger, "MODEL_CALL", q, n)
    <3>1. Forget(p) /\ UNCHANGED ledger
      BY <2>2, <1>p DEF ChargeModelCall
    <3> QED
      BY <1>t, <3>1 DEF TypeOK, Forget, Goto
  <2> QED
    BY <2>1, <2>2
<1>2. \A a \in Attempt : Charged(a)' = Charged(a)
                        /\ (Recorded(ledger', "REQUEST", a) <=> Recorded(ledger, "REQUEST", a))
  BY <1>1 DEF Charged, Recorded
<1>3. Remaining(ledger', "REQUEST") = Remaining(ledger, "REQUEST")
  BY <1>1 DEF Remaining
<1>4. \A r, b : Recorded(ledger, r, b) => Recorded(ledger', r, b)
  BY <1>1 DEF Recorded, RowOf
<1>5. \A o \in Proc \ {p} : pc'[o] = pc[o]
  BY <1>1, <1>t DEF TypeOK
<1>6. RowLockInv'
  <2>1. \A o \in Proc \ {p}, a \in Attempt : rowlock[a] = o => rowlock'[a] = o
    BY <1>p DEF EndTransaction
  <2> QED
    BY <1>t, <1>1, <1>5, <2>1 DEF RowLockInv, ReqInv, Reserving
<1>7. AmountInv'
  BY <1>t, <1>p, <1>1, <1>3, <1>5 DEF AmountInv, Reserving
<1>8. LateInv'
  BY <1>t, <1>p, <1>1, <1>2, <1>5 DEF LateInv, Reserving
<1>9. RowSizeInv'
  BY <1>t, <1>p, <1>2, <1>3 DEF RowSizeInv
<1>10. AboutToSpend'
  BY <1>t, <1>1, <1>2, <1>4, <1>5 DEF AboutToSpend, ReqInv
<1>11. SpentWasReserved'
  <2>1. \A a \in Attempt : granted'[a] <= Cardinality(RowOf(ledger', "REQUEST", a))
    BY <1>t, <1>p, <1>1 DEF SpentWasReserved
  <2> QED
    BY <1>t, <1>p, <1>4, <2>1 DEF SpentWasReserved
<1> QED
  BY <1>6, <1>7, <1>8, <1>9, <1>10, <1>11 DEF SpentInv

(***************************************************************************)
(* A dispatch: the first of an attempt writes the row it will spend, a     *)
(* later one finds a row at least as large as its own amount.              *)
(***************************************************************************)
LEMMA DispatchSpent ==
    ASSUME LedgerInv, SpentInv, NEW p \in Proc, ChargeDispatch(p)
    PROVE  SpentInv'
<1> DEFINE a == req[p]
           n == amount[p]
           left == Remaining(ledger, "REQUEST")
           accepted == /\ Accepts(ledger, "WORKER_INVOCATION", a, 1)
                       /\ Accepts(ledger, "REQUEST", a, n)
<1>t. TypeOK /\ ReqInv /\ RowLockInv /\ AmountInv /\ LateInv /\ RowSizeInv
      /\ AboutToSpend /\ SpentWasReserved /\ IsFiniteSet(ledger) /\ WithinAllowance
  BY DEF LedgerInv, SpentInv
<1>p. pc[p] = "charge" /\ a \in Attempt /\ seen[p] = ledger /\ rowlock[a] = p
      /\ n \in Nat \ {0} /\ UNCHANGED <<capability, called, granted>>
      /\ EndTransaction(p)
  BY <1>t, OnlyHolder DEF ChargeDispatch, ReqInv, RowLockInv, Reserving
<1>o. \A o \in Proc \ {p}, b \in Attempt : rowlock[b] = o => rowlock'[b] = o
  BY <1>p DEF EndTransaction
<1>1. CASE ~accepted
  <2>1. Forget(p) /\ UNCHANGED <<ledger, attempt>>
    BY <1>1, <1>p DEF ChargeDispatch
  <2> USE <1>t, <1>p, <2>1 DEF Forget, Goto
  <2>2. RowLockInv'
    BY <1>o DEF RowLockInv, ReqInv, TypeOK, Reserving
  <2>3. AmountInv'
    BY DEF AmountInv, TypeOK, Reserving
  <2>4. LateInv'
    BY DEF LateInv, TypeOK, Reserving, Charged
  <2>5. AboutToSpend' /\ RowSizeInv' /\ SpentWasReserved'
    BY DEF AboutToSpend, RowSizeInv, SpentWasReserved, TypeOK, Charged
  <2> QED
    BY <2>2, <2>3, <2>4, <2>5 DEF SpentInv
<1>2. CASE accepted
  <2>1. /\ ledger' = ledger \cup Inserted(ledger, "WORKER_INVOCATION", a, 1)
                           \cup Inserted(ledger, "REQUEST", a, n)
        /\ Goto(p, "invoke") /\ UNCHANGED <<req, amount>>
    BY <1>2, <1>p DEF ChargeDispatch
  <2>2. /\ IsFiniteSet(ledger')
        /\ Recorded(ledger', "WORKER_INVOCATION", a) /\ Recorded(ledger', "REQUEST", a)
        /\ \A r, b : b # a \/ r \notin {"WORKER_INVOCATION", "REQUEST"}
                    => RowOf(ledger', r, b) = RowOf(ledger, r, b)
        /\ Total(ledger, "REQUEST") <= Total(ledger', "REQUEST")
        /\ ~Recorded(ledger, "REQUEST", a) =>
              /\ Cardinality(RowOf(ledger', "REQUEST", a)) = n
              /\ Total(ledger', "REQUEST") = Total(ledger, "REQUEST") + n
        /\ Recorded(ledger, "REQUEST", a) =>
              RowOf(ledger', "REQUEST", a) = RowOf(ledger, "REQUEST", a)
    <3>1. \A r \in Resource : Total(ledger, r) <= Allowance[r]
      BY <1>t DEF WithinAllowance
    <3> HIDE DEF a, n
    <3> QED
      BY <1>2, <1>t, <1>p, <2>1, <3>1, DispatchInserts
  <2>3. pc' = [pc EXCEPT ![p] = "invoke"] /\ req' = req /\ amount' = amount
    BY <2>1 DEF Goto
  <2>4. \A o \in Proc \ {p} : pc'[o] = pc[o]
    BY <1>t, <2>3 DEF TypeOK
  <2>5. pc'[p] = "invoke"
    BY <1>t, <2>3 DEF TypeOK
  <2>7. /\ left \in Int /\ left' \in Int /\ left' <= left
        /\ ~Recorded(ledger, "REQUEST", a) => left' = left - n
    <3>1. /\ Total(ledger, "REQUEST") \in Nat /\ Total(ledger', "REQUEST") \in Nat
          /\ Allowance["REQUEST"] \in Nat
      BY <1>t, <2>2, TotalType, AllowanceType DEF Resource
    <3> QED
      BY <1>p, <2>2, <3>1 DEF Remaining
  <2>8. /\ Recorded(ledger, "REQUEST", a) => Charged(a)' = Charged(a)
        /\ ~Recorded(ledger, "REQUEST", a) => Charged(a)' = n
    BY <2>2, <2>3 DEF Charged
  <2>9. n <= Charged(a)'
    BY <1>t, <1>p, <2>8 DEF LateInv, Reserving
  <2>10. \A o \in Proc \ {p} : pc[o] \in Reserving /\ req[o] \in Attempt => req[o] # a
    BY <1>t, <1>p DEF RowLockInv
  <2> HIDE DEF left
  <2>11. RowLockInv'
    BY <1>t, <1>o, <2>3, <2>4, <2>5 DEF RowLockInv, ReqInv, Reserving
  <2>12. AmountInv'
    <3> SUFFICES ASSUME NEW o \in Proc, pc'[o] \in Reserving, req'[o] \in Attempt
                 PROVE  /\ capability'[req'[o]] = "exchange" => amount'[o] = 1
                        /\ capability'[req'[o]] = "reuse" => amount'[o] = 2
                        /\ capability'[req'[o]] = "page" =>
                              amount'[o] = PageRequests \/ left' <= amount'[o]
      BY DEF AmountInv, left
    <3>1. o # p /\ pc[o] = pc'[o] /\ amount[o] \in Nat
      BY <1>t, <2>4, <2>5 DEF Reserving, TypeOK
    <3>2. /\ capability[req[o]] = "exchange" => amount[o] = 1
          /\ capability[req[o]] = "reuse" => amount[o] = 2
          /\ capability[req[o]] = "page" =>
                amount[o] = PageRequests \/ left <= amount[o]
      BY <1>t, <2>3, <3>1 DEF AmountInv, left
    <3> QED
      BY <1>p, <2>3, <2>7, <3>1, <3>2
  <2>13. LateInv'
    <3> SUFFICES ASSUME NEW o \in Proc, pc'[o] \in Reserving, req'[o] \in Attempt,
                        Recorded(ledger', "REQUEST", req'[o])
                 PROVE  amount'[o] <= Charged(req[o])'
      BY DEF LateInv
    <3>1. o # p /\ pc[o] = pc'[o]
      BY <2>4, <2>5 DEF Reserving
    <3>2. req[o] \in Attempt \ {a}
      BY <2>3, <2>10, <3>1
    <3>3. Charged(req[o])' = Charged(req[o]) /\ Recorded(ledger, "REQUEST", req[o])
      BY <2>2, <2>3, <3>2 DEF Charged, Recorded
    <3> QED
      BY <1>t, <2>3, <3>1, <3>2, <3>3 DEF LateInv
  <2>14. RowSizeInv'
    <3> SUFFICES ASSUME NEW b \in Attempt, Recorded(ledger', "REQUEST", b)
                 PROVE  /\ capability[b] = "exchange" => Charged(b)' = 1
                        /\ capability[b] = "reuse" => Charged(b)' = 2
                        /\ capability[b] = "page" =>
                              Charged(b)' = PageRequests \/ left' <= 0
      BY <1>p DEF RowSizeInv, left
    <3>1. CASE b # a \/ Recorded(ledger, "REQUEST", b)
      <4>1. Recorded(ledger, "REQUEST", b) /\ Charged(b)' = Charged(b)
        <5>1. RowOf(ledger', "REQUEST", b) = RowOf(ledger, "REQUEST", b)
          BY <2>2, <3>1
        <5> QED
          BY <5>1 DEF Charged, Recorded
      <4>2. /\ capability[b] = "exchange" => Charged(b) = 1
            /\ capability[b] = "reuse" => Charged(b) = 2
            /\ capability[b] = "page" => Charged(b) = PageRequests \/ left <= 0
        BY <1>t, <4>1 DEF RowSizeInv, left
      <4> QED
        BY <2>7, <4>1, <4>2
    <3>2. CASE b = a /\ ~Recorded(ledger, "REQUEST", b)
      <4>1. Charged(b)' = n /\ left' = left - n
        BY <2>2, <2>7, <3>2 DEF Charged
      <4>2. /\ capability[a] = "exchange" => n = 1
            /\ capability[a] = "reuse" => n = 2
            /\ capability[a] = "page" => n = PageRequests \/ left <= n
        BY <1>t, <1>p DEF AmountInv, Reserving, left
      <4> QED
        BY <1>p, <2>7, <3>2, <4>1, <4>2
    <3> QED
      BY <3>1, <3>2
  <2>6. \A r, b : Recorded(ledger, r, b) => Recorded(ledger', r, b)
    BY <2>1 DEF Recorded, RowOf
  <2>15. AboutToSpend'
    <3> SUFFICES ASSUME NEW o \in Proc
                 PROVE  /\ pc'[o] = "call" => Recorded(ledger', "MODEL_CALL", req[o])
                        /\ pc'[o] = "invoke" =>
                              /\ amount[o] <= Cardinality(RowOf(ledger', "REQUEST", req[o]))
                              /\ Recorded(ledger', "WORKER_INVOCATION", req[o])
                              /\ Recorded(ledger', "REQUEST", req[o])
      BY <2>3 DEF AboutToSpend, Charged
    <3>1. CASE o = p
      BY <2>2, <2>3, <2>5, <2>9, <3>1 DEF Charged
    <3>2. CASE o # p
      <4>1. pc'[o] = pc[o]
        BY <2>4, <3>2
      <4>2. pc[o] = "call" => Recorded(ledger', "MODEL_CALL", req[o])
        BY <1>t, <2>2 DEF AboutToSpend, Recorded
      <4>3. ASSUME pc[o] = "invoke"
            PROVE  amount[o] <= Cardinality(RowOf(ledger', "REQUEST", req[o]))
        <5>1. req[o] \in Attempt /\ amount[o] <= Charged(req[o])
          BY <1>t, <4>3 DEF AboutToSpend, ReqInv
        <5>2. CASE req[o] # a
          BY <2>2, <5>1, <5>2 DEF Charged
        <5>3. CASE req[o] = a /\ Recorded(ledger, "REQUEST", a)
          BY <2>2, <5>1, <5>3 DEF Charged
        <5>4. CASE req[o] = a /\ ~Recorded(ledger, "REQUEST", a)
          <6>1. Charged(a) = 0
            BY <5>4, FS_EmptySet DEF Charged, Recorded
          <6> QED
            BY <1>t, <1>p, <2>2, <5>1, <5>4, <6>1 DEF TypeOK
        <5> QED
          BY <5>2, <5>3, <5>4
      <4>4. pc[o] = "invoke" => /\ Recorded(ledger', "WORKER_INVOCATION", req[o])
                                /\ Recorded(ledger', "REQUEST", req[o])
        BY <1>t, <2>6 DEF AboutToSpend
      <4> QED
        BY <4>1, <4>2, <4>3, <4>4
    <3> QED
      BY <3>1, <3>2
  <2>16. SpentWasReserved'
    <3>1. \A q \in called' :
             \/ Recorded(ledger', "MODEL_CALL", q)
             \/ Recorded(ledger', "WORKER_INVOCATION", q) /\ Recorded(ledger', "REQUEST", q)
      BY <1>t, <1>p, <2>6 DEF SpentWasReserved
    <3>2. ASSUME NEW b \in Attempt
          PROVE  granted[b] <= Cardinality(RowOf(ledger', "REQUEST", b))
      <4>1. granted[b] <= Charged(b) /\ granted[b] \in Nat
        BY <1>t DEF SpentWasReserved, Charged, TypeOK
      <4>2. CASE b # a
        BY <2>2, <4>1, <4>2 DEF Charged
      <4>3. CASE b = a /\ Recorded(ledger, "REQUEST", a)
        BY <2>2, <4>1, <4>3 DEF Charged
      <4>4. CASE b = a /\ ~Recorded(ledger, "REQUEST", a)
        <5>1. Charged(a) = 0
          BY <4>4, FS_EmptySet DEF Charged, Recorded
        <5> QED
          BY <1>p, <2>2, <4>1, <4>4, <5>1
      <4> QED
        BY <4>2, <4>3, <4>4
    <3> QED
      BY <1>p, <3>1, <3>2 DEF SpentWasReserved
  <2> QED
    BY <2>11, <2>12, <2>13, <2>14, <2>15, <2>16 DEF SpentInv
<1> QED
  BY <1>1, <1>2

(* Every step keeps both invariants. *)
LEMMA NextSpent == LedgerInv /\ SpentInv /\ [Next]_vars => SpentInv'
<1> SUFFICES ASSUME LedgerInv, SpentInv, [Next]_vars PROVE SpentInv'
  OBVIOUS
<1>1. CASE Next
  <2>1. PICK p \in Proc : Step(p) \/ Wait(p) \/ Begin(p) \/ Crash(p)
    BY <1>1 DEF Next
  <2> QED
    BY <2>1, QuietSpent, AmountSpent, ModelCallSpent, DispatchSpent DEF Step, Wait, Begin
<1>2. CASE UNCHANGED vars
  BY <1>2 DEF vars, SpentInv, RowLockInv, AmountInv, LateInv, RowSizeInv, AboutToSpend,
              SpentWasReserved, Charged
<1> QED
  BY <1>1, <1>2

(***************************************************************************)
(* No model call is made and no Worker is given leave for requests that    *)
(* the ledger does not charge: reserved before spent.                      *)
(***************************************************************************)
THEOREM ReservedBeforeSpent == Spec => []SpentWasReserved
<1>1. SpentInv => SpentWasReserved
  BY DEF SpentInv
<1> QED
  BY InitLedger, NextLedger, InitSpent, NextSpent, <1>1, PTL DEF Spec
=============================================================================
