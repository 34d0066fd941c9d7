-------------------------- MODULE FakePayeeProofs --------------------------
(***************************************************************************)
(* What a test on payeedaemon.Fake says about the daemon, proved for any   *)
(* number of requests, blobs and faults.                                   *)
(***************************************************************************)
EXTENDS FakePayee, SessionProofs

-----------------------------------------------------------------------------
(***************************************************************************)
(* The Fake of the tests, in lockstep with the daemon.  FakeAgrees is not  *)
(* inductive: that the two balances start out equal when a request opens a *)
(* session of its own takes FreshLedgers, which says that both are still   *)
(* zero under a work_id that no handler has got to open; that the daemon   *)
(* debits at the Fake's price takes SessionHeld.                           *)
(***************************************************************************)
FStep(r) == ((Arrive(r) \/ Cancel(r)) /\ UNCHANGED fakeVars) \/ FHandle(r)

FreshLedgers ==
  \A w \in WorkIDs :
    (\A q \in Requests : blob[q] # None /\ work(q) = w => pc[q] \in {"route", "open"}) =>
      bal[w] = 0 /\ balances[w] = 0

FakeInv == balances \in [WorkIDs -> Int] /\ FreshLedgers /\ FakeAgrees

\* The settings under which a test reads the daemon's balances off the Fake.
SameMoney == Credits = {CreditPerCall} /\ \A m \in Offered : Price[m] = DebitWeiPerWorkUnit

\* The handlers in lockstep are the handlers.
LEMMA FStepIsStep ==
  ASSUME NEW r \in Requests, FStep(r)
  PROVE  StepOf(r)
BY DEF FStep, FHandle, CallStep, LocalStep, StepOf, Handle

LEMMA FNextIsNext == [FNext]_fvars => [Next]_vars
<1> SUFFICES ASSUME [FNext]_fvars PROVE [Next]_vars OBVIOUS
<1>1. CASE \E r \in Requests : FStep(r) BY <1>1, FStepIsStep DEF Next, StepOf
<1>2. CASE UNCHANGED fvars BY <1>2 DEF fvars
<1> QED BY <1>1, <1>2 DEF FNext, FStep

LEMMA FakeRuns == FairFakeSpec => Spec /\ []SInv
<1>1. FInit => Init BY DEF FInit
<1>2. FairFakeSpec => Spec BY <1>1, FNextIsNext, PTL DEF FairFakeSpec, Spec
<1> QED BY <1>2, SInvariance, PTL

\* A credit or a debit of the Fake, made or not.
LEMMA FakeMoves ==
  ASSUME NEW r, NEW err, NEW d,
         balances' = IF err THEN balances ELSE [balances EXCEPT ![work(r)] = d]
  PROVE  balances' = balances \/ balances' = [balances EXCEPT ![work(r)] = d]
BY Zenon

\* The Fake's balance under another work_id does not move.
LEMMA FakeFootprint ==
  ASSUME balances \in [WorkIDs -> Int], TypeOK, InputsKnown, NEW r \in Requests, FStep(r)
  PROVE  /\ balances' \in [WorkIDs -> Int]
         /\ \A w \in WorkIDs : w # work(r) => balances'[w] = balances[w]
<1> DEFINE Moved(d) == balances' = [balances EXCEPT ![work(r)] = d]
<1>0. \/ balances' = balances
      \/ ProcessPayment(r) /\ FakeProcessPayment(r, PayFailed(r))
      \/ DebitBalance(r) /\ FakeDebitBalance(r, est[r], DebitFailed(r))
      \/ Reconcile(r) /\ FakeDebitBalance(r, act[r] - est[r], ReconcileFailed(r))
  BY DEF FStep, FHandle, CallStep, LocalStep, FakeOpenSession, FakeCloseSession, fakeVars
<1>1. ASSUME NEW d \in Int, Moved(balances[work(r)] + d) \/ Moved(balances[work(r)] - d),
             work(r) \in WorkIDs
      PROVE  /\ balances' \in [WorkIDs -> Int]
             /\ \A w \in WorkIDs : w # work(r) => balances'[w] = balances[w]
  BY <1>1
<1>2. CASE balances' = balances BY <1>2
<1>3. CASE ProcessPayment(r) /\ FakeProcessPayment(r, PayFailed(r))
  <2>1. balances' = balances \/ Moved(balances[work(r)] + CreditPerCall)
    BY <1>3, FakeMoves, Zenon DEF FakeProcessPayment, balanceKey
  <2>2. work(r) \in WorkIDs BY <1>3, CallIsDaemonStep DEF CallOf
  <2>3. CreditPerCall \in Int BY FakeSettings
  <2> HIDE DEF Moved
  <2> QED BY <1>1, <1>2, <2>1, <2>2, <2>3
<1>4. CASE DebitBalance(r) /\ FakeDebitBalance(r, est[r], DebitFailed(r))
  <2>1. balances' = balances \/ Moved(balances[work(r)] - DebitWeiPerWorkUnit * est[r])
    BY <1>4, FakeMoves, Zenon DEF FakeDebitBalance, balanceKey
  <2>2. work(r) \in WorkIDs BY <1>4, CallIsDaemonStep DEF CallOf
  <2>3. DebitWeiPerWorkUnit * est[r] \in Int BY FakeSettings DEF TypeOK
  <2> HIDE DEF Moved
  <2> QED BY <1>1, <1>2, <2>1, <2>2, <2>3
<1>5. CASE Reconcile(r) /\ FakeDebitBalance(r, act[r] - est[r], ReconcileFailed(r))
  <2>1. balances' = balances \/ Moved(balances[work(r)] - DebitWeiPerWorkUnit * (act[r] - est[r]))
    BY <1>5, FakeMoves, Zenon DEF FakeDebitBalance, balanceKey
  <2>2. work(r) \in WorkIDs BY <1>5, CallIsDaemonStep DEF CallOf
  <2>3. DebitWeiPerWorkUnit * (act[r] - est[r]) \in Int BY FakeSettings DEF TypeOK
  <2> HIDE DEF Moved
  <2> QED BY <1>1, <1>2, <2>1, <2>2, <2>3
<1> QED BY <1>0, <1>2, <1>3, <1>4, <1>5

\* A status once written stays.
LEMMA StatusKept ==
  ASSUME TypeOK, NEW r \in Requests, StepOf(r), status[r] # 0
  PROVE  status'[r] = status[r]
BY DEF TypeOK, StepOf, Handle, Arrive, Cancel, AcquireSlot, RejectAtCapacity, ReadLen,
       SetInflightRequests, ReadBody, ReadPaymentHeader, ResolveRoute, OpenSession,
       ProcessPayment, EstimateWorkUnits, DebitBalance, ServeOK, ServeError, Reconcile,
       CloseSession, EmitRequestMetrics, ReleaseSlot, Respond

\* No step spends or earns anything under a work_id not opened before and after.
LEMMA FreshStep ==
  ASSUME SInv, FakeInv, NEW r \in Requests, FStep(r)
  PROVE  FreshLedgers'
<1>0. /\ TypeOK /\ InputsKnown /\ BlobRead /\ StepOf(r)
      /\ balances \in [WorkIDs -> Int] /\ FreshLedgers
  BY FStepIsStep DEF SInv, IInv, FakeInv
<1>a. StepOf(r) <=> (Arrive(r) \/ Cancel(r) \/ Handle(r)) BY DEF StepOf
<1> SUFFICES ASSUME NEW w \in WorkIDs,
                    \A q \in Requests : blob'[q] # None /\ work(q)' = w => pc'[q] \in {"route", "open"}
             PROVE  bal'[w] = 0 /\ balances'[w] = 0
  BY DEF FreshLedgers
<1>1. ASSUME NEW q \in Requests, blob[q] # None, work(q) = w
      PROVE  pc[q] \in {"route", "open"} /\ pc'[q] \in {"route", "open"}
  <2>1. blob'[q] # None /\ work(q)' = w BY <1>0, <1>1, BlobKept
  <2>2. pc'[q] \in {"route", "open"} BY <2>1
  <2>3. pc[q] \notin Unread BY <1>0, <1>1 DEF BlobRead
  <2>4. CASE q = r BY <1>0, <2>2, <2>3, <2>4, OwnStep
  <2>5. CASE q # r BY <1>0, <1>a, <2>2, <2>5, OthersUntouched
  <2> QED BY <2>2, <2>4, <2>5
<1>2. bal[w] = 0 /\ balances[w] = 0 BY <1>0, <1>1 DEF FreshLedgers
<1>3. CASE w # work(r) BY <1>0, <1>2, <1>3, LedgerFootprint, FakeFootprint
<1>4. CASE w = work(r)
  <2>1. PICK b \in Blobs : w = deriveWorkID(b) BY DEF WorkIDs
  <2>2. blob[r] # None BY <1>4, <2>1, NoneIsNoBlob DEF work, deriveWorkID
  <2>3. pc[r] \in {"route", "open"} /\ pc'[r] \in {"route", "open"} BY <1>1, <1>4, <2>2
  <2>4. ~CallOf(r)
    BY <1>0, <2>3 DEF CallOf, OpenSession, ProcessPayment, DebitBalance, Reconcile, CloseSession,
       Goto, TypeOK
  <2>5. bal' = bal BY <1>0, <2>4, QuietLedger DEF dvars
  <2>6. balances' = balances
    BY <2>4 DEF FStep, FHandle, CallStep, LocalStep, CallOf, fakeVars
  <2> QED BY <1>2, <2>5, <2>6
<1> QED BY <1>3, <1>4

\* Each call of the daemon goes with the Fake's, and no other step moves money.
LEMMA Lockstep ==
  ASSUME NEW r \in Requests, FStep(r)
  PROVE  \/ OpenSession(r) /\ balances' = balances
         \/ ProcessPayment(r) /\ FakeProcessPayment(r, PayFailed(r))
         \/ DebitBalance(r) /\ FakeDebitBalance(r, est[r], DebitFailed(r))
         \/ Reconcile(r) /\ FakeDebitBalance(r, act[r] - est[r], ReconcileFailed(r))
         \/ CloseSession(r)
         \/ UNCHANGED dvars /\ balances' = balances
<1>1. CASE LocalStep(r)
  BY <1>1 DEF LocalStep, fakeVars, AcquireSlot, RejectAtCapacity, ReadLen, SetInflightRequests,
     ReadBody, ReadPaymentHeader, ResolveRoute, EstimateWorkUnits, ServeOK, ServeError,
     EmitRequestMetrics, ReleaseSlot
<1>2. CASE CallStep(r) BY <1>2 DEF CallStep, FakeOpenSession
<1>3. CASE (Arrive(r) \/ Cancel(r)) /\ UNCHANGED fakeVars BY <1>3 DEF Arrive, Cancel, fakeVars
<1> QED BY <1>1, <1>2, <1>3 DEF FStep, FHandle

\* What r's own calls do to the two balances of a session of its own.
LEMMA AgreeOwn ==
  ASSUME SInv, FakeInv, SameMoney, NEW r \in Requests, FStep(r),
         InSession(r)', Exclusive(r)', status'[r] # 502, warned'[r] \subseteq {"serve"}
  PROVE  balances'[work(r)'] = bal'[work(r)']
<1>0. /\ TypeOK /\ InputsKnown /\ BlobRead /\ StepOf(r) /\ ChargeProgress(r) /\ SessionHeld
      /\ balances \in [WorkIDs -> Int] /\ FreshLedgers /\ FakeAgrees
  BY FStepIsStep DEF SInv, IInv, FakeInv
<1>1. InSession(r) \/ OpenSession(r) BY <1>0, OwnStep
<1>2. blob[r] \in Blobs BY <1>0, <1>1 DEF InputsKnown, InSession, OpenSession, Goto
<1>3. blob[r] # None BY <1>2, NoneIsNoBlob
<1>4. work(r)' = work(r) /\ work(r) \in WorkIDs BY <1>0, <1>2, <1>3, BlobKept, WorkOfBlob
<1>5. Exclusive(r) BY <1>0, <1>3, ExclusiveBefore
<1> DEFINE w == work(r)
<1> SUFFICES balances'[w] = bal'[w] BY <1>4
<1>6. CASE OpenSession(r)
  <2>1. pc[r] = "open" BY <1>6 DEF OpenSession, Goto
  <2>2. ASSUME NEW q \in Requests, blob[q] # None, work(q) = work(r)
        PROVE  pc[q] \in {"route", "open"}
    <3>1. blob[q] = blob[r] BY <2>2, WorkInjective
    <3>2. q = r BY <1>5, <3>1 DEF Exclusive
    <3> QED BY <2>1, <3>2
  <2>3. bal[w] = 0 /\ balances[w] = 0 BY <1>0, <1>4, <2>2 DEF FreshLedgers
  <2>4. bal' = bal BY <1>6 DEF OpenSession, DaemonOpen, dvars
  <2>5. balances' = balances
    BY <1>6 DEF FStep, FHandle, CallStep, LocalStep, FakeOpenSession, FakeCloseSession, fakeVars,
       OpenSession, ProcessPayment, DebitBalance, Reconcile, CloseSession, Goto
  <2> QED BY <2>3, <2>4, <2>5
<1>7. CASE ~OpenSession(r)
  <2>1. InSession(r) BY <1>1, <1>7
  <2>2. status[r] # 502 BY <1>0, StatusKept
  <2>3. warned[r] \subseteq {"serve"} BY <1>0, OwnStep
  <2>4. balances[w] = bal[w] BY <1>0, <1>5, <2>1, <2>2, <2>3 DEF FakeAgrees, BalanceFor, balanceKey
  <2>5. balances[w] \in Int /\ bal[w] \in Int BY <1>0, <1>4 DEF TypeOK, DaemonTypeOK
  <2>6. sprice[w] = DebitWeiPerWorkUnit
    <3>1. model[r] \in Offered \/ pc[r] \notin {"debit", "reconcile"} BY <1>0 DEF InputsKnown
    <3>2. sprice[w] = Price[model[r]] BY <1>0, <1>5, <2>1 DEF SessionHeld
    <3>3. model[r] \in Offered BY <1>0, <2>1 DEF InputsKnown, InSession
    <3> QED BY <3>2, <3>3 DEF SameMoney
  <2>7. CASE ProcessPayment(r) /\ FakeProcessPayment(r, PayFailed(r))
    <3>1. pc'[r] # "metrics" BY DEF InSession
    <3>2. accepted' = [accepted EXCEPT ![r] = TRUE] /\ \E c \in Credits : DaemonProcess(w, c)
      BY <1>0, <2>7, <3>1 DEF ProcessPayment, Goto, TypeOK
    <3>3. accepted'[r] = TRUE
      <4>1. accepted \in [Requests -> BOOLEAN] BY <1>0 DEF TypeOK
      <4> QED BY <3>2, <4>1
    <3>4. ~PayFailed(r) BY <3>3, Zenon DEF PayFailed
    <3>5. balances' = [balances EXCEPT ![w] = balances[w] + CreditPerCall]
      BY <2>7, <3>4, Zenon DEF FakeProcessPayment, balanceKey
    <3>6. DaemonProcess(w, CreditPerCall) BY <3>2 DEF SameMoney
    <3>7. bal' = [bal EXCEPT ![w] = bal[w] + CreditPerCall] BY <3>6 DEF DaemonProcess
    <3> QED BY <1>0, <1>4, <2>4, <3>5, <3>7 DEF TypeOK, DaemonTypeOK
  <2>8. CASE DebitBalance(r) /\ FakeDebitBalance(r, est[r], DebitFailed(r))
    <3>1. status[r] = 0 BY <1>0, <2>8 DEF ChargeProgress, Funded, DebitBalance
    <3>2. DebitUpfront(r) BY <1>0, <2>8, <3>1 DEF DebitBalance, Respond, TypeOK
    <3>3. bal' = [bal EXCEPT ![w] = bal[w] - sprice[w] * est[r]]
      BY <3>2 DEF DebitUpfront, DaemonDebit
    <3>a. ~DebitFailed(r) BY DEF DebitFailed
    <3>4. balances' = [balances EXCEPT ![w] = balances[w] - DebitWeiPerWorkUnit * est[r]]
      BY <2>8, <3>a, Zenon DEF FakeDebitBalance, balanceKey
    <3> QED BY <1>0, <1>4, <2>4, <2>6, <3>3, <3>4 DEF TypeOK, DaemonTypeOK
  <2>9. CASE Reconcile(r) /\ FakeDebitBalance(r, act[r] - est[r], ReconcileFailed(r))
    <3>0. "reconcile" \notin warned'[r] OBVIOUS
    <3>a. warned' # [warned EXCEPT ![r] = @ \cup {"reconcile"}] BY <1>0, <3>0 DEF TypeOK
    <3>1. warned' = warned /\ DebitDelta(r) BY <2>9, <3>a DEF Reconcile
    <3>2. bal' = [bal EXCEPT ![w] = bal[w] - sprice[w] * (act[r] - est[r])]
      BY <3>1 DEF DebitDelta, DaemonDebit
    <3>3. ~ReconcileFailed(r) BY <3>0 DEF ReconcileFailed
    <3>4. balances' = [balances EXCEPT ![w] = balances[w] - DebitWeiPerWorkUnit * (act[r] - est[r])]
      BY <2>9, <3>3, Zenon DEF FakeDebitBalance, balanceKey
    <3> QED BY <1>0, <1>4, <2>4, <2>6, <3>2, <3>4 DEF TypeOK, DaemonTypeOK
  <2>10. ~CloseSession(r) BY <1>0 DEF CloseSession, Goto, InSession, TypeOK
  <2>11. CASE UNCHANGED dvars /\ balances' = balances BY <2>4, <2>11 DEF dvars
  <2> QED BY <1>7, <2>7, <2>8, <2>9, <2>10, <2>11, Lockstep
<1> QED BY <1>6, <1>7

LEMMA FakeInvStep ==
  ASSUME SInv, FakeInv, SameMoney, [FNext]_fvars
  PROVE  FakeInv'
<1>0. /\ TypeOK /\ InputsKnown /\ BlobRead
      /\ balances \in [WorkIDs -> Int] /\ FreshLedgers /\ FakeAgrees
  BY DEF SInv, IInv, FakeInv
<1>1. ASSUME NEW r \in Requests, FStep(r) PROVE FakeInv'
  <2>0. StepOf(r) BY <1>1, FStepIsStep
  <2>1. balances' \in [WorkIDs -> Int] BY <1>0, <1>1, FakeFootprint
  <2>2. FreshLedgers' BY <1>1, FreshStep
  <2>3. ASSUME NEW q \in Requests, InSession(q)', Exclusive(q)', status'[q] # 502,
               warned'[q] \subseteq {"serve"}
        PROVE  balances'[work(q)'] = bal'[work(q)']
    <3>1. CASE q = r BY <1>1, <2>3, <3>1, AgreeOwn
    <3>2. CASE q # r
      <4>1. InSession(q) /\ status[q] # 502 /\ warned[q] \subseteq {"serve"}
        BY <1>0, <2>0, <2>3, <3>2, OthersUntouched DEF InSession, StepOf
      <4>2. blob[q] \in Blobs BY <1>0, <4>1 DEF InputsKnown, InSession
      <4>3. blob[q] # None BY <4>2, NoneIsNoBlob
      <4>4. Exclusive(q) BY <1>0, <2>0, <2>3, <4>3, ExclusiveBefore
      <4>5. work(q) # work(r) BY <3>2, <4>4, WorkInjective DEF Exclusive
      <4>6. work(q) \in WorkIDs /\ work(q)' = work(q)
        BY <1>0, <2>0, <4>2, <4>3, WorkOfBlob, BlobKept
      <4>7. bal'[work(q)] = bal[work(q)] BY <1>0, <2>0, <4>5, <4>6, LedgerFootprint
      <4>8. balances'[work(q)] = balances[work(q)] BY <1>0, <1>1, <4>5, <4>6, FakeFootprint
      <4>9. balances[work(q)] = bal[work(q)]
        BY <1>0, <4>1, <4>4 DEF FakeAgrees, BalanceFor, balanceKey
      <4> QED BY <4>6, <4>7, <4>8, <4>9
    <3> QED BY <3>1, <3>2
  <2>4. FakeAgrees' BY <2>3 DEF FakeAgrees, BalanceFor, balanceKey
  <2> QED BY <2>1, <2>2, <2>4 DEF FakeInv
<1>2. CASE UNCHANGED fvars
  <2> USE <1>2 DEF fvars, fakeVars, vars, reqVars, dvars
  <2>1. FreshLedgers' BY <1>0 DEF FreshLedgers, work
  <2>2. FakeAgrees' BY <1>0 DEF FakeAgrees, BalanceFor, balanceKey, InSession, Exclusive, work
  <2> QED BY <1>0, <2>1, <2>2 DEF FakeInv
<1> QED BY <1>1, <1>2 DEF FNext, FStep

\* With the Fake set to the daemon's credit and price, the balance a test
\* reads off it is the daemon's as long as the request has its session to
\* itself and none of its calls failed, for any number of other handlers.
THEOREM FakeTellsTheBalance ==
  ASSUME SameMoney PROVE FairFakeSpec => []FakeAgrees
<1>1. FInit => FakeInv
  <2> SUFFICES ASSUME FInit PROVE FakeInv OBVIOUS
  <2>1. balances \in [WorkIDs -> Int] BY DEF FInit, NewFake
  <2>2. FreshLedgers BY DEF FInit, Init, NewFake, DaemonInit, FreshLedgers
  <2>3. FakeAgrees BY DEF FInit, Init, FakeAgrees, InSession
  <2> QED BY <2>1, <2>2, <2>3 DEF FakeInv
<1>2. SInv /\ FakeInv /\ [FNext]_fvars => FakeInv' BY FakeInvStep
<1>3. FakeInv => FakeAgrees BY DEF FakeInv
<1> QED BY <1>1, <1>2, <1>3, FakeRuns, PTL DEF FairFakeSpec

-----------------------------------------------------------------------------
(***************************************************************************)
(* The Fake's counters.  CallsBalanced speaks of the end, when nothing of  *)
(* the state tells any more how far a handler got; the invariant counts    *)
(* the handlers by how far they have got at every point before it.         *)
(***************************************************************************)
PreOpen == Unread \cup {"route", "open"}

Reached  == {r \in Requests : pc[r] \notin PreOpen}
Paying   == {r \in Requests : pc[r] = "pay"}
Accepted == {r \in Requests : accepted[r]}
Closed   == {r \in Requests : accepted[r] /\ ~InSession(r)}
Debited  == {r \in Requests : accepted[r] /\ pc[r] \notin Funded}
Billed   == {r \in Requests : accepted[r] /\ pc[r] \notin Funded \cup Serving}

CallInv ==
  /\ calls \in [open : Nat, pay : Nat, debit : Nat, close : Nat]
  /\ calls.pay + Cardinality(Paying) <= calls.open
  /\ calls.open <= Cardinality(Reached)
  /\ Cardinality(Accepted) <= calls.pay
  /\ calls.close = Cardinality(Closed)
  /\ calls.debit <= Cardinality(Debited) + Cardinality(Billed)
  /\ \A r \in Requests : pc[r] = "close" => accepted[r]

One(b) == IF b THEN 1 ELSE 0

\* Two sets of requests that differ in r at most.
LEMMA CountMoves ==
  ASSUME NEW r \in Requests, NEW A \in SUBSET Requests, NEW B \in SUBSET Requests,
         \A q \in Requests \ {r} : q \in B <=> q \in A
  PROVE  /\ Cardinality(A) \in Nat /\ Cardinality(B) \in Nat
         /\ Cardinality(A) <= Cardinality(Requests) /\ Cardinality(Requests) \in Nat
         /\ r \notin A => Cardinality(A) < Cardinality(Requests)
         /\ Cardinality(B) = Cardinality(A) + One(r \in B) - One(r \in A)
<1> DEFINE C == A \ {r}
<1>1. IsFiniteSet(A) /\ IsFiniteSet(B) /\ IsFiniteSet(C) /\ IsFiniteSet(Requests)
  BY RequestsFinite, FS_Subset
<1>2. /\ Cardinality(A) \in Nat /\ Cardinality(B) \in Nat /\ Cardinality(C) \in Nat
      /\ Cardinality(Requests) \in Nat
  BY <1>1, FS_CardinalityType
<1>3. Cardinality(A) <= Cardinality(Requests) BY <1>1, FS_Subset
<1>4. r \notin A => Cardinality(A) < Cardinality(Requests)
  <2> SUFFICES ASSUME r \notin A PROVE Cardinality(A) < Cardinality(Requests) OBVIOUS
  <2>1. A \cup {r} \subseteq Requests OBVIOUS
  <2>2. Cardinality(A \cup {r}) = Cardinality(A) + 1 BY <1>1, FS_AddElement
  <2>3. Cardinality(A \cup {r}) <= Cardinality(Requests) BY <1>1, <2>1, FS_Subset
  <2> QED BY <1>2, <2>2, <2>3
<1>5. C \cup {r} = A \cup {r} /\ C = B \ {r} /\ r \notin C OBVIOUS
<1>6. Cardinality(C \cup {r}) = Cardinality(C) + 1 BY <1>1, <1>5, FS_AddElement
<1>7. Cardinality(A) = Cardinality(C) + One(r \in A)
  <2>1. CASE r \in A
    <3>1. A = C \cup {r} BY <2>1
    <3> HIDE DEF C
    <3> QED BY <1>2, <1>6, <2>1, <3>1 DEF One
  <2>2. CASE r \notin A
    <3>1. A = C BY <2>2
    <3> HIDE DEF C
    <3> QED BY <1>2, <2>2, <3>1 DEF One
  <2> QED BY <2>1, <2>2
<1>8. Cardinality(B) = Cardinality(C) + One(r \in B)
  <2>1. CASE r \in B
    <3>1. B = C \cup {r} BY <2>1
    <3> HIDE DEF C
    <3> QED BY <1>2, <1>6, <2>1, <3>1 DEF One
  <2>2. CASE r \notin B
    <3>1. B = C BY <2>2
    <3> HIDE DEF C
    <3> QED BY <1>2, <2>2, <3>1 DEF One
  <2> QED BY <2>1, <2>2
<1>9. One(r \in A) \in Int /\ One(r \in B) \in Int BY DEF One
<1>10. Cardinality(B) = Cardinality(A) + One(r \in B) - One(r \in A)
  <2> HIDE DEF C
  <2> QED BY ONLY <1>2, <1>7, <1>8, <1>9
<1> QED BY <1>2, <1>3, <1>4, <1>10

\* How a step of r changes the six counts.
LEMMA CountsMove ==
  ASSUME TypeOK, TypeOK', NEW r \in Requests, StepOf(r)
  PROVE  /\ Cardinality(Requests) \in Nat
         /\ Cardinality(Reached) \in Nat
         /\ r \notin Reached => Cardinality(Reached) < Cardinality(Requests)
         /\ Cardinality(Reached') = Cardinality(Reached) + One(r \in Reached') - One(r \in Reached)
         /\ Cardinality(Paying) \in Nat
         /\ Cardinality(Paying') = Cardinality(Paying) + One(r \in Paying') - One(r \in Paying)
         /\ Cardinality(Accepted) \in Nat
         /\ r \notin Accepted => Cardinality(Accepted) < Cardinality(Requests)
         /\ Cardinality(Accepted') = Cardinality(Accepted) + One(r \in Accepted') - One(r \in Accepted)
         /\ Cardinality(Closed) \in Nat
         /\ r \notin Closed => Cardinality(Closed) < Cardinality(Requests)
         /\ Cardinality(Closed') = Cardinality(Closed) + One(r \in Closed') - One(r \in Closed)
         /\ Cardinality(Debited) \in Nat
         /\ Cardinality(Debited') = Cardinality(Debited) + One(r \in Debited') - One(r \in Debited)
         /\ Cardinality(Billed) \in Nat
         /\ Cardinality(Billed') = Cardinality(Billed) + One(r \in Billed') - One(r \in Billed)
<1>0. \A q \in Requests \ {r} : pc'[q] = pc[q] /\ accepted'[q] = accepted[q]
  BY OthersUntouched DEF StepOf
<1>1. /\ Cardinality(Requests) \in Nat /\ Cardinality(Reached) \in Nat
      /\ r \notin Reached => Cardinality(Reached) < Cardinality(Requests)
      /\ Cardinality(Reached') = Cardinality(Reached) + One(r \in Reached') - One(r \in Reached)
  <2>1. Reached \in SUBSET Requests /\ Reached' \in SUBSET Requests BY DEF Reached
  <2>2. \A q \in Requests \ {r} : q \in Reached' <=> q \in Reached BY <1>0 DEF Reached
  <2> QED BY <2>1, <2>2, CountMoves
<1>2. /\ Cardinality(Paying) \in Nat
      /\ Cardinality(Paying') = Cardinality(Paying) + One(r \in Paying') - One(r \in Paying)
  <2>1. Paying \in SUBSET Requests /\ Paying' \in SUBSET Requests BY DEF Paying
  <2>2. \A q \in Requests \ {r} : q \in Paying' <=> q \in Paying BY <1>0 DEF Paying
  <2> QED BY <2>1, <2>2, CountMoves
<1>3. /\ Cardinality(Accepted) \in Nat
      /\ r \notin Accepted => Cardinality(Accepted) < Cardinality(Requests)
      /\ Cardinality(Accepted') = Cardinality(Accepted) + One(r \in Accepted') - One(r \in Accepted)
  <2>1. Accepted \in SUBSET Requests /\ Accepted' \in SUBSET Requests BY DEF Accepted
  <2>2. \A q \in Requests \ {r} : q \in Accepted' <=> q \in Accepted BY <1>0 DEF Accepted
  <2> QED BY <2>1, <2>2, CountMoves
<1>4. /\ Cardinality(Closed) \in Nat
      /\ r \notin Closed => Cardinality(Closed) < Cardinality(Requests)
      /\ Cardinality(Closed') = Cardinality(Closed) + One(r \in Closed') - One(r \in Closed)
  <2>1. Closed \in SUBSET Requests /\ Closed' \in SUBSET Requests BY DEF Closed
  <2>2. \A q \in Requests \ {r} : q \in Closed' <=> q \in Closed BY <1>0 DEF Closed, InSession
  <2> QED BY <2>1, <2>2, CountMoves
<1>5. /\ Cardinality(Debited) \in Nat
      /\ Cardinality(Debited') = Cardinality(Debited) + One(r \in Debited') - One(r \in Debited)
  <2>1. Debited \in SUBSET Requests /\ Debited' \in SUBSET Requests BY DEF Debited
  <2>2. \A q \in Requests \ {r} : q \in Debited' <=> q \in Debited BY <1>0 DEF Debited
  <2> QED BY <2>1, <2>2, CountMoves
<1>6. /\ Cardinality(Billed) \in Nat
      /\ Cardinality(Billed') = Cardinality(Billed) + One(r \in Billed') - One(r \in Billed)
  <2>1. Billed \in SUBSET Requests /\ Billed' \in SUBSET Requests BY DEF Billed
  <2>2. \A q \in Requests \ {r} : q \in Billed' <=> q \in Billed BY <1>0 DEF Billed
  <2> QED BY <2>1, <2>2, CountMoves
<1> QED BY <1>1, <1>2, <1>3, <1>4, <1>5, <1>6

\* A counter goes up by one until it has reached its bound.
LEMMA CallCounted ==
  ASSUME calls \in [open : Nat, pay : Nat, debit : Nat, close : Nat]
  PROVE  /\ Called("open") =>
              /\ calls' \in [open : Nat, pay : Nat, debit : Nat, close : Nat]
              /\ calls'.open = IF calls.open < MaxCalls THEN calls.open + 1 ELSE calls.open
              /\ calls'.pay = calls.pay /\ calls'.debit = calls.debit /\ calls'.close = calls.close
         /\ Called("pay") =>
              /\ calls' \in [open : Nat, pay : Nat, debit : Nat, close : Nat]
              /\ calls'.pay = IF calls.pay < MaxCalls THEN calls.pay + 1 ELSE calls.pay
              /\ calls'.open = calls.open /\ calls'.debit = calls.debit /\ calls'.close = calls.close
         /\ Called("debit") =>
              /\ calls' \in [open : Nat, pay : Nat, debit : Nat, close : Nat]
              /\ calls'.debit = IF calls.debit < MaxCalls THEN calls.debit + 1 ELSE calls.debit
              /\ calls'.open = calls.open /\ calls'.pay = calls.pay /\ calls'.close = calls.close
         /\ Called("close") =>
              /\ calls' \in [open : Nat, pay : Nat, debit : Nat, close : Nat]
              /\ calls'.close = IF calls.close < MaxCalls THEN calls.close + 1 ELSE calls.close
              /\ calls'.open = calls.open /\ calls'.pay = calls.pay /\ calls'.debit = calls.debit
<1> USE DEF Called
<1>1. CASE Called("open") BY <1>1
<1>2. CASE Called("pay") BY <1>2
<1>3. CASE Called("debit") BY <1>3
<1>4. CASE Called("close") BY <1>4
<1> QED BY <1>1, <1>2, <1>3, <1>4

\* Steps without a call move a handler past the calls, never back.
LEMMA QuietMove ==
  ASSUME TypeOK, NEW r \in Requests, StepOf(r), ~CallOf(r)
  PROVE  /\ accepted' = accepted
         /\ pc[r] \notin PreOpen => pc'[r] \notin PreOpen
         /\ pc'[r] = "pay" <=> pc[r] = "pay"
         /\ InSession(r)' <=> InSession(r)
         /\ pc'[r] \in Funded => pc[r] \in Funded
         /\ pc'[r] \in Funded \cup Serving => pc[r] \in Funded \cup Serving
         /\ pc'[r] = "close" => pc[r] \in Funded \cup Serving \cup {"close"}
<1> USE DEF TypeOK, Goto, PreOpen, Unread, InSession, Funded, Serving
<1>1. CASE Arrive(r) BY <1>1 DEF Arrive
<1>2. CASE Cancel(r) BY <1>2 DEF Cancel
<1>3. CASE AcquireSlot(r) BY <1>3 DEF AcquireSlot
<1>4. CASE RejectAtCapacity(r) BY <1>4 DEF RejectAtCapacity
<1>5. CASE ReadLen(r) BY <1>5 DEF ReadLen
<1>6. CASE SetInflightRequests(r) BY <1>6 DEF SetInflightRequests
<1>7. CASE ReadBody(r) BY <1>7 DEF ReadBody
<1>8. CASE ReadPaymentHeader(r) BY <1>8 DEF ReadPaymentHeader
<1>9. CASE EstimateWorkUnits(r) BY <1>9 DEF EstimateWorkUnits
<1>10. CASE ServeOK(r) BY <1>10 DEF ServeOK
<1>11. CASE ServeError(r) BY <1>11 DEF ServeError
<1>12. CASE EmitRequestMetrics(r) BY <1>12 DEF EmitRequestMetrics
<1>13. CASE ReleaseSlot(r) BY <1>13 DEF ReleaseSlot
<1>14. CASE ResolveRoute(r) BY <1>14 DEF ResolveRoute
<1> QED
  BY <1>1, <1>2, <1>3, <1>4, <1>5, <1>6, <1>7, <1>8, <1>9, <1>10, <1>11, <1>12, <1>13, <1>14
     DEF StepOf, Handle, CallOf

\* Each call is counted against the handler that makes it.
LEMMA CallInvStep ==
  ASSUME SInv, TypeOK', CallInv, NEW r \in Requests, FStep(r)
  PROVE  CallInv'
<1>0. /\ TypeOK /\ StepOf(r) /\ ChargeProgress(r) /\ NotYetAccepted
      /\ calls \in [open : Nat, pay : Nat, debit : Nat, close : Nat]
      /\ accepted \in [Requests -> BOOLEAN]
  BY FStepIsStep DEF SInv, IInv, CallInv, TypeOK
<1> DEFINE N == Cardinality(Requests)
<1>1. /\ calls.pay + Cardinality(Paying) <= calls.open
      /\ calls.open <= Cardinality(Reached)
      /\ Cardinality(Accepted) <= calls.pay
      /\ calls.close = Cardinality(Closed)
      /\ calls.debit <= Cardinality(Debited) + Cardinality(Billed)
  BY DEF CallInv
<1>2. /\ calls.open \in Nat /\ calls.pay \in Nat /\ calls.debit \in Nat /\ calls.close \in Nat
      /\ N \in Nat /\ MaxCalls = 2 * N
  BY <1>0, CountsMove DEF MaxCalls
<1>3. \A q \in Requests \ {r} : pc'[q] = pc[q] /\ accepted'[q] = accepted[q]
  BY <1>0, OthersUntouched DEF StepOf
<1>4. ASSUME /\ calls' \in [open : Nat, pay : Nat, debit : Nat, close : Nat]
             /\ calls'.pay + Cardinality(Paying') <= calls'.open
             /\ calls'.open <= Cardinality(Reached')
             /\ Cardinality(Accepted') <= calls'.pay
             /\ calls'.close = Cardinality(Closed')
             /\ calls'.debit <= Cardinality(Debited') + Cardinality(Billed')
             /\ pc'[r] = "close" => accepted'[r]
      PROVE  CallInv'
  <2>1. ASSUME NEW q \in Requests, pc'[q] = "close" PROVE accepted'[q]
    <3>1. CASE q = r BY <1>4, <2>1, <3>1
    <3>2. CASE q # r BY <1>3, <2>1, <3>2 DEF CallInv
    <3> QED BY <3>1, <3>2
  <2> QED BY <1>4, <2>1 DEF CallInv
<1>5. CASE OpenSession(r) /\ FakeOpenSession(r)
  <2>1. pc[r] = "open" /\ pc'[r] \in {"pay", "metrics"} /\ accepted' = accepted
    BY <1>0, <1>5 DEF OpenSession, Goto, TypeOK
  <2>2. ~accepted[r] BY <1>0, <2>1 DEF NotYetAccepted
  <2>3. /\ r \notin Accepted /\ r \notin Accepted' /\ r \notin Closed /\ r \notin Closed'
        /\ r \notin Debited /\ r \notin Debited' /\ r \notin Billed /\ r \notin Billed'
    BY <2>1, <2>2 DEF Accepted, Closed, Debited, Billed
  <2>4. r \notin Reached /\ r \in Reached' /\ r \notin Paying
    BY <2>1 DEF Reached, Paying, PreOpen, Unread
  <2>5. /\ Cardinality(Accepted') = Cardinality(Accepted) /\ Cardinality(Closed') = Cardinality(Closed)
        /\ Cardinality(Debited') = Cardinality(Debited) /\ Cardinality(Billed') = Cardinality(Billed)
        /\ Cardinality(Reached') = Cardinality(Reached) + 1
        /\ Cardinality(Paying') <= Cardinality(Paying) + 1
        /\ Cardinality(Reached) < N /\ Cardinality(Reached) \in Nat
    BY <1>0, <2>3, <2>4, CountsMove DEF One
  <2>6. Called("open") BY <1>5 DEF FakeOpenSession
  <2>7. /\ calls' \in [open : Nat, pay : Nat, debit : Nat, close : Nat]
        /\ calls'.open = IF calls.open < MaxCalls THEN calls.open + 1 ELSE calls.open
        /\ calls'.pay = calls.pay /\ calls'.debit = calls.debit /\ calls'.close = calls.close
    BY <1>0, <2>6, CallCounted
  <2>8. calls'.open = calls.open + 1 BY <1>1, <1>2, <2>5, <2>7
  <2>9. Cardinality(Paying) \in Nat /\ Cardinality(Paying') \in Nat
    BY <1>0, <2>4, CountsMove DEF One
  <2> QED BY <1>1, <1>2, <1>4, <2>1, <2>5, <2>7, <2>8, <2>9
<1>6. CASE ProcessPayment(r) /\ FakeProcessPayment(r, PayFailed(r))
  <2>1. /\ pc[r] = "pay" /\ pc'[r] \in {"estimate", "metrics"}
        /\ accepted' = accepted \/ (pc'[r] = "estimate" /\ accepted' = [accepted EXCEPT ![r] = TRUE])
    BY <1>0, <1>6 DEF ProcessPayment, Goto, TypeOK
  <2>2. ~accepted[r] BY <1>0, <2>1 DEF NotYetAccepted
  <2>3. /\ r \notin Accepted /\ r \notin Closed /\ r \notin Debited /\ r \notin Billed
        /\ r \in Reached /\ r \in Reached' /\ r \in Paying /\ r \notin Paying'
    BY <2>1, <2>2 DEF Accepted, Closed, Debited, Billed, Reached, Paying, PreOpen, Unread
  <2>4. r \notin Closed' /\ r \notin Debited' /\ r \notin Billed'
    <3>1. CASE accepted' = accepted BY <2>2, <3>1 DEF Closed, Debited, Billed
    <3>2. CASE pc'[r] = "estimate" BY <3>2 DEF Closed, Debited, Billed, InSession, Funded
    <3> QED BY <2>1, <3>1, <3>2
  <2>5. /\ Cardinality(Accepted') <= Cardinality(Accepted) + 1
        /\ Cardinality(Closed') = Cardinality(Closed)
        /\ Cardinality(Debited') = Cardinality(Debited) /\ Cardinality(Billed') = Cardinality(Billed)
        /\ Cardinality(Reached') = Cardinality(Reached)
        /\ Cardinality(Paying') = Cardinality(Paying) - 1
        /\ Cardinality(Accepted) \in Nat /\ Cardinality(Paying) \in Nat
        /\ Cardinality(Accepted) + 1 <= N /\ Cardinality(Accepted') \in Int
    BY <1>0, <2>3, <2>4, CountsMove DEF One
  <2>6. Called("pay") BY <1>6 DEF FakeProcessPayment
  <2>7. /\ calls' \in [open : Nat, pay : Nat, debit : Nat, close : Nat]
        /\ calls'.pay = IF calls.pay < MaxCalls THEN calls.pay + 1 ELSE calls.pay
        /\ calls'.open = calls.open /\ calls'.debit = calls.debit /\ calls'.close = calls.close
    BY <1>0, <2>6, CallCounted
  <2>8. Cardinality(Accepted') <= calls'.pay BY <1>1, <1>2, <2>5, <2>7
  <2> QED BY <1>1, <1>2, <1>4, <2>1, <2>5, <2>7, <2>8
<1>7. ASSUME accepted' = accepted, accepted[r], pc'[r] = "close" \/ pc'[r] = "serve",
             pc[r] = "debit" \/ (pc[r] = "reconcile" /\ pc'[r] = "close"), Called("debit")
      PROVE  CallInv'
  <2>1. /\ r \in Accepted /\ r \in Accepted' /\ r \notin Closed /\ r \notin Closed'
        /\ r \notin Paying /\ r \notin Paying' /\ r \in Reached /\ r \in Reached'
    BY <1>7 DEF Accepted, Closed, InSession, Reached, Paying, PreOpen, Unread
  <2>2. \/ r \notin Debited /\ r \in Debited' /\ r \notin Billed
        \/ r \in Debited /\ r \in Debited' /\ r \notin Billed /\ r \in Billed'
    BY <1>7 DEF Debited, Billed, Funded, Serving
  <2>3. /\ Cardinality(Accepted') = Cardinality(Accepted) /\ Cardinality(Closed') = Cardinality(Closed)
        /\ Cardinality(Reached') = Cardinality(Reached) /\ Cardinality(Paying') = Cardinality(Paying)
    BY <1>0, <2>1, CountsMove DEF One
  <2>4. /\ Cardinality(Debited) + Cardinality(Billed) + 1 <= Cardinality(Debited') + Cardinality(Billed')
        /\ Cardinality(Debited) + Cardinality(Billed) \in Nat
        /\ Cardinality(Debited') + Cardinality(Billed') \in Int
    BY <1>0, <2>2, CountsMove DEF One
  <2>5. /\ calls' \in [open : Nat, pay : Nat, debit : Nat, close : Nat]
        /\ calls'.debit = IF calls.debit < MaxCalls THEN calls.debit + 1 ELSE calls.debit
        /\ calls'.open = calls.open /\ calls'.pay = calls.pay /\ calls'.close = calls.close
    BY <1>0, <1>7, CallCounted
  <2>6. calls'.debit <= Cardinality(Debited') + Cardinality(Billed') BY <1>1, <1>2, <2>4, <2>5
  <2> QED BY <1>1, <1>2, <1>4, <1>7, <2>3, <2>5, <2>6
<1>8. CASE DebitBalance(r) /\ FakeDebitBalance(r, est[r], DebitFailed(r))
  <2>1. pc[r] = "debit" /\ pc'[r] \in {"serve", "close"} /\ accepted' = accepted
    BY <1>0, <1>8 DEF DebitBalance, Goto, TypeOK
  <2>2. accepted[r] BY <1>0, <2>1 DEF ChargeProgress, Funded
  <2> QED BY <1>7, <1>8, <2>1, <2>2 DEF FakeDebitBalance
<1>9. CASE Reconcile(r) /\ FakeDebitBalance(r, act[r] - est[r], ReconcileFailed(r))
  <2>1. pc[r] = "reconcile" /\ pc'[r] = "close" /\ accepted' = accepted
    BY <1>0, <1>9 DEF Reconcile, Goto, TypeOK
  <2>2. accepted[r] BY <1>0, <2>1 DEF ChargeProgress, Serving
  <2> QED BY <1>7, <1>9, <2>1, <2>2 DEF FakeDebitBalance
<1>10. CASE CloseSession(r) /\ FakeCloseSession(r)
  <2>1. pc[r] = "close" /\ pc'[r] = "metrics" /\ accepted' = accepted
    BY <1>0, <1>10 DEF CloseSession, Goto, TypeOK
  <2>2. accepted[r] BY <2>1 DEF CallInv
  <2>3. /\ r \in Accepted /\ r \in Accepted' /\ r \notin Closed /\ r \in Closed'
        /\ r \notin Paying /\ r \notin Paying' /\ r \in Reached /\ r \in Reached'
        /\ r \in Debited /\ r \in Debited' /\ r \in Billed /\ r \in Billed'
    BY <2>1, <2>2
       DEF Accepted, Closed, InSession, Reached, Paying, PreOpen, Unread, Debited, Billed, Funded, Serving
  <2>4. /\ Cardinality(Accepted') = Cardinality(Accepted)
        /\ Cardinality(Closed') = Cardinality(Closed) + 1 /\ Cardinality(Closed) < N
        /\ Cardinality(Closed) \in Nat
        /\ Cardinality(Reached') = Cardinality(Reached) /\ Cardinality(Paying') = Cardinality(Paying)
        /\ Cardinality(Debited') = Cardinality(Debited) /\ Cardinality(Billed') = Cardinality(Billed)
    BY <1>0, <2>3, CountsMove DEF One
  <2>5. Called("close") BY <1>10 DEF FakeCloseSession
  <2>6. /\ calls' \in [open : Nat, pay : Nat, debit : Nat, close : Nat]
        /\ calls'.close = IF calls.close < MaxCalls THEN calls.close + 1 ELSE calls.close
        /\ calls'.open = calls.open /\ calls'.pay = calls.pay /\ calls'.debit = calls.debit
    BY <1>0, <2>5, CallCounted
  <2>7. calls'.close = Cardinality(Closed') BY <1>1, <1>2, <2>4, <2>6
  <2> QED BY <1>1, <1>2, <1>4, <2>1, <2>4, <2>6, <2>7
<1>11. CASE ~CallOf(r) /\ calls' = calls
  <2>1. /\ accepted' = accepted
        /\ pc[r] \notin PreOpen => pc'[r] \notin PreOpen
        /\ pc'[r] = "pay" <=> pc[r] = "pay"
        /\ InSession(r)' <=> InSession(r)
        /\ pc'[r] \in Funded => pc[r] \in Funded
        /\ pc'[r] \in Funded \cup Serving => pc[r] \in Funded \cup Serving
        /\ pc'[r] = "close" => pc[r] \in Funded \cup Serving \cup {"close"}
    BY <1>0, <1>11, QuietMove
  <2>2. /\ r \in Accepted' <=> r \in Accepted
        /\ r \in Paying' <=> r \in Paying
        /\ r \in Reached => r \in Reached'
        /\ r \in Debited => r \in Debited'
        /\ r \in Billed => r \in Billed'
    <3> HIDE DEF PreOpen, Funded, Serving
    <3> QED BY <2>1 DEF Accepted, Reached, Paying, Debited, Billed
  <2>3. r \in Closed' <=> r \in Closed BY <2>1 DEF Closed
  <2>4. /\ Cardinality(Accepted') = Cardinality(Accepted)
        /\ Cardinality(Paying') = Cardinality(Paying)
        /\ Cardinality(Closed') = Cardinality(Closed)
    BY <1>0, <2>2, <2>3, CountsMove DEF One
  <2>5. /\ Cardinality(Reached') >= Cardinality(Reached)
        /\ Cardinality(Debited') >= Cardinality(Debited)
        /\ Cardinality(Billed') >= Cardinality(Billed)
        /\ Cardinality(Reached) \in Int /\ Cardinality(Debited) \in Int /\ Cardinality(Billed) \in Int
        /\ Cardinality(Reached') \in Int /\ Cardinality(Debited') \in Int /\ Cardinality(Billed') \in Int
    BY <1>0, <2>2, CountsMove DEF One
  <2>6. calls.open <= Cardinality(Reached')
        /\ calls.debit <= Cardinality(Debited') + Cardinality(Billed')
    BY <1>1, <1>2, <2>5
  <2>7. pc'[r] = "close" => accepted'[r] BY <1>0, <2>1 DEF ChargeProgress, CallInv
  <2> QED BY <1>0, <1>1, <1>4, <1>11, <2>4, <2>6, <2>7
<1>12. \/ OpenSession(r) /\ FakeOpenSession(r)
       \/ ProcessPayment(r) /\ FakeProcessPayment(r, PayFailed(r))
       \/ DebitBalance(r) /\ FakeDebitBalance(r, est[r], DebitFailed(r))
       \/ Reconcile(r) /\ FakeDebitBalance(r, act[r] - est[r], ReconcileFailed(r))
       \/ CloseSession(r) /\ FakeCloseSession(r)
       \/ ~CallOf(r) /\ calls' = calls
  <2>1. CASE CallStep(r) BY <2>1 DEF CallStep
  <2>2. CASE LocalStep(r)
    BY <1>0, <2>2 DEF LocalStep, fakeVars, CallOf, Goto, TypeOK, OpenSession, ProcessPayment, DebitBalance,
       Reconcile, CloseSession, AcquireSlot, RejectAtCapacity, ReadLen, SetInflightRequests,
       ReadBody, ReadPaymentHeader, ResolveRoute, EstimateWorkUnits, ServeOK, ServeError,
       EmitRequestMetrics, ReleaseSlot
  <2>3. CASE (Arrive(r) \/ Cancel(r)) /\ UNCHANGED fakeVars
    BY <1>0, <2>3 DEF fakeVars, CallOf, Goto, TypeOK, OpenSession, ProcessPayment, DebitBalance,
       Reconcile, CloseSession, Arrive, Cancel
  <2> QED BY <2>1, <2>2, <2>3 DEF FStep, FHandle
<1> QED BY <1>5, <1>6, <1>8, <1>9, <1>10, <1>11, <1>12

\* When all requests are done the Fake's counters are in the order the tests
\* assert: one CloseSession for each accepted payment and no more, no payment
\* without a session opened for it, at most two debits in each session; for
\* any number of handlers, whichever of their calls failed.
THEOREM FakeCallsAreBalanced == FairFakeSpec => []CallsBalanced
<1>1. FInit => CallInv
  <2> SUFFICES ASSUME FInit PROVE CallInv OBVIOUS
  <2>1. /\ Paying = {} /\ Reached = {} /\ Accepted = {} /\ Closed = {} /\ Debited = {} /\ Billed = {}
    BY DEF FInit, Init, Paying, Reached, PreOpen, Unread, Accepted, Closed, Debited, Billed
  <2>2. Cardinality({}) = 0 BY FS_EmptySet
  <2>3. calls = [open |-> 0, pay |-> 0, debit |-> 0, close |-> 0] BY DEF FInit, NewFake
  <2> QED BY <2>1, <2>2, <2>3 DEF CallInv, FInit, Init
<1>2. SInv /\ SInv' /\ CallInv /\ [FNext]_fvars => CallInv'
  <2> SUFFICES ASSUME SInv, SInv', CallInv, [FNext]_fvars PROVE CallInv' OBVIOUS
  <2>0. TypeOK' BY DEF SInv, IInv
  <2>1. CASE \E r \in Requests : FStep(r) BY <2>0, <2>1, CallInvStep
  <2>2. CASE UNCHANGED fvars
    <3> USE <2>2 DEF fvars, fakeVars, vars, reqVars
    <3>1. /\ Paying' = Paying /\ Reached' = Reached /\ Accepted' = Accepted
          /\ Closed' = Closed /\ Debited' = Debited /\ Billed' = Billed
      BY DEF Paying, Reached, Accepted, Closed, Debited, Billed, InSession
    <3> QED BY <3>1 DEF CallInv
  <2> QED BY <2>1, <2>2 DEF FNext, FStep
<1>3. CallInv => CallsBalanced
  <2> SUFFICES ASSUME CallInv, AllDone
               PROVE  /\ calls.close = Cardinality(Accepted)
                      /\ calls.pay <= calls.open
                      /\ calls.close <= calls.pay
                      /\ calls.debit <= 2 * calls.close
    BY DEF CallsBalanced, Accepted
  <2>1. Closed = Accepted /\ Debited = Accepted /\ Billed = Accepted
    BY DEF AllDone, Closed, Debited, Billed, Accepted, InSession, Funded, Serving
  <2>2. Paying = {} BY DEF AllDone, Paying
  <2>3. Cardinality(Paying) = 0 BY <2>2, FS_EmptySet
  <2> QED BY <2>1, <2>3 DEF CallInv
<1> QED BY <1>1, <1>2, <1>3, FakeRuns, PTL DEF FairFakeSpec

-----------------------------------------------------------------------------
(***************************************************************************)
(* The daemon-RPC metric.  ErrorsTell is made inductive by saying of the   *)
(* logged reconcile errors what it says of the sessions: while the metric  *)
(* shows no error, none was logged.                                        *)
(***************************************************************************)
InUse(w) == \E r \in Requests : blob[r] # None /\ work(r) = w /\ InSession(r)

SessionsInUse == \A w \in WorkIDs : sess[w] = "open" => InUse(w)

TellInv == NoRPCErrors => SessionsInUse /\ \A r \in Requests : "reconcile" \notin warned[r]

\* A failed call is counted as an error.
LEMMA RPCCounted ==
  ASSUME NEW op \in Methods, NEW err, IncDaemonRPC(op, err), NoRPCErrors'
  PROVE  NoRPCErrors /\ ~err
<1>1. NoRPCErrors BY DEF IncDaemonRPC, NoRPCErrors
<1>2. ~err BY DEF IncDaemonRPC, NoRPCErrors
<1> QED BY <1>1, <1>2

\* What a step of r that shows no error in the metric did.
LEMMA QuietMetric ==
  ASSUME NEW r \in Requests, FStep(r), NoRPCErrors'
  PROVE  /\ NoRPCErrors
         /\ \/ OpenSession(r) /\ ~OpenFailed(r)
            \/ ProcessPayment(r) /\ ~PayFailed(r)
            \/ DebitBalance(r)
            \/ Reconcile(r) /\ ~ReconcileFailed(r)
            \/ CloseSession(r) /\ ~CloseFailed(r)
            \/ LocalStep(r) \/ Arrive(r) \/ Cancel(r)
<1>0. /\ "open" \in Methods /\ "pay" \in Methods /\ "debit" \in Methods /\ "close" \in Methods
  BY DEF Methods
<1>1. CASE OpenSession(r) /\ IncDaemonRPC("open", OpenFailed(r)) BY <1>0, <1>1, RPCCounted
<1>2. CASE ProcessPayment(r) /\ IncDaemonRPC("pay", PayFailed(r)) BY <1>0, <1>2, RPCCounted
<1>3. CASE DebitBalance(r) /\ IncDaemonRPC("debit", DebitFailed(r)) BY <1>0, <1>3, RPCCounted
<1>4. CASE Reconcile(r) /\ IncDaemonRPC("debit", ReconcileFailed(r)) BY <1>0, <1>4, RPCCounted
<1>5. CASE CloseSession(r) /\ IncDaemonRPC("close", CloseFailed(r)) BY <1>0, <1>5, RPCCounted
<1>6. CASE (LocalStep(r) \/ Arrive(r) \/ Cancel(r)) /\ rpcs' = rpcs
  BY <1>6 DEF NoRPCErrors
<1>7. CASE CallStep(r) BY <1>1, <1>2, <1>3, <1>4, <1>5, <1>7 DEF CallStep
<1>8. LocalStep(r) => rpcs' = rpcs BY DEF LocalStep, fakeVars
<1>9. UNCHANGED fakeVars => rpcs' = rpcs BY DEF fakeVars
<1> QED BY <1>6, <1>7, <1>8, <1>9 DEF FStep, FHandle

\* A call is made at its own point of the handler and no other step is.
LEMMA CallPoints ==
  ASSUME TypeOK, NEW r \in Requests
  PROVE  /\ OpenSession(r) => pc[r] = "open" /\ pc'[r] # pc[r]
         /\ ProcessPayment(r) => pc[r] = "pay" /\ pc'[r] # pc[r]
         /\ DebitBalance(r) => pc[r] = "debit" /\ pc'[r] # pc[r]
         /\ Reconcile(r) => pc[r] = "reconcile" /\ pc'[r] # pc[r]
         /\ CloseSession(r) => pc[r] = "close" /\ pc'[r] # pc[r]
         /\ LocalStep(r) \/ Arrive(r) => pc[r] \notin {"open", "pay", "debit", "reconcile", "close"}
         /\ Cancel(r) => pc'[r] = pc[r]
<1> USE DEF TypeOK, Goto
<1>1. OpenSession(r) => pc[r] = "open" /\ pc'[r] # pc[r] BY DEF OpenSession
<1>2. ProcessPayment(r) => pc[r] = "pay" /\ pc'[r] # pc[r] BY DEF ProcessPayment
<1>3. DebitBalance(r) => pc[r] = "debit" /\ pc'[r] # pc[r] BY DEF DebitBalance
<1>4. Reconcile(r) => pc[r] = "reconcile" /\ pc'[r] # pc[r] BY DEF Reconcile
<1>5. CloseSession(r) => pc[r] = "close" /\ pc'[r] # pc[r] BY DEF CloseSession
<1>6. LocalStep(r) => pc[r] \notin {"open", "pay", "debit", "reconcile", "close"}
  BY DEF LocalStep, AcquireSlot, RejectAtCapacity, ReadLen, SetInflightRequests, ReadBody,
     ReadPaymentHeader, ResolveRoute, EstimateWorkUnits, ServeOK, ServeError,
     EmitRequestMetrics, ReleaseSlot
<1>7. Arrive(r) => pc[r] \notin {"open", "pay", "debit", "reconcile", "close"} BY DEF Arrive
<1>8. Cancel(r) => pc'[r] = pc[r] BY DEF Cancel
<1> QED BY <1>1, <1>2, <1>3, <1>4, <1>5, <1>6, <1>7, <1>8

\* A step that leaves the metric without an error made no failing call.
LEMMA CallsSucceeded ==
  ASSUME TypeOK, NEW r \in Requests, FStep(r), NoRPCErrors'
  PROVE  /\ OpenSession(r) => ~OpenFailed(r)
         /\ ProcessPayment(r) => ~PayFailed(r)
         /\ Reconcile(r) => ~ReconcileFailed(r)
         /\ CloseSession(r) => ~CloseFailed(r)
BY QuietMetric, CallPoints

\* A handler that waits for its payment moves on by processing it.
LEMMA PayPoint ==
  ASSUME TypeOK, NEW r \in Requests, StepOf(r), pc[r] = "pay", pc'[r] # "pay"
  PROVE  ProcessPayment(r)
BY DEF TypeOK, StepOf, Handle, Goto, Arrive, Cancel, AcquireSlot, RejectAtCapacity, ReadLen,
       SetInflightRequests, ReadBody, ReadPaymentHeader, ResolveRoute, OpenSession,
       EstimateWorkUnits, DebitBalance, ServeOK, ServeError, Reconcile,
       CloseSession, EmitRequestMetrics, ReleaseSlot

\* A handler leaves its session by closing it.
LEMMA InUseStep ==
  ASSUME SInv, TellInv, NEW r \in Requests, FStep(r), NoRPCErrors'
  PROVE  SessionsInUse'
<1>0. /\ TypeOK /\ InputsKnown /\ BlobRead /\ NotYetAccepted /\ ChargeProgress(r) /\ StepOf(r)
      /\ SessionsInUse
  BY FStepIsStep, QuietMetric DEF SInv, IInv, TellInv
<1>a. StepOf(r) <=> (Arrive(r) \/ Cancel(r) \/ Handle(r)) BY DEF StepOf
<1>b. /\ OpenSession(r) => ~OpenFailed(r)
      /\ ProcessPayment(r) => ~PayFailed(r)
      /\ CloseSession(r) => ~CloseFailed(r)
  BY <1>0, CallsSucceeded
<1> SUFFICES ASSUME NEW w \in WorkIDs, sess'[w] = "open"
             PROVE  \E q \in Requests : blob'[q] # None /\ work(q)' = w /\ InSession(q)'
  BY DEF SessionsInUse, InUse
<1>1. CASE sess[w] = "open"
  <2> PICK q \in Requests : blob[q] # None /\ work(q) = w /\ InSession(q)
    BY <1>0, <1>1 DEF SessionsInUse, InUse
  <2>1. blob'[q] # None /\ work(q)' = w BY <1>0, BlobKept
  <2>2. CASE q # r
    <3>1. InSession(q)' BY <1>0, <1>a, <2>2, OthersUntouched DEF InSession
    <3> QED BY <2>1, <3>1
  <2>3. CASE q = r
    <3>1. ~CloseSession(r)
      <4> SUFFICES ASSUME CloseSession(r) PROVE FALSE OBVIOUS
      <4>1. "close" \notin warned'[r] BY <1>b DEF CloseFailed
      <4>2. DaemonClose(work(r)) BY <1>0, <4>1 DEF CloseSession, TypeOK
      <4> QED BY <1>0, <2>3, <4>2 DEF DaemonClose, TypeOK, DaemonTypeOK
    <3>2. CASE InSession(r)' BY <2>1, <2>3, <3>2
    <3>3. CASE ~InSession(r)'
      <4>1. pc[r] = "pay" BY <1>0, <2>3, <3>1, <3>3, OwnStep
      <4>2. pc'[r] # "pay" /\ pc'[r] # "estimate" BY <3>3 DEF InSession
      <4>3. ProcessPayment(r) BY <1>0, <4>1, <4>2, PayPoint
      <4>4. accepted' = accepted BY <1>0, <4>2, <4>3 DEF ProcessPayment, Goto, TypeOK
      <4>5. ~accepted[r] BY <1>0, <4>1 DEF NotYetAccepted
      <4> QED BY <1>b, <4>3, <4>4, <4>5, Zenon DEF PayFailed
    <3> QED BY <3>2, <3>3
  <2> QED BY <2>2, <2>3
<1>2. CASE sess[w] # "open"
  <2>1. OpenSession(r) /\ w = work(r) /\ pc[r] = "open" /\ pc'[r] \in {"pay", "metrics"}
    BY <1>0, <1>2, OpenOrOpened
  <2>2. blob[r] # None BY <1>0, <2>1, NoneIsNoBlob DEF InputsKnown
  <2>3. status[r] = 0 BY <1>0, <2>1 DEF ChargeProgress, Before
  <2>4. status'[r] # 502 BY <1>b, <2>1 DEF OpenFailed
  <2>5. pc'[r] = "pay" BY <1>0, <2>1, <2>3, <2>4 DEF OpenSession, Goto, Respond, TypeOK
  <2>6. InSession(r)' BY <2>5 DEF InSession
  <2> QED BY <1>0, <2>1, <2>2, <2>6, BlobKept
<1> QED BY <1>1, <1>2

\* Only a failing reconcile logs one.
LEMMA ReconcileWarned ==
  ASSUME TypeOK, NEW r \in Requests, StepOf(r), ~Reconcile(r), "reconcile" \notin warned[r]
  PROVE  "reconcile" \notin warned'[r]
BY DEF TypeOK, StepOf, Handle, Arrive, Cancel, AcquireSlot, RejectAtCapacity, ReadLen,
       SetInflightRequests, ReadBody, ReadPaymentHeader, ResolveRoute, OpenSession,
       ProcessPayment, EstimateWorkUnits, DebitBalance, ServeOK, ServeError,
       CloseSession, EmitRequestMetrics, ReleaseSlot

LEMMA TellStep ==
  ASSUME SInv, TellInv, [FNext]_fvars
  PROVE  TellInv'
<1>1. ASSUME NEW r \in Requests, FStep(r) PROVE TellInv'
  <2>0. TypeOK /\ StepOf(r) BY <1>1, FStepIsStep DEF SInv, IInv
  <2>a. StepOf(r) <=> (Arrive(r) \/ Cancel(r) \/ Handle(r)) BY DEF StepOf
  <2>2. NoRPCErrors' => SessionsInUse' BY <1>1, InUseStep
  <2>3. ASSUME NoRPCErrors', NEW q \in Requests PROVE "reconcile" \notin warned'[q]
    <3>1. "reconcile" \notin warned[q] BY <1>1, <2>0, <2>3, QuietMetric DEF TellInv
    <3>2. CASE q # r BY <2>0, <2>a, <3>1, <3>2, OthersUntouched
    <3>3. CASE q = r /\ Reconcile(r)
      BY <1>1, <2>0, <2>3, <3>3, CallsSucceeded DEF ReconcileFailed
    <3>4. CASE q = r /\ ~Reconcile(r) BY <2>0, <3>1, <3>4, ReconcileWarned
    <3> QED BY <3>2, <3>3, <3>4
  <2> QED BY <2>2, <2>3 DEF TellInv
<1>2. CASE UNCHANGED fvars
  <2> USE <1>2 DEF fvars, fakeVars, vars, reqVars, dvars
  <2>1. rpcs' = rpcs /\ warned' = warned /\ sess' = sess /\ blob' = blob /\ pc' = pc OBVIOUS
  <2>2. NoRPCErrors' <=> NoRPCErrors BY <2>1 DEF NoRPCErrors
  <2>3. SessionsInUse' <=> SessionsInUse BY <2>1 DEF SessionsInUse, InUse, InSession, work
  <2> QED BY <2>1, <2>2, <2>3 DEF TellInv
<1> QED BY <1>1, <1>2 DEF FNext, FStep

\* While the metered client has counted no error, every open session has a
\* handler in it, and the units counted as revenue end up debited, for any
\* number of handlers, shared blobs, cancellations and lost replies: the errors
\* that the middleware logs and swallows all show in the metric.
THEOREM DaemonErrorsTell == FairFakeSpec => []ErrorsTell
<1>1. FInit => TellInv
  <2> SUFFICES ASSUME FInit PROVE TellInv OBVIOUS
  <2>2. SessionsInUse BY DEF FInit, Init, DaemonInit, SessionsInUse
  <2>3. \A r \in Requests : "reconcile" \notin warned[r] BY DEF FInit, Init
  <2> QED BY <2>2, <2>3 DEF TellInv
<1>2. SInv /\ TellInv /\ [FNext]_fvars => TellInv' BY TellStep
<1>3. TellInv /\ RevenueBacked => ErrorsTell
  BY DEF TellInv, RevenueBacked, ErrorsTell, SessionsInUse, InUse
<1> QED BY <1>1, <1>2, <1>3, FakeRuns, RevenueIsBacked, PTL DEF FairFakeSpec
=============================================================================
