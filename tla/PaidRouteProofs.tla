-------------------------- MODULE PaidRouteProofs --------------------------
(***************************************************************************)
(* Proofs about PaidRoute, for any finite set of requests, any capacity,   *)
(* any set of payment blobs, models, prices, credits, estimates and        *)
(* usages, and for both kinds of payee client.                             *)
(***************************************************************************)
EXTENDS PaidRoute, FiniteSetTheorems, TLAPS

-----------------------------------------------------------------------------
(***************************************************************************)
(* Type correctness.  Everything but the semaphore's lower bound follows   *)
(* action by action; that a release leaves a natural number needs          *)
(* SlotsMatchHandlers.                                                     *)
(***************************************************************************)

\* A label with an outcome of classifyOutcome is a metric key.
LEMMA KeyOfOutcome ==
  ASSUME NEW l \in Models \cup {Unset}, NEW c \in BOOLEAN, NEW s
  PROVE  <<l, classifyOutcome(c, s)>> \in MetricKeys
BY DEF classifyOutcome, MetricKeys, Outcomes

\* A decoded payment has a work_id in the ledger.
LEMMA WorkOfBlob ==
  ASSUME NEW r \in Requests, blob[r] \in Blobs
  PROVE  work(r) \in WorkIDs
BY DEF work, WorkIDs

\* The ledger stays well-typed under each of the daemon's operations.
LEMMA DaemonType ==
  ASSUME DaemonTypeOK, NEW w \in WorkIDs, NEW n \in Int, NEW p \in Nat,
         \/ DaemonOpen(w, p) \/ DaemonProcess(w, n) \/ DaemonDebit(w, n)
         \/ DaemonClose(w) \/ UNCHANGED dvars
  PROVE  DaemonTypeOK'
<1> USE DEF DaemonTypeOK, dvars
<1>1. CASE DaemonOpen(w, p) BY <1>1 DEF DaemonOpen
<1>2. CASE DaemonProcess(w, n) BY <1>2 DEF DaemonProcess
<1>3. CASE DaemonDebit(w, n)
  <2>1. sprice[w] * n \in Int OBVIOUS
  <2>2. bal[w] - sprice[w] * n \in Int BY <2>1
  <2> QED BY <1>3, <2>2 DEF DaemonDebit
<1>4. CASE DaemonClose(w) BY <1>4 DEF DaemonClose
<1> QED BY <1>1, <1>2, <1>3, <1>4

\* Arrival, cancellation, the gate and the gauge keep the types.
LEMMA TypeGate ==
  ASSUME TypeOK, NEW r \in Requests,
         \/ Arrive(r) \/ Cancel(r) \/ AcquireSlot(r) \/ RejectAtCapacity(r)
         \/ ReadLen(r) \/ SetInflightRequests(r)
  PROVE  TypeOK'
<1> USE DEF TypeOK, Goto, Points, Holding, DaemonTypeOK, gateVars, metricVars, histVars, dvars
<1>1. CASE Arrive(r) BY <1>1 DEF Arrive
<1>2. CASE Cancel(r) BY <1>2 DEF Cancel
<1>3. CASE AcquireSlot(r) BY <1>3 DEF AcquireSlot, Entering
<1>4. CASE RejectAtCapacity(r)
  BY <1>4 DEF RejectAtCapacity, Respond, IncRequest, CapVecInc, Statuses, MetricKeys, Outcomes
<1>5. CASE ReadLen(r) BY <1>5 DEF ReadLen, Entering
<1>6. CASE SetInflightRequests(r) BY <1>6 DEF SetInflightRequests, Entering
<1> QED BY <1>1, <1>2, <1>3, <1>4, <1>5, <1>6

\* Validation keeps the types.
LEMMA TypeValidate ==
  ASSUME TypeOK, NEW r \in Requests,
         ReadBody(r) \/ ReadPaymentHeader(r) \/ ResolveRoute(r) \/ EstimateWorkUnits(r)
  PROVE  TypeOK'
<1> USE DEF TypeOK, Goto, Respond, Statuses, Points, Holding, Entering, Charging,
            Leaving, DaemonTypeOK, gateVars, metricVars, histVars, dvars
<1>1. CASE ReadBody(r) BY <1>1 DEF ReadBody
<1>2. CASE ReadPaymentHeader(r)
  <2>1. CASE pc'[r] = "route" BY <1>2, <2>1 DEF ReadPaymentHeader
  <2>2. CASE pc'[r] # "route" BY <1>2, <2>2 DEF ReadPaymentHeader
  <2> QED BY <2>1, <2>2
<1>3. CASE ResolveRoute(r) BY <1>3 DEF ResolveRoute
<1>4. CASE EstimateWorkUnits(r) BY <1>4, MeteringDomains DEF EstimateWorkUnits
<1> QED BY <1>1, <1>2, <1>3, <1>4

(***************************************************************************)
(* What is known of a handler's inputs once it has read them: the calls to *)
(* the daemon are made with a work_id of the ledger and a price of the     *)
(* route map.                                                              *)
(***************************************************************************)
InputsKnown ==
  \A r \in Requests :
    /\ pc[r] \in {"route", "open"} \cup {"pay", "estimate", "debit", "serve", "reconcile", "close"}
         => blob[r] \in Blobs
    /\ pc[r] \in {"open", "pay", "estimate", "debit", "serve", "reconcile", "close"}
         => model[r] \in Offered
    /\ pc[r] = "reconcile" => act[r] > est[r]

\* The payee calls and the serving steps keep the types.
LEMMA TypeServe ==
  ASSUME TypeOK, InputsKnown, NEW r \in Requests,
         \/ OpenSession(r) \/ ProcessPayment(r) \/ DebitBalance(r)
         \/ ServeOK(r) \/ ServeError(r) \/ Reconcile(r) \/ CloseSession(r)
  PROVE  TypeOK'
<1> USE DEF Goto, Respond, Statuses, Points, Holding, Charging, Serving, Leaving,
            gateVars, metricVars, histVars
<1>0. DaemonTypeOK BY DEF TypeOK
<1>1. CASE OpenSession(r)
  <2>1. work(r) \in WorkIDs /\ Price[model[r]] \in Nat
    BY <1>1, WorkOfBlob, PricePositive DEF OpenSession, InputsKnown
  <2>2. DaemonTypeOK' BY <1>0, <1>1, <2>1, DaemonType DEF OpenSession
  <2> QED BY <1>1, <2>2 DEF OpenSession, TypeOK
<1>2. CASE ProcessPayment(r)
  <2>1. work(r) \in WorkIDs BY <1>2, WorkOfBlob DEF ProcessPayment, InputsKnown
  <2>2. DaemonTypeOK' BY <1>0, <1>2, <2>1, DaemonType, MeteringDomains DEF ProcessPayment
  <2>a. accepted' = accepted \/ accepted' = [accepted EXCEPT ![r] = TRUE]
    BY <1>2 DEF ProcessPayment
  <2>b. accepted \in [Requests -> BOOLEAN] BY DEF TypeOK
  <2>3. accepted' \in [Requests -> BOOLEAN] BY <2>a, <2>b
  <2>4. status' \in [Requests -> Statuses] BY <1>2 DEF ProcessPayment, TypeOK
  <2>5. pc' \in [Requests -> Points] BY <1>2 DEF ProcessPayment, TypeOK
  <2>6. paymentRejections' \in Nat BY <1>2 DEF ProcessPayment, TypeOK
  <2> HIDE DEF Points, Statuses
  <2> QED BY <1>2, <2>2, <2>3, <2>4, <2>5, <2>6 DEF ProcessPayment, TypeOK
<1>3. CASE DebitBalance(r)
  <2>1. work(r) \in WorkIDs BY <1>3, WorkOfBlob DEF DebitBalance, InputsKnown
  <2>2. est[r] \in Nat BY DEF TypeOK
  <2>3. DaemonTypeOK'
    BY <1>0, <1>3, <2>1, <2>2, DaemonType DEF DebitBalance, DebitUpfront
  <2>4. bal'[work(r)] \in Int BY <2>1, <2>3 DEF DaemonTypeOK
  <2>5. paid' \in [Requests -> Nat] /\ drawn' \in [Requests -> Int]
    BY <1>3, <2>2, <2>4 DEF DebitBalance, DebitUpfront, TypeOK
  <2>6. status' \in [Requests -> Statuses] BY <1>3 DEF DebitBalance, TypeOK
  <2>7. pc' \in [Requests -> Points] BY <1>3 DEF DebitBalance, TypeOK
  <2>8. paymentRejections' \in Nat BY <1>3 DEF DebitBalance, TypeOK
  <2> HIDE DEF Points, Statuses
  <2> QED BY <1>3, <2>3, <2>5, <2>6, <2>7, <2>8 DEF DebitBalance, TypeOK
<1>4. CASE ServeOK(r)
  BY <1>0, <1>4, MeteringDomains DEF ServeOK, TypeOK, DaemonTypeOK, dvars
<1>5. CASE ServeError(r)
  <2>1. PICK f \in ServeFailures :
          /\ Goto(r, "serve", "close") /\ Respond(r, f[1])
          /\ act' = [act EXCEPT ![r] = f[2]]
          /\ warned' = [warned EXCEPT ![r] = @ \cup {"serve"}]
    BY <1>5 DEF ServeError
  <2>2. f[1] \in Statuses /\ f[2] \in Nat
    <3>1. f \in {400, 502} \X {0} \/ f \in BackendStatuses \X Usages BY DEF ServeFailures
    <3>2. CASE f \in {400, 502} \X {0} BY ONLY <3>2 DEF Statuses
    <3>3. CASE f \in BackendStatuses \X Usages
      <4>1. f[1] \in BackendStatuses /\ f[2] \in Usages BY ONLY <3>3
      <4>2. f[2] \in Nat BY ONLY <4>1, MeteringDomains
      <4>3. f[1] \in Statuses BY ONLY <4>1 DEF Statuses
      <4> QED BY <4>2, <4>3
    <3> QED BY <3>1, <3>2, <3>3
  <2>3. status' \in [Requests -> Statuses] BY <2>1, <2>2 DEF TypeOK
  <2>4. act' \in [Requests -> Nat] BY <2>1, <2>2 DEF TypeOK
  <2>5. pc' \in [Requests -> Points] BY <2>1 DEF TypeOK
  <2> HIDE DEF Points, Statuses
  <2> QED BY <1>5, <2>1, <2>3, <2>4, <2>5 DEF ServeError, TypeOK, DaemonTypeOK, dvars
<1>6. CASE Reconcile(r)
  <2>1. work(r) \in WorkIDs BY <1>6, WorkOfBlob DEF Reconcile, InputsKnown
  <2>2. act[r] - est[r] \in Nat BY <1>6 DEF TypeOK, InputsKnown, Reconcile
  <2>3. DaemonTypeOK'
    BY <1>0, <1>6, <2>1, <2>2, DaemonType DEF Reconcile, DebitDelta
  <2> QED BY <1>6, <2>2, <2>3 DEF Reconcile, DebitDelta, TypeOK
<1>7. CASE CloseSession(r)
  <2>1. work(r) \in WorkIDs BY <1>7, WorkOfBlob DEF CloseSession, InputsKnown
  <2>2. DaemonTypeOK' BY <1>0, <1>7, <2>1, DaemonType DEF CloseSession
  <2> QED BY <1>7, <2>2 DEF CloseSession, TypeOK
<1> QED BY <1>1, <1>2, <1>3, <1>4, <1>5, <1>6, <1>7


\* A release finds the slot it gives back.
LEMMA SlotHeld ==
  ASSUME TypeOK, SlotsMatchHandlers, NEW r \in Requests, pc[r] \in Holding
  PROVE  sem - 1 \in Nat
<1>1. IsFiniteSet(Holders) BY RequestsFinite, FS_Subset DEF Holders
<1>2. Holders # {} BY DEF Holders
<1>3. Cardinality(Holders) # 0 BY <1>1, <1>2, FS_EmptySet
<1> QED BY <1>3 DEF SlotsMatchHandlers, TypeOK

\* The last two deferred functions keep the types.
LEMMA TypeLeave ==
  ASSUME TypeOK, SlotsMatchHandlers, NEW r \in Requests, EmitRequestMetrics(r) \/ ReleaseSlot(r)
  PROVE  TypeOK'
<1> USE DEF Goto, Points, Holding, Leaving, gateVars, histVars
<1>1. CASE EmitRequestMetrics(r)
  <2>1. <<model[r], classifyOutcome(cancelled[r], status[r])>> \in MetricKeys
    BY KeyOfOutcome DEF TypeOK
  <2>2. requestsTotal' \in [MetricKeys -> Nat] /\ seriesCount' \in Nat
    BY <1>1, <2>1 DEF EmitRequestMetrics, IncRequest, CapVecInc, TypeOK
  <2>3. emitted' \in [Requests -> MetricKeys \cup {NoKey}]
    BY <1>1, <2>1 DEF EmitRequestMetrics, IncRequest, TypeOK
  <2> QED BY <1>1, <2>2, <2>3 DEF EmitRequestMetrics, TypeOK, DaemonTypeOK, dvars
<1>2. CASE ReleaseSlot(r)
  <2>1. sem - 1 \in Nat BY <1>2, SlotHeld DEF ReleaseSlot
  <2> QED BY <1>2, <2>1 DEF ReleaseSlot, TypeOK, DaemonTypeOK, metricVars, dvars
<1> QED BY <1>1, <1>2

-----------------------------------------------------------------------------
(***************************************************************************)
(* The inductive invariant.  SlotsMatchHandlers is inductive with the      *)
(* types.  The charging properties are not: they need to know, at every    *)
(* program point, how far the charge of the request has got.               *)
(***************************************************************************)
Before == {"idle", "gate", "open", "pay"} \cup Entering
Funded == {"estimate", "debit"}

ChargeProgress(r) ==
  /\ pc[r] \in Before \cup Funded => act[r] = 0 /\ paid[r] = 0 /\ status[r] = 0
  /\ pc[r] \in Before => est[r] = 0
  /\ pc[r] \in Funded \cup Serving => accepted[r]
  /\ pc[r] = "serve" => act[r] = 0 /\ status[r] = 0
  /\ pc[r] \in Serving => paid[r] = est[r]
  /\ pc[r] \in Before \cup Funded \cup Serving => warned[r] = {}

PaidOK(r) == WorkStarted(r) => accepted[r] /\ paid[r] >= est[r]

ChargeOK(r) ==
  /\ paid[r] <= est[r] \/ paid[r] <= act[r]
  /\ Settled(r) => \/ paid[r] = est[r] /\ act[r] <= est[r]
                   \/ paid[r] = act[r] /\ act[r] > est[r]

IInv ==
  /\ TypeOK
  /\ InputsKnown
  /\ SlotsMatchHandlers
  /\ \A r \in Requests : ChargeProgress(r) /\ PaidOK(r) /\ ChargeOK(r)


\* Which handlers hold a slot changes only in AcquireSlot and ReleaseSlot.
LEMMA HoldersKept ==
  ASSUME TypeOK, NEW r \in Requests,
         \/ Arrive(r) \/ Cancel(r) \/ RejectAtCapacity(r) \/ ReadLen(r)
         \/ SetInflightRequests(r) \/ ReadBody(r) \/ ReadPaymentHeader(r)
         \/ ResolveRoute(r) \/ OpenSession(r) \/ ProcessPayment(r)
         \/ EstimateWorkUnits(r) \/ DebitBalance(r) \/ ServeOK(r) \/ ServeError(r)
         \/ Reconcile(r) \/ CloseSession(r) \/ EmitRequestMetrics(r)
  PROVE  Holders' = Holders /\ sem' = sem
<1> USE DEF TypeOK, Goto, Holders, Holding, Entering, Charging, Serving, Leaving, gateVars
<1>1. CASE Arrive(r) BY <1>1 DEF Arrive
<1>2. CASE Cancel(r) BY <1>2 DEF Cancel
<1>3. CASE RejectAtCapacity(r) BY <1>3 DEF RejectAtCapacity
<1>4. CASE ReadLen(r) BY <1>4 DEF ReadLen
<1>5. CASE SetInflightRequests(r) BY <1>5 DEF SetInflightRequests
<1>6. CASE ReadBody(r) BY <1>6 DEF ReadBody
<1>7. CASE ReadPaymentHeader(r) BY <1>7 DEF ReadPaymentHeader
<1>8. CASE ResolveRoute(r) BY <1>8 DEF ResolveRoute
<1>9. CASE OpenSession(r) BY <1>9 DEF OpenSession
<1>10. CASE ProcessPayment(r) BY <1>10 DEF ProcessPayment
<1>11. CASE EstimateWorkUnits(r) BY <1>11 DEF EstimateWorkUnits
<1>12. CASE DebitBalance(r) BY <1>12 DEF DebitBalance
<1>13. CASE ServeOK(r) BY <1>13 DEF ServeOK
<1>14. CASE ServeError(r) BY <1>14 DEF ServeError
<1>15. CASE Reconcile(r) BY <1>15 DEF Reconcile
<1>16. CASE CloseSession(r) BY <1>16 DEF CloseSession
<1>17. CASE EmitRequestMetrics(r) BY <1>17 DEF EmitRequestMetrics
<1> QED
  BY <1>1, <1>2, <1>3, <1>4, <1>5, <1>6, <1>7, <1>8, <1>9, <1>10, <1>11, <1>12, <1>13, <1>14, <1>15, <1>16, <1>17

\* The semaphore keeps counting the holders.
LEMMA SlotsStep ==
  ASSUME TypeOK, SlotsMatchHandlers, NEW r \in Requests,
         Arrive(r) \/ Cancel(r) \/ Handle(r)
  PROVE  SlotsMatchHandlers'
<1>0. IsFiniteSet(Holders) BY RequestsFinite, FS_Subset DEF Holders
<1>1. CASE AcquireSlot(r)
  <2>1. r \notin Holders /\ Holders' = Holders \cup {r}
    BY <1>1 DEF AcquireSlot, Goto, Holders, Holding, Entering, Charging, Serving, Leaving, TypeOK
  <2>2. Cardinality(Holders') = Cardinality(Holders) + 1
    BY <1>0, <2>1, FS_AddElement
  <2> QED BY <1>1, <2>2, CapacityPositive DEF AcquireSlot, SlotsMatchHandlers, TypeOK
<1>2. CASE ReleaseSlot(r)
  <2>1. r \in Holders /\ Holders' = Holders \ {r}
    BY <1>2 DEF ReleaseSlot, Goto, Holders, Holding, Entering, Charging, Serving, Leaving, TypeOK
  <2>2. Cardinality(Holders') = Cardinality(Holders) - 1
    BY <1>0, <2>1, FS_RemoveElement
  <2> QED BY <1>2, <2>2, CapacityPositive DEF ReleaseSlot, SlotsMatchHandlers, TypeOK
<1>3. CASE ~AcquireSlot(r) /\ ~ReleaseSlot(r)
  <2>1. Holders' = Holders /\ sem' = sem BY <1>3, HoldersKept DEF Handle
  <2> QED BY <2>1 DEF SlotsMatchHandlers
<1> QED BY <1>1, <1>2, <1>3


\* Inputs stay known.
LEMMA InputsStep ==
  ASSUME TypeOK, InputsKnown, NEW r \in Requests,
         Arrive(r) \/ Cancel(r) \/ Handle(r)
  PROVE  InputsKnown'
<1> USE MeteringDomains DEF TypeOK, InputsKnown, Goto, Entering
<1>1. CASE Arrive(r) BY <1>1 DEF Arrive
<1>2. CASE Cancel(r) BY <1>2 DEF Cancel
<1>3. CASE AcquireSlot(r) BY <1>3 DEF AcquireSlot
<1>4. CASE RejectAtCapacity(r) BY <1>4 DEF RejectAtCapacity
<1>5. CASE ReadLen(r) BY <1>5 DEF ReadLen
<1>6. CASE SetInflightRequests(r) BY <1>6 DEF SetInflightRequests
<1>7. CASE ReadBody(r) BY <1>7 DEF ReadBody
<1>8. CASE ReadPaymentHeader(r) BY <1>8 DEF ReadPaymentHeader
<1>9. CASE ResolveRoute(r) BY <1>9 DEF ResolveRoute
<1>10. CASE OpenSession(r) BY <1>10 DEF OpenSession
<1>11. CASE ProcessPayment(r) BY <1>11 DEF ProcessPayment
<1>12. CASE EstimateWorkUnits(r) BY <1>12 DEF EstimateWorkUnits
<1>13. CASE DebitBalance(r) BY <1>13 DEF DebitBalance
<1>14. CASE ServeOK(r) BY <1>14 DEF ServeOK
<1>15. CASE ServeError(r) BY <1>15 DEF ServeError
<1>16. CASE Reconcile(r) BY <1>16 DEF Reconcile
<1>17. CASE CloseSession(r) BY <1>17 DEF CloseSession
<1>18. CASE EmitRequestMetrics(r) BY <1>18 DEF EmitRequestMetrics
<1>19. CASE ReleaseSlot(r) BY <1>19 DEF ReleaseSlot
<1> QED
  BY <1>1, <1>2, <1>3, <1>4, <1>5, <1>6, <1>7, <1>8, <1>9, <1>10, <1>11, <1>12, <1>13, <1>14, <1>15, <1>16, <1>17, <1>18, <1>19 DEF Handle

\* A step of r leaves the charging state of every other request alone.
LEMMA OthersUntouched ==
  ASSUME TypeOK, NEW r \in Requests, Arrive(r) \/ Cancel(r) \/ Handle(r),
         NEW q \in Requests \ {r}
  PROVE  /\ pc'[q] = pc[q] /\ status'[q] = status[q] /\ warned'[q] = warned[q]
         /\ est'[q] = est[q] /\ act'[q] = act[q]
         /\ paid'[q] = paid[q] /\ accepted'[q] = accepted[q]
<1> USE DEF TypeOK, Goto, histVars
<1>1. CASE Arrive(r) BY <1>1 DEF Arrive
<1>2. CASE Cancel(r) BY <1>2 DEF Cancel
<1>3. CASE AcquireSlot(r) BY <1>3 DEF AcquireSlot
<1>4. CASE RejectAtCapacity(r) BY <1>4 DEF RejectAtCapacity, Respond
<1>5. CASE ReadLen(r) BY <1>5 DEF ReadLen
<1>6. CASE SetInflightRequests(r) BY <1>6 DEF SetInflightRequests
<1>7. CASE ReadBody(r) BY <1>7 DEF ReadBody, Respond
<1>8. CASE ReadPaymentHeader(r) BY <1>8 DEF ReadPaymentHeader, Respond
<1>9. CASE ResolveRoute(r) BY <1>9 DEF ResolveRoute, Respond
<1>10. CASE OpenSession(r) BY <1>10 DEF OpenSession, Respond
<1>11. CASE ProcessPayment(r) BY <1>11 DEF ProcessPayment, Respond
<1>12. CASE EstimateWorkUnits(r) BY <1>12 DEF EstimateWorkUnits, Respond
<1>13. CASE DebitBalance(r) BY <1>13 DEF DebitBalance, DebitUpfront, Respond
<1>14. CASE ServeOK(r) BY <1>14 DEF ServeOK, Respond
<1>15. CASE ServeError(r) BY <1>15 DEF ServeError, Respond
<1>16. CASE Reconcile(r) BY <1>16 DEF Reconcile, DebitDelta
<1>17. CASE CloseSession(r) BY <1>17 DEF CloseSession
<1>18. CASE EmitRequestMetrics(r) BY <1>18 DEF EmitRequestMetrics
<1>19. CASE ReleaseSlot(r) BY <1>19 DEF ReleaseSlot
<1> QED
  BY <1>1, <1>2, <1>3, <1>4, <1>5, <1>6, <1>7, <1>8, <1>9, <1>10, <1>11, <1>12, <1>13, <1>14, <1>15, <1>16, <1>17, <1>18, <1>19 DEF Handle

\* A step of r keeps its own charging state in order.
LEMMA ChargeStep ==
  ASSUME TypeOK, InputsKnown, NEW r \in Requests, Arrive(r) \/ Cancel(r) \/ Handle(r),
         ChargeProgress(r), PaidOK(r), ChargeOK(r)
  PROVE  ChargeProgress(r)' /\ PaidOK(r)' /\ ChargeOK(r)'
<1> USE MeteringDomains DEF TypeOK, InputsKnown, ChargeProgress, PaidOK, ChargeOK, WorkStarted, Settled, Success,
            Before, Funded, Entering, Serving, Goto, histVars
<1>1. CASE Arrive(r) BY <1>1 DEF Arrive
<1>2. CASE Cancel(r) BY <1>2 DEF Cancel
<1>3. CASE AcquireSlot(r) BY <1>3 DEF AcquireSlot
<1>4. CASE RejectAtCapacity(r) BY <1>4 DEF RejectAtCapacity, Respond
<1>5. CASE ReadLen(r) BY <1>5 DEF ReadLen
<1>6. CASE SetInflightRequests(r) BY <1>6 DEF SetInflightRequests
<1>7. CASE ReadBody(r) BY <1>7 DEF ReadBody, Respond
<1>8. CASE ReadPaymentHeader(r) BY <1>8 DEF ReadPaymentHeader, Respond
<1>9. CASE ResolveRoute(r) BY <1>9 DEF ResolveRoute, Respond
<1>10. CASE OpenSession(r) BY <1>10 DEF OpenSession, Respond
<1>11. CASE ProcessPayment(r) BY <1>11 DEF ProcessPayment, Respond
<1>12. CASE EstimateWorkUnits(r) BY <1>12 DEF EstimateWorkUnits, Respond
<1>13. CASE DebitBalance(r) BY <1>13 DEF DebitBalance, DebitUpfront, Respond
<1>14. CASE ServeOK(r) BY <1>14 DEF ServeOK, Respond
<1>15. CASE ServeError(r)
  <2>1. /\ pc[r] = "serve" /\ pc'[r] = "close"
        /\ accepted'[r] /\ paid'[r] = est'[r] /\ est'[r] \in Nat
    BY <1>15 DEF ServeError
  <2>2. "serve" \in warned'[r] BY <1>15 DEF ServeError
  <2>3. ~Settled(r)' BY <2>2
  <2> QED BY <2>1, <2>3
<1>16. CASE Reconcile(r)
  <2>1. /\ pc[r] = "reconcile" /\ pc'[r] = "close"
        /\ accepted'[r] /\ est'[r] = est[r] /\ act'[r] = act[r] /\ act[r] > est[r]
        /\ est[r] \in Nat /\ act[r] \in Nat
    BY <1>16 DEF Reconcile
  <2>2. CASE paid'[r] = act[r] BY <2>1, <2>2
  <2>3. CASE paid'[r] = est[r] /\ "reconcile" \in warned'[r]
    <3>1. ~Settled(r)' BY <2>3
    <3> QED BY <2>1, <2>3, <3>1
  <2>4. paid'[r] = act[r] \/ (paid'[r] = est[r] /\ "reconcile" \in warned'[r])
    <3>1. paid[r] = est[r] BY <1>16 DEF Reconcile
    <3>2. CASE DebitDelta(r)
      <4>1. paid'[r] = paid[r] + (act[r] - est[r]) BY <3>2 DEF DebitDelta
      <4>2. est[r] + (act[r] - est[r]) = act[r] BY <2>1
      <4> QED BY <3>1, <4>1, <4>2
    <3>3. CASE ~DebitDelta(r)
      <4>1. paid' = paid /\ warned' = [warned EXCEPT ![r] = @ \cup {"reconcile"}]
        BY <1>16, <3>3 DEF Reconcile
      <4> QED BY <3>1, <4>1
    <3> QED BY <3>2, <3>3
  <2> QED BY <2>2, <2>3, <2>4
<1>17. CASE CloseSession(r) BY <1>17 DEF CloseSession
<1>18. CASE EmitRequestMetrics(r) BY <1>18 DEF EmitRequestMetrics
<1>19. CASE ReleaseSlot(r) BY <1>19 DEF ReleaseSlot
<1> QED
  BY <1>1, <1>2, <1>3, <1>4, <1>5, <1>6, <1>7, <1>8, <1>9, <1>10, <1>11, <1>12, <1>13, <1>14, <1>15, <1>16, <1>17, <1>18, <1>19 DEF Handle


-----------------------------------------------------------------------------
(***************************************************************************)
(* The theorems.                                                           *)
(***************************************************************************)

\* The invariant holds when the worker starts.
LEMMA InitIInv == Init => IInv
<1> SUFFICES ASSUME Init PROVE IInv OBVIOUS
<1>1. TypeOK
  BY DEF Init, TypeOK, DaemonInit, DaemonTypeOK, Points, Statuses
<1>2. InputsKnown BY DEF Init, InputsKnown, Entering
<1>3. SlotsMatchHandlers
  <2>1. Holders = {}
    BY DEF Init, Holders, Holding, Entering, Charging, Serving, Leaving
  <2> QED BY <2>1, FS_EmptySet, CapacityPositive DEF Init, SlotsMatchHandlers
<1>4. \A r \in Requests : ChargeProgress(r) /\ PaidOK(r) /\ ChargeOK(r)
  BY DEF Init, ChargeProgress, PaidOK, ChargeOK, WorkStarted, Settled, Success, Funded, Serving
<1> QED BY <1>1, <1>2, <1>3, <1>4 DEF IInv

\* Every step of every handler keeps it.
LEMMA StepIInv == IInv /\ [Next]_vars => IInv'
<1> SUFFICES ASSUME IInv, [Next]_vars PROVE IInv' OBVIOUS
<1> USE DEF IInv
<1>1. CASE \E r \in Requests : Arrive(r) \/ Cancel(r) \/ Handle(r)
  <2> PICK r \in Requests : Arrive(r) \/ Cancel(r) \/ Handle(r) BY <1>1
  <2>1. TypeOK'
    BY TypeGate, TypeValidate, TypeServe, TypeLeave DEF Handle
  <2>2. InputsKnown' BY InputsStep
  <2>3. SlotsMatchHandlers' BY SlotsStep
  <2>4. ASSUME NEW q \in Requests
        PROVE  ChargeProgress(q)' /\ PaidOK(q)' /\ ChargeOK(q)'
    <3>1. CASE q = r BY <3>1, ChargeStep
    <3>2. CASE q # r
      BY <3>2, OthersUntouched DEF ChargeProgress, PaidOK, ChargeOK, WorkStarted, Settled
    <3> QED BY <3>1, <3>2
  <2> QED BY <2>1, <2>2, <2>3, <2>4
<1>2. CASE UNCHANGED vars
  <2> USE <1>2 DEF vars, reqVars, gateVars, metricVars, histVars, dvars
  <2>1. TypeOK' BY DEF TypeOK, DaemonTypeOK
  <2>2. InputsKnown' BY DEF InputsKnown
  <2>3. SlotsMatchHandlers' BY DEF SlotsMatchHandlers, Holders
  <2>4. \A r \in Requests : ChargeProgress(r)' /\ PaidOK(r)' /\ ChargeOK(r)'
    BY DEF ChargeProgress, PaidOK, ChargeOK, WorkStarted, Settled
  <2> QED BY <2>1, <2>2, <2>3, <2>4
<1> QED BY <1>1, <1>2 DEF Next

LEMMA Invariance == Spec => []IInv
BY InitIInv, StepIInv, PTL DEF Spec

\* Every variable of the middleware and of the daemon's ledger keeps its type;
\* in particular the semaphore is never released below zero.
THEOREM TypeCorrect == Spec => []TypeOK
<1>1. IInv => TypeOK BY DEF IInv
<1> QED BY <1>1, Invariance, PTL

\* The concurrency gate is exact on every exit path: slots taken are handlers
\* running, and never more than max_concurrent_requests.
THEOREM SlotsExact == Spec => []SlotsMatchHandlers
<1>1. IInv => SlotsMatchHandlers BY DEF IInv
<1> QED BY <1>1, Invariance, PTL

\* The middleware never starts backend work for a request whose payment was
\* not accepted or whose estimate was not debited.
THEOREM WorkIsPaid == Spec => []NoUnpaidWork
<1>1. IInv => NoUnpaidWork BY DEF IInv, NoUnpaidWork, PaidOK
<1> QED BY <1>1, Invariance, PTL

\* A request is charged at most once for the larger of estimate and usage,
\* and exactly that when it settles without an error.
THEOREM ChargeIsExact == Spec => []ChargeMatchesUse
<1>1. IInv => ChargeMatchesUse
  BY DEF IInv, ChargeMatchesUse, ChargeOK, TypeOK
<1> QED BY <1>1, Invariance, PTL


-----------------------------------------------------------------------------
(***************************************************************************)
(* The middleware implements PaidWork.  Each action is a step of one       *)
(* request's stage, or a stutter; the stage is a function of the program   *)
(* point, so the steps of other handlers are stutters for it.              *)
(***************************************************************************)
Stage == [r \in Requests |-> stageOf(r)]

LEMMA StageMoves ==
  ASSUME TypeOK, NEW r \in Requests, Arrive(r) \/ Cancel(r) \/ Handle(r)
  PROVE  Stage' = [Stage EXCEPT ![r] = stageOf(r)']
<1>1. \A q \in Requests \ {r} : stageOf(q)' = stageOf(q)
  BY OthersUntouched DEF stageOf
<1> QED BY <1>1 DEF Stage

\* Steps that move no stage and charge nothing.
LEMMA ContractStutters ==
  ASSUME TypeOK, NEW r \in Requests,
         \/ Arrive(r) \/ Cancel(r) \/ AcquireSlot(r) \/ ReadLen(r)
         \/ SetInflightRequests(r) \/ CloseSession(r) \/ EmitRequestMetrics(r)
         \/ ReleaseSlot(r)
  PROVE  stageOf(r)' = stageOf(r) /\ paid' = paid
<1> USE DEF TypeOK, stageOf, Entering, Goto, histVars
<1>1. CASE Arrive(r) BY <1>1 DEF Arrive
<1>2. CASE Cancel(r) BY <1>2 DEF Cancel
<1>3. CASE AcquireSlot(r) BY <1>3 DEF AcquireSlot
<1>4. CASE ReadLen(r) BY <1>4 DEF ReadLen
<1>5. CASE SetInflightRequests(r) BY <1>5 DEF SetInflightRequests
<1>6. CASE CloseSession(r) BY <1>6 DEF CloseSession
<1>7. CASE EmitRequestMetrics(r) BY <1>7 DEF EmitRequestMetrics
<1>8. CASE ReleaseSlot(r) BY <1>8 DEF ReleaseSlot
<1> QED BY <1>1, <1>2, <1>3, <1>4, <1>5, <1>6, <1>7, <1>8

\* Before the payment is accepted a request only waits, is refused or funded.
LEMMA ContractOpening ==
  ASSUME TypeOK, NEW r \in Requests,
         \/ RejectAtCapacity(r) \/ ReadBody(r) \/ ReadPaymentHeader(r)
         \/ ResolveRoute(r) \/ OpenSession(r) \/ ProcessPayment(r)
  PROVE  /\ stageOf(r) = "new" /\ paid' = paid
         /\ stageOf(r)' \in {"new", "over", "funded"}
<1> USE DEF TypeOK, stageOf, Entering, Goto, histVars
<1>1. CASE RejectAtCapacity(r) BY <1>1 DEF RejectAtCapacity
<1>2. CASE ReadBody(r) BY <1>2 DEF ReadBody
<1>3. CASE ReadPaymentHeader(r) BY <1>3 DEF ReadPaymentHeader
<1>4. CASE ResolveRoute(r) BY <1>4 DEF ResolveRoute
<1>5. CASE OpenSession(r) BY <1>5 DEF OpenSession
<1>6. CASE ProcessPayment(r) BY <1>6 DEF ProcessPayment
<1> QED BY <1>1, <1>2, <1>3, <1>4, <1>5, <1>6

\* Every step of a handler is a step of the contract.
LEMMA ContractStep ==
  ASSUME IInv, NEW r \in Requests, Arrive(r) \/ Cancel(r) \/ Handle(r)
  PROVE  [Contract!Next]_<<Stage, paid>>
<1> USE DEF Contract!Next, Contract!Move, Stage
<1>0. TypeOK /\ InputsKnown BY DEF IInv
<1>a. Stage' = [Stage EXCEPT ![r] = stageOf(r)'] BY <1>0, StageMoves
<1>b. Stage[r] = stageOf(r) OBVIOUS
<1>1. CASE \/ Arrive(r) \/ Cancel(r) \/ AcquireSlot(r) \/ ReadLen(r)
           \/ SetInflightRequests(r) \/ CloseSession(r) \/ EmitRequestMetrics(r)
           \/ ReleaseSlot(r)
  BY <1>0, <1>1, <1>a, <1>b, ContractStutters
<1>2. CASE \/ RejectAtCapacity(r) \/ ReadBody(r) \/ ReadPaymentHeader(r)
           \/ ResolveRoute(r) \/ OpenSession(r) \/ ProcessPayment(r)
  BY <1>0, <1>2, <1>a, <1>b, ContractOpening DEF Contract!Fund, Contract!Refuse
<1>3. CASE EstimateWorkUnits(r)
  <2>1. /\ stageOf(r) = "funded" /\ stageOf(r)' \in {"funded", "over"} /\ paid' = paid
        /\ paid \in [Requests -> Nat]
    BY <1>0, <1>3 DEF EstimateWorkUnits, stageOf, Goto, TypeOK, histVars, Entering
  <2>2. Contract!MayCharge(r) BY <2>1 DEF Contract!MayCharge
  <2>3. CASE stageOf(r)' = "funded" BY <1>a, <1>b, <2>1, <2>3
  <2>4. CASE stageOf(r)' = "over" BY <1>a, <1>b, <2>1, <2>2, <2>4 DEF Contract!Abandon
  <2> QED BY <2>1, <2>3, <2>4
<1>4. CASE DebitBalance(r)
  <2>1. /\ stageOf(r) = "funded" /\ stageOf(r)' \in {"working", "over"}
    BY <1>0, <1>4 DEF DebitBalance, stageOf, Goto, TypeOK, Entering
  <2>2. paid' = [paid EXCEPT ![r] = @ + est[r]] \/ paid' = paid
    BY <1>4 DEF DebitBalance, DebitUpfront, histVars
  <2>3. Contract!MayCharge(r) BY <1>0, <2>2 DEF TypeOK, Contract!MayCharge
  <2> QED BY <1>a, <1>b, <2>1, <2>3 DEF Contract!Abandon, Contract!Reserve
<1>5. CASE ServeOK(r) \/ ServeError(r)
  <2>1. stageOf(r) = "working" /\ stageOf(r)' \in {"settling", "over"} /\ paid' = paid
    BY <1>0, <1>5 DEF ServeOK, ServeError, stageOf, Goto, TypeOK, histVars, Entering
  <2> QED BY <1>a, <1>b, <2>1 DEF Contract!Finish
<1>6. CASE Reconcile(r)
  <2>1. stageOf(r) = "settling" /\ stageOf(r)' = "over"
    BY <1>0, <1>6 DEF Reconcile, stageOf, Goto, TypeOK, Entering
  <2>2. act[r] - est[r] \in Nat
    BY <1>0, <1>6 DEF Reconcile, Goto, InputsKnown, TypeOK
  <2>3. paid' = [paid EXCEPT ![r] = @ + (act[r] - est[r])] \/ paid' = paid
    BY <1>6 DEF Reconcile, DebitDelta
  <2>4. Contract!MayCharge(r) BY <1>0, <2>2, <2>3 DEF TypeOK, Contract!MayCharge
  <2> QED BY <1>a, <1>b, <2>1, <2>4 DEF Contract!Settle
<1> QED BY <1>1, <1>2, <1>3, <1>4, <1>5, <1>6 DEF Handle

\* paymentMiddleware implements the payment contract: work only after a
\* payment was accepted and units were reserved, one settlement at most, and
\* no charge before funding or after the request is over.
THEOREM ContractRefinement == Spec => ImplementsContract
<1>1. Init => Contract!Init
  BY DEF Init, Contract!Init, stageOf
<1>2. IInv /\ [Next]_vars => [Contract!Next]_<<Stage, paid>>
  <2> SUFFICES ASSUME IInv, [Next]_vars PROVE [Contract!Next]_<<Stage, paid>> OBVIOUS
  <2>1. CASE \E r \in Requests : Arrive(r) \/ Cancel(r) \/ Handle(r)
    BY <2>1, ContractStep
  <2>2. CASE UNCHANGED vars
    BY <2>2 DEF vars, reqVars, histVars, Stage, stageOf
  <2> QED BY <2>1, <2>2 DEF Next
<1> QED BY <1>1, <1>2, Invariance, PTL DEF Spec, ImplementsContract, Contract!Spec, Stage

=============================================================================
