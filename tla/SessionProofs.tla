--------------------------- MODULE SessionProofs ---------------------------
(***************************************************************************)
(* What paymentMiddleware does to the payee sessions, to the request       *)
(* counter and to the counted units, proved for any number of requests,    *)
(* blobs and faults on top of the invariant of PaidRouteProofs.            *)
(***************************************************************************)
EXTENDS PaidRouteProofs, FoldTheorems

-----------------------------------------------------------------------------
(***************************************************************************)
(* Footprints: what one step can touch.                                    *)
(***************************************************************************)
StepOf(r) == Arrive(r) \/ Cancel(r) \/ Handle(r)

\* The steps that call the daemon.
CallOf(r) == OpenSession(r) \/ ProcessPayment(r) \/ DebitBalance(r) \/ Reconcile(r) \/ CloseSession(r)

\* Distinct payment bytes have distinct work_ids.
LEMMA WorkInjective ==
  ASSUME NEW q, NEW r, work(q) = work(r)
  PROVE  blob[q] = blob[r]
BY DEF work, deriveWorkID

\* Each operation of the daemon works on one ledger entry.
LEMMA DaemonLocal ==
  ASSUME DaemonTypeOK, NEW w \in WorkIDs, NEW v \in WorkIDs, v # w, NEW n, NEW p,
         \/ DaemonOpen(w, p) \/ DaemonProcess(w, n) \/ DaemonDebit(w, n)
         \/ DaemonClose(w) \/ UNCHANGED dvars
  PROVE  sess'[v] = sess[v] /\ sprice'[v] = sprice[v] /\ bal'[v] = bal[v]
<1> USE DEF DaemonTypeOK, dvars
<1>1. CASE DaemonOpen(w, p) BY <1>1 DEF DaemonOpen
<1>2. CASE DaemonProcess(w, n) BY <1>2 DEF DaemonProcess
<1>3. CASE DaemonDebit(w, n) BY <1>3 DEF DaemonDebit
<1>4. CASE DaemonClose(w) BY <1>4 DEF DaemonClose
<1> QED BY <1>1, <1>2, <1>3, <1>4

\* Steps without a call leave the ledger alone.
LEMMA QuietLedger ==
  ASSUME NEW r \in Requests, StepOf(r), ~CallOf(r)
  PROVE  UNCHANGED dvars
BY DEF StepOf, CallOf, Handle, Arrive, Cancel, AcquireSlot, RejectAtCapacity, ReadLen,
       SetInflightRequests, ReadBody, ReadPaymentHeader, ResolveRoute, EstimateWorkUnits,
       ServeOK, ServeError, EmitRequestMetrics, ReleaseSlot

\* A call is made on the session of the request's own work_id.
LEMMA CallIsDaemonStep ==
  ASSUME TypeOK, InputsKnown, NEW r \in Requests, CallOf(r)
  PROVE  /\ work(r) \in WorkIDs
         /\ \E n, p : \/ DaemonOpen(work(r), p) \/ DaemonProcess(work(r), n)
                      \/ DaemonDebit(work(r), n) \/ DaemonClose(work(r)) \/ UNCHANGED dvars
<1> USE DEF Goto, InputsKnown
<1>1. CASE OpenSession(r) BY <1>1, WorkOfBlob DEF OpenSession
<1>2. CASE ProcessPayment(r) BY <1>2, WorkOfBlob DEF ProcessPayment
<1>3. CASE DebitBalance(r) BY <1>3, WorkOfBlob DEF DebitBalance, DebitUpfront
<1>4. CASE Reconcile(r) BY <1>4, WorkOfBlob DEF Reconcile, DebitDelta
<1>5. CASE CloseSession(r) BY <1>5, WorkOfBlob DEF CloseSession
<1> QED BY <1>1, <1>2, <1>3, <1>4, <1>5 DEF CallOf

\* A step of r touches no ledger entry but its own.
LEMMA LedgerFootprint ==
  ASSUME TypeOK, InputsKnown, NEW r \in Requests, StepOf(r),
         NEW w \in WorkIDs, w # work(r)
  PROVE  sess'[w] = sess[w] /\ sprice'[w] = sprice[w] /\ bal'[w] = bal[w]
<1>1. CASE CallOf(r)
  <2>1. DaemonTypeOK BY DEF TypeOK
  <2> QED BY <1>1, <2>1, CallIsDaemonStep, DaemonLocal
<1>2. CASE ~CallOf(r) BY <1>2, QuietLedger DEF dvars
<1> QED BY <1>1, <1>2

\* A step of r changes neither the inputs nor the labels of another request,
\* and its own payment bytes only when it reads the header.
LEMMA InputFootprint ==
  ASSUME TypeOK, NEW r \in Requests, StepOf(r)
  PROVE  /\ \A q \in Requests \ {r} : /\ blob'[q] = blob[q] /\ model'[q] = model[q]
                                      /\ emitted'[q] = emitted[q] /\ drawn'[q] = drawn[q]
         /\ pc[r] # "header" => blob'[r] = blob[r]
<1> USE DEF TypeOK, Goto, metricVars, histVars
<1>1. CASE Arrive(r) BY <1>1 DEF Arrive
<1>2. CASE Cancel(r) BY <1>2 DEF Cancel
<1>3. CASE AcquireSlot(r) BY <1>3 DEF AcquireSlot
<1>4. CASE RejectAtCapacity(r) BY <1>4 DEF RejectAtCapacity, IncRequest
<1>5. CASE ReadLen(r) BY <1>5 DEF ReadLen
<1>6. CASE SetInflightRequests(r) BY <1>6 DEF SetInflightRequests
<1>7. CASE ReadBody(r) BY <1>7 DEF ReadBody
<1>8. CASE ReadPaymentHeader(r) BY <1>8 DEF ReadPaymentHeader
<1>9. CASE ResolveRoute(r) BY <1>9 DEF ResolveRoute
<1>10. CASE OpenSession(r) BY <1>10 DEF OpenSession
<1>11. CASE ProcessPayment(r) BY <1>11 DEF ProcessPayment
<1>12. CASE EstimateWorkUnits(r) BY <1>12 DEF EstimateWorkUnits
<1>13. CASE DebitBalance(r) BY <1>13 DEF DebitBalance, DebitUpfront
<1>14. CASE ServeOK(r) BY <1>14 DEF ServeOK
<1>15. CASE ServeError(r) BY <1>15 DEF ServeError
<1>16. CASE Reconcile(r) BY <1>16 DEF Reconcile
<1>17. CASE CloseSession(r) BY <1>17 DEF CloseSession
<1>18. CASE EmitRequestMetrics(r) BY <1>18 DEF EmitRequestMetrics, IncRequest
<1>19. CASE ReleaseSlot(r) BY <1>19 DEF ReleaseSlot
<1> QED
  BY <1>1, <1>2, <1>3, <1>4, <1>5, <1>6, <1>7, <1>8, <1>9, <1>10, <1>11, <1>12, <1>13,
     <1>14, <1>15, <1>16, <1>17, <1>18, <1>19 DEF StepOf, Handle

\* The handler has not got to its payment header.
Unread == {"idle", "gate", "acqLen", "acqSet", "body", "header"}

\* How a step of r moves its own program point, and what it does to the
\* record of its payment on the way.
LEMMA OwnStep ==
  ASSUME TypeOK, NEW r \in Requests, StepOf(r)
  PROVE  /\ pc'[r] \in Unread => pc[r] \in Unread /\ blob'[r] = blob[r]
         /\ pc'[r] \in {"route", "open"} => pc[r] \in Unread \cup {"route", "open"}
         /\ pc'[r] = "pay" => pc[r] \in {"open", "pay"}
         /\ InSession(r)' => model'[r] = model[r] /\ (InSession(r) \/ OpenSession(r))
         /\ InSession(r) /\ ~InSession(r)' => CloseSession(r) \/ pc[r] = "pay"
         /\ accepted'[r] = accepted[r] \/ pc'[r] = "estimate"
         /\ warned[r] \subseteq warned'[r]
<1> USE DEF TypeOK, Goto, Unread, InSession
<1>1. CASE Arrive(r) BY <1>1 DEF Arrive
<1>2. CASE Cancel(r) BY <1>2 DEF Cancel
<1>3. CASE AcquireSlot(r) BY <1>3 DEF AcquireSlot
<1>4. CASE RejectAtCapacity(r) BY <1>4 DEF RejectAtCapacity
<1>5. CASE ReadLen(r) BY <1>5 DEF ReadLen
<1>6. CASE SetInflightRequests(r) BY <1>6 DEF SetInflightRequests
<1>7. CASE ReadBody(r) BY <1>7 DEF ReadBody
<1>8. CASE ReadPaymentHeader(r) BY <1>8 DEF ReadPaymentHeader
<1>9. CASE ResolveRoute(r) BY <1>9 DEF ResolveRoute
<1>10. CASE OpenSession(r) BY <1>10 DEF OpenSession
<1>11. CASE ProcessPayment(r) BY <1>11 DEF ProcessPayment
<1>12. CASE EstimateWorkUnits(r) BY <1>12 DEF EstimateWorkUnits
<1>13. CASE DebitBalance(r) BY <1>13 DEF DebitBalance
<1>14. CASE ServeOK(r) BY <1>14 DEF ServeOK
<1>15. CASE ServeError(r) BY <1>15 DEF ServeError
<1>16. CASE Reconcile(r) BY <1>16 DEF Reconcile
<1>17. CASE CloseSession(r) BY <1>17 DEF CloseSession
<1>18. CASE EmitRequestMetrics(r) BY <1>18 DEF EmitRequestMetrics
<1>19. CASE ReleaseSlot(r) BY <1>19 DEF ReleaseSlot
<1> QED
  BY <1>1, <1>2, <1>3, <1>4, <1>5, <1>6, <1>7, <1>8, <1>9, <1>10, <1>11, <1>12, <1>13,
     <1>14, <1>15, <1>16, <1>17, <1>18, <1>19 DEF StepOf, Handle

\* Sessions are opened and closed, and prices bound, in two steps only.
LEMMA SessionsKept ==
  ASSUME NEW r \in Requests, StepOf(r), ~OpenSession(r), ~CloseSession(r)
  PROVE  sess' = sess /\ sprice' = sprice
<1> USE DEF dvars
<1>1. CASE CallOf(r)
  BY <1>1 DEF CallOf, ProcessPayment, DebitBalance, DebitUpfront, Reconcile, DebitDelta,
     DaemonProcess, DaemonDebit
<1>2. CASE ~CallOf(r) BY <1>2, QuietLedger
<1> QED BY <1>1, <1>2

-----------------------------------------------------------------------------
(***************************************************************************)
(* Sessions.  Neither SessionHeld nor NoForgottenSession is inductive.     *)
(* That a request alone with its blob opens a fresh session, rather than   *)
(* find one at another price, takes SessionOwned: no session is open that  *)
(* no request has got to.  That its blob was its own all along takes       *)
(* BlobRead.  That a session which a failed OpenSession left behind counts *)
(* as one whose payment was refused takes NotYetAccepted.                  *)
(***************************************************************************)
BlobRead == \A r \in Requests : pc[r] \in Unread => blob[r] = None

NotYetAccepted ==
  \A r \in Requests : pc[r] \in Unread \cup {"route", "open", "pay"} => ~accepted[r]

SessionOwned ==
  \A w \in WorkIDs : sess[w] = "open" =>
    \E q \in Requests : blob[q] # None /\ work(q) = w /\ pc[q] \notin {"route", "open"}

SInv ==
  /\ IInv
  /\ BlobRead /\ NotYetAccepted /\ SessionOwned
  /\ SessionHeld /\ NoForgottenSession

\* A request that has read its payment keeps it.
LEMMA BlobKept ==
  ASSUME TypeOK, BlobRead, NEW r \in Requests, StepOf(r), NEW q \in Requests, blob[q] # None
  PROVE  blob'[q] = blob[q] /\ work(q)' = work(q)
<1>1. CASE q = r BY <1>1, InputFootprint DEF BlobRead, Unread, work
<1>2. CASE q # r BY <1>2, InputFootprint DEF work
<1> QED BY <1>1, <1>2

\* A session that is open after a step of r was open before it, or r opened it.
LEMMA OpenOrOpened ==
  ASSUME TypeOK, InputsKnown, NEW r \in Requests, StepOf(r),
         NEW w \in WorkIDs, sess'[w] = "open"
  PROVE  \/ sess[w] = "open"
         \/ OpenSession(r) /\ w = work(r) /\ pc[r] = "open" /\ pc'[r] \in {"pay", "metrics"}
<1>1. CASE w # work(r) BY <1>1, LedgerFootprint
<1>2. CASE w = work(r)
  <2>1. CASE OpenSession(r) BY <1>2, <2>1 DEF OpenSession, Goto, TypeOK
  <2>2. CASE CloseSession(r)
    BY <1>2, <2>2 DEF CloseSession, DaemonClose, TypeOK, DaemonTypeOK, dvars
  <2>3. CASE ~OpenSession(r) /\ ~CloseSession(r) BY <2>3, SessionsKept
  <2> QED BY <2>1, <2>2, <2>3
<1> QED BY <1>1, <1>2

\* The three strengthenings are kept.
LEMMA OwnedStep ==
  ASSUME TypeOK, InputsKnown, BlobRead, NotYetAccepted, SessionOwned,
         NEW r \in Requests, StepOf(r)
  PROVE  BlobRead' /\ NotYetAccepted' /\ SessionOwned'
<1>0. StepOf(r) <=> (Arrive(r) \/ Cancel(r) \/ Handle(r)) BY DEF StepOf
<1>1. ASSUME NEW q \in Requests, pc'[q] \in Unread PROVE blob'[q] = None
  <2>1. CASE q = r BY <1>1, <2>1, OwnStep DEF BlobRead
  <2>2. CASE q # r BY <1>0, <1>1, <2>2, OthersUntouched, InputFootprint DEF BlobRead
  <2> QED BY <2>1, <2>2
<1>2. ASSUME NEW q \in Requests, pc'[q] \in Unread \cup {"route", "open", "pay"}
      PROVE  ~accepted'[q]
  <2>1. CASE q = r
    <3>1. pc[r] \in Unread \cup {"route", "open", "pay"} BY <1>2, <2>1, OwnStep
    <3>2. pc'[r] # "estimate" BY <1>2, <2>1 DEF Unread
    <3>3. accepted'[r] = accepted[r] BY <3>2, OwnStep
    <3> QED BY <2>1, <3>1, <3>3 DEF NotYetAccepted
  <2>2. CASE q # r BY <1>0, <1>2, <2>2, OthersUntouched DEF NotYetAccepted
  <2> QED BY <2>1, <2>2
<1>3. ASSUME NEW w \in WorkIDs, sess'[w] = "open"
      PROVE  \E q \in Requests : blob'[q] # None /\ work(q)' = w /\ pc'[q] \notin {"route", "open"}
  <2>1. CASE sess[w] = "open"
    <3> PICK q \in Requests : blob[q] # None /\ work(q) = w /\ pc[q] \notin {"route", "open"}
      BY <2>1 DEF SessionOwned
    <3>1. blob'[q] # None /\ work(q)' = w BY BlobKept
    <3>2. pc[q] \notin Unread BY DEF BlobRead
    <3>3. pc'[q] \notin {"route", "open"}
      <4>1. CASE q = r BY <3>2, <4>1, OwnStep
      <4>2. CASE q # r BY <1>0, <4>2, OthersUntouched
      <4> QED BY <4>1, <4>2
    <3> QED BY <3>1, <3>3
  <2>2. CASE sess[w] # "open"
    <3>1. w = work(r) /\ pc[r] = "open" /\ pc'[r] \in {"pay", "metrics"}
      BY <1>3, <2>2, OpenOrOpened
    <3>2. blob[r] # None BY <3>1, NoneIsNoBlob DEF InputsKnown
    <3> QED BY <3>1, <3>2, BlobKept
  <2> QED BY <2>1, <2>2
<1> QED BY <1>1, <1>2, <1>3 DEF BlobRead, NotYetAccepted, SessionOwned

\* A request alone with its blob after a step was alone with it before.
LEMMA ExclusiveBefore ==
  ASSUME TypeOK, BlobRead, NEW r \in Requests, StepOf(r),
         NEW q \in Requests, blob[q] # None, Exclusive(q)'
  PROVE  Exclusive(q)
<1> SUFFICES ASSUME NEW p \in Requests \ {q} PROVE blob[p] # blob[q]
  BY DEF Exclusive
<1>1. CASE blob[p] = None BY <1>1
<1>2. CASE blob[p] # None BY <1>2, BlobKept DEF Exclusive
<1> QED BY <1>1, <1>2

\* What r's own step does to a session that is r's alone.
LEMMA HeldOwn ==
  ASSUME TypeOK, InputsKnown, BlobRead, SessionOwned, SessionHeld,
         NEW r \in Requests, StepOf(r), InSession(r)', Exclusive(r)'
  PROVE  sess'[work(r)'] = "open" /\ sprice'[work(r)'] = Price[model'[r]]
<1>0. InSession(r) \/ OpenSession(r) BY OwnStep
<1>1. blob[r] \in Blobs /\ model'[r] = model[r]
  BY <1>0, OwnStep DEF InputsKnown, InSession, OpenSession, Goto
<1>2. blob[r] # None BY <1>1, NoneIsNoBlob
<1>3. work(r)' = work(r) /\ work(r) \in WorkIDs BY <1>1, <1>2, BlobKept, WorkOfBlob
<1>4. Exclusive(r) BY <1>2, ExclusiveBefore
<1>5. CASE OpenSession(r)
  <2>1. sess[work(r)] # "open"
    <3> SUFFICES ASSUME sess[work(r)] = "open" PROVE FALSE OBVIOUS
    <3>1. PICK q \in Requests :
            blob[q] # None /\ work(q) = work(r) /\ pc[q] \notin {"route", "open"}
      BY <1>3 DEF SessionOwned
    <3>2. q # r BY <1>5, <3>1 DEF OpenSession, Goto
    <3>3. blob[q] = blob[r] BY <3>1, WorkInjective
    <3> QED BY <1>4, <3>2, <3>3 DEF Exclusive
  <2>2. pc'[r] # "metrics" BY DEF InSession
  <2>3. DaemonOpen(work(r), Price[model[r]]) BY <1>5, <2>2 DEF OpenSession, Goto, TypeOK
  <2> QED BY <1>1, <1>3, <2>1, <2>3 DEF DaemonOpen, TypeOK, DaemonTypeOK
<1>6. CASE ~OpenSession(r)
  <2>1. ~CloseSession(r) BY DEF CloseSession, Goto, InSession, TypeOK
  <2>2. sess' = sess /\ sprice' = sprice BY <1>6, <2>1, SessionsKept
  <2> QED BY <1>0, <1>1, <1>3, <1>4, <1>6, <2>2 DEF SessionHeld
<1> QED BY <1>5, <1>6

\* Nobody's step takes the session from a request alone with its blob.
LEMMA HeldStep ==
  ASSUME TypeOK, InputsKnown, BlobRead, SessionOwned, SessionHeld, NEW r \in Requests, StepOf(r)
  PROVE  SessionHeld'
<1>0. StepOf(r) <=> (Arrive(r) \/ Cancel(r) \/ Handle(r)) BY DEF StepOf
<1> SUFFICES ASSUME NEW q \in Requests, InSession(q)', Exclusive(q)'
             PROVE  sess'[work(q)'] = "open" /\ sprice'[work(q)'] = Price[model'[q]]
  BY DEF SessionHeld
<1>1. CASE q = r BY <1>1, HeldOwn
<1>2. CASE q # r
  <2>1. InSession(q) /\ model'[q] = model[q]
    BY <1>0, <1>2, OthersUntouched, InputFootprint DEF InSession
  <2>2. blob[q] \in Blobs BY <2>1 DEF InputsKnown, InSession
  <2>3. blob[q] # None BY <2>2, NoneIsNoBlob
  <2>4. Exclusive(q) BY <2>3, ExclusiveBefore
  <2>5. work(q) # work(r) BY <1>2, <2>4, WorkInjective DEF Exclusive
  <2>6. work(q) \in WorkIDs /\ work(q)' = work(q) BY <2>2, <2>3, WorkOfBlob, BlobKept
  <2>7. sess'[work(q)] = sess[work(q)] /\ sprice'[work(q)] = sprice[work(q)]
    BY <2>5, <2>6, LedgerFootprint
  <2> QED BY <2>1, <2>4, <2>6, <2>7 DEF SessionHeld
<1> QED BY <1>1, <1>2

\* No step forgets an accepted session.
LEMMA ForgottenStep ==
  ASSUME TypeOK, InputsKnown, BlobRead, NotYetAccepted, NoForgottenSession,
         NEW r \in Requests, StepOf(r)
  PROVE  NoForgottenSession'
<1>0. StepOf(r) <=> (Arrive(r) \/ Cancel(r) \/ Handle(r)) BY DEF StepOf
<1> DEFINE Excused(q) == InSession(q) \/ ~accepted[q] \/ "close" \in warned[q]
<1> SUFFICES ASSUME NEW w \in WorkIDs, sess'[w] = "open"
             PROVE  \E q \in Requests : blob'[q] # None /\ work(q)' = w /\ Excused(q)'
  BY DEF NoForgottenSession
<1>1. CASE sess[w] = "open"
  <2> PICK q \in Requests : blob[q] # None /\ work(q) = w /\ Excused(q)
    BY <1>1 DEF NoForgottenSession
  <2>1. blob'[q] # None /\ work(q)' = w BY BlobKept
  <2>2. CASE q # r
    <3>1. Excused(q)' BY <1>0, <2>2, OthersUntouched DEF InSession
    <3> QED BY <2>1, <3>1
  <2>3. CASE q = r
    <3>1. CASE CloseSession(r)
      <4>1. ~DaemonClose(work(r))
        BY <2>3 DEF DaemonClose, TypeOK, DaemonTypeOK
      <4>2. "close" \in warned'[r] BY <3>1, <4>1 DEF CloseSession, TypeOK
      <4> QED BY <2>1, <2>3, <4>2
    <3>2. CASE ~CloseSession(r)
      <4>1. CASE "close" \in warned[r] BY <2>1, <2>3, <4>1, OwnStep
      <4>2. CASE InSession(r)'
        <5>1. Excused(r)' BY <4>2
        <5> QED BY <2>1, <2>3, <5>1
      <4>3. CASE ~InSession(r)' /\ "close" \notin warned[r]
        <5>1. pc'[r] # "estimate" BY <4>3 DEF InSession
        <5>2. accepted'[r] = accepted[r] BY <5>1, OwnStep
        <5>3. ~accepted[r]
          <6>1. CASE InSession(r) BY <3>2, <4>3, <6>1, OwnStep DEF NotYetAccepted
          <6>2. CASE ~InSession(r) BY <2>3, <4>3, <6>2
          <6> QED BY <6>1, <6>2
        <5> QED BY <2>1, <2>3, <5>2, <5>3
      <4> QED BY <4>1, <4>2, <4>3
    <3> QED BY <3>1, <3>2
  <2> QED BY <2>2, <2>3
<1>2. CASE sess[w] # "open"
  <2>1. w = work(r) /\ pc[r] = "open" /\ pc'[r] \in {"pay", "metrics"}
    BY <1>2, OpenOrOpened
  <2>2. blob[r] # None BY <2>1, NoneIsNoBlob DEF InputsKnown
  <2>3. ~accepted[r] BY <2>1 DEF NotYetAccepted
  <2>4. ~accepted'[r] BY <2>1, <2>3, OwnStep
  <2> QED BY <2>1, <2>2, <2>4, BlobKept
<1> QED BY <1>1, <1>2

\* The worker starts with no session and no payment read.
LEMMA InitSInv == Init => SInv
<1> SUFFICES ASSUME Init PROVE SInv OBVIOUS
<1>1. IInv BY InitIInv
<1>2. BlobRead BY DEF Init, BlobRead
<1>3. NotYetAccepted BY DEF Init, NotYetAccepted
<1>4. SessionOwned /\ NoForgottenSession
  BY DEF Init, DaemonInit, SessionOwned, NoForgottenSession
<1>5. SessionHeld BY DEF Init, SessionHeld, InSession
<1> QED BY <1>1, <1>2, <1>3, <1>4, <1>5 DEF SInv

LEMMA StepSInv == SInv /\ [Next]_vars => SInv'
<1> SUFFICES ASSUME SInv, [Next]_vars PROVE SInv' OBVIOUS
<1>0. TypeOK /\ InputsKnown BY DEF SInv, IInv
<1>1. IInv' BY StepIInv DEF SInv
<1>2. CASE \E r \in Requests : StepOf(r)
  <2> PICK r \in Requests : StepOf(r) BY <1>2
  <2>1. BlobRead' /\ NotYetAccepted' /\ SessionOwned' BY <1>0, OwnedStep DEF SInv
  <2>2. SessionHeld' BY <1>0, HeldStep DEF SInv
  <2>3. NoForgottenSession' BY <1>0, ForgottenStep DEF SInv
  <2> QED BY <1>1, <2>1, <2>2, <2>3 DEF SInv
<1>3. CASE UNCHANGED vars
  <2> USE <1>3 DEF vars, reqVars, gateVars, metricVars, histVars, dvars, SInv
  <2>1. BlobRead' BY DEF BlobRead
  <2>2. NotYetAccepted' BY DEF NotYetAccepted
  <2>3. SessionOwned' BY DEF SessionOwned, work
  <2>4. SessionHeld' BY DEF SessionHeld, InSession, Exclusive, work
  <2>5. NoForgottenSession' BY DEF NoForgottenSession, InSession, work
  <2> QED BY <1>1, <2>1, <2>2, <2>3, <2>4, <2>5
<1> QED BY <1>2, <1>3 DEF Next, StepOf

LEMMA SInvariance == Spec => []SInv
BY InitSInv, StepSInv, PTL DEF Spec

\* A request alone with its payment blob finds its session open, at the price
\* of its own route, from the return of OpenSession to its CloseSession, in
\* every interleaving with any number of other requests.
THEOREM SessionIsHeld == Spec => []SessionHeld
<1>1. SInv => SessionHeld BY DEF SInv
<1> QED BY <1>1, SInvariance, PTL

\* No exit path of the middleware leaves an accepted session open without a
\* logged CloseSession error.
THEOREM SessionsRemembered == Spec => []NoForgottenSession
<1>1. SInv => NoForgottenSession BY DEF SInv
<1> QED BY <1>1, SInvariance, PTL

\* No step of another handler changes the session, the price or the balance
\* of a request alone with its blob.
THEOREM LedgerIsIsolated == Spec => LedgerIsolated
<1>1. IInv /\ [Next]_vars =>
        [\A r \in Requests :
           InSession(r) /\ Exclusive(r) /\ pc'[r] = pc[r] =>
             /\ sess'[work(r)] = sess[work(r)]
             /\ bal'[work(r)] = bal[work(r)]
             /\ sprice'[work(r)] = sprice[work(r)]]_vars
  <2> SUFFICES ASSUME IInv, Next, NEW q \in Requests, InSession(q), Exclusive(q), pc'[q] = pc[q]
               PROVE  /\ sess'[work(q)] = sess[work(q)]
                      /\ bal'[work(q)] = bal[work(q)]
                      /\ sprice'[work(q)] = sprice[work(q)]
    OBVIOUS
  <2>0. TypeOK /\ InputsKnown BY DEF IInv
  <2>1. CASE UNCHANGED vars BY <2>1 DEF vars, dvars
  <2>2. ASSUME NEW r \in Requests, StepOf(r)
        PROVE  /\ sess'[work(q)] = sess[work(q)]
               /\ bal'[work(q)] = bal[work(q)]
               /\ sprice'[work(q)] = sprice[work(q)]
    <3>1. CASE q # r
      <4>1. work(q) \in WorkIDs BY <2>0, WorkOfBlob DEF InputsKnown, InSession
      <4>2. work(q) # work(r) BY <3>1, WorkInjective DEF Exclusive
      <4> QED BY <2>0, <2>2, <4>1, <4>2, LedgerFootprint
    <3>2. CASE q = r
      <4>1. ~CallOf(r)
        BY <2>0, <3>2 DEF CallOf, OpenSession, ProcessPayment, DebitBalance, Reconcile,
           CloseSession, Goto, TypeOK
      <4> QED BY <2>2, <4>1, QuietLedger DEF dvars
    <3> QED BY <3>1, <3>2
  <2> QED BY <2>1, <2>2 DEF Next, StepOf
<1> QED BY <1>1, Invariance, PTL DEF Spec, LedgerIsolated

-----------------------------------------------------------------------------
(***************************************************************************)
(* Overdrafts.  The balance check works for a client that keeps the sign   *)
(* of a balance.  grpc.go's client does not, and for it the property fails *)
(* (run paid_overdraft_grpc).                                              *)
(***************************************************************************)
DrawnOK(r) == WorkStarted(r) => drawn[r] >= 0

LEMMA DrawnStep ==
  ASSUME SignedBalance, TypeOK, NEW r \in Requests, StepOf(r), ChargeProgress(r), DrawnOK(r)
  PROVE  DrawnOK(r)'
<1> USE MeteringDomains DEF TypeOK, ChargeProgress, DrawnOK, WorkStarted, Success, Before, Funded,
            Entering, Serving, Goto, Respond, histVars
<1>1. CASE Arrive(r) BY <1>1 DEF Arrive
<1>2. CASE Cancel(r) BY <1>2 DEF Cancel
<1>3. CASE AcquireSlot(r) BY <1>3 DEF AcquireSlot
<1>4. CASE RejectAtCapacity(r) BY <1>4 DEF RejectAtCapacity
<1>5. CASE ReadLen(r) BY <1>5 DEF ReadLen
<1>6. CASE SetInflightRequests(r) BY <1>6 DEF SetInflightRequests
<1>7. CASE ReadBody(r) BY <1>7 DEF ReadBody
<1>8. CASE ReadPaymentHeader(r) BY <1>8 DEF ReadPaymentHeader
<1>9. CASE ResolveRoute(r) BY <1>9 DEF ResolveRoute
<1>10. CASE OpenSession(r) BY <1>10 DEF OpenSession
<1>11. CASE ProcessPayment(r) BY <1>11 DEF ProcessPayment
<1>12. CASE EstimateWorkUnits(r) BY <1>12 DEF EstimateWorkUnits
<1>13. CASE DebitBalance(r)
  <2>1. CASE pc'[r] = "serve"
    <3>1. DebitUpfront(r) /\ BalanceWei(bal'[work(r)]) >= 0 BY <1>13, <2>1 DEF DebitBalance
    <3>2. BalanceWei(bal'[work(r)]) = bal'[work(r)] BY DEF BalanceWei
    <3> QED BY <3>1, <3>2 DEF DebitUpfront
  <2>2. CASE pc'[r] = "close" BY <1>13, <2>2 DEF DebitBalance
  <2> QED BY <1>13, <2>1, <2>2 DEF DebitBalance
<1>14. CASE ServeOK(r) BY <1>14 DEF ServeOK
<1>15. CASE ServeError(r) BY <1>15 DEF ServeError
<1>16. CASE Reconcile(r) BY <1>16 DEF Reconcile
<1>17. CASE CloseSession(r) BY <1>17 DEF CloseSession
<1>18. CASE EmitRequestMetrics(r) BY <1>18 DEF EmitRequestMetrics
<1>19. CASE ReleaseSlot(r) BY <1>19 DEF ReleaseSlot
<1> QED
  BY <1>1, <1>2, <1>3, <1>4, <1>5, <1>6, <1>7, <1>8, <1>9, <1>10, <1>11, <1>12, <1>13,
     <1>14, <1>15, <1>16, <1>17, <1>18, <1>19 DEF StepOf, Handle

\* With a client that keeps the sign, no inference work is started for a
\* request whose estimate debit overdrew the session, whoever shares it.
THEOREM OverdraftIsRefused ==
  ASSUME SignedBalance
  PROVE  Spec => []OverdraftRefused
<1>1. Init => OverdraftRefused
  BY DEF Init, OverdraftRefused
<1>2. IInv /\ OverdraftRefused /\ [Next]_vars => OverdraftRefused'
  <2> SUFFICES ASSUME IInv, OverdraftRefused, [Next]_vars, NEW q \in Requests
               PROVE  DrawnOK(q)'
    BY DEF OverdraftRefused, DrawnOK, WorkStarted
  <2>0. TypeOK /\ ChargeProgress(q) /\ DrawnOK(q) BY DEF IInv, OverdraftRefused, DrawnOK
  <2>1. CASE \E r \in Requests : StepOf(r)
    <3> PICK r \in Requests : StepOf(r) BY <2>1
    <3>1. CASE q = r BY <2>0, <3>1, DrawnStep
    <3>2. CASE q # r
      <4>1. drawn'[q] = drawn[q] BY <2>0, <3>2, InputFootprint
      <4>2. pc'[q] = pc[q] /\ act'[q] = act[q] /\ status'[q] = status[q]
        BY <2>0, <3>2, OthersUntouched DEF StepOf
      <4> QED BY <2>0, <4>1, <4>2 DEF DrawnOK, WorkStarted
    <3> QED BY <3>1, <3>2
  <2>2. CASE UNCHANGED vars
    BY <2>0, <2>2 DEF vars, reqVars, histVars, DrawnOK, WorkStarted
  <2> QED BY <2>1, <2>2 DEF Next, StepOf
<1> QED BY <1>1, <1>2, Invariance, PTL DEF Spec

-----------------------------------------------------------------------------
(***************************************************************************)
(* The request counter.                                                    *)
(***************************************************************************)
Counted == {"release", "relLen", "relSet", "done"}

LabelOK(r) ==
  /\ emitted[r] # NoKey <=> pc[r] \in Counted
  /\ emitted[r] # NoKey /\ status[r] \in Success => emitted[r][2] \in {"2xx", "canceled"}

\* No call is counted twice.  The count of the cap goes up at most once per call,
\* and a call that is lost found it at the cap and did not raise it: from then
\* on there have been more calls than the count says.
CountersOK ==
  /\ \A k \in MetricKeys : requestsTotal[k] <= Cardinality(EmittedAs(k))
  /\ seriesCount <= Cardinality(Emitted)
  /\ \A k \in MetricKeys : requestsTotal[k] < Cardinality(EmittedAs(k)) =>
       MaxSeries > 0 /\ seriesCount >= MaxSeries /\ Cardinality(Emitted) > seriesCount

\* The initial value of a handler's label is none of the metric's.
LEMMA NoKeyIsNoKey == NoKey \notin MetricKeys
BY DEF NoKey, MetricKeys, Outcomes, None

\* IncRequest is called when a request leaves the gate or the metrics defer, and then only.
LEMMA CountOrKeep ==
  ASSUME TypeOK, NEW r \in Requests, StepOf(r)
  PROVE  \/ \E key \in MetricKeys : /\ emitted' = [emitted EXCEPT ![r] = key]
                                    /\ CapVecInc(key)
                                    /\ pc[r] \notin Counted
         \/ emitted' = emitted /\ requestsTotal' = requestsTotal /\ seriesCount' = seriesCount
<1> USE DEF metricVars
<1>1. CASE RejectAtCapacity(r)
  <2>1. <<Unset, "5xx">> \in MetricKeys BY DEF MetricKeys, Outcomes
  <2> QED BY <1>1, <2>1 DEF RejectAtCapacity, IncRequest, Goto, Counted
<1>2. CASE EmitRequestMetrics(r)
  <2>1. <<model[r], classifyOutcome(cancelled[r], status[r])>> \in MetricKeys
    BY KeyOfOutcome DEF TypeOK
  <2> QED BY <1>2, <2>1 DEF EmitRequestMetrics, IncRequest, Goto, Counted
<1>3. CASE ~RejectAtCapacity(r) /\ ~EmitRequestMetrics(r)
  BY <1>3 DEF StepOf, Handle, Arrive, Cancel, AcquireSlot, ReadLen, SetInflightRequests, ReadBody,
     ReadPaymentHeader, ResolveRoute, OpenSession, ProcessPayment, EstimateWorkUnits,
     DebitBalance, ServeOK, ServeError, Reconcile, CloseSession, ReleaseSlot
<1> QED BY <1>1, <1>2, <1>3

\* A new label adds its request to the emitted ones and to those of its key.
LEMMA EmittedGrows ==
  ASSUME TypeOK, NEW r \in Requests, emitted[r] = NoKey,
         NEW key \in MetricKeys, emitted' = [emitted EXCEPT ![r] = key]
  PROVE  /\ Cardinality(Emitted)' = Cardinality(Emitted) + 1
         /\ Cardinality(EmittedAs(key))' = Cardinality(EmittedAs(key)) + 1
         /\ \A k \in MetricKeys \ {key} : EmittedAs(k)' = EmittedAs(k)
<1>1. key # NoKey BY NoKeyIsNoKey
<1>2. r \notin Emitted /\ Emitted' = Emitted \cup {r} BY <1>1 DEF Emitted, TypeOK
<1>3. r \notin EmittedAs(key) /\ EmittedAs(key)' = EmittedAs(key) \cup {r}
  BY <1>1 DEF EmittedAs, TypeOK
<1>4. IsFiniteSet(Emitted) /\ IsFiniteSet(EmittedAs(key))
  BY RequestsFinite, FS_Subset DEF Emitted, EmittedAs
<1>5. Cardinality(Emitted \cup {r}) = Cardinality(Emitted) + 1 BY <1>2, <1>4, FS_AddElement
<1>6. Cardinality(EmittedAs(key) \cup {r}) = Cardinality(EmittedAs(key)) + 1
  BY <1>3, <1>4, FS_AddElement
<1>7. ASSUME NEW k \in MetricKeys \ {key} PROVE EmittedAs(k)' = EmittedAs(k)
  BY NoKeyIsNoKey DEF EmittedAs, TypeOK
<1> QED BY <1>2, <1>3, <1>5, <1>6, <1>7

\* The sets of emitted labels have natural cardinalities.
LEMMA EmittedCounts ==
  /\ Cardinality(Emitted) \in Nat
  /\ \A k \in MetricKeys : Cardinality(EmittedAs(k)) \in Nat
<1>1. IsFiniteSet(Emitted) BY RequestsFinite, FS_Subset DEF Emitted
<1>2. ASSUME NEW k \in MetricKeys PROVE IsFiniteSet(EmittedAs(k))
  BY RequestsFinite, FS_Subset DEF EmittedAs
<1> QED BY <1>1, <1>2, FS_CardinalityType

\* The counters stay within the calls, and fall behind them only past the cap.
LEMMA CountersStep ==
  ASSUME TypeOK, CountersOK, NEW r \in Requests, StepOf(r), LabelOK(r)
  PROVE  CountersOK'
<1>1. CASE emitted' = emitted /\ requestsTotal' = requestsTotal /\ seriesCount' = seriesCount
  BY <1>1 DEF CountersOK, Emitted, EmittedAs
<1>2. ASSUME NEW key \in MetricKeys, emitted' = [emitted EXCEPT ![r] = key],
             CapVecInc(key), pc[r] \notin Counted
      PROVE  CountersOK'
  <2>1. emitted[r] = NoKey BY <1>2 DEF LabelOK
  <2> DEFINE C == Cardinality(Emitted)
             A(k) == Cardinality(EmittedAs(k))
             T == requestsTotal
  <2>2. C' = C + 1 /\ A(key)' = A(key) + 1 /\ \A k \in MetricKeys \ {key} : A(k)' = A(k)
    BY <1>2, <2>1, EmittedGrows
  <2>3. C \in Nat /\ \A k \in MetricKeys : A(k) \in Nat BY EmittedCounts
  <2>4. /\ \A k \in MetricKeys : T[k] <= A(k)
        /\ seriesCount <= C
        /\ \A k \in MetricKeys : T[k] < A(k) =>
             MaxSeries > 0 /\ seriesCount >= MaxSeries /\ C > seriesCount
    BY DEF CountersOK
  <2>5. T \in [MetricKeys -> Nat] /\ seriesCount \in Nat BY DEF TypeOK
  <2>6. \A k \in MetricKeys \ {key} : T'[k] = T[k] BY <1>2, <2>5 DEF CapVecInc
  <2>7. \/ T'[key] = T[key] + 1 /\ seriesCount' \in {seriesCount, seriesCount + 1}
        \/ /\ T'[key] = T[key] /\ seriesCount' = seriesCount
           /\ MaxSeries > 0 /\ seriesCount >= MaxSeries
    BY <1>2, <2>5 DEF CapVecInc
  <2> HIDE DEF C, A, T
  <2>8. \A k \in MetricKeys : T'[k] <= A(k)'
    BY <2>2, <2>3, <2>4, <2>5, <2>6, <2>7
  <2>9. seriesCount' <= C' BY <2>2, <2>3, <2>4, <2>5, <2>7
  <2>10. ASSUME NEW k \in MetricKeys, T'[k] < A(k)'
         PROVE  MaxSeries > 0 /\ seriesCount' >= MaxSeries /\ C' > seriesCount'
    BY <2>2, <2>3, <2>4, <2>5, <2>6, <2>7, <2>10, CapNatural
  <2> QED BY <2>8, <2>9, <2>10 DEF CountersOK, C, A, T
<1> QED BY <1>1, <1>2, CountOrKeep

\* The labels of a request say how its handling ended.
LEMMA LabelStep ==
  ASSUME TypeOK, NEW r \in Requests, StepOf(r), ChargeProgress(r), LabelOK(r)
  PROVE  LabelOK(r)'
<1>1. CASE RejectAtCapacity(r)
  <2>1. /\ emitted'[r] = <<Unset, "5xx">> /\ pc'[r] = "done" /\ pc[r] = "gate"
        /\ status'[r] = IF status[r] = 0 THEN 503 ELSE status[r]
    BY <1>1 DEF RejectAtCapacity, IncRequest, Respond, Goto, TypeOK
  <2>2. status'[r] = 503 BY <2>1 DEF ChargeProgress, Before
  <2> QED BY <2>1, <2>2 DEF LabelOK, NoKey, None, Counted, Success
<1>2. CASE EmitRequestMetrics(r)
  <2>1. /\ emitted'[r] = <<model[r], classifyOutcome(cancelled[r], status[r])>>
        /\ pc'[r] = "release" /\ status'[r] = status[r]
    BY <1>2 DEF EmitRequestMetrics, IncRequest, Goto, TypeOK
  <2>a. model[r] \in Models \cup {Unset} /\ cancelled[r] \in BOOLEAN BY DEF TypeOK
  <2>b. <<model[r], classifyOutcome(cancelled[r], status[r])>> \in MetricKeys BY <2>a, KeyOfOutcome
  <2>2. emitted'[r] \in MetricKeys BY ONLY <2>1, <2>b, Zenon
  <2>3. status[r] \in Success => emitted'[r][2] \in {"2xx", "canceled"}
    BY <2>1 DEF classifyOutcome, Success
  <2> QED BY <2>1, <2>2, <2>3, NoKeyIsNoKey DEF LabelOK, Counted
<1>3. CASE ~RejectAtCapacity(r) /\ ~EmitRequestMetrics(r)
  <2>1. emitted' = emitted
    BY <1>3 DEF StepOf, Handle, Arrive, Cancel, AcquireSlot, ReadLen, SetInflightRequests, ReadBody,
       ReadPaymentHeader, ResolveRoute, OpenSession, ProcessPayment, EstimateWorkUnits,
       DebitBalance, ServeOK, ServeError, Reconcile, CloseSession, ReleaseSlot, metricVars
  <2>2. pc'[r] \in Counted <=> pc[r] \in Counted
    BY <1>3 DEF StepOf, Handle, Arrive, Cancel, AcquireSlot, ReadLen, SetInflightRequests, ReadBody,
       ReadPaymentHeader, ResolveRoute, OpenSession, ProcessPayment, EstimateWorkUnits,
       DebitBalance, ServeOK, ServeError, Reconcile, CloseSession, ReleaseSlot, Goto, Counted, TypeOK
  <2>3. pc[r] \in Counted => status' = status
    BY <1>3 DEF StepOf, Handle, Arrive, Cancel, AcquireSlot, ReadLen, SetInflightRequests, ReadBody,
       ReadPaymentHeader, ResolveRoute, OpenSession, ProcessPayment, EstimateWorkUnits,
       DebitBalance, ServeOK, ServeError, Reconcile, CloseSession, ReleaseSlot, Goto, Counted
  <2> QED BY <2>1, <2>2, <2>3 DEF LabelOK
<1> QED BY <1>1, <1>2, <1>3

\* With any number of handlers updating the counters: every request turned away
\* at the gate, or past its metrics defer, has called IncRequest under the labels
\* of how it ended; no call is counted twice, and none is missing while the cap
\* is off or no more requests than it have ended.
THEOREM RequestsAreCountedOnce == Spec => []RequestsCountedOnce
<1> DEFINE CInv == CountersOK /\ \A r \in Requests : LabelOK(r)
<1>1. Init => CInv
  <2> SUFFICES ASSUME Init PROVE CInv OBVIOUS
  <2>1. Emitted = {} /\ \A k \in MetricKeys : EmittedAs(k) = {}
    BY NoKeyIsNoKey DEF Init, Emitted, EmittedAs
  <2>2. Cardinality(Emitted) = 0 /\ \A k \in MetricKeys : Cardinality(EmittedAs(k)) = 0
    BY <2>1, FS_EmptySet
  <2>3. seriesCount = 0 /\ \A k \in MetricKeys : requestsTotal[k] = 0 BY DEF Init
  <2>4. CountersOK BY <2>2, <2>3 DEF CountersOK
  <2>5. \A r \in Requests : LabelOK(r) BY DEF Init, LabelOK, Counted
  <2> QED BY <2>4, <2>5
<1>2. IInv /\ CInv /\ [Next]_vars => CInv'
  <2> SUFFICES ASSUME IInv, CInv, [Next]_vars PROVE CInv' OBVIOUS
  <2>0. TypeOK /\ \A r \in Requests : ChargeProgress(r) /\ LabelOK(r) BY DEF IInv
  <2>1. CASE \E r \in Requests : StepOf(r)
    <3> PICK r \in Requests : StepOf(r) BY <2>1
    <3>1. CountersOK' BY <2>0, CountersStep
    <3>2. ASSUME NEW q \in Requests PROVE LabelOK(q)'
      <4>1. CASE q = r BY <2>0, <4>1, LabelStep
      <4>2. CASE q # r
        <5>1. emitted'[q] = emitted[q] BY <2>0, <4>2, InputFootprint
        <5>2. pc'[q] = pc[q] /\ status'[q] = status[q]
          BY <2>0, <4>2, OthersUntouched DEF StepOf
        <5> QED BY <2>0, <5>1, <5>2 DEF LabelOK
      <4> QED BY <4>1, <4>2
    <3> QED BY <3>1, <3>2
  <2>2. CASE UNCHANGED vars
    <3> USE <2>2 DEF vars, reqVars, metricVars
    <3>1. CountersOK' BY DEF CountersOK, Emitted, EmittedAs
    <3>2. \A q \in Requests : LabelOK(q)' BY <2>0 DEF LabelOK
    <3> QED BY <3>1, <3>2
  <2> QED BY <2>1, <2>2 DEF Next, StepOf
<1>3. IInv /\ CInv => RequestsCountedOnce
  <2> SUFFICES ASSUME IInv, CInv PROVE RequestsCountedOnce OBVIOUS
  <2>1. \A r \in Requests :
          /\ emitted[r] # NoKey <=> pc[r] \in {"release", "relLen", "relSet", "done"}
          /\ emitted[r] # NoKey /\ status[r] \in Success => emitted[r][2] \in {"2xx", "canceled"}
    BY DEF LabelOK, Counted
  <2>2. seriesCount \in Nat BY DEF IInv, TypeOK
  <2>3. ASSUME NEW k \in MetricKeys, requestsTotal[k] < Cardinality(EmittedAs(k))
        PROVE  MaxSeries > 0 /\ Cardinality(Emitted) > MaxSeries
    BY <2>2, <2>3, CapNatural, EmittedCounts DEF CountersOK
  <2>4. \A k \in MetricKeys : requestsTotal[k] <= Cardinality(EmittedAs(k)) BY DEF CountersOK
  <2> QED BY <2>1, <2>3, <2>4 DEF RequestsCountedOnce
<1> HIDE DEF CInv
<1> QED BY <1>1, <1>2, <1>3, Invariance, PTL DEF Spec

-----------------------------------------------------------------------------
(***************************************************************************)
(* Revenue.  The counter AddWorkUnits goes up once per request, by the     *)
(* usage of a Serve that returned no error: it is the sum of the requests' *)
(* shares.  A request's share is covered by its debits unless a reconcile  *)
(* is still due or has failed.                                             *)
(***************************************************************************)
ShareOf(r) == IF "serve" \in warned[r] THEN 0 ELSE act[r]
Shares == [r \in Requests |-> ShareOf(r)]

Covered(r) == ShareOf(r) <= paid[r] \/ "reconcile" \in warned[r] \/ pc[r] = "reconcile"

LEMMA SharesNatural ==
  ASSUME TypeOK
  PROVE  Shares \in [Requests -> Int] /\ \A r \in Requests : ShareOf(r) \in Nat
<1>1. \A r \in Requests : ShareOf(r) \in Nat BY DEF TypeOK, ShareOf
<1>2. \A r \in Requests : ShareOf(r) \in Int BY <1>1
<1> HIDE DEF ShareOf
<1> QED BY <1>1, <1>2 DEF Shares

LEMMA SharesNaturalNext ==
  ASSUME TypeOK'
  PROVE  Shares' \in [Requests -> Int] /\ \A r \in Requests : ShareOf(r)' \in Nat
<1>1. \A r \in Requests : ShareOf(r)' \in Nat BY DEF TypeOK, ShareOf
<1>2. \A r \in Requests : ShareOf(r)' \in Int BY <1>1
<1> HIDE DEF ShareOf
<1> QED BY <1>1, <1>2 DEF Shares

\* Only Serve changes a request's usage, or logs its error.
LEMMA SharesKept ==
  ASSUME TypeOK, NEW r \in Requests, StepOf(r), ~ServeOK(r), ~ServeError(r)
  PROVE  /\ workUnits' = workUnits /\ act' = act
         /\ "serve" \in warned'[r] <=> "serve" \in warned[r]
<1> USE DEF TypeOK, metricVars
<1>1. CASE Arrive(r) BY <1>1 DEF Arrive
<1>2. CASE Cancel(r) BY <1>2 DEF Cancel
<1>3. CASE AcquireSlot(r) BY <1>3 DEF AcquireSlot
<1>4. CASE RejectAtCapacity(r) BY <1>4 DEF RejectAtCapacity
<1>5. CASE ReadLen(r) BY <1>5 DEF ReadLen
<1>6. CASE SetInflightRequests(r) BY <1>6 DEF SetInflightRequests
<1>7. CASE ReadBody(r) BY <1>7 DEF ReadBody
<1>8. CASE ReadPaymentHeader(r) BY <1>8 DEF ReadPaymentHeader
<1>9. CASE ResolveRoute(r) BY <1>9 DEF ResolveRoute
<1>10. CASE OpenSession(r) BY <1>10 DEF OpenSession
<1>11. CASE ProcessPayment(r) BY <1>11 DEF ProcessPayment
<1>12. CASE EstimateWorkUnits(r) BY <1>12 DEF EstimateWorkUnits
<1>13. CASE DebitBalance(r) BY <1>13 DEF DebitBalance
<1>14. CASE Reconcile(r) BY <1>14 DEF Reconcile
<1>15. CASE CloseSession(r) BY <1>15 DEF CloseSession
<1>16. CASE EmitRequestMetrics(r) BY <1>16 DEF EmitRequestMetrics
<1>17. CASE ReleaseSlot(r) BY <1>17 DEF ReleaseSlot
<1> QED
  BY <1>1, <1>2, <1>3, <1>4, <1>5, <1>6, <1>7, <1>8, <1>9, <1>10, <1>11, <1>12, <1>13,
     <1>14, <1>15, <1>16, <1>17 DEF StepOf, Handle

\* The counter stays the sum of the shares.
LEMMA RevenueStep ==
  ASSUME TypeOK, TypeOK', NEW r \in Requests, StepOf(r), ChargeProgress(r),
         workUnits = SumFunction(Shares)
  PROVE  (workUnits = SumFunction(Shares))'
<1>0. \A q \in Requests \ {r} : ShareOf(q)' = ShareOf(q)
  BY OthersUntouched DEF StepOf, ShareOf
<1>1. CASE ServeOK(r)
  <2>1. PICK u \in Usages : act' = [act EXCEPT ![r] = u] /\ workUnits' = workUnits + u
                            /\ warned' = warned /\ pc[r] = "serve"
    BY <1>1 DEF ServeOK, Goto
  <2>2. warned[r] = {} /\ act[r] = 0 BY <2>1 DEF ChargeProgress, Serving
  <2>3. ShareOf(r) = 0 /\ ShareOf(r)' = u BY <2>1, <2>2 DEF ShareOf, TypeOK
  <2>4. Shares \in [Requests -> Int] /\ Shares' \in [Requests -> Int]
    BY SharesNatural, SharesNaturalNext
  <2>5. /\ Shares[r] = 0 /\ Shares'[r] = u
        /\ \A q \in Requests \ {r} : Shares'[q] = Shares[q]
    BY <1>0, <2>3 DEF Shares
  <2>6. SumFunction(Shares') = SumFunction(Shares) + (Shares'[r] - Shares[r])
    BY <2>4, <2>5, RequestsFinite, SumUpdate
  <2>7. u \in Nat /\ workUnits \in Nat BY MeteringDomains DEF TypeOK
  <2> QED BY <2>1, <2>5, <2>6, <2>7
<1>2. CASE ServeError(r)
  <2>1. pc[r] = "serve" /\ workUnits' = workUnits /\ "serve" \in warned'[r]
    BY <1>2 DEF ServeError, Goto, metricVars, TypeOK
  <2>2. warned[r] = {} /\ act[r] = 0 BY <2>1 DEF ChargeProgress, Serving
  <2>3. ShareOf(r) = 0 /\ ShareOf(r)' = 0 BY <2>1, <2>2 DEF ShareOf
  <2>4. Shares' = Shares BY <1>0, <2>3 DEF Shares
  <2> QED BY <2>1, <2>4
<1>3. CASE ~ServeOK(r) /\ ~ServeError(r)
  <2>1. workUnits' = workUnits /\ ShareOf(r)' = ShareOf(r) BY <1>3, SharesKept DEF ShareOf
  <2>2. Shares' = Shares BY <1>0, <2>1 DEF Shares
  <2> QED BY <2>1, <2>2
<1> QED BY <1>1, <1>2, <1>3

\* r's debits keep covering its share.
LEMMA CoveredStep ==
  ASSUME TypeOK, TypeOK', NEW r \in Requests, StepOf(r), ChargeProgress(r), ChargeProgress(r)',
         Covered(r), InputsKnown
  PROVE  Covered(r)'
<1> USE DEF Covered, Goto
<1>0. ShareOf(r) \in Nat /\ ShareOf(r)' \in Nat /\ paid[r] \in Nat /\ paid'[r] \in Nat
  BY SharesNatural, SharesNaturalNext DEF TypeOK
<1>1. CASE ServeOK(r)
  <2>1. PICK u \in Usages : /\ act' = [act EXCEPT ![r] = u] /\ warned' = warned /\ pc[r] = "serve"
                            /\ paid' = paid
                            /\ pc'[r] = IF u > est[r] THEN "reconcile" ELSE "close"
    <3>1. PICK u \in Usages : /\ Goto(r, "serve", IF u > est[r] THEN "reconcile" ELSE "close")
                              /\ act' = [act EXCEPT ![r] = u] /\ warned' = warned /\ paid' = paid
      BY <1>1 DEF ServeOK, histVars
    <3> QED BY <3>1 DEF Goto, TypeOK
  <2>2. paid[r] = est[r] /\ warned[r] = {} BY <2>1 DEF ChargeProgress, Serving
  <2>3. ShareOf(r)' = u BY <2>1, <2>2 DEF ShareOf, TypeOK
  <2>4. u \in Nat BY MeteringDomains
  <2> QED BY <1>0, <2>1, <2>2, <2>3, <2>4
<1>2. CASE ServeError(r)
  <2>1. "serve" \in warned'[r] BY <1>2 DEF ServeError, TypeOK
  <2> QED BY <1>0, <2>1 DEF ShareOf
<1>3. CASE Reconcile(r)
  <2>1. /\ pc[r] = "reconcile" /\ act' = act /\ act[r] > est[r]
    BY <1>3 DEF Reconcile, InputsKnown
  <2>2. paid[r] = est[r] /\ warned[r] = {} BY <2>1 DEF ChargeProgress, Serving
  <2>3. CASE "reconcile" \in warned'[r] BY <2>3
  <2>4. CASE "reconcile" \notin warned'[r]
    <3>1. paid'[r] = paid[r] + (act[r] - est[r]) /\ warned' = warned
      BY <1>3, <2>4 DEF Reconcile, DebitDelta, TypeOK
    <3>2. act[r] \in Nat /\ est[r] \in Nat BY DEF TypeOK
    <3>3. ShareOf(r)' = act[r] BY <2>1, <2>2, <3>1 DEF ShareOf
    <3> QED BY <1>0, <2>2, <3>1, <3>2, <3>3
  <2> QED BY <2>3, <2>4
<1>4. CASE DebitBalance(r)
  <2>1. pc[r] = "debit" /\ act' = act BY <1>4 DEF DebitBalance
  <2>2. act[r] = 0 BY <2>1 DEF ChargeProgress, Funded
  <2> QED BY <1>0, <2>1, <2>2 DEF ShareOf
<1>5. CASE ~ServeOK(r) /\ ~ServeError(r) /\ ~Reconcile(r) /\ ~DebitBalance(r)
  <2>1. ShareOf(r)' = ShareOf(r) BY <1>5, SharesKept DEF ShareOf
  <2>2. paid' = paid
    BY <1>5 DEF StepOf, Handle, Arrive, Cancel, AcquireSlot, RejectAtCapacity, ReadLen,
       SetInflightRequests, ReadBody, ReadPaymentHeader, ResolveRoute, OpenSession, ProcessPayment,
       EstimateWorkUnits, CloseSession, EmitRequestMetrics, ReleaseSlot, histVars
  <2>3. "reconcile" \in warned[r] => "reconcile" \in warned'[r] BY OwnStep
  <2>4. pc[r] = "reconcile" => pc'[r] = "reconcile"
    BY <1>5 DEF StepOf, Handle, Arrive, Cancel, AcquireSlot, RejectAtCapacity, ReadLen,
       SetInflightRequests, ReadBody, ReadPaymentHeader, ResolveRoute, OpenSession, ProcessPayment,
       EstimateWorkUnits, CloseSession, EmitRequestMetrics, ReleaseSlot
  <2> QED BY <2>1, <2>2, <2>3, <2>4
<1> QED BY <1>1, <1>2, <1>3, <1>4, <1>5

\* Once all requests are done and no reconcile failed, AddWorkUnits has
\* counted no unit that the daemon was not asked to debit, however many
\* handlers ran at once and whatever of theirs failed before.
THEOREM RevenueIsBacked == Spec => []RevenueBacked
<1> DEFINE RInv == workUnits = SumFunction(Shares) /\ \A r \in Requests : Covered(r)
<1>1. Init => RInv
  <2> SUFFICES ASSUME Init PROVE RInv OBVIOUS
  <2>1. TypeOK BY InitIInv DEF IInv
  <2>2. \A r \in Requests : ShareOf(r) = 0 BY DEF Init, ShareOf
  <2>3. Shares \in [Requests -> Int] /\ \A r \in Requests : Shares[r] = 0
    BY <2>1, <2>2, SharesNatural DEF Shares
  <2>4. SumFunction(Shares) = 0 BY <2>3, RequestsFinite, SumOfZeros
  <2>5. \A r \in Requests : Covered(r) BY <2>2 DEF Init, Covered
  <2> QED BY <2>4, <2>5 DEF Init
<1>2. IInv /\ IInv' /\ RInv /\ [Next]_vars => RInv'
  <2> SUFFICES ASSUME IInv, IInv', RInv, [Next]_vars PROVE RInv' OBVIOUS
  <2>0. TypeOK /\ TypeOK' /\ InputsKnown
        /\ \A r \in Requests : ChargeProgress(r) /\ ChargeProgress(r)' /\ Covered(r)
    BY DEF IInv
  <2>1. CASE \E r \in Requests : StepOf(r)
    <3> PICK r \in Requests : StepOf(r) BY <2>1
    <3>1. (workUnits = SumFunction(Shares))' BY <2>0, RevenueStep
    <3>2. ASSUME NEW q \in Requests PROVE Covered(q)'
      <4>1. CASE q = r BY <2>0, <4>1, CoveredStep
      <4>2. CASE q # r
        <5>1. /\ pc'[q] = pc[q] /\ act'[q] = act[q] /\ warned'[q] = warned[q]
              /\ paid'[q] = paid[q]
          BY <2>0, <4>2, OthersUntouched DEF StepOf
        <5> QED BY <2>0, <5>1 DEF Covered, ShareOf
      <4> QED BY <4>1, <4>2
    <3> QED BY <3>1, <3>2
  <2>2. CASE UNCHANGED vars
    <3> USE <2>2 DEF vars, reqVars, metricVars, histVars
    <3>1. Shares' = Shares BY DEF Shares, ShareOf
    <3>2. \A q \in Requests : Covered(q)' BY <2>0 DEF Covered, ShareOf
    <3> QED BY <3>1, <3>2
  <2> QED BY <2>1, <2>2 DEF Next, StepOf
<1>3. IInv /\ RInv => RevenueBacked
  <2> SUFFICES ASSUME IInv, RInv, AllDone, \A r \in Requests : "reconcile" \notin warned[r]
               PROVE  workUnits <= SumFunction(paid)
    BY DEF RevenueBacked
  <2>1. TypeOK BY DEF IInv
  <2>2. \A r \in Requests : Shares[r] <= paid[r] BY DEF Covered, AllDone, Shares
  <2>3. Shares \in [Requests -> Int] /\ paid \in [Requests -> Int]
    BY <2>1, SharesNatural DEF TypeOK
  <2>4. PICK g : IsSum(g, Shares, Requests) /\ SumFunction(Shares) = g[Requests]
    BY <2>3, RequestsFinite, SumFunctionIsSum
  <2>5. PICK h : IsSum(h, paid, Requests) /\ SumFunction(paid) = h[Requests]
    BY <2>3, RequestsFinite, SumFunctionIsSum
  <2>6. g[Requests] <= h[Requests]
    BY <2>2, <2>3, <2>4, <2>5, RequestsFinite, SumMonotone
  <2> QED BY <2>4, <2>5, <2>6
<1> HIDE DEF RInv
<1> QED BY <1>1, <1>2, <1>3, Invariance, PTL DEF Spec
=============================================================================
