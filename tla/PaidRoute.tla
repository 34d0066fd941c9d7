------------------------------ MODULE PaidRoute ------------------------------
(***************************************************************************)
(* paymentMiddleware (internal/runtime/http/middleware.go): the handler    *)
(* every paid HTTP route runs through.  Each request is one goroutine that *)
(* takes a semaphore slot, validates, opens a payee session, has the       *)
(* payment credited, debits an estimate, serves, reconciles, and on the    *)
(* way out runs its deferred functions: CloseSession, request metrics,     *)
(* slot release.  Goroutines interleave at every step that touches state   *)
(* they share: the semaphore, the in-flight gauge, the metrics and the     *)
(* payee daemon's ledger.                                                  *)
(***************************************************************************)
EXTENDS PayeeDaemon, FiniteSets, Functions

CONSTANTS
  Requests,        \* paid HTTP requests, one handler goroutine each
  MaxConcurrent,   \* worker.max_concurrent_requests: capacity of paidSem
  Models,          \* model names a request body may carry
  Price,           \* route map: offered model -> price_per_work_unit_wei
  Credits,         \* wei a payment may be worth to the daemon
  Estimates,       \* what EstimateWorkUnits may return
  Usages,          \* actual units Serve may return
  BackendStatuses, \* statuses a backend may answer with
  MaxSeries,       \* max_series_per_metric; 0 disables the cap
  SignedBalance,   \* does the payeedaemon.Client keep a balance's sign?
  RPCFaults        \* may calls to the daemon fail while the context is live?

None == "none"           \* no payment read yet
Unset == "_unset_"
Outcomes == {"2xx", "402", "4xx", "5xx", "canceled"}
Statuses == {0, 400, 402, 404, 502, 503} \cup BackendStatuses
Offered == DOMAIN Price

ASSUME RequestsFinite == IsFiniteSet(Requests)
\* NewMux replaces a configured maximum <= 0 by 1.
ASSUME CapacityPositive == MaxConcurrent \in Nat \ {0}
\* parse.go's validateOffering admits only prices that parse and are > 0.
ASSUME PricePositive == Offered \subseteq Models /\ Price \in [Offered -> Nat \ {0}]
ASSUME MeteringDomains ==
  Credits \subseteq Nat /\ Estimates \subseteq Int /\ Usages \subseteq Nat
ASSUME FinalStatuses == BackendStatuses \subseteq 200..999
ASSUME CapNatural == MaxSeries \in Nat
ASSUME ClientKind == SignedBalance \in BOOLEAN /\ RPCFaults \in BOOLEAN
ASSUME LabelIsNoModel == Unset \notin Models
ASSUME NoneIsNoBlob == None \notin Blobs

VARIABLES
  pc,                  \* where each handler is
  cancelled,           \* has the request context been cancelled?
  blob, model,         \* decoded payment bytes, extracted model
  status,              \* statusWriter.status; 0 until a header is written
  est, act,            \* estimate and actual work units
  accepted,            \* did ProcessPayment return without an error?
  warned,              \* errors that were only logged: serve, reconcile, close
  sem, gauge, seenLen, \* len(paidSem), inflight gauge, len read but not yet set
  emitted,             \* the labels of each handler's IncRequest call
  requestsTotal,       \* livepeer_worker_requests_total by labels
  seriesCount,         \* the count of that metric's capVec
  paymentRejections, capacityRejections, \* Inc calls of the other counters
  workUnits,           \* sum of the AddWorkUnits calls
  paid,                \* history: units the daemon debited for the request
  drawn                \* history: daemon balance right after the first debit

reqVars == <<pc, cancelled, blob, model, status, est, act, accepted, warned>>
gateVars == <<sem, gauge, seenLen>>
metricVars == <<emitted, requestsTotal, seriesCount, paymentRejections, capacityRejections,
                workUnits>>
histVars == <<paid, drawn>>
vars == <<reqVars, gateVars, metricVars, histVars, dvars>>

(***************************************************************************)
(* Program points.  Holding is the part of the handler between the send    *)
(* on the semaphore channel and the receive in its deferred release.       *)
(***************************************************************************)
Entering == {"acqLen", "acqSet", "body", "header", "route"}
Charging == {"open", "pay", "estimate", "debit"}
Serving  == {"serve", "reconcile"}
Leaving  == {"close", "metrics", "release"}
Holding  == Entering \cup Charging \cup Serving \cup Leaving
Points   == Holding \cup {"idle", "gate", "relLen", "relSet", "done"}

NoKey == <<None, None>>
MetricKeys == (Models \cup {Unset}) \X Outcomes

TypeOK ==
  /\ pc \in [Requests -> Points]
  /\ cancelled \in [Requests -> BOOLEAN]
  /\ blob \in [Requests -> Blobs \cup {None}]
  /\ model \in [Requests -> Models \cup {Unset}]
  /\ status \in [Requests -> Statuses]
  /\ est \in [Requests -> Nat]
  /\ act \in [Requests -> Nat]
  /\ accepted \in [Requests -> BOOLEAN]
  /\ warned \in [Requests -> SUBSET {"serve", "reconcile", "close"}]
  /\ sem \in Nat
  /\ gauge \in Nat
  /\ seenLen \in [Requests -> Nat]
  /\ emitted \in [Requests -> MetricKeys \cup {NoKey}]
  /\ requestsTotal \in [MetricKeys -> Nat]
  /\ seriesCount \in Nat
  /\ paymentRejections \in Nat
  /\ capacityRejections \in Nat
  /\ workUnits \in Nat
  /\ paid \in [Requests -> Nat]
  /\ drawn \in [Requests -> Int]
  /\ DaemonTypeOK

Init ==
  /\ pc = [r \in Requests |-> "idle"]
  /\ cancelled = [r \in Requests |-> FALSE]
  /\ blob = [r \in Requests |-> None]
  /\ model = [r \in Requests |-> Unset]
  /\ status = [r \in Requests |-> 0]
  /\ est = [r \in Requests |-> 0]
  /\ act = [r \in Requests |-> 0]
  /\ accepted = [r \in Requests |-> FALSE]
  /\ warned = [r \in Requests |-> {}]
  /\ sem = 0 /\ gauge = 0
  /\ seenLen = [r \in Requests |-> 0]
  /\ emitted = [r \in Requests |-> NoKey]
  /\ requestsTotal = [k \in MetricKeys |-> 0]
  /\ seriesCount = 0
  /\ paymentRejections = 0 /\ capacityRejections = 0 /\ workUnits = 0
  /\ paid = [r \in Requests |-> 0]
  /\ drawn = [r \in Requests |-> 0]
  /\ DaemonInit

-----------------------------------------------------------------------------
(***************************************************************************)
(* Building blocks.                                                        *)
(***************************************************************************)
Goto(r, from, to) == pc[r] = from /\ pc' = [pc EXCEPT ![r] = to]

\* statusWriter: the first status written is the one that counts.
Respond(r, s) == status' = [status EXCEPT ![r] = IF @ = 0 THEN s ELSE @]

\* capVec.allow and the increment it allows, in one step.  Handlers race inside
\* allow (CapVec has its single accesses), so a new tuple may still get in when
\* the count has reached the cap, one tuple may be counted as new twice, and an
\* update may be dropped although its tuple was registered meanwhile.
CapVecInc(k) ==
  \/ /\ requestsTotal' = [requestsTotal EXCEPT ![k] = @ + 1]
     /\ \/ (MaxSeries = 0 \/ requestsTotal[k] > 0) /\ UNCHANGED seriesCount
        \/ MaxSeries > 0 /\ seriesCount' = seriesCount + 1
  \/ /\ MaxSeries > 0 /\ seriesCount >= MaxSeries
     /\ UNCHANGED <<requestsTotal, seriesCount>>

\* rec.IncRequest with the given labels.
IncRequest(r, label, outcome) ==
  /\ emitted' = [emitted EXCEPT ![r] = <<label, outcome>>]
  /\ CapVecInc(<<label, outcome>>)

classifyOutcome(ctxErr, s) ==
  IF ctxErr THEN "canceled"
  ELSE IF s \in 200..299 THEN "2xx"
  ELSE IF s = 402 THEN "402"
  ELSE IF s \in 400..499 THEN "4xx"
  ELSE "5xx"

work(r) == deriveWorkID(blob[r])

\* An RPC on the session of r may return an error: the transport failed, the
\* request context is gone, or the daemon no longer knows the session.
MayFail(r) == RPCFaults \/ cancelled[r] \/ sess[work(r)] = "absent"

\* Mutated form: every client drops the sign.
BalanceWei_Magnitude(b) == IF b >= 0 THEN b ELSE -b

\* grpc.go DebitBalance decodes the balance with big.Int.SetBytes, which reads
\* an unsigned magnitude; the Fake client of the tests keeps the sign.
BalanceWei(b) == IF SignedBalance \/ b >= 0 THEN b ELSE -b

-----------------------------------------------------------------------------
(***************************************************************************)
(* Arrival, the concurrency gate and the in-flight gauge.                  *)
(***************************************************************************)
Arrive(r) ==
  /\ Goto(r, "idle", "gate")
  /\ UNCHANGED <<cancelled, blob, model, status, est, act, accepted, warned,
                 gateVars, metricVars, histVars, dvars>>

\* The client goes away.  The server notices once the body has been read.
Cancel(r) ==
  /\ pc[r] \in {"header", "route", "close", "metrics"} \cup Charging \cup Serving
  /\ ~cancelled[r]
  /\ cancelled' = [cancelled EXCEPT ![r] = TRUE]
  /\ UNCHANGED <<pc, blob, model, status, est, act, accepted, warned,
                 gateVars, metricVars, histVars, dvars>>

AcquireSlot(r) ==
  /\ Goto(r, "gate", "acqLen")
  /\ sem < MaxConcurrent
  /\ sem' = sem + 1
  /\ UNCHANGED <<cancelled, blob, model, status, est, act, accepted, warned,
                 gauge, seenLen, metricVars, histVars, dvars>>

\* Mutated form: the 503 is written but IncRequest is forgotten.
RejectAtCapacity_Uncounted(r) ==
  /\ Goto(r, "gate", "done")
  /\ sem >= MaxConcurrent
  /\ capacityRejections' = capacityRejections + 1
  /\ Respond(r, 503)
  /\ UNCHANGED <<cancelled, blob, model, est, act, accepted, warned, gateVars,
                 emitted, requestsTotal, seriesCount, paymentRejections, workUnits,
                 histVars, dvars>>

\* No free slot: 503 at once, counted before the metrics defer is installed.
RejectAtCapacity(r) ==
  /\ Goto(r, "gate", "done")
  /\ sem >= MaxConcurrent
  /\ capacityRejections' = capacityRejections + 1
  /\ Respond(r, 503)
  /\ IncRequest(r, Unset, "5xx")
  /\ UNCHANGED <<cancelled, blob, model, est, act, accepted, warned, gateVars,
                 paymentRejections, workUnits, histVars, dvars>>

\* SetInflightRequests(len(sem)): the argument is read first, stored later.
ReadLen(r) ==
  /\ \/ Goto(r, "acqLen", "acqSet")
     \/ Goto(r, "relLen", "relSet")
  /\ seenLen' = [seenLen EXCEPT ![r] = sem]
  /\ UNCHANGED <<cancelled, blob, model, status, est, act, accepted, warned,
                 sem, gauge, metricVars, histVars, dvars>>

SetInflightRequests(r) ==
  /\ \/ Goto(r, "acqSet", "body")
     \/ Goto(r, "relSet", "done")
  /\ gauge' = seenLen[r]
  /\ seenLen' = [seenLen EXCEPT ![r] = 0]
  /\ UNCHANGED <<cancelled, blob, model, status, est, act, accepted, warned,
                 sem, metricVars, histVars, dvars>>

-----------------------------------------------------------------------------
(***************************************************************************)
(* Steps 1 to 4: body, payment header, model and route.                    *)
(***************************************************************************)
\* Mutated form: a body error returns before the release is deferred.
ReadBody_LeaksSlot(r) ==
  /\ \/ Goto(r, "body", "header") /\ UNCHANGED status
     \/ Goto(r, "body", "done") /\ Respond(r, 400)
  /\ UNCHANGED <<cancelled, blob, model, est, act, accepted, warned,
                 gateVars, metricVars, histVars, dvars>>

ReadBody(r) ==
  /\ \/ Goto(r, "body", "header") /\ UNCHANGED status
     \/ Goto(r, "body", "metrics") /\ Respond(r, 400)
  /\ UNCHANGED <<cancelled, blob, model, est, act, accepted, warned,
                 gateVars, metricVars, histVars, dvars>>

ReadPaymentHeader(r) ==
  /\ \/ /\ Goto(r, "header", "route")
        /\ \E b \in Blobs : blob' = [blob EXCEPT ![r] = b]
        /\ UNCHANGED <<status, paymentRejections>>
     \/ /\ Goto(r, "header", "metrics")   \* missing, or not base64
        /\ paymentRejections' = paymentRejections + 1
        /\ Respond(r, 402)
        /\ UNCHANGED blob
  /\ UNCHANGED <<cancelled, model, est, act, accepted, warned, gateVars, emitted,
                 requestsTotal, seriesCount, capacityRejections, workUnits, histVars, dvars>>

\* The metrics label is the model as extracted, offered or not.
ResolveRoute(r) ==
  /\ \/ \E m \in Models :
          /\ model' = [model EXCEPT ![r] = m]
          /\ \/ m \in Offered /\ Goto(r, "route", "open") /\ UNCHANGED status
             \/ m \notin Offered /\ Goto(r, "route", "metrics") /\ Respond(r, 404)
     \/ Goto(r, "route", "metrics") /\ Respond(r, 400) /\ UNCHANGED model
  /\ UNCHANGED <<cancelled, blob, est, act, accepted, warned,
                 gateVars, metricVars, histVars, dvars>>

-----------------------------------------------------------------------------
(***************************************************************************)
(* Steps 5 to 8: the payee calls before any work is done.  A call returns  *)
(* without an error only if the context is live and the daemon applied it; *)
(* an error leaves open whether it was applied (a lost reply).             *)
(***************************************************************************)

\* The route's price parses: validateOffering has seen to it (Catalog).
OpenSession(r) ==
  /\ \/ /\ Goto(r, "open", "pay")
        /\ ~cancelled[r]
        /\ DaemonOpen(work(r), Price[model[r]])
        /\ UNCHANGED status
     \/ /\ Goto(r, "open", "metrics")
        /\ RPCFaults \/ cancelled[r]
        /\ DaemonOpen(work(r), Price[model[r]]) \/ UNCHANGED dvars
        /\ Respond(r, 502)
  /\ UNCHANGED <<cancelled, blob, model, est, act, accepted, warned,
                 gateVars, metricVars, histVars>>

\* Mutated form: a ProcessPayment error is logged and the request served.
ProcessPayment_FailOpen(r) ==
  /\ \/ /\ Goto(r, "pay", "estimate")
        /\ ~cancelled[r]
        /\ \E c \in Credits : DaemonProcess(work(r), c)
        /\ accepted' = [accepted EXCEPT ![r] = TRUE]
     \/ Goto(r, "pay", "serve") /\ UNCHANGED <<dvars, accepted>>
  /\ UNCHANGED <<cancelled, blob, model, status, est, act, warned, gateVars,
                 metricVars, histVars>>

\* A rejected payment leaves the session open: nothing closes it.
ProcessPayment(r) ==
  /\ \/ /\ Goto(r, "pay", "estimate")
        /\ ~cancelled[r]
        /\ \E c \in Credits : DaemonProcess(work(r), c)
        /\ accepted' = [accepted EXCEPT ![r] = TRUE]
        /\ UNCHANGED <<status, paymentRejections>>
     \/ /\ Goto(r, "pay", "metrics")
        /\ (\E c \in Credits : DaemonProcess(work(r), c)) \/ UNCHANGED dvars
        /\ paymentRejections' = paymentRejections + 1
        /\ Respond(r, 402)
        /\ UNCHANGED accepted
  /\ UNCHANGED <<cancelled, blob, model, est, act, warned, gateVars, emitted,
                 requestsTotal, seriesCount, capacityRejections, workUnits, histVars>>

\* Mutated form: the estimate is not clamped.
EstimateWorkUnits_NoClamp(r) ==
  /\ Goto(r, "estimate", "debit")
  /\ \E e \in Estimates : est' = [est EXCEPT ![r] = e]
  /\ UNCHANGED <<cancelled, blob, model, status, act, accepted, warned,
                 gateVars, metricVars, histVars, dvars>>

\* Mutated form: the estimate error returns before CloseSession is deferred.
EstimateWorkUnits_SkipsClose(r) ==
  /\ \/ /\ Goto(r, "estimate", "debit")
        /\ \E e \in Estimates : est' = [est EXCEPT ![r] = IF e < 0 THEN 0 ELSE e]
        /\ UNCHANGED status
     \/ Goto(r, "estimate", "metrics") /\ Respond(r, 400) /\ UNCHANGED est
  /\ UNCHANGED <<cancelled, blob, model, act, accepted, warned,
                 gateVars, metricVars, histVars, dvars>>

EstimateWorkUnits(r) ==
  /\ \/ /\ Goto(r, "estimate", "debit")
        /\ \E e \in Estimates : est' = [est EXCEPT ![r] = IF e < 0 THEN 0 ELSE e]
        /\ UNCHANGED status
     \/ /\ Goto(r, "estimate", "close")
        /\ Respond(r, 400)
        /\ UNCHANGED est
  /\ UNCHANGED <<cancelled, blob, model, act, accepted, warned,
                 gateVars, metricVars, histVars, dvars>>

\* Debit the estimate on the daemon and remember it in the history variables.
DebitUpfront(r) ==
  /\ DaemonDebit(work(r), est[r])
  /\ paid' = [paid EXCEPT ![r] = @ + est[r]]
  /\ drawn' = [drawn EXCEPT ![r] = bal'[work(r)]]

\* Mutated form: a DebitBalance error does not stop the request.
DebitBalance_FailOpen(r) ==
  /\ Goto(r, "debit", "serve")
  /\ DebitUpfront(r) \/ UNCHANGED <<dvars, histVars>>
  /\ UNCHANGED <<cancelled, blob, model, status, est, act, accepted, warned,
                 gateVars, metricVars>>

DebitBalance(r) ==
  /\ pc[r] = "debit"
  /\ \/ /\ ~cancelled[r]
        /\ DebitUpfront(r)
        /\ \/ /\ BalanceWei(bal'[work(r)]) >= 0
              /\ Goto(r, "debit", "serve")
              /\ UNCHANGED <<status, paymentRejections>>
           \/ /\ BalanceWei(bal'[work(r)]) < 0
              /\ Goto(r, "debit", "close")
              /\ paymentRejections' = paymentRejections + 1
              /\ Respond(r, 402)
     \/ /\ Goto(r, "debit", "close")
        /\ MayFail(r)
        /\ DebitUpfront(r) \/ UNCHANGED <<dvars, histVars>>
        /\ paymentRejections' = paymentRejections + 1
        /\ Respond(r, 502)
  /\ UNCHANGED <<cancelled, blob, model, est, act, accepted, warned, gateVars,
                 emitted, requestsTotal, seriesCount, capacityRejections, workUnits>>

-----------------------------------------------------------------------------
(***************************************************************************)
(* Steps 9 and 10: serve, count the work, reconcile.                       *)
(***************************************************************************)

\* Serve without an error: a backend answer, success or not, was forwarded.
\* A reported usage below zero passes neither "actual > 0" nor "actual >
\* estimate" and so stands for zero.
ServeOK(r) ==
  \E u \in Usages, s \in BackendStatuses :
    /\ Goto(r, "serve", IF u > est[r] THEN "reconcile" ELSE "close")
    /\ Respond(r, s)
    /\ act' = [act EXCEPT ![r] = u]
    /\ workUnits' = workUnits + u
    /\ UNCHANGED <<cancelled, blob, model, est, accepted, warned, gateVars, emitted,
                   requestsTotal, seriesCount, paymentRejections, capacityRejections,
                   histVars, dvars>>

\* Mutated form: AddWorkUnits is called before Serve's error is looked at.
ServeError_CountsUnits(r) ==
  \E u \in Usages :
    /\ Goto(r, "serve", "close")
    /\ Respond(r, 200)
    /\ act' = [act EXCEPT ![r] = u]
    /\ workUnits' = workUnits + u
    /\ warned' = [warned EXCEPT ![r] = @ \cup {"serve"}]
    /\ UNCHANGED <<cancelled, blob, model, est, accepted, gateVars, emitted,
                   requestsTotal, seriesCount, paymentRejections, capacityRejections,
                   histVars, dvars>>

\* What is written and observed when Serve returns an error: its own 400 (the
\* body was not multipart) or 502 (no backend answer), or a forwarded status
\* whose stream was cut short, with the units seen until then.
ServeFailures ==
  {400, 502} \X {0} \cup BackendStatuses \X Usages

\* The handler logs the error and returns.
ServeError(r) ==
  \E f \in ServeFailures :
    /\ Goto(r, "serve", "close")
    /\ Respond(r, f[1])
    /\ act' = [act EXCEPT ![r] = f[2]]
    /\ warned' = [warned EXCEPT ![r] = @ \cup {"serve"}]
    /\ UNCHANGED <<cancelled, blob, model, est, accepted, gateVars, metricVars,
                   histVars, dvars>>

\* Mutated form: the whole usage is debited on top of the estimate.
DebitDelta_Whole(r) ==
  /\ DaemonDebit(work(r), act[r])
  /\ paid' = [paid EXCEPT ![r] = @ + act[r]]

\* The second debit takes the difference; its error is only logged.
DebitDelta(r) ==
  /\ DaemonDebit(work(r), act[r] - est[r])
  /\ paid' = [paid EXCEPT ![r] = @ + (act[r] - est[r])]

Reconcile(r) ==
  /\ Goto(r, "reconcile", "close")
  /\ \/ /\ ~cancelled[r]
        /\ DebitDelta(r)
        /\ UNCHANGED warned
     \/ /\ MayFail(r)
        /\ DebitDelta(r) \/ UNCHANGED <<dvars, paid>>
        /\ warned' = [warned EXCEPT ![r] = @ \cup {"reconcile"}]
  /\ UNCHANGED <<cancelled, blob, model, status, est, act, accepted,
                 gateVars, metricVars, drawn>>

-----------------------------------------------------------------------------
(***************************************************************************)
(* The deferred functions, last in first out.                              *)
(***************************************************************************)

\* Mutated form: CloseSession is retried until it succeeds.
CloseSession_Retries(r) ==
  /\ \/ /\ ~cancelled[r]
        /\ Goto(r, "close", "metrics")
        /\ DaemonClose(work(r))
     \/ /\ cancelled[r]
        /\ Goto(r, "close", "close")
        /\ UNCHANGED dvars
  /\ UNCHANGED <<cancelled, blob, model, status, est, act, accepted, warned,
                 gateVars, metricVars, histVars>>

\* CloseSession runs on the request's own context.
CloseSession(r) ==
  /\ Goto(r, "close", "metrics")
  /\ \/ ~cancelled[r] /\ DaemonClose(work(r)) /\ UNCHANGED warned
     \/ /\ RPCFaults \/ cancelled[r]
        /\ DaemonClose(work(r)) \/ UNCHANGED dvars
        /\ warned' = [warned EXCEPT ![r] = @ \cup {"close"}]
  /\ UNCHANGED <<cancelled, blob, model, status, est, act, accepted,
                 gateVars, metricVars, histVars>>

EmitRequestMetrics(r) ==
  /\ Goto(r, "metrics", "release")
  /\ IncRequest(r, model[r], classifyOutcome(cancelled[r], status[r]))
  /\ UNCHANGED <<cancelled, blob, model, status, est, act, accepted, warned, gateVars,
                 paymentRejections, capacityRejections, workUnits, histVars, dvars>>

ReleaseSlot(r) ==
  /\ Goto(r, "release", "relLen")
  /\ sem' = sem - 1
  /\ UNCHANGED <<cancelled, blob, model, status, est, act, accepted, warned,
                 gauge, seenLen, metricVars, histVars, dvars>>

-----------------------------------------------------------------------------
Handle(r) ==
  \/ AcquireSlot(r) \/ RejectAtCapacity(r) \/ ReadLen(r) \/ SetInflightRequests(r)
  \/ ReadBody(r) \/ ReadPaymentHeader(r) \/ ResolveRoute(r)
  \/ OpenSession(r) \/ ProcessPayment(r) \/ EstimateWorkUnits(r) \/ DebitBalance(r)
  \/ ServeOK(r) \/ ServeError(r) \/ Reconcile(r)
  \/ CloseSession(r) \/ EmitRequestMetrics(r) \/ ReleaseSlot(r)

AllDone == \A r \in Requests : pc[r] = "done"

Next ==
  \/ \E r \in Requests : Arrive(r) \/ Cancel(r) \/ Handle(r)
  \/ AllDone /\ UNCHANGED vars

Spec == Init /\ [][Next]_vars

\* A started handler keeps running: the Go scheduler is fair to goroutines,
\* and calls to the daemon and the backend are assumed to return.
FairSpec == Spec /\ \A r \in Requests : WF_vars(Handle(r))

-----------------------------------------------------------------------------
(***************************************************************************)
(* Safety.                                                                 *)
(***************************************************************************)

Holders == {r \in Requests : pc[r] \in Holding}

\* The semaphore counts exactly the handlers between the send in the gate and
\* the receive in the deferred release, on every exit path, and never exceeds
\* max_concurrent_requests (middleware.go's concurrency gate).
SlotsMatchHandlers ==
  /\ sem = Cardinality(Holders)
  /\ sem <= MaxConcurrent

Success == 200..299    \* statuses the middleware itself never writes

\* r's backend work has been started, or has already been answered.
WorkStarted(r) == pc[r] \in Serving \/ act[r] > 0 \/ status[r] \in Success

\* Serve runs only for a request whose payment the daemon accepted and whose
\* whole estimate the daemon has debited: no path of the middleware skips or
\* reorders steps 6 to 9, whatever the other handlers do to the same session.
NoUnpaidWork ==
  \A r \in Requests : WorkStarted(r) => accepted[r] /\ paid[r] >= est[r]

\* A handler past its reconciliation, with neither Serve nor the second debit
\* having failed.
Settled(r) == pc[r] \in {"close", "metrics", "release", "relLen", "relSet", "done"}
              /\ status[r] \in Success /\ warned[r] \cap {"serve", "reconcile"} = {}

\* A request is never debited for more than the larger of its estimate and
\* its reported usage, and once it settles cleanly it has been debited for
\* exactly that: the estimate and the reconcile delta are each taken once.
ChargeMatchesUse ==
  \A r \in Requests :
    LET owed == IF act[r] > est[r] THEN act[r] ELSE est[r] IN
    /\ paid[r] <= owed
    /\ Settled(r) => paid[r] = owed

\* No other request carries r's payment blob.
Exclusive(r) == blob[r] # None /\ \A q \in Requests \ {r} : blob[q] # blob[r]
InSession(r) == pc[r] \in {"pay", "estimate", "debit", "serve", "reconcile", "close"}

\* From the return of OpenSession to its own CloseSession a request whose
\* payment blob nobody else sent finds its session open at its route's price.
SessionHeld ==
  \A r \in Requests :
    InSession(r) /\ Exclusive(r) =>
      sess[work(r)] = "open" /\ sprice[work(r)] = Price[model[r]]

\* A session stays open only because a handler is still using it, because its
\* payment was refused (the daemon cannot close such a session), or because
\* a CloseSession error was logged: no exit path forgets an accepted session.
NoForgottenSession ==
  \A w \in WorkIDs : sess[w] = "open" =>
    \E r \in Requests :
      /\ blob[r] # None /\ work(r) = w
      /\ InSession(r) \/ ~accepted[r] \/ "close" \in warned[r]

Emitted == {r \in Requests : emitted[r] # NoKey}
EmittedAs(k) == {r \in Requests : emitted[r] = k}

\* Every handler that passed its metrics defer, or was turned away at the gate,
\* has called IncRequest, and a response with a success status is labelled 2xx
\* unless the client was gone.  livepeer_worker_requests_total never counts a
\* call twice, and it misses one only if the cardinality cap is on and more
\* requests than it have ended: below the cap every request is in the counter
\* exactly once, under its own labels.
RequestsCountedOnce ==
  /\ \A r \in Requests :
       /\ emitted[r] # NoKey <=> pc[r] \in {"release", "relLen", "relSet", "done"}
       /\ emitted[r] # NoKey /\ status[r] \in Success => emitted[r][2] \in {"2xx", "canceled"}
  /\ \A k \in MetricKeys :
       /\ requestsTotal[k] <= Cardinality(EmittedAs(k))
       /\ requestsTotal[k] < Cardinality(EmittedAs(k)) =>
            MaxSeries > 0 /\ Cardinality(Emitted) > MaxSeries

\* The revenue signal never outruns what the daemon was asked to debit: once
\* all requests are done and no reconcile failed, the units counted by
\* AddWorkUnits are covered by the units debited.
RevenueBacked ==
  AllDone /\ (\A r \in Requests : "reconcile" \notin warned[r]) => workUnits <= SumFunction(paid)

\* A request whose estimate debit overdrew the session is refused before any
\* inference work starts (step 8's balance check).
OverdraftRefused ==
  \A r \in Requests : WorkStarted(r) => drawn[r] >= 0

(***************************************************************************)
(* Action properties.                                                      *)
(***************************************************************************)

\* No step of another handler touches the ledger entry of a request whose
\* payment blob is its own.
LedgerIsolated ==
  [][\A r \in Requests :
       InSession(r) /\ Exclusive(r) /\ pc'[r] = pc[r] =>
         /\ sess'[work(r)] = sess[work(r)]
         /\ bal'[work(r)] = bal[work(r)]
         /\ sprice'[work(r)] = sprice[work(r)]]_vars

(***************************************************************************)
(* The contract PaidWork, implemented step by step.                        *)
(***************************************************************************)
stageOf(r) ==
  IF pc[r] \in {"idle", "gate", "open", "pay"} \cup Entering THEN "new"
  ELSE IF pc[r] \in {"estimate", "debit"} THEN "funded"
  ELSE IF pc[r] = "serve" THEN "working"
  ELSE IF pc[r] = "reconcile" THEN "settling"
  ELSE "over"

Contract == INSTANCE PaidWork
              WITH stage <- [r \in Requests |-> stageOf(r)], charge <- paid

\* The middleware implements the payment contract: no handler step moves a
\* request to a later stage, or changes its charge, other than as the
\* contract allows, in whatever order the handlers run.
ImplementsContract == Contract!Spec

(***************************************************************************)
(* Liveness, when every started handler keeps running.                     *)
(***************************************************************************)

\* Every request that reaches the gate gets to the end of its handler, also
\* when it is cancelled or a call fails on the way.
HandlersFinish == \A r \in Requests : (pc[r] = "gate") ~> (pc[r] = "done")

\* Slots are not leaked: once no request is left in the handler the semaphore
\* is empty for good.
SlotsDrain == <>[](sem = 0)

(***************************************************************************)
(* What the documentation and comments say, where the code differs.        *)
(***************************************************************************)

\* A stream interrupted after a usage block was seen is still reconciled
\* against that block (docs/product-specs/chat_completions.md).
InterruptedStreamReconciled ==
  \A r \in Requests :
    pc[r] = "done" /\ status[r] \in Success /\ "reconcile" \notin warned[r] =>
      paid[r] >= act[r]

\* The session of a request whose payment was accepted is closed when its
\* handling completes (docs/product-specs/index.md).
SessionClosedAfterPayment ==
  \A r \in Requests :
    pc[r] = "done" /\ accepted[r] /\ Exclusive(r) => sess[work(r)] = "absent"

\* The in-flight gauge reports the live semaphore depth: at the latest when
\* no handler is running (metrics.Recorder's comment on SetInflightRequests).
GaugeSettles == (\A r \in Requests : pc[r] \in {"idle", "done"}) => gauge = sem
=============================================================================
