------------------------------ MODULE FakePayee ------------------------------
(***************************************************************************)
(* payeedaemon.Fake (fake.go), the client the repository's tests put in    *)
(* the daemon's place, run in lockstep with the daemon's ledger under the  *)
(* same handlers: every call a handler makes is made to both.  A call that *)
(* fails for the handler fails on the Fake through its error knob.  The    *)
(* metered client (interface.go) counts the outcome of each call.          *)
(*                                                                         *)
(* The Fake differs from the daemon by design: it binds no price to a      *)
(* session, keeps the balance when the session closes, and needs no        *)
(* session to credit or debit.  The properties say how far that goes, that *)
(* is, what a test on the Fake says about the daemon.                      *)
(***************************************************************************)
EXTENDS PaidRoute

CONSTANTS CreditPerCall, DebitWeiPerWorkUnit    \* the Fake's settings

ASSUME FakeSettings == CreditPerCall \in Nat /\ DebitWeiPerWorkUnit \in Nat

VARIABLES balances,     \* (sender, work_id) -> balance; there is one sender
          calls,        \* OpenSessionCalls, ProcessPaymentCalls, ...
          rpcs          \* labels IncDaemonRPC was called with: method, outcome

fakeVars == <<balances, calls, rpcs>>
fvars == <<vars, fakeVars>>

balanceKey(r) == work(r)

NewFake ==
  /\ balances = [w \in WorkIDs |-> 0]
  /\ calls = [open |-> 0, pay |-> 0, debit |-> 0, close |-> 0]

Methods == {"open", "pay", "debit", "close"}

WithMetrics == rpcs = {}

\* Mutated form: the outcome is never set to error.
IncDaemonRPC_AlwaysOK(op, err) == rpcs' = rpcs \cup {<<op, "ok">>}

\* meteredClient: once the call has returned its outcome is counted.  The
\* counter has fourteen label tuples at most; a cap below that drops some.
IncDaemonRPC(op, err) == rpcs' = rpcs \cup {<<op, IF err THEN "error" ELSE "ok">>}

\* Bound: a handler makes at most two calls of a kind, so the Fake's counters,
\* which stop here, lose nothing.
MaxCalls == 2 * Cardinality(Requests)

\* The counter of a call goes up whether or not its error knob is set.
Called(op) == calls' = [calls EXCEPT ![op] = IF @ < MaxCalls THEN @ + 1 ELSE @]

FakeOpenSession(r) == Called("open") /\ UNCHANGED balances

FakeProcessPayment(r, err) ==
  /\ Called("pay")
  /\ balances' = IF err THEN balances
                 ELSE [balances EXCEPT ![balanceKey(r)] = @ + CreditPerCall]

\* Mutated form: the units are taken for wei.
FakeDebitBalance_UnitsAsWei(r, units, err) ==
  /\ Called("debit")
  /\ balances' = IF err THEN balances
                 ELSE [balances EXCEPT ![balanceKey(r)] = @ - units]

FakeDebitBalance(r, units, err) ==
  /\ Called("debit")
  /\ balances' = IF err THEN balances
                 ELSE [balances EXCEPT ![balanceKey(r)] = @ - DebitWeiPerWorkUnit * units]

\* The balance stays.
FakeCloseSession(r) == Called("close") /\ UNCHANGED balances

BalanceFor(r) == balances[balanceKey(r)]

-----------------------------------------------------------------------------
\* Handler steps that call the client, and what the handler saw of the call.
OpenFailed(r) == status'[r] = 502
PayFailed(r) == ~accepted'[r]
DebitFailed(r) == status'[r] = 502
ReconcileFailed(r) == "reconcile" \in warned'[r]
CloseFailed(r) == "close" \in warned'[r]

CallStep(r) ==
  \/ OpenSession(r) /\ FakeOpenSession(r) /\ IncDaemonRPC("open", OpenFailed(r))
  \/ /\ ProcessPayment(r) /\ FakeProcessPayment(r, PayFailed(r))
     /\ IncDaemonRPC("pay", PayFailed(r))
  \/ /\ DebitBalance(r) /\ FakeDebitBalance(r, est[r], DebitFailed(r))
     /\ IncDaemonRPC("debit", DebitFailed(r))
  \/ /\ Reconcile(r) /\ FakeDebitBalance(r, act[r] - est[r], ReconcileFailed(r))
     /\ IncDaemonRPC("debit", ReconcileFailed(r))
  \/ CloseSession(r) /\ FakeCloseSession(r) /\ IncDaemonRPC("close", CloseFailed(r))

LocalStep(r) ==
  /\ \/ AcquireSlot(r) \/ RejectAtCapacity(r) \/ ReadLen(r) \/ SetInflightRequests(r)
     \/ ReadBody(r) \/ ReadPaymentHeader(r) \/ ResolveRoute(r) \/ EstimateWorkUnits(r)
     \/ ServeOK(r) \/ ServeError(r) \/ EmitRequestMetrics(r) \/ ReleaseSlot(r)
  /\ UNCHANGED fakeVars

FHandle(r) == CallStep(r) \/ LocalStep(r)

FInit == Init /\ NewFake /\ WithMetrics

FNext ==
  \/ \E r \in Requests : \/ (Arrive(r) \/ Cancel(r)) /\ UNCHANGED fakeVars
                         \/ FHandle(r)
  \/ AllDone /\ UNCHANGED fvars

FairFakeSpec == FInit /\ [][FNext]_fvars /\ \A r \in Requests : WF_fvars(FHandle(r))

-----------------------------------------------------------------------------
\* While a request uses a session of its own and no call of it has failed, the
\* balance a test reads off the Fake (BalanceFor) is the daemon's, in spite of
\* the price the Fake never bound, through credit, estimate and reconcile.
FakeAgrees ==
  \A r \in Requests :
    InSession(r) /\ Exclusive(r) /\ status[r] # 502 /\ warned[r] \subseteq {"serve"} =>
      BalanceFor(r) = bal[work(r)]

\* The Fake's counters, which the tests assert on: when all requests are done
\* CloseSession has been called exactly once for each accepted payment, and no
\* payment was processed, no debit made outside an opened session.
CallsBalanced ==
  AllDone =>
    /\ calls.close = Cardinality({r \in Requests : accepted[r]})
    /\ calls.pay <= calls.open
    /\ calls.close <= calls.pay
    /\ calls.debit <= 2 * calls.close

NoRPCErrors == \A op \in Methods : <<op, "error">> \notin rpcs

\* What the middleware only logs is not lost on an operator who watches the
\* daemon-RPC metric: while meteredClient has counted no error, every open
\* session is in use by a handler, however many share it, and once all requests
\* are done the units counted as revenue have been debited.
ErrorsTell ==
  NoRPCErrors =>
    /\ \A w \in WorkIDs : sess[w] = "open" =>
         \E r \in Requests : blob[r] # None /\ work(r) = w /\ InSession(r)
    /\ AllDone => workUnits <= SumFunction(paid)
=============================================================================
