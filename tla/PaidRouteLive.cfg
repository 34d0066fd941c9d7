\* Liveness, and the tests' Fake beside the daemon: no symmetry, a single
\* contended slot, a reliable daemon, payments that do and do not cover the
\* estimate.
CONSTANTS
  m1 = m1
  Requests = {r1, r2}
  MaxConcurrent = 1
  Models = {m1}
  Price <- MCPrice
  Blobs = {b1, b2}
  Credits = {5}
  Estimates = {2, 3}
  Usages = {3}
  BackendStatuses = {200}
  MaxSeries = 0
  SignedBalance = TRUE
  RPCFaults = FALSE
  CreditPerCall = 5
  DebitWeiPerWorkUnit = 2
SPECIFICATION FairFakeSpec
INVARIANTS FakeAgrees CallsBalanced ErrorsTell
PROPERTIES HandlersFinish SlotsDrain
