\* One slot, two requests, one payment blob sent twice, an unoffered model,
\* estimates that need clamping, usage below and above the estimate.
CONSTANTS
  m1 = m1  m2 = m2
  Requests = {r1, r2}
  MaxConcurrent = 1
  Models <- MCModels
  Price <- MCPrice
  Blobs = {b1}
  Credits = {5}
  Estimates <- MCEstimates
  Usages = {0, 3}
  BackendStatuses = {200, 404}
  MaxSeries = 1
  SignedBalance = FALSE
  RPCFaults = TRUE
SPECIFICATION Spec
SYMMETRY Symmetric
INVARIANTS TypeOK NoUnpaidWork ChargeMatchesUse RequestsCountedOnce RevenueBacked
