\* The in-flight gauge once all handlers are gone.
CONSTANTS
  m1 = m1  m2 = m2
  Requests = {r1, r2}
  MaxConcurrent = 2
  Models <- MCModels
  Price <- MCPrice
  Blobs = {b1}
  Credits = {3}
  Estimates = {2}
  Usages = {0, 3}
  BackendStatuses = {200, 404, 500}
  MaxSeries = 0
  SignedBalance = FALSE
  RPCFaults = FALSE
SPECIFICATION Spec
INVARIANT GaugeSettles
