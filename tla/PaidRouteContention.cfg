\* Two handlers at once, two payment blobs (equal or distinct), credits that do
\* and do not cover the estimate, a daemon whose calls may fail with or without
\* effect, a payee client that keeps a balance's sign.
CONSTANTS
  m1 = m1  m2 = m2
  Requests = {r1, r2}
  MaxConcurrent = 2
  Models = {m1}
  Price <- MCPrice
  Blobs = {b1, b2}
  Credits = {3, 5}
  Estimates = {2}
  Usages = {0, 3}
  BackendStatuses = {200}
  MaxSeries = 0
  SignedBalance = TRUE
  RPCFaults = TRUE
SPECIFICATION Spec
SYMMETRY Symmetric
INVARIANTS SlotsMatchHandlers SessionHeld NoForgottenSession OverdraftRefused
PROPERTIES LedgerIsolated ImplementsContract
