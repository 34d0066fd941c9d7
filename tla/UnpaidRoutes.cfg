SPECIFICATION FairSpec
CONSTANTS
  Requests = {r1, r2}
  First = r1
  AddrLen = 1
  Nil = Nil
  MaxPaid = 1
  Bodies <- MCBodies
  Headers <- MCHeaders
  Tokens <- MCTokens
  Issues <- MCIssues
INVARIANTS
  TicketParamsExact
  OnlyValidProxied
  StatusTellsCause
PROPERTIES
  UnpaidAnswered
