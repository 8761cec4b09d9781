CONSTANTS
  Models = {"m", "n"}
  Admins = {a1}
  Puts <- MCPuts
  Creations <- MCCreations
  FirstProviders <- MCFirstProviders
  FirstRouting <- MCFirstRouting
  MaxProviders = 2
  MaxAdmin = 1
  Items = {1}
  Videos = {1}
  Requests = {r1}
  Worker = worker
  Batch = 1
  Budget = 1
  Tokens = {1}
  MaxCalls = 1
  MaxDay = 1
  MaxCrashes = 1
SPECIFICATION Spec
INVARIANTS TypeOK BudgetHolds AutoPaidOnce
PROPERTIES MarkerCleared
CHECK_DEADLOCK FALSE
