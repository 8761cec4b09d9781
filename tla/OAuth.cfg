CONSTANTS
  Users = {u1, u2}
  Providers = {"reddit", "youtube"}
  Feeds = {f1}
  ProviderOf <- OfReddit
  Requests = {r1, r2}
  MaxFlows = 2
  MaxRequests = 3
SPECIFICATION Spec
SYMMETRY Symmetry
INVARIANTS
  ConnectionsAreWanted
  SyncKeepsItsWord
  HandAddedIsDue
