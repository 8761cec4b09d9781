CONSTANTS
  Models = {"m"}
  Admins = {a1, a2}
  Puts <- MCPuts
  Creations <- MCCreations
  FirstProviders <- MCFirstProviders
  FirstRouting <- MCFirstRouting
  MaxProviders = 3
  MaxAdmin = 6
SPECIFICATION ProvidersSpec
INVARIANTS RoutesResolve
SYMMETRY AdminSymmetry
CHECK_DEADLOCK FALSE
