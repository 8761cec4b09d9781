CONSTANTS
  Users = {u1}
  Feeds = {f1, f2}
  Hosts = {h1}
  h1 = h1
  HostOf <- SameHost
  MaxFailures = 2
  Batch = 2
  Concurrency = 2
  MaxTorn = 1
SPECIFICATION Spec
SYMMETRY FeedsAlike
INVARIANTS
  TypeOK
  PolledFeedsAreEnabled
  NoOverlappingPolls
  Quarantine
  NoPollStuck
