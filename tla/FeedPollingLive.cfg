CONSTANTS
  Users = {u1}
  Feeds = {f1, f2}
  Hosts = {h1}
  h1 = h1
  HostOf <- SameHost
  MaxFailures = 2
  Batch = 1
  Concurrency = 1
  MaxTorn = 0
SPECIFICATION FairSpec
PROPERTIES
  PolledForever
  RequestAnswered
