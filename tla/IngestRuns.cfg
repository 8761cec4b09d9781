CONSTANTS
  Users = {u1, u2}
  Feeds = {f1, f2}
  Outcomes = {"stored", "failed"}
  MaxRuns = 2
  Cooldown = 0
  Ttl = 1
SPECIFICATION FairSpec
INVARIANTS
  TypeOK
  AnnouncedOnce
  AnnouncementsTrue
PROPERTIES
  RunsEnd
  KeepsPromise
