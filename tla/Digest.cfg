CONSTANTS
  NumUsers = 1
  Items = {i1, i2}
  Manuals = {m1}
  Lookbacks = {1, 2}
  Minute = 1
  CronMinutes = {0, 2}
  MaxTime = 2
  MaxRuns = 3
SPECIFICATION Spec
INVARIANTS
  TypeOK
  NoReprint
  NothingSkipped
SYMMETRY ItemSymmetry
