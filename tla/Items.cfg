CONSTANTS
  Users = {"ann", "bob"}
  Reader = "ann"
  Items = {"a", "b", "c"}
  Documents = {{"a", "c"}, {"a", "b", "c"}}
  Dates <- MCDates
  Limits = {0, 1}
  FirstLimits <- MCFirstLimits
  PageSize = 1
  Requests = {r1, r2}
  Marked = {"a"}
  MaxDay = 2
  MaxRows = 2
  MaxRequests = 2
SPECIFICATION Spec
INVARIANTS TypeOK AnswersStand WalkMissesNothing
PROPERTIES NoFlapping
SYMMETRY RequestSymmetry
CHECK_DEADLOCK FALSE
