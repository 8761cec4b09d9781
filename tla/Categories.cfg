CONSTANTS
  Users = {"ann", "bob"}
  Names = {"Other", "news", "NEWS"}
  Fold <- MCFold
  Urls = {"https://a", "http://a", "https://b"}
  Source <- MCSource
  Starter <- MCStarter
  Requests = {r1, r2}
  MaxCategories = 4
  MaxRequests = 4
SPECIFICATION Spec
INVARIANTS TypeOK OneOther Lossless
PROPERTIES OnlyUnsubscribeRemoves
SYMMETRY RequestSymmetry
CHECK_DEADLOCK FALSE
