CONSTANTS
  Names = {"admin", "ann"}
  Passwords = {"env", "new"}
  Requests = {r1, r2}
  Sessions = {s1, s2}
  Keys = {k1}
  Ceremonies = {c1}
  MaxAccounts = 3
  MaxRequests = 5
SPECIFICATION Spec
INVARIANTS TypeOK BuiltInAdminStays RowsFollowPerson CeremonyOnce SignedInHasOther
SYMMETRY RequestSymmetry
