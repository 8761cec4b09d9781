CONSTANTS
  Keys = {k1, k2}
  Flushes = {p1, p2}
  MaxChanges = 3
SPECIFICATION OutboxSpec
INVARIANTS
  OutboxTypeOK
  SettledWithoutRace
SYMMETRY KeyAndFlushSymmetry
