CONSTANTS
  Workers = {w1, w2}
  Models = {m1, m2}
  Requests = {r1, r2}
  None = None
  StaleAfter = 1
  Retention = 1
  Threshold = 2
  Backoff = 1
SPECIFICATION Spec
INVARIANTS ActiveCountsInFlight RestartIsQuiet RestartsDisjoint
PROPERTIES DrainHolds
SYMMETRY Symmetry
