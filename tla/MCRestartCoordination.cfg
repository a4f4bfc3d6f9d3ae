CONSTANTS
  Workers = {w1, w2}
  Models = {m1}
  Requests = {r1}
  None = None
  StaleAfter = 1
  Retention = 1
  Threshold = 1
  Backoff = 0
  Budgets <- FairBudgets
SPECIFICATION CoordFairSpec
INVARIANTS RestartCutsNothing RestartIsOwed
PROPERTIES EveryRestartHappens
