CONSTANTS
  Workers = {w1, w2}
  Requests = {r1, r2}
  None = None
  StaleAfter = 1
  Retention = 1
  Threshold = 1
  Backoff = 0
  Models = {m1, m2}
  Budgets <- NothingMore
SPECIFICATION BusyFairSpec
PROPERTIES EveryRestartHappens
