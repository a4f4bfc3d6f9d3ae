CONSTANTS
  Workers = {w1}
  Models = {m1}
  Requests = {r1, r2}
  None = None
  StaleAfter = 1
  Retention = 1
  Threshold = 1
  Backoff = 1
SPECIFICATION Spec
INVARIANTS NoRestartWhileServing
