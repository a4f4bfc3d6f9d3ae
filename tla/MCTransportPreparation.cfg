CONSTANTS
  Workers = {w1, w2}
  Models = {m1}
  Requests = {r1}
  None = None
  StaleAfter = 1
  Retention = 1
  Threshold = 1
  Backoff = 0
  Tokens = 1
  Budgets = {}
SPECIFICATION MCFairSpec
INVARIANTS ListenerGuarded RestartsCutNothing
PROPERTIES EveryTunnelComesUp
