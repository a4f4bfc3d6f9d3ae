CONSTANTS
  BufferLimit = 3
  HeartbeatLimit = 2
  MaxEvents = 7
  Agents = {a1, a2}
  Removed = Removed
  Wants <- TwoVersions
  MaxRev = 2
  MaxFaults = 1
SPECIFICATION PackSpec
INVARIANTS ReadyStaysInstalled LossIsBounded
PROPERTIES AgentsGetReady
