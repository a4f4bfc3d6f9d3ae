CONSTANTS
  Agents = {a1}
  Ids = {i1, i2}
  NoId = NoId
  Configs <- ThreeConfigs
  StaleAfter = 2
  MaxFaults = 1
SPECIFICATION FairAgentSpec
INVARIANTS InvalidationArrives
PROPERTIES RouteOutlivedByLease ReleasedAfterStop TunnelArrives
