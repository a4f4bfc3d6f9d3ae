CONSTANTS
  Agents = {a1, a2}
  Ids = {i1, i2, i3}
  NoId = NoId
  Configs <- ChangingConfigs
SPECIFICATION Spec
INVARIANTS StoreLoads HandedIsDurable PortsExclusive
PROPERTIES NeverRevived
SYMMETRY Symmetry
