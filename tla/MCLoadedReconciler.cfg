SPECIFICATION Spec
CONSTANTS
  w1 = w1
  w2 = w2
  a = a
  b = b
  None = None
  AutoMax = AutoMax
  Workers = {w1, w2, w3}
  Models = {a, b}
  Requests = {r1}
  Allowed <- FirstOnlyA
  Artifact <- StaleB
  MinLoaded <- FloorOfBoth
  MaxLoaded <- CeilingTwoOfA
  Priority <- AFirst
  Cycles = 2
  Troubles = 1
  Served = 1
PROPERTIES
  PlanIsSound
  BoundsHold
