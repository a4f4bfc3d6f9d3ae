CONSTANTS
  Keys = {k1, k2}
  Callers = {c1, c2, c3}
  MaxSlots = 2
  Limits <- ReloadedLimits
SPECIFICATION FairSpec
INVARIANTS ConcurrencyCap NobodyStranded NoIdleEntries
PROPERTIES EveryWaiterAnswered ImplementsSlotPool
