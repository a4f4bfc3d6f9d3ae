SPECIFICATION FairSpec
CONSTANTS
  w1 = w1
  t1 = t1
  t2 = t2
  None = None
  Requests = {r1, r2}
  Workers = {w1, w2}
  Tags = {t1, t2}
  TagOf <- OwnTags
  WorkerSlots <- Ones
  WorkerQueue <- OneWaits
  TagSlots <- Twos
  TagQueue <- Ones
  ModelSlots = 0
  ModelQueue = 1
  Attempts = 2
  CooldownTTL = 1
  QueueTimeout = 0
  Threshold = 1
  Impatient = {r1}
  Changes = 1
INVARIANTS
  NothingLeaks
PROPERTIES
  EachSendIsDue
  EveryRequestEnds
