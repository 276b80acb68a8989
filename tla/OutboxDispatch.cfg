SPECIFICATION NotifFairSpec
CONSTANTS
  o1 = o1
  d1 = d1
  d2 = d2
  w1 = w1
  w2 = w2
  Events = {1, 2}
  Aggregate <- MCAggregate
  Dispatchers = {d1, d2}
  BatchSize = 2
  MaxRetry = 1
  MaxFaults = 2
  StartOutcomes = {TRUE, FALSE}
  QueueAtStart = {FALSE}
  Addressed = {2}
  Workers = {w1, w2}
CHECK_DEADLOCK FALSE
INVARIANTS
  DuplicatesNeedFaults
  NotifTypeOK
  HandledIsRecorded
PROPERTIES
  WrittenArrives
  DeliversAsOutbox
