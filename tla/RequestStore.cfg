SPECIFICATION PolledSpec
CONSTANTS
  RequestIds = {r1, r2}
  TTL = 1
  MaxTime = 4
INVARIANTS
  TypeOK
  MemoryAheadOfDisk
  AnswersAreDurable
  OneDecision
  ExpiredOnlyAfterDeadline
PROPERTIES
  NoProgressAfterDeadline
  ImplementsDurableLifecycle
  EveryRequestSettles
  EveryRequestSettlesOnDisk
