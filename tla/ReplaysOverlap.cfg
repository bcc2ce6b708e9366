\* A connection breaks during its replay, and the next one replays too.
SPECIFICATION Spec
CONSTANTS
  r1 = r1
  r2 = r2
  Replicas <- OneReplica
  MaxEvents = 4
  Queue = 3
  PageSize = 2
  Backlog = 3
  MaxFailures = 0
  MaxRestarts = 0
  Warm = TRUE
  FromGiven = TRUE
  Buffer = 3
  MaxConnections = 3
  Abrupt = TRUE
CHECK_DEADLOCK FALSE
INVARIANT NothingPassedOver
