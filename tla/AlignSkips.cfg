\* The first subscriber of a replica: an event is written before the first poll.
SPECIFICATION Spec
CONSTANTS
  r1 = r1
  r2 = r2
  Replicas <- OneReplica
  MaxEvents = 3
  Queue = 3
  PageSize = 2
  Backlog = 3
  MaxFailures = 0
  MaxRestarts = 0
  Warm = FALSE
  FromGiven = TRUE
  Buffer = 3
  MaxConnections = 2
  Abrupt = FALSE
CHECK_DEADLOCK FALSE
INVARIANT NothingPassedOver
