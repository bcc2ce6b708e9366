\* Two replicas append at once and the lower number is inserted last.
SPECIFICATION Spec
CONSTANTS
  r1 = r1
  r2 = r2
  Replicas <- TwoReplicas
  MaxEvents = 3
  Queue = 3
  PageSize = 2
  Backlog = 3
  MaxFailures = 0
  MaxRestarts = 0
  Warm = TRUE
  FromGiven = TRUE
  Buffer = 3
  MaxConnections = 2
  Abrupt = FALSE
CHECK_DEADLOCK FALSE
INVARIANT NothingPassedOver
