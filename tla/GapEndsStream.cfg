\* An insert fails after its number was taken.
SPECIFICATION Spec
CONSTANTS
  r1 = r1
  r2 = r2
  Replicas <- OneReplica
  MaxEvents = 3
  Queue = 3
  PageSize = 2
  Backlog = 3
  MaxFailures = 1
  MaxRestarts = 0
  Warm = TRUE
  FromGiven = TRUE
  Buffer = 3
  MaxConnections = 2
  Abrupt = FALSE
CHECK_DEADLOCK FALSE
PROPERTY GapsAreHarmless
