\* Two replicas, every failure, restarts and broken connections, a stream opened from now on: still once and in order.
SPECIFICATION Spec
CONSTANTS
  r1 = r1
  r2 = r2
  Replicas <- TwoReplicas
  MaxEvents = 4
  Queue = 2
  PageSize = 2
  Backlog = 2
  MaxFailures = 1
  MaxRestarts = 1
  Warm = FALSE
  FromGiven = FALSE
  Buffer = 1
  MaxConnections = 2
  Abrupt = TRUE
SYMMETRY Symmetry
CHECK_DEADLOCK FALSE
INVARIANT InOrderOnce
INVARIANT WindowIsKept
PROPERTY NumberNamesOneEvent
