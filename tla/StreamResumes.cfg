\* One replica whose channel is aligned, orderly disconnects, a failure and a prune: a stream opened from a cursor passes nothing over.
SPECIFICATION FairSpec
CONSTANTS
  r1 = r1
  r2 = r2
  Replicas <- OneReplica
  MaxEvents = 3
  Queue = 3
  PageSize = 2
  Backlog = 2
  MaxFailures = 1
  MaxRestarts = 0
  Warm = TRUE
  FromGiven = TRUE
  Buffer = 3
  MaxConnections = 2
  Abrupt = FALSE
CHECK_DEADLOCK FALSE
INVARIANT TypeOK
INVARIANT NothingPassedOver
PROPERTY ReachesTheConsumer
