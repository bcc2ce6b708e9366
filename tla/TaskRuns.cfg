\* One run, every interleaving of its deliveries with a crash or a failed database
\* call, expired leases, cancels, two retries at once and the retention sweep.
SPECIFICATION Spec
CHECK_DEADLOCK FALSE
CONSTANTS
  r1 = r1
  r2 = r2
  p1 = p1
  NoRun = NoRun
  Runs = {r1}
  Partitions = {p1}
  PartitionOf <- Single
  Addressed = {r1}
  HandlerMax = 2
  MaxAttempts = 2
  AttemptCeiling = 3
  MaxSends = 3
  MaxFaults = 1
  RetryClients = 2
INVARIANTS
  NothingLost
  StartsBounded
  CancelStopsStarts
PROPERTIES
  SucceededIsFinal
  KeepsLedger
