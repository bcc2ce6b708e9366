\* One run, one restart, one retry.
SPECIFICATION Spec
CHECK_DEADLOCK FALSE
CONSTANTS
  r1 = r1
  r2 = r2
  p1 = p1
  NoRun = NoRun
  Runs = {r1}
  Partitions = {p1}
  PartitionOf <- Single
  Addressed = {}
  HandlerMax = 1
  MaxAttempts = 2
  AttemptCeiling = 3
  MaxSends = 2
  MaxFaults = 1
  RetryClients = 1
INVARIANT
  RetryIsAttempted
