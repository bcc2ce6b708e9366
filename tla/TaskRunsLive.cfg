\* Two runs on one partition: the second waits behind the first.
SPECIFICATION Spec
CHECK_DEADLOCK FALSE
CONSTANTS
  r1 = r1
  r2 = r2
  p1 = p1
  NoRun = NoRun
  Runs = {r1, r2}
  Partitions = {p1}
  PartitionOf <- OnePartition
  Addressed = {}
  HandlerMax = 2
  MaxAttempts = 2
  AttemptCeiling = 3
  MaxSends = 2
  MaxFaults = 1
  RetryClients = 0
PROPERTY
  Settles
