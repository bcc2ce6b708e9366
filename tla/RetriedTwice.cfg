\* One run, two retry requests in flight at once, nothing fails.
SPECIFICATION Spec
CHECK_DEADLOCK FALSE
CONSTANTS
  r1 = r1
  r2 = r2
  p1 = p1
  NoRun = NoRun
  Runs = {r1}
  Partitions = {p1}
  PartitionOf <- Single
  Addressed = {}
  HandlerMax = 2
  MaxAttempts = 2
  AttemptCeiling = 3
  MaxSends = 3
  MaxFaults = 0
  RetryClients = 2
PROPERTY
  SuccessIsNeverReopened
