\* One run addressed to an IDE, one retry, nothing fails.
SPECIFICATION Spec
CHECK_DEADLOCK FALSE
CONSTANTS
  r1 = r1
  r2 = r2
  p1 = p1
  NoRun = NoRun
  Runs = {r1}
  Partitions = {p1}
  PartitionOf <- Single
  Addressed = {r1}
  HandlerMax = 2
  MaxAttempts = 2
  AttemptCeiling = 3
  MaxSends = 2
  MaxFaults = 0
  RetryClients = 1
INVARIANT
  NoticeTellsTheEnding
