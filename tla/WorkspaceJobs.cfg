\* Two sources, one slot, two requests, a cancellation, a restart and an edit of the configuration.
SPECIFICATION Spec
CHECK_DEADLOCK FALSE
CONSTANTS
  s1 = s1
  s2 = s2
  s3 = s3
  NoGrant = NoGrant
  Sources = {s1, s2}
  Batch <- BothOrOne
  MaxConcurrent = 1
  MaxJobs = 3
  MaxRequests = 2
  MaxCancels = 1
  MaxCrashes = 1
  MaxEdits = 1
INVARIANTS
  TypeOK
  QueuedIsListed
  RunningIsDriven
  TouchedWhenConfirmed
  ConfirmedIsNotAsked
PROPERTIES
  InOrder
