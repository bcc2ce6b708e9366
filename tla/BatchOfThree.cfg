\* Three sources, two slots, two requests, a cancellation: NoneConfirmedIsAsked is violated.
SPECIFICATION Spec
CHECK_DEADLOCK FALSE
CONSTANTS
  s1 = s1
  s2 = s2
  s3 = s3
  NoGrant = NoGrant
  Sources = {s1, s2, s3}
  Batch <- ThreeOrOne
  MaxConcurrent = 2
  MaxJobs = 4
  MaxRequests = 2
  MaxCancels = 1
  MaxCrashes = 0
  MaxEdits = 0
INVARIANT NoneConfirmedIsAsked
