\* The queue under the fairness of its event loop.
SPECIFICATION Spec
CHECK_DEADLOCK FALSE
CONSTANTS
  s1 = s1
  s2 = s2
  s3 = s3
  NoGrant = NoGrant
  Sources = {s1, s2}
  Batch <- Both
  MaxConcurrent = 1
  MaxJobs = 3
  MaxRequests = 2
  MaxCancels = 1
  MaxCrashes = 1
  MaxEdits = 0
PROPERTIES
  Settles
