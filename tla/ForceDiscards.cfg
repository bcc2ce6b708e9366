\* A commit made between the check and the forced checkout is dropped: DiscardsOnlyWhatWasSeen is violated.
SPECIFICATION Spec
CHECK_DEADLOCK FALSE
CONSTANTS
  MaxCommits = 3
  MaxJobs = 2
PROPERTY DiscardsOnlyWhatWasSeen
