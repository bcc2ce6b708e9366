\* Two jobs on one source, three commits anywhere.
SPECIFICATION Spec
CHECK_DEADLOCK FALSE
CONSTANTS
  MaxCommits = 3
  MaxJobs = 2
PROPERTIES
  LosesNothingUnasked
  ForcedIsCurrent
  InStepIsTrue
