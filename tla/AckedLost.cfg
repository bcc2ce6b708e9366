\* A record is appended behind a line that was cut: AckedSurvives is violated.
SPECIFICATION Spec
CHECK_DEADLOCK FALSE
CONSTANTS
  MaxAppends = 5
  MaxCrashes = 4
  MaxFaults = 2
INVARIANT AckedSurvives
