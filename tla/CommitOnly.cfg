\* The document is saved again between git add and git commit --only: CommitHoldsTheSave is violated.
SPECIFICATION Spec
CHECK_DEADLOCK FALSE
CONSTANTS
  Untouched = "before"
  Drafts = {"before", "after"}
  Theirs = {"theirs"}
  MaxSaves = 2
  MaxForeign = 1
  MaxHands = 1
  MaxConfigs = 1
  MaxCrashes = 1
  MaxFaults = 1
INVARIANT CommitHoldsTheSave
