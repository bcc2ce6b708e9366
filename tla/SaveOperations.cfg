\* Two saves, and one each of a push by others, a commit by hand, a new configuration, a restart and a fault.
SPECIFICATION FairSpec
CHECK_DEADLOCK FALSE
CONSTANTS
  Untouched = "before"
  Drafts = {"before", "after"}
  Theirs = {"theirs"}
  MaxSaves = 2
  MaxForeign = 1
  MaxHands = 1
  MaxConfigs = 1
  MaxCrashes = 1
  MaxFaults = 1
INVARIANTS
  TypeOK
  RecordedIsThere
  OneCommitEach
  NothingLeftBehind
PROPERTIES
  Settles
