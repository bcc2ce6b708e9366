\* Two replicas and no faults: a forbid schedule every minute and a replace schedule on an
\* interval of one; two patches, so that one may be disabled and enabled again.
SPECIFICATION Spec
CHECK_DEADLOCK FALSE
CONSTANTS
  s1 = s1
  s2 = s2
  p1 = p1
  p2 = p2
  NoInstant = NoInstant
  Keep = Keep
  NoRow = NoRow
  NoRun = NoRun
  Nobody = Nobody
  Schedules = {s1, s2}
  Replicas = {p1, p2}
  Expression <- MinuteAndTwo
  MissedPolicy <- Skip
  Concurrency <- ForbidAndReplace
  Unhandled = {}
  Changes <- OnAndOff
  MaxWalk = 10
  MaxCatchUpRuns = 2
  MaxPerTick = 2
  MaxTime = 2
  MaxFaults = 0
  MaxPatches = 2
  MaxAsks = 0
INVARIANTS
  NoUnaskedOverlap
PROPERTY
  DueIsFired
