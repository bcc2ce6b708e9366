\* Two run-now requests.
SPECIFICATION Spec
CHECK_DEADLOCK FALSE
CONSTANTS
  s1 = s1
  s2 = s2
  p1 = p1
  p2 = p2
  NoInstant = NoInstant
  Keep = Keep
  NoRow = NoRow
  NoRun = NoRun
  Nobody = Nobody
  Schedules = {s1}
  Replicas = {p1}
  Expression <- EveryMinute
  MissedPolicy <- Skip
  Concurrency <- Allow
  Unhandled = {}
  Changes <- NoChanges
  MaxWalk = 10
  MaxCatchUpRuns = 2
  MaxPerTick = 2
  MaxTime = 2
  MaxFaults = 0
  MaxPatches = 0
  MaxAsks = 2
INVARIANT
  AskingTwiceIsTwoRuns
