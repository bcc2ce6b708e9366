\* Two requests without a key, one failed database call.
SPECIFICATION Spec
CHECK_DEADLOCK FALSE
CONSTANTS
  q1 = q1
  q2 = q2
  q3 = q3
  q4 = q4
  k1 = k1
  k2 = k2
  w1 = w1
  r1 = r1
  r2 = r2
  r3 = r3
  NoRun = NoRun
  NoKey = NoKey
  NoWork = NoWork
  Requests = {q1, q2}
  Runs = {r1, r2}
  KeyOf <- NoKeys
  Coalesces = {q1, q2}
  Work <- OneWork
  MaxFaults = 1
INVARIANT
  JoinsOnlyUnstarted
