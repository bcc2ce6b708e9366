\* Two requests under one key, one under another and one under none, all about
\* the same work.
SPECIFICATION Spec
CHECK_DEADLOCK FALSE
CONSTANTS
  q1 = q1
  q2 = q2
  q3 = q3
  q4 = q4
  k1 = k1
  k2 = k2
  w1 = w1
  r1 = r1
  r2 = r2
  r3 = r3
  NoRun = NoRun
  NoKey = NoKey
  NoWork = NoWork
  Requests = {q1, q2, q3, q4}
  Runs = {r1, r2, r3}
  KeyOf <- Keyed
  Coalesces = {q1, q2, q3, q4}
  Work <- OneWork
  MaxFaults = 1
SYMMETRY AnyRun
INVARIANTS
  OneRunPerKey
  AnswerIsFindable
PROPERTIES
  KeyNeverMoves
  JoinsWhatWaits
