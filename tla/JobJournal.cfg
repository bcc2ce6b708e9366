\* Five appends, four crashes, two failures of write or sync.
SPECIFICATION Spec
CHECK_DEADLOCK FALSE
CONSTANTS
  MaxAppends = 5
  MaxCrashes = 4
  MaxFaults = 2
INVARIANTS
  TypeOK
  AckedIsServed
  StartsAgain
  NumbersStay
