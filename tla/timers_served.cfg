SPECIFICATION FairSpec
CONSTANTS
  N = 2
  Intervals = {1, 2}
  Periodic = {TRUE, FALSE}
  Ops <- ServedOps
  MaxRtc = 3
INVARIANTS
  NextIsEarliest
PROPERTIES
  TimerFires
  CancelNotified
