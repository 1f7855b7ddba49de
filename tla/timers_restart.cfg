SPECIFICATION FairSpec
CONSTANTS
  N = 1
  Intervals = {1, 2}
  Periodic = {TRUE, FALSE}
  Ops = {"start", "restart"}
  MaxRtc = 3
PROPERTIES
  TimerFires
CHECK_DEADLOCK FALSE
