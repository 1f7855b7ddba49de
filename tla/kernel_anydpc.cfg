SPECIFICATION Spec
CONSTANTS
  TBL = 3
  Ops <- AnyDpcOps
  UserSig = {}
  NotifySig = {}
  TickCounts = {0}
  SleepCounts = {}
  MaxRtc = 0
  MaxCalls = 1
INVARIANTS
  TsmNeverPanics
CHECK_DEADLOCK FALSE
