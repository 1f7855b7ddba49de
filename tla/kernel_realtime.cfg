SPECIFICATION Spec
CONSTANTS
  TBL = 3
  Ops <- RealTimeOps
  UserSig = {}
  NotifySig = {"WKP"}
  TickCounts = {0}
  SleepCounts = {}
  MaxRtc = 0
  MaxCalls = 1
INVARIANTS
  SearchBounded
  TsmNeverPanics
  OwnContext
  RetiredHasReturned
  WaitMatchesCall
PROPERTIES
  SignalsKept
