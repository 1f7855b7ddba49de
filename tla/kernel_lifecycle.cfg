SPECIFICATION Spec
CONSTANTS
  TBL = 3
  Ops <- LifecycleOps
  UserSig = {"USR1"}
  NotifySig = {"WKP", "USR1"}
  TickCounts = {0, 1}
  SleepCounts = {}
  MaxRtc = 0
  MaxCalls = 2
INVARIANTS
  TypeOK
  TsmNeverPanics
  OwnContext
  RetiredHasReturned
  WaitMatchesCall
  NoPhantomTimeout
  IdleMeansNothingToRun
  SearchBounded
PROPERTIES
  SignalsKept
  FrozenUntilUnfrozen
