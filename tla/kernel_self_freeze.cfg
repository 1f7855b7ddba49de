SPECIFICATION Spec
CONSTANTS
  TBL = 3
  Ops = {"create", "freeze_self", "unfreeze", "suspend"}
  UserSig = {}
  NotifySig = {}
  TickCounts = {0}
  SleepCounts = {}
  MaxRtc = 0
  MaxCalls = 1
PROPERTIES
  FrozenUntilUnfrozen
