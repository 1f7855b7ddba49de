SPECIFICATION FairSpec
CONSTANTS
  TBL = 3
  Ops <- DelayOps
  UserSig = {}
  NotifySig = {"WKP"}
  TickCounts = {0, 1}
  SleepCounts = {1, 2}
  MaxRtc = 2
  MaxCalls = 1
INVARIANTS
  NoPhantomTimeout
PROPERTIES
  DelayEnds
  WakeupDelivered
  ReadyRuns
  SearchEnds
