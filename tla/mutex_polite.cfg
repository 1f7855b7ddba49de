SPECIFICATION FairSpec
CONSTANTS
  N = 3
  Users = {1, 3}
  Ticks = {0, 1}
  Ops = {"delete", "create"}
INVARIANTS
  TypeOK
  MutualExclusion
  LockedIffHeld
PROPERTIES
  LockAcquired
