SPECIFICATION FairSpec
CONSTANTS
  N = 3
  Users = {1, 2, 3}
  Ticks = {0}
  Ops = {"foreign_unlock"}
INVARIANTS
  MutualExclusion
