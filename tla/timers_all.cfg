SPECIFICATION Spec
CONSTANTS
  N = 2
  Intervals = {1, 2}
  Periodic = {TRUE, FALSE}
  Ops <- AllOps
  MaxRtc = 4
INVARIANTS
  TypeOK
  ActiveHasHandler
  OneShotOnce
