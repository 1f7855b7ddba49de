SPECIFICATION FairSpec
CONSTANTS
  a = a
  b = b
  none = none
  N = 3
  Receivers = {1, 2}
  Limit = 3
  Item <- MCItem
  NoItem = none
  Ops = {"delete"}
INVARIANTS
  TypeOK
  NoLostWakeup
  WaiterRemembered
PROPERTIES
  IsFifo
  ReceiverServed
