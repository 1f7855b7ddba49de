SPECIFICATION Spec
CONSTANTS
  a = a
  b = b
  none = none
  N = 2
  Receivers = {1, 2}
  Limit = 2
  Item <- MCItem
  NoItem = none
  Ops = {}
INVARIANTS
  BlockingReceiveDelivers
