\* Three dialogs that ask at once.
SPECIFICATION Spec
CHECK_DEADLOCK FALSE
CONSTANTS
  p1 = p1
  p2 = p2
  p3 = p3
  c1 = c1
  c2 = c2
  c3 = c3
  MaxOrders = 0
  None = None
INVARIANTS
  OneRequestPerInterval
