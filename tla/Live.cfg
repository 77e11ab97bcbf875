\* One page, one connection at a time, two fixes; one deployment in place of another;
\* a driver and one more to be registered.
SPECIFICATION LiveSpec
CHECK_DEADLOCK FALSE
CONSTANTS
  Pages = {p1}
  Connections = {c1}
  MaxFixes = 2
  MaxLoads = 1
  b1 = b1
  b2 = b2
  d1 = d1
  d2 = d2
  o1 = o1
  o2 = o2
  None = None
INVARIANTS
  ShownIsStored
PROPERTIES
  FleetPagesSettle
  ShellCatchesUp
  CacheSettles
