\* Two overlapping requests: two orders, two drivers, or one driver and a route.
SPECIFICATION Spec
CONSTANTS
  Orders = {o1, o2}
  Drivers = {d1, d2}
  Routes = {t1}
  Requests = {q1, q2}
  None = None
  MaxLoad <- EqualVehicles
  ListLimit = 3
  MaxRevision = 2
SYMMETRY Interchangeable
CONSTRAINT DriversOrRoute
INVARIANTS
  HoldingOrderIsLocked
  DriverMatchesStatus
PROPERTIES
  JourneySpec
  PlanFrozenOnceStarted
