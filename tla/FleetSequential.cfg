\* One request at a time: two orders, two drivers, one route.
SPECIFICATION Spec
CONSTANTS
  Orders = {o1, o2}
  Drivers = {d1, d2}
  Routes = {t1}
  Requests = {q1}
  None = None
  MaxLoad <- OneLightVehicle
  ListLimit = 3
  MaxRevision = 2
SYMMETRY OrdersInterchangeable
INVARIANTS
  TypeOK
  LockAgreement
  StopMirrorsOrder
  TimelineAgrees
PROPERTIES
  CapacityRespected
