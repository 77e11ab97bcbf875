\* Expected violation: a reordered route, one request at a time.
SPECIFICATION Spec
CONSTANTS
  Orders = {o1, o2}
  Drivers = {d1}
  Routes = {t1}
  Requests = {q1}
  None = None
  MaxLoad <- EqualVehicles
  ListLimit = 3
  MaxRevision = 2
SYMMETRY Interchangeable
INVARIANTS
  StopIsAddressed
