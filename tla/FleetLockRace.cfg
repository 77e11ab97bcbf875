\* Expected violation: a status request that read its order before a reassignment.
SPECIFICATION Spec
CONSTANTS
  Orders = {o1, o2}
  Drivers = {d1, d2}
  Routes = {}
  Requests = {q1, q2}
  None = None
  MaxLoad <- EqualVehicles
  ListLimit = 3
  MaxRevision = 2
SYMMETRY Interchangeable
CONSTRAINT NobodyOffline
INVARIANTS
  OneActiveOrderPerDriver
