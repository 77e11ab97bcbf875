\* Expected violation, one request at a time: three parcels, a driver whose listing shows one order.
SPECIFICATION Spec
CONSTANTS
  Orders = {o1, o2, o3}
  Drivers = {d1}
  Routes = {}
  Requests = {q1}
  None = None
  MaxLoad <- LightVehicles
  ListLimit = 1
  MaxRevision = 2
SYMMETRY Interchangeable
PROPERTIES
  CapacityRespected
