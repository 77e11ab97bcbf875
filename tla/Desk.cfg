\* Each part of the desk on its own; the bounds of each are in DeskMC.  A plan that is done
\* and a file that was read end their parts.
SPECIFICATION Spec
CHECK_DEADLOCK FALSE
CONSTANTS
  Worlds <- SmallWorlds
  LastDate = 900
  NoRoad = 1000000
  Parcels = {o1, o2}
  Trips = {t1, t2}
  OpensAt <- Opening
  ClosesAt <- Closing
  Offsets = {0, 1}
  Askers = {o2}
  AskedFor = 2
  Soon = 1
  Limits = {1, 2}
  MaxClock = 1
  Never = 9
  Places = {o1, o2}
  Saves = {r1}
  MaxRevision = 4
  Ids = {o1}
  MaxRows = 2
  MaxLoads = 2
  MaxSends = 2
  Batches <- SmallBatches
  Letters = {"x"}
  Jobs = {o1}
  Crew = {d1, d2}
  MaxBoardLoads = 2
  Devices = {d1, d2}
  Endpoints = {e1, e2}
  MaxNotices = 1
  None = None
INVARIANTS
  PlanIsSound
  SwitchedOnIsStored
  CsvRoundTrips
  LateIsListed
PROPERTIES
  RouteNeverFallsBack
  ShownPlanAdvances
  BoardSettles
  ListSettles
