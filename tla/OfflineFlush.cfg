\* Two queued taps and two overlapping passes: the queue keeps its order.
CHECK_DEADLOCK FALSE
SPECIFICATION Spec
CONSTANTS
  Taps = {t1, t2}
  Flushes = {f1, f2}
  WorkflowSteps = {"IN_PROGRESS", "ARRIVED"}
  MaxRuns = 2
  MaxFaults = 3
SYMMETRY Interchangeable
CONSTRAINTS
  OrderLeftToDriver
  NothingExpires
  DriverOffline
INVARIANTS
  CompletedIsApplied
PROPERTIES
  FlushedInOrder
