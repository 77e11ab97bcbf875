\* Expected violation: a mutation the server never decided on is discarded.
CHECK_DEADLOCK FALSE
SPECIFICATION Spec
CONSTANTS
  Taps = {t1}
  Flushes = {f1, f2}
  WorkflowSteps = {"IN_PROGRESS"}
  MaxRuns = 2
  MaxFaults = 2
SYMMETRY Interchangeable
INVARIANTS
  DiscardedIsSettled
