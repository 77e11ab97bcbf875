\* Expected violation: a tap whose answer was lost is applied under two keys.
CHECK_DEADLOCK FALSE
SPECIFICATION Spec
CONSTANTS
  Taps = {t1}
  Flushes = {f1}
  WorkflowSteps = {"IN_PROGRESS"}
  MaxRuns = 2
  MaxFaults = 2
SYMMETRY Interchangeable
INVARIANTS
  TapAppliedOnce
