\* One tap, one pass after another, and two faults.
CHECK_DEADLOCK FALSE
SPECIFICATION FairSpec
CONSTANTS
  Taps = {t1}
  Flushes = {f1}
  WorkflowSteps = {"IN_PROGRESS", "ARRIVED"}
  MaxRuns = 2
  MaxFaults = 2
PROPERTIES
  QueueDrains
