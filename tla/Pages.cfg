\* Two executions that others start, one that a page starts and follows, or two loads in
\* flight around one change of the range; one order and its page; two drivers and an
\* administrator on one device.  An order that is over ends its part.
SPECIFICATION PagesSpec
CHECK_DEADLOCK FALSE
CONSTANTS
  Runs = {r1, r2}
  Callers = {"page", "other", "another"}
  Engines = {"emr", "glue"}
  MaxJobs = 2
  MaxLoads = 2
  MaxApplies = 1
  Drivers = {d1, d2}
  Admins = {a}
  Orders = {o1}
  MaxSteps = 5
  MaxTaps = 1
  MaxSessions = 2
  MaxFaults = 2
  Failed = Failed
  None = None
INVARIANTS
  SnapshotIsNewest
  ProgressIsTrue
  PageAgrees
  AdmittedInItsPlace
PROPERTIES
  RangeSettles
