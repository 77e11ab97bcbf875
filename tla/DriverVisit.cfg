\* Two photos, two faults anywhere, one upload and one queued tap at a time.  The visit is
\* followed to its end; a second one is only begun.
SPECIFICATION Spec
CHECK_DEADLOCK FALSE
CONSTANTS
  Photos = {1, 2}
  MaxVisits = 2
  MaxFaults = 2
  MaxUploads = 1
  MaxQueue = 1
  None = None
CONSTRAINT FirstVisit
INVARIANTS
  UploadIsReviewed
PROPERTIES
  VisitEnds
