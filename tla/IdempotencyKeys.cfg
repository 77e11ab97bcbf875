\* Three overlapping calls of one key, for the same operation or another one.
SPECIFICATION Spec
CONSTANTS
  Calls = {c1, c2, c3}
  Keys = {k1}
  Operations = {p1, p2, u1}
  Bodiless = {u1}
  MaxRuns = 3
SYMMETRY Interchangeable
INVARIANTS
  OneHandlerPerKey
  AtMostOnce
  SameAnswer
PROPERTIES
  BodyIsReplayed
