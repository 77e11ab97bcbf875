\* One order: one tab with two overlapping loads whose link may expire, or two requests
\* that need a token under one stream.
CHECK_DEADLOCK FALSE
SPECIFICATION CustomerSpec
CONSTANTS
  None = None
  Orders = {o1}
  Tokens = {k1}
  Callers = {c1}
  Lifetime = 1
  MaxTime = 1
  Tabs = {p1}
  MaxLoads = 2
  Windows = {w1}
  Ratings = {5}
  Steps = {"IN_PROGRESS", "DELIVERED"}
  Legacy = {"ARRIVED"}
  MessageTokens = {k1, k2}
  MessageCallers = {c1, c2}
  MessageSteps = {"IN_PROGRESS", "ARRIVED", "DELIVERED"}
  MessageTime = 0
  MaxChanges = 2
  MaxMessages = 3
  MaxBatch = 2
  Retries = 1
INVARIANTS
  FeedbackOnceAfterDelivery
  LinksResolveUntilTheyExpire
  NothingSilentlyLost
PROPERTIES
  PageSettlesOnFeedback
  StreamDrains
