CONSTANTS
  Inputs = {i1, i2}
  Posts = {q1, q2, q3}
  None = None
  c1 = c1
  c2 = c2
  c3 = c3
  p1 = p1
  p2 = p2
SPECIFICATION ProgressSpec
CHECK_DEADLOCK FALSE
INVARIANTS
  PendingIsWaitedFor
  AnswerStands
PROPERTIES
  AbortReleases
  CallsEnd
  BacklogDelivered
  EndsOrWaits
