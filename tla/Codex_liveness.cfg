SPECIFICATION PartsFairSpec
CONSTANTS
  p1 = p1
  p2 = p2
  p3 = p3
  q1 = q1
  q2 = q2
  None = None
  Hook = {p1, p2}
  Drain = {q1, q2}
  MaxCrashes = 1
  MaxFaults = 1
INVARIANTS Types RequestsServed
PROPERTIES LeavesAnother WorkGetsDone
CHECK_DEADLOCK FALSE
