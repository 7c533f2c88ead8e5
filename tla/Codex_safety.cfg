SPECIFICATION QueuesSpec
CONSTANTS
  p1 = p1
  p2 = p2
  p3 = p3
  q1 = q1
  q2 = q2
  None = None
  Hook = {p3}
  Drain = {q1, q2}
  Scenarios <- TranscriptRaces
SYMMETRY Symmetry
INVARIANTS OnlyConsented CursorCovers 
PROPERTIES StoredOnceInOrder 
CHECK_DEADLOCK FALSE
