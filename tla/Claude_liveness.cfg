SPECIFICATION FairSpec
CONSTANTS
  p1 = p1  p2 = p2  p3 = p3
  t1 = t1  t2 = t2  t3 = t3  t4 = t4
  h1 = h1  d1 = d1
  None = None
PROPERTIES
  LockMovesOn
  EveryChunkLeaves
  ImportEnds
CHECK_DEADLOCK FALSE
