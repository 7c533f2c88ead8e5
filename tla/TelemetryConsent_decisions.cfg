SPECIFICATION DecisionSpec
CONSTANTS
  r1 = r1  r2 = r2  c1 = c1  c2 = c2  c3 = c3  h1 = h1  d1 = d1
  Chooser = {c1, c2, c3}
  Hook = {}
  Drain = {}
  Repo = {r1, r2}
  None = None
  Decisions <- SomeDecisions
  Limits <- DecisionLimits
SYMMETRY Symmetry
PROPERTY DecisionsInTurn
CHECK_DEADLOCK FALSE
