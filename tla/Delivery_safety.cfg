SPECIFICATION EitherSpec
CONSTANTS
  h1 = h1  d1 = d1  d2 = d2  d3 = d3  c1 = c1  c2 = c2  r1 = r1
  Hook = {h1}
  Drain = {d1, d2}
  None = None
  MaxAttempts = 2
  Limits <- DrainLimits
SYMMETRY Symmetry
INVARIANTS Types MirrorsInOrder CursorCovers  OnlyOffDeletes
