SPECIFICATION EmptySpec
CONSTANTS
  r1 = r1  r2 = r2  c1 = c1  c2 = c2  c3 = c3  h1 = h1  d1 = d1
  Chooser = {c1}
  Hook = {h1}
  Drain = {d1}
  Repo = {r1}
  None = None
  Decisions <- Off
  Limits <- EmptyLimits
PROPERTY OffEmptiesQueue
