SPECIFICATION Spec
CONSTANTS
  p1 = p1  p2 = p2  p3 = p3
  Process = {p1, p2, p3}
  Codex = TRUE
  None = None  Free = Free  Orphaned = Orphaned  Foreign = Foreign
  MaxSignins = 2  MaxSignouts = 1  MaxExpiries = 1  MaxForced = 1
  MaxSessionStarts = 0  MaxFaults = 0  MaxCrashes = 0
SYMMETRY Symmetry
CHECK_DEADLOCK FALSE
INVARIANTS TerminalIsTrue
