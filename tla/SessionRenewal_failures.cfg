SPECIFICATION FairSpec
CONSTANTS
  p1 = p1  p2 = p2  p3 = p3
  Process = {p1, p2}
  Codex = FALSE
  None = None  Free = Free  Orphaned = Orphaned  Foreign = Foreign
  MaxSignins = 0  MaxSignouts = 0  MaxExpiries = 2  MaxForced = 1
  MaxSessionStarts = 1  MaxFaults = 1  MaxCrashes = 1
CHECK_DEADLOCK FALSE
INVARIANTS ChainKept
PROPERTIES ExpiredRenewed
