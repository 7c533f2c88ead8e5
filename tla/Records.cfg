SPECIFICATION AnySpec
CONSTANTS
  MaxOffers = 3  Transcripts = 2  MaxPrior = 1
  ten1 = ten1  ten2 = ten2  com1 = com1  com2 = com2  rep1 = rep1  rep2 = rep2
  Tenant = {ten1, ten2}
  None = None
  Limits <- AllLimits
SYMMETRY Symmetry
INVARIANTS Types TenantKept ReportedTruly SettledForGood DroppedOnlyForCause ReportIsTrue 
PROPERTIES DecidedAsShown
CHECK_DEADLOCK FALSE
