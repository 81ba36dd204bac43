SPECIFICATION FairSpec
CONSTANTS
  Uses = 2
  Losses = 4
  Fatal = TRUE
INVARIANT ResultFresh
INVARIANT KeepsTrying
PROPERTY HealthySession
CHECK_DEADLOCK FALSE
