SPECIFICATION FairSpec
CONSTANTS
  MaxBoots = 3
  Capacity <- MCCapacity
  AwakeBudget = 18
  OtaAwakeBudget = 20
  PreOtaMinutes = 3
  AttemptMinutes = {15}
  MaxAttempts = 3
  SendInvalid = FALSE
  MaxTrouble = 1
INVARIANTS InOrder  NothingLost TopOfHourIncluded MirrorsApart
PROPERTIES CycleEnds
