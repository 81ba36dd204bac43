SPECIFICATION USSpec
CONSTANTS
  Samples = 2
  Repeats = 2
  Registers <- Ends
  MaxFaults = 3
INVARIANTS LevelsAreMeasured OwnAnswer HealthyReads
