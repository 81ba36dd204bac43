SPECIFICATION Spec
CONSTANTS
  MinutesPerHour = 60
  Schedule <- MCSchedule
  MayRoll <- MCRollover
  I2cFaults = FALSE
  PowerLoss = FALSE
PROPERTIES BoundaryWakes
