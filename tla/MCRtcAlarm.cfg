SPECIFICATION FairSpec
CONSTANTS
  MinutesPerHour = 12
  Schedule <- MCShortSchedule
  MayRoll <- MCRollover
  I2cFaults = TRUE
  PowerLoss = TRUE
INVARIANTS EnabledHasAlarm
PROPERTIES SoundAlarmRings WakesOnSchedule WakesAgain
