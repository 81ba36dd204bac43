SPECIFICATION FairSpec
CONSTANTS
  Size <- ThreeImages
  Partition = 4
  Window = 2
  Block = 2
  Attempts = 2
  TotalTimeout = 2
  Slow = TRUE
  Faults = TRUE
  ShortWindows = TRUE
  LongWindows = TRUE
  WholeFile = TRUE
  MaxLost = 1
INVARIANTS FlashIsImage GivesUpInTrouble
PROPERTIES RefinesSlots DownloadEnds TrialEnds
