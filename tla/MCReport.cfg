SPECIFICATION Spec
CONSTANTS
  Size = 4
  Starts <- MCStarts
  Errors = {0, 60, 61}
  Lost <- MCLost
  Lines <- MCLines
  CycleSeconds = 600
  Drift = 1
  Latency = {8}
  Rounds = 2
  MaxCycles = 2
INVARIANTS RecordHoldsLog StampsTrue LogArrives
