SPECIFICATION HttpSpec
CONSTANTS
  MaxCalls = 3
  SlowModem = TRUE
  MaxBehind = 5
  CutTokens = TRUE
  NetworkFaults = TRUE
INVARIANTS PostDelivered GetOwnBody HealthyCallsSucceed
