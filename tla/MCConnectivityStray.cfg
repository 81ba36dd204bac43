SPECIFICATION Spec
CONSTANTS
  SimCheckMax <- Unanswered
  Resets = FALSE
INVARIANT UnusedIsOff
