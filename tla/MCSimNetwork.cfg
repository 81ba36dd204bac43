SPECIFICATION Spec
CONSTANTS
  Budget = 400
  Lags <- PromptOrSlow
INVARIANTS InTime RightApn FailsForAReason
