SPECIFICATION FairSpec
CONSTANTS
  SimCheckMax <- Unanswered
  Resets = TRUE
INVARIANT WindowLinkHeld
INVARIANT TriedIsOff
INVARIANT LateTestsAreShort
PROPERTY PowerIsKept
PROPERTY MainStarts
PROPERTY WarmupReturns
