SPECIFICATION FairSpec
CONSTANTS
  RunFails = TRUE
  StartupCalls = TRUE
INVARIANT StateInv
PROPERTIES StartedOnce  CallsReturn
CHECK_DEADLOCK FALSE
