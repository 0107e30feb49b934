CONSTANTS
  Goroutines = {g, h}
  Ops = {"read", "write", "close", "close-write"}
  Sizes = {0, 1, 3}
  Capacity = 2
  MaxCalls = 4
SPECIFICATION FairSpec
INVARIANTS StateInv  TailIsSent
PROPERTY ClosedEnds
CHECK_DEADLOCK FALSE
