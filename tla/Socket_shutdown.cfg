CONSTANTS
  Goroutines = {g, h}
  Ops = {"read", "write", "close", "close-write"}
  Sizes = {1, 3}
  Capacity = 2
  MaxCalls = 4
SPECIFICATION Spec
INVARIANT NoPanic
CHECK_DEADLOCK FALSE
