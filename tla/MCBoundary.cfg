SPECIFICATION Spec
CONSTANTS
  Callers <- MCCallers
  Allocations <- MCAllocations
INVARIANTS Arrives InBounds PinInv
