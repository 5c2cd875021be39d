SPECIFICATION Spec
CONSTANTS
  Programs <- Kept
  Bounds <- MCBounds
  SolverInts <- MCInts
  Longest = 2
  MaxCalls = 3
INVARIANT Safe
CHECK_DEADLOCK FALSE
