SPECIFICATION Spec
CONSTANTS
  Programs <- MCPrograms
  Bounds <- MCBounds
  SolverInts <- MCInts
  Longest = 2
  MaxCalls = 3
INVARIANTS Safe PostsHold
CHECK_DEADLOCK FALSE
