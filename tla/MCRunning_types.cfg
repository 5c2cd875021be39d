SPECIFICATION Spec
CONSTANTS
  Programs <- MCPrograms
  Depth = 2
  MaxCalls = 5
INVARIANTS Acyclic Sound Pure Exhaustive BindersKnown WrongByItself
CHECK_DEADLOCK FALSE
