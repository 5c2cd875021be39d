SPECIFICATION Spec
CONSTANTS
  Programs <- DeferredRead
  Inputs <- MCInputs
INVARIANT NoUseAfterFree
CHECK_DEADLOCK FALSE
