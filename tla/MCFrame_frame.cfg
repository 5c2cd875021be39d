SPECIFICATION Spec
CONSTANTS
  Programs <- FramePrograms
  Inputs <- MCInputs
INVARIANTS TypeOK NoUseAfterFree NoDoubleFree NoLeak LoopFlat
PROPERTY Contract
CHECK_DEADLOCK FALSE
