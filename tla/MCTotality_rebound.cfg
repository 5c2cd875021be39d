SPECIFICATION Spec
CONSTANTS
  Depth <- MCDepth
  Programs <- Rebound
  Words = 4
PROPERTY Terminates
CHECK_DEADLOCK FALSE
