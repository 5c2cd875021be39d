SPECIFICATION Spec
CONSTANTS
  Depth <- MCDepth
  Programs <- MCPrograms
  Words = 4
INVARIANT Groups
PROPERTIES Descends Returns OnceEach
CHECK_DEADLOCK FALSE
