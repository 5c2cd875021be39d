SPECIFICATION ProgramSpec
CONSTANTS
  Names <- MCNames
  Dirs <- MCDirs
  Disks <- MCDisks
  Squash <- MCSquash
  SnakeCase <- MCSnakeCase
  Qualifiers <- QualifiersOf
INVARIANTS ReadOnce Complete DependenciesFirst SameMeaning NothingDangles
PROPERTIES GetsOn Ends
CHECK_DEADLOCK FALSE
