SPECIFICATION Spec
CONSTANTS
  Main = Main
  Lib = Lib
  Agents = {a1, a2}
  Files = {Main, Lib}
  Initial <- MCInitial
  Paths <- MCPaths
  Replacements <- MCReplacements
  Alone <- MCAlone
  Canon <- MCCanon
  Names <- MCNames
  Together <- MCTogether
  Cuts <- MCCuts
  MaxCommands = 4
SYMMETRY Alike
PROPERTIES ReadBack Kept Applied
CHECK_DEADLOCK FALSE
