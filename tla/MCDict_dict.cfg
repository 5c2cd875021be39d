SPECIFICATION Spec
CONSTANTS
  Keys = {1, 2, 3, 4}
  Values = {"u", "v"}
  Hashes <- MCHashes
  MinCap = 2
INVARIANT ProbesEnd
PROPERTY Ordered
