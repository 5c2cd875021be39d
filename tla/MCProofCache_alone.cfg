SPECIFICATION Spec
CONSTANTS
  Proc = {p1}
  Obligations <- MCObligations
  Sources <- MCSources
  Valid <- MCValid
  Hash <- MCHash
  Torn <- MCTorn
  DiskFails = FALSE
INVARIANT Warm
PROPERTY Ends
