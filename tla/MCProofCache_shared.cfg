SPECIFICATION Spec
CONSTANTS
  Proc = {p1, p2}
  Obligations <- MCObligations
  Sources <- MCSources
  Valid <- MCValid
  Hash <- MCHash
  Torn <- MCTorn
  DiskFails = TRUE
SYMMETRY ProcSymmetry
INVARIANTS TypeOK CertificatesHold VerdictSound
