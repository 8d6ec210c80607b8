SPECIFICATION Spec
CONSTANTS
  Workers = {w1, w2}
  Connections = {c1, c2}
  Ids = {o1, o2}
  NoRef = NoRef
  NoRequest = NoRequest
  MaxRevision = 2
  MaxFaults = 3
  RecoverRunning = FALSE
  EditsDuringSaga = TRUE
  UnpinnedDeletes = FALSE
SYMMETRY Symmetry
INVARIANTS
  NoDanglingReference
  NoOrphanSecret
  RecoveryComplete
PROPERTIES
  SuccessIsReal
  ImplementsPassword
