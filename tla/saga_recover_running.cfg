SPECIFICATION Spec
CONSTANTS
  Workers = {w1, w2}
  Connections = {c1}
  Ids = {o1, o2}
  NoRef = NoRef
  NoRequest = NoRequest
  MaxRevision = 3
  MaxFaults = 0
  RecoverRunning = TRUE
  EditsDuringSaga = TRUE
  UnpinnedDeletes = FALSE
SYMMETRY Symmetry
INVARIANTS
  NoDanglingReference
