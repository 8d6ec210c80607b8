SPECIFICATION FairSpec
CONSTANTS
  Workers = {w1}
  Connections = {c1}
  Ids = {o1, o2}
  NoRef = NoRef
  NoRequest = NoRequest
  MaxRevision = 3
  MaxFaults = 3
  RecoverRunning = FALSE
  EditsDuringSaga = FALSE
  UnpinnedDeletes = FALSE
PROPERTIES
  EveryOperationResolved
