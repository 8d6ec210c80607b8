SPECIFICATION FairSpec
CONSTANTS
  MaxOperations = 4
  MaxResizes = 1
INVARIANTS
  TypeOK
  StartupHasOwner
  PromptHasOperation
PROPERTIES
  TunnelsNeedConsent
  OperationsEnd
CHECK_DEADLOCK FALSE
