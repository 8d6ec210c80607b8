CONSTANTS
  Keys = {k1}
  None = None
  MaxRevision = 1
  MaxRows = 1
  MaxPassphraseAttempts = 1
  MaxSignals = 0
SPECIFICATION FairSpec
PROPERTIES
  DeadlineEndsCommand
