CONSTANTS
  Keys = {k1, k2}
  None = None
  MaxRevision = 2
  MaxRows = 1
  MaxPassphraseAttempts = 3
  MaxSignals = 1
SPECIFICATION AnsweredSpec
INVARIANTS
  TypeOK
  SecretsFollowTrust
  NothingLeftBehind
  ExitIsTrue
PROPERTIES
  TerminalAfterNetwork
  StoredKeysWereUndecided
  AttemptEnds
