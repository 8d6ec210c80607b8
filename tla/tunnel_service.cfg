SPECIFICATION FairSpec
CONSTANTS
  Callers = {c1, c2}
  Starters = {c2}
  Connections = {k1}
  NoConnection = NoConnection
  MaxLive = 2
  MaxTerminal = 1
  MaxAttempts = 3
  Texts = {"lost"}
INVARIANTS
  AtMostMaxLive
  EveryRunIsShown
  CloseLeavesNothing
PROPERTIES
  Lifecycle
  CompletionIsShown
  StopReturns
