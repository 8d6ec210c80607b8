SPECIFICATION FairSpec
CONSTANTS
  Clients = {c1}
  NoClient = NoClient
  Modes = {"local", "remote", "dynamic"}
  Slots = 1
PROPERTIES
  ImplementsRunner
  EveryStopEnds
