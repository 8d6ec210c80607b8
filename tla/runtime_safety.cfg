SPECIFICATION Spec
CONSTANTS
  Clients = {c1, c2}
  NoClient = NoClient
  Modes = {"local", "remote", "dynamic"}
  Slots = 1
SYMMETRY Symmetry
INVARIANTS
  TypeOK
  ServersAreBounded
  NothingLeftOpen
  SocksConversation
