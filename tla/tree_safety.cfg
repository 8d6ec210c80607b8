SPECIFICATION Spec
CONSTANTS
  Nodes = {root, n1, n2, n3}
  Root = root
  NoNode = NoNode
  Names = {a, b}
  Callers = {c1}
  MaxDepth = 3
  MaxCatalog = 6
SYMMETRY Symmetry
INVARIANTS
  IsTree
  NamesAreUnique
PROPERTIES
  ConfirmedMoves
