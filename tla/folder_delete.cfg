SPECIFICATION DeletionSpec
CONSTANTS
  Nodes = {root, n1, n2, n3}
  Root = root
  NoNode = NoNode
  Names = {a, b}
  Callers = {}
  MaxDepth = 3
  MaxCatalog = 3
SYMMETRY Symmetry
PROPERTIES
  ScopeIsAtomic
  DeletesTheConfirmed
