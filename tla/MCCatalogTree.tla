--------------------------- MODULE MCCatalogTree ---------------------------
(* Model-checking instances of CatalogTree.                                 *)
EXTENDS CatalogTree, TLC

\* Nodes other than the root are interchangeable, and so are names.
Symmetry == Permutations(Nodes \ {Root}) \cup Permutations(Names)
=============================================================================
