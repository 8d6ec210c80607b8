--------------------------- MODULE MCFolderDelete ---------------------------
(* Model-checking instances of FolderDelete.                                 *)
EXTENDS FolderDeleteInvariant, TLC

\* Nodes other than the root are interchangeable, and so are names.
Symmetry == Permutations(Nodes \ {Root}) \cup Permutations(Names)
=============================================================================
