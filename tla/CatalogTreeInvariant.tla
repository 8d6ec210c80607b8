----------------------- MODULE CatalogTreeInvariant -----------------------
(* The inductive invariant of CatalogTree.                                  *)
EXTENDS CatalogTree

\* What a caller has seen was once so: the node has the same revision, a later
\* one, or is gone.
SeenIsPast ==
    \A c \in Callers : \A v \in view[c].item \cup view[c].place :
        node[v.id] = Gone \/ (v.id \in Live /\ v.row.revision <= node[v.id].revision)

IInv ==
    /\ TypeOK
    /\ IsTree
    /\ NamesAreUnique
    /\ OperationsHaveConnections
    /\ SeenIsPast
    /\ SeenIsCurrent
=============================================================================
