----------------------- MODULE FolderDeleteInvariant -----------------------
(* The inductive invariant of FolderDelete: that of the catalog, and what a   *)
(* deletion knows of it.                                                      *)
EXTENDS FolderDelete, CatalogTreeInvariant

NodeVersions == [id : Nodes, revision : Nat]

DeletionTypeOK ==
    deletion \in [step : Steps, folder : (Nodes \cup {NoNode}) \ {Root}, at : Nat,
                  pending : SUBSET NodeVersions, seen : SUBSET NodeVersions,
                  remembered : SUBSET NodeVersions, confirmed : SUBSET NodeVersions,
                  removed : SUBSET NodeVersions]

\* What has been read of the scope, and what is left to read: nothing outside the
\* subtree, the folder itself, and every child of what has been listed.
ScopeIsCovered ==
    /\ deletion.folder \in Folders
    /\ deletion.seen \cup deletion.pending \cup deletion.remembered
          \subseteq Versions(Subtree(deletion.folder))
    /\ Version(deletion.folder) \in deletion.seen \cup deletion.pending
    /\ \A m \in Live : node[m].parent \in IdsOf(deletion.seen) =>
          Version(m) \in deletion.seen \cup deletion.pending

\* A scan is good for as long as the catalog has the revision at which it began.
ScanFits ==
    deletion.step \in Scanning =>
        /\ deletion.at <= catalogRevision
        /\ catalogRevision = deletion.at => ScopeIsCovered

\* What the sagas take was confirmed, and what they took is gone for good.
EraseFits ==
    /\ deletion.step \in {"erasing", "saga"} => deletion.remembered \subseteq deletion.confirmed
    /\ deletion.step = "saga" => deletion.pending \subseteq deletion.remembered
    /\ \A v \in deletion.removed : node[v.id] = Gone

DeletionInv ==
    /\ IInv
    /\ DeletionTypeOK
    /\ ScanFits
    /\ EraseFits
=============================================================================
