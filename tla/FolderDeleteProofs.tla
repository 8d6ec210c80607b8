-------------------------- MODULE FolderDeleteProofs --------------------------
(* Proofs about FolderDelete, from the inductive invariant of                 *)
(* FolderDeleteInvariant: the catalog stays a tree while folders are deleted, *)
(* a scope is a subtree at one moment, and what goes is what was confirmed.   *)
EXTENDS CatalogTreeProofs, FolderDeleteInvariant

-----------------------------------------------------------------------------
(* What a change of the catalog does to its revision and to what is gone.     *)

\* A change of the catalog shows in its revision, and what is gone stays gone.
Shows ==
    /\ \/ node' = node /\ catalogRevision' = catalogRevision
       \/ catalogRevision' = catalogRevision + 1
    /\ \A n \in Nodes : node[n] = Gone => node'[n] = Gone

LEMMA WriteShows ==
  ASSUME TypeOK, NEW n \in Nodes, NEW row, node[n] # Gone,
         Write([node EXCEPT ![n] = row])
  PROVE  Shows
BY DEF TypeOK, Write, Shows

LEMMA RemoveShows ==
  ASSUME TypeOK, NEW removed, Remove(removed)
  PROVE  Shows
BY DEF TypeOK, Remove, Write, Shows

\* Neither a folder nor a connection nor an unused identifier is gone.
LEMMA KindIsNotGone ==
  ASSUME NEW n \in Nodes, node[n].kind \in NodeKinds \/ node[n] = Unused
  PROVE  node[n] # Gone
BY NoRowIsNone

LEMMA ChangeShows ==
  ASSUME IInv, Next
  PROVE  Shows
<1>1. TypeOK
  BY DEF IInv
<1>2. ASSUME NEW id \in Nodes, NEW p \in Nodes, NEW name \in Names, NEW place,
             CreateFolder(id, p, name, place) \/ CreateConnection(id, p, name, place)
      PROVE  Shows
  <2>1. PICK row : node[id] = Unused /\ Write([node EXCEPT ![id] = row])
    BY <1>2 DEF CreateFolder, CreateConnection, Create
  <2> QED BY <1>1, <2>1, KindIsNotGone, WriteShows
<1>3. ASSUME NEW n \in Nodes, NEW name \in Names, NEW item,
             RenameFolder(n, name, item) \/ UpdateConnection(n, name, item)
      PROVE  Shows
  <2>1. PICK row : Write([node EXCEPT ![n] = row])
    BY <1>3 DEF RenameFolder, UpdateConnection, Rename
  <2>2. node[n].kind \in NodeKinds
    BY <1>3 DEF RenameFolder, UpdateConnection, Folders, NodeKinds
  <2> QED BY <1>1, <2>1, <2>2, KindIsNotGone, WriteShows
<1>4. ASSUME NEW n \in Nodes, NEW p \in Nodes, NEW item, NEW place,
             MoveFolder(n, p, item, place) \/ MoveConnection(n, p, item, place)
      PROVE  Shows
  <2>1. PICK row : Write([node EXCEPT ![n] = row])
    BY <1>4 DEF MoveFolder, MoveConnection, Move
  <2>2. node[n].kind \in NodeKinds
    BY <1>4 DEF MoveFolder, MoveConnection, Folders, NodeKinds
  <2> QED BY <1>1, <2>1, <2>2, KindIsNotGone, WriteShows
<1>5. ASSUME NEW n \in Nodes, NEW item, NEW recursive, NEW snapshot,
             DeleteConnection(n, item) \/ DeleteFolder(n, item, recursive, snapshot)
      PROVE  Shows
  BY <1>1, <1>5, RemoveShows DEF DeleteConnection, DeleteFolder
<1>6. ASSUME NEW n \in Nodes,
             BeginOperation(n) \/ ApplyOperation(n) \/ ApplyDelete(n) \/ EndOperation(n)
      PROVE  Shows
  <2>1. CASE BeginOperation(n) \/ EndOperation(n)
    BY <2>1 DEF BeginOperation, EndOperation, Shows
  <2>2. CASE ApplyOperation(n)
    <3>1. PICK row : Write([node EXCEPT ![n] = row])
      BY <2>2 DEF ApplyOperation
    <3>2. node[n].kind \in NodeKinds
      BY <2>2 DEF ApplyOperation, IInv, OperationsHaveConnections, NodeKinds
    <3> QED BY <1>1, <3>1, <3>2, KindIsNotGone, WriteShows
  <2>3. CASE ApplyDelete(n)
    BY <1>1, <2>3, RemoveShows DEF ApplyDelete
  <2> QED BY <1>6, <2>1, <2>2, <2>3
<1>7. CASE ChangeTrust
  BY <1>7 DEF ChangeTrust, Write, Shows
<1>8. CASE Refuse
  BY <1>8 DEF Refuse, vars, Shows
<1>9. ASSUME NEW c \in Callers, ReadItem(c) \/ ReadPlace(c)
      PROVE  Shows
  BY <1>9 DEF ReadItem, ReadPlace, Shows
<1> QED BY <1>2, <1>3, <1>4, <1>5, <1>6, <1>7, <1>8, <1>9 DEF Next, Change

-----------------------------------------------------------------------------
(* Versions and the deletion's record.                                        *)

LEMMA VersionType ==
  ASSUME TypeOK, NEW n \in Nodes
  PROVE  Version(n) \in NodeVersions /\ Version(n).id = n
                                     /\ Version(n).revision = node[n].revision
<1>1. node[n] \in Row \cup {Unused, Gone}
  BY DEF TypeOK
<1>2. node[n].revision \in Nat
  <2>1. CASE node[n] \in Row
    BY <2>1 DEF Row
  <2>2. CASE node[n] \in {Unused, Gone}
    BY <2>2, NoRowIsNone
  <2> QED BY <1>1, <2>1, <2>2
<1> QED BY <1>2 DEF Version, NodeVersions

\* A version is that of its node when the revisions agree.
LEMMA VersionIsCurrent ==
  ASSUME NEW v \in NodeVersions, node[v.id].revision = v.revision
  PROVE  Version(v.id) = v
BY DEF Version, NodeVersions

LEMMA VersionsType ==
  ASSUME TypeOK, NEW S \in SUBSET Nodes
  PROVE  Versions(S) \in SUBSET NodeVersions
BY VersionType DEF Versions

\* A snapshot is the versions of the subtree.
LEMMA SnapshotIsVersions ==
  ASSUME NEW n
  PROVE  Snapshot(n) = Versions(Subtree(n))
BY DEF Snapshot, Versions, Version

\* A deletion that ends is as good as none.
LEMMA IdleFits == Idle \in [step : Steps, folder : (Nodes \cup {NoNode}) \ {Root}, at : Nat,
                  pending : SUBSET NodeVersions, seen : SUBSET NodeVersions,
                  remembered : SUBSET NodeVersions, confirmed : SUBSET NodeVersions,
                  removed : SUBSET NodeVersions]
<1>1. NoNode # Root
  BY RootAssumption
<1> QED BY <1>1 DEF Idle, Steps

LEMMA IdleKeeps ==
  ASSUME IInv', deletion' = Idle
  PROVE  DeletionInv'
<1>1. DeletionTypeOK'
  BY IdleFits DEF DeletionTypeOK
<1>2. ScanFits' /\ EraseFits'
  BY DEF ScanFits, EraseFits, Idle, Scanning
<1> QED BY <1>1, <1>2 DEF DeletionInv

-----------------------------------------------------------------------------
(* The scan.                                                                  *)

\* While the catalog stands still, so does what was read of it.
LEMMA ScanKeeps ==
  ASSUME DeletionInv, IInv', Shows, UNCHANGED deletion
  PROVE  DeletionInv'
<1>1. DeletionTypeOK'
  BY DEF DeletionInv, DeletionTypeOK
<1>2. EraseFits'
  <2>1. \A v \in deletion.removed : v.id \in Nodes
    BY DEF DeletionInv, DeletionTypeOK, NodeVersions
  <2> QED BY <2>1 DEF DeletionInv, EraseFits, Shows
<1>3. ScanFits'
  <2>1. catalogRevision \in Nat /\ deletion.at \in Nat
    BY DEF DeletionInv, IInv, TypeOK, DeletionTypeOK
  <2>2. CASE node' = node /\ catalogRevision' = catalogRevision
    <3>1. /\ Live' = Live /\ Folders' = Folders
          /\ Subtree(deletion.folder)' = Subtree(deletion.folder)
          /\ \A S : Versions(S)' = Versions(S)
          /\ \A n : Version(n)' = Version(n)
      BY <2>2 DEF Live, Folders, Subtree, ClosedDown, Versions, Version
    <3> QED BY <2>2, <3>1 DEF DeletionInv, ScanFits, ScopeIsCovered
  <2>3. CASE catalogRevision' = catalogRevision + 1
    BY <2>1, <2>3 DEF DeletionInv, ScanFits
  <2> QED BY <2>2, <2>3 DEF Shows
<1> QED BY <1>1, <1>2, <1>3 DEF DeletionInv

LEMMA BeginScanKeeps ==
  ASSUME DeletionInv, NEW step \in Scanning, NEW n \in Nodes \ {Root}, BeginScan(step, n)
  PROVE  DeletionInv'
<1>1. IInv /\ TypeOK /\ IsTree /\ catalogRevision \in Nat
  BY DEF DeletionInv, IInv, TypeOK
<1>2. /\ deletion' = [deletion EXCEPT !.step = step, !.folder = n, !.at = catalogRevision,
                          !.pending = {Version(n)}, !.seen = {}, !.remembered = {}]
      /\ UNCHANGED vars /\ n \in Folders
  BY DEF BeginScan
<1>3. IInv'
  BY <1>1, <1>2, NextInvariant
<1>4. /\ deletion'.step = step /\ deletion'.folder = n /\ deletion'.at = catalogRevision
      /\ deletion'.pending = {Version(n)} /\ deletion'.seen = {} /\ deletion'.remembered = {}
      /\ deletion'.confirmed = deletion.confirmed /\ deletion'.removed = deletion.removed
  BY <1>2 DEF DeletionInv, DeletionTypeOK
<1>5. DeletionTypeOK'
  <2>1. {Version(n)} \in SUBSET NodeVersions
    BY <1>1, VersionType
  <2>2. step \in Steps
    BY DEF Steps
  <2> QED BY <1>1, <1>2, <2>1, <2>2 DEF DeletionInv, DeletionTypeOK
<1>6. ScanFits'
  <2>1. n \in Subtree(n)
    BY <1>1, <1>2, SubtreeIsBelow DEF Folders, Live, NodeKinds
  <2>3. /\ Live' = Live /\ Folders' = Folders /\ Subtree(n)' = Subtree(n)
        /\ Versions(Subtree(n))' = Versions(Subtree(n)) /\ Version(n)' = Version(n)
        /\ catalogRevision' = catalogRevision
    BY <1>2 DEF vars, Live, Folders, Subtree, ClosedDown, Versions, Version
  <2>4. Version(n) \in Versions(Subtree(n))
    BY <2>1 DEF Versions
  <2>5. ScopeIsCovered'
    BY <1>2, <1>4, <2>3, <2>4 DEF ScopeIsCovered, IdsOf
  <2> QED BY <1>1, <1>4, <2>3, <2>5 DEF ScanFits
<1>7. EraseFits'
  <2>1. step \notin {"erasing", "saga"}
    BY DEF Scanning
  <2> QED BY <1>2, <1>4, <2>1 DEF DeletionInv, EraseFits, vars
<1> QED BY <1>3, <1>5, <1>6, <1>7 DEF DeletionInv

\* Listing a folder keeps to the subtree, and leaves out no child.
LEMMA ListingCovers ==
  ASSUME DeletionInv, deletion.step \in Scanning, NEW f \in deletion.pending, Unchanged(f)
  PROVE  /\ deletion.folder \in Live \ {Root} /\ f.id \in Nodes
         /\ Found(f) \cup Left(f) \cup Versions(Children(f.id))
               \subseteq Versions(Subtree(deletion.folder))
         /\ deletion.remembered \subseteq Versions(Subtree(deletion.folder))
         /\ Version(deletion.folder) \in Found(f) \cup Left(f)
         /\ \A m \in Live : node[m].parent \in IdsOf(Found(f)) =>
               Version(m) \in Found(f) \cup Left(f)
<1> DEFINE top == deletion.folder
           scope == Versions(Subtree(top))
<1>1. TypeOK /\ IsTree
  BY DEF DeletionInv, IInv
<1>2. ScopeIsCovered
  BY DEF DeletionInv, ScanFits, Unchanged
<1>3. top \in Live \ {Root}
  BY <1>2 DEF ScopeIsCovered, DeletionInv, DeletionTypeOK, Folders, Live, NodeKinds
<1>4. /\ Subtree(top) \in SUBSET (Live \ {Root}) /\ ClosedDown(Subtree(top))
      /\ Live \subseteq Nodes
  BY <1>1, <1>3, SubtreeIsBelow DEF Live
<1>5. /\ deletion.seen \cup deletion.pending \cup deletion.remembered \subseteq scope
      /\ Version(top) \in deletion.seen \cup deletion.pending
      /\ \A m \in Live : node[m].parent \in IdsOf(deletion.seen) =>
            Version(m) \in deletion.seen \cup deletion.pending
  BY <1>2 DEF ScopeIsCovered
<1>6. \A v \in scope : v.id \in Subtree(top) /\ v = Version(v.id)
  BY <1>1, <1>4, VersionType DEF Versions
<1>7. f.id \in Subtree(top) /\ f = Version(f.id)
  BY <1>5, <1>6
<1>8. Children(f.id) \subseteq Subtree(top)
  BY <1>4, <1>7 DEF Children, ClosedDown
<1>9. Versions(Children(f.id)) \subseteq scope
  BY <1>8 DEF Versions
<1>10. Found(f) \cup Left(f) =
         deletion.seen \cup deletion.pending \cup {f} \cup Versions(Children(f.id))
  BY DEF Found, Left, Versions
<1>11. ASSUME NEW m \in Live, node[m].parent \in IdsOf(Found(f))
       PROVE  Version(m) \in Found(f) \cup Left(f)
  <2>1. PICK v \in Found(f) : v.id = node[m].parent
    BY <1>11 DEF IdsOf
  <2>2. CASE v \in deletion.seen
    BY <1>5, <1>10, <2>1, <2>2 DEF IdsOf
  <2>3. CASE v = f
    BY <1>10, <2>1, <2>3 DEF Children, Versions
  <2>4. CASE v \in Versions(Children(f.id) \ Folders)
    <3>1. v.id \notin Folders /\ v.id \in Nodes
      BY <1>1, <1>4, <2>4, VersionType DEF Versions, Children
    <3>2. m # Root
      BY <1>1, <2>1, <3>1, RootAssumption DEF IsTree
    <3> QED BY <1>1, <2>1, <3>1, <3>2 DEF IsTree
  <2> QED BY <2>1, <2>2, <2>3, <2>4 DEF Found
<1> QED BY <1>3, <1>4, <1>5, <1>7, <1>9, <1>10, <1>11

\* When nothing is left to list, the listed versions are those of the whole subtree:
\* what was read in several transactions is what one would have read.
LEMMA ScopeIsWhole ==
  ASSUME DeletionInv, deletion.step \in Scanning, NEW f \in deletion.pending, Unchanged(f),
         Left(f) = {}
  PROVE  Found(f) = Versions(Subtree(deletion.folder))
<1> DEFINE top == deletion.folder
           listed == {m \in Live : Version(m) \in Found(f)}
<1>1. TypeOK /\ IsTree
  BY DEF DeletionInv, IInv
<1>2. /\ top \in Live \ {Root}
      /\ Found(f) \subseteq Versions(Subtree(top))
      /\ Version(top) \in Found(f)
      /\ \A m \in Live : node[m].parent \in IdsOf(Found(f)) => Version(m) \in Found(f)
  BY ListingCovers
<1>3. \A m \in Live : Version(m).id = m
  BY <1>1, VersionType DEF Live
<1>4. top \in listed /\ listed \in SUBSET Live
  BY <1>2
<1>5. ClosedDown(listed)
  BY <1>2, <1>3 DEF ClosedDown, IdsOf
<1>6. Subtree(top) \subseteq listed
  BY <1>4, <1>5 DEF Subtree
<1>7. Versions(Subtree(top)) \subseteq Found(f)
  BY <1>6 DEF Versions
<1> QED BY <1>2, <1>7

LEMMA ListFolderKeeps ==
  ASSUME DeletionInv, ListFolder
  PROVE  DeletionInv'
<1>1. IInv /\ TypeOK /\ catalogRevision \in Nat /\ UNCHANGED vars /\ IInv'
  BY NextInvariant DEF DeletionInv, IInv, TypeOK, ListFolder
<1>2. PICK f \in deletion.pending :
         /\ Unchanged(f)
         /\ (deletion.step = "checking" /\ Left(f) = {}) => Found(f) = deletion.confirmed
         /\ deletion' = [deletion EXCEPT
               !.step = NextStep(Found(f), Left(f)),
               !.pending = Left(f),
               !.seen = Found(f),
               !.remembered = @ \cup Versions({n \in Children(f.id) : node[n].remembered}),
               !.confirmed = IF deletion.step = "inspecting" THEN Found(f) ELSE @]
  BY DEF ListFolder
<1> DEFINE scope == Versions(Subtree(deletion.folder))
           kept == Versions({n \in Children(f.id) : node[n].remembered})
<1>3. deletion.step \in Scanning
  BY DEF ListFolder
<1>4. /\ deletion'.step = NextStep(Found(f), Left(f)) /\ deletion'.folder = deletion.folder
      /\ deletion'.at = deletion.at /\ deletion'.pending = Left(f)
      /\ deletion'.seen = Found(f) /\ deletion'.remembered = deletion.remembered \cup kept
      /\ deletion'.confirmed = IF deletion.step = "inspecting" THEN Found(f)
                               ELSE deletion.confirmed
      /\ deletion'.removed = deletion.removed
  BY <1>2 DEF DeletionInv, DeletionTypeOK
<1>5. /\ deletion.folder \in Live \ {Root} /\ f.id \in Nodes
      /\ Found(f) \cup Left(f) \cup Versions(Children(f.id)) \subseteq scope
      /\ deletion.remembered \subseteq scope
      /\ Version(deletion.folder) \in Found(f) \cup Left(f)
      /\ \A m \in Live : node[m].parent \in IdsOf(Found(f)) =>
            Version(m) \in Found(f) \cup Left(f)
  BY <1>2, <1>3, ListingCovers
<1>6. deletion.remembered \cup kept \subseteq scope
  <2>1. kept \subseteq Versions(Children(f.id))
    BY DEF Versions
  <2> QED BY <1>5, <2>1
<1>7. scope \in SUBSET NodeVersions
  <2>1. Subtree(deletion.folder) \in SUBSET Nodes
    BY DEF Subtree, Live
  <2> QED BY <1>1, <2>1, VersionsType
<1>8. NextStep(Found(f), Left(f)) \in {deletion.step, "confirming", "erasing"}
  BY DEF NextStep
<1>9. DeletionTypeOK'
  <2>1. /\ Found(f) \in SUBSET NodeVersions /\ Left(f) \in SUBSET NodeVersions
        /\ deletion.remembered \cup kept \in SUBSET NodeVersions
    BY <1>5, <1>6, <1>7
  <2>2. NextStep(Found(f), Left(f)) \in Steps
    BY <1>3, <1>8 DEF Steps
  <2> HIDE DEF scope, kept
  <2>3. deletion' = [step |-> NextStep(Found(f), Left(f)), folder |-> deletion.folder,
                     at |-> deletion.at, pending |-> Left(f), seen |-> Found(f),
                     remembered |-> deletion.remembered \cup kept,
                     confirmed |-> IF deletion.step = "inspecting" THEN Found(f)
                                   ELSE deletion.confirmed,
                     removed |-> deletion.removed]
    BY <1>2 DEF DeletionInv, DeletionTypeOK, kept
  <2> QED BY <2>1, <2>2, <2>3 DEF DeletionInv, DeletionTypeOK
<1>10. ScanFits'
  <2>1. /\ Live' = Live /\ Folders' = Folders /\ catalogRevision' = catalogRevision
        /\ Subtree(deletion.folder)' = Subtree(deletion'.folder) /\ node' = node
        /\ \A S : Versions(S)' = Versions(S)
        /\ \A n : Version(n)' = Version(n)
    BY <1>1 DEF vars, Live, Folders, Subtree, ClosedDown, Versions, Version
  <2>2. deletion.folder \in Folders
    BY <1>2, <1>3 DEF DeletionInv, ScanFits, ScopeIsCovered, Unchanged
  <2>3. ScopeIsCovered'
    BY <1>4, <1>5, <1>6, <2>1, <2>2 DEF ScopeIsCovered
  <2>4. deletion.at <= catalogRevision
    BY <1>3 DEF DeletionInv, ScanFits
  <2> QED BY <1>4, <2>1, <2>3, <2>4 DEF ScanFits
<1>11. EraseFits'
  <2>1. ASSUME deletion'.step \in {"erasing", "saga"}
        PROVE  deletion'.remembered \subseteq deletion'.confirmed
    <3>1. deletion.step = "checking" /\ Left(f) = {}
      BY <1>3, <1>4, <2>1 DEF NextStep, Scanning
    <3>2. Found(f) = scope /\ Found(f) = deletion.confirmed
      BY <1>2, <1>3, <3>1, ScopeIsWhole
    <3> QED BY <1>4, <1>6, <3>1, <3>2
  <2>2. deletion'.step # "saga"
    BY <1>3, <1>4, <1>8 DEF Scanning
  <2> QED BY <1>1, <1>4, <2>1, <2>2 DEF DeletionInv, EraseFits, vars
<1> QED BY <1>1, <1>9, <1>10, <1>11 DEF DeletionInv

-----------------------------------------------------------------------------
(* The sagas, and the transaction at the end.                                 *)

\* The connection that a saga deletes was confirmed.
LEMMA SagaOfConfirmed ==
  ASSUME DeletionInv, NEW v \in deletion.pending, deletion.step = "saga"
  PROVE  v \in NodeVersions /\ v.id \in Nodes /\ v \in deletion.confirmed
BY DEF DeletionInv, DeletionTypeOK, EraseFits, NodeVersions

\* A step of the catalog that does not scan, of a record that keeps its type.
LEMMA NoScanKeeps ==
  ASSUME DeletionInv, IInv', Shows, DeletionTypeOK', deletion'.step \notin Scanning,
         deletion'.step \in {"erasing", "saga"} =>
             deletion'.remembered \subseteq deletion'.confirmed,
         deletion'.step = "saga" => deletion'.pending \subseteq deletion'.remembered,
         \A v \in deletion'.removed : v \in deletion.removed \/ node'[v.id] = Gone
  PROVE  DeletionInv'
<1>1. \A v \in deletion.removed : v.id \in Nodes /\ node[v.id] = Gone
  BY DEF DeletionInv, DeletionTypeOK, NodeVersions, EraseFits
<1>2. \A v \in deletion'.removed : node'[v.id] = Gone
  BY <1>1 DEF Shows
<1> QED BY <1>2 DEF DeletionInv, ScanFits, EraseFits

LEMMA ErasedKeeps ==
  ASSUME DeletionInv, IInv', Shows, NEW v \in deletion.pending, deletion.step = "saga",
         node'[v.id] = Gone, Erased(v)
  PROVE  DeletionInv'
<1>1. /\ v \in NodeVersions
      /\ deletion.remembered \subseteq deletion.confirmed
  BY SagaOfConfirmed DEF DeletionInv, EraseFits
<1>2. deletion' = [deletion EXCEPT !.step = "erasing", !.pending = {},
                       !.remembered = deletion.remembered \ {v},
                       !.removed = deletion.removed \cup {v}]
  BY DEF Erased
<1>3. /\ deletion'.step = "erasing" /\ deletion'.remembered = deletion.remembered \ {v}
      /\ deletion'.confirmed = deletion.confirmed
      /\ deletion'.removed = deletion.removed \cup {v}
  BY <1>2 DEF DeletionInv, DeletionTypeOK
<1>4. DeletionTypeOK'
  <2>1. "erasing" \in Steps /\ deletion.remembered \ {v} \in SUBSET NodeVersions
        /\ deletion.removed \cup {v} \in SUBSET NodeVersions
    BY <1>1 DEF DeletionInv, DeletionTypeOK, Steps
  <2> QED BY <1>2, <2>1 DEF DeletionInv, DeletionTypeOK
<1> QED BY <1>1, <1>3, <1>4, NoScanKeeps DEF Scanning

\* What a saga deletes is gone, and nothing else.
LEMMA ApplyDeleteTakes ==
  ASSUME DeletionInv, NEW v \in deletion.pending, deletion.step = "saga", ApplyDelete(v.id)
  PROVE  /\ IInv' /\ Shows
         /\ \A n \in Nodes : node'[n] = IF n = v.id THEN Gone ELSE node[n]
<1>1. v.id \in Nodes /\ IInv
  BY SagaOfConfirmed DEF DeletionInv
<1>2. Remove({v.id})
  BY DEF ApplyDelete
<1>3. IInv'
  BY <1>1, OperationKeeps
<1>4. Shows
  BY <1>1, <1>2, RemoveShows DEF IInv
<1>5. \A n \in Nodes : node'[n] = IF n = v.id THEN Gone ELSE node[n]
  BY <1>2 DEF Remove, Write
<1> QED BY <1>3, <1>4, <1>5

LEMMA BeginEraseKeeps ==
  ASSUME DeletionInv, BeginErase
  PROVE  DeletionInv'
<1>1. PICK v \in deletion.remembered :
         /\ BeginOperation(v.id)
         /\ deletion' = [deletion EXCEPT !.step = "saga", !.pending = {v}]
  BY DEF BeginErase
<1>2. deletion.step = "erasing" /\ deletion.remembered \subseteq deletion.confirmed
  BY DEF BeginErase, DeletionInv, EraseFits
<1>3. v \in NodeVersions /\ v.id \in Nodes
  BY DEF DeletionInv, DeletionTypeOK, NodeVersions
<1>4. IInv' /\ Shows
  BY <1>1, <1>3, OperationKeeps DEF DeletionInv, BeginOperation, Shows
<1>5. DeletionTypeOK'
  <2>1. "saga" \in Steps /\ {v} \in SUBSET NodeVersions
    BY <1>3 DEF Steps
  <2> QED BY <1>1, <2>1 DEF DeletionInv, DeletionTypeOK
<1>6. /\ deletion'.step = "saga" /\ deletion'.pending = {v}
      /\ deletion'.remembered = deletion.remembered
      /\ deletion'.confirmed = deletion.confirmed /\ deletion'.removed = deletion.removed
  BY <1>1 DEF DeletionInv, DeletionTypeOK
<1> QED BY <1>2, <1>4, <1>5, <1>6, NoScanKeeps DEF Scanning

\* What the last transaction takes is the confirmed versions that the sagas left.
LEMMA DeleteRestTakes ==
  ASSUME DeletionInv, DeleteRest
  PROVE  /\ IInv' /\ Shows
         /\ Remaining = Versions(Subtree(deletion.folder))
         /\ \A n \in Nodes : node'[n] = IF n \in Subtree(deletion.folder) THEN Gone ELSE node[n]
<1>1. /\ DeleteFolder(deletion.folder, Expected, TRUE, Remaining)
      /\ deletion.folder \in Nodes /\ IInv /\ TypeOK
  BY DEF DeleteRest, DeletionInv, IInv, DeleteFolder, Folders
<1>2. IInv'
  BY <1>1, DeleteKeeps
<1>3. Remaining = Versions(Subtree(deletion.folder)) /\ Remove(Subtree(deletion.folder))
  BY <1>1, SnapshotIsVersions DEF DeleteFolder, MatchesSnapshot
<1>4. Shows
  BY <1>1, <1>3, RemoveShows
<1>5. \A n \in Nodes : node'[n] = IF n \in Subtree(deletion.folder) THEN Gone ELSE node[n]
  BY <1>3 DEF Remove, Write
<1> QED BY <1>2, <1>3, <1>4, <1>5

LEMMA DeleteRestKeeps ==
  ASSUME DeletionInv, DeleteRest
  PROVE  DeletionInv'
<1>1. IInv' /\ Shows
  BY DeleteRestTakes
<1>2. deletion' = [deletion EXCEPT !.step = "deleted"]
  BY DEF DeleteRest
<1>3. DeletionTypeOK' /\ deletion'.step = "deleted" /\ deletion'.removed = deletion.removed
  BY <1>2 DEF DeletionInv, DeletionTypeOK, Steps
<1> QED BY <1>1, <1>3, NoScanKeeps DEF Scanning

-----------------------------------------------------------------------------
(* The invariant.                                                             *)

LEMMA DeletionStepKeeps ==
  ASSUME DeletionInv, DeletionStep
  PROVE  DeletionInv'
<1>0. IInv /\ (UNCHANGED vars => IInv' /\ Shows)
  BY NextInvariant DEF DeletionInv, vars, Shows
<1>1. CASE Inspect
  <2>1. PICK n \in Folders \ {Root} : BeginScan("inspecting", n)
    BY <1>1 DEF Inspect
  <2>2. n \in Nodes \ {Root} /\ "inspecting" \in Scanning
    BY DEF Folders, Scanning
  <2> QED BY <2>1, <2>2, BeginScanKeeps
<1>2. CASE ListFolder
  BY <1>2, ListFolderKeeps
<1>3. CASE Confirm
  <2>1. BeginScan("checking", deletion.folder)
    BY <1>3 DEF Confirm
  <2>2. deletion.folder \in Nodes \ {Root} /\ "checking" \in Scanning
    BY <2>1 DEF BeginScan, Folders, Scanning, DeletionInv, DeletionTypeOK
  <2> QED BY <2>1, <2>2, BeginScanKeeps
<1>4. CASE GiveUp
  BY <1>0, <1>4, IdleKeeps DEF GiveUp
<1>5. CASE BeginErase
  BY <1>5, BeginEraseKeeps
<1>6. CASE Erase
  <2>1. PICK v \in deletion.pending : ApplyDelete(v.id) /\ Erased(v)
    BY <1>6 DEF Erase
  <2>2. deletion.step = "saga"
    BY <1>6 DEF Erase
  <2>3. IInv' /\ Shows /\ node'[v.id] = Gone
    BY <2>1, <2>2, ApplyDeleteTakes, SagaOfConfirmed
  <2> QED BY <2>1, <2>2, <2>3, ErasedKeeps
<1>7. CASE EraseCompleted
  <2>1. PICK v \in deletion.pending : node[v.id] = Gone /\ Erased(v)
    BY <1>7 DEF EraseCompleted
  <2>2. deletion.step = "saga" /\ UNCHANGED vars
    BY <1>7 DEF EraseCompleted
  <2>3. node'[v.id] = Gone
    BY <2>1, <2>2 DEF vars
  <2> QED BY <1>0, <2>1, <2>2, <2>3, ErasedKeeps
<1>8. CASE EraseFails
  <2>1. deletion.step = "saga" /\ deletion' = Idle
    BY <1>8 DEF EraseFails
  <2>2. CASE UNCHANGED vars
    BY <1>0, <2>1, <2>2, IdleKeeps
  <2>3. ASSUME NEW v \in deletion.pending, EndOperation(v.id) \/ ApplyDelete(v.id)
        PROVE  DeletionInv'
    <3>1. v.id \in Nodes
      BY <2>1, SagaOfConfirmed
    <3>2. IInv'
      BY <1>0, <2>3, <3>1, OperationKeeps
    <3> QED BY <2>1, <3>2, IdleKeeps
  <2> QED BY <1>8, <2>2, <2>3 DEF EraseFails
<1>9. CASE DeleteRest
  BY <1>9, DeleteRestKeeps
<1> QED BY <1>1, <1>2, <1>3, <1>4, <1>5, <1>6, <1>7, <1>8, <1>9 DEF DeletionStep

LEMMA DeletionNextKeeps == DeletionInv /\ [DeletionNext]_allVars => DeletionInv'
<1> SUFFICES ASSUME DeletionInv, [DeletionNext]_allVars PROVE DeletionInv'
  OBVIOUS
<1>1. CASE Next /\ UNCHANGED deletion
  <2>1. IInv' /\ Shows
    BY <1>1, NextInvariant, ChangeShows DEF DeletionInv
  <2> QED BY <1>1, <2>1, ScanKeeps
<1>2. CASE DeletionStep
  BY <1>2, DeletionStepKeeps
<1>3. CASE UNCHANGED allVars
  <2>1. UNCHANGED vars /\ UNCHANGED deletion
    BY <1>3 DEF allVars
  <2>2. IInv' /\ Shows
    BY <2>1, NextInvariant DEF DeletionInv, vars, Shows
  <2> QED BY <2>1, <2>2, ScanKeeps
<1> QED BY <1>1, <1>2, <1>3 DEF DeletionNext

LEMMA DeletionInitFits == DeletionInit => DeletionInv
<1> SUFFICES ASSUME DeletionInit PROVE DeletionInv
  OBVIOUS
<1>1. PICK rows \in [Nodes \ {Root} -> Stored] :
         node = [n \in Nodes |-> IF n = Root
                                 THEN [Unused EXCEPT !.kind = "folder", !.revision = 1]
                                 ELSE rows[n]]
  BY DEF DeletionInit
<1>2. node \in [Nodes -> Row \cup {Unused, Gone}]
  <2>1. [Unused EXCEPT !.kind = "folder", !.revision = 1] \in Row
    <3>1. 1 \in Nat \ {0} /\ FALSE \in BOOLEAN
      OBVIOUS
    <3> QED BY <3>1 DEF Unused, NoRow, Row, NodeKinds
  <2>2. Stored \subseteq Row \cup {Unused}
    <3> SUFFICES ASSUME NEW row \in [kind : NodeKinds, parent : Nodes, name : Names,
                                     revision : {1}, remembered : BOOLEAN]
                 PROVE  row \in Row
      BY DEF Stored
    <3>1. 1 \in Nat \ {0}
      OBVIOUS
    <3> QED BY <3>1 DEF Row
  <2> QED BY <1>1, <2>1, <2>2
<1>3. TypeOK
  BY <1>2 DEF DeletionInit, TypeOK, IsView
<1>4. OperationsHaveConnections /\ SeenIsPast /\ SeenIsCurrent
  BY DEF DeletionInit, OperationsHaveConnections, SeenIsPast, SeenIsCurrent
<1>5. DeletionTypeOK /\ ScanFits /\ EraseFits
  BY IdleFits DEF DeletionInit, DeletionTypeOK, ScanFits, EraseFits, Idle, Scanning
<1> QED BY <1>3, <1>4, <1>5 DEF DeletionInit, DeletionInv, IInv

\* The invariant of a catalog in which folders are deleted, whatever is stored at the
\* start and however many processes change it (folder_delete.go:30).
THEOREM DeletionInvariant == DeletionSpec => []DeletionInv
<1> QED BY DeletionInitFits, DeletionNextKeeps, PTL DEF DeletionSpec

\* Recursive deletion leaves a tree whose siblings differ in name, and no operation
\* without its connection (folder_repository.go:244).
THEOREM DeletionKeepsTheTree ==
  DeletionSpec => [](IsTree /\ NamesAreUnique /\ OperationsHaveConnections)
<1>1. DeletionInv => IsTree /\ NamesAreUnique /\ OperationsHaveConnections
  BY DEF DeletionInv, IInv
<1> QED BY <1>1, DeletionInvariant, PTL

\* A scope that was read in several transactions is the subtree at one moment
\* (folder_delete.go:124).
THEOREM ScopesAreAtomic == DeletionSpec => ScopeIsAtomic
<1>1. DeletionInv /\ [DeletionNext]_allVars =>
        [(deletion.step \in Scanning /\ deletion'.step \in {"confirming", "erasing"})
            => deletion'.seen = Snapshot(deletion.folder)]_allVars
  <2> SUFFICES ASSUME DeletionInv, DeletionNext, deletion.step \in Scanning,
                      deletion'.step \in {"confirming", "erasing"}
               PROVE  deletion'.seen = Snapshot(deletion.folder)
    BY DEF allVars
  <2>1. ListFolder
    <3>1. ~(Next /\ UNCHANGED deletion)
      BY DEF Scanning
    <3>2. deletion.step \notin {"idle", "deleted", "confirming", "erasing", "saga"}
      BY DEF Scanning
    <3>3. ~GiveUp
      BY DEF GiveUp, Idle
    <3> QED BY <3>1, <3>2, <3>3
            DEF DeletionNext, DeletionStep, Inspect, Confirm, BeginErase, Erase,
                EraseCompleted, EraseFails, DeleteRest
  <2>2. PICK f \in deletion.pending :
           /\ Unchanged(f)
           /\ deletion'.step = NextStep(Found(f), Left(f)) /\ deletion'.seen = Found(f)
    BY <2>1 DEF ListFolder, DeletionInv, DeletionTypeOK
  <2>3. Left(f) = {}
    BY <2>2 DEF NextStep, Scanning
  <2> QED BY <2>2, <2>3, ScopeIsWhole, SnapshotIsVersions
<1> QED BY <1>1, DeletionInvariant, PTL DEF DeletionSpec, ScopeIsAtomic

\* A deletion takes what was confirmed, at the revision that was confirmed, and
\* nothing else; it succeeds only when all of it is gone (folder_delete.go:55).
THEOREM OnlyTheConfirmedGoes == DeletionSpec => DeletesTheConfirmed
<1>1. ASSUME DeletionInv, DeletionNext, deletion' # deletion, NEW n \in Live, node'[n] = Gone
      PROVE  Version(n) \in deletion.confirmed
  <2>1. n \in Nodes /\ node[n] # Gone /\ IInv
    BY <1>1, NoRowIsNone DEF Live, DeletionInv
  <2>2. DeletionStep /\ node' # node
    BY <1>1, <2>1 DEF DeletionNext
  <2>3. CASE DeleteRest
    <3>1. n \in Subtree(deletion.folder)
      BY <1>1, <2>1, <2>3, DeleteRestTakes
    <3>2. Version(n) \in Remaining
      BY <1>1, <2>3, <3>1, DeleteRestTakes DEF Versions
    <3> QED BY <3>2 DEF Remaining
  <2>4. ASSUME NEW v \in deletion.pending, deletion.step = "saga", Pinned(v), ApplyDelete(v.id)
        PROVE  Version(n) \in deletion.confirmed
    <3>1. n = v.id
      BY <1>1, <2>1, <2>4, ApplyDeleteTakes
    <3>2. v \in NodeVersions /\ v \in deletion.confirmed
      BY <1>1, <2>4, SagaOfConfirmed
    <3> QED BY <2>4, <3>1, <3>2, VersionIsCurrent DEF Pinned
  <2>5. DeleteRest \/ \E v \in deletion.pending :
                         deletion.step = "saga" /\ Pinned(v) /\ ApplyDelete(v.id)
    BY <2>2 DEF DeletionStep, Inspect, ListFolder, Confirm, BeginScan, GiveUp, BeginErase,
               BeginOperation, Erase, EraseCompleted, EraseFails, EndOperation, vars
  <2> QED BY <2>3, <2>4, <2>5
<1>2. ASSUME DeletionInv, DeletionNext, deletion.step = "erasing", deletion'.step = "deleted",
             NEW n \in IdsOf(deletion.confirmed)
      PROVE  node'[n] = Gone
  <2>1. DeleteRest
    <3>1. ~(Next /\ UNCHANGED deletion)
      BY <1>2
    <3>2. ~GiveUp
      BY <1>2 DEF GiveUp, Idle
    <3>3. ASSUME BeginErase PROVE FALSE
      <4>1. PICK v \in deletion.remembered :
               deletion' = [deletion EXCEPT !.step = "saga", !.pending = {v}]
        BY <3>3 DEF BeginErase
      <4>2. deletion'.step = "saga"
        BY <1>2, <4>1 DEF DeletionInv, DeletionTypeOK
      <4> QED BY <1>2, <4>2
    <3> QED BY <1>2, <3>1, <3>2, <3>3
            DEF DeletionNext, DeletionStep, Inspect, ListFolder, Scanning, Confirm, Erase,
                EraseCompleted, EraseFails
  <2>2. PICK v \in deletion.confirmed : v.id = n
    BY <1>2 DEF IdsOf
  <2>3. CASE v \in deletion.removed
    <3>1. node[v.id] = Gone /\ v.id \in Nodes
      BY <1>2, <2>3 DEF DeletionInv, EraseFits, DeletionTypeOK, NodeVersions
    <3>2. Shows
      BY <1>2, <2>1, DeleteRestTakes
    <3> QED BY <2>2, <3>1, <3>2 DEF Shows
  <2>4. CASE v \in Remaining
    <3>1. PICK m \in Subtree(deletion.folder) : v = Version(m)
      BY <1>2, <2>1, <2>4, DeleteRestTakes DEF Versions
    <3>2. m = n /\ m \in Nodes
      BY <2>2, <3>1 DEF Version, Subtree, Live
    <3> QED BY <1>2, <2>1, <3>1, <3>2, DeleteRestTakes
  <2> QED BY <2>2, <2>3, <2>4 DEF Remaining
<1>3. DeletionInv /\ [DeletionNext]_allVars =>
        [/\ deletion' # deletion =>
               \A n \in Live : node'[n] = Gone => Version(n) \in deletion.confirmed
         /\ (deletion.step = "erasing" /\ deletion'.step = "deleted") =>
               \A n \in IdsOf(deletion.confirmed) : node'[n] = Gone]_allVars
  BY <1>1, <1>2
<1> QED BY <1>3, DeletionInvariant, PTL DEF DeletionSpec, DeletesTheConfirmed
=============================================================================
