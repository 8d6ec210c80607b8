------------------------- MODULE CatalogTreeProofs -------------------------
(***************************************************************************)
(* CatalogTree keeps its tree, what a revision stands for, and where a     *)
(* confirmed move leads.                                                   *)
(***************************************************************************)
EXTENDS CatalogTreeInvariant, FiniteSetTheorems, WellFoundedInduction, TLAPS

-----------------------------------------------------------------------------
(* Rows and subtrees.                                                      *)

\* The rows without a node are none.
LEMMA NoRowIsNone ==
  /\ Unused \notin Row /\ Gone \notin Row /\ Unused # Gone
  /\ Unused.kind \notin NodeKinds /\ Gone.kind \notin NodeKinds
  /\ Unused.revision = 0 /\ Gone.revision = 0
BY DEF Unused, Gone, NoRow, Row, NodeKinds

\* Of what is typed, the live nodes are those with a row.
LEMMA LiveHasRow ==
  ASSUME TypeOK, NEW n \in Nodes
  PROVE  n \in Live <=> node[n] \in Row
BY NoRowIsNone DEF TypeOK, Live, Row

\* A node below the root has a subtree that it belongs to, that does not have the
\* root, and that no child is missing from.
LEMMA SubtreeIsBelow ==
  ASSUME TypeOK, IsTree, NEW n \in Live \ {Root}
  PROVE  /\ n \in Subtree(n)
         /\ Subtree(n) \in SUBSET (Live \ {Root})
         /\ ClosedDown(Subtree(n))
<1>1. n \in Subtree(n)
  BY DEF Subtree
<1>2. ClosedDown(Live \ {Root})
  BY RootAssumption DEF ClosedDown, IsTree, Live
<1>3. Subtree(n) \in SUBSET (Live \ {Root})
  BY <1>2 DEF Subtree
<1>4. ASSUME NEW m \in Live, node[m].parent \in Subtree(n)
      PROVE  m \in Subtree(n)
  BY <1>4 DEF Subtree, ClosedDown
<1> QED BY <1>1, <1>3, <1>4 DEF ClosedDown

-----------------------------------------------------------------------------
(* What callers have seen.                                                 *)

\* How a step may change a row.
Later(n) ==
    \/ node'[n] = node[n]
    \/ node'[n] = Gone
    \/ node[n] \in Row /\ node'[n] \in Row /\ node[n].revision < node'[n].revision
    \/ node[n] = Unused /\ node'[n] \in Row

\* Rows that only become later leave what was seen in the past.
LEMMA SeenKeeps ==
  ASSUME IInv, UNCHANGED view, TypeOK', \A n \in Nodes : Later(n)
  PROVE  SeenIsPast' /\ SeenIsCurrent'
<1> SUFFICES ASSUME NEW c \in Callers, NEW v \in view[c].item \cup view[c].place
             PROVE  /\ node'[v.id] = Gone \/ (v.id \in Live' /\ v.row.revision <= node'[v.id].revision)
                    /\ node'[v.id].revision = v.row.revision => node'[v.id] = v.row
  BY DEF SeenIsPast, SeenIsCurrent
<1>1. v.id \in Nodes /\ v.row \in Row
  BY DEF IInv, TypeOK, IsView
<1>2. node[v.id] = Gone \/ (v.id \in Live /\ v.row.revision <= node[v.id].revision)
  BY DEF IInv, SeenIsPast
<1>3. node[v.id].revision = v.row.revision => node[v.id] = v.row
  BY DEF IInv, SeenIsCurrent
<1>4. v.row.revision \in Nat \ {0}
  BY <1>1 DEF Row
<1>5. Later(v.id)
  BY <1>1
<1>6. CASE node'[v.id] = node[v.id]
  BY <1>1, <1>2, <1>3, <1>6 DEF Live
<1>7. CASE node'[v.id] = Gone
  BY <1>4, <1>7, NoRowIsNone
<1>8. CASE node[v.id] \in Row /\ node'[v.id] \in Row /\ node[v.id].revision < node'[v.id].revision
  <2>1. node[v.id].revision \in Nat /\ node'[v.id].revision \in Nat
    BY <1>8 DEF Row
  <2>2. v.row.revision <= node[v.id].revision
    BY <1>2, <1>8, NoRowIsNone
  <2>3. v.id \in Live'
    BY <1>1, <1>8 DEF Live, Row
  <2> QED BY <1>4, <1>8, <2>1, <2>2, <2>3
<1>9. CASE node[v.id] = Unused /\ node'[v.id] \in Row
  BY <1>2, <1>9, NoRowIsNone DEF Live
<1> QED BY <1>5, <1>6, <1>7, <1>8, <1>9 DEF Later

-----------------------------------------------------------------------------
(* A new node, a changed row, a moved node, nodes removed.                 *)

\* The next revision is a revision.
LEMMA AdvanceIsRow ==
  ASSUME NEW row \in Row
  PROVE  /\ Advance(row) \in Row
         /\ row.revision < Advance(row).revision
         /\ Advance(row).kind = row.kind /\ Advance(row).parent = row.parent
         /\ Advance(row).name = row.name
<1>1. row.revision \in Nat \ {0}
  BY DEF Row
<1>2. row.revision + 1 \in Nat \ {0} /\ row.revision < row.revision + 1
  BY <1>1
<1> QED BY <1>2 DEF Advance, Row

\* So is a first revision.
LEMMA NewRowIsRow ==
  ASSUME NEW kind \in NodeKinds, NEW p \in Nodes, NEW name \in Names
  PROVE  /\ NewRow(kind, p, name) \in Row
         /\ NewRow(kind, p, name).kind = kind
         /\ NewRow(kind, p, name).parent = p /\ NewRow(kind, p, name).name = name
<1>1. 1 \in Nat \ {0}
  OBVIOUS
<1>2. p \in Nodes \cup {NoNode}
  OBVIOUS
<1>3. name \in Names \cup {""}
  OBVIOUS
<1>4. FALSE \in BOOLEAN
  OBVIOUS
<1> QED BY <1>1, <1>2, <1>3, <1>4 DEF NewRow, Row

\* A created node hangs where it was asked to.
LEMMA CreateKeeps ==
  ASSUME IInv, NEW kind \in NodeKinds, NEW id \in Nodes, NEW p \in Nodes, NEW name \in Names,
         NEW place, Create(kind, id, p, name, place)
  PROVE  IInv'
<1>0. /\ node[id] = Unused /\ p \in Folders /\ NameAvailable(p, name, id)
      /\ node' = [node EXCEPT ![id] = NewRow(kind, p, name)]
      /\ catalogRevision' = catalogRevision + 1
      /\ UNCHANGED <<operation, view>>
  BY DEF Create, Write
<1>1. NewRow(kind, p, name) \in Row /\ NewRow(kind, p, name).kind = kind
      /\ NewRow(kind, p, name).parent = p /\ NewRow(kind, p, name).name = name
  BY NewRowIsRow
<1>2. node \in [Nodes -> Row \cup {Unused, Gone}] /\ id \notin Live /\ id # p /\ id # Root
  BY <1>0, NoRowIsNone DEF IInv, TypeOK, Live, Folders, NodeKinds, IsTree
<1>3. /\ node'[id] = NewRow(kind, p, name)
      /\ \A n \in Nodes : n # id => node'[n] = node[n]
  BY <1>0, <1>2
<1>4. TypeOK'
  BY <1>0, <1>1, <1>2 DEF IInv, TypeOK
<1>5. Live' = Live \cup {id} /\ Folders \subseteq Folders'
  BY <1>1, <1>2, <1>3 DEF Live, Folders, NodeKinds
<1>6. IsTree'
  <2>1. Root \in Folders' /\ node'[Root].parent = NoNode
    BY <1>2, <1>3, <1>5 DEF IInv, IsTree, Folders
  <2>2. ASSUME NEW n \in Live' \ {Root} PROVE node'[n].parent \in Folders'
    BY <1>0, <1>1, <1>3, <1>5, <2>2 DEF IInv, IsTree, Live
  <2>3. ASSUME NEW S \in SUBSET (Live' \ {Root}), Hanging(S)' PROVE FALSE
    <3>1. id \notin S
      <4> SUFFICES ASSUME id \in S PROVE FALSE
        OBVIOUS
      <4>1. p \in S
        BY <1>1, <1>3, <2>3 DEF Hanging
      <4> DEFINE T == S \ {id}
      <4>2. T # {} /\ T \in SUBSET (Live \ {Root})
        BY <4>1, <1>2, <1>5
      <4>3. ASSUME NEW n \in T PROVE node[n].parent \in T
        <5>1. node[n].parent \in S
          BY <1>3, <2>3, <4>2, <4>3 DEF Hanging, Live
        <5>2. node[n].parent \in Folders
          BY <4>2, <4>3 DEF IInv, IsTree
        <5>3. id \notin Folders
          BY <1>2 DEF Live, Folders, NodeKinds
        <5> QED BY <5>1, <5>2, <5>3
      <4> QED BY <4>2, <4>3 DEF IInv, IsTree, Hanging
    <3>2. S \in SUBSET (Live \ {Root}) /\ Hanging(S)
      BY <1>3, <1>5, <2>3, <3>1 DEF Hanging, Live
    <3> QED BY <3>2 DEF IInv, IsTree
  <2> QED BY <2>1, <2>2, <2>3 DEF IsTree
<1>7. NamesAreUnique'
  <2> SUFFICES ASSUME NEW m \in Live' \ {Root}, NEW n \in Live' \ {Root},
                      node'[m].parent = node'[n].parent, node'[m].name = node'[n].name
               PROVE  m = n
    BY DEF NamesAreUnique
  <2>1. CASE m # id /\ n # id
    BY <1>3, <1>5, <2>1 DEF IInv, NamesAreUnique, Live
  <2>2. ASSUME NEW k \in Live \ {Root}, node[k].parent = p, node[k].name = name PROVE FALSE
    BY <1>0, <1>2, <2>2 DEF NameAvailable, Children
  <2> QED BY <1>1, <1>3, <1>5, <2>1, <2>2 DEF Live
<1>8. OperationsHaveConnections'
  BY <1>0, <1>2, <1>3, NoRowIsNone DEF IInv, OperationsHaveConnections, NodeKinds
<1>9. \A n \in Nodes : Later(n)
  BY <1>0, <1>1, <1>3 DEF Later
<1> QED BY <1>0, <1>4, <1>6, <1>7, <1>8, <1>9, SeenKeeps DEF IInv

\* A row that changes in place, its name to one that is available, keeps the tree.
LEMMA ChangeInPlace ==
  ASSUME IInv, NEW n \in Live, NEW row \in Row,
         row.kind = node[n].kind, row.parent = node[n].parent, node[n].revision < row.revision,
         row.name # node[n].name => NameAvailable(node[n].parent, row.name, n),
         node' = [node EXCEPT ![n] = row], catalogRevision' \in Nat, UNCHANGED view,
         operation' \in [Nodes -> {"none", "pending", "applied"}],
         \A m \in Nodes : operation'[m] # "none" => node[m].kind = "connection"
  PROVE  IInv'
<1>1. node \in [Nodes -> Row \cup {Unused, Gone}] /\ n \in Nodes /\ node[n] \in Row
  BY LiveHasRow DEF IInv, TypeOK, Live
<1>2. node'[n] = row /\ \A m \in Nodes : m # n => node'[m] = node[m]
  BY <1>1
<1>3. TypeOK'
  BY <1>1 DEF IInv, TypeOK
<1>4. \A m \in Nodes : node'[m].kind = node[m].kind /\ node'[m].parent = node[m].parent
  BY <1>2
<1>5. Live' = Live /\ Folders' = Folders
  BY <1>4 DEF Live, Folders
<1>6. IsTree'
  <2>1. \A S \in SUBSET (Live \ {Root}) : Hanging(S)' <=> Hanging(S)
    BY <1>4 DEF Hanging, Live
  <2> QED BY <1>4, <1>5, <2>1, RootAssumption DEF IInv, IsTree, Live
<1>7. NamesAreUnique'
  <2> SUFFICES ASSUME NEW k \in Live \ {Root}, NEW m \in Live \ {Root},
                      node'[k].parent = node'[m].parent, node'[k].name = node'[m].name
               PROVE  k = m
    BY <1>5 DEF NamesAreUnique
  <2>1. node[k].parent = node[m].parent
    BY <1>4 DEF Live
  <2>2. CASE node'[k].name = node[k].name /\ node'[m].name = node[m].name
    BY <2>1, <2>2 DEF IInv, NamesAreUnique
  <2>3. CASE k = n /\ row.name # node[n].name
    BY <1>2, <2>1, <2>3 DEF NameAvailable, Children, Live
  <2>4. CASE m = n /\ row.name # node[n].name
    BY <1>2, <2>1, <2>4 DEF NameAvailable, Children, Live
  <2> QED BY <1>2, <2>2, <2>3, <2>4 DEF Live
<1>8. OperationsHaveConnections'
  BY <1>4 DEF OperationsHaveConnections
<1>9. \A m \in Nodes : Later(m)
  BY <1>1, <1>2 DEF Later
<1> QED BY <1>3, <1>6, <1>7, <1>8, <1>9, SeenKeeps DEF IInv

\* A rename, or an update of a connection.
LEMMA RenameKeeps ==
  ASSUME IInv, NEW n \in Live, NEW name \in Names, NEW item, Rename(n, name, item)
  PROVE  IInv'
<1> DEFINE row == [node[n] EXCEPT !.name = name]
<1>1. node[n] \in Row /\ n \in Nodes /\ catalogRevision \in Nat
  BY LiveHasRow DEF IInv, TypeOK, Live
<1>2. name \in Names \cup {""}
  OBVIOUS
<1>3. row \in Row /\ row.name = name /\ row.kind = node[n].kind /\ row.parent = node[n].parent
      /\ row.revision = node[n].revision
  BY <1>1, <1>2 DEF Row
<1>4. node' = [node EXCEPT ![n] = Advance(row)]
  BY DEF Rename, Write, IInv, TypeOK
<1> HIDE DEF row
<1>5. /\ Advance(row) \in Row /\ Advance(row).kind = node[n].kind
      /\ Advance(row).parent = node[n].parent /\ Advance(row).name = name
      /\ node[n].revision < Advance(row).revision
  BY <1>3, AdvanceIsRow
<1>6. catalogRevision' \in Nat /\ UNCHANGED <<operation, view>>
      /\ (name # node[n].name => NameAvailable(node[n].parent, name, n))
  BY <1>1 DEF Rename, Write
<1>7. operation \in [Nodes -> {"none", "pending", "applied"}]
      /\ \A m \in Nodes : operation[m] # "none" => node[m].kind = "connection"
  BY DEF IInv, TypeOK, OperationsHaveConnections
<1> QED BY <1>4, <1>5, <1>6, <1>7, ChangeInPlace

\* A node that moves to a folder outside of its subtree keeps the tree.
LEMMA MoveKeeps ==
  ASSUME IInv, NEW n \in Live \ {Root}, NEW p \in Nodes, NEW item, NEW place,
         NoCycle(n, p), Move(n, p, item, place)
  PROVE  IInv'
<1> DEFINE row == [node[n] EXCEPT !.parent = p]
<1>1. /\ node \in [Nodes -> Row \cup {Unused, Gone}] /\ n \in Nodes /\ node[n] \in Row
      /\ catalogRevision \in Nat
  BY LiveHasRow DEF IInv, TypeOK, Live
<1>2. p \in Nodes \cup {NoNode}
  OBVIOUS
<1>3. row \in Row /\ row.parent = p /\ row.kind = node[n].kind /\ row.name = node[n].name
      /\ row.revision = node[n].revision
  BY <1>1, <1>2 DEF Row
<1>4. node' = [node EXCEPT ![n] = Advance(row)]
  BY DEF Move, Write, IInv, TypeOK
<1> HIDE DEF row
<1>5. /\ Advance(row) \in Row /\ Advance(row).kind = node[n].kind
      /\ Advance(row).parent = p /\ Advance(row).name = node[n].name
      /\ node[n].revision < Advance(row).revision
  BY <1>3, AdvanceIsRow
<1>6. /\ catalogRevision' \in Nat /\ UNCHANGED <<operation, view>>
      /\ p \in Folders /\ NameAvailable(p, node[n].name, n)
  BY <1>1 DEF Move, Write
<1>7. /\ node'[n] = Advance(row)
      /\ \A m \in Nodes : m # n => node'[m] = node[m]
      /\ \A m \in Nodes : node'[m].kind = node[m].kind /\ node'[m].name = node[m].name
  BY <1>1, <1>4, <1>5
<1>8. TypeOK'
  BY <1>1, <1>4, <1>5, <1>6 DEF IInv, TypeOK
<1>9. Live' = Live /\ Folders' = Folders
  BY <1>7 DEF Live, Folders
<1>10. IsTree'
  <2>1. Root \in Folders' /\ node'[Root].parent = NoNode
    BY <1>7, <1>9, RootAssumption DEF IInv, IsTree
  <2>2. ASSUME NEW m \in Live \ {Root} PROVE node'[m].parent \in Folders
    BY <1>5, <1>6, <1>7 DEF IInv, IsTree, Live
  <2>3. ASSUME NEW S \in SUBSET (Live \ {Root}), Hanging(S)' PROVE FALSE
    <3> DEFINE T == S \ Subtree(n)
    <3>1. n \in Subtree(n) /\ ClosedDown(Subtree(n))
      BY SubtreeIsBelow DEF IInv
    <3>2. n \in S
      <4> SUFFICES ASSUME n \notin S PROVE FALSE
        OBVIOUS
      <4>1. Hanging(S)
        BY <1>7, <2>3 DEF Hanging, Live
      <4> QED BY <4>1 DEF IInv, IsTree
    <3>3. p \in T
      BY <1>5, <1>7, <2>3, <3>2 DEF Hanging, NoCycle
    <3>4. ASSUME NEW m \in T PROVE node[m].parent \in T
      <4>1. m # n /\ m \in Live
        BY <3>1, <3>4
      <4>2. node[m].parent \in S
        BY <1>7, <2>3, <3>4, <4>1 DEF Hanging, Live
      <4>3. node[m].parent \notin Subtree(n)
        BY <3>1, <3>4, <4>1 DEF ClosedDown
      <4> QED BY <4>2, <4>3
    <3>5. T \in SUBSET (Live \ {Root}) /\ Hanging(T)
      BY <3>3, <3>4 DEF Hanging
    <3> QED BY <3>5 DEF IInv, IsTree
  <2> QED BY <1>9, <2>1, <2>2, <2>3 DEF IsTree
<1>11. NamesAreUnique'
  <2> SUFFICES ASSUME NEW k \in Live \ {Root}, NEW m \in Live \ {Root},
                      node'[k].parent = node'[m].parent, node'[k].name = node'[m].name
               PROVE  k = m
    BY <1>9 DEF NamesAreUnique
  <2>1. node[k].name = node[m].name
    BY <1>7 DEF Live
  <2>2. CASE k # n /\ m # n
    BY <1>7, <2>1, <2>2 DEF IInv, NamesAreUnique, Live
  <2>3. CASE k = n
    BY <1>5, <1>6, <1>7, <2>1, <2>3 DEF NameAvailable, Children, Live
  <2>4. CASE m = n
    BY <1>5, <1>6, <1>7, <2>1, <2>4 DEF NameAvailable, Children, Live
  <2> QED BY <2>2, <2>3, <2>4
<1>12. OperationsHaveConnections'
  BY <1>6, <1>7 DEF IInv, OperationsHaveConnections
<1>13. \A m \in Nodes : Later(m)
  BY <1>1, <1>5, <1>7 DEF Later
<1> QED BY <1>6, <1>8, <1>10, <1>11, <1>12, <1>13, SeenKeeps DEF IInv

\* Removing nodes with all that is below them keeps the tree.
LEMMA RemoveKeeps ==
  ASSUME IInv, NEW removed \in SUBSET (Live \ {Root}), ClosedDown(removed), Remove(removed),
         UNCHANGED view, operation' \in [Nodes -> {"none", "pending", "applied"}],
         \A m \in Nodes : operation'[m] # "none" => operation[m] # "none" /\ m \notin removed
  PROVE  IInv'
<1>1. /\ node' = [m \in Nodes |-> IF m \in removed THEN Gone ELSE node[m]]
      /\ catalogRevision' \in Nat
  BY DEF Remove, Write, IInv, TypeOK
<1>2. \A m \in Nodes : node'[m] = IF m \in removed THEN Gone ELSE node[m]
  BY <1>1
<1>3. TypeOK'
  BY <1>1 DEF IInv, TypeOK
<1>4. Live' = Live \ removed /\ Folders' = Folders \ removed
  BY <1>2, NoRowIsNone DEF Live, Folders, NodeKinds
<1>5. IsTree'
  <2>1. Root \in Folders' /\ node'[Root].parent = NoNode
    BY <1>2, <1>4, RootAssumption DEF IInv, IsTree
  <2>2. ASSUME NEW m \in Live' \ {Root} PROVE node'[m].parent \in Folders'
    BY <1>2, <1>4, <2>2 DEF IInv, IsTree, ClosedDown, Live
  <2>3. ASSUME NEW S \in SUBSET (Live' \ {Root}), Hanging(S)' PROVE FALSE
    <3>1. S \in SUBSET (Live \ {Root}) /\ Hanging(S)
      BY <1>2, <1>4, <2>3 DEF Hanging, Live
    <3> QED BY <3>1 DEF IInv, IsTree
  <2> QED BY <2>1, <2>2, <2>3 DEF IsTree
<1>6. NamesAreUnique'
  BY <1>2, <1>4 DEF IInv, NamesAreUnique, Live
<1>7. OperationsHaveConnections'
  BY <1>2 DEF IInv, OperationsHaveConnections
<1>8. \A m \in Nodes : Later(m)
  BY <1>2 DEF Later
<1> QED BY <1>3, <1>5, <1>6, <1>7, <1>8, SeenKeeps DEF IInv

\* Nothing is below a connection.
LEMMA ConnectionIsLeaf ==
  ASSUME IInv, NEW n \in Nodes, node[n].kind = "connection"
  PROVE  n \in Live \ {Root} /\ ClosedDown({n}) /\ Subtree(n) = {n}
<1>1. n \in Live \ {Root} /\ n \notin Folders
  BY DEF IInv, IsTree, Live, Folders, NodeKinds
<1>2. ClosedDown({n})
  <2> SUFFICES ASSUME NEW m \in Live, node[m].parent \in {n} PROVE FALSE
    BY DEF ClosedDown
  <2>1. m # Root
    BY <1>1, RootAssumption DEF IInv, IsTree, Live
  <2> QED BY <1>1, <2>1 DEF IInv, IsTree
<1>3. Subtree(n) \subseteq {n}
  BY <1>1, <1>2 DEF Subtree
<1> QED BY <1>1, <1>2, <1>3, SubtreeIsBelow DEF IInv

\* Deleting a connection, or a folder with its subtree.
LEMMA DeleteKeeps ==
  ASSUME IInv, NEW n \in Nodes, NEW item, NEW recursive, NEW snapshot,
         DeleteConnection(n, item) \/ DeleteFolder(n, item, recursive, snapshot)
  PROVE  IInv'
<1>1. operation \in [Nodes -> {"none", "pending", "applied"}]
  BY DEF IInv, TypeOK
<1>2. CASE DeleteConnection(n, item)
  <2>1. Remove({n}) /\ UNCHANGED <<operation, view>> /\ operation[n] = "none"
    BY <1>2 DEF DeleteConnection, MayRemove
  <2>2. ClosedDown({n}) /\ {n} \in SUBSET (Live \ {Root})
    BY <1>2, ConnectionIsLeaf DEF DeleteConnection
  <2> QED BY <1>1, <2>1, <2>2, RemoveKeeps
<1>3. CASE DeleteFolder(n, item, recursive, snapshot)
  <2>1. n \in Live \ {Root}
    BY <1>3 DEF DeleteFolder, Live, Folders, NodeKinds
  <2>2. /\ Remove(Subtree(n)) /\ UNCHANGED <<operation, view>>
        /\ \A m \in Subtree(n) : operation[m] = "none"
    BY <1>3 DEF DeleteFolder, MayRemove
  <2>3. Subtree(n) \in SUBSET (Live \ {Root}) /\ ClosedDown(Subtree(n))
    BY <2>1, SubtreeIsBelow DEF IInv
  <2> QED BY <1>1, <2>2, <2>3, RemoveKeeps
<1> QED BY <1>2, <1>3

\* The steps of a saga.
LEMMA OperationKeeps ==
  ASSUME IInv, NEW n \in Nodes,
         BeginOperation(n) \/ ApplyOperation(n) \/ ApplyDelete(n) \/ EndOperation(n)
  PROVE  IInv'
<1>1. /\ operation \in [Nodes -> {"none", "pending", "applied"}]
      /\ node \in [Nodes -> Row \cup {Unused, Gone}] /\ catalogRevision \in Nat
      /\ \A m \in Nodes : operation[m] # "none" => node[m].kind = "connection"
  BY DEF IInv, TypeOK, OperationsHaveConnections
<1>2. ASSUME UNCHANGED <<node, catalogRevision, view>>,
             operation' \in [Nodes -> {"none", "pending", "applied"}],
             \A m \in Nodes : operation'[m] # "none" => node[m].kind = "connection"
      PROVE  IInv'
  <2>1. TypeOK' /\ OperationsHaveConnections'
    BY <1>2 DEF IInv, TypeOK, OperationsHaveConnections
  <2>2. IsTree' /\ NamesAreUnique'
    BY <1>2 DEF IInv, IsTree, NamesAreUnique, Live, Folders, Hanging
  <2>3. \A m \in Nodes : Later(m)
    BY <1>2 DEF Later
  <2> QED BY <1>2, <2>1, <2>2, <2>3, SeenKeeps DEF IInv
<1>3. CASE BeginOperation(n)
  <2>1. \A m \in Nodes : operation'[m] = IF m = n THEN "pending" ELSE operation[m]
    BY <1>1, <1>3 DEF BeginOperation
  <2> QED BY <1>1, <1>2, <1>3, <2>1 DEF BeginOperation
<1>4. CASE EndOperation(n)
  <2>1. \A m \in Nodes : operation'[m] = IF m = n THEN "none" ELSE operation[m]
    BY <1>1, <1>4 DEF EndOperation
  <2> QED BY <1>1, <1>2, <1>4, <2>1 DEF EndOperation
<1>5. CASE ApplyDelete(n)
  <2>1. /\ Remove({n}) /\ UNCHANGED view /\ node[n].kind = "connection"
        /\ operation' \in [Nodes -> {"none", "pending", "applied"}]
        /\ \A m \in Nodes : operation'[m] = IF m = n THEN "none" ELSE operation[m]
    BY <1>1, <1>5 DEF ApplyDelete
  <2>2. ClosedDown({n}) /\ {n} \in SUBSET (Live \ {Root})
    BY <2>1, ConnectionIsLeaf
  <2> QED BY <2>1, <2>2, RemoveKeeps
<1>6. CASE ApplyOperation(n)
  <2>1. PICK remembered \in BOOLEAN :
             Write([node EXCEPT ![n] = Advance([@ EXCEPT !.remembered = remembered])])
    BY <1>6 DEF ApplyOperation
  <2> DEFINE row == [node[n] EXCEPT !.remembered = remembered]
  <2>2. n \in Live /\ node[n] \in Row
    BY <1>1, <1>6, LiveHasRow DEF ApplyOperation, Live, NodeKinds, IInv
  <2>3. row \in Row /\ row.parent = node[n].parent /\ row.kind = node[n].kind
        /\ row.name = node[n].name /\ row.revision = node[n].revision
    BY <2>2 DEF Row
  <2>4. node' = [node EXCEPT ![n] = Advance(row)] /\ catalogRevision' \in Nat
    BY <1>1, <2>1 DEF Write
  <2> HIDE DEF row
  <2>5. /\ Advance(row) \in Row /\ Advance(row).kind = node[n].kind
        /\ Advance(row).parent = node[n].parent /\ Advance(row).name = node[n].name
        /\ node[n].revision < Advance(row).revision
    BY <2>3, AdvanceIsRow
  <2>6. /\ UNCHANGED view /\ operation' \in [Nodes -> {"none", "pending", "applied"}]
        /\ \A m \in Nodes : operation'[m] = IF m = n THEN "applied" ELSE operation[m]
        /\ operation[n] # "none"
    BY <1>1, <1>6 DEF ApplyOperation
  <2> QED BY <1>1, <2>2, <2>4, <2>5, <2>6, ChangeInPlace
<1> QED BY <1>3, <1>4, <1>5, <1>6

\* A step that leaves the rows, the operations and the views.
LEMMA OtherKeeps ==
  ASSUME IInv, UNCHANGED <<node, operation, view>>, catalogRevision' \in Nat
  PROVE  IInv'
<1>1. TypeOK' /\ OperationsHaveConnections' /\ SeenIsPast' /\ SeenIsCurrent'
  BY DEF IInv, TypeOK, OperationsHaveConnections, SeenIsPast, SeenIsCurrent, Live
<1>2. IsTree' /\ NamesAreUnique'
  BY DEF IInv, IsTree, NamesAreUnique, Live, Folders, Hanging
<1> QED BY <1>1, <1>2 DEF IInv

\* What a caller reads is so.
LEMMA ReadKeeps ==
  ASSUME IInv, NEW c \in Callers, ReadItem(c) \/ ReadPlace(c)
  PROVE  IInv'
<1>1. PICK n \in Live :
          \/ view' = [view EXCEPT ![c].item = {ViewOf(n)}]
          \/ view' = [view EXCEPT ![c].place = {ViewOf(n)}]
  BY DEF ReadItem, ReadPlace, Live, Folders, NodeKinds
<1>2. UNCHANGED <<node, operation, catalogRevision>>
  BY DEF ReadItem, ReadPlace
<1>3. ViewOf(n).id = n /\ ViewOf(n).row = node[n] /\ n \in Nodes /\ node[n] \in Row
  BY LiveHasRow DEF ViewOf, IInv, Live
<1>4. node[n].revision \in Nat
  BY <1>3 DEF Row
<1> DEFINE v == ViewOf(n)
<1> HIDE DEF v
<1>5. /\ view' = [d \in Callers |-> [item |-> view'[d].item, place |-> view'[d].place]]
      /\ \A d \in Callers : \A w \in view'[d].item \cup view'[d].place :
             w = v \/ w \in view[d].item \cup view[d].place
  <2>1. view = [d \in Callers |-> [item |-> view[d].item, place |-> view[d].place]]
    BY DEF IInv, TypeOK
  <2>2. CASE view' = [view EXCEPT ![c].item = {v}]
    <3>1. view[c] = [item |-> view[c].item, place |-> view[c].place]
      BY <2>1
    <3>2. [view[c] EXCEPT !.item = {v}] = [item |-> {v}, place |-> view[c].place]
      BY <3>1
    <3>3. /\ view' = [d \in Callers |-> view'[d]]
          /\ \A d \in Callers : view'[d] = IF d = c THEN [item |-> {v}, place |-> view[c].place] ELSE view[d]
      BY <2>1, <2>2, <3>2
    <3>4. \A d \in Callers : view'[d] = [item |-> view'[d].item, place |-> view'[d].place]
      BY <2>1, <3>3
    <3> QED BY <3>3, <3>4
  <2>3. CASE view' = [view EXCEPT ![c].place = {v}]
    <3>1. view[c] = [item |-> view[c].item, place |-> view[c].place]
      BY <2>1
    <3>2. [view[c] EXCEPT !.place = {v}] = [item |-> view[c].item, place |-> {v}]
      BY <3>1
    <3>3. /\ view' = [d \in Callers |-> view'[d]]
          /\ \A d \in Callers : view'[d] = IF d = c THEN [item |-> view[c].item, place |-> {v}] ELSE view[d]
      BY <2>1, <2>3, <3>2
    <3>4. \A d \in Callers : view'[d] = [item |-> view'[d].item, place |-> view'[d].place]
      BY <2>1, <3>3
    <3> QED BY <3>3, <3>4
  <2> QED BY <1>1, <2>2, <2>3 DEF v
<1>6. TypeOK'
  BY <1>2, <1>3, <1>5 DEF IInv, TypeOK, IsView, v
<1>7. SeenIsPast' /\ SeenIsCurrent'
  BY <1>2, <1>3, <1>4, <1>5 DEF IInv, SeenIsPast, SeenIsCurrent, Live, v
<1>8. IsTree' /\ NamesAreUnique' /\ OperationsHaveConnections'
  BY <1>2 DEF IInv, IsTree, NamesAreUnique, OperationsHaveConnections, Live, Folders, Hanging
<1> QED BY <1>6, <1>7, <1>8 DEF IInv

-----------------------------------------------------------------------------
(* The invariant.                                                          *)

\* The catalog begins with the root alone.
LEMMA InitInvariant ==
  ASSUME Init
  PROVE  IInv
<1>1. /\ \A n \in Nodes : n # Root => node[n] = Unused
      /\ node[Root] \in Row /\ node[Root].kind = "folder" /\ node[Root].parent = NoNode
      /\ node[Root].revision = 1
  <2>1. node[Root] = [Unused EXCEPT !.kind = "folder", !.revision = 1]
    BY RootAssumption DEF Init
  <2>2. 1 \in Nat \ {0} /\ FALSE \in BOOLEAN
    OBVIOUS
  <2> QED BY <2>1, <2>2 DEF Init, Unused, NoRow, Row, NodeKinds
<1>2. Live = {Root} /\ Folders = {Root}
  BY <1>1, RootAssumption, NoRowIsNone DEF Live, Folders, NodeKinds
<1>3. \A c \in Callers : view[c].item = {} /\ view[c].place = {}
  BY DEF Init
<1>4. TypeOK
  <2>1. node \in [Nodes -> Row \cup {Unused, Gone}]
    BY <1>1 DEF Init
  <2>2. view = [c \in Callers |-> [item |-> view[c].item, place |-> view[c].place]]
    BY DEF Init
  <2> QED BY <1>3, <2>1, <2>2 DEF Init, TypeOK, IsView
<1>5. IsTree /\ NamesAreUnique
  BY <1>1, <1>2 DEF IsTree, NamesAreUnique, Hanging
<1>6. OperationsHaveConnections
  BY DEF Init, OperationsHaveConnections
<1>7. SeenIsPast /\ SeenIsCurrent
  BY <1>3 DEF SeenIsPast, SeenIsCurrent
<1> QED BY <1>4, <1>5, <1>6, <1>7 DEF IInv

\* Every step keeps the invariant.
LEMMA NextInvariant ==
  ASSUME IInv, [Next]_vars
  PROVE  IInv'
<1>1. ASSUME NEW id \in Nodes, NEW p \in Nodes, NEW name \in Names, NEW place,
             CreateFolder(id, p, name, place) \/ CreateConnection(id, p, name, place)
      PROVE  IInv'
  BY <1>1, CreateKeeps DEF CreateFolder, CreateConnection, NodeKinds
<1>2. ASSUME NEW n \in Nodes, NEW name \in Names, NEW item,
             RenameFolder(n, name, item) \/ UpdateConnection(n, name, item)
      PROVE  IInv'
  <2>1. n \in Live /\ Rename(n, name, item)
    BY <1>2 DEF RenameFolder, UpdateConnection, Live, Folders, NodeKinds
  <2> QED BY <2>1, RenameKeeps
<1>3. ASSUME NEW n \in Nodes, NEW p \in Nodes, NEW item, NEW place, MoveFolder(n, p, item, place)
      PROVE  IInv'
  <2>1. n \in Live \ {Root} /\ NoCycle(n, p) /\ Move(n, p, item, place)
    BY <1>3 DEF MoveFolder, Live, Folders, NodeKinds
  <2> QED BY <2>1, MoveKeeps
<1>4. ASSUME NEW n \in Nodes, NEW p \in Nodes, NEW item, NEW place, MoveConnection(n, p, item, place)
      PROVE  IInv'
  <2>1. node[n].kind = "connection" /\ Move(n, p, item, place) /\ p \in Folders
    BY <1>4 DEF MoveConnection, Move
  <2>2. n \in Live \ {Root} /\ NoCycle(n, p)
    BY <2>1, ConnectionIsLeaf DEF NoCycle, Folders
  <2> QED BY <2>1, <2>2, MoveKeeps
<1>5. ASSUME NEW n \in Nodes, NEW item, NEW recursive \in BOOLEAN,
             DeleteConnection(n, item) \/ DeleteFolder(n, item, recursive, Snapshot(n))
      PROVE  IInv'
  BY <1>5, DeleteKeeps
<1>6. CASE ChangeTrust
  <2>1. UNCHANGED <<node, operation, view>> /\ catalogRevision' \in Nat
    BY <1>6 DEF ChangeTrust, Write, IInv, TypeOK
  <2> QED BY <2>1, OtherKeeps
<1>7. CASE UNCHANGED vars
  <2>1. UNCHANGED <<node, operation, view>> /\ catalogRevision' \in Nat
    BY <1>7 DEF vars, IInv, TypeOK
  <2> QED BY <2>1, OtherKeeps
<1>8. CASE Change
  <2>1. CASE \E id, p \in Nodes, name \in Names, place \in Places :
                CreateFolder(id, p, name, place) \/ CreateConnection(id, p, name, place)
    BY <2>1, <1>1
  <2>2. CASE \E n \in Nodes, name \in Names, item \in Items :
                RenameFolder(n, name, item) \/ UpdateConnection(n, name, item)
    BY <2>2, <1>2
  <2>3. CASE \E n, p \in Nodes, item \in Items, place \in Places :
                MoveFolder(n, p, item, place) \/ MoveConnection(n, p, item, place)
    BY <2>3, <1>3, <1>4
  <2>4. CASE \E n \in Nodes, item \in Items :
                \/ DeleteConnection(n, item)
                \/ \E recursive \in BOOLEAN : DeleteFolder(n, item, recursive, Snapshot(n))
    BY <2>4, <1>5
  <2>5. CASE \E n \in Nodes :
                BeginOperation(n) \/ ApplyOperation(n) \/ ApplyDelete(n) \/ EndOperation(n)
    BY <2>5, OperationKeeps
  <2> QED BY <1>6, <1>8, <2>1, <2>2, <2>3, <2>4, <2>5 DEF Change
<1> QED BY <1>7, <1>8, ReadKeeps DEF Next, Refuse

-----------------------------------------------------------------------------
(* Paths.  An operator as a parameter of the library's induction theorems  *)
(* cannot be instantiated, but a set can: the least number of a set serves *)
(* instead, by the well-foundedness of finite sets.                        *)

\* A set of naturals has a least element.
LEMMA LeastNatural ==
  ASSUME NEW T \in SUBSET Nat, T # {}
  PROVE  \E m \in T : \A k \in T : m <= k
<1> DEFINE R == StrictSubsetOrdering(Nat)
           I == {0..k : k \in T}
<1>1. IsWellFoundedOn(R, FiniteSubsetsOf(Nat))
  BY FS_StrictSubsetOrderingWellFounded
<1>2. I \subseteq FiniteSubsetsOf(Nat) /\ I # {}
  <2>1. ASSUME NEW k \in T PROVE 0..k \in SUBSET Nat /\ IsFiniteSet(0..k)
    BY FS_Interval
  <2> QED BY <2>1 DEF FiniteSubsetsOf
<1> HIDE DEF R
<1>3. \E x \in I : \A y \in I : <<y, x>> \notin R
  BY <1>1, <1>2, WFMin, Zenon
<1>4. PICK m \in T : \A k \in T : <<0..k, 0..m>> \notin R
  BY <1>3
<1>5. ASSUME NEW k \in T PROVE m <= k
  <2>1. 0..k \in SUBSET Nat /\ 0..m \in SUBSET Nat /\ k \in Nat /\ m \in Nat
    OBVIOUS
  <2>2. 0..k \subseteq 0..m => 0..k = 0..m
    BY <1>4, <2>1 DEF R, StrictSubsetOrdering
  <2>3. k < m => 0..k \subseteq 0..m /\ m \in 0..m /\ m \notin 0..k
    BY <2>1
  <2> QED BY <2>1, <2>2, <2>3
<1> QED BY <1>5

\* The k-th node above n among these rows, when f has those before it.
Above(rows, f, n, k) ==
    IF k = 0 THEN n ELSE IF f[k - 1] = Root THEN Root ELSE rows[f[k - 1]].parent

\* There are nodes above n as far as level d.
Solvable(rows, n, d) == \E f : f = [k \in 0..d |-> Above(rows, f, n, k)]

\* The recursion of Ancestors has a solution, up to any level.
LEMMA AboveExists ==
  ASSUME NEW rows, NEW n, NEW d \in Nat
  PROVE  Solvable(rows, n, d)
<1> DEFINE T == {e \in Nat : ~Solvable(rows, n, e)}
<1> SUFFICES ASSUME T # {} PROVE FALSE
  OBVIOUS
<1>1. PICK m \in T : \A k \in T : m <= k
  BY LeastNatural
<1>2. CASE m = 0
  <2>1. [k \in 0..0 |-> n] = [k \in 0..0 |-> Above(rows, [j \in 0..0 |-> n], n, k)]
    BY DEF Above
  <2> QED BY <1>1, <1>2, <2>1 DEF Solvable
<1>3. CASE m # 0
  <2>1. m - 1 \in Nat /\ Solvable(rows, n, m - 1)
    BY <1>1, <1>3
  <2>2. PICK g : g = [k \in 0..(m - 1) |-> Above(rows, g, n, k)]
    BY <2>1 DEF Solvable
  <2> DEFINE f == [k \in 0..m |-> IF k = m THEN Above(rows, g, n, m) ELSE g[k]]
  <2>3. ASSUME NEW k \in 0..m PROVE f[k] = Above(rows, f, n, k)
    <3>1. CASE k = 0
      BY <1>1, <1>3, <2>2, <3>1 DEF Above
    <3>2. CASE k # 0
      <4>1. k - 1 \in 0..(m - 1) /\ k - 1 \in 0..m /\ k - 1 # m
        BY <1>1, <3>2
      <4>2. f[k - 1] = g[k - 1]
        BY <4>1
      <4>3. Above(rows, f, n, k) = Above(rows, g, n, k)
        BY <4>2, <3>2 DEF Above
      <4>4. k # m => k \in 0..(m - 1)
        BY <1>1
      <4> QED BY <2>2, <4>3, <4>4
    <3> QED BY <3>1, <3>2
  <2>4. f = [k \in 0..m |-> f[k]]
    OBVIOUS
  <2> HIDE DEF f
  <2>5. f = [k \in 0..m |-> Above(rows, f, n, k)]
    BY <2>3, <2>4
  <2> QED BY <1>1, <2>5 DEF Solvable
<1> QED BY <1>2, <1>3

\* So Ancestors is what its definition says, before a step and after it.
LEMMA AncestorsAre ==
  ASSUME NEW n
  PROVE  /\ Ancestors(n) = [k \in 0..MaxDepth |-> Above(node, Ancestors(n), n, k)]
         /\ Ancestors(n)' = [k \in 0..MaxDepth |-> Above(node', Ancestors(n)', n, k)]
<1>1. MaxDepth \in Nat
  BY DepthAssumption
<1>2. Solvable(node, n, MaxDepth) /\ Solvable(node', n, MaxDepth)
  BY <1>1, AboveExists
<1>3. Ancestors(n) = [k \in 0..MaxDepth |-> Above(node, Ancestors(n), n, k)]
  BY <1>2 DEF Solvable, Ancestors, Above
<1>4. Ancestors(n)' = [k \in 0..MaxDepth |-> Above(node', Ancestors(n)', n, k)]
  BY <1>2 DEF Solvable, Ancestors, Above
<1> QED BY <1>3, <1>4

\* In a path that reaches the root, the first level at the root is the depth.
LEMMA DepthIs ==
  ASSUME NEW up, NEW d \in 0..MaxDepth, up[d] = Root, \A k \in 0..d - 1 : up[k] # Root
  PROVE  (CHOOSE e \in 0..MaxDepth : up[e] = Root /\ \A k \in 0..e - 1 : up[k] # Root) = d
<1> DEFINE e == CHOOSE e \in 0..MaxDepth : up[e] = Root /\ \A k \in 0..e - 1 : up[k] # Root
<1>1. e \in 0..MaxDepth /\ up[e] = Root /\ \A k \in 0..e - 1 : up[k] # Root
  OBVIOUS
<1> HIDE DEF e
<1>2. ~(e < d) /\ ~(d < e)
  BY <1>1, DepthAssumption
<1>3. e = d
  BY <1>1, <1>2, DepthAssumption
<1> QED BY <1>3 DEF e

\* A path that reaches the root has such a level.
LEMMA DepthExists ==
  ASSUME NEW up, NEW last \in 0..MaxDepth, up[last] = Root
  PROVE  \E d \in 0..last : up[d] = Root /\ \A k \in 0..d - 1 : up[k] # Root
<1> DEFINE T == {k \in 0..last : up[k] = Root}
<1>1. T \in SUBSET Nat /\ T # {}
  BY DepthAssumption
<1>2. PICK d \in T : \A k \in T : d <= k
  BY <1>1, LeastNatural
<1>3. ASSUME NEW k \in 0..d - 1 PROVE up[k] # Root
  BY <1>2, DepthAssumption
<1> QED BY <1>2, <1>3

\* What is above a node outside of a subtree is outside, and another node's row
\* does not matter for it.
LEMMA AboveStaysOutside ==
  ASSUME IInv, NEW n \in Live \ {Root}, NEW p \in Live, NoCycle(n, p),
         \A m \in Nodes : m # n => node'[m] = node[m]
  PROVE  \A k \in 0..MaxDepth :
            Ancestors(p)[k] \in Live \ {n} /\ Ancestors(p)'[k] = Ancestors(p)[k]
<1> DEFINE up == Ancestors(p)
           after == Ancestors(p)'
           T == {k \in 0..MaxDepth : ~(up[k] \in Live \ Subtree(n) /\ after[k] = up[k])}
<1>1. n \in Subtree(n) /\ Root \notin Subtree(n) /\ ClosedDown(Subtree(n))
  BY SubtreeIsBelow DEF IInv
<1>2. /\ \A k \in 0..MaxDepth : up[k] = Above(node, up, p, k)
      /\ \A k \in 0..MaxDepth : after[k] = Above(node', after, p, k)
  <2>1. /\ up = [k \in 0..MaxDepth |-> Above(node, up, p, k)]
        /\ after = [k \in 0..MaxDepth |-> Above(node', after, p, k)]
    BY AncestorsAre, Zenon
  <2> HIDE DEF up, after
  <2> QED BY <2>1
<1> HIDE DEF up, after
<1>3. SUFFICES ASSUME T # {} PROVE FALSE
  BY <1>1 DEF up, after
<1>4. PICK m \in T : \A k \in T : m <= k
  <2>1. T \in SUBSET Nat
    BY DepthAssumption
  <2> QED BY <1>3, <2>1, LeastNatural, Zenon
<1>5. m # 0
  BY <1>2, <1>4, DepthAssumption DEF Above, NoCycle
<1>6. m \in 0..MaxDepth /\ m - 1 \in 0..MaxDepth
  BY <1>4, <1>5, DepthAssumption
<1>7. up[m - 1] \in Live \ Subtree(n) /\ after[m - 1] = up[m - 1]
  BY <1>4, <1>6
<1>8. CASE up[m - 1] = Root
  <2>1. up[m] = Root /\ after[m] = Root
    BY <1>2, <1>5, <1>6, <1>7, <1>8 DEF Above
  <2> QED BY <1>1, <1>4, <1>7, <1>8, <2>1
<1>9. CASE up[m - 1] # Root
  <2>1. up[m] = node[up[m - 1]].parent /\ after[m] = node'[up[m - 1]].parent
    BY <1>2, <1>5, <1>6, <1>7, <1>9 DEF Above
  <2>2. up[m - 1] \in Nodes /\ up[m - 1] # n
    BY <1>1, <1>7 DEF Live
  <2>3. up[m] \in Live
    BY <1>7, <1>9, <2>1 DEF IInv, IsTree, Folders, Live, NodeKinds
  <2>4. up[m] \notin Subtree(n)
    BY <1>1, <1>7, <2>1 DEF ClosedDown
  <2> QED BY <1>4, <2>1, <2>2, <2>3, <2>4
<1> QED BY <1>8, <1>9

\* A node that moves below p has the path of p, and its name.
LEMMA MovedPath ==
  ASSUME IInv, NEW n \in Live \ {Root}, NEW p \in Nodes, NEW item, NEW place,
         NoCycle(n, p), Move(n, p, item, place)
  PROVE  Path(n)' = Append(Path(p), node[n].name)
<1> DEFINE up == Ancestors(p)
           moved == Ancestors(n)'
           names == Names \cup {""}
<1>1. /\ node \in [Nodes -> Row \cup {Unused, Gone}] /\ n \in Nodes /\ node[n] \in Row
      /\ p \in Live /\ up[MaxDepth - 1] = Root
      /\ node' = [node EXCEPT ![n] = Advance([@ EXCEPT !.parent = p])]
  BY LiveHasRow DEF IInv, TypeOK, Live, Folders, NodeKinds, Move, Write, ReadableBelow
<1>2. [node[n] EXCEPT !.parent = p] \in Row
  <2>1. p \in Nodes \cup {NoNode}
    OBVIOUS
  <2> QED BY <1>1, <2>1 DEF Row
<1>3. node'[n].parent = p /\ node'[n].name = node[n].name
  BY <1>1, <1>2, AdvanceIsRow DEF Row
<1>4. \A m \in Nodes : m # n => node'[m] = node[m]
  BY <1>1
<1>5. \A k \in 0..MaxDepth : up[k] \in Live \ {n} /\ Ancestors(p)'[k] = up[k]
  BY <1>1, <1>4, AboveStaysOutside
<1>6. /\ up = [k \in 0..MaxDepth |-> Above(node, up, p, k)]
      /\ moved = [k \in 0..MaxDepth |-> Above(node', moved, n, k)]
  BY AncestorsAre
<1>7. PICK d \in 0..MaxDepth - 1 : up[d] = Root /\ \A k \in 0..d - 1 : up[k] # Root
  BY <1>1, DepthExists, DepthAssumption
<1>8. Path(p) = [i \in 1..d |-> node[up[d - i]].name]
  <2> DEFINE depth == CHOOSE e \in 0..MaxDepth : up[e] = Root /\ \A k \in 0..e - 1 : up[k] # Root
  <2>1. d \in 0..MaxDepth
    BY DepthAssumption
  <2>2. depth = d
    BY <1>7, <2>1, DepthIs
  <2>3. Path(p) = [i \in 1..depth |-> node[up[depth - i]].name]
    BY DEF Path
  <2> QED BY <2>2, <2>3
<1> HIDE DEF up, moved
<1>9. moved[0] = n /\ \A k \in 0..MaxDepth - 1 : moved[k + 1] = up[k]
  <2>1. /\ \A k \in 0..MaxDepth : up[k] = Above(node, up, p, k)
        /\ \A k \in 0..MaxDepth : moved[k] = Above(node', moved, n, k)
    BY <1>6
  <2>2. moved[0] = n /\ up[0] = p
    BY <2>1, DepthAssumption DEF Above
  <2> DEFINE T == {k \in 0..MaxDepth - 1 : moved[k + 1] # up[k]}
  <2> SUFFICES ASSUME T # {} PROVE FALSE
    BY <2>2
  <2>3. T \in SUBSET Nat
    BY DepthAssumption
  <2>4. PICK m \in T : \A k \in T : m <= k
    BY <2>3, LeastNatural, Zenon
  <2>5. m + 1 \in 0..MaxDepth /\ m \in 0..MaxDepth /\ (m + 1) - 1 = m /\ m + 1 # 0
    BY DepthAssumption
  <2>6. moved[m + 1] = IF moved[m] = Root THEN Root ELSE node'[moved[m]].parent
    BY <2>1, <2>5 DEF Above
  <2>7. CASE m = 0
    BY <1>3, <2>2, <2>4, <2>6, <2>7
  <2>8. CASE m # 0
    <3>1. m - 1 \in 0..MaxDepth - 1 /\ m - 1 \in 0..MaxDepth /\ (m - 1) + 1 = m
      BY <2>8, DepthAssumption
    <3>2. m - 1 \notin T
      BY <2>4, <3>1
    <3>3. moved[m] = up[m - 1]
      BY <3>1, <3>2
    <3>4. up[m] = IF up[m - 1] = Root THEN Root ELSE node[up[m - 1]].parent
      BY <2>1, <2>5, <2>8 DEF Above
    <3>5. node'[up[m - 1]] = node[up[m - 1]]
      BY <1>4, <1>5, <3>1 DEF Live
    <3> QED BY <2>4, <2>6, <3>3, <3>4, <3>5
  <2> QED BY <2>7, <2>8
<1>10. Path(n)' = [i \in 1..d + 1 |-> node'[moved[d + 1 - i]].name]
  <2>1. d + 1 \in 0..MaxDepth /\ moved[d + 1] = Root /\ \A k \in 0..d + 1 - 1 : moved[k] # Root
    <3>1. ASSUME NEW k \in 0..d + 1 - 1 PROVE moved[k] # Root
      <4>1. k = 0 \/ (k - 1 \in 0..d - 1 /\ k - 1 \in 0..MaxDepth - 1 /\ (k - 1) + 1 = k)
        BY <1>7, DepthAssumption
      <4> QED BY <1>7, <1>9, <4>1
    <3> QED BY <1>7, <1>9, <3>1, DepthAssumption
  <2> DEFINE depth == CHOOSE e \in 0..MaxDepth : moved[e] = Root /\ \A k \in 0..e - 1 : moved[k] # Root
  <2>2. depth = d + 1
    BY <2>1, DepthIs
  <2>3. Path(n)' = [i \in 1..depth |-> node'[moved[depth - i]].name]
    BY DEF Path, moved
  <2> HIDE DEF depth
  <2> QED BY <2>2, <2>3
<1>11. \A i \in 1..d : node'[moved[d + 1 - i]].name = node[up[d - i]].name
                       /\ node[up[d - i]].name \in names
  <2> SUFFICES ASSUME NEW i \in 1..d
               PROVE  node'[moved[d + 1 - i]].name = node[up[d - i]].name
                      /\ node[up[d - i]].name \in names
    OBVIOUS
  <2>1. d - i \in 0..MaxDepth - 1 /\ d - i \in 0..MaxDepth /\ (d - i) + 1 = d + 1 - i
    BY <1>7, DepthAssumption
  <2>2. moved[d + 1 - i] = up[d - i] /\ up[d - i] \in Live \ {n}
    BY <1>5, <1>9, <2>1
  <2>3. node[up[d - i]] \in Row
    BY <2>2, LiveHasRow DEF IInv, Live
  <2> QED BY <1>4, <2>2, <2>3 DEF Live, Row
<1>12. node'[moved[d + 1 - (d + 1)]].name = node[n].name /\ node[n].name \in names
  <2>1. d + 1 - (d + 1) = 0
    BY DepthAssumption
  <2>2. node[n].name \in names
    BY <1>1 DEF Row
  <2> QED BY <1>3, <1>9, <2>1, <2>2
<1>13. Path(p) \in Seq(names) /\ Len(Path(p)) = d
  <2>1. d \in Nat
    BY DepthAssumption
  <2> HIDE DEF names
  <2> DEFINE name == [i \in 1..d |-> node[up[d - i]].name]
  <2>2. name \in [1..d -> names]
    BY <1>11
  <2> HIDE DEF name
  <2>3. name \in Seq(names) /\ Len(name) = d
    BY <2>1, <2>2
  <2> QED BY <1>8, <2>3 DEF name
<1>14. Append(Path(p), node[n].name)
          = [i \in 1..d + 1 |-> IF i = d + 1 THEN node[n].name ELSE Path(p)[i]]
  <2> HIDE DEF names
  <2>1. node[n].name \in names
    BY <1>12
  <2> QED BY <1>13, <2>1
<1>15. ASSUME NEW i \in 1..d + 1
       PROVE  node'[moved[d + 1 - i]].name = IF i = d + 1 THEN node[n].name ELSE Path(p)[i]
  <2>1. CASE i = d + 1
    BY <1>12, <2>1
  <2>2. CASE i # d + 1
    <3>1. i \in 1..d
      BY <2>2, DepthAssumption
    <3> QED BY <1>8, <1>11, <2>2, <3>1
  <2> QED BY <2>1, <2>2
<1> QED BY <1>10, <1>14, <1>15
-----------------------------------------------------------------------------
(* The theorems.                                                           *)

\* The invariant holds whenever callers, sagas and recoveries change the catalog.
THEOREM TreeInvariant == Spec => []IInv
<1>1. Init => IInv
  BY InitInvariant
<1>2. IInv /\ [Next]_vars => IInv'
  BY NextInvariant
<1> QED BY <1>1, <1>2, PTL DEF Spec

\* Rows are complete.
THEOREM TreeTypes == Spec => []TypeOK
<1>1. IInv => TypeOK
  BY DEF IInv
<1> QED BY <1>1, TreeInvariant, PTL

\* Whatever is moved into what, the catalog stays a tree under its root.
THEOREM CatalogIsTree == Spec => []IsTree
<1>1. IInv => IsTree
  BY DEF IInv
<1> QED BY <1>1, TreeInvariant, PTL

\* No creation, rename, update or move gives siblings one name.
THEOREM SiblingsDiffer == Spec => []NamesAreUnique
<1>1. IInv => NamesAreUnique
  BY DEF IInv
<1> QED BY <1>1, TreeInvariant, PTL

\* No deletion takes a connection away from its unfinished operation.
THEOREM OperationsKeepConnections == Spec => []OperationsHaveConnections
<1>1. IInv => OperationsHaveConnections
  BY DEF IInv
<1> QED BY <1>1, TreeInvariant, PTL

\* To compare revisions is to compare rows: an expectation that passes is of the
\* row as it was seen.
THEOREM RevisionsTell == Spec => []SeenIsCurrent
<1>1. IInv => SeenIsCurrent
  BY DEF IInv
<1> QED BY <1>1, TreeInvariant, PTL

\* Whatever was renamed or moved above the two nodes since a caller has read
\* them, a move that passes leads from the path to the path that were read.
THEOREM MovesAreConfirmed == Spec => ConfirmedMoves
<1>1. ASSUME IInv, NEW n \in Nodes, NEW p \in Nodes, NEW c \in Callers
      PROVE  MovesAsConfirmed(n, p, view[c].item, view[c].place)
  <2> DEFINE item == view[c].item
             place == view[c].place
  <2> SUFFICES ASSUME MoveFolder(n, p, item, place) \/ MoveConnection(n, p, item, place),
                      NEW i \in item, NEW d \in place
               PROVE  Path(n) = i.path /\ Path(n)' = Append(d.path, i.row.name)
    BY DEF MovesAsConfirmed
  <2>1. n \in Live \ {Root} /\ NoCycle(n, p) /\ Move(n, p, item, place)
    <3>1. CASE MoveFolder(n, p, item, place)
      BY <3>1 DEF MoveFolder, Live, Folders, NodeKinds
    <3>2. CASE MoveConnection(n, p, item, place)
      <4>1. node[n].kind = "connection" /\ Move(n, p, item, place) /\ p \in Folders
        BY <3>2 DEF MoveConnection, Move
      <4> QED BY <1>1, <4>1, ConnectionIsLeaf DEF NoCycle, Folders
    <3> QED BY <3>1, <3>2
  <2>2. i.path = Path(n) /\ d.path = Path(p)
        /\ i.id = n /\ i.row.revision = node[n].revision
    BY <2>1 DEF Move, ExpectedPath, ExpectedRevision
  <2>3. node[n] = i.row
    BY <1>1, <2>2 DEF IInv, SeenIsCurrent
  <2>4. Path(n)' = Append(Path(p), node[n].name)
    BY <1>1, <2>1, MovedPath
  <2> QED BY <2>2, <2>3, <2>4
<1>2. IInv /\ [Next]_vars =>
        [\A n \in {m \in Nodes : node'[m] # node[m]}, p \in Nodes, c \in Callers :
            MovesAsConfirmed(n, p, view[c].item, view[c].place)]_vars
  BY <1>1
<1> QED BY <1>2, TreeInvariant, PTL DEF Spec, ConfirmedMoves
=============================================================================
