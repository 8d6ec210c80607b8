---------------------------- MODULE CatalogTree ----------------------------
(***************************************************************************)
(* The catalog's tree of folders and connections, as the repository        *)
(* (internal/catalogrepo) changes it under the constraints of the schema   *)
(* (internal/catalog/migrations/001_initial.sql).                          *)
(*                                                                         *)
(* Each operation is one SQLite transaction, hence one step; a refused one *)
(* is rolled back and left out.  Several processes use one catalog: what   *)
(* a caller has read, its views, may be old when it asks for a change.     *)
(***************************************************************************)
EXTENDS Naturals, FiniteSets, Sequences

CONSTANTS
    Nodes,       \* identifiers of nodes; they are random and never used twice
    Root,        \* the root folder
    NoNode,      \* the parent of the root
    Names,
    Callers,     \* who reads first and asks for a change then
    MaxDepth,    \* levels below the root that can be read (100 in the code)
    MaxCatalog   \* bound on the catalog's revision

ASSUME RootAssumption == Root \in Nodes /\ NoNode \notin Nodes
ASSUME DepthAssumption == MaxDepth \in Nat \ {0}
ASSUME CatalogAssumption == MaxCatalog \in Nat

VARIABLES
    node,             \* identifier -> its row
    operation,        \* identifier -> its unfinished credential operation
    catalogRevision,
    view              \* caller -> the item and the place it has read last

vars == <<node, operation, catalogRevision, view>>

-----------------------------------------------------------------------------
(* Rows.                                                                   *)

NodeKinds == {"folder", "connection"}

Row == [kind : NodeKinds, parent : Nodes \cup {NoNode}, name : Names \cup {""},
        revision : Nat \ {0}, remembered : BOOLEAN]

NoRow(kind) == [kind |-> kind, parent |-> NoNode, name |-> "", revision |-> 0,
                remembered |-> FALSE]
Unused == NoRow("unused")
Gone == NoRow("gone")

Live == {n \in Nodes : node[n].kind \in NodeKinds}
Folders == {n \in Nodes : node[n].kind = "folder"}
Children(p) == {n \in Live : node[n].parent = p}

Init ==
    /\ node = [n \in Nodes |-> IF n = Root THEN [Unused EXCEPT !.kind = "folder", !.revision = 1]
                                           ELSE Unused]
    /\ operation = [n \in Nodes |-> "none"]
    /\ catalogRevision = 1
    /\ view = [c \in Callers |-> [item |-> {}, place |-> {}]]

-----------------------------------------------------------------------------
(* Paths and subtrees.                                                     *)

\* n, its parent, and so on; the root is where it ends.
Ancestors(n) ==
    LET up[k \in 0..MaxDepth] ==
            IF k = 0 THEN n ELSE IF up[k - 1] = Root THEN Root ELSE node[up[k - 1]].parent
    IN up

\* pathForNode gives up MaxDepth levels above the node it began with.
Readable(n) == Ancestors(n)[MaxDepth] = Root

\* A node just below p could be read.
ReadableBelow(p) == Ancestors(p)[MaxDepth - 1] = Root

Path(n) ==
    LET up == Ancestors(n)
        depth == CHOOSE d \in 0..MaxDepth : up[d] = Root /\ \A k \in 0..d - 1 : up[k] # Root
    IN [i \in 1..depth |-> node[up[depth - i]].name]

\* readSubtree: the least set with n and the children of its members.
ClosedDown(S) == \A m \in Live : node[m].parent \in S => m \in S
Subtree(n) == {m \in Live : \A S \in SUBSET Live : (n \in S /\ ClosedDown(S)) => m \in S}

\* It refuses a subtree of more than MaxDepth levels.
SubtreeFits(n) == \A m \in Subtree(n) : \E k \in 0..MaxDepth : Ancestors(m)[k] = n

Snapshot(n) == {[id |-> m, revision |-> node[m].revision] : m \in Subtree(n)}

-----------------------------------------------------------------------------
(* Conditions of the operations.                                           *)

\* Mutant of NameAvailable: folders and connections have names of their own.
NameAvailableForKind(p, name, except) ==
    \A m \in Children(p) : node[m].name = name => m = except \/ node[m].kind # node[except].kind

NameAvailable(p, name, except) == \A m \in Children(p) : node[m].name = name => m = except

\* A request carries what it expects of a node, or nothing.  Expectations are
\* the views a caller has of it: a set of one, or the empty set.
ExpectedRevision(n, views) == \A v \in views : v.id = n /\ v.row.revision = node[n].revision

\* Mutant of ExpectedPath: the path is not looked at.
ExpectedPathIgnored(n, views) == TRUE

ExpectedPath(n, views) == \A v \in views : v.path = Path(n)

\* Every change advances the catalog's revision by one.
Write(rows) ==
    /\ catalogRevision < MaxCatalog
    /\ node' = rows
    /\ catalogRevision' = catalogRevision + 1

NewRow(kind, p, name) ==
    [kind |-> kind, parent |-> p, name |-> name, revision |-> 1, remembered |-> FALSE]

Advance(row) == [row EXCEPT !.revision = @ + 1]

-----------------------------------------------------------------------------
(* Reading.                                                                *)

ViewOf(n) == [id |-> n, row |-> node[n], path |-> Path(n)]

ReadItem(c) ==
    /\ \E n \in Live : Readable(n) /\ view' = [view EXCEPT ![c].item = {ViewOf(n)}]
    /\ UNCHANGED <<node, operation, catalogRevision>>

ReadPlace(c) ==
    /\ \E p \in Folders : Readable(p) /\ view' = [view EXCEPT ![c].place = {ViewOf(p)}]
    /\ UNCHANGED <<node, operation, catalogRevision>>

-----------------------------------------------------------------------------
(* Changing.  The arguments item and place are what the request expects of *)
(* the node it changes and of the folder it goes to.                       *)

Create(kind, id, p, name, place) ==
    /\ node[id] = Unused
    /\ p \in Folders
    /\ Readable(p)
    /\ ExpectedRevision(p, place) /\ ExpectedPath(p, place)
    /\ NameAvailable(p, name, id)
    /\ ReadableBelow(p)   \* else the result cannot be read, and nothing is done
    /\ Write([node EXCEPT ![id] = NewRow(kind, p, name)])
    /\ UNCHANGED <<operation, view>>

CreateFolder(id, p, name, place) == Create("folder", id, p, name, place)
CreateConnection(id, p, name, place) == Create("connection", id, p, name, place)

\* An update of a connection changes its name, its details or both.
Rename(n, name, item) ==
    /\ Readable(n)
    /\ ExpectedRevision(n, item)
    /\ name # node[n].name => NameAvailable(node[n].parent, name, n)
    /\ Write([node EXCEPT ![n] = Advance([@ EXCEPT !.name = name])])
    /\ UNCHANGED <<operation, view>>

RenameFolder(n, name, item) == n \in Folders \ {Root} /\ Rename(n, name, item)
UpdateConnection(n, name, item) == node[n].kind = "connection" /\ Rename(n, name, item)

Move(n, p, item, place) ==
    /\ p \in Folders
    /\ Readable(n) /\ Readable(p)
    /\ ExpectedRevision(p, place) /\ ExpectedPath(p, place)
    /\ ExpectedRevision(n, item) /\ ExpectedPath(n, item)
    /\ NameAvailable(p, node[n].name, n)
    /\ ReadableBelow(p)
    /\ Write([node EXCEPT ![n] = Advance([@ EXCEPT !.parent = p])])
    /\ UNCHANGED <<operation, view>>

\* Mutant of NoCycle: only the folder itself is excluded.
NoSelfParent(n, p) == p # n

\* The destination is not in the subtree that moves.
NoCycle(n, p) == p \notin Subtree(n)

MoveFolder(n, p, item, place) ==
    /\ n \in Folders \ {Root}
    /\ SubtreeFits(n) /\ NoCycle(n, p)
    /\ Move(n, p, item, place)

MoveConnection(n, p, item, place) == node[n].kind = "connection" /\ Move(n, p, item, place)

\* ON DELETE RESTRICT of credential_operations.
MayRemove(removed) == \A m \in removed : operation[m] = "none"

Remove(removed) == Write([m \in Nodes |-> IF m \in removed THEN Gone ELSE node[m]])

DeleteConnection(n, item) ==
    /\ node[n].kind = "connection"
    /\ Readable(n)
    /\ ExpectedRevision(n, item)
    /\ MayRemove({n}) /\ Remove({n})
    /\ UNCHANGED <<operation, view>>

MatchesSnapshot(n, snapshot) == snapshot = Snapshot(n)

\* Only an empty folder is deleted without a snapshot of its subtree.
DeleteFolder(n, item, recursive, snapshot) ==
    /\ n \in Folders \ {Root}
    /\ Readable(n)
    /\ ExpectedRevision(n, item)
    /\ SubtreeFits(n)
    /\ IF recursive THEN MatchesSnapshot(n, snapshot) ELSE Children(n) = {}
    /\ MayRemove(Subtree(n)) /\ Remove(Subtree(n))
    /\ UNCHANGED <<operation, view>>

-----------------------------------------------------------------------------
(* Other writers of the catalog.                                           *)

\* A saga makes the row of its operation; applying it gives the connection a
\* password, takes it or deletes the connection; the row goes at the end, or
\* when the saga gives up.
BeginOperation(n) ==
    /\ node[n].kind = "connection" /\ operation[n] = "none"
    /\ operation' = [operation EXCEPT ![n] = "pending"]
    /\ UNCHANGED <<node, catalogRevision, view>>

ApplyOperation(n) ==
    /\ operation[n] = "pending"
    /\ \E remembered \in BOOLEAN :
          Write([node EXCEPT ![n] = Advance([@ EXCEPT !.remembered = remembered])])
    /\ operation' = [operation EXCEPT ![n] = "applied"]
    /\ UNCHANGED view

ApplyDelete(n) ==
    /\ operation[n] = "pending"
    /\ Remove({n})
    /\ operation' = [operation EXCEPT ![n] = "none"]
    /\ UNCHANGED view

EndOperation(n) ==
    /\ operation[n] # "none"
    /\ operation' = [operation EXCEPT ![n] = "none"]
    /\ UNCHANGED <<node, catalogRevision, view>>

\* Trusting or forgetting a host advances the catalog's revision as well.
ChangeTrust ==
    /\ Write(node)
    /\ UNCHANGED <<operation, view>>

-----------------------------------------------------------------------------
\* What a request may expect: nothing, or what some caller has read.  A deletion
\* brings the snapshot it needs; with another one it is refused.
Items == {{}} \cup {view[c].item : c \in Callers}
Places == {{}} \cup {view[c].place : c \in Callers}

Change ==
    \/ \E id, p \in Nodes, name \in Names, place \in Places :
          CreateFolder(id, p, name, place) \/ CreateConnection(id, p, name, place)
    \/ \E n \in Nodes, name \in Names, item \in Items :
          RenameFolder(n, name, item) \/ UpdateConnection(n, name, item)
    \/ \E n, p \in Nodes, item \in Items, place \in Places :
          MoveFolder(n, p, item, place) \/ MoveConnection(n, p, item, place)
    \/ \E n \in Nodes, item \in Items :
          \/ DeleteConnection(n, item)
          \/ \E recursive \in BOOLEAN : DeleteFolder(n, item, recursive, Snapshot(n))
    \/ \E n \in Nodes :
          BeginOperation(n) \/ ApplyOperation(n) \/ ApplyDelete(n) \/ EndOperation(n)
    \/ ChangeTrust

\* A request may be refused, and beyond the bound every one is.
Refuse == catalogRevision = MaxCatalog /\ UNCHANGED vars

Next ==
    \/ Change
    \/ Refuse
    \/ \E c \in Callers : ReadItem(c) \/ ReadPlace(c)

Spec == Init /\ [][Next]_vars

-----------------------------------------------------------------------------
(* Properties.                                                             *)

IsView(views) == \A v \in views : v.id \in Nodes /\ v.row \in Row

\* Type correctness: an identifier in use has a complete row, and the root's stays.
TypeOK ==
    /\ node \in [Nodes -> Row \cup {Unused, Gone}]
    /\ operation \in [Nodes -> {"none", "pending", "applied"}]
    /\ catalogRevision \in Nat
    /\ view = [c \in Callers |-> [item |-> view[c].item, place |-> view[c].place]]
    /\ \A c \in Callers : IsView(view[c].item) /\ IsView(view[c].place)

\* The catalog is a tree: the root is its only node without a parent, every other
\* node is in a folder, and no set of nodes hangs in itself, whatever moves into
\* what (folder_repository.go:244).
Hanging(S) == S # {} /\ \A n \in S : node[n].parent \in S
IsTree ==
    /\ Root \in Folders /\ node[Root].parent = NoNode
    /\ \A n \in Live \ {Root} : node[n].parent \in Folders
    /\ \A S \in SUBSET (Live \ {Root}) : ~Hanging(S)

\* Siblings differ in name, so a path names one node at most.
NamesAreUnique ==
    \A m, n \in Live \ {Root} :
        (node[m].parent = node[n].parent /\ node[m].name = node[n].name) => m = n

\* A revision stands for what was read with it: a node that still has the revision a
\* caller has seen is in every respect as the caller has seen it.
SeenIsCurrent ==
    \A c \in Callers : \A v \in view[c].item \cup view[c].place :
        node[v.id].revision = v.row.revision => node[v.id] = v.row

\* An unfinished credential operation is of a connection that is still there, so a
\* recovery finds what it works on (ON DELETE RESTRICT).
OperationsHaveConnections == \A n \in Nodes : operation[n] # "none" => node[n].kind = "connection"

\* A confirmed move takes what was seen, from the path where it was seen, to the
\* path that was seen: ancestors that were renamed or moved meanwhile refuse it.
MovesAsConfirmed(n, p, item, place) ==
    (MoveFolder(n, p, item, place) \/ MoveConnection(n, p, item, place)) =>
        \A i \in item, d \in place : Path(n) = i.path /\ Path(n)' = Append(d.path, i.row.name)
ConfirmedMoves ==
    [][\A n \in {m \in Nodes : node'[m] # node[m]}, p \in Nodes, c \in Callers :
          MovesAsConfirmed(n, p, view[c].item, view[c].place)]_vars
=============================================================================
