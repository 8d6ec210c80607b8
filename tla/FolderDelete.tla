---------------------------- MODULE FolderDelete ----------------------------
(***************************************************************************)
(* The recursive deletion of a folder (internal/app/folder_delete.go) in a *)
(* catalog that other processes change.                                    *)
(*                                                                         *)
(* The scope of a deletion is read folder by folder, each in a transaction *)
(* of its own, and shown to the user.  Once confirmed it is read again and *)
(* compared, the connections with a remembered password are deleted by a   *)
(* credential saga each, and the rest in one transaction at the end.       *)
(***************************************************************************)
EXTENDS CatalogTree

VARIABLE
    deletion   \* the deletion that one user asks for

allVars == <<vars, deletion>>

\* What a snapshot keeps of a node: [id, revision].
Version(n) == [id |-> n, revision |-> node[n].revision]
Versions(S) == {Version(n) : n \in S}
IdsOf(versions) == {v.id : v \in versions}

Scanning == {"inspecting", "checking"}
Steps == Scanning \cup {"idle", "confirming", "erasing", "saga", "deleted"}

\* at: the catalog's revision when the reading began; pending: folders still to be
\* listed; seen: what was listed; remembered: connections whose password is to go;
\* confirmed: what the user was shown; removed: what the sagas have deleted.
Idle == [step |-> "idle", folder |-> NoNode, at |-> 0, pending |-> {}, seen |-> {},
         remembered |-> {}, confirmed |-> {}, removed |-> {}]

\* What a catalog may hold when the program starts.  Only its tree matters:
\* revisions are compared with what was read here, and count from there.
Stored == {Unused} \cup
          {row \in [kind : NodeKinds, parent : Nodes, name : Names, revision : {1},
                    remembered : BOOLEAN] : row.remembered => row.kind = "connection"}

DeletionInit ==
    /\ \E rows \in [Nodes \ {Root} -> Stored] :
          node = [n \in Nodes |-> IF n = Root
                                  THEN [Unused EXCEPT !.kind = "folder", !.revision = 1]
                                  ELSE rows[n]]
    /\ IsTree /\ NamesAreUnique
    /\ operation = [n \in Nodes |-> "none"]
    /\ catalogRevision = 1
    /\ view = [c \in Callers |-> [item |-> {}, place |-> {}]]
    /\ deletion = Idle

-----------------------------------------------------------------------------
(* buildDeleteScope.                                                       *)

\* GetFolder.
BeginScan(step, n) ==
    /\ n \in Folders /\ Readable(n)
    /\ deletion' = [deletion EXCEPT !.step = step, !.folder = n, !.at = catalogRevision,
                                    !.pending = {Version(n)}, !.seen = {}, !.remembered = {}]
    /\ UNCHANGED vars

\* DeleteScope, for a user; the root's is refused at the end.
Inspect ==
    /\ deletion.step \in {"idle", "deleted"}
    /\ \E n \in Folders \ {Root} : BeginScan("inspecting", n)

\* Mutant of Unchanged: a listing is taken as it comes.
UnchangedFolder(f) == f.id \in Folders

\* ListChildren finds the folder, can read what is in it, and is still of the
\* revision at which the scan began.
Unchanged(f) ==
    /\ f.id \in Folders
    /\ \A n \in Children(f.id) : Readable(n)
    /\ catalogRevision = deletion.at

Found(f) == deletion.seen \cup {f} \cup Versions(Children(f.id) \ Folders)
Left(f) == (deletion.pending \ {f}) \cup Versions(Children(f.id) \cap Folders)

\* What follows the last listing: the question to the user, or the comparison of
\* what is there with what was confirmed.
NextStep(seen, left) ==
    IF left # {} THEN deletion.step
    ELSE IF deletion.step = "inspecting" THEN "confirming"
    ELSE "erasing"

ListFolder ==
    /\ deletion.step \in Scanning
    /\ \E f \in deletion.pending :
          /\ Unchanged(f)
          /\ (deletion.step = "checking" /\ Left(f) = {}) => Found(f) = deletion.confirmed
          /\ deletion' = [deletion EXCEPT
                !.step = NextStep(Found(f), Left(f)),
                !.pending = Left(f),
                !.seen = Found(f),
                !.remembered = @ \cup Versions({n \in Children(f.id) : node[n].remembered}),
                !.confirmed = IF deletion.step = "inspecting" THEN Found(f) ELSE @]
    /\ UNCHANGED vars

-----------------------------------------------------------------------------
(* Delete.                                                                 *)

\* The user confirms what was shown.
Confirm ==
    /\ deletion.step = "confirming"
    /\ BeginScan("checking", deletion.folder)

\* The deletion ends without success: the user declines, a call fails, what was
\* confirmed is not what is there.  What was deleted before remains deleted.
GiveUp ==
    /\ deletion.step \in Steps \ {"idle", "deleted", "saga"}
    /\ deletion' = Idle
    /\ UNCHANGED vars

\* CredentialSaga.DeleteConnection of one connection after the other.
BeginErase ==
    /\ deletion.step = "erasing"
    /\ \E v \in deletion.remembered :
          /\ BeginOperation(v.id)
          /\ deletion' = [deletion EXCEPT !.step = "saga", !.pending = {v}]

\* Mutant of Pinned: whatever the connection is by now, it goes.
Unpinned(v) == node[v.id].kind = "connection"

\* The operation is applied to the revision it was made for only.
Pinned(v) == node[v.id].kind = "connection" /\ node[v.id].revision = v.revision

Erased(v) ==
    deletion' = [deletion EXCEPT !.step = "erasing", !.pending = {},
                                 !.remembered = @ \ {v}, !.removed = @ \cup {v}]

Erase ==
    /\ deletion.step = "saga"
    /\ \E v \in deletion.pending : Pinned(v) /\ ApplyDelete(v.id) /\ Erased(v)

\* A recovery has completed the operation.
EraseCompleted ==
    /\ deletion.step = "saga"
    /\ \E v \in deletion.pending : node[v.id] = Gone /\ Erased(v)
    /\ UNCHANGED vars

\* The saga fails: left to a recovery, compensated, or after its effect.
EraseFails ==
    /\ deletion.step = "saga"
    /\ deletion' = Idle
    /\ \/ UNCHANGED vars
       \/ \E v \in deletion.pending : EndOperation(v.id) \/ (Pinned(v) /\ ApplyDelete(v.id))

Remaining == deletion.confirmed \ deletion.removed

\* The revision of the folder that the user has confirmed.
Expected == {[id |-> v.id, row |-> [revision |-> v.revision]] :
                v \in {w \in deletion.confirmed : w.id = deletion.folder}}

DeleteRest ==
    /\ deletion.step = "erasing"
    /\ deletion.remembered = {}
    /\ DeleteFolder(deletion.folder, Expected, TRUE, Remaining)
    /\ deletion' = [deletion EXCEPT !.step = "deleted"]

DeletionStep ==
    \/ Inspect \/ ListFolder \/ Confirm \/ GiveUp
    \/ BeginErase \/ Erase \/ EraseCompleted \/ EraseFails \/ DeleteRest

DeletionNext ==
    \/ Next /\ UNCHANGED deletion
    \/ DeletionStep

DeletionSpec == DeletionInit /\ [][DeletionNext]_allVars

-----------------------------------------------------------------------------
(* Properties.                                                             *)

\* The scope that is shown or compared is a subtree as the catalog holds it at one
\* moment, though it was read in several transactions (folder_delete.go:124).
ScopeIsAtomic ==
    [][(deletion.step \in Scanning /\ deletion'.step \in {"confirming", "erasing"})
          => deletion'.seen = Snapshot(deletion.folder)]_allVars

\* A deletion takes away what was confirmed, at the revision that was confirmed,
\* and nothing else; it succeeds only when all of that is gone.
DeletesTheConfirmed ==
    [][/\ deletion' # deletion =>
             \A n \in Live : node'[n] = Gone => Version(n) \in deletion.confirmed
       /\ (deletion.step = "erasing" /\ deletion'.step = "deleted") =>
             \A n \in IdsOf(deletion.confirmed) : node'[n] = Gone]_allVars
=============================================================================
