---------------------- MODULE CredentialSagaInvariant ----------------------
(***************************************************************************)
(* The inductive invariants behind the safety properties of                *)
(* CredentialSaga.                                                         *)
(*                                                                         *)
(* RowInv speaks of the rows alone and holds whatever the workers do.      *)
(*                                                                         *)
(* IInv relates the rows to the connections and the store, and holds as    *)
(* long as no recovery takes up the operation of a saga that still runs,   *)
(* which the code lets it do (TakesRunning below).  It is in two parts:    *)
(* what the durable state satisfies at every moment, so also right after a *)
(* crash, and what a worker in the middle of an operation may rely on.     *)
(***************************************************************************)
EXTENDS CredentialSaga

Used(o) == phase[o] # "unused"
Changed(o) == phase[o] \in Applied \cup {"completed"}
Deletes == {"remove", "delete_connection"}

-----------------------------------------------------------------------------
(* The durable state.                                                      *)

\* Only a save and a plain delete start from a connection without reference.
WellFormed ==
    \A o \in Ids : Used(o) =>
        /\ request[o] \in Request
        /\ Kind(o) \in {"save", "plain_delete"} <=> Old(o) = NoRef
        /\ Pending(o) => Kind(o) # "plain_delete" /\ Target(o).alive

\* The reference an operation starts from was made by an earlier write of the
\* same connection, whose row is gone once this operation has one.
OldIsEarlier ==
    \A o \in Ids : Used(o) /\ Old(o) # NoRef =>
        /\ Old(o) # o
        /\ Changed(Old(o)) /\ Kind(Old(o)) \in Writes
        /\ request[Old(o)].conn = request[o].conn
        /\ Pending(o) => phase[Old(o)] = "completed"

\* A connection's reference was made by a write of it that took effect.
RefIsApplied ==
    \A c \in Connections : conn[c].ref # NoRef =>
        /\ Changed(conn[c].ref) /\ Kind(conn[c].ref) \in Writes
        /\ request[conn[c].ref].conn = c

\* An applied operation is what its connection shows, until its row goes.
AppliedIsShown ==
    \A o \in Ids : phase[o] \in Applied =>
        /\ Kind(o) # "delete_connection"
        /\ Kind(o) \in Writes => Target(o).ref = o /\ o \in secrets
        /\ Kind(o) = "remove" => Target(o).ref = NoRef /\ Old(o) \notin secrets

\* The secret an applied operation replaced is never referenced again, and is
\* gone from the store with the operation's row; a deleted connection is gone.
OldIsRetired ==
    \A o \in Ids : Changed(o) /\ Old(o) # NoRef =>
        /\ \A c \in Connections : ~References(c, Old(o))
        /\ phase[o] = "completed" => Old(o) \notin secrets
        /\ Kind(o) = "delete_connection" => ~Target(o).alive

\* An operation that has not been applied is made from the present reference,
\* or from one whose secret is gone already.
OldIsCurrent ==
    \A o \in Ids : phase[o] \in Unapplied /\ Old(o) # NoRef =>
        Target(o).ref = Old(o) \/ Old(o) \notin secrets

\* Only a write with a row, or one that has taken effect, has a secret.
SecretIsWritten ==
    \A r \in secrets : Kind(r) \in Writes /\ phase[r] \in RowPhases \cup {"completed"}

\* A request not yet in the catalog is a snapshot of an earlier revision, or
\* of the present one.
SnapshotIsEarlier ==
    \A o \in Ids : phase[o] = "request" =>
        /\ request[o].revision <= Target(o).revision
        /\ request[o].revision = Target(o).revision /\ Target(o).alive
             => Old(o) = Target(o).ref

\* A secret in the store is the reference of a connection, deleted ones
\* included, or the new or old secret of a pending operation.
SecretIsAccounted ==
    \A r \in secrets : \/ \E c \in Connections : conn[c].ref = r
                       \/ Pending(r)
                       \/ \E o \in Ids : Pending(o) /\ Old(o) = r

Durable ==
    /\ WellFormed /\ OldIsEarlier /\ RefIsApplied /\ AppliedIsShown
    /\ OldIsRetired /\ OldIsCurrent /\ SecretIsWritten /\ SnapshotIsEarlier
    /\ OneOperationPerConnection /\ NoDanglingReference /\ SecretIsAccounted

-----------------------------------------------------------------------------
(* The workers.                                                            *)

LiveLabels == {"plain_delete", "create", "set", "verify_set", "read", "erase",
               "verify_erase", "undo", "verify_undo", "restore", "verify_restore", "abandon"}
RecoverLabels == {"list", "next", "inspect_prepared", "inspect_secret", "verify_active"}

\* A worker acts on the operation cur[w] at every label but these.
Resting == {"down", "ready", "list", "next"}
Acting(w) == pc[w] \notin Resting

\* What a worker with label l and mode m knows of its operation o.

\* The labels of a running saga and those of a recovery.
ModeAt(l, m) ==
    /\ l \in LiveLabels => m = "live"
    /\ l \in RecoverLabels => m # "live"
    /\ l = "down" => m = "boot"

\* The row: its phase and its kind.
RowAt(l, o) ==
    /\ l \in {"plain_delete", "create"} =>
          /\ phase[o] = "request"
          /\ Kind(o) = "plain_delete" <=> l = "plain_delete"
    /\ l \notin Resting \cup {"plain_delete", "create"} =>
          /\ phase[o] \notin {"unused", "request"}
          /\ Kind(o) # "plain_delete"
    /\ l \in {"set", "verify_set", "read", "erase", "verify_erase"} => phase[o] = "prepared"
    /\ l \in {"undo", "verify_undo", "restore", "verify_restore", "abandon"} =>
          phase[o] \in Unapplied
    /\ l \in {"set", "verify_set", "undo", "verify_undo", "verify_active"} => Kind(o) \in Writes
    /\ l \in {"read", "erase", "verify_erase", "restore", "verify_restore"} => Kind(o) \in Deletes
    /\ l \in {"cleanup", "retire", "verify_retire", "verify_active"} => Changed(o)
    /\ l = "cleanup" => Kind(o) = "replace"
    /\ l \in {"retire", "verify_retire"} => Kind(o) \in {"replace", "remove"}

\* Nobody moves the row of a running saga but the saga.
LiveRowAt(l, o) ==
    /\ l = "mark" => phase[o] = "prepared"
    /\ l = "apply" => phase[o] = "secret_changed"
    /\ l = "inspect" => \/ phase[o] \in {"secret_changed", "catalog_changed"}
                        \/ phase[o] = "completed" /\ Kind(o) = "delete_connection"
    /\ l \in {"cleanup", "retire", "verify_retire", "drop"} => phase[o] \in Applied

\* The store, and the connection's reference.
SecretAt(l, o) ==
    /\ l \in {"mark", "apply", "inspect"} /\ phase[o] \in Unapplied => SecretChanged(o)
    /\ l = "drop" =>
          /\ phase[o] \in Unapplied => ~SecretChanged(o)
          /\ phase[o] \in Applied /\ Kind(o) = "replace" => Old(o) \notin secrets
    /\ l = "abandon" /\ Kind(o) \in Writes => o \notin secrets
    /\ l \in {"read", "abandon"} /\ Kind(o) \in Deletes /\ Target(o).ref = Old(o)
          => Old(o) \in secrets

\* A running saga deletes the secret its connection has at present.
ErasingAt(l, m, o) ==
    LET erasing == \/ l \in {"erase", "verify_erase", "restore", "verify_restore"}
                   \/ /\ l \in {"mark", "apply", "inspect"} /\ m = "live"
                      /\ Kind(o) \in Deletes /\ phase[o] \in Unapplied
    IN  erasing => Target(o).ref = Old(o)

Knows(l, m, o) ==
    /\ l \notin Resting => o \in Ids
    /\ ModeAt(l, m)
    /\ RowAt(l, o)
    /\ m = "live" => LiveRowAt(l, o)
    /\ SecretAt(l, o)
    /\ ErasingAt(l, m, o)

Known == \A w \in Workers : Knows(pc[w], mode[w], cur[w])

\* What a recovery has listed was a row; a row listed as applied stays so.
ListedIsOlder ==
    \A w \in Workers, o \in Ids :
        /\ listed[w][o] # "unused" =>
              listed[w][o] \in RowPhases /\ phase[o] \notin {"unused", "request"} /\ Kind(o) # "plain_delete"
        /\ listed[w][o] \in Applied => Changed(o) /\ Kind(o) # "delete_connection"
        /\ o \in todo[w] => listed[w][o] # "unused"

\* Nobody else works on the operation of a running saga; recoveries may have
\* listed it.
Exclusive ==
    \A w, v \in Workers, o \in Ids :
        Running(w, o) /\ v # w => ~(Acting(v) /\ cur[v] = o)

\* What a recovery has passed is no longer pending.
PassedIsGone ==
    \A w \in Workers, o \in Ids :
        /\ mode[w] # "live" /\ (Acting(w) \/ pc[w] = "next")
        /\ listed[w][o] \in RowPhases /\ o \notin todo[w]
        /\ ~(Acting(w) /\ cur[w] = o)
        => ~Pending(o)

Volatile == Known /\ ListedIsOlder /\ Exclusive /\ PassedIsGone

IInv == TypeOK /\ Durable /\ Volatile

\* A deleted connection has left no secret, which makes an accounted secret
\* one that is not orphaned.
DeletedIsBare == \A c \in Connections : ~conn[c].alive => conn[c].ref \notin secrets

-----------------------------------------------------------------------------
(* The rows, whoever works on them.                                        *)

Begun == {"plain_delete", "create"}

\* A generated ID has its columns; only a save and a plain delete start from a
\* connection without reference, and a plain delete has no row.
Requested ==
    \A o \in Ids : Used(o) =>
        /\ request[o] \in Request
        /\ Kind(o) \in {"save", "plain_delete"} <=> Old(o) = NoRef
        /\ Pending(o) => Kind(o) # "plain_delete"

\* A worker acts on the request it holds, or on an operation that has, or had,
\* a row; a recovery goes through its list, a running saga has none.
OnItsRow ==
    \A w \in Workers :
        /\ pc[w] \in {"list", "next"} => mode[w] # "live"
        /\ Acting(w) =>
              /\ cur[w] \in Ids
              /\ pc[w] \in Begun =>
                    /\ phase[cur[w]] = "request"
                    /\ Kind(cur[w]) = "plain_delete" <=> pc[w] = "plain_delete"
              /\ pc[w] \notin Begun =>
                    phase[cur[w]] \notin {"unused", "request"} /\ Kind(cur[w]) # "plain_delete"
              /\ pc[w] = "restore" => Kind(cur[w]) \notin Writes

\* No two workers hold the same request.
OwnRequest ==
    \A w, v \in Workers : w # v /\ pc[w] \in Begun /\ pc[v] \in Begun => cur[v] # cur[w]

\* What a recovery has listed was a row.
ListedIsRow ==
    \A w \in Workers, o \in Ids :
        /\ listed[w][o] # "unused" =>
              listed[w][o] \in RowPhases /\ phase[o] \notin {"unused", "request"} /\ Kind(o) # "plain_delete"
        /\ o \in todo[w] => listed[w][o] # "unused"

RowInv ==
    /\ TypeOK /\ Requested /\ OnItsRow /\ OwnRequest /\ ListedIsRow
    /\ OneOperationPerConnection /\ PassedIsGone

-----------------------------------------------------------------------------
(* The steps that the properties of catalog and store do not survive.      *)

\* A recovery takes up an operation from its list while the saga that made it
\* is still running (recoverOperation on a row another process or goroutine
\* is working on).
TakesRunning == \E w, v \in Workers : NextOperation(w) /\ Running(v, cur'[w])

\* A delete that names no revision deletes a connection that has been given a
\* password since it was read (ConnectionService.Delete, then DeleteConnection).
BlindDelete == \E w \in Workers : PlainDelete(w) /\ conn' # conn /\ Target(cur[w]).ref # NoRef
=============================================================================
