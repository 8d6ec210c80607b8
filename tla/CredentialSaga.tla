--------------------------- MODULE CredentialSaga ---------------------------
(***************************************************************************)
(* The durable saga that keeps the SQLite catalog and the operating        *)
(* system's credential store in agreement about remembered passwords       *)
(* (internal/app/credential_saga.go over                                   *)
(* internal/catalog/credential_operations.go).                             *)
(*                                                                         *)
(* A worker is one thread of control of one Orza process: a command, the   *)
(* TUI, or a tunnel goroutine, which recovers on its own.  Every call to   *)
(* the catalog or to the store is one step, so workers interleave between  *)
(* calls, and every call may fail with or without having taken effect.     *)
(* A crash loses what the worker held in memory, the secret bytes          *)
(* included, and nothing else.                                             *)
(*                                                                         *)
(* An operation's ID and the reference it creates are both fresh random    *)
(* identifiers: one token stands for the two, so a save or replace o       *)
(* stores its secret under the reference o.                                *)
(***************************************************************************)
EXTENDS Naturals, FiniteSets

CONSTANTS
    Workers,          \* threads of control that run sagas and recoveries
    Connections,      \* saved connections
    Ids,              \* operation IDs, and the references they create
    NoRef,            \* the empty credential reference
    NoRequest,        \* the content of an ID nobody has generated yet
    MaxRevision,      \* bound on a connection's revision
    MaxFaults,        \* bound on failed calls and crashes together
    RecoverRunning,   \* may a recovery list an operation whose saga still runs?
    EditsDuringSaga,  \* may a connection be edited while a saga is under way?
    UnpinnedDeletes   \* may a connection be deleted without a revision?

ASSUME NoRefAssumption == NoRef \notin Ids
ASSUME GoneAssumption == "gone" \notin Ids \cup {NoRef}  \* see Password below
ASSUME BoundsAssumption == MaxRevision \in Nat /\ MaxFaults \in Nat
ASSUME SwitchAssumption ==
    /\ RecoverRunning \in BOOLEAN
    /\ EditsDuringSaga \in BOOLEAN
    /\ UnpinnedDeletes \in BOOLEAN

VARIABLES
    conn,     \* connection -> is it in the catalog, its revision, its reference
    request,  \* ID -> the immutable columns of its row, read when it was made
    phase,    \* ID -> the phase column, or where a missing row stands
    secrets,  \* the references the credential store holds
    pc, mode, cur, todo, listed, result,  \* per worker, lost in a crash
    faults    \* failed calls and crashes so far

catalogVars == <<conn, request, phase>>
workerVars == <<pc, mode, cur, todo, listed, result>>
vars == <<conn, request, phase, secrets, workerVars, faults>>

-----------------------------------------------------------------------------
(* Data.                                                                   *)

SagaKinds == {"save", "replace", "remove", "delete_connection"}
Writes == {"save", "replace"}
Kinds == SagaKinds \cup {"plain_delete"}

\* conn, revision and reference are the caller's snapshot of the connection.
Request == [kind : Kinds, conn : Connections, revision : Nat,
            old : Ids \cup {NoRef}, pinned : BOOLEAN]

Unapplied == {"prepared", "secret_changed"}
Applied == {"catalog_changed", "cleanup_pending"}
RowPhases == Unapplied \cup Applied

\* A missing row is not generated yet, held by a caller only, or deleted; the
\* last two values record whether it had changed the catalog before that.
Phases == RowPhases \cup {"unused", "request", "completed", "abandoned"}

Pending(o) == phase[o] \in RowPhases
PendingOn(c) == \E o \in Ids : Pending(o) /\ request[o].conn = c

Kind(o) == request[o].kind
Old(o) == request[o].old
Target(o) == conn[request[o].conn]

Init ==
    /\ conn = [c \in Connections |-> [alive |-> TRUE, revision |-> 1, ref |-> NoRef]]
    /\ request = [o \in Ids |-> NoRequest]
    /\ phase = [o \in Ids |-> "unused"]
    /\ secrets = {}
    /\ pc = [w \in Workers |-> "down"]
    /\ mode = [w \in Workers |-> "boot"]
    /\ cur = [w \in Workers |-> NoRef]
    /\ todo = [w \in Workers |-> {}]
    /\ listed = [w \in Workers |-> [o \in Ids |-> "unused"]]
    /\ result = [w \in Workers |-> "none"]
    /\ faults = 0

-----------------------------------------------------------------------------
(* Calls.  A call that returns no error has taken effect; one that returns *)
(* an error may or may not have.                                           *)

Call(done, ok) ==
    IF ok THEN done /\ UNCHANGED faults
          ELSE faults < MaxFaults /\ faults' = faults + 1

Fault == faults < MaxFaults /\ faults' = faults + 1

Goto(w, label) ==
    /\ pc' = [pc EXCEPT ![w] = label]
    /\ UNCHANGED <<mode, cur, todo, listed, result>>

\* A saga returns to its caller; a recovery moves to the next operation.
Succeed(w) ==
    /\ pc' = [pc EXCEPT ![w] = IF mode[w] = "live" THEN "ready" ELSE "next"]
    /\ result' = [result EXCEPT ![w] = IF mode[w] = "live" THEN "ok" ELSE @]
    /\ UNCHANGED <<mode, cur, todo, listed>>

\* Mutant of Fail: a recovery logs the error and goes on with its list.
FailAndGoOn(w) ==
    /\ pc' = [pc EXCEPT ![w] = IF mode[w] = "live" THEN "ready" ELSE "next"]
    /\ result' = [result EXCEPT ![w] = IF mode[w] = "live" THEN "error" ELSE @]
    /\ UNCHANGED <<mode, cur, todo, listed>>

\* A saga returns its error; a recovery stops at the first one, and a process
\* whose startup recovery failed does not start.
Fail(w) ==
    /\ pc' = [pc EXCEPT ![w] = IF mode[w] = "boot" THEN "down" ELSE "ready"]
    /\ result' = [result EXCEPT ![w] = IF mode[w] = "live" THEN "error" ELSE @]
    /\ todo' = [todo EXCEPT ![w] = {}]
    /\ UNCHANGED <<mode, cur, listed>>

\* store.Set and store.Delete.
StoreSet(r, done) == secrets' = IF done THEN secrets \cup {r} ELSE secrets
StoreDelete(r, done) == secrets' = IF done THEN secrets \ {r} ELSE secrets

\* SetCredentialOperationPhase refuses a missing row and a step that is not
\* the next one; repeating the present phase is allowed.
NextPhase == {<<"prepared", "secret_changed">>, <<"secret_changed", "catalog_changed">>,
              <<"catalog_changed", "cleanup_pending">>}

\* Mutant of MaySetPhase: without the repetition.
MaySetPhaseOnce(o, p) == <<phase[o], p>> \in NextPhase

MaySetPhase(o, p) == Pending(o) /\ (phase[o] = p \/ <<phase[o], p>> \in NextPhase)

\* DeleteCredentialOperation succeeds whether or not the row is there.
DeleteRow(o, done) ==
    phase' = [phase EXCEPT ![o] = CASE done /\ @ \in Applied -> "completed"
                                    [] done /\ @ \in Unapplied -> "abandoned"
                                    [] OTHER -> @]

-----------------------------------------------------------------------------
(* The caller: ConnectionService reads the connection, and the saga makes  *)
(* the operation from that snapshot.                                       *)

\* A live saga owns the operation it created until it returns.
Running(w, o) == pc[w] \notin {"down", "ready"} /\ mode[w] = "live" /\ cur[w] = o

Begin(w, c, kind, o, pinned) ==
    /\ pc[w] = "ready"
    /\ conn[c].alive
    /\ phase[o] = "unused"
    /\ (kind \in {"save", "plain_delete"}) <=> (conn[c].ref = NoRef)
    /\ pinned \/ (UnpinnedDeletes /\ kind = "plain_delete")
    /\ request' = [request EXCEPT ![o] =
           [kind |-> kind, conn |-> c, revision |-> conn[c].revision,
            old |-> conn[c].ref, pinned |-> pinned]]
    /\ phase' = [phase EXCEPT ![o] = "request"]
    /\ pc' = [pc EXCEPT ![w] = IF kind = "plain_delete" THEN "plain_delete" ELSE "create"]
    /\ mode' = [mode EXCEPT ![w] = "live"]
    /\ cur' = [cur EXCEPT ![w] = o]
    /\ result' = [result EXCEPT ![w] = "none"]
    /\ UNCHANGED <<conn, secrets, todo, listed, faults>>

\* Mutant of MayPlainDelete: no foreign key keeps the row of an operation.
MayCascade(o) ==
    /\ Target(o).alive
    /\ request[o].pinned => Target(o).revision = request[o].revision

\* Repository.DeleteConnection, for a connection whose snapshot has no
\* reference; a pending operation's foreign key refuses it.
MayPlainDelete(o) ==
    /\ Target(o).alive
    /\ request[o].pinned => Target(o).revision = request[o].revision
    /\ ~PendingOn(request[o].conn)

PlainDelete(w) ==
    /\ pc[w] = "plain_delete"
    /\ \/ /\ MayPlainDelete(cur[w])
          /\ \E done, ok \in BOOLEAN :
               /\ Call(done, ok)
               /\ conn' = IF done THEN [conn EXCEPT ![request[cur[w]].conn].alive = FALSE] ELSE conn
               /\ phase' = [phase EXCEPT ![cur[w]] = IF done THEN "completed" ELSE "abandoned"]
               /\ IF ok THEN Succeed(w) ELSE Fail(w)
       \/ /\ ~MayPlainDelete(cur[w])
          /\ phase' = [phase EXCEPT ![cur[w]] = "abandoned"]
          /\ Fail(w)
          /\ UNCHANGED <<conn, faults>>
    /\ UNCHANGED <<request, secrets>>

\* CreateCredentialOperation: one pending operation for a connection at most.
MayCreate(o) == Target(o).alive /\ ~PendingOn(request[o].conn)

Create(w) ==
    /\ pc[w] = "create"
    /\ \/ /\ MayCreate(cur[w])
          /\ \E done, ok \in BOOLEAN :
               /\ Call(done, ok)
               /\ phase' = [phase EXCEPT ![cur[w]] = IF done THEN "prepared" ELSE "abandoned"]
               /\ IF ok THEN Goto(w, IF Kind(cur[w]) \in Writes THEN "set" ELSE "read")
                        ELSE Fail(w)
       \/ /\ ~MayCreate(cur[w])
          /\ phase' = [phase EXCEPT ![cur[w]] = "abandoned"]
          /\ Fail(w)
          /\ UNCHANGED faults
    /\ UNCHANGED <<conn, request, secrets>>

-----------------------------------------------------------------------------
(* writeCredential: store the new secret, read it back.                    *)

SetSecret(w) ==
    /\ pc[w] = "set"
    /\ \E done, ok \in BOOLEAN : Call(done, ok) /\ StoreSet(cur[w], done)
    /\ Goto(w, "verify_set")
    /\ UNCHANGED catalogVars

VerifySet(w) ==
    /\ pc[w] = "verify_set"
    /\ \/ cur[w] \in secrets /\ Goto(w, "mark") /\ UNCHANGED faults
       \/ cur[w] \notin secrets /\ Goto(w, "undo") /\ UNCHANGED faults
       \/ Fault /\ Goto(w, "undo")
    /\ UNCHANGED <<catalogVars, secrets>>

(* deleteCredential: read the old secret to be able to restore it, delete  *)
(* it, check that it is gone.  An unreadable check leaves the row.         *)

ReadOld(w) ==
    /\ pc[w] = "read"
    /\ \/ Old(cur[w]) \in secrets /\ Goto(w, "erase") /\ UNCHANGED faults
       \/ Old(cur[w]) \notin secrets /\ Goto(w, "abandon") /\ UNCHANGED faults
       \/ Fault /\ Goto(w, "abandon")
    /\ UNCHANGED <<catalogVars, secrets>>

EraseOld(w) ==
    /\ pc[w] = "erase"
    /\ \E done, ok \in BOOLEAN : Call(done, ok) /\ StoreDelete(Old(cur[w]), done)
    /\ Goto(w, "verify_erase")
    /\ UNCHANGED catalogVars

VerifyErase(w) ==
    /\ pc[w] = "verify_erase"
    /\ \/ Old(cur[w]) \notin secrets /\ Goto(w, "mark") /\ UNCHANGED faults
       \/ Old(cur[w]) \in secrets /\ Goto(w, "abandon") /\ UNCHANGED faults
       \/ Fault /\ Fail(w)
    /\ UNCHANGED <<catalogVars, secrets>>

-----------------------------------------------------------------------------
(* Recording the secret's change, and applying it to the catalog.          *)

\* Mutants of Revert: the row goes without compensation, and the saga goes on to
\* drop the row as if it had finished.
RevertNothing(w) == IF mode[w] = "live" THEN Goto(w, "abandon") ELSE Fail(w)
RevertByDropping(w) == IF mode[w] = "live" THEN Goto(w, "drop") ELSE Fail(w)

\* After an unapplied change a running saga compensates and a recovery stops.
Revert(w) ==
    IF mode[w] = "live"
    THEN Goto(w, IF Kind(cur[w]) \in Writes THEN "undo" ELSE "restore")
    ELSE Fail(w)

Mark(w) ==
    /\ pc[w] = "mark"
    /\ \/ /\ MaySetPhase(cur[w], "secret_changed")
          /\ \E done, ok \in BOOLEAN :
               /\ Call(done, ok)
               /\ phase' = IF done THEN [phase EXCEPT ![cur[w]] = "secret_changed"] ELSE phase
               /\ IF ok THEN Goto(w, IF mode[w] = "live" THEN "apply" ELSE "inspect_secret")
                        ELSE Revert(w)
       \/ /\ ~MaySetPhase(cur[w], "secret_changed")
          /\ Revert(w)
          /\ UNCHANGED <<phase, faults>>
    /\ UNCHANGED <<conn, request, secrets>>

\* Mutant of Finish: the replaced secret is not retired.
FinishAtOnce(w) == Goto(w, "drop")

\* finishApplied: only a replace has an old credential left to clean up.
Finish(w) == Goto(w, IF Kind(cur[w]) = "replace" THEN "cleanup" ELSE "drop")

\* The transaction of ApplyCredentialOperation changes the catalog when the
\* row is secret_changed and the connection is the one the row was made from.
MayApply(o) ==
    /\ phase[o] = "secret_changed"
    /\ Target(o).alive
    /\ Target(o).revision = request[o].revision
    /\ Target(o).ref = Old(o)

Applying(o) ==
    LET c == request[o].conn
    IN  IF Kind(o) = "delete_connection"
        THEN /\ conn' = [conn EXCEPT ![c].alive = FALSE]
             /\ phase' = [phase EXCEPT ![o] = "completed"]
        ELSE /\ conn' = [conn EXCEPT ![c].ref = IF Kind(o) \in Writes THEN o ELSE NoRef,
                                     ![c].revision = @ + 1]
             /\ phase' = [phase EXCEPT ![o] = "catalog_changed"]

Apply(w) ==
    /\ pc[w] = "apply"
    /\ \/ /\ MayApply(cur[w])
          /\ \E done, ok \in BOOLEAN :
               /\ Call(done, ok)
               /\ IF done THEN Applying(cur[w]) ELSE UNCHANGED <<conn, phase>>
               /\ CASE ~ok -> Goto(w, "inspect")
                    [] ok /\ Kind(cur[w]) = "delete_connection" -> Succeed(w)
                    [] OTHER -> Finish(w)
       \/ phase[cur[w]] \in Applied /\ Finish(w) /\ UNCHANGED <<conn, phase, faults>>
       \/ phase[cur[w]] \in Applied /\ Fault /\ Goto(w, "inspect") /\ UNCHANGED <<conn, phase>>
       \/ /\ ~MayApply(cur[w]) /\ phase[cur[w]] \notin Applied
          /\ Goto(w, "inspect")
          /\ UNCHANGED <<conn, phase, faults>>
    /\ UNCHANGED <<request, secrets>>

\* applyAndInspect reads the row back after an error of Apply; a missing row
\* counts as completed, by the atomic delete or by another recovery.
Inspect(w) ==
    /\ pc[w] = "inspect"
    /\ \/ phase[cur[w]] \in Applied /\ Finish(w) /\ UNCHANGED faults
       \/ phase[cur[w]] \in Unapplied /\ Revert(w) /\ UNCHANGED faults
       \/ ~Pending(cur[w]) /\ Succeed(w) /\ UNCHANGED faults
       \/ Fault /\ Fail(w)
    /\ UNCHANGED <<catalogVars, secrets>>

-----------------------------------------------------------------------------
(* Finishing: record the clean-up, retire the old secret, delete the row.  *)

Cleanup(w) ==
    /\ pc[w] = "cleanup"
    /\ \/ /\ MaySetPhase(cur[w], "cleanup_pending")
          /\ \E done, ok \in BOOLEAN :
               /\ Call(done, ok)
               /\ phase' = IF done THEN [phase EXCEPT ![cur[w]] = "cleanup_pending"] ELSE phase
               /\ IF ok THEN Goto(w, "retire") ELSE Fail(w)
       \/ /\ ~MaySetPhase(cur[w], "cleanup_pending")
          /\ Fail(w)
          /\ UNCHANGED <<phase, faults>>
    /\ UNCHANGED <<conn, request, secrets>>

RetireOld(w) ==
    /\ pc[w] = "retire"
    /\ \E done, ok \in BOOLEAN : Call(done, ok) /\ StoreDelete(Old(cur[w]), done)
    /\ Goto(w, "verify_retire")
    /\ UNCHANGED catalogVars

VerifyRetire(w) ==
    /\ pc[w] = "verify_retire"
    /\ \/ Old(cur[w]) \notin secrets /\ Goto(w, "drop") /\ UNCHANGED faults
       \/ Old(cur[w]) \in secrets /\ Fail(w) /\ UNCHANGED faults
       \/ Fault /\ Fail(w)
    /\ UNCHANGED <<catalogVars, secrets>>

Drop(w) ==
    /\ pc[w] = "drop"
    /\ \E done, ok \in BOOLEAN :
         /\ Call(done, ok)
         /\ DeleteRow(cur[w], done)
         /\ IF ok THEN Succeed(w) ELSE Fail(w)
    /\ UNCHANGED <<conn, request, secrets>>

-----------------------------------------------------------------------------
(* compensateNewCredential and compensateOldCredential: the row goes only  *)
(* when the compensation is verified, and the saga fails either way.       *)

UndoNew(w) ==
    /\ pc[w] = "undo"
    /\ \E done, ok \in BOOLEAN : Call(done, ok) /\ StoreDelete(cur[w], done)
    /\ Goto(w, "verify_undo")
    /\ UNCHANGED catalogVars

VerifyUndo(w) ==
    /\ pc[w] = "verify_undo"
    /\ \/ cur[w] \notin secrets /\ Goto(w, "abandon") /\ UNCHANGED faults
       \/ cur[w] \in secrets /\ Fail(w) /\ UNCHANGED faults
       \/ Fault /\ Fail(w)
    /\ UNCHANGED <<catalogVars, secrets>>

RestoreOld(w) ==
    /\ pc[w] = "restore"
    /\ \E done, ok \in BOOLEAN : Call(done, ok) /\ StoreSet(Old(cur[w]), done)
    /\ Goto(w, "verify_restore")
    /\ UNCHANGED catalogVars

VerifyRestore(w) ==
    /\ pc[w] = "verify_restore"
    /\ \/ Old(cur[w]) \in secrets /\ Goto(w, "abandon") /\ UNCHANGED faults
       \/ Old(cur[w]) \notin secrets /\ Fail(w) /\ UNCHANGED faults
       \/ Fault /\ Fail(w)
    /\ UNCHANGED <<catalogVars, secrets>>

Abandon(w) ==
    /\ pc[w] = "abandon"
    /\ \E done, ok \in BOOLEAN : Call(done, ok) /\ DeleteRow(cur[w], done)
    /\ Fail(w)
    /\ UNCHANGED <<conn, request, secrets>>

-----------------------------------------------------------------------------
(* Recover: at startup, and again before a connect, a command or a tunnel. *)

BeginRecovery(w) ==
    /\ pc[w] \in {"down", "ready"}
    /\ pc' = [pc EXCEPT ![w] = "list"]
    /\ mode' = [mode EXCEPT ![w] = IF pc[w] = "down" THEN "boot" ELSE "recover"]
    /\ result' = [result EXCEPT ![w] = "none"]
    /\ UNCHANGED <<catalogVars, secrets, cur, todo, listed, faults>>

\* Every pending row, as the code has it.  With RecoverRunning FALSE nobody
\* recovers while a saga runs: what Orza needs of its users and does not check.
Listable(o) == Pending(o) /\ (RecoverRunning \/ \A v \in Workers : ~Running(v, o))

List(w) ==
    /\ pc[w] = "list"
    /\ \/ /\ listed' = [listed EXCEPT ![w] =
                 [o \in Ids |-> IF Listable(o) THEN phase[o] ELSE "unused"]]
          /\ todo' = [todo EXCEPT ![w] = {o \in Ids : Listable(o)}]
          /\ pc' = [pc EXCEPT ![w] = "next"]
          /\ UNCHANGED <<mode, cur, result, faults>>
       \/ Fault /\ Fail(w)
    /\ UNCHANGED <<catalogVars, secrets>>

\* recoverOperation switches on the phase the listing read.  The rows come by
\* creation time; any order is allowed here, for clocks of several processes.
EntryLabel(o, p) ==
    CASE p = "prepared" -> "inspect_prepared"
      [] p = "secret_changed" -> "inspect_secret"
      [] OTHER -> IF Kind(o) \in Writes THEN "verify_active" ELSE "retire"

NextOperation(w) ==
    /\ pc[w] = "next"
    /\ \E o \in todo[w] :
         /\ cur' = [cur EXCEPT ![w] = o]
         /\ todo' = [todo EXCEPT ![w] = @ \ {o}]
         /\ pc' = [pc EXCEPT ![w] = EntryLabel(o, listed[w][o])]
    /\ UNCHANGED <<catalogVars, secrets, mode, listed, result, faults>>

Recovered(w) ==
    /\ pc[w] = "next"
    /\ todo[w] = {}
    /\ pc' = [pc EXCEPT ![w] = "ready"]
    /\ UNCHANGED <<catalogVars, secrets, mode, cur, todo, listed, result, faults>>

\* A write wants its new secret there, a delete wants the old one gone.
SecretChanged(o) == IF Kind(o) \in Writes THEN o \in secrets ELSE Old(o) \notin secrets

InspectPrepared(w) ==
    /\ pc[w] = "inspect_prepared"
    /\ \/ SecretChanged(cur[w]) /\ Goto(w, "mark") /\ UNCHANGED faults
       \/ ~SecretChanged(cur[w]) /\ Goto(w, "drop") /\ UNCHANGED faults
       \/ Fault /\ Fail(w)
    /\ UNCHANGED <<catalogVars, secrets>>

InspectSecret(w) ==
    /\ pc[w] = "inspect_secret"
    /\ \/ SecretChanged(cur[w]) /\ Goto(w, "apply") /\ UNCHANGED faults
       \/ ~SecretChanged(cur[w]) /\ Goto(w, "drop") /\ UNCHANGED faults
       \/ Fault /\ Fail(w)
    /\ UNCHANGED <<catalogVars, secrets>>

VerifyActive(w) ==
    /\ pc[w] = "verify_active"
    /\ \/ cur[w] \in secrets /\ Finish(w) /\ UNCHANGED faults
       \/ cur[w] \notin secrets /\ Fail(w) /\ UNCHANGED faults
       \/ Fault /\ Fail(w)
    /\ UNCHANGED <<catalogVars, secrets>>

-----------------------------------------------------------------------------
(* The surroundings: a crash, and another process editing a connection.    *)

Crash(w) ==
    /\ pc[w] # "down"
    /\ Fault
    /\ pc' = [pc EXCEPT ![w] = "down"]
    /\ mode' = [mode EXCEPT ![w] = "boot"]
    /\ cur' = [cur EXCEPT ![w] = NoRef]
    /\ todo' = [todo EXCEPT ![w] = {}]
    /\ listed' = [listed EXCEPT ![w] = [o \in Ids |-> "unused"]]
    /\ result' = [result EXCEPT ![w] = "none"]
    /\ phase' = IF pc[w] \in {"plain_delete", "create"}
                THEN [phase EXCEPT ![cur[w]] = "abandoned"] ELSE phase
    /\ UNCHANGED <<conn, request, secrets>>

\* Repository.UpdateConnection or MoveConnection: the reference stays, the
\* revision advances, and pending operations are not consulted.
Edit(c) ==
    /\ conn[c].alive
    /\ conn[c].revision < MaxRevision
    /\ \/ EditsDuringSaga
       \/ \A o \in Ids : request[o] # NoRequest /\ request[o].conn = c
                            => phase[o] \in {"completed", "abandoned"}
    /\ conn' = [conn EXCEPT ![c].revision = @ + 1]
    /\ UNCHANGED <<request, phase, secrets, workerVars, faults>>

-----------------------------------------------------------------------------
SagaStep(w) ==
    \/ PlainDelete(w) \/ Create(w)
    \/ SetSecret(w) \/ VerifySet(w)
    \/ ReadOld(w) \/ EraseOld(w) \/ VerifyErase(w)
    \/ Mark(w) \/ Apply(w) \/ Inspect(w)
    \/ Cleanup(w) \/ RetireOld(w) \/ VerifyRetire(w) \/ Drop(w)
    \/ UndoNew(w) \/ VerifyUndo(w) \/ RestoreOld(w) \/ VerifyRestore(w) \/ Abandon(w)
    \/ List(w) \/ NextOperation(w) \/ Recovered(w)
    \/ InspectPrepared(w) \/ InspectSecret(w) \/ VerifyActive(w)

Start(w) == \E c \in Connections, kind \in Kinds, o \in Ids, pinned \in BOOLEAN :
                Begin(w, c, kind, o, pinned)

Next ==
    \/ \E w \in Workers : Start(w) \/ SagaStep(w) \/ BeginRecovery(w) \/ Crash(w)
    \/ \E c \in Connections : Edit(c)

Spec == Init /\ [][Next]_vars

\* A worker in the middle of a saga or a recovery goes on (its calls are
\* bounded by a context), and sooner or later a user starts Orza, connects or
\* opens a tunnel, which is when it recovers.
Fairness == \A w \in Workers : WF_vars(SagaStep(w)) /\ WF_vars(BeginRecovery(w))

FairSpec == Spec /\ Fairness

-----------------------------------------------------------------------------
(* Properties.                                                             *)

Labels == {"down", "ready", "plain_delete", "create", "set", "verify_set", "read",
           "erase", "verify_erase", "mark", "apply", "inspect", "cleanup", "retire",
           "verify_retire", "drop", "undo", "verify_undo", "restore", "verify_restore",
           "abandon", "list", "next", "inspect_prepared", "inspect_secret", "verify_active"}

\* Every variable keeps its type.
TypeOK ==
    /\ conn \in [Connections -> [alive : BOOLEAN, revision : Nat, ref : Ids \cup {NoRef}]]
    /\ request \in [Ids -> Request \cup {NoRequest}]
    /\ phase \in [Ids -> Phases]
    /\ secrets \in SUBSET Ids
    /\ pc \in [Workers -> Labels]
    /\ mode \in [Workers -> {"live", "boot", "recover"}]
    /\ cur \in [Workers -> Ids \cup {NoRef}]
    /\ todo \in [Workers -> SUBSET Ids]
    /\ listed \in [Workers -> [Ids -> Phases]]
    /\ result \in [Workers -> {"none", "ok", "error"}]
    /\ faults \in Nat

References(c, r) == conn[c].alive /\ conn[c].ref = r

\* A connection refers to a secret the store does not hold only while the
\* durable operation that is deleting that very secret is pending: at any
\* crash point somebody can still complete or undo the deletion.
NoDanglingReference ==
    \A c \in Connections, r \in Ids :
        References(c, r) /\ r \notin secrets
            => \E o \in Ids : /\ phase[o] \in Unapplied /\ request[o].conn = c
                              /\ Kind(o) \in {"remove", "delete_connection"} /\ Old(o) = r

\* Every secret in the store is the one of a connection, or the new or old
\* secret of a pending operation: no credential is orphaned (FR-024).
NoOrphanSecret ==
    \A r \in secrets : \/ \E c \in Connections : References(c, r)
                       \/ Pending(r)
                       \/ \E o \in Ids : Pending(o) /\ Old(o) = r

\* The catalog never holds two pending operations for one connection.
OneOperationPerConnection ==
    \A o1, o2 \in Ids : Pending(o1) /\ Pending(o2) /\ request[o1].conn = request[o2].conn
                            => o1 = o2

\* A recovery about to report success has left none of the operations it
\* listed pending, whoever else was recovering them.
RecoveryComplete ==
    \A w \in Workers, o \in Ids :
        pc[w] = "next" /\ listed[w][o] \in RowPhases /\ o \notin todo[w] => ~Pending(o)

\* The step in which worker w reports success, if it is one.
SuccessMade(w) ==
    result[w] # "ok" /\ result'[w] = "ok"
        => LET o == cur[w] IN
           /\ phase'[o] = "completed"
           /\ Kind(o) \in Writes => o \in secrets
           /\ Kind(o) = "delete_connection" => ~Target(o).alive' /\ Old(o) \notin secrets

\* A saga that reports success has made its change: the connection has the
\* new reference with its secret, has none, or is gone.
SuccessIsReal == [][\A w \in Workers : SuccessMade(w)]_vars

\* With no more faults, every pending operation is resolved.
EveryOperationResolved == \A o \in Ids : Pending(o) ~> ~Pending(o)

-----------------------------------------------------------------------------
(* The saga implements RememberedPassword: a connection is changing while  *)
(* it has a pending operation.                                             *)

Gone == "gone"

Remembered == [c \in Connections |-> IF conn[c].alive THEN conn[c].ref ELSE Gone]
Held == [c \in Connections |-> {r \in secrets : request[r].conn = c}]
Changing == {c \in Connections : PendingOn(c)}

Password == INSTANCE RememberedPassword WITH
    Refs <- Ids, remembered <- Remembered, held <- Held, changing <- Changing

\* Catalog and store agree on a connection's password whenever no operation of
\* it is pending, and change it all or nothing across crashes and failed calls.
ImplementsPassword == Password!Spec
=============================================================================
