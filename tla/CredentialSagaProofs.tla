------------------------ MODULE CredentialSagaProofs ------------------------
(***************************************************************************)
(* Proofs about CredentialSaga, from the inductive invariant of            *)
(* CredentialSagaInvariant.                                                *)
(***************************************************************************)
EXTENDS CredentialSagaInvariant, TLAPS

-----------------------------------------------------------------------------
(* Frames.  A step of one worker leaves most of what another relies on.    *)

\* The durable state is what a step that calls nobody leaves alone.
LEMMA DurableFrame ==
  ASSUME Durable, UNCHANGED <<conn, request, phase, secrets>>
  PROVE  Durable'
BY DEF Durable, WellFormed, OldIsEarlier, RefIsApplied, AppliedIsShown, OldIsRetired,
       OldIsCurrent, SecretIsWritten, SnapshotIsEarlier, OneOperationPerConnection,
       NoDanglingReference, SecretIsAccounted, Used, Changed, Pending, References, Kind, Old, Target

\* Nothing that worker v relies on changes.
Undisturbed(v) ==
    LET o == cur[v] IN
    /\ pc'[v] = pc[v] /\ mode'[v] = mode[v] /\ cur'[v] = cur[v]
    /\ Acting(v) =>
          /\ request'[o] = request[o]
          /\ phase'[o] = phase[o]
          /\ Pending(o) => Target(o).ref' = Target(o).ref
          /\ o \in secrets' <=> o \in secrets
          /\ Old(o) \in secrets' <=> Old(o) \in secrets

\* What an undisturbed worker knows stays true.
LEMMA KnownFrame ==
  ASSUME NEW v \in Workers, Knows(pc[v], mode[v], cur[v]), Undisturbed(v)
  PROVE  Knows(pc[v], mode[v], cur[v])'
<1> DEFINE o == cur[v]
<1>0. pc'[v] = pc[v] /\ mode'[v] = mode[v] /\ cur'[v] = cur[v]
  BY DEF Undisturbed
<1>1. CASE ~Acting(v)
  BY <1>0, <1>1 DEF Knows, ModeAt, RowAt, LiveRowAt, SecretAt, ErasingAt, Acting, Resting
<1>2. CASE Acting(v)
  <2>1. /\ request'[o] = request[o] /\ phase'[o] = phase[o]
        /\ Pending(o) => Target(o).ref' = Target(o).ref
        /\ o \in secrets' <=> o \in secrets
        /\ Old(o) \in secrets' <=> Old(o) \in secrets
    BY <1>2 DEF Undisturbed
  <2>2. Kind(o)' = Kind(o) /\ Old(o)' = Old(o) /\ SecretChanged(o)' = SecretChanged(o) /\ Changed(o)' = Changed(o)
    BY <1>0, <2>1 DEF Kind, Old, SecretChanged, Changed
  <2>3. ModeAt(pc[v], mode[v])' /\ (mode'[v] = "live" => LiveRowAt(pc[v], o)')
    BY <1>0, <2>1, <2>2 DEF Knows, ModeAt, LiveRowAt
  <2>4. RowAt(pc[v], o)'
    BY <1>0, <2>1, <2>2 DEF Knows, RowAt
  <2>5. phase[o] \in Unapplied => Target(o)'.ref = Target(o).ref
    BY <2>1 DEF Pending, RowPhases, Target
  <2>6. SecretAt(pc[v], o)'
    BY <1>0, <2>1, <2>2, <2>5 DEF Knows, RowAt, SecretAt, Deletes, Writes, Unapplied
  <2>7. ErasingAt(pc[v], mode[v], o)'
    BY <1>0, <2>1, <2>2, <2>5 DEF Knows, RowAt, ErasingAt, Unapplied
  <2> QED BY <1>0, <2>3, <2>4, <2>6, <2>7 DEF Knows
<1> QED BY <1>1, <1>2

\* Worker w goes on with its operation, or returns from it.
Continues(w) ==
    /\ Acting(w)
    /\ mode' = mode /\ cur' = cur /\ listed' = listed
    /\ \A v \in Workers : v # w => pc'[v] = pc[v] /\ todo'[v] = todo[v]
    /\ todo'[w] = todo[w] \/ (todo'[w] = {} /\ pc'[w] \in {"down", "ready"})
    /\ mode[w] # "live" /\ pc'[w] = "next" => ~Pending(cur[w])'

\* Rows appear for requests only, and never go back.
RowsAdvance ==
    \A o \in Ids : /\ Pending(o)' => Pending(o) \/ phase[o] = "request"
                   /\ Changed(o) => Changed(o)'
                   /\ phase[o] \notin {"unused", "request"} => phase'[o] \notin {"unused", "request"}

\* What recoveries have listed survives a step that continues an operation.
LEMMA VolatileFrame ==
  ASSUME TypeOK, TypeOK', Volatile, NEW w \in Workers, Continues(w), UNCHANGED request, RowsAdvance,
         Known'
  PROVE  Volatile'
<1>1. ListedIsOlder'
  <2> SUFFICES ASSUME NEW v \in Workers, NEW o \in Ids
               PROVE  /\ listed'[v][o] # "unused" =>
                            /\ listed'[v][o] \in RowPhases
                            /\ phase'[o] \notin {"unused", "request"}
                            /\ Kind(o)' # "plain_delete"
                      /\ listed'[v][o] \in Applied => Changed(o)' /\ Kind(o)' # "delete_connection"
                      /\ o \in todo'[v] => listed'[v][o] # "unused"
    BY DEF ListedIsOlder
  <2>1. todo'[v] \subseteq todo[v] /\ listed'[v][o] = listed[v][o] /\ Kind(o)' = Kind(o)
    BY DEF Continues, Kind
  <2> QED BY <2>1 DEF Volatile, ListedIsOlder, RowsAdvance
<1>2. Exclusive'
  <2> SUFFICES ASSUME NEW u \in Workers, NEW v \in Workers, NEW o \in Ids,
                      Running(u, o)', v # u
               PROVE  ~(Acting(v)' /\ cur'[v] = o)
    BY DEF Exclusive
  <2>1. Running(u, o)
    BY DEF Running, Continues, Acting, Resting
  <2>2. (Acting(v)' => Acting(v)) /\ cur'[v] = cur[v]
    BY DEF Continues, Acting
  <2> QED BY <2>1, <2>2 DEF Volatile, Exclusive
<1>3. PassedIsGone'
  <2> SUFFICES ASSUME NEW v \in Workers, NEW o \in Ids,
                      mode'[v] # "live", Acting(v)' \/ pc'[v] = "next",
                      listed'[v][o] \in RowPhases, o \notin todo'[v],
                      ~(Acting(v)' /\ cur'[v] = o)
               PROVE  ~Pending(o)'
    BY DEF PassedIsGone
  <2>1. listed[v][o] # "unused" /\ phase[o] # "request"
    BY DEF Continues, Volatile, ListedIsOlder, RowPhases, Unapplied, Applied
  <2>2. CASE v # w
    BY <2>1, <2>2 DEF Continues, Volatile, PassedIsGone, RowsAdvance, Acting, TypeOK
  <2>3. CASE v = w /\ o = cur[w]
    BY <2>3 DEF Continues, Acting, TypeOK
  <2>4. CASE v = w /\ o # cur[w]
    <3>1. ~Pending(o)
      <4>1. listed[w][o] \in RowPhases /\ o \notin todo[w] /\ mode[w] # "live" /\ Acting(w)
        BY <2>4 DEF Continues, Acting, Resting
      <4> QED BY <4>1, <2>4 DEF Volatile, PassedIsGone
    <3> QED BY <3>1, <2>1 DEF RowsAdvance
  <2> QED BY <2>2, <2>3, <2>4
<1> QED BY <1>1, <1>2, <1>3 DEF Volatile

\* A step that only reads: it is enough that its worker learns what is so.
LEMMA ReadStep ==
  ASSUME IInv, NEW w \in Workers, TypeOK', Continues(w),
         Knows(pc'[w], mode[w], cur[w]),
         UNCHANGED <<conn, request, phase, secrets>>
  PROVE  IInv'
<1>1. Durable'
  BY DurableFrame DEF IInv
<1>2. Known'
  <2> SUFFICES ASSUME NEW v \in Workers, v # w PROVE Knows(pc[v], mode[v], cur[v])'
    <3>1. mode'[w] = mode[w] /\ cur'[w] = cur[w]
      BY DEF Continues
    <3>2. Knows(pc[w], mode[w], cur[w])'
      BY <3>1 DEF Knows, ModeAt, RowAt, LiveRowAt, SecretAt, ErasingAt, Kind, Old, Target,
             SecretChanged, Changed
    <3> QED BY <3>2 DEF Known
  <2>1. Undisturbed(v)
    BY DEF Undisturbed, Continues, IInv, TypeOK, Target, Old
  <2> QED BY <2>1, KnownFrame DEF IInv, Volatile, Known
<1>3. RowsAdvance
  BY DEF RowsAdvance, Pending, Changed
<1> QED BY <1>1, <1>2, <1>3, VolatileFrame DEF IInv

-----------------------------------------------------------------------------
(* Steps of a worker: where they may lead.                                 *)

\* Goto, Succeed and Fail keep the types, and continue the operation.
LEMMA Moves ==
  ASSUME TypeOK, NEW w \in Workers, Acting(w),
         \/ \E label \in Labels : Goto(w, label)
         \/ Succeed(w)
         \/ Fail(w)
  PROVE  /\ pc' \in [Workers -> Labels] /\ mode' \in [Workers -> {"live", "boot", "recover"}]
         /\ cur' \in [Workers -> Ids \cup {NoRef}] /\ todo' \in [Workers -> SUBSET Ids]
         /\ listed' \in [Workers -> [Ids -> Phases]]
         /\ result' \in [Workers -> {"none", "ok", "error"}]
         /\ (mode[w] # "live" /\ pc'[w] = "next" => ~Pending(cur[w])') => Continues(w)
<1>1. CASE \E label \in Labels : Goto(w, label)
  BY <1>1 DEF TypeOK, Goto, Continues
<1>2. CASE Succeed(w)
  BY <1>2 DEF TypeOK, Succeed, Continues, Labels
<1>3. CASE Fail(w)
  BY <1>3 DEF TypeOK, Fail, Continues, Labels
<1> QED BY <1>1, <1>2, <1>3

\* Where a worker that returns is, and that it then relies on nothing.
LEMMA Returned ==
  ASSUME TypeOK, NEW w \in Workers, Knows(pc[w], mode[w], cur[w]), Succeed(w) \/ Fail(w)
  PROVE  /\ pc'[w] \in {"down", "ready", "next"}
         /\ mode' = mode /\ cur' = cur
         /\ Fail(w) => pc'[w] # "next"
         /\ \A o : RowAt(pc'[w], o) /\ LiveRowAt(pc'[w], o) /\ SecretAt(pc'[w], o)
                   /\ ErasingAt(pc'[w], mode[w], o) /\ ModeAt(pc'[w], mode[w]) /\ Knows(pc'[w], mode[w], o)
<1>1. pc'[w] = "down" \/ pc'[w] = "ready" \/ pc'[w] = "next"
  BY DEF TypeOK, Succeed, Fail
<1>2. mode' = mode /\ cur' = cur /\ (pc'[w] = "down" => mode[w] = "boot") /\ (pc'[w] = "next" => mode[w] # "live")
  BY DEF TypeOK, Succeed, Fail
<1>3. Fail(w) => pc'[w] # "next"
  BY DEF TypeOK, Fail
<1>4. ModeAt(pc'[w], mode[w])
  BY <1>1, <1>2 DEF ModeAt, LiveLabels, RecoverLabels
<1>5. ASSUME NEW o PROVE /\ RowAt(pc'[w], o) /\ LiveRowAt(pc'[w], o) /\ SecretAt(pc'[w], o)
                         /\ ErasingAt(pc'[w], mode[w], o)
  BY <1>1 DEF RowAt, LiveRowAt, SecretAt, ErasingAt, Resting
<1> QED BY <1>1, <1>2, <1>3, <1>4, <1>5 DEF Knows, Resting

-----------------------------------------------------------------------------
(* Steps that only read.                                                   *)

\* Reading the new secret back changes only where the saga goes on.
LEMMA VerifySetStep ==
  ASSUME IInv, NEW w \in Workers, VerifySet(w)
  PROVE  IInv'
<1>1. /\ TypeOK /\ Durable /\ pc[w] = "verify_set" /\ Acting(w)
      /\ Knows("verify_set", mode[w], cur[w])
  BY DEF IInv, Volatile, Known, VerifySet, Acting, Resting
<1>2. UNCHANGED <<conn, request, phase, secrets>> /\ faults' \in Nat
  BY <1>1 DEF VerifySet, catalogVars, Fault, TypeOK
<1>3. Goto(w, "mark") \/ Goto(w, "undo")
  BY DEF VerifySet
<1>4. TypeOK' /\ Continues(w)
  <2>1. Fail(w) => pc'[w] # "next"
    BY <1>1, Returned
  <2>2. ~Fail(w) => pc'[w] \in {"mark", "undo"}
    BY <1>1, <1>3 DEF Goto, TypeOK
  <2> QED BY <1>1, <1>2, <1>3, <2>1, <2>2, Moves DEF TypeOK, Labels
<1>5. Knows(pc'[w], mode[w], cur[w])
  <2>1. CASE Goto(w, "mark") /\ ~Fail(w)
    <3>1. pc'[w] = "mark"
      BY <1>1, <2>1 DEF Goto, TypeOK
    <3> QED BY <1>1, <2>1, <3>1 DEF VerifySet, Knows, ModeAt, RowAt, LiveRowAt, SecretAt, ErasingAt, Resting,
              LiveLabels, RecoverLabels, SecretChanged, Writes, Deletes, Unapplied, Goto, Fail
  <2>2. CASE Goto(w, "undo") /\ ~Fail(w)
    <3>1. pc'[w] = "undo"
      BY <1>1, <2>2 DEF Goto, TypeOK
    <3> QED BY <1>1, <2>2, <3>1 DEF VerifySet, Knows, ModeAt, RowAt, LiveRowAt, SecretAt, ErasingAt, Resting,
              LiveLabels, RecoverLabels, SecretChanged, Writes, Deletes, Unapplied, Goto, Fail
  <2>3. CASE Fail(w)
    BY <1>1, <2>3, Returned
  <2> QED BY <1>3, <2>1, <2>2, <2>3
<1> QED BY <1>2, <1>4, <1>5, ReadStep

\* Reading the old secret tells whether there is one to delete.
LEMMA ReadOldStep ==
  ASSUME IInv, NEW w \in Workers, ReadOld(w)
  PROVE  IInv'
<1>1. /\ TypeOK /\ Durable /\ pc[w] = "read" /\ Acting(w)
      /\ Knows("read", mode[w], cur[w])
  BY DEF IInv, Volatile, Known, ReadOld, Acting, Resting
<1>2. UNCHANGED <<conn, request, phase, secrets>> /\ faults' \in Nat
  BY <1>1 DEF ReadOld, catalogVars, Fault, TypeOK
<1>3. Goto(w, "erase") \/ Goto(w, "abandon")
  BY DEF ReadOld
<1>4. TypeOK' /\ Continues(w)
  <2>1. Fail(w) => pc'[w] # "next"
    BY <1>1, Returned
  <2>2. ~Fail(w) => pc'[w] \in {"erase", "abandon"}
    BY <1>1, <1>3 DEF Goto, TypeOK
  <2> QED BY <1>1, <1>2, <1>3, <2>1, <2>2, Moves DEF TypeOK, Labels
<1>5. Knows(pc'[w], mode[w], cur[w])
  <2>1. CASE Goto(w, "erase") /\ ~Fail(w)
    <3>1. pc'[w] = "erase"
      BY <1>1, <2>1 DEF Goto, TypeOK
    <3>2. phase[cur[w]] = "prepared" /\ cur[w] \in Ids
      BY <1>1 DEF Knows, RowAt, Resting
    <3>3. Old(cur[w]) \in secrets /\ Old(cur[w]) # NoRef
      BY <1>1, <2>1, <3>1, NoRefAssumption DEF ReadOld, Goto, TypeOK
    <3>4. Target(cur[w]).ref = Old(cur[w])
      BY <1>1, <3>2, <3>3 DEF Durable, OldIsCurrent, Unapplied
    <3> QED BY <1>1, <2>1, <3>1, <3>4 DEF ReadOld, Knows, ModeAt, RowAt, LiveRowAt, SecretAt, ErasingAt, Resting,
              LiveLabels, RecoverLabels, SecretChanged, Writes, Deletes, Unapplied, Goto, Fail
  <2>2. CASE Goto(w, "abandon") /\ ~Fail(w)
    <3>1. pc'[w] = "abandon"
      BY <1>1, <2>2 DEF Goto, TypeOK
    <3> QED BY <1>1, <2>2, <3>1 DEF ReadOld, Knows, ModeAt, RowAt, LiveRowAt, SecretAt, ErasingAt, Resting,
              LiveLabels, RecoverLabels, SecretChanged, Writes, Deletes, Unapplied, Goto, Fail
  <2>3. CASE Fail(w)
    BY <1>1, <2>3, Returned
  <2> QED BY <1>3, <2>1, <2>2, <2>3
<1> QED BY <1>2, <1>4, <1>5, ReadStep

\* Checking a deletion: gone, still there, or unknown.
LEMMA VerifyEraseStep ==
  ASSUME IInv, NEW w \in Workers, VerifyErase(w)
  PROVE  IInv'
<1>1. /\ TypeOK /\ Durable /\ pc[w] = "verify_erase" /\ Acting(w)
      /\ Knows("verify_erase", mode[w], cur[w])
  BY DEF IInv, Volatile, Known, VerifyErase, Acting, Resting
<1>2. UNCHANGED <<conn, request, phase, secrets>> /\ faults' \in Nat
  BY <1>1 DEF VerifyErase, catalogVars, Fault, TypeOK
<1>3. Goto(w, "mark") \/ Goto(w, "abandon") \/ Fail(w)
  BY DEF VerifyErase
<1>4. TypeOK' /\ Continues(w)
  <2>1. Fail(w) => pc'[w] # "next"
    BY <1>1, Returned
  <2>2. ~Fail(w) => pc'[w] \in {"mark", "abandon"}
    BY <1>1, <1>3 DEF Goto, TypeOK
  <2> QED BY <1>1, <1>2, <1>3, <2>1, <2>2, Moves DEF TypeOK, Labels
<1>5. Knows(pc'[w], mode[w], cur[w])
  <2>1. CASE Goto(w, "mark") /\ ~Fail(w)
    <3>1. pc'[w] = "mark"
      BY <1>1, <2>1 DEF Goto, TypeOK
    <3> QED BY <1>1, <2>1, <3>1 DEF VerifyErase, Knows, ModeAt, RowAt, LiveRowAt, SecretAt, ErasingAt, Resting,
              LiveLabels, RecoverLabels, SecretChanged, Writes, Deletes, Unapplied, Goto, Fail
  <2>2. CASE Goto(w, "abandon") /\ ~Fail(w)
    <3>1. pc'[w] = "abandon"
      BY <1>1, <2>2 DEF Goto, TypeOK
    <3> QED BY <1>1, <2>2, <3>1 DEF VerifyErase, Knows, ModeAt, RowAt, LiveRowAt, SecretAt, ErasingAt, Resting,
              LiveLabels, RecoverLabels, SecretChanged, Writes, Deletes, Unapplied, Goto, Fail
  <2>3. CASE Fail(w)
    BY <1>1, <2>3, Returned
  <2> QED BY <1>3, <2>1, <2>2, <2>3
<1> QED BY <1>2, <1>4, <1>5, ReadStep

\* Checking that the replaced or removed secret is gone, before the row goes.
LEMMA VerifyRetireStep ==
  ASSUME IInv, NEW w \in Workers, VerifyRetire(w)
  PROVE  IInv'
<1>1. /\ TypeOK /\ Durable /\ pc[w] = "verify_retire" /\ Acting(w)
      /\ Knows("verify_retire", mode[w], cur[w])
  BY DEF IInv, Volatile, Known, VerifyRetire, Acting, Resting
<1>2. UNCHANGED <<conn, request, phase, secrets>> /\ faults' \in Nat
  BY <1>1 DEF VerifyRetire, catalogVars, Fault, TypeOK
<1>3. Goto(w, "drop") \/ Fail(w)
  BY DEF VerifyRetire
<1>4. TypeOK' /\ Continues(w)
  <2>1. Fail(w) => pc'[w] # "next"
    BY <1>1, Returned
  <2>2. ~Fail(w) => pc'[w] \in {"drop"}
    BY <1>1, <1>3 DEF Goto, TypeOK
  <2> QED BY <1>1, <1>2, <1>3, <2>1, <2>2, Moves DEF TypeOK, Labels
<1>5. Knows(pc'[w], mode[w], cur[w])
  <2>1. CASE Goto(w, "drop") /\ ~Fail(w)
    <3>1. pc'[w] = "drop"
      BY <1>1, <2>1 DEF Goto, TypeOK
    <3> QED BY <1>1, <2>1, <3>1 DEF VerifyRetire, Knows, ModeAt, RowAt, LiveRowAt, SecretAt, ErasingAt, Resting,
              LiveLabels, RecoverLabels, SecretChanged, Writes, Deletes, Unapplied, Goto, Fail, Changed, Applied
  <2>2. CASE Fail(w)
    BY <1>1, <2>2, Returned
  <2> QED BY <1>3, <2>1, <2>2
<1> QED BY <1>2, <1>4, <1>5, ReadStep

\* Checking that the new secret is gone, before the row goes.
LEMMA VerifyUndoStep ==
  ASSUME IInv, NEW w \in Workers, VerifyUndo(w)
  PROVE  IInv'
<1>1. /\ TypeOK /\ Durable /\ pc[w] = "verify_undo" /\ Acting(w)
      /\ Knows("verify_undo", mode[w], cur[w])
  BY DEF IInv, Volatile, Known, VerifyUndo, Acting, Resting
<1>2. UNCHANGED <<conn, request, phase, secrets>> /\ faults' \in Nat
  BY <1>1 DEF VerifyUndo, catalogVars, Fault, TypeOK
<1>3. Goto(w, "abandon") \/ Fail(w)
  BY DEF VerifyUndo
<1>4. TypeOK' /\ Continues(w)
  <2>1. Fail(w) => pc'[w] # "next"
    BY <1>1, Returned
  <2>2. ~Fail(w) => pc'[w] \in {"abandon"}
    BY <1>1, <1>3 DEF Goto, TypeOK
  <2> QED BY <1>1, <1>2, <1>3, <2>1, <2>2, Moves DEF TypeOK, Labels
<1>5. Knows(pc'[w], mode[w], cur[w])
  <2>1. CASE Goto(w, "abandon") /\ ~Fail(w)
    <3>1. pc'[w] = "abandon"
      BY <1>1, <2>1 DEF Goto, TypeOK
    <3> QED BY <1>1, <2>1, <3>1 DEF VerifyUndo, Knows, ModeAt, RowAt, LiveRowAt, SecretAt, ErasingAt, Resting,
              LiveLabels, RecoverLabels, SecretChanged, Writes, Deletes, Unapplied, Goto, Fail
  <2>2. CASE Fail(w)
    BY <1>1, <2>2, Returned
  <2> QED BY <1>3, <2>1, <2>2
<1> QED BY <1>2, <1>4, <1>5, ReadStep

\* Checking that the old secret is back, before the row goes.
LEMMA VerifyRestoreStep ==
  ASSUME IInv, NEW w \in Workers, VerifyRestore(w)
  PROVE  IInv'
<1>1. /\ TypeOK /\ Durable /\ pc[w] = "verify_restore" /\ Acting(w)
      /\ Knows("verify_restore", mode[w], cur[w])
  BY DEF IInv, Volatile, Known, VerifyRestore, Acting, Resting
<1>2. UNCHANGED <<conn, request, phase, secrets>> /\ faults' \in Nat
  BY <1>1 DEF VerifyRestore, catalogVars, Fault, TypeOK
<1>3. Goto(w, "abandon") \/ Fail(w)
  BY DEF VerifyRestore
<1>4. TypeOK' /\ Continues(w)
  <2>1. Fail(w) => pc'[w] # "next"
    BY <1>1, Returned
  <2>2. ~Fail(w) => pc'[w] \in {"abandon"}
    BY <1>1, <1>3 DEF Goto, TypeOK
  <2> QED BY <1>1, <1>2, <1>3, <2>1, <2>2, Moves DEF TypeOK, Labels
<1>5. Knows(pc'[w], mode[w], cur[w])
  <2>1. CASE Goto(w, "abandon") /\ ~Fail(w)
    <3>1. pc'[w] = "abandon"
      BY <1>1, <2>1 DEF Goto, TypeOK
    <3> QED BY <1>1, <2>1, <3>1 DEF VerifyRestore, Knows, ModeAt, RowAt, LiveRowAt, SecretAt, ErasingAt, Resting,
              LiveLabels, RecoverLabels, SecretChanged, Writes, Deletes, Unapplied, Goto, Fail
  <2>2. CASE Fail(w)
    BY <1>1, <2>2, Returned
  <2> QED BY <1>3, <2>1, <2>2
<1> QED BY <1>2, <1>4, <1>5, ReadStep

\* recoverPrepared reads the secret and marks the row or drops it.
LEMMA InspectPreparedStep ==
  ASSUME IInv, NEW w \in Workers, InspectPrepared(w)
  PROVE  IInv'
<1>1. /\ TypeOK /\ Durable /\ pc[w] = "inspect_prepared" /\ Acting(w)
      /\ Knows("inspect_prepared", mode[w], cur[w])
  BY DEF IInv, Volatile, Known, InspectPrepared, Acting, Resting
<1>2. UNCHANGED <<conn, request, phase, secrets>> /\ faults' \in Nat
  BY <1>1 DEF InspectPrepared, catalogVars, Fault, TypeOK
<1>3. Goto(w, "mark") \/ Goto(w, "drop") \/ Fail(w)
  BY DEF InspectPrepared
<1>4. TypeOK' /\ Continues(w)
  <2>1. Fail(w) => pc'[w] # "next"
    BY <1>1, Returned
  <2>2. ~Fail(w) => pc'[w] \in {"mark", "drop"}
    BY <1>1, <1>3 DEF Goto, TypeOK
  <2> QED BY <1>1, <1>2, <1>3, <2>1, <2>2, Moves DEF TypeOK, Labels
<1>5. Knows(pc'[w], mode[w], cur[w])
  <2>1. CASE Goto(w, "mark") /\ ~Fail(w)
    <3>1. pc'[w] = "mark"
      BY <1>1, <2>1 DEF Goto, TypeOK
    <3> QED BY <1>1, <2>1, <3>1 DEF InspectPrepared, Knows, ModeAt, RowAt, LiveRowAt, SecretAt, ErasingAt, Resting,
              LiveLabels, RecoverLabels, SecretChanged, Writes, Deletes, Unapplied, Goto, Fail
  <2>2. CASE Goto(w, "drop") /\ ~Fail(w)
    <3>1. pc'[w] = "drop"
      BY <1>1, <2>2 DEF Goto, TypeOK
    <3>2. cur[w] \in Ids /\ (phase[cur[w]] \in Applied /\ Kind(cur[w]) \in Writes => cur[w] \in secrets)
      BY <1>1 DEF Knows, Durable, AppliedIsShown, Resting
    <3> QED BY <1>1, <2>2, <3>1, <3>2 DEF InspectPrepared, Knows, ModeAt, RowAt, LiveRowAt, SecretAt, ErasingAt, Resting,
              LiveLabels, RecoverLabels, SecretChanged, Writes, Deletes, Unapplied, Goto, Fail
  <2>3. CASE Fail(w)
    BY <1>1, <2>3, Returned
  <2> QED BY <1>3, <2>1, <2>2, <2>3
<1> QED BY <1>2, <1>4, <1>5, ReadStep

\* recoverySecretState reads the secret and applies the row or drops it.
LEMMA InspectSecretStep ==
  ASSUME IInv, NEW w \in Workers, InspectSecret(w)
  PROVE  IInv'
<1>1. /\ TypeOK /\ Durable /\ pc[w] = "inspect_secret" /\ Acting(w)
      /\ Knows("inspect_secret", mode[w], cur[w])
  BY DEF IInv, Volatile, Known, InspectSecret, Acting, Resting
<1>2. UNCHANGED <<conn, request, phase, secrets>> /\ faults' \in Nat
  BY <1>1 DEF InspectSecret, catalogVars, Fault, TypeOK
<1>3. Goto(w, "apply") \/ Goto(w, "drop") \/ Fail(w)
  BY DEF InspectSecret
<1>4. TypeOK' /\ Continues(w)
  <2>1. Fail(w) => pc'[w] # "next"
    BY <1>1, Returned
  <2>2. ~Fail(w) => pc'[w] \in {"apply", "drop"}
    BY <1>1, <1>3 DEF Goto, TypeOK
  <2> QED BY <1>1, <1>2, <1>3, <2>1, <2>2, Moves DEF TypeOK, Labels
<1>5. Knows(pc'[w], mode[w], cur[w])
  <2>1. CASE Goto(w, "apply") /\ ~Fail(w)
    <3>1. pc'[w] = "apply"
      BY <1>1, <2>1 DEF Goto, TypeOK
    <3> QED BY <1>1, <2>1, <3>1 DEF InspectSecret, Knows, ModeAt, RowAt, LiveRowAt, SecretAt, ErasingAt, Resting,
              LiveLabels, RecoverLabels, SecretChanged, Writes, Deletes, Unapplied, Goto, Fail
  <2>2. CASE Goto(w, "drop") /\ ~Fail(w)
    <3>1. pc'[w] = "drop"
      BY <1>1, <2>2 DEF Goto, TypeOK
    <3>2. cur[w] \in Ids /\ (phase[cur[w]] \in Applied /\ Kind(cur[w]) \in Writes => cur[w] \in secrets)
      BY <1>1 DEF Knows, Durable, AppliedIsShown, Resting
    <3> QED BY <1>1, <2>2, <3>1, <3>2 DEF InspectSecret, Knows, ModeAt, RowAt, LiveRowAt, SecretAt, ErasingAt, Resting,
              LiveLabels, RecoverLabels, SecretChanged, Writes, Deletes, Unapplied, Goto, Fail
  <2>3. CASE Fail(w)
    BY <1>1, <2>3, Returned
  <2> QED BY <1>3, <2>1, <2>2, <2>3
<1> QED BY <1>2, <1>4, <1>5, ReadStep
\* What a worker knows once it gives up an unapplied operation.
LEMMA Reverts ==
  ASSUME TypeOK, Durable, NEW w \in Workers, pc[w] \in {"mark", "inspect"},
         Knows(pc[w], mode[w], cur[w]), phase[cur[w]] \in Unapplied, Revert(w)
  PROVE  /\ Knows(pc'[w], mode[w], cur[w]) /\ Continues(w)
         /\ pc'[w] \in {"down", "ready", "undo", "restore"} /\ mode'[w] = mode[w] /\ cur'[w] = cur[w]
         /\ (\E label \in Labels : Goto(w, label)) \/ Fail(w)
<1> DEFINE o == cur[w]
<1>1. o \in Ids /\ Acting(w) /\ Kind(o) \in Writes \cup Deletes
  BY DEF Knows, RowAt, Acting, Resting, Durable, WellFormed, Used, Kind, Request, Kinds, SagaKinds, Writes, Deletes
<1>2. CASE mode[w] # "live"
  BY <1>1, <1>2, Returned, Moves DEF Revert
<1>3. CASE mode[w] = "live"
  <2>1. Goto(w, pc'[w]) /\ pc'[w] = (IF Kind(o) \in Writes THEN "undo" ELSE "restore")
    BY <1>3 DEF Revert, Goto, TypeOK
  <2>2. pc'[w] \in Labels /\ pc'[w] \in {"undo", "restore"}
    BY <2>1 DEF Labels
  <2>3. Continues(w) /\ mode'[w] = mode[w] /\ cur'[w] = cur[w]
    BY <1>1, <1>3, <2>1, <2>2, Moves DEF Goto
  <2>4. Knows(pc'[w], mode[w], o)
    BY <1>1, <1>3, <2>1 DEF Knows, ModeAt, RowAt, LiveRowAt, SecretAt, ErasingAt, Resting,
       LiveLabels, RecoverLabels, Writes, Deletes, Unapplied
  <2> QED BY <2>1, <2>2, <2>3, <2>4
<1> QED BY <1>2, <1>3

\* What a worker knows once its operation is applied.
LEMMA Finishes ==
  ASSUME TypeOK, NEW w \in Workers, Acting(w), Finish(w)
  PROVE  /\ Continues(w) /\ mode'[w] = mode[w] /\ cur'[w] = cur[w]
         /\ pc'[w] = IF Kind(cur[w]) = "replace" THEN "cleanup" ELSE "drop"
         /\ \E label \in Labels : Goto(w, label)
<1>1. Goto(w, pc'[w]) /\ pc'[w] = (IF Kind(cur[w]) = "replace" THEN "cleanup" ELSE "drop")
  BY DEF Finish, Goto, TypeOK
<1>2. pc'[w] \in Labels /\ pc'[w] # "next"
  BY <1>1 DEF Labels
<1> QED BY <1>1, <1>2, Moves DEF Goto

\* Reading the row back after a failed application.
LEMMA InspectStep ==
  ASSUME IInv, NEW w \in Workers, Inspect(w)
  PROVE  IInv'
<1>1. /\ TypeOK /\ Durable /\ pc[w] = "inspect" /\ Acting(w)
      /\ Knows("inspect", mode[w], cur[w])
  BY DEF IInv, Volatile, Known, Inspect, Acting, Resting
<1>2. UNCHANGED <<conn, request, phase, secrets>> /\ faults' \in Nat
  BY <1>1 DEF Inspect, catalogVars, Fault, TypeOK
<1>3. CASE phase[cur[w]] \in Applied /\ Finish(w)
  <2>1. Continues(w) /\ TypeOK'
    BY <1>1, <1>2, <1>3, Finishes, Moves DEF TypeOK
  <2>2. Knows(pc'[w], mode[w], cur[w])
    BY <1>1, <1>3, Finishes DEF Knows, ModeAt, RowAt, LiveRowAt, SecretAt, ErasingAt, Resting,
       LiveLabels, RecoverLabels, Changed, Applied, Unapplied
  <2> QED BY <1>2, <2>1, <2>2, ReadStep
<1>4. CASE phase[cur[w]] \in Unapplied /\ Revert(w)
  <2>1. Continues(w) /\ Knows(pc'[w], mode[w], cur[w])
    BY <1>1, <1>4, Reverts
  <2>2. TypeOK'
    BY <1>1, <1>2, <1>4, Reverts, Moves DEF TypeOK
  <2> QED BY <1>2, <2>1, <2>2, ReadStep
<1>5. CASE (~Pending(cur[w]) /\ Succeed(w)) \/ Fail(w)
  <2>1. Knows(pc'[w], mode[w], cur[w]) /\ (Fail(w) => pc'[w] # "next")
    BY <1>1, <1>5, Returned
  <2>2. Pending(cur[w])' = Pending(cur[w])
    BY <1>2, <1>5 DEF Pending, Succeed, Fail
  <2>3. Continues(w) /\ TypeOK'
    BY <1>1, <1>2, <1>5, <2>1, <2>2, Moves DEF TypeOK
  <2> QED BY <1>2, <2>1, <2>3, ReadStep
<1> QED BY <1>3, <1>4, <1>5 DEF Inspect

\* Recovering an applied write starts by reading its secret.
LEMMA VerifyActiveStep ==
  ASSUME IInv, NEW w \in Workers, VerifyActive(w)
  PROVE  IInv'
<1>1. /\ TypeOK /\ Durable /\ pc[w] = "verify_active" /\ Acting(w)
      /\ Knows("verify_active", mode[w], cur[w])
  BY DEF IInv, Volatile, Known, VerifyActive, Acting, Resting
<1>2. UNCHANGED <<conn, request, phase, secrets>> /\ faults' \in Nat
  BY <1>1 DEF VerifyActive, catalogVars, Fault, TypeOK
<1>3. CASE Finish(w)
  <2>1. Continues(w) /\ TypeOK'
    BY <1>1, <1>2, <1>3, Finishes, Moves DEF TypeOK
  <2>2. Knows(pc'[w], mode[w], cur[w])
    BY <1>1, <1>3, Finishes DEF Knows, ModeAt, RowAt, LiveRowAt, SecretAt, ErasingAt, Resting,
       LiveLabels, RecoverLabels, Changed, Applied, Unapplied
  <2> QED BY <1>2, <2>1, <2>2, ReadStep
<1>4. CASE Fail(w)
  <2>1. Knows(pc'[w], mode[w], cur[w]) /\ pc'[w] # "next"
    BY <1>1, <1>4, Returned
  <2>2. Continues(w) /\ TypeOK'
    BY <1>1, <1>2, <1>4, <2>1, Moves DEF TypeOK
  <2> QED BY <1>2, <2>1, <2>2, ReadStep
<1> QED BY <1>3, <1>4 DEF VerifyActive

-----------------------------------------------------------------------------
(* Recovery's own steps, and the return of a process.                      *)

\* A step of a resting worker, the durable state left alone.
LEMMA RestingStep ==
  ASSUME IInv, TypeOK', NEW w \in Workers, UNCHANGED <<conn, request, phase, secrets>>,
         \A v \in Workers : v # w => /\ pc'[v] = pc[v] /\ mode'[v] = mode[v] /\ cur'[v] = cur[v]
                                     /\ todo'[v] = todo[v] /\ listed'[v] = listed[v],
         Knows(pc'[w], mode'[w], cur'[w])
  PROVE  Durable' /\ Known'
<1>1. Durable'
  BY DurableFrame DEF IInv
<1>2. Knows(pc[w], mode[w], cur[w])'
  BY DEF Knows, ModeAt, RowAt, LiveRowAt, SecretAt, ErasingAt, Kind, Old, Target, SecretChanged, Changed
<1>3. ASSUME NEW v \in Workers, v # w PROVE Knows(pc[v], mode[v], cur[v])'
  <2>1. Undisturbed(v)
    BY <1>3 DEF Undisturbed, Target, Old
  <2> QED BY <1>3, <2>1, KnownFrame DEF IInv, Volatile, Known
<1> QED BY <1>1, <1>2, <1>3 DEF Known

\* A recovery starts at rest, knowing nothing.
LEMMA BeginRecoveryStep ==
  ASSUME IInv, NEW w \in Workers, BeginRecovery(w)
  PROVE  IInv'
<1>1. TypeOK'
  BY DEF IInv, TypeOK, BeginRecovery, catalogVars, Labels
<1>2. /\ pc' = [pc EXCEPT ![w] = "list"] /\ pc[w] \in {"down", "ready"} /\ mode'[w] # "live"
      /\ UNCHANGED <<conn, request, phase, secrets, cur, todo, listed>>
      /\ mode' \in [Workers -> {"live", "boot", "recover"}]
      /\ \A v \in Workers : v # w => mode'[v] = mode[v]
  BY DEF IInv, TypeOK, BeginRecovery, catalogVars
<1>3. Knows(pc'[w], mode'[w], cur'[w])
  BY <1>2 DEF IInv, TypeOK, Knows, ModeAt, RowAt, LiveRowAt, SecretAt, ErasingAt, Resting, LiveLabels
<1>4. Durable' /\ Known'
  BY <1>1, <1>2, <1>3, RestingStep DEF IInv, TypeOK
<1>5. ListedIsOlder' /\ Exclusive' /\ PassedIsGone'
  BY <1>2 DEF IInv, TypeOK, Volatile, ListedIsOlder, Exclusive, PassedIsGone, Running, Acting, Resting,
     Pending, Changed, Kind
<1> QED BY <1>1, <1>4, <1>5 DEF IInv, Volatile

\* What a recovery lists was pending when it listed it.
LEMMA ListStep ==
  ASSUME IInv, NEW w \in Workers, List(w)
  PROVE  IInv'
<1> DEFINE listing == [o \in Ids |-> IF Listable(o) THEN phase[o] ELSE "unused"]
           rows == {o \in Ids : Listable(o)}
<1>1. /\ TypeOK /\ pc[w] = "list" /\ mode[w] # "live"
      /\ UNCHANGED <<conn, request, phase, secrets, mode, cur>>
  BY DEF IInv, Volatile, Known, Knows, ModeAt, RecoverLabels, List, catalogVars, Fail
<1>2. TypeOK'
  <2>1. listing \in [Ids -> Phases] /\ rows \in SUBSET Ids
    BY <1>1 DEF TypeOK, Phases
  <2>2. faults' \in Nat
    BY <1>1 DEF TypeOK, List, Fault
  <2>3. CASE Fail(w)
    BY <1>1, <2>2, <2>3 DEF TypeOK, Fail, Labels
  <2>4. CASE ~Fail(w)
    <3>1. /\ listed' = [listed EXCEPT ![w] = listing] /\ todo' = [todo EXCEPT ![w] = rows]
          /\ pc' = [pc EXCEPT ![w] = "next"] /\ UNCHANGED result
      BY <2>4 DEF List
    <3> QED BY <1>1, <2>1, <2>2, <3>1 DEF TypeOK, Labels
  <2> QED BY <2>3, <2>4
<1>3. Durable' /\ Known'
  <2>1. pc'[w] \in {"next", "down", "ready"} /\ (pc'[w] = "down" => mode[w] = "boot")
    BY <1>1 DEF TypeOK, List, Fail
  <2>2. Knows(pc'[w], mode'[w], cur'[w])
    BY <1>1, <2>1 DEF Knows, ModeAt, RowAt, LiveRowAt, SecretAt, ErasingAt, Resting, LiveLabels, RecoverLabels
  <2>3. \A v \in Workers : v # w => pc'[v] = pc[v] /\ todo'[v] = todo[v] /\ listed'[v] = listed[v]
    BY <1>1 DEF TypeOK, List, Fail
  <2> QED BY <1>1, <1>2, <2>2, <2>3, RestingStep
<1>4. CASE listed' = [listed EXCEPT ![w] = listing] /\ todo' = [todo EXCEPT ![w] = rows]
           /\ pc' = [pc EXCEPT ![w] = "next"]
  <2>1. listed'[w] = listing /\ todo'[w] = rows /\ pc'[w] = "next"
    BY <1>1, <1>4 DEF TypeOK
  <2>2. \A v \in Workers : v # w => pc'[v] = pc[v] /\ todo'[v] = todo[v] /\ listed'[v] = listed[v]
    BY <1>1, <1>4 DEF TypeOK
  <2>3. \A o \in Ids : Listable(o) => /\ Pending(o) /\ Kind(o) # "plain_delete"
                                      /\ phase[o] \in Applied => Kind(o) # "delete_connection"
    BY DEF Listable, IInv, Durable, WellFormed, AppliedIsShown, Used, Pending, RowPhases, Applied, Unapplied
  <2>4. ListedIsOlder'
    BY <1>1, <2>1, <2>2, <2>3 DEF IInv, Volatile, ListedIsOlder, Pending, RowPhases, Applied, Unapplied, Changed, Kind
  <2>5. Exclusive'
    <3> SUFFICES ASSUME NEW u \in Workers, NEW v \in Workers, NEW o \in Ids, Running(u, o)', v # u
                 PROVE  ~(Acting(v)' /\ cur'[v] = o)
      BY DEF Exclusive
    <3>1. Running(u, o)
      BY <1>1, <2>1, <2>2 DEF Running
    <3>2. Acting(v)' => Acting(v)
      BY <1>1, <2>1, <2>2 DEF Acting, Resting
    <3> QED BY <1>1, <3>1, <3>2 DEF IInv, Volatile, Exclusive
  <2>6. PassedIsGone'
    BY <1>1, <2>1, <2>2 DEF IInv, Volatile, PassedIsGone, Pending, Acting, Resting, RowPhases, Applied, Unapplied
  <2> QED BY <1>2, <1>3, <2>4, <2>5, <2>6 DEF IInv, Volatile
<1>5. CASE Fail(w)
  <2>1. /\ listed' = listed /\ todo'[w] = {} /\ pc'[w] \in {"down", "ready"}
        /\ \A v \in Workers : v # w => pc'[v] = pc[v] /\ todo'[v] = todo[v]
    BY <1>1, <1>5 DEF TypeOK, Fail
  <2>2. ListedIsOlder'
    BY <1>1, <2>1 DEF IInv, Volatile, ListedIsOlder, Changed, Kind
  <2>3. \A v \in Workers : Acting(v)' => Acting(v)
    BY <1>1, <2>1 DEF Acting, Resting
  <2>4. \A u \in Workers, o \in Ids : Running(u, o)' => Running(u, o)
    BY <1>1, <2>1 DEF Running
  <2>5. Exclusive'
    BY <1>1, <2>3, <2>4 DEF IInv, Volatile, Exclusive
  <2>6. PassedIsGone'
    BY <1>1, <2>1 DEF IInv, Volatile, PassedIsGone, Acting, Resting, Pending
  <2> QED BY <1>2, <1>3, <2>2, <2>5, <2>6 DEF IInv, Volatile
<1> QED BY <1>4, <1>5 DEF List

\* A recovery takes an operation from its list with what the list says of it;
\* its saga must have returned.
LEMMA NextOperationStep ==
  ASSUME IInv, NEW w \in Workers, NextOperation(w), ~TakesRunning
  PROVE  IInv'
<1>1. PICK o \in todo[w] : /\ cur' = [cur EXCEPT ![w] = o]
                           /\ todo' = [todo EXCEPT ![w] = @ \ {o}]
                           /\ pc' = [pc EXCEPT ![w] = EntryLabel(o, listed[w][o])]
  BY DEF NextOperation
<1>2. /\ TypeOK /\ o \in Ids /\ pc[w] = "next" /\ mode[w] # "live"
      /\ UNCHANGED <<conn, request, phase, secrets, mode, listed>>
  BY <1>1 DEF IInv, TypeOK, Volatile, Known, Knows, ModeAt, RecoverLabels, NextOperation, catalogVars
<1>3. /\ cur'[w] = o /\ todo'[w] = todo[w] \ {o} /\ pc'[w] = EntryLabel(o, listed[w][o])
      /\ \A v \in Workers : v # w => pc'[v] = pc[v] /\ todo'[v] = todo[v] /\ cur'[v] = cur[v]
  BY <1>1, <1>2 DEF TypeOK
<1>4. /\ phase[o] \notin {"unused", "request"} /\ Kind(o) # "plain_delete" /\ listed[w][o] \in RowPhases
      /\ listed[w][o] \in Applied => Changed(o) /\ Kind(o) # "delete_connection"
  BY <1>2 DEF IInv, Volatile, ListedIsOlder
<1>5. Kind(o) \in SagaKinds
  BY <1>2, <1>4 DEF IInv, Durable, WellFormed, Used, Kind, Request, Kinds
<1>6. /\ pc'[w] \in {"inspect_prepared", "inspect_secret", "verify_active", "retire"}
      /\ pc'[w] = "verify_active" => Kind(o) \in Writes /\ Changed(o)
      /\ pc'[w] = "retire" => Kind(o) = "remove" /\ Changed(o)
  BY <1>3, <1>4, <1>5 DEF EntryLabel, RowPhases, Applied, Unapplied, SagaKinds, Writes
<1>7. TypeOK'
  <2>1. EntryLabel(o, listed[w][o]) \in Labels
    BY <1>3, <1>6 DEF Labels
  <2>2. UNCHANGED <<result, faults>>
    BY DEF NextOperation
  <2> QED BY <1>1, <1>2, <2>1, <2>2 DEF TypeOK
<1>8. Knows(pc'[w], mode'[w], cur'[w])
  BY <1>2, <1>3, <1>4, <1>6 DEF Knows, ModeAt, RowAt, LiveRowAt, SecretAt, ErasingAt, LiveLabels, RecoverLabels
<1>9. Durable' /\ Known'
  BY <1>2, <1>3, <1>7, <1>8, RestingStep
<1>10. ListedIsOlder' /\ Exclusive' /\ PassedIsGone'
  <2>1. Acting(w)'
    BY <1>6 DEF Acting, Resting
  <2>2. \A v \in Workers : v # w => Acting(v)' = Acting(v)
    BY <1>3 DEF Acting
  <2>3. ListedIsOlder'
    BY <1>2, <1>3 DEF IInv, Volatile, ListedIsOlder, Changed, Kind
  <2>4. \A u \in Workers, p \in Ids : Running(u, p)' => Running(u, p) /\ u # w
    BY <1>2, <1>3 DEF Running
  <2>5. Exclusive'
    <3>1. \A v \in Workers : ~Running(v, o)
      BY <1>3 DEF TakesRunning
    <3> QED BY <1>2, <1>3, <2>2, <2>4, <3>1 DEF IInv, Volatile, Exclusive
  <2>6. PassedIsGone'
    BY <1>2, <1>3, <2>1, <2>2 DEF IInv, Volatile, PassedIsGone, Pending, Acting, Resting
  <2> QED BY <2>3, <2>5, <2>6
<1> QED BY <1>7, <1>9, <1>10 DEF IInv, Volatile

\* A recovery that has gone through its list is at rest.
LEMMA RecoveredStep ==
  ASSUME IInv, NEW w \in Workers, Recovered(w)
  PROVE  IInv'
<1>1. TypeOK'
  BY DEF IInv, TypeOK, Recovered, catalogVars, Labels
<1>2. /\ pc' = [pc EXCEPT ![w] = "ready"] /\ pc[w] = "next" /\ mode[w] # "live"
      /\ UNCHANGED <<conn, request, phase, secrets, mode, cur, todo, listed>>
  BY DEF IInv, Volatile, Known, Knows, ModeAt, RecoverLabels, Recovered, catalogVars
<1>3. Knows(pc'[w], mode'[w], cur'[w])
  BY <1>2 DEF IInv, TypeOK, Knows, ModeAt, RowAt, LiveRowAt, SecretAt, ErasingAt, Resting, LiveLabels, RecoverLabels
<1>4. Durable' /\ Known'
  BY <1>1, <1>2, <1>3, RestingStep DEF IInv, TypeOK
<1>5. ListedIsOlder' /\ Exclusive' /\ PassedIsGone'
  BY <1>2 DEF IInv, TypeOK, Volatile, ListedIsOlder, Exclusive, PassedIsGone, Running, Acting, Resting,
     Pending, Changed, Kind
<1> QED BY <1>1, <1>4, <1>5 DEF IInv, Volatile

-----------------------------------------------------------------------------
(* Steps that change the credential store.                                 *)

\* What holds of the operation a worker acts on.
LEMMA ActingFacts ==
  ASSUME IInv, NEW w \in Workers, Acting(w)
  PROVE  /\ cur[w] \in Ids /\ phase[cur[w]] # "unused" /\ Used(cur[w])
         /\ Knows(pc[w], mode[w], cur[w]) /\ Kind(cur[w]) \in Kinds
<1>1. cur[w] \in Ids /\ Knows(pc[w], mode[w], cur[w])
  BY DEF IInv, Volatile, Known, Knows, Acting
<1>2. phase[cur[w]] # "unused"
  BY <1>1 DEF Knows, RowAt, Acting
<1> QED BY <1>1, <1>2 DEF IInv, Durable, WellFormed, Used, Kind, Request

\* Nobody else acts on the operation of a running saga.
LEMMA Alone ==
  ASSUME IInv, NEW w \in Workers, Acting(w), mode[w] = "live", NEW v \in Workers, v # w, Acting(v)
  PROVE  cur[v] # cur[w]
BY ActingFacts DEF IInv, Volatile, Exclusive, Running, Acting, Resting

\* A reference whose write is not applied is nobody's old reference.
LEMMA UnappliedIsNew ==
  ASSUME Durable, NEW o \in Ids, ~Changed(o), NEW p \in Ids, Used(p)
  PROVE  Old(p) # o /\ \A c \in Connections : conn[c].ref # o
BY NoRefAssumption DEF Durable, OldIsEarlier, RefIsApplied

\* A step on the store: the parts of the invariant that speak of it remain.
LEMMA StoreStep ==
  ASSUME IInv, NEW w \in Workers, Acting(w), NEW label \in Labels, label # "next", Goto(w, label),
         UNCHANGED <<conn, request, phase>>, secrets' \subseteq Ids, faults' \in Nat,
         AppliedIsShown', OldIsRetired', OldIsCurrent', SecretIsWritten',
         NoDanglingReference', SecretIsAccounted',
         Knows(label, mode[w], cur[w])',
         \A v \in Workers : v # w /\ Acting(v) => SecretAt(pc[v], cur[v])'
  PROVE  IInv'
<1>1. /\ TypeOK /\ pc' = [pc EXCEPT ![w] = label]
      /\ UNCHANGED <<mode, cur, todo, listed, result>>
  BY DEF IInv, Goto
<1>2. TypeOK'
  BY <1>1 DEF TypeOK
<1>3. pc'[w] = label /\ \A v \in Workers : v # w => pc'[v] = pc[v]
  BY <1>1 DEF TypeOK
<1>4. Durable'
  <2>1. WellFormed' /\ OldIsEarlier' /\ RefIsApplied' /\ SnapshotIsEarlier' /\ OneOperationPerConnection'
    BY DEF IInv, Durable, WellFormed, OldIsEarlier, RefIsApplied, SnapshotIsEarlier,
           OneOperationPerConnection, Used, Changed, Pending, Kind, Old, Target
  <2> QED BY <2>1 DEF Durable
<1>5. Known'
  <2>1. ASSUME NEW v \in Workers, v # w PROVE Knows(pc[v], mode[v], cur[v])'
    <3>1. pc'[v] = pc[v] /\ mode'[v] = mode[v] /\ cur'[v] = cur[v]
      BY <1>1, <1>3, <2>1
    <3>2. CASE Acting(v)
      <4>1. SecretAt(pc[v], cur[v])'
        BY <2>1, <3>2
      <4>2. Knows(pc[v], mode[v], cur[v])
        BY DEF IInv, Volatile, Known
      <4>3. RowAt(pc[v], cur[v])' /\ ErasingAt(pc[v], mode[v], cur[v])' /\ ModeAt(pc[v], mode[v])'
            /\ (mode'[v] = "live" => LiveRowAt(pc[v], cur[v])')
        BY <3>1, <4>2 DEF Knows, ModeAt, RowAt, LiveRowAt, ErasingAt, Changed, Kind, Old, Target
      <4> QED BY <3>1, <3>2, <4>1, <4>2, <4>3 DEF Knows, Acting
    <3>3. CASE ~Acting(v)
      BY <3>1, <3>3, KnownFrame DEF Undisturbed, IInv, Volatile, Known
    <3> QED BY <3>2, <3>3
  <2>2. Knows(pc[w], mode[w], cur[w])'
    BY <1>3 DEF Knows, ModeAt, RowAt, LiveRowAt, SecretAt, ErasingAt
  <2> QED BY <2>1, <2>2 DEF Known
<1>6. Continues(w)
  BY <1>1, <1>3 DEF Continues
<1>7. RowsAdvance
  BY DEF RowsAdvance, Pending, Changed
<1> QED BY <1>1, <1>2, <1>4, <1>5, <1>6, <1>7, VolatileFrame DEF IInv

\* Storing the new secret of a prepared write.
LEMMA SetSecretStep ==
  ASSUME IInv, NEW w \in Workers, SetSecret(w)
  PROVE  IInv'
<1> DEFINE o == cur[w]
<1>1. /\ TypeOK /\ Durable /\ pc[w] = "set" /\ Acting(w) /\ Knows("set", mode[w], o) /\ o \in Ids
  BY ActingFacts DEF IInv, SetSecret, Acting, Resting
<1>2. mode[w] = "live" /\ phase[o] = "prepared" /\ Kind(o) \in Writes
  BY <1>1 DEF Knows, ModeAt, LiveLabels, RowAt
<1>3. /\ UNCHANGED <<conn, request, phase>> /\ faults' \in Nat /\ Goto(w, "verify_set")
      /\ secrets' = secrets \/ secrets' = secrets \cup {o}
  BY <1>1 DEF SetSecret, catalogVars, Call, StoreSet, TypeOK
<1>4. /\ UNCHANGED <<mode, cur>> /\ secrets \subseteq secrets' /\ secrets' \subseteq Ids
      /\ \A r \in Ids \cup {NoRef} : r # o => (r \in secrets' <=> r \in secrets)
  BY <1>1, <1>3 DEF Goto, TypeOK
<1>5. \A p \in Ids : Used(p) => Old(p) # o /\ Old(p) \in Ids \cup {NoRef}
  BY <1>1, <1>2, UnappliedIsNew DEF Changed, Applied, Durable, WellFormed, Request, Old
<1>6. AppliedIsShown'
  BY <1>1, <1>3, <1>4, <1>5 DEF Durable, AppliedIsShown, Used, Kind, Old, Target, Applied
<1>7. OldIsRetired'
  BY <1>1, <1>3, <1>4, <1>5 DEF Durable, OldIsRetired, Used, Changed, Applied, Kind, Old, References, Target
<1>8. OldIsCurrent'
  BY <1>1, <1>3, <1>4, <1>5 DEF Durable, OldIsCurrent, Used, Unapplied, Kind, Old, Target
<1>9. SecretIsWritten'
  BY <1>1, <1>2, <1>3 DEF Durable, SecretIsWritten, Kind, RowPhases, Unapplied
<1>10. NoDanglingReference'
  BY <1>1, <1>3, <1>4 DEF Durable, NoDanglingReference, References, Kind, Old
<1>11. SecretIsAccounted'
  BY <1>1, <1>2, <1>3 DEF Durable, SecretIsAccounted, References, Pending, RowPhases, Unapplied, Kind, Old
<1>12. Knows("verify_set", mode[w], cur[w])'
  BY <1>1, <1>2, <1>3, <1>4 DEF Knows, ModeAt, RowAt, LiveRowAt, SecretAt, ErasingAt, Resting,
     LiveLabels, RecoverLabels, Kind
<1>13. ASSUME NEW v \in Workers, v # w, Acting(v) PROVE SecretAt(pc[v], cur[v])'
  <2>1. cur[v] # o /\ cur[v] \in Ids /\ Used(cur[v]) /\ SecretAt(pc[v], cur[v])
    BY <1>1, <1>2, <1>13, Alone, ActingFacts DEF Knows
  <2>2. /\ cur[v] \in secrets' <=> cur[v] \in secrets
        /\ Old(cur[v]) \in secrets' <=> Old(cur[v]) \in secrets
    BY <1>4, <1>5, <2>1
  <2>3. pc'[v] = pc[v] /\ cur'[v] = cur[v]
    BY <1>1, <1>3, <1>13 DEF Goto, TypeOK
  <2> QED BY <1>3, <2>1, <2>2, <2>3 DEF SecretAt, SecretChanged, Kind, Old, Target
<1> QED BY <1>1, <1>3, <1>4, <1>6, <1>7, <1>8, <1>9, <1>10, <1>11, <1>12, <1>13, StoreStep DEF Labels

\* Deleting the present secret of a prepared removal or deletion.
LEMMA EraseOldStep ==
  ASSUME IInv, NEW w \in Workers, EraseOld(w)
  PROVE  IInv'
<1> DEFINE o == cur[w]
           r == Old(o)
<1>1. /\ TypeOK /\ Durable /\ pc[w] = "erase" /\ Acting(w) /\ Knows("erase", mode[w], o) /\ o \in Ids
  BY ActingFacts DEF IInv, EraseOld, Acting, Resting
<1>2. /\ mode[w] = "live" /\ phase[o] = "prepared" /\ Kind(o) \in Deletes /\ Target(o).ref = r
      /\ Target(o).alive
  BY <1>1 DEF Knows, ModeAt, LiveLabels, RowAt, ErasingAt, Durable, WellFormed, Used, Pending,
     RowPhases, Unapplied
<1>3. /\ UNCHANGED <<conn, request, phase>> /\ faults' \in Nat /\ Goto(w, "verify_erase")
      /\ secrets' = secrets \/ secrets' = secrets \ {r}
  BY <1>1 DEF EraseOld, catalogVars, Call, StoreDelete, TypeOK
<1>4. /\ UNCHANGED <<mode, cur>> /\ secrets' \subseteq secrets /\ secrets' \subseteq Ids
      /\ \A q : q # r => (q \in secrets' <=> q \in secrets)
  BY <1>1, <1>3 DEF Goto, TypeOK
<1>5. /\ r \in Ids /\ phase[r] = "completed" /\ Kind(r) \in Writes
      /\ request[r].conn = request[o].conn /\ r # o /\ request[o].conn \in Connections
  BY <1>1, <1>2 DEF Durable, WellFormed, OldIsEarlier, Used, Pending, RowPhases, Unapplied, Deletes,
     Kind, Old, Request
<1>6. \A p \in Ids : Pending(p) /\ Old(p) = r => p = o
  BY <1>1, <1>2, <1>5, NoRefAssumption DEF Durable, OldIsEarlier, Used, Pending, OneOperationPerConnection,
     RowPhases, Unapplied, Applied
<1>7. AppliedIsShown'
  BY <1>1, <1>3, <1>4, <1>5 DEF Durable, AppliedIsShown, Kind, Old, Target, Applied
<1>8. OldIsRetired' /\ OldIsCurrent' /\ SecretIsWritten' /\ SecretIsAccounted'
  BY <1>1, <1>3, <1>4 DEF Durable, OldIsRetired, OldIsCurrent, SecretIsWritten, SecretIsAccounted,
     Changed, References, Pending, Kind, Old, Target
<1>9. NoDanglingReference'
  <2> SUFFICES ASSUME NEW c \in Connections, NEW q \in Ids, References(c, q)', q \notin secrets'
               PROVE  \E p \in Ids : (/\ phase[p] \in Unapplied /\ request[p].conn = c
                                      /\ Kind(p) \in {"remove", "delete_connection"} /\ Old(p) = q)'
    BY DEF NoDanglingReference
  <2>1. References(c, q)
    BY <1>3 DEF References
  <2>2. CASE q = r
    <3>1. c = request[o].conn
      BY <1>1, <1>5, <2>1, <2>2, NoRefAssumption DEF References, Durable, RefIsApplied
    <3> QED BY <1>1, <1>2, <1>3, <2>2, <3>1 DEF Unapplied, Deletes, Kind, Old
  <2>3. CASE q # r
    BY <1>1, <1>3, <1>4, <2>1, <2>3 DEF Durable, NoDanglingReference, Kind, Old
  <2> QED BY <2>2, <2>3
<1>10. Knows("verify_erase", mode[w], cur[w])'
  BY <1>1, <1>2, <1>3, <1>4 DEF Knows, ModeAt, RowAt, LiveRowAt, SecretAt, ErasingAt, Resting,
     LiveLabels, RecoverLabels, Kind, Old, Target
<1>11. ASSUME NEW v \in Workers, v # w, Acting(v) PROVE SecretAt(pc[v], cur[v])'
  <2> DEFINE p == cur[v]
  <2>1. p # o /\ p \in Ids /\ SecretAt(pc[v], p) /\ RowAt(pc[v], p)
    BY <1>1, <1>2, <1>11, Alone, ActingFacts DEF Knows
  <2>2. /\ phase[p] \in Unapplied => Old(p) # r /\ p # r
        /\ pc'[v] = pc[v] /\ cur'[v] = cur[v]
    BY <1>1, <1>3, <1>5, <1>6, <1>11, <2>1 DEF Goto, TypeOK, Pending, RowPhases, Unapplied
  <2>3. pc[v] \in {"read", "abandon"} => phase[p] \in Unapplied
    BY <2>1 DEF RowAt, Unapplied
  <2> QED BY <1>3, <1>4, <2>1, <2>2, <2>3 DEF SecretAt, SecretChanged, Kind, Old, Target
<1> QED BY <1>1, <1>3, <1>4, <1>7, <1>8, <1>9, <1>10, <1>11, StoreStep DEF Labels

\* Deleting a secret whose connection has another one, or none, by now.
LEMMA RetireOldStep ==
  ASSUME IInv, NEW w \in Workers, RetireOld(w)
  PROVE  IInv'
<1> DEFINE o == cur[w]
           r == Old(o)
<1>1. /\ TypeOK /\ Durable /\ pc[w] = "retire" /\ Acting(w) /\ Knows("retire", mode[w], o) /\ o \in Ids
  BY ActingFacts DEF IInv, RetireOld, Acting, Resting
<1>2. Changed(o) /\ Kind(o) \in {"replace", "remove"}
  BY <1>1 DEF Knows, RowAt
<1>3. /\ UNCHANGED <<conn, request, phase>> /\ faults' \in Nat /\ Goto(w, "verify_retire")
      /\ secrets' = secrets \/ secrets' = secrets \ {r}
  BY <1>1 DEF RetireOld, catalogVars, Call, StoreDelete, TypeOK
<1>4. /\ UNCHANGED <<mode, cur>> /\ secrets' \subseteq secrets /\ secrets' \subseteq Ids
      /\ \A q : q # r => (q \in secrets' <=> q \in secrets)
  BY <1>1, <1>3 DEF Goto, TypeOK
<1>5. r # NoRef /\ r \in Ids /\ Changed(r)
  BY <1>1, <1>2 DEF Durable, WellFormed, OldIsEarlier, Used, Changed, Applied, Kind, Old, Request
<1>6. \A c \in Connections : ~References(c, r)
  BY <1>1, <1>2, <1>5 DEF Durable, OldIsRetired, Target, Kind
<1>7. \A p \in Ids : Pending(p) => Target(p).alive /\ request[p].conn \in Connections
  BY <1>1 DEF Durable, WellFormed, Used, Pending, RowPhases, Unapplied, Applied, Request
<1>8. AppliedIsShown'
  <2>1. \A p \in Ids : phase[p] \in Applied /\ Kind(p) \in Writes => p # r
    BY <1>1, <1>6, <1>7 DEF Durable, AppliedIsShown, References, Pending, RowPhases, Target
  <2> QED BY <1>1, <1>3, <1>4, <2>1 DEF Durable, AppliedIsShown, Kind, Old, Target
<1>9. OldIsRetired' /\ OldIsCurrent' /\ SecretIsWritten' /\ SecretIsAccounted'
  BY <1>1, <1>3, <1>4 DEF Durable, OldIsRetired, OldIsCurrent, SecretIsWritten, SecretIsAccounted,
     Changed, References, Pending, Kind, Old, Target
<1>10. NoDanglingReference'
  BY <1>1, <1>3, <1>4, <1>6 DEF Durable, NoDanglingReference, References, Kind, Old
<1>11. Knows("verify_retire", mode[w], cur[w])'
  BY <1>1, <1>2, <1>3, <1>4 DEF Knows, ModeAt, RowAt, LiveRowAt, SecretAt, ErasingAt, Resting,
     LiveLabels, RecoverLabels, Kind, Changed
<1>12. ASSUME NEW v \in Workers, v # w, Acting(v) PROVE SecretAt(pc[v], cur[v])'
  <2> DEFINE p == cur[v]
  <2>1. p \in Ids /\ SecretAt(pc[v], p) /\ RowAt(pc[v], p) /\ pc'[v] = pc[v] /\ cur'[v] = cur[v]
    BY <1>1, <1>3, <1>12, ActingFacts DEF Knows, Goto, TypeOK
  <2>2. CASE r \notin secrets
    <3>1. secrets' = secrets
      BY <1>3, <2>2
    <3> QED BY <1>3, <2>1, <3>1 DEF SecretAt, SecretChanged, Kind, Old, Target
  <2>3. CASE r \in secrets
    <3>1. phase[p] \in Unapplied => Target(p).ref # r /\ Old(p) # r /\ p # r
      BY <1>1, <1>5, <1>6, <1>7, <2>1, <2>3 DEF Durable, OldIsCurrent, References, Pending, RowPhases,
         Target, Changed, Unapplied, Applied
    <3>2. pc[v] \in {"read", "abandon"} => phase[p] \in Unapplied
      BY <2>1 DEF RowAt, Unapplied
    <3> QED BY <1>3, <1>4, <2>1, <3>1, <3>2 DEF SecretAt, SecretChanged, Kind, Old, Target
  <2> QED BY <2>2, <2>3
<1> QED BY <1>1, <1>3, <1>4, <1>8, <1>9, <1>10, <1>11, <1>12, StoreStep DEF Labels

\* Deleting the new secret of a write that was not applied.
LEMMA UndoNewStep ==
  ASSUME IInv, NEW w \in Workers, UndoNew(w)
  PROVE  IInv'
<1> DEFINE o == cur[w]
<1>1. /\ TypeOK /\ Durable /\ pc[w] = "undo" /\ Acting(w) /\ Knows("undo", mode[w], o) /\ o \in Ids
  BY ActingFacts DEF IInv, UndoNew, Acting, Resting
<1>2. mode[w] = "live" /\ phase[o] \in Unapplied /\ Kind(o) \in Writes
  BY <1>1 DEF Knows, ModeAt, LiveLabels, RowAt
<1>3. /\ UNCHANGED <<conn, request, phase>> /\ faults' \in Nat /\ Goto(w, "verify_undo")
      /\ secrets' = secrets \/ secrets' = secrets \ {o}
  BY <1>1 DEF UndoNew, catalogVars, Call, StoreDelete, TypeOK
<1>4. /\ UNCHANGED <<mode, cur>> /\ secrets' \subseteq secrets /\ secrets' \subseteq Ids
      /\ \A q : q # o => (q \in secrets' <=> q \in secrets)
  BY <1>1, <1>3 DEF Goto, TypeOK
<1>5. /\ \A p \in Ids : Used(p) => Old(p) # o
      /\ \A c \in Connections : conn[c].ref # o
  <2>1. ~Changed(o)
    BY <1>2 DEF Changed, Applied, Unapplied
  <2>2. Used(o)
    BY <1>2 DEF Used, Unapplied
  <2> QED BY <1>1, <2>1, <2>2, UnappliedIsNew
<1>6. AppliedIsShown'
  BY <1>1, <1>2, <1>3, <1>4 DEF Durable, AppliedIsShown, Kind, Old, Target, Applied, Unapplied
<1>7. OldIsRetired' /\ OldIsCurrent' /\ SecretIsWritten' /\ SecretIsAccounted'
  BY <1>1, <1>3, <1>4 DEF Durable, OldIsRetired, OldIsCurrent, SecretIsWritten, SecretIsAccounted,
     Changed, References, Pending, Kind, Old, Target
<1>8. NoDanglingReference'
  BY <1>1, <1>3, <1>4, <1>5 DEF Durable, NoDanglingReference, References, Kind, Old
<1>9. Knows("verify_undo", mode[w], cur[w])'
  BY <1>1, <1>2, <1>3, <1>4 DEF Knows, ModeAt, RowAt, LiveRowAt, SecretAt, ErasingAt, Resting,
     LiveLabels, RecoverLabels, Kind
<1>10. ASSUME NEW v \in Workers, v # w, Acting(v) PROVE SecretAt(pc[v], cur[v])'
  <2>1. cur[v] # o /\ cur[v] \in Ids /\ Used(cur[v]) /\ SecretAt(pc[v], cur[v])
    BY <1>1, <1>2, <1>10, Alone, ActingFacts DEF Knows
  <2>2. /\ cur[v] \in secrets' <=> cur[v] \in secrets
        /\ Old(cur[v]) \in secrets' <=> Old(cur[v]) \in secrets
    BY <1>4, <1>5, <2>1
  <2>3. pc'[v] = pc[v] /\ cur'[v] = cur[v]
    BY <1>1, <1>3, <1>10 DEF Goto, TypeOK
  <2> QED BY <1>3, <2>1, <2>2, <2>3 DEF SecretAt, SecretChanged, Kind, Old, Target
<1> QED BY <1>1, <1>3, <1>4, <1>6, <1>7, <1>8, <1>9, <1>10, StoreStep DEF Labels

\* Storing the old secret again, which the connection still refers to.
LEMMA RestoreOldStep ==
  ASSUME IInv, NEW w \in Workers, RestoreOld(w)
  PROVE  IInv'
<1> DEFINE o == cur[w]
           r == Old(o)
<1>1. /\ TypeOK /\ Durable /\ pc[w] = "restore" /\ Acting(w) /\ Knows("restore", mode[w], o) /\ o \in Ids
  BY ActingFacts DEF IInv, RestoreOld, Acting, Resting
<1>2. /\ mode[w] = "live" /\ phase[o] \in Unapplied /\ Kind(o) \in Deletes /\ Target(o).ref = r
      /\ Target(o).alive
  BY <1>1 DEF Knows, ModeAt, LiveLabels, RowAt, ErasingAt, Durable, WellFormed, Used, Pending,
     RowPhases, Unapplied
<1>3. /\ UNCHANGED <<conn, request, phase>> /\ faults' \in Nat /\ Goto(w, "verify_restore")
      /\ secrets' = secrets \/ secrets' = secrets \cup {r}
  BY <1>1 DEF RestoreOld, catalogVars, Call, StoreSet, TypeOK
<1>4. /\ r \in Ids /\ phase[r] = "completed" /\ Kind(r) \in Writes
      /\ request[r].conn = request[o].conn /\ r # o /\ request[o].conn \in Connections
      /\ References(request[o].conn, r)
  BY <1>1, <1>2 DEF Durable, WellFormed, OldIsEarlier, Used, Pending, RowPhases, Unapplied, Deletes,
     Kind, Old, Request, References, Target
<1>5. /\ UNCHANGED <<mode, cur>> /\ secrets \subseteq secrets' /\ secrets' \subseteq Ids
      /\ \A q : q # r => (q \in secrets' <=> q \in secrets)
  BY <1>1, <1>3, <1>4 DEF Goto, TypeOK
<1>6. \A p \in Ids : Pending(p) /\ Old(p) = r => p = o
  BY <1>1, <1>2, <1>4, NoRefAssumption DEF Durable, OldIsEarlier, Used, Pending, OneOperationPerConnection,
     RowPhases, Unapplied, Applied
<1>7. \A p \in Ids : Changed(p) => Old(p) # r
  BY <1>1, <1>4, NoRefAssumption DEF Durable, OldIsRetired, Target, Kind
<1>8. AppliedIsShown' /\ OldIsRetired'
  BY <1>1, <1>3, <1>5, <1>7 DEF Durable, AppliedIsShown, OldIsRetired, Changed, References, Kind, Old, Target
<1>9. OldIsCurrent'
  <2>1. \A p \in Ids : phase[p] \in Unapplied /\ Old(p) = r => Target(p).ref = r
    BY <1>2, <1>6 DEF Pending, RowPhases
  <2> QED BY <1>1, <1>3, <1>5, <2>1 DEF Durable, OldIsCurrent, Old, Target
<1>10. SecretIsWritten'
  BY <1>1, <1>3, <1>4 DEF Durable, SecretIsWritten, Kind
<1>11. NoDanglingReference'
  BY <1>1, <1>3, <1>5 DEF Durable, NoDanglingReference, References, Kind, Old
<1>12. SecretIsAccounted'
  BY <1>1, <1>3, <1>4 DEF Durable, SecretIsAccounted, References, Pending, Kind, Old
<1>13. Knows("verify_restore", mode[w], cur[w])'
  BY <1>1, <1>2, <1>3, <1>5 DEF Knows, ModeAt, RowAt, LiveRowAt, SecretAt, ErasingAt, Resting,
     LiveLabels, RecoverLabels, Kind, Old, Target
<1>14. ASSUME NEW v \in Workers, v # w, Acting(v) PROVE SecretAt(pc[v], cur[v])'
  <2> DEFINE p == cur[v]
  <2>1. p # o /\ p \in Ids /\ SecretAt(pc[v], p) /\ RowAt(pc[v], p)
    BY <1>1, <1>2, <1>14, Alone, ActingFacts DEF Knows
  <2>2. /\ Old(p) # r \/ ~Pending(p)
        /\ phase[p] \in Applied => Old(p) # r
        /\ phase[p] \in Unapplied => Old(p) # r /\ p # r
        /\ pc'[v] = pc[v] /\ cur'[v] = cur[v]
    BY <1>1, <1>3, <1>4, <1>6, <1>7, <1>14, <2>1 DEF Goto, TypeOK, Pending, RowPhases, Unapplied, Changed
  <2>3. pc[v] \in {"read", "abandon"} => phase[p] \in Unapplied
    BY <2>1 DEF RowAt, Unapplied
  <2> QED BY <1>3, <1>5, <2>1, <2>2, <2>3 DEF SecretAt, SecretChanged, Kind, Old, Target
<1> QED BY <1>1, <1>3, <1>5, <1>8, <1>9, <1>10, <1>11, <1>12, <1>13, <1>14, StoreStep DEF Labels

-----------------------------------------------------------------------------
(* Steps that change the catalog.                                          *)

\* Within the applied phases, or within the unapplied ones, a row may move.
LEMMA SameHalf ==
  ASSUME TypeOK, Durable, UNCHANGED <<conn, request, secrets>>, NEW o \in Ids, NEW q,
         phase' = [phase EXCEPT ![o] = q],
         (phase[o] \in Unapplied /\ q \in Unapplied) \/ (phase[o] \in Applied /\ q \in Applied)
  PROVE  Durable' /\ RowsAdvance
<1>1. \A p \in Ids : /\ Used(p)' = Used(p) /\ Changed(p)' = Changed(p) /\ Pending(p)' = Pending(p)
                     /\ phase'[p] \in Unapplied <=> phase[p] \in Unapplied
                     /\ phase'[p] \in Applied <=> phase[p] \in Applied
                     /\ phase'[p] \in RowPhases \cup {"completed"} <=> phase[p] \in RowPhases \cup {"completed"}
                     /\ phase'[p] = "completed" <=> phase[p] = "completed"
                     /\ phase'[p] = "request" <=> phase[p] = "request"
                     /\ Kind(p)' = Kind(p) /\ Old(p)' = Old(p)
                     /\ phase'[p] = "unused" <=> phase[p] = "unused"
  BY DEF TypeOK, Used, Changed, Pending, RowPhases, Unapplied, Applied, Kind, Old
<1>2. RowsAdvance
  BY <1>1 DEF RowsAdvance
<1>3. WellFormed' /\ OldIsEarlier' /\ RefIsApplied' /\ OneOperationPerConnection'
  BY <1>1, NoRefAssumption DEF TypeOK, Durable, WellFormed, OldIsEarlier, RefIsApplied, OneOperationPerConnection, Target,
     Used, Request, Old
<1>4. AppliedIsShown' /\ OldIsRetired' /\ OldIsCurrent' /\ SnapshotIsEarlier'
  BY <1>1 DEF Durable, AppliedIsShown, OldIsRetired, OldIsCurrent, SnapshotIsEarlier, Target, References, Kind
<1>5. SecretIsWritten' /\ NoDanglingReference' /\ SecretIsAccounted'
  BY <1>1 DEF TypeOK, Durable, SecretIsWritten, NoDanglingReference, SecretIsAccounted, References
<1> QED BY <1>2, <1>3, <1>4, <1>5 DEF Durable

\* What another worker knows when w moves the row of its operation.
LEMMA OthersKnow ==
  ASSUME IInv, NEW w \in Workers, Acting(w), NEW v \in Workers, v # w,
         UNCHANGED <<request, secrets>>, RowsAdvance,
         pc'[v] = pc[v], mode'[v] = mode[v], cur'[v] = cur[v],
         \A p \in Ids : p # cur[w] => /\ phase'[p] = phase[p]
                                      /\ Pending(p) => Target(p).ref' = Target(p).ref,
         mode[w] # "live" => /\ phase'[cur[w]] \in Unapplied => phase[cur[w]] \in Unapplied
                             /\ phase'[cur[w]] \in Applied =>
                                   phase[cur[w]] \in Applied \/ SecretChanged(cur[w])
  PROVE  Knows(pc[v], mode[v], cur[v])'
<1> DEFINE o == cur[w]
<1>1. Knows(pc[v], mode[v], cur[v])
  BY DEF IInv, Volatile, Known
<1>2. CASE ~Acting(v) \/ cur[v] # o
  <2>1. Undisturbed(v)
    BY <1>2, ActingFacts DEF Undisturbed, Old
  <2> QED BY <1>1, <2>1, KnownFrame
<1>3. ASSUME NEW p \in Ids, p = o, Acting(v), cur[v] = p
      PROVE  Knows(pc[v], mode[v], cur[v])'
  <2>1. mode[w] # "live" /\ mode[v] # "live"
    BY <1>3, Alone, ActingFacts
  <2>2. /\ Kind(p)' = Kind(p) /\ Old(p)' = Old(p) /\ SecretChanged(p)' = SecretChanged(p)
        /\ Changed(p) => Changed(p)'
        /\ phase[p] \notin {"unused", "request"} => phase'[p] \notin {"unused", "request"}
        /\ phase'[p] \in Unapplied => phase[p] \in Unapplied
        /\ phase'[p] \in Applied => phase[p] \in Applied \/ SecretChanged(p)
        /\ phase'[p] \in Applied => phase[p] \in Unapplied \cup Applied \cup {"request"}
    BY <1>3, <2>1 DEF Kind, Old, SecretChanged, RowsAdvance, Pending, RowPhases
  <2>3. pc[v] \notin LiveLabels /\ ModeAt(pc[v], mode[v]) /\ Knows(pc[v], mode[v], p)
    BY <1>1, <1>3, <2>1 DEF Knows, ModeAt
  <2>4. RowAt(pc[v], p)'
    BY <1>3, <2>2, <2>3 DEF Knows, RowAt, LiveLabels
  <2>5. SecretAt(pc[v], p)'
    <3>1. pc[v] \in {"mark", "apply", "inspect"} /\ phase'[p] \in Unapplied => SecretChanged(p)'
      BY <2>2, <2>3 DEF Knows, SecretAt
    <3>2. pc[v] = "drop" /\ phase'[p] \in Unapplied => ~SecretChanged(p)'
      BY <2>2, <2>3 DEF Knows, SecretAt
    <3>3. pc[v] = "drop" /\ phase'[p] \in Applied /\ Kind(p) = "replace" => Old(p) \notin secrets
      <4>1. pc[v] = "drop" => phase[p] # "request"
        BY <2>3 DEF Knows, RowAt, Resting
      <4>2. pc[v] = "drop" /\ phase'[p] \in Applied => phase[p] \in Applied
        BY <2>2, <2>3, <4>1 DEF Knows, SecretAt
      <4> QED BY <2>2, <2>3, <4>2 DEF Knows, SecretAt
    <3> QED BY <2>2, <2>3, <3>1, <3>2, <3>3 DEF SecretAt, LiveLabels
  <2>6. ErasingAt(pc[v], mode[v], p)'
    BY <2>1, <2>3 DEF ErasingAt, LiveLabels
  <2> QED BY <1>3, <2>1, <2>3, <2>4, <2>5, <2>6 DEF Knows, ModeAt
<1> QED BY <1>2, <1>3, ActingFacts

\* A worker that returned relies on nothing.
LEMMA RestKnows ==
  ASSUME NEW w \in Workers, pc'[w] \in {"down", "ready", "next"}, ModeAt(pc[w], mode[w])'
  PROVE  Knows(pc[w], mode[w], cur[w])'
BY DEF Knows, RowAt, LiveRowAt, SecretAt, ErasingAt, Resting

\* Recording that the secret has changed.
LEMMA MarkStep ==
  ASSUME IInv, NEW w \in Workers, Mark(w)
  PROVE  IInv'
<1> DEFINE o == cur[w]
<1>1. /\ TypeOK /\ Durable /\ pc[w] = "mark" /\ Acting(w) /\ Knows("mark", mode[w], o) /\ o \in Ids
      /\ Kind(o) \in Writes \cup Deletes
  <2>1. Kind(cur[w]) # "plain_delete"
    BY ActingFacts DEF Mark, Knows, RowAt, Acting, Resting
  <2> QED BY <2>1, ActingFacts DEF IInv, Mark, Acting, Resting, Kinds, SagaKinds, Writes, Deletes
<1>2. UNCHANGED <<conn, request, secrets>>
  BY DEF Mark
<1>3. CASE ~MaySetPhase(o, "secret_changed") /\ Revert(w) /\ UNCHANGED <<phase, faults>>
  <2>1. mode[w] # "live"
    BY <1>1, <1>3 DEF Knows, LiveRowAt, MaySetPhase, NextPhase, Pending, RowPhases, Unapplied
  <2>2. Fail(w)
    BY <1>3, <2>1 DEF Revert
  <2>3. Continues(w) /\ Knows(pc'[w], mode[w], cur[w])
    BY <1>1, <2>2, Moves, Returned
  <2>4. TypeOK'
    BY <1>1, <1>2, <1>3, <2>2, Moves DEF TypeOK
  <2> QED BY <1>2, <1>3, <2>3, <2>4, ReadStep
<1>4. ASSUME MaySetPhase(o, "secret_changed"), NEW done \in BOOLEAN, NEW ok \in BOOLEAN, Call(done, ok),
             phase' = IF done THEN [phase EXCEPT ![o] = "secret_changed"] ELSE phase,
             IF ok THEN Goto(w, IF mode[w] = "live" THEN "apply" ELSE "inspect_secret") ELSE Revert(w)
      PROVE  IInv'
  <2>1. phase[o] \in Unapplied /\ (ok => done) /\ faults' \in Nat
    BY <1>1, <1>4 DEF MaySetPhase, NextPhase, Pending, RowPhases, Unapplied, Applied, Call, TypeOK
  <2>2. phase' = [phase EXCEPT ![o] = phase'[o]] /\ phase'[o] \in Unapplied
    BY <1>1, <1>4, <2>1 DEF TypeOK, Unapplied
  <2>3. Durable' /\ RowsAdvance
    BY <1>1, <1>2, <2>1, <2>2, SameHalf
  <2>0. UNCHANGED cur
    BY <1>4 DEF Goto, Fail, Revert
  <2>4. /\ Kind(o)' = Kind(o) /\ Old(o)' = Old(o) /\ SecretChanged(o)' = SecretChanged(o)
        /\ Target(o)' = Target(o)
    BY <1>2, <2>0 DEF Kind, Old, SecretChanged, Target
  <2>5. /\ Continues(w) /\ ((\E label \in Labels : Goto(w, label)) \/ Fail(w))
        /\ Knows(pc[w], mode[w], cur[w])'
    <3>1. CASE ok
      <4>1. /\ pc'[w] = (IF mode[w] = "live" THEN "apply" ELSE "inspect_secret") /\ UNCHANGED <<mode, cur>>
            /\ Goto(w, pc'[w]) /\ pc'[w] \in Labels /\ pc'[w] # "next"
        BY <1>1, <1>4, <3>1 DEF Goto, TypeOK, Labels
      <4>2. phase'[o] = "secret_changed"
        BY <1>1, <1>4, <2>1, <3>1 DEF TypeOK
      <4>3. Knows(pc[w], mode[w], cur[w])'
        BY <1>1, <2>1, <2>4, <4>1, <4>2 DEF Knows, ModeAt, RowAt, LiveRowAt, SecretAt, ErasingAt, Resting,
           LiveLabels, RecoverLabels
      <4> QED BY <1>1, <4>1, <4>3, Moves
    <3>2. CASE ~ok
      <4>1. Revert(w)
        BY <1>4, <3>2
      <4>2. /\ Knows(pc'[w], mode[w], o) /\ Continues(w) /\ pc'[w] \in {"down", "ready", "undo", "restore"}
            /\ mode'[w] = mode[w] /\ cur'[w] = cur[w]
            /\ ((\E label \in Labels : Goto(w, label)) \/ Fail(w))
        BY <1>1, <2>1, <4>1, Reverts
      <4>3. Knows(pc[w], mode[w], cur[w])'
        BY <1>1, <2>1, <2>2, <2>4, <4>2 DEF Knows, ModeAt, RowAt, LiveRowAt, SecretAt, ErasingAt, Resting,
           LiveLabels, RecoverLabels, Unapplied
      <4> QED BY <4>2, <4>3
    <3> QED BY <3>1, <3>2
  <2>6. TypeOK'
    BY <1>1, <1>2, <1>4, <2>1, <2>5, Moves DEF TypeOK, Phases, RowPhases, Unapplied
  <2>7. ASSUME NEW v \in Workers, v # w PROVE Knows(pc[v], mode[v], cur[v])'
    <3>1. pc'[v] = pc[v] /\ mode'[v] = mode[v] /\ cur'[v] = cur[v]
      BY <2>5, <2>7 DEF Continues
    <3>2. \A p \in Ids : p # o => phase'[p] = phase[p] /\ Target(p).ref' = Target(p).ref
      BY <1>1, <1>2, <2>2 DEF TypeOK, Target
    <3>3. phase'[o] \notin Applied
      BY <2>2 DEF Applied, Unapplied
    <3> QED BY <1>1, <1>2, <2>1, <2>3, <2>7, <3>1, <3>2, <3>3, OthersKnow
  <2>8. Known'
    BY <2>5, <2>7 DEF Known
  <2> QED BY <1>1, <1>2, <2>3, <2>5, <2>6, <2>8, VolatileFrame DEF IInv
<1> QED BY <1>2, <1>3, <1>4 DEF Mark

\* Recording that the replaced secret is to be deleted.
LEMMA CleanupStep ==
  ASSUME IInv, NEW w \in Workers, Cleanup(w)
  PROVE  IInv'
<1> DEFINE o == cur[w]
<1>1. /\ TypeOK /\ Durable /\ pc[w] = "cleanup" /\ Acting(w) /\ Knows("cleanup", mode[w], o) /\ o \in Ids
  BY ActingFacts DEF IInv, Cleanup, Acting, Resting
<1>2. UNCHANGED <<conn, request, secrets>>
  BY DEF Cleanup
<1>3. CASE ~MaySetPhase(o, "cleanup_pending") /\ Fail(w) /\ UNCHANGED <<phase, faults>>
  <2>1. Continues(w) /\ Knows(pc'[w], mode[w], cur[w])
    BY <1>1, <1>3, Moves, Returned
  <2>2. TypeOK'
    BY <1>1, <1>2, <1>3, Moves DEF TypeOK
  <2> QED BY <1>2, <1>3, <2>1, <2>2, ReadStep
<1>4. ASSUME MaySetPhase(o, "cleanup_pending"), NEW done \in BOOLEAN, NEW ok \in BOOLEAN, Call(done, ok),
             phase' = IF done THEN [phase EXCEPT ![o] = "cleanup_pending"] ELSE phase,
             IF ok THEN Goto(w, "retire") ELSE Fail(w)
      PROVE  IInv'
  <2>1. phase[o] \in Applied /\ faults' \in Nat
    BY <1>1, <1>4 DEF MaySetPhase, NextPhase, Pending, RowPhases, Unapplied, Applied, Call, TypeOK
  <2>2. phase' = [phase EXCEPT ![o] = phase'[o]] /\ phase'[o] \in Applied
    BY <1>1, <1>4, <2>1 DEF TypeOK, Applied
  <2>3. Durable' /\ RowsAdvance
    BY <1>1, <1>2, <2>1, <2>2, SameHalf
  <2>0. UNCHANGED cur
    BY <1>4 DEF Goto, Fail
  <2>4. Kind(o)' = Kind(o) /\ Old(o)' = Old(o)
    BY <1>2, <2>0 DEF Kind, Old
  <2>5. /\ Continues(w) /\ ((\E label \in Labels : Goto(w, label)) \/ Fail(w))
        /\ Knows(pc[w], mode[w], cur[w])'
    <3>1. CASE ok
      <4>1. Goto(w, "retire") /\ pc'[w] = "retire" /\ UNCHANGED <<mode, cur>> /\ "retire" \in Labels
        BY <1>1, <1>4, <3>1 DEF Goto, TypeOK, Labels
      <4>2. Knows(pc[w], mode[w], cur[w])'
        BY <1>1, <2>2, <2>4, <4>1 DEF Knows, ModeAt, RowAt, LiveRowAt, SecretAt, ErasingAt, Resting,
           LiveLabels, RecoverLabels, Changed, Applied
      <4> QED BY <1>1, <4>1, <4>2, Moves
    <3>2. CASE ~ok
      <4>1. /\ Fail(w) /\ Continues(w) /\ pc'[w] \in {"down", "ready", "next"} /\ UNCHANGED <<mode, cur>>
            /\ ModeAt(pc'[w], mode[w])
        BY <1>1, <1>4, <3>2, Returned, Moves
      <4>2. ModeAt(pc[w], mode[w])'
        BY <4>1 DEF ModeAt
      <4> QED BY <4>1, <4>2, RestKnows
    <3> QED BY <3>1, <3>2
  <2>6. TypeOK'
    BY <1>1, <1>2, <1>4, <2>1, <2>5, Moves DEF TypeOK, Phases, RowPhases, Applied
  <2>7. ASSUME NEW v \in Workers, v # w PROVE Knows(pc[v], mode[v], cur[v])'
    <3>1. pc'[v] = pc[v] /\ mode'[v] = mode[v] /\ cur'[v] = cur[v]
      BY <2>5, <2>7 DEF Continues
    <3>2. \A p \in Ids : p # o => phase'[p] = phase[p] /\ Target(p).ref' = Target(p).ref
      BY <1>1, <1>2, <2>2 DEF TypeOK, Target
    <3>3. phase'[o] \notin Unapplied
      BY <2>2 DEF Applied, Unapplied
    <3> QED BY <1>1, <1>2, <2>1, <2>3, <2>7, <3>1, <3>2, <3>3, OthersKnow
  <2>8. Known'
    BY <2>5, <2>7 DEF Known
  <2> QED BY <1>1, <1>2, <2>3, <2>5, <2>6, <2>8, VolatileFrame DEF IInv
<1> QED BY <1>2, <1>3, <1>4 DEF Cleanup

\* What ApplyCredentialOperation finds before it changes the catalog.
LEMMA ApplyFacts ==
  ASSUME TypeOK, Durable, NEW o \in Ids, MayApply(o)
  PROVE  /\ request[o] \in Request /\ Kind(o) \in SagaKinds /\ request[o].conn \in Connections
         /\ conn[request[o].conn].alive /\ conn[request[o].conn].ref = Old(o)
         /\ \A p \in Ids : Pending(p) /\ p # o => request[p].conn # request[o].conn
         /\ \A p \in Ids : Used(p) => Old(p) # o
         /\ \A c \in Connections : conn[c].ref # o
         /\ \A c \in Connections : Old(o) # NoRef /\ conn[c].ref = Old(o) => c = request[o].conn
         /\ Old(o) = NoRef <=> Kind(o) = "save"
         /\ Old(o) \in Ids \cup {NoRef}
<1>1. phase[o] = "secret_changed" /\ Used(o) /\ ~Changed(o) /\ Pending(o)
  BY DEF MayApply, Used, Changed, Applied, Pending, RowPhases, Unapplied
<1>2. /\ request[o] \in Request /\ Kind(o) \in SagaKinds /\ request[o].conn \in Connections
      /\ Old(o) = NoRef <=> Kind(o) = "save"
      /\ Old(o) \in Ids \cup {NoRef}
  BY <1>1 DEF Durable, WellFormed, Request, Kinds, Kind, Old
<1>3. conn[request[o].conn].alive /\ conn[request[o].conn].ref = Old(o)
  BY DEF MayApply, Target
<1>4. \A p \in Ids : Pending(p) /\ p # o => request[p].conn # request[o].conn
  BY <1>1 DEF Durable, OneOperationPerConnection
<1>5. \A p \in Ids : Used(p) => Old(p) # o
  BY <1>1, UnappliedIsNew
<1>6. \A c \in Connections : conn[c].ref # o
  BY <1>1, UnappliedIsNew
<1>7. \A c \in Connections : Old(o) # NoRef /\ conn[c].ref = Old(o) => c = request[o].conn
  BY <1>1 DEF Durable, RefIsApplied, OldIsEarlier
<1> QED BY <1>2, <1>3, <1>4, <1>5, <1>6, <1>7

\* Giving a connection its new reference, or none.
LEMMA ApplyKeeps ==
  ASSUME TypeOK, Durable, NEW o \in Ids, MayApply(o), SecretChanged(o), Kind(o) # "delete_connection",
         Applying(o), UNCHANGED <<request, secrets>>
  PROVE  Durable'
<1> DEFINE c == request[o].conn
           new == IF Kind(o) \in Writes THEN o ELSE NoRef
<1>1. /\ request[o] \in Request /\ Kind(o) \in SagaKinds /\ c \in Connections
      /\ conn[c].alive /\ conn[c].ref = Old(o)
      /\ \A p \in Ids : Pending(p) /\ p # o => request[p].conn # c
      /\ \A p \in Ids : Used(p) => Old(p) # o
      /\ \A d \in Connections : conn[d].ref # o
      /\ \A d \in Connections : Old(o) # NoRef /\ conn[d].ref = Old(o) => d = c
      /\ Old(o) = NoRef <=> Kind(o) = "save"
      /\ Old(o) \in Ids \cup {NoRef}
  BY ApplyFacts
<1>2. phase[o] = "secret_changed" /\ Used(o) /\ ~Changed(o) /\ Pending(o)
  BY DEF MayApply, Used, Changed, Applied, Pending, RowPhases, Unapplied
<1>3. /\ conn'[c].ref = new /\ conn'[c].alive = conn[c].alive /\ conn'[c].revision = conn[c].revision + 1
      /\ \A d \in Connections : d # c => conn'[d] = conn[d]
      /\ phase'[o] = "catalog_changed" /\ \A p \in Ids : p # o => phase'[p] = phase[p]
  <2>1. /\ conn' = [conn EXCEPT ![c].ref = new, ![c].revision = @ + 1]
        /\ phase' = [phase EXCEPT ![o] = "catalog_changed"]
    BY DEF Applying
  <2>2. conn[c] \in [alive : BOOLEAN, revision : Nat, ref : Ids \cup {NoRef}]
    BY <1>1 DEF TypeOK
  <2>3. conn'[c] = [[conn[c] EXCEPT !.ref = new] EXCEPT !.revision = conn[c].revision + 1]
    BY <1>1, <2>1 DEF TypeOK
  <2> QED BY <1>1, <2>1, <2>2, <2>3 DEF TypeOK
<1>4. /\ \A p \in Ids : Used(p)' = Used(p) /\ Pending(p)' = Pending(p) /\ (Changed(p)' <=> Changed(p) \/ p = o)
      /\ \A p \in Ids : Kind(p)' = Kind(p) /\ Old(p)' = Old(p)
      /\ \A p \in Ids : phase'[p] \in Applied <=> phase[p] \in Applied \/ p = o
      /\ \A p \in Ids : phase'[p] \in Unapplied <=> phase[p] \in Unapplied /\ p # o
      /\ \A p \in Ids : phase'[p] = "completed" <=> phase[p] = "completed"
      /\ \A p \in Ids : phase'[p] = "request" <=> phase[p] = "request"
  BY <1>2, <1>3 DEF Used, Pending, Changed, RowPhases, Applied, Unapplied, Kind, Old
<1>5. \A p \in Ids : Used(p) => request[p] \in Request /\ request[p].conn \in Connections
                                /\ Old(p) \in Ids \cup {NoRef}
  BY DEF Durable, WellFormed, Request, Old
<1>6. WellFormed'
  <2>1. \A d \in Connections : conn'[d].alive = conn[d].alive
    BY <1>1, <1>3
  <2> QED BY <1>4, <1>5, <2>1 DEF Durable, WellFormed, Target
<1>7. OldIsEarlier'
  BY <1>1, <1>4, <1>5 DEF Durable, OldIsEarlier
<1>8. RefIsApplied'
  <2> SUFFICES ASSUME NEW d \in Connections, conn'[d].ref # NoRef
               PROVE  (/\ Changed(conn[d].ref) /\ Kind(conn[d].ref) \in Writes
                       /\ request[conn[d].ref].conn = d)'
    BY DEF RefIsApplied
  <2>1. CASE d = c
    <3>1. conn'[d].ref = o /\ Kind(o) \in Writes
      BY <1>3, <2>1
    <3> QED BY <1>2, <1>3, <2>1, <3>1 DEF Changed, Applied, Kind
  <2>2. CASE d # c
    <3>1. conn'[d].ref = conn[d].ref /\ conn[d].ref \in Ids
      BY <1>3, <2>2 DEF TypeOK
    <3> QED BY <1>4, <3>1 DEF Durable, RefIsApplied, Kind
  <2> QED BY <2>1, <2>2
<1>9. AppliedIsShown'
  <2> SUFFICES ASSUME NEW p \in Ids, phase'[p] \in Applied
               PROVE  (/\ Kind(p) # "delete_connection"
                       /\ Kind(p) \in Writes => Target(p).ref = p /\ p \in secrets
                       /\ Kind(p) = "remove" => Target(p).ref = NoRef /\ Old(p) \notin secrets)'
    BY DEF AppliedIsShown
  <2>1. CASE p = o
    BY <1>3, <1>4, <2>1 DEF SecretChanged, Target, Writes
  <2>2. CASE p # o
    <3>1. phase[p] \in Applied /\ Pending(p) /\ Used(p)
      BY <1>4, <2>2 DEF Pending, RowPhases, Used, Applied
    <3>2. conn'[request[p].conn] = conn[request[p].conn]
      BY <1>1, <1>3, <1>5, <2>2, <3>1
    <3> QED BY <1>4, <3>1, <3>2 DEF Durable, AppliedIsShown, Target
  <2> QED BY <2>1, <2>2
<1>10. OldIsRetired'
  <2> SUFFICES ASSUME NEW p \in Ids, Changed(p)', Old(p) # NoRef
               PROVE  /\ \A d \in Connections : ~References(d, Old(p))'
                      /\ phase'[p] = "completed" => Old(p) \notin secrets'
                      /\ Kind(p) = "delete_connection" => ~Target(p).alive'
    BY <1>4 DEF OldIsRetired, References, Target, Kind
  <2>1. CASE p = o
    <3>1. Old(p) # o
      BY <1>1, <1>2, <2>1
    <3> QED BY <1>1, <1>3, <1>4, <2>1, <3>1 DEF References, Old
  <2>2. CASE p # o
    <3>1. Changed(p) /\ Old(p) # o
      BY <1>1, <1>4, <2>2 DEF Changed, Used, Applied
    <3>2. Target(p).alive' = Target(p).alive
      BY <1>1, <1>3, <1>5, <3>1 DEF Target, Used, Changed, Applied
    <3>3. /\ \A d \in Connections : ~References(d, Old(p))
          /\ phase[p] = "completed" => Old(p) \notin secrets
          /\ Kind(p) = "delete_connection" => ~Target(p).alive
      BY <3>1 DEF Durable, OldIsRetired
    <3> QED BY <1>3, <1>4, <2>2, <3>1, <3>2, <3>3 DEF References
  <2> QED BY <2>1, <2>2
<1>11. OldIsCurrent'
  <2>1. \A p \in Ids : phase'[p] \in Unapplied => phase[p] \in Unapplied /\ Used(p) /\ Pending(p) /\ p # o
    BY <1>4 DEF Used, Unapplied, Pending, RowPhases
  <2>2. \A p \in Ids : phase'[p] \in Unapplied => Target(p)' = Target(p)
    BY <1>1, <1>3, <1>5, <2>1 DEF Target
  <2> QED BY <1>4, <2>1, <2>2 DEF Durable, OldIsCurrent
<1>12. SecretIsWritten'
  BY <1>3, <1>4 DEF TypeOK, Durable, SecretIsWritten, RowPhases, Applied
<1>13. SnapshotIsEarlier'
  <2> SUFFICES ASSUME NEW p \in Ids, phase[p] = "request"
               PROVE  (/\ request[p].revision <= Target(p).revision
                       /\ request[p].revision = Target(p).revision /\ Target(p).alive
                             => Old(p) = Target(p).ref)'
    BY <1>4 DEF SnapshotIsEarlier
  <2>1. request[p].revision \in Nat /\ request[p].conn \in Connections
    BY <1>5 DEF Used, Request
  <2>2. conn[c].revision \in Nat
    BY <1>1 DEF TypeOK
  <2>3. CASE request[p].conn = c
    <3>1. request[p].revision <= conn[c].revision
      BY <2>3 DEF Durable, SnapshotIsEarlier, Target
    <3> QED BY <1>3, <2>1, <2>2, <2>3, <3>1 DEF Target
  <2>4. CASE request[p].conn # c
    BY <1>3, <1>4, <2>1, <2>4 DEF Durable, SnapshotIsEarlier, Target
  <2> QED BY <2>3, <2>4
<1>14. OneOperationPerConnection'
  BY <1>4 DEF Durable, OneOperationPerConnection
<1>15. NoDanglingReference'
  <2> SUFFICES ASSUME NEW d \in Connections, NEW r \in Ids, References(d, r)', r \notin secrets
               PROVE  \E p \in Ids : (/\ phase[p] \in Unapplied /\ request[p].conn = d
                                      /\ Kind(p) \in {"remove", "delete_connection"} /\ Old(p) = r)'
    BY DEF NoDanglingReference
  <2>1. d # c
    BY <1>1, <1>3, NoRefAssumption DEF References, SecretChanged
  <2>2. References(d, r)
    BY <1>3, <2>1 DEF References
  <2>3. PICK p \in Ids : /\ phase[p] \in Unapplied /\ request[p].conn = d
                         /\ Kind(p) \in {"remove", "delete_connection"} /\ Old(p) = r
    BY <2>2 DEF Durable, NoDanglingReference
  <2> QED BY <1>4, <2>1, <2>3
<1>16. SecretIsAccounted'
  <2> SUFFICES ASSUME NEW r \in secrets
               PROVE  \/ \E d \in Connections : conn'[d].ref = r
                      \/ Pending(r)'
                      \/ \E p \in Ids : Pending(p)' /\ Old(p)' = r
    BY DEF SecretIsAccounted
  <2>1. r \in Ids
    BY DEF TypeOK
  <2>2. CASE r = Old(o)
    BY <1>2, <1>4, <2>2
  <2>3. CASE r # Old(o)
    <3>1. \A d \in Connections : conn[d].ref = r => d # c
      BY <1>1, <2>3
    <3> QED BY <1>3, <1>4, <2>1, <3>1 DEF Durable, SecretIsAccounted
  <2> QED BY <2>2, <2>3
<1> QED BY <1>6, <1>7, <1>8, <1>9, <1>10, <1>11, <1>12, <1>13, <1>14, <1>15, <1>16 DEF Durable

\* Deleting the connection, and the row with it.
LEMMA ApplyDeletes ==
  ASSUME TypeOK, Durable, NEW o \in Ids, MayApply(o), SecretChanged(o), Kind(o) = "delete_connection",
         Applying(o), UNCHANGED <<request, secrets>>
  PROVE  Durable'
<1> DEFINE c == request[o].conn
<1>1. /\ request[o] \in Request /\ c \in Connections
      /\ conn[c].alive /\ conn[c].ref = Old(o)
      /\ \A p \in Ids : Pending(p) /\ p # o => request[p].conn # c
      /\ \A p \in Ids : Used(p) => Old(p) # o
      /\ \A d \in Connections : conn[d].ref # o
      /\ \A d \in Connections : Old(o) # NoRef /\ conn[d].ref = Old(o) => d = c
      /\ Old(o) # NoRef /\ Old(o) \in Ids
  BY ApplyFacts
<1>2. phase[o] = "secret_changed" /\ Used(o) /\ ~Changed(o) /\ Pending(o) /\ Old(o) \notin secrets
      /\ o \notin secrets
  BY DEF MayApply, Used, Changed, Applied, Pending, RowPhases, Unapplied, SecretChanged, Writes,
     Durable, SecretIsWritten
<1>3. /\ conn'[c].ref = conn[c].ref /\ ~conn'[c].alive /\ conn'[c].revision = conn[c].revision
      /\ \A d \in Connections : d # c => conn'[d] = conn[d]
      /\ phase'[o] = "completed" /\ \A p \in Ids : p # o => phase'[p] = phase[p]
  <2>1. /\ conn' = [conn EXCEPT ![c].alive = FALSE]
        /\ phase' = [phase EXCEPT ![o] = "completed"]
    BY DEF Applying
  <2> QED BY <1>1, <2>1 DEF TypeOK
<1>4. /\ \A p \in Ids : Used(p)' = Used(p) /\ (Changed(p)' <=> Changed(p) \/ p = o)
      /\ \A p \in Ids : Pending(p)' <=> Pending(p) /\ p # o
      /\ \A p \in Ids : Kind(p)' = Kind(p) /\ Old(p)' = Old(p)
      /\ \A p \in Ids : phase'[p] \in Applied <=> phase[p] \in Applied
      /\ \A p \in Ids : phase'[p] \in Unapplied <=> phase[p] \in Unapplied /\ p # o
      /\ \A p \in Ids : phase'[p] = "completed" <=> phase[p] = "completed" \/ p = o
      /\ \A p \in Ids : phase'[p] = "request" <=> phase[p] = "request"
  BY <1>2, <1>3 DEF Used, Pending, Changed, RowPhases, Applied, Unapplied, Kind, Old
<1>5. \A p \in Ids : Used(p) => request[p] \in Request /\ request[p].conn \in Connections
                                /\ Old(p) \in Ids \cup {NoRef}
  BY DEF Durable, WellFormed, Request, Old
<1>6. \A p \in Ids : Pending(p)' => Target(p)' = Target(p) /\ p # o /\ Used(p)
  <2>1. \A p \in Ids : Pending(p) => Used(p)
    BY DEF Pending, Used, RowPhases, Unapplied, Applied
  <2> QED BY <1>1, <1>3, <1>4, <1>5, <2>1 DEF Target
<1>7. WellFormed'
  BY <1>1, <1>4, <1>5, <1>6 DEF Durable, WellFormed, Target
<1>8. OldIsEarlier'
  BY <1>1, <1>4, <1>5 DEF Durable, OldIsEarlier
<1>9. RefIsApplied'
  <2>1. \A d \in Connections : conn'[d].ref = conn[d].ref /\ conn[d].ref \in Ids \cup {NoRef}
    BY <1>3 DEF TypeOK
  <2> QED BY <1>4, <2>1 DEF Durable, RefIsApplied, Kind
<1>10. AppliedIsShown'
  <2>1. \A p \in Ids : phase[p] \in Applied => Pending(p)'
    BY <1>4 DEF Pending, RowPhases
  <2> QED BY <1>4, <1>6, <2>1 DEF Durable, AppliedIsShown, Target
<1>11. \A d \in Connections, r \in Ids : References(d, r)' => References(d, r) /\ d # c
  BY <1>3 DEF References
<1>12. OldIsRetired'
  <2> SUFFICES ASSUME NEW p \in Ids, Changed(p)', Old(p) # NoRef
               PROVE  /\ \A d \in Connections : ~References(d, Old(p))'
                      /\ phase'[p] = "completed" => Old(p) \notin secrets'
                      /\ Kind(p) = "delete_connection" => ~Target(p).alive'
    BY <1>4 DEF OldIsRetired, References, Target, Kind
  <2>1. CASE p = o
    <3>1. ~Target(o).alive'
      BY <1>1, <1>3 DEF Target
    <3>2. \A d \in Connections : ~References(d, Old(o))'
      BY <1>1, <1>3, <1>4 DEF References
    <3> QED BY <1>2, <2>1, <3>1, <3>2
  <2>2. CASE p # o
    <3>1. Changed(p) /\ Old(p) # o /\ Old(p) \in Ids
      BY <1>1, <1>4, <1>5, <2>2 DEF Changed, Used, Applied
    <3>2. Target(p).alive' => Target(p).alive
      BY <1>1, <1>3, <1>5, <3>1 DEF Target, Used, Changed, Applied
    <3>3. /\ \A d \in Connections : ~References(d, Old(p))
          /\ phase[p] = "completed" => Old(p) \notin secrets
          /\ Kind(p) = "delete_connection" => ~Target(p).alive
      BY <3>1 DEF Durable, OldIsRetired
    <3> QED BY <1>4, <1>11, <2>2, <3>1, <3>2, <3>3
  <2> QED BY <2>1, <2>2
<1>13. OldIsCurrent'
  <2>1. \A p \in Ids : phase'[p] \in Unapplied => phase[p] \in Unapplied /\ Pending(p)'
    BY <1>4 DEF Unapplied, Pending, RowPhases
  <2> QED BY <1>4, <1>6, <2>1 DEF Durable, OldIsCurrent
<1>14. SecretIsWritten'
  BY <1>2, <1>3, <1>4 DEF TypeOK, Durable, SecretIsWritten, RowPhases
<1>15. SnapshotIsEarlier'
  <2> SUFFICES ASSUME NEW p \in Ids, phase[p] = "request"
               PROVE  (/\ request[p].revision <= Target(p).revision
                       /\ request[p].revision = Target(p).revision /\ Target(p).alive
                             => Old(p) = Target(p).ref)'
    BY <1>4 DEF SnapshotIsEarlier
  <2>1. request[p].conn \in Connections
    BY <1>5 DEF Used
  <2> QED BY <1>3, <1>4, <2>1 DEF Durable, SnapshotIsEarlier, Target
<1>16. OneOperationPerConnection'
  BY <1>4 DEF Durable, OneOperationPerConnection
<1>17. NoDanglingReference'
  <2> SUFFICES ASSUME NEW d \in Connections, NEW r \in Ids, References(d, r)', r \notin secrets
               PROVE  \E p \in Ids : (/\ phase[p] \in Unapplied /\ request[p].conn = d
                                      /\ Kind(p) \in {"remove", "delete_connection"} /\ Old(p) = r)'
    BY DEF NoDanglingReference
  <2>1. PICK p \in Ids : /\ phase[p] \in Unapplied /\ request[p].conn = d
                         /\ Kind(p) \in {"remove", "delete_connection"} /\ Old(p) = r
    BY <1>11 DEF Durable, NoDanglingReference
  <2> QED BY <1>4, <1>11, <2>1
<1>18. SecretIsAccounted'
  <2> SUFFICES ASSUME NEW r \in secrets
               PROVE  \/ \E d \in Connections : conn'[d].ref = r
                      \/ Pending(r)'
                      \/ \E p \in Ids : Pending(p)' /\ Old(p)' = r
    BY DEF SecretIsAccounted
  <2>1. r \in Ids /\ r # Old(o) /\ r # o
    BY <1>2 DEF TypeOK
  <2>2. \A d \in Connections : conn[d].ref = r => d # c
    BY <1>1, <2>1
  <2> QED BY <1>3, <1>4, <2>1, <2>2 DEF Durable, SecretIsAccounted
<1> QED BY <1>7, <1>8, <1>9, <1>10, <1>12, <1>13, <1>14, <1>15, <1>16, <1>17, <1>18 DEF Durable

\* The row of a connection that is deleted keeps its columns.
LEMMA RowIsGone ==
  ASSUME NEW row \in [alive : BOOLEAN, revision : Nat, ref : Ids \cup {NoRef}]
  PROVE  /\ [row EXCEPT !.alive = FALSE] \in [alive : BOOLEAN, revision : Nat, ref : Ids \cup {NoRef}]
         /\ [row EXCEPT !.alive = FALSE].ref = row.ref
OBVIOUS

\* Apply when the transaction commits.
LEMMA ApplyCommits ==
  ASSUME IInv, NEW w \in Workers, pc[w] = "apply", MayApply(cur[w]), Applying(cur[w]),
         UNCHANGED <<request, secrets>>, faults' \in Nat,
         \/ Goto(w, "inspect")
         \/ Kind(cur[w]) = "delete_connection" /\ Succeed(w)
         \/ Kind(cur[w]) # "delete_connection" /\ Finish(w)
  PROVE  IInv'
<1>1. PICK o \in Ids : o = cur[w]
  BY ActingFacts DEF Acting, Resting
<1>2. /\ TypeOK /\ Durable /\ Acting(w) /\ Knows("apply", mode[w], o)
  BY <1>1, ActingFacts DEF IInv, Acting, Resting
<1>3. /\ request[o] \in Request /\ Kind(o) \in SagaKinds /\ request[o].conn \in Connections
      /\ \A p \in Ids : Pending(p) /\ p # o => request[p].conn # request[o].conn
  BY <1>1, <1>2, ApplyFacts
<1>4. phase[o] = "secret_changed" /\ SecretChanged(o)
  BY <1>1, <1>2 DEF MayApply, Knows, SecretAt, Unapplied
<1>5. Durable'
  BY <1>1, <1>2, <1>4, ApplyKeeps, ApplyDeletes
<1>6. /\ phase' = [phase EXCEPT ![o] = phase'[o]]
      /\ phase'[o] = (IF Kind(o) = "delete_connection" THEN "completed" ELSE "catalog_changed")
      /\ conn' \in [Connections -> [alive : BOOLEAN, revision : Nat, ref : Ids \cup {NoRef}]]
      /\ \A d \in Connections : d # request[o].conn => conn'[d] = conn[d]
  <2>1. CASE Kind(o) = "delete_connection"
    <3>1. /\ conn' = [conn EXCEPT ![request[o].conn].alive = FALSE]
          /\ phase' = [phase EXCEPT ![o] = "completed"]
      BY <1>1, <2>1 DEF Applying
    <3>2. conn[request[o].conn] \in [alive : BOOLEAN, revision : Nat, ref : Ids \cup {NoRef}]
      BY <1>2, <1>3 DEF TypeOK
    <3>3. conn' = [conn EXCEPT ![request[o].conn] = [conn[request[o].conn] EXCEPT !.alive = FALSE]]
      BY <3>1
    <3>4. /\ conn' \in [Connections -> [alive : BOOLEAN, revision : Nat, ref : Ids \cup {NoRef}]]
          /\ \A d \in Connections : d # request[o].conn => conn'[d] = conn[d]
      BY <1>2, <1>3, <3>2, <3>3, RowIsGone DEF TypeOK
    <3>5. phase' = [phase EXCEPT ![o] = phase'[o]] /\ phase'[o] = "completed"
      BY <1>2, <3>1 DEF TypeOK
    <3> QED BY <2>1, <3>4, <3>5
  <2>2. CASE Kind(o) # "delete_connection"
    <3>1. /\ conn' = [conn EXCEPT ![request[o].conn].ref = IF Kind(o) \in Writes THEN o ELSE NoRef,
                                  ![request[o].conn].revision = @ + 1]
          /\ phase' = [phase EXCEPT ![o] = "catalog_changed"]
      BY <1>1, <2>2 DEF Applying
    <3> QED BY <1>2, <1>3, <2>2, <3>1 DEF TypeOK
  <2> QED BY <2>1, <2>2
<1>7. RowsAdvance
  BY <1>2, <1>4, <1>6 DEF RowsAdvance, TypeOK, Pending, Changed, RowPhases, Unapplied, Applied
<1>8. /\ Kind(o)' = Kind(o) /\ Old(o)' = Old(o) /\ SecretChanged(o)' = SecretChanged(o)
      /\ Changed(o)' /\ phase'[o] \notin Unapplied
  BY <1>6 DEF Kind, Old, SecretChanged, Changed, Applied, Unapplied
<1>9. /\ Continues(w) /\ ((\E label \in Labels : Goto(w, label)) \/ Succeed(w))
      /\ cur'[w] = o /\ Knows(pc[w], mode[w], o)'
  <2>1. CASE Goto(w, "inspect")
    <3>1. Continues(w) /\ pc'[w] = "inspect" /\ UNCHANGED <<mode, cur>> /\ "inspect" \in Labels
      BY <1>2, <2>1, Moves DEF Goto, TypeOK, Labels
    <3>2. Knows(pc[w], mode[w], o)'
      BY <1>2, <1>4, <1>6, <1>8, <3>1 DEF Knows, ModeAt, RowAt, LiveRowAt, SecretAt, ErasingAt, Resting,
         LiveLabels, RecoverLabels
    <3> QED BY <1>1, <2>1, <3>1, <3>2
  <2>2. CASE Kind(o) = "delete_connection" /\ Succeed(w)
    <3>1. ~Pending(o)'
      BY <1>6, <2>2 DEF Pending, RowPhases, Unapplied, Applied
    <3>2. pc'[w] \in {"down", "ready", "next"} /\ UNCHANGED <<mode, cur>> /\ ModeAt(pc'[w], mode[w])
      BY <1>1, <1>2, <2>2, Returned
    <3>3. ~Pending(cur[w])'
      BY <1>1, <3>1, <3>2
    <3>4. Continues(w)
      BY <1>2, <2>2, <3>3, Moves
    <3>5. ModeAt(pc[w], mode[w])'
      BY <3>2 DEF ModeAt
    <3>6. Knows(pc[w], mode[w], cur[w])'
      BY <3>2, <3>5, RestKnows
    <3> QED BY <1>1, <2>2, <3>2, <3>4, <3>6
  <2>3. CASE Kind(o) # "delete_connection" /\ Finish(w)
    <3>1. /\ Continues(w) /\ mode'[w] = mode[w] /\ cur'[w] = cur[w]
          /\ pc'[w] = IF Kind(o) = "replace" THEN "cleanup" ELSE "drop"
          /\ \E label \in Labels : Goto(w, label)
      BY <1>1, <1>2, <2>3, Finishes
    <3>2. Knows(pc[w], mode[w], o)'
      BY <1>2, <1>4, <1>6, <1>8, <2>3, <3>1 DEF Knows, ModeAt, RowAt, LiveRowAt, SecretAt, ErasingAt,
         Resting, LiveLabels, RecoverLabels, Applied
    <3> QED BY <1>1, <3>1, <3>2
  <2> QED BY <1>1, <2>1, <2>2, <2>3
<1>10. TypeOK'
  <2>1. phase' \in [Ids -> Phases]
    <3>1. phase'[o] \in Phases
      BY <1>6 DEF Phases, RowPhases, Applied
    <3> QED BY <1>2, <1>6, <3>1 DEF TypeOK
  <2>2. /\ pc' \in [Workers -> Labels] /\ mode' \in [Workers -> {"live", "boot", "recover"}]
        /\ cur' \in [Workers -> Ids \cup {NoRef}] /\ todo' \in [Workers -> SUBSET Ids]
        /\ listed' \in [Workers -> [Ids -> Phases]]
        /\ result' \in [Workers -> {"none", "ok", "error"}]
    BY <1>2, <1>9, Moves
  <2> QED BY <1>2, <1>6, <2>1, <2>2 DEF TypeOK
<1>11. ASSUME NEW v \in Workers, v # w PROVE Knows(pc[v], mode[v], cur[v])'
  <2>1. pc'[v] = pc[v] /\ mode'[v] = mode[v] /\ cur'[v] = cur[v]
    BY <1>9, <1>11 DEF Continues
  <2>2. \A p \in Ids : Pending(p) => request[p].conn \in Connections
    BY <1>2 DEF Durable, WellFormed, Used, Pending, RowPhases, Unapplied, Applied, Request
  <2>3. \A p \in Ids : p # o => phase'[p] = phase[p] /\ (Pending(p) => Target(p).ref' = Target(p).ref)
    BY <1>2, <1>3, <1>6, <2>2 DEF TypeOK, Target
  <2> QED BY <1>1, <1>2, <1>4, <1>7, <1>8, <1>11, <2>1, <2>3, OthersKnow
<1>12. Known'
  BY <1>1, <1>9, <1>11 DEF Known
<1> QED BY <1>2, <1>5, <1>7, <1>9, <1>10, <1>12, VolatileFrame DEF IInv

\* The transaction that changes the connection and its row.
LEMMA ApplyStep ==
  ASSUME IInv, NEW w \in Workers, Apply(w)
  PROVE  IInv'
<1> DEFINE o == cur[w]
<1>1. /\ TypeOK /\ Durable /\ pc[w] = "apply" /\ Acting(w) /\ Knows("apply", mode[w], o) /\ o \in Ids
  BY ActingFacts DEF IInv, Apply, Acting, Resting
<1>2. UNCHANGED <<request, secrets>>
  BY DEF Apply
<1>3. ASSUME MayApply(o), NEW done \in BOOLEAN, NEW ok \in BOOLEAN, Call(done, ok),
             IF done THEN Applying(o) ELSE UNCHANGED <<conn, phase>>,
             CASE ~ok -> Goto(w, "inspect")
               [] ok /\ Kind(o) = "delete_connection" -> Succeed(w)
               [] OTHER -> Finish(w)
      PROVE  (done /\ IInv') \/ (UNCHANGED <<conn, phase>> /\ Goto(w, "inspect") /\ faults' \in Nat)
  <2>1. (ok => done) /\ faults' \in Nat
    BY <1>1, <1>3 DEF Call, TypeOK
  <2>2. \/ Goto(w, "inspect")
        \/ Kind(o) = "delete_connection" /\ Succeed(w)
        \/ Kind(o) # "delete_connection" /\ Finish(w)
    BY <1>3
  <2>3. CASE done
    BY <1>1, <1>2, <1>3, <2>1, <2>2, <2>3, ApplyCommits
  <2>4. CASE ~done
    BY <1>3, <2>1, <2>4
  <2> QED BY <2>3, <2>4
<1>4. CASE UNCHANGED <<conn, phase>> /\ Goto(w, "inspect") /\ faults' \in Nat
  <2>1. pc'[w] = "inspect" /\ "inspect" \in Labels
    BY <1>1, <1>4 DEF Goto, TypeOK, Labels
  <2>2. Continues(w) /\ TypeOK'
    BY <1>1, <1>2, <1>4, <2>1, Moves DEF TypeOK
  <2>3. Knows(pc'[w], mode[w], cur[w])
    BY <1>1, <2>1 DEF Knows, ModeAt, RowAt, LiveRowAt, SecretAt, ErasingAt, Resting,
       LiveLabels, RecoverLabels
  <2> QED BY <1>2, <1>4, <2>2, <2>3, ReadStep
<1>5. CASE phase[o] \in Applied /\ Finish(w) /\ UNCHANGED <<conn, phase, faults>>
  <2>1. Continues(w) /\ TypeOK'
    BY <1>1, <1>2, <1>5, Finishes, Moves DEF TypeOK
  <2>2. Knows(pc'[w], mode[w], cur[w])
    BY <1>1, <1>5, Finishes DEF Knows, ModeAt, RowAt, LiveRowAt, SecretAt, ErasingAt, Resting,
       LiveLabels, RecoverLabels, Changed, Applied, Unapplied
  <2> QED BY <1>2, <1>5, <2>1, <2>2, ReadStep
<1>6. Fault \/ UNCHANGED faults => faults' \in Nat
  BY <1>1 DEF Fault, TypeOK
<1> QED BY <1>3, <1>4, <1>5, <1>6 DEF Apply

\* A row may go when the secrets it answers for are settled.
LEMMA RowGone ==
  ASSUME TypeOK, Durable, NEW o \in Ids, Pending(o), UNCHANGED <<conn, request, secrets>>,
         phase' = [phase EXCEPT ![o] = IF phase[o] \in Applied THEN "completed" ELSE "abandoned"],
         phase[o] \in Applied => Old(o) \notin secrets,
         phase[o] \in Unapplied /\ Kind(o) \in Writes => o \notin secrets,
         phase[o] \in Unapplied /\ Kind(o) \in Deletes /\ Target(o).ref = Old(o) => Old(o) \in secrets
  PROVE  Durable' /\ RowsAdvance /\ ~Pending(o)'
<1> DEFINE applied == phase[o] \in Applied
<1>1. /\ phase'[o] = (IF applied THEN "completed" ELSE "abandoned")
      /\ \A p \in Ids : p # o => phase'[p] = phase[p]
      /\ applied <=> phase[o] \notin Unapplied
  BY DEF TypeOK, Pending, RowPhases, Applied, Unapplied
<1>2. /\ \A p \in Ids : Used(p)' = Used(p) /\ Changed(p)' = Changed(p)
      /\ \A p \in Ids : Pending(p)' <=> Pending(p) /\ p # o
      /\ \A p \in Ids : phase'[p] \in Applied <=> phase[p] \in Applied /\ p # o
      /\ \A p \in Ids : phase'[p] \in Unapplied <=> phase[p] \in Unapplied /\ p # o
      /\ \A p \in Ids : phase'[p] = "completed" <=> phase[p] = "completed" \/ (p = o /\ applied)
      /\ \A p \in Ids : phase'[p] = "request" <=> phase[p] = "request"
      /\ \A p \in Ids : phase'[p] \in {"unused", "request"} <=> phase[p] \in {"unused", "request"}
  BY <1>1 DEF Used, Changed, Pending, RowPhases, Applied, Unapplied
<1>3. \A p \in Ids : Kind(p)' = Kind(p) /\ Old(p)' = Old(p) /\ Target(p)' = Target(p)
  BY DEF Kind, Old, Target
<1>4. RowsAdvance /\ ~Pending(o)'
  BY <1>2 DEF RowsAdvance
<1>5. \A p \in Ids : Used(p) => request[p].conn \in Connections /\ Old(p) \in Ids \cup {NoRef}
  BY DEF Durable, WellFormed, Request, Old
<1>6. WellFormed' /\ RefIsApplied' /\ AppliedIsShown' /\ OldIsCurrent' /\ SnapshotIsEarlier'
      /\ OneOperationPerConnection'
  <2>1. WellFormed' /\ AppliedIsShown'
    BY <1>2, <1>3 DEF Durable, WellFormed, AppliedIsShown
  <2>2. RefIsApplied'
    BY <1>2 DEF TypeOK, Durable, RefIsApplied, Kind
  <2>3. OldIsCurrent' /\ SnapshotIsEarlier' /\ OneOperationPerConnection'
    BY <1>2, <1>3 DEF Durable, OldIsCurrent, SnapshotIsEarlier, OneOperationPerConnection
  <2> QED BY <2>1, <2>2, <2>3
<1>7. OldIsEarlier'
  BY <1>2, <1>3, <1>5 DEF Durable, OldIsEarlier
<1>8. OldIsRetired'
  BY <1>2, <1>3 DEF Durable, OldIsRetired, References, Target, Kind
<1>9. SecretIsWritten'
  <2>1. o \in secrets => applied
    BY <1>1, SMT DEF Durable, SecretIsWritten
  <2> QED BY <1>1, <1>3, <2>1 DEF TypeOK, Durable, SecretIsWritten, RowPhases
<1>10. NoDanglingReference'
  <2> SUFFICES ASSUME NEW d \in Connections, NEW r \in Ids, References(d, r), r \notin secrets
               PROVE  \E p \in Ids : (/\ phase[p] \in Unapplied /\ request[p].conn = d
                                      /\ Kind(p) \in {"remove", "delete_connection"} /\ Old(p) = r)'
    BY DEF NoDanglingReference, References
  <2>1. PICK p \in Ids : /\ phase[p] \in Unapplied /\ request[p].conn = d
                         /\ Kind(p) \in {"remove", "delete_connection"} /\ Old(p) = r
    BY DEF Durable, NoDanglingReference
  <2>2. p # o
    BY <2>1 DEF References, Target, Deletes
  <2> QED BY <1>2, <1>3, <2>1, <2>2
<1>11. SecretIsAccounted'
  <2> SUFFICES ASSUME NEW r \in secrets
               PROVE  \/ \E d \in Connections : conn[d].ref = r
                      \/ Pending(r)'
                      \/ \E p \in Ids : Pending(p)' /\ Old(p)' = r
    BY DEF SecretIsAccounted
  <2>1. r \in Ids /\ r # NoRef /\ Kind(r) \in Writes
    BY NoRefAssumption DEF TypeOK, Durable, SecretIsWritten
  <2>2. Target(o).alive /\ request[o].conn \in Connections
    BY <1>5 DEF Durable, WellFormed, Used, Pending, RowPhases, Unapplied, Applied
  <2>3. CASE r = o
    <3>1. applied /\ Target(o).ref = o
      BY <1>1, <2>1, <2>3 DEF Durable, AppliedIsShown
    <3> QED BY <2>2, <2>3, <3>1 DEF Target
  <2>4. CASE r = Old(o)
    <3>1. ~applied
      BY <2>4
    <3>2. Target(o).ref = Old(o)
      BY <1>1, <2>1, <2>4, <3>1 DEF Durable, OldIsCurrent
    <3> QED BY <2>2, <2>4, <3>2 DEF Target
  <2>5. CASE r # o /\ r # Old(o)
    BY <1>2, <1>3, <2>1, <2>5 DEF Durable, SecretIsAccounted
  <2> QED BY <2>3, <2>4, <2>5
<1> QED BY <1>4, <1>6, <1>7, <1>8, <1>9, <1>10, <1>11 DEF Durable

\* A worker that deletes the row of its operation, and returns.
LEMMA DeleteRowStep ==
  ASSUME IInv, NEW w \in Workers, Acting(w), Succeed(w) \/ Fail(w), pc'[w] = "next" => ~Pending(cur[w])',
         UNCHANGED <<conn, request, secrets>>, faults' \in Nat,
         \/ UNCHANGED phase
         \/ /\ Pending(cur[w])
            /\ phase' = [phase EXCEPT ![cur[w]] = IF phase[cur[w]] \in Applied THEN "completed" ELSE "abandoned"],
         phase[cur[w]] \in Applied => Old(cur[w]) \notin secrets,
         phase[cur[w]] \in Unapplied /\ Kind(cur[w]) \in Writes => cur[w] \notin secrets,
         phase[cur[w]] \in Unapplied /\ Kind(cur[w]) \in Deletes /\ Target(cur[w]).ref = Old(cur[w])
            => Old(cur[w]) \in secrets
  PROVE  IInv'
<1> DEFINE o == cur[w]
<1>1. TypeOK /\ Durable /\ Knows(pc[w], mode[w], o) /\ o \in Ids
  BY ActingFacts DEF IInv
<1>2. pc'[w] \in {"down", "ready", "next"} /\ UNCHANGED <<mode, cur>> /\ ModeAt(pc'[w], mode[w])
  BY <1>1, Returned
<1>3. Continues(w)
  BY <1>1, Moves
<1>4. Durable' /\ RowsAdvance
  <2>1. CASE UNCHANGED phase
    BY <1>1, <2>1, DurableFrame DEF RowsAdvance, Pending, Changed
  <2>2. CASE ~UNCHANGED phase
    BY <1>1, <2>2, RowGone
  <2> QED BY <2>1, <2>2
<1>5. phase' \in [Ids -> Phases]
  BY <1>1 DEF TypeOK, Phases
<1>6. TypeOK'
  <2>1. /\ pc' \in [Workers -> Labels] /\ mode' \in [Workers -> {"live", "boot", "recover"}]
        /\ cur' \in [Workers -> Ids \cup {NoRef}] /\ todo' \in [Workers -> SUBSET Ids]
        /\ listed' \in [Workers -> [Ids -> Phases]]
        /\ result' \in [Workers -> {"none", "ok", "error"}]
    BY <1>1, Moves
  <2> QED BY <1>1, <1>5, <2>1 DEF TypeOK
<1>7. Knows(pc[w], mode[w], cur[w])'
  BY <1>2, RestKnows DEF ModeAt
<1>8. ASSUME NEW v \in Workers, v # w PROVE Knows(pc[v], mode[v], cur[v])'
  <2>1. pc'[v] = pc[v] /\ mode'[v] = mode[v] /\ cur'[v] = cur[v]
    BY <1>2, <1>3, <1>8 DEF Continues
  <2>2. \A p \in Ids : p # o => phase'[p] = phase[p] /\ Target(p).ref' = Target(p).ref
    BY <1>1 DEF TypeOK, Target
  <2>3. /\ phase'[o] \in Unapplied => phase[o] \in Unapplied
        /\ phase'[o] \in Applied => phase[o] \in Applied
    BY <1>1 DEF TypeOK, Applied, Unapplied
  <2> QED BY <1>4, <1>8, <2>1, <2>2, <2>3, OthersKnow
<1>9. Known'
  BY <1>7, <1>8 DEF Known
<1> QED BY <1>1, <1>3, <1>4, <1>6, <1>9, VolatileFrame DEF IInv

\* Deleting the row of an operation that is finished, or never changed a secret.
LEMMA DropStep ==
  ASSUME IInv, NEW w \in Workers, Drop(w)
  PROVE  IInv'
<1> DEFINE o == cur[w]
<1>1. /\ TypeOK /\ Durable /\ pc[w] = "drop" /\ Acting(w) /\ Knows("drop", mode[w], o) /\ o \in Ids
  BY ActingFacts DEF IInv, Drop, Acting, Resting
<1>2. PICK done \in BOOLEAN, ok \in BOOLEAN : /\ Call(done, ok) /\ DeleteRow(o, done)
                                               /\ IF ok THEN Succeed(w) ELSE Fail(w)
  BY DEF Drop
<1>3. UNCHANGED <<conn, request, secrets>> /\ faults' \in Nat /\ (ok => done)
  BY <1>1, <1>2 DEF Drop, Call, TypeOK
<1>4. /\ \/ UNCHANGED phase
         \/ /\ Pending(o)
            /\ phase' = [phase EXCEPT ![o] = IF phase[o] \in Applied THEN "completed" ELSE "abandoned"]
      /\ done => phase'[o] \notin RowPhases
  <2>1. CASE done /\ phase[o] \in Applied
    BY <1>1, <1>2, <2>1 DEF DeleteRow, Pending, RowPhases, Applied, Unapplied, TypeOK
  <2>2. CASE done /\ phase[o] \in Unapplied
    <3>1. phase[o] \notin Applied
      BY <2>2 DEF Applied, Unapplied
    <3>2. phase' = [phase EXCEPT ![o] = "abandoned"]
      BY <1>2, <2>2, <3>1 DEF DeleteRow
    <3> QED BY <1>1, <2>2, <3>1, <3>2 DEF Pending, RowPhases, Applied, Unapplied, TypeOK
  <2>3. CASE ~done \/ ~Pending(o)
    <3>1. phase' = [phase EXCEPT ![o] = phase[o]]
      BY <1>2, <2>3 DEF DeleteRow, Pending, RowPhases
    <3>2. UNCHANGED phase
      BY <1>1, <3>1 DEF TypeOK
    <3> QED BY <2>3, <3>2 DEF Pending
  <2> QED BY <2>1, <2>2, <2>3 DEF Pending, RowPhases
<1>5. pc'[w] = "next" => ~Pending(cur[w])'
  <2>1. UNCHANGED cur /\ (Fail(w) => pc'[w] # "next")
    BY <1>1, <1>2, Returned
  <2> QED BY <1>2, <1>3, <1>4, <2>1 DEF Pending
<1>6. /\ phase[o] \in Applied => Old(o) \notin secrets
      /\ phase[o] \in Unapplied /\ Kind(o) \in Writes => o \notin secrets
      /\ phase[o] \in Unapplied /\ Kind(o) \in Deletes => Old(o) \in secrets
  <2>1. Kind(o) \in SagaKinds
    BY <1>1, ActingFacts DEF Knows, RowAt, Resting, Kinds
  <2>2. phase[o] \in Unapplied => ~SecretChanged(o)
    BY <1>1 DEF Knows, SecretAt
  <2>3. phase[o] \in Applied => Old(o) \notin secrets
    <3>1. phase[o] \in Applied /\ Kind(o) = "save" => Old(o) \notin secrets
      BY <1>1, NoRefAssumption DEF TypeOK, Durable, WellFormed, Used, Applied
    <3> QED BY <1>1, <2>1, <3>1 DEF Knows, SecretAt, Durable, AppliedIsShown, SagaKinds
  <2> QED BY <2>2, <2>3 DEF SecretChanged, Writes, Deletes
<1>7. Succeed(w) \/ Fail(w)
  BY <1>2
<1> QED BY <1>1, <1>3, <1>4, <1>5, <1>6, <1>7, DeleteRowStep

\* Deleting the row of an operation that has been compensated.
LEMMA AbandonStep ==
  ASSUME IInv, NEW w \in Workers, Abandon(w)
  PROVE  IInv'
<1> DEFINE o == cur[w]
<1>1. /\ TypeOK /\ Durable /\ pc[w] = "abandon" /\ Acting(w) /\ Knows("abandon", mode[w], o) /\ o \in Ids
  BY ActingFacts DEF IInv, Abandon, Acting, Resting
<1>2. PICK done \in BOOLEAN, ok \in BOOLEAN : Call(done, ok) /\ DeleteRow(o, done)
  BY DEF Abandon
<1>3. UNCHANGED <<conn, request, secrets>> /\ faults' \in Nat /\ Fail(w)
  BY <1>1, <1>2 DEF Abandon, Call, TypeOK
<1>4. phase[o] \in Unapplied /\ phase[o] \notin Applied /\ Pending(o)
  BY <1>1 DEF Knows, RowAt, Pending, RowPhases, Applied, Unapplied
<1>5. phase' = [phase EXCEPT ![o] = "abandoned"] \/ UNCHANGED phase
  BY <1>1, <1>2, <1>4 DEF DeleteRow, TypeOK
<1>6. pc'[w] # "next"
  BY <1>1, <1>3, Returned
<1>7. /\ Kind(o) \in Writes => o \notin secrets
      /\ Kind(o) \in Deletes /\ Target(o).ref = Old(o) => Old(o) \in secrets
  BY <1>1 DEF Knows, SecretAt
<1> QED BY <1>1, <1>3, <1>4, <1>5, <1>6, <1>7, DeleteRowStep

-----------------------------------------------------------------------------
(* Requests that are not in the catalog yet.                               *)

\* A request may be forgotten: nothing refers to it.
LEMMA RequestGone ==
  ASSUME TypeOK, Durable, NEW o \in Ids, phase[o] = "request", UNCHANGED <<conn, request, secrets>>,
         phase' = [phase EXCEPT ![o] = "abandoned"]
  PROVE  Durable' /\ RowsAdvance
<1>1. phase'[o] = "abandoned" /\ \A p \in Ids : p # o => phase'[p] = phase[p]
  BY DEF TypeOK
<1>2. /\ \A p \in Ids : Used(p)' = Used(p) /\ Changed(p)' = Changed(p) /\ Pending(p)' = Pending(p)
      /\ \A p \in Ids : phase'[p] \in Applied <=> phase[p] \in Applied
      /\ \A p \in Ids : phase'[p] \in Unapplied <=> phase[p] \in Unapplied
      /\ \A p \in Ids : phase'[p] = "completed" <=> phase[p] = "completed"
      /\ \A p \in Ids : phase'[p] = "request" => phase[p] = "request"
      /\ \A p \in Ids : phase'[p] \in {"unused", "request"} => phase[p] \in {"unused", "request"}
  BY <1>1 DEF Used, Changed, Pending, RowPhases, Applied, Unapplied
<1>3. \A p \in Ids : Kind(p)' = Kind(p) /\ Old(p)' = Old(p) /\ Target(p)' = Target(p)
  BY DEF Kind, Old, Target
<1>4. RowsAdvance
  BY <1>2 DEF RowsAdvance
<1>5. \A p \in Ids : Used(p) => Old(p) \in Ids \cup {NoRef}
  BY DEF Durable, WellFormed, Request, Old
<1>6. WellFormed' /\ AppliedIsShown' /\ OldIsCurrent' /\ SnapshotIsEarlier' /\ OneOperationPerConnection'
  BY <1>2, <1>3 DEF Durable, WellFormed, AppliedIsShown, OldIsCurrent, SnapshotIsEarlier,
     OneOperationPerConnection
<1>7. OldIsEarlier'
  BY <1>2, <1>3, <1>5 DEF Durable, OldIsEarlier
<1>8. RefIsApplied'
  BY <1>2 DEF TypeOK, Durable, RefIsApplied, Kind
<1>9. OldIsRetired'
  BY <1>2, <1>3 DEF Durable, OldIsRetired, References, Target, Kind
<1>10. SecretIsWritten'
  BY <1>2, <1>3 DEF TypeOK, Durable, SecretIsWritten, Pending
<1>11. NoDanglingReference' /\ SecretIsAccounted'
  BY <1>2, <1>3 DEF TypeOK, Durable, NoDanglingReference, SecretIsAccounted, References
<1> QED BY <1>4, <1>6, <1>7, <1>8, <1>9, <1>10, <1>11 DEF Durable

\* The step of a live worker whose request becomes, or does not become, a row.
LEMMA RequestStep ==
  ASSUME IInv, NEW w \in Workers, Acting(w), mode[w] = "live", Continues(w), TypeOK', Durable', RowsAdvance,
         UNCHANGED <<request, secrets>>, Knows(pc[w], mode[w], cur[w])',
         \A p \in Ids : p # cur[w] => phase'[p] = phase[p],
         \A c \in Connections : conn'[c].ref = conn[c].ref
  PROVE  IInv'
<1>1. ASSUME NEW v \in Workers, v # w PROVE Knows(pc[v], mode[v], cur[v])'
  <2>1. pc'[v] = pc[v] /\ mode'[v] = mode[v] /\ cur'[v] = cur[v]
    BY <1>1 DEF Continues
  <2>2. \A p \in Ids : Pending(p) => request[p].conn \in Connections
    BY DEF IInv, Durable, WellFormed, Used, Pending, RowPhases, Unapplied, Applied, Request
  <2>3. \A p \in Ids : Pending(p) => Target(p).ref' = Target(p).ref
    BY <2>2 DEF Target
  <2> QED BY <1>1, <2>1, <2>3, OthersKnow
<1>2. Known'
  BY <1>1 DEF Known
<1> QED BY <1>2, VolatileFrame DEF IInv

\* A row is created for a connection that has none.
LEMMA CreateStep ==
  ASSUME IInv, NEW w \in Workers, Create(w)
  PROVE  IInv'
<1>1. PICK o \in Ids : o = cur[w]
  BY ActingFacts DEF Create, Acting, Resting
<1> DEFINE c == request[o].conn
<1>2. /\ TypeOK /\ Durable /\ pc[w] = "create" /\ Acting(w) /\ Knows("create", mode[w], o) /\ Kind(o) \in Kinds
  BY <1>1, ActingFacts DEF IInv, Create, Acting, Resting
<1>3. phase[o] = "request" /\ Kind(o) # "plain_delete" /\ mode[w] = "live" /\ Used(o) /\ ~Changed(o)
  BY <1>2 DEF Knows, RowAt, ModeAt, LiveLabels, Used, Changed, Applied
<1>4. UNCHANGED <<conn, request, secrets>>
  BY DEF Create
<1>5. ASSUME phase' = [phase EXCEPT ![o] = "abandoned"], Fail(w), faults' \in Nat
      PROVE  IInv'
  <2>1. Durable' /\ RowsAdvance
    BY <1>2, <1>3, <1>4, <1>5, RequestGone
  <2>2. pc'[w] \in {"down", "ready", "next"} /\ UNCHANGED <<mode, cur>> /\ ModeAt(pc'[w], mode[w])
        /\ pc'[w] # "next"
    BY <1>1, <1>2, <1>5, Returned
  <2>3. Knows(pc[w], mode[w], cur[w])'
    BY <2>2, RestKnows DEF ModeAt
  <2>4. Continues(w)
    BY <1>2, <1>5, <2>2, Moves
  <2>5. TypeOK'
    BY <1>2, <1>4, <1>5, Moves DEF TypeOK, Phases
  <2>6. \A p \in Ids : p # o => phase'[p] = phase[p]
    BY <1>2, <1>5 DEF TypeOK
  <2> QED BY <1>1, <1>2, <1>3, <1>4, <2>1, <2>3, <2>4, <2>5, <2>6, RequestStep
<1>6. ASSUME MayCreate(o), phase' = [phase EXCEPT ![o] = "prepared"], faults' \in Nat,
             Goto(w, IF Kind(o) \in Writes THEN "set" ELSE "read") \/ Fail(w)
      PROVE  IInv'
  <2>1. phase'[o] = "prepared" /\ \A p \in Ids : p # o => phase'[p] = phase[p]
    BY <1>2, <1>6 DEF TypeOK
  <2>2. /\ \A p \in Ids : Used(p)' = Used(p) /\ Changed(p)' = Changed(p)
        /\ \A p \in Ids : Pending(p)' <=> Pending(p) \/ p = o
        /\ \A p \in Ids : phase'[p] \in Applied <=> phase[p] \in Applied
        /\ \A p \in Ids : phase'[p] \in Unapplied <=> phase[p] \in Unapplied \/ p = o
        /\ \A p \in Ids : phase'[p] = "completed" <=> phase[p] = "completed"
        /\ \A p \in Ids : phase'[p] = "request" => phase[p] = "request"
        /\ \A p \in Ids : phase'[p] \in {"unused", "request"} => phase[p] \in {"unused", "request"}
    BY <1>3, <2>1 DEF Used, Changed, Pending, RowPhases, Applied, Unapplied
  <2>3. \A p \in Ids : Kind(p)' = Kind(p) /\ Old(p)' = Old(p) /\ Target(p)' = Target(p)
    BY <1>4 DEF Kind, Old, Target
  <2>4. RowsAdvance
    BY <1>3, <2>2 DEF RowsAdvance
  <2>5. /\ \A p \in Ids : Used(p) => request[p].conn \in Connections /\ Old(p) \in Ids \cup {NoRef}
        /\ conn[c].alive /\ \A p \in Ids : Pending(p) => request[p].conn # c
    BY <1>2, <1>6 DEF Durable, WellFormed, Request, Old, MayCreate, PendingOn, Target
  <2>6. Old(o) # NoRef => /\ phase[Old(o)] = "completed" /\ Old(o) # o
                          /\ conn[c].ref = Old(o) \/ Old(o) \notin secrets
    <3> HAVE Old(o) # NoRef
    <3>1. Changed(Old(o)) /\ request[Old(o)].conn = c /\ Old(o) \in Ids /\ Old(o) # o
      BY <1>2, <1>3, <2>5 DEF Durable, OldIsEarlier
    <3>2. phase[Old(o)] = "completed"
      BY <2>5, <3>1 DEF Changed, Pending, RowPhases
    <3>3. ~Pending(Old(o)) /\ \A p \in Ids : ~(Pending(p) /\ Old(p) = Old(o))
      <4>1. \A p \in Ids : Pending(p) => Used(p)
        BY DEF Pending, Used, RowPhases, Unapplied, Applied
      <4> QED BY <1>2, <2>5, <3>1, <4>1 DEF Durable, OldIsEarlier
    <3>4. ASSUME Old(o) \in secrets PROVE conn[c].ref = Old(o)
      <4>1. PICK d \in Connections : conn[d].ref = Old(o)
        BY <1>2, <3>3, <3>4 DEF Durable, SecretIsAccounted
      <4>2. d = c
        BY <1>2, <3>1, <4>1, NoRefAssumption DEF Durable, RefIsApplied
      <4> QED BY <4>1, <4>2
    <3> QED BY <3>1, <3>2, <3>4
  <2>7. Durable'
    <3>1. WellFormed'
      BY <1>2, <1>3, <1>4, <2>2, <2>3, <2>5 DEF Durable, WellFormed, Target
    <3>2. OldIsEarlier'
      BY <1>2, <1>4, <2>2, <2>3, <2>5, <2>6 DEF Durable, OldIsEarlier
    <3>3. RefIsApplied' /\ OldIsRetired'
      BY <1>2, <1>4, <2>2, <2>3 DEF TypeOK, Durable, RefIsApplied, OldIsRetired, References, Target, Kind
    <3>4. AppliedIsShown' /\ SnapshotIsEarlier'
      BY <1>2, <1>4, <2>2, <2>3 DEF Durable, AppliedIsShown, SnapshotIsEarlier
    <3>5. OldIsCurrent'
      BY <1>2, <1>4, <2>2, <2>3, <2>6 DEF Durable, OldIsCurrent, Target
    <3>6. SecretIsWritten'
      BY <1>2, <1>4, <2>2, <2>3 DEF TypeOK, Durable, SecretIsWritten, Pending
    <3>7. OneOperationPerConnection'
      BY <1>2, <1>4, <2>2, <2>5 DEF Durable, OneOperationPerConnection
    <3>8. NoDanglingReference' /\ SecretIsAccounted'
      BY <1>2, <1>4, <2>2, <2>3 DEF TypeOK, Durable, NoDanglingReference, SecretIsAccounted, References
    <3> QED BY <3>1, <3>2, <3>3, <3>4, <3>5, <3>6, <3>7, <3>8 DEF Durable
  <2>8. Continues(w) /\ cur'[w] = o /\ Knows(pc[w], mode[w], o)'
    <3>1. CASE Goto(w, "set") /\ Kind(o) \in Writes
      <4>1. Continues(w) /\ pc'[w] = "set" /\ UNCHANGED <<mode, cur>>
        BY <1>2, <3>1, Moves DEF Goto, TypeOK, Labels
      <4>2. Knows(pc[w], mode[w], o)'
        BY <1>3, <2>1, <2>3, <3>1, <4>1 DEF Knows, ModeAt, RowAt, LiveRowAt, SecretAt, ErasingAt, Resting,
           LiveLabels, RecoverLabels, Writes
      <4> QED BY <1>1, <4>1, <4>2
    <3>2. CASE Goto(w, "read") /\ Kind(o) \notin Writes
      <4>1. Continues(w) /\ pc'[w] = "read" /\ UNCHANGED <<mode, cur>>
        BY <1>2, <3>2, Moves DEF Goto, TypeOK, Labels
      <4>2. Kind(o) \in Deletes /\ Old(o) # NoRef
        BY <1>2, <1>3, <3>2 DEF Kinds, SagaKinds, Writes, Deletes, Durable, WellFormed
      <4>3. Target(o).ref = Old(o) => Old(o) \in secrets
        <5>1. Old(o) \in Ids
          BY <1>3, <2>5, <4>2
        <5>2. ASSUME Target(o).ref = Old(o), Old(o) \notin secrets PROVE FALSE
          <6>1. PICK p \in Ids : phase[p] \in Unapplied /\ request[p].conn = c
            BY <1>2, <1>3, <2>5, <5>1, <5>2 DEF Durable, NoDanglingReference, References, Target
          <6> QED BY <2>5, <6>1 DEF Pending, RowPhases
        <5> QED BY <5>2
      <4>4. Knows(pc[w], mode[w], o)'
        BY <1>3, <1>4, <2>1, <2>3, <3>2, <4>1, <4>2, <4>3 DEF Knows, ModeAt, RowAt, LiveRowAt, SecretAt, ErasingAt,
           Resting, LiveLabels, RecoverLabels, Deletes
      <4> QED BY <1>1, <4>1, <4>4
    <3>3. CASE Fail(w)
      <4>1. pc'[w] \in {"down", "ready", "next"} /\ UNCHANGED <<mode, cur>> /\ ModeAt(pc'[w], mode[w])
            /\ pc'[w] # "next"
        BY <1>1, <1>2, <3>3, Returned
      <4>2. Knows(pc[w], mode[w], cur[w])'
        BY <4>1, RestKnows DEF ModeAt
      <4>3. Continues(w)
        BY <1>2, <3>3, <4>1, Moves
      <4> QED BY <1>1, <4>1, <4>2, <4>3
    <3> QED BY <1>6, <3>1, <3>2, <3>3
  <2>9. TypeOK'
    <3>1. \/ \E label \in Labels : Goto(w, label)
          \/ Fail(w)
      BY <1>6 DEF Labels
    <3> QED BY <1>2, <1>4, <1>6, <3>1, Moves DEF TypeOK, Phases, RowPhases, Unapplied
  <2> QED BY <1>1, <1>2, <1>3, <1>4, <2>1, <2>4, <2>7, <2>8, <2>9, RequestStep
<1>7. CASE ~MayCreate(o)
  BY <1>1, <1>2, <1>5, <1>7 DEF Create, TypeOK
<1>8. CASE MayCreate(o)
  <2>1. PICK done \in BOOLEAN, ok \in BOOLEAN :
               /\ Call(done, ok)
               /\ phase' = [phase EXCEPT ![o] = IF done THEN "prepared" ELSE "abandoned"]
               /\ IF ok THEN Goto(w, IF Kind(o) \in Writes THEN "set" ELSE "read")
                        ELSE Fail(w)
    BY <1>1, <1>8 DEF Create
  <2>2. (ok => done) /\ faults' \in Nat
    BY <1>2, <2>1 DEF Call, TypeOK
  <2>3. CASE done
    BY <1>6, <1>8, <2>1, <2>2, <2>3
  <2>4. CASE ~done
    BY <1>5, <2>1, <2>2, <2>4
  <2> QED BY <2>3, <2>4
<1> QED BY <1>7, <1>8

\* Deleting a connection without reference and without pending operation.
LEMMA PlainDeletes ==
  ASSUME TypeOK, Durable, NEW o \in Ids, phase[o] = "request", Kind(o) = "plain_delete", MayPlainDelete(o),
         conn' = [conn EXCEPT ![request[o].conn].alive = FALSE], phase' = [phase EXCEPT ![o] = "completed"],
         UNCHANGED <<request, secrets>>
  PROVE  Durable' /\ RowsAdvance
<1> DEFINE c == request[o].conn
<1>1. Used(o) /\ ~Changed(o) /\ ~Pending(o) /\ request[o] \in Request /\ c \in Connections
      /\ Old(o) = NoRef /\ o \notin secrets
  BY DEF Used, Changed, Pending, RowPhases, Applied, Unapplied, Durable, WellFormed, Request,
     SecretIsWritten, Writes
<1>3. /\ conn'[c].ref = conn[c].ref /\ ~conn'[c].alive /\ conn'[c].revision = conn[c].revision
      /\ \A d \in Connections : d # c => conn'[d] = conn[d]
      /\ phase'[o] = "completed" /\ \A p \in Ids : p # o => phase'[p] = phase[p]
  BY <1>1 DEF TypeOK
<1>4. /\ \A p \in Ids : Used(p)' = Used(p) /\ (Changed(p)' <=> Changed(p) \/ p = o)
      /\ \A p \in Ids : Pending(p)' <=> Pending(p)
      /\ \A p \in Ids : Kind(p)' = Kind(p) /\ Old(p)' = Old(p)
      /\ \A p \in Ids : phase'[p] \in Applied <=> phase[p] \in Applied
      /\ \A p \in Ids : phase'[p] \in Unapplied <=> phase[p] \in Unapplied
      /\ \A p \in Ids : phase'[p] = "completed" <=> phase[p] = "completed" \/ p = o
      /\ \A p \in Ids : phase'[p] = "request" => phase[p] = "request"
      /\ \A p \in Ids : phase'[p] \in {"unused", "request"} => phase[p] \in {"unused", "request"}
  BY <1>1, <1>3 DEF Used, Pending, Changed, RowPhases, Applied, Unapplied, Kind, Old
<1>5. \A p \in Ids : Used(p) => request[p].conn \in Connections /\ Old(p) \in Ids \cup {NoRef} /\ Old(p) # o
  BY <1>1, UnappliedIsNew DEF Durable, WellFormed, Request, Old
<1>6. \A p \in Ids : Pending(p) => Target(p)' = Target(p) /\ p # o /\ Used(p)
  <2>1. \A p \in Ids : Pending(p) => Used(p)
    BY DEF Pending, Used, RowPhases, Unapplied, Applied
  <2>2. \A p \in Ids : Pending(p) => request[p].conn # c
    BY DEF MayPlainDelete, PendingOn
  <2> QED BY <1>1, <1>3, <1>5, <2>1, <2>2 DEF Target
<1>7. RowsAdvance
  BY <1>4 DEF RowsAdvance
<1>8. WellFormed'
  BY <1>4, <1>6 DEF Durable, WellFormed
<1>9. OldIsEarlier'
  BY <1>1, <1>4, <1>5 DEF Durable, OldIsEarlier
<1>10. RefIsApplied'
  <2>1. \A d \in Connections : conn'[d].ref = conn[d].ref /\ conn[d].ref \in Ids \cup {NoRef}
    BY <1>3 DEF TypeOK
  <2> QED BY <1>4, <2>1 DEF Durable, RefIsApplied, Kind
<1>11. AppliedIsShown' /\ OldIsCurrent'
  <2>1. \A p \in Ids : phase[p] \in Applied \cup Unapplied => Pending(p)
    BY DEF Pending, RowPhases
  <2> QED BY <1>4, <1>6, <2>1 DEF Durable, AppliedIsShown, OldIsCurrent
<1>12. \A d \in Connections, r \in Ids : References(d, r)' => References(d, r)
  BY <1>3 DEF References
<1>13. OldIsRetired'
  <2>1. ASSUME NEW p \in Ids, Changed(p)', Old(p) # NoRef
        PROVE  Changed(p) /\ (phase'[p] = "completed" => phase[p] = "completed")
    BY <1>1, <1>4, <2>1
  <2>2. ASSUME NEW p \in Ids, Changed(p)', Old(p) # NoRef
        PROVE  /\ \A d \in Connections : ~References(d, Old(p))
               /\ phase'[p] = "completed" => Old(p) \notin secrets
               /\ Kind(p) = "delete_connection" => ~Target(p).alive'
    BY <2>1, <2>2 DEF Durable, OldIsRetired, Target, Kind
  <2> QED BY <1>3, <1>4, <2>2 DEF OldIsRetired, References, Target, Kind
<1>14. SecretIsWritten'
  BY <1>1, <1>3, <1>4 DEF TypeOK, Durable, SecretIsWritten
<1>15. SnapshotIsEarlier'
  <2>1. \A p \in Ids : phase'[p] = "request" =>
           /\ request[p].conn \in Connections
           /\ request[p].revision <= Target(p).revision
           /\ request[p].revision = Target(p).revision /\ Target(p).alive => Old(p) = Target(p).ref
    BY <1>4, <1>5 DEF Durable, SnapshotIsEarlier, Used
  <2>2. \A p \in Ids : phase'[p] = "request" =>
           /\ Target(p).revision' = Target(p).revision /\ Target(p).ref' = Target(p).ref
           /\ Target(p).alive' => Target(p).alive
    BY <1>3, <2>1 DEF Target
  <2> QED BY <1>4, <2>1, <2>2 DEF SnapshotIsEarlier
<1>16. OneOperationPerConnection' /\ NoDanglingReference'
  BY <1>4, <1>12 DEF Durable, OneOperationPerConnection, NoDanglingReference
<1>17. SecretIsAccounted'
  <2>1. \A d \in Connections : conn'[d].ref = conn[d].ref
    BY <1>3
  <2> QED BY <1>4, <2>1 DEF TypeOK, Durable, SecretIsAccounted
<1> QED BY <1>7, <1>8, <1>9, <1>10, <1>11, <1>13, <1>14, <1>15, <1>16, <1>17 DEF Durable

\* A connection without secret is deleted with no row pending.
LEMMA PlainDeleteStep ==
  ASSUME IInv, NEW w \in Workers, PlainDelete(w)
  PROVE  IInv'
<1>1. PICK o \in Ids : o = cur[w]
  BY ActingFacts DEF PlainDelete, Acting, Resting
<1> DEFINE c == request[o].conn
<1>2. /\ TypeOK /\ Durable /\ pc[w] = "plain_delete" /\ Acting(w) /\ Knows("plain_delete", mode[w], o)
  BY <1>1, ActingFacts DEF IInv, PlainDelete, Acting, Resting
<1>3. phase[o] = "request" /\ Kind(o) = "plain_delete" /\ mode[w] = "live" /\ c \in Connections
  BY <1>2 DEF Knows, RowAt, ModeAt, LiveLabels, Durable, WellFormed, Used, Request
<1>4. UNCHANGED <<request, secrets>>
  BY DEF PlainDelete
<1>5. ASSUME Succeed(w) \/ Fail(w), faults' \in Nat,
             \/ UNCHANGED conn /\ phase' = [phase EXCEPT ![o] = "abandoned"]
             \/ /\ MayPlainDelete(o) /\ conn' = [conn EXCEPT ![c].alive = FALSE]
                /\ phase' = [phase EXCEPT ![o] = "completed"]
      PROVE  IInv'
  <2>1. Durable' /\ RowsAdvance
    BY <1>2, <1>3, <1>4, <1>5, RequestGone, PlainDeletes
  <2>2. pc'[w] \in {"down", "ready", "next"} /\ UNCHANGED <<mode, cur>> /\ ModeAt(pc'[w], mode[w])
    BY <1>1, <1>2, <1>5, Returned
  <2>3. Knows(pc[w], mode[w], cur[w])'
    BY <2>2, RestKnows DEF ModeAt
  <2>4. Continues(w)
    BY <1>2, <1>3, <1>5, Moves
  <2>5. /\ conn' \in [Connections -> [alive : BOOLEAN, revision : Nat, ref : Ids \cup {NoRef}]]
        /\ phase' \in [Ids -> Phases]
        /\ \A d \in Connections : conn'[d].ref = conn[d].ref
    <3>1. CASE UNCHANGED conn /\ phase' = [phase EXCEPT ![o] = "abandoned"]
      BY <1>2, <3>1 DEF TypeOK, Phases
    <3>2. CASE conn' = [conn EXCEPT ![c].alive = FALSE] /\ phase' = [phase EXCEPT ![o] = "completed"]
      <4>1. [conn[c] EXCEPT !.alive = FALSE] \in [alive : BOOLEAN, revision : Nat, ref : Ids \cup {NoRef}]
            /\ [conn[c] EXCEPT !.alive = FALSE].ref = conn[c].ref
        <5>1. conn[c] \in [alive : BOOLEAN, revision : Nat, ref : Ids \cup {NoRef}]
          BY <1>2, <1>3 DEF TypeOK
        <5> QED BY <5>1, RowIsGone
      <4>2. conn' = [conn EXCEPT ![c] = [conn[c] EXCEPT !.alive = FALSE]]
        BY <3>2
      <4>3. \A d \in Connections : conn'[d].ref = conn[d].ref
        BY <1>2, <1>3, <4>1, <4>2 DEF TypeOK
      <4>4. conn' \in [Connections -> [alive : BOOLEAN, revision : Nat, ref : Ids \cup {NoRef}]]
        BY <1>2, <1>3, <4>1, <4>2 DEF TypeOK
      <4> QED BY <1>2, <1>3, <3>2, <4>3, <4>4 DEF TypeOK, Phases
    <3> QED BY <1>5, <3>1, <3>2
  <2>6. TypeOK'
    <3>1. /\ pc' \in [Workers -> Labels] /\ mode' \in [Workers -> {"live", "boot", "recover"}]
          /\ cur' \in [Workers -> Ids \cup {NoRef}] /\ todo' \in [Workers -> SUBSET Ids]
          /\ listed' \in [Workers -> [Ids -> Phases]]
          /\ result' \in [Workers -> {"none", "ok", "error"}]
      BY <1>2, <1>5, Moves
    <3> QED BY <1>2, <1>4, <1>5, <2>5, <3>1 DEF TypeOK
  <2>7. \A p \in Ids : p # o => phase'[p] = phase[p]
    BY <1>2, <1>5 DEF TypeOK
  <2> QED BY <1>1, <1>2, <1>3, <1>4, <2>1, <2>3, <2>4, <2>5, <2>6, <2>7, RequestStep
<1>6. CASE ~MayPlainDelete(o)
  BY <1>1, <1>2, <1>5, <1>6 DEF PlainDelete, TypeOK
<1>7. CASE MayPlainDelete(o)
  <2>1. PICK done \in BOOLEAN, ok \in BOOLEAN :
               /\ Call(done, ok)
               /\ conn' = IF done THEN [conn EXCEPT ![c].alive = FALSE] ELSE conn
               /\ phase' = [phase EXCEPT ![o] = IF done THEN "completed" ELSE "abandoned"]
               /\ IF ok THEN Succeed(w) ELSE Fail(w)
    BY <1>1, <1>7 DEF PlainDelete
  <2>2. faults' \in Nat /\ (Succeed(w) \/ Fail(w))
    BY <1>2, <2>1 DEF Call, TypeOK
  <2>3. CASE done
    BY <1>5, <1>7, <2>1, <2>2, <2>3
  <2>4. CASE ~done
    BY <1>5, <2>1, <2>2, <2>4
  <2> QED BY <2>3, <2>4
<1> QED BY <1>6, <1>7

\* A request is a snapshot of the connection as it is.
LEMMA BeginStep ==
  ASSUME IInv, NEW w \in Workers, Start(w)
  PROVE  IInv'
<1>1. PICK c \in Connections, kind \in Kinds, o \in Ids, pinned \in BOOLEAN : Begin(w, c, kind, o, pinned)
  BY DEF Start
<1> DEFINE made == [kind |-> kind, conn |-> c, revision |-> conn[c].revision,
                    old |-> conn[c].ref, pinned |-> pinned]
           label == IF kind = "plain_delete" THEN "plain_delete" ELSE "create"
<1>2. /\ TypeOK /\ Durable /\ pc[w] = "ready" /\ conn[c].alive /\ phase[o] = "unused"
      /\ (kind \in {"save", "plain_delete"}) <=> (conn[c].ref = NoRef)
      /\ request' = [request EXCEPT ![o] = made] /\ phase' = [phase EXCEPT ![o] = "request"]
      /\ pc' = [pc EXCEPT ![w] = label] /\ mode' = [mode EXCEPT ![w] = "live"]
      /\ cur' = [cur EXCEPT ![w] = o]
      /\ result' = [result EXCEPT ![w] = "none"]
      /\ UNCHANGED <<conn, secrets, todo, listed, faults>>
  BY <1>1 DEF IInv, Begin
<1>3. /\ request'[o] = made /\ phase'[o] = "request"
      /\ \A p \in Ids : p # o => request'[p] = request[p] /\ phase'[p] = phase[p]
      /\ pc'[w] = label /\ mode'[w] = "live" /\ cur'[w] = o
      /\ \A v \in Workers : v # w => pc'[v] = pc[v] /\ mode'[v] = mode[v] /\ cur'[v] = cur[v]
  BY <1>2 DEF TypeOK
<1>4. made \in Request /\ conn[c].revision \in Nat /\ conn[c].ref \in Ids \cup {NoRef}
  <2>1. conn[c].revision \in Nat /\ conn[c].ref \in Ids \cup {NoRef}
    BY <1>2 DEF TypeOK
  <2> QED BY <2>1 DEF Request
<1>5. TypeOK'
  <2>1. label \in Labels /\ "request" \in Phases
    BY DEF Labels, Phases
  <2> QED BY <1>2, <1>4, <2>1 DEF TypeOK
<1>6. ~Used(o) /\ ~Changed(o) /\ ~Pending(o) /\ o \notin secrets
      /\ \A p \in Ids : Used(p) => Old(p) # o
      /\ \A d \in Connections : conn[d].ref # o
  <2>1. ~Used(o) /\ ~Changed(o) /\ ~Pending(o)
    BY <1>2 DEF Used, Changed, Pending, RowPhases, Applied, Unapplied
  <2> QED BY <1>2, <2>1, UnappliedIsNew DEF Durable, SecretIsWritten, RowPhases, Applied, Unapplied
<1>7. /\ \A p \in Ids : (Used(p)' <=> Used(p) \/ p = o) /\ (Changed(p)' <=> Changed(p)) /\ (Pending(p)' <=> Pending(p))
      /\ \A p \in Ids : p # o => /\ phase'[p] = phase[p] /\ request'[p] = request[p]
                                 /\ Kind(p)' = Kind(p) /\ Old(p)' = Old(p) /\ Target(p)' = Target(p)
      /\ \A p \in Ids : phase'[p] \in Applied \cup Unapplied \cup {"completed"} => p # o
      /\ Kind(o)' = kind /\ Old(o)' = conn[c].ref /\ request'[o].conn = c
  BY <1>2, <1>3, <1>6 DEF Used, Changed, Pending, RowPhases, Applied, Unapplied, Kind, Old, Target
<1>8. \A p \in Ids : Used(p) => Old(p) \in Ids \cup {NoRef} /\ request[p].conn \in Connections
  BY <1>2 DEF Durable, WellFormed, Request, Old
<1>9. Durable'
  <2>1. WellFormed'
    <3> SUFFICES ASSUME NEW p \in Ids, Used(p)'
                 PROVE  (/\ request[p] \in Request
                         /\ Kind(p) \in {"save", "plain_delete"} <=> Old(p) = NoRef
                         /\ Pending(p) => Kind(p) # "plain_delete" /\ Target(p).alive)'
      BY DEF WellFormed
    <3>1. CASE p = o
      BY <1>2, <1>3, <1>4, <1>6, <1>7, <3>1
    <3>2. CASE p # o
      BY <1>2, <1>7, <3>2 DEF Durable, WellFormed
    <3> QED BY <3>1, <3>2
  <2>2. OldIsEarlier'
    <3> SUFFICES ASSUME NEW p \in Ids, Used(p)', Old(p)' # NoRef
                 PROVE  (/\ Old(p) # p
                         /\ Changed(Old(p)) /\ Kind(Old(p)) \in Writes
                         /\ request[Old(p)].conn = request[p].conn
                         /\ Pending(p) => phase[Old(p)] = "completed")'
      BY DEF OldIsEarlier
    <3>1. CASE p = o
      <4>1. conn[c].ref \in Ids /\ conn[c].ref # o /\ Changed(conn[c].ref) /\ Kind(conn[c].ref) \in Writes
            /\ request[conn[c].ref].conn = c
        BY <1>2, <1>4, <1>6, <1>7, <3>1 DEF Durable, RefIsApplied
      <4> QED BY <1>6, <1>7, <3>1, <4>1 DEF Changed, Kind
    <3>2. CASE p # o
      <4>1. Used(p) /\ Old(p) \in Ids /\ Old(p) # o /\ Old(p)' = Old(p) /\ Old(p) # NoRef
        BY <1>6, <1>7, <1>8, <3>2
      <4>2. /\ Old(p) # p
            /\ Changed(Old(p)) /\ Kind(Old(p)) \in Writes
            /\ request[Old(p)].conn = request[p].conn
            /\ Pending(p) => phase[Old(p)] = "completed"
        BY <1>2, <4>1 DEF Durable, OldIsEarlier
      <4> QED BY <1>7, <3>2, <4>1, <4>2 DEF Changed, Kind
    <3> QED BY <3>1, <3>2
  <2>3. RefIsApplied'
    <3>1. \A d \in Connections : conn[d].ref \in Ids \cup {NoRef}
      BY <1>2 DEF TypeOK
    <3> QED BY <1>2, <1>6, <1>7, <3>1 DEF Durable, RefIsApplied, Changed, Kind
  <2>4. AppliedIsShown' /\ OldIsRetired' /\ OldIsCurrent'
    <3>1. \A p \in Ids : Changed(p) => p # o
      BY <1>6
    <3> QED BY <1>2, <1>7, <3>1 DEF Durable, AppliedIsShown, OldIsRetired, OldIsCurrent, References, Target, Kind
  <2>5. SecretIsWritten'
    BY <1>2, <1>6, <1>7 DEF TypeOK, Durable, SecretIsWritten, Kind
  <2>6. SnapshotIsEarlier'
    <3> SUFFICES ASSUME NEW p \in Ids, phase'[p] = "request"
                 PROVE  (/\ request[p].revision <= Target(p).revision
                         /\ request[p].revision = Target(p).revision /\ Target(p).alive
                               => Old(p) = Target(p).ref)'
      BY DEF SnapshotIsEarlier
    <3>1. CASE p = o
      BY <1>2, <1>3, <1>4, <1>7, <3>1 DEF Target
    <3>2. CASE p # o
      BY <1>2, <1>7, <3>2 DEF Durable, SnapshotIsEarlier
    <3> QED BY <3>1, <3>2
  <2>7. OneOperationPerConnection' /\ NoDanglingReference' /\ SecretIsAccounted'
    <3>1. \A p \in Ids : Pending(p) \/ phase[p] \in Unapplied => p # o
      BY <1>6 DEF Pending, RowPhases
    <3>2. OneOperationPerConnection'
      BY <1>2, <1>7, <3>1 DEF Durable, OneOperationPerConnection
    <3>3. NoDanglingReference'
      <4> SUFFICES ASSUME NEW d \in Connections, NEW r \in Ids, References(d, r), r \notin secrets
                   PROVE  \E p \in Ids : (/\ phase[p] \in Unapplied /\ request[p].conn = d
                                          /\ Kind(p) \in {"remove", "delete_connection"} /\ Old(p) = r)'
        BY <1>2 DEF NoDanglingReference, References
      <4>1. PICK p \in Ids : /\ phase[p] \in Unapplied /\ request[p].conn = d
                             /\ Kind(p) \in {"remove", "delete_connection"} /\ Old(p) = r
        BY <1>2 DEF Durable, NoDanglingReference
      <4> QED BY <1>7, <3>1, <4>1
    <3>4. SecretIsAccounted'
      <4> SUFFICES ASSUME NEW r \in secrets
                   PROVE  (\/ \E d \in Connections : conn[d].ref = r
                           \/ Pending(r)
                           \/ \E p \in Ids : Pending(p) /\ Old(p) = r)'
        BY <1>2 DEF SecretIsAccounted
      <4>1. /\ r \in Ids
            /\ \/ \E d \in Connections : conn[d].ref = r
               \/ Pending(r)
               \/ \E p \in Ids : Pending(p) /\ Old(p) = r
        BY <1>2 DEF TypeOK, Durable, SecretIsAccounted
      <4>2. CASE \E d \in Connections : conn[d].ref = r
        BY <1>2, <4>2
      <4>3. CASE Pending(r)
        <5>1. Pending(r)'
          BY <1>7, <4>1, <4>3
        <5> QED BY <5>1
      <4>4. CASE \E p \in Ids : Pending(p) /\ Old(p) = r
        <5>1. PICK p \in Ids : Pending(p) /\ Old(p) = r
          BY <4>4
        <5>2. Pending(p)' /\ Old(p)' = r
          BY <1>7, <3>1, <5>1
        <5> QED BY <5>2
      <4> QED BY <4>1, <4>2, <4>3, <4>4
    <3> QED BY <3>2, <3>3, <3>4
  <2> QED BY <2>1, <2>2, <2>3, <2>4, <2>5, <2>6, <2>7 DEF Durable
<1>10. \A v \in Workers : /\ listed[v][o] = "unused" /\ o \notin todo[v]
                          /\ (Acting(v) => cur[v] # o /\ Used(cur[v]) /\ cur[v] \in Ids)
                          /\ (mode[v] = "live" /\ pc[v] \notin {"down", "ready"} => Acting(v))
  <2>1. \A v \in Workers : listed[v][o] = "unused" /\ o \notin todo[v]
    BY <1>2 DEF IInv, Volatile, ListedIsOlder
  <2>2. \A v \in Workers : Acting(v) => cur[v] # o /\ Used(cur[v]) /\ cur[v] \in Ids
    BY <1>6, ActingFacts
  <2>3. \A v \in Workers : mode[v] = "live" /\ pc[v] \notin {"down", "ready"} => Acting(v)
    BY DEF IInv, Volatile, Known, Knows, ModeAt, RecoverLabels, Acting, Resting
  <2> QED BY <2>1, <2>2, <2>3
<1>11. Known'
  <2> SUFFICES ASSUME NEW v \in Workers PROVE Knows(pc[v], mode[v], cur[v])'
    BY DEF Known
  <2>1. CASE v = w
    <3>1. Knows(label, "live", o)'
      BY <1>3, <1>7 DEF Knows, ModeAt, RowAt, LiveRowAt, SecretAt, ErasingAt, Resting, LiveLabels, RecoverLabels
    <3> QED BY <1>3, <2>1, <3>1 DEF Knows, ModeAt, RowAt, LiveRowAt, SecretAt, ErasingAt
  <2>2. CASE v # w
    <3>1. Undisturbed(v)
      BY <1>2, <1>3, <1>7, <1>10, <2>2 DEF Undisturbed, Target, Old
    <3> QED BY <3>1, KnownFrame DEF IInv, Volatile, Known
  <2> QED BY <2>1, <2>2
<1>12. ListedIsOlder'
  <2> SUFFICES ASSUME NEW v \in Workers, NEW p \in Ids
               PROVE  (/\ listed[v][p] # "unused" =>
                             /\ listed[v][p] \in RowPhases
                             /\ phase[p] \notin {"unused", "request"}
                             /\ Kind(p) # "plain_delete"
                       /\ listed[v][p] \in Applied => Changed(p) /\ Kind(p) # "delete_connection"
                       /\ p \in todo[v] => listed[v][p] # "unused")'
    BY DEF ListedIsOlder
  <2>1. CASE p = o
    BY <1>2, <1>10, <2>1 DEF Applied
  <2>2. CASE p # o
    BY <1>2, <1>7, <2>2 DEF IInv, Volatile, ListedIsOlder
  <2> QED BY <2>1, <2>2
<1>13. Exclusive'
  <2> SUFFICES ASSUME NEW u \in Workers, NEW v \in Workers, NEW p \in Ids, Running(u, p)', v # u
               PROVE  ~(Acting(v)' /\ cur'[v] = p)
    BY DEF Exclusive
  <2>1. CASE u = w
    <3>1. p = o /\ pc'[v] = pc[v] /\ cur'[v] = cur[v]
      BY <1>3, <2>1 DEF Running
    <3> QED BY <1>2, <1>10, <3>1 DEF Acting
  <2>2. CASE u # w
    <3>1. Running(u, p) /\ Acting(u) /\ p # o
      BY <1>3, <1>10, <2>2 DEF Running
    <3>2. ~(Acting(v) /\ cur[v] = p)
      BY <3>1 DEF IInv, Volatile, Exclusive
    <3>3. CASE v = w
      BY <1>2, <1>3, <3>1, <3>2, <3>3
    <3>4. CASE v # w
      BY <1>2, <1>3, <3>2, <3>4 DEF Acting
    <3> QED BY <3>3, <3>4
  <2> QED BY <2>1, <2>2
<1>14. PassedIsGone'
  BY <1>2, <1>3, <1>7 DEF IInv, Volatile, PassedIsGone, Acting
<1> QED BY <1>5, <1>9, <1>11, <1>12, <1>13, <1>14 DEF IInv, Volatile

-----------------------------------------------------------------------------
(* The surroundings.                                                       *)

\* A crash takes the worker's memory and a request it had not recorded.
LEMMA CrashStep ==
  ASSUME IInv, NEW w \in Workers, Crash(w)
  PROVE  IInv'
<1>1. /\ TypeOK /\ Durable
      /\ pc' = [pc EXCEPT ![w] = "down"] /\ mode' = [mode EXCEPT ![w] = "boot"]
      /\ cur' = [cur EXCEPT ![w] = NoRef] /\ todo' = [todo EXCEPT ![w] = {}]
      /\ listed' = [listed EXCEPT ![w] = [o \in Ids |-> "unused"]]
      /\ result' = [result EXCEPT ![w] = "none"]
      /\ UNCHANGED <<conn, request, secrets>> /\ faults' \in Nat
  BY DEF IInv, Crash, Fault, TypeOK
<1>2. /\ pc'[w] = "down" /\ mode'[w] = "boot" /\ cur'[w] = NoRef /\ todo'[w] = {}
      /\ \A o \in Ids : listed'[w][o] = "unused"
      /\ \A v \in Workers : v # w => /\ pc'[v] = pc[v] /\ mode'[v] = mode[v] /\ cur'[v] = cur[v]
                                     /\ todo'[v] = todo[v] /\ listed'[v] = listed[v]
  BY <1>1 DEF TypeOK
<1>3. /\ Durable' /\ RowsAdvance /\ phase' \in [Ids -> Phases]
      /\ \A v \in Workers : v # w /\ Acting(v) => phase'[cur[v]] = phase[cur[v]]
  <2>1. CASE pc[w] \in {"plain_delete", "create"}
    <3>1. /\ Acting(w) /\ mode[w] = "live" /\ cur[w] \in Ids /\ phase[cur[w]] = "request"
          /\ phase' = [phase EXCEPT ![cur[w]] = "abandoned"]
      BY <2>1 DEF IInv, Volatile, Known, Knows, ModeAt, LiveLabels, RowAt, Resting, Acting, Crash
    <3>2. Durable' /\ RowsAdvance
      BY <1>1, <3>1, RequestGone
    <3>3. \A v \in Workers : v # w /\ Acting(v) => cur[v] # cur[w] /\ cur[v] \in Ids
      BY <3>1, Alone, ActingFacts
    <3> QED BY <1>1, <3>1, <3>2, <3>3 DEF TypeOK, Phases
  <2>2. CASE pc[w] \notin {"plain_delete", "create"}
    BY <1>1, <2>2, DurableFrame DEF Crash, RowsAdvance, TypeOK, Pending, Changed
  <2> QED BY <2>1, <2>2
<1>4. TypeOK'
  BY <1>1, <1>3 DEF TypeOK, Labels, Phases
<1>5. Known'
  <2> SUFFICES ASSUME NEW v \in Workers PROVE Knows(pc[v], mode[v], cur[v])'
    BY DEF Known
  <2>1. CASE v = w
    BY <1>2, <2>1, RestKnows DEF ModeAt, LiveLabels, RecoverLabels
  <2>2. CASE v # w
    <3>1. Undisturbed(v)
      BY <1>1, <1>2, <1>3, <2>2 DEF Undisturbed, Target, Old
    <3> QED BY <3>1, KnownFrame DEF IInv, Volatile, Known
  <2> QED BY <2>1, <2>2
<1>6. ListedIsOlder'
  <2> SUFFICES ASSUME NEW v \in Workers, NEW o \in Ids
               PROVE  /\ listed'[v][o] # "unused" =>
                            /\ listed'[v][o] \in RowPhases
                            /\ phase'[o] \notin {"unused", "request"}
                            /\ Kind(o)' # "plain_delete"
                      /\ listed'[v][o] \in Applied => Changed(o)' /\ Kind(o)' # "delete_connection"
                      /\ o \in todo'[v] => listed'[v][o] # "unused"
    BY DEF ListedIsOlder
  <2>1. Kind(o)' = Kind(o)
    BY <1>1 DEF Kind
  <2>2. CASE v = w
    BY <1>2, <2>2 DEF Applied
  <2>3. CASE v # w
    BY <1>2, <1>3, <2>1, <2>3 DEF IInv, Volatile, ListedIsOlder, RowsAdvance
  <2> QED BY <2>2, <2>3
<1>7. Exclusive'
  <2>1. \A v \in Workers : Acting(v)' => Acting(v) /\ v # w
    BY <1>2 DEF Acting, Resting
  <2>2. \A u \in Workers, o \in Ids : Running(u, o)' => Running(u, o) /\ u # w
    BY <1>2 DEF Running
  <2> QED BY <1>2, <2>1, <2>2 DEF IInv, Volatile, Exclusive
<1>8. PassedIsGone'
  <2> SUFFICES ASSUME NEW v \in Workers, NEW o \in Ids,
                      mode'[v] # "live", Acting(v)' \/ pc'[v] = "next",
                      listed'[v][o] \in RowPhases, o \notin todo'[v],
                      ~(Acting(v)' /\ cur'[v] = o)
               PROVE  ~Pending(o)'
    BY DEF PassedIsGone
  <2>1. v # w
    BY <1>2 DEF Acting, Resting
  <2>2. phase[o] # "request" /\ ~Pending(o)
    BY <1>2, <2>1 DEF IInv, Volatile, PassedIsGone, ListedIsOlder, Acting, RowPhases, Unapplied, Applied
  <2> QED BY <1>3, <2>2 DEF RowsAdvance
<1> QED BY <1>3, <1>4, <1>5, <1>6, <1>7, <1>8 DEF IInv, Volatile

\* An edit makes snapshots older and changes nothing else.
LEMMA EditStep ==
  ASSUME IInv, NEW c \in Connections, Edit(c)
  PROVE  IInv'
<1>1. /\ TypeOK /\ Durable /\ conn' = [conn EXCEPT ![c].revision = @ + 1]
      /\ UNCHANGED <<request, phase, secrets, pc, mode, cur, todo, listed, result, faults>>
  BY DEF IInv, Edit, workerVars
<1>2. TypeOK'
  <2>1. conn[c] \in [alive : BOOLEAN, revision : Nat, ref : Ids \cup {NoRef}]
    BY <1>1 DEF TypeOK
  <2>2. conn' = [conn EXCEPT ![c] = [conn[c] EXCEPT !.revision = conn[c].revision + 1]]
    BY <1>1
  <2>3. conn' \in [Connections -> [alive : BOOLEAN, revision : Nat, ref : Ids \cup {NoRef}]]
    <3>1. [conn[c] EXCEPT !.revision = conn[c].revision + 1]
             \in [alive : BOOLEAN, revision : Nat, ref : Ids \cup {NoRef}]
      BY <2>1
    <3> QED BY <1>1, <2>2, <3>1 DEF TypeOK
  <2> QED BY <1>1, <2>3 DEF TypeOK
<1>3. /\ \A d \in Connections : conn'[d].ref = conn[d].ref /\ conn'[d].alive = conn[d].alive
      /\ conn[c].revision \in Nat /\ conn'[c].revision = conn[c].revision + 1
      /\ \A d \in Connections : d # c => conn'[d] = conn[d]
  BY <1>1 DEF TypeOK
<1>4. \A p \in Ids : Used(p) => request[p].conn \in Connections /\ request[p].revision \in Nat
  BY <1>1 DEF Durable, WellFormed, Request
<1>5. \A p \in Ids : Used(p) => Target(p).ref' = Target(p).ref /\ Target(p).alive' = Target(p).alive
  BY <1>1, <1>3, <1>4 DEF Target
<1>6. /\ \A p \in Ids : Used(p)' = Used(p) /\ Changed(p)' = Changed(p) /\ Pending(p)' = Pending(p)
                        /\ Kind(p)' = Kind(p) /\ Old(p)' = Old(p)
      /\ \A p \in Ids : Pending(p) \/ phase[p] \in Unapplied \cup Applied => Used(p)
      /\ \A d \in Connections, r \in Ids : References(d, r)' = References(d, r)
  BY <1>1, <1>3 DEF Used, Changed, Pending, Kind, Old, References, RowPhases, Unapplied, Applied
<1>7. Durable'
  <2>1. WellFormed' /\ OldIsEarlier'
    BY <1>1, <1>5, <1>6 DEF Durable, WellFormed, OldIsEarlier, Changed, Kind
  <2>2. RefIsApplied' /\ OldIsRetired' /\ SecretIsWritten' /\ OneOperationPerConnection'
    <3>1. RefIsApplied'
      BY <1>1, <1>3, <1>6 DEF TypeOK, Durable, RefIsApplied
    <3> QED BY <1>1, <1>6, <3>1 DEF TypeOK, Durable, OldIsRetired, SecretIsWritten, OneOperationPerConnection, References, Kind, Target
  <2>3. AppliedIsShown' /\ OldIsCurrent'
    BY <1>1, <1>5, <1>6 DEF Durable, AppliedIsShown, OldIsCurrent
  <2>4. NoDanglingReference' /\ SecretIsAccounted'
    <3>1. SecretIsAccounted'
      BY <1>1, <1>6 DEF TypeOK, Durable, SecretIsAccounted
    <3>2. NoDanglingReference'
      <4> SUFFICES ASSUME NEW d \in Connections, NEW r \in Ids, References(d, r), r \notin secrets
                   PROVE  \E p \in Ids : (/\ phase[p] \in Unapplied /\ request[p].conn = d
                                          /\ Kind(p) \in {"remove", "delete_connection"} /\ Old(p) = r)'
        BY <1>1, <1>6 DEF NoDanglingReference
      <4>1. PICK p \in Ids : /\ phase[p] \in Unapplied /\ request[p].conn = d
                             /\ Kind(p) \in {"remove", "delete_connection"} /\ Old(p) = r
        BY <1>1 DEF Durable, NoDanglingReference
      <4> QED BY <1>1, <1>6, <4>1
    <3> QED BY <3>1, <3>2
  <2>5. SnapshotIsEarlier'
    <3> SUFFICES ASSUME NEW p \in Ids, phase[p] = "request"
                 PROVE  (/\ request[p].revision <= Target(p).revision
                         /\ request[p].revision = Target(p).revision /\ Target(p).alive
                               => Old(p) = Target(p).ref)'
      BY <1>1 DEF SnapshotIsEarlier
    <3>1. /\ Used(p) /\ request[p].revision \in Nat /\ request[p].revision <= Target(p).revision
          /\ request[p].revision = Target(p).revision /\ Target(p).alive => Old(p) = Target(p).ref
      BY <1>1, <1>4 DEF Durable, SnapshotIsEarlier, Used
    <3>2. CASE request[p].conn = c
      BY <1>1, <1>3, <3>1, <3>2 DEF Target
    <3>3. CASE request[p].conn # c
      BY <1>1, <1>3, <1>4, <1>6, <3>1, <3>3 DEF Target
    <3> QED BY <3>2, <3>3
  <2> QED BY <2>1, <2>2, <2>3, <2>4, <2>5 DEF Durable
<1>8. Known'
  <2> SUFFICES ASSUME NEW v \in Workers PROVE Knows(pc[v], mode[v], cur[v])'
    BY DEF Known
  <2>1. Undisturbed(v)
    BY <1>1, <1>5, ActingFacts DEF Undisturbed, Target, Old
  <2> QED BY <2>1, KnownFrame DEF IInv, Volatile, Known
<1>9. ListedIsOlder' /\ Exclusive' /\ PassedIsGone'
  BY <1>1, <1>6 DEF IInv, Volatile, ListedIsOlder, Exclusive, PassedIsGone, Running, Acting
<1> QED BY <1>2, <1>7, <1>8, <1>9 DEF IInv, Volatile

-----------------------------------------------------------------------------
(* The invariant holds, and what it gives.                                 *)

\* The invariant holds of an empty store and connections without references.
LEMMA InitInvariant ==
  ASSUME Init
  PROVE  IInv
<1>1. TypeOK
  BY DEF Init, TypeOK, Labels, Phases
<1>2. Durable
  <2>1. /\ \A o \in Ids : phase[o] = "unused" /\ ~Used(o) /\ ~Changed(o) /\ ~Pending(o)
        /\ \A c \in Connections : conn[c].ref = NoRef
        /\ secrets = {}
    BY DEF Init, Used, Changed, Pending, RowPhases, Unapplied, Applied
  <2>2. WellFormed /\ OldIsEarlier /\ RefIsApplied /\ OldIsRetired
    BY <2>1 DEF WellFormed, OldIsEarlier, RefIsApplied, OldIsRetired, Target, Kind
  <2>3. AppliedIsShown /\ OldIsCurrent /\ SecretIsWritten /\ SnapshotIsEarlier /\ OneOperationPerConnection
    BY <2>1 DEF AppliedIsShown, OldIsCurrent, SecretIsWritten, SnapshotIsEarlier, OneOperationPerConnection,
       Unapplied, Applied
  <2>4. NoDanglingReference /\ SecretIsAccounted
    BY <2>1, NoRefAssumption DEF NoDanglingReference, SecretIsAccounted, References
  <2> QED BY <2>2, <2>3, <2>4 DEF Durable
<1>3. Known
  BY DEF Init, Known, Knows, ModeAt, RowAt, LiveRowAt, SecretAt, ErasingAt, Resting, LiveLabels, RecoverLabels
<1>4. ListedIsOlder /\ Exclusive /\ PassedIsGone
  BY DEF Init, ListedIsOlder, Exclusive, PassedIsGone, Running, Acting, Resting, Applied
<1> QED BY <1>1, <1>2, <1>3, <1>4 DEF IInv, Volatile

\* Nothing changes in a stuttering step.
LEMMA StutterInvariant ==
  ASSUME IInv, UNCHANGED vars
  PROVE  IInv'
<1>1. UNCHANGED <<conn, request, phase, secrets, pc, mode, cur, todo, listed, result, faults>>
  BY DEF vars, workerVars
<1>2. TypeOK'
  BY <1>1 DEF IInv, TypeOK
<1>3. Durable'
  BY <1>1, DurableFrame DEF IInv
<1>4. Known'
  BY <1>1 DEF IInv, Volatile, Known, Knows, ModeAt, RowAt, LiveRowAt, SecretAt, ErasingAt, Kind, Old,
     Target, SecretChanged, Changed
<1>5. ListedIsOlder' /\ Exclusive' /\ PassedIsGone'
  BY <1>1 DEF IInv, Volatile, ListedIsOlder, Exclusive, PassedIsGone, Running, Acting, Pending, Changed, Kind
<1> QED BY <1>2, <1>3, <1>4, <1>5 DEF IInv, Volatile

\* Every step preserves the invariant, but for a recovery's that takes up the
\* operation of a running saga.
LEMMA NextInvariant ==
  ASSUME IInv, [Next]_vars, [~TakesRunning]_vars
  PROVE  IInv'
<1>1. CASE UNCHANGED vars
  BY <1>1, StutterInvariant
<1>2. CASE Next /\ ~TakesRunning
  <2>1. ASSUME NEW w \in Workers, SagaStep(w) PROVE IInv'
    BY <1>2, <2>1, PlainDeleteStep, CreateStep, SetSecretStep, VerifySetStep, ReadOldStep, EraseOldStep,
       VerifyEraseStep, MarkStep, ApplyStep, InspectStep, CleanupStep, RetireOldStep, VerifyRetireStep,
       DropStep, UndoNewStep, VerifyUndoStep, RestoreOldStep, VerifyRestoreStep, AbandonStep, ListStep,
       NextOperationStep, RecoveredStep, InspectPreparedStep, InspectSecretStep, VerifyActiveStep
       DEF SagaStep
  <2>2. ASSUME NEW w \in Workers, Start(w) \/ BeginRecovery(w) \/ Crash(w) PROVE IInv'
    BY <2>2, BeginStep, BeginRecoveryStep, CrashStep
  <2>3. ASSUME NEW c \in Connections, Edit(c) PROVE IInv'
    BY <2>3, EditStep
  <2> QED BY <1>2, <2>1, <2>2, <2>3 DEF Next
<1> QED BY <1>1, <1>2

\* In a behaviour in which no recovery takes up the operation of a saga that
\* is still running, the invariant holds whatever the interleaving of workers,
\* the failed calls, the crashes, the edits and the deletes.  Being about
\* states, it holds in any other behaviour as well, up to that step.
THEOREM Invariant == Spec /\ [][~TakesRunning]_vars => []IInv
<1>1. Init => IInv
  BY InitInvariant
<1>2. IInv /\ [Next]_vars /\ [~TakesRunning]_vars => IInv'
  BY NextInvariant
<1> QED BY <1>1, <1>2, PTL DEF Spec

\* While no recovery has taken up the operation of a running saga, at every
\* moment, also right after a crash, a referenced secret that is missing is
\* one a pending deletion of it can complete or undo (deleteCredential,
\* compensateOldCredential, Recover).
THEOREM NoReferenceDangles == Spec /\ [][~TakesRunning]_vars => []NoDanglingReference
<1>1. IInv => NoDanglingReference
  BY DEF IInv, Durable
<1> QED BY <1>1, Invariant, PTL

-----------------------------------------------------------------------------
(* What a deleted connection leaves.                                       *)

\* A secret is stored for a connection that is there.
LEMMA StoreLeavesBare ==
  ASSUME IInv, DeletedIsBare, NEW w \in Workers, SetSecret(w) \/ RestoreOld(w)
  PROVE  DeletedIsBare'
<1>1. PICK o \in Ids : o = cur[w]
  BY ActingFacts DEF SetSecret, RestoreOld, Acting, Resting
<1>2. /\ Durable /\ Knows(pc[w], mode[w], o) /\ UNCHANGED conn /\ Used(o)
      /\ pc[w] \in {"set", "restore"}
  BY <1>1, ActingFacts DEF IInv, SetSecret, RestoreOld, Acting, Resting, catalogVars
<1>3. CASE SetSecret(w)
  <2>1. secrets' \subseteq secrets \cup {o}
    BY <1>1, <1>3 DEF SetSecret, StoreSet
  <2>2. \A c \in Connections : conn[c].ref # o
    BY <1>2, <1>3, UnappliedIsNew DEF SetSecret, Knows, RowAt, Changed, Applied
  <2> QED BY <1>2, <2>1, <2>2 DEF DeletedIsBare
<1>4. CASE RestoreOld(w)
  <2>1. secrets' \subseteq secrets \cup {Old(o)}
    BY <1>1, <1>4 DEF RestoreOld, StoreSet
  <2>2. Pending(o) /\ Old(o) # NoRef
    BY <1>2, <1>4 DEF RestoreOld, Knows, RowAt, Pending, RowPhases, Deletes, Durable, WellFormed
  <2>3. \A c \in Connections : conn[c].ref = Old(o) => conn[c].alive
    BY <1>2, <2>2 DEF Durable, WellFormed, OldIsEarlier, RefIsApplied, Target
  <2> QED BY <1>2, <2>1, <2>3 DEF DeletedIsBare
<1> QED BY <1>3, <1>4

\* A saga deletes a connection after its secret.
LEMMA ApplyLeavesBare ==
  ASSUME IInv, DeletedIsBare, NEW w \in Workers, Apply(w)
  PROVE  DeletedIsBare'
<1>1. PICK o \in Ids : o = cur[w]
  BY ActingFacts DEF Apply, Acting, Resting
<1> DEFINE c == request[o].conn
<1>2. /\ TypeOK /\ Durable /\ Knows("apply", mode[w], o) /\ UNCHANGED secrets
      /\ UNCHANGED <<conn, phase>> \/ (MayApply(o) /\ Applying(o))
  BY <1>1, ActingFacts DEF IInv, Apply, Acting, Resting
<1>3. CASE UNCHANGED conn
  BY <1>2, <1>3 DEF DeletedIsBare
<1>4. CASE MayApply(o) /\ Applying(o)
  <2>1. c \in Connections /\ conn[c].alive /\ conn[c].ref = Old(o) /\ SecretChanged(o)
    BY <1>2, <1>4, ApplyFacts DEF Knows, SecretAt, MayApply, Unapplied
  <2>2. \A d \in Connections : d # c => conn'[d] = conn[d]
    BY <1>2, <1>4, <2>1 DEF TypeOK, Applying
  <2>3. ~conn'[c].alive => conn'[c].ref = Old(o) /\ Old(o) \notin secrets
    <3>1. CASE Kind(o) = "delete_connection"
      <4>1. conn' = [conn EXCEPT ![c].alive = FALSE]
        BY <1>4, <3>1 DEF Applying
      <4> QED BY <1>2, <2>1, <3>1, <4>1 DEF TypeOK, SecretChanged, Writes
    <3>2. CASE Kind(o) # "delete_connection"
      <4>1. conn' = [conn EXCEPT ![c].ref = IF Kind(o) \in Writes THEN o ELSE NoRef, ![c].revision = @ + 1]
        BY <1>4, <3>2 DEF Applying
      <4> QED BY <1>2, <2>1, <4>1 DEF TypeOK
    <3> QED BY <3>1, <3>2
  <2> QED BY <1>2, <2>1, <2>2, <2>3 DEF DeletedIsBare
<1> QED BY <1>2, <1>3, <1>4

\* A plain delete that meets no password leaves none.
LEMMA PlainDeleteLeavesBare ==
  ASSUME IInv, DeletedIsBare, NEW w \in Workers, PlainDelete(w), ~BlindDelete
  PROVE  DeletedIsBare'
<1>1. PICK o \in Ids : o = cur[w]
  BY ActingFacts DEF PlainDelete, Acting, Resting
<1> DEFINE c == request[o].conn
<1>2. /\ TypeOK /\ Used(o) /\ UNCHANGED secrets
      /\ UNCHANGED conn \/ conn' = [conn EXCEPT ![c].alive = FALSE]
  BY <1>1, ActingFacts DEF IInv, PlainDelete, Acting, Resting
<1>3. c \in Connections
  BY <1>2 DEF IInv, Durable, WellFormed, Request
<1>4. conn' # conn => conn[c].ref = NoRef
  BY <1>1 DEF BlindDelete, Target
<1>5. \A d \in Connections : conn'[d].ref = conn[d].ref /\ (d # c => conn'[d] = conn[d])
  BY <1>2, <1>3 DEF TypeOK
<1>6. NoRef \notin secrets
  BY <1>2, NoRefAssumption DEF TypeOK
<1> QED BY <1>2, <1>4, <1>5, <1>6 DEF DeletedIsBare

\* No step but a blind delete leaves the secret of a deleted connection.
LEMMA NextLeavesBare ==
  ASSUME IInv, DeletedIsBare, [Next]_vars, [~BlindDelete]_vars
  PROVE  DeletedIsBare'
<1>1. ASSUME UNCHANGED conn, secrets' \subseteq secrets PROVE DeletedIsBare'
  BY <1>1 DEF DeletedIsBare
<1>2. CASE UNCHANGED vars
  BY <1>1, <1>2 DEF vars
<1>3. CASE Next /\ ~BlindDelete
  <2>1. ASSUME NEW w \in Workers, PlainDelete(w) \/ Apply(w) \/ SetSecret(w) \/ RestoreOld(w) PROVE DeletedIsBare'
    BY <1>3, <2>1, PlainDeleteLeavesBare, ApplyLeavesBare, StoreLeavesBare
  <2>2. ASSUME NEW w \in Workers, Start(w) \/ BeginRecovery(w) \/ Crash(w) PROVE DeletedIsBare'
    BY <1>1, <2>2 DEF Start, Begin, BeginRecovery, Crash, catalogVars
  <2>3. ASSUME NEW w \in Workers,
               \/ Create(w) \/ VerifySet(w) \/ ReadOld(w) \/ EraseOld(w) \/ VerifyErase(w)
               \/ Mark(w) \/ Inspect(w) \/ Cleanup(w) \/ RetireOld(w) \/ VerifyRetire(w) \/ Drop(w)
               \/ UndoNew(w) \/ VerifyUndo(w) \/ VerifyRestore(w) \/ Abandon(w)
        PROVE  DeletedIsBare'
    BY <1>1, <2>3 DEF Create, VerifySet, ReadOld, EraseOld, VerifyErase, Mark, Inspect, Cleanup, RetireOld,
       VerifyRetire, Drop, UndoNew, VerifyUndo, VerifyRestore, Abandon, StoreDelete, catalogVars
  <2>4. ASSUME NEW w \in Workers,
               \/ List(w) \/ NextOperation(w) \/ Recovered(w)
               \/ InspectPrepared(w) \/ InspectSecret(w) \/ VerifyActive(w)
        PROVE  DeletedIsBare'
    BY <1>1, <2>4 DEF List, NextOperation, Recovered, InspectPrepared, InspectSecret, VerifyActive, catalogVars
  <2>5. ASSUME NEW c \in Connections, Edit(c) PROVE DeletedIsBare'
    <3>1. /\ UNCHANGED secrets
          /\ \A d \in Connections : conn'[d].alive = conn[d].alive /\ conn'[d].ref = conn[d].ref
      BY <2>5 DEF IInv, TypeOK, Edit
    <3> QED BY <3>1 DEF DeletedIsBare
  <2> QED BY <1>3, <2>1, <2>2, <2>3, <2>4, <2>5 DEF Next, SagaStep
<1> QED BY <1>2, <1>3

\* While no recovery has taken up the operation of a running saga, and no
\* delete without a revision has met a connection with a password, each stored
\* secret has a connection or a pending operation that answers for it
\* (writeCredential, compensateNewCredential, Recover, DeleteConnection).
THEOREM NoSecretIsOrphaned ==
  Spec /\ [][~TakesRunning]_vars /\ [][~BlindDelete]_vars => []NoOrphanSecret
<1>1. Init => DeletedIsBare
  BY DEF Init, DeletedIsBare
<1>2. IInv /\ DeletedIsBare /\ [Next]_vars /\ [~BlindDelete]_vars => DeletedIsBare'
  BY NextLeavesBare
<1>3. IInv /\ DeletedIsBare => NoOrphanSecret
  BY DEF IInv, Durable, SecretIsAccounted, DeletedIsBare, NoOrphanSecret, References
<1> QED BY <1>1, <1>2, <1>3, Invariant, PTL DEF Spec

-----------------------------------------------------------------------------
(* CredentialSaga implements RememberedPassword, and a saga that reports      *)
(* success has made its change: what the invariant gives about steps.         *)

(* The abstract state.                                                     *)

\* The store holds what an idle connection remembers.
LEMMA IdleAgrees ==
  ASSUME IInv, NEW c \in Connections, conn[c].alive, ~PendingOn(c)
  PROVE  Held[c] = {Remembered[c]} \cap Ids
<1>1. TypeOK /\ Durable /\ Remembered[c] = conn[c].ref
  BY DEF IInv, Remembered
<1>2. \A p \in Ids : Pending(p) => request[p].conn # c /\ Used(p)
  BY DEF PendingOn, Pending, Used, RowPhases, Unapplied, Applied
<1>3. ASSUME NEW r \in secrets, request[r].conn = c PROVE r = conn[c].ref /\ r \in Ids
  <2>1. r \in Ids /\ r # NoRef
    BY <1>1, NoRefAssumption DEF TypeOK
  <2>2. ~Pending(r)
    BY <1>2, <1>3, <2>1
  <2>3. \A p \in Ids : Pending(p) => Old(p) # r
    BY <1>1, <1>2, <1>3, <2>1 DEF Durable, OldIsEarlier
  <2>4. PICK d \in Connections : conn[d].ref = r
    BY <1>1, <2>1, <2>2, <2>3 DEF Durable, SecretIsAccounted
  <2>5. d = c
    BY <1>1, <1>3, <2>1, <2>4 DEF Durable, RefIsApplied
  <2> QED BY <2>1, <2>4, <2>5
<1>4. ASSUME conn[c].ref \in Ids PROVE conn[c].ref \in secrets /\ request[conn[c].ref].conn = c
  <2>1. request[conn[c].ref].conn = c
    BY <1>1, <1>4, NoRefAssumption DEF Durable, RefIsApplied
  <2>2. ASSUME conn[c].ref \notin secrets PROVE FALSE
    <3>1. PICK p \in Ids : phase[p] \in Unapplied /\ request[p].conn = c
      BY <1>1, <1>4, <2>2 DEF Durable, NoDanglingReference, References
    <3> QED BY <1>2, <3>1 DEF Pending, RowPhases
  <2> QED BY <2>1, <2>2
<1> QED BY <1>1, <1>3, <1>4 DEF Held

Idle(c) == conn[c].alive /\ ~PendingOn(c)
AllIdleAgree == \A c \in Connections : Idle(c) => Held[c] = {Remembered[c]} \cap Ids

\* So it does after a step.
LEMMA AllIdleAgreeNext == IInv' => AllIdleAgree'
<1>1. IInv => AllIdleAgree
  BY IdleAgrees DEF AllIdleAgree, Idle
<1> QED BY <1>1, PTL

\* A step the abstract specification does not see.
LEMMA Unseen ==
  ASSUME UNCHANGED <<conn, secrets>>,
         \A r \in secrets : request'[r].conn = request[r].conn,
         \A c \in Connections : PendingOn(c)' <=> PendingOn(c)
  PROVE  UNCHANGED <<Remembered, Held, Changing>>
BY DEF Remembered, Held, Changing

\* Rows that stay pending, or stay away, leave the abstract state alone.
LEMMA RowsUnseen ==
  ASSUME UNCHANGED <<conn, secrets, request>>, \A p \in Ids : Pending(p)' <=> Pending(p)
  PROVE  UNCHANGED <<Remembered, Held, Changing>>
<1>1. \A c \in Connections : PendingOn(c)' <=> PendingOn(c)
  BY DEF PendingOn
<1> QED BY <1>1, Unseen

\* So does a step that changes neither catalog nor store.
LEMMA CatalogUnseen ==
  ASSUME UNCHANGED <<conn, secrets, request, phase>>
  PROVE  UNCHANGED <<Remembered, Held, Changing>>
BY RowsUnseen DEF Pending

\* A call of the store for a pending operation of the connection c.
LEMMA StoreSeen ==
  ASSUME TypeOK, NEW r \in Ids, NEW o \in Ids, UNCHANGED <<conn, request, phase>>,
         request[o].conn \in Connections, request[r].conn = request[o].conn,
         secrets' = secrets \/ (Pending(o) /\ (secrets' = secrets \cup {r} \/ secrets' = secrets \ {r}))
  PROVE  [Password!Next]_<<Remembered, Held, Changing>>
<1> DEFINE c == request[o].conn
<1>1. CASE secrets' = secrets
  BY <1>1, CatalogUnseen
<1>2. CASE secrets' # secrets
  <2>1. Pending(o) /\ c \in Changing
    BY <1>2 DEF Changing, PendingOn
  <2>2. UNCHANGED <<Remembered, Changing>>
    BY DEF Remembered, Changing, PendingOn, Pending
  <2>3. Held' = [Held EXCEPT ![c] = IF r \in @ THEN @ \ {r} ELSE @ \cup {r}]
    <3>1. CASE r \in secrets
      <4>1. secrets' = secrets \ {r} /\ r \in Held[c]
        BY <1>2, <3>1 DEF Held
      <4>2. \A d \in Connections : Held'[d] = IF d = c THEN Held[d] \ {r} ELSE Held[d]
        BY <4>1 DEF Held
      <4> QED BY <4>1, <4>2 DEF Held
    <3>2. CASE r \notin secrets
      <4>1. secrets' = secrets \cup {r} /\ r \notin Held[c]
        BY <1>2, <3>2 DEF Held
      <4>2. \A d \in Connections : Held'[d] = IF d = c THEN Held[d] \cup {r} ELSE Held[d]
        BY <4>1 DEF Held
      <4> QED BY <4>1, <4>2 DEF Held
    <3> QED BY <3>1, <3>2
  <2>4. Password!Store(c)
    BY <2>1, <2>2, <2>3 DEF Password!Store
  <2> QED BY <2>4 DEF Password!Next
<1> QED BY <1>1, <1>2

-----------------------------------------------------------------------------
(* Every step maps to a step or a stutter.                                 *)

Mapped == [Password!Next]_<<Remembered, Held, Changing>>

\* The calls of the store are steps of Store, for a connection that is changing.
LEMMA StoreStepsMap ==
  ASSUME IInv, NEW w \in Workers,
         SetSecret(w) \/ EraseOld(w) \/ RetireOld(w) \/ UndoNew(w) \/ RestoreOld(w)
  PROVE  Mapped
<1>1. PICK o \in Ids : o = cur[w]
  BY ActingFacts DEF SetSecret, EraseOld, RetireOld, UndoNew, RestoreOld, Acting, Resting
<1>2. /\ TypeOK /\ Durable /\ Acting(w) /\ Knows(pc[w], mode[w], o) /\ Used(o)
      /\ UNCHANGED <<conn, request, phase>>
  BY <1>1, ActingFacts DEF IInv, SetSecret, EraseOld, RetireOld, UndoNew, RestoreOld, Acting, Resting, catalogVars
<1>3. request[o].conn \in Connections /\ Old(o) \in Ids \cup {NoRef}
  BY <1>2 DEF Durable, WellFormed, Request, Old
<1>4. CASE SetSecret(w) \/ UndoNew(w)
  <2>1. Pending(o) /\ (secrets' = secrets \/ secrets' = secrets \cup {o} \/ secrets' = secrets \ {o})
    BY <1>1, <1>2, <1>4 DEF SetSecret, UndoNew, StoreSet, StoreDelete, Knows, RowAt, Pending, RowPhases, Unapplied
  <2> QED BY <1>2, <1>3, <2>1, StoreSeen DEF Mapped
<1>5. CASE EraseOld(w) \/ RestoreOld(w) \/ RetireOld(w)
  <2>1. secrets' = secrets \/ secrets' = secrets \cup {Old(o)} \/ secrets' = secrets \ {Old(o)}
    BY <1>1, <1>5 DEF EraseOld, RestoreOld, RetireOld, StoreSet, StoreDelete
  <2>2. Pending(o) \/ (phase[o] = "completed" /\ secrets' = (secrets \ {Old(o)})) \/ UNCHANGED secrets
    BY <1>1, <1>2, <1>5 DEF EraseOld, RestoreOld, RetireOld, StoreDelete, Knows, RowAt, Pending,
       RowPhases, Unapplied, Changed
  <2>3. Kind(o) \in {"replace", "remove", "delete_connection"}
    BY <1>2, <1>5 DEF EraseOld, RestoreOld, RetireOld, Knows, RowAt, Deletes
  <2>4. Old(o) \in Ids /\ request[Old(o)].conn = request[o].conn
    BY <1>2, <1>3, <2>3 DEF Durable, WellFormed, OldIsEarlier
  <2>5. phase[o] = "completed" => Old(o) \notin secrets
    BY <1>2, <2>4, NoRefAssumption DEF Durable, OldIsRetired, Changed
  <2>6. Pending(o) \/ UNCHANGED secrets
    BY <2>2, <2>5
  <2> QED BY <1>2, <1>3, <2>1, <2>4, <2>6, StoreSeen DEF Mapped
<1> QED BY <1>4, <1>5

\* Creating a row announces a change.
LEMMA CreateMaps ==
  ASSUME IInv, NEW w \in Workers, Create(w)
  PROVE  Mapped
<1>1. PICK o \in Ids : o = cur[w]
  BY ActingFacts DEF Create, Acting, Resting
<1> DEFINE c == request[o].conn
<1>2. /\ TypeOK /\ Durable /\ phase[o] = "request" /\ ~Pending(o)
      /\ UNCHANGED <<conn, request, secrets>>
      /\ phase' = [phase EXCEPT ![o] = "abandoned"] \/ (MayCreate(o) /\ phase' = [phase EXCEPT ![o] = "prepared"])
  BY <1>1, ActingFacts DEF IInv, Create, Acting, Resting, Knows, RowAt, Pending, RowPhases, Unapplied, Applied
<1>3. c \in Connections
  BY <1>2 DEF Durable, WellFormed, Used, Request
<1>4. CASE phase' = [phase EXCEPT ![o] = "abandoned"]
  <2>1. \A p \in Ids : Pending(p)' <=> Pending(p)
    BY <1>2, <1>4 DEF TypeOK, Pending, RowPhases, Unapplied, Applied
  <2> QED BY <1>2, <2>1, RowsUnseen DEF Mapped
<1>5. CASE MayCreate(o) /\ phase' = [phase EXCEPT ![o] = "prepared"]
  <2>1. \A p \in Ids : Pending(p)' <=> Pending(p) \/ p = o
    BY <1>2, <1>5 DEF TypeOK, Pending, RowPhases, Unapplied, Applied
  <2>2. c \notin Changing /\ Remembered[c] # Gone
    BY <1>2, <1>3, <1>5, GoneAssumption DEF MayCreate, Changing, Remembered, Gone, Target, TypeOK
  <2>3. Changing' = Changing \cup {c} /\ UNCHANGED <<Remembered, Held>>
    <3>1. UNCHANGED <<Remembered, Held>>
      BY <1>2 DEF Remembered, Held
    <3>2. \A d \in Connections : PendingOn(d)' <=> PendingOn(d) \/ d = c
      BY <1>2, <2>1 DEF PendingOn
    <3> QED BY <1>3, <3>1, <3>2 DEF Changing
  <2>4. Password!Announce(c)
    BY <2>2, <2>3 DEF Password!Announce
  <2> QED BY <1>3, <2>4 DEF Mapped, Password!Next
<1> QED BY <1>2, <1>4, <1>5

\* A connection that leaves has nothing in the store.
LEMMA LeaveMaps ==
  ASSUME TypeOK, NEW c \in Connections, conn[c].alive, Held[c] = {},
         conn' = [conn EXCEPT ![c].alive = FALSE], UNCHANGED <<request, secrets>>,
         \A d \in Connections : PendingOn(d)' <=> PendingOn(d) /\ d # c
  PROVE  Mapped
<1>1. Remembered[c] # Gone /\ Held' = Held /\ Changing' = Changing \ {c}
  BY GoneAssumption DEF TypeOK, Remembered, Held, Changing, Gone
<1>2. Remembered' = [Remembered EXCEPT ![c] = Gone]
  <2>1. \A d \in Connections : conn'[d].ref = conn[d].ref /\ (conn'[d].alive <=> conn[d].alive /\ d # c)
    BY DEF TypeOK
  <2> QED BY <2>1 DEF Remembered
<1>3. Password!Leave(c)
  BY <1>1, <1>2 DEF Password!Leave
<1> QED BY <1>3 DEF Mapped, Password!Next

\* Deleting a connection without secret is a Leave.
LEMMA PlainDeleteMaps ==
  ASSUME IInv, NEW w \in Workers, PlainDelete(w), ~BlindDelete
  PROVE  Mapped
<1>1. PICK o \in Ids : o = cur[w]
  BY ActingFacts DEF PlainDelete, Acting, Resting
<1> DEFINE c == request[o].conn
<1>2. /\ TypeOK /\ Durable /\ phase[o] = "request" /\ Kind(o) = "plain_delete" /\ ~Pending(o)
      /\ UNCHANGED <<request, secrets>>
      /\ \E q \in {"abandoned", "completed"} : phase' = [phase EXCEPT ![o] = q]
      /\ UNCHANGED conn \/ (MayPlainDelete(o) /\ conn' = [conn EXCEPT ![c].alive = FALSE])
  BY <1>1, ActingFacts DEF IInv, PlainDelete, Acting, Resting, Knows, RowAt, Pending, RowPhases, Unapplied, Applied
<1>3. c \in Connections
  BY <1>2 DEF Durable, WellFormed, Used, Request
<1>4. \A p \in Ids : Pending(p)' <=> Pending(p)
  BY <1>2 DEF TypeOK, Pending, RowPhases, Unapplied, Applied
<1>5. CASE UNCHANGED conn
  BY <1>2, <1>4, <1>5, RowsUnseen DEF Mapped
<1>6. CASE MayPlainDelete(o) /\ conn' = [conn EXCEPT ![c].alive = FALSE]
  <2>1. conn[c].alive /\ conn[c].ref = NoRef /\ ~PendingOn(c)
    <3>1. conn[c].alive /\ ~PendingOn(c)
      BY <1>6 DEF MayPlainDelete, Target
    <3>2. conn' # conn
      BY <1>2, <1>3, <1>6, <3>1 DEF TypeOK
    <3> QED BY <1>1, <3>1, <3>2 DEF BlindDelete, Target
  <2>2. Held[c] = {}
    BY <1>3, <2>1, IdleAgrees, NoRefAssumption DEF Remembered
  <2>3. \A d \in Connections : PendingOn(d)' <=> PendingOn(d) /\ d # c
    BY <1>2, <1>4, <2>1 DEF PendingOn
  <2> QED BY <1>2, <1>3, <1>6, <2>1, <2>2, <2>3, LeaveMaps
<1> QED BY <1>2, <1>5, <1>6

\* Applying an operation is a Take, or a Leave.
LEMMA ApplyMaps ==
  ASSUME IInv, NEW w \in Workers, Apply(w)
  PROVE  Mapped
<1>1. PICK o \in Ids : o = cur[w]
  BY ActingFacts DEF Apply, Acting, Resting
<1> DEFINE c == request[o].conn
           new == IF Kind(o) \in Writes THEN o ELSE NoRef
<1>2. /\ TypeOK /\ Durable /\ Knows("apply", mode[w], o)
      /\ UNCHANGED <<request, secrets>>
      /\ UNCHANGED <<conn, phase>> \/ (MayApply(o) /\ Applying(o))
  BY <1>1, ActingFacts DEF IInv, Apply, Acting, Resting
<1>3. CASE UNCHANGED <<conn, phase>>
  BY <1>2, <1>3, CatalogUnseen DEF Mapped
<1>4. CASE MayApply(o) /\ Applying(o)
  <2>1. /\ Kind(o) \in SagaKinds /\ c \in Connections /\ conn[c].alive /\ conn[c].ref = Old(o)
        /\ \A p \in Ids : Pending(p) /\ p # o => request[p].conn # c
        /\ Old(o) = NoRef <=> Kind(o) = "save"
        /\ SecretChanged(o) /\ phase[o] = "secret_changed" /\ Pending(o)
    BY <1>2, <1>4, ApplyFacts DEF Knows, SecretAt, MayApply, Unapplied, Pending, RowPhases
  <2>2. CASE Kind(o) = "delete_connection"
    <3>1. conn' = [conn EXCEPT ![c].alive = FALSE] /\ phase' = [phase EXCEPT ![o] = "completed"]
      BY <1>4, <2>2 DEF Applying
    <3>2. \A p \in Ids : Pending(p)' <=> Pending(p) /\ p # o
      BY <1>2, <3>1 DEF TypeOK, Pending, RowPhases, Unapplied, Applied
    <3>3. \A d \in Connections : PendingOn(d)' <=> PendingOn(d) /\ d # c
      BY <1>2, <2>1, <3>2 DEF PendingOn
    <3>4. Held[c] = {}
      <4>1. ASSUME NEW r \in secrets, request[r].conn = c PROVE FALSE
        <5>1. r \in Ids /\ Kind(r) \in Writes /\ r # o /\ r # Old(o) /\ r # NoRef
          BY <1>2, <2>1, <2>2, NoRefAssumption DEF TypeOK, Durable, SecretIsWritten, SecretChanged, Writes
        <5>2. \A d \in Connections : conn[d].ref # r
          BY <1>2, <2>1, <4>1, <5>1 DEF Durable, RefIsApplied
        <5>3. ~Pending(r)
          BY <2>1, <4>1, <5>1
        <5>4. \A p \in Ids : Pending(p) => Old(p) # r
          <6>1. \A p \in Ids : Pending(p) => Used(p)
            BY DEF Pending, Used, RowPhases, Unapplied, Applied
          <6> QED BY <1>2, <2>1, <4>1, <5>1, <6>1 DEF Durable, OldIsEarlier
        <5> QED BY <1>2, <4>1, <5>2, <5>3, <5>4 DEF Durable, SecretIsAccounted
      <4> QED BY <2>1, <4>1 DEF Held
    <3> QED BY <1>2, <2>1, <3>1, <3>3, <3>4, LeaveMaps
  <2>3. CASE Kind(o) # "delete_connection"
    <3>1. /\ conn' = [conn EXCEPT ![c].ref = new, ![c].revision = @ + 1]
          /\ phase' = [phase EXCEPT ![o] = "catalog_changed"]
      BY <1>4, <2>3 DEF Applying
    <3>2. \A d \in Connections : conn'[d].alive = conn[d].alive /\ conn'[d].ref = IF d = c THEN new ELSE conn[d].ref
      BY <1>2, <2>1, <3>1 DEF TypeOK
    <3>3. Remembered' = [Remembered EXCEPT ![c] = new]
      BY <2>1, <3>2 DEF Remembered
    <3>4. \A p \in Ids : Pending(p)' <=> Pending(p)
      BY <1>2, <2>1, <3>1 DEF TypeOK, Pending, RowPhases, Unapplied, Applied
    <3>5. UNCHANGED <<Held, Changing>>
      BY <1>2, <3>4 DEF Held, Changing, PendingOn
    <3>6. c \in Changing /\ new \in Held[c] \cup {NoRef}
      BY <2>1 DEF Changing, PendingOn, Held, SecretChanged
    <3>7. Password!Take(c)
      BY <3>3, <3>5, <3>6 DEF Password!Take
    <3> QED BY <2>1, <3>7 DEF Mapped, Password!Next
  <2> QED BY <2>2, <2>3
<1> QED BY <1>2, <1>3, <1>4

\* A row that goes settles its connection.
LEMMA RowGoneMaps ==
  ASSUME IInv, IInv', NEW w \in Workers, Drop(w) \/ Abandon(w)
  PROVE  Mapped
<1>1. PICK o \in Ids : o = cur[w]
  BY ActingFacts DEF Drop, Abandon, Acting, Resting
<1> DEFINE c == request[o].conn
<1>2. TypeOK /\ Durable /\ UNCHANGED <<conn, request, secrets>> /\ \E done \in BOOLEAN : DeleteRow(o, done)
  BY <1>1 DEF IInv, Drop, Abandon
<1>3. /\ \A p \in Ids : p # o => phase'[p] = phase[p]
      /\ Pending(o)' => Pending(o)
  BY <1>2 DEF TypeOK, DeleteRow, Pending, RowPhases, Unapplied, Applied
<1>4. CASE Pending(o)' <=> Pending(o)
  <2>1. \A p \in Ids : Pending(p)' <=> Pending(p)
    BY <1>3, <1>4 DEF Pending
  <2> QED BY <1>2, <2>1, RowsUnseen DEF Mapped
<1>5. CASE Pending(o) /\ ~Pending(o)'
  <2>1. c \in Connections /\ conn[c].alive
    BY <1>2, <1>5 DEF Durable, WellFormed, Used, Pending, RowPhases, Unapplied, Applied, Request, Target
  <2>2. \A p \in Ids : Pending(p)' <=> Pending(p) /\ p # o
    BY <1>3, <1>5 DEF Pending
  <2>3. \A d \in Connections : PendingOn(d)' <=> PendingOn(d) /\ d # c
    BY <1>2, <1>5, <2>2 DEF Durable, OneOperationPerConnection, PendingOn
  <2>4. (Held[c] = {Remembered[c]} \cap Ids)'
    <3>1. conn'[c].alive /\ ~PendingOn(c)'
      BY <1>2, <2>1, <2>3
    <3>2. AllIdleAgree'
      BY AllIdleAgreeNext
    <3> QED BY <1>2, <2>1, <3>1, <3>2 DEF AllIdleAgree, Idle
  <2>5. UNCHANGED <<Remembered, Held>> /\ Changing' = Changing \ {c} /\ c \in Changing
    BY <1>2, <1>5, <2>1, <2>3 DEF Remembered, Held, Changing, PendingOn
  <2>6. Password!Settle(c)
    BY <1>2, <2>4, <2>5 DEF Password!Settle, Password!Wanted
  <2> QED BY <2>1, <2>6 DEF Mapped, Password!Next
<1> QED BY <1>3, <1>4, <1>5

\* Marking and cleaning up move a row on; they leave its connection changing.
LEMMA MarkMaps ==
  ASSUME IInv, NEW w \in Workers, Mark(w) \/ Cleanup(w)
  PROVE  Mapped
<1>1. PICK o \in Ids : o = cur[w]
  BY ActingFacts DEF Mark, Cleanup, Acting, Resting
<1>2. /\ TypeOK /\ UNCHANGED <<conn, secrets, request>>
      /\ \/ UNCHANGED phase
         \/ /\ Pending(o)
            /\ \E q \in {"secret_changed", "cleanup_pending"} : phase' = [phase EXCEPT ![o] = q]
  BY <1>1 DEF IInv, Mark, Cleanup, MaySetPhase
<1>3. \A p \in Ids : Pending(p)' <=> Pending(p)
  BY <1>2 DEF TypeOK, Pending, RowPhases, Unapplied, Applied
<1> QED BY <1>2, <1>3, RowsUnseen DEF Mapped

\* Reading the store or the list changes nothing.
LEMMA ReadMaps ==
  ASSUME NEW w \in Workers,
         \/ VerifySet(w) \/ ReadOld(w) \/ VerifyErase(w) \/ Inspect(w)
         \/ VerifyRetire(w) \/ VerifyUndo(w) \/ VerifyRestore(w)
         \/ BeginRecovery(w) \/ List(w) \/ NextOperation(w) \/ Recovered(w)
         \/ InspectPrepared(w) \/ InspectSecret(w) \/ VerifyActive(w)
  PROVE  Mapped
<1>1. UNCHANGED <<conn, secrets, request, phase>>
  BY DEF VerifySet, ReadOld, VerifyErase, Inspect, VerifyRetire, VerifyUndo, VerifyRestore, BeginRecovery,
     List, NextOperation, Recovered, InspectPrepared, InspectSecret, VerifyActive, catalogVars
<1> QED BY <1>1, CatalogUnseen DEF Mapped

\* A request is not yet a row.
LEMMA StartMaps ==
  ASSUME IInv, NEW w \in Workers, Start(w)
  PROVE  Mapped
<1>1. PICK o \in Ids :
        /\ phase[o] = "unused" /\ UNCHANGED <<conn, secrets>>
        /\ \E q \in Request : request' = [request EXCEPT ![o] = q]
        /\ phase' = [phase EXCEPT ![o] = "request"]
  <2>1. PICK c \in Connections, kind \in Kinds, o \in Ids, pinned \in BOOLEAN : Begin(w, c, kind, o, pinned)
    BY DEF Start
  <2>2. [kind |-> kind, conn |-> c, revision |-> conn[c].revision, old |-> conn[c].ref, pinned |-> pinned]
          \in Request
    BY DEF IInv, TypeOK, Request
  <2> QED BY <2>1, <2>2 DEF Begin
<1>2. TypeOK /\ o \notin secrets
  BY <1>1 DEF IInv, Durable, SecretIsWritten, RowPhases, Unapplied, Applied
<1>3. \A p \in Ids : /\ Pending(p)' <=> Pending(p)
                     /\ Pending(p) => request'[p] = request[p]
  BY <1>1, <1>2 DEF TypeOK, Pending, RowPhases, Unapplied, Applied
<1>4. \A r \in secrets : request'[r].conn = request[r].conn
  BY <1>1, <1>2 DEF TypeOK
<1>5. \A c \in Connections : PendingOn(c)' <=> PendingOn(c)
  BY <1>3 DEF PendingOn
<1> QED BY <1>1, <1>4, <1>5, Unseen DEF Mapped

\* A crash loses requests, never rows.
LEMMA CrashMaps ==
  ASSUME IInv, NEW w \in Workers, Crash(w)
  PROVE  Mapped
<1>1. TypeOK /\ UNCHANGED <<conn, secrets, request>>
  BY DEF IInv, Crash
<1>2. CASE pc[w] \in {"plain_delete", "create"}
  <2>1. cur[w] \in Ids /\ phase[cur[w]] = "request" /\ phase' = [phase EXCEPT ![cur[w]] = "abandoned"]
    BY <1>2, ActingFacts DEF Crash, Acting, Resting, Knows, RowAt
  <2>2. \A p \in Ids : Pending(p)' <=> Pending(p)
    BY <1>1, <2>1 DEF TypeOK, Pending, RowPhases, Unapplied, Applied
  <2> QED BY <1>1, <2>2, RowsUnseen DEF Mapped
<1>3. CASE pc[w] \notin {"plain_delete", "create"}
  BY <1>1, <1>3, CatalogUnseen DEF Crash, Mapped
<1> QED BY <1>2, <1>3

\* An edit keeps the reference.
LEMMA EditMaps ==
  ASSUME IInv, NEW c \in Connections, Edit(c)
  PROVE  Mapped
<1>1. /\ UNCHANGED <<secrets, request, phase>>
      /\ \A d \in Connections : conn'[d].alive = conn[d].alive /\ conn'[d].ref = conn[d].ref
  BY DEF IInv, TypeOK, Edit
<1> QED BY <1>1 DEF Mapped, Remembered, Held, Changing, PendingOn, Pending

\* Every step maps to a step or a stutter, but for a blind delete.
LEMMA StepMaps ==
  ASSUME IInv, IInv', [Next]_vars, [~BlindDelete]_vars
  PROVE  Mapped
<1>1. CASE UNCHANGED vars
  BY <1>1, CatalogUnseen DEF vars, Mapped
<1>2. CASE Next /\ ~BlindDelete
  <2>1. ASSUME NEW w \in Workers, SagaStep(w) PROVE Mapped
    BY <1>2, <2>1, PlainDeleteMaps, CreateMaps, StoreStepsMap, ApplyMaps, MarkMaps, RowGoneMaps, ReadMaps DEF SagaStep
  <2>2. ASSUME NEW w \in Workers, Start(w) \/ BeginRecovery(w) \/ Crash(w) PROVE Mapped
    BY <2>2, StartMaps, ReadMaps, CrashMaps
  <2>3. ASSUME NEW c \in Connections, Edit(c) PROVE Mapped
    BY <2>3, EditMaps
  <2> QED BY <1>2, <2>1, <2>2, <2>3 DEF Next
<1> QED BY <1>1, <1>2

\* A behaviour in which no recovery takes up the operation of a running saga
\* and no delete without a revision meets a password is one of the abstract
\* specification of remembered passwords: catalog and store agree whenever no
\* operation is pending, and change all or nothing (credential_saga.go,
\* credential_operations.go).
THEOREM SagaImplementsPassword ==
  Spec /\ [][~TakesRunning]_vars /\ [][~BlindDelete]_vars => ImplementsPassword
<1>1. Init => Password!Init
  <2> SUFFICES ASSUME Init PROVE Password!Init
    OBVIOUS
  <2>1. \A c \in Connections : Remembered[c] = NoRef /\ Held[c] = {} /\ ~PendingOn(c)
    BY DEF Init, Remembered, Held, PendingOn, Pending, RowPhases, Unapplied, Applied
  <2> QED BY <2>1 DEF Password!Init, Remembered, Held, Changing
<1>2. IInv /\ IInv' /\ [Next]_vars /\ [~BlindDelete]_vars => [Password!Next]_<<Remembered, Held, Changing>>
  BY StepMaps DEF Mapped
<1> QED BY <1>1, <1>2, Invariant, PTL DEF Spec, ImplementsPassword, Password!Spec

-----------------------------------------------------------------------------
(* Success.                                                                *)

\* A plain deletion reports success of its own effect only.
LEMMA PlainDeleteSucceeds ==
  ASSUME IInv, NEW w \in Workers, PlainDelete(w)
  PROVE  SuccessMade(w)
<1>1. SUFFICES ASSUME result[w] # "ok", result'[w] = "ok" PROVE SuccessMade(w)
  BY DEF SuccessMade
<1>2. PICK o \in Ids : o = cur[w]
  BY ActingFacts DEF PlainDelete, Acting, Resting
<1>3. TypeOK /\ phase'[o] = "completed" /\ Kind(o) = "plain_delete"
  <2>1. TypeOK /\ Kind(o) = "plain_delete"
    BY <1>2, ActingFacts DEF IInv, PlainDelete, Acting, Resting, Knows, RowAt
  <2> QED BY <1>1, <1>2, <2>1 DEF TypeOK, PlainDelete, Call, Succeed, Fail
<1> QED BY <1>2, <1>3 DEF SuccessMade, Writes

\* A deletion applied without error has removed the connection, and its secret before.
LEMMA ApplySucceeds ==
  ASSUME IInv, NEW w \in Workers, Apply(w)
  PROVE  SuccessMade(w)
<1>1. SUFFICES ASSUME result[w] # "ok", result'[w] = "ok" PROVE SuccessMade(w)
  BY DEF SuccessMade
<1>2. PICK o \in Ids : o = cur[w]
  BY ActingFacts DEF Apply, Acting, Resting
<1>3. TypeOK /\ Durable /\ Knows("apply", mode[w], o)
  BY <1>2, ActingFacts DEF IInv, Apply, Acting, Resting
<1>4. MayApply(o) /\ Kind(o) = "delete_connection" /\ Applying(o) /\ UNCHANGED <<request, secrets>> /\ cur'[w] = cur[w]
  BY <1>1, <1>2, <1>3 DEF TypeOK, Apply, Call, Succeed, Finish, Goto
<1>5. request[o].conn \in Connections
  BY <1>3, <1>4 DEF Durable, WellFormed, Used, MayApply, Request
<1>6. phase'[o] = "completed" /\ ~conn'[request[o].conn].alive
  BY <1>3, <1>4, <1>5 DEF TypeOK, Applying
<1>7. Old(o) \notin secrets
  BY <1>3, <1>4 DEF Knows, SecretAt, MayApply, Unapplied, SecretChanged, Writes
<1> QED BY <1>2, <1>4, <1>6, <1>7 DEF SuccessMade, Writes, Target

\* A running saga finds its row gone only because its deletion was applied.
LEMMA InspectSucceeds ==
  ASSUME IInv, NEW w \in Workers, Inspect(w)
  PROVE  SuccessMade(w)
<1>1. SUFFICES ASSUME result[w] # "ok", result'[w] = "ok" PROVE SuccessMade(w)
  BY DEF SuccessMade
<1>2. PICK o \in Ids : o = cur[w]
  BY ActingFacts DEF Inspect, Acting, Resting
<1>3. TypeOK /\ Durable /\ Knows("inspect", mode[w], o) /\ Used(o) /\ UNCHANGED catalogVars
  BY <1>2, ActingFacts DEF IInv, Inspect, Acting, Resting
<1>4. mode[w] = "live" /\ ~Pending(o) /\ cur'[w] = cur[w]
  BY <1>1, <1>2, <1>3 DEF TypeOK, Inspect, Succeed, Finish, Revert, Fail, Goto
<1>5. phase[o] = "completed" /\ Kind(o) = "delete_connection"
  BY <1>3, <1>4 DEF Knows, LiveRowAt, Pending, RowPhases, Unapplied, Applied
<1>6. Old(o) # NoRef
  BY <1>3, <1>5 DEF Durable, WellFormed
<1>7. ~Target(o).alive /\ Old(o) \notin secrets
  BY <1>3, <1>5, <1>6 DEF Durable, OldIsRetired, Changed
<1> QED BY <1>2, <1>3, <1>4, <1>5, <1>7 DEF SuccessMade, Writes, Target, catalogVars

\* A running saga that drops its row has been applied.
LEMMA DropSucceeds ==
  ASSUME IInv, NEW w \in Workers, Drop(w)
  PROVE  SuccessMade(w)
<1>1. SUFFICES ASSUME result[w] # "ok", result'[w] = "ok" PROVE SuccessMade(w)
  BY DEF SuccessMade
<1>2. PICK o \in Ids : o = cur[w]
  BY ActingFacts DEF Drop, Acting, Resting
<1>3. TypeOK /\ Durable /\ Knows("drop", mode[w], o)
  BY <1>2, ActingFacts DEF IInv, Drop, Acting, Resting
<1>4. mode[w] = "live" /\ DeleteRow(o, TRUE)
  BY <1>1, <1>2, <1>3 DEF TypeOK, Drop, Call, Succeed, Fail
<1>5. phase[o] \in Applied
  BY <1>3, <1>4 DEF Knows, LiveRowAt
<1>6. phase'[o] = "completed"
  BY <1>3, <1>4, <1>5 DEF TypeOK, DeleteRow, Applied, Unapplied
<1>7. Kind(o) # "delete_connection" /\ (Kind(o) \in Writes => o \in secrets)
  BY <1>3, <1>5 DEF Durable, AppliedIsShown
<1> QED BY <1>2, <1>6, <1>7 DEF SuccessMade

\* No other step reports success.
LEMMA OthersReportNothing ==
  ASSUME TypeOK, NEW v \in Workers, NEW w \in Workers,
         \/ Start(v) \/ Create(v) \/ SetSecret(v) \/ VerifySet(v) \/ ReadOld(v) \/ EraseOld(v)
         \/ VerifyErase(v) \/ Mark(v) \/ Cleanup(v) \/ RetireOld(v) \/ VerifyRetire(v)
         \/ UndoNew(v) \/ VerifyUndo(v) \/ RestoreOld(v) \/ VerifyRestore(v) \/ Abandon(v)
         \/ BeginRecovery(v) \/ List(v) \/ NextOperation(v) \/ Recovered(v)
         \/ InspectPrepared(v) \/ InspectSecret(v) \/ VerifyActive(v) \/ Crash(v)
         \/ (v # w /\ (PlainDelete(v) \/ Apply(v) \/ Inspect(v) \/ Drop(v)))
  PROVE  SuccessMade(w)
<1>1. result'[w] \in {result[w], "none", "error"}
  <2>1. CASE Start(v) \/ BeginRecovery(v) \/ Crash(v)
    BY <2>1 DEF TypeOK, Start, Begin, BeginRecovery, Crash
  <2>2. CASE \/ Create(v) \/ SetSecret(v) \/ VerifySet(v) \/ ReadOld(v) \/ EraseOld(v) \/ VerifyErase(v)
             \/ Mark(v) \/ Cleanup(v) \/ RetireOld(v) \/ VerifyRetire(v)
    BY <2>2 DEF TypeOK, Create, SetSecret, VerifySet, ReadOld, EraseOld, VerifyErase, Mark, Cleanup,
       RetireOld, VerifyRetire, Goto, Fail, Revert
  <2>3. CASE \/ UndoNew(v) \/ VerifyUndo(v) \/ RestoreOld(v) \/ VerifyRestore(v) \/ Abandon(v)
             \/ List(v) \/ NextOperation(v) \/ Recovered(v)
             \/ InspectPrepared(v) \/ InspectSecret(v) \/ VerifyActive(v)
    BY <2>3 DEF TypeOK, UndoNew, VerifyUndo, RestoreOld, VerifyRestore, Abandon, List, NextOperation,
       Recovered, InspectPrepared, InspectSecret, VerifyActive, Goto, Fail, Finish
  <2>4. CASE v # w /\ (PlainDelete(v) \/ Apply(v) \/ Inspect(v) \/ Drop(v))
    BY <2>4 DEF TypeOK, PlainDelete, Apply, Inspect, Drop, Goto, Fail, Succeed, Finish, Revert
  <2> QED BY <2>1, <2>2, <2>3, <2>4
<1> QED BY <1>1 DEF SuccessMade

\* Any step that reports success comes after the change was made.
LEMMA StepSucceeds ==
  ASSUME IInv, [Next]_vars, NEW w \in Workers
  PROVE  SuccessMade(w)
<1>1. ASSUME NEW v \in Workers, SagaStep(v) PROVE SuccessMade(w)
  <2>1. TypeOK
    BY DEF IInv
  <2> QED BY <1>1, <2>1, PlainDeleteSucceeds, ApplySucceeds, InspectSucceeds, DropSucceeds, OthersReportNothing
          DEF SagaStep
<1>2. ASSUME NEW v \in Workers, Start(v) \/ BeginRecovery(v) \/ Crash(v) PROVE SuccessMade(w)
  BY <1>2, OthersReportNothing DEF IInv
<1>3. ASSUME UNCHANGED result PROVE SuccessMade(w)
  BY <1>3 DEF SuccessMade
<1> QED BY <1>1, <1>2, <1>3 DEF Next, Edit, vars, workerVars

\* While no recovery has taken up the operation of a running saga, a save, a
\* replace, a removal or a deletion that returns no error has changed the
\* catalog, and the store with it (writeCredential, deleteCredential,
\* applyAndInspect, finishApplied).
THEOREM SuccessIsEarned == Spec /\ [][~TakesRunning]_vars => SuccessIsReal
<1>1. IInv /\ [Next]_vars => [\A w \in Workers : SuccessMade(w)]_vars
  BY StepSucceeds
<1> QED BY <1>1, Invariant, PTL DEF Spec, SuccessIsReal

-----------------------------------------------------------------------------
(* The rows, whoever works on them: what holds even while recoveries work  *)
(* on the operations of running sagas.                                     *)

\* Worker w moves the row of its operation, or only its own control.
RowStep(w) ==
    LET o == cur[w] IN
    /\ Continues(w) /\ UNCHANGED request
    /\ pc'[w] \notin Begun \cup {"list"} /\ (pc'[w] = "next" => mode[w] # "live")
    /\ Acting(w)' \/ Pending(o)' => Kind(o) # "plain_delete"
    /\ pc'[w] = "restore" => Kind(o) \notin Writes
    /\ \A p \in Ids : p # o => phase'[p] = phase[p]
    /\ phase'[o] \notin {"unused", "request"}
    /\ Pending(o)' => Pending(o) \/ (pc[w] = "create" /\ MayCreate(o))

\* What the rows satisfy at the operation a worker acts on.
LEMMA RowFacts ==
  ASSUME RowInv, NEW w \in Workers, Acting(w)
  PROVE  /\ cur[w] \in Ids /\ Used(cur[w]) /\ request[cur[w]] \in Request
         /\ Kind(cur[w]) \in Kinds /\ request[cur[w]].conn \in Connections
         /\ Old(cur[w]) \in Ids \cup {NoRef}
         /\ Kind(cur[w]) \in {"save", "plain_delete"} <=> Old(cur[w]) = NoRef
<1>1. cur[w] \in Ids /\ Used(cur[w])
  BY DEF RowInv, OnItsRow, Used
<1> QED BY <1>1 DEF RowInv, Requested, Request, Kind, Old

\* Such a step keeps what the rows satisfy.
LEMMA RowFrame ==
  ASSUME RowInv, TypeOK', NEW w \in Workers, RowStep(w)
  PROVE  RowInv'
<1> DEFINE o == cur[w]
<1>1. /\ o \in Ids /\ Used(o) /\ Acting(w) /\ UNCHANGED <<request, mode, cur, listed>>
      /\ \A v \in Workers : v # w => pc'[v] = pc[v] /\ todo'[v] = todo[v]
      /\ \A p \in Ids : p # o => phase'[p] = phase[p]
      /\ phase'[o] \notin {"unused", "request"}
      /\ Pending(o)' => Pending(o) \/ (pc[w] = "create" /\ MayCreate(o))
      /\ pc'[w] \notin Begun \cup {"list"}
  BY RowFacts DEF RowStep, Continues
<1>2. /\ \A p \in Ids : Kind(p)' = Kind(p) /\ Old(p)' = Old(p) /\ (Used(p)' <=> Used(p))
      /\ \A p \in Ids : p # o => Pending(p)' = Pending(p)
  BY <1>1 DEF Kind, Old, Used, Pending
<1>3. Requested'
  BY <1>1, <1>2 DEF RowInv, Requested, RowStep
<1>4. \A v \in Workers : v # w /\ Acting(v) /\ pc[v] \in Begun => cur[v] # o
  BY <1>1 DEF RowInv, OnItsRow, OwnRequest
<1>5. OnItsRow'
  <2> SUFFICES ASSUME NEW v \in Workers
               PROVE  (/\ pc[v] \in {"list", "next"} => mode[v] # "live"
                       /\ Acting(v) =>
                             /\ cur[v] \in Ids
                             /\ pc[v] \in Begun =>
                                   /\ phase[cur[v]] = "request"
                                   /\ Kind(cur[v]) = "plain_delete" <=> pc[v] = "plain_delete"
                             /\ pc[v] \notin Begun =>
                                   phase[cur[v]] \notin {"unused", "request"} /\ Kind(cur[v]) # "plain_delete"
                             /\ pc[v] = "restore" => Kind(cur[v]) \notin Writes)'
    BY DEF OnItsRow
  <2>1. CASE v = w
    BY <1>1, <1>2, <2>1 DEF RowStep
  <2>2. CASE v # w
    <3>1. /\ pc'[v] = pc[v] /\ mode'[v] = mode[v] /\ cur'[v] = cur[v] /\ (Acting(v)' <=> Acting(v))
      BY <1>1, <2>2 DEF Acting
    <3> QED BY <1>1, <1>2, <1>4, <2>2, <3>1 DEF RowInv, OnItsRow
  <2> QED BY <2>1, <2>2
<1>6. OwnRequest'
  BY <1>1 DEF RowInv, OwnRequest
<1>7. ListedIsRow'
  <2>1. \A v \in Workers : todo'[v] \subseteq todo[v]
    BY <1>1 DEF RowStep, Continues
  <2> QED BY <1>1, <1>2, <2>1 DEF RowInv, ListedIsRow
<1>8. OneOperationPerConnection'
  <2>1. pc[w] = "create" /\ MayCreate(o) => \A p \in Ids : Pending(p) => request[p].conn # request[o].conn
    BY DEF MayCreate, PendingOn
  <2> QED BY <1>1, <1>2, <2>1 DEF RowInv, OneOperationPerConnection
<1>9. PassedIsGone'
  <2> SUFFICES ASSUME NEW v \in Workers, NEW p \in Ids,
                      mode'[v] # "live", Acting(v)' \/ pc'[v] = "next",
                      listed'[v][p] \in RowPhases, p \notin todo'[v],
                      ~(Acting(v)' /\ cur'[v] = p)
               PROVE  ~Pending(p)'
    BY DEF PassedIsGone
  <2>1. phase[p] # "request"
    BY <1>1 DEF RowInv, ListedIsRow, RowPhases, Unapplied, Applied
  <2>2. CASE v # w
    <3>1. ~Pending(p)
      BY <1>1, <2>2 DEF RowInv, PassedIsGone, Acting
    <3>2. p = o /\ pc[w] = "create" => FALSE
      BY <1>1, <2>1 DEF RowInv, OnItsRow, Begun
    <3> QED BY <1>1, <1>2, <3>1, <3>2
  <2>3. CASE v = w /\ p = o
    BY <1>1, <2>3 DEF RowStep, Continues, Acting
  <2>4. CASE v = w /\ p # o
    <3>1. p \notin todo[w]
      BY <2>4 DEF RowStep, Continues, Acting, Resting
    <3> QED BY <1>1, <1>2, <2>4, <3>1 DEF RowInv, PassedIsGone
  <2> QED BY <2>2, <2>3, <2>4
<1> QED BY <1>3, <1>5, <1>6, <1>7, <1>8, <1>9 DEF RowInv

\* Where Goto, Succeed and Fail lead.
LEMMA RowMoves ==
  ASSUME TypeOK, NEW w \in Workers, Acting(w),
         \/ \E label \in Labels \ (Begun \cup {"list", "next"}) :
               Goto(w, label) /\ (label = "restore" => Kind(cur[w]) \notin Writes)
         \/ Succeed(w)
         \/ Fail(w)
  PROVE  /\ pc' \in [Workers -> Labels] /\ mode' \in [Workers -> {"live", "boot", "recover"}]
         /\ cur' \in [Workers -> Ids \cup {NoRef}] /\ todo' \in [Workers -> SUBSET Ids]
         /\ listed' \in [Workers -> [Ids -> Phases]]
         /\ result' \in [Workers -> {"none", "ok", "error"}]
         /\ pc'[w] \notin Begun \cup {"list"} /\ (pc'[w] = "next" => mode[w] # "live" /\ Succeed(w))
         /\ pc'[w] = "restore" => Kind(cur[w]) \notin Writes
         /\ Succeed(w) \/ Fail(w) => ~Acting(w)'
         /\ (mode[w] # "live" /\ pc'[w] = "next" => ~Pending(cur[w])') => Continues(w)
<1>1. CASE \E label \in Labels \ (Begun \cup {"list", "next"}) :
             Goto(w, label) /\ (label = "restore" => Kind(cur[w]) \notin Writes)
  <2>1. PICK label \in Labels \ (Begun \cup {"list", "next"}) :
           Goto(w, label) /\ (label = "restore" => Kind(cur[w]) \notin Writes)
    BY <1>1
  <2>2. pc'[w] = label
    BY <2>1 DEF TypeOK, Goto
  <2>3. ~Acting(w)' => label \in {"down", "ready"}
    BY <2>1, <2>2 DEF Acting, Resting
  <2>4. Succeed(w) \/ Fail(w) => pc'[w] \in {"down", "ready"}
    BY <2>1, <2>2 DEF TypeOK, Succeed, Fail
  <2> QED BY <2>1, <2>2, <2>3, <2>4, Moves DEF Acting, Resting
<1>2. CASE Succeed(w)
  <2>1. pc'[w] \in {"ready", "next"} /\ (pc'[w] = "next" => mode[w] # "live")
    BY <1>2 DEF TypeOK, Succeed
  <2> QED BY <1>2, <2>1, Moves DEF Begun, Acting, Resting
<1>3. CASE Fail(w)
  <2>1. pc'[w] \in {"down", "ready"}
    BY <1>3 DEF TypeOK, Fail
  <2> QED BY <1>3, <2>1, Moves DEF Begun, Acting, Resting
<1> QED BY <1>1, <1>2, <1>3

\* A step that calls the store, or only reads.
LEMMA RowCall ==
  ASSUME RowInv, NEW w \in Workers, Acting(w), pc[w] \notin Begun,
         UNCHANGED catalogVars, secrets' \subseteq Ids, faults' \in Nat,
         \/ \E label \in Labels \ (Begun \cup {"list", "next"}) :
               Goto(w, label) /\ (label = "restore" => Kind(cur[w]) \notin Writes)
         \/ Succeed(w) /\ ~Pending(cur[w])
         \/ Fail(w)
  PROVE  RowInv'
<1>1. TypeOK /\ UNCHANGED <<conn, request, phase>>
  BY DEF RowInv, catalogVars
<1>2. /\ phase[cur[w]] \notin {"unused", "request"} /\ Kind(cur[w]) # "plain_delete" /\ cur[w] \in Ids
  BY DEF RowInv, OnItsRow
<1>3. /\ pc'[w] \notin Begun \cup {"list"} /\ (pc'[w] = "next" => mode[w] # "live" /\ Succeed(w))
      /\ pc'[w] = "restore" => Kind(cur[w]) \notin Writes
      /\ (mode[w] # "live" /\ pc'[w] = "next" => ~Pending(cur[w])') => Continues(w)
  BY <1>1, RowMoves
<1>4. Pending(cur[w])' <=> Pending(cur[w])
  BY <1>1, <1>3, RowMoves DEF Pending, Goto, Succeed, Fail
<1>5. pc'[w] = "next" => ~Pending(cur[w])
  BY <1>1, <1>3 DEF TypeOK, Goto, Fail
<1>6. RowStep(w)
  BY <1>1, <1>2, <1>3, <1>4, <1>5 DEF RowStep
<1>7. TypeOK'
  BY <1>1, RowMoves DEF TypeOK
<1> QED BY <1>6, <1>7, RowFrame

\* The steps that only read.
LEMMA RowReads ==
  ASSUME RowInv, NEW w \in Workers,
         \/ VerifySet(w) \/ ReadOld(w) \/ VerifyErase(w) \/ VerifyRetire(w) \/ VerifyUndo(w)
         \/ VerifyRestore(w) \/ InspectPrepared(w) \/ InspectSecret(w) \/ VerifyActive(w) \/ Inspect(w)
  PROVE  RowInv'
<1>1. /\ TypeOK /\ Acting(w) /\ pc[w] \notin Begun /\ UNCHANGED catalogVars /\ UNCHANGED secrets /\ faults' \in Nat
  BY DEF RowInv, TypeOK, VerifySet, ReadOld, VerifyErase, VerifyRetire, VerifyUndo, VerifyRestore,
     InspectPrepared, InspectSecret, VerifyActive, Inspect, Fault, Acting, Resting, Begun
<1> DEFINE moved == \/ \E label \in Labels \ (Begun \cup {"list", "next"}) :
                          Goto(w, label) /\ (label = "restore" => Kind(cur[w]) \notin Writes)
                    \/ Succeed(w) /\ ~Pending(cur[w])
                    \/ Fail(w)
<1>2. CASE VerifySet(w) \/ ReadOld(w) \/ VerifyErase(w) \/ VerifyRetire(w)
  <2>1. \/ Goto(w, "mark") \/ Goto(w, "undo") \/ Goto(w, "erase") \/ Goto(w, "abandon")
        \/ Goto(w, "drop") \/ Fail(w)
    BY <1>2 DEF VerifySet, ReadOld, VerifyErase, VerifyRetire
  <2>2. {"mark", "undo", "erase", "abandon", "drop"} \subseteq Labels \ (Begun \cup {"list", "next"})
    BY DEF Labels, Begun
  <2> QED BY <1>1, <2>1, <2>2, RowCall DEF RowInv, TypeOK
<1>3. CASE VerifyUndo(w) \/ VerifyRestore(w) \/ InspectPrepared(w) \/ InspectSecret(w) \/ VerifyActive(w)
  <2>1. \/ Goto(w, "mark") \/ Goto(w, "abandon") \/ Goto(w, "apply") \/ Goto(w, "cleanup")
        \/ Goto(w, "drop") \/ Fail(w)
    BY <1>3 DEF VerifyUndo, VerifyRestore, InspectPrepared, InspectSecret, VerifyActive, Finish
  <2>2. {"mark", "abandon", "apply", "cleanup", "drop"} \subseteq Labels \ (Begun \cup {"list", "next"})
    BY DEF Labels, Begun
  <2> QED BY <1>1, <2>1, <2>2, RowCall DEF RowInv, TypeOK
<1>4. CASE Inspect(w)
  <2>1. \/ Goto(w, "cleanup") \/ Goto(w, "drop") \/ Goto(w, "undo")
        \/ Goto(w, "restore") /\ Kind(cur[w]) \notin Writes
        \/ Succeed(w) /\ ~Pending(cur[w])
        \/ Fail(w)
    BY <1>4 DEF Inspect, Finish, Revert
  <2>2. {"cleanup", "drop", "undo", "restore"} \subseteq Labels \ (Begun \cup {"list", "next"})
    BY DEF Labels, Begun
  <2> QED BY <1>1, <2>1, <2>2, RowCall DEF RowInv, TypeOK
<1> QED BY <1>2, <1>3, <1>4

\* The steps that call the store.
LEMMA RowStores ==
  ASSUME RowInv, NEW w \in Workers,
         SetSecret(w) \/ EraseOld(w) \/ RetireOld(w) \/ UndoNew(w) \/ RestoreOld(w)
  PROVE  RowInv'
<1>1. /\ TypeOK /\ Acting(w) /\ pc[w] \notin Begun /\ UNCHANGED catalogVars
      /\ \E done, ok \in BOOLEAN : Call(done, ok)
  BY DEF RowInv, SetSecret, EraseOld, RetireOld, UndoNew, RestoreOld, Acting, Resting, Begun
<1>2. faults' \in Nat
  BY <1>1 DEF TypeOK, Call
<1>3. cur[w] \in Ids /\ (RestoreOld(w) => Old(cur[w]) \in Ids)
  BY <1>1, RowFacts DEF RowInv, OnItsRow, RestoreOld, Writes, Begun
<1>4. secrets' \subseteq Ids
  BY <1>1, <1>3 DEF TypeOK, SetSecret, EraseOld, RetireOld, UndoNew, RestoreOld, StoreSet, StoreDelete
<1>5. \E label \in Labels \ (Begun \cup {"list", "next"}) : Goto(w, label) /\ label # "restore"
  <2>1. {"verify_set", "verify_erase", "verify_retire", "verify_undo", "verify_restore"}
           \subseteq Labels \ (Begun \cup {"list", "next", "restore"})
    BY DEF Labels, Begun
  <2> QED BY <2>1 DEF SetSecret, EraseOld, RetireOld, UndoNew, RestoreOld
<1> QED BY <1>1, <1>2, <1>4, <1>5, RowCall

\* A step that changes the row of its operation.
LEMMA RowChange ==
  ASSUME RowInv, NEW w \in Workers, Acting(w), UNCHANGED <<request, secrets>>, faults' \in Nat,
         conn' \in [Connections -> [alive : BOOLEAN, revision : Nat, ref : Ids \cup {NoRef}]],
         NEW q \in Phases \ {"unused", "request"}, phase' = phase \/ phase' = [phase EXCEPT ![cur[w]] = q],
         phase' = phase => pc[w] \notin Begun,
         q \in RowPhases => Pending(cur[w]) \/ (pc[w] = "create" /\ MayCreate(cur[w])),
         pc[w] # "plain_delete" \/ q \notin RowPhases,
         \/ \E label \in Labels \ (Begun \cup {"list", "next"}) :
               Goto(w, label) /\ (label = "restore" => Kind(cur[w]) \notin Writes) /\ pc[w] # "plain_delete"
         \/ Succeed(w) /\ ~Pending(cur[w])'
         \/ Fail(w)
  PROVE  RowInv'
<1> DEFINE o == cur[w]
<1>1. /\ TypeOK /\ o \in Ids
      /\ pc[w] \notin Begun => phase[o] \notin {"unused", "request"} /\ Kind(o) # "plain_delete"
      /\ pc[w] \in Begun => (Kind(o) = "plain_delete" <=> pc[w] = "plain_delete")
  BY DEF RowInv, OnItsRow
<1>2. /\ phase' \in [Ids -> Phases] /\ phase'[o] \notin {"unused", "request"}
      /\ \A p \in Ids : p # o => phase'[p] = phase[p]
      /\ phase' = phase \/ phase'[o] = q
  BY <1>1 DEF TypeOK
<1>3. /\ pc'[w] \notin Begun \cup {"list"} /\ (pc'[w] = "next" => mode[w] # "live" /\ Succeed(w))
      /\ pc'[w] = "restore" => Kind(o) \notin Writes
      /\ Succeed(w) \/ Fail(w) => ~Acting(w)'
      /\ (mode[w] # "live" /\ pc'[w] = "next" => ~Pending(o)') => Continues(w)
  BY <1>1, RowMoves
<1>4. cur'[w] = o
  BY DEF Goto, Succeed, Fail
<1>5. Pending(o)' => Pending(o) \/ (pc[w] = "create" /\ MayCreate(o))
  BY <1>2, <1>4 DEF Pending
<1>6. Pending(o)' => Kind(o) # "plain_delete"
  BY <1>1, <1>5 DEF RowInv, Requested, Used, Pending, RowPhases, Unapplied, Applied, Begun
<1>7. Acting(w)' => Kind(o) # "plain_delete"
  BY <1>1, <1>3 DEF Begun
<1>8. Continues(w)
  <2>1. pc'[w] = "next" => ~Fail(w) /\ ~\E label \in Labels \ (Begun \cup {"list", "next"}) : Goto(w, label)
    BY <1>1 DEF TypeOK, Goto, Fail
  <2> QED BY <1>3, <1>4, <2>1
<1>9. RowStep(w)
  BY <1>2, <1>3, <1>5, <1>6, <1>7, <1>8 DEF RowStep
<1>10. TypeOK'
  BY <1>1, <1>2, RowMoves DEF TypeOK
<1> QED BY <1>9, <1>10, RowFrame

\* Marking, cleaning up, and deleting the row.
LEMMA RowMarks ==
  ASSUME RowInv, NEW w \in Workers, Mark(w) \/ Cleanup(w)
  PROVE  RowInv'
<1> DEFINE o == cur[w]
           q == IF Mark(w) THEN "secret_changed" ELSE "cleanup_pending"
<1>1. /\ TypeOK /\ Acting(w) /\ pc[w] \in {"mark", "cleanup"} /\ UNCHANGED <<conn, request, secrets>>
      /\ phase' = phase \/ (Pending(o) /\ phase' = [phase EXCEPT ![o] = q])
  BY DEF RowInv, Mark, Cleanup, MaySetPhase, Acting, Resting
<1>2. faults' \in Nat
  BY <1>1 DEF TypeOK, Mark, Cleanup, Call
<1>3. \/ Goto(w, "apply") \/ Goto(w, "inspect_secret") \/ Goto(w, "undo") \/ Goto(w, "retire")
      \/ Goto(w, "restore") /\ Kind(o) \notin Writes
      \/ Fail(w)
  BY DEF Mark, Cleanup, Revert
<1>4. {"apply", "inspect_secret", "undo", "retire", "restore"} \subseteq Labels \ (Begun \cup {"list", "next"})
      /\ pc[w] \notin Begun
  BY <1>1 DEF Labels, Begun
<1>5. q \in Phases \ {"unused", "request"}
  BY DEF Phases, RowPhases, Unapplied, Applied
<1>6. conn' \in [Connections -> [alive : BOOLEAN, revision : Nat, ref : Ids \cup {NoRef}]]
  BY <1>1 DEF TypeOK
<1>7. CASE phase' = phase
  <2>1. "abandoned" \in Phases \ {"unused", "request"} /\ "abandoned" \notin RowPhases
    BY DEF Phases, RowPhases, Unapplied, Applied
  <2> QED BY <1>1, <1>2, <1>3, <1>4, <1>6, <1>7, <2>1, RowChange
<1>8. CASE Pending(o) /\ phase' = [phase EXCEPT ![o] = q]
  BY <1>1, <1>2, <1>3, <1>4, <1>5, <1>6, <1>8, RowChange
<1> QED BY <1>1, <1>7, <1>8

LEMMA RowGoes ==
  ASSUME RowInv, NEW w \in Workers, Drop(w) \/ Abandon(w)
  PROVE  RowInv'
<1> DEFINE o == cur[w]
<1>1. /\ TypeOK /\ Acting(w) /\ pc[w] \notin Begun /\ UNCHANGED <<conn, request, secrets>> /\ o \in Ids
      /\ phase[o] \notin {"unused", "request"}
  BY DEF RowInv, OnItsRow, Drop, Abandon, Acting, Resting, Begun
<1>2. PICK done \in BOOLEAN, ok \in BOOLEAN :
        Call(done, ok) /\ DeleteRow(o, done) /\ (Fail(w) \/ (ok /\ Succeed(w)))
  BY DEF Drop, Abandon
<1>3. faults' \in Nat /\ (ok => done)
  BY <1>1, <1>2 DEF TypeOK, Call
<1>4. PICK q \in Phases \ {"unused", "request"} :
        phase' = [phase EXCEPT ![o] = q] /\ (q \in RowPhases => Pending(o)) /\ (done => q \notin RowPhases)
  <2>1. phase[o] \in RowPhases \cup {"completed", "abandoned"}
    BY <1>1 DEF TypeOK, Phases
  <2>2. phase' = [phase EXCEPT ![o] = phase'[o]]
    BY <1>1, <1>2 DEF TypeOK, DeleteRow
  <2>3. CASE done /\ phase[o] \in RowPhases
    <3>1. phase'[o] \in {"completed", "abandoned"}
      BY <1>1, <1>2, <2>3 DEF TypeOK, DeleteRow, RowPhases, Unapplied, Applied
    <3>2. {"completed", "abandoned"} \subseteq Phases \ (RowPhases \cup {"unused", "request"})
      BY DEF Phases, RowPhases, Unapplied, Applied
    <3> QED BY <2>2, <3>1, <3>2
  <2>4. CASE ~done \/ phase[o] \notin RowPhases
    <3>1. phase'[o] = phase[o] /\ phase[o] \in Phases
      BY <1>1, <1>2, <2>4 DEF TypeOK, DeleteRow, RowPhases
    <3> QED BY <1>1, <2>2, <2>4, <3>1 DEF Pending
  <2> QED BY <2>3, <2>4
<1>5. conn' \in [Connections -> [alive : BOOLEAN, revision : Nat, ref : Ids \cup {NoRef}]]
  BY <1>1 DEF TypeOK
<1>6. Succeed(w) => Fail(w) \/ ~Pending(o)'
  <2>1. Succeed(w) => cur'[w] = o
    BY DEF Succeed
  <2> QED BY <1>1, <1>2, <1>3, <1>4, <2>1 DEF TypeOK, Pending
<1>7. pc[w] # "plain_delete"
  BY <1>1 DEF Begun
<1> QED BY <1>1, <1>2, <1>3, <1>4, <1>5, <1>6, <1>7, RowChange

\* Applying an operation.
LEMMA RowApplies ==
  ASSUME RowInv, NEW w \in Workers, Apply(w)
  PROVE  RowInv'
<1> DEFINE o == cur[w]
           c == request[o].conn
<1>1. /\ TypeOK /\ Acting(w) /\ pc[w] = "apply" /\ pc[w] \notin Begun /\ UNCHANGED <<request, secrets>>
      /\ o \in Ids /\ c \in Connections
  BY RowFacts DEF RowInv, Apply, Acting, Resting, Begun
<1>2. faults' \in Nat
  BY <1>1 DEF TypeOK, Apply, Call, Fault
<1>3. {"inspect", "cleanup", "drop"} \subseteq Labels \ (Begun \cup {"list", "next"})
  BY DEF Labels, Begun
<1>4. CASE UNCHANGED <<conn, phase>>
  <2>1. Goto(w, "inspect") \/ Goto(w, "cleanup") \/ Goto(w, "drop") \/ Succeed(w)
    BY DEF Apply, Finish
  <2>2. Succeed(w) => ~Pending(o) \/ Goto(w, "inspect") \/ Goto(w, "cleanup") \/ Goto(w, "drop")
    <3> SUFFICES ASSUME Succeed(w), ~Goto(w, "inspect"), ~Goto(w, "cleanup"), ~Goto(w, "drop") PROVE FALSE
      OBVIOUS
    <3>1. MayApply(o) /\ Applying(o) /\ Kind(o) = "delete_connection"
      BY DEF Apply, Call, Finish
    <3>2. phase'[o] = "completed" /\ phase[o] = "secret_changed"
      BY <1>1, <3>1 DEF TypeOK, Applying, MayApply
    <3> QED BY <1>4, <3>2
  <2>3. UNCHANGED catalogVars
    BY <1>1, <1>4 DEF catalogVars
  <2>4. secrets' \subseteq Ids
    BY <1>1 DEF TypeOK
  <2> QED BY <1>1, <1>2, <1>3, <2>1, <2>2, <2>3, <2>4, RowCall
<1>5. CASE MayApply(o) /\ Applying(o)
  <2>1. Pending(o)
    BY <1>5 DEF MayApply, Pending, RowPhases, Unapplied
  <2>2. CASE Kind(o) = "delete_connection"
    <3>1. /\ conn' = [conn EXCEPT ![c].alive = FALSE] /\ phase' = [phase EXCEPT ![o] = "completed"]
      BY <1>5, <2>2 DEF Applying
    <3>2. conn' \in [Connections -> [alive : BOOLEAN, revision : Nat, ref : Ids \cup {NoRef}]]
      <4>1. [conn[c] EXCEPT !.alive = FALSE] \in [alive : BOOLEAN, revision : Nat, ref : Ids \cup {NoRef}]
        <5>1. conn[c] \in [alive : BOOLEAN, revision : Nat, ref : Ids \cup {NoRef}]
          BY <1>1 DEF TypeOK
        <5> QED BY <5>1
      <4>2. conn' = [conn EXCEPT ![c] = [conn[c] EXCEPT !.alive = FALSE]]
        BY <3>1
      <4> QED BY <1>1, <4>1, <4>2 DEF TypeOK
    <3>3. Goto(w, "inspect") \/ Goto(w, "cleanup") \/ Goto(w, "drop") \/ Succeed(w)
      BY DEF Apply, Finish
    <3>4. Succeed(w) => ~Pending(o)'
      <4>1. Succeed(w) => cur'[w] = o
        BY DEF Succeed
      <4> QED BY <1>1, <3>1, <4>1 DEF TypeOK, Pending, RowPhases, Unapplied, Applied
    <3>5. "completed" \in Phases \ {"unused", "request"} /\ "completed" \notin RowPhases
      BY DEF Phases, RowPhases, Unapplied, Applied
    <3> QED BY <1>1, <1>2, <1>3, <3>1, <3>2, <3>3, <3>4, <3>5, RowChange
  <2>3. CASE Kind(o) # "delete_connection"
    <3>1. /\ conn' = [conn EXCEPT ![c].ref = IF Kind(o) \in Writes THEN o ELSE NoRef,
                                  ![c].revision = @ + 1]
          /\ phase' = [phase EXCEPT ![o] = "catalog_changed"]
      BY <1>5, <2>3 DEF Applying
    <3>2. conn' \in [Connections -> [alive : BOOLEAN, revision : Nat, ref : Ids \cup {NoRef}]]
      <4> DEFINE shown == IF Kind(o) \in Writes THEN o ELSE NoRef
                 row == [conn[c] EXCEPT !.ref = shown, !.revision = @ + 1]
      <4>1. row \in [alive : BOOLEAN, revision : Nat, ref : Ids \cup {NoRef}]
        <5>1. conn[c] \in [alive : BOOLEAN, revision : Nat, ref : Ids \cup {NoRef}]
          BY <1>1 DEF TypeOK
        <5>2. shown \in Ids \cup {NoRef}
          BY <1>1 DEF TypeOK
        <5>3. conn[c].revision + 1 \in Nat
          BY <5>1
        <5> HIDE DEF shown
        <5> QED BY <5>1, <5>2, <5>3
      <4>2. conn' = [conn EXCEPT ![c] = row]
        BY <3>1
      <4> QED BY <1>1, <4>1, <4>2 DEF TypeOK
    <3>3. Goto(w, "inspect") \/ Goto(w, "cleanup") \/ Goto(w, "drop")
      BY <2>3 DEF Apply, Finish
    <3>4. "catalog_changed" \in Phases \ {"unused", "request"}
      BY DEF Phases, RowPhases, Applied
    <3> QED BY <1>1, <1>2, <1>3, <2>1, <3>1, <3>2, <3>3, <3>4, RowChange
  <2> QED BY <2>2, <2>3
<1>6. UNCHANGED <<conn, phase>> \/ (MayApply(o) /\ Applying(o))
  BY DEF Apply
<1> QED BY <1>4, <1>5, <1>6

\* A request becomes a row, or does not.
LEMMA RowCreated ==
  ASSUME RowInv, NEW w \in Workers, Create(w)
  PROVE  RowInv'
<1>1. /\ TypeOK /\ Acting(w) /\ pc[w] = "create" /\ pc[w] \in Begun /\ UNCHANGED <<conn, request, secrets>>
      /\ cur[w] \in Ids
  BY DEF RowInv, OnItsRow, Create, Acting, Resting, Begun
<1>2. faults' \in Nat
  BY <1>1 DEF TypeOK, Create, Call
<1>3. PICK q \in {"prepared", "abandoned"} :
        phase' = [phase EXCEPT ![cur[w]] = q] /\ (q = "prepared" => MayCreate(cur[w]))
  BY DEF Create
<1>4. Goto(w, "set") \/ Goto(w, "read") \/ Fail(w)
  BY DEF Create
<1>5. /\ {"set", "read"} \subseteq Labels \ (Begun \cup {"list", "next"})
      /\ q \in Phases \ {"unused", "request"} /\ (q \in RowPhases => q = "prepared")
  BY <1>3 DEF Labels, Begun, Phases, RowPhases, Unapplied, Applied
<1>6. phase' # phase
  BY <1>1, <1>3 DEF TypeOK, RowInv, OnItsRow
<1>7. conn' \in [Connections -> [alive : BOOLEAN, revision : Nat, ref : Ids \cup {NoRef}]]
  BY <1>1 DEF TypeOK
<1> QED BY <1>1, <1>2, <1>3, <1>4, <1>5, <1>6, <1>7, RowChange

\* A plain delete has no row.
LEMMA RowlessDelete ==
  ASSUME RowInv, NEW w \in Workers, PlainDelete(w)
  PROVE  RowInv'
<1> DEFINE o == cur[w]
           c == request[o].conn
<1>1. /\ TypeOK /\ Acting(w) /\ pc[w] = "plain_delete" /\ pc[w] \in Begun /\ UNCHANGED <<request, secrets>>
      /\ o \in Ids /\ phase[o] = "request" /\ c \in Connections
  BY RowFacts DEF RowInv, OnItsRow, PlainDelete, Acting, Resting, Begun
<1>2. faults' \in Nat
  BY <1>1 DEF TypeOK, PlainDelete, Call
<1>3. PICK q \in {"completed", "abandoned"} : phase' = [phase EXCEPT ![o] = q]
  BY DEF PlainDelete
<1>4. Succeed(w) \/ Fail(w)
  BY DEF PlainDelete
<1>5. q \in Phases \ {"unused", "request"} /\ q \notin RowPhases
  BY <1>3 DEF Phases, RowPhases, Unapplied, Applied
<1>6. phase'[o] = q /\ phase' # phase
  BY <1>1, <1>3 DEF TypeOK
<1>7. ~Pending(o)'
  <2>1. cur'[w] = o
    BY <1>4 DEF Succeed, Fail
  <2> QED BY <1>5, <1>6, <2>1 DEF Pending
<1>8. conn' \in [Connections -> [alive : BOOLEAN, revision : Nat, ref : Ids \cup {NoRef}]]
  <2>1. CASE UNCHANGED conn
    BY <1>1, <2>1 DEF TypeOK
  <2>2. CASE conn' = [conn EXCEPT ![c].alive = FALSE]
    <3>1. [conn[c] EXCEPT !.alive = FALSE] \in [alive : BOOLEAN, revision : Nat, ref : Ids \cup {NoRef}]
      <4>1. conn[c] \in [alive : BOOLEAN, revision : Nat, ref : Ids \cup {NoRef}]
        BY <1>1 DEF TypeOK
      <4> QED BY <4>1, RowIsGone
    <3>2. conn' = [conn EXCEPT ![c] = [conn[c] EXCEPT !.alive = FALSE]]
      BY <2>2
    <3> QED BY <1>1, <3>1, <3>2 DEF TypeOK
  <2> QED BY <2>1, <2>2 DEF PlainDelete
<1> QED BY <1>1, <1>2, <1>3, <1>4, <1>5, <1>6, <1>7, <1>8, RowChange

-----------------------------------------------------------------------------
(* The rows: steps between operations.                                     *)

\* A recovery starts, lists the rows there are, and ends.
LEMMA RowRecoveries ==
  ASSUME RowInv, NEW w \in Workers, BeginRecovery(w) \/ List(w) \/ Recovered(w)
  PROVE  RowInv'
<1> DEFINE listing == [o \in Ids |-> IF Listable(o) THEN phase[o] ELSE "unused"]
           rows == {o \in Ids : Listable(o)}
<1>1. /\ TypeOK /\ UNCHANGED <<conn, request, phase, secrets, cur>>
      /\ \A v \in Workers : v # w => /\ pc'[v] = pc[v] /\ mode'[v] = mode[v]
                                     /\ listed'[v] = listed[v] /\ todo'[v] = todo[v]
      /\ pc'[w] \in {"list", "next", "ready", "down"} /\ (pc'[w] \in {"list", "next"} => mode'[w] # "live")
  BY DEF RowInv, TypeOK, OnItsRow, BeginRecovery, List, Recovered, Fail, catalogVars
<1>2. \/ listed'[w] = listed[w] /\ todo'[w] \subseteq todo[w] /\ pc'[w] # "next"
      \/ listed'[w] = listing /\ todo'[w] = rows
  BY <1>1 DEF TypeOK, BeginRecovery, List, Recovered, Fail
<1>3. TypeOK'
  <2>1. listing \in [Ids -> Phases] /\ rows \in SUBSET Ids /\ faults' \in Nat
    BY <1>1 DEF TypeOK, Phases, List, BeginRecovery, Recovered, Fault
  <2>2. /\ pc' \in [Workers -> Labels] /\ mode' \in [Workers -> {"live", "boot", "recover"}]
        /\ result' \in [Workers -> {"none", "ok", "error"}]
    BY <1>1 DEF TypeOK, BeginRecovery, List, Recovered, Fail, Labels
  <2>3. todo' \in [Workers -> SUBSET Ids] /\ listed' \in [Workers -> [Ids -> Phases]]
    <3>1. /\ todo' = todo \/ todo' = [todo EXCEPT ![w] = {}] \/ todo' = [todo EXCEPT ![w] = rows]
          /\ listed' = listed \/ listed' = [listed EXCEPT ![w] = listing]
      BY DEF BeginRecovery, List, Recovered, Fail
    <3>2. todo \in [Workers -> SUBSET Ids] /\ listed \in [Workers -> [Ids -> Phases]]
      BY <1>1 DEF TypeOK
    <3> HIDE DEF listing, rows
    <3> QED BY <2>1, <3>1, <3>2
  <2> QED BY <1>1, <2>1, <2>2, <2>3 DEF TypeOK
<1>4. /\ \A p \in Ids : Kind(p)' = Kind(p) /\ Old(p)' = Old(p) /\ (Used(p)' <=> Used(p)) /\ (Pending(p)' <=> Pending(p))
      /\ \A v \in Workers : Acting(v)' <=> Acting(v) /\ v # w
      /\ ~Acting(w)'
  <2>1. \A v \in Workers : v # w => (Acting(v)' <=> Acting(v))
    BY <1>1 DEF Acting
  <2>2. ~Acting(w)'
    BY <1>1 DEF Acting, Resting
  <2> QED BY <1>1, <2>1, <2>2 DEF Kind, Old, Used, Pending
<1>5. Requested' /\ OneOperationPerConnection'
  BY <1>1, <1>4 DEF RowInv, Requested, OneOperationPerConnection
<1>6. OnItsRow' /\ OwnRequest'
  <2>1. OnItsRow'
    BY <1>1, <1>4 DEF RowInv, OnItsRow
  <2> QED BY <1>1, <2>1 DEF RowInv, OwnRequest, Begun
<1>7. \A p \in Ids : Listable(p) => Pending(p) /\ phase[p] \in RowPhases /\ Kind(p) # "plain_delete"
  BY DEF Listable, Pending, RowInv, Requested, Used, RowPhases, Unapplied, Applied
<1>8. ListedIsRow'
  <2>1. \A p \in RowPhases : p \notin {"unused", "request"}
    BY DEF RowPhases, Unapplied, Applied
  <2> QED BY <1>1, <1>2, <1>4, <1>7, <2>1 DEF RowInv, ListedIsRow
<1>9. PassedIsGone'
  <2>1. "unused" \notin RowPhases
    BY DEF RowPhases, Unapplied, Applied
  <2> QED BY <1>1, <1>2, <1>4, <1>7, <2>1 DEF RowInv, PassedIsGone
<1> QED BY <1>3, <1>5, <1>6, <1>8, <1>9 DEF RowInv

\* A recovery takes up an operation of its list, whoever else works on it.
LEMMA RowTaken ==
  ASSUME RowInv, NEW w \in Workers, NextOperation(w)
  PROVE  RowInv'
<1>1. PICK o \in todo[w] : /\ cur' = [cur EXCEPT ![w] = o]
                           /\ todo' = [todo EXCEPT ![w] = @ \ {o}]
                           /\ pc' = [pc EXCEPT ![w] = EntryLabel(o, listed[w][o])]
  BY DEF NextOperation
<1>2. /\ TypeOK /\ o \in Ids /\ pc[w] = "next" /\ mode[w] # "live"
      /\ UNCHANGED <<conn, request, phase, secrets, mode, listed, result, faults>>
  BY <1>1 DEF RowInv, TypeOK, OnItsRow, NextOperation, catalogVars
<1>3. /\ cur'[w] = o /\ todo'[w] = todo[w] \ {o} /\ pc'[w] = EntryLabel(o, listed[w][o])
      /\ \A v \in Workers : v # w => pc'[v] = pc[v] /\ todo'[v] = todo[v] /\ cur'[v] = cur[v]
  BY <1>1, <1>2 DEF TypeOK
<1>4. phase[o] \notin {"unused", "request"} /\ Kind(o) # "plain_delete"
  BY <1>2 DEF RowInv, ListedIsRow
<1>5. pc'[w] \in {"inspect_prepared", "inspect_secret", "verify_active", "retire"}
  BY <1>3 DEF EntryLabel
<1>6. TypeOK'
  <2>1. EntryLabel(o, listed[w][o]) \in Labels
    BY <1>3, <1>5 DEF Labels
  <2> QED BY <1>1, <1>2, <2>1 DEF TypeOK
<1>7. /\ \A p \in Ids : Kind(p)' = Kind(p) /\ Old(p)' = Old(p) /\ (Used(p)' <=> Used(p)) /\ (Pending(p)' <=> Pending(p))
      /\ \A v \in Workers : v # w => (Acting(v)' <=> Acting(v))
      /\ Acting(w)'
  BY <1>2, <1>3, <1>5 DEF Kind, Old, Used, Pending, Acting, Resting
<1>8. Requested' /\ OneOperationPerConnection' /\ ListedIsRow'
  BY <1>2, <1>3, <1>7 DEF RowInv, Requested, OneOperationPerConnection, ListedIsRow
<1>9. OwnRequest'
  BY <1>3, <1>5 DEF RowInv, OwnRequest, Begun
<1>10. OnItsRow'
  BY <1>2, <1>3, <1>4, <1>5, <1>7 DEF RowInv, OnItsRow, Begun
<1>11. PassedIsGone'
  BY <1>2, <1>3, <1>7 DEF RowInv, PassedIsGone, Acting, Resting
<1> QED BY <1>6, <1>8, <1>9, <1>10, <1>11 DEF RowInv

\* A request is made under an ID nobody has used.
LEMMA RowRequested ==
  ASSUME RowInv, NEW w \in Workers, Start(w)
  PROVE  RowInv'
<1>1. PICK c \in Connections, kind \in Kinds, o \in Ids, pinned \in BOOLEAN : Begin(w, c, kind, o, pinned)
  BY DEF Start
<1> DEFINE made == [kind |-> kind, conn |-> c, revision |-> conn[c].revision,
                    old |-> conn[c].ref, pinned |-> pinned]
           label == IF kind = "plain_delete" THEN "plain_delete" ELSE "create"
<1>2. /\ TypeOK /\ pc[w] = "ready" /\ phase[o] = "unused"
      /\ (kind \in {"save", "plain_delete"}) <=> (conn[c].ref = NoRef)
      /\ request' = [request EXCEPT ![o] = made] /\ phase' = [phase EXCEPT ![o] = "request"]
      /\ pc' = [pc EXCEPT ![w] = label] /\ mode' = [mode EXCEPT ![w] = "live"]
      /\ cur' = [cur EXCEPT ![w] = o]
      /\ result' = [result EXCEPT ![w] = "none"]
      /\ UNCHANGED <<conn, secrets, todo, listed, faults>>
  BY <1>1 DEF RowInv, Begin
<1>3. made \in Request
  BY <1>2 DEF TypeOK, Request
<1>4. TypeOK'
  <2>1. label \in Labels /\ "request" \in Phases
    BY DEF Labels, Phases
  <2> QED BY <1>2, <1>3, <2>1 DEF TypeOK
<1>5. /\ request'[o] = made /\ phase'[o] = "request" /\ Kind(o)' = kind /\ Old(o)' = conn[c].ref
      /\ \A p \in Ids : p # o => /\ phase'[p] = phase[p] /\ request'[p] = request[p]
                                 /\ Kind(p)' = Kind(p) /\ Old(p)' = Old(p)
      /\ \A p \in Ids : (Used(p)' <=> Used(p) \/ p = o) /\ (Pending(p)' <=> Pending(p))
      /\ ~Pending(o)
  BY <1>2 DEF TypeOK, Kind, Old, Used, Pending, RowPhases, Unapplied, Applied
<1>6. /\ pc'[w] = label /\ mode'[w] = "live" /\ cur'[w] = o /\ label \in Begun /\ Acting(w)'
      /\ \A v \in Workers : v # w => /\ pc'[v] = pc[v] /\ mode'[v] = mode[v] /\ cur'[v] = cur[v]
                                     /\ (Acting(v)' <=> Acting(v))
  BY <1>2 DEF TypeOK, Begun, Acting, Resting
<1>7. \A v \in Workers : Acting(v) => cur[v] # o
  BY <1>2 DEF RowInv, OnItsRow
<1>8. Requested'
  BY <1>2, <1>3, <1>5 DEF RowInv, Requested
<1>9. OnItsRow'
  <2> SUFFICES ASSUME NEW v \in Workers
               PROVE  (/\ pc[v] \in {"list", "next"} => mode[v] # "live"
                       /\ Acting(v) =>
                             /\ cur[v] \in Ids
                             /\ pc[v] \in Begun =>
                                   /\ phase[cur[v]] = "request"
                                   /\ Kind(cur[v]) = "plain_delete" <=> pc[v] = "plain_delete"
                             /\ pc[v] \notin Begun =>
                                   phase[cur[v]] \notin {"unused", "request"} /\ Kind(cur[v]) # "plain_delete"
                             /\ pc[v] = "restore" => Kind(cur[v]) \notin Writes)'
    BY DEF OnItsRow
  <2>1. CASE v = w
    BY <1>5, <1>6, <2>1 DEF Begun
  <2>2. CASE v # w
    <3>1. Acting(v)' => Kind(cur[v])' = Kind(cur[v])
      BY <1>5, <1>6, <1>7, <2>2 DEF RowInv, OnItsRow
    <3> QED BY <1>5, <1>6, <1>7, <2>2, <3>1 DEF RowInv, OnItsRow
  <2> QED BY <2>1, <2>2
<1>10. OwnRequest'
  <2>1. \A v \in Workers : pc[v] \in Begun => Acting(v)
    BY DEF Begun, Acting, Resting
  <2> QED BY <1>6, <1>7, <2>1 DEF RowInv, OwnRequest
<1>11. ListedIsRow' /\ OneOperationPerConnection' /\ PassedIsGone'
  <2>1. ListedIsRow'
    BY <1>2, <1>5 DEF RowInv, ListedIsRow
  <2>2. OneOperationPerConnection'
    BY <1>5 DEF RowInv, OneOperationPerConnection
  <2>3. PassedIsGone'
    BY <1>2, <1>5, <1>6 DEF RowInv, PassedIsGone
  <2> QED BY <2>1, <2>2, <2>3
<1> QED BY <1>4, <1>8, <1>9, <1>10, <1>11 DEF RowInv

\* A crash loses a request, and never a row.
LEMMA RowSurvives ==
  ASSUME RowInv, NEW w \in Workers, Crash(w)
  PROVE  RowInv'
<1> DEFINE o == cur[w]
<1>1. /\ TypeOK
      /\ pc' = [pc EXCEPT ![w] = "down"] /\ mode' = [mode EXCEPT ![w] = "boot"]
      /\ cur' = [cur EXCEPT ![w] = NoRef] /\ todo' = [todo EXCEPT ![w] = {}]
      /\ listed' = [listed EXCEPT ![w] = [p \in Ids |-> "unused"]]
      /\ result' = [result EXCEPT ![w] = "none"]
      /\ UNCHANGED <<conn, request, secrets>> /\ faults' \in Nat
  BY DEF RowInv, TypeOK, Crash, Fault
<1>2. /\ pc'[w] = "down" /\ todo'[w] = {} /\ ~Acting(w)' /\ \A p \in Ids : listed'[w][p] = "unused"
      /\ \A v \in Workers : v # w => /\ pc'[v] = pc[v] /\ mode'[v] = mode[v] /\ cur'[v] = cur[v]
                                     /\ todo'[v] = todo[v] /\ listed'[v] = listed[v]
                                     /\ (Acting(v)' <=> Acting(v))
  BY <1>1 DEF TypeOK, Acting, Resting
<1>3. \/ UNCHANGED phase
      \/ /\ pc[w] \in Begun /\ Acting(w) /\ o \in Ids /\ phase[o] = "request"
         /\ phase' = [phase EXCEPT ![o] = "abandoned"]
  BY DEF Crash, Begun, RowInv, OnItsRow, Acting, Resting
<1>4. /\ \A p \in Ids : Kind(p)' = Kind(p) /\ Old(p)' = Old(p)
      /\ \A p \in Ids : (Used(p)' <=> Used(p)) /\ (Pending(p)' <=> Pending(p))
      /\ \A p \in Ids : phase[p] \notin {"unused", "request"} => phase'[p] \notin {"unused", "request"}
      /\ \A v \in Workers : v # w /\ Acting(v) => phase'[cur[v]] = phase[cur[v]]
  <2>1. CASE UNCHANGED phase
    BY <1>1, <2>1 DEF Kind, Old, Used, Pending
  <2>2. CASE /\ pc[w] \in Begun /\ Acting(w) /\ o \in Ids /\ phase[o] = "request"
             /\ phase' = [phase EXCEPT ![o] = "abandoned"]
    <3>1. \A p \in Ids : phase'[p] = IF p = o THEN "abandoned" ELSE phase[p]
      BY <1>1, <2>2 DEF TypeOK
    <3>2. \A v \in Workers : v # w /\ Acting(v) => cur[v] # o /\ cur[v] \in Ids
      BY <2>2 DEF RowInv, OnItsRow, OwnRequest
    <3> QED BY <1>1, <2>2, <3>1, <3>2 DEF Kind, Old, Used, Pending, RowPhases, Unapplied, Applied
  <2> QED BY <1>3, <2>1, <2>2
<1>5. TypeOK'
  <2>1. phase' \in [Ids -> Phases]
    BY <1>1, <1>3 DEF TypeOK, Phases
  <2> QED BY <1>1, <2>1 DEF TypeOK, Labels, Phases
<1>6. Requested' /\ OneOperationPerConnection'
  BY <1>1, <1>4 DEF RowInv, Requested, OneOperationPerConnection
<1>7. OnItsRow'
  <2>1. \A v \in Workers : v # w /\ Acting(v) => Kind(cur[v])' = Kind(cur[v])
    BY <1>1, <1>2 DEF Kind
  <2> QED BY <1>1, <1>2, <1>4, <2>1 DEF RowInv, OnItsRow
<1>8. OwnRequest'
  BY <1>2 DEF RowInv, OwnRequest, Begun
<1>9. ListedIsRow'
  BY <1>2, <1>4 DEF RowInv, ListedIsRow
<1>10. PassedIsGone'
  BY <1>2, <1>4 DEF RowInv, PassedIsGone, Acting, Resting
<1> QED BY <1>5, <1>6, <1>7, <1>8, <1>9, <1>10 DEF RowInv

\* An edit touches no row, and a stuttering step nothing.
LEMMA RowUntouched ==
  ASSUME RowInv, (\E c \in Connections : Edit(c)) \/ UNCHANGED vars
  PROVE  RowInv'
<1>1. TypeOK /\ UNCHANGED <<request, phase, secrets, pc, mode, cur, todo, listed, result, faults>>
  BY DEF RowInv, Edit, vars, workerVars
<1>2. TypeOK'
  <2>1. CASE UNCHANGED vars
    BY <1>1, <2>1 DEF TypeOK, vars
  <2>2. CASE \E c \in Connections : Edit(c)
    <3>1. PICK c \in Connections : conn' = [conn EXCEPT ![c].revision = @ + 1]
      BY <2>2 DEF Edit
    <3>2. conn[c] \in [alive : BOOLEAN, revision : Nat, ref : Ids \cup {NoRef}]
      BY <1>1 DEF TypeOK
    <3>3. [conn[c] EXCEPT !.revision = conn[c].revision + 1]
             \in [alive : BOOLEAN, revision : Nat, ref : Ids \cup {NoRef}]
      BY <3>2
    <3>4. conn' = [conn EXCEPT ![c] = [conn[c] EXCEPT !.revision = conn[c].revision + 1]]
      BY <3>1
    <3> QED BY <1>1, <3>3, <3>4 DEF TypeOK
  <2> QED BY <2>1, <2>2
<1>3. Requested' /\ OnItsRow' /\ OwnRequest' /\ ListedIsRow' /\ OneOperationPerConnection' /\ PassedIsGone'
  BY <1>1 DEF RowInv, Requested, OnItsRow, OwnRequest, ListedIsRow, OneOperationPerConnection, PassedIsGone,
     Used, Pending, Kind, Old, Acting
<1> QED BY <1>2, <1>3 DEF RowInv

\* Every step keeps what the rows satisfy.
LEMMA RowNext ==
  ASSUME RowInv, [Next]_vars
  PROVE  RowInv'
<1>1. ASSUME NEW w \in Workers, SagaStep(w) PROVE RowInv'
  BY <1>1, RowReads, RowStores, RowMarks, RowGoes, RowApplies, RowCreated, RowlessDelete, RowRecoveries, RowTaken
     DEF SagaStep
<1>2. ASSUME NEW w \in Workers, Start(w) \/ BeginRecovery(w) \/ Crash(w) PROVE RowInv'
  BY <1>2, RowRequested, RowRecoveries, RowSurvives
<1> QED BY <1>1, <1>2, RowUntouched DEF Next

\* What the rows satisfy holds in every behaviour, also in one in which
\* recoveries work on the operations of running sagas.
THEOREM RowsHold == Spec => []RowInv
<1>1. Init => RowInv
  <2> SUFFICES ASSUME Init PROVE RowInv
    OBVIOUS
  <2>1. TypeOK
    BY DEF Init, TypeOK, Labels, Phases
  <2>2. \A o \in Ids : ~Used(o) /\ ~Pending(o)
    BY DEF Init, Used, Pending, RowPhases, Unapplied, Applied
  <2> QED BY <2>1, <2>2 DEF Init, RowInv, Requested, OnItsRow, OwnRequest, ListedIsRow,
             OneOperationPerConnection, PassedIsGone, Acting, Resting, Begun
<1>2. RowInv /\ [Next]_vars => RowInv'
  BY RowNext
<1> QED BY <1>1, <1>2, PTL DEF Spec

\* Every variable of the saga keeps its type (credential_saga.go as a whole).
THEOREM TypeCorrect == Spec => []TypeOK
<1>1. RowInv => TypeOK
  BY DEF RowInv
<1> QED BY <1>1, RowsHold, PTL

\* CreateCredentialOperation keeps pending operations to one a connection,
\* whichever sagas and recoveries work on them.
THEOREM OperationsDoNotOverlap == Spec => []OneOperationPerConnection
<1>1. RowInv => OneOperationPerConnection
  BY DEF RowInv
<1> QED BY <1>1, RowsHold, PTL

\* A recovery that goes through its list without error leaves none of it
\* pending, with other recoveries, and the running sagas that made them,
\* working on the same rows (Recover, recoverOperation).
THEOREM RecoveryIsComplete == Spec => []RecoveryComplete
<1>1. RowInv => RecoveryComplete
  BY DEF RowInv, OnItsRow, PassedIsGone, RecoveryComplete, Acting, Resting
<1> QED BY <1>1, RowsHold, PTL
=============================================================================
