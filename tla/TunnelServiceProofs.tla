------------------------ MODULE TunnelServiceProofs ------------------------
(***************************************************************************)
(* Proofs about TunnelService, from the inductive invariant of             *)
(* TunnelServiceInvariant.                                                 *)
(***************************************************************************)
EXTENDS TunnelServiceInvariant, FiniteSetTheorems, TLAPS

-----------------------------------------------------------------------------
(* The finite sets of the bounds.                                          *)

\* Every set of attempts, or of tunnels, is finite.
LEMMA AttemptsAreFinite ==
  ASSUME NEW S \in SUBSET Attempts
  PROVE  IsFiniteSet(S) /\ Cardinality(S) \in Nat
<1>1. IsFiniteSet(Attempts)
  BY FS_Interval, BoundsAssumption DEF Attempts
<1> QED BY <1>1, FS_Subset, FS_CardinalityType

\* A subset is not larger.
LEMMA SmallerIsFewer ==
  ASSUME NEW S \in SUBSET Attempts, NEW T \in SUBSET S
  PROVE  Cardinality(T) <= Cardinality(S)
BY AttemptsAreFinite, FS_Subset

\* An admission leaves room for one more goroutine.
LEMMA AdmissionLeavesRoom ==
  ASSUME IInv, NEW id, NEW connection, AdmitLocked(id, connection), NEW b \in Attempts
  PROVE  Cardinality({a \in Attempts : Running(a)} \cup {b}) <= MaxLive
<1> DEFINE R == {a \in Attempts : Running(a)}
           L == {a \in Entries : Live(a)}
<1>1. R \subseteq L
  BY DEF IInv, EveryRunIsShown, SnapshotIsTrue, Entries, TypeOK, Snapshot, Ids, Running, Born, RunStages, RunnerStages, RecoveryStages
<1>2. L \in SUBSET Attempts /\ R \in SUBSET L
  BY <1>1 DEF Entries
<1>3. Cardinality(R) <= Cardinality(L) /\ Cardinality(L) < MaxLive
  BY <1>2, SmallerIsFewer DEF AdmitLocked
<1>4. Cardinality(R \cup {b}) <= Cardinality(R) + 1
  BY FS_AddElement, AttemptsAreFinite
<1>5. Cardinality(R) \in Nat /\ Cardinality(L) \in Nat /\ Cardinality(R \cup {b}) \in Nat /\ MaxLive \in Nat
  BY <1>2, AttemptsAreFinite, LimitsAssumption
<1> QED BY <1>3, <1>4, <1>5

-----------------------------------------------------------------------------
(* Frames.                                                                 *)

\* What the invariant says of tunnels, calls apart.
TunnelsOK ==
    /\ Numbered
    /\ SnapshotIsTrue
    /\ ShowsItsOwn
    /\ EveryRunIsShown
    /\ StoppingIsCanceled
    /\ RetryKeepsConnection
    /\ AtMostMaxLive
    /\ BoundedHistory

\* What it says of calls.
CallsOK ==
    /\ CloseJoinsAll
    /\ RequestNamesConnection
    /\ closeReturned => closed
    /\ CloseLeavesNothing

\* A step that changes calls only.
LEMMA TunnelFrame ==
  ASSUME TunnelsOK,
         UNCHANGED <<entries, snapshot, counters, completed, canceled, closed, run>>
  PROVE  TunnelsOK'
BY DEF TunnelsOK, Numbered, SnapshotIsTrue, ShowsItsOwn, EveryRunIsShown, StoppingIsCanceled,
       RetryKeepsConnection, AtMostMaxLive, BoundedHistory, counters, Born, Running, Live,
       Shows, Terminal, Canceled, StateOf

\* A step of a goroutine that starts none leaves the calls as they are.
LEMMA CallFrame ==
  ASSUME CallsOK, UNCHANGED <<call, closed, closeReturned>>,
         \A a \in Attempts : Running(a)' => Running(a)
  PROVE  CallsOK'
BY DEF CallsOK, CloseJoinsAll, RequestNamesConnection, CloseLeavesNothing

\* The invariant in three parts.
LEMMA Split ==
  IInv <=> TypeOK /\ TunnelsOK /\ CallsOK
BY DEF IInv, TunnelsOK, CallsOK

\* The same of the next state.
LEMMA SplitNext ==
  IInv' <=> TypeOK' /\ TunnelsOK' /\ CallsOK'
BY DEF IInv, TunnelsOK, CallsOK

-----------------------------------------------------------------------------
(* The goroutine of an attempt.                                            *)

\* A running attempt goes to another stage of running; its snapshot may change,
\* but neither to Stopping nor from it.
LEMMA StageStep ==
  ASSUME IInv, NEW a \in Attempts, Running(a),
         NEW stage \in RunStages, GoTo(a, stage),
         snapshot' \in [Attempts -> Snapshot \cup {NoSnapshot}],
         \A b \in Attempts \ {a} : snapshot'[b] = snapshot[b],
         snapshot'[a] \in Snapshot,
         snapshot'[a].id = snapshot[a].id,
         snapshot'[a].connection = snapshot[a].connection,
         snapshot'[a].state \in LiveStates,
         snapshot'[a].state = "Stopping" <=> snapshot[a].state = "Stopping",
         UNCHANGED <<entries, counters, completed, canceled, closed, call, closeReturned>>
  PROVE  IInv'
<1> USE DEF GoTo
<1>0. TypeOK /\ TunnelsOK /\ CallsOK
  BY Split
<1>1. \A b \in Attempts : (Running(b)' <=> Running(b)) /\ (Live(b)' <=> Live(b)) /\ (Born(b)' <=> Born(b))
  BY <1>0 DEF TypeOK, TunnelsOK, SnapshotIsTrue, Running, Live, Born, RunStages, RunnerStages, RecoveryStages
<1>2. \A b \in Attempts : snapshot'[b].id = snapshot[b].id /\ snapshot'[b].connection = snapshot[b].connection
  OBVIOUS
<1>3. TypeOK'
  BY <1>0 DEF TypeOK, counters
<1>4. Numbered' /\ SnapshotIsTrue'
  BY <1>0, <1>1 DEF TunnelsOK, Numbered, SnapshotIsTrue, counters, TypeOK, Running, Born, RunStages, RunnerStages, RecoveryStages
<1>5. ShowsItsOwn'
  BY <1>0, <1>1, <1>2 DEF TunnelsOK, ShowsItsOwn, Shows, TypeOK, Ids
<1>6. EveryRunIsShown'
  BY <1>0, <1>1, <1>2 DEF TunnelsOK, EveryRunIsShown
<1>7. StoppingIsCanceled'
  BY <1>0, <1>1 DEF TunnelsOK, StoppingIsCanceled, StateOf, Canceled, TypeOK
<1>8. RetryKeepsConnection'
  <2>1. \A b \in 1..nextAttempt : b \in Attempts
    BY <1>0, BoundsAssumption DEF TypeOK, Attempts
  <2> QED BY <1>0, <1>2, <2>1 DEF TunnelsOK, RetryKeepsConnection, counters
<1>9. AtMostMaxLive'
  <2>1. {b \in Attempts : Running(b)}' = {b \in Attempts : Running(b)}
    BY <1>1
  <2> QED BY <1>0, <2>1 DEF TunnelsOK, AtMostMaxLive
<1>10. BoundedHistory'
  <2>1. {i \in Ids : Terminal(i)}' = {i \in Ids : Terminal(i)}
    BY <1>0, <1>1 DEF Terminal, Shows, TypeOK, Ids
  <2> QED BY <1>0, <2>1 DEF TunnelsOK, BoundedHistory
<1>11. CallsOK'
  BY <1>0, <1>1, CallFrame
<1> QED BY <1>3, <1>4, <1>5, <1>6, <1>7, <1>8, <1>9, <1>10, <1>11, SplitNext DEF TunnelsOK

\* A running attempt has a snapshot that is live.
LEMMA RunningIsLive ==
  ASSUME IInv, NEW a \in Attempts, Running(a)
  PROVE  snapshot[a] \in Snapshot /\ snapshot[a].state \in LiveStates
BY DEF IInv, SnapshotIsTrue, Running, Live, Born, RunStages, RunnerStages, RecoveryStages

\* The steps that change nothing but the stage.
LEMMA PlainStep ==
  ASSUME IInv, NEW a \in Attempts, Running(a), NEW stage \in RunStages, GoTo(a, stage), RunOnly
  PROVE  IInv'
<1>1. snapshot' = snapshot /\ snapshot \in [Attempts -> Snapshot \cup {NoSnapshot}]
  BY DEF RunOnly, IInv, TypeOK
<1> QED BY <1>1, RunningIsLive, StageStep DEF RunOnly

\* The version of a snapshot can be raised.
LEMMA VersionIsNat == ASSUME NEW s \in Snapshot PROVE s.version \in Nat /\ s.version + 1 \in Nat
BY DEF Snapshot

\* The listener is bound.
LEMMA ReadyKeeps ==
  ASSUME IInv, NEW a \in Attempts, Ready(a)
  PROVE  IInv'
<1>1. Running(a) /\ GoTo(a, "forwarding") /\ "forwarding" \in RunStages
  BY DEF Ready, Running, RunStages, RunnerStages, RecoveryStages
<1>2. snapshot[a] \in Snapshot /\ snapshot \in [Attempts -> Snapshot \cup {NoSnapshot}]
  BY <1>1, RunningIsLive DEF IInv, TypeOK
<1>3. CASE MayActivate(a)
  <2>1. snapshot' = [snapshot EXCEPT ![a].state = "Active", ![a].version = @ + 1]
    BY <1>3 DEF Ready
  <2>2. snapshot'[a] = [snapshot[a] EXCEPT !.state = "Active", !.version = @ + 1]
    BY <1>2, <2>1
  <2>3. snapshot'[a] \in Snapshot /\ snapshot'[a].id = snapshot[a].id
        /\ snapshot'[a].connection = snapshot[a].connection /\ snapshot'[a].state = "Active"
    <3>1. snapshot[a].version + 1 \in Nat
      BY <1>2, VersionIsNat
    <3> QED BY <1>2, <2>2, <3>1 DEF Snapshot, States, LiveStates
  <2>4. \A b \in Attempts \ {a} : snapshot'[b] = snapshot[b]
    BY <1>2, <2>1
  <2>5. snapshot' \in [Attempts -> Snapshot \cup {NoSnapshot}]
    BY <1>2, <2>1, <2>3, <2>4
  <2>6. snapshot[a].state = "Starting"
    BY <1>3 DEF MayActivate
  <2> QED BY <1>1, <2>3, <2>4, <2>5, <2>6, StageStep DEF Ready, LiveStates
<1>4. CASE ~MayActivate(a)
  BY <1>1, <1>2, <1>4, RunningIsLive, StageStep DEF Ready
<1> QED BY <1>3, <1>4

\* The runner reports.
LEMMA DiagnosticKeeps ==
  ASSUME IInv, NEW a \in Attempts, Diagnostic(a)
  PROVE  IInv'
<1>1. Running(a) /\ run[a] \in RunStages /\ run \in [Attempts -> RunStages \cup {"none", "done"}]
  BY DEF Diagnostic, Running, RunStages, IInv, TypeOK
<1>2. GoTo(a, run[a])
  BY <1>1 DEF GoTo, Diagnostic
<1>3. snapshot[a] \in Snapshot /\ snapshot[a].state \in LiveStates
      /\ snapshot \in [Attempts -> Snapshot \cup {NoSnapshot}]
  BY <1>1, RunningIsLive DEF IInv, TypeOK
<1>4. PICK text \in Texts :
        snapshot' = [snapshot EXCEPT ![a].diagnostic = text, ![a].version = @ + 1]
  BY DEF Diagnostic
<1>5. snapshot'[a] = [snapshot[a] EXCEPT !.diagnostic = text, !.version = @ + 1]
  BY <1>3, <1>4
<1>6. snapshot'[a] \in Snapshot /\ snapshot'[a].id = snapshot[a].id
      /\ snapshot'[a].connection = snapshot[a].connection /\ snapshot'[a].state = snapshot[a].state
  <2>1. snapshot[a].version + 1 \in Nat /\ text \in Diagnostics
    BY <1>3, VersionIsNat DEF Diagnostics
  <2> QED BY <1>3, <1>5, <2>1 DEF Snapshot
<1>7. \A b \in Attempts \ {a} : snapshot'[b] = snapshot[b]
  BY <1>3, <1>4
<1>8. snapshot' \in [Attempts -> Snapshot \cup {NoSnapshot}]
  BY <1>3, <1>4, <1>6, <1>7
<1> QED BY <1>1, <1>2, <1>3, <1>6, <1>7, <1>8, StageStep DEF Diagnostic

\* The completion of an attempt.
LEMMA CompleteKeeps ==
  ASSUME IInv, NEW a \in Attempts, Complete(a)
  PROVE  IInv'
<1> DEFINE terminal == {i \in Ids : Terminal(i) \/ entries[i] = a}
<1>0. TypeOK /\ TunnelsOK /\ CallsOK
  BY Split
<1>1. Running(a) /\ run' = [run EXCEPT ![a] = "done"]
  BY DEF Complete, Running, RunStages, GoTo
<1>2. /\ snapshot[a] \in Snapshot /\ Live(a)
      /\ snapshot \in [Attempts -> Snapshot \cup {NoSnapshot}]
  BY <1>0, <1>1, RunningIsLive DEF TypeOK, Live
<1>3. PICK state \in {"Stopped", "Failed"}, diagnostic \in Diagnostics :
        snapshot' = [snapshot EXCEPT ![a].state = state, ![a].diagnostic = diagnostic,
                                     ![a].version = @ + 1]
  <2>1. snapshot[a].diagnostic \in Diagnostics /\ "failure" \in Diagnostics
    BY <1>2 DEF Snapshot, Diagnostics
  <2> QED BY <2>1 DEF Complete
<1>4. snapshot'[a] = [snapshot[a] EXCEPT !.state = state, !.diagnostic = diagnostic,
                                         !.version = @ + 1]
  BY <1>2, <1>3
<1>5. /\ snapshot'[a] \in Snapshot /\ snapshot'[a].id = snapshot[a].id
      /\ snapshot'[a].connection = snapshot[a].connection /\ snapshot'[a].state = state
  <2>1. snapshot[a].version + 1 \in Nat /\ state \in States
    BY <1>2, VersionIsNat DEF States
  <2> QED BY <1>2, <1>4, <2>1 DEF Snapshot
<1>6. \A b \in Attempts \ {a} : snapshot'[b] = snapshot[b]
  BY <1>2, <1>3
<1>7. snapshot' \in [Attempts -> Snapshot \cup {NoSnapshot}]
  BY <1>2, <1>3, <1>5, <1>6
<1>8. PICK gone \in SUBSET terminal :
        /\ IF Cardinality(terminal) > MaxTerminal
           THEN Cardinality(terminal \ gone) = MaxTerminal
           ELSE gone = {}
        /\ entries' = [i \in Ids |-> IF i \in gone THEN 0 ELSE entries[i]]
  BY DEF Complete, EvictLocked
<1>9. \A b \in Attempts : /\ Born(b)' <=> Born(b)
                          /\ Running(b)' <=> Running(b) /\ b # a
                          /\ Live(b)' <=> Live(b) /\ b # a
  BY <1>0, <1>1, <1>2, <1>5, <1>6 DEF TypeOK, Born, Running, Live, LiveStates, RunStages, RunnerStages, RecoveryStages
<1>10. \A i \in Ids : entries'[i] \in {0, entries[i]} /\ (i \notin gone => entries'[i] = entries[i])
  BY <1>8
<1>11. TypeOK'
  <2>1. nextID' = nextID /\ nextAttempt' = nextAttempt /\ closed' = closed
        /\ call' = call /\ closeReturned' = closeReturned
    BY DEF Complete
  <2>2. entries' \in [Ids -> Attempts \cup {0}]
    BY <1>0, <1>8 DEF TypeOK
  <2>3. nextCompletion' \in Nat /\ completed' \in [Attempts -> Nat] /\ canceled' \in SUBSET Attempts
    <3>1. /\ nextCompletion' = nextCompletion + 1 /\ canceled' = canceled \cup {a}
          /\ completed' = [completed EXCEPT ![a] = nextCompletion + 1]
      BY DEF Complete
    <3> QED BY <1>0, <3>1 DEF TypeOK
  <2>4. run' \in [Attempts -> RunStages \cup {"none", "done"}]
    BY <1>0, <1>1 DEF TypeOK
  <2> QED BY <1>0, <1>7, <2>1, <2>2, <2>3, <2>4 DEF TypeOK
<1>12. Numbered'
  <2>1. nextCompletion' = nextCompletion + 1 /\ completed' = [completed EXCEPT ![a] = nextCompletion + 1]
        /\ UNCHANGED <<nextID, nextAttempt>>
    BY DEF Complete
  <2>2. \A b \in Attempts : completed'[b] <= nextCompletion'
    BY <1>0, <2>1 DEF TypeOK, TunnelsOK, Numbered
  <2> QED BY <1>0, <1>9, <2>1, <2>2 DEF TunnelsOK, Numbered
<1>13. SnapshotIsTrue'
  <2> SUFFICES ASSUME NEW b \in Attempts
               PROVE  /\ Born(b)' => snapshot'[b] \in Snapshot /\ snapshot'[b].id <= nextID'
                      /\ ~Born(b)' => snapshot'[b] = NoSnapshot
                      /\ Running(b)' <=> Live(b)'
    BY DEF SnapshotIsTrue
  <2>1. nextID' = nextID /\ Born(a)
    BY <1>1 DEF Complete, Born, Running, RunStages, RunnerStages, RecoveryStages
  <2>2. CASE b = a
    BY <1>0, <1>5, <1>9, <2>1, <2>2 DEF TunnelsOK, SnapshotIsTrue
  <2>3. CASE b # a
    BY <1>0, <1>6, <1>9, <2>1, <2>3 DEF TunnelsOK, SnapshotIsTrue
  <2> QED BY <2>2, <2>3
<1>14. ShowsItsOwn'
  <2> SUFFICES ASSUME NEW i \in Ids, Shows(i)'
               PROVE  Born(entries[i])' /\ (snapshot[entries[i]].id)' = i
    BY DEF ShowsItsOwn
  <2>1. entries'[i] = entries[i] /\ entries[i] \in Attempts /\ Shows(i)
    BY <1>0, <1>10 DEF Shows, TypeOK
  <2> QED BY <1>0, <1>5, <1>6, <1>9, <2>1 DEF TunnelsOK, ShowsItsOwn
<1>15. EveryRunIsShown'
  <2> SUFFICES ASSUME NEW b \in Attempts, Running(b)'
               PROVE  entries'[snapshot'[b].id] = b
    BY DEF EveryRunIsShown
  <2>1. Running(b) /\ b # a /\ snapshot'[b] = snapshot[b] /\ Live(b)
    BY <1>0, <1>6, <1>9 DEF TunnelsOK, SnapshotIsTrue
  <2>2. snapshot[b].id \in Ids /\ entries[snapshot[b].id] = b
    BY <1>0, <2>1, RunningIsLive DEF TunnelsOK, EveryRunIsShown, Snapshot
  <2>3. snapshot[b].id \notin terminal
    BY <2>1, <2>2 DEF Terminal
  <2> QED BY <1>10, <2>1, <2>2, <2>3
<1>16. StoppingIsCanceled'
  <2>1. canceled' = canceled \cup {a} /\ closed' = closed
    BY DEF Complete
  <2> QED BY <1>0, <1>1, <1>6, <1>9, <2>1 DEF TunnelsOK, StoppingIsCanceled, Canceled, StateOf, TypeOK, Born, Running, RunStages, RunnerStages, RecoveryStages
<1>17. RetryKeepsConnection'
  <2>1. \A b \in 1..nextAttempt : b \in Attempts
    BY <1>0, BoundsAssumption DEF TypeOK, Attempts
  <2>2. \A b \in Attempts : snapshot'[b].id = snapshot[b].id /\ snapshot'[b].connection = snapshot[b].connection
    BY <1>5, <1>6
  <2>3. nextAttempt' = nextAttempt
    BY DEF Complete
  <2> QED BY <1>0, <2>1, <2>2, <2>3 DEF TunnelsOK, RetryKeepsConnection
<1>18. AtMostMaxLive'
  <2>1. {b \in Attempts : Running(b)}' \in SUBSET {b \in Attempts : Running(b)}
    BY <1>9
  <2>2. Cardinality({b \in Attempts : Running(b)}') <= Cardinality({b \in Attempts : Running(b)})
    BY <2>1, SmallerIsFewer
  <2>3. Cardinality({b \in Attempts : Running(b)}') \in Nat /\ Cardinality({b \in Attempts : Running(b)}) \in Nat
    BY <2>1, AttemptsAreFinite
  <2> QED BY <1>0, <2>2, <2>3, LimitsAssumption DEF TunnelsOK, AtMostMaxLive
<1>19. BoundedHistory'
  <2>1. {i \in Ids : Terminal(i)}' = terminal \ gone
    <3> SUFFICES ASSUME NEW i \in Ids PROVE Terminal(i)' <=> i \in terminal \ gone
      OBVIOUS
    <3>1. CASE i \in gone
      BY <1>8, <3>1 DEF Terminal, Shows
    <3>2. CASE i \notin gone /\ entries[i] = 0
      BY <1>10, <3>2 DEF Terminal, Shows, Attempts
    <3>3. CASE i \notin gone /\ entries[i] \in Attempts
      <4>1. entries'[i] = entries[i]
        BY <1>10, <3>3
      <4>2. entries[i] # 0
        BY <3>3 DEF Attempts
      <4> QED BY <1>9, <3>3, <4>1, <4>2 DEF Terminal, Shows
    <3> QED BY <1>0, <3>1, <3>2, <3>3 DEF TypeOK
  <2>2. Cardinality(terminal \ gone) <= MaxTerminal
    <3>1. terminal \in SUBSET Attempts
      BY DEF Ids
    <3> QED BY <1>8, <3>1, AttemptsAreFinite, LimitsAssumption
  <2> QED BY <2>1, <2>2 DEF BoundedHistory
<1>20. CallsOK'
  BY <1>0, <1>9, CallFrame DEF Complete
<1> QED BY <1>11, <1>12, <1>13, <1>14, <1>15, <1>16, <1>17, <1>18, <1>19, <1>20, SplitNext DEF TunnelsOK

\* Any step of a goroutine.
LEMMA RunStepKeeps ==
  ASSUME IInv, NEW a \in Attempts, RunStep(a)
  PROVE  IInv'
<1>1. CASE BeginRecovery(a)
  BY <1>1, PlainStep DEF BeginRecovery, Running, RunStages, RecoveryStages
<1>10. CASE AskUser(a)
  BY <1>10, PlainStep DEF AskUser, Running, RunStages, RecoveryStages
<1>2. CASE EndRecovery(a)
  BY <1>2, PlainStep DEF EndRecovery, Running, RunStages, RunnerStages, RecoveryStages
<1>3. CASE Bind(a)
  BY <1>3, PlainStep DEF Bind, Running, RunStages, RunnerStages, RecoveryStages
<1>4. CASE FailToBind(a)
  BY <1>4, PlainStep DEF FailToBind, Running, RunStages, RunnerStages, RecoveryStages
<1>5. CASE Ready(a)
  BY <1>5, ReadyKeeps
<1>6. CASE Diagnostic(a)
  BY <1>6, DiagnosticKeeps
<1>7. CASE EndLifetime(a)
  BY <1>7, PlainStep DEF EndLifetime, Running, RunStages, RunnerStages, RecoveryStages
<1>8. CASE RunnerReturns(a)
  BY <1>8, PlainStep DEF RunnerReturns, Running, RunStages, RunnerStages, RecoveryStages
<1>9. CASE Complete(a)
  BY <1>9, CompleteKeeps
<1> QED BY <1>1, <1>2, <1>3, <1>4, <1>5, <1>6, <1>7, <1>8, <1>9, <1>10 DEF RunStep

-----------------------------------------------------------------------------
(* The calls.                                                              *)

\* A new attempt.
LEMMA LaunchKeeps ==
  ASSUME IInv, NEW c \in Callers, Launch(c)
  PROVE  IInv'
<1> DEFINE a == nextAttempt + 1
           id == IF call[c].id = 0 THEN nextID + 1 ELSE call[c].id
           new == NewSnapshot(id, NextVersion(call[c].id), call[c].connection)
<1>0. TypeOK /\ TunnelsOK /\ CallsOK
  BY Split
<1>1. AdmitLocked(call[c].id, call[c].connection) /\ ~closed
  BY DEF Launch, AdmitAgain, AdmitLocked
<1>2. a \in Attempts /\ nextID + 1 \in Ids /\ nextID + 1 <= a
  BY <1>0, BoundsAssumption DEF Launch, TypeOK, Attempts, Ids, TunnelsOK, Numbered
<1>3. call[c].connection \in Connections /\ call[c].id \in Ids \cup {0}
  BY <1>0 DEF TypeOK, CallsOK, RequestNamesConnection, Launch
<1>4. call[c].id # 0 => /\ entries[call[c].id] \in Attempts /\ Born(entries[call[c].id])
                        /\ ~Running(entries[call[c].id])
                        /\ snapshot[entries[call[c].id]] \in Snapshot
                        /\ snapshot[entries[call[c].id]].id = call[c].id
                        /\ snapshot[entries[call[c].id]].connection = call[c].connection
                        /\ call[c].id <= nextID
  <2> SUFFICES ASSUME call[c].id # 0
               PROVE  /\ entries[call[c].id] \in Attempts /\ Born(entries[call[c].id])
                      /\ ~Running(entries[call[c].id])
                      /\ snapshot[entries[call[c].id]] \in Snapshot
                      /\ snapshot[entries[call[c].id]].id = call[c].id
                      /\ snapshot[entries[call[c].id]].connection = call[c].connection
                      /\ call[c].id <= nextID
    OBVIOUS
  <2>1. Shows(call[c].id) /\ ~Live(entries[call[c].id])
        /\ snapshot[entries[call[c].id]].connection = call[c].connection
    BY <1>1 DEF AdmitLocked
  <2>2. entries[call[c].id] \in Attempts
    BY <1>0, <1>3, <2>1 DEF TypeOK, Shows
  <2> QED BY <1>0, <1>3, <2>1, <2>2 DEF TunnelsOK, ShowsItsOwn, SnapshotIsTrue
<1>5. ~Born(a) /\ ~Running(a)
  BY <1>0, <1>2 DEF TunnelsOK, Numbered, Born, Running, RunStages, RunnerStages, RecoveryStages, TypeOK
<1>6. id \in Ids /\ nextID' \in Nat /\ nextID <= nextID' /\ id <= nextID' /\ nextID' <= a
  BY <1>0, <1>2, <1>3, <1>4 DEF Launch, TypeOK, TunnelsOK, Numbered, Ids, Attempts
<1>7. NextVersion(call[c].id) \in Nat
  BY <1>4, VersionIsNat DEF NextVersion
<1>8. new \in Snapshot /\ new.id = id /\ new.connection = call[c].connection /\ new.state = "Starting"
  <2>1. "Starting" \in States /\ "" \in Diagnostics
    BY DEF States, LiveStates, Diagnostics
  <2> QED BY <1>3, <1>6, <1>7, <2>1 DEF NewSnapshot, Snapshot
<1>9. /\ nextAttempt' = a
      /\ snapshot' = [snapshot EXCEPT ![a] = new]
      /\ entries' = [entries EXCEPT ![id] = a]
      /\ run' = [run EXCEPT ![a] = "queued"]
      /\ UNCHANGED <<nextCompletion, completed, canceled, closed, closeReturned>>
  BY DEF Launch
<1>10. snapshot'[a] = new /\ \A b \in Attempts \ {a} : snapshot'[b] = snapshot[b]
  BY <1>0, <1>2, <1>9 DEF TypeOK
<1>11. entries'[id] = a /\ \A i \in Ids \ {id} : entries'[i] = entries[i]
  BY <1>0, <1>6, <1>9 DEF TypeOK
<1>12. \A b \in Attempts : /\ Born(b)' <=> Born(b) \/ b = a
                           /\ Running(b)' <=> Running(b) \/ b = a
                           /\ Live(b)' <=> Live(b) \/ b = a
  BY <1>0, <1>2, <1>8, <1>9, <1>10 DEF TypeOK, Born, Running, Live, LiveStates, RunStages, RunnerStages, RecoveryStages
<1>13. call' = [call EXCEPT ![c] = Idle] /\ Idle.op = "idle"
  BY DEF Launch, Return, SetCall, Idle
<1>14. TypeOK'
  <2>1. entries' \in [Ids -> Attempts \cup {0}] /\ run' \in [Attempts -> RunStages \cup {"none", "done"}]
    BY <1>0, <1>2, <1>9 DEF TypeOK, RunStages
  <2>2. snapshot' \in [Attempts -> Snapshot \cup {NoSnapshot}]
    BY <1>0, <1>8, <1>9 DEF TypeOK
  <2>3. nextAttempt' \in 0..MaxAttempts /\ nextID' \in Nat
    BY <1>2, <1>6, <1>9 DEF Attempts
  <2>4. Idle \in [op : Operations, id : Ids \cup {0},
                  connection : Connections \cup {NoConnection}, join : SUBSET Attempts]
    BY DEF Idle, Operations
  <2>5. call' \in [Callers -> [op : Operations, id : Ids \cup {0},
                  connection : Connections \cup {NoConnection}, join : SUBSET Attempts]]
    BY <1>0, <1>13, <2>4 DEF TypeOK
  <2> QED BY <1>0, <1>9, <2>1, <2>2, <2>3, <2>5 DEF TypeOK
<1>15. Numbered'
  <2>1. \A b \in Attempts : b <= a <=> b <= nextAttempt \/ b = a
    BY <1>0 DEF TypeOK, Attempts
  <2> QED BY <1>0, <1>6, <1>9, <1>12, <2>1 DEF TunnelsOK, Numbered
<1>16. SnapshotIsTrue'
  <2> SUFFICES ASSUME NEW b \in Attempts
               PROVE  /\ Born(b)' => snapshot'[b] \in Snapshot /\ snapshot'[b].id <= nextID'
                      /\ ~Born(b)' => snapshot'[b] = NoSnapshot
                      /\ Running(b)' <=> Live(b)'
    BY DEF SnapshotIsTrue
  <2>1. CASE b = a
    BY <1>2, <1>6, <1>8, <1>10, <1>12, <2>1
  <2>2. CASE b # a
    <3>1. Born(b) => snapshot[b].id \in Nat
      BY <1>0 DEF TunnelsOK, SnapshotIsTrue, Snapshot, Ids, Attempts
    <3> QED BY <1>0, <1>6, <1>10, <1>12, <2>2, <3>1 DEF TunnelsOK, SnapshotIsTrue, TypeOK
  <2> QED BY <2>1, <2>2
<1>17. ShowsItsOwn'
  <2> SUFFICES ASSUME NEW i \in Ids, Shows(i)'
               PROVE  Born(entries[i])' /\ (snapshot[entries[i]].id)' = i
    BY DEF ShowsItsOwn
  <2>1. CASE i = id
    BY <1>2, <1>8, <1>10, <1>11, <1>12, <2>1
  <2>2. CASE i # id
    <3>1. entries'[i] = entries[i] /\ Shows(i) /\ entries[i] \in Attempts
      BY <1>0, <1>11, <2>2 DEF Shows, TypeOK
    <3>2. Born(entries[i]) /\ snapshot[entries[i]].id = i /\ entries[i] # a
      BY <1>0, <1>5, <3>1 DEF TunnelsOK, ShowsItsOwn
    <3> QED BY <1>10, <1>12, <3>1, <3>2
  <2> QED BY <2>1, <2>2
<1>18. \A b \in Attempts : Running(b) => snapshot[b].id # id
  <2> SUFFICES ASSUME NEW b \in Attempts, Running(b), snapshot[b].id = id PROVE FALSE
    OBVIOUS
  <2>1. entries[id] = b /\ snapshot[b].id <= nextID /\ snapshot[b].id \in Nat
    BY <1>0, RunningIsLive DEF TunnelsOK, EveryRunIsShown, SnapshotIsTrue, Born, Running, RunStages, RunnerStages, RecoveryStages, Snapshot, Ids, Attempts
  <2> QED BY <1>0, <1>4, <2>1 DEF TypeOK
<1>19. EveryRunIsShown'
  <2> SUFFICES ASSUME NEW b \in Attempts, Running(b)'
               PROVE  entries'[snapshot'[b].id] = b
    BY DEF EveryRunIsShown
  <2>1. CASE b = a
    BY <1>8, <1>10, <1>11, <2>1
  <2>2. CASE b # a
    <3>1. Running(b) /\ snapshot'[b] = snapshot[b] /\ snapshot[b].id \in Ids /\ snapshot[b].id # id
      BY <1>10, <1>12, <1>18, <2>2, RunningIsLive DEF Snapshot
    <3> QED BY <1>0, <1>11, <3>1 DEF TunnelsOK, EveryRunIsShown
  <2> QED BY <2>1, <2>2
<1>20. StoppingIsCanceled'
  <2>1. a \notin canceled
    BY <1>0, <1>5 DEF TunnelsOK, StoppingIsCanceled
  <2>2. \A b \in Attempts : Canceled(b)' <=> Canceled(b)
    BY <1>9 DEF Canceled
  <2>3. ~Canceled(a)
    BY <1>1, <2>1 DEF Canceled
  <2> QED BY <1>0, <1>8, <1>9, <1>10, <1>12, <2>2, <2>3 DEF TunnelsOK, StoppingIsCanceled, StateOf, TypeOK
<1>21. RetryKeepsConnection'
  <2>1. \A b \in 1..nextAttempt : b \in Attempts /\ Born(b) /\ b # a /\ snapshot'[b] = snapshot[b]
    BY <1>0, <1>5, <1>10, BoundsAssumption DEF TypeOK, Attempts, TunnelsOK, Numbered
  <2>2. \A b \in 1..nextAttempt : snapshot[b].id = id => snapshot[b].connection = call[c].connection
    <3> SUFFICES ASSUME NEW b \in 1..nextAttempt, snapshot[b].id = id
                 PROVE  snapshot[b].connection = call[c].connection
      OBVIOUS
    <3>1. snapshot[b].id <= nextID /\ snapshot[b].id \in Nat
      BY <1>0, <2>1 DEF TunnelsOK, SnapshotIsTrue, Snapshot, Ids, Attempts
    <3>2. call[c].id # 0
      BY <1>0, <3>1 DEF TypeOK
    <3>3. entries[id] \in 1..nextAttempt
      BY <1>0, <1>4, <3>2 DEF TunnelsOK, Numbered, Attempts, TypeOK
    <3> QED BY <1>0, <1>4, <3>2, <3>3 DEF TunnelsOK, RetryKeepsConnection
  <2>3. \A b \in 1..nextAttempt' : b \in 1..nextAttempt \/ b = a
    BY <1>0, <1>9 DEF TypeOK
  <2> QED
    <3> SUFFICES ASSUME NEW b \in 1..nextAttempt', NEW d \in 1..nextAttempt',
                        snapshot'[b].id = snapshot'[d].id
                 PROVE  snapshot'[b].connection = snapshot'[d].connection
      BY DEF RetryKeepsConnection
    <3>1. CASE b \in 1..nextAttempt /\ d \in 1..nextAttempt
      BY <1>0, <2>1, <3>1 DEF TunnelsOK, RetryKeepsConnection
    <3>2. CASE b = a /\ d \in 1..nextAttempt
      BY <1>8, <1>10, <2>1, <2>2, <3>2
    <3>3. CASE d = a /\ b \in 1..nextAttempt
      BY <1>8, <1>10, <2>1, <2>2, <3>3
    <3>4. CASE b = a /\ d = a
      BY <3>4
    <3> QED BY <2>3, <3>1, <3>2, <3>3, <3>4
<1>22. AtMostMaxLive'
  <2>1. {b \in Attempts : Running(b)}' = {b \in Attempts : Running(b)} \cup {a}
    BY <1>2, <1>12
  <2> QED BY <1>1, <1>2, <2>1, AdmissionLeavesRoom DEF AtMostMaxLive
<1>23. BoundedHistory'
  <2>1. {i \in Ids : Terminal(i)}' \in SUBSET {i \in Ids : Terminal(i)}
    <3> SUFFICES ASSUME NEW i \in Ids, Terminal(i)' PROVE Terminal(i)
      OBVIOUS
    <3>1. i # id
      BY <1>2, <1>11, <1>12 DEF Terminal
    <3>2. entries'[i] = entries[i] /\ entries[i] \in Attempts
      BY <1>0, <1>11, <3>1 DEF Terminal, Shows, TypeOK
    <3> QED BY <1>12, <3>2 DEF Terminal, Shows
  <2>2. {i \in Ids : Terminal(i)} \in SUBSET Attempts
    BY DEF Ids
  <2>3. Cardinality({i \in Ids : Terminal(i)}') <= Cardinality({i \in Ids : Terminal(i)})
    BY <2>1, <2>2, SmallerIsFewer
  <2>4. Cardinality({i \in Ids : Terminal(i)}') \in Nat /\ Cardinality({i \in Ids : Terminal(i)}) \in Nat
    BY <2>1, <2>2, AttemptsAreFinite
  <2> QED BY <1>0, <2>3, <2>4, LimitsAssumption DEF TunnelsOK, BoundedHistory
<1>24. CallsOK'
  BY <1>0, <1>1, <1>9, <1>13 DEF CallsOK, CloseJoinsAll, RequestNamesConnection, CloseLeavesNothing, TypeOK
<1> QED BY <1>14, <1>15, <1>16, <1>17, <1>19, <1>20, <1>21, <1>22, <1>23, <1>24, SplitNext DEF TunnelsOK

\* Entries are stopped; when the service is being closed, all that run are.
LEMMA StopLockedKeeps ==
  ASSUME TypeOK, TunnelsOK, NEW S \in SUBSET Attempts, StopLocked(S),
         UNCHANGED <<entries, counters, completed, run>>,
         \/ closed' = closed
         \/ closed' = TRUE /\ \A a \in Attempts : Running(a) => a \in S
  PROVE  /\ TunnelsOK'
         /\ snapshot' \in [Attempts -> Snapshot \cup {NoSnapshot}]
         /\ canceled' \in SUBSET Attempts
<1> DEFINE stopped == {a \in S : Live(a) /\ snapshot[a].state # "Stopping"}
<1>1. /\ canceled' = canceled \cup stopped
      /\ snapshot' = [a \in Attempts |->
                         IF a \in stopped
                         THEN [snapshot[a] EXCEPT !.state = "Stopping", !.version = @ + 1]
                         ELSE snapshot[a]]
  BY DEF StopLocked, Cancel
<1>2. \A a \in Attempts : Running(a) <=> Live(a)
  BY DEF TunnelsOK, SnapshotIsTrue
<1>3. \A a \in stopped : /\ a \in Attempts /\ Running(a) /\ Born(a) /\ snapshot[a] \in Snapshot
                         /\ snapshot[a].id <= nextID
  BY <1>2 DEF TunnelsOK, SnapshotIsTrue, Running, Born, RunStages, RunnerStages, RecoveryStages
<1>4. ASSUME NEW a \in stopped
      PROVE  /\ snapshot'[a] \in Snapshot /\ snapshot'[a].state = "Stopping"
             /\ snapshot'[a].id = snapshot[a].id /\ snapshot'[a].connection = snapshot[a].connection
  <2>1. snapshot'[a] = [snapshot[a] EXCEPT !.state = "Stopping", !.version = @ + 1]
    BY <1>1, <1>3
  <2>2. snapshot[a].version + 1 \in Nat /\ "Stopping" \in States /\ snapshot[a] \in Snapshot
    BY <1>3, VersionIsNat DEF States, LiveStates
  <2> QED BY <2>1, <2>2 DEF Snapshot
<1>5. \A a \in Attempts \ stopped : snapshot'[a] = snapshot[a]
  BY <1>1
<1>6. \A a \in Attempts : /\ (Live(a)' <=> Live(a)) /\ (Running(a)' <=> Running(a)) /\ (Born(a)' <=> Born(a))
                          /\ snapshot'[a].id = snapshot[a].id
                          /\ snapshot'[a].connection = snapshot[a].connection
  <2> SUFFICES ASSUME NEW a \in Attempts
               PROVE  /\ (Live(a)' <=> Live(a)) /\ (Running(a)' <=> Running(a)) /\ (Born(a)' <=> Born(a))
                      /\ snapshot'[a].id = snapshot[a].id
                      /\ snapshot'[a].connection = snapshot[a].connection
    OBVIOUS
  <2>1. (Running(a)' <=> Running(a)) /\ (Born(a)' <=> Born(a))
    BY DEF Running, Born
  <2>2. CASE a \in stopped
    BY <1>4, <2>1, <2>2 DEF Live, LiveStates
  <2>3. CASE a \notin stopped
    BY <1>5, <2>1, <2>3 DEF Live
  <2> QED BY <2>2, <2>3
<1>7. snapshot' \in [Attempts -> Snapshot \cup {NoSnapshot}]
  <2>1. \A a \in Attempts : snapshot'[a] \in Snapshot \cup {NoSnapshot}
    BY <1>4, <1>5 DEF TypeOK
  <2> QED BY <1>1, <2>1
<1>8. Numbered'
  BY <1>6 DEF TunnelsOK, Numbered, counters
<1>9. SnapshotIsTrue'
  <2> SUFFICES ASSUME NEW a \in Attempts
               PROVE  /\ Born(a)' => snapshot'[a] \in Snapshot /\ snapshot'[a].id <= nextID'
                      /\ ~Born(a)' => snapshot'[a] = NoSnapshot
                      /\ Running(a)' <=> Live(a)'
    BY DEF SnapshotIsTrue
  <2>1. nextID' = nextID
    BY DEF counters
  <2>2. CASE a \in stopped
    BY <1>2, <1>3, <1>4, <1>6, <2>1, <2>2
  <2>3. CASE a \notin stopped
    BY <1>5, <1>6, <2>1, <2>3 DEF TunnelsOK, SnapshotIsTrue
  <2> QED BY <2>2, <2>3
<1>10. ShowsItsOwn'
  <2> SUFFICES ASSUME NEW i \in Ids, Shows(i)'
               PROVE  Born(entries[i])' /\ (snapshot[entries[i]].id)' = i
    BY DEF ShowsItsOwn
  <2>1. entries'[i] = entries[i] /\ Shows(i) /\ entries[i] \in Attempts
    BY DEF Shows, TypeOK
  <2> QED BY <1>6, <2>1 DEF TunnelsOK, ShowsItsOwn
<1>11. EveryRunIsShown'
  BY <1>6 DEF TunnelsOK, EveryRunIsShown
<1>12. StoppingIsCanceled'
  <2>1. ASSUME NEW a \in Attempts, Running(a)'
        PROVE  Canceled(a)' <=> StateOf(a)' = "Stopping"
    <3>1. Running(a) /\ Live(a)
      BY <1>2, <1>6, <2>1
    <3>2. CASE a \in stopped
      BY <1>1, <1>4, <3>2 DEF Canceled, StateOf
    <3>3. CASE a \notin stopped /\ closed' = closed
      BY <1>1, <1>5, <3>1, <3>3 DEF TunnelsOK, StoppingIsCanceled, Canceled, StateOf
    <3>4. CASE a \notin stopped /\ closed' = TRUE /\ a \in S
      BY <1>5, <3>1, <3>4 DEF Canceled, StateOf
    <3> QED BY <3>1, <3>2, <3>3, <3>4
  <2>2. \A a \in canceled' : Born(a)'
    BY <1>1, <1>3, <1>6 DEF TunnelsOK, StoppingIsCanceled, TypeOK
  <2> QED BY <2>1, <2>2 DEF StoppingIsCanceled
<1>13. RetryKeepsConnection'
  <2>1. \A a \in 1..nextAttempt : a \in Attempts
    BY BoundsAssumption DEF TypeOK, Attempts
  <2> QED BY <1>6, <2>1 DEF TunnelsOK, RetryKeepsConnection, counters
<1>14. AtMostMaxLive'
  <2>1. {a \in Attempts : Running(a)}' = {a \in Attempts : Running(a)}
    BY <1>6
  <2> QED BY <2>1 DEF TunnelsOK, AtMostMaxLive
<1>15. BoundedHistory'
  <2>1. {i \in Ids : Terminal(i)}' = {i \in Ids : Terminal(i)}
    BY <1>6 DEF Terminal, Shows, TypeOK
  <2> QED BY <2>1 DEF TunnelsOK, BoundedHistory
<1>16. canceled' \in SUBSET Attempts
  BY <1>1, <1>3 DEF TypeOK
<1> QED BY <1>7, <1>8, <1>9, <1>10, <1>11, <1>12, <1>13, <1>14, <1>15, <1>16 DEF TunnelsOK

\* The calls a caller can be in the middle of.
Calls == [op : Operations, id : Ids \cup {0},
          connection : Connections \cup {NoConnection}, join : SUBSET Attempts]

\* A caller at rest.
LEMMA IdleIsCall == Idle \in Calls /\ Idle.op = "idle"
BY DEF Idle, Calls, Operations

\* A caller that begins to join attempts.
LEMMA JoinIsCall ==
  ASSUME NEW op \in {"stop", "wait", "close"}, NEW join \in SUBSET Attempts
  PROVE  /\ [Idle EXCEPT !.op = op, !.join = join] \in Calls
         /\ [Idle EXCEPT !.op = op, !.join = join].op = op
         /\ [Idle EXCEPT !.op = op, !.join = join].join = join
BY DEF Idle, Calls, Operations

\* Stop and StopAttempt of an entry.
LEMMA StopEntryKeeps ==
  ASSUME IInv, NEW c \in Callers, NEW a \in Attempts, StopEntry(c, a)
  PROVE  IInv'
<1>0. TypeOK /\ TunnelsOK /\ CallsOK
  BY Split
<1>1. StopLocked({a}) /\ UNCHANGED <<entries, counters, completed, closed, run, closeReturned>>
  BY DEF StopEntry
<1>2. TunnelsOK' /\ snapshot' \in [Attempts -> Snapshot \cup {NoSnapshot}] /\ canceled' \in SUBSET Attempts
  BY <1>0, <1>1, StopLockedKeeps
<1> DEFINE new == [Idle EXCEPT !.op = "stop", !.join = {a}]
<1>3. call' = [call EXCEPT ![c] = new] /\ new \in Calls /\ new.op = "stop"
  <2>1. call' = [call EXCEPT ![c] = new]
    BY DEF StopEntry, SetCall
  <2>2. {a} \in SUBSET Attempts
    OBVIOUS
  <2>3. new \in Calls /\ new.op = "stop"
    BY <2>2, JoinIsCall
  <2> QED BY <2>1, <2>3
<1>4. call' \in [Callers -> Calls]
  BY <1>0, <1>3 DEF TypeOK, Calls
<1>5. TypeOK'
  BY <1>0, <1>1, <1>2, <1>4 DEF TypeOK, counters, Calls
<1>6. \A d \in Callers : call'[d] = call[d] \/ call'[d].op = "stop"
  BY <1>0, <1>3 DEF TypeOK
<1>7. \A b \in Attempts : Running(b)' <=> Running(b)
  BY <1>1 DEF Running
<1>8. CallsOK'
  BY <1>0, <1>1, <1>6, <1>7 DEF CallsOK, CloseJoinsAll, RequestNamesConnection, CloseLeavesNothing
<1> QED BY <1>2, <1>5, <1>8, SplitNext

\* Close stops every entry, and those are all that run.
LEMMA CloseKeeps ==
  ASSUME IInv, NEW c \in Callers, Close(c)
  PROVE  IInv'
<1>0. TypeOK /\ TunnelsOK /\ CallsOK
  BY Split
<1>1. StopLocked(Entries) /\ closed' = TRUE /\ UNCHANGED <<entries, counters, completed, run, closeReturned>>
  BY DEF Close
<1>2. Entries \in SUBSET Attempts
  BY DEF Entries
<1>3. \A a \in Attempts : Running(a) => a \in Entries
  BY <1>0, RunningIsLive DEF TunnelsOK, EveryRunIsShown, Entries, Snapshot
<1>4. TunnelsOK' /\ snapshot' \in [Attempts -> Snapshot \cup {NoSnapshot}] /\ canceled' \in SUBSET Attempts
  BY <1>0, <1>1, <1>2, <1>3, StopLockedKeeps
<1> DEFINE new == [Idle EXCEPT !.op = "close", !.join = Entries]
<1>5. call' = [call EXCEPT ![c] = new] /\ new \in Calls /\ new.op = "close" /\ new.join = Entries
  BY <1>2, JoinIsCall DEF Close, SetCall
<1>6. call' \in [Callers -> Calls]
  BY <1>0, <1>5 DEF TypeOK, Calls
<1>7. TypeOK'
  BY <1>0, <1>1, <1>4, <1>6 DEF TypeOK, counters, Calls
<1>8. \A d \in Callers : call'[d] = call[d] \/ (call'[d].op = "close" /\ call'[d].join = Entries)
  BY <1>0, <1>5 DEF TypeOK
<1>9. \A b \in Attempts : Running(b)' <=> Running(b)
  BY <1>1 DEF Running
<1>10. CallsOK'
  BY <1>0, <1>1, <1>3, <1>8, <1>9 DEF CallsOK, CloseJoinsAll, RequestNamesConnection, CloseLeavesNothing
<1> QED BY <1>4, <1>7, <1>10, SplitNext

\* Dismiss takes a finished tunnel off the list, so no run loses its entry.
LEMMA DismissKeeps ==
  ASSUME IInv, NEW c \in Callers, Dismiss(c)
  PROVE  IInv'
<1>0. TypeOK /\ TunnelsOK /\ CallsOK
  BY Split
<1>1. PICK i \in Ids : Terminal(i) /\ entries' = [entries EXCEPT ![i] = 0]
  BY DEF Dismiss, MayDismiss
<1>2. UNCHANGED <<snapshot, counters, completed, canceled, closed, run, call, closeReturned>>
  BY DEF Dismiss
<1>3. \A j \in Ids : (j # i => entries'[j] = entries[j]) /\ (j = i => entries'[j] = 0)
  BY <1>0, <1>1 DEF TypeOK
<1>4. TypeOK'
  BY <1>0, <1>1, <1>2 DEF TypeOK, counters
<1>5. Numbered' /\ SnapshotIsTrue' /\ StoppingIsCanceled' /\ RetryKeepsConnection' /\ AtMostMaxLive'
  BY <1>0, <1>2 DEF TunnelsOK, Numbered, SnapshotIsTrue, StoppingIsCanceled, RetryKeepsConnection,
                    AtMostMaxLive, counters, Born, Running, Live, Canceled, StateOf
<1>6. ShowsItsOwn'
  BY <1>0, <1>2, <1>3 DEF TunnelsOK, ShowsItsOwn, Shows, Born
<1>7. EveryRunIsShown'
  <2> SUFFICES ASSUME NEW a \in Attempts, Running(a)'
               PROVE  entries'[snapshot'[a].id] = a
    BY DEF EveryRunIsShown
  <2>1. Running(a) /\ snapshot[a].id \in Ids /\ entries[snapshot[a].id] = a /\ Live(a)
    BY <1>0, <1>2, RunningIsLive DEF TunnelsOK, EveryRunIsShown, Running, Live, Snapshot
  <2>2. snapshot[a].id # i
    BY <1>1, <2>1 DEF Terminal
  <2> QED BY <1>2, <1>3, <2>1, <2>2
<1>8. BoundedHistory'
  <2>1. {j \in Ids : Terminal(j)}' \in SUBSET {j \in Ids : Terminal(j)}
    BY <1>2, <1>3 DEF Terminal, Shows, Live
  <2>2. {j \in Ids : Terminal(j)} \in SUBSET Attempts
    BY DEF Ids
  <2>3. Cardinality({j \in Ids : Terminal(j)}') <= Cardinality({j \in Ids : Terminal(j)})
    BY <2>1, <2>2, SmallerIsFewer
  <2>4. Cardinality({j \in Ids : Terminal(j)}') \in Nat /\ Cardinality({j \in Ids : Terminal(j)}) \in Nat
    BY <2>1, <2>2, AttemptsAreFinite
  <2> QED BY <1>0, <2>3, <2>4, LimitsAssumption DEF TunnelsOK, BoundedHistory
<1>9. CallsOK'
  BY <1>0, <1>2, CallFrame DEF Running
<1> QED BY <1>4, <1>5, <1>6, <1>7, <1>8, <1>9, SplitNext DEF TunnelsOK

\* A caller goes on with a call that changes no tunnel.
LEMMA CallKeeps ==
  ASSUME IInv, NEW c \in Callers, NEW new \in Calls, SetCall(c, new),
         new.op # "close",
         new.op = "admitting" => new.connection \in Connections,
         UNCHANGED <<entries, snapshot, counters, completed, canceled, closed, run, closeReturned>>
  PROVE  IInv'
<1>0. TypeOK /\ TunnelsOK /\ CallsOK
  BY Split
<1>1. call' \in [Callers -> Calls] /\ \A d \in Callers : call'[d] = call[d] \/ call'[d] = new
  BY <1>0 DEF TypeOK, Calls, SetCall
<1>2. TypeOK'
  BY <1>0, <1>1 DEF TypeOK, counters, Calls
<1>3. TunnelsOK'
  BY <1>0, TunnelFrame
<1>4. \A a \in Attempts : Running(a)' <=> Running(a)
  BY DEF Running
<1>5. CallsOK'
  BY <1>0, <1>1, <1>4 DEF CallsOK, CloseJoinsAll, RequestNamesConnection, CloseLeavesNothing
<1> QED BY <1>2, <1>3, <1>5, SplitNext

\* A request that passes the preflight.
LEMMA RequestKeeps ==
  ASSUME IInv, NEW c \in Callers, NEW id \in Ids \cup {0}, NEW connection \in Connections,
         Request(c, id, connection)
  PROVE  IInv'
<1> DEFINE new == [Idle EXCEPT !.op = "admitting", !.id = id, !.connection = connection]
<1>1. new \in Calls /\ new.op = "admitting" /\ new.connection = connection
  BY DEF Idle, Calls, Operations
<1> QED BY <1>1, CallKeeps DEF Request

\* A call returns when all it joins is done; after a Close that is everything.
LEMMA JoinedKeeps ==
  ASSUME IInv, NEW c \in Callers, Joined(c)
  PROVE  IInv'
<1>0. TypeOK /\ TunnelsOK /\ CallsOK
  BY Split
<1>1. UNCHANGED <<entries, snapshot, counters, completed, canceled, closed, run>>
  BY DEF Joined
<1>2. call' \in [Callers -> Calls] /\ \A d \in Callers : call'[d] = call[d] \/ call'[d].op = "idle"
  BY <1>0, IdleIsCall DEF TypeOK, Calls, Joined, Return, SetCall
<1>3. closeReturned' = (closeReturned \/ call[c].op = "close")
  BY DEF Joined
<1>4. TypeOK'
  BY <1>0, <1>1, <1>2, <1>3 DEF TypeOK, counters, Calls
<1>5. TunnelsOK'
  BY <1>0, <1>1, TunnelFrame
<1>6. call[c].op = "close" => closed /\ \A a \in Attempts : ~Running(a)
  BY <1>0 DEF CallsOK, CloseJoinsAll, Joined, Running, RunStages, RunnerStages, RecoveryStages
<1>7. CallsOK'
  <2>1. \A a \in Attempts : Running(a)' <=> Running(a)
    BY <1>1 DEF Running
  <2> QED BY <1>0, <1>1, <1>2, <1>3, <1>6, <2>1 DEF CallsOK, CloseJoinsAll, RequestNamesConnection, CloseLeavesNothing
<1> QED BY <1>4, <1>5, <1>7, SplitNext

\* Any step of a caller.
LEMMA CallStepKeeps ==
  ASSUME IInv, NEW c \in Callers, CallStep(c)
  PROVE  IInv'
<1>1. CASE Start(c)
  BY <1>1, RequestKeeps DEF Start
<1>2. CASE Retry(c)
  BY <1>2, RequestKeeps DEF Retry
<1>4. CASE Launch(c)
  BY <1>4, LaunchKeeps
<1>5. CASE Refuse(c)
  BY <1>5, IdleIsCall, CallKeeps DEF Refuse, Return
<1>6. CASE Stop(c)
  <2>1. PICK i \in Ids : Shows(i) /\ StopEntry(c, entries[i])
    BY <1>6 DEF Stop
  <2>2. entries[i] \in Attempts
    BY <2>1 DEF IInv, TypeOK, Shows
  <2> QED BY <2>1, <2>2, StopEntryKeeps
<1>7. CASE StopAttempt(c)
  <2>1. PICK a \in 1..nextAttempt : StopEntry(c, a)
    BY <1>7 DEF StopAttempt
  <2>2. a \in Attempts
    BY BoundsAssumption DEF IInv, TypeOK, Attempts
  <2> QED BY <2>1, <2>2, StopEntryKeeps
<1>8. CASE Wait(c)
  <2>1. PICK i \in Ids : Shows(i) /\ SetCall(c, [Idle EXCEPT !.op = "wait", !.join = {entries[i]}])
    BY <1>8 DEF Wait
  <2>2. {entries[i]} \in SUBSET Attempts
    BY <2>1 DEF IInv, TypeOK, Shows
  <2>3. /\ [Idle EXCEPT !.op = "wait", !.join = {entries[i]}] \in Calls
        /\ [Idle EXCEPT !.op = "wait", !.join = {entries[i]}].op = "wait"
    BY <2>2, JoinIsCall
  <2> QED BY <1>8, <2>1, <2>3, CallKeeps DEF Wait
<1>9. CASE Dismiss(c)
  BY <1>9, DismissKeeps
<1>10. CASE Close(c)
  BY <1>10, CloseKeeps
<1>11. CASE Joined(c)
  BY <1>11, JoinedKeeps
<1>12. CASE WaitCanceled(c)
  BY <1>12, IdleIsCall, CallKeeps DEF WaitCanceled, Return
<1> QED BY <1>1, <1>2, <1>4, <1>5, <1>6, <1>7, <1>8, <1>9, <1>10, <1>11, <1>12 DEF CallStep, Admission, OtherCall

-----------------------------------------------------------------------------
(* The invariant, and the safety properties that follow from it.           *)

\* The invariant holds initially.
LEMMA InitInvariant == Init => IInv
<1> SUFFICES ASSUME Init PROVE IInv
  OBVIOUS
<1>1. TypeOK
  <2>1. Idle \in Calls
    BY IdleIsCall
  <2>2. 0 \in 0..MaxAttempts /\ NoSnapshot \in Snapshot \cup {NoSnapshot}
    BY BoundsAssumption
  <2>3. entries \in [Ids -> Attempts \cup {0}]
        /\ completed \in [Attempts -> Nat] /\ run \in [Attempts -> RunStages \cup {"none", "done"}]
    BY DEF Init
  <2>4. snapshot \in [Attempts -> Snapshot \cup {NoSnapshot}] /\ call \in [Callers -> Calls]
    BY <2>1, <2>2 DEF Init
  <2> QED BY <2>2, <2>3, <2>4 DEF Init, TypeOK, Calls
<1>2. \A a \in Attempts : ~Born(a) /\ ~Running(a) /\ ~Live(a) /\ a > 0
  <2>1. \A a \in Attempts : a > 0
    BY BoundsAssumption DEF Attempts
  <2>2. \A a \in Attempts : ~Born(a) /\ ~Running(a)
    BY DEF Init, Born, Running, RunStages, RunnerStages, RecoveryStages
  <2>3. NoSnapshot.state = "none"
    BY DEF NoSnapshot
  <2>4. \A a \in Attempts : ~Live(a)
    BY <2>3 DEF Init, Live, LiveStates
  <2> QED BY <2>1, <2>2, <2>4
<1>3. \A i \in Ids : ~Shows(i) /\ ~Terminal(i)
  BY DEF Init, Shows, Terminal
<1>4. Numbered /\ SnapshotIsTrue /\ ShowsItsOwn /\ EveryRunIsShown /\ StoppingIsCanceled
  BY <1>2, <1>3 DEF Init, Numbered, SnapshotIsTrue, ShowsItsOwn, EveryRunIsShown, StoppingIsCanceled, Attempts
<1>5. RetryKeepsConnection
  BY DEF Init, RetryKeepsConnection
<1>6. AtMostMaxLive
  <2>1. {a \in Attempts : Running(a)} = {}
    BY <1>2
  <2> QED BY <2>1, FS_EmptySet, LimitsAssumption DEF AtMostMaxLive
<1>7. BoundedHistory
  <2>1. {i \in Ids : Terminal(i)} = {}
    BY <1>3
  <2> QED BY <2>1, FS_EmptySet, LimitsAssumption DEF BoundedHistory
<1>8. CallsOK
  BY <1>2, IdleIsCall DEF Init, CallsOK, CloseJoinsAll, RequestNamesConnection, CloseLeavesNothing
<1> QED BY <1>1, <1>4, <1>5, <1>6, <1>7, <1>8, Split DEF TunnelsOK

\* A step that changes nothing.
LEMMA StutterKeeps ==
  ASSUME IInv, UNCHANGED vars
  PROVE  IInv'
<1>0. TypeOK /\ TunnelsOK /\ CallsOK
  BY Split
<1>1. TypeOK'
  BY <1>0 DEF TypeOK, vars, counters
<1> QED BY <1>0, <1>1, TunnelFrame, CallFrame, SplitNext DEF vars, Running

\* Every step preserves the invariant.
LEMMA NextInvariant == IInv /\ [Next]_vars => IInv'
<1> SUFFICES ASSUME IInv, [Next]_vars PROVE IInv'
  OBVIOUS
<1>1. CASE \E c \in Callers : CallStep(c)
  BY <1>1, CallStepKeeps
<1>2. CASE \E a \in Attempts : RunStep(a)
  BY <1>2, RunStepKeeps
<1>4. CASE UNCHANGED vars
  BY <1>4, StutterKeeps
<1> QED BY <1>1, <1>2, <1>4 DEF Next

\* The inductive invariant of the tunnel service.
THEOREM TunnelInvariant == Spec => []IInv
BY InitInvariant, NextInvariant, PTL DEF Spec

\* What the service keeps has its type (tunnel.go:122).
THEOREM TunnelTypes == Spec => []TypeOK
<1>1. IInv => TypeOK
  BY DEF IInv
<1> QED BY <1>1, TunnelInvariant, PTL

\* However many callers race, no more than MaxLive goroutines run (tunnel.go:249).
THEOREM LiveIsBounded == Spec => []AtMostMaxLive
<1>1. IInv => AtMostMaxLive
  BY DEF IInv
<1> QED BY <1>1, TunnelInvariant, PTL

\* No more than MaxTerminal finished tunnels are kept (tunnel.go:408).
THEOREM HistoryIsBounded == Spec => []BoundedHistory
<1>1. IInv => BoundedHistory
  BY DEF IInv
<1> QED BY <1>1, TunnelInvariant, PTL

\* A goroutine always belongs to the entry its tunnel shows (tunnel.go:242).
THEOREM NoHiddenRun == Spec => []EveryRunIsShown
<1>1. IInv => EveryRunIsShown
  BY DEF IInv
<1> QED BY <1>1, TunnelInvariant, PTL

\* After Close nothing runs and nothing starts (tunnel.go:523).
THEOREM CloseIsFinal == Spec => []CloseLeavesNothing
<1>1. IInv => CloseLeavesNothing
  BY DEF IInv
<1> QED BY <1>1, TunnelInvariant, PTL

\* A tunnel stays with the connection it was confirmed for (tunnel.go:258).
THEOREM ConnectionIsKept == Spec => []RetryKeepsConnection
<1>1. IInv => RetryKeepsConnection
  BY DEF IInv
<1> QED BY <1>1, TunnelInvariant, PTL

-----------------------------------------------------------------------------
(* The action properties.                                                  *)

\* What each step does to the state and version of a snapshot that is there.
News(a) ==
    /\ LifecycleOf(a)
    /\ snapshot[a] # snapshot[a]' /\ Born(a) => snapshot[a].version < snapshot[a]'.version

\* A stop marks what is live, with a new version.
LEMMA NewsOfStop ==
  ASSUME IInv, NEW S \in SUBSET Attempts, StopLocked(S), NEW a \in Attempts
  PROVE  News(a)
<1>1. snapshot'[a] = IF a \in {b \in S : Live(b) /\ snapshot[b].state # "Stopping"}
                     THEN [snapshot[a] EXCEPT !.state = "Stopping", !.version = @ + 1]
                     ELSE snapshot[a]
  BY DEF StopLocked
<1>2. Live(a) => snapshot[a] \in Snapshot
  BY DEF IInv, SnapshotIsTrue, Born, Running, RunStages, RunnerStages, RecoveryStages
<1>3. CASE snapshot'[a] = snapshot[a]
  BY <1>3 DEF News, LifecycleOf, Becomes, StateOf
<1>4. CASE snapshot'[a] # snapshot[a]
  <2>1. snapshot'[a] = [snapshot[a] EXCEPT !.state = "Stopping", !.version = @ + 1]
        /\ snapshot[a].state \in LiveStates \ {"Stopping"} /\ snapshot[a] \in Snapshot
    BY <1>1, <1>2, <1>4 DEF Live
  <2>2. snapshot'[a].state = "Stopping" /\ snapshot'[a].version = snapshot[a].version + 1
        /\ snapshot[a].version \in Nat
    BY <2>1 DEF Snapshot
  <2> QED BY <2>1, <2>2 DEF News, LifecycleOf, Becomes, StateOf, LiveStates
<1> QED BY <1>3, <1>4

\* What a goroutine does to snapshots.
LEMMA NewsOfRun ==
  ASSUME IInv, NEW b \in Attempts, RunStep(b), NEW a \in Attempts
  PROVE  News(a)
<1>1. snapshot \in [Attempts -> Snapshot \cup {NoSnapshot}]
  BY DEF IInv, TypeOK
<1>2. CASE snapshot'[a] = snapshot[a]
  BY <1>2 DEF News, LifecycleOf, Becomes, StateOf
<1>3. CASE Ready(b) /\ snapshot'[a] # snapshot[a]
  <2>1. Running(b) /\ snapshot' = [snapshot EXCEPT ![b].state = "Active", ![b].version = @ + 1]
        /\ snapshot[b].state = "Starting"
    BY <1>3 DEF Ready, Running, RunStages, RunnerStages, RecoveryStages, MayActivate
  <2>2. a = b /\ snapshot[a] \in Snapshot
    BY <1>1, <1>3, <2>1, RunningIsLive
  <2>3. snapshot'[a] = [snapshot[a] EXCEPT !.state = "Active", !.version = @ + 1]
    BY <1>1, <2>1, <2>2
  <2>4. snapshot'[a].state = "Active" /\ snapshot'[a].version = snapshot[a].version + 1
        /\ snapshot[a].version \in Nat
    BY <2>2, <2>3 DEF Snapshot
  <2> QED BY <2>1, <2>2, <2>4 DEF News, LifecycleOf, Becomes, StateOf
<1>4. CASE Diagnostic(b) /\ snapshot'[a] # snapshot[a]
  <2>1. PICK text \in Texts :
          snapshot' = [snapshot EXCEPT ![b].diagnostic = text, ![b].version = @ + 1]
    BY <1>4 DEF Diagnostic
  <2>2. a = b /\ snapshot[a] \in Snapshot
    BY <1>1, <1>4, <2>1, RunningIsLive DEF Diagnostic, Running, RunStages
  <2>3. snapshot'[a] = [snapshot[a] EXCEPT !.diagnostic = text, !.version = @ + 1]
    BY <1>1, <2>1, <2>2
  <2>4. snapshot'[a].state = snapshot[a].state /\ snapshot'[a].version = snapshot[a].version + 1
        /\ snapshot[a].version \in Nat
    BY <2>2, <2>3 DEF Snapshot
  <2> QED BY <2>4 DEF News, LifecycleOf, Becomes, StateOf
<1>5. CASE Complete(b) /\ snapshot'[a] # snapshot[a]
  <2> DEFINE state == IF Canceled(b) THEN "Stopped" ELSE "Failed"
             diagnostic == IF Canceled(b) \/ snapshot[b].diagnostic # "" THEN snapshot[b].diagnostic ELSE "failure"
  <2>1. Running(b) /\ snapshot' = [snapshot EXCEPT ![b].state = state, ![b].diagnostic = diagnostic,
                                                   ![b].version = @ + 1]
    BY <1>5 DEF Complete, Running, RunStages
  <2>2. a = b /\ snapshot[a] \in Snapshot /\ snapshot[a].state \in LiveStates
    BY <1>1, <1>5, <2>1, RunningIsLive
  <2>3. snapshot'[a] = [snapshot[a] EXCEPT !.state = state, !.diagnostic = diagnostic, !.version = @ + 1]
    BY <1>1, <2>1, <2>2
  <2>4. snapshot'[a].state = state /\ snapshot'[a].version = snapshot[a].version + 1
        /\ snapshot[a].version \in Nat
    BY <2>2, <2>3 DEF Snapshot
  <2>5. Canceled(a) <=> snapshot[a].state = "Stopping"
    BY <2>1, <2>2 DEF IInv, StoppingIsCanceled, StateOf
  <2> QED BY <2>2, <2>4, <2>5 DEF News, LifecycleOf, Becomes, StateOf, LiveStates
<1>6. CASE UNCHANGED snapshot
  BY <1>2, <1>6
<1> QED BY <1>2, <1>3, <1>4, <1>5, <1>6 DEF RunStep, BeginRecovery, AskUser, EndRecovery, Bind, FailToBind, EndLifetime, RunnerReturns, RunOnly

\* A new attempt leaves the other snapshots alone.
LEMMA NewsOfLaunch ==
  ASSUME IInv, NEW c \in Callers, Launch(c), NEW a \in Attempts
  PROVE  News(a)
<1>1. snapshot \in [Attempts -> Snapshot \cup {NoSnapshot}] /\ nextAttempt \in Nat
  BY DEF IInv, TypeOK
<1>2. CASE a = nextAttempt + 1
  <2>1. ~Born(a) /\ snapshot[a] = NoSnapshot
    BY <1>1, <1>2 DEF IInv, Numbered, SnapshotIsTrue
  <2>2. snapshot'[a].state = "Starting"
    BY <1>1, <1>2 DEF Launch, NewSnapshot
  <2>3. NoSnapshot.state = "none"
    BY DEF NoSnapshot
  <2> QED BY <2>1, <2>2, <2>3 DEF News, LifecycleOf, Becomes, StateOf
<1>3. CASE a # nextAttempt + 1
  <2>1. snapshot'[a] = snapshot[a]
    BY <1>1, <1>3 DEF Launch
  <2> QED BY <2>1 DEF News, LifecycleOf, Becomes, StateOf
<1> QED BY <1>2, <1>3

\* What any step does to a snapshot.
LEMMA NewsOfNext ==
  ASSUME IInv, [Next]_vars, NEW a \in Attempts
  PROVE  News(a)
<1>1. CASE UNCHANGED snapshot
  BY <1>1 DEF News, LifecycleOf, Becomes, StateOf
<1>2. CASE \E b \in Attempts : RunStep(b)
  BY <1>2, NewsOfRun
<1>3. CASE \E c \in Callers : Launch(c)
  BY <1>3, NewsOfLaunch
<1>4. ASSUME NEW c \in Callers, Stop(c) PROVE News(a)
  <2>1. PICK i \in Ids : Shows(i) /\ StopLocked({entries[i]})
    BY <1>4 DEF Stop, StopEntry
  <2>2. entries[i] \in Attempts
    BY <2>1 DEF IInv, TypeOK, Shows
  <2> QED BY <2>1, <2>2, NewsOfStop
<1>5. ASSUME NEW c \in Callers, StopAttempt(c) PROVE News(a)
  <2>1. PICK b \in 1..nextAttempt : StopLocked({b})
    BY <1>5 DEF StopAttempt, StopEntry
  <2>2. b \in Attempts
    BY BoundsAssumption DEF IInv, TypeOK, Attempts
  <2> QED BY <2>1, <2>2, NewsOfStop
<1>6. ASSUME NEW c \in Callers, Close(c) PROVE News(a)
  BY <1>6, NewsOfStop DEF Close, Entries
<1> QED
  BY <1>1, <1>2, <1>3, <1>4, <1>5, <1>6
  DEF Next, CallStep, Admission, OtherCall, Start, Retry, Request, Refuse, Wait, Dismiss, Joined, WaitCanceled,
      vars

\* Attempts keep to their lifecycle (tunnel.go:344, :372 and :459).
THEOREM LifecycleIsKept == Spec => Lifecycle
<1>1. IInv /\ [Next]_vars => \A a \in Attempts : LifecycleOf(a)
  BY NewsOfNext DEF News
<1>2. IInv /\ [Next]_vars => [\A a \in Attempts : LifecycleOf(a)]_vars
  BY <1>1
<1> QED BY <1>2, TunnelInvariant, PTL DEF Spec, Lifecycle

\* Who changes what a tunnel shows: only a retry shows another attempt.
LEMMA ShownOfNext ==
  ASSUME IInv, [Next]_vars, NEW i \in Ids, Shows(i), Shows(i)', entries'[i] # entries[i]
  PROVE  snapshot[entries[i]].version < snapshot'[entries'[i]].version
<1>1. entries \in [Ids -> Attempts \cup {0}]
  BY DEF IInv, TypeOK
<1>2. ASSUME NEW c \in Callers, Launch(c)
      PROVE  snapshot[entries[i]].version < snapshot'[entries'[i]].version
  <2> DEFINE a == nextAttempt + 1
             id == IF call[c].id = 0 THEN nextID + 1 ELSE call[c].id
  <2>1. entries' = [entries EXCEPT ![id] = a]
    BY <1>2 DEF Launch
  <2>2. i = id /\ entries'[i] = a
    BY <1>1, <2>1
  <2>3. Born(entries[i]) /\ snapshot[entries[i]].id = i /\ entries[i] \in Attempts
    BY <1>1 DEF IInv, ShowsItsOwn, Shows
  <2>4. snapshot[entries[i]] \in Snapshot /\ i <= nextID /\ i \in Nat /\ nextID \in Nat
    BY <2>3 DEF IInv, SnapshotIsTrue, TypeOK, Ids, Attempts
  <2>5. call[c].id = i /\ i # 0
    BY <2>2, <2>4 DEF Ids, Attempts
  <2>6. a \in Attempts /\ snapshot \in [Attempts -> Snapshot \cup {NoSnapshot}]
    BY <1>2, BoundsAssumption DEF Launch, IInv, TypeOK, Attempts
  <2>7. snapshot'[a].version = snapshot[entries[i]].version + 1
    BY <1>2, <2>5, <2>6 DEF Launch, NewSnapshot, NextVersion
  <2> QED BY <2>2, <2>4, <2>7, VersionIsNat
<1>3. ASSUME NEW a \in Attempts, Complete(a) PROVE FALSE
  BY <1>1, <1>3 DEF Complete, EvictLocked, Shows
<1>4. ASSUME NEW c \in Callers, Dismiss(c) PROVE FALSE
  BY <1>1, <1>4 DEF Dismiss, Shows
<1>5. CASE UNCHANGED entries
  BY <1>5
<1>6. CASE \E a \in Attempts : RunStep(a)
  BY <1>3, <1>5, <1>6 DEF RunStep, BeginRecovery, AskUser, EndRecovery, Bind, FailToBind, EndLifetime,
                          RunnerReturns, RunOnly, Ready, Diagnostic
<1>7. CASE \E c \in Callers : CallStep(c)
  BY <1>2, <1>4, <1>5, <1>7 DEF CallStep, Admission, OtherCall, Start, Retry, Request, Refuse, Stop, StopAttempt,
                                StopEntry, Wait, Close, Joined, WaitCanceled
<1> QED BY <1>5, <1>6, <1>7 DEF Next, vars

\* A change of what a tunnel shows carries a greater version (tunnel.go:216).
THEOREM NewsIsAlwaysNewer == Spec => NewsIsNewer
<1>1. ASSUME IInv, [Next]_vars, NEW i \in Ids PROVE NewsIsNewerFor(i)
  <2> SUFFICES ASSUME Shows(i), Shows(i)', snapshot[entries[i]] # snapshot'[entries'[i]]
               PROVE  snapshot[entries[i]].version < snapshot'[entries'[i]].version
    BY DEF NewsIsNewerFor
  <2>1. entries[i] \in Attempts /\ Born(entries[i])
    BY <1>1 DEF IInv, TypeOK, ShowsItsOwn, Shows
  <2>2. CASE entries'[i] = entries[i]
    BY <1>1, <2>1, <2>2, NewsOfNext DEF News
  <2>3. CASE entries'[i] # entries[i]
    BY <1>1, <2>3, ShownOfNext
  <2> QED BY <2>2, <2>3
<1>2. IInv /\ [Next]_vars => [\A i \in Ids : NewsIsNewerFor(i)]_vars
  BY <1>1
<1> QED BY <1>2, TunnelInvariant, PTL DEF Spec, NewsIsNewer

\* Eviction spares the attempt that completes.
LEMMA CompleteIsShown ==
  ASSUME IInv, NEW a \in Attempts, Complete(a)
  PROVE  entries'[snapshot'[a].id] = a
<1> DEFINE i == snapshot[a].id
           terminal == {j \in Ids : Terminal(j) \/ entries[j] = a}
<1>1. Running(a) /\ snapshot[a] \in Snapshot /\ i \in Ids
  BY RunningIsLive DEF Complete, Running, RunStages, Snapshot
<1>2. entries[i] = a /\ i \in terminal
  BY <1>1 DEF IInv, EveryRunIsShown
<1>3. snapshot'[a].id = i
  <2>1. snapshot \in [Attempts -> Snapshot \cup {NoSnapshot}]
    BY DEF IInv, TypeOK
  <2>2. snapshot' = [snapshot EXCEPT
                       ![a].state = IF Canceled(a) THEN "Stopped" ELSE "Failed",
                       ![a].diagnostic = IF Canceled(a) \/ @ # "" THEN @ ELSE "failure",
                       ![a].version = @ + 1]
    BY DEF Complete
  <2> QED BY <1>1, <2>1, <2>2 DEF Snapshot
<1>4. PICK gone \in SUBSET terminal :
        /\ IF Cardinality(terminal) > MaxTerminal
           THEN Cardinality(terminal \ gone) = MaxTerminal
           ELSE gone = {}
        /\ \A g \in gone, k \in terminal \ gone : Order(a)[entries[g]] < Order(a)[entries[k]]
        /\ entries' = [j \in Ids |-> IF j \in gone THEN 0 ELSE entries[j]]
  BY DEF Complete, EvictLocked
<1>5. i \notin gone
  <2> SUFFICES ASSUME i \in gone PROVE FALSE
    OBVIOUS
  <2>1. terminal \ gone # {}
    <3>1. Cardinality(terminal \ gone) = MaxTerminal
      BY <1>4
    <3>2. MaxTerminal # 0 /\ Cardinality({}) = 0
      BY LimitsAssumption, FS_EmptySet
    <3> QED BY <3>1, <3>2
  <2>2. PICK k \in terminal \ gone : TRUE
    BY <2>1
  <2>3. Order(a)[a] < Order(a)[entries[k]]
    BY <1>2, <1>4, <2>2
  <2>4. entries[k] \in Attempts
    BY <2>2 DEF IInv, TypeOK, Terminal, Shows
  <2>5. Order(a)[a] = nextCompletion + 1 /\ Order(a)[entries[k]] <= nextCompletion + 1
        /\ Order(a)[entries[k]] \in Nat /\ nextCompletion \in Nat
    BY <2>4 DEF IInv, TypeOK, Numbered, Order
  <2> QED BY <2>3, <2>5
<1> QED BY <1>1, <1>2, <1>3, <1>4, <1>5

\* A tunnel that completes stays on the list (tunnel.go:389).
THEOREM CompletionStaysShown == Spec => CompletionIsShown
<1>1. ASSUME IInv, [Next]_vars, NEW a \in Attempts, run[a] # "done", run'[a] = "done"
      PROVE  entries'[snapshot'[a].id] = a
  <2>1. run \in [Attempts -> RunStages \cup {"none", "done"}]
    BY <1>1 DEF IInv, TypeOK
  <2>2. CASE UNCHANGED run
    BY <1>1, <2>2
  <2>3. ASSUME NEW c \in Callers, Launch(c) PROVE FALSE
    BY <1>1, <2>1, <2>3 DEF Launch
  <2>4. ASSUME NEW b \in Attempts, RunStep(b) PROVE Complete(b) /\ b = a
    <3>1. CASE Complete(b)
      BY <1>1, <2>1, <3>1 DEF Complete, GoTo
    <3>2. CASE ~Complete(b)
      BY <1>1, <2>1, <2>4, <3>2 DEF RunStep, BeginRecovery, AskUser, EndRecovery, Bind, FailToBind, Ready, Diagnostic,
                                    EndLifetime, RunnerReturns, GoTo
    <3> QED BY <3>1, <3>2
  <2>5. CASE \E b \in Attempts : RunStep(b)
    BY <1>1, <2>4, <2>5, CompleteIsShown
  <2>6. CASE \E c \in Callers : CallStep(c)
    BY <2>2, <2>3, <2>6 DEF CallStep, Admission, OtherCall, Start, Retry, Request, Refuse, Stop, StopAttempt,
                            StopEntry, Wait, Dismiss, Close, Joined, WaitCanceled
  <2> QED BY <1>1, <2>2, <2>5, <2>6 DEF Next, vars
<1>2. IInv /\ [Next]_vars => [\A a \in Attempts : CompletionIsShownFor(a)]_vars
  BY <1>1 DEF CompletionIsShownFor
<1> QED BY <1>2, TunnelInvariant, PTL DEF Spec, CompletionIsShown
=============================================================================
