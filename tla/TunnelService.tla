--------------------------- MODULE TunnelService ---------------------------
(***************************************************************************)
(* The session's port forwarding tunnels (internal/app/tunnel.go).  The    *)
(* service keeps one entry per tunnel; every start or retry makes a new    *)
(* attempt with a goroutine that recovers credentials, runs the SSH        *)
(* runner and completes the entry.  TUI commands, the foreground command   *)
(* and shutdown call it concurrently.                                      *)
(*                                                                         *)
(* Every section under the service's mutex is one step, and so are the     *)
(* calls between two sections.  An entry is named by its attempt, which    *)
(* is unique, so the map from tunnel to entry is a map from tunnel to      *)
(* attempt.  The runner (internal/sshclient/forwarding.go) is modelled by  *)
(* the stages the service can tell apart, the catalog by its answer: it    *)
(* still has the connection at the revision the user has confirmed or not. *)
(***************************************************************************)
EXTENDS Naturals, FiniteSets

CONSTANTS
    Callers,       \* goroutines that call the service
    Starters,      \* bound: the callers that do no more than start and retry
    Connections,   \* saved connections
    NoConnection,  \* the connection of an attempt not made yet
    MaxLive,       \* live tunnels admitted (16 in the code)
    MaxTerminal,   \* stopped and failed tunnels kept (32 in the code)
    MaxAttempts,   \* bound on starts and retries
    Texts          \* what the runner may report

ASSUME NoConnectionAssumption == NoConnection \notin Connections
ASSUME LimitsAssumption == MaxLive \in Nat \ {0} /\ MaxTerminal \in Nat \ {0}
ASSUME BoundsAssumption == MaxAttempts \in Nat

VARIABLES
    entries,      \* tunnel -> the attempt it shows, 0 when it shows none
    snapshot,     \* attempt -> its tunnel, version, state, connection, diagnostic
    nextID, nextAttempt, nextCompletion,
    completed,    \* attempt -> the order in which it completed, 0 before
    canceled,     \* the attempts whose own context is canceled
    closed,       \* has Close begun? the root context is canceled with it
    run,          \* attempt -> how far its goroutine is
    call,         \* caller -> the call it is making
    closeReturned \* has a Close returned?

counters == <<nextID, nextAttempt, nextCompletion>>
vars == <<entries, snapshot, counters, completed, canceled, closed, run,
          call, closeReturned>>

-----------------------------------------------------------------------------
(* Data.                                                                   *)

Attempts == 1..MaxAttempts
Ids == Attempts   \* a tunnel has at least one attempt

LiveStates == {"Starting", "Active", "Stopping"}
States == LiveStates \cup {"Stopped", "Failed"}
Diagnostics == Texts \cup {"", "failure"}

NoSnapshot == [id |-> 0, version |-> 0, state |-> "none",
               connection |-> NoConnection, diagnostic |-> ""]
Snapshot == [id : Ids, version : Nat, state : States,
             connection : Connections, diagnostic : Diagnostics]

\* The stages of an attempt's goroutine.  In a recovery it holds recoveryMu, and
\* when it is "asking" the credential store waits for the user.  From "opening" to
\* "closing" it is in RunTunnel; from "bound" to "closing" it holds its listener.
RunnerStages == {"opening", "bound", "forwarding", "closing"}
RecoveryStages == {"recovering", "asking"}
RunStages == RunnerStages \cup RecoveryStages \cup {"queued", "returned"}

Idle == [op |-> "idle", id |-> 0, connection |-> NoConnection, join |-> {}]
Operations == {"idle", "admitting", "stop", "wait", "close"}

Live(a) == snapshot[a].state \in LiveStates
Running(a) == run[a] \in RunStages
Entries == {a \in Attempts : \E i \in Ids : entries[i] = a}
Shows(i) == entries[i] # 0
Terminal(i) == Shows(i) /\ ~Live(entries[i])

\* ctx.Err() # nil in the attempt's goroutine.
Canceled(a) == closed \/ a \in canceled

Init ==
    /\ entries = [i \in Ids |-> 0]
    /\ snapshot = [a \in Attempts |-> NoSnapshot]
    /\ nextID = 0 /\ nextAttempt = 0 /\ nextCompletion = 0
    /\ completed = [a \in Attempts |-> 0]
    /\ canceled = {}
    /\ closed = FALSE
    /\ run = [a \in Attempts |-> "none"]
    /\ call = [c \in Callers |-> Idle]
    /\ closeReturned = FALSE

-----------------------------------------------------------------------------
(* Start and Retry: a preflight, a lookup in the catalog, and admission.   *)

SetCall(c, record) == call' = [call EXCEPT ![c] = record]
Return(c) == SetCall(c, Idle)

AdmitLocked(id, connection) ==
    /\ ~closed
    /\ id # 0 => /\ Shows(id)
                 /\ ~Live(entries[id])
                 /\ snapshot[entries[id]].connection = connection
    /\ Cardinality({a \in Entries : Live(a)}) < MaxLive

\* A request passes the preflight; one that is refused there has no effect.
Request(c, id, connection) ==
    /\ call[c] = Idle
    /\ AdmitLocked(id, connection)
    /\ SetCall(c, [Idle EXCEPT !.op = "admitting", !.id = id, !.connection = connection])
    /\ UNCHANGED <<entries, snapshot, counters, completed, canceled, closed,
                   run, closeReturned>>

Start(c) == \E connection \in Connections : Request(c, 0, connection)
Retry(c) == \E id \in Ids, connection \in Connections : Request(c, id, connection)

\* Mutant of AdmitAgain: the preflight is trusted, and only the tunnel looked up.
AdmitBySight(id, connection) == id # 0 => Shows(id)

\* The second admission, once GetConnection has answered.
AdmitAgain(id, connection) == AdmitLocked(id, connection)

NextVersion(id) == IF id = 0 THEN 1 ELSE snapshot[entries[id]].version + 1

NewSnapshot(id, version, connection) ==
    [id |-> id, version |-> version, state |-> "Starting",
     connection |-> connection, diagnostic |-> ""]

Launch(c) ==
    LET a == nextAttempt + 1
        id == IF call[c].id = 0 THEN nextID + 1 ELSE call[c].id
    IN
    /\ call[c].op = "admitting"
    /\ nextAttempt < MaxAttempts
    /\ AdmitAgain(call[c].id, call[c].connection)
    /\ nextID' = IF call[c].id = 0 THEN id ELSE nextID
    /\ nextAttempt' = a
    /\ snapshot' = [snapshot EXCEPT
                       ![a] = NewSnapshot(id, NextVersion(call[c].id), call[c].connection)]
    /\ entries' = [entries EXCEPT ![id] = a]
    /\ run' = [run EXCEPT ![a] = "queued"]
    /\ Return(c)
    /\ UNCHANGED <<nextCompletion, completed, canceled, closed, closeReturned>>

\* GetConnection fails, finds the connection at another revision, or the call's
\* context is canceled; or the second admission refuses it.
Refuse(c) ==
    /\ call[c].op = "admitting"
    /\ Return(c)
    /\ UNCHANGED <<entries, snapshot, counters, completed, canceled, closed,
                   run, closeReturned>>

-----------------------------------------------------------------------------
(* The goroutine of an attempt.                                            *)

GoTo(a, stage) == run' = [run EXCEPT ![a] = stage]

RunOnly == UNCHANGED <<entries, snapshot, counters, completed, canceled, closed,
                       call, closeReturned>>

\* Under recoveryMu; an attempt that is already canceled does not recover.
BeginRecovery(a) ==
    /\ run[a] = "queued"
    /\ \A b \in Attempts : run[b] \notin RecoveryStages
    /\ GoTo(a, IF Canceled(a) THEN "returned" ELSE "recovering")
    /\ RunOnly

\* The credential store answers a call of the recovery with a question to the user.
AskUser(a) ==
    /\ run[a] = "recovering"
    /\ GoTo(a, "asking")
    /\ RunOnly

\* The recovery ends with its last call, or with the first that fails.
EndRecovery(a) ==
    /\ run[a] \in RecoveryStages
    /\ \E stage \in {"opening", "returned"} : GoTo(a, stage)
    /\ RunOnly

\* The transport is open and the listener is bound.
Bind(a) ==
    /\ run[a] = "opening"
    /\ GoTo(a, "bound")
    /\ RunOnly

\* No transport, no listener, or canceled while waiting for either.
FailToBind(a) ==
    /\ run[a] = "opening"
    /\ \E stage \in {"closing", "returned"} : GoTo(a, stage)
    /\ RunOnly

\* Mutant of MayActivate: whatever is shown becomes active.
MayActivateLate(a) == entries[snapshot[a].id] = a

MayActivate(a) ==
    /\ entries[snapshot[a].id] = a
    /\ ~Canceled(a)
    /\ snapshot[a].state = "Starting"

\* The Ready callback.  The runner has looked at its context before, but the
\* attempt may have been stopped since.
Ready(a) ==
    /\ run[a] = "bound"
    /\ GoTo(a, "forwarding")
    /\ IF MayActivate(a)
       THEN snapshot' = [snapshot EXCEPT ![a].state = "Active", ![a].version = @ + 1]
       ELSE UNCHANGED snapshot
    /\ UNCHANGED <<entries, counters, completed, canceled, closed, call, closeReturned>>

\* The Diagnostic callback; a report without effect is a stuttering step.
Diagnostic(a) ==
    /\ run[a] \in RunnerStages
    /\ entries[snapshot[a].id] = a
    /\ ~Canceled(a)
    /\ snapshot[a].state \in LiveStates \ {"Stopping"}
    /\ \E text \in Texts \ {snapshot[a].diagnostic} :
          snapshot' = [snapshot EXCEPT ![a].diagnostic = text, ![a].version = @ + 1]
    /\ UNCHANGED <<entries, counters, completed, canceled, closed, run, call,
                   closeReturned>>

\* The tunnel's lifetime ends: canceled, or its transport is lost.
EndLifetime(a) ==
    /\ run[a] \in {"bound", "forwarding"}
    /\ GoTo(a, "closing")
    /\ RunOnly

\* RunTunnel has released everything it owned; it always returns an error, the
\* context's or the cause for which the lifetime ended.
RunnerReturns(a) ==
    /\ run[a] = "closing"
    /\ GoTo(a, "returned")
    /\ RunOnly

\* Mutant of Order: the completing entry has no place in it yet.
OldOrder(a) == completed

\* The order of completion, with the completing attempt as the last.
Order(a) == [completed EXCEPT ![a] = nextCompletion + 1]

\* Keep MaxTerminal terminal tunnels, dropping those that completed first.
EvictLocked(terminal, rank) ==
    \E gone \in SUBSET terminal :
        /\ IF Cardinality(terminal) > MaxTerminal
           THEN Cardinality(terminal \ gone) = MaxTerminal
           ELSE gone = {}
        /\ \A g \in gone, k \in terminal \ gone : rank[entries[g]] < rank[entries[k]]
        /\ entries' = [i \in Ids |-> IF i \in gone THEN 0 ELSE entries[i]]

Complete(a) ==
    /\ run[a] = "returned"
    /\ GoTo(a, "done")
    /\ snapshot' = [snapshot EXCEPT
                       ![a].state = IF Canceled(a) THEN "Stopped" ELSE "Failed",
                       ![a].diagnostic = IF Canceled(a) \/ @ # "" THEN @ ELSE "failure",
                       ![a].version = @ + 1]
    /\ canceled' = canceled \cup {a}
    /\ nextCompletion' = nextCompletion + 1
    /\ completed' = [completed EXCEPT ![a] = nextCompletion + 1]
    /\ EvictLocked({i \in Ids : Terminal(i) \/ entries[i] = a}, Order(a))
    /\ UNCHANGED <<nextID, nextAttempt, closed, call, closeReturned>>

-----------------------------------------------------------------------------
(* Stop, StopAttempt, Wait, Dismiss and Close.                             *)

\* Mutant of Cancel: the entries are marked only.
CancelNothing(stopped) == UNCHANGED canceled

Cancel(stopped) == canceled' = canceled \cup stopped

\* stopLocked of each of the entries.
StopLocked(stopping) ==
    LET stopped == {a \in stopping : Live(a) /\ snapshot[a].state # "Stopping"} IN
    /\ snapshot' = [a \in Attempts |->
                       IF a \in stopped
                       THEN [snapshot[a] EXCEPT !.state = "Stopping", !.version = @ + 1]
                       ELSE snapshot[a]]
    /\ Cancel(stopped)

\* Both join the entry they have stopped, whatever the tunnel shows later.
StopEntry(c, a) ==
    /\ StopLocked({a})
    /\ SetCall(c, [Idle EXCEPT !.op = "stop", !.join = {a}])
    /\ UNCHANGED <<entries, counters, completed, closed, run, closeReturned>>

Stop(c) ==
    /\ call[c] = Idle
    /\ \E i \in Ids : Shows(i) /\ StopEntry(c, entries[i])

\* A caller holds the tunnel and attempt of any snapshot it has been given.
StopAttempt(c) ==
    /\ call[c] = Idle
    /\ \E a \in 1..nextAttempt : entries[snapshot[a].id] = a /\ StopEntry(c, a)

Wait(c) ==
    /\ call[c] = Idle
    /\ \E i \in Ids : /\ Shows(i)
                      /\ SetCall(c, [Idle EXCEPT !.op = "wait", !.join = {entries[i]}])
    /\ UNCHANGED <<entries, snapshot, counters, completed, canceled, closed, run,
                   closeReturned>>

\* Mutant of MayDismiss: a live tunnel can be taken off the list too.
MayDismissAny(i) == Shows(i)

MayDismiss(i) == Terminal(i)

Dismiss(c) ==
    /\ call[c] = Idle
    /\ \E i \in Ids : MayDismiss(i) /\ entries' = [entries EXCEPT ![i] = 0]
    /\ UNCHANGED <<snapshot, counters, completed, canceled, closed, run, call,
                   closeReturned>>

\* A second Close waits for the first, which joins no less.
Close(c) ==
    /\ call[c] = Idle
    /\ closed' = TRUE
    /\ StopLocked(Entries)
    /\ SetCall(c, [Idle EXCEPT !.op = "close", !.join = Entries])
    /\ UNCHANGED <<entries, counters, completed, run, closeReturned>>

\* A call that joins attempts returns when they are done.
Joined(c) ==
    /\ call[c].op \in {"stop", "wait", "close"}
    /\ \A a \in call[c].join : run[a] = "done"
    /\ Return(c)
    /\ closeReturned' = (closeReturned \/ call[c].op = "close")
    /\ UNCHANGED <<entries, snapshot, counters, completed, canceled, closed, run>>

\* Only a Wait also ends with its caller's context.
WaitCanceled(c) ==
    /\ call[c].op = "wait"
    /\ Return(c)
    /\ UNCHANGED <<entries, snapshot, counters, completed, canceled, closed, run,
                   closeReturned>>

-----------------------------------------------------------------------------
Admission(c) == Start(c) \/ Retry(c) \/ Launch(c) \/ Refuse(c)

OtherCall(c) ==
    \/ Stop(c) \/ StopAttempt(c) \/ Wait(c) \/ Dismiss(c) \/ Close(c)
    \/ Joined(c) \/ WaitCanceled(c)

CallStep(c) == Admission(c) \/ (c \notin Starters /\ OtherCall(c))

RunStep(a) ==
    \/ BeginRecovery(a) \/ AskUser(a) \/ EndRecovery(a) \/ Bind(a) \/ FailToBind(a)
    \/ Ready(a) \/ Diagnostic(a) \/ EndLifetime(a) \/ RunnerReturns(a) \/ Complete(a)

Next ==
    \/ \E c \in Callers : CallStep(c)
    \/ \E a \in Attempts : RunStep(a)

Spec == Init /\ [][Next]_vars

\* A recovery's calls are answered by the catalog and the credential store.  A user
\* who is asked need not answer, but the question goes with the attempt's context.
\* RunTunnel converges once its attempt is canceled; a tunnel nobody stops may open
\* or forward for ever.
Fairness ==
    /\ \A a \in Attempts :
          /\ WF_vars(run[a] = "recovering" /\ EndRecovery(a))
          /\ WF_vars(Canceled(a) /\ run[a] = "asking" /\ EndRecovery(a))
          /\ WF_vars(Canceled(a) /\ (BeginRecovery(a) \/ FailToBind(a) \/ EndLifetime(a)))
          /\ WF_vars(RunnerReturns(a))
          /\ WF_vars(Complete(a))
    /\ \A c \in Callers : WF_vars(Joined(c))

FairSpec == Spec /\ Fairness

-----------------------------------------------------------------------------
(* Properties.                                                             *)

\* Type correctness of what the service keeps.
TypeOK ==
    /\ entries \in [Ids -> Attempts \cup {0}]
    /\ snapshot \in [Attempts -> Snapshot \cup {NoSnapshot}]
    /\ nextID \in Nat /\ nextAttempt \in 0..MaxAttempts /\ nextCompletion \in Nat
    /\ completed \in [Attempts -> Nat]
    /\ canceled \in SUBSET Attempts
    /\ closed \in BOOLEAN /\ closeReturned \in BOOLEAN
    /\ run \in [Attempts -> RunStages \cup {"none", "done"}]
    /\ call \in [Callers -> [op : Operations, id : Ids \cup {0},
                             connection : Connections \cup {NoConnection},
                             join : SUBSET Attempts]]

\* No more than MaxLive goroutines run at any moment, however the starts and retries
\* of several callers race between preflight and admission (tunnel.go:191 and :213).
AtMostMaxLive == Cardinality({a \in Attempts : Running(a)}) <= MaxLive

\* No more than MaxTerminal finished tunnels are kept (tunnel.go:408).
BoundedHistory == Cardinality({i \in Ids : Terminal(i)}) <= MaxTerminal

\* An attempt that runs is the one its tunnel shows, so Stop, Close and the
\* user's list reach every listener: no retry replaces a live entry, and no
\* Dismiss or eviction drops one.
EveryRunIsShown == \A a \in Attempts : Running(a) => entries[snapshot[a].id] = a

\* When Close has returned no attempt runs, and none is started any more by a
\* start of another caller that was on its way (tunnel.go:523).
CloseLeavesNothing == closeReturned => \A a \in Attempts : ~Running(a)

\* All attempts of a tunnel are to the connection it was first confirmed for.
RetryKeepsConnection ==
    \A a, b \in 1..nextAttempt :
        snapshot[a].id = snapshot[b].id => snapshot[a].connection = snapshot[b].connection

StateOf(a) == snapshot[a].state
Becomes(a, state) == StateOf(a) # state /\ StateOf(a)' = state

\* An attempt is Active only from Starting, Stopped only from Stopping, Failed only
\* if nobody has stopped it, and over once it is either: a late Ready, a completion
\* that races with a stop and a shutdown all keep to this (tunnel.go:347 and :374).
LifecycleOf(a) ==
    /\ Becomes(a, "Active") => StateOf(a) = "Starting"
    /\ Becomes(a, "Stopped") => StateOf(a) = "Stopping"
    /\ Becomes(a, "Failed") => ~Canceled(a)
    /\ StateOf(a) \in {"Stopped", "Failed"} => UNCHANGED StateOf(a)
Lifecycle == [][\A a \in Attempts : LifecycleOf(a)]_vars

\* What a tunnel shows changes with a greater version only, across attempts too,
\* so a reader can tell an old snapshot from a new one.
NewsIsNewerFor(i) ==
    (Shows(i) /\ Shows(i)' /\ snapshot[entries[i]] # snapshot[entries[i]]')
        => snapshot[entries[i]].version < snapshot[entries[i]]'.version
NewsIsNewer == [][\A i \in Ids : NewsIsNewerFor(i)]_vars

\* A tunnel that completes stays on the list: eviction takes an older one.
CompletionIsShownFor(a) ==
    (run[a] # "done" /\ run[a]' = "done") => entries[snapshot[a].id]' = a
CompletionIsShown == [][\A a \in Attempts : CompletionIsShownFor(a)]_vars

\* A Stop or StopAttempt waits for ever for one thing only: its attempt is queued
\* behind the recovery of another one, which nobody has stopped and for which a
\* user is asked.  A Close always returns, since it stops them all (tunnel.go:334,
\* :436, :456 and :533).
Joining(c) == call[c].op \in {"stop", "close"}
BehindUser(c) ==
    /\ call[c].op = "stop"
    /\ \E a \in call[c].join, b \in Attempts :
          run[a] = "queued" /\ run[b] = "asking" /\ ~Canceled(b)
StopReturns == \A c \in Callers : []<>(~Joining(c) \/ BehindUser(c))
=============================================================================
