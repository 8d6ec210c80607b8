----------------------- MODULE TunnelServiceInvariant -----------------------
(* The inductive invariant of TunnelService: what makes its safety          *)
(* properties survive every step.                                           *)
EXTENDS TunnelService

Born(a) == run[a] # "none"

\* Attempts and tunnels are numbered in order, and completions too.
Numbered ==
    /\ nextID <= nextAttempt
    /\ \A a \in Attempts : Born(a) <=> a <= nextAttempt
    /\ \A a \in Attempts : completed[a] <= nextCompletion

\* An attempt's snapshot says whether its goroutine still runs.
SnapshotIsTrue ==
    \A a \in Attempts :
        /\ Born(a) => snapshot[a] \in Snapshot /\ snapshot[a].id <= nextID
        /\ ~Born(a) => snapshot[a] = NoSnapshot
        /\ Running(a) <=> Live(a)

\* A tunnel shows one of its own attempts.
ShowsItsOwn == \A i \in Ids : Shows(i) => Born(entries[i]) /\ snapshot[entries[i]].id = i

\* A running attempt is canceled exactly when it is shown as Stopping.
StoppingIsCanceled ==
    /\ \A a \in Attempts : Running(a) => (Canceled(a) <=> StateOf(a) = "Stopping")
    /\ \A a \in canceled : Born(a)

\* A Close that is under way joins whatever runs.
CloseJoinsAll ==
    \A c \in Callers : call[c].op = "close" => closed /\ \A a \in Attempts : Running(a) => a \in call[c].join

\* Whoever asks for a tunnel has named a connection.
RequestNamesConnection ==
    \A c \in Callers : call[c].op = "admitting" => call[c].connection \in Connections

IInv ==
    /\ TypeOK
    /\ Numbered
    /\ SnapshotIsTrue
    /\ ShowsItsOwn
    /\ EveryRunIsShown
    /\ StoppingIsCanceled
    /\ CloseJoinsAll
    /\ RequestNamesConnection
    /\ closeReturned => closed
    /\ CloseLeavesNothing
    /\ RetryKeepsConnection
    /\ AtMostMaxLive
    /\ BoundedHistory
=============================================================================
