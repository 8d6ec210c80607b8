# Orza in TLA+

Orza keeps SSH connections in a local SQLite catalog, remembers their passwords in the operating
system's credential store, and runs interactive sessions, one-off commands and tunnels over them,
from a command line and a terminal user interface. This directory holds a specification of its
core logic, model-checked with TLC on small instances; every safety property that TLC checks, and the refinements between
components, are proved with TLAPS for all instances, four of those on credentials under conditions that the code does not enforce
and that [Proofs](#the-saga) names.

- [Inventory](#inventory): the parts of the program, their state, operations and difficulties
- [Modules](#modules): which module models what, and how it corresponds to the code
- [Runs](#runs): what each TLC run checks, its bounds, what it shows
- [Proofs](#proofs): what is proved, from what, along which argument
- [Findings](#findings): where code and documentation disagree, checked by a run
- [Known deviations](#known-deviations): where they disagree, by reading
- [What is not modelled](#what-is-not-modelled)
- [Plan](#plan)

Paths below are relative to the repository.

## Inventory

| Component | State it keeps | Operations | Correct when |
|---|---|---|---|
| Credential saga (`internal/app/credential_saga.go`, `internal/catalog/credential_operations.go`) | one row per unfinished operation in SQLite; secrets in the native store; the running saga's memory | Save, Replace, Remove, DeleteConnection, Recover | catalog and store agree whenever no operation is pending; no secret is orphaned, no reference dangles, every operation is resolved |
| Connection service (`internal/app/connections.go`) | none; snapshots of a connection between two calls | Create, Get, List, Update, Move, Delete | a stale snapshot never decides; a deleted connection leaves no secret |
| Catalog tree (`internal/catalogrepo/*.go`, `001_initial.sql`) | nodes with parent, name, revision; a global catalog revision | create, rename, move, delete of folders and connections | a tree under one root, sibling names unique, every mutation advances the revisions, a stale expectation is refused |
| Recursive deletion (`internal/app/folder_delete.go`) | a confirmed snapshot of a subtree | DeleteScope, Delete | deletes what was confirmed or stops, with every secret accounted for |
| Tunnel service (`internal/app/tunnel.go`) | entries with state and attempt, at most 16 live and 32 terminal | Start, Retry, Stop, StopAttempt, Wait, Dismiss, Close | a report belongs to the attempt it is shown for; the bounds hold; Close waits for everyone |
| Tunnel runtime (`internal/sshclient/forwarding.go`) | tracked connections, 64 slots, one stop with a watchdog | serve, open, copy, stop | every connection is closed once, every slot is released, stopping terminates |
| SOCKS (`internal/sshclient/socks.go`) | none | parse a request | the destination or a refusal, never more input than the request |
| SSH client and sessions (`internal/sshclient/client.go`, `session.go`, `auth.go`) | transport, agent connection, terminal state | dial, verify, authenticate, run | released on every path; the terminal is restored |
| Connecting (`internal/app/connect.go`, `command.go`) | a request, the secret in memory | Connect, Run | recovers first; the secret is wiped; the first failure is reported |
| Host trust (`internal/app/host_trust.go`, `internal/hostkey/policy.go`, `internal/catalog/trusted_host_repository.go`) | one trusted key per endpoint, with a revision | CheckHost, TrustHost, Forget | an unknown or changed key is never used without a decision about that very key |
| Credential stores (`internal/credential`) | the native store | Set, Get, Delete | what `CredentialSaga` assumes of the port |
| Terminal (`internal/terminal`) | raw mode, the secret being typed | ReadSecret, MakeRaw, Restore | restored once, wiped |
| User interface (`internal/tui`) | screens, modals, the operation in progress, polls | key and result messages | a late result never changes a screen it was not asked for |
| Command line (`internal/cli`) | none | commands | maps errors to exit codes |
| Bootstrap and shutdown (`internal/app/bootstrap.go`, `cmd/orza/main.go`) | what has been opened | Bootstrap, Close, signals | closes once, in order, on every path |

How they interact: `main` bootstraps the catalog and recovers unfinished credential operations
before any command runs. Commands and the user interface call the application services; these call
the repositories, each call one SQLite transaction, and the credential saga, whose calls go to the
repository and to the native store in turn. Connecting, one-off commands and tunnels recover again
before they use a credential. A tunnel runs in a goroutine of its own, reports to the tunnel service
under a lock, and the user interface polls the service. Several processes may run against one
catalog; only SQLite's transactions and optimistic revisions stand between them.

What is hard, and hard to test: a crash between a call of the store and the record of it; a call
that fails after it has taken effect; recoveries of several processes over the same rows; a snapshot
used after another process has changed what it shows; tunnels that become ready while they are being
stopped; and results that arrive after the question has been withdrawn. `PROJECT.json` lists each
under `hazards`, with its line and the properties that would catch it.

## Modules

| Module | Models |
|---|---|
| `CredentialSaga` | the saga, its recovery, the catalog rows it works on and the credential store |
| `RememberedPassword` | abstract: what Orza promises about a remembered password |
| `CredentialSagaInvariant` | the inductive invariants `RowInv` and `IInv` of `CredentialSaga`, and the two steps that its properties do not survive |
| `CredentialSagaProofs` | `RowInv` is inductive, and so is `IInv` without those steps; the safety properties follow; `CredentialSaga` implements `RememberedPassword` |
| `MCCredentialSaga` | symmetry, for TLC |
| `TunnelService` | the tunnels of a session: admission, attempts, stopping, retrying, history, shutdown |
| `TunnelServiceInvariant` | the inductive invariant `IInv` of `TunnelService` |
| `TunnelServiceProofs` | `IInv` is inductive; the safety and action properties follow |
| `MCTunnelService` | for TLC |
| `CatalogTree` | the tree of folders and connections, changed on expectations of any age |
| `CatalogTreeInvariant` | the inductive invariant `IInv` of `CatalogTree` |
| `CatalogTreeProofs` | `IInv` is inductive; the safety properties follow; where a confirmed move leads |
| `FolderDelete` | extends `CatalogTree` by the recursive deletion of a folder |
| `FolderDeleteInvariant` | the inductive invariant `DeletionInv` of `FolderDelete` |
| `FolderDeleteProofs` | `DeletionInv` is inductive; the action properties follow |
| `MCCatalogTree`, `MCFolderDelete` | symmetry, for TLC |
| `TunnelRuntime` | one running tunnel: listener, clients, SOCKS, timeouts, the single stop |
| `TunnelRunner` | abstract: the runner that `TunnelService` counts on |
| `TunnelRuntimeInvariant` | the inductive invariant `IInv` of `TunnelRuntime` |
| `TunnelRuntimeProofs` | `IInv` is inductive; the safety properties follow; `TunnelRuntime` implements `TunnelRunner` |
| `MCTunnelRuntime` | symmetry, for TLC |
| `HostTrust` | known_hosts, the table of trusted hosts, and another process that changes the table |
| `Session` | extends `HostTrust` by one `orza connect` or `orza exec`, from its start to its exit status |
| `SessionInvariant` | the inductive invariant `IInv` of `Session` |
| `SessionProofs` | `IInv` is inductive; the safety and action properties follow |
| `MCSession` | for TLC |
| `NativeStore` | the credential stores of Linux, Windows and macOS |
| `CredentialStore` | abstract: what the port `credential.CredentialStore` promises to the application |
| `NativeStoreInvariant` | the inductive invariant `IInv` of `NativeStore` |
| `NativeStoreProofs` | `IInv` is inductive; the safety properties follow; `NativeStore` implements `CredentialStore` |
| `MCNativeStore` | sets of callers and secrets, for TLC |
| `TerminalUI` | the event loop of the user interface: who owns the keys, what becomes of a result |
| `TerminalUIInvariant` | the inductive invariant `IInv` of `TerminalUI` |
| `TerminalUIProofs` | `IInv` is inductive; the safety and action properties follow |
| `MCTerminalUI` | for TLC |

How they fit. `FolderDelete` and `CatalogTree` share the catalog's variables, and so do `Session` and
`HostTrust` the trusted hosts. Between components that talk over an interface there is an abstract module that
one side implements: `TunnelRunner` between `TunnelRuntime` and `TunnelService`, `CredentialStore` between
`NativeStore` and the saga, whose `Call` (a call may fail with or without effect, one that succeeds tells the
truth) is that promise, `RememberedPassword` between the saga and whoever uses it.

### CredentialSaga

A *worker* is a thread of control of some Orza process. `pc[w]` names the next call it makes; there
is one action for each call of `credential_saga.go` to the repository or to the store, and workers
interleave between calls. `cur[w]` is the operation it works on, `mode[w]` tells a running saga
(`"live"`) from a recovery at startup (`"boot"`, whose failure ends the process) and a later one
(`"recover"`); `todo[w]` and `listed[w]` are the rows and phases `Recover` has listed, which it goes on
using after others have moved the rows; `result[w]` is what the saga returned.

| Code | TLA+ |
|---|---|
| rows of `connections` | `conn`: `alive`, `revision`, `ref` |
| rows of `credential_operations` | `request` (immutable columns) and `phase` |
| the native store | `secrets` |
| `writeCredential` | `Create`, `SetSecret`, `VerifySet`, `Mark`, `Apply`, `Inspect` |
| `deleteCredential` | `Create`, `ReadOld`, `EraseOld`, `VerifyErase`, `Mark`, `Apply`, `Inspect` |
| `finishApplied` | `Finish`, `Cleanup`, `RetireOld`, `VerifyRetire`, `Drop` |
| `compensateNewCredential`, `compensateOldCredential` | `Revert`, `UndoNew`, `VerifyUndo`, `RestoreOld`, `VerifyRestore`, `Abandon` |
| `Recover`, `recoverOperation` | `BeginRecovery`, `List`, `NextOperation`, `EntryLabel`, `Recovered` |
| `recoverPrepared`, `recoverySecretState`, `verifyAppliedRecoveryState` | `InspectPrepared`, `InspectSecret`, `VerifyActive`, `RetireOld` |
| `SetCredentialOperationPhase`, `DeleteCredentialOperation`, `ApplyCredentialOperation` | `MaySetPhase`, `DeleteRow`, `MayApply` and `Applying` |
| `ConnectionService.Delete` without reference, `Repository.DeleteConnection` | `Begin` of a `plain_delete`, `PlainDelete` |
| `UpdateConnection`, `MoveConnection` | `Edit` |

Abstractions. A secret's bytes are not modelled: a reference is fresh for each write, so the store
holds under it either the secret written for it or nothing. An operation's ID and its new reference
are one token, since both are fresh. Missing rows are told apart by a history: never made, a request
in memory, gone after changing the catalog (`"completed"`), gone without (`"abandoned"`). The history
is in the guard of `Begin` (fresh identifiers) and of `Edit` when edits are kept apart, and nowhere else.
A call that returns an error may have taken effect (`Call`), which covers timeouts, lost replies
and a commit that fails late; cancellation of a context is a crash, or failing calls. Recovery may take
its rows in any order, which covers any clock.

Environment switches, all constants: `RecoverRunning` (may a recovery see the row of a saga that is
still running?), `EditsDuringSaga` (may a connection be edited while it has a request or a row?),
`UnpinnedDeletes` (may a connection without reference be deleted without an expected revision?). The
code allows all three. Rows, and what a recovery leaves of its list, are in order with all of them on; agreement of catalog and
store needs the first off, accounting for every secret the last one too, liveness the second
(see Findings and Known deviations). They tell precisely what Orza relies on and does not enforce. The theorems do not fix the
switches: they name the steps that must not happen.

Properties:

- `NoDanglingReference`: a referenced secret is missing only while the row that deletes it is pending.
- `NoOrphanSecret`: every secret in the store is referred to by a connection or a pending row.
- `OneOperationPerConnection`: rows of one connection never overlap.
- `RecoveryComplete`: what a recovery has passed without error is no longer pending.
- `SuccessIsReal`: no error means the change was made, on both sides.
- `EveryOperationResolved`: when failures stop, every row goes.
- `ImplementsPassword`: refinement of `RememberedPassword`, under which a connection *changing* is one
  with a pending row: catalog and store change all or nothing, and agree in between.

### TunnelService

Every section under the service's mutex is one step; the calls between two sections, to the saga's recovery
and to the SSH runner, are steps of their own, and the call to the catalog ends in one of two, so callers and goroutines interleave
exactly where the code lets them. An entry is named by its attempt, which is unique: the map
`entries` from tunnels to entries is a map from tunnels to attempts, and what a dropped entry has become
can still be seen, as its goroutine and whoever joins it can.

| Code | TLA+ |
|---|---|
| `TunnelService.entries`, `nextID`, `nextAttempt`, `nextCompletion`, `closed` | variables of the same names |
| `tunnelEntry.snapshot`, `completed`, the attempt's context, `done` | `snapshot`, `completed`, `canceled` (with `closed`: the root context), `run[a] = "done"` |
| the call a goroutine is making, and what it joins | `call` |
| `start`: preflight; `GetConnection` and the admission under the lock | `Request` (of `Start` or `Retry`); `Launch` or `Refuse` |
| `admitLocked` | `AdmitLocked`, in `Request` and again in `Launch` (`AdmitAgain`) |
| `run`: `Recover` under `recoveryMu`, `RunTunnel`, completion | `BeginRecovery`, `AskUser`, `EndRecovery`; `Bind`, `FailToBind`, `EndLifetime`, `RunnerReturns`; `Complete` |
| the callbacks `Ready` and `Diagnostic` | `Ready`, `Diagnostic` |
| `evictLocked` | `EvictLocked`, a part of `Complete` |
| `Stop`, `StopAttempt`, `stopLocked`, `<-entry.done` | `Stop`, `StopAttempt`, `StopLocked`, `Joined` |
| `Wait`, `Dismiss`, `Close` | `Wait` with `Joined` or `WaitCanceled`, `Dismiss`, `Close` |

Abstractions. Of a snapshot only the tunnel, version, state, connection and diagnostic are kept, and of
diagnostics which kind was last reported. A call that is refused or not found changes nothing and is left
out, except where the refusal comes after the preflight (`Refuse`). Of the catalog only the answer of `GetConnection` is there:
it has the connection as it was confirmed (`Launch`), or has not, or fails (`Refuse`), which may be either at any time, since others edit
and delete it. A recovery holds `recoveryMu` and may be `"asking"`: the credential store has put a question to the user (`promptAndWait`),
which the attempt's context bounds only by its cancellation, for it has no deadline. `Get` and `Snapshots`
read under the lock. The runner is the stages the service can tell apart; it may lose its transport at
any moment, and always returns an error, as `RunTunnel` does (every return after `Ready` gives the cause
for which its lifetime ended), so the last branch of `run`, Stopped without error, is not taken. A second
`Close` waits for the first inside `sync.Once`; in the model it joins the entries itself.

Properties:

- `AtMostMaxLive`: the goroutines that run are never more than the limit, with starts and retries of several callers between their
  two admissions; the code bounds entries, the property bounds what runs.
- `EveryRunIsShown`: whatever runs is what its tunnel shows, so nothing runs that Stop and Close cannot reach.
- `CloseLeavesNothing`: when a Close has returned nothing runs, and starts of other callers that were on their way start nothing.
- `RetryKeepsConnection`: the attempts of a tunnel are all to one connection.
- `BoundedHistory`, `CompletionIsShown`: finished tunnels are bounded, and the one just finished is kept.
- `Lifecycle`: Active comes from Starting only, Stopped from Stopping only, and Failed only if nobody has stopped the attempt, when
  reports, completions, stops and shutdown race. It says nothing of how an attempt that fails by itself gets there (Known deviations).
- `NewsIsNewer`: versions order everything a tunnel shows, across its attempts.
- `StopReturns`: every Close returns, and so does every Stop and StopAttempt, unless its attempt stays queued for `recoveryMu` behind
  the recovery of another attempt that nobody has stopped and for which a user is asked (`BehindUser`). The exception is real: `recoveryMu`
  cannot be waited for with a context (`internal/app/tunnel.go:334`), and the first sentence without it is false.

### CatalogTree

Each operation of `internal/catalogrepo` runs in one immediate transaction of SQLite, so it is one step: its reads,
expectations, checks, update and the final read of the result, whose failure rolls everything back. A refused operation
changes nothing and is left out.

| Code | TLA+ |
|---|---|
| rows of `nodes` | `node`: `kind`, `parent`, `name`, `revision`, and whether a connection has a password |
| `credential_operations`, of which only whether a connection has one | `operation` |
| `catalog_meta.catalog_revision` | `catalogRevision` |
| what a process has read and shows to its user | `view[c]`: an item and a place, with row and path |
| `pathForNode`, with its limit of 100 levels | `Ancestors`, `Path`; `Readable`, `ReadableBelow` |
| `readSubtree`, `matchesSnapshot` | `Subtree`, `SubtreeFits`, `MatchesSnapshot` |
| `checkExpectedRevision`, `checkExpectedPath`, `ensureNameAvailable` | `ExpectedRevision`, `ExpectedPath`, `NameAvailable` |
| `CreateFolder`, `CreateConnection`, `RenameFolder`, `UpdateConnection`, `MoveFolder`, `MoveConnection`, `DeleteConnection`, `DeleteFolder` | actions of these names |
| the saga's transactions on a connection | `BeginOperation`, `ApplyOperation`, `ApplyDelete`, `EndOperation` |
| `TrustHost`, `DeleteTrustedHost` | `ChangeTrust` |

Abstractions. Identifiers are random and used once: a removed one is `Gone`, not `Unused`. A connection's details are left
out, but for the password; an update advances the revision whatever it changes. A selector by identifier or by path
is the node it resolves to inside the transaction. The subtree is written as the least set closed under children, not
as the query's recursion, which also suits the proofs. `DeleteFolder` gets the snapshot that is true when it runs, any other
is refused; where a snapshot comes from is the subject of `FolderDelete`. The sagas' own guards are in
`CredentialSaga`; here an operation may be applied or given up at any time, which allows more.

Properties:

- `IsTree`: one root, parents are folders, and no set of nodes hangs in itself, so no cycle of any length.
- `NamesAreUnique`: siblings have different names, folders and connections together.
- `OperationsHaveConnections`: a connection with an unfinished credential operation is not deleted, alone or in a subtree.
- `SeenIsCurrent`: equal revisions mean equal rows, which is what every expectation relies on.
- `ConfirmedMoves`: a move asked for with expectations takes what was seen from the path where it was seen to the path
  that was seen, although renaming an ancestor changes paths and not revisions.
### FolderDelete

`deletion` is one recursive deletion: the folder, the step it is in, what it has read so far (`at`, `pending`, `seen`,
`remembered`), what the user was shown (`confirmed`) and what its sagas have taken away (`removed`). Every action of `CatalogTree`
may come between two of its steps.

| Code | TLA+ |
|---|---|
| `FolderService.DeleteScope`, `buildDeleteScope`: one transaction for each folder | `Inspect`, `ListFolder` (`Unchanged`, `Found`, `Left`) |
| the user's confirmation, `FolderDeleteScope.Request` | `Confirm`, `GiveUp` |
| `FolderService.Delete`: the second scan and its comparison | `Confirm`, `ListFolder` at the step `checking` |
| one `CredentialSaga.DeleteConnection` for each remembered password | `BeginErase`, `Erase`, `EraseCompleted`, `EraseFails` |
| the final `DeleteFolder` with what remains | `DeleteRest` |

Abstractions. A saga is its beginning, its application and its end; what goes on between them is `CredentialSaga`. The sagas of
one deletion come in any order, while the code sorts them. `Init` is any catalog, not only the empty one of `CatalogTree`: only
comparisons of revisions matter, so those of the initial catalog are all 1. A deletion that is not recursive is `DeleteFolder` of
`CatalogTree`.

- `ScopeIsAtomic`: the scope that is shown, or compared with what was shown, is a subtree as the catalog holds it at one
  moment, although each folder is read in a transaction of its own.
- `DeletesTheConfirmed`: a deletion removes nothing but nodes that were confirmed, at the revision that was confirmed, and
  succeeds only when all of them are gone.

### TunnelRuntime

One call of `RunTunnel`. `main` is its main goroutine, `root` and `waiter` the watchers of the caller's context and of the
transport, `acceptor` the accept loop, `stage[c]` the server of the client `c`, `dial[c]` the goroutine that opens its
destination, `copies[c]` its two copies, `closers` the goroutines of the clean-up. `peer` is the SSH server: healthy, stalled
or lost.

| Code | TLA+ |
|---|---|
| `tunnelRuntime.stop`, its watchdog, the raw connection | `Stop`, `WatchdogExpires` |
| `protocolCall`, `deadline` | `Answers`, `ProtocolCall`, `ProtocolTimeout` |
| `track`, `release`, `connections`, `closeOnce` | `Tracked`, `Forget`, `Shut`, `Closed` |
| listening, checking the forwarding, `Ready` | `Listen`, `Check`, `Announce` |
| the accept loop, its semaphore, a client that finds no slot | `Accept`, `AcceptFails`, `AcceptLost`, `Admit`, `TurnAway`, `TurnedAway` |
| `serve`: greeting, request, dial with its timeout, a late connection, the answer | `Greet`, `Request`, `DialOpens`, `DialFails`, `TakeResult`, `TimeOut`, `LateConnection`, `LateResult`, `LateTimeout`, `Dropped`, `Refuse`, `Grant` |
| `copy` | `CopyEnds`, `HalfCloses`, `FirstResult`, `SecondResult`, `ServerEnds` |
| the deferred clean-up of `RunTunnel` | `CleanUp`, `Collect`, `CloserBegins`, `CloserEnds`, `WorkIsDone`, `Disconnect`, `TransportCloses`, `Return` |
| `socksRequest` | `Greetings`, `Requests` and their codes: where a conversation can end, and what it answers |

Abstractions. The bytes of a copy and its deadlines are left out: a copy may end at any time, with or without an error. A timer may
expire whenever what it bounds has not ended. Addresses are not parsed: a request is good, bad or unsupported.

- `ServersAreBounded`: no more clients than slots are connected and served, on every path a server takes to its end.
- `NothingLeftOpen`: after `RunTunnel` has returned nothing it opened is open and none of its goroutines runs, a destination that
  came after its timeout included.
- `SocksConversation`: one method, at most one result, no success without a destination.
- `EveryStopEnds`: once canceled, or stopped by a failure, it returns, whatever the peer does.
- `ImplementsRunner`: refinement of `TunnelRunner`. The stages are those between which `TunnelService` moves a tunnel (`Bind`,
  `Ready`, `EndLifetime`, `RunnerReturns`); a listener is announced once it is bound, and nothing is open on return.

### HostTrust and Session

`HostTrust` is the trust in one endpoint: `files`, what known_hosts lists and revokes; `trusted`, the row of the table; `other`,
another process that asks its user about a key, or shows the row and forgets it. `Session` is one process. `stage` is its foreground
goroutine; beside it run the signal goroutine of `main`, the watchers of the context and of the agent's socket, the goroutine in
`session.Wait` (`waiter`) and the one that forwards window sizes (`resizer`). `link` has the resources in the order in which they
are closed.

| Code | TLA+ |
|---|---|
| `Policy.CheckHost` | `Standard`, `CheckHost` |
| `TrustedHostRepository.TrustHost`, `DeleteTrustedHost`, the `HostTrustService` | `TrustHost`, `DeleteTrustedHost`, `ForgetScope`, `Forget`, `OtherAsks`, `OtherDecides` |
| `hostVerificationGate.verify`, `catalogRepositoryAdapter.TrustHost` | `Verify`, `Decide`, `Persist`, `Reread`, `Trusting` |
| `realMain`, `ownRootSignals`, `rootSignals.Stop` | `Bootstrap`, `SignalArrives`, `CloseDependencies`, `StopSignals` |
| `ConnectService.Connect`, `CommandService.Run` | `Resolve`, `RecoverCredentials`, `Password`, `AskUser`, `Report` |
| `Client.Run`, `RunCommand`, `openTransport` | `Capture`, `Size`, `Dial`, `ContextWatcher`, `PresentKey`, `Offer`, `OpenTransport`, `NewSession` |
| `buildAuthMethod`, prompts | `BuildAuthMethod`, `AgentWatcher`, `Signers`, `Passphrase`, `PromptOpens`, `Submitted`, `PromptEnds`, `PromptCanceled`, `ServerAnswers` |
| `runSession`, `runCommand`, `forwardResizes` | `RequestPty`, `MakeRaw`, `Start`, `SessionEnded`, `ContextEnded`, `Drained`, `ResizerEnds`, `ResizeFailed`, `JoinResizer` |
| `resourceSet.close`, `System.Restore` | `CloseResources`, `Restore` |
| `cli.ExitCode` | `Reason`, `ExitCode` |

Abstractions. One endpoint, without the formats and hashes of known_hosts; the files do not change while the process runs, which reads
them once. The handshake is its callbacks in the order of `golang.org/x/crypto/ssh`. Of the session, what can fail; window sizes and
data are left out. Exit statuses are classes. A row has an identity besides its revision (`inserted`), so that a row deleted and
inserted again can be told from the first.

- `SecretsFollowTrust`: no agent, password or passphrase is touched before the key the server presented is trusted, on grounds
  the command may use: `exec` has no user to accept a key.
- `StoredKeysWereUndecided`: only a key that known_hosts neither lists nor revokes gets into the table, from any process.
- `NothingLeftBehind`: whatever ended the attempt, no socket, session, agent or goroutine of Orza's own is left, and a raw terminal only
  when the terminal refused to be restored. The goroutine in which `ssh.Session` copies the input is not Orza's and may outlive the session
  (Known deviations).
- `TerminalAfterNetwork`: the terminal becomes usable only after the network is gone.
- `ExitIsTrue`: success only for a command that ended with zero, a remote status only if the server sent one, the status of a
  signal exactly when `main` took one.
- `AttemptEnds`: a signal or the deadline ends the attempt, provided the server answers; `DeadlineEndsCommand`, without this proviso, is
  refuted (Findings).

### NativeStore

Several goroutines call the store for one key. `platform` chooses the implementation; `noUI` is `StoreOptions.NonInteractive`.
`call[c]` is where a call is, what it has sent to Secret Service and not collected (`remote`, `session`, `prompt`, `waiter`) and
what it has read (`witness`).

| Code | TLA+ |
|---|---|
| `Store.begin`, `end`: the token | `Admit`, `GiveUp`, `End` |
| `joinedDBusCall` for `OpenSession`, `Unlock`, `CreateItem`, `Delete` | `Send`, `ServiceWorks`, `Collect` |
| `promptAndWait`, `dismissAndJoinPrompt`, `dismissPrompt` | `ShowPrompt`, `UserAnswers`, `PromptAnswered`, `PromptCanceled`, `ServiceDismisses`, `Dismissed` |
| `prepare`, `find`, `read`, `Set`'s verification | `CheckCollection`, `Find`, `Read`, `Verify` |
| Credential Manager, Keychain | `Update`, `Add`, `Mutate`, `Lookup`, `Refused`, `NothingThere`, `SystemFails` |

Abstractions. Items with duplicate or wrong attributes are reads that fail. The encryption of the D-Bus session is left out. Secret
Service answers what it is sent, `Dismiss` included; the user need never answer.

- `ServiceIsOwned`: work, a session or a prompt at the service belongs to the call that holds the token, so the next call finds none.
- `NoPromptUnasked`: a store for commands without a terminal shows no prompt, also when the service answers with one.
- `CancellationIsHonoured`: a canceled call ends, although nobody answers its prompt.
- `KeepsPromise`: refinement of `CredentialStore`: an item changes only while a call that may change it runs, and a call that
  succeeds has seen the item in the state it reports, also when the service claims work that it has not done.

### TerminalUI

`ui` is the `Model`, and a handler a function from one `ui` to the next. `cmds` are the commands that have not come back, each with
the operation it belongs to; `exec` is what runs in the foreground in the place of the loop (the reading of a secret, a shell); `tunnel`
and `stops` are the tunnel service as the interface sees it, with the calls of `Stop` still to be made.

| Code | TLA+ |
|---|---|
| `startOperation`, `matchesResult`, `requestCancellation`, `completeOperation` | `Begin`, `Accepts`, `RequestCancellation`, `CompleteOperation` |
| `Update` for results: `handleOperation`, `handleRecoveryResolved`, `handleSession`, ... | `Deliver` with `Results` and `Outcomes` |
| the prompts of a session and of a password to remember | `SessionPrompts`, `TunnelPrompts`, `PasswordPrompts`, `Respond`, `ReadingEnds`, `ReadingSuspended`, `ReadingHandled` |
| `handleTunnelStarted`, `pollTunnels`, `finishTunnelStartup`, `stopCanceledTunnelStartup` | `TunnelStarted`, `TunnelRefused`, `Poll`, `FinishStartup`, `Follow`, `StopRuns` |
| `requestTunnelQuit`, `closeTunnelsAndQuit`, `releaseTunnelInput` | `RequestQuit`, `CloseAndQuit`, `Leave`, `CloseFails` |
| `handleKey` and who takes a key before whom | `Owner`, `Quit`, `ModalKey`, `FormKey`, `TunnelFormKey`, `BrowserKey`, `TunnelsKey`, ... |
| `handleSecurityResize` | `Shrink`, `Grow` |

Abstractions. Help, search, inspection, movements in the tree, layout and the contents of forms are left out: of a form only whether it is
dirty. Dialogs that start a change of the catalog are one kind, `confirm`. There is one tunnel, which may be retried; an attempt, like a session,
asks at most once; the state Stopping is skipped. A dialog closes with those under it. The context of the whole
program is not canceled from outside. A secret that has been read is handled before the next prompt opens.

- `StartupHasOwner`: as long as a startup is followed its operation and its form are there, which the loop dereferences.
- `PromptHasOperation`: a prompt, which takes every key, belongs to the operation that runs and can use the answer.
- `TunnelsNeedConsent`: while a tunnel is live the program is not left without a confirmation, whichever way the wish to quit came.
- `OperationsEnd`: every operation ends or waits for the user, however it was refused, canceled or answered late. A recovery is
  excepted (Known deviations).

## Runs

Each run is `tlc -config <run>.cfg <module>`, with the configuration named after the run.

What the proofs establish for every instance is not repeated by a run, except the properties that matter
most: the inductive invariants, the type correctness of the proved modules, `OneOperationPerConnection`, `BoundedHistory`,
`RetryKeepsConnection`, `NewsIsNewer`, `OperationsHaveConnections` and `SeenIsCurrent` are proved and appear in no configuration.

| Run | Module, specification | Checks | Size |
|---|---|---|---|
| `saga_safety` | `MCCredentialSaga`, `Spec` | `NoDanglingReference`, `NoOrphanSecret`, `RecoveryComplete`, `SuccessIsReal`, `ImplementsPassword` | 2.6 million states |
| `saga_liveness` | `MCCredentialSaga`, `FairSpec` | `EveryOperationResolved` | |
| `saga_recover_running` | `MCCredentialSaga`, `Spec` | violation of `NoDanglingReference`, with `RecoverRunning` | |
| `tunnel_service` | `MCTunnelService`, `FairSpec` | `AtMostMaxLive`, `EveryRunIsShown`, `CloseLeavesNothing`, `Lifecycle`, `CompletionIsShown`, `StopReturns` | 1.6 million states |
| `tree_safety` | `MCCatalogTree`, `Spec` | `IsTree`, `NamesAreUnique`, `ConfirmedMoves` | |
| `folder_delete` | `MCFolderDelete`, `DeletionSpec` | `ScopeIsAtomic`, `DeletesTheConfirmed` | |
| `runtime_safety` | `MCTunnelRuntime`, `Spec` | `TypeOK`, `ServersAreBounded`, `NothingLeftOpen`, `SocksConversation` | |
| `runtime_liveness` | `MCTunnelRuntime`, `FairSpec` | `ImplementsRunner`, `EveryStopEnds` | |
| `session` | `MCSession`, `AnsweredSpec` | `TypeOK`, `SecretsFollowTrust`, `NothingLeftBehind`, `ExitIsTrue`, `TerminalAfterNetwork`, `StoredKeysWereUndecided`, `AttemptEnds` | |
| `session_timeout` | `MCSession`, `FairSpec` | violation of `DeadlineEndsCommand` | |
| `native_store` | `MCNativeStore`, `FairSpec` | `TypeOK`, `ServiceIsOwned`, `NoPromptUnasked`, `KeepsPromise`, `CancellationIsHonoured` | |
| `tui` | `MCTerminalUI`, `FairSpec` | `TypeOK`, `StartupHasOwner`, `PromptHasOperation`, `TunnelsNeedConsent`, `OperationsEnd` | |

### Bounds, and why they are enough

- `saga_safety`: two workers, two connections, two operations, three faults, revisions up to 2. `MaxFaults` bounds failed calls and
  crashes together: one leaves a row in each phase, two interrupt its recovery, three its recovery's recovery. `MaxRevision` bounds
  edits only. Two workers are two recoveries of one row, or a saga and a recovery; two operations are a chain (save, then replace, remove
  or delete) or one on each of two connections. Longer chains are covered by the proof. Workers, connections and
  identifiers are symmetric. `saga_liveness` has one worker, one connection, three faults, revisions up to 3 and no symmetry, and no
  edits of a connection with a pending operation.
- `tunnel_service`: two callers, one connection, two live tunnels, one finished, three attempts, one text that the runner reports. Two
  callers race for the last place between their admissions, and one closes, stops, dismisses or retries while the other has a start or retry
  on its way; the second one does no more than that (`Starters`), for which the first needs no partner. Three attempts
  fill a history of one and evict from it while another tunnel is live or completing, and two at once contend for `recoveryMu`, which is what
  `StopReturns` is about. `Texts` bounds what is reported; a text is reported again only after another one.
  The proofs cover any number of callers, with any of them as starters.
- `tree_safety`: three nodes below the root, two names, one caller, three levels, five changes. Three nodes are a folder, one in
  it and a third for a move into the other's place or into one's own grandchild. `MaxCatalog` bounds the changes: enough to create
  three nodes, or two around a read, change the path that was read and ask for a move.
- `folder_delete`: three nodes below the root, in every tree they can form, and two changes of the catalog, at any moment, by others
  or by the deletion itself (a saga's or the final transaction): a change by others before or between its own. Nobody reads (`Callers` is empty): what others do may come from a view of any age, and `CatalogTree` needs one only for the
  moves that ask for expectations.
- `runtime_safety`: two clients for one slot, so that one is served, late or closing while the other is admitted or turned away,
  in each mode. `runtime_liveness`: one client in each mode; clients wait for nothing but the peer and the stop.
- `session`: two keys, one row of trust that another process inserts, revisions up to 2, three passphrases, one signal (a second one is
  not read, `ownRootSignals` takes one). `session_timeout` needs one key and no signal.
- `native_store`: two goroutines, two secrets, three calls, one fault, the collection locked once. A call that left something behind
  meets another while it is at work and one that starts afterwards.
- `tui`: `MaxOperations` bounds the operations the user starts to three after the initial reload (those that follow by themselves are
  not bounded by it), `MaxResizes` the times the window becomes too small to one: an operation, a second one that meets its late result, and a
  third that meets the leftovers of both.

Deadlock is checked, except in `native_store` and `tui`: there calls and operations are bounded, and the user may have left.

### Fairness, and why the code justifies it

- Saga. `FairSpec` lets a worker in the middle of a saga or recovery go on (its calls are bounded by contexts and by
  SQLite's busy timeout) and lets a worker at rest recover eventually, which happens when the user next starts Orza, connects, runs
  a command or opens a tunnel. Nothing is assumed of starting operations, of edits or of faults; faults are bounded, so they stop.
- Tunnel service. A recovery ends, unless it waits for the user: its calls of SQLite are bounded as above, and those of Secret Service are
  answered. A user who is asked need never answer. Once the attempt is canceled the question goes and the recovery ends, for `promptAndWait` dismisses
  its prompt when the context is over (`CancellationIsHonoured` of `NativeStore`, `internal/credential/store_linux.go:593`); the calls of the Keychain
  cannot be canceled, so on macOS a question of the system delays a Stop until it is answered, which this fairness leaves out. Once its attempt is
  canceled, `RunTunnel` gives up opening and ends its lifetime, and having ended it returns, which is `EveryStopEnds` of `TunnelRuntime`; a completion and a join proceed. The
  wait for `recoveryMu` of a canceled attempt is fair as well, for the mutex goes to a goroutine that has waited long enough. Nothing is
  assumed of a tunnel nobody stops, nor of callers.
- Tunnel runtime. Goroutines go on, calls that can return do, timers expire. A dial or a copy ends only if it must: its context is
  over or both its ends are closed. The peer may stall for ever, and clients and destinations need do nothing.
- Session. `FairSpec`: the program's own goroutines go on, and what waits on the context ends with it. `AnsweredSpec` adds that the user, the
  agent and the server answer what they are asked; the remote command need not end.
- Native store. The program and Secret Service go on; the user need never answer a prompt.
- User interface. Commands come back, unless they wait for the user; a tunnel's attempt ends, unless it waits for the user; polls are made,
  `Stop` and `Close` return (`StopReturns`, whose exception needs a second tunnel). Nothing is asked of the user.

## Proofs

### The saga

For any sets of workers, connections and identifiers, any bounds and all the switches on or off:

| Theorem | States |
|---|---|
| `RowsHold` | `Spec => []RowInv` |
| `TypeCorrect`, `OperationsDoNotOverlap`, `RecoveryIsComplete` | `Spec => []TypeOK`, `[]OneOperationPerConnection`, `[]RecoveryComplete` |
| `Invariant` | `Spec /\ [][~TakesRunning]_vars => []IInv` |
| `NoReferenceDangles`, `SuccessIsEarned` | under the same condition `[]NoDanglingReference` and `SuccessIsReal` |
| `NoSecretIsOrphaned`, `SagaImplementsPassword` | `Spec /\ [][~TakesRunning]_vars /\ [][~BlindDelete]_vars => []NoOrphanSecret`, and `ImplementsPassword` |

Nothing is assumed of the switches. What a theorem needs of the environment it says in its statement, as a step that does not happen:

- `TakesRunning`: a recovery takes up the operation of a saga that is still running. The code does not exclude it (Findings 1), and
  run `saga_recover_running` shows that `NoDanglingReference` is lost with it. So are `SuccessIsReal` and `ImplementsPassword`: with
  `RecoverRunning` on in `saga_safety.cfg` TLC finds counterexamples to both.
- `BlindDelete`: a delete without a revision deletes a connection that has been given a password since it was read
  (`internal/app/connections.go:252`, Known deviations); `NoOrphanSecret` and `ImplementsPassword` are lost with it. A delete without a revision that finds no
  password is no such step.

The theorems with a condition still say something of the behaviours that break it: `IInv`, `NoDanglingReference` and `NoOrphanSecret` are about states,
so each holds up to the first such step. The theorems without one say what even those steps leave intact: rows of one connection never overlap,
and a recovery without error leaves nothing of its list pending, although the sagas that made the rows are at work on them.

`RowInv` speaks of rows alone, of who may act on them (`OnItsRow`, `OwnRequest`) and of what a recovery has passed (`PassedIsGone`): a row that is gone does not
come back, since identifiers are used once. `IInv` relates the rows to connections and store. None of the invariants is inductive by itself. `IInv` adds, in `Durable`, what holds in the store and
the catalog at every moment, in particular where references come from: an operation's old reference was
made by an earlier, finished write of the same connection (`OldIsEarlier`), an applied operation is what
the connection shows (`AppliedIsShown`), and a replaced secret is never referred to again
(`OldIsRetired`). `Volatile` adds what a worker knows at each label (`Known`), that nobody else works on
the row of a running saga, though recoveries may have listed it (`Exclusive`), that a listing is older than the row it lists
(`ListedIsOlder`), and what a recovery has passed (`PassedIsGone`).

The proof has a lemma for each action. Frame lemmas say what an action leaves to other workers: a worker
is `Undisturbed` when its row, its connection's reference and the two secrets it looks at stay the same;
what it knows then stays true. The few actions that do disturb others, because several recoveries may work
on one row, are treated case by case: `Mark`, `Apply`, `Cleanup`, `Drop` and the calls of the store.

Of secrets `IInv` says that each belongs to a row or to a connection, a deleted one included (`SecretIsAccounted`), and `DeletedIsBare`, which needs
the second condition, that a deleted connection has none.

The refinement uses `IInv` on both sides of a step: a row that goes is a `Settle`, which asks that store
and connection agree, and `IdleAgrees` says they do after the step because no row is pending any more.

### The tunnels

For any sets of callers and connections, any positive limits and any bounds:

| Theorem | States |
|---|---|
| `TunnelInvariant` | `Spec => []IInv` |
| `TunnelTypes`, `LiveIsBounded`, `NoHiddenRun`, `CloseIsFinal`, `ConnectionIsKept`, `HistoryIsBounded` | `TypeOK` and the invariants of the service, three of which run `tunnel_service` checks |
| `LifecycleIsKept`, `NewsIsAlwaysNewer`, `CompletionStaysShown` | its action properties, two of which run `tunnel_service` checks |

The code counts entries and looks at their states, while the properties speak of goroutines. `IInv` links the two:
a goroutine runs exactly while its snapshot is live (`SnapshotIsTrue`), is shown by its tunnel
(`EveryRunIsShown`), and is canceled exactly when it is shown as Stopping (`StoppingIsCanceled`); hence a
`Complete` that finds its context canceled finds Stopping too. `AdmissionLeavesRoom` then takes the bound from
entries to goroutines, by the theorems on cardinalities. `CloseJoinsAll` says that a Close under way has
everything that runs among what it joins, which nothing can escape since `closed` admits nothing.
`NewsOfNext` says of each step how a snapshot may change, and both `Lifecycle` and `NewsIsNewer` follow from it.

### The catalog

For any nodes, names and callers, any positive depth and any bound:

| Theorem | States |
|---|---|
| `TreeInvariant` | `Spec => []IInv` |
| `TreeTypes`, `CatalogIsTree`, `SiblingsDiffer`, `OperationsKeepConnections`, `RevisionsTell` | `TypeOK` and the invariants of the catalog, two of which run `tree_safety` checks |
| `MovesAreConfirmed` | `ConfirmedMoves`, its action property |

`IInv` adds `SeenIsPast` to the properties: what a caller has seen has the node's revision or an earlier one, or the node is
gone. Without it `SeenIsCurrent` is not inductive: a revision that grows could reach one that was seen. That a move makes no cycle is
proved without induction over paths. A cycle is a set that hangs in itself; after a move it would contain the
moved node and its new parent, which is outside the moved subtree; taking the subtree away leaves a set that hung in itself
before the move (`MoveKeeps`). `SubtreeIsBelow` says that the subtree is closed under children and without the root, which is also
why a deletion leaves nothing behind (`RemoveKeeps`).

`ConfirmedMoves` speaks of paths, which are computed by recursion, and the induction theorems of the library cannot be
instantiated here, for they take an operator. A set can be instantiated: that a set of naturals has a least element follows from
the well-foundedness of finite sets (`LeastNatural`), and takes the place of induction. With it the recursion of `Ancestors` has a
solution (`AboveExists`), what is above the destination stays out of the subtree that moves and is the same after the move
(`AboveStaysOutside`), the path of a node is as long as its first level at the root (`DepthIs`), and so the moved node has the path
of its new folder with its own name (`MovedPath`). `SeenIsCurrent` makes that the name that was read.

### Recursive deletion

For the constants of the catalog:

| Theorem | States |
|---|---|
| `DeletionInvariant` | `DeletionSpec => []DeletionInv` |
| `DeletionKeepsTheTree` | the tree, its names and its pending operations, with deletions |
| `ScopesAreAtomic`, `OnlyTheConfirmedGoes` | the action properties of run `folder_delete` |

`DeletionInv` is the catalog's `IInv`, which every step of a deletion keeps by the lemmas for the same changes of the catalog, with
two parts. `ScanFits` is conditional, as the code is: while the catalog has the revision at which the scan began, what was read is
of the subtree, the folder itself was or will be read, and every child of a listed folder too (`ScopeIsCovered`). At the end nothing is
left to read, so what was listed is closed under children and contains the subtree: `ScopeIsAtomic`. Every change of the tree advances the revision
past `at`, so nothing has to be shown of a scan that is out of date. `EraseFits` says that sagas take only what was confirmed, and that what they took
stays gone, since identifiers are not used twice; the final transaction compares the rest, hence `DeletesTheConfirmed`.

### A session

For any keys, any of the authentication methods, any known_hosts and any bounds:

| Theorem | States |
|---|---|
| `SessionInvariantHolds` | `Spec => []IInv` |
| `TypeCorrect`, `SecretsAfterTrust`, `LeavesNothing`, `ExitTells` | `TypeOK` and the invariants of run `session` |
| `TerminalIsRestoredLast`, `StoredKeysAreOpen` | its action properties |

The foreground is a sequence of stages, beside which signals, watchers, the wait for the remote command and the forwarder of window
sizes move. `IInv` says at which stages each of them may still be about (`GoroutinesFit`, `LinkFits`), who has made the terminal raw and still has to restore it
(`TerminalFits`), what a failure has recorded by then and who may have caused it (`WhyFits`), and what the exit status is made from
(`ExitFits`). `GateFits` keeps the key that the gate has looked at the one that the secrets are for, from the callback through the
question, the write and the second read: the table may change at any of them, and only known_hosts, which the process reads once, does not. The second process
reads known_hosts as well, so the key it asks about is open when it stores it (`OtherFits`). In `TerminalIsRestoredLast` the network is gone
because nothing is open from the clean-up on; a prompt, which restores the terminal in the middle of the handshake, is the exception
that the property names. `TriesFit` is needed by `TypeOK`: the counter of secrets asked for is bounded by the method, and a
password is asked for once only because its stage belongs to the method `password`.

### The user interface

For any positive number of operations and any number of resizes:

| Theorem | States |
|---|---|
| `InterfaceInvariant` | `Spec => []IInv` |
| `InterfaceTypes`, `StartupsAreOwned`, `PromptsAreOwned` | `TypeOK` and the invariants of run `tui` |
| `LeavingNeedsConsent` | `TunnelsNeedConsent`, its action property |

The handlers call one another, as `Update` does: ending an operation may leave, ask, begin a reload or go back to a dialog. So the
invariant has two layers. `ModelFits(u)` speaks of a `Model` alone, and there is a lemma for each handler that it
takes one that fits to one that fits, and what it leaves alone. The other parts relate the `Model` to what is outside of it: commands
(`CommandsFit`, `TunnelFits`), prompts and who waits for them (`WaitersFit`), the shell that holds the loop (`ShellFits`), and the stops
that have been ordered (`StopsFit`). There is then one lemma for each action of `Next`.

What had to be found for it says more of the code than the properties do. An operation whose end is to quit is canceled, but for a
reload after a change, which takes over the wish (`OperationFits`). The question of leaving may cover itself, once, when an operation that
was to quit ends below it (`DialogFits`); that bounds the stack of dialogs. A startup learns the number of its attempt only after
its command has come back (`TunnelFits`), and so a startup without a number has a command that will bring it. And the end of a session takes up a wish to quit
without asking again (`SessionResult`), which would leave a live tunnel were it not that no tunnel can start while
a session runs, and that a shell begins only while nobody has asked to quit (`ShellFits`).

### The credential stores

For any callers and secrets, on each of the three systems, with and without prompts, and for any bounds:

| Theorem | States |
|---|---|
| `NativeInvariant` | `Spec => []IInv` |
| `NativeTypeCorrect`, `ServiceIsAlwaysOwned`, `NoPromptIsEverUnasked` | `TypeOK` and the invariants of run `native_store` |
| `StoreKeepsPromise` | `Spec => KeepsPromise`: the refinement of `CredentialStore` |

`IInv` says for each caller which steps its operation may be at on its system (`StepFits`), that on Linux whoever was admitted keeps
the token (`AdmittedHasToken`), that an opened session is handed over and closed (`SessionIsFollowed`), and that a message is followed until
its answer and a prompt until the user or the dismissal has ended it (`MessageIsFollowed`). `ServiceIsOwned` follows: whoever has
something at the service is at a joined step, and so has the token. `ResultIsSeen` is what the refinement needs: at its end a call
that reports success has seen what it reports. `OthersKeep` says that the conjuncts for one caller survive the steps of another, so each action is
looked at for the caller that takes it. In the refinement a step of the store is a stutter (`Quiet`), a change by a call that
may change (`Stored`), an observation (`Seen`), a beginning or an end.

### The runtime of a tunnel

For any clients, any of the three modes and any positive number of slots:

| Theorem | States |
|---|---|
| `RuntimeInvariant` | `Spec => []IInv` |
| `RuntimeTypes`, `SlotsAreNeverExceeded`, `EverythingIsClosed`, `SocksIsSpoken` | `TypeOK` and the invariants of run `runtime_safety` |
| `RuntimeIsARunner` | `Spec => ImplementsRunner`: the refinement of `TunnelRunner` |

The properties speak of the end, the invariant of the way there. `StageFits` says that a client has a slot exactly while its server
runs and is held exactly while the accept loop admits it; `SourceFits` and `DestFits` follow its two connections until they are closed,
with the register of connections that the clean-up reads: a dial that has succeeded is still waited for by `open` or its late
branch, or its destination is there. `RepliesFit` says what a client has been told at each stage, and `MainFits` what the main goroutine
has joined. With all of them, the join of the accept loop and of the servers leaves nothing open, whatever the closers of the
clean-up did: that is `NothingLeftOpen`, and `NothingHeldAfter` of the refinement. What is known of one client survives a step
of the accept loop or of another client's server (`SameKeeps`, used through `ServerMoves` and its like), so each action is looked at for
the client it moves. In the refinement only the main goroutine changes the runner's stage (`MainMoves`); what is held is settled by the
state (`NothingHeldBefore`, `ListenerHeld`, `NothingHeldAfter`).

### What is not proved

Liveness, which needs fairness, stays with TLC: `EveryOperationResolved`, `StopReturns`, `EveryStopEnds`, `AttemptEnds`, `CancellationIsHonoured` and
`OperationsEnd`. The two runs that expect a violation are counterexamples and have nothing to prove. Every other property of a run
is a theorem. Of the theorems on the saga, those on the agreement of catalog and store speak of behaviours without the steps `TakesRunning` and
`BlindDelete`, which the code allows; no other theorem has a condition. Nothing else is assumed beyond the named assumptions of the modules: constants that stand for nothing are outside their
sets, bounds are natural numbers, limits are positive. That a module's abstraction is faithful is not proved, nor that the modules fit
together but by the refinements named above.

## Findings

Each is a run that expects a violation; the counterexample is what the code does.

1. `Recover` acts on the rows of sagas that are still running (run `saga_recover_running`). A second
   process that starts, connects or opens a tunnel in the middle of a save applies and deletes its row; the
   save's `SetCredentialOperationPhase` then fails and its compensation deletes the secret that the
   connection has just been given. The connection refers to nothing and no row is left to repair it.
2. The deadline of `exec` does not end a command whose server is silent (run `session_timeout`). `runCommand` closes the session, which only
   sends a message, and waits for `session.Wait`, which returns when the server has closed its side; the socket is closed
   after that (`internal/sshclient/session.go:69`). Opening the session and starting the command do not watch the deadline at all.
   `specs/014-cli-command-execution/spec.md:87` and `:124` promise the contrary.

## Known deviations

Met while modelling, by reading the code against its documents. The models have each of them, or say where they are restricted; no run
refutes them.

Credentials and the catalog:

- Edits do not look at pending operations. An edit between a crash and the recovery makes `ApplyCredentialOperation` conflict
  at every recovery, and startup fails with it. With `EditsDuringSaga` on, `EveryOperationResolved` fails.
- `Delete` without a revision deletes a connection that has been given a password since it was read: the secret is
  orphaned. With `UnpinnedDeletes` on, `NoOrphanSecret` fails.
- Two recoveries of one row are safe, but one of them may report a spurious error when the other has already deleted the row it
  wants to mark (`Mark` with a missing row).
- `updateAndRemember` (`internal/app/connections.go:282`) reports a failure of both halves when only the second fails.
- `MoveFolder` (`internal/catalogrepo/folder_repository.go:266`) reads the moved folder back, which fails beyond 100 levels, but not its
  descendants. These may end too deep to be read, and listing their folder fails;
  `specs/001-manage-ssh-connections/contracts/cli.md:98` says that `list` returns the children.
- A recursive deletion has deleted the remembered connections one by one when a later step fails, which
  `specs/001-manage-ssh-connections/spec.md:182` excludes; and a folder moved out of the confirmed scope in the meantime
  still loses them, since each is deleted by its own revision (`README.md:887`).

Trust:

- A trusted host deleted and accepted again starts at revision 1 (`internal/catalog/trusted_host_repository.go:164`): a decision made on the
  earlier revision 1 still replaces it. `HostTrust` has both steps; a property that told the rows apart by `id` would fail.
- A key that differs from known_hosts only, without a row in the table, is refused without asking, although `README.md:804` speaks of a
  decision (`Decidable`).
- `catalogRepositoryAdapter.TrustHost` writes the row and reads it again: when the reading fails the key is stored and the attempt fails
  (`Persist`, `Reread`).
- A key accepted for once is asked about again if the server rekeys.

Tunnels:

- A tunnel that has lost its transport is shown as Active until its clean-up is over, and then as Failed;
  `specs/016-add-port-forwarding/data-model.md:78` says it is Stopping in between. `Lifecycle` allows both ways and so does not decide it.
- A destination that is still silent a second after its timeout stops the whole tunnel
  (`internal/sshclient/forwarding.go:385`); `specs/016-add-port-forwarding/spec.md:125` keeps a failed destination local.
- A Stop may wait for a user: its attempt is queued for `recoveryMu` (`internal/app/tunnel.go:334`) while another tunnel's recovery waits for an
  answer (`BehindUser` in `StopReturns`). The context of an attempt has no deadline.
- The stop of a canceled startup names the tunnel and not the attempt (`internal/tui/tunnels.go:465`): run late, it stops a later retry,
  although `:436` says why the attempt matters.

Sessions and shutdown:

- The `select` of `main.go:214` may take the canceled context although a signal waits, and the exit status is then that of the command.
- A window change that fails while the remote command exits hides its status (`internal/sshclient/session.go:155`).
- The trust prompt of the command line reads without watching the context (`internal/cli/connect.go:40`): a signal waits for the answer.
- `runSession` reports a deadline as a cancellation; the goroutine that copies the input outlives the session and may take a key.

User interface:

- The result of a recovery is dropped when the question of leaving covers its dialog (`internal/tui/model.go:1287`): the operation never
  ends. This is why `OperationsEnd` excepts recoveries. `specs/004-redesign-tui-layout/data-model.md:257` lets a running
  operation end restored or in quitting.
- Ctrl+R in a form with changes, then Ctrl+C, leaves without asking (`internal/tui/model.go:388`, `:1866`; `README.md:685`). So does `q` in a
  small window over a tunnel draft.
- A save that is refused keeps the wish to quit (`internal/tui/model.go:1366`), and the next save quits (`README.md:683`).
- The wish to quit is forgotten when the canceled operation ends with another error than the cancellation; quitting during a save
  leaves the saga to the next recovery; a prompt suspended by a small window quits on Ctrl+C (`README.md:740`).
- `handleActiveKey` repairs an overlap of owners that its comment calls impossible (`internal/tui/model.go:337`); the model
  reaches it (`Repaired`).

## What is not modelled

- Presentation, parsing and formatting; validation of requests and domain values, which has no state; the parser of SOCKS addresses,
  whose outcomes are in `TunnelRuntime`.
- SQLite's and the operating systems' own behaviour: a transaction is one step. Opening the catalog, its permissions and
  migrations are input and output.
- The SSH protocol (`golang.org/x/crypto/ssh`): the models have what the client can observe of it.
- In the user interface the things listed under `TerminalUI`.
- Release tooling under `scripts`.

`PROJECT.json` lists each part under `components` with its status, and under `hazards` what no property covers and why.

## Plan

1. `CredentialSaga` and `RememberedPassword`: done, proved.
2. `CatalogTree`: done, proved.
3. `TunnelService`: done, proved.
4. `NativeStore` and `CredentialStore`: done, proved.
5. `TunnelRuntime` and `TunnelRunner`: done, proved.
6. `FolderDelete`, `HostTrust` and `Session`, `TerminalUI`: done, proved.
7. To prove: that `TunnelService` needs of its runner no more than `TunnelRunner` promises, and that the saga needs of the store no more than
   `CredentialStore` promises, where today the two sides name the same steps.
8. Left to model: the pair of changes of `updateAndRemember`, the parser of SOCKS addresses against a reference definition, migrations, the
   secret editor.
