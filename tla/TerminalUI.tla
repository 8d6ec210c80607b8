------------------------------ MODULE TerminalUI ------------------------------
(* The terminal user interface: the event loop of model.go with its one       *)
(* operation at a time (state.go), the forms, the dialogs, the prompts of a   *)
(* session (session.go) and the tunnels (tunnels.go).                         *)
(*                                                                            *)
(* ui is the Model of the program, and a handler a function from one ui to    *)
(* the next.  Commands run in goroutines of their own and come back with a    *)
(* message: cmds holds those that have not.  A command executed in the        *)
(* foreground, the reading of a secret or a shell, keeps the loop waiting.    *)
(* Help, rendering and the movements in the tree are left out.                *)
EXTENDS Naturals, FiniteSets, Sequences

CONSTANTS
    MaxOperations,   \* bound: the last operation that the user may start
    MaxResizes       \* bound: times that the window becomes too small

ASSUME UIAssumption == MaxOperations \in Nat \ {0} /\ MaxResizes \in Nat

VARIABLES
    ui,        \* the Model
    cmds,      \* commands that have not come back: operation, kind and stage
    exec,      \* what runs in the foreground, in the place of the event loop
    small,     \* the window is below the smallest layout
    resizes,
    tunnel,    \* the tunnel of the service: one, which may be retried
    stops      \* calls of Stop(id) that are still to be made

vars == <<ui, cmds, exec, small, resizes, tunnel, stops>>

OperationIds == 0..(2 * MaxOperations + 1)

OperationKinds == {"reload", "save", "remember", "ssh", "tunnel", "recover", "rehost"}

\* confirm stands for the dialogs and small forms that start a change of the
\* catalog: folders, moves, deletions, forgetting a host key.
ModalKinds ==
    {"none", "confirm", "connect", "unsaved", "error", "sshfailure",
     "start", "stop", "quit", "discard"}

Modals == [kind: ModalKinds, quit: BOOLEAN, blocked: BOOLEAN,
           recovery: {"idle", "resolving", "confirming", "blocked"}]

Modal(kind, quit) == [kind |-> kind, quit |-> quit, blocked |-> FALSE, recovery |-> "idle"]

NoModal == Modal("none", FALSE)

NoOperation == [id |-> 0, kind |-> "none", canceled |-> FALSE, quit |-> FALSE]

NoSecurity == [kind |-> "none", suspended |-> FALSE, discard |-> FALSE]

NoStartup == [present |-> FALSE, attempt |-> 0, stopping |-> FALSE]

Commands ==
    [id: OperationIds, kind: OperationKinds,
     stage: {"running", "asking", "waiting", "answered", "refused", "activating",
             "shell", "ended", "registered"}]

Live == tunnel.state \in {"starting", "active"}

Operations ==
    [id: OperationIds, kind: OperationKinds \cup {"none"}, canceled: BOOLEAN, quit: BOOLEAN]

Prompts ==
    [kind: {"none", "trust", "secret", "password"}, suspended: BOOLEAN, discard: BOOLEAN]

Startups == [present: BOOLEAN, attempt: 0..MaxOperations, stopping: BOOLEAN]

\* under holds the dialogs that the question of leaving covers.
Models ==
    [screen: {"browser", "form", "tunnelform"}, dirty: BOOLEAN, leave: BOOLEAN,
     conflict: BOOLEAN, failed: BOOLEAN, modal: Modals, under: Seq(Modals),
     last: OperationIds, operation: Operations, security: Prompts, startup: Startups,
     leaving: {"no", "closing", "left"}]

TypeOK ==
    /\ ui \in Models /\ Len(ui.under) <= 2
    /\ cmds \subseteq Commands
    /\ exec \in {"none", "reading", "answered", "shell"}
    /\ small \in BOOLEAN /\ resizes \in 0..MaxResizes
    /\ tunnel \in [state: {"none", "starting", "active", "stopped", "failed"},
                   attempt: 0..MaxOperations, ask: {"no", "sent", "shown", "done"},
                   closed: BOOLEAN]
    /\ stops \in 0..MaxOperations

Init ==
    /\ ui = [screen |-> "browser", dirty |-> FALSE, leave |-> FALSE, conflict |-> FALSE,
             failed |-> FALSE, modal |-> NoModal, under |-> <<>>, last |-> 1,
             operation |-> [NoOperation EXCEPT !.id = 1, !.kind = "reload"],
             security |-> NoSecurity, startup |-> NoStartup, leaving |-> "no"]
    /\ cmds = {[id |-> 1, kind |-> "reload", stage |-> "running"]}
    /\ exec = "none" /\ small = FALSE /\ resizes = 0
    /\ tunnel = [state |-> "none", attempt |-> 0, ask |-> "no", closed |-> FALSE]
    /\ stops = 0

---------------------------------------------------------------------------
(* The operation.                                                           *)

Begin(u, kind) ==
    IF u.operation.kind # "none" THEN u
    ELSE [u EXCEPT !.last = @ + 1,
                   !.operation = [id |-> u.last + 1, kind |-> kind,
                                  canceled |-> FALSE, quit |-> FALSE]]

Accepts(c) == ui.operation.id = c.id /\ ui.operation.kind = c.kind

CompleteOperation(u) == [u EXCEPT !.operation = NoOperation]

\* A second request may still add the wish to quit.
RequestCancellation(u, quit) ==
    IF u.operation.kind = "none" THEN u
    ELSE [u EXCEPT !.operation.canceled = TRUE,
                   !.operation.quit = IF u.operation.canceled THEN @ \/ quit ELSE quit]

\* The command that a handler starts with its operation.
Launched(u) ==
    IF u.operation.id # ui.operation.id /\ u.operation.kind # "none"
    THEN {[id |-> u.operation.id, kind |-> u.operation.kind, stage |-> "running"]}
    ELSE {}

---------------------------------------------------------------------------
(* Dialogs, forms, leaving.                                                 *)

OpenModal(u, modal) == IF u.modal.kind = "none" THEN [u EXCEPT !.modal = modal] ELSE u

CloseModal(u) == [u EXCEPT !.modal = NoModal, !.under = <<>>]

CloseForm(u) ==
    [u EXCEPT !.screen = "browser", !.dirty = FALSE, !.leave = FALSE, !.conflict = FALSE,
              !.failed = FALSE]

\* Canceling a form that was opened from a failure shows the failure again.
CancelForm(u) ==
    IF u.failed THEN OpenModal(CloseForm(u), Modal("sshfailure", FALSE)) ELSE CloseForm(u)

\* closeTunnelsAndQuit: the tunnels are closed by a command of its own.
CloseAndQuit(u) == [RequestCancellation(u, FALSE) EXCEPT !.leaving = "closing"]

\* Mutant of RequestQuit: an attempt that is still starting is forgotten.
RequestQuitActive(u) ==
    IF tunnel.state # "active" THEN CloseAndQuit(u)
    ELSE [u EXCEPT !.under = <<>>, !.modal = Modal("quit", FALSE)]

RequestQuit(u) ==
    IF ~Live THEN CloseAndQuit(u)
    ELSE [u EXCEPT !.under = IF u.modal.kind = "none" THEN <<>> ELSE <<u.modal>> \o @,
                   !.modal = Modal("quit", FALSE)]

QuitIf(quit, u) == IF quit THEN RequestQuit(u) ELSE u

ReloadAfterCommit(u, quit) ==
    LET v == Begin(u, "reload")
    IN  [v EXCEPT !.operation.quit = @ \/ quit]

ClearSecurity(u) == [u EXCEPT !.security = NoSecurity]

\* A window that is too small suspends the prompt.
Prompt(u, kind) ==
    [u EXCEPT !.security = [kind |-> kind, suspended |-> small, discard |-> FALSE]]

---------------------------------------------------------------------------
(* Results of commands.                                                     *)

\* A reload that succeeds may find that a conflict is gone.
Reloaded(u, quit) ==
    {QuitIf(quit, [u EXCEPT !.conflict = c, !.modal.blocked = b,
                            !.modal.recovery = IF u.modal.kind = "sshfailure" THEN "idle" ELSE @]) :
        c \in {FALSE, u.conflict}, b \in {FALSE, u.modal.blocked}}

\* A failure is shown in the dialog that is open, or in one of its own.
Failed(u, result) ==
    IF u.modal.kind = "none" THEN OpenModal(u, Modal("error", FALSE))
    ELSE [u EXCEPT !.modal.blocked = @ \/ result = "conflict"]

ReloadResult(u, quit, result) ==
    IF result = "ok" THEN Reloaded(u, quit)
    ELSE IF u.modal.kind = "sshfailure" THEN {[u EXCEPT !.modal.recovery = "blocked"]}
    ELSE IF result = "canceled" THEN {QuitIf(quit, [u EXCEPT !.leave = FALSE])}
    ELSE IF u.conflict THEN {u}
    ELSE {Failed(u, result)}

FormSaveResult(u, quit, result) ==
    IF result = "ok" THEN
           {ReloadAfterCommit(CloseForm(IF u.modal.kind = "unsaved" THEN CloseModal(u) ELSE u),
                              quit \/ u.leave)}
    ELSE IF result = "canceled" THEN {QuitIf(quit, [u EXCEPT !.leave = FALSE])}
    ELSE {[u EXCEPT !.leave = FALSE, !.conflict = c,
                    !.modal.blocked = @ \/ (u.modal.kind = "unsaved" /\ c)] :
             c \in {FALSE, result = "conflict"}}

\* The changes that a dialog starts, and the scope that opens such a dialog.
DialogSaveResult(u, quit, result) ==
    IF result = "ok" THEN
           {QuitIf(quit, OpenModal(u, Modal("confirm", FALSE)))} \cup
           (IF u.modal.kind = "none" THEN {} ELSE {ReloadAfterCommit(CloseModal(u), quit)})
    ELSE IF result = "canceled" THEN {QuitIf(quit, u)}
    ELSE {Failed(u, result)}

\* The connection of a failed start, read again to edit it or to try again.
RecoveryResult(u, quit, result) ==
    IF quit THEN {RequestQuit(u)}
    ELSE IF result = "ok" THEN
           {[CloseModal(u) EXCEPT !.screen = "form", !.failed = TRUE],
            [u EXCEPT !.modal.recovery = "confirming"]}
    ELSE {[u EXCEPT !.modal.recovery = "blocked"]}

\* The host of a tunnel that is to be tried again.
TunnelHostResult(u, quit, result) ==
    IF quit THEN {RequestQuit(u)}
    ELSE IF result = "ok" THEN {[u EXCEPT !.screen = "tunnelform"]}
    ELSE {u}

\* The shell has ended, or has not begun.
SessionResult(u, quit, canceled, result) ==
    LET closed == IF u.modal.kind = "connect" THEN CloseModal(u) ELSE u
    IN  IF result = "closed" THEN {IF quit THEN CloseAndQuit(closed) ELSE closed}
        ELSE IF canceled /\ result # "conflict" THEN {QuitIf(quit, u)}
        ELSE IF result = "conflict" THEN
               {[OpenModal(u, Modal(k, FALSE)) EXCEPT
                    !.modal.blocked = @ \/ k = "error",
                    !.modal.recovery = IF @ = "idle" /\ k = "sshfailure" THEN "blocked" ELSE @] :
                    k \in {"error", "sshfailure"}}
        ELSE
               {QuitIf(quit, OpenModal(closed, Modal("sshfailure", FALSE))),
                OpenModal(closed, Modal("error", FALSE))}

Results(c, result) ==
    LET u == CompleteOperation(ui)
        quit == ui.operation.quit
    IN  IF c.kind = "reload" THEN ReloadResult(u, quit, result)
        ELSE IF c.kind \in {"save", "remember"} THEN
               IF u.screen = "form" THEN FormSaveResult(u, quit, result)
               ELSE DialogSaveResult(u, quit, result)
        ELSE IF c.kind = "recover" THEN RecoveryResult(u, quit, result)
        ELSE IF c.kind = "rehost" THEN TunnelHostResult(u, quit, result)
        ELSE SessionResult(ClearSecurity(u), quit, ui.operation.canceled, result)

\* A result of an operation that is over is dropped, and so is a recovery whose
\* dialog is covered: that one before its operation is completed.
Applies(c) == Accepts(c) /\ (c.kind = "recover" => ui.modal.kind = "sshfailure")

\* The event loop reads messages and keys.
Ready == exec \in {"none", "answered"} /\ ui.leaving # "left"

Step(u) == ui' = u /\ cmds' = cmds \cup Launched(u)

Outcomes(c) ==
    IF c.stage = "refused" THEN {"failed", "canceled"}
    ELSE IF c.stage = "ended" THEN {"closed", "failed"}
    ELSE IF c.kind \in {"ssh", "remember"} /\ c.stage # "answered" THEN {"failed", "conflict", "canceled"}
    ELSE IF c.kind = "ssh" THEN {"failed", "conflict", "canceled"}
    ELSE {"ok", "failed", "conflict", "canceled"}

Deliver(c, result) ==
    /\ Ready
    /\ c \in cmds /\ c.kind # "tunnel" /\ c.stage # "shell"
    /\ c.kind = "remember" => c.stage # "waiting"
    /\ result \in Outcomes(c)
    /\ result = "canceled" /\ Accepts(c) => ui.operation.canceled
    /\ \E u \in IF Applies(c) THEN Results(c, result) ELSE {ui} :
            ui' = u /\ cmds' = (cmds \ {c}) \cup Launched(u)
    /\ UNCHANGED <<exec, small, resizes, tunnel, stops>>

---------------------------------------------------------------------------
(* Questions of a session, of a tunnel and of a password to remember.       *)

Stage(c, stage) == cmds' = (cmds \ {c}) \cup {[c EXCEPT !.stage = stage]}

\* runtime.decideTrust and readSecret send a request; once in a session here.
SessionAsks(c) ==
    /\ c \in cmds /\ c.kind = "ssh" /\ c.stage = "running"
    /\ Stage(c, "asking")
    /\ UNCHANGED <<ui, exec, small, resizes, tunnel, stops>>

\* Showing a prompt: a secret is read in the foreground, unless suspended.
Shows(kind) ==
    /\ ui' = Prompt(ui, kind)
    /\ exec' = IF kind = "trust" \/ small THEN exec ELSE "reading"

SessionPrompts(c) ==
    /\ exec = "none" /\ ui.leaving # "left"
    /\ c \in cmds /\ c.kind = "ssh" /\ c.stage = "asking"
    /\ Accepts(c) /\ ~ui.operation.canceled
    /\ \E kind \in {"trust", "secret"} : Shows(kind)
    /\ Stage(c, "waiting")
    /\ UNCHANGED <<small, resizes, tunnel, stops>>

\* handleCredentialMutationReady, once the destination has been verified.
PasswordPrompts(c) ==
    /\ exec = "none" /\ ui.leaving # "left"
    /\ c \in cmds /\ c.kind = "remember" /\ c.stage = "running"
    /\ Accepts(c) /\ ~ui.operation.canceled
    /\ Shows("password")
    /\ Stage(c, "waiting")
    /\ UNCHANGED <<small, resizes, tunnel, stops>>

\* Mutant of AcceptsTunnel: a late request is shown to whoever is there.
AcceptsLate == ui.leaving = "no"

\* The request carries the runtime of its attempt, which the loop compares.
AcceptsTunnel ==
    /\ ui.startup.present /\ ui.operation.kind = "tunnel" /\ ~ui.operation.canceled
    /\ \A c \in cmds : c.kind = "tunnel" => c.stage = "registered"

TunnelPrompts ==
    /\ exec = "none" /\ ui.leaving # "left" /\ tunnel.ask = "sent"
    /\ IF AcceptsTunnel
       THEN (\E kind \in {"trust", "secret"} : Shows(kind)) /\ tunnel' = [tunnel EXCEPT !.ask = "shown"]
       ELSE UNCHANGED <<ui, exec>> /\ tunnel' = [tunnel EXCEPT !.ask = "done"]
    /\ UNCHANGED <<cmds, small, resizes, stops>>

\* The answer goes to whoever asked.
Respond(stage) ==
    /\ cmds' = {IF c.stage = "waiting" THEN [c EXCEPT !.stage = stage] ELSE c : c \in cmds}
    /\ tunnel' = IF tunnel.ask = "shown" THEN [tunnel EXCEPT !.ask = "done"] ELSE tunnel

NoResponse == UNCHANGED <<cmds, tunnel>>

\* gatedSecretCommand.Run: a window that becomes too small interrupts it.
ReadingSuspended ==
    /\ exec = "reading" /\ small
    /\ exec' = "none"
    /\ ui' = [ui EXCEPT !.security.suspended = TRUE, !.security.discard = TRUE]
    /\ UNCHANGED <<cmds, small, resizes, tunnel, stops>>

ReadingEnds ==
    /\ exec = "reading" /\ ~small
    /\ IF ui.security.discard
       THEN ui' = [ui EXCEPT !.security.discard = FALSE] /\ UNCHANGED exec
       ELSE exec' = "answered" /\ UNCHANGED ui
    /\ UNCHANGED <<cmds, small, resizes, tunnel, stops>>

\* handleSessionSecretFinished and handleCredentialSecretFinished: a secret was
\* given, the user quit in the prompt, or the reading failed.
ReadingHandled ==
    /\ exec = "answered" /\ ui.leaving # "left"
    /\ exec' = "none"
    /\ IF ui.security.kind \notin {"secret", "password"} THEN UNCHANGED ui /\ NoResponse
       ELSE   \/ ui' = ClearSecurity(ui) /\ Respond("answered")
              \/ \E quit \in BOOLEAN :
                    /\ ui' = IF quit \/ ui.security.kind = "secret"
                             THEN RequestCancellation(ClearSecurity(ui), quit) ELSE ClearSecurity(ui)
                    /\ Respond("refused") \/ (ui.security.kind = "secret" /\ NoResponse)
    /\ UNCHANGED <<small, resizes, stops>>

\* runtime.activate and handleSessionActivate.
SessionActivates(c) ==
    /\ c \in cmds /\ c.kind = "ssh" /\ c.stage \in {"running", "answered"}
    /\ Stage(c, "activating")
    /\ UNCHANGED <<ui, exec, small, resizes, tunnel, stops>>

ShellBegins(c) ==
    /\ exec = "none" /\ ui.leaving # "left"
    /\ c \in cmds /\ c.stage = "activating" /\ Accepts(c) /\ ~ui.operation.canceled
    /\ ui' = ClearSecurity(ui)
    /\ exec' = "shell" /\ Stage(c, "shell")
    /\ UNCHANGED <<small, resizes, tunnel, stops>>

ShellEnds(c) ==
    /\ exec = "shell" /\ c \in cmds /\ c.stage = "shell"
    /\ exec' = "none" /\ Stage(c, "ended")
    /\ UNCHANGED <<ui, small, resizes, tunnel, stops>>

---------------------------------------------------------------------------
(* The tunnel: its service, and the startup that the loop follows.          *)

\* service.Start or Retry registers the attempt, or refuses.
TunnelRegistered(c) ==
    /\ c \in cmds /\ c.kind = "tunnel" /\ c.stage = "running" /\ ~tunnel.closed
    /\ tunnel' = [tunnel EXCEPT !.state = "starting", !.attempt = @ + 1, !.ask = "no"]
    /\ Stage(c, "registered")
    /\ UNCHANGED <<ui, exec, small, resizes, stops>>

TunnelAsks ==
    /\ tunnel.state = "starting" /\ tunnel.ask = "no"
    /\ tunnel' = [tunnel EXCEPT !.ask = "sent"]
    /\ UNCHANGED <<ui, cmds, exec, small, resizes, stops>>

TunnelEnds(state) ==
    /\ \/ tunnel.state = "starting" /\ (state = "active" => tunnel.ask \in {"no", "done"})
       \/ tunnel.state = "active" /\ state = "failed"
    /\ tunnel' = [tunnel EXCEPT !.state = state]
    /\ UNCHANGED <<ui, cmds, exec, small, resizes, stops>>

\* Mutant of StopRuns: the call is counted twice.
StopRunsTwice ==
    /\ stops > 0
    /\ stops' = stops - 2
    /\ tunnel' = IF Live THEN [tunnel EXCEPT !.state = "stopped"] ELSE tunnel
    /\ UNCHANGED <<ui, cmds, exec, small, resizes>>

StopRuns ==
    /\ stops > 0
    /\ stops' = stops - 1
    /\ tunnel' = IF Live THEN [tunnel EXCEPT !.state = "stopped"] ELSE tunnel
    /\ UNCHANGED <<ui, cmds, exec, small, resizes>>

StartupOver(u) == [CompleteOperation(ClearSecurity(u)) EXCEPT !.startup = NoStartup]

CloseStart(u) == IF u.modal.kind = "start" THEN CloseModal(u) ELSE u

\* Mutant of StopsCanceled: nobody stops a startup that was canceled.
StopsNothing(u) == FALSE

\* finishTunnelStartup, and the call of Stop that it may order.
StopsCanceled(u) ==
    u.startup.present /\ u.startup.attempt > 0 /\ u.operation.canceled /\ Live

\* Mutant of FinishStartup: the startup outlives its operation.
FinishKeepsStartup(u) ==
    IF ~u.startup.present \/ u.startup.attempt = 0 THEN u
    ELSE IF StopsCanceled(u) THEN [u EXCEPT !.startup.stopping = TRUE]
    ELSE IF tunnel.attempt # u.startup.attempt \/ tunnel.state \in {"none", "starting"} THEN u
    ELSE IF u.modal.kind = "quit" THEN u
    ELSE QuitIf(u.operation.quit, CompleteOperation(ClearSecurity(u)))

FinishStartup(u) ==
    LET form == CloseStart(StartupOver(u))
        after == IF tunnel.state = "active" THEN CloseForm(form) ELSE form
    IN  IF ~u.startup.present \/ u.startup.attempt = 0 THEN u
        ELSE IF StopsCanceled(u) THEN [u EXCEPT !.startup.stopping = TRUE]
        ELSE IF tunnel.attempt # u.startup.attempt \/ tunnel.state \in {"none", "starting"} THEN u
        ELSE IF u.modal.kind = "quit" THEN u
        ELSE QuitIf(u.operation.quit, after)

OrdersStop(u) == StopsCanceled(u) /\ ~u.startup.stopping

Follow(u) ==
    /\ ui' = FinishStartup(u)
    /\ stops' = IF OrdersStop(u) THEN stops + 1 ELSE stops

Poll ==
    /\ Ready /\ Follow(ui) /\ ui' # ui
    /\ UNCHANGED <<cmds, exec, small, resizes, tunnel>>

\* handleTunnelStarted, for a start that was registered and for one that was not.
TunnelStarted(c) ==
    /\ Ready /\ c \in cmds /\ c.kind = "tunnel" /\ c.stage = "registered"
    /\ cmds' = cmds \ {c}
    /\ IF Accepts(c) /\ ui.startup.present
       THEN Follow([ui EXCEPT !.startup.attempt = tunnel.attempt])
       ELSE UNCHANGED <<ui, stops>>
    /\ UNCHANGED <<exec, small, resizes, tunnel>>

TunnelRefused(c) ==
    /\ Ready /\ c \in cmds /\ c.kind = "tunnel" /\ c.stage = "running"
    /\ cmds' = cmds \ {c}
    /\ ui' = IF Accepts(c) /\ ui.startup.present
             THEN QuitIf(ui.operation.quit, CloseStart([CompleteOperation(ui) EXCEPT !.startup = NoStartup]))
             ELSE ui
    /\ UNCHANGED <<exec, small, resizes, tunnel, stops>>

\* closeTunnelsAndQuit: the command of Close, and the message tunnelQuitReady.
Leave ==
    /\ exec \in {"none", "answered"} /\ ui.leaving = "closing"
    /\ tunnel' = [tunnel EXCEPT !.closed = TRUE, !.state = IF Live THEN "stopped" ELSE @]
    /\ ui' = [IF ui.startup.present THEN StartupOver(ui) ELSE ui EXCEPT !.leaving = "left"]
    /\ UNCHANGED <<cmds, exec, small, resizes, stops>>

CloseFails ==
    /\ Ready /\ ui.leaving = "closing"
    /\ tunnel' = [tunnel EXCEPT !.closed = TRUE, !.state = IF Live THEN "failed" ELSE @]
    /\ ui' = [ui EXCEPT !.leaving = "no"]
    /\ UNCHANGED <<cmds, exec, small, resizes, stops>>

---------------------------------------------------------------------------
(* The size of the window.                                                  *)

Shrink ==
    /\ exec # "shell" /\ ui.leaving # "left" /\ ~small /\ resizes < MaxResizes
    /\ small' = TRUE /\ resizes' = resizes + 1
    /\ ui' = IF exec = "none" /\ ui.security.kind # "none"
             THEN [ui EXCEPT !.security.suspended = TRUE] ELSE ui
    /\ UNCHANGED <<cmds, exec, tunnel, stops>>

Grow ==
    /\ exec # "shell" /\ ui.leaving # "left" /\ small
    /\ small' = FALSE
    /\ ui' = IF exec = "none" THEN [ui EXCEPT !.security.suspended = FALSE] ELSE ui
    /\ exec' = IF exec = "none" /\ ui.security.suspended /\ ui.security.kind # "trust"
               THEN "reading" ELSE exec
    /\ UNCHANGED <<cmds, resizes, tunnel, stops>>

---------------------------------------------------------------------------
(* Keys.                                                                    *)

\* handleActiveKey abandons an operation that runs under a failed start.
Repaired ==
    IF /\ ~small /\ ui.modal.kind = "sshfailure" /\ ui.modal.recovery # "resolving"
       /\ ui.operation.kind \notin {"none", "ssh", "tunnel"}
       /\ ui.security.kind = "none"
    THEN CompleteOperation(ui) ELSE ui

\* handleKey and handleActiveKey: who owns the keyboard.
Owner(u) ==
    IF u.modal.kind = "quit" THEN "quit"
    ELSE IF u.security.kind # "none" THEN "security"
    ELSE IF u.operation.kind # "none" THEN "operation"
    ELSE IF u.modal.kind # "none" THEN "modal"
    ELSE u.screen

OpenUnsaved(u, quit) == OpenModal(u, Modal("unsaved", quit))

\* The key of quitting, for those who take it.
QuitPressed(u) ==
    IF Owner(u) = "quit" THEN u
    ELSE IF Owner(u) \in {"security", "operation"} THEN
            IF Live THEN RequestQuit(u)
            ELSE IF Owner(u) = "security" /\ ~u.security.suspended /\ u.security.kind # "trust" THEN u
            ELSE RequestCancellation(IF u.security.suspended THEN u ELSE ClearSecurity(u), TRUE)
    ELSE IF Owner(u) = "modal" THEN
            IF u.modal.kind \in {"confirm", "error", "sshfailure"} THEN RequestQuit(u) ELSE u
    ELSE IF Owner(u) = "form" THEN IF u.dirty THEN OpenUnsaved(u, TRUE) ELSE RequestQuit(u)
    ELSE IF Owner(u) = "tunnelform" /\ ~small THEN
            IF u.dirty THEN OpenModal(u, Modal("discard", TRUE)) ELSE RequestQuit(CloseForm(u))
    ELSE RequestQuit(u)

Pressed(u) == Ready /\ Step(u) /\ UNCHANGED <<exec, small, resizes, tunnel, stops>>

Quit == Pressed(QuitPressed(Repaired))

CancelOperation ==
    /\ ~small /\ Owner(Repaired) = "operation"
    /\ Pressed(RequestCancellation(Repaired, FALSE))

\* handleSecurityInputKey: reject, once and persist answer; Esc cancels.
AnswerTrust ==
    /\ Ready /\ Owner(ui) = "security" /\ ui.security.kind = "trust" /\ ~ui.security.suspended
    /\ \/ ui' = ClearSecurity(ui) /\ Respond("answered")
       \/ ui' = RequestCancellation(ClearSecurity(ui), FALSE) /\ NoResponse
    /\ UNCHANGED <<exec, small, resizes, stops>>

\* The confirmation of leaving; Esc shows what it covered.
QuitAnswered ==
    /\ Owner(ui) = "quit"
    /\ \/ ~small /\ Pressed(CloseAndQuit(CloseModal(ui)))
       \/ Pressed([ui EXCEPT !.modal = IF ui.under = <<>> THEN NoModal ELSE Head(ui.under),
                             !.under = IF ui.under = <<>> THEN <<>> ELSE Tail(ui.under)])

\* What starts an operation, in a form, in a dialog and from the browser.
MayBegin(u) == u.last < MaxOperations

SaveBegins(u) == {Begin(u, "save"), Begin(u, "remember")}

ChangeBegins(u) == {Begin(u, "save")}

ConnectBegins(u) == {Begin(u, "ssh")}

ReloadBegins(u) == {Begin(u, "reload")}

RecoveryBegins(u) == {Begin([u EXCEPT !.modal.recovery = "resolving"], "recover")}

RetryBegins(u) == {Begin(u, "rehost")}

\* A tunnel keeps its form, and shows its dialog of starting again.
StartTunnel(u) ==
    {OpenModal([Begin(u, "tunnel") EXCEPT !.startup = [NoStartup EXCEPT !.present = TRUE]],
               Modal("start", FALSE))}

\* saveForm: what stops a save before it begins, and the save.
SaveForm(u) ==
    IF u.conflict THEN {[u EXCEPT !.leave = FALSE]}
    ELSE {[u EXCEPT !.leave = FALSE],          \* a field is not valid
          u,                                   \* the name is taken
          [u EXCEPT !.conflict = TRUE]}        \* the destination has changed
         \cup SaveBegins(u)

SaveUnsaved(u) ==
    {IF v.operation.kind = "none" /\ v.conflict THEN [v EXCEPT !.modal.blocked = TRUE] ELSE v :
        v \in SaveForm([u EXCEPT !.leave = u.modal.quit])}

\* The dialog of an error: a reload, or the operation once more.
RetryError(u) ==
    LET v == CloseModal(u) IN ReloadBegins(v) \cup ChangeBegins(v) \cup ConnectBegins(v)

\* The dialog of a failed start, and the confirmation that it may hold.
RetryFailure(u) ==
    IF u.modal.recovery = "idle" THEN RecoveryBegins(u)
    ELSE IF u.modal.recovery = "confirming" THEN ConnectBegins(CloseModal(u))
    ELSE IF u.modal.recovery = "blocked" THEN ReloadBegins(u)
    ELSE {}

ModalBegins(u) ==
    IF u.modal.blocked THEN ReloadBegins(u)
    ELSE IF u.modal.kind = "confirm" THEN ChangeBegins(u)
    ELSE IF u.modal.kind = "connect" THEN ConnectBegins(u)
    ELSE IF u.modal.kind = "unsaved" THEN SaveUnsaved(u)
    ELSE IF u.modal.kind = "error" THEN RetryError(u)
    ELSE IF u.modal.kind = "start" THEN StartTunnel(CloseModal(u))
    ELSE IF u.modal.kind = "sshfailure" THEN RetryFailure(u)
    ELSE {}

DiscardChanges(u) ==
    IF u.modal.quit THEN RequestQuit(CloseForm(CloseModal(u))) ELSE CancelForm(CloseModal(u))

DiscardDraft(u) == QuitIf(u.modal.quit, CloseForm(CloseModal(u)))

ModalEnds(u) ==
    IF u.modal.blocked THEN {CloseForm(CloseModal(u))}
    ELSE IF u.modal.kind = "unsaved" THEN {CloseModal(u), DiscardChanges(u)}
    ELSE IF u.modal.kind = "discard" THEN {CloseModal(u), DiscardDraft(u)}
    ELSE IF u.modal.kind = "sshfailure" /\ u.modal.recovery = "confirming" THEN
           {[u EXCEPT !.modal.recovery = "idle"]}
    ELSE {CloseModal(u)}

ModalKey ==
    LET u == Repaired IN
    /\ ~small /\ Owner(u) = "modal"
    /\ \E v \in ModalEnds(u) \cup (IF MayBegin(u) THEN ModalBegins(u) ELSE {}) : Pressed(v)

\* The dialog of stopping a tunnel calls Stop in a command of its own.
StopConfirmed ==
    /\ Ready /\ ~small /\ Owner(ui) = "modal" /\ ui.modal.kind = "stop" /\ stops < 1
    /\ ui' = CloseModal(ui) /\ stops' = stops + 1
    /\ UNCHANGED <<cmds, exec, small, resizes, tunnel>>

FormKey ==
    /\ ~small /\ Owner(ui) = "form" /\ ~ui.conflict
    /\ \/ Pressed([ui EXCEPT !.dirty = TRUE])
       \/ Pressed(IF ui.dirty THEN OpenUnsaved(ui, FALSE) ELSE CancelForm(ui))
       \/ MayBegin(ui) /\ \E u \in ReloadBegins(ui) \cup SaveForm(ui) : Pressed(u)

FormConflictKey ==
    /\ ~small /\ Owner(ui) = "form" /\ ui.conflict
    /\ \/ Pressed(CloseForm(ui))
       \/ MayBegin(ui) /\ \E u \in ReloadBegins(ui) : Pressed(u)

TunnelFormKey ==
    /\ ~small /\ Owner(ui) = "tunnelform"
    /\ \/ Pressed([ui EXCEPT !.dirty = TRUE])
       \/ Pressed(IF ui.dirty THEN OpenModal(ui, Modal("discard", FALSE)) ELSE CloseForm(ui))
       \/ Pressed(OpenModal(ui, Modal("start", FALSE)))

BrowserKey ==
    /\ ~small /\ Owner(ui) = "browser"
    /\ \/ Pressed([ui EXCEPT !.screen = "form"])
       \/ \E kind \in {"confirm", "connect"} : Pressed(OpenModal(ui, Modal(kind, FALSE)))
       \/ MayBegin(ui) /\ \E u \in ReloadBegins(ui) \cup ChangeBegins(ui) : Pressed(u)

\* The panel of tunnels; here a tunnel is started once the other is not live.
TunnelsKey ==
    /\ ~small /\ Owner(ui) = "browser"
    /\ \/ ~Live /\ Pressed([ui EXCEPT !.screen = "tunnelform"])
       \/ Live /\ Pressed(OpenModal(ui, Modal("stop", FALSE)))
       \/ tunnel.state \in {"stopped", "failed"} /\ MayBegin(ui) /\ \E u \in RetryBegins(ui) : Pressed(u)

DismissTunnel ==
    /\ Ready /\ ~small /\ Owner(ui) = "browser" /\ tunnel.state \in {"stopped", "failed"}
    /\ tunnel' = [tunnel EXCEPT !.state = "none"]
    /\ UNCHANGED <<ui, cmds, exec, small, resizes, stops>>

---------------------------------------------------------------------------

Keys ==
    \/ Quit \/ CancelOperation \/ AnswerTrust \/ QuitAnswered \/ ModalKey \/ StopConfirmed
    \/ FormKey \/ FormConflictKey \/ TunnelFormKey \/ BrowserKey \/ TunnelsKey \/ DismissTunnel

Messages ==
    \/ \E c \in cmds :
          \/ \E result \in Outcomes(c) : Deliver(c, result)
          \/ SessionPrompts(c) \/ PasswordPrompts(c) \/ ShellBegins(c)
          \/ TunnelStarted(c) \/ TunnelRefused(c)
    \/ TunnelPrompts \/ ReadingHandled \/ Poll \/ Leave \/ CloseFails

Others ==
    \/ \E c \in cmds : SessionAsks(c) \/ SessionActivates(c) \/ ShellEnds(c) \/ TunnelRegistered(c)
    \/ TunnelAsks \/ (\E state \in {"active", "failed"} : TunnelEnds(state)) \/ StopRuns
    \/ ReadingSuspended \/ ReadingEnds \/ Shrink \/ Grow

Next == Keys \/ Messages \/ Others

Spec == Init /\ [][Next]_vars

\* The command of the operation comes back by itself, unless it waits for the user.
OperationReturns ==
    \E c \in cmds :
       /\ Accepts(c)
       /\ \/ c.stage # "waiting" \/ ui.operation.canceled
       /\ \/ \E result \in Outcomes(c) : Deliver(c, result)
          \/ TunnelStarted(c) \/ TunnelRefused(c)

\* An attempt ends, or waits for the user: it has asked and was shown.
AttemptEnds == tunnel.ask # "shown" /\ \E state \in {"active", "failed"} : TunnelEnds(state)

\* Commands end and their messages are handled, attempts end unless they wait
\* for an answer, calls of Stop and Close return; the user need not do anything.
FairSpec ==
    /\ Spec
    /\ WF_vars(OperationReturns) /\ WF_vars(ReadingHandled)
    /\ WF_vars(TunnelPrompts) /\ WF_vars(tunnel.state = "starting" /\ AttemptEnds)
    /\ WF_vars(StopRuns) /\ WF_vars(Poll) /\ WF_vars(Leave \/ CloseFails)

---------------------------------------------------------------------------
(* Properties.                                                              *)

\* The loop dereferences the operation and the form of a startup whenever it
\* follows one (finishTunnelStartup): both are there as long as the startup is.
StartupHasOwner ==
    ui.startup.present => ui.operation.kind = "tunnel" /\ ui.screen = "tunnelform"

\* A prompt takes every key (handleKey): it belongs to the operation that runs,
\* which can still use the answer, so that a prompt is never left behind.
PromptHasOperation ==
    /\ ui.security.kind = "password" => ui.operation.kind = "remember"
    /\ ui.security.kind \in {"trust", "secret"} => ui.operation.kind \in {"ssh", "tunnel"}

\* While a tunnel is live the program is not left before the user has confirmed
\* it (requestTunnelQuit), whichever way the wish to quit arrived.
TunnelsNeedConsent ==
    [][ui.leaving = "no" /\ ui'.leaving # "no" /\ Live => ui.modal.kind = "quit"]_vars

\* It is the user's turn: a prompt, a shell, the question of leaving; or the end.
UsersTurn ==
    \/ ui.security.kind # "none" \/ exec \in {"reading", "shell"}
    \/ ui.modal.kind = "quit" \/ ui.leaving = "left"

\* Every operation ends or reaches the user's turn, canceled or not: the
\* interface never stays at LOADING.  Not so a recovery, whose result is dropped
\* when the question of leaving covers its dialog (handleRecoveryResolved).
OperationsEnd ==
    ui.operation.kind \notin {"none", "recover"} ~>
        ui.operation.kind = "none" \/ UsersTurn

=============================================================================
