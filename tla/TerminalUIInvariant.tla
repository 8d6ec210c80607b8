------------------------- MODULE TerminalUIInvariant -------------------------
(* What holds in every state of TerminalUI and is kept by every step.  The    *)
(* first parts speak of a Model alone, so that a handler is shown to keep     *)
(* them for every Model that it may be given; the others relate the Model to  *)
(* the commands, to the foreground and to the tunnel.                         *)
EXTENDS TerminalUI

\* An operation that runs has the number it was given; only the reload that
\* follows a change is begun without asking whether the bound allows it, and
\* begun with the wish to quit that the change left.
OperationFits(u) ==
    /\ u.operation.kind = "none" => u.operation = NoOperation
    /\ u.operation.kind # "none" => u.operation.id \in 1..u.last
    /\ u.last \in 1..(MaxOperations + 1)
    /\ u.operation.kind \notin {"none", "reload"} =>
          u.last <= MaxOperations /\ (u.operation.quit => u.operation.canceled)

\* A startup has its operation and its form.
StartupFits(u) ==
    /\ u.startup.present => u.operation.kind = "tunnel" /\ u.screen = "tunnelform"
    /\ ~u.startup.present => u.startup = NoStartup

\* A prompt belongs to the operation that asked.
PromptFits(u) ==
    /\ u.security.kind = "password" => u.operation.kind = "remember"
    /\ u.security.kind \in {"trust", "secret"} => u.operation.kind \in {"ssh", "tunnel"}

\* Only the question of leaving covers a dialog.  It is asked again over itself
\* when an operation ends that was to quit, so once at most; and the dialog of
\* starting a tunnel, covered or not, has the form of the tunnel under it.
DialogFits(u) ==
    /\ u.modal.kind # "quit" => u.under = <<>>
    /\ Len(u.under) <= IF u.operation.kind = "none" THEN 2 ELSE 1
    /\ Len(u.under) = 2 => u.under[1].kind = "quit"
    /\ u.modal.kind = "start" => u.screen = "tunnelform"
    /\ \A i \in 1..Len(u.under) : u.under[i].kind = "start" => u.screen = "tunnelform"

ModelFits(u) ==
    /\ u \in Models
    /\ OperationFits(u) /\ StartupFits(u) /\ PromptFits(u) /\ DialogFits(u)

\* Commands are numbered as their operations are, one for each.
CommandsFit ==
    \A c \in cmds :
        /\ c.id <= ui.last
        /\ \A d \in cmds : d.id = c.id => d = c

\* The command of a tunnel is that of the operation that runs, until the
\* program is left; it has come back once the startup knows its attempt.  The
\* attempts are counted as their operations are.
TunnelFits ==
    /\ \A c \in cmds :
          c.kind = "tunnel" =>
             /\ Accepts(c) \/ ui.leaving = "left"
             /\ \A d \in cmds : d.kind = "tunnel" => d = c
             /\ c.stage = "running" => tunnel.attempt + 2 <= c.id
             /\ ui.startup.present => ui.startup.attempt = 0
    /\ tunnel.attempt < ui.last

\* While a password is asked for, its command waits; while a tunnel asks, its
\* command has come to be registered: neither can fail under its prompt.
WaitersFit ==
    \A c \in cmds :
        /\ ui.security.kind = "password" /\ Accepts(c) => c.stage = "waiting"
        /\ ui.security.kind # "none" /\ ui.operation.kind = "tunnel" /\ c.kind = "tunnel" =>
              c.stage = "registered"

\* A shell holds the loop.  A session that has come to its shell has no prompt,
\* and a wish to quit that came afterwards came while no tunnel was live.
ShellFits ==
    \A c \in cmds :
        /\ c.stage = "activating" => c.kind = "ssh"
        /\ c.stage = "shell" => exec = "shell" /\ Accepts(c)
        /\ c.stage \in {"shell", "ended"} /\ Accepts(c) =>
              ui.security.kind = "none" /\ (ui.operation.quit => c.stage = "ended")
        /\ c.stage = "ended" /\ Accepts(c) /\ ui.operation.quit /\ ui.leaving # "left" => ~Live

\* A startup orders its stop once.
StopsFit ==
    /\ stops <= MaxOperations
    /\ stops + (IF ui.startup.present /\ ~ui.startup.stopping THEN 1 ELSE 0) <= ui.last

IInv ==
    /\ TypeOK /\ ModelFits(ui)
    /\ CommandsFit /\ TunnelFits /\ WaitersFit /\ ShellFits /\ StopsFit

=============================================================================
