------------------------------- MODULE Session -------------------------------
(* One `orza connect` or `orza exec`, from the start of the process to its    *)
(* exit status: main.go, the use case (app/connect.go, app/command.go), the   *)
(* gate that asks about an unknown host, the SSH client with its              *)
(* authentication (sshclient) and the local terminal.  Signals arrive at any  *)
(* moment, exec has a deadline, the peer may stall or be lost, and another    *)
(* orza process accepts and forgets keys of the same host.                    *)
(*                                                                            *)
(* The foreground goroutine is the variable stage.  Beside it run the signal  *)
(* goroutine of main, the watcher that closes the socket when the context     *)
(* ends during the handshake, the watcher of the agent's socket, the          *)
(* goroutine in session.Wait and the one that forwards the window's size.     *)
EXTENDS HostTrust, FiniteSets

CONSTANTS
    MaxPassphraseAttempts,  \* 3 in the code
    MaxSignals              \* bound: signals that the user sends

ASSUME SessionAssumption == MaxPassphraseAttempts \in Nat \ {0} /\ MaxSignals \in Nat

VARIABLES
    request,   \* the command, and how the connection authenticates
    stage,     \* where the foreground goroutine is
    ctx,       \* the context of the attempt
    signals,   \* sent by the user, pending in the channel, received by main
    peer,      \* whether the server can still be heard
    link,      \* the resources of the attempt, in the order they are closed
    tty,       \* the local terminal
    gate,      \* the key that was presented, the row shown while the user decides,
               \* and on what grounds the key is trusted
    tries,     \* passphrases asked for
    waiter,    \* the goroutine in session.Wait and what it brought back
    resizer,   \* the goroutine that forwards the window's size
    why,       \* the failure that the runner returns
    exit       \* the exit status, by class

vars == <<trustVars, request, stage, ctx, signals, peer, link, tty, gate, tries,
          waiter, resizer, why, exit>>

Commands == {"connect", "exec"}

Requests ==
    [command: Commands, method: {"agent", "key"}, remembered: {FALSE}] \cup
    [command: Commands, method: {"password"}, remembered: BOOLEAN]

Parts == {"session", "transport", "raw", "auth"}

PartStates == {"none", "open", "closed"}

\* Inside the handshake: the watcher of the context may close the socket.
HandshakeStages ==
    {"kex", "verify", "decide", "persist", "reread", "auth", "signers",
     "passphrase", "offer", "password", "prompt", "prompting", "sent", "joined"}

\* The stages in which a secret of the user is read or used.
SecretStages ==
    {"auth", "signers", "passphrase", "offer", "password", "prompt", "prompting", "sent"}

Stages ==
    HandshakeStages \cup
    {"boot", "resolve", "recover", "capture", "size", "dial", "newsession", "pty",
     "raw", "shell", "exec", "active", "draining", "joining", "cleanup", "restore",
     "report", "closing", "stopping", "exited"}

Reasons ==
    {"canceled", "timeout", "notfound", "conflict", "security", "catalog", "terminal",
     "network", "trust", "credential", "denied", "negotiation", "session", "stream",
     "remote"}

Grounds == {"none", "files", "row", "once", "persist"}

Ended == {"zero", "status", "lost"}

ExitCodes ==
    {"success", "remote", "signal", "canceled", "notfound", "conflict", "security",
     "catalog", "transport"}

\* No failure and no exit status yet.
ASSUME NoneAssumption == None \notin Reasons \cup ExitCodes

---------------------------------------------------------------------------
(* Failures.                                                                *)

\* A context that has ended takes the place of every other reason.
Reason(reason) ==
    IF ctx = "canceled" THEN "canceled"
    ELSE IF ctx = "expired" THEN "timeout"
    ELSE reason

Fail(reason) == stage' = "cleanup" /\ why' = Reason(reason)

\* Inside the handshake a failure first comes back to openTransport.
HandshakeFails(reason) == stage' = "joined" /\ why' = reason

Goto(s) == stage' = s /\ UNCHANGED why

\* Classes of exit status (internal/cli/exit.go).
ExitCode(reason) ==
    IF reason \in {"canceled", "notfound", "conflict", "catalog", "remote"} THEN reason
    ELSE IF reason \in {"trust", "credential", "denied", "security"} THEN "security"
    ELSE "transport"

Heard == peer = "up" /\ link["raw"] = "open"

Closed(parts) ==
    [p \in Parts |-> IF p \in parts /\ link[p] = "open" THEN "closed" ELSE link[p]]

---------------------------------------------------------------------------

Init ==
    /\ TrustInit
    /\ request \in Requests
    /\ stage = "boot"
    /\ ctx = "live"
    /\ signals = [sent |-> 0, pending |-> FALSE, received |-> FALSE]
    /\ peer = "up"
    /\ link = [p \in Parts |-> "none"]
    /\ tty = [raw |-> FALSE, captured |-> FALSE, broken |-> FALSE]
    /\ gate = [key |-> None, row |-> None, verified |-> FALSE, grounds |-> "none"]
    /\ tries = 0
    /\ waiter = "off"
    /\ resizer = "off"
    /\ why = None
    /\ exit = None

---------------------------------------------------------------------------
(* Signals, the deadline of exec, the peer, the other process.              *)

\* The channel holds one signal: further ones are dropped.
UserSignals ==
    /\ signals.sent < MaxSignals /\ stage # "exited"
    /\ signals' = [signals EXCEPT !.sent = @ + 1, !.pending = TRUE]
    /\ UNCHANGED <<trustVars, request, stage, ctx, peer, link, tty, gate, tries,
                   waiter, resizer, why, exit>>

\* The goroutine of ownRootSignals takes one signal, and only one.
SignalArrives ==
    /\ signals.pending /\ ~signals.received /\ stage # "exited"
    /\ signals' = [signals EXCEPT !.pending = FALSE, !.received = TRUE]
    /\ ctx' = IF ctx = "live" THEN "canceled" ELSE ctx
    /\ UNCHANGED <<trustVars, request, stage, peer, link, tty, gate, tries, waiter,
                   resizer, why, exit>>

DeadlineExpires ==
    /\ request.command = "exec" /\ ctx = "live"
    /\ stage \notin {"boot", "report", "closing", "stopping", "exited"}
    /\ ctx' = "expired"
    /\ UNCHANGED <<trustVars, request, stage, signals, peer, link, tty, gate, tries,
                   waiter, resizer, why, exit>>

PeerIsLost ==
    /\ peer = "up" /\ link["raw"] = "open"
    /\ peer' = "lost"
    /\ UNCHANGED <<trustVars, request, stage, ctx, signals, link, tty, gate, tries,
                   waiter, resizer, why, exit>>

\* Bound: from the moment the table has been read to the moment it is read last.
\* What the other process did before is one of the initial tables.
OtherProcess ==
    /\ stage \in {"decide", "persist", "reread"}
    /\ OtherStep
    /\ UNCHANGED <<request, stage, ctx, signals, peer, link, tty, gate, tries,
                   waiter, resizer, why, exit>>

---------------------------------------------------------------------------
(* Up to the connection of the socket.                                      *)

Bootstrap ==
    /\ stage = "boot"
    /\ \/ ctx = "live" /\ stage' = "resolve" /\ UNCHANGED exit
       \/ stage' = "stopping" /\ exit' \in {"catalog", "security"}
    /\ UNCHANGED <<trustVars, request, ctx, signals, peer, link, tty, gate, tries,
                   waiter, resizer, why>>

\* connect resolves the connection twice: a changed revision is a conflict.
Resolve ==
    /\ stage = "resolve"
    /\ \/ ctx = "live" /\ Goto("recover")
       \/ \E reason \in {"notfound", "catalog"} \cup
                (IF request.command = "connect" THEN {"conflict", "security"} ELSE {}) :
             Fail(reason)
    /\ UNCHANGED <<trustVars, request, ctx, signals, peer, link, tty, gate, tries,
                   waiter, resizer, exit>>

RecoverCredentials ==
    /\ stage = "recover"
    /\ \/ ctx = "live" /\ Goto(IF request.command = "connect" THEN "capture" ELSE "dial")
       \/ Fail("credential")
    /\ UNCHANGED <<trustVars, request, ctx, signals, peer, link, tty, gate, tries,
                   waiter, resizer, exit>>

Capture ==
    /\ stage = "capture"
    /\ \/ ctx = "live" /\ Goto("size") /\ tty' = [tty EXCEPT !.captured = TRUE]
       \/ Fail("terminal") /\ UNCHANGED tty
    /\ UNCHANGED <<trustVars, request, ctx, signals, peer, link, gate, tries, waiter,
                   resizer, exit>>

Size ==
    /\ stage = "size"
    /\ \/ ctx = "live" /\ Goto("dial")
       \/ Fail("terminal")
    /\ UNCHANGED <<trustVars, request, ctx, signals, peer, link, tty, gate, tries,
                   waiter, resizer, exit>>

\* A socket that connects while the context ends is closed at once.
Dial ==
    /\ stage = "dial"
    /\ \/ /\ link' = [link EXCEPT !["raw"] = IF ctx = "live" THEN "open" ELSE "closed"]
          /\ IF ctx = "live" THEN Goto("kex") ELSE Fail("network")
       \/ Fail("network") /\ UNCHANGED link
    /\ UNCHANGED <<trustVars, request, ctx, signals, peer, tty, gate, tries, waiter,
                   resizer, exit>>

---------------------------------------------------------------------------
(* The handshake, and the gate that is called with the presented key.       *)

ContextWatcher ==
    /\ stage \in HandshakeStages /\ ctx # "live" /\ link["raw"] = "open"
    /\ link' = Closed({"raw"})
    /\ UNCHANGED <<trustVars, request, stage, ctx, signals, peer, tty, gate, tries,
                   waiter, resizer, why, exit>>

PresentKey ==
    /\ stage = "kex" /\ Heard
    /\ \/ \E key \in Keys : gate' = [gate EXCEPT !.key = key] /\ Goto("verify")
       \/ HandshakeFails("negotiation") /\ UNCHANGED gate
    /\ UNCHANGED <<trustVars, request, ctx, signals, peer, link, tty, tries, waiter,
                   resizer, exit>>

\* The protocol fails while it waits for the server.
HandshakeBreaks ==
    /\ stage \in {"kex", "sent"} /\ ~Heard
    /\ HandshakeFails("negotiation")
    /\ UNCHANGED <<trustVars, request, ctx, signals, peer, link, tty, gate, tries,
                   waiter, resizer, exit>>

Trusting(grounds) ==
    gate' = [key |-> gate.key, row |-> None, verified |-> TRUE, grounds |-> grounds]

Verify ==
    /\ stage = "verify"
    /\ LET checked == CheckHost(gate.key)
           asks == Decidable(checked) /\ request.command = "connect"
       IN \/ /\ ctx = "live" /\ checked.status = "known"
             /\ Trusting(IF Standard(gate.key) = "known" THEN "files" ELSE "row")
             /\ Goto("auth")
          \/ /\ ctx = "live" /\ asks
             /\ gate' = [gate EXCEPT !.row = checked.row, !.verified = FALSE]
             /\ Goto("decide")
          \/ \* refused, nobody to ask, or the catalog could not be read
             HandshakeFails("trust") /\ gate' = [gate EXCEPT !.verified = FALSE]
    /\ UNCHANGED <<trustVars, request, ctx, signals, peer, link, tty, tries, waiter,
                   resizer, exit>>

\* The command line reads a whole line: the end of the context does not stop it.
Decide ==
    /\ stage = "decide"
    /\ \/ HandshakeFails("trust") /\ UNCHANGED gate
       \/ Goto("auth") /\ Trusting("once")
       \/ Goto("persist") /\ UNCHANGED gate
    /\ UNCHANGED <<trustVars, request, ctx, signals, peer, link, tty, tries, waiter,
                   resizer, exit>>

Persist ==
    /\ stage = "persist"
    /\ \/ /\ ctx = "live"
          /\ TrustHost(gate.key, RevisionOf(gate.row))
          /\ Goto("reread")
       \/ HandshakeFails("trust") /\ UNCHANGED <<trusted, inserted>>
    /\ UNCHANGED <<files, other, request, ctx, signals, peer, link, tty, gate, tries,
                   waiter, resizer, exit>>

\* The adapter reads the row again, in a transaction of its own.
Reread ==
    /\ stage = "reread"
    /\ \/ /\ ctx = "live" /\ trusted # None
          /\ Goto("auth") /\ Trusting("persist")
       \/ HandshakeFails("trust") /\ UNCHANGED gate
    /\ UNCHANGED <<trustVars, request, ctx, signals, peer, link, tty, tries, waiter,
                   resizer, exit>>

---------------------------------------------------------------------------
(* Authentication, with the one method that the connection names.           *)

BuildAuthMethod ==
    /\ stage = "auth"
    /\ \/ /\ ctx = "live" /\ request.method = "agent"
          /\ Goto("signers") /\ link' = [link EXCEPT !["auth"] = "open"]
       \/ ctx = "live" /\ request.method # "agent" /\ Goto("offer") /\ UNCHANGED link
       \/ ctx = "live" /\ request.method = "key" /\ Goto("passphrase") /\ UNCHANGED link
       \/ /\ ctx # "live" \/ request.method # "password"
          /\ HandshakeFails("credential") /\ UNCHANGED link
    /\ UNCHANGED <<trustVars, request, ctx, signals, peer, tty, gate, tries, waiter,
                   resizer, exit>>

AgentWatcher ==
    /\ ctx # "live" /\ link["auth"] = "open"
    /\ link' = Closed({"auth"})
    /\ UNCHANGED <<trustVars, request, stage, ctx, signals, peer, tty, gate, tries,
                   waiter, resizer, why, exit>>

\* The agent lists its keys; an error or an empty list closes its socket.
Signers ==
    /\ stage = "signers"
    /\ \/ link["auth"] = "open" /\ Goto("offer") /\ UNCHANGED link
       \/ HandshakeFails("credential") /\ link' = Closed({"auth"})
    /\ UNCHANGED <<trustVars, request, ctx, signals, peer, tty, gate, tries, waiter,
                   resizer, exit>>

\* The method is offered: the agent signs, or fails to; the password method
\* calls back for the password; a key file signs by itself.
Offer ==
    /\ stage = "offer"
    /\ \/ request.method = "password" /\ Goto("password")
       \/ request.method # "password" /\ Goto("sent")
       \/ request.method = "agent" /\ HandshakeFails("credential")
    /\ UNCHANGED <<trustVars, request, ctx, signals, peer, link, tty, gate, tries,
                   waiter, resizer, exit>>

\* exec has nobody to ask.
AskUser ==
    IF request.command = "connect" THEN Goto("prompt") ELSE HandshakeFails("credential")

\* The use case's secret callback for the password.  A password that the store
\* does not have, or a store that cannot be reached, turns into a question.
Password ==
    /\ stage = "password"
    /\ IF ~gate.verified \/ ctx # "live" THEN HandshakeFails("credential")
       ELSE \/ request.remembered /\ Goto("sent")
            \/ request.remembered /\ HandshakeFails("credential")
            \/ AskUser
    /\ UNCHANGED <<trustVars, request, ctx, signals, peer, link, tty, gate, tries,
                   waiter, resizer, exit>>

Passphrase ==
    /\ stage = "passphrase"
    /\ IF ctx # "live" \/ ~gate.verified THEN HandshakeFails("credential") ELSE AskUser
    /\ UNCHANGED <<trustVars, request, ctx, signals, peer, link, tty, gate, tries,
                   waiter, resizer, exit>>

\* ReadSecret: the terminal is raw while the editor runs.
PromptOpens ==
    /\ stage = "prompt"
    /\ \/ ctx = "live" /\ Goto("prompting") /\ tty' = [tty EXCEPT !.raw = TRUE]
       \/ HandshakeFails("credential") /\ UNCHANGED tty
    /\ tries' = IF request.method = "key" THEN tries + 1 ELSE tries
    /\ UNCHANGED <<trustVars, request, ctx, signals, peer, link, gate, waiter, resizer,
                   exit>>

\* Mutant: the attempts are compared after they were counted.
SubmittedTooOften ==
    IF request.method = "password" THEN Goto("sent")
    ELSE \/ Goto("offer")
         \/ IF tries <= MaxPassphraseAttempts THEN Goto("passphrase")
            ELSE HandshakeFails("credential")

\* What follows a submitted secret.
Submitted ==
    IF request.method = "password" THEN Goto("sent")
    ELSE \/ Goto("offer")
         \/ IF tries < MaxPassphraseAttempts THEN Goto("passphrase")
            ELSE HandshakeFails("credential")

\* The editor ends, and the terminal is restored before the secret is used: a
\* secret behind a terminal that could not be restored is thrown away.
PromptEnds ==
    /\ stage = "prompting"
    /\ \/ tty' = [tty EXCEPT !.raw = FALSE] /\ Submitted
       \/ /\ tty' = [tty EXCEPT !.raw = FALSE]
          /\ \E reason \in {"canceled", "credential"} : HandshakeFails(reason)
       \/ tty' = [tty EXCEPT !.broken = TRUE] /\ HandshakeFails("credential")
    /\ UNCHANGED <<trustVars, request, ctx, signals, peer, link, gate, tries, waiter,
                   resizer, exit>>

\* The context ends the editor.
PromptCanceled ==
    /\ stage = "prompting" /\ ctx # "live"
    /\ tty' = [tty EXCEPT !.raw = FALSE]
    /\ HandshakeFails("canceled")
    /\ UNCHANGED <<trustVars, request, ctx, signals, peer, link, gate, tries, waiter,
                   resizer, exit>>

\* The server accepts, or refuses the only method there is.
ServerAnswers ==
    /\ stage = "sent" /\ Heard
    /\ \/ Goto("joined") /\ link' = [link EXCEPT !["transport"] = "open"]
       \/ /\ \E reason \in {"denied", "negotiation"} : HandshakeFails(reason)
          /\ UNCHANGED link
    /\ UNCHANGED <<trustVars, request, ctx, signals, peer, tty, gate, tries, waiter,
                   resizer, exit>>

\* The end of openTransport, the watcher joined.
OpenTransport ==
    /\ stage = "joined"
    /\ IF ctx # "live" \/ why # None
       THEN /\ Fail(why)
            /\ link' = IF ctx # "live" THEN Closed({"raw"}) ELSE link
       ELSE Goto("newsession") /\ UNCHANGED link
    /\ UNCHANGED <<trustVars, request, ctx, signals, peer, tty, gate, tries, waiter,
                   resizer, exit>>

---------------------------------------------------------------------------
(* The session.  Its requests wait for the server: nothing watches the      *)
(* context any more until the session is active.                            *)

NewSession ==
    /\ stage = "newsession" /\ Heard
    /\ \/ /\ Goto(IF request.command = "connect" THEN "pty" ELSE "exec")
          /\ link' = [link EXCEPT !["session"] = "open"]
       \/ Fail("session") /\ UNCHANGED link
    /\ UNCHANGED <<trustVars, request, ctx, signals, peer, tty, gate, tries, waiter,
                   resizer, exit>>

RequestPty ==
    /\ stage = "pty" /\ Heard
    /\ Goto("raw") \/ Fail("session")
    /\ UNCHANGED <<trustVars, request, ctx, signals, peer, link, tty, gate, tries,
                   waiter, resizer, exit>>

RequestBreaks ==
    /\ stage \in {"newsession", "pty", "shell", "exec"} /\ peer = "lost"
    /\ Fail("session")
    /\ UNCHANGED <<trustVars, request, ctx, signals, peer, link, tty, gate, tries,
                   waiter, resizer, exit>>

MakeRaw ==
    /\ stage = "raw"
    /\ \/ ctx = "live" /\ Goto("shell") /\ tty' = [tty EXCEPT !.raw = TRUE]
       \/ Fail("terminal") /\ UNCHANGED tty
    /\ UNCHANGED <<trustVars, request, ctx, signals, peer, link, gate, tries, waiter,
                   resizer, exit>>

Start ==
    /\ stage \in {"shell", "exec"} /\ Heard
    /\ \/ /\ Goto("active") /\ waiter' = "waiting"
          /\ resizer' = IF stage = "shell" THEN "running" ELSE "off"
       \/ Fail("session") /\ UNCHANGED <<waiter, resizer>>
    /\ UNCHANGED <<trustVars, request, ctx, signals, peer, link, tty, gate, tries, exit>>

\* session.Wait returns what the server says of the command, or that the channel
\* ended without a word.
RemoteEnds ==
    /\ waiter = "waiting" /\ Heard
    /\ waiter' \in {"zero", "status"}
    /\ UNCHANGED <<trustVars, request, stage, ctx, signals, peer, link, tty, gate,
                   tries, resizer, why, exit>>

ChannelEnds ==
    /\ waiter = "waiting" /\ peer = "lost"
    /\ waiter' = "lost"
    /\ UNCHANGED <<trustVars, request, stage, ctx, signals, peer, link, tty, gate,
                   tries, resizer, why, exit>>

\* The server answers the close of the session.
ServerCloses ==
    /\ waiter = "waiting" /\ Heard /\ link["session"] = "closed"
    /\ waiter' = "lost"
    /\ UNCHANGED <<trustVars, request, stage, ctx, signals, peer, link, tty, gate,
                   tries, resizer, why, exit>>

\* A window change fails once the channel is gone; the forwarder ends without an
\* error when its context does.
ResizerEnds ==
    /\ resizer = "running"
    /\ \/ (waiter \in Ended \/ peer = "lost") /\ resizer' = "failed"
       \/ (ctx # "live" \/ stage = "joining") /\ resizer' = "ended"
    /\ UNCHANGED <<trustVars, request, stage, ctx, signals, peer, link, tty, gate,
                   tries, waiter, why, exit>>

\* The select of runSession and runCommand: whichever case is ready.
SessionEnded ==
    /\ stage = "active" /\ waiter \in Ended
    /\ Goto("joining")
    /\ UNCHANGED <<trustVars, request, ctx, signals, peer, link, tty, gate, tries,
                   waiter, resizer, exit>>

ResizeFailed ==
    /\ stage = "active" /\ resizer = "failed"
    /\ stage' = "draining" /\ why' = "stream"
    /\ link' = Closed({"session"})
    /\ UNCHANGED <<trustVars, request, ctx, signals, peer, tty, gate, tries, waiter,
                   resizer, exit>>

\* Mutant: the end of the context is noted, the session left to the server.
ContextNoted ==
    /\ stage = "active" /\ ctx # "live"
    /\ Goto("draining")
    /\ UNCHANGED <<trustVars, request, ctx, signals, peer, link, tty, gate, tries,
                   waiter, resizer, exit>>

ContextEnded ==
    /\ stage = "active" /\ ctx # "live"
    /\ Goto("draining")
    /\ link' = Closed({"session"})
    /\ UNCHANGED <<trustVars, request, ctx, signals, peer, tty, gate, tries, waiter,
                   resizer, exit>>

\* Closing the session only asks the server: Wait returns when it has answered.
Drained ==
    /\ stage = "draining" /\ waiter \in Ended
    /\ IF why = None THEN Goto("joining") ELSE Fail("stream")
    /\ UNCHANGED <<trustVars, request, ctx, signals, peer, link, tty, gate, tries,
                   waiter, resizer, exit>>

JoinResizer ==
    /\ stage = "joining" /\ resizer # "running"
    /\ stage' = "cleanup"
    /\ why' = IF ctx # "live" \/ waiter = "lost" THEN Reason("stream")
              ELSE IF waiter = "status" THEN "remote"
              ELSE None
    /\ UNCHANGED <<trustVars, request, ctx, signals, peer, link, tty, gate, tries,
                   waiter, resizer, exit>>

---------------------------------------------------------------------------
(* The way out.                                                             *)

\* Mutant: nobody closes the agent's socket.
CloseNetwork ==
    /\ stage = "cleanup"
    /\ link' = Closed(Parts \ {"auth"})
    /\ stage' = IF tty.captured THEN "restore" ELSE "report"
    /\ \/ why' = why
       \/ why = None /\ why' = "stream"
    /\ UNCHANGED <<trustVars, request, ctx, signals, peer, tty, gate, tries, waiter,
                   resizer, exit>>

\* Mutant: the socket is left to the transport, which may not exist yet.
CloseProtocol ==
    /\ stage = "cleanup"
    /\ link' = Closed(Parts \ {"raw"})
    /\ stage' = IF tty.captured THEN "restore" ELSE "report"
    /\ \/ why' = why
       \/ why = None /\ why' = "stream"
    /\ UNCHANGED <<trustVars, request, ctx, signals, peer, tty, gate, tries, waiter,
                   resizer, exit>>

\* A resource that does not close cleanly fails the attempt.
CloseResources ==
    /\ stage = "cleanup"
    /\ link' = Closed(Parts)
    /\ stage' = IF tty.captured THEN "restore" ELSE "report"
    /\ \/ why' = why
       \/ why = None /\ why' = "stream"
    /\ UNCHANGED <<trustVars, request, ctx, signals, peer, tty, gate, tries, waiter,
                   resizer, exit>>

\* Mutant: a terminal that cannot be restored is not reported.
RestoreSilently ==
    /\ stage = "restore"
    /\ stage' = "report"
    /\ \/ tty' = [tty EXCEPT !.raw = FALSE, !.broken = FALSE]
       \/ tty' = [tty EXCEPT !.broken = TRUE]
    /\ UNCHANGED <<trustVars, request, ctx, signals, peer, link, gate, tries, waiter,
                   resizer, why, exit>>

\* The captured state, on a context that cannot be canceled.
Restore ==
    /\ stage = "restore"
    /\ stage' = "report"
    /\ \/ tty' = [tty EXCEPT !.raw = FALSE, !.broken = FALSE] /\ why' = why
       \/ tty' = [tty EXCEPT !.broken = TRUE] /\ why' = IF why = None THEN "terminal" ELSE why
    /\ UNCHANGED <<trustVars, request, ctx, signals, peer, link, gate, tries, waiter,
                   resizer, exit>>

\* The remote status, when the session reported one, hides every later failure.
\* A context that ended just now fails an attempt that had succeeded.
Report ==
    /\ stage = "report"
    /\ stage' = "closing"
    /\ exit' = IF why # None THEN ExitCode(why)
               ELSE IF request.command = "connect" /\ ctx # "live" THEN "canceled"
               ELSE "success"
    /\ UNCHANGED <<trustVars, request, ctx, signals, peer, link, tty, gate, tries,
                   waiter, resizer, why>>

CloseDependencies ==
    /\ stage = "closing"
    /\ stage' = "stopping"
    /\ exit' \in {exit} \cup (IF exit = "success" THEN {"catalog"} ELSE {})
    /\ UNCHANGED <<trustVars, request, ctx, signals, peer, link, tty, gate, tries,
                   waiter, resizer, why>>

\* Stop cancels the context and joins the goroutine, whose select may take the
\* canceled context although a signal waits in the channel.
StopSignals ==
    /\ stage = "stopping"
    /\ stage' = "exited"
    /\ \E took \in BOOLEAN :
          /\ took => signals.pending
          /\ signals' = [signals EXCEPT !.received = @ \/ took]
    /\ exit' = IF signals'.received THEN "signal" ELSE exit
    /\ UNCHANGED <<trustVars, request, ctx, peer, link, tty, gate, tries, waiter,
                   resizer, why>>

Done ==
    /\ stage = "exited"
    /\ UNCHANGED vars

---------------------------------------------------------------------------

Environment == UserSignals \/ DeadlineExpires \/ PeerIsLost \/ OtherProcess

\* What the user, the agent and the server answer.
Answers ==
    Dial \/ PresentKey \/ Decide \/ Signers \/ PromptEnds \/ ServerAnswers
        \/ NewSession \/ RequestPty \/ Start \/ ServerCloses

\* What the program does of itself.
Program ==
    SignalArrives \/ ContextWatcher \/ AgentWatcher \/ Bootstrap \/ Resolve
        \/ RecoverCredentials \/ ChannelEnds \/ Capture \/ Size \/ HandshakeBreaks \/ Verify
        \/ Persist \/ Reread \/ BuildAuthMethod \/ Offer \/ Password \/ Passphrase
        \/ PromptOpens \/ PromptCanceled \/ OpenTransport \/ RequestBreaks \/ MakeRaw
        \/ ResizerEnds \/ SessionEnded \/ ResizeFailed \/ ContextEnded \/ Drained
        \/ JoinResizer \/ CloseResources \/ Restore \/ Report \/ CloseDependencies
        \/ StopSignals

Next == Environment \/ Answers \/ Program \/ RemoteEnds \/ Done

Spec == Init /\ [][Next]_vars

\* The program runs, and what waits on the context ends with it.  Nothing is
\* asked of the user, the agent or the server.
FairSpec ==
    /\ Spec
    /\ WF_vars(Program)
    /\ WF_vars(ctx # "live" /\ (Dial \/ Signers))

\* The user, the agent and the server answer what they are asked; the command
\* on the server need not end.
AnsweredSpec == FairSpec /\ WF_vars(Answers)

---------------------------------------------------------------------------
(* Safety.                                                                  *)

TypeOK ==
    /\ TrustTypeOK
    /\ request \in Requests
    /\ stage \in Stages
    /\ ctx \in {"live", "canceled", "expired"}
    /\ signals \in [sent: 0 .. MaxSignals, pending: BOOLEAN, received: BOOLEAN]
    /\ peer \in {"up", "lost"}
    /\ link \in [Parts -> PartStates]
    /\ tty \in [raw: BOOLEAN, captured: BOOLEAN, broken: BOOLEAN]
    /\ gate \in [key: Keys \cup {None}, row: TrustedHost \cup {None},
                 verified: BOOLEAN, grounds: Grounds]
    /\ tries \in 0 .. MaxPassphraseAttempts
    /\ waiter \in {"off", "waiting"} \cup Ended
    /\ resizer \in {"off", "running", "failed", "ended"}
    /\ why \in Reasons \cup {None}
    /\ exit \in ExitCodes \cup {None}

\* No agent, password or passphrase is touched before the key that this server
\* presented is trusted, on grounds that the command may use: exec has no user to
\* accept a key (connect.go:95, command.go:64).
SecretsFollowTrust ==
    stage \in SecretStages =>
        /\ gate.verified /\ gate.key # None
        /\ gate.key \notin files.revoked
        /\ gate.grounds = "files" => gate.key \in files.listed
        /\ gate.grounds \in {"once", "persist"} => request.command = "connect"

\* Whatever ended the attempt, the process leaves no socket, session, agent or
\* goroutine that Orza itself started for it, and a raw terminal only when the
\* terminal refused to be restored (client.go:146, session.go:278).  The goroutine
\* in which ssh.Session copies the input is not one of them.
NothingLeftBehind ==
    stage = "exited" =>
        /\ \A p \in Parts : link[p] # "open"
        /\ waiter # "waiting" /\ resizer # "running"
        /\ tty.raw => tty.broken

\* The exit status tells what happened: success only for a command that ended
\* with zero on the server, a remote status only when the server sent one, the
\* status of a signal exactly when main took one (main.go:107, connect.go:65).
ExitIsTrue ==
    stage = "exited" =>
        /\ exit = "success" => waiter = "zero" /\ ~tty.broken
        /\ exit = "remote" => waiter = "status"
        /\ (exit = "signal") = signals.received
        /\ exit = "canceled" => request.command = "connect"

\* The terminal of a session becomes usable only after the network is gone: no
\* remote output reaches a restored terminal (client.go:132).
TerminalAfterNetwork ==
    [][tty.raw /\ ~tty'.raw /\ stage # "prompting" =>
          \A p \in Parts : link[p] # "open"]_vars

\* Only keys that known_hosts neither lists nor revokes reach the table, from
\* whichever process (policy.go:217, connect.go:217).
StoredKeysWereUndecided ==
    [][trusted' # trusted /\ trusted' # None =>
          trusted'.key \notin files.listed \cup files.revoked]_vars

---------------------------------------------------------------------------
(* Liveness.                                                                *)

\* A signal or the deadline ends the attempt, as long as the user, the agent and
\* the server answer (client.go:263, session.go:170, auth.go:187).
AttemptEnds == ctx # "live" ~> stage = "exited"

\* The deadline ends a command, whatever the server does.
DeadlineEndsCommand == ctx = "expired" ~> stage = "exited"
=============================================================================
