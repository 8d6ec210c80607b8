-------------------------- MODULE SessionInvariant --------------------------
(* The inductive invariant of Session.                                        *)
EXTENDS Session

\* Before the gate has written.
EarlyStages ==
    {"boot", "resolve", "recover", "capture", "size", "dial", "kex", "verify", "decide",
     "persist"}

\* From the question to the user on, until the key is in the table.
DecidingStages == {"decide", "persist", "reread"}

\* The program is on its way out, with its network gone.
LateStages == {"restore", "report", "closing", "stopping", "exited"}

\* Each id of the table is used once: one is kept for the row that this attempt inserts.
RowsFit == stage \in EarlyStages => inserted <= MaxRows

\* The user of the other process only sees a key that known_hosts leaves open.
OtherFits ==
    other.doing = "deciding" =>
        /\ other.key \in Keys
        /\ other.key \notin files.listed \cup files.revoked

\* The key that the gate looks at stays the one that the server presented.
GateFits ==
    /\ stage \in {"verify"} \cup DecidingStages \cup SecretStages => gate.key \in Keys
    /\ stage \in DecidingStages =>
          /\ request.command = "connect"
          /\ gate.key \notin files.listed \cup files.revoked
    /\ stage \in SecretStages =>
          /\ gate.verified
          /\ gate.key \notin files.revoked
          /\ gate.grounds = "files" => gate.key \in files.listed
          /\ gate.grounds \in {"once", "persist"} => request.command = "connect"

\* The user is asked again only while an attempt is left; a password is asked for once.
TriesFit ==
    /\ stage \in EarlyStages \cup {"reread", "auth"} => tries = 0
    /\ stage \in {"passphrase", "prompt"} /\ request.method = "key" =>
          tries < MaxPassphraseAttempts
    /\ stage = "password" => request.method = "password"

\* Nothing is open before the dial and after the clean-up.
LinkFits == stage \in {"boot"} \cup LateStages => \A p \in Parts : link[p] # "open"

\* A failure of the foreground leads out, and says who ended the context.
WhyFits ==
    /\ why # None => stage \in {"joined", "draining", "cleanup"} \cup LateStages
    /\ why = "remote" => waiter = "status"
    /\ why = "canceled" => request.command = "connect" \/ signals.received
    /\ stage \in {"cleanup", "restore", "report"} /\ why = None => waiter = "zero"
    /\ ctx = "canceled" => signals.received

\* Wait runs beside an active session only, and the forwarder of the window's size is
\* joined before the clean-up.
GoroutinesFit ==
    /\ waiter = "waiting" => stage \in {"active", "draining"}
    /\ stage = "joining" => waiter \in Ended
    /\ resizer = "running" => stage \in {"active", "draining", "joining"}
    /\ stage = "draining" /\ why # None => resizer = "failed"

\* The terminal is raw for a prompt or for the session, and then only when it is
\* captured: what leaves it raw goes through the restoration.
TerminalFits ==
    /\ stage \in {"prompt", "prompting", "pty", "raw", "shell"} => request.command = "connect"
    /\ request.command = "connect"
          /\ stage \in HandshakeStages \cup {"size", "dial", "newsession", "pty", "raw", "shell"} =>
          tty.captured
    /\ tty.raw => tty.captured
    /\ tty.raw => \/ tty.broken
                  \/ stage \in {"prompting", "shell", "active", "draining", "joining",
                                "cleanup", "restore"}
    /\ tty.broken => why # None

\* The exit status is that of the failure until main looks at the signals.
ExitFits ==
    /\ exit # None <=> stage \in {"closing", "stopping", "exited"}
    /\ stage # "exited" => exit # "signal"
    /\ exit = "success" => waiter = "zero" /\ ~tty.broken
    /\ exit = "remote" => waiter = "status"
    /\ exit = "canceled" => request.command = "connect" \/ signals.received
    /\ stage = "exited" => (exit = "signal") = signals.received

IInv ==
    /\ TypeOK
    /\ RowsFit /\ OtherFits /\ GateFits /\ TriesFit /\ LinkFits
    /\ WhyFits /\ GoroutinesFit /\ TerminalFits /\ ExitFits
=============================================================================
