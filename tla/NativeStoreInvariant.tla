------------------------- MODULE NativeStoreInvariant -------------------------
(* The inductive invariant of NativeStore.                                    *)
EXTENDS NativeStore

\* What a call may be doing, by its operation and the system.
StepFits(c) ==
    /\ (call[c].pc = "idle") <=> (call[c].op = "none")
    /\ (call[c].op = "set") <=> (call[c].arg # None)
    /\ call[c].pc \in {"begin", "open", "prepare", "check"} => platform = "linux"
    /\ call[c].pc \in {"update", "add"} => platform = "darwin"
    /\ call[c].pc \in {"mutate", "verify", "update", "add"} => call[c].op # "get"
    /\ call[c].pc = "check" => call[c].op = "set"
    /\ call[c].pc = "find" => call[c].op # "set" /\ (call[c].op = "get" => platform = "linux")
    /\ call[c].pc = "read" => call[c].op = "get"
    /\ call[c].pc = "read" /\ platform = "linux" => item # None

\* On Linux whoever has been admitted holds the token until its last step.
AdmittedHasToken(c) ==
    platform = "linux" /\ call[c].pc \notin {"idle", "begin", "end"} => token = c

\* A session that was opened is handed over, and closed at the end.
SessionIsFollowed(c) ==
    /\ call[c].session = "open" => call[c].pc = "open" /\ call[c].remote = "ok"
    /\ call[c].session = "owned" => platform = "linux" /\ token = c /\ call[c].pc # "idle"

\* A message is followed until its answer, and a prompt until the user or the
\* dismissal has ended it.
MessageIsFollowed(c) ==
    /\ call[c].remote # "none" => Joined(c)
    /\ call[c].remote \in {"none", "sent", "ok", "error"} =>
          ~call[c].waiter /\ call[c].prompt \notin {"offered", "shown", "broken"}
    /\ call[c].remote = "prompt" => ~call[c].waiter /\ call[c].prompt = "offered"
    /\ call[c].remote = "prompting" => ~noUI
    /\ call[c].waiter => ~noUI /\ call[c].prompt \in {"offered", "shown"}
    /\ call[c].prompt = "shown" => call[c].waiter

\* Without a default collection there is no item, and a caller has nothing to
\* unlock and nothing to ask.
CollectionFits == collection = "missing" => item = None /\ platform = "linux"

NothingIsAsked(c) ==
    collection = "missing" =>
        /\ call[c].prompt \notin {"offered", "shown"}
        /\ call[c].pc = "prepare" => call[c].remote = "none"

\* A result is what the call has seen during its operation.
ResultIsSeen(c) ==
    /\ call[c].pc = "idle" => call[c].witness = "unseen"
    /\ call[c].pc \notin {"idle", "end"} => call[c].result = "none"
    /\ call[c].pc = "end" =>
          CASE call[c].result = "ok" ->
                 IF call[c].op = "get" THEN call[c].witness \in Values
                 ELSE call[c].witness = call[c].arg
            [] call[c].result = "absent" -> call[c].op = "get" /\ call[c].witness = None
            [] OTHER -> call[c].result = "failed"

CallFits(c) ==
    /\ StepFits(c) /\ AdmittedHasToken(c)
    /\ SessionIsFollowed(c) /\ MessageIsFollowed(c)
    /\ NothingIsAsked(c) /\ ResultIsSeen(c)

IInv == TypeOK /\ CollectionFits /\ \A c \in Callers : CallFits(c)
=============================================================================
