------------------------ MODULE TunnelRuntimeInvariant ------------------------
(* The inductive invariant of TunnelRuntime.                                  *)
EXTENDS TunnelRuntime

\* RunTunnel has joined the accept loop, the servers and the closers.
Over == main \in {"disconnecting", "converging", "returned"}

\* The listener is open from its binding to the clean-up, and the accept loop runs
\* only after that.
MainFits ==
    /\ main = "listening" => listener = "none"
    /\ main \in {"bound", "announcing", "serving"} => listener = "open"
    /\ main \in {"listening", "bound", "announcing"} => acceptor = "off"
    /\ Over => /\ acceptor \in {"off", "joined"} /\ closers = {}
               /\ listener \in {"none", "closed"}
    /\ main \in {"converging", "returned"} => raw = "closed"

\* The accept loop has a client in hand exactly while it admits or refuses one.
LoopFits == (held # NoClient) <=> (acceptor \in {"admitting", "ending", "refusing"})

SlotsFit == IsFiniteSet(slots) /\ Cardinality(slots) <= Slots

-----------------------------------------------------------------------------
(* What is true of a client.                                                  *)

Waiting(c) == stage[c] \in {"away", "queued"}
Undialed == {"away", "queued", "accepted", "greeting", "requesting"}
Dialing == {"opening", "late"}

\* Where a client may be, by where the runtime is.
StageFits(c) ==
    /\ (stage[c] = "accepted") <=> (held = c)
    /\ (c \in slots) <=> (stage[c] \in ServerStages)
    /\ acceptor = "off" => Waiting(c)
    /\ stage[c] = "queued" => listener # "none"
    /\ Over => stage[c] \notin ServerStages
    /\ stage[c] \in {"greeting", "requesting"} => mode = "dynamic"

\* The clean-up knows a source until it is closed, and so is it.
SourceFits(c) ==
    /\ Waiting(c) => conn[c]["source"] = "none"
    /\ stage[c] = "done" => Closed(c, "source")
    /\ <<c, "source">> \in connections => stage[c] \in ServerStages \cup {"accepted"}

\* A dial is followed until its result, and a destination until it is closed.
DestFits(c) ==
    /\ stage[c] \in Undialed => dial[c] = "none"
    /\ dial[c] = "pending" => stage[c] \in Dialing
    /\ stage[c] \in Undialed \cup Dialing => conn[c]["dest"] = "none"
    /\ dial[c] = "opened" /\ stage[c] \notin Dialing => conn[c]["dest"] # "none"
    /\ stage[c] \in {"closingSource", "done"} => Closed(c, "dest")
    /\ <<c, "dest">> \in connections =>
          stage[c] \in ServerStages \ {"greeting", "requesting", "opening", "late",
                                       "closingSource"}

\* What a SOCKS client has been told: before its request the method, and nothing to
\* others.
NoMessage == <<>>
MethodGranted == << <<"method", 0>> >>

RepliesFit(c) ==
    /\ mode # "dynamic" => replies[c] = NoMessage
    /\ Waiting(c) \/ stage[c] = "greeting" => replies[c] = NoMessage
    /\ stage[c] = "accepted" /\ acceptor = "admitting" => replies[c] = NoMessage
    /\ mode = "dynamic" /\ stage[c] \in {"requesting", "opening", "late", "dropping", "opened"} =>
          replies[c] = MethodGranted

\* SocksConversation of one client.
ConversationFits(c) ==
    /\ \/ replies[c] \in {NoMessage, << <<"method", 255>> >>, MethodGranted,
                         << <<"reply", 1>> >>, << <<"reply", 2>> >>}
       \/ \E result \in Results : replies[c] = << <<"method", 0>>, result >>
    /\ Answered(c) => dial[c] = "opened" /\ conn[c]["dest"] # "none"

ClientFits(c) ==
    /\ StageFits(c) /\ SourceFits(c) /\ DestFits(c)
    /\ RepliesFit(c) /\ ConversationFits(c)

IInv ==
    /\ TypeOK /\ MainFits /\ LoopFits /\ SlotsFit
    /\ \A c \in Clients : ClientFits(c)
=============================================================================
