--------------------------- MODULE TunnelRuntime ---------------------------
(***************************************************************************)
(* One running tunnel (RunTunnel in internal/sshclient/forwarding.go, the  *)
(* SOCKS requests of socks.go included), from the authenticated transport  *)
(* to its return: the main goroutine, the watchers of the caller's context *)
(* and of the transport, the accept loop, one server per admitted client,  *)
(* its dial and its two copies, the closers of the clean-up, the timers of *)
(* the protocol calls and the watchdog that closes the raw socket.         *)
(*                                                                         *)
(* A local socket closes at once.  An SSH channel, a remote listener and   *)
(* the transport close by a call to the peer, which returns once the peer  *)
(* answers or the raw socket is closed.  Time is abstract: a timer may     *)
(* expire at any moment at which what it bounds has not ended.             *)
(* What the runtime reports to its service is left out.                    *)
(***************************************************************************)
EXTENDS Naturals, FiniteSets, Sequences

CONSTANTS
    Clients,   \* clients of the tunnel's listener
    NoClient,  \* the accept loop holds no client
    Modes,     \* the forwarding modes considered
    Slots      \* clients served at once (64 in the code)

ASSUME NoClientAssumption == NoClient \notin Clients
ASSUME ModesAssumption == Modes \subseteq {"local", "remote", "dynamic"}
ASSUME SlotsAssumption == Slots \in Nat \ {0}

VARIABLES
    mode,
    peer,         \* the SSH peer: healthy, stalled (answers nothing) or lost
    canceled,     \* is the caller's context canceled?
    cause,        \* why the lifetime was ended, "none" while it runs
    watchdog,     \* off, armed, joined
    raw, transport,
    waiter, root, \* have transport.Wait and the context's watcher ended?
    main,         \* where RunTunnel is
    listener,
    acceptor,     \* where the accept loop is
    held,         \* the client the accept loop has in hand
    connections,  \* r.connections: the <<client, side>> the clean-up knows
    closers,      \* closers of the clean-up not done yet
    slots,        \* clients that have a slot
    stage,        \* client -> where its server is
    conn,         \* client -> its source and its destination
    dial,         \* client -> the result of its dial
    copies,       \* client -> how its two copies stand
    replies       \* client -> the SOCKS messages sent to it

link == <<peer, canceled>>
lifetime == <<cause, watchdog>>
ends == <<raw, transport, waiter, root>>
loop == <<acceptor, held>>
served == <<stage, conn, dial, copies, replies>>
vars == <<mode, link, lifetime, ends, main, listener, loop, connections, closers,
          slots, served>>

-----------------------------------------------------------------------------
(* Data.                                                                   *)

Sides == {"source", "dest"}
Conns == Clients \X Sides
ConnStates == {"none", "open", "closing", "closed"}
Directions == {"in", "out"}   \* from the destination, to the destination

\* serve's steps; a client is "away" before it connects, "queued" while a remote
\* channel waits for Accept, and "done" when the runtime has let it go.
ServerStages == {"greeting", "requesting", "opening", "late", "dropping", "opened",
                 "copying", "halfClosed", "breaking", "draining",
                 "closingDest", "closingSource"}
Stages == ServerStages \cup {"away", "queued", "accepted", "done"}

Causes == {"canceled", "lost", "accept", "stalled", "slow", "end"}
Stopping == cause # "none"

\* stop: the watchdog is armed first, then the lifetime ends, once.
Stop(why) ==
    /\ cause' = IF Stopping THEN cause ELSE why
    /\ watchdog' = IF Stopping THEN watchdog ELSE "armed"

\* Does a call to the peer return?
Answers == peer # "stalled" \/ raw = "closed"

\* The peer is one end: of the destination, or in remote mode of the source.
IsChannel(side) == (side = "source") <=> (mode = "remote")

\* Close of a closeOnce begins, or finds that it has begun.
Shut(state, side) ==
    IF state = "open" THEN (IF IsChannel(side) THEN "closing" ELSE "closed") ELSE state

Closed(c, side) == conn[c][side] \in {"none", "closed"}

\* release after Close has returned, of the given sides.
Forget(released) == connections' = connections \ released

\* A write to a client that is gone sends nothing.
Said(c, kind, code) ==
    [replies EXCEPT ![c] = IF conn[c].source = "open" THEN Append(@, <<kind, code>>) ELSE @]

\* socksReply, in dynamic mode only.
SocksReply(c, code) == IF mode = "dynamic" THEN Said(c, "reply", code) ELSE replies

Init ==
    /\ mode \in Modes
    /\ peer = "healthy" /\ canceled = FALSE
    /\ cause = "none" /\ watchdog = "off"
    /\ raw = "open" /\ transport = "open" /\ waiter = "waiting" /\ root = "waiting"
    /\ main = "listening" /\ listener = "none"
    /\ acceptor = "off" /\ held = NoClient
    /\ connections = {} /\ closers = {} /\ slots = {}
    /\ stage = [c \in Clients |-> "away"]
    /\ conn = [c \in Clients |-> [s \in Sides |-> "none"]]
    /\ dial = [c \in Clients |-> "none"]
    /\ copies = [c \in Clients |-> [d \in Directions |-> "none"]]
    /\ replies = [c \in Clients |-> <<>>]

-----------------------------------------------------------------------------
(* The environment: the caller, the peer and the clients.                  *)

Cancel ==
    /\ ~canceled /\ main # "returned"
    /\ canceled' = TRUE
    /\ UNCHANGED <<mode, peer, lifetime, ends, main, listener, loop, connections, closers,
                   slots, served>>

PeerFails ==
    /\ peer # "lost" /\ raw = "open"
    /\ peer' \in {"stalled", "lost"} \ {peer}
    /\ UNCHANGED <<mode, canceled, lifetime, ends, main, listener, loop, connections,
                   closers, slots, served>>

\* A healthy peer forwards a client to a remote listener that is not closed.
Arrive(c) ==
    /\ mode = "remote" /\ peer = "healthy" /\ raw = "open"
    /\ listener \in {"open", "closing"}
    /\ stage[c] = "away"
    /\ stage' = [stage EXCEPT ![c] = "queued"]
    /\ UNCHANGED <<mode, link, lifetime, ends, main, listener, loop, connections, closers,
                   slots, conn, dial, copies, replies>>

-----------------------------------------------------------------------------
(* The watchers and the timers.                                            *)

RootWatcher ==
    /\ root = "waiting" /\ (canceled \/ Stopping)
    /\ root' = "joined"
    /\ IF canceled THEN Stop("canceled") ELSE UNCHANGED lifetime
    /\ UNCHANGED <<mode, link, raw, transport, waiter, main, listener, loop, connections,
                   closers, slots, served>>

\* transport.Wait returns.
TransportWaiter ==
    /\ waiter = "waiting"
    /\ peer = "lost" \/ raw = "closed" \/ transport = "closed"
    /\ waiter' = "joined"
    /\ Stop("lost")
    /\ UNCHANGED <<mode, link, raw, transport, root, main, listener, loop, connections,
                   closers, slots, served>>

\* The calls under a deadline that only the peer can end: closing a channel, the
\* remote listener or the transport, half-closing a channel, and the copies of a
\* connection that failed.
ProtocolCall ==
    \/ \E c \in Clients, side \in Sides : conn[c][side] = "closing"
    \/ listener = "closing" \/ transport = "closing"
    \/ \E c \in Clients, d \in Directions : copies[c][d] = "halfClosing"
    \/ \E c \in Clients : stage[c] \in {"breaking", "draining"}

\* The timer of protocolCall, and of copy's clean-up, expires.
ProtocolTimeout ==
    /\ ProtocolCall /\ ~Answers /\ ~Stopping
    /\ Stop("stalled")
    /\ UNCHANGED <<mode, link, ends, main, listener, loop, connections, closers, slots,
                   served>>

\* The deadline of a late dial expires, whoever is to blame for the delay; a dial
\* of our own has ended with its context.
LateTimeout(c) ==
    /\ stage[c] = "late" /\ dial[c] = "pending" /\ ~Stopping
    /\ mode # "remote"
    /\ Stop("slow")
    /\ UNCHANGED <<mode, link, ends, main, listener, loop, connections, closers, slots,
                   served>>

\* The watchdog, 250 ms after the stop, unless the clean-up has converged.
WatchdogExpires ==
    /\ watchdog = "armed" /\ raw = "open"
    /\ raw' = "closed"
    /\ UNCHANGED <<mode, link, lifetime, transport, waiter, root, main, listener, loop,
                   connections, closers, slots, served>>

\* The peer answers the closing of a channel.
ChannelCloses(c, side) ==
    /\ conn[c][side] = "closing" /\ Answers
    /\ conn' = [conn EXCEPT ![c][side] = "closed"]
    /\ UNCHANGED <<mode, link, lifetime, ends, main, listener, loop, connections, closers,
                   slots, stage, dial, copies, replies>>

\* The vendor holds the forward list while a channel is in the listener's queue,
\* so a remote listener closes only once its queue has been drained.
ListenerCloses ==
    /\ listener = "closing" /\ Answers
    /\ raw = "closed" \/ \A c \in Clients : stage[c] # "queued"
    /\ listener' = "closed"
    /\ UNCHANGED <<mode, link, lifetime, ends, main, loop, connections, closers, slots,
                   served>>

-----------------------------------------------------------------------------
(* The accept loop.                                                        *)

\* track: the clean-up knows the connection from now on, and it is closed here when
\* the clean-up may have looked already.
Tracked(c, side) == connections \cup {<<c, side>>}

Opened(side) == IF Stopping THEN Shut("open", side) ELSE "open"

Accept(c) ==
    /\ acceptor = "accepting"
    /\ stage[c] = IF mode = "remote" THEN "queued" ELSE "away"
    /\ IF mode = "remote" THEN raw = "open" ELSE listener = "open"
    /\ acceptor' = "admitting" /\ held' = c
    /\ stage' = [stage EXCEPT ![c] = "accepted"]
    /\ conn' = [conn EXCEPT ![c].source = Opened("source")]
    /\ connections' = Tracked(c, "source")
    /\ UNCHANGED <<mode, link, lifetime, ends, main, listener, closers, slots, dial, copies,
                   replies>>

\* A queued channel that can no longer be confirmed: the loop goes on.
AcceptLost(c) ==
    /\ acceptor = "accepting" /\ stage[c] = "queued" /\ raw = "closed"
    /\ stage' = [stage EXCEPT ![c] = "done"]
    /\ UNCHANGED <<mode, link, lifetime, ends, main, listener, loop, connections, closers,
                   slots, conn, dial, copies, replies>>

\* A local listener fails at any time; a remote one only after Close has ended.
AcceptFails ==
    /\ acceptor = "accepting"
    /\ mode = "remote" => listener = "closed"
    /\ acceptor' = "joined"
    /\ Stop("accept")
    /\ UNCHANGED <<mode, link, ends, main, listener, held, connections, closers, slots,
                   served>>

Admit(c) ==
    /\ acceptor = "admitting" /\ held = c /\ ~Stopping
    /\ Cardinality(slots) < Slots
    /\ slots' = slots \cup {c}
    /\ acceptor' = "accepting" /\ held' = NoClient
    /\ stage' = [stage EXCEPT ![c] = IF mode = "dynamic" THEN "greeting" ELSE "opening"]
    /\ dial' = [dial EXCEPT ![c] = IF mode = "dynamic" THEN @ ELSE "pending"]
    /\ UNCHANGED <<mode, link, lifetime, ends, main, listener, connections, closers, conn,
                   copies, replies>>

\* Too many clients, or too late: the loop itself closes the client.
TurnAway(c) ==
    /\ acceptor = "admitting" /\ held = c
    /\ Stopping \/ Cardinality(slots) = Slots
    /\ acceptor' = IF Stopping THEN "ending" ELSE "refusing"
    /\ replies' = IF Stopping THEN replies ELSE SocksReply(c, 2)
    /\ conn' = [conn EXCEPT ![c].source = Shut(@, "source")]
    /\ UNCHANGED <<mode, link, lifetime, ends, main, listener, held, connections, closers,
                   slots, stage, dial, copies>>

\* The loop ends with the lifetime, but in remote mode it drains its queue.
TurnedAway(c) ==
    /\ acceptor \in {"ending", "refusing"} /\ held = c /\ Closed(c, "source")
    /\ acceptor' = IF acceptor = "ending" /\ mode # "remote" THEN "joined" ELSE "accepting"
    /\ held' = NoClient
    /\ Forget({<<c, "source">>})
    /\ stage' = [stage EXCEPT ![c] = "done"]
    /\ UNCHANGED <<mode, link, lifetime, ends, main, listener, closers, slots, conn, dial,
                   copies, replies>>

-----------------------------------------------------------------------------
(* The SOCKS request of a client, in dynamic mode.                         *)

\* socksRequest's first message.  "arrived" is how much of a message can be read.
Greetings == [arrived : {"nothing", "count", "all"}, version : {4, 5},
              methods : SUBSET {0, 2}]
GreetingCode(g) ==
    IF g.arrived = "nothing" THEN 1
    ELSE IF g.version # 5 \/ g.methods = {} THEN 1
    ELSE IF g.arrived = "count" THEN 1
    ELSE IF 0 \in g.methods THEN 0 ELSE 255
GreetingCodes == {GreetingCode(g) : g \in Greetings}

\* Its second one; code 0 is a request that is accepted.
Requests == [arrived : {"nothing", "header", "host", "all"}, version : {4, 5},
             reserved : {0, 1}, command : {1, 2}, kind : {"address", "domain", "other"},
             host : {"plain", "empty", "strange"}, port : {0, 80}]
RequestCode(r) ==
    IF r.arrived = "nothing" THEN 1
    ELSE IF r.version # 5 \/ r.reserved # 0 THEN 1
    ELSE IF r.command # 1 THEN 7
    ELSE IF r.kind = "other" THEN 8
    ELSE IF r.arrived = "header" THEN 1
    ELSE IF r.kind = "domain" /\ r.host # "plain" THEN 1
    ELSE IF r.arrived = "host" \/ r.port = 0 THEN 1
    ELSE 0
RequestCodes == {RequestCode(r) : r \in Requests}

\* serve returns: its deferred releases are the destination's, then the source's.
LetGo(c) ==
    /\ stage' = [stage EXCEPT ![c] = "closingDest"]
    /\ conn' = [conn EXCEPT ![c].dest = Shut(@, "dest")]

\* Mutant of GreetingReply: a client without a method is refused once more.
AnswerTwice(c, code) ==
    [Said(c, IF code = 1 THEN "reply" ELSE "method", code) EXCEPT
        ![c] = IF code = 255 THEN Append(@, <<"reply", 1>>) ELSE @]

\* A method is selected, or none; a greeting that makes no sense is refused.
GreetingReply(c, code) == Said(c, IF code = 1 THEN "reply" ELSE "method", code)

\* The deadline ends a silent client.
Greet(c) ==
    /\ stage[c] = "greeting"
    /\ \E code \in GreetingCodes :
          /\ replies' = GreetingReply(c, code)
          /\ IF code = 0 /\ conn[c].source = "open"
             THEN stage' = [stage EXCEPT ![c] = "requesting"] /\ UNCHANGED conn
             ELSE LetGo(c)
    /\ UNCHANGED <<mode, link, lifetime, ends, main, listener, loop, connections, closers,
                   slots, dial, copies>>

Request(c) ==
    /\ stage[c] = "requesting"
    /\ \E code \in RequestCodes :
          IF code = 0
          THEN /\ stage' = [stage EXCEPT ![c] = "opening"]
               /\ dial' = [dial EXCEPT ![c] = "pending"]
               /\ UNCHANGED <<conn, replies>>
          ELSE /\ replies' = Said(c, "reply", code)
               /\ LetGo(c)
               /\ UNCHANGED dial
    /\ UNCHANGED <<mode, link, lifetime, ends, main, listener, loop, connections, closers,
                   slots, copies>>

-----------------------------------------------------------------------------
(* The destination of a client.                                            *)

\* A remote tunnel dials itself, under the request's context; the others ask the
\* peer, and nothing but the peer or the raw socket ends that call.
DialOpens(c) ==
    /\ dial[c] = "pending"
    /\ mode = "remote" \/ (peer = "healthy" /\ raw = "open")
    /\ dial' = [dial EXCEPT ![c] = "opened"]
    /\ UNCHANGED <<mode, link, lifetime, ends, main, listener, loop, connections, closers,
                   slots, stage, conn, copies, replies>>

DialFails(c) ==
    /\ dial[c] = "pending"
    /\ mode = "remote" \/ Answers
    /\ dial' = [dial EXCEPT ![c] = "failed"]
    /\ UNCHANGED <<mode, link, lifetime, ends, main, listener, loop, connections, closers,
                   slots, stage, conn, copies, replies>>

\* The result came first.
TakeResult(c) ==
    /\ stage[c] = "opening" /\ dial[c] \in {"opened", "failed"}
    /\ stage' = [stage EXCEPT ![c] = "opened"]
    /\ IF dial[c] = "opened"
       THEN /\ conn' = [conn EXCEPT ![c].dest = Opened("dest")]
            /\ connections' = Tracked(c, "dest")
       ELSE UNCHANGED <<conn, connections>>
    /\ UNCHANGED <<mode, link, lifetime, ends, main, listener, loop, closers, slots, dial,
                   copies, replies>>

\* The ten seconds are over, or the lifetime is.
TimeOut(c) ==
    /\ stage[c] = "opening"
    /\ stage' = [stage EXCEPT ![c] = "late"]
    /\ UNCHANGED <<mode, link, lifetime, ends, main, listener, loop, connections, closers,
                   slots, conn, dial, copies, replies>>

\* Mutant of LateConnection: a destination that comes too late is dropped only.
NoConnection(c) == UNCHANGED <<conn, connections>> /\ dial[c] \in {"opened", "failed"}

\* The late destination is tracked and closed, if there is one.
LateConnection(c) ==
    IF dial[c] = "opened"
    THEN /\ conn' = [conn EXCEPT ![c].dest = Shut("open", "dest")]
         /\ connections' = Tracked(c, "dest")
    ELSE UNCHANGED <<conn, connections>>

LateResult(c) ==
    /\ stage[c] = "late" /\ dial[c] \in {"opened", "failed"}
    /\ stage' = [stage EXCEPT ![c] = "dropping"]
    /\ LateConnection(c)
    /\ UNCHANGED <<mode, link, lifetime, ends, main, listener, loop, closers, slots, dial,
                   copies, replies>>

\* The late destination is released, and the client told.
Dropped(c) ==
    /\ stage[c] = "dropping" /\ Closed(c, "dest")
    /\ Forget({<<c, "dest">>})
    /\ replies' = SocksReply(c, 1)
    /\ LetGo(c)
    /\ UNCHANGED <<mode, link, lifetime, ends, main, listener, loop, closers, slots, dial,
                   copies>>

\* The context is checked once more after the destination is tracked.
Refuse(c) ==
    /\ stage[c] = "opened"
    /\ replies' = SocksReply(c, 1)
    /\ LetGo(c)
    /\ UNCHANGED <<mode, link, lifetime, ends, main, listener, loop, connections, closers,
                   slots, dial, copies>>

MayGrant(c) == dial[c] = "opened" /\ ~Stopping

Grant(c) ==
    /\ stage[c] = "opened" /\ MayGrant(c)
    /\ replies' = SocksReply(c, 0)
    /\ IF mode = "dynamic" /\ conn[c].source # "open"
       THEN LetGo(c) /\ UNCHANGED copies
       ELSE /\ stage' = [stage EXCEPT ![c] = "copying"]
            /\ copies' = [copies EXCEPT ![c] = [d \in Directions |-> "running"]]
            /\ UNCHANGED conn
    /\ UNCHANGED <<mode, link, lifetime, ends, main, listener, loop, connections, closers,
                   slots, dial>>


-----------------------------------------------------------------------------
(* The two copies of a connection.                                         *)

Source(d) == IF d = "out" THEN "source" ELSE "dest"
Target(d) == IF d = "out" THEN "dest" ELSE "source"
Ended(c, d) == copies[c][d] \in {"eof", "failed"}

\* A copy ends when its source does, and half-closes its target, or it fails.
CopyEnds(c, d) ==
    /\ copies[c][d] = "running"
    /\ \E result \in {IF IsChannel(Target(d)) THEN "halfClosing" ELSE "eof", "failed"} :
          copies' = [copies EXCEPT ![c][d] = result]
    /\ UNCHANGED <<mode, link, lifetime, ends, main, listener, loop, connections, closers,
                   slots, stage, conn, dial, replies>>

HalfCloses(c, d) ==
    /\ copies[c][d] = "halfClosing" /\ Answers
    /\ \E result \in {"eof", "failed"} : copies' = [copies EXCEPT ![c][d] = result]
    /\ UNCHANGED <<mode, link, lifetime, ends, main, listener, loop, connections, closers,
                   slots, stage, conn, dial, replies>>

\* The first result: after a failure both ends are closed at once.
FirstResult(c) ==
    /\ stage[c] = "copying"
    /\ \E d \in Directions :
          /\ Ended(c, d)
          /\ IF copies[c][d] = "failed"
             THEN /\ stage' = [stage EXCEPT ![c] = "breaking"]
                  /\ conn' = [conn EXCEPT ![c] = [s \in Sides |-> Shut(@[s], s)]]
             ELSE stage' = [stage EXCEPT ![c] = "halfClosed"] /\ UNCHANGED conn
    /\ UNCHANGED <<mode, link, lifetime, ends, main, listener, loop, connections, closers,
                   slots, dial, copies, replies>>

Broken(c) ==
    /\ stage[c] = "breaking" /\ \A s \in Sides : Closed(c, s)
    /\ stage' = [stage EXCEPT ![c] = "draining"]
    /\ UNCHANGED <<mode, link, lifetime, ends, main, listener, loop, connections, closers,
                   slots, conn, dial, copies, replies>>

\* The second result ends the copying, and serve returns.
SecondResult(c) ==
    /\ stage[c] \in {"halfClosed", "draining"} /\ \A d \in Directions : Ended(c, d)
    /\ LetGo(c)
    /\ UNCHANGED <<mode, link, lifetime, ends, main, listener, loop, connections, closers,
                   slots, dial, copies, replies>>

\* Mutant of ReleasedSlots: the slot is given back before the client is closed.
EarlySlots(c) == IF stage[c] = "closingDest" THEN slots \ {c} ELSE slots

\* The slot is given back last.
ReleasedSlots(c) == IF stage[c] = "closingSource" THEN slots \ {c} ELSE slots

\* The deferred release of the destination.
DestReleased(c) ==
    /\ stage[c] = "closingDest" /\ Closed(c, "dest")
    /\ Forget({<<c, "dest">>})
    /\ slots' = ReleasedSlots(c)
    /\ stage' = [stage EXCEPT ![c] = "closingSource"]
    /\ conn' = [conn EXCEPT ![c].source = Shut(@, "source")]
    /\ UNCHANGED <<mode, link, lifetime, ends, main, listener, loop, closers, dial, copies,
                   replies>>

\* The release of the source, the slot, and the end of the server.
ServerEnds(c) ==
    /\ stage[c] = "closingSource" /\ Closed(c, "source")
    /\ Forget({<<c, "source">>})
    /\ slots' = ReleasedSlots(c)
    /\ stage' = [stage EXCEPT ![c] = "done"]
    /\ UNCHANGED <<mode, link, lifetime, ends, main, listener, loop, closers, conn, dial,
                   copies, replies>>

-----------------------------------------------------------------------------
(* RunTunnel.                                                              *)

\* The listener is granted or refused; a remote one by the peer.
Listen ==
    /\ main = "listening"
    /\ mode = "remote" => Answers
    /\ \/ /\ mode = "remote" => peer = "healthy" /\ raw = "open"
          /\ listener' = "open" /\ main' = "bound"
       \/ main' = "cleanup" /\ UNCHANGED listener
    /\ UNCHANGED <<mode, link, lifetime, ends, loop, connections, closers, slots, served>>

\* The last look at the contexts before Ready.
Check ==
    /\ main = "bound"
    /\ IF canceled THEN Stop("canceled") ELSE UNCHANGED lifetime
    /\ main' = IF canceled \/ Stopping THEN "cleanup" ELSE "announcing"
    /\ UNCHANGED <<mode, link, ends, listener, loop, connections, closers, slots, served>>

\* Ready is called and the accept loop begins.
Announce ==
    /\ main = "announcing"
    /\ main' = "serving" /\ acceptor' = "accepting"
    /\ UNCHANGED <<mode, link, lifetime, ends, listener, held, connections, closers, slots,
                   served>>

LifetimeEnds ==
    /\ main = "serving" /\ Stopping
    /\ main' = "cleanup"
    /\ UNCHANGED <<mode, link, lifetime, ends, listener, loop, connections, closers, slots,
                   served>>

\* The deferred clean-up: it stops the tunnel unless that has been done,
CleanUp ==
    /\ main = "cleanup"
    /\ Stop("end")
    /\ main' = "collecting"
    /\ listener' = Shut(listener, "source")
    /\ UNCHANGED <<mode, link, ends, loop, connections, closers, slots, served>>

\* Mutant of Collected: only the connections to clients are closed.
CollectSources == {k \in connections : k[2] = "source"}

\* Mutant of Collected: what the accept loop has in hand is closed, or nothing.
CollectHeld == connections \cup {<<held, "source">>}

Collected == connections

\* starts a closer for every connection it knows,
Collect ==
    /\ main = "collecting"
    /\ closers' = Collected
    /\ main' = "joining"
    /\ UNCHANGED <<mode, link, lifetime, ends, listener, loop, connections, slots, served>>

\* A closer begins, and is done when the connection is closed.
CloserBegins(k) ==
    /\ k \in closers /\ conn[k[1]][k[2]] = "open"
    /\ conn' = [conn EXCEPT ![k[1]][k[2]] = Shut(@, k[2])]
    /\ UNCHANGED <<mode, link, lifetime, ends, main, listener, loop, connections, closers,
                   slots, stage, dial, copies, replies>>

CloserEnds(k) ==
    /\ k \in closers /\ Closed(k[1], k[2])
    /\ closers' = closers \ {k}
    /\ UNCHANGED <<mode, link, lifetime, ends, main, listener, loop, connections, slots,
                   served>>

\* Mutant of WorkIsDone: the servers are not waited for.
LoopIsDone == acceptor \in {"off", "joined"}

WorkIsDone ==
    acceptor \in {"off", "joined"} /\ \A c \in Clients : stage[c] \notin ServerStages

\* joins the accept loop, the servers and the closers, and disconnects,
Disconnect ==
    /\ main = "joining"
    /\ WorkIsDone /\ closers = {} /\ listener \in {"none", "closed"}
    /\ main' = "disconnecting" /\ transport' = "closing"
    /\ UNCHANGED <<mode, link, lifetime, raw, waiter, root, listener, loop, connections,
                   closers, slots, served>>

\* (the transport closes the raw socket too)
TransportCloses ==
    /\ main = "disconnecting" /\ transport = "closing" /\ Answers
    /\ transport' = "closed" /\ raw' = "closed"
    /\ main' = "converging"
    /\ UNCHANGED <<mode, link, lifetime, waiter, root, listener, loop, connections, closers,
                   slots, served>>

\* joins the watchers and the watchdog, and returns.
Return ==
    /\ main = "converging" /\ waiter = "joined" /\ root = "joined"
    /\ watchdog' = "joined"
    /\ main' = "returned"
    /\ UNCHANGED <<mode, link, cause, ends, listener, loop, connections, closers, slots,
                   served>>

-----------------------------------------------------------------------------
AcceptStep(c) == Accept(c) \/ AcceptLost(c) \/ Admit(c) \/ TurnAway(c) \/ TurnedAway(c)

DialStep(c) == DialOpens(c) \/ DialFails(c)

ServeStep(c) ==
    \/ Greet(c) \/ Request(c)
    \/ TakeResult(c) \/ TimeOut(c) \/ LateResult(c) \/ Dropped(c) \/ Refuse(c) \/ Grant(c)
    \/ FirstResult(c) \/ Broken(c) \/ SecondResult(c) \/ DestReleased(c) \/ ServerEnds(c)

CopyStep(c) == \E d \in Directions : CopyEnds(c, d) \/ HalfCloses(c, d)

Closing ==
    \/ \E k \in Conns : CloserBegins(k) \/ CloserEnds(k) \/ ChannelCloses(k[1], k[2])
    \/ ListenerCloses

MainStep ==
    \/ Listen \/ Check \/ Announce \/ LifetimeEnds \/ CleanUp \/ Collect \/ Disconnect
    \/ TransportCloses \/ Return

\* Nothing happens after the return; the system may stop there.
Done == main = "returned" /\ UNCHANGED vars

Next ==
    \/ Cancel \/ PeerFails \/ \E c \in Clients : Arrive(c)
    \/ RootWatcher \/ TransportWaiter \/ ProtocolTimeout \/ WatchdogExpires
    \/ AcceptFails \/ Closing \/ MainStep \/ Done
    \/ \E c \in Clients :
          LateTimeout(c) \/ AcceptStep(c) \/ DialStep(c) \/ ServeStep(c) \/ CopyStep(c)

Spec == Init /\ [][Next]_vars

\* A dial that must fail: its context is over, or the connection to the peer is.
HopelessDial(c) ==
    IF mode = "remote" THEN Stopping \/ stage[c] = "late" ELSE raw = "closed" \/ peer = "lost"

\* A copy that must end: both its ends are closed, and the peer cannot hold it.
HopelessCopy(c) == Answers /\ \A s \in Sides : Closed(c, s)

\* Goroutines go on, calls that can return do, and timers expire.  The caller, the
\* peer and the clients need not do anything, nor need a destination answer.
Fairness ==
    /\ WF_vars(RootWatcher) /\ WF_vars(TransportWaiter)
    /\ WF_vars(ProtocolTimeout) /\ WF_vars(WatchdogExpires)
    /\ WF_vars(MainStep) /\ WF_vars(ListenerCloses)
    /\ WF_vars(AcceptFails /\ listener # "open")
    /\ \A k \in Conns :
          /\ WF_vars(CloserBegins(k)) /\ WF_vars(CloserEnds(k))
          /\ WF_vars(ChannelCloses(k[1], k[2]))
    /\ \A c \in Clients :
          /\ WF_vars(AcceptStep(c) /\ stage[c] # "away")
          /\ WF_vars(ServeStep(c)) /\ WF_vars(LateTimeout(c))
          /\ WF_vars(DialFails(c) /\ HopelessDial(c))
          /\ \A d \in Directions :
                WF_vars(CopyEnds(c, d) /\ HopelessCopy(c)) /\ WF_vars(HalfCloses(c, d))

FairSpec == Spec /\ Fairness

-----------------------------------------------------------------------------
(* Properties.                                                             *)

\* Type correctness of the runtime's state.
TypeOK ==
    /\ mode \in Modes
    /\ peer \in {"healthy", "stalled", "lost"} /\ canceled \in BOOLEAN
    /\ cause \in Causes \cup {"none"} /\ watchdog \in {"off", "armed", "joined"}
    /\ raw \in {"open", "closed"} /\ transport \in ConnStates
    /\ waiter \in {"waiting", "joined"} /\ root \in {"waiting", "joined"}
    /\ main \in {"listening", "bound", "announcing", "serving", "cleanup", "collecting",
                 "joining", "disconnecting", "converging", "returned"}
    /\ listener \in ConnStates
    /\ acceptor \in {"off", "accepting", "admitting", "ending", "refusing", "joined"}
    /\ held \in Clients \cup {NoClient}
    /\ connections \subseteq Conns /\ closers \subseteq Conns /\ slots \subseteq Clients
    /\ stage \in [Clients -> Stages]
    /\ conn \in [Clients -> [Sides -> ConnStates]]
    /\ dial \in [Clients -> {"none", "pending", "opened", "failed"}]
    /\ copies \in [Clients -> [Directions -> {"none", "running", "halfClosing", "eof",
                                              "failed"}]]
    /\ replies \in [Clients -> Seq({"method", "reply"} \X Nat)]

\* No more clients than slots are connected and being served, on every path a
\* server takes to its end: a slot is not free before its client is closed.
ServersAreBounded ==
    Cardinality({c \in Clients : stage[c] \in ServerStages /\ ~Closed(c, "source")}) <= Slots

\* When RunTunnel returns everything it opened is closed, a destination that came
\* after its timeout included, and all its goroutines have ended.
NothingLeftOpen ==
    main = "returned" =>
        /\ raw = "closed" /\ listener \in {"none", "closed"}
        /\ connections = {} /\ closers = {} /\ slots = {}
        /\ acceptor \in {"off", "joined"}
        /\ \A c \in Clients :
              /\ stage[c] \in {"away", "queued", "done"}
              /\ dial[c] # "pending"
              /\ dial[c] = "opened" => conn[c].dest = "closed"

\* A SOCKS client is told its method once, then at most one result: none after its
\* methods were refused, and success only with a destination for it.
Answered(c) == <<"reply", 0>> \in {replies[c][i] : i \in DOMAIN replies[c]}
Results == {<<"reply", code>> : code \in {0, 1, 7, 8}}
SocksConversation ==
    \A c \in Clients :
        /\ \/ replies[c] \in {<<>>, << <<"method", 255>> >>, << <<"method", 0>> >>,
                             << <<"reply", 1>> >>, << <<"reply", 2>> >>}
           \/ \E result \in Results : replies[c] = << <<"method", 0>>, result >>
        /\ Answered(c) => dial[c] = "opened" /\ conn[c].dest # "none"

\* Once it is canceled, or has stopped itself, the tunnel returns: whatever the peer
\* and the destinations do, no call and no copy holds it for ever.
EveryStopEnds == (canceled \/ Stopping) ~> main = "returned"

-----------------------------------------------------------------------------
(* The runtime is the runner that the tunnel service counts on.            *)

RunnerStage ==
    CASE main = "listening" -> "opening"
      [] main \in {"bound", "announcing"} -> "bound"
      [] main = "serving" -> "forwarding"
      [] main = "returned" -> "returned"
      [] OTHER -> "closing"

Holding ==
    \/ listener \in {"open", "closing"}
    \/ \E c \in Clients :
          \/ \E s \in Sides : ~Closed(c, s)
          \/ dial[c] = "opened" /\ stage[c] \in {"opening", "late"}

Runner == INSTANCE TunnelRunner WITH stage <- RunnerStage, holding <- Holding

\* Every behaviour of the runtime is one of the abstract runner.
ImplementsRunner == Runner!Spec
=============================================================================
