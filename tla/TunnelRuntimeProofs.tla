-------------------------- MODULE TunnelRuntimeProofs --------------------------
(* The runtime of a tunnel serves no more clients than it has slots, talks    *)
(* SOCKS properly, leaves nothing open, and is the runner of TunnelRunner.    *)
EXTENDS TunnelRuntimeInvariant, FiniteSetTheorems, SequenceTheorems, TLAPS

\* The types of what belongs to clients.
ServedOK ==
    /\ stage \in [Clients -> Stages]
    /\ conn \in [Clients -> [Sides -> ConnStates]]
    /\ dial \in [Clients -> {"none", "pending", "opened", "failed"}]
    /\ copies \in [Clients -> [Directions -> {"none", "running", "halfClosing", "eof",
                                              "failed"}]]
    /\ replies \in [Clients -> Seq({"method", "reply"} \X Nat)]

\* What a step for one client leaves to another one.
Same(d) ==
    /\ stage'[d] = stage[d] /\ conn'[d] = conn[d] /\ dial'[d] = dial[d]
    /\ replies'[d] = replies[d]
    /\ (d \in slots') <=> (d \in slots)
    /\ \A s \in Sides : <<d, s>> \in connections' => <<d, s>> \in connections

\* What is known of a client stays true while nothing of it changes.
LEMMA SameKeeps ==
  ASSUME IInv, NEW d \in Clients, Same(d), mode' = mode,
         held' = d <=> held = d,
         acceptor' = "off" => acceptor = "off",
         stage[d] = "accepted" /\ acceptor' = "admitting" => acceptor = "admitting",
         listener' = "none" => listener = "none",
         Over' => Over \/ stage[d] \notin ServerStages
  PROVE  ClientFits(d)'
<1>1. ClientFits(d)
  BY DEF IInv
<1>2. StageFits(d)'
  BY <1>1 DEF ClientFits, StageFits, Same, Waiting
<1>3. SourceFits(d)'
  BY <1>1 DEF ClientFits, SourceFits, Same, Waiting, Closed, Sides
<1>4. DestFits(d)'
  BY <1>1 DEF ClientFits, DestFits, Same, Closed, Sides
<1>5. RepliesFit(d)'
  BY <1>1 DEF ClientFits, RepliesFit, Same, Waiting
<1>6. ConversationFits(d)'
  BY <1>1 DEF ClientFits, ConversationFits, Same, Answered
<1> QED BY <1>2, <1>3, <1>4, <1>5, <1>6 DEF ClientFits

\* A step of the server of one client need only be looked at for that client.
LEMMA ServerMoves ==
  ASSUME IInv, NEW c \in Clients,
         UNCHANGED <<mode, link, lifetime, ends, main, listener, loop, closers>>,
         ServedOK', connections' \subseteq Conns, slots' \subseteq slots,
         \A d \in Clients \ {c} : Same(d),
         ClientFits(c)'
  PROVE  IInv'
<1>1. ASSUME NEW d \in Clients PROVE ClientFits(d)'
  BY <1>1, SameKeeps DEF loop, Over
<1>2. TypeOK'
  BY DEF IInv, TypeOK, ServedOK, link, lifetime, ends, loop
<1>3. MainFits' /\ LoopFits'
  BY DEF IInv, MainFits, LoopFits, Over, loop, ends
<1>4. SlotsFit'
  <2>1. IsFiniteSet(slots) /\ Cardinality(slots) <= Slots
    BY DEF IInv, SlotsFit
  <2>2. IsFiniteSet(slots') /\ Cardinality(slots') <= Cardinality(slots)
    BY <2>1, FS_Subset
  <2>3. Cardinality(slots) \in Nat /\ Cardinality(slots') \in Nat
    BY <2>1, <2>2, FS_CardinalityType
  <2> QED BY <2>1, <2>2, <2>3, SlotsAssumption DEF SlotsFit
<1> QED BY <1>1, <1>2, <1>3, <1>4 DEF IInv

\* What is known before a step, in the form in which the steps use it.
LEMMA Known ==
  ASSUME IInv, NEW c \in Clients
  PROVE  /\ TypeOK /\ ServedOK
         /\ stage[c] \in Stages /\ conn[c] \in [Sides -> ConnStates]
         /\ dial[c] \in {"none", "pending", "opened", "failed"}
         /\ replies[c] \in Seq({"method", "reply"} \X Nat)
         /\ ClientFits(c) /\ StageFits(c) /\ SourceFits(c) /\ DestFits(c)
         /\ RepliesFit(c) /\ ConversationFits(c)
BY DEF IInv, TypeOK, ServedOK, ClientFits

-----------------------------------------------------------------------------
(* The dial.                                                                  *)

LEMMA DialKeeps ==
  ASSUME IInv, NEW c \in Clients, DialOpens(c) \/ DialFails(c)
  PROVE  IInv'
<1>1. stage[c] \in Dialing /\ dial[c] = "pending"
  BY Known DEF DestFits, DialOpens, DialFails
<1>2. PICK result \in {"opened", "failed"} : dial' = [dial EXCEPT ![c] = result]
  BY DEF DialOpens, DialFails
<1>3. /\ UNCHANGED <<mode, link, lifetime, ends, main, listener, loop, connections, closers,
                     slots, stage, conn, copies, replies>>
  BY DEF DialOpens, DialFails
<1>4. dial'[c] = result /\ \A d \in Clients \ {c} : dial'[d] = dial[d]
  BY <1>2, Known DEF ServedOK
<1>5. ServedOK'
  BY <1>2, <1>3, Known DEF ServedOK
<1>6. \A d \in Clients \ {c} : Same(d)
  BY <1>3, <1>4 DEF Same
<1>7. StageFits(c)' /\ SourceFits(c)' /\ RepliesFit(c)'
  BY <1>3, Known DEF StageFits, SourceFits, RepliesFit, Waiting, Closed, Over, loop
<1>8. DestFits(c)'
  BY <1>1, <1>3, <1>4, Known DEF DestFits, Closed, Dialing, Undialed
<1>9. ConversationFits(c)'
  BY <1>1, <1>3, <1>4, Known DEF ConversationFits, Answered
<1>10. ClientFits(c)'
  BY <1>7, <1>8, <1>9 DEF ClientFits
<1>11. connections' \subseteq Conns /\ slots' \subseteq slots
  BY <1>3, Known DEF TypeOK
<1> QED BY <1>3, <1>5, <1>6, <1>10, <1>11, ServerMoves

-----------------------------------------------------------------------------
(* What is said to a client, and what closing does to a connection.           *)

LEMMA ShutFacts ==
  ASSUME NEW state \in ConnStates, NEW side
  PROVE  /\ Shut(state, side) \in ConnStates \ {"open"}
         /\ Shut(state, side) = "none" <=> state = "none"
         /\ state # "open" => Shut(state, side) = state
BY DEF Shut, ConnStates

\* No short conversation holds a success.
LEMMA NoSuccess ==
  /\ \A s \in {NoMessage, << <<"method", 255>> >>, MethodGranted, << <<"reply", 1>> >>,
               << <<"reply", 2>> >>} : <<"reply", 0>> \notin {s[i] : i \in DOMAIN s}
  /\ \A code \in {1, 7, 8} :
        LET s == << <<"method", 0>>, <<"reply", code>> >>
        IN  <<"reply", 0>> \notin {s[i] : i \in DOMAIN s}
<1>1. \A a : <<"reply", 0>> # a => <<"reply", 0>> \notin {<<a>>[i] : i \in DOMAIN <<a>>}
  <2> SUFFICES ASSUME NEW a, NEW i \in DOMAIN <<a>>, <<"reply", 0>> # a
               PROVE  <<a>>[i] # <<"reply", 0>>
    OBVIOUS
  <2>1. i = 1
    OBVIOUS
  <2> QED BY <2>1
<1>2. \A a, b : <<"reply", 0>> # a /\ <<"reply", 0>> # b
                  => <<"reply", 0>> \notin {<<a, b>>[i] : i \in DOMAIN <<a, b>>}
  <2> SUFFICES ASSUME NEW a, NEW b, NEW i \in DOMAIN <<a, b>>, <<"reply", 0>> # a,
                      <<"reply", 0>> # b
               PROVE  <<a, b>>[i] # <<"reply", 0>>
    OBVIOUS
  <2>1. i = 1 \/ i = 2
    OBVIOUS
  <2> QED BY <2>1
<1>3. <<"reply", 0>> \notin {NoMessage[i] : i \in DOMAIN NoMessage}
  BY DEF NoMessage
<1>4. /\ <<"reply", 0>> # <<"method", 255>> /\ <<"reply", 0>> # <<"method", 0>>
      /\ <<"reply", 0>> # <<"reply", 1>> /\ <<"reply", 0>> # <<"reply", 2>>
      /\ <<"reply", 0>> # <<"reply", 7>> /\ <<"reply", 0>> # <<"reply", 8>>
  OBVIOUS
<1> QED BY <1>1, <1>2, <1>3, <1>4 DEF MethodGranted

\* A write adds a message, or is lost with its client.
LEMMA SaidFacts ==
  ASSUME IInv, NEW c \in Clients, NEW kind \in {"method", "reply"}, NEW code \in Nat,
         replies' = Said(c, kind, code)
  PROVE  /\ replies' \in [Clients -> Seq({"method", "reply"} \X Nat)]
         /\ \A d \in Clients \ {c} : replies'[d] = replies[d]
         /\ replies'[c] = IF conn[c]["source"] = "open"
                         THEN Append(replies[c], <<kind, code>>) ELSE replies[c]
<1>1. ServedOK /\ replies[c] \in Seq({"method", "reply"} \X Nat)
  BY Known
<1>2. Append(replies[c], <<kind, code>>) \in Seq({"method", "reply"} \X Nat)
  BY <1>1
<1> QED BY <1>1, <1>2 DEF Said, ServedOK

LEMMA AppendOne ==
  ASSUME NEW S, NEW a \in S, NEW b \in S
  PROVE  Append(<<a>>, b) = <<a, b>>
<1>1. <<a>> \in Seq(S) /\ Len(<<a>>) = 1 /\ <<a>>[1] = a
  OBVIOUS
<1>2. <<a, b>> \in Seq(S) /\ Len(<<a, b>>) = 2 /\ <<a, b>>[1] = a /\ <<a, b>>[2] = b
  OBVIOUS
<1>3. /\ Append(<<a>>, b) \in Seq(S) /\ Len(Append(<<a>>, b)) = 2
      /\ Append(<<a>>, b)[1] = a /\ Append(<<a>>, b)[2] = b
  BY <1>1
<1> DEFINE s == Append(<<a>>, b)
           t == <<a, b>>
<1>4. s \in Seq(S) /\ t \in Seq(S) /\ Len(s) = 2 /\ Len(t) = 2
      /\ s[1] = t[1] /\ s[2] = t[2]
  BY <1>2, <1>3
<1> HIDE DEF s, t
<1>5. \A i \in 1 .. Len(s) : s[i] = t[i]
  <2>1. \A i \in 1 .. 2 : i = 1 \/ i = 2
    OBVIOUS
  <2> QED BY <1>4, <2>1
<1>6. s = t
  BY <1>4, <1>5, SeqEqual
<1> QED BY <1>6 DEF s, t

LEMMA Codes == GreetingCodes \subseteq {0, 1, 255} /\ RequestCodes \subseteq {0, 1, 7, 8}
BY DEF GreetingCodes, RequestCodes, GreetingCode, RequestCode

\* A result sent to a client that knows its method.
LEMMA ResultFits ==
  ASSUME IInv, NEW c \in Clients, replies[c] = MethodGranted, NEW code \in {1, 7, 8},
         replies' = Said(c, "reply", code)
  PROVE  ConversationFits(c)'
<1>1. replies'[c] = MethodGranted \/ replies'[c] = << <<"method", 0>>, <<"reply", code>> >>
  <2>1. replies'[c] \in {replies[c], Append(replies[c], <<"reply", code>>)}
    BY SaidFacts
  <2>2. <<"method", 0>> \in {"method", "reply"} \X Nat
        /\ <<"reply", code>> \in {"method", "reply"} \X Nat
    OBVIOUS
  <2>3. Append(replies[c], <<"reply", code>>) = << <<"method", 0>>, <<"reply", code>> >>
    BY <2>2, AppendOne DEF MethodGranted
  <2> QED BY <2>1, <2>3
<1>2. ~Answered(c)'
  <2>1. CASE replies'[c] = MethodGranted
    BY <2>1, NoSuccess DEF Answered
  <2>2. CASE replies'[c] = << <<"method", 0>>, <<"reply", code>> >>
    BY <2>2, NoSuccess DEF Answered
  <2> QED BY <1>1, <2>1, <2>2
<1> QED BY <1>1, <1>2 DEF ConversationFits, Results

\* One that is refused with a result, if it speaks SOCKS at all.
LEMMA RefusalFits ==
  ASSUME IInv, NEW c \in Clients, stage[c] \in {"dropping", "opened"},
         replies' = SocksReply(c, 1), UNCHANGED <<mode, dial>>,
         conn[c]["dest"] = "none" <=> conn'[c]["dest"] = "none"
  PROVE  /\ ConversationFits(c)'
         /\ mode # "dynamic" => replies'[c] = NoMessage
         /\ replies' \in [Clients -> Seq({"method", "reply"} \X Nat)]
         /\ \A d \in Clients \ {c} : replies'[d] = replies[d]
<1>1. CASE mode = "dynamic"
  <2>1. replies[c] = MethodGranted /\ replies' = Said(c, "reply", 1)
    BY <1>1, Known DEF RepliesFit, SocksReply
  <2>2. ConversationFits(c)'
    BY <2>1, ResultFits
  <2> QED BY <1>1, <2>1, <2>2, SaidFacts
<1>2. CASE mode # "dynamic"
  <2>1. replies' = replies /\ replies[c] = NoMessage
    BY <1>2, Known DEF SocksReply, RepliesFit
  <2>2. ~Answered(c)'
    BY <2>1, NoSuccess DEF Answered
  <2>3. ConversationFits(c)'
    BY <2>1, <2>2 DEF ConversationFits
  <2> QED BY <2>1, <2>3, Known DEF ServedOK
<1> QED BY <1>1, <1>2

-----------------------------------------------------------------------------
(* A server on its way.                                                       *)

\* serve returns.
LEMMA LetGoKeeps ==
  ASSUME IInv, NEW c \in Clients, LetGo(c),
         UNCHANGED <<mode, link, lifetime, ends, main, listener, loop, closers, slots, dial,
                     copies>>,
         connections' \subseteq connections,
         stage[c] \in {"greeting", "requesting", "dropping", "opened", "halfClosed",
                       "draining"},
         replies' \in [Clients -> Seq({"method", "reply"} \X Nat)],
         \A d \in Clients \ {c} : replies'[d] = replies[d],
         mode # "dynamic" => replies'[c] = NoMessage,
         ConversationFits(c)'
  PROVE  IInv'
<1>1. /\ stage'[c] = "closingDest" /\ conn'[c] = [conn[c] EXCEPT !["dest"] = Shut(@, "dest")]
      /\ \A d \in Clients \ {c} : stage'[d] = stage[d] /\ conn'[d] = conn[d]
  BY Known DEF LetGo, ServedOK
<1>2. Shut(conn[c]["dest"], "dest") \in ConnStates
      /\ (Shut(conn[c]["dest"], "dest") = "none" <=> conn[c]["dest"] = "none")
  BY Known, ShutFacts DEF Sides
<1>3. ServedOK'
  <2>1. conn'[c] \in [Sides -> ConnStates] /\ stage'[c] \in Stages
    BY <1>1, <1>2, Known DEF Sides, Stages, ServerStages
  <2> QED BY <1>1, <2>1, Known DEF ServedOK, LetGo
<1>4. \A d \in Clients \ {c} : Same(d)
  BY <1>1 DEF Same
<1>5. StageFits(c)'
  BY <1>1, Known DEF StageFits, ServerStages, Waiting, Over, loop
<1>6. SourceFits(c)' /\ RepliesFit(c)'
  BY <1>1, Known DEF SourceFits, RepliesFit, Waiting, ServerStages
<1>7. DestFits(c)'
  BY <1>1, <1>2, Known DEF DestFits, Undialed, Dialing, Sides, ServerStages
<1>8. ClientFits(c)'
  BY <1>5, <1>6, <1>7 DEF ClientFits
<1>9. connections' \subseteq Conns /\ slots' \subseteq slots
  BY Known DEF TypeOK
<1> QED BY <1>3, <1>4, <1>8, <1>9, ServerMoves

\* The answer to a greeting.
LEMMA GreetingFits ==
  ASSUME IInv, NEW c \in Clients, replies[c] = NoMessage, NEW code \in {0, 1, 255},
         replies' = GreetingReply(c, code)
  PROVE  /\ replies' \in [Clients -> Seq({"method", "reply"} \X Nat)]
         /\ \A d \in Clients \ {c} : replies'[d] = replies[d]
         /\ ConversationFits(c)'
         /\ code = 0 /\ conn[c]["source"] = "open" => replies'[c] = MethodGranted
<1> DEFINE kind == IF code = 1 THEN "reply" ELSE "method"
<1>1. kind \in {"method", "reply"} /\ code \in Nat /\ replies' = Said(c, kind, code)
  BY DEF GreetingReply
<1>2. Append(NoMessage, <<kind, code>>) = << <<kind, code>> >>
  BY DEF NoMessage
<1>3. /\ replies' \in [Clients -> Seq({"method", "reply"} \X Nat)]
      /\ \A d \in Clients \ {c} : replies'[d] = replies[d]
      /\ replies'[c] = IF conn[c]["source"] = "open"
                       THEN << <<kind, code>> >> ELSE NoMessage
  <2> HIDE DEF kind
  <2>1. /\ replies' \in [Clients -> Seq({"method", "reply"} \X Nat)]
        /\ \A d \in Clients \ {c} : replies'[d] = replies[d]
        /\ replies'[c] = IF conn[c]["source"] = "open"
                        THEN Append(replies[c], <<kind, code>>) ELSE replies[c]
    BY <1>1, SaidFacts
  <2>2. Append(replies[c], <<kind, code>>) = << <<kind, code>> >>
    BY <1>2
  <2> QED BY <2>1, <2>2
<1>4. << <<kind, code>> >> \in {<< <<"method", 255>> >>, MethodGranted, << <<"reply", 1>> >>}
      /\ (code = 0 => << <<kind, code>> >> = MethodGranted)
  BY DEF MethodGranted
<1>5. replies'[c] \in {NoMessage, << <<"method", 255>> >>, MethodGranted,
                       << <<"reply", 1>> >>, << <<"reply", 2>> >>}
  BY <1>3, <1>4
<1>6. ~Answered(c)'
  BY <1>5, NoSuccess DEF Answered
<1>7. ConversationFits(c)'
  BY <1>5, <1>6 DEF ConversationFits
<1> HIDE DEF kind
<1> QED BY <1>3, <1>4, <1>7

\* A step that only moves the server to another stage.
LEMMA StageMoves ==
  ASSUME IInv, NEW c \in Clients, NEW s \in ServerStages, stage[c] \in ServerStages,
         stage' = [stage EXCEPT ![c] = s],
         UNCHANGED <<mode, link, lifetime, ends, main, listener, loop, closers, slots, conn>>,
         ServedOK', connections' \subseteq connections,
         \A d \in Clients \ {c} : dial'[d] = dial[d] /\ replies'[d] = replies[d],
         DestFits(c)', RepliesFit(c)', ConversationFits(c)',
         s \in {"greeting", "requesting"} => mode = "dynamic"
  PROVE  IInv'
<1>1. stage'[c] = s /\ \A d \in Clients \ {c} : stage'[d] = stage[d]
  BY Known DEF ServedOK
<1>2. \A d \in Clients \ {c} : Same(d)
  BY <1>1 DEF Same
<1>3. StageFits(c)' /\ SourceFits(c)'
  BY <1>1, Known DEF StageFits, SourceFits, ServerStages, Waiting, Over, loop
<1>4. ClientFits(c)'
  BY <1>3 DEF ClientFits
<1>5. connections' \subseteq Conns /\ slots' \subseteq slots
  BY Known DEF TypeOK
<1> QED BY <1>2, <1>4, <1>5, ServerMoves

LEMMA GreetKeeps ==
  ASSUME IInv, NEW c \in Clients, Greet(c)
  PROVE  IInv'
<1>1. stage[c] = "greeting" /\ mode = "dynamic" /\ replies[c] = NoMessage
      /\ UNCHANGED <<mode, link, lifetime, ends, main, listener, loop, connections, closers,
                     slots, dial, copies>>
  BY Known DEF Greet, StageFits, RepliesFit
<1>2. PICK code \in {0, 1, 255} :
        /\ replies' = GreetingReply(c, code)
        /\ IF code = 0 /\ conn[c].source = "open"
           THEN stage' = [stage EXCEPT ![c] = "requesting"] /\ UNCHANGED conn
           ELSE LetGo(c)
  BY Codes DEF Greet
<1>3. /\ replies' \in [Clients -> Seq({"method", "reply"} \X Nat)]
      /\ \A d \in Clients \ {c} : replies'[d] = replies[d]
      /\ ConversationFits(c)'
      /\ code = 0 /\ conn[c]["source"] = "open" => replies'[c] = MethodGranted
  BY <1>1, <1>2, GreetingFits
<1>4. CASE LetGo(c)
  BY <1>1, <1>3, <1>4, LetGoKeeps
<1>5. CASE /\ replies'[c] = MethodGranted
           /\ stage' = [stage EXCEPT ![c] = "requesting"] /\ UNCHANGED conn
  <2>1. "requesting" \in ServerStages /\ stage'[c] = "requesting"
        /\ stage[c] \in ServerStages
    BY <1>1, <1>5, Known DEF ServerStages, ServedOK
  <2>2. ServedOK'
    BY <1>1, <1>3, <1>5, <2>1, Known DEF ServedOK, Stages
  <2>3. DestFits(c)'
    BY <1>1, <1>5, <2>1, Known DEF DestFits, Undialed, Dialing, Closed, ServerStages
  <2>4. RepliesFit(c)'
    BY <1>1, <1>5, <2>1 DEF RepliesFit, Waiting
  <2>5. UNCHANGED <<mode, link, lifetime, ends, main, listener, loop, closers, slots, conn>>
        /\ connections' \subseteq connections
        /\ \A d \in Clients \ {c} : dial'[d] = dial[d] /\ replies'[d] = replies[d]
    BY <1>1, <1>3, <1>5
  <2>6. stage' = [stage EXCEPT ![c] = "requesting"] /\ mode = "dynamic"
        /\ ConversationFits(c)'
    BY <1>1, <1>3, <1>5
  <2> QED BY <2>1, <2>2, <2>3, <2>4, <2>5, <2>6, StageMoves
<1> QED BY <1>2, <1>3, <1>4, <1>5

LEMMA RequestKeeps ==
  ASSUME IInv, NEW c \in Clients, Request(c)
  PROVE  IInv'
<1>1. stage[c] = "requesting" /\ mode = "dynamic" /\ replies[c] = MethodGranted
      /\ UNCHANGED <<mode, link, lifetime, ends, main, listener, loop, connections, closers,
                     slots, copies>>
  BY Known DEF Request, StageFits, RepliesFit
<1>2. PICK code \in {0, 1, 7, 8} :
          IF code = 0
          THEN /\ stage' = [stage EXCEPT ![c] = "opening"]
               /\ dial' = [dial EXCEPT ![c] = "pending"]
               /\ UNCHANGED <<conn, replies>>
          ELSE /\ replies' = Said(c, "reply", code)
               /\ LetGo(c)
               /\ UNCHANGED dial
  BY Codes DEF Request
<1>3. CASE code \in {1, 7, 8}
  <2>1. replies' = Said(c, "reply", code) /\ LetGo(c) /\ UNCHANGED dial
    BY <1>2, <1>3
  <2>2. ConversationFits(c)'
    BY <1>1, <1>3, <2>1, ResultFits
  <2>3. "reply" \in {"method", "reply"} /\ code \in Nat
    OBVIOUS
  <2>4. /\ replies' \in [Clients -> Seq({"method", "reply"} \X Nat)]
        /\ \A d \in Clients \ {c} : replies'[d] = replies[d]
    BY <2>1, <2>3, SaidFacts
  <2> QED BY <1>1, <2>1, <2>2, <2>4, LetGoKeeps
<1>4. CASE code = 0
  <2>1. /\ stage' = [stage EXCEPT ![c] = "opening"]
        /\ dial' = [dial EXCEPT ![c] = "pending"]
        /\ UNCHANGED <<conn, replies>>
    BY <1>2, <1>4
  <2>2. "opening" \in ServerStages /\ stage'[c] = "opening" /\ dial'[c] = "pending"
        /\ stage[c] \in ServerStages /\ \A d \in Clients \ {c} : dial'[d] = dial[d]
    BY <1>1, <2>1, Known DEF ServerStages, ServedOK
  <2>3. ServedOK'
    BY <1>1, <2>1, <2>2, Known DEF ServedOK, Stages
  <2>4. DestFits(c)'
    BY <1>1, <2>1, <2>2, Known DEF DestFits, Undialed, Dialing, Closed, ServerStages
  <2>5. RepliesFit(c)'
    BY <1>1, <2>1, <2>2 DEF RepliesFit, Waiting
  <2>6. ConversationFits(c)'
    <3>1. ~Answered(c)'
      BY <1>1, <2>1, NoSuccess DEF Answered
    <3> QED BY <1>1, <2>1, <3>1 DEF ConversationFits
  <2>7. connections' \subseteq connections
        /\ \A d \in Clients \ {c} : dial'[d] = dial[d] /\ replies'[d] = replies[d]
    BY <1>1, <2>1, <2>2
  <2>8. UNCHANGED <<mode, link, lifetime, ends, main, listener, loop, closers, slots, conn>>
    BY <1>1, <2>1
  <2>9. stage' = [stage EXCEPT ![c] = "opening"] /\ mode = "dynamic"
    BY <1>1, <2>1
  <2> QED BY <2>2, <2>3, <2>4, <2>5, <2>6, <2>7, <2>8, <2>9, StageMoves
<1> QED BY <1>3, <1>4

\* A conversation does not change while nothing is said, and the dial and the
\* destination stay.
LEMMA SilenceFits ==
  ASSUME IInv, NEW c \in Clients, replies' = replies, dial' = dial,
         conn'[c]["dest"] = "none" => conn[c]["dest"] = "none"
  PROVE  ConversationFits(c)'
BY Known DEF ConversationFits, Answered

LEMMA TimeOutKeeps ==
  ASSUME IInv, NEW c \in Clients, TimeOut(c)
  PROVE  IInv'
<1>1. /\ stage[c] = "opening" /\ stage' = [stage EXCEPT ![c] = "late"]
      /\ UNCHANGED <<mode, link, lifetime, ends, main, listener, loop, connections, closers,
                     slots, conn, dial, copies, replies>>
  BY DEF TimeOut
<1>2. /\ "late" \in ServerStages /\ stage[c] \in ServerStages /\ stage'[c] = "late"
      /\ connections' \subseteq connections
  BY <1>1, Known DEF ServerStages, ServedOK
<1>3. ServedOK'
  BY <1>1, Known DEF ServedOK, Stages, ServerStages
<1>4. DestFits(c)'
  BY <1>1, <1>2, Known DEF DestFits, Undialed, Dialing, Closed, ServerStages
<1>5. RepliesFit(c)'
  BY <1>1, <1>2, Known DEF RepliesFit, Waiting
<1>6. ConversationFits(c)'
  BY <1>1, SilenceFits
<1>7. UNCHANGED <<mode, link, lifetime, ends, main, listener, loop, closers, slots, conn>>
      /\ \A d \in Clients \ {c} : dial'[d] = dial[d] /\ replies'[d] = replies[d]
  BY <1>1
<1>8. stage' = [stage EXCEPT ![c] = "late"] /\ "late" \notin {"greeting", "requesting"}
  BY <1>1
<1> QED BY <1>2, <1>3, <1>4, <1>5, <1>6, <1>7, <1>8, StageMoves

\* The result of a dial is taken, in time or not.
LEMMA ResultKeeps ==
  ASSUME IInv, NEW c \in Clients, TakeResult(c) \/ LateResult(c)
  PROVE  IInv'
<1>1. /\ stage[c] \in Dialing /\ dial[c] \in {"opened", "failed"}
      /\ UNCHANGED <<mode, link, lifetime, ends, main, listener, loop, closers, slots, dial,
                     copies, replies>>
  BY DEF TakeResult, LateResult, Dialing
<1>2. PICK s \in {"opened", "dropping"}, state \in ConnStates \ {"none"} :
        /\ stage' = [stage EXCEPT ![c] = s]
        /\ \/ /\ dial[c] = "opened" /\ conn' = [conn EXCEPT ![c].dest = state]
              /\ connections' = connections \cup {<<c, "dest">>}
           \/ dial[c] = "failed" /\ UNCHANGED <<conn, connections>>
  <2>1. Shut("open", "dest") \in ConnStates \ {"none"} /\ Opened("dest") \in ConnStates \ {"none"}
    BY DEF Shut, Opened, ConnStates
  <2>2. CASE TakeResult(c)
    BY <1>1, <2>1, <2>2 DEF TakeResult, Tracked
  <2>3. CASE LateResult(c)
    BY <1>1, <2>1, <2>3 DEF LateResult, LateConnection, Tracked
  <2> QED BY <2>2, <2>3
<1>3. /\ stage'[c] = s /\ \A d \in Clients \ {c} : stage'[d] = stage[d] /\ conn'[d] = conn[d]
  BY <1>2, Known DEF ServedOK
<1>4. conn'[c] = [conn[c] EXCEPT !["dest"] = IF dial[c] = "opened" THEN state ELSE @]
  BY <1>2, Known DEF ServedOK, Sides
<1>5. ServedOK'
  <2>1. conn'[c] \in [Sides -> ConnStates] /\ s \in Stages
    BY <1>4, Known DEF Stages, ServerStages, Sides
  <2> QED BY <1>1, <1>2, <2>1, Known DEF ServedOK
<1>6. /\ connections' \subseteq connections \cup {<<c, "dest">>}
      /\ conn[c]["dest"] = "none" /\ dial[c] = "failed" => connections' = connections
  BY <1>1, <1>2, Known DEF DestFits
<1>7. \A d \in Clients \ {c} : Same(d)
  BY <1>1, <1>3, <1>6 DEF Same
<1>8. StageFits(c)'
  BY <1>1, <1>3, Known DEF StageFits, Dialing, ServerStages, Waiting, Over, loop
<1>9. SourceFits(c)'
  <2>1. <<c, "source">> \in connections' => <<c, "source">> \in connections
    BY <1>6
  <2> QED BY <1>1, <1>3, <2>1, Known DEF SourceFits, Dialing, ServerStages, Waiting
<1>10. DestFits(c)'
  BY <1>1, <1>3, <1>4, <1>6, Known DEF DestFits, Dialing, Undialed, ServerStages, Sides
<1>11. RepliesFit(c)'
  BY <1>1, <1>3, Known DEF RepliesFit, Waiting, Dialing
<1>12. ConversationFits(c)'
  <2>1. conn'[c]["dest"] = "none" => conn[c]["dest"] = "none"
    BY <1>1, Known DEF DestFits
  <2> QED BY <1>1, <2>1, SilenceFits
<1>13. ClientFits(c)'
  BY <1>8, <1>9, <1>10, <1>11, <1>12 DEF ClientFits
<1>14. connections' \subseteq Conns /\ slots' \subseteq slots
  BY <1>1, <1>6, Known DEF TypeOK, Conns, Sides
<1>15. UNCHANGED <<mode, link, lifetime, ends, main, listener, loop, closers>>
  BY <1>1
<1> QED BY <1>5, <1>7, <1>13, <1>14, <1>15, ServerMoves

\* The client is told that it has no destination.
LEMMA TurnedDownKeeps ==
  ASSUME IInv, NEW c \in Clients, Dropped(c) \/ Refuse(c)
  PROVE  IInv'
<1>1. /\ stage[c] \in {"dropping", "opened"} /\ replies' = SocksReply(c, 1) /\ LetGo(c)
      /\ connections' \subseteq connections
      /\ UNCHANGED <<mode, link, lifetime, ends, main, listener, loop, closers, slots, dial,
                     copies>>
  BY DEF Dropped, Refuse, Forget
<1>2. conn'[c]["dest"] = Shut(conn[c]["dest"], "dest")
  BY <1>1, Known DEF LetGo, ServedOK, Sides
<1>3. conn[c]["dest"] = "none" <=> conn'[c]["dest"] = "none"
  BY <1>2, Known, ShutFacts DEF Sides
<1>4. /\ ConversationFits(c)'
      /\ mode # "dynamic" => replies'[c] = NoMessage
      /\ replies' \in [Clients -> Seq({"method", "reply"} \X Nat)]
      /\ \A d \in Clients \ {c} : replies'[d] = replies[d]
  BY <1>1, <1>3, RefusalFits
<1> QED BY <1>1, <1>4, LetGoKeeps

LEMMA SecondResultKeeps ==
  ASSUME IInv, NEW c \in Clients, SecondResult(c)
  PROVE  IInv'
<1>1. /\ stage[c] \in {"halfClosed", "draining"} /\ LetGo(c)
      /\ UNCHANGED <<mode, link, lifetime, ends, main, listener, loop, connections, closers,
                     slots, dial, copies, replies>>
  BY DEF SecondResult
<1>2. conn'[c]["dest"] = Shut(conn[c]["dest"], "dest")
  BY <1>1, Known DEF LetGo, ServedOK, Sides
<1>3. conn'[c]["dest"] = "none" => conn[c]["dest"] = "none"
  BY <1>2, Known, ShutFacts DEF Sides
<1>4. ConversationFits(c)'
  BY <1>1, <1>3, SilenceFits
<1>5. /\ replies' \in [Clients -> Seq({"method", "reply"} \X Nat)]
      /\ \A d \in Clients \ {c} : replies'[d] = replies[d]
      /\ mode # "dynamic" => replies'[c] = NoMessage
      /\ connections' \subseteq connections
  BY <1>1, Known DEF ServedOK, RepliesFit
<1>6. UNCHANGED <<mode, link, lifetime, ends, main, listener, loop, closers, slots, dial,
                  copies>>
  BY <1>1
<1> QED BY <1>1, <1>4, <1>5, <1>6, LetGoKeeps

\* Success is said to a client whose destination is open.
LEMMA GrantKeeps ==
  ASSUME IInv, NEW c \in Clients, Grant(c)
  PROVE  IInv'
<1>1. /\ stage[c] = "opened" /\ dial[c] = "opened" /\ conn[c]["dest"] # "none"
      /\ replies' = SocksReply(c, 0)
      /\ UNCHANGED <<mode, link, lifetime, ends, main, listener, loop, connections, closers,
                     slots, dial>>
  BY Known DEF Grant, MayGrant, DestFits, Dialing
<1>2. CASE mode = "dynamic" /\ conn[c]["source"] # "open"
  <2>1. LetGo(c) /\ UNCHANGED copies
    BY <1>2 DEF Grant
  <2>2. /\ replies' \in [Clients -> Seq({"method", "reply"} \X Nat)]
        /\ \A d \in Clients \ {c} : replies'[d] = replies[d]
        /\ replies'[c] = replies[c]
    BY <1>1, <1>2, SaidFacts DEF SocksReply
  <2>3. conn'[c]["dest"] = Shut(conn[c]["dest"], "dest")
    BY <2>1, Known DEF LetGo, ServedOK, Sides
  <2>4. conn'[c]["dest"] # "none"
    BY <1>1, <2>3, Known, ShutFacts DEF Sides
  <2>5. ConversationFits(c)'
    BY <1>1, <2>2, <2>4, Known DEF ConversationFits, Answered
  <2>6. connections' \subseteq connections
        /\ UNCHANGED <<mode, link, lifetime, ends, main, listener, loop, closers, slots, dial,
                       copies>>
    BY <1>1, <2>1
  <2> QED BY <1>1, <1>2, <2>1, <2>2, <2>5, <2>6, LetGoKeeps
<1>3. CASE ~(mode = "dynamic" /\ conn[c]["source"] # "open")
  <2>1. /\ stage' = [stage EXCEPT ![c] = "copying"] /\ UNCHANGED conn
        /\ copies' = [copies EXCEPT ![c] = [d \in Directions |-> "running"]]
    BY <1>3 DEF Grant
  <2>2. "copying" \in ServerStages /\ stage[c] \in ServerStages /\ stage'[c] = "copying"
    BY <1>1, <2>1, Known DEF ServerStages, ServedOK
  <2>3. /\ replies' \in [Clients -> Seq({"method", "reply"} \X Nat)]
        /\ \A d \in Clients \ {c} : replies'[d] = replies[d]
        /\ mode # "dynamic" => replies'[c] = NoMessage
        /\ \/ mode # "dynamic" /\ replies'[c] = replies[c]
           \/ replies'[c] = << <<"method", 0>>, <<"reply", 0>> >>
    <3>1. CASE mode = "dynamic"
      <4>1. replies' = Said(c, "reply", 0) /\ replies[c] = MethodGranted
        BY <1>1, <3>1, Known DEF SocksReply, RepliesFit
      <4>2. /\ replies' \in [Clients -> Seq({"method", "reply"} \X Nat)]
            /\ \A d \in Clients \ {c} : replies'[d] = replies[d]
            /\ replies'[c] = Append(MethodGranted, <<"reply", 0>>)
        BY <1>3, <3>1, <4>1, SaidFacts
      <4>3. <<"method", 0>> \in {"method", "reply"} \X Nat
            /\ <<"reply", 0>> \in {"method", "reply"} \X Nat
        OBVIOUS
      <4>4. Append(MethodGranted, <<"reply", 0>>) = << <<"method", 0>>, <<"reply", 0>> >>
        BY <4>3, AppendOne DEF MethodGranted
      <4> QED BY <3>1, <4>2, <4>4
    <3>2. CASE mode # "dynamic"
      BY <1>1, <3>2, Known DEF SocksReply, RepliesFit, ServedOK
    <3> QED BY <3>1, <3>2
  <2>4. ServedOK'
    <3>1. [d \in Directions |-> "running"]
            \in [Directions -> {"none", "running", "halfClosing", "eof", "failed"}]
      OBVIOUS
    <3> QED BY <1>1, <2>1, <2>3, <3>1, Known DEF ServedOK, Stages, ServerStages
  <2>5. DestFits(c)'
    BY <1>1, <2>1, <2>2, Known DEF DestFits, Undialed, Dialing, Closed, ServerStages
  <2>6. RepliesFit(c)'
    BY <1>1, <2>2, <2>3 DEF RepliesFit, Waiting
  <2>7. ConversationFits(c)'
    <3>1. dial'[c] = "opened" /\ conn'[c]["dest"] # "none"
      BY <1>1, <2>1
    <3>2. CASE replies'[c] = replies[c]
      BY <3>1, <3>2, Known DEF ConversationFits
    <3>3. CASE replies'[c] = << <<"method", 0>>, <<"reply", 0>> >>
      <4>1. <<"reply", 0>> \in Results
        BY DEF Results
      <4> QED BY <3>1, <3>3, <4>1 DEF ConversationFits
    <3> QED BY <2>3, <3>2, <3>3
  <2>8. UNCHANGED <<mode, link, lifetime, ends, main, listener, loop, closers, slots, conn>>
        /\ \A d \in Clients \ {c} : dial'[d] = dial[d] /\ replies'[d] = replies[d]
    BY <1>1, <2>1, <2>3
  <2>9. stage' = [stage EXCEPT ![c] = "copying"]
        /\ ("copying" \in {"greeting", "requesting"} => mode = "dynamic")
    BY <2>1
  <2>10. connections' \subseteq connections
    BY <1>1
  <2> QED BY <2>2, <2>4, <2>5, <2>6, <2>7, <2>8, <2>9, <2>10, StageMoves
<1> QED BY <1>2, <1>3

LEMMA BrokenKeeps ==
  ASSUME IInv, NEW c \in Clients, Broken(c)
  PROVE  IInv'
<1>1. /\ stage[c] = "breaking" /\ stage' = [stage EXCEPT ![c] = "draining"]
      /\ UNCHANGED <<mode, link, lifetime, ends, main, listener, loop, connections, closers,
                     slots, conn, dial, copies, replies>>
  BY DEF Broken
<1>2. /\ "draining" \in ServerStages /\ stage[c] \in ServerStages /\ stage'[c] = "draining"
      /\ connections' \subseteq connections
  BY <1>1, Known DEF ServerStages, ServedOK
<1>3. ServedOK'
  BY <1>1, Known DEF ServedOK, Stages, ServerStages
<1>4. DestFits(c)'
  BY <1>1, <1>2, Known DEF DestFits, Undialed, Dialing, Closed, ServerStages
<1>5. RepliesFit(c)'
  BY <1>1, <1>2, Known DEF RepliesFit, Waiting
<1>6. ConversationFits(c)'
  BY <1>1, SilenceFits
<1>7. UNCHANGED <<mode, link, lifetime, ends, main, listener, loop, closers, slots, conn>>
      /\ \A d \in Clients \ {c} : dial'[d] = dial[d] /\ replies'[d] = replies[d]
  BY <1>1
<1>8. stage' = [stage EXCEPT ![c] = "draining"] /\ "draining" \notin {"greeting", "requesting"}
  BY <1>1
<1> QED BY <1>2, <1>3, <1>4, <1>5, <1>6, <1>7, <1>8, StageMoves

LEMMA FirstResultKeeps ==
  ASSUME IInv, NEW c \in Clients, FirstResult(c)
  PROVE  IInv'
<1>1. /\ stage[c] = "copying"
      /\ UNCHANGED <<mode, link, lifetime, ends, main, listener, loop, connections, closers,
                     slots, dial, copies, replies>>
  BY DEF FirstResult
<1>2. PICK s \in {"breaking", "halfClosed"} :
        /\ stage' = [stage EXCEPT ![c] = s]
        /\ \/ conn' = [conn EXCEPT ![c] = [e \in Sides |-> Shut(@[e], e)]]
           \/ UNCHANGED conn
  BY DEF FirstResult
<1>3. /\ stage'[c] = s /\ \A d \in Clients \ {c} : stage'[d] = stage[d] /\ conn'[d] = conn[d]
  BY <1>2, Known DEF ServedOK
<1>4. /\ conn' \in [Clients -> [Sides -> ConnStates]]
      /\ conn'[c]["dest"] = "none" <=> conn[c]["dest"] = "none"
  <2>1. CASE UNCHANGED conn
    BY <2>1, Known DEF ServedOK
  <2>2. CASE conn' = [conn EXCEPT ![c] = [e \in Sides |-> Shut(conn[c][e], e)]]
    <3>1. \A e \in Sides : /\ Shut(conn[c][e], e) \in ConnStates
                           /\ Shut(conn[c][e], e) = "none" <=> conn[c][e] = "none"
      BY Known, ShutFacts
    <3> QED BY <2>2, <3>1, Known DEF ServedOK, Sides
  <2> QED BY <1>2, <2>1, <2>2
<1>5. ServedOK'
  BY <1>1, <1>2, <1>4, Known DEF ServedOK, Stages, ServerStages
<1>6. \A d \in Clients \ {c} : Same(d)
  BY <1>1, <1>3 DEF Same
<1>7. StageFits(c)' /\ RepliesFit(c)'
  BY <1>1, <1>3, Known DEF StageFits, RepliesFit, ServerStages, Waiting, Over, loop
<1>8. SourceFits(c)'
  BY <1>1, <1>3, Known DEF SourceFits, ServerStages, Waiting
<1>9. DestFits(c)'
  BY <1>1, <1>3, <1>4, Known DEF DestFits, Undialed, Dialing, ServerStages
<1>10. ConversationFits(c)'
  BY <1>1, <1>4, SilenceFits
<1>11. ClientFits(c)'
  BY <1>7, <1>8, <1>9, <1>10 DEF ClientFits
<1>12. connections' \subseteq Conns /\ slots' \subseteq slots
       /\ UNCHANGED <<mode, link, lifetime, ends, main, listener, loop, closers>>
  BY <1>1, Known DEF TypeOK
<1> QED BY <1>5, <1>6, <1>11, <1>12, ServerMoves

LEMMA DestReleasedKeeps ==
  ASSUME IInv, NEW c \in Clients, DestReleased(c)
  PROVE  IInv'
<1>1. /\ stage[c] = "closingDest" /\ Closed(c, "dest")
      /\ connections' = connections \ {<<c, "dest">>} /\ slots' = slots
      /\ UNCHANGED <<mode, link, lifetime, ends, main, listener, loop, closers, dial, copies,
                     replies>>
  BY DEF DestReleased, Forget, ReleasedSlots
<1>2. /\ stage' = [stage EXCEPT ![c] = "closingSource"]
      /\ conn' = [conn EXCEPT ![c].source = Shut(@, "source")]
  BY DEF DestReleased
<1>3. /\ stage'[c] = "closingSource"
      /\ conn'[c] = [conn[c] EXCEPT !["source"] = Shut(@, "source")]
      /\ \A d \in Clients \ {c} : stage'[d] = stage[d] /\ conn'[d] = conn[d]
  BY <1>2, Known DEF ServedOK
<1>4. Shut(conn[c]["source"], "source") \in ConnStates
  BY Known, ShutFacts DEF Sides
<1>5. conn'[c] \in [Sides -> ConnStates] /\ conn'[c]["dest"] = conn[c]["dest"]
  BY <1>3, <1>4, Known DEF Sides
<1>6. ServedOK'
  BY <1>1, <1>2, <1>5, Known DEF ServedOK, Stages, ServerStages
<1>7. \A d \in Clients \ {c} : Same(d)
  BY <1>1, <1>3 DEF Same
<1>8. StageFits(c)' /\ RepliesFit(c)'
  BY <1>1, <1>3, Known DEF StageFits, RepliesFit, ServerStages, Waiting, Over, loop
<1>9. SourceFits(c)'
  BY <1>1, <1>3, Known DEF SourceFits, ServerStages, Waiting
<1>10. DestFits(c)'
  BY <1>1, <1>3, <1>5, Known DEF DestFits, Undialed, Dialing, ServerStages, Closed
<1>11. ConversationFits(c)'
  BY <1>1, <1>5, SilenceFits
<1>12. ClientFits(c)'
  BY <1>8, <1>9, <1>10, <1>11 DEF ClientFits
<1>13. connections' \subseteq Conns /\ slots' \subseteq slots
       /\ UNCHANGED <<mode, link, lifetime, ends, main, listener, loop, closers>>
  BY <1>1, Known DEF TypeOK
<1> QED BY <1>6, <1>7, <1>12, <1>13, ServerMoves

LEMMA ServerEndsKeeps ==
  ASSUME IInv, NEW c \in Clients, ServerEnds(c)
  PROVE  IInv'
<1>1. /\ stage[c] = "closingSource" /\ Closed(c, "source")
      /\ stage' = [stage EXCEPT ![c] = "done"]
      /\ connections' = connections \ {<<c, "source">>} /\ slots' = slots \ {c}
      /\ UNCHANGED <<mode, link, lifetime, ends, main, listener, loop, closers, conn, dial,
                     copies, replies>>
  BY DEF ServerEnds, Forget, ReleasedSlots
<1>2. stage'[c] = "done" /\ \A d \in Clients \ {c} : stage'[d] = stage[d]
  BY <1>1, Known DEF ServedOK
<1>3. ServedOK'
  BY <1>1, Known DEF ServedOK, Stages
<1>4. \A d \in Clients \ {c} : Same(d)
  BY <1>1, <1>2 DEF Same
<1>5. StageFits(c)' /\ RepliesFit(c)'
  BY <1>1, <1>2, Known DEF StageFits, RepliesFit, ServerStages, Waiting, Over, loop
<1>6. SourceFits(c)'
  BY <1>1, <1>2, Known DEF SourceFits, Waiting, Closed
<1>7. DestFits(c)'
  BY <1>1, <1>2, Known DEF DestFits, Undialed, Dialing, ServerStages, Closed
<1>8. ConversationFits(c)'
  BY <1>1, SilenceFits
<1>9. ClientFits(c)'
  BY <1>5, <1>6, <1>7, <1>8 DEF ClientFits
<1>10. connections' \subseteq Conns /\ slots' \subseteq slots
       /\ UNCHANGED <<mode, link, lifetime, ends, main, listener, loop, closers>>
  BY <1>1, Known DEF TypeOK
<1> QED BY <1>3, <1>4, <1>9, <1>10, ServerMoves

-----------------------------------------------------------------------------
(* Copies and closers.                                                        *)

LEMMA CopyKeeps ==
  ASSUME IInv, NEW c \in Clients, CopyStep(c)
  PROVE  IInv'
<1>1. /\ UNCHANGED <<mode, link, lifetime, ends, main, listener, loop, connections, closers,
                     slots, stage, conn, dial, replies>>
      /\ \E d \in Directions, result \in {"halfClosing", "eof", "failed"} :
            copies' = [copies EXCEPT ![c][d] = result]
  BY DEF CopyStep, CopyEnds, HalfCloses
<1>2. ServedOK'
  BY <1>1, Known DEF ServedOK, Directions
<1>3. \A d \in Clients \ {c} : Same(d)
  BY <1>1 DEF Same
<1>4. StageFits(c)' /\ SourceFits(c)' /\ DestFits(c)' /\ RepliesFit(c)'
  BY <1>1, Known DEF StageFits, SourceFits, DestFits, RepliesFit, Waiting, Closed, Over, loop
<1>5. ConversationFits(c)'
  BY <1>1, SilenceFits
<1>6. ClientFits(c)'
  BY <1>4, <1>5 DEF ClientFits
<1>7. connections' \subseteq Conns /\ slots' \subseteq slots
      /\ UNCHANGED <<mode, link, lifetime, ends, main, listener, loop, closers>>
  BY <1>1, Known DEF TypeOK
<1> QED BY <1>2, <1>3, <1>6, <1>7, ServerMoves

\* A connection that is not closed begins or ends its closing.
LEMMA ClosingKeeps ==
  ASSUME IInv, NEW c \in Clients, NEW side \in Sides, NEW state \in {"closing", "closed"},
         conn[c][side] \in {"open", "closing"},
         conn' = [conn EXCEPT ![c][side] = state],
         UNCHANGED <<mode, link, lifetime, ends, main, listener, loop, connections, closers,
                     slots, stage, dial, copies, replies>>
  PROVE  IInv'
<1>1. /\ conn'[c] = [conn[c] EXCEPT ![side] = state]
      /\ \A d \in Clients \ {c} : conn'[d] = conn[d]
  BY Known DEF ServedOK
<1>2. conn'[c] \in [Sides -> ConnStates]
  BY <1>1, Known DEF ConnStates
<1>3. \A e \in Sides : conn'[c][e] = IF e = side THEN state ELSE conn[c][e]
  BY <1>1, Known
<1>4. ServedOK'
  BY <1>2, Known DEF ServedOK, ConnStates
<1>5. \A d \in Clients \ {c} : Same(d)
  BY <1>1 DEF Same
<1>6. StageFits(c)' /\ RepliesFit(c)'
  BY Known DEF StageFits, RepliesFit, Waiting, Over, loop
<1>7. SourceFits(c)' /\ DestFits(c)'
  BY <1>3, Known DEF SourceFits, DestFits, Waiting, Closed, Sides
<1>8. ConversationFits(c)'
  BY <1>3, SilenceFits DEF Sides
<1>9. ClientFits(c)'
  BY <1>6, <1>7, <1>8 DEF ClientFits
<1>10. connections' \subseteq Conns /\ slots' \subseteq slots
      /\ UNCHANGED <<mode, link, lifetime, ends, main, listener, loop, closers>>
  BY Known DEF TypeOK
<1> QED BY <1>4, <1>5, <1>9, <1>10, ServerMoves

LEMMA ChannelClosesKeeps ==
  ASSUME IInv, NEW c \in Clients, NEW side \in Sides, ChannelCloses(c, side)
  PROVE  IInv'
BY ClosingKeeps DEF ChannelCloses

LEMMA CloserBeginsKeeps ==
  ASSUME IInv, NEW k \in Conns, CloserBegins(k)
  PROVE  IInv'
<1>1. k[1] \in Clients /\ k[2] \in Sides /\ conn[k[1]][k[2]] = "open"
  BY DEF Conns, CloserBegins
<1>2. PICK state \in {"closing", "closed"} : conn' = [conn EXCEPT ![k[1]][k[2]] = state]
  BY <1>1 DEF CloserBegins, Shut
<1> QED BY <1>1, <1>2, ClosingKeeps DEF CloserBegins

-----------------------------------------------------------------------------
(* Clients arrive, and the accept loop takes them.                            *)

\* A client that waits moves on without the loop.
LEMMA WaitingMoves ==
  ASSUME IInv, NEW c \in Clients, Waiting(c), NEW s \in {"queued", "done"},
         s = "queued" => listener # "none",
         s = "done" => acceptor # "off",
         stage' = [stage EXCEPT ![c] = s],
         UNCHANGED <<mode, link, lifetime, ends, main, listener, loop, connections, closers,
                     slots, conn, dial, copies, replies>>
  PROVE  IInv'
<1>1. stage'[c] = s /\ \A d \in Clients \ {c} : stage'[d] = stage[d]
  BY Known DEF ServedOK
<1>2. ServedOK'
  BY Known DEF ServedOK, Stages
<1>3. \A d \in Clients \ {c} : Same(d)
  BY <1>1 DEF Same
<1>4. StageFits(c)' /\ RepliesFit(c)'
  BY <1>1, Known DEF StageFits, RepliesFit, Waiting, Over, loop, ServerStages
<1>5. SourceFits(c)' /\ DestFits(c)'
  BY <1>1, Known DEF SourceFits, DestFits, Waiting, Closed, Undialed, Dialing, ServerStages
<1>6. ConversationFits(c)'
  BY SilenceFits
<1>7. ClientFits(c)'
  BY <1>4, <1>5, <1>6 DEF ClientFits
<1>8. connections' \subseteq Conns /\ slots' \subseteq slots
      /\ UNCHANGED <<mode, link, lifetime, ends, main, listener, loop, closers>>
  BY Known DEF TypeOK
<1> QED BY <1>2, <1>3, <1>7, <1>8, ServerMoves

LEMMA ArriveKeeps ==
  ASSUME IInv, NEW c \in Clients, Arrive(c)
  PROVE  IInv'
<1>1. Waiting(c) /\ stage' = [stage EXCEPT ![c] = "queued"] /\ listener # "none"
  BY DEF Arrive, Waiting
<1> QED BY <1>1, WaitingMoves DEF Arrive

LEMMA AcceptLostKeeps ==
  ASSUME IInv, NEW c \in Clients, AcceptLost(c)
  PROVE  IInv'
<1>1. Waiting(c) /\ stage' = [stage EXCEPT ![c] = "done"] /\ acceptor # "off"
  BY DEF AcceptLost, Waiting
<1> QED BY <1>1, WaitingMoves DEF AcceptLost

\* A step of the accept loop that concerns one client.
LEMMA LoopMoves ==
  ASSUME IInv, NEW c \in Clients,
         UNCHANGED <<mode, link, lifetime, ends, main, listener, closers>>,
         acceptor \notin {"off", "joined"},
         acceptor' \in {"accepting", "admitting", "ending", "refusing", "joined"},
         held \in {c, NoClient}, held' \in {c, NoClient}, LoopFits',
         ServedOK', connections' \subseteq Conns, slots' \subseteq Clients, SlotsFit',
         \A d \in Clients \ {c} : Same(d),
         ClientFits(c)'
  PROVE  IInv'
<1>1. TypeOK /\ MainFits /\ ~Over
  BY DEF IInv, MainFits
<1>2. ASSUME NEW d \in Clients PROVE ClientFits(d)'
  <2>1. CASE d # c
    <3>1. held # d /\ held' # d /\ stage[d] # "accepted"
      BY <2>1, Known, NoClientAssumption DEF StageFits
    <3> QED BY <1>1, <2>1, <3>1, SameKeeps DEF Over
  <2> QED BY <2>1
<1>3. TypeOK'
  BY <1>1 DEF TypeOK, ServedOK, link, lifetime, ends
<1>4. MainFits'
  BY <1>1 DEF MainFits, Over
<1> QED BY <1>2, <1>3, <1>4 DEF IInv

LEMMA AcceptKeeps ==
  ASSUME IInv, NEW c \in Clients, Accept(c)
  PROVE  IInv'
<1>1. /\ acceptor = "accepting" /\ held = NoClient /\ Waiting(c)
      /\ acceptor' = "admitting" /\ held' = c
      /\ stage' = [stage EXCEPT ![c] = "accepted"]
      /\ connections' = connections \cup {<<c, "source">>}
      /\ UNCHANGED <<mode, link, lifetime, ends, main, listener, closers, slots, dial, copies,
                     replies>>
  BY DEF Accept, IInv, LoopFits, Waiting, Tracked
<1>2. PICK state \in ConnStates \ {"none"} : conn' = [conn EXCEPT ![c].source = state]
  BY DEF Accept, Opened, Shut, ConnStates
<1>3. /\ stage'[c] = "accepted" /\ conn'[c] = [conn[c] EXCEPT !["source"] = state]
      /\ \A d \in Clients \ {c} : stage'[d] = stage[d] /\ conn'[d] = conn[d]
  BY <1>1, <1>2, Known DEF ServedOK
<1>4. conn'[c] \in [Sides -> ConnStates] /\ conn'[c]["dest"] = conn[c]["dest"]
  BY <1>3, Known DEF Sides
<1>5. ServedOK'
  BY <1>1, <1>2, <1>4, Known DEF ServedOK, Stages
<1>6. \A d \in Clients \ {c} : Same(d)
  BY <1>1, <1>3 DEF Same
<1>7. ~Over
  BY <1>1 DEF IInv, MainFits
<1>8. StageFits(c)' /\ RepliesFit(c)'
  BY <1>1, <1>3, <1>7, Known DEF StageFits, RepliesFit, Waiting, Over, ServerStages
<1>9. SourceFits(c)'
  BY <1>1, <1>3 DEF SourceFits, Waiting
<1>10. DestFits(c)'
  BY <1>1, <1>3, <1>4, Known DEF DestFits, Waiting, Closed, Undialed, Dialing, ServerStages
<1>11. ConversationFits(c)'
  BY <1>1, <1>4, SilenceFits
<1>12. ClientFits(c)'
  BY <1>8, <1>9, <1>10, <1>11 DEF ClientFits
<1>13. LoopFits' /\ SlotsFit'
  BY <1>1, NoClientAssumption DEF IInv, LoopFits, SlotsFit
<1>14. connections' \subseteq Conns /\ slots' \subseteq Clients
  BY <1>1, Known DEF TypeOK, Conns, Sides
<1>15. UNCHANGED <<mode, link, lifetime, ends, main, listener, closers>>
  BY <1>1
<1> QED BY <1>1, <1>5, <1>6, <1>12, <1>13, <1>14, <1>15, LoopMoves

LEMMA AdmitKeeps ==
  ASSUME IInv, NEW c \in Clients, Admit(c)
  PROVE  IInv'
<1>1. /\ acceptor = "admitting" /\ held = c /\ Cardinality(slots) < Slots
      /\ slots' = slots \cup {c} /\ acceptor' = "accepting" /\ held' = NoClient
      /\ UNCHANGED <<mode, link, lifetime, ends, main, listener, connections, closers, conn,
                     copies, replies>>
  BY DEF Admit
<1>2. stage[c] = "accepted" /\ replies[c] = NoMessage /\ ~Over
  BY <1>1, Known DEF StageFits, RepliesFit, IInv, MainFits
<1>3. PICK s \in {"greeting", "opening"} :
        /\ stage' = [stage EXCEPT ![c] = s]
        /\ (s = "greeting") <=> (mode = "dynamic")
        /\ dial' = [dial EXCEPT ![c] = IF s = "greeting" THEN @ ELSE "pending"]
  <2>1. CASE mode = "dynamic"
    BY <2>1 DEF Admit
  <2>2. CASE mode # "dynamic"
    BY <2>2 DEF Admit
  <2> QED BY <2>1, <2>2
<1>4. /\ stage'[c] = s /\ dial'[c] = IF s = "greeting" THEN dial[c] ELSE "pending"
      /\ \A d \in Clients \ {c} : stage'[d] = stage[d] /\ dial'[d] = dial[d]
  BY <1>3, Known DEF ServedOK
<1>5. ServedOK'
  BY <1>1, <1>3, Known DEF ServedOK, Stages, ServerStages
<1>6. \A d \in Clients \ {c} : Same(d)
  BY <1>1, <1>4 DEF Same
<1>7. StageFits(c)'
  BY <1>1, <1>2, <1>3, <1>4, Known, NoClientAssumption
     DEF StageFits, Waiting, Over, ServerStages
<1>8. RepliesFit(c)'
  BY <1>1, <1>2, <1>3, <1>4 DEF RepliesFit, Waiting
<1>9. SourceFits(c)' /\ DestFits(c)'
  BY <1>1, <1>2, <1>4, Known
     DEF SourceFits, DestFits, Waiting, Closed, Undialed, Dialing, ServerStages
<1>10. ConversationFits(c)'
  <2>1. ~Answered(c)'
    BY <1>1, <1>2, NoSuccess DEF Answered
  <2> QED BY <1>1, <1>2, <2>1 DEF ConversationFits
<1>11. ClientFits(c)'
  BY <1>7, <1>8, <1>9, <1>10 DEF ClientFits
<1>12. SlotsFit'
  <2>1. IsFiniteSet(slots) /\ c \notin slots
    BY <1>2, Known DEF IInv, SlotsFit, StageFits, ServerStages
  <2>2. IsFiniteSet(slots') /\ Cardinality(slots') = Cardinality(slots) + 1
    BY <1>1, <2>1, FS_AddElement
  <2>3. Cardinality(slots) \in Nat
    BY <2>1, FS_CardinalityType
  <2> QED BY <1>1, <2>2, <2>3, SlotsAssumption DEF SlotsFit
<1>13. LoopFits' /\ connections' \subseteq Conns /\ slots' \subseteq Clients
  BY <1>1, Known DEF LoopFits, TypeOK
<1>14. UNCHANGED <<mode, link, lifetime, ends, main, listener, closers>>
  BY <1>1
<1> QED BY <1>1, <1>5, <1>6, <1>11, <1>12, <1>13, <1>14, LoopMoves

LEMMA TurnAwayKeeps ==
  ASSUME IInv, NEW c \in Clients, TurnAway(c)
  PROVE  IInv'
<1>1. /\ acceptor = "admitting" /\ held = c /\ acceptor' \in {"ending", "refusing"}
      /\ conn' = [conn EXCEPT ![c].source = Shut(@, "source")]
      /\ replies' \in {replies, SocksReply(c, 2)}
      /\ UNCHANGED <<mode, link, lifetime, ends, main, listener, held, connections, closers,
                     slots, stage, dial, copies>>
  BY DEF TurnAway
<1>2. stage[c] = "accepted" /\ replies[c] = NoMessage /\ ~Over
  BY <1>1, Known DEF StageFits, RepliesFit, IInv, MainFits
<1>3. conn'[c] = [conn[c] EXCEPT !["source"] = Shut(@, "source")]
      /\ \A d \in Clients \ {c} : conn'[d] = conn[d]
  BY <1>1, Known DEF ServedOK
<1>4. conn'[c] \in [Sides -> ConnStates] /\ conn'[c]["dest"] = conn[c]["dest"]
  <2>1. Shut(conn[c]["source"], "source") \in ConnStates
    BY Known, ShutFacts DEF Sides
  <2> QED BY <1>3, <2>1, Known DEF Sides
<1>5. /\ replies' \in [Clients -> Seq({"method", "reply"} \X Nat)]
      /\ \A d \in Clients \ {c} : replies'[d] = replies[d]
      /\ mode # "dynamic" => replies'[c] = NoMessage
      /\ replies'[c] \in {NoMessage, << <<"reply", 2>> >>}
  <2>1. CASE replies' = replies
    BY <1>2, <2>1, Known DEF ServedOK
  <2>2. CASE replies' = Said(c, "reply", 2) /\ mode = "dynamic"
    <3>1. /\ replies' \in [Clients -> Seq({"method", "reply"} \X Nat)]
          /\ \A d \in Clients \ {c} : replies'[d] = replies[d]
          /\ replies'[c] \in {replies[c], Append(replies[c], <<"reply", 2>>)}
      BY <2>2, SaidFacts
    <3>2. Append(NoMessage, <<"reply", 2>>) = << <<"reply", 2>> >>
      BY DEF NoMessage
    <3> QED BY <1>2, <2>2, <3>1, <3>2
  <2> QED BY <1>1, <2>1, <2>2 DEF SocksReply
<1>6. ServedOK'
  BY <1>1, <1>4, <1>5, Known DEF ServedOK
<1>7. \A d \in Clients \ {c} : Same(d)
  BY <1>1, <1>3, <1>5 DEF Same
<1>8. StageFits(c)'
  BY <1>1, <1>2, Known DEF StageFits, Waiting, Over
<1>9. RepliesFit(c)'
  BY <1>1, <1>2, <1>5 DEF RepliesFit, Waiting
<1>10. SourceFits(c)' /\ DestFits(c)'
  BY <1>1, <1>2, <1>4, Known
     DEF SourceFits, DestFits, Waiting, Closed, Undialed, Dialing, ServerStages
<1>11. ConversationFits(c)'
  <2>1. ~Answered(c)'
    BY <1>5, NoSuccess DEF Answered
  <2> QED BY <1>5, <2>1 DEF ConversationFits
<1>12. ClientFits(c)'
  BY <1>8, <1>9, <1>10, <1>11 DEF ClientFits
<1>13. LoopFits' /\ SlotsFit'
  BY <1>1, NoClientAssumption DEF LoopFits, IInv, SlotsFit
<1>14. connections' \subseteq Conns /\ slots' \subseteq Clients
       /\ UNCHANGED <<mode, link, lifetime, ends, main, listener, closers>>
  BY <1>1, Known DEF TypeOK
<1> QED BY <1>1, <1>6, <1>7, <1>12, <1>13, <1>14, LoopMoves

LEMMA TurnedAwayKeeps ==
  ASSUME IInv, NEW c \in Clients, TurnedAway(c)
  PROVE  IInv'
<1>1. /\ acceptor \in {"ending", "refusing"} /\ held = c /\ Closed(c, "source")
      /\ acceptor' \in {"accepting", "joined"} /\ held' = NoClient
      /\ stage' = [stage EXCEPT ![c] = "done"]
      /\ connections' = connections \ {<<c, "source">>}
      /\ UNCHANGED <<mode, link, lifetime, ends, main, listener, closers, slots, conn, dial,
                     copies, replies>>
  BY DEF TurnedAway, Forget
<1>2. stage[c] = "accepted" /\ ~Over
  BY <1>1, Known DEF StageFits, IInv, MainFits
<1>3. stage'[c] = "done" /\ \A d \in Clients \ {c} : stage'[d] = stage[d]
  BY <1>1, Known DEF ServedOK
<1>4. ServedOK'
  BY <1>1, Known DEF ServedOK, Stages
<1>5. \A d \in Clients \ {c} : Same(d)
  BY <1>1, <1>3 DEF Same
<1>6. StageFits(c)' /\ RepliesFit(c)'
  BY <1>1, <1>2, <1>3, Known, NoClientAssumption
     DEF StageFits, RepliesFit, Waiting, Over, ServerStages
<1>7. SourceFits(c)' /\ DestFits(c)'
  BY <1>1, <1>2, <1>3, Known
     DEF SourceFits, DestFits, Waiting, Closed, Undialed, Dialing, ServerStages
<1>8. ConversationFits(c)'
  BY <1>1, SilenceFits
<1>9. ClientFits(c)'
  BY <1>6, <1>7, <1>8 DEF ClientFits
<1>10. LoopFits' /\ SlotsFit'
  BY <1>1 DEF LoopFits, IInv, SlotsFit
<1>11. connections' \subseteq Conns /\ slots' \subseteq Clients
       /\ UNCHANGED <<mode, link, lifetime, ends, main, listener, closers>>
  BY <1>1, Known DEF TypeOK
<1> QED BY <1>1, <1>4, <1>5, <1>9, <1>10, <1>11, LoopMoves

-----------------------------------------------------------------------------
(* RunTunnel, its watchers and its environment.                               *)

\* A step that leaves the clients alone.
LEMMA RuntimeMoves ==
  ASSUME IInv, UNCHANGED <<mode, held, connections, slots, served>>,
         TypeOK', MainFits', LoopFits',
         acceptor' # acceptor => acceptor' \in {"accepting", "joined"},
         listener' = "none" => listener = "none",
         Over' => Over \/ WorkIsDone
  PROVE  IInv'
<1>1. ASSUME NEW d \in Clients PROVE ClientFits(d)'
  <2>1. Same(d) /\ (held' = d <=> held = d)
    BY DEF Same, served
  <2>2. Over' => Over \/ stage[d] \notin ServerStages
    BY DEF WorkIsDone
  <2> QED BY <2>1, <2>2, SameKeeps
<1>2. SlotsFit'
  BY DEF IInv, SlotsFit
<1> QED BY <1>1, <1>2 DEF IInv

LEMMA StopTypes ==
  ASSUME TypeOK, NEW why \in Causes, Stop(why)
  PROVE  cause' \in Causes \cup {"none"} /\ watchdog' \in {"off", "armed", "joined"}
BY DEF TypeOK, Stop

\* The watchers, the timers, the peer and the caller.
LEMMA EnvironmentKeeps ==
  ASSUME IInv,
         \/ Cancel \/ PeerFails \/ RootWatcher \/ TransportWaiter \/ ProtocolTimeout
         \/ WatchdogExpires \/ \E c \in Clients : LateTimeout(c)
  PROVE  IInv'
<1>1. TypeOK /\ MainFits /\ LoopFits
  BY DEF IInv
<1>2. UNCHANGED <<mode, main, listener, loop, connections, closers, slots, served>>
  BY DEF Cancel, PeerFails, RootWatcher, TransportWaiter, ProtocolTimeout, WatchdogExpires,
     LateTimeout
<1>3. /\ cause' \in Causes \cup {"none"} /\ watchdog' \in {"off", "armed", "joined"}
      /\ raw' \in {raw, "closed"}
      /\ peer' \in {"healthy", "stalled", "lost"} /\ canceled' \in BOOLEAN
      /\ transport' = transport
      /\ waiter' \in {"waiting", "joined"} /\ root' \in {"waiting", "joined"}
  <2>1. {"canceled", "lost", "stalled", "slow"} \subseteq Causes
    BY DEF Causes
  <2>2. CASE Cancel \/ PeerFails \/ WatchdogExpires
    BY <1>1, <2>2 DEF Cancel, PeerFails, WatchdogExpires, TypeOK, link, lifetime, ends
  <2>3. CASE RootWatcher
    BY <1>1, <2>1, <2>3, StopTypes DEF RootWatcher, TypeOK, link, lifetime
  <2>4. CASE TransportWaiter
    BY <1>1, <2>1, <2>4, StopTypes DEF TransportWaiter, TypeOK, link
  <2>5. CASE ProtocolTimeout \/ \E c \in Clients : LateTimeout(c)
    BY <1>1, <2>1, <2>5, StopTypes DEF ProtocolTimeout, LateTimeout, TypeOK, link, ends
  <2> QED BY <2>2, <2>3, <2>4, <2>5
<1>4. TypeOK'
  BY <1>1, <1>2, <1>3 DEF TypeOK, loop, served
<1>5. MainFits' /\ LoopFits' /\ (Over' => Over)
  BY <1>1, <1>2, <1>3 DEF MainFits, LoopFits, Over, loop
<1> QED BY <1>2, <1>4, <1>5, RuntimeMoves DEF loop

LEMMA AcceptFailsKeeps ==
  ASSUME IInv, AcceptFails
  PROVE  IInv'
<1>1. /\ acceptor = "accepting" /\ acceptor' = "joined"
      /\ UNCHANGED <<mode, link, ends, main, listener, held, connections, closers, slots,
                     served>>
      /\ TypeOK /\ MainFits /\ LoopFits
  BY DEF AcceptFails, IInv
<1>2. cause' \in Causes \cup {"none"} /\ watchdog' \in {"off", "armed", "joined"}
  BY <1>1, StopTypes DEF AcceptFails, Causes
<1>3. TypeOK'
  BY <1>1, <1>2 DEF TypeOK, link, ends, served
<1>4. MainFits' /\ LoopFits' /\ (Over' => Over)
  BY <1>1 DEF MainFits, LoopFits, Over, ends
<1> QED BY <1>1, <1>3, <1>4, RuntimeMoves

LEMMA ClosingEndsKeeps ==
  ASSUME IInv, ListenerCloses \/ \E k \in Conns : CloserEnds(k)
  PROVE  IInv'
<1>1. /\ UNCHANGED <<mode, link, lifetime, ends, main, loop, connections, slots, served>>
      /\ closers' \subseteq closers
      /\ listener' = listener \/ (listener = "closing" /\ listener' = "closed")
      /\ TypeOK /\ MainFits /\ LoopFits
  BY DEF ListenerCloses, CloserEnds, IInv
<1>2. TypeOK'
  BY <1>1 DEF TypeOK, ConnStates, link, lifetime, ends, loop, served
<1>3. MainFits' /\ LoopFits' /\ (Over' => Over)
  BY <1>1 DEF MainFits, LoopFits, Over, ends, loop
<1> QED BY <1>1, <1>2, <1>3, RuntimeMoves DEF loop

LEMMA MainKeeps ==
  ASSUME IInv, MainStep
  PROVE  IInv'
<1>1. TypeOK /\ MainFits /\ LoopFits
  BY DEF IInv
<1>2. CASE Listen
  <2>1. TypeOK'
    BY <1>1, <1>2 DEF Listen, TypeOK, ConnStates, link, lifetime, ends, loop, served
  <2>2. MainFits' /\ LoopFits' /\ ~Over' /\ (listener' = "none" => listener = "none")
    BY <1>1, <1>2 DEF Listen, MainFits, LoopFits, Over, loop
  <2> QED BY <1>2, <2>1, <2>2, RuntimeMoves DEF Listen, loop
<1>3. CASE Check
  <2>1. cause' \in Causes \cup {"none"} /\ watchdog' \in {"off", "armed", "joined"}
    <3>1. CASE canceled
      BY <1>1, <1>3, <3>1, StopTypes DEF Check, Causes
    <3>2. CASE ~canceled
      BY <1>1, <1>3, <3>2 DEF Check, TypeOK, lifetime
    <3> QED BY <3>1, <3>2
  <2>2. TypeOK'
    BY <1>1, <1>3, <2>1 DEF Check, TypeOK, link, ends, loop, served
  <2>3. MainFits' /\ LoopFits' /\ ~Over'
    BY <1>1, <1>3 DEF Check, MainFits, LoopFits, Over, loop
  <2> QED BY <1>3, <2>2, <2>3, RuntimeMoves DEF Check, loop
<1>4. CASE Announce
  <2>1. TypeOK'
    BY <1>1, <1>4 DEF Announce, TypeOK, link, lifetime, ends, served
  <2>2. MainFits' /\ LoopFits' /\ ~Over'
    BY <1>1, <1>4 DEF Announce, MainFits, LoopFits, Over
  <2> QED BY <1>4, <2>1, <2>2, RuntimeMoves DEF Announce
<1>5. CASE LifetimeEnds
  <2>1. TypeOK'
    BY <1>1, <1>5 DEF LifetimeEnds, TypeOK, link, lifetime, ends, loop, served
  <2>2. MainFits' /\ LoopFits' /\ ~Over'
    BY <1>1, <1>5 DEF LifetimeEnds, MainFits, LoopFits, Over, loop
  <2> QED BY <1>5, <2>1, <2>2, RuntimeMoves DEF LifetimeEnds, loop
<1>6. CASE CleanUp
  <2>1. cause' \in Causes \cup {"none"} /\ watchdog' \in {"off", "armed", "joined"}
    BY <1>1, <1>6, StopTypes DEF CleanUp, Causes
  <2>2. listener' \in ConnStates /\ (listener' = "none" => listener = "none")
    BY <1>1, <1>6, ShutFacts DEF CleanUp, TypeOK
  <2>3. TypeOK'
    BY <1>1, <1>6, <2>1, <2>2 DEF CleanUp, TypeOK, link, ends, loop, served
  <2>4. MainFits' /\ LoopFits' /\ ~Over'
    BY <1>1, <1>6 DEF CleanUp, MainFits, LoopFits, Over, loop
  <2> QED BY <1>6, <2>2, <2>3, <2>4, RuntimeMoves DEF CleanUp, loop
<1>7. CASE Collect
  <2>1. TypeOK'
    BY <1>1, <1>7 DEF Collect, Collected, TypeOK, link, lifetime, ends, loop, served
  <2>2. MainFits' /\ LoopFits' /\ ~Over'
    BY <1>1, <1>7 DEF Collect, MainFits, LoopFits, Over, loop
  <2> QED BY <1>7, <2>1, <2>2, RuntimeMoves DEF Collect, loop
<1>8. CASE Disconnect
  <2>1. TypeOK'
    BY <1>1, <1>8 DEF Disconnect, TypeOK, ConnStates, link, lifetime, loop, served
  <2>2. MainFits' /\ LoopFits'
    BY <1>1, <1>8 DEF Disconnect, WorkIsDone, MainFits, LoopFits, Over, loop
  <2> QED BY <1>8, <2>1, <2>2, RuntimeMoves DEF Disconnect, loop
<1>9. CASE TransportCloses
  <2>1. TypeOK'
    BY <1>1, <1>9 DEF TransportCloses, TypeOK, ConnStates, link, lifetime, loop, served
  <2>2. MainFits' /\ LoopFits' /\ Over
    BY <1>1, <1>9 DEF TransportCloses, MainFits, LoopFits, Over, loop
  <2> QED BY <1>9, <2>1, <2>2, RuntimeMoves DEF TransportCloses, loop
<1>10. CASE Return
  <2>1. TypeOK'
    BY <1>1, <1>10 DEF Return, TypeOK, link, ends, loop, served
  <2>2. MainFits' /\ LoopFits' /\ Over
    BY <1>1, <1>10 DEF Return, MainFits, LoopFits, Over, loop, ends
  <2> QED BY <1>10, <2>1, <2>2, RuntimeMoves DEF Return, loop
<1> QED BY <1>2, <1>3, <1>4, <1>5, <1>6, <1>7, <1>8, <1>9, <1>10 DEF MainStep

-----------------------------------------------------------------------------
(* The theorems.                                                              *)

LEMMA InitFits == Init => IInv
<1> SUFFICES ASSUME Init PROVE IInv
  OBVIOUS
<1>1. TypeOK
  <2>1. conn \in [Clients -> [Sides -> ConnStates]]
    BY DEF Init, ConnStates
  <2>2. copies \in [Clients -> [Directions -> {"none", "running", "halfClosing", "eof",
                                              "failed"}]]
    BY DEF Init
  <2>3. replies \in [Clients -> Seq({"method", "reply"} \X Nat)]
    <3>1. <<>> \in Seq({"method", "reply"} \X Nat)
      BY EmptySeq
    <3> QED BY <3>1 DEF Init
  <2>4. stage \in [Clients -> Stages]
    BY DEF Init, Stages
  <2>5. dial \in [Clients -> {"none", "pending", "opened", "failed"}]
    BY DEF Init
  <2>6. /\ connections \subseteq Conns /\ closers \subseteq Conns /\ slots \subseteq Clients
        /\ held \in Clients \cup {NoClient}
    BY DEF Init
  <2> QED BY <2>1, <2>2, <2>3, <2>4, <2>5, <2>6 DEF Init, TypeOK, ConnStates
<1>2. MainFits /\ LoopFits
  BY NoClientAssumption DEF Init, MainFits, LoopFits, Over
<1>3. SlotsFit
  BY FS_EmptySet, SlotsAssumption DEF Init, SlotsFit
<1>4. ASSUME NEW c \in Clients PROVE ClientFits(c)
  <2>1. /\ stage[c] = "away" /\ dial[c] = "none" /\ replies[c] = NoMessage /\ held = NoClient
        /\ conn[c]["source"] = "none" /\ conn[c]["dest"] = "none" /\ main = "listening"
        /\ slots = {} /\ connections = {} /\ c # NoClient
    BY <1>4, NoClientAssumption DEF Init, Sides, NoMessage
  <2>2. StageFits(c) /\ SourceFits(c) /\ RepliesFit(c)
    BY <2>1 DEF StageFits, SourceFits, RepliesFit, Waiting, Over, ServerStages
  <2>3. DestFits(c)
    BY <2>1 DEF DestFits, Undialed, Dialing
  <2>4. ~Answered(c)
    BY <2>1, NoSuccess DEF Answered
  <2>5. ConversationFits(c)
    BY <2>1, <2>4 DEF ConversationFits
  <2> QED BY <2>2, <2>3, <2>5 DEF ClientFits
<1> QED BY <1>1, <1>2, <1>3, <1>4 DEF IInv

LEMMA StutterKeeps ==
  ASSUME IInv, UNCHANGED vars
  PROVE  IInv'
<1>1. TypeOK' /\ MainFits' /\ LoopFits' /\ (Over' => Over)
  BY DEF IInv, TypeOK, MainFits, LoopFits, Over, vars, link, lifetime, ends, loop, served
<1> QED BY <1>1, RuntimeMoves DEF vars, loop

LEMMA NextKeeps == IInv /\ [Next]_vars => IInv'
<1> SUFFICES ASSUME IInv, [Next]_vars PROVE IInv'
  OBVIOUS
<1>1. CASE UNCHANGED vars \/ Done
  BY <1>1, StutterKeeps DEF Done
<1>2. CASE \/ Cancel \/ PeerFails \/ RootWatcher \/ TransportWaiter \/ ProtocolTimeout
           \/ WatchdogExpires \/ \E c \in Clients : LateTimeout(c)
  BY <1>2, EnvironmentKeeps
<1>3. CASE AcceptFails \/ MainStep \/ \E c \in Clients : Arrive(c)
  BY <1>3, AcceptFailsKeeps, MainKeeps, ArriveKeeps
<1>4. CASE Closing
  <2>1. ASSUME NEW k \in Conns, ChannelCloses(k[1], k[2]) PROVE IInv'
    <3>1. k[1] \in Clients /\ k[2] \in Sides
      BY DEF Conns
    <3> QED BY <2>1, <3>1, ChannelClosesKeeps
  <2> QED BY <1>4, <2>1, CloserBeginsKeeps, ClosingEndsKeeps DEF Closing
<1>5. ASSUME NEW c \in Clients, AcceptStep(c) \/ DialStep(c) \/ CopyStep(c)
      PROVE  IInv'
  BY <1>5, AcceptKeeps, AcceptLostKeeps, AdmitKeeps, TurnAwayKeeps, TurnedAwayKeeps,
     DialKeeps, CopyKeeps DEF AcceptStep, DialStep
<1>6. ASSUME NEW c \in Clients, ServeStep(c)
      PROVE  IInv'
  BY <1>6, GreetKeeps, RequestKeeps, ResultKeeps, TimeOutKeeps, TurnedDownKeeps, GrantKeeps,
     FirstResultKeeps, BrokenKeeps, SecondResultKeeps, DestReleasedKeeps, ServerEndsKeeps
     DEF ServeStep
<1> QED BY <1>1, <1>2, <1>3, <1>4, <1>5, <1>6 DEF Next

\* The inductive invariant holds in every reachable state, for any clients, any
\* set of modes and any number of slots.
THEOREM RuntimeInvariant == Spec => []IInv
BY InitFits, NextKeeps, PTL DEF Spec

\* The runtime's state keeps its types.
THEOREM RuntimeTypes == Spec => []TypeOK
<1>1. IInv => TypeOK
  BY DEF IInv
<1> QED BY <1>1, RuntimeInvariant, PTL

\* No more clients are served than there are slots (the semaphore of 64 in
\* acceptLoop, which serve gives back when it returns).
THEOREM SlotsAreNeverExceeded == Spec => []ServersAreBounded
<1>1. IInv => ServersAreBounded
  <2> SUFFICES ASSUME IInv PROVE ServersAreBounded
    OBVIOUS
  <2> DEFINE inService == {c \in Clients : stage[c] \in ServerStages /\ ~Closed(c, "source")}
  <2>1. inService \subseteq slots
    BY Known DEF StageFits
  <2>2. IsFiniteSet(slots) /\ Cardinality(slots) <= Slots
    BY DEF IInv, SlotsFit
  <2>3. IsFiniteSet(inService) /\ Cardinality(inService) <= Cardinality(slots)
    BY <2>1, <2>2, FS_Subset
  <2>4. Cardinality(slots) \in Nat /\ Cardinality(inService) \in Nat
    BY <2>2, <2>3, FS_CardinalityType
  <2>5. Cardinality(inService) <= Slots
    BY <2>2, <2>3, <2>4, SlotsAssumption
  <2> QED BY <2>5 DEF ServersAreBounded
<1> QED BY <1>1, RuntimeInvariant, PTL

\* When RunTunnel returns nothing it opened is open and nothing it started runs.
THEOREM EverythingIsClosed == Spec => []NothingLeftOpen
<1>1. IInv => NothingLeftOpen
  <2> SUFFICES ASSUME IInv, main = "returned"
               PROVE  /\ raw = "closed" /\ listener \in {"none", "closed"}
                      /\ connections = {} /\ closers = {} /\ slots = {}
                      /\ acceptor \in {"off", "joined"}
                      /\ \A c \in Clients :
                            /\ stage[c] \in {"away", "queued", "done"}
                            /\ dial[c] # "pending"
                            /\ dial[c] = "opened" => conn[c]["dest"] = "closed"
    BY DEF NothingLeftOpen
  <2>1. /\ raw = "closed" /\ listener \in {"none", "closed"} /\ closers = {}
        /\ acceptor \in {"off", "joined"} /\ held = NoClient /\ Over
        /\ connections \subseteq Conns /\ slots \subseteq Clients
    BY DEF IInv, MainFits, LoopFits, Over, TypeOK
  <2>2. ASSUME NEW c \in Clients
        PROVE  /\ stage[c] \in {"away", "queued", "done"}
               /\ dial[c] # "pending"
               /\ dial[c] = "opened" => conn[c]["dest"] = "closed"
               /\ c \notin slots /\ \A s \in Sides : <<c, s>> \notin connections
    <3>1. stage[c] \in {"away", "queued", "done"}
      BY <2>1, Known, NoClientAssumption DEF StageFits, Stages
    <3>2. c \notin slots /\ <<c, "source">> \notin connections /\ <<c, "dest">> \notin connections
      BY <3>1, Known DEF StageFits, SourceFits, DestFits, ServerStages
    <3>3. dial[c] # "pending" /\ (dial[c] = "opened" => conn[c]["dest"] = "closed")
      BY <3>1, Known DEF DestFits, Dialing, Undialed, Closed
    <3> QED BY <3>1, <3>2, <3>3 DEF Sides
  <2>3. slots = {} /\ connections = {}
    BY <2>1, <2>2 DEF Conns
  <2> QED BY <2>1, <2>2, <2>3
<1> QED BY <1>1, RuntimeInvariant, PTL

\* A SOCKS client hears its method once and at most one result, and success only
\* when it has a destination (socksRequest, socksReply, serve).
THEOREM SocksIsSpoken == Spec => []SocksConversation
<1>1. IInv => SocksConversation
  BY Known DEF SocksConversation, ConversationFits, NoMessage, MethodGranted
<1> QED BY <1>1, RuntimeInvariant, PTL

-----------------------------------------------------------------------------
(* TunnelRuntime implements TunnelRunner, the runner that TunnelService counts *)
(* on: RunTunnel announces a bound listener and returns with nothing open.    *)

\* Before its listener is bound the runtime holds nothing.
LEMMA NothingHeldBefore == IInv /\ main = "listening" => ~Holding
<1> SUFFICES ASSUME IInv, main = "listening" PROVE ~Holding
  OBVIOUS
<1>1. listener = "none" /\ acceptor = "off"
  BY DEF IInv, MainFits
<1>2. ASSUME NEW c \in Clients
      PROVE  /\ \A s \in Sides : Closed(c, s)
             /\ ~(dial[c] = "opened" /\ stage[c] \in {"opening", "late"})
  <2>1. StageFits(c) /\ SourceFits(c) /\ DestFits(c)
    BY Known
  <2>2. Waiting(c)
    BY <1>1, <2>1 DEF StageFits
  <2>3. conn[c]["source"] = "none" /\ conn[c]["dest"] = "none"
    BY <2>1, <2>2 DEF SourceFits, DestFits, Waiting, Undialed
  <2> QED BY <2>2, <2>3 DEF Closed, Sides, Waiting
<1> QED BY <1>1, <1>2 DEF Holding

\* From the binding to the clean-up the listener is open.
LEMMA ListenerHeld == IInv /\ main \in {"bound", "announcing", "serving"} => Holding
BY DEF IInv, MainFits, Holding

\* Once everything has been joined the runtime holds nothing.
LEMMA NothingHeldAfter == IInv /\ Over => ~Holding
<1> SUFFICES ASSUME IInv, Over PROVE ~Holding
  OBVIOUS
<1>1. listener \in {"none", "closed"} /\ held = NoClient
  BY DEF IInv, MainFits, LoopFits
<1>2. ASSUME NEW c \in Clients
      PROVE  /\ \A s \in Sides : Closed(c, s)
             /\ ~(dial[c] = "opened" /\ stage[c] \in {"opening", "late"})
  <2>1. StageFits(c) /\ SourceFits(c) /\ DestFits(c) /\ stage[c] \in Stages
    BY Known
  <2>2. stage[c] \in {"away", "queued", "done"}
    BY <1>1, <2>1, NoClientAssumption DEF StageFits, Stages
  <2>3. Closed(c, "source") /\ Closed(c, "dest")
    BY <2>1, <2>2 DEF SourceFits, DestFits, Waiting, Undialed, Closed
  <2> QED BY <2>2, <2>3 DEF Sides
<1> QED BY <1>1, <1>2 DEF Holding

-----------------------------------------------------------------------------

\* The main goroutine alone moves, and only forward.
LEMMA MainMoves ==
  ASSUME [Next]_vars
  PROVE  \/ main' = main
         \/ main = "listening" /\ main' \in {"bound", "cleanup"}
         \/ main = "bound" /\ main' \in {"announcing", "cleanup"}
         \/ main = "announcing" /\ main' = "serving"
         \/ main = "serving" /\ main' = "cleanup"
         \/ main = "cleanup" /\ main' = "collecting"
         \/ main = "collecting" /\ main' = "joining"
         \/ main = "joining" /\ main' = "disconnecting"
         \/ main = "disconnecting" /\ main' = "converging"
         \/ main = "converging" /\ main' = "returned"
<1>1. CASE UNCHANGED vars \/ Done
  BY <1>1 DEF Done, vars
<1>2. CASE \/ Cancel \/ PeerFails \/ RootWatcher \/ TransportWaiter \/ ProtocolTimeout
           \/ WatchdogExpires \/ AcceptFails \/ Closing
           \/ \E c \in Clients : Arrive(c) \/ LateTimeout(c)
  BY <1>2 DEF Cancel, PeerFails, RootWatcher, TransportWaiter, ProtocolTimeout,
     WatchdogExpires, AcceptFails, Closing, Arrive, LateTimeout, CloserBegins, CloserEnds,
     ChannelCloses, ListenerCloses
<1>3. CASE MainStep
  BY <1>3 DEF MainStep, Listen, Check, Announce, LifetimeEnds, CleanUp, Collect, Disconnect,
     TransportCloses, Return
<1>4. ASSUME NEW c \in Clients, AcceptStep(c) \/ DialStep(c) \/ CopyStep(c)
      PROVE  main' = main
  BY <1>4 DEF AcceptStep, Accept, AcceptLost, Admit, TurnAway, TurnedAway, DialStep,
     DialOpens, DialFails, CopyStep, CopyEnds, HalfCloses
<1>5. ASSUME NEW c \in Clients, ServeStep(c)
      PROVE  main' = main
  BY <1>5 DEF ServeStep, Greet, Request, TakeResult, TimeOut, LateResult, Dropped, Refuse,
     Grant, FirstResult, Broken, SecondResult, DestReleased, ServerEnds
<1> QED BY <1>1, <1>2, <1>3, <1>4, <1>5 DEF Next

LEMMA StartIsRunner == Init => Runner!Init
<1> SUFFICES ASSUME Init PROVE Runner!Init
  OBVIOUS
<1>1. main = "listening" /\ ~Holding
  BY InitFits, NothingHeldBefore DEF Init
<1> QED BY <1>1 DEF Runner!Init, RunnerStage

\* A step of the runtime is one of the runner, or none.
LEMMA StepIsRunner ==
  ASSUME IInv, IInv', [Next]_vars
  PROVE  [Runner!Next]_(Runner!runnerVars)
<1> USE DEF Runner!runnerVars, Runner!Next, Runner!Bind, Runner!Ready, Runner!GiveUp,
            Runner!CleanUp, Runner!Return, RunnerStage
<1>1. Holding \in BOOLEAN /\ Holding' \in BOOLEAN
  BY DEF Holding
<1>2. /\ main = "listening" => ~Holding
      /\ main \in {"bound", "announcing", "serving"} => Holding
      /\ main \in {"disconnecting", "converging", "returned"} => ~Holding
  BY NothingHeldBefore, ListenerHeld, NothingHeldAfter DEF Over
<1>3. /\ main' = "listening" => ~Holding'
      /\ main' \in {"bound", "announcing", "serving"} => Holding'
      /\ main' \in {"disconnecting", "converging", "returned"} => ~Holding'
  <2>1. (IInv /\ main = "listening" => ~Holding)'
    BY NothingHeldBefore, PTL
  <2>2. (IInv /\ main \in {"bound", "announcing", "serving"} => Holding)'
    BY ListenerHeld, PTL
  <2>3. (IInv /\ Over => ~Holding)'
    BY NothingHeldAfter, PTL
  <2> QED BY <2>1, <2>2, <2>3 DEF Over
<1> HIDE DEF Holding
<1>4. main \in {"listening", "bound", "announcing", "serving", "cleanup", "collecting",
                "joining", "disconnecting", "converging", "returned"}
  BY DEF IInv, TypeOK
<1> QED BY <1>1, <1>2, <1>3, <1>4, MainMoves

\* The runtime implements the runner: the listener is announced once and after it
\* is bound, and RunTunnel returns with nothing open.
THEOREM RuntimeIsARunner == Spec => ImplementsRunner
<1>1. IInv /\ IInv' /\ [Next]_vars => [Runner!Next]_(Runner!runnerVars)
  BY StepIsRunner
<1> QED BY <1>1, StartIsRunner, RuntimeInvariant, PTL DEF Spec, ImplementsRunner, Runner!Spec
=============================================================================
