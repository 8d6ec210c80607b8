---------------------------- MODULE SessionProofs ----------------------------
(* Proofs about Session, from the inductive invariant of SessionInvariant: no *)
(* secret before trust, nothing left behind, an exit status that is true, and *)
(* no key stored that known_hosts decides.                                    *)
EXTENDS SessionInvariant, TLAPS

-----------------------------------------------------------------------------
(* The parts of the invariant, as the steps disturb them.                     *)

ControlOK ==
    /\ stage \in Stages
    /\ ctx \in {"live", "canceled", "expired"}
    /\ peer \in {"up", "lost"}
    /\ tries \in 0 .. MaxPassphraseAttempts
    /\ waiter \in {"off", "waiting"} \cup Ended
    /\ resizer \in {"off", "running", "failed", "ended"}
    /\ why \in Reasons \cup {None}
    /\ exit \in ExitCodes \cup {None}

RecordsOK ==
    /\ signals \in [sent: 0 .. MaxSignals, pending: BOOLEAN, received: BOOLEAN]
    /\ tty \in [raw: BOOLEAN, captured: BOOLEAN, broken: BOOLEAN]
    /\ gate \in [key: Keys \cup {None}, row: TrustedHost \cup {None},
                 verified: BOOLEAN, grounds: Grounds]

LinkOK == link \in [Parts -> PartStates]

\* What is known of the attempt, apart from the table and the other process.
AttemptFits ==
    /\ GateFits /\ TriesFit /\ LinkFits /\ WhyFits
    /\ GoroutinesFit /\ TerminalFits /\ ExitFits

LEMMA InvariantParts ==
  IInv <=> /\ TrustTypeOK /\ request \in Requests
           /\ ControlOK /\ RecordsOK /\ LinkOK
           /\ RowsFit /\ OtherFits /\ AttemptFits
BY DEF IInv, TypeOK, ControlOK, RecordsOK, LinkOK, AttemptFits

-----------------------------------------------------------------------------
(* Who moves what.                                                            *)

\* The signals, the terminal and the gate.
LEMMA WhoMovesRecords ==
  ASSUME Next
  PROVE  \/ UNCHANGED <<signals, tty, gate>>
         \/ UserSignals \/ SignalArrives \/ StopSignals \/ PresentKey \/ Verify
         \/ Decide \/ Reread \/ Capture \/ PromptOpens \/ PromptEnds
         \/ PromptCanceled \/ MakeRaw \/ Restore
BY DEF Next, Environment, Answers, Program, vars, DeadlineExpires, PeerIsLost,
       OtherProcess, Dial, Signers, ServerAnswers, NewSession, RequestPty, Start,
       ServerCloses, ContextWatcher, AgentWatcher, Bootstrap, Resolve,
       RecoverCredentials, ChannelEnds, Size, HandshakeBreaks, Persist,
       BuildAuthMethod, Offer, Password, Passphrase, OpenTransport, RequestBreaks,
       ResizerEnds, SessionEnded, ResizeFailed, ContextEnded, Drained, JoinResizer,
       CloseResources, Report, CloseDependencies, RemoteEnds, Done

\* The resources of the attempt.
LEMMA WhoMovesLink ==
  ASSUME Next
  PROVE  \/ UNCHANGED link
         \/ Dial \/ ContextWatcher \/ BuildAuthMethod \/ AgentWatcher \/ Signers
         \/ ServerAnswers \/ OpenTransport \/ NewSession \/ ResizeFailed
         \/ ContextEnded \/ CloseResources
BY DEF Next, Environment, Answers, Program, vars, UserSignals, SignalArrives,
       DeadlineExpires, PeerIsLost, OtherProcess, PresentKey, Decide, PromptEnds,
       RequestPty, Start, ServerCloses, Bootstrap, Resolve, RecoverCredentials,
       ChannelEnds, Capture, Size, HandshakeBreaks, Verify, Persist, Reread, Offer,
       Password, Passphrase, PromptOpens, PromptCanceled, RequestBreaks, MakeRaw,
       ResizerEnds, SessionEnded, Drained, JoinResizer, Restore, Report,
       CloseDependencies, StopSignals, RemoteEnds, Done

\* The table and the other process.
LEMMA WhoMovesTrust ==
  ASSUME Next
  PROVE  \/ UNCHANGED trustVars
         \/ OtherProcess \/ Persist
BY DEF Next, Environment, Answers, Program, vars, UserSignals, SignalArrives,
       DeadlineExpires, PeerIsLost, Dial, PresentKey, Decide, Signers, PromptEnds,
       ServerAnswers, NewSession, RequestPty, Start, ServerCloses, ContextWatcher,
       AgentWatcher, Bootstrap, Resolve, RecoverCredentials, ChannelEnds, Capture,
       Size, HandshakeBreaks, Verify, Reread, BuildAuthMethod, Offer, Password,
       Passphrase, PromptOpens, PromptCanceled, OpenTransport, RequestBreaks, MakeRaw,
       ResizerEnds, SessionEnded, ResizeFailed, ContextEnded, Drained, JoinResizer,
       CloseResources, Restore, Report, CloseDependencies, StopSignals, RemoteEnds,
       Done

\* The files are read once, and a process runs one command.
LEMMA FilesStay ==
  ASSUME Next
  PROVE  UNCHANGED <<files, request>>
<1>1. OtherProcess => UNCHANGED <<files, request>>
  BY DEF OtherProcess, OtherStep, ForgetScope, Forget, OtherAsks, OtherDecides
<1>2. ~OtherProcess => UNCHANGED <<files, request>>
  BY DEF Next, Environment, Answers, Program, vars, trustVars, UserSignals,
         SignalArrives, DeadlineExpires, PeerIsLost, Dial, PresentKey, Decide,
         Signers, PromptEnds, ServerAnswers, NewSession, RequestPty, Start,
         ServerCloses, ContextWatcher, AgentWatcher, Bootstrap, Resolve,
         RecoverCredentials, ChannelEnds, Capture, Size, HandshakeBreaks, Verify,
         Persist, Reread, BuildAuthMethod, Offer, Password, Passphrase, PromptOpens,
         PromptCanceled, OpenTransport, RequestBreaks, MakeRaw, ResizerEnds,
         SessionEnded, ResizeFailed, ContextEnded, Drained, JoinResizer,
         CloseResources, Restore, Report, CloseDependencies, StopSignals, RemoteEnds,
         Done
<1> QED BY <1>1, <1>2

-----------------------------------------------------------------------------
(* Host trust.                                                                *)

\* What a check tells of a key: a user is asked only about keys that known_hosts
\* leaves open, and none of the revoked ones is known.
LEMMA CheckedHost ==
  ASSUME TrustTypeOK, NEW key \in Keys
  PROVE  /\ CheckHost(key).row \in TrustedHost \cup {None}
         /\ Decidable(CheckHost(key)) => key \notin files.listed \cup files.revoked
         /\ CheckHost(key).status = "known" => key \notin files.revoked
         /\ Standard(key) = "known" => key \in files.listed
<1>1. trusted \in TrustedHost \cup {None}
  BY DEF TrustTypeOK
<1> QED BY <1>1 DEF CheckHost, Decidable, Standard

\* A key that is written stays in the range of the table, and is the one asked for.
LEMMA TrustHostFits ==
  ASSUME TrustTypeOK, NEW key \in Keys, NEW expected, TrustHost(key, expected),
         trusted = None => inserted <= MaxRows
  PROVE  /\ trusted' \in TrustedHost /\ trusted'.key = key
         /\ inserted' \in 0 .. MaxRows + 1
         /\ inserted' = IF trusted = None THEN inserted + 1 ELSE inserted
<1>1. trusted \in TrustedHost \cup {None} /\ inserted \in 0 .. MaxRows + 1
  BY DEF TrustTypeOK
<1>2. MaxRevision \in Nat \ {0} /\ MaxRows \in Nat \ {0}
  BY HostTrustAssumption
<1>3. CASE trusted = None
  BY <1>1, <1>2, <1>3 DEF TrustHost, TrustedHost
<1>4. CASE trusted # None /\ trusted.key = key
  BY <1>1, <1>4 DEF TrustHost, TrustedHost
<1>5. CASE trusted # None /\ trusted.key # key
  <2>1. trusted.revision \in 1 .. MaxRevision /\ trusted.revision # MaxRevision
    BY <1>1, <1>5 DEF TrustHost, TrustHostRefuses, TrustedHost
  <2>2. trusted' = [trusted EXCEPT !.key = key, !.revision = trusted.revision + 1]
    BY <1>5 DEF TrustHost
  <2>3. trusted.revision + 1 \in 1 .. MaxRevision
    BY <1>2, <2>1
  <2> QED BY <1>1, <1>5, <2>2, <2>3 DEF TrustHost, TrustedHost
<1> QED BY <1>3, <1>4, <1>5

\* The other process forgets a row, or writes a key that known_hosts leaves open.
LEMMA OtherStepKeeps ==
  ASSUME TrustTypeOK, OtherFits, OtherStep
  PROVE  /\ TrustTypeOK' /\ OtherFits'
         /\ inserted' # inserted => inserted' <= MaxRows
         /\ trusted' # trusted /\ trusted' # None =>
               trusted'.key \notin files.listed \cup files.revoked
<1> USE DEF TrustTypeOK, OtherFits
<1>1. MaxRows \in Nat \ {0}
  BY HostTrustAssumption
<1>2. CASE ForgetScope
  BY <1>2 DEF ForgetScope
<1>3. CASE Forget
  BY <1>3 DEF Forget, Idle, DeleteTrustedHost
<1>4. CASE OtherAsks
  <2>1. PICK key \in Keys :
           /\ Decidable(CheckHost(key))
           /\ other' = [doing |-> "deciding", key |-> key, shown |-> CheckHost(key).row]
           /\ UNCHANGED <<files, trusted, inserted>>
    BY <1>4 DEF OtherAsks
  <2>2. CheckHost(key).row \in TrustedHost \cup {None}
        /\ key \notin files.listed \cup files.revoked
    BY <2>1, CheckedHost
  <2> QED BY <2>1, <2>2
<1>5. CASE OtherDecides
  <2>1. other' = Idle /\ files' = files /\ other.doing = "deciding"
    BY <1>5 DEF OtherDecides
  <2>2. CASE UNCHANGED <<trusted, inserted>>
    BY <2>1, <2>2 DEF Idle
  <2>3. CASE /\ trusted = None => inserted < MaxRows
             /\ TrustHost(other.key, RevisionOf(other.shown))
    <3>1. inserted \in 0 .. MaxRows + 1
      OBVIOUS
    <3>2. /\ trusted' \in TrustedHost /\ trusted'.key = other.key
          /\ inserted' \in 0 .. MaxRows + 1
          /\ inserted' = IF trusted = None THEN inserted + 1 ELSE inserted
      BY <1>1, <2>1, <2>3, <3>1, TrustHostFits
    <3> QED BY <1>1, <2>1, <2>3, <3>1, <3>2 DEF Idle
  <2> QED BY <1>5, <2>2, <2>3 DEF OtherDecides
<1> QED BY <1>2, <1>3, <1>4, <1>5 DEF OtherStep

\* The gate writes the key that the user was shown, once.
LEMMA PersistKeeps ==
  ASSUME TrustTypeOK, OtherFits, RowsFit, GateFits, Persist
  PROVE  /\ TrustTypeOK' /\ OtherFits' /\ RowsFit'
         /\ trusted' # trusted /\ trusted' # None =>
               trusted'.key \notin files.listed \cup files.revoked
<1>1. stage = "persist" /\ UNCHANGED <<files, other, gate>>
  BY DEF Persist
<1>2. /\ gate.key \in Keys /\ gate.key \notin files.listed \cup files.revoked
      /\ inserted <= MaxRows
  BY <1>1 DEF GateFits, RowsFit, DecidingStages, EarlyStages
<1>3. CASE TrustHost(gate.key, RevisionOf(gate.row)) /\ stage' = "reread"
  <2>1. /\ trusted' \in TrustedHost /\ trusted'.key = gate.key
        /\ inserted' \in 0 .. MaxRows + 1
    BY <1>2, <1>3, TrustHostFits
  <2> QED BY <1>1, <1>2, <1>3, <2>1 DEF TrustTypeOK, OtherFits, RowsFit, EarlyStages
<1>4. CASE stage' = "joined" /\ UNCHANGED <<trusted, inserted>>
  BY <1>1, <1>4 DEF TrustTypeOK, OtherFits, RowsFit, EarlyStages
<1> QED BY <1>3, <1>4 DEF Persist, Goto, HandshakeFails

\* The way to the gate is taken once.
LEMMA EarlyIsNotEntered ==
  ASSUME Next, stage' \in EarlyStages
  PROVE  stage \in EarlyStages
BY DEF EarlyStages, Fail, HandshakeFails, Goto, AskUser, Submitted, Next, Environment,
       Answers, Program, vars, UserSignals, SignalArrives, DeadlineExpires,
       PeerIsLost, OtherProcess, Dial, PresentKey, Decide, Signers, PromptEnds,
       ServerAnswers, NewSession, RequestPty, Start, ServerCloses, ContextWatcher,
       AgentWatcher, Bootstrap, Resolve, RecoverCredentials, ChannelEnds, Capture,
       Size, HandshakeBreaks, Verify, Persist, Reread, BuildAuthMethod, Offer,
       Password, Passphrase, PromptOpens, PromptCanceled, OpenTransport,
       RequestBreaks, MakeRaw, ResizerEnds, SessionEnded, ResizeFailed, ContextEnded,
       Drained, JoinResizer, CloseResources, Restore, Report, CloseDependencies,
       StopSignals, RemoteEnds, Done

LEMMA TrustKeeps ==
  ASSUME TrustTypeOK, OtherFits, RowsFit, GateFits, ControlOK, Next
  PROVE  /\ TrustTypeOK' /\ OtherFits' /\ RowsFit'
         /\ trusted' # trusted /\ trusted' # None =>
               trusted'.key \notin files.listed \cup files.revoked
<1>1. CASE OtherProcess
  <2>1. OtherStep /\ stage' = stage
    BY <1>1 DEF OtherProcess
  <2>2. /\ TrustTypeOK' /\ OtherFits'
        /\ inserted' # inserted => inserted' <= MaxRows
        /\ trusted' # trusted /\ trusted' # None =>
              trusted'.key \notin files.listed \cup files.revoked
    BY <2>1, OtherStepKeeps
  <2>3. RowsFit'
    BY <2>1, <2>2 DEF RowsFit
  <2> QED BY <2>2, <2>3
<1>2. CASE Persist
  BY <1>2, PersistKeeps
<1>3. CASE UNCHANGED trustVars
  <2>1. TrustTypeOK' /\ OtherFits' /\ UNCHANGED trusted
    BY <1>3 DEF trustVars, TrustTypeOK, OtherFits
  <2>2. stage' \in EarlyStages => stage \in EarlyStages
    BY EarlyIsNotEntered
  <2>3. RowsFit'
    BY <1>3, <2>2 DEF RowsFit, trustVars
  <2> QED BY <2>1, <2>3
<1> QED BY <1>1, <1>2, <1>3, WhoMovesTrust

-----------------------------------------------------------------------------
(* The types.                                                                 *)

LEMMA ControlKeeps ==
  ASSUME ControlOK, WhyFits, TriesFit, Next
  PROVE  ControlOK'
<1> USE NoneAssumption, SessionAssumption
    DEF ControlOK, WhyFits, TriesFit, EarlyStages, LateStages, Stages,
        HandshakeStages, Reasons, Ended, ExitCodes, Reason, Fail, HandshakeFails,
        Goto, ExitCode, AskUser, Submitted
\* The user, the clock, the network and the other process.
<1>1. CASE UserSignals
  BY <1>1 DEF UserSignals
<1>2. CASE SignalArrives
  BY <1>2 DEF SignalArrives
<1>3. CASE DeadlineExpires
  BY <1>3 DEF DeadlineExpires
<1>4. CASE PeerIsLost
  BY <1>4 DEF PeerIsLost
<1>5. CASE OtherProcess
  BY <1>5 DEF OtherProcess
\* Up to the socket.
<1>6. CASE Bootstrap
  BY <1>6 DEF Bootstrap
<1>7. CASE Resolve
  BY <1>7 DEF Resolve
<1>8. CASE RecoverCredentials
  BY <1>8 DEF RecoverCredentials
<1>9. CASE Capture
  BY <1>9 DEF Capture
<1>10. CASE Size
  BY <1>10 DEF Size
<1>11. CASE Dial
  BY <1>11 DEF Dial
\* The handshake and the gate.
<1>12. CASE ContextWatcher
  BY <1>12 DEF ContextWatcher
<1>13. CASE PresentKey
  BY <1>13 DEF PresentKey
<1>14. CASE HandshakeBreaks
  BY <1>14 DEF HandshakeBreaks
<1>15. CASE Verify
  BY <1>15 DEF Verify
<1>16. CASE Decide
  BY <1>16 DEF Decide
<1>17. CASE Persist
  BY <1>17 DEF Persist
<1>18. CASE Reread
  BY <1>18 DEF Reread
\* Authentication.
<1>19. CASE BuildAuthMethod
  BY <1>19 DEF BuildAuthMethod
<1>20. CASE AgentWatcher
  BY <1>20 DEF AgentWatcher
<1>21. CASE Signers
  BY <1>21 DEF Signers
<1>22. CASE Offer
  BY <1>22 DEF Offer
<1>23. CASE Password
  BY <1>23 DEF Password
<1>24. CASE Passphrase
  BY <1>24 DEF Passphrase
<1>25. CASE PromptOpens
  BY <1>25 DEF PromptOpens
<1>26. CASE PromptEnds
  BY <1>26 DEF PromptEnds
<1>27. CASE PromptCanceled
  BY <1>27 DEF PromptCanceled
<1>28. CASE ServerAnswers
  BY <1>28 DEF ServerAnswers
<1>29. CASE OpenTransport
  BY <1>29 DEF OpenTransport
\* The session.
<1>30. CASE NewSession
  BY <1>30 DEF NewSession
<1>31. CASE RequestPty
  BY <1>31 DEF RequestPty
<1>32. CASE RequestBreaks
  BY <1>32 DEF RequestBreaks
<1>33. CASE MakeRaw
  BY <1>33 DEF MakeRaw
<1>34. CASE Start
  BY <1>34 DEF Start
<1>35. CASE RemoteEnds
  BY <1>35 DEF RemoteEnds
<1>36. CASE ChannelEnds
  BY <1>36 DEF ChannelEnds
<1>37. CASE ServerCloses
  BY <1>37 DEF ServerCloses
<1>38. CASE ResizerEnds
  BY <1>38 DEF ResizerEnds
<1>39. CASE SessionEnded
  BY <1>39 DEF SessionEnded
<1>40. CASE ResizeFailed
  BY <1>40 DEF ResizeFailed
<1>41. CASE ContextEnded
  BY <1>41 DEF ContextEnded
<1>42. CASE Drained
  BY <1>42 DEF Drained
<1>43. CASE JoinResizer
  BY <1>43 DEF JoinResizer
\* The way out.
<1>44. CASE CloseResources
  BY <1>44 DEF CloseResources
<1>45. CASE Restore
  BY <1>45 DEF Restore
<1>46. CASE Report
  BY <1>46 DEF Report
<1>47. CASE CloseDependencies
  BY <1>47 DEF CloseDependencies
<1>48. CASE StopSignals
  BY <1>48 DEF StopSignals
<1>49. CASE Done
  BY <1>49 DEF Done, vars
<1> QED BY <1>1, <1>2, <1>3, <1>4, <1>5, <1>6, <1>7, <1>8, <1>9, <1>10, <1>11, <1>12,
           <1>13, <1>14, <1>15, <1>16, <1>17, <1>18, <1>19, <1>20, <1>21, <1>22,
           <1>23, <1>24, <1>25, <1>26, <1>27, <1>28, <1>29, <1>30, <1>31, <1>32,
           <1>33, <1>34, <1>35, <1>36, <1>37, <1>38, <1>39, <1>40, <1>41, <1>42,
           <1>43, <1>44, <1>45, <1>46, <1>47, <1>48, <1>49
    DEF Next, Environment, Answers, Program

\* What the gate notes when it trusts a key.
LEMMA TrustingType ==
  ASSUME RecordsOK, NEW grounds \in Grounds, Trusting(grounds)
  PROVE  gate' \in [key: Keys \cup {None}, row: TrustedHost \cup {None},
                    verified: BOOLEAN, grounds: Grounds]
BY DEF RecordsOK, Trusting

LEMMA RecordsKeep ==
  ASSUME TrustTypeOK, RecordsOK, GateFits, Next
  PROVE  RecordsOK'
<1> USE DEF RecordsOK, Grounds
<1>1. CASE UNCHANGED <<signals, tty, gate>>
  BY <1>1
<1>2. CASE UserSignals
  <2>1. signals.sent + 1 \in 0 .. MaxSignals
    BY <1>2, SessionAssumption DEF UserSignals
  <2> QED BY <1>2, <2>1 DEF UserSignals
<1>3. CASE SignalArrives
  BY <1>3 DEF SignalArrives
<1>4. CASE StopSignals
  BY <1>4 DEF StopSignals
<1>5. CASE PresentKey
  BY <1>5 DEF PresentKey
<1>6. CASE Verify
  <2>1. gate.key \in Keys
    BY <1>6 DEF Verify, GateFits
  <2>2. CheckHost(gate.key).row \in TrustedHost \cup {None}
    BY <2>1, CheckedHost
  <2> QED BY <1>6, <2>2, TrustingType DEF Verify
<1>7. CASE Decide
  BY <1>7, TrustingType DEF Decide
<1>8. CASE Reread
  BY <1>8, TrustingType DEF Reread
<1>9. CASE Capture
  BY <1>9 DEF Capture
<1>10. CASE PromptOpens
  BY <1>10 DEF PromptOpens
<1>11. CASE PromptEnds
  BY <1>11 DEF PromptEnds
<1>12. CASE PromptCanceled
  BY <1>12 DEF PromptCanceled
<1>13. CASE MakeRaw
  BY <1>13 DEF MakeRaw
<1>14. CASE Restore
  BY <1>14 DEF Restore
<1> QED BY <1>1, <1>2, <1>3, <1>4, <1>5, <1>6, <1>7, <1>8, <1>9, <1>10, <1>11, <1>12,
           <1>13, <1>14, WhoMovesRecords

LEMMA LinkKeeps ==
  ASSUME LinkOK, Next
  PROVE  LinkOK'
<1> USE DEF LinkOK, Parts, PartStates, Closed
<1>1. CASE UNCHANGED link
  BY <1>1
<1>2. CASE Dial
  BY <1>2 DEF Dial
<1>3. CASE ContextWatcher
  BY <1>3 DEF ContextWatcher
<1>4. CASE BuildAuthMethod
  BY <1>4 DEF BuildAuthMethod
<1>5. CASE AgentWatcher
  BY <1>5 DEF AgentWatcher
<1>6. CASE Signers
  BY <1>6 DEF Signers
<1>7. CASE ServerAnswers
  BY <1>7 DEF ServerAnswers
<1>8. CASE OpenTransport
  BY <1>8 DEF OpenTransport
<1>9. CASE NewSession
  BY <1>9 DEF NewSession
<1>10. CASE ResizeFailed
  BY <1>10 DEF ResizeFailed
<1>11. CASE ContextEnded
  BY <1>11 DEF ContextEnded
<1>12. CASE CloseResources
  BY <1>12 DEF CloseResources
<1> QED BY <1>1, <1>2, <1>3, <1>4, <1>5, <1>6, <1>7, <1>8, <1>9, <1>10, <1>11, <1>12,
           WhoMovesLink

-----------------------------------------------------------------------------
(* The attempt.                                                               *)

LEMMA AttemptKeeps ==
  ASSUME TrustTypeOK, request \in Requests, ControlOK, RecordsOK, LinkOK, AttemptFits, Next
  PROVE  AttemptFits'
<1> USE NoneAssumption, SessionAssumption, HostTrustAssumption
    DEF ControlOK, RecordsOK, LinkOK, AttemptFits, GateFits, TriesFit, LinkFits,
        WhyFits, GoroutinesFit, TerminalFits, ExitFits, EarlyStages, DecidingStages,
        LateStages, SecretStages, HandshakeStages, Requests, Commands, Parts,
        PartStates, Reasons, Ended, ExitCodes, trustVars, Reason, Fail,
        HandshakeFails, Goto, ExitCode, Closed, Trusting, AskUser, Submitted
\* The user, the clock, the network and the other process.
<1>1. CASE UserSignals
  BY <1>1 DEF UserSignals
<1>2. CASE SignalArrives
  <2>1. GateFits'
    BY <1>2 DEF SignalArrives
  <2>2. TriesFit'
    BY <1>2 DEF SignalArrives
  <2>3. LinkFits'
    BY <1>2 DEF SignalArrives
  <2>4. WhyFits'
    BY <1>2 DEF SignalArrives
  <2>5. GoroutinesFit'
    BY <1>2 DEF SignalArrives
  <2>6. TerminalFits'
    BY <1>2 DEF SignalArrives
  <2>7. ExitFits'
    BY <1>2 DEF SignalArrives
  <2> QED BY <2>1, <2>2, <2>3, <2>4, <2>5, <2>6, <2>7 DEF AttemptFits
<1>3. CASE DeadlineExpires
  BY <1>3 DEF DeadlineExpires
<1>4. CASE PeerIsLost
  BY <1>4 DEF PeerIsLost
<1>5. CASE OtherProcess
  BY <1>5, FilesStay DEF OtherProcess
\* Up to the socket.
<1>6. CASE Bootstrap
  BY <1>6 DEF Bootstrap
<1>7. CASE Resolve
  BY <1>7 DEF Resolve
<1>8. CASE RecoverCredentials
  BY <1>8 DEF RecoverCredentials
<1>9. CASE Capture
  BY <1>9 DEF Capture
<1>10. CASE Size
  BY <1>10 DEF Size
<1>11. CASE Dial
  BY <1>11 DEF Dial
\* The handshake and the gate.
<1>12. CASE ContextWatcher
  BY <1>12 DEF ContextWatcher
<1>13. CASE PresentKey
  BY <1>13 DEF PresentKey
<1>14. CASE HandshakeBreaks
  BY <1>14 DEF HandshakeBreaks
<1>15. CASE Verify
  <2>1. stage = "verify" /\ gate.key \in Keys /\ UNCHANGED <<files, request>>
    BY <1>15 DEF Verify
  <2>2. /\ CheckHost(gate.key).row \in TrustedHost \cup {None}
        /\ Decidable(CheckHost(gate.key)) => gate.key \notin files.listed \cup files.revoked
        /\ CheckHost(gate.key).status = "known" => gate.key \notin files.revoked
        /\ Standard(gate.key) = "known" => gate.key \in files.listed
    BY <2>1, CheckedHost
  <2>3. GateFits'
    <3>1. CASE stage' = "auth"
      <4>1. /\ CheckHost(gate.key).status = "known"
            /\ gate' = [key |-> gate.key, row |-> None, verified |-> TRUE,
                        grounds |-> IF Standard(gate.key) = "known" THEN "files" ELSE "row"]
        BY <1>15, <3>1 DEF Verify
      <4> QED BY <2>1, <2>2, <3>1, <4>1
    <3>2. CASE stage' = "decide"
      <4>1. /\ Decidable(CheckHost(gate.key)) /\ request.command = "connect"
            /\ gate'.key = gate.key
        BY <1>15, <3>2 DEF Verify
      <4> QED BY <2>1, <2>2, <3>2, <4>1
    <3>3. CASE stage' = "joined"
      BY <3>3
    <3> QED BY <1>15, <3>1, <3>2, <3>3 DEF Verify
  <2>4. TriesFit' /\ LinkFits' /\ WhyFits'
    BY <1>15 DEF Verify
  <2>5. GoroutinesFit' /\ TerminalFits' /\ ExitFits'
    BY <1>15 DEF Verify
  <2> QED BY <2>3, <2>4, <2>5 DEF AttemptFits
<1>16. CASE Decide
  BY <1>16 DEF Decide
<1>17. CASE Persist
  BY <1>17, FilesStay DEF Persist
<1>18. CASE Reread
  BY <1>18 DEF Reread
\* Authentication.
<1>19. CASE BuildAuthMethod
  BY <1>19 DEF BuildAuthMethod
<1>20. CASE AgentWatcher
  BY <1>20 DEF AgentWatcher
<1>21. CASE Signers
  BY <1>21 DEF Signers
<1>22. CASE Offer
  BY <1>22 DEF Offer
<1>23. CASE Password
  <2>1. GateFits'
    BY <1>23 DEF Password
  <2>2. TriesFit'
    BY <1>23 DEF Password
  <2>3. LinkFits'
    BY <1>23 DEF Password
  <2>4. WhyFits'
    BY <1>23 DEF Password
  <2>5. GoroutinesFit'
    BY <1>23 DEF Password
  <2>6. TerminalFits'
    BY <1>23 DEF Password
  <2>7. ExitFits'
    BY <1>23 DEF Password
  <2> QED BY <2>1, <2>2, <2>3, <2>4, <2>5, <2>6, <2>7 DEF AttemptFits
<1>24. CASE Passphrase
  BY <1>24 DEF Passphrase
<1>25. CASE PromptOpens
  BY <1>25 DEF PromptOpens
<1>26. CASE PromptEnds
  BY <1>26 DEF PromptEnds
<1>27. CASE PromptCanceled
  BY <1>27 DEF PromptCanceled
<1>28. CASE ServerAnswers
  BY <1>28 DEF ServerAnswers
<1>29. CASE OpenTransport
  BY <1>29 DEF OpenTransport
\* The session.
<1>30. CASE NewSession
  BY <1>30 DEF NewSession
<1>31. CASE RequestPty
  BY <1>31 DEF RequestPty
<1>32. CASE RequestBreaks
  BY <1>32 DEF RequestBreaks
<1>33. CASE MakeRaw
  BY <1>33 DEF MakeRaw
<1>34. CASE Start
  BY <1>34 DEF Start
<1>35. CASE RemoteEnds
  BY <1>35 DEF RemoteEnds
<1>36. CASE ChannelEnds
  BY <1>36 DEF ChannelEnds
<1>37. CASE ServerCloses
  BY <1>37 DEF ServerCloses
<1>38. CASE ResizerEnds
  BY <1>38 DEF ResizerEnds
<1>39. CASE SessionEnded
  BY <1>39 DEF SessionEnded
<1>40. CASE ResizeFailed
  BY <1>40 DEF ResizeFailed
<1>41. CASE ContextEnded
  BY <1>41 DEF ContextEnded
<1>42. CASE Drained
  BY <1>42 DEF Drained
<1>43. CASE JoinResizer
  BY <1>43 DEF JoinResizer
\* The way out.
<1>44. CASE CloseResources
  BY <1>44 DEF CloseResources
<1>45. CASE Restore
  <2>1. GateFits'
    BY <1>45 DEF Restore
  <2>2. TriesFit'
    BY <1>45 DEF Restore
  <2>3. LinkFits'
    BY <1>45 DEF Restore
  <2>4. WhyFits'
    BY <1>45 DEF Restore
  <2>5. GoroutinesFit'
    BY <1>45 DEF Restore
  <2>6. TerminalFits'
    <3>1. stage' = "report" /\ request' = request
      BY <1>45 DEF Restore
    <3>2. CASE tty' = [tty EXCEPT !.raw = FALSE, !.broken = FALSE]
      BY <3>1, <3>2
    <3>3. CASE /\ tty' = [tty EXCEPT !.broken = TRUE]
               /\ why' = IF why = None THEN "terminal" ELSE why
      BY <3>1, <3>3
    <3> QED BY <1>45, <3>2, <3>3 DEF Restore
  <2>7. ExitFits'
    BY <1>45 DEF Restore
  <2> QED BY <2>1, <2>2, <2>3, <2>4, <2>5, <2>6, <2>7 DEF AttemptFits
<1>46. CASE Report
  BY <1>46 DEF Report
<1>47. CASE CloseDependencies
  BY <1>47 DEF CloseDependencies
<1>48. CASE StopSignals
  BY <1>48 DEF StopSignals
<1>49. CASE Done
  BY <1>49 DEF Done, vars
<1> QED BY <1>1, <1>2, <1>3, <1>4, <1>5, <1>6, <1>7, <1>8, <1>9, <1>10, <1>11, <1>12,
           <1>13, <1>14, <1>15, <1>16, <1>17, <1>18, <1>19, <1>20, <1>21, <1>22,
           <1>23, <1>24, <1>25, <1>26, <1>27, <1>28, <1>29, <1>30, <1>31, <1>32,
           <1>33, <1>34, <1>35, <1>36, <1>37, <1>38, <1>39, <1>40, <1>41, <1>42,
           <1>43, <1>44, <1>45, <1>46, <1>47, <1>48, <1>49
    DEF Next, Environment, Answers, Program

-----------------------------------------------------------------------------
(* The theorems.                                                              *)

LEMMA InitInvariant == Init => IInv
<1> SUFFICES ASSUME Init PROVE IInv
  OBVIOUS
<1>1. TrustTypeOK /\ RowsFit /\ OtherFits
  <2>1. trusted \in TrustedHost \cup {None}
    BY HostTrustAssumption DEF Init, TrustInit, TrustedHost
  <2>2. other = [doing |-> "nothing", key |-> None, shown |-> None]
    BY DEF Init, TrustInit, Idle
  <2> QED BY <2>1, <2>2, HostTrustAssumption
          DEF Init, TrustInit, TrustTypeOK, RowsFit, OtherFits
<1>2. ControlOK /\ request \in Requests
  BY SessionAssumption DEF Init, ControlOK, Stages
<1>3. RecordsOK
  BY SessionAssumption DEF Init, RecordsOK, Grounds
<1>4. LinkOK
  BY DEF Init, LinkOK, Parts, PartStates
<1>5. GateFits /\ TriesFit /\ LinkFits
  BY SessionAssumption
     DEF Init, GateFits, TriesFit, LinkFits, DecidingStages, SecretStages, Parts
<1>6. WhyFits /\ GoroutinesFit
  BY NoneAssumption DEF Init, WhyFits, GoroutinesFit, Reasons
<1>7. TerminalFits /\ ExitFits
  BY NoneAssumption DEF Init, TerminalFits, ExitFits, HandshakeStages, ExitCodes
<1> QED BY <1>1, <1>2, <1>3, <1>4, <1>5, <1>6, <1>7, InvariantParts DEF AttemptFits

LEMMA NextInvariant == IInv /\ [Next]_vars => IInv'
<1> SUFFICES ASSUME IInv, [Next]_vars PROVE IInv'
  OBVIOUS
<1>1. CASE Next
  <2>1. /\ TrustTypeOK /\ request \in Requests /\ ControlOK /\ RecordsOK /\ LinkOK
        /\ RowsFit /\ OtherFits /\ AttemptFits
    BY InvariantParts
  <2>2. TrustTypeOK' /\ OtherFits' /\ RowsFit'
    BY <1>1, <2>1, TrustKeeps DEF AttemptFits
  <2>3. ControlOK'
    BY <1>1, <2>1, ControlKeeps DEF AttemptFits
  <2>4. RecordsOK'
    BY <1>1, <2>1, RecordsKeep DEF AttemptFits
  <2>5. LinkOK'
    BY <1>1, <2>1, LinkKeeps
  <2>6. AttemptFits'
    BY <1>1, <2>1, AttemptKeeps
  <2>7. (request \in Requests)'
    BY <1>1, <2>1, FilesStay
  <2>8. (InvariantParts)'
    BY InvariantParts, PTL
  <2> QED BY <2>2, <2>3, <2>4, <2>5, <2>6, <2>7, <2>8
<1>2. CASE UNCHANGED vars
  BY <1>2 DEF vars, trustVars, IInv, TypeOK, TrustTypeOK, RowsFit, OtherFits, GateFits,
              TriesFit, LinkFits, WhyFits, GoroutinesFit, TerminalFits, ExitFits
<1> QED BY <1>1, <1>2

\* The invariant, for every number of keys, rows, revisions, signals and attempts
\* (client.go:146, connect.go:65, policy.go:199).
THEOREM SessionInvariantHolds == Spec => []IInv
<1> QED BY InitInvariant, NextInvariant, PTL DEF Spec

\* Every variable keeps its type: passphrases are asked for as often as auth.go:63
\* allows.
THEOREM TypeCorrect == Spec => []TypeOK
<1>1. IInv => TypeOK
  BY DEF IInv
<1> QED BY <1>1, SessionInvariantHolds, PTL

\* No agent, password or passphrase is touched before the key that this server
\* presented is trusted (connect.go:95, command.go:64).
THEOREM SecretsAfterTrust == Spec => []SecretsFollowTrust
<1>1. IInv => SecretsFollowTrust
  BY HostTrustAssumption DEF IInv, GateFits, SecretsFollowTrust
<1> QED BY <1>1, SessionInvariantHolds, PTL

\* The process leaves no socket, session, agent or goroutine of Orza's own, and a
\* raw terminal only when the terminal refused (client.go:146, session.go:278).
THEOREM LeavesNothing == Spec => []NothingLeftBehind
<1>1. IInv => NothingLeftBehind
  BY DEF IInv, LinkFits, GoroutinesFit, TerminalFits, LateStages, NothingLeftBehind
<1> QED BY <1>1, SessionInvariantHolds, PTL

\* The exit status tells what happened (main.go:107, connect.go:65).
THEOREM ExitTells == Spec => []ExitIsTrue
<1>1. IInv => ExitIsTrue
  BY DEF IInv, ExitFits, ExitIsTrue
<1> QED BY <1>1, SessionInvariantHolds, PTL

\* The terminal of a session becomes usable only after the network is gone
\* (client.go:132).
THEOREM TerminalIsRestoredLast == Spec => TerminalAfterNetwork
<1>1. IInv /\ [Next]_vars =>
        [tty.raw /\ ~tty'.raw /\ stage # "prompting" =>
            \A p \in Parts : link[p] # "open"]_vars
  <2> SUFFICES ASSUME IInv, Next, tty.raw, ~tty'.raw, stage # "prompting"
               PROVE  \A p \in Parts : link[p] # "open"
    OBVIOUS
  <2>1. RecordsOK
    BY InvariantParts
  <2>2. stage = "restore"
    <3>1. tty' # tty
      OBVIOUS
    <3>2. ~UNCHANGED <<signals, tty, gate>>
      BY <3>1
    <3> QED BY <2>1, <3>1, <3>2, WhoMovesRecords
            DEF RecordsOK, UserSignals, SignalArrives, StopSignals, PresentKey, Verify, Decide,
                Reread, Capture, PromptOpens, PromptEnds, PromptCanceled, MakeRaw, Restore
  <2> QED BY <2>2 DEF IInv, LinkFits, LateStages
<1> QED BY <1>1, SessionInvariantHolds, PTL DEF Spec, TerminalAfterNetwork

\* Only keys that known_hosts neither lists nor revokes reach the table, from
\* whichever process (policy.go:217, connect.go:217).
THEOREM StoredKeysAreOpen == Spec => StoredKeysWereUndecided
<1>1. IInv /\ [Next]_vars =>
        [trusted' # trusted /\ trusted' # None =>
            trusted'.key \notin files.listed \cup files.revoked]_vars
  <2> SUFFICES ASSUME IInv, Next, trusted' # trusted, trusted' # None
               PROVE  trusted'.key \notin files.listed \cup files.revoked
    OBVIOUS
  <2>1. TrustTypeOK /\ OtherFits /\ RowsFit /\ GateFits /\ ControlOK
    BY InvariantParts DEF AttemptFits
  <2> QED BY <2>1, TrustKeeps
<1> QED BY <1>1, SessionInvariantHolds, PTL DEF Spec, StoredKeysWereUndecided
=============================================================================
