--------------------------- MODULE NativeStoreProofs ---------------------------
(* The credential stores keep to themselves what they ask of Secret Service,  *)
(* and keep the promise of CredentialStore.                                   *)
EXTENDS NativeStoreInvariant, TLAPS

\* What a caller knows is its own: it stays true when another one moves.
LEMMA OthersKeep ==
  ASSUME IInv, NEW c \in Callers, NEW d \in Callers, c # d,
         UNCHANGED <<platform, noUI>>, call'[d] = call[d],
         token = d => token' = d,
         collection' = "missing" => collection = "missing",
         item' # item /\ platform = "linux" => token = c
  PROVE  CallFits(d)'
<1>1. CallFits(d)
  BY DEF IInv
<1>2. StepFits(d)'
  BY <1>1 DEF CallFits, StepFits, AdmittedHasToken
<1>3. AdmittedHasToken(d)'
  BY <1>1 DEF CallFits, AdmittedHasToken
<1>4. SessionIsFollowed(d)'
  BY <1>1 DEF CallFits, SessionIsFollowed
<1>5. MessageIsFollowed(d)'
  BY <1>1 DEF CallFits, MessageIsFollowed, Joined
<1>6. NothingIsAsked(d)'
  BY <1>1 DEF CallFits, NothingIsAsked
<1>7. ResultIsSeen(d)'
  BY <1>1 DEF CallFits, ResultIsSeen
<1> QED BY <1>2, <1>3, <1>4, <1>5, <1>6, <1>7 DEF CallFits

\* A step of one caller need only be looked at for that caller.
LEMMA StepKeeps ==
  ASSUME IInv, NEW c \in Callers,
         UNCHANGED <<platform, noUI>>,
         \A d \in Callers \ {c} : call'[d] = call[d] /\ (token = d => token' = d),
         collection' = "missing" => collection = "missing",
         item' # item /\ platform = "linux" => token = c,
         TypeOK', CollectionFits', CallFits(c)'
  PROVE  IInv'
<1>1. ASSUME NEW d \in Callers PROVE CallFits(d)'
  BY OthersKeep
<1> QED BY <1>1 DEF IInv

-----------------------------------------------------------------------------
(* The ways a call goes on.                                                   *)

\* What a step of a caller leaves alone when it only moves its call.
Moves(c) ==
    /\ UNCHANGED world
    /\ faults' \in 0..MaxFaults
    /\ \A d \in Callers \ {c} : call'[d] = call[d]

LEMMA MoveKeeps ==
  ASSUME IInv, NEW c \in Callers, Moves(c), call' \in [Callers -> Calls], CallFits(c)'
  PROVE  IInv'
<1>1. TypeOK'
  BY DEF IInv, TypeOK, Moves, world
<1>2. CollectionFits'
  BY DEF IInv, CollectionFits, Moves, world
<1> QED BY <1>1, <1>2, StepKeeps DEF Moves, world

\* Where a call may be, and what may have become of its message and its prompt.
LEMMA CallValues ==
  /\ "idle" \in Steps /\ "add" \in Steps /\ "verify" \in Steps /\ "read" \in Steps
  /\ "mutate" \in Steps /\ "end" \in Steps /\ "open" \in Steps /\ "prepare" \in Steps
  /\ "none" \in Remotes /\ "ok" \in Remotes /\ "prompt" \in Remotes /\ "error" \in Remotes
  /\ "none" \in Prompts /\ "offered" \in Prompts /\ "approved" \in Prompts
  /\ "dismissed" \in Prompts /\ "broken" \in Prompts
BY DEF Steps, Remotes, Prompts

\* A call may fail once nothing of it is left at the service but a session.
LEMMA FailsKeeps ==
  ASSUME IInv, NEW c \in Callers, Fails(c), UNCHANGED world, faults' \in 0..MaxFaults,
         call[c].pc # "idle", call[c].session # "open",
         call[c].remote # "sent", ~call[c].waiter,
         call[c].prompt \notin {"offered", "shown", "broken"}
  PROVE  IInv'
<1>1. call \in [Callers -> Calls] /\ CallFits(c)
  BY DEF IInv, TypeOK
<1>3. call'[c] = [call[c] EXCEPT !.pc = "end", !.result = "failed", !.remote = "none"]
  BY <1>1 DEF Fails
<1>2. call' \in [Callers -> Calls] /\ Moves(c)
  <2>1. call'[c] \in Calls
    <3>1. call[c] \in Calls
      BY <1>1
    <3> QED BY <1>3, <3>1, CallValues DEF Calls
  <2>2. call' = [call EXCEPT ![c] = call'[c]]
    BY <1>1 DEF Fails
  <2> QED BY <1>1, <2>1, <2>2 DEF Moves
<1>4. StepFits(c)'
  BY <1>1, <1>3 DEF CallFits, StepFits, Calls, world
<1>5. AdmittedHasToken(c)' /\ SessionIsFollowed(c)'
  BY <1>1, <1>3 DEF CallFits, AdmittedHasToken, SessionIsFollowed, Calls, world
<1>6. MessageIsFollowed(c)' /\ NothingIsAsked(c)'
  BY <1>1, <1>3 DEF CallFits, MessageIsFollowed, NothingIsAsked, Calls, world
<1>7. ResultIsSeen(c)'
  BY <1>1, <1>3 DEF CallFits, ResultIsSeen, Calls
<1> QED BY <1>2, <1>4, <1>5, <1>6, <1>7, MoveKeeps DEF CallFits

\* So may one that reads: it has sent nothing.
LEMMA ReadFailsKeeps ==
  ASSUME IInv, NEW c \in Callers, ReadFails(c), call[c].pc # "idle", ~Joined(c)
  PROVE  IInv'
<1>1. TypeOK /\ CallFits(c)
  BY DEF IInv
<1>2. faults' \in 0..MaxFaults
  BY <1>1, StoreAssumption DEF ReadFails, Fault, TypeOK
<1>3. call[c].remote = "none"
  BY <1>1 DEF CallFits, MessageIsFollowed
<1>4. call[c].session # "open" /\ ~call[c].waiter
      /\ call[c].prompt \notin {"offered", "shown", "broken"}
  BY <1>1, <1>3 DEF CallFits, MessageIsFollowed, SessionIsFollowed
<1> QED BY <1>2, <1>3, <1>4, FailsKeeps DEF ReadFails

\* On Linux a call advances from one step to the next when nothing of the step is
\* left at the service.
LEMMA AdvanceKeeps ==
  ASSUME IInv, NEW c \in Callers, Advance(c, call[c].pc), UNCHANGED <<world, faults>>,
         platform = "linux", call[c].pc \in {"open", "prepare", "check", "mutate"},
         ~call[c].waiter
  PROVE  IInv'
<1>1. TypeOK /\ call \in [Callers -> Calls] /\ CallFits(c)
  BY DEF IInv, TypeOK
<1>2. NextStep(call[c].op, call[c].pc) \in Steps
  BY DEF NextStep, Steps
<1>4. call'[c] = [call[c] EXCEPT !.pc = NextStep(call[c].op, call[c].pc), !.remote = "none",
                                 !.prompt = "none",
                                 !.session = IF call[c].pc = "open" THEN "owned" ELSE @]
  BY <1>1 DEF Advance
<1>3. call' \in [Callers -> Calls] /\ Moves(c)
  <2>1. call'[c] \in Calls
    <3>1. call[c] \in Calls
      BY <1>1
    <3>2. (IF call[c].pc = "open" THEN "owned" ELSE call[c].session) \in {"none", "open", "owned"}
      BY <3>1 DEF Calls
    <3> QED BY <1>2, <1>4, <3>1, CallValues DEF Calls
  <2>2. call' = [call EXCEPT ![c] = call'[c]]
    BY <1>1 DEF Advance
  <2> QED BY <1>1, <2>1, <2>2 DEF Moves, TypeOK
<1>5. StepFits(c)'
  BY <1>1, <1>4 DEF CallFits, StepFits, Calls, world, NextStep
<1>6. AdmittedHasToken(c)' /\ SessionIsFollowed(c)'
  BY <1>1, <1>4 DEF CallFits, AdmittedHasToken, SessionIsFollowed, Calls, world, NextStep
<1>7. MessageIsFollowed(c)' /\ NothingIsAsked(c)'
  BY <1>1, <1>4 DEF CallFits, MessageIsFollowed, NothingIsAsked, Calls, world
<1>8. ResultIsSeen(c)'
  BY <1>1, <1>4 DEF CallFits, ResultIsSeen, Calls, NextStep
<1> QED BY <1>3, <1>5, <1>6, <1>7, <1>8, MoveKeeps DEF CallFits

\* What a reading has seen is the item: it ends the call, or leads it on.
LEMMA SeeKeeps ==
  ASSUME IInv, NEW c \in Callers, NEW pc, NEW result, See(c, pc, result),
         UNCHANGED <<world, faults>>, call[c].pc \notin {"idle", "begin", "end"}, ~Joined(c),
         \/ pc = "read" /\ result = "none" /\ call[c].op = "get" /\ item # None
         \/ pc = "mutate" /\ result = "none" /\ call[c].op = "delete"
         \/ pc = "end" /\ result = "absent" /\ call[c].op = "get" /\ item = None
         \/ pc = "end" /\ result = "ok" /\ call[c].op = "get" /\ item # None
         \/ pc = "end" /\ result = "ok" /\ call[c].op # "get" /\ item = call[c].arg
  PROVE  IInv'
<1>1. TypeOK /\ call \in [Callers -> Calls] /\ CallFits(c)
  BY DEF IInv, TypeOK
<1>2. call[c].remote = "none"
  BY <1>1 DEF CallFits, MessageIsFollowed
<1>3. call'[c] = [call[c] EXCEPT !.witness = item, !.pc = pc, !.result = result]
  BY <1>1 DEF See
<1>4. call' \in [Callers -> Calls] /\ Moves(c)
  <2>1. call'[c] \in Calls
    <3>1. call[c] \in Calls
      BY <1>1
    <3>2. pc \in Steps /\ item \in Values \cup {None} /\ result \in {"none", "ok", "absent", "failed"}
      BY <1>1, CallValues DEF TypeOK
    <3> QED BY <1>3, <3>1, <3>2, CallValues DEF Calls
  <2>2. call' = [call EXCEPT ![c] = call'[c]]
    BY <1>1 DEF See
  <2> QED BY <1>1, <2>1, <2>2 DEF Moves, TypeOK
<1>5. StepFits(c)'
  BY <1>1, <1>3 DEF CallFits, StepFits, Calls, world
<1>6. AdmittedHasToken(c)' /\ SessionIsFollowed(c)'
  BY <1>1, <1>2, <1>3 DEF CallFits, AdmittedHasToken, SessionIsFollowed, Calls, world
<1>7. MessageIsFollowed(c)' /\ NothingIsAsked(c)'
  BY <1>1, <1>2, <1>3 DEF CallFits, MessageIsFollowed, NothingIsAsked, Calls, world
<1>8. ResultIsSeen(c)'
  BY <1>1, <1>3 DEF CallFits, ResultIsSeen, Calls, TypeOK
<1> QED BY <1>4, <1>5, <1>6, <1>7, <1>8, MoveKeeps DEF CallFits

\* What has become of the message and of its prompt.
Becomes(c, remote, prompt, waiter) ==
    call' = [call EXCEPT ![c] = [@ EXCEPT !.remote = remote, !.prompt = prompt,
                                          !.waiter = waiter]]

\* The call it leaves.
Became(c, remote, prompt, waiter) ==
    /\ call'[c] = [call[c] EXCEPT !.remote = remote, !.prompt = prompt, !.waiter = waiter]
    /\ call'[c] \in Calls
    /\ call' = [call EXCEPT ![c] = call'[c]]

LEMMA BecomesType ==
  ASSUME NEW c \in Callers, call \in [Callers -> Calls],
         NEW remote \in Remotes, NEW prompt \in Prompts, NEW waiter \in BOOLEAN,
         Becomes(c, remote, prompt, waiter)
  PROVE  Became(c, remote, prompt, waiter)
<1>1. call'[c] = [call[c] EXCEPT !.remote = remote, !.prompt = prompt, !.waiter = waiter]
  BY DEF Becomes
<1>2. [call[c] EXCEPT !.remote = remote] \in Calls
  BY DEF Calls
<1>3. [call[c] EXCEPT !.remote = remote, !.prompt = prompt] \in Calls
  BY <1>2 DEF Calls
<1>4. [call[c] EXCEPT !.remote = remote, !.prompt = prompt, !.waiter = waiter] \in Calls
  BY <1>3 DEF Calls
<1> QED BY <1>1, <1>4 DEF Becomes, Became

\* When a message, its prompt and its waiter go together.
MayBecome(c, remote, prompt, waiter) ==
    /\ collection = "missing" =>
          prompt \notin {"offered", "shown"} /\ call[c].pc # "prepare"
    /\ remote \in {"none", "sent", "ok", "error"} =>
          ~waiter /\ prompt \notin {"offered", "shown", "broken"}
    /\ remote = "prompt" => ~waiter /\ prompt = "offered"
    /\ remote = "prompting" => ~noUI
    /\ waiter => ~noUI /\ prompt \in {"offered", "shown"}
    /\ prompt = "shown" => waiter

\* A message goes out, or what has become of it changes.
LEMMA RemoteKeeps ==
  ASSUME IInv, NEW c \in Callers, UNCHANGED world, faults' \in 0..MaxFaults,
         NEW remote \in Remotes, NEW prompt \in Prompts, NEW waiter \in BOOLEAN,
         Becomes(c, remote, prompt, waiter),
         Joined(c), call[c].session # "open",
         MayBecome(c, remote, prompt, waiter)
  PROVE  IInv'
<1>1. TypeOK /\ call \in [Callers -> Calls] /\ CallFits(c)
  BY DEF IInv, TypeOK
<1>2. /\ call'[c] = [call[c] EXCEPT !.remote = remote, !.prompt = prompt, !.waiter = waiter]
      /\ call'[c] \in Calls /\ call' = [call EXCEPT ![c] = call'[c]]
  <2>1. Became(c, remote, prompt, waiter)
    BY <1>1, BecomesType
  <2> QED BY <2>1 DEF Became
<1>3. call' \in [Callers -> Calls] /\ Moves(c)
  BY <1>1, <1>2 DEF Moves
<1>4. StepFits(c)'
  BY <1>1, <1>2 DEF CallFits, StepFits, Calls, world
<1>5. AdmittedHasToken(c)' /\ SessionIsFollowed(c)'
  BY <1>1, <1>2 DEF CallFits, AdmittedHasToken, SessionIsFollowed, Calls, world
<1>6. MessageIsFollowed(c)'
  BY <1>1, <1>2 DEF CallFits, MessageIsFollowed, MayBecome, Joined, Calls, world
<1>7. NothingIsAsked(c)'
  BY <1>1, <1>2 DEF CallFits, NothingIsAsked, MayBecome, Calls, world
<1>8. ResultIsSeen(c)'
  BY <1>1, <1>2 DEF CallFits, ResultIsSeen, Calls
<1> QED BY <1>3, <1>4, <1>5, <1>6, <1>7, <1>8, MoveKeeps DEF CallFits

-----------------------------------------------------------------------------
(* Messages and prompts.                                                      *)

LEMMA SendKeeps ==
  ASSUME IInv, NEW c \in Callers, Send(c)
  PROVE  IInv'
<1>1. TypeOK /\ call \in [Callers -> Calls] /\ CallFits(c) /\ call[c] \in Calls
  BY DEF IInv, TypeOK
<1>2. call[c].pc \in {"open", "prepare", "mutate"} /\ platform = "linux"
  BY <1>1 DEF Send, Joined, CallFits, StepFits
<1>3. /\ ~call[c].waiter /\ call[c].prompt \notin {"offered", "shown", "broken"}
      /\ call[c].session # "open" /\ call[c].remote = "none"
  BY <1>1 DEF Send, CallFits, MessageIsFollowed, SessionIsFollowed
<1>4. CASE Fails(c)
  BY <1>1, <1>2, <1>3, <1>4, FailsKeeps DEF Send, TypeOK
<1>5. CASE Advance(c, "prepare") /\ call[c].pc = "prepare"
  BY <1>2, <1>3, <1>5, AdvanceKeeps DEF Send
<1>6. CASE /\ call' = [call EXCEPT ![c].remote = "sent"]
           /\ ~(call[c].pc = "prepare" /\ collection = "missing")
  <2>1. Becomes(c, "sent", call[c].prompt, call[c].waiter)
    <3>1. [call[c] EXCEPT !.remote = "sent"] =
          [call[c] EXCEPT !.remote = "sent", !.prompt = call[c].prompt,
                          !.waiter = call[c].waiter]
      BY <1>1 DEF Calls
    <3> QED BY <1>1, <1>6, <3>1 DEF Becomes
  <2>2. "sent" \in Remotes /\ call[c].prompt \in Prompts /\ call[c].waiter \in BOOLEAN
    BY <1>1 DEF Calls, Remotes
  <2>3. UNCHANGED world /\ faults' \in 0..MaxFaults /\ Joined(c)
    BY <1>1 DEF Send, TypeOK
  <2>4. collection = "missing" =>
          call[c].prompt \notin {"offered", "shown"} /\ call[c].pc # "prepare"
    BY <1>3, <1>6
  <2> QED BY <1>3, <2>1, <2>2, <2>3, <2>4, RemoteKeeps DEF MayBecome
<1> QED BY <1>4, <1>5, <1>6 DEF Send

\* What the service does for a caller is done for the holder of the token.
LEMMA EffectFits ==
  ASSUME IInv, NEW c \in Callers, Effect(c), UNCHANGED platform, call[c].remote # "none",
         collection = "missing" => call[c].pc = "open"
  PROVE  /\ item' \in Values \cup {None}
         /\ collection' \in {"missing", "locked", "unlocked"}
         /\ CollectionFits'
         /\ collection' = "missing" => collection = "missing"
         /\ item' # item /\ platform = "linux" => token = c
         /\ call[c].pc # "mutate" => item' = item
<1>1. TypeOK /\ CallFits(c) /\ call[c] \in Calls /\ CollectionFits
  BY DEF IInv, TypeOK
<1>2. call[c].arg \in Values \cup {None}
  BY <1>1 DEF Calls
<1>3. item' # item => call[c].pc = "mutate"
  BY DEF Effect
<1>4. item' # item /\ platform = "linux" => token = c
  BY <1>1, <1>3 DEF CallFits, AdmittedHasToken
<1> QED BY <1>1, <1>2, <1>3, <1>4 DEF Effect, TypeOK, CollectionFits

LEMMA ServiceWorksKeeps ==
  ASSUME IInv, NEW c \in Callers, ServiceWorks(c)
  PROVE  IInv'
<1>1. TypeOK /\ call \in [Callers -> Calls] /\ CallFits(c) /\ call[c] \in Calls
      /\ CollectionFits
  BY DEF IInv, TypeOK
<1>2. call[c].remote = "sent"
  BY DEF ServiceWorks
<1>3. PICK answer \in {"ok", "prompt", "error"} :
        /\ Answer(c, answer)
        /\ \/ answer \in Answers(c) /\ answer = "ok" /\ Effect(c) /\ UNCHANGED faults
           \/ answer \in Answers(c) /\ answer # "ok" /\ UNCHANGED <<item, collection, faults>>
           \/ answer # "prompt" /\ Fault /\ UNCHANGED <<item, collection>>
  BY DEF ServiceWorks, Answers
<1>4. /\ item' \in Values \cup {None} /\ collection' \in {"missing", "locked", "unlocked"}
      /\ CollectionFits'
      /\ collection' = "missing" => collection = "missing"
      /\ item' # item /\ platform = "linux" => token = c
      /\ call[c].pc # "mutate" => item' = item
  <2>1. CASE Effect(c) /\ answer \in Answers(c) /\ answer = "ok"
    <3>1. collection = "missing" => call[c].pc = "open"
      BY <1>1, <1>2, <2>1 DEF Answers, CallFits, NothingIsAsked
    <3> QED BY <1>2, <2>1, <3>1, EffectFits DEF ServiceWorks
  <2>2. CASE UNCHANGED <<item, collection>>
    BY <1>1, <2>2 DEF TypeOK, CollectionFits, ServiceWorks
  <2> QED BY <1>3, <2>1, <2>2
<1>5. faults' \in 0..MaxFaults
  BY <1>1, <1>3, StoreAssumption DEF Fault, TypeOK
<1>6. call'[c] = [call[c] EXCEPT !.remote = answer,
                    !.prompt = IF answer = "prompt" THEN "offered" ELSE "none",
                    !.session = IF call[c].pc = "open" /\ answer = "ok" THEN "open" ELSE @]
  BY <1>1, <1>3 DEF Answer
<1>7. TypeOK' /\ \A d \in Callers \ {c} : call'[d] = call[d]
  <2>1. call'[c] \in Calls
    <3>1. call[c] \in Calls
      BY <1>1
    <3>2. answer \in Remotes
      BY <1>3, CallValues
    <3> QED BY <1>6, <3>1, <3>2, CallValues DEF Calls
  <2>2. call' = [call EXCEPT ![c] = call'[c]]
    BY <1>1, <1>3 DEF Answer
  <2>3. call' \in [Callers -> Calls] /\ \A d \in Callers \ {c} : call'[d] = call[d]
    BY <1>1, <2>1, <2>2
  <2> QED BY <1>1, <1>4, <1>5, <2>3 DEF TypeOK, ServiceWorks
<1>8. StepFits(c)'
  BY <1>1, <1>4, <1>6, <1>2 DEF CallFits, StepFits, MessageIsFollowed, Joined, Calls, ServiceWorks
<1>9. AdmittedHasToken(c)' /\ SessionIsFollowed(c)'
  BY <1>1, <1>2, <1>6 DEF CallFits, AdmittedHasToken, SessionIsFollowed, Calls, ServiceWorks
<1>10. MessageIsFollowed(c)'
  BY <1>1, <1>2, <1>6 DEF CallFits, MessageIsFollowed, Joined, Calls, ServiceWorks
<1>11. NothingIsAsked(c)'
  <2>1. call[c].pc # "prepare" \/ collection # "missing"
    BY <1>1, <1>2 DEF CallFits, NothingIsAsked
  <2>2. answer = "prompt" => collection # "missing"
    BY <1>3, <2>1 DEF Answers
  <2>3. call'[c].pc = call[c].pc /\ (call'[c].prompt = "offered" <=> answer = "prompt")
        /\ call'[c].prompt # "shown"
    BY <1>1, <1>6 DEF Calls
  <2> QED BY <1>4, <2>1, <2>2, <2>3 DEF NothingIsAsked
<1>12. ResultIsSeen(c)'
  BY <1>1, <1>6 DEF CallFits, ResultIsSeen, Calls
<1>13. UNCHANGED <<platform, noUI, token>>
  BY DEF ServiceWorks
<1>14. CallFits(c)'
  BY <1>8, <1>9, <1>10, <1>11, <1>12 DEF CallFits
<1> QED BY <1>4, <1>7, <1>13, <1>14, StepKeeps

LEMMA CollectKeeps ==
  ASSUME IInv, NEW c \in Callers, Collect(c)
  PROVE  IInv'
<1>1. TypeOK /\ call \in [Callers -> Calls] /\ CallFits(c) /\ call[c] \in Calls
  BY DEF IInv, TypeOK
<1>2. Joined(c) /\ call[c].pc \in {"open", "prepare", "mutate"} /\ platform = "linux"
  BY <1>1 DEF Collect, CallFits, MessageIsFollowed, StepFits, Joined
<1>3. CASE call[c].remote = "error"
  BY <1>1, <1>2, <1>3, FailsKeeps
     DEF Collect, CallFits, MessageIsFollowed, SessionIsFollowed, TypeOK
<1>4. CASE call[c].remote = "ok" /\ ~call[c].canceled
  BY <1>1, <1>2, <1>4, AdvanceKeeps DEF Collect, CallFits, MessageIsFollowed
<1>5. CASE call[c].remote = "ok" /\ call[c].canceled
  <2>1. call'[c] = [call[c] EXCEPT !.pc = "end", !.result = "failed", !.remote = "none",
                                   !.session = IF @ = "open" THEN "none" ELSE @]
    BY <1>1, <1>5 DEF Collect
  <2>2. call' \in [Callers -> Calls] /\ Moves(c)
    <3>1. call'[c] \in Calls
      <4>1. call[c] \in Calls
        BY <1>1
      <4> QED BY <2>1, <4>1, CallValues DEF Calls
    <3>2. call' = [call EXCEPT ![c] = call'[c]]
      BY <1>1, <1>5 DEF Collect
    <3> QED BY <1>1, <3>1, <3>2 DEF Moves, Collect, TypeOK
  <2>3. StepFits(c)'
    BY <1>1, <1>2, <2>1 DEF CallFits, StepFits, Calls, Collect, world
  <2>4. AdmittedHasToken(c)' /\ SessionIsFollowed(c)'
    BY <1>1, <2>1 DEF CallFits, AdmittedHasToken, SessionIsFollowed, Calls, Collect, world
  <2>5. MessageIsFollowed(c)' /\ NothingIsAsked(c)'
    BY <1>1, <1>5, <2>1 DEF CallFits, MessageIsFollowed, NothingIsAsked, Calls, Collect, world
  <2>6. ResultIsSeen(c)'
    BY <1>1, <2>1 DEF CallFits, ResultIsSeen, Calls
  <2> QED BY <2>2, <2>3, <2>4, <2>5, <2>6, MoveKeeps DEF CallFits
<1>6. CASE call[c].remote = "prompt"
  <2> DEFINE remote == IF call[c].canceled \/ noUI THEN "dismissing" ELSE "prompting"
             waiter == ~(call[c].canceled \/ noUI)
  <2>1. Becomes(c, remote, call[c].prompt, waiter)
    <3>1. call' = [call EXCEPT ![c] = [@ EXCEPT !.remote = remote, !.waiter = waiter]]
      BY <1>1, <1>6 DEF Collect
    <3>2. [call[c] EXCEPT !.remote = remote, !.waiter = waiter] =
          [call[c] EXCEPT !.remote = remote, !.prompt = call[c].prompt, !.waiter = waiter]
      BY <1>1 DEF Calls
    <3> QED BY <1>1, <3>1, <3>2 DEF Becomes
  <2>2. remote \in Remotes /\ call[c].prompt \in Prompts /\ waiter \in BOOLEAN
    BY <1>1 DEF Calls, Remotes
  <2>3. call[c].prompt = "offered" /\ call[c].session # "open" /\ collection # "missing"
    BY <1>1, <1>6 DEF CallFits, MessageIsFollowed, SessionIsFollowed, NothingIsAsked
  <2> HIDE DEF remote, waiter
  <2>4. remote \in {"dismissing", "prompting"} /\ (remote = "prompting" => ~noUI)
        /\ (waiter => ~noUI)
    BY <1>1 DEF remote, waiter
  <2>5. UNCHANGED world /\ faults' \in 0..MaxFaults
    BY <1>1 DEF Collect, TypeOK
  <2> QED BY <1>2, <2>1, <2>2, <2>3, <2>4, <2>5, RemoteKeeps DEF MayBecome
<1> QED BY <1>3, <1>4, <1>5, <1>6 DEF Collect

\* What is known of a caller whose prompt is open.
LEMMA PromptIsOpen ==
  ASSUME IInv, NEW c \in Callers,
         \/ call[c].remote \in {"prompt", "prompting", "dismissing"}
         \/ call[c].waiter
         \/ call[c].prompt \in {"offered", "shown", "broken"}
  PROVE  /\ TypeOK /\ call \in [Callers -> Calls] /\ call[c] \in Calls
         /\ Joined(c) /\ call[c].pc \in {"open", "prepare", "mutate"} /\ platform = "linux"
         /\ call[c].remote \in {"prompt", "prompting", "dismissing"}
         /\ call[c].session # "open"
         /\ collection = "missing" =>
               call[c].pc # "prepare" /\ call[c].prompt \notin {"offered", "shown"}
         /\ call[c].waiter => ~noUI /\ call[c].prompt \in {"offered", "shown"}
         /\ call[c].prompt = "shown" => call[c].waiter
<1>1. TypeOK /\ call \in [Callers -> Calls] /\ CallFits(c) /\ call[c] \in Calls
  BY DEF IInv, TypeOK
<1>2. call[c].remote \in {"prompt", "prompting", "dismissing"}
  BY <1>1 DEF CallFits, MessageIsFollowed, Calls, Remotes
<1>3. Joined(c) /\ call[c].pc \in {"open", "prepare", "mutate"} /\ platform = "linux"
  BY <1>1, <1>2 DEF CallFits, MessageIsFollowed, StepFits, Joined
<1> QED BY <1>1, <1>2, <1>3
        DEF CallFits, MessageIsFollowed, SessionIsFollowed, NothingIsAsked

\* Records that differ in what is said of the message only.
LEMMA SameRecord ==
  ASSUME NEW k \in Calls
  PROVE  /\ \A remote : [k EXCEPT !.remote = remote] =
               [k EXCEPT !.remote = remote, !.prompt = k.prompt, !.waiter = k.waiter]
         /\ \A prompt : [k EXCEPT !.prompt = prompt] =
               [k EXCEPT !.remote = k.remote, !.prompt = prompt, !.waiter = k.waiter]
         /\ \A prompt, waiter : [k EXCEPT !.prompt = prompt, !.waiter = waiter] =
               [k EXCEPT !.remote = k.remote, !.prompt = prompt, !.waiter = waiter]
BY DEF Calls

LEMMA ShowPromptKeeps ==
  ASSUME IInv, NEW c \in Callers, ShowPrompt(c)
  PROVE  IInv'
<1>1. call[c].waiter /\ call[c].prompt = "offered"
  BY DEF ShowPrompt
<1>2. /\ TypeOK /\ call \in [Callers -> Calls] /\ call[c] \in Calls
      /\ Joined(c) /\ call[c].session # "open" /\ ~noUI /\ collection # "missing"
      /\ call[c].remote \in {"prompt", "prompting", "dismissing"}
  BY <1>1, PromptIsOpen
<1>3. call[c].remote # "prompt"
  BY <1>1, <1>2 DEF IInv, CallFits, MessageIsFollowed
<1>4. UNCHANGED world /\ faults' \in 0..MaxFaults
  BY <1>2, StoreAssumption DEF ShowPrompt, Fault, TypeOK
<1>5. "shown" \in Prompts /\ "broken" \in Prompts /\ call[c].remote \in Remotes
  BY <1>2 DEF Prompts, Calls
<1>6. CASE call' = [call EXCEPT ![c].prompt = "shown"]
  <2>1. Becomes(c, call[c].remote, "shown", TRUE)
    BY <1>1, <1>2, <1>6, SameRecord DEF Becomes
  <2> QED BY <1>2, <1>3, <1>4, <1>5, <2>1, RemoteKeeps DEF MayBecome
<1>7. CASE call' = [call EXCEPT ![c].prompt = "broken", ![c].waiter = FALSE]
  <2>1. Becomes(c, call[c].remote, "broken", FALSE)
    BY <1>2, <1>7, SameRecord DEF Becomes
  <2> QED BY <1>2, <1>3, <1>4, <1>5, <2>1, RemoteKeeps DEF MayBecome
<1> QED BY <1>6, <1>7 DEF ShowPrompt

LEMMA UserAnswersKeeps ==
  ASSUME IInv, NEW c \in Callers, UserAnswers(c)
  PROVE  IInv'
<1>1. call[c].prompt = "shown" /\ UNCHANGED <<platform, noUI, token>>
  BY DEF UserAnswers
<1>2. /\ TypeOK /\ call \in [Callers -> Calls] /\ call[c] \in Calls /\ CallFits(c)
      /\ Joined(c) /\ call[c].session # "open" /\ ~noUI /\ collection # "missing"
      /\ call[c].remote \in {"prompting", "dismissing"}
  BY <1>1, PromptIsOpen DEF IInv, CallFits, MessageIsFollowed
<1>3. PICK prompt \in {"approved", "dismissed"} :
        call'  = [call EXCEPT ![c].prompt = prompt, ![c].waiter = FALSE]
  BY DEF UserAnswers
<1>4. /\ item' \in Values \cup {None}
      /\ collection' \in {"missing", "locked", "unlocked"}
      /\ CollectionFits'
      /\ collection' = "missing" => collection = "missing"
      /\ item' # item /\ platform = "linux" => token = c
      /\ call[c].pc # "mutate" => item' = item
  <2>1. CASE Effect(c)
    BY <1>1, <1>2, <2>1, EffectFits
  <2>2. CASE UNCHANGED <<item, collection>>
    BY <1>1, <1>2, <2>2 DEF IInv, TypeOK, CollectionFits
  <2> QED BY <2>1, <2>2 DEF UserAnswers
<1>5. call'[c] = [call[c] EXCEPT !.prompt = prompt, !.waiter = FALSE]
  BY <1>2, <1>3
<1>6. TypeOK' /\ \A d \in Callers \ {c} : call'[d] = call[d]
  <2>1. call'[c] \in Calls
    <3>1. call[c] \in Calls /\ prompt \in Prompts
      BY <1>2, CallValues
    <3>2. [call[c] EXCEPT !.prompt = prompt] \in Calls
      BY <3>1 DEF Calls
    <3>3. [call[c] EXCEPT !.prompt = prompt, !.waiter = FALSE] \in Calls
      BY <3>2 DEF Calls
    <3> QED BY <1>5, <3>3
  <2>2. call' = [call EXCEPT ![c] = call'[c]]
    BY <1>2, <1>3
  <2>3. call' \in [Callers -> Calls] /\ \A d \in Callers \ {c} : call'[d] = call[d]
    BY <1>2, <2>1, <2>2
  <2> QED BY <1>2, <1>4, <2>3 DEF TypeOK, UserAnswers
<1>7. StepFits(c)'
  BY <1>1, <1>2, <1>4, <1>5 DEF CallFits, StepFits, Joined, Calls
<1>8. AdmittedHasToken(c)' /\ SessionIsFollowed(c)'
  BY <1>1, <1>2, <1>5 DEF CallFits, AdmittedHasToken, SessionIsFollowed, Calls
<1>9. MessageIsFollowed(c)' /\ NothingIsAsked(c)'
  BY <1>1, <1>2, <1>4, <1>5 DEF CallFits, MessageIsFollowed, NothingIsAsked, Joined, Calls
<1>10. ResultIsSeen(c)'
  BY <1>2, <1>5 DEF CallFits, ResultIsSeen, Calls
<1>11. CallFits(c)'
  BY <1>7, <1>8, <1>9, <1>10 DEF CallFits
<1> QED BY <1>1, <1>4, <1>6, <1>11, StepKeeps

\* The operation turns to dismissing its prompt.
LEMMA DismissingKeeps ==
  ASSUME IInv, NEW c \in Callers, UNCHANGED <<world, faults>>,
         call[c].remote = "prompting",
         call' = [call EXCEPT ![c].remote = "dismissing"]
  PROVE  IInv'
<1>1. /\ TypeOK /\ call \in [Callers -> Calls] /\ call[c] \in Calls
      /\ Joined(c) /\ call[c].session # "open"
      /\ collection = "missing" =>
            call[c].pc # "prepare" /\ call[c].prompt \notin {"offered", "shown"}
      /\ call[c].waiter => ~noUI /\ call[c].prompt \in {"offered", "shown"}
      /\ call[c].prompt = "shown" => call[c].waiter
  BY PromptIsOpen
<1>2. Becomes(c, "dismissing", call[c].prompt, call[c].waiter)
  BY <1>1, SameRecord DEF Becomes
<1>3. "dismissing" \in Remotes /\ call[c].prompt \in Prompts /\ call[c].waiter \in BOOLEAN
  BY <1>1 DEF Calls, Remotes
<1>4. UNCHANGED world /\ faults' \in 0..MaxFaults
  BY <1>1 DEF TypeOK
<1> QED BY <1>1, <1>2, <1>3, <1>4, RemoteKeeps DEF MayBecome

LEMMA PromptAnsweredKeeps ==
  ASSUME IInv, NEW c \in Callers, PromptAnswered(c)
  PROVE  IInv'
<1>1. call[c].remote = "prompting" /\ UNCHANGED <<world, faults>>
  BY DEF PromptAnswered
<1>2. /\ TypeOK /\ call[c].pc \in {"open", "prepare", "mutate"} /\ platform = "linux"
      /\ call[c].session # "open"
      /\ call[c].waiter => call[c].prompt \in {"offered", "shown"}
  BY <1>1, PromptIsOpen
<1>3. CASE call[c].prompt = "approved"
  BY <1>1, <1>2, <1>3, AdvanceKeeps DEF PromptAnswered
<1>4. CASE call[c].prompt = "dismissed"
  BY <1>1, <1>2, <1>4, FailsKeeps DEF PromptAnswered, TypeOK
<1>5. CASE call[c].prompt = "broken"
  BY <1>1, <1>5, DismissingKeeps DEF PromptAnswered
<1> QED BY <1>3, <1>4, <1>5 DEF PromptAnswered

LEMMA PromptCanceledKeeps ==
  ASSUME IInv, NEW c \in Callers, PromptCanceled(c)
  PROVE  IInv'
BY DismissingKeeps DEF PromptCanceled

LEMMA ServiceDismissesKeeps ==
  ASSUME IInv, NEW c \in Callers, ServiceDismisses(c)
  PROVE  IInv'
<1>1. call[c].remote = "dismissing" /\ UNCHANGED <<world, faults>>
  BY DEF ServiceDismisses
<1>2. /\ TypeOK /\ call \in [Callers -> Calls] /\ call[c] \in Calls
      /\ Joined(c) /\ call[c].session # "open"
      /\ collection = "missing" => call[c].pc # "prepare"
  BY <1>1, PromptIsOpen
<1>3. Becomes(c, "dismissing", "dismissed", FALSE)
  <2>1. call' = [call EXCEPT ![c].prompt = "dismissed", ![c].waiter = FALSE]
    BY DEF ServiceDismisses
  <2>2. [call[c] EXCEPT !.prompt = "dismissed", !.waiter = FALSE] =
        [call[c] EXCEPT !.remote = "dismissing", !.prompt = "dismissed", !.waiter = FALSE]
    BY <1>1, <1>2 DEF Calls
  <2> QED BY <1>2, <2>1, <2>2 DEF Becomes
<1>4. "dismissing" \in Remotes /\ "dismissed" \in Prompts /\ faults' \in 0..MaxFaults
  BY <1>1, <1>2 DEF Prompts, Remotes, TypeOK
<1> QED BY <1>1, <1>2, <1>3, <1>4, RemoteKeeps DEF MayBecome

LEMMA DismissedKeeps ==
  ASSUME IInv, NEW c \in Callers, Dismissed(c)
  PROVE  IInv'
<1>1. call[c].remote = "dismissing" /\ call[c].prompt \in {"approved", "dismissed"}
  BY DEF Dismissed
<1>2. /\ TypeOK /\ call[c].pc \in {"open", "prepare", "mutate"} /\ call[c].session # "open"
      /\ call[c].waiter => call[c].prompt \in {"offered", "shown"}
  BY <1>1, PromptIsOpen
<1> QED BY <1>1, <1>2, FailsKeeps DEF Dismissed, TypeOK

-----------------------------------------------------------------------------
(* Calls that read, and the calls of Windows and macOS.                       *)

\* What is known of a caller that has nothing at the service.
LEMMA NothingSent ==
  ASSUME IInv, NEW c \in Callers, ~Joined(c)
  PROVE  /\ TypeOK /\ call \in [Callers -> Calls] /\ call[c] \in Calls /\ CallFits(c)
         /\ call[c].session # "open" /\ call[c].remote = "none" /\ ~call[c].waiter
         /\ call[c].prompt \notin {"offered", "shown", "broken"}
<1>1. TypeOK /\ call \in [Callers -> Calls] /\ CallFits(c) /\ call[c] \in Calls
  BY DEF IInv, TypeOK
<1>2. call[c].remote = "none"
  BY <1>1 DEF CallFits, MessageIsFollowed
<1> QED BY <1>1, <1>2 DEF CallFits, MessageIsFollowed, SessionIsFollowed

LEMMA CheckCollectionKeeps ==
  ASSUME IInv, NEW c \in Callers, CheckCollection(c)
  PROVE  IInv'
<1>1. call[c].pc = "prepare" /\ ~Joined(c)
  BY DEF CheckCollection, Joined
<1>2. TypeOK /\ platform = "linux" /\ ~call[c].waiter
  BY <1>1, NothingSent DEF CallFits, StepFits
<1>3. CASE ReadFails(c)
  BY <1>1, <1>3, ReadFailsKeeps
<1>4. CASE Fails(c) /\ UNCHANGED <<world, faults>>
  BY <1>1, <1>2, <1>4, NothingSent, FailsKeeps DEF TypeOK
<1>5. CASE Advance(c, "prepare") /\ UNCHANGED <<world, faults>>
  BY <1>1, <1>2, <1>5, AdvanceKeeps
<1> QED BY <1>3, <1>4, <1>5 DEF CheckCollection

LEMMA FindKeeps ==
  ASSUME IInv, NEW c \in Callers, Find(c)
  PROVE  IInv'
<1>1. call[c].pc \in {"check", "find"} /\ platform = "linux" /\ ~Joined(c)
  BY DEF Find, Joined
<1>2. TypeOK /\ CallFits(c) /\ call[c] \in Calls /\ ~call[c].waiter /\ CollectionFits
  BY <1>1, NothingSent DEF IInv
<1>3. CASE ReadFails(c)
  BY <1>1, <1>3, ReadFailsKeeps
<1>4. CASE Fails(c) /\ UNCHANGED <<world, faults>>
  BY <1>1, <1>2, <1>4, NothingSent, FailsKeeps DEF TypeOK
<1>5. CASE call[c].pc = "check" /\ Advance(c, "check") /\ UNCHANGED <<world, faults>>
  BY <1>1, <1>2, <1>5, AdvanceKeeps
<1>6. CASE /\ call[c].pc = "find" /\ UNCHANGED <<world, faults>>
           /\ Found # None /\ See(c, NextStep(call[c].op, "find"), "none")
  <2>1. item # None
    BY <1>6 DEF Found
  <2>2. \/ call[c].op = "get" /\ NextStep(call[c].op, "find") = "read"
        \/ call[c].op = "delete" /\ NextStep(call[c].op, "find") = "mutate"
    BY <1>2, <1>6 DEF CallFits, StepFits, Calls, NextStep
  <2>3. CASE call[c].op = "get" /\ See(c, "read", "none")
    BY <1>1, <1>6, <2>1, <2>3, SeeKeeps
  <2>4. CASE call[c].op = "delete" /\ See(c, "mutate", "none")
    BY <1>1, <1>6, <2>4, SeeKeeps
  <2> QED BY <1>6, <2>2, <2>3, <2>4
<1>7. CASE /\ call[c].pc = "find" /\ UNCHANGED <<world, faults>> /\ Found = None
           /\ \/ call[c].op = "get" /\ See(c, "end", "absent")
              \/ call[c].op # "get" /\ See(c, "end", "ok")
  <2>1. item = None
    BY <1>2, <1>7 DEF Found, CollectionFits
  <2>2. call[c].arg = None
    BY <1>2, <1>7 DEF CallFits, StepFits
  <2>3. CASE call[c].op = "get" /\ See(c, "end", "absent")
    BY <1>1, <1>7, <2>1, <2>3, SeeKeeps
  <2>4. CASE call[c].op # "get" /\ See(c, "end", "ok")
    BY <1>1, <1>7, <2>1, <2>2, <2>4, SeeKeeps
  <2> QED BY <1>7, <2>3, <2>4
<1>8. \/ ReadFails(c)
      \/ /\ UNCHANGED <<world, faults>>
         /\ \/ Fails(c)
            \/ call[c].pc = "check" /\ Advance(c, "check")
            \/ /\ call[c].pc = "find" /\ Found # None
               /\ See(c, NextStep(call[c].op, "find"), "none")
            \/ /\ call[c].pc = "find" /\ Found = None
               /\ \/ call[c].op = "get" /\ See(c, "end", "absent")
                  \/ call[c].op # "get" /\ See(c, "end", "ok")
  BY <1>1 DEF Find
<1> QED BY <1>3, <1>4, <1>5, <1>6, <1>7, <1>8

LEMMA ReadKeeps ==
  ASSUME IInv, NEW c \in Callers, Read(c)
  PROVE  IInv'
<1>1. call[c].pc = "read" /\ ~Joined(c)
  BY DEF Read, Joined
<1>2. TypeOK /\ call[c].op = "get" /\ item # None
  BY <1>1, NothingSent DEF Read, CallFits, StepFits
<1>3. CASE ReadFails(c)
  BY <1>1, <1>3, ReadFailsKeeps
<1>4. CASE Fails(c) /\ UNCHANGED <<world, faults>>
  BY <1>1, <1>2, <1>4, NothingSent, FailsKeeps DEF TypeOK
<1>5. CASE See(c, "end", "ok") /\ UNCHANGED <<world, faults>>
  BY <1>1, <1>2, <1>5, SeeKeeps
<1> QED BY <1>3, <1>4, <1>5 DEF Read

LEMMA VerifyKeeps ==
  ASSUME IInv, NEW c \in Callers, Verify(c)
  PROVE  IInv'
<1>1. call[c].pc = "verify" /\ ~Joined(c)
  BY DEF Verify, Joined
<1>2. TypeOK /\ call[c].op # "get"
  BY <1>1, NothingSent DEF CallFits, StepFits
<1>3. CASE ReadFails(c)
  BY <1>1, <1>3, ReadFailsKeeps
<1>4. CASE Fails(c) /\ UNCHANGED <<world, faults>>
  BY <1>1, <1>2, <1>4, NothingSent, FailsKeeps DEF TypeOK
<1>5. CASE See(c, "end", "ok") /\ UNCHANGED <<world, faults>> /\ item = call[c].arg
  BY <1>1, <1>2, <1>5, SeeKeeps
<1> QED BY <1>3, <1>4, <1>5 DEF Verify

\* The other two systems have no token, no messages and no steps but these.
LEMMA DirectCall ==
  ASSUME IInv, NEW c \in Callers, platform # "linux", call[c].pc # "idle"
  PROVE  /\ TypeOK /\ call \in [Callers -> Calls] /\ call[c] \in Calls /\ CallFits(c)
         /\ ~Joined(c)
<1>1. TypeOK /\ call \in [Callers -> Calls] /\ CallFits(c) /\ call[c] \in Calls
  BY DEF IInv, TypeOK
<1> QED BY <1>1 DEF CallFits, StepFits, Joined

LEMMA RefusedKeeps ==
  ASSUME IInv, NEW c \in Callers, Refused(c)
  PROVE  IInv'
<1>1. platform # "linux" /\ call[c].pc = FirstStep(call[c].op)
  BY DEF Refused
<1>2. call[c].pc # "idle"
  BY <1>1 DEF FirstStep
<1>3. ~Joined(c) /\ TypeOK
  BY <1>1, <1>2, DirectCall
<1> QED BY <1>2, <1>3, NothingSent, FailsKeeps DEF Refused, TypeOK

LEMMA NothingThereKeeps ==
  ASSUME IInv, NEW c \in Callers, NothingThere(c)
  PROVE  IInv'
<1>1. platform # "linux" /\ item = None /\ UNCHANGED <<world, faults>>
      /\ call[c].pc \in {"read", "find"}
  BY DEF NothingThere
<1>2. ~Joined(c) /\ CallFits(c) /\ call[c] \in Calls
  BY <1>1, DirectCall
<1>3. CASE call[c].pc = "read" /\ See(c, "end", "absent")
  <2>1. call[c].op = "get"
    BY <1>2, <1>3 DEF CallFits, StepFits
  <2> QED BY <1>1, <1>2, <1>3, <2>1, SeeKeeps
<1>4. CASE call[c].pc = "find" /\ See(c, "end", "ok")
  <2>1. call[c].op # "get" /\ call[c].arg = None
    BY <1>1, <1>2, <1>4 DEF CallFits, StepFits
  <2> QED BY <1>1, <1>2, <1>4, <2>1, SeeKeeps
<1> QED BY <1>3, <1>4 DEF NothingThere

LEMMA LookupKeeps ==
  ASSUME IInv, NEW c \in Callers, Lookup(c)
  PROVE  IInv'
<1>1. platform # "linux" /\ call[c].pc = "find"
  BY DEF Lookup
<1>2. ~Joined(c) /\ CallFits(c) /\ call[c] \in Calls
  BY <1>1, DirectCall
<1>3. call[c].op = "delete"
  BY <1>1, <1>2 DEF CallFits, StepFits, Calls
<1>4. CASE ReadFails(c)
  BY <1>1, <1>2, <1>4, ReadFailsKeeps
<1>5. CASE See(c, "mutate", "none") /\ UNCHANGED <<world, faults>>
  BY <1>1, <1>2, <1>3, <1>5, SeeKeeps
<1> QED BY <1>4, <1>5 DEF Lookup

\* A direct call moves on to a step that is not the last, and may store what it
\* has been given.
LEMMA DirectKeeps ==
  ASSUME IInv, NEW c \in Callers, platform # "linux",
         call[c].pc \in {"update", "add", "mutate"},
         UNCHANGED <<platform, noUI, collection, token, begun, locks>>,
         faults' \in 0..MaxFaults,
         item' = item \/ item' = call[c].arg,
         NEW pc \in {"add", "verify"}, pc = "add" => platform = "darwin",
         call' = [call EXCEPT ![c].pc = pc]
  PROVE  IInv'
<1>1. TypeOK /\ call \in [Callers -> Calls] /\ call[c] \in Calls /\ CallFits(c) /\ ~Joined(c)
      /\ CollectionFits
  BY DirectCall DEF IInv
<1>2. call[c].remote = "none" /\ ~call[c].waiter
      /\ call[c].prompt \notin {"offered", "shown", "broken"}
  BY <1>1, NothingSent
<1>3. call'[c] = [call[c] EXCEPT !.pc = pc]
  BY <1>1
<1>4. TypeOK' /\ \A d \in Callers \ {c} : call'[d] = call[d]
  <2>1. call'[c] \in Calls
    <3>1. call[c] \in Calls
      BY <1>1
    <3> QED BY <1>3, <3>1, CallValues DEF Calls
  <2>2. call' \in [Callers -> Calls] /\ \A d \in Callers \ {c} : call'[d] = call[d]
    BY <1>1, <2>1
  <2>3. item' \in Values \cup {None}
    BY <1>1 DEF Calls, TypeOK
  <2> QED BY <1>1, <2>2, <2>3 DEF TypeOK
<1>5. CollectionFits'
  BY <1>1 DEF CollectionFits
<1>6. StepFits(c)'
  BY <1>1, <1>3 DEF CallFits, StepFits, Calls
<1>7. AdmittedHasToken(c)' /\ SessionIsFollowed(c)'
  BY <1>1, <1>2, <1>3 DEF CallFits, AdmittedHasToken, SessionIsFollowed, Calls
<1>8. MessageIsFollowed(c)' /\ NothingIsAsked(c)'
  BY <1>1, <1>2, <1>3 DEF CallFits, MessageIsFollowed, NothingIsAsked, Calls
<1>9. ResultIsSeen(c)'
  BY <1>1, <1>3 DEF CallFits, ResultIsSeen, Calls
<1>10. CallFits(c)'
  BY <1>6, <1>7, <1>8, <1>9 DEF CallFits
<1> QED BY <1>4, <1>5, <1>10, StepKeeps

LEMMA UpdateKeeps ==
  ASSUME IInv, NEW c \in Callers, Update(c)
  PROVE  IInv'
<1>1. faults' \in 0..MaxFaults
  BY DEF Update, IInv, TypeOK
<1>2. CASE call' = [call EXCEPT ![c].pc = "add"] /\ UNCHANGED item
  BY <1>1, <1>2, DirectKeeps DEF Update
<1>3. CASE call' = [call EXCEPT ![c].pc = "verify"] /\ item' = call[c].arg
  BY <1>1, <1>3, DirectKeeps DEF Update
<1> QED BY <1>2, <1>3 DEF Update

LEMMA AddKeeps ==
  ASSUME IInv, NEW c \in Callers, Add(c)
  PROVE  IInv'
<1>1. faults' \in 0..MaxFaults
  BY DEF Add, IInv, TypeOK
<1>2. CASE call' = [call EXCEPT ![c].pc = "verify"] /\ item' = call[c].arg
  BY <1>1, <1>2, DirectKeeps DEF Add
<1>3. CASE Fails(c) /\ UNCHANGED item
  <2>1. ~Joined(c) /\ call[c].pc # "idle"
    BY DirectCall DEF Add
  <2> QED BY <1>1, <1>3, <2>1, NothingSent, FailsKeeps DEF Add, world
<1> QED BY <1>2, <1>3 DEF Add

LEMMA MutateKeeps ==
  ASSUME IInv, NEW c \in Callers, Mutate(c)
  PROVE  IInv'
<1>1. faults' \in 0..MaxFaults
  BY DEF Mutate, IInv, TypeOK
<1> QED BY <1>1, DirectKeeps DEF Mutate

LEMMA SystemFailsKeeps ==
  ASSUME IInv, NEW c \in Callers, SystemFails(c)
  PROVE  IInv'
<1>1. faults' \in 0..MaxFaults
  BY StoreAssumption DEF SystemFails, Fault, IInv, TypeOK
<1>2. platform # "linux" /\ call[c].pc \in {"update", "add", "mutate"} /\ UNCHANGED world
  BY DEF SystemFails
<1>3. CASE Fails(c)
  <2>1. ~Joined(c) /\ call[c].pc # "idle"
    BY <1>2, DirectCall
  <2> QED BY <1>1, <1>2, <1>3, <2>1, NothingSent, FailsKeeps
<1>4. CASE call' = [call EXCEPT ![c].pc = "verify"]
  BY <1>1, <1>2, <1>4, DirectKeeps DEF world
<1> QED BY <1>3, <1>4 DEF SystemFails

-----------------------------------------------------------------------------
(* The beginning and the end of a call.                                       *)

LEMMA FirstStepFits ==
  ASSUME NEW op \in {"set", "get", "delete"}
  PROVE  /\ FirstStep(op) \in Steps \ {"idle", "begin", "end", "check", "verify", "add"}
         /\ platform = "linux" => FirstStep(op) \in {"open", "prepare"}
         /\ platform # "linux" => FirstStep(op) \notin {"open", "prepare"}
         /\ FirstStep(op) = "find" => op = "delete"
         /\ FirstStep(op) = "read" <=> op = "get" /\ platform # "linux"
         /\ FirstStep(op) = "update" => platform = "darwin"
BY DEF FirstStep, Steps

LEMMA BeginKeeps ==
  ASSUME IInv, NEW c \in Callers, Begin(c)
  PROVE  IInv'
<1>1. TypeOK /\ call \in [Callers -> Calls] /\ CollectionFits
  BY DEF IInv, TypeOK
<1>2. PICK op \in {"set", "get", "delete"}, arg \in Values \cup {None} :
        /\ (op = "set") <=> (arg # None)
        /\ call' = [call EXCEPT ![c] =
              [NoCall EXCEPT !.op = op, !.arg = arg,
                             !.pc = IF platform = "linux" THEN "begin" ELSE FirstStep(op)]]
  BY DEF Begin
<1>3. call'[c] = [NoCall EXCEPT !.op = op, !.arg = arg,
                     !.pc = IF platform = "linux" THEN "begin" ELSE FirstStep(op)]
  BY <1>1, <1>2
<1> DEFINE pc == IF platform = "linux" THEN "begin" ELSE FirstStep(op)
<1>14. /\ pc \in Steps \ {"idle", "open", "prepare", "end", "check", "verify", "add"}
       /\ pc = "begin" => platform = "linux"
       /\ pc = "update" => platform = "darwin"
       /\ pc = "find" => op = "delete"
       /\ pc = "read" => op = "get" /\ platform # "linux"
       /\ pc \in {"mutate", "update"} => op # "get"
  BY FirstStepFits DEF Steps
<1>13. call'[c] = [op |-> op, arg |-> arg, pc |-> pc, canceled |-> FALSE, remote |-> "none",
                   session |-> "none", prompt |-> "none", waiter |-> FALSE,
                   witness |-> "unseen", result |-> "none"]
  BY <1>3 DEF NoCall
<1> HIDE DEF pc
<1>4. begun' \in 0..MaxCalls
  BY <1>1, StoreAssumption DEF Begin, TypeOK
<1>5. TypeOK' /\ \A d \in Callers \ {c} : call'[d] = call[d]
  <2>1. call'[c] \in Calls
    BY <1>14, <1>13 DEF Calls, Remotes, Prompts
  <2>2. call' \in [Callers -> Calls] /\ \A d \in Callers \ {c} : call'[d] = call[d]
    BY <1>1, <1>2, <2>1
  <2> QED BY <1>1, <1>4, <2>2 DEF TypeOK, Begin
<1>6. StepFits(c)'
  <2>1. (op = "set") <=> (arg # None)
    BY <1>2
  <2>2. call'[c].pc = pc /\ call'[c].op = op /\ call'[c].arg = arg
    BY <1>13
  <2>3. platform' = platform
    BY DEF Begin
  <2> QED BY <1>14, <2>1, <2>2, <2>3 DEF StepFits
<1>7. AdmittedHasToken(c)' /\ SessionIsFollowed(c)'
  <2>1. platform' = "linux" => call'[c].pc = "begin"
    BY <1>13 DEF Begin, pc
  <2> QED BY <1>13, <2>1 DEF AdmittedHasToken, SessionIsFollowed
<1>8. MessageIsFollowed(c)' /\ NothingIsAsked(c)'
  BY <1>13 DEF MessageIsFollowed, NothingIsAsked
<1>9. ResultIsSeen(c)'
  BY <1>14, <1>13 DEF ResultIsSeen
<1>10. CallFits(c)'
  BY <1>6, <1>7, <1>8, <1>9 DEF CallFits
<1>11. CollectionFits'
  BY <1>1 DEF CollectionFits, Begin
<1> QED BY <1>5, <1>10, <1>11, StepKeeps DEF Begin

LEMMA CancelKeeps ==
  ASSUME IInv, NEW c \in Callers, Cancel(c)
  PROVE  IInv'
<1>1. TypeOK /\ call \in [Callers -> Calls] /\ CallFits(c) /\ call[c] \in Calls
  BY DEF IInv, TypeOK
<1>2. call'[c] = [call[c] EXCEPT !.canceled = TRUE]
  BY <1>1 DEF Cancel
<1>3. call' \in [Callers -> Calls] /\ Moves(c)
  <2>1. call'[c] \in Calls
    <3>1. call[c] \in Calls
      BY <1>1
    <3> QED BY <1>2, <3>1 DEF Calls
  <2>2. call' = [call EXCEPT ![c] = call'[c]]
    BY <1>1 DEF Cancel
  <2> QED BY <1>1, <2>1, <2>2 DEF Moves, TypeOK, Cancel
<1>4. StepFits(c)' /\ AdmittedHasToken(c)'
  BY <1>1, <1>2 DEF CallFits, StepFits, AdmittedHasToken, Calls, world, Cancel
<1>5. SessionIsFollowed(c)' /\ NothingIsAsked(c)' /\ ResultIsSeen(c)'
  BY <1>1, <1>2 DEF CallFits, SessionIsFollowed, NothingIsAsked, ResultIsSeen, Calls,
     world, Cancel
<1>6. MessageIsFollowed(c)'
  BY <1>1, <1>2 DEF CallFits, MessageIsFollowed, Joined, Calls, world, Cancel
<1> QED BY <1>3, <1>4, <1>5, <1>6, MoveKeeps DEF CallFits

LEMMA AdmitKeeps ==
  ASSUME IInv, NEW c \in Callers, Admit(c)
  PROVE  IInv'
<1>1. call[c].pc = "begin" /\ ~Joined(c)
  BY DEF Admit, Joined
<1>2. /\ TypeOK /\ call \in [Callers -> Calls] /\ call[c] \in Calls /\ CallFits(c)
      /\ call[c].session # "open" /\ call[c].remote = "none" /\ ~call[c].waiter
      /\ call[c].prompt \notin {"offered", "shown", "broken"} /\ CollectionFits
  BY <1>1, NothingSent DEF IInv
<1>3. platform = "linux" /\ call[c].op \in {"set", "get", "delete"}
  BY <1>1, <1>2 DEF CallFits, StepFits, Calls
<1>4. CASE Fails(c) /\ UNCHANGED token
  BY <1>1, <1>2, <1>4, FailsKeeps DEF Admit, world, TypeOK
<1>5. CASE call' = [call EXCEPT ![c].pc = FirstStep(call[c].op)] /\ token' = c
  <2>1. call'[c] = [call[c] EXCEPT !.pc = FirstStep(call[c].op)]
    BY <1>2, <1>5
  <2>2. FirstStep(call[c].op) \in {"open", "prepare"}
    BY <1>3, FirstStepFits
  <2>3. TypeOK' /\ \A d \in Callers \ {c} : call'[d] = call[d]
    <3>1. call'[c] \in Calls
      <4>1. call[c] \in Calls
        BY <1>2
      <4> QED BY <2>1, <2>2, <4>1, CallValues DEF Calls
    <3>2. call' \in [Callers -> Calls] /\ \A d \in Callers \ {c} : call'[d] = call[d]
      BY <1>2, <1>5, <3>1
    <3> QED BY <1>2, <1>5, <3>2 DEF TypeOK, Admit
  <2>4. StepFits(c)'
    BY <1>1, <1>2, <1>3, <2>1, <2>2 DEF CallFits, StepFits, Calls, Admit
  <2>5. AdmittedHasToken(c)' /\ SessionIsFollowed(c)'
    BY <1>2, <1>3, <1>5, <2>1, <2>2 DEF AdmittedHasToken, SessionIsFollowed, Calls, Admit
  <2>6. MessageIsFollowed(c)' /\ NothingIsAsked(c)'
    BY <1>2, <2>1 DEF CallFits, MessageIsFollowed, NothingIsAsked, Calls, Admit
  <2>7. ResultIsSeen(c)'
    BY <1>1, <1>2, <2>1, <2>2 DEF CallFits, ResultIsSeen, Calls
  <2>8. CallFits(c)'
    BY <2>4, <2>5, <2>6, <2>7 DEF CallFits
  <2>9. token = None /\ CollectionFits'
    BY <1>2 DEF Admit, CollectionFits
  <2> QED BY <2>3, <2>8, <2>9, StepKeeps, StoreAssumption DEF Admit
<1> QED BY <1>4, <1>5 DEF Admit

LEMMA GiveUpKeeps ==
  ASSUME IInv, NEW c \in Callers, GiveUp(c)
  PROVE  IInv'
<1>1. call[c].pc = "begin" /\ ~Joined(c)
  BY DEF GiveUp, Joined
<1> QED BY <1>1, NothingSent, FailsKeeps DEF GiveUp, TypeOK

LEMMA EndKeeps ==
  ASSUME IInv, NEW c \in Callers, End(c)
  PROVE  IInv'
<1>1. call[c].pc = "end" /\ ~Joined(c)
  BY DEF End, Joined
<1>2. /\ TypeOK /\ call \in [Callers -> Calls] /\ call[c] \in Calls /\ CallFits(c)
      /\ call[c].session # "open" /\ call[c].remote = "none" /\ ~call[c].waiter
      /\ call[c].prompt \notin {"offered", "shown", "broken"} /\ CollectionFits
  BY <1>1, NothingSent DEF IInv
<1>3. call'[c] = [call[c] EXCEPT !.op = "none", !.arg = None, !.pc = "idle",
                     !.canceled = FALSE, !.witness = "unseen",
                     !.session = Closed(call[c].session)]
  BY <1>2 DEF End, Closed
<1>4. Closed(call[c].session) = "none"
  BY <1>2 DEF Closed, Calls
<1>5. TypeOK' /\ \A d \in Callers \ {c} : call'[d] = call[d]
  <2>1. call'[c] \in Calls
    <3>1. call[c] \in Calls
      BY <1>2
    <3> QED BY <1>3, <1>4, <3>1, CallValues DEF Calls
  <2>2. call' = [call EXCEPT ![c] = call'[c]]
    BY <1>2 DEF End
  <2>3. call' \in [Callers -> Calls] /\ \A d \in Callers \ {c} : call'[d] = call[d]
    BY <1>2, <2>1, <2>2
  <2> QED BY <1>2, <2>3 DEF TypeOK, End
<1>6. StepFits(c)' /\ AdmittedHasToken(c)' /\ SessionIsFollowed(c)'
  BY <1>2, <1>3, <1>4 DEF StepFits, AdmittedHasToken, SessionIsFollowed, Calls
<1>7. MessageIsFollowed(c)' /\ NothingIsAsked(c)' /\ ResultIsSeen(c)'
  BY <1>2, <1>3 DEF MessageIsFollowed, NothingIsAsked, ResultIsSeen, Calls
<1>8. CallFits(c)' /\ CollectionFits'
  BY <1>2, <1>6, <1>7 DEF CallFits, CollectionFits, End
<1> QED BY <1>5, <1>8, StepKeeps DEF End

LEMMA UserLocksKeeps ==
  ASSUME IInv, UserLocks
  PROVE  IInv'
<1>1. TypeOK /\ CollectionFits /\ locks' \in 0..MaxLocks
  BY StoreAssumption DEF IInv, TypeOK, UserLocks
<1>2. TypeOK' /\ CollectionFits'
  BY <1>1 DEF TypeOK, CollectionFits, UserLocks
<1>3. ASSUME NEW c \in Callers PROVE CallFits(c)'
  <2>1. CallFits(c)
    BY DEF IInv
  <2>2. StepFits(c)' /\ AdmittedHasToken(c)' /\ SessionIsFollowed(c)' /\ ResultIsSeen(c)'
    BY <2>1 DEF CallFits, StepFits, AdmittedHasToken, SessionIsFollowed, ResultIsSeen,
       UserLocks
  <2>3. MessageIsFollowed(c)' /\ NothingIsAsked(c)'
    BY <2>1 DEF CallFits, MessageIsFollowed, NothingIsAsked, Joined, UserLocks
  <2> QED BY <2>2, <2>3 DEF CallFits
<1> QED BY <1>2, <1>3 DEF IInv

-----------------------------------------------------------------------------
(* The theorems.                                                              *)

LEMMA InitFits == Init => IInv
<1> SUFFICES ASSUME Init PROVE IInv
  OBVIOUS
<1>1. NoCall \in Calls
  BY DEF NoCall, Calls, Steps, Remotes, Prompts
<1>2. TypeOK /\ CollectionFits
  BY <1>1, StoreAssumption DEF Init, TypeOK, CollectionFits
<1>3. ASSUME NEW c \in Callers PROVE CallFits(c)
  <2>1. call[c] = NoCall
    BY DEF Init
  <2>2. StepFits(c) /\ AdmittedHasToken(c) /\ SessionIsFollowed(c)
    BY <2>1 DEF NoCall, StepFits, AdmittedHasToken, SessionIsFollowed
  <2>3. MessageIsFollowed(c) /\ NothingIsAsked(c) /\ ResultIsSeen(c)
    BY <2>1 DEF NoCall, MessageIsFollowed, NothingIsAsked, ResultIsSeen
  <2> QED BY <2>2, <2>3 DEF CallFits
<1> QED BY <1>2, <1>3 DEF IInv

LEMMA NextKeeps == IInv /\ [Next]_vars => IInv'
<1> SUFFICES ASSUME IInv, [Next]_vars PROVE IInv'
  OBVIOUS
<1>1. CASE UNCHANGED vars
  BY <1>1 DEF vars, IInv, TypeOK, CollectionFits, CallFits, StepFits, AdmittedHasToken,
     SessionIsFollowed, MessageIsFollowed, Joined, NothingIsAsked, ResultIsSeen
<1>2. CASE UserLocks
  BY <1>2, UserLocksKeeps
<1>3. ASSUME NEW c \in Callers, Begin(c) \/ Cancel(c) \/ UserAnswers(c) \/ ServiceStep(c)
      PROVE  IInv'
  BY <1>3, BeginKeeps, CancelKeeps, UserAnswersKeeps, ServiceWorksKeeps,
     ServiceDismissesKeeps DEF ServiceStep
<1>4. ASSUME NEW c \in Callers, CallerStep(c)
      PROVE  IInv'
  BY <1>4, AdmitKeeps, GiveUpKeeps, SendKeeps, CollectKeeps, ShowPromptKeeps,
     PromptAnsweredKeeps, PromptCanceledKeeps, DismissedKeeps, CheckCollectionKeeps,
     FindKeeps, ReadKeeps, VerifyKeeps, RefusedKeeps, NothingThereKeeps, LookupKeeps,
     UpdateKeeps, AddKeeps, MutateKeeps, SystemFailsKeeps, EndKeeps DEF CallerStep
<1> QED BY <1>1, <1>2, <1>3, <1>4 DEF Next

\* The inductive invariant holds in every reachable state, for every number of
\* goroutines and every choice of the bounds.
THEOREM NativeInvariant == Spec => []IInv
BY InitFits, NextKeeps, PTL DEF Spec

\* Every variable keeps its type.
THEOREM NativeTypeCorrect == Spec => []TypeOK
<1>1. IInv => TypeOK
  BY DEF IInv
<1> QED BY <1>1, NativeInvariant, PTL

\* Whoever has work, a session or a prompt at Secret Service holds the token of
\* the store (begin, end and joinedDBusCall of store_linux.go).
THEOREM ServiceIsAlwaysOwned == Spec => []ServiceIsOwned
<1>1. IInv => ServiceIsOwned
  <2> SUFFICES ASSUME IInv, NEW c \in Callers, Outstanding(c) PROVE token = c
    BY DEF ServiceIsOwned
  <2>1. CallFits(c) /\ call[c] \in Calls
    BY DEF IInv, TypeOK
  <2>2. Joined(c) \/ call[c].session = "owned"
    BY <2>1 DEF Outstanding, CallFits, MessageIsFollowed, SessionIsFollowed, Joined, Calls,
       Remotes
  <2>3. Joined(c) => token = c
    BY <2>1 DEF Joined, CallFits, StepFits, AdmittedHasToken
  <2> QED BY <2>1, <2>2, <2>3 DEF CallFits, SessionIsFollowed
<1> QED BY <1>1, NativeInvariant, PTL

\* A store that was built without prompts never has one shown.
THEOREM NoPromptIsEverUnasked == Spec => []NoPromptUnasked
<1>1. IInv => NoPromptUnasked
  BY DEF IInv, NoPromptUnasked, CallFits, MessageIsFollowed
<1> QED BY <1>1, NativeInvariant, PTL

-----------------------------------------------------------------------------
(* The stores of the three systems keep the promise of CredentialStore.       *)

(* What a step may do to the mapped variables.                                *)

\* The call goes on, and asks for what it has asked.
Kept(c) ==
    /\ call[c].pc # "idle" /\ call'[c].pc # "idle"
    /\ call'[c].op = call[c].op /\ call'[c].arg = call[c].arg
    /\ \A d \in Callers \ {c} : call'[d] = call[d]

Quiet(c) == Kept(c) /\ call'[c].witness = call[c].witness /\ item' = item

Stored(c) ==
    /\ Kept(c) /\ call'[c].witness = call[c].witness
    /\ item' = call[c].arg /\ call[c].op # "get"

Seen(c) == Kept(c) /\ call'[c].witness = item /\ item' = item

\* A quiet step is a stutter of the promise.
LEMMA QuietStutters ==
  ASSUME NEW c \in Callers, Quiet(c)
  PROVE  UNCHANGED Promise!vars
BY DEF Quiet, Kept, Promise!vars

\* Whoever is not idle has asked for something.
LEMMA AskedSomething ==
  ASSUME IInv, NEW c \in Callers, call[c].pc # "idle"
  PROVE  /\ [op |-> call[c].op, arg |-> call[c].arg] \in Promise!Calls
         /\ [op |-> call[c].op, arg |-> call[c].arg] # None
<1>1. call[c] \in Calls /\ StepFits(c)
  BY DEF IInv, TypeOK, CallFits
<1>2. call[c].op \in {"set", "get", "delete"} /\ call[c].arg \in Values \cup {None}
      /\ (call[c].op = "set" <=> call[c].arg # None)
  BY <1>1 DEF Calls, StepFits
<1>3. [op |-> call[c].op, arg |-> call[c].arg]
        \in [op: {"set", "get", "delete"}, arg: Values \cup {None}]
  BY <1>2
<1> QED BY <1>2, <1>3, StoreAssumption DEF Promise!Calls

LEMMA StoredChanges ==
  ASSUME IInv, NEW c \in Callers, Stored(c)
  PROVE  Promise!Change(c)
<1>1. [op |-> call[c].op, arg |-> call[c].arg] # None
  BY AskedSomething DEF Stored, Kept
<1> QED BY <1>1 DEF Stored, Kept, Promise!Change

LEMMA SeenObserves ==
  ASSUME IInv, NEW c \in Callers, Seen(c)
  PROVE  Promise!Observe(c)
<1>1. [op |-> call[c].op, arg |-> call[c].arg] # None
  BY AskedSomething DEF Seen, Kept
<1> QED BY <1>1 DEF Seen, Kept, Promise!Observe

LEMMA BeginInvokes ==
  ASSUME IInv, IInv', NEW c \in Callers, Begin(c)
  PROVE  Promise!Invoke(c)
<1>1. call \in [Callers -> Calls] /\ call[c].pc = "idle" /\ call[c].witness = "unseen"
  BY DEF IInv, TypeOK, CallFits, ResultIsSeen, Begin
<1>2. PICK op \in {"set", "get", "delete"}, arg \in Values \cup {None} :
        /\ (op = "set") <=> (arg # None)
        /\ call' = [call EXCEPT ![c] =
              [NoCall EXCEPT !.op = op, !.arg = arg,
                             !.pc = IF platform = "linux" THEN "begin" ELSE FirstStep(op)]]
  BY DEF Begin
<1>3. /\ call'[c].op = op /\ call'[c].arg = arg /\ call'[c].witness = "unseen"
      /\ \A d \in Callers \ {c} : call'[d] = call[d]
  BY <1>1, <1>2 DEF NoCall
<1>4. call'[c].pc # "idle"
  <2>1. StepFits(c)'
    BY DEF IInv, CallFits
  <2> QED BY <1>3, <2>1 DEF StepFits
<1>5. [op |-> op, arg |-> arg] \in Promise!Calls
  BY <1>2 DEF Promise!Calls
<1>6. item' = item
  BY DEF Begin
<1> QED BY <1>1, <1>3, <1>4, <1>5, <1>6 DEF Promise!Invoke

LEMMA EndReturns ==
  ASSUME IInv, NEW c \in Callers, End(c), NEW result, result = call[c].result
  PROVE  Promise!Return(c, result)
<1>1. call \in [Callers -> Calls] /\ call[c].pc = "end" /\ ResultIsSeen(c)
      /\ item' = item
  BY DEF IInv, TypeOK, CallFits, End
<1>2. [op |-> call[c].op, arg |-> call[c].arg] # None
  BY <1>1, AskedSomething
<1>3. call'[c] = [call[c] EXCEPT !.op = "none", !.arg = None, !.pc = "idle",
                     !.canceled = FALSE, !.witness = "unseen",
                     !.session = Closed(call[c].session)]
  BY <1>1 DEF End
<1>4. /\ call'[c].pc = "idle" /\ call'[c].witness = "unseen"
      /\ call'[c].result = call[c].result
      /\ \A d \in Callers \ {c} : call'[d] = call[d]
  <2>1. call[c] \in Calls
    BY <1>1
  <2>2. \A d \in Callers \ {c} : call'[d] = call[d]
    BY <1>1 DEF End
  <2> QED BY <1>3, <2>1, <2>2 DEF Calls
<1>5. CASE call[c].result = "ok"
  BY <1>1, <1>2, <1>4, <1>5 DEF ResultIsSeen, Promise!Return, Promise!Succeeds, Promise!Unseen
<1>6. CASE call[c].result = "absent"
  BY <1>1, <1>2, <1>4, <1>6 DEF ResultIsSeen, Promise!Return, Promise!Absent, Promise!Unseen
<1>7. CASE call[c].result \notin {"ok", "absent"}
  BY <1>1, <1>2, <1>4, <1>7 DEF Promise!Return, Promise!Unseen
<1> QED BY <1>5, <1>6, <1>7

-----------------------------------------------------------------------------
(* The steps of a caller.                                                     *)

LEMMA InCalls ==
  ASSUME IInv, NEW c \in Callers
  PROVE  call \in [Callers -> Calls] /\ call[c] \in Calls
BY DEF IInv, TypeOK

LEMMA FailsQuietly ==
  ASSUME IInv, NEW c \in Callers, call[c].pc # "idle", Fails(c), item' = item
  PROVE  Quiet(c)
BY InCalls DEF Fails, Quiet, Kept, Calls

LEMMA AdvancesQuietly ==
  ASSUME IInv, NEW c \in Callers, NEW pc, call[c].pc # "idle", Advance(c, pc), item' = item
  PROVE  Quiet(c)
<1>1. NextStep(call[c].op, pc) # "idle"
  BY DEF NextStep
<1> QED BY <1>1, InCalls DEF Advance, Quiet, Kept, Calls

LEMMA SeesItem ==
  ASSUME IInv, NEW c \in Callers, NEW pc, NEW result, call[c].pc # "idle", pc # "idle",
         See(c, pc, result), item' = item
  PROVE  Seen(c)
BY InCalls DEF See, Seen, Kept, Calls

\* The caller and the service exchange messages.
LEMMA MessagesAreQuiet ==
  ASSUME IInv, NEW c \in Callers,
         \/ Cancel(c) \/ Admit(c) \/ GiveUp(c) \/ Send(c) \/ Collect(c) \/ ShowPrompt(c)
         \/ PromptAnswered(c) \/ PromptCanceled(c) \/ ServiceDismisses(c) \/ Dismissed(c)
  PROVE  Quiet(c)
<1>1. CallFits(c)
  BY DEF IInv
<1>2. call[c].remote # "none" => call[c].pc # "idle"
  BY <1>1 DEF CallFits, MessageIsFollowed, Joined
<1>3. call[c].waiter => call[c].pc # "idle"
  BY <1>1, <1>2, InCalls DEF CallFits, MessageIsFollowed, Calls, Remotes
<1>4. CASE Cancel(c)
  BY <1>4, InCalls DEF Cancel, world, Quiet, Kept, Calls
<1>5. CASE Admit(c)
  <2>1. CASE Fails(c)
    BY <1>5, <2>1, FailsQuietly DEF Admit
  <2>2. CASE call' = [call EXCEPT ![c].pc = FirstStep(call[c].op)]
    <3>1. FirstStep(call[c].op) # "idle"
      BY DEF FirstStep
    <3> QED BY <1>5, <2>2, <3>1, InCalls DEF Admit, Quiet, Kept, Calls
  <2> QED BY <1>5, <2>1, <2>2 DEF Admit
<1>6. CASE GiveUp(c)
  BY <1>6, FailsQuietly DEF GiveUp, world
<1>7. CASE Send(c)
  <2>1. call[c].pc # "idle" /\ item' = item
    BY <1>7 DEF Send, Joined, world
  <2>2. CASE call' = [call EXCEPT ![c].remote = "sent"]
    BY <2>1, <2>2, InCalls DEF Quiet, Kept, Calls
  <2> QED BY <1>7, <2>1, <2>2, FailsQuietly, AdvancesQuietly DEF Send
<1>8. CASE Collect(c)
  <2>1. call[c].pc # "idle" /\ item' = item
    BY <1>2, <1>8 DEF Collect, world
  <2>2. CASE call[c].remote = "error"
    BY <1>8, <2>1, <2>2, FailsQuietly DEF Collect
  <2>3. CASE call[c].remote = "ok"
    <3>1. CASE call[c].canceled
      BY <1>8, <2>1, <2>3, <3>1, InCalls DEF Collect, Quiet, Kept, Calls
    <3>2. CASE ~call[c].canceled
      BY <1>8, <2>1, <2>3, <3>2, AdvancesQuietly DEF Collect
    <3> QED BY <3>1, <3>2
  <2>4. CASE call[c].remote = "prompt"
    BY <1>8, <2>1, <2>4, InCalls DEF Collect, Quiet, Kept, Calls
  <2> QED BY <1>8, <2>2, <2>3, <2>4 DEF Collect
<1>9. CASE ShowPrompt(c)
  BY <1>3, <1>9, InCalls DEF ShowPrompt, world, Quiet, Kept, Calls
<1>10. CASE PromptAnswered(c)
  <2>1. call[c].pc # "idle" /\ item' = item
    BY <1>2, <1>10 DEF PromptAnswered, world
  <2>2. CASE call[c].prompt = "approved"
    BY <1>10, <2>1, <2>2, AdvancesQuietly DEF PromptAnswered
  <2>3. CASE call[c].prompt = "dismissed"
    BY <1>10, <2>1, <2>3, FailsQuietly DEF PromptAnswered
  <2>4. CASE call[c].prompt = "broken"
    BY <1>10, <2>1, <2>4, InCalls DEF PromptAnswered, Quiet, Kept, Calls
  <2> QED BY <1>10, <2>2, <2>3, <2>4 DEF PromptAnswered
<1>11. CASE PromptCanceled(c)
  BY <1>2, <1>11, InCalls DEF PromptCanceled, world, Quiet, Kept, Calls
<1>12. CASE ServiceDismisses(c)
  BY <1>2, <1>12, InCalls DEF ServiceDismisses, world, Quiet, Kept, Calls
<1>13. CASE Dismissed(c)
  BY <1>2, <1>13, FailsQuietly DEF Dismissed, world
<1> QED BY <1>4, <1>5, <1>6, <1>7, <1>8, <1>9, <1>10, <1>11, <1>12, <1>13

\* What the service does for the caller is what the caller has asked for.
LEMMA EffectsAreAsked ==
  ASSUME IInv, NEW c \in Callers, ServiceWorks(c) \/ UserAnswers(c)
  PROVE  Quiet(c) \/ Stored(c)
<1>1. CallFits(c) /\ Joined(c)
  BY InCalls DEF IInv, CallFits, MessageIsFollowed, ServiceWorks, UserAnswers, Calls, Remotes
<1>2. Kept(c) /\ call'[c].witness = call[c].witness
  <2>1. call[c].pc # "idle"
    BY <1>1 DEF Joined
  <2>2. CASE ServiceWorks(c)
    <3>1. PICK answer : Answer(c, answer)
      BY <2>2 DEF ServiceWorks
    <3> QED BY <2>1, <3>1, InCalls DEF Answer, Kept, Calls
  <2>3. CASE UserAnswers(c)
    <3>1. PICK prompt \in Prompts :
            call' = [call EXCEPT ![c].prompt = prompt, ![c].waiter = FALSE]
      BY <2>3 DEF UserAnswers, Prompts
    <3> QED BY <2>1, <3>1, InCalls DEF Kept, Calls
  <2> QED BY <2>2, <2>3
<1>3. item' = item \/ (call[c].pc = "mutate" /\ item' = call[c].arg)
  BY DEF ServiceWorks, UserAnswers, Effect
<1>4. call[c].pc = "mutate" => call[c].op # "get"
  BY <1>1 DEF CallFits, StepFits
<1> QED BY <1>2, <1>3, <1>4 DEF Quiet, Stored

\* Reading ends the call, leads it on, or sees the item.
LEMMA ReadingSees ==
  ASSUME IInv, NEW c \in Callers,
         CheckCollection(c) \/ Find(c) \/ Read(c) \/ Verify(c) \/ NothingThere(c) \/ Lookup(c)
  PROVE  Quiet(c) \/ Seen(c)
<1>1. call[c].pc # "idle" /\ item' = item
  BY DEF CheckCollection, Find, Read, Verify, NothingThere, Lookup, ReadFails, world
<1>2. \/ Fails(c)
      \/ \E pc \in Steps : Advance(c, pc)
      \/ \E pc \in Steps \ {"idle"}, r \in {"none", "ok", "absent"} : See(c, pc, r)
  <2>1. NextStep(call[c].op, "find") \in Steps \ {"idle"}
    BY DEF NextStep, Steps
  <2>2. {"prepare", "check"} \subseteq Steps /\ {"end", "mutate"} \subseteq Steps \ {"idle"}
    BY DEF Steps
  <2>3. CASE CheckCollection(c)
    BY <2>2, <2>3 DEF CheckCollection, ReadFails
  <2>4. CASE Find(c)
    BY <2>1, <2>2, <2>4 DEF Find, ReadFails
  <2>5. CASE Read(c) \/ Verify(c) \/ NothingThere(c) \/ Lookup(c)
    BY <2>2, <2>5 DEF Read, Verify, NothingThere, Lookup, ReadFails
  <2> QED BY <2>3, <2>4, <2>5
<1> QED BY <1>1, <1>2, FailsQuietly, AdvancesQuietly, SeesItem

\* Windows and macOS do at once what they are asked for, or nothing.
LEMMA DirectIsAsked ==
  ASSUME IInv, NEW c \in Callers,
         Refused(c) \/ Update(c) \/ Add(c) \/ Mutate(c) \/ SystemFails(c)
  PROVE  Quiet(c) \/ Stored(c)
<1>1. CallFits(c)
  BY DEF IInv
<1>2. CASE Refused(c)
  <2>1. call[c].pc # "idle" /\ item' = item
    BY <1>2 DEF Refused, FirstStep, world
  <2> QED BY <1>2, <2>1, FailsQuietly DEF Refused
<1>3. CASE Update(c) \/ Add(c) \/ Mutate(c) \/ SystemFails(c)
  <2>1. call[c].pc \in {"update", "add", "mutate"} /\ call[c].op # "get"
    BY <1>1, <1>3 DEF Update, Add, Mutate, SystemFails, CallFits, StepFits
  <2>2. /\ item' \in {item, call[c].arg}
        /\ \/ Fails(c) /\ item' = item
           \/ \E pc \in {"add", "verify"} : call' = [call EXCEPT ![c].pc = pc]
    BY <1>3 DEF Update, Add, Mutate, SystemFails, world
  <2>3. CASE Fails(c) /\ item' = item
    BY <2>1, <2>3, FailsQuietly
  <2>4. ASSUME NEW pc \in {"add", "verify"}, call' = [call EXCEPT ![c].pc = pc]
        PROVE  Quiet(c) \/ Stored(c)
    BY <2>1, <2>2, <2>4, InCalls DEF Quiet, Stored, Kept, Calls
  <2> QED BY <2>2, <2>3, <2>4
<1> QED BY <1>2, <1>3

-----------------------------------------------------------------------------
(* The theorem.                                                               *)

LEMMA InitPromises == Init => Promise!Init
BY DEF Init, NoCall, Promise!Init, Promise!Unseen

LEMMA NextPromises == IInv /\ IInv' /\ [Next]_vars => [Promise!Next]_(Promise!vars)
<1> SUFFICES ASSUME IInv, IInv', [Next]_vars
             PROVE  [Promise!Next]_(Promise!vars)
  OBVIOUS
<1>1. CASE UNCHANGED vars \/ UserLocks
  BY <1>1 DEF vars, UserLocks, Promise!vars
<1>2. ASSUME NEW c \in Callers, Begin(c)
      PROVE  Promise!Next
  BY <1>2, BeginInvokes DEF Promise!Next
<1>3. ASSUME NEW c \in Callers, End(c)
      PROVE  Promise!Next
  <2>1. call[c].result \in {"ok", "absent", "failed"}
    BY <1>3 DEF End, IInv, CallFits, ResultIsSeen
  <2>2. PICK result \in {"ok", "absent", "failed"} : result = call[c].result
    BY <2>1
  <2>3. Promise!Return(c, result)
    BY <1>3, <2>2, EndReturns
  <2> QED BY <2>3 DEF Promise!Next
<1>4. ASSUME NEW c \in Callers, Quiet(c) \/ Stored(c) \/ Seen(c)
      PROVE  [Promise!Next]_(Promise!vars)
  BY <1>4, QuietStutters, StoredChanges, SeenObserves DEF Promise!Next
<1>5. ASSUME NEW c \in Callers,
             Cancel(c) \/ UserAnswers(c) \/ ServiceStep(c) \/ (CallerStep(c) /\ ~End(c))
      PROVE  Quiet(c) \/ Stored(c) \/ Seen(c)
  BY <1>5, MessagesAreQuiet, EffectsAreAsked, ReadingSees, DirectIsAsked
     DEF ServiceStep, CallerStep
<1> QED BY <1>1, <1>2, <1>3, <1>4, <1>5 DEF Next

\* A call changes the stored secret only while it runs, and one that succeeds
\* has seen the state it reports (Set, Get and Delete of the three stores).
THEOREM StoreKeepsPromise == Spec => KeepsPromise
<1>1. Init => Promise!Init
  BY InitPromises
<1>2. IInv /\ IInv' /\ [Next]_vars => [Promise!Next]_(Promise!vars)
  BY NextPromises
<1> QED BY <1>1, <1>2, NativeInvariant, PTL DEF Spec, KeepsPromise, Promise!Spec
=============================================================================
