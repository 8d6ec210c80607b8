------------------------------ MODULE NativeStore ------------------------------
(* The credential stores of the three systems, for one key: Secret Service    *)
(* over D-Bus (store_linux.go), Credential Manager (store_windows.go) and     *)
(* Keychain (store_darwin.go).                                                *)
(*                                                                            *)
(* The Linux store admits one operation at a time with the token of the       *)
(* channel `operation`.  A call of its that changes something is joined: when *)
(* the context ends the caller still waits for the reply, for D-Bus cannot    *)
(* take back a message.  The service may answer with a prompt, which it shows *)
(* when asked to and which the user approves or dismisses, or never answers.  *)
(* The other two stores call the system directly and take turns in nothing.   *)
EXTENDS Naturals, FiniteSets

CONSTANTS
    Callers, Values, None,
    MaxCalls,     \* bound: operations begun
    MaxFaults,    \* bound: calls that the system fails, or answers without doing
    MaxLocks      \* bound: times that the user locks the collection

\* None is neither a secret, nor a goroutine, nor what a goroutine asks for.
ASSUME StoreAssumption ==
    /\ None \notin Callers /\ None \notin Values
    /\ None \notin [op: {"set", "get", "delete"}, arg: Values \cup {None}]
    /\ MaxCalls \in Nat /\ MaxFaults \in Nat /\ MaxLocks \in Nat

VARIABLES
    platform,     \* linux, windows or darwin
    noUI,         \* StoreOptions.NonInteractive
    item,         \* the secret stored under the key
    collection,   \* the default collection of Secret Service
    token,        \* the caller that holds the token of the channel `operation`
    call,         \* per caller: its operation, where it is, and what it has left
                  \* at the service
    begun, faults, locks

vars == <<platform, noUI, item, collection, token, call, begun, faults, locks>>

NoCall ==
    [op |-> "none", arg |-> None, pc |-> "idle", canceled |-> FALSE, remote |-> "none",
     session |-> "none", prompt |-> "none", waiter |-> FALSE,
     witness |-> "unseen", result |-> "none"]

Steps ==
    {"idle", "begin", "open", "prepare", "check", "find", "mutate", "verify", "read",
     "update", "add", "end"}

\* A joined call: sent, answered, and then perhaps waiting for a prompt.
Remotes == {"none", "sent", "ok", "prompt", "error", "prompting", "dismissing"}

Prompts == {"none", "offered", "shown", "approved", "dismissed", "broken"}

Calls ==
    [op: {"none", "set", "get", "delete"}, arg: Values \cup {None}, pc: Steps,
     canceled: BOOLEAN, remote: Remotes, session: {"none", "open", "owned"},
     prompt: Prompts, waiter: BOOLEAN, witness: Values \cup {None, "unseen"},
     result: {"none", "ok", "absent", "failed"}]

TypeOK ==
    /\ platform \in {"linux", "windows", "darwin"}
    /\ noUI \in BOOLEAN
    /\ item \in Values \cup {None}
    /\ collection \in {"missing", "locked", "unlocked"}
    /\ token \in Callers \cup {None}
    /\ call \in [Callers -> Calls]
    /\ begun \in 0..MaxCalls /\ faults \in 0..MaxFaults /\ locks \in 0..MaxLocks

Init ==
    /\ platform \in {"linux", "windows", "darwin"}
    /\ noUI \in BOOLEAN
    /\ collection \in (IF platform = "linux" THEN {"missing", "locked", "unlocked"}
                       ELSE {"unlocked"})
    /\ item \in (IF collection = "missing" THEN {None} ELSE Values \cup {None})
    /\ token = None
    /\ call = [c \in Callers |-> NoCall]
    /\ begun = 0 /\ faults = 0 /\ locks = 0

---------------------------------------------------------------------------
(* Helpers.                                                                 *)

Fault == faults < MaxFaults /\ faults' = faults + 1

world == <<platform, noUI, item, collection, token, begun, locks>>

\* ErrUnavailable and the error of the context are one failure here.
Fails(c) ==
    call' = [call EXCEPT ![c].pc = "end", ![c].result = "failed",
                         ![c].remote = IF @ = "sent" THEN @ ELSE "none"]

\* The Locked property of the collection, and of the items in it.
Locked == collection = "locked"

\* The item that a search finds: without a default collection there is none.
Found == IF collection = "missing" THEN None ELSE item

\* A session that OpenSession has handed over is closed.
Closed(session) == IF session = "owned" THEN "none" ELSE session

\* The first step of an operation once it has been admitted.
FirstStep(op) ==
    IF platform = "linux" THEN IF op = "delete" THEN "prepare" ELSE "open"
    ELSE IF platform = "windows" /\ op = "delete" THEN "find"
    ELSE IF platform = "darwin" /\ op = "set" THEN "update"
    ELSE IF op = "get" THEN "read"
    ELSE "mutate"

\* The step that follows a success.
NextStep(op, pc) ==
    CASE pc = "open" -> "prepare"
      [] pc = "prepare" -> IF op = "set" THEN IF noUI THEN "check" ELSE "mutate"
                           ELSE "find"
      [] pc = "check" -> "mutate"
      [] pc = "find" -> IF op = "delete" THEN "mutate" ELSE "read"
      [] OTHER -> "verify"

Advance(c, pc) ==
    call' = [call EXCEPT ![c].pc = NextStep(call[c].op, pc), ![c].remote = "none",
                         ![c].prompt = "none",
                         ![c].session = IF pc = "open" THEN "owned" ELSE @]

---------------------------------------------------------------------------
(* The caller.                                                              *)

Begin(c) ==
    /\ call[c].pc = "idle" /\ begun < MaxCalls
    /\ \E op \in {"set", "get", "delete"}, arg \in Values \cup {None} :
          /\ (op = "set") <=> (arg # None)
          /\ call' = [call EXCEPT ![c] =
                [NoCall EXCEPT !.op = op, !.arg = arg,
                               !.pc = IF platform = "linux" THEN "begin"
                                      ELSE FirstStep(op)]]
    /\ begun' = begun + 1
    /\ UNCHANGED <<platform, noUI, item, collection, token, faults, locks>>

Cancel(c) ==
    /\ call[c].pc \notin {"idle", "end"} /\ ~call[c].canceled
    /\ call' = [call EXCEPT ![c].canceled = TRUE]
    /\ UNCHANGED <<world, faults>>

\* The select of begin, and the check that follows it.
Admit(c) ==
    /\ call[c].pc = "begin" /\ token = None
    /\ IF call[c].canceled
       THEN Fails(c) /\ UNCHANGED token
       ELSE /\ call' = [call EXCEPT ![c].pc = FirstStep(call[c].op)]
            /\ token' = c
    /\ UNCHANGED <<platform, noUI, item, collection, begun, faults, locks>>

GiveUp(c) ==
    /\ call[c].pc = "begin" /\ call[c].canceled
    /\ Fails(c)
    /\ UNCHANGED <<world, faults>>

---------------------------------------------------------------------------
(* Calls that change something at the service: OpenSession, Unlock,         *)
(* CreateItem and Delete, all through joinedDBusCall.                       *)

Joined(c) ==
    \/ call[c].pc = "open"
    \/ platform = "linux" /\ call[c].pc = "mutate"
    \/ call[c].pc = "prepare" /\ ~noUI

\* Unlock asks for the default collection first, and skips a missing one.
Send(c) ==
    /\ Joined(c) /\ call[c].remote = "none"
    /\ IF call[c].canceled THEN Fails(c)
       ELSE IF call[c].pc = "prepare" /\ collection = "missing" THEN Advance(c, "prepare")
       ELSE call' = [call EXCEPT ![c].remote = "sent"]
    /\ UNCHANGED <<world, faults>>

\* Mutant: the item is created beside the old one instead of replacing it.
EffectBeside(c) ==
    /\ collection' = IF call[c].pc = "prepare" THEN "unlocked" ELSE collection
    /\ item' = IF call[c].pc # "mutate" THEN item
               ELSE IF call[c].op = "set" /\ item # None THEN {item, call[c].arg}
               ELSE call[c].arg

\* What the service does for the caller: open a session, unlock, store or delete.
Effect(c) ==
    /\ collection' = IF call[c].pc = "prepare" THEN "unlocked" ELSE collection
    /\ item' = IF call[c].pc = "mutate" THEN call[c].arg ELSE item

Answer(c, answer) ==
    call' = [call EXCEPT ![c].remote = answer,
                         ![c].prompt = IF answer = "prompt" THEN "offered" ELSE "none",
                         ![c].session = IF call[c].pc = "open" /\ answer = "ok"
                                        THEN "open" ELSE @]

\* A collection that is locked is unlocked with a prompt; a change may be made
\* at once or need one, and needs an unlocked collection.
Answers(c) ==
    CASE call[c].pc = "open" -> {"ok"}
      [] call[c].pc = "prepare" -> IF collection = "locked" THEN {"prompt"} ELSE {"ok"}
      [] OTHER -> IF collection = "unlocked" THEN {"ok", "prompt"}
                  ELSE IF collection = "locked" THEN {"error", "prompt"} ELSE {"error"}

ServiceWorks(c) ==
    /\ call[c].remote = "sent"
    /\ \/ /\ \E answer \in Answers(c) :
                /\ Answer(c, answer)
                /\ IF answer = "ok" THEN Effect(c) ELSE UNCHANGED <<item, collection>>
          /\ UNCHANGED faults
       \/ /\ Fault /\ \E answer \in {"ok", "error"} : Answer(c, answer)
          /\ UNCHANGED <<item, collection>>
    /\ UNCHANGED <<platform, noUI, token, begun, locks>>

\* Mutant: an offered prompt is executed whatever the store was built for.
CollectAndAsk(c) ==
    /\ LET canceled == call[c].canceled
       IN  CASE call[c].remote = "error" -> Fails(c)
             [] call[c].remote = "ok" ->
                  IF canceled
                  THEN call' = [call EXCEPT ![c].pc = "end", ![c].result = "failed",
                                    ![c].remote = "none",
                                    ![c].session = IF @ = "open" THEN "none" ELSE @]
                  ELSE Advance(c, call[c].pc)
             [] call[c].remote = "prompt" ->
                  call' = [call EXCEPT
                      ![c].remote = IF canceled THEN "dismissing" ELSE "prompting",
                      ![c].waiter = ~canceled]
             [] OTHER -> FALSE
    /\ UNCHANGED <<world, faults>>

\* The reply is taken: an answer that comes after the end of the context still
\* closes the session it brings and dismisses the prompt it brings.
Collect(c) ==
    /\ LET canceled == call[c].canceled
       IN  CASE call[c].remote = "error" -> Fails(c)
             [] call[c].remote = "ok" ->
                  IF canceled
                  THEN call' = [call EXCEPT ![c].pc = "end", ![c].result = "failed",
                                    ![c].remote = "none",
                                    ![c].session = IF @ = "open" THEN "none" ELSE @]
                  ELSE Advance(c, call[c].pc)
             [] call[c].remote = "prompt" ->
                  call' = [call EXCEPT
                      ![c].remote = IF canceled \/ noUI THEN "dismissing" ELSE "prompting",
                      ![c].waiter = ~(canceled \/ noUI)]
             [] OTHER -> FALSE
    /\ UNCHANGED <<world, faults>>

---------------------------------------------------------------------------
(* Prompts.                                                                 *)

\* The goroutine of promptAndWait asks the service to show the prompt.
ShowPrompt(c) ==
    /\ call[c].waiter /\ call[c].prompt = "offered"
    /\ \/ /\ call' = [call EXCEPT ![c].prompt = "shown"]
          /\ UNCHANGED faults
       \/ /\ Fault
          /\ call' = [call EXCEPT ![c].prompt = "broken", ![c].waiter = FALSE]
    /\ UNCHANGED world

\* The user approves, and the service does what the prompt was for; or refuses.
UserAnswers(c) ==
    /\ call[c].prompt = "shown"
    /\ \/ /\ call' = [call EXCEPT ![c].prompt = "approved", ![c].waiter = FALSE]
          /\ Effect(c)
       \/ /\ call' = [call EXCEPT ![c].prompt = "dismissed", ![c].waiter = FALSE]
          /\ UNCHANGED <<item, collection>>
    /\ UNCHANGED <<platform, noUI, token, begun, faults, locks>>

\* The goroutine reports, and the select takes its report.
PromptAnswered(c) ==
    /\ call[c].remote = "prompting"
    /\ CASE call[c].prompt = "approved" -> Advance(c, call[c].pc)
         [] call[c].prompt = "dismissed" -> Fails(c)
         [] call[c].prompt = "broken" -> call' = [call EXCEPT ![c].remote = "dismissing"]
         [] OTHER -> FALSE
    /\ UNCHANGED <<world, faults>>

\* Mutant: the operation returns and leaves the prompt to the user.
PromptAbandoned(c) ==
    /\ call[c].remote = "prompting" /\ call[c].canceled
    /\ Fails(c)
    /\ UNCHANGED <<world, faults>>

\* Mutant: the goroutine of the prompt is joined and the prompt is not dismissed.
PromptJoined(c) ==
    /\ call[c].remote = "prompting" /\ call[c].canceled
    /\ call[c].prompt \in {"approved", "dismissed"}
    /\ call' = [call EXCEPT ![c].remote = "dismissing"]
    /\ UNCHANGED <<world, faults>>

\* The select takes the end of the context: dismiss, and join the goroutine.
PromptCanceled(c) ==
    /\ call[c].remote = "prompting" /\ call[c].canceled
    /\ call' = [call EXCEPT ![c].remote = "dismissing"]
    /\ UNCHANGED <<world, faults>>

ServiceDismisses(c) ==
    /\ call[c].remote = "dismissing" /\ call[c].prompt \in {"offered", "shown", "broken"}
    /\ call' = [call EXCEPT ![c].prompt = "dismissed", ![c].waiter = FALSE]
    /\ UNCHANGED <<world, faults>>

Dismissed(c) ==
    /\ call[c].remote = "dismissing" /\ call[c].prompt \in {"approved", "dismissed"}
    /\ Fails(c)
    /\ UNCHANGED <<world, faults>>

---------------------------------------------------------------------------
(* Calls that only read, and the calls of Windows and macOS.                *)

\* The context ends, or the call fails.
ReadFails(c) ==
    /\ \/ call[c].canceled /\ platform = "linux" /\ UNCHANGED faults
       \/ Fault
    /\ Fails(c)
    /\ UNCHANGED world

\* CollectionLocked, without which a store without prompts does not go on.
CheckCollection(c) ==
    /\ call[c].pc = "prepare" /\ noUI
    /\ \/ ReadFails(c)
       \/ /\ ~call[c].canceled
          /\ IF Locked THEN Fails(c) ELSE Advance(c, "prepare")
          /\ UNCHANGED <<world, faults>>

See(c, pc, result) ==
    call' = [call EXCEPT ![c].witness = item, ![c].pc = pc, ![c].result = result]

\* find: without prompts, a locked collection or item ends the operation.
Find(c) ==
    /\ call[c].pc \in {"check", "find"} /\ platform = "linux"
    /\ \/ ReadFails(c)
       \/ /\ ~call[c].canceled
          /\ IF noUI /\ Locked THEN Fails(c)
             ELSE IF call[c].pc = "check" THEN Advance(c, "check")
             ELSE IF Found # None THEN See(c, NextStep(call[c].op, "find"), "none")
             ELSE IF call[c].op = "get" THEN See(c, "end", "absent")
             ELSE See(c, "end", "ok")
          /\ UNCHANGED <<world, faults>>

\* GetSecret: refused while the collection is locked.
Read(c) ==
    /\ call[c].pc = "read" /\ (platform # "linux" => item # None)
    /\ \/ ReadFails(c)
       \/ /\ (platform = "linux" => ~call[c].canceled)
          /\ IF Locked THEN Fails(c) ELSE See(c, "end", "ok")
          /\ UNCHANGED <<world, faults>>

\* Mutant: Set is content to find an item.
VerifyPresence(c) ==
    /\ call[c].pc = "verify"
    /\ \/ ReadFails(c)
       \/ /\ (platform = "linux" => ~call[c].canceled)
          /\ IF \/ Locked /\ (noUI \/ call[c].op = "set")
                \/ (item = None) # (call[c].arg = None)
                \/ call[c].canceled
             THEN Fails(c) ELSE See(c, "end", "ok")
          /\ UNCHANGED <<world, faults>>

\* What Set reads back, and whether Delete finds nothing.
Verify(c) ==
    /\ call[c].pc = "verify"
    /\ \/ ReadFails(c)
       \/ /\ (platform = "linux" => ~call[c].canceled)
          /\ IF \/ Locked /\ (noUI \/ call[c].op = "set")
                \/ item # call[c].arg
                \/ call[c].canceled
             THEN Fails(c) ELSE See(c, "end", "ok")
          /\ UNCHANGED <<world, faults>>

\* The check of the context with which Windows and macOS begin.
Refused(c) ==
    /\ platform # "linux" /\ call[c].canceled
    /\ call[c].pc = FirstStep(call[c].op)
    /\ Fails(c)
    /\ UNCHANGED <<world, faults>>

NothingThere(c) ==
    /\ platform # "linux" /\ item = None
    /\ \/ call[c].pc = "read" /\ See(c, "end", "absent")
       \/ call[c].pc = "find" /\ See(c, "end", "ok")
    /\ UNCHANGED <<world, faults>>

\* Windows: Delete first reads the entry.
Lookup(c) ==
    /\ platform = "windows" /\ call[c].pc = "find"
    /\ \/ ReadFails(c)
       \/ item # None /\ See(c, "mutate", "none") /\ UNCHANGED <<world, faults>>

\* macOS: Set updates an item and adds one when there was none.
Update(c) ==
    /\ platform = "darwin" /\ call[c].pc = "update"
    /\ IF item = None
       THEN call' = [call EXCEPT ![c].pc = "add"] /\ UNCHANGED item
       ELSE call' = [call EXCEPT ![c].pc = "verify"] /\ item' = call[c].arg
    /\ UNCHANGED <<platform, noUI, collection, token, begun, faults, locks>>

Add(c) ==
    /\ platform = "darwin" /\ call[c].pc = "add"
    /\ IF item = None
       THEN call' = [call EXCEPT ![c].pc = "verify"] /\ item' = call[c].arg
       ELSE Fails(c) /\ UNCHANGED item
    /\ UNCHANGED <<platform, noUI, collection, token, begun, faults, locks>>

\* Write of Windows, Delete of both; a missing entry is as good as a deleted one.
Mutate(c) ==
    /\ platform # "linux" /\ call[c].pc = "mutate"
    /\ item' = call[c].arg
    /\ call' = [call EXCEPT ![c].pc = "verify"]
    /\ UNCHANGED <<platform, noUI, collection, token, begun, faults, locks>>

\* A system that fails a change, or claims to have made it.
SystemFails(c) ==
    /\ platform # "linux" /\ call[c].pc \in {"update", "add", "mutate"} /\ Fault
    /\ \/ Fails(c)
       \/ call' = [call EXCEPT ![c].pc = "verify"]
    /\ UNCHANGED world

---------------------------------------------------------------------------

\* The deferred calls: the session is closed, then the token is given back.
End(c) ==
    /\ call[c].pc = "end"
    /\ call' = [call EXCEPT ![c] = [@ EXCEPT
           !.op = "none", !.arg = None, !.pc = "idle", !.canceled = FALSE,
           !.witness = "unseen", !.session = Closed(call[c].session)]]
    /\ token' = IF token = c THEN None ELSE token
    /\ UNCHANGED <<platform, noUI, item, collection, begun, faults, locks>>

UserLocks ==
    /\ platform = "linux" /\ collection = "unlocked" /\ locks < MaxLocks
    /\ collection' = "locked" /\ locks' = locks + 1
    /\ UNCHANGED <<platform, noUI, item, token, call, begun, faults>>

CallerStep(c) ==
    \/ Admit(c) \/ GiveUp(c) \/ Send(c) \/ Collect(c)
    \/ ShowPrompt(c) \/ PromptAnswered(c) \/ PromptCanceled(c) \/ Dismissed(c)
    \/ CheckCollection(c) \/ Find(c) \/ Read(c) \/ Verify(c)
    \/ Refused(c) \/ NothingThere(c) \/ Lookup(c) \/ Update(c) \/ Add(c) \/ Mutate(c)
    \/ SystemFails(c) \/ End(c)

ServiceStep(c) == ServiceWorks(c) \/ ServiceDismisses(c)

Next ==
    \/ UserLocks
    \/ \E c \in Callers :
          Begin(c) \/ Cancel(c) \/ UserAnswers(c) \/ CallerStep(c) \/ ServiceStep(c)

Spec == Init /\ [][Next]_vars

\* The program and the service go on; the user need never answer a prompt.
Fairness == \A c \in Callers : WF_vars(CallerStep(c)) /\ WF_vars(ServiceStep(c))

FairSpec == Spec /\ Fairness

---------------------------------------------------------------------------
(* Properties.                                                              *)

\* What a caller has left at the service, or on the screen of the user.
Outstanding(c) ==
    \/ call[c].remote = "sent" \/ call[c].session # "none" \/ call[c].waiter
    \/ call[c].prompt \in {"offered", "shown", "broken"}

\* Nothing that was asked of Secret Service outlives the operation that asked:
\* whoever has work, a session or a prompt there holds the token, so that the
\* next operation finds none of it (begin, end, joinedDBusCall, the prompts).
ServiceIsOwned == \A c \in Callers : Outstanding(c) => token = c

\* A store built for commands without a terminal never has a prompt shown, also
\* when the service offers one for a change that it normally makes silently.
NoPromptUnasked == noUI => \A c \in Callers : call[c].prompt # "shown"

\* The three stores keep the promise of the interface: a call changes the item
\* only while it runs, and one that succeeds has seen the state it reports,
\* also when the service claims work that it has not done.
Promise ==
    INSTANCE CredentialStore WITH
        running <- [c \in Callers |->
                      IF call[c].pc = "idle" THEN None
                      ELSE [op |-> call[c].op, arg |-> call[c].arg]],
        answer <- [c \in Callers |->
                     IF call[c].pc = "idle" THEN call[c].result ELSE "none"],
        witness <- [c \in Callers |-> call[c].witness]

KeepsPromise == Promise!Spec

\* A canceled operation ends, although the user answers no prompt: the prompt is
\* dismissed and its goroutine comes back.
CancellationIsHonoured ==
    \A c \in Callers : call[c].canceled ~> call[c].pc = "idle"
=============================================================================
