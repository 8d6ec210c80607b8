---------------------------- MODULE CredentialStore ----------------------------
(* What credential.CredentialStore promises to the application for one key:   *)
(* callers set, get and delete its secret.  A call may fail at any moment and *)
(* a change may then have been made or not, but only while the call runs; a   *)
(* call that succeeds has seen the item in the state it reports.              *)
EXTENDS Naturals

CONSTANTS
    Callers,   \* goroutines of the application that hold the store
    Values,    \* secrets
    None       \* no secret

VARIABLES
    item,      \* the stored secret
    running,   \* what each caller has asked for, or None
    answer,    \* what it was told last
    witness    \* a state of the item that the caller has seen during its call

vars == <<item, running, answer, witness>>

Calls ==
    [op: {"set"}, arg: Values] \cup [op: {"get", "delete"}, arg: {None}]

Unseen == "unseen"

Init ==
    /\ item \in Values \cup {None}
    /\ running = [c \in Callers |-> None]
    /\ answer = [c \in Callers |-> "none"]
    /\ witness = [c \in Callers |-> Unseen]

Invoke(c) ==
    \E call \in Calls :
        /\ running[c] = None
        /\ running' = [running EXCEPT ![c] = call]
        /\ answer' = [answer EXCEPT ![c] = "none"]
        /\ UNCHANGED <<item, witness>>

\* A set stores its argument and a delete stores nothing.
Change(c) ==
    /\ running[c] # None /\ running[c].op # "get"
    /\ item' = running[c].arg
    /\ UNCHANGED <<running, answer, witness>>

Observe(c) ==
    /\ running[c] # None
    /\ witness' = [witness EXCEPT ![c] = item]
    /\ UNCHANGED <<item, running, answer>>

\* ErrNotFound is an answer of get; every other failure promises nothing.
Succeeds(c) ==
    CASE running[c].op = "get" -> witness[c] \in Values
      [] OTHER -> witness[c] = running[c].arg

Absent(c) == running[c].op = "get" /\ witness[c] = None

Return(c, result) ==
    /\ running[c] # None
    /\ CASE result = "ok" -> Succeeds(c)
         [] result = "absent" -> Absent(c)
         [] OTHER -> TRUE
    /\ running' = [running EXCEPT ![c] = None]
    /\ answer' = [answer EXCEPT ![c] = result]
    /\ witness' = [witness EXCEPT ![c] = Unseen]
    /\ UNCHANGED item

Next ==
    \E c \in Callers :
        \/ Invoke(c) \/ Change(c) \/ Observe(c)
        \/ \E result \in {"ok", "absent", "failed"} : Return(c, result)

Spec == Init /\ [][Next]_vars
=============================================================================
