------------------------- MODULE RememberedPassword -------------------------
(***************************************************************************)
(* What Orza promises about remembered passwords, with no row, phase,      *)
(* process or crash in sight.  A connection remembers one reference, none, *)
(* or is gone.  A change of it is announced, may touch the store's secrets *)
(* of that connection only, takes effect at once, and is over only when    *)
(* the store holds exactly what the connection remembers.                  *)
(***************************************************************************)
CONSTANTS Connections, Refs, NoRef, Gone

VARIABLES
    remembered,  \* connection -> its reference, NoRef or Gone
    held,        \* connection -> the secrets of it in the store
    changing     \* the connections with a change under way

Wanted(c) == {remembered[c]} \cap Refs

Init ==
    /\ remembered = [c \in Connections |-> NoRef]
    /\ held = [c \in Connections |-> {}]
    /\ changing = {}

\* A change is announced, for a connection that agrees with the store.
Announce(c) ==
    /\ c \notin changing /\ remembered[c] # Gone
    /\ changing' = changing \cup {c}
    /\ UNCHANGED <<remembered, held>>

\* One secret of the connection is stored or deleted.
Store(c) ==
    /\ c \in changing
    /\ \E r \in Refs : held' = [held EXCEPT ![c] = IF r \in @ THEN @ \ {r} ELSE @ \cup {r}]
    /\ UNCHANGED <<remembered, changing>>

\* The connection takes a reference the store holds, or forgets its secret.
Take(c) ==
    /\ c \in changing
    /\ \E r \in held[c] \cup {NoRef} : remembered' = [remembered EXCEPT ![c] = r]
    /\ UNCHANGED <<held, changing>>

\* The connection disappears, when it has nothing in the store.
Leave(c) ==
    /\ remembered[c] # Gone /\ held[c] = {}
    /\ remembered' = [remembered EXCEPT ![c] = Gone]
    /\ changing' = changing \ {c}
    /\ UNCHANGED held

\* A change is over, applied or abandoned: the two sides agree.
Settle(c) ==
    /\ c \in changing /\ held[c] = Wanted(c)
    /\ changing' = changing \ {c}
    /\ UNCHANGED <<remembered, held>>

Next == \E c \in Connections : Announce(c) \/ Store(c) \/ Take(c) \/ Leave(c) \/ Settle(c)

Spec == Init /\ [][Next]_<<remembered, held, changing>>
=============================================================================
