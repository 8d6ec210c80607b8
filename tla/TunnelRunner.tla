---------------------------- MODULE TunnelRunner ----------------------------
(***************************************************************************)
(* What the tunnel service relies on when it calls RunTunnel: the runner   *)
(* announces its listener at most once and after binding it, and returns   *)
(* with nothing open.  TunnelService moves a tunnel along these stages;    *)
(* TunnelRuntime is the runtime that implements them.                      *)
(***************************************************************************)

VARIABLES
    stage,    \* opening, bound, forwarding, closing, returned
    holding   \* is a listener or a forwarded connection open?

runnerVars == <<stage, holding>>

Init == stage = "opening" /\ holding = FALSE

Bind == stage = "opening" /\ stage' = "bound" /\ holding' = TRUE

Ready == stage = "bound" /\ stage' = "forwarding" /\ UNCHANGED holding

\* A remote listener may still be granted while the runner gives up.
GiveUp ==
    /\ stage \in {"opening", "bound", "forwarding"}
    /\ stage' = "closing"
    /\ holding' \in BOOLEAN

\* Destinations still open and close until the runner has collected them all.
CleanUp == stage = "closing" /\ holding' \in BOOLEAN /\ UNCHANGED stage

Return == stage = "closing" /\ ~holding /\ stage' = "returned" /\ UNCHANGED holding

Next == Bind \/ Ready \/ GiveUp \/ CleanUp \/ Return

Spec == Init /\ [][Next]_runnerVars
=============================================================================
