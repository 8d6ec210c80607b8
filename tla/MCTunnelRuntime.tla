-------------------------- MODULE MCTunnelRuntime --------------------------
(* Model-checking instances of TunnelRuntime.                              *)
EXTENDS TunnelRuntimeInvariant, TLC

\* Clients are interchangeable; not used with the temporal properties.
Symmetry == Permutations(Clients)
=============================================================================
