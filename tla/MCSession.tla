------------------------------ MODULE MCSession ------------------------------
(* The attempt for TLC: the sets are given by the configurations.             *)
EXTENDS SessionInvariant

=============================================================================
