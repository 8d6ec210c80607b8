---------------------------- MODULE MCTerminalUI ----------------------------
(* The terminal user interface for TLC: the bounds are given by the           *)
(* configurations.                                                            *)
EXTENDS TerminalUIInvariant

=============================================================================
