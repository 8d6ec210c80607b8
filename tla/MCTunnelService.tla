-------------------------- MODULE MCTunnelService --------------------------
(* Model-checking instances of TunnelService.                              *)
EXTENDS TunnelServiceInvariant
=============================================================================
