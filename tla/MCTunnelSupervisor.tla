------------------------- MODULE MCTunnelSupervisor -------------------------
(* A small instance of TunnelSupervisor; the bounds are in the cfg.         *)
EXTENDS TunnelSupervisor
=============================================================================
