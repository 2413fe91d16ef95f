---------------------------- MODULE MCTunnelHub ----------------------------
(* Two sessions of one client and two calls. *)
EXTENDS TunnelHub

CONSTANTS q1, q2
=============================================================================
