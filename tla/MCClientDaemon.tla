-------------------------- MODULE MCClientDaemon --------------------------
(***************************************************************************)
(* Two callers of any kind, whose calls are repeated once.                 *)
(***************************************************************************)
EXTENDS ClientDaemon, TLC

MCMaxRetries == [k \in Kind |-> 1]

Symmetry == Permutations(Caller)
=============================================================================
