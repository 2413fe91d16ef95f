----------------------------- MODULE MCControl -----------------------------
(***************************************************************************)
(* Two machines with one client id, and a command line on the first.       *)
(***************************************************************************)
EXTENDS Control

CONSTANTS old, new, oldDaemon, newDaemon, oldCli

MCHost == [s \in Source |-> IF s = newDaemon THEN new ELSE old]

MCFamily == [m \in Machine |-> "linux"]
=============================================================================
