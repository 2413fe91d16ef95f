---------------------------- MODULE MCConfigFile ----------------------------
(***************************************************************************)
(* A small instance of ConfigFile for TLC.                                 *)
(***************************************************************************)
EXTENDS ConfigFile
=============================================================================
