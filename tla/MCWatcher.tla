----------------------------- MODULE MCWatcher -----------------------------
(***************************************************************************)
(* Small instances of Watcher for TLC.                                     *)
(***************************************************************************)
EXTENDS Watcher
=============================================================================
