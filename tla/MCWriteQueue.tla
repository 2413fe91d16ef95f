---------------------------- MODULE MCWriteQueue ----------------------------
(* Three calls of Submit, on a channel with room for fewer. *)
EXTENDS WriteQueue

CONSTANTS c1, c2, c3
=============================================================================
