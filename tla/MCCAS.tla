------------------------------- MODULE MCCAS -------------------------------
(* Three puts, two deletes and a reader on two hashes of one directory. *)
EXTENDS CAS

CONSTANTS p1, p2, p3, e1, e2, r1, h1, h2, d1

MCDirOf == [h \in Hash |-> d1]
=============================================================================
