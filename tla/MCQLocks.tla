------------------------------ MODULE MCQLocks ------------------------------
(***************************************************************************)
(* Three processes and a QLp for each.                                      *)
(***************************************************************************)
EXTENDS QLocks

CONSTANTS p1, p2, p3, z1, z2, z3

MCProc == {p1, p2, p3}
MCTag == {z1, z2, z3}
=============================================================================
