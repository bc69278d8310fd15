------------------------------- MODULE MCLock -------------------------------
(***************************************************************************)
(* Two or three processes, a Lock, and a semaphore of their own.            *)
(***************************************************************************)
EXTENDS Lock, TLC

CONSTANTS p1, p2, p3

MCProc == {p1, p2, p3}
MCRid == {Phore(p) : p \in MCProc}
MCSymmetry == Permutations(MCProc)
=============================================================================
