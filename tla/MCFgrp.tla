------------------------------- MODULE MCFgrp -------------------------------
(***************************************************************************)
(* Two processes, one or two channels, two descriptors a table.             *)
(***************************************************************************)
EXTENDS Fgrp, TLC

CONSTANTS p1, p2, t1, t2, t3, c1, c2, k1, k2

MCProc == {p1, p2}
MCTable == {t1, t2, t3}
MCChan == {c1, c2}
MCFile == {c1}
MCKproc == {k1, k2}
MCSymmetry == Permutations(Table) \cup Permutations(Kproc)
=============================================================================
