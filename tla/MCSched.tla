------------------------------ MODULE MCSched ------------------------------
(***************************************************************************)
(* Three processes, two priorities, a QLock, a Rendez of the first          *)
(* process's own and one whose sleepers the lock serialises.                *)
(***************************************************************************)
EXTENDS Sched, TLC

CONSTANTS p1, p2, p3, own, shared, lk

MCProc == {p1, p2, p3}
MCRid == {own, shared}
MCQlk == {lk}
MCGuard == [r \in MCRid |-> IF r = own THEN p1 ELSE lk]
MCSymmetry == Permutations({p2, p3})

\* A priority counts while its process is Ready or running: ready and sched set
\* it anew.  A base priority counts while there is a process: rfork sets it.
MCView ==
    <<procs, holder, runq, nrdy, readied, clock, due, rb,
      [p \in Proc |-> IF procs.state[p] \in {"Ready", "Running"}
                      THEN priority[p] ELSE 0],
      [p \in Proc |-> IF procs.state[p] \in {"Dead", "Moribund", "Broken"}
                      THEN 0 ELSE basepri[p]]>>
=============================================================================
