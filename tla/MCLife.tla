------------------------------- MODULE MCLife -------------------------------
(***************************************************************************)
(* Three processes.                                                         *)
(***************************************************************************)
EXTENDS Life, TLC

CONSTANTS p1, p2, p3

MCProc == {p1, p2, p3}
MCBudgets == {<<2, 0>>, <<1, 2>>}
MCLeads == {p1}
MCSymmetry == Permutations({p2, p3})
MCRid == MCProc \X {"Sleep", "Waitr"}

\* Of a process that has ended nobody looks at its notes, its handler or what
\* is asked of it, and of one that left the table, or whose parent ended, not
\* whose child it was.  No handler ever has an NDebug note, so that lastnote
\* ends every process alike.  A process that sleeps is named by its Rendez.
MCView ==
    <<[p \in Proc |->
         IF k.label[p] = "gone"
         THEN <<k.t.state[p], k.label[p],
                IF p \in k.tab THEN k.pdbg[p] ELSE NoProc>>
         ELSE <<k.t.state[p], k.label[p], k.pdbg[p], k.stopwait[p],
                k.t.notepending[p], k.note[p], k.handler[p], k.notified[p],
                k.procctl[p]>>],
      [p \in k.tab |-> IF k.ppid[p] # NoProc /\ k.status[k.ppid[p]]
                       THEN <<>> ELSE <<k.ppid[p], k.waited[p]>>],
      k.t.p, k.status, k.broken,
      {p \in k.heir : ~k.status[p]},
      {p \in k.robbed : ~k.status[p]},
      {p \in k.unclean : k.label[p] # "gone"}, posts>>
=============================================================================
