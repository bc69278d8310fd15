-------------------------------- MODULE MCMux --------------------------------
(***************************************************************************)
(* Up to three processes on one wire.                                       *)
(***************************************************************************)
EXTENDS Mux

CONSTANTS p1, p2, p3

MCProc == {p1, p2, p3}
MCRid == {<<"Rr">>, <<"Wr">>} \cup {<<"Mntrpc", p>> : p \in MCProc}
MCSymmetry == Permutations(MCProc)

\* The calls c, whoever makes which.
Shared(c, n) ==
    {[calls |-> [p \in MCProc |-> c[f[p]]], notes |-> n] :
        f \in {g \in [MCProc -> 1 .. 3] : IsInjective(g)}}

\* A call of one RPC (a read, a stat).  open: the walk, the open, and the clunk
\* if that fails.  A walk that misses in the first element of a union goes on in
\* the second.
Then(fid, ok, err) == [fid |-> fid, ok |-> ok, err |-> err]
One == <<Then(FALSE, 0, 0)>>
Open == <<Then(TRUE, 2, 0), Then(FALSE, 0, 3), Then(FALSE, 0, 0)>>
Union == <<Then(TRUE, 0, 2), Then(TRUE, 0, 0)>>

\* Three processes with an RPC each and a note; two with two notes; a walk in a
\* union beside another's RPC and a note; an open and two notes.
MCPlainPlans ==
    Shared(<<<<One>>, <<One>>, <<One>>>>, 1) \cup Shared(<<<<One>>, <<One>>, <<>>>>, 2)
MCPlans ==
    MCPlainPlans
    \cup Shared(<<<<Union>>, <<One>>, <<>>>>, 1) \cup Shared(<<<<Open>>, <<>>, <<>>>>, 2)
=============================================================================
