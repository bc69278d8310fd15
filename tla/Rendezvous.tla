----------------------------- MODULE Rendezvous -----------------------------
(***************************************************************************)
(* rendezvous(2) (kernel/src/lib.rs, Call::Rendezvous): two processes of a  *)
(* rendezvous group that name the same tag exchange a value each.  The      *)
(* first to come waits in the group; the second takes it out, leaves its    *)
(* value and readies it.  A note pulls a process out with the value ~0.     *)
(*                                                                         *)
(* As in module Sema, a step enters a Ready process and leaves it, and the  *)
(* answer of a call is a parameter of its action.                           *)
(***************************************************************************)
EXTENDS Procs, Functions, FiniteSets

CONSTANTS Tag,      \* the tags: addresses of the programs' memory
          Val,      \* the values exchanged
          NoTag,    \* not in rendezvous
          Broken0   \* the value ~0

ASSUME TagAssumption == NoTag \notin Tag /\ Broken0 \notin Val

VARIABLES procs,    \* Procs: the table
          rgrp,     \* the group's processes that wait, oldest first
          rendtag,  \* the tag of a process inside the call
          rendval   \* the value it brought, and then the one it was left

rendvars == <<procs, rgrp, rendtag, rendval>>

MayRun(p) == procs.up = NoProc /\ procs.state[p] = "Ready"

RendInit ==
    /\ procs = InitTable(NoProc, Proc)
    /\ rgrp = <<>>
    /\ rendtag = [p \in Proc |-> NoTag]
    /\ rendval = [p \in Proc |-> Broken0]
-----------------------------------------------------------------------------
\* The first in the group that waits with the tag: swap values, ready it.
Meet(p, tag, val, answer) ==
    \E i \in DOMAIN rgrp :
       LET q == rgrp[i] IN
       /\ rendtag[q] = tag
       /\ \A j \in 1..(i - 1) : rendtag[rgrp[j]] # tag
       /\ answer = rendval[q]
       /\ rgrp' = DeleteAt(rgrp, i)
       /\ rendval' = [rendval EXCEPT ![q] = val]
       /\ procs' = Ready(procs, q)
       /\ UNCHANGED rendtag

\* Nobody waits with it: wait to be found.
Await(p, tag, val) ==
    /\ \A i \in DOMAIN rgrp : rendtag[rgrp[i]] # tag
    /\ rendtag' = [rendtag EXCEPT ![p] = tag]
    /\ rendval' = [rendval EXCEPT ![p] = val]
    /\ rgrp' = Append(rgrp, p)
    /\ procs' = Left(Setstate(Enter(procs, p), p, "Rendezvous"), p)

Rendezvous(p, tag, val, answer) ==
    /\ MayRun(p)
    /\ rendtag[p] = NoTag
    /\ \/ Meet(p, tag, val, answer)
       \/ answer = "asleep" /\ Await(p, tag, val)

\* The rest of the call, when the process is entered again: rendval is the
\* answer (the two fields are reset here: they are not looked at outside the
\* call), and a note that is pending goes to the handler at the call's end.
Return(p, answer) ==
    /\ MayRun(p)
    /\ rendtag[p] # NoTag
    /\ answer = rendval[p]
    /\ rendtag' = [rendtag EXCEPT ![p] = NoTag]
    /\ rendval' = [rendval EXCEPT ![p] = Broken0]
    /\ procs' = Interrupted(procs, p)
    /\ UNCHANGED rgrp

\* postnote to a process in rendezvous pulls it out.  (It is in the group, and
\* once: NonePassedBy.)
PullOut(p) ==
    /\ procs.state[p] = "Rendezvous"
    /\ procs' = Postnote(procs, p)
    /\ rendval' = [rendval EXCEPT ![p] = Broken0]
    /\ rgrp' = Withdraw(rgrp, p)
    /\ UNCHANGED rendtag
-----------------------------------------------------------------------------
RendTypeOK ==
    /\ procs \in Table
    /\ rgrp \in Seq(Proc)
    /\ rendtag \in [Proc -> Tag \cup {NoTag}]
    /\ rendval \in [Proc -> Val \cup {Broken0}]

\* The group is the processes in state Rendezvous, each once, and no two of
\* them wait with the same tag: the second would have found the first.
NonePassedBy ==
    /\ \A p \in Proc : procs.state[p] = "Rendezvous" <=> p \in Range(rgrp)
    /\ \A i, j \in DOMAIN rgrp : rendtag[rgrp[i]] = rendtag[rgrp[j]] => i = j
=============================================================================
