------------------------------- MODULE Procs -------------------------------
(***************************************************************************)
(* The part of the process table that decides who may run: the operations  *)
(* of kernel/src/proc.rs on a process's state, on the Rendez it sleeps on,  *)
(* on the sleeping locks and on the note that is pending for it.            *)
(*                                                                         *)
(* Every operator takes the table t and answers the table the code leaves,  *)
(* so that a call which sleeps, wakes and unlocks in one go is one          *)
(* expression.  Which process of the Ready ones runs next is not said here: *)
(* module Sched adds the run queues, and the modules of the devices let any *)
(* Ready process be the next.                                               *)
(***************************************************************************)
EXTENDS Naturals, Sequences

CONSTANTS Proc,     \* the pids
          Rid,      \* the Rendez: a queue's rr and wr, a process's own, ...
          Qlk,      \* the QLocks
          NoProc,   \* None, where a pid is expected
          NoRid     \* None, where a Rendez is expected

ASSUME NoneAssumption == NoProc \notin Proc /\ NoRid \notin Rid

\* The states a process is seen in.  Scheding lasts only inside runproc and
\* inside rfork; QueueingR, QueueingW and Waitrelease are never set.
State == {"Dead", "Moribund", "Ready", "Running", "Queueing", "Wakeme",
          "Broken", "Stopped", "Rendezvous"}

\* twhen says that a timer is armed for the sleep, not when it is due.
\* doublesleep is the code's counter, kept as "has it ever counted".
Table == [state       : [Proc -> State],
          r           : [Proc -> Rid \cup {NoRid}],
          twhen       : [Proc -> BOOLEAN],
          notepending : [Proc -> BOOLEAN],
          p           : [Rid -> Proc \cup {NoProc}],
          lock        : [Qlk -> [locked : BOOLEAN, q : Seq(Proc)]],
          up          : Proc \cup {NoProc},
          doublesleep : BOOLEAN]

\* Some of the pids are processes, the first of them running.
InitTable(running, others) ==
    [state       |-> [p \in Proc |-> IF p = running THEN "Running"
                                     ELSE IF p \in others THEN "Ready"
                                     ELSE "Dead"],
     r           |-> [p \in Proc |-> NoRid],
     twhen       |-> [p \in Proc |-> FALSE],
     notepending |-> [p \in Proc |-> FALSE],
     p           |-> [r \in Rid |-> NoProc],
     lock        |-> [l \in Qlk |-> [locked |-> FALSE, q |-> <<>>]],
     up          |-> running,
     doublesleep |-> FALSE]

\* The sequence s without its i-th element, and without x, which it holds once.
DeleteAt(s, i) == [j \in 1..(Len(s) - 1) |-> IF j < i THEN s[j] ELSE s[j + 1]]
Withdraw(s, x) == DeleteAt(s, CHOOSE i \in DOMAIN s : s[i] = x)

Setstate(t, p, s) == [t EXCEPT !.state[p] = s]

\* ready: the process may run.  (Sched says where it is queued.)
Ready(t, p) == Setstate(t, p, "Ready")

\* rfork and kproc: a new entry, made ready.
Newproc(t, p) ==
    Ready([t EXCEPT !.r[p] = NoRid, !.twhen[p] = FALSE,
                    !.notepending[p] = FALSE], p)

\* (Mutant: sleep does not look for a note.)
MutSleeps(t, p, happened) == ~happened

\* sleep commits unless the condition has happened or a note is pending.
Sleeps(t, p, happened) == ~happened /\ ~t.notepending[p]

Sleep(t, p, r, happened) ==
    LET u == [t EXCEPT !.doublesleep = @ \/ t.p[r] \notin {NoProc, p}]
    IN  IF Sleeps(t, p, happened)
        THEN [u EXCEPT !.p[r] = p, !.state[p] = "Wakeme", !.r[p] = r]
        ELSE [u EXCEPT !.p[r] = NoProc]

\* tsleep: the timer is armed before the sleep and goes when it did not commit.
Tsleep(t, p, r, happened) ==
    [Sleep(t, p, r, happened) EXCEPT !.twhen[p] = Sleeps(t, p, happened)]

\* wakeup's check, a panic in Plan 9: "wakeup: state".
CanWake(t, r) ==
    /\ t.p[r] # NoProc
    /\ t.state[t.p[r]] = "Wakeme"
    /\ t.r[t.p[r]] = r

\* (Mutant: the Rendez keeps the name of the process woken.)
MutWakeup(t, r) ==
    IF CanWake(t, r)
    THEN [t EXCEPT !.r[t.p[r]]      = NoRid,
                   !.twhen[t.p[r]]  = FALSE,
                   !.state[t.p[r]]  = "Ready"]
    ELSE t

Wakeup(t, r) ==
    IF CanWake(t, r)
    THEN [t EXCEPT !.p[r]           = NoProc,
                   !.r[t.p[r]]      = NoRid,
                   !.twhen[t.p[r]]  = FALSE,
                   !.state[t.p[r]]  = "Ready"]
    ELSE t

\* qlock: take the lock, or queue for it and leave.
Qlock(t, l, p) ==
    IF t.lock[l].locked
    THEN [t EXCEPT !.lock[l].q = Append(@, p), !.state[p] = "Queueing"]
    ELSE [t EXCEPT !.lock[l].locked = TRUE]

\* (Mutant: the lock is given up and the first who waits readied.)
MutQunlock(t, l) ==
    IF t.lock[l].q # <<>>
    THEN [t EXCEPT !.lock[l].q = Tail(@), !.lock[l].locked = FALSE,
                   !.state[Head(t.lock[l].q)] = "Ready"]
    ELSE [t EXCEPT !.lock[l].locked = FALSE]

\* qunlock: the lock stays taken and goes to the first who waits.
Qunlock(t, l) ==
    IF t.lock[l].q # <<>>
    THEN [t EXCEPT !.lock[l].q = Tail(@), !.state[Head(t.lock[l].q)] = "Ready"]
    ELSE [t EXCEPT !.lock[l].locked = FALSE]

\* postnote's wait for a wakeup is over, or its rendezvous is.
NoteWakes(t, p) ==
    \/ t.state[p] = "Wakeme" /\ t.r[p] # NoRid
    \/ t.state[p] = "Rendezvous"

\* (Mutant: the Rendez keeps the name of the process the note woke.)
MutPostnote(t, p) ==
    LET u == [t EXCEPT !.notepending[p] = TRUE]
    IN  IF t.state[p] = "Wakeme" /\ t.r[p] # NoRid
        THEN [u EXCEPT !.r[p] = NoRid, !.twhen[p] = FALSE, !.state[p] = "Ready"]
        ELSE IF t.state[p] = "Rendezvous" THEN Ready(u, p)
        ELSE u

Postnote(t, p) ==
    LET u == [t EXCEPT !.notepending[p] = TRUE]
    IN  IF t.state[p] = "Wakeme" /\ t.r[p] # NoRid
        THEN [u EXCEPT !.p[t.r[p]] = NoProc, !.r[p] = NoRid,
                       !.twhen[p] = FALSE, !.state[p] = "Ready"]
        ELSE IF t.state[p] = "Rendezvous" THEN Ready(u, p)
        ELSE u

\* interrupted: the note is taken notice of, and the call fails with Eintr.
Interrupted(t, p) == [t EXCEPT !.notepending[p] = FALSE]

\* The process left the processor: schedinit's switch on its state, and
\* nobody is up.
Left(t, p) ==
    LET s == t.state[p]
    IN  [t EXCEPT !.up = NoProc,
                  !.state[p] = CASE s = "Running"  -> "Ready"
                                 [] s = "Moribund" -> "Dead"
                                 [] OTHER          -> s]

\* sched enters p.
Enter(t, p) == [t EXCEPT !.up = p, !.state[p] = "Running"]

\* A process holds the processor and is not on its way out of it.
IsRunning(t, p) == t.up = p /\ t.state[p] = "Running"

\* Nothing is running and nothing can: runproc's idle loop.
Idle(t) == t.up = NoProc /\ \A p \in Proc : t.state[p] # "Ready"
-----------------------------------------------------------------------------
\* What the operations keep between them.

\* A Rendez names a process only while that process is asleep on it, and a
\* process that is asleep is named by the Rendez it is on.
Paired(t) ==
    /\ \A r \in Rid : t.p[r] # NoProc => CanWake(t, r)
    /\ \A p \in Proc : t.state[p] = "Wakeme" =>
          t.r[p] \in Rid /\ t.p[t.r[p]] = p
    /\ \A p \in Proc : t.r[p] # NoRid => t.state[p] = "Wakeme"

\* No process is asleep with a note pending.
NoteSeen(t) ==
    \A p \in Proc : t.state[p] = "Wakeme" => ~t.notepending[p]

\* Who is Queueing waits once, for one lock, which is locked; nobody else waits.
Waits(t, p, l, i) == i \in DOMAIN t.lock[l].q /\ t.lock[l].q[i] = p

Queued(t) ==
    /\ \A l \in Qlk : t.lock[l].q # <<>> => t.lock[l].locked
    /\ \A p \in Proc : t.state[p] = "Queueing" <=>
          \E l \in Qlk : \E i \in DOMAIN t.lock[l].q : Waits(t, p, l, i)
    /\ \A l, m \in Qlk :
          \A i \in DOMAIN t.lock[l].q, j \in DOMAIN t.lock[m].q :
             t.lock[l].q[i] = t.lock[m].q[j] => l = m /\ i = j

\* At most one process is Running, and it is up.
OneUp(t) == \A p \in Proc : t.state[p] = "Running" => t.up = p

Sound(t) == /\ t \in Table
            /\ Paired(t)
            /\ NoteSeen(t)
            /\ Queued(t)
            /\ OneUp(t)
=============================================================================
