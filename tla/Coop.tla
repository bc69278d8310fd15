-------------------------------- MODULE Coop --------------------------------
(***************************************************************************)
(* The cooperative kernel seen from its processes: one of them runs, and    *)
(* until it leaves the processor nothing but it and the clock changes the   *)
(* table.  A step is one operation of kernel/src/proc.rs by the running     *)
(* process, the process leaving, the kernel entering another, or a wakeup   *)
(* made by an interrupt.                                                    *)
(*                                                                         *)
(* This is what the scheduler promises the devices: every Ready process may *)
(* be the next to run, and no other.  Module Sched implements it with the   *)
(* run queues.                                                              *)
(***************************************************************************)
EXTENDS Procs

\* Guard[r] is who may sleep on r: the process the Rendez is a field of
\* (up->sleep, up->waitr, its RPC, its semaphore), or whoever holds the QLock
\* that serialises a queue's readers or writers (rlock for rr, wlock for wr,
\* kbd's, clunkq's).
CONSTANT Guard

ASSUME GuardAssumption == /\ Guard \in [Rid -> Proc \cup Qlk]
                          /\ Proc \cap Qlk = {}

VARIABLES procs,    \* Procs: the table
          holder    \* who holds each QLock (a history variable: the code
                    \* keeps only that it is locked, the holder knows)

coopvars == <<procs, holder>>

Holds(p) == \E l \in Qlk : holder[l] = p

MaySleepOn(p, r) ==
    \/ Guard[r] = p
    \/ Guard[r] \in Qlk /\ holder[Guard[r]] = p

\* Who a wakeup of r readies, and who a qunlock of l.
Sleeper(r) == IF CanWake(procs, r) THEN procs.p[r] ELSE NoProc
Waiter(l) == IF procs.lock[l].q = <<>> THEN NoProc ELSE Head(procs.lock[l].q)

\* The first process runs; it makes the others.
CoopInit ==
    /\ \E p \in Proc : procs = InitTable(p, {})
    /\ holder = [l \in Qlk |-> NoProc]
-----------------------------------------------------------------------------
SleepOn(p, r, happened) ==
    /\ IsRunning(procs, p)
    /\ MaySleepOn(p, r)
    /\ procs' = Sleep(procs, p, r, happened)
    /\ UNCHANGED holder

SleepTimed(p, r, happened) ==
    /\ IsRunning(procs, p)
    /\ MaySleepOn(p, r)
    /\ procs' = Tsleep(procs, p, r, happened)
    /\ UNCHANGED holder

WakeupOn(p, r) ==
    /\ IsRunning(procs, p)
    /\ CanWake(procs, r)
    /\ procs' = Wakeup(procs, r)
    /\ UNCHANGED holder

\* No process asks for a QLock it holds.
LockFor(p, l) ==
    /\ IsRunning(procs, p)
    /\ holder[l] # p
    /\ procs' = Qlock(procs, l, p)
    /\ holder' = IF procs.lock[l].locked THEN holder
                 ELSE [holder EXCEPT ![l] = p]

Unlock(p, l) ==
    /\ IsRunning(procs, p)
    /\ holder[l] = p
    /\ procs' = Qunlock(procs, l)
    /\ holder' = [holder EXCEPT ![l] =
                    IF procs.lock[l].q = <<>> THEN NoProc
                    ELSE Head(procs.lock[l].q)]

\* A note from the running process, from alarmkproc or through /proc: to any
\* process that is in the table.
Note(p, q) ==
    /\ IsRunning(procs, p)
    /\ procs.state[q] # "Dead"
    /\ procs' = Postnote(procs, q)
    /\ UNCHANGED holder

\* The call asks interrupted(), or notify hands the note to the handler.
TakeNote(p) ==
    /\ IsRunning(procs, p)
    /\ procs.notepending[p]
    /\ procs' = Interrupted(procs, p)
    /\ UNCHANGED holder
-----------------------------------------------------------------------------
\* The first of a pair waits in rendezvous(2), and holds no lock there ...
WaitRendezvous(p) ==
    /\ IsRunning(procs, p)
    /\ ~Holds(p)
    /\ procs' = Setstate(procs, p, "Rendezvous")
    /\ UNCHANGED holder

\* ... until the second comes.
MeetRendezvous(p, q) ==
    /\ IsRunning(procs, p)
    /\ procs.state[q] = "Rendezvous"
    /\ procs' = Ready(procs, q)
    /\ UNCHANGED holder

\* procctl at the end of a call: stop, and tell the debugger asleep on r.
Stop(p, r) ==
    /\ IsRunning(procs, p)
    /\ ~Holds(p)
    /\ procs' = Wakeup(Setstate(procs, p, "Stopped"), r)
    /\ UNCHANGED holder

\* ctl's start.
Start(p, q) ==
    /\ IsRunning(procs, p)
    /\ procs.state[q] = "Stopped"
    /\ procs' = Ready(procs, q)
    /\ UNCHANGED holder

\* ctl's kill of a Stopped process: the note, and it is started to take it.
\* (Of another process, kill is its note.)
KillStopped(p, q) ==
    /\ IsRunning(procs, p)
    /\ procs.state[q] = "Stopped"
    /\ procs' = Ready(Postnote(procs, q), q)
    /\ UNCHANGED holder

\* rfork and kproc.
Fork(p, q) ==
    /\ IsRunning(procs, p)
    /\ procs.state[q] = "Dead"
    /\ procs' = Newproc(procs, q)
    /\ UNCHANGED holder

\* pexit's end: exits, which wakes the parent asleep on r, and addbroken.
Exit(p, s, r) ==
    /\ IsRunning(procs, p)
    /\ ~Holds(p)
    /\ s \in {"Moribund", "Broken"}
    /\ procs' = Wakeup(Setstate(procs, p, s), r)
    /\ UNCHANGED holder

\* unbreak, and addbroken's letting go of the oldest.
Unbreak(p, q) ==
    /\ IsRunning(procs, p)
    /\ procs.state[q] = "Broken"
    /\ procs' = Setstate(procs, q, "Dead")
    /\ UNCHANGED holder
-----------------------------------------------------------------------------
\* schedinit: the process gave the processor up, asleep or not.
Leave(p) ==
    /\ procs.up = p
    /\ procs' = Left(procs, p)
    /\ UNCHANGED holder

\* sched: any Ready process.
Dispatch(p) ==
    /\ procs.up = NoProc
    /\ procs.state[p] = "Ready"
    /\ procs' = Enter(procs, p)
    /\ UNCHANGED holder

\* The clock interrupts a program, or the idle loop; never a call.
NotInCall == \A p \in Proc : procs.up = p => procs.state[p] = "Running"

\* twakeup: the timer of a tsleep is due.
TimerWake(p) ==
    /\ NotInCall
    /\ procs.state[p] = "Wakeme"
    /\ procs.twhen[p]
    /\ procs' = Wakeup(procs, procs.r[p])
    /\ UNCHANGED holder

\* The clock takes in the keyboard, a server's reply, a due alarm.
DeviceWake(r) ==
    /\ NotInCall
    /\ CanWake(procs, r)
    /\ procs' = Wakeup(procs, r)
    /\ UNCHANGED holder
-----------------------------------------------------------------------------
CoopProc(p) ==
    \/ \E r \in Rid, happened \in BOOLEAN :
          SleepOn(p, r, happened) \/ SleepTimed(p, r, happened)
    \/ \E r \in Rid : WakeupOn(p, r) \/ Stop(p, r)
    \/ \E r \in Rid, s \in State : Exit(p, s, r)
    \/ \E l \in Qlk : LockFor(p, l) \/ Unlock(p, l)
    \/ \E q \in Proc : \/ Note(p, q) \/ MeetRendezvous(p, q) \/ Start(p, q)
                       \/ KillStopped(p, q) \/ Fork(p, q) \/ Unbreak(p, q)
    \/ TakeNote(p) \/ WaitRendezvous(p) \/ Leave(p)

CoopNext ==
    \/ \E p \in Proc : CoopProc(p) \/ Dispatch(p) \/ TimerWake(p)
    \/ \E r \in Rid : DeviceWake(r)

CoopSpec == CoopInit /\ [][CoopNext]_coopvars
-----------------------------------------------------------------------------
\* The table and the holders are what their declarations say.
CoopTypeOK ==
    /\ procs \in Table
    /\ holder \in [Qlk -> Proc \cup {NoProc}]

\* wakeup's check never fails: a Rendez names a process only while that process
\* is asleep on it, and a sleeping process is named by the Rendez it is on, so
\* that a wakeup, a note or a timer finds it.
RendezPaired == Paired(procs)

\* "two processes may not sleep on one Rendez": the lock that serialises the
\* sleepers of a queue is enough, whatever notes, timers and hand-overs do.
NoDoubleSleep == ~procs.doublesleep

\* A note that comes before the sleep is not slept on, and one that comes after
\* ends it: no process is asleep with a note pending.
NoteEndsSleep == NoteSeen(procs)

\* qlock and qunlock: a lock is locked exactly while someone holds it; who is
\* Queueing waits once, for one lock, and the holder is not among the waiting.
Held ==
    \A l \in Qlk :
       /\ procs.lock[l].locked <=> holder[l] # NoProc
       /\ \A i \in DOMAIN procs.lock[l].q : procs.lock[l].q[i] # holder[l]

LockQueues == Queued(procs) /\ Held

\* Who is asleep on a Rendez is who may sleep on it: a queue's lock stays with
\* the sleeper.
Guarded == \A r \in Rid : procs.p[r] # NoProc => MaySleepOn(procs.p[r], r)

\* The inductive invariant: what the table keeps by itself, and what the use of
\* the locks adds.
CoopInv ==
    /\ Sound(procs)
    /\ holder \in [Qlk -> Proc \cup {NoProc}]
    /\ NoDoubleSleep
    /\ Held
    /\ Guarded
=============================================================================
