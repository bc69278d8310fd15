------------------------------- MODULE Sched -------------------------------
(***************************************************************************)
(* The scheduler of kernel/src/proc.rs: the run queues, one for each        *)
(* priority, m->readied, and the clock's part in them.  Each step of the    *)
(* cooperative kernel (module Coop) is taken here together with what ready  *)
(* does to the queues, and sched's choice is runproc's.                     *)
(*                                                                         *)
(* How much processor each process has had, and the load, are not kept:     *)
(* reprioritize answers any priority up to the process's base priority.     *)
(***************************************************************************)
EXTENDS Coop, FiniteSets, Functions

CONSTANTS Npriq,      \* the priorities are 0 .. Npriq-1
          PriNormal,  \* the base priority of the first process
          PriKproc,   \* and of a kernel process
          AlarmRid    \* the Rendez alarmkproc sleeps on

ASSUME PriAssumption == /\ Npriq \in Nat
                        /\ PriNormal \in 0 .. (Npriq - 1)
                        /\ PriKproc \in 0 .. (Npriq - 1)
                        /\ AlarmRid \in Rid
                        /\ IsFiniteSet(Proc)

\* The two queues above the priorities are edf's, and nothing here is edf.
Nrq == Npriq + 2
Pri == 0 .. (Npriq - 1)
Rq == 0 .. (Nrq - 1)

VARIABLES runq,      \* runq[pri], the Ready processes of that priority
          nrdy,      \* how many there are
          readied,   \* m->readied: made ready since the last switch
          priority, basepri,
          clock,     \* where the clock interrupt is: "off" outside one
          due,       \* the sleepers timerintr found due and has not woken
          rb         \* the queue rebalance is at

queuevars == <<runq, nrdy, readied, priority, basepri>>
clockvars == <<clock, due, rb>>
vars == <<procs, holder, queuevars, clockvars>>

Init ==
    /\ CoopInit
    /\ runq = [i \in Rq |-> <<>>]
    /\ nrdy = 0
    /\ readied = NoProc
    /\ priority = [p \in Proc |-> PriNormal]
    /\ basepri = [p \in Proc |-> PriNormal]
    /\ clock = "off"
    /\ due = {}
    /\ rb = 0
-----------------------------------------------------------------------------
\* ready, on the queues: the tail of the queue of the priority reprioritize
\* answers, and m->readied unless a process readies itself.
Queueproc(p, base) ==
    \E pri \in 0 .. base[p] :
       /\ runq' = [runq EXCEPT ![pri] = Append(@, p)]
       /\ nrdy' = nrdy + 1
       /\ readied' = IF procs.up # p THEN p ELSE readied
       /\ priority' = [priority EXCEPT ![p] = pri]
       /\ basepri' = base

ReadiesNone == UNCHANGED queuevars
Readies(p) == IF p = NoProc THEN ReadiesNone ELSE Queueproc(p, basepri)

\* The running process does what readies nobody ...
Quietly(p) ==
    /\ \/ \E r \in Rid, happened \in BOOLEAN :
             SleepOn(p, r, happened) \/ SleepTimed(p, r, happened)
       \/ \E q \in Proc : Unbreak(p, q)
       \/ \E l \in Qlk : LockFor(p, l)
       \/ TakeNote(p)
       \/ WaitRendezvous(p)
    /\ ReadiesNone

\* ... or readies one other.
Waking(p) ==
    \/ \E r \in Rid : (WakeupOn(p, r) \/ Stop(p, r)) /\ Readies(Sleeper(r))
    \/ \E l \in Qlk : Unlock(p, l) /\ Readies(Waiter(l))
    \/ \E q \in Proc :
          Note(p, q) /\ Readies(IF NoteWakes(procs, q) THEN q ELSE NoProc)
    \/ \E q \in Proc :
          /\ MeetRendezvous(p, q) \/ Start(p, q) \/ KillStopped(p, q)
          /\ Readies(q)

\* A child has its parent's base priority, a kernel process its own.
Forking(p) ==
    \E q \in Proc, pri \in {basepri[p], PriKproc} :
       Fork(p, q) /\ Queueproc(q, [basepri EXCEPT ![q] = pri])

\* exits: nothing is to be entered that has exited, and the parent is woken.
Exiting(p) ==
    \E r \in Rid, s \in State :
       /\ Exit(p, s, r)
       /\ IF Sleeper(r) = NoProc
          THEN /\ readied' = IF readied = p THEN NoProc ELSE readied
               /\ UNCHANGED <<runq, nrdy, priority, basepri>>
          ELSE Queueproc(Sleeper(r), basepri)

\* ctl's pri: at once, on whatever queue the process is.
Procpriority(p) ==
    /\ IsRunning(procs, p)
    /\ \E q \in Proc, pri \in Pri :
          /\ basepri' = [basepri EXCEPT ![q] = pri]
          /\ priority' = [priority EXCEPT ![q] = pri]
    /\ UNCHANGED <<procs, holder, runq, nrdy, readied>>

\* (Mutant: schedinit readies whoever left.)
MutLeaving(p) == Leave(p) /\ Readies(p)

\* schedinit: a process that left Running goes back on a queue.
Leaving(p) ==
    /\ Leave(p)
    /\ Readies(IF procs.state[p] = "Running" THEN p ELSE NoProc)
-----------------------------------------------------------------------------
\* dequeueproc(pri, p), for a p that is on runq[pri].
Dequeueproc(pri, p) == [runq EXCEPT ![pri] = Withdraw(@, p)]

NoEdf == runq[Nrq - 1] = <<>> /\ runq[Nrq - 2] = <<>>

\* (Mutant: runproc passes m->readied over when a higher queue is not empty.)
MutTakesReadied ==
    /\ readied # NoProc
    /\ procs.state[readied] = "Ready"
    /\ readied \in Range(runq[priority[readied]])
    /\ \A i \in Rq : i > priority[readied] => runq[i] = <<>>

\* runproc takes m->readied if it is where its priority says ...
TakesReadied ==
    /\ NoEdf
    /\ readied # NoProc
    /\ procs.state[readied] = "Ready"
    /\ readied \in Range(runq[priority[readied]])

\* (Mutant: runproc looks from the lowest queue up.)
MutHighest(i) == /\ runq[i] # <<>>
                 /\ \A j \in Rq : j < i => runq[j] = <<>>

\* ... or the head of the highest queue that is not empty.
Highest(i) == /\ runq[i] # <<>>
              /\ \A j \in Rq : j > i => runq[j] = <<>>

Runproc(i, p) ==
    \/ TakesReadied /\ p = readied /\ i = priority[p]
    \/ ~TakesReadied /\ Highest(i) /\ p = Head(runq[i])

\* (Mutant: sched does not clear m->readied.)
MutEntering(p) ==
    /\ procs.up = NoProc
    /\ \E i \in Rq, pri \in 0 .. basepri[p] :
          /\ Runproc(i, p)
          /\ runq' = Dequeueproc(i, p)
          /\ priority' = [priority EXCEPT ![p] = pri]
    /\ nrdy' = nrdy - 1
    /\ procs' = Enter(procs, p)
    /\ UNCHANGED <<holder, readied, basepri>>

\* sched: enter it.
Entering(p) ==
    /\ procs.up = NoProc
    /\ \E i \in Rq, pri \in 0 .. basepri[p] :
          /\ Runproc(i, p)
          /\ runq' = Dequeueproc(i, p)
          /\ priority' = [priority EXCEPT ![p] = pri]
    /\ nrdy' = nrdy - 1
    /\ readied' = NoProc
    /\ procs' = Enter(procs, p)
    /\ UNCHANGED <<holder, basepri>>
-----------------------------------------------------------------------------
\* The clock's interrupt is taken in a program, at the end of a call, or in the
\* idle loop.
Interruptible ==
    /\ NotInCall
    /\ procs.up = NoProc => \A i \in Rq : runq[i] = <<>>

\* timerintr: which sleepers are due.
ClockStart ==
    /\ clock = "off"
    /\ Interruptible
    /\ clock' = "timers"
    /\ due' \in SUBSET {p \in Proc : procs.state[p] = "Wakeme" /\ procs.twhen[p]}
    /\ UNCHANGED <<procs, holder, queuevars, rb>>

\* twakeup for each of them.
ClockWake(p) ==
    /\ clock = "timers"
    /\ p \in due
    /\ due' = due \ {p}
    /\ TimerWake(p)
    /\ Readies(p)
    /\ UNCHANGED <<clock, rb>>

\* hzclock, if the HZ clock is due: checkalarms, then hzsched if a process is
\* running, which begins with rebalance once a second.
Hzclock ==
    /\ clock = "timers"
    /\ due = {}
    /\ \/ UNCHANGED <<procs, holder>> /\ ReadiesNone
       \/ DeviceWake(AlarmRid) /\ Readies(Sleeper(AlarmRid))
    /\ clock' \in IF procs.up = NoProc THEN {"off"}
                  ELSE {"off", "rebalance", "hzsched"}
    /\ UNCHANGED <<due, rb>>

\* rebalance at queue rb: its head again, while that moves to another queue.
Rebalance ==
    /\ clock = "rebalance"
    /\ rb < Npriq
    /\ \/ /\ runq[rb] # <<>> => rb <= basepri[Head(runq[rb])]
          /\ rb' = rb + 1
          /\ UNCHANGED queuevars
       \/ /\ runq[rb] # <<>>
          /\ LET p == Head(runq[rb])
             IN  /\ basepri[p] # rb
                 /\ \E pri \in (0 .. basepri[p]) \ {rb} :
                       /\ runq' = [Dequeueproc(rb, p) EXCEPT
                                     ![pri] = Append(@, p)]
                       /\ priority' = [priority EXCEPT ![p] = pri]
          /\ UNCHANGED <<nrdy, readied, basepri, rb>>
    /\ UNCHANGED <<procs, holder, clock, due>>

Rebalanced ==
    /\ clock = "rebalance"
    /\ rb = Npriq
    /\ clock' = "hzsched"
    /\ rb' = 0
    /\ UNCHANGED <<procs, holder, queuevars, due>>

Anyhigher(p) == \E i \in Rq : i > priority[p] /\ runq[i] # <<>>

\* hzsched: the running process is to give way to a higher one, or, its 100ms
\* over, to any; and then m->readied does not count.
Hzsched ==
    /\ clock = "hzsched"
    /\ readied' \in IF Anyhigher(procs.up) THEN {NoProc}
                    ELSE IF nrdy > 0 THEN {NoProc, readied}
                    ELSE {readied}
    /\ clock' = "off"
    /\ UNCHANGED <<procs, holder, runq, nrdy, priority, basepri, due, rb>>

\* And after it the keyboard and the servers the machine provides.
DeviceIntr(r) ==
    /\ Interruptible
    /\ DeviceWake(r)
    /\ Readies(Sleeper(r))
-----------------------------------------------------------------------------
Next ==
    \/ /\ clock = "off"
       /\ \/ \E p \in Proc : \/ Quietly(p) \/ Waking(p) \/ Forking(p)
                             \/ Exiting(p) \/ Procpriority(p)
                             \/ Leaving(p) \/ Entering(p)
          \/ \E r \in Rid : DeviceIntr(r)
       /\ UNCHANGED clockvars
    \/ ClockStart
    \/ \E p \in Proc : ClockWake(p)
    \/ Hzclock \/ Rebalance \/ Rebalanced \/ Hzsched

Spec == Init /\ [][Next]_vars
-----------------------------------------------------------------------------
\* The scheduler's variables are what their declarations say.
TypeOK ==
    /\ CoopTypeOK
    /\ runq \in [Rq -> Seq(Proc)]
    /\ nrdy \in Nat
    /\ readied \in Proc \cup {NoProc}
    /\ priority \in [Proc -> Pri]
    /\ basepri \in [Proc -> Pri]
    /\ clock \in {"off", "timers", "rebalance", "hzsched"}
    /\ due \in SUBSET Proc
    /\ rb \in 0 .. Npriq

\* "a process is on exactly one of them when it is Ready" (Procs::runq), and on
\* none when it is not: none is lost and none is entered twice.
RunqOnce ==
    /\ \A p \in Proc : procs.state[p] = "Ready" <=>
          \E i \in Rq : \E n \in DOMAIN runq[i] : runq[i][n] = p
    /\ \A i, j \in Rq : \A n \in DOMAIN runq[i] : \A m \in DOMAIN runq[j] :
          runq[i][n] = runq[j][m] => i = j /\ n = m

\* nrdy, which anyready and the load read, is how many are Ready.
NrdyCounts == nrdy = Cardinality({p \in Proc : procs.state[p] = "Ready"})

\* m->readied is never a process that has run, slept or exited since: runproc
\* finds it on a queue.
ReadiedIsReady == readied # NoProc => procs.state[readied] = "Ready"

\* The run queues, their count, m->readied and the states of the processes say
\* the same, through every wakeup, note, exit, ctl's pri and rebalance.
QueuesAgree == TypeOK /\ RunqOnce /\ NrdyCounts /\ ReadiedIsReady

\* "cooperative scheduling until the clock ticks": a process just made ready is
\* entered next, whatever the others' priorities, unless ctl's pri has taken its
\* priority away from the queue it is on.
HandsOver ==
    [][ /\ procs.up = NoProc /\ procs'.up # NoProc
        /\ readied # NoProc
        /\ readied \in Range(runq[priority[readied]])
        => procs'.up = readied ]_vars

\* Otherwise nobody is entered while a process of a higher queue waits.
HighestFirst ==
    [][ /\ procs.up = NoProc /\ procs'.up # NoProc
        /\ procs'.up # readied
        => \A i \in Rq : runq'[i] # <<>> =>
              \E j \in Rq : i <= j /\ procs'.up \in Range(runq[j]) ]_vars

\* The run queues implement the choice the devices are told of.
Cooperates == CoopSpec
=============================================================================
