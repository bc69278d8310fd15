------------------------------- MODULE Alarm -------------------------------
(***************************************************************************)
(* alarm(2): the list of alarms in kernel/src/proc.rs, the clock that looks *)
(* at its head every tick, the alarm kernel process that posts the notes    *)
(* (kernel/src/lib.rs), and the idle loop that decides when there is        *)
(* nothing left to wait for.                                                *)
(*                                                                         *)
(* An alarm is kept as the ticks still to go and one: 0 is no alarm, 1 is   *)
(* due, and an alarm that is overdue stays at 1.  The first process is the  *)
(* parent of the others.                                                    *)
(***************************************************************************)
EXTENDS Procs, FiniteSets, SequencesExt

CONSTANTS Alarmkproc,   \* the alarm kernel process
          Parent,       \* the process that made the others
          Readers,      \* bound: who reads the keyboard or a server of the machine
          MaxTicks      \* bound: the longest alarm a program sets

User == Proc \ {Alarmkproc}
Alarmr == <<"Alarmr">>
Own(p) == <<"Own", p>>
Io(p) == <<"Io", p>>

ASSUME AlarmAssumption ==
    /\ Alarmkproc \in Proc /\ Parent \in User
    /\ Readers \subseteq User
    /\ Rid = {Alarmr} \cup {Own(p) : p \in User} \cup {Io(p) : p \in Readers}
    /\ MaxTicks \in Nat

VARIABLES procs,    \* Procs: the table
          tab,      \* the processes that are in it: a child is, until waited for
          alarm,    \* p->alarm
          alarms,   \* the list, the first to come first
          over      \* schedinit has returned: the system is over

vars == <<procs, tab, alarm, alarms, over>>

Init ==
    /\ procs = InitTable(Parent, Proc \ {Parent})
    /\ tab = Proc
    /\ alarm = [p \in Proc |-> 0]
    /\ alarms = <<>>
    /\ over = FALSE

\* p's program runs.
Program(p) == p \in User /\ IsRunning(procs, p) /\ ~over

Without(s, p) == SelectSeq(s, LAMBDA x : x # p)

\* (Mutant: the new alarm goes behind one of the same time and the one after.)
MutPlace(s, n) ==
    LET later == {i \in DOMAIN s : s[i] \in tab /\ alarm[s[i]] > n + 1}
    IN  IF later = {} THEN Len(s) + 1 ELSE Max(later)

\* Where procalarm puts an alarm n ticks from now: before the first that is no
\* earlier.  An entry with no alarm, or of a process that is gone, is passed.
Place(s, n) ==
    LET later == {i \in DOMAIN s : s[i] \in tab /\ alarm[s[i]] >= n + 1}
    IN  IF later = {} THEN Len(s) + 1 ELSE Min(later)

\* procalarm: 0 takes the alarm back.
Procalarm(p, n) ==
    /\ Program(p)
    /\ LET s == Without(alarms, p)
       IN  \/ /\ n = 0
              /\ alarm' = [alarm EXCEPT ![p] = 0]
              /\ alarms' = s
           \/ /\ n > 0
              /\ alarm' = [alarm EXCEPT ![p] = n + 1]
              /\ alarms' = InsertAt(s, Place(s, n), p)
    /\ UNCHANGED <<procs, tab, over>>

\* A call sleeps with no timer (a read, await) or with one (sleep(2)); it
\* returns when it is woken, by a wakeup, by its timer or by a note.  A read of
\* the keyboard or of a server of the machine is one the clock ends (Io).
Block(p, r) ==
    /\ Program(p)
    /\ procs' = IF Sleeps(procs, p, FALSE)
                THEN Left(Sleep(procs, p, r, FALSE), p)
                ELSE Interrupted(Sleep(procs, p, r, FALSE), p)
    /\ UNCHANGED <<tab, alarm, alarms, over>>

SleepTimed(p) ==
    /\ Program(p)
    /\ procs' = IF Sleeps(procs, p, FALSE)
                THEN Left(Tsleep(procs, p, Own(p), FALSE), p)
                ELSE Interrupted(Tsleep(procs, p, Own(p), FALSE), p)
    /\ UNCHANGED <<tab, alarm, alarms, over>>

Rouse(p, r) ==
    /\ Program(p)
    /\ CanWake(procs, Own(r))
    /\ procs' = Wakeup(procs, Own(r))
    /\ UNCHANGED <<tab, alarm, alarms, over>>

TakeNote(p) ==
    /\ Program(p) /\ procs.notepending[p]
    /\ procs' = Interrupted(procs, p)
    /\ UNCHANGED <<tab, alarm, alarms, over>>

Preempt(p) ==
    /\ Program(p)
    /\ procs' = Left(procs, p)
    /\ UNCHANGED <<tab, alarm, alarms, over>>

\* pexit: the alarm is cleared, but stays on the list; the parent is told.
Exit(p) ==
    /\ Program(p)
    /\ alarm' = [alarm EXCEPT ![p] = 0]
    /\ procs' = Left(Wakeup(Setstate(procs, p, "Moribund"), Own(Parent)), p)
    /\ UNCHANGED <<tab, alarms, over>>

\* await with a child that has ended: its entry goes out of the table.
Await(c) ==
    /\ Program(Parent)
    /\ c \in (tab \cap User) \ {Parent} /\ procs.state[c] = "Dead"
    /\ tab' = tab \ {c}
    /\ UNCHANGED <<procs, alarm, alarms, over>>
-----------------------------------------------------------------------------
Run(p) ==
    /\ p \in User /\ ~over
    /\ procs.up = NoProc /\ procs.state[p] = "Ready"
    /\ procs' = Enter(procs, p)
    /\ UNCHANGED <<tab, alarm, alarms, over>>

\* (Mutant: an alarm an exit cleared is one not yet due.)
MutOverdue(s) ==
    LET stays == {i \in DOMAIN s : s[i] \in tab /\ alarm[s[i]] # 1}
    IN  IF stays = {} THEN Len(s) ELSE Min(stays) - 1

\* duealarms: how many of the list's first are due, cleared or gone.
Overdue(s) ==
    LET stays == {i \in DOMAIN s : s[i] \in tab /\ alarm[s[i]] > 1}
    IN  IF stays = {} THEN Len(s) ELSE Min(stays) - 1

\* (Mutant: of several due at once only one is posted.)
MutPostAlarms(t, due) ==
    IF due = {} THEN t ELSE Postnote(t, CHOOSE p \in due : TRUE)

PostAlarms(t, due) == FoldSet(LAMBDA p, u : Postnote(u, p), t, due)

\* alarmkproc, from one sleep to the next.
RunAlarmkproc ==
    /\ ~over
    /\ procs.up = NoProc /\ procs.state[Alarmkproc] = "Ready"
    /\ LET n   == Overdue(alarms)
           due == {alarms[i] : i \in {j \in 1..n : alarms[j] \in tab
                                                   /\ alarm[alarms[j]] # 0}}
           noted == PostAlarms(Enter(procs, Alarmkproc), due)
       IN  /\ alarms' = SubSeq(alarms, n + 1, Len(alarms))
           /\ alarm' = [p \in Proc |-> IF p \in due THEN 0 ELSE alarm[p]]
           /\ procs' = Left(Sleep(noted, Alarmkproc, Alarmr, FALSE), Alarmkproc)
    /\ UNCHANGED <<tab, over>>

\* Timed sleeps are what the idle loop waits for ...
Timed == {p \in User : procs.state[p] = "Wakeme" /\ procs.twhen[p]}

\* ... and, if there are none, the keys and the replies to come: waiting().
Reading == {p \in Readers : procs.p[Io(p)] = p}

\* (Mutant: the clock looks for an alarm before it counts the tick, and only
\* for one due in that very tick.)
MutHeadDue(a) ==
    alarms # <<>> /\ Head(alarms) \in tab /\ alarm[Head(alarms)] = 2

\* checkalarms' test, a being the alarms after the tick.
HeadDue(a) == alarms # <<>> /\ Head(alarms) \in tab /\ a[Head(alarms)] <= 1

Ticked(a) == [p \in Proc |-> IF a[p] > 1 THEN a[p] - 1 ELSE a[p]]

\* timerintr and hzclock, in a program or in the idle loop: the sleeps that are
\* due end, a tick is counted, the head of the list looked at, and the keys and
\* the replies that have come are taken in.  (The reply to a read that a note
\* has ended also keeps the idle loop going.  The model does not keep track of
\* it: idle, with nobody to wait for, the clock may tick or the system be over.)
Tick ==
    /\ ~over
    /\ \/ \E p \in User : IsRunning(procs, p)
       \/ Idle(procs)
    /\ \E due \in SUBSET Timed, come \in SUBSET Reading :
          LET a == Ticked(alarm)
              t == FoldSet(LAMBDA p, u : Wakeup(u, Own(p)), procs, due)
              u == IF HeadDue(a) THEN Wakeup(t, Alarmr) ELSE t
          IN  /\ alarm' = a
              /\ procs' = FoldSet(LAMBDA p, v : Wakeup(v, Io(p)), u, come)
    /\ UNCHANGED <<tab, alarms, over>>

\* schedinit with nothing to run, no timer to wait for and no key or reply.
IsOver ==
    /\ ~over
    /\ Idle(procs) /\ Timed = {} /\ Reading = {}
    /\ over' = TRUE
    /\ UNCHANGED <<procs, tab, alarm, alarms>>

Next ==
    \/ \E p \in User :
          \/ \E n \in 0..MaxTicks : Procalarm(p, n)
          \/ Block(p, Own(p)) \/ SleepTimed(p) \/ TakeNote(p) \/ Preempt(p) \/ Exit(p)
          \/ p \in Readers /\ Block(p, Io(p))
          \/ \E r \in User : Rouse(p, r)
          \/ Await(p) \/ Run(p)
    \/ RunAlarmkproc \/ Tick \/ IsOver

Spec == Init /\ [][Next]_vars

\* The clock ticks whatever the programs do, and takes the processor from one
\* in the end; some Ready process is entered, and the alarm process, which is
\* of higher priority than any program, in the end.
Fairness ==
    /\ SF_vars(Tick)
    /\ SF_vars(RunAlarmkproc)
    /\ WF_vars(\E p \in User : Run(p) \/ Preempt(p))

FairSpec == Spec /\ Fairness
-----------------------------------------------------------------------------
\* The table, the alarms and the list are what their declarations say.
TypeOK ==
    /\ procs \in Table
    /\ tab \subseteq Proc
    /\ alarm \in [Proc -> 0..(MaxTicks + 1)]
    /\ alarms \in Seq(User)
    /\ over \in BOOLEAN

\* The list is in order (procalarm's insertion, duealarms' removal): every alarm
\* that is set is on it once, and those that are set come in the order of their
\* times, also between entries that an exit cleared or a wait orphaned.  (And
\* every variable keeps its type.)
AlarmsInOrder ==
    /\ TypeOK
    /\ \A p \in User : alarm[p] # 0 => \E i \in DOMAIN alarms : alarms[i] = p
    /\ \A i, j \in DOMAIN alarms :
          i < j => /\ alarms[i] # alarms[j]
                   /\ alarm[alarms[i]] # 0 /\ alarm[alarms[j]] # 0 =>
                         alarm[alarms[i]] <= alarm[alarms[j]]

\* "post "alarm" to every process whose alarm is due" (lib.rs:1186): when one is
\* due the alarm process is not left asleep.
DueWakes ==
    (\E p \in tab : alarm[p] = 1) => procs.state[Alarmkproc] # "Wakeme"

\* The first on the list has been waited for: checkalarms finds no process.
Orphaned == alarms # <<>> /\ Head(alarms) \notin tab

\* checkalarms wakes the alarm process for an alarm that is due, also behind
\* those that were taken back or that an exit cleared; only a process that was
\* waited for, first on the list, hides it.
DueUnlessOrphaned == Orphaned \/ DueWakes

\* An alarm ends the call it was set for (checkalarms, alarmkproc, postnote): a
\* process asleep with an alarm set is not asleep for ever, and no alarm is
\* passed over behind one that an exit cleared.  Two things are excepted: the
\* list is orphaned; or the idle loop, which does not look at the alarms, found
\* no timed sleep and nobody waiting for a key or a server, and the system is
\* over.
AlarmEndsSleep ==
    \A p \in User :
       (alarm[p] # 0 /\ procs.state[p] = "Wakeme")
          ~> (procs.state[p] # "Wakeme" \/ over \/ Orphaned)

\* A process a due alarm was taken from is posted the note in the same step
\* (duealarms, then postnote), and one asleep is asleep no more: no alarm is
\* cleared and not told.
ClearedIsPosted ==
    [][\A p \in User :
          (alarm[p] = 1 /\ alarm'[p] = 0 /\ procs.up = NoProc) =>
             procs'.notepending[p] /\ procs'.state[p] # "Wakeme"]_vars

\* "with nothing that could ever make a process runnable" (lib.rs:535): when the
\* system is over, no alarm is to come that would make one so.
OverIsOver == over => \A p \in tab : alarm[p] = 0
=============================================================================
