-------------------------------- MODULE Life --------------------------------
(***************************************************************************)
(* How a process begins, is told things and ends: rfork, exits, await,      *)
(* faults, notes and their handlers, and the requests of #p/<n>/ctl that    *)
(* kill, stop and start it (src/kernel/src/lib.rs, proc.rs, devproc.rs).    *)
(*                                                                         *)
(* k is the kernel's state.  An operator takes it and answers what the code *)
(* leaves; an action is a call from its start, or from where it slept, to   *)
(* where it sleeps or to the end of syscall_tail, which looks at procctl    *)
(* and at the notes.  Nobody is up between two actions.                     *)
(*                                                                         *)
(* Descriptors are closed at once by pexit here; module Fgrp is about the   *)
(* closes that wait.  Left out are note groups, tracing of system calls     *)
(* (Tracesyscall) and the times in a wait record.                           *)
(***************************************************************************)
EXTENDS Procs, FiniteSets

CONSTANTS
    First,      \* the process there is at the start
    NNOTE,      \* notes a process holds
    NBROKEN,    \* Broken processes kept
    Budgets,    \* bounds: the notes and kills, and the stops and misuses of noted
    Leads       \* who forks and sets a handler, which the others inherit; these
                \* have nobody to await, and sleep

ASSUME LifeAssumption ==
    /\ First \in Proc
    /\ Rid = Proc \X {"Sleep", "Waitr"}
    /\ NNOTE \in Nat \ {0} /\ NBROKEN \in Nat \ {0}
    /\ Budgets \subseteq Nat \X Nat
    /\ Leads \subseteq Proc

Flag == {"NUser", "NExit", "NDebug"}
Ctl == {"None", "Exitme", "Stopme", "Traceme"}

VARIABLES k, posts      \* posts: the notes and kills, the stops and misuses so far
vars == <<k, posts>>

\* What a process is in the middle of when it is entered next: `labels'.
Label == {"unborn", "user", "await", "sleep", "stopwait", "tail",
          "gone"}

Kernel == [t        : Table,
           tab      : SUBSET Proc,
           label    : [Proc -> Label],
           ppid     : [Proc -> Proc \cup {NoProc}],
           waited   : [Proc -> BOOLEAN],          \* RFNOWAIT
           status   : [Proc -> BOOLEAN],          \* a status is recorded
           broken   : Seq(Proc),
           note     : [Proc -> Seq(Flag)],
           notified : [Proc -> BOOLEAN],          \* its handler is running
           handler  : [Proc -> BOOLEAN],          \* it has one
           lastnote : [Proc -> Flag],
           procctl  : [Proc -> Ctl],
           pdbg     : [Proc -> Proc \cup {NoProc}],
           stopwait : [Proc -> Proc \cup {NoProc}],
           robbed   : SUBSET Proc,    \* history: lost a pdbg that was another's
           heir     : SUBSET Proc,    \* history: began with its parent's notes
           unclean  : SUBSET Proc]    \* history: noted made it Broken with a note
                                      \* or a request outstanding

Init ==
    /\ k = [t        |-> InitTable(NoProc, {First}),
            tab      |-> {First},
            label    |-> [p \in Proc |-> IF p = First THEN "user" ELSE "unborn"],
            ppid     |-> [p \in Proc |-> NoProc],
            waited   |-> [p \in Proc |-> FALSE],
            status   |-> [p \in Proc |-> FALSE],
            broken   |-> <<>>,
            note     |-> [p \in Proc |-> <<>>],
            notified |-> [p \in Proc |-> FALSE],
            handler  |-> [p \in Proc |-> FALSE],
            lastnote |-> [p \in Proc |-> "NUser"],
            procctl  |-> [p \in Proc |-> "None"],
            pdbg     |-> [p \in Proc |-> NoProc],
            stopwait |-> [p \in Proc |-> NoProc],
            robbed   |-> {},
            heir     |-> {},
            unclean  |-> {}]
    /\ posts = <<0, 0>>

Sleep_(p) == <<p, "Sleep">>
Waitr(p) == <<p, "Waitr">>
Wake(s, r) == [s EXCEPT !.t = Wakeup(@, r)]
-----------------------------------------------------------------------------
(* The end of a process.                                                    *)

\* (Mutant: the parent is not woken.)
MutExits(s, p) ==
    [s EXCEPT !.status[p] = TRUE, !.label[p] = "gone",
              !.t = Setstate(@, p, "Moribund")]

\* exits: the status is there, and whoever awaits it is woken.
Exits(s, p) ==
    LET e == [s EXCEPT !.status[p] = TRUE, !.label[p] = "gone",
                       !.t = Setstate(@, p, "Moribund")]
    IN  IF s.ppid[p] = NoProc THEN e ELSE Wake(e, Waitr(s.ppid[p]))

\* addbroken: one Broken process more, and when there are too many the oldest
\* is let go.  (One that is on a run queue by then is entered all the same.)
Addbroken(s, p) ==
    LET full == Len(s.broken) = NBROKEN
        u == IF full /\ s.t.state[Head(s.broken)] # "Ready"
             THEN Setstate(s.t, Head(s.broken), "Dead") ELSE s.t
    IN  [s EXCEPT !.t = Setstate(u, p, "Broken"),
                  !.broken = Append(IF full THEN Tail(@) ELSE @, p)]

Unbreak(s, p) ==
    IF \E i \in DOMAIN s.broken : s.broken[i] = p
    THEN [s EXCEPT !.broken = SelectSeq(@, LAMBDA q : q # p),
                   !.t = Setstate(@, p, "Dead")]
    ELSE s

Pexit(s, p, freemem) ==
    IF freemem THEN Exits(s, p) ELSE Addbroken(Exits(s, p), p)
-----------------------------------------------------------------------------
(* Notes, and what is looked at before a process goes back to its program.  *)

\* A note that is going to end the process: nothing queued will be seen.
Drops(s, p, flag) == flag # "NUser" /\ (~s.handler[p] \/ s.notified[p])

\* postnote: queued if there is room, and in any case the process is woken.
Notepost(s, p, flag) ==
    LET q == IF Drops(s, p, flag) THEN <<>> ELSE s.note[p]
    IN  [s EXCEPT !.note[p] = IF Len(q) < NNOTE THEN Append(q, flag) ELSE q,
                  !.t = Postnote(@, p)]

\* procctl's Proc_stopme: stopped, and the debugger who waits for it is woken.
Stop(s, p) ==
    LET u == [s EXCEPT !.procctl[p] = "None", !.pdbg[p] = NoProc,
                       !.t = Setstate(@, p, "Stopped")]
    IN  IF s.pdbg[p] = NoProc THEN u ELSE Wake(u, Sleep_(s.pdbg[p]))

\* Does procctl ask something that is done now?  At a fault only Exitme is.
Asks(s, p, at) ==
    \/ s.procctl[p] = "Exitme"
    \/ at # "Fault" /\ s.procctl[p] = "Stopme"
    \/ at # "Fault" /\ s.procctl[p] = "Traceme" /\ s.note[p] # <<>>

\* At the end of a call the answer waits until the process is started, and
\* then all this is looked at again.
Procctl(s, p, at) ==
    IF s.procctl[p] = "Exitme"
    THEN Pexit([s EXCEPT !.procctl[p] = "None"], p, TRUE)
    ELSE [Stop(s, p) EXCEPT !.label[p] = IF at = "Syscall" THEN "tail" ELSE @]

\* The note is handed to the handler.
Hand(s, p) ==
    [s EXCEPT !.label[p] = "user", !.t = Interrupted(@, p),
              !.notified[p] = TRUE,
              !.lastnote[p] = Head(s.note[p]), !.note[p] = Tail(@)]

\* notify: does the first note end the process, or go to its handler?
Ends(s, p, at) ==
    \/ Head(s.note[p]) # "NUser" /\ (s.notified[p] \/ ~s.handler[p])
    \/ ~s.notified[p] /\ (~s.handler[p] \/ at = "Fault")

\* (Mutant: a process that has ended is looked at as any other.)
MutNotify(s, p, at) ==
    IF Asks(s, p, at) THEN Procctl(s, p, at)
    ELSE IF s.note[p] = <<>> THEN s
    ELSE IF Ends(s, p, at) THEN Pexit(s, p, Head(s.note[p]) # "NDebug")
    ELSE IF ~s.notified[p] /\ at = "Syscall" THEN Hand(s, p)
    ELSE s

\* (Mutant: a note left for the handler at a clock interrupt counts as seen.)
MutNotifyClock(s, p, at) ==
    IF s.t.state[p] \in {"Moribund", "Dead"} THEN s
    ELSE IF Asks(s, p, at) THEN Procctl(s, p, at)
    ELSE IF s.note[p] = <<>> THEN s
    ELSE IF Ends(s, p, at) THEN Pexit(s, p, Head(s.note[p]) # "NDebug")
    ELSE IF ~s.notified[p] /\ at = "Syscall" THEN Hand(s, p)
    ELSE [s EXCEPT !.t = Interrupted(@, p)]

Notify(s, p, at) ==
    IF s.t.state[p] \in {"Moribund", "Dead"} THEN s
    ELSE IF Asks(s, p, at) THEN Procctl(s, p, at)
    ELSE IF s.note[p] = <<>> THEN s
    ELSE IF Ends(s, p, at) THEN Pexit(s, p, Head(s.note[p]) # "NDebug")
    ELSE IF ~s.notified[p] /\ at = "Syscall" THEN Hand(s, p)
    ELSE s
-----------------------------------------------------------------------------
(* Entering and leaving.                                                    *)

MayRun(p, label) ==
    k.t.up = NoProc /\ k.t.state[p] = "Ready" /\ k.label[p] = label

E(p) == [k EXCEPT !.t = Enter(@, p), !.label[p] = "user"]
Leave(s, p) == k' = [s EXCEPT !.t = Left(@, p)]

\* The call answered: the end of syscall_tail, unless it slept.
Done(s, p) == Leave(Notify(s, p, "Syscall"), p)

\* noted has ended the process: the same end of syscall_tail, and then the
\* machine leaves it.  It is Dead unless it is Broken; if procctl stopped it,
\* that is so when it has been started.  Of one whose record was taken nothing
\* is found.
Over(s, p) ==
    LET n == IF p \in s.tab THEN Notify(s, p, "Syscall") ELSE s
    IN  IF n.t.state[p] = "Stopped" THEN Leave(n, p)
        ELSE Leave([n EXCEPT !.label[p] = "gone",
                             !.t = Setstate(@, p, IF @.state[p] = "Broken"
                                                  THEN "Broken" ELSE "Dead")], p)

\* pexit, Broken, from noted.
Suicides(s, p) ==
    Over(Pexit([s EXCEPT !.unclean =
                   IF s.note[p] # <<>> \/ Asks(s, p, "Syscall")
                   THEN @ \cup {p} ELSE @], p, FALSE), p)

Calls(p) == MayRun(p, "user") /\ UNCHANGED posts
Posts(p, notes, stops) ==
    /\ MayRun(p, "user")
    /\ posts' = <<posts[1] + notes, posts[2] + stops>>
    /\ \E b \in Budgets : posts'[1] <= b[1] /\ posts'[2] <= b[2]
-----------------------------------------------------------------------------
(* rfork, exits, await.                                                     *)

Children(s, p) == {c \in s.tab : s.ppid[c] = p /\ ~s.waited[c]}
Ended(s, p) == {c \in Children(s, p) : s.status[c]}

\* The child has its parent's notes and handler.  rfork is not followed by
\* notify.
Rfork(p, nowait) ==
    /\ Calls(p) /\ p \in Leads
    /\ \E c \in {q \in Proc : k.label[q] = "unborn"} :
          Leave([E(p) EXCEPT !.tab = @ \cup {c}, !.label[c] = "user",
                             !.ppid[c] = p, !.waited[c] = nowait,
                             !.note[c] = k.note[p],
                             !.handler[c] = k.handler[p],
                             !.lastnote[c] = k.lastnote[p],
                             !.heir = IF k.note[p] = <<>> THEN @
                                      ELSE @ \cup {c},
                             !.t = Newproc(@, c)], p)

Exit(p) == Calls(p) /\ Done(Pexit(E(p), p, TRUE), p)

\* waitrecord: any child that has ended, which leaves the table here.
Waitrecord(s, p) == \E c \in Ended(s, p) : Done([s EXCEPT !.tab = @ \ {c}], p)

\* (Mutant: await answers "no living children" the moment no record is
\* ready.)
MutAwait(p, answer) ==
    /\ Calls(p)
    /\ \/ answer = "record" /\ Waitrecord(E(p), p)
       \/ answer = "nochild" /\ Ended(k, p) = {} /\ Done(E(p), p)

Await(p, answer) ==
    /\ Calls(p)
    /\ \/ answer = "record" /\ Waitrecord(E(p), p)
       \/ answer = "nochild" /\ Children(k, p) = {} /\ Done(E(p), p)
       \/ /\ Children(k, p) # {} /\ Ended(k, p) = {}
          /\ k.t.notepending[p] /\ answer = "intr"
          /\ Done([E(p) EXCEPT !.t = Interrupted(Sleep(@, p, Waitr(p), FALSE), p)], p)
       \/ /\ Children(k, p) # {} /\ Ended(k, p) = {}
          /\ ~k.t.notepending[p] /\ answer = "asleep"
          /\ Leave([E(p) EXCEPT !.label[p] = "await",
                                !.t = Sleep(@, p, Waitr(p), FALSE)], p)

\* The rest of the call, entered again: whoever woke it, a record is looked
\* for once.
AwaitAgain(p, answer) ==
    /\ MayRun(p, "await") /\ UNCHANGED posts
    /\ \/ /\ k.t.notepending[p] /\ answer = "intr"
          /\ Done([E(p) EXCEPT !.t = Interrupted(@, p)], p)
       \/ ~k.t.notepending[p] /\ answer = "record" /\ Waitrecord(E(p), p)
       \/ /\ ~k.t.notepending[p] /\ answer = "nochild" /\ Ended(k, p) = {}
          /\ Done(E(p), p)
-----------------------------------------------------------------------------
(* sleep, on the Rendez that procstopwait uses too.                         *)

Nap(p) ==
    /\ Calls(p) /\ p \notin Leads
    /\ LET s == [E(p) EXCEPT !.t = Tsleep(@, p, Sleep_(p), FALSE)]
       IN  IF k.t.notepending[p]
           THEN Done([s EXCEPT !.t = Interrupted(@, p)], p)
           ELSE Leave([s EXCEPT !.label[p] = "sleep"], p)

NapAgain(p) ==
    /\ MayRun(p, "sleep") /\ UNCHANGED posts
    /\ Done([E(p) EXCEPT !.t = Interrupted(@, p)], p)

\* The timer of a sleep is due.
Timer(p) ==
    /\ k.t.state[p] = "Wakeme" /\ k.t.twhen[p]
    /\ k' = Wake(k, Sleep_(p))
    /\ UNCHANGED posts
-----------------------------------------------------------------------------
(* notify, noted, faults and the clock.                                     *)

\* notify(2).  A handler is set and not taken back.
SetHandler(p) ==
    Calls(p) /\ p \in Leads /\ Done([E(p) EXCEPT !.handler[p] = TRUE], p)

\* noted, when a handler is running: go on, or end as the note would have, or,
\* with an argument it does not know, as a suicide.
Noted(p, how) ==
    /\ IF how = "unknown" THEN Posts(p, 0, 1) ELSE Calls(p)
    /\ k.notified[p]
    /\ LET s == [E(p) EXCEPT !.notified[p] = FALSE]
       IN  \/ how = "NCONT" /\ Done(s, p)
           \/ how = "NDFLT" /\ k.lastnote[p] # "NDebug" /\ Over(Pexit(s, p, TRUE), p)
           \/ how = "NDFLT" /\ k.lastnote[p] = "NDebug" /\ Suicides(s, p)
           \/ how = "unknown" /\ Suicides(s, p)

\* noted, when none is: a suicide.
Suicide(p) ==
    /\ Posts(p, 0, 1)
    /\ ~k.notified[p]
    /\ Suicides(E(p), p)

\* A trap in the program.  The image is gone whatever notify says.
Fault(p) ==
    /\ Calls(p)
    /\ Leave(Notify(Notepost(E(p), p, "NDebug"), p, "Fault"), p)

\* The clock interrupts the program.
Clock(p) == Calls(p) /\ Leave(Notify(E(p), p, "Clock"), p)

\* The process was stopped at the end of a call and has been started.
TailAgain(p) ==
    /\ MayRun(p, "tail") /\ UNCHANGED posts
    /\ IF k.status[p] THEN Over(E(p), p) ELSE Done(E(p), p)
-----------------------------------------------------------------------------
(* The files note and ctl of #p/<n>, written by p about q.                  *)

\* A second note may find the queue full: the write fails, and q is woken.
WriteNote(p, q) ==
    /\ Posts(p, 1, 0)
    /\ q \in k.tab
    /\ Done(Notepost(E(p), q, "NUser"), p)

\* A Stopped process is started to end itself; a Broken one is let go.
Kill(p, q) ==
    /\ Posts(p, 1, 0)
    /\ q \in k.tab
    /\ LET s == Notepost([E(p) EXCEPT !.procctl[q] = "Exitme"], q, "NExit")
       IN  CASE k.t.state[q] = "Broken"  -> Done(Unbreak(E(p), q), p)
             [] k.t.state[q] = "Stopped" ->
                   Done([s EXCEPT !.t = Ready(@, q)], p)
             [] OTHER -> Done(s, p)

Start(p, q) ==
    /\ Calls(p)
    /\ q \in k.tab /\ k.t.state[q] = "Stopped"
    /\ Done([E(p) EXCEPT !.t = Ready(@, q)], p)

\* (Mutant: a second debugger takes the place of the first.)
MutProcstopwait(s, p, q, ctl) ==
    IF s.t.state[q] \in {"Stopped", "Broken"} THEN Done(s, p)
    ELSE LET a == [s EXCEPT !.procctl[q] = IF ctl = "None" THEN @ ELSE ctl]
             d == [a EXCEPT !.pdbg[q] = p, !.t = Sleep(@, p, Sleep_(p), FALSE)]
         IN  IF s.t.notepending[p]
             THEN Done([d EXCEPT !.pdbg[q] = NoProc, !.t = Interrupted(@, p)], p)
             ELSE Leave([d EXCEPT !.stopwait[p] = q, !.label[p] = "stopwait"], p)

\* procstopwait: ask q to stop, unless ctl is None, and sleep until it has.
\* A process that another waits for is in use: Einuse, and nothing changes.
Procstopwait(s, p, q, ctl) ==
    IF s.pdbg[q] # NoProc \/ s.t.state[q] \in {"Stopped", "Broken"} THEN Done(s, p)
    ELSE LET a == [s EXCEPT !.procctl[q] = IF ctl = "None" THEN @ ELSE ctl]
             d == [a EXCEPT !.pdbg[q] = p, !.t = Sleep(@, p, Sleep_(p), FALSE)]
         IN  IF s.t.notepending[p]
             THEN Done([d EXCEPT !.pdbg[q] = NoProc, !.t = Interrupted(@, p)], p)
             ELSE Leave([d EXCEPT !.stopwait[p] = q, !.label[p] = "stopwait"], p)

\* stop and waitstop.
Waitstop(p, q, ctl) ==
    /\ Posts(p, 0, 1)
    /\ q \in k.tab
    /\ Procstopwait(E(p), p, q, ctl)

Startstop(p, q) ==
    /\ Posts(p, 0, 1)
    /\ q \in k.tab /\ k.t.state[q] = "Stopped"
    /\ Procstopwait([E(p) EXCEPT !.procctl[q] = "Traceme",
                                 !.t = Ready(@, q)], p, q, "Traceme")

\* The writer that slept in procstopwait is entered again.  A note ended its
\* wait, or the process it waited for has stopped.
WaitstopAgain(p) ==
    /\ MayRun(p, "stopwait") /\ UNCHANGED posts
    /\ LET q == k.stopwait[p]
           s == [E(p) EXCEPT !.stopwait[p] = NoProc]
       IN  IF k.t.notepending[p]
           THEN Done([s EXCEPT !.pdbg[q] = IF q \in k.tab THEN NoProc ELSE @,
                               !.robbed = IF k.pdbg[q] \in {NoProc, p} THEN @
                                          ELSE @ \cup {q},
                               !.t = Interrupted(@, p)], p)
           ELSE Done(s, p)
-----------------------------------------------------------------------------
Again(p) ==
    \/ \E answer \in {"record", "nochild", "intr"} : AwaitAgain(p, answer)
    \/ NapAgain(p)
    \/ TailAgain(p)
    \/ WaitstopAgain(p)

Program(p) ==
    \/ \E nowait \in BOOLEAN : Rfork(p, nowait)
    \/ Exit(p)
    \/ \E answer \in {"record", "nochild", "intr", "asleep"} : Await(p, answer)
    \/ Nap(p)
    \/ SetHandler(p)
    \/ \E how \in {"NCONT", "NDFLT", "unknown"} : Noted(p, how)
    \/ Suicide(p)
    \/ Fault(p)

Control(p, q) ==
    \/ WriteNote(p, q)
    \/ Kill(p, q)
    \/ Start(p, q)
    \/ \E ctl \in {"None", "Stopme"} : Waitstop(p, q, ctl)
    \/ Startstop(p, q)

Next ==
    \E p \in Proc : \/ Again(p)
                    \/ Clock(p)
                    \/ Timer(p)
                    \/ Program(p)
                    \/ \E q \in Proc : Control(p, q)

Spec == Init /\ [][Next]_vars
-----------------------------------------------------------------------------
TypeOK == k \in Kernel /\ posts \in Nat \X Nat

\* A parent is never asleep in await when a record is there for it, nor when
\* it has no child left that could leave one: the record and the wakeup of
\* exits, and the check and the sleep of await, leave no gap.
NoLostChild ==
    \A p \in Proc : k.t.state[p] = "Wakeme" /\ k.label[p] = "await" =>
        Children(k, p) # {} /\ Ended(k, p) = {}

\* "no living children" is the truth when await answers it.
AwaitTruth ==
    [][\A p \in Proc : Children(k, p) # {} =>
          ~(Await(p, "nochild") \/ AwaitAgain(p, "nochild"))]_vars

\* The RFNOWAIT children of p that have ended.
Unawaited(p) == {c \in k.tab : k.ppid[c] = p /\ k.waited[c] /\ k.status[c]}

\* As AwaitTruth, of a parent none of whose RFNOWAIT children has ended:
\* those wake it from await with no record to take.
AwaitTruthWaited ==
    [][\A p \in Proc : Children(k, p) # {} /\ Unawaited(p) = {} =>
          ~(Await(p, "nochild") \/ AwaitAgain(p, "nochild"))]_vars

\* The list of Broken processes names all of them, each once, and at most
\* NBROKEN: whoever is Broken can be killed or pushed out, and what is not
\* Broken is named only because its parent took its record first.
BrokenListed ==
    /\ Len(k.broken) <= NBROKEN
    /\ \A p \in Proc : k.t.state[p] = "Broken" =>
          \E i \in DOMAIN k.broken : k.broken[i] = p
    /\ \A i, j \in DOMAIN k.broken : k.broken[i] = k.broken[j] => i = j
    /\ \A i \in DOMAIN k.broken : k.status[k.broken[i]]

\* Nothing of a process that has ended runs again: it is not handed a note,
\* stopped or made ready after its pexit.  (Not so of one that noted made Broken
\* with a note or a request outstanding: notify_ takes it for a live one.)
EndedRests ==
    \A p \in Proc : k.status[p] /\ p \notin k.unclean =>
        k.label[p] = "gone" /\ k.t.state[p] \in {"Dead", "Broken"}

\* What has ended stays so and, if it is Broken, can be found: exits, addbroken,
\* unbreak, await's taking of the record and notify_ agree on who is over.
EndedKept == TypeOK /\ BrokenListed /\ EndedRests

\* A debugger asleep until a process stops is the one that process will wake,
\* as long as the process can still stop: it has not ended, and no other
\* debugger, interrupted late, has taken the name away.  And a process names
\* only a debugger that waits for it: it cuts no other sleep short.
StopwaitKnown ==
    /\ \A q \in k.tab : k.pdbg[q] # NoProc => k.stopwait[k.pdbg[q]] = q
    /\ \A p \in Proc : k.t.state[p] = "Wakeme" /\ k.label[p] = "stopwait" =>
           LET q == k.stopwait[p]
           IN  \/ k.pdbg[q] = p /\ k.t.state[q] # "Stopped"
               \/ k.status[q]
               \/ q \in k.robbed

\* A process is not asleep with a note its handler could have: notepending
\* and the queue agree, except in a child that began with its parent's notes.
NotesReachSleepers ==
    \A p \in Proc : k.t.state[p] = "Wakeme" /\ k.note[p] # <<>> =>
        k.notified[p] \/ p \in k.heir

\* A process that is to end itself is on its way: it is not asleep and not
\* stopped, however full its queue of notes and whatever it was waiting for.
KilledRuns ==
    \A p \in Proc : k.procctl[p] = "Exitme" =>
        k.t.state[p] \in {"Ready", "Dead", "Broken"}

\* Neither a kill nor a note leaves its process asleep.
SleepersHear == KilledRuns /\ NotesReachSleepers
=============================================================================
