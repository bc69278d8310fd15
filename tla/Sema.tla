-------------------------------- MODULE Sema --------------------------------
(***************************************************************************)
(* The kernel's semaphores (kernel/src/lib.rs: semacquire, tsemacquire,     *)
(* semrelease): words of the memory the processes share, and the segment's  *)
(* list of the processes that wait for one of them to be positive.          *)
(*                                                                         *)
(* A call runs without a break up to its sleep; what follows the sleep runs *)
(* when the process is entered again (Resume).  Between two steps nobody is *)
(* up: a step enters a Ready process, which leaves the processor at its     *)
(* end, asleep or still Ready.                                              *)
(*                                                                         *)
(* Each call is an action with its answer as a parameter, so that the       *)
(* program that made the call (module Lock) goes on with it: "got" is 1,    *)
(* "no" 0, "intr" the error Eintr, "asleep" no answer yet.                  *)
(***************************************************************************)
EXTENDS Procs, FiniteSetsExt

CONSTANTS Addr,     \* the addresses of the semaphores
          Delta,    \* what semrelease adds
          MaxWord   \* bound: programs do not raise a semaphore above it

ASSUME DeltaAssumption == Delta \subseteq Nat

VARIABLES procs,    \* Procs: the table
          word,     \* the semaphores
          sema,     \* the segment's list, oldest first
          waits     \* what a call that sleeps waits for: its closure

semavars == <<procs, word, sema, waits>>

\* How long a call waits: semacquire with and without block, tsemacquire.
Ms == {"forever", "zero", "some"}

Phore(p) == <<"Sema", p>>

NoWait == [addr |-> "none", ms |-> "zero"]

Entry(a, w, p) == [addr |-> a, waiting |-> w, p |-> p]

\* Some of the calls enter the kernel from a program that is Ready.
MayRun(p) == procs.up = NoProc /\ procs.state[p] = "Ready"

\* The place of p's own Sema in the list (or none).
Place(s, p) == {i \in DOMAIN s : s[i].p = p}

Setwaiting(s, p, w) ==
    [i \in DOMAIN s |-> IF s[i].p = p THEN [s[i] EXCEPT !.waiting = w] ELSE s[i]]

Semdequeue(s, p) == SelectSeq(s, LAMBDA e : e.p # p)
-----------------------------------------------------------------------------
\* semwakeup: the first n of the waiting on a ...
Chosen(s, a, n) ==
    LET Waiting == {i \in DOMAIN s : s[i].addr = a /\ s[i].waiting}
    IN  {i \in Waiting : Cardinality({j \in Waiting : j <= i}) <= n}

Unwaiting(s, a, n) ==
    [i \in DOMAIN s |-> IF i \in Chosen(s, a, n)
                        THEN [s[i] EXCEPT !.waiting = FALSE] ELSE s[i]]

\* ... are woken, if they sleep.
Semwakeup(t, s, a, n) ==
    FoldSet(LAMBDA i, u : Wakeup(u, Phore(s[i].p)), t, Chosen(s, a, n))

\* (Mutant: one that was woken keeps the wakeup to itself.)
MutSemdone(t, s, p, a) ==
    /\ sema' = Semdequeue(s, p)
    /\ procs' = Left(t, p)
    /\ waits' = [waits EXCEPT ![p] = NoWait]

\* semdone: off the list, and one that was woken passes the wakeup on.
Semdone(t, s, p, a) ==
    LET rest == Semdequeue(s, p)
        n    == IF \E i \in Place(s, p) : ~s[i].waiting THEN 1 ELSE 0
    IN  /\ sema' = Unwaiting(rest, a, n)
        /\ procs' = Left(Semwakeup(t, rest, a, n), p)
        /\ waits' = [waits EXCEPT ![p] = NoWait]

\* canacquire: the compare-and-swap succeeds at once, nothing runs meanwhile.
Acquire(a) ==
    /\ word[a] > 0
    /\ word' = [word EXCEPT ![a] = @ - 1]
-----------------------------------------------------------------------------
\* semwait: the top of the for(;;), p's Sema being in the list s.
Semwait(t, s, p, a, ms, answer) ==
    LET sw       == Setwaiting(s, p, TRUE)
        sleep(u) == IF ms = "forever" THEN Sleep(u, p, Phore(p), FALSE)
                                      ELSE Tsleep(u, p, Phore(p), FALSE)
    IN  \/ /\ answer = "got"
           /\ Acquire(a)
           /\ Semdone(t, sw, p, a)
        \/ /\ word[a] = 0
           /\ UNCHANGED word
           /\ \/ /\ answer = "asleep"
                 /\ Sleeps(t, p, FALSE)
                 /\ procs' = Left(sleep(t), p)
                 /\ sema' = sw
                 /\ waits' = [waits EXCEPT ![p] = [addr |-> a, ms |-> ms]]
              \/ /\ answer = "intr"
                 /\ ~Sleeps(t, p, FALSE)
                 /\ Semdone(Interrupted(sleep(t), p), sw, p, a)

Semacquire(p, a, ms, answer) ==
    /\ MayRun(p)
    /\ \/ /\ answer = "got"
          /\ Acquire(a)
          /\ UNCHANGED <<procs, sema, waits>>
       \/ /\ answer = "no"
          /\ word[a] = 0
          /\ ms = "zero"
          /\ UNCHANGED semavars
       \/ /\ word[a] = 0
          /\ ms # "zero"
          /\ Semwait(Enter(procs, p), Append(sema, Entry(a, FALSE, p)),
                     p, a, ms, answer)

\* The closure: what follows the sleep.  A timed call, however it was woken,
\* may find its time over: the timer and m.ticks are different clocks.
Resume(p, answer) ==
    LET t  == Enter(procs, p)
        a  == waits[p].addr
        ms == waits[p].ms
    IN  /\ MayRun(p)
        /\ waits[p] # NoWait
        /\ \/ /\ answer = "intr"
              /\ t.notepending[p]
              /\ Semdone(Interrupted(t, p), sema, p, a)
              /\ UNCHANGED word
           \/ /\ answer = "no"
              /\ ~t.notepending[p]
              /\ ms = "some"
              /\ Semdone(t, sema, p, a)
              /\ UNCHANGED word
           \/ /\ ~t.notepending[p]
              /\ Semwait(t, sema, p, a, ms, answer)

\* semrelease: the word is raised, and that many are woken.  What it adds is no
\* less than 0 and the word has room for it (MaxWord): left out are the calls
\* that fail with EBADARG and change nothing (a negative delta, or a word the
\* program itself has set to one), and the sum that wraps past 2^31 - 1.
Semrelease(p, a, delta) ==
    /\ MayRun(p)
    /\ word' = [word EXCEPT ![a] = @ + delta]
    /\ sema' = Unwaiting(sema, a, delta)
    /\ procs' = Semwakeup(procs, sema, a, delta)
    /\ UNCHANGED waits
-----------------------------------------------------------------------------
\* The timer of a tsleep: the process is readied, its Sema still waiting.
Timeout(p) ==
    /\ procs.state[p] = "Wakeme"
    /\ procs.twhen[p]
    /\ procs' = Wakeup(procs, Phore(p))
    /\ UNCHANGED <<word, sema, waits>>

\* A note, from another process or through /proc ...
Note(p) ==
    /\ ~procs.notepending[p]
    /\ procs' = Postnote(procs, p)
    /\ UNCHANGED <<word, sema, waits>>

\* ... and its delivery to the program's handler, at the end of a call or at a
\* clock interrupt.
Notify(p) ==
    /\ MayRun(p)
    /\ waits[p] = NoWait
    /\ procs.notepending[p]
    /\ procs' = Interrupted(procs, p)
    /\ UNCHANGED <<word, sema, waits>>

SemaInit ==
    /\ procs = [InitTable(NoProc, Proc) EXCEPT !.up = NoProc]
    /\ word = [a \in Addr |-> 0]
    /\ sema = <<>>
    /\ waits = [p \in Proc |-> NoWait]

SemaTypeOK ==
    /\ procs \in Table
    /\ word \in [Addr -> Nat]
    /\ sema \in Seq([addr : Addr, waiting : BOOLEAN, p : Proc])
    /\ waits \in [Proc -> [addr : Addr, ms : Ms \ {"zero"}] \cup {NoWait}]
=============================================================================
