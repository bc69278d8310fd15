---------------------------- MODULE ProcsProofs ----------------------------
(***************************************************************************)
(* Every operation of module Procs keeps the table Sound.                   *)
(*                                                                         *)
(* Each proof first says what the operation does to each field, and then    *)
(* uses nothing but that.                                                   *)
(***************************************************************************)
EXTENDS Procs, TLAPS

\* A queue with one more at its tail.
LEMMA AppendFacts ==
    ASSUME NEW S, NEW q \in Seq(S), NEW e \in S
    PROVE  /\ Append(q, e) \in Seq(S)
           /\ Len(q) \in Nat
           /\ DOMAIN q = 1 .. Len(q)
           /\ DOMAIN Append(q, e) = 1 .. (Len(q) + 1)
           /\ \A i \in 1 .. Len(q) : Append(q, e)[i] = q[i]
           /\ Append(q, e)[Len(q) + 1] = e
           /\ Append(q, e) # <<>>
<1>1. /\ Append(q, e) \in Seq(S)
      /\ Len(Append(q, e)) = Len(q) + 1
      /\ \A i \in 1 .. Len(q) : Append(q, e)[i] = q[i]
      /\ Append(q, e)[Len(q) + 1] = e
  OBVIOUS
<1>2. Len(q) \in Nat /\ DOMAIN q = 1 .. Len(q)
  OBVIOUS
<1>3. DOMAIN Append(q, e) = 1 .. Len(Append(q, e))
  OBVIOUS
<1>4. Append(q, e) # <<>>
  <2>1. Len(<<>>) = 0
    OBVIOUS
  <2>2. Len(Append(q, e)) # 0
    BY <1>1, <1>2
  <2> QED
    BY <2>1, <2>2, Zenon
<1> QED
  BY <1>1, <1>2, <1>3, <1>4

\* A queue without its head.
LEMMA TailFacts ==
    ASSUME NEW S, NEW q \in Seq(S), q # <<>>
    PROVE  /\ Tail(q) \in Seq(S)
           /\ Len(q) \in Nat \ {0}
           /\ DOMAIN q = 1 .. Len(q)
           /\ DOMAIN Tail(q) = 1 .. (Len(q) - 1)
           /\ \A i \in 1 .. (Len(q) - 1) : Tail(q)[i] = q[i + 1]
           /\ Head(q) = q[1]
           /\ Head(q) \in S
<1>1. /\ Tail(q) \in Seq(S)
      /\ Len(Tail(q)) = Len(q) - 1
      /\ \A i \in 1 .. Len(Tail(q)) : Tail(q)[i] = q[i + 1]
      /\ Head(q) \in S
  OBVIOUS
<1>2. Len(q) \in Nat \ {0} /\ DOMAIN q = 1 .. Len(q)
  OBVIOUS
<1>3. DOMAIN Tail(q) = 1 .. Len(Tail(q))
  BY <1>1
<1>4. Head(q) = q[1]
  OBVIOUS
<1> QED
  BY <1>1, <1>2, <1>3, <1>4

\* sleep, on a Rendez nobody is on: it pairs the two, or does nothing.
LEMMA SleepSound ==
    ASSUME NEW t, Sound(t), NEW p \in Proc, NEW r \in Rid, NEW h \in BOOLEAN,
           IsRunning(t, p), t.p[r] = NoProc
    PROVE  /\ Sound(Sleep(t, p, r, h))
           /\ Sleep(t, p, r, h).doublesleep = t.doublesleep
           /\ Sleep(t, p, r, h).lock = t.lock
           /\ Sleep(t, p, r, h).up = t.up
           /\ Sleep(t, p, r, h).p =
                 IF Sleeps(t, p, h) THEN [t.p EXCEPT ![r] = p] ELSE t.p
           /\ Sleep(t, p, r, h).state =
                 IF Sleeps(t, p, h) THEN [t.state EXCEPT ![p] = "Wakeme"]
                 ELSE t.state
<1> USE NoneAssumption
<1> t \in Table
  BY DEF Sound
<1> DEFINE u == Sleep(t, p, r, h)
<1>1. CASE Sleeps(t, p, h)
  <2>1. u = [t EXCEPT !.p[r] = p, !.state[p] = "Wakeme", !.r[p] = r]
    BY <1>1, Zenon DEF Sleep, Table
  <2> HIDE DEF u
  <2>2. /\ u \in Table
        /\ u.p = [t.p EXCEPT ![r] = p]
        /\ u.state = [t.state EXCEPT ![p] = "Wakeme"]
        /\ u.r = [t.r EXCEPT ![p] = r]
        /\ u.notepending = t.notepending
        /\ u.lock = t.lock
        /\ u.up = t.up
        /\ u.doublesleep = t.doublesleep
    BY <2>1, Zenon DEF Table, State
  <2>3. Paired(u)
    BY <2>2 DEF Sound, Table, Paired, CanWake, IsRunning
  <2>4. NoteSeen(u)
    BY <1>1, <2>2 DEF Sound, Table, NoteSeen, Sleeps
  <2>5. Queued(u)
    BY <2>2 DEF Sound, Table, Queued, Waits, IsRunning
  <2>6. OneUp(u)
    BY <2>2 DEF Sound, Table, OneUp, IsRunning
  <2> QED
    BY <1>1, <2>2, <2>3, <2>4, <2>5, <2>6 DEF Sound, u
<1>2. CASE ~Sleeps(t, p, h)
  <2>1. u = [t EXCEPT !.p[r] = NoProc]
    BY <1>2, Zenon DEF Sleep, Table
  <2> HIDE DEF u
  <2>2. /\ u \in Table
        /\ u.p = t.p
        /\ u.state = t.state
        /\ u.r = t.r
        /\ u.notepending = t.notepending
        /\ u.lock = t.lock
        /\ u.up = t.up
        /\ u.doublesleep = t.doublesleep
    BY <2>1 DEF Table
  <2> QED
    BY <1>2, <2>2 DEF Sound, Paired, CanWake, NoteSeen, Queued, Waits, OneUp, u
<1> QED
  BY <1>1, <1>2

\* wakeup unpairs the two, and the process may run.
LEMMA WakeupSound ==
    ASSUME NEW t, Sound(t), NEW r \in Rid
    PROVE  /\ Sound(Wakeup(t, r))
           /\ Wakeup(t, r).doublesleep = t.doublesleep
           /\ Wakeup(t, r).lock = t.lock
           /\ Wakeup(t, r).up = t.up
           /\ Wakeup(t, r).p =
                 IF CanWake(t, r) THEN [t.p EXCEPT ![r] = NoProc] ELSE t.p
           /\ Wakeup(t, r).state =
                 IF CanWake(t, r) THEN [t.state EXCEPT ![t.p[r]] = "Ready"]
                 ELSE t.state
<1> USE NoneAssumption
<1> t \in Table
  BY DEF Sound
<1> DEFINE u == Wakeup(t, r)
           q == t.p[r]
<1>1. CASE CanWake(t, r)
  <2>0. q \in Proc
    BY <1>1 DEF CanWake, Table
  <2>1. u = [t EXCEPT !.p[r] = NoProc, !.r[q] = NoRid, !.twhen[q] = FALSE,
                      !.state[q] = "Ready"]
    BY <1>1 DEF Wakeup
  <2> HIDE DEF q, u
  <2>2. /\ u \in Table
        /\ u.p = [t.p EXCEPT ![r] = NoProc]
        /\ u.state = [t.state EXCEPT ![q] = "Ready"]
        /\ u.r = [t.r EXCEPT ![q] = NoRid]
        /\ u.notepending = t.notepending
        /\ u.lock = t.lock
        /\ u.up = t.up
        /\ u.doublesleep = t.doublesleep
    BY <2>0, <2>1, Zenon DEF Table, State
  <2>q. t.state[q] = "Wakeme" /\ t.r[q] = r /\ t.p[r] = q
    BY <1>1 DEF CanWake, q
  <2>3. Paired(u)
    BY <2>0, <2>2, <2>q DEF Sound, Table, Paired, CanWake
  <2>4. NoteSeen(u)
    BY <2>0, <2>2 DEF Sound, Table, NoteSeen
  <2>5. Queued(u)
    BY <2>0, <2>2, <2>q DEF Sound, Table, Queued, Waits
  <2>6. OneUp(u)
    BY <2>0, <2>2 DEF Sound, Table, OneUp
  <2> QED
    BY <1>1, <2>2, <2>3, <2>4, <2>5, <2>6 DEF Sound, u, q
<1>2. CASE ~CanWake(t, r)
  BY <1>2 DEF Wakeup
<1> QED
  BY <1>1, <1>2

\* A timer is no part of what is kept.
LEMMA TwhenSound ==
    ASSUME NEW t, Sound(t), NEW p \in Proc, NEW b \in BOOLEAN
    PROVE  LET u == [t EXCEPT !.twhen[p] = b]
           IN  /\ Sound(u)
               /\ u.doublesleep = t.doublesleep
               /\ u.lock = t.lock
               /\ u.up = t.up
               /\ u.p = t.p
               /\ u.state = t.state
<1> DEFINE u == [t EXCEPT !.twhen[p] = b]
<1>1. /\ u \in Table
      /\ u.p = t.p
      /\ u.state = t.state
      /\ u.r = t.r
      /\ u.notepending = t.notepending
      /\ u.lock = t.lock
      /\ u.up = t.up
      /\ u.doublesleep = t.doublesleep
  BY Zenon DEF Sound, Table
<1> HIDE DEF u
<1>2. Sound(u)
  BY <1>1 DEF Sound, Paired, CanWake, NoteSeen, Queued, Waits, OneUp
<1> QED
  BY <1>1, <1>2 DEF u

LEMMA TsleepSound ==
    ASSUME NEW t, Sound(t), NEW p \in Proc, NEW r \in Rid, NEW h \in BOOLEAN,
           IsRunning(t, p), t.p[r] = NoProc
    PROVE  /\ Sound(Tsleep(t, p, r, h))
           /\ Tsleep(t, p, r, h).doublesleep = t.doublesleep
           /\ Tsleep(t, p, r, h).lock = t.lock
           /\ Tsleep(t, p, r, h).up = t.up
           /\ Tsleep(t, p, r, h).p =
                 IF Sleeps(t, p, h) THEN [t.p EXCEPT ![r] = p] ELSE t.p
           /\ Tsleep(t, p, r, h).state =
                 IF Sleeps(t, p, h) THEN [t.state EXCEPT ![p] = "Wakeme"]
                 ELSE t.state
<1>1. Sleeps(t, p, h) \in BOOLEAN
  BY DEF Sleeps
<1>2. /\ Sound(Sleep(t, p, r, h))
      /\ Sleep(t, p, r, h).doublesleep = t.doublesleep
      /\ Sleep(t, p, r, h).lock = t.lock
      /\ Sleep(t, p, r, h).up = t.up
      /\ Sleep(t, p, r, h).p =
            IF Sleeps(t, p, h) THEN [t.p EXCEPT ![r] = p] ELSE t.p
      /\ Sleep(t, p, r, h).state =
            IF Sleeps(t, p, h) THEN [t.state EXCEPT ![p] = "Wakeme"]
            ELSE t.state
  BY SleepSound
<1> QED
  BY <1>1, <1>2, TwhenSound DEF Tsleep

\* A process that is neither asleep nor queueing may be made anything else.
LEMMA SetstateSound ==
    ASSUME NEW t, Sound(t), NEW p \in Proc,
           t.state[p] \notin {"Wakeme", "Queueing"},
           NEW s \in State \ {"Wakeme", "Queueing", "Running"}
    PROVE  /\ Sound(Setstate(t, p, s))
           /\ Setstate(t, p, s).doublesleep = t.doublesleep
           /\ Setstate(t, p, s).lock = t.lock
           /\ Setstate(t, p, s).p = t.p
           /\ Setstate(t, p, s).up = t.up
           /\ Setstate(t, p, s).state = [t.state EXCEPT ![p] = s]
<1> USE NoneAssumption
<1> t \in Table
  BY DEF Sound
<1> DEFINE u == Setstate(t, p, s)
<1>1. /\ u \in Table
      /\ u.p = t.p
      /\ u.state = [t.state EXCEPT ![p] = s]
      /\ u.r = t.r
      /\ u.notepending = t.notepending
      /\ u.lock = t.lock
      /\ u.up = t.up
      /\ u.doublesleep = t.doublesleep
  BY Zenon DEF Table, Setstate
<1> HIDE DEF u
<1>2. Paired(u)
  BY <1>1 DEF Sound, Table, Paired, CanWake
<1>3. NoteSeen(u) /\ OneUp(u)
  BY <1>1 DEF Sound, Table, NoteSeen, OneUp
<1>4. Queued(u)
  BY <1>1 DEF Sound, Table, Queued, Waits
<1> QED
  BY <1>1, <1>2, <1>3, <1>4 DEF Sound, u

\* postnote: the note is pending for a process that is not asleep any more.
LEMMA PostnoteSound ==
    ASSUME NEW t, Sound(t), NEW p \in Proc
    PROVE  /\ Sound(Postnote(t, p))
           /\ Postnote(t, p).doublesleep = t.doublesleep
           /\ Postnote(t, p).lock = t.lock
           /\ Postnote(t, p).up = t.up
           /\ \A r \in Rid : Postnote(t, p).p[r] \in {t.p[r], NoProc}
           /\ Postnote(t, p).state =
                 IF NoteWakes(t, p) THEN [t.state EXCEPT ![p] = "Ready"]
                 ELSE t.state
<1> USE NoneAssumption
<1> t \in Table
  BY DEF Sound
<1> DEFINE u == Postnote(t, p)
           n == [t EXCEPT !.notepending[p] = TRUE]
<1>n. /\ n \in Table
      /\ n.p = t.p
      /\ n.state = t.state
      /\ n.r = t.r
      /\ n.notepending = [t.notepending EXCEPT ![p] = TRUE]
      /\ n.lock = t.lock
      /\ n.up = t.up
      /\ n.doublesleep = t.doublesleep
  BY Zenon DEF Table
<1> HIDE DEF n
<1>1. CASE t.state[p] = "Wakeme" /\ t.r[p] # NoRid
  <2>0. t.r[p] \in Rid /\ t.p[t.r[p]] = p
    BY <1>1 DEF Table, Sound, Paired
  <2>1. u = [n EXCEPT !.p[t.r[p]] = NoProc, !.r[p] = NoRid,
                      !.twhen[p] = FALSE, !.state[p] = "Ready"]
    BY <1>1 DEF Postnote, n
  <2> HIDE DEF u
  <2>2. /\ u \in Table
        /\ u.p = [n.p EXCEPT ![t.r[p]] = NoProc]
        /\ u.state = [n.state EXCEPT ![p] = "Ready"]
        /\ u.r = [n.r EXCEPT ![p] = NoRid]
        /\ u.notepending = n.notepending
        /\ u.lock = n.lock
        /\ u.up = n.up
        /\ u.doublesleep = n.doublesleep
    BY <1>n, <2>0, <2>1, Zenon DEF Table, State
  <2>3. Paired(u)
    BY <1>n, <1>1, <2>0, <2>2 DEF Sound, Table, Paired, CanWake
  <2>4. NoteSeen(u) /\ OneUp(u)
    BY <1>n, <1>1, <2>2 DEF Sound, Table, NoteSeen, OneUp
  <2>5. Queued(u)
    BY <1>n, <1>1, <2>2 DEF Sound, Table, Queued, Waits
  <2> QED
    BY <1>n, <1>1, <2>0, <2>2, <2>3, <2>4, <2>5 DEF Sound, Table, NoteWakes, u
<1>2. CASE ~(t.state[p] = "Wakeme" /\ t.r[p] # NoRid)
  <2>1. t.state[p] # "Wakeme"
    BY <1>2 DEF Sound, Paired
  <2>2. Sound(n)
    BY <1>n, <2>1 DEF Sound, Table, Paired, CanWake, NoteSeen, OneUp, Queued,
                      Waits
  <2>3. CASE t.state[p] = "Rendezvous"
    <3>1. u = Setstate(n, p, "Ready")
      BY <1>2, <2>3 DEF Postnote, Ready, n
    <3> QED
      BY <1>n, <2>2, <2>3, <3>1, SetstateSound DEF State, NoteWakes
  <2>4. CASE t.state[p] # "Rendezvous"
    <3>1. u = n
      BY <1>2, <2>4 DEF Postnote, n
    <3> QED
      BY <1>n, <1>2, <2>2, <2>4, <3>1 DEF NoteWakes
  <2> QED
    BY <2>3, <2>4
<1> QED
  BY <1>1, <1>2

\* interrupted: taking notice of a note disturbs nothing.
LEMMA InterruptedSound ==
    ASSUME NEW t, Sound(t), NEW p \in Proc
    PROVE  /\ Sound(Interrupted(t, p))
           /\ Interrupted(t, p).doublesleep = t.doublesleep
           /\ Interrupted(t, p).lock = t.lock
           /\ Interrupted(t, p).state = t.state
           /\ Interrupted(t, p).p = t.p
           /\ Interrupted(t, p).up = t.up
<1> DEFINE u == Interrupted(t, p)
<1>1. /\ u \in Table
      /\ u.p = t.p
      /\ u.state = t.state
      /\ u.r = t.r
      /\ u.notepending = [t.notepending EXCEPT ![p] = FALSE]
      /\ u.lock = t.lock
      /\ u.up = t.up
      /\ u.doublesleep = t.doublesleep
  BY Zenon DEF Sound, Table, Interrupted
<1> HIDE DEF u
<1>2. Sound(u)
  BY <1>1 DEF Sound, Table, Paired, CanWake, NoteSeen, Queued, Waits, OneUp
<1> QED
  BY <1>1, <1>2 DEF u

\* schedinit's switch: whoever was Running is Ready, so nobody is Running.
LEMMA LeftSound ==
    ASSUME NEW t, Sound(t), NEW p \in Proc, t.up = p
    PROVE  /\ Sound(Left(t, p))
           /\ Left(t, p).doublesleep = t.doublesleep
           /\ Left(t, p).lock = t.lock
           /\ Left(t, p).p = t.p
           /\ Left(t, p).up = NoProc
           /\ \A q \in Proc \ {p} : Left(t, p).state[q] = t.state[q]
           /\ Left(t, p).state[p] = "Ready" <=>
                 t.state[p] \in {"Running", "Ready"}
           /\ t.state[p] \in {"Queueing", "Wakeme"} =>
                 Left(t, p).state[p] = t.state[p]
<1> USE NoneAssumption
<1> t \in Table
  BY DEF Sound
<1> DEFINE u == Left(t, p)
           s == CASE t.state[p] = "Running"  -> "Ready"
                  [] t.state[p] = "Moribund" -> "Dead"
                  [] OTHER                   -> t.state[p]
<1>0. /\ s \in State
      /\ s # "Running"
      /\ s = "Wakeme" <=> t.state[p] = "Wakeme"
      /\ s = "Queueing" <=> t.state[p] = "Queueing"
      /\ s = "Ready" <=> t.state[p] \in {"Running", "Ready"}
      /\ t.state[p] \in {"Queueing", "Wakeme"} => s = t.state[p]
  <2>1. t.state[p] \in State
    BY DEF Table
  <2> QED
    BY <2>1 DEF State
<1>1. u = [t EXCEPT !.up = NoProc, !.state[p] = s]
  BY DEF Left
<1> HIDE DEF u, s
<1>2. /\ u \in Table
      /\ u.p = t.p
      /\ u.state = [t.state EXCEPT ![p] = s]
      /\ u.r = t.r
      /\ u.notepending = t.notepending
      /\ u.lock = t.lock
      /\ u.up = NoProc
      /\ u.doublesleep = t.doublesleep
  BY <1>0, <1>1, Zenon DEF Table
<1>3. Paired(u)
  BY <1>0, <1>2 DEF Sound, Table, Paired, CanWake
<1>4. NoteSeen(u) /\ OneUp(u)
  BY <1>0, <1>2 DEF Sound, Table, NoteSeen, OneUp
<1>5. Queued(u)
  BY <1>0, <1>2 DEF Sound, Table, Queued, Waits
<1>6. /\ \A q \in Proc \ {p} : u.state[q] = t.state[q]
      /\ u.state[p] = "Ready" <=> t.state[p] \in {"Running", "Ready"}
      /\ t.state[p] \in {"Queueing", "Wakeme"} => u.state[p] = t.state[p]
  BY <1>0, <1>2 DEF Table
<1> QED
  BY <1>2, <1>3, <1>4, <1>5, <1>6 DEF Sound, u

\* sched enters a Ready process when nobody is up.
LEMMA EnterSound ==
    ASSUME NEW t, Sound(t), NEW p \in Proc, t.up = NoProc, t.state[p] = "Ready"
    PROVE  /\ Sound(Enter(t, p))
           /\ Enter(t, p).doublesleep = t.doublesleep
           /\ Enter(t, p).lock = t.lock
           /\ Enter(t, p).p = t.p
           /\ Enter(t, p).up = p
           /\ Enter(t, p).state = [t.state EXCEPT ![p] = "Running"]
<1> USE NoneAssumption
<1> t \in Table
  BY DEF Sound
<1> DEFINE u == Enter(t, p)
<1>2. /\ u \in Table
      /\ u.p = t.p
      /\ u.state = [t.state EXCEPT ![p] = "Running"]
      /\ u.r = t.r
      /\ u.notepending = t.notepending
      /\ u.lock = t.lock
      /\ u.up = p
      /\ u.doublesleep = t.doublesleep
  BY Zenon DEF Enter, Table, State
<1> HIDE DEF u
<1>3. Paired(u)
  BY <1>2 DEF Sound, Table, Paired, CanWake
<1>4. NoteSeen(u) /\ OneUp(u)
  BY <1>2 DEF Sound, Table, NoteSeen, OneUp
<1>5. Queued(u)
  BY <1>2 DEF Sound, Table, Queued, Waits
<1> QED
  BY <1>2, <1>3, <1>4, <1>5 DEF Sound, u

\* What qlock does to the locks.
Locking(t, u, p, l) ==
    /\ u.doublesleep = t.doublesleep
    /\ u.p = t.p
    /\ u.up = t.up
    /\ u.lock[l].locked
    /\ t.lock[l].locked =>
          /\ u.state = [t.state EXCEPT ![p] = "Queueing"]
          /\ u.lock[l].q = Append(t.lock[l].q, p)
    /\ ~t.lock[l].locked =>
          /\ u.state = t.state
          /\ u.lock[l].q = t.lock[l].q
    /\ \A m \in Qlk \ {l} : u.lock[m] = t.lock[m]

\* qlock by the running process, which is in no queue yet.
LEMMA QlockSound ==
    ASSUME NEW t, Sound(t), NEW p \in Proc, NEW l \in Qlk, IsRunning(t, p)
    PROVE  Sound(Qlock(t, l, p)) /\ Locking(t, Qlock(t, l, p), p, l)
<1> USE NoneAssumption
<1> t \in Table
  BY DEF Sound
<1> DEFINE u == Qlock(t, l, p)
           q == t.lock[l].q
<1>q. q \in Seq(Proc) /\ t.lock[l].locked \in BOOLEAN
  BY DEF Table
<1>1. CASE t.lock[l].locked
  <2>1. u = [t EXCEPT !.lock[l].q = Append(@, p), !.state[p] = "Queueing"]
    BY <1>1 DEF Qlock
  <2> DEFINE a == Append(q, p)
  <2>a. /\ a \in Seq(Proc)
        /\ DOMAIN a = 1 .. (Len(q) + 1)
        /\ DOMAIN q = 1 .. Len(q)
        /\ Len(q) \in Nat
        /\ \A i \in 1 .. Len(q) : a[i] = q[i]
        /\ a[Len(q) + 1] = p
        /\ a # <<>>
    BY <1>q, AppendFacts
  <2> DEFINE k == [t.lock EXCEPT ![l].q = a]
  <2>k. /\ k \in [Qlk -> [locked : BOOLEAN, q : Seq(Proc)]]
        /\ k[l].q = a
        /\ k[l].locked = t.lock[l].locked
        /\ \A m \in Qlk \ {l} : k[m] = t.lock[m]
    <3> HIDE DEF a
    <3>1. t.lock \in [Qlk -> [locked : BOOLEAN, q : Seq(Proc)]]
      BY DEF Table
    <3>2. [t.lock[l] EXCEPT !.q = a] \in [locked : BOOLEAN, q : Seq(Proc)]
      BY <2>a, <3>1
    <3>3. k = [t.lock EXCEPT ![l] = [t.lock[l] EXCEPT !.q = a]]
      BY <3>1
    <3> QED
      BY <2>a, <3>1, <3>2, <3>3
  <2>l. u.lock = k
    BY <2>1 DEF Table
  <2> HIDE DEF u, a, k
  <2>2. /\ u \in Table
        /\ u.p = t.p
        /\ u.state = [t.state EXCEPT ![p] = "Queueing"]
        /\ u.r = t.r
        /\ u.notepending = t.notepending
        /\ u.lock = k
        /\ u.up = t.up
        /\ u.doublesleep = t.doublesleep
    BY <2>1, <2>l, <2>k, Zenon DEF Table, State
  <2>3. Paired(u)
    BY <2>2 DEF Sound, Table, Paired, CanWake, IsRunning
  <2>4. NoteSeen(u) /\ OneUp(u)
    BY <2>2 DEF Sound, Table, NoteSeen, OneUp, IsRunning
  <2>5. Queued(u)
    <3> HIDE DEF q
    <3>1. \A m \in Qlk : k[m].q # <<>> => k[m].locked
      BY <1>1, <2>k, Zenon DEF Sound, Queued
    <3>2. \A m \in Qlk : \A i \in DOMAIN t.lock[m].q : t.lock[m].q[i] # p
      BY DEF Sound, Queued, Waits, IsRunning
    <3>3. \A m \in Qlk \ {l} : u.lock[m].q = t.lock[m].q
      BY <2>2, <2>k
    <3>4. u.lock[l].q = a /\ t.lock[l].q = q
      BY <2>2, <2>k DEF q
    <3>5. \A x \in Proc : u.state[x] = "Queueing" <=>
             \E m \in Qlk : \E i \in DOMAIN u.lock[m].q : Waits(u, x, m, i)
      <4> SUFFICES ASSUME NEW x \in Proc
                   PROVE  u.state[x] = "Queueing" <=>
                            \E m \in Qlk : \E i \in DOMAIN u.lock[m].q :
                               Waits(u, x, m, i)
        BY Zenon
      <4>1. CASE x = p
        <5>1. Waits(u, p, l, Len(q) + 1)
          BY <2>a, <3>4 DEF Waits
        <5> QED
          BY <2>2, <2>a, <3>4, <4>1, <5>1 DEF Table, Waits
      <4>2. CASE x # p
        <5>1. \A m \in Qlk : \A i : Waits(u, x, m, i) <=> Waits(t, x, m, i)
          BY <2>a, <3>3, <3>4, <4>2 DEF Waits
        <5>2. u.state[x] = t.state[x]
          BY <2>2, <4>2 DEF Table
        <5>3. t.state[x] = "Queueing" <=>
                 \E m \in Qlk : \E i \in DOMAIN t.lock[m].q : Waits(t, x, m, i)
          BY DEF Sound, Queued
        <5> QED
          BY <5>1, <5>2, <5>3 DEF Waits
      <4> QED
        BY <4>1, <4>2
    <3>6. \A m, n \in Qlk :
             \A i \in DOMAIN u.lock[m].q, j \in DOMAIN u.lock[n].q :
                u.lock[m].q[i] = u.lock[n].q[j] => m = n /\ i = j
      <4> SUFFICES ASSUME NEW m \in Qlk, NEW n \in Qlk,
                          NEW i \in DOMAIN u.lock[m].q,
                          NEW j \in DOMAIN u.lock[n].q,
                          u.lock[m].q[i] = u.lock[n].q[j]
                   PROVE  m = n /\ i = j
        OBVIOUS
      <4>1. \A v, w \in Qlk :
               \A x \in DOMAIN t.lock[v].q, y \in DOMAIN t.lock[w].q :
                  t.lock[v].q[x] = t.lock[w].q[y] => v = w /\ x = y
        BY DEF Sound, Queued
      <4>2. \/ m = l /\ i = Len(q) + 1 /\ u.lock[m].q[i] = p
            \/ i \in DOMAIN t.lock[m].q /\ u.lock[m].q[i] = t.lock[m].q[i]
        BY <2>a, <3>3, <3>4
      <4>3. \/ n = l /\ j = Len(q) + 1 /\ u.lock[n].q[j] = p
            \/ j \in DOMAIN t.lock[n].q /\ u.lock[n].q[j] = t.lock[n].q[j]
        BY <2>a, <3>3, <3>4
      <4> QED
        BY <3>2, <4>1, <4>2, <4>3
    <3> QED
      BY <2>2, <3>1, <3>5, <3>6 DEF Queued
  <2> QED
    BY <1>1, <2>2, <2>k, <2>3, <2>4, <2>5 DEF Sound, Locking, u, a, q
<1>2. CASE ~t.lock[l].locked
  <2>1. u = [t EXCEPT !.lock[l].locked = TRUE]
    BY <1>2 DEF Qlock
  <2> DEFINE k == [t.lock EXCEPT ![l].locked = TRUE]
  <2>k. /\ k \in [Qlk -> [locked : BOOLEAN, q : Seq(Proc)]]
        /\ k[l].locked
        /\ \A m \in Qlk : k[m].q = t.lock[m].q
        /\ \A m \in Qlk \ {l} : k[m] = t.lock[m]
    <3>1. t.lock \in [Qlk -> [locked : BOOLEAN, q : Seq(Proc)]]
      BY DEF Table
    <3>2. [t.lock[l] EXCEPT !.locked = TRUE]
             \in [locked : BOOLEAN, q : Seq(Proc)]
      BY <3>1, Zenon
    <3>3. k = [t.lock EXCEPT ![l] = [t.lock[l] EXCEPT !.locked = TRUE]]
      BY <3>1
    <3> QED
      BY <3>1, <3>2, <3>3
  <2> HIDE DEF k
  <2>2. /\ u \in Table
        /\ u.p = t.p
        /\ u.state = t.state
        /\ u.r = t.r
        /\ u.notepending = t.notepending
        /\ u.lock = k
        /\ u.up = t.up
        /\ u.doublesleep = t.doublesleep
    BY <2>1, <2>k, Zenon DEF Table, k
  <2> HIDE DEF u
  <2>3. Paired(u) /\ NoteSeen(u) /\ OneUp(u)
    BY <2>2 DEF Sound, Paired, CanWake, NoteSeen, OneUp
  <2>5. Queued(u)
    <3>1. \A m \in Qlk : k[m].q # <<>> => k[m].locked
      BY <2>k DEF Sound, Queued
    <3>2. \A m \in Qlk : u.lock[m].q = t.lock[m].q
      BY <2>2, <2>k
    <3>3. \A x \in Proc : u.state[x] = "Queueing" <=>
             \E m \in Qlk : \E i \in DOMAIN u.lock[m].q : Waits(u, x, m, i)
      BY <2>2, <3>2 DEF Sound, Queued, Waits
    <3>4. \A m, n \in Qlk :
             \A i \in DOMAIN u.lock[m].q, j \in DOMAIN u.lock[n].q :
                u.lock[m].q[i] = u.lock[n].q[j] => m = n /\ i = j
      BY <3>2 DEF Sound, Queued
    <3> QED
      BY <2>2, <3>1, <3>3, <3>4 DEF Queued
  <2> QED
    BY <1>2, <2>2, <2>k, <2>3, <2>5 DEF Sound, Locking, u
<1> QED
  BY <1>1, <1>2

\* qunlock: the head of the queue is Ready, and waits no more.
LEMMA QunlockSound ==
    ASSUME NEW t, Sound(t), NEW l \in Qlk
    PROVE  /\ Sound(Qunlock(t, l))
           /\ Qunlock(t, l).doublesleep = t.doublesleep
           /\ Qunlock(t, l).p = t.p
           /\ Qunlock(t, l).up = t.up
           /\ Qunlock(t, l).state =
                 IF t.lock[l].q # <<>>
                 THEN [t.state EXCEPT ![Head(t.lock[l].q)] = "Ready"]
                 ELSE t.state
           /\ Qunlock(t, l).lock[l].locked <=> t.lock[l].q # <<>>
           /\ Qunlock(t, l).lock[l].q =
                 IF t.lock[l].q # <<>> THEN Tail(t.lock[l].q)
                 ELSE t.lock[l].q
           /\ \A m \in Qlk \ {l} : Qunlock(t, l).lock[m] = t.lock[m]
<1> USE NoneAssumption
<1> t \in Table
  BY DEF Sound
<1> DEFINE u == Qunlock(t, l)
           q == t.lock[l].q
<1>q. q \in Seq(Proc) /\ t.lock[l].locked \in BOOLEAN
  BY DEF Table
<1>o. \A v, w \in Qlk :
         \A x \in DOMAIN t.lock[v].q, y \in DOMAIN t.lock[w].q :
            t.lock[v].q[x] = t.lock[w].q[y] => v = w /\ x = y
  BY DEF Sound, Queued
<1>1. CASE q # <<>>
  <2> DEFINE p == Head(q)
             a == Tail(q)
             k == [t.lock EXCEPT ![l].q = a]
  <2>1. u = [t EXCEPT !.lock[l].q = Tail(@), !.state[p] = "Ready"]
    BY <1>1 DEF Qunlock
  <2>a. /\ a \in Seq(Proc)
        /\ Len(q) \in Nat \ {0}
        /\ DOMAIN q = 1 .. Len(q)
        /\ DOMAIN a = 1 .. (Len(q) - 1)
        /\ \A i \in 1 .. (Len(q) - 1) : a[i] = q[i + 1]
        /\ p = q[1]
        /\ p \in Proc
    BY <1>1, <1>q, TailFacts
  <2>k. /\ k \in [Qlk -> [locked : BOOLEAN, q : Seq(Proc)]]
        /\ k[l].q = a
        /\ k[l].locked = t.lock[l].locked
        /\ \A m \in Qlk \ {l} : k[m] = t.lock[m]
    <3> HIDE DEF a
    <3>1. t.lock \in [Qlk -> [locked : BOOLEAN, q : Seq(Proc)]]
      BY DEF Table
    <3>2. [t.lock[l] EXCEPT !.q = a] \in [locked : BOOLEAN, q : Seq(Proc)]
      BY <2>a, <3>1
    <3>3. k = [t.lock EXCEPT ![l] = [t.lock[l] EXCEPT !.q = a]]
      BY <3>1
    <3> QED
      BY <2>a, <3>1, <3>2, <3>3
  <2>l. u.lock = k
    BY <2>1 DEF Table
  <2> HIDE DEF u, a, k, p, q
  <2>2. /\ u \in Table
        /\ u.p = t.p
        /\ u.state = [t.state EXCEPT ![p] = "Ready"]
        /\ u.r = t.r
        /\ u.notepending = t.notepending
        /\ u.lock = k
        /\ u.up = t.up
        /\ u.doublesleep = t.doublesleep
    BY <2>1, <2>l, <2>k, <2>a, Zenon DEF Table, State
  <2>p. /\ t.lock[l].q = q
        /\ u.lock[l].q = a
        /\ \A m \in Qlk \ {l} : u.lock[m].q = t.lock[m].q
    BY <2>2, <2>k DEF q
  <2>w. Waits(t, p, l, 1) /\ t.state[p] = "Queueing"
    BY <2>a, <2>p DEF Waits, Sound, Queued
  <2>3. Paired(u)
    BY <2>2, <2>a, <2>w DEF Sound, Table, Paired, CanWake
  <2>4. NoteSeen(u) /\ OneUp(u)
    BY <2>2, <2>a, <2>w DEF Sound, Table, NoteSeen, OneUp
  <2>5. Queued(u)
    <3>1. \A m \in Qlk : k[m].q # <<>> => k[m].locked
      BY <1>1, <2>k, <2>p DEF Sound, Queued
    <3>5. \A x \in Proc : u.state[x] = "Queueing" <=>
             \E m \in Qlk : \E i \in DOMAIN u.lock[m].q : Waits(u, x, m, i)
      <4> SUFFICES ASSUME NEW x \in Proc
                   PROVE  u.state[x] = "Queueing" <=>
                            \E m \in Qlk : \E i \in DOMAIN u.lock[m].q :
                               Waits(u, x, m, i)
        BY Zenon
      <4>1. CASE x = p
        <5>1. u.state[x] # "Queueing"
          BY <2>2, <2>a, <4>1 DEF Table
        <5>2. \A i \in DOMAIN u.lock[l].q : u.lock[l].q[i] # p
          <6> SUFFICES ASSUME NEW i \in 1 .. (Len(q) - 1), a[i] = p
                       PROVE  FALSE
            BY <2>a, <2>p
          <6>1. i + 1 \in DOMAIN q /\ 1 \in DOMAIN q /\ q[i + 1] = q[1]
            BY <2>a
          <6>2. i + 1 = 1
            BY <1>o, <2>p, <6>1
          <6> QED
            BY <6>2
        <5>3. \A m \in Qlk \ {l} : \A i \in DOMAIN u.lock[m].q :
                 u.lock[m].q[i] # p
          BY <1>o, <2>a, <2>p
        <5> QED
          BY <4>1, <5>1, <5>2, <5>3 DEF Waits
      <4>2. CASE x # p
        <5>1. \A m \in Qlk \ {l} : \A i : Waits(u, x, m, i) <=> Waits(t, x, m, i)
          BY <2>p DEF Waits
        <5>2. \A i : Waits(u, x, l, i) => i + 1 \in DOMAIN q /\ Waits(t, x, l, i + 1)
          BY <2>a, <2>p DEF Waits
        <5>3. \A i : Waits(t, x, l, i) => i - 1 \in DOMAIN a /\ Waits(u, x, l, i - 1)
          BY <2>a, <2>p, <4>2 DEF Waits
        <5>4. u.state[x] = t.state[x]
          BY <2>2, <4>2 DEF Table
        <5>5. t.state[x] = "Queueing" <=>
                 \E m \in Qlk : \E i \in DOMAIN t.lock[m].q : Waits(t, x, m, i)
          BY DEF Sound, Queued
        <5>6. (\E m \in Qlk : \E i \in DOMAIN t.lock[m].q : Waits(t, x, m, i))
               <=> \E m \in Qlk : \E i \in DOMAIN u.lock[m].q : Waits(u, x, m, i)
          BY <2>p, <5>1, <5>2, <5>3 DEF Waits
        <5> QED
          BY <5>4, <5>5, <5>6
      <4> QED
        BY <4>1, <4>2
    <3>6. \A m, n \in Qlk :
             \A i \in DOMAIN u.lock[m].q, j \in DOMAIN u.lock[n].q :
                u.lock[m].q[i] = u.lock[n].q[j] => m = n /\ i = j
      <4> SUFFICES ASSUME NEW m \in Qlk, NEW n \in Qlk,
                          NEW i \in DOMAIN u.lock[m].q,
                          NEW j \in DOMAIN u.lock[n].q,
                          u.lock[m].q[i] = u.lock[n].q[j]
                   PROVE  m = n /\ i = j
        OBVIOUS
      <4>1. /\ m = l => /\ i \in Nat
                        /\ i + 1 \in DOMAIN t.lock[m].q
                        /\ u.lock[m].q[i] = t.lock[m].q[i + 1]
            /\ m # l => u.lock[m].q = t.lock[m].q
        BY <2>a, <2>p
      <4>2. /\ n = l => /\ j \in Nat
                        /\ j + 1 \in DOMAIN t.lock[n].q
                        /\ u.lock[n].q[j] = t.lock[n].q[j + 1]
            /\ n # l => u.lock[n].q = t.lock[n].q
        BY <2>a, <2>p
      <4>3. CASE m = l /\ n = l
        <5>1. i + 1 = j + 1
          BY <1>o, <4>1, <4>2, <4>3
        <5> QED
          BY <4>1, <4>2, <4>3, <5>1
      <4>4. CASE m = l /\ n # l
        <5> DEFINE x == i + 1
        <5>1. x \in DOMAIN t.lock[m].q /\ t.lock[m].q[x] = t.lock[n].q[j]
          BY <4>1, <4>2, <4>4
        <5> HIDE DEF x
        <5> QED
          BY <1>o, <4>2, <4>4, <5>1
      <4>5. CASE m # l /\ n = l
        <5> DEFINE x == j + 1
        <5>1. x \in DOMAIN t.lock[n].q /\ t.lock[n].q[x] = t.lock[m].q[i]
          BY <4>1, <4>2, <4>5
        <5> HIDE DEF x
        <5> QED
          BY <1>o, <4>1, <4>5, <5>1
      <4>6. CASE m # l /\ n # l
        BY <1>o, <4>1, <4>2, <4>6
      <4> QED
        BY <4>3, <4>4, <4>5, <4>6
    <3> QED
      BY <2>2, <3>1, <3>5, <3>6 DEF Queued
  <2> QED
    <3>1. t.lock[l].locked
      BY <1>1 DEF Sound, Queued, q
    <3> QED
      BY <1>1, <2>2, <2>k, <2>3, <2>4, <2>5, <3>1 DEF Sound, u, a, q, p
<1>2. CASE q = <<>>
  <2> DEFINE k == [t.lock EXCEPT ![l].locked = FALSE]
  <2>1. u = [t EXCEPT !.lock[l].locked = FALSE]
    BY <1>2 DEF Qunlock
  <2>k. /\ k \in [Qlk -> [locked : BOOLEAN, q : Seq(Proc)]]
        /\ \A m \in Qlk : k[m].q = t.lock[m].q
        /\ ~k[l].locked
        /\ \A m \in Qlk \ {l} : k[m] = t.lock[m]
    <3>1. t.lock \in [Qlk -> [locked : BOOLEAN, q : Seq(Proc)]]
      BY DEF Table
    <3>2. [t.lock[l] EXCEPT !.locked = FALSE]
             \in [locked : BOOLEAN, q : Seq(Proc)]
      BY <3>1, Zenon
    <3>3. k = [t.lock EXCEPT ![l] = [t.lock[l] EXCEPT !.locked = FALSE]]
      BY <3>1
    <3> QED
      BY <3>1, <3>2, <3>3
  <2> HIDE DEF k
  <2>2. /\ u \in Table
        /\ u.p = t.p
        /\ u.state = t.state
        /\ u.r = t.r
        /\ u.notepending = t.notepending
        /\ u.lock = k
        /\ u.up = t.up
        /\ u.doublesleep = t.doublesleep
    BY <2>1, <2>k, Zenon DEF Table, k
  <2> HIDE DEF u
  <2>3. Paired(u) /\ NoteSeen(u) /\ OneUp(u)
    BY <2>2 DEF Sound, Paired, CanWake, NoteSeen, OneUp
  <2>5. Queued(u)
    <3>1. \A m \in Qlk : k[m].q # <<>> => k[m].locked
      BY <1>2, <2>k DEF Sound, Queued
    <3>2. \A m \in Qlk : u.lock[m].q = t.lock[m].q
      BY <2>2, <2>k
    <3>3. \A x \in Proc : u.state[x] = "Queueing" <=>
             \E m \in Qlk : \E i \in DOMAIN u.lock[m].q : Waits(u, x, m, i)
      BY <2>2, <3>2 DEF Sound, Queued, Waits
    <3>4. \A m, n \in Qlk :
             \A i \in DOMAIN u.lock[m].q, j \in DOMAIN u.lock[n].q :
                u.lock[m].q[i] = u.lock[n].q[j] => m = n /\ i = j
      BY <1>o, <3>2
    <3> QED
      BY <2>2, <3>1, <3>3, <3>4 DEF Queued
  <2> QED
    BY <1>2, <2>2, <2>k, <2>3, <2>5 DEF Sound, u
<1> QED
  BY <1>1, <1>2
\* rfork and kproc: the entry was nobody's, so it was on no Rendez and no queue.
LEMMA NewprocSound ==
    ASSUME NEW t, Sound(t), NEW p \in Proc, t.state[p] = "Dead"
    PROVE  /\ Sound(Newproc(t, p))
           /\ Newproc(t, p).doublesleep = t.doublesleep
           /\ Newproc(t, p).lock = t.lock
           /\ Newproc(t, p).p = t.p
           /\ Newproc(t, p).up = t.up
           /\ Newproc(t, p).state = [t.state EXCEPT ![p] = "Ready"]
<1> USE NoneAssumption
<1> t \in Table
  BY DEF Sound
<1> DEFINE u == Newproc(t, p)
<1>0. t.r[p] = NoRid
  BY DEF Sound, Paired
<1>1. /\ u \in Table
      /\ u.p = t.p
      /\ u.state = [t.state EXCEPT ![p] = "Ready"]
      /\ u.r = t.r
      /\ u.notepending = [t.notepending EXCEPT ![p] = FALSE]
      /\ u.lock = t.lock
      /\ u.up = t.up
      /\ u.doublesleep = t.doublesleep
  BY <1>0, Zenon DEF Table, State, Newproc, Ready, Setstate
<1> HIDE DEF u
<1>2. Paired(u)
  BY <1>1 DEF Sound, Table, Paired, CanWake
<1>3. NoteSeen(u) /\ OneUp(u)
  BY <1>1 DEF Sound, Table, NoteSeen, OneUp
<1>4. Queued(u)
  BY <1>1 DEF Sound, Table, Queued, Waits
<1> QED
  BY <1>1, <1>2, <1>3, <1>4 DEF Sound, u

\* The table the system begins with.
LEMMA InitSound ==
    ASSUME NEW p \in Proc, NEW S
    PROVE  Sound(InitTable(p, S))
<1> USE NoneAssumption
<1> DEFINE t == InitTable(p, S)
<1>1. /\ t.p = [r \in Rid |-> NoProc]
      /\ t.state = [q \in Proc |-> IF q = p THEN "Running"
                                   ELSE IF q \in S THEN "Ready" ELSE "Dead"]
      /\ t.r = [q \in Proc |-> NoRid]
      /\ t.twhen = [q \in Proc |-> FALSE]
      /\ t.notepending = [q \in Proc |-> FALSE]
      /\ t.lock = [l \in Qlk |-> [locked |-> FALSE, q |-> <<>>]]
      /\ t.up = p
      /\ t.doublesleep = FALSE
  BY DEF InitTable
<1>2. t \in Table
  <2>1. t.lock \in [Qlk -> [locked : BOOLEAN, q : Seq(Proc)]]
    <3>1. << >> \in Seq(Proc)
      OBVIOUS
    <3>2. [locked |-> FALSE, q |-> <<>>] \in [locked : BOOLEAN, q : Seq(Proc)]
      BY <3>1
    <3> QED
      BY <1>1, <3>2
  <2> QED
    BY <1>1, <2>1 DEF Table, InitTable, State
<1> HIDE DEF t
<1>3. Paired(t)
  BY <1>1 DEF Paired
<1>4. NoteSeen(t) /\ OneUp(t)
  BY <1>1 DEF NoteSeen, OneUp
<1>5. Queued(t)
  BY <1>1 DEF Queued, Waits
<1> QED
  BY <1>2, <1>3, <1>4, <1>5 DEF Sound, t
=============================================================================
