---------------------------- MODULE SchedProofs ----------------------------
(***************************************************************************)
(* Module Coop keeps its invariants, and module Sched keeps its queues and  *)
(* implements module Coop, for any number of processes, priorities, Rendez  *)
(* and locks.                                                               *)
(*                                                                         *)
(* Coop: RendezPaired alone is not inductive, for a second process could    *)
(* sleep on a Rendez that names a sleeper.  That none can is Guarded, with  *)
(* Held: the sleeper owns the Rendez or holds its lock, and so does who     *)
(* would sleep.                                                             *)
(*                                                                         *)
(* Sched: the argument goes by the set of the Ready processes: every step   *)
(* leaves it alone, adds one process or, when one is entered, takes one     *)
(* out, and the queues follow.  That the process entered was Ready, which   *)
(* is what Coop asks for, is what the queues say.                           *)
(***************************************************************************)
EXTENDS Sched, ProcsProofs, FiniteSetTheorems

\* The prover of every step that names no other.
USE ZenonT(40)
-----------------------------------------------------------------------------
(* Coop.                                                                    *)

\* The running process may sleep on r only if nobody is asleep on it.
LEMMA NobodyOn ==
    ASSUME CoopInv, NEW p \in Proc, NEW r \in Rid, IsRunning(procs, p),
           MaySleepOn(p, r)
    PROVE  procs.p[r] = NoProc
<1> USE NoneAssumption, GuardAssumption
<1> SUFFICES ASSUME procs.p[r] # NoProc
             PROVE  FALSE
  OBVIOUS
<1> DEFINE x == procs.p[r]
<1>1. x \in Proc
  BY DEF CoopInv, Sound, Table
<1>2. MaySleepOn(x, r)
  BY DEF CoopInv, Guarded
<1>3. x = p
  BY <1>1, <1>2 DEF MaySleepOn, CoopInv
<1>4. procs.state[x] = "Wakeme"
  BY DEF CoopInv, Sound, Paired, CanWake
<1> QED
  BY <1>3, <1>4 DEF IsRunning

\* A step that leaves the locks alone and puts nobody on a Rendez.
LEMMA PutsNobody ==
    ASSUME CoopInv, Sound(procs'), UNCHANGED holder,
           procs'.doublesleep = procs.doublesleep,
           procs'.lock = procs.lock,
           \A r \in Rid : procs'.p[r] \in {procs.p[r], NoProc}
    PROVE  CoopInv'
<1>1. Held'
  BY DEF CoopInv, Held
<1>2. Guarded'
  BY DEF CoopInv, Guarded, MaySleepOn
<1> QED
  BY <1>1, <1>2 DEF CoopInv, NoDoubleSleep

\* sleep, timed or not.
LEMMA SleepKeeps ==
    ASSUME CoopInv, NEW p \in Proc, NEW r \in Rid, IsRunning(procs, p),
           MaySleepOn(p, r), UNCHANGED holder, Sound(procs'),
           procs'.doublesleep = procs.doublesleep,
           procs'.lock = procs.lock,
           procs'.p \in {procs.p, [procs.p EXCEPT ![r] = p]}
    PROVE  CoopInv'
<1>1. Held'
  BY DEF CoopInv, Held
<1>2. \A x \in Rid : procs'.p[x] = procs.p[x] \/ (x = r /\ procs'.p[x] = p)
  BY DEF CoopInv, Sound, Table
<1>3. Guarded'
  BY <1>2 DEF CoopInv, Guarded, MaySleepOn
<1> QED
  BY <1>1, <1>3 DEF CoopInv, NoDoubleSleep

\* qlock: who gets the lock was nobody, and who does not waits behind another.
LEMMA LockKeeps ==
    ASSUME CoopInv, NEW p \in Proc, NEW l \in Qlk, LockFor(p, l)
    PROVE  CoopInv'
<1> USE NoneAssumption
<1>1. /\ Sound(procs')
      /\ procs'.doublesleep = procs.doublesleep
      /\ procs'.p = procs.p
      /\ procs'.lock[l].locked
      /\ procs.lock[l].locked =>
            procs'.lock[l].q = Append(procs.lock[l].q, p)
      /\ ~procs.lock[l].locked => procs'.lock[l].q = procs.lock[l].q
      /\ \A m \in Qlk \ {l} : procs'.lock[m] = procs.lock[m]
  <2>1. Sound(procs) /\ IsRunning(procs, p)
    BY DEF CoopInv, LockFor
  <2> DEFINE u == Qlock(procs, l, p)
  <2>2. Sound(u) /\ Locking(procs, u, p, l)
    BY <2>1, QlockSound
  <2>3. procs' = u
    BY DEF LockFor
  <2> HIDE DEF u
  <2> QED
    BY <2>2, <2>3 DEF Locking
<1>2. /\ procs.lock \in [Qlk -> [locked : BOOLEAN, q : Seq(Proc)]]
      /\ holder \in [Qlk -> Proc \cup {NoProc}]
  BY DEF CoopInv, Sound, Table
<1>3. holder' \in [Qlk -> Proc \cup {NoProc}]
  BY <1>2 DEF LockFor
<1>4. Guarded'
  <2>1. \A m \in Qlk : holder[m] # NoProc => holder'[m] = holder[m]
    BY <1>2 DEF LockFor, CoopInv, Held
  <2>2. \A x \in Rid : procs.p[x] \in Proc \cup {NoProc}
    BY DEF CoopInv, Sound, Table
  <2> QED
    BY <1>1, <2>1, <2>2, SMTT(30) DEF CoopInv, Guarded, MaySleepOn
<1>5. Held'
  <2>1. CASE procs.lock[l].locked
    <3>1. holder' = holder /\ holder[l] # p
      BY <2>1 DEF LockFor
    <3>2. /\ procs'.lock[l].q = Append(procs.lock[l].q, p)
          /\ procs'.lock[l].locked
          /\ \A m \in Qlk \ {l} : procs'.lock[m] = procs.lock[m]
      BY <1>1, <1>2, <2>1
    <3>3. \A i \in DOMAIN procs'.lock[l].q :
             procs'.lock[l].q[i] = p \/
             (/\ i \in DOMAIN procs.lock[l].q
              /\ procs'.lock[l].q[i] = procs.lock[l].q[i])
      BY <1>2, <3>2, AppendFacts, SMTT(30)
    <3> QED
      <4> SUFFICES ASSUME NEW m \in Qlk
                   PROVE  /\ procs'.lock[m].locked <=> holder'[m] # NoProc
                          /\ \A i \in DOMAIN procs'.lock[m].q :
                                procs'.lock[m].q[i] # holder'[m]
        BY DEF Held
      <4>1. /\ procs.lock[m].locked <=> holder[m] # NoProc
            /\ \A i \in DOMAIN procs.lock[m].q : procs.lock[m].q[i] # holder[m]
        BY DEF CoopInv, Held
      <4>2. CASE m = l
        BY <2>1, <3>1, <3>2, <3>3, <4>1, <4>2
      <4>3. CASE m # l
        BY <3>1, <3>2, <4>1, <4>3
      <4> QED
        BY <4>2, <4>3
  <2>2. CASE ~procs.lock[l].locked
    <3>1. holder' = [holder EXCEPT ![l] = p]
      BY <2>2 DEF LockFor
    <3>2. /\ procs'.lock[l].q = procs.lock[l].q
          /\ procs'.lock[l].locked
          /\ \A m \in Qlk \ {l} : procs'.lock[m] = procs.lock[m]
      BY <1>1, <1>2, <2>2
    <3>3. procs.lock[l].q = <<>>
      BY <2>2 DEF CoopInv, Sound, Queued
    <3> QED
      BY <1>2, <3>1, <3>2, <3>3, SMT DEF CoopInv, Held
  <2> QED
    BY <2>1, <2>2
<1> QED
  BY <1>1, <1>3, <1>4, <1>5 DEF CoopInv, NoDoubleSleep

\* qunlock: the lock goes to the first who waits, who is not waiting behind.
LEMMA UnlockKeeps ==
    ASSUME CoopInv, NEW p \in Proc, NEW l \in Qlk, Unlock(p, l)
    PROVE  CoopInv'
<1> USE NoneAssumption
<1> DEFINE q == procs.lock[l].q
<1>1. /\ Sound(procs')
      /\ procs'.doublesleep = procs.doublesleep
      /\ procs'.p = procs.p
      /\ procs'.lock[l].locked <=> q # <<>>
      /\ procs'.lock[l].q = IF q # <<>> THEN Tail(q) ELSE q
      /\ \A m \in Qlk \ {l} : procs'.lock[m] = procs.lock[m]
  <2>1. Sound(procs) /\ procs' = Qunlock(procs, l)
    BY DEF CoopInv, Unlock
  <2> DEFINE u == Qunlock(procs, l)
  <2> HIDE DEF q
  <2>2. /\ Sound(u)
        /\ u.doublesleep = procs.doublesleep
        /\ u.p = procs.p
        /\ u.lock[l].locked <=> q # <<>>
        /\ u.lock[l].q = IF q # <<>> THEN Tail(q) ELSE q
        /\ \A m \in Qlk \ {l} : u.lock[m] = procs.lock[m]
    BY <2>1, QunlockSound DEF q
  <2> HIDE DEF u
  <2>3. procs' = u
    BY <2>1 DEF u
  <2> QED
    BY <2>2, <2>3
<1>2. /\ q \in Seq(Proc)
      /\ holder \in [Qlk -> Proc \cup {NoProc}]
  BY DEF CoopInv, Sound, Table
<1>3. q # <<>> => /\ Head(q) \in Proc
                  /\ Head(q) = q[1]
                  /\ 1 \in DOMAIN q
                  /\ \A i \in DOMAIN Tail(q) : /\ i + 1 \in DOMAIN q
                                               /\ i + 1 # 1
                                               /\ Tail(q)[i] = q[i + 1]
  BY <1>2, TailFacts, SMTT(30)
<1>4. holder' = [holder EXCEPT ![l] = IF q = <<>> THEN NoProc ELSE Head(q)]
  BY DEF Unlock
<1> HIDE DEF q
<1>5. holder' \in [Qlk -> Proc \cup {NoProc}]
  BY <1>2, <1>3, <1>4
<1>6. Guarded'
  <2>1. \A x \in Rid : procs.p[x] # p
    BY SMT DEF CoopInv, Sound, Paired, CanWake, Unlock, IsRunning
  <2>2. \A m \in Qlk : holder[m] # p => holder'[m] = holder[m]
    BY <1>2, <1>4 DEF Unlock
  <2> QED
    BY <1>1, <2>1, <2>2, SMTT(30) DEF CoopInv, Guarded, MaySleepOn
<1>7. Held'
  <2> SUFFICES ASSUME NEW m \in Qlk
               PROVE  /\ procs'.lock[m].locked <=> holder'[m] # NoProc
                      /\ \A i \in DOMAIN procs'.lock[m].q :
                            procs'.lock[m].q[i] # holder'[m]
    BY DEF Held
  <2>1. CASE m # l
    BY <1>1, <1>2, <1>4, <2>1, SMT DEF CoopInv, Held
  <2>2. CASE m = l /\ q = <<>>
    BY <1>1, <1>2, <1>4, <2>2, SMTT(30)
  <2>3. CASE m = l /\ q # <<>>
    <3>1. \A i \in DOMAIN q : q[i] = q[1] => i = 1
      BY <1>3, <2>3, SMT DEF CoopInv, Sound, Queued, q
    <3>2. holder'[m] = q[1] /\ holder'[m] # NoProc /\ procs'.lock[m].q = Tail(q)
      BY <1>1, <1>2, <1>3, <1>4, <2>3
    <3>3. \A i \in DOMAIN Tail(q) : Tail(q)[i] # q[1]
      BY <1>3, <2>3, <3>1
    <3> QED
      BY <1>1, <2>3, <3>2, <3>3
  <2> QED
    BY <2>1, <2>2, <2>3
<1> QED
  BY <1>1, <1>5, <1>6, <1>7 DEF CoopInv, NoDoubleSleep

\* The locks are left alone and nobody is put on a Rendez.
Leaves(t, u) ==
    /\ u.doublesleep = t.doublesleep
    /\ u.lock = t.lock
    /\ \A r \in Rid : u.p[r] \in {t.p[r], NoProc}

\* A state set, and a wakeup after it (stop, exits).
LEMMA SetAndWake ==
    ASSUME NEW t, Sound(t), NEW p \in Proc, IsRunning(t, p), NEW r \in Rid,
           NEW s \in {"Stopped", "Moribund", "Broken"}
    PROVE  /\ Sound(Wakeup(Setstate(t, p, s), r))
           /\ Leaves(t, Wakeup(Setstate(t, p, s), r))
<1> DEFINE u == Setstate(t, p, s)
<1>1. /\ Sound(u)
      /\ u.doublesleep = t.doublesleep
      /\ u.lock = t.lock
      /\ u.p = t.p
  <2>1. /\ t.state[p] \notin {"Wakeme", "Queueing"}
        /\ s \in State \ {"Wakeme", "Queueing", "Running"}
    BY DEF State, IsRunning
  <2> QED
    BY <2>1, SetstateSound
<1> HIDE DEF u
<1>2. /\ Sound(Wakeup(u, r))
      /\ Wakeup(u, r).doublesleep = u.doublesleep
      /\ Wakeup(u, r).lock = u.lock
      /\ \A x \in Rid : Wakeup(u, r).p[x] \in {u.p[x], NoProc}
  <2>1. /\ Sound(Wakeup(u, r))
        /\ Wakeup(u, r).doublesleep = u.doublesleep
        /\ Wakeup(u, r).lock = u.lock
        /\ Wakeup(u, r).p =
                 IF CanWake(u, r) THEN [u.p EXCEPT ![r] = NoProc] ELSE u.p
    BY <1>1, WakeupSound
  <2>2. u.p \in [Rid -> Proc \cup {NoProc}]
    BY <1>1 DEF Sound, Table
  <2> QED
    BY <2>1, <2>2
<1> QED
  BY <1>1, <1>2 DEF u, Leaves

\* Every step of CoopNext keeps the invariant.
LEMMA CoopStep ==
    ASSUME CoopInv, CoopNext
    PROVE  CoopInv'
<1> USE NoneAssumption
<1>s. Sound(procs) /\ procs \in Table
  BY DEF CoopInv, Sound
<1>1. ASSUME NEW p \in Proc, NEW r \in Rid, NEW happened \in BOOLEAN,
             SleepOn(p, r, happened)
      PROVE  CoopInv'
  <2>1. IsRunning(procs, p) /\ MaySleepOn(p, r) /\ UNCHANGED holder
    BY <1>1 DEF SleepOn
  <2>2. procs.p[r] = NoProc
    BY <2>1, NobodyOn
  <2> DEFINE u == Sleep(procs, p, r, happened)
  <2>3. /\ Sound(u)
        /\ u.doublesleep = procs.doublesleep
        /\ u.lock = procs.lock
        /\ u.p = IF Sleeps(procs, p, happened)
                 THEN [procs.p EXCEPT ![r] = p] ELSE procs.p
    BY <1>s, <2>1, <2>2, SleepSound
  <2>4. procs' = u
    BY <1>1 DEF SleepOn
  <2> HIDE DEF u
  <2> QED
    BY <2>1, <2>3, <2>4, SleepKeeps
<1>2. ASSUME NEW p \in Proc, NEW r \in Rid, NEW happened \in BOOLEAN,
             SleepTimed(p, r, happened)
      PROVE  CoopInv'
  <2>1. IsRunning(procs, p) /\ MaySleepOn(p, r) /\ UNCHANGED holder
    BY <1>2 DEF SleepTimed
  <2>2. procs.p[r] = NoProc
    BY <2>1, NobodyOn
  <2> DEFINE u == Tsleep(procs, p, r, happened)
  <2>3. /\ Sound(u)
        /\ u.doublesleep = procs.doublesleep
        /\ u.lock = procs.lock
        /\ u.p = IF Sleeps(procs, p, happened)
                 THEN [procs.p EXCEPT ![r] = p] ELSE procs.p
    BY <1>s, <2>1, <2>2, TsleepSound
  <2>4. procs' = u
    BY <1>2 DEF SleepTimed
  <2> HIDE DEF u
  <2> QED
    BY <2>1, <2>3, <2>4, SleepKeeps
<1>3. ASSUME NEW r \in Rid, procs' = Wakeup(procs, r), UNCHANGED holder
      PROVE  CoopInv'
  <2> DEFINE u == Wakeup(procs, r)
  <2>1. /\ Sound(u)
        /\ u.doublesleep = procs.doublesleep
        /\ u.lock = procs.lock
        /\ u.p = IF CanWake(procs, r) THEN [procs.p EXCEPT ![r] = NoProc]
                 ELSE procs.p
    BY <1>s, WakeupSound
  <2> HIDE DEF u
  <2>2. procs.p \in [Rid -> Proc \cup {NoProc}]
    BY <1>s DEF Table
  <2>3. \A x \in Rid : u.p[x] \in {procs.p[x], NoProc}
    BY <2>1, <2>2
  <2>4. procs' = u
    BY <1>3 DEF u
  <2> QED
    BY <1>3, <2>1, <2>3, <2>4, PutsNobody
<1>4. ASSUME NEW p \in Proc, NEW r \in Rid, NEW s \in State,
             IsRunning(procs, p), s \in {"Stopped", "Moribund", "Broken"},
             procs' = Wakeup(Setstate(procs, p, s), r), UNCHANGED holder
      PROVE  CoopInv'
  <2> DEFINE u == Wakeup(Setstate(procs, p, s), r)
  <2>1. /\ Sound(u)
        /\ u.doublesleep = procs.doublesleep
        /\ u.lock = procs.lock
        /\ \A x \in Rid : u.p[x] \in {procs.p[x], NoProc}
    <3>1. Sound(procs) /\ IsRunning(procs, p)
          /\ s \in {"Stopped", "Moribund", "Broken"}
      BY <1>s, <1>4
    <3> QED
      <4>1. Sound(u) /\ Leaves(procs, u)
        BY <3>1, SetAndWake
      <4> QED
        BY <4>1 DEF Leaves
  <2>2. procs' = u
    BY <1>4
  <2> HIDE DEF u
  <2> QED
    BY <1>4, <2>1, <2>2, PutsNobody
<1>5. ASSUME NEW q \in Proc, procs' = Postnote(procs, q), UNCHANGED holder
      PROVE  CoopInv'
  <2> DEFINE u == Postnote(procs, q)
  <2>1. /\ Sound(u)
        /\ u.doublesleep = procs.doublesleep
        /\ u.lock = procs.lock
        /\ \A x \in Rid : u.p[x] \in {procs.p[x], NoProc}
    BY <1>s, PostnoteSound
  <2>2. procs' = u
    BY <1>5
  <2> HIDE DEF u
  <2> QED
    BY <1>5, <2>1, <2>2, PutsNobody
<1>6. ASSUME NEW q \in Proc, NEW s \in State \ {"Wakeme", "Queueing", "Running"},
             procs.state[q] \notin {"Wakeme", "Queueing"},
             procs' = Setstate(procs, q, s), UNCHANGED holder
      PROVE  CoopInv'
  <2> DEFINE u == Setstate(procs, q, s)
  <2>1. /\ Sound(u)
        /\ u.doublesleep = procs.doublesleep
        /\ u.lock = procs.lock
        /\ u.p = procs.p
    BY <1>s, <1>6, SetstateSound
  <2>2. procs' = u
    BY <1>6
  <2> HIDE DEF u
  <2> QED
    BY <1>6, <2>1, <2>2, PutsNobody
<1>7. ASSUME NEW q \in Proc, procs.state[q] = "Stopped",
             procs' = Ready(Postnote(procs, q), q), UNCHANGED holder
      PROVE  CoopInv'
  <2> DEFINE n == Postnote(procs, q)
             u == Setstate(n, q, "Ready")
  <2>1. /\ Sound(n)
        /\ n.doublesleep = procs.doublesleep
        /\ n.lock = procs.lock
        /\ \A x \in Rid : n.p[x] \in {procs.p[x], NoProc}
    BY <1>s, PostnoteSound
  <2>2. n.state[q] = "Stopped"
    <3>1. n = [procs EXCEPT !.notepending[q] = TRUE]
      BY <1>7 DEF Postnote
    <3> QED
      BY <1>s, <1>7, <3>1 DEF Table
  <2>3. procs' = u
    BY <1>7 DEF Ready
  <2> HIDE DEF n
  <2>4. "Ready" \in State \ {"Wakeme", "Queueing", "Running"}
    BY DEF State
  <2>5. n.state[q] \notin {"Wakeme", "Queueing"}
    BY <2>2
  <2>6. /\ Sound(u)
        /\ u.doublesleep = n.doublesleep
        /\ u.lock = n.lock
        /\ u.p = n.p
    BY <2>1, <2>4, <2>5, SetstateSound
  <2> HIDE DEF u
  <2> QED
    BY <1>7, <2>1, <2>3, <2>6, PutsNobody
<1>8. ASSUME NEW q \in Proc, procs.state[q] = "Dead",
             procs' = Newproc(procs, q), UNCHANGED holder
      PROVE  CoopInv'
  <2> DEFINE u == Newproc(procs, q)
  <2>1. /\ Sound(u)
        /\ u.doublesleep = procs.doublesleep
        /\ u.lock = procs.lock
        /\ u.p = procs.p
    BY <1>s, <1>8, NewprocSound
  <2>2. procs' = u
    BY <1>8
  <2> HIDE DEF u
  <2> QED
    BY <1>8, <2>1, <2>2, PutsNobody
<1>9. ASSUME NEW p \in Proc, procs' = Interrupted(procs, p), UNCHANGED holder
      PROVE  CoopInv'
  <2> DEFINE u == Interrupted(procs, p)
  <2>1. /\ Sound(u)
        /\ u.doublesleep = procs.doublesleep
        /\ u.lock = procs.lock
        /\ u.p = procs.p
    BY <1>s, <1>9, InterruptedSound
  <2>2. procs' = u
    BY <1>9
  <2> HIDE DEF u
  <2> QED
    BY <1>9, <2>1, <2>2, PutsNobody
<1>10. ASSUME NEW p \in Proc, procs.up = p, procs' = Left(procs, p),
              UNCHANGED holder
      PROVE  CoopInv'
  <2> DEFINE u == Left(procs, p)
  <2>1. /\ Sound(u)
        /\ u.doublesleep = procs.doublesleep
        /\ u.lock = procs.lock
        /\ u.p = procs.p
    BY <1>s, <1>10, LeftSound
  <2>2. procs' = u
    BY <1>10
  <2> HIDE DEF u
  <2> QED
    BY <1>10, <2>1, <2>2, PutsNobody
<1>11. ASSUME NEW p \in Proc, procs.up = NoProc, procs.state[p] = "Ready",
              procs' = Enter(procs, p), UNCHANGED holder
      PROVE  CoopInv'
  <2> DEFINE u == Enter(procs, p)
  <2>1. /\ Sound(u)
        /\ u.doublesleep = procs.doublesleep
        /\ u.lock = procs.lock
        /\ u.p = procs.p
    BY <1>s, <1>11, EnterSound
  <2>2. procs' = u
    BY <1>11
  <2> HIDE DEF u
  <2> QED
    BY <1>11, <2>1, <2>2, PutsNobody
<1>12. ASSUME NEW p \in Proc, CoopProc(p)
       PROVE  CoopInv'
  <2>1. ASSUME NEW r \in Rid, WakeupOn(p, r) \/ Stop(p, r)
        PROVE  CoopInv'
    BY <1>3, <1>4, <2>1 DEF WakeupOn, Stop, State
  <2>2. ASSUME NEW r \in Rid, NEW s \in State, Exit(p, s, r)
        PROVE  CoopInv'
    BY <1>4, <2>2 DEF Exit
  <2>3. ASSUME NEW l \in Qlk, LockFor(p, l) \/ Unlock(p, l)
        PROVE  CoopInv'
    BY <2>3, LockKeeps, UnlockKeeps
  <2>4. ASSUME NEW q \in Proc, Note(p, q) \/ KillStopped(p, q) \/ Fork(p, q)
        PROVE  CoopInv'
    BY <1>5, <1>7, <1>8, <2>4 DEF Note, KillStopped, Fork
  <2>5. ASSUME NEW q \in Proc,
               MeetRendezvous(p, q) \/ Start(p, q) \/ Unbreak(p, q)
        PROVE  CoopInv'
    BY <1>6, <2>5 DEF MeetRendezvous, Start, Unbreak, Ready, State
  <2>6. ASSUME WaitRendezvous(p)
        PROVE  CoopInv'
    BY <1>6, <2>6 DEF WaitRendezvous, IsRunning, State
  <2>7. ASSUME TakeNote(p) \/ Leave(p)
        PROVE  CoopInv'
    BY <1>9, <1>10, <2>7 DEF TakeNote, Leave
  <2> QED
    BY <1>1, <1>2, <1>12, <2>1, <2>2, <2>3, <2>4, <2>5, <2>6, <2>7 DEF CoopProc
<1>13. ASSUME NEW p \in Proc, Dispatch(p)
       PROVE  CoopInv'
  BY <1>11, <1>13 DEF Dispatch
<1>14. ASSUME NEW p \in Proc, TimerWake(p)
       PROVE  CoopInv'
  <2>1. procs.r[p] \in Rid
    BY <1>s, <1>14 DEF TimerWake, Sound, Paired
  <2> QED
    BY <1>3, <1>14, <2>1 DEF TimerWake
<1>15. ASSUME NEW r \in Rid, DeviceWake(r)
       PROVE  CoopInv'
  BY <1>3, <1>15 DEF DeviceWake
<1> QED
  BY <1>12, <1>13, <1>14, <1>15 DEF CoopNext

\* It holds at first.
LEMMA CoopInitInv ==
    ASSUME CoopInit
    PROVE  CoopInv
<1> USE NoneAssumption
<1> PICK p \in Proc : procs = InitTable(p, {})
  BY DEF CoopInit
<1>1. Sound(procs)
  BY InitSound
<1>2. holder = [l \in Qlk |-> NoProc]
  BY DEF CoopInit
<1>3. /\ procs.lock = [l \in Qlk |-> [locked |-> FALSE, q |-> <<>>]]
      /\ procs.p = [r \in Rid |-> NoProc]
      /\ procs.doublesleep = FALSE
  BY DEF InitTable
<1>4. Held
  BY <1>2, <1>3, SMT DEF Held
<1> QED
  BY <1>1, <1>2, <1>3, <1>4 DEF CoopInv, Guarded, NoDoubleSleep

\* The invariant holds throughout.
THEOREM CoopInvariant == CoopSpec => []CoopInv
<1>1. CoopInit => CoopInv
  BY CoopInitInv
<1>2. CoopInv /\ [CoopNext]_coopvars => CoopInv'
  <2>1. ASSUME CoopInv, UNCHANGED coopvars
        PROVE  CoopInv'
    BY <2>1 DEF coopvars, CoopInv, NoDoubleSleep, Held, Guarded, MaySleepOn
  <2> QED
    BY <2>1, CoopStep
<1> QED
  BY <1>1, <1>2, PTL DEF CoopSpec

\* The process table and the lock holders keep their types.
THEOREM CoopTypeCorrect == CoopSpec => []CoopTypeOK
<1>1. CoopInv => CoopTypeOK
  BY DEF CoopInv, CoopTypeOK, Sound
<1> QED
  BY <1>1, CoopInvariant, PTL

\* wakeup's check never fails and no sleeper is lost: Rendez and sleepers are
\* paired, whoever sleeps, wakes, is noted or times out.
THEOREM WakeupNeverPanics == CoopSpec => []RendezPaired
<1>1. CoopInv => RendezPaired
  BY DEF CoopInv, RendezPaired, Sound
<1> QED
  BY <1>1, CoopInvariant, PTL

\* sleep never finds another process on its Rendez.
THEOREM OneSleeperEach == CoopSpec => []NoDoubleSleep
<1>1. CoopInv => NoDoubleSleep
  BY DEF CoopInv, NoDoubleSleep
<1> QED
  BY <1>1, CoopInvariant, PTL

\* postnote and sleep between them leave no process asleep with a note pending.
THEOREM NotesEndSleeps == CoopSpec => []NoteEndsSleep
<1>1. CoopInv => NoteEndsSleep
  BY DEF CoopInv, NoteEndsSleep, Sound
<1> QED
  BY <1>1, CoopInvariant, PTL

\* qlock and qunlock: a QLock that is locked has one holder, and whoever queues
\* for it queues once and is not the holder.
THEOREM LocksAreHandedOver == CoopSpec => []LockQueues
<1>1. CoopInv => LockQueues
  BY DEF CoopInv, LockQueues, Sound
<1> QED
  BY <1>1, CoopInvariant, PTL
-----------------------------------------------------------------------------
(* Which process each step makes Ready: one that was not, or none.  These   *)
(* are the lemmas the run queues of module Sched rest on.                   *)

ReadyOf(t) == {p \in Proc : t.state[p] = "Ready"}

\* The Ready processes after one of them, or one that was not, changed state.
LEMMA StateSet ==
    ASSUME NEW t, NEW u, t.state \in [Proc -> State], NEW p \in Proc, NEW s,
           u.state = [t.state EXCEPT ![p] = s]
    PROVE  /\ s # "Ready" /\ t.state[p] # "Ready" => ReadyOf(u) = ReadyOf(t)
           /\ s = "Ready" => ReadyOf(u) = ReadyOf(t) \cup {p}
           /\ s # "Ready" => ReadyOf(u) = ReadyOf(t) \ {p}
BY DEF ReadyOf

\* u has the Ready processes of t and q, if q is one.
Adds(t, u, q) ==
    \/ q = NoProc /\ ReadyOf(u) = ReadyOf(t)
    \/ q \in Proc \ ReadyOf(t) /\ ReadyOf(u) = ReadyOf(t) \cup {q}

\* A table whose process p, which is not Ready, is made so.
LEMMA AddsOne ==
    ASSUME NEW t, NEW u, t.state \in [Proc -> State], NEW p \in Proc,
           t.state[p] # "Ready", u.state = [t.state EXCEPT ![p] = "Ready"]
    PROVE  Adds(t, u, p)
<1>1. ReadyOf(u) = ReadyOf(t) \cup {p}
  BY StateSet, SMT
<1> QED
  BY <1>1 DEF Adds, ReadyOf

\* A table whose process p, which is not Ready, becomes anything else.
LEMMA AddsNone ==
    ASSUME NEW t, NEW u, t.state \in [Proc -> State], NEW p \in Proc, NEW s,
           t.state[p] # "Ready", s # "Ready",
           u.state = [t.state EXCEPT ![p] = s] \/ u.state = t.state
    PROVE  Adds(t, u, NoProc)
<1>1. CASE u.state = t.state
  BY <1>1 DEF Adds, ReadyOf
<1>2. CASE u.state = [t.state EXCEPT ![p] = s]
  <2>1. ReadyOf(u) = ReadyOf(t)
    BY <1>2 DEF ReadyOf
  <2> QED
    BY <2>1 DEF Adds
<1> QED
  BY <1>1, <1>2

\* wakeup readies the sleeper.
LEMMA WakeupAdds ==
    ASSUME NEW t, t \in Table, NEW r \in Rid
    PROVE  /\ CanWake(t, r) => t.p[r] \in Proc /\ Adds(t, Wakeup(t, r), t.p[r])
           /\ ~CanWake(t, r) => Adds(t, Wakeup(t, r), NoProc)
           /\ Wakeup(t, r).up = t.up
<1> DEFINE u == Wakeup(t, r)
<1>1. CASE CanWake(t, r)
  <2>1. t.p[r] \in Proc /\ t.state[t.p[r]] = "Wakeme"
    BY <1>1, NoneAssumption DEF CanWake, Table
  <2>2. t.state \in [Proc -> State]
    BY DEF Table
  <2>3. u.state = [t.state EXCEPT ![t.p[r]] = "Ready"] /\ u.up = t.up
    BY <1>1 DEF Wakeup, Table
  <2> HIDE DEF u
  <2>4. PICK x \in Proc : x = t.p[r]
    BY <2>1
  <2>5. Adds(t, u, x)
    BY <2>1, <2>2, <2>3, <2>4, AddsOne
  <2> QED
    BY <1>1, <2>1, <2>3, <2>4, <2>5 DEF u
<1>2. CASE ~CanWake(t, r)
  <2>1. u = t
    BY <1>2 DEF Wakeup
  <2> HIDE DEF u
  <2> QED
    BY <1>2, <2>1 DEF Adds, u
<1> QED
  BY <1>1, <1>2

\* The end of pexit and procctl's stop: the running process stops being so, and
\* then somebody is woken.
LEMMA SetWakeAdds ==
    ASSUME CoopInv, NEW p \in Proc, IsRunning(procs, p), NEW r \in Rid,
           NEW s \in State, s \notin {"Ready", "Wakeme", "Running"},
           procs' = Wakeup(Setstate(procs, p, s), r)
    PROVE  Adds(procs, procs', Sleeper(r))
<1> DEFINE u == Setstate(procs, p, s)
<1>1. procs \in Table /\ procs.state[p] = "Running"
  BY DEF CoopInv, Sound, IsRunning
<1>2. /\ u \in Table
      /\ u.state = [procs.state EXCEPT ![p] = s]
      /\ u.p = procs.p
      /\ u.r = procs.r
  BY <1>1 DEF Setstate, Table
<1>3. procs.state \in [Proc -> State]
  BY <1>1 DEF Table
<1> HIDE DEF u
<1>4. CanWake(u, r) <=> CanWake(procs, r)
  BY <1>1, <1>2, <1>3, SMTT(30) DEF CanWake, Table
<1>5. ReadyOf(u) = ReadyOf(procs)
  BY <1>1, <1>2, <1>3, StateSet, SMT
<1>6. procs' = Wakeup(u, r)
  BY DEF u
<1>7. /\ CanWake(u, r) => u.p[r] \in Proc /\ Adds(u, Wakeup(u, r), u.p[r])
      /\ ~CanWake(u, r) => Adds(u, Wakeup(u, r), NoProc)
  BY <1>2, WakeupAdds
<1> QED
  BY <1>2, <1>4, <1>5, <1>6, <1>7 DEF Adds, Sleeper

\* A sleep, a lock, a note taken and a wait at rendezvous ready nobody.
LEMMA QuietAdds ==
    ASSUME CoopInv, NEW p \in Proc,
           \/ \E r \in Rid, happened \in BOOLEAN :
                 SleepOn(p, r, happened) \/ SleepTimed(p, r, happened)
           \/ \E q \in Proc : Unbreak(p, q)
           \/ \E l \in Qlk : LockFor(p, l)
           \/ TakeNote(p)
           \/ WaitRendezvous(p)
    PROVE  Adds(procs, procs', NoProc)
<1>1. procs \in Table /\ procs.state \in [Proc -> State]
  BY DEF CoopInv, Sound, Table
<1>2. procs.state[p] = "Running"
  BY DEF SleepOn, SleepTimed, Unbreak, LockFor, TakeNote, WaitRendezvous,
         IsRunning
<1>3. ASSUME NEW r \in Rid, NEW h \in BOOLEAN,
             SleepOn(p, r, h) \/ SleepTimed(p, r, h)
      PROVE  Adds(procs, procs', NoProc)
  <2>1. \/ procs'.state = procs.state
        \/ procs'.state = [procs.state EXCEPT ![p] = "Wakeme"]
    BY <1>1, <1>3 DEF SleepOn, SleepTimed, Tsleep, Sleep, Table
  <2> QED
    BY <1>1, <1>2, <2>1, AddsNone
<1>4. ASSUME NEW q \in Proc, Unbreak(p, q)
      PROVE  Adds(procs, procs', NoProc)
  <2>1. /\ procs'.state = [procs.state EXCEPT ![q] = "Dead"]
        /\ procs.state[q] = "Broken"
    BY <1>1, <1>4 DEF Unbreak, Setstate, Table
  <2> QED
    BY <1>1, <2>1, AddsNone
<1>5. ASSUME NEW l \in Qlk, LockFor(p, l)
      PROVE  Adds(procs, procs', NoProc)
  <2>1. \/ procs'.state = procs.state
        \/ procs'.state = [procs.state EXCEPT ![p] = "Queueing"]
    BY <1>1, <1>5 DEF LockFor, Qlock, Table
  <2> QED
    BY <1>1, <1>2, <2>1, AddsNone
<1>6. ASSUME TakeNote(p)
      PROVE  Adds(procs, procs', NoProc)
  <2>1. procs'.state = procs.state
    BY <1>1, <1>6 DEF TakeNote, Interrupted, Table
  <2> QED
    BY <1>1, <1>2, <2>1, AddsNone
<1>7. ASSUME WaitRendezvous(p)
      PROVE  Adds(procs, procs', NoProc)
  <2>1. procs'.state = [procs.state EXCEPT ![p] = "Rendezvous"]
    BY <1>1, <1>7 DEF WaitRendezvous, Setstate, Table
  <2> QED
    BY <1>1, <1>2, <2>1, AddsNone
<1> QED
  BY <1>3, <1>4, <1>5, <1>6, <1>7

\* postnote readies who sleeps, queues nowhere else and is not ready already.
LEMMA NoteAdds ==
    ASSUME CoopInv, NEW p \in Proc, NEW q \in Proc, Note(p, q)
    PROVE  Adds(procs, procs', IF NoteWakes(procs, q) THEN q ELSE NoProc)
<1>1. procs \in Table /\ procs.state \in [Proc -> State]
  BY DEF CoopInv, Sound, Table
<1>2. CASE NoteWakes(procs, q)
  <2>1. procs.state[q] # "Ready"
    BY <1>2 DEF NoteWakes
  <2>2. procs'.state = [procs.state EXCEPT ![q] = "Ready"]
    BY <1>1, <1>2 DEF NoteWakes, Note, Postnote, Ready, Setstate, Table
  <2>3. Adds(procs, procs', q)
    BY <1>1, <2>1, <2>2, AddsOne
  <2> QED
    BY <1>2, <2>3
<1>3. CASE ~NoteWakes(procs, q)
  <2>1. procs'.state = procs.state
    BY <1>1, <1>3 DEF NoteWakes, Note, Postnote, Table
  <2>2. Adds(procs, procs', NoProc)
    BY <2>1 DEF Adds, ReadyOf
  <2> QED
    BY <1>3, <2>2
<1> QED
  BY <1>2, <1>3

\* qunlock readies the first in the queue of the lock, who is Queueing.
LEMMA UnlockAdds ==
    ASSUME CoopInv, NEW p \in Proc, NEW l \in Qlk, Unlock(p, l)
    PROVE  Adds(procs, procs', Waiter(l))
<1>1. procs \in Table /\ procs.state \in [Proc -> State]
  BY DEF CoopInv, Sound, Table
<1>2. procs.lock[l].q \in Seq(Proc)
  BY <1>1 DEF Table
<1>3. CASE procs.lock[l].q # <<>>
  <2>1. PICK h : h = Head(procs.lock[l].q)
    OBVIOUS
  <2>2. h \in Proc /\ 1 \in DOMAIN procs.lock[l].q /\ procs.lock[l].q[1] = h
    BY <1>2, <1>3, <2>1, TailFacts, SMT
  <2>3. procs.state[h] = "Queueing"
    BY <2>2 DEF CoopInv, Sound, Queued, Waits
  <2>4. procs'.state = [procs.state EXCEPT ![h] = "Ready"]
    BY <1>1, <1>3, <2>1 DEF Unlock, Qunlock, Table
  <2>5. Adds(procs, procs', h)
    BY <1>1, <2>2, <2>3, <2>4, AddsOne
  <2> QED
    BY <1>3, <2>1, <2>5 DEF Waiter
<1>4. CASE procs.lock[l].q = <<>>
  <2>1. procs'.state = procs.state
    BY <1>1, <1>4 DEF Unlock, Qunlock, Table
  <2>2. Adds(procs, procs', NoProc)
    BY <2>1 DEF Adds, ReadyOf
  <2> QED
    BY <1>4, <2>2 DEF Waiter
<1> QED
  BY <1>3, <1>4

\* rendezvous, start, kill and rfork ready one who was not.
LEMMA StartAdds ==
    ASSUME CoopInv, NEW p \in Proc, NEW q \in Proc,
           \/ MeetRendezvous(p, q) \/ Start(p, q)
           \/ KillStopped(p, q) \/ Fork(p, q)
    PROVE  Adds(procs, procs', q)
<1>1. procs \in Table /\ procs.state \in [Proc -> State]
  BY DEF CoopInv, Sound, Table
<1>2. procs.state[q] # "Ready"
  BY DEF MeetRendezvous, Start, KillStopped, Fork
<1>3. procs'.state = [procs.state EXCEPT ![q] = "Ready"]
  <2>1. CASE MeetRendezvous(p, q) \/ Start(p, q)
    BY <1>1, <2>1 DEF MeetRendezvous, Start, Ready, Setstate, Table
  <2>2. CASE KillStopped(p, q)
    BY <1>1, <2>2 DEF KillStopped, Postnote, Ready, Setstate, Table
  <2>3. CASE Fork(p, q)
    BY <1>1, <2>3 DEF Fork, Newproc, Ready, Setstate, Table
  <2> QED
    BY <2>1, <2>2, <2>3
<1> QED
  BY <1>1, <1>2, <1>3, AddsOne

\* sched readies the process that leaves the processor while Running.
LEMMA LeaveAdds ==
    ASSUME CoopInv, NEW p \in Proc, Leave(p)
    PROVE  Adds(procs, procs', IF procs.state[p] = "Running" THEN p ELSE NoProc)
<1>1. procs \in Table /\ procs.state \in [Proc -> State]
  BY DEF CoopInv, Sound, Table
<1>2. CASE procs.state[p] = "Running"
  <2>1. procs'.state = [procs.state EXCEPT ![p] = "Ready"]
    BY <1>1, <1>2 DEF Leave, Left, Table
  <2>2. Adds(procs, procs', p)
    BY <1>1, <1>2, <2>1, AddsOne
  <2> QED
    BY <1>2, <2>2
<1>3. CASE procs.state[p] = "Moribund"
  <2>1. procs'.state = [procs.state EXCEPT ![p] = "Dead"]
    BY <1>1, <1>3 DEF Leave, Left, Table
  <2>2. Adds(procs, procs', NoProc)
    BY <1>1, <1>3, <2>1, AddsNone
  <2> QED
    BY <1>3, <2>2
<1>4. CASE procs.state[p] \notin {"Running", "Moribund"}
  <2>1. procs'.state = procs.state
    BY <1>1, <1>4 DEF Leave, Left, Table
  <2>2. Adds(procs, procs', NoProc)
    BY <2>1 DEF Adds, ReadyOf
  <2> QED
    BY <1>4, <2>2
<1> QED
  BY <1>2, <1>3, <1>4

\* A wakeup in the process or from an interrupt.
LEMMA SleeperAdds ==
    ASSUME CoopInv, NEW r \in Rid, procs' = Wakeup(procs, r)
    PROVE  Adds(procs, procs', Sleeper(r))
<1>1. procs \in Table
  BY DEF CoopInv, Sound
<1> QED
  BY <1>1, WakeupAdds DEF Sleeper

\* The clock readies the process whose tsleep is over.
LEMMA TimerAdds ==
    ASSUME CoopInv, NEW p \in Proc, TimerWake(p)
    PROVE  Adds(procs, procs', p)
<1>1. /\ procs.r[p] \in Rid
      /\ procs.p[procs.r[p]] = p
      /\ procs.state[p] = "Wakeme"
  BY DEF CoopInv, Sound, Paired, TimerWake
<1>2. PICK r \in Rid : r = procs.r[p]
  BY <1>1
<1>3. Sleeper(r) = p
  BY <1>1, <1>2, NoneAssumption DEF Sleeper, CanWake
<1>4. procs' = Wakeup(procs, r)
  BY <1>2 DEF TimerWake
<1> QED
  BY <1>3, <1>4, SleeperAdds
-----------------------------------------------------------------------------
(* What putting a process at the tail of one run queue, and taking one out  *)
(* of the queue it is on, do to the queues.                                 *)

\* The queues rq hold each process of S once and no other, none above the
\* priorities, and n is how many they are.
Queues(S, rq, n) ==
    /\ rq \in [Rq -> Seq(Proc)]
    /\ \A p \in Proc : p \in S <=>
          \E i \in Rq : \E k \in DOMAIN rq[i] : rq[i][k] = p
    /\ \A i, j \in Rq : \A k \in DOMAIN rq[i] : \A m \in DOMAIN rq[j] :
          rq[i][k] = rq[j][m] => i = j /\ k = m
    /\ \A i \in Rq : i \notin Pri => rq[i] = <<>>
    /\ n = Cardinality(S)

\* The queues of the priorities and the two above them.
LEMMA PriFacts ==
    /\ Npriq \in Nat
    /\ \A i \in Pri : i \in Rq /\ 0 .. i \subseteq Pri
    /\ Nrq - 1 \in Rq \ Pri
    /\ Nrq - 2 \in Rq \ Pri
    /\ \A i \in Rq : i \in Int
    /\ \A i \in Pri : i \in Int
BY PriAssumption, SMT DEF Pri, Rq, Nrq

\* queueproc: one more process, at the tail of one queue.
LEMMA QueuedOne ==
    ASSUME NEW S \in SUBSET Proc, NEW rq, NEW n, Queues(S, rq, n),
           NEW p \in Proc, p \notin S, NEW i \in Pri
    PROVE  Queues(S \cup {p}, [rq EXCEPT ![i] = Append(@, p)], n + 1)
<1> DEFINE nq == [rq EXCEPT ![i] = Append(@, p)]
<1>1. rq \in [Rq -> Seq(Proc)] /\ i \in Rq
  BY PriFacts DEF Queues
<1>2. PICK a : a = Append(rq[i], p)
  OBVIOUS
<1>3. /\ a \in Seq(Proc)
      /\ Len(rq[i]) \in Nat
      /\ DOMAIN rq[i] = 1 .. Len(rq[i])
      /\ DOMAIN a = 1 .. (Len(rq[i]) + 1)
      /\ \A k \in 1 .. Len(rq[i]) : a[k] = rq[i][k]
      /\ a[Len(rq[i]) + 1] = p
  <2>1. PICK s : s = rq[i]
    OBVIOUS
  <2>2. s \in Seq(Proc)
    BY <1>1, <2>1
  <2>3. /\ Append(s, p) \in Seq(Proc)
        /\ Len(Append(s, p)) = Len(s) + 1
        /\ \A k \in 1 .. Len(s) : Append(s, p)[k] = s[k]
        /\ Append(s, p)[Len(s) + 1] = p
    BY <2>2, SMT
  <2>4. /\ Len(s) \in Nat /\ DOMAIN s = 1 .. Len(s)
        /\ DOMAIN Append(s, p) = 1 .. Len(Append(s, p))
    BY <2>2, <2>3, SMTT(30)
  <2> QED
    BY <1>2, <2>1, <2>3, <2>4
<1>4. nq = [rq EXCEPT ![i] = a]
  BY <1>2
<1>5. /\ nq \in [Rq -> Seq(Proc)]
      /\ nq[i] = a
      /\ \A j \in Rq : j # i => nq[j] = rq[j]
  BY <1>1, <1>3, <1>4
<1> HIDE DEF nq
<1>6. \A q \in Proc : q \in S \cup {p} <=>
         \E j \in Rq : \E k \in DOMAIN nq[j] : nq[j][k] = q
  <2> SUFFICES ASSUME NEW q \in Proc
               PROVE  q \in S \cup {p} <=>
                        \E j \in Rq : \E k \in DOMAIN nq[j] : nq[j][k] = q
    OBVIOUS
  <2>1. ASSUME q \in S
        PROVE  \E j \in Rq : \E k \in DOMAIN nq[j] : nq[j][k] = q
    <3>0. PICK j \in Rq : \E k \in DOMAIN rq[j] : rq[j][k] = q
      BY <2>1 DEF Queues
    <3>1. PICK k \in DOMAIN rq[j] : rq[j][k] = q
      BY <3>0
    <3>2. k \in DOMAIN nq[j] /\ nq[j][k] = q
      <4>1. CASE j # i
        BY <1>5, <3>1, <4>1
      <4>2. CASE j = i
        <5>1. k \in 1 .. Len(rq[i]) /\ rq[i][k] = q
          BY <1>3, <3>1, <4>2
        <5>2. k \in 1 .. (Len(rq[i]) + 1)
          BY <1>3, <5>1, SMTT(30)
        <5> QED
          BY <1>3, <1>5, <4>2, <5>1, <5>2
      <4> QED
        BY <4>1, <4>2
    <3> QED
      BY <3>2
  <2>2. \E j \in Rq : \E k \in DOMAIN nq[j] : nq[j][k] = p
    BY <1>1, <1>3, <1>5, SMTT(30)
  <2>3. ASSUME NEW j \in Rq, NEW k \in DOMAIN nq[j], nq[j][k] = q
        PROVE  q \in S \cup {p}
    BY <1>3, <1>5, <2>3, SMTT(30) DEF Queues
  <2> QED
    BY <2>1, <2>2, <2>3
<1>7. ASSUME NEW j \in Rq, NEW l \in Rq, NEW k \in DOMAIN nq[j],
             NEW m \in DOMAIN nq[l], nq[j][k] = nq[l][m]
      PROVE  j = l /\ k = m
  <2>1. \A x \in Rq : \A y \in DOMAIN nq[x] :
           \/ y \in DOMAIN rq[x] /\ nq[x][y] = rq[x][y]
           \/ x = i /\ y = Len(rq[i]) + 1 /\ nq[x][y] = p
    <3> SUFFICES ASSUME NEW x \in Rq, NEW y \in DOMAIN nq[x]
                 PROVE  \/ y \in DOMAIN rq[x] /\ nq[x][y] = rq[x][y]
                        \/ x = i /\ y = Len(rq[i]) + 1 /\ nq[x][y] = p
      OBVIOUS
    <3>1. CASE x # i
      BY <1>5, <3>1
    <3>2. CASE x = i
      <4>1. nq[x] = a /\ y \in 1 .. (Len(rq[i]) + 1)
        BY <1>3, <1>5, <3>2
      <4>2. y \in 1 .. Len(rq[i]) \/ y = Len(rq[i]) + 1
        BY <1>3, <4>1, SMT
      <4> QED
        BY <1>3, <3>2, <4>1, <4>2
    <3> QED
      BY <3>1, <3>2
  <2>2. \A x \in Rq : \A y \in DOMAIN rq[x] : rq[x][y] # p
    BY SMT DEF Queues
  <2> QED
    BY <1>7, <2>1, <2>2, SMT DEF Queues
<1>8. \A j \in Rq : j \notin Pri => nq[j] = <<>>
  BY <1>5 DEF Queues
<1>9. n + 1 = Cardinality(S \cup {p})
  <2>1. IsFiniteSet(S)
    BY PriAssumption, FS_Subset
  <2> QED
    BY <2>1, FS_AddElement DEF Queues
<1> QED
  BY <1>5, <1>6, <1>7, <1>8, <1>9 DEF Queues, nq

\* A queue without one of its processes.
LEMMA RemoveFacts ==
    ASSUME NEW S, NEW s \in Seq(S), NEW k \in DOMAIN s,
           \A i \in DOMAIN s : s[i] = s[k] => i = k
    PROVE  /\ Withdraw(s, s[k]) \in Seq(S)
           /\ Len(s) \in Nat
           /\ DOMAIN s = 1 .. Len(s)
           /\ DOMAIN Withdraw(s, s[k]) = 1 .. (Len(s) - 1)
           /\ \A i \in 1 .. (Len(s) - 1) :
                 Withdraw(s, s[k])[i] = IF i < k THEN s[i] ELSE s[i + 1]
<1>1. Len(s) \in Nat /\ DOMAIN s = 1 .. Len(s)
  BY SMT
<1>2. \A i \in 1 .. Len(s) : s[i] \in S
  BY SMT
<1>3. (CHOOSE i \in DOMAIN s : s[i] = s[k]) = k
  <2>1. \E i \in DOMAIN s : s[i] = s[k]
    OBVIOUS
  <2> QED
    BY <2>1
<1>4. PICK u : u = Withdraw(s, s[k])
  OBVIOUS
<1>5. u = [i \in 1 .. (Len(s) - 1) |-> IF i < k THEN s[i] ELSE s[i + 1]]
  BY <1>3, <1>4 DEF Withdraw, DeleteAt
<1>6. Len(s) - 1 \in Nat /\ \A i \in 1 .. (Len(s) - 1) : u[i] \in S
  BY <1>1, <1>2, <1>5, SMTT(30)
<1>7. u \in Seq(S)
  BY <1>5, <1>6, SMT
<1> QED
  BY <1>1, <1>4, <1>5, <1>7

\* dequeueproc: the queue has one process less.
LEMMA DequeuedOne ==
    ASSUME NEW S \in SUBSET Proc, NEW rq, NEW n, Queues(S, rq, n),
           NEW i \in Rq, NEW k \in DOMAIN rq[i],
           NEW p, p = rq[i][k]
    PROVE  /\ p \in S
           /\ Queues(S \ {p}, [rq EXCEPT ![i] = Withdraw(@, p)], n - 1)
<1> DEFINE nq == [rq EXCEPT ![i] = Withdraw(@, p)]
<1>1. rq \in [Rq -> Seq(Proc)]
  BY DEF Queues
<1>2. p \in Proc
  BY <1>1, SMT
<1>3. p \in S
  BY <1>2 DEF Queues
<1>4. PICK a : a = Withdraw(rq[i], p)
  OBVIOUS
<1>5. \A j \in DOMAIN rq[i] : rq[i][j] = rq[i][k] => j = k
  BY SMT DEF Queues
<1>6. /\ a \in Seq(Proc)
      /\ Len(rq[i]) \in Nat
      /\ DOMAIN rq[i] = 1 .. Len(rq[i])
      /\ DOMAIN a = 1 .. (Len(rq[i]) - 1)
      /\ \A j \in 1 .. (Len(rq[i]) - 1) :
            a[j] = IF j < k THEN rq[i][j] ELSE rq[i][j + 1]
  BY <1>1, <1>4, <1>5, RemoveFacts
<1>7. /\ nq \in [Rq -> Seq(Proc)]
      /\ nq[i] = a
      /\ \A j \in Rq : j # i => nq[j] = rq[j]
  BY <1>1, <1>4, <1>6
<1> HIDE DEF nq
<1>8. \A x \in Rq : \A y \in DOMAIN nq[x] :
         \/ y \in DOMAIN rq[x] /\ nq[x][y] = rq[x][y] /\ (x = i => y < k)
         \/ x = i /\ y >= k /\ y + 1 \in DOMAIN rq[x] /\ nq[x][y] = rq[x][y + 1]
  BY <1>6, <1>7, SMTT(30)
<1>9. \A q \in Proc : q \in S \ {p} <=>
         \E j \in Rq : \E y \in DOMAIN nq[j] : nq[j][y] = q
  <2>1. ASSUME NEW q \in S \ {p}
        PROVE  \E j \in Rq : \E y \in DOMAIN nq[j] : nq[j][y] = q
    <3>1. PICK j \in Rq : \E y \in DOMAIN rq[j] : rq[j][y] = q
      BY <2>1 DEF Queues
    <3>2. PICK y \in DOMAIN rq[j] : rq[j][y] = q
      BY <3>1
    <3>3. CASE j # i
      BY <1>7, <3>2, <3>3
    <3>4. CASE j = i /\ y < k
      <4>1. y \in 1 .. Len(rq[i]) /\ k \in 1 .. Len(rq[i]) /\ rq[i][y] = q
        BY <1>6, <3>2, <3>4
      <4>2. y \in 1 .. (Len(rq[i]) - 1)
        BY <1>6, <3>4, <4>1, SMT
      <4>3. y \in DOMAIN nq[i] /\ nq[i][y] = q
        BY <1>6, <1>7, <3>4, <4>1, <4>2
      <4> QED
        BY <4>3
    <3>5. CASE j = i /\ y > k
      <4>1. y \in 1 .. Len(rq[i]) /\ k \in 1 .. Len(rq[i]) /\ rq[i][y] = q
        BY <1>6, <3>2, <3>5
      <4>2. /\ y - 1 \in 1 .. (Len(rq[i]) - 1)
            /\ ~(y - 1 < k) /\ (y - 1) + 1 = y
        BY <1>6, <3>5, <4>1, SMT
      <4>3. y - 1 \in DOMAIN nq[i] /\ nq[i][y - 1] = q
        BY <1>6, <1>7, <4>1, <4>2
      <4> QED
        BY <4>3
    <3>6. j = i => y # k
      BY <3>2
    <3>7. j = i => y \in Int /\ k \in Int
      BY <1>6, <3>2, SMT
    <3> QED
      BY <3>3, <3>4, <3>5, <3>6, <3>7, SMT
  <2>2. ASSUME NEW q \in Proc, NEW j \in Rq, NEW y \in DOMAIN nq[j], nq[j][y] = q
        PROVE  q \in S \ {p}
    <3>1. PICK z \in DOMAIN rq[j] : rq[j][z] = q /\ (j = i => z # k)
      <4>1. CASE y \in DOMAIN rq[j] /\ nq[j][y] = rq[j][y] /\ (j = i => y < k)
        BY <1>6, <2>2, <4>1, SMTT(30)
      <4>2. CASE j = i /\ y >= k /\ y + 1 \in DOMAIN rq[j] /\ nq[j][y] = rq[j][y + 1]
        BY <1>6, <1>7, <2>2, <4>2, SMTT(30)
      <4> QED
        BY <1>8, <4>1, <4>2
    <3>2. q \in S
      BY <3>1 DEF Queues
    <3>3. q # p
      BY <3>1, SMT DEF Queues
    <3> QED
      BY <3>2, <3>3
  <2> QED
    BY <2>1, <2>2
<1>10. ASSUME NEW j \in Rq, NEW l \in Rq, NEW y \in DOMAIN nq[j],
              NEW m \in DOMAIN nq[l], nq[j][y] = nq[l][m]
       PROVE  j = l /\ y = m
  <2>1. y \in Int /\ m \in Int
    BY <1>1, <1>7, SMT
  <2>2. \A x, z \in Rq : \A u \in DOMAIN rq[x] : \A v \in DOMAIN rq[z] :
           rq[x][u] = rq[z][v] => x = z /\ u = v
    BY DEF Queues
  <2>3. k \in Int
    BY <1>6, SMT
  <2> QED
    BY <1>8, <1>10, <2>1, <2>2, <2>3, SMTT(30)
<1>11. \A j \in Rq : j \notin Pri => nq[j] = <<>>
  <2>1. i \in Pri
    BY <1>1, SMT DEF Queues
  <2> QED
    BY <1>7, <2>1 DEF Queues
<1>12. n - 1 = Cardinality(S \ {p})
  <2>1. IsFiniteSet(S)
    BY PriAssumption, FS_Subset
  <2> QED
    BY <1>3, <2>1, FS_RemoveElement DEF Queues
<1> QED
  BY <1>3, <1>7, <1>9, <1>10, <1>11, <1>12 DEF Queues, nq
-----------------------------------------------------------------------------

\* What the variables of the scheduler keep besides.
SchedInv ==
    /\ CoopInv
    /\ Queues(ReadyOf(procs), runq, nrdy)
    /\ readied \in ReadyOf(procs) \cup {NoProc}
    /\ priority \in [Proc -> Pri]
    /\ basepri \in [Proc -> Pri]
    /\ clock \in {"off", "timers", "rebalance", "hzsched"}
    /\ due \in SUBSET Proc
    /\ rb \in 0 .. Npriq
-----------------------------------------------------------------------------
\* The part of the invariant that is about the queues.
QueueInv ==
    /\ Queues(ReadyOf(procs), runq, nrdy)
    /\ readied \in ReadyOf(procs) \cup {NoProc}
    /\ priority \in [Proc -> Pri]
    /\ basepri \in [Proc -> Pri]

\* ready keeps the queues and the states together.
LEMMA QueueprocKeeps ==
    ASSUME QueueInv, NEW p \in Proc, Adds(procs, procs', p),
           NEW base \in [Proc -> Pri], Queueproc(p, base)
    PROVE  QueueInv'
<1>1. p \notin ReadyOf(procs) /\ ReadyOf(procs') = ReadyOf(procs) \cup {p}
  BY NoneAssumption DEF Adds
<1>2. PICK pri \in 0 .. base[p] :
         /\ runq' = [runq EXCEPT ![pri] = Append(@, p)]
         /\ nrdy' = nrdy + 1
         /\ readied' = IF procs.up # p THEN p ELSE readied
         /\ priority' = [priority EXCEPT ![p] = pri]
         /\ basepri' = base
  BY DEF Queueproc
<1>3. pri \in Pri
  BY PriFacts
<1>4. ReadyOf(procs) \in SUBSET Proc
  BY DEF ReadyOf
<1>5. Queues(ReadyOf(procs) \cup {p}, runq', nrdy')
  BY <1>1, <1>2, <1>3, <1>4, QueuedOne DEF QueueInv
<1>6. Queues(ReadyOf(procs'), runq', nrdy')
  BY <1>1, <1>5
<1>7. readied' \in ReadyOf(procs') \cup {NoProc}
  BY <1>1, <1>2 DEF QueueInv
<1>8. priority' \in [Proc -> Pri] /\ basepri' \in [Proc -> Pri]
  BY <1>2, <1>3 DEF QueueInv
<1> QED
  BY <1>6, <1>7, <1>8 DEF QueueInv

\* A step that readies one process, or none, keeps the queues.
LEMMA ReadiesKeeps ==
    ASSUME QueueInv, NEW q, Adds(procs, procs', q), Readies(q)
    PROVE  QueueInv'
<1>1. CASE q = NoProc
  <2>1. ReadyOf(procs') = ReadyOf(procs)
    BY <1>1, NoneAssumption DEF Adds
  <2>2. UNCHANGED queuevars
    BY <1>1 DEF Readies, ReadiesNone
  <2> QED
    BY <2>1, <2>2 DEF QueueInv, queuevars
<1>2. CASE q # NoProc
  <2>1. q \in Proc
    BY <1>2 DEF Adds
  <2>2. Queueproc(q, basepri)
    BY <1>2 DEF Readies
  <2>3. basepri \in [Proc -> Pri]
    BY DEF QueueInv
  <2> QED
    BY <2>1, <2>2, <2>3, QueueprocKeeps
<1> QED
  BY <1>1, <1>2

\* exits: who exits is not Ready, so m->readied does not name it.
LEMMA ExitingKeeps ==
    ASSUME CoopInv, QueueInv, NEW p \in Proc, Exiting(p)
    PROVE  QueueInv'
<1>1. PICK r \in Rid, s \in State :
         /\ Exit(p, s, r)
         /\ IF Sleeper(r) = NoProc
            THEN /\ readied' = IF readied = p THEN NoProc ELSE readied
                 /\ UNCHANGED <<runq, nrdy, priority, basepri>>
            ELSE Queueproc(Sleeper(r), basepri)
  BY DEF Exiting
<1>2. Adds(procs, procs', Sleeper(r))
  BY <1>1, SetWakeAdds DEF Exit
<1>3. CASE Sleeper(r) = NoProc
  <2>1. ReadyOf(procs') = ReadyOf(procs)
    BY <1>2, <1>3, NoneAssumption DEF Adds
  <2>2. readied' \in {readied, NoProc}
    BY <1>1, <1>3
  <2>3. UNCHANGED <<runq, nrdy, priority, basepri>>
    BY <1>1, <1>3
  <2> QED
    BY <2>1, <2>2, <2>3 DEF QueueInv
<1>4. CASE Sleeper(r) # NoProc
  <2>1. Readies(Sleeper(r))
    BY <1>1, <1>4 DEF Readies
  <2> QED
    BY <1>2, <2>1, ReadiesKeeps
<1> QED
  BY <1>3, <1>4

\* runproc chooses a process that is on the queue it takes it from.
LEMMA RunprocFinds ==
    ASSUME QueueInv, NEW p \in Proc, NEW i \in Rq, Runproc(i, p)
    PROVE  \E k \in DOMAIN runq[i] : runq[i][k] = p
<1>1. runq[i] \in Seq(Proc)
  BY DEF QueueInv, Queues
<1>2. CASE TakesReadied /\ p = readied /\ i = priority[p]
  <2>1. p \in Range(runq[i])
    BY <1>2 DEF TakesReadied
  <2> QED
    BY <1>1, <2>1 DEF Range
<1>3. CASE Highest(i) /\ p = Head(runq[i])
  <2>1. runq[i] # <<>>
    BY <1>3 DEF Highest
  <2>2. 1 \in DOMAIN runq[i] /\ runq[i][1] = p
    BY <1>1, <1>3, <2>1, TailFacts, SMT
  <2> QED
    BY <2>2
<1> QED
  BY <1>2, <1>3 DEF Runproc

\* The process sched enters was Ready, and leaves the queue it was on.
LEMMA EnteringKeeps ==
    ASSUME CoopInv, QueueInv, NEW p \in Proc, Entering(p)
    PROVE  QueueInv' /\ Dispatch(p)
<1>1. PICK i \in Rq, pri \in 0 .. basepri[p] :
         /\ Runproc(i, p)
         /\ runq' = Dequeueproc(i, p)
         /\ priority' = [priority EXCEPT ![p] = pri]
  BY DEF Entering
<1>2. PICK k \in DOMAIN runq[i] : runq[i][k] = p
  BY <1>1, RunprocFinds
<1>3. ReadyOf(procs) \in SUBSET Proc
  BY DEF ReadyOf
<1>4. /\ p \in ReadyOf(procs)
      /\ Queues(ReadyOf(procs) \ {p}, [runq EXCEPT ![i] = Withdraw(@, p)],
                nrdy - 1)
  BY <1>2, <1>3, DequeuedOne DEF QueueInv
<1>5. Dispatch(p)
  BY <1>4 DEF Dispatch, Entering, ReadyOf
<1>6. procs.state \in [Proc -> State]
      /\ procs'.state = [procs.state EXCEPT ![p] = "Running"]
  BY DEF CoopInv, Sound, Table, Entering, Enter
<1>7. ReadyOf(procs') = ReadyOf(procs) \ {p}
  BY <1>6, StateSet, SMTT(30)
<1>8. Queues(ReadyOf(procs'), runq', nrdy')
  BY <1>1, <1>4, <1>7 DEF Entering, Dequeueproc
<1>9. readied' = NoProc /\ basepri' = basepri
  BY DEF Entering
<1>10. pri \in Pri
  BY <1>1, PriFacts DEF QueueInv
<1>11. priority' \in [Proc -> Pri]
  BY <1>1, <1>10 DEF QueueInv
<1> QED
  BY <1>5, <1>8, <1>9, <1>11 DEF QueueInv

\* rebalance moves a process from one queue to another, or goes on.
LEMMA RebalanceKeeps ==
    ASSUME QueueInv, rb \in 0 .. Npriq, Rebalance
    PROVE  QueueInv' /\ rb' \in 0 .. Npriq
<1>1. rb \in Pri /\ rb \in Rq /\ rb + 1 \in 0 .. Npriq
  BY PriFacts, SMT DEF Rebalance, Pri
<1>2. procs' = procs
  BY DEF Rebalance
<1>3. CASE rb' = rb + 1 /\ UNCHANGED queuevars
  BY <1>1, <1>2, <1>3 DEF QueueInv, queuevars
<1>4. CASE ~(rb' = rb + 1 /\ UNCHANGED queuevars)
  <2>1. PICK p : p = Head(runq[rb])
    OBVIOUS
  <2>2. /\ runq[rb] # <<>>
        /\ \E pri \in (0 .. basepri[p]) \ {rb} :
              /\ runq' = [Dequeueproc(rb, p) EXCEPT ![pri] = Append(@, p)]
              /\ priority' = [priority EXCEPT ![p] = pri]
        /\ UNCHANGED <<nrdy, readied, basepri, rb>>
    BY <1>4, <2>1 DEF Rebalance
  <2>3. PICK pri \in (0 .. basepri[p]) \ {rb} :
              /\ runq' = [Dequeueproc(rb, p) EXCEPT ![pri] = Append(@, p)]
              /\ priority' = [priority EXCEPT ![p] = pri]
    BY <2>2
  <2>4. runq[rb] \in Seq(Proc)
    BY <1>1 DEF QueueInv, Queues
  <2>5. 1 \in DOMAIN runq[rb] /\ p = runq[rb][1] /\ p \in Proc
    BY <2>1, <2>2, <2>4, TailFacts, SMTT(30)
  <2>6. PICK S \in SUBSET Proc : S = ReadyOf(procs)
    BY DEF ReadyOf
  <2>7. PICK rq : rq = [runq EXCEPT ![rb] = Withdraw(@, p)]
    OBVIOUS
  <2>8. p \in S /\ Queues(S \ {p}, rq, nrdy - 1)
    BY <1>1, <2>5, <2>6, <2>7, DequeuedOne DEF QueueInv
  <2>9. pri \in Pri
    BY <2>5, PriFacts DEF QueueInv
  <2>10. Queues((S \ {p}) \cup {p}, [rq EXCEPT ![pri] = Append(@, p)],
                (nrdy - 1) + 1)
    BY <2>5, <2>8, <2>9, QueuedOne
  <2>11. (S \ {p}) \cup {p} = S
    BY <2>8
  <2>12. (nrdy - 1) + 1 = nrdy
    <3>1. IsFiniteSet(S)
      BY PriAssumption, FS_Subset
    <3>2. nrdy \in Nat
      BY <2>6, <3>1, FS_CardinalityType DEF QueueInv, Queues
    <3> QED
      BY <3>2, SMTT(30)
  <2>13. Queues(ReadyOf(procs'), runq', nrdy')
    BY <1>2, <2>2, <2>3, <2>6, <2>7, <2>10, <2>11, <2>12 DEF Dequeueproc
  <2>14. priority' \in [Proc -> Pri]
    BY <2>3, <2>9 DEF QueueInv
  <2> QED
    BY <1>1, <1>2, <2>2, <2>13, <2>14 DEF QueueInv
<1> QED
  BY <1>3, <1>4
-----------------------------------------------------------------------------
\* A step with the clock off.
OffStep ==
    \/ \E p \in Proc : \/ Quietly(p) \/ Waking(p) \/ Forking(p)
                       \/ Exiting(p) \/ Procpriority(p)
                       \/ Leaving(p) \/ Entering(p)
    \/ \E r \in Rid : DeviceIntr(r)

\* Each is a step of Coop, or none, and keeps the queues.
LEMMA WakingKeeps ==
    ASSUME CoopInv, QueueInv, NEW p \in Proc, Waking(p)
    PROVE  QueueInv' /\ CoopProc(p)
<1>1. ASSUME NEW r \in Rid, WakeupOn(p, r), Readies(Sleeper(r))
      PROVE  QueueInv' /\ CoopProc(p)
  <2>1. Adds(procs, procs', Sleeper(r))
    BY <1>1, SleeperAdds DEF WakeupOn
  <2>2. QueueInv'
    BY <1>1, <2>1, ReadiesKeeps
  <2> QED
    BY <1>1, <2>2 DEF CoopProc
<1>2. ASSUME NEW r \in Rid, Stop(p, r), Readies(Sleeper(r))
      PROVE  QueueInv' /\ CoopProc(p)
  <2>1. "Stopped" \in State \ {"Ready", "Wakeme", "Running"}
    BY DEF State
  <2>2. Adds(procs, procs', Sleeper(r))
    BY <1>2, <2>1, SetWakeAdds DEF Stop
  <2>3. QueueInv'
    BY <1>2, <2>2, ReadiesKeeps
  <2> QED
    BY <1>2, <2>3 DEF CoopProc
<1>3. ASSUME NEW l \in Qlk, Unlock(p, l), Readies(Waiter(l))
      PROVE  QueueInv' /\ CoopProc(p)
  <2>1. QueueInv'
    BY <1>3, UnlockAdds, ReadiesKeeps
  <2> QED
    BY <1>3, <2>1 DEF CoopProc
<1>4. ASSUME NEW q \in Proc, Note(p, q),
             Readies(IF NoteWakes(procs, q) THEN q ELSE NoProc)
      PROVE  QueueInv' /\ CoopProc(p)
  <2>1. PICK w : w = IF NoteWakes(procs, q) THEN q ELSE NoProc
    OBVIOUS
  <2>2. Adds(procs, procs', w) /\ Readies(w)
    BY <1>4, <2>1, NoteAdds
  <2>3. QueueInv'
    BY <2>2, ReadiesKeeps
  <2> QED
    BY <1>4, <2>3 DEF CoopProc
<1>5. ASSUME NEW q \in Proc,
             MeetRendezvous(p, q) \/ Start(p, q) \/ KillStopped(p, q),
             Readies(q)
      PROVE  QueueInv' /\ CoopProc(p)
  <2>1. QueueInv'
    BY <1>5, StartAdds, ReadiesKeeps
  <2> QED
    BY <1>5, <2>1 DEF CoopProc
<1> QED
  BY <1>1, <1>2, <1>3, <1>4, <1>5 DEF Waking

\* A step outside the clock interrupt keeps the queues and is a step of Coop.
LEMMA OffKeeps ==
    ASSUME CoopInv, QueueInv, OffStep
    PROVE  QueueInv' /\ [CoopNext]_coopvars
<1>1. ASSUME NEW p \in Proc, Quietly(p)
      PROVE  QueueInv' /\ CoopProc(p)
  <2>1. Readies(NoProc)
    BY <1>1 DEF Quietly, Readies
  <2>2. QueueInv'
    <3>1. Adds(procs, procs', NoProc)
      BY <1>1, QuietAdds DEF Quietly
    <3> QED
      BY <2>1, <3>1, ReadiesKeeps
  <2>3. CoopProc(p)
    BY <1>1 DEF Quietly, CoopProc
  <2> QED
    BY <2>2, <2>3
<1>2. ASSUME NEW p \in Proc, Forking(p)
      PROVE  QueueInv' /\ CoopProc(p)
  <2>1. PICK q \in Proc, pri \in {basepri[p], PriKproc} :
           Fork(p, q) /\ Queueproc(q, [basepri EXCEPT ![q] = pri])
    BY <1>2 DEF Forking
  <2>2. PICK base : base = [basepri EXCEPT ![q] = pri]
    OBVIOUS
  <2>3. base \in [Proc -> Pri]
    BY <2>1, <2>2, PriAssumption DEF QueueInv, Pri
  <2>4. Adds(procs, procs', q)
    BY <2>1, StartAdds
  <2>5. QueueInv'
    BY <2>1, <2>2, <2>3, <2>4, QueueprocKeeps
  <2> QED
    BY <2>1, <2>5 DEF CoopProc
<1>3. ASSUME NEW p \in Proc, Exiting(p)
      PROVE  QueueInv' /\ CoopProc(p)
  <2>1. CoopProc(p)
    BY <1>3 DEF Exiting, CoopProc
  <2> QED
    BY <1>3, <2>1, ExitingKeeps
<1>4. ASSUME NEW p \in Proc, Procpriority(p)
      PROVE  QueueInv' /\ UNCHANGED coopvars
  <2>1. /\ UNCHANGED <<procs, holder, runq, nrdy, readied>>
        /\ priority' \in [Proc -> Pri]
        /\ basepri' \in [Proc -> Pri]
    BY <1>4 DEF Procpriority, QueueInv
  <2> QED
    BY <2>1 DEF QueueInv, coopvars
<1>5. ASSUME NEW p \in Proc, Leaving(p)
      PROVE  QueueInv' /\ CoopProc(p)
  <2>1. PICK w : w = IF procs.state[p] = "Running" THEN p ELSE NoProc
    OBVIOUS
  <2>2. Leave(p) /\ Readies(w)
    BY <1>5, <2>1 DEF Leaving
  <2>3. Adds(procs, procs', w)
    BY <2>1, <2>2, LeaveAdds
  <2>4. QueueInv'
    BY <2>2, <2>3, ReadiesKeeps
  <2> QED
    BY <2>2, <2>4 DEF CoopProc
<1>6. ASSUME NEW r \in Rid, DeviceIntr(r)
      PROVE  QueueInv' /\ DeviceWake(r)
  <2>1. Adds(procs, procs', Sleeper(r))
    BY <1>6, SleeperAdds DEF DeviceIntr, DeviceWake
  <2> QED
    BY <1>6, <2>1, ReadiesKeeps DEF DeviceIntr
<1>7. ASSUME NEW p \in Proc, CoopProc(p)
      PROVE  CoopNext
  BY <1>7 DEF CoopNext
<1>8. ASSUME NEW p \in Proc, Dispatch(p)
      PROVE  CoopNext
  BY <1>8 DEF CoopNext
<1>9. ASSUME NEW r \in Rid, DeviceWake(r)
      PROVE  CoopNext
  BY <1>9 DEF CoopNext
<1> QED
  BY <1>1, <1>2, <1>3, <1>4, <1>5, <1>6, <1>7, <1>8, <1>9, WakingKeeps,
     EnteringKeeps DEF OffStep

\* So is a wakeup of the clock for a tsleep that is over ...
LEMMA ClockKeeps ==
    ASSUME SchedInv, NEW p \in Proc, ClockWake(p)
    PROVE  QueueInv' /\ CoopNext
<1>1. CoopInv /\ QueueInv
  BY DEF SchedInv, QueueInv
<1>2. TimerWake(p) /\ Readies(p)
  BY DEF ClockWake
<1>3. QueueInv'
  BY <1>1, <1>2, TimerAdds, ReadiesKeeps
<1> QED
  BY <1>2, <1>3 DEF CoopNext

\* ... and the wakeup of the alarm process that ends hzclock.
LEMMA HzclockKeeps ==
    ASSUME SchedInv, Hzclock
    PROVE  QueueInv' /\ [CoopNext]_coopvars
<1>1. CoopInv /\ QueueInv
  BY DEF SchedInv, QueueInv
<1>2. CASE UNCHANGED <<procs, holder>> /\ ReadiesNone
  BY <1>1, <1>2 DEF QueueInv, ReadiesNone, queuevars, coopvars
<1>3. CASE DeviceWake(AlarmRid) /\ Readies(Sleeper(AlarmRid))
  <2>1. AlarmRid \in Rid
    BY PriAssumption
  <2>2. Adds(procs, procs', Sleeper(AlarmRid))
    BY <1>1, <1>3, <2>1, SleeperAdds DEF DeviceWake
  <2>3. QueueInv'
    BY <1>1, <1>3, <2>2, ReadiesKeeps
  <2>4. CoopNext
    BY <1>3, <2>1 DEF CoopNext
  <2> QED
    BY <2>3, <2>4
<1> QED
  BY <1>2, <1>3 DEF Hzclock

\* Every step of the scheduler.
LEMMA SchedStep ==
    ASSUME SchedInv, [Next]_vars
    PROVE  SchedInv' /\ [CoopNext]_coopvars
<1>1. CoopInv /\ QueueInv
  BY DEF SchedInv, QueueInv
<1> DEFINE ClockInv == /\ clock \in {"off", "timers", "rebalance", "hzsched"}
                       /\ due \in SUBSET Proc
                       /\ rb \in 0 .. Npriq
<1>2. ClockInv
  BY DEF SchedInv
<1>3. CASE UNCHANGED vars
  BY <1>1, <1>2, <1>3 DEF vars, queuevars, clockvars, coopvars, SchedInv,
     CoopInv, NoDoubleSleep, Held, Guarded, MaySleepOn
<1>4. ASSUME OffStep, UNCHANGED clockvars
      PROVE  QueueInv' /\ [CoopNext]_coopvars /\ ClockInv'
  BY <1>1, <1>2, <1>4, OffKeeps DEF clockvars
<1>5. ASSUME ClockStart
      PROVE  QueueInv' /\ [CoopNext]_coopvars /\ ClockInv'
  BY <1>1, <1>2, <1>5 DEF ClockStart, QueueInv, queuevars, coopvars
<1>6. ASSUME NEW p \in Proc, ClockWake(p)
      PROVE  QueueInv' /\ [CoopNext]_coopvars /\ ClockInv'
  <2>1. ClockInv'
    BY <1>2, <1>6 DEF ClockWake
  <2> QED
    BY <1>6, <2>1, ClockKeeps
<1>7. ASSUME Hzclock
      PROVE  QueueInv' /\ [CoopNext]_coopvars /\ ClockInv'
  <2>1. ClockInv'
    BY <1>2, <1>7 DEF Hzclock
  <2> QED
    BY <1>7, <2>1, HzclockKeeps
<1>8. ASSUME Rebalance
      PROVE  QueueInv' /\ [CoopNext]_coopvars /\ ClockInv'
  <2>1. QueueInv' /\ rb' \in 0 .. Npriq
    BY <1>1, <1>2, <1>8, RebalanceKeeps
  <2>2. UNCHANGED <<procs, holder, clock, due>>
    BY <1>8 DEF Rebalance
  <2> QED
    BY <1>2, <2>1, <2>2 DEF coopvars
<1>9. ASSUME Rebalanced \/ Hzsched
      PROVE  QueueInv' /\ [CoopNext]_coopvars /\ ClockInv'
  <2>1. /\ UNCHANGED <<procs, holder, runq, nrdy, priority, basepri, due>>
        /\ readied' \in {readied, NoProc}
        /\ clock' \in {"off", "hzsched"}
        /\ rb' \in {rb, 0}
    BY <1>9 DEF Rebalanced, Hzsched, queuevars
  <2>2. 0 \in 0 .. Npriq
    BY PriAssumption, SMT
  <2> QED
    BY <1>1, <1>2, <2>1, <2>2 DEF QueueInv, coopvars
<1>10. ASSUME QueueInv', [CoopNext]_coopvars, ClockInv'
       PROVE  SchedInv'
  <2>1. CoopInv'
    <3>1. CASE CoopNext
      BY <1>1, <3>1, CoopStep
    <3>2. CASE UNCHANGED coopvars
      BY <1>1, <3>2 DEF coopvars, CoopInv, NoDoubleSleep, Held, Guarded,
         MaySleepOn
    <3> QED
      BY <1>10, <3>1, <3>2
  <2> QED
    BY <1>10, <2>1 DEF SchedInv, QueueInv
<1>11. CASE Next
  <2> HIDE DEF ClockInv
  <2>1. QueueInv' /\ [CoopNext]_coopvars /\ ClockInv'
    BY <1>4, <1>5, <1>6, <1>7, <1>8, <1>9, <1>11 DEF Next, OffStep
  <2> QED
    BY <1>10, <2>1
<1> QED
  BY <1>3, <1>11

\* The invariant holds throughout, and the scheduler implements Coop.
THEOREM SchedInvariant == Spec => []SchedInv /\ CoopSpec
<1>1. Init => SchedInv /\ CoopInit
  <2> SUFFICES ASSUME Init
               PROVE  SchedInv /\ CoopInit
    OBVIOUS
  <2>1. CoopInit
    BY DEF Init
  <2>2. CoopInv
    BY <2>1, CoopInitInv
  <2>3. ReadyOf(procs) = {}
    <3>1. PICK p \in Proc : procs = InitTable(p, {})
      BY <2>1 DEF CoopInit
    <3>2. \A q \in Proc : procs.state[q] \in {"Running", "Dead"}
      BY <3>1 DEF InitTable
    <3> QED
      BY <3>2 DEF ReadyOf
  <2>4. Queues({}, runq, nrdy)
    <3>1. runq = [i \in Rq |-> <<>>] /\ nrdy = 0
      BY DEF Init
    <3>2. Cardinality({}) = 0
      BY FS_EmptySet
    <3>3. PICK e : e = <<>>
      OBVIOUS
    <3>4. e \in Seq(Proc) /\ DOMAIN e = {}
      BY <3>3, SMTT(30)
    <3>5. runq \in [Rq -> Seq(Proc)] /\ \A i \in Rq : runq[i] = e
      BY <3>1, <3>3, <3>4
    <3> QED
      BY <3>1, <3>2, <3>3, <3>4, <3>5 DEF Queues
  <2>5. /\ priority \in [Proc -> Pri]
        /\ basepri \in [Proc -> Pri]
        /\ readied = NoProc /\ clock = "off" /\ due = {} /\ rb \in 0 .. Npriq
    BY PriAssumption, SMT DEF Init, Pri
  <2> QED
    BY <2>1, <2>2, <2>3, <2>4, <2>5 DEF SchedInv
<1>2. SchedInv /\ [Next]_vars => SchedInv' /\ [CoopNext]_coopvars
  BY SchedStep
<1> QED
  BY <1>1, <1>2, PTL DEF Spec, CoopSpec

\* Every choice the run queues make is one Coop allows: whatever is proved of
\* Coop's processes holds of the scheduled ones.
THEOREM SchedCooperates == Spec => Cooperates
BY SchedInvariant, PTL DEF Cooperates

\* The queues, nrdy, m->readied and the states of the processes agree.
THEOREM QueuesStayAgreed == Spec => []QueuesAgree
<1>1. SchedInv => QueuesAgree
  <2> SUFFICES ASSUME SchedInv
               PROVE  QueuesAgree
    OBVIOUS
  <2>1. /\ CoopTypeOK
        /\ Queues(ReadyOf(procs), runq, nrdy)
        /\ readied \in ReadyOf(procs) \cup {NoProc}
    BY DEF SchedInv, CoopTypeOK, CoopInv, Sound
  <2>2. nrdy \in Nat
    <3>1. ReadyOf(procs) \in SUBSET Proc
      BY DEF ReadyOf
    <3>2. IsFiniteSet(ReadyOf(procs))
      BY <3>1, PriAssumption, FS_Subset
    <3> QED
      BY <2>1, <3>2, FS_CardinalityType DEF Queues
  <2>3. TypeOK
    BY <2>1, <2>2 DEF TypeOK, SchedInv, Queues, ReadyOf
  <2>4. RunqOnce
    <3>1. \A p \in Proc : p \in ReadyOf(procs) <=> procs.state[p] = "Ready"
      BY DEF ReadyOf
    <3> QED
      BY <2>1, <3>1 DEF Queues, RunqOnce
  <2>5. NrdyCounts
    BY <2>1 DEF Queues, NrdyCounts, ReadyOf
  <2>6. ReadiedIsReady
    BY <2>1 DEF ReadiedIsReady, ReadyOf
  <2> QED
    BY <2>3, <2>4, <2>5, <2>6 DEF QueuesAgree
<1> QED
  BY <1>1, SchedInvariant, PTL

\* Somebody is entered only by sched.
LEMMA EnteredBySched ==
    ASSUME SchedInv, [Next]_vars, procs.up = NoProc, procs'.up # NoProc
    PROVE  \E p \in Proc : Entering(p) /\ procs'.up = p
<1>1. procs \in Table
  BY DEF SchedInv, CoopInv, Sound
<1>2. \A p \in Proc : ~IsRunning(procs, p) /\ procs.up # p
  BY NoneAssumption DEF IsRunning
<1>3. ASSUME NEW p \in Proc
      PROVE  ~(\/ Quietly(p) \/ Waking(p) \/ Forking(p) \/ Exiting(p)
               \/ Procpriority(p) \/ Leaving(p))
  BY <1>2 DEF Quietly, Waking, Forking, Exiting, Procpriority, Leaving,
     SleepOn,
     SleepTimed, Unbreak, LockFor, TakeNote, WaitRendezvous, WakeupOn, Stop,
     Unlock, Note, MeetRendezvous, Start, KillStopped, Fork, Exit, Leave
<1>4. ASSUME NEW r \in Rid, procs' = Wakeup(procs, r)
      PROVE  FALSE
  BY <1>1, <1>4, WakeupAdds
<1>5. procs' # procs
  OBVIOUS
<1>6. ~\E r \in Rid : DeviceIntr(r)
  BY <1>4 DEF DeviceIntr, DeviceWake
<1>7. ~\E p \in Proc : ClockWake(p)
  <2> SUFFICES ASSUME NEW p \in Proc, TimerWake(p)
               PROVE  FALSE
    BY DEF ClockWake
  <2>1. procs.r[p] \in Rid
    BY DEF TimerWake, SchedInv, CoopInv, Sound, Paired
  <2> QED
    BY <1>4, <2>1 DEF TimerWake
<1>8. ~Hzclock
  BY <1>4, <1>5, PriAssumption DEF Hzclock, DeviceWake
<1>9. ~(ClockStart \/ Rebalance \/ Rebalanced \/ Hzsched)
  BY <1>5 DEF ClockStart, Rebalance, Rebalanced, Hzsched
<1>10. ~UNCHANGED vars
  BY <1>5 DEF vars
<1>11. PICK p \in Proc : Entering(p)
  BY <1>3, <1>6, <1>7, <1>8, <1>9, <1>10 DEF Next
<1>12. procs'.up = p
  BY <1>1, <1>11 DEF Entering, Enter, Table
<1> QED
  BY <1>11, <1>12

\* A process just made ready is entered next, unless ctl's pri moved its
\* priority away from the queue it is on.
THEOREM JustReadiedIsNext == Spec => HandsOver
<1>1. SchedInv /\ [Next]_vars =>
         [ /\ procs.up = NoProc /\ procs'.up # NoProc
           /\ readied # NoProc
           /\ readied \in Range(runq[priority[readied]])
           => procs'.up = readied ]_vars
  <2> SUFFICES ASSUME SchedInv, [Next]_vars,
                      procs.up = NoProc, procs'.up # NoProc,
                      readied # NoProc,
                      readied \in Range(runq[priority[readied]])
               PROVE  procs'.up = readied
    OBVIOUS
  <2>1. PICK p \in Proc : Entering(p) /\ procs'.up = p
    BY EnteredBySched
  <2>2. TakesReadied
    BY PriFacts DEF TakesReadied, NoEdf, SchedInv, Queues, ReadyOf
  <2> QED
    BY <2>1, <2>2 DEF Entering, Runproc
<1> QED
  BY <1>1, SchedInvariant, PTL DEF Spec, HandsOver

\* Nobody else is entered while a process of a higher queue waits.
THEOREM HighestIsNext == Spec => HighestFirst
<1>1. SchedInv /\ [Next]_vars =>
         [ /\ procs.up = NoProc /\ procs'.up # NoProc
           /\ procs'.up # readied
           => \A i \in Rq : runq'[i] # <<>> =>
                 \E j \in Rq : i <= j /\ procs'.up \in Range(runq[j]) ]_vars
  <2> SUFFICES ASSUME SchedInv, [Next]_vars,
                      procs.up = NoProc, procs'.up # NoProc,
                      procs'.up # readied,
                      NEW i \in Rq, runq'[i] # <<>>
               PROVE  \E j \in Rq : i <= j /\ procs'.up \in Range(runq[j])
    OBVIOUS
  <2>1. PICK p \in Proc : Entering(p) /\ procs'.up = p
    BY EnteredBySched
  <2>2. PICK j \in Rq : Runproc(j, p) /\ runq' = Dequeueproc(j, p)
    BY <2>1 DEF Entering
  <2>3. Highest(j)
    BY <2>1, <2>2 DEF Runproc
  <2>4. PICK k \in DOMAIN runq[j] : runq[j][k] = p
    BY <2>1, <2>2, RunprocFinds DEF SchedInv, QueueInv
  <2>5. runq \in [Rq -> Seq(Proc)]
    BY DEF SchedInv, Queues
  <2>6. p \in Range(runq[j])
    BY <2>4, <2>5 DEF Range
  <2>7. i # j => runq[i] # <<>>
    BY <2>2, <2>5 DEF Dequeueproc
  <2>8. i <= j
    BY <2>3, <2>7, PriFacts, SMTT(30) DEF Highest
  <2> QED
    BY <2>1, <2>6, <2>8
<1> QED
  BY <1>1, SchedInvariant, PTL DEF Spec, HighestFirst
=============================================================================
