----------------------------- MODULE PipeProofs -----------------------------
(***************************************************************************)
(* A pipe keeps its locks, its lengths and its wakeups, for any number of   *)
(* processes, any sizes and any limit.                                      *)
(*                                                                         *)
(* Each operation takes the table another left, so the invariant is stated  *)
(* of a table: a lock is taken when one call that is not queued for it has  *)
(* it, the running process's in the middle of its step included.            *)
(*                                                                         *)
(* What the steps need of cardinalities is collected in Counted, which the  *)
(* lemmas assume; it is proved at the end, where the library's theorems     *)
(* about finite sets come in, so that no other proof has them around.       *)
(***************************************************************************)
EXTENDS Pipe, ProcsProofs, Integers

\* The prover of every step that names no other.
USE ZenonT(40)

NoLock == <<"none", 0>>

\* The lock a call at a has or queues for.
Lk(c, a) == IF c.op = "read" THEN Rlock(c.i)
            ELSE IF c.op = "write" /\ a.k # "Loop" THEN Wlock(c.i)
            ELSE NoLock

Lks == [p \in Proc |-> Lk(call[p], at[p])]

\* The lock under which a call sleeps on r.
Guard(r) == IF r[1] = "Rr" THEN Rlock(r[2]) ELSE Wlock(r[2])

\* The locks of the table t, lk[p] being the one that p's call has or waits for.
LockInv(t, lk) ==
    /\ Sound(t)
    /\ lk \in [Proc -> Qlk \cup {NoLock}]
    /\ \A l \in Qlk : t.lock[l].locked <=>
          \E p \in Proc : lk[p] = l /\ t.state[p] # "Queueing"
    /\ \A p, s \in Proc :
          /\ lk[p] \in Qlk /\ lk[p] = lk[s]
          /\ t.state[p] # "Queueing" /\ t.state[s] # "Queueing"
          => p = s
    /\ \A l \in Qlk : \A k \in DOMAIN t.lock[l].q : lk[t.lock[l].q[k]] = l
    /\ \A r \in Rid : t.p[r] # NoProc => lk[t.p[r]] = Guard(r)

\* The call of a process that has the ends o open, and where it left.
IsRead(c, o) == \E i \in End, n \in Nat : c = Reading(i, n) /\ i \in o

IsWrite(c, o) ==
    \E i \in End, bs \in Seq(Seq(Proc \X Nat)) :
       c = Writing(i, bs) /\ Other(i) \in o

CallOK(c, a, o) ==
    \/ c = NoCall /\ a = NoAt
    \/ IsRead(c, o) /\ \E s \in BOOLEAN : a = AtRead(s)
    \/ /\ IsWrite(c, o)
       /\ \E d \in Nat, s \in BOOLEAN :
             d < Len(c.bs) /\ a \in {AtWlock(d), AtFlow(d, s), AtLoop(d)}

Calls ==
    /\ call = [p \in Proc |-> call[p]] /\ at = [p \in Proc |-> at[p]]
    /\ \A p \in Proc : CallOK(call[p], at[p], open[p])

\* A queue's length is that of its blocks.
QueueOK(x) ==
    /\ x \in Queue
    /\ IsFiniteSet(Allocated(x.blocks))
    /\ x.len = Cardinality(Allocated(x.blocks))

\* Who sleeps on the queue x, whose rr and wr name rr and wr, is to be woken.
Tended(x, rr, wr) ==
    /\ rr # NoProc => x.blocks = <<>> /\ ~x.closed /\ x.starve
    /\ wr # NoProc => /\ x.blocks # <<>> /\ ~x.closed /\ x.flow
                      /\ x.len >= Limit \div 2

Queues(t, f) ==
    /\ f \in [End -> Queue]
    /\ \A i \in End : QueueOK(f[i]) /\ Tended(f[i], t.p[Rr(i)], t.p[Wr(i)])

\* The opens are counted.
Opens ==
    /\ open \in [Proc -> SUBSET End]
    /\ qref = [e \in End |-> Cardinality({p \in Proc : e \in open[p]})]

PipeInv ==
    LockInv(procs, Lks) /\ Calls /\ Queues(procs, q) /\ Opens /\ ClosedTogether
-----------------------------------------------------------------------------
(* The locks.                                                               *)

\* The locks and the Rendez of the two queues are different things.
LEMMA NameFacts ==
    /\ \A i \in End : /\ Rr(i) \in Rid /\ Wr(i) \in Rid
                      /\ Rlock(i) \in Qlk /\ Wlock(i) \in Qlk
                      /\ Guard(Rr(i)) = Rlock(i) /\ Guard(Wr(i)) = Wlock(i)
                      /\ Other(i) \in End
    /\ \A i, j \in End : /\ Rr(i) # Wr(j)
                         /\ Rr(i) = Rr(j) => i = j
                         /\ Wr(i) = Wr(j) => i = j
    /\ NoLock \notin Qlk
    /\ \A r \in Rid : Guard(r) \in Qlk
BY PipeAssumption, SMT DEF Rr, Wr, Rlock, Wlock, Guard, NoLock, End, Other

\* A step that queues nobody and takes nobody off a queue keeps the locks, if
\* nobody new sleeps.
LEMMA LocksKept ==
    ASSUME NEW t, NEW u, NEW lk, LockInv(t, lk), Sound(u), u.lock = t.lock,
           \A p \in Proc : u.state[p] = "Queueing" <=> t.state[p] = "Queueing",
           \A r \in Rid : u.p[r] \in {t.p[r], NoProc}
    PROVE  LockInv(u, lk)
<1>1. \A l \in Qlk : u.lock[l].locked <=>
         \E p \in Proc : lk[p] = l /\ u.state[p] # "Queueing"
  BY DEF LockInv
<1>2. \A p, s \in Proc :
         /\ lk[p] \in Qlk /\ lk[p] = lk[s]
         /\ u.state[p] # "Queueing" /\ u.state[s] # "Queueing"
         => p = s
  BY DEF LockInv
<1>3. \A r \in Rid : u.p[r] # NoProc => lk[u.p[r]] = Guard(r)
  BY DEF LockInv
<1>4. /\ lk \in [Proc -> Qlk \cup {NoLock}]
      /\ \A l \in Qlk : \A k \in DOMAIN u.lock[l].q : lk[u.lock[l].q[k]] = l
  <2>1. \A l \in Qlk : u.lock[l] = t.lock[l]
    OBVIOUS
  <2> QED
    BY <2>1, SMT DEF LockInv
<1> QED
  BY <1>1, <1>2, <1>3, <1>4 DEF LockInv

\* wakeup.
LEMMA WakeupLocks ==
    ASSUME NEW t, NEW lk, LockInv(t, lk), NEW r \in Rid
    PROVE  /\ LockInv(Wakeup(t, r), lk)
           /\ Wakeup(t, r).p[r] = NoProc
           /\ \A s \in Rid \ {r} : Wakeup(t, r).p[s] = t.p[s]
           /\ Wakeup(t, r).up = t.up
           /\ \A p \in Proc : t.state[p] \in {"Running", "Ready"} =>
                 Wakeup(t, r).state[p] = t.state[p]
<1>1. PICK u : u = Wakeup(t, r)
  OBVIOUS
<1>2. Sound(t) /\ t \in Table
  BY DEF LockInv, Sound
<1>3. /\ Sound(u) /\ u.lock = t.lock /\ u.up = t.up
      /\ u.p = IF CanWake(t, r) THEN [t.p EXCEPT ![r] = NoProc] ELSE t.p
      /\ u.state = IF CanWake(t, r) THEN [t.state EXCEPT ![t.p[r]] = "Ready"]
                   ELSE t.state
  BY <1>1, <1>2, WakeupSound
<1>4. /\ t.p \in [Rid -> Proc \cup {NoProc}] /\ t.state \in [Proc -> State]
      /\ CanWake(t, r) <=> t.p[r] # NoProc
      /\ CanWake(t, r) => t.state[t.p[r]] = "Wakeme" /\ t.p[r] \in Proc
  BY <1>2, SMT DEF Table, Sound, Paired, CanWake
<1>5. u.p[r] = NoProc /\ \A s \in Rid \ {r} : u.p[s] = t.p[s]
  BY <1>3, <1>4
<1>6. \A p \in Proc : /\ u.state[p] = "Queueing" <=> t.state[p] = "Queueing"
                      /\ t.state[p] \in {"Running", "Ready"} => u.state[p] = t.state[p]
  BY <1>3, <1>4
<1>7. \A s \in Rid : u.p[s] \in {t.p[s], NoProc}
  BY <1>5
<1>8. LockInv(u, lk)
  BY <1>3, <1>6, <1>7, LocksKept
<1> QED
  BY <1>1, <1>3, <1>5, <1>6, <1>8

\* sched enters a process.
LEMMA EnterLocks ==
    ASSUME NEW t, NEW lk, LockInv(t, lk), NEW p \in Proc,
           t.up = NoProc, t.state[p] = "Ready"
    PROVE  /\ LockInv(Enter(t, p), lk)
           /\ IsRunning(Enter(t, p), p)
           /\ Enter(t, p).p = t.p
<1>1. PICK u : u = Enter(t, p)
  OBVIOUS
<1>2. Sound(t) /\ t.state \in [Proc -> State]
  BY DEF LockInv, Sound, Table
<1>3. /\ Sound(u) /\ u.lock = t.lock /\ u.up = p /\ u.p = t.p
      /\ u.state = [t.state EXCEPT ![p] = "Running"]
  BY <1>1, <1>2, EnterSound
<1>4. \A s \in Proc : u.state[s] = "Queueing" <=> t.state[s] = "Queueing"
  BY <1>2, <1>3
<1>5. LockInv(u, lk)
  BY <1>3, <1>4, LocksKept
<1>6. u.state[p] = "Running"
  BY <1>2, <1>3
<1> QED
  BY <1>1, <1>3, <1>5, <1>6 DEF IsRunning

\* The process leaves the processor.
LEMMA LeftLocks ==
    ASSUME NEW t, NEW lk, LockInv(t, lk), NEW p \in Proc, t.up = p
    PROVE  LockInv(Left(t, p), lk) /\ Left(t, p).p = t.p
<1>1. PICK u : u = Left(t, p)
  OBVIOUS
<1>2. Sound(t)
  BY DEF LockInv
<1>3. /\ Sound(u) /\ u.lock = t.lock /\ u.p = t.p
      /\ \A s \in Proc \ {p} : u.state[s] = t.state[s]
  BY <1>1, <1>2, LeftSound, SMT
<1>4. u.state[p] = "Queueing" <=> t.state[p] = "Queueing"
  <2>1. u.state = [t.state EXCEPT ![p] = CASE t.state[p] = "Running"  -> "Ready"
                                           [] t.state[p] = "Moribund" -> "Dead"
                                           [] OTHER                   -> t.state[p]]
    BY <1>1, <1>2 DEF Left, Sound, Table
  <2>2. t.state \in [Proc -> State]
    BY <1>2 DEF Sound, Table
  <2> QED
    BY <2>1, <2>2, <1>3
<1>5. \A s \in Proc : u.state[s] = "Queueing" <=> t.state[s] = "Queueing"
  BY <1>3, <1>4
<1>6. LockInv(u, lk)
  BY <1>3, <1>5, LocksKept
<1> QED
  BY <1>1, <1>3, <1>6

\* postnote.
LEMMA PostnoteLocks ==
    ASSUME NEW t, NEW lk, LockInv(t, lk), NEW p \in Proc
    PROVE  /\ LockInv(Postnote(t, p), lk)
           /\ \A r \in Rid : Postnote(t, p).p[r] \in {t.p[r], NoProc}
<1>1. PICK u : u = Postnote(t, p)
  OBVIOUS
<1>2. Sound(t) /\ t.state \in [Proc -> State]
  BY DEF LockInv, Sound, Table
<1>3. /\ Sound(u) /\ u.lock = t.lock
      /\ \A r \in Rid : u.p[r] \in {t.p[r], NoProc}
      /\ u.state = IF NoteWakes(t, p) THEN [t.state EXCEPT ![p] = "Ready"]
                   ELSE t.state
  BY <1>1, <1>2, PostnoteSound
<1>4. \A s \in Proc : u.state[s] = "Queueing" <=> t.state[s] = "Queueing"
  BY <1>2, <1>3 DEF NoteWakes
<1>5. LockInv(u, lk)
  BY <1>3, <1>4, LocksKept
<1> QED
  BY <1>1, <1>3, <1>5

\* interrupted.
LEMMA InterruptedLocks ==
    ASSUME NEW t, NEW lk, LockInv(t, lk), NEW p \in Proc
    PROVE  /\ LockInv(Interrupted(t, p), lk)
           /\ Interrupted(t, p).p = t.p
           /\ IsRunning(t, p) => IsRunning(Interrupted(t, p), p)
<1>1. PICK u : u = Interrupted(t, p)
  OBVIOUS
<1>2. Sound(t)
  BY DEF LockInv
<1>3. /\ Sound(u) /\ u.lock = t.lock /\ u.state = t.state /\ u.p = t.p
      /\ u.up = t.up
  BY <1>1, <1>2, InterruptedSound
<1>4. LockInv(u, lk)
  BY <1>3, LocksKept
<1> QED
  BY <1>1, <1>3, <1>4 DEF IsRunning

\* qlock by the running process: it has the lock, or is queued for it.
LEMMA QlockLocks ==
    ASSUME NEW t, NEW lk, LockInv(t, lk), NEW p \in Proc, NEW l \in Qlk,
           IsRunning(t, p), lk[p] = NoLock
    PROVE  /\ LockInv(Qlock(t, l, p), [lk EXCEPT ![p] = l])
           /\ Qlock(t, l, p).p = t.p
           /\ Qlock(t, l, p).up = p
           /\ ~t.lock[l].locked => IsRunning(Qlock(t, l, p), p)
<1>1. PICK u, v : u = Qlock(t, l, p) /\ v = [lk EXCEPT ![p] = l]
  OBVIOUS
<1>2. /\ Sound(t) /\ lk \in [Proc -> Qlk \cup {NoLock}]
      /\ t.state \in [Proc -> State] /\ t.state[p] = "Running" /\ t.up = p
      /\ \A m \in Qlk : t.lock[m].q \in Seq(Proc)
  BY DEF LockInv, Sound, Table, IsRunning
<1>3. Sound(u) /\ Locking(t, u, p, l)
  BY <1>1, <1>2, QlockSound
<1>4. /\ v \in [Proc -> Qlk \cup {NoLock}] /\ v[p] = l
      /\ \A s \in Proc \ {p} : v[s] = lk[s]
  BY <1>1, <1>2
<1>5. NoLock \notin Qlk
  BY NameFacts
<1>6. \A s \in Proc \ {p} : u.state[s] = t.state[s]
  BY <1>2, <1>3 DEF Locking
<1>7. t.lock[l].locked => u.state[p] = "Queueing"
  BY <1>2, <1>3 DEF Locking
<1>8. ~t.lock[l].locked => u.state[p] = "Running"
  BY <1>2, <1>3 DEF Locking
<1>9. \A m \in Qlk : u.lock[m].locked <=>
         \E s \in Proc : v[s] = m /\ u.state[s] # "Queueing"
  <2> SUFFICES ASSUME NEW m \in Qlk
               PROVE  u.lock[m].locked <=>
                         \E s \in Proc : v[s] = m /\ u.state[s] # "Queueing"
    OBVIOUS
  <2>1. t.lock[m].locked <=> \E s \in Proc : lk[s] = m /\ t.state[s] # "Queueing"
    BY DEF LockInv
  <2>2. CASE m # l
    <3>1. u.lock[m] = t.lock[m]
      BY <2>2, <1>3 DEF Locking
    <3> QED
      BY <3>1, <2>1, <2>2, <1>4, <1>5, <1>6
  <2>3. CASE m = l
    <3>1. u.lock[l].locked
      BY <1>3 DEF Locking
    <3>2. CASE t.lock[l].locked
      <4>1. PICK s \in Proc : lk[s] = l /\ t.state[s] # "Queueing"
        BY <3>2, <2>1, <2>3
      <4>2. s # p
        BY <4>1, <1>5
      <4>3. v[s] = l /\ u.state[s] # "Queueing"
        BY <4>1, <4>2, <1>4, <1>6
      <4> QED
        BY <4>3, <3>1, <2>3
    <3>3. CASE ~t.lock[l].locked
      BY <3>1, <3>3, <2>3, <1>4, <1>8
    <3> QED
      BY <3>2, <3>3
  <2> QED
    BY <2>2, <2>3
<1>10. \A s, x \in Proc :
          /\ v[s] \in Qlk /\ v[s] = v[x]
          /\ u.state[s] # "Queueing" /\ u.state[x] # "Queueing"
          => s = x
  <2>1. \A s \in Proc \ {p} : v[s] = l /\ u.state[s] # "Queueing" =>
            u.state[p] = "Queueing"
    <3> SUFFICES ASSUME NEW s \in Proc \ {p}, v[s] = l, u.state[s] # "Queueing"
                 PROVE  u.state[p] = "Queueing"
      OBVIOUS
    <3>1. lk[s] = l /\ t.state[s] # "Queueing"
      BY <1>4, <1>6
    <3>2. t.lock[l].locked
      BY <3>1 DEF LockInv
    <3> QED
      BY <3>2, <1>7
  <2>2. \A s, x \in Proc \ {p} :
          /\ v[s] \in Qlk /\ v[s] = v[x]
          /\ u.state[s] # "Queueing" /\ u.state[x] # "Queueing"
          => s = x
    <3>1. \A s, x \in Proc :
             /\ lk[s] \in Qlk /\ lk[s] = lk[x]
             /\ t.state[s] # "Queueing" /\ t.state[x] # "Queueing"
             => s = x
      BY DEF LockInv
    <3> QED
      BY <3>1, <1>4, <1>6
  <2> QED
    BY <2>1, <2>2, <1>4
<1>11. \A m \in Qlk : \A k \in DOMAIN u.lock[m].q : v[u.lock[m].q[k]] = m
  <2> SUFFICES ASSUME NEW m \in Qlk, NEW k \in DOMAIN u.lock[m].q
               PROVE  v[u.lock[m].q[k]] = m
    OBVIOUS
  <2>1. \A j \in DOMAIN t.lock[m].q :
           /\ t.lock[m].q[j] \in Proc
           /\ lk[t.lock[m].q[j]] = m /\ t.lock[m].q[j] # p
    <3>1. \A j \in DOMAIN t.lock[m].q : lk[t.lock[m].q[j]] = m
      BY DEF LockInv
    <3>2. \A j \in DOMAIN t.lock[m].q : t.lock[m].q[j] \in Proc
      BY <1>2, SMT
    <3> QED
      BY <3>1, <3>2, <1>5
  <2>2. CASE u.lock[m].q = t.lock[m].q
    BY <2>1, <2>2, <1>4
  <2>3. CASE m = l /\ u.lock[m].q = Append(t.lock[m].q, p)
    <3> DEFINE a == t.lock[m].q
    <3>1. /\ Len(a) \in Nat /\ DOMAIN a = 1 .. Len(a)
          /\ DOMAIN Append(a, p) = 1 .. (Len(a) + 1)
          /\ \A i \in 1 .. Len(a) : Append(a, p)[i] = a[i]
          /\ Append(a, p)[Len(a) + 1] = p
      <4>1. a \in Seq(Proc)
        BY <1>2
      <4> HIDE DEF a
      <4> QED
        BY <4>1, AppendFacts, SMT
    <3>2. k \in DOMAIN Append(a, p) /\ u.lock[m].q[k] = Append(a, p)[k]
      BY <2>3
    <3>3. \A j \in DOMAIN a : a[j] \in Proc /\ lk[a[j]] = m /\ a[j] # p
      BY <2>1
    <3> HIDE DEF a
    <3>4. k \in DOMAIN a \/ k = Len(a) + 1
      BY <3>1, <3>2, SMT
    <3>5. CASE k \in DOMAIN a
      <4>1. u.lock[m].q[k] = a[k]
        BY <3>1, <3>2, <3>5
      <4> QED
        BY <4>1, <3>3, <3>5, <1>4
    <3>6. CASE k = Len(a) + 1
      <4>1. u.lock[m].q[k] = p
        BY <3>1, <3>2, <3>6
      <4> QED
        BY <4>1, <2>3, <1>4
    <3> QED
      BY <3>4, <3>5, <3>6
  <2> QED
    BY <2>2, <2>3, <1>3 DEF Locking
<1>12. \A r \in Rid : u.p[r] # NoProc => v[u.p[r]] = Guard(r)
  <2>1. \A r \in Rid : t.p[r] # NoProc => lk[t.p[r]] = Guard(r)
    BY DEF LockInv
  <2>2. \A r \in Rid : Guard(r) \in Qlk
    BY NameFacts
  <2>3. u.p = t.p /\ t.p \in [Rid -> Proc \cup {NoProc}]
    BY <1>2, <1>3 DEF Locking, Sound, Table
  <2> QED
    BY <2>1, <2>2, <2>3, <1>4, <1>5, SMT
<1>13. LockInv(u, v)
  BY <1>3, <1>4, <1>9, <1>10, <1>11, <1>12 DEF LockInv
<1>14. u.p = t.p /\ u.up = p
  BY <1>2, <1>3 DEF Locking
<1> QED
  BY <1>1, <1>8, <1>13, <1>14 DEF IsRunning

\* Who sleeps on another Rendez than r does so still.
OnlyOn(t, u, r) == \A s \in Rid \ {r} : u.p[s] = t.p[s]

\* p runs with the lock l.
Holds(t, lk, p, l) == LockInv(t, lk) /\ IsRunning(t, p) /\ lk[p] = l

\* Who has the lock of r and comes to sleep finds r free (no double sleep);
\* asleep it has the lock still.
LEMMA SleepLocks ==
    ASSUME NEW t, NEW lk, NEW p \in Proc, NEW r \in Rid,
           Holds(t, lk, p, Guard(r))
    PROVE  /\ t.p[r] = NoProc
           /\ LockInv(Sleep(t, p, r, FALSE), lk)
           /\ Sleep(t, p, r, FALSE).up = p
           /\ OnlyOn(t, Sleep(t, p, r, FALSE), r)
           /\ Sleeps(t, p, FALSE) \/ /\ Sleep(t, p, r, FALSE).p = t.p
                                     /\ IsRunning(Sleep(t, p, r, FALSE), p)
<1> LockInv(t, lk) /\ IsRunning(t, p) /\ lk[p] = Guard(r)
  BY DEF Holds
<1>1. PICK u : u = Sleep(t, p, r, FALSE)
  OBVIOUS
<1>2. /\ Sound(t) /\ t.state \in [Proc -> State] /\ t.state[p] = "Running"
      /\ t.up = p /\ t.p \in [Rid -> Proc \cup {NoProc}]
  BY DEF LockInv, Sound, Table, IsRunning
<1>3. Guard(r) \in Qlk
  BY NameFacts
<1>4. t.p[r] = NoProc
  <2> SUFFICES ASSUME t.p[r] # NoProc PROVE FALSE
    OBVIOUS
  <2>1. t.p[r] \in Proc /\ t.state[t.p[r]] = "Wakeme"
    BY <1>2, SMT DEF Sound, Paired, CanWake
  <2>2. lk[t.p[r]] = lk[p]
    BY DEF LockInv
  <2>3. t.p[r] = p
    <3>1. \A s, x \in Proc :
             /\ lk[s] \in Qlk /\ lk[s] = lk[x]
             /\ t.state[s] # "Queueing" /\ t.state[x] # "Queueing"
             => s = x
      BY DEF LockInv
    <3> QED
      BY <3>1, <2>1, <2>2, <1>2, <1>3
  <2> QED
    BY <2>1, <2>3, <1>2
<1>5. /\ Sound(u) /\ u.lock = t.lock /\ u.up = p
      /\ u.p = IF Sleeps(t, p, FALSE) THEN [t.p EXCEPT ![r] = p] ELSE t.p
      /\ u.state = IF Sleeps(t, p, FALSE) THEN [t.state EXCEPT ![p] = "Wakeme"]
                   ELSE t.state
  BY <1>1, <1>2, <1>4, SleepSound
<1>6. \A s \in Proc : u.state[s] = "Queueing" <=> t.state[s] = "Queueing"
  BY <1>2, <1>5
<1>7. \A s \in Rid \ {r} : u.p[s] = t.p[s]
  BY <1>2, <1>5
<1>8. u.p[r] \in {p, NoProc}
  BY <1>2, <1>4, <1>5
<1>9. \A l \in Qlk : u.lock[l].locked <=>
         \E s \in Proc : lk[s] = l /\ u.state[s] # "Queueing"
  BY <1>5, <1>6 DEF LockInv
<1>10. \A s, x \in Proc :
          /\ lk[s] \in Qlk /\ lk[s] = lk[x]
          /\ u.state[s] # "Queueing" /\ u.state[x] # "Queueing"
          => s = x
  BY <1>6 DEF LockInv
<1>11. \A s \in Rid : u.p[s] # NoProc => lk[u.p[s]] = Guard(s)
  <2>1. \A s \in Rid : t.p[s] # NoProc => lk[t.p[s]] = Guard(s)
    BY DEF LockInv
  <2> QED
    BY <2>1, <1>7, <1>8
<1>12. /\ lk \in [Proc -> Qlk \cup {NoLock}]
       /\ \A l \in Qlk : \A k \in DOMAIN u.lock[l].q : lk[u.lock[l].q[k]] = l
  <2>1. \A l \in Qlk : u.lock[l] = t.lock[l]
    BY <1>5
  <2> QED
    BY <2>1, SMT DEF LockInv
<1>13. LockInv(u, lk)
  BY <1>5, <1>9, <1>10, <1>11, <1>12 DEF LockInv
<1>14. ~Sleeps(t, p, FALSE) => u.p = t.p /\ u.state[p] = "Running"
  BY <1>2, <1>5
<1> QED
  BY <1>1, <1>4, <1>5, <1>7, <1>13, <1>14 DEF IsRunning, OnlyOn

\* qunlock by the call that has the lock: it goes to the first that waits.
LEMMA QunlockLocks ==
    ASSUME NEW t, NEW lk, LockInv(t, lk), NEW p \in Proc, NEW l \in Qlk,
           IsRunning(t, p), lk[p] = l
    PROVE  /\ LockInv(Qunlock(t, l), [lk EXCEPT ![p] = NoLock])
           /\ Qunlock(t, l).p = t.p
           /\ IsRunning(Qunlock(t, l), p)
<1>1. PICK u, v : u = Qunlock(t, l) /\ v = [lk EXCEPT ![p] = NoLock]
  OBVIOUS
<1>2. /\ Sound(t) /\ lk \in [Proc -> Qlk \cup {NoLock}]
      /\ t.state \in [Proc -> State] /\ t.state[p] = "Running" /\ t.up = p
      /\ t.p \in [Rid -> Proc \cup {NoProc}]
      /\ \A m \in Qlk : t.lock[m].q \in Seq(Proc)
  BY DEF LockInv, Sound, Table, IsRunning
<1>3. /\ Sound(u) /\ u.p = t.p /\ u.up = t.up
      /\ u.state = IF t.lock[l].q # <<>>
                   THEN [t.state EXCEPT ![Head(t.lock[l].q)] = "Ready"]
                   ELSE t.state
      /\ u.lock[l].locked <=> t.lock[l].q # <<>>
      /\ u.lock[l].q = IF t.lock[l].q # <<>> THEN Tail(t.lock[l].q)
                       ELSE t.lock[l].q
      /\ \A m \in Qlk \ {l} : u.lock[m] = t.lock[m]
  <2> DEFINE w == Qunlock(t, l)
  <2>1. /\ Sound(w) /\ w.p = t.p /\ w.up = t.up
        /\ w.state = IF t.lock[l].q # <<>>
                     THEN [t.state EXCEPT ![Head(t.lock[l].q)] = "Ready"]
                     ELSE t.state
    BY <1>2, QunlockSound, SMT
  <2>2. w.lock[l].locked <=> t.lock[l].q # <<>>
    BY <1>2, QunlockSound
  <2>3. w.lock[l].q = IF t.lock[l].q # <<>> THEN Tail(t.lock[l].q)
                      ELSE t.lock[l].q
    BY <1>2, QunlockSound
  <2>4. \A m \in Qlk \ {l} : w.lock[m] = t.lock[m]
    BY <1>2 DEF Qunlock, Sound, Table
  <2>5. u = w
    BY <1>1
  <2> HIDE DEF w
  <2> QED
    BY <2>1, <2>2, <2>3, <2>4, <2>5
<1>4. /\ v \in [Proc -> Qlk \cup {NoLock}] /\ v[p] = NoLock
      /\ \A s \in Proc \ {p} : v[s] = lk[s]
  BY <1>1, <1>2
<1>5. NoLock \notin Qlk
  BY NameFacts
<1>6. \A m \in Qlk : \A j \in DOMAIN t.lock[m].q :
         /\ t.lock[m].q[j] \in Proc /\ lk[t.lock[m].q[j]] = m
         /\ t.state[t.lock[m].q[j]] = "Queueing"
  <2>1. \A m \in Qlk : \A j \in DOMAIN t.lock[m].q :
           t.lock[m].q[j] \in Proc /\ lk[t.lock[m].q[j]] = m
    BY <1>2, SMT DEF LockInv
  <2> QED
    BY <2>1, <1>2, SMTT(30) DEF Sound, Queued, Waits
<1>8. \A m \in Qlk : t.lock[m].locked <=>
         \E s \in Proc : lk[s] = m /\ t.state[s] # "Queueing"
  BY DEF LockInv
<1>9. \A s, x \in Proc :
         /\ lk[s] \in Qlk /\ lk[s] = lk[x]
         /\ t.state[s] # "Queueing" /\ t.state[x] # "Queueing"
         => s = x
  BY DEF LockInv
<1>7. \A s \in Proc : lk[s] = l /\ t.state[s] # "Queueing" => s = p
  BY <1>2, <1>9
<1>10. \A r \in Rid : u.p[r] # NoProc => v[u.p[r]] = Guard(r)
  <2>1. \A r \in Rid : t.p[r] # NoProc =>
           lk[t.p[r]] = Guard(r) /\ t.state[t.p[r]] = "Wakeme"
    BY <1>2 DEF LockInv, Sound, Paired, CanWake
  <2>2. \A r \in Rid : t.p[r] # p
    BY <2>1, <1>2, NoneAssumption
  <2> QED
    BY <2>1, <2>2, <1>2, <1>3, <1>4, SMT
<1>11. CASE t.lock[l].q = <<>>
  <2>1. u.state = t.state /\ ~u.lock[l].locked /\ \A m \in Qlk : u.lock[m].q = t.lock[m].q
    BY <1>3, <1>11
  <2>2. \A m \in Qlk : u.lock[m].locked <=>
           \E s \in Proc : v[s] = m /\ u.state[s] # "Queueing"
    <3> SUFFICES ASSUME NEW m \in Qlk
                 PROVE  u.lock[m].locked <=>
                           \E s \in Proc : v[s] = m /\ u.state[s] # "Queueing"
      OBVIOUS
    <3>1. CASE m = l
      BY <3>1, <2>1, <1>4, <1>5, <1>7
    <3>2. CASE m # l
      <4>1. u.lock[m] = t.lock[m]
        BY <3>2, <1>3
      <4>2. \A s \in Proc : v[s] = m <=> lk[s] = m
        BY <3>2, <1>4, <1>5
      <4> QED
        BY <4>1, <4>2, <2>1, <1>8, SMT
    <3> QED
      BY <3>1, <3>2
  <2>3. \A s, x \in Proc :
           /\ v[s] \in Qlk /\ v[s] = v[x]
           /\ u.state[s] # "Queueing" /\ u.state[x] # "Queueing"
           => s = x
    BY <2>1, <1>4, <1>5, <1>9, SMT
  <2>4. \A m \in Qlk : \A k \in DOMAIN u.lock[m].q : v[u.lock[m].q[k]] = m
    <3>1. \A m \in Qlk : \A j \in DOMAIN t.lock[m].q : t.lock[m].q[j] # p
      BY <1>2, <1>6, SMT
    <3> QED
      BY <3>1, <2>1, <1>4, <1>6, SMT
  <2>5. LockInv(u, v)
    BY <2>2, <2>3, <2>4, <1>3, <1>4, <1>10 DEF LockInv
  <2>6. IsRunning(u, p)
    BY <2>1, <1>2, <1>3 DEF IsRunning
  <2> QED
    BY <2>5, <2>6, <1>1, <1>3
<1>12. CASE t.lock[l].q # <<>>
  <2> DEFINE a == t.lock[l].q
  <2>1. /\ Len(a) \in Nat \ {0} /\ DOMAIN a = 1 .. Len(a)
        /\ DOMAIN Tail(a) = 1 .. (Len(a) - 1)
        /\ \A i \in 1 .. (Len(a) - 1) : Tail(a)[i] = a[i + 1]
        /\ Head(a) = a[1]
    BY <1>2, <1>12, TailFacts, SMT
  <2>2. PICK h : h = a[1]
    OBVIOUS
  <2>3. h \in Proc /\ lk[h] = l /\ t.state[h] = "Queueing" /\ h # p
    BY <2>1, <2>2, <1>2, <1>6, SMTT(30)
  <2>4. /\ u.state[h] = "Ready" /\ u.lock[l].locked /\ u.lock[l].q = Tail(a)
        /\ \A s \in Proc \ {h} : u.state[s] = t.state[s]
    BY <2>1, <2>2, <2>3, <1>2, <1>3, <1>12, SMT
  <2>5. \A m \in Qlk : u.lock[m].locked <=>
           \E s \in Proc : v[s] = m /\ u.state[s] # "Queueing"
    <3> SUFFICES ASSUME NEW m \in Qlk
                 PROVE  u.lock[m].locked <=>
                           \E s \in Proc : v[s] = m /\ u.state[s] # "Queueing"
      OBVIOUS
    <3>1. CASE m = l
      <4>1. v[h] = l /\ u.state[h] # "Queueing"
        BY <2>3, <2>4, <1>4
      <4> QED
        BY <4>1, <3>1, <2>3, <2>4
    <3>2. CASE m # l
      <4>1. u.lock[m] = t.lock[m]
        BY <3>2, <1>3
      <4>2. \A s \in Proc : /\ v[s] = m <=> lk[s] = m
                            /\ v[s] = m => s # h
        BY <3>2, <2>3, <1>4, <1>5
      <4>3. (\E s \in Proc : v[s] = m /\ u.state[s] # "Queueing") <=>
            (\E s \in Proc : lk[s] = m /\ t.state[s] # "Queueing")
        BY <4>2, <2>4
      <4> QED
        BY <4>1, <4>3, <1>8
    <3> QED
      BY <3>1, <3>2
  <2>6. \A s \in Proc : v[s] = l /\ u.state[s] # "Queueing" => s = h
    BY <2>4, <1>4, <1>5, <1>7
  <2>7. \A s, x \in Proc :
           /\ v[s] \in Qlk /\ v[s] = v[x]
           /\ u.state[s] # "Queueing" /\ u.state[x] # "Queueing"
           => s = x
    <3> SUFFICES ASSUME NEW s \in Proc, NEW x \in Proc,
                        v[s] \in Qlk, v[s] = v[x],
                        u.state[s] # "Queueing", u.state[x] # "Queueing"
                 PROVE  s = x
      OBVIOUS
    <3>1. CASE v[s] = l
      BY <3>1, <2>6
    <3>2. CASE v[s] # l
      <4>1. s # h /\ x # h /\ s # p /\ x # p
        BY <3>2, <2>3, <1>4, <1>5
      <4> QED
        BY <4>1, <2>4, <1>4, <1>9, SMT
    <3> QED
      BY <3>1, <3>2
  <2>8. \A m \in Qlk : \A k \in DOMAIN u.lock[m].q : v[u.lock[m].q[k]] = m
    <3>1. \A m \in Qlk : \A j \in DOMAIN t.lock[m].q :
             /\ t.lock[m].q[j] # p
             /\ t.lock[m].q[j] \in Proc /\ lk[t.lock[m].q[j]] = m
      BY <1>2, <1>6, SMTT(30)
    <3>2. \A m \in Qlk \ {l} : \A k \in DOMAIN u.lock[m].q : v[u.lock[m].q[k]] = m
      BY <3>1, <1>3, <1>4, SMTT(30)
    <3>3. \A k \in DOMAIN u.lock[l].q : v[u.lock[l].q[k]] = l
      <4> SUFFICES ASSUME NEW k \in DOMAIN u.lock[l].q PROVE v[u.lock[l].q[k]] = l
        OBVIOUS
      <4>1. k + 1 \in DOMAIN a /\ u.lock[l].q[k] = a[k + 1]
        BY <2>1, <2>4, SMTT(30)
      <4> QED
        BY <4>1, <3>1, <1>4, SMT
    <3> QED
      BY <3>2, <3>3
  <2>9. LockInv(u, v)
    BY <2>5, <2>7, <2>8, <1>3, <1>4, <1>10 DEF LockInv
  <2>10. IsRunning(u, p)
    BY <2>3, <2>4, <1>2, <1>3 DEF IsRunning
  <2> QED
    BY <2>9, <2>10, <1>1, <1>3
<1> QED
  BY <1>11, <1>12
-----------------------------------------------------------------------------
(* The lengths.                                                             *)

Block == [data : Seq(Proc \X Nat), alloc : Nat]

\* What is in it.
LEMMA AllocatedIn ==
    ASSUME NEW bs
    PROVE  \A x : x \in Allocated(bs) <=>
              \E k \in DOMAIN bs : \E j \in 1 .. bs[k].alloc : x = <<k, j>>
BY SMT DEF Allocated

\* The share of block k, of n bytes.
Share(k, n) == {k} \X (1 .. n)

OneToOne(f, S, T) ==
    /\ f \in [S -> T]
    /\ \A x, y \in S : f[x] = f[y] => x = y
    /\ \A y \in T : \E x \in S : f[x] = y

\* What one more block adds.
LEMMA AppendShares ==
    ASSUME NEW bs \in Seq(Block), NEW b \in Block
    PROVE  LET C == Share(Len(bs) + 1, b.alloc)
           IN  /\ b.alloc \in Nat
               /\ Allocated(Append(bs, b)) = Allocated(bs) \cup C
               /\ Allocated(bs) \cap C = {}
<1>1. PICK A, B, C, n : /\ A = Allocated(bs) /\ B = Allocated(Append(bs, b))
                        /\ n = Len(bs) /\ C = Share(n + 1, b.alloc)
  OBVIOUS
<1>2. PICK a : a = Append(bs, b)
  OBVIOUS
<1>3. /\ n \in Nat /\ DOMAIN bs = 1 .. n /\ DOMAIN a = 1 .. (n + 1)
      /\ \A i \in 1 .. n : a[i] = bs[i]
      /\ a[n + 1] = b
  BY <1>1, <1>2, AppendFacts, SMT
<1>4. b.alloc \in Nat
  BY DEF Block
<1>6. B = A \cup C
  <2>1. \A x : x \in A <=>
           \E k \in 1 .. n : \E j \in 1 .. bs[k].alloc : x = <<k, j>>
    <3>1. \A x : x \in Allocated(bs) <=>
             \E k \in DOMAIN bs : \E j \in 1 .. bs[k].alloc : x = <<k, j>>
      BY AllocatedIn
    <3> QED
      BY <3>1, <1>1, <1>3
  <2>2. \A x : x \in B <=>
           \E k \in 1 .. (n + 1) : \E j \in 1 .. a[k].alloc : x = <<k, j>>
    <3>1. \A x : x \in Allocated(a) <=>
             \E k \in DOMAIN a : \E j \in 1 .. a[k].alloc : x = <<k, j>>
      BY AllocatedIn
    <3> QED
      BY <3>1, <1>1, <1>2, <1>3, SMTT(30)
  <2>3. \A x : x \in C <=> \E j \in 1 .. b.alloc : x = <<n + 1, j>>
    BY <1>1, SMT DEF Share
  <2>4. \A k : k \in 1 .. (n + 1) <=> k \in 1 .. n \/ k = n + 1
    BY <1>3, SMT
  <2>5. ASSUME NEW x PROVE x \in B <=> x \in A \/ x \in C
    <3>1. \A k \in 1 .. n : a[k].alloc = bs[k].alloc
      BY <1>3
    <3>2. ASSUME x \in B PROVE x \in A \/ x \in C
      <4>1. PICK k \in 1 .. (n + 1) : \E j \in 1 .. a[k].alloc : x = <<k, j>>
        BY <2>2, <3>2
      <4>2. CASE k \in 1 .. n
        BY <2>1, <3>1, <4>1, <4>2
      <4>3. CASE k = n + 1
        BY <1>3, <2>3, <4>1, <4>3
      <4> QED
        BY <2>4, <4>2, <4>3
    <3>3. ASSUME x \in A PROVE x \in B
      BY <2>1, <2>2, <2>4, <3>1, <3>3
    <3>4. ASSUME x \in C PROVE x \in B
      BY <1>3, <2>2, <2>3, <2>4, <3>4
    <3> QED
      BY <3>2, <3>3, <3>4
  <2> QED
    BY <2>5
<1>7. A \cap C = {}
  <2>1. \A x \in A : \E k \in 1 .. n : \E j \in 1 .. bs[k].alloc : x = <<k, j>>
    BY <1>1, <1>3, AllocatedIn, SMT
  <2>2. \A x \in C : x[1] = n + 1
    BY <1>1 DEF Share
  <2>3. \A x \in A : x[1] \in 1 .. n
    BY <2>1, SMT
  <2> QED
    BY <2>2, <2>3, <1>3, SMT
<1> QED
  BY <1>1, <1>4, <1>6, <1>7

\* What one block less takes away: the others' shares are one further on.
LEMMA TailShares ==
    ASSUME NEW bs \in Seq(Block), bs # <<>>
    PROVE  LET C == Share(1, Head(bs).alloc)
           IN  /\ Head(bs).alloc \in Nat
               /\ Allocated(bs) \cap C = C
               /\ \E f : OneToOne(f, Allocated(bs) \ C, Allocated(Tail(bs)))
<1>1. PICK A, B, C, n : /\ A = Allocated(bs) /\ B = Allocated(Tail(bs))
                        /\ n = Len(bs) /\ C = Share(1, Head(bs).alloc)
  OBVIOUS
<1>2. PICK a : a = Tail(bs)
  OBVIOUS
<1>3. /\ n \in Nat \ {0} /\ DOMAIN bs = 1 .. n /\ DOMAIN a = 1 .. (n - 1)
      /\ \A i \in 1 .. (n - 1) : a[i] = bs[i + 1]
      /\ Head(bs) = bs[1] /\ Head(bs) \in Block
  BY <1>1, <1>2, TailFacts
<1>4. bs[1].alloc \in Nat /\ Head(bs).alloc \in Nat
  BY <1>3 DEF Block
<1>6. \A x : x \in A <=>
         \E k \in 1 .. n : \E j \in 1 .. bs[k].alloc : x = <<k, j>>
  <2>1. \A x : x \in Allocated(bs) <=>
           \E k \in DOMAIN bs : \E j \in 1 .. bs[k].alloc : x = <<k, j>>
    BY AllocatedIn
  <2> QED
    BY <2>1, <1>1, <1>3
<1>7. \A x : x \in B <=>
         \E k \in 1 .. (n - 1) : \E j \in 1 .. bs[k + 1].alloc : x = <<k, j>>
  <2>1. \A x : x \in B <=>
           \E k \in 1 .. (n - 1) : \E j \in 1 .. a[k].alloc : x = <<k, j>>
    <3>1. \A x : x \in Allocated(a) <=>
             \E k \in DOMAIN a : \E j \in 1 .. a[k].alloc : x = <<k, j>>
      BY AllocatedIn
    <3>2. B = Allocated(a) /\ DOMAIN a = 1 .. (n - 1)
      BY <1>1, <1>2, <1>3
    <3> QED
      BY <3>1, <3>2
  <2> QED
    BY <2>1, <1>3
<1>8. \A x : x \in C <=> \E j \in 1 .. bs[1].alloc : x = <<1, j>>
  BY <1>1, <1>3, SMT DEF Share
<1>9. A \cap C = C
  BY <1>3, <1>6, <1>8, SMT
<1>10. PICK D : D = A \ C
  OBVIOUS
<1>11. \A x : x \in D <=>
          \E k \in 1 .. (n - 1) : \E j \in 1 .. bs[k + 1].alloc : x = <<k + 1, j>>
  <2> SUFFICES ASSUME NEW x
               PROVE  x \in D <=> \E k \in 1 .. (n - 1) :
                         \E j \in 1 .. bs[k + 1].alloc : x = <<k + 1, j>>
    OBVIOUS
  <2>1. ASSUME x \in D
        PROVE  \E k \in 1 .. (n - 1) :
                  \E j \in 1 .. bs[k + 1].alloc : x = <<k + 1, j>>
    <3>1. PICK k \in 1 .. n : \E j \in 1 .. bs[k].alloc : x = <<k, j>>
      BY <2>1, <1>6, <1>10
    <3>2. PICK j \in 1 .. bs[k].alloc : x = <<k, j>>
      BY <3>1
    <3>3. k # 1
      BY <3>2, <2>1, <1>8, <1>10
    <3>4. k - 1 \in 1 .. (n - 1) /\ (k - 1) + 1 = k
      BY <3>3, <1>3, SMT
    <3> QED
      BY <3>2, <3>4
  <2>2. ASSUME NEW k \in 1 .. (n - 1), NEW j \in 1 .. bs[k + 1].alloc,
               x = <<k + 1, j>>
        PROVE  x \in D
    <3>1. k + 1 \in 1 .. n /\ k + 1 # 1
      BY <2>2, <1>3, SMT
    <3>2. x \in A
      BY <3>1, <2>2, <1>6
    <3>3. x \notin C
      BY <3>1, <2>2, <1>8, SMT
    <3> QED
      BY <3>2, <3>3, <1>10
  <2> QED
    BY <2>1, <2>2
<1>12. \E f : OneToOne(f, D, B)
  <2> DEFINE f == [x \in D |-> <<x[1] - 1, x[2]>>]
  <2>1. \A k \in 1 .. (n - 1) : (k + 1) - 1 = k
    BY <1>3, SMT
  <2>2. ASSUME NEW x \in D
        PROVE  \E k \in 1 .. (n - 1) : \E j \in 1 .. bs[k + 1].alloc :
                  x = <<k + 1, j>> /\ f[x] = <<k, j>>
    <3>1. PICK k \in 1 .. (n - 1) : \E j \in 1 .. bs[k + 1].alloc : x = <<k + 1, j>>
      BY <2>2, <1>11
    <3>2. PICK j \in 1 .. bs[k + 1].alloc : x = <<k + 1, j>>
      BY <3>1
    <3>3. f[x] = <<k, j>>
      BY <3>2, <2>1
    <3> QED
      BY <3>2, <3>3
  <2>3. ASSUME NEW y \in B PROVE \E x \in D : f[x] = y
    <3>1. PICK k \in 1 .. (n - 1) : \E j \in 1 .. bs[k + 1].alloc : y = <<k, j>>
      BY <2>3, <1>7
    <3>2. PICK j \in 1 .. bs[k + 1].alloc : y = <<k, j>>
      BY <3>1
    <3>3. <<k + 1, j>> \in D
      BY <1>11
    <3>4. f[<<k + 1, j>>] = y
      BY <3>2, <3>3, <2>1
    <3> QED
      BY <3>3, <3>4
  <2>4. f \in [D -> B]
    <3>1. \A x \in D : f[x] \in B
      BY <2>2, <1>7
    <3> QED
      BY <3>1
  <2> HIDE DEF f
  <2>6. \A x, y \in D : f[x] = f[y] => x = y
    <3> SUFFICES ASSUME NEW x \in D, NEW y \in D, f[x] = f[y] PROVE x = y
      OBVIOUS
    <3>1. PICK k \in 1 .. (n - 1) : \E j \in 1 .. bs[k + 1].alloc :
             x = <<k + 1, j>> /\ f[x] = <<k, j>>
      BY <2>2
    <3>2. PICK m \in 1 .. (n - 1) : \E j \in 1 .. bs[m + 1].alloc :
             y = <<m + 1, j>> /\ f[y] = <<m, j>>
      BY <2>2
    <3> QED
      BY <3>1, <3>2, SMT
  <2> QED
    BY <2>3, <2>4, <2>6 DEF OneToOne
<1> QED
  BY <1>1, <1>4, <1>9, <1>10, <1>12

\* What is proved at the end: the lengths of no blocks, of one block more and
\* of one block less, and the number of the processes that have an end open.
Counted ==
    /\ IsFiniteSet(Allocated(<<>>)) /\ Cardinality(Allocated(<<>>)) = 0
    /\ \A bs \in Seq(Block), b \in Block :
          IsFiniteSet(Allocated(bs)) =>
             /\ IsFiniteSet(Allocated(Append(bs, b)))
             /\ Cardinality(Allocated(Append(bs, b))) =
                   Cardinality(Allocated(bs)) + b.alloc
    /\ \A bs \in Seq(Block) :
          bs # <<>> /\ IsFiniteSet(Allocated(bs)) =>
             /\ IsFiniteSet(Allocated(Tail(bs)))
             /\ Head(bs).alloc \in Nat
             /\ Cardinality(Allocated(Tail(bs))) \in Nat
             /\ Cardinality(Allocated(bs)) =
                   Cardinality(Allocated(Tail(bs))) + Head(bs).alloc
    /\ \A S \in SUBSET Proc :
          /\ Cardinality(S) \in Nat
          /\ Cardinality(S) = 0 => S = {}
          /\ \A p \in Proc :
                /\ p \notin S => Cardinality(S \cup {p}) = Cardinality(S) + 1
                /\ p \in S => Cardinality(S \ {p}) = Cardinality(S) - 1

\* No blocks, no length.
LEMMA AllocatedNone ==
    ASSUME Counted
    PROVE  IsFiniteSet(Allocated(<<>>)) /\ Cardinality(Allocated(<<>>)) = 0
BY DEF Counted

\* One more block.
LEMMA AllocatedAppend ==
    ASSUME Counted,
           NEW bs \in Seq(Block), NEW b \in Block, IsFiniteSet(Allocated(bs))
    PROVE  /\ IsFiniteSet(Allocated(Append(bs, b)))
           /\ Cardinality(Allocated(Append(bs, b))) =
                 Cardinality(Allocated(bs)) + b.alloc
BY DEF Counted

\* One block less.
LEMMA AllocatedTail ==
    ASSUME Counted,
           NEW bs \in Seq(Block), bs # <<>>, IsFiniteSet(Allocated(bs))
    PROVE  /\ IsFiniteSet(Allocated(Tail(bs)))
           /\ Head(bs).alloc \in Nat
           /\ Cardinality(Allocated(Tail(bs))) \in Nat
           /\ Cardinality(Allocated(bs)) =
                 Cardinality(Allocated(Tail(bs))) + Head(bs).alloc
BY DEF Counted

\* The opens of an end.
LEMMA OpensNumber ==
    ASSUME Counted, NEW S \in SUBSET Proc
    PROVE  /\ Cardinality(S) \in Nat
           /\ Cardinality(S) = 0 => S = {}
           /\ \A p \in Proc :
                 /\ p \notin S => Cardinality(S \cup {p}) = Cardinality(S) + 1
                 /\ p \in S => Cardinality(S \ {p}) = Cardinality(S) - 1
BY DEF Counted

\* The first block's data are not its allocation.
LEMMA AllocatedShort ==
    ASSUME NEW bs \in Seq(Block), bs # <<>>, NEW d \in Seq(Proc \X Nat)
    PROVE  /\ [bs EXCEPT ![1].data = d] \in Seq(Block)
           /\ [bs EXCEPT ![1].data = d] # <<>>
           /\ Allocated([bs EXCEPT ![1].data = d]) = Allocated(bs)
<1>1. PICK a : a = [bs EXCEPT ![1].data = d]
  OBVIOUS
<1>2. Len(bs) \in Nat \ {0} /\ DOMAIN bs = 1 .. Len(bs) /\ bs[1] \in Block
  BY TailFacts
<1>3. DOMAIN a = DOMAIN bs /\ \A i \in DOMAIN bs : i # 1 => a[i] = bs[i]
  BY <1>1
<1>4. a[1] = [bs[1] EXCEPT !.data = d]
  BY <1>1, <1>2, SMT
<1>5. a[1] \in Block /\ a[1].alloc = bs[1].alloc
  BY <1>2, <1>4 DEF Block
<1>6. \A i \in DOMAIN bs : a[i] \in Block /\ a[i].alloc = bs[i].alloc
  BY <1>2, <1>3, <1>5, SMT
<1>7. a \in Seq(Block) /\ Len(a) = Len(bs)
  <2>1. a = [i \in 1 .. Len(bs) |-> a[i]]
    BY <1>1, <1>2, <1>3
  <2>2. \A i \in 1 .. Len(bs) : a[i] \in Block
    BY <1>2, <1>6
  <2> QED
    BY <2>1, <2>2, <1>2, SMT
<1>8. a # <<>>
  BY <1>2, <1>7
<1>9. Allocated(a) = Allocated(bs)
  <2>1. \A x : x \in Allocated(a) <=>
           \E k \in DOMAIN bs : \E j \in 1 .. a[k].alloc : x = <<k, j>>
    <3>1. \A x : x \in Allocated(a) <=>
             \E k \in DOMAIN a : \E j \in 1 .. a[k].alloc : x = <<k, j>>
      BY AllocatedIn
    <3> QED
      BY <3>1, <1>3
  <2>2. \A x : x \in Allocated(bs) <=>
           \E k \in DOMAIN bs : \E j \in 1 .. bs[k].alloc : x = <<k, j>>
    BY AllocatedIn
  <2> QED
    BY <2>1, <2>2, <1>6
<1> QED
  BY <1>1, <1>7, <1>8, <1>9

\* A queue's fields.
LEMMA QueueFields ==
    ASSUME Counted, NEW x, QueueOK(x)
    PROVE  /\ x \in Queue
           /\ x.blocks \in Seq(Block) /\ x.len \in Nat /\ x.closed \in BOOLEAN
           /\ x.starve \in BOOLEAN /\ x.flow \in BOOLEAN /\ x.eof \in 0 .. 4
           /\ x.blocks = <<>> => x.len = 0
<1>1. x \in Queue /\ x.len = Cardinality(Allocated(x.blocks))
  BY DEF QueueOK
<1>2. /\ x.blocks \in Seq(Block) /\ x.len \in Nat /\ x.closed \in BOOLEAN
      /\ x.starve \in BOOLEAN /\ x.flow \in BOOLEAN /\ x.eof \in 0 .. 4
  BY <1>1 DEF Queue, Block
<1>3. x.blocks = <<>> => x.len = 0
  BY <1>1, AllocatedNone
<1> QED
  BY <1>1, <1>2, <1>3

\* The flags are no part of the length.
LEMMA FlagsOK ==
    ASSUME NEW x, QueueOK(x), NEW y \in Queue,
           y.blocks = x.blocks, y.len = x.len
    PROVE  QueueOK(y)
BY DEF QueueOK

\* BALLOC.
LEMMA BallocFacts ==
    ASSUME NEW n \in Nat
    PROVE  Balloc(n) \in Nat
BY SMT DEF Balloc

\* A block is queued.
LEMMA PushedOK ==
    ASSUME Counted, NEW x, QueueOK(x), NEW d \in Seq(Proc \X Nat)
    PROVE  /\ QueueOK(Pushed(x, d))
           /\ Pushed(x, d).blocks # <<>>
           /\ Pushed(x, d).closed = x.closed
           /\ Pushed(x, d).flow = x.flow
           /\ Pushed(x, d).len >= x.len
<1>1. PICK y : y = Pushed(x, d)
  OBVIOUS
<1>2. /\ x \in Queue
      /\ x.blocks \in Seq(Block) /\ x.len \in Nat /\ x.closed \in BOOLEAN
      /\ x.starve \in BOOLEAN /\ x.flow \in BOOLEAN /\ x.eof \in 0 .. 4
  BY QueueFields
<1>3. PICK b : b = [data |-> d, alloc |-> Balloc(Len(d))]
  OBVIOUS
<1>4. Len(d) \in Nat
  BY SMT
<1>5. b \in Block /\ b.alloc = Balloc(Len(d)) /\ b.alloc \in Nat
  BY <1>3, <1>4, BallocFacts DEF Block
<1>6. y = [x EXCEPT !.blocks = Append(x.blocks, b), !.len = x.len + b.alloc,
                    !.starve = FALSE]
  BY <1>1, <1>3, <1>5 DEF Pushed
<1>7. /\ y.blocks = Append(x.blocks, b) /\ y.len = x.len + b.alloc
      /\ y.closed = x.closed /\ y.flow = x.flow /\ y.eof = x.eof
      /\ y.starve = FALSE
  BY <1>2, <1>6 DEF Queue
<1>8. y \in Queue
  <2>1. Append(x.blocks, b) \in Seq(Block) /\ x.len + b.alloc \in Nat
    BY <1>2, <1>5, SMT
  <2> QED
    BY <2>1, <1>2, <1>6 DEF Queue, Block
<1>9. /\ IsFiniteSet(Allocated(x.blocks))
      /\ x.len = Cardinality(Allocated(x.blocks))
  BY DEF QueueOK
<1>10. /\ IsFiniteSet(Allocated(Append(x.blocks, b)))
       /\ Cardinality(Allocated(Append(x.blocks, b))) =
             Cardinality(Allocated(x.blocks)) + b.alloc
  BY <1>2, <1>5, <1>9, AllocatedAppend
<1>11. QueueOK(y)
  <2>1. /\ IsFiniteSet(Allocated(y.blocks))
        /\ Cardinality(Allocated(y.blocks)) = Cardinality(Allocated(x.blocks)) + b.alloc
    BY <1>7, <1>10
  <2>2. y.len = Cardinality(Allocated(y.blocks))
    BY <2>1, <1>7, <1>9
  <2> QED
    BY <2>1, <2>2, <1>8 DEF QueueOK
<1>12. y.blocks # <<>>
  BY <1>2, <1>5, <1>7, AppendFacts, SMTT(30)
<1>13. y.len >= x.len
  BY <1>2, <1>5, <1>7, SMT
<1> QED
  BY <1>1, <1>7, <1>11, <1>12, <1>13

\* A block is read, or the first part of it.
LEMMA RemovedOK ==
    ASSUME Counted, NEW x, QueueOK(x), x.blocks # <<>>, NEW n \in Nat
    PROVE  /\ QueueOK(Removed(x, n))
           /\ Removed(x, n).closed = x.closed
           /\ Removed(x, n).flow = x.flow
           /\ Removed(x, n).starve = x.starve
<1>1. PICK y, b : y = Removed(x, n) /\ b = Head(x.blocks)
  OBVIOUS
<1>2. /\ x \in Queue
      /\ x.blocks \in Seq(Block) /\ x.len \in Nat /\ x.closed \in BOOLEAN
      /\ x.starve \in BOOLEAN /\ x.flow \in BOOLEAN /\ x.eof \in 0 .. 4
  BY QueueFields
<1>3. /\ Tail(x.blocks) \in Seq(Block) /\ b \in Block /\ b = x.blocks[1]
      /\ 1 \in DOMAIN x.blocks
  BY <1>1, <1>2, TailFacts, SMT
<1>4. /\ IsFiniteSet(Allocated(x.blocks))
      /\ x.len = Cardinality(Allocated(x.blocks))
  BY DEF QueueOK
<1>5. CASE Len(b.data) <= n
  <2>1. y = [x EXCEPT !.blocks = Tail(x.blocks), !.len = x.len - b.alloc]
    BY <1>1, <1>5 DEF Removed
  <2>2. /\ y.blocks = Tail(x.blocks) /\ y.len = x.len - b.alloc
        /\ y.closed = x.closed /\ y.flow = x.flow /\ y.starve = x.starve
        /\ y.eof = x.eof
    BY <2>1, <1>2 DEF Queue
  <2>3. /\ IsFiniteSet(Allocated(Tail(x.blocks))) /\ b.alloc \in Nat
        /\ Cardinality(Allocated(Tail(x.blocks))) \in Nat
        /\ x.len = Cardinality(Allocated(Tail(x.blocks))) + b.alloc
    BY <1>1, <1>2, <1>4, AllocatedTail
  <2>4. x.len - b.alloc = Cardinality(Allocated(Tail(x.blocks)))
    BY <2>3, SMT
  <2>5. y \in Queue
    BY <2>1, <2>3, <2>4, <1>2, <1>3 DEF Queue, Block
  <2>6. QueueOK(y)
    BY <2>2, <2>3, <2>4, <2>5 DEF QueueOK
  <2> QED
    BY <2>2, <2>6, <1>1
<1>6. CASE ~(Len(b.data) <= n)
  <2>1. PICK d : d = SubSeq(b.data, n + 1, Len(b.data))
    OBVIOUS
  <2>2. d \in Seq(Proc \X Nat)
    <3>1. b.data \in Seq(Proc \X Nat)
      BY <1>3 DEF Block
    <3> QED
      BY <3>1, <2>1, <1>6, SMT
  <2>3. y = [x EXCEPT !.blocks = [x.blocks EXCEPT ![1].data = d]]
    BY <2>1, <1>1, <1>2, <1>3, <1>6 DEF Removed, Queue, Block
  <2>4. /\ y.blocks = [x.blocks EXCEPT ![1].data = d] /\ y.len = x.len
        /\ y.closed = x.closed /\ y.flow = x.flow /\ y.starve = x.starve
        /\ y.eof = x.eof
    BY <2>3, <1>2 DEF Queue
  <2>5. /\ y.blocks \in Seq(Block)
        /\ Allocated(y.blocks) = Allocated(x.blocks)
    BY <2>2, <2>4, <1>2, AllocatedShort
  <2>6. y \in Queue
    BY <2>3, <2>4, <2>5, <1>2 DEF Queue, Block
  <2>7. QueueOK(y)
    BY <2>4, <2>5, <2>6, <1>4 DEF QueueOK
  <2> QED
    BY <2>4, <2>7, <1>1
<1> QED
  BY <1>5, <1>6

\* qclose frees what is queued.
LEMMA CloseQueueOK ==
    ASSUME Counted, NEW x, QueueOK(x)
    PROVE  /\ QueueOK(CloseQueue(x))
           /\ CloseQueue(x).closed = TRUE /\ CloseQueue(x).blocks = <<>>
           /\ QueueOK(Hangup(x))
           /\ Hangup(x).closed = TRUE /\ Hangup(x).blocks = x.blocks
           /\ QueueOK(Reopen(x))
           /\ Reopen(x).closed = FALSE /\ Reopen(x).blocks = x.blocks
<1>1. /\ x \in Queue
      /\ x.blocks \in Seq(Block) /\ x.len \in Nat /\ x.closed \in BOOLEAN
      /\ x.starve \in BOOLEAN /\ x.flow \in BOOLEAN /\ x.eof \in 0 .. 4
  BY QueueFields
<1>2. PICK y : y = CloseQueue(x)
  OBVIOUS
<1>3. /\ y.closed = TRUE /\ y.blocks = <<>> /\ y.len = 0
  BY <1>1, <1>2 DEF CloseQueue, Hangup, Queue
<1>4. y \in Queue
  <2>1. <<>> \in Seq(Block)
    BY SMT
  <2> QED
    BY <2>1, <1>1, <1>2 DEF CloseQueue, Hangup, Queue, Block
<1>5. QueueOK(y)
  BY <1>3, <1>4, AllocatedNone DEF QueueOK
<1>6. /\ Hangup(x).closed = TRUE /\ Hangup(x).blocks = x.blocks
      /\ Hangup(x).len = x.len
  BY <1>1 DEF Hangup, Queue
<1>7. Hangup(x) \in Queue
  BY <1>1 DEF Hangup, Queue
<1>8. /\ Reopen(x).closed = FALSE /\ Reopen(x).blocks = x.blocks
      /\ Reopen(x).len = x.len
  BY <1>1 DEF Reopen, Queue
<1>9. Reopen(x) \in Queue
  <2>1. 0 \in 0 .. 4
    BY SMT
  <2> QED
    BY <2>1, <1>1 DEF Reopen, Queue
<1>10. QueueOK(Hangup(x)) /\ QueueOK(Reopen(x))
  BY <1>6, <1>7, <1>8, <1>9, FlagsOK
<1> QED
  BY <1>2, <1>3, <1>5, <1>6, <1>8, <1>10

\* The flags a call sets.
LEMMA StarveOK ==
    ASSUME NEW x, QueueOK(x), NEW v \in BOOLEAN
    PROVE  /\ QueueOK([x EXCEPT !.starve = v])
           /\ [x EXCEPT !.starve = v].starve = v
           /\ [x EXCEPT !.starve = v].blocks = x.blocks
           /\ [x EXCEPT !.starve = v].len = x.len
           /\ [x EXCEPT !.starve = v].closed = x.closed
           /\ [x EXCEPT !.starve = v].flow = x.flow
<1>1. PICK y : y = [x EXCEPT !.starve = v]
  OBVIOUS
<1>2. x \in Queue
  BY DEF QueueOK
<1>3. /\ y.starve = v /\ y.blocks = x.blocks /\ y.len = x.len
      /\ y.closed = x.closed /\ y.flow = x.flow
  BY <1>1, <1>2 DEF Queue
<1>4. y \in Queue
  BY <1>1, <1>2 DEF Queue
<1>5. QueueOK(y)
  BY <1>3, <1>4, FlagsOK
<1> QED
  BY <1>1, <1>3, <1>5

\* qbwrite sets QFLOW on a queue that is full.
LEMMA FlowOK ==
    ASSUME NEW x, QueueOK(x), NEW v \in BOOLEAN
    PROVE  /\ QueueOK([x EXCEPT !.flow = v])
           /\ [x EXCEPT !.flow = v].flow = v
           /\ [x EXCEPT !.flow = v].blocks = x.blocks
           /\ [x EXCEPT !.flow = v].len = x.len
           /\ [x EXCEPT !.flow = v].closed = x.closed
           /\ [x EXCEPT !.flow = v].starve = x.starve
<1>1. PICK y : y = [x EXCEPT !.flow = v]
  OBVIOUS
<1>2. x \in Queue
  BY DEF QueueOK
<1>3. /\ y.flow = v /\ y.blocks = x.blocks /\ y.len = x.len
      /\ y.closed = x.closed /\ y.starve = x.starve
  BY <1>1, <1>2 DEF Queue
<1>4. y \in Queue
  BY <1>1, <1>2 DEF Queue
<1>5. QueueOK(y)
  BY <1>3, <1>4, FlagsOK
<1> QED
  BY <1>1, <1>3, <1>5

\* qread counts the ends of file it answers.
LEMMA EofOK ==
    ASSUME NEW x, QueueOK(x), NEW v \in 0 .. 4
    PROVE  /\ QueueOK([x EXCEPT !.eof = v])
           /\ [x EXCEPT !.eof = v].eof = v
           /\ [x EXCEPT !.eof = v].blocks = x.blocks
           /\ [x EXCEPT !.eof = v].len = x.len
           /\ [x EXCEPT !.eof = v].closed = x.closed
           /\ [x EXCEPT !.eof = v].starve = x.starve
           /\ [x EXCEPT !.eof = v].flow = x.flow
<1>1. PICK y : y = [x EXCEPT !.eof = v]
  OBVIOUS
<1>2. x \in Queue
  BY DEF QueueOK
<1>3. /\ y.eof = v /\ y.blocks = x.blocks /\ y.len = x.len
      /\ y.closed = x.closed /\ y.starve = x.starve /\ y.flow = x.flow
  BY <1>1, <1>2 DEF Queue
<1>4. y \in Queue
  BY <1>1, <1>2 DEF Queue
<1>5. QueueOK(y)
  BY <1>3, <1>4, FlagsOK
<1> QED
  BY <1>1, <1>3, <1>5
-----------------------------------------------------------------------------
(* The steps of a call.                                                     *)

\* A step leaves a queue closed or open, and puts nothing on a closed one.
SameEnds ==
    \A i \in End : /\ q'[i].closed = q[i].closed
                   /\ q[i].closed /\ q[i].blocks = <<>> => q'[i].blocks = <<>>

\* p's call is c at a after the step, and the table u.
StepTo(p, c, a, u) ==
    /\ procs' = u
    /\ call' = [call EXCEPT ![p] = c] /\ at' = [at EXCEPT ![p] = a]
    /\ LockInv(u, [Lks EXCEPT ![p] = Lk(c, a)])
    /\ CallOK(c, a, open[p])

Stepped(p) ==
    /\ \E c, a, u : StepTo(p, c, a, u) /\ Queues(u, q')
    /\ SameEnds

\* p runs with the lock of its call.
ReadMid(t, p, c) ==
    /\ LockInv(t, [Lks EXCEPT ![p] = Rlock(c.i)])
    /\ IsRunning(t, p) /\ Queues(t, q) /\ IsRead(c, open[p])

WriteMid(t, p, c, d) ==
    /\ LockInv(t, [Lks EXCEPT ![p] = Wlock(c.i)])
    /\ IsRunning(t, p) /\ Queues(t, q) /\ IsWrite(c, open[p])
    /\ d \in Nat /\ d < Len(c.bs)

\* The locks p's call is said to have.
LEMMA LksFacts ==
    ASSUME NEW p \in Proc, NEW l, NEW m
    PROVE  /\ [Lks EXCEPT ![p] = l][p] = l
           /\ [[Lks EXCEPT ![p] = l] EXCEPT ![p] = m] = [Lks EXCEPT ![p] = m]
           /\ [Lks EXCEPT ![p] = Lks[p]] = Lks
BY DEF Lks

\* What a read's and a write's fields are.
LEMMA ReadFields ==
    ASSUME NEW c, NEW o, IsRead(c, o)
    PROVE  /\ c.op = "read" /\ c.i \in End /\ c.n \in Nat
           /\ \A a : Lk(c, a) = Rlock(c.i)
BY SMT DEF IsRead, Reading, Lk

\* What a call in progress is when it writes.
LEMMA WriteFields ==
    ASSUME NEW c, NEW o, IsWrite(c, o)
    PROVE  /\ c.op = "write" /\ c.i \in End /\ c.bs \in Seq(Seq(Proc \X Nat))
           /\ \A d, s : /\ Lk(c, AtWlock(d)) = Wlock(c.i)
                        /\ Lk(c, AtFlow(d, s)) = Wlock(c.i)
                        /\ Lk(c, AtLoop(d)) = NoLock
BY SMT DEF IsWrite, Writing, Lk, AtWlock, AtFlow, AtLoop

\* A call that is over.
LEMMA NoCallFields ==
    /\ Lk(NoCall, NoAt) = NoLock
    /\ \A o : CallOK(NoCall, NoAt, o)
BY DEF NoCall, NoAt, Lk, CallOK

\* A table in which fewer sleep.
LEMMA QueuesKept ==
    ASSUME NEW t, NEW u, NEW f, Queues(t, f),
           \A r \in Rid : u.p[r] \in {t.p[r], NoProc}
    PROVE  Queues(u, f)
<1>1. \A i \in End : /\ u.p[Rr(i)] \in {t.p[Rr(i)], NoProc}
                     /\ u.p[Wr(i)] \in {t.p[Wr(i)], NoProc}
  BY NameFacts
<1>2. f \in [End -> Queue]
  BY DEF Queues
<1>3. \A i \in End : QueueOK(f[i]) /\ Tended(f[i], t.p[Rr(i)], t.p[Wr(i)])
  BY DEF Queues
<1>4. \A i \in End : Tended(f[i], u.p[Rr(i)], u.p[Wr(i)])
  <2> SUFFICES ASSUME NEW i \in End
               PROVE  Tended(f[i], u.p[Rr(i)], u.p[Wr(i)])
    OBVIOUS
  <2>1. /\ u.p[Rr(i)] # NoProc => t.p[Rr(i)] # NoProc
        /\ u.p[Wr(i)] # NoProc => t.p[Wr(i)] # NoProc
    BY <1>1
  <2>2. Tended(f[i], t.p[Rr(i)], t.p[Wr(i)])
    BY <1>3
  <2> QED
    BY <2>1, <2>2 DEF Tended
<1> QED
  BY <1>2, <1>3, <1>4 DEF Queues

\* Who sleeps on the other queue does so still.
ElseSame(t, u, i) ==
    \A j \in End \ {i} : u.p[Rr(j)] = t.p[Rr(j)] /\ u.p[Wr(j)] = t.p[Wr(j)]

\* One queue changes.
LEMMA QueueReplaced ==
    ASSUME NEW t, NEW u, NEW f, Queues(t, f), NEW i \in End, NEW x, QueueOK(x),
           Tended(x, u.p[Rr(i)], u.p[Wr(i)]), ElseSame(t, u, i)
    PROVE  /\ Queues(u, [f EXCEPT ![i] = x])
           /\ [f EXCEPT ![i] = x][i] = x
           /\ \A j \in End \ {i} : [f EXCEPT ![i] = x][j] = f[j]
<1>1. PICK g : g = [f EXCEPT ![i] = x]
  OBVIOUS
<1>2. f \in [End -> Queue] /\ x \in Queue
  BY DEF Queues, QueueOK
<1>3. g \in [End -> Queue] /\ g[i] = x /\ \A j \in End \ {i} : g[j] = f[j]
  BY <1>1, <1>2
<1>4. \A j \in End \ {i} : QueueOK(f[j]) /\ Tended(f[j], t.p[Rr(j)], t.p[Wr(j)])
  BY DEF Queues
<1>5. \A j \in End \ {i} : QueueOK(g[j]) /\ Tended(g[j], u.p[Rr(j)], u.p[Wr(j)])
  BY <1>3, <1>4 DEF ElseSame
<1>6. QueueOK(g[i]) /\ Tended(g[i], u.p[Rr(i)], u.p[Wr(i)])
  BY <1>3
<1>7. Queues(u, g)
  BY <1>3, <1>5, <1>6 DEF Queues
<1> QED
  BY <1>1, <1>3, <1>7

\* A step that replaces one queue.
LEMMA EndsReplaced ==
    ASSUME NEW i \in End, NEW x, q' = [q EXCEPT ![i] = x], q \in [End -> Queue],
           x.closed = q[i].closed,
           q[i].closed /\ q[i].blocks = <<>> => x.blocks = <<>>
    PROVE  SameEnds
<1>1. q'[i] = x /\ \A j \in End \ {i} : q'[j] = q[j]
  OBVIOUS
<1> QED
  BY <1>1 DEF SameEnds

\* A step of a call that returns with the table u, or leaves with it.
LEMMA ReturnsSteps ==
    ASSUME NEW p \in Proc, NEW u, NEW c, NEW res, NEW data,
           Returns(u, p, c, res, data),
           LockInv(u, [Lks EXCEPT ![p] = NoLock])
    PROVE  /\ StepTo(p, NoCall, NoAt, u)
           /\ last'.op = c.op /\ last'.res = res /\ last'.i = c.i
<1>1. LockInv(u, [Lks EXCEPT ![p] = Lk(NoCall, NoAt)]) /\ CallOK(NoCall, NoAt, open[p])
  BY NoCallFields
<1>2. /\ procs' = u
      /\ call' = [call EXCEPT ![p] = NoCall] /\ at' = [at EXCEPT ![p] = NoAt]
  BY DEF Returns
<1>3. last'.op = c.op /\ last'.res = res /\ last'.i = c.i
  BY DEF Returns
<1> QED
  BY <1>1, <1>2, <1>3 DEF StepTo

\* A call that leaves the processor, and goes on at a when it is entered.
LEMMA LeavesSteps ==
    ASSUME NEW p \in Proc, NEW t, NEW c, NEW a, Leaves(t, p, c, a), t.up = p,
           LockInv(t, [Lks EXCEPT ![p] = Lk(c, a)]), CallOK(c, a, open[p])
    PROVE  /\ StepTo(p, c, a, Left(t, p))
           /\ Left(t, p).p = t.p
           /\ last'.op = "none"
<1>1. LockInv(Left(t, p), [Lks EXCEPT ![p] = Lk(c, a)]) /\ Left(t, p).p = t.p
  BY LeftLocks
<1>2. /\ procs' = Left(t, p)
      /\ call' = [call EXCEPT ![p] = c] /\ at' = [at EXCEPT ![p] = a]
  BY DEF Leaves
<1>3. last'.op = "none"
  BY DEF Leaves, NoAnswer
<1> QED
  BY <1>1, <1>2, <1>3 DEF StepTo

\* p's call gives up its lock.
LEMMA UnlockMid ==
    ASSUME NEW u, NEW p \in Proc, NEW l \in Qlk, IsRunning(u, p),
           LockInv(u, [Lks EXCEPT ![p] = l])
    PROVE  /\ LockInv(Qunlock(u, l), [Lks EXCEPT ![p] = NoLock])
           /\ Qunlock(u, l).p = u.p
           /\ IsRunning(Qunlock(u, l), p)
<1>1. PICK v : v = [Lks EXCEPT ![p] = l]
  OBVIOUS
<1>2. v[p] = l /\ [v EXCEPT ![p] = NoLock] = [Lks EXCEPT ![p] = NoLock] /\ LockInv(u, v)
  BY <1>1, LksFacts
<1>3. /\ LockInv(Qunlock(u, l), [v EXCEPT ![p] = NoLock])
      /\ Qunlock(u, l).p = u.p
      /\ IsRunning(Qunlock(u, l), p)
  BY <1>2, QunlockLocks
<1> QED
  BY <1>2, <1>3

\* A note ends the sleep before it commits.
LEMMA UncommittedMid ==
    ASSUME NEW t, NEW p \in Proc, NEW r \in Rid, IsRunning(t, p),
           LockInv(t, [Lks EXCEPT ![p] = Guard(r)]), ~Sleeps(t, p, FALSE)
    PROVE  /\ LockInv(Uncommitted(t, p, r), [Lks EXCEPT ![p] = Guard(r)])
           /\ Uncommitted(t, p, r).p = t.p
           /\ IsRunning(Uncommitted(t, p, r), p)
<1>1. PICK v, u : v = [Lks EXCEPT ![p] = Guard(r)] /\ u = Sleep(t, p, r, FALSE)
  OBVIOUS
<1>2. Holds(t, v, p, Guard(r))
  BY <1>1, LksFacts DEF Holds
<1>3. LockInv(u, v) /\ u.p = t.p /\ IsRunning(u, p)
  <2>1. /\ LockInv(Sleep(t, p, r, FALSE), v)
        /\ Sleeps(t, p, FALSE) \/ /\ Sleep(t, p, r, FALSE).p = t.p
                                  /\ IsRunning(Sleep(t, p, r, FALSE), p)
    BY <1>2, SleepLocks
  <2> QED
    BY <2>1, <1>1
<1>4. /\ LockInv(Interrupted(u, p), v) /\ Interrupted(u, p).p = u.p
      /\ IsRunning(Interrupted(u, p), p)
  BY <1>3, InterruptedLocks
<1>5. Uncommitted(t, p, r) = Interrupted(u, p)
  BY <1>1 DEF Uncommitted
<1> QED
  BY <1>1, <1>3, <1>4, <1>5

\* The sleep commits.
LEMMA SleepMid ==
    ASSUME NEW t, NEW p \in Proc, NEW r \in Rid, IsRunning(t, p),
           LockInv(t, [Lks EXCEPT ![p] = Guard(r)])
    PROVE  /\ LockInv(Sleep(t, p, r, FALSE), [Lks EXCEPT ![p] = Guard(r)])
           /\ OnlyOn(t, Sleep(t, p, r, FALSE), r)
           /\ Sleep(t, p, r, FALSE).up = p
<1>1. PICK v : v = [Lks EXCEPT ![p] = Guard(r)]
  OBVIOUS
<1>2. Holds(t, v, p, Guard(r))
  BY <1>1, LksFacts DEF Holds
<1>3. /\ LockInv(Sleep(t, p, r, FALSE), v)
      /\ OnlyOn(t, Sleep(t, p, r, FALSE), r)
      /\ Sleep(t, p, r, FALSE).up = p
  BY <1>2, SleepLocks
<1> QED
  BY <1>1, <1>3

\* What holds of a reader that has rlock.
LEMMA ReadMidFacts ==
    ASSUME NEW t, NEW p \in Proc, NEW c, ReadMid(t, p, c)
    PROVE  /\ c.op = "read" /\ c.i \in End /\ c.n \in Nat
           /\ Rlock(c.i) \in Qlk /\ Rr(c.i) \in Rid /\ Wr(c.i) \in Rid
           /\ Guard(Rr(c.i)) = Rlock(c.i)
           /\ IsRunning(t, p) /\ LockInv(t, [Lks EXCEPT ![p] = Rlock(c.i)])
           /\ q \in [End -> Queue] /\ QueueOK(q[c.i])
           /\ Tended(q[c.i], t.p[Rr(c.i)], t.p[Wr(c.i)])
           /\ Queues(t, q)
           /\ \A s \in BOOLEAN : /\ CallOK(c, AtRead(s), open[p])
                                 /\ Lk(c, AtRead(s)) = Rlock(c.i)
<1>1. /\ LockInv(t, [Lks EXCEPT ![p] = Rlock(c.i)])
      /\ IsRunning(t, p) /\ Queues(t, q) /\ IsRead(c, open[p])
  BY DEF ReadMid
<1>2. /\ c.op = "read" /\ c.i \in End /\ c.n \in Nat
      /\ \A a : Lk(c, a) = Rlock(c.i)
  BY <1>1, ReadFields
<1>3. /\ q \in [End -> Queue] /\ QueueOK(q[c.i])
      /\ Tended(q[c.i], t.p[Rr(c.i)], t.p[Wr(c.i)])
  BY <1>1, <1>2 DEF Queues
<1>4. /\ Rlock(c.i) \in Qlk /\ Rr(c.i) \in Rid /\ Wr(c.i) \in Rid
      /\ Guard(Rr(c.i)) = Rlock(c.i)
  BY <1>2, NameFacts
<1>5. \A s \in BOOLEAN : CallOK(c, AtRead(s), open[p])
  BY <1>1 DEF CallOK
<1> QED
  BY <1>1, <1>2, <1>3, <1>4, <1>5

\* A read returns with its queue x, and without rlock.
LEMMA ReadReturns ==
    ASSUME NEW t, NEW u, NEW p \in Proc, NEW c, NEW x, NEW res, NEW data,
           ReadMid(t, p, c), QueueOK(x),
           IsRunning(u, p), LockInv(u, [Lks EXCEPT ![p] = Rlock(c.i)]),
           Tended(x, u.p[Rr(c.i)], u.p[Wr(c.i)]),
           ElseSame(t, u, c.i),
           q' = [q EXCEPT ![c.i] = x], x.closed = q[c.i].closed,
           q[c.i].closed /\ q[c.i].blocks = <<>> => x.blocks = <<>>,
           Returns(Qunlock(u, Rlock(c.i)), p, c, res, data)
    PROVE  Stepped(p)
<1>1. PICK v : v = Qunlock(u, Rlock(c.i))
  OBVIOUS
<1>2. /\ c.op = "read" /\ c.i \in End /\ Rlock(c.i) \in Qlk /\ Queues(t, q)
      /\ q \in [End -> Queue]
  BY ReadMidFacts
<1>3. LockInv(v, [Lks EXCEPT ![p] = NoLock]) /\ v.p = u.p
  BY <1>1, <1>2, UnlockMid
<1>4. StepTo(p, NoCall, NoAt, v) /\ last'.op = "read"
  BY <1>1, <1>2, <1>3, ReturnsSteps
<1>5. Queues(v, q')
  <2>1. /\ Tended(x, v.p[Rr(c.i)], v.p[Wr(c.i)])
        /\ ElseSame(t, v, c.i)
    BY <1>3 DEF ElseSame
  <2>2. Queues(v, [q EXCEPT ![c.i] = x])
    BY <2>1, <1>2, QueueReplaced
  <2> QED
    BY <2>2
<1>6. SameEnds
  BY <1>2, EndsReplaced
<1> QED
  BY <1>4, <1>5, <1>6 DEF Stepped

\* The end of a queue that is closed.
LEMMA EofSteps ==
    ASSUME Counted, NEW t, NEW p \in Proc, NEW c, ReadMid(t, p, c), Eof(t, p, c)
    PROVE  Stepped(p)
<1>1. PICK x, e : x = q[c.i] /\ e = IF x.eof = 4 THEN 4 ELSE x.eof + 1
  OBVIOUS
<1>2. PICK y : y = [x EXCEPT !.eof = e]
  OBVIOUS
<1>3. /\ c.i \in End /\ q \in [End -> Queue] /\ QueueOK(x)
      /\ Tended(x, t.p[Rr(c.i)], t.p[Wr(c.i)])
      /\ IsRunning(t, p) /\ LockInv(t, [Lks EXCEPT ![p] = Rlock(c.i)])
  BY <1>1, ReadMidFacts
<1>4. e \in 0 .. 4
  <2>1. x.eof \in 0 .. 4
    BY <1>3, QueueFields
  <2> QED
    BY <2>1, <1>1, SMT
<1>5. /\ QueueOK(y) /\ y.blocks = x.blocks /\ y.len = x.len
      /\ y.closed = x.closed /\ y.starve = x.starve /\ y.flow = x.flow
  BY <1>2, <1>3, <1>4, EofOK
<1>6. q' = [q EXCEPT ![c.i] = y]
  BY <1>1, <1>2, <1>3 DEF Eof
<1>7. Tended(y, t.p[Rr(c.i)], t.p[Wr(c.i)])
  BY <1>3, <1>5 DEF Tended
<1>8. PICK res : Returns(Qunlock(t, Rlock(c.i)), p, c, res, <<>>)
  BY DEF Eof
<1>9. ElseSame(t, t, c.i)
  BY DEF ElseSame
<1> QED
  BY <1>1, <1>9, <1>3, <1>5, <1>6, <1>7, <1>8, ReadReturns

\* Nothing queued yet.
LEMMA QwaitSteps ==
    ASSUME NEW t, NEW p \in Proc, NEW c, ReadMid(t, p, c), Qwait(t, p, c)
    PROVE  Stepped(p)
<1>1. PICK i, x : i = c.i /\ x = q[i]
  OBVIOUS
<1>2. PICK y : y = [x EXCEPT !.starve = TRUE]
  OBVIOUS
<1>3. /\ i \in End /\ q \in [End -> Queue] /\ QueueOK(x)
      /\ Rr(i) \in Rid /\ Wr(i) \in Rid /\ Guard(Rr(i)) = Rlock(i)
      /\ Tended(x, t.p[Rr(i)], t.p[Wr(i)])
      /\ IsRunning(t, p) /\ LockInv(t, [Lks EXCEPT ![p] = Guard(Rr(i))])
      /\ Queues(t, q)
      /\ CallOK(c, AtRead(TRUE), open[p]) /\ Lk(c, AtRead(TRUE)) = Guard(Rr(i))
  BY <1>1, ReadMidFacts
<1>4. /\ QueueOK(y) /\ y.blocks = x.blocks /\ y.len = x.len
      /\ y.closed = x.closed /\ y.starve = TRUE /\ y.flow = x.flow
  BY <1>2, <1>3, StarveOK
<1>5. q' = [q EXCEPT ![i] = y]
  BY <1>1, <1>2, <1>3 DEF Qwait
<1>6. x.blocks = <<>> /\ ~x.closed
  BY <1>1 DEF Qwait
<1>7. \A r : Tended(y, r, t.p[Wr(i)])
  BY <1>3, <1>4, <1>6 DEF Tended
<1>8. CASE /\ Sleeps(t, p, FALSE)
           /\ Leaves(Sleep(t, p, Rr(i), FALSE), p, c, AtRead(TRUE))
  <2>1. PICK u : u = Sleep(t, p, Rr(i), FALSE)
    OBVIOUS
  <2>2. /\ LockInv(u, [Lks EXCEPT ![p] = Guard(Rr(i))]) /\ u.up = p
        /\ OnlyOn(t, u, Rr(i))
    BY <2>1, <1>3, SleepMid
  <2>3. /\ StepTo(p, c, AtRead(TRUE), Left(u, p)) /\ Left(u, p).p = u.p
        /\ last'.op = "none"
    BY <2>1, <2>2, <1>3, <1>8, LeavesSteps
  <2>4. /\ u.p[Wr(i)] = t.p[Wr(i)]
        /\ ElseSame(t, u, i)
    BY <2>2, <1>3, NameFacts DEF ElseSame, OnlyOn
  <2>5. Tended(y, u.p[Rr(i)], u.p[Wr(i)])
    BY <2>4, <1>7
  <2>6. Queues(Left(u, p), q')
    <3>1. PICK v : v = Left(u, p)
      OBVIOUS
    <3>2. /\ Tended(y, v.p[Rr(i)], v.p[Wr(i)])
          /\ ElseSame(t, v, i)
      BY <3>1, <2>3, <2>4, <2>5 DEF ElseSame
    <3>3. Queues(v, [q EXCEPT ![i] = y])
      BY <3>2, <1>3, <1>4, QueueReplaced
    <3> QED
      BY <3>1, <3>3, <1>5
  <2>7. SameEnds
    BY <1>1, <1>3, <1>4, <1>5, EndsReplaced
  <2> QED
    BY <2>3, <2>6, <2>7 DEF Stepped
<1>9. CASE /\ ~Sleeps(t, p, FALSE)
           /\ Returns(Qunlock(Uncommitted(t, p, Rr(i)), Rlock(i)), p, c,
                      "intr", <<>>)
  <2>1. PICK u : u = Uncommitted(t, p, Rr(i))
    OBVIOUS
  <2>2. /\ LockInv(u, [Lks EXCEPT ![p] = Guard(Rr(i))]) /\ u.p = t.p
        /\ IsRunning(u, p)
    BY <2>1, <1>3, <1>9, UncommittedMid
  <2>3. Returns(Qunlock(u, Rlock(c.i)), p, c, "intr", <<>>)
    BY <2>1, <1>1, <1>9
  <2>4. ElseSame(t, u, i)
    BY <2>2 DEF ElseSame
  <2> QED
    BY <2>2, <2>3, <2>4, <1>1, <1>3, <1>4, <1>5, <1>7, ReadReturns
<1> QED
  BY <1>1, <1>8, <1>9 DEF Qwait

\* A block is taken; the writer that waits below half the limit is woken.
LEMMA TakeSteps ==
    ASSUME Counted,
           NEW t, NEW p \in Proc, NEW c, ReadMid(t, p, c), Take(t, p, c)
    PROVE  Stepped(p)
<1>1. PICK i, z : i = c.i /\ z = q[i]
  OBVIOUS
<1>2. PICK x, u : /\ x = Removed(z, c.n)
                  /\ u = IF Restarts(x) THEN Wakeup(t, Wr(i)) ELSE t
  OBVIOUS
<1>3. PICK f, y : f = (x.flow /\ ~Restarts(x)) /\ y = [x EXCEPT !.flow = f]
  OBVIOUS
<1>4. /\ i \in End /\ q \in [End -> Queue] /\ QueueOK(z) /\ c.n \in Nat
      /\ Rr(i) \in Rid /\ Wr(i) \in Rid
      /\ Tended(z, t.p[Rr(i)], t.p[Wr(i)])
      /\ IsRunning(t, p) /\ LockInv(t, [Lks EXCEPT ![p] = Rlock(i)])
  BY <1>1, ReadMidFacts
<1>5. z.blocks # <<>>
  BY <1>1 DEF Take
<1>6. /\ QueueOK(x) /\ x.closed = z.closed /\ x.flow = z.flow
      /\ x.starve = z.starve
  BY <1>2, <1>4, <1>5, RemovedOK
<1>7. f \in BOOLEAN
  BY <1>3
<1>8. /\ QueueOK(y) /\ y.blocks = x.blocks /\ y.len = x.len
      /\ y.closed = x.closed /\ y.flow = f
  BY <1>3, <1>6, <1>7, FlowOK
<1>9. q' = [q EXCEPT ![i] = y]
  BY <1>1, <1>2, <1>3 DEF Take
<1>10. PICK got : Returns(Qunlock(u, Rlock(i)), p, c, "ok", got)
  BY <1>1, <1>2 DEF Take
<1>11. /\ LockInv(u, [Lks EXCEPT ![p] = Rlock(i)]) /\ IsRunning(u, p)
       /\ \A s \in Rid \ {Wr(i)} : u.p[s] = t.p[s]
       /\ Restarts(x) => u.p[Wr(i)] = NoProc
       /\ ~Restarts(x) => u = t
  <2>1. CASE Restarts(x)
    <3>1. u = Wakeup(t, Wr(i))
      BY <2>1, <1>2
    <3>2. /\ LockInv(u, [Lks EXCEPT ![p] = Rlock(i)])
          /\ u.p[Wr(i)] = NoProc /\ \A s \in Rid \ {Wr(i)} : u.p[s] = t.p[s]
          /\ u.up = t.up
          /\ t.state[p] = "Running" => u.state[p] = "Running"
      BY <3>1, <1>4, WakeupLocks
    <3> QED
      BY <3>2, <2>1, <1>4 DEF IsRunning
  <2>2. CASE ~Restarts(x)
    BY <2>2, <1>2, <1>4
  <2> QED
    BY <2>1, <2>2
<1>12. t.p[Rr(i)] = NoProc
  BY <1>4, <1>5 DEF Tended
<1>13. u.p[Rr(i)] = NoProc
  BY <1>4, <1>11, <1>12, NameFacts
<1>14. ElseSame(t, u, i)
  BY <1>4, <1>11, NameFacts DEF ElseSame
<1>15. Tended(y, u.p[Rr(i)], u.p[Wr(i)])
  <2>1. CASE Restarts(x)
    BY <2>1, <1>11, <1>13 DEF Tended
  <2>2. CASE ~Restarts(x)
    <3> SUFFICES ASSUME t.p[Wr(i)] # NoProc
                 PROVE  /\ y.blocks # <<>> /\ ~y.closed /\ y.flow
                        /\ y.len >= Limit \div 2
      BY <2>2, <1>11, <1>13 DEF Tended
    <3>1. ~z.closed /\ z.flow
      BY <1>4 DEF Tended
    <3>2. ~y.closed /\ y.flow
      BY <3>1, <2>2, <1>3, <1>6, <1>8
    <3>3. ~(x.len < Limit \div 2)
      BY <3>1, <2>2, <1>6 DEF Restarts
    <3>4. x.len \in Nat /\ (x.blocks = <<>> => x.len = 0)
      BY <1>6, QueueFields
    <3>5. x.len >= Limit \div 2 /\ x.len # 0
      BY <3>3, <3>4, PipeAssumption, SMTT(30)
    <3> QED
      BY <3>2, <3>4, <3>5, <1>8
  <2> QED
    BY <2>1, <2>2
<1>16. y.closed = z.closed
  BY <1>6, <1>8
<1> QED
  BY <1>1, <1>4, <1>5, <1>8, <1>9, <1>10, <1>11, <1>14, <1>15, <1>16, ReadReturns

\* qread from again:.
LEMMA AgainSteps ==
    ASSUME Counted,
           NEW t, NEW p \in Proc, NEW c, ReadMid(t, p, c), Again(t, p, c)
    PROVE  Stepped(p)
BY EofSteps, QwaitSteps, TakeSteps DEF Again

\* A note ended the reader's sleep.
LEMMA ReadInterruptedSteps ==
    ASSUME NEW t, NEW p \in Proc, NEW c, ReadMid(t, p, c),
           ReadInterrupted(t, p, c)
    PROVE  Stepped(p)
<1>1. PICK u, v : u = Interrupted(t, p) /\ v = Qunlock(u, Rlock(c.i))
  OBVIOUS
<1>2. /\ c.op = "read" /\ Rlock(c.i) \in Qlk /\ Queues(t, q)
      /\ IsRunning(t, p) /\ LockInv(t, [Lks EXCEPT ![p] = Rlock(c.i)])
  BY ReadMidFacts
<1>3. /\ LockInv(u, [Lks EXCEPT ![p] = Rlock(c.i)]) /\ u.p = t.p
      /\ IsRunning(u, p)
  BY <1>1, <1>2, InterruptedLocks
<1>4. LockInv(v, [Lks EXCEPT ![p] = NoLock]) /\ v.p = u.p
  BY <1>1, <1>2, <1>3, UnlockMid
<1>5. Returns(v, p, c, "intr", <<>>) /\ q' = q
  BY <1>1 DEF ReadInterrupted
<1>6. StepTo(p, NoCall, NoAt, v) /\ last'.op = "read"
  BY <1>2, <1>4, <1>5, ReturnsSteps
<1>7. Queues(v, q')
  <2>1. \A r \in Rid : v.p[r] \in {t.p[r], NoProc}
    BY <1>3, <1>4
  <2> QED
    BY <2>1, <1>2, <1>5, QueuesKept
<1>8. SameEnds
  BY <1>5 DEF SameEnds
<1> QED
  BY <1>6, <1>7, <1>8 DEF Stepped
-----------------------------------------------------------------------------
\* What holds of a writer that has wlock.
LEMMA WriteMidFacts ==
    ASSUME NEW t, NEW p \in Proc, NEW c, NEW d, WriteMid(t, p, c, d)
    PROVE  /\ c.op = "write" /\ c.i \in End /\ c.bs \in Seq(Seq(Proc \X Nat))
           /\ d \in Nat /\ d < Len(c.bs)
           /\ Wlock(c.i) \in Qlk /\ Rr(c.i) \in Rid /\ Wr(c.i) \in Rid
           /\ Guard(Wr(c.i)) = Wlock(c.i)
           /\ IsRunning(t, p) /\ LockInv(t, [Lks EXCEPT ![p] = Wlock(c.i)])
           /\ q \in [End -> Queue] /\ QueueOK(q[c.i])
           /\ Tended(q[c.i], t.p[Rr(c.i)], t.p[Wr(c.i)])
           /\ Queues(t, q)
           /\ \A s \in BOOLEAN : /\ CallOK(c, AtFlow(d, s), open[p])
                                 /\ Lk(c, AtFlow(d, s)) = Wlock(c.i)
<1>1. /\ LockInv(t, [Lks EXCEPT ![p] = Wlock(c.i)])
      /\ IsRunning(t, p) /\ Queues(t, q) /\ IsWrite(c, open[p])
      /\ d \in Nat /\ d < Len(c.bs)
  BY DEF WriteMid
<1>2. /\ c.op = "write" /\ c.i \in End /\ c.bs \in Seq(Seq(Proc \X Nat))
      /\ \A s : Lk(c, AtFlow(d, s)) = Wlock(c.i)
  BY <1>1, WriteFields
<1>3. /\ q \in [End -> Queue] /\ QueueOK(q[c.i])
      /\ Tended(q[c.i], t.p[Rr(c.i)], t.p[Wr(c.i)])
  BY <1>1, <1>2 DEF Queues
<1>4. /\ Wlock(c.i) \in Qlk /\ Rr(c.i) \in Rid /\ Wr(c.i) \in Rid
      /\ Guard(Wr(c.i)) = Wlock(c.i)
  BY <1>2, NameFacts
<1>5. \A s \in BOOLEAN : CallOK(c, AtFlow(d, s), open[p])
  BY <1>1 DEF CallOK
<1> QED
  BY <1>1, <1>2, <1>3, <1>4, <1>5

\* A write fails: it gives up wlock and the writer is noted.
LEMMA WriteFailsSteps ==
    ASSUME NEW t, NEW p \in Proc, NEW c, NEW res, WriteFails(t, p, c, res),
           res # "ok", c.i \in End, IsRunning(t, p),
           LockInv(t, [Lks EXCEPT ![p] = Wlock(c.i)]), Queues(t, q')
    PROVE  \E u : StepTo(p, NoCall, NoAt, u) /\ Queues(u, q')
<1>1. PICK u, v : u = Qunlock(t, Wlock(c.i)) /\ v = Postnote(u, p)
  OBVIOUS
<1>2. Wlock(c.i) \in Qlk
  BY NameFacts
<1>3. LockInv(u, [Lks EXCEPT ![p] = NoLock]) /\ u.p = t.p
  BY <1>1, <1>2, UnlockMid
<1>4. /\ LockInv(v, [Lks EXCEPT ![p] = NoLock])
      /\ \A r \in Rid : v.p[r] \in {u.p[r], NoProc}
  BY <1>1, <1>3, PostnoteLocks
<1>5. Returns(v, p, c, res, <<>>)
  BY <1>1 DEF WriteFails
<1>6. StepTo(p, NoCall, NoAt, v) /\ last'.res = res
  BY <1>4, <1>5, ReturnsSteps
<1>7. Queues(v, q')
  <2>1. \A r \in Rid : v.p[r] \in {t.p[r], NoProc}
    BY <1>3, <1>4
  <2> QED
    BY <2>1, QueuesKept
<1> QED
  BY <1>6, <1>7

\* The flow control, its queue being x.
LEMMA FlowControlSteps ==
    ASSUME Counted, NEW t, NEW p \in Proc, NEW c, NEW d, NEW x,
           LockInv(t, [Lks EXCEPT ![p] = Wlock(c.i)]), IsRunning(t, p),
           IsWrite(c, open[p]), d \in Nat, d < Len(c.bs),
           QueueOK(x), q \in [End -> Queue], Queues(t, [q EXCEPT ![c.i] = x]),
           x.closed = q[c.i].closed,
           q[c.i].closed /\ q[c.i].blocks = <<>> => x.blocks = <<>>,
           FlowControl(t, p, c, x, d)
    PROVE  Stepped(p)
<1>1. PICK i, g : i = c.i /\ g = [q EXCEPT ![i] = x]
  OBVIOUS
<1>2. /\ c.op = "write" /\ i \in End /\ c.bs \in Seq(Seq(Proc \X Nat))
      /\ \A e, s : /\ Lk(c, AtFlow(e, s)) = Wlock(i)
                   /\ Lk(c, AtLoop(e)) = NoLock
  BY <1>1, WriteFields
<1>3. /\ Wlock(i) \in Qlk /\ Rr(i) \in Rid /\ Wr(i) \in Rid
      /\ Guard(Wr(i)) = Wlock(i)
  BY <1>2, NameFacts
<1>4. /\ x.blocks \in Seq(Block) /\ x.len \in Nat
      /\ x.closed \in BOOLEAN /\ (x.blocks = <<>> => x.len = 0)
  BY QueueFields
<1>5. Len(c.bs) \in Nat
  BY <1>2, SMT
<1>6. Queues(t, g) /\ g[i] = x /\ \A j \in End \ {i} : g[j] = q[j]
  BY <1>1, <1>2
<1>7. CASE Qnotfull(x) /\ q' = [q EXCEPT ![i] = x]
           /\ d + 1 = Len(c.bs)
           /\ Returns(Qunlock(t, Wlock(i)), p, c, "ok", <<>>)
  <2>1. PICK u : u = Qunlock(t, Wlock(i))
    OBVIOUS
  <2>2. LockInv(u, [Lks EXCEPT ![p] = NoLock]) /\ u.p = t.p
    BY <2>1, <1>1, <1>3, UnlockMid
  <2>3. StepTo(p, NoCall, NoAt, u) /\ last'.i = i
    BY <2>1, <2>2, <1>1, <1>7, ReturnsSteps
  <2>4. Queues(u, q')
    <3>1. \A r \in Rid : u.p[r] \in {t.p[r], NoProc}
      BY <2>2
    <3> QED
      BY <3>1, <1>1, <1>6, <1>7, QueuesKept
  <2>5. SameEnds
    BY <1>1, <1>2, <1>7, EndsReplaced
  <2> QED
    BY <2>3, <2>4, <2>5 DEF Stepped
<1>8. CASE /\ q' = [q EXCEPT ![i] = x]
           /\ d + 1 # Len(c.bs)
           /\ procs' = Qunlock(t, Wlock(i))
           /\ call' = [call EXCEPT ![p] = c]
           /\ at' = [at EXCEPT ![p] = AtLoop(d + 1)]
           /\ last' = NoAnswer
  <2>1. PICK u : u = Qunlock(t, Wlock(i))
    OBVIOUS
  <2>2. LockInv(u, [Lks EXCEPT ![p] = NoLock]) /\ u.p = t.p
    BY <2>1, <1>1, <1>3, UnlockMid
  <2>3. d + 1 \in Nat /\ d + 1 < Len(c.bs)
    BY <1>5, <1>8, SMTT(30)
  <2>4. CallOK(c, AtLoop(d + 1), open[p])
    BY <2>3 DEF CallOK
  <2>5. StepTo(p, c, AtLoop(d + 1), u)
    BY <2>1, <2>2, <2>4, <1>2, <1>8 DEF StepTo
  <2>6. Queues(u, q')
    <3>1. \A r \in Rid : u.p[r] \in {t.p[r], NoProc}
      BY <2>2
    <3> QED
      BY <3>1, <1>1, <1>6, <1>8, QueuesKept
  <2>7. SameEnds
    BY <1>1, <1>2, <1>8, EndsReplaced
  <2> QED
    BY <2>5, <2>6, <2>7 DEF Stepped
<1>9. PICK y : y = [x EXCEPT !.flow = TRUE]
  OBVIOUS
<1>10. /\ QueueOK(y) /\ y.blocks = x.blocks /\ y.len = x.len
       /\ y.closed = x.closed /\ y.starve = x.starve /\ y.flow = TRUE
  BY <1>9, FlowOK
<1>11. ASSUME ~Qnotfull(x), q' = [q EXCEPT ![i] = y]
       PROVE  /\ \A w : Tended(y, t.p[Rr(i)], w)
              /\ \A u : ElseSame(t, u, i) /\ u.p[Rr(i)] = t.p[Rr(i)] => Queues(u, q')
              /\ SameEnds
  <2>1. ~(x.len < Limit) /\ ~x.closed
    BY <1>11 DEF Qnotfull
  <2>2. y.len >= Limit \div 2 /\ y.len # 0
    BY <2>1, <1>4, <1>10, PipeAssumption, SMT
  <2>3. y.blocks # <<>> /\ ~y.closed
    BY <2>1, <2>2, <1>4, <1>10
  <2>4. Tended(x, t.p[Rr(i)], t.p[Wr(i)])
    BY <1>2, <1>6 DEF Queues
  <2>5. \A w : Tended(y, t.p[Rr(i)], w)
    BY <2>2, <2>3, <2>4, <1>10 DEF Tended
  <2>6. ASSUME NEW u, ElseSame(t, u, i), u.p[Rr(i)] = t.p[Rr(i)]
        PROVE  Queues(u, q')
    <3>1. Tended(y, u.p[Rr(i)], u.p[Wr(i)])
      BY <2>5, <2>6
    <3>2. Queues(u, [g EXCEPT ![i] = y])
      BY <3>1, <2>6, <1>2, <1>6, <1>10, QueueReplaced
    <3>3. [g EXCEPT ![i] = y] = [q EXCEPT ![i] = y]
      BY <1>1, <1>2
    <3> QED
      BY <3>2, <3>3, <1>11
  <2>7. SameEnds
    BY <1>1, <1>2, <1>10, <1>11, EndsReplaced
  <2> QED
    BY <2>5, <2>6, <2>7
<1>12. CASE /\ ~Qnotfull(x) /\ q' = [q EXCEPT ![i] = y]
            /\ Leaves(Sleep(t, p, Wr(i), FALSE), p, c, AtFlow(d, TRUE))
  <2>1. PICK u, v : u = Sleep(t, p, Wr(i), FALSE) /\ v = Left(u, p)
    OBVIOUS
  <2>2. /\ LockInv(u, [Lks EXCEPT ![p] = Wlock(i)]) /\ u.up = p
        /\ OnlyOn(t, u, Wr(i))
    BY <2>1, <1>1, <1>3, SleepMid
  <2>3. CallOK(c, AtFlow(d, TRUE), open[p])
    BY DEF CallOK
  <2>4. StepTo(p, c, AtFlow(d, TRUE), v) /\ v.p = u.p /\ last'.op = "none"
    BY <2>1, <2>2, <2>3, <1>2, <1>12, LeavesSteps
  <2>5. ElseSame(t, v, i) /\ v.p[Rr(i)] = t.p[Rr(i)]
    BY <2>2, <2>4, <1>2, <1>3, NameFacts DEF ElseSame, OnlyOn
  <2>6. Queues(v, q') /\ SameEnds
    BY <2>5, <1>11, <1>12
  <2> QED
    BY <2>4, <2>6 DEF Stepped
<1>13. CASE /\ ~Qnotfull(x) /\ q' = [q EXCEPT ![i] = y]
            /\ ~Sleeps(t, p, FALSE)
            /\ WriteFails(Uncommitted(t, p, Wr(i)), p, c, "intr")
  <2>1. PICK u : u = Uncommitted(t, p, Wr(i))
    OBVIOUS
  <2>2. /\ LockInv(u, [Lks EXCEPT ![p] = Wlock(i)]) /\ u.p = t.p
        /\ IsRunning(u, p)
    BY <2>1, <1>1, <1>3, <1>13, UncommittedMid
  <2>3. ElseSame(t, u, i) /\ u.p[Rr(i)] = t.p[Rr(i)]
    BY <2>2 DEF ElseSame
  <2>4. Queues(u, q') /\ SameEnds
    BY <2>3, <1>11, <1>13
  <2>5. \E v : StepTo(p, NoCall, NoAt, v) /\ Queues(v, q')
    BY <2>1, <2>2, <2>4, <1>1, <1>2, <1>13, WriteFailsSteps
  <2> QED
    BY <2>4, <2>5 DEF Stepped
<1> QED
  BY <1>1, <1>7, <1>8, <1>9, <1>12, <1>13 DEF FlowControl

\* qbwrite, with wlock.
LEMMA QbwriteSteps ==
    ASSUME Counted, NEW t, NEW p \in Proc, NEW c, NEW d, WriteMid(t, p, c, d),
           Qbwrite(t, p, c, d)
    PROVE  Stepped(p)
<1>1. PICK i, z : i = c.i /\ z = q[i]
  OBVIOUS
<1>2. PICK x, u : /\ x = Pushed(z, c.bs[d + 1])
                  /\ u = IF z.starve THEN Wakeup(t, Rr(i)) ELSE t
  OBVIOUS
<1>3. /\ i \in End /\ c.bs \in Seq(Seq(Proc \X Nat))
      /\ d \in Nat /\ d < Len(c.bs)
      /\ Rr(i) \in Rid /\ Wr(i) \in Rid
      /\ IsRunning(t, p) /\ LockInv(t, [Lks EXCEPT ![p] = Wlock(i)])
      /\ q \in [End -> Queue] /\ QueueOK(z)
      /\ Tended(z, t.p[Rr(i)], t.p[Wr(i)])
      /\ Queues(t, q)
      /\ CallOK(c, AtFlow(d, FALSE), open[p])
      /\ Lk(c, AtFlow(d, FALSE)) = Wlock(i)
  BY <1>1, WriteMidFacts
<1>4. c.bs[d + 1] \in Seq(Proc \X Nat)
  <2>1. PICK S, bs, n : S = Seq(Proc \X Nat) /\ bs = c.bs /\ n = Len(bs)
    OBVIOUS
  <2>2. bs \in Seq(S) /\ d \in Nat /\ d < n
    BY <1>3, <2>1
  <2>3. bs[d + 1] \in S
    BY <2>1, <2>2, SMT
  <2> QED
    BY <2>1, <2>3
<1>5. /\ QueueOK(x) /\ x.blocks # <<>> /\ x.closed = z.closed /\ x.flow = z.flow
      /\ x.len >= z.len
  BY <1>2, <1>3, <1>4, PushedOK
<1>6. CASE z.closed /\ WriteFails(t, p, c, "hungup") /\ q' = q
  <2>1. \E v : StepTo(p, NoCall, NoAt, v) /\ Queues(v, q')
    BY <1>1, <1>3, <1>6, WriteFailsSteps
  <2>2. SameEnds
    BY <1>6 DEF SameEnds
  <2> QED
    BY <2>1, <2>2 DEF Stepped
<1>7. /\ LockInv(u, [Lks EXCEPT ![p] = Wlock(i)]) /\ IsRunning(u, p)
      /\ OnlyOn(t, u, Rr(i)) /\ u.p[Rr(i)] = NoProc
  <2>1. CASE z.starve
    <3>1. u = Wakeup(t, Rr(i))
      BY <2>1, <1>2
    <3>2. /\ LockInv(u, [Lks EXCEPT ![p] = Wlock(i)])
          /\ u.p[Rr(i)] = NoProc /\ \A s \in Rid \ {Rr(i)} : u.p[s] = t.p[s]
          /\ u.up = t.up
          /\ t.state[p] = "Running" => u.state[p] = "Running"
      BY <3>1, <1>3, WakeupLocks
    <3> QED
      BY <3>2, <2>1, <1>3 DEF IsRunning, OnlyOn
  <2>2. CASE ~z.starve
    <3>1. u = t
      BY <2>2, <1>2
    <3>2. t.p[Rr(i)] = NoProc
      BY <2>2, <1>3 DEF Tended
    <3> QED
      BY <3>1, <3>2, <1>3 DEF OnlyOn
  <2> QED
    BY <2>1, <2>2
<1>8. ElseSame(t, u, i) /\ u.p[Wr(i)] = t.p[Wr(i)]
  BY <1>3, <1>7, NameFacts DEF ElseSame, OnlyOn
<1>9. Tended(x, u.p[Rr(i)], u.p[Wr(i)])
  <2> SUFFICES ASSUME t.p[Wr(i)] # NoProc
               PROVE  ~x.closed /\ x.flow /\ x.len >= Limit \div 2
    BY <1>5, <1>7, <1>8 DEF Tended
  <2>1. ~z.closed /\ z.flow /\ z.len >= Limit \div 2
    BY <1>3 DEF Tended
  <2>2. z.len \in Nat /\ x.len \in Nat
    BY <1>3, <1>5, QueueFields
  <2>3. x.len >= Limit \div 2
    <3>1. Limit \div 2 \in Nat
      BY PipeAssumption, SMT
    <3>2. PICK h \in Nat : h = Limit \div 2
      BY <3>1
    <3>3. x.len >= h
      BY <2>1, <2>2, <3>2, <1>5, SMTT(30)
    <3> QED
      BY <3>2, <3>3
  <2> QED
    BY <2>1, <2>3, <1>5
<1>10. Queues(u, [q EXCEPT ![i] = x])
  BY <1>3, <1>5, <1>8, <1>9, QueueReplaced
<1>11. CASE /\ ~z.closed /\ q' = [q EXCEPT ![i] = x]
            /\ Leaves(u, p, c, AtFlow(d, FALSE))
  <2>1. u.up = p
    BY <1>7 DEF IsRunning
  <2>2. PICK v : v = Left(u, p)
    OBVIOUS
  <2>3. StepTo(p, c, AtFlow(d, FALSE), v) /\ v.p = u.p /\ last'.op = "none"
    BY <2>1, <2>2, <1>3, <1>7, <1>11, LeavesSteps
  <2>4. Queues(v, q')
    <3>1. \A r \in Rid : v.p[r] \in {u.p[r], NoProc}
      BY <2>3
    <3> QED
      BY <3>1, <1>10, <1>11, QueuesKept
  <2>5. SameEnds
    BY <1>1, <1>3, <1>5, <1>11, EndsReplaced
  <2> QED
    BY <2>3, <2>4, <2>5 DEF Stepped
<1>12. CASE ~z.closed /\ FlowControl(u, p, c, x, d)
  <2>1. IsWrite(c, open[p])
    BY DEF WriteMid
  <2>2. x.closed = q[c.i].closed /\ ~q[c.i].closed
    BY <1>1, <1>5, <1>12
  <2> QED
    BY <2>1, <2>2, <1>1, <1>3, <1>5, <1>7, <1>10, <1>12, FlowControlSteps
<1> QED
  BY <1>1, <1>2, <1>6, <1>11, <1>12 DEF Qbwrite
-----------------------------------------------------------------------------
(* The actions.                                                             *)

\* The blocks of a write: one at least.
LEMMA BlocksFacts ==
    ASSUME NEW p \in Proc, NEW n \in Nat
    PROVE  Blocks(p, n) \in Seq(Seq(Proc \X Nat)) /\ 0 < Len(Blocks(p, n))
<1>1. CASE n = 0
  <2>1. Blocks(p, n) = << <<>> >>
    BY <1>1 DEF Blocks
  <2> QED
    BY <2>1, SMT
<1>2. CASE n # 0
  <2>1. PICK m, bytes : m = (n + Maxatomic - 1) \div Maxatomic
                        /\ bytes = [k \in 1 .. n |-> <<p, k>>]
    OBVIOUS
  <2> DEFINE l(b) == IF b * Maxatomic < n THEN b * Maxatomic ELSE n
             f(b) == SubSeq(bytes, (b - 1) * Maxatomic + 1, l(b))
  <2>2. Blocks(p, n) = [b \in 1 .. m |-> f(b)]
    BY <2>1, <1>2 DEF Blocks
  <2>3. m \in Nat /\ m >= 1
    BY <2>1, <1>2, PipeAssumption, SMT
  <2>4. ASSUME NEW b \in 1 .. m PROVE f(b) \in Seq(Proc \X Nat)
    <3>1. b \in Nat /\ b - 1 \in Nat /\ Maxatomic \in Nat
      BY <2>3, PipeAssumption, SMT
    <3>2. b * Maxatomic \in Nat /\ (b - 1) * Maxatomic \in Nat
      BY <3>1, SMT
    <3>3. l(b) \in Int /\ l(b) <= n
      BY <3>2, SMT
    <3>4. \A k \in 1 .. n : bytes[k] \in Proc \X Nat
      BY <2>1, SMT
    <3> HIDE DEF l
    <3>5. PICK j : j = (b - 1) * Maxatomic
      OBVIOUS
    <3>6. \A k \in (j + 1) .. l(b) : bytes[k] \in Proc \X Nat
      BY <3>2, <3>3, <3>4, <3>5, SMTT(30)
    <3>7. SubSeq(bytes, j + 1, l(b)) \in Seq(Proc \X Nat)
      BY <3>2, <3>3, <3>5, <3>6, SMTT(30)
    <3> QED
      BY <3>5, <3>7
  <2> HIDE DEF f
  <2>5. PICK g : g = [b \in 1 .. m |-> f(b)]
    OBVIOUS
  <2>6. g \in Seq(Seq(Proc \X Nat)) /\ Len(g) = m
    BY <2>3, <2>4, <2>5, SMTT(30)
  <2> QED
    BY <2>2, <2>3, <2>5, <2>6, SMTT(30)
<1> QED
  BY <1>1, <1>2

\* A step of p's call keeps the invariant.
LEMMA SteppedKeeps ==
    ASSUME PipeInv, NEW p \in Proc, Stepped(p), open' = open, qref' = qref
    PROVE  PipeInv'
<1>1. PICK c, a, u : StepTo(p, c, a, u) /\ Queues(u, q')
  BY DEF Stepped
<1>2. /\ procs' = u
      /\ call' = [call EXCEPT ![p] = c] /\ at' = [at EXCEPT ![p] = a]
      /\ LockInv(u, [Lks EXCEPT ![p] = Lk(c, a)])
      /\ CallOK(c, a, open[p])
  BY <1>1 DEF StepTo
<1>3. /\ call = [s \in Proc |-> call[s]] /\ at = [s \in Proc |-> at[s]]
      /\ \A s \in Proc : CallOK(call[s], at[s], open[s])
  BY DEF PipeInv, Calls
<1>4. /\ call' = [s \in Proc |-> call'[s]] /\ at' = [s \in Proc |-> at'[s]]
      /\ call'[p] = c /\ at'[p] = a
      /\ \A s \in Proc \ {p} : call'[s] = call[s] /\ at'[s] = at[s]
  BY <1>2, <1>3
<1>5. Lks' = [Lks EXCEPT ![p] = Lk(c, a)]
  <2>1. PICK k, m : k = Lks' /\ m = [Lks EXCEPT ![p] = Lk(c, a)]
    OBVIOUS
  <2>2. k = [s \in Proc |-> Lk(call'[s], at'[s])]
    BY <2>1 DEF Lks
  <2>3. m = [s \in Proc |-> IF s = p THEN Lk(c, a) ELSE Lk(call[s], at[s])]
    BY <2>1 DEF Lks
  <2>4. \A s \in Proc : Lk(call'[s], at'[s]) =
                           IF s = p THEN Lk(c, a) ELSE Lk(call[s], at[s])
    BY <1>4
  <2>5. k = m
    BY <2>2, <2>3, <2>4
  <2> QED
    BY <2>1, <2>5
<1>6. LockInv(procs', Lks')
  BY <1>2, <1>5
<1>7. Calls'
  <2>1. \A s \in Proc : CallOK(call'[s], at'[s], open'[s])
    BY <1>2, <1>3, <1>4
  <2> QED
    BY <2>1, <1>4 DEF Calls
<1>8. Queues(procs', q')
  BY <1>1, <1>2
<1>9. Opens'
  BY DEF PipeInv, Opens
<1>10. ClosedTogether'
  <2>1. /\ q[0].closed = q[1].closed
        /\ qref = [e \in End |-> 0] => ~q[0].closed
        /\ \A e \in End : q[e].closed /\ qref[e] = 0 => q[e].blocks = <<>>
    BY DEF PipeInv, ClosedTogether
  <2>2. \A i \in End : /\ q'[i].closed = q[i].closed
                       /\ q[i].closed /\ q[i].blocks = <<>> => q'[i].blocks = <<>>
    BY DEF Stepped, SameEnds
  <2>3. 0 \in End /\ 1 \in End
    BY DEF End
  <2>4. q'[0].closed = q[0].closed /\ q'[1].closed = q[1].closed
    BY <2>2, <2>3
  <2>5. q'[0].closed = q'[1].closed
    BY <2>1, <2>4
  <2>6. qref' = [e \in End |-> 0] => ~q'[0].closed
    BY <2>1, <2>4
  <2>7. \A e \in End : q'[e].closed /\ qref'[e] = 0 => q'[e].blocks = <<>>
    BY <2>1, <2>2
  <2> QED
    BY <2>5, <2>6, <2>7 DEF ClosedTogether
<1>11. PipeInv'
  BY <1>6, <1>7, <1>8, <1>9, <1>10 DEF PipeInv, LockInv, Queues
<1> QED
  BY <1>11 DEF Stepped

\* What the invariant says of one process.
LEMMA ProcFacts ==
    ASSUME PipeInv, NEW p \in Proc
    PROVE  /\ LockInv(procs, Lks) /\ Queues(procs, q)
           /\ q \in [End -> Queue]
           /\ CallOK(call[p], at[p], open[p])
           /\ Lks[p] = Lk(call[p], at[p])
           /\ call[p] = NoCall => Lks[p] = NoLock
           /\ call[p].op = "read" =>
                 /\ IsRead(call[p], open[p])
                 /\ Lks[p] = Rlock(call[p].i)
           /\ call[p].op = "write" => IsWrite(call[p], open[p])
<1>1. /\ LockInv(procs, Lks) /\ Queues(procs, q)
      /\ CallOK(call[p], at[p], open[p]) /\ q \in [End -> Queue]
  BY DEF PipeInv, Calls, Queues
<1>2. Lks[p] = Lk(call[p], at[p])
  BY DEF Lks
<1>3. call[p] = NoCall => Lks[p] = NoLock
  BY <1>2, SMT DEF NoCall, Lk
<1>4. \A o : /\ IsRead(call[p], o) => call[p].op = "read"
             /\ IsWrite(call[p], o) => call[p].op = "write"
  BY ReadFields, WriteFields
<1>5. NoCall.op = "none"
  BY DEF NoCall
<1>6. /\ call[p].op = "read" => IsRead(call[p], open[p])
      /\ call[p].op = "write" => IsWrite(call[p], open[p])
  BY <1>1, <1>4, <1>5 DEF CallOK
<1>7. call[p].op = "read" => Lks[p] = Rlock(call[p].i)
  BY <1>2, <1>6, ReadFields
<1> QED
  BY <1>1, <1>2, <1>3, <1>6, <1>7

\* The lock is taken, or queued for, by a process whose call had none.
LEMMA QlockMid ==
    ASSUME PipeInv, NEW p \in Proc, NEW l \in Qlk, IsRunning(procs, p),
           Lks[p] = NoLock
    PROVE  /\ LockInv(Qlock(procs, l, p), [Lks EXCEPT ![p] = l])
           /\ Qlock(procs, l, p).up = p
           /\ Qlock(procs, l, p).p = procs.p
           /\ Queues(Qlock(procs, l, p), q)
           /\ procs.lock[l].locked \/ IsRunning(Qlock(procs, l, p), p)
<1>1. LockInv(procs, Lks) /\ Queues(procs, q)
  BY ProcFacts
<1>2. /\ LockInv(Qlock(procs, l, p), [Lks EXCEPT ![p] = l])
      /\ Qlock(procs, l, p).p = procs.p /\ Qlock(procs, l, p).up = p
      /\ ~procs.lock[l].locked => IsRunning(Qlock(procs, l, p), p)
  BY <1>1, QlockLocks
<1>3. Queues(Qlock(procs, l, p), q)
  <2>1. \A r \in Rid : Qlock(procs, l, p).p[r] \in {procs.p[r], NoProc}
    BY <1>2
  <2> QED
    BY <2>1, <1>1, QueuesKept
<1> QED
  BY <1>2, <1>3

\* sched enters a process that is in the middle of a call.
LEMMA EnterMid ==
    ASSUME PipeInv, NEW p \in Proc, procs.up = NoProc, procs.state[p] = "Ready"
    PROVE  /\ LockInv(Enter(procs, p), Lks)
           /\ LockInv(Enter(procs, p), [Lks EXCEPT ![p] = Lks[p]])
           /\ IsRunning(Enter(procs, p), p)
           /\ Queues(Enter(procs, p), q)
<1>1. LockInv(procs, Lks) /\ Queues(procs, q)
  BY ProcFacts
<1>2. /\ LockInv(Enter(procs, p), Lks) /\ IsRunning(Enter(procs, p), p)
      /\ Enter(procs, p).p = procs.p
  BY <1>1, EnterLocks
<1>3. Queues(Enter(procs, p), q)
  <2>1. \A r \in Rid : Enter(procs, p).p[r] \in {procs.p[r], NoProc}
    BY <1>2
  <2> QED
    BY <2>1, <1>1, QueuesKept
<1> QED
  BY <1>2, <1>3, LksFacts

\* p leaves to wait for its lock.
LEMMA QueuesForLock ==
    ASSUME NEW t, NEW p \in Proc, NEW c, NEW a, Leaves(t, p, c, a), t.up = p,
           LockInv(t, [Lks EXCEPT ![p] = Lk(c, a)]), CallOK(c, a, open[p]),
           Queues(t, q), q' = q
    PROVE  Stepped(p)
<1>1. PICK v : v = Left(t, p)
  OBVIOUS
<1>2. StepTo(p, c, a, v) /\ v.p = t.p /\ last'.op = "none"
  BY <1>1, LeavesSteps
<1>3. Queues(v, q')
  <2>1. \A r \in Rid : v.p[r] \in {t.p[r], NoProc}
    BY <1>2
  <2> QED
    BY <2>1, QueuesKept
<1>4. SameEnds
  BY DEF SameEnds
<1> QED
  BY <1>2, <1>3, <1>4 DEF Stepped

\* qread, up to where it queues for rlock, sleeps or answers.
LEMMA ReadKeeps ==
    ASSUME Counted,
           PipeInv, NEW p \in Proc, NEW e \in End, NEW n \in Nat, Read(p, e, n)
    PROVE  PipeInv'
<1>1. PICK c, t : c = Reading(e, n) /\ t = Qlock(procs, Rlock(e), p)
  OBVIOUS
<1>2. /\ IsRunning(procs, p) /\ call[p] = NoCall /\ e \in open[p]
      /\ qref' = qref /\ open' = open
  BY DEF Read
<1>3. IsRead(c, open[p])
  BY <1>1, <1>2 DEF IsRead
<1>4. c.i = e /\ \A a : Lk(c, a) = Rlock(e)
  <2>1. c.i = e
    BY <1>1 DEF Reading
  <2> QED
    BY <2>1, <1>3, ReadFields
<1>5. Rlock(e) \in Qlk
  BY NameFacts
<1>6. Lks[p] = NoLock
  BY <1>2, ProcFacts
<1>7. /\ LockInv(t, [Lks EXCEPT ![p] = Rlock(e)]) /\ t.up = p /\ Queues(t, q)
      /\ procs.lock[Rlock(e)].locked \/ IsRunning(t, p)
  BY <1>1, <1>2, <1>5, <1>6, QlockMid
<1>8. CASE Leaves(t, p, c, AtRead(FALSE)) /\ q' = q
  <2>1. CallOK(c, AtRead(FALSE), open[p])
    BY <1>3 DEF CallOK
  <2>2. Stepped(p)
    BY <2>1, <1>4, <1>7, <1>8, QueuesForLock
  <2> QED
    BY <2>2, <1>2, SteppedKeeps
<1>9. CASE ~procs.lock[Rlock(e)].locked /\ Again(t, p, c)
  <2>1. ReadMid(t, p, c)
    BY <1>3, <1>4, <1>7, <1>9 DEF ReadMid
  <2>2. Stepped(p)
    BY <2>1, <1>9, AgainSteps
  <2> QED
    BY <2>2, <1>2, SteppedKeeps
<1> QED
  BY <1>1, <1>8, <1>9 DEF Read

\* qread, from where its lock or its Rendez let it go on.
LEMMA ResumeReadKeeps ==
    ASSUME Counted, PipeInv, NEW p \in Proc, ResumeRead(p)
    PROVE  PipeInv'
<1>1. PICK c, t : c = call[p] /\ t = Enter(procs, p)
  OBVIOUS
<1>2. /\ procs.up = NoProc /\ procs.state[p] = "Ready" /\ c.op = "read"
      /\ qref' = qref /\ open' = open
      /\ ReadInterrupted(t, p, c) \/ Again(t, p, c)
  BY <1>1 DEF ResumeRead
<1>3. IsRead(c, open[p]) /\ Lks[p] = Rlock(c.i)
  BY <1>1, <1>2, ProcFacts
<1>4. /\ LockInv(t, [Lks EXCEPT ![p] = Lks[p]]) /\ IsRunning(t, p)
      /\ Queues(t, q)
  BY <1>1, <1>2, EnterMid
<1>5. ReadMid(t, p, c)
  BY <1>3, <1>4 DEF ReadMid
<1>6. Stepped(p)
  BY <1>2, <1>5, ReadInterruptedSteps, AgainSteps
<1> QED
  BY <1>2, <1>6, SteppedKeeps

\* One round of qwrite's loop.
LEMMA QwriteKeeps ==
    ASSUME Counted, PipeInv, NEW p \in Proc, NEW c, NEW d, Qwrite(p, c, d),
           IsRunning(procs, p), Lks[p] = NoLock, IsWrite(c, open[p]),
           d \in Nat, d < Len(c.bs), qref' = qref, open' = open
    PROVE  PipeInv'
<1>1. PICK l, t : l = Wlock(c.i) /\ t = Qlock(procs, l, p)
  OBVIOUS
<1>2. c.i \in End /\ Lk(c, AtWlock(d)) = l
  BY <1>1, WriteFields
<1>3. l \in Qlk
  BY <1>1, <1>2, NameFacts
<1>4. /\ LockInv(t, [Lks EXCEPT ![p] = l]) /\ t.up = p /\ Queues(t, q)
      /\ procs.lock[l].locked \/ IsRunning(t, p)
  BY <1>1, <1>3, QlockMid
<1>5. CASE Leaves(t, p, c, AtWlock(d)) /\ q' = q
  <2>1. CallOK(c, AtWlock(d), open[p])
    BY DEF CallOK
  <2>2. Stepped(p)
    BY <2>1, <1>2, <1>4, <1>5, QueuesForLock
  <2> QED
    BY <2>2, SteppedKeeps
<1>6. CASE ~procs.lock[l].locked /\ Qbwrite(t, p, c, d)
  <2>1. WriteMid(t, p, c, d)
    BY <1>1, <1>4, <1>6 DEF WriteMid
  <2>2. Stepped(p)
    BY <2>1, <1>6, QbwriteSteps
  <2> QED
    BY <2>2, SteppedKeeps
<1> QED
  BY <1>1, <1>5, <1>6 DEF Qwrite

\* qwrite, up to where it queues for wlock, sleeps, or has a block queued.
LEMMA WriteKeeps ==
    ASSUME Counted,
           PipeInv, NEW p \in Proc, NEW e \in End, NEW n \in Nat, Write(p, e, n)
    PROVE  PipeInv'
<1>1. PICK c, bs : c = Writing(Other(e), bs) /\ bs = Blocks(p, n)
  OBVIOUS
<1>2. /\ IsRunning(procs, p) /\ call[p] = NoCall /\ e \in open[p]
      /\ Qwrite(p, c, 0) /\ qref' = qref /\ open' = open
  BY <1>1 DEF Write
<1>3. bs \in Seq(Seq(Proc \X Nat)) /\ 0 < Len(bs)
  BY <1>1, BlocksFacts
<1>4. Other(e) \in End /\ Other(Other(e)) = e
  BY SMT DEF End, Other
<1>5. IsWrite(c, open[p])
  BY <1>1, <1>2, <1>3, <1>4 DEF IsWrite
<1>6. c.bs = bs
  BY <1>1 DEF Writing
<1>7. Lks[p] = NoLock
  BY <1>2, ProcFacts
<1>8. 0 \in Nat /\ 0 < Len(c.bs)
  BY <1>3, <1>6
<1> QED
  BY <1>2, <1>5, <1>7, <1>8, QwriteKeeps

\* Where a write can be.
LEMMA WriteAt ==
    ASSUME PipeInv, NEW p \in Proc, call[p].op = "write"
    PROVE  /\ IsWrite(call[p], open[p])
           /\ at[p].done \in Nat /\ at[p].done < Len(call[p].bs)
           /\ at[p].k \in {"Wlock", "Flow", "Loop"}
           /\ Lks[p] = IF at[p].k = "Loop" THEN NoLock ELSE Wlock(call[p].i)
<1>1. /\ CallOK(call[p], at[p], open[p]) /\ IsWrite(call[p], open[p])
      /\ Lks[p] = Lk(call[p], at[p])
  BY ProcFacts
<1>2. ~IsRead(call[p], open[p])
  BY ReadFields
<1>3. call[p] # NoCall
  BY SMT DEF NoCall
<1>4. PICK d \in Nat, s \in BOOLEAN :
         d < Len(call[p].bs) /\ at[p] \in {AtWlock(d), AtFlow(d, s), AtLoop(d)}
  BY <1>1, <1>2, <1>3 DEF CallOK
<1>5. at[p].done = d /\ at[p].k \in {"Wlock", "Flow", "Loop"}
  BY <1>4, SMT DEF AtWlock, AtFlow, AtLoop
<1>6. Lks[p] = IF at[p].k = "Loop" THEN NoLock ELSE Wlock(call[p].i)
  BY <1>1 DEF Lk
<1> QED
  BY <1>1, <1>4, <1>5, <1>6

\* qwrite, its next block.
LEMMA NextBlockKeeps ==
    ASSUME Counted, PipeInv, NEW p \in Proc, NextBlock(p)
    PROVE  PipeInv'
<1>1. /\ IsRunning(procs, p) /\ at[p].k = "Loop" /\ Qwrite(p, call[p], at[p].done)
      /\ qref' = qref /\ open' = open
  BY DEF NextBlock
<1>2. call[p].op = "write"
  <2>1. CallOK(call[p], at[p], open[p])
    BY ProcFacts
  <2>2. at[p] # NoAt /\ \A s : at[p] # AtRead(s)
    BY <1>1, SMTT(30) DEF NoAt, AtRead
  <2>3. IsWrite(call[p], open[p])
    BY <2>1, <2>2 DEF CallOK
  <2> QED
    BY <2>3, WriteFields
<1>3. /\ IsWrite(call[p], open[p])
      /\ at[p].done \in Nat /\ at[p].done < Len(call[p].bs)
      /\ Lks[p] = NoLock
  BY <1>1, <1>2, WriteAt
<1> QED
  BY <1>1, <1>3, QwriteKeeps

\* qbwrite, from where its lock or its Rendez let it go on.
LEMMA ResumeWriteKeeps ==
    ASSUME Counted, PipeInv, NEW p \in Proc, ResumeWrite(p)
    PROVE  PipeInv'
<1>1. PICK c, t, d : c = call[p] /\ t = Enter(procs, p) /\ d = at[p].done
  OBVIOUS
<1>2. /\ procs.up = NoProc /\ procs.state[p] = "Ready" /\ c.op = "write"
      /\ qref' = qref /\ open' = open
  BY <1>1 DEF ResumeWrite
<1>3. /\ IsWrite(c, open[p]) /\ d \in Nat /\ d < Len(c.bs)
      /\ at[p].k # "Loop" => Lks[p] = Wlock(c.i)
  BY <1>1, <1>2, WriteAt
<1>4. /\ LockInv(t, [Lks EXCEPT ![p] = Lks[p]]) /\ IsRunning(t, p)
      /\ Queues(t, q)
  BY <1>1, <1>2, EnterMid
<1>5. at[p].k # "Loop" => WriteMid(t, p, c, d)
  BY <1>3, <1>4 DEF WriteMid
<1>6. CASE at[p].k = "Wlock" /\ Qbwrite(t, p, c, d)
  <2>1. WriteMid(t, p, c, d)
    BY <1>5, <1>6
  <2>2. Stepped(p)
    BY <2>1, <1>6, QbwriteSteps
  <2> QED
    BY <2>2, <1>2, SteppedKeeps
<1>7. CASE at[p].k = "Flow" /\ WriteFails(Interrupted(t, p), p, c, "intr") /\ q' = q
  <2>1. WriteMid(t, p, c, d)
    BY <1>5, <1>7
  <2>2. c.i \in End /\ LockInv(t, [Lks EXCEPT ![p] = Wlock(c.i)])
    BY <2>1, WriteMidFacts
  <2>3. PICK u : u = Interrupted(t, p)
    OBVIOUS
  <2>4. /\ LockInv(u, [Lks EXCEPT ![p] = Wlock(c.i)]) /\ u.p = t.p
        /\ IsRunning(u, p)
    BY <2>2, <2>3, <1>4, InterruptedLocks
  <2>5. Queues(u, q')
    <3>1. \A r \in Rid : u.p[r] \in {t.p[r], NoProc}
      BY <2>4
    <3> QED
      BY <3>1, <1>4, <1>7, QueuesKept
  <2>6. \E v : StepTo(p, NoCall, NoAt, v) /\ Queues(v, q')
    BY <2>2, <2>3, <2>4, <2>5, <1>7, WriteFailsSteps
  <2>7. SameEnds
    BY <1>7 DEF SameEnds
  <2>8. Stepped(p)
    BY <2>6, <2>7 DEF Stepped
  <2> QED
    BY <2>8, <1>2, SteppedKeeps
<1>8. CASE at[p].k = "Flow" /\ FlowControl(t, p, c, q[c.i], d)
  <2>1. WriteMid(t, p, c, d)
    BY <1>5, <1>8
  <2>2. /\ c.i \in End /\ LockInv(t, [Lks EXCEPT ![p] = Wlock(c.i)])
        /\ q \in [End -> Queue] /\ QueueOK(q[c.i])
    BY <2>1, WriteMidFacts
  <2>3. [q EXCEPT ![c.i] = q[c.i]] = q
    BY <2>2
  <2>4. Queues(t, [q EXCEPT ![c.i] = q[c.i]])
    BY <2>3, <1>4
  <2>5. PICK x : x = q[c.i]
    OBVIOUS
  <2>6. Stepped(p)
    BY <2>2, <2>4, <2>5, <1>3, <1>4, <1>8, FlowControlSteps
  <2> QED
    BY <2>6, <1>2, SteppedKeeps
<1> QED
  BY <1>1, <1>6, <1>7, <1>8 DEF ResumeWrite

\* A step that changes no call keeps the calls' locks.
LEMMA PlainKeeps ==
    ASSUME PipeInv, LockInv(procs', Lks), Queues(procs', q'),
           call' = call, at' = at, last' = NoAnswer,
           \A p \in Proc : CallOK(call[p], at[p], open'[p]),
           Opens', ClosedTogether'
    PROVE  PipeInv'
<1>1. Lks' = Lks
  BY DEF Lks
<1>2. Calls'
  BY DEF PipeInv, Calls
<1>4. PipeInv'
  BY <1>1, <1>2 DEF PipeInv, LockInv, Queues
<1> QED
  BY <1>4

\* A step on the table alone.
LEMMA TableKeeps ==
    ASSUME PipeInv, LockInv(procs', Lks),
           \A r \in Rid : procs'.p[r] \in {procs.p[r], NoProc},
           last' = NoAnswer, UNCHANGED <<q, qref, open, call, at>>
    PROVE  PipeInv'
<1>1. Queues(procs', q')
  <2>1. Queues(procs, q)
    BY DEF PipeInv
  <2>2. Queues(procs', q)
    BY <2>1, QueuesKept
  <2> QED
    BY <2>2
<1>2. Opens' /\ ClosedTogether'
  BY DEF PipeInv, Opens, ClosedTogether
<1>3. \A p \in Proc : CallOK(call[p], at[p], open'[p])
  BY DEF PipeInv, Calls
<1> QED
  BY <1>1, <1>2, <1>3, PlainKeeps

\* postnote.
LEMMA NoteKeeps ==
    ASSUME PipeInv, NEW p \in Proc, NEW r \in Proc, Note(p, r)
    PROVE  PipeInv'
<1>1. /\ procs' = Postnote(procs, r) /\ last' = NoAnswer
      /\ UNCHANGED <<q, qref, open, call, at>>
  BY DEF Note
<1>2. LockInv(procs, Lks)
  BY DEF PipeInv
<1>3. /\ LockInv(procs', Lks)
      /\ \A s \in Rid : procs'.p[s] \in {procs.p[s], NoProc}
  BY <1>1, <1>2, PostnoteLocks
<1> QED
  BY <1>1, <1>3, TableKeeps

\* A note taken outside of a call.
LEMMA TakeNoteKeeps ==
    ASSUME PipeInv, NEW p \in Proc, TakeNote(p)
    PROVE  PipeInv'
<1>1. /\ procs' = Interrupted(procs, p) /\ last' = NoAnswer
      /\ UNCHANGED <<q, qref, open, call, at>>
  BY DEF TakeNote
<1>2. LockInv(procs, Lks)
  BY DEF PipeInv
<1>3. LockInv(procs', Lks) /\ procs'.p = procs.p
  BY <1>1, <1>2, InterruptedLocks
<1>4. \A s \in Rid : procs'.p[s] \in {procs.p[s], NoProc}
  BY <1>3
<1> QED
  BY <1>1, <1>3, <1>4, TableKeeps

\* sched, called by the clock.
LEMMA PreemptKeeps ==
    ASSUME PipeInv, NEW p \in Proc, Preempt(p)
    PROVE  PipeInv'
<1>1. /\ procs' = Left(procs, p) /\ last' = NoAnswer /\ procs.up = p
      /\ UNCHANGED <<q, qref, open, call, at>>
  BY DEF Preempt, IsRunning
<1>2. LockInv(procs, Lks)
  BY DEF PipeInv
<1>3. LockInv(procs', Lks) /\ procs'.p = procs.p
  BY <1>1, <1>2, LeftLocks
<1>4. \A s \in Rid : procs'.p[s] \in {procs.p[s], NoProc}
  BY <1>3
<1> QED
  BY <1>1, <1>3, <1>4, TableKeeps

\* A process is entered that is in no call.
LEMMA RunKeeps ==
    ASSUME PipeInv, NEW p \in Proc, Run(p)
    PROVE  PipeInv'
<1>1. /\ procs' = Enter(procs, p) /\ last' = NoAnswer
      /\ procs.up = NoProc /\ procs.state[p] = "Ready"
      /\ UNCHANGED <<q, qref, open, call, at>>
  BY DEF Run
<1>2. LockInv(procs, Lks)
  BY DEF PipeInv
<1>3. LockInv(procs', Lks) /\ procs'.p = procs.p
  BY <1>1, <1>2, EnterLocks
<1>4. \A s \in Rid : procs'.p[s] \in {procs.p[s], NoProc}
  BY <1>3
<1> QED
  BY <1>1, <1>3, <1>4, TableKeeps

\* The opens of an end when one process opens or closes it.
LEMMA OpensCounted ==
    ASSUME Counted, Opens, NEW p \in Proc, NEW e \in End
    PROVE  /\ qref \in [End -> Nat]
           /\ open \in [Proc -> SUBSET End]
           /\ e \in open[p] => qref[e] > 0
           /\ (e \notin open[p] /\ open' = [open EXCEPT ![p] = @ \cup {e}]
                 /\ qref' = [qref EXCEPT ![e] = @ + 1]) => Opens'
           /\ (e \in open[p] /\ open' = [open EXCEPT ![p] = @ \ {e}]
                 /\ qref' = [qref EXCEPT ![e] = @ - 1]) => Opens'
<1> DEFINE Of(f) == {s \in Proc : f \in open[s]}
<1>1. /\ open \in [Proc -> SUBSET End]
      /\ qref = [f \in End |-> Cardinality(Of(f))]
  BY DEF Opens
<1>2. ASSUME NEW f \in End PROVE Of(f) \in SUBSET Proc /\ Cardinality(Of(f)) \in Nat
  <2>1. Of(f) \in SUBSET Proc
    OBVIOUS
  <2>2. PICK S : S = Of(f)
    OBVIOUS
  <2>3. Cardinality(S) \in Nat
    BY <2>1, <2>2, OpensNumber
  <2> QED
    BY <2>1, <2>2, <2>3
<1>3. qref \in [End -> Nat]
  BY <1>1, <1>2
<1>4. PICK S : S = Of(e)
  OBVIOUS
<1>5. S \in SUBSET Proc /\ Cardinality(S) \in Nat /\ qref[e] = Cardinality(S)
  BY <1>1, <1>2, <1>4
<1>6. e \in open[p] => qref[e] > 0
  <2>1. Cardinality(S) = 0 => S = {}
    BY <1>5, OpensNumber
  <2>2. e \in open[p] => S # {}
    BY <1>4
  <2> QED
    BY <2>1, <2>2, <1>5, SMTT(30)
<1>7. ASSUME e \notin open[p], open' = [open EXCEPT ![p] = @ \cup {e}],
             qref' = [qref EXCEPT ![e] = @ + 1]
      PROVE  Opens'
  <2>1. open' \in [Proc -> SUBSET End]
    BY <1>1, <1>7
  <2>2. {s \in Proc : e \in open'[s]} = S \cup {p} /\ p \notin S
    BY <1>1, <1>4, <1>7
  <2>3. \A f \in End \ {e} : {s \in Proc : f \in open'[s]} = Of(f)
    BY <1>1, <1>7
  <2>4. Cardinality(S \cup {p}) = Cardinality(S) + 1
    BY <2>2, <1>5, OpensNumber
  <2>5. \A f \in End : qref'[f] = Cardinality({s \in Proc : f \in open'[s]})
    <3> SUFFICES ASSUME NEW f \in End
                 PROVE  qref'[f] = Cardinality({s \in Proc : f \in open'[s]})
      OBVIOUS
    <3>1. CASE f = e
      <4>1. qref'[e] = Cardinality(S) + 1
        BY <1>3, <1>5, <1>7
      <4> QED
        BY <4>1, <3>1, <2>2, <2>4
    <3>2. CASE f # e
      <4>1. qref'[f] = Cardinality(Of(f))
        BY <3>2, <1>1, <1>3, <1>7
      <4>2. {s \in Proc : f \in open'[s]} = Of(f)
        BY <3>2, <2>3
      <4> HIDE DEF Of
      <4> QED
        BY <4>1, <4>2
    <3> QED
      BY <3>1, <3>2
  <2>6. qref' = [f \in End |-> qref'[f]]
    BY <1>3, <1>7
  <2>7. qref' = [f \in End |-> Cardinality({s \in Proc : f \in open'[s]})]
    BY <2>5, <2>6
  <2> QED
    BY <2>1, <2>7 DEF Opens
<1>8. ASSUME e \in open[p], open' = [open EXCEPT ![p] = @ \ {e}],
             qref' = [qref EXCEPT ![e] = @ - 1]
      PROVE  Opens'
  <2>1. open' \in [Proc -> SUBSET End]
    BY <1>1, <1>8
  <2>2. {s \in Proc : e \in open'[s]} = S \ {p} /\ p \in S
    BY <1>1, <1>4, <1>8
  <2>3. \A f \in End \ {e} : {s \in Proc : f \in open'[s]} = Of(f)
    BY <1>1, <1>8
  <2>4. Cardinality(S \ {p}) = Cardinality(S) - 1
    BY <2>2, <1>5, OpensNumber
  <2>5. \A f \in End : qref'[f] = Cardinality({s \in Proc : f \in open'[s]})
    <3> SUFFICES ASSUME NEW f \in End
                 PROVE  qref'[f] = Cardinality({s \in Proc : f \in open'[s]})
      OBVIOUS
    <3>1. CASE f = e
      <4>1. qref'[e] = Cardinality(S) - 1
        BY <1>3, <1>5, <1>8
      <4> QED
        BY <4>1, <3>1, <2>2, <2>4
    <3>2. CASE f # e
      <4>1. qref'[f] = Cardinality(Of(f))
        BY <3>2, <1>1, <1>3, <1>8
      <4>2. {s \in Proc : f \in open'[s]} = Of(f)
        BY <3>2, <2>3
      <4> HIDE DEF Of
      <4> QED
        BY <4>1, <4>2
    <3> QED
      BY <3>1, <3>2
  <2>6. qref' = [f \in End |-> qref'[f]]
    BY <1>3, <1>8
  <2>7. qref' = [f \in End |-> Cardinality({s \in Proc : f \in open'[s]})]
    BY <2>5, <2>6
  <2> QED
    BY <2>1, <2>7 DEF Opens
<1> QED
  BY <1>1, <1>3, <1>6, <1>7, <1>8

\* A call on the ends o goes on when more are open.
LEMMA CallMonotone ==
    ASSUME NEW c, NEW a, NEW o, NEW w, CallOK(c, a, o), o \subseteq w
    PROVE  CallOK(c, a, w)
<1>1. IsRead(c, o) => IsRead(c, w)
  BY DEF IsRead
<1>2. IsWrite(c, o) => IsWrite(c, w)
  BY DEF IsWrite
<1> QED
  BY <1>1, <1>2 DEF CallOK

\* pipeopen.
LEMMA OpenKeeps ==
    ASSUME Counted, PipeInv, NEW p \in Proc, NEW e \in End, Open(p, e)
    PROVE  PipeInv'
<1>1. /\ e \notin open[p] /\ qref' = [qref EXCEPT ![e] = @ + 1]
      /\ open' = [open EXCEPT ![p] = @ \cup {e}] /\ last' = NoAnswer
      /\ UNCHANGED <<procs, q, call, at>>
  BY DEF Open
<1>2. /\ Opens /\ LockInv(procs, Lks) /\ Queues(procs, q) /\ ClosedTogether
      /\ \A s \in Proc : CallOK(call[s], at[s], open[s])
  BY DEF PipeInv, Calls
<1>3. /\ Opens' /\ qref \in [End -> Nat] /\ open \in [Proc -> SUBSET End]
  BY <1>1, <1>2, OpensCounted
<1>4. LockInv(procs', Lks) /\ Queues(procs', q')
  BY <1>1, <1>2
<1>5. \A s \in Proc : CallOK(call[s], at[s], open'[s])
  <2>1. \A s \in Proc : open[s] \subseteq open'[s]
    BY <1>1, <1>3
  <2> QED
    BY <2>1, <1>2, CallMonotone
<1>6. ClosedTogether'
  <2>1. qref'[e] > 0 /\ \A f \in End \ {e} : qref'[f] = qref[f]
    BY <1>1, <1>3, SMT
  <2>2. qref' # [f \in End |-> 0]
    BY <2>1, SMT
  <2>3. \A f \in End : qref'[f] = 0 => qref[f] = 0
    BY <2>1, SMT
  <2>4. /\ q[0].closed = q[1].closed
        /\ \A f \in End : q[f].closed /\ qref[f] = 0 => q[f].blocks = <<>>
    BY <1>2 DEF ClosedTogether
  <2> QED
    BY <2>2, <2>3, <2>4, <1>1 DEF ClosedTogether
<1> QED
  BY <1>1, <1>3, <1>4, <1>5, <1>6, PlainKeeps

\* The hangup wakes everybody who sleeps on the pipe.
LEMMA HungupFacts ==
    ASSUME NEW t, NEW lk, LockInv(t, lk), NEW e \in End
    PROVE  /\ LockInv(Hungup(t, e), lk)
           /\ \A r \in Rid : Hungup(t, e).p[r] = NoProc
<1>1. PICK o, r1, r2, r3, r4 :
         /\ o = Other(e)
         /\ r1 = Rr(o) /\ r2 = Wr(o) /\ r3 = Rr(e) /\ r4 = Wr(e)
  OBVIOUS
<1>2. PICK t1, t2, t3, t4 :
         /\ t1 = Wakeup(t, r1) /\ t2 = Wakeup(t1, r2)
         /\ t3 = Wakeup(t2, r3) /\ t4 = Wakeup(t3, r4)
  OBVIOUS
<1>3. Hungup(t, e) = t4
  BY <1>1, <1>2 DEF Hungup, WakeBoth
<1>4. r1 \in Rid /\ r2 \in Rid /\ r3 \in Rid /\ r4 \in Rid
  BY <1>1, NameFacts
<1>5. Rid = {r1, r2, r3, r4}
  <2>1. End = {e, o}
    BY <1>1, SMT DEF End, Other
  <2> QED
    BY <2>1, <1>1, PipeAssumption
<1>6. /\ LockInv(t1, lk) /\ t1.p[r1] = NoProc
  BY <1>2, <1>4, WakeupLocks
<1>7. /\ LockInv(t2, lk) /\ t2.p[r2] = NoProc
      /\ \A s \in Rid \ {r2} : t2.p[s] = t1.p[s]
  BY <1>2, <1>4, <1>6, WakeupLocks
<1>8. /\ LockInv(t3, lk) /\ t3.p[r3] = NoProc
      /\ \A s \in Rid \ {r3} : t3.p[s] = t2.p[s]
  <2>1. LockInv(t2, lk) /\ r3 \in Rid
    BY <1>4, <1>7
  <2>2. /\ LockInv(Wakeup(t2, r3), lk) /\ Wakeup(t2, r3).p[r3] = NoProc
        /\ \A s \in Rid \ {r3} : Wakeup(t2, r3).p[s] = t2.p[s]
    BY <2>1, WakeupLocks
  <2> QED
    BY <2>2, <1>2
<1>9. /\ LockInv(t4, lk) /\ t4.p[r4] = NoProc
      /\ \A s \in Rid \ {r4} : t4.p[s] = t3.p[s]
  <2>1. LockInv(t3, lk) /\ r4 \in Rid
    BY <1>4, <1>8
  <2>2. /\ LockInv(Wakeup(t3, r4), lk) /\ Wakeup(t3, r4).p[r4] = NoProc
        /\ \A s \in Rid \ {r4} : Wakeup(t3, r4).p[s] = t3.p[s]
    BY <2>1, WakeupLocks
  <2> QED
    BY <2>2, <1>2
<1>10. \A r \in Rid : t4.p[r] = NoProc
  BY <1>4, <1>5, <1>6, <1>7, <1>8, <1>9, SMTT(30)
<1> QED
  BY <1>3, <1>9, <1>10

\* The queues after the last close of an end.
LEMMA ClosedFacts ==
    ASSUME Counted, Queues(procs, q), NEW e \in End
    PROVE  /\ Closed(e) \in [End -> Queue]
           /\ \A i \in End : /\ QueueOK(Closed(e)[i])
                             /\ Closed(e)[i].closed = (qref[Other(e)] # 0)
           /\ Closed(e)[e].blocks = <<>>
<1>1. \A i \in End : QueueOK(q[i])
  BY DEF Queues
<1>2. PICK x : x = [i \in End |-> IF i = e THEN CloseQueue(q[i]) ELSE Hangup(q[i])]
  OBVIOUS
<1>3. \A i \in End : x[i] = IF i = e THEN CloseQueue(q[i]) ELSE Hangup(q[i])
  BY <1>2
<1>4. ASSUME NEW i \in End
      PROVE  QueueOK(x[i]) /\ x[i].closed = TRUE /\ (i = e => x[i].blocks = <<>>)
  <2>1. QueueOK(q[i])
    BY <1>1
  <2>2. /\ QueueOK(CloseQueue(q[i])) /\ CloseQueue(q[i]).closed = TRUE
        /\ CloseQueue(q[i]).blocks = <<>>
        /\ QueueOK(Hangup(q[i])) /\ Hangup(q[i]).closed = TRUE
    BY <2>1, CloseQueueOK
  <2>3. CASE i = e
    <3>1. x[i] = CloseQueue(q[i])
      BY <2>3, <1>3
    <3> QED
      BY <3>1, <2>2
  <2>4. CASE i # e
    <3>1. x[i] = Hangup(q[i])
      BY <2>4, <1>3
    <3> QED
      BY <3>1, <2>2, <2>4
  <2> QED
    BY <2>3, <2>4
<1>5. CASE qref[Other(e)] = 0
  <2>1. Closed(e) = [i \in End |-> Reopen(x[i])]
    BY <1>2, <1>5 DEF Closed
  <2>2. PICK g : g = Closed(e)
    OBVIOUS
  <2>3. \A i \in End : g[i] = Reopen(x[i])
    BY <2>1, <2>2
  <2>4. \A i \in End : /\ QueueOK(Reopen(x[i])) /\ Reopen(x[i]).closed = FALSE
                       /\ Reopen(x[i]).blocks = x[i].blocks
    BY <1>4, CloseQueueOK
  <2>5. \A i \in End : QueueOK(g[i]) /\ g[i].closed = FALSE /\ g[i].blocks = x[i].blocks
    BY <2>3, <2>4
  <2>6. g[e].blocks = <<>>
    BY <2>5, <1>4
  <2>7. g \in [End -> Queue]
    <3>1. \A i \in End : g[i] \in Queue
      BY <2>5 DEF QueueOK
    <3> QED
      BY <3>1, <2>1, <2>2
  <2>8. \A i \in End : g[i].closed = (qref[Other(e)] # 0)
    BY <2>5, <1>5
  <2> QED
    BY <2>2, <2>5, <2>6, <2>7, <2>8
<1>6. CASE qref[Other(e)] # 0
  <2>1. Closed(e) = x
    BY <1>2, <1>6 DEF Closed
  <2>2. x \in [End -> Queue]
    <3>1. \A i \in End : x[i] \in Queue
      BY <1>4 DEF QueueOK
    <3> QED
      BY <3>1, <1>2
  <2>3. \A i \in End : x[i].closed = (qref[Other(e)] # 0)
    BY <1>4, <1>6
  <2> QED
    BY <2>1, <2>2, <2>3, <1>4
<1> QED
  BY <1>5, <1>6

\* pipeclose, and the hangup of the last close of an end.
LEMMA CloseKeeps ==
    ASSUME Counted, PipeInv, NEW p \in Proc, NEW e \in End, Close(p, e)
    PROVE  PipeInv'
<1>1. /\ IsRunning(procs, p) /\ call[p] = NoCall /\ e \in open[p]
      /\ open' = [open EXCEPT ![p] = @ \ {e}]
      /\ qref' = [qref EXCEPT ![e] = @ - 1]
      /\ q' = IF qref[e] = 1 THEN Closed(e) ELSE q
      /\ procs' = IF qref[e] = 1 THEN Hungup(procs, e) ELSE procs
      /\ last' = NoAnswer /\ UNCHANGED <<call, at>>
  BY DEF Close
<1>2. /\ Opens /\ LockInv(procs, Lks) /\ Queues(procs, q) /\ ClosedTogether
      /\ \A s \in Proc : CallOK(call[s], at[s], open[s])
  BY DEF PipeInv, Calls
<1>3. /\ Opens' /\ qref \in [End -> Nat] /\ open \in [Proc -> SUBSET End]
      /\ qref[e] > 0
  BY <1>1, <1>2, OpensCounted
<1>4. \A s \in Proc : CallOK(call[s], at[s], open'[s])
  <2>1. CallOK(call[p], at[p], open'[p])
    <3>1. at[p] = NoAt
      <4>1. ~IsRead(call[p], open[p]) /\ ~IsWrite(call[p], open[p])
        <5>1. call[p].op = "none"
          BY <1>1, SMT DEF NoCall
        <5> QED
          BY <5>1, ReadFields, WriteFields
      <4> QED
        BY <4>1, <1>2 DEF CallOK
    <3> QED
      BY <3>1, <1>1, NoCallFields
  <2>2. \A s \in Proc \ {p} : open'[s] = open[s]
    BY <1>1, <1>3
  <2> QED
    BY <2>1, <2>2, <1>2
<1>5. \A f \in End \ {e} : qref'[f] = qref[f]
  BY <1>1, <1>3
<1>6. qref'[e] = qref[e] - 1
  BY <1>1, <1>3
<1>7. 0 \in End /\ 1 \in End /\ Other(e) \in End /\ Other(e) # e
      /\ End = {e, Other(e)}
  BY SMT DEF End, Other
<1>8. CASE qref[e] # 1
  <2>1. q' = q /\ procs' = procs
    BY <1>1, <1>8
  <2>2. qref'[e] # 0
    BY <1>3, <1>6, <1>8, SMT
  <2>3. qref' # [f \in End |-> 0]
    BY <2>2
  <2>4. \A f \in End : qref'[f] = 0 => qref[f] = 0
    BY <2>2, <1>5
  <2>5. /\ q[0].closed = q[1].closed
        /\ \A f \in End : q[f].closed /\ qref[f] = 0 => q[f].blocks = <<>>
    BY <1>2 DEF ClosedTogether
  <2>6. ClosedTogether'
    BY <2>1, <2>3, <2>4, <2>5 DEF ClosedTogether
  <2>7. LockInv(procs', Lks) /\ Queues(procs', q')
    BY <2>1, <1>2
  <2> QED
    BY <2>6, <2>7, <1>1, <1>3, <1>4, PlainKeeps
<1>9. CASE qref[e] = 1
  <2>1. q' = Closed(e) /\ procs' = Hungup(procs, e)
    BY <1>1, <1>9
  <2>2. /\ LockInv(procs', Lks) /\ \A r \in Rid : procs'.p[r] = NoProc
    BY <2>1, <1>2, HungupFacts
  <2>3. /\ q' \in [End -> Queue]
        /\ \A i \in End : QueueOK(q'[i]) /\ q'[i].closed = (qref[Other(e)] # 0)
        /\ q'[e].blocks = <<>>
    BY <2>1, <1>2, ClosedFacts
  <2>4. Queues(procs', q')
    <3>1. \A i \in End : procs'.p[Rr(i)] = NoProc /\ procs'.p[Wr(i)] = NoProc
      BY <2>2, NameFacts
    <3>2. \A i \in End : Tended(q'[i], procs'.p[Rr(i)], procs'.p[Wr(i)])
      BY <3>1 DEF Tended
    <3> QED
      BY <3>2, <2>3 DEF Queues
  <2>5. ClosedTogether'
    <3>1. q'[0].closed = q'[1].closed
      BY <2>3, <1>7
    <3>2. qref' = [f \in End |-> 0] => ~q'[0].closed
      <4>1. qref' = [f \in End |-> 0] => qref[Other(e)] = 0
        BY <1>5, <1>7
      <4> QED
        BY <4>1, <2>3, <1>7
    <3>3. \A f \in End : q'[f].closed /\ qref'[f] = 0 => q'[f].blocks = <<>>
      <4> SUFFICES ASSUME NEW f \in End, q'[f].closed, qref'[f] = 0
                   PROVE  q'[f].blocks = <<>>
        OBVIOUS
      <4>1. qref[Other(e)] # 0
        BY <2>3
      <4>2. f = e
        BY <4>1, <1>5, <1>7
      <4> QED
        BY <4>2, <2>3
    <3> QED
      BY <3>1, <3>2, <3>3 DEF ClosedTogether
  <2> QED
    BY <2>2, <2>4, <2>5, <1>1, <1>3, <1>4, PlainKeeps
<1> QED
  BY <1>8, <1>9
-----------------------------------------------------------------------------
(* A new pipe, and every step.                                              *)

\* A new pipe.
LEMMA PipeInit ==
    ASSUME Counted, Init
    PROVE  PipeInv
<1>1. PICK p \in Proc : procs = InitTable(p, Proc \ {p})
  BY DEF Init
<1>2. /\ q = [i \in End |-> NewQueue] /\ open = Inherited
      /\ qref = [e \in End |-> Cardinality({s \in Proc : e \in open[s]})]
      /\ call = [s \in Proc |-> NoCall] /\ at = [s \in Proc |-> NoAt]
  BY DEF Init
<1>3. /\ Sound(procs)
      /\ procs.p = [r \in Rid |-> NoProc]
      /\ procs.lock = [l \in Qlk |-> [locked |-> FALSE, q |-> <<>>]]
  <2>1. Sound(procs)
    BY <1>1, InitSound
  <2> QED
    BY <2>1, <1>1 DEF InitTable
<1>4. \A s \in Proc : Lks[s] = NoLock
  BY <1>2, NoCallFields DEF Lks
<1>5. LockInv(procs, Lks)
  <2>1. Lks \in [Proc -> Qlk \cup {NoLock}]
    <3>1. Lks = [s \in Proc |-> Lks[s]]
      BY DEF Lks
    <3> QED
      BY <3>1, <1>4
  <2>2. \A l \in Qlk : /\ ~procs.lock[l].locked /\ procs.lock[l].q = <<>>
                       /\ \A s \in Proc : Lks[s] # l
    BY <1>3, <1>4, NameFacts, SMT
  <2>3. \A l \in Qlk : procs.lock[l].locked <=>
           \E s \in Proc : Lks[s] = l /\ procs.state[s] # "Queueing"
    BY <2>2
  <2>4. \A s, x \in Proc :
           /\ Lks[s] \in Qlk /\ Lks[s] = Lks[x]
           /\ procs.state[s] # "Queueing" /\ procs.state[x] # "Queueing"
           => s = x
    BY <1>4, NameFacts
  <2>5. \A l \in Qlk : \A k \in DOMAIN procs.lock[l].q : Lks[procs.lock[l].q[k]] = l
    BY <2>2, SMT
  <2>6. \A r \in Rid : procs.p[r] # NoProc => Lks[procs.p[r]] = Guard(r)
    BY <1>3
  <2> QED
    BY <2>1, <2>3, <2>4, <2>5, <2>6, <1>3 DEF LockInv
<1>6. Calls
  <2>1. \A s \in Proc : CallOK(call[s], at[s], open[s])
    BY <1>2, NoCallFields
  <2> QED
    BY <2>1, <1>2 DEF Calls
<1>7. /\ NewQueue \in Queue /\ NewQueue.blocks = <<>> /\ NewQueue.len = 0
      /\ ~NewQueue.closed
  BY SMT DEF NewQueue, Queue
<1>8. QueueOK(NewQueue)
  BY <1>7, AllocatedNone DEF QueueOK
<1>9. Queues(procs, q)
  <2>1. \A i \in End : q[i] = NewQueue /\ procs.p[Rr(i)] = NoProc /\ procs.p[Wr(i)] = NoProc
    BY <1>2, <1>3, NameFacts
  <2>2. \A i \in End : QueueOK(q[i]) /\ Tended(q[i], procs.p[Rr(i)], procs.p[Wr(i)])
    BY <2>1, <1>8 DEF Tended
  <2>3. q \in [End -> Queue]
    BY <1>2, <1>7
  <2> QED
    BY <2>2, <2>3 DEF Queues
<1>10. Opens
  <2>1. open \in [Proc -> SUBSET End]
    BY <1>2, PipeAssumption
  <2> QED
    BY <2>1, <1>2 DEF Opens
<1>11. ClosedTogether
  <2>1. \A i \in End : q[i] = NewQueue
    BY <1>2
  <2>2. 0 \in End /\ 1 \in End
    BY DEF End
  <2> QED
    BY <2>1, <2>2, <1>7 DEF ClosedTogether
<1> QED
  BY <1>5, <1>6, <1>9, <1>10, <1>11 DEF PipeInv

\* Every step keeps the invariant.
LEMMA PipeStep ==
    ASSUME Counted, PipeInv, Next
    PROVE  PipeInv'
<1>1. PICK p \in Proc :
         \/ \E e \in ReadEnds, n \in ReadSizes : Read(p, e, n)
         \/ \E e \in WriteEnds, n \in WriteSizes : Write(p, e, n)
         \/ \E e \in OpenEnds : Open(p, e)
         \/ \E e \in End : Close(p, e)
         \/ \E r \in Proc : Note(p, r)
         \/ TakeNote(p) \/ Preempt(p) \/ NextBlock(p) \/ Entered(p)
  BY DEF Next
<1>2. ASSUME NEW e \in ReadEnds, NEW n \in ReadSizes, Read(p, e, n)
      PROVE  PipeInv'
  <2>1. e \in End /\ n \in Nat
    BY PipeAssumption
  <2> QED
    BY <2>1, <1>2, ReadKeeps
<1>3. ASSUME NEW e \in WriteEnds, NEW n \in WriteSizes, Write(p, e, n)
      PROVE  PipeInv'
  <2>1. e \in End /\ n \in Nat
    BY PipeAssumption
  <2> QED
    BY <2>1, <1>3, WriteKeeps
<1>4. ASSUME NEW e \in OpenEnds, Open(p, e)
      PROVE  PipeInv'
  <2>1. e \in End
    BY PipeAssumption
  <2> QED
    BY <2>1, <1>4, OpenKeeps
<1>5. ASSUME NEW e \in End, Close(p, e)
      PROVE  PipeInv'
  BY <1>5, CloseKeeps
<1>6. ASSUME NEW r \in Proc, Note(p, r)
      PROVE  PipeInv'
  BY <1>6, NoteKeeps
<1>7. TakeNote(p) => PipeInv'
  BY TakeNoteKeeps
<1>8. Preempt(p) => PipeInv'
  BY PreemptKeeps
<1>9. NextBlock(p) => PipeInv'
  BY NextBlockKeeps
<1>10. Entered(p) => PipeInv'
  BY ResumeReadKeeps, ResumeWriteKeeps, RunKeeps DEF Entered
<1> QED
  BY <1>1, <1>2, <1>3, <1>4, <1>5, <1>6, <1>7, <1>8, <1>9, <1>10

-----------------------------------------------------------------------------
(* What the theorems need.                                                  *)

\* Every step keeps the invariant.
LEMMA PipeKept ==
    ASSUME Counted, PipeInv, [Next]_vars
    PROVE  PipeInv'
<1>1. CASE Next
  BY <1>1, PipeStep
<1>2. CASE UNCHANGED vars
  <2>1. UNCHANGED <<procs, q, qref, open, call, at>>
    BY <1>2 DEF vars
  <2>2. Lks' = Lks
    BY <2>1 DEF Lks
  <2> QED
    BY <2>1, <2>2 DEF PipeInv, Calls, Opens, ClosedTogether
<1> QED
  BY <1>1, <1>2

\* The lengths and the wakeups follow from it.
LEMMA FlowFollows ==
    ASSUME Counted, PipeInv
    PROVE  FlowKept
<1>1. /\ LockInv(procs, Lks) /\ Queues(procs, q) /\ Opens
      /\ \A p \in Proc : CallOK(call[p], at[p], open[p])
  BY DEF PipeInv, Calls
<1>2. procs \in Table
  BY <1>1 DEF LockInv, Sound
<1>3. q \in [End -> Queue] /\ open \in [Proc -> SUBSET End]
  BY <1>1 DEF Queues, Opens
<1>4. qref \in [End -> Nat]
  <2> SUFFICES ASSUME NEW e \in End PROVE Cardinality({p \in Proc : e \in open[p]}) \in Nat
    BY <1>1 DEF Opens
  <2>1. PICK S : S = {p \in Proc : e \in open[p]}
    OBVIOUS
  <2>2. S \in SUBSET Proc
    BY <2>1
  <2> QED
    BY <2>1, <2>2, OpensNumber
<1>5. \A p \in Proc : call[p].op = "none" <=> at[p].k = "None"
  <2> SUFFICES ASSUME NEW p \in Proc PROVE call[p].op = "none" <=> at[p].k = "None"
    OBVIOUS
  <2>1. CASE call[p] = NoCall /\ at[p] = NoAt
    BY <2>1, SMTT(30) DEF NoCall, NoAt
  <2>2. CASE IsRead(call[p], open[p]) /\ \E s \in BOOLEAN : at[p] = AtRead(s)
    <3>1. call[p].op = "read"
      BY <2>2, ReadFields
    <3>2. at[p].k = "Read"
      BY <2>2, SMTT(30) DEF AtRead
    <3> QED
      BY <3>1, <3>2
  <2>3. CASE IsWrite(call[p], open[p])
             /\ \E d \in Nat, s \in BOOLEAN :
                   at[p] \in {AtWlock(d), AtFlow(d, s), AtLoop(d)}
    <3>1. call[p].op = "write"
      BY <2>3, WriteFields
    <3>2. at[p].k \in {"Wlock", "Flow", "Loop"}
      BY <2>3, SMTT(30) DEF AtWlock, AtFlow, AtLoop
    <3> QED
      BY <3>1, <3>2
  <2> QED
    BY <2>1, <2>2, <2>3, <1>1 DEF CallOK
<1>6. TypeOK
  BY <1>2, <1>3, <1>4, <1>5 DEF TypeOK
<1>7. LenIsSum /\ NoLostWakeup
  BY <1>1 DEF Queues, QueueOK, Tended, LenIsSum, NoLostWakeup
<1> QED
  BY <1>6, <1>7 DEF FlowKept

\* And so do the locks.
LEMMA LocksFollow ==
    ASSUME PipeInv
    PROVE  LockOfOneCall
<1>1. ASSUME NEW p \in Proc, NEW i \in End
      PROVE  /\ InRead(p, i) <=> Lks[p] = Rlock(i) /\ procs.state[p] # "Queueing"
             /\ InBlock(p, i) <=> Lks[p] = Wlock(i) /\ procs.state[p] # "Queueing"
  <2>1. Lks[p] = Lk(call[p], at[p])
    BY DEF Lks
  <2> QED
    BY <2>1, SMTT(30) DEF InRead, InBlock, Lk, Rlock, Wlock, NoLock
<1>2. /\ \A l \in Qlk : procs.lock[l].locked <=>
            \E p \in Proc : Lks[p] = l /\ procs.state[p] # "Queueing"
      /\ \A p, s \in Proc :
            /\ Lks[p] \in Qlk /\ Lks[p] = Lks[s]
            /\ procs.state[p] # "Queueing" /\ procs.state[s] # "Queueing"
            => p = s
  BY DEF PipeInv, LockInv
<1>3. \A i \in End : Rlock(i) \in Qlk /\ Wlock(i) \in Qlk
  BY NameFacts
<1>4. ASSUME NEW i \in End
      PROVE  /\ procs.lock[Rlock(i)].locked <=> \E p \in Proc : InRead(p, i)
             /\ procs.lock[Wlock(i)].locked <=> \E p \in Proc : InBlock(p, i)
  BY <1>1, <1>2, <1>3
<1>5. ASSUME NEW i \in End
      PROVE  /\ \A p, r \in Proc : InRead(p, i) /\ InRead(r, i) => p = r
             /\ \A p, r \in Proc : InBlock(p, i) /\ InBlock(r, i) => p = r
  BY <1>1, <1>2, <1>3, SMTT(30)
<1> QED
  BY <1>4, <1>5 DEF LockOfOneCall

-----------------------------------------------------------------------------
(* The cardinalities.                                                       *)
INSTANCE FiniteSetTheorems

\* One block's share.
LEMMA ShareFacts ==
    ASSUME NEW k, NEW n \in Nat
    PROVE  IsFiniteSet(Share(k, n)) /\ Cardinality(Share(k, n)) = n
<1>1. IsFiniteSet({k}) /\ Cardinality({k}) = 1
  BY FS_Singleton
<1>2. IsFiniteSet(1 .. n) /\ Cardinality(1 .. n) = n
  BY FS_Interval, SMTT(30)
<1> HIDE DEF Cardinality, IsFiniteSet
<1>3. /\ IsFiniteSet(Share(k, n))
      /\ Cardinality(Share(k, n)) = Cardinality({k}) * Cardinality(1 .. n)
  BY <1>1, <1>2, FS_Product DEF Share
<1>4. n \in Int /\ 1 * n = n
  BY SMTT(30)
<1> QED
  BY <1>1, <1>2, <1>3, <1>4

\* No blocks.
LEMMA NoneCounted ==
    IsFiniteSet(Allocated(<<>>)) /\ Cardinality(Allocated(<<>>)) = 0
<1>1. Allocated(<<>>) = {}
  BY SMTT(30) DEF Allocated
<1> QED
  BY <1>1, FS_EmptySet

\* One more block.
LEMMA AppendCounted ==
    ASSUME NEW bs \in Seq(Block), NEW b \in Block, IsFiniteSet(Allocated(bs))
    PROVE  /\ IsFiniteSet(Allocated(Append(bs, b)))
           /\ Cardinality(Allocated(Append(bs, b))) =
                 Cardinality(Allocated(bs)) + b.alloc
<1>1. PICK A, C : A = Allocated(bs) /\ C = Share(Len(bs) + 1, b.alloc)
  OBVIOUS
<1>2. b.alloc \in Nat /\ Allocated(Append(bs, b)) = A \cup C /\ A \cap C = {}
  BY <1>1, AppendShares
<1>3. IsFiniteSet(C) /\ Cardinality(C) = b.alloc
  BY <1>1, <1>2, ShareFacts
<1>4. IsFiniteSet(A) /\ Cardinality(A) \in Nat
  BY <1>1, FS_CardinalityType
<1>5. /\ IsFiniteSet(A \cup C)
      /\ Cardinality(A \cup C) = Cardinality(A) + Cardinality(C) - Cardinality(A \cap C)
  BY <1>3, <1>4, FS_Union
<1>6. Cardinality(A \cap C) = 0
  BY <1>2, FS_EmptySet
<1>7. Cardinality(A \cup C) = Cardinality(A) + b.alloc
  BY <1>2, <1>3, <1>4, <1>5, <1>6, SMTT(30)
<1> QED
  BY <1>1, <1>2, <1>5, <1>7

\* One block less.
LEMMA TailCounted ==
    ASSUME NEW bs \in Seq(Block), bs # <<>>, IsFiniteSet(Allocated(bs))
    PROVE  /\ IsFiniteSet(Allocated(Tail(bs)))
           /\ Head(bs).alloc \in Nat
           /\ Cardinality(Allocated(Tail(bs))) \in Nat
           /\ Cardinality(Allocated(bs)) =
                 Cardinality(Allocated(Tail(bs))) + Head(bs).alloc
<1>1. PICK A, B, C : /\ A = Allocated(bs) /\ B = Allocated(Tail(bs))
                     /\ C = Share(1, Head(bs).alloc)
  OBVIOUS
<1>2. /\ Head(bs).alloc \in Nat /\ A \cap C = C
      /\ \E f : OneToOne(f, A \ C, B)
  BY <1>1, TailShares
<1>3. IsFiniteSet(C) /\ Cardinality(C) = Head(bs).alloc
  BY <1>1, <1>2, ShareFacts
<1>4. ExistsBijection(A \ C, B)
  <2>1. PICK D : D = A \ C
    OBVIOUS
  <2>2. PICK f : OneToOne(f, D, B)
    BY <1>2, <2>1
  <2>3. f \in Bijection(D, B)
    BY <2>2 DEF OneToOne, Bijection, Injection, Surjection, IsInjective
  <2> QED
    BY <2>1, <2>3 DEF ExistsBijection
<1>5. IsFiniteSet(A) /\ Cardinality(A) \in Nat
  BY <1>1, FS_CardinalityType
<1>6. IsFiniteSet(A \ C) /\ Cardinality(A \ C) = Cardinality(A) - Cardinality(C)
  BY <1>2, <1>5, FS_Difference
<1>7. IsFiniteSet(B) /\ Cardinality(B) = Cardinality(A \ C)
  BY <1>4, <1>6, FS_Bijection
<1>8. Cardinality(B) \in Nat
  BY <1>7, FS_CardinalityType
<1>9. Cardinality(A) = Cardinality(B) + Head(bs).alloc
  BY <1>2, <1>3, <1>5, <1>6, <1>7, <1>8, SMTT(30)
<1> QED
  BY <1>1, <1>2, <1>7, <1>8, <1>9

\* The processes are finitely many.
LEMMA ProcsCounted ==
    ASSUME NEW S \in SUBSET Proc
    PROVE  /\ Cardinality(S) \in Nat
           /\ Cardinality(S) = 0 => S = {}
           /\ \A p \in Proc :
                 /\ p \notin S => Cardinality(S \cup {p}) = Cardinality(S) + 1
                 /\ p \in S => Cardinality(S \ {p}) = Cardinality(S) - 1
<1>1. IsFiniteSet(S)
  BY PipeAssumption, FS_Subset
<1>2. Cardinality(S) \in Nat /\ (Cardinality(S) = 0 => S = {})
  BY <1>1, FS_CardinalityType, FS_EmptySet
<1>3. ASSUME NEW p \in Proc, p \notin S
      PROVE  Cardinality(S \cup {p}) = Cardinality(S) + 1
  BY <1>1, <1>3, FS_AddElement
<1>4. ASSUME NEW p \in Proc, p \in S
      PROVE  Cardinality(S \ {p}) = Cardinality(S) - 1
  BY <1>1, <1>4, FS_RemoveElement
<1> QED
  BY <1>2, <1>3, <1>4

\* And so the lemmas hold.
LEMMA CountedHolds == Counted
BY NoneCounted, AppendCounted, TailCounted, ProcsCounted DEF Counted
-----------------------------------------------------------------------------
(* The theorems.                                                            *)

\* The locks, the calls, the lengths and the wakeups of qread, qwrite and
\* pipeclose keep each other true.
THEOREM PipeInvariant == Spec => []PipeInv
<1>1. Init => PipeInv
  BY PipeInit, CountedHolds
<1>2. PipeInv /\ [Next]_vars => PipeInv'
  BY PipeKept, CountedHolds
<1> QED
  BY <1>1, <1>2, PTL DEF Spec

\* FlowKept: q->len is the sum of its blocks' allocations, and nobody sleeps on
\* a queue that will not wake it.
THEOREM PipeFlowKept == Spec => []FlowKept
<1>1. PipeInv => FlowKept
  BY FlowFollows, CountedHolds
<1> QED
  BY <1>1, PipeInvariant, PTL

\* LockOfOneCall: a lock is taken exactly when one call has it.
THEOREM PipeLocksKept == Spec => []LockOfOneCall
<1>1. PipeInv => LockOfOneCall
  BY LocksFollow
<1> QED
  BY <1>1, PipeInvariant, PTL

\* ClosedTogether: the two queues hang up and reopen together.
THEOREM PipeClosesTogether == Spec => []ClosedTogether
<1>1. PipeInv => ClosedTogether
  BY DEF PipeInv
<1> QED
  BY <1>1, PipeInvariant, PTL
=============================================================================
