---------------------------- MODULE QLocksProofs ----------------------------
(***************************************************************************)
(* libc's queueing locks exclude, never reach an abort() and hand over to   *)
(* the right process, for any number of processes and of notes and as long  *)
(* as no canqlock finds its lock's Lock taken (astray): the                 *)
(* inductive invariant, each section under a lock's Lock, the rendezvous,   *)
(* and the theorems.                                                        *)
(*                                                                         *)
(* A lock belongs to who holds it, and also to who has been taken off its   *)
(* list and not been met yet (Chosen).  The argument is that a rendezvous   *)
(* on a QLp's address is only ever between the process that waits on it and *)
(* the one that took it off the list, so that a wait ends for a process     *)
(* that is Chosen and for no other, however notes break the calls.          *)
(*                                                                         *)
(* What the proofs need of the number of readers is Counted, which the      *)
(* lemmas assume; it is proved at the end, where the library's theorems     *)
(* about finite sets come in, so that no other proof has them around.       *)
(***************************************************************************)
EXTENDS QLocks, TLAPS

\* The prover of every step that names no other.
USE ZenonT(40)

Waiting == {"waitq", "waitr", "waitw"}

\* p waits on its QLp and has been taken off the lists: the lock is its own.
Listed(z) == z \in Range(q.list) \cup Range(r)
Chosen(p) == mp[p] # None /\ ~Listed(mp[p])

\* Whose the lock is, as a QLock, for reading and for writing.
HasQ(p) == pc[p] = "qlock" \/ (Chosen(p) /\ pc[p] \in {"waitq", "wake"})
HasR(p) == pc[p] = "rlock" \/ (Chosen(p) /\ pc[p] = "waitr")
HasW(p) == pc[p] = "wlock" \/ (Chosen(p) /\ pc[p] = "waitw")

Readers == {p \in Proc : HasR(p)}

Distinct(s) == \A i, j \in DOMAIN s : s[i] = s[j] => i = j

\* TypeOK, but for the bound on the readers.
Types ==
    /\ RendTypeOK
    /\ kind \in {"QLock", "RWLock"}
    /\ q \in [locked : BOOLEAN, readers : Nat, writer : BOOLEAN, list : Seq(QLp)]
    /\ r \in Seq(QLp)
    /\ locker \in Proc \cup {NoProc}
    /\ inuse \subseteq QLp
    /\ state \in [QLp -> {"Queuing", "QueuingR", "QueuingW", "Sleeping"}]
    /\ pc \in [Proc -> Pc]
    /\ mp \in [Proc -> QLp \cup {None}]
    /\ tgt \in [Proc -> QLp \cup {None}]

\* The rendezvous group: who is in it brings its part of a hand-over, with the
\* QLp's address; who was met has been left the other's part.
Part(p) == IF pc[p] = "wake" THEN "waker" ELSE "waiter"
Counterpart(p) == IF pc[p] = "wake" THEN "waiter" ELSE "waker"
With(p) == IF pc[p] = "wake" THEN tgt[p] ELSE mp[p]

GroupInv ==
    /\ procs.up = NoProc
    /\ \A p \in Proc : procs.state[p] \in {"Ready", "Rendezvous"}
    /\ NonePassedBy
    /\ \A p \in Range(rgrp) : rendtag[p] # NoTag /\ rendval[p] = Part(p)
    /\ \A p \in Proc : rendtag[p] # NoTag =>
          /\ pc[p] \in Waiting \cup {"wake"}
          /\ rendtag[p] = With(p)
          /\ procs.state[p] = "Ready" => rendval[p] \in {Broken0, Counterpart(p)}

\* The QLps: each is of one process and at one place of one list at most.
ChainInv ==
    /\ Distinct(q.list) /\ Distinct(r)
    /\ \A z \in Range(q.list) : z \notin Range(r)
    /\ \A z \in QLp : Listed(z) => z \in inuse
    /\ \A z \in QLp : z \in inuse <=> \E p \in Proc : mp[p] = z
    /\ \A p, s \in Proc : mp[p] = mp[s] /\ mp[p] # None => p = s
    /\ \A p \in Proc : mp[p] # None => pc[p] \in Waiting \cup {"wake"}
    /\ \A p \in Proc : pc[p] \in Waiting => mp[p] # None
    /\ \A p \in Proc : tgt[p] # None <=> pc[p] = "wake"

\* p waits and has been left the waker's part.
Found(p) == rendtag[p] # NoTag /\ rendval[p] = "waker" /\ pc[p] # "wake"

\* Who is still to be met is Chosen and not Found, and has one waker.
WakeInv ==
    /\ \A p \in Proc : Found(p) => Chosen(p)
    /\ \A p, s \in Proc : Waking(p) /\ Waking(s) /\ tgt[p] = tgt[s] => p = s
    /\ \A p \in Proc : Waking(p) =>
          \E s \in Proc : s # p /\ mp[s] = tgt[p] /\ Chosen(s) /\ ~Found(s)

\* A QLock is one process's.
QLockInv ==
    kind = "QLock" =>
       /\ \A p \in Proc : pc[p] \in {"out", "qlock", "waitq", "wake"}
       /\ q.readers = 0 /\ ~q.writer /\ locker = NoProc
       /\ \A p, s \in Proc : HasQ(p) /\ HasQ(s) => p = s
       /\ \A p \in Proc : HasQ(p) => q.locked
       /\ q.list # <<>> => q.locked

\* An RWLock is one writer's, or it is the readers' that are counted; while a
\* writer lets readers in (locker) it is nobody else's.
RWPcs == {"out", "rlock", "wlock", "waitr", "waitw", "wake", "loop"}

ReaderFirst == q.list # <<>> /\ state[Head(q.list)] = "QueuingR"

RWLockInv ==
    kind = "RWLock" =>
       /\ \A p \in Proc : pc[p] \in RWPcs
       /\ ~q.locked /\ r = <<>>
       /\ \A p \in Proc : mp[p] # None =>
             /\ pc[p] # "wake"
             /\ state[mp[p]] = IF pc[p] = "waitr" THEN "QueuingR" ELSE "QueuingW"
       /\ \A p \in Proc : HasW(p) => q.writer /\ locker = NoProc
       /\ \A p, s \in Proc : HasW(p) => ~HasR(s) /\ (HasW(s) => s = p)
       /\ locker # NoProc => q.writer /\ pc[locker] \in {"loop", "wake"}
       /\ \A p \in Proc : pc[p] = "loop" => locker = p
       /\ q.readers = Cardinality(Readers)
       /\ locker = NoProc /\ q.readers > 0 => ~q.writer /\ ~ReaderFirst
       /\ locker # NoProc => q.readers > 0 \/ (pc[locker] = "loop" /\ ReaderFirst)
       /\ q.list # <<>> => q.writer \/ q.readers > 0

QLocksInv == Types /\ GroupInv /\ ChainInv /\ WakeInv /\ QLockInv /\ RWLockInv
-----------------------------------------------------------------------------
(* Sequences without repetition.                                            *)

\* A queue with one more at its end.
LEMMA AppendFacts ==
  ASSUME NEW S, NEW s \in Seq(S), NEW e \in S
  PROVE  /\ Append(s, e) \in Seq(S)
         /\ Range(Append(s, e)) = Range(s) \cup {e}
         /\ Distinct(s) /\ e \notin Range(s) => Distinct(Append(s, e))
         /\ Append(s, e) # <<>>
         /\ Head(Append(s, e)) = IF s = <<>> THEN e ELSE Head(s)
<1>1. /\ Append(s, e) \in Seq(S) /\ DOMAIN Append(s, e) = 1..(Len(s) + 1)
      /\ \A i \in 1..Len(s) : Append(s, e)[i] = s[i]
      /\ Append(s, e)[Len(s) + 1] = e
      /\ DOMAIN s = 1..Len(s) /\ Len(s) \in Nat
  BY SMT
<1>2. Range(Append(s, e)) \subseteq Range(s) \cup {e}
  BY <1>1, SMT DEF Range
<1>3. Range(s) \cup {e} \subseteq Range(Append(s, e))
  BY <1>1, SMT DEF Range
<1>4. Distinct(s) /\ e \notin Range(s) => Distinct(Append(s, e))
  BY <1>1, SMT DEF Range, Distinct
<1> QED
  BY <1>1, <1>2, <1>3, <1>4, SMT

\* A queue without its first.
LEMMA TailFacts ==
  ASSUME NEW S, NEW s \in Seq(S), s # <<>>, Distinct(s)
  PROVE  /\ Tail(s) \in Seq(S) /\ Head(s) \in S
         /\ Range(Tail(s)) = Range(s) \ {Head(s)}
         /\ Head(s) \in Range(s)
         /\ Distinct(Tail(s))
<1>1. /\ Tail(s) \in Seq(S) /\ DOMAIN Tail(s) = 1..(Len(s) - 1)
      /\ \A i \in 1..(Len(s) - 1) : Tail(s)[i] = s[i + 1]
      /\ Head(s) = s[1]
      /\ DOMAIN s = 1..Len(s) /\ Len(s) \in Nat /\ Len(s) > 0
  BY SMT
<1>2. Head(s) \in S /\ Head(s) \in Range(s)
  BY <1>1, SMT DEF Range
<1>3. Range(Tail(s)) \subseteq Range(s) \ {Head(s)}
  BY <1>1, SMT DEF Range, Distinct
<1>4. Range(s) \ {Head(s)} \subseteq Range(Tail(s))
  <2> SUFFICES ASSUME NEW i \in 1..Len(s), s[i] # Head(s)
               PROVE  s[i] \in Range(Tail(s))
    BY <1>1 DEF Range
  <2>1. i - 1 \in 1..(Len(s) - 1) /\ Tail(s)[i - 1] = s[i]
    BY <1>1, SMT
  <2> QED
    BY <2>1, <1>1 DEF Range
<1>5. Distinct(Tail(s))
  <2> SUFFICES ASSUME NEW i \in 1..(Len(s) - 1), NEW j \in 1..(Len(s) - 1),
                      s[i + 1] = s[j + 1]
               PROVE  i = j
    BY <1>1 DEF Distinct
  <2>1. i + 1 = j + 1
    BY <1>1, SMT DEF Distinct
  <2> QED
    BY <2>1, SMT
<1> QED
  BY <1>1, <1>2, <1>3, <1>4, <1>5

\* A queue's first put in front of another's: rwakeup's move of a sleeper.
LEMMA FrontFacts ==
  ASSUME NEW S, NEW s \in Seq(S), NEW e \in S
  PROVE  /\ <<e>> \o s \in Seq(S)
         /\ Range(<<e>> \o s) = Range(s) \cup {e}
         /\ Distinct(s) /\ e \notin Range(s) => Distinct(<<e>> \o s)
<1>1. /\ <<e>> \o s \in Seq(S) /\ DOMAIN (<<e>> \o s) = 1..(Len(s) + 1)
      /\ \A i \in 1..Len(s) : (<<e>> \o s)[i + 1] = s[i]
      /\ (<<e>> \o s)[1] = e
      /\ DOMAIN s = 1..Len(s) /\ Len(s) \in Nat
  BY SMT
<1>a. \A i \in 1..(Len(s) + 1) : i = 1 \/ (i - 1 \in 1..Len(s) /\ (<<e>> \o s)[i] = s[i - 1])
  BY <1>1, SMT
<1>2. Range(<<e>> \o s) \subseteq Range(s) \cup {e}
  BY <1>1, <1>a, SMT DEF Range
<1>3. Range(s) \cup {e} \subseteq Range(<<e>> \o s)
  <2>1. e \in Range(<<e>> \o s)
    BY <1>1, SMT DEF Range
  <2>2. ASSUME NEW i \in 1..Len(s) PROVE s[i] \in Range(<<e>> \o s)
    <3>1. i + 1 \in 1..(Len(s) + 1)
      BY <1>1, SMT
    <3> QED
      BY <3>1, <1>1 DEF Range
  <2> QED
    BY <2>1, <2>2, <1>1 DEF Range
<1>4. ASSUME Distinct(s), e \notin Range(s) PROVE Distinct(<<e>> \o s)
  <2> SUFFICES ASSUME NEW i \in 1..(Len(s) + 1), NEW j \in 1..(Len(s) + 1),
                      (<<e>> \o s)[i] = (<<e>> \o s)[j]
               PROVE  i = j
    BY <1>1 DEF Distinct
  <2>1. \A k \in 1..Len(s) : s[k] # e
    BY <1>4, <1>1 DEF Range
  <2>2. CASE i = 1 \/ j = 1
    BY <2>1, <2>2, <1>1, <1>a, SMT
  <2>3. CASE i # 1 /\ j # 1
    <3>1. s[i - 1] = s[j - 1] /\ i - 1 \in DOMAIN s /\ j - 1 \in DOMAIN s
      BY <2>3, <1>1, <1>a
    <3>2. i - 1 = j - 1
      BY <3>1, <1>4 DEF Distinct
    <3> QED
      BY <3>2, SMT
  <2> QED
    BY <2>2, <2>3
<1> QED
  BY <1>1, <1>2, <1>3, <1>4

\* The rendezvous group without one of its processes.
LEMMA DeleteAtFacts ==
  ASSUME NEW S, NEW s \in Seq(S), NEW i \in DOMAIN s, Distinct(s)
  PROVE  /\ DeleteAt(s, i) \in Seq(S)
         /\ Range(DeleteAt(s, i)) = Range(s) \ {s[i]}
         /\ Distinct(DeleteAt(s, i))
<1>1. Len(s) \in Nat /\ DOMAIN s = 1..Len(s) /\ i \in 1..Len(s) /\ \A j \in 1..Len(s) : s[j] \in S
  BY SMT
<1>u. PICK u : u = DeleteAt(s, i)
  OBVIOUS
<1>2. /\ u = [j \in 1..(Len(s) - 1) |-> IF j < i THEN s[j] ELSE s[j + 1]]
      /\ DOMAIN u = 1..(Len(s) - 1) /\ Len(s) - 1 \in Nat
  BY <1>1, <1>u, SMT DEF DeleteAt
<1>3. u \in Seq(S)
  <2>1. \A j \in 1..(Len(s) - 1) : u[j] \in S
    BY <1>1, <1>2, SMT
  <2> QED
    BY <1>2, <2>1, SMT
<1>5. \A j \in DOMAIN u : \E k \in DOMAIN s : k # i /\ u[j] = s[k] /\ k = IF j < i THEN j ELSE j + 1
  BY <1>1, <1>2, SMT
<1>6. Range(u) \subseteq Range(s) \ {s[i]}
  BY <1>5, SMT DEF Range, Distinct
<1>7. Range(s) \ {s[i]} \subseteq Range(u)
  <2> SUFFICES ASSUME NEW k \in 1..Len(s), k # i PROVE s[k] \in Range(u)
    BY <1>1 DEF Range
  <2>1. CASE k < i
    <3>1. k \in DOMAIN u /\ u[k] = s[k]
      BY <2>1, <1>1, <1>2, SMT
    <3> QED
      BY <3>1 DEF Range
  <2>2. CASE ~(k < i)
    <3>1. k - 1 \in DOMAIN u /\ u[k - 1] = s[k]
      BY <2>2, <1>1, <1>2, SMT
    <3> QED
      BY <3>1 DEF Range
  <2> QED
    BY <2>1, <2>2
<1>8. Distinct(u)
  <2> SUFFICES ASSUME NEW j \in DOMAIN u, NEW k \in DOMAIN u, u[j] = u[k] PROVE j = k
    BY DEF Distinct
  <2>1. (IF j < i THEN j ELSE j + 1) = (IF k < i THEN k ELSE k + 1)
    BY <1>5 DEF Distinct
  <2>2. j \in Nat /\ k \in Nat /\ i \in Nat
    BY <1>1, <1>2, SMT
  <2> QED
    BY <2>1, <2>2, SMT
<1> QED
  BY <1>3, <1>6, <1>7, <1>8, <1>u
-----------------------------------------------------------------------------
(* What a section under q's Lock does to the group, the chains and the      *)
(* hand-overs: p is in no call, waits on nothing and wakes nobody before.   *)

Busy == Waiting \cup {"wake"}

\* Who is in no call waits on nothing and wakes nobody.
LEMMA NotBusy ==
  ASSUME QLocksInv, NEW p \in Proc, pc[p] \notin Busy
  PROVE  rendtag[p] = NoTag /\ mp[p] = None /\ tgt[p] = None
BY DEF QLocksInv, GroupInv, ChainInv, Busy

\* The group is about the calls in progress, and p is in none.
LEMMA GroupKept ==
  ASSUME Types, GroupInv, NEW p \in Proc, rendtag[p] = NoTag,
         UNCHANGED rendvars,
         \A s \in Proc \ {p} : pc'[s] = pc[s] /\ mp'[s] = mp[s] /\ tgt'[s] = tgt[s]
  PROVE  GroupInv'
<1>1. UNCHANGED <<procs, rgrp, rendtag, rendval>>
  BY DEF rendvars
<1>2. \A s \in Proc : s \in Range(rgrp) => s # p
  BY DEF GroupInv
<1>3. \A s \in Range(rgrp) : s \in Proc
  BY SMT DEF Types, RendTypeOK, Range
<1>4. \A s \in Proc \ {p} : /\ Part(s)' = Part(s) /\ Counterpart(s)' = Counterpart(s)
                            /\ With(s)' = With(s)
  BY DEF Part, Counterpart, With
<1>5. NonePassedBy'
  BY <1>1 DEF GroupInv, NonePassedBy
<1>6. \A s \in Range(rgrp') : rendtag'[s] # NoTag /\ rendval'[s] = Part(s)'
  BY <1>1, <1>2, <1>3, <1>4, SMT DEF GroupInv
<1>7. ASSUME NEW s \in Proc, rendtag'[s] # NoTag
      PROVE  /\ pc'[s] \in Waiting \cup {"wake"}
             /\ rendtag'[s] = With(s)'
             /\ procs'.state[s] = "Ready" => rendval'[s] \in {Broken0, Counterpart(s)'}
  BY <1>1, <1>4, <1>7 DEF GroupInv
<1> QED
  BY <1>1, <1>5, <1>6, <1>7 DEF GroupInv

\* The lists and who waits on what are left alone.
LEMMA PlainKept ==
  ASSUME QLocksInv, NEW p \in Proc, pc[p] \notin Busy, NEW l \in Pc \ Busy,
         pc' = [pc EXCEPT ![p] = l], q'.list = q.list,
         UNCHANGED <<rendvars, r, inuse, mp, tgt>>
  PROVE  /\ GroupInv' /\ ChainInv' /\ WakeInv'
         /\ \A s \in Proc : Chosen(s)' = Chosen(s)
<1>1. /\ UNCHANGED <<rendvars, rendtag, rendval, r, inuse, mp, tgt>>
      /\ pc'[p] = l /\ pc'[p] \notin Busy /\ \A s \in Proc \ {p} : pc'[s] = pc[s]
  BY DEF QLocksInv, Types, rendvars
<1>2. GroupInv'
  BY <1>1, NotBusy, GroupKept DEF QLocksInv
<1>3. \A z : Listed(z)' = Listed(z)
  BY <1>1 DEF Listed
<1>4. \A s \in Proc : Chosen(s)' = Chosen(s)
  BY <1>1, <1>3 DEF Chosen
<1>5. ChainInv'
  BY <1>1, <1>3, SMT DEF QLocksInv, ChainInv, Busy
<1>6. \A s \in Proc : Found(s)' = Found(s) /\ Waking(s)' = Waking(s)
  BY <1>1, NotBusy DEF Found, Waking
<1>7. WakeInv'
  BY <1>1, <1>4, <1>6, SMT DEF QLocksInv, WakeInv
<1> QED
  BY <1>2, <1>4, <1>5, <1>7

\* p takes a QLp and chains it into the lock's list.
LEMMA EnqueueKept ==
  ASSUME QLocksInv, NEW p \in Proc, pc[p] \notin Busy, NEW l \in Waiting, NEW z \in QLp,
         NEW st, Getqlp(p, z, st),
         pc' = [pc EXCEPT ![p] = l], q'.list = Append(q.list, z),
         UNCHANGED <<rendvars, r, tgt>>
  PROVE  /\ GroupInv' /\ ChainInv' /\ WakeInv'
         /\ \A s \in Proc : Chosen(s)' = Chosen(s)
<1>1. /\ UNCHANGED <<rendvars, rendtag, rendval, r, tgt>>
      /\ pc'[p] = l /\ \A s \in Proc \ {p} : pc'[s] = pc[s]
      /\ mp'[p] = z /\ \A s \in Proc \ {p} : mp'[s] = mp[s]
      /\ z \notin inuse /\ inuse' = inuse \cup {z} /\ z # None
      /\ mp[p] = None /\ tgt[p] = None /\ rendtag[p] = NoTag
  BY NotBusy, QLocksAssumption DEF QLocksInv, Types, rendvars, Getqlp
<1>2. GroupInv'
  BY <1>1, GroupKept DEF QLocksInv
<1>3. /\ Range(q'.list) = Range(q.list) \cup {z} /\ z \notin Range(q.list) /\ z \notin Range(r)
      /\ Distinct(q'.list)
  BY <1>1, AppendFacts, SMT DEF QLocksInv, Types, ChainInv, Listed
<1>4. \A x : Listed(x)' <=> Listed(x) \/ x = z
  BY <1>1, <1>3 DEF Listed
<1>5. \A s \in Proc \ {p} : mp[s] # z
  BY <1>1 DEF QLocksInv, ChainInv
<1>6. \A s \in Proc : Chosen(s)' = Chosen(s)
  BY <1>1, <1>4, <1>5 DEF Chosen
<1>7. ChainInv'
  <2>1. Distinct(q'.list) /\ Distinct(r') /\ \A x \in Range(q'.list) : x \notin Range(r')
    BY <1>1, <1>3 DEF QLocksInv, ChainInv
  <2>2. \A x \in QLp : Listed(x)' => x \in inuse'
    BY <1>1, <1>4 DEF QLocksInv, ChainInv
  <2>3. \A x \in QLp : x \in inuse' <=> \E s \in Proc : mp'[s] = x
    BY <1>1, QLocksAssumption, SMTT(30) DEF QLocksInv, ChainInv
  <2>4. \A s, u \in Proc : mp'[s] = mp'[u] /\ mp'[s] # None => s = u
    BY <1>1, <1>5, SMTT(30) DEF QLocksInv, ChainInv
  <2>5. /\ \A s \in Proc : mp'[s] # None => pc'[s] \in Waiting \cup {"wake"}
        /\ \A s \in Proc : pc'[s] \in Waiting => mp'[s] # None
        /\ \A s \in Proc : tgt'[s] # None <=> pc'[s] = "wake"
    BY <1>1, SMT DEF QLocksInv, ChainInv, Waiting
  <2> QED
    BY <2>1, <2>2, <2>3, <2>4, <2>5 DEF ChainInv
<1>8. \A s \in Proc : Found(s)' = Found(s) /\ Waking(s)' = Waking(s)
  BY <1>1 DEF Found, Waking
<1>9. WakeInv'
  <2>1. ASSUME NEW s \in Proc, Waking(s)'
        PROVE  \E u \in Proc : u # s /\ mp'[u] = tgt'[s] /\ Chosen(u)' /\ ~Found(u)'
    <3>1. PICK u \in Proc : u # s /\ mp[u] = tgt[s] /\ Chosen(u) /\ ~Found(u)
      BY <1>8, <2>1 DEF QLocksInv, WakeInv
    <3>2. u # p
      BY <3>1, <1>1 DEF Chosen
    <3> QED
      BY <3>1, <3>2, <1>1, <1>6, <1>8
  <2> QED
    BY <1>1, <1>6, <1>8, <2>1, SMT DEF QLocksInv, WakeInv
<1> QED
  BY <1>2, <1>6, <1>7, <1>9

\* p takes the first QLp off the lock's list, to wake who waits on it.
LEMMA HandKept ==
  ASSUME QLocksInv, NEW p \in Proc, pc[p] \notin Busy,
         q.list # <<>>, q'.list = Tail(q.list),
         tgt' = [tgt EXCEPT ![p] = Head(q.list)], pc' = [pc EXCEPT ![p] = "wake"],
         UNCHANGED <<rendvars, r, inuse, mp>>
  PROVE  /\ GroupInv' /\ ChainInv' /\ WakeInv'
         /\ \E s \in Proc \ {p} :
               /\ mp[s] = Head(q.list) /\ ~Chosen(s)
               /\ \A u \in Proc : Chosen(u)' <=> Chosen(u) \/ u = s
<1> DEFINE z == Head(q.list)
<1>0. /\ z \in QLp /\ z \in Range(q.list) /\ Range(q'.list) = Range(q.list) \ {z}
      /\ Distinct(q'.list)
  BY TailFacts, SMT DEF QLocksInv, Types, ChainInv
<1> HIDE DEF z
<1>1. /\ UNCHANGED <<rendvars, rendtag, rendval, r, inuse, mp>>
      /\ pc'[p] = "wake" /\ \A s \in Proc \ {p} : pc'[s] = pc[s]
      /\ tgt'[p] = z /\ \A s \in Proc \ {p} : tgt'[s] = tgt[s]
      /\ z # None
      /\ mp[p] = None /\ tgt[p] = None /\ rendtag[p] = NoTag
  BY <1>0, NotBusy, QLocksAssumption DEF QLocksInv, Types, rendvars, z
<1>2. GroupInv'
  BY <1>1, GroupKept DEF QLocksInv
<1>3. z \notin Range(r) /\ Listed(z) /\ z \in inuse
  BY <1>0 DEF QLocksInv, ChainInv, Listed
<1>4. \A x : Listed(x)' <=> Listed(x) /\ x # z
  BY <1>0, <1>1, <1>3 DEF Listed
<1>5. PICK s \in Proc : mp[s] = z
  BY <1>0, <1>3 DEF QLocksInv, ChainInv
<1>6. s # p /\ ~Chosen(s) /\ ~Found(s)
  BY <1>1, <1>3, <1>5 DEF Chosen, QLocksInv, WakeInv
<1>7. \A u \in Proc : mp[u] = z => u = s
  BY <1>1, <1>5, SMT DEF QLocksInv, ChainInv
<1>8. \A u \in Proc : Chosen(u)' <=> Chosen(u) \/ u = s
  BY <1>1, <1>4, <1>5, <1>7 DEF Chosen
<1>9. ChainInv'
  <2>1. Distinct(q'.list) /\ Distinct(r') /\ \A x \in Range(q'.list) : x \notin Range(r')
    BY <1>0, <1>1 DEF QLocksInv, ChainInv
  <2>2. \A x \in QLp : Listed(x)' => x \in inuse'
    BY <1>1, <1>4 DEF QLocksInv, ChainInv
  <2>3. /\ \A u \in Proc : mp'[u] # None => pc'[u] \in Waiting \cup {"wake"}
        /\ \A u \in Proc : pc'[u] \in Waiting => mp'[u] # None
        /\ \A u \in Proc : tgt'[u] # None <=> pc'[u] = "wake"
    BY <1>1, SMT DEF QLocksInv, ChainInv, Waiting
  <2> QED
    BY <1>1, <2>1, <2>2, <2>3, SMT DEF QLocksInv, ChainInv
<1>10. /\ \A u \in Proc : Found(u)' = Found(u)
       /\ \A u \in Proc \ {p} : Waking(u)' = Waking(u)
  BY <1>1 DEF Found, Waking
<1>11. \A u \in Proc \ {p} : Waking(u) => tgt[u] # z
  <2> SUFFICES ASSUME NEW u \in Proc, Waking(u), tgt[u] = z PROVE FALSE
    OBVIOUS
  <2>1. PICK v \in Proc : mp[v] = z /\ Chosen(v)
    BY DEF QLocksInv, WakeInv
  <2> QED
    BY <2>1, <1>6, <1>7
<1>12. WakeInv'
  <2>1. \A u \in Proc : Found(u)' => Chosen(u)'
    BY <1>8, <1>10 DEF QLocksInv, WakeInv
  <2>2. \A u, v \in Proc : Waking(u)' /\ Waking(v)' /\ tgt'[u] = tgt'[v] => u = v
    BY <1>1, <1>10, <1>11, SMT DEF QLocksInv, WakeInv
  <2>3. ASSUME NEW u \in Proc, Waking(u)'
        PROVE  \E v \in Proc : v # u /\ mp'[v] = tgt'[u] /\ Chosen(v)' /\ ~Found(v)'
    <3>1. CASE u = p
      BY <3>1, <1>1, <1>5, <1>6, <1>8, <1>10, SMTT(30)
    <3>2. CASE u # p
      BY <3>2, <2>3, <1>1, <1>8, <1>10, SMT DEF QLocksInv, WakeInv
    <3> QED
      BY <3>1, <3>2
  <2> QED
    BY <2>1, <2>2, <2>3 DEF WakeInv
<1> QED
  BY <1>2, <1>5, <1>6, <1>8, <1>9, <1>12 DEF z

\* The locks do not see a call that is made or broken.
LEMMA LockKept ==
  ASSUME QLocksInv, UNCHANGED <<kind, q, r, locker, state, inuse, mp, pc, tgt>>,
         RendTypeOK', GroupInv',
         \A u \in Proc : Found(u)' = Found(u) /\ Waking(u)' = Waking(u)
  PROVE  QLocksInv'
<1>1. Types'
  BY DEF QLocksInv, Types
<1>2. \A x : Listed(x)' = Listed(x)
  BY DEF Listed
<1>3. \A u \in Proc : Chosen(u)' = Chosen(u)
  BY <1>2 DEF Chosen
<1>4. \A u \in Proc : HasQ(u)' = HasQ(u) /\ HasR(u)' = HasR(u) /\ HasW(u)' = HasW(u)
  BY <1>3 DEF HasQ, HasR, HasW
<1>5. Readers' = Readers /\ ReaderFirst' = ReaderFirst
  BY <1>4 DEF Readers, ReaderFirst
<1>6. ChainInv'
  BY <1>2 DEF QLocksInv, ChainInv
<1>7. WakeInv'
  BY <1>3, ZenonT(40) DEF QLocksInv, WakeInv
<1>8. QLockInv'
  BY <1>4 DEF QLocksInv, QLockInv
<1>9. RWLockInv'
  BY <1>4, <1>5 DEF QLocksInv, RWLockInv
<1> QED
  BY <1>1, <1>6, <1>7, <1>8, <1>9 DEF QLocksInv

\* A step that leaves all of this as it is keeps the invariant.
LEMMA StillKeeps ==
  ASSUME QLocksInv, UNCHANGED <<kind, q, r, locker, state, inuse, mp, pc, tgt>>,
         UNCHANGED rendvars
  PROVE  QLocksInv'
<1>1. /\ UNCHANGED <<kind, q, r, locker, state, inuse, mp, pc, tgt>>
      /\ UNCHANGED <<procs, rgrp, rendtag, rendval>>
  BY DEF rendvars
<1>2. RendTypeOK'
  BY <1>1 DEF QLocksInv, Types, RendTypeOK
<1>3. GroupInv'
  BY <1>1 DEF QLocksInv, GroupInv, NonePassedBy, Part, Counterpart, With
<1>4. \A u \in Proc : Found(u)' = Found(u) /\ Waking(u)' = Waking(u)
  BY <1>1 DEF Found, Waking
<1> QED
  BY <1>1, <1>2, <1>3, <1>4, LockKept
-----------------------------------------------------------------------------
(* The sections of a QLock.                                                 *)

\* qlock's and canqlock's section (qlock.c): taken, or queued for; or q's Lock
\* was not to be had.
LEMMA QlockKeeps ==
  ASSUME QLocksInv, NEW p \in Proc, Qlock_(p) \/ Canqlock(p)
  PROVE  QLocksInv'
<1>1. /\ kind = "QLock" /\ kind' = kind /\ pc[p] = "out" /\ pc[p] \notin Busy
      /\ UNCHANGED <<rendvars, r, locker, tgt>>
  BY DEF Qlock_, Canqlock, Enters, Busy, Waiting
<1>2. RWLockInv'
  BY <1>1 DEF RWLockInv
<1>3. CASE /\ ~q.locked /\ q' = [q EXCEPT !.locked = TRUE]
           /\ pc' = [pc EXCEPT ![p] = "qlock"] /\ UNCHANGED <<inuse, state, mp>>
  <2>1. /\ q'.locked /\ q'.list = q.list /\ q'.readers = q.readers /\ q'.writer = q.writer
        /\ q' \in [locked : BOOLEAN, readers : Nat, writer : BOOLEAN, list : Seq(QLp)]
    BY <1>3 DEF QLocksInv, Types
  <2>2. Types'
    BY <1>1, <1>3, <2>1 DEF QLocksInv, Types, RendTypeOK, rendvars, Pc, Holding
  <2>3. "qlock" \in Pc \ Busy
    BY DEF Pc, Holding, Busy, Waiting
  <2>4. GroupInv' /\ ChainInv' /\ WakeInv' /\ \A s \in Proc : Chosen(s)' = Chosen(s)
    BY <1>1, <1>3, <2>1, <2>3, PlainKept
  <2>5. pc'[p] = "qlock" /\ \A s \in Proc \ {p} : pc'[s] = pc[s]
    BY <1>3 DEF QLocksInv, Types
  <2>6. \A s \in Proc : ~HasQ(s)
    BY <1>1, <1>3 DEF QLocksInv, QLockInv
  <2>7. \A s \in Proc : HasQ(s)' => s = p
    BY <2>4, <2>5, <2>6 DEF HasQ
  <2>8. QLockInv'
    BY <1>1, <2>1, <2>5, <2>7 DEF QLocksInv, QLockInv
  <2> QED
    BY <1>2, <2>2, <2>4, <2>8 DEF QLocksInv
<1>4. ASSUME q.locked, NEW z \in QLp, Getqlp(p, z, "Queuing"),
             q' = [q EXCEPT !.list = Append(@, z)], pc' = [pc EXCEPT ![p] = "waitq"]
      PROVE  QLocksInv'
  <2>0. Append(q.list, z) \in Seq(QLp)
    BY SMT DEF QLocksInv, Types
  <2>1. /\ q'.locked = q.locked /\ q'.list = Append(q.list, z)
        /\ q'.readers = q.readers /\ q'.writer = q.writer
        /\ q' \in [locked : BOOLEAN, readers : Nat, writer : BOOLEAN, list : Seq(QLp)]
    BY <1>4, <2>0 DEF QLocksInv, Types
  <2>2. Types'
    BY <1>1, <1>4, <2>1 DEF QLocksInv, Types, RendTypeOK, rendvars, Pc, Holding, WaitFor, Getqlp
  <2>3. GroupInv' /\ ChainInv' /\ WakeInv' /\ \A s \in Proc : Chosen(s)' = Chosen(s)
    BY <1>1, <1>4, <2>1, EnqueueKept DEF Waiting
  <2>4. pc'[p] = "waitq" /\ \A s \in Proc \ {p} : pc'[s] = pc[s]
    BY <1>4 DEF QLocksInv, Types
  <2>5. ~Chosen(p)
    BY <1>1, NotBusy DEF Chosen
  <2>6. \A s \in Proc : HasQ(s)' = HasQ(s)
    BY <1>1, <2>3, <2>4, <2>5 DEF HasQ
  <2>7. QLockInv'
    BY <1>1, <1>4, <2>1, <2>4, <2>6 DEF QLocksInv, QLockInv
  <2> QED
    BY <1>2, <2>2, <2>3, <2>7 DEF QLocksInv
<1>5. CASE UNCHANGED <<q, pc, inuse, state, mp>>
  BY <1>1, <1>5, StillKeeps
<1>6. CASE Qlock_(p)
  BY <1>3, <1>4, <1>6 DEF Qlock_, Goes
<1>7. CASE Canqlock(p)
  BY <1>3, <1>5, <1>7 DEF Canqlock, Goes
<1> QED
  BY <1>6, <1>7

\* qunlock's section: freed, or handed to the first who queues.
LEMMA QunlockKeeps ==
  ASSUME QLocksInv, NEW p \in Proc, Qunlock_(p)
  PROVE  QLocksInv'
<1>1. /\ kind' = kind /\ pc[p] = "qlock" /\ pc[p] \notin Busy
      /\ UNCHANGED <<rendvars, r, locker, inuse, state, mp>>
  BY DEF Qunlock_, Enters, Busy, Waiting
<1>2. kind = "QLock"
  BY <1>1 DEF QLocksInv, Types, RWLockInv, RWPcs
<1>3. RWLockInv'
  BY <1>1, <1>2 DEF RWLockInv
<1>4. HasQ(p) /\ q.locked /\ \A s \in Proc : HasQ(s) => s = p
  BY <1>1, <1>2 DEF QLocksInv, QLockInv, HasQ
<1>5. CASE /\ q.list # <<>> /\ q' = [q EXCEPT !.list = Tail(@)]
           /\ tgt' = [tgt EXCEPT ![p] = Head(q.list)] /\ pc' = [pc EXCEPT ![p] = "wake"]
  <2>0. Tail(q.list) \in Seq(QLp) /\ Head(q.list) \in QLp
    BY <1>5, SMT DEF QLocksInv, Types
  <2>1. /\ q'.locked = q.locked /\ q'.list = Tail(q.list)
        /\ q'.readers = q.readers /\ q'.writer = q.writer
        /\ q' \in [locked : BOOLEAN, readers : Nat, writer : BOOLEAN, list : Seq(QLp)]
    BY <1>5, <2>0 DEF QLocksInv, Types
  <2>2. Types'
    BY <1>1, <1>5, <2>0, <2>1 DEF QLocksInv, Types, RendTypeOK, rendvars, Pc
  <2>3. GroupInv' /\ ChainInv' /\ WakeInv'
    BY <1>1, <1>5, <2>1, HandKept
  <2>4. PICK s \in Proc \ {p} : \A u \in Proc : Chosen(u)' <=> Chosen(u) \/ u = s
    BY <1>1, <1>5, <2>1, HandKept
  <2>5. pc'[p] = "wake" /\ \A u \in Proc \ {p} : pc'[u] = pc[u]
    BY <1>5 DEF QLocksInv, Types
  <2>6. ~Chosen(p)
    BY <1>1, NotBusy DEF Chosen
  <2>7. \A u \in Proc : HasQ(u)' => u = s
    BY <1>4, <2>4, <2>5, <2>6 DEF HasQ
  <2>8. QLockInv'
    BY <1>1, <1>2, <1>4, <2>1, <2>5, <2>7 DEF QLocksInv, QLockInv
  <2> QED
    BY <1>3, <2>2, <2>3, <2>8 DEF QLocksInv
<1>6. CASE /\ q.list = <<>> /\ q' = [q EXCEPT !.locked = FALSE]
           /\ pc' = [pc EXCEPT ![p] = "out"] /\ tgt' = tgt
  <2>1. /\ ~q'.locked /\ q'.list = q.list /\ q'.readers = q.readers /\ q'.writer = q.writer
        /\ q' \in [locked : BOOLEAN, readers : Nat, writer : BOOLEAN, list : Seq(QLp)]
    BY <1>6 DEF QLocksInv, Types
  <2>2. Types'
    BY <1>1, <1>6, <2>1 DEF QLocksInv, Types, RendTypeOK, rendvars, Pc
  <2>3. "out" \in Pc \ Busy
    BY DEF Pc, Busy, Waiting
  <2>4. GroupInv' /\ ChainInv' /\ WakeInv' /\ \A s \in Proc : Chosen(s)' = Chosen(s)
    BY <1>1, <1>6, <2>1, <2>3, PlainKept
  <2>5. pc'[p] = "out" /\ \A u \in Proc \ {p} : pc'[u] = pc[u]
    BY <1>6 DEF QLocksInv, Types
  <2>6. \A u \in Proc : ~HasQ(u)'
    BY <1>4, <2>4, <2>5 DEF HasQ
  <2>7. QLockInv'
    BY <1>1, <1>2, <1>6, <2>1, <2>5, <2>6 DEF QLocksInv, QLockInv
  <2> QED
    BY <1>3, <2>2, <2>4, <2>7 DEF QLocksInv
<1> QED
  BY <1>5, <1>6 DEF Qunlock_, Goes

\* rsleep's section: onto the Rendez's list, and the lock freed or handed over.
LEMMA RsleepKeeps ==
  ASSUME QLocksInv, NEW p \in Proc, Rsleep(p)
  PROVE  QLocksInv'
<1>1. /\ kind' = kind /\ pc[p] = "qlock" /\ pc[p] \notin Busy /\ UNCHANGED rendvars
  BY DEF Rsleep, Enters, Busy, Waiting
<1>2. kind = "QLock"
  BY <1>1 DEF QLocksInv, Types, RWLockInv, RWPcs
<1>3. RWLockInv'
  BY <1>1, <1>2 DEF RWLockInv
<1>4. HasQ(p) /\ q.locked /\ \A s \in Proc : HasQ(s) => s = p
  BY <1>1, <1>2 DEF QLocksInv, QLockInv, HasQ
<1>5. PICK z \in QLp : Getqlp(p, z, "Sleeping") /\ r' = Append(r, z) /\ locker' = locker
  BY <1>4 DEF Rsleep
<1>6. /\ UNCHANGED <<rendvars, rendtag, rendval>>
      /\ mp'[p] = z /\ \A s \in Proc \ {p} : mp'[s] = mp[s]
      /\ z \notin inuse /\ inuse' = inuse \cup {z} /\ z # None
      /\ mp[p] = None /\ tgt[p] = None /\ rendtag[p] = NoTag
      /\ mp' \in [Proc -> QLp \cup {None}] /\ inuse' \subseteq QLp
      /\ state' \in [QLp -> {"Queuing", "QueuingR", "QueuingW", "Sleeping"}]
  BY <1>1, <1>5, NotBusy, QLocksAssumption DEF QLocksInv, Types, rendvars, Getqlp
<1>7. /\ Range(r') = Range(r) \cup {z} /\ z \notin Range(q.list) /\ z \notin Range(r)
      /\ Distinct(r') /\ r' \in Seq(QLp)
  BY <1>5, <1>6, AppendFacts, SMT DEF QLocksInv, Types, ChainInv, Listed
<1>8. \A s \in Proc \ {p} : mp[s] # z
  BY <1>6 DEF QLocksInv, ChainInv
<1>9. /\ \A x \in QLp : x \in inuse' <=> \E s \in Proc : mp'[s] = x
      /\ \A s, u \in Proc : mp'[s] = mp'[u] /\ mp'[s] # None => s = u
  <2>1. \A x \in QLp : x \in inuse' <=> \E s \in Proc : mp'[s] = x
    BY <1>6, QLocksAssumption, SMT DEF QLocksInv, ChainInv
  <2> QED
    BY <1>6, <1>8, <2>1, SMTT(30) DEF QLocksInv, ChainInv
<1>10. ~Chosen(p)
  BY <1>6 DEF Chosen
<1>11. CASE /\ q.list # <<>> /\ q' = [q EXCEPT !.list = Tail(@)]
            /\ tgt' = [tgt EXCEPT ![p] = Head(q.list)] /\ pc' = [pc EXCEPT ![p] = "wake"]
  <2>0. PICK y : y = Head(q.list)
    OBVIOUS
  <2>1. /\ y \in QLp /\ y \in Range(q.list) /\ Range(Tail(q.list)) = Range(q.list) \ {y}
        /\ Tail(q.list) \in Seq(QLp) /\ Distinct(Tail(q.list))
    BY <1>11, <2>0, TailFacts DEF QLocksInv, Types, ChainInv
  <2>2. /\ q'.locked = q.locked /\ q'.list = Tail(q.list)
        /\ q'.readers = q.readers /\ q'.writer = q.writer
        /\ q' \in [locked : BOOLEAN, readers : Nat, writer : BOOLEAN, list : Seq(QLp)]
    BY <1>11, <2>1 DEF QLocksInv, Types
  <2>3. Types'
    BY <1>1, <1>5, <1>6, <1>7, <1>11, <2>0, <2>1, <2>2 DEF QLocksInv, Types, RendTypeOK, rendvars, Pc
  <2>4. /\ pc'[p] = "wake" /\ \A u \in Proc \ {p} : pc'[u] = pc[u]
        /\ tgt'[p] = y /\ y # None /\ \A u \in Proc \ {p} : tgt'[u] = tgt[u]
    BY <1>11, <2>0, <2>1, QLocksAssumption DEF QLocksInv, Types
  <2>5. GroupInv'
    BY <1>6, <2>4, GroupKept DEF QLocksInv
  <2>6. y \notin Range(r) /\ Listed(y) /\ y \in inuse /\ y # z
    BY <2>1, <1>6 DEF QLocksInv, ChainInv, Listed
  <2>7. \A x : Listed(x)' <=> (Listed(x) /\ x # y) \/ x = z
    BY <1>7, <2>1, <2>2, <2>6 DEF Listed
  <2>8. PICK s \in Proc : mp[s] = y
    BY <2>1, <2>6 DEF QLocksInv, ChainInv
  <2>9. s # p /\ ~Chosen(s) /\ ~Found(s) /\ \A u \in Proc : mp[u] = y => u = s
    BY <1>6, <2>4, <2>6, <2>8, SMT DEF Chosen, QLocksInv, ChainInv, WakeInv
  <2>10. \A u \in Proc : Chosen(u)' <=> Chosen(u) \/ u = s
    BY <1>6, <1>8, <1>10, <2>4, <2>7, <2>8, <2>9, SMT DEF Chosen
  <2>11. ChainInv'
    <3>1. \A x \in Range(q'.list) : x \notin Range(r')
      BY <1>7, <2>1, <2>2 DEF QLocksInv, ChainInv
    <3>2. \A x \in QLp : Listed(x)' => x \in inuse'
      BY <1>6, <2>7 DEF QLocksInv, ChainInv
    <3>3. /\ \A u \in Proc : mp'[u] # None => pc'[u] \in Waiting \cup {"wake"}
          /\ \A u \in Proc : pc'[u] \in Waiting => mp'[u] # None
          /\ \A u \in Proc : tgt'[u] # None <=> pc'[u] = "wake"
      BY <1>6, <2>4, SMTT(30) DEF QLocksInv, ChainInv, Waiting
    <3> QED
      BY <1>7, <1>9, <2>1, <2>2, <3>1, <3>2, <3>3 DEF ChainInv
  <2>12. /\ \A u \in Proc : Found(u)' = Found(u)
         /\ \A u \in Proc \ {p} : Waking(u)' = Waking(u)
    BY <1>6, <2>4 DEF Found, Waking
  <2>13. \A u \in Proc \ {p} : Waking(u) => tgt[u] # y
    <3> SUFFICES ASSUME NEW u \in Proc, Waking(u), tgt[u] = y PROVE FALSE
      OBVIOUS
    <3>1. PICK v \in Proc : mp[v] = y /\ Chosen(v)
      BY DEF QLocksInv, WakeInv
    <3> QED
      BY <3>1, <2>9
  <2>14. WakeInv'
    <3>1. \A u \in Proc : Found(u)' => Chosen(u)'
      BY <2>10, <2>12 DEF QLocksInv, WakeInv
    <3>2. \A u, v \in Proc : Waking(u)' /\ Waking(v)' /\ tgt'[u] = tgt'[v] => u = v
      BY <2>4, <2>12, <2>13, SMT DEF QLocksInv, WakeInv
    <3>3. ASSUME NEW u \in Proc, Waking(u)'
          PROVE  \E v \in Proc : v # u /\ mp'[v] = tgt'[u] /\ Chosen(v)' /\ ~Found(v)'
      <4>1. CASE u = p
        BY <4>1, <1>6, <2>4, <2>8, <2>9, <2>10, <2>12
      <4>2. CASE u # p
        <5>1. PICK v \in Proc : v # u /\ mp[v] = tgt[u] /\ Chosen(v) /\ ~Found(v)
          BY <4>2, <3>3, <2>12 DEF QLocksInv, WakeInv
        <5>2. v # p
          BY <5>1, <1>10
        <5> QED
          BY <4>2, <5>1, <5>2, <1>6, <2>4, <2>10, <2>12
      <4> QED
        BY <4>1, <4>2
    <3> QED
      BY <3>1, <3>2, <3>3 DEF WakeInv
  <2>15. \A u \in Proc : HasQ(u)' => u = s
    BY <1>4, <1>10, <2>4, <2>9, <2>10 DEF HasQ
  <2>16. QLockInv'
    BY <1>1, <1>2, <1>4, <1>5, <2>2, <2>4, <2>15 DEF QLocksInv, QLockInv
  <2> QED
    BY <1>3, <2>3, <2>5, <2>11, <2>14, <2>16 DEF QLocksInv
<1>12. CASE /\ q.list = <<>> /\ q' = [q EXCEPT !.locked = FALSE]
            /\ pc' = [pc EXCEPT ![p] = "waitq"] /\ tgt' = tgt
  <2>1. /\ ~q'.locked /\ q'.list = q.list /\ q'.readers = q.readers /\ q'.writer = q.writer
        /\ q' \in [locked : BOOLEAN, readers : Nat, writer : BOOLEAN, list : Seq(QLp)]
    BY <1>12 DEF QLocksInv, Types
  <2>2. Types'
    BY <1>1, <1>5, <1>6, <1>7, <1>12, <2>1, SMT DEF QLocksInv, Types, RendTypeOK, rendvars, Pc, Holding, WaitFor
  <2>3. pc'[p] = "waitq" /\ \A u \in Proc \ {p} : pc'[u] = pc[u]
    BY <1>12 DEF QLocksInv, Types
  <2>4. GroupInv'
    BY <1>6, <1>12, <2>3, GroupKept DEF QLocksInv
  <2>5. \A x : Listed(x)' <=> Listed(x) \/ x = z
    BY <1>7, <2>1 DEF Listed
  <2>6. \A u \in Proc : Chosen(u)' = Chosen(u)
    BY <1>6, <1>8, <1>10, <2>5 DEF Chosen
  <2>7. ChainInv'
    <3>1. \A x \in Range(q'.list) : x \notin Range(r')
      BY <1>7, <2>1 DEF QLocksInv, ChainInv
    <3>2. \A x \in QLp : Listed(x)' => x \in inuse'
      BY <1>6, <2>5 DEF QLocksInv, ChainInv
    <3>3. /\ \A u \in Proc : mp'[u] # None => pc'[u] \in Waiting \cup {"wake"}
          /\ \A u \in Proc : pc'[u] \in Waiting => mp'[u] # None
          /\ \A u \in Proc : tgt'[u] # None <=> pc'[u] = "wake"
      BY <1>6, <1>12, <2>3, SMT DEF QLocksInv, ChainInv, Waiting
    <3> QED
      BY <1>7, <1>9, <2>1, <3>1, <3>2, <3>3 DEF QLocksInv, ChainInv
  <2>8. \A u \in Proc : Found(u)' = Found(u) /\ Waking(u)' = Waking(u)
    BY <1>6, <1>12, <2>3 DEF Found, Waking
  <2>9. WakeInv'
    <3>1. ASSUME NEW u \in Proc, Waking(u)'
          PROVE  \E v \in Proc : v # u /\ mp'[v] = tgt'[u] /\ Chosen(v)' /\ ~Found(v)'
      <4>1. PICK v \in Proc : v # u /\ mp[v] = tgt[u] /\ Chosen(v) /\ ~Found(v)
        BY <3>1, <2>8 DEF QLocksInv, WakeInv
      <4>2. v # p
        BY <4>1, <1>10
      <4> QED
        BY <4>1, <4>2, <1>6, <1>12, <2>6, <2>8
    <3> QED
      BY <1>12, <2>6, <2>8, <3>1 DEF QLocksInv, WakeInv
  <2>10. \A u \in Proc : ~HasQ(u)'
    BY <1>4, <1>10, <2>3, <2>6 DEF HasQ
  <2>11. QLockInv'
    BY <1>1, <1>2, <1>5, <1>12, <2>1, <2>3, <2>10 DEF QLocksInv, QLockInv
  <2> QED
    BY <1>3, <2>2, <2>4, <2>7, <2>9, <2>11 DEF QLocksInv
<1> QED
  BY <1>4, <1>11, <1>12 DEF Rsleep, Goes

\* rwakeup's section: the first sleeper is put in front of the lock's queue.
LEMMA RwakeupKeeps ==
  ASSUME QLocksInv, NEW p \in Proc, Rwakeup(p)
  PROVE  QLocksInv'
<1>1. /\ kind' = kind /\ pc[p] = "qlock" /\ pc[p] \notin Busy
  BY DEF Rwakeup, Enters, Busy, Waiting
<1>2. kind = "QLock"
  BY <1>1 DEF QLocksInv, Types, RWLockInv, RWPcs
<1>3. q.locked
  BY <1>1, <1>2 DEF QLocksInv, QLockInv, HasQ
<1>4. /\ r # <<>> /\ r' = Tail(r) /\ q' = [q EXCEPT !.list = <<Head(r)>> \o @]
      /\ state' = [state EXCEPT ![Head(r)] = "Queuing"]
      /\ UNCHANGED <<rendvars, rendtag, rendval, locker, inuse, pc, mp, tgt>>
  BY <1>3 DEF Rwakeup, Enters, rendvars
<1>5. PICK y : y = Head(r)
  OBVIOUS
<1>6. /\ y \in QLp /\ y \in Range(r) /\ Range(r') = Range(r) \ {y}
      /\ r' \in Seq(QLp) /\ Distinct(r')
  BY <1>4, <1>5, TailFacts DEF QLocksInv, Types, ChainInv
<1>7. y \notin Range(q.list)
  BY <1>6 DEF QLocksInv, ChainInv
<1>8. /\ <<y>> \o q.list \in Seq(QLp) /\ Range(<<y>> \o q.list) = Range(q.list) \cup {y}
      /\ Distinct(<<y>> \o q.list)
  BY <1>6, <1>7, FrontFacts, SMT DEF QLocksInv, Types, ChainInv
<1>9. /\ q'.locked = q.locked /\ q'.list = <<y>> \o q.list
      /\ q'.readers = q.readers /\ q'.writer = q.writer
      /\ q' \in [locked : BOOLEAN, readers : Nat, writer : BOOLEAN, list : Seq(QLp)]
  BY <1>4, <1>5, <1>8 DEF QLocksInv, Types
<1>10. Types'
  BY <1>1, <1>4, <1>5, <1>6, <1>9 DEF QLocksInv, Types, RendTypeOK, rendvars
<1>11. GroupInv'
  BY <1>1, <1>4, NotBusy, GroupKept DEF QLocksInv
<1>12. \A x : Listed(x)' = Listed(x)
  BY <1>6, <1>8, <1>9 DEF Listed
<1>13. ChainInv'
  <2>1. \A x \in Range(q'.list) : x \notin Range(r')
    BY <1>6, <1>7, <1>8, <1>9 DEF QLocksInv, ChainInv
  <2> QED
    BY <1>4, <1>6, <1>8, <1>9, <1>12, <2>1 DEF QLocksInv, ChainInv
<1>14. \A u \in Proc : /\ Chosen(u)' = Chosen(u) /\ Found(u)' = Found(u)
                       /\ Waking(u)' = Waking(u) /\ HasQ(u)' = HasQ(u)
  BY <1>4, <1>12 DEF Chosen, Found, Waking, HasQ
<1>15. WakeInv'
  BY <1>4, <1>14, SMT DEF QLocksInv, WakeInv
<1>16. QLockInv'
  BY <1>1, <1>2, <1>3, <1>4, <1>9, <1>14 DEF QLocksInv, QLockInv
<1>17. RWLockInv'
  BY <1>1, <1>2 DEF RWLockInv
<1> QED
  BY <1>10, <1>11, <1>13, <1>15, <1>16, <1>17 DEF QLocksInv
-----------------------------------------------------------------------------
(* The sections of an RWLock.                                               *)

\* What is proved at the end: the processes are finitely many.
Counted ==
  \A S \in SUBSET Proc :
     /\ Cardinality(S) \in Nat /\ Cardinality(S) <= Cardinality(Proc)
     /\ Cardinality(S) = 0 <=> S = {}
     /\ \A p \in Proc :
           /\ p \notin S => Cardinality(S \cup {p}) = Cardinality(S) + 1
           /\ p \in S => Cardinality(S \ {p}) = Cardinality(S) - 1

\* The count of the readers when one comes, one goes or none does.
LEMMA ReadersCount ==
  ASSUME Counted
  PROVE  /\ Cardinality(Readers) \in Nat
         /\ Cardinality(Readers) <= Cardinality(Proc)
         /\ \A s \in Proc : HasR(s) => Cardinality(Readers) > 0
         /\ (\A s \in Proc : ~HasR(s)) => Cardinality(Readers) = 0
         /\ Cardinality(Readers) = 0 => \A s \in Proc : ~HasR(s)
<1>1. Readers \in SUBSET Proc
  BY DEF Readers
<1>2. /\ Cardinality(Readers) \in Nat /\ Cardinality(Readers) <= Cardinality(Proc)
      /\ Cardinality(Readers) = 0 <=> Readers = {}
  BY <1>1 DEF Counted
<1>3. Readers = {} <=> \A s \in Proc : ~HasR(s)
  BY DEF Readers
<1> QED
  BY <1>2, <1>3, SMT

\* A reader that comes is counted.
LEMMA ReaderComes ==
  ASSUME Counted, NEW s \in Proc, ~HasR(s),
         \A u \in Proc : HasR(u)' <=> HasR(u) \/ u = s
  PROVE  Cardinality(Readers') = Cardinality(Readers) + 1
<1>1. Readers' = Readers \cup {s} /\ s \notin Readers /\ Readers \in SUBSET Proc
  BY DEF Readers
<1> QED
  BY <1>1 DEF Counted

\* A reader that goes is counted off.
LEMMA ReaderGoes ==
  ASSUME Counted, NEW s \in Proc, HasR(s),
         \A u \in Proc : HasR(u)' <=> HasR(u) /\ u # s
  PROVE  Cardinality(Readers') = Cardinality(Readers) - 1
<1>1. Readers' = Readers \ {s} /\ s \in Readers /\ Readers \in SUBSET Proc
  BY DEF Readers
<1> QED
  BY <1>1 DEF Counted

\* The count of the readers when they are the same.
LEMMA ReadersStay ==
  ASSUME \A u \in Proc : HasR(u)' <=> HasR(u)
  PROVE  Cardinality(Readers') = Cardinality(Readers)
BY DEF Readers

\* p, which does not get the lock, queues for it.
LEMMA QueueKeeps ==
  ASSUME QLocksInv, kind = "RWLock", NEW p \in Proc, pc[p] = "out", locker = NoProc,
         NEW z \in QLp, NEW l \in {"waitr", "waitw"},
         Getqlp(p, z, IF l = "waitr" THEN "QueuingR" ELSE "QueuingW"),
         q' = [q EXCEPT !.list = Append(@, z)], pc' = [pc EXCEPT ![p] = l],
         q.writer \/ q.readers > 0, l = "waitr" /\ q.readers > 0 => q.list # <<>>,
         UNCHANGED <<rendvars, kind, r, locker, tgt>>
  PROVE  QLocksInv'
<1>0. Append(q.list, z) \in Seq(QLp) /\ pc[p] \notin Busy /\ l \in Waiting /\ l \in Pc
  BY SMT DEF QLocksInv, Types, Busy, Waiting, Pc, Holding, WaitFor
<1>1. /\ q'.locked = q.locked /\ q'.list = Append(q.list, z)
      /\ q'.readers = q.readers /\ q'.writer = q.writer
      /\ q' \in [locked : BOOLEAN, readers : Nat, writer : BOOLEAN, list : Seq(QLp)]
  BY <1>0 DEF QLocksInv, Types
<1>2. /\ z \notin inuse /\ inuse' = inuse \cup {z}
      /\ mp'[p] = z /\ \A s \in Proc \ {p} : mp'[s] = mp[s]
      /\ state'[z] = (IF l = "waitr" THEN "QueuingR" ELSE "QueuingW")
      /\ \A x \in QLp \ {z} : state'[x] = state[x]
      /\ pc'[p] = l /\ \A s \in Proc \ {p} : pc'[s] = pc[s]
      /\ z # None
  BY <1>0, QLocksAssumption DEF QLocksInv, Types, Getqlp
<1>3. Types'
  BY <1>0, <1>1 DEF QLocksInv, Types, RendTypeOK, rendvars, Getqlp
<1>4. GroupInv' /\ ChainInv' /\ WakeInv' /\ \A s \in Proc : Chosen(s)' = Chosen(s)
  <2>1. PICK st : st = IF l = "waitr" THEN "QueuingR" ELSE "QueuingW"
    OBVIOUS
  <2>2. Getqlp(p, z, st)
    BY <2>1
  <2> QED
    BY <1>0, <1>1, <2>2, EnqueueKept
<1>5. ~Chosen(p)
  BY <1>0, NotBusy DEF Chosen
<1>6. \A s \in Proc : HasR(s)' = HasR(s) /\ HasW(s)' = HasW(s)
  BY <1>2, <1>4, <1>5 DEF HasR, HasW
<1>7. Cardinality(Readers') = Cardinality(Readers)
  BY <1>6, ReadersStay
<1>8. q.readers > 0 => ~ReaderFirst'
  <2> SUFFICES ASSUME q.readers > 0 PROVE ~ReaderFirst'
    OBVIOUS
  <2>1. Head(q'.list) = IF q.list = <<>> THEN z ELSE Head(q.list)
    BY <1>1, AppendFacts, SMT DEF QLocksInv, Types
  <2>2. CASE q.list = <<>>
    BY <2>1, <2>2, <1>2 DEF ReaderFirst
  <2>3. CASE q.list # <<>>
    <3>1. Head(q.list) \in QLp /\ Head(q.list) \in inuse
      BY <2>3, TailFacts DEF QLocksInv, Types, ChainInv, Listed
    <3>2. state'[Head(q.list)] = state[Head(q.list)]
      BY <3>1, <1>2
    <3>3. ~ReaderFirst
      BY DEF QLocksInv, RWLockInv
    <3> QED
      BY <3>2, <3>3, <2>1, <2>3 DEF ReaderFirst
  <2> QED
    BY <2>2, <2>3
<1>9. ASSUME NEW s \in Proc, mp'[s] # None
      PROVE  /\ pc'[s] # "wake"
             /\ state'[mp'[s]] = IF pc'[s] = "waitr" THEN "QueuingR" ELSE "QueuingW"
  <2>1. CASE s = p
    BY <2>1, <1>2
  <2>2. CASE s # p
    <3>1. mp[s] \in QLp \ {z}
      BY <2>2, <1>2, <1>9, SMT DEF QLocksInv, Types, ChainInv
    <3> QED
      BY <2>2, <3>1, <1>2, <1>9, SMT DEF QLocksInv, RWLockInv
  <2> QED
    BY <2>1, <2>2
<1>10. RWLockInv'
  <2>1. \A s \in Proc : pc'[s] \in RWPcs
    BY <1>2 DEF QLocksInv, RWLockInv, RWPcs
  <2>2. ~q'.locked /\ r' = <<>> /\ locker' = NoProc
    BY <1>1 DEF QLocksInv, RWLockInv
  <2>3. /\ \A s \in Proc : HasW(s)' => q'.writer /\ locker' = NoProc
        /\ \A s, u \in Proc : HasW(s)' => ~HasR(u)' /\ (HasW(u)' => u = s)
        /\ q'.readers = Cardinality(Readers')
        /\ \A s \in Proc : pc'[s] = "loop" => locker' = s
        /\ q'.readers > 0 => ~q'.writer
    BY <1>1, <1>2, <1>6, <1>7, SMT DEF QLocksInv, RWLockInv
  <2> QED
    BY <1>1, <1>8, <1>9, <2>1, <2>2, <2>3 DEF RWLockInv
<1>11. QLockInv'
  BY DEF QLockInv
<1> QED
  BY <1>3, <1>4, <1>10, <1>11 DEF QLocksInv

\* rlock's section: one reader more, or queued.
LEMMA RlockKeeps ==
  ASSUME Counted, QLocksInv, NEW p \in Proc, NEW try \in BOOLEAN, Rlock(p, try)
  PROVE  QLocksInv'
<1>1. /\ kind = "RWLock" /\ kind' = kind /\ pc[p] = "out" /\ pc[p] \notin Busy
      /\ locker = NoProc
      /\ UNCHANGED <<rendvars, r, locker, tgt>>
  BY DEF Rlock, Enters, Busy, Waiting
<1>2. CASE /\ NoWriter /\ q' = [q EXCEPT !.readers = @ + 1]
           /\ pc' = [pc EXCEPT ![p] = "rlock"] /\ UNCHANGED <<inuse, state, mp>>
  <2>0. q.readers \in Nat /\ q.readers + 1 \in Nat
    BY SMT DEF QLocksInv, Types
  <2>1. /\ q'.locked = q.locked /\ q'.list = q.list
        /\ q'.readers = q.readers + 1 /\ q'.writer = q.writer
        /\ q' \in [locked : BOOLEAN, readers : Nat, writer : BOOLEAN, list : Seq(QLp)]
    BY <1>2, <2>0 DEF QLocksInv, Types
  <2>2. Types'
    BY <1>1, <1>2, <2>1 DEF QLocksInv, Types, RendTypeOK, rendvars, Pc, Holding
  <2>3. "rlock" \in Pc \ Busy
    BY DEF Pc, Holding, Busy, Waiting
  <2>4. GroupInv' /\ ChainInv' /\ WakeInv' /\ \A s \in Proc : Chosen(s)' = Chosen(s)
    BY <1>1, <1>2, <2>1, <2>3, PlainKept
  <2>5. pc'[p] = "rlock" /\ \A s \in Proc \ {p} : pc'[s] = pc[s]
    BY <1>2 DEF QLocksInv, Types
  <2>6. ~Chosen(p)
    BY <1>1, NotBusy DEF Chosen
  <2>7. ~HasR(p) /\ \A s \in Proc : HasR(s)' <=> HasR(s) \/ s = p
    BY <1>1, <2>4, <2>5, <2>6 DEF HasR
  <2>8. \A s \in Proc : ~HasW(s)'
    BY <1>1, <1>2, <2>4, <2>5, <2>6 DEF HasW, NoWriter, QLocksInv, RWLockInv
  <2>9. q'.readers = Cardinality(Readers')
    BY <1>1, <2>1, <2>7, ReaderComes DEF QLocksInv, RWLockInv
  <2>10. q.list = <<>> /\ ~q.writer
    BY <1>2 DEF NoWriter
  <2>11. \A s \in Proc : mp'[s] # None =>
             /\ pc'[s] # "wake"
             /\ state'[mp'[s]] = IF pc'[s] = "waitr" THEN "QueuingR" ELSE "QueuingW"
    BY <1>1, <1>2, <2>5, NotBusy, SMTT(30) DEF QLocksInv, RWLockInv
  <2>12. RWLockInv'
    BY <1>1, <1>2, <2>1, <2>5, <2>8, <2>9, <2>10, <2>11, SMTT(30)
       DEF QLocksInv, RWLockInv, RWPcs, ReaderFirst
  <2>13. QLockInv'
    BY <1>1 DEF QLockInv
  <2> QED
    BY <2>2, <2>4, <2>12, <2>13 DEF QLocksInv
<1>3. ASSUME ~NoWriter, NEW z \in QLp, Getqlp(p, z, "QueuingR"),
             q' = [q EXCEPT !.list = Append(@, z)], pc' = [pc EXCEPT ![p] = "waitr"]
      PROVE  QLocksInv'
  <2>1. q.writer \/ q.readers > 0
    BY <1>1, <1>3 DEF NoWriter, QLocksInv, RWLockInv
  <2>2. q.readers > 0 => q.list # <<>>
    BY <1>1, <1>3 DEF NoWriter, QLocksInv, RWLockInv
  <2>3. PICK l \in {"waitr", "waitw"} : l = "waitr"
    OBVIOUS
  <2>4. Getqlp(p, z, IF l = "waitr" THEN "QueuingR" ELSE "QueuingW")
    BY <1>3, <2>3
  <2> QED
    BY <1>1, <1>3, <2>1, <2>2, <2>3, <2>4, QueueKeeps
<1> QED
  BY <1>2, <1>3 DEF Rlock, Goes

\* wlock's section: taken for writing, or queued for.
LEMMA WlockKeeps ==
  ASSUME Counted, QLocksInv, NEW p \in Proc, NEW try \in BOOLEAN, Wlock(p, try)
  PROVE  QLocksInv'
<1>1. /\ kind = "RWLock" /\ kind' = kind /\ pc[p] = "out" /\ pc[p] \notin Busy
      /\ locker = NoProc
      /\ UNCHANGED <<rendvars, r, locker, tgt>>
  BY DEF Wlock, Enters, Busy, Waiting
<1>2. CASE /\ q.readers = 0 /\ ~q.writer /\ q' = [q EXCEPT !.writer = TRUE]
           /\ pc' = [pc EXCEPT ![p] = "wlock"] /\ UNCHANGED <<inuse, state, mp>>
  <2>1. /\ q'.locked = q.locked /\ q'.list = q.list
        /\ q'.readers = q.readers /\ q'.writer
        /\ q' \in [locked : BOOLEAN, readers : Nat, writer : BOOLEAN, list : Seq(QLp)]
    BY <1>2 DEF QLocksInv, Types
  <2>2. Types'
    BY <1>1, <1>2, <2>1 DEF QLocksInv, Types, RendTypeOK, rendvars, Pc, Holding
  <2>3. "wlock" \in Pc \ Busy
    BY DEF Pc, Holding, Busy, Waiting
  <2>4. GroupInv' /\ ChainInv' /\ WakeInv' /\ \A s \in Proc : Chosen(s)' = Chosen(s)
    BY <1>1, <1>2, <2>1, <2>3, PlainKept
  <2>5. pc'[p] = "wlock" /\ \A s \in Proc \ {p} : pc'[s] = pc[s]
    BY <1>2 DEF QLocksInv, Types
  <2>6. ~Chosen(p)
    BY <1>1, NotBusy, ZenonT(40) DEF Chosen
  <2>7. \A s \in Proc : ~HasR(s)
    BY <1>1, <1>2, ReadersCount DEF QLocksInv, RWLockInv
  <2>8. \A s \in Proc : HasW(s)' => s = p
    BY <1>1, <1>2, <2>4, <2>5 DEF HasW, QLocksInv, RWLockInv
  <2>9. \A s \in Proc : ~HasR(s)'
    BY <2>4, <2>5, <2>7 DEF HasR
  <2>10. Cardinality(Readers') = Cardinality(Readers)
    BY <2>7, <2>9, ReadersStay
  <2>11. \A s \in Proc : mp'[s] # None =>
             /\ pc'[s] # "wake"
             /\ state'[mp'[s]] = IF pc'[s] = "waitr" THEN "QueuingR" ELSE "QueuingW"
    BY <1>1, <1>2, <2>5, NotBusy, SMT DEF QLocksInv, RWLockInv
  <2>12. RWLockInv'
    BY <1>1, <1>2, <2>1, <2>5, <2>8, <2>9, <2>10, <2>11, SMT DEF QLocksInv, RWLockInv, RWPcs
  <2>13. QLockInv'
    BY <1>1, ZenonT(40) DEF QLockInv
  <2> QED
    BY <2>2, <2>4, <2>12, <2>13, ZenonT(40) DEF QLocksInv
<1>3. ASSUME ~(q.readers = 0 /\ ~q.writer), NEW z \in QLp, Getqlp(p, z, "QueuingW"),
             q' = [q EXCEPT !.list = Append(@, z)], pc' = [pc EXCEPT ![p] = "waitw"]
      PROVE  QLocksInv'
  <2>1. q.writer \/ q.readers > 0
    BY <1>3, SMT DEF QLocksInv, Types
  <2>3. PICK l \in {"waitr", "waitw"} : l = "waitw"
    OBVIOUS
  <2>4. Getqlp(p, z, IF l = "waitr" THEN "QueuingR" ELSE "QueuingW") /\ l # "waitr"
    BY <1>3, <2>3
  <2> QED
    BY <1>1, <1>3, <2>1, <2>3, <2>4, QueueKeeps
<1> QED
  BY <1>2, <1>3 DEF Wlock, Goes

\* runlock's section: one reader less; the last hands the lock to the first
\* writer.
LEMMA RunlockKeeps ==
  ASSUME Counted, QLocksInv, NEW p \in Proc, Runlock(p)
  PROVE  QLocksInv'
<1>1. /\ kind' = kind /\ pc[p] = "rlock" /\ pc[p] \notin Busy /\ locker = NoProc
      /\ UNCHANGED <<rendvars, r, locker, inuse, state, mp>>
  BY DEF Runlock, Enters, Abort, Busy, Waiting
<1>2. kind = "RWLock"
  BY <1>1 DEF QLocksInv, Types, QLockInv
<1>3. QLockInv'
  BY <1>1, <1>2 DEF QLockInv
<1>4. /\ HasR(p) /\ q.readers = Cardinality(Readers) /\ q.readers > 0 /\ q.readers \in Nat
      /\ ~q.writer /\ ~ReaderFirst /\ \A s \in Proc : ~HasW(s)
  <2>1. HasR(p) /\ q.readers = Cardinality(Readers) /\ q.readers \in Nat
    BY <1>1, <1>2 DEF HasR, QLocksInv, RWLockInv, Types
  <2>2. q.readers > 0
    BY <2>1, ReadersCount
  <2> QED
    BY <1>1, <1>2, <2>1, <2>2 DEF QLocksInv, RWLockInv
<1>5. q.list # <<>> => state[Head(q.list)] = "QueuingW"
  <2> SUFFICES ASSUME q.list # <<>> PROVE state[Head(q.list)] = "QueuingW"
    OBVIOUS
  <2>1. Head(q.list) \in QLp /\ Head(q.list) \in inuse
    BY TailFacts DEF QLocksInv, Types, ChainInv, Listed
  <2>2. PICK s \in Proc : mp[s] = Head(q.list)
    BY <2>1 DEF QLocksInv, ChainInv
  <2>3. state[Head(q.list)] \in {"QueuingR", "QueuingW"}
    BY <1>2, <2>1, <2>2, QLocksAssumption, SMT DEF QLocksInv, RWLockInv
  <2> QED
    BY <2>3, <1>4 DEF ReaderFirst
<1>6. ~Chosen(p) /\ mp[p] = None
  BY <1>1, NotBusy DEF Chosen
<1>7. CASE /\ q.readers > 1 \/ (q.readers = 1 /\ q.list = <<>>)
           /\ q' = [q EXCEPT !.readers = @ - 1]
           /\ pc' = [pc EXCEPT ![p] = "out"] /\ tgt' = tgt
  <2>0. q.readers - 1 \in Nat
    BY <1>4, SMT
  <2>1. /\ q'.locked = q.locked /\ q'.list = q.list
        /\ q'.readers = q.readers - 1 /\ q'.writer = q.writer
        /\ q' \in [locked : BOOLEAN, readers : Nat, writer : BOOLEAN, list : Seq(QLp)]
    BY <1>7, <2>0 DEF QLocksInv, Types
  <2>2. Types'
    BY <1>1, <1>7, <2>1 DEF QLocksInv, Types, RendTypeOK, rendvars, Pc
  <2>3. "out" \in Pc \ Busy
    BY DEF Pc, Busy, Waiting
  <2>4. GroupInv' /\ ChainInv' /\ WakeInv' /\ \A s \in Proc : Chosen(s)' = Chosen(s)
    BY <1>1, <1>7, <2>1, <2>3, PlainKept
  <2>5. pc'[p] = "out" /\ \A s \in Proc \ {p} : pc'[s] = pc[s]
    BY <1>7 DEF QLocksInv, Types
  <2>6. \A s \in Proc : HasR(s)' <=> HasR(s) /\ s # p
    BY <2>4, <2>5, <1>6 DEF HasR
  <2>7. \A s \in Proc : ~HasW(s)'
    BY <1>4, <2>4, <2>5 DEF HasW
  <2>8. q'.readers = Cardinality(Readers')
    BY <1>4, <2>1, <2>6, ReaderGoes
  <2>9. q'.list # <<>> => q'.readers > 0
    BY <1>4, <1>7, <2>1, SMT
  <2>10. \A s \in Proc : mp'[s] # None =>
             /\ pc'[s] # "wake"
             /\ state'[mp'[s]] = IF pc'[s] = "waitr" THEN "QueuingR" ELSE "QueuingW"
    BY <1>1, <1>2, <1>6, <2>5 DEF QLocksInv, RWLockInv
  <2>11. ~ReaderFirst' /\ ~q'.writer
    BY <1>1, <1>4, <2>1 DEF ReaderFirst
  <2>12. RWLockInv'
    BY <1>1, <1>2, <2>1, <2>5, <2>7, <2>8, <2>9, <2>10, <2>11, ZenonT(40)
       DEF QLocksInv, RWLockInv, RWPcs
  <2> QED
    BY <1>3, <2>2, <2>4, <2>12 DEF QLocksInv
<1>8. CASE /\ q.readers = 1 /\ q.list # <<>>
           /\ q' = [q EXCEPT !.readers = 0, !.writer = TRUE, !.list = Tail(@)]
           /\ tgt' = [tgt EXCEPT ![p] = Head(q.list)] /\ pc' = [pc EXCEPT ![p] = "wake"]
  <2>0. Tail(q.list) \in Seq(QLp) /\ Head(q.list) \in QLp /\ 0 \in Nat
    BY <1>8, SMT DEF QLocksInv, Types
  <2>1. /\ q'.locked = q.locked /\ q'.list = Tail(q.list) /\ q'.readers = 0 /\ q'.writer
        /\ q' \in [locked : BOOLEAN, readers : Nat, writer : BOOLEAN, list : Seq(QLp)]
    BY <1>8, <2>0 DEF QLocksInv, Types
  <2>2. Types'
    BY <1>1, <1>8, <2>0, <2>1 DEF QLocksInv, Types, RendTypeOK, rendvars, Pc
  <2>3. GroupInv' /\ ChainInv' /\ WakeInv'
    BY <1>1, <1>8, <2>1, HandKept
  <2>4. PICK s \in Proc \ {p} : /\ mp[s] = Head(q.list) /\ ~Chosen(s)
                                /\ \A u \in Proc : Chosen(u)' <=> Chosen(u) \/ u = s
    BY <1>1, <1>8, <2>1, HandKept
  <2>5. pc'[p] = "wake" /\ \A u \in Proc \ {p} : pc'[u] = pc[u]
    BY <1>8 DEF QLocksInv, Types
  <2>6. pc[s] = "waitw"
    <3>1. mp[s] # None /\ state[mp[s]] = "QueuingW"
      BY <1>5, <1>8, <2>0, <2>4, QLocksAssumption
    <3> QED
      BY <1>2, <3>1 DEF QLocksInv, ChainInv, RWLockInv, RWPcs, Waiting
  <2>7. \A u \in Proc : HasR(u)' <=> HasR(u) /\ u # p
    BY <1>6, <2>4, <2>5, <2>6 DEF HasR
  <2>8. Cardinality(Readers') = 0
    BY <1>4, <1>8, <2>7, ReaderGoes, SMT
  <2>9. \A u \in Proc : ~HasR(u)'
    <3>1. Cardinality(Readers') = 0 <=> Readers' = {}
      <4>1. Readers' \in SUBSET Proc
        BY DEF Readers
      <4> QED
        BY <4>1 DEF Counted
    <3> QED
      BY <3>1, <2>8 DEF Readers
  <2>10. \A u \in Proc : HasW(u)' => u = s
    BY <1>4, <2>4, <2>5 DEF HasW
  <2>11. \A u \in Proc : mp'[u] # None =>
             /\ pc'[u] # "wake"
             /\ state'[mp'[u]] = IF pc'[u] = "waitr" THEN "QueuingR" ELSE "QueuingW"
    BY <1>1, <1>2, <1>6, <2>5, SMT DEF QLocksInv, RWLockInv
  <2>12. RWLockInv'
    <3>1. q'.readers = 0 /\ ~(q'.readers > 0) /\ q'.readers = Cardinality(Readers')
      BY <2>1, <2>8, SMT
    <3>2. \A u \in Proc : pc'[u] \in RWPcs /\ (pc'[u] = "loop" => locker' = u)
      BY <1>1, <1>2, <2>5 DEF QLocksInv, RWLockInv, RWPcs
    <3>3. ~q'.locked /\ r' = <<>> /\ locker' = NoProc /\ q'.writer
      BY <1>1, <1>2, <2>1 DEF QLocksInv, RWLockInv
    <3> QED
      BY <2>9, <2>10, <2>11, <3>1, <3>2, <3>3 DEF RWLockInv
  <2> QED
    BY <1>3, <2>2, <2>3, <2>12 DEF QLocksInv
<1>9. ~(q.readers <= 0) /\ ~(q.readers = 1 /\ q.list # <<>> /\ state[Head(q.list)] # "QueuingW")
  BY <1>4, <1>5, SMT
<1> QED
  BY <1>7, <1>8, <1>9 DEF Runlock, Goes

\* wunlock's section: freed, handed to a writer, or the readers are let in.
LEMMA WunlockKeeps ==
  ASSUME Counted, QLocksInv, NEW p \in Proc, Wunlock(p)
  PROVE  QLocksInv'
<1>1. /\ kind' = kind /\ pc[p] = "wlock" /\ pc[p] \notin Busy /\ locker = NoProc
      /\ UNCHANGED <<rendvars, r, inuse, state, mp>>
  BY DEF Wunlock, Enters, Abort, Busy, Waiting
<1>2. kind = "RWLock"
  BY <1>1 DEF QLocksInv, Types, QLockInv
<1>3. QLockInv'
  BY <1>1, <1>2 DEF QLockInv
<1>4. /\ HasW(p) /\ q.writer /\ q.readers = 0 /\ \A s \in Proc : ~HasR(s) /\ (HasW(s) => s = p)
      /\ \A s \in Proc : pc[s] # "loop"
  <2>1. HasW(p)
    BY <1>1 DEF HasW
  <2>2. q.writer /\ \A s \in Proc : ~HasR(s) /\ (HasW(s) => s = p)
    BY <1>2, <2>1 DEF QLocksInv, RWLockInv
  <2>3. q.readers = 0
    BY <1>2, <2>2, ReadersCount DEF QLocksInv, RWLockInv
  <2>4. \A s \in Proc : pc[s] # "loop"
    BY <1>1, <1>2, NoneAssumption DEF QLocksInv, RWLockInv
  <2> QED
    BY <2>1, <2>2, <2>3, <2>4
<1>5. ~Chosen(p) /\ mp[p] = None
  BY <1>1, NotBusy DEF Chosen
<1>6. CASE /\ q.list = <<>> /\ q' = [q EXCEPT !.writer = FALSE]
           /\ pc' = [pc EXCEPT ![p] = "out"] /\ UNCHANGED <<locker, tgt>>
  <2>1. /\ q'.locked = q.locked /\ q'.list = q.list /\ q'.readers = q.readers /\ ~q'.writer
        /\ q' \in [locked : BOOLEAN, readers : Nat, writer : BOOLEAN, list : Seq(QLp)]
    BY <1>6 DEF QLocksInv, Types
  <2>2. Types'
    BY <1>1, <1>6, <2>1 DEF QLocksInv, Types, RendTypeOK, rendvars, Pc
  <2>3. "out" \in Pc \ Busy
    BY ZenonT(40) DEF Pc, Busy, Waiting
  <2>4. GroupInv' /\ ChainInv' /\ WakeInv' /\ \A s \in Proc : Chosen(s)' = Chosen(s)
    BY <1>1, <1>6, <2>1, <2>3, PlainKept
  <2>5. pc'[p] = "out" /\ \A s \in Proc \ {p} : pc'[s] = pc[s]
    BY <1>6 DEF QLocksInv, Types
  <2>6. \A s \in Proc : ~HasR(s)' /\ ~HasW(s)'
    BY <1>4, <1>5, <2>4, <2>5 DEF HasR, HasW
  <2>7. Cardinality(Readers') = Cardinality(Readers)
    BY <1>4, <2>6, ReadersStay
  <2>8. \A s \in Proc : mp'[s] # None =>
             /\ pc'[s] # "wake"
             /\ state'[mp'[s]] = IF pc'[s] = "waitr" THEN "QueuingR" ELSE "QueuingW"
    BY <1>1, <1>2, <1>5, <2>5 DEF QLocksInv, RWLockInv
  <2>9. RWLockInv'
    BY <1>1, <1>2, <1>4, <1>6, <2>1, <2>5, <2>6, <2>7, <2>8, SMTT(30)
       DEF QLocksInv, RWLockInv, RWPcs
  <2> QED
    BY <1>3, <2>2, <2>4, <2>9, ZenonT(40) DEF QLocksInv
<1>7. CASE /\ q.list # <<>> /\ state[Head(q.list)] = "QueuingW"
           /\ q' = [q EXCEPT !.list = Tail(@)]
           /\ tgt' = [tgt EXCEPT ![p] = Head(q.list)] /\ pc' = [pc EXCEPT ![p] = "wake"]
           /\ UNCHANGED locker
  <2>0. Tail(q.list) \in Seq(QLp) /\ Head(q.list) \in QLp
    BY <1>7, SMT DEF QLocksInv, Types
  <2>1. /\ q'.locked = q.locked /\ q'.list = Tail(q.list)
        /\ q'.readers = q.readers /\ q'.writer = q.writer
        /\ q' \in [locked : BOOLEAN, readers : Nat, writer : BOOLEAN, list : Seq(QLp)]
    BY <1>7, <2>0 DEF QLocksInv, Types
  <2>2. Types'
    BY <1>1, <1>7, <2>0, <2>1 DEF QLocksInv, Types, RendTypeOK, rendvars, Pc
  <2>3. GroupInv' /\ ChainInv' /\ WakeInv'
    BY <1>1, <1>7, <2>1, HandKept
  <2>4. PICK s \in Proc \ {p} : /\ mp[s] = Head(q.list) /\ ~Chosen(s)
                                /\ \A u \in Proc : Chosen(u)' <=> Chosen(u) \/ u = s
    BY <1>1, <1>7, <2>1, HandKept
  <2>5. pc'[p] = "wake" /\ \A u \in Proc \ {p} : pc'[u] = pc[u]
    BY <1>7 DEF QLocksInv, Types
  <2>6. pc[s] = "waitw"
    <3>1. mp[s] # None /\ state[mp[s]] = "QueuingW"
      BY <1>7, <2>0, <2>4, QLocksAssumption
    <3> QED
      BY <1>2, <3>1, ZenonT(40) DEF QLocksInv, ChainInv, RWLockInv, RWPcs, Waiting
  <2>7. \A u \in Proc : ~HasR(u)' /\ (HasW(u)' => u = s)
    BY <1>4, <1>5, <2>4, <2>5, <2>6 DEF HasR, HasW
  <2>8. Cardinality(Readers') = Cardinality(Readers)
    BY <1>4, <2>7, ReadersStay
  <2>9. \A u \in Proc : mp'[u] # None =>
             /\ pc'[u] # "wake"
             /\ state'[mp'[u]] = IF pc'[u] = "waitr" THEN "QueuingR" ELSE "QueuingW"
    BY <1>1, <1>2, <1>5, <2>5, SMTT(30) DEF QLocksInv, RWLockInv
  <2>10. RWLockInv'
    BY <1>1, <1>2, <1>4, <1>7, <2>1, <2>5, <2>7, <2>8, <2>9, SMTT(30)
       DEF QLocksInv, RWLockInv, RWPcs
  <2> QED
    BY <1>3, <2>2, <2>3, <2>10, ZenonT(40) DEF QLocksInv
<1>8. CASE /\ q.list # <<>> /\ state[Head(q.list)] = "QueuingR" /\ locker' = p
           /\ pc' = [pc EXCEPT ![p] = "loop"] /\ UNCHANGED <<q, tgt>>
  <2>2. Types'
    BY <1>1, <1>8 DEF QLocksInv, Types, RendTypeOK, rendvars, Pc
  <2>3. "loop" \in Pc \ Busy
    BY DEF Pc, Busy, Waiting
  <2>4. GroupInv' /\ ChainInv' /\ WakeInv' /\ \A s \in Proc : Chosen(s)' = Chosen(s)
    BY <1>1, <1>8, <2>3, PlainKept
  <2>5. pc'[p] = "loop" /\ \A s \in Proc \ {p} : pc'[s] = pc[s]
    BY <1>8 DEF QLocksInv, Types
  <2>6. \A s \in Proc : ~HasR(s)' /\ ~HasW(s)'
    BY <1>4, <1>5, <2>4, <2>5 DEF HasR, HasW
  <2>7. Cardinality(Readers') = Cardinality(Readers)
    BY <1>4, <2>6, ReadersStay, ZenonT(40)
  <2>8. \A s \in Proc : mp'[s] # None =>
             /\ pc'[s] # "wake"
             /\ state'[mp'[s]] = IF pc'[s] = "waitr" THEN "QueuingR" ELSE "QueuingW"
    BY <1>1, <1>2, <1>5, <2>5 DEF QLocksInv, RWLockInv
  <2>9. ReaderFirst'
    BY <1>1, <1>8 DEF ReaderFirst
  <2>10. RWLockInv'
    BY <1>1, <1>2, <1>4, <1>8, <2>5, <2>6, <2>7, <2>8, <2>9, NoneAssumption, SMTT(30)
       DEF QLocksInv, RWLockInv, RWPcs
  <2> QED
    BY <1>3, <2>2, <2>4, <2>10, ZenonT(40) DEF QLocksInv
<1> QED
  BY <1>4, <1>6, <1>7, <1>8 DEF Wunlock, Goes

\* wunlock's loop over the readers at the head of the list.
LEMMA WunlockLoopKeeps ==
  ASSUME Counted, QLocksInv, NEW p \in Proc, WunlockLoop(p)
  PROVE  QLocksInv'
<1>1. /\ kind' = kind /\ pc[p] = "loop" /\ pc[p] \notin Busy
      /\ UNCHANGED <<rendvars, r, inuse, state, mp>>
  BY DEF WunlockLoop, Busy, Waiting
<1>2. kind = "RWLock"
  BY <1>1 DEF QLocksInv, Types, QLockInv
<1>3. QLockInv'
  BY <1>1, <1>2 DEF QLockInv
<1>4. /\ locker = p /\ locker # NoProc /\ q.writer /\ \A s \in Proc : ~HasW(s)
      /\ q.readers \in Nat /\ q.readers = Cardinality(Readers)
      /\ \A s \in Proc \ {p} : pc[s] # "loop"
  BY <1>1, <1>2, NoneAssumption, SMT DEF QLocksInv, RWLockInv, Types
<1>5. ~Chosen(p) /\ mp[p] = None
  BY <1>1, NotBusy DEF Chosen
<1>6. CASE /\ q.list # <<>> /\ state[Head(q.list)] = "QueuingR"
           /\ q' = [q EXCEPT !.list = Tail(@), !.readers = @ + 1]
           /\ tgt' = [tgt EXCEPT ![p] = Head(q.list)] /\ pc' = [pc EXCEPT ![p] = "wake"]
           /\ UNCHANGED locker
  <2>0. Tail(q.list) \in Seq(QLp) /\ Head(q.list) \in QLp /\ q.readers + 1 \in Nat
    BY <1>4, <1>6, SMT DEF QLocksInv, Types
  <2>1. /\ q'.locked = q.locked /\ q'.list = Tail(q.list)
        /\ q'.readers = q.readers + 1 /\ q'.writer = q.writer
        /\ q' \in [locked : BOOLEAN, readers : Nat, writer : BOOLEAN, list : Seq(QLp)]
    BY <1>6, <2>0 DEF QLocksInv, Types
  <2>2. Types'
    BY <1>1, <1>6, <2>0, <2>1 DEF QLocksInv, Types, RendTypeOK, rendvars, Pc
  <2>3. GroupInv' /\ ChainInv' /\ WakeInv'
    BY <1>1, <1>6, <2>1, HandKept
  <2>4. PICK s \in Proc \ {p} : /\ mp[s] = Head(q.list) /\ ~Chosen(s)
                                /\ \A u \in Proc : Chosen(u)' <=> Chosen(u) \/ u = s
    BY <1>1, <1>6, <2>1, HandKept
  <2>5. pc'[p] = "wake" /\ \A u \in Proc \ {p} : pc'[u] = pc[u]
    BY <1>6 DEF QLocksInv, Types
  <2>6. pc[s] = "waitr"
    <3>1. mp[s] # None /\ state[mp[s]] = "QueuingR"
      BY <1>6, <2>0, <2>4, QLocksAssumption
    <3> QED
      BY <1>2, <3>1 DEF QLocksInv, RWLockInv
  <2>7. ~HasR(s) /\ \A u \in Proc : HasR(u)' <=> HasR(u) \/ u = s
    BY <1>1, <1>5, <2>4, <2>5, <2>6 DEF HasR
  <2>8. \A u \in Proc : ~HasW(u)'
    BY <1>4, <2>4, <2>5, <2>6 DEF HasW
  <2>9. q'.readers = Cardinality(Readers')
    BY <1>4, <2>1, <2>7, ReaderComes
  <2>10. \A u \in Proc : mp'[u] # None =>
             /\ pc'[u] # "wake"
             /\ state'[mp'[u]] = IF pc'[u] = "waitr" THEN "QueuingR" ELSE "QueuingW"
    BY <1>1, <1>2, <1>5, <2>5, SMTT(30) DEF QLocksInv, RWLockInv
  <2>11. RWLockInv'
    BY <1>1, <1>2, <1>4, <1>6, <2>1, <2>5, <2>8, <2>9, <2>10, SMTT(30)
       DEF QLocksInv, RWLockInv, RWPcs
  <2> QED
    BY <1>3, <2>2, <2>3, <2>11, ZenonT(40) DEF QLocksInv
<1>7. CASE /\ ~ReaderFirst /\ q' = [q EXCEPT !.writer = FALSE] /\ locker' = NoProc
           /\ pc' = [pc EXCEPT ![p] = "out"] /\ UNCHANGED tgt
  <2>1. /\ q'.locked = q.locked /\ q'.list = q.list /\ q'.readers = q.readers /\ ~q'.writer
        /\ q' \in [locked : BOOLEAN, readers : Nat, writer : BOOLEAN, list : Seq(QLp)]
    BY <1>7 DEF QLocksInv, Types
  <2>2. Types'
    BY <1>1, <1>7, <2>1 DEF QLocksInv, Types, RendTypeOK, rendvars, Pc
  <2>3. "out" \in Pc \ Busy
    BY ZenonT(40) DEF Pc, Busy, Waiting
  <2>4. GroupInv' /\ ChainInv' /\ WakeInv' /\ \A s \in Proc : Chosen(s)' = Chosen(s)
    BY <1>1, <1>7, <2>1, <2>3, PlainKept
  <2>5. pc'[p] = "out" /\ \A s \in Proc \ {p} : pc'[s] = pc[s]
    BY <1>7 DEF QLocksInv, Types
  <2>6. \A s \in Proc : (HasR(s)' <=> HasR(s)) /\ ~HasW(s)'
    BY <1>1, <1>4, <1>5, <2>4, <2>5 DEF HasR, HasW
  <2>7. Cardinality(Readers') = Cardinality(Readers)
    BY <2>6, ReadersStay
  <2>8. \A s \in Proc : mp'[s] # None =>
             /\ pc'[s] # "wake"
             /\ state'[mp'[s]] = IF pc'[s] = "waitr" THEN "QueuingR" ELSE "QueuingW"
    BY <1>1, <1>2, <1>5, <2>5, SMT DEF QLocksInv, RWLockInv
  <2>9. q.readers > 0 /\ ~ReaderFirst'
    BY <1>1, <1>2, <1>4, <1>7, <2>1 DEF QLocksInv, RWLockInv, ReaderFirst
  <2>10. RWLockInv'
    BY <1>1, <1>2, <1>4, <1>7, <2>1, <2>5, <2>6, <2>7, <2>8, <2>9, SMTT(30)
       DEF QLocksInv, RWLockInv, RWPcs
  <2> QED
    BY <1>3, <2>2, <2>4, <2>10, ZenonT(40) DEF QLocksInv
<1> QED
  BY <1>6, <1>7 DEF WunlockLoop, Goes, ReaderFirst
-----------------------------------------------------------------------------
(* The rendezvous.                                                          *)

\* What its operations do to the table.
LEMMA ReadyFacts ==
  ASSUME NEW t \in Table, NEW p \in Proc
  PROVE  /\ Ready(t, p) \in Table /\ Ready(t, p).up = t.up
         /\ Ready(t, p).state = [t.state EXCEPT ![p] = "Ready"]
BY DEF Ready, Setstate, Table, State

\* What the calls' steps do to the table.
LEMMA TableFacts ==
  ASSUME NEW t \in Table, NEW p \in Proc
  PROVE  /\ /\ Ready(t, p) \in Table /\ Ready(t, p).up = t.up
            /\ Ready(t, p).state = [t.state EXCEPT ![p] = "Ready"]
         /\ /\ Interrupted(t, p) \in Table /\ Interrupted(t, p).up = t.up
            /\ Interrupted(t, p).state = t.state
         /\ LET u == Left(Setstate(Enter(t, p), p, "Rendezvous"), p) IN
            /\ u \in Table /\ u.up = NoProc
            /\ u.state = [t.state EXCEPT ![p] = "Rendezvous"]
         /\ t.state[p] = "Rendezvous" =>
            /\ Postnote(t, p) \in Table /\ Postnote(t, p).up = t.up
            /\ Postnote(t, p).state = [t.state EXCEPT ![p] = "Ready"]
<1>1. /\ Ready(t, p) \in Table /\ Ready(t, p).up = t.up
      /\ Ready(t, p).state = [t.state EXCEPT ![p] = "Ready"]
  BY ReadyFacts
<1>2. /\ Interrupted(t, p) \in Table /\ Interrupted(t, p).up = t.up
      /\ Interrupted(t, p).state = t.state
  BY DEF Interrupted, Table
<1>3. PICK e : e = Setstate(Enter(t, p), p, "Rendezvous")
  OBVIOUS
<1>4. e \in Table /\ e.state = [t.state EXCEPT ![p] = "Rendezvous"]
  <2>1. PICK n : n = Enter(t, p)
    OBVIOUS
  <2>2. n \in Table /\ n.state = [t.state EXCEPT ![p] = "Running"]
    BY <2>1 DEF Enter, Table, State
  <2>3. e \in Table /\ e.state = [n.state EXCEPT ![p] = "Rendezvous"]
    BY <1>3, <2>1, <2>2 DEF Setstate, Table, State
  <2> QED
    BY <2>2, <2>3, SMT DEF Table
<1>5. e.state[p] = "Rendezvous"
  BY <1>4 DEF Table
<1>6. /\ Left(e, p) \in Table /\ Left(e, p).up = NoProc
      /\ Left(e, p).state = [t.state EXCEPT ![p] = "Rendezvous"]
  <2>1. Left(e, p) = [e EXCEPT !.up = NoProc, !.state[p] = "Rendezvous"]
    BY <1>5 DEF Left
  <2>a. [e.state EXCEPT ![p] = "Rendezvous"] \in [Proc -> State]
    BY <1>4 DEF Table, State
  <2>2. Left(e, p) \in Table /\ Left(e, p).up = NoProc
    BY <1>4, <2>1, <2>a DEF Table
  <2>3. Left(e, p).state = [e.state EXCEPT ![p] = "Rendezvous"]
    BY <1>4, <2>1 DEF Table
  <2>4. [e.state EXCEPT ![p] = "Rendezvous"] = [t.state EXCEPT ![p] = "Rendezvous"]
    BY <1>4 DEF Table
  <2> QED
    BY <2>2, <2>3, <2>4
<1>7. ASSUME t.state[p] = "Rendezvous"
      PROVE  /\ Postnote(t, p) \in Table /\ Postnote(t, p).up = t.up
             /\ Postnote(t, p).state = [t.state EXCEPT ![p] = "Ready"]
  <2>1. PICK n : n = [t EXCEPT !.notepending[p] = TRUE]
    OBVIOUS
  <2>2. n \in Table /\ n.up = t.up /\ n.state = t.state
    BY <2>1 DEF Table
  <2>3. Postnote(t, p) = Ready(n, p)
    BY <1>7, <2>1 DEF Postnote
  <2> QED
    BY <2>2, <2>3, ReadyFacts, SMT
<1> QED
  BY <1>1, <1>2, <1>3, <1>6, <1>7

\* NonePassedBy's second part, of the group as a set.
TagsApart ==
    Distinct(rgrp) /\ \A s, u \in Range(rgrp) : rendtag[s] = rendtag[u] => s = u

\* The two ways of saying that no two in the group wait with one tag.
LEMMA Apart ==
  TagsApart <=> \A i, j \in DOMAIN rgrp : rendtag[rgrp[i]] = rendtag[rgrp[j]] => i = j
BY SMT DEF TagsApart, Distinct, Range

\* The group after a step: each of its processes is where it was, one left, or
\* one came whose tag is new; p's call is in order.
LEMMA GroupStep ==
  ASSUME QLocksInv, NEW p \in Proc,
         procs' \in Table, procs'.up = NoProc,
         \A s \in Proc : procs'.state[s] \in {"Ready", "Rendezvous"},
         \A s \in Proc : procs'.state[s] = "Rendezvous" <=> s \in Range(rgrp'),
         TagsApart',
         \A s \in Range(rgrp') : s \in Proc /\ rendtag'[s] # NoTag /\ rendval'[s] = Part(s)',
         \A s \in Proc : rendtag'[s] # NoTag =>
            /\ pc'[s] \in Busy /\ rendtag'[s] = With(s)'
            /\ procs'.state[s] = "Ready" => rendval'[s] \in {Broken0, Counterpart(s)'}
  PROVE  GroupInv'
<1>1. NonePassedBy'
  <2>1. \A i, j \in DOMAIN rgrp' : rendtag'[rgrp'[i]] = rendtag'[rgrp'[j]] => i = j
    BY SMT DEF TagsApart, Distinct, Range
  <2> QED
    BY <2>1 DEF NonePassedBy
<1> QED
  BY <1>1 DEF GroupInv, Busy

\* What GroupInv says of the group.
LEMMA GroupFacts ==
  ASSUME QLocksInv
  PROVE  /\ procs \in Table /\ procs.up = NoProc
         /\ rgrp \in Seq(Proc) /\ TagsApart
         /\ \A s \in Proc : procs.state[s] \in {"Ready", "Rendezvous"}
         /\ \A s \in Proc : procs.state[s] = "Rendezvous" <=> s \in Range(rgrp)
         /\ \A s \in Range(rgrp) : s \in Proc /\ rendtag[s] # NoTag /\ rendval[s] = Part(s)
         /\ \A s \in Proc : rendtag[s] # NoTag =>
            /\ pc[s] \in Busy /\ rendtag[s] = With(s)
            /\ procs.state[s] = "Ready" => rendval[s] \in {Broken0, Counterpart(s)}
<1>1. \A s \in Range(rgrp) : s \in Proc
  BY SMT DEF QLocksInv, Types, RendTypeOK, Range
<1>2. TagsApart
  BY Apart DEF QLocksInv, GroupInv, NonePassedBy
<1> QED
  BY <1>1, <1>2 DEF QLocksInv, Types, RendTypeOK, GroupInv, NonePassedBy, Busy

\* Who is about to meet meets its counterpart, on the QLp of the one that waits.
LEMMA Counterparts ==
  ASSUME QLocksInv, NEW p \in Proc, pc[p] \in Busy, rendtag[p] = NoTag,
         NEW s \in Range(rgrp), rendtag[s] = With(p)
  PROVE  /\ s \in Proc /\ s # p /\ With(s) = With(p)
         /\ pc[s] \in Busy /\ (pc[s] = "wake" <=> pc[p] # "wake")
         /\ rendval[s] = Counterpart(p) /\ Part(p) = Counterpart(s)
<1>1. /\ s \in Proc /\ s # p /\ pc[s] \in Busy /\ With(s) = With(p) /\ rendval[s] = Part(s)
      /\ rendtag[s] # NoTag
  BY GroupFacts
<1>2. ~(pc[s] # "wake" /\ pc[p] # "wake")
  BY <1>1 DEF With, QLocksInv, ChainInv, Busy
<1>3. ~(pc[s] = "wake" /\ pc[p] = "wake")
  <2> SUFFICES ASSUME pc[s] = "wake", pc[p] = "wake" PROVE FALSE
    OBVIOUS
  <2>1. Waking(p) /\ Waking(s) /\ tgt[p] = tgt[s]
    BY <1>1 DEF Waking, With, Part, QLocksInv, ChainInv
  <2> QED
    BY <1>1, <2>1 DEF QLocksInv, WakeInv
<1> QED
  BY <1>1, <1>2, <1>3 DEF Part, Counterpart

\* p meets s, and goes on.
Meets(p, i, s) ==
    /\ rendtag[p] = NoTag /\ i \in DOMAIN rgrp /\ s = rgrp[i] /\ pc[s] \in Busy
    /\ rgrp' = DeleteAt(rgrp, i)
    /\ rendval' = [rendval EXCEPT ![s] = Counterpart(s)]
    /\ procs' = Ready(procs, s) /\ rendtag' = rendtag
    /\ \A u \in Proc \ {p} : pc'[u] = pc[u] /\ mp'[u] = mp[u] /\ tgt'[u] = tgt[u]

\* A rendezvous that meets keeps what is said of the lock.
LEMMA MeetKept ==
  ASSUME QLocksInv, NEW p \in Proc, NEW i, NEW s \in Proc, Meets(p, i, s)
  PROVE  /\ RendTypeOK' /\ GroupInv'
         /\ rendval'[s] = Counterpart(s)
         /\ \A u \in Proc \ {s} : rendval'[u] = rendval[u]
<1>0. /\ rendtag[p] = NoTag /\ i \in DOMAIN rgrp /\ s = rgrp[i] /\ pc[s] \in Busy
      /\ rgrp' = DeleteAt(rgrp, i)
      /\ rendval' = [rendval EXCEPT ![s] = Counterpart(s)]
      /\ procs' = Ready(procs, s) /\ rendtag' = rendtag
      /\ \A u \in Proc \ {p} : pc'[u] = pc[u] /\ mp'[u] = mp[u] /\ tgt'[u] = tgt[u]
  BY DEF Meets
<1>1. /\ procs' \in Table /\ procs'.up = NoProc
      /\ procs'.state = [procs.state EXCEPT ![s] = "Ready"]
  BY <1>0, GroupFacts, TableFacts, ZenonT(40)
<1>2. /\ rgrp' \in Seq(Proc) /\ Range(rgrp') = Range(rgrp) \ {s} /\ Distinct(rgrp')
  <2>1. rgrp \in Seq(Proc) /\ Distinct(rgrp)
    BY GroupFacts DEF TagsApart
  <2> QED
    BY <1>0, <2>1, DeleteAtFacts
<1>3. /\ procs'.state[s] = "Ready" /\ \A u \in Proc \ {s} : procs'.state[u] = procs.state[u]
  BY <1>0, <1>1, GroupFacts, SMT DEF Table
<1>4. /\ rendval'[s] = Counterpart(s) /\ Counterpart(s) \in Val
      /\ \A u \in Proc \ {s} : rendval'[u] = rendval[u]
  BY <1>0, QLocksAssumption DEF QLocksInv, Types, RendTypeOK, Counterpart
<1>5. s \in Range(rgrp) /\ s # p /\ p \notin Range(rgrp)
  BY <1>0, GroupFacts DEF Range
<1>6. \A u \in Proc \ {p} : Part(u)' = Part(u) /\ Counterpart(u)' = Counterpart(u) /\ With(u)' = With(u)
  BY <1>0 DEF Part, Counterpart, With
<1>7. TagsApart'
  BY <1>0, <1>2, GroupFacts DEF TagsApart
<1>8. \A u \in Proc : procs'.state[u] \in {"Ready", "Rendezvous"}
  BY <1>0, <1>3, GroupFacts, ZenonT(40)
<1>9. \A u \in Proc : procs'.state[u] = "Rendezvous" <=> u \in Range(rgrp')
  <2> SUFFICES ASSUME NEW u \in Proc
               PROVE  procs'.state[u] = "Rendezvous" <=> u \in Range(rgrp')
    OBVIOUS
  <2>1. u = s => procs'.state[u] # "Rendezvous" /\ u \notin Range(rgrp')
    BY <1>2, <1>3
  <2>2. u # s => /\ procs'.state[u] = procs.state[u]
                 /\ u \in Range(rgrp') <=> u \in Range(rgrp)
    BY <1>2, <1>3
  <2>3. procs.state[u] = "Rendezvous" <=> u \in Range(rgrp)
    BY GroupFacts
  <2> QED
    BY <2>1, <2>2, <2>3
<1>10. \A u \in Range(rgrp') : u \in Proc /\ rendtag'[u] # NoTag /\ rendval'[u] = Part(u)'
  <2> SUFFICES ASSUME NEW u \in Range(rgrp')
               PROVE  u \in Proc /\ rendtag'[u] # NoTag /\ rendval'[u] = Part(u)'
    OBVIOUS
  <2>1. u \in Range(rgrp) /\ u # s /\ u # p
    BY <1>2, <1>5
  <2>2. u \in Proc /\ rendtag[u] # NoTag /\ rendval[u] = Part(u)
    BY <2>1, GroupFacts
  <2>3. rendval'[u] = rendval[u] /\ Part(u)' = Part(u)
    BY <1>4, <1>6, <2>1, <2>2
  <2> QED
    BY <1>0, <2>2, <2>3
<1>11. ASSUME NEW u \in Proc, rendtag'[u] # NoTag
       PROVE  /\ pc'[u] \in Busy /\ rendtag'[u] = With(u)'
              /\ procs'.state[u] = "Ready" => rendval'[u] \in {Broken0, Counterpart(u)'}
  <2>1. u # p /\ rendtag[u] # NoTag /\ rendtag'[u] = rendtag[u]
    BY <1>0, <1>11
  <2>2. /\ pc[u] \in Busy /\ rendtag[u] = With(u)
        /\ procs.state[u] = "Ready" => rendval[u] \in {Broken0, Counterpart(u)}
    BY <2>1, GroupFacts
  <2>3. pc'[u] = pc[u] /\ With(u)' = With(u) /\ Counterpart(u)' = Counterpart(u)
    BY <1>0, <1>6, <2>1
  <2>4. u = s => rendval'[u] = Counterpart(u)
    BY <1>4
  <2>5. u # s => rendval'[u] = rendval[u] /\ procs'.state[u] = procs.state[u]
    BY <1>3, <1>4
  <2> QED
    BY <2>1, <2>2, <2>3, <2>4, <2>5
<1>12. GroupInv'
  BY <1>1, <1>7, <1>8, <1>9, <1>10, <1>11, GroupStep
<1>13. RendTypeOK'
  BY <1>0, <1>1, <1>2, <1>4 DEF QLocksInv, Types, RendTypeOK
<1> QED
  BY <1>4, <1>12, <1>13

\* p waits to be found.
LEMMA AwaitKeeps ==
  ASSUME QLocksInv, NEW p \in Proc, pc[p] \in Busy, rendtag[p] = NoTag,
         Await(p, With(p), Part(p)),
         UNCHANGED <<kind, q, r, locker, state, inuse, mp, pc, tgt>>
  PROVE  QLocksInv'
<1>1. /\ procs' \in Table /\ procs'.up = NoProc
      /\ procs'.state = [procs.state EXCEPT ![p] = "Rendezvous"]
  BY GroupFacts, TableFacts DEF Await
<1>2. /\ rgrp' \in Seq(Proc) /\ Range(rgrp') = Range(rgrp) \cup {p} /\ Distinct(rgrp')
      /\ p \notin Range(rgrp)
  <2>1. p \notin Range(rgrp)
    BY GroupFacts
  <2> QED
    <3>1. rgrp \in Seq(Proc) /\ Distinct(rgrp) /\ rgrp' = Append(rgrp, p)
      BY GroupFacts DEF TagsApart, Await
    <3> QED
      BY <2>1, <3>1, AppendFacts, SMT
<1>3. /\ procs'.state[p] = "Rendezvous"
      /\ \A u \in Proc \ {p} : procs'.state[u] = procs.state[u]
  BY <1>1, GroupFacts DEF Table
<1>4. With(p) \in Tag /\ With(p) # NoTag /\ Part(p) \in Val
  BY QLocksAssumption, TagAssumption, SMTT(30) DEF QLocksInv, Types, ChainInv, With, Part, Busy, QLp
<1>5. /\ rendtag'[p] = With(p) /\ rendval'[p] = Part(p)
      /\ \A u \in Proc \ {p} : rendtag'[u] = rendtag[u] /\ rendval'[u] = rendval[u]
      /\ rendtag' \in [Proc -> Tag \cup {NoTag}] /\ rendval' \in [Proc -> Val \cup {Broken0}]
  BY <1>4, ZenonT(40) DEF QLocksInv, Types, RendTypeOK, Await
<1>6. \A u \in Proc : Part(u)' = Part(u) /\ Counterpart(u)' = Counterpart(u) /\ With(u)' = With(u)
  BY DEF Part, Counterpart, With
<1>7. TagsApart'
  <2>1. \A s \in Range(rgrp) : rendtag[s] # With(p)
    BY DEF Await, Range
  <2> QED
    <3>1. \A s, u \in Range(rgrp) : rendtag[s] = rendtag[u] => s = u
      BY GroupFacts DEF TagsApart
    <3>2. \A s \in Range(rgrp) : s \in Proc /\ s # p
      BY <1>2, GroupFacts
    <3>3. /\ rendtag'[p] = With(p)
          /\ \A s \in Range(rgrp) : rendtag'[s] = rendtag[s]
      BY <1>5, <3>2
    <3> SUFFICES ASSUME NEW s \in Range(rgrp'), NEW u \in Range(rgrp'), rendtag'[s] = rendtag'[u]
                 PROVE  s = u
      BY <1>2 DEF TagsApart
    <3>4. s \in Range(rgrp) \/ s = p
      BY <1>2
    <3>5. u \in Range(rgrp) \/ u = p
      BY <1>2
    <3> QED
      BY <2>1, <3>1, <3>3, <3>4, <3>5
<1>8. \A u \in Proc : procs'.state[u] \in {"Ready", "Rendezvous"}
  BY <1>3, GroupFacts
<1>9. \A u \in Proc : procs'.state[u] = "Rendezvous" <=> u \in Range(rgrp')
  BY <1>2, <1>3, GroupFacts, ZenonT(40)
<1>10. \A u \in Range(rgrp') : u \in Proc /\ rendtag'[u] # NoTag /\ rendval'[u] = Part(u)'
  <2> SUFFICES ASSUME NEW u \in Range(rgrp')
               PROVE  u \in Proc /\ rendtag'[u] # NoTag /\ rendval'[u] = Part(u)'
    OBVIOUS
  <2>1. u \in Range(rgrp) \/ u = p
    BY <1>2
  <2>2. u \in Range(rgrp) => u \in Proc /\ rendtag[u] # NoTag /\ rendval[u] = Part(u)
    BY GroupFacts
  <2> QED
    BY <1>2, <1>4, <1>5, <1>6, <2>1, <2>2
<1>11. ASSUME NEW u \in Proc, rendtag'[u] # NoTag
       PROVE  /\ pc'[u] \in Busy /\ rendtag'[u] = With(u)'
              /\ procs'.state[u] = "Ready" => rendval'[u] \in {Broken0, Counterpart(u)'}
  BY <1>3, <1>5, <1>6, <1>11, GroupFacts, SMTT(30)
<1>12. GroupInv'
  BY <1>1, <1>7, <1>8, <1>9, <1>10, <1>11, GroupStep
<1>13. Types'
  BY <1>1, <1>2, <1>5 DEF QLocksInv, Types, RendTypeOK
<1>14. \A u \in Proc : Found(u)' = Found(u) /\ Waking(u)' = Waking(u)
  BY <1>5 DEF Found, Waking, Part, QLocksInv, ChainInv
<1> QED
  BY <1>12, <1>13, <1>14, LockKept DEF Types

\* p returns from the call, and goes on.
LEMMA ReturnKept ==
  ASSUME QLocksInv, NEW p \in Proc, NEW answer, Return(p, answer),
         \A u \in Proc \ {p} : pc'[u] = pc[u] /\ mp'[u] = mp[u] /\ tgt'[u] = tgt[u]
  PROVE  /\ RendTypeOK' /\ GroupInv'
         /\ rendtag[p] # NoTag /\ rendtag'[p] = NoTag
         /\ pc[p] \in Busy /\ answer = rendval[p] /\ answer \in {Broken0, Counterpart(p)}
         /\ \A u \in Proc \ {p} : rendtag'[u] = rendtag[u] /\ rendval'[u] = rendval[u]
<1>1. /\ procs' \in Table /\ procs'.up = NoProc /\ procs'.state = procs.state
      /\ rgrp' = rgrp
  BY GroupFacts, TableFacts DEF Return
<1>2. /\ rendtag'[p] = NoTag /\ rendtag[p] # NoTag /\ procs.state[p] = "Ready"
      /\ answer = rendval[p]
      /\ \A u \in Proc \ {p} : rendtag'[u] = rendtag[u] /\ rendval'[u] = rendval[u]
      /\ rendtag' \in [Proc -> Tag \cup {NoTag}] /\ rendval' \in [Proc -> Val \cup {Broken0}]
  BY DEF QLocksInv, Types, RendTypeOK, Return, MayRun
<1>3. pc[p] \in Busy /\ answer \in {Broken0, Counterpart(p)} /\ p \notin Range(rgrp)
  BY <1>2, GroupFacts
<1>4. \A u \in Proc \ {p} : Part(u)' = Part(u) /\ Counterpart(u)' = Counterpart(u) /\ With(u)' = With(u)
  BY ZenonT(40) DEF Part, Counterpart, With
<1>5. TagsApart'
  <2>1. Distinct(rgrp) /\ \A s, u \in Range(rgrp) : rendtag[s] = rendtag[u] => s = u
    BY GroupFacts DEF TagsApart
  <2>2. \A s \in Range(rgrp) : s \in Proc
    BY GroupFacts
  <2>3. \A s \in Range(rgrp) : rendtag'[s] = rendtag[s]
    BY <1>2, <1>3, <2>2
  <2> QED
    BY <1>1, <2>1, <2>3 DEF TagsApart
<1>6. /\ \A u \in Proc : procs'.state[u] \in {"Ready", "Rendezvous"}
      /\ \A u \in Proc : procs'.state[u] = "Rendezvous" <=> u \in Range(rgrp')
  BY <1>1, GroupFacts
<1>7. \A u \in Range(rgrp') : u \in Proc /\ rendtag'[u] # NoTag /\ rendval'[u] = Part(u)'
  BY <1>1, <1>2, <1>3, <1>4, GroupFacts, SMTT(30)
<1>8. ASSUME NEW u \in Proc, rendtag'[u] # NoTag
      PROVE  /\ pc'[u] \in Busy /\ rendtag'[u] = With(u)'
             /\ procs'.state[u] = "Ready" => rendval'[u] \in {Broken0, Counterpart(u)'}
  BY <1>1, <1>2, <1>4, <1>8, GroupFacts, SMTT(30)
<1>9. GroupInv'
  BY <1>1, <1>5, <1>6, <1>7, <1>8, GroupStep
<1>10. RendTypeOK'
  BY <1>1, <1>2 DEF QLocksInv, Types, RendTypeOK
<1> QED
  BY <1>2, <1>3, <1>9, <1>10

\* p, whose the lock is, gives its QLp back and goes on with the lock.
LEMMA TakesKeeps ==
  ASSUME QLocksInv, NEW p \in Proc, NEW h \in Holding, pc[p] = WaitFor(h), Chosen(p),
         inuse' = inuse \ {mp[p]}, mp' = [mp EXCEPT ![p] = None],
         pc' = [pc EXCEPT ![p] = h],
         UNCHANGED <<kind, q, r, locker, state, tgt>>,
         RendTypeOK', GroupInv', ~Found(p)',
         \A u \in Proc : Waking(u)' => Waking(u) /\ tgt[u] # mp[p],
         \A u \in Proc : Found(u)' => Found(u)
  PROVE  QLocksInv'
<1>1. /\ mp'[p] = None /\ \A u \in Proc \ {p} : mp'[u] = mp[u]
      /\ pc'[p] = h /\ \A u \in Proc \ {p} : pc'[u] = pc[u]
      /\ mp[p] # None /\ mp[p] \in QLp /\ \A u \in Proc \ {p} : mp[u] # mp[p]
  BY SMTT(30) DEF QLocksInv, Types, ChainInv, Chosen
<1>2. Types'
  BY DEF QLocksInv, Types, Pc
<1>3. \A x : Listed(x)' = Listed(x)
  BY DEF Listed
<1>4. \A u \in Proc : Chosen(u)' <=> Chosen(u) /\ u # p
  BY <1>1, <1>3 DEF Chosen
<1>5. ChainInv'
  <2>1. \A x \in QLp : Listed(x)' => x \in inuse'
    BY <1>3 DEF QLocksInv, ChainInv, Chosen
  <2>2. \A x \in QLp : x \in inuse' <=> \E u \in Proc : mp'[u] = x
    BY <1>1, QLocksAssumption, SMTT(30) DEF QLocksInv, ChainInv
  <2>3. \A u, v \in Proc : mp'[u] = mp'[v] /\ mp'[u] # None => u = v
    BY <1>1, SMTT(30) DEF QLocksInv, ChainInv
  <2>4. h # "wake" /\ h \notin Waiting /\ pc[p] # "wake"
    BY DEF Holding, Waiting, WaitFor
  <2>5. /\ \A u \in Proc : mp'[u] # None => pc'[u] \in Waiting \cup {"wake"}
        /\ \A u \in Proc : pc'[u] \in Waiting => mp'[u] # None
        /\ \A u \in Proc : tgt'[u] # None <=> pc'[u] = "wake"
    BY <1>1, <2>4, SMTT(30) DEF QLocksInv, ChainInv
  <2> QED
    BY <2>1, <2>2, <2>3, <2>5 DEF QLocksInv, ChainInv
<1>6. WakeInv'
  <2>1. \A u \in Proc : Found(u)' => Chosen(u)'
    BY <1>4 DEF QLocksInv, WakeInv
  <2>2. \A u, v \in Proc : Waking(u)' /\ Waking(v)' /\ tgt'[u] = tgt'[v] => u = v
    BY DEF QLocksInv, WakeInv
  <2>3. ASSUME NEW u \in Proc, Waking(u)'
        PROVE  \E v \in Proc : v # u /\ mp'[v] = tgt'[u] /\ Chosen(v)' /\ ~Found(v)'
    <3>1. PICK v \in Proc : v # u /\ mp[v] = tgt[u] /\ Chosen(v) /\ ~Found(v)
      BY <2>3 DEF QLocksInv, WakeInv
    <3>2. v # p
      BY <2>3, <3>1
    <3> QED
      BY <3>1, <3>2, <1>1, <1>4
  <2> QED
    BY <2>1, <2>2, <2>3 DEF WakeInv
<1>7. \A u \in Proc : HasQ(u)' = HasQ(u) /\ HasR(u)' = HasR(u) /\ HasW(u)' = HasW(u)
  BY <1>1, <1>4 DEF HasQ, HasR, HasW, Holding, WaitFor
<1>8. QLockInv'
  <2> SUFFICES ASSUME kind = "QLock" PROVE QLockInv'
    BY DEF QLockInv
  <2>1. h = "qlock"
    BY DEF QLocksInv, QLockInv, Holding, WaitFor
  <2> QED
    BY <1>1, <1>7, <2>1 DEF QLocksInv, QLockInv
<1>9. RWLockInv'
  <2> SUFFICES ASSUME kind = "RWLock" PROVE RWLockInv'
    BY DEF RWLockInv
  <2>1. h \in {"rlock", "wlock"} /\ pc[p] \notin {"loop", "wake"}
    BY DEF QLocksInv, RWLockInv, RWPcs, Holding, WaitFor
  <2>2. Readers' = Readers /\ ReaderFirst' = ReaderFirst
    BY <1>7 DEF Readers, ReaderFirst
  <2>3. \A u \in Proc : pc'[u] \in RWPcs /\ (pc'[u] = "loop" => locker' = u)
    BY <1>1, <2>1 DEF QLocksInv, RWLockInv, RWPcs
  <2>4. \A u \in Proc : mp'[u] # None =>
             /\ pc'[u] # "wake"
             /\ state'[mp'[u]] = IF pc'[u] = "waitr" THEN "QueuingR" ELSE "QueuingW"
    <3>1. \A u \in Proc : mp[u] # None =>
             /\ pc[u] # "wake"
             /\ state[mp[u]] = IF pc[u] = "waitr" THEN "QueuingR" ELSE "QueuingW"
      BY DEF QLocksInv, RWLockInv
    <3> QED
      BY <1>1, <3>1, SMT
  <2>5. locker # NoProc => locker \in Proc \ {p} /\ pc'[locker] = pc[locker]
    BY <1>1, <2>1 DEF QLocksInv, RWLockInv, Types
  <2> QED
    BY <1>7, <2>2, <2>3, <2>4, <2>5 DEF QLocksInv, RWLockInv
<1> QED
  BY <1>2, <1>5, <1>6, <1>8, <1>9 DEF QLocksInv

\* p has met the process it was to wake, and goes on.
LEMMA WokenKeeps ==
  ASSUME QLocksInv, NEW p \in Proc, pc[p] = "wake",
         tgt' = [tgt EXCEPT ![p] = None],
         pc' = [pc EXCEPT ![p] = CASE mp[p] # None -> "waitq"
                                   [] locker = p   -> "loop"
                                   [] OTHER        -> "out"],
         UNCHANGED <<kind, q, r, locker, state, inuse, mp>>,
         RendTypeOK', GroupInv',
         \A u \in Proc : Waking(u)' => Waking(u) /\ u # p,
         \A u \in Proc : Found(u)' => Found(u) \/ (Waking(p) /\ mp[u] = tgt[p])
  PROVE  QLocksInv'
<1>0. PICK l : /\ pc' = [pc EXCEPT ![p] = l]
               /\ mp[p] # None => l = "waitq"
               /\ mp[p] = None /\ locker = p => l = "loop"
               /\ mp[p] = None /\ locker # p => l = "out"
  <2>0. mp[p] # None => locker # p
    BY NoneAssumption DEF QLocksInv, Types, QLockInv, RWLockInv
  <2>1. CASE mp[p] # None
    BY <2>0, <2>1
  <2>2. CASE mp[p] = None /\ locker = p
    BY <2>2
  <2>3. CASE mp[p] = None /\ locker # p
    BY <2>3
  <2> QED
    BY <2>1, <2>2, <2>3
<1>1. /\ tgt'[p] = None /\ \A u \in Proc \ {p} : tgt'[u] = tgt[u]
      /\ \A u \in Proc \ {p} : pc'[u] = pc[u]
      /\ mp[p] # None => pc'[p] = "waitq"
      /\ mp[p] = None /\ locker = p => pc'[p] = "loop"
      /\ mp[p] = None /\ locker # p => pc'[p] = "out"
      /\ pc'[p] \in {"waitq", "loop", "out"}
  <2>1. pc'[p] = l /\ \A u \in Proc \ {p} : pc'[u] = pc[u]
    BY <1>0 DEF QLocksInv, Types
  <2>2. tgt'[p] = None /\ \A u \in Proc \ {p} : tgt'[u] = tgt[u]
    BY DEF QLocksInv, Types
  <2> QED
    BY <1>0, <2>1, <2>2
<1>2. Types'
  <2>1. pc' \in [Proc -> Pc]
    BY <1>0, <1>1, SMT DEF QLocksInv, Types, Pc, Holding, WaitFor
  <2> QED
    BY <2>1 DEF QLocksInv, Types
<1>3. \A x : Listed(x)' = Listed(x)
  BY DEF Listed
<1>4. \A u \in Proc : Chosen(u)' = Chosen(u)
  BY <1>3 DEF Chosen
<1>5. ChainInv'
  <2>1. /\ \A u \in Proc : mp'[u] # None => pc'[u] \in Waiting \cup {"wake"}
        /\ \A u \in Proc : pc'[u] \in Waiting => mp'[u] # None
        /\ \A u \in Proc : tgt'[u] # None <=> pc'[u] = "wake"
    BY <1>1, SMT DEF QLocksInv, ChainInv, Waiting
  <2> QED
    BY <1>3, <2>1 DEF QLocksInv, ChainInv
<1>6. WakeInv'
  <2>0. Waking(p) => \E s \in Proc : mp[s] = tgt[p] /\ Chosen(s)
    BY DEF QLocksInv, WakeInv
  <2>1. \A u \in Proc : Found(u)' => Chosen(u)'
    <3> SUFFICES ASSUME NEW u \in Proc, Waking(p), mp[u] = tgt[p] PROVE Chosen(u)
      BY <1>4 DEF QLocksInv, WakeInv
    <3>1. PICK s \in Proc : mp[s] = tgt[p] /\ Chosen(s)
      BY <2>0
    <3> QED
      BY <3>1 DEF QLocksInv, ChainInv, Chosen
  <2>2. \A u, v \in Proc : Waking(u)' /\ Waking(v)' /\ tgt'[u] = tgt'[v] => u = v
    BY <1>1, SMT DEF QLocksInv, WakeInv
  <2>3. ASSUME NEW u \in Proc, Waking(u)'
        PROVE  \E v \in Proc : v # u /\ mp'[v] = tgt'[u] /\ Chosen(v)' /\ ~Found(v)'
    <3>1. PICK v \in Proc : v # u /\ mp[v] = tgt[u] /\ Chosen(v) /\ ~Found(v)
      BY <2>3 DEF QLocksInv, WakeInv
    <3>2. ~(Waking(p) /\ mp[v] = tgt[p])
      BY <2>3, <3>1 DEF QLocksInv, WakeInv
    <3> QED
      BY <2>3, <3>1, <3>2, <1>1, <1>4
  <2> QED
    BY <2>1, <2>2, <2>3 DEF WakeInv
<1>7. QLockInv'
  <2> SUFFICES ASSUME kind = "QLock" PROVE QLockInv'
    BY DEF QLockInv
  <2>1. locker = NoProc /\ locker # p
    BY NoneAssumption DEF QLocksInv, QLockInv
  <2>2. \A u \in Proc : HasQ(u)' => HasQ(u)
    BY <1>1, <1>4, <2>1 DEF HasQ, Chosen
  <2> QED
    BY <1>1, <2>1, <2>2 DEF QLocksInv, QLockInv
<1>8. RWLockInv'
  <2> SUFFICES ASSUME kind = "RWLock" PROVE RWLockInv'
    BY DEF RWLockInv
  <2>1. mp[p] = None /\ pc'[p] = IF locker = p THEN "loop" ELSE "out"
    BY <1>1 DEF QLocksInv, RWLockInv
  <2>2. \A u \in Proc : (HasR(u)' <=> HasR(u)) /\ (HasW(u)' <=> HasW(u))
    BY <1>1, <1>4, <2>1 DEF HasR, HasW
  <2>3. Readers' = Readers /\ (ReaderFirst' <=> ReaderFirst)
    BY <2>2 DEF Readers, ReaderFirst
  <2>4. \A u \in Proc : pc'[u] \in RWPcs /\ (pc'[u] = "loop" => locker' = u)
    BY <1>1, <2>1 DEF QLocksInv, RWLockInv, RWPcs
  <2>5. \A u \in Proc : mp'[u] # None =>
             /\ pc'[u] # "wake"
             /\ state'[mp'[u]] = IF pc'[u] = "waitr" THEN "QueuingR" ELSE "QueuingW"
    BY <1>1, <2>1, SMT DEF QLocksInv, RWLockInv
  <2>6. locker # NoProc => /\ pc'[locker] \in {"loop", "wake"}
                           /\ q.readers > 0 \/ (pc'[locker] = "loop" /\ ReaderFirst)
    BY <1>1, <2>1 DEF QLocksInv, RWLockInv, Types
  <2> QED
    BY <2>2, <2>3, <2>4, <2>5, <2>6 DEF QLocksInv, RWLockInv
<1> QED
  BY <1>2, <1>5, <1>6, <1>7, <1>8 DEF QLocksInv

\* The call is broken, and is made again.
LEMMA BrokenKeeps ==
  ASSUME QLocksInv, NEW p \in Proc, Return(p, Broken0),
         UNCHANGED <<kind, q, r, locker, state, inuse, mp, pc, tgt>>
  PROVE  QLocksInv'
<1>1. /\ RendTypeOK' /\ GroupInv' /\ rendtag'[p] = NoTag /\ rendval[p] = Broken0
      /\ \A u \in Proc \ {p} : rendtag'[u] = rendtag[u] /\ rendval'[u] = rendval[u]
  <2>1. \A u \in Proc \ {p} : pc'[u] = pc[u] /\ mp'[u] = mp[u] /\ tgt'[u] = tgt[u]
    OBVIOUS
  <2> QED
    BY <2>1, ReturnKept
<1>2. Broken0 # "waiter" /\ Broken0 # "waker"
  BY QLocksAssumption, TagAssumption
<1>3. \A u \in Proc : Found(u)' = Found(u) /\ Waking(u)' = Waking(u)
  BY <1>1, <1>2 DEF Found, Waking
<1> QED
  BY <1>1, <1>3, LockKept
-----------------------------------------------------------------------------
(* The actions that make the calls.                                         *)

\* rendezvous(mp, ..) by who waits: into the group, woken, broken or retried.
LEMMA WaitKeeps ==
  ASSUME QLocksInv, NEW p \in Proc, Wait(p)
  PROVE  QLocksInv'
<1>1. PICK h \in Holding, answer \in Val \cup {"asleep", Broken0} :
         /\ pc[p] = WaitFor(h)
         /\ Turn(p, mp[p], "waiter", answer)
         /\ IF Met(answer)
            THEN /\ inuse' = inuse \ {mp[p]}
                 /\ mp' = [mp EXCEPT ![p] = None]
                 /\ Goes(p, h)
            ELSE UNCHANGED <<inuse, mp, pc>>
         /\ UNCHANGED tgt
  BY DEF Wait
<1>2. /\ pc[p] \in Busy /\ pc[p] # "wake" /\ pc[p] \in Waiting
      /\ With(p) = mp[p] /\ Part(p) = "waiter" /\ Counterpart(p) = "waker"
      /\ mp[p] # None
  <2>1. pc[p] \in Waiting
    BY <1>1 DEF Holding, WaitFor, Waiting
  <2> QED
    BY <2>1 DEF Busy, Waiting, With, Part, Counterpart, QLocksInv, ChainInv
<1>3. UNCHANGED <<kind, q, r, locker, state, tgt>>
  BY <1>1 DEF Turn
<1>4. \A u \in Proc \ {p} : pc'[u] = pc[u] /\ mp'[u] = mp[u] /\ tgt'[u] = tgt[u]
  BY <1>1, <1>3 DEF Goes, QLocksInv, Types
<1>5. Met("waker") /\ ~Met("asleep") /\ ~Met(Broken0) /\ Broken0 # "waiter" /\ Broken0 # "waker"
  BY QLocksAssumption, TagAssumption DEF Met
<1>6. CASE rendtag[p] = NoTag /\ Meet(p, mp[p], "waiter", answer)
  <2>1. PICK i \in DOMAIN rgrp :
           /\ rendtag[rgrp[i]] = mp[p]
           /\ answer = rendval[rgrp[i]]
           /\ rgrp' = DeleteAt(rgrp, i)
           /\ rendval' = [rendval EXCEPT ![rgrp[i]] = "waiter"]
           /\ procs' = Ready(procs, rgrp[i])
           /\ UNCHANGED rendtag
    BY <1>6 DEF Meet
  <2>2. PICK s : s = rgrp[i]
    OBVIOUS
  <2>3. s \in Range(rgrp)
    BY <2>2 DEF Range
  <2>4. /\ s \in Proc /\ s # p /\ With(s) = With(p) /\ pc[s] \in Busy /\ pc[s] = "wake"
        /\ rendval[s] = "waker" /\ Counterpart(s) = "waiter"
    BY <1>2, <1>6, <2>1, <2>2, <2>3, Counterparts
  <2>5. answer = "waker" /\ tgt[s] = mp[p] /\ tgt[s] # None
    BY <1>2, <2>1, <2>2, <2>4 DEF With
  <2>m. /\ rgrp' = DeleteAt(rgrp, i) /\ rendval' = [rendval EXCEPT ![s] = Counterpart(s)]
        /\ procs' = Ready(procs, s) /\ rendtag' = rendtag
    BY <2>1, <2>2, <2>4
  <2>n. /\ RendTypeOK' /\ GroupInv' /\ rendval'[s] = Counterpart(s)
        /\ \A u \in Proc \ {s} : rendval'[u] = rendval[u]
    <3>1. Meets(p, i, s)
      BY <1>4, <1>6, <2>2, <2>4, <2>m DEF Meets
    <3> QED
      BY <2>4, <3>1, MeetKept
  <2>6. /\ RendTypeOK' /\ GroupInv' /\ rendval'[s] = "waiter"
        /\ \A u \in Proc \ {s} : rendval'[u] = rendval[u]
    BY <2>4, <2>n
  <2>7. Waking(s)
    BY <2>4, <2>5 DEF Waking
  <2>8. Chosen(p)
    <3>1. PICK v \in Proc : mp[v] = tgt[s] /\ Chosen(v)
      BY <2>4, <2>7, ZenonT(40) DEF QLocksInv, WakeInv
    <3>2. v = p
      BY <1>2, <2>5, <3>1, SMT DEF QLocksInv, ChainInv
    <3> QED
      BY <3>1, <3>2
  <2>9. /\ inuse' = inuse \ {mp[p]} /\ mp' = [mp EXCEPT ![p] = None]
        /\ pc' = [pc EXCEPT ![p] = h]
    BY <1>1, <1>5, <2>5 DEF Goes
  <2>10. rendtag[s] # NoTag
    BY <2>3, GroupFacts
  <2>11. ASSUME NEW u \in Proc, Waking(u)' PROVE Waking(u) /\ tgt[u] # mp[p]
    <3>1. u # s
      BY <1>3, <2>1, <2>6, <2>10, <2>11 DEF Waking
    <3>2. Waking(u)
      BY <1>3, <2>1, <2>6, <2>11, <3>1 DEF Waking
    <3> QED
      BY <2>4, <2>5, <2>7, <3>1, <3>2 DEF QLocksInv, WakeInv
  <2>12. ~Found(p)'
    BY <1>6, <2>1 DEF Found
  <2>13. \A u \in Proc : Found(u)' => Found(u)
    BY <1>4, <1>6, <2>1, <2>4, <2>6 DEF Found
  <2> QED
    BY <1>1, <1>3, <2>6, <2>8, <2>9, <2>11, <2>12, <2>13, TakesKeeps
<1>7. CASE rendtag[p] = NoTag /\ answer = "asleep" /\ Await(p, mp[p], "waiter")
  <2>1. UNCHANGED <<kind, q, r, locker, state, inuse, mp, pc, tgt>>
    BY <1>1, <1>3, <1>5, <1>7
  <2>2. Await(p, With(p), Part(p))
    BY <1>2, <1>7
  <2> QED
    BY <1>2, <1>7, <2>1, <2>2, AwaitKeeps
<1>8. CASE Return(p, answer)
  <2>1. /\ RendTypeOK' /\ GroupInv' /\ rendtag[p] # NoTag /\ rendtag'[p] = NoTag
        /\ answer = rendval[p] /\ answer \in {Broken0, "waker"}
        /\ \A u \in Proc \ {p} : rendtag'[u] = rendtag[u] /\ rendval'[u] = rendval[u]
    BY <1>2, <1>4, <1>8, ReturnKept
  <2>2. CASE answer = Broken0
    <3>1. UNCHANGED <<kind, q, r, locker, state, inuse, mp, pc, tgt>>
      BY <1>1, <1>3, <1>5, <2>2
    <3> QED
      BY <1>8, <2>2, <3>1, BrokenKeeps
  <2>3. CASE answer = "waker"
    <3>1. /\ inuse' = inuse \ {mp[p]} /\ mp' = [mp EXCEPT ![p] = None]
          /\ pc' = [pc EXCEPT ![p] = h]
      BY <1>1, <1>5, <2>3 DEF Goes
    <3>2. Found(p)
      BY <1>2, <2>1, <2>3 DEF Found
    <3>3. Chosen(p)
      BY <3>2 DEF QLocksInv, WakeInv
    <3>4. ~Found(p)'
      BY <2>1 DEF Found
    <3>5. \A u \in Proc : Found(u)' => Found(u)
      BY <1>4, <2>1 DEF Found
    <3>6. ASSUME NEW u \in Proc, Waking(u)' PROVE Waking(u) /\ tgt[u] # mp[p]
      <4>1. tgt[p] = None
        BY <1>2 DEF QLocksInv, ChainInv
      <4>2. Waking(u)
        BY <1>3, <2>1, <3>6, <4>1 DEF Waking
      <4>3. PICK v \in Proc : mp[v] = tgt[u] /\ ~Found(v)
        BY <4>2 DEF QLocksInv, WakeInv
      <4> QED
        BY <1>2, <3>2, <4>2, <4>3, SMTT(30) DEF QLocksInv, ChainInv
    <3> QED
      BY <1>1, <1>3, <2>1, <3>1, <3>3, <3>4, <3>5, <3>6, TakesKeeps
  <2> QED
    BY <2>1, <2>2, <2>3
<1> QED
  BY <1>1, <1>6, <1>7, <1>8 DEF Turn, Rendezvous

\* rendezvous(tgt, ..) by who hands over: the same, for a waker.
LEMMA WakeKeeps ==
  ASSUME QLocksInv, NEW p \in Proc, Wake(p)
  PROVE  QLocksInv'
<1>1. PICK answer \in Val \cup {"asleep", Broken0} :
         /\ pc[p] = "wake"
         /\ Turn(p, tgt[p], "waker", answer)
         /\ IF Met(answer)
            THEN /\ tgt' = [tgt EXCEPT ![p] = None]
                 /\ Goes(p, CASE mp[p] # None -> "waitq"
                              [] locker = p   -> "loop"
                              [] OTHER        -> "out")
            ELSE UNCHANGED <<tgt, pc>>
         /\ UNCHANGED <<inuse, mp>>
  BY DEF Wake
<1>2. /\ pc[p] \in Busy /\ With(p) = tgt[p] /\ Part(p) = "waker" /\ Counterpart(p) = "waiter"
      /\ tgt[p] # None
  BY <1>1 DEF Busy, With, Part, Counterpart, QLocksInv, ChainInv
<1>3. UNCHANGED <<kind, q, r, locker, state, inuse, mp>>
  BY <1>1 DEF Turn
<1>4. \A u \in Proc \ {p} : pc'[u] = pc[u] /\ mp'[u] = mp[u] /\ tgt'[u] = tgt[u]
  <2>1. PICK l : Met(answer) => tgt' = [tgt EXCEPT ![p] = None] /\ pc' = [pc EXCEPT ![p] = l]
    BY <1>1 DEF Goes
  <2> QED
    BY <1>1, <1>3, <2>1 DEF QLocksInv, Types
<1>5. Met("waiter") /\ ~Met("asleep") /\ ~Met(Broken0) /\ Broken0 # "waiter" /\ Broken0 # "waker"
  BY QLocksAssumption, TagAssumption DEF Met
<1>6. ASSUME answer = "waiter"
      PROVE  /\ tgt' = [tgt EXCEPT ![p] = None]
             /\ pc' = [pc EXCEPT ![p] = CASE mp[p] # None -> "waitq"
                                          [] locker = p   -> "loop"
                                          [] OTHER        -> "out"]
             /\ tgt'[p] = None
  <2>1. /\ tgt' = [tgt EXCEPT ![p] = None]
        /\ pc' = [pc EXCEPT ![p] = CASE mp[p] # None -> "waitq"
                                     [] locker = p   -> "loop"
                                     [] OTHER        -> "out"]
    BY <1>1, <1>5, <1>6 DEF Goes
  <2> QED
    BY <2>1 DEF QLocksInv, Types
<1>7. CASE rendtag[p] = NoTag /\ Meet(p, tgt[p], "waker", answer)
  <2>1. PICK i \in DOMAIN rgrp :
           /\ rendtag[rgrp[i]] = tgt[p]
           /\ answer = rendval[rgrp[i]]
           /\ rgrp' = DeleteAt(rgrp, i)
           /\ rendval' = [rendval EXCEPT ![rgrp[i]] = "waker"]
           /\ procs' = Ready(procs, rgrp[i])
           /\ UNCHANGED rendtag
    BY <1>7 DEF Meet
  <2>2. PICK s : s = rgrp[i]
    OBVIOUS
  <2>3. s \in Range(rgrp)
    BY <2>2 DEF Range
  <2>4. /\ s \in Proc /\ s # p /\ With(s) = With(p) /\ pc[s] \in Busy /\ pc[s] # "wake"
        /\ rendval[s] = "waiter" /\ Counterpart(s) = "waker"
    BY <1>1, <1>2, <1>7, <2>1, <2>2, <2>3, Counterparts, SMTT(30)
  <2>5. answer = "waiter" /\ mp[s] = tgt[p]
    BY <1>2, <2>1, <2>2, <2>4 DEF With
  <2>m. /\ rgrp' = DeleteAt(rgrp, i) /\ rendval' = [rendval EXCEPT ![s] = Counterpart(s)]
        /\ procs' = Ready(procs, s) /\ rendtag' = rendtag
    BY <2>1, <2>2, <2>4
  <2>n. /\ RendTypeOK' /\ GroupInv' /\ rendval'[s] = Counterpart(s)
        /\ \A u \in Proc \ {s} : rendval'[u] = rendval[u]
    <3>1. Meets(p, i, s)
      BY <1>4, <1>7, <2>2, <2>4, <2>m DEF Meets
    <3> QED
      BY <2>4, <3>1, MeetKept
  <2>6. /\ RendTypeOK' /\ GroupInv' /\ rendval'[s] = "waker"
        /\ \A u \in Proc \ {s} : rendval'[u] = rendval[u]
    BY <2>4, <2>n
  <2>7. Waking(p)
    BY <1>2, <1>7 DEF Waking
  <2>8. ASSUME NEW u \in Proc, Waking(u)' PROVE Waking(u) /\ u # p
    <3>1. u # p
      BY <1>6, <2>5, <2>8 DEF Waking
    <3>2. u # s
      BY <1>4, <2>4, <2>8 DEF Waking, QLocksInv, ChainInv
    <3> QED
      BY <1>4, <2>1, <2>6, <2>8, <3>1, <3>2 DEF Waking
  <2>9. ASSUME NEW u \in Proc, Found(u)' PROVE Found(u) \/ (Waking(p) /\ mp[u] = tgt[p])
    <3>1. CASE u = s
      BY <2>5, <2>7, <3>1
    <3>2. CASE u # s
      BY <1>4, <1>7, <2>1, <2>6, <2>9, <3>2 DEF Found
    <3> QED
      BY <3>1, <3>2
  <2> QED
    BY <1>1, <1>3, <1>6, <2>5, <2>6, <2>8, <2>9, WokenKeeps
<1>8. CASE rendtag[p] = NoTag /\ answer = "asleep" /\ Await(p, tgt[p], "waker")
  <2>1. UNCHANGED <<kind, q, r, locker, state, inuse, mp, pc, tgt>>
    BY <1>1, <1>3, <1>5, <1>8
  <2>2. Await(p, With(p), Part(p))
    BY <1>2, <1>8
  <2> QED
    BY <1>2, <1>8, <2>1, <2>2, AwaitKeeps
<1>9. CASE Return(p, answer)
  <2>1. /\ RendTypeOK' /\ GroupInv' /\ rendtag[p] # NoTag /\ rendtag'[p] = NoTag
        /\ answer = rendval[p] /\ answer \in {Broken0, "waiter"}
        /\ \A u \in Proc \ {p} : rendtag'[u] = rendtag[u] /\ rendval'[u] = rendval[u]
    BY <1>2, <1>4, <1>9, ReturnKept
  <2>2. CASE answer = Broken0
    <3>1. UNCHANGED <<kind, q, r, locker, state, inuse, mp, pc, tgt>>
      BY <1>1, <1>3, <1>5, <2>2
    <3> QED
      BY <1>9, <2>2, <3>1, BrokenKeeps
  <2>3. CASE answer = "waiter"
    <3>1. ASSUME NEW u \in Proc, Waking(u)' PROVE Waking(u) /\ u # p
      <4>1. u # p
        BY <1>6, <2>3, <3>1 DEF Waking
      <4> QED
        BY <1>4, <2>1, <3>1, <4>1 DEF Waking
    <3>2. \A u \in Proc : Found(u)' => Found(u) \/ (Waking(p) /\ mp[u] = tgt[p])
      BY <1>4, <2>1 DEF Found
    <3> QED
      BY <1>1, <1>3, <1>6, <2>1, <2>3, <3>1, <3>2, WokenKeeps
  <2> QED
    BY <2>1, <2>2, <2>3
<1> QED
  BY <1>1, <1>7, <1>8, <1>9 DEF Turn, Rendezvous

\* A note pulls its process out of the group.
LEMMA NoteKeeps ==
  ASSUME QLocksInv, NEW p \in Proc, Note(p)
  PROVE  QLocksInv'
<1>1. /\ UNCHANGED <<kind, q, r, locker, state, inuse, mp, pc, tgt>>
      /\ procs.state[p] = "Rendezvous" /\ rendtag' = rendtag
      /\ procs' = Postnote(procs, p)
      /\ rendval' = [rendval EXCEPT ![p] = Broken0]
  BY DEF Note, PullOut, qvars
<1>2. /\ procs' \in Table /\ procs'.up = NoProc
      /\ procs'.state = [procs.state EXCEPT ![p] = "Ready"]
  BY <1>1, GroupFacts, TableFacts
<1>3. rgrp' \in Seq(Proc) /\ Range(rgrp') = Range(rgrp) \ {p} /\ Distinct(rgrp')
  <2>1. \E i \in DOMAIN rgrp : rgrp[i] = p
    BY <1>1, GroupFacts DEF Range
  <2>2. PICK i \in DOMAIN rgrp : rgrp[i] = p /\ rgrp' = DeleteAt(rgrp, i)
    BY <2>1 DEF Note, PullOut, Withdraw
  <2> QED
    BY <2>2, GroupFacts, DeleteAtFacts, SMT DEF TagsApart
<1>4. /\ procs'.state[p] = "Ready" /\ \A u \in Proc \ {p} : procs'.state[u] = procs.state[u]
  BY <1>2, GroupFacts DEF Table
<1>5. /\ rendval'[p] = Broken0 /\ \A u \in Proc \ {p} : rendval'[u] = rendval[u]
      /\ rendval' \in [Proc -> Val \cup {Broken0}]
  BY <1>1 DEF QLocksInv, Types, RendTypeOK
<1>6. \A u \in Proc : Part(u)' = Part(u) /\ Counterpart(u)' = Counterpart(u) /\ With(u)' = With(u)
  BY <1>1 DEF Part, Counterpart, With
<1>7. TagsApart'
  BY <1>1, <1>3, GroupFacts DEF TagsApart
<1>8. /\ \A u \in Proc : procs'.state[u] \in {"Ready", "Rendezvous"}
      /\ \A u \in Proc : procs'.state[u] = "Rendezvous" <=> u \in Range(rgrp')
  BY <1>3, <1>4, GroupFacts
<1>9. \A u \in Range(rgrp') : u \in Proc /\ rendtag'[u] # NoTag /\ rendval'[u] = Part(u)'
  BY <1>1, <1>3, <1>5, <1>6, GroupFacts
<1>10. ASSUME NEW u \in Proc, rendtag'[u] # NoTag
       PROVE  /\ pc'[u] \in Busy /\ rendtag'[u] = With(u)'
              /\ procs'.state[u] = "Ready" => rendval'[u] \in {Broken0, Counterpart(u)'}
  BY <1>1, <1>4, <1>5, <1>6, <1>10, GroupFacts
<1>11. GroupInv'
  BY <1>2, <1>7, <1>8, <1>9, <1>10, GroupStep
<1>12. RendTypeOK'
  BY <1>1, <1>2, <1>3, <1>5 DEF QLocksInv, Types, RendTypeOK
<1>13. rendtag[p] # NoTag /\ rendval[p] = Part(p)
  BY <1>1, GroupFacts
<1>14. Broken0 # "waiter" /\ Broken0 # "waker"
  BY QLocksAssumption, TagAssumption
<1>15. \A u \in Proc : Found(u)' = Found(u) /\ Waking(u)' = Waking(u)
  BY <1>1, <1>5, <1>13, <1>14, ZenonT(40) DEF Found, Waking, Part, QLocksInv, ChainInv
<1> QED
  BY <1>1, <1>11, <1>12, <1>15, LockKept
-----------------------------------------------------------------------------
(* The theorems.                                                            *)

\* The state the program starts in.
LEMMA InitHolds ==
  ASSUME Counted, Init
  PROVE  QLocksInv
<1>1. /\ procs.up = NoProc /\ procs.state = [p \in Proc |-> "Ready"] /\ procs \in Table
  <2>1. procs = [state       |-> [p \in Proc |-> IF p = NoProc THEN "Running"
                                     ELSE IF p \in Proc THEN "Ready"
                                     ELSE "Dead"],
                 r           |-> [p \in Proc |-> NoRid],
                 twhen       |-> [p \in Proc |-> FALSE],
                 notepending |-> [p \in Proc |-> FALSE],
                 p           |-> [x \in Rid |-> NoProc],
                 lock        |-> [l \in Qlk |-> [locked |-> FALSE, q |-> <<>>]],
                 up          |-> NoProc,
                 doublesleep |-> FALSE]
    BY DEF Init, RendInit, InitTable
  <2>2. procs.state = [p \in Proc |-> "Ready"]
    BY <2>1, NoneAssumption
  <2>3. procs.up = NoProc
    BY <2>1
  <2>4. [p \in Proc |-> IF p = NoProc THEN "Running"
                        ELSE IF p \in Proc THEN "Ready" ELSE "Dead"] \in [Proc -> State]
    BY NoneAssumption DEF State
  <2>5. <<>> \in Seq(Proc)
    BY SMT
  <2>6. procs \in Table
    BY <2>1, <2>4, <2>5 DEF Table
  <2> QED
    BY <2>2, <2>3, <2>6
<1>2. q.list = <<>> /\ q.readers = 0 /\ ~q.writer /\ ~q.locked /\ r = <<>> /\ rgrp = <<>>
  BY DEF Init, RendInit
<1>3. Range(q.list) = {} /\ Range(r) = {} /\ Range(rgrp) = {}
  BY <1>2, SMTT(30) DEF Range
<1>4. Types
  <2>1. q \in [locked : BOOLEAN, readers : Nat, writer : BOOLEAN, list : Seq(QLp)]
    <3>1. <<>> \in Seq(QLp) /\ 0 \in Nat
      BY SMT
    <3> QED
      BY <3>1 DEF Init
  <2> QED
    BY <1>1, <2>1, SMT DEF Init, RendInit, Types, RendTypeOK, Pc
<1>5. \A p \in Proc : mp[p] = None /\ tgt[p] = None /\ rendtag[p] = NoTag /\ pc[p] = "out"
  BY DEF Init, RendInit
<1>6. GroupInv
  BY <1>1, <1>2, <1>3, <1>5, SMT DEF GroupInv, NonePassedBy
<1>7. ChainInv
  <2>1. Distinct(q.list) /\ Distinct(r)
    BY <1>2, SMT DEF Distinct
  <2>2. \A z : ~Listed(z)
    BY <1>3 DEF Listed
  <2> QED
    BY <1>3, <1>5, <2>1, <2>2, QLocksAssumption DEF ChainInv, Waiting, Init
<1>8. WakeInv
  BY <1>5 DEF WakeInv, Found, Waking
<1>9. \A p \in Proc : ~HasQ(p) /\ ~HasR(p) /\ ~HasW(p)
  BY <1>5 DEF HasQ, HasR, HasW, Chosen
<1>10. QLockInv
  BY <1>2, <1>5, <1>9 DEF QLockInv, Init
<1>11. RWLockInv
  BY <1>2, <1>5, <1>9, ReadersCount, SMTT(30) DEF RWLockInv, RWPcs, Init
<1> QED
  BY <1>4, <1>6, <1>7, <1>8, <1>10, <1>11 DEF QLocksInv

-----------------------------------------------------------------------------
(* The theorems.                                                            *)
INSTANCE FiniteSetTheorems

\* The processes are finitely many.
LEMMA CountedHolds == Counted
<1> SUFFICES ASSUME NEW S \in SUBSET Proc
             PROVE  /\ Cardinality(S) \in Nat /\ Cardinality(S) <= Cardinality(Proc)
                    /\ Cardinality(S) = 0 <=> S = {}
                    /\ \A p \in Proc :
                          /\ p \notin S => Cardinality(S \cup {p}) = Cardinality(S) + 1
                          /\ p \in S => Cardinality(S \ {p}) = Cardinality(S) - 1
  BY DEF Counted
<1>1. IsFiniteSet(S) /\ Cardinality(S) <= Cardinality(Proc)
  BY QLocksAssumption, FS_Subset
<1>2. Cardinality(S) \in Nat /\ (Cardinality(S) = 0 <=> S = {})
  BY <1>1, FS_CardinalityType, FS_EmptySet
<1>3. ASSUME NEW p \in Proc, p \notin S
      PROVE  Cardinality(S \cup {p}) = Cardinality(S) + 1
  BY <1>1, <1>3, FS_AddElement
<1>4. ASSUME NEW p \in Proc, p \in S
      PROVE  Cardinality(S \ {p}) = Cardinality(S) - 1
  BY <1>1, <1>4, FS_RemoveElement
<1> QED
  BY <1>1, <1>2, <1>3, <1>4

\* The invariant holds whatever the processes do.
THEOREM QLocksInvariant == Spec => []QLocksInv
<1>1. Init => QLocksInv
  BY InitHolds, CountedHolds
<1>2. QLocksInv /\ [Next]_vars => QLocksInv'
  <2> SUFFICES ASSUME QLocksInv, [Next]_vars PROVE QLocksInv'
    OBVIOUS
  <2>1. CASE Next
    <3>1. PICK p \in Proc :
             \/ Qlock_(p) \/ Canqlock(p) \/ Rsleep(p) \/ Rwakeup(p)
             \/ \E try \in BOOLEAN : Rlock(p, try) \/ Wlock(p, try)
             \/ Qunlock_(p) \/ Runlock(p) \/ Wunlock(p)
             \/ WunlockLoop(p) \/ Wait(p) \/ Wake(p)
             \/ Note(p)
      BY <2>1 DEF Next, Comesin, Goeson
    <3> QED
      BY <3>1, QlockKeeps, QunlockKeeps, RsleepKeeps, RwakeupKeeps, RlockKeeps,
         WlockKeeps, RunlockKeeps, WunlockKeeps, WunlockLoopKeeps, WaitKeeps,
         WakeKeeps, NoteKeeps, CountedHolds
  <2>2. CASE UNCHANGED vars
    BY <2>2, StillKeeps DEF vars, qvars
  <2> QED
    BY <2>1, <2>2
<1> QED
  BY <1>1, <1>2, PTL DEF Spec

\* A canlock has failed, or has not.
LEMMA AstrayType == Spec => [](astray \in BOOLEAN)
<1>1. Init => astray \in BOOLEAN
  BY DEF Init
<1>2. astray \in BOOLEAN /\ [Next]_vars => (astray \in BOOLEAN)'
  <2> SUFFICES ASSUME astray \in BOOLEAN, [Next]_vars PROVE astray' \in BOOLEAN
    OBVIOUS
  <2>1. ASSUME NEW p \in Proc, Comesin(p) \/ Goeson(p) PROVE astray' = astray
    BY <2>1 DEF Comesin, Goeson
  <2>2. ASSUME NEW p \in Proc, Canqlock(p) PROVE astray' \in BOOLEAN
    BY <2>2 DEF Canqlock
  <2>3. ASSUME NEW p \in Proc, Note(p) PROVE astray' = astray
    BY <2>3 DEF Note, qvars
  <2> QED
    BY <2>1, <2>2, <2>3 DEF Next, vars, qvars
<1> QED
  BY <1>1, <1>2, PTL DEF Spec

\* A QLock has one holder and an RWLock's writer holds it alone: Qlock_ to
\* Wake, over any number of processes and of notes that break their calls, as
\* long as no canqlock has found q's Lock taken.
THEOREM LocksExclude == Spec => []Exclusion
<1>1. QLocksInv => Exclusion
  <2> SUFFICES ASSUME QLocksInv, NEW p \in Proc, NEW s \in Proc, p # s,
                      pc[p] \in {"qlock", "wlock"}, pc[s] \in Holding
               PROVE  FALSE
    BY DEF Exclusion
  <2>1. CASE kind = "QLock"
    BY <2>1 DEF QLocksInv, QLockInv, HasQ, Holding
  <2>2. CASE kind = "RWLock"
    <3>1. HasW(p) /\ (HasR(s) \/ HasW(s))
      BY <2>2 DEF QLocksInv, RWLockInv, RWPcs, HasW, HasR, Holding
    <3> QED
      BY <2>2, <3>1 DEF QLocksInv, RWLockInv
  <2> QED
    BY <2>1, <2>2 DEF QLocksInv, Types
<1> QED
  BY <1>1, QLocksInvariant, PTL

\* The library never reaches an abort().
THEOREM LocksNeverAbort == Spec => []NoAbort
<1>1. QLocksInv => NoAbort
  BY DEF QLocksInv, Types, QLockInv, RWLockInv, RWPcs, NoAbort
<1> QED
  BY <1>1, QLocksInvariant, PTL, ZenonT(40)

\* Nobody waits for a free lock, and who is in the middle of a hand-over wakes
\* one process and the right one.
THEOREM LocksHandOver == Spec => []HandOvers
<1>1. QLocksInv /\ astray \in BOOLEAN => HandOvers
  <2> SUFFICES ASSUME QLocksInv, astray \in BOOLEAN PROVE HandOvers
    OBVIOUS
  <2>1. q.readers \in 0..Cardinality(Proc)
    <3>1. Cardinality(Proc) \in Nat
      BY QLocksAssumption, FS_CardinalityType
    <3>2. q.readers \in Nat /\ q.readers <= Cardinality(Proc)
      BY <3>1, ReadersCount, CountedHolds, SMTT(30) DEF QLocksInv, Types, QLockInv, RWLockInv
    <3> QED
      BY <3>1, <3>2, SMTT(30)
  <2>2. q \in [locked : BOOLEAN, readers : 0..Cardinality(Proc),
               writer : BOOLEAN, list : Seq(QLp)]
    BY <2>1 DEF QLocksInv, Types
  <2>3. TypeOK
    BY <2>2 DEF QLocksInv, Types, TypeOK
  <2>4. NonePassedBy
    BY DEF QLocksInv, GroupInv
  <2>5. HandOverMeets
    <3> SUFFICES ASSUME NEW p \in Proc, Waking(p)
                 PROVE  /\ tgt[p] \in inuse
                        /\ tgt[p] \notin Range(q.list) \cup Range(r)
                        /\ \E s \in Proc : /\ s # p
                                           /\ mp[s] = tgt[p]
                                           /\ \A u \in Proc \ {s} : mp[u] # tgt[p]
                        /\ \A u \in Proc \ {p} : Waking(u) => tgt[u] # tgt[p]
      BY DEF HandOverMeets
    <3>1. PICK s \in Proc : s # p /\ mp[s] = tgt[p] /\ Chosen(s)
      BY DEF QLocksInv, WakeInv
    <3>2. tgt[p] \in QLp /\ tgt[p] \in inuse
      BY <3>1, QLocksAssumption, SMTT(30) DEF QLocksInv, Types, ChainInv, Chosen
    <3>3. \A u \in Proc \ {s} : mp[u] # tgt[p]
      BY <3>1 DEF QLocksInv, ChainInv, Chosen
    <3>4. \A u \in Proc \ {p} : Waking(u) => tgt[u] # tgt[p]
      BY DEF QLocksInv, WakeInv
    <3>5. tgt[p] \notin Range(q.list) \cup Range(r)
      BY <3>1 DEF Chosen, Listed
    <3> QED
      BY <3>1, <3>2, <3>3, <3>4, <3>5
  <2>6. QueueMeansHeld
    BY DEF QLocksInv, Types, QLockInv, RWLockInv, QueueMeansHeld
  <2> QED
    BY <2>3, <2>4, <2>5, <2>6 DEF HandOvers
<1> QED
  BY <1>1, QLocksInvariant, AstrayType, PTL
=============================================================================
