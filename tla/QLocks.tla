------------------------------- MODULE QLocks -------------------------------
(***************************************************************************)
(* libc's queueing locks (userspace/sys/src/libc/9sys/qlock.c) on the       *)
(* kernel's rendezvous: QLock with its Rendez, and RWLock.                  *)
(*                                                                         *)
(* The fields of a lock change only under its Lock (module Lock); a section *)
(* that makes no system call inside is one step.  The one that does, the    *)
(* end of wunlock, holds the Lock from step to step (locker).  A process    *)
(* waits on a QLp of its own, chained into the lock's list, and is woken by *)
(* a rendezvous with the QLp's address as the tag.                          *)
(*                                                                         *)
(* That the Lock excludes is so until a canlock fails (module Lock, whose   *)
(* run lock_canlock shows a second holder after it).  canqlock is the one   *)
(* caller of canlock here.  The model follows the programs up to such a     *)
(* failure, and marks it (astray): what they do after it is not modelled.   *)
(***************************************************************************)
EXTENDS Rendezvous

CONSTANTS None,     \* no QLp
          MaxNotes  \* bound: the notes that may interrupt

\* The QLps are the tags.  There are as many as processes: a process has at
\* most one in use (the code has 1024 for all, and aborts without one).
QLp == Tag

ASSUME QLocksAssumption ==
    /\ IsFiniteSet(Proc)
    /\ None \notin QLp
    /\ Val = {"waiter", "waker"} /\ Broken0 # "asleep"

VARIABLES kind,     \* what the programs share: a QLock with a Rendez or an RWLock
          q,        \* its fields; list is the chain from head to tail
          r,        \* the Rendez's chain
          locker,   \* who holds q's Lock between two steps
          inuse,    \* the QLps that are taken ...
          state,    \* ... and their state
          pc,       \* where each program is
          mp,       \* the QLp it waits on
          tgt,      \* the QLp it is to wake
          astray,   \* a canqlock has found q's Lock taken: it may have a
                    \* release too many, and excludes nobody any more
          notes     \* the notes posted so far

qvars == <<kind, q, r, locker, inuse, state, astray>>
vars == <<rendvars, qvars, pc, mp, tgt, notes>>

\* "out"; "qlock", "rlock", "wlock": it holds the lock; "wait...": in the loop
\* that waits to hold it so; "wake": in the loop that wakes tgt; "loop": in
\* wunlock's loop over the readers.
Holding == {"qlock", "rlock", "wlock"}
WaitFor(h) == CASE h = "qlock" -> "waitq" [] h = "rlock" -> "waitr"
                [] h = "wlock" -> "waitw"
Pc == {"out", "wake", "loop", "abort"} \cup Holding \cup {WaitFor(h) : h \in Holding}

Init ==
    /\ RendInit
    /\ kind \in {"QLock", "RWLock"}
    /\ q = [locked |-> FALSE, readers |-> 0, writer |-> FALSE, list |-> <<>>]
    /\ r = <<>>
    /\ locker = NoProc
    /\ inuse = {}
    /\ state = [z \in QLp |-> "Queuing"]
    /\ pc = [p \in Proc |-> "out"]
    /\ mp = [p \in Proc |-> None]
    /\ tgt = [p \in Proc |-> None]
    /\ astray = FALSE
    /\ notes = 0

\* p, which is Ready and in no call, enters a section under q's Lock.
Enters(p, at) ==
    /\ MayRun(p)
    /\ rendtag[p] = NoTag
    /\ pc[p] = at
    /\ locker = NoProc
    /\ UNCHANGED <<rendvars, kind, notes>>

Goes(p, l) == pc' = [pc EXCEPT ![p] = l]

\* getqlp, the QLp chained in by the caller.
Getqlp(p, z, s) ==
    /\ z \notin inuse
    /\ inuse' = inuse \cup {z}
    /\ state' = [state EXCEPT ![z] = s]
    /\ mp' = [mp EXCEPT ![p] = z]

\* An abort() of the code.
Abort(p) == Goes(p, "abort") /\ UNCHANGED <<q, r, locker, inuse, state, mp, tgt>>
-----------------------------------------------------------------------------
\* qlock and qunlock (their names in the kernel's module Procs are taken).
Qlock_(p) ==
    /\ kind = "QLock"
    /\ Enters(p, "out")
    /\ \/ /\ ~q.locked
          /\ q' = [q EXCEPT !.locked = TRUE]
          /\ Goes(p, "qlock")
          /\ UNCHANGED <<inuse, state, mp>>
       \/ /\ q.locked
          /\ \E z \in QLp : /\ Getqlp(p, z, "Queuing")
                            /\ q' = [q EXCEPT !.list = Append(@, z)]
          /\ Goes(p, "waitq")
    /\ UNCHANGED <<r, locker, tgt>>

Qunlock_(p) ==
    /\ Enters(p, "qlock")
    /\ \/ /\ q.list # <<>>
          /\ q' = [q EXCEPT !.list = Tail(@)]
          /\ tgt' = [tgt EXCEPT ![p] = Head(q.list)]
          /\ Goes(p, "wake")
       \/ /\ q.list = <<>>
          /\ q' = [q EXCEPT !.locked = FALSE]
          /\ Goes(p, "out")
          /\ UNCHANGED tgt
    /\ UNCHANGED <<r, locker, inuse, state, mp>>

\* canqlock.  Its canlock fails when another process, the clock having taken
\* it from the processor, is inside a section of q's Lock: 0 is answered, and
\* there is one semrelease more than there are waiters, its own or the one of
\* that process's unlock.  (One that finds the QLock locked changes nothing.)
Canqlock(p) ==
    /\ kind = "QLock"
    /\ Enters(p, "out")
    /\ \/ /\ ~q.locked
          /\ q' = [q EXCEPT !.locked = TRUE]
          /\ Goes(p, "qlock")
          /\ UNCHANGED astray
       \/ /\ \E s \in Proc \ {p} : /\ MayRun(s)
                                    /\ rendtag[s] = NoTag
                                    /\ pc[s] \in {"out", "qlock"}
          /\ astray' = TRUE
          /\ UNCHANGED <<q, pc>>
    /\ UNCHANGED <<r, locker, inuse, state, mp, tgt>>
-----------------------------------------------------------------------------
\* (Mutant: a reader does not look at who waits.)
MutNoWriter == ~q.writer

\* No writer holds it and nobody waits.
NoWriter == ~q.writer /\ q.list = <<>>

\* rlock, and canrlock (try), which does not wait.
Rlock(p, try) ==
    /\ kind = "RWLock"
    /\ Enters(p, "out")
    /\ \/ /\ NoWriter
          /\ q' = [q EXCEPT !.readers = @ + 1]
          /\ Goes(p, "rlock")
          /\ UNCHANGED <<inuse, state, mp>>
       \/ /\ ~NoWriter
          /\ ~try
          /\ \E z \in QLp : /\ Getqlp(p, z, "QueuingR")
                            /\ q' = [q EXCEPT !.list = Append(@, z)]
          /\ Goes(p, "waitr")
    /\ UNCHANGED <<r, locker, tgt>>

\* (Mutant: the last reader wakes the writer and leaves writer unset.)
MutRunlockWriter(p) ==
    /\ Enters(p, "rlock")
    /\ q' = [q EXCEPT !.readers = @ - 1,
                      !.list = IF q.readers = 1 /\ @ # <<>> THEN Tail(@) ELSE @]
    /\ \/ /\ q.readers > 1 \/ q.list = <<>>
          /\ Goes(p, "out")
          /\ UNCHANGED tgt
       \/ /\ q.readers = 1 /\ q.list # <<>>
          /\ tgt' = [tgt EXCEPT ![p] = Head(q.list)]
          /\ Goes(p, "wake")
    /\ UNCHANGED <<r, locker, inuse, state, mp>>

Runlock(p) ==
    /\ Enters(p, "rlock")
    /\ \/ /\ q.readers <= 0 \/ (q.readers = 1 /\ q.list # <<>>
                                 /\ state[Head(q.list)] # "QueuingW")
          /\ Abort(p)
       \/ /\ q.readers > 1 \/ (q.readers = 1 /\ q.list = <<>>)
          /\ q' = [q EXCEPT !.readers = @ - 1]
          /\ Goes(p, "out")
          /\ UNCHANGED <<r, locker, inuse, state, mp, tgt>>
       \/ /\ q.readers = 1 /\ q.list # <<>> /\ state[Head(q.list)] = "QueuingW"
          /\ q' = [q EXCEPT !.readers = 0, !.writer = TRUE, !.list = Tail(@)]
          /\ tgt' = [tgt EXCEPT ![p] = Head(q.list)]
          /\ Goes(p, "wake")
          /\ UNCHANGED <<r, locker, inuse, state, mp>>

\* wlock, and canwlock (try).
Wlock(p, try) ==
    /\ kind = "RWLock"
    /\ Enters(p, "out")
    /\ \/ /\ q.readers = 0 /\ ~q.writer
          /\ q' = [q EXCEPT !.writer = TRUE]
          /\ Goes(p, "wlock")
          /\ UNCHANGED <<inuse, state, mp>>
       \/ /\ ~(q.readers = 0 /\ ~q.writer)
          /\ ~try
          /\ \E z \in QLp : /\ Getqlp(p, z, "QueuingW")
                            /\ q' = [q EXCEPT !.list = Append(@, z)]
          /\ Goes(p, "waitw")
    /\ UNCHANGED <<r, locker, tgt>>

Wunlock(p) ==
    /\ Enters(p, "wlock")
    /\ \/ /\ ~q.writer
          /\ Abort(p)
       \/ /\ q.writer /\ q.list = <<>>
          /\ q' = [q EXCEPT !.writer = FALSE]
          /\ Goes(p, "out")
          /\ UNCHANGED <<locker, tgt>>
       \/ /\ q.writer /\ q.list # <<>> /\ state[Head(q.list)] = "QueuingW"
          /\ q' = [q EXCEPT !.list = Tail(@)]
          /\ tgt' = [tgt EXCEPT ![p] = Head(q.list)]
          /\ Goes(p, "wake")
          /\ UNCHANGED locker
       \/ /\ q.writer /\ q.list # <<>> /\ state[Head(q.list)] = "QueuingR"
          /\ locker' = p
          /\ Goes(p, "loop")
          /\ UNCHANGED <<q, tgt>>
    /\ UNCHANGED <<r, inuse, state, mp>>

\* (Mutant: the readers woken are not counted.)
MutWunlockLoop(p) ==
    /\ MayRun(p)
    /\ pc[p] = "loop"
    /\ \/ /\ q.list # <<>> /\ state[Head(q.list)] = "QueuingR"
          /\ q' = [q EXCEPT !.list = Tail(@)]
          /\ tgt' = [tgt EXCEPT ![p] = Head(q.list)]
          /\ Goes(p, "wake")
          /\ UNCHANGED locker
       \/ /\ ~(q.list # <<>> /\ state[Head(q.list)] = "QueuingR")
          /\ q' = [q EXCEPT !.writer = FALSE]
          /\ locker' = NoProc
          /\ Goes(p, "out")
          /\ UNCHANGED tgt
    /\ UNCHANGED <<rendvars, kind, r, inuse, state, mp, notes>>

\* wunlock's loop: each reader at the head is counted and woken in turn, q's
\* Lock being held throughout.
WunlockLoop(p) ==
    /\ MayRun(p)
    /\ pc[p] = "loop"
    /\ \/ /\ q.list # <<>> /\ state[Head(q.list)] = "QueuingR"
          /\ q' = [q EXCEPT !.list = Tail(@), !.readers = @ + 1]
          /\ tgt' = [tgt EXCEPT ![p] = Head(q.list)]
          /\ Goes(p, "wake")
          /\ UNCHANGED locker
       \/ /\ ~(q.list # <<>> /\ state[Head(q.list)] = "QueuingR")
          /\ q' = [q EXCEPT !.writer = FALSE]
          /\ locker' = NoProc
          /\ Goes(p, "out")
          /\ UNCHANGED tgt
    /\ UNCHANGED <<rendvars, kind, r, inuse, state, mp, notes>>
-----------------------------------------------------------------------------
\* rsleep: onto the Rendez's list, and the QLock passed to the next.
Rsleep(p) ==
    /\ Enters(p, "qlock")
    /\ \/ /\ ~q.locked
          /\ Abort(p)
       \/ /\ q.locked
          /\ \E z \in QLp : /\ Getqlp(p, z, "Sleeping")
                            /\ r' = Append(r, z)
          /\ \/ /\ q.list # <<>>
                /\ q' = [q EXCEPT !.list = Tail(@)]
                /\ tgt' = [tgt EXCEPT ![p] = Head(q.list)]
                /\ Goes(p, "wake")
             \/ /\ q.list = <<>>
                /\ q' = [q EXCEPT !.locked = FALSE]
                /\ Goes(p, "waitq")
                /\ UNCHANGED tgt
          /\ UNCHANGED locker

\* rwakeup (and each turn of rwakeupall): off the Rendez, and on the front of
\* the QLock's list.
Rwakeup(p) ==
    /\ Enters(p, "qlock")
    /\ \/ /\ ~q.locked
          /\ Abort(p)
       \/ /\ q.locked
          /\ r # <<>>
          /\ r' = Tail(r)
          /\ q' = [q EXCEPT !.list = <<Head(r)>> \o @]
          /\ state' = [state EXCEPT ![Head(r)] = "Queuing"]
          /\ UNCHANGED <<locker, inuse, pc, mp, tgt>>

\* A turn of while(rendezvous(tag, val) == ~0): the call, or its return.
Turn(p, tag, val, answer) ==
    /\ Rendezvous(p, tag, val, answer) \/ Return(p, answer)
    /\ UNCHANGED <<kind, q, r, locker, state, notes>>

Met(answer) == answer \notin {"asleep", Broken0}

\* (Mutant: the QLp is given back before the rendezvous is over.)
MutWait(p) ==
    \E h \in Holding, answer \in Val \cup {"asleep", Broken0} :
       /\ pc[p] = WaitFor(h)
       /\ Turn(p, mp[p], "waiter", answer)
       /\ inuse' = inuse \ {mp[p]}
       /\ IF Met(answer)
          THEN /\ mp' = [mp EXCEPT ![p] = None]
               /\ Goes(p, h)
          ELSE UNCHANGED <<mp, pc>>
       /\ UNCHANGED tgt

\* Waiting: the lock is p's when the rendezvous was not broken.
Wait(p) ==
    \E h \in Holding, answer \in Val \cup {"asleep", Broken0} :
       /\ pc[p] = WaitFor(h)
       /\ Turn(p, mp[p], "waiter", answer)
       /\ IF Met(answer)
          THEN /\ inuse' = inuse \ {mp[p]}
               /\ mp' = [mp EXCEPT ![p] = None]
               /\ Goes(p, h)
          ELSE UNCHANGED <<inuse, mp, pc>>
       /\ UNCHANGED tgt

\* Waking tgt, and then: rsleep waits itself, wunlock's loop goes on, and the
\* other calls are over.
Wake(p) ==
    \E answer \in Val \cup {"asleep", Broken0} :
       /\ pc[p] = "wake"
       /\ Turn(p, tgt[p], "waker", answer)
       /\ IF Met(answer)
          THEN /\ tgt' = [tgt EXCEPT ![p] = None]
               /\ Goes(p, CASE mp[p] # None -> "waitq"
                            [] locker = p   -> "loop"
                            [] OTHER        -> "out")
          ELSE UNCHANGED <<tgt, pc>>
       /\ UNCHANGED <<inuse, mp>>

Note(p) ==
    /\ notes < MaxNotes
    /\ notes' = notes + 1
    /\ PullOut(p)
    /\ UNCHANGED <<qvars, pc, mp, tgt>>
-----------------------------------------------------------------------------
\* What a program does once it is in a call of this library, and its unlocks.
Goeson(p) ==
    /\ ~astray
    /\ \/ Qunlock_(p) \/ Runlock(p) \/ Wunlock(p)
       \/ WunlockLoop(p) \/ Wait(p) \/ Wake(p)
    /\ UNCHANGED astray

\* The calls with which it comes in, but canqlock.
Comesin(p) ==
    /\ ~astray
    /\ \/ Qlock_(p) \/ Rsleep(p) \/ Rwakeup(p)
       \/ \E try \in BOOLEAN : Rlock(p, try) \/ Wlock(p, try)
    /\ UNCHANGED astray

Next ==
    \E p \in Proc :
       \/ Comesin(p)
       \/ ~astray /\ Canqlock(p)
       \/ Goeson(p)
       \/ ~astray /\ Note(p)

Spec == Init /\ [][Next]_vars

\* A Ready process runs in the end, and who holds a lock unlocks it.
Fairness == \A p \in Proc : WF_vars(Goeson(p))

FairSpec == Spec /\ Fairness
-----------------------------------------------------------------------------
TypeOK ==
    /\ RendTypeOK
    /\ q \in [locked : BOOLEAN, readers : 0..Cardinality(Proc),
           writer : BOOLEAN, list : Seq(QLp)]
    /\ r \in Seq(QLp)
    /\ locker \in Proc \cup {NoProc}
    /\ inuse \subseteq QLp
    /\ state \in [QLp -> {"Queuing", "QueuingR", "QueuingW", "Sleeping"}]
    /\ pc \in [Proc -> Pc]
    /\ mp \in [Proc -> QLp \cup {None}]
    /\ tgt \in [Proc -> QLp \cup {None}]
    /\ astray \in BOOLEAN

\* One holder of a QLock; a writer holds an RWLock alone: as long as no
\* canqlock has found the Lock of the QLock taken, as in all that follows.
Exclusion ==
    \A p, s \in Proc :
       p # s /\ pc[p] \in {"qlock", "wlock"} => pc[s] \notin Holding

\* The abort()s of qlock.c, which say what its authors take to be impossible
\* (readers <= 0, a reader at the head when the last reader leaves, a writer's
\* unlock without a writer, rsleep without the lock), are.
NoAbort == \A p \in Proc : pc[p] # "abort"

\* p has still to meet the process it wakes: it has not been left its value.
Waking(p) == tgt[p] # None /\ ~(rendtag[p] # NoTag /\ rendval[p] = "waiter")

\* Who is in the middle of a hand-over wakes one process and the right one: the
\* QLp it took off the list is in use, on no list, one process waits on it, and
\* no other process is waking it.
HandOverMeets ==
    \A p \in Proc : Waking(p) =>
       /\ tgt[p] \in inuse
       /\ tgt[p] \notin Range(q.list) \cup Range(r)
       /\ \E s \in Proc : /\ s # p
                          /\ mp[s] = tgt[p]
                          /\ \A u \in Proc \ {s} : mp[u] # tgt[p]
       /\ \A u \in Proc \ {p} : Waking(u) => tgt[u] # tgt[p]

\* Nobody waits for a lock that is free.
QueueMeansHeld == q.list # <<>> => q.locked \/ q.writer \/ q.readers > 0

\* What hangs between a lock's list, the QLps and the kernel's rendezvous holds
\* together: nobody waits for a free lock, and hand-overs meet their waiters.
HandOvers == TypeOK /\ NonePassedBy /\ HandOverMeets /\ QueueMeansHeld

\* Who is chained into a lock's list holds the lock in the end, unless rwakeups
\* go on for ever: those go in front; or unless a canlock fails.
Served ==
    \/ \A p \in Proc : (mp[p] # None /\ mp[p] \in Range(q.list))
                         ~> (pc[p] \in Holding \/ astray)
    \/ []<><<\E s \in Proc : Rwakeup(s)>>_vars
=============================================================================
