-------------------------------- MODULE Lock --------------------------------
(***************************************************************************)
(* libc's Lock (userspace/sys/src/libc/port/lock.c) on the kernel's         *)
(* semaphores: processes that share a Lock and, beside it, use semaphores   *)
(* of their own in the same segment.                                        *)
(*                                                                         *)
(* ainc and adec are one step each, and so is a call: between any two of    *)
(* them another process may run.                                            *)
(***************************************************************************)
EXTENDS Sema

CONSTANT LockSem    \* the address of l->sem; the others are free-standing

ASSUME LockSemAssumption == LockSem \in Addr

VARIABLES key,      \* l->key
          pc,       \* where each program is
          undone    \* a canlock has failed and undone its increment (history)

vars == <<semavars, key, pc, undone>>

\* "out": neither in a lock call nor in a semaphore's; "lock", "asleep": in
\* lock's loop; "in": it holds the lock; "undo": canlock's second half;
\* "unlock", "undone": before the semrelease of unlock and of canlock;
\* "sem": asleep in a call on a free-standing semaphore.
Pc == {"out", "lock", "asleep", "in", "undo", "unlock", "undone", "sem"}

Goes(p, l) == pc' = [pc EXCEPT ![p] = l]

Init ==
    /\ SemaInit
    /\ key = 0
    /\ pc = [p \in Proc |-> "out"]
    /\ undone = FALSE
-----------------------------------------------------------------------------
\* lock: changed from 0 to 1, it holds the lock; otherwise it waits in the
\* kernel.
LockKey(p) ==
    /\ MayRun(p)
    /\ pc[p] = "out"
    /\ key' = key + 1
    /\ Goes(p, IF key' = 1 THEN "in" ELSE "lock")
    /\ UNCHANGED <<semavars, undone>>

\* (Mutant: an interrupted semacquire ends the loop.)
MutLockLoop(p, answer) ==
    /\ Goes(p, CASE answer = "got"    -> "in"
                 [] answer = "asleep" -> "asleep"
                 [] answer = "intr"   -> "in")
    /\ UNCHANGED <<key, undone>>

\* while(semacquire(&l->sem, 1) < 0): interrupted, it tries again.
LockLoop(p, answer) ==
    /\ Goes(p, CASE answer = "got"    -> "in"
                 [] answer = "asleep" -> "asleep"
                 [] answer = "intr"   -> "lock")
    /\ UNCHANGED <<key, undone>>

LockWait(p, answer) ==
    /\ pc[p] = "lock"
    /\ Semacquire(p, LockSem, "forever", answer)
    /\ LockLoop(p, answer)

LockAgain(p, answer) ==
    /\ pc[p] = "asleep"
    /\ Resume(p, answer)
    /\ LockLoop(p, answer)

\* (Mutant: the semaphore is not released when one waits.)
MutUnlockKey(p) ==
    /\ MayRun(p)
    /\ pc[p] = "in"
    /\ key' = key - 1
    /\ Goes(p, IF key' <= 1 THEN "out" ELSE "unlock")
    /\ UNCHANGED <<semavars, undone>>

\* unlock: changed from 1 to 0, nobody waits.
UnlockKey(p) ==
    /\ MayRun(p)
    /\ pc[p] = "in"
    /\ key' = key - 1
    /\ Goes(p, IF key' = 0 THEN "out" ELSE "unlock")
    /\ UNCHANGED <<semavars, undone>>

\* canlock: changed from 0 to 1, success ...
CanlockKey(p) ==
    /\ MayRun(p)
    /\ pc[p] = "out"
    /\ key' = key + 1
    /\ Goes(p, IF key' = 1 THEN "in" ELSE "undo")
    /\ UNCHANGED <<semavars, undone>>

\* ... and otherwise the increment is undone, as unlock would.
CanlockUndo(p) ==
    /\ MayRun(p)
    /\ pc[p] = "undo"
    /\ key' = key - 1
    /\ Goes(p, IF key' = 0 THEN "out" ELSE "undone")
    /\ undone' = TRUE
    /\ UNCHANGED semavars

\* The semrelease of unlock and of canlock.
Release(p) ==
    /\ pc[p] \in {"unlock", "undone"}
    /\ word[LockSem] < MaxWord
    /\ Semrelease(p, LockSem, 1)
    /\ Goes(p, "out")
    /\ UNCHANGED <<key, undone>>
-----------------------------------------------------------------------------
\* A program's own use of a semaphore.
SemCall(p, a, ms, answer) ==
    /\ pc[p] = "out"
    /\ a # LockSem
    /\ Semacquire(p, a, ms, answer)
    /\ Goes(p, IF answer = "asleep" THEN "sem" ELSE "out")
    /\ UNCHANGED <<key, undone>>

SemAgain(p, answer) ==
    /\ pc[p] = "sem"
    /\ Resume(p, answer)
    /\ Goes(p, IF answer = "asleep" THEN "sem" ELSE "out")
    /\ UNCHANGED <<key, undone>>

SemRelease(p, a, delta) ==
    /\ pc[p] = "out"
    /\ a # LockSem
    /\ word[a] + delta <= MaxWord
    /\ Semrelease(p, a, delta)
    /\ UNCHANGED <<key, pc, undone>>

Interrupt(p) ==
    /\ Timeout(p) \/ Note(p) \/ Notify(p)
    /\ UNCHANGED <<key, pc, undone>>

Answer == {"got", "no", "intr", "asleep"}

\* The steps of lock and unlock that a program in them takes.
LockStep(p) ==
    \/ \E answer \in Answer : LockWait(p, answer) \/ LockAgain(p, answer)
    \/ UnlockKey(p)
    \/ CanlockUndo(p)
    \/ Release(p)

Next ==
    \E p \in Proc :
       \/ LockKey(p)
       \/ CanlockKey(p)
       \/ LockStep(p)
       \/ \E answer \in Answer, a \in Addr, ms \in Ms : SemCall(p, a, ms, answer)
       \/ \E answer \in Answer : SemAgain(p, answer)
       \/ \E a \in Addr, d \in Delta : SemRelease(p, a, d)
       \/ Interrupt(p)

Spec == Init /\ [][Next]_vars

\* A Ready process runs in the end (module Sched), a timer goes off, and who
\* holds the lock unlocks it; nobody has to ask for it.
Fairness ==
    \A p \in Proc :
       /\ WF_vars(LockStep(p))
       /\ WF_vars(\E answer \in Answer : SemAgain(p, answer))
       /\ WF_vars(Timeout(p) /\ UNCHANGED <<key, pc, undone>>)

FairSpec == Spec /\ Fairness
-----------------------------------------------------------------------------
TypeOK ==
    /\ SemaTypeOK
    /\ key \in Nat
    /\ pc \in [Proc -> Pc]
    /\ undone \in BOOLEAN

\* lock.c:8, "we hold lock": two programs never hold the lock at once.
MutualExclusion ==
    \A p, q \in Proc : pc[p] = "in" /\ pc[q] = "in" => p = q

\* The same of programs whose canlock has not failed yet: what a failed
\* canlock releases lets a second one in.
ExclusiveUntilCanlock == undone \/ MutualExclusion

\* Of those that sleep for a semaphore and those that have been woken for it,
\* semrelease's wakeups are never lost: however the woken are interrupted, time
\* out or come too late, as many are on their way as could take it, or all.
\* (And every variable keeps its type.)
WakeupsCover ==
    /\ TypeOK
    /\ \A a \in Addr :
          LET asleep == {p \in Proc : /\ waits[p].addr = a
                                      /\ procs.state[p] = "Wakeme"}
              woken  == {i \in DOMAIN sema : sema[i].addr = a /\ ~sema[i].waiting}
          IN  asleep # {} => Cardinality(woken) >= word[a]

\* While programs wait for the lock one of them, or another, gets it.
LockProgress ==
    (\E p \in Proc : pc[p] \in {"lock", "asleep"}) ~> (\E p \in Proc : pc[p] = "in")
=============================================================================
