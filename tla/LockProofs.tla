----------------------------- MODULE LockProofs -----------------------------
(***************************************************************************)
(* Mutual exclusion of libc's Lock for any number of processes, whatever    *)
(* other semaphores they use and however they are noted or time out.        *)
(*                                                                         *)
(* The lock is a token that is in one place: with who is in the critical    *)
(* section, with who is about to release it to a waiter, or in the          *)
(* semaphore; and it is nowhere when key is 0.                              *)
(***************************************************************************)
EXTENDS Lock, TLAPS

HasToken(p) == pc[p] \in {"in", "unlock"}

\* Where the token is, as long as no canlock has failed.
OneToken ==
    /\ key \in Nat
    /\ word[LockSem] \in {0, 1}
    /\ word[LockSem] = 1 => key > 0
    /\ \A p \in Proc : HasToken(p) => word[LockSem] = 0 /\ key > 0
    /\ \A p, q \in Proc : HasToken(p) /\ HasToken(q) => p = q
    /\ \A p \in Proc : pc[p] # "undone"

\* A process asleep in lock's loop waits for l->sem, and one asleep in a call of
\* its own waits for something else.
WaitsForOwn ==
    /\ waits \in [Proc -> [addr : Addr \cup {"none"}, ms : Ms]]
    /\ \A p \in Proc : /\ pc[p] = "asleep"
                             => waits[p] = [addr |-> LockSem, ms |-> "forever"]
                       /\ pc[p] = "sem" => waits[p].addr \in Addr \ {LockSem}

LockInv ==
    /\ word \in [Addr -> Nat]
    /\ pc \in [Proc -> Pc]
    /\ undone \in BOOLEAN
    /\ WaitsForOwn
    /\ undone \/ OneToken

\* What a call does to the semaphores and to the caller's closure: with "got"
\* it takes one, with any other answer none, and asleep it keeps what it waits
\* for.
CallEffect(p, a, ms, answer) ==
    /\ answer = "got" => word[a] > 0 /\ word' = [word EXCEPT ![a] = @ - 1]
    /\ answer # "got" => word' = word
    /\ answer = "asleep" => waits' = [waits EXCEPT ![p] = [addr |-> a, ms |-> ms]]
    /\ answer # "asleep" => waits' \in {waits, [waits EXCEPT ![p] = NoWait]}
    /\ answer = "no" => ms # "forever"
-----------------------------------------------------------------------------
\* What a process waits for, asleep in lock's loop or in no call.
LEMMA WaitTypes ==
  /\ NoWait \in [addr : Addr \cup {"none"}, ms : Ms]
  /\ [addr |-> LockSem, ms |-> "forever"] \in [addr : Addr \cup {"none"}, ms : Ms]
BY LockSemAssumption DEF NoWait, Ms

\* semwait keeps to CallEffect.
LEMMA SemwaitEffect ==
  ASSUME NEW t, NEW s, NEW p, NEW a, NEW ms, NEW answer,
         Semwait(t, s, p, a, ms, answer)
  PROVE  CallEffect(p, a, ms, answer)
<1>1. CASE /\ answer = "got"
           /\ Acquire(a)
           /\ Semdone(t, Setwaiting(s, p, TRUE), p, a)
  BY <1>1 DEF Acquire, Semdone, CallEffect
<1>2. CASE answer = "asleep"
  BY <1>2 DEF Semwait, CallEffect
<1>3. CASE answer = "intr"
  BY <1>3 DEF Semwait, Semdone, CallEffect
<1> QED
  BY <1>1, <1>2, <1>3, ZenonT(30) DEF Semwait

\* So does semacquire, ...
LEMMA SemacquireEffect ==
  ASSUME NEW p, NEW a, NEW ms, NEW answer, Semacquire(p, a, ms, answer)
  PROVE  CallEffect(p, a, ms, answer)
<1>1. CASE answer = "got" /\ Acquire(a) /\ UNCHANGED <<procs, sema, waits>>
  BY <1>1 DEF Acquire, CallEffect
<1>2. CASE answer = "no" /\ ms = "zero" /\ UNCHANGED semavars
  BY <1>2 DEF semavars, CallEffect
<1>3. CASE Semwait(Enter(procs, p), Append(sema, Entry(a, FALSE, p)),
                   p, a, ms, answer)
  BY <1>3, SemwaitEffect, ZenonT(30)
<1> QED
  BY <1>1, <1>2, <1>3, ZenonT(30) DEF Semacquire

\* ... and what follows its sleep, with what was waited for.
LEMMA ResumeEffect ==
  ASSUME NEW p, NEW answer, Resume(p, answer)
  PROVE  CallEffect(p, waits[p].addr, waits[p].ms, answer)
<1>1. CASE /\ answer = "intr"
           /\ Semdone(Interrupted(Enter(procs, p), p), sema, p, waits[p].addr)
           /\ UNCHANGED word
  BY <1>1 DEF Semdone, CallEffect
<1>2. CASE /\ answer = "no"
           /\ waits[p].ms = "some"
           /\ Semdone(Enter(procs, p), sema, p, waits[p].addr)
           /\ UNCHANGED word
  BY <1>2 DEF Semdone, CallEffect
<1>3. CASE Semwait(Enter(procs, p), sema, p, waits[p].addr, waits[p].ms, answer)
  BY <1>3, SemwaitEffect
<1> QED
  BY <1>1, <1>2, <1>3 DEF Resume
-----------------------------------------------------------------------------
\* A turn of lock's loop.  The token passes from the semaphore to who gets it.
LEMMA LockLoopStep ==
  ASSUME LockInv, NEW p \in Proc, NEW answer \in Answer,
         pc[p] \in {"lock", "asleep"},
         CallEffect(p, LockSem, "forever", answer),
         LockLoop(p, answer)
  PROVE  LockInv'
<1> USE LockSemAssumption
<1>1. answer \in {"got", "intr", "asleep"}
  BY DEF Answer, CallEffect
<1>2. CASE answer = "got"
  <2>1. /\ pc' = [pc EXCEPT ![p] = "in"]
        /\ word[LockSem] > 0
        /\ word' = [word EXCEPT ![LockSem] = @ - 1]
        /\ waits' \in {waits, [waits EXCEPT ![p] = NoWait]}
        /\ key' = key /\ undone' = undone
    BY <1>2 DEF CallEffect, LockLoop, Goes
  <2>2. word' \in [Addr -> Nat] /\ pc' \in [Proc -> Pc] /\ undone' \in BOOLEAN
    BY <2>1 DEF LockInv, Pc
  <2>3. WaitsForOwn'
    BY <2>1, WaitTypes, ZenonT(30) DEF LockInv, WaitsForOwn
  <2>4. ASSUME OneToken
        PROVE  OneToken'
    <3>1. word[LockSem] = 1 /\ word'[LockSem] = 0
      BY <2>1, <2>4 DEF OneToken, LockInv
    <3> QED
      BY <2>1, <2>4, <3>1 DEF OneToken, LockInv, HasToken
  <2> QED
    BY <2>1, <2>2, <2>3, <2>4 DEF LockInv
<1>3. CASE answer \in {"intr", "asleep"}
  <2>1. /\ pc' = [pc EXCEPT ![p] = IF answer = "intr" THEN "lock" ELSE "asleep"]
        /\ word' = word /\ key' = key /\ undone' = undone
        /\ waits' \in {waits, [waits EXCEPT ![p] = NoWait],
                       [waits EXCEPT ![p] = [addr |-> LockSem, ms |-> "forever"]]}
        /\ answer = "asleep" => waits' = [waits EXCEPT ![p] =
                                    [addr |-> LockSem, ms |-> "forever"]]
    BY <1>3, ZenonT(30) DEF CallEffect, LockLoop, Goes
  <2>2. pc' \in [Proc -> Pc]
    BY <2>1 DEF LockInv, Pc
  <2>3. WaitsForOwn'
    <3>1. CASE answer = "asleep"
      BY <2>1, <3>1, WaitTypes DEF LockInv, WaitsForOwn
    <3>2. CASE answer = "intr"
      BY <2>1, <3>2, WaitTypes DEF LockInv, WaitsForOwn
    <3> QED
      BY <1>3, <3>1, <3>2
  <2>4. OneToken => OneToken'
    BY <2>1 DEF OneToken, LockInv, HasToken
  <2> QED
    BY <2>1, <2>2, <2>3, <2>4 DEF LockInv
<1> QED
  BY <1>1, <1>2, <1>3

\* A call on a semaphore of the program's own leaves l->sem alone.
LEMMA OwnSemStep ==
  ASSUME LockInv, NEW p \in Proc, NEW a \in Addr \ {LockSem}, NEW ms \in Ms,
         NEW answer,
         pc[p] \in {"out", "sem"},
         CallEffect(p, a, ms, answer),
         Goes(p, IF answer = "asleep" THEN "sem" ELSE "out"),
         UNCHANGED <<key, undone>>
  PROVE  LockInv'
<1> USE LockSemAssumption
<1>1. /\ word' \in [Addr -> Nat]
      /\ word'[LockSem] = word[LockSem]
  <2>1. CASE answer = "got"
    BY <2>1 DEF CallEffect, LockInv
  <2>2. CASE answer # "got"
    BY <2>2 DEF CallEffect, LockInv
  <2> QED
    BY <2>1, <2>2
<1>2. /\ pc' \in [Proc -> Pc]
      /\ \A q \in Proc : q # p => pc'[q] = pc[q]
      /\ pc'[p] \in {"out", "sem"}
      /\ pc'[p] = "sem" => answer = "asleep"
  BY DEF LockInv, Pc, Goes
<1>3. WaitsForOwn'
  <2>1. CASE answer = "asleep"
    BY <1>2, <2>1 DEF CallEffect, LockInv, WaitsForOwn
  <2>2. CASE answer # "asleep"
    BY <1>2, <2>2 DEF CallEffect, LockInv, WaitsForOwn, NoWait, Ms
  <2> QED
    BY <2>1, <2>2
<1>4. OneToken => OneToken'
  BY <1>1, <1>2 DEF OneToken, HasToken
<1> QED
  BY <1>1, <1>2, <1>3, <1>4 DEF LockInv

\* Every step keeps the invariant.
LEMMA LockStepInv == LockInv /\ [Next]_vars => LockInv'
<1> SUFFICES ASSUME LockInv, [Next]_vars
             PROVE  LockInv'
  OBVIOUS
<1> USE LockSemAssumption
<1>1. ASSUME NEW p \in Proc, LockKey(p) \/ CanlockKey(p)
      PROVE  LockInv'
  <2>1. /\ pc[p] = "out"
        /\ key' = key + 1
        /\ \E l \in {"lock", "undo"} :
              pc' = [pc EXCEPT ![p] = IF key' = 1 THEN "in" ELSE l]
        /\ word' = word /\ waits' = waits /\ undone' = undone
    BY <1>1 DEF LockKey, CanlockKey, Goes, semavars
  <2>2. pc' \in [Proc -> Pc]
    BY <2>1 DEF LockInv, Pc
  <2>3. WaitsForOwn'
    BY <2>1 DEF LockInv, WaitsForOwn
  <2>4. ASSUME OneToken
        PROVE  OneToken'
    BY <2>1, <2>4 DEF LockInv, OneToken, HasToken
  <2> QED
    BY <2>1, <2>2, <2>3, <2>4 DEF LockInv
<1>2. ASSUME NEW p \in Proc, NEW answer \in Answer,
             LockWait(p, answer)
      PROVE  LockInv'
  BY <1>2, SemacquireEffect, LockLoopStep DEF LockWait
<1>3. ASSUME NEW p \in Proc, NEW answer \in Answer,
             LockAgain(p, answer)
      PROVE  LockInv'
  <2>1. waits[p].addr = LockSem /\ waits[p].ms = "forever"
    BY <1>3 DEF LockAgain, LockInv, WaitsForOwn
  <2>2. CallEffect(p, LockSem, "forever", answer)
    BY <1>3, <2>1, ResumeEffect DEF LockAgain
  <2> QED
    BY <1>3, <2>2, LockLoopStep DEF LockAgain
<1>4. ASSUME NEW p \in Proc, UnlockKey(p)
      PROVE  LockInv'
  <2>1. /\ pc[p] = "in"
        /\ key' = key - 1
        /\ pc' = [pc EXCEPT ![p] = IF key' = 0 THEN "out" ELSE "unlock"]
        /\ word' = word /\ waits' = waits /\ undone' = undone
    BY <1>4 DEF UnlockKey, Goes, semavars
  <2>2. pc' \in [Proc -> Pc]
    BY <2>1 DEF LockInv, Pc
  <2>3. WaitsForOwn'
    BY <2>1 DEF LockInv, WaitsForOwn
  <2>4. ASSUME OneToken
        PROVE  OneToken'
    BY <2>1, <2>4 DEF LockInv, OneToken, HasToken
  <2> QED
    BY <2>1, <2>2, <2>3, <2>4 DEF LockInv
<1>5. ASSUME NEW p \in Proc, CanlockUndo(p)
      PROVE  LockInv'
  <2>1. /\ \E l \in {"out", "undone"} : pc' = [pc EXCEPT ![p] = l]
        /\ word' = word /\ waits' = waits /\ undone' = TRUE
    BY <1>5, ZenonT(30) DEF CanlockUndo, Goes, semavars
  <2>2. pc' \in [Proc -> Pc]
    BY <2>1 DEF LockInv, Pc
  <2>3. WaitsForOwn'
    BY <2>1 DEF LockInv, WaitsForOwn
  <2> QED
    BY <2>1, <2>2, <2>3 DEF LockInv
<1>6. ASSUME NEW p \in Proc, Release(p)
      PROVE  LockInv'
  <2>1. /\ pc[p] \in {"unlock", "undone"}
        /\ word' = [word EXCEPT ![LockSem] = @ + 1]
        /\ pc' = [pc EXCEPT ![p] = "out"]
        /\ waits' = waits /\ key' = key /\ undone' = undone
    BY <1>6 DEF Release, Semrelease, Goes
  <2>2. pc' \in [Proc -> Pc] /\ word' \in [Addr -> Nat]
    BY <2>1 DEF LockInv, Pc
  <2>3. WaitsForOwn'
    BY <2>1 DEF LockInv, WaitsForOwn
  <2>4. ASSUME OneToken
        PROVE  OneToken'
    <3>1. word[LockSem] = 0 /\ word'[LockSem] = 1 /\ HasToken(p) /\ key > 0
      BY <2>1, <2>4 DEF LockInv, OneToken, HasToken
    <3> QED
      BY <2>1, <2>4, <3>1 DEF LockInv, OneToken, HasToken
  <2> QED
    BY <2>1, <2>2, <2>3, <2>4 DEF LockInv
<1>7. ASSUME NEW p \in Proc, NEW answer \in Answer, NEW a \in Addr, NEW ms \in Ms,
             SemCall(p, a, ms, answer)
      PROVE  LockInv'
  BY <1>7, SemacquireEffect, OwnSemStep DEF SemCall
<1>8. ASSUME NEW p \in Proc, NEW answer \in Answer, SemAgain(p, answer)
      PROVE  LockInv'
  <2>1. waits[p].addr \in Addr \ {LockSem} /\ waits[p].ms \in Ms
    BY <1>8 DEF SemAgain, LockInv, WaitsForOwn
  <2> QED
    BY <1>8, <2>1, ResumeEffect, OwnSemStep DEF SemAgain
<1>9. ASSUME NEW p \in Proc, NEW a \in Addr, NEW d \in Delta, SemRelease(p, a, d)
      PROVE  LockInv'
  <2>1. /\ word' = [word EXCEPT ![a] = @ + d] /\ a # LockSem /\ d \in Nat
        /\ pc' = pc /\ waits' = waits /\ key' = key /\ undone' = undone
    BY <1>9, DeltaAssumption DEF SemRelease, Semrelease
  <2>2. word' \in [Addr -> Nat] /\ word'[LockSem] = word[LockSem]
    BY <2>1 DEF LockInv
  <2>3. WaitsForOwn' /\ (OneToken => OneToken')
    BY <2>1, <2>2 DEF LockInv, WaitsForOwn, OneToken, HasToken
  <2> QED
    BY <2>1, <2>2, <2>3 DEF LockInv
<1>10. ASSUME UNCHANGED <<word, waits, key, pc, undone>>
       PROVE  LockInv'
  BY <1>10 DEF LockInv, WaitsForOwn, OneToken, HasToken
<1>11. ASSUME NEW p \in Proc, Interrupt(p)
       PROVE  LockInv'
  BY <1>10, <1>11 DEF Interrupt, Timeout, Note, Notify
<1>12. CASE UNCHANGED vars
  BY <1>10, <1>12 DEF vars, semavars
<1> QED
  BY <1>1, <1>2, <1>3, <1>4, <1>5, <1>6, <1>7, <1>8, <1>9, <1>11, <1>12
     DEF Next, LockStep

\* The token is in one place throughout, until a canlock fails.
THEOREM LockInvariant == Spec => []LockInv
<1>1. Init => LockInv
  <2> SUFFICES ASSUME Init
               PROVE  LockInv
    OBVIOUS
  <2>1. WaitsForOwn
    BY WaitTypes DEF Init, SemaInit, WaitsForOwn
  <2>2. OneToken
    BY LockSemAssumption DEF Init, SemaInit, OneToken, HasToken
  <2> QED
    BY <2>1, <2>2, ZenonT(30) DEF Init, SemaInit, LockInv, Pc
<1> QED
  BY <1>1, LockStepInv, PTL DEF Spec

\* lock.c:8, "we hold lock": two programs never hold the lock at once, as long
\* as no canlock of theirs has failed.
THEOREM LockExcludes == Spec => []ExclusiveUntilCanlock
<1>1. LockInv => ExclusiveUntilCanlock
  BY DEF LockInv, OneToken, HasToken, ExclusiveUntilCanlock, MutualExclusion
<1> QED
  BY <1>1, LockInvariant, PTL
=============================================================================
