-------------------------------- MODULE Pipe --------------------------------
(***************************************************************************)
(* A pipe (kernel/src/devpipe.rs) over its two queues (kernel/src/qio.rs):  *)
(* processes that read, write, open and close its ends, and notes that end  *)
(* their sleeps.  End 0 is data, end 1 is data1; an end reads the queue of  *)
(* its number and writes the other.                                         *)
(*                                                                         *)
(* A call runs until it leaves the processor.  Where it was is kept in the  *)
(* device's at, and the call in its closure (call); when the process is     *)
(* entered again it carries on from there.  Any Ready process may be the    *)
(* next (module Coop), so a step is: enter the process, and run its call to *)
(* its end, to its next block or to its next sleep.                         *)
(*                                                                         *)
(* A pipe's queues neither coalesce nor drop (noblock), and q->err is the    *)
(* hangup's whenever a queue is closed.                                      *)
(***************************************************************************)
EXTENDS Procs, FiniteSets

CONSTANTS Limit,        \* PIPEQSIZE, in bytes of allocation
          Maxatomic,    \* MAXATOMIC: the bytes of a block
          ReadSizes,    \* the counts reads ask for
          WriteSizes,   \* the bytes writes bring
          ReadEnds,     \* the ends the programs read
          WriteEnds,    \* and write
          OpenEnds,     \* and open by name
          Inherited,    \* the ends each process has of pipe(2) and rfork
          MaxQueued     \* bound: no write begins with more blocks queued

End == {0, 1}
Rr(i) == <<"Rr", i>>
Wr(i) == <<"Wr", i>>
Rlock(i) == <<"rlock", i>>
Wlock(i) == <<"wlock", i>>

ASSUME PipeAssumption ==
    /\ Rid = {Rr(i) : i \in End} \cup {Wr(i) : i \in End}
    /\ Qlk = {Rlock(i) : i \in End} \cup {Wlock(i) : i \in End}
    /\ IsFiniteSet(Proc)
    /\ Limit \in Nat /\ Limit > 1 /\ Maxatomic \in Nat \ {0} /\ MaxQueued \in Nat
    /\ ReadSizes \subseteq Nat /\ WriteSizes \subseteq Nat
    /\ ReadEnds \subseteq End /\ WriteEnds \subseteq End
    /\ OpenEnds \subseteq End /\ Inherited \in [Proc -> SUBSET End]

VARIABLES procs,    \* Procs: the table
          q,        \* the queue each end reads
          qref,     \* how many opens of each end there are
          open,     \* the ends each process has open, a channel for each
          call,     \* the call each process is in the middle of
          at,       \* where in qread or qwrite it left the processor
          last      \* the answer of the call that ended in the last step

vars == <<procs, q, qref, open, call, at, last>>

Other(e) == 1 - e

\* BALLOC: a block's header and its bytes, by eights.
Balloc(n) == 64 + ((n + 7) \div 8) * 8

\* The blocks qwrite makes of p's n bytes; a write of nothing is an empty one.
\* A byte is told apart by who wrote it and where in the write it was.
Blocks(p, n) ==
    LET bytes == [k \in 1..n |-> <<p, k>>]
        last_(b) == IF b * Maxatomic < n THEN b * Maxatomic ELSE n
    IN  IF n = 0 THEN << <<>> >>
        ELSE [b \in 1..((n + Maxatomic - 1) \div Maxatomic) |->
                 SubSeq(bytes, (b - 1) * Maxatomic + 1, last_(b))]

NewQueue == [blocks |-> <<>>, len |-> 0, closed |-> FALSE, starve |-> TRUE,
             flow |-> FALSE, eof |-> 0]

\* (Mutant: qhangup frees what is queued.)
MutHangup(x) == [x EXCEPT !.closed = TRUE, !.blocks = <<>>, !.len = 0]

Hangup(x) == [x EXCEPT !.closed = TRUE]

CloseQueue(x) ==
    [Hangup(x) EXCEPT !.flow = FALSE, !.starve = FALSE, !.blocks = <<>>,
                      !.len = 0]

Reopen(x) == [x EXCEPT !.closed = FALSE, !.starve = TRUE, !.eof = 0]

\* at: Read holds or waits for rlock; Wlock waits for wlock with done blocks
\* written; Flow has queued the next one; Loop is between two blocks.
NoAt == [k |-> "None"]
AtRead(slept) == [k |-> "Read", slept |-> slept]
AtWlock(done) == [k |-> "Wlock", done |-> done]

\* (Mutant: a writer that yields comes back as if its block were not queued.)
MutAtFlow(done, slept) ==
    IF slept THEN [k |-> "Flow", done |-> done, slept |-> slept]
             ELSE AtWlock(done)

AtFlow(done, slept) == [k |-> "Flow", done |-> done, slept |-> slept]
AtLoop(done) == [k |-> "Loop", done |-> done]

NoCall == [op |-> "none"]
Reading(i, n) == [op |-> "read", i |-> i, n |-> n]
Writing(i, bs) == [op |-> "write", i |-> i, bs |-> bs]

NoAnswer == [p |-> NoProc, op |-> "none", i |-> 0, res |-> "none",
             data |-> <<>>]

Init ==
    /\ \E p \in Proc : procs = InitTable(p, Proc \ {p})
    /\ q = [i \in End |-> NewQueue]
    /\ open = Inherited
    /\ qref = [e \in End |-> Cardinality({p \in Proc : e \in open[p]})]
    /\ call = [p \in Proc |-> NoCall]
    /\ at = [p \in Proc |-> NoAt]
    /\ last = NoAnswer
-----------------------------------------------------------------------------
\* The ways a step of p's call c leaves the processor, or ends.
Leaves(t, p, c, a) ==
    /\ procs' = Left(t, p)
    /\ call' = [call EXCEPT ![p] = c]
    /\ at' = [at EXCEPT ![p] = a]
    /\ last' = NoAnswer

Returns(t, p, c, res, data) ==
    /\ procs' = t
    /\ call' = [call EXCEPT ![p] = NoCall]
    /\ at' = [at EXCEPT ![p] = NoAt]
    /\ last' = [p |-> p, op |-> c.op, i |-> c.i, res |-> res, data |-> data]

\* A sleep that a note keeps from committing.
Uncommitted(t, p, r) == Interrupted(Sleep(t, p, r, FALSE), p)

\* qwait at the end of a queue that is closed: nothing three times, then the
\* error.
Eof(t, p, c) ==
    /\ q[c.i].blocks = <<>> /\ q[c.i].closed
    /\ q' = [q EXCEPT ![c.i].eof = IF @ = 4 THEN 4 ELSE @ + 1]
    /\ Returns(Qunlock(t, Rlock(c.i)), p, c,
               IF q[c.i].eof >= 3 THEN "hungup" ELSE "ok", <<>>)

\* (Mutant: the reader does not say that it starves.)
MutQwait(t, p, c) ==
    /\ q[c.i].blocks = <<>> /\ ~q[c.i].closed
    /\ UNCHANGED q
    /\ \/ /\ Sleeps(t, p, FALSE)
          /\ Leaves(Sleep(t, p, Rr(c.i), FALSE), p, c, AtRead(TRUE))
       \/ /\ ~Sleeps(t, p, FALSE)
          /\ Returns(Qunlock(Uncommitted(t, p, Rr(c.i)), Rlock(c.i)), p, c,
                     "intr", <<>>)

\* qwait: nothing queued yet.
Qwait(t, p, c) ==
    /\ q[c.i].blocks = <<>> /\ ~q[c.i].closed
    /\ q' = [q EXCEPT ![c.i].starve = TRUE]
    /\ \/ /\ Sleeps(t, p, FALSE)
          /\ Leaves(Sleep(t, p, Rr(c.i), FALSE), p, c, AtRead(TRUE))
       \/ /\ ~Sleeps(t, p, FALSE)
          /\ Returns(Qunlock(Uncommitted(t, p, Rr(c.i)), Rlock(c.i)), p, c,
                     "intr", <<>>)

\* One block; what does not fit is put back, at its whole allocation.
Removed(x, n) ==
    LET b == Head(x.blocks)
    IN  IF Len(b.data) <= n
        THEN [x EXCEPT !.blocks = Tail(@), !.len = @ - b.alloc]
        ELSE [x EXCEPT !.blocks[1].data = SubSeq(@, n + 1, Len(@))]

\* qwakeup_iunlock's test.
Restarts(x) == x.flow /\ x.len < Limit \div 2

Take(t, p, c) ==
    /\ q[c.i].blocks # <<>>
    /\ LET data == Head(q[c.i].blocks).data
           x    == Removed(q[c.i], c.n)
           got  == SubSeq(data, 1, IF Len(data) <= c.n THEN Len(data) ELSE c.n)
           u    == IF Restarts(x) THEN Wakeup(t, Wr(c.i)) ELSE t
       IN  /\ q' = [q EXCEPT ![c.i] = [x EXCEPT !.flow = @ /\ ~Restarts(x)]]
           /\ Returns(Qunlock(u, Rlock(c.i)), p, c, "ok", got)

\* qread from again:, p holding rlock.
Again(t, p, c) == Eof(t, p, c) \/ Qwait(t, p, c) \/ Take(t, p, c)

\* piperead, from the program: e's own queue.
Read(p, e, n) ==
    /\ IsRunning(procs, p) /\ call[p] = NoCall /\ e \in open[p]
    /\ LET c == Reading(e, n)
           t == Qlock(procs, Rlock(e), p)
       IN  \/ /\ procs.lock[Rlock(e)].locked
              /\ Leaves(t, p, c, AtRead(FALSE))
              /\ UNCHANGED q
           \/ /\ ~procs.lock[Rlock(e)].locked
              /\ Again(t, p, c)
    /\ UNCHANGED <<qref, open>>

\* (Mutant: a read a note ended keeps rlock.)
MutReadInterrupted(t, p, c) ==
    /\ Returns(Interrupted(t, p), p, c, "intr", <<>>)
    /\ UNCHANGED q

ReadInterrupted(t, p, c) ==
    /\ Returns(Qunlock(Interrupted(t, p), Rlock(c.i)), p, c, "intr", <<>>)
    /\ UNCHANGED q

\* The reader is entered again: it has the lock, or its sleep is over.
ResumeRead(p) ==
    /\ procs.up = NoProc /\ procs.state[p] = "Ready" /\ call[p].op = "read"
    /\ LET t     == Enter(procs, p)
           noted == at[p].slept /\ t.notepending[p]
       IN  \/ noted /\ ReadInterrupted(t, p, call[p])
           \/ ~noted /\ Again(t, p, call[p])
    /\ UNCHANGED <<qref, open>>
-----------------------------------------------------------------------------
\* A write that fails posts "sys: write on closed pipe" to the writer.
WriteFails(t, p, c, res) ==
    Returns(Postnote(Qunlock(t, Wlock(c.i)), p), p, c, res, <<>>)

Qnotfull(x) == x.len < Limit \/ x.closed

\* qbwrite's flow control, block done + 1 being queued in x.
FlowControl(t, p, c, x, done) ==
    \/ /\ Qnotfull(x)
       /\ q' = [q EXCEPT ![c.i] = x]
       /\ IF done + 1 = Len(c.bs)
          THEN Returns(Qunlock(t, Wlock(c.i)), p, c, "ok", <<>>)
          ELSE /\ procs' = Qunlock(t, Wlock(c.i))
               /\ call' = [call EXCEPT ![p] = c]
               /\ at' = [at EXCEPT ![p] = AtLoop(done + 1)]
               /\ last' = NoAnswer
    \/ /\ ~Qnotfull(x)
       /\ q' = [q EXCEPT ![c.i] = [x EXCEPT !.flow = TRUE]]
       /\ \/ /\ Sleeps(t, p, FALSE)
             /\ Leaves(Sleep(t, p, Wr(c.i), FALSE), p, c, AtFlow(done, TRUE))
          \/ /\ ~Sleeps(t, p, FALSE)
             /\ WriteFails(Uncommitted(t, p, Wr(c.i)), p, c, "intr")

\* A queue with the block at its end; the reader that starved is to be woken.
Pushed(x, data) ==
    [x EXCEPT !.blocks = Append(@, [data |-> data, alloc |-> Balloc(Len(data))]),
              !.len = @ + Balloc(Len(data)),
              !.starve = FALSE]

\* qbwrite, p holding wlock.  The writer lets the reader it woke run first if
\* that one has the higher priority, which either may have.
Qbwrite(t, p, c, done) ==
    LET x == Pushed(q[c.i], c.bs[done + 1])
        u == IF q[c.i].starve THEN Wakeup(t, Rr(c.i)) ELSE t
    IN  \/ /\ q[c.i].closed
           /\ WriteFails(t, p, c, "hungup")
           /\ UNCHANGED q
        \/ /\ ~q[c.i].closed
           /\ q[c.i].starve /\ CanWake(t, Rr(c.i))
           /\ q' = [q EXCEPT ![c.i] = x]
           /\ Leaves(u, p, c, AtFlow(done, FALSE))
        \/ /\ ~q[c.i].closed
           /\ FlowControl(u, p, c, x, done)

\* The loop of qwrite: wlock for each block.
Qwrite(p, c, done) ==
    LET t == Qlock(procs, Wlock(c.i), p)
    IN  \/ /\ procs.lock[Wlock(c.i)].locked
           /\ Leaves(t, p, c, AtWlock(done))
           /\ UNCHANGED q
        \/ /\ ~procs.lock[Wlock(c.i)].locked
           /\ Qbwrite(t, p, c, done)

\* pipewrite, from the program: the queue the other end reads.
Write(p, e, n) ==
    /\ IsRunning(procs, p) /\ call[p] = NoCall /\ e \in open[p]
    /\ Len(q[Other(e)].blocks) <= MaxQueued
    /\ Qwrite(p, Writing(Other(e), Blocks(p, n)), 0)
    /\ UNCHANGED <<qref, open>>

\* The next block of the write, p not having left the processor.
NextBlock(p) ==
    /\ IsRunning(procs, p) /\ at[p].k = "Loop"
    /\ Qwrite(p, call[p], at[p].done)
    /\ UNCHANGED <<qref, open>>

\* The writer is entered again: it has the lock, or is in the flow control.
ResumeWrite(p) ==
    /\ procs.up = NoProc /\ procs.state[p] = "Ready" /\ call[p].op = "write"
    /\ LET t == Enter(procs, p)
           c == call[p]
       IN  \/ at[p].k = "Wlock" /\ Qbwrite(t, p, c, at[p].done)
           \/ /\ at[p].k = "Flow" /\ at[p].slept /\ t.notepending[p]
              /\ WriteFails(Interrupted(t, p), p, c, "intr")
              /\ UNCHANGED q
           \/ /\ at[p].k = "Flow" /\ (at[p].slept => ~t.notepending[p])
              /\ FlowControl(t, p, c, q[c.i], at[p].done)
    /\ UNCHANGED <<qref, open>>
-----------------------------------------------------------------------------
\* pipeopen: the process walks to the end and opens it, a channel of its own.
Open(p, e) ==
    /\ IsRunning(procs, p) /\ call[p] = NoCall /\ e \notin open[p]
    /\ qref' = [qref EXCEPT ![e] = @ + 1]
    /\ open' = [open EXCEPT ![p] = @ \cup {e}]
    /\ last' = NoAnswer
    /\ UNCHANGED <<procs, q, call, at>>

WakeBoth(t, i) == Wakeup(Wakeup(t, Rr(i)), Wr(i))

\* (Mutant: the sleepers on the closing end's own queue are not woken.)
MutHungup(t, e) == WakeBoth(t, Other(e))

\* qhangup of the one queue and qclose of the other wake who sleeps on them.
Hungup(t, e) == WakeBoth(WakeBoth(t, Other(e)), e)

\* (Mutant: the queues are opened again one by one.)
MutClosed(e) ==
    LET x == [i \in End |-> IF i = e THEN CloseQueue(q[i]) ELSE Hangup(q[i])]
    IN  IF qref[Other(e)] = 0 THEN [x EXCEPT ![e] = Reopen(@)] ELSE x

\* The queues after the last close of e.
Closed(e) ==
    LET x == [i \in End |-> IF i = e THEN CloseQueue(q[i]) ELSE Hangup(q[i])]
    IN  IF qref[Other(e)] = 0 THEN [i \in End |-> Reopen(x[i])] ELSE x

\* pipeclose.
Close(p, e) ==
    /\ IsRunning(procs, p) /\ call[p] = NoCall /\ e \in open[p]
    /\ open' = [open EXCEPT ![p] = @ \ {e}]
    /\ qref' = [qref EXCEPT ![e] = @ - 1]
    /\ q' = IF qref[e] = 1 THEN Closed(e) ELSE q
    /\ procs' = IF qref[e] = 1 THEN Hungup(procs, e) ELSE procs
    /\ last' = NoAnswer
    /\ UNCHANGED <<call, at>>

\* The program posts a note to a process, itself perhaps.
Note(p, r) ==
    /\ IsRunning(procs, p) /\ call[p] = NoCall
    /\ procs' = Postnote(procs, r)
    /\ last' = NoAnswer
    /\ UNCHANGED <<q, qref, open, call, at>>

\* notify hands the note to the handler.  (While a handler runs the next note
\* stays pending, so that a call may begin with one.)
TakeNote(p) ==
    /\ IsRunning(procs, p) /\ call[p] = NoCall /\ procs.notepending[p]
    /\ procs' = Interrupted(procs, p)
    /\ last' = NoAnswer
    /\ UNCHANGED <<q, qref, open, call, at>>

\* The clock takes the processor from a program; sched enters one.
Preempt(p) ==
    /\ IsRunning(procs, p) /\ call[p] = NoCall
    /\ procs' = Left(procs, p)
    /\ last' = NoAnswer
    /\ UNCHANGED <<q, qref, open, call, at>>

Run(p) ==
    /\ procs.up = NoProc /\ procs.state[p] = "Ready" /\ call[p] = NoCall
    /\ procs' = Enter(procs, p)
    /\ last' = NoAnswer
    /\ UNCHANGED <<q, qref, open, call, at>>

\* sched enters p: into the call it is in, or back to its program.
Entered(p) == ResumeRead(p) \/ ResumeWrite(p) \/ Run(p)

Next ==
    \E p \in Proc :
       \/ \E e \in ReadEnds, n \in ReadSizes : Read(p, e, n)
       \/ \E e \in WriteEnds, n \in WriteSizes : Write(p, e, n)
       \/ \E e \in OpenEnds : Open(p, e)
       \/ \E e \in End : Close(p, e)
       \/ \E r \in Proc : Note(p, r)
       \/ TakeNote(p) \/ Preempt(p) \/ NextBlock(p) \/ Entered(p)

Spec == Init /\ [][Next]_vars

\* Every Ready process is entered in the end (no process here fixes its
\* priority, and that of a processor hog falls), the clock ends a program's
\* turn, and a call goes on to its next block.
Fairness ==
    \A p \in Proc : /\ SF_vars(Entered(p))
                    /\ WF_vars(Preempt(p) \/ NextBlock(p))

FairSpec == Spec /\ Fairness
-----------------------------------------------------------------------------
Queue == [blocks : Seq([data : Seq(Proc \X Nat), alloc : Nat]),
          len : Nat, closed : BOOLEAN, starve : BOOLEAN, flow : BOOLEAN,
          eof : 0..4]

\* The table, the queues, the references and the calls are what their
\* declarations say.
TypeOK ==
    /\ procs \in Table
    /\ q \in [End -> Queue]
    /\ qref \in [End -> Nat]
    /\ open \in [Proc -> SUBSET End]
    /\ \A p \in Proc : call[p].op = "none" <=> at[p].k = "None"

\* No wakeup is lost (qread's and qwrite's sleeps against qbwrite's, qread's
\* and pipeclose's wakeups): a reader is asleep only on a queue that is empty,
\* open and marked starving, so that the next block or the hangup wakes it; a
\* writer only on one that is open, marked flow controlled and at least half
\* full, so that there is a block to read and a later read wakes it.
NoLostWakeup ==
    \A i \in End :
       /\ procs.p[Rr(i)] # NoProc =>
             q[i].blocks = <<>> /\ ~q[i].closed /\ q[i].starve
       /\ procs.p[Wr(i)] # NoProc =>
             /\ q[i].blocks # <<>> /\ ~q[i].closed /\ q[i].flow
             /\ q[i].len >= Limit \div 2

\* What the blocks bs are allocated, byte by byte.
Allocated(bs) == UNION {{k} \X (1..bs[k].alloc) : k \in DOMAIN bs}

\* q->len is "the sum of BALLOC over the blocks" (qio.rs:38), through partial
\* reads, interrupted writes and closes; so the flow control counts right and
\* q.len -= alloc never underflows.
LenIsSum ==
    \A i \in End : q[i].len = Cardinality(Allocated(q[i].blocks))

\* The length the flow control goes by is right, and so nobody sleeps on a
\* wakeup that has been or will not come (qread, qwrite, pipeclose).
FlowKept == TypeOK /\ LenIsSum /\ NoLostWakeup

\* Who is past the lock of the queue its call is on.
InRead(p, i) ==
    /\ call[p].op = "read" /\ call[p].i = i
    /\ procs.state[p] # "Queueing"

InBlock(p, i) ==
    /\ call[p].op = "write" /\ call[p].i = i
    /\ procs.state[p] # "Queueing" /\ at[p].k # "Loop"

\* One reader and one writer at a time, and no path leaves a lock behind
\* (qio.rs's rlock and wlock): a lock is taken exactly when one call that has
\* left the processor holds it, the calls that wait for it apart; so nothing
\* a note, a hangup or a full queue cut short blocks those that come after.
LockOfOneCall ==
    \A i \in End :
       /\ procs.lock[Rlock(i)].locked <=> \E p \in Proc : InRead(p, i)
       /\ procs.lock[Wlock(i)].locked <=> \E p \in Proc : InBlock(p, i)
       /\ \A p, r \in Proc : InRead(p, i) /\ InRead(r, i) => p = r
       /\ \A p, r \in Proc : InBlock(p, i) /\ InBlock(r, i) => p = r

\* "closing either side hangs up the stream" and "when both ends are closed,
\* both reopen" (devpipe.rs:278): the two queues are closed together and opened
\* together, never while both counts are zero, whatever opens and closes of the
\* ends come between; and while they are closed nothing is queued for an end
\* that nobody has open.
ClosedTogether ==
    /\ q[0].closed = q[1].closed
    /\ qref = [e \in End |-> 0] => ~q[0].closed
    /\ \A e \in End : q[e].closed /\ qref[e] = 0 => q[e].blocks = <<>>

\* The blocks of p among bs.
BlocksOf(bs, p) == {k \in DOMAIN bs : bs[k].data # <<>> /\ bs[k].data[1][1] = p}

Final(data) == data[Len(data)]

\* A block begins a write, or goes on where another ended.
Follows(data, before) == data[1][2] = 1 \/ data[1][2] = Final(before)[2] + 1

\* How many of its blocks p's write has queued.
Brought(p) == IF at[p].k = "Flow" THEN at[p].done + 1 ELSE at[p].done

\* A write of several blocks is queued block by block, each once and in its
\* order (qwrite's sofar), however often the writer waits for wlock, yields to
\* the reader or sleeps for room between and inside them, and whoever else
\* writes meanwhile: each block of a process goes on from its block before, or
\* begins a write; and what a write that is not over has queued last is the
\* block its place (At) says.  So one that a note or a hangup cuts short leaves
\* a beginning of its bytes, and the next write starts afresh.
WritesInOrder ==
    \A i \in End, p \in Proc :
       LET bs   == q[i].blocks
           Mine == BlocksOf(bs, p)
       IN  /\ \A j, k \in Mine :
                 j < k => \/ \E m \in Mine : j < m /\ m < k
                          \/ Follows(bs[k].data, bs[j].data)
           /\ call[p].op = "write" /\ call[p].i = i /\ Brought(p) > 0 =>
                 \A j \in Mine : \/ \E m \in Mine : j < m
                                 \/ Final(bs[j].data) = Final(call[p].bs[Brought(p)])

\* A hangup is heard (pipeclose's wakeups): a call in progress on a queue that
\* is closed ends, whether it sleeps, waits for a lock or is in the middle of a
\* write.
HangupHeard ==
    \A p \in Proc, i \in End :
       (call[p].op # "none" /\ call[p].i = i /\ q[i].closed)
          ~> (call[p].op = "none")
=============================================================================
