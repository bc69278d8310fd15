# The IPNX kernel in TLA+

IPNX is a subset of the Plan 9 kernel, in Rust (`kernel/src`), for one
processor that a host provides: a WebAssembly engine in a terminal
(`hosts/ipnx`) or the workers of a browser page (`hosts/web`).  These modules
model the parts of the kernel whose correctness depends on order: who sleeps
and who is woken, who holds what, and what is left behind when a call is
interrupted, a process is killed, or two of them share a table, a wire or a
word of memory.  They also model the two libraries of locks that programs
build on the kernel's semaphores and rendezvous.

The kernel is cooperative.  A system call runs to its end unless it sleeps,
waits for a sleeping lock (`QLock`) or yields.  It then answers `Ret::Sched`,
and keeps the rest of itself as a closure in `Kernel.labels`, or as a place in
a device's own table, to go on from when the process is entered again.  The
clock interrupts programs, the end of a call and the idle loop, never a call
half-way.  So one action of a model is what a call does between two points at
which the processor can change hands.

## The parts of the system

| part | source | module | state |
|---|---|---|---|
| process table, sleep, wakeup, timers, `QLock` | `proc.rs` | `Procs`, `Coop` | modelled, proved |
| run queues, clock, `schedinit` | `proc.rs`, `lib.rs` | `Sched` | modelled, proved |
| queues and pipes | `qio.rs`, `devpipe.rs` | `Pipe`, `Stream`, `PipeStream` | as pipes use them, proved but for `Stream` |
| alarms, the idle loop | `proc.rs`, `lib.rs` | `Alarm` | modelled, with who waits for a key or a server |
| descriptor tables, channel references, `closeproc` | `proc.rs`, `lib.rs`, `chan.rs` | `Fgrp` | but for seek, directories, explicit offsets; proved |
| process life cycle (`rfork`, `exits`, `await`, Broken) | `proc.rs`, `lib.rs` | `Life`, and in `Coop`, `Alarm`, `Fgrp` | but for `exec` and the groups other than descriptors |
| notes: queue, handlers, `noted` | `proc.rs`, `lib.rs` | `Life`, and in `Coop`, `Pipe` | but for note groups |
| `/proc` | `devproc.rs` | `Life`, and in `Sched`, `Coop`, `Fgrp` | ctl's requests and the note file; not tracing, profiling, text files |
| semaphores | `lib.rs` | `Sema` | but for negative words and the wrap |
| rendezvous | `lib.rs` | `Rendezvous` | one group |
| libc's `Lock` | `userspace/sys/src/libc/port/lock.c` | `Lock` | modelled, one theorem |
| libc's `QLock`, `RWLock`, `Rendez` | `userspace/sys/src/libc/9sys/qlock.c` | `QLocks` | up to a `canqlock` that finds the `Lock` inside held; proved |
| mount driver | `namec.rs`, `devmnt.rs` | `Mux` | the multiplexer; not the messages |
| names, console, `#s`, `#e`, `#c`, 9P messages, other devices, hosts, userland | | - | not modelled, see below |

`PROJECT.json` lists the same parts with the reason for each one left out, the
hazards at the line where they bite, and for every definition the lines it
stands for.

How they depend on each other:

    Procs --- Coop ------- Sched             (who runs)
          |-- Pipe ------- PipeStream - - - > Stream
                                             (Pipe implements Stream)
          |-- Alarm
          |-- Life
          |-- Sema ------- Lock
          |-- Rendezvous - QLocks
          `-- Mux
    Fgrp

Every module but `Fgrp` uses the operations of `Procs` as they are, and so the
same sleep, wakeup and note.  `Sched` implements `Coop`, which lets any Ready
process be entered; the others enter any Ready process, as `Coop` does, and so
hold for whatever the run queues choose.

## The modules

**Procs** is the process table as one record: state, the `Rendez` each process
is on, the process on each `Rendez`, timers, pending notes, the locks with
their queues, and who runs.  Each operation of `Procs` in the source - `sleep`,
`wakeup`, `tsleep`, `postnote`, `qlock`, `qunlock`, `interrupted` and so on - is
an operator from a table to a table, which the other modules use in their
actions.  `Sound` says what the table keeps by itself.

**Coop** is the kernel seen from its processes: any of them, when it runs, may
sleep where it is allowed to, wake, note, lock, unlock, rendezvous, stop, start,
kill, fork, exit, become Broken; any Ready one may be entered; timers and
devices wake sleepers between calls.  `Guard` says which lock serialises the
sleepers of a `Rendez`, as the queues', the keyboard's and the close queue's
locks do; `holder` is who holds each lock, which the code knows only by where
a call is.

**Sched** refines the choice of who runs: `runq`, `nrdy`, `m->readied`,
priorities, the clock's steps (timers, `rebalance`, `hzsched`) as separate
steps of one interrupt.  What decays a priority (`updatecpu`, `reprioritize`)
is any priority it may give.

**Pipe** is `qio.rs` as `devpipe.rs` uses it: two queues of blocks with
`qread` and `qwrite` in the steps they are left in (`At::Read`, `At::Wlock`,
`At::Flow`, and between the blocks of a long write), `rlock` and `wlock`, flow
control with the real accounting of block sizes, end-of-file counting, hangup,
close and reopen, and notes at every sleep.  **Stream** is what that promises:
two streams of blocks, with no lock, sleep or wakeup in it.  **PipeStream** is
the mapping: a queue's blocks without what they were allocated are the stream's,
and a write in progress has still to bring the blocks it has not queued.

**Alarm** has `procalarm`'s list, the clock's `checkalarms`, the alarm process,
exits and waits that take processes off the table while the list names them,
and the idle loop's decision that the system is over.  A process's alarm is the
number of ticks to it plus one; 0 is none and 1 is due.  `Readers` may read the
keyboard or a server of the machine (`#9`): the idle loop goes on while one of
them waits, and the clock takes in what they wait for.

**Fgrp** has descriptor tables that are shared, copied and cleared, the
references that slots and calls in progress hold, the closes that wait and the
kills that cut them short, `clunkq` with its closeprocs and their lock, and the
offset of a channel under concurrent reads and writes.  A call's sleep in the
device is the time between its two steps.  `told` counts the `dclose`s begun.

**Life** is how a process begins, is told things and ends: `rfork` with and
without `RFNOWAIT`, `exits`, `pexit`, the list of Broken processes, `await` and
its records, faults, the queue of notes with its limit, `notify` and handlers,
`noted`, and ctl's `kill`, `stop`, `start`, `startstop` and `waitstop`.  The
state is one record, and the code's functions are operators on it.  An action is
a call from its start, or from where it slept, to where it sleeps or to the end
of `syscall_tail`, which looks at `procctl` and at the notes.  Descriptors are
closed at once here; `Fgrp` is about the closes that wait.  When `noted` has
ended a process, `syscall_tail` still looks at its notes and requests (`Over`),
and then the machine leaves it, as the browser's does; the terminal's machine
(`hosts/ipnx/src/machine.rs`) first delivers a note that was handed to it, which
is not modelled.

**Sema** has `semacquire`, `tsemacquire` and `semrelease`: the words, the
segment's list of waiters, and `semdone`'s passing on of a wakeup its receiver
does not use.  Left out are the error a negative word or count gives, and the
wrap of a word past 2^31 - 1.  **Lock** is libc's `Lock` on it, with `ainc` and
`adec` and each system call as steps of their own, and beside it calls on another
semaphore in the same segment.

**Rendezvous** has the calls that meet, wait and are broken off by a note.
**QLocks** is `qlock.c` on it: `QLock` with `rsleep`, `rwakeup` and
`rwakeupall`, or `RWLock`.  A section under the lock's `Lock` that makes no
system call is one step; the end of `wunlock`, which makes some, holds it from
step to step.  A `canqlock` whose `canlock` fails leaves the `Lock` open to two
processes at once (`lock_canlock`, below).  The step is in the model, it sets
`astray`, and the behaviour stops there: what two processes do to one list at
the same time is not modelled.

**Mux** is the multiplexer of the mount driver: a call's RPCs, the request and
its tag, the one process that reads the wire for all and its hand-over, the
queue of tags, `Tflush` after a note and its reply, errors of the wire, and the
record (of fids and RPCs) a call that slept is run again from.  A call is a
program: each RPC says whether it asks for a fid, and which RPC follows its
success and which its error, so that a walk goes on in a union's next element
and an open that failed clunks its fid.  The wire is a pipe cut down to whole
messages, with its `wlock` and `rlock`.  It keeps what matters here: its write may leave the processor
with the message already on the wire, in flow control or because it has woken a
server of higher priority.  The server is any program that keeps to 9P.

**MC\*** instantiate them.  **ProcsProofs**, **SchedProofs** (of `Coop` and
`Sched`), **PipeProofs**, **FgrpBooksProofs** and
**FgrpProofs**, **LockProofs** and **QLocksProofs** hold the theorems.

## The runs

| run | instance | checks |
|---|---|---|
| `sched` | 3 processes, 2 priorities, a lock, an own and a shared `Rendez` | `RendezPaired`, `NoDoubleSleep`, `NoteEndsSleep`, `LockQueues`, `QueuesAgree`, `HandsOver`, `HighestFirst`, and that `Sched` implements `Coop` (`Cooperates`) |
| `pipe` | writer, reader, process with both ends; one direction | `FlowKept`, `LockOfOneCall`, `WritesInOrder` |
| `pipe_stream` | 2 processes, ends opened and closed again and again; fair | `ClosedTogether`, `HangupHeard`, and that `Pipe` implements `Stream` (`ImplementsStreams`) |
| `alarm` | parent, 2 children (one a reader of the keyboard), alarms of up to 2 ticks; fair | `AlarmsInOrder`, `DueUnlessOrphaned`, `ClearedIsPosted`, `AlarmEndsSleep` |
| `alarm_reaped` | the same | `DueWakes` is violated |
| `fgrp` | 2 processes, 2 channels, 2 slots, a file of 2 bytes | `ClosesKept`, `WholeWritesApart`, `LastIsTold`, `TendedUnlessCtl` |
| `life` | 3 processes, 1 note each, 1 Broken kept | `NoLostChild`, `EndedKept`, `StopwaitKnown`, `SleepersHear`, `AwaitTruthWaited` |
| `lock` | 3 processes, a `Lock`, a semaphore; fair | `ExclusiveUntilCanlock`, `WakeupsCover`, `LockProgress` |
| `lock_canlock` | the same | `MutualExclusion` is violated |
| `qlock` | 3 processes, a `QLock` or an `RWLock`, 1 note; fair | `Exclusion`, `NoAbort`, `HandOvers`, `Served` |
| `mux` | up to 3 processes, a server | `AnswerComingPut`, `OwnAnswer`, `SentOnce`, `WireRead`, `QueueKept`, `NoneStuck` |
| `mux_reply` | the same, with calls of one RPC | `AnswerComing` is violated |

Some invariants are conjunctions, with the type invariant of the module among
them, of statements that each have their name and comment: `QueuesAgree` of
`RunqOnce`, `NrdyCounts` and `ReadiedIsReady`; `FlowKept` of `LenIsSum` and
`NoLostWakeup`; `ClosesKept` of `ToldOnce`; `EndedKept` of `BrokenListed` and
`EndedRests`; `SleepersHear` of `KilledRuns` and `NotesReachSleepers`;
`HandOvers` of `NonePassedBy`, `HandOverMeets` and `QueueMeansHeld`; `WireRead`
of `OneReader` and `NoIdleWire`; `QueueKept` of `TagsReserved` and
`NothingLeft`.

Deadlock is checked in `sched` and `lock`.  In the other modules everyone may
really wait for everyone (two readers of two pipes), every process may have
exited, or the calls of the plan are made once, and their configurations say so.
In `mux`, `NoneStuck` takes its place: when nothing can run and the server has
answered all, no call waits.

### What the violated runs show

- `alarm_reaped`: a child exits with an alarm set (`closefgrp` sets
  `p.alarm = 0` and leaves it on the list) and is waited for before the next
  tick, which takes it out of the table.  The list's head then names nobody,
  and `checkalarms`, which looks only at the head, wakes the alarm process no
  more: every later alarm is silent.
- `lock_canlock`: `canlock` adds 1 to `key`, and if the lock is held takes it
  off again.  What `adec` leaves is then not 0, since the holder's 1 is there,
  and `canlock` calls `semrelease`, which is meant for a waiter that came in
  between.  With no waiter the semaphore stays at 1, and the next `lock` goes
  through `semacquire` beside the holder.
- `mux_reply`: `rpc` puts its tag in `m.queue` only after the wire's write
  has returned.  The write can leave the processor with the request on the
  wire.  If the server answers before the writer runs again and another process
  reads the wire, that reader finds the tag in no queue and drops the reply; the
  RPC then waits for ever.

Each contradicts a comment or a document, quoted in `PROJECT.json`.  The passing
runs check weaker statements that do hold, each of which says that the cause
named above is the only one: `DueUnlessOrphaned`, `ExclusiveUntilCanlock`,
`AnswerComingPut` (with the exemption of the next section).

### Other disagreements

These too are stated beside the code and false in the model.  They have no run
of their own; adding the property to the configuration named shows each.

| property | add to | what happens |
|---|---|---|
| `OverIsOver` | `Alarm.cfg` | `schedinit` ends the system when nobody is Ready and no sleep is timed.  The alarm process sleeps without a timer, so a system whose last process waits in a read under an alarm is ended before the alarm (`lib.rs:556`). |
| `DeviceTold` | `Fgrp.cfg` | A call asleep in its device holds a reference.  If a process that shares the table closes the descriptor, that reference is the last, and it is dropped without a `dclose` (`proc.rs:132`; `lib.rs:2193`: "The device is told, when the last reference goes."). |
| `WritesApart` | `Fgrp.cfg` | A failed or short write gives its range back by lowering the offset as it is by then; if another write took the range behind, that range is handed out twice (`lib.rs:1776`). |
| `QueueTended` | `Fgrp.cfg` | ctl's `close` and `closefiles` put channels on `clunkq` and wake or make no closeproc (`devproc.rs:750`). |
| `AwaitTruth` | `Life.cfg` | An `RFNOWAIT` child's end wakes a parent that is in `await`; it then finds no record and answers that it has no living children, though another lives (`proc.rs:2012`, `lib.rs:2082`). |
| `EndedRests` without `p \notin k.unclean` | `Life.cfg` | A process with a note or a request outstanding calls `noted` outside a handler, or in one with an argument `noted` does not know, and is made Broken; `syscall_tail` then acts on the note or the request, since `notify_` looks only for Moribund and Dead: a stop makes it Stopped, and it can be started (`lib.rs:1978`; `lib.rs:499`: "nothing of it runs again"). |
| `SentOnce`, `OwnAnswer`, `AnswerComingPut`, `NothingLeft`, `OneReader`, `NoneStuck` without `amiss` | `Mux.cfg` | An error of the wire is not put in the record (`namec.rs:1716`, `1909`).  A call that goes on after it, in a union's next element or with the clunk of an open that failed, takes the failed RPC's step for the next one's: a request whose tag is not in the queue, one that is sent again, the reply of another request, or a place as reader that nobody gives up, with the wire's `rlock` (`namec.rs:1507`: "nothing is sent twice and the server sees one conversation"). |

Beside them the runs check `LastIsTold`, `WholeWritesApart`, `TendedUnlessCtl`
and `AwaitTruthWaited`, which hold, and the properties named in the last two
rows with their exemptions.  Those are wide: `unclean` are the processes `noted`
made Broken with something outstanding, `amiss` the processes one of whose calls
went on after an error of the wire.  `AlarmEndsSleep` exempts a system that is
over, which `OverIsOver` is about.  `StopwaitKnown` also has its condition: a
debugger in `waitstop` is woken when its process stops, and sleeps on when the
process exits (`devproc.rs:680` says "has stopped, or gone").

### Bounds

Three processes are the fewest that can race for one sleeper: the sleeper, who
wakes it, and who notes it or waits for the lock it holds.  One `Rendez` of a
process's own and one that a lock guards are the two kinds there are.  Two
priorities let one process overtake another, and `Nrq` queues differ by
nothing else.

In `Pipe`, `Limit` is twice the smallest block's allocation, so that one block
is below it and two fill the queue; `Maxatomic` is 2 and a write is of 3 bytes,
so that it is of a full block and a last one (`pipe_stream` also has the write
of none); reads of 1 byte take part of a block.  `MaxQueued` bounds the blocks past the limit that writers who were
interrupted in flow control can add, one each time, without end.  One
direction at a time is used, because the queues share nothing but `close`; the
constants `ReadEnds` and `WriteEnds` say which.

In `Alarm`, `MaxTicks` is 2, so that two alarms can be apart, equal, or set in
either order, and one process reads the keyboard.  The reply to a read that a
note ended also keeps the idle loop going; the model does not follow it, and
idle, with nobody to wait for, lets the clock tick or the system end.  In `Fgrp`, two slots let a channel be in a table twice and two
channels let a kill fall between two closes; `MaxOffset` is the bytes a channel
may take, and two are enough for a range to be given back and taken again; the
offset of one of the channels, in `File`, is followed.  There are as many
closeprocs as channels, since each is made for one.

In `Life`, `NNOTE` and `NBROKEN` are 1, so that one note fills a queue and one
Broken process pushes another out.  A budget is a number of notes and kills and
a number of stops and of suicides by `noted`, which are what makes processes
interfere: two of the first,
or one and two of the second, are enough for a note to find a full queue, for a
stop to meet a kill, and for a second debugger to take over from the first.
`Leads` says who forks; the others sleep where it awaits.

In `Lock`, a word is raised to `MaxWord` = 2 at most by programs, and by 1 or 2
at a time, so that a release wakes one waiter or two.  In `QLocks` there is a
`QLp` for each process; the code has 1024 for all and aborts without one.  One
note is enough for an interrupted rendezvous to meet each step of a hand-over.

In `Mux`, `Plans` are the calls of each process as programs of RPCs, and the
notes: three processes with an RPC each and one note; two with two notes; a walk
in a union of two elements beside another's RPC and one note; an open (walk,
open, and clunk if that fails) with two notes.  So a reader can hand over to each
of two, a flush can itself be interrupted, a call can be run again past an RPC
that was answered, and one can go on after an error of the server or of the
wire.  `Limit` is 2 messages.  There are more
tags than RPCs: the wrap of `newtag` at 65,535 is not reached.

Symmetry is used for processes, tables and closeprocs where the
specification does not name one, and never in a run with a liveness property.

`sched` and `life` also have a view, `MCView`.  That of `sched` leaves out the
priority of a process that is neither Ready nor Running, which `ready` sets
before anything reads it, and the base priority of one that has ended, which
`rfork` sets.  That of `life` leaves out what nobody looks at of a process that
has ended or whose parent has.  With a view and symmetry together the count of
states can vary by a few from run to run: TLC chooses who stands for a symmetric
pair by the whole state, hidden parts included, so that now and then it keeps
both of a pair.

### Fairness

`sched`, `pipe`, `fgrp`, `life` and `mux` assume none.  The others:

- `pipe_stream`: each Ready process is entered in the end (`SF(Entered(p))`).
  The kernel gives that: a process that computes loses priority as
  `reprioritize` counts its time, `rebalance` raises those that wait, and no
  process of the model fixes its priority.  `WF` of `Preempt` is the clock, and
  of `NextBlock` that a call in progress goes on.
- `alarm`: the clock ticks (strong, as it may come only outside calls), the
  alarm process, at `PriKproc`, is entered when it is Ready, and some Ready
  process runs.
- `lock`: a program inside `lock` or `unlock`, or with the lock, goes on when it
  is Ready, a call that was woken is finished, and timers expire.
- `qlock`: a process inside `qlock.c` goes on when it is Ready, and who holds a
  lock unlocks it.

Nothing else is assumed of programs: they need not read, write, close, lock or
release a semaphore of their own.

### Shared memory

`Lock` and `QLocks` are about processes that share memory (`RFMEM`).  The hosts
do not yet run two such processes at once (`docs/when.md`, on the semaphores),
so that today a waiter is woken by a note or a timeout; the modules say what the
kernel's calls and the library do together when they do.

## What is proved

TLAPS proves nineteen theorems that state properties of the runs, for every value
of the constants.

**Coop**, for any numbers of processes, `Rendez` and locks and any `Guard`:

| theorem | property |
|---|---|
| `WakeupNeverPanics` | `RendezPaired`: `wakeup`'s state check never fails, and every sleeper can be found |
| `OneSleeperEach` | `NoDoubleSleep`: no two processes sleep on one `Rendez` |
| `NotesEndSleeps` | `NoteEndsSleep`: nobody is asleep with a note pending |
| `LocksAreHandedOver` | `LockQueues`: a lock has one holder, and a waiter is queued once |

They follow from `CoopInvariant`, `CoopSpec => []CoopInv`, as does the type
invariant (`CoopTypeCorrect`).  The inductive invariant has two halves.
`Sound(procs)` is what the table's operations keep whoever calls them: its type,
the pairing of sleepers and `Rendez`, no sleeper with a note, the locks' queues
without repetition and made of exactly the processes that are `Queueing`, one
process running.  `ProcsProofs` has one lemma per operator for it (`SleepSound`,
`WakeupSound`, `PostnoteSound`, `QlockSound`, `QunlockSound`, ...).  The other
half is what the callers' discipline adds: `Held`, that a lock is locked exactly
while someone holds it, and `Guarded`, that who is asleep on a `Rendez` is who
may sleep there.  `NoDoubleSleep` alone is not inductive: a state with the lock
free and its old holder asleep would break it, and `Guarded` with `Held` excludes
that state.  The proof then has one step per action.

**Sched**, for any number of processes and priorities besides:

| theorem | property |
|---|---|
| `SchedCooperates` | `Cooperates`: `Sched` implements `Coop`, so that the four theorems above hold of the scheduled processes |
| `QueuesStayAgreed` | `QueuesAgree`: a process is on a run queue exactly while it is Ready, and once; `nrdy` counts them; `m->readied` is one of them or none |
| `JustReadiedIsNext` | `HandsOver`: the process readied last is entered next, unless ctl's `pri` moved its priority away from its queue |
| `HighestIsNext` | `HighestFirst`: anyone else is entered only from the highest queue that holds somebody |

The argument goes by the set of the Ready processes.  A first part shows what
each step of `Coop` does to it: nothing, or one process more that was not in
it.  A second shows that appending a process that is in no queue, and
removing one from the queue it is in, keep the queues a copy of the set
(`Queues`: each member once, no other, counted by `nrdy`).  The last puts
the two together, one step per action, in `SchedInvariant`.  Neither half would
do alone.  That the process entered is Ready, which `Coop` asks for, follows
from the queues; that a process put on a queue is not there already follows from
its state, and so from `CoopInv`.  For that reason the invariant and the
refinement are one theorem.

**Pipe**, for any number of processes, any sizes of reads, writes and blocks and
any limit above 1:

| theorem | property |
|---|---|
| `PipeFlowKept` | `FlowKept`: `q->len` is what the blocks were allocated, and nobody sleeps on a queue that will not wake it |
| `PipeLocksKept` | `LockOfOneCall`: `rlock` and `wlock` are taken exactly while one call has them |
| `PipeClosesTogether` | `ClosedTogether`: the two queues hang up and reopen together |

`PipeInvariant` has the inductive invariant, `PipeInv`.  A lock is taken exactly
when one call that is not queued for it has it, and who sleeps on a `Rendez` has
the lock that guards it (`LockInv`).  A reader sleeps only on an empty queue
marked `Qstarve`, a writer only on one that is marked `Qflow` and holds half its
limit or more (`Tended`).  The opens are counted (`Opens`), and who is in a call
has its end open (`Calls`).  `NoLostWakeup` alone is not inductive: that a
`qwrite` which finds `Qstarve` clear need wake nobody follows from `Tended`, and
that only one process can be asleep there to be woken, from `LockInv`.  An
operation takes the table another left in the middle of a step, so the lemmas
are about tables (`LockInv(t, lk)`), one per operation; the theorem's proof puts
them together, one step per action.

**Lock**: `LockExcludes` is `ExclusiveUntilCanlock`, for any number of
processes, semaphores, notes and timeouts.  The lock is a token in one place:
with the process inside, with the one about to release it, or in the semaphore,
and nowhere when `key` is 0 (`OneToken`).  Mutual exclusion alone is not
inductive, since it does not say that the semaphore is 0 while somebody is
inside.  Only the effect of the calls on the word is used (`CallEffect`), so
that the list of waiters plays no part.

**QLocks**, for any number of processes, `QLp`s and notes:

| theorem | property |
|---|---|
| `LocksExclude` | `Exclusion`: a `QLock` has one holder, and an `RWLock`'s writer holds it alone |
| `LocksNeverAbort` | `NoAbort`: no `abort()` of `qlock.c` is reached |
| `LocksHandOver` | `HandOvers`: nobody waits for a free lock, and a hand-over meets the process it is for and no other |

Between the step that takes a waiter off the list and its rendezvous, the lock
is nobody's by the programs' counters, and a note may break either side's call.
So in `QLocksInv` a lock belongs also to a process that waits on a `QLp` which is
on no list (`Chosen`).  `ChainInv` says that a `QLp` is of one process and at
one place of one list at most.  `GroupInv` says that who is in the rendezvous
group is there with its own part and its `QLp`'s address.  `WakeInv` says that
who is being woken is `Chosen`, has not been met and has one waker.
`QLockInv` and `RWLockInv` then count holders and readers.  `Exclusion` alone
is not inductive, as it says nothing of who has been given the lock and has not
come back.

**Fgrp**, for any number of processes, tables, channels, slots and closeprocs:

| theorem | property |
|---|---|
| `ClosesStayKept` | `ClosesKept`: a device is told of a channel's close once, by one closer, and only when no descriptor and no call holds the channel |
| `LastIsAlwaysTold` | `LastIsTold`: the step that takes the last reference closes the channel or leaves it to be closed, unless the reference was that of a call in the device |
| `QueueStaysTended` | `TendedUnlessCtl`: only a ctl file's close queues channels without a closeproc, and none rests while something is queued |
| `WholeWritesStayApart` | `WholeWritesApart`: two writes never write the same byte, as long as no write on the channel was short |

`FgrpBooksProofs` keeps books.  Each call has a set of channels it is to close,
the close queue has one, and beside them are the channels told, those held by a
slot or a call, and those open; no channel is in two of the first four, and
each list names a channel once (`Books`).  `ToldOnce` alone is not
inductive: a channel that a killed process has both in its list and on the queue
has not been told twice yet.  Every step moves channels from one book to
another, and one that leaves the last reference's book is in one of the closing
ones afterwards (`Accounted`), which is `LastIsTold`.  `FgrpProofs` adds the
writes and the offsets.  The ranges of the writes in progress and the bytes
written are apart and below the offset (`Apart`); the bytes written alone would
not be enough, as a write owns its range from the time it takes it.  The offset
has room for all that the writes in progress may give back (`Fits`), without
which the type of an offset, a natural number, is not kept.

The assumptions are those the modules name on their constants:

- `NoneAssumption`: `NoProc` is no process and `NoRid` no `Rendez`;
- `GuardAssumption`: `Guard` gives each `Rendez` a process or a lock;
- `PriAssumption`: the priorities are numbers below `Npriq`, the processes
  finitely many;
- `PipeAssumption`: the `Rendez` and locks are those of the two queues, the
  processes are finitely many, sizes are natural numbers, `Limit` is above 1
  (with 1, half of it is 0, and a full queue would never be low);
- `LockSemAssumption` and `DeltaAssumption`: the lock's semaphore is one, and
  releases add natural numbers;
- `QLocksAssumption`: finitely many processes, `None` is no `QLp`, and the values
  that meet are a waiter's and a waker's;
- `FgrpAssumption`: finitely many processes, more tables than processes, a
  closeproc for each channel, at least one slot.

TLC evaluates each of them in a run.

Only model-checked:

- everything under fairness (`HangupHeard`, `AlarmEndsSleep`, `LockProgress`,
  `Served`): TLAPS does not reach liveness;
- that the blocks of a write are queued once and in order (`WritesInOrder`), and
  that `Pipe` implements `Stream` (`ImplementsStreams`): a step of the device is
  a step of the stream on parts of sequences of sequences, which is checked for
  the sizes of the run;
- the wakeups of `Sema` (`WakeupsCover`): how many waiters a release wakes is
  computed along the list, which for every length would take an induction over
  it;
- the alarms, `Life` and `Mux`, whose invariants are checked as they stand and
  have no inductive strengthening here.

## Not modelled

- **Names and namespaces** (`namec.rs`, `ns.rs`, `chan.rs`), and `#s`.  Walk,
  mount, bind and unmount are atomic unless a server is a process.  What they
  mean is the resolution of names over channels, fids and a server's tree: data,
  more than order.  The point at which order matters, a walk that sleeps in an
  RPC and is run again from its record, is in `Mux`.
- **The messages of the mount driver** (`devmnt.rs`, `ninep.rs`).  A call is a
  program of RPCs.  The codec has no state.  `Mux` also leaves out the wrap of
  tags, `Tversion`'s `NOTAG`, replies that are no message, the closes a call
  defers (`Step::Once`), and `forget`, as no process ends there.
- **The console** (`devcons.rs`): line editing over the queues and locks that
  `Pipe` and `Procs` have.  `Coop`'s theorems cover its sleeps, whose `Rendez` a
  lock guards.
- **`#e`, `#c`, `#d`, `/`, `#9`, the device table, the machine's trait.**
  Atomic calls on a table, a hash, read-only views, messages passed to a
  server of the host (whose reader's sleep is in `Alarm`), dispatch.
- **Note groups, `exec`, tracing, profiling**, and the groups that `rfork` shares
  or copies other than descriptors.
- **The hosts.**  What the kernel sees of them - when an interrupt may come - is
  in `Coop` and `Sched`.  The mailbox between a browser's workers depends on its
  memory model and event loop.
- **Userland**: vendored programs, except the two libraries of locks.
