-------------------------------- MODULE Fgrp --------------------------------
(***************************************************************************)
(* Descriptor tables, the channels in them, and the telling of devices      *)
(* (src/kernel/src/proc.rs, lib.rs, devproc.rs).                            *)
(*                                                                         *)
(* A process has a descriptor table (`fds'), which rfork shares, copies or  *)
(* clears.  A slot holds a reference to a channel, and so does a read or a  *)
(* write in progress, which may sleep in the device.  Close, dup, rfork     *)
(* without RFPROC and pexit take references away, and dclose each channel   *)
(* whose last reference went; a dclose may sleep too.  A process killed     *)
(* while it closes a table hands what is left to clunkq, which closeproc    *)
(* closes.  Reads and writes move the offset, which is the channel's.       *)
(*                                                                         *)
(* A sleep is the time between the two steps of a call: in it any other     *)
(* process may run.  The devices and the namespace are left out.            *)
(***************************************************************************)
EXTENDS Integers, FiniteSets, Sequences, Functions

CONSTANTS
    Proc,       \* processes, in the order their pids are given out
    First,      \* the first of them
    Table,      \* descriptor tables
    Nfd,        \* the slots of a table
    Chan,       \* channels
    File,       \* those that are written, and whose offset is followed
    NoChan,     \* an empty slot
    NoTable,    \* the table of a process that has none
    Kproc,      \* closeprocs
    NoKproc,
    MaxWrite,   \* the bytes of a write
    MaxOffset   \* a bound on what is read and written

ASSUME FgrpAssumption ==
    /\ First \in Proc /\ IsFiniteSet(Proc)
    /\ NoTable \notin Table /\ NoChan \notin Chan /\ NoKproc \notin Kproc
    /\ Cardinality(Table) > Cardinality(Proc)
    /\ Cardinality(Kproc) >= Cardinality(Chan)
    /\ Nfd \in Nat \ {0}
    /\ File \subseteq Chan
    /\ MaxWrite \in Nat /\ MaxOffset \in Nat

VARIABLES
    fds,        \* each process's table
    slots,      \* what is in each table
    up,         \* the call each process is in
    chan,       \* channels: offset, and of the writes, bytes written, written twice,
                \* and whether one fell short
    told,       \* how often the device was told a channel is closed: dclose begun
    clunkq,     \* channels closeproc is to close
    make,       \* `closeproc': a closeproc must be made
    kp,         \* the closeprocs
    ql          \* the QLock clunkq.q: its holder, and who waits

vars == <<fds, slots, up, chan, told, clunkq, make, kp, ql>>

Fd == 0..(Nfd - 1)
Empty == [x \in Fd |-> NoChan]

\* The calls a process may be in, and what it is before and after.
Ends == {"exit", "noimage"}
Ops == {"unborn", "user", "read", "write", "close", "rfork", "dead"} \cup Ends
Up(op) == [op |-> op, cell |-> NoChan, at |-> 0, n |-> 0, cs |-> <<>>,
           begun |-> FALSE, killed |-> FALSE]

Kstates == {"none", "loop", "qwait", "locked", "asleep", "woken", "close"}

Init ==
    /\ \E t \in Table : fds = [p \in Proc |-> IF p = First THEN t ELSE NoTable]
    /\ slots = [t \in Table |-> Empty]
    /\ up = [p \in Proc |-> Up(IF p = First THEN "user" ELSE "unborn")]
    /\ chan = [c \in Chan |-> [open |-> FALSE, offset |-> 0,
                               bytes |-> {}, twice |-> FALSE, short |-> FALSE]]
    /\ told = [c \in Chan |-> 0]
    /\ clunkq = <<>>
    /\ make = FALSE
    /\ kp = [k \in Kproc |-> "none"]
    /\ ql = [held |-> NoKproc, q |-> <<>>]

-----------------------------------------------------------------------------
(* References.                                                              *)

\* The channels the slots of tables s and the calls u hold: Rc's count.
Held(s, u) ==
    ({s[t][x] : t \in Table, x \in Fd} \cup {u[p].cell : p \in Proc}) \ {NoChan}

\* A reference to c goes: the channel, if it was the last (Rc::try_unwrap).
Lastref(c, s, u) == IF c \in Held(s, u) THEN <<>> ELSE <<c>>

\* The channels of a table, each at the last slot it is in: the order in
\* which the table's references go.
InOrder(f) ==
    LET lastin == {x \in Fd : f[x] # NoChan /\ \A y \in Fd : f[y] = f[x] => y <= x}
    IN  [i \in 1..Cardinality(lastin) |->
            f[CHOOSE x \in lastin : Cardinality({y \in lastin : y <= x}) = i]]

\* The references of f go: the channels whose last they were.
Lastrefs(f, s, u) ==
    LET held == Held(s, u)
    IN  InOrder([x \in Fd |-> IF f[x] \in held THEN NoChan ELSE f[x]])

\* closefgrp: nothing unless the process's reference f was the table's last.
Released(t, f, s) == IF \E p \in Proc : f[p] = t THEN s ELSE [s EXCEPT ![t] = Empty]

Free(f) == {x \in Fd : f[x] = NoChan}
Lowest(S) == CHOOSE x \in S : \A y \in S : x <= y

-----------------------------------------------------------------------------
(* The end of a call, and the close queue.                                  *)

\* ccloseq of each of cs in turn: it wakes the closeproc that sleeps, and
\* from the second on, or if none sleeps, one is to be made.
Woken(k) == [j \in Kproc |-> IF k[j] = "asleep" THEN "woken" ELSE k[j]]
Sleeper == \E k \in Kproc : kp[k] = "asleep"
Unserved(cs) == Len(cs) > IF Sleeper THEN 1 ELSE 0

\* syscall_tail: the closeproc asked for is made.  A process without its
\* image runs as a kproc does, and leaves the request standing.
CallTail(p, asked, k) ==
    IF asked /\ up[p].op # "noimage"
    THEN /\ \E j \in Kproc : /\ k[j] = "none"
                             /\ kp' = [k EXCEPT ![j] = "loop"]
         /\ make' = FALSE
    ELSE kp' = k /\ make' = asked

\* A call that touches no close queue.
Returns(p) == CallTail(p, make, kp) /\ UNCHANGED <<clunkq, ql>>

\* p, its call being as in u, goes on to the closes of cs, in `then', or ends
\* the call at once.
Closing(u, p, then, cs) ==
    up' = [u EXCEPT ![p].op = IF cs # <<>> THEN then
                               ELSE IF then \in Ends THEN "dead" ELSE "user",
                     ![p].cs = cs,
                     ![p].begun = FALSE]

-----------------------------------------------------------------------------
(* Descriptors.                                                             *)

User(p) == up[p].op = "user"

\* Open, or any call that makes a channel: into the lowest free slot, or, with
\* none, closed again.
Open(p) ==
    /\ User(p)
    /\ \E c \in Chan :
        LET f == slots[fds[p]] IN
        /\ ~chan[c].open
        /\ chan' = [chan EXCEPT ![c].open = TRUE]
        /\ \/ /\ Free(f) # {}
              /\ slots' = [slots EXCEPT ![fds[p]][Lowest(Free(f))] = c]
              /\ UNCHANGED up
           \/ /\ Free(f) = {}
              /\ Closing(up, p, "close", <<c>>)
              /\ UNCHANGED slots
    /\ Returns(p)
    /\ UNCHANGED <<fds, told>>

\* dup(old, new): what was in new is closed if that was its last reference.
MutReplaced(c, s) == <<>>
Replaced(c, s) == IF c = NoChan THEN <<>> ELSE Lastref(c, s, up)

Dup(p, old, new) ==
    LET f == slots[fds[p]]
        s == [slots EXCEPT ![fds[p]][new] = f[old]]
    IN  /\ User(p)
        /\ f[old] # NoChan
        /\ slots' = s
        /\ Closing(up, p, "close", Replaced(f[new], s))
        /\ Returns(p)
        /\ UNCHANGED <<fds, chan, told>>

Close(p, x) ==
    LET f == slots[fds[p]]
        s == [slots EXCEPT ![fds[p]][x] = NoChan]
    IN  /\ User(p)
        /\ f[x] # NoChan
        /\ slots' = s
        /\ Closing(up, p, "close", Lastref(f[x], s, up))
        /\ Returns(p)
        /\ UNCHANGED <<fds, chan, told>>

-----------------------------------------------------------------------------
(* Processes.                                                               *)

Unused(t) == \A p \in Proc : fds[p] # t

\* rfork with RFPROC: a child whose table is its parent's, or a copy of it,
\* or a clear one.
Rfork(p, child) ==
    /\ User(p)
    /\ up[child].op = "unborn"
    /\ up' = [up EXCEPT ![child] = Up("user")]
    /\ \/ /\ fds' = [fds EXCEPT ![child] = fds[p]]
          /\ UNCHANGED slots
       \/ \E t \in Table, f \in {slots[fds[p]], Empty} :
            /\ Unused(t)
            /\ fds' = [fds EXCEPT ![child] = t]
            /\ slots' = [slots EXCEPT ![t] = f]
    /\ Returns(p)
    /\ UNCHANGED <<chan, told>>

\* The process's reference to its table goes: f and s are the tables then,
\* and what it held is closed.
Leave(p, f, s, then) ==
    LET t == fds[p]
        r == Released(t, f, s)
    IN  /\ fds' = f
        /\ slots' = r
        /\ Closing([up EXCEPT ![p].killed = @ /\ then # "noimage"], p, then,
                   IF r[t] = Empty THEN Lastrefs(s[t], r, up) ELSE <<>>)

\* rfork without RFPROC: a copy of the table or a clear one, and the old one
\* closed.
RforkSelf(p) ==
    /\ User(p)
    /\ \E t \in Table, f \in {slots[fds[p]], Empty} :
        /\ Unused(t)
        /\ Leave(p, [fds EXCEPT ![p] = t], [slots EXCEPT ![t] = f], "rfork")
    /\ Returns(p)
    /\ UNCHANGED <<chan, told>>

\* pexit: as the call exits, or on the way out of the kernel, for a note or
\* a kill; the image is gone then, and what waits runs on as kernel code.
Exit(p) ==
    /\ User(p)
    /\ Leave(p, [fds EXCEPT ![p] = NoTable], slots, "exit")
    /\ Returns(p)
    /\ UNCHANGED <<chan, told>>

Notified(p) ==
    /\ User(p)
    /\ Leave(p, [fds EXCEPT ![p] = NoTable], slots, "noimage")
    /\ UNCHANGED <<chan, told, clunkq, make, kp, ql>>

\* A kill: procctl asks the process to exit.
Kill(p) ==
    /\ up[p].op \notin {"unborn", "dead"}
    /\ ~up[p].killed
    /\ up' = [up EXCEPT ![p].killed = TRUE]
    /\ UNCHANGED <<fds, slots, chan, told, clunkq, make, kp, ql>>

-----------------------------------------------------------------------------
(* Closes that wait.                                                        *)

\* What a process killed in closefgrp still closes itself: what it began.
MutKept(u) == IF ~u.killed \/ u.op = "close" THEN u.cs ELSE <<>>
Kept(u) == IF ~u.killed \/ u.op = "close" THEN u.cs
           ELSE IF u.begun THEN <<Head(u.cs)>> ELSE <<>>

\* One turn of the loop: a killed process hands over what it has not begun,
\* and dclose of the first sleeps, or is done.
CloseStep(p) ==
    LET u == up[p]
        keep == Kept(u)
        handed == SubSeq(u.cs, Len(keep) + 1, Len(u.cs))
    IN  /\ u.cs # <<>>
        /\ clunkq' = clunkq \o handed
        /\ CallTail(p, make \/ Unserved(handed), IF handed = <<>> THEN kp ELSE Woken(kp))
        /\ \/ /\ keep # <<>>
              /\ told' = IF u.begun THEN told ELSE [told EXCEPT ![Head(keep)] = @ + 1]
              /\ \/ up' = [up EXCEPT ![p].cs = keep, ![p].begun = TRUE]
                 \/ Closing(up, p, u.op, Tail(keep))
           \/ /\ keep = <<>>
              /\ Closing(up, p, u.op, <<>>)
              /\ UNCHANGED told
        /\ UNCHANGED <<fds, slots, chan, ql>>

-----------------------------------------------------------------------------
(* closeproc.                                                               *)

\* qunlock(&clunkq.q): to the one that waited longest.
Unlocked(k) ==
    IF ql.q = <<>>
    THEN ql' = [ql EXCEPT !.held = NoKproc] /\ kp' = k
    ELSE /\ ql' = [held |-> Head(ql.q), q |-> Tail(ql.q)]
         /\ kp' = [k EXCEPT ![Head(ql.q)] = "locked"]

\* The body of the loop, with clunkq.q: the first channel's close is begun,
\* or the closeproc sleeps, still holding the lock.
Body(k) ==
    \/ /\ clunkq = <<>>
       /\ kp' = [kp EXCEPT ![k] = "asleep"]
       /\ ql' = [ql EXCEPT !.held = k]
       /\ UNCHANGED <<clunkq, told>>
    \/ /\ clunkq # <<>>
       /\ clunkq' = Tail(clunkq)
       /\ told' = [told EXCEPT ![Head(clunkq)] = @ + 1]
       /\ Unlocked([kp EXCEPT ![k] = "close"])

Loop(k) ==
    /\ kp[k] = "loop"
    /\ \/ ql.held = NoKproc /\ Body(k)
       \/ /\ ql.held # NoKproc
          /\ ql' = [ql EXCEPT !.q = Append(@, k)]
          /\ kp' = [kp EXCEPT ![k] = "qwait"]
          /\ UNCHANGED <<clunkq, told>>
    /\ UNCHANGED <<fds, slots, up, chan, make>>

\* Entered again with the lock, after waiting for it.
Locked(k) ==
    /\ kp[k] = "locked"
    /\ Body(k)
    /\ UNCHANGED <<fds, slots, up, chan, make>>

\* Five seconds without work.
TimedOut(k) ==
    /\ kp[k] = "asleep"
    /\ kp' = [kp EXCEPT ![k] = "woken"]
    /\ UNCHANGED <<fds, slots, up, chan, told, clunkq, make, ql>>

\* Entered again after the sleep: with still no work it exits.
MutIdleOut == TRUE
IdleOut == clunkq = <<>>

Wakes(k) ==
    /\ kp[k] = "woken"
    /\ \/ IdleOut /\ Unlocked([kp EXCEPT ![k] = "none"]) /\ UNCHANGED <<clunkq, told>>
       \/ ~IdleOut /\ Body(k)
    /\ UNCHANGED <<fds, slots, up, chan, make>>

\* The close is done.
Closed(k) ==
    /\ kp[k] = "close"
    /\ kp' = [kp EXCEPT ![k] = "loop"]
    /\ UNCHANGED <<fds, slots, up, chan, told, clunkq, make, ql>>

-----------------------------------------------------------------------------
(* /proc/n/ctl: close, of one descriptor, and closefiles, of all.           *)

CtlClose(p, q, xs) ==
    LET t == fds[q]
        s == [slots EXCEPT ![t] = [x \in Fd |-> IF x \in xs THEN NoChan ELSE slots[t][x]]]
        gone == [x \in Fd |-> IF x \in xs THEN slots[t][x] ELSE NoChan]
    IN  /\ User(p)
        /\ t # NoTable
        /\ slots' = s
        /\ clunkq' = clunkq \o Lastrefs(gone, s, up)
        /\ CallTail(p, make, kp)
        /\ UNCHANGED <<fds, up, chan, told, ql>>

-----------------------------------------------------------------------------
(* Reads and writes at the channel's offset.                                *)

\* fdtochan: the call holds the channel from here on.
Enter(p, op, x, n) ==
    LET c == slots[fds[p]][x] IN
    /\ User(p)
    /\ c # NoChan
    /\ up' = [up EXCEPT ![p].op = op, ![p].cell = c, ![p].at = chan[c].offset, ![p].n = n]

\* The call ends, and what it held is dropped.
Drop(p) == up' = [up EXCEPT ![p].op = "user", ![p].cell = NoChan, ![p].at = 0, ![p].n = 0]

Pread(p, x) ==
    /\ Enter(p, "read", x, 0)
    /\ Returns(p)
    /\ UNCHANGED <<fds, slots, chan, told>>

\* The offset moves on from where it is now by what was read.
EndPread(p) ==
    LET c == up[p].cell IN
    /\ up[p].op = "read"
    /\ \E d \in IF c \in File THEN 0..(MaxOffset - chan[c].offset) ELSE {0} :
           chan' = [chan EXCEPT ![c].offset = @ + d]
    /\ Drop(p)
    /\ Returns(p)
    /\ UNCHANGED <<fds, slots, told>>

\* The range is taken before the device writes.
MutTaken(o, n) == o
Taken(o, n) == o + n

Pwrite(p, x, n) ==
    LET c == slots[fds[p]][x] IN
    /\ Enter(p, "write", x, n)
    /\ c \in File
    /\ chan[c].offset + n <= MaxOffset
    /\ chan' = [chan EXCEPT ![c].offset = Taken(@, n)]
    /\ Returns(p)
    /\ UNCHANGED <<fds, slots, told>>

\* m bytes were written, and the rest of the range is given back.
EndPwrite(p) ==
    LET c == up[p].cell IN
    /\ up[p].op = "write"
    /\ \E m \in 0..up[p].n :
        LET new == up[p].at..(up[p].at + m - 1) IN
        chan' = [chan EXCEPT ![c].offset = @ - (up[p].n - m),
                             ![c].bytes = @ \cup new,
                             ![c].twice = @ \/ new \cap chan[c].bytes # {},
                             ![c].short = @ \/ m < up[p].n]
    /\ Drop(p)
    /\ Returns(p)
    /\ UNCHANGED <<fds, slots, told>>

-----------------------------------------------------------------------------
Next ==
    \/ \E p \in Proc :
        \/ Open(p) \/ RforkSelf(p) \/ Exit(p) \/ Notified(p) \/ Kill(p)
        \/ CloseStep(p) \/ EndPread(p) \/ EndPwrite(p)
        \/ \E x \in Fd : Close(p, x) \/ Pread(p, x)
        \/ \E x, y \in Fd : Dup(p, x, y)
        \/ \E x \in Fd, n \in 1..MaxWrite : Pwrite(p, x, n)
        \/ \E q \in Proc : Rfork(p, q)
        \/ \E q \in Proc, xs \in {{x} : x \in Fd} \cup {Fd} : CtlClose(p, q, xs)
    \/ \E k \in Kproc : Loop(k) \/ Locked(k) \/ TimedOut(k) \/ Wakes(k) \/ Closed(k)

Spec == Init /\ [][Next]_vars

-----------------------------------------------------------------------------
(* Properties.                                                              *)

ChanOrNone == Chan \cup {NoChan}

Calls == [op : Ops, cell : ChanOrNone, at : 0..MaxOffset, n : 0..MaxWrite,
          cs : Seq(Chan), begun : BOOLEAN, killed : BOOLEAN]
Channels == [open : BOOLEAN, offset : 0..MaxOffset, bytes : SUBSET (0..MaxOffset),
             twice : BOOLEAN, short : BOOLEAN]

\* Types: tables, calls, channels, the close queue and its lock.
TypeOK ==
    /\ fds \in [Proc -> Table \cup {NoTable}]
    /\ slots \in [Table -> [Fd -> ChanOrNone]]
    /\ up \in [Proc -> Calls]
    /\ chan \in [Chan -> Channels]
    /\ told \in [Chan -> Nat]
    /\ clunkq \in Seq(Chan)
    /\ make \in BOOLEAN
    /\ kp \in [Kproc -> Kstates]
    /\ ql \in [held : Kproc \cup {NoKproc}, q : Seq(Kproc)]

Count(s, c) == Cardinality({i \in DOMAIN s : s[i] = c})

\* The closes of a call, and of c, that have yet to be begun.
Todo(u) == IF u.begun THEN Tail(u.cs) ELSE u.cs
Pending(c) == Cardinality({p \in Proc : c \in Range(Todo(up[p]))}) + Count(clunkq, c)

\* A device is told of a channel's close once, by one closer - the process
\* that closed it, the process that exits, or closeproc - whatever kills,
\* dups and shared tables there are, and only when no descriptor and no call
\* holds the channel (`cclose', `closefgrp', `forceclosefgrp').
ToldOnce ==
    \A c \in Chan :
        /\ told[c] + Pending(c) <= 1
        /\ told[c] + Pending(c) = 1 => chan[c].open /\ c \notin Held(slots, up)

\* No table, call or queue is out of shape, and no close is made twice.
ClosesKept == TypeOK /\ ToldOnce

\* The device is told when the last reference goes: a channel no descriptor
\* and no call holds has been closed, or its close is to be made.
DeviceTold ==
    \A c \in Chan : chan[c].open /\ c \notin Held(slots, up) => told[c] + Pending(c) = 1

\* When the last reference goes with a close, a dup, an rfork or an exit, the
\* close of the channel is made or to be made at once (`Fds::close', `dup',
\* `closefgrp'); only the reference of a read or write that ends is dropped
\* without one.
LastIsTold ==
    [][\A c \in Chan :
          c \in Held(slots, up) /\ c \notin Held(slots', up') =>
             \/ (told[c] + Pending(c))' = 1
             \/ \E p \in Proc : up[p].cell = c /\ up'[p].cell = NoChan]_vars

\* A channel on the close queue has a closeproc that will get to it: one is
\* to be made, or one is not asleep for want of work.
QueueTended ==
    clunkq # <<>> => make \/ \E k \in Kproc : kp[k] \notin {"none", "asleep"}

\* What a killed process queues finds a closeproc (`ccloseq', `closeproc'), and
\* no closeproc sleeps, times out or exits while there is something queued; only
\* a ctl file's close queues without one.
TendedUnlessCtl ==
    [][QueueTended => QueueTended' \/ \E p, q \in Proc, xs \in SUBSET Fd : CtlClose(p, q, xs)]_vars

\* Two writes through one channel never write the same bytes: each takes its
\* range of the offset before the device writes (`pwrite').
WritesApart == \A c \in Chan : ~chan[c].twice

\* And so it is while every write is whole, however they and the reads
\* interleave (`pread' adds to the offset as it is when it ends).
WholeWritesApart == \A c \in Chan : chan[c].twice => chan[c].short
=============================================================================
