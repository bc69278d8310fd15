----------------------------- MODULE PipeStream -----------------------------
(***************************************************************************)
(* The pipe device (devpipe.rs, qio.rs) implements module Stream.           *)
(*                                                                         *)
(* The blocks a queue holds are the stream's, without what they were        *)
(* allocated; a write in progress has still to bring the blocks it has not  *)
(* queued; locks, sleeps and limits are not seen.                           *)
(***************************************************************************)
EXTENDS Pipe

\* The blocks of p's write that are not queued yet.
Rest(p) == LET d == at[p].done + (IF at[p].k = "Flow" THEN 1 ELSE 0)
           IN  SubSeq(call[p].bs, d + 1, Len(call[p].bs))

StreamWriting(i, bs) == [op |-> "write", i |-> i, rest |-> bs]

Streams ==
    INSTANCE Stream WITH
       chan   <- [i \in End |-> [k \in DOMAIN q[i].blocks |-> q[i].blocks[k].data]],
       opens  <- qref,
       closed <- [i \in End |-> q[i].closed],
       noted  <- procs.notepending,
       call   <- [p \in Proc |-> IF call[p].op = "write"
                                 THEN StreamWriting(call[p].i, Rest(p))
                                 ELSE call[p]]

Reads == {Reading(i, n) : i \in End, n \in ReadSizes}

Writes ==
    [p \in Proc |-> {StreamWriting(i, bs) : i \in End,
        bs \in UNION {{SubSeq(Blocks(p, n), d + 1, Len(Blocks(p, n))) :
                         d \in 0..Len(Blocks(p, n))} : n \in WriteSizes}}]

\* A pipe is two streams (devpipe.rs:38, qio.rs:34 "writes keep their
\* boundaries at the reader"): through every sleep, note, hangup and reopen,
\* each step of the device is one step of module Stream or none.
ImplementsStreams ==
    /\ Streams!StreamInit
    /\ [][Streams!StreamNext(Reads, Writes)]_(Streams!streamvars)
=============================================================================
