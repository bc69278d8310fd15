------------------------------- MODULE Stream -------------------------------
(***************************************************************************)
(* What a pipe promises the programs that use it, with no lock, sleep or    *)
(* wakeup in it: two streams of blocks.  A write's blocks are put at the    *)
(* end of the stream one by one and in order; a read takes from the front,  *)
(* never across the boundary of two blocks; a call fails with "intr" only   *)
(* of a note, and with "hungup" only when the other end has gone; what was  *)
(* put before a hangup is still read; and a stream is opened again only when *)
(* no call is in progress.  Module Pipe implements it.                      *)
(***************************************************************************)
EXTENDS Naturals, Sequences

CONSTANTS Proc, End, NoCall, NoAnswer

VARIABLES chan,     \* the blocks put in each stream and not yet read
          opens,    \* how many opens of each end there are
          closed,   \* an end of each stream has gone
          noted,    \* a note is pending for the process
          call,     \* the call a process is in the middle of: for a write,
                    \* rest is the blocks not yet put
          last      \* the answer of the call that ended in the last step

streamvars == <<chan, opens, closed, noted, call, last>>

Answer(p, c, res, data) ==
    [p |-> p, op |-> c.op, i |-> c.i, res |-> res, data |-> data]

StreamInit ==
    /\ chan = [i \in End |-> <<>>]
    /\ opens \in [End -> Nat]
    /\ closed = [i \in End |-> FALSE]
    /\ noted = [p \in Proc |-> FALSE]
    /\ call = [p \in Proc |-> NoCall]
    /\ last = NoAnswer

Ends(p, c, res, data) ==
    /\ call' = [call EXCEPT ![p] = NoCall]
    /\ last' = Answer(p, c, res, data)

\* A call begins, or goes on: c is what is left of it.
Goes(p, c) ==
    /\ call' = [call EXCEPT ![p] = c]
    /\ last' = NoAnswer

\* What p may be doing in this step: the call it is in, or one it begins.
Calling(p, c) == call[p] \in {c, NoCall}

Waits(p, c) ==
    /\ Calling(p, c)
    /\ Goes(p, c)
    /\ UNCHANGED <<chan, opens, closed, noted>>

TakeFront(p, c) ==
    /\ Calling(p, c)
    /\ chan[c.i] # <<>>
    /\ LET b == Head(chan[c.i])
       IN  IF Len(b) <= c.n
           THEN /\ chan' = [chan EXCEPT ![c.i] = Tail(@)]
                /\ Ends(p, c, "ok", b)
           ELSE /\ chan' = [chan EXCEPT ![c.i][1] = SubSeq(b, c.n + 1, Len(b))]
                /\ Ends(p, c, "ok", SubSeq(b, 1, c.n))
    /\ UNCHANGED <<opens, closed, noted>>

EndOfFile(p, c) ==
    /\ Calling(p, c)
    /\ chan[c.i] = <<>> /\ closed[c.i]
    /\ \E res \in {"ok", "hungup"} : Ends(p, c, res, <<>>)
    /\ UNCHANGED <<chan, opens, closed, noted>>

\* The call ends of a note; a writer is posted another.
Intr(p, c) ==
    /\ noted[p]
    /\ noted' = [noted EXCEPT ![p] = c.op = "write"]
    /\ Ends(p, c, "intr", <<>>)

Interrupted(p, c) ==
    /\ Calling(p, c)
    /\ Intr(p, c)
    /\ UNCHANGED <<chan, opens, closed>>

\* The next block is put, and the write goes on, is over or is interrupted.
PutBlock(p, c) ==
    /\ Calling(p, c)
    /\ c.rest # <<>> /\ ~closed[c.i]
    /\ chan' = [chan EXCEPT ![c.i] = Append(@, Head(c.rest))]
    /\ \/ /\ Goes(p, [c EXCEPT !.rest = Tail(@)])
          /\ UNCHANGED noted
       \/ /\ Len(c.rest) = 1
          /\ Ends(p, c, "ok", <<>>)
          /\ UNCHANGED noted
       \/ Intr(p, c)
    /\ UNCHANGED <<opens, closed>>

Written(p, c) ==
    /\ call[p] = c
    /\ c.rest = <<>>
    /\ Ends(p, c, "ok", <<>>)
    /\ UNCHANGED <<chan, opens, closed, noted>>

WriteHungup(p, c) ==
    /\ Calling(p, c)
    /\ c.rest # <<>> /\ closed[c.i]
    /\ noted' = [noted EXCEPT ![p] = TRUE]
    /\ Ends(p, c, "hungup", <<>>)
    /\ UNCHANGED <<chan, opens, closed>>

EndOpens(e) ==
    /\ opens' = [opens EXCEPT ![e] = @ + 1]
    /\ last' = NoAnswer
    /\ UNCHANGED <<chan, closed, noted, call>>

\* The last close of an end drops what it had not read, leaves what it wrote to
\* be read, and hangs both streams up; the last close of both opens them again.
EndCloses(e) ==
    /\ opens[e] > 0
    /\ opens' = [opens EXCEPT ![e] = @ - 1]
    /\ chan' = IF opens[e] = 1 THEN [chan EXCEPT ![e] = <<>>] ELSE chan
    /\ closed' = IF opens[e] = 1
                 THEN [i \in End |-> \E d \in End : opens'[d] > 0]
                 ELSE closed
    /\ (\A d \in End : opens'[d] = 0) => \A p \in Proc : call[p] = NoCall
    /\ last' = NoAnswer
    /\ UNCHANGED <<noted, call>>

NoteComesOrGoes(p) ==
    /\ noted' = [noted EXCEPT ![p] = ~@]
    /\ last' = NoAnswer
    /\ UNCHANGED <<chan, opens, closed, call>>

\* A step of a program outside the streams.
Elsewhere ==
    /\ last' = NoAnswer
    /\ UNCHANGED <<chan, opens, closed, noted, call>>

ReadStep(p, c) ==
    Waits(p, c) \/ TakeFront(p, c) \/ EndOfFile(p, c) \/ Interrupted(p, c)

WriteStep(p, c) ==
    \/ Waits(p, c) \/ PutBlock(p, c) \/ Written(p, c) \/ WriteHungup(p, c)
    \/ Interrupted(p, c)

\* Reads and Writes are the calls a program may make.
StreamNext(Reads, Writes) ==
    \/ \E p \in Proc :
          \/ \E c \in Reads : ReadStep(p, c)
          \/ \E c \in Writes[p] : WriteStep(p, c)
          \/ NoteComesOrGoes(p)
    \/ \E e \in End : EndOpens(e) \/ EndCloses(e)
    \/ Elsewhere
=============================================================================
