-------------------------------- MODULE Mux --------------------------------
(***************************************************************************)
(* The mount driver's multiplexer (src/kernel/src/namec.rs: Record, Mux and *)
(* Wire): the RPCs of several processes on one wire, which one of them at a *)
(* time reads, and the record from which a call that slept is run again.    *)
(*                                                                         *)
(* k is the kernel's state.  The process that is up goes through rpc in     *)
(* steps (pc); nobody else runs until it sleeps or its call ends.  A call   *)
(* is a small program of RPCs: each says whether it asks for a fid first,   *)
(* and which RPC comes after its success and after its error, 0 being the   *)
(* end.                                                                     *)
(*                                                                         *)
(* The wire is a pipe, as module Pipe has it, cut down to whole messages:   *)
(* its write puts the message in the queue and may then leave the processor *)
(* (At::Flow); its read sleeps for a message.  The server at the other end  *)
(* is any program that keeps to 9P.                                         *)
(*                                                                         *)
(* Left out are Tversion's NOTAG, replies that are no message (short        *)
(* reply), the closes a call defers (Step::Once) and forget, as no process  *)
(* ends here.                                                               *)
(***************************************************************************)
EXTENDS Procs, FiniteSetsExt, SequencesExt

CONSTANTS
    NTag,       \* tags; NOTAG is not one
    Limit,      \* messages that fill the wire
    Plans       \* bounds: the calls of each process, and how many notes are
                \* posted

\* A call: its RPCs.
Program == Seq([fid : BOOLEAN, ok : Nat, err : Nat])

ASSUME MuxAssumption ==
    /\ Rid = {<<"Rr">>, <<"Wr">>} \cup {<<"Mntrpc", p>> : p \in Proc}
    /\ Qlk = {"Rlock", "Wlock"}
    /\ {NTag, Limit} \subseteq Nat \ {0}
    /\ Plans \subseteq [calls : [Proc -> Seq(Program)], notes : Nat]

VARIABLE k

Tag == 0 .. NTag - 1
Id == Proc \X Nat \X Nat     \* whose RPC, in which of its calls, and which there
NoTag == NTag
None == <<>>
Eintr == <<"Eintr">>

\* On the wire: a request (old is NoTag), a Tflush of the tag old, a reply.
Message == [tag : Tag, old : Tag \cup {NoTag}, id : Id]
Reply == [tag : Tag, id : Id]

\* Step::Rpc: bad is an answer that is an error, own (a history) the request it
\* is for; and Step::Fid.
RpcStep == [tag : Tag, sent : BOOLEAN, reply : Id \cup {None, Eintr},
            bad : BOOLEAN, own : Id,
            tags : Seq(Tag), fsent : BOOLEAN, got : Id \cup {None}]
FidStep == [fid |-> TRUE]

Kernel ==
    [t      : Table,
     pc     : [Proc -> {"user", "rpc", "mountio", "asleep"}],
     dev    : [Proc -> {"none", "Wlock", "Flow", "Yield", "Rlock", "Read"}],
     pos    : [Proc -> Nat],                        \* the RPC of the call
     steps  : [Proc -> Seq(RpcStep \cup {FidStep})],    \* Record
     at     : [Proc -> Nat],
     rip    : Proc \cup {NoProc},                   \* Mux
     queue  : Seq([tag : Tag, p : Proc]),
     done   : SUBSET Reply,
     tag    : Tag,
     tosrv  : Seq(Message),                         \* the wire
     tomnt  : Seq(Reply),
     hungup : BOOLEAN,
     srv    : SUBSET Message,                       \* what the server has to answer
     plan   : [calls : [Proc -> Seq(Program)], notes : Nat],    \* what is to come
     told   : [Proc -> Seq(Id)],    \* history: the requests the call wrote
     stray  : SUBSET Tag,     \* history: on the wire and, for a while, not in queue
     amiss  : SUBSET Proc]    \* history: went on after an error not in the record

Init ==
    \E plan \in Plans :
    k = [t      |-> InitTable(NoProc, Proc),
         pc     |-> [p \in Proc |-> "user"],
         dev    |-> [p \in Proc |-> "none"],
         pos    |-> [p \in Proc |-> 1],
         steps  |-> [p \in Proc |-> <<>>],
         at     |-> [p \in Proc |-> 0],
         rip    |-> NoProc,
         queue  |-> <<>>,
         done   |-> {},
         tag    |-> 0,
         tosrv  |-> <<>>,
         tomnt  |-> <<>>,
         hungup |-> FALSE,
         srv    |-> {},
         plan   |-> plan,
         told   |-> [p \in Proc |-> <<>>],
         stray  |-> {},
         amiss  |-> {}]

Rr == <<"Rr">>
Wr == <<"Wr">>
Mntrpc(p) == <<"Mntrpc", p>>

Up(p, place) == k.t.up = p /\ k.pc[p] = place
Goto(s, p, place) == [s EXCEPT !.pc[p] = place]

\* SLEPT: the call leaves, and runs again from the top.
Slept(s, p) == Goto([s EXCEPT !.t = Left(@, p)], p, "asleep")

\* The RPC the call has come to, ...
Item(s, p) == Head(s.plan.calls[p])[s.pos[p]]
Ident(s, p) == <<p, Len(s.plan.calls[p]), s.pos[p]>>

\* ... and its step in the record.
Now(s, p) == s.steps[p][s.at[p] + 1]
-----------------------------------------------------------------------------
(* The wire.                                                                *)

Outcome(s, r) == [s |-> s, r |-> r]

\* qwrite's error: the lock is let go of.  (A mounted wire posts no note.)
WriteFails(s, p) ==
    Outcome([s EXCEPT !.t = Qunlock(@, "Wlock"), !.dev[p] = "none"], "error")

\* A note ended the flow control's sleep, or keeps it from it.
WriteInterrupted(s, p) == WriteFails([s EXCEPT !.t = Interrupted(@, p)], p)

\* The message is queued: flow control.
Flow(s, p) ==
    IF Len(s.tosrv) < Limit \/ s.hungup
    THEN Outcome([s EXCEPT !.t = Qunlock(@, "Wlock"), !.dev[p] = "none"], "done")
    ELSE IF Sleeps(s.t, p, FALSE)
    THEN Outcome([s EXCEPT !.t = Sleep(@, p, Wr, FALSE), !.dev[p] = "Flow"], "slept")
    ELSE WriteInterrupted([s EXCEPT !.t = Sleep(@, p, Wr, FALSE)], p)

\* The writer has the lock.  If the server was waiting for it, and is of a
\* higher priority, the writer lets it run first.
Put(s, p, m) ==
    LET q == [s EXCEPT !.tosrv = Append(@, m),
                       !.told[p] = IF m.old = NoTag THEN Append(@, m.id) ELSE @]
    IN  IF s.hungup THEN {WriteFails(s, p)}
        ELSE {Flow(q, p)} \cup
             IF s.tosrv = <<>> THEN {Outcome([q EXCEPT !.dev[p] = "Yield"], "slept")}
                               ELSE {}

\* What the wire's write may come to: done, slept or error.
Write(s, p, m) ==
    CASE s.dev[p] = "Flow" /\ s.t.notepending[p] -> {WriteInterrupted(s, p)}
      [] s.dev[p] = "Flow" /\ ~s.t.notepending[p] -> {Flow(s, p)}
      [] s.dev[p] = "Yield" -> {Flow(s, p)}
      [] s.dev[p] = "Wlock" -> Put(s, p, m)
      [] OTHER ->
           IF s.t.lock["Wlock"].locked
           THEN {Outcome([s EXCEPT !.t = Qlock(@, "Wlock", p),
                                   !.dev[p] = "Wlock"], "slept")}
           ELSE Put([s EXCEPT !.t = Qlock(@, "Wlock", p)], p, m)
-----------------------------------------------------------------------------
(* Tags, the queue and the reader.                                          *)

InQueue(s) == {s.queue[i].tag : i \in DOMAIN s.queue}

Without(s, tags) == SelectSeq(s.queue, LAMBDA e : e.tag \notin tags)

\* (Mutant: the tag is that of the last RPC.)
MutNewtag(s) == s.tag

\* newtag: the next that is not in the queue.
Newtag(s) ==
    LET After(i) == (s.tag + i) % NTag
    IN  After(Min({i \in 1 .. NTag : After(i) \notin InQueue(s)}))

Push(s, tag, p) == [s EXCEPT !.queue = Append(@, [tag |-> tag, p |-> p])]

\* gate: the reader leaves, and the first who waits, asleep, is woken.
Gate(s) ==
    LET Waiting == {i \in DOMAIN s.queue : CanWake(s.t, Mntrpc(s.queue[i].p))}
    IN  [s EXCEPT !.rip = NoProc,
                  !.t = IF Waiting = {} THEN @
                        ELSE Wakeup(@, Mntrpc(s.queue[Min(Waiting)].p))]

\* (Mutant: an RPC that is interrupted leaves the queue at once.)
MutFlush(s, p) ==
    LET f == Newtag(s)
        i == s.at[p] + 1
    IN  Goto(Push([s EXCEPT !.t = Interrupted(@, p),
                            !.tag = f,
                            !.queue = Without(s, {Now(s, p).tag}),
                            !.steps[p][i].tags = Append(@, f),
                            !.steps[p][i].fsent = FALSE], f, p), p, "mountio")

\* flush: the note is taken, and the RPC has a Tflush to send.
Flush(s, p) ==
    LET f == Newtag(s)
        i == s.at[p] + 1
    IN  Goto(Push([s EXCEPT !.t = Interrupted(@, p),
                            !.tag = f,
                            !.steps[p][i].tags = Append(@, f),
                            !.steps[p][i].fsent = FALSE], f, p), p, "mountio")
-----------------------------------------------------------------------------
(* The end of an RPC, and of the call.                                      *)

\* syscall_tail: the record goes, and notify takes the note.
EndCall(s, p) ==
    Goto([s EXCEPT !.t = Left(Interrupted(@, p), p),
                   !.steps[p] = <<>>, !.at[p] = 0, !.pos[p] = 1, !.told[p] = <<>>,
                   !.plan.calls[p] = Tail(@)], p, "user")

\* The RPC has returned, and the call goes on to its next or ends.
Returns(s, p, bad) ==
    LET next == IF bad THEN Item(s, p).err ELSE Item(s, p).ok
    IN  IF next = 0 THEN EndCall(s, p)
        ELSE Goto([s EXCEPT !.pos[p] = next], p, "rpc")

\* An error of the wire: the step stays as it is, and the record does not move.
Fails(s, p) ==
    Returns(IF Item(s, p).err = 0 THEN s ELSE [s EXCEPT !.amiss = @ \cup {p}],
            p, TRUE)

\* finish: the answer goes into the record.  Where the call tells them apart, it
\* may be an error (Rerror, or a reply of another type than the request's).
Answered(s, p, reply) ==
    LET i   == s.at[p] + 1
        Bad == IF reply = Eintr THEN {TRUE}
               ELSE IF Item(s, p).ok = Item(s, p).err THEN {FALSE} ELSE BOOLEAN
    IN  {Returns([s EXCEPT !.steps[p][i].reply = reply, !.steps[p][i].bad = bad,
                           !.at[p] = i], p, bad) : bad \in Bad}

Tags(s, p) == {Now(s, p).tag} \cup ToSet(Now(s, p).tags)

Newest(s, p) == Last(Now(s, p).tags)

\* flushed: the RPC's reply if it came, else Eintr.
Flushed(s, p) ==
    LET got == Now(s, p).got
    IN  Answered([s EXCEPT !.queue = Without(s, Tags(s, p)),
                           !.done = {r \in @ : r.tag \notin Tags(s, p)}],
                 p, IF got = None THEN Eintr ELSE got)

\* (Mutant: the reader does not leave.)
MutDropped(s, p) ==
    Fails([s EXCEPT !.queue = Without(s, Tags(s, p)),
                    !.stray = @ \cup Tags(s, p)], p)

\* dropped: the wire failed.  What was sent of it may still be answered.
Dropped(s, p) ==
    LET u == [s EXCEPT !.queue = Without(s, Tags(s, p)),
                       !.stray = @ \cup Tags(s, p)]
    IN  Fails(IF s.rip = p THEN Gate(u) ELSE u, p)
-----------------------------------------------------------------------------
(* A call.                                                                  *)

\* The record cut off where it stands.
Truncated(s, p) ==
    LET Gone == ToSet(SubSeq(s.steps[p], s.at[p] + 1, Len(s.steps[p]))) \ {FidStep}
    IN  [s EXCEPT !.steps[p] = SubSeq(@, 1, s.at[p]),
                  !.stray = @ \cup UNION {{e.tag} \cup ToSet(e.tags) :
                                             e \in {g \in Gone : g.reply = None}}]

\* What the record has where it stands: "fid", "rpc" or "end".
Recorded(s, p) ==
    IF s.at[p] = Len(s.steps[p]) THEN "end"
    ELSE IF Now(s, p) = FidStep THEN "fid" ELSE "rpc"

\* fid, of an RPC that asks for one: the one in the record, or a new one.
Fid(s, p) ==
    IF ~Item(s, p).fid THEN s
    ELSE IF Recorded(s, p) = "fid" THEN [s EXCEPT !.at[p] = @ + 1]
    ELSE [Truncated(s, p) EXCEPT !.steps[p] = Append(@, FidStep), !.at[p] = @ + 1]

\* The RPC's step: the record's, or a new one with a new tag.
Begun(s, p) ==
    LET tag == Newtag(s)
    IN  IF Recorded(s, p) = "rpc" THEN [s EXCEPT !.steps[p][s.at[p] + 1].own = Ident(s, p)]
        ELSE [Truncated(s, p) EXCEPT
                !.tag = tag,
                !.steps[p] = Append(@, [tag |-> tag, sent |-> FALSE,
                    reply |-> None, bad |-> FALSE, own |-> Ident(s, p),
                    tags |-> <<>>, fsent |-> FALSE, got |-> None])]

\* The request goes out, and once it has, its tag is in the queue.
Sent(s, p) ==
    LET i   == s.at[p] + 1
        tag == Now(s, p).tag
        m   == [tag |-> tag, old |-> NoTag, id |-> Ident(s, p)]
        Went(o) ==
            LET u == IF o.s.tosrv # s.tosrv /\ o.r # "done"
                     THEN [o.s EXCEPT !.stray = @ \cup {tag}] ELSE o.s
            IN  CASE o.r = "slept" -> Slept(u, p)
                  [] o.r = "error" -> Fails(u, p)
                  [] o.r = "done"  ->
                       Goto(Push([u EXCEPT !.steps[p][i].sent = TRUE], tag, p),
                            p, "mountio")
    IN  {Went(o) : o \in Write(s, p, m)}

\* rpc: an RPC that is over is answered from the record, one under way is waited
\* for, any other is sent.
Rpc(s, p) ==
    LET u == Begun(Fid(s, p), p)
    IN  IF Now(u, p).reply # None
        THEN {Returns([u EXCEPT !.at[p] = @ + 1], p, Now(u, p).bad)}
        ELSE IF Now(u, p).sent THEN {Goto(u, p, "mountio")} ELSE Sent(u, p)

MayRun(p) == k.t.up = NoProc /\ k.t.state[p] = "Ready"

Call(p) ==
    /\ MayRun(p)
    /\ k.pc[p] = "user"
    /\ k.plan.calls[p] # <<>>
    /\ k' \in Rpc([k EXCEPT !.t = Enter(@, p)], p)

\* The call goes on to its next RPC.
Further(p) ==
    /\ Up(p, "rpc")
    /\ k' \in Rpc(k, p)

\* (Mutant: a call that runs again does not know that its request is out.)
MutRewind(s, p) ==
    [s EXCEPT !.at[p] = 0, !.pos[p] = 1,
              !.steps[p] = [i \in DOMAIN @ |-> IF @[i] = FidStep THEN @[i]
                                               ELSE [@[i] EXCEPT !.sent = FALSE]]]

\* rewind: the record is given back from the start.
Rewind(s, p) == [s EXCEPT !.at[p] = 0, !.pos[p] = 1]

\* resume: the process is woken, and the call runs again.
Resume(p) ==
    /\ MayRun(p)
    /\ k.pc[p] = "asleep"
    /\ k' \in Rpc(Rewind([k EXCEPT !.t = Enter(@, p)], p), p)

\* A Tflush that is not yet on the wire.
Unsent(p) == Now(k, p).tags # <<>> /\ ~Now(k, p).fsent

SendFlush(p) ==
    /\ Up(p, "mountio")
    /\ Unsent(p)
    /\ LET m == [tag |-> Newest(k, p), old |-> Now(k, p).tag, id |-> Ident(k, p)]
       IN  \E o \in Write(k, p, m) :
              k' = CASE o.r = "slept" -> Slept(o.s, p)
                     [] o.r = "error" -> Dropped(o.s, p)
                     [] o.r = "done"  ->
                          [o.s EXCEPT !.steps[p][k.at[p] + 1].fsent = TRUE]

Owners(s, tag) == {s.queue[i].p : i \in {j \in DOMAIN s.queue : s.queue[j].tag = tag}}

\* (Mutant: the reply is kept only for an owner that sleeps for it.)
MutHand(s, r) ==
    LET Asleep == {q \in Owners(s, r.tag) : CanWake(s.t, Mntrpc(q))}
    IN  [s EXCEPT !.done = IF Asleep = {} THEN @ ELSE @ \cup {r},
                  !.t = FoldSet(LAMBDA q, t : Wakeup(t, Mntrpc(q)), @, Asleep)]

\* (Mutant: the owner is not woken.)
MutHandQuiet(s, r) ==
    [s EXCEPT !.done = IF Owners(s, r.tag) = {} THEN @ ELSE @ \cup {r}]

\* Another's reply is kept for its owner, who is woken; nobody's is dropped.
Hand(s, r) ==
    [s EXCEPT !.done = IF Owners(s, r.tag) = {} THEN @ ELSE @ \cup {r},
              !.t = FoldSet(LAMBDA q, t : Wakeup(t, Mntrpc(q)), @, Owners(s, r.tag))]

\* mountmux: the reply r goes to its RPC.
Mountmux(s, p, r) ==
    LET Off(u) == [u EXCEPT !.queue = Without(u, {r.tag})]
        mine   == Now(s, p)
    IN  CASE r.tag = mine.tag /\ mine.tags = <<>> -> Answered(Gate(Off(s)), p, r.id)
          [] r.tag = mine.tag /\ mine.tags # <<>> ->
               {[Off(s) EXCEPT !.steps[p][s.at[p] + 1].got = r.id]}
          [] r.tag \in ToSet(mine.tags) ->
               IF r.tag = Newest(s, p) THEN Flushed(Gate(Off(s)), p) ELSE {Off(s)}
          [] OTHER -> {Off(Hand(s, r))}

\* The wire's read, by the reader: interrupted, a message, its end, or sleep.
\* (It lets go of rlock unless it sleeps.)
Read(s, p) ==
    LET again   == s.dev[p] = "Read"         \* it has slept in the read
        awake   == [s EXCEPT !.dev[p] = "none",
                             !.t = IF s.dev[p] = "none" THEN Qlock(@, "Rlock", p) ELSE @]
        Let(u)  == [u EXCEPT !.t = Qunlock(@, "Rlock")]
        asleep  == [awake EXCEPT !.t = Sleep(@, p, Rr, FALSE)]
    IN  IF again /\ s.t.notepending[p] THEN {Flush(Gate(Let(awake)), p)}
        ELSE IF s.dev[p] = "none" /\ s.t.lock["Rlock"].locked
        THEN {Slept([awake EXCEPT !.dev[p] = "Rlock"], p)}
        ELSE IF s.tomnt # <<>>
        THEN Mountmux(Let([awake EXCEPT !.tomnt = Tail(@)]), p, Head(s.tomnt))
        ELSE IF s.hungup THEN {Dropped(Let(awake), p)}
        ELSE IF Sleeps(awake.t, p, FALSE)
        THEN {Slept([asleep EXCEPT !.dev[p] = "Read"], p)}
        ELSE {Flush(Gate(Let(asleep)), p)}

\* What another reader left for it; the reader's place, if it is free; or sleep.
Mountio(p) ==
    /\ Up(p, "mountio")
    /\ ~Unsent(p)
    /\ LET i     == k.at[p] + 1
           Mine  == {r \in k.done : r.tag = Now(k, p).tag}
           got   == IF Mine = {} THEN Now(k, p).got
                    ELSE (CHOOSE r \in Mine : TRUE).id
           taken == [k EXCEPT !.done = @ \ Mine]
           u     == [taken EXCEPT !.steps[p][i].got = got]
       IN  k' \in IF Now(k, p).tags = <<>> /\ Mine # {}
                  THEN Answered(taken, p, got)
                  ELSE IF \E r \in k.done : Now(k, p).tags # <<>> /\ r.tag = Newest(k, p)
                  THEN Flushed(u, p)
                  ELSE IF k.rip \in {p, NoProc}
                  THEN Read([u EXCEPT !.rip = p], p)
                  ELSE LET v == [u EXCEPT !.t = Sleep(@, p, Mntrpc(p), FALSE)]
                       IN  {IF Sleeps(u.t, p, FALSE) THEN Slept(v, p) ELSE Flush(v, p)}

Step(p) == Call(p) \/ Resume(p) \/ Further(p) \/ SendFlush(p) \/ Mountio(p)
-----------------------------------------------------------------------------
(* The server, and notes.  Other processes do these: nobody of Proc is up.  *)

Elsewhere == k.t.up = NoProc

\* The server reads a message; below half the limit the writer goes on.
Take ==
    /\ Elsewhere /\ ~k.hungup
    /\ k.tosrv # <<>>
    /\ LET n == Len(k.tosrv) - 1
       IN  k' = [k EXCEPT !.tosrv = Tail(@), !.srv = @ \cup {Head(k.tosrv)},
                          !.t = IF 2 * n < Limit THEN Wakeup(@, Wr) ELSE @]

\* It answers one.  Flushes of a request are answered in their order, and with
\* the first the request is over.
Answer(m) ==
    /\ Elsewhere /\ ~k.hungup
    /\ m \in k.srv
    /\ m.old # NoTag => \A n \in k.srv : n.old = m.old => m.tag <= n.tag
    /\ k' = [k EXCEPT !.srv = {n \in @ : n # m /\ n.tag # m.old},
                      !.tomnt = Append(@, [tag |-> m.tag, id |-> m.id]),
                      !.t = Wakeup(@, Rr)]

Note(p) ==
    /\ Elsewhere
    /\ k.plan.notes > 0
    /\ k.pc[p] # "user"
    /\ k' = [k EXCEPT !.t = Postnote(@, p), !.plan.notes = @ - 1]

HangUp ==
    /\ Elsewhere /\ ~k.hungup
    /\ k' = [k EXCEPT !.hungup = TRUE, !.tosrv = <<>>, !.srv = {},
                      !.t = Wakeup(Wakeup(@, Rr), Wr)]

Next == (\E p \in Proc : Step(p) \/ Note(p)) \/ Take \/ (\E m \in k.srv : Answer(m))
        \/ HangUp

Spec == Init /\ [][Next]_k
-----------------------------------------------------------------------------
(* Properties.  Those that exempt amiss do not hold of a call that goes on    *)
(* after an error of the wire (the next element of a union, the clunk of an   *)
(* open that failed): the record does not have the error, and the call's next *)
(* RPC takes the step of the one that failed for its own.                     *)

\* The records, the wire and the process table are of their types, and the table
\* is sound: who sleeps is named by what it sleeps on, and has no note pending.
TypeOK == k \in Kernel /\ Sound(k.t)

\* The RPC of p that is on the wire and not answered.
UnderWay(p) ==
    /\ k.steps[p] # <<>> /\ Last(k.steps[p]) # FidStep
    /\ Last(k.steps[p]).sent /\ Last(k.steps[p]).reply = None

Outstanding ==
    {m.tag : m \in ToSet(k.tosrv) \cup k.srv \cup ToSet(k.tomnt)}

Coming(tag) == tag \in Outstanding \cup {r.tag : r \in k.done}

\* What the RPC of p waits for: its reply, or that of its newest Tflush, which
\* may still have to be sent.
Awaits(p) ==
    LET r == Last(k.steps[p])
    IN  \/ r.tags # <<>> /\ ~r.fsent
        \/ Coming(IF r.tags = <<>> THEN r.tag ELSE Last(r.tags))

\* mountmux hands "each other reply to its owner": while the server is there,
\* whoever waits for a reply has one still to come.
AnswerComing == \A p \in Proc : UnderWay(p) /\ ~k.hungup => Awaits(p)

\* The same of the RPCs whose request went out without the writer leaving the
\* processor in the wire's write, in calls that are not amiss.
AnswerComingPut ==
    \A p \in Proc \ k.amiss :
       UnderWay(p) /\ ~k.hungup /\ Last(k.steps[p]).tag \notin k.stray => Awaits(p)

\* An RPC is answered by the reply to its own request or by Eintr, whoever read
\* the reply and however often the call was run again.  (Not so where amiss.)
OwnAnswer ==
    \A p \in Proc \ k.amiss : \A i \in DOMAIN k.steps[p] :
       LET e == k.steps[p][i]
       IN  e # FidStep => /\ e.reply \in {None, Eintr, e.own}
                          /\ e.got \in {None, e.own}

\* "Nothing is sent twice and the server sees one conversation": a call run
\* again from its record writes no request a second time.  (Not so where amiss.)
SentOnce == \A p \in Proc \ k.amiss : IsInjective(k.told[p])

\* A tag the server may still answer is in the queue, where newtag sees it:
\* also after a flush, of whichever of the two replies came first.  (Not so
\* where the wire's write left or failed with the request on the wire.)
TagsReserved == Outstanding \subseteq InQueue(k) \cup k.stray

\* Nobody sleeps for a reply unless somebody reads the wire or is on the way
\* to: the reader who leaves, for whatever reason, has handed over.
NoIdleWire ==
    (\E p \in Proc : k.t.p[Mntrpc(p)] = p) =>
       \/ k.rip # NoProc
       \/ \E q \in Proc : UnderWay(q) /\ k.t.p[Mntrpc(q)] # q

\* The wire is read by one process, the one m->rip names, in an RPC of its own.
\* (A call that is amiss may end and leave its name there.)
OneReader ==
    /\ ~k.t.doublesleep
    /\ \A p \in Proc : k.dev[p] = "Read" => k.rip = p
    /\ \A p \in Proc \ k.amiss : k.rip = p => UnderWay(p)

\* A call that is over, however it ended, has left nothing on the wire's queue
\* and nothing of the wire's locks; a reply kept for an RPC is one it will take.
\* (A call that is amiss may leave its tags and rlock behind.)
NothingLeft ==
    /\ \A p \in Proc : k.pc[p] = "user" => k.dev[p] = "none"
    /\ \A i \in DOMAIN k.queue :
          k.queue[i].p \notin k.amiss => k.pc[k.queue[i].p] # "user"
    /\ \A r \in k.done : r.tag \notin k.stray =>
          \E p \in Proc : UnderWay(p) /\ r.tag \in {Last(k.steps[p]).tag}
                                              \cup ToSet(Last(k.steps[p]).tags)
    /\ k.t.lock["Wlock"].locked =>
          \E p \in Proc : k.dev[p] \in {"Wlock", "Flow", "Yield"}
    /\ k.t.lock["Rlock"].locked =>
          k.amiss # {} \/ \E p \in Proc : k.dev[p] \in {"Rlock", "Read"}

\* The wire is read by one process, and by one if anybody waits (gate).
WireRead == OneReader /\ NoIdleWire

\* The mount's queue is what is under way: no tag leaves it too early and no
\* call leaves one behind, however the call ended.
QueueKept == TypeOK /\ TagsReserved /\ NothingLeft

\* When nothing is left to run and the server has nothing left to answer, no
\* call is still waiting.  (Not so one whose writer left the processor in the
\* wire's write, nor one that is amiss, nor any while the reader is.)
NoneStuck ==
    /\ k.t.up = NoProc /\ k.tosrv = <<>> /\ k.srv = {}
    /\ \A p \in Proc : k.t.state[p] = "Ready" => k.pc[p] = "user"
    => \A p \in Proc : \/ k.pc[p] = "user"
                       \/ Last(k.steps[p]).tag \in k.stray
                       \/ p \in k.amiss \/ k.rip \in k.amiss
=============================================================================
