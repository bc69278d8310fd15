----------------------------- MODULE FgrpProofs -----------------------------
(***************************************************************************)
(* Descriptors, closes and writes, for any number of processes, tables,     *)
(* channels and closeprocs.                                                 *)
(*                                                                         *)
(* Writes: a write in progress owns the range it took of the offset.  The   *)
(* ranges, and the bytes already written, are apart and lie below the       *)
(* offset, while every write is whole; and the offset has room for what     *)
(* writes may give back.                                                    *)
(*                                                                         *)
(* The close queue: what is queued has a closeproc.                         *)
(*                                                                         *)
(* Closes: the books of module FgrpBooksProofs.                             *)
(***************************************************************************)
EXTENDS FgrpBooksProofs

\* The prover of every step that names no other.
USE ZenonT(40)
-----------------------------------------------------------------------------
(* Writes.                                                                  *)

\* f has a channel's fields for each channel.
IsChannels(f) ==
    /\ DOMAIN f = Chan
    /\ \A c \in Chan : /\ DOMAIN f[c] = {"open", "offset", "bytes", "twice", "short"}
                       /\ f[c].offset \in Int
                       /\ f[c].bytes \subseteq Int

Writing(p, c) == up[p].op = "write" /\ up[p].cell = c

\* Channels have their types, and calls their fields; a write is to a channel
\* and of a range.
WriteTypes ==
    /\ IsChannels(chan)
    /\ DOMAIN up = Proc
    /\ \A p \in Proc :
          /\ DOMAIN up[p] = {"op", "cell", "at", "n", "cs", "begun", "killed"}
          /\ up[p].op = "write" =>
                up[p].cell \in Chan /\ up[p].at \in Int /\ up[p].n \in Nat

\* What is taken of c's offset is taken once.
Apart(c) ==
    /\ ~chan[c].twice
    /\ \A b \in chan[c].bytes : b < chan[c].offset
    /\ \A p \in Proc : Writing(p, c) =>
          /\ up[p].at + up[p].n <= chan[c].offset
          /\ \A b \in chan[c].bytes : b < up[p].at \/ up[p].at + up[p].n <= b
    /\ \A p, q \in Proc : p # q /\ Writing(p, c) /\ Writing(q, c) =>
          up[p].at + up[p].n <= up[q].at \/ up[q].at + up[q].n <= up[p].at

WriteInv ==
    /\ WriteTypes
    /\ \A c \in Chan : chan[c].short \/ Apart(c)

\* A step that begins no write: the writes in progress after it were so before
\* it, with the same ranges.
NoNewWrite ==
    /\ DOMAIN up' = Proc
    /\ \A p \in Proc :
          /\ DOMAIN up'[p] = {"op", "cell", "at", "n", "cs", "begun", "killed"}
          /\ up'[p].op = "write" => /\ up[p].op = "write"
                                    /\ up'[p].cell = up[p].cell
                                    /\ up'[p].at = up[p].at
                                    /\ up'[p].n = up[p].n
-----------------------------------------------------------------------------
\* A step of other calls, or one that only moves offsets up, as a read does.
LEMMA OtherStep ==
  ASSUME WriteInv, NoNewWrite,
         IsChannels(chan'),
         \A c \in Chan : /\ chan'[c].bytes = chan[c].bytes
                         /\ chan'[c].twice = chan[c].twice
                         /\ chan'[c].short = chan[c].short
                         /\ chan'[c].offset >= chan[c].offset
  PROVE  WriteInv'
<1>1. WriteTypes'
  BY DEF WriteInv, WriteTypes, NoNewWrite
<1>2. ASSUME NEW c \in Chan, Apart(c)
      PROVE  Apart(c)'
  <2>1. chan[c].offset \in Int /\ chan'[c].offset \in Int /\ chan[c].bytes \subseteq Int
    BY DEF WriteInv, WriteTypes, IsChannels
  <2>2. ~chan'[c].twice /\ \A b \in chan'[c].bytes : b < chan'[c].offset
    BY <1>2, <2>1, SMTT(30) DEF Apart
  <2>3. ASSUME NEW p \in Proc, Writing(p, c)'
        PROVE  /\ Writing(p, c) /\ up'[p].at = up[p].at /\ up'[p].n = up[p].n
               /\ up[p].at \in Int /\ up[p].n \in Nat
    BY <2>3 DEF Writing, NoNewWrite, WriteInv, WriteTypes
  <2>4. ASSUME NEW p \in Proc, Writing(p, c)'
        PROVE  /\ up'[p].at + up'[p].n <= chan'[c].offset
               /\ \A b \in chan'[c].bytes : b < up'[p].at \/ up'[p].at + up'[p].n <= b
    BY <1>2, <2>1, <2>3, <2>4, SMTT(30) DEF Apart
  <2>5. ASSUME NEW p \in Proc, NEW q \in Proc, p # q, Writing(p, c)', Writing(q, c)'
        PROVE  \/ up'[p].at + up'[p].n <= up'[q].at
               \/ up'[q].at + up'[q].n <= up'[p].at
    BY <1>2, <2>3, <2>5 DEF Apart
  <2> QED
    BY <2>2, <2>4, <2>5 DEF Apart
<1> QED
  BY <1>1, <1>2 DEF WriteInv

\* The end of a call by Closing begins no write.
LEMMA ClosingNoWrite ==
  ASSUME WriteTypes, NEW u, NEW p \in Proc, NEW then, NEW cs,
         DOMAIN u = Proc,
         \A q \in Proc : /\ DOMAIN u[q] = DOMAIN up[q]
                         /\ u[q].op = up[q].op /\ u[q].cell = up[q].cell
                         /\ u[q].at = up[q].at /\ u[q].n = up[q].n,
         then # "write" \/ up[p].op = "write",
         Closing(u, p, then, cs)
  PROVE  NoNewWrite
<1>1. PICK op :
        /\ op \in {then, "user", "dead"}
        /\ up' = [u EXCEPT ![p] = [[[u[p] EXCEPT !.op = op] EXCEPT !.cs = cs]
                                      EXCEPT !.begun = FALSE]]
  BY DEF Closing
<1>2. /\ up'[p] = [[[u[p] EXCEPT !.op = op] EXCEPT !.cs = cs] EXCEPT !.begun = FALSE]
      /\ \A q \in Proc : q # p => up'[q] = u[q]
      /\ DOMAIN up' = Proc
  BY <1>1
<1>3. DOMAIN u[p] = {"op", "cell", "at", "n", "cs", "begun", "killed"}
  BY DEF WriteTypes
<1>4. /\ DOMAIN up'[p] = DOMAIN u[p]
      /\ up'[p].op = op /\ up'[p].cell = u[p].cell
      /\ up'[p].at = u[p].at /\ up'[p].n = u[p].n
  BY <1>2, <1>3
<1> QED
  BY <1>1, <1>2, <1>4, SMTT(30) DEF NoNewWrite, WriteTypes

\* Steps that leave the channels alone.
LEMMA SameChannels ==
  ASSUME WriteInv, NoNewWrite, chan' = chan
  PROVE  WriteInv'
<1>1. \A c \in Chan : chan[c].offset \in Int
  BY DEF WriteInv, WriteTypes, IsChannels
<1> QED
  BY <1>1, OtherStep, SMTT(30) DEF WriteInv, WriteTypes

\* The end of a read or a write: the call is one no more.
LEMMA DropNoWrite ==
  ASSUME WriteTypes, NEW p \in Proc, Drop(p)
  PROVE  /\ NoNewWrite
         /\ up'[p].op = "user"
<1>1. /\ up'[p] = [[[[up[p] EXCEPT !.op = "user"] EXCEPT !.cell = NoChan]
                       EXCEPT !.at = 0] EXCEPT !.n = 0]
      /\ \A q \in Proc : q # p => up'[q] = up[q]
      /\ DOMAIN up' = Proc
  BY DEF Drop, WriteTypes
<1>2. DOMAIN up'[p] = DOMAIN up[p] /\ up'[p].op = "user"
  BY <1>1 DEF WriteTypes
<1> QED
  BY <1>1, <1>2 DEF NoNewWrite, WriteTypes

\* Entering a read or a write.
LEMMA EnterEffect ==
  ASSUME WriteTypes, NEW p \in Proc, NEW op, NEW x, NEW n, Enter(p, op, x, n)
  PROVE  LET c == slots[fds[p]][x] IN
         /\ up'[p].op = op /\ up'[p].cell = c
         /\ up'[p].at = chan[c].offset /\ up'[p].n = n
         /\ DOMAIN up' = Proc /\ DOMAIN up'[p] = DOMAIN up[p]
         /\ \A q \in Proc : q # p => up'[q] = up[q]
<1> DEFINE c == slots[fds[p]][x]
<1>1. /\ up'[p] = [[[[up[p] EXCEPT !.op = op] EXCEPT !.cell = c]
                       EXCEPT !.at = chan[c].offset] EXCEPT !.n = n]
      /\ \A q \in Proc : q # p => up'[q] = up[q]
      /\ DOMAIN up' = Proc
  BY DEF Enter, WriteTypes
<1> QED
  BY <1>1 DEF WriteTypes

\* A write takes its range: what lies above the offset.
LEMMA PwriteStep ==
  ASSUME WriteInv, NEW p \in Proc, NEW x \in Fd, NEW n \in 1..MaxWrite,
         Pwrite(p, x, n)
  PROVE  WriteInv'
<1>c. PICK c \in Chan : c = slots[fds[p]][x]
  BY FgrpAssumption DEF Pwrite
<1>t. WriteTypes /\ n \in Nat
  BY FgrpAssumption, SMTT(30) DEF WriteInv
<1>1. /\ up'[p].op = "write" /\ up'[p].cell = c
      /\ up'[p].at = chan[c].offset /\ up'[p].n = n
      /\ DOMAIN up' = Proc /\ DOMAIN up'[p] = DOMAIN up[p]
      /\ \A q \in Proc : q # p => up'[q] = up[q]
  BY <1>c, <1>t, EnterEffect, SMTT(30) DEF Pwrite
<1>2. /\ chan' = [chan EXCEPT ![c] = [chan[c] EXCEPT !.offset = chan[c].offset + n]]
      /\ chan[c].offset \in Int
  BY <1>c, <1>t DEF Pwrite, Taken, WriteTypes, IsChannels
<1>3. /\ IsChannels(chan')
      /\ \A d \in Chan : d # c => chan'[d] = chan[d]
      /\ chan'[c].offset = chan[c].offset + n
      /\ chan'[c].bytes = chan[c].bytes /\ chan'[c].twice = chan[c].twice
      /\ chan'[c].short = chan[c].short
  BY <1>t, <1>2, SMTT(30) DEF WriteTypes, IsChannels
<1>4. WriteTypes'
  BY <1>t, <1>1, <1>2, <1>3 DEF WriteTypes
<1>5. ASSUME NEW d \in Chan, d # c, Apart(d)
      PROVE  Apart(d)'
  <2>1. \A q \in Proc : Writing(q, d)' => q # p /\ Writing(q, d) /\ up'[q] = up[q]
    BY <1>1, <1>5 DEF Writing
  <2> QED
    BY <1>3, <1>5, <2>1 DEF Apart
<1>6. ASSUME Apart(c)
      PROVE  Apart(c)'
  <2>1. chan[c].bytes \subseteq Int
    BY <1>t DEF WriteTypes, IsChannels
  <2>2. \A q \in Proc : Writing(q, c)' /\ q # p =>
           /\ Writing(q, c) /\ up'[q] = up[q]
           /\ up[q].at \in Int /\ up[q].n \in Nat
    BY <1>t, <1>1 DEF Writing, WriteTypes
  <2>3. ~chan'[c].twice /\ \A b \in chan'[c].bytes : b < chan'[c].offset
    BY <1>t, <1>2, <1>3, <1>6, <2>1, SMTT(30) DEF Apart
  <2>4. ASSUME NEW q \in Proc, Writing(q, c)'
        PROVE  /\ up'[q].at + up'[q].n <= chan'[c].offset
               /\ \A b \in chan'[c].bytes : b < up'[q].at \/ up'[q].at + up'[q].n <= b
    <3>1. CASE q = p
      BY <1>t, <1>1, <1>2, <1>3, <1>6, <2>1, <3>1, SMTT(30) DEF Apart
    <3>2. CASE q # p
      BY <1>t, <1>2, <1>3, <1>6, <2>1, <2>2, <2>4, <3>2, SMTT(30) DEF Apart
    <3> QED
      BY <3>1, <3>2
  <2>5. ASSUME NEW q \in Proc, NEW r \in Proc, q # r, Writing(q, c)', Writing(r, c)'
        PROVE  \/ up'[q].at + up'[q].n <= up'[r].at
               \/ up'[r].at + up'[r].n <= up'[q].at
    <3>1. CASE q # p /\ r # p
      BY <1>6, <2>2, <2>5, <3>1 DEF Apart
    <3>2. CASE q = p
      BY <1>1, <1>6, <2>2, <2>5, <3>2 DEF Apart
    <3>3. CASE r = p
      BY <1>1, <1>6, <2>2, <2>5, <3>3 DEF Apart
    <3> QED
      BY <3>1, <3>2, <3>3
  <2> QED
    BY <2>3, <2>4, <2>5 DEF Apart
<1> QED
  BY <1>3, <1>4, <1>5, <1>6 DEF WriteInv

\* A write ends: its range is written, and nobody else's.
LEMMA EndPwriteStep ==
  ASSUME WriteInv, NEW p \in Proc, EndPwrite(p)
  PROVE  WriteInv'
<1>c. PICK c \in Chan, at \in Int, n \in Nat :
         c = up[p].cell /\ at = up[p].at /\ n = up[p].n
  BY DEF WriteInv, WriteTypes, EndPwrite
<1>t. /\ WriteTypes /\ up[p].op = "write" /\ Writing(p, c)
  BY <1>c DEF WriteInv, EndPwrite, Writing
<1>1. NoNewWrite /\ up'[p].op = "user"
  BY <1>t, DropNoWrite DEF EndPwrite
<1>2. PICK m \in 0..n :
        LET new == at..(at + m - 1) IN
        chan' = [chan EXCEPT ![c].offset = @ - (n - m),
                             ![c].bytes = @ \cup new,
                             ![c].twice = @ \/ new \cap chan[c].bytes # {},
                             ![c].short = @ \/ m < n]
  BY <1>c DEF EndPwrite
<1> DEFINE new == at..(at + m - 1)
<1>b. PICK offset, bytes, twice, short :
         /\ offset = chan[c].offset - (n - m)
         /\ bytes = chan[c].bytes \cup new
         /\ twice = (chan[c].twice \/ new \cap chan[c].bytes # {})
         /\ short = (chan[c].short \/ m < n)
  OBVIOUS
<1>s. /\ twice <=> chan[c].twice \/ new \cap chan[c].bytes # {}
      /\ short <=> chan[c].short \/ m < n
  BY <1>b
<1>e. chan' = [chan EXCEPT ![c].offset = offset, ![c].bytes = bytes,
                           ![c].twice = twice, ![c].short = short]
  BY <1>2, <1>b
<1>3. IsChannels(chan) /\ offset \in Int /\ bytes \in SUBSET Int
  <2>1. IsChannels(chan) /\ chan[c].offset \in Int /\ chan[c].bytes \subseteq Int
    BY <1>t DEF WriteTypes, IsChannels
  <2>2. offset = chan[c].offset - (n - m) /\ bytes = chan[c].bytes \cup new
    BY <1>b
  <2> QED
    BY <2>1, <2>2, SMTT(30)
<1>4. /\ \A d \in Chan : d # c => chan'[d] = chan[d]
      /\ chan'[c].offset = offset /\ chan'[c].bytes = bytes
      /\ chan'[c].twice = twice /\ chan'[c].short = short
      /\ IsChannels(chan')
  <2>1. /\ DOMAIN chan' = Chan
        /\ \A d \in Chan : d # c => chan'[d] = chan[d]
        /\ chan'[c] = [[[[chan[c] EXCEPT !.offset = offset] EXCEPT !.bytes = bytes]
                           EXCEPT !.twice = twice] EXCEPT !.short = short]
    BY <1>3, <1>e DEF IsChannels
  <2>2. DOMAIN chan[c] = {"open", "offset", "bytes", "twice", "short"}
    BY <1>3 DEF IsChannels
  <2>3. /\ DOMAIN chan'[c] = DOMAIN chan[c]
        /\ chan'[c].offset = offset /\ chan'[c].bytes = bytes
        /\ chan'[c].twice = twice /\ chan'[c].short = short
    BY <2>1, <2>2
  <2> QED
    BY <1>3, <2>1, <2>2, <2>3 DEF IsChannels
<1>5. IsChannels(chan')
  BY <1>4
<1>6. WriteTypes'
  BY <1>1, <1>5, <1>t DEF WriteTypes, NoNewWrite
<1>7. \A q \in Proc, d \in Chan : Writing(q, d)' =>
         /\ q # p /\ Writing(q, d) /\ up'[q].at = up[q].at /\ up'[q].n = up[q].n
         /\ up[q].at \in Int /\ up[q].n \in Nat
  BY <1>c, <1>t, <1>1 DEF Writing, NoNewWrite, WriteTypes
<1>8. ASSUME NEW d \in Chan, d # c, Apart(d)
      PROVE  Apart(d)'
  BY <1>4, <1>7, <1>8 DEF Apart
<1>9. ASSUME ~chan'[c].short, Apart(c)
      PROVE  Apart(c)'
  <2>1. m = n /\ new = at..(at + n - 1)
    <3>1. ~(m < n)
      BY <1>4, <1>s, <1>9
    <3> QED
      BY <3>1, SMTT(30)
  <2>2. chan'[c].offset = chan[c].offset /\ chan'[c].bytes = chan[c].bytes \cup new
    <3>1. chan[c].offset \in Int
      BY <1>3 DEF IsChannels
    <3>2. offset = chan[c].offset - (n - m) /\ bytes = chan[c].bytes \cup new
      BY <1>b
    <3> QED
      BY <1>4, <2>1, <3>1, <3>2, SMTT(30)
  <2>3. new \cap chan[c].bytes = {}
    <3>1. ASSUME NEW b \in new, b \in chan[c].bytes
          PROVE  FALSE
      <4>1. b \in Int /\ at <= b /\ b < at + n
        BY <1>c, <1>t, <2>1, <3>1, SMTT(30)
      <4>2. b < at \/ at + n <= b
        BY <1>c, <1>t, <1>9, <3>1 DEF Apart
      <4> QED
        BY <1>c, <1>t, <4>1, <4>2, SMTT(30)
    <3> QED
      BY <3>1
  <2>4. ~chan'[c].twice
    BY <1>4, <1>s, <1>9, <2>3 DEF Apart
  <2>5. at + n <= chan[c].offset
    BY <1>c, <1>t, <1>9 DEF Apart
  <2>6. \A b \in new : b \in Int /\ at <= b /\ b < at + n
    BY <1>c, <1>t, <2>1, SMTT(30)
  <2>7. \A b \in chan'[c].bytes : b < chan'[c].offset
    <3>1. /\ chan[c].offset \in Int
          /\ \A b \in chan[c].bytes : b < chan[c].offset
      BY <1>3, <1>9 DEF IsChannels, Apart
    <3>2. \A b \in new : b < chan[c].offset
      BY <2>5, <2>6, <3>1, SMTT(30)
    <3> QED
      BY <2>2, <3>1, <3>2
  <2>8. ASSUME NEW q \in Proc, Writing(q, c)'
        PROVE  /\ up'[q].at + up'[q].n <= chan'[c].offset
               /\ \A b \in chan'[c].bytes : b < up'[q].at \/ up'[q].at + up'[q].n <= b
    <3>1. /\ q # p /\ Writing(q, c) /\ up'[q].at = up[q].at /\ up'[q].n = up[q].n
          /\ up[q].at \in Int /\ up[q].n \in Nat
      BY <1>c, <1>t, <1>7, <2>8
    <3>2. /\ up[q].at + up[q].n <= chan[c].offset
          /\ \A b \in chan[c].bytes : b < up[q].at \/ up[q].at + up[q].n <= b
          /\ \/ at + n <= up[q].at
             \/ up[q].at + up[q].n <= at
      BY <1>c, <1>t, <1>9, <3>1 DEF Apart
    <3>3. \A b \in new : b < up[q].at \/ up[q].at + up[q].n <= b
      BY <1>c, <1>t, <2>6, <3>1, <3>2, SMTT(30)
    <3> QED
      BY <2>2, <3>1, <3>2, <3>3
  <2>9. \A q, r \in Proc : q # r /\ Writing(q, c)' /\ Writing(r, c)' =>
           \/ up'[q].at + up'[q].n <= up'[r].at
           \/ up'[r].at + up'[r].n <= up'[q].at
    BY <1>c, <1>t, <1>7, <1>9 DEF Apart
  <2> QED
    BY <2>4, <2>7, <2>8, <2>9 DEF Apart
<1>10. chan[c].short => chan'[c].short
  BY <1>4, <1>s
<1> QED
  BY <1>c, <1>t, <1>4, <1>6, <1>8, <1>9, <1>10 DEF WriteInv

\* A read ends: the offset moves on.
LEMMA ReadStep ==
  ASSUME WriteInv, NoNewWrite, NEW c, NEW d \in Nat,
         chan' = [chan EXCEPT ![c].offset = @ + d]
  PROVE  WriteInv'
<1>t. IsChannels(chan)
  BY DEF WriteInv, WriteTypes
<1>1. CASE c \notin Chan
  <2>1. DOMAIN chan' = Chan /\ \A e \in Chan : chan'[e] = chan[e]
    BY <1>t, <1>1 DEF IsChannels
  <2>2. IsChannels(chan')
    BY <1>t, <2>1 DEF IsChannels
  <2>3. \A e \in Chan : chan[e].offset \in Int
    BY <1>t DEF IsChannels
  <2> QED
    BY <2>1, <2>2, <2>3, OtherStep, SMTT(30)
<1>2. CASE c \in Chan
  <2>1. /\ DOMAIN chan' = Chan
        /\ \A e \in Chan : e # c => chan'[e] = chan[e]
        /\ chan'[c] = [chan[c] EXCEPT !.offset = @ + d]
    BY <1>t, <1>2 DEF IsChannels
  <2>2. /\ DOMAIN chan[c] = {"open", "offset", "bytes", "twice", "short"}
        /\ chan[c].offset \in Int
    BY <1>t, <1>2 DEF IsChannels
  <2>3. /\ DOMAIN chan'[c] = DOMAIN chan[c] /\ chan'[c].offset = chan[c].offset + d
        /\ chan'[c].bytes = chan[c].bytes /\ chan'[c].twice = chan[c].twice
        /\ chan'[c].short = chan[c].short
    BY <2>1, <2>2, SMTT(30)
  <2>4. IsChannels(chan')
    BY <1>t, <2>1, <2>2, <2>3, SMTT(30) DEF IsChannels
  <2>5. \A e \in Chan : /\ chan'[e].bytes = chan[e].bytes
                        /\ chan'[e].twice = chan[e].twice
                        /\ chan'[e].short = chan[e].short
                        /\ chan'[e].offset >= chan[e].offset
    <3>1. \A e \in Chan : chan[e].offset \in Int
      BY <1>t DEF IsChannels
    <3> QED
      BY <2>1, <2>2, <2>3, <3>1, SMTT(30)
  <2> QED
    BY <2>4, <2>5, OtherStep
<1> QED
  BY <1>1, <1>2

\* Opening a channel.
LEMMA OpenedStep ==
  ASSUME WriteInv, NoNewWrite, NEW c \in Chan,
         chan' = [chan EXCEPT ![c].open = TRUE]
  PROVE  WriteInv'
<1>t. IsChannels(chan)
  BY DEF WriteInv, WriteTypes
<1>1. /\ DOMAIN chan' = Chan
      /\ \A e \in Chan : e # c => chan'[e] = chan[e]
      /\ chan'[c] = [chan[c] EXCEPT !.open = TRUE]
  BY <1>t DEF IsChannels
<1>2. DOMAIN chan[c] = {"open", "offset", "bytes", "twice", "short"}
  BY <1>t DEF IsChannels
<1>3. /\ DOMAIN chan'[c] = DOMAIN chan[c] /\ chan'[c].offset = chan[c].offset
      /\ chan'[c].bytes = chan[c].bytes /\ chan'[c].twice = chan[c].twice
      /\ chan'[c].short = chan[c].short
  BY <1>1, <1>2
<1>4. IsChannels(chan')
  BY <1>t, <1>1, <1>2, <1>3 DEF IsChannels
<1>5. \A e \in Chan : /\ chan'[e].bytes = chan[e].bytes
                      /\ chan'[e].twice = chan[e].twice
                      /\ chan'[e].short = chan[e].short
                      /\ chan'[e].offset >= chan[e].offset
  BY <1>t, <1>1, <1>3, SMTT(30) DEF IsChannels
<1> QED
  BY <1>4, <1>5, OtherStep

\* Nothing happens to the calls.
LEMMA IdleNoWrite ==
  ASSUME WriteTypes, up' = up
  PROVE  NoNewWrite
BY DEF WriteTypes, NoNewWrite

\* The end of a process's calls with its table.
LEMMA LeaveNoWrite ==
  ASSUME WriteTypes, NEW p \in Proc, NEW f, NEW s,
         NEW then \in {"rfork", "exit", "noimage"}, Leave(p, f, s, then)
  PROVE  NoNewWrite
<1> DEFINE u == [up EXCEPT ![p].killed = @ /\ then # "noimage"]
<1>1. PICK cs : Closing(u, p, then, cs)
  BY DEF Leave
<1>2. PICK killed : u = [up EXCEPT ![p].killed = killed]
  OBVIOUS
<1>3. /\ DOMAIN u = Proc
      /\ u[p] = [up[p] EXCEPT !.killed = killed]
      /\ \A q \in Proc : q # p => u[q] = up[q]
  <2> HIDE DEF u
  <2> QED
    BY <1>2 DEF WriteTypes
<1> HIDE DEF u
<1>4. /\ DOMAIN u[p] = DOMAIN up[p]
      /\ u[p].op = up[p].op /\ u[p].cell = up[p].cell
      /\ u[p].at = up[p].at /\ u[p].n = up[p].n
  BY <1>3 DEF WriteTypes
<1>5. \A q \in Proc : /\ DOMAIN u[q] = DOMAIN up[q]
                      /\ u[q].op = up[q].op /\ u[q].cell = up[q].cell
                      /\ u[q].at = up[q].at /\ u[q].n = up[q].n
  BY <1>3, <1>4
<1> QED
  BY <1>1, <1>3, <1>5, ClosingNoWrite

\* Every step keeps the invariant, and only Pwrite begins a write.
LEMMA WriteStep ==
  ASSUME WriteInv, [Next]_vars
  PROVE  /\ WriteInv'
         /\ NoNewWrite \/ \E p \in Proc, x \in Fd, n \in 1..MaxWrite : Pwrite(p, x, n)
<1>t. WriteTypes
  BY DEF WriteInv
<1>c. ASSUME NEW p \in Proc, NEW cs, Closing(up, p, "close", cs)
      PROVE  NoNewWrite
  BY <1>c, <1>t, ClosingNoWrite DEF WriteTypes
<1>1. ASSUME NEW p \in Proc, Open(p)
      PROVE  WriteInv' /\ NoNewWrite
  <2>1. PICK c \in Chan :
           /\ chan' = [chan EXCEPT ![c].open = TRUE]
           /\ up' = up \/ Closing(up, p, "close", <<c>>)
    BY <1>1 DEF Open
  <2>2. NoNewWrite
    BY <1>t, <1>c, <2>1, IdleNoWrite
  <2> QED
    BY <2>1, <2>2, OpenedStep
<1>2. ASSUME NEW p \in Proc, NEW x \in Fd, NEW y \in Fd, Dup(p, x, y)
      PROVE  WriteInv' /\ NoNewWrite
  BY <1>2, <1>c, SameChannels DEF Dup
<1>3. ASSUME NEW p \in Proc, NEW x \in Fd, Close(p, x)
      PROVE  WriteInv' /\ NoNewWrite
  BY <1>3, <1>c, SameChannels DEF Close
<1>4. ASSUME NEW p \in Proc, NEW q \in Proc, Rfork(p, q)
      PROVE  WriteInv' /\ NoNewWrite
  <2>1. up' = [up EXCEPT ![q] = Up("user")] /\ chan' = chan
    BY <1>4 DEF Rfork
  <2>2. NoNewWrite
    BY <1>t, <2>1 DEF WriteTypes, NoNewWrite, Up
  <2> QED
    BY <2>1, <2>2, SameChannels
<1>5. ASSUME NEW p \in Proc, RforkSelf(p)
      PROVE  WriteInv' /\ NoNewWrite
  BY <1>5, <1>t, LeaveNoWrite, SameChannels DEF RforkSelf
<1>6. ASSUME NEW p \in Proc, Exit(p) \/ Notified(p)
      PROVE  WriteInv' /\ NoNewWrite
  BY <1>6, <1>t, LeaveNoWrite, SameChannels DEF Exit, Notified
<1>7. ASSUME NEW p \in Proc, Kill(p)
      PROVE  WriteInv' /\ NoNewWrite
  <2>1. /\ chan' = chan /\ DOMAIN up' = Proc
        /\ up'[p] = [up[p] EXCEPT !.killed = TRUE]
        /\ \A q \in Proc : q # p => up'[q] = up[q]
    BY <1>7, <1>t DEF Kill, WriteTypes
  <2>2. /\ DOMAIN up'[p] = DOMAIN up[p]
        /\ up'[p].op = up[p].op /\ up'[p].cell = up[p].cell
        /\ up'[p].at = up[p].at /\ up'[p].n = up[p].n
    BY <1>t, <2>1 DEF WriteTypes
  <2>3. NoNewWrite
    BY <1>t, <2>1, <2>2 DEF WriteTypes, NoNewWrite
  <2> QED
    BY <2>1, <2>3, SameChannels
<1>8. ASSUME NEW p \in Proc, CloseStep(p)
      PROVE  WriteInv' /\ NoNewWrite
  <2>1. CASE \E cs : Closing(up, p, up[p].op, cs)
    <3>1. NoNewWrite
      BY <1>t, <2>1, ClosingNoWrite DEF WriteTypes
    <3> QED
      BY <1>8, <3>1, SameChannels DEF CloseStep
  <2>2. CASE \E keep : up' = [up EXCEPT ![p].cs = keep, ![p].begun = TRUE]
    <3>1. PICK keep : up' = [up EXCEPT ![p].cs = keep, ![p].begun = TRUE]
      BY <2>2
    <3>2. /\ DOMAIN up' = Proc
          /\ up'[p] = [[up[p] EXCEPT !.cs = keep] EXCEPT !.begun = TRUE]
          /\ \A q \in Proc : q # p => up'[q] = up[q]
      BY <1>t, <3>1 DEF WriteTypes
    <3>3. /\ DOMAIN up'[p] = DOMAIN up[p]
          /\ up'[p].op = up[p].op /\ up'[p].cell = up[p].cell
          /\ up'[p].at = up[p].at /\ up'[p].n = up[p].n
      BY <1>t, <3>2 DEF WriteTypes
    <3>4. NoNewWrite
      BY <1>t, <3>2, <3>3 DEF WriteTypes, NoNewWrite
    <3> QED
      BY <1>8, <3>4, SameChannels DEF CloseStep
  <2> QED
    BY <1>8, <2>1, <2>2 DEF CloseStep
<1>9. ASSUME NEW p \in Proc, NEW x \in Fd, Pread(p, x)
      PROVE  WriteInv' /\ NoNewWrite
  <2>1. NoNewWrite
    BY <1>9, <1>t, EnterEffect, SMTT(30) DEF Pread, NoNewWrite, WriteTypes
  <2> QED
    BY <1>9, <2>1, SameChannels DEF Pread
<1>10. ASSUME NEW p \in Proc, EndPread(p)
       PROVE  WriteInv' /\ NoNewWrite
  <2> DEFINE c == up[p].cell
             D == IF c \in File THEN 0..(MaxOffset - chan[c].offset) ELSE {0}
  <2>d. PICK d \in D : chan' = [chan EXCEPT ![up[p].cell].offset = @ + d]
    BY <1>10 DEF EndPread
  <2>1. d \in Nat
    <3>1. CASE c \in File
      BY <1>t, <3>1, FgrpAssumption, SMTT(30) DEF WriteTypes, IsChannels
    <3>2. CASE c \notin File
      BY <3>2, SMTT(30)
    <3> QED
      BY <3>1, <3>2
  <2>2. NoNewWrite
    BY <1>10, <1>t, DropNoWrite DEF EndPread
  <2> QED
    BY <2>d, <2>1, <2>2, ReadStep
<1>11. ASSUME NEW p \in Proc, NEW x \in Fd, NEW n \in 1..MaxWrite, Pwrite(p, x, n)
       PROVE  WriteInv'
  BY <1>11, PwriteStep
<1>12. ASSUME NEW p \in Proc, EndPwrite(p)
       PROVE  WriteInv' /\ NoNewWrite
  <2>1. NoNewWrite
    BY <1>12, <1>t, DropNoWrite DEF EndPwrite
  <2> QED
    BY <1>12, <2>1, EndPwriteStep
<1>13. ASSUME up' = up, chan' = chan
       PROVE  WriteInv' /\ NoNewWrite
  BY <1>13, <1>t, IdleNoWrite, SameChannels
<1>14. ASSUME NEW p \in Proc, NEW q \in Proc, NEW xs, CtlClose(p, q, xs)
       PROVE  WriteInv' /\ NoNewWrite
  BY <1>13, <1>14 DEF CtlClose
<1>15. ASSUME NEW k \in Kproc,
              Loop(k) \/ Locked(k) \/ TimedOut(k) \/ Wakes(k) \/ Closed(k)
       PROVE  WriteInv' /\ NoNewWrite
  BY <1>13, <1>15 DEF Loop, Locked, TimedOut, Wakes, Closed
<1>16. CASE UNCHANGED vars
  BY <1>13, <1>16 DEF vars
<1> QED
  BY <1>1, <1>2, <1>3, <1>4, <1>5, <1>6, <1>7, <1>8, <1>9, <1>10, <1>11, <1>12,
     <1>14, <1>15, <1>16 DEF Next

\* No write is in progress at first.
LEMMA WriteInit ==
  ASSUME Init
  PROVE  WriteInv
<1>1. /\ chan = [c \in Chan |-> [open |-> FALSE, offset |-> 0, bytes |-> {},
                                 twice |-> FALSE, short |-> FALSE]]
      /\ up = [p \in Proc |-> Up(IF p = First THEN "user" ELSE "unborn")]
  BY DEF Init
<1>2. IsChannels(chan)
  BY <1>1, SMTT(30) DEF IsChannels
<1>3. /\ DOMAIN up = Proc
      /\ \A p \in Proc :
            /\ DOMAIN up[p] = {"op", "cell", "at", "n", "cs", "begun", "killed"}
            /\ up[p].op # "write"
  BY <1>1 DEF Up
<1>4. \A c \in Chan : Apart(c)
  BY <1>1, <1>3 DEF Apart, Writing
<1> QED
  BY <1>2, <1>3, <1>4 DEF WriteInv, WriteTypes

\* The ranges of the writes in progress and what is written stay apart.
THEOREM WriteInvariant == Spec => []WriteInv
<1>1. Init => WriteInv
  BY WriteInit
<1> QED
  BY <1>1, WriteStep, PTL DEF Spec

\* Two writes through one channel never write the same bytes, while every write
\* is whole (pwrite takes its range before the device writes, and pread adds to
\* the offset as it is when it ends).
THEOREM WholeWritesStayApart == Spec => []WholeWritesApart
<1>1. WriteInv => WholeWritesApart
  BY DEF WriteInv, Apart, WholeWritesApart
<1> QED
  BY <1>1, WriteInvariant, PTL
-----------------------------------------------------------------------------
(* Offsets.                                                                 *)

\* The bytes the writes in progress have taken of c's offset, each by its
\* place in its write.
Taking(c) == {a \in Proc \X (1..MaxWrite) :
                 up[a[1]].op = "write" /\ up[a[1]].cell = c /\ a[2] <= up[a[1]].n}
Range1(p, n) == {p} \X (1..n)

\* The offset has room for what the writes in progress may give back.
Fits(c) == Cardinality(Taking(c)) <= chan[c].offset
ChansOK == chan \in [Chan -> Channels] /\ \A c \in Chan : Fits(c)

\* A channel's fields.
LEMMA ChannelFields ==
  ASSUME NEW v \in Channels
  PROVE  /\ v.open \in BOOLEAN /\ v.offset \in 0..MaxOffset /\ v.bytes \in SUBSET (0..MaxOffset)
         /\ v.twice \in BOOLEAN /\ v.short \in BOOLEAN
         /\ v = [open |-> v.open, offset |-> v.offset, bytes |-> v.bytes, twice |-> v.twice,
                 short |-> v.short]
BY DEF Channels

\* What is taken is finitely much, and one write's part is its length.
LEMMA TakingFinite ==
  ASSUME NEW c
  PROVE  IsFiniteSet(Taking(c)) /\ Cardinality(Taking(c)) \in Nat
<1>1. IsFiniteSet(Proc) /\ IsFiniteSet(1..MaxWrite)
  BY FgrpAssumption, FS_Interval, SMTT(30)
<1>2. IsFiniteSet(Proc \X (1..MaxWrite))
  BY <1>1, FS_Product
<1>3. Taking(c) \in SUBSET (Proc \X (1..MaxWrite))
  BY DEF Taking
<1>4. IsFiniteSet(Taking(c))
  BY <1>2, <1>3, FS_Subset
<1> QED
  BY <1>4, FS_CardinalityType

\* The part of one write.
LEMMA RangeSize ==
  ASSUME NEW p, NEW n \in Nat
  PROVE  IsFiniteSet(Range1(p, n)) /\ Cardinality(Range1(p, n)) = n
<1>1. IsFiniteSet({p}) /\ Cardinality({p}) = 1
  BY FS_Singleton
<1>2. IsFiniteSet(1..n) /\ Cardinality(1..n) = n
  BY FS_Interval, SMTT(30)
<1>3. /\ IsFiniteSet({p} \X (1..n))
      /\ Cardinality({p} \X (1..n)) = Cardinality({p}) * Cardinality(1..n)
  BY <1>1, <1>2, FS_Product
<1>4. Cardinality({p} \X (1..n)) = n
  BY <1>1, <1>2, <1>3, SMTT(30)
<1> QED
  BY <1>3, <1>4 DEF Range1

\* No write begins, and no offset goes down.
LEMMA FitsKept ==
  ASSUME ChansOK, NoNewWrite, chan' \in [Chan -> Channels],
         \A c \in Chan : chan'[c].offset >= chan[c].offset
  PROVE  ChansOK'
<1> SUFFICES ASSUME NEW c \in Chan
             PROVE  Fits(c)'
  BY DEF ChansOK
<1>1. Taking(c)' \in SUBSET Taking(c)
  BY DEF Taking, NoNewWrite
<1>2. PICK k, l : k = Cardinality(Taking(c)) /\ l = Cardinality(Taking(c)')
  OBVIOUS
<1>3. l <= k /\ k \in Nat
  BY <1>1, <1>2, TakingFinite, FS_Subset
<1>4. l \in Nat
  <2>1. IsFiniteSet(Taking(c)')
    BY <1>1, TakingFinite, FS_Subset
  <2> QED
    BY <2>1, <1>2, FS_CardinalityType
<1>5. k <= chan[c].offset
  BY <1>2 DEF ChansOK, Fits
<1>6. chan[c].offset \in Nat /\ chan'[c].offset \in Nat
  BY FgrpAssumption, ChannelFields, SMTT(30) DEF ChansOK
<1>7. l <= chan'[c].offset
  BY <1>3, <1>4, <1>5, <1>6, SMTT(30)
<1> QED
  BY <1>2, <1>7 DEF Fits

\* A channel is opened.
LEMMA OpenChans ==
  ASSUME ChansOK, NoNewWrite, NEW c \in Chan, chan' = [chan EXCEPT ![c].open = TRUE]
  PROVE  ChansOK'
<1>1. /\ DOMAIN chan' = Chan
      /\ \A e \in Chan : e # c => chan'[e] = chan[e]
      /\ chan'[c] = [chan[c] EXCEPT !.open = TRUE]
  BY DEF ChansOK
<1>2. PICK yes : yes = TRUE
  OBVIOUS
<1>3. chan[c] \in Channels
  BY DEF ChansOK
<1>4. [chan[c] EXCEPT !.open = yes] = [open |-> yes, offset |-> chan[c].offset,
          bytes |-> chan[c].bytes, twice |-> chan[c].twice, short |-> chan[c].short]
  BY <1>3, SMTT(30) DEF Channels
<1>5. chan'[c] \in Channels /\ chan'[c].offset = chan[c].offset
  <2>1. PICK v : v = [chan[c] EXCEPT !.open = yes]
    OBVIOUS
  <2>2. v \in Channels /\ v.offset = chan[c].offset
    <3>1. yes \in BOOLEAN
      BY <1>2
    <3> QED
      BY <3>1, <2>1, <1>3, <1>4, ChannelFields DEF Channels
  <2> QED
    BY <2>1, <2>2, <1>1, <1>2
<1>6. chan' \in [Chan -> Channels]
  <2>1. \A e \in Chan : chan'[e] \in Channels
    BY <1>1, <1>5 DEF ChansOK
  <2>2. chan' = [e \in Chan |-> chan'[e]]
    BY DEF ChansOK
  <2> QED
    BY <2>1, <2>2
<1>7. \A e \in Chan : chan'[e].offset >= chan[e].offset
  <2>1. \A e \in Chan : chan[e].offset \in Nat /\ chan'[e].offset = chan[e].offset
    BY <1>1, <1>5, FgrpAssumption, ChannelFields, SMTT(30) DEF ChansOK
  <2> QED
    BY <2>1, SMTT(30)
<1> QED
  BY <1>6, <1>7, FitsKept

\* An offset changes: types, and what else is the same.
LEMMA OffsetSets ==
  ASSUME chan \in [Chan -> Channels], NEW c \in Chan, NEW o \in 0..MaxOffset,
         chan' = [chan EXCEPT ![c].offset = o]
  PROVE  /\ chan' \in [Chan -> Channels] /\ chan'[c].offset = o
         /\ \A e \in Chan : e # c => chan'[e] = chan[e]
         /\ SameOpen
<1>1. /\ DOMAIN chan' = Chan
      /\ \A e \in Chan : e # c => chan'[e] = chan[e]
      /\ chan'[c] = [chan[c] EXCEPT !.offset = o]
  OBVIOUS
<1>2. chan[c] \in Channels
  OBVIOUS
<1>3. PICK v : v = [open |-> chan[c].open, offset |-> o, bytes |-> chan[c].bytes,
                    twice |-> chan[c].twice, short |-> chan[c].short]
  OBVIOUS
<1>4. [chan[c] EXCEPT !.offset = o] = v
  BY <1>2, <1>3, SMTT(30) DEF Channels
<1>5. v \in Channels /\ v.offset = o
  BY <1>2, <1>3, ChannelFields DEF Channels
<1>6. v.open = chan[c].open
  BY <1>3
<1>7. chan'[c] = v
  BY <1>1, <1>4
<1>8. chan' \in [Chan -> Channels]
  <2>1. \A e \in Chan : chan'[e] \in Channels
    BY <1>1, <1>5, <1>7
  <2>2. chan' = [e \in Chan |-> chan'[e]]
    OBVIOUS
  <2> QED
    BY <2>1, <2>2
<1>9. SameOpen
  BY <1>1, <1>6, <1>7 DEF SameOpen
<1> QED
  BY <1>1, <1>5, <1>7, <1>8, <1>9

\* A read ends: the offset moves on by what was read.
LEMMA EndPreadChans ==
  ASSUME ChansOK, CallsOK, NoNewWrite, NEW p \in Proc, EndPread(p)
  PROVE  ChansOK' /\ SameOpen
<1> DEFINE c == up[p].cell
<1>1. c \in Chan
  <2>1. up[p] \in Calls /\ CallOK(up[p], fds[p]) /\ up[p].op = "read"
    BY DEF CallsOK, EndPread
  <2>2. up[p].cell \in ChanOrNone /\ up[p].cell # NoChan
    BY <2>1, FieldTypes DEF CallOK
  <2> QED
    BY <2>2 DEF ChanOrNone
<1>2. PICK k \in 0..MaxOffset : k = chan[c].offset
  BY <1>1, ChannelFields DEF ChansOK
<1>3. PICK d : d \in (IF c \in File THEN 0..(MaxOffset - k) ELSE {0})
               /\ chan' = [chan EXCEPT ![c].offset = k + d]
  <2>1. PICK d : /\ d \in (IF c \in File THEN 0..(MaxOffset - chan[c].offset) ELSE {0})
                 /\ chan' = [chan EXCEPT ![c].offset = @ + d]
    BY DEF EndPread
  <2>2. chan' = [chan EXCEPT ![c].offset = chan[c].offset + d]
    BY <2>1, <1>1 DEF ChansOK
  <2> QED
    BY <2>1, <2>2, <1>2
<1>4. k + d \in 0..MaxOffset /\ k + d >= k
  <2>1. CASE c \in File
    BY <2>1, <1>2, <1>3, FgrpAssumption, SMTT(30)
  <2>2. CASE c \notin File
    BY <2>2, <1>2, <1>3, FgrpAssumption, SMTT(30)
  <2> QED
    BY <2>1, <2>2
<1>5. chan \in [Chan -> Channels]
  BY DEF ChansOK
<1> HIDE DEF c
<1>6. /\ chan' \in [Chan -> Channels] /\ chan'[c].offset = k + d
      /\ \A e \in Chan : e # c => chan'[e] = chan[e]
      /\ SameOpen
  BY <1>1, <1>3, <1>4, <1>5, OffsetSets
<1>7. \A e \in Chan : chan'[e].offset >= chan[e].offset
  <2> SUFFICES ASSUME NEW e \in Chan
               PROVE  chan'[e].offset >= chan[e].offset
    OBVIOUS
  <2>1. chan[e].offset \in Nat
    BY <1>5, ChannelFields, FgrpAssumption, SMTT(30)
  <2>2. CASE e = c
    BY <2>2, <1>2, <1>4, <1>6
  <2>3. CASE e # c
    <3>1. chan'[e].offset = chan[e].offset
      BY <2>3, <1>6
    <3> QED
      BY <3>1, <2>1, SMTT(30)
  <2> QED
    BY <2>2, <2>3
<1> QED
  BY <1>6, <1>7, FitsKept

\* A write begins, and takes its range.
LEMMA PwriteChans ==
  ASSUME ChansOK, CallsOK, WriteInv, NEW p \in Proc, NEW x \in Fd, NEW n \in 0..MaxWrite,
         Pwrite(p, x, n)
  PROVE  ChansOK' /\ SameOpen
<1>1. PICK c : c = slots[fds[p]][x]
  OBVIOUS
<1>2. /\ Enter(p, "write", x, n) /\ c \in File /\ chan[c].offset + n <= MaxOffset
      /\ chan' = [chan EXCEPT ![c].offset = Taken(@, n)]
  BY <1>1 DEF Pwrite
<1>3. c \in Chan /\ n \in Nat /\ n <= MaxWrite
  BY <1>2, FgrpAssumption, SMTT(30)
<1>4. PICK k \in 0..MaxOffset : k = chan[c].offset
  BY <1>3, ChannelFields DEF ChansOK
<1>5. chan' = [chan EXCEPT ![c].offset = k + n] /\ k + n \in 0..MaxOffset
  <2>1. chan' = [chan EXCEPT ![c].offset = chan[c].offset + n]
    BY <1>2, <1>3 DEF ChansOK, Taken
  <2> QED
    BY <2>1, <1>2, <1>3, <1>4, FgrpAssumption, SMTT(30)
<1>6. chan \in [Chan -> Channels]
  BY DEF ChansOK
<1>7. /\ chan' \in [Chan -> Channels] /\ chan'[c].offset = k + n
      /\ \A e \in Chan : e # c => chan'[e] = chan[e]
      /\ SameOpen
  BY <1>3, <1>5, <1>6, OffsetSets
<1>8. /\ up'[p].op = "write" /\ up'[p].cell = c /\ up'[p].n = n
      /\ \A q \in Proc : q # p => up'[q] = up[q]
  BY <1>1, <1>2, EnterEffect, SMTT(30) DEF WriteInv
<1>9. \A e \in Chan : Fits(e)'
  <2> SUFFICES ASSUME NEW e \in Chan
               PROVE  Fits(e)'
    OBVIOUS
  <2>1. Cardinality(Taking(e)) <= chan[e].offset
    BY DEF ChansOK, Fits
  <2>2. CASE e # c
    <3>1. Taking(e)' \in SUBSET Taking(e)
      BY <2>2, <1>8 DEF Taking
    <3>2. PICK i, j : i = Cardinality(Taking(e)) /\ j = Cardinality(Taking(e)')
      OBVIOUS
    <3>3. j <= i /\ IsFiniteSet(Taking(e)')
      BY <3>1, <3>2, TakingFinite, FS_Subset
    <3>4. j \in Nat /\ i \in Nat
      BY <3>2, <3>3, TakingFinite, FS_CardinalityType
    <3>5. chan'[e].offset = chan[e].offset /\ chan[e].offset \in Nat
      BY <2>2, <1>6, <1>7, ChannelFields, FgrpAssumption, SMTT(30)
    <3>6. i <= chan[e].offset
      BY <2>1, <3>2
    <3>7. j <= chan'[e].offset
      BY <3>3, <3>4, <3>5, <3>6, SMTT(30)
    <3> QED
      BY <3>2, <3>7 DEF Fits
  <2>3. CASE e = c
    <3>1. Taking(e)' \in SUBSET (Taking(e) \cup Range1(p, n))
      BY <2>3, <1>8, SMTT(30) DEF Taking, Range1
    <3>2. PICK i, j, l : /\ i = Cardinality(Taking(e)) /\ j = Cardinality(Taking(e)')
                         /\ l = Cardinality(Taking(e) \cup Range1(p, n))
      OBVIOUS
    <3>3. IsFiniteSet(Range1(p, n)) /\ Cardinality(Range1(p, n)) = n
      BY <1>3, RangeSize
    <3>4. IsFiniteSet(Taking(e)) /\ i \in Nat
      BY <3>2, TakingFinite
    <3>5. PICK z : z = Cardinality(Taking(e) \cap Range1(p, n))
      OBVIOUS
    <3>6. IsFiniteSet(Taking(e) \cup Range1(p, n)) /\ l = i + n - z
      BY <3>2, <3>3, <3>4, <3>5, FS_Union
    <3>7. z \in Nat
      <4>1. Taking(e) \cap Range1(p, n) \in SUBSET Taking(e)
        OBVIOUS
      <4>2. IsFiniteSet(Taking(e) \cap Range1(p, n))
        BY <4>1, <3>4, FS_Subset
      <4> QED
        BY <4>2, <3>5, FS_CardinalityType
    <3>8. j <= l /\ IsFiniteSet(Taking(e)')
      <4>1. PICK W : W = Taking(e) \cup Range1(p, n)
        OBVIOUS
      <4>2. Taking(e)' \in SUBSET W /\ IsFiniteSet(W)
        BY <4>1, <3>1, <3>6
      <4>3. Cardinality(Taking(e)') <= Cardinality(W) /\ IsFiniteSet(Taking(e)')
        BY <4>2, FS_Subset
      <4> QED
        BY <4>1, <4>3, <3>2
    <3>9. j \in Nat
      BY <3>2, <3>8, FS_CardinalityType
    <3>10. i <= k
      BY <2>1, <2>3, <3>2, <1>4
    <3>11. j <= k + n
      BY <3>4, <3>6, <3>7, <3>8, <3>9, <3>10, <1>3, SMTT(30)
    <3> QED
      BY <2>3, <3>2, <3>11, <1>7 DEF Fits
  <2> QED
    BY <2>2, <2>3
<1> QED
  BY <1>7, <1>9 DEF ChansOK

\* A write ends, and gives back what it did not write: no more than it took.
LEMMA EndPwriteChans ==
  ASSUME ChansOK, CallsOK, WriteInv, NEW p \in Proc, EndPwrite(p)
  PROVE  ChansOK' /\ SameOpen
<1>1. up[p].op = "write" /\ Drop(p)
  BY DEF EndPwrite
<1>2. PICK v \in Calls : v = up[p]
  BY DEF CallsOK
<1>3. CallOK(up[p], fds[p])
  BY DEF CallsOK
<1>4. PICK c \in Chan, at \in 0..MaxOffset, n \in 0..MaxWrite :
         c = up[p].cell /\ at = up[p].at /\ n = up[p].n
  <2>1. up[p].cell \in Chan
    BY <1>1, <1>2, <1>3, FieldTypes DEF CallOK, ChanOrNone
  <2> QED
    BY <2>1, <1>2, FieldTypes
<1>5. at + n <= MaxOffset
  BY <1>1, <1>3, <1>4 DEF CallOK
<1>6. NoNewWrite /\ up'[p].op = "user"
  BY <1>1, DropNoWrite DEF WriteInv
<1>7. PICK m \in 0..n :
        LET new == at..(at + m - 1) IN
        chan' = [chan EXCEPT ![c].offset = @ - (n - m),
                             ![c].bytes = @ \cup new,
                             ![c].twice = @ \/ new \cap chan[c].bytes # {},
                             ![c].short = @ \/ m < n]
  BY <1>4 DEF EndPwrite
<1>8. PICK k \in 0..MaxOffset : k = chan[c].offset
  BY ChannelFields DEF ChansOK
<1>9. PICK i : i = Cardinality(Taking(c)) /\ i \in Nat /\ i <= k
  BY <1>8, TakingFinite DEF ChansOK, Fits
<1>10. n \in Nat /\ IsFiniteSet(Range1(p, n)) /\ Cardinality(Range1(p, n)) = n
  BY <1>4, RangeSize, SMTT(30)
<1>11. Range1(p, n) \in SUBSET Taking(c)
  BY <1>1, <1>4, FgrpAssumption, SMTT(30) DEF Range1, Taking
<1>12. n <= i
  <2>1. Cardinality(Range1(p, n)) <= Cardinality(Taking(c))
    BY <1>11, TakingFinite, FS_Subset
  <2> QED
    BY <2>1, <1>9, <1>10
<1>13. k - (n - m) \in 0..MaxOffset /\ k - n <= k - (n - m)
  BY <1>8, <1>9, <1>10, <1>12, FgrpAssumption, SMTT(30)
<1> DEFINE new == at..(at + m - 1)
<1>14. PICK bytes, twice, short :
         /\ bytes = chan[c].bytes \cup new
         /\ twice = (chan[c].twice \/ new \cap chan[c].bytes # {})
         /\ short = (chan[c].short \/ m < n)
  OBVIOUS
<1>15. PICK o \in 0..MaxOffset : o = k - (n - m)
  BY <1>13
<1>16. chan' = [chan EXCEPT ![c].offset = o, ![c].bytes = bytes,
                            ![c].twice = twice, ![c].short = short]
  BY <1>7, <1>8, <1>14, <1>15
<1>17. bytes \in SUBSET (0..MaxOffset) /\ twice \in BOOLEAN /\ short \in BOOLEAN
  <2>1. chan[c].bytes \in SUBSET (0..MaxOffset)
    BY ChannelFields DEF ChansOK
  <2>2. new \in SUBSET (0..MaxOffset)
    BY <1>4, <1>5, FgrpAssumption, SMTT(30)
  <2>3. bytes = chan[c].bytes \cup new
    BY <1>14
  <2>4. bytes \in SUBSET (0..MaxOffset)
    BY <2>1, <2>2, <2>3
  <2>5. twice \in BOOLEAN /\ short \in BOOLEAN
    BY <1>14
  <2> QED
    BY <2>4, <2>5
<1> HIDE DEF new
<1>18. chan[c] \in Channels /\ chan \in [Chan -> Channels]
  BY DEF ChansOK
<1>19. /\ DOMAIN chan' = Chan
       /\ \A e \in Chan : e # c => chan'[e] = chan[e]
       /\ chan'[c] = [[[[chan[c] EXCEPT !.offset = o] EXCEPT !.bytes = bytes]
                          EXCEPT !.twice = twice] EXCEPT !.short = short]
  BY <1>16, <1>18
<1>20. PICK w : w = [open |-> chan[c].open, offset |-> o, bytes |-> bytes,
                     twice |-> twice, short |-> short]
  OBVIOUS
<1>21. chan'[c] = w
  BY <1>18, <1>19, <1>20 DEF Channels
<1>22. w \in Channels
  BY <1>17, <1>18, <1>20, ChannelFields DEF Channels
<1>23. w.open = chan[c].open /\ w.offset = o
  BY <1>20
<1>24. chan' \in [Chan -> Channels]
  <2>1. \A e \in Chan : chan'[e] \in Channels
    BY <1>18, <1>19, <1>21, <1>22
  <2>2. chan' = [e \in Chan |-> chan'[e]]
    BY <1>16, <1>18
  <2> QED
    BY <2>1, <2>2
<1>25. SameOpen
  BY <1>19, <1>21, <1>23 DEF SameOpen
<1>26. \A e \in Chan : Fits(e)'
  <2> SUFFICES ASSUME NEW e \in Chan
               PROVE  Fits(e)'
    OBVIOUS
  <2>1. Cardinality(Taking(e)) <= chan[e].offset
    BY DEF ChansOK, Fits
  <2>2. CASE e # c
    <3>1. Taking(e)' \in SUBSET Taking(e)
      BY <1>6 DEF Taking, NoNewWrite
    <3>2. PICK a, j : a = Cardinality(Taking(e)) /\ j = Cardinality(Taking(e)')
      OBVIOUS
    <3>3. j <= a /\ IsFiniteSet(Taking(e)')
      BY <3>1, <3>2, TakingFinite, FS_Subset
    <3>4. j \in Nat /\ a \in Nat
      BY <3>2, <3>3, TakingFinite, FS_CardinalityType
    <3>5. chan[e].offset \in Nat
      BY <1>18, ChannelFields, FgrpAssumption, SMTT(30)
    <3>6. a <= chan[e].offset
      BY <2>1, <3>2
    <3>7. j <= chan[e].offset
      BY <3>3, <3>4, <3>5, <3>6, SMTT(30)
    <3>8. chan'[e] = chan[e]
      BY <2>2, <1>19
    <3> QED
      BY <3>2, <3>7, <3>8 DEF Fits
  <2>3. CASE e = c
    <3>1. PICK W : W = Taking(c) \ Range1(p, n)
      OBVIOUS
    <3>2. Taking(c)' \in SUBSET W
      <4> SUFFICES ASSUME NEW a \in Taking(c)'
                   PROVE  a \in W
        OBVIOUS
      <4>1. a \in Taking(c) /\ a[1] # p
        BY <1>6 DEF Taking, NoNewWrite
      <4>2. a \notin Range1(p, n)
        BY <4>1 DEF Range1
      <4> QED
        BY <4>1, <4>2, <3>1
    <3>3. IsFiniteSet(Taking(c))
      BY TakingFinite
    <3>4. Taking(c) \cap Range1(p, n) = Range1(p, n)
      BY <1>11
    <3>5. IsFiniteSet(W) /\ Cardinality(W) = i - n
      <4>1. /\ IsFiniteSet(Taking(c) \ Range1(p, n))
            /\ Cardinality(Taking(c) \ Range1(p, n))
                 = Cardinality(Taking(c)) - Cardinality(Taking(c) \cap Range1(p, n))
        BY <3>3, <1>10, FS_Difference
      <4> QED
        BY <4>1, <3>1, <3>4, <1>9, <1>10
    <3>6. PICK j : j = Cardinality(Taking(c)')
      OBVIOUS
    <3>7. j <= i - n /\ IsFiniteSet(Taking(c)')
      BY <3>2, <3>5, <3>6, FS_Subset
    <3>8. j \in Nat
      BY <3>6, <3>7, FS_CardinalityType
    <3>9. j <= o
      BY <3>7, <3>8, <1>8, <1>9, <1>10, <1>12, <1>13, <1>15, SMTT(30)
    <3> QED
      BY <2>3, <3>6, <3>9, <1>21, <1>23 DEF Fits
  <2> QED
    BY <2>2, <2>3
<1> QED
  BY <1>24, <1>25, <1>26 DEF ChansOK
-----------------------------------------------------------------------------
(* The close queue.                                                         *)

\* One of the closeprocs k is neither asleep nor unmade.
Awake(k) == \E j \in Kproc : k[j] \notin {"none", "asleep"}

\* The end of a call loses no closeproc, and makes the one asked for or leaves
\* the request.
LEMMA TailTends ==
  ASSUME NEW p, NEW asked, NEW k, DOMAIN k = Kproc, CallTail(p, asked, k)
  PROVE  /\ DOMAIN kp' = Kproc
         /\ asked => make' \/ Awake(kp')
         /\ Awake(k) => Awake(kp')
<1>1. CASE kp' = k /\ make' = asked
  BY <1>1
<1>2. CASE \E j \in Kproc : k[j] = "none" /\ kp' = [k EXCEPT ![j] = "loop"]
  <2>1. PICK j \in Kproc : k[j] = "none" /\ kp' = [k EXCEPT ![j] = "loop"]
    BY <1>2
  <2>2. /\ DOMAIN kp' = Kproc /\ kp'[j] = "loop"
        /\ \A i \in Kproc : i # j => kp'[i] = k[i]
    BY <2>1
  <2>3. Awake(kp')
    BY <2>2 DEF Awake
  <2> QED
    BY <2>2, <2>3
<1> QED
  BY <1>1, <1>2 DEF CallTail

\* Handing clunkq.q on loses no closeproc either.
LEMMA UnlockedTends ==
  ASSUME NEW k, DOMAIN k = Kproc, Unlocked(k)
  PROVE  /\ DOMAIN kp' = Kproc
         /\ Awake(k) => Awake(kp')
<1>1. CASE kp' = k
  BY <1>1
<1>2. CASE kp' = [k EXCEPT ![Head(ql.q)] = "locked"]
  <2>1. DOMAIN kp' = Kproc /\ \A i \in Kproc : kp'[i] \in {k[i], "locked"}
    BY <1>2
  <2>2. Awake(k) => Awake(kp')
    BY <2>1 DEF Awake
  <2> QED
    BY <2>1, <2>2
<1> QED
  BY <1>1, <1>2 DEF Unlocked

\* The body of closeproc's loop: it sleeps only when nothing is queued.
LEMMA BodyTends ==
  ASSUME NEW k \in Kproc, DOMAIN kp = Kproc, Body(k)
  PROVE  /\ DOMAIN kp' = Kproc
         /\ clunkq' = <<>> \/ Awake(kp')
<1>1. CASE clunkq = <<>> /\ kp' = [kp EXCEPT ![k] = "asleep"] /\ clunkq' = clunkq
  BY <1>1
<1>2. CASE Unlocked([kp EXCEPT ![k] = "close"])
  <2>1. PICK x : x = [kp EXCEPT ![k] = "close"]
    OBVIOUS
  <2>2. DOMAIN x = Kproc /\ x[k] = "close"
    BY <2>1
  <2>3. Awake(x)
    BY <2>2 DEF Awake
  <2> QED
    BY <1>2, <2>1, <2>2, <2>3, UnlockedTends
<1> QED
  BY <1>1, <1>2 DEF Body

\* A step that adds nothing to the queue and loses no closeproc and no request.
LEMMA SameQueue ==
  ASSUME QueueTended, clunkq' = clunkq, make => make' \/ Awake(kp'),
         Awake(kp) => Awake(kp')
  PROVE  QueueTended'
BY DEF QueueTended, Awake

\* The calls that touch no close queue.
LEMMA ReturnsTends ==
  ASSUME NEW p, DOMAIN kp = Kproc, Returns(p)
  PROVE  /\ DOMAIN kp' = Kproc
         /\ QueueTended => QueueTended'
<1>1. CallTail(p, make, kp) /\ clunkq' = clunkq
  BY DEF Returns
<1>2. /\ DOMAIN kp' = Kproc /\ (make => make' \/ Awake(kp'))
      /\ (Awake(kp) => Awake(kp'))
  BY <1>1, TailTends
<1> QED
  BY <1>1, <1>2, SameQueue

\* A process that hands over what it has to close wakes a closeproc or asks for
\* one.
LEMMA CloseStepTends ==
  ASSUME NEW p \in Proc, DOMAIN kp = Kproc, up[p].cs \in Seq(Chan), CloseStep(p)
  PROVE  /\ DOMAIN kp' = Kproc
         /\ QueueTended => QueueTended'
<1> DEFINE handed == SubSeq(up[p].cs, Len(Kept(up[p])) + 1, Len(up[p].cs))
<1>1. PICK h : h = handed
  OBVIOUS
<1>2. /\ clunkq' = clunkq \o h
      /\ CallTail(p, make \/ Unserved(h), IF h = <<>> THEN kp ELSE Woken(kp))
  BY <1>1 DEF CloseStep
<1>3. CASE h = <<>> /\ clunkq = <<>>
  <2>1. clunkq' = <<>>
    BY <1>2, <1>3, SMTT(30)
  <2>2. DOMAIN kp' = Kproc
    BY <1>2, <1>3, TailTends
  <2> QED
    BY <2>1, <2>2 DEF QueueTended
<1>4. CASE h = <<>> /\ clunkq # <<>>
  <2>1. CallTail(p, make \/ Unserved(h), kp)
    BY <1>2, <1>4
  <2>2. /\ DOMAIN kp' = Kproc
        /\ (make \/ Unserved(h)) => make' \/ Awake(kp')
        /\ Awake(kp) => Awake(kp')
    BY <2>1, TailTends
  <2> QED
    BY <2>2, <1>4 DEF QueueTended, Awake
<1>5. CASE h # <<>>
  <2>1. PICK k : k = Woken(kp)
    OBVIOUS
  <2>2. CallTail(p, make \/ Unserved(h), k) /\ DOMAIN k = Kproc
    BY <1>2, <1>5, <2>1 DEF Woken
  <2>3. /\ DOMAIN kp' = Kproc
        /\ (make \/ Unserved(h)) => make' \/ Awake(kp')
        /\ Awake(k) => Awake(kp')
    BY <2>2, TailTends
  <2>4. CASE Sleeper
    <3>1. PICK j \in Kproc : kp[j] = "asleep"
      BY <2>4 DEF Sleeper
    <3>2. k[j] = "woken"
      BY <3>1, <2>1 DEF Woken
    <3>3. Awake(k)
      BY <3>2 DEF Awake
    <3> QED
      BY <3>3, <2>3 DEF QueueTended, Awake
  <2>5. CASE ~Sleeper
    <3>1. Unserved(h)
      <4>1. Len(Kept(up[p])) \in Nat
        <5>1. Kept(up[p]) \in Seq(Chan)
          <6>1. up[p].cs # <<>>
            BY DEF CloseStep
          <6>2. <<Head(up[p].cs)>> \in Seq(Chan) /\ <<>> \in Seq(Chan)
            BY <6>1, SMTT(30)
          <6> QED
            BY <6>2 DEF Kept
        <5> QED
          BY <5>1, SMTT(30)
      <4>2. h \in Seq(Chan)
        BY <4>1, <1>1, SMTT(30)
      <4>3. Len(h) > 0
        BY <4>2, <1>5, SMTT(30)
      <4> QED
        BY <4>3, <2>5 DEF Unserved
    <3> QED
      BY <3>1, <2>3 DEF QueueTended, Awake
  <2> QED
    BY <2>4, <2>5
<1> QED
  BY <1>3, <1>4, <1>5


\* The closeprocs and clunkq.q have their types.
Kprocs == [Kproc -> Kstates]
Locks == [held : Kproc \cup {NoKproc}, q : Seq(Kproc)]
KpTypes == make \in BOOLEAN /\ kp \in Kprocs /\ ql \in Locks

\* A closeproc changes its state.
LEMMA KprocSets ==
  ASSUME NEW k \in Kprocs, NEW j \in Kproc, NEW s \in Kstates
  PROVE  [k EXCEPT ![j] = s] \in Kprocs
BY DEF Kprocs

\* The end of a call makes a closeproc at most.
LEMMA TailTypes ==
  ASSUME NEW p, NEW asked \in BOOLEAN, NEW k \in Kprocs, CallTail(p, asked, k)
  PROVE  make' \in BOOLEAN /\ kp' \in Kprocs
<1>1. CASE kp' = k /\ make' = asked
  BY <1>1
<1>2. CASE (\E j \in Kproc : k[j] = "none" /\ kp' = [k EXCEPT ![j] = "loop"]) /\ make' = FALSE
  <2>1. "loop" \in Kstates
    BY DEF Kstates
  <2>2. kp' \in Kprocs
    BY <1>2, <2>1, KprocSets
  <2> QED
    BY <1>2, <2>2
<1> QED
  BY <1>1, <1>2 DEF CallTail

\* The fields of a lock.
LEMMA LockFields ==
  ASSUME NEW l \in Locks
  PROVE  l.held \in Kproc \cup {NoKproc} /\ l.q \in Seq(Kproc)
BY DEF Locks

\* A lock changes hands, or another waits for it.
LEMMA LockSets ==
  ASSUME NEW l \in Locks, NEW h \in Kproc \cup {NoKproc}, NEW s \in Seq(Kproc)
  PROVE  /\ [l EXCEPT !.held = h] \in Locks
         /\ [l EXCEPT !.q = s] \in Locks
         /\ [held |-> h, q |-> s] \in Locks
BY DEF Locks

\* clunkq.q is handed on.
LEMMA UnlockedTypes ==
  ASSUME NEW k \in Kprocs, ql \in Locks, Unlocked(k)
  PROVE  kp' \in Kprocs /\ ql' \in Locks
<1>1. CASE ql.q = <<>>
  <2>1. ql' = [ql EXCEPT !.held = NoKproc] /\ kp' = k
    BY <1>1 DEF Unlocked
  <2>2. NoKproc \in Kproc \cup {NoKproc} /\ ql.q \in Seq(Kproc)
    BY LockFields
  <2>3. [ql EXCEPT !.held = NoKproc] \in Locks
    BY <2>2, LockSets
  <2> QED
    BY <2>1, <2>3
<1>2. CASE ql.q # <<>>
  <2>1. /\ ql' = [held |-> Head(ql.q), q |-> Tail(ql.q)]
        /\ kp' = [k EXCEPT ![Head(ql.q)] = "locked"]
    BY <1>2 DEF Unlocked
  <2>2. PICK w \in Seq(Kproc) : w = ql.q
    BY LockFields
  <2>3. Head(w) \in Kproc /\ Tail(w) \in Seq(Kproc)
    BY <1>2, <2>2, SMTT(30)
  <2>4. "locked" \in Kstates
    BY DEF Kstates
  <2>5. [k EXCEPT ![Head(w)] = "locked"] \in Kprocs
    BY <2>3, <2>4, KprocSets
  <2>6. Head(w) \in Kproc \cup {NoKproc}
    BY <2>3
  <2>7. [held |-> Head(w), q |-> Tail(w)] \in Locks
    BY <2>3, <2>6, LockSets
  <2> QED
    BY <2>1, <2>2, <2>5, <2>7
<1> QED
  BY <1>1, <1>2

\* A turn of closeproc's loop.
LEMMA BodyTypes ==
  ASSUME KpTypes, NEW k \in Kproc, Body(k)
  PROVE  kp' \in Kprocs /\ ql' \in Locks
<1>1. kp \in Kprocs /\ ql \in Locks /\ ql.q \in Seq(Kproc)
  BY LockFields DEF KpTypes
<1>2. "asleep" \in Kstates /\ "close" \in Kstates /\ k \in Kproc \cup {NoKproc}
  BY DEF Kstates
<1>3. [kp EXCEPT ![k] = "asleep"] \in Kprocs /\ [kp EXCEPT ![k] = "close"] \in Kprocs
  BY <1>1, <1>2, KprocSets
<1>4. CASE kp' = [kp EXCEPT ![k] = "asleep"] /\ ql' = [ql EXCEPT !.held = k]
  <2>1. [ql EXCEPT !.held = k] \in Locks
    BY <1>1, <1>2, LockSets
  <2> QED
    BY <1>3, <1>4, <2>1
<1>5. CASE Unlocked([kp EXCEPT ![k] = "close"])
  BY <1>1, <1>3, <1>5, UnlockedTypes
<1> QED
  BY <1>4, <1>5 DEF Body

\* What each step does to the queue and the closeprocs.
LEMMA QueueSteps ==
  ASSUME [Next]_vars
  PROVE  \/ \E p \in Proc : Returns(p)
         \/ \E p \in Proc : CloseStep(p)
         \/ \E p, q \in Proc, xs \in SUBSET Fd : CtlClose(p, q, xs)
         \/ \E k \in Kproc : Loop(k) \/ Locked(k) \/ TimedOut(k) \/ Wakes(k) \/ Closed(k)
         \/ UNCHANGED <<clunkq, make, kp, ql>>
<1>1. CASE UNCHANGED vars
  BY <1>1 DEF vars
<1>2. ASSUME NEW p \in Proc, Open(p) \/ RforkSelf(p) \/ Exit(p) \/ EndPread(p) \/ EndPwrite(p)
      PROVE  Returns(p)
  BY <1>2 DEF Open, RforkSelf, Exit, EndPread, EndPwrite
<1>3. ASSUME NEW p \in Proc, Notified(p) \/ Kill(p)
      PROVE  UNCHANGED <<clunkq, make, kp, ql>>
  BY <1>3 DEF Notified, Kill
<1>4. ASSUME NEW p \in Proc, NEW x \in Fd, Close(p, x) \/ Pread(p, x)
      PROVE  Returns(p)
  BY <1>4 DEF Close, Pread
<1>5. ASSUME NEW p \in Proc, NEW x \in Fd, NEW y \in Fd, Dup(p, x, y)
      PROVE  Returns(p)
  BY <1>5 DEF Dup
<1>6. ASSUME NEW p \in Proc, NEW x \in Fd, NEW n, Pwrite(p, x, n)
      PROVE  Returns(p)
  BY <1>6 DEF Pwrite
<1>7. ASSUME NEW p \in Proc, NEW q \in Proc, Rfork(p, q)
      PROVE  Returns(p)
  BY <1>7 DEF Rfork
<1>8. \A xs \in {{x} : x \in Fd} \cup {Fd} : xs \in SUBSET Fd
  OBVIOUS
<1> QED
  BY <1>1, <1>2, <1>3, <1>4, <1>5, <1>6, <1>7, <1>8 DEF Next


\* A closeproc's step is a turn of the loop, or leaves the queue alone: it waits
\* for the lock, is awake, or, with nothing queued, exits.
LEMMA KprocSteps ==
  ASSUME NEW k \in Kproc, Loop(k) \/ Locked(k) \/ TimedOut(k) \/ Wakes(k) \/ Closed(k)
  PROVE  /\ make' = make
         /\ \/ Body(k)
            \/ /\ ql' = [ql EXCEPT !.q = Append(@, k)] /\ clunkq' = clunkq
               /\ kp' = [kp EXCEPT ![k] = "qwait"]
            \/ /\ ql' = ql /\ clunkq' = clunkq
               /\ \E s \in {"woken", "loop"} : kp' = [kp EXCEPT ![k] = s]
            \/ clunkq = <<>> /\ clunkq' = clunkq /\ Unlocked([kp EXCEPT ![k] = "none"])
<1>1. CASE Loop(k)
  BY <1>1 DEF Loop
<1>2. CASE Locked(k)
  BY <1>2 DEF Locked
<1>3. CASE TimedOut(k)
  <2>1. "woken" \in {"woken", "loop"}
    OBVIOUS
  <2> QED
    BY <1>3, <2>1 DEF TimedOut
<1>4. CASE Wakes(k)
  BY <1>4 DEF Wakes, IdleOut
<1>5. CASE Closed(k)
  <2>1. "loop" \in {"woken", "loop"}
    OBVIOUS
  <2> QED
    BY <1>5, <2>1 DEF Closed
<1> QED
  BY <1>1, <1>2, <1>3, <1>4, <1>5

\* The types of the closeprocs and their lock are kept.
LEMMA KpStep ==
  ASSUME KpTypes, [Next]_vars
  PROVE  KpTypes'
<1>1. make \in BOOLEAN /\ kp \in Kprocs /\ ql \in Locks
  BY DEF KpTypes
<1>2. ASSUME NEW p \in Proc, Returns(p)
      PROVE  KpTypes'
  <2>1. CallTail(p, make, kp) /\ ql' = ql
    BY <1>2 DEF Returns
  <2> QED
    BY <2>1, <1>1, TailTypes DEF KpTypes
<1>3. ASSUME NEW p \in Proc, CloseStep(p)
      PROVE  KpTypes'
  <2>1. PICK h : CallTail(p, make \/ Unserved(h), IF h = <<>> THEN kp ELSE Woken(kp)) /\ ql' = ql
    BY <1>3 DEF CloseStep
  <2>2. Woken(kp) \in Kprocs
    <3>1. "woken" \in Kstates
      BY DEF Kstates
    <3> QED
      BY <1>1, <3>1 DEF Woken, Kprocs
  <2>3. PICK k \in Kprocs : k = IF h = <<>> THEN kp ELSE Woken(kp)
    BY <1>1, <2>2
  <2>4. PICK asked \in BOOLEAN : asked = (make \/ Unserved(h))
    OBVIOUS
  <2>5. CallTail(p, asked, k)
    BY <2>1, <2>3, <2>4
  <2> QED
    BY <2>1, <2>5, <1>1, TailTypes DEF KpTypes
<1>4. ASSUME NEW p \in Proc, NEW q \in Proc, NEW xs \in SUBSET Fd, CtlClose(p, q, xs)
      PROVE  KpTypes'
  <2>1. CallTail(p, make, kp) /\ ql' = ql
    BY <1>4 DEF CtlClose
  <2> QED
    BY <2>1, <1>1, TailTypes DEF KpTypes
<1>5. ASSUME NEW k \in Kproc, Loop(k) \/ Locked(k) \/ TimedOut(k) \/ Wakes(k) \/ Closed(k)
      PROVE  KpTypes'
  <2>1. make' \in BOOLEAN
    BY <1>1, <1>5, KprocSteps
  <2>2. \A s \in {"woken", "loop", "none", "qwait"} : [kp EXCEPT ![k] = s] \in Kprocs
    <3>1. \A s \in {"woken", "loop", "none", "qwait"} : s \in Kstates
      BY DEF Kstates
    <3> QED
      BY <1>1, <3>1, KprocSets
  <2>3. CASE Body(k)
    BY <2>1, <2>3, BodyTypes DEF KpTypes
  <2>4. CASE ql' = [ql EXCEPT !.q = Append(@, k)] /\ kp' = [kp EXCEPT ![k] = "qwait"]
    <3>1. PICK w \in Seq(Kproc) : w = ql.q
      BY <1>1, LockFields
    <3>2. PICK v \in Seq(Kproc) : v = Append(w, k)
      <4>1. Append(w, k) \in Seq(Kproc)
        BY SMTT(30)
      <4> QED
        BY <4>1
    <3>3. ql' = [ql EXCEPT !.q = v]
      BY <2>4, <3>1, <3>2
    <3>4. [ql EXCEPT !.q = v] \in Locks
      BY <1>1 DEF Locks
    <3>5. ql' \in Locks
      BY <3>3, <3>4
    <3>6. kp' \in Kprocs
      BY <2>2, <2>4
    <3> QED
      BY <2>1, <3>5, <3>6 DEF KpTypes
  <2>5. CASE ql' = ql /\ \E s \in {"woken", "loop"} : kp' = [kp EXCEPT ![k] = s]
    <3>1. kp' \in Kprocs
      BY <2>2, <2>5
    <3> QED
      BY <2>1, <2>5, <3>1, <1>1 DEF KpTypes
  <2>6. CASE Unlocked([kp EXCEPT ![k] = "none"])
    <3>1. [kp EXCEPT ![k] = "none"] \in Kprocs
      BY <2>2
    <3> QED
      BY <2>1, <2>6, <3>1, <1>1, UnlockedTypes DEF KpTypes
  <2> QED
    BY <1>5, <2>3, <2>4, <2>5, <2>6, KprocSteps
<1>6. CASE UNCHANGED <<clunkq, make, kp, ql>>
  BY <1>1, <1>6 DEF KpTypes
<1> QED
  BY <1>2, <1>3, <1>4, <1>5, <1>6, QueueSteps

\* What is queued keeps its closeproc, but when a ctl file's close queues.
LEMMA TendedStep ==
  ASSUME KpTypes, CallsOK, [Next]_vars, QueueTended
  PROVE  QueueTended' \/ \E p, q \in Proc, xs \in SUBSET Fd : CtlClose(p, q, xs)
<1>1. DOMAIN kp = Kproc
  BY DEF KpTypes, Kprocs
<1>2. ASSUME NEW p \in Proc, Returns(p)
      PROVE  QueueTended'
  BY <1>1, <1>2, ReturnsTends
<1>3. ASSUME NEW p \in Proc, CloseStep(p)
      PROVE  QueueTended'
  <2>1. up[p].cs \in Seq(Chan)
    BY FieldTypes DEF CallsOK
  <2> QED
    BY <1>1, <1>3, <2>1, CloseStepTends
<1>4. ASSUME NEW k \in Kproc, Loop(k) \/ Locked(k) \/ TimedOut(k) \/ Wakes(k) \/ Closed(k)
      PROVE  QueueTended'
  <2>1. CASE Body(k)
    BY <1>1, <2>1, BodyTends DEF QueueTended, Awake
  <2>2. CASE \E s \in {"woken", "loop", "qwait"} : kp' = [kp EXCEPT ![k] = s]
    <3>1. kp'[k] \in {"woken", "loop", "qwait"}
      BY <1>1, <2>2
    <3>2. kp'[k] \notin {"none", "asleep"}
      BY <3>1
    <3> QED
      BY <3>2 DEF QueueTended
  <2>3. CASE clunkq = <<>> /\ clunkq' = clunkq
    BY <2>3 DEF QueueTended
  <2>4. \/ Body(k)
        \/ \E s \in {"woken", "loop", "qwait"} : kp' = [kp EXCEPT ![k] = s]
        \/ clunkq = <<>> /\ clunkq' = clunkq
    BY <1>4, KprocSteps
  <2> QED
    BY <2>1, <2>2, <2>3, <2>4
<1>5. CASE UNCHANGED <<clunkq, make, kp, ql>>
  BY <1>5 DEF QueueTended
<1> QED
  BY <1>2, <1>3, <1>4, <1>5, QueueSteps

-----------------------------------------------------------------------------
(* The invariant.                                                           *)

FgrpInv == WriteInv /\ CallsOK /\ ChansOK /\ ClosesOnce /\ KpTypes

\* What a step keeps of calls, channels and closes.
Settled == CallsOK' /\ Accounted /\ ChansOK'

\* A step that leaves the channels alone and begins no write.
LEMMA SameChans ==
  ASSUME ChansOK, NoNewWrite, chan' = chan
  PROVE  ChansOK'
<1>1. \A c \in Chan : chan'[c].offset >= chan[c].offset
  <2>1. \A c \in Chan : chan[c].offset \in Nat
    BY ChannelFields, FgrpAssumption, SMTT(30) DEF ChansOK
  <2> QED
    BY <2>1, SMTT(30)
<1> QED
  BY <1>1, FitsKept DEF ChansOK

\* A write begins.
LEMMA PwriteSettles ==
  ASSUME FgrpInv, NEW p \in Proc, NEW x \in Fd, NEW n \in 1..MaxWrite, Pwrite(p, x, n)
  PROVE  Settled
<1>1. n \in 0..MaxWrite
  BY FgrpAssumption, SMTT(30)
<1>2. ChansOK' /\ SameOpen
  BY <1>1, PwriteChans DEF FgrpInv
<1>3. PICK c : c = slots[fds[p]][x]
  OBVIOUS
<1>4. /\ Enter(p, "write", x, n) /\ chan[c].offset + n <= MaxOffset
      /\ fds' = fds /\ slots' = slots /\ told' = told /\ clunkq' = clunkq
  BY <1>3 DEF Pwrite, Returns
<1>5. CallsOK /\ ClosesOnce /\ chan \in [Chan -> Channels]
  BY DEF FgrpInv, ChansOK
<1>6. "write" \in {"read", "write"}
  OBVIOUS
<1>7. CallsOK' /\ Accounted
  BY <1>1, <1>2, <1>3, <1>4, <1>5, <1>6, EnterKeeps
<1> QED
  BY <1>2, <1>7 DEF Settled

\* A read begins, or a read or write ends.
LEMMA IoSettles ==
  ASSUME FgrpInv, NEW p \in Proc, NoNewWrite,
         (\E x \in Fd : Pread(p, x)) \/ EndPread(p) \/ EndPwrite(p)
  PROVE  Settled
<1>1. CallsOK /\ ClosesOnce /\ ChansOK /\ WriteInv /\ chan \in [Chan -> Channels]
  BY DEF FgrpInv, ChansOK
<1>2. ASSUME NEW x \in Fd, Pread(p, x)
      PROVE  Settled
  <2>1. PICK c : c = slots[fds[p]][x]
    OBVIOUS
  <2>2. /\ Enter(p, "read", x, 0) /\ chan' = chan
        /\ fds' = fds /\ slots' = slots /\ told' = told /\ clunkq' = clunkq
    BY <1>2 DEF Pread, Returns
  <2>3. SameOpen /\ 0 \in 0..MaxWrite /\ "read" \in {"read", "write"} /\ "read" # "write"
    BY <2>2, FgrpAssumption, SMTT(30) DEF SameOpen
  <2>4. CallsOK' /\ Accounted
    BY <1>1, <2>1, <2>2, <2>3, EnterKeeps
  <2> QED
    BY <1>1, <2>2, <2>4, SameChans DEF Settled
<1>3. CASE EndPread(p) \/ EndPwrite(p)
  <2>1. /\ up[p].op \in {"read", "write"} /\ Drop(p)
        /\ fds' = fds /\ slots' = slots /\ told' = told /\ clunkq' = clunkq
    BY <1>3 DEF EndPread, EndPwrite, Returns
  <2>2. ChansOK' /\ SameOpen
    BY <1>1, <1>3, EndPreadChans, EndPwriteChans
  <2>3. CallsOK' /\ Accounted
    BY <1>1, <2>1, <2>2, DropKeeps
  <2> QED
    BY <2>2, <2>3 DEF Settled
<1> QED
  BY <1>2, <1>3

\* Calls of one process on its descriptors.
LEMMA FdSettles ==
  ASSUME FgrpInv, NEW p \in Proc, NoNewWrite,
         \/ Open(p)
         \/ \E x \in Fd : Close(p, x)
         \/ \E x, y \in Fd : Dup(p, x, y)
         \/ \E q \in Proc : \E xs : CtlClose(p, q, xs)
  PROVE  Settled
<1>1. CallsOK /\ ClosesOnce /\ ChansOK /\ chan \in [Chan -> Channels]
  BY DEF FgrpInv, ChansOK
<1>2. CASE Open(p)
  <2>1. CallsOK' /\ Accounted
    BY <1>1, <1>2, OpenKeeps
  <2>2. PICK c \in Chan : chan' = [chan EXCEPT ![c].open = TRUE]
    BY <1>2 DEF Open
  <2>3. ChansOK'
    BY <1>1, <2>2, OpenChans
  <2> QED
    BY <2>1, <2>3 DEF Settled
<1>3. ASSUME NEW x \in Fd, Close(p, x)
      PROVE  Settled
  <2>1. chan' = chan
    BY <1>3 DEF Close
  <2> QED
    BY <1>1, <1>3, <2>1, CloseKeeps, SameChans DEF Settled
<1>4. ASSUME NEW x \in Fd, NEW y \in Fd, Dup(p, x, y)
      PROVE  Settled
  <2>1. chan' = chan
    BY <1>4 DEF Dup
  <2> QED
    BY <1>1, <1>4, <2>1, DupKeeps, SameChans DEF Settled
<1>5. ASSUME NEW q \in Proc, NEW xs, CtlClose(p, q, xs)
      PROVE  Settled
  <2>1. chan' = chan
    BY <1>5 DEF CtlClose
  <2> QED
    BY <1>1, <1>5, <2>1, CtlCloseKeeps, SameChans DEF Settled
<1> QED
  BY <1>2, <1>3, <1>4, <1>5

\* Processes that begin, leave their tables, are killed, or close.
LEMMA ProcSettles ==
  ASSUME FgrpInv, NEW p \in Proc, NoNewWrite,
         \/ RforkSelf(p) \/ Exit(p) \/ Notified(p) \/ Kill(p) \/ CloseStep(p)
         \/ \E q \in Proc : Rfork(p, q)
  PROVE  Settled
<1>1. CallsOK /\ ClosesOnce /\ ChansOK
  BY DEF FgrpInv
<1>2. chan' = chan
  BY DEF RforkSelf, Exit, Notified, Kill, CloseStep, Rfork
<1>3. ChansOK'
  BY <1>1, <1>2, SameChans
<1>4. CASE Exit(p) \/ Notified(p)
  BY <1>1, <1>3, <1>4, ExitKeeps DEF Settled
<1>5. CASE RforkSelf(p)
  BY <1>1, <1>3, <1>5, RforkSelfKeeps DEF Settled
<1>6. CASE Kill(p)
  BY <1>1, <1>3, <1>6, KillKeeps DEF Settled
<1>7. CASE CloseStep(p)
  BY <1>1, <1>3, <1>7, CloseStepKeeps DEF Settled
<1>8. ASSUME NEW q \in Proc, Rfork(p, q)
      PROVE  Settled
  BY <1>1, <1>3, <1>8, RforkKeeps DEF Settled
<1> QED
  BY <1>4, <1>5, <1>6, <1>7, <1>8

\* closeproc.
LEMMA KprocSettles ==
  ASSUME FgrpInv, NEW k \in Kproc, NoNewWrite,
         Loop(k) \/ Locked(k) \/ TimedOut(k) \/ Wakes(k) \/ Closed(k)
  PROVE  Settled
<1>1. CallsOK /\ ClosesOnce /\ ChansOK
  BY DEF FgrpInv
<1>2. UNCHANGED <<fds, slots, up, chan>>
  BY DEF Loop, Locked, TimedOut, Wakes, Closed
<1>3. ChansOK'
  BY <1>1, <1>2, SameChans
<1>4. \/ told' = told /\ clunkq' = clunkq
      \/ /\ clunkq # <<>> /\ clunkq' = Tail(clunkq)
         /\ told' = [told EXCEPT ![Head(clunkq)] = @ + 1]
  BY DEF Loop, Locked, TimedOut, Wakes, Closed, Body
<1>5. CASE told' = told /\ clunkq' = clunkq
  BY <1>1, <1>2, <1>3, <1>5, IdleKeeps DEF Settled
<1>6. CASE /\ clunkq # <<>> /\ clunkq' = Tail(clunkq)
           /\ told' = [told EXCEPT ![Head(clunkq)] = @ + 1]
  BY <1>1, <1>2, <1>3, <1>6, ServedKeeps DEF Settled
<1> QED
  BY <1>4, <1>5, <1>6

\* Every step.
LEMMA FgrpStep ==
  ASSUME FgrpInv, [Next]_vars
  PROVE  FgrpInv' /\ Accounted
<1>1. WriteInv /\ CallsOK /\ ChansOK /\ ClosesOnce /\ KpTypes
  BY DEF FgrpInv
<1>2. /\ WriteInv'
      /\ NoNewWrite \/ \E p \in Proc, x \in Fd, n \in 1..MaxWrite : Pwrite(p, x, n)
  BY <1>1, WriteStep
<1>3. KpTypes'
  BY <1>1, KpStep
<1>4. ASSUME NoNewWrite, ~\E p \in Proc, x \in Fd, n \in 1..MaxWrite : Pwrite(p, x, n)
      PROVE  Settled
  <2>1. CASE UNCHANGED vars
    <3>1. UNCHANGED <<fds, slots, up, chan, told, clunkq>>
      BY <2>1 DEF vars
    <3>2. ChansOK'
      BY <3>1, <1>1, <1>4, SameChans
    <3> QED
      BY <3>1, <3>2, <1>1, IdleKeeps DEF Settled
  <2>2. ASSUME NEW p \in Proc, Open(p) \/ RforkSelf(p) \/ Exit(p) \/ Notified(p) \/ Kill(p)
                               \/ CloseStep(p) \/ EndPread(p) \/ EndPwrite(p)
        PROVE  Settled
    BY <2>2, <1>4, FdSettles, ProcSettles, IoSettles
  <2>3. ASSUME NEW p \in Proc, NEW x \in Fd, Close(p, x) \/ Pread(p, x)
        PROVE  Settled
    BY <2>3, <1>4, FdSettles, IoSettles
  <2>4. ASSUME NEW p \in Proc, NEW x \in Fd, NEW y \in Fd, Dup(p, x, y)
        PROVE  Settled
    BY <2>4, <1>4, FdSettles
  <2>5. ASSUME NEW p \in Proc, NEW q \in Proc, Rfork(p, q)
        PROVE  Settled
    BY <2>5, <1>4, ProcSettles
  <2>6. ASSUME NEW p \in Proc, NEW q \in Proc, NEW xs, CtlClose(p, q, xs)
        PROVE  Settled
    BY <2>6, <1>4, FdSettles
  <2>7. ASSUME NEW k \in Kproc, Loop(k) \/ Locked(k) \/ TimedOut(k) \/ Wakes(k) \/ Closed(k)
        PROVE  Settled
    BY <2>7, <1>4, KprocSettles
  <2> QED
    BY <1>4, <2>1, <2>2, <2>3, <2>4, <2>5, <2>6, <2>7 DEF Next
<1>5. Settled
  BY <1>2, <1>4, PwriteSettles
<1>6. ClosesOnce'
  BY <1>5 DEF Settled, Accounted, ClosesOnce
<1> QED
  BY <1>2, <1>3, <1>5, <1>6 DEF Settled, FgrpInv


\* The first process has an empty table; nothing is open, told, queued or owed.
LEMMA FgrpInit ==
  ASSUME Init
  PROVE  FgrpInv
<1>1. PICK t \in Table : fds = [p \in Proc |-> IF p = First THEN t ELSE NoTable]
  BY DEF Init
<1>2. /\ slots = [r \in Table |-> Empty]
      /\ up = [p \in Proc |-> Up(IF p = First THEN "user" ELSE "unborn")]
      /\ chan = [c \in Chan |-> [open |-> FALSE, offset |-> 0, bytes |-> {},
                                 twice |-> FALSE, short |-> FALSE]]
      /\ told = [c \in Chan |-> 0] /\ clunkq = <<>>
      /\ make = FALSE /\ kp = [k \in Kproc |-> "none"] /\ ql = [held |-> NoKproc, q |-> <<>>]
  BY DEF Init
<1>3. \A op \in Ops : Up(op) \in Calls
  <2> SUFFICES ASSUME NEW op \in Ops
               PROVE  Up(op) \in Calls
    OBVIOUS
  <2>1. NoChan \in ChanOrNone /\ 0 \in 0..MaxOffset /\ 0 \in 0..MaxWrite
        /\ <<>> \in Seq(Chan)
    BY FgrpAssumption, SMTT(30) DEF ChanOrNone
  <2>2. FALSE \in BOOLEAN
    OBVIOUS
  <2> QED
    BY <2>1, <2>2, CallFields DEF Up
<1>4. \A p \in Proc : /\ up[p] = Up(IF p = First THEN "user" ELSE "unborn")
                      /\ up[p].cell = NoChan /\ up[p].cs = <<>> /\ ~up[p].begun
                      /\ up[p].op = IF p = First THEN "user" ELSE "unborn"
  <2>1. \A p \in Proc : up[p] = Up(IF p = First THEN "user" ELSE "unborn")
    BY <1>2
  <2>2. \A op : Up(op).cell = NoChan /\ Up(op).cs = <<>> /\ ~Up(op).begun /\ Up(op).op = op
    BY DEF Up
  <2> QED
    BY <2>1, <2>2
<1>5. /\ up \in [Proc -> Calls]
      /\ slots \in [Table -> [Fd -> ChanOrNone]]
      /\ fds \in [Proc -> Table \cup {NoTable}]
  <2>1. "user" \in Ops /\ "unborn" \in Ops
    BY DEF Ops
  <2>2. \A p \in Proc : up[p] \in Calls
    BY <2>1, <1>3, <1>4
  <2>3. up = [p \in Proc |-> up[p]]
    BY <1>2
  <2>4. up \in [Proc -> Calls]
    BY <2>2, <2>3
  <2>5. slots \in [Table -> [Fd -> ChanOrNone]]
    BY <1>2 DEF Empty, ChanOrNone
  <2>6. fds \in [Proc -> Table \cup {NoTable}]
    BY <1>1
  <2> QED
    BY <2>4, <2>5, <2>6
<1>6. CallsOK
  <2>1. ASSUME NEW p \in Proc
        PROVE  CallOK(up[p], fds[p])
    <3>1. fds[p] = IF p = First THEN t ELSE NoTable
      BY <1>1
    <3>2. "user" \in Tabled /\ "unborn" \notin Tabled /\ NoTable \notin Table
      BY FgrpAssumption DEF Tabled
    <3>3. up[p].op \in Tabled <=> fds[p] \in Table
      BY <1>4, <3>1, <3>2
    <3>4. up[p].op \notin {"read", "write"} /\ up[p].op # "write"
      BY <1>4
    <3> QED
      BY <1>4, <3>3, <3>4 DEF CallOK
  <2>2. \A r \in Table : slots[r] = Empty
    BY <1>2
  <2> QED
    BY <2>1, <2>2, <1>5 DEF CallsOK
<1>7. ChansOK
  <2>1. [open |-> FALSE, offset |-> 0, bytes |-> {}, twice |-> FALSE, short |-> FALSE] \in Channels
    <3>1. PICK no \in BOOLEAN : no = FALSE
      OBVIOUS
    <3>2. [open |-> no, offset |-> 0, bytes |-> {}, twice |-> no, short |-> no] \in Channels
      BY <3>1, FgrpAssumption, SMTT(30) DEF Channels
    <3> QED
      BY <3>1, <3>2
  <2>2. chan \in [Chan -> Channels]
    BY <1>2, <2>1
  <2>3. ASSUME NEW c \in Chan
        PROVE  Fits(c)
    <3>1. Taking(c) = {}
      BY <1>4 DEF Taking
    <3>2. Cardinality(Taking(c)) = 0
      BY <3>1, FS_EmptySet
    <3>3. chan[c].offset = 0
      BY <1>2
    <3> QED
      BY <3>2, <3>3, SMTT(30) DEF Fits
  <2> QED
    BY <2>2, <2>3 DEF ChansOK
<1>8. ClosesOnce
  <2>1. told \in [Chan -> {0, 1}]
    BY <1>2
  <2>2. PICK T : T = [p \in Proc |-> {}]
    OBVIOUS
  <2>3. \A p \in Proc : Todo(up[p]) = <<>> /\ T[p] = {}
    BY <1>4, <2>2 DEF Todo
  <2>4. Listed(T, {})
    <3>1. T \in [Proc -> SUBSET Chan] /\ {} \in SUBSET Chan
      BY <2>2
    <3>2. Lists(<<>>, {})
      BY ListsFew
    <3> QED
      BY <1>2, <2>3, <3>1, <3>2 DEF Listed
  <2>5. ToldSet = {}
    BY <1>2, SMTT(30) DEF ToldSet
  <2>6. Held(slots, up) = {}
    <3>1. \A r \in Table, x \in Fd : slots[r][x] = NoChan
      BY <1>2 DEF Empty
    <3>2. \A c : c # NoChan => ~InSlot(slots, c) /\ ~InCell(up, c)
      <4>1. \A p \in Proc : up[p].cell = NoChan
        BY <1>4
      <4> QED
        BY <3>1, <4>1, SMTT(30) DEF InSlot, InCell
    <3>3. \A c : c \notin Held(slots, up)
      BY <3>2, HeldBy
    <3> QED
      BY <3>3
  <2>7. Once(T, {}, Held(slots, up), ToldSet, OpenSet)
    BY <2>3, <2>5, <2>6 DEF Once
  <2> QED
    BY <2>1, <2>4, <2>7 DEF ClosesOnce, Books
<1>9. KpTypes
  <2>1. make \in BOOLEAN
    BY <1>2
  <2>2. kp \in Kprocs
    BY <1>2 DEF Kprocs, Kstates
  <2>3. ql \in Locks
    BY <1>2, SMTT(30) DEF Locks
  <2> QED
    BY <2>1, <2>2, <2>3 DEF KpTypes
<1>10. WriteInv
  BY WriteInit
<1> QED
  BY <1>6, <1>7, <1>8, <1>9, <1>10 DEF FgrpInv

\* Of a list that has each channel once.
LEMMA CountOnce ==
  ASSUME NEW s, NEW S, Lists(s, S), NEW c
  PROVE  Count(s, c) = IF c \in S THEN 1 ELSE 0
<1>1. /\ \A i, j \in DOMAIN s : s[i] = s[j] => i = j
      /\ c \in S <=> \E i \in DOMAIN s : s[i] = c
  BY DEF Lists
<1>2. PICK I : I = {i \in DOMAIN s : s[i] = c}
  OBVIOUS
<1>3. CASE c \in S
  <2>1. PICK i \in DOMAIN s : s[i] = c
    BY <1>1, <1>3
  <2>2. I = {i}
    BY <2>1, <1>1, <1>2
  <2>3. Cardinality(I) = 1
    BY <2>2, FS_Singleton
  <2> QED
    BY <1>2, <1>3, <2>3 DEF Count
<1>4. CASE c \notin S
  <2>1. I = {}
    BY <1>1, <1>2, <1>4
  <2>2. Cardinality(I) = 0
    BY <2>1, FS_EmptySet
  <2> QED
    BY <1>2, <1>4, <2>2 DEF Count
<1> QED
  BY <1>3, <1>4

\* By the books, a channel is told of, queued or owed at most once in all.
Begun(c, d, u, q) == d[c] + (Cardinality({p \in Proc : c \in Range(Todo(u[p]))}) + Count(q, c))

\* d tells what D has, q lists Q, and the calls u list T.
Entries(T, Q, D, d, u, q) ==
    /\ d \in [Chan -> {0, 1}] /\ \A b \in Chan : b \in D <=> d[b] = 1
    /\ Lists(q, Q) /\ \A p \in Proc : Lists(Todo(u[p]), T[p])

\* What is told of, queued or owed is so once, and is open and not held.
Counted(c, T, Q, H, O, d, u, q) ==
    /\ Begun(c, d, u, q) \in {0, 1}
    /\ Begun(c, d, u, q) = 1 => c \in O /\ c \notin H
    /\ c \in Q \/ (\E p \in Proc : c \in T[p]) => Begun(c, d, u, q) = 1

\* So it is by the books.
LEMMA BooksCount ==
  ASSUME NEW T, NEW Q, NEW H, NEW D, NEW O, Once(T, Q, H, D, O),
         NEW d, NEW u, NEW q, Entries(T, Q, D, d, u, q), NEW c \in Chan
  PROVE  Counted(c, T, Q, H, O, d, u, q)
<1> SUFFICES /\ Begun(c, d, u, q) \in {0, 1}
             /\ Begun(c, d, u, q) = 1 => c \in O /\ c \notin H
             /\ c \in Q \/ (\E p \in Proc : c \in T[p]) => Begun(c, d, u, q) = 1
  BY DEF Counted
<1>0. /\ d \in [Chan -> {0, 1}] /\ \A b \in Chan : b \in D <=> d[b] = 1
      /\ Lists(q, Q) /\ \A p \in Proc : Lists(Todo(u[p]), T[p])
  BY DEF Entries
<1>1. \A p \in Proc : c \in Range(Todo(u[p])) <=> c \in T[p]
  <2> SUFFICES ASSUME NEW p \in Proc
               PROVE  c \in Range(Todo(u[p])) <=> c \in T[p]
    OBVIOUS
  <2>1. PICK w : w = Todo(u[p])
    OBVIOUS
  <2>2. Lists(w, T[p])
    BY <1>0, <2>1
  <2>3. c \in T[p] <=> \E i \in DOMAIN w : w[i] = c
    BY <2>2 DEF Lists
  <2>4. c \in Range(w) <=> \E i \in DOMAIN w : w[i] = c
    BY DEF Range
  <2> QED
    BY <2>1, <2>3, <2>4
<1>2. PICK P : P = {p \in Proc : c \in Range(Todo(u[p]))}
  OBVIOUS
<1>3. \A p : p \in P <=> p \in Proc /\ c \in T[p]
  BY <1>1, <1>2
<1>4. PICK m, n : m = Cardinality(P) /\ n = Count(q, c)
  OBVIOUS
<1>5. Begun(c, d, u, q) = d[c] + (m + n)
  BY <1>2, <1>4 DEF Begun
<1>6. n = IF c \in Q THEN 1 ELSE 0
  BY <1>0, <1>4, CountOnce
<1>7. d[c] \in {0, 1} /\ (c \in D <=> d[c] = 1)
  BY <1>0
<1>8. CASE \E p \in Proc : c \in T[p]
  <2>1. PICK p \in Proc : c \in T[p]
    BY <1>8
  <2>2. P = {p}
    <3>1. \A r \in Proc : c \in T[r] => r = p
      BY <2>1 DEF Once
    <3> QED
      BY <2>1, <3>1, <1>3
  <2>3. m = 1
    BY <2>2, <1>4, FS_Singleton
  <2>4. c \notin Q /\ c \notin D /\ c \in O /\ c \notin H
    BY <2>1 DEF Once
  <2>5. Begun(c, d, u, q) = 1
    BY <2>3, <2>4, <1>5, <1>6, <1>7, SMTT(30)
  <2> QED
    BY <2>4, <2>5
<1>9. CASE ~\E p \in Proc : c \in T[p]
  <2>1. P = {}
    BY <1>3, <1>9
  <2>2. m = 0
    BY <2>1, <1>4, FS_EmptySet
  <2>3. CASE c \in Q
    <3>1. c \notin D /\ c \in O /\ c \notin H
      BY <2>3 DEF Once
    <3>2. Begun(c, d, u, q) = 1
      BY <2>2, <2>3, <3>1, <1>5, <1>6, <1>7, SMTT(30)
    <3> QED
      BY <3>1, <3>2
  <2>4. CASE c \notin Q
    <3>1. Begun(c, d, u, q) = d[c]
      BY <2>2, <2>4, <1>5, <1>6, <1>7, SMTT(30)
    <3>2. c \in D => c \in O /\ c \notin H
      BY DEF Once
    <3> QED
      BY <2>4, <3>1, <3>2, <1>7, <1>9
  <2> QED
    BY <2>3, <2>4
<1> QED
  BY <1>8, <1>9

-----------------------------------------------------------------------------
(* What follows.                                                            *)

\* Tables, calls, channels, closeprocs and the books are kept by every step.
THEOREM FgrpInvariant == Spec => []FgrpInv
<1>1. Init => FgrpInv
  BY FgrpInit
<1>2. FgrpInv /\ [Next]_vars => FgrpInv'
  BY FgrpStep
<1> QED
  BY <1>1, <1>2, PTL DEF Spec

\* Types: of the invariant's parts.
LEMMA InvTypes ==
  ASSUME FgrpInv
  PROVE  TypeOK
<1>1. CallsOK /\ ChansOK /\ ClosesOnce /\ KpTypes
  BY DEF FgrpInv
<1>2. told \in [Chan -> Nat]
  BY <1>1, SMTT(30) DEF ClosesOnce
<1>3. clunkq \in Seq(Chan)
  BY <1>1 DEF ClosesOnce, Books, Listed, Lists
<1> QED
  BY <1>1, <1>2, <1>3 DEF CallsOK, ChansOK, KpTypes, Kprocs, Locks, TypeOK

\* A device is told of a channel's close once, by one closer, and only when no
\* descriptor and no call holds the channel (cclose, closefgrp, forceclosefgrp);
\* and tables, calls, channels and the close queue have their types.
THEOREM ClosesStayKept == Spec => []ClosesKept
<1>1. ASSUME FgrpInv
      PROVE  ClosesKept
  <2>1. TypeOK
    BY <1>1, InvTypes
  <2>2. ASSUME NEW c \in Chan
        PROVE  /\ told[c] + Pending(c) <= 1
               /\ told[c] + Pending(c) = 1 => chan[c].open /\ c \notin Held(slots, up)
    <3>1. PICK T, Q : told \in [Chan -> {0, 1}] /\ Books(T, Q)
      BY <1>1 DEF FgrpInv, ClosesOnce
    <3>2. PICK H, D, O, d, u, q :
             /\ H = Held(slots, up) /\ D = ToldSet /\ O = OpenSet
             /\ d = told /\ u = up /\ q = clunkq
      OBVIOUS
    <3>3. Once(T, Q, H, D, O)
      BY <3>1, <3>2 DEF Books
    <3>4. Entries(T, Q, D, d, u, q)
      <4>1. /\ Lists(q, Q) /\ \A p \in Proc : Lists(Todo(u[p]), T[p])
            /\ d \in [Chan -> {0, 1}]
        BY <3>1, <3>2 DEF Books, Listed
      <4>2. \A b \in Chan : b \in D <=> d[b] = 1
        BY <3>2 DEF ToldSet
      <4> QED
        BY <4>1, <4>2 DEF Entries
    <3>5. /\ Begun(c, d, u, q) \in {0, 1}
          /\ Begun(c, d, u, q) = 1 => c \in O /\ c \notin H
      <4>1. Counted(c, T, Q, H, O, d, u, q)
        BY <3>3, <3>4, BooksCount
      <4> QED
        BY <4>1 DEF Counted
    <3>6. Begun(c, d, u, q) = told[c] + Pending(c)
      <4>1. Begun(c, told, up, clunkq) = told[c] + Pending(c)
        BY DEF Begun, Pending
      <4> QED
        BY <3>2, <4>1
    <3>7. Begun(c, d, u, q) <= 1
      BY <3>5, SMTT(30)
    <3>8. c \in O => chan[c].open
      BY <3>2 DEF OpenSet
    <3> QED
      BY <3>2, <3>5, <3>6, <3>7, <3>8
  <2> QED
    BY <2>1, <2>2 DEF ClosesKept, ToldOnce
<1> QED
  BY <1>1, FgrpInvariant, PTL

\* When the last reference to a channel goes with a close, a dup, an rfork or an
\* exit, the close is made or to be made at once (Fds::close, dup, closefgrp).
THEOREM LastIsAlwaysTold == Spec => LastIsTold
<1> DEFINE Step ==
      \A c \in Chan :
         c \in Held(slots, up) /\ c \notin Held(slots', up') =>
            \/ (told[c] + Pending(c))' = 1
            \/ \E p \in Proc : up[p].cell = c /\ up'[p].cell = NoChan
<1>1. ASSUME FgrpInv, [Next]_vars
      PROVE  Step
  <2> SUFFICES ASSUME NEW c \in Chan, c \in Held(slots, up), c \notin Held(slots', up'),
                      ~\E p \in Proc : up[p].cell = c /\ up'[p].cell = NoChan
               PROVE  (told[c] + Pending(c))' = 1
    OBVIOUS
  <2>1. Accounted
    BY <1>1, FgrpStep
  <2>2. PICK T, Q : Books(T, Q)' /\ Covered(T, Q)
    BY <2>1 DEF Accounted
  <2>3. PICK H, D, O, d, u, q :
           /\ H = Held(slots, up)' /\ D = ToldSet' /\ O = OpenSet'
           /\ d = told' /\ u = up' /\ q = clunkq'
    OBVIOUS
  <2>4. Once(T, Q, H, D, O)
    BY <2>2, <2>3 DEF Books
  <2>5. Entries(T, Q, D, d, u, q)
    <3>1. /\ Lists(q, Q) /\ \A p \in Proc : Lists(Todo(u[p]), T[p])
          /\ d \in [Chan -> {0, 1}]
      BY <2>1, <2>2, <2>3 DEF Accounted, Books, Listed
    <3>2. \A b \in Chan : b \in D <=> d[b] = 1
      BY <2>3 DEF ToldSet
    <3> QED
      BY <3>1, <3>2 DEF Entries
  <2>6. c \in Q \/ \E p \in Proc : c \in T[p]
    BY <2>2 DEF Covered
  <2>7. Begun(c, d, u, q) = 1
    <3>1. Counted(c, T, Q, H, O, d, u, q)
      BY <2>4, <2>5, BooksCount
    <3> QED
      BY <3>1, <2>6 DEF Counted
  <2>8. Begun(c, d, u, q) = (told[c] + Pending(c))'
    <3>1. Begun(c, told', up', clunkq') = (told[c] + Pending(c))'
      BY DEF Begun, Pending
    <3> QED
      BY <2>3, <3>1
  <2> QED
    BY <2>7, <2>8
<1> QED
  BY <1>1, FgrpInvariant, PTL DEF Spec, LastIsTold

\* What a killed process queues finds a closeproc, and none sleeps, times out or
\* exits while something is queued; only a ctl file's close queues without one
\* (ccloseq, closeproc).
THEOREM QueueStaysTended == Spec => TendedUnlessCtl
<1> DEFINE Step ==
      QueueTended => QueueTended' \/ \E p, q \in Proc, xs \in SUBSET Fd : CtlClose(p, q, xs)
<1>1. ASSUME FgrpInv, [Next]_vars
      PROVE  Step
  BY <1>1, TendedStep DEF FgrpInv
<1> QED
  BY <1>1, FgrpInvariant, PTL DEF Spec, TendedUnlessCtl
=============================================================================
