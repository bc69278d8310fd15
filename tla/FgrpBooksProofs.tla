-------------------------- MODULE FgrpBooksProofs --------------------------
(***************************************************************************)
(* The books of closes, for any number of processes, tables and channels,   *)
(* and that each call and each step of closeproc keeps them.  Module        *)
(* FgrpProofs does writes and the close queue and states the theorems.      *)
(*                                                                         *)
(* Each process has a set of channels it is to close, closeproc another,    *)
(* and the devices were told of a third.  No channel is in two of them, or  *)
(* in one while a table or a call holds it; and a step that takes the last  *)
(* reference puts the channel in one of them.                               *)
(***************************************************************************)
EXTENDS Fgrp, FiniteSetTheorems, TLAPS

\* The prover of every step that names no other.
USE ZenonT(40)
-----------------------------------------------------------------------------
(* Lists of channels to close.                                              *)

\* s lists the channels of S, each once.
Lists(s, S) ==
    /\ s \in Seq(Chan)
    /\ \A i, j \in DOMAIN s : s[i] = s[j] => i = j
    /\ \A c : c \in S <=> \E i \in DOMAIN s : s[i] = c

\* The channels in the slots of a table.
In(f) == {f[x] : x \in Fd} \ {NoChan}
-----------------------------------------------------------------------------
\* A set of numbers has a least one ...
LEMMA Least ==
  ASSUME NEW T, T \subseteq Nat, T # {}
  PROVE  \E n \in T : \A m \in T : n <= m
<1> DEFINE R == {ss \in Nat \X Nat : ss[1] < ss[2]}
<1>1. R = OpToRel(<, Nat)
  BY DEF OpToRel
<1>2. IsWellFoundedOn(R, Nat)
  BY <1>1, NatLessThanWellFounded
<1>3. \A m, n \in Nat : m < n => <<m, n>> \in R
  OBVIOUS
<1> HIDE DEF R
<1>4. PICK n \in T : \A m \in T : ~ (<<m, n>> \in R)
  BY <1>2, WFMin
<1>5. \A m \in T : ~ (m < n) /\ m \in Nat /\ n \in Nat
  BY <1>3, <1>4
<1>6. \A m \in T : n <= m
  BY <1>5, SMTT(30)
<1> QED
  BY <1>6

\* ... and one of slots a last.
LEMMA LastSlot ==
  ASSUME NEW S \in SUBSET Fd, S # {}
  PROVE  \E x \in S : \A y \in S : y <= x
<1>1. Nfd \in Nat /\ \A y \in S : y \in Nat /\ y <= Nfd
  BY FgrpAssumption, SMTT(30) DEF Fd
<1>2. PICK T : T = {Nfd - y : y \in S}
  OBVIOUS
<1>3. T \subseteq Nat /\ T # {}
  BY <1>1, <1>2, SMTT(30)
<1>4. PICK n \in T : \A m \in T : n <= m
  BY <1>3, Least
<1>5. PICK x \in S : n = Nfd - x
  BY <1>2, <1>4
<1>6. \A y \in S : n <= Nfd - y
  BY <1>2, <1>4
<1> QED
  BY <1>1, <1>5, <1>6, SMTT(30)

\* The channels of a table are listed, each once.
LEMMA InOrderLists ==
  ASSUME NEW f \in [Fd -> ChanOrNone]
  PROVE  Lists(InOrder(f), In(f))
<1> DEFINE D == {x \in Fd : f[x] # NoChan /\ \A y \in Fd : f[y] = f[x] => y <= x}
           pos(i) == CHOOSE x \in D : Cardinality({y \in D : y <= x}) = i
<1>0. InOrder(f) = [i \in 1 .. Cardinality(D) |-> f[pos(i)]]
  BY DEF InOrder
<1>1. \A x : x \in D <=> /\ x \in Fd /\ f[x] # NoChan
                        /\ \A y \in Fd : f[y] = f[x] => y <= x
  OBVIOUS
<1> HIDE DEF D
<1>2. D \in SUBSET Fd /\ \A x \in Fd : x \in Nat
  BY <1>1, FgrpAssumption, SMTT(30) DEF Fd
<1>3. IsFiniteSet(D)
  <2>1. IsFiniteSet(Fd)
    <3>1. 0 \in Int /\ Nfd - 1 \in Int
      BY FgrpAssumption, SMTT(30)
    <3> QED
      BY <3>1, FS_Interval DEF Fd
  <2> QED
    BY <2>1, <1>2, FS_Subset
<1>4. PICK n \in Nat : n = Cardinality(D)
  BY <1>3, FS_CardinalityType
<1> DEFINE Upto(x) == {y \in D : y <= x}
<1>5. PICK rank : rank = [x \in D |-> Cardinality(Upto(x))]
  OBVIOUS
<1>6. ASSUME NEW x \in D
      PROVE  IsFiniteSet(Upto(x)) /\ rank[x] = Cardinality(Upto(x)) /\ rank[x] \in 1 .. n
  <2>1. Upto(x) \in SUBSET D /\ x \in Upto(x)
    BY <1>2, SMTT(30)
  <2>2. rank[x] = Cardinality(Upto(x))
    BY <1>5
  <2> HIDE DEF Upto
  <2>3. /\ IsFiniteSet(Upto(x)) /\ Cardinality(Upto(x)) <= n
        /\ Cardinality(Upto(x)) \in Nat
    BY <2>1, <1>3, <1>4, FS_Subset, FS_CardinalityType
  <2>4. Cardinality(Upto(x)) # 0
    BY <2>1, <2>3, FS_EmptySet
  <2> QED
    BY <2>2, <2>3, <2>4, SMTT(30)
<1>7. ASSUME NEW x \in D, NEW z \in D, x < z
      PROVE  rank[x] # rank[z]
  <2>1. Upto(x) \in SUBSET Upto(z) /\ z \in Upto(z) /\ z \notin Upto(x)
    BY <1>2, <1>7, SMTT(30)
  <2>2. /\ IsFiniteSet(Upto(z)) /\ rank[z] = Cardinality(Upto(z))
        /\ rank[x] = Cardinality(Upto(x))
    BY <1>6
  <2> HIDE DEF Upto
  <2> QED
    BY <2>1, <2>2, FS_Subset
<1>8. \A x, z \in D : rank[x] = rank[z] => x = z
  BY <1>2, <1>7, SMTT(30)
<1>9. \A i \in 1 .. n : \E x \in D : rank[x] = i
  <2>1. rank \in [D -> 1 .. n]
    BY <1>5, <1>6
  <2>2. rank \in Injection(D, 1 .. n)
    BY <2>1, <1>8 DEF Injection, IsInjective
  <2>3. IsFiniteSet(1 .. n) /\ Cardinality(1 .. n) = n
    BY FS_Interval, SMTT(30)
  <2>4. rank \in Surjection(D, 1 .. n)
    BY <2>2, <2>3, <1>4, FS_Injection
  <2> QED
    BY <2>4 DEF Surjection
<1>10. ASSUME NEW i \in 1 .. n
       PROVE  pos(i) \in D /\ rank[pos(i)] = i
  <2>1. PICK x \in D : rank[x] = i
    BY <1>9
  <2>2. Cardinality({y \in D : y <= x}) = i
    BY <2>1, <1>6
  <2>3. pos(i) \in D /\ Cardinality({y \in D : y <= pos(i)}) = i
    BY <2>2
  <2> QED
    BY <2>3, <1>6
<1>11. InOrder(f) = [i \in 1 .. n |-> f[pos(i)]]
  BY <1>0, <1>4
<1> HIDE DEF pos, Upto
<1>12. PICK q : q = InOrder(f)
  OBVIOUS
<1>13. DOMAIN q = 1 .. n /\ \A i \in 1 .. n : q[i] = f[pos(i)]
  BY <1>11, <1>12
<1>14. \A i \in 1 .. n : pos(i) \in Fd /\ f[pos(i)] \in Chan
  BY <1>1, <1>10 DEF ChanOrNone
<1>15. q \in Seq(Chan)
  BY <1>11, <1>12, <1>14, SMTT(30)
<1>16. \A i, j \in DOMAIN q : q[i] = q[j] => i = j
  <2> SUFFICES ASSUME NEW i \in 1 .. n, NEW j \in 1 .. n, q[i] = q[j]
               PROVE  i = j
    BY <1>13
  <2>1. f[pos(i)] = f[pos(j)] /\ pos(i) \in D /\ pos(j) \in D
    BY <1>10, <1>13
  <2>2. pos(i) <= pos(j) /\ pos(j) <= pos(i)
    BY <2>1, <1>1, <1>2
  <2>3. pos(i) = pos(j)
    BY <2>1, <2>2, <1>2, SMTT(30)
  <2> QED
    BY <2>3, <1>10
<1>17. ASSUME NEW c
       PROVE  c \in In(f) <=> \E i \in DOMAIN q : q[i] = c
  <2>1. ASSUME NEW i \in 1 .. n, q[i] = c
        PROVE  c \in In(f)
    <3>1. c = f[pos(i)] /\ pos(i) \in Fd /\ c \in Chan
      BY <2>1, <1>13, <1>14
    <3> QED
      BY <3>1, FgrpAssumption DEF In
  <2>2. ASSUME c \in In(f)
        PROVE  \E i \in 1 .. n : q[i] = c
    <3>1. PICK S : S = {x \in Fd : f[x] = c}
      OBVIOUS
    <3>2. S \in SUBSET Fd /\ S # {} /\ c # NoChan
      BY <2>2, <3>1 DEF In
    <3>3. PICK x \in S : \A y \in S : y <= x
      BY <3>2, LastSlot
    <3>4. x \in D /\ f[x] = c
      BY <3>1, <3>2, <3>3, <1>1
    <3>5. PICK i \in 1 .. n : i = rank[x]
      BY <3>4, <1>6
    <3>6. pos(i) = x
      BY <3>4, <3>5, <1>8, <1>10
    <3> QED
      BY <3>4, <3>6, <1>13
  <2> QED
    BY <2>1, <2>2, <1>13
<1> QED
  BY <1>12, <1>15, <1>16, <1>17 DEF Lists

\* The references of a table go: the channels nobody holds then.
LEMMA LastrefsLists ==
  ASSUME NEW f \in [Fd -> ChanOrNone], NEW s, NEW u
  PROVE  Lists(Lastrefs(f, s, u), In(f) \ Held(s, u))
<1>1. PICK h : h = Held(s, u)
  OBVIOUS
<1>2. PICK g : g = [x \in Fd |-> IF f[x] \in h THEN NoChan ELSE f[x]]
  OBVIOUS
<1>3. g \in [Fd -> ChanOrNone]
  BY <1>2 DEF ChanOrNone
<1>4. In(g) = In(f) \ h
  BY <1>2 DEF In
<1>5. Lists(InOrder(g), In(g))
  BY <1>3, InOrderLists
<1>6. Lastrefs(f, s, u) = InOrder(g)
  BY <1>1, <1>2 DEF Lastrefs
<1> QED
  BY <1>1, <1>4, <1>5, <1>6

\* The empty list, and one channel.
LEMMA ListsFew ==
  /\ Lists(<<>>, {})
  /\ \A c \in Chan : Lists(<<c>>, {c})
BY SMTT(30) DEF Lists

\* One reference goes.
LEMMA LastrefLists ==
  ASSUME NEW c \in Chan, NEW s, NEW u
  PROVE  Lists(Lastref(c, s, u), {c} \ Held(s, u))
<1>1. CASE c \in Held(s, u)
  <2>1. Lastref(c, s, u) = <<>> /\ {c} \ Held(s, u) = {}
    BY <1>1 DEF Lastref
  <2> QED
    BY <2>1, ListsFew
<1>2. CASE c \notin Held(s, u)
  <2>1. Lastref(c, s, u) = <<c>>
    BY <1>2 DEF Lastref
  <2>2. {c} \ Held(s, u) = {c}
    BY <1>2
  <2> QED
    BY <2>1, <2>2, ListsFew
<1> QED
  BY <1>1, <1>2

\* A list without its first.
LEMMA ListsTail ==
  ASSUME NEW s, NEW S, Lists(s, S), s # <<>>
  PROVE  Head(s) \in S /\ Head(s) \in Chan /\ Lists(Tail(s), S \ {Head(s)})
<1>1. /\ s \in Seq(Chan) /\ \A i, j \in DOMAIN s : s[i] = s[j] => i = j
      /\ \A c : c \in S <=> \E i \in DOMAIN s : s[i] = c
  BY DEF Lists
<1>2. PICK t, n : t = Tail(s) /\ n = Len(s)
  OBVIOUS
<1>3. /\ n \in Nat \ {0} /\ DOMAIN s = 1 .. n /\ Head(s) = s[1] /\ s[1] \in Chan
      /\ t \in Seq(Chan) /\ DOMAIN t = 1 .. (n - 1)
      /\ \A i \in 1 .. (n - 1) : t[i] = s[i + 1]
  BY <1>1, <1>2, SMTT(30)
<1>4. \A i, j \in DOMAIN t : t[i] = t[j] => i = j
  <2> SUFFICES ASSUME NEW i \in 1 .. (n - 1), NEW j \in 1 .. (n - 1), t[i] = t[j]
               PROVE  i = j
    BY <1>3
  <2>1. i + 1 \in DOMAIN s /\ j + 1 \in DOMAIN s /\ s[i + 1] = s[j + 1]
    BY <1>3, SMTT(30)
  <2>2. i + 1 = j + 1
    BY <2>1, <1>1
  <2> QED
    BY <2>2, SMTT(30)
<1>5. ASSUME NEW c
      PROVE  c \in S \ {Head(s)} <=> \E i \in DOMAIN t : t[i] = c
  <2>1. ASSUME NEW i \in 1 .. (n - 1), t[i] = c
        PROVE  c \in S \ {s[1]}
    <3>1. i + 1 \in DOMAIN s /\ 1 \in DOMAIN s /\ s[i + 1] = c /\ i + 1 # 1
      BY <1>3, <2>1, SMTT(30)
    <3> QED
      BY <3>1, <1>1, SMTT(30)
  <2>2. ASSUME c \in S \ {s[1]}
        PROVE  \E i \in 1 .. (n - 1) : t[i] = c
    <3>1. PICK i \in 1 .. n : s[i] = c
      BY <1>1, <1>3, <2>2
    <3>2. i # 1
      BY <3>1, <2>2
    <3>3. i - 1 \in 1 .. (n - 1) /\ (i - 1) + 1 = i
      BY <3>2, <1>3, SMTT(30)
    <3>4. t[i - 1] = s[(i - 1) + 1]
      BY <3>3, <1>3
    <3> QED
      BY <3>1, <3>3, <3>4
  <2> QED
    BY <2>1, <2>2, <1>3
<1>6. Head(s) \in S
  BY <1>1, <1>3, SMTT(30)
<1> QED
  BY <1>2, <1>3, <1>4, <1>5, <1>6, SMTT(30) DEF Lists

\* Two lists of different channels, one after the other.
LEMMA ListsJoin ==
  ASSUME NEW s, NEW S, NEW t, NEW T, Lists(s, S), Lists(t, T), S \cap T = {}
  PROVE  Lists(s \o t, S \cup T)
<1>1. /\ s \in Seq(Chan) /\ \A i, j \in DOMAIN s : s[i] = s[j] => i = j
      /\ \A c : c \in S <=> \E i \in DOMAIN s : s[i] = c
  BY DEF Lists
<1>2. /\ t \in Seq(Chan) /\ \A i, j \in DOMAIN t : t[i] = t[j] => i = j
      /\ \A c : c \in T <=> \E i \in DOMAIN t : t[i] = c
  BY DEF Lists
<1>3. PICK r, m, n : r = s \o t /\ m = Len(s) /\ n = Len(t)
  OBVIOUS
<1>4. /\ m \in Nat /\ n \in Nat /\ DOMAIN s = 1 .. m /\ DOMAIN t = 1 .. n
      /\ r \in Seq(Chan) /\ DOMAIN r = 1 .. (m + n)
  BY <1>1, <1>2, <1>3, SMTT(30)
<1>5. \A i \in 1 .. (m + n) : r[i] = IF i <= m THEN s[i] ELSE t[i - m]
  BY <1>1, <1>2, <1>3, SMTT(30)
<1>6. /\ \A i \in 1 .. m : r[i] = s[i] /\ s[i] \in S
      /\ \A i \in 1 .. n : r[m + i] = t[i] /\ t[i] \in T
  <2>1. \A i \in 1 .. m : i \in 1 .. (m + n) /\ i <= m
    BY <1>4, SMTT(30)
  <2>2. \A i \in 1 .. n : m + i \in 1 .. (m + n) /\ ~(m + i <= m) /\ (m + i) - m = i
    BY <1>4, SMTT(30)
  <2>3. \A i \in 1 .. m : r[i] = s[i]
    BY <2>1, <1>5
  <2>4. \A i \in 1 .. n : r[m + i] = t[i]
    BY <2>2, <1>5
  <2> QED
    BY <2>3, <2>4, <1>1, <1>2, <1>4
<1>7. \A i \in 1 .. (m + n) : i \in 1 .. m \/ \E k \in 1 .. n : i = m + k
  <2> SUFFICES ASSUME NEW i \in 1 .. (m + n), i \notin 1 .. m
               PROVE  \E k \in 1 .. n : i = m + k
    OBVIOUS
  <2>1. i - m \in 1 .. n /\ i = m + (i - m)
    BY <1>4, SMTT(30)
  <2> QED
    BY <2>1
<1>8. \A i, j \in DOMAIN r : r[i] = r[j] => i = j
  <2> SUFFICES ASSUME NEW i \in 1 .. (m + n), NEW j \in 1 .. (m + n), r[i] = r[j]
               PROVE  i = j
    BY <1>4
  <2>1. CASE i \in 1 .. m /\ j \in 1 .. m
    BY <2>1, <1>1, <1>4, <1>6
  <2>2. ASSUME NEW k \in 1 .. n, i = m + k, j \in 1 .. m
        PROVE  FALSE
    BY <2>2, <1>6
  <2>3. ASSUME NEW k \in 1 .. n, j = m + k, i \in 1 .. m
        PROVE  FALSE
    BY <2>3, <1>6
  <2>4. ASSUME NEW k \in 1 .. n, NEW l \in 1 .. n, i = m + k, j = m + l
        PROVE  i = j
    <3>1. t[k] = t[l]
      BY <2>4, <1>6
    <3> QED
      BY <3>1, <2>4, <1>2, <1>4
  <2> QED
    BY <2>1, <2>2, <2>3, <2>4, <1>7
<1>9. ASSUME NEW c
      PROVE  c \in S \cup T <=> \E i \in DOMAIN r : r[i] = c
  <2>1. ASSUME NEW i \in 1 .. (m + n), r[i] = c
        PROVE  c \in S \cup T
    BY <2>1, <1>6, <1>7
  <2>2. ASSUME c \in S
        PROVE  \E i \in 1 .. (m + n) : r[i] = c
    <3>1. PICK i \in 1 .. m : s[i] = c
      BY <2>2, <1>1, <1>4
    <3>2. i \in 1 .. (m + n) /\ r[i] = c
      BY <3>1, <1>4, <1>6, SMTT(30)
    <3> QED
      BY <3>2
  <2>3. ASSUME c \in T
        PROVE  \E i \in 1 .. (m + n) : r[i] = c
    <3>1. PICK i \in 1 .. n : t[i] = c
      BY <2>3, <1>2, <1>4
    <3>2. m + i \in 1 .. (m + n) /\ r[m + i] = c
      BY <3>1, <1>4, <1>6, SMTT(30)
    <3> QED
      BY <3>2
  <2> QED
    BY <2>1, <2>2, <2>3, <1>4
<1> QED
  BY <1>3, <1>4, <1>8, <1>9 DEF Lists
-----------------------------------------------------------------------------
(* What is told, queued and owed.                                           *)

\* T is what each call is to close, Q what closeproc is, D what devices were
\* told of; H is what is held and O what is open: no channel is in two of
\* them, but that what is told, queued, owed or held is open.
Once(T, Q, H, D, O) ==
    /\ \A p, q \in Proc, c \in Chan : c \in T[p] /\ c \in T[q] => p = q
    /\ \A p \in Proc, c \in Chan : c \in T[p] => c \notin Q /\ c \notin D /\ c \in O /\ c \notin H
    /\ \A c \in Chan : c \in Q => c \notin D /\ c \in O /\ c \notin H
    /\ \A c \in Chan : c \in D => c \in O /\ c \notin H
    /\ \A c \in Chan : c \in H => c \in O

\* References go, and at most what none is left to is owed by one call.
LEMMA OnceOwed ==
  ASSUME NEW T, NEW Q, NEW H, NEW D, NEW O, Once(T, Q, H, D, O),
         NEW T2, NEW H2, NEW p \in Proc,
         \A q \in Proc : q # p => T2[q] = T[q],
         \A c \in Chan : c \in H2 => c \in H,
         \A c \in Chan : c \in T2[p] => c \in T[p] \/ (c \in H /\ c \notin H2)
  PROVE  Once(T2, Q, H2, D, O)
BY DEF Once

\* The same, with what none is left to queued.
LEMMA OnceQueued ==
  ASSUME NEW T, NEW Q, NEW H, NEW D, NEW O, Once(T, Q, H, D, O),
         NEW Q2, NEW H2,
         \A c \in Chan : c \in H2 => c \in H,
         \A c \in Chan : c \in Q2 => c \in Q \/ (c \in H /\ c \notin H2)
  PROVE  Once(T, Q2, H2, D, O)
BY DEF Once

\* A channel is opened, and held ...
LEMMA OnceOpened ==
  ASSUME NEW T, NEW Q, NEW H, NEW D, NEW O, Once(T, Q, H, D, O),
         NEW c \in Chan, c \notin O, NEW H2, NEW O2,
         \A b \in Chan : b \in O2 <=> b \in O \/ b = c,
         \A b \in Chan : b \in H2 => b \in H \/ b = c
  PROVE  Once(T, Q, H2, D, O2)
BY DEF Once

\* ... or owed at once.
LEMMA OnceReturned ==
  ASSUME NEW T, NEW Q, NEW H, NEW D, NEW O, Once(T, Q, H, D, O),
         NEW c \in Chan, c \notin O, NEW T2, NEW O2, NEW p \in Proc,
         \A b \in Chan : b \in O2 <=> b \in O \/ b = c,
         \A q \in Proc : q # p => T2[q] = T[q],
         T2[p] = {c}
  PROVE  Once(T2, Q, H, D, O2)
BY DEF Once

\* A call hands over what it owes, or tells the device.
HandsOver(p, T, Q, D, T2, Q2, D2) ==
    /\ \A q \in Proc : q # p => T2[q] = T[q]
    /\ \A c \in Chan : c \in T2[p] => c \in T[p] /\ c \notin Q2 /\ c \notin D2
    /\ \A c \in Chan : c \in Q2 => c \in Q \/ (c \in T[p] /\ c \notin D2)
    /\ \A c \in Chan : c \in D2 => c \in D \/ c \in T[p]

\* It does so with each channel once.
LEMMA OnceClosed ==
  ASSUME NEW T, NEW Q, NEW H, NEW D, NEW O, Once(T, Q, H, D, O),
         NEW T2, NEW Q2, NEW D2, NEW p \in Proc, HandsOver(p, T, Q, D, T2, Q2, D2)
  PROVE  Once(T2, Q2, H, D2, O)
BY DEF Once, HandsOver

\* closeproc takes a channel from the queue and tells its device.
LEMMA OnceServed ==
  ASSUME NEW T, NEW Q, NEW H, NEW D, NEW O, Once(T, Q, H, D, O),
         NEW Q2, NEW D2, NEW c \in Q,
         \A b \in Chan : b \in Q2 => b \in Q /\ b # c,
         \A b \in Chan : b \in D2 => b \in D \/ b = c
  PROVE  Once(T, Q2, H, D2, O)
BY DEF Once
-----------------------------------------------------------------------------
(* Calls.                                                                   *)

\* The calls of a process with a table, and those in which nothing is to be
\* closed.
Tabled == {"user", "read", "write", "close", "rfork"}
Clear == {"unborn", "user", "read", "write", "dead"}

\* A call u of a process whose table is t.
CallOK(u, t) ==
    /\ u.op \in Tabled <=> t \in Table
    /\ u.op \in {"read", "write"} <=> u.cell # NoChan
    /\ u.op = "write" => u.at + u.n <= MaxOffset
    /\ u.begun => u.cs # <<>>
    /\ u.op \in Clear => u.cs = <<>>

\* Tables and calls have their types; a table no process has is empty.
CallsOK ==
    /\ fds \in [Proc -> Table \cup {NoTable}]
    /\ slots \in [Table -> [Fd -> ChanOrNone]]
    /\ up \in [Proc -> Calls]
    /\ \A p \in Proc : CallOK(up[p], fds[p])
    /\ \A t \in Table : Unused(t) => slots[t] = Empty

\* p's call becomes v, and no other changes.
SetCall(u, p, v) ==
    /\ v \in Calls
    /\ up' = [u EXCEPT ![p] = v]
    /\ up' \in [Proc -> Calls]
    /\ up'[p] = v
    /\ \A q \in Proc : q # p => up'[q] = u[q]

\* A record is a call if its fields have their types.
LEMMA CallFields ==
  ASSUME NEW op \in Ops, NEW cell \in ChanOrNone, NEW at \in 0..MaxOffset,
         NEW n \in 0..MaxWrite, NEW cs \in Seq(Chan), NEW begun \in BOOLEAN,
         NEW killed \in BOOLEAN
  PROVE  [op |-> op, cell |-> cell, at |-> at, n |-> n, cs |-> cs, begun |-> begun,
          killed |-> killed] \in Calls
BY DEF Calls

\* The fields of a call.
LEMMA FieldTypes ==
  ASSUME NEW v \in Calls
  PROVE  /\ v.op \in Ops /\ v.cell \in ChanOrNone /\ v.at \in 0..MaxOffset
         /\ v.n \in 0..MaxWrite /\ v.cs \in Seq(Chan) /\ v.begun \in BOOLEAN
         /\ v.killed \in BOOLEAN
         /\ v = [op |-> v.op, cell |-> v.cell, at |-> v.at, n |-> v.n, cs |-> v.cs,
                  begun |-> v.begun, killed |-> v.killed]
BY DEF Calls

\* The call a process is in once it goes on to close cs.
ClosingCall(v, then, cs, killed) ==
    [op |-> IF cs # <<>> THEN then ELSE IF then \in Ends THEN "dead" ELSE "user",
     cell |-> v.cell, at |-> v.at, n |-> v.n, cs |-> cs, begun |-> FALSE,
     killed |-> killed]

\* Closing makes p's call that, and leaves the others.
LEMMA ClosingSets ==
  ASSUME NEW u \in [Proc -> Calls], NEW p \in Proc, NEW then \in Ops,
         NEW cs \in Seq(Chan), Closing(u, p, then, cs)
  PROVE  SetCall(u, p, ClosingCall(u[p], then, cs, u[p].killed))
<1>1. PICK op : op = IF cs # <<>> THEN then ELSE IF then \in Ends THEN "dead" ELSE "user"
  OBVIOUS
<1>2. op \in Ops
  BY <1>1 DEF Ops
<1>3. PICK v \in Calls : v = u[p]
  OBVIOUS
<1>4. /\ v.op \in Ops /\ v.cell \in ChanOrNone /\ v.at \in 0..MaxOffset
      /\ v.n \in 0..MaxWrite /\ v.cs \in Seq(Chan) /\ v.begun \in BOOLEAN
      /\ v.killed \in BOOLEAN
  BY FieldTypes
<1>5. v = [op |-> v.op, cell |-> v.cell, at |-> v.at, n |-> v.n, cs |-> v.cs,
           begun |-> v.begun, killed |-> v.killed]
  BY FieldTypes
<1>6. up' = [u EXCEPT ![p] = [[[u[p] EXCEPT !.op = op] EXCEPT !.cs = cs] EXCEPT !.begun = FALSE]]
  BY <1>1 DEF Closing
<1>7. PICK w : w = [op |-> op, cell |-> v.cell, at |-> v.at, n |-> v.n, cs |-> cs,
                    begun |-> FALSE, killed |-> v.killed]
  OBVIOUS
<1>8. [[[v EXCEPT !.op = op] EXCEPT !.cs = cs] EXCEPT !.begun = FALSE] = w
  <2>1. PICK v1 : v1 = [v EXCEPT !.op = op]
    OBVIOUS
  <2>2. v1 = [op |-> op, cell |-> v.cell, at |-> v.at, n |-> v.n, cs |-> v.cs,
              begun |-> v.begun, killed |-> v.killed]
    BY <1>5, <2>1
  <2>3. PICK v2 : v2 = [v1 EXCEPT !.cs = cs]
    OBVIOUS
  <2>4. v2 = [op |-> op, cell |-> v.cell, at |-> v.at, n |-> v.n, cs |-> cs,
              begun |-> v.begun, killed |-> v.killed]
    BY <2>2, <2>3
  <2>5. PICK no : no = FALSE
    OBVIOUS
  <2>6. [v2 EXCEPT !.begun = no] =
            [op |-> op, cell |-> v.cell, at |-> v.at, n |-> v.n, cs |-> cs,
             begun |-> no, killed |-> v.killed]
    BY <2>4, SMTT(30)
  <2> QED
    BY <2>1, <2>3, <2>5, <2>6, <1>7
<1>9. w \in Calls
  BY <1>2, <1>4, <1>7, CallFields
<1>10. up' = [u EXCEPT ![p] = w]
  BY <1>3, <1>6, <1>8
<1>11. /\ up' \in [Proc -> Calls] /\ up'[p] = w
       /\ \A q \in Proc : q # p => up'[q] = u[q]
  BY <1>9, <1>10
<1>12. w = ClosingCall(u[p], then, cs, u[p].killed)
  BY <1>1, <1>3, <1>7 DEF ClosingCall
<1> QED
  BY <1>9, <1>10, <1>11, <1>12 DEF SetCall

\* The first four fields of a call change, by Enter or Drop.
Entered(v, op, cell, at, n) ==
    [[[[v EXCEPT !.op = op] EXCEPT !.cell = cell] EXCEPT !.at = at] EXCEPT !.n = n]

\* What a call is then, field by field.
LEMMA FirstFields ==
  ASSUME NEW v \in Calls, NEW op, NEW cell, NEW at, NEW n
  PROVE  Entered(v, op, cell, at, n) =
         [op |-> op, cell |-> cell, at |-> at, n |-> n, cs |-> v.cs, begun |-> v.begun,
          killed |-> v.killed]
<1>1. v = [op |-> v.op, cell |-> v.cell, at |-> v.at, n |-> v.n, cs |-> v.cs,
           begun |-> v.begun, killed |-> v.killed]
  BY FieldTypes
<1>2. PICK v1 : v1 = [v EXCEPT !.op = op]
  OBVIOUS
<1>3. v1 = [op |-> op, cell |-> v.cell, at |-> v.at, n |-> v.n, cs |-> v.cs,
            begun |-> v.begun, killed |-> v.killed]
  BY <1>1, <1>2
<1>4. PICK v2 : v2 = [v1 EXCEPT !.cell = cell]
  OBVIOUS
<1>5. v2 = [op |-> op, cell |-> cell, at |-> v.at, n |-> v.n, cs |-> v.cs,
            begun |-> v.begun, killed |-> v.killed]
  BY <1>3, <1>4
<1>6. PICK v3 : v3 = [v2 EXCEPT !.at = at]
  OBVIOUS
<1>7. v3 = [op |-> op, cell |-> cell, at |-> at, n |-> v.n, cs |-> v.cs,
            begun |-> v.begun, killed |-> v.killed]
  BY <1>5, <1>6
<1>8. [v3 EXCEPT !.n = n] = [op |-> op, cell |-> cell, at |-> at, n |-> n, cs |-> v.cs,
                             begun |-> v.begun, killed |-> v.killed]
  BY <1>7, SMTT(30)
<1> QED
  BY <1>2, <1>4, <1>6, <1>8 DEF Entered

\* A read or a write ends: p's call is as before it.
LEMMA DropSets ==
  ASSUME up \in [Proc -> Calls], NEW p \in Proc, Drop(p)
  PROVE  SetCall(up, p, [op |-> "user", cell |-> NoChan, at |-> 0, n |-> 0,
                         cs |-> up[p].cs, begun |-> up[p].begun, killed |-> up[p].killed])
<1>1. PICK v \in Calls : v = up[p]
  OBVIOUS
<1>2. PICK w : w = [op |-> "user", cell |-> NoChan, at |-> 0, n |-> 0,
                    cs |-> v.cs, begun |-> v.begun, killed |-> v.killed]
  OBVIOUS
<1>3. up' = [up EXCEPT ![p] = Entered(up[p], "user", NoChan, 0, 0)]
  BY DEF Drop, Entered
<1>a. Entered(v, "user", NoChan, 0, 0) = w
  BY <1>2, FirstFields, SMTT(30)
<1>4. up' = [up EXCEPT ![p] = w]
  BY <1>1, <1>3, <1>a
<1>5. w \in Calls
  <2>1. /\ "user" \in Ops /\ NoChan \in ChanOrNone /\ 0 \in 0..MaxOffset
        /\ 0 \in 0..MaxWrite
    BY FgrpAssumption, SMTT(30) DEF Ops, ChanOrNone
  <2> QED
    BY <2>1, <1>2, FieldTypes, CallFields
<1>6. /\ up' \in [Proc -> Calls] /\ up'[p] = w
      /\ \A q \in Proc : q # p => up'[q] = up[q]
  BY <1>4, <1>5
<1> QED
  BY <1>1, <1>2, <1>4, <1>5, <1>6 DEF SetCall

\* A read or a write begins: p's call has the channel and the range.
LEMMA EnterSets ==
  ASSUME up \in [Proc -> Calls], NEW p \in Proc, NEW op \in Ops, NEW x,
         NEW n \in 0..MaxWrite, NEW c \in Chan, c = slots[fds[p]][x],
         chan[c].offset \in 0..MaxOffset, Enter(p, op, x, n)
  PROVE  SetCall(up, p, [op |-> op, cell |-> c, at |-> chan[c].offset, n |-> n,
                         cs |-> up[p].cs, begun |-> up[p].begun, killed |-> up[p].killed])
<1>1. PICK v \in Calls : v = up[p]
  OBVIOUS
<1>2. PICK w : w = [op |-> op, cell |-> c, at |-> chan[c].offset, n |-> n,
                    cs |-> v.cs, begun |-> v.begun, killed |-> v.killed]
  OBVIOUS
<1>3. up' = [up EXCEPT ![p] = Entered(up[p], op, c, chan[c].offset, n)]
  BY DEF Enter, Entered
<1>a. Entered(v, op, c, chan[c].offset, n) = w
  BY <1>2, FirstFields, SMTT(30)
<1>4. up' = [up EXCEPT ![p] = w]
  BY <1>1, <1>3, <1>a
<1>5. w \in Calls
  <2>1. c \in ChanOrNone
    BY DEF ChanOrNone
  <2> QED
    BY <2>1, <1>2, FieldTypes, CallFields
<1>6. /\ up' \in [Proc -> Calls] /\ up'[p] = w
      /\ \A q \in Proc : q # p => up'[q] = up[q]
  BY <1>4, <1>5
<1> QED
  BY <1>1, <1>2, <1>4, <1>5, <1>6 DEF SetCall

\* A call with another `killed'.
SetKilled(u, p, killed) == [u EXCEPT ![p].killed = killed]

\* It is a call like the others, with the rest of its fields as before.
LEMMA KilledSets ==
  ASSUME up \in [Proc -> Calls], NEW p \in Proc, NEW killed \in BOOLEAN, NEW u,
         u = SetKilled(up, p, killed)
  PROVE  /\ u \in [Proc -> Calls]
         /\ u = [up EXCEPT ![p] = u[p]]
         /\ u[p] = [op |-> up[p].op, cell |-> up[p].cell, at |-> up[p].at, n |-> up[p].n,
                    cs |-> up[p].cs, begun |-> up[p].begun, killed |-> killed]
         /\ \A q \in Proc : q # p => u[q] = up[q]
<1>1. PICK v \in Calls : v = up[p]
  OBVIOUS
<1>2. PICK w : w = [op |-> v.op, cell |-> v.cell, at |-> v.at, n |-> v.n,
                    cs |-> v.cs, begun |-> v.begun, killed |-> killed]
  OBVIOUS
<1>3. [v EXCEPT !.killed = killed] = w
  <2>1. PICK k : k = killed
    OBVIOUS
  <2>2. v = [op |-> v.op, cell |-> v.cell, at |-> v.at, n |-> v.n, cs |-> v.cs,
             begun |-> v.begun, killed |-> v.killed]
    BY FieldTypes
  <2>3. [v EXCEPT !.killed = k] = [op |-> v.op, cell |-> v.cell, at |-> v.at, n |-> v.n,
                                   cs |-> v.cs, begun |-> v.begun, killed |-> k]
    BY <2>2, SMTT(30)
  <2> QED
    BY <2>1, <2>3, <1>2
<1>4. w \in Calls
  BY <1>2, FieldTypes, CallFields
<1>5. u = [up EXCEPT ![p] = w]
  BY <1>1, <1>3 DEF SetKilled
<1>6. u \in [Proc -> Calls] /\ u[p] = w /\ \A q \in Proc : q # p => u[q] = up[q]
  BY <1>4, <1>5
<1> QED
  BY <1>1, <1>2, <1>5, <1>6

\* The close of one more channel is begun and sleeps.
LEMMA BegunSets ==
  ASSUME up \in [Proc -> Calls], NEW p \in Proc, NEW cs \in Seq(Chan),
         up' = [up EXCEPT ![p].cs = cs, ![p].begun = TRUE]
  PROVE  SetCall(up, p, [op |-> up[p].op, cell |-> up[p].cell, at |-> up[p].at,
                         n |-> up[p].n, cs |-> cs, begun |-> TRUE, killed |-> up[p].killed])
<1>1. PICK v \in Calls : v = up[p]
  OBVIOUS
<1>2. PICK yes \in BOOLEAN : yes = TRUE
  OBVIOUS
<1>3. PICK w : w = [op |-> v.op, cell |-> v.cell, at |-> v.at, n |-> v.n,
                    cs |-> cs, begun |-> yes, killed |-> v.killed]
  OBVIOUS
<1>4. [[v EXCEPT !.cs = cs] EXCEPT !.begun = yes] = w
  <2>1. v = [op |-> v.op, cell |-> v.cell, at |-> v.at, n |-> v.n, cs |-> v.cs,
             begun |-> v.begun, killed |-> v.killed]
    BY FieldTypes
  <2>2. PICK v1 : v1 = [v EXCEPT !.cs = cs]
    OBVIOUS
  <2>3. v1 = [op |-> v.op, cell |-> v.cell, at |-> v.at, n |-> v.n, cs |-> cs,
              begun |-> v.begun, killed |-> v.killed]
    BY <2>1, <2>2
  <2>4. [v1 EXCEPT !.begun = yes] = w
    BY <2>3, <1>3, SMTT(30)
  <2> QED
    BY <2>2, <2>4
<1>5. w \in Calls
  BY <1>3, FieldTypes, CallFields
<1>6. up' = [up EXCEPT ![p] = [[up[p] EXCEPT !.cs = cs] EXCEPT !.begun = TRUE]]
  OBVIOUS
<1>7. up' = [up EXCEPT ![p] = w]
  BY <1>1, <1>2, <1>4, <1>6
<1>8. /\ up' \in [Proc -> Calls] /\ up'[p] = w
      /\ \A q \in Proc : q # p => up'[q] = up[q]
  BY <1>5, <1>7
<1> QED
  BY <1>1, <1>2, <1>3, <1>5, <1>7, <1>8 DEF SetCall

\* A process leaves its table, and goes on to close cs.
LEMMA LeaveSets ==
  ASSUME up \in [Proc -> Calls], NEW p \in Proc, NEW then \in Ops, NEW cs \in Seq(Chan),
         Closing([up EXCEPT ![p].killed = @ /\ then # "noimage"], p, then, cs)
  PROVE  \E killed \in BOOLEAN : SetCall(up, p, ClosingCall(up[p], then, cs, killed))
<1>1. PICK u : /\ u = [up EXCEPT ![p].killed = up[p].killed /\ then # "noimage"]
               /\ Closing(u, p, then, cs)
  OBVIOUS
<1>2. PICK killed \in BOOLEAN : killed = (up[p].killed /\ then # "noimage")
  OBVIOUS
<1>3. u = SetKilled(up, p, killed)
  BY <1>1, <1>2 DEF SetKilled
<1>4. /\ u \in [Proc -> Calls] /\ u = [up EXCEPT ![p] = u[p]]
      /\ u[p] = [op |-> up[p].op, cell |-> up[p].cell, at |-> up[p].at, n |-> up[p].n,
                 cs |-> up[p].cs, begun |-> up[p].begun, killed |-> killed]
      /\ \A q \in Proc : q # p => u[q] = up[q]
  BY <1>3, KilledSets, SMTT(30)
<1>5. PICK w : w = ClosingCall(u[p], then, cs, u[p].killed)
  OBVIOUS
<1>6. SetCall(u, p, w)
  BY <1>1, <1>4, <1>5, ClosingSets
<1>7. w = ClosingCall(up[p], then, cs, killed)
  <2>1. PICK k : k = killed
    OBVIOUS
  <2>2. PICK v : v = u[p]
    OBVIOUS
  <2>3. v = [op |-> up[p].op, cell |-> up[p].cell, at |-> up[p].at, n |-> up[p].n,
             cs |-> up[p].cs, begun |-> up[p].begun, killed |-> k]
    BY <1>4, <2>1, <2>2
  <2>4. v.cell = up[p].cell /\ v.at = up[p].at /\ v.n = up[p].n /\ v.killed = k
    BY <2>3
  <2> QED
    BY <1>5, <2>1, <2>2, <2>4 DEF ClosingCall
<1>8. /\ w \in Calls /\ up' = [u EXCEPT ![p] = w] /\ up' \in [Proc -> Calls]
      /\ up'[p] = w /\ \A q \in Proc : q # p => up'[q] = u[q]
  BY <1>6 DEF SetCall
<1>9. up' = [up EXCEPT ![p] = w]
  BY <1>4, <1>8
<1>10. SetCall(up, p, w)
  BY <1>4, <1>8, <1>9 DEF SetCall
<1> QED
  BY <1>7, <1>10

\* The fields of such a call.
LEMMA ClosingFields ==
  ASSUME NEW v, NEW then, NEW cs, NEW killed, NEW w, w = ClosingCall(v, then, cs, killed)
  PROVE  /\ w.cell = v.cell /\ w.cs = cs /\ ~w.begun
         /\ cs # <<>> => w.op = then
         /\ cs = <<>> => w.op = IF then \in Ends THEN "dead" ELSE "user"
         /\ w.op \in {then, "dead", "user"}
<1>1. w.cell = v.cell /\ w.cs = cs
  BY DEF ClosingCall
<1>2. ~w.begun
  BY DEF ClosingCall
<1>3. w.op = IF cs # <<>> THEN then ELSE IF then \in Ends THEN "dead" ELSE "user"
  BY DEF ClosingCall
<1> QED
  BY <1>1, <1>2, <1>3

\* Such a call is as it should be.
LEMMA ClosingOK ==
  ASSUME NEW v, NEW then, NEW cs, NEW killed, NEW t, NEW w,
         w = ClosingCall(v, then, cs, killed), v.cell = NoChan,
         \/ then \in {"close", "rfork"} /\ t \in Table
         \/ then \in Ends /\ t = NoTable
  PROVE  CallOK(w, t)
<1>1. /\ w.cs = cs /\ ~w.begun /\ w.cell = NoChan /\ (cs # <<>> => w.op = then)
      /\ (cs = <<>> => w.op = IF then \in Ends THEN "dead" ELSE "user")
  BY ClosingFields, SMTT(30)
<1>2. CASE then \in {"close", "rfork"} /\ t \in Table
  <2>1. then \notin Ends /\ then \in Tabled /\ then \notin Clear /\ "user" \in Tabled
    BY <1>2 DEF Ends, Tabled, Clear
  <2>2. w.op \in Tabled /\ w.op \in {then, "user"} /\ (w.op \in Clear => w.cs = <<>>)
    BY <1>1, <2>1
  <2>3. w.op \notin {"read", "write"}
    BY <2>2, <1>2
  <2> QED
    BY <1>1, <1>2, <2>2, <2>3 DEF CallOK
<1>3. CASE then \in Ends /\ t = NoTable
  <2>1. then \notin Tabled /\ then \notin Clear /\ "dead" \notin Tabled
    BY <1>3 DEF Ends, Tabled, Clear
  <2>2. w.op \notin Tabled /\ (w.op \in Clear => w.cs = <<>>)
    BY <1>1, <1>3, <2>1
  <2>3. w.op \notin {"read", "write"} /\ t \notin Table
    BY <2>2, <1>3, FgrpAssumption DEF Tabled
  <2> QED
    BY <1>1, <2>2, <2>3 DEF CallOK
<1> QED
  BY <1>2, <1>3

\* One process's step.
LEMMA CallsStep ==
  ASSUME CallsOK, NEW p \in Proc, NEW v, SetCall(up, p, v),
         fds' \in [Proc -> Table \cup {NoTable}],
         slots' \in [Table -> [Fd -> ChanOrNone]],
         CallOK(v, fds'[p]),
         \A q \in Proc : q # p => fds'[q] = fds[q],
         \A t \in Table : Unused(t)' => slots'[t] = Empty
  PROVE  CallsOK'
<1>1. /\ up' \in [Proc -> Calls] /\ up'[p] = v
      /\ \A q \in Proc : q # p => up'[q] = up[q]
  BY DEF SetCall
<1>2. ASSUME NEW q \in Proc
      PROVE  CallOK(up'[q], fds'[q])
  BY <1>1 DEF CallsOK
<1>3. \A q \in Proc : CallOK(up[q], fds[q])'
  BY <1>2 DEF CallOK
<1> QED
  BY <1>1, <1>3 DEF CallsOK

\* A process changes its own table, or none.
LEMMA OwnTable ==
  ASSUME CallsOK, NEW p \in Proc, fds' = fds,
         \A t \in Table : t # fds[p] => slots'[t] = slots[t]
  PROVE  \A t \in Table : Unused(t)' => slots'[t] = Empty
BY DEF CallsOK, Unused

\* A slot of the table changes.
SetSlot(s, t, x, c) == [s EXCEPT ![t][x] = c]

\* The tables have their types then, and the other slots are as before.
LEMMA SlotTypes ==
  ASSUME CallsOK, NEW t \in Table, NEW x \in Fd, NEW c \in ChanOrNone, NEW s,
         s = SetSlot(slots, t, x, c)
  PROVE  /\ s \in [Table -> [Fd -> ChanOrNone]]
         /\ s[t][x] = c
         /\ \A y \in Fd : y # x => s[t][y] = slots[t][y]
         /\ \A r \in Table : r # t => s[r] = slots[r]
BY DEF CallsOK, SetSlot
-----------------------------------------------------------------------------
(* What is held.                                                            *)

\* c is in a slot of tables s, or in the cell of a call of u.
InSlot(s, c) == \E t \in Table, x \in Fd : s[t][x] = c
InCell(u, c) == \E p \in Proc : u[p].cell = c

\* What is held is a channel in a slot or in a cell.
LEMMA HeldBy ==
  ASSUME NEW s, NEW u, NEW c
  PROVE  c \in Held(s, u) <=> c # NoChan /\ (InSlot(s, c) \/ InCell(u, c))
BY SMTT(30) DEF Held, InSlot, InCell

\* What tables s hold tables w hold too, or it is in D.
LEMMA HeldWithin ==
  ASSUME NEW s, NEW w, NEW u, NEW D,
         \A c : InSlot(s, c) => c = NoChan \/ c \in D \/ InSlot(w, c)
  PROVE  \A c \in Held(s, u) : c \in Held(w, u) \/ c \in D
BY HeldBy

\* Only channels are held.
LEMMA HeldChan ==
  ASSUME CallsOK, NEW c \in Held(slots, up)
  PROVE  c \in Chan
<1>1. c # NoChan /\ (InSlot(slots, c) \/ InCell(up, c))
  BY HeldBy
<1>2. \A t \in Table, x \in Fd : slots[t][x] \in ChanOrNone
  BY DEF CallsOK
<1>3. \A p \in Proc : up[p].cell \in ChanOrNone
  BY FieldTypes DEF CallsOK
<1> QED
  BY <1>1, <1>2, <1>3, SMTT(30) DEF ChanOrNone, InSlot, InCell

\* Calls with the same cells hold the same.
LEMMA HeldCells ==
  ASSUME NEW s, NEW u, NEW w, \A p \in Proc : u[p].cell = w[p].cell
  PROVE  \A c : c \in Held(s, u) <=> c \in Held(s, w)
<1>1. \A c : InCell(u, c) <=> InCell(w, c)
  BY DEF InCell
<1> QED
  BY <1>1, HeldBy

\* A slot changes.
LEMMA SlotHeld ==
  ASSUME CallsOK, NEW t \in Table, NEW x \in Fd, NEW c \in ChanOrNone, NEW s, NEW u,
         s = SetSlot(slots, t, x, c)
  PROVE  /\ \A b : b \in Held(s, u) => b \in Held(slots, u) \/ (b = c /\ c # NoChan)
         /\ \A b : b \in Held(slots, u) => b \in Held(s, u) \/ b = slots[t][x]
         /\ c # NoChan => c \in Held(s, u)
         /\ slots[t][x] # NoChan => slots[t][x] \in Held(slots, u)
<1>1. /\ s[t][x] = c /\ \A y \in Fd : y # x => s[t][y] = slots[t][y]
      /\ \A r \in Table : r # t => s[r] = slots[r]
  BY SlotTypes, SMTT(30)
<1>2. \A r \in Table, y \in Fd : s[r][y] = slots[r][y] \/ (r = t /\ y = x)
  BY <1>1
<1>3. ASSUME NEW b, b \in Held(s, u)
      PROVE  b \in Held(slots, u) \/ (b = c /\ c # NoChan)
  <2>1. \A a : InSlot(s, a) => a = NoChan \/ a \in {c} \/ InSlot(slots, a)
    <3> SUFFICES ASSUME NEW r \in Table, NEW y \in Fd, s[r][y] # c
                 PROVE  slots[r][y] = s[r][y]
      BY DEF InSlot
    <3> QED
      BY <1>1, <1>2
  <2>2. b # NoChan
    BY <1>3, HeldBy
  <2>3. \A a \in Held(s, u) : a \in Held(slots, u) \/ a \in {c}
    BY <2>1, HeldWithin
  <2> QED
    BY <2>2, <2>3, <1>3
<1>4. ASSUME NEW b, b \in Held(slots, u)
      PROVE  b \in Held(s, u) \/ b = slots[t][x]
  <2>1. \A a : InSlot(slots, a) => a = NoChan \/ a \in {slots[t][x]} \/ InSlot(s, a)
    BY <1>2 DEF InSlot
  <2>2. \A a \in Held(slots, u) : a \in Held(s, u) \/ a \in {slots[t][x]}
    BY <2>1, HeldWithin
  <2> QED
    BY <2>2, <1>4
<1>5. ASSUME c # NoChan
      PROVE  c \in Held(s, u)
  <2>1. InSlot(s, c)
    BY <1>1 DEF InSlot
  <2> QED
    BY <2>1, <1>5, HeldBy
<1>6. ASSUME slots[t][x] # NoChan
      PROVE  slots[t][x] \in Held(slots, u)
  <2>1. InSlot(slots, slots[t][x])
    BY DEF InSlot
  <2> QED
    BY <2>1, <1>6, HeldBy
<1> QED
  BY <1>3, <1>4, <1>5, <1>6

\* A table no process has becomes a copy of another, or clear.
SetTable(s, t, f) == [s EXCEPT ![t] = f]

\* The tables have their types then, and hold what they held.
LEMMA CopyHeld ==
  ASSUME CallsOK, NEW t \in Table, NEW r \in Table, slots[r] = Empty,
         NEW f \in {slots[t], Empty}, NEW s, NEW u, s = SetTable(slots, r, f)
  PROVE  /\ s \in [Table -> [Fd -> ChanOrNone]]
         /\ s[r] = f /\ \A a \in Table : a # r => s[a] = slots[a]
         /\ \A c : c \in Held(s, u) <=> c \in Held(slots, u)
<1>1. Empty \in [Fd -> ChanOrNone] /\ \A x \in Fd : Empty[x] = NoChan
  BY DEF Empty, ChanOrNone
<1>2. /\ s \in [Table -> [Fd -> ChanOrNone]] /\ s[r] = f
      /\ \A a \in Table : a # r => s[a] = slots[a]
  BY <1>1 DEF CallsOK, SetTable
<1>3. \A c : InSlot(s, c) => c = NoChan \/ c \in {} \/ InSlot(slots, c)
  <2> SUFFICES ASSUME NEW a \in Table, NEW x \in Fd, s[a][x] # NoChan
               PROVE  slots[a][x] = s[a][x] \/ slots[t][x] = s[a][x]
    BY SMTT(30) DEF InSlot
  <2> QED
    BY <1>1, <1>2
<1>4. \A c : InSlot(slots, c) => c = NoChan \/ c \in {} \/ InSlot(s, c)
  <2> SUFFICES ASSUME NEW a \in Table, NEW x \in Fd, slots[a][x] # NoChan
               PROVE  s[a][x] = slots[a][x]
    BY DEF InSlot
  <2> QED
    BY <1>1, <1>2
<1>5. \A c \in Held(s, u) : c \in Held(slots, u) \/ c \in {}
  BY <1>3, HeldWithin
<1>6. \A c \in Held(slots, u) : c \in Held(s, u) \/ c \in {}
  BY <1>4, HeldWithin
<1> QED
  BY <1>2, <1>5, <1>6

\* A process's reference to its table goes (closefgrp): the list it has to
\* close is of the channels nobody holds then.
Leavings(t, s, r, u) == IF r[t] = Empty THEN Lastrefs(s[t], r, u) ELSE <<>>

\* Nothing else is held than before, and the list is of what no longer is.
LEMMA LeaveHeld ==
  ASSUME NEW t \in Table, NEW s \in [Table -> [Fd -> ChanOrNone]], NEW u,
         NEW f, NEW r, r = Released(t, f, s),
         NEW cs, cs = Leavings(t, s, r, u)
  PROVE  /\ r \in [Table -> [Fd -> ChanOrNone]]
         /\ \A c : c \in Held(r, u) => c \in Held(s, u)
         /\ \E G : /\ Lists(cs, G)
                   /\ \A c : c \in G <=> c \in Held(s, u) /\ c \notin Held(r, u)
<1>1. Empty \in [Fd -> ChanOrNone] /\ \A x \in Fd : Empty[x] = NoChan
  BY DEF Empty, ChanOrNone
<1>2. \/ r = s
      \/ r = [s EXCEPT ![t] = Empty]
  BY DEF Released
<1>3. r \in [Table -> [Fd -> ChanOrNone]]
  BY <1>1, <1>2
<1>4. /\ \A a \in Table : a # t => r[a] = s[a]
      /\ r[t] = s[t] \/ r[t] = Empty
  BY <1>2
<1>5. \A c : c \in Held(r, u) => c \in Held(s, u)
  <2>1. \A c : InSlot(r, c) => c = NoChan \/ c \in {} \/ InSlot(s, c)
    <3> SUFFICES ASSUME NEW a \in Table, NEW x \in Fd, r[a][x] # NoChan
                 PROVE  s[a][x] = r[a][x]
      BY DEF InSlot
    <3> QED
      BY <1>1, <1>4
  <2>2. \A c \in Held(r, u) : c \in Held(s, u) \/ c \in {}
    BY <2>1, HeldWithin
  <2> QED
    BY <2>2
<1>6. CASE r[t] # Empty
  <2>1. r = s /\ cs = <<>>
    BY <1>2, <1>6 DEF Leavings
  <2> QED
    BY <2>1, <1>3, <1>5, ListsFew, SMTT(30)
<1>7. CASE r[t] = Empty
  <2>1. PICK G : G = In(s[t]) \ Held(r, u)
    OBVIOUS
  <2>2. s[t] \in [Fd -> ChanOrNone] /\ cs = Lastrefs(s[t], r, u)
    BY <1>7 DEF Leavings
  <2>3. Lists(cs, G)
    BY <2>1, <2>2, LastrefsLists
  <2>4. ASSUME NEW c \in G
        PROVE  c \in Held(s, u) /\ c \notin Held(r, u)
    <3>1. c \notin Held(r, u) /\ c # NoChan /\ \E x \in Fd : s[t][x] = c
      BY <2>1 DEF In
    <3>2. InSlot(s, c)
      BY <3>1 DEF InSlot
    <3> QED
      BY <3>1, <3>2, HeldBy
  <2>5. ASSUME NEW c, c \in Held(s, u), c \notin Held(r, u)
        PROVE  c \in G
    <3>1. c # NoChan /\ InSlot(s, c) /\ ~InSlot(r, c)
      BY <2>5, HeldBy
    <3>2. PICK x \in Fd : s[t][x] = c
      BY <3>1, <1>4 DEF InSlot
    <3> QED
      BY <2>1, <2>5, <3>1, <3>2 DEF In
  <2> QED
    BY <2>3, <2>4, <2>5, <1>3, <1>5
<1> QED
  BY <1>6, <1>7
-----------------------------------------------------------------------------
(* The books: who is to close what.                                         *)

ToldSet == {c \in Chan : told[c] = 1}
OpenSet == {c \in Chan : chan[c].open}

\* The calls' lists are of T, and the queue is of Q ...
Listed(T, Q) ==
    /\ T \in [Proc -> SUBSET Chan]
    /\ Q \in SUBSET Chan
    /\ Lists(clunkq, Q)
    /\ \A p \in Proc : Lists(Todo(up[p]), T[p])

\* ... and each channel is in one of them at most, or told, or held.
Books(T, Q) == Listed(T, Q) /\ Once(T, Q, Held(slots, up), ToldSet, OpenSet)

ClosesOnce == told \in [Chan -> {0, 1}] /\ \E T, Q : Books(T, Q)

\* The books are kept by a step, and have each channel whose last reference
\* it took, but for one a call held.
Covered(T, Q) ==
    \A c \in Chan : c \in Held(slots, up) /\ c \notin Held(slots, up)' =>
       \/ c \in Q
       \/ \E p \in Proc : c \in T[p]
       \/ \E p \in Proc : up[p].cell = c /\ up'[p].cell = NoChan

Accounted == told' \in [Chan -> {0, 1}] /\ \E T, Q : Books(T, Q)' /\ Covered(T, Q)

\* What a call is to close is a set of channels.
LEMMA ListsChan ==
  ASSUME NEW s, NEW S, Lists(s, S)
  PROVE  S \in SUBSET Chan /\ s \in Seq(Chan)
<1>1. s \in Seq(Chan) /\ \A c : c \in S <=> \E i \in DOMAIN s : s[i] = c
  BY DEF Lists
<1>2. \A i \in DOMAIN s : s[i] \in Chan
  BY <1>1, SMTT(30)
<1> QED
  BY <1>1, <1>2

\* p's list becomes one of G, and the queue one of R.
Relist(T, p, G, R) ==
    \E T2 : /\ Listed(T2, R)' /\ T2[p] = G
            /\ \A q \in Proc : q # p => T2[q] = T[q]

\* So they do when p's call and the queue list those.
LEMMA Relisted ==
  ASSUME NEW T, NEW Q, Listed(T, Q), NEW p \in Proc, NEW v, SetCall(up, p, v),
         NEW G, Lists(Todo(v), G),
         NEW R, Lists(clunkq', R)
  PROVE  Relist(T, p, G, R)
<1>1. PICK T2 : T2 = [T EXCEPT ![p] = G]
  OBVIOUS
<1>2. G \in SUBSET Chan /\ R \in SUBSET Chan
  BY ListsChan
<1>3. T \in [Proc -> SUBSET Chan]
  BY DEF Listed
<1>4. /\ T2 \in [Proc -> SUBSET Chan] /\ T2[p] = G
      /\ \A q \in Proc : q # p => T2[q] = T[q]
  BY <1>1, <1>2, <1>3
<1>5. up'[p] = v /\ \A q \in Proc : q # p => up'[q] = up[q]
  BY DEF SetCall
<1>6. ASSUME NEW q \in Proc
      PROVE  Lists(Todo(up'[q]), T2[q])
  BY <1>4, <1>5 DEF Listed
<1>7. \A q \in Proc : Lists(Todo(up[q]), T2[q])'
  BY <1>6 DEF Lists, Todo
<1>8. Lists(clunkq, R)'
  BY DEF Lists
<1> QED
  BY <1>2, <1>4, <1>7, <1>8 DEF Listed, Relist

\* A step that changes no call and no queue keeps the lists.
LEMMA SameListed ==
  ASSUME NEW T, NEW Q, Listed(T, Q), clunkq' = clunkq, up' = up
  PROVE  Listed(T, Q)'
<1>1. Lists(clunkq, Q)'
  BY DEF Listed, Lists
<1>2. ASSUME NEW p \in Proc
      PROVE  Lists(Todo(up[p]), T[p])'
  <2>1. Lists(Todo(up[p]), T[p])
    BY DEF Listed
  <2> QED
    BY <2>1 DEF Lists, Todo
<1> QED
  BY <1>1, <1>2 DEF Listed

\* A step of one call that queues, tells and opens nothing: its list becomes
\* one of what it had and of channels nobody holds any more.
LEMMA OwedStep ==
  ASSUME told \in [Chan -> {0, 1}], NEW T, NEW Q, Books(T, Q),
         NEW p \in Proc, NEW v, SetCall(up, p, v), NEW G, Lists(Todo(v), G),
         clunkq' = clunkq, told' = told, OpenSet' = OpenSet,
         \A c \in Chan : c \in Held(slots', up') => c \in Held(slots, up),
         \A c \in Chan : c \in G => \/ c \in T[p]
                                    \/ c \in Held(slots, up) /\ c \notin Held(slots', up'),
         \A c \in Chan : c \in Held(slots, up) /\ c \notin Held(slots', up') =>
            \/ c \in G
            \/ \E q \in Proc : up[q].cell = c /\ up'[q].cell = NoChan
  PROVE  Accounted
<1>0. Listed(T, Q)
  BY DEF Books
<1>1. PICK T2 : /\ Listed(T2, Q)' /\ T2[p] = G
                /\ \A q \in Proc : q # p => T2[q] = T[q]
  <2>1. Lists(clunkq', Q)
    BY <1>0 DEF Listed
  <2>2. Relist(T, p, G, Q)
    BY <2>1, <1>0, Relisted
  <2> QED
    BY <2>2 DEF Relist
<1>2. Once(T, Q, Held(slots, up), ToldSet, OpenSet)
  BY DEF Books
<1>3. ToldSet' = ToldSet /\ OpenSet' = OpenSet
  BY DEF ToldSet
<1>4. Once(T2, Q, Held(slots', up'), ToldSet, OpenSet)
  BY <1>1, <1>2, OnceOwed, SMTT(30)
<1>5. Once(T2, Q, Held(slots, up), ToldSet, OpenSet)'
  BY <1>3, <1>4 DEF Once
<1>6. Covered(T2, Q)
  BY <1>1 DEF Covered
<1> QED
  BY <1>1, <1>5, <1>6 DEF Books, Accounted

\* A process in no call has a table, holds nothing and has nothing to close.
UserFacts(p) == fds[p] \in Table /\ up[p].cell = NoChan /\ up[p].cs = <<>> /\ ~up[p].begun

\* It does, by the shape of its call.
LEMMA UserHas ==
  ASSUME CallsOK, NEW p \in Proc, up[p].op = "user"
  PROVE  UserFacts(p)
<1>1. CallOK(up[p], fds[p])
  BY DEF CallsOK
<1>2. up[p].op \in Tabled /\ up[p].op \in Clear /\ up[p].op \notin {"read", "write"}
  BY DEF Tabled, Clear
<1> QED
  BY <1>1, <1>2 DEF CallOK, UserFacts

\* The books of a process that lets references go and takes the closes of what
\* it held last.
LEMMA ClosingStep ==
  ASSUME ClosesOnce, NEW p \in Proc, NEW then, NEW cs, NEW killed,
         SetCall(up, p, ClosingCall(up[p], then, cs, killed)), NEW G, Lists(cs, G),
         clunkq' = clunkq, told' = told, chan' = chan,
         \A c : c \in Held(slots', up) => c \in Held(slots, up),
         \A c : c \in G <=> c \in Held(slots, up) /\ c \notin Held(slots', up)
  PROVE  Accounted
<1>1. PICK T, Q : Books(T, Q)
  BY DEF ClosesOnce
<1>2. PICK w : w = ClosingCall(up[p], then, cs, killed)
  OBVIOUS
<1>3. w.cell = up[p].cell /\ w.cs = cs /\ ~w.begun
  BY <1>2, ClosingFields, SMTT(30)
<1>4. Lists(Todo(w), G)
  BY <1>3 DEF Todo
<1>5. SetCall(up, p, w)
  BY <1>2
<1>6. \A q \in Proc : up'[q].cell = up[q].cell
  BY <1>3, <1>5 DEF SetCall
<1>7. \A c : c \in Held(slots', up') <=> c \in Held(slots', up)
  BY <1>6, HeldCells
<1>8. told \in [Chan -> {0, 1}]
  BY DEF ClosesOnce
<1>9. /\ \A c \in Chan : c \in Held(slots', up') => c \in Held(slots, up)
      /\ \A c \in Chan : c \in G => \/ c \in T[p]
                                    \/ c \in Held(slots, up) /\ c \notin Held(slots', up')
      /\ \A c \in Chan : c \in Held(slots, up) /\ c \notin Held(slots', up') =>
            \/ c \in G
            \/ \E q \in Proc : up[q].cell = c /\ up'[q].cell = NoChan
  BY <1>7
<1>10. OpenSet' = OpenSet
  BY DEF OpenSet
<1> QED
  BY <1>1, <1>4, <1>5, <1>8, <1>9, <1>10, OwedStep, SMTT(30)

\* A step of one call that closes nothing: what it is to close stays.
LEMMA KeptStep ==
  ASSUME ClosesOnce, NEW p \in Proc, NEW v, SetCall(up, p, v), Todo(v) = Todo(up[p]),
         clunkq' = clunkq, told' = told, OpenSet' = OpenSet,
         \A c \in Chan : c \in Held(slots', up') => c \in Held(slots, up),
         \A c \in Chan : c \in Held(slots, up) /\ c \notin Held(slots', up') =>
            \E q \in Proc : up[q].cell = c /\ up'[q].cell = NoChan
  PROVE  Accounted
<1>1. PICK T, Q : Books(T, Q)
  BY DEF ClosesOnce
<1>2. PICK G : G = T[p]
  OBVIOUS
<1>3. Lists(Todo(v), G)
  BY <1>1, <1>2 DEF Books, Listed
<1>4. told \in [Chan -> {0, 1}]
  BY DEF ClosesOnce
<1> QED
  BY <1>1, <1>2, <1>3, <1>4, OwedStep, SMTT(30)

\* The calls, when one process goes on to close cs and changes no other table.
LEMMA ClosingCalls ==
  ASSUME CallsOK, NEW p \in Proc, up[p].op = "user", NEW cs \in Seq(Chan),
         Closing(up, p, "close", cs), fds' = fds,
         slots' \in [Table -> [Fd -> ChanOrNone]],
         \A t \in Table : t # fds[p] => slots'[t] = slots[t]
  PROVE  CallsOK' /\ SetCall(up, p, ClosingCall(up[p], "close", cs, up[p].killed))
<1>1. UserFacts(p)
  BY UserHas
<1>2. fds[p] \in Table /\ up[p].cell = NoChan /\ up \in [Proc -> Calls]
  BY <1>1 DEF UserFacts, CallsOK
<1>3. PICK w : w = ClosingCall(up[p], "close", cs, up[p].killed)
  OBVIOUS
<1>4. SetCall(up, p, w)
  <2>1. "close" \in Ops
    BY DEF Ops
  <2> QED
    BY <2>1, <1>2, <1>3, ClosingSets
<1>5. CallOK(w, fds'[p])
  BY <1>2, <1>3, ClosingOK
<1>6. \A r \in Table : Unused(r)' => slots'[r] = Empty
  BY OwnTable
<1>7. fds' \in [Proc -> Table \cup {NoTable}] /\ \A q \in Proc : fds'[q] = fds[q]
  BY DEF CallsOK
<1>8. CallsOK'
  BY <1>4, <1>5, <1>6, <1>7, CallsStep
<1> QED
  BY <1>3, <1>4, <1>8

\* Close.
LEMMA CloseKeeps ==
  ASSUME CallsOK, ClosesOnce, NEW p \in Proc, NEW x \in Fd, Close(p, x)
  PROVE  CallsOK' /\ Accounted
<1>1. PICK t, c, s, cs : /\ t = fds[p] /\ c = slots[t][x]
                         /\ s = SetSlot(slots, t, x, NoChan)
                         /\ cs = Lastref(c, s, up)
  OBVIOUS
<1>2. /\ up[p].op = "user" /\ c # NoChan /\ slots' = s /\ Closing(up, p, "close", cs)
      /\ fds' = fds /\ chan' = chan /\ told' = told /\ clunkq' = clunkq
  BY <1>1 DEF Close, User, Returns, SetSlot
<1>3. t \in Table
  BY <1>1, <1>2, UserHas DEF UserFacts
<1>4. c \in Chan /\ NoChan \in ChanOrNone
  BY <1>1, <1>2, <1>3, SMTT(30) DEF CallsOK, ChanOrNone
<1>5. /\ s \in [Table -> [Fd -> ChanOrNone]]
      /\ \A r \in Table : r # t => s[r] = slots[r]
  BY <1>1, <1>3, <1>4, SlotTypes, SMTT(30)
<1>6. /\ \A b : b \in Held(s, up) => b \in Held(slots, up)
      /\ \A b : b \in Held(slots, up) => b \in Held(s, up) \/ b = c
      /\ c \in Held(slots, up)
  BY <1>1, <1>2, <1>3, <1>4, SlotHeld, SMTT(30)
<1>7. PICK G : G = {c} \ Held(s, up)
  OBVIOUS
<1>8. Lists(cs, G) /\ cs \in Seq(Chan)
  BY <1>1, <1>4, <1>7, LastrefLists, ListsChan
<1>9. CallsOK' /\ SetCall(up, p, ClosingCall(up[p], "close", cs, up[p].killed))
  BY <1>1, <1>2, <1>5, <1>8, ClosingCalls
<1>10. Accounted
  BY <1>2, <1>6, <1>7, <1>8, <1>9, ClosingStep
<1> QED
  BY <1>9, <1>10

\* Dup.
LEMMA DupKeeps ==
  ASSUME CallsOK, ClosesOnce, NEW p \in Proc, NEW old \in Fd, NEW new \in Fd,
         Dup(p, old, new)
  PROVE  CallsOK' /\ Accounted
<1>1. PICK t, c, d, s, cs : /\ t = fds[p] /\ c = slots[t][new] /\ d = slots[t][old]
                            /\ s = SetSlot(slots, t, new, d)
                            /\ cs = Replaced(c, s)
  OBVIOUS
<1>2. /\ up[p].op = "user" /\ d # NoChan /\ slots' = s /\ Closing(up, p, "close", cs)
      /\ fds' = fds /\ chan' = chan /\ told' = told /\ clunkq' = clunkq
  BY <1>1 DEF Dup, User, Returns, SetSlot
<1>3. t \in Table
  BY <1>1, <1>2, UserHas DEF UserFacts
<1>4. c \in ChanOrNone /\ d \in ChanOrNone
  BY <1>1, <1>3 DEF CallsOK
<1>5. /\ s \in [Table -> [Fd -> ChanOrNone]]
      /\ \A r \in Table : r # t => s[r] = slots[r]
  BY <1>1, <1>3, <1>4, SlotTypes, SMTT(30)
<1>6. /\ \A b : b \in Held(s, up) => b \in Held(slots, up) \/ b = d
      /\ \A b : b \in Held(slots, up) => b \in Held(s, up) \/ b = c
      /\ c # NoChan => c \in Held(slots, up)
  BY <1>1, <1>3, <1>4, SlotHeld, SMTT(30)
<1>7. d \in Held(slots, up)
  <2>1. InSlot(slots, d)
    BY <1>1, <1>3 DEF InSlot
  <2> QED
    BY <2>1, <1>2, HeldBy
<1>8. PICK G : G = {b \in {c} : b # NoChan /\ b \notin Held(s, up)}
  OBVIOUS
<1>9. Lists(cs, G) /\ cs \in Seq(Chan)
  <2>1. CASE c = NoChan
    <3>1. cs = <<>> /\ G = {}
      BY <2>1, <1>1, <1>8 DEF Replaced
    <3> QED
      BY <3>1, ListsFew, ListsChan
  <2>2. CASE c # NoChan
    <3>1. cs = Lastref(c, s, up) /\ c \in Chan
      BY <2>2, <1>1, <1>4 DEF Replaced, ChanOrNone
    <3>2. G = {c} \ Held(s, up)
      BY <2>2, <1>8
    <3> QED
      BY <3>1, <3>2, LastrefLists, ListsChan
  <2> QED
    BY <2>1, <2>2
<1>10. CallsOK' /\ SetCall(up, p, ClosingCall(up[p], "close", cs, up[p].killed))
  BY <1>1, <1>2, <1>5, <1>9, ClosingCalls
<1>11. /\ \A b : b \in Held(s, up) => b \in Held(slots, up)
       /\ \A b : b \in G <=> b \in Held(slots, up) /\ b \notin Held(s, up)
  <2>1. \A b : b \in Held(slots, up) => b # NoChan
    BY HeldBy
  <2> QED
    BY <2>1, <1>6, <1>7, <1>8
<1>12. Accounted
  BY <1>2, <1>9, <1>10, <1>11, ClosingStep
<1> QED
  BY <1>10, <1>12

\* The lowest free slot is free.
LEMMA LowestFree ==
  ASSUME NEW f, NEW x, Free(f) # {}, x = Lowest(Free(f))
  PROVE  x \in Fd /\ f[x] = NoChan
<1>1. Free(f) \subseteq Nat
  BY FgrpAssumption, SMTT(30) DEF Free, Fd
<1>2. \E y \in Free(f) : \A z \in Free(f) : y <= z
  BY <1>1, Least
<1>3. x \in Free(f)
  BY <1>2 DEF Lowest
<1> QED
  BY <1>3 DEF Free

\* Open.
LEMMA OpenKeeps ==
  ASSUME CallsOK, ClosesOnce, chan \in [Chan -> Channels], NEW p \in Proc, Open(p)
  PROVE  CallsOK' /\ Accounted
<1>0. PICK c \in Chan : \E t, f :
        /\ t = fds[p] /\ f = slots[t] /\ up[p].op = "user"
        /\ ~chan[c].open /\ chan' = [chan EXCEPT ![c].open = TRUE]
        /\ \/ /\ Free(f) # {} /\ slots' = [slots EXCEPT ![fds[p]][Lowest(Free(f))] = c]
              /\ up' = up
           \/ Closing(up, p, "close", <<c>>) /\ slots' = slots
        /\ fds' = fds /\ told' = told /\ clunkq' = clunkq
  BY DEF Open, User, Returns
<1>1. PICK t, f :
        /\ t = fds[p] /\ f = slots[t] /\ up[p].op = "user"
        /\ ~chan[c].open /\ chan' = [chan EXCEPT ![c].open = TRUE]
        /\ \/ /\ Free(f) # {} /\ slots' = [slots EXCEPT ![fds[p]][Lowest(Free(f))] = c]
              /\ up' = up
           \/ Closing(up, p, "close", <<c>>) /\ slots' = slots
        /\ fds' = fds /\ told' = told /\ clunkq' = clunkq
  BY <1>0
<1>2. t \in Table
  BY <1>1, UserHas DEF UserFacts
<1>3. PICK T, Q : Books(T, Q)
  BY DEF ClosesOnce
<1>4. Listed(T, Q) /\ Once(T, Q, Held(slots, up), ToldSet, OpenSet)
  BY <1>3 DEF Books
<1>5. PICK O : O = OpenSet
  OBVIOUS
<1>6. c \notin O /\ \A b \in Chan : b \in OpenSet' <=> b \in O \/ b = c
  <2>1. /\ chan'[c] = [chan[c] EXCEPT !.open = TRUE]
        /\ \A b \in Chan : b # c => chan'[b] = chan[b]
    BY <1>1
  <2>2. chan'[c].open
    <3>1. DOMAIN chan[c] = {"open", "offset", "bytes", "twice", "short"}
      BY DEF Channels
    <3>2. PICK yes : yes = TRUE
      OBVIOUS
    <3>3. [chan[c] EXCEPT !.open = yes].open = yes
      BY <3>1
    <3> QED
      BY <2>1, <3>2, <3>3
  <2> QED
    BY <2>1, <2>2, <1>1, <1>5 DEF OpenSet
<1>7. PICK O2 : O2 = OpenSet'
  OBVIOUS
<1>8. PICK D : D = ToldSet /\ D = ToldSet'
  BY <1>1 DEF ToldSet
<1>9. told' \in [Chan -> {0, 1}]
  BY <1>1 DEF ClosesOnce
<1>10. CASE /\ Free(f) # {} /\ slots' = [slots EXCEPT ![fds[p]][Lowest(Free(f))] = c]
            /\ up' = up
  <2>1. PICK x, s : x = Lowest(Free(f)) /\ s = SetSlot(slots, t, x, c)
    OBVIOUS
  <2>2. x \in Fd /\ slots[t][x] = NoChan
    BY <2>1, <1>1, <1>10, LowestFree
  <2>3. slots' = s
    BY <2>1, <1>1, <1>10 DEF SetSlot
  <2>4. c \in ChanOrNone
    BY DEF ChanOrNone
  <2>5. /\ s \in [Table -> [Fd -> ChanOrNone]]
        /\ \A r \in Table : r # t => s[r] = slots[r]
    BY <2>1, <2>2, <2>4, <1>2, SlotTypes, SMTT(30)
  <2>6. /\ \A b : b \in Held(s, up) => b \in Held(slots, up) \/ b = c
        /\ \A b : b \in Held(slots, up) => b \in Held(s, up) \/ b = NoChan
    BY <2>1, <2>2, <2>4, <1>2, SlotHeld, SMTT(30)
  <2>7. \A b : b \in Held(slots, up) => b # NoChan
    BY HeldBy
  <2>8. CallsOK'
    <3>1. \A r \in Table : Unused(r)' => slots'[r] = Empty
      BY <1>1, <2>3, <2>5, OwnTable
    <3>2. \A q \in Proc : CallOK(up[q], fds[q])'
      BY <1>1, <1>10 DEF CallsOK, CallOK
    <3> QED
      BY <3>1, <3>2, <2>3, <2>5, <1>1, <1>10 DEF CallsOK
  <2>9. Once(T, Q, Held(s, up), D, O2)
    <3>1. PICK H, H2 : H = Held(slots, up) /\ H2 = Held(s, up)
      OBVIOUS
    <3>2. Once(T, Q, H, D, O)
      BY <3>1, <1>4, <1>5, <1>8
    <3>3. \A b \in Chan : b \in O2 <=> b \in O \/ b = c
      BY <1>6, <1>7
    <3>4. \A b \in Chan : b \in H2 => b \in H \/ b = c
      BY <2>6, <3>1
    <3>5. Once(T, Q, H2, D, O2)
      BY <3>2, <3>3, <3>4, <1>6, OnceOpened, SMTT(30)
    <3> QED
      BY <3>1, <3>5
  <2>10. Listed(T, Q)'
    BY <1>1, <1>4, <1>10, SameListed
  <2>11. Held(slots, up)' = Held(s, up)
    BY <2>3, <1>10
  <2>12. Books(T, Q)'
    BY <2>9, <2>10, <2>11, <1>7, <1>8 DEF Books
  <2>13. Covered(T, Q)
    BY <2>6, <2>7, <2>11 DEF Covered
  <2> QED
    BY <2>8, <2>12, <2>13, <1>9 DEF Accounted
<1>11. CASE Closing(up, p, "close", <<c>>) /\ slots' = slots
  <2>1. Lists(<<c>>, {c}) /\ <<c>> \in Seq(Chan)
    BY ListsFew, ListsChan
  <2>2. PICK cs, w : cs = <<c>> /\ w = ClosingCall(up[p], "close", cs, up[p].killed)
    OBVIOUS
  <2>3. CallsOK' /\ SetCall(up, p, w)
    <3>1. slots' \in [Table -> [Fd -> ChanOrNone]]
      BY <1>11 DEF CallsOK
    <3> QED
      BY <3>1, <2>1, <2>2, <1>1, <1>11, ClosingCalls
  <2>4. w.cell = up[p].cell /\ w.cs = cs /\ ~w.begun
    BY <2>2, ClosingFields, SMTT(30)
  <2>5. Lists(Todo(w), {c})
    BY <2>1, <2>2, <2>4 DEF Todo
  <2>6. PICK T2 : /\ Listed(T2, Q)' /\ T2[p] = {c}
                  /\ \A q \in Proc : q # p => T2[q] = T[q]
    <3>1. Lists(clunkq', Q)
      BY <1>1, <1>4 DEF Listed
    <3>2. Relist(T, p, {c}, Q)
      BY <3>1, <2>3, <2>5, <1>4, Relisted
    <3> QED
      BY <3>2 DEF Relist
  <2>7. \A q \in Proc : up'[q].cell = up[q].cell
    BY <2>3, <2>4 DEF SetCall
  <2>8. \A b : b \in Held(slots, up') <=> b \in Held(slots, up)
    BY <2>7, HeldCells
  <2>9. PICK H, H2 : H = Held(slots, up) /\ H2 = Held(slots', up')
    OBVIOUS
  <2>10. \A b : b \in H2 <=> b \in H
    BY <2>8, <2>9, <1>11
  <2>11. Once(T2, Q, H, D, O2)
    <3>1. Once(T, Q, H, D, O)
      BY <2>9, <1>4, <1>5, <1>8
    <3>2. \A b \in Chan : b \in O2 <=> b \in O \/ b = c
      BY <1>6, <1>7
    <3> QED
      BY <3>1, <3>2, <2>6, <1>6, OnceReturned, SMTT(30)
  <2>12. Once(T2, Q, H2, D, O2)
    BY <2>10, <2>11 DEF Once
  <2>13. Books(T2, Q)'
    BY <2>6, <2>9, <2>12, <1>7, <1>8 DEF Books
  <2>14. Covered(T2, Q)
    BY <2>9, <2>10 DEF Covered
  <2> QED
    BY <2>3, <2>13, <2>14, <1>9 DEF Accounted
<1> QED
  BY <1>1, <1>10, <1>11

\* A process lets its table go.
LEMMA LeaveKeeps ==
  ASSUME CallsOK, ClosesOnce, NEW p \in Proc, up[p].op = "user",
         NEW f \in [Proc -> Table \cup {NoTable}],
         NEW s \in [Table -> [Fd -> ChanOrNone]], NEW then,
         \/ then = "rfork" /\ f[p] \in Table
         \/ then \in Ends /\ f[p] = NoTable,
         \A q \in Proc : q # p => f[q] = fds[q],
         s[fds[p]] = slots[fds[p]],
         \A c : c \in Held(s, up) <=> c \in Held(slots, up),
         \A r \in Table : r # fds[p] /\ (\A q \in Proc : f[q] # r) => s[r] = Empty,
         Leave(p, f, s, then), chan' = chan, told' = told, clunkq' = clunkq
  PROVE  CallsOK' /\ Accounted
<1>1. PICK t, r : t = fds[p] /\ r = Released(t, f, s)
  OBVIOUS
<1>2. PICK cs : cs = Leavings(t, s, r, up)
  OBVIOUS
<1>3. /\ fds' = f /\ slots' = r
      /\ Closing([up EXCEPT ![p].killed = @ /\ then # "noimage"], p, then, cs)
  BY <1>1, <1>2 DEF Leave, Leavings
<1>4. t \in Table /\ up[p].cell = NoChan /\ up \in [Proc -> Calls]
  BY <1>1, UserHas DEF UserFacts, CallsOK
<1>5. /\ r \in [Table -> [Fd -> ChanOrNone]]
      /\ \A c : c \in Held(r, up) => c \in Held(s, up)
      /\ \E G : /\ Lists(cs, G)
                /\ \A c : c \in G <=> c \in Held(s, up) /\ c \notin Held(r, up)
  BY <1>1, <1>2, <1>4, LeaveHeld, SMTT(30)
<1>6. PICK G : /\ Lists(cs, G)
               /\ \A c : c \in G <=> c \in Held(s, up) /\ c \notin Held(r, up)
  BY <1>5
<1>7. cs \in Seq(Chan)
  BY <1>6, ListsChan
<1>8. then \in Ops
  BY DEF Ops, Ends
<1>9. PICK killed \in BOOLEAN : SetCall(up, p, ClosingCall(up[p], then, cs, killed))
  BY <1>3, <1>4, <1>7, <1>8, LeaveSets
<1>10. Accounted
  <2>1. /\ \A c : c \in Held(r, up) => c \in Held(slots, up)
        /\ \A c : c \in G <=> c \in Held(slots, up) /\ c \notin Held(r, up)
    BY <1>5, <1>6
  <2> QED
    BY <2>1, <1>3, <1>6, <1>9, ClosingStep
<1>11. CallsOK'
  <2>1. PICK w : w = ClosingCall(up[p], then, cs, killed)
    OBVIOUS
  <2>2. CallOK(w, f[p])
    <3>1. \/ then \in {"close", "rfork"} /\ f[p] \in Table
          \/ then \in Ends /\ f[p] = NoTable
      OBVIOUS
    <3> QED
      BY <3>1, <2>1, <1>4, ClosingOK
  <2>3. ASSUME NEW a \in Table, \A q \in Proc : f[q] # a
        PROVE  r[a] = Empty
    <3>1. CASE a = t
      <4>1. r = [s EXCEPT ![t] = Empty]
        BY <2>3, <3>1, <1>1 DEF Released
      <4> QED
        BY <4>1, <3>1, <1>4
    <3>2. CASE a # t
      <4>1. s[a] = Empty
        BY <2>3, <3>2, <1>1
      <4>2. r = s \/ r = [s EXCEPT ![t] = Empty]
        BY <1>1 DEF Released
      <4> QED
        BY <4>1, <4>2, <3>2
    <3> QED
      BY <3>1, <3>2
  <2>4. \A a \in Table : Unused(a)' => slots'[a] = Empty
    BY <2>3, <1>3 DEF Unused
  <2> QED
    BY <2>1, <2>2, <2>4, <1>3, <1>5, <1>9, CallsStep
<1> QED
  BY <1>10, <1>11

\* rfork without RFPROC.
LEMMA RforkSelfKeeps ==
  ASSUME CallsOK, ClosesOnce, NEW p \in Proc, RforkSelf(p)
  PROVE  CallsOK' /\ Accounted
<1>1. PICK t \in Table, g \in {slots[fds[p]], Empty} :
        /\ Unused(t) /\ Leave(p, [fds EXCEPT ![p] = t], [slots EXCEPT ![t] = g], "rfork")
  BY DEF RforkSelf
<1>2. /\ up[p].op = "user" /\ clunkq' = clunkq /\ chan' = chan /\ told' = told
  BY DEF RforkSelf, User, Returns
<1>3. fds[p] \in Table /\ fds[p] # t /\ slots[t] = Empty
  BY <1>1, <1>2, UserHas DEF UserFacts, Unused, CallsOK
<1>4. PICK f, s : f = [fds EXCEPT ![p] = t] /\ s = SetTable(slots, t, g)
  OBVIOUS
<1>5. /\ f \in [Proc -> Table \cup {NoTable}] /\ f[p] = t
      /\ \A q \in Proc : q # p => f[q] = fds[q]
  BY <1>4 DEF CallsOK
<1>6. /\ s \in [Table -> [Fd -> ChanOrNone]]
      /\ s[t] = g /\ \A a \in Table : a # t => s[a] = slots[a]
      /\ \A c : c \in Held(s, up) <=> c \in Held(slots, up)
  BY <1>3, <1>4, CopyHeld, SMTT(30)
<1>7. \A r \in Table : r # fds[p] /\ (\A q \in Proc : f[q] # r) => s[r] = Empty
  <2> SUFFICES ASSUME NEW r \in Table, r # fds[p], \A q \in Proc : f[q] # r
               PROVE  s[r] = Empty
    OBVIOUS
  <2>1. r # t /\ Unused(r)
    BY <1>5 DEF Unused
  <2> QED
    BY <2>1, <1>6 DEF CallsOK
<1>8. Leave(p, f, s, "rfork")
  BY <1>1, <1>4 DEF SetTable
<1>9. s[fds[p]] = slots[fds[p]]
  BY <1>3, <1>6
<1> QED
  BY <1>2, <1>5, <1>6, <1>7, <1>8, <1>9, LeaveKeeps, SMTT(30)

\* Exit, of itself or for a note.
LEMMA ExitKeeps ==
  ASSUME CallsOK, ClosesOnce, NEW p \in Proc, Exit(p) \/ Notified(p)
  PROVE  CallsOK' /\ Accounted
<1>1. PICK then \in Ends : Leave(p, [fds EXCEPT ![p] = NoTable], slots, then)
  <2>1. "exit" \in Ends /\ "noimage" \in Ends
    BY DEF Ends
  <2> QED
    BY <2>1 DEF Exit, Notified
<1>2. /\ up[p].op = "user" /\ clunkq' = clunkq /\ chan' = chan /\ told' = told
  BY DEF Exit, Notified, User, Returns
<1>3. PICK f : f = [fds EXCEPT ![p] = NoTable]
  OBVIOUS
<1>4. /\ f \in [Proc -> Table \cup {NoTable}] /\ f[p] = NoTable
      /\ \A q \in Proc : q # p => f[q] = fds[q]
  BY <1>3 DEF CallsOK
<1>5. \A r \in Table : r # fds[p] /\ (\A q \in Proc : f[q] # r) => slots[r] = Empty
  <2> SUFFICES ASSUME NEW r \in Table, r # fds[p], \A q \in Proc : f[q] # r
               PROVE  slots[r] = Empty
    OBVIOUS
  <2>1. Unused(r)
    BY <1>4 DEF Unused
  <2> QED
    BY <2>1 DEF CallsOK
<1>6. slots \in [Table -> [Fd -> ChanOrNone]] /\ Leave(p, f, slots, then)
  BY <1>1, <1>3 DEF CallsOK
<1> QED
  BY <1>2, <1>4, <1>5, <1>6, LeaveKeeps

\* rfork with RFPROC.
LEMMA RforkKeeps ==
  ASSUME CallsOK, ClosesOnce, NEW p \in Proc, NEW child \in Proc, Rfork(p, child)
  PROVE  CallsOK' /\ Accounted
<1>1. /\ up[p].op = "user" /\ up[child].op = "unborn"
      /\ up' = [up EXCEPT ![child] = Up("user")]
      /\ clunkq' = clunkq /\ chan' = chan /\ told' = told
  BY DEF Rfork, User, Returns
<1>2. fds[p] \in Table
  BY <1>1, UserHas DEF UserFacts
<1>3. CallOK(up[child], fds[child])
  BY DEF CallsOK
<1>4. /\ fds[child] \notin Table /\ up[child].cell = NoChan /\ up[child].cs = <<>>
      /\ ~up[child].begun
  <2>1. /\ up[child].op \notin Tabled /\ up[child].op \in Clear
        /\ up[child].op \notin {"read", "write"}
    BY <1>1 DEF Tabled, Clear
  <2> QED
    BY <2>1, <1>3 DEF CallOK
<1>5. PICK v : v = Up("user")
  OBVIOUS
<1>6. v.op = "user" /\ v.cell = NoChan /\ v.cs = <<>> /\ ~v.begun /\ v \in Calls
  <2>1. v.op = "user" /\ v.cell = NoChan /\ v.cs = <<>>
    BY <1>5 DEF Up
  <2>2. ~v.begun
    BY <1>5 DEF Up
  <2>3. v \in Calls
    BY <1>5, FgrpAssumption, SMTT(30) DEF Up, Calls, Ops, ChanOrNone
  <2> QED
    BY <2>1, <2>2, <2>3
<1>7. SetCall(up, child, v)
  <2>1. /\ up' = [up EXCEPT ![child] = v] /\ up \in [Proc -> Calls]
    BY <1>1, <1>5 DEF CallsOK
  <2>2. /\ up' \in [Proc -> Calls] /\ up'[child] = v
        /\ \A q \in Proc : q # child => up'[q] = up[q]
    BY <2>1, <1>6
  <2> QED
    BY <2>1, <2>2, <1>6 DEF SetCall
<1>8. PICK t \in Table :
        /\ fds' = [fds EXCEPT ![child] = t]
        /\ slots' \in [Table -> [Fd -> ChanOrNone]]
        /\ \A a \in Table : a # t => slots'[a] = slots[a]
        /\ \A c : c \in Held(slots', up) <=> c \in Held(slots, up)
  <2>1. CASE fds' = [fds EXCEPT ![child] = fds[p]] /\ slots' = slots
    BY <2>1, <1>2 DEF CallsOK
  <2>2. CASE \E t \in Table, f \in {slots[fds[p]], Empty} :
               /\ Unused(t) /\ fds' = [fds EXCEPT ![child] = t]
               /\ slots' = [slots EXCEPT ![t] = f]
    <3>1. PICK t \in Table, f \in {slots[fds[p]], Empty} :
               /\ Unused(t) /\ fds' = [fds EXCEPT ![child] = t]
               /\ slots' = SetTable(slots, t, f)
      BY <2>2 DEF SetTable
    <3>2. slots[t] = Empty
      BY <3>1 DEF CallsOK
    <3>3. /\ slots' \in [Table -> [Fd -> ChanOrNone]]
          /\ \A a \in Table : a # t => slots'[a] = slots[a]
          /\ \A c : c \in Held(slots', up) <=> c \in Held(slots, up)
      BY <3>1, <3>2, <1>2, CopyHeld, SMTT(30)
    <3> QED
      BY <3>1, <3>3
  <2> QED
    BY <2>1, <2>2 DEF Rfork
<1>9. /\ fds' \in [Proc -> Table \cup {NoTable}] /\ fds'[child] = t
      /\ \A q \in Proc : q # child => fds'[q] = fds[q]
  BY <1>8 DEF CallsOK
<1>10. CallOK(v, fds'[child])
  <2>1. v.op \in Tabled /\ v.op \notin {"read", "write"} /\ v.op # "write"
    BY <1>6 DEF Tabled
  <2> QED
    BY <2>1, <1>6, <1>9 DEF CallOK
<1>11. \A a \in Table : Unused(a)' => slots'[a] = Empty
  <2> SUFFICES ASSUME NEW a \in Table, Unused(a)'
               PROVE  slots'[a] = Empty
    OBVIOUS
  <2>1. a # t /\ \A q \in Proc : fds[q] # a
    BY <1>4, <1>9 DEF Unused
  <2> QED
    BY <2>1, <1>8 DEF Unused, CallsOK
<1>12. CallsOK'
  BY <1>7, <1>8, <1>9, <1>10, <1>11, CallsStep
<1>13. \A q \in Proc : up'[q].cell = up[q].cell
  BY <1>4, <1>6, <1>7 DEF SetCall
<1>14. \A c : c \in Held(slots', up') <=> c \in Held(slots, up)
  <2>1. \A c : c \in Held(slots', up') <=> c \in Held(slots', up)
    BY <1>13, HeldCells
  <2> QED
    BY <2>1, <1>8
<1>15. Todo(v) = Todo(up[child]) /\ OpenSet' = OpenSet
  BY <1>1, <1>4, <1>6 DEF Todo, OpenSet
<1>16. Accounted
  BY <1>1, <1>7, <1>14, <1>15, KeptStep
<1> QED
  BY <1>12, <1>16

\* A kill.
LEMMA KillKeeps ==
  ASSUME CallsOK, ClosesOnce, NEW p \in Proc, Kill(p)
  PROVE  CallsOK' /\ Accounted
<1>1. /\ up' = [up EXCEPT ![p].killed = TRUE] /\ fds' = fds /\ slots' = slots
      /\ chan' = chan /\ told' = told /\ clunkq' = clunkq /\ up \in [Proc -> Calls]
  BY DEF Kill, CallsOK
<1>2. PICK yes \in BOOLEAN : yes = TRUE
  OBVIOUS
<1>3. up' = SetKilled(up, p, yes)
  BY <1>1, <1>2 DEF SetKilled
<1>4. /\ up' \in [Proc -> Calls] /\ up' = [up EXCEPT ![p] = up'[p]]
      /\ up'[p] = [op |-> up[p].op, cell |-> up[p].cell, at |-> up[p].at, n |-> up[p].n,
                   cs |-> up[p].cs, begun |-> up[p].begun, killed |-> yes]
      /\ \A q \in Proc : q # p => up'[q] = up[q]
  <2>1. PICK u : u = up'
    OBVIOUS
  <2>2. u = SetKilled(up, p, yes) /\ up \in [Proc -> Calls]
    BY <1>1, <1>3, <2>1
  <2>3. /\ u \in [Proc -> Calls] /\ u = [up EXCEPT ![p] = u[p]]
        /\ u[p] = [op |-> up[p].op, cell |-> up[p].cell, at |-> up[p].at, n |-> up[p].n,
                   cs |-> up[p].cs, begun |-> up[p].begun, killed |-> yes]
        /\ \A q \in Proc : q # p => u[q] = up[q]
    BY <2>2, KilledSets, SMTT(30)
  <2> QED
    BY <2>1, <2>3
<1>5. PICK v \in Calls : v = up'[p]
  BY <1>4
<1>6. SetCall(up, p, v)
  BY <1>4, <1>5 DEF SetCall
<1>7. PICK begun : begun = up[p].begun
  OBVIOUS
<1>8. v = [op |-> up[p].op, cell |-> up[p].cell, at |-> up[p].at, n |-> up[p].n,
           cs |-> up[p].cs, begun |-> begun, killed |-> yes]
  BY <1>4, <1>5, <1>7
<1>9. /\ v.op = up[p].op /\ v.cell = up[p].cell /\ v.at = up[p].at /\ v.n = up[p].n
      /\ v.cs = up[p].cs /\ v.begun = begun
  BY <1>8
<1>10. CallOK(v, fds'[p])
  <2>1. CallOK(up[p], fds[p])
    BY DEF CallsOK
  <2> QED
    BY <2>1, <1>1, <1>7, <1>9 DEF CallOK
<1>11. CallsOK'
  <2>1. \A t \in Table : Unused(t)' => slots'[t] = Empty
    BY <1>1, OwnTable
  <2>2. /\ fds' \in [Proc -> Table \cup {NoTable}] /\ \A q \in Proc : fds'[q] = fds[q]
        /\ slots' \in [Table -> [Fd -> ChanOrNone]]
    BY <1>1 DEF CallsOK
  <2> QED
    BY <2>1, <2>2, <1>6, <1>10, CallsStep
<1>12. \A q \in Proc : up'[q].cell = up[q].cell
  BY <1>6, <1>9 DEF SetCall
<1>13. \A c : c \in Held(slots', up') <=> c \in Held(slots, up)
  BY <1>1, <1>12, HeldCells
<1>14. Todo(v) = Todo(up[p]) /\ OpenSet' = OpenSet
  BY <1>1, <1>7, <1>9 DEF Todo, OpenSet
<1>15. Accounted
  BY <1>1, <1>6, <1>13, <1>14, KeptStep
<1> QED
  BY <1>11, <1>15

\* What a turn leaves a closer: A is handed to closeproc, G is left to close
\* after the head of `keep'.
TurnSets(u, S, keep, handed, A, G) ==
    /\ Lists(handed, A)
    /\ keep # <<>> => Lists(Tail(keep), G)
    /\ keep = <<>> => G = {}
    /\ \/ A = S /\ G = {} /\ (u.begun \/ keep = <<>>)
       \/ A = {} /\ G = S /\ u.begun /\ keep # <<>>
       \/ /\ A = {} /\ ~u.begun /\ keep # <<>> /\ Head(keep) \in S
          /\ Head(keep) \in Chan /\ G = S \ {Head(keep)}

\* One turn of the loop that closes: what is handed over, and what is left.
LEMMA TurnLists ==
  ASSUME NEW u \in Calls, u.cs # <<>>, NEW S, Lists(Todo(u), S), NEW keep, keep = Kept(u),
         NEW handed, handed = SubSeq(u.cs, Len(keep) + 1, Len(u.cs))
  PROVE  /\ keep \in Seq(Chan)
         /\ \E A, G : TurnSets(u, S, keep, handed, A, G)
<1> USE DEF TurnSets
<1>1. PICK cs, n : cs = u.cs /\ n = Len(cs)
  OBVIOUS
<1>2. cs \in Seq(Chan) /\ cs # <<>> /\ u.begun \in BOOLEAN
  BY <1>1, FieldTypes
<1>3. n \in Nat \ {0} /\ Head(cs) \in Chan /\ Tail(cs) \in Seq(Chan)
  BY <1>1, <1>2, SMTT(30)
<1>4. CASE ~u.killed \/ u.op = "close"
  <2>1. keep = cs
    BY <1>1, <1>4 DEF Kept
  <2>2. handed = <<>>
    <3>1. handed = SubSeq(cs, n + 1, n)
      BY <2>1, <1>1
    <3> QED
      BY <3>1, <1>2, <1>3, SMTT(30)
  <2>3. CASE u.begun
    <3>1. Lists(Tail(keep), S)
      BY <2>1, <2>3, <1>1 DEF Todo
    <3> QED
      BY <3>1, <2>1, <2>2, <2>3, <1>2, ListsFew
  <2>4. CASE ~u.begun
    <3>1. Lists(cs, S)
      BY <2>4, <1>1 DEF Todo
    <3>2. Head(cs) \in S /\ Lists(Tail(cs), S \ {Head(cs)})
      BY <3>1, <1>2, ListsTail
    <3> QED
      BY <3>2, <2>1, <2>2, <2>4, <1>2, <1>3, ListsFew
  <2> QED
    BY <2>3, <2>4
<1>5. CASE u.killed /\ u.op # "close" /\ u.begun
  <2>1. keep = <<Head(cs)>>
    BY <1>1, <1>5 DEF Kept
  <2>2. keep \in Seq(Chan) /\ Len(keep) = 1 /\ Tail(keep) = <<>> /\ keep # <<>>
    BY <2>1, <1>3, SMTT(30)
  <2>3. handed = Tail(cs)
    <3>1. handed = SubSeq(cs, 1 + 1, n)
      BY <2>2, <1>1
    <3> QED
      BY <3>1, <1>1, <1>2, <1>3, SMTT(30)
  <2>4. Lists(handed, S)
    BY <2>3, <1>1, <1>5 DEF Todo
  <2> QED
    BY <2>2, <2>4, <1>5, ListsFew
<1>6. CASE u.killed /\ u.op # "close" /\ ~u.begun
  <2>1. keep = <<>>
    BY <1>6 DEF Kept
  <2>2. keep \in Seq(Chan) /\ Len(keep) = 0
    BY <2>1, SMTT(30)
  <2>3. handed = cs
    <3>1. handed = SubSeq(cs, 0 + 1, n)
      BY <2>2, <1>1
    <3> QED
      BY <3>1, <1>1, <1>2, <1>3, SMTT(30)
  <2>4. Lists(handed, S)
    BY <2>3, <1>1, <1>6 DEF Todo
  <2> QED
    BY <2>1, <2>2, <2>4
<1> QED
  BY <1>4, <1>5, <1>6

\* The channel told of is one that was not.
LEMMA ToldStep ==
  ASSUME told \in [Chan -> {0, 1}], NEW c \in Chan, c \notin ToldSet,
         told' = [told EXCEPT ![c] = @ + 1]
  PROVE  /\ told' \in [Chan -> {0, 1}]
         /\ \A b \in Chan : b \in ToldSet' => b \in ToldSet \/ b = c
<1>1. told[c] = 0
  BY DEF ToldSet
<1>2. told' = [told EXCEPT ![c] = 1]
  BY <1>1, SMTT(30)
<1> QED
  BY <1>2 DEF ToldSet

\* The books after a turn: the list is one of G, A is handed over and B told.
LEMMA TurnBooks ==
  ASSUME NEW T, NEW Q, Books(T, Q), NEW p \in Proc, NEW v, SetCall(up, p, v),
         v.cell = up[p].cell, slots' = slots, chan' = chan,
         told' \in [Chan -> {0, 1}],
         NEW A, NEW handed, Lists(handed, A), clunkq' = clunkq \o handed,
         NEW G, Lists(Todo(v), G),
         \A c \in Chan : c \in ToldSet' => c \in ToldSet \/ c \in T[p],
         \A c \in Chan : c \in G => c \in T[p] /\ c \notin A /\ c \notin ToldSet',
         \A c \in Chan : c \in A => c \in T[p] /\ c \notin ToldSet'
  PROVE  Accounted
<1>1. Listed(T, Q) /\ Once(T, Q, Held(slots, up), ToldSet, OpenSet)
  BY DEF Books
<1>2. Lists(clunkq, Q) /\ Q \in SUBSET Chan
  BY <1>1 DEF Listed
<1>3. A \in SUBSET Chan
  BY ListsChan
<1>4. Q \cap A = {}
  BY <1>1, <1>3 DEF Once
<1>5. PICK R : R = Q \cup A
  OBVIOUS
<1>6. Lists(clunkq', R)
  BY <1>2, <1>4, <1>5, ListsJoin
<1>7. PICK T2 : /\ Listed(T2, R)' /\ T2[p] = G
                /\ \A q \in Proc : q # p => T2[q] = T[q]
  <2>1. Relist(T, p, G, R)
    BY <1>1, <1>6, Relisted
  <2> QED
    BY <2>1 DEF Relist
<1>8. PICK H, D, D2, O : /\ H = Held(slots, up) /\ D = ToldSet /\ D2 = ToldSet'
                         /\ O = OpenSet
  OBVIOUS
<1>9. Once(T, Q, H, D, O)
  BY <1>1, <1>8
<1>10. Once(T2, R, H, D2, O)
  <2>1. \A c \in Chan : c \in T2[p] => c \in T[p] /\ c \notin R /\ c \notin D2
    <3> SUFFICES ASSUME NEW c \in Chan, c \in T2[p]
                 PROVE  c \in T[p] /\ c \notin R /\ c \notin D2
      OBVIOUS
    <3>1. c \in T[p] /\ c \notin A /\ c \notin D2
      BY <1>7, <1>8
    <3>2. c \notin Q
      BY <3>1, <1>9 DEF Once
    <3> QED
      BY <3>1, <3>2, <1>5
  <2>2. \A c \in Chan : c \in R => c \in Q \/ (c \in T[p] /\ c \notin D2)
    BY <1>5, <1>8
  <2>3. \A c \in Chan : c \in D2 => c \in D \/ c \in T[p]
    BY <1>8
  <2>4. HandsOver(p, T, Q, D, T2, R, D2)
    BY <2>1, <2>2, <2>3, <1>7 DEF HandsOver
  <2> QED
    BY <2>4, <1>9, OnceClosed
<1>11. \A q \in Proc : up'[q].cell = up[q].cell
  BY DEF SetCall
<1>12. \A c : c \in Held(slots, up') <=> c \in Held(slots, up)
  BY <1>11, HeldCells
<1>13. PICK H2 : H2 = Held(slots', up')
  OBVIOUS
<1>14. \A c : c \in H2 <=> c \in H
  BY <1>8, <1>12, <1>13
<1>15. Once(T2, R, H2, D2, O)
  BY <1>10, <1>14 DEF Once
<1>16. OpenSet' = O
  BY <1>8 DEF OpenSet
<1>17. Books(T2, R)'
  BY <1>7, <1>8, <1>13, <1>15, <1>16 DEF Books
<1>18. Covered(T2, R)
  BY <1>8, <1>13, <1>14 DEF Covered
<1> QED
  BY <1>17, <1>18 DEF Accounted

\* A process that has something to close is in a call that closes.
LEMMA CloserHas ==
  ASSUME CallsOK, NEW p \in Proc, up[p].cs # <<>>
  PROVE  /\ up[p].cell = NoChan /\ up[p].op \notin Clear
         /\ \/ up[p].op \in {"close", "rfork"} /\ fds[p] \in Table
            \/ up[p].op \in Ends /\ fds[p] = NoTable
<1>1. CallOK(up[p], fds[p]) /\ up[p].op \in Ops /\ fds[p] \in Table \cup {NoTable}
  BY FieldTypes DEF CallsOK
<1>2. up[p].op \notin Clear
  BY <1>1 DEF CallOK
<1>3. up[p].op \in {"close", "rfork"} \/ up[p].op \in Ends
  BY <1>1, <1>2 DEF Ops, Clear
<1>4. up[p].op \notin {"read", "write"}
  BY <1>2 DEF Clear
<1>5. CASE up[p].op \in {"close", "rfork"}
  <2>1. up[p].op \in Tabled
    BY <1>5 DEF Tabled
  <2> QED
    BY <2>1, <1>1, <1>2, <1>4, <1>5 DEF CallOK
<1>6. CASE up[p].op \in Ends
  <2>1. up[p].op \notin Tabled
    BY <1>6 DEF Tabled, Ends
  <2>2. fds[p] \notin Table
    BY <2>1, <1>1 DEF CallOK
  <2> QED
    BY <2>2, <1>1, <1>2, <1>4, <1>6 DEF CallOK
<1> QED
  BY <1>3, <1>5, <1>6

\* How a turn leaves the call: `next' is what is left in its list.
Turned(p, keep, next) ==
    \/ /\ keep # <<>> /\ next = Tail(keep)
       /\ \/ up' = [up EXCEPT ![p].cs = keep, ![p].begun = TRUE]
          \/ Closing(up, p, up[p].op, Tail(keep))
    \/ next = <<>> /\ Closing(up, p, up[p].op, <<>>)

\* The call after a turn keeps to its form, and is about no file.
LEMMA TurnCall ==
  ASSUME CallsOK, NEW p \in Proc, up[p].cs # <<>>, NEW keep \in Seq(Chan), NEW next,
         Turned(p, keep, next)
  PROVE  \E v : /\ SetCall(up, p, v) /\ CallOK(v, fds[p]) /\ v.cell = up[p].cell
                /\ Todo(v) = next
<1>1. /\ up[p].cell = NoChan /\ up[p].op \notin Clear
      /\ \/ up[p].op \in {"close", "rfork"} /\ fds[p] \in Table
         \/ up[p].op \in Ends /\ fds[p] = NoTable
  BY CloserHas
<1>2. up \in [Proc -> Calls] /\ CallOK(up[p], fds[p])
  BY DEF CallsOK
<1>3. up[p].op \in Ops
  BY <1>2, FieldTypes
<1>4. ASSUME NEW cs \in Seq(Chan), Closing(up, p, up[p].op, cs), next = cs
      PROVE  \E v : /\ SetCall(up, p, v) /\ CallOK(v, fds[p]) /\ v.cell = up[p].cell
                    /\ Todo(v) = next
  <2>1. PICK v : v = ClosingCall(up[p], up[p].op, cs, up[p].killed)
    OBVIOUS
  <2>2. SetCall(up, p, v)
    BY <2>1, <1>2, <1>3, <1>4, ClosingSets
  <2>3. CallOK(v, fds[p])
    BY <2>1, <1>1, ClosingOK
  <2>4. v.cell = up[p].cell /\ v.cs = cs /\ ~v.begun
    BY <2>1, ClosingFields, SMTT(30)
  <2>5. Todo(v) = next
    BY <2>4, <1>4 DEF Todo
  <2> QED
    BY <2>2, <2>3, <2>4, <2>5
<1>5. CASE /\ keep # <<>> /\ next = Tail(keep)
           /\ up' = [up EXCEPT ![p].cs = keep, ![p].begun = TRUE]
  <2>1. PICK yes : yes = TRUE
    OBVIOUS
  <2>2. PICK v : v = [op |-> up[p].op, cell |-> up[p].cell, at |-> up[p].at,
                      n |-> up[p].n, cs |-> keep, begun |-> yes, killed |-> up[p].killed]
    OBVIOUS
  <2>3. SetCall(up, p, v)
    BY <2>1, <2>2, <1>2, <1>5, BegunSets
  <2>4. v.op = up[p].op /\ v.cell = up[p].cell /\ v.cs = keep /\ v.begun = yes
    BY <2>2
  <2>5. v.op \notin {"read", "write"} /\ v.op # "write"
    BY <2>4, <1>1 DEF Clear
  <2>6. CallOK(v, fds[p])
    BY <2>1, <2>4, <2>5, <1>1, <1>2, <1>5 DEF CallOK
  <2>7. Todo(v) = next
    BY <2>1, <2>4, <1>5 DEF Todo
  <2> QED
    BY <2>3, <2>4, <2>6, <2>7
<1>6. CASE keep # <<>> /\ next = Tail(keep) /\ Closing(up, p, up[p].op, Tail(keep))
  <2>1. Tail(keep) \in Seq(Chan)
    BY <1>6, SMTT(30)
  <2> QED
    BY <2>1, <1>4, <1>6
<1>7. CASE next = <<>> /\ Closing(up, p, up[p].op, <<>>)
  <2>1. <<>> \in Seq(Chan)
    BY SMTT(30)
  <2> QED
    BY <2>1, <1>4, <1>7
<1> QED
  BY <1>5, <1>6, <1>7 DEF Turned

\* One turn.
LEMMA CloseStepKeeps ==
  ASSUME CallsOK, ClosesOnce, NEW p \in Proc, CloseStep(p)
  PROVE  CallsOK' /\ Accounted
<1>1. PICK u, keep : u = up[p] /\ keep = Kept(u)
  OBVIOUS
<1>2. PICK handed : handed = SubSeq(u.cs, Len(keep) + 1, Len(u.cs))
  OBVIOUS
<1>3. /\ u.cs # <<>> /\ clunkq' = clunkq \o handed
      /\ fds' = fds /\ slots' = slots /\ chan' = chan
  BY <1>1, <1>2 DEF CloseStep
<1>4. \/ /\ keep # <<>>
         /\ told' = IF u.begun THEN told ELSE [told EXCEPT ![Head(keep)] = @ + 1]
         /\ \/ up' = [up EXCEPT ![p].cs = keep, ![p].begun = TRUE]
            \/ Closing(up, p, u.op, Tail(keep))
      \/ keep = <<>> /\ Closing(up, p, u.op, <<>>) /\ told' = told
  BY <1>1, <1>2 DEF CloseStep
<1>5. PICK T, Q : Books(T, Q)
  BY DEF ClosesOnce
<1>6. PICK S : S = T[p]
  OBVIOUS
<1>7. Lists(Todo(u), S) /\ Once(T, Q, Held(slots, up), ToldSet, OpenSet)
  BY <1>1, <1>5, <1>6 DEF Books, Listed
<1>8. u \in Calls
  BY <1>1 DEF CallsOK
<1>9. /\ keep \in Seq(Chan)
      /\ \E A, G : TurnSets(u, S, keep, handed, A, G)
  BY <1>1, <1>2, <1>3, <1>7, <1>8, TurnLists
<1>10. PICK A, G :
         /\ Lists(handed, A)
         /\ keep # <<>> => Lists(Tail(keep), G)
         /\ keep = <<>> => G = {}
         /\ \/ A = S /\ G = {} /\ (u.begun \/ keep = <<>>)
            \/ A = {} /\ G = S /\ u.begun /\ keep # <<>>
            \/ /\ A = {} /\ ~u.begun /\ keep # <<>> /\ Head(keep) \in S
               /\ Head(keep) \in Chan /\ G = S \ {Head(keep)}
  BY <1>9 DEF TurnSets
<1>11. PICK next : next = IF keep = <<>> THEN <<>> ELSE Tail(keep)
  OBVIOUS
<1>12. Lists(next, G)
  BY <1>10, <1>11, ListsFew
<1>13. PICK v : /\ SetCall(up, p, v) /\ CallOK(v, fds[p]) /\ v.cell = up[p].cell
                /\ Todo(v) = next
  <2>1. Turned(p, keep, next)
    BY <1>1, <1>4, <1>11 DEF Turned
  <2> QED
    BY <2>1, <1>1, <1>3, <1>9, TurnCall
<1>14. CallsOK'
  <2>1. \A t \in Table : Unused(t)' => slots'[t] = Empty
    BY <1>3, OwnTable
  <2>2. /\ fds' \in [Proc -> Table \cup {NoTable}] /\ \A q \in Proc : fds'[q] = fds[q]
        /\ slots' \in [Table -> [Fd -> ChanOrNone]]
    BY <1>3 DEF CallsOK
  <2> QED
    BY <2>1, <2>2, <1>3, <1>13, CallsStep
<1>15. \A c \in Chan : c \in S => c \notin ToldSet
  BY <1>6, <1>7 DEF Once
<1>16. told \in [Chan -> {0, 1}] /\ Lists(Todo(v), G)
  BY <1>12, <1>13 DEF ClosesOnce
<1>17. CASE told' = told /\ ((A = S /\ G = {}) \/ (A = {} /\ G = S))
  <2>1. ToldSet' = ToldSet
    BY <1>17 DEF ToldSet
  <2>2. /\ \A c \in Chan : c \in ToldSet' => c \in ToldSet \/ c \in T[p]
        /\ \A c \in Chan : c \in G => c \in T[p] /\ c \notin A /\ c \notin ToldSet'
        /\ \A c \in Chan : c \in A => c \in T[p] /\ c \notin ToldSet'
    BY <2>1, <1>6, <1>15, <1>17
  <2>3. Accounted
    BY <2>2, <1>3, <1>5, <1>10, <1>13, <1>16, <1>17, TurnBooks
  <2> QED
    BY <2>3, <1>14
<1>18. CASE /\ A = {} /\ keep # <<>> /\ Head(keep) \in S /\ Head(keep) \in Chan
            /\ G = S \ {Head(keep)} /\ told' = [told EXCEPT ![Head(keep)] = @ + 1]
  <2>1. PICK h \in Chan : h = Head(keep)
    BY <1>18
  <2>2. /\ told' \in [Chan -> {0, 1}]
        /\ \A b \in Chan : b \in ToldSet' => b \in ToldSet \/ b = h
    <3>1. told' = [told EXCEPT ![h] = @ + 1] /\ h \notin ToldSet
      BY <2>1, <1>15, <1>18
    <3> QED
      BY <3>1, <1>16, ToldStep
  <2>3. /\ \A c \in Chan : c \in ToldSet' => c \in ToldSet \/ c \in T[p]
        /\ \A c \in Chan : c \in G => c \in T[p] /\ c \notin A /\ c \notin ToldSet'
        /\ \A c \in Chan : c \in A => c \in T[p] /\ c \notin ToldSet'
    BY <2>1, <2>2, <1>6, <1>15, <1>18
  <2>4. Accounted
    BY <2>2, <2>3, <1>3, <1>5, <1>10, <1>13, <1>16, TurnBooks
  <2> QED
    BY <2>4, <1>14
<1> QED
  <2>1. CASE keep = <<>>
    <3>1. told' = told
      BY <2>1, <1>4
    <3>2. A = S /\ G = {}
      BY <2>1, <1>10
    <3>3. told' = told /\ ((A = S /\ G = {}) \/ (A = {} /\ G = S))
      BY <3>1, <3>2
    <3> QED
      BY <3>3, <1>17
  <2>2. CASE keep # <<>> /\ u.begun
    <3>1. told' = told
      BY <2>2, <1>4
    <3>2. (A = S /\ G = {}) \/ (A = {} /\ G = S)
      BY <2>2, <1>10
    <3>3. told' = told /\ ((A = S /\ G = {}) \/ (A = {} /\ G = S))
      BY <3>1, <3>2
    <3> QED
      BY <3>3, <1>17
  <2>3. CASE keep # <<>> /\ ~u.begun
    BY <2>3, <1>4, <1>10, <1>18
  <2> QED
    BY <2>1, <2>2, <2>3
\* ctl's close takes the slots xs of table t, and what was in them is gone.
Cleared(t, xs) ==
    [slots EXCEPT ![t] = [x \in Fd |-> IF x \in xs THEN NoChan ELSE slots[t][x]]]
Gone(t, xs) == [x \in Fd |-> IF x \in xs THEN slots[t][x] ELSE NoChan]

\* What is held then, and what was in the slots.
LEMMA CtlHeld ==
  ASSUME CallsOK, NEW t \in Table, NEW xs, NEW s, s = Cleared(t, xs), NEW g, g = Gone(t, xs)
  PROVE  /\ s \in [Table -> [Fd -> ChanOrNone]] /\ g \in [Fd -> ChanOrNone]
         /\ \A r \in Table : r # t => s[r] = slots[r]
         /\ \A c : c \in Held(s, up) => c \in Held(slots, up)
         /\ \A c : c \in Held(slots, up) => c \in Held(s, up) \/ c \in In(g)
         /\ \A c : c \in In(g) => c \in Held(slots, up)
<1>1. slots \in [Table -> [Fd -> ChanOrNone]] /\ NoChan \in ChanOrNone
  BY DEF CallsOK, ChanOrNone
<1>2. /\ s \in [Table -> [Fd -> ChanOrNone]]
      /\ \A r \in Table : r # t => s[r] = slots[r]
      /\ \A x \in Fd : s[t][x] = IF x \in xs THEN NoChan ELSE slots[t][x]
  BY <1>1 DEF Cleared
<1>3. /\ g \in [Fd -> ChanOrNone]
      /\ \A x \in Fd : g[x] = IF x \in xs THEN slots[t][x] ELSE NoChan
  BY <1>1 DEF Gone
<1>4. \A c : InSlot(s, c) => c = NoChan \/ InSlot(slots, c)
  BY <1>2 DEF InSlot
<1>5. \A c : InSlot(slots, c) => c = NoChan \/ c \in In(g) \/ InSlot(s, c)
  <2> SUFFICES ASSUME NEW c, NEW r \in Table, NEW x \in Fd, slots[r][x] = c, c # NoChan
               PROVE  c \in In(g) \/ \E a \in Table, y \in Fd : s[a][y] = c
    BY DEF InSlot
  <2>1. CASE r # t \/ x \notin xs
    BY <2>1, <1>2
  <2>2. CASE r = t /\ x \in xs
    <3>1. g[x] = c
      BY <2>2, <1>3
    <3> QED
      BY <3>1 DEF In
  <2> QED
    BY <2>1, <2>2
<1>6. \A c : c \in In(g) => c # NoChan /\ InSlot(slots, c)
  <2> SUFFICES ASSUME NEW c, c \in In(g)
               PROVE  c # NoChan /\ InSlot(slots, c)
    OBVIOUS
  <2>1. PICK x \in Fd : c = g[x] /\ c # NoChan
    BY DEF In
  <2>2. slots[t][x] = c
    BY <2>1, <1>3
  <2> QED
    BY <2>1, <2>2 DEF InSlot
<1> QED
  BY <1>2, <1>3, <1>4, <1>5, <1>6, HeldBy

\* ctl's close.
LEMMA CtlCloseKeeps ==
  ASSUME CallsOK, ClosesOnce, NEW p \in Proc, NEW q \in Proc, NEW xs, CtlClose(p, q, xs)
  PROVE  CallsOK' /\ Accounted
<1>1. PICK t, s, g : t = fds[q] /\ s = Cleared(t, xs) /\ g = Gone(t, xs)
  OBVIOUS
<1>2. PICK cs : cs = Lastrefs(g, s, up)
  OBVIOUS
<1>3. /\ t # NoTable /\ slots' = s /\ clunkq' = clunkq \o cs
      /\ fds' = fds /\ up' = up /\ chan' = chan /\ told' = told
  BY <1>1, <1>2 DEF CtlClose, Cleared, Gone
<1>4. t \in Table
  BY <1>1, <1>3 DEF CallsOK
<1>5. /\ s \in [Table -> [Fd -> ChanOrNone]] /\ g \in [Fd -> ChanOrNone]
      /\ \A r \in Table : r # t => s[r] = slots[r]
      /\ \A c : c \in Held(s, up) => c \in Held(slots, up)
      /\ \A c : c \in Held(slots, up) => c \in Held(s, up) \/ c \in In(g)
      /\ \A c : c \in In(g) => c \in Held(slots, up)
  BY <1>1, <1>4, CtlHeld, SMTT(30)
<1>6. CallsOK'
  <2>1. \A r \in Table : Unused(r)' => slots'[r] = Empty
    BY <1>1, <1>3, <1>5, OwnTable
  <2>2. \A r \in Proc : CallOK(up[r], fds[r])'
    BY <1>3 DEF CallsOK, CallOK
  <2> QED
    BY <2>1, <2>2, <1>3, <1>5 DEF CallsOK
<1>7. PICK T, Q : Books(T, Q)
  BY DEF ClosesOnce
<1>8. Listed(T, Q) /\ Once(T, Q, Held(slots, up), ToldSet, OpenSet)
  BY <1>7 DEF Books
<1>9. PICK H, H2, A : H = Held(slots, up) /\ H2 = Held(s, up) /\ A = In(g) \ H2
  OBVIOUS
<1>10. PICK D, O : D = ToldSet /\ O = OpenSet /\ D = ToldSet' /\ O = OpenSet'
  BY <1>3 DEF ToldSet, OpenSet
<1>11. Once(T, Q, H, D, O)
  BY <1>8, <1>9, <1>10
<1>12. Lists(cs, A)
  BY <1>2, <1>5, <1>9, LastrefsLists
<1>13. \A c : c \in A <=> c \in H /\ c \notin H2
  BY <1>5, <1>9
<1>14. Lists(clunkq, Q) /\ Q \in SUBSET Chan /\ A \in SUBSET Chan
  BY <1>8, <1>12, ListsChan DEF Listed
<1>15. Q \cap A = {}
  BY <1>11, <1>13, <1>14 DEF Once
<1>16. PICK R : R = Q \cup A
  OBVIOUS
<1>17. Lists(clunkq', R)
  BY <1>3, <1>12, <1>14, <1>15, <1>16, ListsJoin
<1>18. Listed(T, R)'
  BY <1>3, <1>8, <1>14, <1>16, <1>17 DEF Listed
<1>19. Once(T, R, H2, D, O)
  <2>1. \A c \in Chan : c \in H2 => c \in H
    BY <1>5, <1>9
  <2>2. \A c \in Chan : c \in R => c \in Q \/ (c \in H /\ c \notin H2)
    BY <1>13, <1>16
  <2> QED
    BY <2>1, <2>2, <1>11, OnceQueued
<1>20. Held(slots, up)' = H2
  BY <1>3, <1>9
<1>21. Books(T, R)'
  BY <1>10, <1>18, <1>19, <1>20 DEF Books
<1>22. Covered(T, R)
  BY <1>9, <1>13, <1>16, <1>20 DEF Covered
<1> QED
  BY <1>3, <1>6, <1>21, <1>22 DEF Accounted, ClosesOnce

\* closeproc takes the first channel of the queue and tells its device.
LEMMA ServedKeeps ==
  ASSUME CallsOK, ClosesOnce, clunkq # <<>>, clunkq' = Tail(clunkq),
         told' = [told EXCEPT ![Head(clunkq)] = @ + 1],
         UNCHANGED <<fds, slots, up, chan>>
  PROVE  CallsOK' /\ Accounted
<1>1. CallsOK'
  BY DEF CallsOK, CallOK, Unused
<1>2. PICK T, Q : Books(T, Q)
  BY DEF ClosesOnce
<1>3. Listed(T, Q) /\ Once(T, Q, Held(slots, up), ToldSet, OpenSet)
  BY <1>2 DEF Books
<1>4. Lists(clunkq, Q) /\ Q \in SUBSET Chan
  BY <1>3 DEF Listed
<1>5. Head(clunkq) \in Q /\ Head(clunkq) \in Chan /\ Lists(Tail(clunkq), Q \ {Head(clunkq)})
  BY <1>4, ListsTail
<1>6. PICK h \in Chan : h = Head(clunkq)
  BY <1>5
<1>7. PICK R : R = Q \ {h}
  OBVIOUS
<1>8. Lists(clunkq', R) /\ R \in SUBSET Chan /\ h \in Q
  BY <1>4, <1>5, <1>6, <1>7
<1>9. PICK H, D, D2, O : H = Held(slots, up) /\ D = ToldSet /\ D2 = ToldSet' /\ O = OpenSet
  OBVIOUS
<1>10. Once(T, Q, H, D, O)
  BY <1>3, <1>9
<1>11. h \notin D
  BY <1>8, <1>10 DEF Once
<1>12. told' \in [Chan -> {0, 1}] /\ \A b \in Chan : b \in D2 => b \in D \/ b = h
  <2>1. told \in [Chan -> {0, 1}] /\ told' = [told EXCEPT ![h] = @ + 1] /\ h \notin ToldSet
    BY <1>6, <1>9, <1>11 DEF ClosesOnce
  <2> QED
    BY <2>1, <1>9, ToldStep
<1>13. Once(T, R, H, D2, O)
  <2>1. \A b \in Chan : b \in R => b \in Q /\ b # h
    BY <1>7
  <2> QED
    BY <2>1, <1>8, <1>10, <1>12, OnceServed, SMTT(30)
<1>14. Listed(T, R)'
  BY <1>3, <1>8 DEF Listed
<1>15. Held(slots, up)' = H /\ OpenSet' = O
  BY <1>9 DEF OpenSet
<1>16. Books(T, R)'
  BY <1>9, <1>13, <1>14, <1>15 DEF Books
<1>17. Covered(T, R)
  BY <1>9, <1>15 DEF Covered
<1> QED
  BY <1>1, <1>12, <1>16, <1>17 DEF Accounted

\* A step that touches none of this.
LEMMA IdleKeeps ==
  ASSUME CallsOK, ClosesOnce, UNCHANGED <<fds, slots, up, chan, told, clunkq>>
  PROVE  CallsOK' /\ Accounted
<1>1. CallsOK'
  BY DEF CallsOK, CallOK, Unused
<1>2. PICK T, Q : Books(T, Q)
  BY DEF ClosesOnce
<1>3. Listed(T, Q) /\ Once(T, Q, Held(slots, up), ToldSet, OpenSet)
  BY <1>2 DEF Books
<1>4. Held(slots, up)' = Held(slots, up) /\ ToldSet' = ToldSet /\ OpenSet' = OpenSet
  BY DEF ToldSet, OpenSet
<1>5. Listed(T, Q)'
  BY <1>3, SameListed
<1>6. Books(T, Q)'
  BY <1>3, <1>4, <1>5 DEF Books
<1>7. Covered(T, Q)
  BY <1>4 DEF Covered
<1> QED
  BY <1>1, <1>6, <1>7 DEF Accounted, ClosesOnce

\* Opens, reads and writes leave OpenSet be, or not.
SameOpen == \A c \in Chan : chan'[c].open = chan[c].open

\* A read or a write begins: its process holds the channel from here on.
LEMMA EnterKeeps ==
  ASSUME CallsOK, ClosesOnce, chan \in [Chan -> Channels], NEW p \in Proc,
         NEW op \in {"read", "write"}, NEW x \in Fd, NEW n \in 0..MaxWrite,
         NEW c, c = slots[fds[p]][x], Enter(p, op, x, n),
         op = "write" => chan[c].offset + n <= MaxOffset,
         fds' = fds, slots' = slots, told' = told, clunkq' = clunkq, SameOpen
  PROVE  CallsOK' /\ Accounted
<1>1. up[p].op = "user" /\ c # NoChan
  BY DEF Enter, User
<1>2. UserFacts(p)
  BY <1>1, UserHas
<1>3. fds[p] \in Table /\ up[p].cell = NoChan /\ up[p].cs = <<>> /\ ~up[p].begun
  BY <1>2 DEF UserFacts
<1>4. c \in Chan
  BY <1>1, <1>3, SMTT(30) DEF CallsOK, ChanOrNone
<1>5. chan[c].offset \in 0..MaxOffset /\ op \in Ops /\ up \in [Proc -> Calls]
  BY <1>4 DEF Channels, Ops, CallsOK
<1>6. PICK v : v = [op |-> op, cell |-> c, at |-> chan[c].offset, n |-> n,
                    cs |-> up[p].cs, begun |-> up[p].begun, killed |-> up[p].killed]
  OBVIOUS
<1>7. SetCall(up, p, v)
  BY <1>4, <1>5, <1>6, EnterSets
<1>8. v.op = op /\ v.cell = c /\ v.at = chan[c].offset /\ v.n = n
  BY <1>6
<1>9. v.cs = up[p].cs /\ v.begun = up[p].begun
  BY <1>6
<1>10. CallOK(v, fds[p])
  <2>1. v.op \in Tabled /\ v.op \in Clear
    BY <1>8 DEF Tabled, Clear
  <2> QED
    BY <2>1, <1>1, <1>3, <1>8, <1>9 DEF CallOK
<1>11. CallsOK'
  <2>1. \A t \in Table : Unused(t)' => slots'[t] = Empty
    BY OwnTable
  <2>2. /\ fds' \in [Proc -> Table \cup {NoTable}] /\ fds'[p] = fds[p]
        /\ \A q \in Proc : fds'[q] = fds[q]
        /\ slots' \in [Table -> [Fd -> ChanOrNone]]
    BY DEF CallsOK
  <2> QED
    BY <2>1, <2>2, <1>7, <1>10, CallsStep
<1>12. Todo(v) = Todo(up[p])
  BY <1>9 DEF Todo
<1>13. \A b : b \in Held(slots', up') <=> b \in Held(slots, up)
  <2>1. InSlot(slots, c)
    BY <1>3 DEF InSlot
  <2>2. \A b : InCell(up', b) => b = c \/ InCell(up, b)
    BY <1>7, <1>8 DEF SetCall, InCell
  <2>3. \A b : InCell(up, b) => b = NoChan \/ InCell(up', b)
    BY <1>3, <1>7 DEF SetCall, InCell
  <2> QED
    BY <2>1, <2>2, <2>3, HeldBy
<1>14. OpenSet' = OpenSet
  BY DEF OpenSet, SameOpen
<1>15. Accounted
  BY <1>7, <1>12, <1>13, <1>14, KeptStep
<1> QED
  BY <1>11, <1>15

\* A read or a write ends, and its reference is dropped.
LEMMA DropKeeps ==
  ASSUME CallsOK, ClosesOnce, NEW p \in Proc, up[p].op \in {"read", "write"}, Drop(p),
         fds' = fds, slots' = slots, told' = told, clunkq' = clunkq, SameOpen
  PROVE  CallsOK' /\ Accounted
<1>1. CallOK(up[p], fds[p]) /\ up \in [Proc -> Calls]
  BY DEF CallsOK
<1>2. up[p].op \in Tabled /\ up[p].op \in Clear
  BY DEF Tabled, Clear
<1>3. fds[p] \in Table /\ up[p].cs = <<>> /\ ~up[p].begun
  BY <1>1, <1>2 DEF CallOK
<1>4. PICK v : v = [op |-> "user", cell |-> NoChan, at |-> 0, n |-> 0,
                    cs |-> up[p].cs, begun |-> up[p].begun, killed |-> up[p].killed]
  OBVIOUS
<1>5. SetCall(up, p, v)
  BY <1>1, <1>4, DropSets
<1>6. v.op = "user" /\ v.cell = NoChan
  BY <1>4
<1>7. v.cs = up[p].cs /\ v.begun = up[p].begun
  BY <1>4
<1>8. CallOK(v, fds[p])
  <2>1. v.op \in Tabled /\ v.op \in Clear /\ v.op \notin {"read", "write"} /\ v.op # "write"
    BY <1>6 DEF Tabled, Clear
  <2> QED
    BY <2>1, <1>3, <1>6, <1>7 DEF CallOK
<1>9. CallsOK'
  <2>1. \A t \in Table : Unused(t)' => slots'[t] = Empty
    BY OwnTable
  <2>2. /\ fds' \in [Proc -> Table \cup {NoTable}] /\ fds'[p] = fds[p]
        /\ \A q \in Proc : fds'[q] = fds[q]
        /\ slots' \in [Table -> [Fd -> ChanOrNone]]
    BY DEF CallsOK
  <2> QED
    BY <2>1, <2>2, <1>5, <1>8, CallsStep
<1>10. Todo(v) = Todo(up[p])
  BY <1>7 DEF Todo
<1>11. /\ \A b : b \in Held(slots', up') => b \in Held(slots, up)
       /\ \A b : b \in Held(slots, up) /\ b \notin Held(slots', up') => b = up[p].cell
  <2>1. \A b : InCell(up', b) => b = NoChan \/ InCell(up, b)
    BY <1>5, <1>6 DEF SetCall, InCell
  <2>2. \A b : InCell(up, b) => b = up[p].cell \/ InCell(up', b)
    BY <1>5 DEF SetCall, InCell
  <2> QED
    BY <2>1, <2>2, HeldBy
<1>12. up'[p].cell = NoChan
  BY <1>5, <1>6 DEF SetCall
<1>13. OpenSet' = OpenSet
  BY DEF OpenSet, SameOpen
<1>14. \A c \in Chan : c \in Held(slots, up) /\ c \notin Held(slots', up') =>
          \E q \in Proc : up[q].cell = c /\ up'[q].cell = NoChan
  BY <1>11, <1>12
<1>15. \A c \in Chan : c \in Held(slots', up') => c \in Held(slots, up)
  BY <1>11
<1>16. Accounted
  BY <1>5, <1>10, <1>13, <1>14, <1>15, KeptStep
<1> QED
  BY <1>9, <1>16
=============================================================================
