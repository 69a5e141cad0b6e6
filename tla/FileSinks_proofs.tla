-------------------------- MODULE FileSinks_proofs --------------------------
(***************************************************************************)
(* What FileSinks promises, for any sizes, numbers of files, length of the *)
(* day, hour of rotation and number of failures: all of the rotating and   *)
(* of the step sink's properties, and of the daily sink, the one the       *)
(* program logs to, that it recovers and keeps what has left its buffer,   *)
(* and on a clock that does not jump that a file has one day.              *)
(***************************************************************************)
EXTENDS FileSinks, SequenceTheorems, FiniteSetTheorems, WellFoundedInduction, TLAPS

Entries == [n : Nat, size : Nat, written : Nat]
Files(d) == \A f \in DOMAIN d : d[f] \in Seq(Entries)

\* A file opened at t holds only messages of t's day.
Holds(s, t) == s \in Seq(Entries) /\ \A i \in 1..Len(s) : Period(s[i].written) = Period(t)
Filed(d, time) == \A f \in DOMAIN d : /\ f = <<"day", f[2]>> /\ f[2] \in 0..time
                                      /\ Holds(d[f], f[2])

\* From t up to end it is the same day.
SameDay(t, end) == \A n \in Nat : t <= n /\ n < end => Period(n) = Period(t)

\* Without an open file it is time for the next.
Recovering ==
    kind = "daily" => tp \in Int /\ ~crashed /\ (file = NoFile => now >= tp)
Daily ==
    Jump = 0 /\ kind = "daily" =>
        /\ Filed(dir, now)
        /\ file # NoFile => SameDay(file[2], tp)

-----------------------------------------------------------------------------
(* Arithmetic.                                                              *)

LEMMA Quotient ==
    ASSUME NEW x \in Int, NEW D \in Nat \ {0}
    PROVE  /\ x \div D \in Int
           /\ (x \div D) * D <= x /\ x < ((x \div D) + 1) * D
OBVIOUS

LEMMA Unique ==
    ASSUME NEW x \in Int, NEW D \in Nat \ {0}, NEW k \in Int,
           k * D <= x, x < (k + 1) * D
    PROVE  x \div D = k
OBVIOUS

LEMMA NoJump ==
    ASSUME Jump = 0, NEW t
    PROVE  Offset(t) = 0 /\ (t \in Int => localtime(t) = t)
BY DEF Offset, localtime

LEMMA NextRotation ==
    ASSUME Jump = 0, now \in Nat
    PROVE  /\ next_rotation_tp \in Int /\ now < next_rotation_tp
           /\ SameDay(now, next_rotation_tp) /\ DailyName = <<"day", now>>
  <1> DEFINE a == now \div Day
             today == a * Day + RotationHour
             end == IF today > now THEN today ELSE today + Day
             p == IF today > now THEN a - 1 ELSE a
  <1>1. /\ Day \in Nat \ {0} /\ RotationHour \in Nat /\ RotationHour < Day
        /\ now \in Int /\ localtime(now) = now
    BY FileAssumption, NoJump
  <1>2. a \in Int /\ a * Day <= now /\ now < (a + 1) * Day
    BY <1>1, Quotient
  <1>3. a * Day \in Int /\ (a + 1) * Day = a * Day + Day
        /\ (a - 1) * Day = a * Day - Day
    BY <1>1, <1>2
  <1>4. next_rotation_tp = end
    <2>1. Offset(now) = 0 /\ today - 0 = today
      BY <1>1, <1>3, NoJump
    <2> QED
      BY <1>1, <2>1 DEF next_rotation_tp
  <1> HIDE DEF a
  <1>5. /\ end \in Int /\ now < end /\ p \in Int
        /\ p * Day <= now - RotationHour /\ end - RotationHour = (p + 1) * Day
    BY <1>1, <1>2, <1>3
  <1> HIDE DEF today, end, p
  <1>6. ASSUME NEW n \in Nat, now <= n, n < end
        PROVE  Period(n) = p
    <2>1. localtime(n) = n /\ n - RotationHour \in Int
      BY <1>1, NoJump
    <2>2. p * Day <= n - RotationHour /\ n - RotationHour < (p + 1) * Day
      <3>1. p * Day \in Int /\ (p + 1) * Day \in Int
        BY <1>1, <1>5
      <3> QED
        BY <1>1, <1>5, <1>6, <3>1
    <2> QED
      BY <1>1, <1>5, <2>1, <2>2, Unique DEF Period
  <1>7. SameDay(now, end)
    BY <1>1, <1>5, <1>6 DEF SameDay
  <1> QED
    BY <1>1, <1>4, <1>5, <1>7 DEF DailyName

-----------------------------------------------------------------------------
(* Induction, from the least element of a set of naturals, and the sums.    *)

LEMMA Least ==
    ASSUME NEW T \in SUBSET Nat, T # {}
    PROVE  \E x \in T : \A y \in T : x <= y
  <1> DEFINE R == OpToRel(<, Nat)
  <1>1. IsWellFoundedOn(R, Nat)
    BY NatLessThanWellFounded
  <1>2. \A x, y \in Nat : y < x => <<y, x>> \in R
    BY DEF OpToRel
  <1> HIDE DEF R
  <1>3. PICK x \in T : \A y \in T : ~(<<y, x>> \in R)
    BY <1>1, WFMin
  <1>4. ASSUME NEW y \in T PROVE x <= y
    <2>1. ~(y < x) /\ x \in Nat /\ y \in Nat
      BY <1>2, <1>3, Zenon
    <2> QED
      BY <2>1
  <1> QED
    BY <1>4

LEMMA Induction ==
    ASSUME NEW S, 0 \in S, \A n \in Nat : n \in S => n + 1 \in S
    PROVE  Nat \subseteq S
  <1> SUFFICES ASSUME Nat \ S # {} PROVE FALSE
    OBVIOUS
  <1>1. PICK x \in Nat \ S : \A y \in Nat \ S : x <= y
    BY Least
  <1>2. x # 0 /\ x - 1 \in Nat /\ x - 1 \in S
    BY <1>1
  <1> QED
    BY <1>1, <1>2

\* f has the sums of the sizes of the first 0, 1, ... and n entries of s.
Sums(f, s, n) == /\ f \in [0..n -> Nat] /\ f[0] = 0
                 /\ \A i \in 1..n : f[i] = f[i - 1] + s[i].size

LEMMA SumsExist ==
    ASSUME NEW s \in Seq(Entries)
    PROVE  \E f : Sums(f, s, Len(s))
  <1> DEFINE S == {n \in Nat : n <= Len(s) => \E f : Sums(f, s, n)}
  <1>1. 0 \in S
    <2>1. Sums([i \in 0..0 |-> 0], s, 0)
      BY DEF Sums
    <2> QED
      BY <2>1
  <1>2. ASSUME NEW n \in Nat, n \in S PROVE n + 1 \in S
    <2> SUFFICES ASSUME n + 1 <= Len(s) PROVE \E f : Sums(f, s, n + 1)
      OBVIOUS
    <2>1. n <= Len(s) /\ n + 1 \in 1..Len(s)
      OBVIOUS
    <2>2. PICK f : Sums(f, s, n)
      BY <1>2, <2>1
    <2>3. s[n + 1].size \in Nat
      <3>1. s[n + 1] \in Entries
        BY <2>1, ElementOfSeq
      <3> QED
        BY <3>1 DEF Entries
    <2> DEFINE z == f[n] + s[n + 1].size
               g == [i \in 0..(n + 1) |-> IF i = n + 1 THEN z ELSE f[i]]
    <2>4. z \in Nat
      BY <2>2, <2>3 DEF Sums
    <2>5. g[n + 1] = z /\ \A i \in 0..n : g[i] = f[i]
      OBVIOUS
    <2>6. g \in [0..(n + 1) -> Nat]
      <3> HIDE DEF z
      <3> QED
        BY <2>2, <2>4 DEF Sums
    <2> HIDE DEF g
    <2>7. ASSUME NEW i \in 1..(n + 1) PROVE g[i] = g[i - 1] + s[i].size
      <3>1. CASE i = n + 1
        <4>1. i - 1 = n /\ n \in 0..n
          BY <3>1
        <4> QED
          BY <3>1, <4>1, <2>5
      <3>2. CASE i # n + 1
        <4>1. i \in 1..n /\ i \in 0..n /\ i - 1 \in 0..n
          BY <3>2
        <4> QED
          BY <4>1, <2>2, <2>5 DEF Sums
      <3> QED
        BY <3>1, <3>2
    <2>8. g[0] = 0
      BY <2>2, <2>5 DEF Sums
    <2> QED
      BY <2>6, <2>7, <2>8 DEF Sums
  <1> HIDE DEF S
  <1>3. Nat \subseteq S
    BY <1>1, <1>2, Induction
  <1> QED
    BY <1>3, LenProperties DEF S

LEMMA SumsAgree ==
    ASSUME NEW s, NEW t, NEW n \in Nat, NEW m \in Nat, NEW f, NEW g,
           n <= m, Sums(f, s, n), Sums(g, t, m), \A i \in 1..n : s[i] = t[i]
    PROVE  \A i \in 0..n : f[i] = g[i]
  <1> DEFINE S == {i \in Nat : i <= n => f[i] = g[i]}
  <1>1. 0 \in S
    BY DEF Sums
  <1>2. ASSUME NEW i \in Nat, i \in S PROVE i + 1 \in S
    <2> SUFFICES ASSUME i + 1 <= n PROVE f[i + 1] = g[i + 1]
      OBVIOUS
    <2>1. i + 1 \in 1..n /\ i + 1 \in 1..m /\ (i + 1) - 1 = i /\ f[i] = g[i]
      BY <1>2
    <2> QED
      BY <2>1 DEF Sums
  <1> HIDE DEF S
  <1>3. Nat \subseteq S
    BY <1>1, <1>2, Induction
  <1> QED
    BY <1>3 DEF S

LEMMA TotalIs ==
    ASSUME NEW s \in Seq(Entries)
    PROVE  \E f : Sums(f, s, Len(s)) /\ Total(s) = f[Len(s)]
  <1> DEFINE G(f) == [i \in 0..Len(s) |-> IF i = 0 THEN 0 ELSE f[i - 1] + s[i].size]
             h == CHOOSE f : f = G(f)
  <1>0. Len(s) \in Nat
    BY LenProperties
  <1>1. PICK f : Sums(f, s, Len(s))
    BY SumsExist
  <1>2. f = G(f)
    <2>1. \A i \in 0..Len(s) : f[i] = G(f)[i]
      BY <1>0, <1>1 DEF Sums
    <2>2. f \in [0..Len(s) -> Nat] /\ DOMAIN G(f) = 0..Len(s)
      BY <1>1 DEF Sums
    <2> QED
      BY <2>1, <2>2
  <1>3. h = G(h)
    BY <1>2
  <1>4. Total(s) = h[Len(s)]
    BY DEF Total
  <1> HIDE DEF h
  <1>5. h[0] = 0 /\ \A i \in 1..Len(s) : h[i] = h[i - 1] + s[i].size
    <2>1. \A i \in 0..Len(s) : h[i] = IF i = 0 THEN 0 ELSE h[i - 1] + s[i].size
      BY <1>3
    <2>2. 0 \in 0..Len(s) /\ \A i \in 1..Len(s) : i \in 0..Len(s) /\ i # 0
      BY <1>0
    <2> QED
      BY <2>1, <2>2
  <1> DEFINE S == {i \in Nat : i <= Len(s) => f[i] = h[i]}
  <1>6. 0 \in S
    BY <1>1, <1>5 DEF Sums
  <1>7. ASSUME NEW i \in Nat, i \in S PROVE i + 1 \in S
    <2> SUFFICES ASSUME i + 1 <= Len(s) PROVE f[i + 1] = h[i + 1]
      OBVIOUS
    <2>1. i + 1 \in 1..Len(s) /\ (i + 1) - 1 = i /\ f[i] = h[i]
      BY <1>0, <1>7
    <2> QED
      BY <1>1, <1>5, <2>1 DEF Sums
  <1> HIDE DEF S
  <1>8. Nat \subseteq S
    BY <1>6, <1>7, Induction
  <1>9. f[Len(s)] = h[Len(s)]
    BY <1>0, <1>8 DEF S
  <1> QED
    BY <1>1, <1>4, <1>9

LEMMA TotalNat ==
    ASSUME NEW s \in Seq(Entries)
    PROVE  Total(s) \in Nat
BY TotalIs, LenProperties DEF Sums

LEMMA TotalEmpty == Total(<<>>) = 0
  <1>1. <<>> \in Seq(Entries) /\ Len(<<>>) = 0
    OBVIOUS
  <1>2. PICK f : Sums(f, <<>>, Len(<<>>)) /\ Total(<<>>) = f[Len(<<>>)]
    BY <1>1, TotalIs
  <1> QED
    BY <1>1, <1>2 DEF Sums

LEMMA TotalMore ==
    ASSUME NEW s \in Seq(Entries), NEW m \in Entries
    PROVE  /\ s \o <<m>> \in Seq(Entries) /\ Len(s \o <<m>>) = Len(s) + 1
           /\ (s \o <<m>>)[Len(s) + 1] = m
           /\ \A i \in 1..Len(s) : (s \o <<m>>)[i] = s[i]
           /\ Total(s \o <<m>>) = Total(s) + m.size
  <1> DEFINE t == s \o <<m>>
  <1>1. s \in Seq(Entries) /\ <<m>> \in Seq(Entries) /\ Len(<<m>>) = 1
        /\ <<m>>[1] = m /\ Len(s) \in Nat
    BY LenProperties
  <1>2. /\ t \in Seq(Entries) /\ Len(t) = Len(s) + 1
        /\ \A i \in 1..(Len(s) + 1) :
              t[i] = IF i <= Len(s) THEN s[i] ELSE <<m>>[i - Len(s)]
    BY <1>1, ConcatProperties
  <1> HIDE DEF t
  <1>3. t[Len(s) + 1] = m
    <2>1. Len(s) + 1 \in 1..(Len(s) + 1) /\ ~(Len(s) + 1 <= Len(s))
          /\ (Len(s) + 1) - Len(s) = 1
      BY <1>1
    <2> QED
      BY <1>1, <1>2, <2>1
  <1>4. \A i \in 1..Len(s) : t[i] = s[i]
    BY <1>1, <1>2
  <1>5. PICK f : Sums(f, s, Len(s)) /\ Total(s) = f[Len(s)]
    BY TotalIs
  <1>6. PICK g : Sums(g, t, Len(t)) /\ Total(t) = g[Len(t)]
    BY <1>2, TotalIs
  <1>7. f[Len(s)] = g[Len(s)]
    <2> DEFINE k == Len(s)
               l == Len(t)
    <2>1. k \in Nat /\ l \in Nat /\ k <= l
      BY <1>1, <1>2
    <2>2. Sums(f, s, k) /\ Sums(g, t, l) /\ \A i \in 1..k : s[i] = t[i]
      BY <1>4, <1>5, <1>6
    <2> HIDE DEF k, l
    <2>3. \A i \in 0..k : f[i] = g[i]
      BY <2>1, <2>2, SumsAgree
    <2>4. f[k] = g[k]
      BY <2>1, <2>3
    <2> QED
      BY <2>4 DEF k
  <1>8. g[Len(t)] = g[Len(s)] + m.size
    <2>1. Len(t) \in 1..Len(t) /\ Len(t) - 1 = Len(s)
      BY <1>1, <1>2
    <2> QED
      BY <1>2, <1>3, <1>6, <2>1 DEF Sums
  <1> QED
    BY <1>2, <1>3, <1>4, <1>5, <1>6, <1>7, <1>8 DEF t

-----------------------------------------------------------------------------
(* What the steps do to a file.                                             *)

LEMMA MessageEntry ==
    ASSUME now \in Nat, NEW n \in Nat, NEW sz \in Nat
    PROVE  /\ Message(n, sz) \in Entries /\ Message(n, sz).n = n /\ Message(n, sz).size = sz
           /\ kind = "daily" => Message(n, sz).written = now
BY DEF Message, Entries, Time

\* A message of the same day goes behind the others.
LEMMA HoldsMore ==
    ASSUME NEW s, NEW t, Holds(s, t), NEW m \in Entries, Period(m.written) = Period(t)
    PROVE  Holds(s \o <<m>>, t)
  <1>1. s \in Seq(Entries) /\ <<m>> \in Seq(Entries) /\ Len(<<m>>) = 1
        /\ <<m>>[1] = m /\ Len(s) \in Nat
    BY DEF Holds
  <1>2. /\ s \o <<m>> \in Seq(Entries) /\ Len(s \o <<m>>) = Len(s) + 1
        /\ \A i \in 1..(Len(s) + 1) :
              (s \o <<m>>)[i] = IF i <= Len(s) THEN s[i] ELSE <<m>>[i - Len(s)]
    BY <1>1, ConcatProperties
  <1>3. ASSUME NEW i \in 1..(Len(s) + 1)
        PROVE  Period((s \o <<m>>)[i].written) = Period(t)
    <2>1. CASE i \in 1..Len(s)
      BY <1>2, <2>1 DEF Holds
    <2>2. CASE i \notin 1..Len(s)
      <3>1. i - Len(s) = 1 /\ ~(i <= Len(s))
        BY <1>1, <2>2
      <3> QED
        BY <1>1, <1>2, <3>1
    <2> QED
      BY <2>1, <2>2
  <1> QED
    BY <1>2, <1>3 DEF Holds

LEMMA FiledMore ==
    ASSUME now \in Nat, NEW d, Filed(d, now), NEW f \in DOMAIN d,
           NEW m \in Entries, m.written = now, Period(now) = Period(f[2])
    PROVE  Filed(Extended(d, f, <<m>>), now) /\ DOMAIN Extended(d, f, <<m>>) = DOMAIN d
  <1> DEFINE e == Extended(d, f, <<m>>)
  <1>1. /\ DOMAIN e = DOMAIN d /\ e[f] = d[f] \o <<m>>
        /\ \A g \in DOMAIN d \ {f} : e[g] = d[g]
    BY DEF Extended
  <1>2. Holds(e[f], f[2])
    <2>1. Holds(d[f], f[2]) /\ Period(m.written) = Period(f[2])
      BY DEF Filed
    <2> QED
      BY <1>1, <2>1, HoldsMore
  <1> HIDE DEF e
  <1>3. Filed(e, now)
    BY <1>1, <1>2 DEF Filed
  <1> QED
    BY <1>1, <1>3 DEF e

LEMMA FiledNew ==
    ASSUME now \in Nat, NEW d, Filed(d, now), Jump = 0
    PROVE  /\ Filed(Opened(d, DailyName), now) /\ DailyName \in DOMAIN Opened(d, DailyName)
           /\ DailyName # NoFile /\ DailyName[2] = now
  <1> DEFINE e == Opened(d, DailyName)
  <1>1. DailyName = <<"day", now>> /\ DailyName[2] = now /\ now \in 0..now
    BY NextRotation
  <1>2. /\ DOMAIN e = DOMAIN d \cup {DailyName}
        /\ \A g \in DOMAIN d : e[g] = d[g]
        /\ DailyName \notin DOMAIN d => e[DailyName] = <<>>
    BY DEF Opened, With
  <1>3. Holds(<<>>, now)
    BY DEF Holds
  <1> HIDE DEF e
  <1>4. Filed(e, now)
    BY <1>1, <1>2, <1>3 DEF Filed
  <1> QED
    BY <1>1, <1>2, <1>4 DEF e, NoFile

(* Whatever the clock does, the next file has a name and a time.            *)
LEMMA Clock ==
    ASSUME now \in Nat
    PROVE  DailyName # NoFile /\ next_rotation_tp \in Int
  <1>1. DailyName # NoFile
    BY DEF DailyName, NoFile
  <1>2. Offset(now) \in Int /\ localtime(now) \in Int /\ Day \in Nat \ {0} /\ RotationHour \in Int
    BY FileAssumption DEF Offset, localtime
  <1>3. localtime(now) \div Day \in Int
    BY <1>2, Quotient
  <1> DEFINE a == localtime(now) \div Day
             today == a * Day + RotationHour - Offset(now)
  <1>4. today \in Int
    BY <1>2, <1>3
  <1>5. next_rotation_tp = IF today > now THEN today ELSE today + Day
    BY DEF next_rotation_tp
  <1> HIDE DEF today
  <1> QED
    BY <1>1, <1>2, <1>4, <1>5

-----------------------------------------------------------------------------
(* What is open, and what is in its buffer.                                 *)

Typed ==
    /\ kind \in {"rotating", "daily", "step"}
    /\ now \in Nat /\ logged \in Nat /\ faults \in Nat /\ size \in Nat /\ buffered \in Nat
    /\ Files(dir)
    /\ file = NoFile => buffered = 0
    /\ file # NoFile => file \in DOMAIN dir /\ buffered <= Len(dir[file])

\* What is left of files of which the end was lost.
Starts(s, t) == /\ s \in Seq(Entries) /\ t \in Seq(Entries) /\ Len(s) <= Len(t)
                /\ \A i \in 1..Len(s) : s[i] = t[i]
Shorter(e, d) == DOMAIN e = DOMAIN d /\ \A f \in DOMAIN d : Starts(e[f], d[f])

LEMMA SameStarts == ASSUME NEW s \in Seq(Entries) PROVE Starts(s, s)
BY LenProperties DEF Starts

LEMMA Fronts ==
    ASSUME NEW s \in Seq(Entries), NEW k \in 0..Len(s)
    PROVE  Starts(SubSeq(s, 1, Len(s) - k), s) /\ Len(SubSeq(s, 1, Len(s) - k)) = Len(s) - k
  <1> DEFINE n == Len(s) - k
             t == SubSeq(s, 1, n)
  <1>1. Len(s) \in Nat /\ n \in Nat /\ n <= Len(s) /\ k \in Int
    BY LenProperties
  <1>2. CASE n = 0
    <2>1. t = <<>>
      BY <1>1, <1>2
    <2> QED
      BY <1>1, <1>2, <2>1 DEF Starts
  <1>3. CASE n # 0
    <2>1. \A i \in 1..n : s[i] \in Entries
      BY <1>1, ElementOfSeq
    <2>2. t = [i \in 1..n |-> s[i]]
      BY <1>1
    <2> HIDE DEF n
    <2>3. t \in Seq(Entries) /\ Len(t) = n /\ \A i \in 1..n : t[i] = s[i]
      BY <1>1, <2>1, <2>2
    <2> QED
      BY <1>1, <2>3 DEF Starts, n
  <1> QED
    BY <1>2, <1>3

LEMMA CutIs ==
    ASSUME NEW d, Files(d), NEW f \in DOMAIN d, NEW k \in 0..Len(d[f])
    PROVE  /\ Shorter(Cut(d, f, k), d) /\ DOMAIN Cut(d, f, k) = DOMAIN d
           /\ Len(Cut(d, f, k)[f]) = Len(d[f]) - k
           /\ \A g \in DOMAIN d : g # f => Cut(d, f, k)[g] = d[g]
  <1>1. d[f] \in Seq(Entries)
    BY DEF Files
  <1>2. Starts(SubSeq(d[f], 1, Len(d[f]) - k), d[f])
        /\ Len(SubSeq(d[f], 1, Len(d[f]) - k)) = Len(d[f]) - k
    BY <1>1, Fronts
  <1> DEFINE e == Cut(d, f, k)
             t == SubSeq(d[f], 1, Len(d[f]) - k)
  <1>3. DOMAIN e = DOMAIN d /\ e[f] = t /\ \A g \in DOMAIN d : g # f => e[g] = d[g]
    BY DEF Cut
  <1> HIDE DEF e, t
  <1>4. \A g \in DOMAIN d : Starts(e[g], d[g])
    BY <1>2, <1>3, SameStarts DEF t, Files
  <1> QED
    BY <1>2, <1>3, <1>4 DEF Shorter, e, t

LEMMA ShorterFiles == ASSUME NEW d, NEW e, Shorter(e, d) PROVE Files(e)
BY DEF Shorter, Starts, Files

LEMMA TotalStarts ==
    ASSUME NEW s, NEW t, Starts(s, t)
    PROVE  Total(s) \in Nat /\ Total(t) \in Nat /\ Total(s) <= Total(t)
  <1>1. s \in Seq(Entries) /\ t \in Seq(Entries) /\ Len(s) \in Nat /\ Len(t) \in Nat
        /\ Len(s) <= Len(t) /\ \A i \in 1..Len(s) : s[i] = t[i]
    BY LenProperties DEF Starts
  <1>2. PICK f : Sums(f, s, Len(s)) /\ Total(s) = f[Len(s)]
    BY <1>1, TotalIs
  <1>3. PICK g : Sums(g, t, Len(t)) /\ Total(t) = g[Len(t)]
    BY <1>1, TotalIs
  <1> DEFINE k == Len(s)
             l == Len(t)
  <1>4. k \in Nat /\ l \in Nat /\ k <= l /\ Sums(f, s, k) /\ Sums(g, t, l)
        /\ \A i \in 1..k : s[i] = t[i]
    BY <1>1, <1>2, <1>3
  <1> HIDE DEF k, l
  <1>5. f[k] = g[k]
    <2>1. \A i \in 0..k : f[i] = g[i]
      BY <1>4, SumsAgree
    <2> QED
      BY <1>4, <2>1
  <1>6. g \in [0..l -> Nat] /\ \A i \in 1..l : g[i] = g[i - 1] + t[i].size
    BY <1>4 DEF Sums
  <1>7. \A i \in 1..l : t[i].size \in Nat
    <2>1. \A i \in 1..l : t[i] \in Entries
      BY <1>1, ElementOfSeq DEF l
    <2> QED
      BY <2>1 DEF Entries
  <1> DEFINE S == {j \in Nat : k + j <= l => g[k] <= g[k + j]}
  <1>8. 0 \in S
    BY <1>4, <1>6
  <1>9. ASSUME NEW j \in Nat, j \in S PROVE j + 1 \in S
    <2> SUFFICES ASSUME k + (j + 1) <= l PROVE g[k] <= g[k + (j + 1)]
      OBVIOUS
    <2>1. /\ k + (j + 1) \in 1..l /\ (k + (j + 1)) - 1 = k + j /\ k + j \in 0..l
          /\ k \in 0..l /\ k + j <= l
      BY <1>4
    <2>2. g[k + (j + 1)] = g[k + j] + t[k + (j + 1)].size
      BY <1>6, <2>1
    <2>3. g[k] <= g[k + j] /\ g[k] \in Nat /\ g[k + j] \in Nat
      BY <1>6, <1>9, <2>1
    <2> QED
      BY <1>7, <2>1, <2>2, <2>3
  <1> HIDE DEF S
  <1>10. l - k \in S /\ l - k \in Nat /\ k + (l - k) = l
    BY <1>4, <1>8, <1>9, Induction
  <1>11. g[k] <= g[l]
    BY <1>4, <1>10 DEF S
  <1> QED
    BY <1>1, <1>2, <1>3, <1>5, <1>11, TotalNat DEF k, l

LEMMA DrainedIs ==
    ASSUME Typed, NEW k \in Losses
    PROVE  /\ Shorter(Drained(k), dir) /\ Files(Drained(k)) /\ DOMAIN Drained(k) = DOMAIN dir
           /\ Cost(k) \in Nat /\ (Cost(k) = 0 => k = 0 /\ Drained(k) = dir)
  <1>1. k \in Nat /\ k <= buffered /\ buffered \in Nat /\ Files(dir)
    BY DEF Typed, Losses
  <1>2. Shorter(Drained(k), dir)
    <2>1. CASE k = 0
      BY <1>1, <2>1, SameStarts DEF Drained, Shorter, Files
    <2>2. CASE k # 0
      <3>1. file \in DOMAIN dir /\ k <= Len(dir[file])
        BY <1>1, <2>2, LenProperties DEF Typed, Files
      <3>2. k \in 0..Len(dir[file])
        BY <1>1, <3>1, LenProperties DEF Files
      <3> QED
        BY <1>1, <2>2, <3>1, <3>2, CutIs DEF Drained
    <2> QED
      BY <2>1, <2>2
  <1>3. Cost(k) \in Nat /\ (Cost(k) = 0 => k = 0 /\ Drained(k) = dir)
    BY DEF Cost, Drained
  <1> QED
    BY <1>2, <1>3, ShorterFiles DEF Shorter

LEMMA ExtendedIs ==
    ASSUME NEW d, NEW f, NEW s
    PROVE  /\ DOMAIN Extended(d, f, s) = DOMAIN d
           /\ f \in DOMAIN d => Extended(d, f, s)[f] = d[f] \o s
           /\ \A g \in DOMAIN d : g # f => Extended(d, f, s)[g] = d[g]
BY DEF Extended

LEMMA ExtendedFiles ==
    ASSUME NEW d, Files(d), NEW f \in DOMAIN d, NEW m \in Entries
    PROVE  Files(Extended(d, f, <<m>>)) /\ Len(Extended(d, f, <<m>>)[f]) = Len(d[f]) + 1
  <1>1. d[f] \in Seq(Entries)
    BY DEF Files
  <1>2. d[f] \o <<m>> \in Seq(Entries) /\ Len(d[f] \o <<m>>) = Len(d[f]) + 1
    BY <1>1, TotalMore
  <1> DEFINE e == Extended(d, f, <<m>>)
  <1>3. DOMAIN e = DOMAIN d /\ e[f] = d[f] \o <<m>> /\ \A g \in DOMAIN d : g # f => e[g] = d[g]
    BY DEF Extended
  <1> HIDE DEF e
  <1>4. Files(e) /\ Len(e[f]) = Len(d[f]) + 1
    BY <1>2, <1>3 DEF Files
  <1> QED
    BY <1>4 DEF e

LEMMA NamedFiles ==
    ASSUME NEW d, Files(d), NEW f, NEW g
    PROVE  /\ Files(Without(d, f)) /\ Files(Opened(d, f)) /\ Files(Renamed(d, f, g))
           /\ Files(With(d, f, <<>>))
           /\ f \in DOMAIN Opened(d, f) /\ f \in DOMAIN With(d, f, <<>>)
  <1>1. <<>> \in Seq(Entries)
    OBVIOUS
  <1>2. ASSUME NEW e, NEW h, NEW s, Files(e), s \in Seq(Entries)
        PROVE  Files(With(e, h, s)) /\ h \in DOMAIN With(e, h, s)
    <2> DEFINE w == With(e, h, s)
    <2>1. DOMAIN w = DOMAIN e \cup {h} /\ \A i \in DOMAIN w : w[i] = IF i = h THEN s ELSE e[i]
      BY DEF With
    <2> HIDE DEF w
    <2>2. Files(w)
      BY <1>2, <2>1 DEF Files
    <2> QED
      BY <2>1, <2>2 DEF w
  <1>3. Files(Without(d, f))
    BY DEF Without, Files
  <1>4. f \in DOMAIN d => d[f] \in Seq(Entries)
    BY DEF Files
  <1> QED
    BY <1>1, <1>2, <1>3, <1>4 DEF Opened, Renamed

L(i) == <<"log", i>>

LEMMA ShiftedIs ==
    ASSUME NEW d, NEW k \in 1..(MaxFiles + 1)
    PROVE  /\ \A f \in DOMAIN Shifted(d, k) :
                 /\ f = L(f[2]) /\ f[2] \in 0..MaxFiles
                 /\ f[2] >= k => /\ L(f[2] - 1) \in DOMAIN d
                                 /\ Shifted(d, k)[f] = d[L(f[2] - 1)]
                 /\ f[2] < k => /\ f \in DOMAIN d /\ Shifted(d, k)[f] = d[f]
                                /\ f[2] = k - 1 => k > MaxFiles
           /\ \A i \in k..MaxFiles : L(i - 1) \in DOMAIN d => L(i) \in DOMAIN Shifted(d, k)
  <1> DEFINE kept == {i \in 0..MaxFiles : IF i >= k THEN L(i - 1) \in DOMAIN d
                                     ELSE /\ i # k - 1 \/ k > MaxFiles
                                          /\ L(i) \in DOMAIN d}
             e == Shifted(d, k)
  <1>1. e = [f \in {L(i) : i \in kept} |->
               IF f[2] >= k THEN d[L(f[2] - 1)] ELSE d[f]]
    BY DEF Shifted, L
  <1> HIDE DEF e
  <1>2. k \in Int /\ MaxFiles \in Nat
    BY FileAssumption
  <1>3. DOMAIN e = {L(i) : i \in kept}
    BY <1>1
  <1>4. ASSUME NEW f \in DOMAIN e
        PROVE  /\ f = L(f[2]) /\ f[2] \in 0..MaxFiles
               /\ f[2] >= k => L(f[2] - 1) \in DOMAIN d /\ e[f] = d[L(f[2] - 1)]
               /\ f[2] < k => /\ f \in DOMAIN d /\ e[f] = d[f]
                              /\ f[2] = k - 1 => k > MaxFiles
    <2>1. PICK i \in kept : f = L(i)
      BY <1>3
    <2>2. f[2] = i /\ i \in 0..MaxFiles /\ i \in Int
      BY <1>2, <2>1 DEF L
    <2>3. e[f] = IF i >= k THEN d[L(i - 1)] ELSE d[f]
      BY <1>1, <1>3, <2>2
    <2> QED
      BY <1>2, <2>1, <2>2, <2>3
  <1>5. ASSUME NEW i \in k..MaxFiles, L(i - 1) \in DOMAIN d PROVE L(i) \in DOMAIN e
    <2>1. i \in kept
      BY <1>2, <1>5
    <2> HIDE DEF kept
    <2> QED
      BY <1>3, <2>1
  <1> QED
    BY <1>4, <1>5 DEF e

LEMMA ShiftedFiles ==
    ASSUME NEW d, Files(d)
    PROVE  /\ \A k \in 1..(MaxFiles + 1) : Files(Shifted(d, k))
           /\ \A e \in HalfRotated(d) : Files(e)
  <1>0. MaxFiles \in Nat
    BY FileAssumption
  <1>1. ASSUME NEW k \in 1..(MaxFiles + 1) PROVE Files(Shifted(d, k))
    <2> DEFINE e == Shifted(d, k)
    <2>1. \A f \in DOMAIN e : /\ f[2] \in 0..MaxFiles
                              /\ f[2] >= k => <<"log", f[2] - 1>> \in DOMAIN d
                                              /\ e[f] = d[<<"log", f[2] - 1>>]
                              /\ f[2] < k => f \in DOMAIN d /\ e[f] = d[f]
      BY ShiftedIs DEF L
    <2> HIDE DEF e
    <2>2. ASSUME NEW f \in DOMAIN e PROVE e[f] \in Seq(Entries)
      <3>0. k \in Int
        BY <1>0
      <3>1. f[2] \in 0..MaxFiles
        BY <2>1
      <3>2. f[2] >= k \/ f[2] < k
        <4> DEFINE x == f[2]
        <4>1. x \in Int
          BY <1>0, <3>1
        <4> HIDE DEF x
        <4>2. x >= k \/ x < k
          BY <3>0, <4>1
        <4> QED
          BY <4>2 DEF x
      <3> QED
        BY <2>1, <3>2 DEF Files
    <2>3. Files(e)
      BY <2>2 DEF Files
    <2> QED
      BY <2>3 DEF e
  <1>2. ASSUME NEW e \in HalfRotated(d) PROVE Files(e)
    <2>1. \/ e = d
          \/ \E i \in 1..MaxFiles : e = Without(Shifted(d, i + 1), <<"log", i>>)
          \/ e = Shifted(d, 1)
      BY <1>2 DEF HalfRotated
    <2>2. ASSUME NEW i \in 1..MaxFiles PROVE Files(Without(Shifted(d, i + 1), <<"log", i>>))
      <3>1. i + 1 \in 1..(MaxFiles + 1)
        BY <1>0
      <3> QED
        BY <1>1, <3>1, NamedFiles
    <2>3. Files(Shifted(d, 1))
      <3>1. 1 \in 1..(MaxFiles + 1)
        BY <1>0
      <3> QED
        BY <1>1, <3>1
    <2> QED
      BY <2>1, <2>2, <2>3
  <1> QED
    BY <1>1, <1>2

LEMMA WriteIs ==
    ASSUME NEW d, Files(d), NEW f \in DOMAIN d, f # NoFile, NEW b \in 0..Len(d[f]),
           NEW c \in Nat, NEW m \in Entries, faults \in Nat, Write(d, f, b, c, m)
    PROVE  /\ crashed' = crashed /\ faults' \in Nat
           /\ Files(dir') /\ DOMAIN dir' = DOMAIN d /\ buffered' \in 0..Len(dir'[f])
           /\ \/ dir' = Extended(d, f, <<m>>) /\ faults' = faults + c
              \/ faults' = faults + c + 1 /\ \E k \in 0..b : dir' = Cut(d, f, k)
  <1>0. Len(d[f]) \in Nat /\ d[f] \in Seq(Entries) /\ b \in Nat /\ b <= Len(d[f])
    BY LenProperties DEF Files
  <1>1. CASE /\ dir' = Extended(d, f, <<m>>) /\ buffered' \in {0, 1, b + 1}
             /\ Spend(c) /\ UNCHANGED crashed
    <2>1. faults' = faults + c
      BY <1>1 DEF Spend
    <2>2. Files(dir') /\ DOMAIN dir' = DOMAIN d /\ Len(dir'[f]) = Len(d[f]) + 1
      BY <1>1, ExtendedFiles, ExtendedIs
    <2>3. buffered' \in 0..(Len(d[f]) + 1)
      BY <1>0, <1>1
    <2> QED
      BY <1>1, <2>1, <2>2, <2>3
  <1>2. CASE /\ Throw(c) /\ buffered' = 0
             /\ \E k \in 0..b : dir' = Cut(d, f, k)
    <2>1. faults' = faults + c + 1 /\ crashed' = crashed
      BY <1>2 DEF Throw, Spend
    <2>2. PICK k \in 0..b : dir' = Cut(d, f, k)
      BY <1>2
    <2>3. k \in 0..Len(d[f])
      BY <1>0
    <2>4. Files(dir') /\ DOMAIN dir' = DOMAIN d
      BY <2>2, <2>3, CutIs, ShorterFiles
    <2>5. Len(dir'[f]) \in Nat
      BY <2>4, LenProperties DEF Files
    <2> QED
      BY <1>2, <2>1, <2>2, <2>4, <2>5
  <1> QED
    BY <1>1, <1>2 DEF Write


\* Any write, with or without a file.
LEMMA WriteTyped ==
    ASSUME NEW d, Files(d), NEW f, NEW b \in Nat,
           f # NoFile => f \in DOMAIN d /\ b <= Len(d[f]),
           NEW c \in Nat, NEW m \in Entries, faults \in Nat, Write(d, f, b, c, m)
    PROVE  /\ Files(dir') /\ faults' \in Nat /\ buffered' \in Nat
           /\ f = NoFile => buffered' = 0
           /\ f # NoFile => f \in DOMAIN dir' /\ buffered' <= Len(dir'[f])
  <1>1. CASE f = NoFile
    <2>1. dir' = d /\ buffered' = 0 /\ Spend(c)
      BY <1>1 DEF Write
    <2> QED
      BY <1>1, <2>1 DEF Spend
  <1>2. CASE f # NoFile
    <2>1. f \in DOMAIN d /\ Len(d[f]) \in Nat /\ b <= Len(d[f])
      BY <1>2, LenProperties DEF Files
    <2>2. b \in 0..Len(d[f])
      BY <2>1
    <2>3. /\ faults' \in Nat /\ Files(dir') /\ DOMAIN dir' = DOMAIN d
          /\ buffered' \in 0..Len(dir'[f])
      BY <1>2, <2>1, <2>2, WriteIs
    <2>4. Len(dir'[f]) \in Nat
      BY <2>1, <2>3, LenProperties DEF Files
    <2> QED
      BY <1>2, <2>1, <2>3, <2>4
  <1> QED
    BY <1>1, <1>2

LEMMA Named ==
    Base # NoFile /\ DailyName # NoFile /\ TmpName # NoFile
BY DEF Base, DailyName, TmpName, NoFile

LEMMA TypedInit == Init => Typed
  <1> SUFFICES ASSUME Init PROVE Typed
    OBVIOUS
  <1>1. /\ kind \in {"rotating", "daily", "step"}
        /\ logged = 0 /\ faults = 0 /\ HeaderSize \in Nat /\ Day \in Nat
    BY FileAssumption DEF Init
  <1>2. now \in Nat /\ size \in Nat
    BY <1>1 DEF Init, rotating_file_sink, daily_file_sink, step_file_sink
  <1>3. <<>> \in Seq(Entries) /\ <<Header>> \in Seq(Entries)
    <2>1. Header \in Entries
      BY <1>1, <1>2 DEF Header, Entries, Time
    <2> QED
      BY <2>1
  <1>4. /\ file \in {Base, DailyName, TmpName}
        /\ \E s \in {<<>>, <<Header>>} : dir = [f \in {file} |-> s]
    <2>1. CASE rotating_file_sink
      BY <2>1 DEF rotating_file_sink
    <2>2. CASE daily_file_sink
      BY <2>2 DEF daily_file_sink
    <2>3. CASE step_file_sink
      BY <2>3 DEF step_file_sink
    <2> QED
      BY <2>1, <2>2, <2>3 DEF Init
  <1>5. PICK s \in {<<>>, <<Header>>} : dir = [f \in {file} |-> s]
    BY <1>4
  <1>6. file # NoFile /\ file \in DOMAIN dir /\ Files(dir)
    BY <1>3, <1>4, <1>5, Named DEF Files
  <1>7. Len(dir[file]) \in Nat
    BY <1>6, LenProperties DEF Files
  <1>8. buffered \in Nat /\ buffered <= Len(dir[file])
    BY <1>7 DEF Init
  <1> QED
    BY <1>1, <1>2, <1>6, <1>8 DEF Typed

LEMMA TypedRotating ==
    ASSUME Typed, NEW m \in Entries, LogRotating(m), now' = now, logged' \in Nat,
           kind' = kind
    PROVE  Typed'
  <1>1. /\ size \in Nat /\ m.size \in Nat /\ faults \in Nat /\ buffered \in Nat /\ Files(dir)
        /\ (file # NoFile => file \in DOMAIN dir /\ buffered <= Len(dir[file]))
        /\ size + m.size \in Nat /\ now' \in Nat /\ kind' \in {"rotating", "daily", "step"}
    BY DEF Typed, Entries
  <1>2. CASE size' = size + m.size /\ Write(dir, file, buffered, 0, m) /\ file' = file
    <2>1. /\ Files(dir') /\ faults' \in Nat /\ buffered' \in Nat
          /\ file = NoFile => buffered' = 0
          /\ file # NoFile => file \in DOMAIN dir' /\ buffered' <= Len(dir'[file])
      BY <1>1, <1>2, WriteTyped
    <2> QED
      BY <1>1, <1>2, <2>1 DEF Typed
  <1>3. CASE RotateThenWrite(m)
    <2>1. PICK k \in Losses :
            \/ /\ size' = m.size /\ file' = Base
               /\ Write(With(Shifted(Drained(k), 1), Base, <<>>), Base, 0, Cost(k), m)
            \/ /\ Throw(Cost(k)) /\ size' = size + m.size
               /\ dir' \in HalfRotated(Drained(k))
               /\ file' = NoFile /\ buffered' = 0
      BY <1>3 DEF RotateThenWrite
    <2>2. Files(Drained(k)) /\ Cost(k) \in Nat
      BY DrainedIs
    <2>3. 1 \in 1..(MaxFiles + 1)
      BY FileAssumption
    <2> DEFINE d == With(Shifted(Drained(k), 1), Base, <<>>)
    <2>4. Files(d) /\ Base \in DOMAIN d
      BY <2>2, <2>3, ShiftedFiles, NamedFiles
    <2>5. 0 <= Len(d[Base])
      BY <2>4, LenProperties DEF Files
    <2>6. CASE size' = m.size /\ file' = Base /\ Write(d, Base, 0, Cost(k), m)
      <3> HIDE DEF d
      <3>1. /\ Files(dir') /\ faults' \in Nat /\ buffered' \in Nat
            /\ Base # NoFile => Base \in DOMAIN dir' /\ buffered' <= Len(dir'[Base])
        BY <1>1, <2>2, <2>4, <2>5, <2>6, WriteTyped
      <3> QED
        BY <1>1, <2>6, <3>1, Named DEF Typed
    <2>7. CASE /\ Throw(Cost(k)) /\ size' = size + m.size
               /\ dir' \in HalfRotated(Drained(k))
               /\ file' = NoFile /\ buffered' = 0
      <3>1. Files(dir')
        BY <2>2, <2>7, ShiftedFiles
      <3>2. faults' \in Nat
        BY <1>1, <2>2, <2>7 DEF Throw, Spend
      <3> QED
        BY <1>1, <2>7, <3>1, <3>2 DEF Typed
    <2> QED
      BY <2>1, <2>6, <2>7
  <1> QED
    BY <1>2, <1>3 DEF LogRotating

LEMMA TypedDaily ==
    ASSUME Typed, NEW m \in Entries, LogDaily(m), now' = now, logged' \in Nat,
           kind' = kind
    PROVE  Typed'
  <1>1. /\ size' \in Nat /\ faults \in Nat /\ buffered \in Nat /\ Files(dir)
        /\ (file # NoFile => file \in DOMAIN dir /\ buffered <= Len(dir[file]))
        /\ now' \in Nat /\ kind' \in {"rotating", "daily", "step"}
    BY DEF Typed, LogDaily
  <1>2. CASE Write(dir, file, buffered, 0, m) /\ file' = file
    <2>1. /\ Files(dir') /\ faults' \in Nat /\ buffered' \in Nat
          /\ file = NoFile => buffered' = 0
          /\ file # NoFile => file \in DOMAIN dir' /\ buffered' <= Len(dir'[file])
      BY <1>1, <1>2, WriteTyped
    <2> QED
      BY <1>1, <1>2, <2>1 DEF Typed
  <1>3. ASSUME NEW k \in Losses, file' = DailyName,
               Write(Opened(Drained(k), DailyName), DailyName, 0, Cost(k), m)
        PROVE  Typed'
    <2> DEFINE d == Opened(Drained(k), DailyName)
               f == DailyName
    <2>1. Files(d) /\ f \in DOMAIN d /\ Cost(k) \in Nat
      BY DrainedIs, NamedFiles
    <2>2. 0 <= Len(d[f]) /\ f # NoFile /\ file' = f /\ Write(d, f, 0, Cost(k), m)
      BY <1>3, <2>1, Named, LenProperties DEF Files
    <2> HIDE DEF d, f
    <2>3. /\ Files(dir') /\ faults' \in Nat /\ buffered' \in Nat
          /\ f # NoFile => f \in DOMAIN dir' /\ buffered' <= Len(dir'[f])
      BY <1>1, <2>1, <2>2, WriteTyped
    <2> QED
      BY <1>1, <2>2, <2>3 DEF Typed
  <1>4. ASSUME NEW k \in Losses, Throw(Cost(k)), file' = NoFile, buffered' = 0,
               dir' = Drained(k)
        PROVE  Typed'
    <2>1. Files(dir') /\ Cost(k) \in Nat
      BY <1>4, DrainedIs
    <2>2. faults' \in Nat
      BY <1>1, <1>4, <2>1 DEF Throw, Spend
    <2> QED
      BY <1>1, <1>4, <2>1, <2>2 DEF Typed
  <1> QED
    BY <1>2, <1>3, <1>4 DEF LogDaily

LEMMA ClosedFiles ==
    ASSUME NEW d, Files(d)
    PROVE  Files(Closed(d))
BY NamedFiles DEF Closed

LEMMA HeadedFiles ==
    ASSUME NEW d, Files(d), TmpName \in DOMAIN d, now \in Nat
    PROVE  Files(Headed(d)) /\ DOMAIN Headed(d) = DOMAIN d
  <1>1. Header \in Entries
    BY FileAssumption DEF Header, Entries, Time
  <1> QED
    BY <1>1, ExtendedFiles, ExtendedIs DEF Headed

LEMMA TypedStepSink ==
    ASSUME Typed, NEW m \in Entries, LogStep(m), now' = now, logged' \in Nat,
           kind' = kind
    PROVE  Typed'
  <1>1. /\ size \in Nat /\ m.size \in Nat /\ faults \in Nat /\ buffered \in Nat /\ Files(dir)
        /\ (file # NoFile => file \in DOMAIN dir /\ buffered <= Len(dir[file]))
        /\ size + m.size \in Nat /\ now' \in Nat /\ kind' \in {"rotating", "daily", "step"}
        /\ now \in Nat /\ HeaderSize \in Nat /\ HeaderSize + m.size \in Nat
    BY FileAssumption DEF Typed, Entries
  <1>2. CASE size' = size + m.size /\ Write(dir, file, buffered, 0, m) /\ file' = file
    <2>1. /\ Files(dir') /\ faults' \in Nat /\ buffered' \in Nat
          /\ file = NoFile => buffered' = 0
          /\ file # NoFile => file \in DOMAIN dir' /\ buffered' <= Len(dir'[file])
      BY <1>1, <1>2, WriteTyped
    <2> QED
      BY <1>1, <1>2, <2>1 DEF Typed
  <1>3. CASE CloseThrows /\ UNCHANGED state
    <2>1. faults' \in Nat
      BY <1>1, <1>3 DEF CloseThrows, Throw, Spend
    <2> QED
      BY <1>1, <1>3, <2>1 DEF Typed, state
  <1>4. ASSUME NEW k \in Losses, file' = TmpName, size' = HeaderSize + m.size,
               Write(Headed(Opened(Closed(Drained(k)), TmpName)), TmpName, Cost(HeaderSize),
                     Cost(k), m)
        PROVE  Typed'
    <2> DEFINE e == Opened(Closed(Drained(k)), TmpName)
               d == Headed(e)
               f == TmpName
               b == Cost(HeaderSize)
    <2>1. Files(e) /\ f \in DOMAIN e /\ Cost(k) \in Nat
      BY DrainedIs, ClosedFiles, NamedFiles
    <2>2. Files(d) /\ f \in DOMAIN d
      BY <1>1, <2>1, HeadedFiles
    <2>3. b \in Nat /\ b <= Len(d[f])
      <3>1. CASE HeaderSize = 0
        BY <2>2, <3>1, LenProperties DEF Cost, Files
      <3>2. CASE HeaderSize > 0
        <4>1. d = Extended(e, f, <<Header>>)
          BY <3>2 DEF Headed
        <4>2. Header \in Entries
          BY <1>1 DEF Header, Entries, Time
        <4> HIDE DEF e, f
        <4>3. Len(Extended(e, f, <<Header>>)[f]) = Len(e[f]) + 1
          BY <2>1, <4>2, ExtendedFiles
        <4>4. Len(d[f]) = Len(e[f]) + 1 /\ Len(e[f]) \in Nat
          BY <2>1, <4>1, <4>3, LenProperties DEF Files
        <4> HIDE DEF d
        <4>5. b = 1
          BY <1>1, <3>2 DEF Cost
        <4> QED
          BY <4>4, <4>5
      <3> QED
        BY <1>1, <3>1, <3>2
    <2>4. f # NoFile /\ file' = f /\ Write(d, f, b, Cost(k), m)
      BY <1>4, Named
    <2> HIDE DEF d, f, e, b
    <2>5. /\ Files(dir') /\ faults' \in Nat /\ buffered' \in Nat
          /\ f # NoFile => f \in DOMAIN dir' /\ buffered' <= Len(dir'[f])
      BY <1>1, <2>1, <2>2, <2>3, <2>4, WriteTyped
    <2> QED
      BY <1>1, <1>4, <2>4, <2>5 DEF Typed
  <1>5. ASSUME NEW k \in Losses, Throw(Cost(k)), file' = NoFile, buffered' = 0,
               dir' = Closed(Drained(k)), size' = size
        PROVE  Typed'
    <2>1. Files(dir') /\ Cost(k) \in Nat
      BY <1>5, DrainedIs, ClosedFiles
    <2>2. faults' \in Nat
      BY <1>1, <1>5, <2>1 DEF Throw, Spend
    <2> QED
      BY <1>1, <1>5, <2>1, <2>2 DEF Typed
  <1>6. ASSUME NEW k \in Losses, Throw(Cost(k)), file' = TmpName, buffered' = 0,
               dir' = Opened(Closed(Drained(k)), TmpName), size' = HeaderSize
        PROVE  Typed'
    <2>1. Files(dir') /\ TmpName \in DOMAIN dir' /\ Cost(k) \in Nat
      BY <1>6, DrainedIs, ClosedFiles, NamedFiles
    <2>2. faults' \in Nat /\ 0 <= Len(dir'[TmpName])
      BY <1>1, <1>6, <2>1, LenProperties DEF Throw, Spend, Files
    <2> QED
      BY <1>1, <1>6, <2>1, <2>2, Named DEF Typed
  <1> QED
    BY <1>2, <1>3, <1>4, <1>5, <1>6 DEF LogStep, ChangeThenWrite

LEMMA TypedStep ==
    ASSUME Typed, [Next]_vars
    PROVE  Typed'
  <1>1. CASE Tick
    BY <1>1 DEF Tick, Typed, set, state
  <1>2. CASE Log
    <2>1. PICK sz \in Sizes : LET m == Message(logged', sz)
                              IN  LogRotating(m) \/ LogDaily(m) \/ LogStep(m)
      BY <1>2 DEF Log
    <2>2. now' = now /\ kind' = kind /\ logged' \in Nat /\ sz \in Nat /\ now \in Nat
      BY <1>2 DEF Log, Sizes, Typed, set
    <2> DEFINE m == Message(logged', sz)
    <2>3. m \in Entries
      BY <2>2, MessageEntry
    <2>4. LogRotating(m) \/ LogDaily(m) \/ LogStep(m)
      BY <2>1
    <2> HIDE DEF m
    <2> QED
      BY <2>2, <2>3, <2>4, TypedRotating, TypedDaily, TypedStepSink
  <1>3. CASE Flush
    <2>1. PICK k \in Losses : dir' = Drained(k) /\ Spend(Cost(k))
      BY <1>3 DEF Flush
    <2>2. Files(dir') /\ DOMAIN dir' = DOMAIN dir /\ Cost(k) \in Nat
      BY <2>1, DrainedIs
    <2>3. buffered' = 0 /\ UNCHANGED <<kind, now, file, size, logged>>
      BY <1>3 DEF Flush, set
    <2>4. faults' \in Nat
      BY <2>1, <2>2 DEF Spend, Typed
    <2>5. file # NoFile => 0 <= Len(dir'[file])
      BY <2>2, LenProperties DEF Typed, Files
    <2> QED
      BY <2>2, <2>3, <2>4, <2>5 DEF Typed
  <1>4. CASE Restart
    <2>1. PICK k \in Losses : dir' = Opened(Drained(k), file') /\ Spend(Cost(k))
      BY <1>4 DEF Restart
    <2>2. Files(dir') /\ file' \in DOMAIN dir' /\ Cost(k) \in Nat
      BY <2>1, DrainedIs, NamedFiles
    <2>3. /\ buffered' = 0 /\ UNCHANGED <<kind, now, logged>>
          /\ file' \in {Base, DailyName}
          /\ size' \in {size, Total(dir'[file'])}
      BY <1>4 DEF Restart, set
    <2>4. faults' \in Nat
      BY <2>1, <2>2 DEF Spend, Typed
    <2>5. size' \in Nat
      BY <2>2, <2>3, TotalNat DEF Typed, Files
    <2>6. 0 <= Len(dir'[file']) /\ file' # NoFile
      BY <2>2, <2>3, Named, LenProperties DEF Files
    <2> QED
      BY <2>2, <2>3, <2>4, <2>5, <2>6 DEF Typed
  <1>5. CASE UNCHANGED vars
    BY <1>5 DEF vars, set, state, Typed
  <1> QED
    BY <1>1, <1>2, <1>3, <1>4, <1>5 DEF Next

LEMMA TypedHolds == Spec => []Typed
BY TypedInit, TypedStep, PTL DEF Spec

-----------------------------------------------------------------------------
(* The daily sink.                                                          *)

LEMMA RecoveringInit == Init => Recovering
  <1> SUFFICES ASSUME Init, kind = "daily" PROVE Recovering
    BY DEF Recovering
  <1>1. /\ now \in Nat /\ file = DailyName /\ tp = next_rotation_tp /\ crashed = FALSE
    BY FileAssumption DEF Init, daily_file_sink, rotating_file_sink, step_file_sink
  <1> QED
    BY <1>1, Clock DEF Recovering

LEMMA RecoveringStep ==
    ASSUME Typed, Recovering, [Next]_vars
    PROVE  Recovering'
  <1>1. SUFFICES ASSUME kind' = "daily" PROVE Recovering'
    BY DEF Recovering
  <1>2. kind = "daily"
    BY <1>1 DEF Next, Tick, Log, Flush, Restart, vars, set
  <1>3. /\ now \in Nat /\ tp \in Int /\ ~crashed /\ (file = NoFile => now >= tp)
        /\ file # NoFile => file \in DOMAIN dir
    BY <1>2 DEF Recovering, Typed
  <1>4. DailyName # NoFile /\ next_rotation_tp \in Int
    BY <1>3, Clock
  <1>5. CASE Tick
    BY <1>3, <1>5 DEF Tick, state, Recovering
  <1>6. CASE Log
    <2>1. PICK sz \in Sizes : LogDaily(Message(logged', sz))
      BY <1>2, <1>6 DEF Log, LogRotating, LogStep
    <2>2. now' = now
      BY <1>6 DEF Log
    <2> DEFINE m == Message(logged', sz)
    <2>3. \A d, f, b, c : f # NoFile /\ Write(d, f, b, c, m) => crashed' = crashed
      BY DEF Write, Throw
    <2> HIDE DEF m
    <2>4. CASE now < tp
      <3>1. Write(dir, file, buffered, 0, m) /\ UNCHANGED <<file, tp>> /\ file # NoFile
        BY <1>3, <2>1, <2>4 DEF LogDaily, m
      <3> QED
        BY <1>3, <2>2, <2>3, <2>4, <3>1 DEF Recovering
    <2>5. CASE ~(now < tp)
      <3>1. PICK k \in Losses :
              \/ /\ file' = DailyName /\ tp' = next_rotation_tp
                 /\ Write(Opened(Drained(k), DailyName), DailyName, 0, Cost(k), m)
              \/ Throw(Cost(k)) /\ UNCHANGED tp
        BY <2>1, <2>5 DEF LogDaily, m
      <3>2. CASE Throw(Cost(k)) /\ UNCHANGED tp
        BY <1>3, <2>2, <2>5, <3>2 DEF Recovering, Throw
      <3>3. CASE /\ file' = DailyName /\ tp' = next_rotation_tp
                 /\ Write(Opened(Drained(k), DailyName), DailyName, 0, Cost(k), m)
        BY <1>3, <1>4, <2>2, <2>3, <3>3 DEF Recovering
      <3> QED
        BY <3>1, <3>2, <3>3
    <2> QED
      BY <2>4, <2>5
  <1>7. CASE Flush
    BY <1>3, <1>7 DEF Flush, Recovering
  <1>8. CASE Restart
    <2>1. file' = DailyName /\ tp' = next_rotation_tp /\ UNCHANGED <<now, crashed>>
      BY <1>2, <1>8 DEF Restart
    <2> QED
      BY <1>3, <1>4, <2>1 DEF Recovering
  <1>9. CASE UNCHANGED vars
    BY <1>3, <1>9 DEF vars, state, Recovering
  <1> QED
    BY <1>5, <1>6, <1>7, <1>8, <1>9 DEF Next

\* A shorter file of a day is one of that day.
LEMMA FiledShorter ==
    ASSUME NEW d, NEW e, NEW time, Filed(d, time), Shorter(e, d)
    PROVE  Filed(e, time)
  <1> SUFFICES ASSUME NEW f \in DOMAIN e PROVE Holds(e[f], f[2])
    BY DEF Filed, Shorter
  <1>1. Holds(d[f], f[2]) /\ Starts(e[f], d[f])
    BY DEF Filed, Shorter
  <1>2. Len(e[f]) \in Nat /\ Len(d[f]) \in Nat
    BY <1>1, LenProperties DEF Starts
  <1>3. \A i \in 1..Len(e[f]) : i \in 1..Len(d[f]) /\ e[f][i] = d[f][i]
    BY <1>1, <1>2 DEF Starts
  <1> QED
    BY <1>1, <1>3 DEF Holds, Starts

LEMMA DailyInit == Init => Daily
  <1> SUFFICES ASSUME Jump = 0, Init, kind = "daily" PROVE Daily
    BY DEF Daily
  <1>1. /\ now \in Nat /\ file = DailyName /\ tp = next_rotation_tp
        /\ dir = [f \in {DailyName} |-> <<>>]
    BY FileAssumption DEF Init, daily_file_sink, rotating_file_sink, step_file_sink
  <1>2. DailyName = <<"day", now>> /\ SameDay(now, tp)
        /\ DailyName[2] = now /\ now \in 0..now
    BY <1>1, NextRotation
  <1>3. Holds(<<>>, now)
    BY DEF Holds
  <1>4. Filed(dir, now)
    BY <1>1, <1>2, <1>3 DEF Filed
  <1> QED
    BY <1>1, <1>2, <1>4 DEF Daily

\* Writing to a file of the day.
LEMMA FiledWrite ==
    ASSUME now \in Nat, NEW d, Filed(d, now), Files(d), NEW f \in DOMAIN d, f # NoFile,
           NEW b \in Nat, b <= Len(d[f]), NEW c \in Nat, NEW m \in Entries, faults \in Nat,
           m.written = now, Period(now) = Period(f[2]), Write(d, f, b, c, m)
    PROVE  Filed(dir', now)
  <1>1. b \in 0..Len(d[f]) /\ \A k \in 0..b : k \in 0..Len(d[f])
    BY LenProperties DEF Files
  <1>2. CASE dir' = Extended(d, f, <<m>>)
    BY <1>2, FiledMore
  <1>3. ASSUME NEW k \in 0..b, dir' = Cut(d, f, k) PROVE Filed(dir', now)
    BY <1>1, <1>3, CutIs, FiledShorter
  <1> QED
    BY <1>1, <1>2, <1>3, WriteIs

LEMMA DailyStep ==
    ASSUME Typed, Recovering, Daily, [Next]_vars
    PROVE  Daily'
  <1>1. SUFFICES ASSUME Jump = 0, kind' = "daily"
                 PROVE  Daily'
    BY DEF Daily
  <1>2. kind = "daily"
    BY <1>1 DEF Next, Tick, Log, Flush, Restart, vars, set
  <1>3. /\ now \in Nat /\ tp \in Int /\ logged \in Nat /\ faults \in Nat
        /\ buffered \in Nat /\ Files(dir)
        /\ file = NoFile => now >= tp
        /\ Filed(dir, now)
        /\ file # NoFile => /\ file \in DOMAIN dir /\ SameDay(file[2], tp)
                            /\ buffered <= Len(dir[file])
    BY <1>1, <1>2 DEF Recovering, Daily, Typed
  <1>4. CASE Tick
    <2>1. now' = now + 1 /\ UNCHANGED <<dir, file, tp>>
      BY <1>4 DEF Tick, state
    <2>2. now' \in Nat /\ \A t \in 0..now : t \in 0..now'
      BY <1>3, <2>1
    <2>3. Filed(dir', now')
      BY <1>3, <2>1, <2>2 DEF Filed
    <2> QED
      BY <1>3, <2>1, <2>3 DEF Daily
  <1>5. CASE Log
    <2>1. PICK sz \in Sizes : LogDaily(Message(logged', sz))
      BY <1>2, <1>5 DEF Log, LogRotating, LogStep
    <2>2. now' = now /\ logged' = logged + 1 /\ logged' \in Nat /\ sz \in Nat
      BY <1>3, <1>5 DEF Log, Sizes
    <2> DEFINE m == Message(logged', sz)
    <2>3. m \in Entries /\ m.written = now
      BY <1>2, <1>3, <2>2, MessageEntry
    <2> HIDE DEF m
    <2>4. CASE now < tp
      <3>1. Write(dir, file, buffered, 0, m) /\ UNCHANGED <<file, tp>> /\ file # NoFile
        BY <1>3, <2>1, <2>4 DEF LogDaily, m
      <3>2. file \in DOMAIN dir /\ Period(now) = Period(file[2])
        BY <1>3, <2>4, <3>1 DEF SameDay, Filed
      <3>3. Filed(dir', now)
        BY <1>3, <2>3, <3>1, <3>2, FiledWrite
      <3> QED
        BY <1>3, <2>2, <3>1, <3>3 DEF Daily
    <2>5. CASE ~(now < tp)
      <3>1. PICK k \in Losses :
              \/ /\ file' = DailyName /\ tp' = next_rotation_tp
                 /\ Write(Opened(Drained(k), DailyName), DailyName, 0, Cost(k), m)
              \/ file' = NoFile /\ dir' = Drained(k)
        BY <2>1, <2>5 DEF LogDaily, m
      <3>2. /\ Filed(Drained(k), now) /\ Files(Drained(k)) /\ Cost(k) \in Nat
        BY <1>3, DrainedIs, FiledShorter
      <3>3. CASE file' = NoFile /\ dir' = Drained(k)
        BY <1>3, <2>2, <3>2, <3>3 DEF Daily
      <3>4. CASE /\ file' = DailyName /\ tp' = next_rotation_tp
                 /\ Write(Opened(Drained(k), DailyName), DailyName, 0, Cost(k), m)
        <4> DEFINE f == DailyName
                   d == Opened(Drained(k), f)
        <4>1. /\ Filed(d, now) /\ f \in DOMAIN d /\ f # NoFile /\ f[2] = now
          BY <1>1, <1>3, <3>2, FiledNew
        <4>2. Files(d)
          BY <3>2, NamedFiles
        <4>3. SameDay(f[2], tp')
          BY <1>1, <1>3, <3>4, <4>1, NextRotation
        <4>4. Write(d, f, 0, Cost(k), m) /\ Period(now) = Period(f[2]) /\ 0 <= Len(d[f])
              /\ file' = f
          BY <3>4, <4>1, <4>2, LenProperties DEF Files
        <4> HIDE DEF d, f
        <4>5. Filed(dir', now)
          BY <1>3, <2>3, <3>2, <4>1, <4>2, <4>4, FiledWrite
        <4> QED
          BY <1>3, <2>2, <4>3, <4>4, <4>5 DEF Daily
      <3> QED
        BY <3>1, <3>3, <3>4
    <2> QED
      BY <2>4, <2>5
  <1>6. CASE Flush
    <2>1. PICK k \in Losses : dir' = Drained(k)
      BY <1>6 DEF Flush
    <2>2. UNCHANGED <<now, file, tp>>
      BY <1>6 DEF Flush
    <2>3. Filed(dir', now)
      BY <1>3, <2>1, DrainedIs, FiledShorter
    <2> QED
      BY <1>3, <2>2, <2>3 DEF Daily
  <1>7. CASE Restart
    <2>1. PICK k \in Losses : dir' = Opened(Drained(k), file')
      BY <1>7 DEF Restart
    <2>2. file' = DailyName /\ tp' = next_rotation_tp /\ now' = now
      BY <1>2, <1>7 DEF Restart
    <2>3. Filed(Drained(k), now)
      BY <1>3, DrainedIs, FiledShorter
    <2>4. Filed(dir', now) /\ DailyName[2] = now
      BY <1>1, <1>3, <2>1, <2>2, <2>3, FiledNew
    <2>5. SameDay(now, tp')
      BY <1>1, <1>3, <2>2, NextRotation
    <2> QED
      BY <1>3, <2>2, <2>4, <2>5 DEF Daily
  <1>8. CASE UNCHANGED vars
    <2>1. UNCHANGED <<now, dir, file, tp>>
      BY <1>8 DEF vars, state
    <2> QED
      BY <1>3, <2>1 DEF Daily
  <1> QED
    BY <1>4, <1>5, <1>6, <1>7, <1>8 DEF Next

LEMMA Invariant == Spec => [](Recovering /\ Daily)
BY TypedHolds, TypedInit, TypedStep, RecoveringInit, RecoveringStep, DailyInit, DailyStep,
   PTL DEF Spec

-----------------------------------------------------------------------------
(* The rotating sink.                                                       *)

\* A file of the rotating sink when last messages have been logged: within its
\* size but for a message that is longer.
File(s, last) == /\ s \in Seq(Entries)
                 /\ Total(s) <= MaxSize \/ Len(s) = 1
                 /\ \A i \in 1..Len(s) : s[i].n \in 1..last
Older(s, t) == \A i \in 1..Len(s), j \in 1..Len(t) : s[i].n < t[j].n
Shelf(d, last) ==
    /\ \A f \in DOMAIN d : f = L(f[2]) /\ f[2] \in 0..MaxFiles /\ File(d[f], last)
    /\ \A f, g \in DOMAIN d : f[2] > g[2] => Older(d[f], d[g])

Has(d, a) == \E f \in DOMAIN d : \E i \in 1..Len(d[f]) : d[f][i].n = a
\* The files hold the end of what was logged, all of it if there are fewer
\* than there may be.
Keeps(d, last) ==
    \E n \in 0..MaxFiles :
        /\ DOMAIN d = {L(i) : i \in 0..n}
        /\ \A a, b \in 1..last : a <= b /\ Has(d, a) => Has(d, b)
        /\ n = MaxFiles \/ \A a \in 1..last : Has(d, a)

Rotating ==
    kind = "rotating" =>
        /\ ~crashed
        /\ Shelf(dir, logged)
        /\ \/ file = Base /\ Base \in DOMAIN dir /\ Total(dir[Base]) <= size
           \/ file = NoFile /\ size > MaxSize /\ faults > 0
        /\ faults = 0 => Keeps(dir, logged)

-----------------------------------------------------------------------------
LEMMA Logs == \A i, j \in Int : L(i)[2] = i /\ L(0) = Base /\ (L(i) = L(j) => i = j)
BY DEF L, Base

\* Files that took the places of others, in the same order.
LEMMA Relocated ==
    ASSUME NEW d, NEW last, Shelf(d, last), NEW e, NEW src,
           \A f \in DOMAIN e : /\ f = L(f[2]) /\ f[2] \in 0..MaxFiles
                               /\ src[f] \in DOMAIN d /\ e[f] = d[src[f]],
           \A f, g \in DOMAIN e : f[2] > g[2] => src[f][2] > src[g][2]
    PROVE  Shelf(e, last)
BY DEF Shelf

LEMMA ShiftedShelf ==
    ASSUME NEW d, NEW last, Shelf(d, last), NEW k \in 1..(MaxFiles + 1)
    PROVE  Shelf(Shifted(d, k), last)
  <1> DEFINE e == Shifted(d, k)
             src == [f \in DOMAIN e |-> IF f[2] >= k THEN L(f[2] - 1) ELSE f]
  <1> HIDE DEF e
  <1>1. ASSUME NEW f \in DOMAIN e
        PROVE  /\ f = L(f[2]) /\ f[2] \in 0..MaxFiles
               /\ f[2] >= k => L(f[2] - 1) \in DOMAIN d /\ e[f] = d[L(f[2] - 1)]
               /\ f[2] < k => /\ f \in DOMAIN d /\ e[f] = d[f]
                              /\ f[2] = k - 1 => k > MaxFiles
    BY ShiftedIs DEF e
  <1>2. k \in Int /\ MaxFiles \in Nat
    BY FileAssumption
  <1>3. \A f \in DOMAIN e : src[f] \in DOMAIN d /\ e[f] = d[src[f]]
    BY <1>1, <1>2
  <1>4. \A f \in DOMAIN e : src[f][2] = IF f[2] >= k THEN f[2] - 1 ELSE f[2]
    BY <1>1, <1>2 DEF L
  <1> HIDE DEF src
  <1>5. \A f, g \in DOMAIN e : f[2] > g[2] => src[f][2] > src[g][2]
    BY <1>1, <1>2, <1>4
  <1>6. Shelf(e, last)
    BY <1>1, <1>3, <1>5, Relocated
  <1> QED
    BY <1>6 DEF e

LEMMA WithoutShelf ==
    ASSUME NEW d, NEW last, Shelf(d, last), NEW f
    PROVE  Shelf(Without(d, f), last)
BY DEF Shelf, Without

LEMMA EmptyShelf ==
    ASSUME NEW d, NEW last, Shelf(d, last)
    PROVE  Shelf(With(d, Base, <<>>), last)
  <1> DEFINE e == With(d, Base, <<>>)
  <1>1. DOMAIN e = DOMAIN d \cup {Base} /\ e[Base] = <<>>
        /\ \A f \in DOMAIN e : f # Base => f \in DOMAIN d /\ e[f] = d[f]
    BY DEF With
  <1>2. Base = L(Base[2]) /\ Base[2] = 0 /\ 0 \in 0..MaxFiles
    BY FileAssumption DEF Base, L
  <1>3. Len(<<>>) = 0 /\ <<>> \in Seq(Entries) /\ Total(<<>>) <= MaxSize
    BY TotalEmpty, FileAssumption
  <1>4. File(<<>>, last) /\ \A s : Older(s, <<>>) /\ Older(<<>>, s)
    BY <1>3 DEF File, Older
  <1> HIDE DEF e
  <1>5. Shelf(e, last)
    BY <1>1, <1>2, <1>4 DEF Shelf
  <1> QED
    BY <1>5 DEF e

LEMMA HalfShelf ==
    ASSUME NEW d, NEW last, Shelf(d, last), NEW e \in HalfRotated(d)
    PROVE  Shelf(e, last)
  <1>0. MaxFiles \in Nat
    BY FileAssumption
  <1>1. \/ e = d
        \/ \E i \in 1..MaxFiles : e = Without(Shifted(d, i + 1), L(i))
        \/ e = Shifted(d, 1)
    BY DEF HalfRotated, L
  <1>2. ASSUME NEW i \in 1..MaxFiles PROVE Shelf(Without(Shifted(d, i + 1), L(i)), last)
    <2>1. i + 1 \in 1..(MaxFiles + 1)
      BY <1>0
    <2> QED
      BY <2>1, ShiftedShelf, WithoutShelf
  <1>3. Shelf(Shifted(d, 1), last)
    BY <1>0, ShiftedShelf
  <1> QED
    BY <1>1, <1>2, <1>3

\* The next message goes behind those of the current file.
LEMMA MoreShelf ==
    ASSUME NEW d, NEW last \in Nat, Shelf(d, last), Base \in DOMAIN d,
           NEW m \in Entries, m.n = last + 1,
           Total(d[Base]) + m.size <= MaxSize \/ d[Base] = <<>>
    PROVE  /\ Shelf(Extended(d, Base, <<m>>), last + 1)
           /\ Base \in DOMAIN Extended(d, Base, <<m>>)
           /\ Total(Extended(d, Base, <<m>>)[Base]) = Total(d[Base]) + m.size
  <1> DEFINE e == Extended(d, Base, <<m>>)
             s == d[Base]
             t == s \o <<m>>
  <1>1. /\ DOMAIN e = DOMAIN d /\ e[Base] = t
        /\ \A f \in DOMAIN d : f # Base => e[f] = d[f]
    BY DEF Extended
  <1>2. s \in Seq(Entries) /\ (Total(s) <= MaxSize \/ Len(s) = 1)
        /\ (\A i \in 1..Len(s) : s[i].n \in 1..last) /\ Len(s) \in Nat
    BY LenProperties DEF Shelf, File
  <1>3. /\ t \in Seq(Entries) /\ Len(t) = Len(s) + 1 /\ t[Len(s) + 1] = m
        /\ \A i \in 1..Len(s) : t[i] = s[i]
        /\ Total(t) = Total(s) + m.size
    BY <1>2, TotalMore
  <1>4. Total(t) <= MaxSize \/ Len(t) = 1
    <2>1. s = <<>> => Len(s) = 0
      OBVIOUS
    <2> QED
      BY <1>3, <2>1
  <1> HIDE DEF t, e
  <1>5. \A i \in 1..Len(t) : t[i].n = IF i = Len(s) + 1 THEN last + 1 ELSE s[i].n
    BY <1>2, <1>3
  <1>6. \A i \in 1..Len(t) : i # Len(s) + 1 => i \in 1..Len(s)
    BY <1>2, <1>3
  <1>7. File(t, last + 1)
    BY <1>2, <1>3, <1>4, <1>5, <1>6 DEF File
  <1>8. ASSUME NEW f \in DOMAIN d PROVE File(e[f], last + 1)
    <2>1. File(d[f], last) /\ 1..last \subseteq 1..(last + 1)
      BY DEF Shelf
    <2>2. File(d[f], last + 1)
      BY <2>1 DEF File
    <2> QED
      BY <1>1, <1>7, <2>2
  <1>9. ASSUME NEW f \in DOMAIN d, NEW g \in DOMAIN d, f[2] > g[2]
        PROVE  Older(e[f], e[g])
    <2>1. Base[2] = 0 /\ f[2] \in Nat /\ g[2] \in Nat
      BY FileAssumption DEF Base, Shelf
    <2>2. f # Base /\ e[f] = d[f] /\ Older(d[f], d[g])
      BY <1>1, <1>9, <2>1 DEF Shelf
    <2>3. \A i \in 1..Len(d[f]) : d[f][i].n \in 1..last
      BY DEF Shelf, File
    <2>4. CASE g # Base
      BY <1>1, <2>2, <2>4
    <2>5. CASE g = Base
      <3>1. e[g] = t /\ d[g] = s
        BY <1>1, <2>5
      <3>2. \A i \in 1..Len(d[f]), j \in 1..Len(t) : d[f][i].n < t[j].n
        <4> TAKE i \in 1..Len(d[f]), j \in 1..Len(t)
        <4>1. CASE j = Len(s) + 1
          BY <1>5, <2>3, <4>1
        <4>2. CASE j # Len(s) + 1
          BY <1>5, <1>6, <2>2, <3>1, <4>2 DEF Older
        <4> QED
          BY <4>1, <4>2
      <3> QED
        BY <2>2, <3>1, <3>2 DEF Older
    <2> QED
      BY <2>4, <2>5
  <1>10. Shelf(e, last + 1)
    BY <1>1, <1>8, <1>9 DEF Shelf
  <1> QED
    BY <1>1, <1>3, <1>10 DEF e

LEMMA MoreKeeps ==
    ASSUME NEW d, NEW last \in Nat, Shelf(d, last), Keeps(d, last), Base \in DOMAIN d,
           NEW m \in Entries, m.n = last + 1
    PROVE  Keeps(Extended(d, Base, <<m>>), last + 1)
  <1> DEFINE e == Extended(d, Base, <<m>>)
             s == d[Base]
             t == s \o <<m>>
  <1>1. /\ DOMAIN e = DOMAIN d /\ e[Base] = t
        /\ \A f \in DOMAIN d : f # Base => e[f] = d[f]
    BY DEF Extended
  <1>2. s \in Seq(Entries) /\ Len(s) \in Nat
    BY LenProperties DEF Shelf, File
  <1>3. /\ Len(t) = Len(s) + 1 /\ t[Len(s) + 1] = m
        /\ \A i \in 1..Len(s) : t[i] = s[i]
    BY <1>2, TotalMore
  <1> HIDE DEF t, e
  <1>4. Has(e, last + 1)
    <2>1. Len(s) + 1 \in 1..Len(t)
      BY <1>2, <1>3
    <2> QED
      BY <1>1, <1>3, <2>1 DEF Has
  <1>5. ASSUME NEW a, Has(d, a) PROVE Has(e, a)
    <2>1. PICK f \in DOMAIN d : \E i \in 1..Len(d[f]) : d[f][i].n = a
      BY <1>5 DEF Has
    <2>2. PICK i \in 1..Len(d[f]) : d[f][i].n = a
      BY <2>1
    <2>3. i \in 1..Len(e[f]) /\ e[f][i].n = a
      <3>1. CASE f = Base
        <4>1. i \in 1..Len(t) /\ t[i] = s[i]
          BY <1>2, <1>3, <3>1
        <4> QED
          BY <1>1, <2>2, <3>1, <4>1
      <3>2. CASE f # Base
        BY <1>1, <2>2, <3>2
      <3> QED
        BY <3>1, <3>2
    <2> QED
      BY <1>1, <2>3 DEF Has
  <1>6. ASSUME NEW a \in 1..last, Has(e, a) PROVE Has(d, a)
    <2>1. PICK f \in DOMAIN d : \E i \in 1..Len(e[f]) : e[f][i].n = a
      BY <1>1, <1>6 DEF Has
    <2>2. PICK i \in 1..Len(e[f]) : e[f][i].n = a
      BY <2>1
    <2>3. i \in 1..Len(d[f]) /\ d[f][i].n = a
      <3>1. CASE f = Base
        <4>1. i # Len(s) + 1
          BY <1>1, <1>3, <2>2, <3>1
        <4> QED
          BY <1>1, <1>2, <1>3, <2>2, <3>1, <4>1
      <3>2. CASE f # Base
        BY <1>1, <2>2, <3>2
      <3> QED
        BY <3>1, <3>2
    <2> QED
      BY <2>3 DEF Has
  <1>7. PICK n \in 0..MaxFiles :
        /\ DOMAIN d = {L(i) : i \in 0..n}
        /\ \A a, b \in 1..last : a <= b /\ Has(d, a) => Has(d, b)
        /\ n = MaxFiles \/ \A a \in 1..last : Has(d, a)
    BY DEF Keeps
  <1>8. ASSUME NEW b \in 1..(last + 1) PROVE b = last + 1 \/ b \in 1..last
    OBVIOUS
  <1>9. ASSUME NEW a \in 1..(last + 1), NEW b \in 1..(last + 1), a <= b, Has(e, a)
        PROVE  Has(e, b)
    <2>1. CASE b = last + 1
      BY <1>4, <2>1
    <2>2. CASE b # last + 1
      <3>1. a \in 1..last /\ b \in 1..last
        BY <1>9, <2>2
      <3>2. Has(d, a) /\ Has(d, b)
        BY <1>6, <1>7, <1>9, <3>1
      <3> QED
        BY <1>5, <3>2
    <2> QED
      BY <2>1, <2>2
  <1>10. n = MaxFiles \/ \A a \in 1..(last + 1) : Has(e, a)
    BY <1>4, <1>5, <1>7, <1>8
  <1>11. Keeps(e, last + 1)
    BY <1>1, <1>7, <1>9, <1>10 DEF Keeps
  <1> QED
    BY <1>11 DEF e

\* A rotation drops the last file, and that only when there are all of them.
LEMMA RotatedKeeps ==
    ASSUME NEW d, NEW last \in Nat, Shelf(d, last), Keeps(d, last)
    PROVE  Keeps(With(Shifted(d, 1), Base, <<>>), last)
  <1> DEFINE h == Shifted(d, 1)
             e == With(h, Base, <<>>)
  <1>0. MaxFiles \in Nat /\ 1 \in 1..(MaxFiles + 1)
    BY FileAssumption
  <1>1. PICK n \in 0..MaxFiles :
        /\ DOMAIN d = {L(i) : i \in 0..n}
        /\ \A a, b \in 1..last : a <= b /\ Has(d, a) => Has(d, b)
        /\ n = MaxFiles \/ \A a \in 1..last : Has(d, a)
    BY DEF Keeps
  <1> DEFINE k == IF n < MaxFiles THEN n + 1 ELSE n
  <1>2. n \in Nat /\ k \in 0..MaxFiles /\ 0 \in 0..k
    BY <1>0
  <1>3. \A i, j \in Int : L(i)[2] = i /\ L(0) = Base /\ (L(i) = L(j) => i = j)
    BY Logs
  <1>4. /\ \A f \in DOMAIN h : /\ f = L(f[2]) /\ f[2] \in 0..MaxFiles
                               /\ f[2] >= 1 => /\ L(f[2] - 1) \in DOMAIN d
                                               /\ h[f] = d[L(f[2] - 1)]
        /\ \A i \in 1..MaxFiles : L(i - 1) \in DOMAIN d => L(i) \in DOMAIN h
    BY <1>0, ShiftedIs
  <1>5. /\ DOMAIN e = DOMAIN h \cup {Base} /\ e[Base] = <<>>
        /\ \A f \in DOMAIN e : f # Base => f \in DOMAIN h /\ e[f] = h[f]
    BY DEF With
  <1> HIDE DEF h, e
  <1>6. ASSUME NEW i \in 0..n, i < MaxFiles
        PROVE  L(i) \in DOMAIN d /\ L(i + 1) \in DOMAIN e /\ e[L(i + 1)] = d[L(i)]
    <2>1. i + 1 \in 1..MaxFiles /\ (i + 1) - 1 = i /\ i \in Int /\ i + 1 \in Int
          /\ i + 1 # 0
      BY <1>0, <1>2, <1>6
    <2>2. L(i) \in DOMAIN d
      BY <1>1
    <2>3. L(i + 1) \in DOMAIN h /\ L(i + 1)[2] = i + 1 /\ L(i + 1) # Base
      BY <1>3, <1>4, <2>1, <2>2
    <2>4. h[L(i + 1)] = d[L(i)]
      BY <1>4, <2>1, <2>3
    <2> QED
      BY <1>5, <2>2, <2>3, <2>4
  <1>7. ASSUME NEW f \in DOMAIN e, f # Base
        PROVE  \E i \in 0..n : i < MaxFiles /\ f = L(i + 1) /\ e[f] = d[L(i)]
    <2>1. f = L(f[2]) /\ f[2] \in 0..MaxFiles /\ f \in DOMAIN h /\ e[f] = h[f]
      BY <1>4, <1>5, <1>7
    <2>2. f[2] # 0
      BY <1>3, <1>7, <2>1
    <2>3. f[2] >= 1 /\ f[2] - 1 \in Int /\ (f[2] - 1) + 1 = f[2] /\ f[2] - 1 < MaxFiles
      BY <1>0, <2>1, <2>2
    <2>4. L(f[2] - 1) \in DOMAIN d /\ h[f] = d[L(f[2] - 1)]
      BY <1>4, <2>1, <2>3
    <2>5. PICK i \in 0..n : L(f[2] - 1) = L(i)
      BY <1>1, <2>4
    <2>6. i = f[2] - 1
      BY <1>3, <2>3, <2>5
    <2> QED
      BY <2>1, <2>3, <2>4, <2>6
  <1>8. DOMAIN e = {L(i) : i \in 0..k}
    <2>1. ASSUME NEW f \in DOMAIN e PROVE \E i \in 0..k : f = L(i)
      <3>1. CASE f = Base
        BY <1>2, <1>3, <3>1
      <3>2. CASE f # Base
        <4>1. PICK i \in 0..n : i < MaxFiles /\ f = L(i + 1)
          BY <1>7, <3>2
        <4>2. i + 1 \in 0..k
          BY <1>0, <1>2, <4>1
        <4> QED
          BY <4>1, <4>2
      <3> QED
        BY <3>1, <3>2
    <2>2. ASSUME NEW i \in 0..k PROVE L(i) \in DOMAIN e
      <3>1. CASE i = 0
        BY <1>3, <1>5, <3>1
      <3>2. CASE i # 0
        <4>1. i - 1 \in 0..n /\ i - 1 < MaxFiles /\ (i - 1) + 1 = i
          BY <1>0, <1>2, <3>2
        <4>2. L((i - 1) + 1) \in DOMAIN e
          BY <1>6, <4>1
        <4> QED
          BY <4>1, <4>2
      <3> QED
        BY <3>1, <3>2
    <2> HIDE DEF k
    <2> QED
      BY <2>1, <2>2
  <1>9. ASSUME NEW a, Has(e, a) PROVE Has(d, a)
    <2>1. PICK f \in DOMAIN e : \E i \in 1..Len(e[f]) : e[f][i].n = a
      BY <1>9 DEF Has
    <2>2. f # Base
      <3>1. Len(<<>>) = 0
        OBVIOUS
      <3> QED
        BY <1>5, <2>1, <3>1
    <2>3. PICK i \in 0..n : i < MaxFiles /\ f = L(i + 1) /\ e[f] = d[L(i)]
      BY <1>7, <2>2
    <2> QED
      BY <1>6, <2>1, <2>3 DEF Has
  \* Only what is in the last place goes.
  <1>10. ASSUME NEW a, Has(d, a)
         PROVE  Has(e, a) \/ \E i \in 1..Len(d[L(MaxFiles)]) :
                                 /\ d[L(MaxFiles)][i].n = a
                                 /\ L(MaxFiles) \in DOMAIN d /\ n = MaxFiles
    <2>1. PICK f \in DOMAIN d : \E i \in 1..Len(d[f]) : d[f][i].n = a
      BY <1>10 DEF Has
    <2>2. PICK j \in 0..n : f = L(j)
      BY <1>1
    <2>3. CASE j < MaxFiles
      <3>1. L(j + 1) \in DOMAIN e /\ e[L(j + 1)] = d[f]
        BY <1>6, <2>2, <2>3
      <3> QED
        BY <2>1, <3>1 DEF Has
    <2>4. CASE ~(j < MaxFiles)
      <3>1. j = MaxFiles /\ n = MaxFiles
        BY <1>0, <1>2, <2>4
      <3> QED
        BY <2>1, <2>2, <3>1
    <2> QED
      BY <2>3, <2>4
  <1>11. ASSUME NEW a \in 1..last, NEW b \in 1..last, a <= b, Has(e, a) PROVE Has(e, b)
    <2>1. Has(d, b)
      BY <1>1, <1>9, <1>11
    <2>2. CASE a = b
      BY <1>11, <2>2
    <2>3. CASE a # b /\ ~Has(e, b)
      <3>1. PICK i \in 1..Len(d[L(MaxFiles)]) : d[L(MaxFiles)][i].n = b
        BY <1>10, <2>1, <2>3
      <3>2. L(MaxFiles) \in DOMAIN d
        BY <1>10, <2>1, <2>3
      <3>3. PICK f \in DOMAIN e : \E j \in 1..Len(e[f]) : e[f][j].n = a
        BY <1>11 DEF Has
      <3>4. f # Base
        <4>1. Len(<<>>) = 0
          OBVIOUS
        <4> QED
          BY <1>5, <3>3, <4>1
      <3>5. PICK p \in 0..n : p < MaxFiles /\ f = L(p + 1) /\ e[f] = d[L(p)]
        BY <1>7, <3>4
      <3>6. L(p) \in DOMAIN d /\ L(p)[2] = p /\ L(MaxFiles)[2] = MaxFiles
            /\ MaxFiles > p
        BY <1>0, <1>2, <1>3, <1>6, <3>5
      <3>7. Older(d[L(MaxFiles)], d[L(p)])
        BY <3>2, <3>6 DEF Shelf
      <3>8. PICK j \in 1..Len(d[L(p)]) : d[L(p)][j].n = a
        BY <3>3, <3>5
      <3>9. b < a
        BY <3>1, <3>7, <3>8 DEF Older
      <3> QED
        BY <1>11, <3>9
    <2> QED
      BY <2>2, <2>3
  <1>12. k = MaxFiles \/ \A a \in 1..last : Has(e, a)
    BY <1>0, <1>1, <1>2, <1>10
  <1> HIDE DEF k
  <1>13. Keeps(e, last)
    BY <1>2, <1>8, <1>11, <1>12 DEF Keeps
  <1> QED
    BY <1>13 DEF e, h

\* Messages that are lost count as logged.
LEMMA MoreTime ==
    ASSUME NEW d, NEW last \in Nat, Shelf(d, last)
    PROVE  Shelf(d, last + 1)
  <1>1. 1..last \subseteq 1..(last + 1)
    OBVIOUS
  <1> QED
    BY <1>1 DEF Shelf, File

\* What is left of files of which the end was lost is in order, too.
LEMMA ShorterShelf ==
    ASSUME NEW d, NEW e, NEW last, Shelf(d, last), Shorter(e, d)
    PROVE  Shelf(e, last)
  <1>1. \A f \in DOMAIN d : /\ Starts(e[f], d[f]) /\ File(d[f], last)
                            /\ Len(e[f]) \in Nat /\ Len(d[f]) \in Nat
                            /\ Len(e[f]) <= Len(d[f])
    BY LenProperties DEF Shelf, Shorter, Starts
  <1>2. \A f \in DOMAIN d : \A i \in 1..Len(e[f]) : i \in 1..Len(d[f]) /\ e[f][i] = d[f][i]
    BY <1>1 DEF Starts
  <1>3. ASSUME NEW f \in DOMAIN d PROVE File(e[f], last)
    <2> DEFINE s == e[f]
               t == d[f]
    <2>1. /\ Starts(s, t) /\ File(t, last) /\ Len(s) \in Nat /\ Len(t) \in Nat
          /\ Len(s) <= Len(t) /\ \A i \in 1..Len(s) : s[i].n \in 1..last
      BY <1>1, <1>2 DEF File
    <2> HIDE DEF s, t
    <2>2. Total(s) \in Nat /\ Total(t) \in Nat /\ Total(s) <= Total(t) /\ MaxSize \in Nat
      BY <2>1, TotalStarts, FileAssumption
    <2>3. Total(s) <= MaxSize \/ Len(s) = 1
      <3>1. CASE Len(s) = 0
        <4>1. s = <<>>
          BY <2>1, <3>1, EmptySeq DEF Starts
        <4> QED
          BY <2>2, <4>1, TotalEmpty
      <3>2. CASE Len(s) # 0
        BY <2>1, <2>2, <3>2 DEF File
      <3> QED
        BY <3>1, <3>2
    <2>4. File(s, last)
      BY <2>1, <2>3 DEF File, Starts
    <2> QED
      BY <2>4 DEF s
  <1>4. ASSUME NEW f \in DOMAIN d, NEW g \in DOMAIN d, f[2] > g[2] PROVE Older(e[f], e[g])
    BY <1>2, <1>4 DEF Shelf, Older
  <1>5. DOMAIN e = DOMAIN d
    BY DEF Shorter
  <1> QED
    BY <1>3, <1>4, <1>5 DEF Shelf

\* What writing m to the current file of d does.
Written(d, m) ==
    /\ crashed' = crashed
    /\ Shelf(dir', logged + 1)
    /\ Base \in DOMAIN dir' /\ Total(dir'[Base]) \in Nat
    /\ Total(dir'[Base]) <= Total(d[Base]) + m.size
    /\ faults' = 0 => Keeps(dir', logged + 1)

LEMMA WriteBase ==
    ASSUME NEW d, NEW m \in Entries, m.n = logged + 1, NEW b \in Nat, NEW c \in Nat,
           Write(d, Base, b, c, m),
           Base \in DOMAIN d, b <= Len(d[Base]), logged \in Nat, Shelf(d, logged),
           faults \in Nat,
           faults + c = 0 => Keeps(d, logged),
           Total(d[Base]) + m.size <= MaxSize \/ d[Base] = <<>>
    PROVE  Written(d, m)
  <1>0. Total(d[Base]) \in Nat /\ m.size \in Nat /\ Files(d) /\ Base # NoFile
        /\ Len(d[Base]) \in Nat
    BY TotalNat, LenProperties, Named DEF Shelf, File, Entries, Files
  <1>1. b \in 0..Len(d[Base])
    BY <1>0
  <1>2. /\ crashed' = crashed
        /\ \/ dir' = Extended(d, Base, <<m>>) /\ faults' = faults + c
           \/ faults' = faults + c + 1 /\ \E k \in 0..b : dir' = Cut(d, Base, k)
    BY <1>0, <1>1, WriteIs
  <1>3. CASE dir' = Extended(d, Base, <<m>>) /\ faults' = faults + c
    BY <1>0, <1>2, <1>3, MoreShelf, MoreKeeps DEF Written
  <1>4. CASE faults' = faults + c + 1 /\ \E k \in 0..b : dir' = Cut(d, Base, k)
    <2>1. PICK k \in 0..b : dir' = Cut(d, Base, k)
      BY <1>4
    <2>2. k \in 0..Len(d[Base])
      BY <1>0
    <2>3. Shorter(dir', d)
      BY <1>0, <2>1, <2>2, CutIs
    <2>4. Shelf(dir', logged + 1)
      BY <2>3, MoreTime, ShorterShelf
    <2>5. Base \in DOMAIN dir' /\ Starts(dir'[Base], d[Base])
      BY <2>3 DEF Shorter
    <2>6. Total(dir'[Base]) \in Nat /\ Total(dir'[Base]) <= Total(d[Base])
      BY <2>5, TotalStarts
    <2>7. faults' # 0
      BY <1>4
    <2> QED
      BY <1>0, <1>2, <2>4, <2>5, <2>6, <2>7 DEF Written
  <1> QED
    BY <1>2, <1>3, <1>4

LEMMA RotatingInit == Init => Rotating
  <1> SUFFICES ASSUME Init, kind = "rotating" PROVE Rotating
    BY DEF Rotating
  <1>1. /\ file = Base /\ dir = [f \in {Base} |-> <<>>] /\ size = 0
        /\ logged = 0 /\ crashed = FALSE
    BY DEF Init, rotating_file_sink, daily_file_sink, step_file_sink
  <1>2. Base = L(Base[2]) /\ Base[2] = 0 /\ 0 \in 0..MaxFiles /\ L(0) = Base
    BY FileAssumption DEF Base, L
  <1>3. Len(<<>>) = 0 /\ <<>> \in Seq(Entries) /\ Total(<<>>) = 0 /\ MaxSize \in Nat
    BY TotalEmpty, FileAssumption
  <1>4. DOMAIN dir = {Base} /\ dir[Base] = <<>>
    BY <1>1
  <1>5. Shelf(dir, 0)
    <2>1. File(<<>>, 0) /\ Older(<<>>, <<>>)
      BY <1>3 DEF File, Older
    <2> QED
      BY <1>2, <1>4, <2>1 DEF Shelf
  <1>6. Keeps(dir, 0)
    <2>1. {Base} = {L(i) : i \in 0..0}
      BY <1>2
    <2> QED
      BY <1>2, <1>4, <2>1 DEF Keeps
  <1> QED
    BY <1>1, <1>3, <1>4, <1>5, <1>6 DEF Rotating

LEMMA RotatingStep ==
    ASSUME Typed, Rotating, [Next]_vars
    PROVE  Rotating'
  <1>1. SUFFICES ASSUME kind' = "rotating" PROVE Rotating'
    BY DEF Rotating
  <1>2. kind = "rotating"
    BY <1>1 DEF Next, Tick, Log, Flush, Restart, vars, set
  <1>3. /\ logged \in Nat /\ size \in Nat /\ faults \in Nat /\ buffered \in Nat
        /\ ~crashed /\ Files(dir)
        /\ Shelf(dir, logged)
        /\ \/ file = Base /\ Base \in DOMAIN dir /\ Total(dir[Base]) <= size
           \/ file = NoFile /\ size > MaxSize /\ faults > 0
        /\ faults = 0 => Keeps(dir, logged)
        /\ file # NoFile => buffered <= Len(dir[file])
        /\ now \in Nat
    BY <1>2 DEF Rotating, Typed
  <1>4. MaxSize \in Nat /\ Base # NoFile
    BY FileAssumption, Named
  <1>5. ASSUME NEW k \in Losses
        PROVE  /\ Shelf(Drained(k), logged) /\ Cost(k) \in Nat
               /\ faults + Cost(k) = 0 =>
                     faults = 0 /\ Drained(k) = dir /\ Keeps(Drained(k), logged)
               /\ DOMAIN Drained(k) = DOMAIN dir
               /\ file = Base => Total(Drained(k)[Base]) <= size
    <2>1. /\ Shorter(Drained(k), dir) /\ Cost(k) \in Nat /\ DOMAIN Drained(k) = DOMAIN dir
          /\ (Cost(k) = 0 => Drained(k) = dir)
      BY DrainedIs
    <2>2. faults + Cost(k) = 0 => faults = 0 /\ Cost(k) = 0
      BY <1>3, <2>1
    <2>3. ASSUME file = Base PROVE Total(Drained(k)[Base]) <= size
      <3>1. Starts(Drained(k)[Base], dir[Base]) /\ Total(dir[Base]) <= size
        BY <1>3, <1>4, <2>1, <2>3 DEF Shorter
      <3>2. /\ Total(Drained(k)[Base]) \in Nat /\ Total(dir[Base]) \in Nat
            /\ Total(Drained(k)[Base]) <= Total(dir[Base])
        BY <3>1, TotalStarts
      <3> DEFINE x == Total(Drained(k)[Base])
                 y == Total(dir[Base])
      <3> HIDE DEF x, y
      <3>3. x \in Nat /\ y \in Nat /\ x <= y /\ y <= size
        BY <3>1, <3>2 DEF x, y
      <3>4. x <= size
        BY <1>3, <3>3
      <3> QED
        BY <3>4 DEF x
    <2> QED
      BY <1>3, <2>1, <2>2, <2>3, ShorterShelf
  <1>6. CASE Log
    <2>1. PICK sz \in Sizes : LogRotating(Message(logged', sz))
      BY <1>2, <1>6 DEF Log, LogDaily, LogStep
    <2>2. logged' = logged + 1 /\ logged' \in Nat /\ sz \in Nat
      BY <1>3, <1>6 DEF Log, Sizes
    <2> DEFINE m == Message(logged', sz)
    <2>3. m \in Entries /\ m.n = logged + 1 /\ m.size = sz
      BY <1>3, <2>2, MessageEntry
    <2> HIDE DEF m
    <2>5. CASE size + m.size <= MaxSize
      <3>1. size' = size + m.size /\ Write(dir, file, buffered, 0, m) /\ file' = file
        BY <1>3, <1>4, <2>1, <2>2, <2>3, <2>5 DEF LogRotating, m
      <3>2. file = Base /\ Base \in DOMAIN dir /\ Total(dir[Base]) <= size
            /\ buffered <= Len(dir[Base])
        BY <1>3, <1>4, <2>2, <2>3, <2>5
      <3>3. Total(dir[Base]) \in Nat
        BY <1>3, <3>2, TotalNat DEF Shelf, File
      <3>4. Total(dir[Base]) + m.size <= MaxSize
        BY <1>3, <1>4, <2>2, <2>3, <2>5, <3>2, <3>3
      <3>5. Written(dir, m)
        BY <1>3, <2>3, <3>1, <3>2, <3>4, WriteBase
      <3>6. Total(dir'[Base]) <= size'
        BY <1>3, <2>2, <2>3, <3>1, <3>2, <3>3, <3>5 DEF Written
      <3> QED
        BY <1>3, <2>2, <3>1, <3>2, <3>5, <3>6 DEF Rotating, Written
    <2>6. CASE ~(size + m.size <= MaxSize)
      <3>1. PICK k \in Losses :
              \/ /\ size' = m.size /\ file' = Base
                 /\ Write(With(Shifted(Drained(k), 1), Base, <<>>), Base, 0, Cost(k), m)
              \/ /\ Throw(Cost(k)) /\ size' = size + m.size
                 /\ dir' \in HalfRotated(Drained(k))
                 /\ file' = NoFile
        BY <1>3, <1>4, <2>1, <2>2, <2>3, <2>6 DEF LogRotating, RotateThenWrite, m
      <3>2. CASE /\ size' = m.size /\ file' = Base
                 /\ Write(With(Shifted(Drained(k), 1), Base, <<>>), Base, 0, Cost(k), m)
        <4> DEFINE e == Drained(k)
                   c == Cost(k)
                   d == With(Shifted(e, 1), Base, <<>>)
        <4>0. /\ Shelf(e, logged) /\ c \in Nat /\ (faults + c = 0 => Keeps(e, logged))
              /\ size' = m.size /\ file' = Base /\ Write(d, Base, 0, c, m)
          BY <1>5, <3>2
        <4> HIDE DEF e, c
        <4>1. Base \in DOMAIN d /\ d[Base] = <<>>
          BY DEF With
        <4>2. Shelf(d, logged)
          <5>1. 1 \in 1..(MaxFiles + 1)
            BY FileAssumption
          <5> QED
            BY <4>0, <5>1, ShiftedShelf, EmptyShelf
        <4>3. faults + c = 0 => Keeps(d, logged)
          BY <1>3, <4>0, RotatedKeeps
        <4>4. 0 <= Len(d[Base])
          BY <4>1
        <4> HIDE DEF d
        <4>5. Written(d, m)
          BY <1>3, <2>3, <4>0, <4>1, <4>2, <4>3, <4>4, WriteBase
        <4>6. Total(dir'[Base]) <= size'
          BY <2>2, <2>3, <4>0, <4>1, <4>5, TotalEmpty DEF Written
        <4> QED
          BY <1>3, <2>2, <4>0, <4>5, <4>6 DEF Rotating, Written
      <3>3. CASE /\ Throw(Cost(k)) /\ size' = size + m.size
                 /\ dir' \in HalfRotated(Drained(k)) /\ file' = NoFile
        <4>1. Shelf(Drained(k), logged + 1) /\ Cost(k) \in Nat
          BY <1>3, <1>5, MoreTime
        <4>2. Shelf(dir', logged + 1)
          BY <3>3, <4>1, HalfShelf
        <4>3. faults' = faults + (Cost(k) + 1) /\ crashed' = crashed
          BY <3>3 DEF Throw, Spend
        <4>4. faults' > 0 /\ size' > MaxSize
          BY <1>3, <1>4, <2>2, <2>3, <2>6, <3>3, <4>1, <4>3
        <4> QED
          BY <1>3, <2>2, <3>3, <4>2, <4>3, <4>4 DEF Rotating
      <3> QED
        BY <3>1, <3>2, <3>3
    <2> QED
      BY <2>5, <2>6
  <1>7. CASE Flush
    <2>1. PICK k \in Losses : dir' = Drained(k) /\ Spend(Cost(k))
      BY <1>7 DEF Flush
    <2>2. file # NoFile /\ UNCHANGED <<file, size, logged, crashed>>
      BY <1>7 DEF Flush
    <2>3. file = Base /\ Base \in DOMAIN dir' /\ Total(dir'[Base]) <= size
      BY <1>3, <1>5, <2>1, <2>2
    <2>4. faults' = 0 => Keeps(dir', logged)
      BY <1>5, <2>1 DEF Spend
    <2> QED
      BY <1>3, <1>5, <2>1, <2>2, <2>3, <2>4 DEF Rotating
  <1>8. CASE Restart
    <2>1. PICK k \in Losses : dir' = Opened(Drained(k), file') /\ Spend(Cost(k))
      BY <1>8 DEF Restart
    <2>2. /\ file' = Base /\ size' = Total(dir'[file'])
          /\ UNCHANGED <<logged, crashed>>
      BY <1>2, <1>8 DEF Restart
    <2>3. Shelf(dir', logged) /\ Base \in DOMAIN dir'
      <3>1. Shelf(Drained(k), logged)
        BY <1>5
      <3>2. CASE Base \in DOMAIN Drained(k)
        BY <2>1, <2>2, <3>1, <3>2 DEF Opened
      <3>3. CASE Base \notin DOMAIN Drained(k)
        BY <2>1, <2>2, <3>1, <3>3, EmptyShelf DEF Opened, With
      <3> QED
        BY <3>2, <3>3
    <2>4. Total(dir'[Base]) \in Nat
      BY <2>3, TotalNat DEF Shelf, File
    <2>5. faults' = 0 => Keeps(dir', logged)
      <3> SUFFICES ASSUME faults' = 0 PROVE Keeps(dir', logged)
        OBVIOUS
      <3>1. faults = 0 /\ Drained(k) = dir /\ Keeps(dir, logged)
        BY <1>5, <2>1 DEF Spend
      <3>2. Base \in DOMAIN dir
        BY <1>3, <3>1
      <3> QED
        BY <2>1, <2>2, <3>1, <3>2 DEF Opened
    <2> QED
      BY <1>3, <2>2, <2>3, <2>4, <2>5 DEF Rotating
  <1>9. CASE UNCHANGED vars
    <2>1. UNCHANGED <<dir, file, size, logged, faults, crashed>>
      BY <1>9 DEF vars, state
    <2> QED
      BY <1>3, <2>1 DEF Rotating
  <1> QED
    BY <1>2, <1>6, <1>7, <1>8, <1>9 DEF Next, Tick

LEMMA RotatingHolds == Spec => []Rotating
BY TypedInit, TypedStep, RotatingInit, RotatingStep, PTL DEF Spec

\* Names are as many as their indices.
LEMMA Places ==
    ASSUME NEW n \in Nat
    PROVE  Cardinality({L(i) : i \in 0..n}) = n + 1
  <1> DEFINE f == [i \in 0..n |-> L(i)]
             S == {L(i) : i \in 0..n}
  <1>1. \A i, j \in 0..n : L(i) = L(j) => i = j
    BY Logs
  <1>2. f \in Bijection(0..n, S)
    BY <1>1 DEF Bijection, Injection, Surjection, IsInjective
  <1>3. IsFiniteSet(0..n) /\ Cardinality(0..n) = n + 1
    BY FS_Interval
  <1> QED
    BY <1>2, <1>3, FS_Bijection DEF ExistsBijection

-----------------------------------------------------------------------------
(* The step sink.                                                           *)

\* The header comes first and only there.
HeadedFile(s) == /\ s \in Seq(Entries) /\ Len(s) \in Nat \ {0}
                 /\ \A i \in 1..Len(s) : s[i].n = 0 <=> i = 1
OneTmp(d, f) == \A g \in DOMAIN d : g[1] = "tmp" => g = f
AllHeaded(d) == \A f \in DOMAIN d : HeadedFile(d[f])

Stepping ==
    kind = "step" =>
        /\ OneTmp(dir, current)
        /\ faults = 0 => ~crashed /\ file = current /\ file # NoFile
        /\ HeaderSize > 0 /\ faults = 0 => AllHeaded(dir)

LEMMA HeadedMore ==
    ASSUME NEW s, HeadedFile(s), NEW m \in Entries, m.n # 0
    PROVE  HeadedFile(s \o <<m>>)
  <1> DEFINE t == s \o <<m>>
  <1>1. s \in Seq(Entries) /\ Len(s) \in Nat \ {0}
    BY DEF HeadedFile
  <1>2. /\ t \in Seq(Entries) /\ Len(t) = Len(s) + 1 /\ t[Len(s) + 1] = m
        /\ \A i \in 1..Len(s) : t[i] = s[i]
    BY <1>1, TotalMore
  <1> HIDE DEF t
  <1>3. ASSUME NEW i \in 1..Len(t) PROVE t[i].n = 0 <=> i = 1
    <2>1. CASE i = Len(s) + 1
      BY <1>1, <1>2, <2>1
    <2>2. CASE i # Len(s) + 1
      <3>1. i \in 1..Len(s)
        BY <1>1, <1>2, <2>2
      <3> QED
        BY <1>2, <3>1 DEF HeadedFile
    <2> QED
      BY <2>1, <2>2
  <1>4. HeadedFile(t)
    BY <1>1, <1>2, <1>3 DEF HeadedFile
  <1> QED
    BY <1>4 DEF t

LEMMA AllHeadedMore ==
    ASSUME NEW d, AllHeaded(d), NEW f \in DOMAIN d, NEW m \in Entries, m.n # 0
    PROVE  AllHeaded(Extended(d, f, <<m>>))
  <1> DEFINE e == Extended(d, f, <<m>>)
  <1>1. HeadedFile(d[f] \o <<m>>)
    BY HeadedMore DEF AllHeaded
  <1>2. /\ DOMAIN e = DOMAIN d /\ e[f] = d[f] \o <<m>>
        /\ \A g \in DOMAIN d : g # f => e[g] = d[g]
    BY ExtendedIs
  <1> HIDE DEF e
  <1>3. AllHeaded(e)
    BY <1>1, <1>2 DEF AllHeaded
  <1> QED
    BY <1>3 DEF e

\* Closing leaves no temporary name, and files as they were.
LEMMA ClosedIs ==
    ASSUME NEW d, OneTmp(d, current)
    PROVE  /\ \A f \in DOMAIN Closed(d) : f[1] # "tmp"
           /\ AllHeaded(d) => AllHeaded(Closed(d))
  <1>1. Target(current)[1] # "tmp"
    BY DEF Target
  <1>2. CASE Empty
    BY <1>2 DEF Closed, Without, OneTmp, AllHeaded
  <1>3. CASE ~Empty /\ current \in DOMAIN d
    <2> DEFINE w == Without(d, current)
               t == Target(current)
               e == With(w, t, d[current])
    <2>1. DOMAIN w = DOMAIN d \ {current} /\ \A f \in DOMAIN w : w[f] = d[f]
      BY DEF Without
    <2>2. DOMAIN e = DOMAIN w \cup {t} /\ \A f \in DOMAIN e :
             e[f] = IF f = t THEN d[current] ELSE w[f]
      BY DEF With
    <2>3. Closed(d) = e
      BY <1>3 DEF Closed, Renamed
    <2> HIDE DEF w, t, e
    <2>4. AllHeaded(d) => AllHeaded(e)
      BY <1>3, <2>1, <2>2 DEF AllHeaded
    <2>5. \A f \in DOMAIN e : f[1] # "tmp"
      BY <1>1, <2>1, <2>2 DEF OneTmp, t
    <2> QED
      BY <2>3, <2>4, <2>5
  <1>4. CASE ~Empty /\ current \notin DOMAIN d
    BY <1>4 DEF Closed, Renamed, OneTmp
  <1> QED
    BY <1>2, <1>3, <1>4

LEMMA FreshIs ==
    ASSUME NEW d0, OneTmp(d0, current), now \in Nat
    PROVE  LET d == Opened(Closed(d0), TmpName)
           IN  /\ OneTmp(d, TmpName) /\ OneTmp(Headed(d), TmpName)
               /\ TmpName \in DOMAIN Headed(d)
               /\ HeaderSize > 0 /\ AllHeaded(d0) => AllHeaded(Headed(d))
  <1> DEFINE c == Closed(d0)
             d == Opened(c, TmpName)
             e == Headed(d)
  <1>1. TmpName[1] = "tmp"
    BY DEF TmpName
  <1>2. TmpName \notin DOMAIN c /\ (\A f \in DOMAIN c : f[1] # "tmp")
        /\ (AllHeaded(d0) => AllHeaded(c))
    BY <1>1, ClosedIs
  <1> HIDE DEF c
  <1>3. /\ DOMAIN d = DOMAIN c \cup {TmpName} /\ d[TmpName] = <<>>
        /\ \A f \in DOMAIN c : d[f] = c[f]
    BY <1>2 DEF Opened, With
  <1> HIDE DEF d
  <1>4. OneTmp(d, TmpName) /\ TmpName \in DOMAIN d
    BY <1>1, <1>2, <1>3 DEF OneTmp
  <1>5. DOMAIN e = DOMAIN d
    BY ExtendedIs DEF Headed
  <1>6. ASSUME HeaderSize > 0, AllHeaded(d0) PROVE AllHeaded(e)
    <2>1. e = Extended(d, TmpName, <<Header>>)
      BY <1>6 DEF Headed
    <2>2. Header \in Entries /\ Header.n = 0
      BY FileAssumption DEF Header, Entries, Time
    <2>3. e[TmpName] = <<>> \o <<Header>>
      BY <1>3, <1>4, <2>1, ExtendedIs
    <2>4. HeadedFile(e[TmpName])
      <3>1. e[TmpName] = <<Header>>
        BY <2>3
      <3> HIDE DEF e
      <3> QED
        BY <2>2, <3>1 DEF HeadedFile
    <2>5. \A f \in DOMAIN c : HeadedFile(c[f])
      BY <1>2, <1>6 DEF AllHeaded
    <2>6. \A f \in DOMAIN d : f # TmpName => e[f] = c[f] /\ f \in DOMAIN c
      BY <1>3, <2>1, ExtendedIs
    <2> HIDE DEF e
    <2> QED
      BY <1>5, <2>4, <2>5, <2>6 DEF AllHeaded
  <1> HIDE DEF e
  <1>7. OneTmp(e, TmpName) /\ TmpName \in DOMAIN e
    BY <1>4, <1>5 DEF OneTmp
  <1> QED
    BY <1>4, <1>6, <1>7 DEF e, d, c

\* Writing keeps the names and, if nothing fails, the headers.
LEMMA StepWrites ==
    ASSUME NEW d, Files(d), NEW f, OneTmp(d, f), NEW g, NEW b \in Nat, NEW c \in Nat,
           g # NoFile => g \in DOMAIN d /\ b <= Len(d[g]),
           NEW m \in Entries, m.n # 0, Write(d, g, b, c, m), faults \in Nat
    PROVE  /\ OneTmp(dir', f)
           /\ faults' = 0 => faults = 0 /\ c = 0
           /\ faults' = 0 /\ g # NoFile => /\ crashed' = crashed
                                           /\ AllHeaded(d) => AllHeaded(dir')
  <1>1. CASE g = NoFile
    <2>1. dir' = d /\ faults' = faults + c
      BY <1>1 DEF Write, Spend
    <2> QED
      BY <1>1, <2>1
  <1>2. CASE g # NoFile
    <2>1. g \in DOMAIN d /\ Len(d[g]) \in Nat /\ b <= Len(d[g])
      BY <1>2, LenProperties DEF Files
    <2>2. b \in 0..Len(d[g])
      BY <2>1
    <2>3. /\ crashed' = crashed /\ DOMAIN dir' = DOMAIN d
          /\ \/ dir' = Extended(d, g, <<m>>) /\ faults' = faults + c
             \/ faults' = faults + c + 1
      BY <1>2, <2>1, <2>2, WriteIs
    <2>4. AllHeaded(d) => AllHeaded(Extended(d, g, <<m>>))
      BY <2>1, AllHeadedMore
    <2>5. faults + c + 1 # 0 /\ (faults + c = 0 => faults = 0 /\ c = 0)
      OBVIOUS
    <2> QED
      BY <2>3, <2>4, <2>5 DEF OneTmp
  <1> QED
    BY <1>1, <1>2

LEMMA StepInit == Init => Stepping
  <1> SUFFICES ASSUME Init, kind = "step" PROVE Stepping
    BY DEF Stepping
  <1>1. /\ now \in Nat /\ current = TmpName /\ file = TmpName /\ crashed = FALSE
        /\ DOMAIN dir = {TmpName} /\ (HeaderSize > 0 => dir[TmpName] = <<Header>>)
    BY DEF Init, step_file_sink, daily_file_sink, rotating_file_sink
  <1>2. HeaderSize > 0 => HeadedFile(<<Header>>)
    <2>1. Header \in Entries /\ Header.n = 0
      BY <1>1, FileAssumption DEF Header, Entries, Time
    <2> QED
      BY <2>1 DEF HeadedFile
  <1> QED
    BY <1>1, <1>2, Named DEF Stepping, OneTmp, AllHeaded

LEMMA StepStep ==
    ASSUME Typed, Stepping, [Next]_vars
    PROVE  Stepping'
  <1>1. SUFFICES ASSUME kind' = "step" PROVE Stepping'
    BY DEF Stepping
  <1>2. kind = "step"
    BY <1>1 DEF Next, Tick, Log, Flush, Restart, vars, set
  <1>3. /\ now \in Nat /\ logged \in Nat /\ faults \in Nat /\ buffered \in Nat /\ Files(dir)
        /\ file # NoFile => file \in DOMAIN dir /\ buffered <= Len(dir[file])
        /\ OneTmp(dir, current)
        /\ faults = 0 => ~crashed /\ file = current /\ file # NoFile
        /\ HeaderSize > 0 /\ faults = 0 => AllHeaded(dir)
    BY <1>2 DEF Stepping, Typed
  <1>4. ASSUME NEW k \in Losses
        PROVE  /\ Files(Drained(k)) /\ OneTmp(Drained(k), current) /\ Cost(k) \in Nat
               /\ Cost(k) = 0 => Drained(k) = dir
    BY <1>3, DrainedIs DEF OneTmp
  <1>5. CASE Log
    <2>1. PICK sz \in Sizes : LogStep(Message(logged', sz))
      BY <1>2, <1>5 DEF Log, LogRotating, LogDaily
    <2>2. logged' = logged + 1 /\ logged' \in Nat /\ sz \in Nat
      BY <1>3, <1>5 DEF Log, Sizes
    <2> DEFINE m == Message(logged', sz)
    <2>3. m \in Entries /\ m.n # 0
      BY <1>3, <2>2, MessageEntry
    <2> HIDE DEF m
    <2>4. CASE Write(dir, file, buffered, 0, m) /\ UNCHANGED <<file, current>>
      <3>1. /\ OneTmp(dir', current)
            /\ faults' = 0 => faults = 0
            /\ faults' = 0 /\ file # NoFile => /\ crashed' = crashed
                                               /\ AllHeaded(dir) => AllHeaded(dir')
        BY <1>3, <2>3, <2>4, StepWrites
      <3> QED
        BY <1>3, <2>4, <3>1 DEF Stepping
    <2>5. CASE CloseThrows /\ UNCHANGED state
      <3>1. UNCHANGED <<dir, file, current>>
        BY <2>5 DEF state
      <3>2. faults = 0 => file_exists(current)
        BY <1>3 DEF file_exists
      <3>3. faults' = 0 => faults = 0 /\ crashed' = crashed
        BY <1>3, <2>5, <3>2 DEF CloseThrows, Throw, Spend
      <3> QED
        BY <1>3, <3>1, <3>3 DEF Stepping
    <2>6. ASSUME NEW k \in Losses, current' = TmpName, file' = TmpName,
                 Write(Headed(Opened(Closed(Drained(k)), TmpName)), TmpName,
                       Cost(HeaderSize), Cost(k), m)
          PROVE  Stepping'
      <3> DEFINE e == Opened(Closed(Drained(k)), TmpName)
                 d == Headed(e)
                 f == TmpName
                 b == Cost(HeaderSize)
      <3>1. /\ OneTmp(d, f) /\ f \in DOMAIN d
            /\ HeaderSize > 0 /\ AllHeaded(Drained(k)) => AllHeaded(d)
        BY <1>3, <1>4, FreshIs
      <3>2. Files(d) /\ b \in Nat /\ b <= Len(d[f])
        <4>1. Files(e) /\ f \in DOMAIN e
          BY <1>4, ClosedFiles, NamedFiles
        <4>2. Files(d)
          BY <1>3, <4>1, HeadedFiles
        <4>3. Len(d[f]) \in Nat
          BY <3>1, <4>2, LenProperties DEF Files
        <4>4. CASE HeaderSize = 0
          BY <4>2, <4>3, <4>4 DEF Cost
        <4>5. CASE HeaderSize > 0
          <5>1. d = Extended(e, f, <<Header>>)
            BY <4>5 DEF Headed
          <5>2. Header \in Entries
            BY <1>3, FileAssumption DEF Header, Entries, Time
          <5> HIDE DEF e, f
          <5>3. Len(Extended(e, f, <<Header>>)[f]) = Len(e[f]) + 1 /\ Len(e[f]) \in Nat
            BY <4>1, <5>2, ExtendedFiles, LenProperties DEF Files
          <5>4. b = 1
            BY <4>5 DEF Cost
          <5> QED
            BY <4>2, <5>1, <5>3, <5>4
        <4> QED
          BY <4>4, <4>5, FileAssumption
      <3>3. f # NoFile /\ current' = f /\ file' = f /\ Write(d, f, b, Cost(k), m)
        BY <2>6, Named
      <3> HIDE DEF d, e, f, b
      <3>4. /\ OneTmp(dir', f)
            /\ faults' = 0 => faults = 0 /\ Cost(k) = 0
            /\ faults' = 0 /\ f # NoFile => /\ crashed' = crashed
                                            /\ AllHeaded(d) => AllHeaded(dir')
        BY <1>3, <1>4, <2>3, <3>1, <3>2, <3>3, StepWrites
      <3> QED
        BY <1>3, <1>4, <3>1, <3>3, <3>4 DEF Stepping
    <2>7. ASSUME NEW k \in Losses, current' = TmpName, Throw(Cost(k)),
                 dir' \in {Closed(Drained(k)), Opened(Closed(Drained(k)), TmpName)}
          PROVE  Stepping'
      <3>1. faults' # 0
        BY <1>3, <1>4, <2>7 DEF Throw, Spend
      <3>2. OneTmp(dir', TmpName)
        <4>1. CASE dir' = Closed(Drained(k))
          BY <1>4, <4>1, ClosedIs DEF OneTmp
        <4>2. CASE dir' = Opened(Closed(Drained(k)), TmpName)
          BY <1>3, <1>4, <4>2, FreshIs
        <4> QED
          BY <2>7, <4>1, <4>2
      <3> QED
        BY <2>7, <3>1, <3>2 DEF Stepping
    <2>8. LogStep(m)
      BY <2>1 DEF m
    <2>9. CASE ChangeThenWrite(m)
      BY <2>5, <2>6, <2>7, <2>9 DEF ChangeThenWrite
    <2> QED
      BY <2>4, <2>8, <2>9 DEF LogStep
  <1>6. CASE Tick
    BY <1>3, <1>6 DEF Tick, state, Stepping
  <1>7. CASE Flush
    <2>1. PICK k \in Losses : dir' = Drained(k) /\ Spend(Cost(k))
      BY <1>7 DEF Flush
    <2>2. UNCHANGED <<file, current, crashed>>
      BY <1>7 DEF Flush
    <2>3. faults' = 0 => faults = 0 /\ dir' = dir
      BY <1>3, <1>4, <2>1 DEF Spend
    <2> QED
      BY <1>3, <1>4, <2>1, <2>2, <2>3 DEF Stepping
  <1>8. CASE UNCHANGED vars
    <2>1. UNCHANGED <<dir, file, current, faults, crashed>>
      BY <1>8 DEF vars, state
    <2> QED
      BY <1>3, <2>1 DEF Stepping
  <1> QED
    BY <1>2, <1>5, <1>6, <1>7, <1>8 DEF Next, Restart

LEMMA SteppingHolds == Spec => []Stepping
BY TypedInit, TypedStep, StepInit, StepStep, PTL DEF Spec

-----------------------------------------------------------------------------
(* What stays in the files.                                                 *)

\* Message n is in a file, and not among the last b of f.
Safe(d, f, b, n) == \E g \in DOMAIN d : \E i \in 1..Len(d[g]) :
                       d[g][i].n = n /\ (g = f => i <= Len(d[g]) - b)

LEMMA SafeHas ==
    ASSUME NEW d, Files(d), NEW f, NEW n
    PROVE  /\ \A b : Safe(d, f, b, n) => Has(d, n)
           /\ Has(d, n) => Safe(d, f, 0, n)
  <1>1. \A g \in DOMAIN d : Len(d[g]) \in Nat
    BY LenProperties DEF Files
  <1>2. \A g \in DOMAIN d : \A i \in 1..Len(d[g]) : i <= Len(d[g]) - 0
    BY <1>1
  <1> QED
    BY <1>2 DEF Safe, Has

LEMMA HasCut ==
    ASSUME NEW d, Files(d), NEW f \in DOMAIN d, NEW b \in Nat, b <= Len(d[f]),
           NEW k \in 0..b, NEW n, Safe(d, f, b, n)
    PROVE  Has(Cut(d, f, k), n)
  <1> DEFINE e == Cut(d, f, k)
  <1>1. Len(d[f]) \in Nat /\ k \in 0..Len(d[f]) /\ k <= b /\ k \in Nat
    BY LenProperties DEF Files
  <1>2. /\ Shorter(e, d) /\ DOMAIN e = DOMAIN d /\ Len(e[f]) = Len(d[f]) - k
        /\ \A g \in DOMAIN d : g # f => e[g] = d[g]
    BY <1>1, CutIs
  <1> HIDE DEF e
  <1>3. PICK g \in DOMAIN d : \E i \in 1..Len(d[g]) :
               d[g][i].n = n /\ (g = f => i <= Len(d[g]) - b)
    BY DEF Safe
  <1>4. PICK i \in 1..Len(d[g]) : d[g][i].n = n /\ (g = f => i <= Len(d[g]) - b)
    BY <1>3
  <1>5. ASSUME g # f PROVE Has(e, n)
    BY <1>2, <1>4, <1>5 DEF Has
  <1>6. ASSUME g = f PROVE Has(e, n)
    <2>1. i \in 1..Len(e[f])
      BY <1>1, <1>2, <1>4, <1>6
    <2>2. e[f][i] = d[f][i]
      BY <1>2, <2>1 DEF Shorter, Starts
    <2> QED
      BY <1>2, <1>4, <1>6, <2>1, <2>2 DEF Has
  <1>7. Has(e, n)
    BY <1>5, <1>6
  <1> QED
    BY <1>7 DEF e

LEMMA HasDrained ==
    ASSUME Typed, NEW k \in Losses, NEW n, Safe(dir, file, buffered, n)
    PROVE  Has(Drained(k), n)
  <1>1. Files(dir) /\ buffered \in Nat /\ k \in 0..buffered
    BY DEF Typed, Losses
  <1>2. CASE k = 0
    BY <1>1, <1>2, SafeHas DEF Drained
  <1>3. CASE k # 0
    <2>1. file # NoFile
      BY <1>1, <1>3 DEF Typed
    <2>2. file \in DOMAIN dir /\ buffered <= Len(dir[file])
      BY <2>1 DEF Typed
    <2> QED
      BY <1>1, <1>3, <2>2, HasCut DEF Drained
  <1> QED
    BY <1>2, <1>3

LEMMA HasExtended ==
    ASSUME NEW d, Files(d), NEW f \in DOMAIN d, NEW m \in Entries
    PROVE  /\ \A n : Has(d, n) => Has(Extended(d, f, <<m>>), n)
           /\ Has(Extended(d, f, <<m>>), m.n)
           /\ \A n : Has(Extended(d, f, <<m>>), n) => Has(d, n) \/ n = m.n
  <1> DEFINE e == Extended(d, f, <<m>>)
             s == d[f]
             t == s \o <<m>>
  <1>1. DOMAIN e = DOMAIN d /\ e[f] = t /\ \A g \in DOMAIN d : g # f => e[g] = d[g]
    BY DEF Extended
  <1>2. s \in Seq(Entries) /\ Len(s) \in Nat
    BY LenProperties DEF Files
  <1>3. /\ Len(t) = Len(s) + 1 /\ t[Len(s) + 1] = m
        /\ \A i \in 1..Len(s) : t[i] = s[i]
    BY <1>2, TotalMore
  <1> HIDE DEF t, e
  <1>4. ASSUME NEW n, Has(d, n) PROVE Has(e, n)
    <2>1. PICK g \in DOMAIN d : \E i \in 1..Len(d[g]) : d[g][i].n = n
      BY <1>4 DEF Has
    <2>2. PICK i \in 1..Len(d[g]) : d[g][i].n = n
      BY <2>1
    <2>3. CASE g # f
      BY <1>1, <2>1, <2>3 DEF Has
    <2>4. CASE g = f
      <3>1. i \in 1..Len(t) /\ t[i] = s[i]
        BY <1>2, <1>3, <2>4
      <3> QED
        BY <1>1, <2>2, <2>4, <3>1 DEF Has
    <2> QED
      BY <2>3, <2>4
  <1>5. Has(e, m.n)
    <2>1. Len(s) + 1 \in 1..Len(t)
      BY <1>2, <1>3
    <2> QED
      BY <1>1, <1>3, <2>1 DEF Has
  <1>6. ASSUME NEW n, Has(e, n) PROVE Has(d, n) \/ n = m.n
    <2>1. PICK g \in DOMAIN d : \E i \in 1..Len(e[g]) : e[g][i].n = n
      BY <1>1, <1>6 DEF Has
    <2>2. PICK i \in 1..Len(e[g]) : e[g][i].n = n
      BY <2>1
    <2>3. CASE g # f
      BY <1>1, <2>1, <2>3 DEF Has
    <2>4. CASE g = f
      <3>1. i = Len(s) + 1 \/ (i \in 1..Len(s) /\ t[i] = s[i])
        BY <1>1, <1>2, <1>3, <2>4
      <3> QED
        BY <1>1, <1>3, <2>2, <2>4, <3>1 DEF Has
    <2> QED
      BY <2>3, <2>4
  <1> QED
    BY <1>4, <1>5, <1>6 DEF e

LEMMA HasOpened ==
    ASSUME NEW d, NEW f, NEW n
    PROVE  Has(Opened(d, f), n) <=> Has(d, n)
  <1>1. CASE f \in DOMAIN d
    BY <1>1 DEF Opened
  <1>2. CASE f \notin DOMAIN d
    <2> DEFINE e == With(d, f, <<>>)
    <2>1. /\ DOMAIN e = DOMAIN d \cup {f} /\ e[f] = <<>> /\ Len(<<>>) = 0
          /\ \A g \in DOMAIN d : e[g] = d[g]
      BY <1>2 DEF With
    <2>2. Opened(d, f) = e
      BY <1>2 DEF Opened
    <2> HIDE DEF e
    <2>3. Has(d, n) => Has(e, n)
      BY <2>1 DEF Has
    <2>4. ASSUME NEW g \in DOMAIN e, NEW i \in 1..Len(e[g]) PROVE g \in DOMAIN d /\ e[g] = d[g]
      BY <2>1
    <2>5. Has(e, n) => Has(d, n)
      BY <2>4 DEF Has
    <2> QED
      BY <2>2, <2>3, <2>5
  <1> QED
    BY <1>1, <1>2

\* What a write does to what there is: if nothing fails m is there as well, if
\* something does nothing goes that had left the buffer.
LEMMA WriteHas ==
    ASSUME NEW d, Files(d), NEW f, NEW b \in Nat,
           f # NoFile => f \in DOMAIN d /\ b <= Len(d[f]),
           NEW c \in Nat, NEW m \in Entries, faults \in Nat, Write(d, f, b, c, m)
    PROVE  /\ \A n : Safe(d, f, b, n) => Has(dir', n)
           /\ \A n : Has(dir', n) => Has(d, n) \/ n = m.n
           /\ f # NoFile => crashed' = crashed
           /\ f # NoFile /\ faults' = faults => Has(dir', m.n)
  <1>1. CASE f = NoFile
    BY <1>1, SafeHas DEF Write
  <1>2. CASE f # NoFile
    <2>1. f \in DOMAIN d /\ Len(d[f]) \in Nat /\ b <= Len(d[f])
      BY <1>2, LenProperties DEF Files
    <2>2. b \in 0..Len(d[f])
      BY <2>1
    <2>3. /\ crashed' = crashed
          /\ \/ dir' = Extended(d, f, <<m>>) /\ faults' = faults + c
             \/ faults' = faults + c + 1 /\ \E k \in 0..b : dir' = Cut(d, f, k)
      BY <1>2, <2>1, <2>2, WriteIs
    <2>4. CASE dir' = Extended(d, f, <<m>>)
      BY <2>1, <2>3, <2>4, SafeHas, HasExtended
    <2>5. CASE faults' = faults + c + 1 /\ \E k \in 0..b : dir' = Cut(d, f, k)
      <3>1. PICK k \in 0..b : dir' = Cut(d, f, k)
        BY <2>5
      <3>2. \A n : Safe(d, f, b, n) => Has(dir', n)
        BY <2>1, <3>1, HasCut
      <3>3. Shorter(dir', d)
        <4>1. k \in 0..Len(d[f])
          BY <2>1
        <4> QED
          BY <2>1, <3>1, <4>1, CutIs
      <3>4. \A n : Has(dir', n) => Has(d, n)
        <4>1. ASSUME NEW g \in DOMAIN d, NEW i \in 1..Len(dir'[g])
              PROVE  i \in 1..Len(d[g]) /\ dir'[g][i] = d[g][i]
          <5>1. Starts(dir'[g], d[g])
            BY <3>3 DEF Shorter
          <5>2. Len(dir'[g]) \in Nat /\ Len(d[g]) \in Nat /\ Len(dir'[g]) <= Len(d[g])
            BY <5>1, LenProperties DEF Starts
          <5> QED
            BY <5>1, <5>2 DEF Starts
        <4> QED
          BY <3>3, <4>1 DEF Has, Shorter
      <3>5. faults' # faults
        BY <2>5
      <3> QED
        BY <2>3, <3>2, <3>4, <3>5
    <2> QED
      BY <2>3, <2>4, <2>5
  <1> QED
    BY <1>1, <1>2

\* A rotation, whether it gets to its end or not, drops nothing or the last file.
Rotates(d, e) ==
    /\ \A f \in DOMAIN d : f[2] < MaxFiles => \E g \in DOMAIN e : e[g] = d[f]
    /\ \/ \A f \in DOMAIN d : \E g \in DOMAIN e : e[g] = d[f]
       \/ \A g \in DOMAIN e : \/ e[g] = <<>>
                              \/ \E f \in DOMAIN d : f[2] < MaxFiles /\ e[g] = d[f]

LEMMA Dropped ==
    ASSUME NEW d, NEW last, Shelf(d, last), NEW e, Rotates(d, e), NEW n, Has(d, n)
    PROVE  Has(e, n) \/ \A a : Has(e, a) => n < a
  <1>1. PICK f \in DOMAIN d : \E i \in 1..Len(d[f]) : d[f][i].n = n
    BY DEF Has
  <1>2. CASE \E g \in DOMAIN e : e[g] = d[f]
    BY <1>1, <1>2 DEF Has
  <1>3. CASE ~(\E g \in DOMAIN e : e[g] = d[f])
    <2>1. f[2] \in 0..MaxFiles /\ ~(f[2] < MaxFiles) /\ MaxFiles \in Nat
      BY <1>3, FileAssumption DEF Rotates, Shelf
    <2>2. \A g \in DOMAIN e : \/ e[g] = <<>>
                              \/ \E h \in DOMAIN d : h[2] < MaxFiles /\ e[g] = d[h]
      BY <1>3 DEF Rotates
    <2>3. ASSUME NEW a, Has(e, a) PROVE n < a
      <3>1. PICK g \in DOMAIN e : \E j \in 1..Len(e[g]) : e[g][j].n = a
        BY <2>3 DEF Has
      <3>2. e[g] # <<>>
        BY <3>1
      <3>3. PICK h \in DOMAIN d : h[2] < MaxFiles /\ e[g] = d[h]
        BY <2>2, <3>2
      <3>4. h[2] \in 0..MaxFiles
        BY DEF Shelf
      <3>5. f[2] > h[2]
        <4> DEFINE x == f[2]
                   y == h[2]
        <4>1. x \in 0..MaxFiles /\ y \in 0..MaxFiles /\ ~(x < MaxFiles) /\ y < MaxFiles
          BY <2>1, <3>3, <3>4
        <4> HIDE DEF x, y
        <4>2. x > y
          BY <2>1, <4>1
        <4> QED
          BY <4>2 DEF x, y
      <3>6. Older(d[f], d[h])
        BY <3>5 DEF Shelf
      <3> QED
        BY <1>1, <3>1, <3>3, <3>6 DEF Older
    <2> QED
      BY <2>3
  <1> QED
    BY <1>2, <1>3

LEMMA ShiftedRotates ==
    ASSUME NEW d, NEW last, Shelf(d, last), NEW k \in 1..(MaxFiles + 1)
    PROVE  /\ \A f \in DOMAIN d : f[2] < MaxFiles /\ f[2] # k - 1 /\ f[2] < k
                 => f \in DOMAIN Shifted(d, k) /\ Shifted(d, k)[f] = d[f]
           /\ \A f \in DOMAIN d : f[2] < MaxFiles /\ (f[2] = k - 1 \/ f[2] >= k)
                 => L(f[2] + 1) \in DOMAIN Shifted(d, k) /\ Shifted(d, k)[L(f[2] + 1)] = d[f]
           /\ \A g \in DOMAIN Shifted(d, k) :
                 \/ g[2] = MaxFiles /\ k = MaxFiles + 1
                 \/ \E f \in DOMAIN d : f[2] < MaxFiles /\ Shifted(d, k)[g] = d[f]
           /\ k = MaxFiles + 1 =>
                 \A f \in DOMAIN d : f \in DOMAIN Shifted(d, k) /\ Shifted(d, k)[f] = d[f]
  <1> DEFINE kept == {i \in 0..MaxFiles : IF i >= k THEN L(i - 1) \in DOMAIN d
                                     ELSE /\ i # k - 1 \/ k > MaxFiles
                                          /\ L(i) \in DOMAIN d}
             e == Shifted(d, k)
  <1>1. e = [f \in {L(i) : i \in kept} |->
               IF f[2] >= k THEN d[L(f[2] - 1)] ELSE d[f]]
    BY DEF Shifted, L
  <1> HIDE DEF e
  <1>2. k \in Int /\ MaxFiles \in Nat /\ k >= 1 /\ k <= MaxFiles + 1
    BY FileAssumption
  <1>3. DOMAIN e = {L(i) : i \in kept}
    BY <1>1
  <1>4. \A i \in kept : L(i)[2] = i /\ e[L(i)] = IF i >= k THEN d[L(i - 1)] ELSE d[L(i)]
    <2>1. \A i \in kept : L(i)[2] = i /\ L(i) \in DOMAIN e
      BY <1>3 DEF L
    <2> QED
      BY <1>1, <1>3, <2>1
  <1>5. \A f \in DOMAIN d : \E i \in 0..MaxFiles : f = L(i) /\ f[2] = i
    BY DEF Shelf
  <1>6. ASSUME NEW i \in 0..MaxFiles, L(i) \in DOMAIN d, i < MaxFiles, i # k - 1, i < k
        PROVE  L(i) \in DOMAIN e /\ e[L(i)] = d[L(i)]
    <2>1. i \in kept /\ ~(i >= k)
      BY <1>2, <1>6
    <2> HIDE DEF kept
    <2> QED
      BY <1>3, <1>4, <2>1
  <1>7. ASSUME NEW i \in 0..MaxFiles, L(i) \in DOMAIN d, i < MaxFiles, i = k - 1 \/ i >= k
        PROVE  L(i + 1) \in DOMAIN e /\ e[L(i + 1)] = d[L(i)]
    <2>1. i + 1 \in 0..MaxFiles /\ i + 1 >= k /\ (i + 1) - 1 = i
      BY <1>2, <1>7
    <2>2. i + 1 \in kept
      BY <1>7, <2>1
    <2> HIDE DEF kept
    <2> QED
      BY <1>3, <1>4, <2>1, <2>2
  <1>8. ASSUME NEW i \in kept, ~(i = MaxFiles /\ k = MaxFiles + 1)
        PROVE  \E f \in DOMAIN d : f[2] < MaxFiles /\ e[L(i)] = d[f]
    <2>1. i \in 0..MaxFiles
      OBVIOUS
    <2>2. CASE i >= k
      <3>1. L(i - 1) \in DOMAIN d /\ e[L(i)] = d[L(i - 1)] /\ L(i - 1)[2] = i - 1
        BY <1>4, <2>2 DEF L
      <3>2. i - 1 < MaxFiles
        BY <1>2, <2>1
      <3> QED
        BY <3>1, <3>2
    <2>3. CASE ~(i >= k)
      <3>1. L(i) \in DOMAIN d /\ e[L(i)] = d[L(i)] /\ L(i)[2] = i
            /\ (i # k - 1 \/ k > MaxFiles)
        BY <1>4, <2>3
      <3>2. i < MaxFiles
        <4>1. CASE i = MaxFiles
          BY <1>2, <1>8, <2>3, <3>1, <4>1
        <4> QED
          BY <1>2, <2>1, <4>1
      <3> QED
        BY <3>1, <3>2
    <2> QED
      BY <2>2, <2>3
  <1>9. \A f \in DOMAIN d : f[2] < MaxFiles /\ f[2] # k - 1 /\ f[2] < k
           => f \in DOMAIN e /\ e[f] = d[f]
    BY <1>5, <1>6
  <1>10. \A f \in DOMAIN d : f[2] < MaxFiles /\ (f[2] = k - 1 \/ f[2] >= k)
           => L(f[2] + 1) \in DOMAIN e /\ e[L(f[2] + 1)] = d[f]
    BY <1>5, <1>7
  <1>11. \A g \in DOMAIN e : \/ g[2] = MaxFiles /\ k = MaxFiles + 1
                             \/ \E f \in DOMAIN d : f[2] < MaxFiles /\ e[g] = d[f]
    <2> HIDE DEF kept
    <2> QED
      BY <1>3, <1>4, <1>8
  <1>12. ASSUME k = MaxFiles + 1, NEW i \in 0..MaxFiles, L(i) \in DOMAIN d
         PROVE  L(i) \in DOMAIN e /\ e[L(i)] = d[L(i)]
    <2>1. i \in kept /\ ~(i >= k)
      BY <1>2, <1>12
    <2> HIDE DEF kept
    <2> QED
      BY <1>3, <1>4, <2>1
  <1>13. k = MaxFiles + 1 => \A f \in DOMAIN d : f \in DOMAIN e /\ e[f] = d[f]
    BY <1>5, <1>12
  <1> QED
    BY <1>9, <1>10, <1>11, <1>13 DEF e

LEMMA RotatedIs ==
    ASSUME NEW d, NEW last, Shelf(d, last)
    PROVE  /\ Rotates(d, With(Shifted(d, 1), Base, <<>>))
           /\ \A e \in HalfRotated(d) : Rotates(d, e)
  <1>0. MaxFiles \in Nat /\ 1 \in 1..(MaxFiles + 1) /\ Base = L(0)
    BY FileAssumption DEF Base, L
  <1>1. \A f \in DOMAIN d : f = L(f[2]) /\ f[2] \in 0..MaxFiles
    BY DEF Shelf
  <1>2. /\ \A f \in DOMAIN d : f[2] < MaxFiles =>
              /\ L(f[2] + 1) \in DOMAIN Shifted(d, 1)
              /\ Shifted(d, 1)[L(f[2] + 1)] = d[f]
              /\ L(f[2] + 1) # Base
        /\ \A g \in DOMAIN Shifted(d, 1) : g = L(g[2]) /\
              \/ g = Base
              \/ \E f \in DOMAIN d : f[2] < MaxFiles /\ Shifted(d, 1)[g] = d[f]
    <2>1. ASSUME NEW f \in DOMAIN d, f[2] < MaxFiles
          PROVE  /\ L(f[2] + 1) \in DOMAIN Shifted(d, 1)
                 /\ Shifted(d, 1)[L(f[2] + 1)] = d[f]
                 /\ L(f[2] + 1) # Base
      <3> DEFINE x == f[2]
      <3>1. x \in 0..MaxFiles
        BY <1>1
      <3> HIDE DEF x
      <3>2. (x = 1 - 1 \/ x >= 1) /\ x + 1 # 0 /\ x + 1 \in Int /\ 0 \in Int
        BY <1>0, <3>1
      <3>3. L(x + 1) # Base
        BY <1>0, <3>2, Logs
      <3> QED
        BY <1>0, <2>1, <3>2, <3>3, ShiftedRotates DEF x
    <2>2. ASSUME NEW g \in DOMAIN Shifted(d, 1)
          PROVE  g = L(g[2]) /\
                  (\/ g = Base
                   \/ \E f \in DOMAIN d : f[2] < MaxFiles /\ Shifted(d, 1)[g] = d[f])
      <3>1. g = L(g[2])
        BY <1>0, ShiftedIs
      <3>2. g[2] = MaxFiles /\ 1 = MaxFiles + 1 => g[2] = 0
        BY <1>0
      <3> QED
        BY <1>0, <3>1, <3>2, ShiftedRotates
    <2> QED
      BY <2>1, <2>2
  <1>3. Rotates(d, With(Shifted(d, 1), Base, <<>>))
    <2> DEFINE h == Shifted(d, 1)
               e == With(h, Base, <<>>)
    <2>1. /\ DOMAIN e = DOMAIN h \cup {Base} /\ e[Base] = <<>>
          /\ \A g \in DOMAIN h : g # Base => e[g] = h[g]
      BY DEF With
    <2> HIDE DEF h, e
    <2>2. \A f \in DOMAIN d : f[2] < MaxFiles => \E g \in DOMAIN e : e[g] = d[f]
      <3> TAKE f \in DOMAIN d
      <3> HAVE f[2] < MaxFiles
      <3>1. L(f[2] + 1) \in DOMAIN h /\ h[L(f[2] + 1)] = d[f] /\ L(f[2] + 1) # Base
        BY <1>2 DEF h
      <3> QED
        BY <2>1, <3>1
    <2>3. \A g \in DOMAIN e : \/ e[g] = <<>>
                              \/ \E f \in DOMAIN d : f[2] < MaxFiles /\ e[g] = d[f]
      BY <1>2, <2>1 DEF h
    <2>4. Rotates(d, e)
      BY <2>2, <2>3 DEF Rotates
    <2> QED
      BY <2>4 DEF e, h
  <1>4. Rotates(d, d)
    BY DEF Rotates
  <1>5. Rotates(d, Shifted(d, 1))
    <2>1. \A f \in DOMAIN d : f[2] < MaxFiles =>
             \E g \in DOMAIN Shifted(d, 1) : Shifted(d, 1)[g] = d[f]
      BY <1>2
    <2>2. CASE MaxFiles = 0
      <3>1. 1 = MaxFiles + 1
        BY <2>2
      <3>2. \A f \in DOMAIN d : f \in DOMAIN Shifted(d, 1) /\ Shifted(d, 1)[f] = d[f]
        BY <1>0, <3>1, ShiftedRotates
      <3> QED
        BY <2>1, <3>2 DEF Rotates
    <2>3. CASE MaxFiles # 0
      <3>1. 1 # MaxFiles + 1
        BY <1>0, <2>3
      <3>2. \A g \in DOMAIN Shifted(d, 1) :
               \E f \in DOMAIN d : f[2] < MaxFiles /\ Shifted(d, 1)[g] = d[f]
        BY <1>0, <3>1, ShiftedRotates
      <3> QED
        BY <2>1, <3>2 DEF Rotates
    <2> QED
      BY <2>2, <2>3
  <1>6. ASSUME NEW i \in 1..MaxFiles PROVE Rotates(d, Without(Shifted(d, i + 1), L(i)))
    <2> DEFINE k == i + 1
               h == Shifted(d, k)
               e == Without(h, L(i))
    <2>0. i \in Int /\ k \in 1..(MaxFiles + 1) /\ k - 1 = i /\ k \in Int /\ i < k
      BY <1>0
    <2>1. DOMAIN e = DOMAIN h \ {L(i)} /\ \A g \in DOMAIN e : e[g] = h[g]
      BY DEF Without
    <2>2. /\ \A f \in DOMAIN d : f[2] < MaxFiles /\ f[2] # k - 1 /\ f[2] < k
                => f \in DOMAIN h /\ h[f] = d[f]
          /\ \A f \in DOMAIN d : f[2] < MaxFiles /\ (f[2] = k - 1 \/ f[2] >= k)
                => L(f[2] + 1) \in DOMAIN h /\ h[L(f[2] + 1)] = d[f]
          /\ \A g \in DOMAIN h :
                \/ g[2] = MaxFiles /\ k = MaxFiles + 1
                \/ \E f \in DOMAIN d : f[2] < MaxFiles /\ h[g] = d[f]
      <3> HIDE DEF k
      <3> QED
        BY <2>0, ShiftedRotates
    <2>3. \A g \in DOMAIN h : g = L(g[2])
      <3> HIDE DEF k
      <3> QED
        BY <2>0, ShiftedIs
    <2> HIDE DEF e, h, k
    <2>4. ASSUME NEW f \in DOMAIN d, f[2] < MaxFiles
          PROVE  \E g \in DOMAIN e : e[g] = d[f]
      <3> DEFINE x == f[2]
      <3>1. x \in 0..MaxFiles /\ f = L(x) /\ x = f[2]
        BY <1>1
      <3> HIDE DEF x
      <3>2. x \in Int
        BY <1>0, <3>1
      <3>3. CASE x = k - 1 \/ x >= k
        <4>1. x + 1 # i /\ x + 1 \in Int
          BY <2>0, <3>2, <3>3
        <4>2. L(x + 1) # L(i)
          BY <2>0, <4>1, Logs
        <4>3. L(x + 1) \in DOMAIN h /\ h[L(x + 1)] = d[f]
          BY <2>2, <2>4, <3>1, <3>3
        <4> QED
          BY <2>1, <4>2, <4>3
      <3>4. CASE ~(x = k - 1 \/ x >= k)
        <4>1. x # k - 1 /\ x < k /\ x # i
          BY <2>0, <3>2, <3>4
        <4>2. f # L(i)
          BY <2>0, <3>1, <3>2, <4>1, Logs
        <4>3. f \in DOMAIN h /\ h[f] = d[f]
          BY <2>2, <2>4, <3>1, <4>1
        <4> QED
          BY <2>1, <4>2, <4>3
      <3> QED
        BY <3>3, <3>4
    <2>5. ASSUME NEW g \in DOMAIN e
          PROVE  \E f \in DOMAIN d : f[2] < MaxFiles /\ e[g] = d[f]
      <3>1. g \in DOMAIN h /\ g # L(i) /\ e[g] = h[g] /\ g = L(g[2])
        BY <2>1, <2>3
      <3>2. ~(g[2] = MaxFiles /\ k = MaxFiles + 1)
        <4>1. k = MaxFiles + 1 => i = MaxFiles
          BY <1>0, <2>0
        <4> QED
          BY <3>1, <4>1
      <3> QED
        BY <2>2, <3>1, <3>2
    <2>6. Rotates(d, e)
      BY <2>4, <2>5 DEF Rotates
    <2> QED
      BY <2>6 DEF e, h, k
  <1>7. ASSUME NEW e \in HalfRotated(d) PROVE Rotates(d, e)
    <2>1. \/ e = d
          \/ \E i \in 1..MaxFiles : e = Without(Shifted(d, i + 1), L(i))
          \/ e = Shifted(d, 1)
      BY <1>7 DEF HalfRotated, L
    <2> QED
      BY <1>4, <1>5, <1>6, <2>1
  <1> QED
    BY <1>3, <1>7

\* A call of the rotating sink.
LEMMA KeptRotating ==
    ASSUME Typed, Rotating, kind = "rotating", NEW m \in Entries, m.n = logged + 1,
           LogRotating(m)
    PROVE  /\ \A n \in 1..logged : Safe(dir, file, buffered, n) =>
                 Has(dir', n) \/ \A a : Has(dir', a) => n < a
           /\ faults' = faults => Has(dir', m.n) /\ ~crashed'
  <1>0. /\ Files(dir) /\ faults \in Nat /\ buffered \in Nat /\ ~crashed /\ logged \in Nat
        /\ file # NoFile => file \in DOMAIN dir /\ buffered <= Len(dir[file])
        /\ file = NoFile => size > MaxSize
        /\ size \in Nat /\ m.size \in Nat /\ MaxSize \in Nat /\ Shelf(dir, logged)
    BY FileAssumption, Named DEF Typed, Rotating, Entries
  <1>1. CASE ~(size + m.size > MaxSize) /\ Write(dir, file, buffered, 0, m)
    <2>1. file # NoFile
      BY <1>0, <1>1
    <2>2. /\ \A n : Safe(dir, file, buffered, n) => Has(dir', n)
          /\ crashed' = crashed
          /\ faults' = faults => Has(dir', m.n)
      BY <1>0, <1>1, <2>1, WriteHas
    <2> QED
      BY <1>0, <2>2
  <1>2. CASE RotateThenWrite(m)
    <2>1. PICK k \in Losses :
            \/ Write(With(Shifted(Drained(k), 1), Base, <<>>), Base, 0, Cost(k), m)
            \/ Throw(Cost(k)) /\ dir' \in HalfRotated(Drained(k))
      BY <1>2 DEF RotateThenWrite
    <2> DEFINE e == Drained(k)
    <2>2. Files(e) /\ Cost(k) \in Nat /\ Shelf(e, logged)
          /\ \A n : Safe(dir, file, buffered, n) => Has(e, n)
      BY <1>0, DrainedIs, ShorterShelf, HasDrained
    <2> HIDE DEF e
    <2>3. CASE Write(With(Shifted(e, 1), Base, <<>>), Base, 0, Cost(k), m)
      <3> DEFINE d == With(Shifted(e, 1), Base, <<>>)
      <3>1. Rotates(e, d) /\ Files(d) /\ Base \in DOMAIN d
        <4>1. 1 \in 1..(MaxFiles + 1)
          BY FileAssumption
        <4> QED
          BY <2>2, <4>1, RotatedIs, ShiftedFiles, NamedFiles
      <3>2. 0 <= Len(d[Base]) /\ Write(d, Base, 0, Cost(k), m)
        BY <2>3, <3>1, LenProperties DEF Files
      <3> HIDE DEF d
      <3>3. /\ \A n : Safe(d, Base, 0, n) => Has(dir', n)
            /\ \A n : Has(dir', n) => Has(d, n) \/ n = m.n
            /\ crashed' = crashed
            /\ faults' = faults => Has(dir', m.n)
        BY <1>0, <2>2, <3>1, <3>2, Named, WriteHas
      <3>4. ASSUME NEW n \in 1..logged, Safe(dir, file, buffered, n)
            PROVE  Has(dir', n) \/ \A a : Has(dir', a) => n < a
        <4>1. Has(d, n) \/ \A a : Has(d, a) => n < a
          BY <2>2, <3>1, <3>4, Dropped
        <4>2. Has(d, n) => Has(dir', n)
          BY <3>1, <3>3, SafeHas
        <4>3. n < m.n
          BY <1>0
        <4> QED
          BY <3>3, <4>1, <4>2, <4>3
      <3> QED
        BY <1>0, <3>3, <3>4
    <2>4. CASE Throw(Cost(k)) /\ dir' \in HalfRotated(e)
      <3>1. Rotates(e, dir')
        BY <2>2, <2>4, RotatedIs
      <3>2. faults' # faults
        BY <1>0, <2>2, <2>4 DEF Throw, Spend
      <3> QED
        BY <2>2, <3>1, <3>2, Dropped
    <2> QED
      BY <2>1, <2>3, <2>4 DEF e
  <1> QED
    BY <1>1, <1>2 DEF LogRotating

\* A call of the daily sink.
LEMMA KeptDaily ==
    ASSUME Typed, Recovering, kind = "daily", NEW m \in Entries, LogDaily(m)
    PROVE  /\ \A n : Safe(dir, file, buffered, n) => Has(dir', n)
           /\ faults' = faults => Has(dir', m.n) /\ ~crashed'
  <1>0. /\ Files(dir) /\ faults \in Nat /\ buffered \in Nat /\ ~crashed
        /\ file # NoFile => file \in DOMAIN dir /\ buffered <= Len(dir[file])
        /\ file = NoFile => now >= tp
        /\ tp \in Int /\ now \in Nat
    BY DEF Typed, Recovering
  <1>1. CASE now < tp /\ Write(dir, file, buffered, 0, m)
    <2>1. file # NoFile
      BY <1>0, <1>1
    <2> QED
      BY <1>0, <1>1, <2>1, WriteHas
  <1>2. ASSUME NEW k \in Losses,
               Write(Opened(Drained(k), DailyName), DailyName, 0, Cost(k), m)
        PROVE  /\ \A n : Safe(dir, file, buffered, n) => Has(dir', n)
               /\ faults' = faults => Has(dir', m.n) /\ ~crashed'
    <2> DEFINE f == DailyName
               d == Opened(Drained(k), f)
    <2>1. Files(d) /\ f \in DOMAIN d /\ Cost(k) \in Nat /\ f # NoFile
          /\ \A n : Safe(dir, file, buffered, n) => Has(d, n)
      BY DrainedIs, NamedFiles, Named, HasDrained, HasOpened
    <2>2. 0 <= Len(d[f]) /\ Write(d, f, 0, Cost(k), m)
      BY <1>2, <2>1, LenProperties DEF Files
    <2> HIDE DEF d, f
    <2>3. /\ \A n : Safe(d, f, 0, n) => Has(dir', n)
          /\ crashed' = crashed
          /\ faults' = faults => Has(dir', m.n)
      BY <1>0, <2>1, <2>2, WriteHas
    <2>4. \A n : Has(d, n) => Safe(d, f, 0, n)
      BY <2>1, SafeHas
    <2> QED
      BY <1>0, <2>1, <2>3, <2>4
  <1>3. ASSUME NEW k \in Losses, Throw(Cost(k)), dir' = Drained(k)
        PROVE  /\ \A n : Safe(dir, file, buffered, n) => Has(dir', n)
               /\ faults' = faults => Has(dir', m.n) /\ ~crashed'
    <2>1. Cost(k) \in Nat
      BY DrainedIs
    <2>2. faults' # faults
      BY <1>0, <1>3, <2>1 DEF Throw, Spend
    <2> QED
      BY <1>3, <2>2, HasDrained
  <1> QED
    BY <1>1, <1>2, <1>3 DEF LogDaily

-----------------------------------------------------------------------------
(* The step sink again: unless the clock is set back its names are new and  *)
(* its files in turn, and a file with a message is not taken for empty.     *)

Message_in(d, f) == \E i \in 1..Len(d[f]) : d[f][i].n # 0
OldName(f, t) == f = <<"ext", f[2]>> /\ f[2] \in Int /\ f[2] < t

InTurn ==
    kind = "step" =>
        /\ current = <<"tmp", current[2]>> /\ current[2] \in Int
        /\ current[2] <= localtime(now)
        /\ file \in {current, NoFile}
        /\ \A f \in DOMAIN dir : f = current \/ OldName(f, current[2])
        /\ size >= HeaderSize
        /\ current \in DOMAIN dir /\ Message_in(dir, current) => size > HeaderSize

LEMMA LocalTime == ASSUME now \in Nat PROVE localtime(now) \in Int
BY FileAssumption DEF localtime, Offset

LEMMA Later ==
    ASSUME Jump >= 0, now \in Nat
    PROVE  localtime(now) <= localtime(now + 1) /\ localtime(now + 1) \in Int
BY FileAssumption DEF localtime, Offset

LEMMA ClosedNames ==
    ASSUME InTurn, kind = "step", now \in Nat, NEW d, DOMAIN d = DOMAIN dir,
           ~file_exists(TmpName)
    PROVE  \A f \in DOMAIN Closed(d) : OldName(f, localtime(now))
  <1> DEFINE c == current[2]
             t == localtime(now)
  <1>1. /\ current = <<"tmp", c>> /\ c \in Int /\ c <= t /\ t \in Int
        /\ \A f \in DOMAIN d : f = current \/ OldName(f, c)
        /\ TmpName = <<"tmp", t>> /\ TmpName \notin DOMAIN d
        /\ Target(current) = <<"ext", c>>
    BY LocalTime DEF InTurn, TmpName, file_exists, Target
  <1> HIDE DEF c, t
  <1>2. \A f : OldName(f, c) => OldName(f, t)
    BY <1>1 DEF OldName
  <1>3. CASE Empty
    <2>1. Closed(d) = Without(d, current)
      BY <1>3 DEF Closed
    <2>2. \A f \in DOMAIN Closed(d) : f \in DOMAIN d /\ f # current
      BY <2>1 DEF Without
    <2>3. \A f \in DOMAIN Closed(d) : OldName(f, t)
      BY <1>1, <1>2, <2>2
    <2> QED
      BY <2>3 DEF t
  <1>4. CASE ~Empty /\ current \in DOMAIN d
    <2>1. c < t
      <3>1. c # t
        BY <1>1, <1>4
      <3> QED
        BY <1>1, <3>1
    <2>2. OldName(Target(current), t)
      BY <1>1, <2>1 DEF OldName
    <2>3. Closed(d) = With(Without(d, current), Target(current), d[current])
      BY <1>4 DEF Closed, Renamed
    <2>4. \A f \in DOMAIN Closed(d) : f = Target(current) \/ (f \in DOMAIN d /\ f # current)
      <3> DEFINE w == Without(d, current)
      <3>1. DOMAIN w = DOMAIN d \ {current}
        BY DEF Without
      <3>2. DOMAIN With(w, Target(current), d[current]) = DOMAIN w \cup {Target(current)}
        BY DEF With
      <3> HIDE DEF w
      <3>3. DOMAIN Closed(d) = DOMAIN w \cup {Target(current)}
        BY <2>3, <3>2 DEF w
      <3> QED
        BY <3>1, <3>3
    <2>5. \A f \in DOMAIN Closed(d) : OldName(f, t)
      BY <1>1, <1>2, <2>2, <2>4
    <2> QED
      BY <2>5 DEF t
  <1>5. CASE ~Empty /\ current \notin DOMAIN d
    <2>1. Closed(d) = d
      BY <1>5 DEF Closed, Renamed
    <2>2. \A f \in DOMAIN Closed(d) : OldName(f, t)
      BY <1>1, <1>2, <1>5, <2>1
    <2> QED
      BY <2>2 DEF t
  <1> QED
    BY <1>3, <1>4, <1>5

\* Closing loses no message.
LEMMA HasClosed ==
    ASSUME InTurn, kind = "step", size \in Nat, NEW d, Shorter(d, dir),
           NEW n \in Nat \ {0}, Has(d, n)
    PROVE  Has(Closed(d), n)
  <1> DEFINE c == current[2]
             t == Target(current)
  <1>1. /\ current = <<"tmp", c>> /\ c \in Int
        /\ \A f \in DOMAIN d : f = current \/ OldName(f, c)
        /\ t = <<"ext", c>>
        /\ DOMAIN d = DOMAIN dir
    BY DEF InTurn, Target, Shorter
  <1>2. PICK g \in DOMAIN d : \E i \in 1..Len(d[g]) : d[g][i].n = n
    BY DEF Has
  <1>3. CASE Empty
    <2>1. g # current
      <3> SUFFICES ASSUME g = current PROVE FALSE
        OBVIOUS
      <3>1. PICK i \in 1..Len(d[g]) : d[g][i].n = n
        BY <1>2
      <3>2. Starts(d[g], dir[g])
        BY <1>2 DEF Shorter
      <3>3. Len(d[g]) \in Nat /\ Len(dir[g]) \in Nat /\ Len(d[g]) <= Len(dir[g])
        BY <3>2, LenProperties DEF Starts
      <3>4. i \in 1..Len(dir[g]) /\ dir[g][i].n # 0
        BY <3>1, <3>2, <3>3 DEF Starts
      <3>5. size > HeaderSize /\ current \in DOMAIN dir
        BY <1>1, <3>4 DEF InTurn, Message_in
      <3> QED
        BY <1>3, <3>5, FileAssumption DEF Empty
    <2>2. Closed(d) = Without(d, current)
      BY <1>3 DEF Closed
    <2>3. g \in DOMAIN Closed(d) /\ Closed(d)[g] = d[g]
      BY <2>1, <2>2 DEF Without
    <2> QED
      BY <1>2, <2>3 DEF Has
  <1>4. CASE ~Empty /\ current \in DOMAIN d
    <2> DEFINE w == Without(d, current)
               e == With(w, t, d[current])
    <2>1. DOMAIN w = DOMAIN d \ {current} /\ \A f \in DOMAIN w : w[f] = d[f]
      BY DEF Without
    <2>2. DOMAIN e = DOMAIN w \cup {t} /\ e[t] = d[current]
          /\ \A f \in DOMAIN w : f # t => e[f] = w[f]
      BY DEF With
    <2>3. Closed(d) = e
      BY <1>4 DEF Closed, Renamed
    <2> HIDE DEF w, e
    <2>4. t \notin DOMAIN d
      <3> SUFFICES ASSUME t \in DOMAIN d PROVE FALSE
        OBVIOUS
      <3>1. t = current \/ OldName(t, c)
        BY <1>1
      <3>2. t # current /\ t[2] = c
        BY <1>1
      <3> QED
        BY <1>1, <3>1, <3>2 DEF OldName
    <2>5. Has(e, n)
      <3>1. CASE g = current
        BY <1>2, <2>2, <3>1 DEF Has
      <3>2. CASE g # current
        <4>1. g \in DOMAIN e /\ e[g] = d[g]
          BY <2>1, <2>2, <2>4, <3>2
        <4> QED
          BY <1>2, <4>1 DEF Has
      <3> QED
        BY <3>1, <3>2
    <2> QED
      BY <2>3, <2>5
  <1>5. CASE ~Empty /\ current \notin DOMAIN d
    BY <1>5 DEF Closed, Renamed
  <1> QED
    BY <1>3, <1>4, <1>5

LEMMA InTurnInit == Init => InTurn
  <1> SUFFICES ASSUME Init, kind = "step" PROVE InTurn
    BY DEF InTurn
  <1>1. /\ now \in Nat /\ current = TmpName /\ file = TmpName /\ size = HeaderSize
        /\ dir = [f \in {TmpName} |-> IF HeaderSize > 0 THEN <<Header>> ELSE <<>>]
    BY DEF Init, step_file_sink, daily_file_sink, rotating_file_sink
  <1>2. /\ localtime(now) \in Int /\ TmpName = <<"tmp", localtime(now)>>
        /\ HeaderSize \in Nat
    BY <1>1, LocalTime, FileAssumption DEF TmpName
  <1>3. DOMAIN dir = {TmpName} /\ (dir[TmpName] = <<Header>> \/ dir[TmpName] = <<>>)
    BY <1>1
  <1>4. ~Message_in(dir, TmpName)
    <2>1. Header.n = 0 /\ Len(<<>>) = 0 /\ Len(<<Header>>) = 1 /\ <<Header>>[1] = Header
      BY DEF Header
    <2>2. CASE dir[TmpName] = <<>>
      BY <2>1, <2>2 DEF Message_in
    <2>3. CASE dir[TmpName] = <<Header>>
      <3>1. \A i \in 1..1 : <<Header>>[i].n = 0
        BY <2>1
      <3> QED
        BY <2>1, <2>3, <3>1 DEF Message_in
    <2> QED
      BY <1>3, <2>2, <2>3
  <1>5. current[2] = localtime(now)
    BY <1>1, <1>2
  <1> QED
    BY <1>1, <1>2, <1>3, <1>4, <1>5 DEF InTurn

LEMMA InTurnStep ==
    ASSUME Jump >= 0, Typed, InTurn, [Next]_vars
    PROVE  InTurn'
  <1>1. SUFFICES ASSUME kind' = "step" PROVE InTurn'
    BY DEF InTurn
  <1>2. kind = "step"
    BY <1>1 DEF Next, Tick, Log, Flush, Restart, vars, set
  <1>3. /\ current = <<"tmp", current[2]>> /\ current[2] \in Int
        /\ current[2] <= localtime(now)
        /\ file \in {current, NoFile}
        /\ \A f \in DOMAIN dir : f = current \/ OldName(f, current[2])
        /\ size >= HeaderSize
        /\ current \in DOMAIN dir /\ Message_in(dir, current) => size > HeaderSize
    BY <1>2 DEF InTurn
  <1>4. /\ now \in Nat /\ size \in Nat /\ HeaderSize \in Nat /\ logged \in Nat
        /\ faults \in Nat /\ buffered \in Nat /\ Files(dir)
        /\ file # NoFile => file \in DOMAIN dir /\ buffered <= Len(dir[file])
        /\ localtime(now) \in Int
        /\ TmpName = <<"tmp", localtime(now)>> /\ TmpName[2] = localtime(now)
    BY LocalTime, FileAssumption DEF Typed, TmpName
  <1>5. CASE Log
    <2>1. PICK sz \in Sizes : LogStep(Message(logged', sz))
      BY <1>2, <1>5 DEF Log, LogRotating, LogDaily
    <2>2. logged' \in Nat /\ sz \in Nat /\ sz > 0 /\ localtime(now)' = localtime(now)
      BY <1>2, <1>4, <1>5 DEF Log, Sizes, localtime, Offset
    <2> DEFINE m == Message(logged', sz)
    <2>3. m \in Entries /\ m.size = sz
      BY <1>4, <2>2, MessageEntry
    <2> HIDE DEF m
    <2>4. CASE /\ Write(dir, file, buffered, 0, m) /\ size' = size + m.size
               /\ UNCHANGED <<file, current>>
      <3>1. DOMAIN dir' = DOMAIN dir
        <4>1. CASE file = NoFile
          BY <2>4, <4>1 DEF Write
        <4>2. CASE file # NoFile
          <5>1. buffered \in 0..Len(dir[file])
            BY <1>4, <4>2, LenProperties DEF Files
          <5> QED
            BY <1>4, <2>3, <2>4, <4>2, <5>1, WriteIs
        <4> QED
          BY <4>1, <4>2
      <3>2. size' > HeaderSize /\ size' >= HeaderSize
        BY <1>3, <1>4, <2>2, <2>3, <2>4
      <3> QED
        BY <1>3, <2>2, <2>4, <3>1, <3>2 DEF InTurn
    <2>5. CASE UNCHANGED state
      BY <1>3, <2>2, <2>5 DEF InTurn, state, Message_in
    <2>6. ASSUME NEW k \in Losses, ~file_exists(TmpName)
          PROVE  LET c == Closed(Drained(k))
                     d == Opened(c, TmpName)
                 IN  /\ TmpName \notin DOMAIN c
                     /\ \A f \in DOMAIN c : OldName(f, localtime(now))
                     /\ DOMAIN d = DOMAIN c \cup {TmpName} /\ d[TmpName] = <<>>
                     /\ Files(d) /\ Cost(k) \in Nat
      <3> DEFINE c == Closed(Drained(k))
      <3>1. Files(c) /\ Cost(k) \in Nat /\ \A f \in DOMAIN c : OldName(f, localtime(now))
        BY <1>2, <1>4, <2>6, DrainedIs, ClosedFiles, ClosedNames
      <3> HIDE DEF c
      <3>2. TmpName \notin DOMAIN c
        BY <1>4, <3>1 DEF OldName
      <3>3. DOMAIN Opened(c, TmpName) = DOMAIN c \cup {TmpName} /\ Opened(c, TmpName)[TmpName] = <<>>
        BY <3>2 DEF Opened, With
      <3>4. Files(Opened(c, TmpName))
        BY <3>1, NamedFiles
      <3> QED
        BY <3>1, <3>2, <3>3, <3>4 DEF c
    <2>7. ASSUME NEW k \in Losses, ~file_exists(TmpName), current' = TmpName, file' = TmpName,
                 size' = HeaderSize + m.size,
                 Write(Headed(Opened(Closed(Drained(k)), TmpName)), TmpName,
                       Cost(HeaderSize), Cost(k), m)
          PROVE  InTurn'
      <3> DEFINE c == Closed(Drained(k))
                 e == Opened(c, TmpName)
                 d == Headed(e)
                 f == TmpName
                 b == Cost(HeaderSize)
      <3>1. /\ DOMAIN e = DOMAIN c \cup {f} /\ Files(e) /\ e[f] = <<>> /\ Cost(k) \in Nat
            /\ \A g \in DOMAIN c : OldName(g, localtime(now))
        BY <2>6, <2>7
      <3>2. Files(d) /\ DOMAIN d = DOMAIN e /\ f \in DOMAIN d
        BY <1>4, <3>1, HeadedFiles
      <3>3. b \in 0..Len(d[f])
        <4>1. Len(d[f]) \in Nat
          BY <3>2, LenProperties DEF Files
        <4>2. CASE HeaderSize = 0
          BY <4>1, <4>2 DEF Cost
        <4>3. CASE HeaderSize # 0
          <5>1. d = Extended(e, f, <<Header>>) /\ Header \in Entries /\ b = 1
            BY <1>4, <4>3 DEF Headed, Header, Entries, Time, Cost
          <5> HIDE DEF e, f, b
          <5>2. Len(Extended(e, f, <<Header>>)[f]) = Len(e[f]) + 1 /\ Len(e[f]) = 0
            BY <3>1, <5>1, ExtendedFiles
          <5> HIDE DEF d
          <5>3. Len(d[f]) = 1
            BY <5>1, <5>2
          <5>4. b = 1
            BY <5>1
          <5> QED
            BY <5>3, <5>4
        <4> QED
          BY <4>2, <4>3
      <3>4. Write(d, f, b, Cost(k), m) /\ f # NoFile
        BY <2>7, Named
      <3> HIDE DEF d, e, c, b
      <3>5. DOMAIN dir' = DOMAIN d
        <4> HIDE DEF f
        <4> QED
          BY <1>4, <2>3, <3>1, <3>2, <3>3, <3>4, WriteIs
      <3>6. size' > HeaderSize /\ size' >= HeaderSize
        BY <1>4, <2>2, <2>3, <2>7
      <3>7. \A g \in DOMAIN dir' : g = current' \/ OldName(g, current'[2])
        BY <1>4, <2>7, <3>1, <3>2, <3>5
      <3> QED
        BY <1>4, <2>2, <2>7, <3>6, <3>7 DEF InTurn
    <2>8. ASSUME NEW k \in Losses, ~file_exists(TmpName), current' = TmpName, file' = NoFile,
                 size' = size, dir' = Closed(Drained(k))
          PROVE  InTurn'
      <3>1. TmpName \notin DOMAIN dir' /\ \A f \in DOMAIN dir' : OldName(f, localtime(now))
        BY <2>6, <2>8
      <3> QED
        BY <1>3, <1>4, <2>2, <2>8, <3>1 DEF InTurn
    <2>9. ASSUME NEW k \in Losses, ~file_exists(TmpName), current' = TmpName, file' = TmpName,
                 size' = HeaderSize, dir' = Opened(Closed(Drained(k)), TmpName)
          PROVE  InTurn'
      <3>1. /\ dir'[TmpName] = <<>>
            /\ \A f \in DOMAIN dir' : f = TmpName \/ OldName(f, localtime(now))
        BY <2>6, <2>9
      <3>2. ~Message_in(dir', TmpName) /\ HeaderSize >= HeaderSize
        BY <1>4, <3>1 DEF Message_in
      <3> QED
        BY <1>4, <2>2, <2>9, <3>1, <3>2 DEF InTurn
    <2>10. LogStep(m)
      BY <2>1 DEF m
    <2>11. CASE ChangeThenWrite(m) /\ ~file_exists(TmpName)
      BY <2>5, <2>7, <2>8, <2>9, <2>11 DEF ChangeThenWrite
    <2> QED
      BY <2>4, <2>10, <2>11 DEF LogStep
  <1>6. CASE Tick
    <2>1. now' = now + 1 /\ UNCHANGED <<dir, file, current, size>>
      BY <1>6 DEF Tick, state
    <2>2. localtime(now)' = localtime(now + 1)
      BY <2>1 DEF localtime, Offset
    <2>3. localtime(now) <= localtime(now + 1) /\ localtime(now + 1) \in Int
      BY <1>4, Later
    <2> DEFINE x == localtime(now)
               y == localtime(now + 1)
               z == current[2]
    <2>4. x \in Int /\ y \in Int /\ z \in Int /\ z <= x /\ x <= y
      BY <1>3, <1>4, <2>3
    <2> HIDE DEF x, y, z
    <2>5. z <= y
      BY <2>4
    <2>6. current'[2] <= localtime(now)'
      BY <2>1, <2>2, <2>5 DEF y, z
    <2> QED
      BY <1>3, <2>1, <2>6 DEF InTurn, Message_in
  <1>7. CASE Flush
    <2>1. PICK k \in Losses : dir' = Drained(k)
      BY <1>7 DEF Flush
    <2>2. UNCHANGED <<now, file, current, size>> /\ localtime(now)' = localtime(now)
      BY <1>7 DEF Flush, localtime, Offset
    <2>3. Shorter(dir', dir) /\ DOMAIN dir' = DOMAIN dir
      BY <2>1, DrainedIs
    <2>4. current \in DOMAIN dir /\ Message_in(dir', current) => Message_in(dir, current)
      <3> SUFFICES ASSUME current \in DOMAIN dir, Message_in(dir', current)
                   PROVE  Message_in(dir, current)
        OBVIOUS
      <3>1. Starts(dir'[current], dir[current])
        BY <2>3 DEF Shorter
      <3>2. /\ Len(dir'[current]) \in Nat /\ Len(dir[current]) \in Nat
            /\ Len(dir'[current]) <= Len(dir[current])
        BY <3>1, LenProperties DEF Starts
      <3> QED
        BY <3>1, <3>2 DEF Starts, Message_in
    <2> QED
      BY <1>3, <2>2, <2>3, <2>4 DEF InTurn
  <1>8. CASE UNCHANGED vars
    <2>1. UNCHANGED <<now, dir, file, current, size>>
      BY <1>8 DEF vars, state
    <2> QED
      BY <1>3, <2>1 DEF InTurn, Message_in, localtime, Offset
  <1> QED
    BY <1>2, <1>5, <1>6, <1>7, <1>8 DEF Next, Restart

\* A call of the step sink.
LEMMA KeptStep ==
    ASSUME Typed, InTurn, kind = "step", NEW m \in Entries, LogStep(m),
           NEW n \in Nat \ {0}, Safe(dir, file, buffered, n)
    PROVE  Has(dir', n)
  <1>0. /\ Files(dir) /\ faults \in Nat /\ buffered \in Nat /\ now \in Nat /\ size \in Nat
        /\ file # NoFile => file \in DOMAIN dir /\ buffered <= Len(dir[file])
        /\ HeaderSize \in Nat
    BY FileAssumption DEF Typed
  <1>1. CASE Write(dir, file, buffered, 0, m)
    BY <1>0, <1>1, WriteHas
  <1>2. CASE UNCHANGED state
    BY <1>0, <1>2, SafeHas DEF state
  <1>3. ASSUME NEW k \in Losses
        PROVE  /\ Has(Closed(Drained(k)), n) /\ Files(Closed(Drained(k))) /\ Cost(k) \in Nat
               /\ DOMAIN Drained(k) = DOMAIN dir
    <2>1. /\ Shorter(Drained(k), dir) /\ Files(Drained(k)) /\ Cost(k) \in Nat
          /\ DOMAIN Drained(k) = DOMAIN dir
      BY DrainedIs
    <2>2. Has(Drained(k), n)
      BY HasDrained
    <2> QED
      BY <1>0, <2>1, <2>2, HasClosed, ClosedFiles
  <1>4. ASSUME NEW k \in Losses, ~file_exists(TmpName),
               Write(Headed(Opened(Closed(Drained(k)), TmpName)), TmpName,
                     Cost(HeaderSize), Cost(k), m)
        PROVE  Has(dir', n)
    <2> DEFINE c == Closed(Drained(k))
               f == TmpName
               e == Opened(c, f)
               d == Headed(e)
               b == Cost(HeaderSize)
    <2>1. Has(c, n) /\ Files(c) /\ Cost(k) \in Nat
      BY <1>3
    <2>2. f \notin DOMAIN c
      <3>1. \A g \in DOMAIN c : OldName(g, localtime(now))
        BY <1>0, <1>3, <1>4, ClosedNames
      <3> QED
        BY <3>1 DEF OldName, TmpName
    <2>3. Write(d, f, b, Cost(k), m)
      BY <1>4
    <2> HIDE DEF c
    <2>4. /\ Files(e) /\ DOMAIN e = DOMAIN c \cup {f} /\ e[f] = <<>>
          /\ \A g \in DOMAIN c : e[g] = c[g]
      <3>1. Files(e)
        BY <2>1, NamedFiles
      <3>2. e = With(c, f, <<>>)
        BY <2>2 DEF Opened
      <3> QED
        BY <2>2, <3>1, <3>2 DEF With
    <2> HIDE DEF e
    <2>5. /\ Files(d) /\ DOMAIN d = DOMAIN e /\ b \in Nat /\ b <= Len(d[f])
          /\ \A g \in DOMAIN c : d[g] = c[g]
      <3>1. Files(d) /\ DOMAIN d = DOMAIN e
        BY <1>0, <2>4, HeadedFiles
      <3>2. Len(d[f]) \in Nat
        BY <2>4, <3>1, LenProperties DEF Files
      <3>3. CASE HeaderSize = 0
        BY <2>2, <2>4, <3>1, <3>2, <3>3 DEF Cost, Headed
      <3>4. CASE HeaderSize # 0
        <4>1. d = Extended(e, f, <<Header>>) /\ Header \in Entries /\ b = 1
          BY <1>0, <3>4 DEF Headed, Header, Entries, Time, Cost
        <4> HIDE DEF f, b
        <4>2. Len(Extended(e, f, <<Header>>)[f]) = Len(e[f]) + 1 /\ Len(e[f]) = 0
          BY <2>4, <4>1, ExtendedFiles
        <4>3. \A g \in DOMAIN c : d[g] = e[g]
          BY <2>2, <2>4, <4>1, ExtendedIs
        <4> HIDE DEF d
        <4>4. Len(d[f]) = 1 /\ \A g \in DOMAIN c : d[g] = c[g]
          BY <2>4, <4>1, <4>2, <4>3
        <4>5. b = 1
          BY <4>1
        <4> QED
          BY <3>1, <4>4, <4>5
      <3> QED
        BY <3>3, <3>4
    <2> HIDE DEF d, b
    <2>6. Safe(d, f, b, n)
      BY <2>1, <2>2, <2>4, <2>5 DEF Has, Safe
    <2>7. f \in DOMAIN d
      BY <2>4, <2>5
    <2> HIDE DEF f
    <2> QED
      BY <1>0, <2>1, <2>3, <2>5, <2>6, <2>7, WriteHas
  <1>5. ASSUME NEW k \in Losses,
               dir' \in {Closed(Drained(k)), Opened(Closed(Drained(k)), TmpName)}
        PROVE  Has(dir', n)
    BY <1>3, <1>5, HasOpened
  <1>6. CASE ChangeThenWrite(m) /\ ~file_exists(TmpName)
    BY <1>2, <1>4, <1>5, <1>6 DEF ChangeThenWrite
  <1> QED
    BY <1>1, <1>6 DEF LogStep

-----------------------------------------------------------------------------
LEMMA KeepStep ==
    ASSUME Jump >= 0, Typed, Typed', Recovering, Rotating, InTurn, Next
    PROVE  /\ \A n \in OnDisk : \/ n \in Held'
                                \/ kind = "rotating" /\ \A m \in Held' : n < m
           /\ kind # "step" /\ logged' > logged /\ faults' = faults =>
                 logged' \in Held' /\ ~crashed'
  <1>0. logged \in Nat /\ logged' \in Nat /\ Files(dir) /\ Files(dir')
        /\ kind \in {"rotating", "daily", "step"} /\ faults \in Nat /\ now \in Nat
    BY DEF Typed
  <1>1. ASSUME NEW n \in OnDisk
        PROVE  n \in 1..logged /\ n \in Nat \ {0} /\ Safe(dir, file, buffered, n)
    <2>1. \A f \in DOMAIN dir : DOMAIN dir[f] = 1..Len(dir[f])
      BY <1>0, LenProperties DEF Files
    <2> QED
      BY <1>0, <2>1 DEF OnDisk, Messages, Safe
  <1>2. \A n : n \in Held' <=> n \in 1..logged' /\ Has(dir', n)
    <2>1. \A f \in DOMAIN dir' : DOMAIN dir'[f] = 1..Len(dir'[f])
                                 /\ \A i \in 1..Len(dir'[f]) : i <= Len(dir'[f]) - 0
      BY <1>0, LenProperties DEF Files
    <2> QED
      BY <2>1 DEF Held, Messages, Has
  <1>3. CASE /\ logged' = logged
             /\ \A n \in OnDisk : Has(dir', n)
    BY <1>0, <1>1, <1>2, <1>3
  <1>4. CASE Tick
    <2>1. UNCHANGED <<dir, logged>>
      BY <1>4 DEF Tick, state
    <2>2. \A n \in OnDisk : Has(dir', n)
      BY <1>0, <1>1, <2>1, SafeHas
    <2> QED
      BY <1>3, <2>1, <2>2
  <1>5. CASE Flush
    <2>1. logged' = logged /\ \E k \in Losses : dir' = Drained(k)
      BY <1>5 DEF Flush
    <2>2. \A n \in OnDisk : Has(dir', n)
      BY <1>1, <2>1, HasDrained
    <2> QED
      BY <1>3, <2>1, <2>2
  <1>6. CASE Restart
    <2>1. logged' = logged /\ \E k \in Losses : dir' = Opened(Drained(k), file')
      BY <1>6 DEF Restart
    <2>2. \A n \in OnDisk : Has(dir', n)
      BY <1>1, <2>1, HasDrained, HasOpened
    <2> QED
      BY <1>3, <2>1, <2>2
  <1>7. CASE Log
    <2>1. PICK sz \in Sizes : LET m == Message(logged', sz)
                              IN  LogRotating(m) \/ LogDaily(m) \/ LogStep(m)
      BY <1>7 DEF Log
    <2>2. logged' = logged + 1 /\ sz \in Nat /\ ~crashed
      BY <1>7 DEF Log, Sizes
    <2> DEFINE m == Message(logged', sz)
    <2>3. m \in Entries /\ m.n = logged' /\ m.n = logged + 1
      BY <1>0, <2>2, MessageEntry
    <2>4. (LogRotating(m) /\ kind = "rotating") \/ (LogDaily(m) /\ kind = "daily")
          \/ (LogStep(m) /\ kind = "step")
      BY <2>1 DEF LogRotating, LogDaily, LogStep
    <2> HIDE DEF m
    <2>5. \A n \in 1..logged : n \in 1..logged'
      BY <1>0, <2>2
    <2>6. logged' \in 1..logged'
      BY <1>0, <2>2
    <2>7. CASE LogRotating(m) /\ kind = "rotating"
      <3>1. /\ \A n \in 1..logged : Safe(dir, file, buffered, n) =>
                 Has(dir', n) \/ \A a : Has(dir', a) => n < a
            /\ faults' = faults => Has(dir', m.n) /\ ~crashed'
        BY <2>3, <2>7, KeptRotating
      <3> QED
        BY <1>1, <1>2, <2>3, <2>5, <2>6, <2>7, <3>1
    <2>8. CASE LogDaily(m) /\ kind = "daily"
      <3>1. /\ \A n : Safe(dir, file, buffered, n) => Has(dir', n)
            /\ faults' = faults => Has(dir', m.n) /\ ~crashed'
        BY <2>3, <2>8, KeptDaily
      <3> QED
        BY <1>1, <1>2, <2>3, <2>5, <2>6, <3>1
    <2>9. CASE LogStep(m) /\ kind = "step"
      <3>1. \A n \in OnDisk : Has(dir', n)
        BY <1>1, <2>3, <2>9, KeptStep
      <3> QED
        BY <1>1, <1>2, <2>5, <2>9, <3>1
    <2> QED
      BY <2>4, <2>7, <2>8, <2>9
  <1> QED
    BY <1>4, <1>5, <1>6, <1>7 DEF Next

-----------------------------------------------------------------------------
(* What has left a sink's buffer stays in some file whatever fails          *)
(* afterwards, in a rotation or a change of files half way as well, but for *)
(* what the rotating sink gives up, older than all that stays; and the      *)
(* rotating and the daily sink, the program's, go on by themselves: a call  *)
(* in which nothing fails puts its message into a file, whatever failed     *)
(* before (file_helper, rotating_file_sink, daily_file_sink,                *)
(* step_file_sink).  The clock may jump, but not be set back: the step sink *)
(* would give a file the name of another.                                   *)
THEOREM FilesAreKept ==
    ASSUME Jump >= 0
    PROVE  Spec => FilesKeep
  <1>1. Init => Typed /\ Recovering /\ Rotating /\ InTurn
    BY TypedInit, RecoveringInit, RotatingInit, InTurnInit
  <1>2. Typed /\ Recovering /\ Rotating /\ InTurn /\ [Next]_vars
        => (Typed /\ Recovering /\ Rotating /\ InTurn)'
    BY TypedStep, RecoveringStep, RotatingStep, InTurnStep
  <1>3. Typed /\ Typed' /\ Recovering /\ Rotating /\ InTurn /\ [Next]_vars
        => [/\ \A n \in OnDisk : \/ n \in Held'
                                 \/ kind = "rotating" /\ \A m \in Held' : n < m
            /\ kind # "step" /\ logged' > logged /\ faults' = faults =>
                  logged' \in Held' /\ ~crashed']_vars
    BY KeepStep
  <1> QED
    BY <1>1, <1>2, <1>3, PTL DEF Spec, FilesKeep

(* On a clock that does not jump no file of the daily sink holds messages   *)
(* from before and from after the hour of rotation, whatever fails and      *)
(* however often the program is restarted (daily_file_sink).                *)
THEOREM OneDay == Spec => [](Jump = 0 => OneDayPerFile)
  <1>1. Recovering /\ Daily => (Jump = 0 => OneDayPerFile)
    <2> SUFFICES ASSUME Daily, Jump = 0, kind = "daily",
                        NEW f \in DOMAIN dir,
                        NEW i \in DOMAIN dir[f], NEW j \in DOMAIN dir[f]
                 PROVE  Period(dir[f][i].written) = Period(dir[f][j].written)
      BY DEF OneDayPerFile
    <2>1. Holds(dir[f], f[2])
      BY DEF Daily, Filed
    <2> QED
      BY <2>1 DEF Holds
  <1> QED
    BY <1>1, Invariant, PTL

(* The rotating sink's files hold the messages in their order, each within  *)
(* its size but for a message that is longer; as long as nothing failed     *)
(* they hold the end of what was logged, and all of it before there are     *)
(* MaxFiles beside the current one, for any sizes and number of files and   *)
(* however often the program is restarted (rotating_file_sink).             *)
THEOREM KeepsTheLatest == Spec => []RotatingKeepsTheLatest
  <1>1. Typed /\ Rotating => RotatingKeepsTheLatest
    <2> SUFFICES ASSUME Typed, Rotating, kind = "rotating"
                 PROVE  RotatingKeepsTheLatest
      BY DEF RotatingKeepsTheLatest
    <2> DEFINE held == UNION {Numbers(f) : f \in DOMAIN dir}
    <2>1. Shelf(dir, logged) /\ logged \in Nat /\ (faults = 0 => Keeps(dir, logged))
      BY DEF Rotating, Typed
    <2>2. \A f \in DOMAIN dir : Numbers(f) = {dir[f][i].n : i \in 1..Len(dir[f])}
      <3>1. \A f \in DOMAIN dir : DOMAIN dir[f] = 1..Len(dir[f])
        BY <2>1, LenProperties DEF Shelf, File
      <3> QED
        BY <3>1 DEF Numbers
    <2>3. \A f, g \in DOMAIN dir : f[2] > g[2] =>
             \A a \in Numbers(f), b \in Numbers(g) : a < b
      BY <2>1, <2>2 DEF Shelf, Older
    <2>4. \A f \in DOMAIN dir : Total(dir[f]) <= MaxSize \/ Len(dir[f]) = 1
      BY <2>1 DEF Shelf, File
    <2>5. \A a : a \in held <=> Has(dir, a)
      BY <2>2 DEF Has
    <2> HIDE DEF held
    <2>6. ASSUME NEW a \in held PROVE a \in 1..logged
      <3>1. PICK f \in DOMAIN dir : \E i \in 1..Len(dir[f]) : dir[f][i].n = a
        BY <2>5 DEF Has
      <3>2. \A i \in 1..Len(dir[f]) : dir[f][i].n \in 1..logged
        BY <2>1 DEF Shelf, File
      <3> QED
        BY <3>1, <3>2
    <2>7. ASSUME faults = 0
          PROVE  /\ \A a \in held : a..logged \subseteq held
                 /\ held = 1..logged \/ Cardinality(DOMAIN dir) = MaxFiles + 1
      <3>1. PICK n \in 0..MaxFiles :
              /\ DOMAIN dir = {L(i) : i \in 0..n}
              /\ \A a, b \in 1..logged : a <= b /\ Has(dir, a) => Has(dir, b)
              /\ n = MaxFiles \/ \A a \in 1..logged : Has(dir, a)
        BY <2>1, <2>7 DEF Keeps
      <3>2. ASSUME NEW a \in held, NEW b \in a..logged PROVE b \in held
        <4>1. a \in 1..logged /\ b \in 1..logged /\ a <= b
          BY <2>1, <2>6
        <4> QED
          BY <2>5, <3>1, <4>1
      <3>3. CASE n = MaxFiles
        <4>1. Cardinality(DOMAIN dir) = MaxFiles + 1
          BY <3>1, <3>3, Places, FileAssumption
        <4> QED
          BY <3>2, <4>1
      <3>4. CASE n # MaxFiles
        <4>1. held = 1..logged
          BY <2>5, <2>6, <3>1, <3>4
        <4> QED
          BY <3>2, <4>1
      <3> QED
        BY <3>3, <3>4
    <2> QED
      BY <2>3, <2>4, <2>7 DEF RotatingKeepsTheLatest, held
  <1> QED
    BY <1>1, TypedHolds, RotatingHolds, PTL

(* The step sink leaves one file under a temporary name, the one it writes, *)
(* whatever fails, and before the first failure each file begins with its   *)
(* only header (step_file_sink).                                            *)
THEOREM StepFilesAreComplete == Spec => []StepFilesComplete
  <1>1. Stepping => StepFilesComplete
    <2> SUFFICES ASSUME Stepping, kind = "step" PROVE StepFilesComplete
      BY DEF StepFilesComplete
    <2>1. \A f \in DOMAIN dir : f[1] = "tmp" => f = current
      BY DEF Stepping, OneTmp
    <2>2. ASSUME HeaderSize > 0, faults = 0, NEW f \in DOMAIN dir, NEW i \in DOMAIN dir[f]
          PROVE  dir[f][i].n = 0 <=> i = 1
      <3>1. HeadedFile(dir[f])
        BY <2>2 DEF Stepping, AllHeaded
      <3>2. DOMAIN dir[f] = 1..Len(dir[f])
        BY <3>1, LenProperties DEF HeadedFile
      <3> QED
        BY <2>2, <3>1, <3>2 DEF HeadedFile
    <2> QED
      BY <2>1, <2>2 DEF StepFilesComplete
  <1> QED
    BY <1>1, SteppingHolds, PTL
=============================================================================
