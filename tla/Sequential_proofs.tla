-------------------------- MODULE Sequential_proofs --------------------------
(***************************************************************************)
(* What the sequential algorithms make of every input: the timestamps of   *)
(* video packets for every sequence of capture times, compile_pattern for  *)
(* every pattern, the NAL unit parser for every buffer of units, the line  *)
(* of every pattern and message and its colours.  Each is built on a       *)
(* recursive function; Unrolling, Unrolled and Searching say that it is    *)
(* defined and what it is at each place, Induction goes along the places.  *)
(* The parser's invariant ParserInv says which unit it has come to and     *)
(* what it has copied on the way.                                          *)
(***************************************************************************)
EXTENDS Inputs, NaluParser, SequenceTheorems, FiniteSetTheorems,
        WellFoundedInduction, TLAPS

(* Induction over the naturals, for a set in place of a predicate.          *)

LEMMA Least ==
    ASSUME NEW T \in SUBSET Nat, T # {}
    PROVE  \E x \in T : \A y \in T : x <= y
  <1> DEFINE R == OpToRel(<, Nat)
  <1>1. IsWellFoundedOn(R, Nat)
    BY NatLessThanWellFounded
  <1>2. \A x, y \in Nat : y < x => <<y, x>> \in R
    BY DEF OpToRel
  <1> HIDE DEF R
  <1>3. PICK x \in T : \A y \in T : ~(<<y, x>> \in R)
    BY <1>1, WFMin
  <1>4. ASSUME NEW y \in T PROVE x <= y
    <2>1. ~(y < x) /\ x \in Nat /\ y \in Nat
      BY <1>2, <1>3, Zenon
    <2> QED
      BY <2>1
  <1> QED
    BY <1>4

LEMMA Induction ==
    ASSUME NEW S, 0 \in S, \A n \in Nat : n \in S => n + 1 \in S
    PROVE  Nat \subseteq S
  <1> SUFFICES ASSUME Nat \ S # {} PROVE FALSE
    OBVIOUS
  <1>1. PICK x \in Nat \ S : \A y \in Nat \ S : x <= y
    BY Least
  <1>2. x # 0 /\ x - 1 \in Nat /\ x - 1 \in S
    BY <1>1
  <1> QED
    BY <1>1, <1>2

-----------------------------------------------------------------------------
(* A function given by what it is at 0 and how it goes on from i - 1 to i   *)
(* exists, and a definition that says so is of this function.               *)

Unrolls(f, S, init, step, n) ==
    /\ f \in [0..n -> S] /\ f[0] = init
    /\ \A i \in 1..n : f[i] = step[i][f[i - 1]]

LEMMA Unrolling ==
    ASSUME NEW S, NEW init \in S, NEW n \in Nat, NEW step \in [1..n -> [S -> S]]
    PROVE  \E f : Unrolls(f, S, init, step, n)
  <1> DEFINE T == {k \in Nat : k <= n => \E f : Unrolls(f, S, init, step, k)}
  <1>1. 0 \in T
    <2>1. Unrolls([i \in 0..0 |-> init], S, init, step, 0)
      BY DEF Unrolls
    <2> QED
      BY <2>1
  <1>2. ASSUME NEW k \in Nat, k \in T PROVE k + 1 \in T
    <2> SUFFICES ASSUME k + 1 <= n PROVE \E f : Unrolls(f, S, init, step, k + 1)
      OBVIOUS
    <2>1. k <= n /\ k + 1 \in 1..n /\ k \in 0..k
      OBVIOUS
    <2>2. PICK f : Unrolls(f, S, init, step, k)
      BY <1>2, <2>1
    <2> DEFINE z == step[k + 1][f[k]]
               g == [i \in 0..(k + 1) |-> IF i = k + 1 THEN z ELSE f[i]]
    <2>3. z \in S /\ z = step[k + 1][f[k]]
      BY <2>1, <2>2 DEF Unrolls
    <2> HIDE DEF z
    <2>4. g[k + 1] = z /\ \A i \in 0..k : g[i] = f[i]
      OBVIOUS
    <2>5. g \in [0..(k + 1) -> S]
      BY <2>2, <2>3 DEF Unrolls
    <2> HIDE DEF g
    <2>6. ASSUME NEW i \in 1..(k + 1) PROVE g[i] = step[i][g[i - 1]]
      <3>1. CASE i = k + 1
        <4>1. i - 1 = k /\ g[k] = f[k]
          BY <2>1, <2>4, <3>1
        <4> QED
          BY <2>3, <2>4, <3>1, <4>1
      <3>2. CASE i # k + 1
        <4>1. i \in 1..k /\ g[i] = f[i] /\ g[i - 1] = f[i - 1]
          BY <2>4, <3>2
        <4> QED
          BY <2>2, <4>1 DEF Unrolls
      <3> QED
        BY <3>1, <3>2
    <2>7. g[0] = init
      BY <2>2, <2>4 DEF Unrolls
    <2> QED
      BY <2>5, <2>6, <2>7 DEF Unrolls
  <1> HIDE DEF T
  <1>3. Nat \subseteq T
    BY <1>1, <1>2, Induction
  <1> QED
    BY <1>3 DEF T

LEMMA Unrolled ==
    ASSUME NEW S, NEW init \in S, NEW n \in Nat, NEW step \in [1..n -> [S -> S]], NEW h,
           DOMAIN h = 0..n, h = [i \in DOMAIN h |-> h[i]], h[0] = init,
           \A i \in 1..n : h[i - 1] \in S => h[i] = step[i][h[i - 1]]
    PROVE  Unrolls(h, S, init, step, n)
  <1> DEFINE T == {i \in Nat : i <= n => h[i] \in S}
  <1>1. 0 \in T
    OBVIOUS
  <1>2. ASSUME NEW i \in Nat, i \in T PROVE i + 1 \in T
    <2> SUFFICES ASSUME i + 1 <= n PROVE h[i + 1] \in S
      OBVIOUS
    <2>1. i + 1 \in 1..n /\ (i + 1) - 1 = i /\ h[i] \in S
      BY <1>2
    <2> QED
      BY <2>1
  <1> HIDE DEF T
  <1>3. Nat \subseteq T
    BY <1>1, <1>2, Induction
  <1>4. \A i \in 0..n : h[i] \in S
    BY <1>3 DEF T
  <1>5. h \in [0..n -> S]
    BY <1>4
  <1>6. \A i \in 1..n : h[i] = step[i][h[i - 1]]
    BY <1>4
  <1> QED
    BY <1>5, <1>6 DEF Unrolls

-----------------------------------------------------------------------------
(* Timestamps.                                                              *)

Instants == Int \X Int
States == [vid_pts : Int, start_tv : Instants]
First == [vid_pts |-> 0, start_tv |-> <<0, 0>>]

LEMMA Thousandth ==
    ASSUME NEW us \in Int
    PROVE  /\ Over1000(us) \in Int
           /\ us - 1000 * Over1000(us) <= 999 /\ us - 1000 * Over1000(us) >= -999
           /\ us >= 0 => Over1000(us) >= 0
BY DEF Over1000

LEMMA ThousandthGrows ==
    ASSUME NEW us \in Int, NEW vs \in Int, us <= vs
    PROVE  Over1000(us) <= Over1000(vs)
BY DEF Over1000

LEMMA TruncatedUp ==
    ASSUME NEW us \in Int, us <= -1000
    PROVE  Over1000(us) < 0 /\ 0 <= 1000 * Over1000(us) - us /\ 1000 * Over1000(us) - us <= 999
BY DEF Over1000

LEMMA OneStamp ==
    ASSUME NEW st \in States, NEW tv \in Instants
    PROVE  VideoPts(st, tv) \in States
  <1>1. /\ Micros(tv) \in Int /\ Micros(st.start_tv) \in Int
    BY DEF Micros, Instants, States
  <1>2. Over1000(Micros(tv) - Micros(st.start_tv)) \in Int
    BY <1>1, Thousandth
  <1> QED
    BY <1>2 DEF VideoPts, States, DEFAULT_FPS

\* st follows the first n of the times of capture.
Follows(st, tvs) == /\ st \in [0..Len(tvs) -> States] /\ st[0] = First
                    /\ \A i \in 1..Len(tvs) : st[i] = VideoPts(st[i - 1], tvs[i])

LEMMA StampsFollow ==
    ASSUME NEW tvs \in Seq(Instants)
    PROVE  Follows(Stamps(tvs), tvs)
  <1> DEFINE step == [i \in 1..Len(tvs) |-> [st \in States |-> VideoPts(st, tvs[i])]]
             G(f) == [n \in 0..Len(tvs) |-> IF n = 0 THEN First ELSE VideoPts(f[n - 1], tvs[n])]
             h == CHOOSE f : f = G(f)
  <1>0. Len(tvs) \in Nat /\ \A i \in 1..Len(tvs) : tvs[i] \in Instants
    BY LenProperties, ElementOfSeq
  <1>1. First \in States
    BY DEF First, States, Instants
  <1>2. step \in [1..Len(tvs) -> [States -> States]]
    BY <1>0, OneStamp
  <1>3. \A i \in 1..Len(tvs), st \in States : step[i][st] = VideoPts(st, tvs[i])
    OBVIOUS
  <1> HIDE DEF step
  <1>4. PICK f : Unrolls(f, States, First, step, Len(tvs))
    BY <1>0, <1>1, <1>2, Unrolling
  <1>5. f = G(f)
    <2>1. ASSUME NEW i \in 0..Len(tvs)
          PROVE  f[i] = IF i = 0 THEN First ELSE VideoPts(f[i - 1], tvs[i])
      <3>1. CASE i = 0
        BY <1>4, <3>1 DEF Unrolls
      <3>2. CASE i # 0
        <4>1. i \in 1..Len(tvs) /\ i - 1 \in 0..Len(tvs)
          BY <1>0, <3>2
        <4>2. f[i - 1] \in States /\ f[i] = step[i][f[i - 1]]
          BY <1>4, <4>1 DEF Unrolls
        <4> QED
          BY <1>3, <3>2, <4>1, <4>2
      <3> QED
        BY <3>1, <3>2
    <2>2. f \in [0..Len(tvs) -> States]
      BY <1>4 DEF Unrolls
    <2> QED
      BY <2>1, <2>2
  <1>6. h = G(h)
    BY <1>5
  <1>7. Stamps(tvs) = h
    BY DEF Stamps, First
  <1> HIDE DEF h
  <1>8. /\ DOMAIN h = 0..Len(tvs) /\ h = [i \in DOMAIN h |-> h[i]] /\ h[0] = First
        /\ \A i \in 1..Len(tvs) : h[i] = VideoPts(h[i - 1], tvs[i])
    <2>1. \A i \in 0..Len(tvs) : h[i] = IF i = 0 THEN First ELSE VideoPts(h[i - 1], tvs[i])
      BY <1>6
    <2>2. 0 \in 0..Len(tvs) /\ \A i \in 1..Len(tvs) : i \in 0..Len(tvs) /\ i # 0
      BY <1>0
    <2> QED
      BY <1>6, <2>1, <2>2
  <1>9. \A i \in 1..Len(tvs) : h[i - 1] \in States => h[i] = step[i][h[i - 1]]
    BY <1>3, <1>8
  <1>10. Unrolls(h, States, First, step, Len(tvs))
    BY <1>0, <1>1, <1>2, <1>8, <1>9, Unrolled
  <1> QED
    BY <1>7, <1>8, <1>10 DEF Follows, Unrolls

\* vid_pts after n buffers, before it is cut to an unsigned int.
Count(tvs, n) == Stamps(tvs)[n].vid_pts

LEMMA StampsBefore ==
    ASSUME NEW tvs \in Seq(Instants), NEW n \in 0..Len(tvs), \A i \in 1..n : tvs[i][1] = 0
    PROVE  Count(tvs, n) = 40 * n /\ Stamps(tvs)[n].start_tv[1] = 0
  <1> DEFINE st == Stamps(tvs)
             S == {i \in Nat : i <= n => st[i].vid_pts = 40 * i /\ st[i].start_tv[1] = 0}
  <1>0. Len(tvs) \in Nat /\ n \in Nat /\ Follows(st, tvs)
    BY LenProperties, StampsFollow
  <1> HIDE DEF st
  <1>1. 0 \in S
    BY <1>0 DEF Follows, First
  <1>2. ASSUME NEW i \in Nat, i \in S PROVE i + 1 \in S
    <2> SUFFICES ASSUME i + 1 <= n
                 PROVE st[i + 1].vid_pts = 40 * (i + 1) /\ st[i + 1].start_tv[1] = 0
      OBVIOUS
    <2>1. i + 1 \in 1..Len(tvs) /\ (i + 1) - 1 = i /\ i + 1 \in 1..n
      BY <1>0
    <2>2. st[i].vid_pts = 40 * i /\ st[i].start_tv[1] = 0
      BY <1>0, <1>2
    <2>3. st[i + 1] = VideoPts(st[i], tvs[i + 1])
      BY <1>0, <2>1 DEF Follows
    <2>4. st[i + 1] = [vid_pts |-> st[i].vid_pts + 1000 \div 25, start_tv |-> tvs[i + 1]]
      BY <2>2, <2>3 DEF VideoPts, DEFAULT_FPS
    <2> QED
      BY <2>1, <2>2, <2>4
  <1> HIDE DEF S
  <1>3. Nat \subseteq S
    BY <1>1, <1>2, Induction
  <1>4. st[n].vid_pts = 40 * n /\ st[n].start_tv[1] = 0
    BY <1>0, <1>3 DEF S
  <1> QED
    BY <1>4 DEF Count, st

LEMMA StampsAfter ==
    ASSUME NEW tvs \in Seq(Instants), NEW f \in 1..Len(tvs), tvs[f][1] # 0,
           \A i \in 1..(f - 1) : tvs[i][1] = 0
    PROVE  /\ Count(tvs, f) = 40 * f
           /\ \A n \in (f + 1)..Len(tvs) :
                 Count(tvs, n) = Over1000(Micros(tvs[n]) - Micros(tvs[f]))
  <1> DEFINE st == Stamps(tvs)
  <1>0. /\ Len(tvs) \in Nat /\ f \in Nat /\ Follows(st, tvs)
        /\ st[f - 1].vid_pts = 40 * (f - 1) /\ st[f - 1].start_tv[1] = 0
    <2>1. f - 1 \in 0..Len(tvs)
      BY LenProperties
    <2> QED
      BY <2>1, LenProperties, StampsFollow, StampsBefore DEF Count
  <1>1. \A n : Count(tvs, n) = st[n].vid_pts
    BY DEF Count
  <1> HIDE DEF st
  <1> DEFINE S == {i \in Nat : f + i <= Len(tvs) => st[f + i].start_tv = tvs[f]}
  <1>2. st[f] = [vid_pts |-> 40 * f, start_tv |-> tvs[f]]
    <2>1. st[f] = VideoPts(st[f - 1], tvs[f])
      BY <1>0 DEF Follows
    <2>2. st[f] = [vid_pts |-> st[f - 1].vid_pts + 1000 \div 25, start_tv |-> tvs[f]]
      BY <1>0, <2>1 DEF VideoPts, DEFAULT_FPS
    <2>3. st[f - 1].vid_pts + 1000 \div 25 = 40 * f
      BY <1>0
    <2> QED
      BY <2>2, <2>3
  <1>3. ASSUME NEW i \in Nat, f + i + 1 <= Len(tvs), st[f + i].start_tv = tvs[f]
        PROVE  /\ st[f + i + 1].start_tv = tvs[f]
               /\ st[f + i + 1].vid_pts = Over1000(Micros(tvs[f + i + 1]) - Micros(tvs[f]))
    <2>1. f + i + 1 \in 1..Len(tvs) /\ (f + i + 1) - 1 = f + i
      BY <1>0, <1>3
    <2>2. st[f + i + 1] = VideoPts(st[f + i], tvs[f + i + 1])
      BY <1>0, <2>1 DEF Follows
    <2> QED
      BY <1>3, <2>2 DEF VideoPts
  <1>4. 0 \in S
    BY <1>0, <1>2
  <1>5. ASSUME NEW i \in Nat, i \in S PROVE i + 1 \in S
    <2> SUFFICES ASSUME f + (i + 1) <= Len(tvs) PROVE st[f + (i + 1)].start_tv = tvs[f]
      OBVIOUS
    <2>1. f + (i + 1) = f + i + 1 /\ f + i + 1 <= Len(tvs) /\ f + i <= Len(tvs)
      BY <1>0
    <2>2. st[f + i].start_tv = tvs[f]
      BY <1>5, <2>1
    <2> QED
      BY <1>3, <2>1, <2>2
  <1> HIDE DEF S
  <1>6. Nat \subseteq S
    BY <1>4, <1>5, Induction
  <1>7. ASSUME NEW n \in (f + 1)..Len(tvs)
        PROVE  st[n].vid_pts = Over1000(Micros(tvs[n]) - Micros(tvs[f]))
    <2> DEFINE i == n - f - 1
    <2>1. i \in Nat /\ f + i <= Len(tvs) /\ f + i + 1 = n /\ f + i + 1 <= Len(tvs)
      BY <1>0
    <2> HIDE DEF i
    <2>2. st[f + i].start_tv = tvs[f]
      BY <1>6, <2>1 DEF S
    <2> QED
      BY <1>3, <2>1, <2>2
  <1> QED
    BY <1>1, <1>2, <1>7

LEMMA Told ==
    ASSUME NEW us \in Int
    PROVE  Tells(Over1000(us) % UIntRange, us)
  <1>1. Over1000(us) \in {us \div 1000, (us \div 1000) + 1}
    BY DEF Over1000
  <1>2. 1000 * Over1000(us) - us \in -999..999
    BY DEF Over1000
  <1> QED
    BY <1>1, <1>2 DEF Tells

LEMMA InOrder ==
    ASSUME NEW us \in Int, NEW vs \in Int, 0 <= us, us <= vs, vs < 1000 * UIntRange
    PROVE  Over1000(us) % UIntRange <= Over1000(vs) % UIntRange
  <1>1. PICK a \in Int, b \in Int : a = Over1000(us) /\ b = Over1000(vs)
    BY Thousandth
  <1>2. 0 <= a /\ a <= b /\ b < UIntRange
    BY <1>1, UIntRangeAssumption DEF Over1000
  <1>3. a % UIntRange = a /\ b % UIntRange = b
    BY <1>2, UIntRangeAssumption
  <1> QED
    BY <1>1, <1>2, <1>3

LEMMA Stamped ==
    \A tvs \in Seq(Int \X Int) : TimesFollow(tvs)
  <1> SUFFICES ASSUME NEW tvs \in Seq(Instants) PROVE TimesFollow(tvs)
    BY DEF Instants
  <1> DEFINE Clocked == {k \in 1..Len(tvs) : tvs[k][1] # 0}
             f == CHOOSE k \in Clocked : \A j \in Clocked : k <= j
             pts == [k \in 1..Len(tvs) |-> Stamp(tvs, k)]
             After == (f + 1)..Len(tvs)
             e(i) == Micros(tvs[i]) - Micros(tvs[f])
  <1> SUFFICES ASSUME Clocked # {}
               PROVE  /\ \A i \in 1..f : pts[i] = (40 * i) % UIntRange
                      /\ \A i \in After : Tells(pts[i], e(i))
                      /\ \A i, j \in After :
                            0 <= e(i) /\ e(i) <= e(j) /\ e(j) < 1000 * UIntRange
                               => pts[i] <= pts[j]
                      /\ \A i \in After :
                            e(i) <= -1000 /\ e(i) >= -1000 * UIntRange
                               => 1000 * (pts[i] - UIntRange) - e(i) \in 0..999
    BY DEF TimesFollow
  <1>1. f \in Clocked /\ \A j \in Clocked : f <= j
    <2>1. Clocked \in SUBSET Nat
      BY LenProperties
    <2>2. \E k \in Clocked : \A j \in Clocked : k <= j
      BY <2>1, Least
    <2> QED
      BY <2>2
  <1>2. Len(tvs) \in Nat /\ \A i \in 1..Len(tvs) : tvs[i] \in Instants
    BY LenProperties, ElementOfSeq
  <1>3. f \in 1..Len(tvs) /\ tvs[f][1] # 0 /\ \A i \in 1..(f - 1) : tvs[i][1] = 0
    <2>1. f \in 1..Len(tvs) /\ tvs[f][1] # 0
      BY <1>1
    <2>2. ASSUME NEW i \in 1..(f - 1), tvs[i][1] # 0 PROVE FALSE
      <3>1. i \in Clocked /\ ~(f <= i)
        BY <1>2, <2>1, <2>2
      <3> QED
        BY <1>1, <3>1
    <2> QED
      BY <2>1, <2>2
  <1>4. \A i \in 1..Len(tvs) : pts[i] = Count(tvs, i) % UIntRange
    BY DEF Stamp, Count
  <1>5. \A i \in 1..Len(tvs) : Micros(tvs[i]) \in Int
    <2>1. \A tv \in Instants : Micros(tv) \in Int
      BY DEF Micros, Instants
    <2> QED
      BY <1>2, <2>1
  <1>6. \A i \in After : i \in 1..Len(tvs) /\ e(i) \in Int
    <2>1. \A i \in After : i \in 1..Len(tvs)
      BY <1>2, <1>3
    <2> HIDE DEF f, After
    <2> QED
      BY <1>3, <1>5, <2>1
  <1>7. \A i \in After : Count(tvs, i) = Over1000(e(i))
    <2> HIDE DEF f
    <2> QED
      BY <1>3, StampsAfter
  <1> HIDE DEF f, pts, e, Clocked
  <1>8. \A i \in 1..f : pts[i] = (40 * i) % UIntRange
    <2>1. ASSUME NEW i \in 1..(f - 1) PROVE Count(tvs, i) = 40 * i
      <3>1. i \in 0..Len(tvs) /\ \A j \in 1..i : tvs[j][1] = 0
        BY <1>2, <1>3
      <3> QED
        BY <3>1, StampsBefore
    <2>2. Count(tvs, f) = 40 * f
      BY <1>3, StampsAfter
    <2>3. \A i \in 1..f : i \in 1..Len(tvs) /\ (i = f \/ i \in 1..(f - 1))
      BY <1>2, <1>3
    <2> QED
      BY <1>4, <2>1, <2>2, <2>3
  <1> HIDE DEF After
  <1>9. \A i \in After : pts[i] = Over1000(e(i)) % UIntRange
    BY <1>4, <1>6, <1>7
  <1>10. \A i \in After : Tells(pts[i], e(i))
    BY <1>6, <1>9, Told
  <1>11. \A i, j \in After :
            0 <= e(i) /\ e(i) <= e(j) /\ e(j) < 1000 * UIntRange => pts[i] <= pts[j]
    BY <1>6, <1>9, InOrder
  <1>12. ASSUME NEW i \in After, e(i) <= -1000, e(i) >= -1000 * UIntRange
         PROVE  1000 * (pts[i] - UIntRange) - e(i) \in 0..999
    <2>1. e(i) \in Int /\ pts[i] = Over1000(e(i)) % UIntRange
      BY <1>6, <1>9
    <2>2. PICK us \in Int, a \in Int : us = e(i) /\ a = Over1000(us)
      BY <2>1, Thousandth
    <2>3. us <= -1000 /\ us >= -1000 * UIntRange
      BY <1>12, <2>2
    <2>4. a < 0 /\ 0 <= 1000 * a - us /\ 1000 * a - us <= 999
      BY <2>2, <2>3, TruncatedUp
    <2>5. a >= -UIntRange
      BY <2>3, <2>4, UIntRangeAssumption
    <2>6. a % UIntRange = a + UIntRange
      BY <2>4, <2>5, UIntRangeAssumption
    <2>7. 1000 * a - us \in 0..999
      BY <2>4
    <2>8. PICK p \in Int, n \in Int : p = pts[i] /\ n = UIntRange /\ p - n = a
      BY <2>1, <2>2, <2>6, UIntRangeAssumption
    <2>9. 1000 * (p - n) - us \in 0..999
      BY <2>7, <2>8
    <2> QED
      BY <2>2, <2>8, <2>9
  <1> QED
    BY <1>8, <1>10, <1>11, <1>12

-----------------------------------------------------------------------------
(* Patterns.                                                                *)

Flattens(f, s, X) == /\ f \in [0..Len(s) -> Seq(X)] /\ f[0] = <<>>
                     /\ \A i \in 1..Len(s) : f[i] = f[i - 1] \o s[i]

LEMMA FlattenUnrolls ==
    ASSUME NEW X, NEW s \in Seq(Seq(X))
    PROVE  \E f : Flattens(f, s, X) /\ FlattenSeq(s) = f[Len(s)]
  <1> DEFINE step == [i \in 1..Len(s) |-> [z \in Seq(X) |-> z \o s[i]]]
             G(g) == [i \in 1..Len(s) |-> IF i = 1 THEN s[i] ELSE g[i - 1] \o s[i]]
             fl == CHOOSE g : g = G(g)
  <1>0. Len(s) \in Nat /\ \A i \in 1..Len(s) : s[i] \in Seq(X)
    BY LenProperties, ElementOfSeq
  <1>1. <<>> \in Seq(X) /\ \A z \in Seq(X) : <<>> \o z = z
    BY EmptySeq, ConcatEmptySeq
  <1>2. step \in [1..Len(s) -> [Seq(X) -> Seq(X)]]
    BY <1>0, ConcatProperties
  <1>3. \A i \in 1..Len(s), z \in Seq(X) : step[i][z] = z \o s[i]
    OBVIOUS
  <1> HIDE DEF step
  <1>4. PICK f : Unrolls(f, Seq(X), <<>>, step, Len(s))
    BY <1>0, <1>1, <1>2, Unrolling
  <1>5. Flattens(f, s, X)
    <2>1. ASSUME NEW i \in 1..Len(s) PROVE f[i] = f[i - 1] \o s[i]
      <3>1. i - 1 \in 0..Len(s)
        BY <1>0
      <3>2. f[i - 1] \in Seq(X) /\ f[i] = step[i][f[i - 1]]
        BY <1>4, <3>1 DEF Unrolls
      <3> QED
        BY <1>3, <3>2
    <2> QED
      BY <1>4, <2>1 DEF Unrolls, Flattens
  <1>6. CASE Len(s) = 0
    <2>1. s = <<>>
      BY <1>6, EmptySeq
    <2> QED
      BY <1>5, <1>6, <2>1 DEF FlattenSeq, Flattens
  <1>7. CASE Len(s) # 0
    <2> DEFINE g == [i \in 1..Len(s) |-> f[i]]
               h == [i \in 0..Len(s) |-> IF i = 0 THEN <<>> ELSE fl[i]]
    <2>1. g = G(g)
      <3>1. ASSUME NEW i \in 1..Len(s)
            PROVE  f[i] = IF i = 1 THEN s[i] ELSE g[i - 1] \o s[i]
        <4>1. f[i] = f[i - 1] \o s[i] /\ s[i] \in Seq(X) /\ f[0] = <<>>
          BY <1>0, <1>5 DEF Flattens
        <4>2. CASE i = 1
          <5>1. f[i - 1] = <<>> /\ <<>> \o s[i] = s[i]
            BY <1>1, <4>1, <4>2
          <5> QED
            BY <4>1, <4>2, <5>1
        <4>3. CASE i # 1
          <5>1. i - 1 \in 1..Len(s)
            BY <1>0, <4>3
          <5> QED
            BY <4>1, <4>3, <5>1
        <4> QED
          BY <4>2, <4>3
      <3> QED
        BY <3>1
    <2> HIDE DEF g
    <2>2. fl = G(fl)
      BY <2>1
    <2>3. FlattenSeq(s) = fl[Len(s)]
      BY <1>7 DEF FlattenSeq
    <2> HIDE DEF fl
    <2>4. \A i \in 1..Len(s) : fl[i] = IF i = 1 THEN s[i] ELSE fl[i - 1] \o s[i]
      BY <2>2
    <2>5. h[0] = <<>> /\ DOMAIN h = 0..Len(s) /\ h = [i \in DOMAIN h |-> h[i]]
      BY <1>0
    <2>6. \A i \in 1..Len(s) : h[i] = fl[i]
      BY <1>0
    <2> HIDE DEF h
    <2>7. ASSUME NEW i \in 1..Len(s) PROVE h[i] = h[i - 1] \o s[i]
      <3>1. CASE i = 1
        <4>1. i - 1 = 0 /\ s[i] \in Seq(X) /\ h[i] = s[i]
          BY <1>0, <2>4, <2>6, <3>1
        <4>2. h[i - 1] = <<>>
          BY <2>5, <4>1
        <4> QED
          BY <1>1, <4>1, <4>2
      <3>2. CASE i # 1
        <4>1. i - 1 \in 1..Len(s)
          BY <1>0, <3>2
        <4> QED
          BY <2>4, <2>6, <3>2, <4>1
      <3> QED
        BY <3>1, <3>2
    <2>8. Unrolls(h, Seq(X), <<>>, step, Len(s))
      <3>1. \A i \in 1..Len(s) : h[i - 1] \in Seq(X) => h[i] = step[i][h[i - 1]]
        BY <1>3, <2>7
      <3> QED
        BY <1>0, <1>1, <1>2, <2>5, <3>1, Unrolled
    <2>9. Flattens(h, s, X)
      BY <2>7, <2>8 DEF Unrolls, Flattens
    <2>10. FlattenSeq(s) = h[Len(s)]
      BY <1>0, <1>7, <2>3, <2>6
    <2> QED
      BY <2>9, <2>10
  <1> QED
    BY <1>6, <1>7

LEMMA FlattenOne ==
    ASSUME NEW X, NEW s \in Seq(Seq(X)), NEW t \in Seq(Seq(X)), Len(t) = Len(s) + 1,
           \A i \in 1..Len(s) : t[i] = s[i]
    PROVE  FlattenSeq(t) = FlattenSeq(s) \o t[Len(s) + 1]
  <1>0. Len(s) \in Nat
    BY LenProperties
  <1>1. PICK f : Flattens(f, s, X) /\ FlattenSeq(s) = f[Len(s)]
    BY FlattenUnrolls
  <1>2. PICK g : Flattens(g, t, X) /\ FlattenSeq(t) = g[Len(t)]
    BY FlattenUnrolls
  <1> DEFINE S == {i \in Nat : i <= Len(s) => f[i] = g[i]}
  <1>3. 0 \in S
    BY <1>1, <1>2 DEF Flattens
  <1>4. ASSUME NEW i \in Nat, i \in S PROVE i + 1 \in S
    <2> SUFFICES ASSUME i + 1 <= Len(s) PROVE f[i + 1] = g[i + 1]
      OBVIOUS
    <2>1. i + 1 \in 1..Len(s) /\ i + 1 \in 1..Len(t) /\ (i + 1) - 1 = i /\ f[i] = g[i]
      BY <1>0, <1>4
    <2>2. f[i + 1] = f[i] \o s[i + 1] /\ g[i + 1] = g[i] \o t[i + 1]
      BY <1>1, <1>2, <2>1 DEF Flattens
    <2> QED
      BY <2>1, <2>2
  <1> HIDE DEF S
  <1>5. Nat \subseteq S
    BY <1>3, <1>4, Induction
  <1>6. f[Len(s)] = g[Len(s)]
    BY <1>0, <1>5 DEF S
  <1>7. Len(s) + 1 \in 1..Len(t) /\ (Len(s) + 1) - 1 = Len(s)
    BY <1>0
  <1>8. g[Len(s) + 1] = g[Len(s)] \o t[Len(s) + 1]
    BY <1>2, <1>7 DEF Flattens
  <1> QED
    BY <1>1, <1>2, <1>6, <1>8

LEMMA FlattenType ==
    ASSUME NEW X, NEW s \in Seq(Seq(X))
    PROVE  FlattenSeq(s) \in Seq(X) /\ (Len(s) = 0 => FlattenSeq(s) = <<>>)
  <1>1. PICK f : Flattens(f, s, X) /\ FlattenSeq(s) = f[Len(s)]
    BY FlattenUnrolls
  <1> QED
    BY <1>1, LenProperties DEF Flattens

(* The signs before the ith character are n.                                *)
SignsAre(p, i, n) == /\ n \in 0..(i - 1) /\ \A j \in (i - n)..(i - 1) : p[j] = "%"
                     /\ n = i - 1 \/ p[i - n - 1] # "%"

LEMMA SignsUnique ==
    ASSUME NEW p, NEW i \in Nat \ {0}, NEW n, NEW m, SignsAre(p, i, n), SignsAre(p, i, m)
    PROVE  n = m
  <1>1. ASSUME NEW a, NEW b, SignsAre(p, i, a), SignsAre(p, i, b), a < b PROVE FALSE
    <2>1. a \in Nat /\ b \in Nat /\ b <= i - 1 /\ a # i - 1
      BY <1>1 DEF SignsAre
    <2>2. i - a - 1 \in (i - b)..(i - 1)
      BY <1>1, <2>1
    <2> QED
      BY <1>1, <2>1, <2>2 DEF SignsAre
  <1>2. n \in Nat /\ m \in Nat
    BY DEF SignsAre
  <1> QED
    BY <1>1, <1>2

LEMMA SignsNext ==
    ASSUME NEW p, NEW i \in Nat \ {0}, NEW n, SignsAre(p, i, n)
    PROVE  SignsAre(p, i + 1, IF p[i] = "%" THEN n + 1 ELSE 0)
  <1>1. n \in Nat /\ n <= i - 1
    BY DEF SignsAre
  <1>2. CASE p[i] = "%"
    <2>1. n + 1 \in 0..((i + 1) - 1)
      BY <1>1
    <2>2. ASSUME NEW j \in ((i + 1) - (n + 1))..((i + 1) - 1) PROVE p[j] = "%"
      <3>1. j = i \/ j \in (i - n)..(i - 1)
        BY <1>1
      <3> QED
        BY <1>2, <3>1 DEF SignsAre
    <2>3. (i + 1) - (n + 1) - 1 = i - n - 1 /\ (n + 1 = (i + 1) - 1 <=> n = i - 1)
      BY <1>1
    <2>4. n = i - 1 \/ p[i - n - 1] # "%"
      BY DEF SignsAre
    <2>5. n + 1 = (i + 1) - 1 \/ p[(i + 1) - (n + 1) - 1] # "%"
      BY <2>3, <2>4
    <2> QED
      BY <1>2, <2>1, <2>2, <2>5 DEF SignsAre
  <1>3. CASE p[i] # "%"
    <2>1. 0 \in 0..((i + 1) - 1) /\ (i + 1) - 0 - 1 = i
      OBVIOUS
    <2>2. \A j \in ((i + 1) - 0)..((i + 1) - 1) : FALSE
      OBVIOUS
    <2> QED
      BY <1>3, <2>1, <2>2 DEF SignsAre
  <1> QED
    BY <1>2, <1>3

LEMMA SignsExist ==
    ASSUME NEW p, NEW i \in Nat \ {0}
    PROVE  SignsAre(p, i, Signs(p, i))
  <1> DEFINE S == {k \in Nat : \E n : SignsAre(p, k + 1, n)}
  <1>1. 0 \in S
    <2>1. SignsAre(p, 0 + 1, 0)
      BY DEF SignsAre
    <2> QED
      BY <2>1
  <1>2. ASSUME NEW k \in Nat, k \in S PROVE k + 1 \in S
    BY <1>2, SignsNext
  <1> HIDE DEF S
  <1>3. Nat \subseteq S
    BY <1>1, <1>2, Induction
  <1>4. PICK n : SignsAre(p, i, n)
    <2>1. i - 1 \in Nat /\ (i - 1) + 1 = i
      OBVIOUS
    <2> QED
      BY <1>3, <2>1 DEF S
  <1> QED
    BY <1>4 DEF SignsAre, Signs

\* Whether a character is a flag depends on the one before it alone.
LEMMA FlagNext ==
    ASSUME NEW p, NEW i \in Nat \ {0}
    PROVE  IsFlag(p, i + 1) <=> p[i] = "%" /\ ~IsFlag(p, i)
  <1>1. SignsAre(p, i, Signs(p, i)) /\ SignsAre(p, i + 1, Signs(p, i + 1))
    BY SignsExist
  <1>2. PICK n, m : n = Signs(p, i) /\ m = Signs(p, i + 1)
    OBVIOUS
  <1>3. SignsAre(p, i + 1, IF p[i] = "%" THEN n + 1 ELSE 0)
    BY <1>1, <1>2, SignsNext
  <1>4. m = IF p[i] = "%" THEN n + 1 ELSE 0
    BY <1>1, <1>2, <1>3, SignsUnique
  <1>5. n \in Nat
    BY <1>1, <1>2 DEF SignsAre
  <1> QED
    BY <1>2, <1>4, <1>5 DEF IsFlag

LEMMA FirstIsNoFlag == ASSUME NEW p PROVE ~IsFlag(p, 1)
  <1>1. SignsAre(p, 1, Signs(p, 1))
    BY SignsExist
  <1>2. PICK n : n = Signs(p, 1)
    OBVIOUS
  <1>3. n = 0
    BY <1>1, <1>2 DEF SignsAre
  <1> QED
    BY <1>2, <1>3 DEF IsFlag

-----------------------------------------------------------------------------
Marked(C) == ({"ch"} \X (C \cup {"%"})) \cup ({"flag"} \X Flags)
Formatters(C) == Marked(C) \cup ({"user"} \X Seq(C))
Readings(C) == [formatters : Seq(Formatters(C)), chars : Seq(C), flag : BOOLEAN]
NoScan == [formatters |-> <<>>, chars |-> <<>>, flag |-> FALSE]

\* The formatters, each a character or a flag.
All(fs) == FlattenSeq([i \in 1..Len(fs) |-> Exploded(fs[i])])
Chs(chars) == [i \in 1..Len(chars) |-> <<"ch", chars[i]>>]
Meant(p, n) == FlattenSeq([i \in 1..n |-> Meaning(p, i)])

LEMMA ExplodedType ==
    ASSUME NEW C, NEW f \in Formatters(C)
    PROVE  Exploded(f) \in Seq(Marked(C))
  <1>1. CASE f[1] = "user"
    <2>1. f[2] \in Seq(C)
      BY <1>1 DEF Formatters, Marked
    <2>2. Len(f[2]) \in Nat /\ \A i \in 1..Len(f[2]) : <<"ch", f[2][i]>> \in Marked(C)
      BY <2>1, LenProperties, ElementOfSeq DEF Marked
    <2>3. [i \in 1..Len(f[2]) |-> <<"ch", f[2][i]>>] \in Seq(Marked(C))
      BY <2>2
    <2> QED
      BY <1>1, <2>3 DEF Exploded
  <1>2. CASE f[1] # "user"
    <2>1. f \in Marked(C)
      BY <1>2 DEF Formatters
    <2> QED
      BY <1>2, <2>1 DEF Exploded
  <1> QED
    BY <1>1, <1>2

LEMMA ChsType ==
    ASSUME NEW C, NEW chars \in Seq(C)
    PROVE  Chs(chars) \in Seq(Marked(C)) /\ Len(Chs(chars)) = Len(chars)
  <1>1. Len(chars) \in Nat /\ \A i \in 1..Len(chars) : <<"ch", chars[i]>> \in Marked(C)
    BY LenProperties, ElementOfSeq DEF Marked
  <1> QED
    BY <1>1 DEF Chs

LEMMA Images ==
    ASSUME NEW C, NEW fs \in Seq(Formatters(C))
    PROVE  LET im == [i \in 1..Len(fs) |-> Exploded(fs[i])]
           IN  im \in Seq(Seq(Marked(C))) /\ Len(im) = Len(fs)
  <1>1. Len(fs) \in Nat /\ \A i \in 1..Len(fs) : Exploded(fs[i]) \in Seq(Marked(C))
    BY LenProperties, ElementOfSeq, ExplodedType
  <1> HIDE DEF Exploded
  <1> QED
    BY <1>1

LEMMA AllType ==
    ASSUME NEW C, NEW fs \in Seq(Formatters(C))
    PROVE  All(fs) \in Seq(Marked(C)) /\ (fs = <<>> => All(fs) = <<>>)
  <1> DEFINE im == [i \in 1..Len(fs) |-> Exploded(fs[i])]
  <1>1. im \in Seq(Seq(Marked(C))) /\ Len(im) = Len(fs) /\ All(fs) = FlattenSeq(im)
    BY Images DEF All
  <1> HIDE DEF im
  <1> QED
    BY <1>1, FlattenType

LEMMA AllAppend ==
    ASSUME NEW C, NEW fs \in Seq(Formatters(C)), NEW f \in Formatters(C)
    PROVE  All(Append(fs, f)) = All(fs) \o Exploded(f)
  <1> DEFINE im == [i \in 1..Len(fs) |-> Exploded(fs[i])]
             gs == Append(fs, f)
             jm == [i \in 1..Len(gs) |-> Exploded(gs[i])]
  <1>1. im \in Seq(Seq(Marked(C))) /\ Len(im) = Len(fs) /\ All(fs) = FlattenSeq(im)
    BY Images DEF All
  <1>2. /\ gs \in Seq(Formatters(C)) /\ Len(gs) = Len(fs) + 1 /\ gs[Len(fs) + 1] = f
        /\ Len(fs) \in Nat /\ \A i \in 1..Len(fs) : gs[i] = fs[i]
    BY AppendProperties, LenProperties
  <1>3. \A i \in 1..Len(fs) : im[i] = Exploded(fs[i])
    OBVIOUS
  <1> HIDE DEF im, gs
  <1>4. jm \in Seq(Seq(Marked(C))) /\ Len(jm) = Len(gs) /\ All(gs) = FlattenSeq(jm)
    BY <1>2, Images DEF All
  <1>5. \A i \in 1..Len(gs) : jm[i] = Exploded(gs[i])
    OBVIOUS
  <1> HIDE DEF jm
  <1>6. /\ \A i \in 1..Len(im) : jm[i] = im[i]
        /\ Len(jm) = Len(im) + 1 /\ jm[Len(im) + 1] = Exploded(f)
    BY <1>1, <1>2, <1>3, <1>4, <1>5
  <1>7. FlattenSeq(jm) = FlattenSeq(im) \o Exploded(f)
    BY <1>1, <1>4, <1>6, FlattenOne
  <1> QED
    BY <1>1, <1>4, <1>7 DEF gs

LEMMA AllUser ==
    ASSUME NEW C, NEW fs \in Seq(Formatters(C)), NEW chars \in Seq(C)
    PROVE  /\ fs \o user_chars(chars) \in Seq(Formatters(C))
           /\ All(fs \o user_chars(chars)) = All(fs) \o Chs(chars)
  <1>1. CASE chars = <<>>
    <2>1. user_chars(chars) = <<>> /\ fs \o <<>> = fs
      BY <1>1, ConcatEmptySeq DEF user_chars
    <2>2. Chs(chars) \in Seq(Marked(C)) /\ Len(Chs(chars)) = 0
      BY <1>1, ChsType, EmptySeq
    <2>3. Chs(chars) = <<>>
      BY <2>2, EmptySeq
    <2>4. All(fs) \o <<>> = All(fs)
      BY AllType, ConcatEmptySeq
    <2> QED
      BY <2>1, <2>3, <2>4
  <1>2. CASE chars # <<>>
    <2> DEFINE u == <<"user", chars>>
    <2>1. u \in Formatters(C) /\ Exploded(u) = Chs(chars) /\ user_chars(chars) = <<u>>
      BY <1>2 DEF Formatters, Exploded, Chs, user_chars
    <2> HIDE DEF u
    <2>2. fs \o <<u>> = Append(fs, u) /\ Append(fs, u) \in Seq(Formatters(C))
      BY <2>1, AppendIsConcat, AppendProperties
    <2> QED
      BY <2>1, <2>2, AllAppend
  <1> QED
    BY <1>1, <1>2

LEMMA Pair ==
    ASSUME NEW u, NEW v
    PROVE  <<u, v>> = <<u>> \o <<v>>
  <1> DEFINE s == <<u>> \o <<v>>
             t == <<u, v>>
  <1>1. /\ <<u>> \in Seq({u, v}) /\ Len(<<u>>) = 1 /\ <<u>>[1] = u
        /\ <<v>> \in Seq({u, v}) /\ Len(<<v>>) = 1 /\ <<v>>[1] = v
    OBVIOUS
  <1>2. t \in Seq({u, v}) /\ Len(t) = 2 /\ t[1] = u /\ t[2] = v
    OBVIOUS
  <1>3. s \in Seq({u, v}) /\ Len(s) = 2 /\ s[1] = u /\ s[2] = v
    BY <1>1, ConcatProperties
  <1> HIDE DEF s, t
  <1>4. \A i \in 1..2 : t[i] = s[i]
    BY <1>2, <1>3
  <1>5. t = s
    BY <1>2, <1>3, <1>4, SeqEqual
  <1> QED
    BY <1>5 DEF s, t

LEMMA AllFlag ==
    ASSUME NEW C, NEW fs \in Seq(Formatters(C)), NEW c \in C
    PROVE  /\ fs \o handle_flag(c) \in Seq(Formatters(C))
           /\ All(fs \o handle_flag(c)) = All(fs) \o handle_flag(c)
           /\ handle_flag(c) \in Seq(Marked(C))
  <1>1. CASE c \in Flags
    <2> DEFINE u == <<"flag", c>>
    <2>1. u \in Formatters(C) /\ u \in Marked(C) /\ Exploded(u) = <<u>> /\ handle_flag(c) = <<u>>
      BY <1>1 DEF Formatters, Marked, Exploded, handle_flag
    <2> HIDE DEF u
    <2>2. fs \o <<u>> = Append(fs, u) /\ Append(fs, u) \in Seq(Formatters(C))
      BY <2>1, AppendIsConcat, AppendProperties
    <2>3. <<u>> \in Seq(Marked(C))
      BY <2>1
    <2> QED
      BY <2>1, <2>2, <2>3, AllAppend
  <1>2. CASE c \notin Flags
    <2> DEFINE u == <<"ch", "%">>
               v == <<"ch", c>>
    <2>1. /\ u \in Formatters(C) /\ u \in Marked(C) /\ Exploded(u) = <<u>>
          /\ v \in Formatters(C) /\ v \in Marked(C) /\ Exploded(v) = <<v>>
          /\ handle_flag(c) = <<u, v>>
      BY <1>2 DEF Formatters, Marked, Exploded, handle_flag
    <2> HIDE DEF u, v
    <2>2. /\ <<u>> \in Seq(Marked(C)) /\ <<v>> \in Seq(Marked(C))
          /\ <<u>> \in Seq(Formatters(C)) /\ <<v>> \in Seq(Formatters(C))
      BY <2>1
    <2>3. <<u, v>> = <<u>> \o <<v>> /\ <<u>> \o <<v>> \in Seq(Marked(C))
      BY <2>2, Pair, ConcatProperties
    <2> DEFINE gs == Append(fs, u)
               hs == Append(gs, v)
    <2>4. /\ gs = fs \o <<u>> /\ gs \in Seq(Formatters(C))
          /\ All(gs) = All(fs) \o <<u>>
      BY <2>1, AppendIsConcat, AppendProperties, AllAppend
    <2> HIDE DEF gs
    <2>5. hs = gs \o <<v>> /\ hs \in Seq(Formatters(C))
      BY <2>1, <2>4, AppendIsConcat, AppendProperties
    <2>6. All(hs) = All(gs) \o <<v>>
      BY <2>1, <2>4, AllAppend
    <2> HIDE DEF hs
    <2>7. hs = fs \o (<<u>> \o <<v>>)
      BY <2>2, <2>4, <2>5, ConcatAssociative
    <2>8. PICK a \in Seq(Marked(C)) : a = All(fs)
      BY AllType
    <2>9. (a \o <<u>>) \o <<v>> = a \o (<<u>> \o <<v>>)
      BY <2>2, ConcatAssociative
    <2> QED
      BY <2>1, <2>3, <2>4, <2>5, <2>6, <2>7, <2>8, <2>9
  <1> QED
    BY <1>1, <1>2

LEMMA ReadsChar ==
    ASSUME NEW C, NEW c \in C, NEW sc \in Readings(C), ~sc.flag, c # "%"
    PROVE  Read(c, sc) = [formatters |-> sc.formatters, chars |-> Append(sc.chars, c),
                          flag |-> FALSE]
  <1> DEFINE cs == Append(sc.chars, c)
  <1>1. /\ sc = [formatters |-> sc.formatters, chars |-> sc.chars, flag |-> sc.flag]
        /\ sc.flag = FALSE
    BY DEF Readings
  <1>2. Read(c, sc) = [sc EXCEPT !.chars = cs]
    BY DEF Read
  <1> HIDE DEF cs
  <1>3. Read(c, sc) = [formatters |-> sc.formatters, chars |-> cs, flag |-> sc.flag]
    BY <1>1, <1>2
  <1> QED
    BY <1>1, <1>3 DEF cs

LEMMA Reads ==
    ASSUME NEW C, NEW c \in C, NEW sc \in Readings(C)
    PROVE  /\ Read(c, sc) \in Readings(C)
           /\ sc.flag =>
                 (/\ Read(c, sc).formatters = sc.formatters \o handle_flag(c)
                  /\ Read(c, sc).chars = sc.chars
                  /\ ~Read(c, sc).flag)
           /\ (~sc.flag /\ c = "%") =>
                 (/\ Read(c, sc).formatters = sc.formatters \o user_chars(sc.chars)
                  /\ Read(c, sc).chars = <<>>
                  /\ Read(c, sc).flag)
  <1>1. /\ sc.formatters \in Seq(Formatters(C)) /\ sc.chars \in Seq(C) /\ sc.flag \in BOOLEAN
        /\ sc = [formatters |-> sc.formatters, chars |-> sc.chars, flag |-> sc.flag]
    BY DEF Readings
  <1> DEFINE fs == sc.formatters \o handle_flag(c)
             gs == sc.formatters \o user_chars(sc.chars)
             cs == Append(sc.chars, c)
  <1>2. /\ fs \in Seq(Formatters(C)) /\ gs \in Seq(Formatters(C)) /\ cs \in Seq(C)
        /\ <<>> \in Seq(C)
    BY <1>1, AllFlag, AllUser, AppendProperties, EmptySeq
  <1>3. /\ sc.flag => Read(c, sc) = [sc EXCEPT !.formatters = fs, !.flag = FALSE]
        /\ ~sc.flag /\ c = "%" => Read(c, sc) = [formatters |-> gs, chars |-> <<>>, flag |-> TRUE]
    BY DEF Read
  <1> SUFFICES
        /\ Read(c, sc) \in Readings(C)
        /\ sc.flag =>
              Read(c, sc).formatters = fs /\ Read(c, sc).chars = sc.chars /\ ~Read(c, sc).flag
        /\ (~sc.flag /\ c = "%") =>
              Read(c, sc).formatters = gs /\ Read(c, sc).chars = <<>> /\ Read(c, sc).flag
    OBVIOUS
  <1> HIDE DEF fs, gs, cs
  <1>4. CASE sc.flag
    <2>1. Read(c, sc) = [formatters |-> fs, chars |-> sc.chars, flag |-> FALSE]
      BY <1>1, <1>3, <1>4
    <2> QED
      BY <1>1, <1>2, <1>4, <2>1 DEF Readings
  <1>5. CASE ~sc.flag /\ c = "%"
    <2>1. Read(c, sc) = [formatters |-> gs, chars |-> <<>>, flag |-> TRUE]
      BY <1>3, <1>5
    <2>2. Read(c, sc) \in Readings(C)
      BY <1>2, <2>1 DEF Readings
    <2> QED
      BY <1>5, <2>1, <2>2
  <1>6. CASE ~sc.flag /\ c # "%"
    <2>1. Read(c, sc) = [formatters |-> sc.formatters, chars |-> cs, flag |-> FALSE]
      BY <1>6, ReadsChar DEF cs
    <2>2. [formatters |-> sc.formatters, chars |-> cs, flag |-> FALSE] \in Readings(C)
      BY <1>1, <1>2 DEF Readings
    <2> QED
      BY <1>6, <2>1, <2>2
  <1> QED
    BY <1>1, <1>4, <1>5, <1>6

\* sc follows the scan of the pattern p.
Scanned(sc, p, C) == /\ sc \in [0..Len(p) -> Readings(C)] /\ sc[0] = NoScan
                     /\ \A i \in 1..Len(p) : sc[i] = Read(p[i], sc[i - 1])

LEMMA ScansFollow ==
    ASSUME NEW C, NEW p \in Seq(C)
    PROVE  Scanned(Scans(p), p, C)
  <1> DEFINE step == [i \in 1..Len(p) |-> [sc \in Readings(C) |-> Read(p[i], sc)]]
             G(f) == [n \in 0..Len(p) |-> IF n = 0 THEN NoScan ELSE Read(p[n], f[n - 1])]
             h == CHOOSE f : f = G(f)
  <1>0. Len(p) \in Nat /\ \A i \in 1..Len(p) : p[i] \in C
    BY LenProperties, ElementOfSeq
  <1>1. NoScan \in Readings(C)
    BY EmptySeq DEF NoScan, Readings
  <1>2. step \in [1..Len(p) -> [Readings(C) -> Readings(C)]]
    BY <1>0, Reads
  <1>3. \A i \in 1..Len(p), sc \in Readings(C) : step[i][sc] = Read(p[i], sc)
    OBVIOUS
  <1> HIDE DEF step
  <1>4. PICK f : Unrolls(f, Readings(C), NoScan, step, Len(p))
    BY <1>0, <1>1, <1>2, Unrolling
  <1>5. f = G(f)
    <2>1. ASSUME NEW i \in 0..Len(p)
          PROVE  f[i] = IF i = 0 THEN NoScan ELSE Read(p[i], f[i - 1])
      <3>1. CASE i = 0
        BY <1>4, <3>1 DEF Unrolls
      <3>2. CASE i # 0
        <4>1. i \in 1..Len(p) /\ i - 1 \in 0..Len(p)
          BY <1>0, <3>2
        <4>2. f[i - 1] \in Readings(C) /\ f[i] = step[i][f[i - 1]]
          BY <1>4, <4>1 DEF Unrolls
        <4> QED
          BY <1>3, <3>2, <4>1, <4>2
      <3> QED
        BY <3>1, <3>2
    <2>2. f \in [0..Len(p) -> Readings(C)]
      BY <1>4 DEF Unrolls
    <2> QED
      BY <2>1, <2>2
  <1>6. h = G(h)
    BY <1>5
  <1>7. Scans(p) = h
    BY DEF Scans, NoScan
  <1> HIDE DEF h
  <1>8. /\ DOMAIN h = 0..Len(p) /\ h = [i \in DOMAIN h |-> h[i]] /\ h[0] = NoScan
        /\ \A i \in 1..Len(p) : h[i] = Read(p[i], h[i - 1])
    <2>1. \A i \in 0..Len(p) : h[i] = IF i = 0 THEN NoScan ELSE Read(p[i], h[i - 1])
      BY <1>6
    <2>2. 0 \in 0..Len(p) /\ \A i \in 1..Len(p) : i \in 0..Len(p) /\ i # 0
      BY <1>0
    <2> QED
      BY <1>6, <2>1, <2>2
  <1>9. \A i \in 1..Len(p) : h[i - 1] \in Readings(C) => h[i] = step[i][h[i - 1]]
    BY <1>3, <1>8
  <1>10. Unrolls(h, Readings(C), NoScan, step, Len(p))
    BY <1>0, <1>1, <1>2, <1>8, <1>9, Unrolled
  <1> QED
    BY <1>7, <1>8, <1>10 DEF Scanned, Unrolls

LEMMA MeaningType ==
    ASSUME NEW C, NEW p, NEW i, p[i] \in C
    PROVE  Meaning(p, i) \in Seq(Marked(C))
  <1>1. CASE IsFlag(p, i)
    BY <1>1, AllFlag, EmptySeq DEF Meaning
  <1>2. CASE ~IsFlag(p, i) /\ p[i] = "%"
    <2>1. Meaning(p, i) = <<>>
      BY <1>2 DEF Meaning
    <2> QED
      BY <2>1, EmptySeq
  <1>3. CASE ~IsFlag(p, i) /\ p[i] # "%"
    <2>1. Meaning(p, i) = <<<<"ch", p[i]>>>>
      BY <1>3 DEF Meaning
    <2>2. <<"ch", p[i]>> \in Marked(C)
      BY DEF Marked
    <2> QED
      BY <2>1, <2>2
  <1> QED
    BY <1>1, <1>2, <1>3

LEMMA MeantNext ==
    ASSUME NEW C, NEW p, NEW n \in Nat, \A i \in 1..(n + 1) : p[i] \in C
    PROVE  /\ Meant(p, n + 1) = Meant(p, n) \o Meaning(p, n + 1)
           /\ Meant(p, n) \in Seq(Marked(C)) /\ Meaning(p, n + 1) \in Seq(Marked(C))
  <1> DEFINE im == [i \in 1..n |-> Meaning(p, i)]
             jm == [i \in 1..(n + 1) |-> Meaning(p, i)]
  <1>1. \A i \in 1..(n + 1) : Meaning(p, i) \in Seq(Marked(C))
    BY MeaningType
  <1>2. /\ im \in Seq(Seq(Marked(C))) /\ Len(im) = n
        /\ jm \in Seq(Seq(Marked(C))) /\ Len(jm) = n + 1
    BY <1>1
  <1>3. (\A i \in 1..n : jm[i] = im[i]) /\ jm[n + 1] = Meaning(p, n + 1)
    OBVIOUS
  <1>4. Meant(p, n) = FlattenSeq(im) /\ Meant(p, n + 1) = FlattenSeq(jm)
    BY DEF Meant
  <1> HIDE DEF im, jm
  <1>5. FlattenSeq(jm) = FlattenSeq(im) \o jm[n + 1] /\ FlattenSeq(im) \in Seq(Marked(C))
    BY <1>2, <1>3, FlattenOne, FlattenType
  <1> QED
    BY <1>1, <1>3, <1>4, <1>5

\* What has been read of the pattern after n characters.
ReadSoFar(p, n, sc) == /\ All(sc.formatters) \o Chs(sc.chars) = Meant(p, n)
                       /\ sc.flag <=> IsFlag(p, n + 1)
                       /\ sc.flag => sc.chars = <<>>

LEMMA NoChs == Chs(<<>>) = <<>>
  <1>1. <<>> \in Seq({}) /\ Len(<<>>) = 0
    BY EmptySeq
  <1>2. Chs(<<>>) \in Seq(Marked({})) /\ Len(Chs(<<>>)) = 0
    BY <1>1, ChsType
  <1> QED
    BY <1>2, EmptySeq

LEMMA ChsAppend ==
    ASSUME NEW C, NEW chars \in Seq(C), NEW c \in C
    PROVE  Chs(Append(chars, c)) = Chs(chars) \o <<<<"ch", c>>>>
  <1> DEFINE cs == Append(chars, c)
             e == <<"ch", c>>
  <1>1. /\ cs \in Seq(C) /\ Len(cs) = Len(chars) + 1 /\ cs[Len(chars) + 1] = c
        /\ Len(chars) \in Nat /\ \A i \in 1..Len(chars) : cs[i] = chars[i]
    BY AppendProperties, LenProperties
  <1>2. e \in Marked(C) /\ e = <<"ch", c>>
    BY DEF Marked
  <1> HIDE DEF cs, e
  <1>3. /\ Chs(chars) \in Seq(Marked(C)) /\ Len(Chs(chars)) = Len(chars)
        /\ Chs(cs) \in Seq(Marked(C)) /\ Len(Chs(cs)) = Len(chars) + 1
        /\ \A i \in 1..Len(chars) : Chs(chars)[i] = <<"ch", chars[i]>>
        /\ \A i \in 1..Len(cs) : Chs(cs)[i] = <<"ch", cs[i]>>
    BY <1>1, ChsType DEF Chs
  <1> DEFINE s == Append(Chs(chars), e)
  <1>4. /\ s \in Seq(Marked(C)) /\ Len(s) = Len(chars) + 1 /\ s[Len(chars) + 1] = e
        /\ \A i \in 1..Len(chars) : s[i] = Chs(chars)[i]
        /\ s = Chs(chars) \o <<e>>
    <2>1. PICK d \in Seq(Marked(C)) : d = Chs(chars)
      BY <1>3
    <2>2. /\ Append(d, e) \in Seq(Marked(C)) /\ Len(Append(d, e)) = Len(d) + 1
          /\ Append(d, e)[Len(d) + 1] = e /\ \A i \in 1..Len(d) : Append(d, e)[i] = d[i]
          /\ Append(d, e) = d \o <<e>>
      BY <1>2, AppendProperties, AppendIsConcat
    <2> QED
      BY <1>3, <2>1, <2>2
  <1> HIDE DEF s
  <1>5. ASSUME NEW i \in 1..Len(s) PROVE Chs(cs)[i] = s[i]
    <2>1. i \in 1..Len(cs) /\ (i \in 1..Len(chars) \/ i = Len(chars) + 1)
      BY <1>1, <1>4
    <2> QED
      BY <1>1, <1>2, <1>3, <1>4, <2>1
  <1>6. Chs(cs) = s
    BY <1>3, <1>4, <1>5, SeqEqual
  <1> QED
    BY <1>2, <1>4, <1>6 DEF cs

LEMMA ReadOn ==
    ASSUME NEW C, NEW p, NEW n \in Nat, \A i \in 1..(n + 1) : p[i] \in C,
           NEW sc \in Readings(C), ReadSoFar(p, n, sc)
    PROVE  ReadSoFar(p, n + 1, Read(p[n + 1], sc))
  <1> DEFINE c == p[n + 1]
             tc == Read(c, sc)
             a == All(sc.formatters)
             u == Chs(sc.chars)
             m == Meaning(p, n + 1)
             fs == sc.formatters
             chars == sc.chars
  <1>1. /\ c \in C /\ fs \in Seq(Formatters(C)) /\ chars \in Seq(C)
        /\ a = All(fs) /\ u = Chs(chars)
    BY DEF Readings
  <1>2. /\ Meant(p, n + 1) = Meant(p, n) \o m /\ m \in Seq(Marked(C))
        /\ Meant(p, n) \in Seq(Marked(C)) /\ a \in Seq(Marked(C)) /\ u \in Seq(Marked(C))
    BY <1>1, MeantNext, AllType, ChsType
  <1>3. /\ a \o u = Meant(p, n) /\ (sc.flag <=> IsFlag(p, n + 1))
        /\ sc.flag => chars = <<>>
    BY DEF ReadSoFar
  <1>4. IsFlag(p, (n + 1) + 1) <=> c = "%" /\ ~IsFlag(p, n + 1)
    BY FlagNext
  <1>5. m = IF sc.flag THEN handle_flag(c) ELSE IF c = "%" THEN <<>> ELSE <<<<"ch", c>>>>
    BY <1>3 DEF Meaning
  <1>6. /\ sc.flag => (tc.formatters = fs \o handle_flag(c) /\ tc.chars = chars /\ ~tc.flag)
        /\ (~sc.flag /\ c = "%") =>
              (tc.formatters = fs \o user_chars(chars) /\ tc.chars = <<>> /\ tc.flag)
        /\ (~sc.flag /\ c # "%") =>
              (tc.formatters = fs /\ tc.chars = Append(chars, c) /\ ~tc.flag)
    <2>1. c \in C /\ sc \in Readings(C)
      BY <1>1
    <2> HIDE DEF c
    <2>2. sc.flag => /\ tc.formatters = fs \o handle_flag(c)
                     /\ tc.chars = chars /\ ~tc.flag
      BY <2>1, Reads
    <2>3. ~sc.flag /\ c = "%" => /\ tc.formatters = fs \o user_chars(chars)
                                 /\ tc.chars = <<>> /\ tc.flag
      BY <2>1, Reads
    <2>4. ~sc.flag /\ c # "%" =>
             tc = [formatters |-> fs, chars |-> Append(chars, c), flag |-> FALSE]
      BY <2>1, ReadsChar
    <2> HIDE DEF tc, fs, chars
    <2> QED
      BY <2>2, <2>3, <2>4
  <1>7. ASSUME All(tc.formatters) \o Chs(tc.chars) = Meant(p, n) \o m,
                tc.flag <=> c = "%" /\ ~sc.flag, tc.flag => tc.chars = <<>>
         PROVE  ReadSoFar(p, n + 1, tc)
    BY <1>2, <1>3, <1>4, <1>7 DEF ReadSoFar
  <1> SUFFICES ReadSoFar(p, n + 1, tc)
    OBVIOUS
  <1> HIDE DEF tc, c, a, u, m, fs, chars
  <1>8. \A s \in Seq(Marked(C)) : s \o <<>> = s
    BY ConcatEmptySeq
  <1>9. CASE sc.flag
    <2>1. tc.formatters = fs \o handle_flag(c) /\ tc.chars = chars /\ ~tc.flag
      BY <1>9, <1>6
    <2>2. chars = <<>> /\ Chs(<<>>) = <<>> /\ u = <<>> /\ m = handle_flag(c)
      BY <1>1, <1>3, <1>9, <1>5, NoChs
    <2>3. All(tc.formatters) = a \o m
      BY <1>1, <2>1, <2>2, AllFlag
    <2>4. a \o m \in Seq(Marked(C)) /\ a = Meant(p, n)
      BY <1>2, <1>3, <1>8, <2>2, ConcatProperties
    <2>5. All(tc.formatters) \o Chs(tc.chars) = Meant(p, n) \o m
      BY <1>8, <2>1, <2>2, <2>3, <2>4
    <2> QED
      BY <1>9, <1>7, <2>1, <2>5
  <1>10. CASE ~sc.flag /\ c = "%"
    <2>1. tc.formatters = fs \o user_chars(chars) /\ tc.chars = <<>> /\ tc.flag
      BY <1>10, <1>6
    <2>2. m = <<>> /\ Chs(tc.chars) = <<>>
      BY <1>10, <1>5, <2>1, NoChs
    <2>3. All(tc.formatters) = a \o u
      BY <1>1, <2>1, AllUser
    <2>4. All(tc.formatters) \o Chs(tc.chars) = Meant(p, n) \o m
      BY <1>2, <1>3, <1>8, <2>2, <2>3
    <2> QED
      BY <1>10, <1>7, <2>1, <2>4
  <1>11. CASE ~sc.flag /\ c # "%"
    <2>1. tc.formatters = fs /\ tc.chars = Append(chars, c) /\ ~tc.flag
      BY <1>11, <1>6
    <2>2. m = <<<<"ch", c>>>>
      BY <1>11, <1>5
    <2>3. Chs(tc.chars) = u \o m
      BY <1>1, <2>1, <2>2, ChsAppend
    <2>4. a \o (u \o m) = (a \o u) \o m
      <3>1. a \in Seq(Marked(C)) /\ u \in Seq(Marked(C)) /\ m \in Seq(Marked(C))
        BY <1>2
      <3> QED
        BY <3>1, ConcatAssociative
    <2>5. All(tc.formatters) \o Chs(tc.chars) = Meant(p, n) \o m
      BY <1>1, <1>3, <2>1, <2>3, <2>4
    <2> QED
      BY <1>11, <1>7, <2>1, <2>5
  <1>12. sc.flag \in BOOLEAN
    BY DEF Readings
  <1> QED
    BY <1>9, <1>10, <1>11, <1>12

LEMMA Compiled ==
    ASSUME NEW C
    PROVE  \A pattern \in Seq(C) : FlagsFound(pattern)
  <1> SUFFICES ASSUME NEW p \in Seq(C) PROVE FlagsFound(p)
    OBVIOUS
  <1> DEFINE sc == Scans(p)
             S == {n \in Nat : n <= Len(p) => ReadSoFar(p, n, sc[n])}
  <1>0. Len(p) \in Nat /\ (\A i \in 1..Len(p) : p[i] \in C) /\ Scanned(sc, p, C)
    BY LenProperties, ElementOfSeq, ScansFollow
  <1>1. compile_pattern(p) = sc[Len(p)].formatters \o user_chars(sc[Len(p)].chars)
    BY DEF compile_pattern
  <1> HIDE DEF sc
  <1>2. 0 \in S
    <2>1. sc[0] = NoScan
      BY <1>0 DEF Scanned
    <2>2. All(<<>>) = <<>> /\ Chs(<<>>) = <<>>
      BY AllType, EmptySeq, NoChs
    <2>3. Meant(p, 0) = <<>>
      <3>1. [i \in 1..0 |-> Meaning(p, i)] \in Seq(Seq(C))
        OBVIOUS
      <3>2. Len([i \in 1..0 |-> Meaning(p, i)]) = 0
        OBVIOUS
      <3> QED
        BY <3>1, <3>2, FlattenType DEF Meant
    <2>4. <<>> \o <<>> = <<>>
      BY EmptySeq, ConcatEmptySeq
    <2>5. ~IsFlag(p, 0 + 1)
      BY FirstIsNoFlag
    <2>6. sc[0].formatters = <<>> /\ sc[0].chars = <<>> /\ ~sc[0].flag
      BY <2>1 DEF NoScan
    <2>7. ReadSoFar(p, 0, sc[0])
      BY <2>2, <2>3, <2>4, <2>5, <2>6 DEF ReadSoFar
    <2> QED
      BY <2>7
  <1>3. ASSUME NEW n \in Nat, n \in S PROVE n + 1 \in S
    <2> SUFFICES ASSUME n + 1 <= Len(p) PROVE ReadSoFar(p, n + 1, sc[n + 1])
      OBVIOUS
    <2>1. n + 1 \in 1..Len(p) /\ (n + 1) - 1 = n /\ n \in 0..Len(p) /\ n <= Len(p)
      BY <1>0
    <2>2. sc[n] \in Readings(C) /\ sc[n + 1] = Read(p[n + 1], sc[n])
      BY <1>0, <2>1 DEF Scanned
    <2>3. ReadSoFar(p, n, sc[n])
      BY <1>3, <2>1
    <2>4. \A i \in 1..(n + 1) : p[i] \in C
      BY <1>0
    <2> QED
      BY <2>2, <2>3, <2>4, ReadOn
  <1> HIDE DEF S
  <1>4. Nat \subseteq S
    BY <1>2, <1>3, Induction
  <1>5. ReadSoFar(p, Len(p), sc[Len(p)])
    BY <1>0, <1>4 DEF S
  <1>6. sc[Len(p)] \in Readings(C)
    BY <1>0 DEF Scanned
  <1>7. All(compile_pattern(p)) = Meant(p, Len(p))
    BY <1>1, <1>5, <1>6, AllUser DEF ReadSoFar, Readings
  <1> QED
    BY <1>7 DEF FlagsFound, All, Meant

-----------------------------------------------------------------------------
(* A search that ends at some places and goes on further up from the others *)
(* is defined.                                                              *)
Searches(f, S, Ends, found, next, N) ==
    /\ f \in [0..N -> S]
    /\ \A i \in 0..N : f[i] = IF i \in Ends THEN found[i] ELSE f[next[i]]

LEMMA Searching ==
    ASSUME NEW N \in Nat, NEW S, NEW Ends \in SUBSET (0..N), NEW found \in [0..N -> S],
           NEW next \in [0..N -> Int], \A i \in 0..N : i \notin Ends => next[i] \in (i + 1)..N
    PROVE  \E f : Searches(f, S, Ends, found, next, N)
  <1> DEFINE Is(f, m) == /\ f \in [m..N -> S]
                         /\ \A i \in m..N : f[i] = IF i \in Ends THEN found[i] ELSE f[next[i]]
             T == {k \in Nat : k <= N => \E f : Is(f, N - k)}
  <1>1. 0 \in T
    <2> DEFINE f == [i \in N..N |-> found[i]]
    <2>1. N \in 0..N /\ N \in Ends /\ \A i \in N..N : i = N
      OBVIOUS
    <2>2. Is(f, N)
      BY <2>1
    <2>3. N - 0 = N
      OBVIOUS
    <2> HIDE DEF f
    <2>4. Is(f, N - 0)
      BY <2>2, <2>3
    <2> QED
      BY <2>4
  <1>2. ASSUME NEW k \in Nat, k \in T PROVE k + 1 \in T
    <2> SUFFICES ASSUME k + 1 <= N PROVE \E f : Is(f, N - (k + 1))
      OBVIOUS
    <2> DEFINE m == N - (k + 1)
    <2>1. m \in 0..N /\ m + 1 = N - k
      OBVIOUS
    <2> HIDE DEF m
    <2>2. PICK f : Is(f, m + 1)
      BY <1>2, <2>1
    <2> DEFINE v == IF m \in Ends THEN found[m] ELSE f[next[m]]
               g == [i \in m..N |-> IF i = m THEN v ELSE f[i]]
    <2>3. v \in S
      BY <2>1, <2>2
    <2>4. g \in [m..N -> S]
      BY <2>1, <2>2, <2>3
    <2>5. g[m] = v /\ \A i \in (m + 1)..N : g[i] = f[i]
      BY <2>1
    <2>6. \A i \in m..N : i \notin Ends => next[i] \in (m + 1)..N
      BY <2>1
    <2> HIDE DEF g, v
    <2>7. ASSUME NEW i \in m..N PROVE g[i] = IF i \in Ends THEN found[i] ELSE g[next[i]]
      <3>1. CASE i = m
        BY <2>5, <2>6, <3>1 DEF v
      <3>2. CASE i # m
        <4>1. i \in (m + 1)..N
          BY <2>1, <3>2
        <4> QED
          BY <2>2, <2>5, <2>6, <4>1
      <3> QED
        BY <3>1, <3>2
    <2>8. Is(g, m)
      BY <2>4, <2>7
    <2> QED
      BY <2>8 DEF m
  <1> HIDE DEF T
  <1>3. N \in T
    BY <1>1, <1>2, Induction
  <1>4. \E f : Is(f, 0)
    <2>1. N - N = 0 /\ N <= N
      OBVIOUS
    <2>2. PICK f : Is(f, N - N)
      BY <1>3, <2>1 DEF T
    <2> QED
      BY <2>1, <2>2
  <1> QED
    BY <1>4 DEF Searches

-----------------------------------------------------------------------------
(* NAL units.                                                               *)

LEMMA MatchType ==
    ASSUME NEW i \in Nat
    PROVE  Match(i) \in [code : {0, 3, 4}, next : (i + 1)..(i + 4)]
  <1>1. CASE Byte(i) # 0
    <2>1. Match(i) = [code |-> 0, next |-> i + 1]
      BY <1>1 DEF Match
    <2> QED
      BY <2>1
  <1>2. CASE Byte(i) = 0 /\ Byte(i + 1) # 0
    <2>1. Match(i) = [code |-> 0, next |-> i + 2]
      BY <1>2 DEF Match
    <2> QED
      BY <2>1
  <1>3. CASE Byte(i) = 0 /\ Byte(i + 1) = 0 /\ Byte(i + 2) = 1
    <2>1. Match(i) = [code |-> 3, next |-> i + 3]
      BY <1>3 DEF Match
    <2> QED
      BY <2>1
  <1>4. CASE Byte(i) = 0 /\ Byte(i + 1) = 0 /\ Byte(i + 2) \notin 0..1
    <2>1. Match(i) = [code |-> 0, next |-> i + 3]
      BY <1>4 DEF Match
    <2> QED
      BY <2>1
  <1>5. CASE Byte(i) = 0 /\ Byte(i + 1) = 0 /\ Byte(i + 2) = 0
    <2>1. Match(i) = [code |-> IF Byte(i + 3) = 1 THEN 4 ELSE 0, next |-> i + 4]
      BY <1>5 DEF Match
    <2> QED
      BY <2>1
  <1> QED
    BY <1>1, <1>2, <1>3, <1>4, <1>5

LEMMA SearchGoesOn ==
    ASSUME len \in Nat, NEW i \in 0..(len + 4)
    PROVE  Search[i] = IF i >= len THEN [code |-> 0, next |-> i]
                       ELSE IF Match(i).code # 0 THEN Match(i) ELSE Search[Match(i).next]
  <1> DEFINE N == len + 4
             G(g) == [j \in 0..N |-> IF j >= len THEN [code |-> 0, next |-> j]
                                    ELSE IF Match(j).code # 0 THEN Match(j)
                                         ELSE g[Match(j).next]]
             h == CHOOSE g : g = G(g)
             S == [code : {0, 3, 4}, next : Nat]
             Ends == {j \in 0..N : j >= len \/ Match(j).code # 0}
             found == [j \in 0..N |-> IF j >= len THEN [code |-> 0, next |-> j] ELSE Match(j)]
             next == [j \in 0..N |-> Match(j).next]
  <1>1. \A j \in 0..N : Match(j) \in S /\ Match(j).next \in (j + 1)..(j + 4)
    <2>1. \A j \in 0..N : Match(j) \in [code : {0, 3, 4}, next : (j + 1)..(j + 4)]
      BY MatchType
    <2> QED
      BY <2>1
  <1>2. N \in Nat /\ Ends \in SUBSET (0..N)
    OBVIOUS
  <1>3. found \in [0..N -> S]
    <2>1. \A j \in 0..N : [code |-> 0, next |-> j] \in S
      OBVIOUS
    <2> QED
      BY <1>1, <2>1
  <1>4. next \in [0..N -> Int] /\ \A j \in 0..N : j \notin Ends => next[j] \in (j + 1)..N
    BY <1>1
  <1>5. \E f : Searches(f, S, Ends, found, next, N)
    <2> SUFFICES \E f : Searches(f, S, Ends, found, next, N)
      OBVIOUS
    <2> HIDE DEF N, S, Ends, found, next
    <2> QED
      BY <1>2, <1>3, <1>4, Searching
  <1>6. PICK f : Searches(f, S, Ends, found, next, N)
    BY <1>5
  <1>7. f = G(f)
    <2>1. /\ f \in [0..N -> S]
          /\ \A j \in 0..N : f[j] = IF j \in Ends THEN found[j] ELSE f[next[j]]
      BY <1>6 DEF Searches
    <2> QED
      BY <2>1
  <1>8. h = G(h)
    BY <1>7
  <1>9. Search = h
    BY DEF Search
  <1> HIDE DEF h
  <1> QED
    BY <1>8, <1>9

Octets == 0..255
WholeOf(u) == <<96 + u.type>> \o u.body
\* The bytes of the first k units, and where the kth one begins.
Laid(us, k) == FlattenSeq([j \in 1..k |-> Bytes(us[j])])
Begin(us, k) == Len(Laid(us, k - 1)) + us[k].zeros + 1

LEMMA UnitType ==
    ASSUME NEW u \in Unit
    PROVE  /\ u.zeros \in {2, 3} /\ u.type \in 0..31 /\ u.body \in Seq(Octets)
           /\ u.body \in Bodies /\ Len(u.body) \in Nat
           /\ \A i \in 1..Len(u.body) : u.body[i] \in Octets
  <1>1. u.zeros \in Zeros /\ u.type \in Types /\ u.body \in Bodies
    BY DEF Unit
  <1>2. u.zeros \in {2, 3} /\ u.type \in 0..31 /\ u.body \in Seq(Octets)
    BY <1>1, TypesAssumption, BodiesAssumption DEF Octets
  <1> QED
    BY <1>1, <1>2, LenProperties, ElementOfSeq

LEMMA Joined ==
    ASSUME NEW S, NEW a \in Seq(S), NEW b \in Seq(S)
    PROVE  /\ a \o b \in Seq(S) /\ Len(a \o b) = Len(a) + Len(b)
           /\ \A i \in 1..Len(a) : (a \o b)[i] = a[i]
           /\ \A i \in 1..Len(b) : (a \o b)[Len(a) + i] = b[i]
  <1>1. Len(a) \in Nat /\ Len(b) \in Nat
    BY LenProperties
  <1>2. /\ a \o b \in Seq(S) /\ Len(a \o b) = Len(a) + Len(b)
        /\ \A i \in 1..(Len(a) + Len(b)) :
              (a \o b)[i] = IF i <= Len(a) THEN a[i] ELSE b[i - Len(a)]
    BY ConcatProperties
  <1> DEFINE s == a \o b
  <1> HIDE DEF s
  <1>3. ASSUME NEW i \in 1..Len(a) PROVE (a \o b)[i] = a[i]
    <2>1. i \in 1..(Len(a) + Len(b)) /\ i <= Len(a)
      BY <1>1
    <2> QED
      BY <1>2, <2>1
  <1>4. ASSUME NEW i \in 1..Len(b) PROVE (a \o b)[Len(a) + i] = b[i]
    <2>1. /\ Len(a) + i \in 1..(Len(a) + Len(b)) /\ ~(Len(a) + i <= Len(a))
          /\ (Len(a) + i) - Len(a) = i
      BY <1>1
    <2> QED
      BY <1>2, <2>1
  <1> QED
    BY <1>2, <1>3, <1>4

LEMMA Headed ==
    ASSUME NEW t \in Octets, NEW b \in Seq(Octets)
    PROVE  /\ <<t>> \o b \in Seq(Octets) /\ Len(<<t>> \o b) = Len(b) + 1
           /\ (<<t>> \o b)[1] = t
           /\ \A i \in 1..Len(b) : (<<t>> \o b)[i + 1] = b[i]
  <1> DEFINE h == <<t>>
             w == h \o b
  <1>0. h \in Seq(Octets)
    OBVIOUS
  <1>1. Len(h) = 1 /\ h[1] = t /\ Len(b) \in Nat
    BY LenProperties
  <1> SUFFICES /\ w \in Seq(Octets) /\ Len(w) = Len(b) + 1 /\ w[1] = t
               /\ \A i \in 1..Len(b) : w[i + 1] = b[i]
    OBVIOUS
  <1> HIDE DEF h
  <1>2. /\ w \in Seq(Octets) /\ Len(w) = Len(h) + Len(b)
        /\ \A i \in 1..Len(h) : w[i] = h[i]
        /\ \A i \in 1..Len(b) : w[Len(h) + i] = b[i]
    BY <1>0, Joined
  <1> HIDE DEF w
  <1>3. \A i \in 1..Len(b) : Len(h) + i = i + 1
    BY <1>1
  <1> QED
    BY <1>1, <1>2, <1>3

Code(n, t, b) == [i \in 1..n |-> 0] \o <<1, t>> \o b

LEMMA Coded ==
    ASSUME NEW n \in Nat, NEW t \in Octets, NEW b \in Seq(Octets)
    PROVE  /\ Code(n, t, b) \in Seq(Octets) /\ Len(Code(n, t, b)) = n + 2 + Len(b)
           /\ \A i \in 1..n : Code(n, t, b)[i] = 0
           /\ Code(n, t, b)[n + 1] = 1 /\ Code(n, t, b)[n + 2] = t
           /\ \A i \in 1..Len(b) : Code(n, t, b)[n + 2 + i] = b[i]
  <1> DEFINE s == Code(n, t, b)
             z == [i \in 1..n |-> 0]
             o == <<1, t>>
             zo == z \o o
  <1>1. 0 \in Octets /\ 1 \in Octets /\ Len(b) \in Nat
    BY LenProperties DEF Octets
  <1>2. z \in Seq(Octets) /\ o \in Seq(Octets) /\ s = zo \o b
    BY <1>1 DEF Code
  <1>3. /\ Len(z) = n /\ \A i \in 1..n : z[i] = 0
        /\ Len(o) = 2 /\ o[1] = 1 /\ o[2] = t
    BY <1>1
  <1> HIDE DEF z, o, s
  <1>4. zo \in Seq(Octets)
    BY <1>2, Joined
  <1>5. /\ Len(zo) = Len(z) + Len(o)
        /\ \A i \in 1..Len(z) : zo[i] = z[i]
        /\ \A i \in 1..Len(o) : zo[Len(z) + i] = o[i]
    BY <1>2, Joined
  <1> HIDE DEF zo
  <1>6. /\ s \in Seq(Octets) /\ Len(s) = Len(zo) + Len(b)
        /\ \A i \in 1..Len(zo) : s[i] = zo[i]
        /\ \A i \in 1..Len(b) : s[Len(zo) + i] = b[i]
    <2>1. /\ zo \o b \in Seq(Octets) /\ Len(zo \o b) = Len(zo) + Len(b)
          /\ \A i \in 1..Len(zo) : (zo \o b)[i] = zo[i]
          /\ \A i \in 1..Len(b) : (zo \o b)[Len(zo) + i] = b[i]
      BY <1>4, Joined
    <2> QED
      BY <1>2, <2>1
  <1>7. /\ Len(zo) = n + 2 /\ zo[n + 1] = 1 /\ zo[n + 2] = t
        /\ \A i \in 1..n : zo[i] = 0
    <2>1. 1 \in 1..Len(o) /\ 2 \in 1..Len(o)
      BY <1>3
    <2> QED
      BY <1>3, <1>5, <2>1
  <1>8. n + 1 \in 1..Len(zo) /\ n + 2 \in 1..Len(zo) /\ \A i \in 1..n : i \in 1..Len(zo)
    BY <1>7
  <1>9. /\ s[n + 1] = 1 /\ s[n + 2] = t /\ \A i \in 1..n : s[i] = 0
    BY <1>6, <1>7, <1>8
  <1> QED
    BY <1>6, <1>7, <1>9 DEF s

LEMMA UnitBytes ==
    ASSUME NEW u \in Unit
    PROVE  /\ WholeOf(u) \in Seq(Octets) /\ Len(WholeOf(u)) = Len(u.body) + 1
           /\ WholeOf(u)[1] = 96 + u.type
           /\ \A i \in 1..Len(u.body) : WholeOf(u)[i + 1] = u.body[i]
           /\ Bytes(u) \in Seq(Octets)
           /\ Len(Bytes(u)) = u.zeros + 1 + Len(WholeOf(u))
           /\ \A i \in 1..u.zeros : Bytes(u)[i] = 0
           /\ Bytes(u)[u.zeros + 1] = 1
           /\ \A i \in 1..Len(WholeOf(u)) : Bytes(u)[u.zeros + 1 + i] = WholeOf(u)[i]
  <1>1. PICK n \in Nat, t \in Octets, b \in Seq(Octets) :
           n = u.zeros /\ t = 96 + u.type /\ b = u.body
    <2>1. \A k \in 0..31 : 96 + k \in Octets
      BY DEF Octets
    <2> QED
      BY <2>1, UnitType
  <1> DEFINE w == <<t>> \o b
             s == Code(n, t, b)
  <1>2. WholeOf(u) = w /\ Bytes(u) = s
    BY <1>1 DEF WholeOf, Bytes, Code
  <1>3. /\ w \in Seq(Octets) /\ Len(w) = Len(b) + 1 /\ w[1] = t
        /\ \A i \in 1..Len(b) : w[i + 1] = b[i]
    BY Headed
  <1>4. /\ s \in Seq(Octets) /\ Len(s) = n + 2 + Len(b)
        /\ \A i \in 1..n : s[i] = 0
        /\ s[n + 1] = 1 /\ s[n + 2] = t
        /\ \A i \in 1..Len(b) : s[n + 2 + i] = b[i]
    BY Coded
  <1> HIDE DEF w, s
  <1>5. Len(b) \in Nat /\ Len(s) = n + 1 + Len(w)
    BY <1>3, <1>4, LenProperties
  <1>6. ASSUME NEW i \in 1..Len(w) PROVE s[n + 1 + i] = w[i]
    <2>1. CASE i = 1
      <3>1. n + 1 + i = n + 2
        BY <2>1
      <3> QED
        BY <1>3, <1>4, <2>1, <3>1
    <2>2. CASE i # 1
      <3>1. /\ i - 1 \in 1..Len(b) /\ (i - 1) + 1 = i /\ n + 2 + (i - 1) = n + 1 + i
        <4>1. Len(w) = Len(b) + 1 /\ Len(b) \in Nat
          BY <1>3, <1>5
        <4> QED
          BY <2>2, <4>1
      <3>2. s[n + 2 + (i - 1)] = b[i - 1] /\ w[(i - 1) + 1] = b[i - 1]
        BY <1>3, <1>4, <3>1
      <3> QED
        BY <3>1, <3>2
    <2> QED
      BY <2>1, <2>2
  <1> QED
    BY <1>1, <1>2, <1>3, <1>4, <1>5, <1>6

LEMMA LaidNext ==
    ASSUME NEW us \in Seq(Unit), NEW k \in 1..Len(us)
    PROVE  /\ Laid(us, k) = Laid(us, k - 1) \o Bytes(us[k])
           /\ Laid(us, k - 1) \in Seq(Octets) /\ Laid(us, k) \in Seq(Octets)
           /\ us[k] \in Unit
  <1> DEFINE s == [j \in 1..(k - 1) |-> Bytes(us[j])]
             t == [j \in 1..k |-> Bytes(us[j])]
  <1>1. \A j \in 1..Len(us) : us[j] \in Unit /\ Bytes(us[j]) \in Seq(Octets)
    BY ElementOfSeq, UnitBytes
  <1>2. Len(us) \in Nat
    BY LenProperties
  <1>3. /\ s \in Seq(Seq(Octets)) /\ Len(s) = k - 1
        /\ t \in Seq(Seq(Octets)) /\ Len(t) = k
    <2>1. k - 1 \in Nat /\ k \in Nat
      BY <1>2
    <2>2. \A j \in 1..(k - 1) : j \in 1..Len(us)
      BY <1>2
    <2>3. \A j \in 1..k : j \in 1..Len(us)
      BY <1>2
    <2> QED
      BY <1>1, <2>1, <2>2, <2>3
  <1>4. (\A j \in 1..(k - 1) : t[j] = s[j]) /\ t[k] = Bytes(us[k])
    BY <1>2
  <1>5. Laid(us, k - 1) = FlattenSeq(s) /\ Laid(us, k) = FlattenSeq(t)
    BY DEF Laid
  <1> HIDE DEF s, t
  <1>6. FlattenSeq(t) = FlattenSeq(s) \o t[k]
    <2>1. Len(t) = Len(s) + 1 /\ Len(s) + 1 = k
      BY <1>2, <1>3
    <2>2. \A j \in 1..Len(s) : t[j] = s[j]
      BY <1>3, <1>4
    <2> QED
      BY <1>3, <2>1, <2>2, FlattenOne
  <1>7. FlattenSeq(t) \in Seq(Octets) /\ FlattenSeq(s) \in Seq(Octets)
    BY <1>3, FlattenType
  <1> QED
    BY <1>1, <1>4, <1>5, <1>6, <1>7

LEMMA LaidGrows ==
    ASSUME NEW us \in Seq(Unit), NEW k \in 1..Len(us), NEW m \in k..Len(us)
    PROVE  /\ Len(Laid(us, k)) \in Nat /\ Len(Laid(us, m)) \in Nat
           /\ Len(Laid(us, k)) <= Len(Laid(us, m))
           /\ \A i \in 1..Len(Laid(us, k)) : Laid(us, m)[i] = Laid(us, k)[i]
  <1> DEFINE L(j) == Len(Laid(us, j))
             Grown(j) == /\ L(j) \in Nat /\ L(k) <= L(j)
                         /\ \A i \in 1..L(k) : Laid(us, j)[i] = Laid(us, k)[i]
             S == {d \in Nat : k + d <= Len(us) => Grown(k + d)}
  <1>0. Len(us) \in Nat
    BY LenProperties
  <1>1. L(k) \in Nat
    BY LaidNext, LenProperties
  <1>2. 0 \in S
    <2>1. k + 0 = k
      BY <1>0
    <2>2. Grown(k)
      BY <1>1
    <2> HIDE DEF Grown
    <2> QED
      BY <2>1, <2>2
  <1>3. ASSUME NEW d \in Nat, d \in S PROVE d + 1 \in S
    <2> SUFFICES ASSUME k + (d + 1) <= Len(us) PROVE Grown(k + (d + 1))
      OBVIOUS
    <2> DEFINE j == k + (d + 1)
    <2>1. j \in 1..Len(us) /\ j - 1 = k + d /\ k + d <= Len(us)
      BY <1>0
    <2>2. Grown(j - 1)
      BY <1>3, <2>1
    <2> SUFFICES Grown(j)
      OBVIOUS
    <2> HIDE DEF j
    <2> DEFINE a == Laid(us, j - 1)
               b == Bytes(us[j])
    <2>3. Laid(us, j) = a \o b /\ a \in Seq(Octets) /\ b \in Seq(Octets)
      BY <2>1, LaidNext, UnitBytes
    <2>4. L(j - 1) = Len(a)
      OBVIOUS
    <2> HIDE DEF a, b
    <2>5. /\ Len(a \o b) = Len(a) + Len(b) /\ Len(a) \in Nat /\ Len(b) \in Nat
          /\ \A i \in 1..Len(a) : (a \o b)[i] = a[i]
      BY <2>3, Joined, LenProperties
    <2>6. L(k) \in Nat /\ L(k) <= Len(a) /\ \A i \in 1..L(k) : a[i] = Laid(us, k)[i]
      BY <1>1, <2>2, <2>4 DEF a
    <2>7. \A i \in 1..L(k) : i \in 1..Len(a)
      BY <2>5, <2>6
    <2> QED
      BY <2>3, <2>5, <2>6, <2>7
  <1> HIDE DEF S
  <1>4. Nat \subseteq S
    BY <1>2, <1>3, Induction
  <1>5. Grown(m)
    <2>1. m - k \in Nat /\ k + (m - k) = m /\ m <= Len(us)
      BY <1>0
    <2>2. k + (m - k) <= Len(us) => Grown(k + (m - k))
      BY <1>4, <2>1 DEF S
    <2> HIDE DEF Grown
    <2> QED
      BY <2>1, <2>2
  <1> QED
    BY <1>1, <1>5

LEMMA BytesAt ==
    ASSUME units \in Seq(Unit), NEW k \in 1..Len(units), NEW i \in 1..Len(Bytes(units[k]))
    PROVE  /\ len \in Nat /\ Len(Laid(units, k - 1)) \in Nat
           /\ Len(Laid(units, k)) = Len(Laid(units, k - 1)) + Len(Bytes(units[k]))
           /\ Len(Laid(units, k)) <= len
           /\ Byte(Len(Laid(units, k - 1)) + i - 1) = Bytes(units[k])[i]
  <1> DEFINE a == Laid(units, k - 1)
             b == Bytes(units[k])
             n == Len(units)
  <1>1. /\ Laid(units, k) = a \o b /\ a \in Seq(Octets) /\ b \in Seq(Octets)
    BY LaidNext, UnitBytes
  <1>2. buff = Laid(units, n) /\ len = Len(Laid(units, n))
    BY DEF buff, len, Laid
  <1>3. n \in k..Len(units)
    BY LenProperties
  <1>4. /\ Len(Laid(units, k)) \in Nat /\ Len(Laid(units, n)) \in Nat
        /\ Len(Laid(units, k)) <= Len(Laid(units, n))
        /\ \A j \in 1..Len(Laid(units, k)) : Laid(units, n)[j] = Laid(units, k)[j]
    BY <1>3, LaidGrows
  <1> SUFFICES /\ len \in Nat /\ Len(a) \in Nat
               /\ Len(Laid(units, k)) = Len(a) + Len(b) /\ Len(Laid(units, k)) <= len
               /\ Byte(Len(a) + i - 1) = b[i]
    OBVIOUS
  <1>5. i \in 1..Len(b)
    OBVIOUS
  <1> HIDE DEF a, b, n
  <1>6. /\ Len(a \o b) = Len(a) + Len(b) /\ Len(a) \in Nat /\ Len(b) \in Nat
        /\ \A j \in 1..Len(b) : (a \o b)[Len(a) + j] = b[j]
    BY <1>1, Joined, LenProperties
  <1>7. Byte(Len(a) + i - 1) = b[i]
    <2>1. /\ Len(a) + i - 1 < len /\ (Len(a) + i - 1) + 1 = Len(a) + i
          /\ Len(a) + i \in 1..Len(Laid(units, k))
      BY <1>1, <1>2, <1>4, <1>5, <1>6
    <2>2. Byte(Len(a) + i - 1) = buff[(Len(a) + i - 1) + 1]
      BY <2>1 DEF Byte
    <2>3. buff[Len(a) + i] = Laid(units, k)[Len(a) + i]
      BY <1>2, <1>4, <2>1
    <2>4. Laid(units, k)[Len(a) + i] = b[i]
      BY <1>1, <1>5, <1>6
    <2> QED
      BY <2>1, <2>2, <2>3, <2>4
  <1> QED
    BY <1>1, <1>2, <1>4, <1>6, <1>7

\* The kth unit lies behind its start code at c, from s on, and ends before e.
Lies(k, u, c, s, e) ==
    /\ u \in Unit /\ c \in Nat /\ s = c + u.zeros + 1 /\ e = s + Len(WholeOf(u)) /\ e <= len
    /\ \A i \in c..(s - 2) : Byte(i) = 0
    /\ Byte(s - 1) = 1
    /\ \A i \in s..(e - 1) : Byte(i) = WholeOf(u)[i - s + 1]

LEMMA Layout ==
    ASSUME units \in Seq(Unit), NEW k \in 1..Len(units)
    PROVE  /\ Lies(k, units[k], Len(Laid(units, k - 1)), Begin(units, k), Len(Laid(units, k)))
           /\ len \in Nat
  <1> DEFINE u == units[k]
             c == Len(Laid(units, k - 1))
             s == Begin(units, k)
             e == Len(Laid(units, k))
             w == WholeOf(u)
             z == u.zeros
  <1>1. /\ u \in Unit /\ z \in {2, 3} /\ Len(w) \in Nat \ {0}
        /\ Len(Bytes(u)) = z + 1 + Len(w)
    <2>1. u \in Unit
      BY LaidNext
    <2>2. z \in {2, 3} /\ Len(u.body) \in Nat
      BY <2>1, UnitType
    <2>3. Len(w) = Len(u.body) + 1 /\ Len(Bytes(u)) = z + 1 + Len(w)
      BY <2>1, UnitBytes
    <2> QED
      BY <2>1, <2>2, <2>3
  <1>2. /\ \A i \in 1..z : Bytes(u)[i] = 0
        /\ Bytes(u)[z + 1] = 1
        /\ \A i \in 1..Len(w) : Bytes(u)[z + 1 + i] = w[i]
    BY <1>1, UnitBytes
  <1>3. s = c + z + 1
    BY DEF Begin
  <1>4. \A i \in 1..Len(Bytes(u)) :
           /\ len \in Nat /\ c \in Nat /\ e = c + Len(Bytes(u)) /\ e <= len
           /\ Byte(c + i - 1) = Bytes(u)[i]
    BY BytesAt
  <1> SUFFICES Lies(k, u, c, s, e) /\ len \in Nat
    OBVIOUS
  <1> HIDE DEF u, c, s, e, w, z
  <1>5. 1 \in 1..Len(Bytes(u))
    BY <1>1
  <1>6. /\ len \in Nat /\ c \in Nat /\ e = c + Len(Bytes(u)) /\ e <= len
    BY <1>4, <1>5
  <1>7. ASSUME NEW i \in c..(s - 2) PROVE Byte(i) = 0
    <2> DEFINE j == i - c + 1
    <2>1. j \in 1..z /\ j \in 1..Len(Bytes(u)) /\ c + j - 1 = i
      BY <1>1, <1>3, <1>6
    <2> HIDE DEF j
    <2> QED
      BY <1>2, <1>4, <2>1
  <1>8. Byte(s - 1) = 1
    <2> DEFINE j == z + 1
    <2>1. j \in 1..Len(Bytes(u)) /\ c + j - 1 = s - 1 /\ Bytes(u)[j] = 1
      BY <1>1, <1>2, <1>3, <1>6
    <2> HIDE DEF j
    <2> QED
      BY <1>4, <2>1
  <1>9. ASSUME NEW i \in s..(e - 1) PROVE Byte(i) = w[i - s + 1]
    <2> DEFINE j == i - s + 1
               l == z + 1 + j
    <2>1. /\ j \in 1..Len(w) /\ l \in 1..Len(Bytes(u)) /\ c + l - 1 = i
      BY <1>1, <1>3, <1>6
    <2>2. Bytes(u)[l] = w[j]
      BY <1>2, <2>1
    <2> SUFFICES Byte(i) = w[j]
      OBVIOUS
    <2> HIDE DEF j, l
    <2> QED
      BY <1>4, <2>1, <2>2
  <1>10. e = s + Len(w)
    BY <1>1, <1>3, <1>6
  <1> QED
    BY <1>1, <1>3, <1>6, <1>7, <1>8, <1>9, <1>10 DEF Lies, w, z

(* A unit holds no start code and does not end in zero.                     *)
LEMMA NoCode ==
    ASSUME NEW u \in Unit
    PROVE  /\ Len(WholeOf(u)) \in Nat \ {0} /\ WholeOf(u)[Len(WholeOf(u))] # 0
           /\ \A i \in 1..(Len(WholeOf(u)) - 2) :
                 WholeOf(u)[i] = 0 /\ WholeOf(u)[i + 1] = 0 => WholeOf(u)[i + 2] \notin 0..1
  <1> DEFINE w == WholeOf(u)
             b == u.body
  <1>1. /\ Len(w) = Len(b) + 1 /\ w[1] = 96 + u.type
        /\ \A i \in 1..Len(b) : w[i + 1] = b[i]
    BY UnitBytes
  <1>2. b \in Bodies /\ Len(b) \in Nat /\ (\A i \in 1..Len(b) : b[i] \in Octets) /\ 96 + u.type # 0
    <2>1. \A t \in 0..31 : 96 + t # 0
      OBVIOUS
    <2> QED
      BY <2>1, UnitType
  <1>3. /\ b # <<>> => b[Len(b)] # 0
        /\ \A i \in 1..(Len(b) - 2) : b[i] = 0 /\ b[i + 1] = 0 => b[i + 2] > 2
    BY <1>2, BodiesAssumption DEF Last
  <1> SUFFICES /\ Len(w) \in Nat \ {0} /\ w[Len(w)] # 0
               /\ \A i \in 1..(Len(w) - 2) : w[i] = 0 /\ w[i + 1] = 0 => w[i + 2] \notin 0..1
    OBVIOUS
  <1> HIDE DEF w, b
  <1>4. w[Len(w)] # 0
    <2>1. CASE Len(b) = 0
      <3>1. Len(w) = 1
        BY <1>1, <2>1
      <3> QED
        BY <1>1, <1>2, <3>1
    <2>2. CASE Len(b) # 0
      <3>1. Len(b) \in 1..Len(b) /\ b # <<>>
        BY <1>2, <2>2
      <3>2. w[Len(b) + 1] = b[Len(b)] /\ b[Len(b)] # 0
        BY <1>1, <1>3, <3>1
      <3> QED
        BY <1>1, <3>2
    <2> QED
      BY <2>1, <2>2
  <1>5. ASSUME NEW i \in 1..(Len(w) - 2), w[i] = 0, w[i + 1] = 0 PROVE w[i + 2] \notin 0..1
    <2> DEFINE j == i - 1
    <2>1. i # 1
      BY <1>1, <1>2, <1>5
    <2>2. /\ j \in 1..(Len(b) - 2) /\ j \in 1..Len(b) /\ j + 1 \in 1..Len(b)
          /\ j + 2 \in 1..Len(b) /\ j + 1 = i /\ (j + 1) + 1 = i + 1 /\ (j + 2) + 1 = i + 2
      <3>1. Len(w) = Len(b) + 1 /\ Len(b) \in Nat
        BY <1>1, <1>2
      <3> QED
        BY <2>1, <3>1
    <2> HIDE DEF j
    <2>3. b[j] = 0 /\ b[j + 1] = 0 /\ w[i + 2] = b[j + 2]
      BY <1>1, <1>5, <2>2
    <2>4. b[j + 2] > 2 /\ b[j + 2] \in Octets
      BY <1>2, <1>3, <2>2, <2>3
    <2> QED
      BY <2>3, <2>4 DEF Octets
  <1> QED
    BY <1>1, <1>2, <1>4, <1>5

(* So no round of the search finds one in it, or goes beyond its end.       *)
LEMMA RoundsStay ==
    ASSUME len \in Nat, NEW k, NEW u, NEW c, NEW s, NEW e, Lies(k, u, c, s, e), NEW i \in s..(e - 1)
    PROVE  Match(i).code = 0 /\ Match(i).next \in (i + 1)..e
  <1> DEFINE w == WholeOf(u)
             j == i - s + 1
  <1>1. /\ Len(w) \in Nat \ {0} /\ w[Len(w)] # 0
        /\ \A m \in 1..(Len(w) - 2) : w[m] = 0 /\ w[m + 1] = 0 => w[m + 2] \notin 0..1
    BY NoCode DEF Lies
  <1>2. /\ s \in Nat /\ e = s + Len(w)
        /\ \A m \in s..(e - 1) : Byte(m) = w[m - s + 1]
    <2>1. PICK z \in {2, 3} : z = u.zeros
      BY UnitType DEF Lies
    <2>2. c \in Nat /\ s = c + z + 1
      BY <2>1 DEF Lies
    <2> QED
      BY <2>2 DEF Lies
  <1> HIDE DEF w
  <1>3. j \in 1..Len(w) /\ i = s + j - 1 /\ i \in Nat
    BY <1>1, <1>2
  <1> HIDE DEF j
  <1>4. Byte(i) = w[j]
    <2>1. i - s + 1 = j
      BY <1>2, <1>3
    <2> QED
      BY <1>2, <2>1
  <1>5. j + 1 <= Len(w) => Byte(i + 1) = w[j + 1]
    <2>1. j + 1 <= Len(w) => i + 1 \in s..(e - 1) /\ (i + 1) - s + 1 = j + 1
      BY <1>1, <1>2, <1>3
    <2> QED
      BY <1>2, <2>1
  <1>6. j + 2 <= Len(w) => Byte(i + 2) = w[j + 2]
    <2>1. j + 2 <= Len(w) => i + 2 \in s..(e - 1) /\ (i + 2) - s + 1 = j + 2
      BY <1>1, <1>2, <1>3
    <2> QED
      BY <1>2, <2>1
  <1>7. CASE Byte(i) # 0
    <2>1. Match(i) = [code |-> 0, next |-> i + 1]
      BY <1>7 DEF Match
    <2> QED
      BY <1>1, <1>2, <1>3, <2>1
  <1>8. CASE Byte(i) = 0 /\ Byte(i + 1) # 0
    <2>1. Match(i) = [code |-> 0, next |-> i + 2]
      BY <1>8 DEF Match
    <2>2. j # Len(w)
      BY <1>1, <1>4, <1>8
    <2> QED
      BY <1>1, <1>2, <1>3, <2>1, <2>2
  <1>9. CASE Byte(i) = 0 /\ Byte(i + 1) = 0
    <2>1. j # Len(w)
      BY <1>1, <1>4, <1>9
    <2>2. j + 1 <= Len(w)
      BY <1>1, <1>3, <2>1
    <2>3. j + 1 # Len(w)
      BY <1>1, <1>5, <1>9, <2>2
    <2>4. j + 2 <= Len(w) /\ j \in 1..(Len(w) - 2)
      BY <1>1, <1>3, <2>2, <2>3
    <2>5. Byte(i + 2) \notin 0..1
      BY <1>1, <1>4, <1>5, <1>6, <1>9, <2>2, <2>4
    <2>6. Match(i) = [code |-> 0, next |-> i + 3]
      BY <1>9, <2>5 DEF Match
    <2> QED
      BY <1>1, <1>2, <1>3, <2>4, <2>6
  <1> QED
    BY <1>7, <1>8, <1>9

LEMMA SearchPasses ==
    ASSUME len \in Nat, NEW k, NEW u, NEW c, NEW s, NEW e, Lies(k, u, c, s, e), NEW i \in s..e
    PROVE  Search[i] = Search[e]
  <1>1. s \in Nat /\ e \in Nat /\ e <= len
    <2>1. PICK z \in {2, 3} : z = u.zeros
      BY UnitType DEF Lies
    <2>2. Len(WholeOf(u)) \in Nat /\ c \in Nat /\ s = c + z + 1
      BY <2>1, NoCode DEF Lies
    <2> QED
      BY <2>2 DEF Lies
  <1> DEFINE S == {d \in Nat : \A j \in s..e : e - j <= d => Search[j] = Search[e]}
  <1>2. 0 \in S
    <2>1. \A j \in s..e : e - j <= 0 => j = e
      BY <1>1
    <2> QED
      BY <2>1
  <1>3. ASSUME NEW d \in Nat, d \in S PROVE d + 1 \in S
    <2> SUFFICES ASSUME NEW j \in s..e, e - j <= d + 1 PROVE Search[j] = Search[e]
      OBVIOUS
    <2>1. CASE j = e
      BY <2>1
    <2>2. CASE j # e
      <3>1. j \in s..(e - 1) /\ j \in 0..(len + 4) /\ ~(j >= len)
        BY <1>1, <2>2
      <3>2. Match(j).code = 0 /\ Match(j).next \in (j + 1)..e
        BY <3>1, RoundsStay
      <3>3. Search[j] = Search[Match(j).next]
        BY <3>1, <3>2, SearchGoesOn
      <3>4. PICK m \in (j + 1)..e : m = Match(j).next
        BY <3>2
      <3>5. m \in s..e /\ e - m <= d
        BY <1>1, <3>1
      <3>6. Search[m] = Search[e]
        BY <1>3, <3>5
      <3> QED
        BY <3>3, <3>4, <3>6
    <2> QED
      BY <2>1, <2>2
  <1> HIDE DEF S
  <1>4. Nat \subseteq S
    BY <1>2, <1>3, Induction
  <1>5. e - i \in Nat /\ e - i <= e - i
    BY <1>1
  <1> QED
    BY <1>4, <1>5 DEF S

LEMMA SearchFinds ==
    ASSUME len \in Nat, NEW k, NEW u, NEW c, NEW s, NEW e, Lies(k, u, c, s, e)
    PROVE  Search[c] = [code |-> u.zeros + 1, next |-> s]
  <1> DEFINE z == u.zeros
  <1>1. /\ c \in Nat /\ s = c + z + 1 /\ z \in {2, 3} /\ s <= len
        /\ \A i \in c..(s - 2) : Byte(i) = 0
        /\ Byte(s - 1) = 1
    <2>1. Len(WholeOf(u)) \in Nat /\ e = s + Len(WholeOf(u)) /\ e <= len
      BY NoCode DEF Lies
    <2>2. c \in Nat /\ s = c + z + 1 /\ z \in {2, 3}
      BY UnitType DEF Lies
    <2> QED
      BY <2>1, <2>2 DEF Lies
  <1> SUFFICES Search[c] = [code |-> z + 1, next |-> s]
    OBVIOUS
  <1> HIDE DEF z
  <1>2. c \in 0..(len + 4) /\ ~(c >= len)
    BY <1>1
  <1>3. CASE z = 2
    <2>1. Byte(c) = 0 /\ Byte(c + 1) = 0
      <3>1. c \in c..(s - 2) /\ c + 1 \in c..(s - 2)
        BY <1>1, <1>3
      <3> QED
        BY <1>1, <3>1
    <2>2. Byte(c + 2) = 1 /\ s = c + 3
      <3>1. s - 1 = c + 2 /\ s = c + 3
        BY <1>1, <1>3
      <3> QED
        BY <1>1, <3>1
    <2>3. Match(c) = [code |-> 3, next |-> c + 3]
      BY <2>1, <2>2 DEF Match
    <2>4. Match(c).code # 0
      BY <2>3
    <2>5. Search[c] = Match(c)
      BY <1>2, <2>4, SearchGoesOn
    <2>6. [code |-> 3, next |-> c + 3] = [code |-> z + 1, next |-> s]
      BY <1>3, <2>2
    <2> QED
      BY <2>3, <2>5, <2>6
  <1>4. CASE z = 3
    <2>1. Byte(c) = 0 /\ Byte(c + 1) = 0 /\ Byte(c + 2) = 0
      <3>1. c \in c..(s - 2) /\ c + 1 \in c..(s - 2) /\ c + 2 \in c..(s - 2)
        BY <1>1, <1>4
      <3> QED
        BY <1>1, <3>1
    <2>2. Byte(c + 3) = 1 /\ s = c + 4
      <3>1. s - 1 = c + 3 /\ s = c + 4
        BY <1>1, <1>4
      <3> QED
        BY <1>1, <3>1
    <2>3. Match(c) = [code |-> 4, next |-> c + 4]
      BY <2>1, <2>2 DEF Match
    <2>4. Match(c).code # 0
      BY <2>3
    <2>5. Search[c] = Match(c)
      BY <1>2, <2>4, SearchGoesOn
    <2>6. [code |-> 4, next |-> c + 4] = [code |-> z + 1, next |-> s]
      BY <1>4, <2>2
    <2> QED
      BY <2>3, <2>5, <2>6
  <1> QED
    BY <1>1, <1>3, <1>4

(* What the search and the copying find at the kth unit.                    *)
LEMMA AtUnit ==
    ASSUME units \in Seq(Unit), NEW k \in 1..Len(units)
    PROVE  /\ len \in Nat /\ Begin(units, k) \in 0..(len - 1) /\ units[k].type \in 0..31
           /\ Byte(Begin(units, k)) = 96 + units[k].type
           /\ Len(WholeOf(units[k])) \in 0..len
           /\ Copied(Begin(units, k), Len(WholeOf(units[k]))) = WholeOf(units[k])
  <1> DEFINE u == units[k]
             c == Len(Laid(units, k - 1))
             s == Begin(units, k)
             e == Len(Laid(units, k))
             w == WholeOf(u)
  <1>1. Lies(k, u, c, s, e) /\ len \in Nat
    BY Layout
  <1> SUFFICES /\ len \in Nat /\ s \in 0..(len - 1) /\ u.type \in 0..31
               /\ Byte(s) = 96 + u.type /\ Len(w) \in 0..len /\ Copied(s, Len(w)) = w
    OBVIOUS
  <1> HIDE DEF u, c, s, e
  <1>2. PICK z \in {2, 3} : z = u.zeros
    BY <1>1, UnitType DEF Lies
  <1>3. /\ u.type \in 0..31 /\ Len(w) \in Nat \ {0} /\ w[1] = 96 + u.type
        /\ w \in Seq(Octets)
    BY <1>1, UnitType, UnitBytes, NoCode DEF Lies
  <1>4. c \in Nat /\ s = c + z + 1
    BY <1>1, <1>2 DEF Lies
  <1>5. /\ e = s + Len(w) /\ e <= len
        /\ \A i \in s..(e - 1) : Byte(i) = w[i - s + 1]
    BY <1>1 DEF Lies
  <1> HIDE DEF w
  <1>6. s \in 0..(len - 1) /\ Len(w) \in 0..len
    BY <1>1, <1>3, <1>4, <1>5
  <1>7. Byte(s) = w[1]
    <2>1. s \in s..(e - 1) /\ s - s + 1 = 1
      BY <1>3, <1>4, <1>5
    <2> QED
      BY <1>5, <2>1
  <1>8. Copied(s, Len(w)) = w
    <2>1. ASSUME NEW i \in 1..Len(w) PROVE Byte(s + i - 1) = w[i]
      <3>1. s + i - 1 \in s..(e - 1) /\ (s + i - 1) - s + 1 = i
        BY <1>3, <1>4, <1>5
      <3> QED
        BY <1>5, <3>1
    <2>2. w = [i \in 1..Len(w) |-> w[i]]
      BY <1>3, LenProperties
    <2> QED
      BY <2>1, <2>2 DEF Copied
  <1> QED
    BY <1>1, <1>3, <1>6, <1>7, <1>8

LEMMA FromUnit ==
    ASSUME units \in Seq(Unit), NEW k \in 1..Len(units)
    PROVE  /\ k < Len(units) =>
                 /\ Search[Begin(units, k)] = [code |-> units[k + 1].zeros + 1,
                                               next |-> Begin(units, k + 1)]
                 /\ Begin(units, k + 1) - (units[k + 1].zeros + 1) - Begin(units, k)
                       = Len(WholeOf(units[k]))
           /\ k = Len(units) => Search[Begin(units, k)] = [code |-> 0, next |-> len]
  <1> DEFINE u == units[k]
             c == Len(Laid(units, k - 1))
             s == Begin(units, k)
             e == Len(Laid(units, k))
  <1>1. Lies(k, u, c, s, e) /\ len \in Nat
    BY Layout
  <1>2. PICK z \in {2, 3} : z = u.zeros
    BY <1>1, UnitType DEF Lies
  <1>3. /\ c \in Nat /\ s = c + z + 1 /\ Len(WholeOf(u)) \in Nat
        /\ e = s + Len(WholeOf(u)) /\ e <= len
    BY <1>1, <1>2, NoCode DEF Lies
  <1>4. Search[s] = Search[e]
    <2>1. s \in s..e
      BY <1>3
    <2> QED
      BY <1>1, <2>1, SearchPasses
  <1>5. ASSUME k < Len(units)
        PROVE  /\ Search[s] = [code |-> units[k + 1].zeros + 1, next |-> Begin(units, k + 1)]
               /\ Begin(units, k + 1) - (units[k + 1].zeros + 1) - s = Len(WholeOf(u))
    <2> DEFINE v == units[k + 1]
               t == Begin(units, k + 1)
               d == Len(Laid(units, k + 1))
    <2>1. k + 1 \in 1..Len(units) /\ (k + 1) - 1 = k
      BY <1>5, LenProperties
    <2>2. Lies(k + 1, v, e, t, d)
      BY <2>1, Layout
    <2>3. PICK y \in {2, 3} : y = v.zeros
      BY <2>2, UnitType DEF Lies
    <2>4. t = e + y + 1
      BY <2>2, <2>3 DEF Lies
    <2>5. Search[e] = [code |-> v.zeros + 1, next |-> t]
      BY <1>1, <2>2, SearchFinds
    <2> HIDE DEF t, e, s
    <2>6. t - (y + 1) - s = Len(WholeOf(u))
      BY <1>3, <2>4
    <2> QED
      BY <1>4, <2>3, <2>5, <2>6 DEF t
  <1>6. ASSUME k = Len(units) PROVE Search[s] = [code |-> 0, next |-> len]
    <2>1. e = len
      BY <1>6 DEF len, buff, Laid
    <2>2. len \in 0..(len + 4) /\ len >= len
      BY <1>1
    <2>3. Search[len] = [code |-> 0, next |-> len]
      BY <1>1, <2>2, SearchGoesOn
    <2> QED
      BY <1>4, <2>1, <2>3
  <1> QED
    BY <1>5, <1>6

LEMMA FromStart ==
    ASSUME units \in Seq(Unit), units # <<>>
    PROVE  /\ 1 \in 1..Len(units)
           /\ Search[0] = [code |-> units[1].zeros + 1, next |-> Begin(units, 1)]
  <1>1. 1 \in 1..Len(units) /\ 1 - 1 = 0
    <2>1. Len(units) \in Nat /\ Len(units) # 0
      BY EmptySeq, LenProperties
    <2> QED
      BY <2>1
  <1>2. Len(Laid(units, 0)) = 0
    <2>1. [j \in 1..0 |-> Bytes(units[j])] \in Seq(Seq(Octets))
      OBVIOUS
    <2>2. Len([j \in 1..0 |-> Bytes(units[j])]) = 0
      OBVIOUS
    <2>3. Laid(units, 0) = <<>>
      BY <2>1, <2>2, FlattenType DEF Laid
    <2> QED
      BY <2>3, EmptySeq
  <1>3. /\ Lies(1, units[1], Len(Laid(units, 1 - 1)), Begin(units, 1), Len(Laid(units, 1)))
        /\ len \in Nat
    BY <1>1, Layout
  <1>4. Lies(1, units[1], 0, Begin(units, 1), Len(Laid(units, 1)))
    BY <1>1, <1>2, <1>3
  <1> QED
    BY <1>1, <1>3, <1>4, SearchFinds

\* None of the first k units is a slice, and the last SPS and PPS of them have
\* been copied, but for one at the end of the buffer.
NoSlice(us, k) == \A j \in 1..k : us[j].type \notin {1, 5}
Latest(us, k, t, j) == j \in 1..k /\ us[j].type = t /\ \A i \in (j + 1)..k : us[i].type # t
HasCopy(us, k, t, data) ==
    \A j \in 1..(Len(us) - 1) : Latest(us, k, t, j) => data = WholeOf(us[j])
\* A parameter set that fills more than its array.
Long(us, j) == us[j].type \in {7, 8} /\ j < Len(us) /\ Len(WholeOf(us[j])) > Capacity
Past(us, k, sps, pps) ==
    /\ NoSlice(us, k)
    /\ \A j \in 1..k : ~Long(us, j)
    /\ HasCopy(us, k, 7, sps) /\ HasCopy(us, k, 8, pps)

AtSlice(us, k) == /\ k \in 1..Len(us) /\ us[k].type \in {1, 5} /\ type = us[k].type
                  /\ index = Begin(us, k) /\ size = Len(Laid(us, Len(us))) - index
                  /\ Past(us, k - 1, spsdata, ppsdata)

Fitting(n) == n <= Capacity

Parsing ==
    /\ units \in Seq(Unit)
    /\ pc \in {"scan", "unit"} => units # <<>> /\ size = 0
    /\ pc = "scan" => \E k \in 0..Len(units) :
                        /\ index = IF k = 0 THEN 0 ELSE Begin(units, k)
                        /\ Past(units, k, spsdata, ppsdata)
    /\ pc = "unit" => \E k \in 1..Len(units) :
                        index = Begin(units, k) /\ Past(units, k - 1, spsdata, ppsdata)
    /\ pc = "done" => \/ \E k \in 1..Len(units) : AtSlice(units, k)
                      \/ /\ NoSlice(units, Len(units)) /\ size = 0
                         /\ \A j \in 1..Len(units) : ~Long(units, j)
    /\ pc = "crashed" => units[Len(units)].type \in {7, 8}
    /\ pc = "overrun" => \E k \in 1..Len(units) : NoSlice(units, k) /\ Long(units, k)
    /\ pc # "overrun" => Fitting(spslen) /\ Fitting(ppslen)

LEMMA Moves ==
    ASSUME NEW us \in Seq(Unit), NEW k \in 1..Len(us), NEW t, NEW old, NEW new,
           HasCopy(us, k - 1, t, old), us[k].type # t => new = old,
           us[k].type = t /\ k < Len(us) => new = WholeOf(us[k])
    PROVE  HasCopy(us, k, t, new)
  <1> SUFFICES ASSUME NEW j \in 1..(Len(us) - 1), Latest(us, k, t, j) PROVE new = WholeOf(us[j])
    BY DEF HasCopy
  <1>1. /\ Len(us) \in Nat /\ j \in 1..k /\ us[j].type = t
        /\ \A i \in (j + 1)..k : us[i].type # t
    BY LenProperties DEF Latest
  <1>2. CASE us[k].type = t
    <2>1. j = k
      <3>1. j < k => k \in (j + 1)..k
        BY <1>1
      <3> QED
        BY <1>1, <1>2, <3>1
    <2>2. k < Len(us)
      BY <1>1, <2>1
    <2> QED
      BY <1>2, <2>1, <2>2
  <1>3. CASE us[k].type # t
    <2>1. j # k
      BY <1>1, <1>3
    <2>2. j \in 1..(k - 1) /\ \A i \in (j + 1)..(k - 1) : i \in (j + 1)..k
      BY <1>1, <2>1
    <2>3. Latest(us, k - 1, t, j)
      BY <1>1, <2>2 DEF Latest
    <2>4. old = WholeOf(us[j])
      BY <2>3 DEF HasCopy
    <2> QED
      BY <1>3, <2>4
  <1> QED
    BY <1>2, <1>3

LEMMA Passes ==
    ASSUME NEW us \in Seq(Unit), NEW k \in 1..Len(us), us[k].type \notin {1, 5},
           NEW sps, NEW pps, NEW sps2, NEW pps2, Past(us, k - 1, sps, pps),
           us[k].type # 7 => sps2 = sps, us[k].type = 7 /\ k < Len(us) => sps2 = WholeOf(us[k]),
           us[k].type # 8 => pps2 = pps, us[k].type = 8 /\ k < Len(us) => pps2 = WholeOf(us[k]),
           ~Long(us, k)
    PROVE  Past(us, k, sps2, pps2)
  <1>1. NoSlice(us, k) /\ \A j \in 1..k : ~Long(us, j)
    <2>1. \A j \in 1..k : j \in 1..(k - 1) \/ j = k
      BY LenProperties
    <2> QED
      BY <2>1 DEF Past, NoSlice
  <1>2. HasCopy(us, k, 7, sps2) /\ HasCopy(us, k, 8, pps2)
    BY Moves DEF Past
  <1> QED
    BY <1>1, <1>2 DEF Past

LEMMA LenStays ==
    ASSUME units' = units
    PROVE  len' = len /\ len = Len(Laid(units, Len(units)))
  <1>1. len = Len(Laid(units, Len(units)))
    BY DEF len, buff, Laid
  <1>2. len' = Len(Laid(units', Len(units')))
    BY DEF len, buff, Laid
  <1> QED
    BY <1>1, <1>2

ParserInv == TypeOK /\ Parsing

LEMMA ParserStarts == Init => ParserInv
  <1> SUFFICES ASSUME Init PROVE ParserInv
    OBVIOUS
  <1>1. units \in Seq(Unit)
    BY DEF Init
  <1>2. len \in Nat
    <2>1. CASE units = <<>>
      <3>1. Len(units) = 0
        BY <2>1, EmptySeq
      <3>2. [j \in 1..0 |-> Bytes(units[j])] \in Seq(Seq(Octets))
        OBVIOUS
      <3>3. Len([j \in 1..0 |-> Bytes(units[j])]) = 0
        OBVIOUS
      <3>4. buff = <<>>
        BY <3>1, <3>2, <3>3, FlattenType DEF buff
      <3> QED
        BY <3>4, EmptySeq DEF len
    <2>2. CASE units # <<>>
      BY <1>1, <2>2, FromStart, Layout
    <2> QED
      BY <2>1, <2>2
  <1>3. TypeOK
    BY <1>2 DEF Init, TypeOK
  <1>4. Past(units, 0, spsdata, ppsdata)
    BY DEF Past, NoSlice, HasCopy, Latest
  <1>5. 0 \in 0..Len(units)
    BY <1>1, LenProperties
  <1>6. Parsing
    BY <1>1, <1>4, <1>5, CapacityAssumption DEF Init, Parsing, Unset, Fitting
  <1> QED
    BY <1>3, <1>6 DEF ParserInv

LEMMA ScanStep == ParserInv /\ Scan => ParserInv'
  <1> SUFFICES ASSUME ParserInv, Scan PROVE ParserInv'
    OBVIOUS
  <1>1. PICK k \in 0..Len(units) : /\ index = IF k = 0 THEN 0 ELSE Begin(units, k)
                                   /\ Past(units, k, spsdata, ppsdata)
    BY DEF ParserInv, Parsing, Scan
  <1>2. units \in Seq(Unit) /\ Len(units) \in Nat /\ units # <<>> /\ size = 0
    BY LenProperties DEF ParserInv, Parsing, Scan
  <1>3. /\ index' = Search[index].next
        /\ pc' = IF Search[index].code # 0 THEN "unit" ELSE "done"
        /\ units' = units /\ beyond' = beyond /\ type' = type /\ size' = size
        /\ spslen' = spslen /\ ppslen' = ppslen /\ spsdata' = spsdata /\ ppsdata' = ppsdata
    BY DEF Scan, nalu
  <1>4. len' = len
    BY <1>3, LenStays
  <1>5. Fitting(spslen') /\ Fitting(ppslen')
    BY <1>3 DEF ParserInv, Parsing, Scan
  <1>6. CASE k < Len(units)
    <2>1. k + 1 \in 1..Len(units) /\ (k + 1) - 1 = k
      BY <1>2, <1>6
    <2>2. PICK z \in {2, 3} : z = units[k + 1].zeros
      BY <1>2, <2>1, LaidNext, UnitType
    <2>3. Search[index] = [code |-> units[k + 1].zeros + 1, next |-> Begin(units, k + 1)]
      <3>1. CASE k = 0
        BY <1>1, <1>2, <3>1, FromStart
      <3>2. CASE k # 0
        BY <1>1, <1>2, <1>6, <3>2, FromUnit
      <3> QED
        BY <3>1, <3>2
    <2>4. index' = Begin(units, k + 1) /\ pc' = "unit"
      BY <1>3, <2>2, <2>3
    <2>5. Begin(units, k + 1) \in 0..(len - 1) /\ len \in Nat
      BY <1>2, <2>1, AtUnit
    <2>6. TypeOK'
      BY <1>3, <1>4, <2>4, <2>5 DEF ParserInv, TypeOK
    <2>7. Parsing'
      BY <1>1, <1>2, <1>3, <1>5, <2>1, <2>4 DEF Parsing
    <2> QED
      BY <2>6, <2>7 DEF ParserInv
  <1>7. CASE k = Len(units)
    <2>1. k # 0 /\ k \in 1..Len(units)
      BY <1>2, <1>7, FromStart
    <2>2. Search[index] = [code |-> 0, next |-> len]
      BY <1>1, <1>2, <1>7, <2>1, FromUnit
    <2>3. index' = len /\ pc' = "done"
      BY <1>3, <2>2
    <2>4. len \in Nat
      BY <1>2, <2>1, AtUnit
    <2>5. TypeOK'
      BY <1>3, <1>4, <2>3, <2>4 DEF ParserInv, TypeOK
    <2>6. NoSlice(units, Len(units)) /\ \A j \in 1..Len(units) : ~Long(units, j)
      BY <1>1, <1>7 DEF Past
    <2>7. Parsing'
      BY <1>2, <1>3, <1>5, <2>3, <2>6 DEF Parsing
    <2> QED
      BY <2>5, <2>7 DEF ParserInv
  <1> QED
    BY <1>2, <1>6, <1>7

UnitAt(k) ==
    /\ k \in 1..Len(units) /\ units \in Seq(Unit) /\ units # <<>> /\ size = 0
    /\ index = Begin(units, k) /\ Past(units, k - 1, spsdata, ppsdata)

LEMMA IsAtUnit ==
    ASSUME ParserInv, pc = "unit"
    PROVE  \E k \in 1..Len(units) : UnitAt(k)
  <1>1. PICK k \in 1..Len(units) :
           index = Begin(units, k) /\ Past(units, k - 1, spsdata, ppsdata)
    BY DEF ParserInv, Parsing
  <1>2. units \in Seq(Unit) /\ units # <<>> /\ size = 0
    BY DEF ParserInv, Parsing
  <1> QED
    BY <1>1, <1>2 DEF UnitAt

LEMMA ReadsType ==
    ASSUME NEW k \in 1..Len(units), UnitAt(k), ReadType
    PROVE  type' = units[k].type
  <1>1. \A t \in 0..31 : (96 + t) % 32 = t
    OBVIOUS
  <1>2. units[k].type \in 0..31 /\ Byte(index) = 96 + units[k].type
    BY AtUnit DEF UnitAt
  <1> QED
    BY <1>1, <1>2 DEF ReadType

LEMMA SetsLength ==
    ASSUME NEW k \in 1..Len(units), UnitAt(k), NEW old
    PROVE  /\ k < Len(units) => SetLength(old) = Len(WholeOf(units[k]))
           /\ k = Len(units) => SetLength(old) = old
  <1>1. units \in Seq(Unit) /\ index = Begin(units, k) /\ Len(units) \in Nat
    BY LenProperties DEF UnitAt
  <1>2. CASE k < Len(units)
    <2>1. k + 1 \in 1..Len(units) /\ k # Len(units)
      BY <1>1, <1>2
    <2>2. PICK z \in {2, 3} : z = units[k + 1].zeros
      BY <1>1, <2>1, LaidNext, UnitType
    <2>3. Search[index] = [code |-> z + 1, next |-> Begin(units, k + 1)]
      BY <1>1, <1>2, <2>2, FromUnit
    <2>4. SetLength(old) = Begin(units, k + 1) - (z + 1) - index
      BY <2>3 DEF SetLength
    <2>5. Begin(units, k + 1) - (z + 1) - index = Len(WholeOf(units[k]))
      BY <1>1, <1>2, <2>2, FromUnit
    <2> QED
      BY <2>1, <2>4, <2>5
  <1>3. CASE k = Len(units)
    <2>1. Search[index] = [code |-> 0, next |-> len]
      BY <1>1, <1>3, FromUnit
    <2> QED
      BY <1>3, <2>1 DEF SetLength
  <1> QED
    BY <1>1, <1>2, <1>3

LEMMA SpsStep == ParserInv /\ Sps => ParserInv'
  <1> SUFFICES ASSUME ParserInv, Sps PROVE ParserInv'
    OBVIOUS
  <1>1. PICK k \in 1..Len(units) : UnitAt(k)
    BY IsAtUnit DEF Sps
  <1>2. /\ units[k].type = 7 /\ type' = 7
    BY <1>1, ReadsType DEF Sps
  <1>3. /\ spslen' = SetLength(spslen) /\ spsdata' = Copied(index, spslen')
        /\ pc' \in Copying(spslen')
        /\ units' = units /\ beyond' = beyond /\ index' = index /\ size' = size
        /\ ppslen' = ppslen /\ ppsdata' = ppsdata
    BY DEF Sps
  <1>4. len' = len
    BY <1>3, LenStays
  <1>5. /\ k < Len(units) => spslen' = Len(WholeOf(units[k]))
        /\ k = Len(units) => spslen' = spslen
    BY <1>1, <1>3, SetsLength
  <1>6. /\ Len(WholeOf(units[k])) \in 0..len /\ len \in Nat
        /\ Copied(index, Len(WholeOf(units[k]))) = WholeOf(units[k])
    BY <1>1, AtUnit DEF UnitAt
  <1>7. k < Len(units) => spsdata' = WholeOf(units[k])
    BY <1>3, <1>5, <1>6
  <1>8. spslen' \in 0..len \cup {Unset} /\ Len(units) \in Nat /\ units \in Seq(Unit)
    BY <1>1, <1>5, <1>6, LenProperties DEF UnitAt, ParserInv, TypeOK
  <1>9. /\ pc' \in {"scan", "crashed", "overrun"}
        /\ pc' = "crashed" => k = Len(units)
        /\ pc' = "overrun" <=> Long(units, k)
        /\ pc' # "overrun" => Fitting(spslen') /\ Fitting(ppslen')
    <2>1. k < Len(units) => /\ spslen' # Unset
                            /\ pc' = "overrun" <=> spslen' > Capacity
                            /\ pc' \in {"scan", "overrun"}
      BY <1>3, <1>5, <1>6, CapacityAssumption DEF Unset, Copying
    <2>2. Fitting(spslen) /\ Fitting(ppslen)
      BY DEF ParserInv, Parsing, Sps
    <2>3. k = Len(units) => pc' \in {"scan", "crashed"} /\ (pc' = "crashed" => spslen' = Unset)
      BY <1>3, <1>5, <1>8, <2>2, CapacityAssumption DEF Unset, Copying, Fitting
    <2> QED
      <3>1. CASE k = Len(units)
        BY <1>3, <1>5, <2>2, <2>3, <3>1 DEF Long
      <3>2. CASE k < Len(units)
        <4>1. ~(spslen' > Capacity) => Fitting(spslen')
          BY <1>5, <1>6, <3>2, CapacityAssumption DEF Fitting
        <4>2. Long(units, k) <=> spslen' > Capacity
          BY <1>2, <1>5, <3>2 DEF Long
        <4> QED
          BY <1>3, <2>1, <2>2, <3>2, <4>1, <4>2
      <3> QED
        BY <1>8, <3>1, <3>2
  <1>10. TypeOK'
    BY <1>2, <1>3, <1>4, <1>8, <1>9 DEF ParserInv, TypeOK
  <1>11. pc' = "scan" => Past(units, k, spsdata', ppsdata')
    BY <1>1, <1>2, <1>3, <1>7, <1>8, <1>9, Passes DEF UnitAt
  <1>12. /\ units # <<>> /\ size = 0 /\ index = IF k = 0 THEN 0 ELSE Begin(units, k)
         /\ k \in 0..Len(units)
    BY <1>1, <1>8 DEF UnitAt
  <1>13. NoSlice(units, k - 1) /\ (pc' = "overrun" => NoSlice(units, k))
    <2>1. \A j \in 1..k : j \in 1..(k - 1) \/ j = k
      BY <1>8
    <2> QED
      BY <1>1, <1>2, <2>1 DEF UnitAt, Past, NoSlice
  <1>14. Parsing'
    BY <1>2, <1>3, <1>8, <1>9, <1>11, <1>12, <1>13 DEF Parsing
  <1> QED
    BY <1>10, <1>14 DEF ParserInv

LEMMA PpsStep == ParserInv /\ Pps => ParserInv'
  <1> SUFFICES ASSUME ParserInv, Pps PROVE ParserInv'
    OBVIOUS
  <1>1. PICK k \in 1..Len(units) : UnitAt(k)
    BY IsAtUnit DEF Pps
  <1>2. /\ units[k].type = 8 /\ type' = 8
    BY <1>1, ReadsType DEF Pps
  <1>3. /\ ppslen' = SetLength(ppslen) /\ ppsdata' = Copied(index, ppslen')
        /\ pc' \in Copying(ppslen')
        /\ units' = units /\ beyond' = beyond /\ index' = index /\ size' = size
        /\ spslen' = spslen /\ spsdata' = spsdata
    BY DEF Pps
  <1>4. len' = len
    BY <1>3, LenStays
  <1>5. /\ k < Len(units) => ppslen' = Len(WholeOf(units[k]))
        /\ k = Len(units) => ppslen' = ppslen
    BY <1>1, <1>3, SetsLength
  <1>6. /\ Len(WholeOf(units[k])) \in 0..len /\ len \in Nat
        /\ Copied(index, Len(WholeOf(units[k]))) = WholeOf(units[k])
    BY <1>1, AtUnit DEF UnitAt
  <1>7. k < Len(units) => ppsdata' = WholeOf(units[k])
    BY <1>3, <1>5, <1>6
  <1>8. ppslen' \in 0..len \cup {Unset} /\ Len(units) \in Nat /\ units \in Seq(Unit)
    BY <1>1, <1>5, <1>6, LenProperties DEF UnitAt, ParserInv, TypeOK
  <1>9. /\ pc' \in {"scan", "crashed", "overrun"}
        /\ pc' = "crashed" => k = Len(units)
        /\ pc' = "overrun" <=> Long(units, k)
        /\ pc' # "overrun" => Fitting(spslen') /\ Fitting(ppslen')
    <2>1. k < Len(units) => /\ ppslen' # Unset
                            /\ pc' = "overrun" <=> ppslen' > Capacity
                            /\ pc' \in {"scan", "overrun"}
      BY <1>3, <1>5, <1>6, CapacityAssumption DEF Unset, Copying
    <2>2. Fitting(spslen) /\ Fitting(ppslen)
      BY DEF ParserInv, Parsing, Pps
    <2>3. k = Len(units) => pc' \in {"scan", "crashed"} /\ (pc' = "crashed" => ppslen' = Unset)
      BY <1>3, <1>5, <1>8, <2>2, CapacityAssumption DEF Unset, Copying, Fitting
    <2> QED
      <3>1. CASE k = Len(units)
        BY <1>3, <1>5, <2>2, <2>3, <3>1 DEF Long
      <3>2. CASE k < Len(units)
        <4>1. ~(ppslen' > Capacity) => Fitting(ppslen')
          BY <1>5, <1>6, <3>2, CapacityAssumption DEF Fitting
        <4>2. Long(units, k) <=> ppslen' > Capacity
          BY <1>2, <1>5, <3>2 DEF Long
        <4> QED
          BY <1>3, <2>1, <2>2, <3>2, <4>1, <4>2
      <3> QED
        BY <1>8, <3>1, <3>2
  <1>10. TypeOK'
    BY <1>2, <1>3, <1>4, <1>8, <1>9 DEF ParserInv, TypeOK
  <1>11. pc' = "scan" => Past(units, k, spsdata', ppsdata')
    BY <1>1, <1>2, <1>3, <1>7, <1>8, <1>9, Passes DEF UnitAt
  <1>12. /\ units # <<>> /\ size = 0 /\ index = IF k = 0 THEN 0 ELSE Begin(units, k)
         /\ k \in 0..Len(units)
    BY <1>1, <1>8 DEF UnitAt
  <1>13. NoSlice(units, k - 1) /\ (pc' = "overrun" => NoSlice(units, k))
    <2>1. \A j \in 1..k : j \in 1..(k - 1) \/ j = k
      BY <1>8
    <2> QED
      BY <1>1, <1>2, <2>1 DEF UnitAt, Past, NoSlice
  <1>14. Parsing'
    BY <1>2, <1>3, <1>8, <1>9, <1>11, <1>12, <1>13 DEF Parsing
  <1> QED
    BY <1>10, <1>14 DEF ParserInv

LEMMA SliceStep == ParserInv /\ Slice => ParserInv'
  <1> SUFFICES ASSUME ParserInv, Slice PROVE ParserInv'
    OBVIOUS
  <1>1. PICK k \in 1..Len(units) : UnitAt(k)
    BY IsAtUnit DEF Slice
  <1>2. units[k].type \in {1, 5} /\ type' = units[k].type
    BY <1>1, ReadsType DEF Slice
  <1>3. /\ size' = len - index /\ pc' = "done" /\ units' = units /\ beyond' = beyond
        /\ index' = index /\ spslen' = spslen /\ ppslen' = ppslen
        /\ spsdata' = spsdata /\ ppsdata' = ppsdata
    BY DEF Slice
  <1>4. len' = len /\ len = Len(Laid(units, Len(units)))
    BY <1>3, LenStays
  <1>5. index \in 0..(len - 1) /\ len \in Nat /\ units[k].type \in 0..31
    BY <1>1, AtUnit DEF UnitAt
  <1>6. TypeOK'
    BY <1>2, <1>3, <1>4, <1>5 DEF ParserInv, TypeOK
  <1>7. AtSlice(units, k)'
    BY <1>1, <1>2, <1>3, <1>4 DEF AtSlice, UnitAt
  <1>8. Fitting(spslen') /\ Fitting(ppslen')
    BY <1>3 DEF ParserInv, Parsing, Slice
  <1>9. Parsing'
    BY <1>1, <1>3, <1>7, <1>8 DEF Parsing, UnitAt
  <1> QED
    BY <1>6, <1>9 DEF ParserInv

LEMMA SkipStep == ParserInv /\ Skip => ParserInv'
  <1> SUFFICES ASSUME ParserInv, Skip PROVE ParserInv'
    OBVIOUS
  <1>1. PICK k \in 1..Len(units) : UnitAt(k)
    BY IsAtUnit DEF Skip
  <1>2. units[k].type \notin {1, 5, 7, 8} /\ type' = units[k].type /\ ~Long(units, k)
    BY <1>1, ReadsType DEF Skip, Long
  <1>3. /\ pc' = "scan" /\ units' = units /\ beyond' = beyond /\ index' = index /\ size' = size
        /\ spslen' = spslen /\ ppslen' = ppslen /\ spsdata' = spsdata /\ ppsdata' = ppsdata
    BY DEF Skip
  <1>4. len' = len
    BY <1>3, LenStays
  <1>5. units[k].type \in 0..31 /\ Len(units) \in Nat /\ units \in Seq(Unit)
    BY <1>1, AtUnit, LenProperties DEF UnitAt
  <1>6. TypeOK'
    BY <1>2, <1>3, <1>4, <1>5 DEF ParserInv, TypeOK
  <1>7. Past(units, k, spsdata, ppsdata)
    BY <1>1, <1>2, <1>5, Passes DEF UnitAt
  <1>8. /\ units # <<>> /\ size = 0 /\ index = IF k = 0 THEN 0 ELSE Begin(units, k)
        /\ k \in 0..Len(units)
    BY <1>1, <1>5 DEF UnitAt
  <1>9. Fitting(spslen') /\ Fitting(ppslen')
    BY <1>3 DEF ParserInv, Parsing, Skip
  <1>10. Parsing'
    BY <1>3, <1>5, <1>7, <1>8, <1>9 DEF Parsing
  <1> QED
    BY <1>6, <1>10 DEF ParserInv

LEMMA ParserKeeps == ParserInv /\ [Next]_vars => ParserInv'
  <1> SUFFICES ASSUME ParserInv, [Next]_vars PROVE ParserInv'
    OBVIOUS
  <1>1. CASE Scan
    BY <1>1, ScanStep
  <1>2. CASE Sps
    BY <1>2, SpsStep
  <1>3. CASE Pps
    BY <1>3, PpsStep
  <1>4. CASE Slice
    BY <1>4, SliceStep
  <1>5. CASE Skip
    BY <1>5, SkipStep
  <1>6. CASE UNCHANGED vars
    <2>1. /\ units' = units /\ pc' = pc /\ index' = index /\ type' = type /\ size' = size
          /\ spslen' = spslen /\ ppslen' = ppslen /\ spsdata' = spsdata /\ ppsdata' = ppsdata
      BY <1>6 DEF vars, nalu
    <2>2. len' = len
      BY <2>1, LenStays
    <2>3. TypeOK'
      BY <2>1, <2>2 DEF ParserInv, TypeOK
    <2>4. Parsing'
      BY <2>1 DEF ParserInv, Parsing, AtSlice
    <2> QED
      BY <2>3, <2>4 DEF ParserInv
  <1> QED
    BY <1>1, <1>2, <1>3, <1>4, <1>5, <1>6 DEF Next

LEMMA Inside == ParserInv => StaysInside
  <1> SUFFICES ASSUME ParserInv PROVE StaysInside
    OBVIOUS
  <1>1. units \in Seq(Unit) /\ Len(units) \in Nat
    BY LenProperties DEF ParserInv, Parsing
  <1>2. ASSUME pc = "scan" PROVE Search[index].next <= len
    <2>1. PICK k \in 0..Len(units) : index = IF k = 0 THEN 0 ELSE Begin(units, k)
      BY <1>2 DEF ParserInv, Parsing
    <2>2. units # <<>>
      BY <1>2 DEF ParserInv, Parsing
    <2>3. CASE k < Len(units)
      <3>1. Search[index].next = Begin(units, k + 1)
        <4>1. Search[index] = [code |-> units[k + 1].zeros + 1, next |-> Begin(units, k + 1)]
          <5>1. CASE k = 0
            BY <1>1, <2>1, <2>2, <5>1, FromStart
          <5>2. CASE k # 0
            BY <1>1, <2>1, <2>3, <5>2, FromUnit
          <5> QED
            BY <5>1, <5>2
        <4> QED
          BY <4>1
      <3>2. k + 1 \in 1..Len(units)
        BY <1>1, <2>3
      <3>3. Begin(units, k + 1) \in 0..(len - 1) /\ len \in Nat
        BY <1>1, <3>2, AtUnit
      <3> QED
        BY <3>1, <3>3
    <2>4. CASE k = Len(units)
      <3>1. k \in 1..Len(units) /\ k # 0
        BY <1>1, <2>2, <2>4, FromStart
      <3>2. Search[index] = [code |-> 0, next |-> len]
        BY <1>1, <2>1, <2>4, <3>1, FromUnit
      <3>3. len \in Nat
        BY <1>1, <3>1, AtUnit
      <3> QED
        BY <3>2, <3>3
    <2> QED
      BY <1>1, <2>3, <2>4
  <1>3. ASSUME pc = "unit" PROVE index < len
    <2>1. PICK k \in 1..Len(units) : index = Begin(units, k)
      BY <1>3 DEF ParserInv, Parsing
    <2>2. index \in 0..(len - 1) /\ len \in Nat
      BY <1>1, <2>1, AtUnit
    <2> QED
      BY <2>2
  <1> QED
    BY <1>2, <1>3 DEF StaysInside

LEMMA Fronts ==
    ASSUME units \in Seq(Unit), NEW k \in 1..Len(units), AtSlice(units, k)
    PROVE  Before = 1..(k - 1)
  <1>1. Len(units) \in Nat
    BY LenProperties
  <1>2. \A j \in 1..Len(units) : j < k => j \in 1..(k - 1)
    BY <1>1
  <1>3. \A j \in 1..(k - 1) : j \notin Slices
    BY DEF AtSlice, Past, NoSlice, Slices
  <1>4. k \in Slices /\ \A j \in Slices : j \in 1..Len(units) /\ k <= j
    BY <1>1, <1>2, <1>3 DEF AtSlice, Slices
  <1>5. FirstSlice \in Slices /\ \A j \in Slices : FirstSlice <= j
    BY <1>4 DEF FirstSlice
  <1>6. FirstSlice = k
    BY <1>4, <1>5
  <1> QED
    BY <1>4, <1>6 DEF Before

LEMMA Finds == ParserInv => FindsSlice /\ FindsSets
  <1> SUFFICES ASSUME ParserInv, pc = "done"
               PROVE  /\ IF Slices = {} THEN size = 0
                          ELSE /\ index = Start(FirstSlice) /\ size = len - index
                               /\ type = units[FirstSlice].type
                      /\ Slices # {} => /\ Has(7) => spsdata = Whole(LastOf(7))
                                        /\ Has(8) => ppsdata = Whole(LastOf(8))
    BY DEF FindsSlice, FindsSets
  <1>1. units \in Seq(Unit) /\ Len(units) \in Nat
    BY LenProperties DEF ParserInv, Parsing
  <1>2. CASE NoSlice(units, Len(units)) /\ size = 0
    <2>1. Slices = {}
      BY <1>2 DEF NoSlice, Slices
    <2> QED
      BY <1>2, <2>1
  <1>3. ASSUME NEW k \in 1..Len(units), AtSlice(units, k)
        PROVE  /\ Slices # {} /\ index = Start(FirstSlice) /\ size = len - index
               /\ type = units[FirstSlice].type
               /\ Has(7) => spsdata = Whole(LastOf(7))
               /\ Has(8) => ppsdata = Whole(LastOf(8))
    <2>1. k \in Slices /\ \A j \in Slices : k <= j
      <3>1. \A j \in 1..Len(units) : j < k => j \in 1..(k - 1)
        OBVIOUS
      <3>2. \A j \in 1..(k - 1) : j \notin Slices
        BY <1>3 DEF AtSlice, Past, NoSlice, Slices
      <3> QED
        BY <1>3, <3>1, <3>2 DEF AtSlice, Slices
    <2>2. FirstSlice = k
      <3>1. FirstSlice \in Slices /\ \A j \in Slices : FirstSlice <= j
        BY <2>1 DEF FirstSlice
      <3> QED
        BY <2>1, <3>1 DEF Slices
    <2>3. Start(k) = Begin(units, k) /\ len = Len(Laid(units, Len(units)))
      BY DEF Start, Begin, Laid, len, buff
    <2>4. Before = 1..(k - 1)
      BY <1>1, <1>3, Fronts
    <2>5. ASSUME NEW t, NEW data, HasCopy(units, k - 1, t, data), Has(t)
          PROVE  data = Whole(LastOf(t))
      <3> DEFINE K == {j \in Before : units[j].type = t}
                 m == LastOf(t)
      <3>1. \E j \in K : \A i \in K : i <= j
        <4> DEFINE D == {d \in Nat : k - 1 - d \in K}
        <4>1. PICK j \in K : TRUE
          BY <2>5 DEF Has
        <4>2. j \in 1..(k - 1) /\ k - 1 - j \in Nat /\ k - 1 - (k - 1 - j) = j
          BY <2>4, <4>1
        <4>3. D # {} /\ D \in SUBSET Nat
          BY <4>1, <4>2
        <4>4. PICK d \in D : \A c \in D : d <= c
          <5> HIDE DEF D
          <5> QED
            BY <4>3, Least
        <4>5. ASSUME NEW i \in K PROVE i <= k - 1 - d
          <5>1. i \in 1..(k - 1) /\ k - 1 - (k - 1 - i) = i /\ k - 1 - i \in Nat
            BY <2>4
          <5>2. d <= k - 1 - i
            BY <4>4, <5>1
          <5> QED
            BY <4>4, <5>1, <5>2
        <4> QED
          BY <4>4, <4>5
      <3>2. m \in K /\ \A i \in K : i <= m
        BY <3>1 DEF LastOf
      <3>3. m \in 1..(k - 1) /\ units[m].type = t /\ \A i \in (m + 1)..(k - 1) : units[i].type # t
        <4>1. m \in 1..(k - 1) /\ units[m].type = t
          BY <2>4, <3>2
        <4>2. ASSUME NEW i \in (m + 1)..(k - 1), units[i].type = t PROVE FALSE
          <5>1. i \in 1..(k - 1) /\ ~(i <= m)
            BY <4>1
          <5> QED
            BY <2>4, <3>2, <4>2, <5>1
        <4> QED
          BY <4>1, <4>2
      <3> HIDE DEF m, K
      <3>4. Latest(units, k - 1, t, m)
        BY <3>3 DEF Latest
      <3>5. m \in 1..(Len(units) - 1)
        BY <1>1, <3>3
      <3>6. data = WholeOf(units[m])
        BY <2>5, <3>4, <3>5 DEF HasCopy
      <3> QED
        BY <3>6 DEF Whole, WholeOf, m
    <2> QED
      BY <1>3, <2>1, <2>2, <2>3, <2>5 DEF AtSlice, Past
  <1> QED
    BY <1>2, <1>3 DEF ParserInv, Parsing

LEMMA Stops == ParserInv => StopsOnSets
  <1> SUFFICES ASSUME ParserInv PROVE StopsOnSets
    OBVIOUS
  <1>1. units \in Seq(Unit) /\ Len(units) \in Nat
    BY LenProperties DEF ParserInv, Parsing
  <1>2. \A k \in 1..Len(units) : TooLong(k) <=> Long(units, k)
    BY DEF TooLong, Long, Whole, WholeOf
  <1>3. pc = "crashed" => Last(units).type \in {7, 8}
    BY DEF ParserInv, Parsing, Last
  <1>4. ASSUME pc = "overrun" PROVE \E k \in Before : TooLong(k)
    <2>1. PICK k \in 1..Len(units) : NoSlice(units, k) /\ Long(units, k)
      BY <1>4 DEF ParserInv, Parsing
    <2>2. CASE Slices = {}
      BY <1>2, <2>1, <2>2 DEF Before
    <2>3. CASE Slices # {}
      <3>1. Slices \in SUBSET Nat /\ \A j \in Slices : j \in 1..Len(units)
        BY <1>1 DEF Slices
      <3>2. PICK d \in Slices : \A c \in Slices : d <= c
        BY <2>3, <3>1, Least
      <3>3. FirstSlice \in Slices
        BY <3>2 DEF FirstSlice
      <3>4. FirstSlice \notin 1..k
        BY <2>1, <3>3 DEF NoSlice, Slices
      <3>5. k \in 1..(FirstSlice - 1)
        BY <1>1, <3>1, <3>3, <3>4
      <3> QED
        BY <1>2, <2>1, <2>3, <3>5 DEF Before
    <2> QED
      BY <2>2, <2>3
  <1>5. ASSUME pc = "done" PROVE \A k \in Before : ~TooLong(k)
    <2>1. CASE /\ NoSlice(units, Len(units)) /\ size = 0
               /\ \A j \in 1..Len(units) : ~Long(units, j)
      <3>1. Slices = {}
        BY <2>1 DEF NoSlice, Slices
      <3> QED
        BY <1>2, <2>1, <3>1 DEF Before
    <2>2. ASSUME NEW k \in 1..Len(units), AtSlice(units, k)
          PROVE  \A j \in Before : ~TooLong(j)
      <3>1. Before = 1..(k - 1)
        BY <1>1, <2>2, Fronts
      <3>2. \A j \in 1..(k - 1) : ~Long(units, j) /\ j \in 1..Len(units)
        BY <1>1, <2>2 DEF AtSlice, Past
      <3> QED
        BY <1>2, <3>1, <3>2
    <2> QED
      BY <1>5, <2>1, <2>2 DEF ParserInv, Parsing
  <1> QED
    BY <1>3, <1>4, <1>5 DEF StopsOnSets

(* Of every buffer of NAL units, however many and whatever is in them, the  *)
(* parser finds the first slice and the parameter sets before it, byte for  *)
(* byte, or stops on one that is longer than its array or on the last of the*)
(* buffer; its searches, which look ahead by up to three bytes without a    *)
(* test, read nothing beyond the buffer.  (ReadOneNaluFromBuf)              *)
THEOREM UnitsAreFound == Spec => []FindsUnits
  <1>1. ParserInv => FindsUnits
    <2>1. ParserInv => StopsOnSets
      BY Stops
    <2> QED
      BY <2>1, Inside, Finds DEF ParserInv, FindsUnits
  <1> QED
    BY <1>1, ParserStarts, ParserKeeps, PTL DEF Spec

-----------------------------------------------------------------------------
(* Lines.  A piece of a line is a text, which is no code of the terminal's, *)
(* or a pair: a number with its width, a short level.                       *)
\* The characters of %+ and of its pattern.
FullChars == {"[", "]", "-", ":", ".", " ", "%", "+", "^", "$", "Y", "m", "d", "H", "M", "S",
              "e", "n", "l", "v"}
\* The texts that formatters write, and those of messages.
Fixed == {days[i] : i \in 1..7} \cup {full_days[i] : i \in 1..7}
           \cup {months[i] : i \in 1..12} \cup {full_months[i] : i \in 1..12}
           \cup FullChars \cup {"AM", "PM", "/", "pid", "eol", "short"}
Names == Fixed \cup Words \cup Characters
Vals == Names \cup Int
Pieces == {<<c>> : c \in Names} \cup (Vals \X Vals)
Codes == {Ch("colour"), Ch("reset")}

LEMMA NoCodes == ASSUME NEW c \in {"colour", "reset"} PROVE c \notin Names
  <1>1. \A i \in 1..7 : days[i] # c /\ full_days[i] # c
    BY DEF days, full_days
  <1>2. \A i \in 1..12 : months[i] # c
    BY DEF months
  <1>3. \A i \in 1..12 : full_months[i] # c
    BY DEF full_months
  <1>4. c \notin FullChars \cup {"AM", "PM", "/", "pid", "eol", "short"}
    BY DEF FullChars
  <1> QED
    BY <1>1, <1>2, <1>3, <1>4, WordsAssumption DEF Names, Fixed

LEMMA FixedNames ==
    /\ \A i \in 1..7 : days[i] \in Names /\ full_days[i] \in Names
    /\ \A i \in 1..12 : months[i] \in Names /\ full_months[i] \in Names
    /\ \A c \in FullChars \cup {"AM", "PM", "/", "pid", "eol", "short"} : c \in Names
    /\ \A c \in {"AM", "PM", "-", "+", ":", "/", ".", " ", "[", "]", "%", "pid", "eol", "short"} :
          c \in Names
BY DEF Names, Fixed, FullChars

LEMMA PieceTypes ==
    /\ \A c \in Names : Ch(c) \in Pieces
    /\ \A v, w \in Int : Num(v, w) \in Pieces
    /\ \A v \in Vals : <<"short", v>> \in Pieces
    /\ \A p \in Codes : p \notin Pieces
  <1>1. ASSUME NEW c \in Names PROVE Ch(c) \in Pieces
    BY DEF Ch, Pieces
  <1>2. ASSUME NEW v \in Int, NEW w \in Int PROVE Num(v, w) \in Pieces
    BY DEF Num, Pieces, Vals
  <1>3. ASSUME NEW v \in Vals PROVE <<"short", v>> \in Pieces
    <2>1. "short" \in Vals
      BY FixedNames DEF Vals
    <2> QED
      BY <2>1 DEF Pieces
  <1>4. ASSUME NEW c \in {"colour", "reset"} PROVE <<c>> \notin Pieces
    BY NoCodes DEF Pieces
  <1> QED
    BY <1>1, <1>2, <1>3, <1>4 DEF Ch, Codes

LEMMA MessageTypes ==
    ASSUME NEW msg \in Messages
    PROVE  /\ msg.name \in Names /\ msg.level \in Names /\ msg.thread \in Names
           /\ msg.level \in Vals /\ msg.id \in Int /\ msg.raw \in Seq(Pieces)
           /\ msg.time[1] \in Int /\ msg.time[2] \in Nanoseconds /\ msg.zone \in Zones
  <1>1. /\ msg.name \in Words /\ msg.level \in Words /\ msg.thread \in Words /\ msg.id \in Int
        /\ msg.raw \in Seq(Texts) /\ msg.time[1] \in Int /\ msg.time[2] \in Nanoseconds
        /\ msg.zone \in Zones
    BY MessagesAssumption
  <1>2. \A w \in Words : w \in Names /\ w \in Vals
    BY DEF Names, Vals
  <1>3. Texts \subseteq Pieces
    BY <1>2, PieceTypes DEF Texts
  <1>4. msg.raw \in Seq(Pieces)
    <2>1. PICK raw \in Seq(Texts) : raw = msg.raw
      BY <1>1
    <2>2. \A i \in 1..Len(raw) : raw[i] \in Pieces
      BY <1>3, ElementOfSeq
    <2> QED
      BY <2>1, <2>2
  <1> QED
    BY <1>1, <1>2, <1>4

LEMMA ZoneMinutes == ASSUME NEW z \in Zones PROVE z \in Int /\ z % 60 = 0
BY DEF Zones

Instant == [sec : 0..59, min : 0..59, hour : 0..23, wday : 0..6, gmtoff : Int, year : Int,
            mon : 0..11, mday : Int]

LEMMA TmType ==
    ASSUME NEW s \in Int, NEW o \in Int, DayOf(s, o) \in DOMAIN Calendar
    PROVE  Tm(s, o) \in Instant
  <1> DEFINE t == s + o
             d == t \div 86400
  <1>1. t \in Int /\ d \in Int
    OBVIOUS
  <1>2. t % 60 \in 0..59 /\ (t \div 60) % 60 \in 0..59 /\ (t \div 3600) % 24 \in 0..23
    BY <1>1
  <1>3. (d + 4) % 7 \in 0..6
    BY <1>1
  <1>4. DayOf(s, o) = d
    BY DEF DayOf
  <1>5. PICK y \in Int, n \in 0..11, m \in Int :
           y = Calendar[d].year /\ n = Calendar[d].mon /\ m = Calendar[d].mday
    BY <1>4, CalendarAssumption
  <1>6. Tm(s, o) = [sec |-> t % 60, min |-> (t \div 60) % 60, hour |-> (t \div 3600) % 24,
                    wday |-> (d + 4) % 7, gmtoff |-> o, year |-> y, mon |-> n, mday |-> m]
    BY <1>4, <1>5 DEF Tm
  <1> QED
    BY <1>1, <1>2, <1>3, <1>6, SMT DEF Instant

LEMMA TimeType ==
    ASSUME NEW msg \in Messages, NEW z
    PROVE  get_time(msg, z) \in Instant
  <1>1. msg.time[1] \in Int /\ msg.zone \in Int /\ 0 \in Int
    BY MessageTypes, ZoneMinutes
  <1>2. DayOf(msg.time[1], 0) \in DOMAIN Calendar /\ DayOf(msg.time[1], msg.zone) \in DOMAIN Calendar
    BY MessagesAssumption
  <1> QED
    BY <1>1, <1>2, TmType DEF get_time

LEMMA NumberTypes ==
    ASSUME NEW tm \in Instant
    PROVE  /\ tm.sec \in Int /\ tm.min \in Int /\ tm.hour \in Int /\ tm.mday \in Int
           /\ tm.mon \in Int /\ tm.mon + 1 \in 1..12 /\ tm.wday + 1 \in 1..7
           /\ tm.year \in Int /\ to12h(tm) \in Int
BY DEF Instant, to12h

LEMMA JoinTwo ==
    ASSUME NEW sep \in Names, NEW u \in Int, NEW v \in Int
    PROVE  pad_n_join(u, v, sep) \in Seq(Pieces)
  <1>1. Num(u, 2) \in Pieces /\ Num(v, 2) \in Pieces /\ Ch(sep) \in Pieces
    BY PieceTypes
  <1> QED
    BY <1>1 DEF pad_n_join

LEMMA JoinThree ==
    ASSUME NEW sep \in Names, NEW u \in Int, NEW v \in Int, NEW w \in Int
    PROVE  pad_n_join3(u, v, w, sep) \in Seq(Pieces)
  <1>1. Num(u, 2) \in Pieces /\ Num(v, 2) \in Pieces /\ Num(w, 2) \in Pieces /\ Ch(sep) \in Pieces
    BY PieceTypes
  <1> QED
    BY <1>1 DEF pad_n_join3

LEMMA ClockTypes ==
    ASSUME NEW tm \in Instant
    PROVE  /\ Clock(tm) \in Seq(Pieces) /\ Date(tm) \in Seq(Pieces) /\ Year(tm) \in Pieces
           /\ ampm(tm) \in Pieces /\ z_formatter(tm) \in Seq(Pieces)
  <1>1. Clock(tm) \in Seq(Pieces) /\ Date(tm) \in Seq(Pieces)
    <2>1. ":" \in Names /\ "/" \in Names
      BY FixedNames
    <2>2. PICK s \in Int, m \in Int, h \in Int, d \in Int, n \in Int, y \in Int :
             /\ s = tm.sec /\ m = tm.min /\ h = tm.hour /\ d = tm.mday
             /\ n = tm.mon /\ y = tm.year
      BY NumberTypes
    <2>3. n + 1 \in Int /\ y % 100 \in Int
      OBVIOUS
    <2>4. pad_n_join3(h, m, s, ":") \in Seq(Pieces) /\ pad_n_join3(n + 1, d, y % 100, "/") \in Seq(Pieces)
      BY <2>1, <2>3, JoinThree
    <2> QED
      BY <2>2, <2>4 DEF Clock, Date
  <1>2. Year(tm) \in Pieces
    BY NumberTypes, PieceTypes DEF Year
  <1>3. ampm(tm) \in Pieces
    BY FixedNames, PieceTypes DEF ampm
  <1>4. z_formatter(tm) \in Seq(Pieces)
    <2> DEFINE total == utc_minutes_offset(tm)
               abs == IF total < 0 THEN -total ELSE total
    <2>1. total \in Int
      BY DEF utc_minutes_offset, Instant
    <2> HIDE DEF total
    <2>2. abs \in Int
      BY <2>1
    <2> HIDE DEF abs
    <2>3. PICK q \in Int, r \in Int : q = abs \div 60 /\ r = abs % 60
      BY <2>2
    <2> HIDE DEF abs
    <2>4. /\ pad_n_join(q, r, ":") \in Seq(Pieces)
          /\ <<Ch(IF total < 0 THEN "-" ELSE "+")>> \in Seq(Pieces)
      <3>1. ":" \in Names /\ (IF total < 0 THEN "-" ELSE "+") \in Names
        BY FixedNames
      <3>2. Ch(IF total < 0 THEN "-" ELSE "+") \in Pieces
        BY <3>1, PieceTypes
      <3> QED
        BY <3>1, <3>2, JoinTwo
    <2> QED
      BY <2>3, <2>4, ConcatProperties DEF z_formatter, abs, total
  <1> QED
    BY <1>1, <1>2, <1>3, <1>4

LEMMA FractionTypes ==
    ASSUME NEW msg \in Messages
    PROVE  /\ millis(msg) \in Int /\ micros(msg) \in Int
           /\ msg.time[1] \in Int /\ msg.time[2] \in Int
  <1>0. Nanoseconds \subseteq Int
    BY SMT DEF Nanoseconds
  <1>1. PICK n \in Int : n = msg.time[2]
    BY <1>0, MessageTypes
  <1>2. (n \div 1000000) % 1000 \in Int /\ (n \div 1000) % 1000000 \in Int
    BY SMT
  <1> QED
    BY <1>1, <1>2, MessageTypes, SMT DEF millis, micros

LEMMA TimeTextType ==
    ASSUME NEW msg \in Messages, NEW tm \in Instant, NEW c \in TimeFlags
    PROVE  TimeText(msg, tm)[c] \in Seq(Pieces)
  <1> DEFINE day == Ch(days[tm.wday + 1])
             month == Ch(months[tm.mon + 1])
  <1>0. /\ day \in Pieces /\ month \in Pieces
        /\ Ch(full_days[tm.wday + 1]) \in Pieces /\ Ch(full_months[tm.mon + 1]) \in Pieces
    <2>1. PICK i \in 1..7, j \in 1..12 : i = tm.wday + 1 /\ j = tm.mon + 1
      BY NumberTypes
    <2>2. days[i] \in Names /\ full_days[i] \in Names /\ months[j] \in Names /\ full_months[j] \in Names
      BY FixedNames
    <2> QED
      BY <2>1, <2>2, PieceTypes
  <1> DEFINE tx == TimeText(msg, tm)
  <1> HIDE DEF day, month
  <1>1. /\ tx["a"] \in Seq(Pieces)
        /\ tx["A"] \in Seq(Pieces)
        /\ tx["b"] \in Seq(Pieces)
        /\ tx["h"] \in Seq(Pieces)
        /\ tx["B"] \in Seq(Pieces)
    BY <1>0 DEF TimeText, day, month
  <1>2. PICK s \in Int, m \in Int, h \in Int, d \in Int, n \in Int, y \in Int, t \in Int :
           /\ s = tm.sec /\ m = tm.min /\ h = tm.hour /\ d = tm.mday
           /\ n = tm.mon /\ y = tm.year /\ t = to12h(tm)
    BY NumberTypes
  <1>3. /\ tx["C"] \in Seq(Pieces) /\ tx["Y"] \in Seq(Pieces) /\ tx["m"] \in Seq(Pieces)
        /\ tx["d"] \in Seq(Pieces) /\ tx["H"] \in Seq(Pieces) /\ tx["I"] \in Seq(Pieces)
        /\ tx["M"] \in Seq(Pieces) /\ tx["S"] \in Seq(Pieces)
    <2>1. y % 100 \in Int /\ n + 1 \in Int /\ 2 \in Int
      OBVIOUS
    <2>2. /\ Num(y % 100, 2) \in Pieces /\ Year(tm) \in Pieces /\ Num(n + 1, 2) \in Pieces
          /\ \A v \in {d, h, t, m, s} : Num(v, 2) \in Pieces
      BY <2>1, PieceTypes, ClockTypes
    <2> QED
      BY <1>2, <2>2 DEF TimeText
  <1>4. /\ tx["e"] \in Seq(Pieces) /\ tx["f"] \in Seq(Pieces) /\ tx["F"] \in Seq(Pieces)
        /\ tx["E"] \in Seq(Pieces)
    <2>1. /\ Num(millis(msg), 3) \in Pieces /\ Num(micros(msg), 6) \in Pieces
          /\ Num(msg.time[2], 9) \in Pieces /\ Num(msg.time[1], 0) \in Pieces
      BY FractionTypes, PieceTypes
    <2> QED
      BY <2>1 DEF TimeText
  <1>5. /\ tx["D"] \in Seq(Pieces) /\ tx["x"] \in Seq(Pieces) /\ tx["p"] \in Seq(Pieces)
        /\ tx["T"] \in Seq(Pieces) /\ tx["X"] \in Seq(Pieces) /\ tx["z"] \in Seq(Pieces)
        /\ tx["R"] \in Seq(Pieces)
    <2>1. pad_n_join(h, m, ":") \in Seq(Pieces)
      BY FixedNames, JoinTwo
    <2> QED
      BY <1>2, <2>1, ClockTypes DEF TimeText
  <1>6. tx["c"] \in Seq(Pieces) /\ tx["r"] \in Seq(Pieces)
    <2> DEFINE a == <<day, Ch(" "), month, Ch(" "), Num(tm.mday, 0), Ch(" ")>>
               b == <<Ch(" "), Year(tm)>>
               e == <<Ch(" "), ampm(tm)>>
               g == pad_n_join3(t, m, s, ":")
    <2>1. Ch(" ") \in Pieces /\ Num(tm.mday, 0) \in Pieces
      <3>1. " " \in Names
        BY FixedNames
      <3>2. Num(d, 0) \in Pieces
        BY PieceTypes
      <3> QED
        BY <1>2, <3>1, <3>2, PieceTypes
    <2>2. a \in Seq(Pieces) /\ b \in Seq(Pieces) /\ e \in Seq(Pieces)
      <3>1. Year(tm) \in Pieces /\ ampm(tm) \in Pieces /\ day \in Pieces /\ month \in Pieces
        BY <1>0, ClockTypes
      <3>2. PICK p \in Pieces, q \in Pieces, u \in Pieces, v \in Pieces, w \in Pieces, x \in Pieces :
               /\ p = Ch(" ") /\ q = Num(tm.mday, 0) /\ u = Year(tm) /\ v = ampm(tm)
               /\ w = day /\ x = month
        BY <2>1, <3>1
      <3>3. <<w, p, x, p, q, p>> \in Seq(Pieces) /\ <<p, u>> \in Seq(Pieces) /\ <<p, v>> \in Seq(Pieces)
        OBVIOUS
      <3> QED
        BY <3>2, <3>3
    <2>3. g \in Seq(Pieces) /\ Clock(tm) \in Seq(Pieces)
      BY FixedNames, JoinThree, ClockTypes
    <2>4. tx["c"] = (a \o Clock(tm)) \o b
      BY DEF TimeText, day, month
    <2>5. tx["r"] = g \o e
      BY <1>2 DEF TimeText
    <2> HIDE DEF a, b, e, g
    <2>6. a \o Clock(tm) \in Seq(Pieces) /\ g \o e \in Seq(Pieces)
      BY <2>2, <2>3, ConcatProperties
    <2>7. (a \o Clock(tm)) \o b \in Seq(Pieces)
      BY <2>2, <2>6, ConcatProperties
    <2> QED
      BY <2>4, <2>5, <2>6, <2>7
  <1> SUFFICES tx[c] \in Seq(Pieces)
    OBVIOUS
  <1> HIDE DEF tx
  <1> QED
    BY <1>1, <1>3, <1>4, <1>5, <1>6 DEF TimeFlags

LEMMA TextType ==
    ASSUME NEW msg \in Messages, NEW c \in TextFlags
    PROVE  Text(msg)[c] \in Seq(Pieces)
  <1> DEFINE tx == Text(msg)
  <1>1. /\ Ch(msg.name) \in Pieces /\ Ch(msg.level) \in Pieces /\ Ch(msg.thread) \in Pieces
        /\ <<"short", msg.level>> \in Pieces /\ Num(msg.id, 6) \in Pieces
    BY MessageTypes, PieceTypes
  <1>2. Ch("pid") \in Pieces
    <2>1. "pid" \in Names
      BY FixedNames
    <2> QED
      BY <2>1, PieceTypes
  <1>3. /\ tx["n"] \in Seq(Pieces) /\ tx["l"] \in Seq(Pieces) /\ tx["L"] \in Seq(Pieces)
        /\ tx["t"] \in Seq(Pieces) /\ tx["P"] \in Seq(Pieces) /\ tx["i"] \in Seq(Pieces)
    BY <1>1, <1>2 DEF Text
  <1>4. tx["v"] \in Seq(Pieces)
    BY MessageTypes DEF Text
  <1> SUFFICES tx[c] \in Seq(Pieces)
    OBVIOUS
  <1> HIDE DEF tx
  <1> QED
    BY <1>3, <1>4 DEF TextFlags

\* What %+ writes before and after the level.
FullTail(msg) == <<Ch("]"), Ch(" ")>> \o msg.raw

\* What it writes before: the clock is between two parts.
HeadDate(tm) == <<Ch("["), Year(tm), Ch("-"), Num(tm.mon + 1, 2), Ch("-"), Num(tm.mday, 2), Ch(" ")>>
HeadName(msg) == <<Ch("."), Num(millis(msg), 3), Ch("]"), Ch(" "),
                   Ch("["), Ch(msg.name), Ch("]"), Ch(" "), Ch("[")>>

LEMMA HeadParts ==
    ASSUME NEW msg \in Messages, NEW tm \in Instant
    PROVE  /\ HeadDate(tm) \in Seq(Pieces) /\ HeadName(msg) \in Seq(Pieces)
           /\ <<Ch("]"), Ch(" ")>> \in Seq(Pieces)
  <1>1. /\ Ch("[") \in Pieces /\ Ch("-") \in Pieces /\ Ch(" ") \in Pieces /\ Ch(".") \in Pieces
        /\ Ch("]") \in Pieces
    <2>1. "[" \in Names /\ "-" \in Names /\ " " \in Names /\ "." \in Names /\ "]" \in Names
      BY FixedNames
    <2> QED
      BY <2>1, PieceTypes
  <1>2. PICK d \in Int, n \in Int : d = tm.mday /\ n = tm.mon
    BY NumberTypes
  <1>3. Num(d, 2) \in Pieces /\ Num(n + 1, 2) \in Pieces /\ Num(millis(msg), 3) \in Pieces
    <2>1. n + 1 \in Int /\ 2 \in Int /\ millis(msg) \in Int
      BY FractionTypes
    <2> QED
      BY <2>1, PieceTypes
  <1>4. Year(tm) \in Pieces /\ Ch(msg.name) \in Pieces
    BY ClockTypes, MessageTypes, PieceTypes
  <1>5. PICK p1 \in Pieces, p2 \in Pieces, p3 \in Pieces, p4 \in Pieces, p5 \in Pieces,
             q1 \in Pieces, q2 \in Pieces, q3 \in Pieces, q4 \in Pieces, q5 \in Pieces :
           /\ p1 = Ch("[") /\ p2 = Ch("-") /\ p3 = Ch(" ") /\ p4 = Ch(".") /\ p5 = Ch("]")
           /\ q1 = Year(tm) /\ q2 = Num(n + 1, 2) /\ q3 = Num(d, 2)
           /\ q4 = Num(millis(msg), 3) /\ q5 = Ch(msg.name)
    BY <1>1, <1>3, <1>4
  <1>6. /\ <<p1, q1, p2, q2, p2, q3, p3>> \in Seq(Pieces)
        /\ <<p4, q4, p5, p3, p1, q5, p5, p3, p1>> \in Seq(Pieces)
        /\ <<p5, p3>> \in Seq(Pieces)
    OBVIOUS
  <1> QED
    BY <1>2, <1>5, <1>6 DEF HeadDate, HeadName

LEMMA FullType ==
    ASSUME NEW msg \in Messages, NEW tm \in Instant
    PROVE  /\ FullHead(msg, tm) \in Seq(Pieces) /\ FullTail(msg) \in Seq(Pieces)
           /\ <<Ch(msg.level)>> \in Seq(Pieces)
  <1> DEFINE a == HeadDate(tm)
             b == HeadName(msg)
             e == <<Ch("]"), Ch(" ")>>
  <1>1. a \in Seq(Pieces) /\ b \in Seq(Pieces) /\ e \in Seq(Pieces)
    BY HeadParts
  <1>2. Clock(tm) \in Seq(Pieces) /\ msg.raw \in Seq(Pieces) /\ Ch(msg.level) \in Pieces
    BY ClockTypes, MessageTypes, PieceTypes
  <1>3. FullHead(msg, tm) = (a \o Clock(tm)) \o b /\ FullTail(msg) = e \o msg.raw
    BY DEF FullHead, FullTail, HeadDate, HeadName
  <1> HIDE DEF a, b, e
  <1>4. a \o Clock(tm) \in Seq(Pieces) /\ e \o msg.raw \in Seq(Pieces)
    BY <1>1, <1>2, ConcatProperties
  <1>5. (a \o Clock(tm)) \o b \in Seq(Pieces)
    BY <1>1, <1>4, ConcatProperties
  <1> QED
    BY <1>2, <1>3, <1>4, <1>5

-----------------------------------------------------------------------------
(* What a formatter writes, whatever the line.                              *)
\* The formatters of patterns, and of that of %+.
Drawn == Characters \cup FullChars
Specs == Formatters(Drawn)

LEMMA DrawnNames == \A c \in Drawn \cup {"%"} : c \in Names
  <1>1. \A c \in FullChars \cup {"%"} : c \in Names
    BY FixedNames
  <1>2. \A c \in Characters : c \in Names
    BY DEF Names
  <1> QED
    BY <1>1, <1>2 DEF Drawn

\* What a formatter appends to the line.
ShownText(c, msg, tm) ==
    CASE c = "+" -> (FullHead(msg, tm) \o <<Ch(msg.level)>>) \o FullTail(msg)
      [] c = "^" -> <<>>
      [] c = "$" -> <<>>
      [] c \in TextFlags -> Text(msg)[c]
      [] c \in TimeFlags -> TimeText(msg, tm)[c]
Shown(f, msg, tm) ==
    CASE f[1] = "user" -> [i \in DOMAIN f[2] |-> Ch(f[2][i])]
      [] f[1] = "ch" -> <<Ch(f[2])>>
      [] f[1] = "flag" -> ShownText(f[2], msg, tm)

LEMMA Disjoint ==
    /\ \A c \in TextFlags : c \notin TimeFlags /\ c \notin {"+", "^", "$"}
    /\ \A c \in TimeFlags : c \notin TextFlags /\ c \notin {"+", "^", "$"}
BY DEF TextFlags, TimeFlags

LEMMA ShownTextType ==
    ASSUME NEW msg \in Messages, NEW tm \in Instant, NEW c \in Flags
    PROVE  ShownText(c, msg, tm) \in Seq(Pieces)
  <1>1. CASE c = "+"
    <2>1. FullHead(msg, tm) \o <<Ch(msg.level)>> \in Seq(Pieces)
      BY FullType, ConcatProperties
    <2>2. (FullHead(msg, tm) \o <<Ch(msg.level)>>) \o FullTail(msg) \in Seq(Pieces)
      BY <2>1, FullType, ConcatProperties
    <2>3. ShownText("+", msg, tm) = (FullHead(msg, tm) \o <<Ch(msg.level)>>) \o FullTail(msg)
      BY Disjoint DEF ShownText
    <2> QED
      BY <1>1, <2>2, <2>3
  <1>2. CASE c \in {"^", "$"}
    <2>1. ShownText("^", msg, tm) = <<>> /\ ShownText("$", msg, tm) = <<>>
      BY Disjoint DEF ShownText
    <2> QED
      BY <1>2, <2>1, EmptySeq
  <1>3. CASE c \in TextFlags
    <2>1. ShownText(c, msg, tm) = Text(msg)[c]
      BY <1>3, Disjoint DEF ShownText
    <2> QED
      BY <1>3, <2>1, TextType
  <1>4. CASE c \in TimeFlags
    <2>1. ShownText(c, msg, tm) = TimeText(msg, tm)[c]
      BY <1>4, Disjoint DEF ShownText
    <2> QED
      BY <1>4, <2>1, TimeTextType
  <1> QED
    BY <1>1, <1>2, <1>3, <1>4 DEF Flags

LEMMA ShownType ==
    ASSUME NEW msg \in Messages, NEW tm \in Instant, NEW f \in Specs
    PROVE  Shown(f, msg, tm) \in Seq(Pieces)
  <1>1. CASE f[1] = "user"
    <2>1. PICK chars \in Seq(Drawn) : chars = f[2]
      BY <1>1 DEF Specs, Formatters, Marked
    <2>2. \A i \in 1..Len(chars) : Ch(chars[i]) \in Pieces
      BY ElementOfSeq, PieceTypes, DrawnNames
    <2>3. Len(chars) \in Nat /\ DOMAIN chars = 1..Len(chars)
      BY LenProperties
    <2>4. [i \in 1..Len(chars) |-> Ch(chars[i])] \in Seq(Pieces)
      BY <2>2, <2>3
    <2> QED
      BY <1>1, <2>1, <2>3, <2>4 DEF Shown
  <1>2. CASE f[1] = "ch"
    <2>1. f[2] \in Names
      BY <1>2, DrawnNames DEF Specs, Formatters, Marked
    <2>2. Ch(f[2]) \in Pieces
      BY <2>1, PieceTypes
    <2> QED
      BY <1>2, <2>2 DEF Shown
  <1>3. CASE f[1] = "flag"
    <2>1. f[2] \in Flags
      BY <1>3 DEF Specs, Formatters, Marked
    <2> QED
      BY <1>3, <2>1, ShownTextType DEF Shown
  <1>4. f[1] \in {"user", "ch", "flag"}
    BY DEF Specs, Formatters, Marked
  <1> QED
    BY <1>1, <1>2, <1>3, <1>4

-----------------------------------------------------------------------------
(* A line keeps the range of its colour within it; only the marks and %+    *)
(* move the range.                                                          *)
\* Lines whose range is within the text.
GoodLines == {l \in [formatted : Seq(Pieces), start : Nat, end : Nat] :
                l.start <= Len(l.formatted) /\ l.end <= Len(l.formatted)}
\* The formatters that move the range.
Starters == {<<"flag", "^">>, <<"flag", "+">>}
Stoppers == {<<"flag", "$">>, <<"flag", "+">>}

LEMMA Writes ==
    ASSUME NEW line \in GoodLines, NEW p \in Seq(Pieces)
    PROVE  /\ Write(line, p) \in GoodLines
           /\ Write(line, p).formatted = line.formatted \o p
           /\ Write(line, p).start = line.start /\ Write(line, p).end = line.end
  <1>1. PICK t \in Seq(Pieces), s \in Nat, e \in Nat :
           t = line.formatted /\ s = line.start /\ e = line.end
    BY DEF GoodLines
  <1>2. t \o p \in Seq(Pieces) /\ Len(t \o p) = Len(t) + Len(p) /\ Len(t) \in Nat /\ Len(p) \in Nat
    BY Joined, LenProperties
  <1>3. s <= Len(t) /\ e <= Len(t)
    BY <1>1 DEF GoodLines
  <1>4. s <= Len(t \o p) /\ e <= Len(t \o p)
    BY <1>2, <1>3
  <1>5. Write(line, p) = [formatted |-> t \o p, start |-> s, end |-> e]
    <2>1. line \in [formatted : Seq(Pieces), start : Nat, end : Nat]
      BY DEF GoodLines
    <2>2. line = [formatted |-> t, start |-> s, end |-> e]
      BY <1>1, <2>1
    <2> DEFINE u == t \o p
    <2>3. Write(line, p) = [line EXCEPT !.formatted = u]
      BY <1>1 DEF Write
    <2> HIDE DEF u
    <2>4. [line EXCEPT !.formatted = u] = [formatted |-> u, start |-> s, end |-> e]
      BY <2>2
    <2> QED
      BY <2>3, <2>4 DEF u
  <1> DEFINE u == t \o p
  <1>6. u \in Seq(Pieces) /\ s <= Len(u) /\ e <= Len(u)
    BY <1>2, <1>4
  <1> HIDE DEF u
  <1> QED
    BY <1>1, <1>5, <1>6 DEF GoodLines, u

LEMMA Colours ==
    ASSUME NEW line \in GoodLines
    PROVE  /\ ColorStart(line) \in GoodLines /\ ColorStop(line) \in GoodLines
           /\ ColorStart(line) = [line EXCEPT !.start = Len(line.formatted)]
           /\ ColorStart(line).formatted = line.formatted
           /\ ColorStart(line).start = Len(line.formatted) /\ ColorStart(line).end = line.end
           /\ ColorStop(line).formatted = line.formatted
           /\ ColorStop(line).end = Len(line.formatted) /\ ColorStop(line).start = line.start
  <1>1. PICK t \in Seq(Pieces), s \in Nat, e \in Nat :
           t = line.formatted /\ s = line.start /\ e = line.end
    BY DEF GoodLines
  <1>2. Len(t) \in Nat /\ s <= Len(t) /\ e <= Len(t)
    BY <1>1, LenProperties DEF GoodLines
  <1>3. /\ ColorStart(line) = [formatted |-> t, start |-> Len(t), end |-> e]
        /\ ColorStop(line) = [formatted |-> t, start |-> s, end |-> Len(t)]
    BY <1>1 DEF ColorStart, ColorStop, GoodLines
  <1> QED
    BY <1>1, <1>2, <1>3 DEF GoodLines, ColorStart

\* What is written to a terminal: lines, with their codes.
Outs == Seq(Pieces \cup Codes)

LEMMA Regroup ==
    /\ \A a, b \in Outs : a \o b \in Outs
    /\ \A a, b, c \in Outs : (a \o b) \o c = a \o (b \o c)
    /\ Seq(Pieces) \subseteq Outs
  <1>1. ASSUME NEW a \in Outs, NEW b \in Outs PROVE a \o b \in Outs
    BY ConcatProperties DEF Outs
  <1>2. ASSUME NEW a \in Outs, NEW b \in Outs, NEW c \in Outs
        PROVE  (a \o b) \o c = a \o (b \o c)
    BY ConcatAssociative DEF Outs
  <1>3. ASSUME NEW a \in Seq(Pieces) PROVE a \in Outs
    BY LenProperties, ElementOfSeq DEF Outs
  <1> QED
    BY <1>1, <1>2, <1>3

\* What a formatter does to the line and the range of its colour.
Formats(l, line, f, shown) ==
    /\ l \in GoodLines
    /\ l.formatted = line.formatted \o shown
    /\ f \notin Starters => l.start = line.start
    /\ f \notin Stoppers => l.end = line.end
    /\ f = <<"flag", "^">> => l.start = Len(line.formatted)
    /\ f = <<"flag", "$">> => l.end = Len(line.formatted)

LEMMA WriteFormats ==
    ASSUME NEW line \in GoodLines, NEW p \in Seq(Pieces), NEW f,
           f # <<"flag", "^">>, f # <<"flag", "$">>
    PROVE  Formats(Write(line, p), line, f, p)
  <1> USE Writes
  <1> QED
    BY DEF Formats

LEMMA FlagWrites ==
    ASSUME NEW msg, NEW tm, NEW line, NEW c \in TextFlags \cup TimeFlags
    PROVE  /\ FormatOne(line, <<"flag", c>>, msg, tm) = Write(line, ShownText(c, msg, tm))
           /\ Shown(<<"flag", c>>, msg, tm) = ShownText(c, msg, tm)
  <1>1. c \notin {"+", "^", "$"}
    BY Disjoint
  <1>2. Shown(<<"flag", c>>, msg, tm) = ShownText(c, msg, tm)
    BY DEF Shown
  <1>3. CASE c \in TextFlags
    <2>1. c \notin TimeFlags
      BY <1>3, Disjoint
    <2> QED
      BY <1>1, <1>2, <1>3, <2>1 DEF FormatOne, ShownText
  <1>4. CASE c \in TimeFlags
    <2>1. c \notin TextFlags
      BY <1>4, Disjoint
    <2> QED
      BY <1>1, <1>2, <1>4, <2>1 DEF FormatOne, ShownText
  <1> QED
    BY <1>3, <1>4

LEMMA MarkWrites ==
    ASSUME NEW msg, NEW tm, NEW line
    PROVE  /\ FormatOne(line, <<"flag", "^">>, msg, tm) = ColorStart(line)
           /\ FormatOne(line, <<"flag", "$">>, msg, tm) = ColorStop(line)
           /\ FormatOne(line, <<"flag", "+">>, msg, tm) = full_formatter(line, msg, tm)
BY Disjoint DEF FormatOne

LEMMA OneFormat ==
    ASSUME NEW msg \in Messages, NEW tm \in Instant, NEW line \in GoodLines,
           NEW f \in Specs
    PROVE  Formats(FormatOne(line, f, msg, tm), line, f, Shown(f, msg, tm))
  <1>0. line.formatted \in Seq(Pieces)
    BY DEF GoodLines
  <1>1. CASE f[1] \in {"user", "ch"}
    <2>1. FormatOne(line, f, msg, tm) = Write(line, Shown(f, msg, tm))
      BY <1>1 DEF FormatOne, Shown
    <2>2. f # <<"flag", "^">> /\ f # <<"flag", "$">>
      BY <1>1
    <2> QED
      BY <2>1, <2>2, ShownType, WriteFormats
  <1>2. CASE f[1] = "flag"
    <2>0. PICK c \in Flags : f = <<"flag", c>>
      BY <1>2 DEF Specs, Formatters, Marked
    <2>1. CASE c = "+"
      <3> DEFINE h == FullHead(msg, tm)
                 v == <<Ch(msg.level)>>
                 t == FullTail(msg)
                 l1 == Write(line, h)
                 l2 == Write(ColorStart(l1), v)
                 l3 == Write(ColorStop(l2), t)
      <3>1. FormatOne(line, f, msg, tm) = l3
        <4>1. FormatOne(line, f, msg, tm) = full_formatter(line, msg, tm)
          BY <2>0, <2>1, MarkWrites
        <4> QED
          BY <4>1 DEF full_formatter, FullTail
      <3>2. Shown(f, msg, tm) = (h \o v) \o t
        <4>1. f[1] = "flag" /\ f[2] = "+"
          BY <2>0, <2>1
        <4>2. Shown(f, msg, tm) = ShownText("+", msg, tm)
          BY <4>1 DEF Shown
        <4> QED
          BY <4>2, Disjoint DEF ShownText
      <3>3. h \in Seq(Pieces) /\ v \in Seq(Pieces) /\ t \in Seq(Pieces)
        BY FullType
      <3> HIDE DEF h, v, t
      <3>4. l1 \in GoodLines /\ l1.formatted = line.formatted \o h
        BY <3>3, Writes
      <3> HIDE DEF l1
      <3>5. l2 \in GoodLines /\ l2.formatted = l1.formatted \o v
        <4>1. ColorStart(l1) \in GoodLines /\ ColorStart(l1).formatted = l1.formatted
          BY <3>4, Colours
        <4> QED
          BY <3>3, <4>1, Writes
      <3> HIDE DEF l2
      <3>6. l3 \in GoodLines /\ l3.formatted = l2.formatted \o t
        <4>1. ColorStop(l2) \in GoodLines /\ ColorStop(l2).formatted = l2.formatted
          BY <3>5, Colours
        <4> QED
          BY <3>3, <4>1, Writes
      <3> HIDE DEF l3
      <3>8. line.formatted \in Outs /\ h \in Outs /\ v \in Outs /\ t \in Outs
        BY <1>0, <3>3, Regroup
      <3>9. ((line.formatted \o h) \o v) \o t = line.formatted \o ((h \o v) \o t)
        <4>1. (line.formatted \o h) \o v = line.formatted \o (h \o v) /\ h \o v \in Outs
          BY <3>8, Regroup
        <4>2. (line.formatted \o (h \o v)) \o t = line.formatted \o ((h \o v) \o t)
          BY <3>8, <4>1, Regroup
        <4> QED
          BY <4>1, <4>2
      <3>10. l3.formatted = line.formatted \o ((h \o v) \o t)
        BY <3>4, <3>5, <3>6, <3>9
      <3>11. f \in Starters /\ f \in Stoppers /\ f # <<"flag", "^">> /\ f # <<"flag", "$">>
        BY <2>0, <2>1 DEF Starters, Stoppers
      <3> QED
        BY <3>1, <3>2, <3>6, <3>10, <3>11 DEF Formats
    <2>2. CASE c = "^" \/ c = "$"
      <3>1. /\ c = "^" => FormatOne(line, f, msg, tm) = ColorStart(line)
            /\ c = "$" => FormatOne(line, f, msg, tm) = ColorStop(line)
        BY <2>0, MarkWrites
      <3>2. Shown(f, msg, tm) = <<>>
        BY <2>0, <2>2, Disjoint DEF Shown, ShownText
      <3>3. line.formatted \o <<>> = line.formatted
        BY <1>0, ConcatEmptySeq
      <3>4. /\ c = "^" => f = <<"flag", "^">> /\ f \notin Stoppers
            /\ c = "$" => f = <<"flag", "$">> /\ f \notin Starters
        BY <2>0 DEF Starters, Stoppers
      <3>5. f \in Starters \cup Stoppers /\ (c = "^" => f \in Starters /\ f # <<"flag", "$">>)
            /\ (c = "$" => f \in Stoppers /\ f # <<"flag", "^">>)
        BY <2>0, <2>2 DEF Starters, Stoppers
      <3> QED
        BY <2>2, <3>1, <3>2, <3>3, <3>4, <3>5, Colours DEF Formats
    <2>3. CASE c \in TextFlags \cup TimeFlags
      <3>1. c \notin {"+", "^", "$"}
        BY <2>3, Disjoint
      <3>2. FormatOne(line, f, msg, tm) = Write(line, Shown(f, msg, tm))
        BY <2>0, <2>3, FlagWrites
      <3>3. f # <<"flag", "^">> /\ f # <<"flag", "$">>
        BY <2>0, <3>1
      <3> QED
        BY <3>2, <3>3, ShownType, WriteFormats
    <2> QED
      BY <2>1, <2>2, <2>3 DEF Flags
  <1> QED
    BY <1>1, <1>2 DEF Specs, Formatters, Marked

-----------------------------------------------------------------------------
(* The line after each formatter.                                           *)
\* The line before the first formatter.
NoLine == [formatted |-> <<>>, start |-> 0, end |-> 0]

LEMMA CompiledType ==
    ASSUME NEW C, NEW p \in Seq(C)
    PROVE  compile_pattern(p) \in Seq(Formatters(C))
  <1>1. Len(p) \in Nat /\ Scanned(Scans(p), p, C)
    BY LenProperties, ScansFollow
  <1>2. Scans(p)[Len(p)] \in Readings(C)
    BY <1>1 DEF Scanned
  <1> QED
    BY <1>2, AllUser DEF compile_pattern, Readings

\* h follows the line through the formatters.
Builds(h, fs, msg, tm) ==
    /\ h \in [0..Len(fs) -> GoodLines] /\ h[0] = NoLine
    /\ \A i \in 1..Len(fs) : /\ h[i] = FormatOne(h[i - 1], fs[i], msg, tm)
                              /\ Formats(h[i], h[i - 1], fs[i], Shown(fs[i], msg, tm))

LEMMA LinesFollow ==
    ASSUME NEW msg \in Messages, NEW tm \in Instant, NEW fs \in Seq(Specs)
    PROVE  Builds(Lines(fs, msg, tm), fs, msg, tm)
  <1> DEFINE step == [i \in 1..Len(fs) |-> [l \in GoodLines |-> FormatOne(l, fs[i], msg, tm)]]
             G(f) == [n \in 0..Len(fs) |-> IF n = 0 THEN NoLine
                                           ELSE FormatOne(f[n - 1], fs[n], msg, tm)]
             h == CHOOSE f : f = G(f)
  <1>0. Len(fs) \in Nat /\ \A i \in 1..Len(fs) : fs[i] \in Specs
    BY LenProperties, ElementOfSeq
  <1>1. NoLine \in GoodLines
    BY EmptySeq DEF NoLine, GoodLines
  <1>2. \A i \in 1..Len(fs), l \in GoodLines :
           Formats(FormatOne(l, fs[i], msg, tm), l, fs[i], Shown(fs[i], msg, tm))
    BY <1>0, OneFormat
  <1>3. step \in [1..Len(fs) -> [GoodLines -> GoodLines]]
    BY <1>2 DEF Formats
  <1>4. \A i \in 1..Len(fs), l \in GoodLines : step[i][l] = FormatOne(l, fs[i], msg, tm)
    OBVIOUS
  <1> HIDE DEF step
  <1>5. PICK f : Unrolls(f, GoodLines, NoLine, step, Len(fs))
    BY <1>0, <1>1, <1>3, Unrolling
  <1>6. f = G(f)
    <2>1. ASSUME NEW i \in 0..Len(fs)
          PROVE  f[i] = IF i = 0 THEN NoLine ELSE FormatOne(f[i - 1], fs[i], msg, tm)
      <3>1. CASE i = 0
        BY <1>5, <3>1 DEF Unrolls
      <3>2. CASE i # 0
        <4>1. i \in 1..Len(fs) /\ i - 1 \in 0..Len(fs)
          BY <1>0, <3>2
        <4>2. f[i - 1] \in GoodLines /\ f[i] = step[i][f[i - 1]]
          BY <1>5, <4>1 DEF Unrolls
        <4> QED
          BY <1>4, <3>2, <4>1, <4>2
      <3> QED
        BY <3>1, <3>2
    <2>2. f \in [0..Len(fs) -> GoodLines]
      BY <1>5 DEF Unrolls
    <2> QED
      BY <2>1, <2>2
  <1>7. h = G(h)
    BY <1>6
  <1>8. Lines(fs, msg, tm) = h
    BY DEF Lines, NoLine
  <1> HIDE DEF h
  <1>9. /\ DOMAIN h = 0..Len(fs) /\ h = [i \in DOMAIN h |-> h[i]] /\ h[0] = NoLine
        /\ \A i \in 1..Len(fs) : h[i] = FormatOne(h[i - 1], fs[i], msg, tm)
    <2>1. \A i \in 0..Len(fs) :
             h[i] = IF i = 0 THEN NoLine ELSE FormatOne(h[i - 1], fs[i], msg, tm)
      BY <1>7
    <2>2. 0 \in 0..Len(fs) /\ \A i \in 1..Len(fs) : i \in 0..Len(fs) /\ i # 0
      BY <1>0
    <2> QED
      BY <1>7, <2>1, <2>2
  <1>10. \A i \in 1..Len(fs) : h[i - 1] \in GoodLines => h[i] = step[i][h[i - 1]]
    BY <1>4, <1>9
  <1>11. Unrolls(h, GoodLines, NoLine, step, Len(fs))
    BY <1>0, <1>1, <1>3, <1>9, <1>10, Unrolled
  <1>12. ASSUME NEW i \in 1..Len(fs)
         PROVE  Formats(h[i], h[i - 1], fs[i], Shown(fs[i], msg, tm))
    <2>1. i - 1 \in 0..Len(fs) /\ h[i - 1] \in GoodLines
      BY <1>0, <1>11 DEF Unrolls
    <2> QED
      BY <1>2, <1>9, <2>1
  <1> QED
    BY <1>8, <1>9, <1>11, <1>12 DEF Builds, Unrolls

\* The formatters gs stand in fs, behind the bth.
StandIn(gs, fs, b) ==
    /\ b \in Nat /\ Len(fs) \in Nat /\ Len(gs) \in Nat /\ b + Len(gs) <= Len(fs)
    /\ \A i \in 1..Len(gs) : gs[i] = fs[b + i]

\* h goes on behind the bth as g does up to its nth.
WriteOn(h, b, g, n) == h[b + n].formatted = h[b].formatted \o g[n].formatted

\* Formatters that stand alike, from b on and from the start, write alike.
LEMMA WritesAlike ==
    ASSUME NEW msg \in Messages, NEW tm \in Instant,
           NEW fs, NEW h, Builds(h, fs, msg, tm),
           NEW gs \in Seq(Specs), NEW g, Builds(g, gs, msg, tm),
           NEW b, StandIn(gs, fs, b)
    PROVE  WriteOn(h, b, g, Len(gs))
  <1> DEFINE x == h[b].formatted
             P(i) == WriteOn(h, b, g, i)
             S == {i \in Nat : i <= Len(gs) => P(i)}
  <1> USE DEF StandIn
  <1>0. /\ \A i \in 0..Len(fs) : h[i].formatted \in Outs /\ h[i].formatted \in Seq(Pieces)
        /\ \A i \in 0..Len(gs) : g[i].formatted \in Outs
    BY Regroup DEF Builds, GoodLines
  <1>1. P(0)
    <2>1. g[0].formatted = <<>> /\ b + 0 = b /\ x \in Seq(Pieces)
      <3>1. b \in 0..Len(fs)
        OBVIOUS
      <3> QED
        BY <1>0, <3>1 DEF Builds, NoLine
    <2>2. x \o <<>> = x
      BY <2>1, ConcatEmptySeq
    <2> QED
      BY <2>1, <2>2 DEF WriteOn
  <1>2. ASSUME NEW i \in Nat, i + 1 <= Len(gs), P(i) PROVE P(i + 1)
    <2>1. /\ i + 1 \in 1..Len(gs) /\ (i + 1) - 1 = i /\ i \in 0..Len(gs)
          /\ b + (i + 1) \in 1..Len(fs) /\ (b + (i + 1)) - 1 = b + i /\ b \in 0..Len(fs)
      BY <1>2
    <2> DEFINE s == Shown(gs[i + 1], msg, tm)
    <2>2. h[b + (i + 1)].formatted = h[b + i].formatted \o s
      <3>1. Formats(h[b + (i + 1)], h[b + i], fs[b + (i + 1)], Shown(fs[b + (i + 1)], msg, tm))
        BY <2>1 DEF Builds
      <3>2. fs[b + (i + 1)] = gs[i + 1]
        BY <2>1
      <3> QED
        BY <3>1, <3>2 DEF Formats
    <2>3. g[i + 1].formatted = g[i].formatted \o s
      BY <2>1 DEF Builds, Formats
    <2>4. s \in Outs
      <3>1. gs[i + 1] \in Specs
        BY <2>1, ElementOfSeq
      <3> QED
        BY <3>1, ShownType, Regroup
    <2>5. h[b + i].formatted = x \o g[i].formatted
      BY <1>2 DEF WriteOn
    <2>6. x \in Outs /\ g[i].formatted \in Outs
      BY <1>0, <2>1
    <2> SUFFICES h[b + (i + 1)].formatted = x \o g[i + 1].formatted
      BY DEF WriteOn
    <2> HIDE DEF s, x
    <2>7. (x \o g[i].formatted) \o s = x \o (g[i].formatted \o s)
      BY <2>4, <2>6, Regroup
    <2> QED
      BY <2>2, <2>3, <2>5, <2>7
  <1> SUFFICES P(Len(gs))
    OBVIOUS
  <1> HIDE DEF P
  <1>3. 0 \in S /\ \A i \in Nat : i \in S => i + 1 \in S
    BY <1>1, <1>2
  <1> HIDE DEF S
  <1>4. Nat \subseteq S
    BY <1>3, Induction
  <1> QED
    BY <1>4 DEF S

\* Where no mark is left, the range stays.
LEMMA Stays ==
    ASSUME NEW msg, NEW tm, NEW fs, NEW h, Builds(h, fs, msg, tm), Len(fs) \in Nat,
           NEW b \in 0..Len(fs)
    PROVE  /\ (\A i \in (b + 1)..Len(fs) : fs[i] \notin Starters)
                => h[Len(fs)].start = h[b].start
           /\ (\A i \in (b + 1)..Len(fs) : fs[i] \notin Stoppers)
                => h[Len(fs)].end = h[b].end
  <1>1. ASSUME \A i \in (b + 1)..Len(fs) : fs[i] \notin Starters
        PROVE  h[Len(fs)].start = h[b].start
    <2> DEFINE P(i) == h[b + i].start = h[b].start
               S == {i \in Nat : b + i <= Len(fs) => P(i)}
    <2>1. P(0)
      OBVIOUS
    <2>2. ASSUME NEW i \in Nat, b + (i + 1) <= Len(fs), P(i) PROVE P(i + 1)
      <3>1. b + (i + 1) \in (b + 1)..Len(fs) /\ b + (i + 1) \in 1..Len(fs)
            /\ (b + (i + 1)) - 1 = b + i
        BY <2>2
      <3>2. h[b + (i + 1)].start = h[b + i].start
        BY <1>1, <3>1 DEF Builds, Formats
      <3> QED
        BY <2>2, <3>2
    <2> HIDE DEF P
    <2>3. 0 \in S /\ \A i \in Nat : i \in S => i + 1 \in S
      BY <2>1, <2>2
    <2> HIDE DEF S
    <2>4. Nat \subseteq S
      BY <2>3, Induction
    <2>5. Len(fs) - b \in Nat /\ b + (Len(fs) - b) = Len(fs)
      OBVIOUS
    <2>6. P(Len(fs) - b)
      BY <2>4, <2>5 DEF S
    <2> QED
      BY <2>5, <2>6 DEF P
  <1>2. ASSUME \A i \in (b + 1)..Len(fs) : fs[i] \notin Stoppers
        PROVE  h[Len(fs)].end = h[b].end
    <2> DEFINE P(i) == h[b + i].end = h[b].end
               S == {i \in Nat : b + i <= Len(fs) => P(i)}
    <2>1. P(0)
      OBVIOUS
    <2>2. ASSUME NEW i \in Nat, b + (i + 1) <= Len(fs), P(i) PROVE P(i + 1)
      <3>1. b + (i + 1) \in (b + 1)..Len(fs) /\ b + (i + 1) \in 1..Len(fs)
            /\ (b + (i + 1)) - 1 = b + i
        BY <2>2
      <3>2. h[b + (i + 1)].end = h[b + i].end
        BY <1>2, <3>1 DEF Builds, Formats
      <3> QED
        BY <2>2, <3>2
    <2> HIDE DEF P
    <2>3. 0 \in S /\ \A i \in Nat : i \in S => i + 1 \in S
      BY <2>1, <2>2
    <2> HIDE DEF S
    <2>4. Nat \subseteq S
      BY <2>3, Induction
    <2>5. Len(fs) - b \in Nat /\ b + (Len(fs) - b) = Len(fs)
      OBVIOUS
    <2>6. P(Len(fs) - b)
      BY <2>4, <2>5 DEF S
    <2> QED
      BY <2>5, <2>6 DEF P
  <1> QED
    BY <1>1, <1>2

\* The line l holds the text m between its marks.
Spans(l, m) == \E x \in Seq(Pieces), r \in Seq(Pieces) :
                  /\ l.formatted = (x \o m) \o r
                  /\ l.start = Len(x) /\ l.end = Len(x \o m)

LEMMA MarkedSpans ==
    ASSUME NEW msg \in Messages, NEW tm \in Instant, NEW fs \in Seq(Specs),
           NEW b, NEW e, Marks(fs, "^") = {b}, Marks(fs, "$") = {e}, b < e, Marks(fs, "+") = {}
    PROVE  LET gs == SubSeq(fs, b + 1, e - 1)
               m == Lines(gs, msg, tm)[Len(gs)].formatted
           IN  /\ m \in Seq(Pieces) /\ gs \in Seq(Specs)
               /\ Spans(Lines(fs, msg, tm)[Len(fs)], m)
  <1> DEFINE h == Lines(fs, msg, tm)
             n == Len(fs)
             gs == SubSeq(fs, b + 1, e - 1)
             rs == SubSeq(fs, e, n)
             g == Lines(gs, msg, tm)
             k == Lines(rs, msg, tm)
             m == g[Len(gs)].formatted
             r == k[Len(rs)].formatted
             x == h[b].formatted
  <1>1. b \in 1..n /\ e \in 1..n /\ n \in Nat /\ fs[b] = <<"flag", "^">> /\ fs[e] = <<"flag", "$">>
    BY LenProperties DEF Marks
  <1>2. \A i \in 1..n : fs[i] \in Specs
    BY ElementOfSeq
  <1>3. /\ \A i \in (b + 1)..n : fs[i] \notin Starters
        /\ \A i \in (e + 1)..n : fs[i] \notin Stoppers
    BY <1>1 DEF Marks, Starters, Stoppers
  <1>4. /\ gs \in Seq(Specs) /\ Len(gs) \in Nat /\ b + Len(gs) = e - 1 /\ b + Len(gs) <= n
        /\ \A i \in 1..Len(gs) : gs[i] = fs[b + i]
    <2>1. \A i \in (b + 1)..(e - 1) : fs[i] \in Specs
      BY <1>1, <1>2
    <2>2. /\ gs \in Seq(Specs) /\ Len(gs) = IF b + 1 <= e - 1 THEN (e - 1) - (b + 1) + 1 ELSE 0
          /\ \A i \in 1..((e - 1) - (b + 1) + 1) : gs[i] = fs[(b + 1) + i - 1]
      BY <1>1, <2>1, SubSeqProperties
    <2> HIDE DEF gs
    <2>3. Len(gs) = (e - 1) - b /\ Len(gs) = (e - 1) - (b + 1) + 1
      BY <1>1, <2>2
    <2>4. ASSUME NEW i \in 1..Len(gs) PROVE gs[i] = fs[b + i]
      <3>1. (b + 1) + i - 1 = b + i
        BY <1>1
      <3> QED
        BY <2>2, <2>3, <3>1
    <2> QED
      BY <1>1, <2>2, <2>3, <2>4
  <1>5. /\ rs \in Seq(Specs) /\ Len(rs) \in Nat /\ (e - 1) + Len(rs) = n
        /\ \A i \in 1..Len(rs) : rs[i] = fs[(e - 1) + i]
    <2>1. \A i \in e..n : fs[i] \in Specs
      BY <1>1, <1>2
    <2>2. /\ rs \in Seq(Specs) /\ Len(rs) = IF e <= n THEN n - e + 1 ELSE 0
          /\ \A i \in 1..(n - e + 1) : rs[i] = fs[e + i - 1]
      BY <1>1, <2>1, SubSeqProperties
    <2> HIDE DEF rs
    <2>3. Len(rs) = n - e + 1
      BY <1>1, <2>2
    <2>4. ASSUME NEW i \in 1..Len(rs) PROVE rs[i] = fs[(e - 1) + i]
      <3>1. e + i - 1 = (e - 1) + i
        BY <1>1
      <3> QED
        BY <2>2, <2>3, <3>1
    <2> QED
      BY <1>1, <2>2, <2>3, <2>4
  <1> SUFFICES m \in Seq(Pieces) /\ gs \in Seq(Specs) /\ Spans(h[n], m)
    OBVIOUS
  <1> HIDE DEF gs, rs
  <1>6. Builds(h, fs, msg, tm) /\ Builds(g, gs, msg, tm) /\ Builds(k, rs, msg, tm)
    BY <1>4, <1>5, LinesFollow
  <1> HIDE DEF h, g, k
  <1>7. WriteOn(h, b, g, Len(gs))
    <2>1. StandIn(gs, fs, b)
      <3>1. b \in Nat /\ Len(fs) \in Nat /\ Len(gs) \in Nat /\ b + Len(gs) <= Len(fs)
        BY <1>1, <1>4
      <3>2. \A i \in 1..Len(gs) : gs[i] = fs[b + i]
        BY <1>4
      <3> QED
        BY <3>1, <3>2 DEF StandIn
    <2>2. gs \in Seq(Specs)
      BY <1>4
    <2> QED
      BY <1>6, <2>1, <2>2, WritesAlike
  <1>8. WriteOn(h, e - 1, k, Len(rs))
    <2>1. StandIn(rs, fs, e - 1)
      <3>1. e - 1 \in Nat /\ Len(fs) \in Nat /\ Len(rs) \in Nat /\ (e - 1) + Len(rs) <= Len(fs)
        BY <1>1, <1>5
      <3>2. \A i \in 1..Len(rs) : rs[i] = fs[(e - 1) + i]
        BY <1>5
      <3> QED
        BY <3>1, <3>2 DEF StandIn
    <2>2. rs \in Seq(Specs)
      BY <1>5
    <2> QED
      BY <1>6, <2>1, <2>2, WritesAlike
  <1>9. h[e - 1].formatted = x \o m /\ h[n].formatted = (x \o m) \o r
    BY <1>4, <1>5, <1>7, <1>8 DEF WriteOn
  <1>10. h[n].start = Len(x)
    <2>1. Formats(h[b], h[b - 1], fs[b], Shown(fs[b], msg, tm))
      BY <1>1, <1>6 DEF Builds
    <2>2. h[b].start = Len(h[b - 1].formatted)
      BY <1>1, <2>1 DEF Formats
    <2>3. Shown(<<"flag", "^">>, msg, tm) = <<>>
      BY Disjoint DEF Shown, ShownText
    <2>4. h[b - 1].formatted \in Seq(Pieces)
      <3>1. b - 1 \in 0..n
        BY <1>1
      <3> QED
        BY <1>6, <3>1 DEF Builds, GoodLines
    <2>5. h[b].formatted = h[b - 1].formatted
      <3>1. h[b].formatted = h[b - 1].formatted \o <<>>
        BY <1>1, <2>1, <2>3 DEF Formats
      <3> QED
        BY <2>4, <3>1, ConcatEmptySeq
    <2>6. h[n].start = h[b].start
      BY <1>1, <1>3, <1>6, Stays
    <2> QED
      BY <2>2, <2>5, <2>6
  <1>11. h[n].end = Len(x \o m)
    <2>1. Formats(h[e], h[e - 1], fs[e], Shown(fs[e], msg, tm))
      BY <1>1, <1>6 DEF Builds
    <2>2. h[e].end = Len(h[e - 1].formatted)
      BY <1>1, <2>1 DEF Formats
    <2>3. h[n].end = h[e].end
      BY <1>1, <1>3, <1>6, Stays
    <2> QED
      BY <1>9, <2>2, <2>3
  <1>12. x \in Seq(Pieces) /\ m \in Seq(Pieces) /\ r \in Seq(Pieces)
    <2>1. b \in 0..n /\ Len(gs) \in 0..Len(gs) /\ Len(rs) \in 0..Len(rs)
      BY <1>1, <1>4, <1>5
    <2>2. h[b] \in GoodLines /\ g[Len(gs)] \in GoodLines /\ k[Len(rs)] \in GoodLines
      BY <1>6, <2>1 DEF Builds
    <2> QED
      BY <2>2 DEF GoodLines
  <1> HIDE DEF x, m, r
  <1> QED
    BY <1>4, <1>9, <1>10, <1>11, <1>12 DEF Spans

-----------------------------------------------------------------------------
(* What is left of a line that is written with codes.                       *)
\* What a piece leaves when the codes are taken off.
Strip(p) == IF p \in {Ch("colour"), Ch("reset")} THEN <<>> ELSE <<p>>

LEMMA Strips ==
    /\ \A p \in Pieces : Strip(p) = <<p>>
    /\ \A p \in Codes : Strip(p) = <<>>
    /\ \A p \in Pieces \cup Codes : Strip(p) \in Outs
  <1>1. ASSUME NEW p \in Pieces PROVE Strip(p) = <<p>>
    <2>1. p \notin {Ch("colour"), Ch("reset")}
      BY PieceTypes DEF Codes
    <2> QED
      BY <2>1 DEF Strip
  <1>2. ASSUME NEW p \in Codes PROVE Strip(p) = <<>>
    BY DEF Strip, Codes
  <1>3. <<>> \in Outs /\ \A p \in Pieces \cup Codes : <<p>> \in Outs
    BY EmptySeq DEF Outs
  <1> QED
    BY <1>1, <1>2, <1>3

LEMMA PlainImages ==
    ASSUME NEW a \in Outs
    PROVE  LET im == [i \in 1..Len(a) |-> Strip(a[i])]
           IN  im \in Seq(Outs) /\ Len(im) = Len(a) /\ Plain(a) = FlattenSeq(im)
  <1>1. Len(a) \in Nat /\ \A i \in 1..Len(a) : Strip(a[i]) \in Outs
    BY LenProperties, ElementOfSeq, Strips DEF Outs
  <1>2. Plain(a) = FlattenSeq([i \in 1..Len(a) |-> Strip(a[i])])
    BY DEF Plain, Strip
  <1> HIDE DEF Strip
  <1> QED
    BY <1>1, <1>2

LEMMA PlainAppend ==
    ASSUME NEW a \in Outs, NEW p \in Pieces \cup Codes
    PROVE  /\ a \o <<p>> \in Outs /\ Plain(a) \in Outs
           /\ Plain(a \o <<p>>) = Plain(a) \o Strip(p)
  <1> DEFINE im == [i \in 1..Len(a) |-> Strip(a[i])]
             b == Append(a, p)
             jm == [i \in 1..Len(b) |-> Strip(b[i])]
  <1>1. im \in Seq(Outs) /\ Len(im) = Len(a) /\ Plain(a) = FlattenSeq(im)
    BY PlainImages
  <1>2. /\ b \in Outs /\ Len(b) = Len(a) + 1 /\ b[Len(a) + 1] = p /\ a \o <<p>> = b
        /\ Len(a) \in Nat /\ \A i \in 1..Len(a) : b[i] = a[i]
    BY AppendProperties, AppendIsConcat, LenProperties DEF Outs
  <1>3. \A i \in 1..Len(a) : im[i] = Strip(a[i])
    OBVIOUS
  <1> SUFFICES b \in Outs /\ Plain(a) \in Outs /\ Plain(b) = Plain(a) \o Strip(p)
    BY <1>2
  <1> HIDE DEF im, b
  <1>4. jm \in Seq(Outs) /\ Len(jm) = Len(b) /\ Plain(b) = FlattenSeq(jm)
    BY <1>2, PlainImages
  <1>5. \A i \in 1..Len(b) : jm[i] = Strip(b[i])
    OBVIOUS
  <1> HIDE DEF jm
  <1>6. /\ \A i \in 1..Len(im) : jm[i] = im[i]
        /\ Len(jm) = Len(im) + 1 /\ jm[Len(im) + 1] = Strip(p)
    BY <1>1, <1>2, <1>3, <1>4, <1>5
  <1>7. FlattenSeq(jm) = FlattenSeq(im) \o Strip(p)
    BY <1>1, <1>4, <1>6, FlattenOne DEF Outs
  <1>8. FlattenSeq(im) \in Outs
    BY <1>1, FlattenType DEF Outs
  <1> QED
    BY <1>1, <1>2, <1>4, <1>7, <1>8

LEMMA PlainCode ==
    ASSUME NEW a \in Outs, NEW c \in Codes
    PROVE  a \o <<c>> \in Outs /\ Plain(a \o <<c>>) = Plain(a)
  <1>1. /\ a \o <<c>> \in Outs /\ Plain(a) \in Outs
        /\ Plain(a \o <<c>>) = Plain(a) \o Strip(c)
    BY PlainAppend
  <1>2. Strip(c) = <<>>
    BY Strips
  <1>3. Plain(a) \o <<>> = Plain(a)
    BY <1>1, ConcatEmptySeq DEF Outs
  <1> QED
    BY <1>1, <1>2, <1>3

LEMMA PlainOn ==
    ASSUME NEW a \in Outs, NEW t \in Seq(Pieces)
    PROVE  a \o t \in Outs /\ Plain(a \o t) = Plain(a) \o t
  <1> DEFINE s(n) == SubSeq(t, 1, n)
             P(n) == Plain(a \o s(n)) = Plain(a) \o s(n)
             S == {n \in Nat : n <= Len(t) => P(n)}
  <1>0. t \in Outs /\ Len(t) \in Nat /\ a \o t \in Outs /\ s(Len(t)) = t
    BY Regroup, LenProperties, SubSeqFull
  <1>1. ASSUME NEW n \in Nat, n <= Len(t) PROVE s(n) \in Outs
    <2>1. \A i \in 1..n : t[i] \in Pieces \cup Codes
      BY <1>0, <1>1, ElementOfSeq
    <2> QED
      BY <2>1, SubSeqProperties DEF Outs
  <1>2. Plain(a) \in Outs
    <2>1. Ch("colour") \in Pieces \cup Codes
      BY DEF Codes
    <2> QED
      BY <2>1, PlainAppend
  <1>3. P(0)
    <2>1. s(0) = <<>>
      BY SubSeqEmpty
    <2>2. a \o <<>> = a /\ Plain(a) \o <<>> = Plain(a)
      BY <1>2, ConcatEmptySeq DEF Outs
    <2> QED
      BY <2>1, <2>2
  <1>4. ASSUME NEW n \in Nat, n + 1 <= Len(t), P(n) PROVE P(n + 1)
    <2>1. s(n + 1) = s(n) \o <<t[n + 1]>>
      <3>1. n + 1 \in 1..Len(t) /\ 1 \in 1..Len(t) /\ n + 1 \in 1..Len(t) /\ (n + 1) - 1 = n
        BY <1>0, <1>4
      <3> QED
        BY <3>1, SubSeqRecursiveSecond
    <2>2. t[n + 1] \in Pieces /\ s(n) \in Outs
      BY <1>0, <1>1, <1>4, ElementOfSeq
    <2> DEFINE u == s(n)
               p == t[n + 1]
    <2>3. Strip(p) = <<p>> /\ <<p>> \in Outs /\ p \in Pieces \cup Codes
      <3>1. Strip(p) = <<p>> /\ Strip(p) \in Outs
        BY <2>2, Strips
      <3> QED
        BY <2>2, <3>1
    <2>4. Plain(a \o u) = Plain(a) \o u
      BY <1>4
    <2> SUFFICES Plain(a \o (u \o <<p>>)) = Plain(a) \o (u \o <<p>>)
      BY <2>1
    <2> HIDE DEF u, p
    <2>5. a \o (u \o <<p>>) = (a \o u) \o <<p>> /\ a \o u \in Outs
      BY <2>2, <2>3, Regroup DEF u
    <2>6. Plain((a \o u) \o <<p>>) = Plain(a \o u) \o <<p>>
      BY <2>3, <2>5, PlainAppend
    <2>7. (Plain(a) \o u) \o <<p>> = Plain(a) \o (u \o <<p>>)
      BY <1>2, <2>2, <2>3, Regroup DEF u
    <2> QED
      BY <2>4, <2>5, <2>6, <2>7
  <1>5. 0 \in S /\ \A n \in Nat : n \in S => n + 1 \in S
    <2> HIDE DEF P
    <2> QED
      BY <1>3, <1>4
  <1>6. P(Len(t))
    <2> HIDE DEF P, S
    <2>1. Nat \subseteq S
      BY <1>5, Induction
    <2> QED
      BY <1>0, <2>1 DEF S
  <1> QED
    BY <1>0, <1>6

\* b with its codes, between a and d.
Wrapped(a, b, d) == (((a \o <<Ch("colour")>>) \o b) \o <<Ch("reset")>>) \o d

LEMMA PlainText == ASSUME NEW a \in Seq(Pieces) PROVE Plain(a) = a
  <1>1. <<>> \in Outs
    BY EmptySeq DEF Outs
  <1>2. Plain(<<>>) = <<>>
    <2>1. [i \in 1..0 |-> Strip(<<>>[i])] \in Seq(Outs) /\ Len([i \in 1..0 |-> Strip(<<>>[i])]) = 0
      OBVIOUS
    <2>2. Plain(<<>>) = FlattenSeq([i \in 1..0 |-> Strip(<<>>[i])])
      BY DEF Plain, Strip
    <2> QED
      BY <2>1, <2>2, FlattenType DEF Outs
  <1>3. Plain(<<>> \o a) = Plain(<<>>) \o a
    BY <1>1, PlainOn
  <1> QED
    BY <1>2, <1>3, ConcatEmptySeq

LEMMA WrappedPlain ==
    ASSUME NEW a \in Seq(Pieces), NEW b \in Seq(Pieces), NEW d \in Seq(Pieces)
    PROVE  Plain(Wrapped(a, b, d)) = (a \o b) \o d
  <1>1. Ch("colour") \in Codes /\ Ch("reset") \in Codes /\ a \in Outs /\ <<>> \in Outs
    BY Regroup, EmptySeq DEF Codes, Outs
  <1>2. Plain(a) = a
    BY PlainText
  <1> DEFINE s1 == a \o <<Ch("colour")>>
             s2 == s1 \o b
             s3 == s2 \o <<Ch("reset")>>
  <1>3. s1 \in Outs /\ Plain(s1) = a
    BY <1>1, <1>2, PlainCode
  <1> HIDE DEF s1
  <1>4. s2 \in Outs /\ Plain(s2) = a \o b
    BY <1>3, PlainOn
  <1> HIDE DEF s2
  <1>5. s3 \in Outs /\ Plain(s3) = a \o b
    BY <1>1, <1>4, PlainCode
  <1> HIDE DEF s3
  <1>6. Plain(s3 \o d) = (a \o b) \o d
    BY <1>5, PlainOn
  <1> QED
    BY <1>6 DEF Wrapped, s1, s2, s3

\* s is x and then y.
JoinsTo(s, x, y) ==
    /\ s \in Outs /\ Len(s) = Len(x) + Len(y)
    /\ \A i \in 1..Len(x) : s[i] = x[i]
    /\ \A i \in 1..Len(y) : s[Len(x) + i] = y[i]

LEMMA OutsJoin == ASSUME NEW x \in Outs, NEW y \in Outs PROVE JoinsTo(x \o y, x, y)
BY Joined DEF Outs, JoinsTo

\* Where the parts of a wrapped line are.
WrappedParts(w, a, b, d, k, l) ==
    /\ w \in Outs /\ Len(w) = l + Len(d) /\ k \in Nat /\ l \in Nat /\ k < l /\ 0 < k
    /\ Len(d) \in Nat /\ Len(b) \in Nat /\ Len(a) = k - 1 /\ l = k + Len(b) + 1
    /\ w[k] = Ch("colour") /\ w[l] = Ch("reset")
    /\ \A i \in 1..Len(a) : w[i] \in Pieces
    /\ \A i \in 1..Len(b) : w[k + i] = b[i] /\ b[i] \in Pieces
    /\ \A i \in 1..Len(d) : w[l + i] \in Pieces

LEMMA WrappedAt ==
    ASSUME NEW a \in Seq(Pieces), NEW b \in Seq(Pieces), NEW d \in Seq(Pieces)
    PROVE  WrappedParts(Wrapped(a, b, d), a, b, d, Len(a) + 1, (Len(a) + 1) + Len(b) + 1)
  <1> DEFINE c == <<Ch("colour")>>
             r == <<Ch("reset")>>
             s1 == a \o c
             s2 == s1 \o b
             s3 == s2 \o r
             s4 == s3 \o d
  <1>1. c \in Outs /\ r \in Outs /\ Len(c) = 1 /\ Len(r) = 1 /\ c[1] = Ch("colour") /\ r[1] = Ch("reset")
    BY DEF Outs, Codes
  <1> HIDE DEF c, r
  <1>2. /\ a \in Outs /\ b \in Outs /\ d \in Outs /\ Len(a) \in Nat /\ Len(b) \in Nat /\ Len(d) \in Nat
        /\ \A i \in 1..Len(a) : a[i] \in Pieces
        /\ \A i \in 1..Len(b) : b[i] \in Pieces
        /\ \A i \in 1..Len(d) : d[i] \in Pieces
    BY Regroup, LenProperties, ElementOfSeq
  <1>3. JoinsTo(s1, a, c)
    BY <1>1, <1>2, OutsJoin
  <1> HIDE DEF s1
  <1>4. JoinsTo(s2, s1, b)
    BY <1>2, <1>3, OutsJoin DEF JoinsTo
  <1> HIDE DEF s2
  <1>5. JoinsTo(s3, s2, r)
    BY <1>1, <1>4, OutsJoin DEF JoinsTo
  <1> HIDE DEF s3
  <1>6. JoinsTo(s4, s3, d)
    BY <1>2, <1>5, OutsJoin DEF JoinsTo
  <1> HIDE DEF s4
  <1> DEFINE k == Len(a) + 1
             l == k + Len(b) + 1
  <1>7. Len(s1) = k /\ Len(s2) = k + Len(b) /\ Len(s3) = l /\ Len(s4) = l + Len(d)
    BY <1>1, <1>3, <1>4, <1>5, <1>6 DEF JoinsTo
  <1>8. k \in Nat /\ l \in Nat /\ k < l /\ 0 < k /\ k = Len(a) + 1 /\ l = k + Len(b) + 1
    BY <1>2
  <1> HIDE DEF k, l
  <1>9. ASSUME NEW i \in 1..Len(a) PROVE s4[i] \in Pieces
    <2>1. i \in 1..Len(s1) /\ i \in 1..Len(s2) /\ i \in 1..Len(s3)
      BY <1>2, <1>7, <1>8
    <2> QED
      BY <1>2, <1>3, <1>4, <1>5, <1>6, <2>1 DEF JoinsTo
  <1>10. s4[k] = Ch("colour")
    <2>1. k \in 1..Len(s1) /\ k \in 1..Len(s2) /\ k \in 1..Len(s3) /\ 1 \in 1..Len(c)
      BY <1>1, <1>2, <1>7, <1>8
    <2>2. s1[k] = Ch("colour")
      BY <1>1, <1>3, <1>8, <2>1 DEF JoinsTo
    <2> QED
      BY <1>4, <1>5, <1>6, <2>1, <2>2 DEF JoinsTo
  <1>11. ASSUME NEW i \in 1..Len(b) PROVE s4[k + i] = b[i]
    <2>1. k + i \in 1..Len(s2) /\ k + i \in 1..Len(s3) /\ k + i = Len(s1) + i
      BY <1>2, <1>7, <1>8
    <2>2. s2[k + i] = b[i]
      BY <1>4, <2>1 DEF JoinsTo
    <2> QED
      BY <1>5, <1>6, <2>1, <2>2 DEF JoinsTo
  <1>12. s4[l] = Ch("reset")
    <2>1. l \in 1..Len(s3) /\ 1 \in 1..Len(r) /\ l = Len(s2) + 1
      BY <1>1, <1>2, <1>7, <1>8
    <2>2. s3[l] = Ch("reset")
      BY <1>1, <1>5, <2>1 DEF JoinsTo
    <2> QED
      BY <1>6, <2>1, <2>2 DEF JoinsTo
  <1>13. ASSUME NEW i \in 1..Len(d) PROVE s4[l + i] \in Pieces
    BY <1>2, <1>6, <1>7 DEF JoinsTo
  <1>14. Wrapped(a, b, d) = s4
    BY DEF Wrapped, s1, s2, s3, s4, c, r
  <1>15. WrappedParts(s4, a, b, d, k, l)
    <2>1. Len(a) = k - 1 /\ s4 \in Outs
      BY <1>2, <1>6, <1>8 DEF JoinsTo
    <2> QED
      BY <1>2, <1>7, <1>8, <1>9, <1>10, <1>11, <1>12, <1>13, <2>1 DEF WrappedParts
  <1> QED
    BY <1>14, <1>15 DEF k, l

\* w is coloured once.
HasOneCode(w) == Cardinality({i \in 1..Len(w) : w[i] = Ch("colour")}) = 1

LEMMA WrappedCodes ==
    ASSUME NEW a \in Seq(Pieces), NEW b \in Seq(Pieces), NEW d \in Seq(Pieces)
    PROVE  HasOneCode(Wrapped(a, b, d)) /\ Coloured(Wrapped(a, b, d)) = b
  <1> DEFINE w == Wrapped(a, b, d)
             k == Len(a) + 1
             l == k + Len(b) + 1
  <1>1. WrappedParts(w, a, b, d, k, l)
    BY WrappedAt
  <1> USE DEF WrappedParts
  <1> HIDE DEF w, k, l
  <1>2. ASSUME NEW i \in 1..Len(w) PROVE i = k \/ i = l \/ w[i] \in Pieces
    <2>1. CASE i < k
      BY <1>1, <2>1
    <2>2. CASE k < i /\ i < l
      <3>1. i - k \in 1..Len(b) /\ k + (i - k) = i
        BY <1>1, <2>2
      <3> QED
        BY <1>1, <3>1
    <2>3. CASE l < i
      <3>1. i - l \in 1..Len(d) /\ l + (i - l) = i
        BY <1>1, <2>3
      <3> QED
        BY <1>1, <3>1
    <2> QED
      BY <1>1, <2>1, <2>2, <2>3
  <1>3. Ch("colour") # Ch("reset") /\ Ch("colour") \notin Pieces /\ Ch("reset") \notin Pieces
    BY PieceTypes DEF Codes, Ch
  <1>4. /\ \A i \in 1..Len(w) : w[i] = Ch("colour") <=> i = k
        /\ \A i \in 1..Len(w) : w[i] = Ch("reset") <=> i = l
        /\ k \in 1..Len(w) /\ l \in 1..Len(w)
    BY <1>1, <1>2, <1>3
  <1>5. {i \in 1..Len(w) : w[i] = Ch("colour")} = {k}
    BY <1>4
  <1>6. Cardinality({k}) = 1
    BY FS_Singleton
  <1>7. Coloured(w) = SubSeq(w, k + 1, l - 1)
    <2>1. (CHOOSE i \in 1..Len(w) : w[i] = Ch("colour")) = k
      BY <1>4
    <2>2. (CHOOSE i \in 1..Len(w) : w[i] = Ch("reset")) = l
      BY <1>4
    <2> QED
      BY <2>1, <2>2 DEF Coloured
  <1>8. SubSeq(w, k + 1, l - 1) = b
    <2> DEFINE s == SubSeq(w, k + 1, l - 1)
    <2>1. \A i \in (k + 1)..(l - 1) : w[i] \in Pieces
      BY <1>1, <1>2
    <2>2. /\ s \in Seq(Pieces) /\ Len(s) = IF k + 1 <= l - 1 THEN (l - 1) - (k + 1) + 1 ELSE 0
          /\ \A i \in 1..((l - 1) - (k + 1) + 1) : s[i] = w[(k + 1) + i - 1]
      BY <1>1, <2>1, SubSeqProperties
    <2> HIDE DEF s
    <2>3. Len(s) = Len(b) /\ Len(b) = (l - 1) - (k + 1) + 1
      BY <1>1, <2>2
    <2>4. ASSUME NEW i \in 1..Len(s) PROVE s[i] = b[i]
      <3>1. (k + 1) + i - 1 = k + i /\ i \in 1..Len(b)
        BY <1>1, <2>3
      <3> QED
        BY <1>1, <2>2, <2>3, <3>1
    <2>5. s = b
      BY <2>2, <2>3, <2>4, SeqEqual
    <2> QED
      BY <2>5 DEF s
  <1> QED
    BY <1>5, <1>6, <1>7, <1>8 DEF w, HasOneCode

-----------------------------------------------------------------------------
(* The parts of a line, and what the sink makes of them.                    *)
\* The text ahead of the range, in it and behind it.
Ahead(line) == SubSeq(line.formatted, 1, line.start)
Between(line) == SubSeq(line.formatted, line.start + 1, line.end)
Behind(line) == SubSeq(line.formatted, line.end + 1, Len(line.formatted))

LEMMA Sinks ==
    ASSUME NEW line \in GoodLines
    PROVE  /\ line.end > line.start =>
                /\ _sink_it(line, TRUE) = Wrapped(Ahead(line), Between(line), Behind(line))
                /\ Ahead(line) \in Seq(Pieces) /\ Between(line) \in Seq(Pieces)
                /\ Behind(line) \in Seq(Pieces)
                /\ (Ahead(line) \o Between(line)) \o Behind(line) = line.formatted
           /\ ~(line.end > line.start) => _sink_it(line, TRUE) = line.formatted
  <1>1. PICK t \in Seq(Pieces), s \in Nat, e \in Nat :
           t = line.formatted /\ s = line.start /\ e = line.end
    BY DEF GoodLines
  <1>2. s <= Len(t) /\ e <= Len(t) /\ Len(t) \in Nat /\ \A i \in 1..Len(t) : t[i] \in Pieces
    BY <1>1, LenProperties, ElementOfSeq DEF GoodLines
  <1>3. ASSUME e > s
        PROVE  /\ _sink_it(line, TRUE) = Wrapped(Ahead(line), Between(line), Behind(line))
               /\ Ahead(line) \in Seq(Pieces) /\ Between(line) \in Seq(Pieces)
               /\ Behind(line) \in Seq(Pieces)
               /\ (Ahead(line) \o Between(line)) \o Behind(line) = line.formatted
    <2>1. 0 + 1 = 1 /\ line.end > line.start
      BY <1>1, <1>3
    <2>2. _sink_it(line, TRUE) = Wrapped(Ahead(line), Between(line), Behind(line))
      BY <2>1 DEF _sink_it, Part, Wrapped, Ahead, Between, Behind
    <2>3. SubSeq(t, 1, s) \in Seq(Pieces)
      BY <1>2, SubSeqProperties
    <2>4. SubSeq(t, s + 1, e) \in Seq(Pieces)
      BY <1>2, SubSeqProperties
    <2>5. SubSeq(t, e + 1, Len(t)) \in Seq(Pieces)
      BY <1>2, SubSeqProperties
    <2>6. SubSeq(t, 1, s) \o SubSeq(t, s + 1, e) = SubSeq(t, 1, e)
      <3>1. 1 \in 1..(Len(t) + 1) /\ s \in (1 - 1)..Len(t) /\ e \in s..Len(t)
        BY <1>2, <1>3
      <3> QED
        BY <3>1, ConcatAdjacentSubSeq
    <2>7. SubSeq(t, 1, e) \o SubSeq(t, e + 1, Len(t)) = SubSeq(t, 1, Len(t))
      <3>1. 1 \in 1..(Len(t) + 1) /\ e \in (1 - 1)..Len(t) /\ Len(t) \in e..Len(t)
        BY <1>2
      <3> QED
        BY <3>1, ConcatAdjacentSubSeq
    <2>8. SubSeq(t, 1, Len(t)) = t
      BY SubSeqFull
    <2> QED
      BY <1>1, <2>2, <2>3, <2>4, <2>5, <2>6, <2>7, <2>8 DEF Ahead, Between, Behind
  <1>4. ASSUME ~(e > s) PROVE _sink_it(line, TRUE) = line.formatted
    BY <1>1, <1>4 DEF _sink_it
  <1> QED
    BY <1>1, <1>3, <1>4

LEMMA Middle ==
    ASSUME NEW x \in Seq(Pieces), NEW m \in Seq(Pieces), NEW r \in Seq(Pieces)
    PROVE  SubSeq((x \o m) \o r, Len(x) + 1, Len(x \o m)) = m
  <1> DEFINE y == x \o m
             w == y \o r
             s == SubSeq(w, Len(x) + 1, Len(y))
  <1>1. /\ x \in Outs /\ m \in Outs /\ r \in Outs /\ Len(x) \in Nat /\ Len(m) \in Nat
        /\ \A i \in 1..Len(m) : m[i] \in Pieces
    BY Regroup, LenProperties, ElementOfSeq
  <1>2. JoinsTo(y, x, m)
    BY <1>1, OutsJoin
  <1> HIDE DEF y
  <1>3. JoinsTo(w, y, r)
    BY <1>1, <1>2, OutsJoin DEF JoinsTo
  <1> HIDE DEF w
  <1>4. Len(y) = Len(x) + Len(m)
    BY <1>2 DEF JoinsTo
  <1>5. ASSUME NEW i \in 1..Len(m) PROVE w[Len(x) + i] = m[i]
    <2>1. Len(x) + i \in 1..Len(y)
      BY <1>1, <1>4
    <2> QED
      BY <1>2, <1>3, <2>1 DEF JoinsTo
  <1>6. ASSUME NEW j \in (Len(x) + 1)..Len(y) PROVE w[j] \in Pieces
    <2>1. j - Len(x) \in 1..Len(m) /\ Len(x) + (j - Len(x)) = j
      BY <1>1, <1>4
    <2>2. w[Len(x) + (j - Len(x))] = m[j - Len(x)]
      BY <1>5, <2>1
    <2> QED
      BY <1>1, <2>1, <2>2
  <1>7. Len(y) \in Int /\ Len(x) + 1 \in Int
    BY <1>1, <1>4
  <1>8. /\ s \in Seq(Pieces)
        /\ Len(s) = IF Len(x) + 1 <= Len(y) THEN Len(y) - (Len(x) + 1) + 1 ELSE 0
        /\ \A i \in 1..(Len(y) - (Len(x) + 1) + 1) : s[i] = w[(Len(x) + 1) + i - 1]
    BY <1>6, <1>7, SubSeqProperties
  <1> HIDE DEF s
  <1>9. Len(s) = Len(m) /\ Len(m) = Len(y) - (Len(x) + 1) + 1
    BY <1>1, <1>4, <1>8
  <1>10. ASSUME NEW i \in 1..Len(s) PROVE s[i] = m[i]
    <2>1. i \in 1..Len(m) /\ (Len(x) + 1) + i - 1 = Len(x) + i
      BY <1>1, <1>9
    <2> QED
      BY <1>5, <1>8, <1>9, <2>1
  <1>11. s = m
    BY <1>8, <1>9, <1>10, SeqEqual
  <1> QED
    BY <1>11 DEF s, w, y

LEMMA FrontOf ==
    ASSUME NEW m \in Seq(Pieces), NEW p \in Pieces
    PROVE  /\ Front(m \o <<p>>) = m
           /\ m \o <<p>> = <<p>> <=> m = <<>>
  <1>1. <<p>> \in Seq(Pieces) /\ <<>> \in Seq(Pieces) /\ Len(<<>>) = 0 /\ Len(<<p>>) = 1
    BY EmptySeq
  <1> DEFINE q == <<p>>
  <1>2. q \in Seq(Pieces) /\ Len(q) = 1
    BY <1>1
  <1> SUFFICES Front(m \o q) = m /\ (m \o q = q <=> m = <<>>)
    OBVIOUS
  <1> HIDE DEF q
  <1>3. m \o q = q <=> m = <<>>
    <2>1. m \o q = q => Len(m) + Len(q) = Len(q) /\ Len(m) \in Nat
      BY <1>2, ConcatProperties, LenProperties
    <2>2. <<>> \o q = q
      BY <1>2, ConcatEmptySeq
    <2>3. Len(m) = 0 => m = <<>>
      BY EmptySeq
    <2>4. m \o q = q => m = <<>>
      BY <1>2, <2>1, <2>3
    <2>5. m = <<>> => m \o q = q
      BY <2>2
    <2> QED
      BY <2>4, <2>5
  <1>4. SubSeq((<<>> \o m) \o q, Len(<<>>) + 1, Len(<<>> \o m)) = m
    BY <1>1, <1>2, Middle
  <1>5. <<>> \o m = m
    BY ConcatEmptySeq
  <1>6. Len(m \o q) = Len(m) + 1 /\ Len(m) \in Nat
    BY <1>2, ConcatProperties, LenProperties
  <1>7. SubSeq(m \o q, 1, Len(m)) = m
    BY <1>1, <1>4, <1>5
  <1>8. Len(m \o q) - 1 = Len(m)
    BY <1>6
  <1> QED
    BY <1>3, <1>7, <1>8 DEF Front

LEMMA FormattedLine ==
    ASSUME NEW msg \in Messages, NEW fs \in Seq(Specs)
    PROVE  LET l == Lines(fs, msg, get_time(msg, "utc"))[Len(fs)]
           IN  /\ l \in GoodLines /\ format(fs, msg, "utc") \in GoodLines
               /\ format(fs, msg, "utc").formatted = l.formatted \o <<Ch("eol")>>
               /\ format(fs, msg, "utc").start = l.start /\ format(fs, msg, "utc").end = l.end
               /\ Ch("eol") \in Pieces /\ <<Ch("eol")>> \in Seq(Pieces)
  <1> DEFINE tm == get_time(msg, "utc")
             h == Lines(fs, msg, tm)
             l == h[Len(fs)]
             e == <<Ch("eol")>>
  <1>1. tm \in Instant
    BY TimeType
  <1>2. Builds(h, fs, msg, tm)
    <2> HIDE DEF tm
    <2> QED
      BY <1>1, LinesFollow
  <1>3. Len(fs) \in 0..Len(fs)
    BY LenProperties
  <1>4. Ch("eol") \in Pieces
    <2>1. "eol" \in Names
      BY FixedNames
    <2> QED
      BY <2>1, PieceTypes
  <1>5. e \in Seq(Pieces)
    BY <1>4
  <1>6. format(fs, msg, "utc") = Write(l, e)
    BY DEF format
  <1> SUFFICES /\ l \in GoodLines /\ format(fs, msg, "utc") \in GoodLines
               /\ format(fs, msg, "utc").formatted = l.formatted \o e
               /\ format(fs, msg, "utc").start = l.start /\ format(fs, msg, "utc").end = l.end
    BY <1>4, <1>5
  <1> HIDE DEF h, e
  <1>7. l \in GoodLines
    BY <1>2, <1>3 DEF Builds
  <1> HIDE DEF l
  <1> QED
    BY <1>5, <1>6, <1>7, Writes

\* Marks that occur once.
OnceMarked(fs, b, e) == /\ Marks(fs, "^") = {b} /\ Marks(fs, "$") = {e}
                        /\ b < e /\ Marks(fs, "+") = {}

\* Then the codes stand where they do, or the text between them is empty.
WrapsOnce(fs, msg, b, e) ==
    LET line == format(fs, msg, "utc")
        out == _sink_it(line, TRUE)
        inside == format(SubSeq(fs, b + 1, e - 1), msg, "utc").formatted
    IN  IF inside = <<Ch("eol")>> THEN out = line.formatted ELSE Coloured(out) = Front(inside)

LEMMA MarkedOnce ==
    ASSUME NEW msg \in Messages, NEW fs \in Seq(Specs), NEW b, NEW e, OnceMarked(fs, b, e)
    PROVE  WrapsOnce(fs, msg, b, e)
  <1> DEFINE tm == get_time(msg, "utc")
             gs == SubSeq(fs, b + 1, e - 1)
             l == Lines(fs, msg, tm)[Len(fs)]
             m == Lines(gs, msg, tm)[Len(gs)].formatted
             eol == <<Ch("eol")>>
             line == format(fs, msg, "utc")
             inside == format(gs, msg, "utc").formatted
             out == _sink_it(line, TRUE)
  <1>1. tm \in Instant
    BY TimeType
  <1>2. m \in Seq(Pieces) /\ gs \in Seq(Specs) /\ Spans(l, m)
    <2> HIDE DEF tm
    <2> QED
      BY <1>1, MarkedSpans DEF OnceMarked
  <1>3. /\ line \in GoodLines /\ line.formatted = l.formatted \o eol
        /\ line.start = l.start /\ line.end = l.end /\ eol \in Seq(Pieces) /\ Ch("eol") \in Pieces
    BY FormattedLine
  <1>4. inside = m \o eol
    BY <1>2, FormattedLine
  <1>5. Front(m \o eol) = m /\ (m \o eol = eol <=> m = <<>>)
    <2> HIDE DEF m
    <2> QED
      BY <1>2, <1>3, FrontOf
  <1> SUFFICES IF inside = eol THEN out = line.formatted ELSE Coloured(out) = Front(inside)
    BY DEF WrapsOnce
  <1> HIDE DEF tm, gs, l, m, eol, line, inside
  <1>6. PICK x \in Seq(Pieces), r \in Seq(Pieces) :
           /\ l.formatted = (x \o m) \o r
           /\ l.start = Len(x) /\ l.end = Len(x \o m)
    BY <1>2 DEF Spans
  <1>7. Len(x \o m) = Len(x) + Len(m) /\ Len(x) \in Nat /\ Len(m) \in Nat
    BY <1>2, ConcatProperties, LenProperties
  <1>8. CASE m = <<>>
    <2>1. Len(m) = 0
      BY <1>8, EmptySeq
    <2>2. ~(line.end > line.start)
      BY <1>3, <1>6, <1>7, <2>1
    <2>3. out = line.formatted
      BY <1>3, <2>2, Sinks
    <2> QED
      BY <1>4, <1>5, <1>8, <2>3
  <1>9. CASE m # <<>>
    <2>1. Len(m) # 0
      BY <1>2, <1>9, EmptySeq
    <2>2. line.end > line.start
      BY <1>3, <1>6, <1>7, <2>1
    <2>3. /\ out = Wrapped(Ahead(line), Between(line), Behind(line))
          /\ Ahead(line) \in Seq(Pieces) /\ Between(line) \in Seq(Pieces)
          /\ Behind(line) \in Seq(Pieces)
      BY <1>3, <2>2, Sinks
    <2>4. Coloured(out) = Between(line)
      <3> DEFINE u == Ahead(line)
                 v == Between(line)
                 w == Behind(line)
      <3>1. out = Wrapped(u, v, w) /\ u \in Seq(Pieces) /\ v \in Seq(Pieces) /\ w \in Seq(Pieces)
        BY <2>3
      <3> SUFFICES Coloured(out) = v
        OBVIOUS
      <3> HIDE DEF u, v, w
      <3>2. Coloured(Wrapped(u, v, w)) = v
        BY <3>1, WrappedCodes
      <3> QED
        BY <3>1, <3>2
    <2>5. Between(line) = m
      <3>1. line.formatted = (x \o m) \o (r \o eol) /\ r \o eol \in Seq(Pieces)
        <4>1. x \o m \in Outs /\ r \in Outs /\ eol \in Outs
          BY <1>2, <1>3, Regroup
        <4>2. ((x \o m) \o r) \o eol = (x \o m) \o (r \o eol)
          BY <4>1, Regroup
        <4>3. r \o eol \in Seq(Pieces)
          BY <1>3, ConcatProperties
        <4> QED
          BY <1>3, <1>6, <4>2, <4>3
      <3>2. SubSeq((x \o m) \o (r \o eol), Len(x) + 1, Len(x \o m)) = m
        BY <1>2, <3>1, Middle
      <3> QED
        BY <1>3, <1>6, <3>1, <3>2 DEF Between
    <2> QED
      BY <1>4, <1>5, <1>9, <2>4, <2>5
  <1> QED
    BY <1>8, <1>9

LEMMA MarksOnce ==
    ASSUME NEW fs \in Seq(Specs), NEW c, Cardinality(Marks(fs, c)) = 1
    PROVE  Marks(fs, c) = {CHOOSE i \in Marks(fs, c) : TRUE}
  <1>1. IsFiniteSet(1..Len(fs)) /\ Marks(fs, c) \in SUBSET (1..Len(fs))
    BY LenProperties, FS_Interval DEF Marks
  <1>2. IsFiniteSet(Marks(fs, c))
    BY <1>1, FS_Subset
  <1>3. PICK x : Marks(fs, c) = {x}
    BY <1>2, FS_Singleton
  <1> QED
    BY <1>3

LEMMA Marking ==
    ASSUME NEW msg \in Messages, NEW p \in Seq(Characters)
    PROVE  MarkedWrapped(p, msg)
  <1> DEFINE fs == compile_pattern(p)
             line == format(fs, msg, "utc")
             out == _sink_it(line, TRUE)
             b == CHOOSE i \in Marks(fs, "^") : TRUE
             e == CHOOSE i \in Marks(fs, "$") : TRUE
             inside == format(SubSeq(fs, b + 1, e - 1), msg, "utc").formatted
             codes == {i \in 1..Len(out) : out[i] = Ch("colour")}
  <1>1. fs \in Seq(Specs)
    <2>1. p \in Seq(Drawn)
      <3>1. Len(p) \in Nat /\ \A i \in 1..Len(p) : p[i] \in Characters
        BY LenProperties, ElementOfSeq
      <3>2. \A i \in 1..Len(p) : p[i] \in Drawn
        BY <3>1 DEF Drawn
      <3> HIDE DEF Drawn
      <3> QED
        BY <3>1, <3>2
    <2> QED
      BY <2>1, CompiledType DEF Specs
  <1> HIDE DEF fs
  <1>2. line \in GoodLines
    BY <1>1, FormattedLine
  <1>3. Plain(out) = line.formatted /\ Cardinality(codes) \in {0, 1}
    <2> SUFFICES /\ Plain(_sink_it(line, TRUE)) = line.formatted
                 /\ Cardinality({i \in 1..Len(_sink_it(line, TRUE)) :
                                   _sink_it(line, TRUE)[i] = Ch("colour")}) \in {0, 1}
      OBVIOUS
    <2> HIDE DEF line
    <2>1. CASE line.end > line.start
      <3> DEFINE u == Ahead(line)
                 v == Between(line)
                 w == Behind(line)
      <3>1. /\ _sink_it(line, TRUE) = Wrapped(u, v, w)
            /\ u \in Seq(Pieces) /\ v \in Seq(Pieces) /\ w \in Seq(Pieces)
            /\ (u \o v) \o w = line.formatted
        BY <1>2, <2>1, Sinks
      <3> HIDE DEF u, v, w
      <3>2. Plain(Wrapped(u, v, w)) = (u \o v) \o w
        BY <3>1, WrappedPlain
      <3>3. HasOneCode(Wrapped(u, v, w))
        BY <3>1, WrappedCodes
      <3> QED
        BY <3>1, <3>2, <3>3 DEF HasOneCode
    <2>2. CASE ~(line.end > line.start)
      <3>1. _sink_it(line, TRUE) = line.formatted
        BY <1>2, <2>2, Sinks
      <3>2. line.formatted \in Seq(Pieces)
        BY <1>2 DEF GoodLines
      <3> DEFINE t == line.formatted
      <3>3. Plain(t) = t
        <4> HIDE DEF t
        <4> QED
          BY <3>2, PlainText DEF t
      <3>4. \A i \in 1..Len(t) : t[i] # Ch("colour")
        <4>1. \A i \in 1..Len(t) : t[i] \in Pieces
          BY <3>2, ElementOfSeq
        <4> QED
          BY <4>1, PieceTypes DEF Codes
      <3>5. {i \in 1..Len(t) : t[i] = Ch("colour")} = {}
        BY <3>4
      <3> QED
        BY <3>1, <3>3, <3>5, FS_EmptySet
    <2> QED
      BY <2>1, <2>2
  <1>4. ASSUME Cardinality(Marks(fs, "^")) = 1, Cardinality(Marks(fs, "$")) = 1,
               b < e, Marks(fs, "+") = {}
        PROVE  WrapsOnce(fs, msg, b, e)
    <2>1. OnceMarked(fs, b, e)
      BY <1>1, <1>4, MarksOnce DEF OnceMarked
    <2> HIDE DEF b, e
    <2> QED
      BY <1>1, <2>1, MarkedOnce
  <1> QED
    BY <1>3, <1>4 DEF MarkedWrapped, WrapsOnce, fs

-----------------------------------------------------------------------------
(* What the fields of a line tell of its time.                              *)
\* The first parts of Dated: what the clock of the line is told from.
ClockAgrees(msg) ==
    LET tm == get_time(msg, "local")
        F(c) == Field(msg, c, "local")
        sign == IF F("z")[1] = Ch("-") THEN -1 ELSE 1
        offset == sign * (60 * F("z")[2][1] + F("z")[4][1])
    IN  3600 * F("T")[1][1] + 60 * F("T")[3][1] + F("T")[5][1]
             = (F("E")[1][1] + 60 * offset) % 86400

LEMMA JoinThreeIs ==
    ASSUME NEW u, NEW v, NEW w, NEW sep
    PROVE  LET j == pad_n_join3(u, v, w, sep)
           IN  j[1][1] = u /\ j[3][1] = v /\ j[5][1] = w
BY DEF pad_n_join3, Num, Ch

LEMMA SignedIs ==
    ASSUME NEW u \in Int, NEW v \in Int, NEW s \in Names
    PROVE  LET j == <<Ch(s)>> \o pad_n_join(u, v, ":")
           IN  j[1] = Ch(s) /\ j[2][1] = u /\ j[4][1] = v
  <1> DEFINE a == <<Ch(s)>>
             b == pad_n_join(u, v, ":")
             j == a \o b
  <1>1. a \in Outs /\ Len(a) = 1 /\ a[1] = Ch(s)
    <2>1. Ch(s) \in Pieces
      BY PieceTypes
    <2> QED
      BY <2>1 DEF Outs
  <1>2. b \in Outs
    BY FixedNames, JoinTwo, Regroup
  <1>3. Len(b) = 3 /\ b[1][1] = u /\ b[3][1] = v
    BY DEF pad_n_join, Num, Ch
  <1> HIDE DEF a, b
  <1>4. JoinsTo(j, a, b)
    BY <1>1, <1>2, OutsJoin
  <1> HIDE DEF j
  <1>5. j[1] = a[1] /\ j[2] = b[1] /\ j[4] = b[3]
    <2>1. 1 \in 1..Len(a) /\ 1 \in 1..Len(b) /\ 3 \in 1..Len(b) /\ Len(a) + 1 = 2 /\ Len(a) + 3 = 4
      BY <1>1, <1>3
    <2> QED
      BY <1>4, <2>1 DEF JoinsTo
  <1> QED
    BY <1>1, <1>3, <1>5 DEF j, a, b

LEMMA Minutes ==
    ASSUME NEW z \in Zones, NEW tm, tm.gmtoff = z
    PROVE  LET total == utc_minutes_offset(tm)
               abs == IF total < 0 THEN -total ELSE total
           IN  /\ total \in Int /\ abs \in Nat /\ 60 * total = z
               /\ 60 * (abs \div 60) + (abs % 60) = abs
  <1>1. z \in Int /\ z % 60 = 0
    BY ZoneMinutes
  <1> DEFINE q == z \div 60
  <1>2. q \in Int /\ z = 60 * q
    BY <1>1
  <1>3. z < 0 => (-z) \div 60 = -q
    BY <1>1, <1>2
  <1>4. utc_minutes_offset(tm) = q
    BY <1>1, <1>2, <1>3 DEF utc_minutes_offset
  <1> HIDE DEF q
  <1>5. ASSUME NEW n \in Nat PROVE 60 * (n \div 60) + (n % 60) = n
    <2>1. PICK k \in Int, r \in Int : k = n \div 60 /\ r = n % 60
      OBVIOUS
    <2>2. n = 60 * k + r
      BY <2>1
    <2> QED
      BY <2>1, <2>2
  <1> QED
    BY <1>2, <1>4, <1>5

LEMMA DayTime ==
    ASSUME NEW t \in Int
    PROVE  3600 * ((t \div 3600) % 24) + 60 * ((t \div 60) % 60) + (t % 60) = t % 86400
  <1> DEFINE a == t \div 60
             h == t \div 3600
             d == t \div 86400
             s == t % 60
             m == a % 60
             k == h % 24
  <1>1. a \in Int /\ h \in Int /\ d \in Int /\ s \in 0..59 /\ t = 60 * a + s
    OBVIOUS
  <1>2. m \in 0..59 /\ a = 60 * h + m
    OBVIOUS
  <1>3. k \in 0..23 /\ h = 24 * d + k
    OBVIOUS
  <1>4. t % 86400 = t - 86400 * d
    BY SMT
  <1> SUFFICES 3600 * k + 60 * m + s = t % 86400
    OBVIOUS
  <1> HIDE DEF a, h, d, s, m, k
  <1> QED
    BY <1>1, <1>2, <1>3, <1>4, SMT

LEMMA FieldsAre ==
    ASSUME NEW msg
    PROVE  LET tm == get_time(msg, "local")
               F(c) == Field(msg, c, "local")
           IN  /\ F("T") = Clock(tm) /\ F("z") = z_formatter(tm)
               /\ F("E")[1][1] = msg.time[1] /\ F("F")[1][1] = msg.time[2]
               /\ F("H")[1][1] = tm.hour /\ F("I")[1][1] = to12h(tm) /\ F("p") = <<ampm(tm)>>
               /\ F("e")[1][1] = millis(msg) /\ F("f")[1][1] = micros(msg)
  <1> DEFINE tm == get_time(msg, "local")
  <1> SUFFICES LET F(c) == TimeText(msg, tm)[c]
               IN  /\ F("T") = Clock(tm) /\ F("z") = z_formatter(tm)
                   /\ F("E")[1][1] = msg.time[1] /\ F("F")[1][1] = msg.time[2]
                   /\ F("H")[1][1] = tm.hour /\ F("I")[1][1] = to12h(tm) /\ F("p") = <<ampm(tm)>>
                   /\ F("e")[1][1] = millis(msg) /\ F("f")[1][1] = micros(msg)
    BY DEF Field
  <1> HIDE DEF tm
  <1> QED
    BY DEF TimeText, Num

LEMMA LocalTime ==
    ASSUME NEW msg \in Messages
    PROVE  LET tm == get_time(msg, "local")
               t == msg.time[1] + msg.zone
           IN  /\ tm.hour = (t \div 3600) % 24 /\ tm.min = (t \div 60) % 60 /\ tm.sec = t % 60
               /\ tm.gmtoff = msg.zone /\ t \in Int
  <1>1. PICK s \in Int, z \in Int : s = msg.time[1] /\ z = msg.zone
    BY MessageTypes, ZoneMinutes
  <1>2. get_time(msg, "local") = Tm(s, z)
    BY <1>1 DEF get_time
  <1>3. /\ Tm(s, z).hour = ((s + z) \div 3600) % 24 /\ Tm(s, z).min = ((s + z) \div 60) % 60
        /\ Tm(s, z).sec = (s + z) % 60 /\ Tm(s, z).gmtoff = z
    BY DEF Tm
  <1> QED
    BY <1>1, <1>2, <1>3

LEMMA ZoneIs ==
    ASSUME NEW msg \in Messages
    PROVE  LET f == z_formatter(get_time(msg, "local"))
               sign == IF f[1] = Ch("-") THEN -1 ELSE 1
           IN  /\ sign * (60 * f[2][1] + f[4][1]) \in Int
               /\ 60 * (sign * (60 * f[2][1] + f[4][1])) = msg.zone
  <1> DEFINE tm == get_time(msg, "local")
             total == utc_minutes_offset(tm)
             abs == IF total < 0 THEN -total ELSE total
             c == IF total < 0 THEN "-" ELSE "+"
             f == z_formatter(tm)
             sign == IF f[1] = Ch("-") THEN -1 ELSE 1
  <1>1. tm.gmtoff = msg.zone /\ msg.zone \in Zones
    BY LocalTime, MessageTypes
  <1> HIDE DEF tm
  <1>2. /\ total \in Int /\ abs \in Nat /\ 60 * total = msg.zone
        /\ 60 * (abs \div 60) + (abs % 60) = abs
    BY <1>1, Minutes
  <1>3. f = <<Ch(c)>> \o pad_n_join(abs \div 60, abs % 60, ":")
    BY DEF z_formatter
  <1>4. total < 0 => c = "-" /\ abs = -total
    OBVIOUS
  <1>5. ~(total < 0) => c = "+" /\ abs = total
    OBVIOUS
  <1>6. c \in Names
    BY FixedNames
  <1> SUFFICES sign * (60 * f[2][1] + f[4][1]) \in Int /\ 60 * (sign * (60 * f[2][1] + f[4][1])) = msg.zone
    BY DEF tm
  <1> HIDE DEF total, abs, c, f
  <1>7. PICK u \in Int, v \in Int : u = abs \div 60 /\ v = abs % 60
    BY <1>2
  <1>8. f[1] = Ch(c) /\ f[2][1] = u /\ f[4][1] = v
    <2> DEFINE j == <<Ch(c)>> \o pad_n_join(u, v, ":")
    <2>1. j[1] = Ch(c) /\ j[2][1] = u /\ j[4][1] = v
      BY <1>6, SignedIs
    <2>2. f = j
      BY <1>3, <1>7
    <2> HIDE DEF j
    <2> QED
      BY <2>1, <2>2
  <1>9. sign = IF total < 0 THEN -1 ELSE 1
    BY <1>4, <1>5, <1>8 DEF Ch
  <1> HIDE DEF sign
  <1>10. 60 * u + v = abs
    BY <1>2, <1>7
  <1>11. sign * (60 * f[2][1] + f[4][1]) = total
    <2>1. sign * (60 * f[2][1] + f[4][1]) = sign * abs
      BY <1>8, <1>10
    <2> QED
      BY <1>2, <1>4, <1>5, <1>9, <2>1
  <1> QED
    BY <1>2, <1>11

LEMMA ClockIs ==
    ASSUME NEW msg \in Messages
    PROVE  ClockAgrees(msg)
  <1> DEFINE tm == get_time(msg, "local")
             F(c) == Field(msg, c, "local")
             z == F("z")
             sign == IF z[1] = Ch("-") THEN -1 ELSE 1
             offset == sign * (60 * z[2][1] + z[4][1])
  <1>1. F("T") = Clock(tm) /\ z = z_formatter(tm) /\ F("E")[1][1] = msg.time[1]
    BY FieldsAre
  <1>2. /\ F("T")[1][1] = tm.hour /\ F("T")[3][1] = tm.min /\ F("T")[5][1] = tm.sec
    BY <1>1, JoinThreeIs DEF Clock
  <1>3. offset \in Int /\ 60 * offset = msg.zone
    BY <1>1, ZoneIs
  <1>4. PICK s \in Int, y \in Int : s = msg.time[1] /\ y = msg.zone
    BY MessageTypes, ZoneMinutes
  <1>5. /\ tm.hour = ((s + y) \div 3600) % 24 /\ tm.min = ((s + y) \div 60) % 60
        /\ tm.sec = (s + y) % 60
    BY <1>4, LocalTime
  <1>6. 3600 * (((s + y) \div 3600) % 24) + 60 * (((s + y) \div 60) % 60) + ((s + y) % 60)
          = (s + y) % 86400
    <2>1. s + y \in Int
      OBVIOUS
    <2> QED
      BY <2>1, DayTime
  <1> SUFFICES 3600 * F("T")[1][1] + 60 * F("T")[3][1] + F("T")[5][1]
                 = (F("E")[1][1] + 60 * offset) % 86400
    BY DEF ClockAgrees
  <1> HIDE DEF F, offset, tm
  <1> QED
    BY <1>1, <1>2, <1>3, <1>4, <1>5, <1>6

LEMMA HalfDays ==
    ASSUME NEW tm \in Instant
    PROVE  HourTold(tm.hour, to12h(tm), <<ampm(tm)>> = <<Ch("PM")>>)
  <1>1. PICK h \in 0..23 : h = tm.hour
    BY DEF Instant
  <1>2. to12h(tm) = IF h > 12 THEN h - 12 ELSE h
    BY <1>1 DEF to12h
  <1>3. ampm(tm) = IF h >= 12 THEN Ch("PM") ELSE Ch("AM")
    BY <1>1 DEF ampm
  <1>4. Ch("PM") # Ch("AM")
    BY DEF Ch
  <1>5. <<ampm(tm)>> = <<Ch("PM")>> <=> h >= 12
    BY <1>3, <1>4
  <1> HIDE DEF Ch
  <1> QED
    BY <1>1, <1>2, <1>5 DEF HourTold

LEMMA Fractions ==
    ASSUME NEW msg \in Messages
    PROVE  millis(msg) = msg.time[2] \div 1000000 /\ micros(msg) = msg.time[2] \div 1000
  <1>1. PICK n \in Nanoseconds : n = msg.time[2]
    BY MessageTypes
  <1>2. n \in Nat /\ n < 1000000000
    BY SMT DEF Nanoseconds
  <1>3. n \div 1000000 \in 0..999 /\ n \div 1000 \in Nat /\ n \div 1000 < 1000000
    BY <1>2, SMT
  <1>4. (n \div 1000000) % 1000 = n \div 1000000 /\ (n \div 1000) % 1000000 = n \div 1000
    BY <1>3, SMT
  <1> QED
    BY <1>1, <1>4, SMT DEF millis, micros

-----------------------------------------------------------------------------
(* The line of a pattern, a character at a time.                            *)
\* The line behind all of the formatters.
Ended(fs, msg, tm) == Lines(fs, msg, tm)[Len(fs)]

LEMMA EndedType ==
    ASSUME NEW msg \in Messages, NEW tm \in Instant, NEW fs \in Seq(Specs)
    PROVE  /\ Ended(fs, msg, tm) \in GoodLines
           /\ Len(fs) = 0 => Ended(fs, msg, tm) = NoLine
  <1>1. Builds(Lines(fs, msg, tm), fs, msg, tm) /\ Len(fs) \in 0..Len(fs)
    BY LinesFollow, LenProperties
  <1> QED
    BY <1>1 DEF Builds, Ended

LEMMA LinesAppend ==
    ASSUME NEW msg \in Messages, NEW tm \in Instant, NEW fs \in Seq(Specs), NEW f \in Specs
    PROVE  Ended(Append(fs, f), msg, tm) = FormatOne(Ended(fs, msg, tm), f, msg, tm)
  <1> DEFINE gs == Append(fs, f)
             h == Lines(fs, msg, tm)
             g == Lines(gs, msg, tm)
             n == Len(fs)
  <1>1. /\ gs \in Seq(Specs) /\ Len(gs) = n + 1 /\ n \in Nat /\ gs[n + 1] = f
        /\ \A i \in 1..n : gs[i] = fs[i]
    BY AppendProperties, LenProperties
  <1> HIDE DEF gs
  <1>2. Builds(h, fs, msg, tm) /\ Builds(g, gs, msg, tm)
    BY <1>1, LinesFollow
  <1>3. Ended(fs, msg, tm) = h[n] /\ Ended(gs, msg, tm) = g[Len(gs)]
    BY DEF Ended
  <1> HIDE DEF h, g, n
  <1> DEFINE S == {i \in Nat : i <= n => g[i] = h[i]}
  <1>4. 0 \in S
    BY <1>2 DEF Builds
  <1>5. ASSUME NEW i \in Nat, i \in S PROVE i + 1 \in S
    <2> SUFFICES ASSUME i + 1 <= n PROVE g[i + 1] = h[i + 1]
      OBVIOUS
    <2>1. i + 1 \in 1..n /\ i + 1 \in 1..Len(gs) /\ (i + 1) - 1 = i /\ g[i] = h[i]
      BY <1>1, <1>5
    <2>2. h[i + 1] = FormatOne(h[i], fs[i + 1], msg, tm)
      BY <1>2, <2>1 DEF Builds, n
    <2>3. g[i + 1] = FormatOne(g[i], gs[i + 1], msg, tm)
      BY <1>2, <2>1 DEF Builds
    <2> QED
      BY <1>1, <2>1, <2>2, <2>3
  <1> HIDE DEF S
  <1>6. Nat \subseteq S
    BY <1>4, <1>5, Induction
  <1>7. g[n] = h[n]
    BY <1>1, <1>6 DEF S
  <1>8. g[n + 1] = FormatOne(g[n], f, msg, tm)
    <2>1. n + 1 \in 1..Len(gs) /\ (n + 1) - 1 = n
      BY <1>1
    <2> QED
      BY <1>1, <1>2, <2>1 DEF Builds
  <1> SUFFICES Ended(gs, msg, tm) = FormatOne(Ended(fs, msg, tm), f, msg, tm)
    BY DEF gs
  <1> QED
    BY <1>1, <1>3, <1>7, <1>8

LEMMA WritesTwo ==
    ASSUME NEW line \in GoodLines, NEW a \in Seq(Pieces), NEW b \in Seq(Pieces)
    PROVE  /\ Write(Write(line, a), b) = Write(line, a \o b)
           /\ Write(line, <<>>) = line
  <1>1. PICK t \in Seq(Pieces), s \in Nat, e \in Nat :
           line = [formatted |-> t, start |-> s, end |-> e]
    BY DEF GoodLines
  <1>2. (t \o a) \o b = t \o (a \o b)
    <2>1. t \in Outs /\ a \in Outs /\ b \in Outs
      BY Regroup
    <2> QED
      BY <2>1, Regroup
  <1>3. t \o <<>> = t
    BY ConcatEmptySeq
  <1>4. ASSUME NEW u, NEW v
        PROVE  Write([formatted |-> u, start |-> s, end |-> e], v)
                 = [formatted |-> u \o v, start |-> s, end |-> e]
    <2> DEFINE w == u \o v
    <2>1. Write([formatted |-> u, start |-> s, end |-> e], v)
            = [[formatted |-> u, start |-> s, end |-> e] EXCEPT !.formatted = w]
      BY DEF Write
    <2> HIDE DEF w
    <2>2. [[formatted |-> u, start |-> s, end |-> e] EXCEPT !.formatted = w]
            = [formatted |-> w, start |-> s, end |-> e]
      OBVIOUS
    <2> QED
      BY <2>1, <2>2 DEF w
  <1>5. Write(line, a) = [formatted |-> t \o a, start |-> s, end |-> e]
    BY <1>1, <1>4
  <1>6. Write(Write(line, a), b) = [formatted |-> (t \o a) \o b, start |-> s, end |-> e]
    BY <1>4, <1>5
  <1>7. Write(line, a \o b) = [formatted |-> t \o (a \o b), start |-> s, end |-> e]
    BY <1>1, <1>4
  <1>8. Write(line, <<>>) = [formatted |-> t \o <<>>, start |-> s, end |-> e]
    BY <1>1, <1>4
  <1> QED
    BY <1>1, <1>2, <1>3, <1>6, <1>7, <1>8

\* The pieces of characters that are kept as they are.
Spelled(chars) == [i \in DOMAIN chars |-> Ch(chars[i])]

LEMMA SpelledType ==
    ASSUME NEW chars \in Seq(Drawn)
    PROVE  Spelled(chars) \in Seq(Pieces) /\ (chars = <<>> => Spelled(chars) = <<>>)
  <1>1. /\ DOMAIN chars = 1..Len(chars) /\ Len(chars) \in Nat
        /\ \A i \in 1..Len(chars) : Ch(chars[i]) \in Pieces
    BY LenProperties, ElementOfSeq, DrawnNames, PieceTypes
  <1>2. Spelled(chars) \in Seq(Pieces) /\ Len(Spelled(chars)) = Len(chars)
    BY <1>1 DEF Spelled
  <1>3. chars = <<>> => Len(Spelled(chars)) = 0
    BY <1>2, EmptySeq
  <1> QED
    BY <1>2, <1>3, EmptySeq

LEMMA SpelledAppend ==
    ASSUME NEW chars \in Seq(Drawn), NEW c \in Drawn
    PROVE  /\ Append(chars, c) \in Seq(Drawn) /\ <<Ch(c)>> \in Seq(Pieces)
           /\ Spelled(Append(chars, c)) = Spelled(chars) \o <<Ch(c)>>
  <1> DEFINE b == Append(chars, c)
             s == Spelled(chars)
             t == Spelled(b)
             u == Append(s, Ch(c))
  <1>0. Ch(c) \in Pieces
    BY DrawnNames, PieceTypes
  <1>1. /\ b \in Seq(Drawn) /\ Len(b) = Len(chars) + 1 /\ b[Len(chars) + 1] = c
        /\ \A i \in 1..Len(chars) : b[i] = chars[i]
        /\ Len(chars) \in Nat /\ DOMAIN chars = 1..Len(chars) /\ DOMAIN b = 1..Len(b)
    BY AppendProperties, LenProperties
  <1> HIDE DEF b
  <1>2. s \in Seq(Pieces) /\ t \in Seq(Pieces)
    BY <1>1, SpelledType
  <1>3. /\ Len(s) = Len(chars) /\ Len(t) = Len(chars) + 1
        /\ \A i \in 1..Len(chars) : s[i] = Ch(chars[i])
        /\ \A i \in 1..(Len(chars) + 1) : t[i] = Ch(b[i])
    BY <1>1, <1>2, LenProperties DEF Spelled
  <1> HIDE DEF s, t
  <1>4. /\ u \in Seq(Pieces) /\ Len(u) = Len(s) + 1 /\ u[Len(s) + 1] = Ch(c)
        /\ \A i \in 1..Len(s) : u[i] = s[i]
        /\ u = s \o <<Ch(c)>>
    BY <1>0, <1>2, AppendProperties, AppendIsConcat
  <1> HIDE DEF u
  <1>5. \A i \in 1..Len(t) : t[i] = u[i]
    BY <1>1, <1>3, <1>4
  <1>6. t = u
    BY <1>2, <1>3, <1>4, <1>5, SeqEqual
  <1> QED
    BY <1>0, <1>1, <1>4, <1>6 DEF b, s, t

LEMMA EndedUser ==
    ASSUME NEW msg \in Messages, NEW tm \in Instant, NEW fs \in Seq(Specs),
           NEW chars \in Seq(Drawn)
    PROVE  /\ fs \o user_chars(chars) \in Seq(Specs)
           /\ Ended(fs \o user_chars(chars), msg, tm) = Write(Ended(fs, msg, tm), Spelled(chars))
  <1>1. CASE chars = <<>>
    <2>1. user_chars(chars) = <<>> /\ fs \o <<>> = fs /\ Spelled(chars) = <<>>
      BY <1>1, ConcatEmptySeq, SpelledType DEF user_chars
    <2>2. Write(Ended(fs, msg, tm), <<>>) = Ended(fs, msg, tm)
      BY EndedType, WritesTwo, EmptySeq
    <2> QED
      BY <2>1, <2>2
  <1>2. CASE chars # <<>>
    <2> DEFINE u == <<"user", chars>>
    <2>1. u \in Specs /\ user_chars(chars) = <<u>>
      BY <1>2 DEF Specs, Formatters, user_chars
    <2>2. FormatOne(Ended(fs, msg, tm), u, msg, tm) = Write(Ended(fs, msg, tm), Spelled(chars))
      BY DEF FormatOne, Spelled
    <2> HIDE DEF u
    <2>3. fs \o <<u>> = Append(fs, u) /\ Append(fs, u) \in Seq(Specs)
      BY <2>1, AppendIsConcat, AppendProperties
    <2> QED
      BY <2>1, <2>2, <2>3, LinesAppend
  <1> QED
    BY <1>1, <1>2

\* The line of what is read so far.
Drawing(sc, msg, tm) == Write(Ended(sc.formatters, msg, tm), Spelled(sc.chars))

LEMMA DrawsChar ==
    ASSUME NEW msg \in Messages, NEW tm \in Instant, NEW sc \in Readings(Drawn),
           NEW c \in Drawn, ~sc.flag, c # "%"
    PROVE  /\ Drawing(sc, msg, tm) \in GoodLines /\ ~Read(c, sc).flag
           /\ Drawing(Read(c, sc), msg, tm) = Write(Drawing(sc, msg, tm), <<Ch(c)>>)
  <1>1. PICK fs \in Seq(Specs), cs \in Seq(Drawn) : fs = sc.formatters /\ cs = sc.chars
    BY DEF Readings, Specs
  <1>2. Read(c, sc) = [formatters |-> fs, chars |-> Append(cs, c), flag |-> FALSE]
    BY <1>1, ReadsChar
  <1> DEFINE l == Ended(fs, msg, tm)
  <1>3. l \in GoodLines /\ Spelled(cs) \in Seq(Pieces)
    BY EndedType, SpelledType
  <1>4. <<Ch(c)>> \in Seq(Pieces) /\ Spelled(Append(cs, c)) = Spelled(cs) \o <<Ch(c)>>
    BY SpelledAppend
  <1> HIDE DEF l
  <1>5. Write(Write(l, Spelled(cs)), <<Ch(c)>>) = Write(l, Spelled(cs) \o <<Ch(c)>>)
    BY <1>3, <1>4, WritesTwo
  <1>6. Drawing(Read(c, sc), msg, tm) = Write(l, Spelled(cs) \o <<Ch(c)>>)
    <2> DEFINE r == Read(c, sc)
    <2>1. r.formatters = fs /\ r.chars = Append(cs, c)
      BY <1>2
    <2> HIDE DEF r
    <2>2. Drawing(r, msg, tm) = Write(Ended(fs, msg, tm), Spelled(Append(cs, c)))
      BY <2>1 DEF Drawing
    <2> QED
      BY <1>4, <2>2 DEF l, r
  <1>7. Drawing(sc, msg, tm) = Write(l, Spelled(cs))
    BY <1>1 DEF Drawing, l
  <1>8. Write(l, Spelled(cs)) \in GoodLines
    BY <1>3, Writes
  <1> QED
    BY <1>2, <1>5, <1>6, <1>7, <1>8

LEMMA ReadsFlag ==
    ASSUME NEW c \in Drawn, NEW sc \in Readings(Drawn), sc.flag
    PROVE  /\ Read(c, sc).formatters = sc.formatters \o handle_flag(c)
           /\ Read(c, sc).chars = sc.chars /\ ~Read(c, sc).flag
BY Reads

LEMMA DrawsFlag ==
    ASSUME NEW msg \in Messages, NEW tm \in Instant, NEW sc \in Readings(Drawn),
           NEW c \in Drawn \cap Flags, "%" \in Drawn, ~sc.flag
    PROVE  /\ ~Read(c, Read("%", sc)).flag
           /\ Drawing(Read(c, Read("%", sc)), msg, tm)
                = FormatOne(Drawing(sc, msg, tm), <<"flag", c>>, msg, tm)
  <1> DEFINE s1 == Read("%", sc)
             s2 == Read(c, s1)
             fs == sc.formatters \o user_chars(sc.chars)
             f == <<"flag", c>>
  <1>1. s1 \in Readings(Drawn) /\ s1.formatters = fs /\ s1.chars = <<>> /\ s1.flag
    BY Reads
  <1>2. fs \in Seq(Specs) /\ Ended(fs, msg, tm) = Drawing(sc, msg, tm)
    <2>1. PICK gs \in Seq(Specs), cs \in Seq(Drawn) : gs = sc.formatters /\ cs = sc.chars
      BY DEF Readings, Specs
    <2> QED
      BY <2>1, EndedUser DEF Drawing
  <1> HIDE DEF fs, s1
  <1>3. f \in Specs /\ handle_flag(c) = <<f>>
    BY DEF Specs, Formatters, Marked, handle_flag
  <1> HIDE DEF f
  <1>4. s2.formatters = fs \o <<f>> /\ s2.chars = <<>> /\ ~s2.flag
    <2>1. s2.formatters = s1.formatters \o handle_flag(c) /\ s2.chars = s1.chars /\ ~s2.flag
      <3>1. c \in Drawn
        OBVIOUS
      <3> QED
        BY <1>1, <3>1, ReadsFlag
    <2> HIDE DEF s2
    <2> QED
      BY <1>1, <1>3, <2>1
  <1>5. fs \o <<f>> = Append(fs, f) /\ Append(fs, f) \in Seq(Specs)
    BY <1>2, <1>3, AppendIsConcat, AppendProperties
  <1>6. Ended(fs \o <<f>>, msg, tm) = FormatOne(Drawing(sc, msg, tm), f, msg, tm)
    BY <1>2, <1>3, <1>5, LinesAppend
  <1>7. Spelled(<<>>) = <<>>
    BY EmptySeq, SpelledType
  <1>8. Write(Ended(fs \o <<f>>, msg, tm), <<>>) = Ended(fs \o <<f>>, msg, tm)
    <2>1. Ended(fs \o <<f>>, msg, tm) \in GoodLines
      BY <1>5, EndedType
    <2> QED
      BY <2>1, WritesTwo, EmptySeq
  <1>9. Drawing(s2, msg, tm) = FormatOne(Drawing(sc, msg, tm), f, msg, tm)
    BY <1>4, <1>6, <1>7, <1>8 DEF Drawing
  <1> QED
    BY <1>4, <1>9 DEF s1, f

LEMMA DrawsAll ==
    ASSUME NEW msg \in Messages, NEW tm \in Instant, NEW p \in Seq(Drawn)
    PROVE  Ended(compile_pattern(p), msg, tm) = Drawing(Scans(p)[Len(p)], msg, tm)
  <1>1. Len(p) \in Nat /\ Scanned(Scans(p), p, Drawn)
    BY LenProperties, ScansFollow
  <1>2. Scans(p)[Len(p)] \in Readings(Drawn)
    BY <1>1 DEF Scanned
  <1>3. PICK fs \in Seq(Specs), cs \in Seq(Drawn) :
           fs = Scans(p)[Len(p)].formatters /\ cs = Scans(p)[Len(p)].chars
    BY <1>2 DEF Readings, Specs
  <1>4. compile_pattern(p) = fs \o user_chars(cs)
    BY <1>3 DEF compile_pattern
  <1> QED
    BY <1>3, <1>4, EndedUser DEF Drawing

-----------------------------------------------------------------------------
(* The line of %+ and of the pattern it stands for.                         *)
LEMMA FullPatternIs ==
    LET p == FullPattern
    IN  /\ p \in Seq(Drawn) /\ Len(p) = 39
        /\ p[1] = "[" /\ p[2] = "%" /\ p[3] = "Y" /\ p[4] = "-" /\ p[5] = "%" /\ p[6] = "m"
        /\ p[7] = "-" /\ p[8] = "%" /\ p[9] = "d" /\ p[10] = " " /\ p[11] = "%" /\ p[12] = "H"
        /\ p[13] = ":" /\ p[14] = "%" /\ p[15] = "M" /\ p[16] = ":" /\ p[17] = "%"
        /\ p[18] = "S" /\ p[19] = "." /\ p[20] = "%" /\ p[21] = "e" /\ p[22] = "]"
        /\ p[23] = " " /\ p[24] = "[" /\ p[25] = "%" /\ p[26] = "n" /\ p[27] = "]"
        /\ p[28] = " " /\ p[29] = "[" /\ p[30] = "%" /\ p[31] = "^" /\ p[32] = "%"
        /\ p[33] = "l" /\ p[34] = "%" /\ p[35] = "$" /\ p[36] = "]" /\ p[37] = " "
        /\ p[38] = "%" /\ p[39] = "v"
  <1> DEFINE p == FullPattern
  <1>1. p \in Seq(FullChars)
    BY SMTT(60) DEF FullPattern, FullChars
  <1>2. Len(p) = 39
    BY DEF FullPattern
  <1>3. p \in Seq(Drawn)
    BY <1>1, SeqMonotonic DEF Drawn
  <1> QED
    BY <1>2, <1>3 DEF FullPattern

LEMMA HeadIs ==
    ASSUME NEW msg \in Messages, NEW tm \in Instant
    PROVE  LET w == FullHead(msg, tm)
           IN  /\ w \in Seq(Pieces) /\ Len(w) = 21
               /\ w[1] = Ch("[") /\ w[2] = Year(tm) /\ w[3] = Ch("-") /\ w[4] = Num(tm.mon + 1, 2)
               /\ w[5] = Ch("-") /\ w[6] = Num(tm.mday, 2) /\ w[7] = Ch(" ")
               /\ w[8] = Num(tm.hour, 2) /\ w[9] = Ch(":") /\ w[10] = Num(tm.min, 2)
               /\ w[11] = Ch(":") /\ w[12] = Num(tm.sec, 2) /\ w[13] = Ch(".")
               /\ w[14] = Num(millis(msg), 3) /\ w[15] = Ch("]") /\ w[16] = Ch(" ")
               /\ w[17] = Ch("[") /\ w[18] = Ch(msg.name) /\ w[19] = Ch("]")
               /\ w[20] = Ch(" ") /\ w[21] = Ch("[")
  <1> DEFINE a == HeadDate(tm)
             c == Clock(tm)
             b == HeadName(msg)
             x == a \o c
             w == x \o b
  <1>1. a \in Outs /\ b \in Outs /\ c \in Outs
    BY HeadParts, ClockTypes, Regroup
  <1>2. /\ Len(a) = 7 /\ a[1] = Ch("[") /\ a[2] = Year(tm) /\ a[3] = Ch("-")
        /\ a[4] = Num(tm.mon + 1, 2) /\ a[5] = Ch("-") /\ a[6] = Num(tm.mday, 2) /\ a[7] = Ch(" ")
    BY DEF HeadDate
  <1>3. /\ Len(c) = 5 /\ c[1] = Num(tm.hour, 2) /\ c[2] = Ch(":") /\ c[3] = Num(tm.min, 2)
        /\ c[4] = Ch(":") /\ c[5] = Num(tm.sec, 2)
    BY DEF Clock, pad_n_join3
  <1>4. /\ Len(b) = 9 /\ b[1] = Ch(".") /\ b[2] = Num(millis(msg), 3) /\ b[3] = Ch("]")
        /\ b[4] = Ch(" ") /\ b[5] = Ch("[") /\ b[6] = Ch(msg.name) /\ b[7] = Ch("]")
        /\ b[8] = Ch(" ") /\ b[9] = Ch("[")
    BY DEF HeadName
  <1>5. FullHead(msg, tm) = w /\ w \in Seq(Pieces)
    <2>1. FullHead(msg, tm) = w
      BY DEF FullHead, HeadDate, HeadName
    <2> QED
      BY <2>1, FullType
  <1> HIDE DEF a, b, c
  <1>6. JoinsTo(x, a, c)
    BY <1>1, OutsJoin
  <1> HIDE DEF x
  <1>7. JoinsTo(w, x, b)
    BY <1>1, <1>6, OutsJoin DEF JoinsTo
  <1> HIDE DEF w
  <1>8. /\ Len(x) = 12 /\ Len(w) = 21
        /\ \A i \in 1..7 : w[i] = a[i]
        /\ \A i \in 1..5 : w[7 + i] = c[i]
        /\ \A i \in 1..9 : w[12 + i] = b[i]
    <2>0. Len(a) = 7 /\ Len(c) = 5 /\ Len(b) = 9
      BY <1>2, <1>3, <1>4
    <2>1. Len(x) = 12 /\ Len(w) = 21
      BY <2>0, <1>6, <1>7 DEF JoinsTo
    <2>2. ASSUME NEW i \in 1..7 PROVE w[i] = a[i]
      <3>1. i \in 1..Len(a) /\ i \in 1..Len(x)
        BY <2>0, <2>1
      <3> QED
        BY <1>6, <1>7, <3>1 DEF JoinsTo
    <2>3. ASSUME NEW i \in 1..5 PROVE w[7 + i] = c[i]
      <3>1. i \in 1..Len(c) /\ 7 + i \in 1..Len(x) /\ 7 + i = Len(a) + i
        BY <2>0, <2>1
      <3> QED
        BY <1>6, <1>7, <3>1 DEF JoinsTo
    <2>4. ASSUME NEW i \in 1..9 PROVE w[12 + i] = b[i]
      <3>1. i \in 1..Len(b) /\ 12 + i = Len(x) + i
        BY <2>0, <2>1
      <3> QED
        BY <1>7, <3>1 DEF JoinsTo
    <2> QED
      BY <2>1, <2>2, <2>3, <2>4
  <1>9. /\ w[1] = a[1] /\ w[2] = a[2] /\ w[3] = a[3] /\ w[4] = a[4] /\ w[5] = a[5]
        /\ w[6] = a[6] /\ w[7] = a[7] /\ w[8] = c[1] /\ w[9] = c[2] /\ w[10] = c[3]
        /\ w[11] = c[4] /\ w[12] = c[5] /\ w[13] = b[1] /\ w[14] = b[2] /\ w[15] = b[3]
        /\ w[16] = b[4] /\ w[17] = b[5] /\ w[18] = b[6] /\ w[19] = b[7] /\ w[20] = b[8]
        /\ w[21] = b[9]
    <2>1. /\ w[7 + 1] = c[1] /\ w[7 + 2] = c[2] /\ w[7 + 3] = c[3] /\ w[7 + 4] = c[4]
          /\ w[7 + 5] = c[5] /\ w[12 + 1] = b[1] /\ w[12 + 2] = b[2] /\ w[12 + 3] = b[3]
          /\ w[12 + 4] = b[4] /\ w[12 + 5] = b[5] /\ w[12 + 6] = b[6] /\ w[12 + 7] = b[7]
          /\ w[12 + 8] = b[8] /\ w[12 + 9] = b[9]
      BY <1>8
    <2> QED
      BY <1>8, <2>1
  <1> SUFFICES
        /\ w \in Seq(Pieces) /\ Len(w) = 21
        /\ w[1] = Ch("[") /\ w[2] = Year(tm) /\ w[3] = Ch("-") /\ w[4] = Num(tm.mon + 1, 2)
        /\ w[5] = Ch("-") /\ w[6] = Num(tm.mday, 2) /\ w[7] = Ch(" ")
        /\ w[8] = Num(tm.hour, 2) /\ w[9] = Ch(":") /\ w[10] = Num(tm.min, 2)
        /\ w[11] = Ch(":") /\ w[12] = Num(tm.sec, 2) /\ w[13] = Ch(".")
        /\ w[14] = Num(millis(msg), 3) /\ w[15] = Ch("]") /\ w[16] = Ch(" ")
        /\ w[17] = Ch("[") /\ w[18] = Ch(msg.name) /\ w[19] = Ch("]")
        /\ w[20] = Ch(" ") /\ w[21] = Ch("[")
    BY <1>5
  <1> QED
    BY <1>2, <1>3, <1>4, <1>5, <1>8, <1>9

LEMMA FlagsAre ==
    ASSUME NEW msg, NEW tm
    PROVE  /\ ShownText("Y", msg, tm) = <<Year(tm)>>
           /\ ShownText("m", msg, tm) = <<Num(tm.mon + 1, 2)>>
           /\ ShownText("d", msg, tm) = <<Num(tm.mday, 2)>>
           /\ ShownText("H", msg, tm) = <<Num(tm.hour, 2)>>
           /\ ShownText("M", msg, tm) = <<Num(tm.min, 2)>>
           /\ ShownText("S", msg, tm) = <<Num(tm.sec, 2)>>
           /\ ShownText("e", msg, tm) = <<Num(millis(msg), 3)>>
           /\ ShownText("n", msg, tm) = <<Ch(msg.name)>>
           /\ ShownText("l", msg, tm) = <<Ch(msg.level)>>
           /\ ShownText("v", msg, tm) = msg.raw
  <1>1. ASSUME NEW c \in TimeFlags PROVE ShownText(c, msg, tm) = TimeText(msg, tm)[c]
    BY Disjoint DEF ShownText
  <1>2. ASSUME NEW c \in TextFlags PROVE ShownText(c, msg, tm) = Text(msg)[c]
    BY Disjoint DEF ShownText
  <1>3. /\ {"Y", "m", "d", "H", "M", "S", "e"} \subseteq TimeFlags
        /\ {"n", "l", "v"} \subseteq TextFlags
    BY DEF TimeFlags, TextFlags
  <1>4. LET t == TimeText(msg, tm)
        IN  /\ t["Y"] = <<Year(tm)>> /\ t["m"] = <<Num(tm.mon + 1, 2)>>
            /\ t["d"] = <<Num(tm.mday, 2)>> /\ t["H"] = <<Num(tm.hour, 2)>>
            /\ t["M"] = <<Num(tm.min, 2)>> /\ t["S"] = <<Num(tm.sec, 2)>>
            /\ t["e"] = <<Num(millis(msg), 3)>>
    BY DEF TimeText
  <1>5. LET t == Text(msg)
        IN  t["n"] = <<Ch(msg.name)>> /\ t["l"] = <<Ch(msg.level)>> /\ t["v"] = msg.raw
    BY DEF Text
  <1> QED
    BY <1>1, <1>2, <1>3, <1>4, <1>5

\* The line is drawn up to the character i of the pattern: it is l.
Draws(p, i, l, msg, tm) ==
    i \in 0..Len(p) /\ ~Scans(p)[i].flag /\ Drawing(Scans(p)[i], msg, tm) = l

LEMMA DrawsNone ==
    ASSUME NEW msg \in Messages, NEW tm \in Instant, NEW p \in Seq(Drawn)
    PROVE  Draws(p, 0, NoLine, msg, tm)
  <1>1. Scans(p)[0] = NoScan /\ Len(p) \in Nat
    BY ScansFollow, LenProperties DEF Scanned
  <1>2. Drawing(NoScan, msg, tm) = Write(Ended(<<>>, msg, tm), Spelled(<<>>))
    BY DEF Drawing, NoScan
  <1>3. Spelled(<<>>) = <<>>
    BY EmptySeq, SpelledType
  <1>4. Ended(<<>>, msg, tm) = NoLine /\ NoLine \in GoodLines
    BY EmptySeq, EndedType
  <1>5. Write(NoLine, <<>>) = NoLine
    BY <1>4, WritesTwo, EmptySeq
  <1> QED
    BY <1>1, <1>2, <1>3, <1>4, <1>5 DEF Draws, NoScan

LEMMA DrawsOn ==
    ASSUME NEW msg \in Messages, NEW tm \in Instant, NEW p \in Seq(Drawn),
           NEW i \in Nat, i < Len(p), NEW l, Draws(p, i, l, msg, tm), p[i + 1] # "%"
    PROVE  Draws(p, i + 1, Write(l, <<Ch(p[i + 1])>>), msg, tm)
  <1>1. Scanned(Scans(p), p, Drawn) /\ Len(p) \in Nat /\ i \in 0..Len(p)
        /\ i + 1 \in 1..Len(p) /\ (i + 1) - 1 = i
    BY ScansFollow, LenProperties
  <1> DEFINE sc == Scans(p)[i]
             c == p[i + 1]
  <1>2. sc \in Readings(Drawn) /\ c \in Drawn /\ Scans(p)[i + 1] = Read(c, sc)
    BY <1>1, ElementOfSeq DEF Scanned
  <1>3. ~sc.flag /\ Drawing(sc, msg, tm) = l /\ c # "%"
    BY DEF Draws
  <1> HIDE DEF sc, c
  <1>4. ~Read(c, sc).flag /\ Drawing(Read(c, sc), msg, tm) = Write(Drawing(sc, msg, tm), <<Ch(c)>>)
    BY <1>2, <1>3, DrawsChar
  <1> QED
    BY <1>1, <1>2, <1>3, <1>4 DEF Draws, c

LEMMA DrawsMark ==
    ASSUME NEW msg \in Messages, NEW tm \in Instant, NEW p \in Seq(Drawn),
           NEW i \in Nat, i + 1 < Len(p), NEW l, Draws(p, i, l, msg, tm),
           p[i + 1] = "%", p[i + 2] \in Flags
    PROVE  Draws(p, i + 2, FormatOne(l, <<"flag", p[i + 2]>>, msg, tm), msg, tm)
  <1>1. Scanned(Scans(p), p, Drawn) /\ Len(p) \in Nat /\ i \in 0..Len(p)
        /\ i + 1 \in 1..Len(p) /\ (i + 1) - 1 = i /\ i + 2 \in 1..Len(p) /\ (i + 2) - 1 = i + 1
    BY ScansFollow, LenProperties
  <1> DEFINE sc == Scans(p)[i]
             c == p[i + 2]
  <1>2. /\ sc \in Readings(Drawn) /\ c \in Drawn /\ "%" \in Drawn
        /\ Scans(p)[i + 2] = Read(c, Read("%", sc))
    BY <1>1, ElementOfSeq DEF Scanned
  <1>3. ~sc.flag /\ Drawing(sc, msg, tm) = l /\ c \in Flags
    BY DEF Draws
  <1> HIDE DEF sc, c
  <1>4. c \in Drawn \cap Flags
    BY <1>2, <1>3
  <1>5. /\ ~Read(c, Read("%", sc)).flag
        /\ Drawing(Read(c, Read("%", sc)), msg, tm)
             = FormatOne(Drawing(sc, msg, tm), <<"flag", c>>, msg, tm)
    BY <1>2, <1>3, <1>4, DrawsFlag
  <1> QED
    BY <1>1, <1>2, <1>3, <1>5 DEF Draws, c

LEMMA NoLineWrites == NoLine \in GoodLines /\ Write(NoLine, <<>>) = NoLine
  <1>1. NoLine \in GoodLines
    BY EmptySeq DEF NoLine, GoodLines
  <1> QED
    BY <1>1, WritesTwo, EmptySeq

LEMMA OneMore ==
    ASSUME NEW w \in Seq(Pieces), NEW j \in Nat, j < Len(w)
    PROVE  /\ w[j + 1] \in Pieces
           /\ Write(Write(NoLine, SubSeq(w, 1, j)), <<w[j + 1]>>) = Write(NoLine, SubSeq(w, 1, j + 1))
  <1>1. Len(w) \in Nat /\ j + 1 \in 1..Len(w) /\ 1 \in 1..Len(w) /\ (j + 1) - 1 = j
    BY LenProperties
  <1>2. \A i \in 1..Len(w) : w[i] \in Pieces
    BY ElementOfSeq
  <1>3. SubSeq(w, 1, j + 1) = SubSeq(w, 1, j) \o <<w[j + 1]>>
    BY <1>1, SubSeqRecursiveSecond
  <1>4. SubSeq(w, 1, j) \in Seq(Pieces) /\ <<w[j + 1]>> \in Seq(Pieces)
    BY <1>1, <1>2, SubSeqProperties
  <1> DEFINE a == SubSeq(w, 1, j)
             b == <<w[j + 1]>>
  <1>5. NoLine \in GoodLines /\ a \in Seq(Pieces) /\ b \in Seq(Pieces)
    BY <1>4, NoLineWrites
  <1> HIDE DEF a, b
  <1>6. Write(Write(NoLine, a), b) = Write(NoLine, a \o b)
    BY <1>5, WritesTwo
  <1> QED
    BY <1>1, <1>2, <1>3, <1>6 DEF a, b

\* A text of one piece.
Just(x) == <<x>>

\* What the characters of the pattern draw.
LEMMA DrawsEach ==
    ASSUME NEW msg \in Messages, NEW tm \in Instant, NEW p \in Seq(Drawn),
           NEW i \in Nat, NEW l, Draws(p, i, l, msg, tm)
    PROVE  /\ i < Len(p) /\ p[i + 1] # "%" =>
                  Draws(p, i + 1, Write(l, Just(Ch(p[i + 1]))), msg, tm)
           /\ i + 1 < Len(p) /\ p[i + 1] = "%" =>
                  /\ p[i + 2] \in TextFlags \cup TimeFlags =>
                        Draws(p, i + 2, Write(l, ShownText(p[i + 2], msg, tm)), msg, tm)
                  /\ p[i + 2] = "^" => Draws(p, i + 2, ColorStart(l), msg, tm)
                  /\ p[i + 2] = "$" => Draws(p, i + 2, ColorStop(l), msg, tm)
                  /\ p[i + 2] = "+" => Draws(p, i + 2, full_formatter(l, msg, tm), msg, tm)
  <1>1. CASE i < Len(p) /\ p[i + 1] # "%"
    <2>1. Draws(p, i + 1, Write(l, <<Ch(p[i + 1])>>), msg, tm)
      BY <1>1, DrawsOn
    <2> QED
      BY <1>1, <2>1 DEF Just
  <1>2. ASSUME i + 1 < Len(p), p[i + 1] = "%", NEW c \in Flags, c = p[i + 2]
        PROVE  Draws(p, i + 2, FormatOne(l, <<"flag", c>>, msg, tm), msg, tm)
    BY <1>2, DrawsMark
  <1>3. ASSUME i + 1 < Len(p), p[i + 1] = "%", NEW c \in TextFlags \cup TimeFlags, c = p[i + 2]
        PROVE  Draws(p, i + 2, Write(l, ShownText(c, msg, tm)), msg, tm)
    <2>1. c \in Flags
      BY DEF Flags
    <2> QED
      BY <1>2, <1>3, <2>1, FlagWrites
  <1>4. ASSUME i + 1 < Len(p), p[i + 1] = "%"
        PROVE  /\ p[i + 2] = "^" => Draws(p, i + 2, ColorStart(l), msg, tm)
               /\ p[i + 2] = "$" => Draws(p, i + 2, ColorStop(l), msg, tm)
               /\ p[i + 2] = "+" => Draws(p, i + 2, full_formatter(l, msg, tm), msg, tm)
    <2>0. "^" \in Flags /\ "$" \in Flags /\ "+" \in Flags
      BY DEF Flags
    <2>1. p[i + 2] = "^" => Draws(p, i + 2, FormatOne(l, <<"flag", "^">>, msg, tm), msg, tm)
      BY <1>2, <1>4, <2>0
    <2>2. p[i + 2] = "$" => Draws(p, i + 2, FormatOne(l, <<"flag", "$">>, msg, tm), msg, tm)
      BY <1>2, <1>4, <2>0
    <2>3. p[i + 2] = "+" => Draws(p, i + 2, FormatOne(l, <<"flag", "+">>, msg, tm), msg, tm)
      BY <1>2, <1>4, <2>0
    <2> QED
      BY <2>1, <2>2, <2>3, MarkWrites
  <1> QED
    BY <1>1, <1>3, <1>4

\* Up to the character i of the pattern, j pieces of its head are drawn.
Begun(i, j, msg, tm) ==
    Draws(FullPattern, i, Write(NoLine, SubSeq(FullHead(msg, tm), 1, j)), msg, tm)

LEMMA FullSizes ==
    ASSUME NEW msg \in Messages, NEW tm \in Instant
    PROVE  /\ FullPattern \in Seq(Drawn) /\ Len(FullPattern) = 39
           /\ FullHead(msg, tm) \in Seq(Pieces) /\ Len(FullHead(msg, tm)) = 21
  <1>1. FullPattern \in Seq(Drawn) /\ Len(FullPattern) = 39
    BY FullPatternIs
  <1>2. FullHead(msg, tm) \in Seq(Pieces) /\ Len(FullHead(msg, tm)) = 21
    BY HeadIs
  <1> QED
    BY <1>1, <1>2

\* One more piece is drawn.
LEMMA BegunOn ==
    ASSUME NEW msg \in Messages, NEW tm \in Instant, NEW i \in 0..38, NEW j \in 0..20,
           Begun(i, j, msg, tm)
    PROVE  /\ (/\ FullPattern[i + 1] # "%"
               /\ FullHead(msg, tm)[j + 1] = Ch(FullPattern[i + 1])) =>
                  Begun(i + 1, j + 1, msg, tm)
           /\ (/\ i < 38 /\ FullPattern[i + 1] = "%"
               /\ FullPattern[i + 2] \in TextFlags \cup TimeFlags
               /\ ShownText(FullPattern[i + 2], msg, tm) = Just(FullHead(msg, tm)[j + 1])) =>
                  Begun(i + 2, j + 1, msg, tm)
  <1> DEFINE p == FullPattern
             w == FullHead(msg, tm)
             l == Write(NoLine, SubSeq(w, 1, j))
  <1>1. p \in Seq(Drawn) /\ Len(p) = 39 /\ w \in Seq(Pieces) /\ Len(w) = 21
    BY FullSizes
  <1>2. Write(l, Just(w[j + 1])) = Write(NoLine, SubSeq(w, 1, j + 1))
    <2>1. w \in Seq(Pieces) /\ j \in Nat /\ j < Len(w)
      BY <1>1
    <2> HIDE DEF w
    <2> QED
      BY <2>1, OneMore DEF Just
  <1>3. i \in Nat /\ i < Len(p) /\ (i < 38 => i + 1 < Len(p)) /\ Draws(p, i, l, msg, tm)
    BY <1>1 DEF Begun
  <1> SUFFICES
        /\ p[i + 1] # "%" /\ w[j + 1] = Ch(p[i + 1]) => Begun(i + 1, j + 1, msg, tm)
        /\ (/\ i < 38 /\ p[i + 1] = "%" /\ p[i + 2] \in TextFlags \cup TimeFlags
            /\ ShownText(p[i + 2], msg, tm) = Just(w[j + 1])) => Begun(i + 2, j + 1, msg, tm)
    OBVIOUS
  <1>4. /\ Begun(i + 1, j + 1, msg, tm) <=> Draws(p, i + 1, Write(l, Just(w[j + 1])), msg, tm)
        /\ Begun(i + 2, j + 1, msg, tm) <=> Draws(p, i + 2, Write(l, Just(w[j + 1])), msg, tm)
    BY <1>2 DEF Begun
  <1> HIDE DEF p, w, l
  <1> QED
    BY <1>1, <1>3, <1>4, DrawsEach

LEMMA HeadDraws ==
    ASSUME NEW msg \in Messages, NEW tm \in Instant
    PROVE  Draws(FullPattern, 29, Write(NoLine, FullHead(msg, tm)), msg, tm)
  <1> DEFINE p == FullPattern
             w == FullHead(msg, tm)
             B(i, j) == Begun(i, j, msg, tm)
             C(i, j) == p[i + 1] # "%" /\ w[j + 1] = Ch(p[i + 1])
             D(i, j) == /\ p[i + 1] = "%" /\ p[i + 2] \in TextFlags \cup TimeFlags
                        /\ ShownText(p[i + 2], msg, tm) = Just(w[j + 1])
  <1>1. ASSUME NEW i \in 0..38, NEW j \in 0..20, B(i, j), C(i, j) PROVE B(i + 1, j + 1)
    BY <1>1, BegunOn
  <1>2. ASSUME NEW i \in 0..37, NEW j \in 0..20, B(i, j), D(i, j) PROVE B(i + 2, j + 1)
    <2>1. i \in 0..38 /\ i < 38
      OBVIOUS
    <2> QED
      BY <1>2, <2>1, BegunOn
  <1>3. {"Y", "m", "d", "H", "M", "S", "e", "n"} \subseteq TextFlags \cup TimeFlags
    BY DEF TextFlags, TimeFlags
  <1>4. /\ C(0, 0) /\ C(3, 2) /\ C(6, 4) /\ C(9, 6) /\ C(12, 8) /\ C(15, 10) /\ C(18, 12)
        /\ C(21, 14) /\ C(22, 15) /\ C(23, 16) /\ C(26, 18) /\ C(27, 19) /\ C(28, 20)
    <2>1. /\ p[1] = "[" /\ p[4] = "-" /\ p[7] = "-" /\ p[10] = Blank /\ p[13] = ":" /\ p[16] = ":"
          /\ p[19] = "." /\ p[22] = "]" /\ p[23] = Blank /\ p[24] = "[" /\ p[27] = "]"
          /\ p[28] = Blank /\ p[29] = "["
      BY FullPatternIs DEF Blank
    <2>2. /\ w[1] = Ch("[") /\ w[3] = Ch("-") /\ w[5] = Ch("-") /\ w[7] = Ch(Blank)
          /\ w[9] = Ch(":") /\ w[11] = Ch(":") /\ w[13] = Ch(".") /\ w[15] = Ch("]")
          /\ w[16] = Ch(Blank) /\ w[17] = Ch("[") /\ w[19] = Ch("]") /\ w[20] = Ch(Blank)
          /\ w[21] = Ch("[")
      BY HeadIs DEF Blank
    <2>3. Blank # "%"
      BY DEF Blank
    <2> HIDE DEF p, w
    <2> QED
      BY <2>1, <2>2, <2>3
  <1>5. /\ D(1, 1) /\ D(4, 3) /\ D(7, 5) /\ D(10, 7) /\ D(13, 9) /\ D(16, 11)
        /\ D(19, 13) /\ D(24, 17)
    <2>1. /\ p[2] = "%" /\ p[3] = "Y" /\ p[5] = "%" /\ p[6] = "m" /\ p[8] = "%" /\ p[9] = "d"
          /\ p[11] = "%" /\ p[12] = "H" /\ p[14] = "%" /\ p[15] = "M" /\ p[17] = "%"
          /\ p[18] = "S" /\ p[20] = "%" /\ p[21] = "e" /\ p[25] = "%" /\ p[26] = "n"
      BY FullPatternIs
    <2>2. /\ ShownText("Y", msg, tm) = Just(w[2]) /\ ShownText("m", msg, tm) = Just(w[4])
          /\ ShownText("d", msg, tm) = Just(w[6]) /\ ShownText("H", msg, tm) = Just(w[8])
          /\ ShownText("M", msg, tm) = Just(w[10]) /\ ShownText("S", msg, tm) = Just(w[12])
          /\ ShownText("e", msg, tm) = Just(w[14]) /\ ShownText("n", msg, tm) = Just(w[18])
      <3>1. /\ w[2] = Year(tm) /\ w[4] = Num(tm.mon + 1, 2) /\ w[6] = Num(tm.mday, 2)
            /\ w[8] = Num(tm.hour, 2) /\ w[10] = Num(tm.min, 2) /\ w[12] = Num(tm.sec, 2)
            /\ w[14] = Num(millis(msg), 3) /\ w[18] = Ch(msg.name)
        BY HeadIs
      <3> HIDE DEF w
      <3> QED
        BY <3>1, FlagsAre DEF Just
    <2> HIDE DEF p, w
    <2> QED
      BY <1>3, <2>1, <2>2
  <1>6. B(0, 0)
    <2>1. p \in Seq(Drawn) /\ w \in Seq(Pieces)
      BY FullSizes
    <2>2. SubSeq(w, 1, 0) = <<>>
      BY SubSeqEmpty
    <2>3. Write(NoLine, <<>>) = NoLine
      BY NoLineWrites
    <2> QED
      BY <2>1, <2>2, <2>3, DrawsNone DEF Begun
  <1> HIDE DEF B, C, D
  <1>7. B(1, 1) /\ B(3, 2) /\ B(4, 3) /\ B(6, 4) /\ B(7, 5) /\ B(9, 6) /\ B(10, 7)
    <2>1. B(0 + 1, 0 + 1)
      BY <1>1, <1>4, <1>6
    <2>2. B(1, 1)
      BY <2>1
    <2>3. B(3, 2)
      <3>1. B(1 + 2, 1 + 1)
        BY <1>2, <1>5, <2>2
      <3> QED
        BY <3>1
    <2>4. B(4, 3)
      <3>1. B(3 + 1, 2 + 1)
        BY <1>1, <1>4, <2>3
      <3> QED
        BY <3>1
    <2>5. B(6, 4)
      <3>1. B(4 + 2, 3 + 1)
        BY <1>2, <1>5, <2>4
      <3> QED
        BY <3>1
    <2> QED
      BY <1>1, <1>2, <1>4, <1>5, <2>2, <2>3, <2>4, <2>5
  <1>8. B(12, 8) /\ B(13, 9) /\ B(15, 10) /\ B(16, 11) /\ B(18, 12) /\ B(19, 13) /\ B(21, 14)
    BY <1>1, <1>2, <1>4, <1>5, <1>7
  <1>9. B(22, 15) /\ B(23, 16) /\ B(24, 17) /\ B(26, 18) /\ B(27, 19) /\ B(28, 20) /\ B(29, 21)
    BY <1>1, <1>2, <1>4, <1>5, <1>8
  <1>10. SubSeq(w, 1, 21) = w
    BY FullSizes, SubSeqFull
  <1> QED
    BY <1>9, <1>10 DEF B, Begun

\* The rest of the line: the level between the marks, and the message.
Level(line, msg) == ColorStop(Write(ColorStart(line), Just(Ch(msg.level))))
Rest(line, msg) == Write(Write(Write(line, Just(Ch("]"))), Just(Ch(Blank))), msg.raw)

LEMMA TailDraws ==
    ASSUME NEW msg \in Messages, NEW tm \in Instant, NEW l, Draws(FullPattern, 29, l, msg, tm)
    PROVE  Ended(compile_pattern(FullPattern), msg, tm) = Rest(Level(l, msg), msg)
  <1> DEFINE p == FullPattern
             l2 == ColorStart(l)
             l3 == Write(l2, Just(Ch(msg.level)))
             l4 == ColorStop(l3)
             l5 == Write(l4, Just(Ch("]")))
             l6 == Write(l5, Just(Ch(Blank)))
             l7 == Write(l6, msg.raw)
  <1>1. /\ p \in Seq(Drawn) /\ Len(p) = 39
        /\ p[30] = "%" /\ p[31] = "^" /\ p[32] = "%" /\ p[33] = "l" /\ p[34] = "%" /\ p[35] = "$"
        /\ p[36] = "]" /\ p[37] = Blank /\ p[38] = "%" /\ p[39] = "v"
    BY FullPatternIs DEF Blank
  <1>2. "l" \in TextFlags \cup TimeFlags /\ "v" \in TextFlags \cup TimeFlags
    BY DEF TextFlags
  <1>3. ShownText("l", msg, tm) = Just(Ch(msg.level)) /\ ShownText("v", msg, tm) = msg.raw
    BY FlagsAre DEF Just
  <1>B. Blank # "%"
    BY DEF Blank
  <1>4. Draws(p, 29, l, msg, tm)
    OBVIOUS
  <1> HIDE DEF p
  <1>5. Draws(p, 31, l2, msg, tm)
    <2>1. p[29 + 1] = "%" /\ p[29 + 2] = "^" /\ 29 + 1 < Len(p) /\ 29 \in Nat /\ 29 + 2 = 31
      BY <1>1
    <2> QED
      BY <1>1, <1>4, <2>1, DrawsEach
  <1> HIDE DEF l2
  <1>6. Draws(p, 33, l3, msg, tm)
    <2>1. p[31 + 1] = "%" /\ p[31 + 2] = "l" /\ 31 + 1 < Len(p) /\ 31 \in Nat /\ 31 + 2 = 33
      BY <1>1
    <2> QED
      BY <1>1, <1>2, <1>3, <1>5, <2>1, DrawsEach
  <1> HIDE DEF l3
  <1>7. Draws(p, 35, l4, msg, tm)
    <2>1. p[33 + 1] = "%" /\ p[33 + 2] = "$" /\ 33 + 1 < Len(p) /\ 33 \in Nat /\ 33 + 2 = 35
      BY <1>1
    <2> QED
      BY <1>1, <1>6, <2>1, DrawsEach
  <1> HIDE DEF l4
  <1>8. Draws(p, 36, l5, msg, tm)
    <2>1. p[35 + 1] = "]" /\ 35 < Len(p) /\ 35 \in Nat /\ 35 + 1 = 36
      BY <1>1
    <2> QED
      BY <1>1, <1>7, <2>1, DrawsEach
  <1> HIDE DEF l5
  <1>9. Draws(p, 37, l6, msg, tm)
    <2>1. p[36 + 1] = Blank /\ 36 < Len(p) /\ 36 \in Nat /\ 36 + 1 = 37
      BY <1>1
    <2> QED
      BY <1>1, <1>B, <1>8, <2>1, DrawsEach
  <1> HIDE DEF l6
  <1>10. Draws(p, 39, l7, msg, tm)
    <2>1. p[37 + 1] = "%" /\ p[37 + 2] = "v" /\ 37 + 1 < Len(p) /\ 37 \in Nat /\ 37 + 2 = 39
      BY <1>1
    <2> QED
      BY <1>1, <1>2, <1>3, <1>9, <2>1, DrawsEach
  <1>11. Ended(compile_pattern(p), msg, tm) = l7
    BY <1>1, <1>10, DrawsAll DEF Draws
  <1> QED
    BY <1>11 DEF p, l2, l3, l4, l5, l6, l7, Level, Rest

LEMMA RestIs ==
    ASSUME NEW msg \in Messages, NEW line \in GoodLines
    PROVE  Rest(line, msg) = Write(line, <<Ch("]"), Ch(" ")>> \o msg.raw)
  <1> DEFINE u == Ch("]")
             v == Ch(" ")
             e == <<u, v>>
             r == msg.raw
  <1>1. u \in Pieces /\ v \in Pieces /\ r \in Seq(Pieces)
    BY FixedNames, PieceTypes, MessageTypes
  <1> HIDE DEF u, v, r
  <1>2. Just(u) \in Seq(Pieces) /\ Just(v) \in Seq(Pieces) /\ e \in Seq(Pieces)
    BY <1>1 DEF Just
  <1>3. /\ Len(Just(u)) = 1 /\ Len(Just(v)) = 1 /\ Len(e) = 2
        /\ Just(u)[1] = u /\ Just(v)[1] = v /\ e[1] = u /\ e[2] = v
    BY DEF Just
  <1> DEFINE s == Just(u) \o Just(v)
  <1>4. JoinsTo(s, Just(u), Just(v)) /\ s \in Seq(Pieces)
    <2>1. Just(u) \in Outs /\ Just(v) \in Outs
      BY <1>2, Regroup
    <2> QED
      BY <1>2, <2>1, OutsJoin, ConcatProperties
  <1> HIDE DEF e, s
  <1>5. Len(s) = 2 /\ s[1] = u /\ s[2] = v
    <2>1. 1 \in 1..Len(Just(u)) /\ 1 \in 1..Len(Just(v)) /\ Len(Just(u)) + 1 = 2
      BY <1>3
    <2> QED
      BY <1>3, <1>4, <2>1 DEF JoinsTo
  <1>6. \A i \in 1..Len(s) : s[i] = e[i]
    BY <1>3, <1>5
  <1>7. s = e
    BY <1>2, <1>3, <1>4, <1>5, <1>6, SeqEqual
  <1>8. Write(Write(line, Just(u)), Just(v)) = Write(line, e)
    BY <1>2, <1>7, WritesTwo DEF s
  <1>9. Write(Write(line, e), r) = Write(line, e \o r)
    BY <1>1, <1>2, WritesTwo
  <1> QED
    BY <1>8, <1>9 DEF Rest, Blank, u, v, e, r

LEMMA FullDraws ==
    ASSUME NEW msg \in Messages, NEW tm \in Instant
    PROVE  Ended(compile_pattern(FullPattern), msg, tm) = full_formatter(NoLine, msg, tm)
  <1> DEFINE l == Write(NoLine, FullHead(msg, tm))
             v == Just(Ch(msg.level))
  <1>1. Ended(compile_pattern(FullPattern), msg, tm) = Rest(Level(l, msg), msg)
    BY HeadDraws, TailDraws
  <1>2. full_formatter(NoLine, msg, tm) = Write(Level(l, msg), <<Ch("]"), Ch(" ")>> \o msg.raw)
    BY DEF full_formatter, Level, Just
  <1>3. FullHead(msg, tm) \in Seq(Pieces) /\ v \in Seq(Pieces)
    BY FullType DEF Just
  <1>4. l \in GoodLines
    BY <1>3, NoLineWrites, Writes
  <1> HIDE DEF l
  <1>5. Level(l, msg) \in GoodLines
    <2>1. ColorStart(l) \in GoodLines
      BY <1>4, Colours
    <2> HIDE DEF v
    <2>2. Write(ColorStart(l), v) \in GoodLines
      BY <1>3, <2>1, Writes
    <2>3. ColorStop(Write(ColorStart(l), v)) \in GoodLines
      BY <2>2, Colours
    <2> QED
      BY <2>3 DEF Level, v
  <1>6. Rest(Level(l, msg), msg) = Write(Level(l, msg), <<Ch("]"), Ch(" ")>> \o msg.raw)
    BY <1>5, RestIs
  <1> QED
    BY <1>1, <1>2, <1>6 DEF l

LEMMA PlusDraws ==
    ASSUME NEW msg \in Messages, NEW tm \in Instant
    PROVE  Ended(compile_pattern(<<"%", "+">>), msg, tm) = full_formatter(NoLine, msg, tm)
  <1> DEFINE p == <<"%", "+">>
  <1>1. p \in Seq(Drawn) /\ Len(p) = 2 /\ p[1] = "%" /\ p[2] = "+"
    BY DEF Drawn, FullChars
  <1> HIDE DEF p
  <1>2. Draws(p, 0, NoLine, msg, tm)
    BY <1>1, DrawsNone
  <1>3. p[0 + 1] = "%" /\ p[0 + 2] = "+" /\ 0 + 1 < Len(p) /\ 0 \in Nat /\ 0 + 2 = 2
    BY <1>1
  <1>4. Draws(p, 2, full_formatter(NoLine, msg, tm), msg, tm)
    BY <1>1, <1>2, <1>3, DrawsEach
  <1>5. Ended(compile_pattern(p), msg, tm) = full_formatter(NoLine, msg, tm)
    BY <1>1, <1>4, DrawsAll DEF Draws
  <1> QED
    BY <1>5 DEF p

LEMMA Dating == ASSUME NEW msg \in Messages PROVE Dated(msg)
  <1> DEFINE tm == get_time(msg, "local")
  <1>1. tm \in Instant
    BY TimeType
  <1>2. format(compile_pattern(<<"%", "+">>), msg, "local")
          = format(compile_pattern(FullPattern), msg, "local")
    <2> DEFINE f == compile_pattern(<<"%", "+">>)
               g == compile_pattern(FullPattern)
    <2>1. Ended(f, msg, tm) = Ended(g, msg, tm)
      BY <1>1, FullDraws, PlusDraws
    <2> HIDE DEF f, g
    <2>2. format(f, msg, "local") = Write(Ended(f, msg, tm), <<Ch("eol")>>)
      BY DEF format, Ended
    <2>3. format(g, msg, "local") = Write(Ended(g, msg, tm), <<Ch("eol")>>)
      BY DEF format, Ended
    <2> QED
      BY <2>1, <2>2, <2>3 DEF f, g
  <1> DEFINE F(c) == Field(msg, c, "local")
  <1>3. HourTold(F("H")[1][1], F("I")[1][1], F("p") = <<Ch("PM")>>)
    <2>1. F("H")[1][1] = tm.hour /\ F("I")[1][1] = to12h(tm) /\ F("p") = <<ampm(tm)>>
      BY FieldsAre
    <2> HIDE DEF F, tm
    <2> QED
      BY <1>1, <2>1, HalfDays
  <1>4. /\ F("e")[1][1] = F("F")[1][1] \div 1000000
        /\ F("f")[1][1] = F("F")[1][1] \div 1000
    <2>1. /\ F("F")[1][1] = msg.time[2] /\ F("e")[1][1] = millis(msg) /\ F("f")[1][1] = micros(msg)
      BY FieldsAre
    <2> HIDE DEF F
    <2> QED
      BY <2>1, Fractions, SMT
  <1>5. ClockAgrees(msg)
    BY ClockIs
  <1> HIDE DEF tm
  <1> QED
    BY <1>2, <1>3, <1>4, <1>5 DEF Dated, ClockAgrees

-----------------------------------------------------------------------------
(* The inputs that are put together.                                        *)
InputOK ==
    \/ input.kind = "message" /\ input.of \in Messages
    \/ input.kind = "pattern" /\ input.of \in Seq(Characters) /\ input.with \in Messages
    \/ input.kind = "times" /\ input.of \in Seq(CaptureTimes)
    \/ input.kind = "aligned" /\ input.of \in Aligns /\ input.with \in Buffers
    \/ /\ input.kind = "int" /\ input.with \in Buffers
       /\ \E s \in IntSpecs, a \in Aligns : input.of = WithAlign(s, a)
    \/ /\ input.kind = "double" /\ input.with \in Buffers
       /\ \E s \in DoubleSpecs, a \in Aligns : input.of = WithAlign(s, a)

LEMMA InputsKeep == InputSpec => []InputOK
  <1>0. Tried \subseteq Messages
    BY MessagesAssumption
  <1>1. InputInit => InputOK
    <2>1. <<>> \in Seq(Characters) /\ <<>> \in Seq(CaptureTimes)
      BY EmptySeq
    <2>2. ASSUME NEW m \in Messages, input = Input("message", m, <<>>) PROVE InputOK
      BY <2>2 DEF InputOK, Input
    <2>3. ASSUME NEW m \in Tried, input = Input("pattern", <<>>, m) PROVE InputOK
      BY <1>0, <2>1, <2>3 DEF InputOK, Input
    <2>4. ASSUME input = Input("times", <<>>, <<>>) PROVE InputOK
      BY <2>1, <2>4 DEF InputOK, Input
    <2>5. ASSUME NEW a \in Aligns, NEW b \in Buffers, input = Input("aligned", a, b) PROVE InputOK
      BY <2>5 DEF InputOK, Input
    <2> QED
      BY <2>2, <2>3, <2>4, <2>5 DEF InputInit
  <1>2. ASSUME InputOK, [InputNext]_input PROVE InputOK'
    <2>1. CASE GrowPattern
      <3>1. input.kind = "pattern" /\ input.of \in Seq(Characters) /\ input.with \in Messages
        BY <1>2, <2>1 DEF GrowPattern, Grow, InputOK
      <3>2. PICK x \in Characters : input' = Input("pattern", Append(input.of, x), input.with)
        BY <2>1 DEF GrowPattern, Grow
      <3>3. Append(input.of, x) \in Seq(Characters)
        BY <3>1, AppendProperties
      <3> QED
        BY <3>1, <3>2, <3>3 DEF Input, InputOK
    <2>2. CASE GrowTimes
      <3>1. input.kind = "times" /\ input.of \in Seq(CaptureTimes)
        BY <1>2, <2>2 DEF GrowTimes, Grow, InputOK
      <3>2. PICK x \in CaptureTimes : input' = Input("times", Append(input.of, x), input.with)
        BY <2>2 DEF GrowTimes, Grow
      <3>3. Append(input.of, x) \in Seq(CaptureTimes)
        BY <3>1, AppendProperties
      <3> QED
        BY <3>1, <3>2, <3>3 DEF Input, InputOK
    <2>3. CASE IntSpec
      <3>1. input.of \in Aligns /\ input.with \in Buffers
        BY <1>2, <2>3 DEF IntSpec, Aligned, InputOK
      <3>2. PICK s \in IntSpecs : input' = Input("int", WithAlign(s, input.of), input.with)
        BY <2>3 DEF IntSpec, Aligned
      <3> QED
        BY <3>1, <3>2 DEF Input, InputOK
    <2>4. CASE DoubleSpec
      <3>1. input.of \in Aligns /\ input.with \in Buffers
        BY <1>2, <2>4 DEF DoubleSpec, Aligned, InputOK
      <3>2. PICK s \in DoubleSpecs : input' = Input("double", WithAlign(s, input.of), input.with)
        BY <2>4 DEF DoubleSpec, Aligned
      <3> QED
        BY <3>1, <3>2 DEF Input, InputOK
    <2>5. CASE input' = input
      BY <1>2, <2>5 DEF InputOK
    <2> QED
      BY <1>2, <2>1, <2>2, <2>3, <2>4, <2>5 DEF InputNext
  <1> QED
    BY <1>1, <1>2, PTL DEF InputSpec

(* However many buffers there are and whatever their clock shows, a video   *)
(* packet's timestamp is the time since the first buffer with a clock as an *)
(* unsigned int holds it; where the clock runs on from there, and until the *)
(* unsigned int has been used up, packets are in the order of their capture.*)
(* (LibRtmpPushVideoFun, SendH264Packet)                                    *)
THEOREM VideoFollows == InputSpec => []VideoTimesFollowCapture
  <1>1. InputOK => VideoTimesFollowCapture
    <2> SUFFICES ASSUME InputOK, input.kind = "times" PROVE TimesFollow(input.of)
      BY DEF VideoTimesFollowCapture
    <2>1. input.of \in Seq(CaptureTimes)
      BY DEF InputOK
    <2>2. input.of \in Seq(Int \X Int)
      BY <2>1, TimesAssumption, ElementOfSeq
    <2> QED
      BY <2>2, Stamped
  <1> QED
    BY <1>1, InputsKeep, PTL

(* Of whatever characters a pattern is made and however its signs stand, its*)
(* flags are found and everything else is kept in its place.                *)
(* (compile_pattern)                                                        *)
THEOREM PatternsAreRead == InputSpec => []PatternIsRead
  <1>1. InputOK => PatternIsRead
    BY Compiled DEF InputOK, PatternIsRead
  <1> QED
    BY <1>1, InputsKeep, PTL

(* However the marks of a pattern stand and whatever else it is made of,    *)
(* colour codes come in one pair or not at all, change nothing else of the  *)
(* line, and hold the text between the marks.  (_sink_it)                   *)
THEOREM ColoursWrap == InputSpec => []ColoursWrapTheMarked
  <1>1. InputOK => ColoursWrapTheMarked
    BY Marking DEF InputOK, ColoursWrapTheMarked
  <1> QED
    BY <1>1, InputsKeep, PTL

(* Whatever its time and zone, the line of a message tells its clock, and   *)
(* %+ is the pattern its comment says.  (z_formatter, full_formatter)       *)
THEOREM LinesDate == InputSpec => []LineDatesTheMessage
  <1>1. InputOK => LineDatesTheMessage
    BY Dating DEF InputOK, LineDatesTheMessage
  <1> QED
    BY <1>1, InputsKeep, PTL
==============================================================================
