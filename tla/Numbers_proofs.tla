---------------------------- MODULE Numbers_proofs ----------------------------
(***************************************************************************)
(* Numbers are written whole into any buffer: what the width counted for a *)
(* number is, what its digits are, where padding and prefix go, and what   *)
(* the buffer holds when it has grown on the way.  A width is counted from *)
(* a logarithm in base two, digits are made in pairs or by shifts; both    *)
(* are shown to be of the positional numeral (Counted, Logarithm,          *)
(* ByPlacesNext).  Holds says that a buffer is what it was with a text     *)
(* after it, and what follows keeps it: IntIsWhole, DoubleIsWhole.         *)
(***************************************************************************)
EXTENDS Sequential_proofs

(* What a buffer may hold: its own symbols, and what numbers are made of.   *)
Cells == Symbols \cup {DIGITS[i] : i \in 1..22} \cup {Junk, Blank, "nul", "-", "+", ","}
           \cup IntCodes

-----------------------------------------------------------------------------
(* Division, powers and numerals in the bases that are written.             *)
Bases == {2, 8, 10, 16}

LEMMA DivBounds ==
    ASSUME NEW a \in Nat, NEW c \in Nat, c > 0
    PROVE  /\ a \div c \in Nat /\ a % c \in 0..(c - 1)
           /\ c * (a \div c) <= a /\ a < c * (a \div c) + c
           /\ a = c * (a \div c) + (a % c)
  OBVIOUS

LEMMA Product == ASSUME NEW a \in Nat, NEW b \in Nat PROVE a * b \in Nat
  OBVIOUS

LEMMA DivIs ==
    ASSUME NEW a \in Nat, NEW c \in Nat, c > 0, NEW r \in Nat, c * r <= a, a < c * r + c
    PROVE  a \div c = r
  OBVIOUS

LEMMA Pos == ASSUME NEW b \in Bases, NEW x \in Nat \ {0} PROVE b * x \in Nat \ {0} /\ b * x > x
  BY DEF Bases

LEMMA DivBase ==
    ASSUME NEW B \in Bases, NEW v \in Nat
    PROVE  /\ v \div B \in Nat /\ v % B \in 0..(B - 1) /\ v = B * (v \div B) + (v % B)
           /\ v >= B => v \div B < v /\ v \div B > 0
           /\ v < B => v \div B = 0 /\ v % B = v
           /\ B \in Nat /\ B > 1
  BY DEF Bases

(* To divide twice is to divide by the product.                             *)
LEMMA DivDiv ==
    ASSUME NEW B \in Bases, NEW v \in Nat, NEW P \in Nat, P > 0
    PROVE  (v \div B) \div P = v \div (B * P)
  <1> DEFINE q == v \div B
             r == q \div P
  <1>1. q \in Nat /\ v % B \in 0..(B - 1) /\ v = B * q + (v % B)
    BY DivBase
  <1> HIDE DEF q
  <1>2. r \in Nat /\ P * r <= q /\ q < P * r + P /\ P * r \in Nat
    BY <1>1, DivBounds, Product
  <1> HIDE DEF r
  <1>3. B * P \in Nat /\ B * P > 0
    BY Pos
  <1>4. (B * P) * r = B * (P * r)
    <2>1. B \in Int /\ P \in Int /\ r \in Int
      BY <1>2, DivBase
    <2> QED
      BY <2>1
  <1> DEFINE w == P * r
  <1>5. B * w <= v /\ v < B * w + B * P
    <2>1. w \in Nat /\ w <= q /\ q < w + P
      BY <1>2
    <2> DEFINE e == v % B
    <2>2. e \in 0..(B - 1) /\ v = B * q + e
      BY <1>1
    <2> HIDE DEF w, e
    <2> QED
      BY <1>1, <2>1, <2>2 DEF Bases
  <1> HIDE DEF w
  <1>6. v \div (B * P) = r
    BY <1>2, <1>3, <1>4, <1>5, DivIs DEF w
  <1> QED
    BY <1>6 DEF q, r

(* The powers of B as a table.                                              *)
PowersTo(f, B, n) == /\ f \in [0..n -> Nat \ {0}] /\ f[0] = 1
                     /\ \A i \in 1..n : f[i] = B * f[i - 1]

LEMMA PowerUnrolls ==
    ASSUME NEW B \in Bases, NEW n \in Nat
    PROVE  \E f : PowersTo(f, B, n) /\ Power(B, n) = f[n]
  <1> DEFINE S == Nat \ {0}
             step == [i \in 1..n |-> [x \in S |-> B * x]]
             G(g) == [k \in 0..n |-> IF k = 0 THEN 1 ELSE B * g[k - 1]]
             p == CHOOSE g : g = G(g)
  <1>1. step \in [1..n -> [S -> S]] /\ \A i \in 1..n, x \in S : step[i][x] = B * x
    BY Pos
  <1>2. 1 \in S
    OBVIOUS
  <1> HIDE DEF step, S
  <1>3. PICK f : Unrolls(f, S, 1, step, n)
    BY <1>1, <1>2, Unrolling
  <1>4. PowersTo(f, B, n)
    <2>1. ASSUME NEW i \in 1..n PROVE f[i] = B * f[i - 1]
      <3>1. i - 1 \in 0..n /\ f[i - 1] \in S /\ f[i] = step[i][f[i - 1]]
        BY <1>3 DEF Unrolls
      <3> QED
        BY <1>1, <3>1
    <2> QED
      BY <1>3, <2>1 DEF Unrolls, PowersTo, S
  <1>5. f = G(f)
    <2>1. f = [k \in 0..n |-> f[k]]
      BY <1>4 DEF PowersTo
    <2>2. \A k \in 0..n : f[k] = IF k = 0 THEN 1 ELSE B * f[k - 1]
      BY <1>4 DEF PowersTo
    <2> QED
      BY <2>1, <2>2
  <1>6. p = G(p)
    BY <1>5
  <1>7. Power(B, n) = p[n]
    BY DEF Power
  <1> HIDE DEF p
  <1>8. /\ DOMAIN p = 0..n /\ p = [k \in DOMAIN p |-> p[k]] /\ p[0] = 1
        /\ \A i \in 1..n : p[i] = B * p[i - 1]
    BY <1>6
  <1>9. \A i \in 1..n : p[i - 1] \in S => p[i] = step[i][p[i - 1]]
    BY <1>1, <1>8
  <1>10. Unrolls(p, S, 1, step, n)
    BY <1>1, <1>2, <1>8, <1>9, Unrolled
  <1>11. PowersTo(p, B, n)
    <2>1. ASSUME NEW i \in 1..n PROVE p[i] = B * p[i - 1]
      <3>1. i - 1 \in 0..n /\ p[i - 1] \in S /\ p[i] = step[i][p[i - 1]]
        BY <1>10 DEF Unrolls
      <3> QED
        BY <1>1, <3>1
    <2> QED
      BY <1>10, <2>1 DEF Unrolls, PowersTo, S
  <1> QED
    BY <1>7, <1>11

(* Power is the repeated product.                                           *)
LEMMA PowerNext ==
    ASSUME NEW B \in Bases, NEW n \in Nat
    PROVE  /\ Power(B, n) \in Nat \ {0} /\ Power(B, 0) = 1
           /\ Power(B, n + 1) = B * Power(B, n)
  <1>1. PICK f : PowersTo(f, B, n) /\ Power(B, n) = f[n]
    BY PowerUnrolls
  <1>2. PICK g : PowersTo(g, B, n + 1) /\ Power(B, n + 1) = g[n + 1]
    BY PowerUnrolls
  <1>3. PICK h : PowersTo(h, B, 0) /\ Power(B, 0) = h[0]
    BY PowerUnrolls
  <1> DEFINE S == {i \in Nat : i <= n => f[i] = g[i]}
  <1>4. 0 \in S
    BY <1>1, <1>2 DEF PowersTo
  <1>5. ASSUME NEW i \in Nat, i \in S PROVE i + 1 \in S
    <2> SUFFICES ASSUME i + 1 <= n PROVE f[i + 1] = g[i + 1]
      OBVIOUS
    <2>1. i + 1 \in 1..n /\ i + 1 \in 1..(n + 1) /\ (i + 1) - 1 = i /\ f[i] = g[i]
      BY <1>5
    <2> QED
      BY <1>1, <1>2, <2>1 DEF PowersTo
  <1> HIDE DEF S
  <1>6. Nat \subseteq S
    BY <1>4, <1>5, Induction
  <1>7. f[n] = g[n]
    BY <1>6 DEF S
  <1>8. n \in 0..n /\ n + 1 \in 1..(n + 1) /\ (n + 1) - 1 = n
    OBVIOUS
  <1>9. Power(B, n) \in Nat \ {0}
    BY <1>1, <1>8 DEF PowersTo
  <1>10. Power(B, 0) = 1
    BY <1>3 DEF PowersTo
  <1>11. Power(B, n + 1) = B * Power(B, n)
    BY <1>1, <1>2, <1>7, <1>8 DEF PowersTo
  <1> QED
    BY <1>9, <1>10, <1>11

(* A higher power is greater.                                               *)
LEMMA PowerGrows ==
    ASSUME NEW B \in Bases, NEW m \in Nat, NEW n \in Nat
    PROVE  /\ m < n => Power(B, m) < Power(B, n)
           /\ m <= n => Power(B, m) <= Power(B, n)
  <1> DEFINE S == {k \in Nat : Power(B, m) < Power(B, m + (k + 1))}
  <1>1. 0 \in S
    <2>1. Power(B, m + 1) = B * Power(B, m) /\ Power(B, m) \in Nat \ {0} /\ m + (0 + 1) = m + 1
      BY PowerNext
    <2>2. B * Power(B, m) > Power(B, m)
      BY <2>1, Pos
    <2> QED
      BY <2>1, <2>2
  <1>2. ASSUME NEW k \in Nat, k \in S PROVE k + 1 \in S
    <2> DEFINE j == m + (k + 1)
    <2>1. j \in Nat /\ m + ((k + 1) + 1) = j + 1 /\ Power(B, m) < Power(B, j)
      BY <1>2
    <2> HIDE DEF j
    <2>2. /\ Power(B, j + 1) = B * Power(B, j) /\ Power(B, j) \in Nat \ {0}
          /\ Power(B, m) \in Nat \ {0}
      BY <2>1, PowerNext
    <2>3. B * Power(B, j) > Power(B, j) /\ B * Power(B, j) \in Nat
      BY <2>2, Pos
    <2> QED
      BY <2>1, <2>2, <2>3
  <1> HIDE DEF S
  <1>3. Nat \subseteq S
    BY <1>1, <1>2, Induction
  <1>4. ASSUME m < n PROVE Power(B, m) < Power(B, n)
    <2>1. n - m - 1 \in Nat /\ m + ((n - m - 1) + 1) = n
      BY <1>4
    <2>2. n - m - 1 \in S
      BY <1>3, <2>1
    <2> QED
      BY <2>1, <2>2 DEF S
  <1>5. Power(B, m) \in Nat /\ Power(B, n) \in Nat
    BY PowerNext
  <1>6. CASE m = n
    BY <1>5, <1>6
  <1>7. CASE m # n
    BY <1>4, <1>5, <1>7
  <1> QED
    BY <1>6, <1>7

(* A function on 0..N that divides its argument by a base is defined.       *)
Divides(f, S, B, found, step, N) ==
    /\ f \in [0..N -> S]
    /\ \A v \in 0..N : f[v] = IF v < B THEN found[v] ELSE step[v][f[v \div B]]

(* A search that divides by B until it is in S finds what S gives.          *)
LEMMA Dividing ==
    ASSUME NEW N \in Nat, NEW S, NEW B \in Bases, NEW found \in [0..N -> S],
           NEW step \in [0..N -> [S -> S]]
    PROVE  \E f : Divides(f, S, B, found, step, N)
  <1> DEFINE T == {k \in Nat : k <= N => \E f : Divides(f, S, B, found, step, k)}
  <1>1. 0 \in T
    <2> DEFINE f == [v \in 0..0 |-> found[v]]
    <2>1. f \in [0..0 -> S] /\ \A v \in 0..0 : v < B /\ f[v] = found[v]
      BY DEF Bases
    <2> HIDE DEF f
    <2>2. Divides(f, S, B, found, step, 0)
      BY <2>1 DEF Divides
    <2> QED
      BY <2>2
  <1>2. ASSUME NEW k \in Nat, k \in T PROVE k + 1 \in T
    <2> SUFFICES ASSUME k + 1 <= N PROVE \E f : Divides(f, S, B, found, step, k + 1)
      OBVIOUS
    <2> DEFINE m == k + 1
    <2>1. m \in 1..N /\ k = m - 1
      OBVIOUS
    <2> HIDE DEF m
    <2>2. PICK f : Divides(f, S, B, found, step, k)
      BY <1>2, <2>1
    <2> DEFINE z == IF m < B THEN found[m] ELSE step[m][f[m \div B]]
               g == [v \in 0..m |-> IF v = m THEN z ELSE f[v]]
    <2>3. \A v \in 0..m : v >= B => v \div B \in 0..k /\ (v < m => v \div B \in 0..k)
      BY <2>1, DivBase DEF Bases
    <2>4. z \in S
      <3>1. CASE m < B
        BY <2>1, <3>1
      <3>2. CASE ~(m < B)
        <4>1. m \div B \in 0..k
          BY <2>1, <2>3, <3>2 DEF Bases
        <4>2. f[m \div B] \in S
          BY <2>2, <4>1 DEF Divides
        <4> QED
          BY <2>1, <3>2, <4>2
      <3> QED
        BY <3>1, <3>2
    <2>5. g \in [0..m -> S]
      BY <2>1, <2>2, <2>4 DEF Divides
    <2>6. g[m] = z /\ \A v \in 0..k : g[v] = f[v]
      BY <2>1
    <2> HIDE DEF g
    <2>7. ASSUME NEW v \in 0..m PROVE g[v] = IF v < B THEN found[v] ELSE step[v][g[v \div B]]
      <3>1. ~(v < B) => v \div B \in 0..k
        BY <2>3 DEF Bases
      <3>2. CASE v = m
        BY <2>6, <3>1, <3>2
      <3>3. CASE v # m
        <4>1. v \in 0..k
          BY <2>1, <3>3
        <4> QED
          BY <2>2, <2>6, <3>1, <4>1 DEF Divides
      <3> QED
        BY <3>2, <3>3
    <2>8. Divides(g, S, B, found, step, m)
      BY <2>5, <2>7 DEF Divides
    <2> QED
      BY <2>8 DEF m
  <1> HIDE DEF T
  <1>3. N \in T
    BY <1>1, <1>2, Induction
  <1> QED
    BY <1>3 DEF T

-----------------------------------------------------------------------------
(* The value v has n places in base B.                                      *)
IsPlaces(n, v, B) == /\ n \in Nat \ {0} /\ v < Power(B, n)
                     /\ n > 1 => v >= Power(B, n - 1)

LEMMA PlacesUnique ==
    ASSUME NEW B \in Bases, NEW v \in Nat, NEW n, NEW m, IsPlaces(n, v, B), IsPlaces(m, v, B)
    PROVE  n = m
  <1>1. ASSUME NEW a, NEW b, IsPlaces(a, v, B), IsPlaces(b, v, B), a < b PROVE FALSE
    <2>1. /\ a \in Nat /\ b - 1 \in Nat /\ b > 1 /\ a <= b - 1 /\ v < Power(B, a)
          /\ v >= Power(B, b - 1)
      BY <1>1 DEF IsPlaces
    <2>2. Power(B, a) <= Power(B, b - 1) /\ Power(B, a) \in Nat /\ Power(B, b - 1) \in Nat
      BY <2>1, PowerGrows, PowerNext
    <2> QED
      BY <2>1, <2>2
  <1>2. n \in Nat /\ m \in Nat
    BY DEF IsPlaces
  <1> QED
    BY <1>1, <1>2

LEMMA PlacesShort ==
    ASSUME NEW B \in Bases, NEW v \in Nat, v < B
    PROVE  IsPlaces(1, v, B)
  <1>1. Power(B, 0) = 1 /\ Power(B, 0 + 1) = B * Power(B, 0)
    BY PowerNext
  <1>2. Power(B, 1) = B
    BY <1>1 DEF Bases
  <1> QED
    BY <1>2 DEF IsPlaces

(* A value has one place more than its quotient.                            *)
LEMMA PlacesNext ==
    ASSUME NEW B \in Bases, NEW v \in Nat, v >= B, NEW m, IsPlaces(m, v \div B, B)
    PROVE  IsPlaces(m + 1, v, B)
  <1> DEFINE w == v \div B
             e == v % B
  <1>1. w \in Nat /\ e \in 0..(B - 1) /\ v = B * w + e /\ w > 0
    BY DivBase DEF Bases
  <1>2. m \in Nat \ {0} /\ w < Power(B, m) /\ (m > 1 => w >= Power(B, m - 1))
    BY DEF IsPlaces
  <1> HIDE DEF w, e
  <1>3. Power(B, m + 1) = B * Power(B, m) /\ Power(B, m) \in Nat
    BY <1>2, PowerNext
  <1>4. v < Power(B, m + 1)
    BY <1>1, <1>2, <1>3 DEF Bases
  <1>5. v >= Power(B, m)
    <2>1. m - 1 \in Nat /\ (m - 1) + 1 = m
      BY <1>2
    <2>2. Power(B, m) = B * Power(B, m - 1) /\ Power(B, m - 1) \in Nat /\ Power(B, 0) = 1
      BY <2>1, PowerNext
    <2>3. w >= Power(B, m - 1)
      BY <1>1, <1>2, <2>1, <2>2
    <2> QED
      BY <1>1, <2>2, <2>3 DEF Bases
  <1> QED
    BY <1>2, <1>4, <1>5 DEF IsPlaces

(* What the widest type holds is less than this.                            *)
Limit == Power(2, 2 * Bits)

LEMMA TwoIsLeast ==
    ASSUME NEW B \in Bases
    PROVE  \A n \in Nat : Power(2, n) <= Power(B, n)
  <1> DEFINE S == {n \in Nat : Power(2, n) <= Power(B, n)}
  <1>0. 2 \in Bases
    BY DEF Bases
  <1>1. 0 \in S
    BY <1>0, PowerNext
  <1>2. ASSUME NEW n \in Nat, n \in S PROVE n + 1 \in S
    <2>1. /\ Power(2, n) \in Nat /\ Power(2, n + 1) = 2 * Power(2, n)
          /\ Power(B, n) \in Nat /\ Power(B, n + 1) = B * Power(B, n)
      BY <1>0, PowerNext
    <2> QED
      BY <1>2, <2>1 DEF Bases
  <1> HIDE DEF S
  <1>3. Nat \subseteq S
    BY <1>1, <1>2, Induction
  <1> QED
    BY <1>3 DEF S

(* The digits of a value that fits in 2 * Bits bits are counted.            *)
LEMMA PlacesAre ==
    ASSUME NEW B \in Bases, NEW v \in Nat, v < Limit
    PROVE  IsPlaces(Places(v, B), v, B) /\ Places(v, B) \in 1..(2 * Bits)
  <1> DEFINE T == {n \in Nat : n > 0 /\ v < Power(B, n)}
             N == 2 * Bits
  <1>0. N \in Nat /\ N > 0 /\ 2 \in Bases
    BY BitsAssumption DEF Bases
  <1>1. N \in T
    <2>1. /\ Power(2, N) <= Power(B, N) /\ Power(2, N) \in Nat /\ Power(B, N) \in Nat
          /\ v < Power(2, N)
      BY <1>0, TwoIsLeast, PowerNext DEF Limit
    <2> QED
      BY <1>0, <2>1
  <1>2. PICK n \in T : \A y \in T : n <= y
    BY <1>1, Least
  <1>3. n \in 1..N /\ n \in Nat /\ n > 0
    BY <1>0, <1>1, <1>2
  <1>4. ASSUME n > 1 PROVE v >= Power(B, n - 1)
    <2>1. n - 1 \in Nat /\ n - 1 > 0 /\ ~(n <= n - 1)
      BY <1>3, <1>4
    <2>2. n - 1 \notin T
      BY <1>2, <2>1
    <2>3. Power(B, n - 1) \in Nat
      BY <2>1, PowerNext
    <2> QED
      BY <2>1, <2>2, <2>3
  <1>5. v < Power(B, n)
    BY <1>2
  <1> HIDE DEF T, N
  <1>6. Places(v, B) \in 1..N /\ v < Power(B, Places(v, B))
        /\ (Places(v, B) > 1 => v >= Power(B, Places(v, B) - 1))
    BY <1>3, <1>4, <1>5 DEF Places, N
  <1> QED
    BY <1>0, <1>6 DEF IsPlaces, N

-----------------------------------------------------------------------------
(* The digits themselves.                                                   *)
LEMMA DigitType ==
    ASSUME NEW d \in 0..15, NEW upper \in BOOLEAN
    PROVE  Digit(d, upper) \in Cells
  <1>1. d + 1 \in 1..22 /\ (d >= 10 => d + 7 \in 1..22)
    OBVIOUS
  <1>2. \A i \in 1..22 : DIGITS[i] \in Cells
    BY DEF Cells
  <1> QED
    BY <1>1, <1>2 DEF Digit

LEMMA Halved == ASSUME NEW B \in Bases, NEW v \in Nat, v >= B PROVE v \div B \in 0..(v - 1)
  BY DivBase DEF Bases

(* What a loop that divides the value makes of each value it comes to: it   *)
(* is so of all if it is of the small ones and goes over to the others.     *)
LEMMA DownToDigits ==
    ASSUME NEW N \in Nat, NEW B \in Bases, NEW Good \in SUBSET (0..N),
           \A v \in 0..N : v < B => v \in Good,
           \A v \in 0..N : v >= B /\ v \div B \in Good => v \in Good
    PROVE  \A v \in 0..N : v \in Good
  <1> DEFINE Bad == {v \in 0..N : v \notin Good}
  <1> SUFFICES ASSUME Bad # {} PROVE FALSE
    OBVIOUS
  <1>1. PICK v \in Bad : \A y \in Bad : v <= y
    <2>1. Bad \in SUBSET Nat
      OBVIOUS
    <2> HIDE DEF Bad
    <2> QED
      BY <2>1, Least
  <1>2. v \in 0..N /\ v >= B
    BY DEF Bases
  <1>3. v \div B \in 0..(v - 1)
    BY <1>2, Halved
  <1>4. v \div B \notin Bad /\ v \div B \in 0..N
    BY <1>1, <1>2, <1>3
  <1> QED
    BY <1>2, <1>4

(* The loop of the hexadecimal, octal and binary digits counts them.        *)
LEMMA Counted ==
    ASSUME NEW B \in Bases, NEW n \in Nat
    PROVE  IsPlaces(CountDigits(n, B), n, B)
  <1> DEFINE found == [v \in 0..n |-> 1]
             step == [v \in 0..n |-> [x \in Nat |-> x + 1]]
             G(g) == [v \in 0..n |-> IF v \div B = 0 THEN 1 ELSE g[v \div B] + 1]
             c == CHOOSE g : g = G(g)
  <1>1. found \in [0..n -> Nat] /\ step \in [0..n -> [Nat -> Nat]]
    OBVIOUS
  <1>2. \A v \in 0..n : found[v] = 1 /\ \A x \in Nat : step[v][x] = x + 1
    OBVIOUS
  <1> HIDE DEF found, step
  <1>3. PICK f : Divides(f, Nat, B, found, step, n)
    BY <1>1, Dividing
  <1>4. \A v \in 0..n : (v \div B = 0 <=> v < B) /\ (v >= B => v \div B \in 0..n)
    BY DivBase, Halved DEF Bases
  <1>5. f = G(f)
    <2>1. f = [v \in 0..n |-> f[v]]
      BY <1>3 DEF Divides
    <2>2. ASSUME NEW v \in 0..n
          PROVE  f[v] = IF v \div B = 0 THEN 1 ELSE f[v \div B] + 1
      <3>1. CASE v < B
        BY <1>2, <1>3, <1>4, <3>1 DEF Divides
      <3>2. CASE ~(v < B)
        <4>1. v \div B \in 0..n
          BY <1>4, <3>2 DEF Bases
        <4>2. f[v] = step[v][f[v \div B]] /\ f[v \div B] \in Nat
          BY <1>3, <3>2, <4>1 DEF Divides
        <4> QED
          BY <1>2, <1>4, <3>2, <4>2
      <3> QED
        BY <3>1, <3>2
    <2> QED
      BY <2>1, <2>2
  <1>6. c = G(c)
    BY <1>5
  <1>7. CountDigits(n, B) = c[n]
    BY DEF CountDigits
  <1> HIDE DEF c
  <1>8. \A v \in 0..n : c[v] = IF v \div B = 0 THEN 1 ELSE c[v \div B] + 1
    BY <1>6
  <1> DEFINE Good == {v \in 0..n : IsPlaces(c[v], v, B)}
  <1>9. ASSUME NEW v \in 0..n, v < B PROVE v \in Good
    BY <1>4, <1>8, <1>9, PlacesShort
  <1>10. ASSUME NEW v \in 0..n, v >= B, v \div B \in Good PROVE v \in Good
    <2>1. c[v] = c[v \div B] + 1
      BY <1>4, <1>8, <1>10 DEF Bases
    <2> QED
      BY <1>10, <2>1, PlacesNext
  <1>11. Good \in SUBSET (0..n)
    OBVIOUS
  <1> HIDE DEF Good
  <1>12. n \in Good
    BY <1>9, <1>10, <1>11, DownToDigits
  <1> QED
    BY <1>7, <1>12 DEF Good

(* The last n places of v, each from its own quotient.                      *)
ByPlaces(n, v, B, upper) == [i \in 1..n |-> Digit((v \div Power(B, n - i)) % B, upper)]

LEMMA PlaceType ==
    ASSUME NEW B \in Bases, NEW v \in Nat, NEW k \in Nat, NEW upper \in BOOLEAN
    PROVE  /\ (v \div Power(B, k)) % B \in 0..(B - 1) /\ v \div Power(B, k) \in Nat
           /\ Digit((v \div Power(B, k)) % B, upper) \in Cells
  <1>1. Power(B, k) \in Nat /\ Power(B, k) > 0
    BY PowerNext
  <1>2. v \div Power(B, k) \in Nat
    BY <1>1, DivBounds
  <1>3. (v \div Power(B, k)) % B \in 0..(B - 1)
    BY <1>2, DivBase
  <1>4. (v \div Power(B, k)) % B \in 0..15
    BY <1>3 DEF Bases
  <1> QED
    BY <1>2, <1>3, <1>4, DigitType

LEMMA ByPlacesType ==
    ASSUME NEW B \in Bases, NEW v \in Nat, NEW n \in Nat, NEW upper \in BOOLEAN
    PROVE  ByPlaces(n, v, B, upper) \in Seq(Cells) /\ Len(ByPlaces(n, v, B, upper)) = n
  <1> DEFINE d == [i \in 1..n |-> Digit((v \div Power(B, n - i)) % B, upper)]
  <1>1. \A i \in 1..n : Digit((v \div Power(B, n - i)) % B, upper) \in Cells
    BY PlaceType
  <1>2. d \in [1..n -> Cells]
    BY <1>1
  <1> HIDE DEF d
  <1>3. d \in Seq(Cells) /\ Len(d) = n
    BY <1>2
  <1> QED
    BY <1>3 DEF d, ByPlaces

(* Shifting the value out gives the digits of its places.                   *)
LEMMA ByPlacesNext ==
    ASSUME NEW B \in Bases, NEW v \in Nat, NEW m \in Nat, NEW upper \in BOOLEAN
    PROVE  ByPlaces(m + 1, v, B, upper)
             = ByPlaces(m, v \div B, B, upper) \o <<Digit(v % B, upper)>>
  <1> DEFINE w == v \div B
             a == ByPlaces(m, w, B, upper)
             e == Digit(v % B, upper)
             d == ByPlaces(m + 1, v, B, upper)
  <1>1. w \in Nat /\ v % B \in 0..15
    BY DivBase DEF Bases
  <1>2. a \in Seq(Cells) /\ Len(a) = m /\ d \in Seq(Cells) /\ Len(d) = m + 1
    <2>1. a \in Seq(Cells) /\ Len(a) = m
      BY <1>1, ByPlacesType
    <2>2. m + 1 \in Nat
      OBVIOUS
    <2>3. d \in Seq(Cells) /\ Len(d) = m + 1
      BY <2>2, ByPlacesType
    <2> QED
      BY <2>1, <2>3
  <1>3. e \in Cells
    BY <1>1, DigitType
  <1>4. <<e>> \in Seq(Cells) /\ Len(<<e>>) = 1 /\ <<e>>[1] = e
    BY <1>3
  <1>5. ASSUME NEW i \in 1..m PROVE d[i] = a[i]
    <2>1. m - i \in Nat /\ (m - i) + 1 = (m + 1) - i
      OBVIOUS
    <2>2. /\ Power(B, m - i) \in Nat /\ Power(B, m - i) > 0
          /\ Power(B, (m + 1) - i) = B * Power(B, m - i)
      BY <2>1, PowerNext
    <2>3. w \div Power(B, m - i) = v \div Power(B, (m + 1) - i)
      BY <2>2, DivDiv
    <2> QED
      BY <2>3 DEF ByPlaces
  <1>6. d[m + 1] = e
    <2>1. Power(B, (m + 1) - (m + 1)) = 1
      BY PowerNext
    <2>2. v \div 1 = v
      OBVIOUS
    <2> QED
      BY <2>1, <2>2 DEF ByPlaces
  <1> HIDE DEF a, d, e
  <1>7. /\ a \o <<e>> \in Seq(Cells) /\ Len(a \o <<e>>) = m + 1
        /\ \A i \in 1..m : (a \o <<e>>)[i] = a[i]
        /\ (a \o <<e>>)[m + 1] = e
    <2> DEFINE o == <<e>>
               u == a \o o
    <2>1. o \in Seq(Cells) /\ a \in Seq(Cells) /\ Len(o) = 1 /\ o[1] = e /\ Len(a) = m
      BY <1>2, <1>4
    <2> HIDE DEF o
    <2>2. /\ u \in Seq(Cells) /\ Len(u) = Len(a) + Len(o)
          /\ \A i \in 1..Len(a) : u[i] = a[i]
          /\ \A i \in 1..Len(o) : u[Len(a) + i] = o[i]
      <3>1. a \in Seq(Cells)
        BY <2>1
      <3>2. o \in Seq(Cells)
        BY <2>1
      <3> HIDE DEF u
      <3>3. u = a \o o
        BY DEF u
      <3>4. /\ a \o o \in Seq(Cells) /\ Len(a \o o) = Len(a) + Len(o)
            /\ \A i \in 1..Len(a) : (a \o o)[i] = a[i]
            /\ \A i \in 1..Len(o) : (a \o o)[Len(a) + i] = o[i]
        BY <3>1, <3>2, Joined
      <3> QED
        BY <3>3, <3>4, Zenon
    <2> HIDE DEF u
    <2>3. u[m + 1] = e
      <3>1. 1 \in 1..Len(o)
        BY <2>1
      <3> QED
        BY <2>1, <2>2, <3>1
    <2>4. Len(u) = m + 1
      BY <2>1, <2>2
    <2> QED
      BY <2>1, <2>2, <2>3, <2>4 DEF u, o
  <1>8. \A i \in 1..(m + 1) : d[i] = (a \o <<e>>)[i]
    <2> SUFFICES ASSUME NEW i \in 1..(m + 1) PROVE d[i] = (a \o <<e>>)[i]
      OBVIOUS
    <2>1. i \in 1..m \/ i = m + 1
      OBVIOUS
    <2> QED
      BY <1>5, <1>6, <1>7, <2>1
  <1>9. d = a \o <<e>>
    BY <1>2, <1>7, <1>8, SeqEqual
  <1> QED
    BY <1>9 DEF a, d, e

-----------------------------------------------------------------------------
(* The powers that the logarithm is taken of, as numbers.                   *)
LEMMA Twos ==
    /\ Power(2, 1) = 2 /\ Power(2, 2) = 4 /\ Power(2, 3) = 8 /\ Power(2, 4) = 16
    /\ Power(2, 5) = 32 /\ Power(2, 6) = 64 /\ Power(2, 7) = 128 /\ Power(2, 8) = 256
    /\ Power(2, 9) = 512 /\ Power(2, 10) = 1024 /\ Power(2, 11) = 2048 /\ Power(2, 12) = 4096
    /\ Power(2, 13) = 8192 /\ Power(2, 14) = 16384 /\ Power(2, 15) = 32768
    /\ Power(2, 16) = 65536
    /\ Power(2, 17) = 131072 /\ Power(2, 18) = 262144 /\ Power(2, 19) = 524288
    /\ Power(2, 20) = 1048576
    /\ Power(2, 21) = 2097152 /\ Power(2, 22) = 4194304 /\ Power(2, 23) = 8388608
    /\ Power(2, 24) = 16777216
    /\ Power(2, 25) = 33554432 /\ Power(2, 26) = 67108864 /\ Power(2, 27) = 134217728
    /\ Power(2, 28) = 268435456
    /\ Power(2, 29) = 536870912 /\ Power(2, 30) = 1073741824 /\ Power(2, 31) = 2147483648
    /\ Power(2, 32) = 4294967296
    /\ Power(2, 33) = 8589934592 /\ Power(2, 34) = 17179869184 /\ Power(2, 35) = 34359738368
    /\ Power(2, 36) = 68719476736
    /\ Power(2, 37) = 137438953472 /\ Power(2, 38) = 274877906944 /\ Power(2, 39) = 549755813888
    /\ Power(2, 40) = 1099511627776
    /\ Power(2, 41) = 2199023255552 /\ Power(2, 42) = 4398046511104
    /\ Power(2, 43) = 8796093022208 /\ Power(2, 44) = 17592186044416
    /\ Power(2, 45) = 35184372088832 /\ Power(2, 46) = 70368744177664
    /\ Power(2, 47) = 140737488355328 /\ Power(2, 48) = 281474976710656
    /\ Power(2, 49) = 562949953421312 /\ Power(2, 50) = 1125899906842624
    /\ Power(2, 51) = 2251799813685248 /\ Power(2, 52) = 4503599627370496
    /\ Power(2, 53) = 9007199254740992 /\ Power(2, 54) = 18014398509481984
    /\ Power(2, 55) = 36028797018963968 /\ Power(2, 56) = 72057594037927936
    /\ Power(2, 57) = 144115188075855872 /\ Power(2, 58) = 288230376151711744
    /\ Power(2, 59) = 576460752303423488 /\ Power(2, 60) = 1152921504606846976
    /\ Power(2, 61) = 2305843009213693952
  <1>1. 2 \in Bases /\ Power(2, 0) = 1 /\ 0 \in Nat
    BY PowerNext DEF Bases
  <1>2. \A n \in Nat : Power(2, n + 1) = 2 * Power(2, n)
    BY <1>1, PowerNext
  <1>3. Power(2, 1) = 2 /\ Power(2, 2) = 4 /\ Power(2, 3) = 8 /\ Power(2, 4) = 16
    BY <1>2, <1>1
  <1>4. Power(2, 5) = 32 /\ Power(2, 6) = 64 /\ Power(2, 7) = 128 /\ Power(2, 8) = 256
    BY <1>2, <1>3
  <1>5. Power(2, 9) = 512 /\ Power(2, 10) = 1024 /\ Power(2, 11) = 2048 /\ Power(2, 12) = 4096
    BY <1>2, <1>4
  <1>6. /\ Power(2, 13) = 8192 /\ Power(2, 14) = 16384 /\ Power(2, 15) = 32768
        /\ Power(2, 16) = 65536
    BY <1>2, <1>5
  <1>7. /\ Power(2, 17) = 131072 /\ Power(2, 18) = 262144 /\ Power(2, 19) = 524288
        /\ Power(2, 20) = 1048576
    BY <1>2, <1>6
  <1>8. /\ Power(2, 21) = 2097152 /\ Power(2, 22) = 4194304 /\ Power(2, 23) = 8388608
        /\ Power(2, 24) = 16777216
    BY <1>2, <1>7
  <1>9. /\ Power(2, 25) = 33554432 /\ Power(2, 26) = 67108864 /\ Power(2, 27) = 134217728
        /\ Power(2, 28) = 268435456
    BY <1>2, <1>8
  <1>10. /\ Power(2, 29) = 536870912 /\ Power(2, 30) = 1073741824 /\ Power(2, 31) = 2147483648
         /\ Power(2, 32) = 4294967296
    BY <1>2, <1>9
  <1>11. /\ Power(2, 33) = 8589934592 /\ Power(2, 34) = 17179869184 /\ Power(2, 35) = 34359738368
         /\ Power(2, 36) = 68719476736
    BY <1>2, <1>10
  <1>12. /\ Power(2, 37) = 137438953472 /\ Power(2, 38) = 274877906944
         /\ Power(2, 39) = 549755813888 /\ Power(2, 40) = 1099511627776
    BY <1>2, <1>11
  <1>13. /\ Power(2, 41) = 2199023255552 /\ Power(2, 42) = 4398046511104
         /\ Power(2, 43) = 8796093022208 /\ Power(2, 44) = 17592186044416
    BY <1>2, <1>12
  <1>14. /\ Power(2, 45) = 35184372088832 /\ Power(2, 46) = 70368744177664
         /\ Power(2, 47) = 140737488355328 /\ Power(2, 48) = 281474976710656
    BY <1>2, <1>13
  <1>15. /\ Power(2, 49) = 562949953421312 /\ Power(2, 50) = 1125899906842624
         /\ Power(2, 51) = 2251799813685248 /\ Power(2, 52) = 4503599627370496
    BY <1>2, <1>14
  <1>16. /\ Power(2, 53) = 9007199254740992 /\ Power(2, 54) = 18014398509481984
         /\ Power(2, 55) = 36028797018963968 /\ Power(2, 56) = 72057594037927936
    BY <1>2, <1>15
  <1>17. /\ Power(2, 57) = 144115188075855872 /\ Power(2, 58) = 288230376151711744
         /\ Power(2, 59) = 576460752303423488 /\ Power(2, 60) = 1152921504606846976
    BY <1>2, <1>16
  <1>18. Power(2, 61) = 2305843009213693952
    BY <1>2, <1>17
  <1> QED
    BY <1>3, <1>4, <1>5, <1>6, <1>7, <1>8, <1>9, <1>10, <1>11, <1>12, <1>13, <1>14, <1>15,
       <1>16, <1>17, <1>18

LEMMA Tens ==
    /\ Power(10, 1) = 10 /\ Power(10, 2) = 100 /\ Power(10, 3) = 1000
    /\ Power(10, 4) = 10000 /\ Power(10, 5) = 100000 /\ Power(10, 6) = 1000000
    /\ Power(10, 7) = 10000000 /\ Power(10, 8) = 100000000 /\ Power(10, 9) = 1000000000
    /\ Power(10, 10) = 10000000000 /\ Power(10, 11) = 100000000000
    /\ Power(10, 12) = 1000000000000
    /\ Power(10, 13) = 10000000000000 /\ Power(10, 14) = 100000000000000
    /\ Power(10, 15) = 1000000000000000
    /\ Power(10, 16) = 10000000000000000 /\ Power(10, 17) = 100000000000000000
    /\ Power(10, 18) = 1000000000000000000
  <1>1. 10 \in Bases /\ Power(10, 0) = 1 /\ 0 \in Nat
    BY PowerNext DEF Bases
  <1>2. \A n \in Nat : Power(10, n + 1) = 10 * Power(10, n)
    BY <1>1, PowerNext
  <1>3. Power(10, 1) = 10 /\ Power(10, 2) = 100 /\ Power(10, 3) = 1000
    BY <1>2, <1>1
  <1>4. Power(10, 4) = 10000 /\ Power(10, 5) = 100000 /\ Power(10, 6) = 1000000
    BY <1>2, <1>3
  <1>5. Power(10, 7) = 10000000 /\ Power(10, 8) = 100000000 /\ Power(10, 9) = 1000000000
    BY <1>2, <1>4
  <1>6. /\ Power(10, 10) = 10000000000 /\ Power(10, 11) = 100000000000
        /\ Power(10, 12) = 1000000000000
    BY <1>2, <1>5
  <1>7. /\ Power(10, 13) = 10000000000000 /\ Power(10, 14) = 100000000000000
        /\ Power(10, 15) = 1000000000000000
    BY <1>2, <1>6
  <1>8. /\ Power(10, 16) = 10000000000000000 /\ Power(10, 17) = 100000000000000000
        /\ Power(10, 18) = 1000000000000000000
    BY <1>2, <1>7
  <1> QED
    BY <1>3, <1>4, <1>5, <1>6, <1>7, <1>8

(* 1233 / 4096 is near enough to the logarithm for numbers of 64 bits.      *)
Near(b, t) == /\ Power(2, b) <= Power(10, t + 1)
              /\ t > 0 => Power(10, t - 1) <= Power(2, b - 1)

(* What count_digits multiplies and shifts is near the logarithm: the       *)
(* estimate of the places is right or one too low.                          *)
LEMMA Logarithm ==
    ASSUME NEW b \in 1..64
    PROVE  (b * 1233) \div 4096 \in 0..19 /\ Near(b, (b * 1233) \div 4096)
  <1>1. /\ Power(2, 62) = 2 * Power(2, 61) /\ Power(2, 63) = 4 * Power(2, 61)
        /\ Power(2, 64) = 8 * Power(2, 61)
        /\ Power(10, 19) = 10 * Power(10, 18) /\ Power(10, 20) = 100 * Power(10, 18)
        /\ Power(2, 0) = 1 /\ Power(10, 0) = 1
    <2>1. 2 \in Bases /\ 10 \in Bases /\ 0 \in Nat
      BY DEF Bases
    <2>2. \A n \in Nat : Power(2, n) \in Nat /\ Power(2, n + 1) = 2 * Power(2, n)
      BY <2>1, PowerNext
    <2>3. \A n \in Nat : Power(10, n) \in Nat /\ Power(10, n + 1) = 10 * Power(10, n)
      BY <2>1, PowerNext
    <2>4. /\ Power(2, 62) = 2 * Power(2, 61) /\ Power(2, 63) = 4 * Power(2, 61)
          /\ Power(2, 64) = 8 * Power(2, 61)
      BY <2>2
    <2>5. Power(10, 19) = 10 * Power(10, 18) /\ Power(10, 20) = 100 * Power(10, 18)
      BY <2>3
    <2> QED
      BY <2>1, <2>4, <2>5, PowerNext
  <1>2. ASSUME b \in 1..3 PROVE (b * 1233) \div 4096 = 0 /\ Near(b, 0)
    <2>1. (b * 1233) \div 4096 = 0
      BY <1>2
    <2>2. (b = 1 /\ b - 1 = 0) \/ (b = 2 /\ b - 1 = 1) \/ (b = 3 /\ b - 1 = 2)
      BY <1>2
    <2>3. Near(1, 0) /\ Near(2, 0) /\ Near(3, 0)
      BY <1>1, Twos, Tens DEF Near
    <2> QED
      BY <2>1, <2>2, <2>3 DEF Near
  <1>3. ASSUME b \in 4..6 PROVE (b * 1233) \div 4096 = 1 /\ Near(b, 1)
    <2>1. (b * 1233) \div 4096 = 1
      BY <1>3
    <2>2. (b = 4 /\ b - 1 = 3) \/ (b = 5 /\ b - 1 = 4) \/ (b = 6 /\ b - 1 = 5)
      BY <1>3
    <2>3. Near(4, 1) /\ Near(5, 1) /\ Near(6, 1)
      BY <1>1, Twos, Tens DEF Near
    <2> QED
      BY <2>1, <2>2, <2>3 DEF Near
  <1>4. ASSUME b \in 7..9 PROVE (b * 1233) \div 4096 = 2 /\ Near(b, 2)
    <2>1. (b * 1233) \div 4096 = 2
      BY <1>4
    <2>2. (b = 7 /\ b - 1 = 6) \/ (b = 8 /\ b - 1 = 7) \/ (b = 9 /\ b - 1 = 8)
      BY <1>4
    <2>3. Near(7, 2) /\ Near(8, 2) /\ Near(9, 2)
      BY <1>1, Twos, Tens DEF Near
    <2> QED
      BY <2>1, <2>2, <2>3 DEF Near
  <1>5. ASSUME b \in 10..13 PROVE (b * 1233) \div 4096 = 3 /\ Near(b, 3)
    <2>1. (b * 1233) \div 4096 = 3
      BY <1>5
    <2>2. \/ (b = 10 /\ b - 1 = 9) \/ (b = 11 /\ b - 1 = 10)
          \/ (b = 12 /\ b - 1 = 11) \/ (b = 13 /\ b - 1 = 12)
      BY <1>5
    <2>3. Near(10, 3) /\ Near(11, 3) /\ Near(12, 3) /\ Near(13, 3)
      BY <1>1, Twos, Tens DEF Near
    <2> QED
      BY <2>1, <2>2, <2>3 DEF Near
  <1>6. ASSUME b \in 14..16 PROVE (b * 1233) \div 4096 = 4 /\ Near(b, 4)
    <2>1. (b * 1233) \div 4096 = 4
      BY <1>6
    <2>2. (b = 14 /\ b - 1 = 13) \/ (b = 15 /\ b - 1 = 14) \/ (b = 16 /\ b - 1 = 15)
      BY <1>6
    <2>3. Near(14, 4) /\ Near(15, 4) /\ Near(16, 4)
      BY <1>1, Twos, Tens DEF Near
    <2> QED
      BY <2>1, <2>2, <2>3 DEF Near
  <1>7. ASSUME b \in 17..19 PROVE (b * 1233) \div 4096 = 5 /\ Near(b, 5)
    <2>1. (b * 1233) \div 4096 = 5
      BY <1>7
    <2>2. (b = 17 /\ b - 1 = 16) \/ (b = 18 /\ b - 1 = 17) \/ (b = 19 /\ b - 1 = 18)
      BY <1>7
    <2>3. Near(17, 5) /\ Near(18, 5) /\ Near(19, 5)
      BY <1>1, Twos, Tens DEF Near
    <2> QED
      BY <2>1, <2>2, <2>3 DEF Near
  <1>8. ASSUME b \in 20..23 PROVE (b * 1233) \div 4096 = 6 /\ Near(b, 6)
    <2>1. (b * 1233) \div 4096 = 6
      BY <1>8
    <2>2. \/ (b = 20 /\ b - 1 = 19) \/ (b = 21 /\ b - 1 = 20)
          \/ (b = 22 /\ b - 1 = 21) \/ (b = 23 /\ b - 1 = 22)
      BY <1>8
    <2>3. Near(20, 6) /\ Near(21, 6) /\ Near(22, 6) /\ Near(23, 6)
      BY <1>1, Twos, Tens DEF Near
    <2> QED
      BY <2>1, <2>2, <2>3 DEF Near
  <1>9. ASSUME b \in 24..26 PROVE (b * 1233) \div 4096 = 7 /\ Near(b, 7)
    <2>1. (b * 1233) \div 4096 = 7
      BY <1>9
    <2>2. (b = 24 /\ b - 1 = 23) \/ (b = 25 /\ b - 1 = 24) \/ (b = 26 /\ b - 1 = 25)
      BY <1>9
    <2>3. Near(24, 7) /\ Near(25, 7) /\ Near(26, 7)
      BY <1>1, Twos, Tens DEF Near
    <2> QED
      BY <2>1, <2>2, <2>3 DEF Near
  <1>10. ASSUME b \in 27..29 PROVE (b * 1233) \div 4096 = 8 /\ Near(b, 8)
    <2>1. (b * 1233) \div 4096 = 8
      BY <1>10
    <2>2. (b = 27 /\ b - 1 = 26) \/ (b = 28 /\ b - 1 = 27) \/ (b = 29 /\ b - 1 = 28)
      BY <1>10
    <2>3. Near(27, 8) /\ Near(28, 8) /\ Near(29, 8)
      BY <1>1, Twos, Tens DEF Near
    <2> QED
      BY <2>1, <2>2, <2>3 DEF Near
  <1>11. ASSUME b \in 30..33 PROVE (b * 1233) \div 4096 = 9 /\ Near(b, 9)
    <2>1. (b * 1233) \div 4096 = 9
      BY <1>11
    <2>2. \/ (b = 30 /\ b - 1 = 29) \/ (b = 31 /\ b - 1 = 30)
          \/ (b = 32 /\ b - 1 = 31) \/ (b = 33 /\ b - 1 = 32)
      BY <1>11
    <2>3. Near(30, 9) /\ Near(31, 9) /\ Near(32, 9) /\ Near(33, 9)
      BY <1>1, Twos, Tens DEF Near
    <2> QED
      BY <2>1, <2>2, <2>3 DEF Near
  <1>12. ASSUME b \in 34..36 PROVE (b * 1233) \div 4096 = 10 /\ Near(b, 10)
    <2>1. (b * 1233) \div 4096 = 10
      BY <1>12
    <2>2. (b = 34 /\ b - 1 = 33) \/ (b = 35 /\ b - 1 = 34) \/ (b = 36 /\ b - 1 = 35)
      BY <1>12
    <2>3. Near(34, 10) /\ Near(35, 10) /\ Near(36, 10)
      BY <1>1, Twos, Tens DEF Near
    <2> QED
      BY <2>1, <2>2, <2>3 DEF Near
  <1>13. ASSUME b \in 37..39 PROVE (b * 1233) \div 4096 = 11 /\ Near(b, 11)
    <2>1. (b * 1233) \div 4096 = 11
      BY <1>13
    <2>2. (b = 37 /\ b - 1 = 36) \/ (b = 38 /\ b - 1 = 37) \/ (b = 39 /\ b - 1 = 38)
      BY <1>13
    <2>3. Near(37, 11) /\ Near(38, 11) /\ Near(39, 11)
      BY <1>1, Twos, Tens DEF Near
    <2> QED
      BY <2>1, <2>2, <2>3 DEF Near
  <1>14. ASSUME b \in 40..43 PROVE (b * 1233) \div 4096 = 12 /\ Near(b, 12)
    <2>1. (b * 1233) \div 4096 = 12
      BY <1>14
    <2>2. \/ (b = 40 /\ b - 1 = 39) \/ (b = 41 /\ b - 1 = 40)
          \/ (b = 42 /\ b - 1 = 41) \/ (b = 43 /\ b - 1 = 42)
      BY <1>14
    <2>3. Near(40, 12) /\ Near(41, 12) /\ Near(42, 12) /\ Near(43, 12)
      BY <1>1, Twos, Tens DEF Near
    <2> QED
      BY <2>1, <2>2, <2>3 DEF Near
  <1>15. ASSUME b \in 44..46 PROVE (b * 1233) \div 4096 = 13 /\ Near(b, 13)
    <2>1. (b * 1233) \div 4096 = 13
      BY <1>15
    <2>2. (b = 44 /\ b - 1 = 43) \/ (b = 45 /\ b - 1 = 44) \/ (b = 46 /\ b - 1 = 45)
      BY <1>15
    <2>3. Near(44, 13) /\ Near(45, 13) /\ Near(46, 13)
      BY <1>1, Twos, Tens DEF Near
    <2> QED
      BY <2>1, <2>2, <2>3 DEF Near
  <1>16. ASSUME b \in 47..49 PROVE (b * 1233) \div 4096 = 14 /\ Near(b, 14)
    <2>1. (b * 1233) \div 4096 = 14
      BY <1>16
    <2>2. (b = 47 /\ b - 1 = 46) \/ (b = 48 /\ b - 1 = 47) \/ (b = 49 /\ b - 1 = 48)
      BY <1>16
    <2>3. Near(47, 14) /\ Near(48, 14) /\ Near(49, 14)
      BY <1>1, Twos, Tens DEF Near
    <2> QED
      BY <2>1, <2>2, <2>3 DEF Near
  <1>17. ASSUME b \in 50..53 PROVE (b * 1233) \div 4096 = 15 /\ Near(b, 15)
    <2>1. (b * 1233) \div 4096 = 15
      BY <1>17
    <2>2. \/ (b = 50 /\ b - 1 = 49) \/ (b = 51 /\ b - 1 = 50)
          \/ (b = 52 /\ b - 1 = 51) \/ (b = 53 /\ b - 1 = 52)
      BY <1>17
    <2>3. Near(50, 15) /\ Near(51, 15) /\ Near(52, 15) /\ Near(53, 15)
      BY <1>1, Twos, Tens DEF Near
    <2> QED
      BY <2>1, <2>2, <2>3 DEF Near
  <1>18. ASSUME b \in 54..56 PROVE (b * 1233) \div 4096 = 16 /\ Near(b, 16)
    <2>1. (b * 1233) \div 4096 = 16
      BY <1>18
    <2>2. (b = 54 /\ b - 1 = 53) \/ (b = 55 /\ b - 1 = 54) \/ (b = 56 /\ b - 1 = 55)
      BY <1>18
    <2>3. Near(54, 16) /\ Near(55, 16) /\ Near(56, 16)
      BY <1>1, Twos, Tens DEF Near
    <2> QED
      BY <2>1, <2>2, <2>3 DEF Near
  <1>19. ASSUME b \in 57..59 PROVE (b * 1233) \div 4096 = 17 /\ Near(b, 17)
    <2>1. (b * 1233) \div 4096 = 17
      BY <1>19
    <2>2. (b = 57 /\ b - 1 = 56) \/ (b = 58 /\ b - 1 = 57) \/ (b = 59 /\ b - 1 = 58)
      BY <1>19
    <2>3. Near(57, 17) /\ Near(58, 17) /\ Near(59, 17)
      BY <1>1, Twos, Tens DEF Near
    <2> QED
      BY <2>1, <2>2, <2>3 DEF Near
  <1>20. ASSUME b \in 60..63 PROVE (b * 1233) \div 4096 = 18 /\ Near(b, 18)
    <2>1. (b * 1233) \div 4096 = 18
      BY <1>20
    <2>2. \/ (b = 60 /\ b - 1 = 59) \/ (b = 61 /\ b - 1 = 60)
          \/ (b = 62 /\ b - 1 = 61) \/ (b = 63 /\ b - 1 = 62)
      BY <1>20
    <2>3. Near(60, 18) /\ Near(61, 18) /\ Near(62, 18) /\ Near(63, 18)
      BY <1>1, Twos, Tens DEF Near
    <2> QED
      BY <2>1, <2>2, <2>3 DEF Near
  <1>21. ASSUME b \in 64..64 PROVE (b * 1233) \div 4096 = 19 /\ Near(b, 19)
    <2>1. (b * 1233) \div 4096 = 19
      BY <1>21
    <2>2. (b = 64 /\ b - 1 = 63)
      BY <1>21
    <2>3. Near(64, 19)
      BY <1>1, Twos, Tens DEF Near
    <2> QED
      BY <2>1, <2>2, <2>3 DEF Near
  <1> QED
    BY <1>2, <1>3, <1>4, <1>5, <1>6, <1>7, <1>8, <1>9, <1>10, <1>11, <1>12, <1>13, <1>14,
       <1>15, <1>16, <1>17, <1>18, <1>19, <1>20, <1>21

(* The length in base two is that of the highest bit.                       *)
LEMMA Length2Is ==
    ASSUME NEW n \in Nat
    PROVE  IsPlaces(Length2(n), n, 2)
  <1> DEFINE found == [v \in 0..n |-> 1]
             step == [v \in 0..n |-> [x \in Nat |-> x + 1]]
             G(g) == [v \in 0..n |-> IF v < 2 THEN 1 ELSE g[v \div 2] + 1]
             bits == CHOOSE g : g = G(g)
  <1>0. 2 \in Bases
    BY DEF Bases
  <1>1. found \in [0..n -> Nat] /\ step \in [0..n -> [Nat -> Nat]]
    OBVIOUS
  <1>2. \A v \in 0..n : found[v] = 1 /\ \A x \in Nat : step[v][x] = x + 1
    OBVIOUS
  <1> HIDE DEF found, step
  <1>3. PICK f : Divides(f, Nat, 2, found, step, n)
    BY <1>0, <1>1, Dividing
  <1>4. f = G(f)
    <2>1. f = [v \in 0..n |-> f[v]]
      BY <1>3 DEF Divides
    <2>2. ASSUME NEW v \in 0..n PROVE f[v] = IF v < 2 THEN 1 ELSE f[v \div 2] + 1
      <3>1. CASE v < 2
        BY <1>2, <1>3, <3>1 DEF Divides
      <3>2. CASE ~(v < 2)
        <4>1. v \div 2 \in 0..n
          BY <3>2
        <4>2. f[v] = step[v][f[v \div 2]] /\ f[v \div 2] \in Nat
          BY <1>3, <3>2, <4>1 DEF Divides
        <4> QED
          BY <1>2, <3>2, <4>2
      <3> QED
        BY <3>1, <3>2
    <2> QED
      BY <2>1, <2>2
  <1>5. bits = G(bits)
    BY <1>4
  <1>6. Length2(n) = bits[n]
    BY DEF Length2
  <1> HIDE DEF bits
  <1>7. \A v \in 0..n : bits[v] = IF v < 2 THEN 1 ELSE bits[v \div 2] + 1
    BY <1>5
  <1> DEFINE Good == {v \in 0..n : IsPlaces(bits[v], v, 2)}
  <1>8. ASSUME NEW v \in 0..n, v < 2 PROVE v \in Good
    BY <1>0, <1>7, <1>8, PlacesShort
  <1>9. ASSUME NEW v \in 0..n, v >= 2, v \div 2 \in Good PROVE v \in Good
    <2>1. bits[v] = bits[v \div 2] + 1
      BY <1>7, <1>9
    <2> QED
      BY <1>0, <1>9, <2>1, PlacesNext
  <1>10. Good \in SUBSET (0..n)
    OBVIOUS
  <1> HIDE DEF Good
  <1>11. n \in Good
    BY <1>0, <1>8, <1>9, <1>10, DownToDigits
  <1> QED
    BY <1>6, <1>11 DEF Good

(* count_digits counts the decimal digits.                                  *)
LEMMA CountedTens ==
    ASSUME NEW n \in Nat, n < Limit
    PROVE  IsPlaces(count_digits(n), n, 10)
  <1> DEFINE b == Length2(n)
             t == (b * 1233) \div 4096
  <1>0. 2 \in Bases /\ 10 \in Bases
    BY DEF Bases
  <1>1. IsPlaces(b, n, 2)
    BY Length2Is
  <1>2. count_digits(n) = IF n < POWERS_OF_10(t) THEN t ELSE t + 1
    BY DEF count_digits
  <1> HIDE DEF b
  <1>3. b \in Nat \ {0} /\ n < Power(2, b) /\ (b > 1 => n >= Power(2, b - 1))
    BY <1>1 DEF IsPlaces
  <1>4. b \in 1..64
    <2> SUFFICES ASSUME b > 64 PROVE FALSE
      BY <1>3
    <2>1. 2 * Bits \in Nat /\ b - 1 \in Nat /\ 2 * Bits <= b - 1 /\ n >= Power(2, b - 1)
      BY <1>3, BitsAssumption
    <2>2. /\ Power(2, 2 * Bits) <= Power(2, b - 1) /\ Power(2, 2 * Bits) \in Nat
          /\ Power(2, b - 1) \in Nat
      BY <1>0, <2>1, PowerGrows, PowerNext
    <2> QED
      BY <2>1, <2>2 DEF Limit
  <1>5. t \in 0..19 /\ Near(b, t)
    BY <1>4, Logarithm
  <1>6. t > 0 => b > 1
    BY <1>3
  <1> HIDE DEF t
  <1>7. \A k \in Nat : Power(10, k) \in Nat /\ Power(2, k) \in Nat
    BY <1>0, PowerNext
  <1>8. n < Power(10, t + 1)
    <2>1. t + 1 \in Nat /\ Power(10, t + 1) \in Nat /\ Power(2, b) \in Nat
      BY <1>3, <1>5, <1>7
    <2> QED
      BY <1>3, <1>5, <2>1 DEF Near
  <1>9. t > 0 => n >= Power(10, t - 1)
    <2> SUFFICES ASSUME t > 0 PROVE n >= Power(10, t - 1)
      OBVIOUS
    <2>1. t - 1 \in Nat /\ b - 1 \in Nat /\ Power(10, t - 1) \in Nat /\ Power(2, b - 1) \in Nat
      BY <1>3, <1>5, <1>7
    <2> QED
      BY <1>3, <1>5, <1>6, <2>1 DEF Near
  <1>10. CASE t = 0
    <2>1. count_digits(n) = 1 /\ t + 1 = 1
      BY <1>2, <1>10 DEF POWERS_OF_10
    <2> QED
      BY <1>8, <2>1 DEF IsPlaces
  <1>11. CASE t > 0 /\ n < Power(10, t)
    <2>1. count_digits(n) = t
      BY <1>2, <1>11 DEF POWERS_OF_10
    <2> QED
      BY <1>5, <1>9, <1>11, <2>1 DEF IsPlaces
  <1>12. CASE t > 0 /\ ~(n < Power(10, t))
    <2>1. count_digits(n) = t + 1
      BY <1>2, <1>12 DEF POWERS_OF_10
    <2>2. Power(10, t) \in Nat /\ (t + 1) - 1 = t /\ t + 1 \in Nat \ {0}
      BY <1>5, <1>7
    <2> QED
      BY <1>8, <1>12, <2>1, <2>2 DEF IsPlaces
  <1> QED
    BY <1>5, <1>10, <1>11, <1>12

(* The digits in a base that is a power of two are made by shifts.          *)
LEMMA PowerDigitsAre ==
    ASSUME NEW B \in Bases, NEW value \in Nat, NEW upper \in BOOLEAN, NEW n, IsPlaces(n, value, B)
    PROVE  PowerDigits(value, B, upper) = ByPlaces(n, value, B, upper)
  <1> DEFINE S == Seq(Cells)
             e(v) == Digit(v % B, upper)
             found == [v \in 0..value |-> <<e(v)>>]
             step == [v \in 0..value |-> [x \in S |-> x \o <<e(v)>>]]
             G(g) == [v \in 0..value |-> (IF v < B THEN <<>> ELSE g[v \div B]) \o <<e(v)>>]
             d == CHOOSE g : g = G(g)
  <1>1. ASSUME NEW v \in Nat PROVE <<e(v)>> \in S /\ <<>> \o <<e(v)>> = <<e(v)>>
    <2>1. v % B \in 0..15
      BY DivBase DEF Bases
    <2>2. e(v) \in Cells
      BY <2>1, DigitType
    <2> HIDE DEF e
    <2>3. <<e(v)>> \in S
      BY <2>2
    <2> QED
      BY <2>3, ConcatEmptySeq
  <1>2. found \in [0..value -> S]
    BY <1>1
  <1>3. step \in [0..value -> [S -> S]]
    BY <1>1, ConcatProperties
  <1>4. \A v \in 0..value : found[v] = <<e(v)>> /\ \A x \in S : step[v][x] = x \o <<e(v)>>
    OBVIOUS
  <1> HIDE DEF found, step
  <1>5. PICK f : Divides(f, S, B, found, step, value)
    BY <1>2, <1>3, Dividing
  <1>6. f = G(f)
    <2>1. f = [v \in 0..value |-> f[v]]
      BY <1>5 DEF Divides
    <2>2. ASSUME NEW v \in 0..value
          PROVE  f[v] = (IF v < B THEN <<>> ELSE f[v \div B]) \o <<e(v)>>
      <3>1. CASE v < B
        <4>1. f[v] = found[v]
          BY <1>5, <3>1 DEF Divides
        <4> QED
          BY <1>1, <1>4, <3>1, <4>1
      <3>2. CASE ~(v < B)
        <4>1. v \div B \in 0..value
          BY <3>2, Halved DEF Bases
        <4>2. f[v] = step[v][f[v \div B]] /\ f[v \div B] \in S
          BY <1>5, <3>2, <4>1 DEF Divides
        <4> QED
          BY <1>4, <3>2, <4>2
      <3> QED
        BY <3>1, <3>2
    <2> QED
      BY <2>1, <2>2
  <1>7. d = G(d)
    BY <1>6
  <1>8. PowerDigits(value, B, upper) = d[value]
    BY DEF PowerDigits
  <1> HIDE DEF d
  <1>9. \A v \in 0..value : d[v] = (IF v < B THEN <<>> ELSE d[v \div B]) \o <<e(v)>>
    BY <1>7
  <1> DEFINE Good == {v \in 0..value : \A k : IsPlaces(k, v, B) => d[v] = ByPlaces(k, v, B, upper)}
  <1> HIDE DEF e
  <1>0. ASSUME NEW v \in 0..value
        PROVE  v \in Nat /\ v \div B \in Nat /\ ~(v < B /\ v >= B)
    <2>1. v \in Nat
      OBVIOUS
    <2>2. v \div B \in Nat /\ B \in Nat
      BY <2>1, DivBase
    <2> QED
      BY <2>1, <2>2
  <1>20. \A v \in Nat, m \in Nat :
            ByPlaces(m + 1, v, B, upper) = ByPlaces(m, v \div B, B, upper) \o <<e(v)>>
    BY ByPlacesNext DEF e
  <1>10. ASSUME NEW v \in 0..value, v < B PROVE v \in Good
    <2>1. d[v] = <<e(v)>>
      BY <1>0, <1>1, <1>9, <1>10
    <2>2. \A k : IsPlaces(k, v, B) => k = 1
      BY <1>0, <1>10, PlacesShort, PlacesUnique
    <2>3. ByPlaces(1, v, B, upper) = ByPlaces(0, v \div B, B, upper) \o <<e(v)>>
      <3>1. ByPlaces(0 + 1, v, B, upper) = ByPlaces(0, v \div B, B, upper) \o <<e(v)>>
        BY <1>0, <1>20
      <3> QED
        BY <3>1
    <2>4. ByPlaces(0, v \div B, B, upper) = <<>>
      <3>1. v \div B \in Nat
        BY <1>0
      <3>2. /\ ByPlaces(0, v \div B, B, upper) \in Seq(Cells)
            /\ Len(ByPlaces(0, v \div B, B, upper)) = 0
        BY <3>1, ByPlacesType
      <3> QED
        BY <3>2, EmptySeq
    <2> QED
      BY <1>1, <2>1, <2>2, <2>3, <2>4
  <1>11. ASSUME NEW v \in 0..value, v >= B, v \div B \in Good PROVE v \in Good
    <2> SUFFICES ASSUME NEW k, IsPlaces(k, v, B) PROVE d[v] = ByPlaces(k, v, B, upper)
      OBVIOUS
    <2>1. d[v] = d[v \div B] \o <<e(v)>>
      BY <1>0, <1>9, <1>11
    <2>2. v \in Nat /\ v \div B \in Nat
      BY <1>0
    <2>3. PICK m : IsPlaces(m, v \div B, B)
      BY <2>2, Counted
    <2>4. m \in Nat /\ k = m + 1
      <3>1. IsPlaces(m + 1, v, B)
        BY <1>11, <2>2, <2>3, PlacesNext
      <3> QED
        BY <2>2, <2>3, <3>1, PlacesUnique DEF IsPlaces
    <2>5. d[v \div B] = ByPlaces(m, v \div B, B, upper)
      BY <1>11, <2>3
    <2>6. ByPlaces(m + 1, v, B, upper) = ByPlaces(m, v \div B, B, upper) \o <<e(v)>>
      BY <1>20, <2>2, <2>4
    <2> QED
      BY <2>1, <2>4, <2>5, <2>6
  <1>12. Good \in SUBSET (0..value)
    OBVIOUS
  <1> HIDE DEF Good
  <1>13. value \in Good
    BY <1>10, <1>11, <1>12, DownToDigits
  <1> QED
    BY <1>8, <1>13 DEF Good

-----------------------------------------------------------------------------
(* Sequences of one cell.                                                   *)
LEMMA OneCell ==
    ASSUME NEW c \in Cells
    PROVE  <<c>> \in Seq(Cells) /\ Len(<<c>>) = 1 /\ <<c>>[1] = c
  OBVIOUS

LEMMA TensPositive == \A k \in Nat : Power(10, k) \in Nat /\ Power(10, k) > 0
  <1>1. 10 \in Bases
    BY DEF Bases
  <1>2. ASSUME NEW k \in Nat PROVE Power(10, k) \in Nat \ {0}
    BY <1>1, PowerNext
  <1>3. \A x \in Nat \ {0} : x \in Nat /\ x > 0
    OBVIOUS
  <1> QED
    BY <1>2, <1>3

(* The loop of format_decimal, at the last k digits.                        *)
DecimalAt(value, sep, k, rest) ==
    LET v == value \div Power(10, k)
    IN  IF v < 10 THEN <<Digit(v, FALSE)>>
        ELSE rest \o ThousandsSep(sep, k + 1) \o <<Digit(v % 10, FALSE)>>

(* Digits are put before the rest, with a separator after every third.      *)
LEMMA DecimalAtType ==
    ASSUME NEW value \in Nat, NEW sep \in Seq(Cells), NEW k \in Nat, NEW rest \in Seq(Cells)
    PROVE  DecimalAt(value, sep, k, rest) \in Seq(Cells)
  <1> DEFINE v == value \div Power(10, k)
  <1>0. 10 \in Bases
    BY DEF Bases
  <1>1. v \in Nat
    BY <1>0, PlaceType
  <1>2. DecimalAt(value, sep, k, rest)
          = IF v < 10 THEN <<Digit(v, FALSE)>>
            ELSE rest \o ThousandsSep(sep, k + 1) \o <<Digit(v % 10, FALSE)>>
    BY DEF DecimalAt
  <1> HIDE DEF v
  <1>3. ASSUME v < 10 PROVE Digit(v, FALSE) \in Cells
    <2>1. v \in 0..15
      BY <1>1, <1>3
    <2> QED
      BY <2>1, DigitType
  <1>4. Digit(v % 10, FALSE) \in Cells
    <2>1. v % 10 \in 0..15
      BY <1>1
    <2> QED
      BY <2>1, DigitType
  <1>5. ThousandsSep(sep, k + 1) \in Seq(Cells)
    BY EmptySeq DEF ThousandsSep
  <1>6. rest \o ThousandsSep(sep, k + 1) \in Seq(Cells)
    BY <1>5, ConcatProperties
  <1>7. rest \o ThousandsSep(sep, k + 1) \o <<Digit(v % 10, FALSE)>> \in Seq(Cells)
    BY <1>4, <1>6, OneCell, ConcatProperties
  <1> QED
    BY <1>2, <1>3, <1>7, OneCell

(* format_decimal as a table, from the last digit on.                       *)
DecimalFrom(f, value, sep) ==
    \A k \in 0..(2 * Bits) : f[k] = DecimalAt(value, sep, k, f[k + 1])

LEMMA DecimalUnrolls ==
    ASSUME NEW value \in Nat, value < Limit, NEW sep \in Seq(Cells)
    PROVE  \E f : DecimalFrom(f, value, sep) /\ Decimal(value, sep) = f[0]
  <1> DEFINE N == 2 * Bits
             S == Seq(Cells)
             init == DecimalAt(value, sep, N, <<>>)
             step == [i \in 1..N |-> [x \in S |-> DecimalAt(value, sep, N - i, x)]]
             G(g) == [k \in 0..N |-> DecimalAt(value, sep, k, g[k + 1])]
             fl == CHOOSE g : g = G(g)
  <1>0. N \in Nat /\ 10 \in Bases /\ 2 \in Bases
    BY BitsAssumption DEF Bases
  <1>1. init \in S
    BY <1>0, DecimalAtType, EmptySeq
  <1>2. /\ step \in [1..N -> [S -> S]]
        /\ \A i \in 1..N, x \in S : step[i][x] = DecimalAt(value, sep, N - i, x)
    <2>1. ASSUME NEW i \in 1..N, NEW x \in S PROVE DecimalAt(value, sep, N - i, x) \in S
      <3>1. N - i \in Nat
        BY <1>0
      <3> QED
        BY <3>1, DecimalAtType
    <2> HIDE DEF S
    <2> QED
      BY <2>1
  <1>3. \A x : DecimalAt(value, sep, N, x) = init
    <2>1. value < Power(10, N)
      <3>1. Power(2, N) <= Power(10, N) /\ Power(2, N) \in Nat /\ Power(10, N) \in Nat
        BY <1>0, TwoIsLeast, PowerNext
      <3> QED
        BY <3>1 DEF Limit
    <2>2. value \div Power(10, N) = 0
      <3>1. Power(10, N) \in Nat /\ Power(10, N) > 0
        BY <1>0, TensPositive
      <3>2. Power(10, N) * 0 = 0
        BY <3>1
      <3> QED
        BY <2>1, <3>1, <3>2, DivIs
    <2> QED
      BY <2>2 DEF DecimalAt
  <1> HIDE DEF init, step, S
  <1>4. PICK h : Unrolls(h, S, init, step, N)
    BY <1>0, <1>1, <1>2, Unrolling
  <1> DEFINE f == [k \in 0..N |-> h[N - k]]
  <1>5. f = G(f)
    <2>1. ASSUME NEW k \in 0..N PROVE f[k] = DecimalAt(value, sep, k, f[k + 1])
      <3>1. CASE k = N
        <4>1. f[k] = h[0]
          BY <1>0, <3>1
        <4> QED
          BY <1>3, <1>4, <3>1, <4>1 DEF Unrolls
      <3>2. CASE k # N
        <4>1. /\ N - k \in 1..N /\ (N - k) - 1 = N - (k + 1) /\ N - (N - k) = k
              /\ k + 1 \in 0..N /\ (N - k) - 1 \in 0..N
          BY <1>0, <3>2
        <4>2. h[N - k] = step[N - k][h[(N - k) - 1]] /\ h[(N - k) - 1] \in S
          BY <1>4, <4>1 DEF Unrolls
        <4>3. h[N - k] = DecimalAt(value, sep, k, h[(N - k) - 1])
          BY <1>2, <4>1, <4>2
        <4>4. f[k + 1] = h[(N - k) - 1]
          BY <4>1
        <4> QED
          BY <4>3, <4>4
      <3> QED
        BY <3>1, <3>2
    <2>2. f = [k \in 0..N |-> f[k]]
      OBVIOUS
    <2> HIDE DEF f
    <2> QED
      BY <2>1, <2>2
  <1> HIDE DEF f
  <1>6. fl = G(fl)
    BY <1>5
  <1>7. Decimal(value, sep) = fl[0]
    BY DEF Decimal, DecimalAt
  <1> HIDE DEF fl
  <1>8. DecimalFrom(fl, value, sep)
    BY <1>6 DEF DecimalFrom
  <1> QED
    BY <1>7, <1>8

-----------------------------------------------------------------------------
(* A digit with the separator that may go before it.                        *)
GroupPiece(d, sep, i) == (IF i > 1 /\ (Len(d) - i) % 3 = 2 THEN sep ELSE <<>>) \o <<d[i]>>
GroupsUpTo(d, sep, j) == [i \in 1..j |-> GroupPiece(d, sep, i)]

LEMMA GroupNext ==
    ASSUME NEW d \in Seq(Cells), NEW sep \in Seq(Cells), NEW j \in Nat, j < Len(d)
    PROVE  LET now == FlattenSeq(GroupsUpTo(d, sep, j))
               next == FlattenSeq(GroupsUpTo(d, sep, j + 1))
           IN  /\ now \in Seq(Cells) /\ next \in Seq(Cells)
               /\ GroupPiece(d, sep, j + 1) \in Seq(Cells)
               /\ next = now \o GroupPiece(d, sep, j + 1)
               /\ j = 0 => now = <<>>
  <1> DEFINE s == GroupsUpTo(d, sep, j)
             t == GroupsUpTo(d, sep, j + 1)
  <1>1. ASSUME NEW i \in 1..(j + 1) PROVE GroupPiece(d, sep, i) \in Seq(Cells)
    <2> DEFINE a == IF i > 1 /\ (Len(d) - i) % 3 = 2 THEN sep ELSE <<>>
    <2>1. i \in 1..Len(d)
      BY LenProperties
    <2>2. d[i] \in Cells
      BY <2>1, ElementOfSeq
    <2>3. a \in Seq(Cells)
      BY EmptySeq
    <2> HIDE DEF a
    <2>4. a \o <<d[i]>> \in Seq(Cells)
      BY <2>2, <2>3, OneCell, ConcatProperties
    <2> QED
      BY <2>4 DEF a, GroupPiece
  <1>2. s \in Seq(Seq(Cells)) /\ Len(s) = j /\ \A i \in 1..j : s[i] = GroupPiece(d, sep, i)
    <2>1. s \in [1..j -> Seq(Cells)] /\ \A i \in 1..j : s[i] = GroupPiece(d, sep, i)
      BY <1>1 DEF GroupsUpTo
    <2> HIDE DEF s
    <2> QED
      BY <2>1
  <1>3. /\ t \in Seq(Seq(Cells)) /\ Len(t) = j + 1
        /\ \A i \in 1..(j + 1) : t[i] = GroupPiece(d, sep, i)
    <2>1. t \in [1..(j + 1) -> Seq(Cells)] /\ \A i \in 1..(j + 1) : t[i] = GroupPiece(d, sep, i)
      BY <1>1 DEF GroupsUpTo
    <2> HIDE DEF t
    <2> QED
      BY <2>1
  <1> HIDE DEF s, t
  <1>4. FlattenSeq(t) = FlattenSeq(s) \o t[Len(s) + 1]
    <2>1. Len(t) = Len(s) + 1 /\ \A i \in 1..Len(s) : t[i] = s[i]
      <3>1. Len(s) = j /\ Len(t) = j + 1
        BY <1>2, <1>3
      <3>2. ASSUME NEW i \in 1..j PROVE t[i] = s[i]
        <4>1. i \in 1..(j + 1)
          OBVIOUS
        <4>2. t[i] = GroupPiece(d, sep, i)
          BY <1>3, <4>1
        <4>3. s[i] = GroupPiece(d, sep, i)
          BY <1>2
        <4> QED
          BY <4>2, <4>3
      <3> QED
        BY <3>1, <3>2
    <2> QED
      BY <1>2, <1>3, <2>1, FlattenOne
  <1>5. /\ FlattenSeq(s) \in Seq(Cells) /\ FlattenSeq(t) \in Seq(Cells)
        /\ (j = 0 => FlattenSeq(s) = <<>>)
    BY <1>2, <1>3, FlattenType
  <1>6. j + 1 \in 1..(j + 1)
    OBVIOUS
  <1>7. t[Len(s) + 1] = GroupPiece(d, sep, j + 1) /\ GroupPiece(d, sep, j + 1) \in Seq(Cells)
    BY <1>1, <1>2, <1>3, <1>6
  <1> QED
    BY <1>4, <1>5, <1>7 DEF s, t

LEMMA AppendCell ==
    ASSUME NEW a \in Seq(Cells), NEW c \in Cells
    PROVE  /\ a \o <<c>> \in Seq(Cells) /\ Len(a) \in Nat /\ Len(a \o <<c>>) = Len(a) + 1
           /\ \A i \in 1..Len(a) : (a \o <<c>>)[i] = a[i]
           /\ (a \o <<c>>)[Len(a) + 1] = c
  <1>1. <<c>> \in Seq(Cells) /\ Len(<<c>>) = 1 /\ <<c>>[1] = c
    BY OneCell
  <1>2. Len(a) \in Nat
    BY LenProperties
  <1> QED
    BY <1>1, <1>2, Joined

LEMMA Distributes ==
    ASSUME NEW a \in Nat, NEW x \in Int
    PROVE  a * x \in Int /\ a * (x + 1) = a * x + a
  OBVIOUS

(* The separators stand between groups of three, and as many are counted.   *)
LEMMA GroupsCounted ==
    ASSUME NEW d \in Seq(Cells), NEW sep \in Seq(Cells), Len(d) > 0
    PROVE  Len(FlattenSeq(GroupsUpTo(d, sep, Len(d)))) = Len(d) + Len(sep) * ((Len(d) - 1) \div 3)
  <1> DEFINE n == Len(d)
             L == Len(sep)
             q(j) == ((n - 1) \div 3) - ((n - j) \div 3)
             extent(j) == Len(FlattenSeq(GroupsUpTo(d, sep, j)))
             T == {k \in Nat : k < n => extent(k + 1) = k + 1 + L * q(k + 1)}
  <1>0. n \in Nat /\ n > 0 /\ L \in Nat
    BY LenProperties
  <1>1. ASSUME NEW j \in 0..(n - 1)
        PROVE  /\ extent(j + 1) = extent(j) + 1
                     + (IF j + 1 > 1 /\ (n - (j + 1)) % 3 = 2 THEN L ELSE 0)
               /\ extent(j) \in Nat /\ (j = 0 => extent(j) = 0)
    <2> DEFINE now == FlattenSeq(GroupsUpTo(d, sep, j))
               next == FlattenSeq(GroupsUpTo(d, sep, j + 1))
               p == GroupPiece(d, sep, j + 1)
               a == IF j + 1 > 1 /\ (n - (j + 1)) % 3 = 2 THEN sep ELSE <<>>
    <2>1. now \in Seq(Cells) /\ p \in Seq(Cells) /\ next = now \o p /\ (j = 0 => now = <<>>)
      BY <1>0, GroupNext
    <2>2. p = a \o <<d[j + 1]>>
      BY DEF GroupPiece
    <2>3. d[j + 1] \in Cells
      BY <1>0, ElementOfSeq
    <2>4. a \in Seq(Cells) /\ Len(a) = IF j + 1 > 1 /\ (n - (j + 1)) % 3 = 2 THEN L ELSE 0
      BY EmptySeq
    <2> HIDE DEF a, p, now, next
    <2>5. Len(p) = Len(a) + 1
      BY <2>2, <2>3, <2>4, OneCell, ConcatProperties
    <2>6. Len(next) = Len(now) + Len(p)
      BY <2>1, ConcatProperties
    <2>7. Len(now) \in Nat /\ Len(a) \in Nat /\ (j = 0 => Len(now) = 0)
      BY <2>1, <2>4, LenProperties, EmptySeq
    <2> HIDE DEF extent
    <2>8. extent(j) = Len(now) /\ extent(j + 1) = Len(next)
      BY DEF now, next, extent
    <2>9. extent(j + 1) = extent(j) + 1 + Len(a) /\ extent(j) \in Nat /\ (j = 0 => extent(j) = 0)
      BY <2>5, <2>6, <2>7, <2>8
    <2> QED
      BY <2>4, <2>9
  <1> HIDE DEF extent
  <1>2. \A j \in Int : q(j) \in Int
    BY <1>0
  <1>3. \A j \in 1..(n - 1) : q(j + 1) = q(j) + (IF (n - (j + 1)) % 3 = 2 THEN 1 ELSE 0)
    BY <1>0
  <1>4. q(1) = 0 /\ q(n) = (n - 1) \div 3
    BY <1>0
  <1> HIDE DEF q
  <1>5. 0 \in T
    <2>1. 0 \in 0..(n - 1) /\ 0 + 1 = 1
      BY <1>0
    <2>2. extent(1) = 1
      BY <1>1, <2>1
    <2>3. L * q(1) = 0
      BY <1>0, <1>4
    <2> QED
      BY <2>1, <2>2, <2>3
  <1>6. ASSUME NEW k \in Nat, k \in T PROVE k + 1 \in T
    <2> SUFFICES ASSUME k + 1 < n PROVE extent(k + 2) = k + 2 + L * q(k + 2)
      OBVIOUS
    <2>1. k + 1 \in 1..(n - 1) /\ k + 1 \in 0..(n - 1) /\ (k + 1) + 1 = k + 2 /\ k + 2 > 1
      BY <1>0
    <2>2. extent(k + 1) = k + 1 + L * q(k + 1)
      BY <1>0, <1>6
    <2>3. q(k + 1) \in Int
      BY <1>2
    <2>8. L * q(k + 1) \in Int /\ L * (q(k + 1) + 1) = L * q(k + 1) + L
      BY <1>0, <2>3, Distributes
    <2>4. extent(k + 2) = extent(k + 1) + 1 + (IF (n - (k + 2)) % 3 = 2 THEN L ELSE 0)
      BY <1>1, <2>1
    <2>5. q(k + 2) = q(k + 1) + (IF (n - (k + 2)) % 3 = 2 THEN 1 ELSE 0)
      BY <1>3, <2>1
    <2>6. CASE (n - (k + 2)) % 3 = 2
      BY <1>0, <2>2, <2>3, <2>4, <2>5, <2>6, <2>8
    <2>7. CASE (n - (k + 2)) % 3 # 2
      BY <1>0, <2>2, <2>3, <2>4, <2>5, <2>7, <2>8
    <2> QED
      BY <2>6, <2>7
  <1> HIDE DEF T
  <1>7. n - 1 \in T
    BY <1>0, <1>5, <1>6, Induction
  <1>8. n - 1 \in Nat /\ (n - 1) + 1 = n
    BY <1>0
  <1>9. extent(n) = n + L * q(n)
    BY <1>7, <1>8 DEF T
  <1> QED
    BY <1>4, <1>9 DEF extent

(* Without a separator the groups are the digits.                           *)
LEMMA Ungrouped ==
    ASSUME NEW d \in Seq(Cells)
    PROVE  FlattenSeq(GroupsUpTo(d, <<>>, Len(d))) = d
  <1> DEFINE n == Len(d)
             fl(j) == FlattenSeq(GroupsUpTo(d, <<>>, j))
             T == {j \in Nat : j <= n => /\ fl(j) \in Seq(Cells) /\ Len(fl(j)) = j
                                         /\ \A i \in 1..j : fl(j)[i] = d[i]}
  <1>0. n \in Nat /\ <<>> \in Seq(Cells)
    BY LenProperties, EmptySeq
  <1>1. 0 \in T
    <2>1. fl(0) = <<>>
      <3>1. GroupsUpTo(d, <<>>, 0) = <<>>
        BY DEF GroupsUpTo
      <3>2. <<>> \in Seq(Seq(Cells)) /\ Len(<<>>) = 0
        BY EmptySeq
      <3> QED
        BY <3>1, <3>2, FlattenType
    <2>2. fl(0) \in Seq(Cells) /\ Len(fl(0)) = 0
      BY <1>0, <2>1, EmptySeq
    <2> HIDE DEF fl
    <2> QED
      BY <2>2
  <1>2. ASSUME NEW j \in Nat, j \in T PROVE j + 1 \in T
    <2> SUFFICES ASSUME j < n
                 PROVE  /\ fl(j + 1) \in Seq(Cells) /\ Len(fl(j + 1)) = j + 1
                        /\ \A i \in 1..(j + 1) : fl(j + 1)[i] = d[i]
      OBVIOUS
    <2>1. fl(j) \in Seq(Cells) /\ Len(fl(j)) = j /\ \A i \in 1..j : fl(j)[i] = d[i]
      BY <1>2
    <2>2. fl(j + 1) = fl(j) \o GroupPiece(d, <<>>, j + 1)
      BY <1>0, GroupNext
    <2>3. d[j + 1] \in Cells
      BY <1>0, ElementOfSeq
    <2>4. GroupPiece(d, <<>>, j + 1) = <<d[j + 1]>>
      <3>1. GroupPiece(d, <<>>, j + 1) = <<>> \o <<d[j + 1]>>
        BY DEF GroupPiece
      <3> QED
        BY <2>3, <3>1, OneCell, ConcatEmptySeq
    <2> HIDE DEF fl
    <2> DEFINE e == d[j + 1]
    <2>5. <<e>> \in Seq(Cells) /\ Len(<<e>>) = 1 /\ <<e>>[1] = e
      BY <2>3, OneCell
    <2>6. fl(j + 1) = fl(j) \o <<e>>
      BY <2>2, <2>4
    <2> HIDE DEF e
    <2>7. /\ fl(j + 1) \in Seq(Cells) /\ Len(fl(j + 1)) = j + 1
          /\ \A i \in 1..j : fl(j + 1)[i] = fl(j)[i]
          /\ fl(j + 1)[j + 1] = e
      <3> DEFINE u == fl(j)
                 w == fl(j + 1)
      <3>1. u \in Seq(Cells) /\ Len(u) = j /\ w = u \o <<e>>
        BY <2>1, <2>6
      <3> HIDE DEF u, w
      <3>2. e \in Cells
        BY <2>3 DEF e
      <3>3. /\ w \in Seq(Cells) /\ Len(w) = j + 1 /\ w[j + 1] = e
            /\ \A i \in 1..j : w[i] = u[i]
        BY <3>1, <3>2, AppendCell
      <3> QED
        BY <3>3 DEF u, w
    <2>8. ASSUME NEW i \in 1..(j + 1) PROVE fl(j + 1)[i] = d[i]
      <3>1. i \in 1..j \/ i = j + 1
        OBVIOUS
      <3> QED
        BY <2>1, <2>7, <3>1 DEF e
    <2> QED
      BY <2>7, <2>8
  <1> HIDE DEF T
  <1>3. n \in T
    BY <1>0, <1>1, <1>2, Induction
  <1>4. fl(n) \in Seq(Cells) /\ Len(fl(n)) = n /\ \A i \in 1..n : fl(n)[i] = d[i]
    BY <1>0, <1>3 DEF T
  <1> HIDE DEF fl
  <1>5. fl(n) = d
    BY <1>4, SeqEqual
  <1> QED
    BY <1>5 DEF fl

(* The first place of a value is its quotient by the highest power.         *)
LEMMA TopPlace ==
    ASSUME NEW B \in Bases, NEW v \in Nat, NEW n, IsPlaces(n, v, B), NEW k \in 0..(n - 1)
    PROVE  /\ k \in Nat /\ v \div Power(B, k) \in Nat
           /\ k = n - 1 => v \div Power(B, k) < B
           /\ k < n - 1 => v \div Power(B, k) >= B
  <1> DEFINE P == Power(B, k)
             q == v \div P
  <1>1. n \in Nat \ {0} /\ k \in Nat /\ v < Power(B, n) /\ (n > 1 => v >= Power(B, n - 1))
    BY DEF IsPlaces
  <1>2. P \in Nat \ {0} /\ Power(B, k + 1) = B * P
    BY <1>1, PowerNext
  <1>3. B \in Nat /\ B > 1
    BY DivBase
  <1> HIDE DEF P
  <1>4. q \in Nat /\ P * q <= v /\ v < P * q + P /\ P * q \in Nat
    BY <1>2, DivBounds, Product
  <1> HIDE DEF q
  <1>5. ASSUME k = n - 1, q >= B PROVE FALSE
    <2>1. v < B * P
      BY <1>1, <1>2, <1>5
    <2>2. P * B <= P * q /\ P * B = B * P /\ B * P \in Nat
      BY <1>2, <1>3, <1>4, <1>5
    <2> QED
      BY <1>4, <2>1, <2>2
  <1>6. ASSUME k < n - 1, q < B PROVE FALSE
    <2>1. k + 1 \in Nat /\ n - 1 \in Nat /\ k + 1 <= n - 1 /\ n > 1
      BY <1>1, <1>6
    <2>2. /\ Power(B, k + 1) <= Power(B, n - 1) /\ Power(B, n - 1) \in Nat
          /\ Power(B, k + 1) \in Nat
      BY <2>1, PowerGrows, PowerNext
    <2>3. B * P <= v
      BY <1>1, <1>2, <2>1, <2>2
    <2>4. q + 1 <= B /\ P * (q + 1) = P * q + P /\ P * (q + 1) <= P * B /\ P * B = B * P
      BY <1>2, <1>3, <1>4, <1>6
    <2> QED
      BY <1>2, <1>3, <1>4, <2>3, <2>4, Product
  <1> QED
    BY <1>1, <1>3, <1>4, <1>5, <1>6 DEF q, P

(* format_decimal writes the groups of the digits.                          *)
LEMMA DecimalIs ==
    ASSUME NEW value \in Nat, value < Limit, NEW sep \in Seq(Cells)
    PROVE  /\ Positional(value, 10, FALSE) = ByPlaces(Places(value, 10), value, 10, FALSE)
           /\ Decimal(value, sep) = Grouped(value, sep)
           /\ Grouped(value, sep)
                = FlattenSeq(GroupsUpTo(Positional(value, 10, FALSE), sep, Places(value, 10)))
  <1> DEFINE n == Places(value, 10)
             d == ByPlaces(n, value, 10, FALSE)
             fl(j) == FlattenSeq(GroupsUpTo(d, sep, j))
  <1>0. 10 \in Bases
    BY DEF Bases
  <1>1. IsPlaces(n, value, 10) /\ n \in 1..(2 * Bits)
    BY <1>0, PlacesAre
  <1>2. n \in Nat /\ n > 0
    BY <1>1, BitsAssumption
  <1>3. d \in Seq(Cells) /\ Len(d) = n
    BY <1>0, <1>2, ByPlacesType
  <1>4. Positional(value, 10, FALSE) = d
    BY DEF Positional, ByPlaces
  <1>5. Grouped(value, sep) = fl(n)
    <2> HIDE DEF d, n
    <2> QED
      BY <1>3, <1>4 DEF Grouped, GroupsUpTo, GroupPiece
  <1>6. PICK f : DecimalFrom(f, value, sep) /\ Decimal(value, sep) = f[0]
    BY DecimalUnrolls
  <1>7. \A k \in 0..(n - 1) : f[k] = DecimalAt(value, sep, k, f[k + 1])
    BY <1>1, <1>2, <1>6, BitsAssumption DEF DecimalFrom
  <1>8. \A i \in 1..n : d[i] = Digit((value \div Power(10, n - i)) % 10, FALSE)
    BY <1>2 DEF ByPlaces
  <1> HIDE DEF d, n
  <1>9. ASSUME NEW j \in 0..(n - 1)
        PROVE  /\ fl(j) \in Seq(Cells) /\ GroupPiece(d, sep, j + 1) \in Seq(Cells)
               /\ fl(j + 1) = fl(j) \o GroupPiece(d, sep, j + 1)
               /\ j = 0 => fl(j) = <<>>
    BY <1>2, <1>3, GroupNext
  <1> HIDE DEF fl
  <1>10. n - 1 \in 0..(n - 1) /\ n - 1 \in Nat
    BY <1>2
  <1> DEFINE T == {k \in Nat : k < n => f[(n - 1) - k] = fl(k + 1)}
  <1>11. 0 \in T
    <2> DEFINE v == value \div Power(10, n - 1)
    <2>1. v < 10 /\ v \in Nat
      BY <1>0, <1>1, <1>10, TopPlace
    <2>2. f[n - 1] = <<Digit(v, FALSE)>>
      BY <1>7, <1>10, <2>1 DEF DecimalAt
    <2>3. d[1] = Digit(v % 10, FALSE)
      <3>1. 1 \in 1..n
        BY <1>2
      <3>2. d[1] = Digit((value \div Power(10, n - 1)) % 10, FALSE)
        BY <1>8, <3>1
      <3> QED
        BY <3>2
    <2> HIDE DEF v
    <2>4. v % 10 = v
      BY <2>1
    <2>5. GroupPiece(d, sep, 1) = <<>> \o <<d[1]>>
      BY DEF GroupPiece
    <2>6. d[1] \in Cells
      BY <1>2, <1>3, ElementOfSeq
    <2>7. GroupPiece(d, sep, 1) = <<d[1]>> /\ <<d[1]>> \in Seq(Cells)
      BY <2>5, <2>6, OneCell, ConcatEmptySeq
    <2>8. fl(1) = <<>> \o GroupPiece(d, sep, 1)
      <3>1. 0 \in 0..(n - 1) /\ 0 + 1 = 1
        BY <1>2
      <3> QED
        BY <1>9, <3>1
    <2>9. fl(1) = <<d[1]>>
      BY <2>7, <2>8, ConcatEmptySeq
    <2>10. f[n - 1] = fl(1)
      BY <2>2, <2>3, <2>4, <2>9
    <2>11. (n - 1) - 0 = n - 1 /\ 0 + 1 = 1
      BY <1>2
    <2> QED
      BY <2>10, <2>11
  <1>12. ASSUME NEW j \in Nat, j \in T PROVE j + 1 \in T
    <2> SUFFICES ASSUME j + 1 < n PROVE f[(n - 1) - (j + 1)] = fl((j + 1) + 1)
      OBVIOUS
    <2> DEFINE k == (n - 1) - (j + 1)
               v == value \div Power(10, k)
               a == IF (j + 1) + 1 > 1 /\ (n - ((j + 1) + 1)) % 3 = 2 THEN sep ELSE <<>>
               e == Digit(v % 10, FALSE)
               now == fl(j + 1)
    <2>1. /\ k \in 0..(n - 1) /\ k < n - 1 /\ k \in Nat /\ k + 1 = (n - 1) - j
          /\ j + 1 \in 0..(n - 1) /\ (j + 1) + 1 \in 1..n /\ n - ((j + 1) + 1) = k /\ j < n
      BY <1>2
    <2>2. v >= 10 /\ v \in Nat
      BY <1>0, <1>1, <2>1, TopPlace
    <2>3. f[k + 1] = now
      BY <1>12, <2>1
    <2>4. f[k] = f[k + 1] \o ThousandsSep(sep, k + 1) \o <<e>>
      <3>1. f[k] = DecimalAt(value, sep, k, f[k + 1])
        BY <1>7, <2>1
      <3>2. ~(v < 10)
        BY <2>2
      <3>3. f[k] = IF v < 10 THEN <<Digit(v, FALSE)>>
                   ELSE f[k + 1] \o ThousandsSep(sep, k + 1) \o <<e>>
        BY <3>1 DEF DecimalAt
      <3> HIDE DEF v, e
      <3> QED
        BY <3>2, <3>3
    <2>5. ThousandsSep(sep, k + 1) = a
      <3>1. (k + 1) % 3 = 0 <=> k % 3 = 2
        BY <2>1
      <3> HIDE DEF k
      <3> QED
        BY <2>1, <3>1 DEF ThousandsSep
    <2>6. d[(j + 1) + 1] = e
      <3>1. n - ((j + 1) + 1) = k /\ (j + 1) + 1 \in 1..n
        BY <2>1
      <3> HIDE DEF k
      <3> QED
        BY <1>8, <3>1
    <2>7. GroupPiece(d, sep, (j + 1) + 1) = a \o <<e>>
      BY <1>3, <2>6 DEF GroupPiece
    <2>8. fl((j + 1) + 1) = now \o GroupPiece(d, sep, (j + 1) + 1) /\ now \in Seq(Cells)
      BY <1>9, <2>1
    <2>9. a \in Seq(Cells)
      BY EmptySeq
    <2>10. <<e>> \in Seq(Cells)
      <3>1. v % 10 \in 0..15
        BY <2>2
      <3> HIDE DEF v
      <3> QED
        BY <3>1, DigitType, OneCell
    <2> HIDE DEF k, v, a, e, now
    <2>11. f[k] = (now \o a) \o <<e>>
      BY <2>3, <2>4, <2>5
    <2>12. fl((j + 1) + 1) = now \o (a \o <<e>>)
      BY <2>7, <2>8
    <2>13. (now \o a) \o <<e>> = now \o (a \o <<e>>)
      BY <2>8, <2>9, <2>10, ConcatAssociative
    <2>14. f[k] = fl((j + 1) + 1)
      BY <2>11, <2>12, <2>13
    <2> QED
      BY <2>14 DEF k
  <1> HIDE DEF T
  <1>13. n - 1 \in T
    BY <1>10, <1>11, <1>12, Induction
  <1>14. f[0] = fl(n)
    <2>1. (n - 1) - (n - 1) = 0 /\ (n - 1) + 1 = n /\ n - 1 < n
      BY <1>2
    <2>2. f[(n - 1) - (n - 1)] = fl((n - 1) + 1)
      BY <1>13, <2>1 DEF T
    <2> QED
      BY <2>1, <2>2
  <1> QED
    BY <1>4, <1>5, <1>6, <1>14 DEF d, n, fl

-----------------------------------------------------------------------------
(* The digits of a number without its sign.                                 *)
AbsOf(value) == IF value < 0 THEN -value ELSE value
DigitsOfNat(m, code, sep) == CASE code \in {"", "d"} -> Positional(m, 10, FALSE)
                               [] code = "n" -> Grouped(m, sep)
                               [] OTHER -> Positional(m, Base(code), code = "X")

LEMMA DigitsOfAbs ==
    ASSUME NEW value \in Int, NEW code, NEW sep
    PROVE  Digits(value, code, sep) = DigitsOfNat(AbsOf(value), code, sep)
  BY Zenon DEF Digits, AbsOf, DigitsOfNat

(* An integer is written with its digits, and they are counted.             *)
LEMMA DigitsAre ==
    ASSUME NEW code \in IntCodes, NEW m \in Nat, m < Limit, NEW sep \in Seq(Cells)
    PROVE  /\ DigitsOf(code, m, sep) = Digits(m, code, sep)
           /\ Digits(m, code, sep) \in Seq(Cells)
           /\ Len(Digits(m, code, sep)) = DigitCount(code, m, sep)
           /\ Len(Digits(m, code, sep)) \in Nat \ {0}
  <1>0. 10 \in Bases /\ Base(code) \in Bases
    BY DEF Base, Bases
  <1>1. Digits(m, code, sep) = CASE code \in {"", "d"} -> Positional(m, 10, FALSE)
                                 [] code = "n" -> Grouped(m, sep)
                                 [] OTHER -> Positional(m, Base(code), code = "X")
    <2>1. AbsOf(m) = m
      BY DEF AbsOf
    <2>2. Digits(m, code, sep) = DigitsOfNat(AbsOf(m), code, sep)
      BY DigitsOfAbs
    <2> QED
      BY <2>1, <2>2 DEF DigitsOfNat
  <1> DEFINE n == Places(m, 10)
             d == Positional(m, 10, FALSE)
  <1>2. IsPlaces(n, m, 10) /\ IsPlaces(count_digits(m), m, 10) /\ n \in Nat \ {0}
    BY <1>0, PlacesAre, CountedTens DEF IsPlaces
  <1>3. count_digits(m) = n
    BY <1>0, <1>2, PlacesUnique
  <1>4. d \in Seq(Cells) /\ Len(d) = n
    <2>1. d = ByPlaces(n, m, 10, FALSE)
      BY <1>2, DecimalIs
    <2>2. n \in Nat
      BY <1>2
    <2> HIDE DEF d, n
    <2> QED
      BY <1>0, <2>1, <2>2, ByPlacesType
  <1>5. <<>> \in Seq(Cells)
    BY EmptySeq
  <1>6. CASE code \in {"", "d"}
    <2>1. Decimal(m, <<>>) = FlattenSeq(GroupsUpTo(d, <<>>, Len(d)))
      BY <1>4, <1>5, DecimalIs
    <2>2. Decimal(m, <<>>) = d
      BY <1>4, <2>1, Ungrouped
    <2>3. DigitsOf(code, m, sep) = Decimal(m, <<>>)
      BY <1>6 DEF DigitsOf
    <2>4. DigitCount(code, m, sep) = count_digits(m)
      BY <1>6 DEF DigitCount
    <2>5. Digits(m, code, sep) = d
      BY <1>1, <1>6
    <2> HIDE DEF d, n
    <2> QED
      BY <1>2, <1>3, <1>4, <2>2, <2>3, <2>4, <2>5
  <1>7. CASE code = "n"
    <2> DEFINE g == Grouped(m, sep)
    <2>1. Decimal(m, sep) = g /\ g = FlattenSeq(GroupsUpTo(d, sep, Len(d)))
      BY <1>4, DecimalIs
    <2>2. Len(g) = n + Len(sep) * ((n - 1) \div 3)
      <3>1. Len(d) > 0
        <4> HIDE DEF d, n
        <4> QED
          BY <1>2, <1>4
      <3> QED
        BY <1>4, <2>1, <3>1, GroupsCounted
    <2>3. DigitsOf(code, m, sep) = Decimal(m, sep)
      BY <1>7 DEF DigitsOf
    <2>4. DigitCount(code, m, sep) = n + Len(sep) * ((n - 1) \div 3)
      BY <1>3, <1>7 DEF DigitCount
    <2>5. Digits(m, code, sep) = g
      BY <1>1, <1>7
    <2>6. g \in Seq(Cells)
      <3> DEFINE j == n - 1
      <3>1. j \in Nat /\ j < Len(d) /\ j + 1 = Len(d)
        <4> HIDE DEF d, n
        <4> QED
          BY <1>2, <1>4
      <3> HIDE DEF j
      <3>2. FlattenSeq(GroupsUpTo(d, sep, j + 1)) \in Seq(Cells)
        BY <1>4, <3>1, GroupNext
      <3> QED
        BY <2>1, <3>1, <3>2
    <2>7. Len(g) \in Nat \ {0}
      <3>1. Len(sep) \in Nat /\ (n - 1) \div 3 \in Nat
        BY <1>2, LenProperties
      <3>2. Len(sep) * ((n - 1) \div 3) \in Nat
        BY <3>1, Product
      <3> QED
        BY <1>2, <2>2, <3>2
    <2> HIDE DEF g
    <2> QED
      BY <2>1, <2>2, <2>3, <2>4, <2>5, <2>6, <2>7
  <1>8. CASE code \notin {"", "d", "n"}
    <2> DEFINE B == Base(code)
               up == code = "X"
               e == Positional(m, B, up)
               p == Places(m, B)
    <2>0. B \in Bases /\ up \in BOOLEAN
      BY <1>0
    <2>1. DigitsOf(code, m, sep) = PowerDigits(m, B, up)
      BY <1>8 DEF DigitsOf
    <2>2. DigitCount(code, m, sep) = CountDigits(m, B)
      BY <1>8 DEF DigitCount
    <2>3. Digits(m, code, sep) = e
      BY <1>1, <1>8
    <2>4. e = ByPlaces(p, m, B, up)
      BY DEF Positional, ByPlaces
    <2> HIDE DEF B, up, e, p
    <2>5. IsPlaces(p, m, B) /\ p \in Nat \ {0}
      BY <2>0, PlacesAre DEF IsPlaces, p
    <2>6. CountDigits(m, B) = p
      BY <2>0, <2>5, Counted, PlacesUnique
    <2>7. PowerDigits(m, B, up) = e
      BY <2>0, <2>4, <2>5, PowerDigitsAre
    <2>8. e \in Seq(Cells) /\ Len(e) = p
      <3>1. p \in Nat
        BY <2>5
      <3> QED
        BY <2>0, <2>4, <3>1, ByPlacesType
    <2> QED
      BY <2>1, <2>2, <2>3, <2>5, <2>6, <2>7, <2>8
  <1> QED
    BY <1>6, <1>7, <1>8

(* The magnitude of a number in an unsigned type.                           *)
LEMMA MinusMod ==
    ASSUME NEW M \in Nat, M > 0, NEW x \in 1..M
    PROVE  (-x) % M = M - x
  OBVIOUS

(* The magnitude of the lowest value is found too.                          *)
LEMMA MagnitudeIs ==
    ASSUME NEW bits \in {Bits, 2 * Bits}, NEW value \in Int,
           -Power(2, bits - 1) <= value, value < Power(2, bits)
    PROVE  /\ Magnitude(value, bits) = AbsOf(value)
           /\ AbsOf(value) \in Nat /\ AbsOf(value) < Limit
  <1> DEFINE H == Power(2, bits - 1)
             M == Power(2, bits)
  <1>0. /\ bits \in Nat /\ bits - 1 \in Nat /\ (bits - 1) + 1 = bits /\ 2 \in Bases
        /\ 2 * Bits \in Nat /\ bits <= 2 * Bits
    BY BitsAssumption DEF Bases
  <1>1. H \in Nat \ {0} /\ M = 2 * H
    BY <1>0, PowerNext
  <1>2. M <= Limit /\ Limit \in Nat
    BY <1>0, PowerGrows, PowerNext DEF Limit
  <1> HIDE DEF H, M
  <1>3. -H <= value /\ value < M
    BY DEF H, M
  <1>4. Magnitude(value, bits) = IF value < 0 THEN (-(value % M)) % M ELSE value
    BY DEF Magnitude, M
  <1>5. CASE value < 0
    <2> DEFINE a == -value
    <2>1. /\ a \in 1..M /\ -a = value /\ M - a \in 1..M /\ M - (M - a) = a /\ M > 0 /\ M \in Nat
          /\ a < M
      BY <1>1, <1>3, <1>5
    <2> HIDE DEF a
    <2>2. (-a) % M = M - a
      BY <2>1, MinusMod
    <2>3. (-(M - a)) % M = a
      BY <2>1, MinusMod
    <2>4. Magnitude(value, bits) = a
      BY <1>4, <1>5, <2>1, <2>2, <2>3
    <2> QED
      BY <1>2, <1>5, <2>1, <2>4 DEF AbsOf, a
  <1>6. CASE ~(value < 0)
    BY <1>1, <1>2, <1>3, <1>4, <1>6 DEF AbsOf
  <1> QED
    BY <1>5, <1>6

-----------------------------------------------------------------------------
(* Buffers: cells of which the first b.size are in use.                     *)
IsBuffer(b) == /\ b \in [cells : Seq(Cells), size : Nat, gen : Nat, lost : BOOLEAN]
               /\ b.size <= capacity(b)

LEMMA BufferParts ==
    ASSUME NEW b, IsBuffer(b)
    PROVE  /\ b.cells \in Seq(Cells) /\ capacity(b) \in Nat /\ b.size \in Nat /\ b.gen \in Nat
           /\ b.lost \in BOOLEAN /\ b.size <= capacity(b)
           /\ b.cells \in [1..capacity(b) -> Cells]
  <1>1. b.cells \in Seq(Cells) /\ b.size \in Nat /\ b.gen \in Nat /\ b.lost \in BOOLEAN
    BY DEF IsBuffer
  <1>2. capacity(b) \in Nat /\ b.cells \in [1..capacity(b) -> Cells]
    BY <1>1, LenProperties DEF capacity
  <1> QED
    BY <1>1, <1>2 DEF IsBuffer

JunkCells == Junk \in Cells /\ Blank \in Cells

LEMMA JunkType == JunkCells
  BY DEF JunkCells, Cells

(* Growing keeps what is in use, and moves the storage.                     *)
LEMMA GrownIs ==
    ASSUME NEW b, IsBuffer(b), NEW extent \in Nat, extent > capacity(b)
    PROVE  LET r == grow(b, extent)
           IN  /\ IsBuffer(r) /\ r.size = b.size /\ r.lost = b.lost
               /\ capacity(r) >= extent
               /\ \A i \in 1..b.size : r.cells[i] = b.cells[i]
  <1> DEFINE half == capacity(b) + (capacity(b) \div 2)
             n == IF extent > half THEN extent ELSE half
             new == [i \in 1..n |-> IF i <= b.size THEN b.cells[i] ELSE Junk]
             r == grow(b, extent)
  <1>1. /\ b.cells \in Seq(Cells) /\ capacity(b) \in Nat /\ b.size \in Nat /\ b.gen \in Nat
        /\ b.lost \in BOOLEAN /\ b.size <= capacity(b)
        /\ b.cells \in [1..capacity(b) -> Cells]
    BY BufferParts
  <1>2. n \in Nat /\ n >= extent /\ n >= b.size
    BY <1>1
  <1>3. r = [b EXCEPT !.cells = new, !.gen = @ + 1]
    BY DEF grow
  <1> HIDE DEF n, r
  <1>4. new \in [1..n -> Cells]
    BY <1>1, JunkType DEF JunkCells
  <1>5. \A i \in 1..b.size : new[i] = b.cells[i]
    BY <1>1, <1>2
  <1> HIDE DEF new
  <1>6. new \in Seq(Cells) /\ Len(new) = n
    BY <1>2, <1>4
  <1>7. /\ r \in [cells : Seq(Cells), size : Nat, gen : Nat, lost : BOOLEAN]
        /\ r.cells = new /\ r.size = b.size /\ r.lost = b.lost
    <2>1. b \in [cells : Seq(Cells), size : Nat, gen : Nat, lost : BOOLEAN]
      BY DEF IsBuffer
    <2>2. b.gen + 1 \in Nat
      BY <1>1
    <2>3. r = [b EXCEPT !.cells = new, !.gen = b.gen + 1]
      BY <1>3
    <2> QED
      BY <1>6, <2>1, <2>2, <2>3
  <1> QED
    BY <1>1, <1>2, <1>5, <1>6, <1>7 DEF IsBuffer, capacity, r

(* A buffer with room reserved holds the same.                              *)
LEMMA ReservedIs ==
    ASSUME NEW b, IsBuffer(b), NEW extent \in Nat
    PROVE  LET r == reserve(b, extent)
           IN  /\ IsBuffer(r) /\ r.size = b.size /\ r.lost = b.lost
               /\ capacity(r) >= extent /\ capacity(r) >= capacity(b)
               /\ \A i \in 1..b.size : r.cells[i] = b.cells[i]
               /\ extent <= capacity(b) => r = b
  <1>1. capacity(b) \in Nat
    BY BufferParts
  <1>2. CASE extent > capacity(b)
    <2> DEFINE g == grow(b, extent)
    <2>1. /\ IsBuffer(g) /\ g.size = b.size /\ g.lost = b.lost /\ capacity(g) >= extent
          /\ \A i \in 1..b.size : g.cells[i] = b.cells[i]
      BY <1>2, GrownIs
    <2>2. reserve(b, extent) = g
      BY <1>2 DEF reserve
    <2>3. capacity(g) \in Nat
      BY <2>1, BufferParts
    <2> HIDE DEF g
    <2> QED
      BY <1>1, <1>2, <2>1, <2>2, <2>3
  <1>3. CASE ~(extent > capacity(b))
    BY <1>1, <1>3 DEF reserve
  <1> QED
    BY <1>2, <1>3

(* A buffer grown by n holds n cells more.                                  *)
LEMMA GrewBy ==
    ASSUME NEW b, IsBuffer(b), NEW n \in Nat
    PROVE  LET r == grow_buffer(b, n)
           IN  /\ IsBuffer(r) /\ r.size = b.size + n /\ r.lost = b.lost
               /\ capacity(r) >= capacity(b)
               /\ \A i \in 1..b.size : r.cells[i] = b.cells[i]
               /\ b.size + n <= capacity(b) => r.gen = b.gen /\ r.cells = b.cells
  <1> DEFINE s == b.size + n
             g == reserve(b, s)
             r == grow_buffer(b, n)
  <1>1. s \in Nat /\ b.size \in Nat
    BY BufferParts
  <1>2. r = [g EXCEPT !.size = s]
    BY DEF grow_buffer, resize
  <1> HIDE DEF s, r
  <1>3. /\ IsBuffer(g) /\ g.size = b.size /\ g.lost = b.lost
        /\ capacity(g) >= s /\ capacity(g) >= capacity(b)
        /\ \A i \in 1..b.size : g.cells[i] = b.cells[i]
        /\ s <= capacity(b) => g = b
    BY <1>1, ReservedIs
  <1> HIDE DEF g
  <1>4. /\ r \in [cells : Seq(Cells), size : Nat, gen : Nat, lost : BOOLEAN]
        /\ r.cells = g.cells /\ r.size = s /\ r.lost = g.lost /\ r.gen = g.gen
    BY <1>1, <1>2, <1>3 DEF IsBuffer
  <1>5. capacity(r) = capacity(g) /\ capacity(g) \in Nat
    BY <1>3, <1>4, BufferParts DEF capacity
  <1> QED
    BY <1>1, <1>3, <1>4, <1>5 DEF IsBuffer, r, s

(* A write through a pointer that is up to date changes the cells it names. *)
LEMMA WrittenIs ==
    ASSUME NEW b, IsBuffer(b), NEW at \in Nat, NEW chars \in Seq(Cells),
           at + Len(chars) <= capacity(b)
    PROVE  /\ IsBuffer(WriteAt(b, at, chars))
           /\ WriteAt(b, at, chars).size = b.size /\ WriteAt(b, at, chars).lost = b.lost
           /\ WriteAt(b, at, chars).gen = b.gen
           /\ capacity(WriteAt(b, at, chars)) = capacity(b)
           /\ \A i \in 1..capacity(b) :
                 WriteAt(b, at, chars).cells[i] = IF i - at \in 1..Len(chars)
                                                  THEN chars[i - at] ELSE b.cells[i]
  <1> DEFINE p == Ptr(b, at)
             new == [i \in DOMAIN b.cells |-> IF i - p[2] \in 1..Len(chars)
                                              THEN chars[i - p[2]] ELSE b.cells[i]]
             n == capacity(b)
             r == WriteAt(b, at, chars)
  <1>1. /\ b.cells \in Seq(Cells) /\ n \in Nat /\ b.size \in Nat /\ b.gen \in Nat
        /\ b.size <= n /\ b.cells \in [1..n -> Cells] /\ Len(chars) \in Nat
    BY BufferParts, LenProperties
  <1>2. p[1] = b.gen /\ p[2] = at
    BY DEF Ptr
  <1>3. r = [b EXCEPT !.cells = new]
    BY <1>2 DEF WriteTo, WriteAt
  <1> HIDE DEF n, p, r
  <1>4. \A i \in 1..Len(chars) : chars[i] \in Cells
    BY ElementOfSeq
  <1>5. new = [i \in 1..n |-> IF i - at \in 1..Len(chars) THEN chars[i - at] ELSE b.cells[i]]
    BY <1>1, <1>2
  <1> HIDE DEF new
  <1>6. new \in [1..n -> Cells]
    BY <1>1, <1>4, <1>5
  <1>7. new \in Seq(Cells) /\ Len(new) = n
    BY <1>1, <1>6
  <1>8. /\ r \in [cells : Seq(Cells), size : Nat, gen : Nat, lost : BOOLEAN]
        /\ r.cells = new /\ r.size = b.size /\ r.lost = b.lost /\ r.gen = b.gen
    BY <1>3, <1>7 DEF IsBuffer
  <1>9. capacity(r) = n
    BY <1>7, <1>8 DEF capacity
  <1>10. \A i \in 1..n : r.cells[i] = IF i - at \in 1..Len(chars) THEN chars[i - at] ELSE b.cells[i]
    BY <1>1, <1>5, <1>8
  <1>11. IsBuffer(r)
    BY <1>1, <1>8, <1>9 DEF IsBuffer
  <1> QED
    BY <1>8, <1>9, <1>10, <1>11 DEF r, n

-----------------------------------------------------------------------------
(* What r holds beyond b.                                                   *)
Holds(r, b, s) == /\ IsBuffer(r) /\ r.lost = b.lost
                  /\ r.size = b.size + Len(s)
                  /\ \A i \in 1..b.size : r.cells[i] = b.cells[i]
                  /\ \A i \in 1..Len(s) : r.cells[b.size + i] = s[i]

(* Contents are what a buffer held, with what has been written after it.    *)
LEMMA HeldContents ==
    ASSUME NEW b, IsBuffer(b), NEW r, NEW s \in Seq(Cells), Holds(r, b, s)
    PROVE  Contents(r) = Contents(b) \o s
  <1> DEFINE x == Contents(r)
             y == Contents(b)
  <1>1. /\ b.cells \in Seq(Cells) /\ b.size \in Nat /\ b.size <= capacity(b)
        /\ capacity(b) \in Nat /\ Len(s) \in Nat
    BY BufferParts, LenProperties
  <1>2. /\ r.cells \in Seq(Cells) /\ r.size \in Nat /\ r.size <= capacity(r)
        /\ capacity(r) \in Nat /\ r.size = b.size + Len(s)
    BY BufferParts DEF Holds
  <1>3. y \in Seq(Cells) /\ Len(y) = b.size /\ \A i \in 1..b.size : y[i] = b.cells[i]
    <2>1. \A i \in 1..b.size : b.cells[i] \in Cells
      BY <1>1, ElementOfSeq DEF capacity
    <2> QED
      BY <1>1, <2>1, SubSeqProperties DEF Contents
  <1>4. x \in Seq(Cells) /\ Len(x) = r.size /\ \A i \in 1..r.size : x[i] = r.cells[i]
    <2>1. \A i \in 1..r.size : r.cells[i] \in Cells
      BY <1>2, ElementOfSeq DEF capacity
    <2> QED
      BY <1>2, <2>1, SubSeqProperties DEF Contents
  <1> HIDE DEF x, y
  <1>5. /\ y \o s \in Seq(Cells) /\ Len(y \o s) = b.size + Len(s)
        /\ \A i \in 1..b.size : (y \o s)[i] = y[i]
        /\ \A i \in 1..Len(s) : (y \o s)[b.size + i] = s[i]
    <2>1. /\ y \o s \in Seq(Cells) /\ Len(y \o s) = Len(y) + Len(s)
          /\ \A i \in 1..Len(y) : (y \o s)[i] = y[i]
          /\ \A i \in 1..Len(s) : (y \o s)[Len(y) + i] = s[i]
      <3>1. y \in Seq(Cells) /\ s \in Seq(Cells)
        BY <1>3
      <3> QED
        BY <3>1, Joined
    <2> QED
      BY <1>3, <2>1
  <1>6. ASSUME NEW i \in 1..r.size PROVE x[i] = (y \o s)[i]
    <2>1. CASE i <= b.size
      <3>1. i \in 1..b.size
        BY <1>1, <2>1
      <3> QED
        BY <1>3, <1>4, <1>5, <3>1 DEF Holds
    <2>2. CASE i > b.size
      <3>1. i - b.size \in 1..Len(s) /\ b.size + (i - b.size) = i
        BY <1>1, <1>2, <2>2
      <3> QED
        BY <1>4, <1>5, <3>1 DEF Holds
    <2>3. b.size \in Nat /\ r.size \in Nat
      BY <1>1, <1>2
    <2>4. i <= b.size \/ i > b.size
      BY <2>3
    <2> QED
      BY <2>1, <2>2, <2>4
  <1>7. x = y \o s
    <2> DEFINE ys == y \o s
    <2>1. ys \in Seq(Cells) /\ x \in Seq(Cells)
      BY <1>4, <1>5
    <2>2. Len(x) = Len(ys) /\ Len(x) = r.size
      BY <1>2, <1>4, <1>5
    <2>3. \A i \in 1..Len(x) : x[i] = ys[i]
      <3> HIDE DEF ys
      <3>1. \A i \in 1..r.size : x[i] = ys[i]
        BY <1>6 DEF ys
      <3> QED
        BY <2>2, <3>1
    <2> HIDE DEF ys
    <2>4. x = ys
      BY <2>1, <2>2, <2>3, SeqEqual
    <2> QED
      BY <2>4 DEF ys
  <1> QED
    BY <1>7 DEF x, y

LEMMA HeldParts ==
    ASSUME NEW b, IsBuffer(b), NEW r, NEW s \in Seq(Cells), Holds(r, b, s)
    PROVE  /\ IsBuffer(r) /\ r.lost = b.lost /\ Len(s) \in Nat /\ b.size \in Nat
           /\ r.size \in Nat
           /\ r.size = b.size + Len(s) /\ r.size <= capacity(r) /\ capacity(r) \in Nat
           /\ r.gen \in Nat
           /\ \A i \in 1..b.size : r.cells[i] = b.cells[i]
           /\ \A i \in 1..Len(s) : r.cells[b.size + i] = s[i]
  <1>1. b.size \in Nat
    BY BufferParts
  <1>2. IsBuffer(r)
    BY DEF Holds
  <1>3. capacity(r) \in Nat /\ r.size \in Nat /\ r.size <= capacity(r) /\ r.gen \in Nat
    BY <1>2, BufferParts
  <1>4. Len(s) \in Nat
    BY LenProperties
  <1> QED
    BY <1>1, <1>2, <1>3, <1>4 DEF Holds

(* What is appended to what was appended.                                   *)
LEMMA HeldJoined ==
    ASSUME NEW b, IsBuffer(b), NEW r, NEW s \in Seq(Cells), Holds(r, b, s),
           NEW q, NEW t \in Seq(Cells), Holds(q, r, t)
    PROVE  Holds(q, b, s \o t)
  <1>1. /\ IsBuffer(r) /\ r.lost = b.lost /\ Len(s) \in Nat /\ b.size \in Nat /\ r.size \in Nat
        /\ r.size = b.size + Len(s)
        /\ \A i \in 1..b.size : r.cells[i] = b.cells[i]
        /\ \A i \in 1..Len(s) : r.cells[b.size + i] = s[i]
    BY HeldParts
  <1>2. /\ IsBuffer(q) /\ q.lost = r.lost /\ Len(t) \in Nat /\ q.size = r.size + Len(t)
        /\ \A i \in 1..r.size : q.cells[i] = r.cells[i]
        /\ \A i \in 1..Len(t) : q.cells[r.size + i] = t[i]
    BY <1>1, HeldParts
  <1> DEFINE z == s \o t
  <1>3. /\ z \in Seq(Cells) /\ Len(z) = Len(s) + Len(t)
        /\ \A i \in 1..Len(s) : z[i] = s[i]
        /\ \A i \in 1..Len(t) : z[Len(s) + i] = t[i]
    BY Joined
  <1> HIDE DEF z
  <1>4. q.size = b.size + Len(z)
    BY <1>1, <1>2, <1>3
  <1>5. \A i \in 1..b.size : q.cells[i] = b.cells[i]
    BY <1>1, <1>2
  <1>6. ASSUME NEW i \in 1..Len(z) PROVE q.cells[b.size + i] = z[i]
    <2>1. CASE i <= Len(s)
      <3>1. i \in 1..Len(s) /\ b.size + i \in 1..r.size
        BY <1>1, <2>1
      <3> QED
        BY <1>1, <1>2, <1>3, <3>1
    <2>2. CASE i > Len(s)
      <3> DEFINE j == i - Len(s)
      <3>1. j \in 1..Len(t) /\ Len(s) + j = i /\ r.size + j = b.size + i
        BY <1>1, <1>2, <1>3, <2>2
      <3> HIDE DEF j
      <3> QED
        BY <1>2, <1>3, <3>1
    <2> QED
      BY <1>1, <1>2, <1>3, <2>1, <2>2
  <1> QED
    BY <1>1, <1>2, <1>4, <1>5, <1>6 DEF Holds, z

(* Nothing more, and room for more, are held too.                           *)
LEMMA HeldNothing ==
    ASSUME NEW b, IsBuffer(b)
    PROVE  Holds(b, b, <<>>)
  <1>1. b.size \in Nat
    BY BufferParts
  <1> QED
    BY <1>1 DEF Holds

LEMMA HeldReserved ==
    ASSUME NEW b, IsBuffer(b), NEW extent \in Nat
    PROVE  Holds(reserve(b, extent), b, <<>>)
  <1> DEFINE r == reserve(b, extent)
  <1>1. /\ IsBuffer(r) /\ r.size = b.size /\ r.lost = b.lost
        /\ \A i \in 1..b.size : r.cells[i] = b.cells[i]
    BY ReservedIs
  <1> HIDE DEF r
  <1>2. b.size \in Nat
    BY BufferParts
  <1> QED
    BY <1>1, <1>2 DEF Holds, r

(* An area is grown and then written.                                       *)
Area(b, s) == WriteAt(grow_buffer(b, Len(s)), b.size, s)

(* A text written over the cells that a buffer has grown by.                *)
LEMMA AreaWritten ==
    ASSUME NEW b, IsBuffer(b), NEW s \in Seq(Cells)
    PROVE  /\ Holds(Area(b, s), b, s) /\ Area(b, s).gen = grow_buffer(b, Len(s)).gen
           /\ capacity(Area(b, s)) >= capacity(b)
           /\ b.size + Len(s) <= capacity(b) => Area(b, s).gen = b.gen
  <1> DEFINE n == Len(s)
             g == grow_buffer(b, n)
             r == WriteAt(g, b.size, s)
  <1>1. n \in Nat /\ b.size \in Nat /\ capacity(b) \in Nat
    BY LenProperties, BufferParts
  <1>2. /\ IsBuffer(g) /\ g.size = b.size + n /\ g.lost = b.lost
        /\ capacity(g) >= capacity(b)
        /\ \A i \in 1..b.size : g.cells[i] = b.cells[i]
        /\ b.size + n <= capacity(b) => g.gen = b.gen
    BY <1>1, GrewBy
  <1> HIDE DEF g
  <1>4. capacity(g) \in Nat /\ g.size <= capacity(g)
    BY <1>2, BufferParts
  <1>5. b.size + Len(s) <= capacity(g)
    BY <1>1, <1>2, <1>4
  <1>6. /\ IsBuffer(r) /\ r.size = g.size /\ r.lost = g.lost /\ r.gen = g.gen
        /\ capacity(r) = capacity(g)
        /\ \A i \in 1..capacity(g) : r.cells[i] = IF i - b.size \in 1..Len(s)
                                                  THEN s[i - b.size] ELSE g.cells[i]
    BY <1>1, <1>2, <1>5, WrittenIs
  <1> HIDE DEF r
  <1>7. ASSUME NEW i \in 1..b.size PROVE r.cells[i] = b.cells[i]
    <2>1. i \in 1..capacity(g) /\ i - b.size \notin 1..Len(s)
      BY <1>1, <1>2, <1>4
    <2> QED
      BY <1>2, <1>6, <2>1
  <1>8. ASSUME NEW i \in 1..Len(s) PROVE r.cells[b.size + i] = s[i]
    <2>1. b.size + i \in 1..capacity(g) /\ (b.size + i) - b.size = i
      BY <1>1, <1>2, <1>4
    <2> QED
      BY <1>6, <2>1
  <1>9. Holds(r, b, s)
    BY <1>2, <1>6, <1>7, <1>8 DEF Holds
  <1>10. Area(b, s) = r
    BY DEF Area, r, g
  <1> QED
    BY <1>2, <1>6, <1>9, <1>10 DEF g

LEMMA Appended ==
    ASSUME NEW b, IsBuffer(b), NEW s \in Seq(Cells)
    PROVE  /\ Holds(append(b, s), b, s) /\ capacity(append(b, s)) >= capacity(b)
           /\ b.size + Len(s) <= capacity(b) => append(b, s).gen = b.gen
  <1>1. append(b, s) = Area(b, s)
    BY DEF append, Area
  <1> QED
    BY <1>1, AreaWritten

(* u is made of three parts.                                                *)
Three(u, pre, mid, post) ==
    /\ u \in Seq(Cells) /\ pre \in Seq(Cells) /\ mid \in Seq(Cells) /\ post \in Seq(Cells)
    /\ Len(pre) \in Nat /\ Len(mid) \in Nat /\ Len(post) \in Nat
    /\ Len(u) = Len(pre) + Len(mid) + Len(post)
    /\ \A i \in 1..Len(pre) : u[i] = pre[i]
    /\ \A i \in 1..Len(mid) : u[Len(pre) + i] = mid[i]
    /\ \A i \in 1..Len(post) : u[Len(pre) + Len(mid) + i] = post[i]

(* The text of three parts, place by place.                                 *)
LEMMA ThreeParts ==
    ASSUME NEW pre \in Seq(Cells), NEW mid \in Seq(Cells), NEW post \in Seq(Cells)
    PROVE  Three(pre \o mid \o post, pre, mid, post)
  <1> DEFINE x == pre \o mid
  <1>1. /\ x \in Seq(Cells) /\ Len(x) = Len(pre) + Len(mid)
        /\ \A i \in 1..Len(pre) : x[i] = pre[i]
        /\ \A i \in 1..Len(mid) : x[Len(pre) + i] = mid[i]
    BY Joined
  <1> HIDE DEF x
  <1> DEFINE u == x \o post
  <1>2. /\ u \in Seq(Cells) /\ Len(u) = Len(x) + Len(post)
        /\ \A i \in 1..Len(x) : u[i] = x[i]
        /\ \A i \in 1..Len(post) : u[Len(x) + i] = post[i]
    <2>1. x \in Seq(Cells)
      BY <1>1
    <2> QED
      BY <2>1, Joined
  <1>3. Len(pre) \in Nat /\ Len(mid) \in Nat /\ Len(post) \in Nat
    BY LenProperties
  <1> HIDE DEF u
  <1>4. ASSUME NEW i \in 1..Len(pre) PROVE u[i] = pre[i]
    <2>1. i \in 1..Len(x)
      BY <1>1, <1>3
    <2> QED
      BY <1>1, <1>2, <2>1
  <1>5. ASSUME NEW i \in 1..Len(mid) PROVE u[Len(pre) + i] = mid[i]
    <2>1. Len(pre) + i \in 1..Len(x)
      BY <1>1, <1>3
    <2> QED
      BY <1>1, <1>2, <2>1
  <1>6. ASSUME NEW i \in 1..Len(post) PROVE u[Len(pre) + Len(mid) + i] = post[i]
    BY <1>1, <1>2
  <1>7. Three(u, pre, mid, post)
    BY <1>1, <1>2, <1>3, <1>4, <1>5, <1>6 DEF Three
  <1> QED
    BY <1>7 DEF u, x

(* What is written over the middle of what was appended.                    *)
LEMMA Overwritten ==
    ASSUME NEW b, IsBuffer(b), NEW r, NEW u, NEW v, NEW pre, NEW mid, NEW s, NEW post,
           Three(u, pre, mid, post), Three(v, pre, s, post), Len(s) = Len(mid),
           Holds(r, b, u)
    PROVE  Holds(WriteAt(r, b.size + Len(pre), s), b, v)
  <1> DEFINE a == Len(pre)
             n == Len(mid)
             at == b.size + a
             w == WriteAt(r, at, s)
  <1>1. /\ u \in Seq(Cells) /\ Len(u) = a + n + Len(post)
        /\ a \in Nat /\ n \in Nat /\ Len(post) \in Nat
        /\ \A i \in 1..a : u[i] = pre[i]
        /\ \A i \in 1..Len(post) : u[a + n + i] = post[i]
    BY DEF Three
  <1>2. /\ v \in Seq(Cells) /\ Len(v) = a + n + Len(post) /\ s \in Seq(Cells)
        /\ \A i \in 1..a : v[i] = pre[i]
        /\ \A i \in 1..n : v[a + i] = s[i]
        /\ \A i \in 1..Len(post) : v[a + n + i] = post[i]
    BY DEF Three
  <1>3. Len(s) = n /\ at = b.size + a
    OBVIOUS
  <1> HIDE DEF a, n
  <1>4. /\ IsBuffer(r) /\ r.lost = b.lost /\ b.size \in Nat
        /\ r.size = b.size + Len(u) /\ r.size <= capacity(r) /\ capacity(r) \in Nat
        /\ \A i \in 1..b.size : r.cells[i] = b.cells[i]
        /\ \A i \in 1..Len(u) : r.cells[b.size + i] = u[i]
    <2>1. u \in Seq(Cells)
      BY <1>1
    <2> QED
      BY <2>1, HeldParts
  <1>5. at \in Nat /\ at + Len(s) <= capacity(r)
    BY <1>1, <1>3, <1>4
  <1> HIDE DEF at
  <1>6. /\ IsBuffer(w) /\ w.size = r.size /\ w.lost = r.lost
        /\ \A i \in 1..capacity(r) : w.cells[i] = IF i - at \in 1..Len(s)
                                                  THEN s[i - at] ELSE r.cells[i]
    <2>1. IsBuffer(r) /\ s \in Seq(Cells)
      BY <1>2, <1>4
    <2> QED
      BY <1>5, <2>1, WrittenIs
  <1> HIDE DEF w
  <1>8. ASSUME NEW i \in 1..b.size PROVE w.cells[i] = b.cells[i]
    <2>1. i \in 1..capacity(r) /\ i - at \notin 1..Len(s)
      BY <1>1, <1>3, <1>4
    <2> QED
      BY <1>4, <1>6, <2>1
  <1>9. ASSUME NEW i \in 1..Len(v) PROVE w.cells[b.size + i] = v[i]
    <2> DEFINE j == b.size + i
    <2>0. i \in 1..Len(u) /\ b.size + i = j
      BY <1>1, <1>2
    <2>1. j \in 1..capacity(r) /\ j - at = i - a /\ r.cells[j] = u[i]
      <3>1. r.cells[b.size + i] = u[i]
        BY <1>4, <2>0
      <3>2. b.size + i \in 1..capacity(r)
        BY <1>4, <2>0
      <3>3. (b.size + i) - at = i - a
        <4>1. b.size \in Nat /\ a \in Nat /\ at = b.size + a
          BY <1>1, <1>3, <1>4
        <4> QED
          BY <4>1
      <3> QED
        BY <3>1, <3>2, <3>3
    <2> HIDE DEF j
    <2>2. w.cells[j] = IF i - a \in 1..n THEN s[i - a] ELSE u[i]
      BY <1>3, <1>6, <2>1
    <2>3. CASE i <= a
      <3>1. i - a \notin 1..n /\ i \in 1..a
        BY <1>1, <2>3
      <3> QED
        BY <1>1, <1>2, <2>2, <3>1 DEF j
    <2>4. CASE i > a /\ i <= a + n
      <3> DEFINE k == i - a
      <3>1. k \in 1..n /\ a + k = i
        BY <1>1, <2>4
      <3>2. w.cells[j] = s[k]
        BY <2>2, <3>1
      <3> HIDE DEF k
      <3>3. v[i] = s[k]
        BY <1>2, <3>1
      <3> QED
        BY <3>2, <3>3 DEF j
    <2>5. CASE i > a + n
      <3> DEFINE k == i - (a + n)
      <3>1. k \in 1..Len(post) /\ a + n + k = i /\ i - a \notin 1..n
        BY <1>1, <1>2, <2>5
      <3> HIDE DEF k
      <3>2. v[i] = post[k] /\ u[i] = post[k]
        BY <1>1, <1>2, <3>1
      <3>3. w.cells[j] = u[i]
        BY <2>2, <3>1
      <3> QED
        BY <3>2, <3>3 DEF j
    <2> QED
      BY <1>1, <2>3, <2>4, <2>5
  <1>10. w.size = b.size + Len(v)
    BY <1>1, <1>2, <1>4, <1>6
  <1>11. Holds(w, b, v)
    BY <1>4, <1>6, <1>8, <1>9, <1>10 DEF Holds
  <1> QED
    BY <1>11 DEF w, at, a

(* Filling: as many cells as asked for, none if the number is negative.     *)
LEMMA FillIs ==
    ASSUME NEW c \in Cells, NEW n \in Int
    PROVE  /\ Fill(c, n) \in Seq(Cells)
           /\ Len(Fill(c, n)) = IF n < 0 THEN 0 ELSE n
           /\ n <= 0 => Fill(c, n) = <<>>
           /\ \A i \in 1..n : Fill(c, n)[i] = c
  <1> DEFINE m == IF n < 0 THEN 0 ELSE n
             f == [i \in 1..m |-> c]
  <1>1. m \in Nat /\ (n <= 0 => m = 0) /\ (n >= 0 => m = n)
    OBVIOUS
  <1>2. Fill(c, n) = f
    BY DEF Fill
  <1> HIDE DEF m
  <1>3. f \in [1..m -> Cells] /\ \A i \in 1..m : f[i] = c
    OBVIOUS
  <1> HIDE DEF f
  <1>4. f \in Seq(Cells) /\ Len(f) = m
    BY <1>1, <1>3
  <1>5. m = 0 => f = <<>>
    BY <1>4, EmptySeq
  <1>6. \A i \in 1..n : f[i] = c
    BY <1>1, <1>3
  <1> QED
    BY <1>1, <1>2, <1>4, <1>5, <1>6 DEF m

-----------------------------------------------------------------------------
(* The padding of a number, a part at a time.                               *)
Lacks(before, number, width) == width - (Len(before) + Len(number))
PaddedAs(z, before, number, align, fill, pad) ==
    /\ pad <= 0 => z = before \o number
    /\ pad > 0 /\ align = "left" => z = before \o number \o Fill(fill, pad)
    /\ pad > 0 /\ align = "numeric" => z = before \o Fill(fill, pad) \o number
    /\ pad > 0 /\ align = "center" =>
          z = Fill(fill, pad \div 2) \o before \o number \o Fill(fill, pad - (pad \div 2))
    /\ pad > 0 /\ align \notin {"left", "numeric", "center"} =>
          z = Fill(fill, pad) \o before \o number

(* Padding goes behind, before, between or on both sides.                   *)
LEMMA PaddedIs ==
    ASSUME NEW before \in Seq(Cells), NEW number \in Seq(Cells), NEW align, NEW fill,
           NEW width \in Nat
    PROVE  PaddedAs(Padded(before, number, align, fill, width), before, number, align, fill,
                    Lacks(before, number, width))
  <1>1. Len(before) \in Nat /\ Len(number) \in Nat
    BY LenProperties
  <1> DEFINE pad == Lacks(before, number, width)
  <1>2. pad \in Int /\ pad = width - (Len(before) + Len(number))
    BY <1>1 DEF Lacks
  <1>3. (pad <= 0) = ~(pad > 0)
    BY <1>2
  <1> DEFINE z == Padded(before, number, align, fill, width)
  <1>4. z = CASE pad <= 0 -> before \o number
          [] pad > 0 /\ align = "left" -> before \o number \o Fill(fill, pad)
          [] pad > 0 /\ align = "numeric" -> before \o Fill(fill, pad) \o number
          [] pad > 0 /\ align = "center" ->
                Fill(fill, pad \div 2) \o before \o number \o Fill(fill, pad - (pad \div 2))
          [] OTHER -> Fill(fill, pad) \o before \o number
    BY Zenon DEF Padded, Lacks
  <1>5. "left" # "numeric" /\ "left" # "center" /\ "numeric" # "center"
    OBVIOUS
  <1> HIDE DEF z, pad
  <1>6. pad <= 0 => z = before \o number
    BY Zenon, <1>3, <1>4
  <1>7. pad > 0 /\ align = "left" => z = before \o number \o Fill(fill, pad)
    BY Zenon, <1>3, <1>4, <1>5
  <1>8. pad > 0 /\ align = "numeric" => z = before \o Fill(fill, pad) \o number
    BY Zenon, <1>3, <1>4, <1>5
  <1>9. pad > 0 /\ align = "center" =>
           z = Fill(fill, pad \div 2) \o before \o number \o Fill(fill, pad - (pad \div 2))
    BY Zenon, <1>3, <1>4, <1>5
  <1>10. pad > 0 /\ align \notin {"left", "numeric", "center"} =>
           z = Fill(fill, pad) \o before \o number
    BY Zenon, <1>3, <1>4
  <1> QED
    BY <1>6, <1>7, <1>8, <1>9, <1>10 DEF z, pad, PaddedAs

LEMMA Half == ASSUME NEW p \in Nat PROVE p \div 2 \in 0..p /\ (p = 0 => p \div 2 = 0)
  OBVIOUS

-----------------------------------------------------------------------------
(* The area of a number, with the place of its digits.                      *)
Ready(r, b, pre, n, post) ==
    /\ Holds(r.b, b, pre \o Fill(Junk, n) \o post)
    /\ r.last = <<r.b.gen, (b.size + Len(pre) + n) - 1>>

LEMMA StepsBack ==
    ASSUME NEW s \in Nat, NEW k \in Nat, NEW n \in Nat
    PROVE  ((s + k + n) - 1) + (1 - n) = s + k
  OBVIOUS

(* Where the last digit goes.                                               *)
LEMMA EndedArea ==
    ASSUME NEW b, IsBuffer(b), NEW r, NEW n \in Nat, NEW pre \in Seq(Cells),
           NEW post \in Seq(Cells), Ready(r, b, pre, n, post),
           NEW d \in Seq(Cells), Len(d) = n
    PROVE  Holds(EndAt(r, d), b, pre \o d \o post)
  <1> DEFINE mid == Fill(Junk, n)
             u == pre \o mid \o post
             v == pre \o d \o post
             q == r.b
  <1>0. b.size \in Nat /\ Len(pre) \in Nat
    BY BufferParts, LenProperties
  <1>1. mid \in Seq(Cells) /\ Len(mid) = n
    BY FillIs, JunkType DEF JunkCells
  <1>2. Len(d) = Len(mid)
    BY <1>1
  <1> HIDE DEF mid
  <1>3. Three(u, pre, mid, post)
    BY <1>1, ThreeParts
  <1>4. Three(v, pre, d, post)
    BY ThreeParts
  <1>5. Holds(q, b, u)
    BY DEF Ready, mid
  <1>6. Moved(r.last, 1 - Len(d)) = <<q.gen, b.size + Len(pre)>>
    <2>1. r.last = <<q.gen, (b.size + Len(pre) + n) - 1>>
      BY DEF Ready
    <2> HIDE DEF q
    <2>2. r.last[1] = q.gen /\ r.last[2] = (b.size + Len(pre) + n) - 1
      BY <2>1
    <2>3. r.last[2] + (1 - Len(d)) = b.size + Len(pre)
      <3>1. ((b.size + Len(pre) + n) - 1) + (1 - n) = b.size + Len(pre)
        BY <1>0, StepsBack
      <3> QED
        BY <2>2, <3>1
    <2> QED
      BY <2>2, <2>3 DEF Moved
  <1>7. EndAt(r, d) = WriteAt(q, b.size + Len(pre), d)
    BY <1>6 DEF EndAt, WriteAt, Ptr
  <1> HIDE DEF u, v, q
  <1>8. Holds(WriteAt(q, b.size + Len(pre), d), b, v)
    BY <1>2, <1>3, <1>4, <1>5, Overwritten
  <1> QED
    BY <1>7, <1>8 DEF v

(* What is the place of the digits in the area.                             *)
Outline(pre, post, n, prefix, align, fill, width) ==
    /\ pre \in Seq(Cells) /\ post \in Seq(Cells)
    /\ \A d \in Seq(Cells) : Len(d) = n =>
          Padded(prefix, d, align, fill, width) = pre \o d \o post

(* prepare_int_buffer without a precision: the area is laid out as padded.  *)
LEMMA SizedIs ==
    ASSUME NEW b, IsBuffer(b), NEW n \in Nat, NEW spec, spec.width \in Nat, spec.fill \in Cells,
           NEW prefix \in Seq(Cells)
    PROVE  \E pre, post :
              /\ Outline(pre, post, n, prefix, spec.align, spec.fill, spec.width)
              /\ Ready(Sized(b, n, spec, prefix), b, pre, n, post)
              /\ capacity(Sized(b, n, spec, prefix).b) >= capacity(b)
              /\ Sized(b, n, spec, prefix) = [b |-> Sized(b, n, spec, prefix).b,
                                              last |-> Sized(b, n, spec, prefix).last]
  <1> DEFINE extent == Len(prefix) + n
             pad == IF spec.width <= extent THEN 0 ELSE spec.width - extent
             left == CASE spec.align = "left" -> 0
                       [] spec.align = "center" -> fill_padding(extent + pad, extent)
                       [] OTHER -> pad
             L == Fill(spec.fill, left)
             pre == IF spec.align = "numeric" THEN prefix \o L ELSE L \o prefix
             post == Fill(spec.fill, pad - left)
             area == pre \o Fill(Junk, n) \o post
             r == Sized(b, n, spec, prefix)
  <1>1. Len(prefix) \in Nat /\ extent \in Nat /\ b.size \in Nat
    BY LenProperties, BufferParts
  <1>2. pad \in Nat
    BY <1>1
  <1>3. /\ spec.align = "left" => left = 0
        /\ spec.align = "center" => left = pad \div 2
        /\ spec.align \notin {"left", "center"} => left = pad
    <2>1. fill_padding(extent + pad, extent) = pad \div 2
      <3>1. (extent + pad) - extent = pad
        BY <1>1, <1>2
      <3> QED
        BY <3>1 DEF fill_padding
    <2>2. "left" # "center"
      OBVIOUS
    <2> HIDE DEF pad, extent
    <2> QED
      BY Zenon, <2>1, <2>2
  <1>4. /\ spec.width - extent <= 0 => pad = 0
        /\ spec.width - extent > 0 => pad = spec.width - extent
        /\ spec.width - extent \in Int /\ (spec.width - extent <= 0 \/ spec.width - extent > 0)
    BY <1>1
  <1>5. r = Spread(grow_buffer(b, extent + pad), b.size, area, (left + extent) - 1)
    BY DEF Sized
  <1> HIDE DEF r, left, pad
  <1>6. left \in 0..pad
    BY <1>2, <1>3, Half
  <1>7. L \in Seq(Cells) /\ Len(L) = left /\ (left = 0 => L = <<>>)
    BY <1>6, <1>2, FillIs
  <1>8. post \in Seq(Cells) /\ Len(post) = pad - left /\ (pad - left = 0 => post = <<>>)
    <2>1. pad - left \in Int /\ pad - left >= 0
      BY <1>2, <1>6
    <2>2. \A k \in Int : /\ Fill(spec.fill, k) \in Seq(Cells)
                         /\ Len(Fill(spec.fill, k)) = IF k < 0 THEN 0 ELSE k
                         /\ k <= 0 => Fill(spec.fill, k) = <<>>
      BY FillIs
    <2> QED
      BY <2>1, <2>2
  <1>9. pre \in Seq(Cells) /\ Len(pre) = left + Len(prefix)
    <2>1. prefix \o L \in Seq(Cells) /\ Len(prefix \o L) = Len(prefix) + Len(L)
      BY <1>7, ConcatProperties
    <2>2. L \o prefix \in Seq(Cells) /\ Len(L \o prefix) = Len(L) + Len(prefix)
      BY <1>7, ConcatProperties
    <2> HIDE DEF L
    <2> QED
      BY <1>1, <1>2, <1>6, <1>7, <2>1, <2>2
  <1>10. Fill(Junk, n) \in Seq(Cells) /\ Len(Fill(Junk, n)) = n
    BY FillIs, JunkType DEF JunkCells
  <1>11. area \in Seq(Cells) /\ Len(area) = extent + pad
    <2> DEFINE mid == Fill(Junk, n)
    <2> HIDE DEF mid, pre, post
    <2>1. Three(area, pre, mid, post)
      BY <1>8, <1>9, <1>10, ThreeParts DEF mid
    <2>2. area \in Seq(Cells) /\ Len(area) = Len(pre) + Len(mid) + Len(post)
      BY <2>1 DEF Three
    <2> QED
      BY <1>1, <1>2, <1>6, <1>8, <1>9, <1>10, <2>2 DEF mid
  <1>12. /\ r.b = Area(b, area)
         /\ r.last = <<grow_buffer(b, extent + pad).gen, b.size + ((left + extent) - 1)>>
    <2>1. r.b = WriteAt(grow_buffer(b, extent + pad), b.size, area)
      BY <1>5 DEF Spread
    <2>2. r.last = Ptr(grow_buffer(b, extent + pad), b.size + ((left + extent) - 1))
      BY <1>5 DEF Spread
    <2> QED
      BY <1>11, <2>1, <2>2 DEF Area, Ptr
  <1>13. /\ Holds(r.b, b, area) /\ capacity(r.b) >= capacity(b)
         /\ r.b.gen = grow_buffer(b, extent + pad).gen
    <2> HIDE DEF area
    <2>1. area \in Seq(Cells) /\ Len(area) = extent + pad
      BY <1>11
    <2> HIDE DEF extent
    <2>2. /\ Holds(Area(b, area), b, area) /\ Area(b, area).gen = grow_buffer(b, Len(area)).gen
          /\ capacity(Area(b, area)) >= capacity(b)
      BY <2>1, AreaWritten
    <2> QED
      BY <1>12, <2>1, <2>2
  <1>14. b.size + ((left + extent) - 1) = (b.size + Len(pre) + n) - 1
    <2> HIDE DEF pre
    <2> QED
      BY <1>1, <1>2, <1>6, <1>9
  <1>15. Ready(r, b, pre, n, post)
    <2> HIDE DEF pre, post, extent
    <2> QED
      BY <1>12, <1>13, <1>14 DEF Ready
  <1>16. ASSUME NEW d \in Seq(Cells), Len(d) = n
         PROVE  Padded(prefix, d, spec.align, spec.fill, spec.width) = pre \o d \o post
    <2> DEFINE p == Lacks(prefix, d, spec.width)
               z == Padded(prefix, d, spec.align, spec.fill, spec.width)
    <2>0. p = spec.width - extent
      BY <1>16 DEF Lacks
    <2> SUFFICES z = pre \o d \o post
      OBVIOUS
    <2>1. /\ p <= 0 => z = prefix \o d
          /\ p > 0 /\ spec.align = "left" => z = prefix \o d \o Fill(spec.fill, p)
          /\ p > 0 /\ spec.align = "numeric" => z = prefix \o Fill(spec.fill, p) \o d
          /\ p > 0 /\ spec.align = "center" =>
               z = Fill(spec.fill, p \div 2) \o prefix \o d \o Fill(spec.fill, p - (p \div 2))
          /\ p > 0 /\ spec.align \notin {"left", "numeric", "center"} =>
               z = Fill(spec.fill, p) \o prefix \o d
      <3>1. PaddedAs(z, prefix, d, spec.align, spec.fill, p)
        BY PaddedIs
      <3> HIDE DEF z, p
      <3> QED
        BY <3>1 DEF PaddedAs
    <2> HIDE DEF z, p
    <2>2. /\ p <= 0 => pad = 0
          /\ p > 0 => pad = p
          /\ p <= 0 \/ p > 0
      BY <1>4, <2>0
    <2>3. /\ prefix \o d \in Seq(Cells) /\ (prefix \o d) \o <<>> = prefix \o d
          /\ prefix \o <<>> = prefix
          /\ <<>> \o prefix = prefix
      BY ConcatProperties, ConcatEmptySeq
    <2>4. CASE p <= 0
      <3>1. L = <<>> /\ post = <<>>
        BY <1>6, <1>7, <1>8, <2>2, <2>4
      <3>2. pre = prefix
        BY <2>3, <3>1
      <3> HIDE DEF pre, post
      <3> QED
        BY <2>1, <2>3, <2>4, <3>1, <3>2
    <2>5. CASE p > 0 /\ spec.align = "left"
      <3>1. left = 0 /\ pad = p /\ pad - left = p
        BY <1>2, <1>3, <2>2, <2>5
      <3>2. L = <<>>
        BY <1>7, <3>1
      <3>3. pre = prefix
        BY <2>3, <2>5, <3>2
      <3>4. post = Fill(spec.fill, p)
        BY <3>1
      <3> HIDE DEF pre, post
      <3> QED
        BY <2>1, <2>5, <3>3, <3>4
    <2>6. CASE p > 0 /\ spec.align = "numeric"
      <3>1. left = pad /\ pad = p /\ pad - left = 0
        BY <1>2, <1>3, <2>2, <2>6
      <3>2. post = <<>>
        BY <1>8, <3>1
      <3>3. pre = prefix \o Fill(spec.fill, p)
        BY <2>6, <3>1
      <3>4. pre \o d \in Seq(Cells)
        BY <1>9, ConcatProperties
      <3>5. (pre \o d) \o <<>> = pre \o d
        BY <3>4, ConcatEmptySeq
      <3> HIDE DEF pre, post
      <3> QED
        BY <2>1, <2>6, <3>2, <3>3, <3>5
    <2>7. CASE p > 0 /\ spec.align = "center"
      <3>1. left = pad \div 2 /\ pad = p
        BY <1>2, <1>3, <2>2, <2>7
      <3>2. post = Fill(spec.fill, p - (p \div 2))
        BY <3>1
      <3>3. pre = Fill(spec.fill, p \div 2) \o prefix
        BY <2>7, <3>1
      <3> HIDE DEF pre, post
      <3> QED
        BY <2>1, <2>7, <3>2, <3>3
    <2>8. CASE p > 0 /\ spec.align \notin {"left", "numeric", "center"}
      <3>1. left = pad /\ pad = p /\ pad - left = 0
        BY <1>2, <1>3, <2>2, <2>8
      <3>2. post = <<>>
        BY <1>8, <3>1
      <3>3. pre = Fill(spec.fill, p) \o prefix
        BY <2>8, <3>1
      <3>4. pre \o d \in Seq(Cells)
        BY <1>9, ConcatProperties
      <3>5. (pre \o d) \o <<>> = pre \o d
        BY <3>4, ConcatEmptySeq
      <3> HIDE DEF pre, post
      <3> QED
        BY <2>1, <2>8, <3>2, <3>3, <3>5
    <2> HIDE DEF pre, post
    <2> QED
      BY <2>2, <2>4, <2>5, <2>6, <2>7, <2>8
  <1> HIDE DEF pre, post
  <1>17. Outline(pre, post, n, prefix, spec.align, spec.fill, spec.width)
    BY <1>8, <1>9, <1>16 DEF Outline
  <1>18. r = [b |-> r.b, last |-> r.last]
    BY <1>5 DEF Spread
  <1> QED
    BY <1>13, <1>15, <1>17, <1>18 DEF r

-----------------------------------------------------------------------------
(* Lengths of what is put together.                                         *)
LEMMA LengthIs ==
    ASSUME NEW n \in Nat, NEW f, f = [i \in 1..n |-> f[i]]
    PROVE  Len(f) = n
  <1> DEFINE S == {f[i] : i \in 1..n}
  <1>1. f \in [1..n -> S]
    OBVIOUS
  <1> HIDE DEF S
  <1>2. f \in Seq(S) /\ Len(f) = n
    BY <1>1
  <1> QED
    BY <1>2

(* Whatever a pointer is worth, the buffer keeps its extent.                  *)
LEMMA KeepsSize ==
    ASSUME NEW b, IsBuffer(b), NEW p, NEW chars
    PROVE  /\ WriteTo(b, p, chars).size = b.size
           /\ capacity(WriteTo(b, p, chars)) = capacity(b)
  <1> DEFINE new == [i \in DOMAIN b.cells |-> IF i - p[2] \in 1..Len(chars)
                                              THEN chars[i - p[2]] ELSE b.cells[i]]
             n == capacity(b)
             r == WriteTo(b, p, chars)
  <1>1. /\ b.cells \in Seq(Cells) /\ n \in Nat /\ DOMAIN b.cells = 1..n
    BY BufferParts
  <1>0. b \in [cells : Seq(Cells), size : Nat, gen : Nat, lost : BOOLEAN]
    BY DEF IsBuffer
  <1>2. r = IF p[1] # b.gen THEN [b EXCEPT !.lost = TRUE] ELSE [b EXCEPT !.cells = new]
    BY DEF WriteTo
  <1>3. Len(new) = n
    <2>1. new = [i \in 1..n |-> new[i]]
      BY <1>1
    <2> HIDE DEF new, n
    <2> QED
      BY <1>1, <2>1, LengthIs
  <1> HIDE DEF new, r
  <1>4. r.size = b.size /\ (r.cells = b.cells \/ r.cells = new)
    BY <1>0, <1>2
  <1> QED
    BY <1>3, <1>4 DEF capacity, r

-----------------------------------------------------------------------------
(* Signs and prefixes.                                                      *)
SignTexts == {<<>>, <<"-">>, <<"+">>, <<Blank>>}

LEMMA SignIs ==
    ASSUME NEW negative \in BOOLEAN, NEW spec
    PROVE  SignPrefix(negative, spec) \in SignTexts
  BY Zenon DEF SignPrefix, SignTexts

LEMMA SignCells ==
    /\ SignTexts \subseteq Seq(Cells)
    /\ \A s \in SignTexts : Len(s) \in {0, 1} /\ (Len(s) = 0 <=> s = <<>>)
  <1>1. {"-", "+", Blank} \subseteq Cells
    BY DEF Cells
  <1>2. <<"-">> \in Seq(Cells) /\ Len(<<"-">>) = 1
    BY <1>1
  <1>3. <<"+">> \in Seq(Cells) /\ Len(<<"+">>) = 1
    BY <1>1
  <1>4. <<Blank>> \in Seq(Cells) /\ Len(<<Blank>>) = 1
    BY <1>1
  <1>5. <<>> \in Seq(Cells) /\ Len(<<>>) = 0
    BY EmptySeq
  <1> QED
    BY <1>2, <1>3, <1>4, <1>5 DEF SignTexts

LEMMA ZeroIs == "0" \in Cells /\ <<"0">> \in Seq(Cells) /\ \A t \in IntCodes : t # "0"
  <1>1. DIGITS[1] = "0" /\ 1 \in 1..22
    BY DEF DIGITS
  <1>2. "0" \in Cells
    BY <1>1 DEF Cells
  <1>3. \A t \in IntCodes : t # "0"
    BY DEF IntCodes
  <1> QED
    BY <1>2, <1>3

(* Blank is no other character that numbers are made of.                    *)
LEMMA BlankIs == Blank # "0" /\ Blank # "-" /\ Blank # "+"
  BY Zenon DEF Blank

(* A prefix is a sign, with the mark of its base where it is asked for.     *)
LEMMA PrefixIs ==
    ASSUME NEW spec, spec.type \in IntCodes
    PROVE  /\ HashPrefix(spec) = Prefix(spec) /\ Prefix(spec) \in Seq(Cells)
           /\ Prefix(spec) \in {<<>>, <<"0">>, <<"0", spec.type>>}
           /\ spec.type = "o" => Prefix(spec) \in {<<>>, <<"0">>}
           /\ spec.type # "o" => Prefix(spec) \in {<<>>, <<"0", spec.type>>}
  <1>1. spec.type \in {"", "d", "n"} \/ spec.type = "o" \/ spec.type \in {"x", "X", "b", "B"}
    BY DEF IntCodes
  <1>2. /\ spec.type \in {"", "d", "n"} => spec.type \notin {"x", "X", "b", "B"} /\ spec.type # "o"
        /\ spec.type = "o" => /\ spec.type \notin {"x", "X", "b", "B"}
                              /\ spec.type \notin {"", "d", "n"}
        /\ spec.type \in {"x", "X", "b", "B"} => spec.type \notin {"", "d", "n"} /\ spec.type # "o"
    OBVIOUS
  <1> DEFINE h == "hash" \in spec.flags
  <1>3. Prefix(spec) = CASE ~h -> <<>>
                         [] h /\ spec.type \in {"x", "X", "b", "B"} -> <<"0", spec.type>>
                         [] h /\ spec.type = "o" -> <<"0">>
                         [] OTHER -> <<>>
    BY Zenon DEF Prefix
  <1>4. HashPrefix(spec) = CASE ~h \/ spec.type \in {"", "d", "n"} -> <<>>
                             [] h /\ spec.type = "o" -> <<"0">>
                             [] OTHER -> <<"0", spec.type>>
    BY Zenon DEF HashPrefix
  <1> HIDE DEF h
  <1>5. CASE ~h
    <2>1. Prefix(spec) = <<>>
      BY Zenon, <1>3, <1>5
    <2>2. HashPrefix(spec) = <<>>
      BY Zenon, <1>4, <1>5
    <2> QED
      BY <2>1, <2>2, EmptySeq
  <1>6. CASE h /\ spec.type \in {"", "d", "n"}
    <2>1. Prefix(spec) = <<>>
      BY Zenon, <1>2, <1>3, <1>6
    <2>2. HashPrefix(spec) = <<>>
      BY Zenon, <1>4, <1>6
    <2> QED
      BY <2>1, <2>2, EmptySeq
  <1>7. CASE h /\ spec.type = "o"
    <2>1. Prefix(spec) = <<"0">>
      BY Zenon, <1>2, <1>3, <1>7
    <2>2. HashPrefix(spec) = <<"0">>
      BY Zenon, <1>2, <1>4, <1>7
    <2> QED
      BY <1>7, <2>1, <2>2, ZeroIs
  <1>8. CASE h /\ spec.type \in {"x", "X", "b", "B"}
    <2>1. Prefix(spec) = <<"0", spec.type>>
      BY Zenon, <1>2, <1>3, <1>8
    <2>2. HashPrefix(spec) = <<"0", spec.type>>
      BY Zenon, <1>2, <1>4, <1>8
    <2>3. spec.type \in Cells
      BY DEF Cells
    <2>4. <<"0", spec.type>> \in Seq(Cells)
      BY <2>3, ZeroIs
    <2>5. spec.type # "o"
      BY <1>2, <1>8
    <2> QED
      BY <2>1, <2>2, <2>4, <2>5
  <1> QED
    BY <1>1, <1>5, <1>6, <1>7, <1>8

(* Behind a sign only the prefix of an octal number ends with a zero.       *)
Bared(prefix) == IF prefix # <<>> /\ Last(prefix) = "0" THEN Front(prefix) ELSE prefix

LEMMA LastAdded ==
    ASSUME NEW s \in Seq(Cells), NEW c \in Cells
    PROVE  /\ s \o <<c>> # <<>> /\ Last(s \o <<c>>) = c /\ Front(s \o <<c>>) = s
  <1> DEFINE t == s \o <<c>>
             f == SubSeq(t, 1, Len(t) - 1)
  <1>1. /\ t \in Seq(Cells) /\ Len(s) \in Nat /\ Len(t) = Len(s) + 1
        /\ \A i \in 1..Len(s) : t[i] = s[i]
        /\ t[Len(s) + 1] = c
    BY AppendCell
  <1> HIDE DEF t
  <1>2. t # <<>>
    BY <1>1, EmptySeq
  <1>3. Last(t) = c
    BY <1>1 DEF Last
  <1>4. Len(t) - 1 = Len(s)
    BY <1>1
  <1>5. f \in Seq(Cells) /\ Len(f) = Len(s) /\ \A i \in 1..Len(s) : f[i] = s[i]
    <2>1. \A i \in 1..Len(s) : t[i] \in Cells
      BY <1>1, ElementOfSeq
    <2> DEFINE n == Len(s)
               g == SubSeq(t, 1, n)
    <2>2. n \in Int /\ 1 \in Int /\ (1 <= n => (n - 1) + 1 = n) /\ (~(1 <= n) => n = 0)
      BY <1>1
    <2>3. \A i \in 1..n : t[i] \in Cells
      BY <2>1
    <2> HIDE DEF n
    <2>4. /\ g \in Seq(Cells) /\ Len(g) = IF 1 <= n THEN (n - 1) + 1 ELSE 0
          /\ \A i \in 1..((n - 1) + 1) : g[i] = t[(1 + i) - 1]
      BY <2>2, <2>3, SubSeqProperties
    <2>5. Len(g) = n
      BY <2>2, <2>4
    <2>6. \A i \in 1..n : g[i] = t[i]
      BY <2>2, <2>4
    <2> HIDE DEF g
    <2>7. f = g
      BY <1>4 DEF g, n
    <2> QED
      BY <1>1, <2>4, <2>5, <2>6, <2>7 DEF n
  <1> HIDE DEF f
  <1>6. f = s
    BY <1>5, SeqEqual
  <1>7. Front(t) = f
    BY DEF Front, f
  <1> QED
    BY <1>2, <1>3, <1>6, <1>7 DEF t

(* The prefix is bared of its zero, the digits have one.                    *)
LEMMA BaredIs ==
    ASSUME NEW spec, spec.type \in IntCodes, NEW sign \in SignTexts
    PROVE  Bared(sign \o HashPrefix(spec))
             = sign \o (IF spec.type = "o" THEN <<>> ELSE Prefix(spec))
  <1> DEFINE h == HashPrefix(spec)
             z == "0"
             t == spec.type
  <1>0. sign \in Seq(Cells) /\ sign \o <<>> = sign /\ <<>> \o sign = sign
    BY SignCells, ConcatEmptySeq
  <1>1. h = Prefix(spec) /\ (spec.type = "o" => h \in {<<>>, <<z>>})
        /\ (spec.type # "o" => h \in {<<>>, <<z, t>>}) /\ z \in Cells /\ t # z /\ t \in Cells
    BY PrefixIs, ZeroIs DEF Cells
  <1> HIDE DEF h
  <1>2. CASE h = <<>>
    <2>1. Bared(sign) = sign
      <3>1. sign = <<>> \/ Last(sign) \in {"-", "+", Blank}
        BY DEF SignTexts, Last
      <3>2. z \notin {"-", "+", Blank}
        BY BlankIs
      <3> HIDE DEF z
      <3> QED
        BY <3>1, <3>2 DEF Bared, z
    <2> QED
      BY <1>0, <1>1, <1>2, <2>1 DEF h
  <1>3. CASE spec.type = "o" /\ h = <<z>>
    <2>1. sign \o <<z>> # <<>> /\ Last(sign \o <<z>>) = z /\ Front(sign \o <<z>>) = sign
      BY <1>0, <1>1, LastAdded
    <2>2. Bared(sign \o h) = sign
      BY <1>3, <2>1 DEF Bared
    <2> QED
      BY <1>0, <1>3, <2>2 DEF h
  <1>4. CASE spec.type # "o" /\ h = <<z, t>>
    <2>1. <<z>> \in Seq(Cells) /\ <<t>> \in Seq(Cells) /\ <<z, t>> = <<z>> \o <<t>>
      BY <1>1
    <2>2. sign \o (<<z>> \o <<t>>) = (sign \o <<z>>) \o <<t>> /\ sign \o <<z>> \in Seq(Cells)
      BY <1>0, <2>1, ConcatAssociative, ConcatProperties
    <2> DEFINE s == sign \o <<z>>
    <2>3. s \in Seq(Cells) /\ sign \o h = s \o <<t>>
      BY <1>4, <2>1, <2>2
    <2> HIDE DEF s
    <2>4. Last(s \o <<t>>) = t
      BY <1>1, <2>3, LastAdded
    <2>5. Bared(sign \o h) = sign \o h
      BY <1>1, <2>3, <2>4 DEF Bared
    <2> QED
      BY <1>1, <1>4, <2>5 DEF h
  <1> QED
    BY <1>1, <1>2, <1>3, <1>4

(* To put texts together in either order.                                   *)
LEMMA RegroupCells ==
    ASSUME NEW x \in Seq(Cells), NEW y \in Seq(Cells), NEW z \in Seq(Cells)
    PROVE  (x \o y) \o z = x \o (y \o z)
  BY ConcatAssociative

(* The digits go to their place in an area that is as wide as counted.      *)
LEMMA PlainNumber ==
    ASSUME NEW b, IsBuffer(b), NEW spec, spec.width \in Nat, spec.fill \in Cells,
           NEW prefix \in Seq(Cells), NEW d \in Seq(Cells)
    PROVE  Holds(EndAt(Sized(b, Len(d), spec, prefix), d), b,
                 Padded(prefix, d, spec.align, spec.fill, spec.width))
  <1> DEFINE n == Len(d)
             r == Sized(b, n, spec, prefix)
  <1>1. n \in Nat
    BY LenProperties
  <1>2. PICK pre, post : /\ Outline(pre, post, n, prefix, spec.align, spec.fill, spec.width)
                         /\ Ready(r, b, pre, n, post)
    <2> HIDE DEF n
    <2> QED
      BY <1>1, SizedIs
  <1> HIDE DEF r
  <1>3. pre \in Seq(Cells) /\ post \in Seq(Cells)
        /\ Padded(prefix, d, spec.align, spec.fill, spec.width) = pre \o d \o post
    BY <1>2 DEF Outline
  <1>4. Holds(EndAt(r, d), b, pre \o d \o post)
    BY <1>1, <1>2, <1>3, EndedArea
  <1> QED
    BY <1>3, <1>4 DEF r

-----------------------------------------------------------------------------
(* A number with a precision.                                               *)
Padding(p, spec) == Fill(spec.fill, spec.width - (Len(p) + spec.precision))
PadBefore(p, spec) == IF spec.align = "left" THEN <<>> ELSE Padding(p, spec)
PadAfter(p, spec) == IF spec.align = "left" THEN Padding(p, spec) ELSE <<>>
Room(b, p, spec) == IF Len(p) + spec.precision < spec.width THEN reserve(b, spec.width) ELSE b
ZeroFilled(d, spec) == Fill("0", spec.precision - Len(d)) \o d
ZeroSpec(p, spec) == AlignSpec(Len(p) + spec.precision, "0", "numeric")
OwnArea(b, p, d, spec) ==
    Sized(append(Room(b, p, spec), PadBefore(p, spec)), Len(d), ZeroSpec(p, spec), p)

LEMMA PaddingType ==
    ASSUME NEW spec, spec.width \in Nat, spec.fill \in Cells, spec.precision \in Nat,
           NEW p \in Seq(Cells)
    PROVE  /\ Padding(p, spec) \in Seq(Cells) /\ PadBefore(p, spec) \in Seq(Cells)
           /\ PadAfter(p, spec) \in Seq(Cells)
           /\ spec.width - (Len(p) + spec.precision) <= 0 => Padding(p, spec) = <<>>
           /\ spec.width - (Len(p) + spec.precision) > 0 =>
                Len(Padding(p, spec)) = spec.width - (Len(p) + spec.precision)
  <1> DEFINE k == spec.width - (Len(p) + spec.precision)
  <1>1. k \in Int
    BY LenProperties
  <1>2. Padding(p, spec) = Fill(spec.fill, k)
    BY DEF Padding
  <1> HIDE DEF k
  <1>3. /\ Fill(spec.fill, k) \in Seq(Cells) /\ (k <= 0 => Fill(spec.fill, k) = <<>>)
        /\ (k > 0 => Len(Fill(spec.fill, k)) = k)
    BY <1>1, FillIs
  <1> QED
    BY <1>2, <1>3, EmptySeq DEF PadBefore, PadAfter, k

LEMMA RoomIs ==
    ASSUME NEW b, IsBuffer(b), NEW spec, spec.width \in Nat, NEW p
    PROVE  /\ Holds(Room(b, p, spec), b, <<>>) /\ capacity(Room(b, p, spec)) >= capacity(b)
           /\ IsBuffer(Room(b, p, spec)) /\ Room(b, p, spec).size = b.size
  <1>1. Holds(reserve(b, spec.width), b, <<>>) /\ capacity(reserve(b, spec.width)) >= capacity(b)
        /\ IsBuffer(reserve(b, spec.width)) /\ reserve(b, spec.width).size = b.size
    BY HeldReserved, ReservedIs
  <1>2. Holds(b, b, <<>>) /\ capacity(b) >= capacity(b)
    <2>1. capacity(b) \in Nat
      BY BufferParts
    <2> QED
      BY <2>1, HeldNothing
  <1> QED
    BY <1>1, <1>2 DEF Room

LEMMA Leading ==
    ASSUME NEW b, IsBuffer(b), NEW spec, spec.width \in Nat, NEW p, NEW s \in Seq(Cells)
    PROVE  /\ Holds(append(Room(b, p, spec), s), b, s)
           /\ capacity(append(Room(b, p, spec), s)) >= capacity(b)
           /\ IsBuffer(append(Room(b, p, spec), s))
           /\ append(Room(b, p, spec), s).size = b.size + Len(s)
  <1> DEFINE m == Room(b, p, spec)
             r == append(m, s)
  <1>1. Holds(m, b, <<>>) /\ capacity(m) >= capacity(b) /\ IsBuffer(m) /\ m.size = b.size
    BY RoomIs
  <1> HIDE DEF m
  <1>2. Holds(r, m, s) /\ capacity(r) >= capacity(m)
    BY <1>1, Appended
  <1> HIDE DEF r
  <1>3. Holds(r, b, <<>> \o s)
    BY <1>1, <1>2, EmptySeq, HeldJoined
  <1>4. <<>> \o s = s
    BY ConcatEmptySeq
  <1>5. IsBuffer(r) /\ r.size = m.size + Len(s)
    BY <1>2 DEF Holds
  <1>6. capacity(r) \in Nat /\ capacity(m) \in Nat /\ capacity(b) \in Nat
    BY <1>1, <1>5, BufferParts
  <1>7. capacity(r) >= capacity(b)
    BY <1>1, <1>2, <1>6
  <1> QED
    BY <1>1, <1>3, <1>4, <1>5, <1>7 DEF r, m

LEMMA ZeroPadded ==
    ASSUME NEW spec, spec.precision \in Nat, NEW p \in Seq(Cells), NEW d \in Seq(Cells),
           Len(d) < spec.precision
    PROVE  /\ Padded(p, d, "numeric", "0", Len(p) + spec.precision) = p \o ZeroFilled(d, spec)
           /\ ZeroFilled(d, spec) \in Seq(Cells) /\ Len(ZeroFilled(d, spec)) = spec.precision
           /\ p \o ZeroFilled(d, spec) \in Seq(Cells)
           /\ Len(p \o ZeroFilled(d, spec)) = Len(p) + spec.precision
  <1> DEFINE k == spec.precision - Len(d)
             w == Len(p) + spec.precision
             z == "0"
             F == Fill(z, k)
             x == Padded(p, d, "numeric", z, w)
  <1>1. Len(p) \in Nat /\ Len(d) \in Nat /\ k \in Nat /\ k > 0 /\ w \in Nat /\ k \in Int
    BY LenProperties
  <1>2. Lacks(p, d, w) = k
    BY <1>1 DEF Lacks
  <1>3. PaddedAs(x, p, d, "numeric", z, k)
    <2>1. PaddedAs(x, p, d, "numeric", z, Lacks(p, d, w))
      <3> HIDE DEF w, z
      <3> QED
        BY <1>1, PaddedIs
    <2> QED
      BY <1>2, <2>1
  <1> HIDE DEF x, k
  <1>4. x = p \o F \o d
    BY <1>1, <1>3 DEF PaddedAs
  <1>5. z \in Cells
    BY ZeroIs
  <1>6. F \in Seq(Cells) /\ Len(F) = k
    <2> HIDE DEF z
    <2> QED
      BY <1>1, <1>5, FillIs
  <1> HIDE DEF F, z
  <1>7. F \o d \in Seq(Cells) /\ Len(F \o d) = Len(F) + Len(d)
    BY <1>6, ConcatProperties
  <1>8. (p \o F) \o d = p \o (F \o d)
    BY <1>6, ConcatAssociative
  <1>9. ZeroFilled(d, spec) = F \o d
    BY DEF ZeroFilled, F, k, z
  <1> DEFINE y == ZeroFilled(d, spec)
  <1>10. y \in Seq(Cells) /\ Len(y) = spec.precision
    <2>1. k + Len(d) = spec.precision
      BY <1>1 DEF k
    <2> QED
      BY <1>6, <1>7, <1>9, <2>1
  <1> HIDE DEF y
  <1>11. p \o y \in Seq(Cells) /\ Len(p \o y) = Len(p) + Len(y)
    BY <1>10, ConcatProperties
  <1>12. x = p \o y
    BY <1>4, <1>8, <1>9 DEF y
  <1> QED
    BY <1>10, <1>11, <1>12 DEF x, y, w, z

LEMMA ZeroSpecIs ==
    ASSUME NEW p, NEW spec
    PROVE  /\ ZeroSpec(p, spec).width = Len(p) + spec.precision /\ ZeroSpec(p, spec).fill = "0"
           /\ ZeroSpec(p, spec).align = "numeric"
  BY DEF ZeroSpec, AlignSpec, FormatSpec

(* The area with the trailing padding, when the buffer need not grow for it. *)
LEMMA PreciseNumber ==
    ASSUME NEW b, IsBuffer(b), NEW spec, spec.width \in Nat, spec.fill \in Cells,
           spec.precision \in Nat, NEW p \in Seq(Cells), NEW d \in Seq(Cells),
           Len(d) < spec.precision,
           spec.align = "left" => b.size + spec.width <= capacity(b)
    PROVE  Holds(EndAt(Trailed(OwnArea(b, p, d, spec), PadAfter(p, spec)), d), b,
                 PadBefore(p, spec) \o ((p \o ZeroFilled(d, spec)) \o PadAfter(p, spec)))
  <1> DEFINE n == Len(d)
             zs == ZeroSpec(p, spec)
             B == PadBefore(p, spec)
             A == PadAfter(p, spec)
             q == append(Room(b, p, spec), B)
             S == Sized(q, n, zs, p)
             w == Len(p) + spec.precision
             N == p \o ZeroFilled(d, spec)
             T == Trailed(S, A)
  <1>1. n \in Nat /\ Len(p) \in Nat /\ w \in Nat
    BY LenProperties
  <1>2. A \in Seq(Cells) /\ B \in Seq(Cells) /\ Len(A) \in Nat
    BY PaddingType, LenProperties
  <1>3. N \in Seq(Cells) /\ Len(N) = w /\ Padded(p, d, "numeric", "0", w) = N
    BY ZeroPadded
  <1>4. zs.width = w /\ zs.fill = "0" /\ zs.align = "numeric" /\ "0" \in Cells
    BY ZeroSpecIs, ZeroIs
  <1>5. b.size \in Nat /\ capacity(b) \in Nat
    BY BufferParts
  <1>6. \/ A = <<>>
        \/ spec.align = "left" /\ B = <<>> /\ Len(A) = spec.width - w
    <2>1. CASE spec.width - w <= 0
      BY <2>1, PaddingType DEF PadAfter
    <2>2. CASE spec.width - w > 0
      BY <2>2, PaddingType DEF PadAfter, PadBefore
    <2> QED
      BY <1>1, <2>1, <2>2
  <1>7. OwnArea(b, p, d, spec) = S
    BY DEF OwnArea
  <1> HIDE DEF A, B, N, zs, n, w
  <1>8. Holds(q, b, B) /\ capacity(q) >= capacity(b) /\ IsBuffer(q) /\ q.size = b.size + Len(B)
    BY <1>2, Leading
  <1> HIDE DEF q
  <1>9. PICK pre, post : /\ Outline(pre, post, n, p, zs.align, zs.fill, zs.width)
                         /\ Ready(S, q, pre, n, post)
                         /\ capacity(S.b) >= capacity(q)
                         /\ S = [b |-> S.b, last |-> S.last]
    <2>1. zs.width \in Nat /\ zs.fill \in Cells
      BY <1>1, <1>4
    <2> QED
      BY <1>1, <1>8, <2>1, SizedIs
  <1> HIDE DEF S
  <1>10. pre \in Seq(Cells) /\ post \in Seq(Cells) /\ N = pre \o d \o post
    <2>1. /\ Padded(p, d, zs.align, zs.fill, zs.width) = pre \o d \o post /\ pre \in Seq(Cells)
          /\ post \in Seq(Cells)
      BY <1>9 DEF Outline, n
    <2> QED
      BY <1>3, <1>4, <2>1
  <1>11. T.b = append(S.b, A) /\ T.last = S.last
    BY <1>9 DEF Trailed
  <1> HIDE DEF T
  <1> DEFINE J == Fill(Junk, n)
             u == pre \o J \o post
  <1>12. J \in Seq(Cells) /\ Len(J) = n
    BY <1>1, FillIs, JunkType DEF JunkCells
  <1> HIDE DEF J
  <1>13. u \in Seq(Cells) /\ Len(u) = w /\ Len(pre) \in Nat
    <2>1. Three(u, pre, J, post)
      BY <1>10, <1>12, ThreeParts
    <2>2. Three(pre \o d \o post, pre, d, post)
      BY <1>10, ThreeParts
    <2>3. Three(N, pre, d, post)
      BY <1>10, <2>2
    <2> HIDE DEF u
    <2>4. Len(u) = Len(pre) + Len(J) + Len(post) /\ Len(N) = Len(pre) + Len(d) + Len(post)
          /\ u \in Seq(Cells) /\ Len(pre) \in Nat
      BY <2>1, <2>3 DEF Three
    <2> QED
      BY <1>3, <1>12, <2>4 DEF n
  <1>14. Holds(S.b, q, u) /\ S.last = <<S.b.gen, (q.size + Len(pre) + n) - 1>>
    BY <1>9 DEF Ready, J
  <1> HIDE DEF u
  <1>15. IsBuffer(S.b) /\ S.b.size = q.size + w /\ capacity(S.b) \in Nat /\ S.b.size \in Nat
         /\ S.b.size <= capacity(S.b) /\ capacity(q) \in Nat
    <2>1. IsBuffer(S.b) /\ S.b.size = q.size + w
      BY <1>13, <1>14 DEF Holds
    <2> QED
      BY <1>8, <2>1, BufferParts
  <1>16. S.b.size + Len(A) <= capacity(S.b)
    <2>1. CASE A = <<>>
      <3>1. Len(A) = 0
        BY <2>1, EmptySeq
      <3> QED
        BY <1>15, <3>1
    <2>2. CASE spec.align = "left" /\ B = <<>> /\ Len(A) = spec.width - w
      <3>1. Len(B) = 0
        BY <2>2, EmptySeq
      <3>2. S.b.size + Len(A) = b.size + spec.width
        <4>1. S.b.size = q.size + w /\ q.size = b.size + Len(B) /\ Len(A) = spec.width - w
          BY <1>8, <1>15, <2>2
        <4>2. S.b.size = b.size + w
          BY <1>5, <3>1, <4>1
        <4> QED
          BY <1>1, <1>5, <4>1, <4>2
      <3> QED
        BY <1>5, <1>8, <1>9, <1>15, <2>2, <3>2
    <2> QED
      BY <1>6, <2>1, <2>2
  <1>17. Holds(T.b, S.b, A) /\ T.b.gen = S.b.gen
    BY <1>2, <1>11, <1>15, <1>16, Appended
  <1>18. Holds(T.b, q, u \o A)
    BY <1>2, <1>8, <1>13, <1>14, <1>17, HeldJoined
  <1>19. u \o A = pre \o J \o (post \o A) /\ (pre \o d \o post) \o A = pre \o d \o (post \o A)
    <2>1. pre \o J \in Seq(Cells) /\ pre \o d \in Seq(Cells)
      BY <1>10, <1>12, ConcatProperties
    <2> DEFINE x == pre \o J
               y == pre \o d
    <2>2. x \in Seq(Cells) /\ y \in Seq(Cells)
      BY <2>1
    <2>3. post \in Seq(Cells) /\ A \in Seq(Cells)
      BY <1>2, <1>10
    <2> HIDE DEF x, y
    <2>4. \A c \in Seq(Cells) : (c \o post) \o A = c \o (post \o A)
      <3>1. A \in Seq(Cells)
        BY <2>3
      <3>2. post \in Seq(Cells)
        BY <2>3
      <3> QED
        BY <3>1, <3>2, RegroupCells
    <2>5. (x \o post) \o A = x \o (post \o A) /\ (y \o post) \o A = y \o (post \o A)
      BY <2>2, <2>4
    <2> QED
      BY <2>5 DEF u, x, y
  <1> DEFINE tail == post \o A
  <1>20. tail \in Seq(Cells)
    BY <1>2, <1>10, ConcatProperties
  <1> HIDE DEF tail
  <1>21. Ready(T, q, pre, n, tail)
    <2>1. Holds(T.b, q, pre \o J \o tail)
      BY <1>18, <1>19 DEF tail
    <2>2. T.last = <<T.b.gen, (q.size + Len(pre) + n) - 1>>
      BY <1>11, <1>14, <1>17
    <2> QED
      BY <2>1, <2>2 DEF Ready, J
  <1>22. Holds(EndAt(T, d), q, pre \o d \o tail)
    <2>1. Len(d) = n
      BY DEF n
    <2> QED
      BY <1>1, <1>8, <1>10, <1>20, <1>21, <2>1, EndedArea
  <1>23. pre \o d \o tail = N \o A
    BY <1>10, <1>19 DEF tail
  <1> DEFINE M == N \o A
             E == EndAt(T, d)
  <1>24. M \in Seq(Cells) /\ Holds(E, q, M)
    BY <1>2, <1>3, <1>22, <1>23, ConcatProperties
  <1> HIDE DEF M, E
  <1>25. Holds(E, b, B \o M)
    BY <1>2, <1>8, <1>24, HeldJoined
  <1> QED
    BY <1>7, <1>25 DEF E, T, M, N, A, B

(* The specification of an integer.                                         *)
IsIntSpec(spec) == /\ spec.width \in Nat /\ spec.fill \in Cells /\ spec.type \in IntCodes
                   /\ spec.precision \in {-1} \cup Nat

(* A magnitude is written whole, unless its digits come too late.           *)
LEMMA MagnitudeWritten ==
    ASSUME NEW b, IsBuffer(b), NEW spec, IsIntSpec(spec), NEW sign \in SignTexts,
           NEW d \in Seq(Cells),
           \/ spec.precision <= Len(d)
           \/ spec.align # "left" \/ b.size + spec.width <= capacity(b)
    PROVE  Holds(EndAt(prepare_int_buffer(b, Len(d), spec, sign \o HashPrefix(spec)), d), b,
                 IF spec.precision <= Len(d)
                 THEN Padded(sign \o Prefix(spec), d, spec.align, spec.fill, spec.width)
                 ELSE Padded(sign \o (IF spec.type = "o" THEN <<>> ELSE Prefix(spec)),
                             ZeroFilled(d, spec), IF spec.align = "left" THEN "left" ELSE "right",
                             spec.fill, spec.width))
  <1> DEFINE n == Len(d)
             h == HashPrefix(spec)
             prefix == sign \o h
             r == prepare_int_buffer(b, n, spec, prefix)
  <1>0. /\ spec.width \in Nat /\ spec.fill \in Cells /\ spec.type \in IntCodes
        /\ spec.precision \in {-1} \cup Nat /\ sign \in Seq(Cells) /\ n \in Nat
    BY SignCells, LenProperties DEF IsIntSpec
  <1>1. h = Prefix(spec) /\ h \in Seq(Cells)
    BY <1>0, PrefixIs
  <1>2. CASE spec.precision <= n
    <2>1. prefix = sign \o Prefix(spec) /\ prefix \in Seq(Cells)
      BY <1>0, <1>1, ConcatProperties
    <2> HIDE DEF prefix
    <2>2. r = Sized(b, n, spec, prefix)
      BY <1>2 DEF prepare_int_buffer
    <2>3. Holds(EndAt(r, d), b, Padded(prefix, d, spec.align, spec.fill, spec.width))
      BY <1>0, <2>1, <2>2, PlainNumber
    <2> HIDE DEF r
    <2> QED
      BY <1>2, <2>1, <2>3 DEF r, prefix
  <1>3. CASE ~(spec.precision <= n)
    <2> DEFINE p == Bared(prefix)
               p0 == sign \o (IF spec.type = "o" THEN <<>> ELSE Prefix(spec))
               Z == ZeroFilled(d, spec)
               A == PadAfter(p, spec)
               B == PadBefore(p, spec)
               al == IF spec.align = "left" THEN "left" ELSE "right"
               x == Padded(p, Z, al, spec.fill, spec.width)
               k == Lacks(p, Z, spec.width)
    <2>1. spec.precision \in Nat /\ n < spec.precision
      BY <1>0, <1>3
    <2>2. p = p0
      BY <1>0, BaredIs
    <2>3. p \in Seq(Cells)
      <3>1. Prefix(spec) \in Seq(Cells) /\ <<>> \in Seq(Cells)
        BY <1>1, EmptySeq
      <3>2. p0 \in Seq(Cells)
        BY <1>0, <3>1, ConcatProperties
      <3> QED
        BY <2>2, <3>2
    <2>4. r = Trailed(OwnArea(b, p, d, spec), A)
      BY <1>3 DEF prepare_int_buffer, Bared, OwnArea, PadAfter, PadBefore, Padding, Room,
         ZeroSpec
    <2> HIDE DEF p, p0, prefix, r
    <2>5. spec.align = "left" => b.size + spec.width <= capacity(b)
      BY <1>3
    <2>6. Holds(EndAt(r, d), b, B \o ((p \o Z) \o A))
      BY <1>0, <2>1, <2>3, <2>4, <2>5, PreciseNumber
    <2>7. Z \in Seq(Cells) /\ Len(Z) = spec.precision /\ p \o Z \in Seq(Cells)
      BY <2>1, <2>3, ZeroPadded
    <2>8. k = spec.width - (Len(p) + spec.precision) /\ k \in Int
      <3>1. Len(p) \in Nat
        BY <2>3, LenProperties
      <3> HIDE DEF Z
      <3> QED
        BY <1>0, <2>1, <2>7, <3>1 DEF Lacks
    <2>9. PaddedAs(x, p, Z, al, spec.fill, k)
      <3> HIDE DEF Z, al
      <3> QED
        BY <1>0, <2>3, <2>7, PaddedIs
    <2> DEFINE N == p \o Z
    <2>10. Padding(p, spec) = Fill(spec.fill, k)
      BY <2>8 DEF Padding
    <2> HIDE DEF k, Z
    <2>11. /\ Fill(spec.fill, k) \in Seq(Cells) /\ (k <= 0 => Fill(spec.fill, k) = <<>>)
           /\ A \in Seq(Cells) /\ B \in Seq(Cells)
      BY <1>0, <2>1, <2>3, <2>8, FillIs, PaddingType
    <2>12. /\ <<>> \o N = N /\ N \o <<>> = N /\ N \in Seq(Cells)
      <3>1. N \in Seq(Cells)
        BY <2>7 DEF Z
      <3> HIDE DEF N
      <3> QED
        BY <3>1, ConcatEmptySeq
    <2> DEFINE F == Fill(spec.fill, k)
    <2>13. <<>> \o (N \o F) = N \o F /\ F \o N = (F \o p) \o Z
      <3> HIDE DEF F
      <3>1. F \in Seq(Cells) /\ Z \in Seq(Cells)
        BY <2>7, <2>11 DEF F, Z
      <3>2. (F \o p) \o Z = F \o (p \o Z)
        BY <2>3, <3>1, ConcatAssociative
      <3> DEFINE NF == N \o F
      <3>3. NF \in Seq(Cells)
        BY <2>12, <3>1, ConcatProperties
      <3> HIDE DEF NF
      <3>4. <<>> \o NF = NF
        BY <3>3, ConcatEmptySeq
      <3> QED
        BY <3>2, <3>4 DEF NF
    <2> HIDE DEF x, al
    <2>14. B \o (N \o A) = x
      <3>1. CASE k <= 0
        <4>1. A = <<>> /\ B = <<>>
          BY <2>10, <2>11, <3>1 DEF PadAfter, PadBefore
        <4>2. x = N
          BY <2>9, <3>1 DEF PaddedAs
        <4> HIDE DEF A, B, N
        <4> QED
          BY <2>12, <4>1, <4>2
      <3>2. CASE k > 0 /\ spec.align = "left"
        <4>1. A = F /\ B = <<>>
          BY <2>10, <3>2 DEF PadAfter, PadBefore
        <4>2. al = "left"
          BY <3>2 DEF al
        <4>3. x = N \o F
          BY <2>9, <3>2, <4>2 DEF PaddedAs
        <4> HIDE DEF A, B, N, F
        <4> QED
          BY <2>13, <4>1, <4>3
      <3>3. CASE k > 0 /\ spec.align # "left"
        <4>1. A = <<>> /\ B = F
          BY <2>10, <3>3 DEF PadAfter, PadBefore
        <4>2. al = "right" /\ al \notin {"left", "numeric", "center"}
          BY <3>3 DEF al
        <4>3. x = F \o p \o Z
          BY <2>9, <3>3, <4>2 DEF PaddedAs
        <4> HIDE DEF A, B, N, F
        <4> QED
          BY <2>12, <2>13, <4>1, <4>3
      <3>4. k <= 0 \/ (k > 0 /\ spec.align = "left") \/ (k > 0 /\ spec.align # "left")
        <4> HIDE DEF k
        <4> QED
          BY <2>8
      <3> QED
        BY <3>1, <3>2, <3>3, <3>4, Zenon
    <2> HIDE DEF A, B, N
    <2>15. Holds(EndAt(r, d), b, x)
      BY <2>6, <2>14 DEF N
    <2>16. x = Padded(p0, ZeroFilled(d, spec), IF spec.align = "left" THEN "left" ELSE "right",
                      spec.fill, spec.width)
      BY <2>2 DEF x, Z, al
    <2> QED
      BY <1>3, <2>15, <2>16 DEF r, prefix, p0
  <1> QED
    BY <1>2, <1>3

(* An integer is laid out as IntLayout says.                                *)
LEMMA IntWritten ==
    ASSUME NEW b, IsBuffer(b), NEW code \in IntTypes, NEW value \in Int,
           -Power(2, BitsOf(code) - 1) <= value, value < Power(2, BitsOf(code)),
           NEW spec, IsIntSpec(spec), NEW sep \in Seq(Cells), ~DigitsLate(b, value, spec, sep)
    PROVE  Holds(write_int(b, [type |-> code, value |-> value], spec, sep), b,
                 IntLayout(value, spec, sep))
  <1> DEFINE arg == [type |-> code, value |-> value]
             m == AbsOf(value)
             d == Digits(value, spec.type, sep)
             sign == SignPrefix(value < 0, spec)
             n == Len(d)
  <1>1. BitsOf(code) \in {Bits, 2 * Bits}
    BY DEF BitsOf
  <1>2. Magnitude(value, BitsOf(code)) = m /\ m \in Nat /\ m < Limit
    BY <1>1, MagnitudeIs
  <1>3. spec.type \in IntCodes
    BY DEF IsIntSpec
  <1>4. d = Digits(m, spec.type, sep)
    <2>1. AbsOf(m) = m /\ m \in Int
      BY <1>2 DEF AbsOf
    <2>2. Digits(value, spec.type, sep) = DigitsOfNat(m, spec.type, sep)
      BY DigitsOfAbs
    <2> HIDE DEF m
    <2>3. Digits(m, spec.type, sep) = DigitsOfNat(AbsOf(m), spec.type, sep)
      BY <2>1, DigitsOfAbs
    <2> QED
      BY <2>1, <2>2, <2>3 DEF m
  <1> HIDE DEF m
  <1>5. /\ DigitsOf(spec.type, m, sep) = d /\ d \in Seq(Cells)
        /\ Len(d) = DigitCount(spec.type, m, sep)
    <2>1. /\ DigitsOf(spec.type, m, sep) = Digits(m, spec.type, sep)
          /\ Digits(m, spec.type, sep) \in Seq(Cells)
          /\ Len(Digits(m, spec.type, sep)) = DigitCount(spec.type, m, sep)
      BY <1>2, <1>3, DigitsAre
    <2> HIDE DEF d
    <2> QED
      BY <1>4, <2>1
  <1>6. sign \in SignTexts
    <2>1. (value < 0) \in BOOLEAN
      OBVIOUS
    <2> QED
      BY <2>1, SignIs
  <1>7. write_int(b, arg, spec, sep)
          = EndAt(prepare_int_buffer(b, n, spec, sign \o HashPrefix(spec)), d)
    <2>1. write_int(b, arg, spec, sep)
            = write_magnitude(b, Magnitude(value, BitsOf(code)), spec, sign, sep)
      BY <1>3 DEF write_int
    <2> HIDE DEF sign, d
    <2> QED
      BY <1>2, <1>5, <2>1 DEF write_magnitude
  <1>8. \/ spec.precision <= Len(d)
        \/ spec.align # "left" \/ b.size + spec.width <= capacity(b)
    <2>1. ~(spec.align = "left" /\ spec.precision > n /\ b.size + spec.width > capacity(b))
      BY DEF DigitsLate
    <2>2. /\ n \in Nat /\ spec.precision \in Int /\ b.size + spec.width \in Int
          /\ capacity(b) \in Int
      <3> HIDE DEF d
      <3> QED
        BY <1>5, LenProperties, BufferParts DEF IsIntSpec
    <2> HIDE DEF n
    <2> QED
      BY <2>1, <2>2 DEF n
  <1>9. IntLayout(value, spec, sep)
          = IF spec.precision <= Len(d)
            THEN Padded(sign \o Prefix(spec), d, spec.align, spec.fill, spec.width)
            ELSE Padded(sign \o (IF spec.type = "o" THEN <<>> ELSE Prefix(spec)),
                        ZeroFilled(d, spec), IF spec.align = "left" THEN "left" ELSE "right",
                        spec.fill, spec.width)
    BY DEF IntLayout, ZeroFilled
  <1> HIDE DEF sign, d
  <1>10. Holds(EndAt(prepare_int_buffer(b, Len(d), spec, sign \o HashPrefix(spec)), d), b,
               IF spec.precision <= Len(d)
               THEN Padded(sign \o Prefix(spec), d, spec.align, spec.fill, spec.width)
               ELSE Padded(sign \o (IF spec.type = "o" THEN <<>> ELSE Prefix(spec)),
                           ZeroFilled(d, spec), IF spec.align = "left" THEN "left" ELSE "right",
                           spec.fill, spec.width))
    BY <1>5, <1>6, <1>8, MagnitudeWritten
  <1> QED
    BY <1>7, <1>9, <1>10

(* A sequence is a part of its own and the rest.                            *)
LEMMA SplitAt ==
    ASSUME NEW s \in Seq(Cells), NEW i \in Nat, NEW j \in Nat, Len(s) = i + j
    PROVE  \E x, y \in Seq(Cells) : Len(x) = i /\ Len(y) = j /\ s = x \o y
  <1> DEFINE x == [k \in 1..i |-> s[k]]
             y == [k \in 1..j |-> s[i + k]]
  <1>1. \A k \in 1..Len(s) : s[k] \in Cells
    BY ElementOfSeq
  <1>2. x \in [1..i -> Cells] /\ \A k \in 1..i : x[k] = s[k]
    BY <1>1
  <1>3. y \in [1..j -> Cells] /\ \A k \in 1..j : y[k] = s[i + k]
    <2>1. \A k \in 1..j : i + k \in 1..Len(s)
      OBVIOUS
    <2> QED
      BY <1>1, <2>1
  <1> HIDE DEF x, y
  <1>4. x \in Seq(Cells) /\ Len(x) = i /\ y \in Seq(Cells) /\ Len(y) = j
    BY <1>2, <1>3
  <1> DEFINE z == x \o y
  <1>5. /\ z \in Seq(Cells) /\ Len(z) = Len(x) + Len(y)
        /\ \A k \in 1..Len(x) : z[k] = x[k]
        /\ \A k \in 1..Len(y) : z[Len(x) + k] = y[k]
    <2>1. x \in Seq(Cells) /\ y \in Seq(Cells)
      BY <1>4
    <2> QED
      BY <2>1, Joined
  <1> HIDE DEF z
  <1>6. ASSUME NEW k \in 1..Len(s) PROVE s[k] = z[k]
    <2>1. CASE k <= i
      <3>1. k \in 1..i
        BY <2>1
      <3> QED
        BY <1>2, <1>4, <1>5, <3>1
    <2>2. CASE k > i
      <3> DEFINE e == k - i
      <3>1. e \in 1..j /\ i + e = k
        BY <2>2
      <3> HIDE DEF e
      <3> QED
        BY <1>3, <1>4, <1>5, <3>1
    <2> QED
      BY <2>1, <2>2
  <1>7. s = z
    <2>1. Len(s) = Len(z)
      BY <1>4, <1>5
    <2> QED
      BY <1>5, <1>6, <2>1, SeqEqual
  <1> QED
    BY <1>4, <1>7 DEF z

(* Decimal digits written from the end of an area, then the prefix.         *)
LEMMA GrownHolds ==
    ASSUME NEW b, IsBuffer(b), NEW n \in Nat
    PROVE  \E s \in Seq(Cells) : Len(s) = n /\ Holds(grow_buffer(b, n), b, s)
  <1> DEFINE g == grow_buffer(b, n)
             s == [i \in 1..n |-> g.cells[b.size + i]]
  <1>1. /\ IsBuffer(g) /\ g.size = b.size + n /\ g.lost = b.lost
        /\ \A i \in 1..b.size : g.cells[i] = b.cells[i]
    BY GrewBy
  <1> HIDE DEF g
  <1>2. g.cells \in Seq(Cells) /\ g.size <= capacity(g) /\ capacity(g) \in Nat /\ b.size \in Nat
    BY <1>1, BufferParts
  <1>3. \A i \in 1..n : g.cells[b.size + i] \in Cells
    <2>1. \A i \in 1..n : b.size + i \in 1..Len(g.cells)
      BY <1>1, <1>2 DEF capacity
    <2> QED
      BY <1>2, <2>1, ElementOfSeq
  <1>4. s \in [1..n -> Cells] /\ \A i \in 1..n : s[i] = g.cells[b.size + i]
    BY <1>3
  <1> HIDE DEF s
  <1>5. s \in Seq(Cells) /\ Len(s) = n
    BY <1>4
  <1>6. Holds(g, b, s)
    BY <1>1, <1>4, <1>5 DEF Holds
  <1> QED
    BY <1>5, <1>6 DEF g

(* The digits are written from the end and the sign before them.            *)
LEMMA DecimalWritten ==
    ASSUME NEW b, IsBuffer(b), NEW prefix \in Seq(Cells), NEW d \in Seq(Cells), NEW extent,
           extent = Len(prefix) + Len(d)
    PROVE  Holds(WriteAt(WriteAt(grow_buffer(b, extent), (b.size + extent) - Len(d), d),
                         b.size, prefix),
                 b, prefix \o d)
  <1> DEFINE g == grow_buffer(b, extent)
  <1>0. Len(prefix) \in Nat /\ Len(d) \in Nat /\ extent \in Nat /\ b.size \in Nat
    BY LenProperties, BufferParts
  <1>1. PICK s \in Seq(Cells) : Len(s) = extent /\ Holds(g, b, s)
    BY <1>0, GrownHolds
  <1>2. PICK x, y \in Seq(Cells) : Len(x) = Len(prefix) /\ Len(y) = Len(d) /\ s = x \o y
    <2> DEFINE i == Len(prefix)
               j == Len(d)
    <2>1. i \in Nat /\ j \in Nat /\ Len(s) = i + j
      BY <1>0, <1>1
    <2> HIDE DEF i, j
    <2>2. \E x, y \in Seq(Cells) : Len(x) = i /\ Len(y) = j /\ s = x \o y
      BY <2>1, SplitAt
    <2> QED
      BY <2>2 DEF i, j
  <1> HIDE DEF g
  <1> DEFINE u == x \o y \o <<>>
             v == x \o d \o <<>>
             v1 == <<>> \o x \o d
             w == <<>> \o prefix \o d
             g1 == WriteAt(g, b.size + Len(x), d)
             g2 == WriteAt(g1, b.size + Len(<<>>), prefix)
  <1>3. x \in Seq(Cells) /\ y \in Seq(Cells) /\ <<>> \in Seq(Cells) /\ Len(<<>>) = 0
    BY EmptySeq
  <1>4. /\ Three(u, x, y, <<>>) /\ Three(v, x, d, <<>>) /\ Three(v1, <<>>, x, d)
        /\ Three(w, <<>>, prefix, d)
    BY <1>3, ThreeParts
  <1>5. u = s /\ v = v1 /\ w = prefix \o d
    <2>1. /\ x \o y \in Seq(Cells) /\ x \o d \in Seq(Cells) /\ <<>> \o x = x
          /\ <<>> \o prefix = prefix
      BY ConcatProperties, ConcatEmptySeq
    <2>2. (x \o y) \o <<>> = x \o y /\ (x \o d) \o <<>> = x \o d
      <3> DEFINE e == x \o y
                 f == x \o d
      <3>1. e \in Seq(Cells) /\ f \in Seq(Cells)
        BY <2>1
      <3> HIDE DEF e, f
      <3>2. e \o <<>> = e /\ f \o <<>> = f
        BY <3>1, ConcatEmptySeq
      <3> QED
        BY <3>2 DEF e, f
    <2> QED
      BY <1>2, <2>1, <2>2
  <1> HIDE DEF u, v, v1, w, g1, g2
  <1>6. Holds(g1, b, v)
    <2>1. Holds(g, b, u) /\ Three(u, x, y, <<>>) /\ Three(v, x, d, <<>>) /\ Len(d) = Len(y)
      BY <1>1, <1>2, <1>4, <1>5
    <2> QED
      BY <2>1, Overwritten DEF g1
  <1>7. Holds(g2, b, w)
    <2>1. /\ Holds(g1, b, v1) /\ Three(v1, <<>>, x, d) /\ Three(w, <<>>, prefix, d)
          /\ Len(prefix) = Len(x)
      BY <1>2, <1>4, <1>5, <1>6
    <2> QED
      BY <2>1, Overwritten DEF g2
  <1>8. (b.size + extent) - Len(d) = b.size + Len(x) /\ b.size + Len(<<>>) = b.size
    <2>1. Len(x) = Len(prefix)
      BY <1>2
    <2>2. /\ (b.size + (Len(prefix) + Len(d))) - Len(d) = b.size + Len(prefix)
          /\ b.size + 0 = b.size
      BY <1>0
    <2> QED
      BY <1>3, <2>1, <2>2
  <1>9. g2 = WriteAt(WriteAt(g, (b.size + extent) - Len(d), d), b.size, prefix)
    BY <1>8 DEF g1, g2
  <1> QED
    BY <1>5, <1>7, <1>9 DEF g

LEMMA PlainSpec ==
    /\ IsIntSpec(FormatSpec) /\ FormatSpec.width = 0 /\ FormatSpec.type = ""
    /\ FormatSpec.flags = {}
    /\ FormatSpec.precision = -1 /\ FormatSpec.fill = Blank /\ FormatSpec.align = "default"
  <1>1. /\ FormatSpec.width = 0 /\ FormatSpec.type = "" /\ FormatSpec.flags = {}
        /\ FormatSpec.precision = -1 /\ FormatSpec.fill = Blank /\ FormatSpec.align = "default"
    BY DEF FormatSpec
  <1>2. Blank \in Cells
    BY DEF Cells
  <1>3. "" \in IntCodes
    BY DEF IntCodes
  <1> DEFINE f == FormatSpec
  <1> HIDE DEF f
  <1>4. f.width \in Nat /\ f.fill \in Cells /\ f.type \in IntCodes
    <2>1. f.width = 0 /\ 0 \in Nat /\ f.fill = Blank /\ f.type = ""
      BY <1>1 DEF f
    <2>2. f.width \in Nat
      BY <2>1
    <2>3. f.fill \in Cells
      BY <1>2, <2>1
    <2>4. f.type \in IntCodes
      BY <1>3, <2>1
    <2> QED
      BY <2>2, <2>3, <2>4
  <1>5. f.precision \in {-1} \cup Nat
    BY <1>1 DEF f
  <1>6. IsIntSpec(f)
    BY <1>4, <1>5 DEF IsIntSpec
  <1> QED
    BY <1>1, <1>6 DEF f

LEMMA IntDecimal ==
    ASSUME NEW b, IsBuffer(b), NEW value \in Int,
           -Power(2, Bits - 1) <= value, value < Power(2, Bits)
    PROVE  Holds(write_decimal(b, value), b, IntLayout(value, FormatSpec, <<>>))
  <1> DEFINE m == AbsOf(value)
             prefix == IF value < 0 THEN <<"-">> ELSE <<>>
             d == Decimal(m, <<>>)
             extent == Len(prefix) + count_digits(m)
             D == Digits(value, "", <<>>)
             sign == SignPrefix(value < 0, FormatSpec)
  <1>1. Magnitude(value, Bits) = m /\ m \in Nat /\ m < Limit
    BY MagnitudeIs
  <1>2. <<>> \in Seq(Cells) /\ "" \in IntCodes
    BY EmptySeq DEF IntCodes
  <1>3. D = DigitsOf("", m, <<>>) /\ D \in Seq(Cells) /\ Len(D) = DigitCount("", m, <<>>)
        /\ Len(D) \in Nat
    <2>1. D = DigitsOfNat(m, "", <<>>)
      BY DigitsOfAbs
    <2>2. AbsOf(m) = m /\ m \in Int
      BY <1>1 DEF AbsOf
    <2> HIDE DEF m
    <2>3. Digits(m, "", <<>>) = DigitsOfNat(m, "", <<>>)
      BY <2>2, DigitsOfAbs
    <2>4. /\ DigitsOf("", m, <<>>) = Digits(m, "", <<>>) /\ Digits(m, "", <<>>) \in Seq(Cells)
          /\ Len(Digits(m, "", <<>>)) = DigitCount("", m, <<>>)
          /\ Len(Digits(m, "", <<>>)) \in Nat \ {0}
      BY <1>1, <1>2, DigitsAre
    <2> QED
      BY <2>1, <2>3, <2>4 DEF m
  <1>4. DigitsOf("", m, <<>>) = d /\ DigitCount("", m, <<>>) = count_digits(m)
    <2> HIDE DEF m
    <2>1. "" \in {"", "d"} /\ "" \in {"", "d", "n"} /\ "" # "n"
      OBVIOUS
    <2> QED
      BY Zenon, <2>1 DEF DigitsOf, DigitCount
  <1>5. prefix \in Seq(Cells)
    BY SignCells, EmptySeq DEF SignTexts
  <1>6. write_decimal(b, value)
          = WriteAt(WriteAt(grow_buffer(b, extent), (b.size + extent) - Len(d), d), b.size, prefix)
    BY <1>1 DEF write_decimal
  <1>7. d \in Seq(Cells) /\ extent = Len(prefix) + Len(d)
    <2> HIDE DEF m, prefix, D, d
    <2> QED
      BY <1>3, <1>4
  <1> HIDE DEF m, d, D, extent, prefix
  <1>8. Holds(write_decimal(b, value), b, prefix \o d)
    BY <1>5, <1>6, <1>7, DecimalWritten
  <1>9. IntLayout(value, FormatSpec, <<>>) = prefix \o d
    <2>1. sign = prefix
      <3>1. "plus" \notin FormatSpec.flags /\ "sign" \notin FormatSpec.flags
        BY PlainSpec
      <3> QED
        BY Zenon, <3>1 DEF SignPrefix, prefix
    <2>2. Prefix(FormatSpec) = <<>>
      <3>1. "hash" \notin FormatSpec.flags
        BY PlainSpec
      <3> QED
        BY Zenon, <3>1 DEF Prefix
    <2>3. FormatSpec.precision <= Len(D)
      <3>1. FormatSpec.precision = -1
        BY PlainSpec
      <3>2. Len(D) \in Nat
        BY <1>3
      <3> QED
        BY <3>1, <3>2
    <2>4. IntLayout(value, FormatSpec, <<>>)
            = Padded(sign \o <<>>, D, "default", Blank, 0)
      BY <2>2, <2>3, PlainSpec DEF IntLayout, D
    <2> HIDE DEF sign
    <2>5. sign \o <<>> = prefix
      BY <1>5, <2>1, ConcatEmptySeq
    <2> DEFINE z == Padded(prefix, D, "default", Blank, 0)
               k == Lacks(prefix, D, 0)
    <2>6. k <= 0
      <3>1. Len(prefix) \in Nat
        BY <1>5, LenProperties
      <3>2. Len(D) \in Nat
        BY <1>3
      <3>3. k = 0 - (Len(prefix) + Len(D))
        BY DEF Lacks
      <3> QED
        BY <3>1, <3>2, <3>3
    <2>7. PaddedAs(z, prefix, D, "default", Blank, k)
      BY <1>3, <1>5, PaddedIs
    <2> HIDE DEF z, k
    <2>8. z = prefix \o D
      BY <2>6, <2>7 DEF PaddedAs
    <2>9. D = d
      BY <1>3, <1>4
    <2> QED
      BY <2>4, <2>5, <2>8, <2>9 DEF z
  <1> QED
    BY <1>8, <1>9

(* Words are padded as numbers are, on the right if align says nothing.     *)
WordAlign(align) == IF align \in {"right", "center"} THEN align ELSE "left"

-----------------------------------------------------------------------------
(* How much of the padding of a word goes to its left.                      *)
StrLeft(spec, n, total) == CASE spec.align = "right" -> total - n
                             [] spec.align = "center" -> fill_padding(total, n)
                             [] OTHER -> 0

LEMMA WordsLeft ==
    ASSUME NEW spec, NEW n \in Nat, NEW k \in Nat
    PROVE  /\ spec.align = "right" => StrLeft(spec, n, n + k) = k
           /\ spec.align = "center" => StrLeft(spec, n, n + k) = k \div 2
           /\ spec.align \notin {"right", "center"} => StrLeft(spec, n, n + k) = 0
  <1> DEFINE t == n + k
             x == StrLeft(spec, n, t)
             a == spec.align
  <1>1. t - n = k
    OBVIOUS
  <1>2. x = CASE a = "right" -> t - n [] a = "center" -> fill_padding(t, n) [] OTHER -> 0
    BY Zenon DEF StrLeft
  <1>3. fill_padding(t, n) = k \div 2
    BY <1>1 DEF fill_padding
  <1>4. "right" # "center"
    OBVIOUS
  <1> HIDE DEF x, t, a
  <1>5. a = "right" => x = t - n
    BY Zenon, <1>2, <1>4
  <1>6. a = "center" => x = fill_padding(t, n)
    BY Zenon, <1>2, <1>4
  <1>7. a \notin {"right", "center"} => x = 0
    BY Zenon, <1>2
  <1> QED
    BY <1>1, <1>3, <1>5, <1>6, <1>7 DEF x, t, a

LEMMA StrArea ==
    ASSUME NEW before \in Seq(Cells), NEW number \in Seq(Cells), NEW fill \in Cells,
           NEW spec, NEW k \in Nat, NEW n, n = Len(before) + Len(number),
           NEW z, PaddedAs(z, before, number, WordAlign(spec.align), fill, k)
    PROVE  /\ z = Fill(fill, StrLeft(spec, n, n + k)) \o (before \o number)
                   \o Fill(fill, k - StrLeft(spec, n, n + k))
           /\ z \in Seq(Cells)
  <1> DEFINE s == before \o number
             left == StrLeft(spec, n, n + k)
             F == Fill(fill, left)
             G == Fill(fill, k - left)
             al == WordAlign(spec.align)
  <1>0. n \in Nat
    BY LenProperties
  <1>1. s \in Seq(Cells)
    BY ConcatProperties
  <1>2. /\ left \in 0..k
        /\ spec.align = "right" => left = k
        /\ spec.align = "center" => left = k \div 2
        /\ spec.align \notin {"right", "center"} => left = 0
    <2> DEFINE a == spec.align
    <2>1. /\ a = "right" => left = k
          /\ a = "center" => left = k \div 2
          /\ a \notin {"right", "center"} => left = 0
      BY <1>0, WordsLeft
    <2>2. k \div 2 \in 0..k
      BY Half
    <2> HIDE DEF left, a
    <2>3. left \in 0..k
      BY <2>1, <2>2
    <2> QED
      BY <2>1, <2>3 DEF a
  <1>3. F \in Seq(Cells) /\ G \in Seq(Cells) /\ (left = 0 => F = <<>>) /\ (left = k => G = <<>>)
    <2> HIDE DEF left
    <2>1. left \in Int /\ k - left \in Int
      BY <1>2
    <2>2. F \in Seq(Cells) /\ (left <= 0 => F = <<>>)
      BY <2>1, FillIs
    <2> DEFINE r == k - left
    <2>3. r \in Int
      BY <2>1
    <2> HIDE DEF r
    <2>4. Fill(fill, r) \in Seq(Cells) /\ (r <= 0 => Fill(fill, r) = <<>>)
      BY <2>3, FillIs
    <2>5. left = k => r <= 0
      BY <2>1 DEF r
    <2> QED
      BY <2>2, <2>4, <2>5 DEF r
  <1>4. s \o G \in Seq(Cells) /\ F \o s \in Seq(Cells) /\ (F \o s) \o G \in Seq(Cells)
    <2> HIDE DEF s, F, G
    <2>1. s \o G \in Seq(Cells) /\ F \o s \in Seq(Cells)
      BY <1>1, <1>3, ConcatProperties
    <2> DEFINE e == F \o s
    <2> HIDE DEF e
    <2>2. e \in Seq(Cells)
      BY <2>1 DEF e
    <2>3. e \o G \in Seq(Cells)
      BY <1>3, <2>2, ConcatProperties
    <2> QED
      BY <2>1, <2>3 DEF e
  <1>5. (F \o before) \o number = F \o s
    <2>1. F \in Seq(Cells)
      BY <1>3
    <2> HIDE DEF F
    <2>2. (F \o before) \o number = F \o (before \o number)
      BY <2>1, ConcatAssociative
    <2> QED
      BY <2>2
  <1>6. <<>> \o s = s /\ s \o <<>> = s /\ (F \o s) \o <<>> = F \o s
    <2> DEFINE e == F \o s
    <2>1. e \in Seq(Cells)
      BY <1>4
    <2> HIDE DEF s, e
    <2>2. <<>> \o s = s /\ s \o <<>> = s /\ e \o <<>> = e
      BY <1>1, <2>1, ConcatEmptySeq
    <2> QED
      BY <2>2 DEF e
  <1>7. z = (F \o s) \o G
    <2>1. CASE k = 0
      <3>1. z = s
        BY <2>1 DEF PaddedAs
      <3>2. left = 0 /\ left = k
        BY <1>2, <2>1
      <3> HIDE DEF s, F, G, left
      <3>3. F = <<>> /\ G = <<>>
        BY <1>3, <3>2
      <3> QED
        BY <1>6, <3>1, <3>3
    <2>2. CASE k > 0 /\ spec.align = "right"
      <3>1. al = "right" /\ al \notin {"left", "numeric", "center"}
        BY <2>2 DEF WordAlign
      <3>2. left = k
        BY <1>2, <2>2
      <3>3. z = (Fill(fill, k) \o before) \o number
        BY <2>2, <3>1 DEF PaddedAs
      <3>4. z = F \o s
        BY <1>5, <3>2, <3>3
      <3> HIDE DEF s, F, G, left
      <3> QED
        BY <1>3, <1>6, <3>2, <3>4
    <2>3. CASE k > 0 /\ spec.align = "center"
      <3>1. al = "center"
        BY <2>3 DEF WordAlign
      <3>2. left = k \div 2
        BY <1>2, <2>3
      <3>3. z = ((Fill(fill, k \div 2) \o before) \o number) \o Fill(fill, k - (k \div 2))
        BY <2>3, <3>1 DEF PaddedAs
      <3>4. Fill(fill, k \div 2) = F /\ Fill(fill, k - (k \div 2)) = G
        BY <3>2
      <3> HIDE DEF F, G
      <3> QED
        BY <1>5, <3>3, <3>4
    <2>4. CASE k > 0 /\ spec.align \notin {"right", "center"}
      <3>1. al = "left"
        BY <2>4 DEF WordAlign
      <3>2. left = 0 /\ k - left = k
        <4>1. left = 0
          BY <1>2, <2>4
        <4> HIDE DEF left
        <4> QED
          BY <4>1
      <3>3. z = s \o Fill(fill, k)
        BY <2>4, <3>1 DEF PaddedAs
      <3>4. Fill(fill, k) = G /\ F = <<>>
        BY <1>3, <3>2
      <3> HIDE DEF s, F, G, left
      <3> QED
        BY <1>6, <3>3, <3>4
    <2>5. k = 0 \/ k > 0
      OBVIOUS
    <2>6. spec.align \notin {"right", "center"} \/ spec.align = "right" \/ spec.align = "center"
      OBVIOUS
    <2> HIDE DEF F, G, s
    <2> QED
      BY <2>1, <2>2, <2>3, <2>4, <2>5, <2>6
  <1> QED
    BY <1>4, <1>7

(* write_str: a word is padded to its width.                                *)
LEMMA StrWritten ==
    ASSUME NEW b, IsBuffer(b), NEW before \in Seq(Cells), NEW number \in Seq(Cells),
           NEW spec, spec.width \in Nat, spec.fill \in Cells
    PROVE  Holds(write_str(b, before \o number, spec), b,
                 Padded(before, number, WordAlign(spec.align), spec.fill, spec.width))
  <1> DEFINE s == before \o number
             n == Len(before) + Len(number)
             k0 == Lacks(before, number, spec.width)
             k == IF k0 < 0 THEN 0 ELSE k0
             z == Padded(before, number, WordAlign(spec.align), spec.fill, spec.width)
             total == IF spec.width > Len(s) THEN spec.width ELSE Len(s)
             left == StrLeft(spec, n, n + k)
             area == Fill(spec.fill, left) \o s \o Fill(spec.fill, k - left)
  <1>1. Len(before) \in Nat /\ Len(number) \in Nat /\ n \in Nat
    BY LenProperties
  <1>2. Len(s) = n
    BY ConcatProperties
  <1>3. k0 = spec.width - n /\ k0 \in Int
    BY <1>1 DEF Lacks
  <1>4. k \in Nat /\ (k0 <= 0 <=> k <= 0) /\ (k0 > 0 => k = k0) /\ (k0 > 0 <=> k > 0)
    BY <1>3
  <1>5. PaddedAs(z, before, number, WordAlign(spec.align), spec.fill, k0)
    BY PaddedIs
  <1>6. PaddedAs(z, before, number, WordAlign(spec.align), spec.fill, k)
    <2> HIDE DEF k, k0, z
    <2>1. CASE k0 <= 0
      BY <1>3, <1>4, <1>5, <2>1 DEF PaddedAs
    <2>2. CASE k0 > 0
      BY <1>4, <1>5, <2>2
    <2> QED
      BY <1>3, <2>1, <2>2
  <1>7. total = n + k /\ total - Len(s) = k
    <2> HIDE DEF s
    <2> QED
      BY <1>1, <1>2, <1>3
  <1>8. z = area /\ z \in Seq(Cells)
    <2> HIDE DEF k, k0, z
    <2> QED
      BY <1>4, <1>6, StrArea
  <1>9. write_str(b, s, spec) = append(b, area)
    <2>1. write_str(b, s, spec)
            = append(b, Fill(spec.fill, StrLeft(spec, Len(s), total)) \o s
                          \o Fill(spec.fill, (total - Len(s)) - StrLeft(spec, Len(s), total)))
      BY DEF write_str, StrLeft
    <2> HIDE DEF s, n, k, total
    <2> QED
      BY <1>2, <1>7, <2>1
  <1> HIDE DEF z, area
  <1>10. Holds(append(b, z), b, z)
    BY <1>8, Appended
  <1> QED
    BY <1>8, <1>9, <1>10 DEF z

(* A padded number is made of cells.                                        *)
LEMMA PaddedType ==
    ASSUME NEW before \in Seq(Cells), NEW number \in Seq(Cells), NEW align, NEW fill \in Cells,
           NEW width \in Nat
    PROVE  Padded(before, number, align, fill, width) \in Seq(Cells)
  <1> DEFINE z == Padded(before, number, align, fill, width)
             k == Lacks(before, number, width)
             h == k \div 2
             F == Fill(fill, k)
             H == Fill(fill, h)
             R == Fill(fill, k - h)
             N == before \o number
  <1>1. Len(before) \in Nat /\ Len(number) \in Nat
    BY LenProperties
  <1>2. k \in Int /\ h \in Int /\ k - h \in Int
    BY <1>1 DEF Lacks
  <1>3. F \in Seq(Cells) /\ H \in Seq(Cells) /\ R \in Seq(Cells)
    <2> HIDE DEF k, h
    <2> DEFINE e == k - h
    <2>1. e \in Int
      BY <1>2
    <2> HIDE DEF e
    <2>2. Fill(fill, k) \in Seq(Cells)
      BY <1>2, FillIs
    <2>3. Fill(fill, h) \in Seq(Cells)
      BY <1>2, FillIs
    <2>4. Fill(fill, e) \in Seq(Cells)
      BY <2>1, FillIs
    <2> QED
      BY <2>2, <2>3, <2>4 DEF e
  <1>4. PaddedAs(z, before, number, align, fill, k)
    BY PaddedIs
  <1> HIDE DEF k, z
  <1>5. /\ k <= 0 => z = N
        /\ k > 0 /\ align = "left" => z = N \o F
        /\ k > 0 /\ align = "numeric" => z = (before \o F) \o number
        /\ k > 0 /\ align = "center" => z = ((H \o before) \o number) \o R
        /\ k > 0 /\ align \notin {"left", "numeric", "center"} => z = (F \o before) \o number
    BY <1>4 DEF PaddedAs
  <1> HIDE DEF F, H, R, h
  <1>6. N \in Seq(Cells) /\ N \o F \in Seq(Cells)
    BY <1>3
  <1>7. (before \o F) \o number \in Seq(Cells) /\ (F \o before) \o number \in Seq(Cells)
    BY <1>3
  <1>8. ((H \o before) \o number) \o R \in Seq(Cells)
    BY <1>3
  <1>9. k <= 0 \/ k > 0
    BY <1>2
  <1> QED
    BY <1>5, <1>6, <1>7, <1>8, <1>9 DEF z

(* A buffer that holds what it should is laid out as it should.             *)
LEMMA HeldLaidOut ==
    ASSUME NEW b, IsBuffer(b), b.lost = FALSE, NEW r, NEW s \in Seq(Cells), Holds(r, b, s),
           NEW unsafe
    PROVE  LaidOut(b, r, s, unsafe)
  <1>1. r.size <= capacity(r) /\ r.lost = b.lost
    BY HeldParts
  <1>2. Contents(r) = Contents(b) \o s
    BY HeldContents
  <1> QED
    BY <1>1, <1>2 DEF LaidOut

(* The area of an integer is a buffer, however the buffer has grown.        *)
LEMMA AreaIsBuffer ==
    ASSUME NEW b, IsBuffer(b), NEW spec, IsIntSpec(spec), NEW n \in Nat, NEW sign \in SignTexts
    PROVE  IsBuffer(prepare_int_buffer(b, n, spec, sign \o HashPrefix(spec)).b)
  <1> DEFINE prefix == sign \o HashPrefix(spec)
             r == prepare_int_buffer(b, n, spec, prefix)
  <1>0. /\ spec.width \in Nat /\ spec.fill \in Cells /\ spec.type \in IntCodes
        /\ spec.precision \in {-1} \cup Nat /\ sign \in Seq(Cells)
    BY SignCells DEF IsIntSpec
  <1>1. HashPrefix(spec) \in Seq(Cells) /\ prefix \in Seq(Cells)
    <2>1. HashPrefix(spec) \in Seq(Cells)
      BY <1>0, PrefixIs
    <2> QED
      BY <1>0, <2>1, ConcatProperties
  <1>2. CASE spec.precision <= n
    <2> HIDE DEF prefix
    <2>1. r = Sized(b, n, spec, prefix)
      BY <1>2 DEF prepare_int_buffer
    <2>2. PICK pre, post : Ready(Sized(b, n, spec, prefix), b, pre, n, post)
      BY <1>0, <1>1, SizedIs
    <2>3. IsBuffer(Sized(b, n, spec, prefix).b)
      BY <2>2 DEF Ready, Holds
    <2> HIDE DEF r
    <2> QED
      BY <2>1, <2>3 DEF r, prefix
  <1>3. CASE ~(spec.precision <= n)
    <2> DEFINE p == Bared(prefix)
               A == PadAfter(p, spec)
               B == PadBefore(p, spec)
               c == append(Room(b, p, spec), B)
               zs == ZeroSpec(p, spec)
               o == Sized(c, n, zs, p)
    <2>1. spec.precision \in Nat
      BY <1>0, <1>3
    <2>2. p \in Seq(Cells)
      <3>1. p = sign \o (IF spec.type = "o" THEN <<>> ELSE Prefix(spec))
        BY <1>0, BaredIs
      <3>2. Prefix(spec) \in Seq(Cells) /\ <<>> \in Seq(Cells)
        BY <1>0, PrefixIs, EmptySeq
      <3>3. sign \o (IF spec.type = "o" THEN <<>> ELSE Prefix(spec)) \in Seq(Cells)
        BY <1>0, <3>2, ConcatProperties
      <3> QED
        BY <3>1, <3>3
    <2>3. r = Trailed(o, A)
      BY <1>3 DEF prepare_int_buffer, Bared, PadAfter, PadBefore, Padding, Room, ZeroSpec
    <2> HIDE DEF p, prefix, r
    <2>4. A \in Seq(Cells) /\ B \in Seq(Cells)
      BY <1>0, <2>1, <2>2, PaddingType
    <2>5. IsBuffer(c)
      <3> HIDE DEF B
      <3> QED
        BY <1>0, <2>4, Leading
    <2>6. zs.width \in Nat /\ zs.fill \in Cells
      <3>1. zs.width = Len(p) + spec.precision /\ zs.fill = "0"
        BY ZeroSpecIs
      <3>2. Len(p) \in Nat /\ "0" \in Cells
        BY <2>2, LenProperties, ZeroIs
      <3> HIDE DEF zs
      <3>3. zs.width \in Nat
        BY <2>1, <3>1, <3>2
      <3>4. zs.fill \in Cells
        BY <3>1, <3>2
      <3> QED
        BY <3>3, <3>4
    <2> HIDE DEF c, zs
    <2>7. PICK pre, post : Ready(Sized(c, n, zs, p), c, pre, n, post)
                           /\ Sized(c, n, zs, p) = [b |-> Sized(c, n, zs, p).b,
                                                    last |-> Sized(c, n, zs, p).last]
      BY <2>2, <2>5, <2>6, SizedIs
    <2>8. IsBuffer(o.b) /\ o = [b |-> o.b, last |-> o.last]
      BY <2>7 DEF Ready, Holds
    <2> HIDE DEF o, A
    <2>9. IsBuffer(append(o.b, A))
      <3>1. Holds(append(o.b, A), o.b, A)
        BY <2>4, <2>8, Appended
      <3> QED
        BY <3>1 DEF Holds
    <2>10. r.b = append(o.b, A)
      <3> DEFINE x == append(o.b, A)
      <3>1. r = [o EXCEPT !.b = x]
        BY <2>3 DEF Trailed
      <3> HIDE DEF x
      <3>2. [o EXCEPT !.b = x].b = x
        BY <2>8
      <3> QED
        BY <3>1, <3>2 DEF x
    <2> QED
      BY <2>9, <2>10 DEF r, prefix
  <1>4. (spec.precision <= n) \/ ~(spec.precision <= n)
    OBVIOUS
  <1> QED
    BY <1>2, <1>3, <1>4

(* Layouts are made of cells.                                               *)
LEMMA IntLayoutType ==
    ASSUME NEW value \in Int, AbsOf(value) \in Nat, AbsOf(value) < Limit,
           NEW spec, IsIntSpec(spec), NEW sep \in Seq(Cells)
    PROVE  /\ IntLayout(value, spec, sep) \in Seq(Cells)
           /\ Digits(value, spec.type, sep) \in Seq(Cells)
           /\ DigitsOf(spec.type, AbsOf(value), sep) = Digits(value, spec.type, sep)
           /\ Len(Digits(value, spec.type, sep)) = DigitCount(spec.type, AbsOf(value), sep)
  <1> DEFINE m == AbsOf(value)
             d == Digits(value, spec.type, sep)
             sign == SignPrefix(value < 0, spec)
             pr == Prefix(spec)
             ws == sign \o pr
             wp == sign \o (IF spec.type = "o" THEN <<>> ELSE pr)
             zs == ZeroFilled(d, spec)
             al == IF spec.align = "left" THEN "left" ELSE "right"
  <1>0. /\ spec.width \in Nat /\ spec.fill \in Cells /\ spec.type \in IntCodes
        /\ spec.precision \in {-1} \cup Nat
    BY DEF IsIntSpec
  <1>1. d = Digits(m, spec.type, sep)
    <2>1. AbsOf(m) = m /\ m \in Int
      BY DEF AbsOf
    <2>2. Digits(value, spec.type, sep) = DigitsOfNat(m, spec.type, sep)
      BY DigitsOfAbs
    <2> HIDE DEF m
    <2>3. Digits(m, spec.type, sep) = DigitsOfNat(AbsOf(m), spec.type, sep)
      BY <2>1, DigitsOfAbs
    <2> QED
      BY <2>1, <2>2, <2>3 DEF m
  <1>2. /\ DigitsOf(spec.type, m, sep) = d /\ d \in Seq(Cells)
        /\ Len(d) = DigitCount(spec.type, m, sep)
    <2> HIDE DEF m
    <2>1. /\ DigitsOf(spec.type, m, sep) = Digits(m, spec.type, sep)
          /\ Digits(m, spec.type, sep) \in Seq(Cells)
          /\ Len(Digits(m, spec.type, sep)) = DigitCount(spec.type, m, sep)
      BY <1>0, DigitsAre DEF m
    <2> HIDE DEF d
    <2> QED
      BY <1>1, <2>1
  <1>3. sign \in SignTexts /\ sign \in Seq(Cells)
    <2>1. (value < 0) \in BOOLEAN
      OBVIOUS
    <2>2. sign \in SignTexts
      BY <2>1, SignIs
    <2> QED
      BY <2>2, SignCells
  <1>4. pr \in Seq(Cells) /\ <<>> \in Seq(Cells)
    BY <1>0, PrefixIs, EmptySeq
  <1>5. ws \in Seq(Cells) /\ wp \in Seq(Cells)
    <2> HIDE DEF sign, pr
    <2>1. sign \o pr \in Seq(Cells) /\ sign \o <<>> \in Seq(Cells)
      BY <1>3, <1>4, ConcatProperties
    <2> QED
      BY <2>1
  <1>6. IntLayout(value, spec, sep)
          = IF spec.precision <= Len(d) THEN Padded(ws, d, spec.align, spec.fill, spec.width)
            ELSE Padded(wp, zs, al, spec.fill, spec.width)
    BY DEF IntLayout, ZeroFilled
  <1> HIDE DEF ws, wp, al, d
  <1>7. Padded(ws, d, spec.align, spec.fill, spec.width) \in Seq(Cells)
    BY <1>0, <1>2, <1>5, PaddedType
  <1>8. ~(spec.precision <= Len(d)) => Padded(wp, zs, al, spec.fill, spec.width) \in Seq(Cells)
    <2> SUFFICES ASSUME ~(spec.precision <= Len(d))
                 PROVE  Padded(wp, zs, al, spec.fill, spec.width) \in Seq(Cells)
      OBVIOUS
    <2>1. Len(d) \in Nat /\ spec.precision \in Nat /\ Len(d) < spec.precision
      <3>1. Len(d) \in Nat
        BY <1>2, LenProperties
      <3> QED
        BY <1>0, <3>1
    <2>2. zs \in Seq(Cells)
      BY <1>2, <1>5, <2>1, ZeroPadded
    <2> HIDE DEF zs
    <2> QED
      BY <1>0, <1>5, <2>2, PaddedType
  <1> QED
    BY <1>2, <1>6, <1>7, <1>8 DEF d

(* Every integer of its code has a magnitude that has digits.               *)
LEMMA InRange ==
    ASSUME NEW code \in IntTypes, NEW value \in Lowest(code)..Highest(code)
    PROVE  /\ value \in Int /\ -Power(2, BitsOf(code) - 1) <= value
           /\ value < Power(2, BitsOf(code))
  <1> DEFINE w == BitsOf(code)
             P == Power(2, w)
             Q == Power(2, w - 1)
  <1>1. w \in {Bits, 2 * Bits}
    BY DEF BitsOf
  <1>2. w \in Nat /\ w - 1 \in Nat /\ (w - 1) + 1 = w
    BY <1>1, BitsAssumption
  <1> HIDE DEF w
  <1>3. P \in Nat /\ Q \in Nat /\ Q <= P
    <2> DEFINE v == w - 1
    <2>1. v \in Nat /\ v <= w
      BY <1>2
    <2>5. 2 \in Bases
      BY DEF Bases
    <2> HIDE DEF v
    <2>2. Power(2, w) \in Nat
      BY <1>2, <2>5, PowerNext
    <2>3. Power(2, v) \in Nat
      BY <2>1, <2>5, PowerNext
    <2>4. Power(2, v) <= Power(2, w)
      BY <1>2, <2>1, <2>5, PowerGrows
    <2> QED
      BY <2>2, <2>3, <2>4 DEF v
  <1>4. CASE code \in {"int", "llong"}
    <2>1. Lowest(code) = -Q /\ Highest(code) = Q - 1
      BY <1>4 DEF Lowest, Highest, w
    <2> HIDE DEF P, Q
    <2> QED
      BY <1>3, <2>1 DEF P, Q, w
  <1>5. CASE code \notin {"int", "llong"}
    <2>1. Lowest(code) = 0 /\ Highest(code) = P - 1
      BY <1>5 DEF Lowest, Highest, w
    <2> HIDE DEF P, Q
    <2> QED
      BY <1>3, <2>1 DEF P, Q, w
  <1> QED
    BY <1>4, <1>5

(* An integer is appended whole to any buffer.                              *)
LEMMA IntIsWhole ==
    ASSUME NEW b, IsBuffer(b), b.lost = FALSE, NEW arg, arg.type \in IntTypes,
           arg.value \in Lowest(arg.type)..Highest(arg.type),
           NEW spec, IsIntSpec(spec), NEW sep \in Seq(Cells)
    PROVE  IsWhole(b, arg, spec, sep)
  <1> DEFINE code == arg.type
             value == arg.value
             rec == [type |-> code, value |-> value]
             late == DigitsLate(b, value, spec, sep)
             r == write_int(b, arg, spec, sep)
             lay == IntLayout(value, spec, sep)
             m == AbsOf(value)
             sign == SignPrefix(value < 0, spec)
             d == Digits(value, spec.type, sep)
             n == Len(d)
  <1>1. /\ value \in Int /\ -Power(2, BitsOf(code) - 1) <= value
        /\ value < Power(2, BitsOf(code))
    BY InRange
  <1>2. BitsOf(code) \in {Bits, 2 * Bits}
    BY DEF BitsOf
  <1>3. Magnitude(value, BitsOf(code)) = m /\ m \in Nat /\ m < Limit
    BY <1>1, <1>2, MagnitudeIs
  <1>4. /\ lay \in Seq(Cells) /\ d \in Seq(Cells) /\ DigitsOf(spec.type, m, sep) = d
        /\ n = DigitCount(spec.type, m, sep)
    BY <1>1, <1>3, IntLayoutType
  <1>5. code # "double"
    BY DEF IntTypes
  <1>6. write_int(b, rec, spec, sep) = r
    BY DEF write_int
  <1>7. late \in BOOLEAN
    BY DEF DigitsLate
  <1>8. ~late => Holds(r, b, lay)
    <2> SUFFICES ASSUME ~late PROVE Holds(r, b, lay)
      OBVIOUS
    <2>1. Holds(write_int(b, rec, spec, sep), b, lay)
      <3> HIDE DEF code, value
      <3> QED
        BY <1>1, IntWritten DEF code
    <2> HIDE DEF r, lay, rec, late
    <2> QED
      BY <1>6, <2>1
  <1>9. r.size <= capacity(r)
    <2> DEFINE q == prepare_int_buffer(b, n, spec, sign \o HashPrefix(spec))
    <2>1. spec.type \in IntCodes
      BY DEF IsIntSpec
    <2>2. sign \in SignTexts
      <3>1. (value < 0) \in BOOLEAN
        BY <1>1
      <3> QED
        BY <3>1, SignIs
    <2>3. r = EndAt(q, d)
      <3>1. r = write_magnitude(b, Magnitude(value, BitsOf(code)), spec, sign, sep)
        BY <2>1 DEF write_int
      <3> HIDE DEF sign, d, n, r
      <3> QED
        BY <1>3, <1>4, <3>1 DEF write_magnitude
    <2>4. n \in Nat
      <3> HIDE DEF d
      <3> QED
        BY <1>4, LenProperties
    <2> HIDE DEF n, sign, d
    <2>5. IsBuffer(q.b)
      BY <2>2, <2>4, AreaIsBuffer
    <2> DEFINE c == q.b
               p == Moved(q.last, 1 - Len(d))
    <2>6. r = WriteTo(c, p, d)
      BY <2>3 DEF EndAt
    <2>7. IsBuffer(c)
      BY <2>5
    <2> HIDE DEF c, p
    <2>8. WriteTo(c, p, d).size = c.size /\ capacity(WriteTo(c, p, d)) = capacity(c)
      BY <2>7, KeepsSize
    <2>9. c.size <= capacity(c)
      BY <2>7 DEF IsBuffer
    <2> HIDE DEF r
    <2> QED
      BY <2>6, <2>8, <2>9
  <1>10. LaidOut(b, r, lay, late)
    <2> HIDE DEF r, lay, late
    <2>1. ~late => LaidOut(b, r, lay, late)
      BY <1>4, <1>8, HeldLaidOut
    <2>2. late => LaidOut(b, r, lay, late)
      BY <1>9 DEF LaidOut
    <2> QED
      BY <1>7, <2>1, <2>2
  <1>11. arg.type = "int" /\ spec = FormatSpec =>
            LaidOut(b, write_decimal(b, value), IntLayout(value, spec, <<>>), FALSE)
    <2> SUFFICES ASSUME arg.type = "int", spec = FormatSpec
                 PROVE  LaidOut(b, write_decimal(b, value), IntLayout(value, spec, <<>>), FALSE)
      OBVIOUS
    <2>1. BitsOf(code) = Bits
      BY DEF BitsOf
    <2>2. <<>> \in Seq(Cells)
      BY EmptySeq
    <2> DEFINE dec == write_decimal(b, value)
               lad == IntLayout(value, FormatSpec, <<>>)
    <2>3. Holds(dec, b, lad)
      <3> HIDE DEF value, code
      <3>1. -Power(2, Bits - 1) <= value /\ value < Power(2, Bits)
        BY <1>1, <2>1
      <3> QED
        BY <1>1, <3>1, IntDecimal
    <2>4. lad \in Seq(Cells)
      <3> HIDE DEF value, code
      <3>1. IsIntSpec(FormatSpec)
        BY PlainSpec
      <3> QED
        BY <1>1, <1>3, <2>2, <3>1, IntLayoutType
    <2> HIDE DEF dec, lad
    <2>5. LaidOut(b, dec, lad, FALSE)
      BY <2>3, <2>4, HeldLaidOut
    <2> QED
      BY <2>5 DEF dec, lad
  <1> QED
    BY <1>5, <1>10, <1>11 DEF IsWhole

(* What r holds behind the part in use, where a number is printed before it *)
(* is counted in; and the room that r has at least.                         *)
Beyond(r, b, s, cap) ==
    /\ IsBuffer(r) /\ r.lost = b.lost /\ r.size = b.size
    /\ b.size + Len(s) <= capacity(r) /\ capacity(r) >= cap
    /\ \A i \in 1..b.size : r.cells[i] = b.cells[i]
    /\ \A i \in 1..Len(s) : r.cells[b.size + i] = s[i]

(* Writing keeps what is beyond the text in the buffer.                     *)
LEMMA BeyondWritten ==
    ASSUME NEW b, IsBuffer(b), NEW r, NEW u, NEW v, NEW pre, NEW mid, NEW s, NEW post,
           NEW cap \in Int,
           Three(u, pre, mid, post), Three(v, pre, s, post), Len(s) = Len(mid),
           Beyond(r, b, u, cap)
    PROVE  Beyond(WriteAt(r, b.size + Len(pre), s), b, v, cap)
  <1> DEFINE a == Len(pre)
             n == Len(mid)
             at == b.size + a
             w == WriteAt(r, at, s)
  <1>1. /\ u \in Seq(Cells) /\ Len(u) = a + n + Len(post)
        /\ a \in Nat /\ n \in Nat /\ Len(post) \in Nat
        /\ \A i \in 1..a : u[i] = pre[i]
        /\ \A i \in 1..Len(post) : u[a + n + i] = post[i]
    BY DEF Three
  <1>2. /\ v \in Seq(Cells) /\ Len(v) = a + n + Len(post) /\ s \in Seq(Cells)
        /\ \A i \in 1..a : v[i] = pre[i]
        /\ \A i \in 1..n : v[a + i] = s[i]
        /\ \A i \in 1..Len(post) : v[a + n + i] = post[i]
    BY DEF Three
  <1>3. Len(s) = n /\ at = b.size + a
    OBVIOUS
  <1> HIDE DEF a, n
  <1>4. /\ IsBuffer(r) /\ r.lost = b.lost /\ b.size \in Nat
        /\ r.size = b.size /\ b.size + Len(u) <= capacity(r) /\ capacity(r) \in Nat
        /\ capacity(r) >= cap
        /\ \A i \in 1..b.size : r.cells[i] = b.cells[i]
        /\ \A i \in 1..Len(u) : r.cells[b.size + i] = u[i]
    <2>1. IsBuffer(r)
      BY DEF Beyond
    <2>2. capacity(r) \in Nat /\ b.size \in Nat
      BY <2>1, BufferParts
    <2> QED
      BY <2>1, <2>2 DEF Beyond
  <1>5. at \in Nat /\ at + Len(s) <= capacity(r)
    BY <1>1, <1>3, <1>4
  <1> HIDE DEF at
  <1>6. /\ IsBuffer(w) /\ w.size = r.size /\ w.lost = r.lost /\ capacity(w) = capacity(r)
        /\ \A i \in 1..capacity(r) : w.cells[i] = IF i - at \in 1..Len(s)
                                                  THEN s[i - at] ELSE r.cells[i]
    <2>1. IsBuffer(r) /\ s \in Seq(Cells)
      BY <1>2, <1>4
    <2> QED
      BY <1>5, <2>1, WrittenIs
  <1> HIDE DEF w
  <1>8. ASSUME NEW i \in 1..b.size PROVE w.cells[i] = b.cells[i]
    <2>1. i \in 1..capacity(r) /\ i - at \notin 1..Len(s)
      BY <1>1, <1>3, <1>4
    <2> QED
      BY <1>4, <1>6, <2>1
  <1>9. ASSUME NEW i \in 1..Len(v) PROVE w.cells[b.size + i] = v[i]
    <2> DEFINE j == b.size + i
    <2>0. i \in 1..Len(u) /\ b.size + i = j
      BY <1>1, <1>2
    <2>1. j \in 1..capacity(r) /\ j - at = i - a /\ r.cells[j] = u[i]
      <3>1. r.cells[b.size + i] = u[i]
        BY <1>4, <2>0
      <3>2. b.size + i \in 1..capacity(r)
        BY <1>4, <2>0
      <3>3. (b.size + i) - at = i - a
        <4>1. b.size \in Nat /\ a \in Nat /\ at = b.size + a
          BY <1>1, <1>3, <1>4
        <4> QED
          BY <4>1
      <3> QED
        BY <3>1, <3>2, <3>3
    <2> HIDE DEF j
    <2>2. w.cells[j] = IF i - a \in 1..n THEN s[i - a] ELSE u[i]
      BY <1>3, <1>6, <2>1
    <2>3. CASE i <= a
      <3>1. i - a \notin 1..n /\ i \in 1..a
        BY <1>1, <2>3
      <3> QED
        BY <1>1, <1>2, <2>2, <3>1 DEF j
    <2>4. CASE i > a /\ i <= a + n
      <3> DEFINE k == i - a
      <3>1. k \in 1..n /\ a + k = i
        BY <1>1, <2>4
      <3>2. w.cells[j] = s[k]
        BY <2>2, <3>1
      <3> HIDE DEF k
      <3>3. v[i] = s[k]
        BY <1>2, <3>1
      <3> QED
        BY <3>2, <3>3 DEF j
    <2>5. CASE i > a + n
      <3> DEFINE k == i - (a + n)
      <3>1. k \in 1..Len(post) /\ a + n + k = i /\ i - a \notin 1..n
        BY <1>1, <1>2, <2>5
      <3> HIDE DEF k
      <3>2. v[i] = post[k] /\ u[i] = post[k]
        BY <1>1, <1>2, <3>1
      <3>3. w.cells[j] = u[i]
        BY <2>2, <3>1
      <3> QED
        BY <3>2, <3>3 DEF j
    <2> QED
      BY <1>1, <2>3, <2>4, <2>5
  <1>10. w.size = b.size /\ b.size + Len(v) <= capacity(w) /\ capacity(w) >= cap
    BY <1>1, <1>2, <1>4, <1>6
  <1>11. Beyond(w, b, v, cap)
    BY <1>4, <1>6, <1>8, <1>9, <1>10 DEF Beyond
  <1> QED
    BY <1>11 DEF w, at, a

(* What is printed is counted in, and that needs no other storage.          *)
LEMMA BeyondGrown ==
    ASSUME NEW b, IsBuffer(b), NEW r, NEW s \in Seq(Cells), NEW cap \in Int, Beyond(r, b, s, cap)
    PROVE  Holds(grow_buffer(r, Len(s)), b, s)
  <1> DEFINE n == Len(s)
             g == grow_buffer(r, n)
  <1>1. /\ IsBuffer(r) /\ r.lost = b.lost /\ n \in Nat /\ b.size \in Nat
        /\ r.size = b.size /\ b.size + n <= capacity(r)
        /\ \A i \in 1..b.size : r.cells[i] = b.cells[i]
        /\ \A i \in 1..n : r.cells[b.size + i] = s[i]
    <2>1. b.size \in Nat /\ n \in Nat
      BY BufferParts, LenProperties
    <2> QED
      BY <2>1 DEF Beyond
  <1> HIDE DEF n
  <1>2. /\ IsBuffer(g) /\ g.size = r.size + n /\ g.lost = r.lost
        /\ r.size + n <= capacity(r) => g.cells = r.cells
    BY <1>1, GrewBy
  <1> HIDE DEF g
  <1>3. g.cells = r.cells /\ g.size = b.size + n
    BY <1>1, <1>2
  <1>4. Holds(g, b, s)
    BY <1>1, <1>2, <1>3 DEF Holds, n
  <1> QED
    BY <1>4 DEF g, n

(* Whatever the storage holds, it holds some cells.                         *)
LEMMA BeyondSome ==
    ASSUME NEW b, IsBuffer(b), NEW r, IsBuffer(r), r.lost = b.lost, r.size = b.size,
           \A i \in 1..b.size : r.cells[i] = b.cells[i],
           NEW n \in Nat, b.size + n <= capacity(r), NEW cap \in Int, capacity(r) >= cap
    PROVE  \E s \in Seq(Cells) : Len(s) = n /\ Beyond(r, b, s, cap)
  <1> DEFINE s == [i \in 1..n |-> r.cells[b.size + i]]
  <1>1. b.size \in Nat /\ r.cells \in Seq(Cells) /\ capacity(r) \in Nat
    BY BufferParts
  <1>2. \A i \in 1..n : r.cells[b.size + i] \in Cells
    <2>1. \A i \in 1..n : b.size + i \in 1..Len(r.cells)
      BY <1>1 DEF capacity
    <2> QED
      BY <1>1, <2>1, ElementOfSeq
  <1>3. s \in [1..n -> Cells] /\ \A i \in 1..n : s[i] = r.cells[b.size + i]
    BY <1>2
  <1> HIDE DEF s
  <1>4. s \in Seq(Cells) /\ Len(s) = n
    BY <1>3
  <1>5. Beyond(r, b, s, cap)
    BY <1>3, <1>4 DEF Beyond
  <1> QED
    BY <1>4, <1>5

(* A part of what is held is held.                                          *)
LEMMA BeyondPart ==
    ASSUME NEW b, IsBuffer(b), NEW r, NEW s \in Seq(Cells), NEW t \in Seq(Cells), NEW cap \in Int,
           Beyond(r, b, s \o t, cap)
    PROVE  Beyond(r, b, s, cap)
  <1> DEFINE u == s \o t
  <1>1. /\ u \in Seq(Cells) /\ Len(u) = Len(s) + Len(t)
        /\ \A i \in 1..Len(s) : u[i] = s[i]
    BY Joined
  <1>2. Len(s) \in Nat /\ Len(t) \in Nat
    BY LenProperties
  <1>0. Beyond(r, b, u, cap)
    OBVIOUS
  <1> HIDE DEF u
  <1>3. /\ IsBuffer(r) /\ r.lost = b.lost /\ b.size \in Nat /\ r.size = b.size
        /\ b.size + Len(u) <= capacity(r) /\ capacity(r) \in Nat /\ capacity(r) >= cap
        /\ \A i \in 1..b.size : r.cells[i] = b.cells[i]
        /\ \A i \in 1..Len(u) : r.cells[b.size + i] = u[i]
    <2>1. IsBuffer(r)
      BY <1>0 DEF Beyond
    <2>2. capacity(r) \in Nat /\ b.size \in Nat
      BY <2>1, BufferParts
    <2> QED
      BY <1>0, <2>1, <2>2 DEF Beyond
  <1>4. b.size + Len(s) <= capacity(r)
    BY <1>1, <1>2, <1>3
  <1>5. \A i \in 1..Len(s) : i \in 1..Len(u)
    BY <1>1, <1>2
  <1> QED
    BY <1>1, <1>3, <1>4, <1>5 DEF Beyond

(* Writing nothing changes nothing, wherever it is written.                 *)
LEMMA NothingWritten ==
    ASSUME NEW b, IsBuffer(b), NEW at
    PROVE  WriteAt(b, at, <<>>) = b
  <1> DEFINE p == Ptr(b, at)
             new == [i \in DOMAIN b.cells |-> IF i - p[2] \in 1..Len(<<>>)
                                              THEN <<>>[i - p[2]] ELSE b.cells[i]]
             n == capacity(b)
  <1>1. b.cells \in [1..n -> Cells] /\ b.cells \in Seq(Cells) /\ n \in Nat
    BY BufferParts
  <1>2. p[1] = b.gen /\ p[2] = at
    BY DEF Ptr
  <1>3. WriteAt(b, at, <<>>) = [b EXCEPT !.cells = new]
    BY <1>2 DEF WriteTo, WriteAt
  <1> DEFINE none == 1..Len(<<>>)
  <1>4. Len(<<>>) = 0
    OBVIOUS
  <1>5. none = {}
    BY <1>4
  <1> HIDE DEF p, n, none
  <1>6. new = [i \in DOMAIN b.cells |-> b.cells[i]]
    BY <1>5 DEF none
  <1> HIDE DEF new
  <1>7. new = b.cells
    BY <1>1, <1>6
  <1>8. b \in [cells : Seq(Cells), size : Nat, gen : Nat, lost : BOOLEAN]
    BY DEF IsBuffer
  <1> QED
    BY <1>3, <1>7, <1>8

(* The blanks before a number are those that snprintf has put there.        *)
LEMMA BlanksAre ==
    ASSUME NEW rest \in Seq(Cells), Len(rest) > 0, rest[1] # Blank, NEW kb \in Nat
    PROVE  /\ Blanks(Fill(Blank, kb) \o rest) = kb
           /\ (Fill(Blank, kb) \o rest)[1] = Blank <=> kb > 0
           /\ Fill(Blank, kb) \o rest \in Seq(Cells)
           /\ Len(Fill(Blank, kb) \o rest) = kb + Len(rest)
  <1> DEFINE F == Fill(Blank, kb)
             out == F \o rest
             c == Blank
             Q(k) == /\ \A i \in 1..k : out[i] = c
                     /\ k = Len(out) \/ out[k + 1] # c
  <1>1. F \in Seq(Cells) /\ Len(F) = kb /\ \A i \in 1..kb : F[i] = c
    <2>1. Blank \in Cells /\ kb \in Int
      BY JunkType DEF JunkCells
    <2>2. Fill(Blank, kb) \in Seq(Cells)
      BY <2>1, FillIs
    <2>3. Len(Fill(Blank, kb)) = IF kb < 0 THEN 0 ELSE kb
      BY <2>1, FillIs
    <2>4. \A i \in 1..kb : Fill(Blank, kb)[i] = Blank
      BY <2>1, FillIs
    <2> HIDE DEF F
    <2>5. Len(F) = kb
      BY <2>3 DEF F
    <2> QED
      BY <2>2, <2>4, <2>5 DEF F
  <1> HIDE DEF F
  <1>2. /\ out \in Seq(Cells) /\ Len(out) = kb + Len(rest)
        /\ \A i \in 1..Len(F) : out[i] = F[i]
        /\ \A i \in 1..Len(rest) : out[Len(F) + i] = rest[i]
    <2>1. F \in Seq(Cells)
      BY <1>1
    <2>2. /\ F \o rest \in Seq(Cells) /\ Len(F \o rest) = Len(F) + Len(rest)
          /\ \A i \in 1..Len(F) : (F \o rest)[i] = F[i]
          /\ \A i \in 1..Len(rest) : (F \o rest)[Len(F) + i] = rest[i]
      BY <2>1, Joined
    <2> QED
      BY <1>1, <2>2
  <1>3. Len(rest) \in Nat
    BY LenProperties
  <1> HIDE DEF out
  <1>4. \A i \in 1..kb : out[i] = c
    BY <1>1, <1>2
  <1>5. out[kb + 1] # c
    <2>1. 1 \in 1..Len(rest)
      BY <1>3
    <2> QED
      BY <1>1, <1>2, <2>1
  <1> HIDE DEF c
  <1>6. kb \in 0..Len(out) /\ Q(kb)
    BY <1>2, <1>3, <1>4, <1>5
  <1>7. ASSUME NEW k \in 0..Len(out), Q(k) PROVE k = kb
    <2>1. k \in Nat
      OBVIOUS
    <2>2. ~(k < kb)
      <3> SUFFICES ASSUME k < kb PROVE FALSE
        OBVIOUS
      <3>1. k + 1 \in 1..kb /\ k # Len(out)
        BY <1>2, <1>3, <2>1
      <3> QED
        BY <1>4, <1>7, <3>1
    <2>3. ~(kb < k)
      <3> SUFFICES ASSUME kb < k PROVE FALSE
        OBVIOUS
      <3>1. kb + 1 \in 1..k
        BY <2>1
      <3> QED
        BY <1>5, <1>7, <3>1
    <2> QED
      BY <2>1, <2>2, <2>3
  <1>8. Blanks(out) = CHOOSE k \in 0..Len(out) : Q(k)
    BY DEF Blanks, c
  <1>9. (CHOOSE k \in 0..Len(out) : Q(k)) = kb
    <2> HIDE DEF Q
    <2> QED
      BY <1>6, <1>7
  <1>10. out[1] = c <=> kb > 0
    <2>1. CASE kb > 0
      <3>1. 1 \in 1..kb
        BY <2>1
      <3> QED
        BY <1>4, <2>1, <3>1
    <2>2. CASE kb = 0
      BY <1>5, <2>2
    <2> QED
      BY <2>1, <2>2
  <1> QED
    BY <1>2, <1>8, <1>9, <1>10 DEF out, F, c

(* What is printed behind the sign's place, and the terminator behind it.   *)
LEMMA FloatPrinted ==
    ASSUME NEW b, IsBuffer(b), NEW cap \in Int, NEW room, Beyond(room, b, <<>>, cap),
           NEW n \in Nat, NEW out \in Seq(Cells)
    PROVE  \E x \in Seq(Cells) :
              Len(x) = n /\ Beyond(format_float(room, b.size + n, out), b, x \o out, cap)
  <1> DEFINE at == b.size + n
             m == Len(out)
             r == IF at + m < capacity(room) THEN room ELSE reserve(room, at + m + 1)
             e == out \o <<"nul">>
             sz == at + m + 1
  <1>1. /\ IsBuffer(room) /\ room.lost = b.lost /\ room.size = b.size /\ capacity(room) >= cap
        /\ \A i \in 1..b.size : room.cells[i] = b.cells[i]
    BY DEF Beyond
  <1>2. b.size \in Nat /\ m \in Nat /\ capacity(room) \in Nat /\ at \in Nat /\ sz \in Nat
    <2>1. b.size \in Nat /\ capacity(room) \in Nat
      BY <1>1, BufferParts
    <2>2. m \in Nat
      BY LenProperties
    <2> QED
      BY <2>1, <2>2
  <1>3. "nul" \in Cells
    BY DEF Cells
  <1>4. e \in Seq(Cells) /\ Len(e) = m + 1 /\ Append(out, "nul") = e
    <2>1. <<"nul">> \in Seq(Cells) /\ Len(<<"nul">>) = 1
      BY <1>3
    <2>2. e \in Seq(Cells) /\ Len(e) = Len(out) + Len(<<"nul">>)
      BY <2>1, ConcatProperties
    <2>3. Append(out, "nul") = e
      BY <1>3, AppendIsConcat
    <2> QED
      BY <2>1, <2>2, <2>3
  <1>5. format_float(room, at, out) = WriteAt(r, at, e)
    <2> HIDE DEF e
    <2> QED
      BY <1>4 DEF format_float
  <1>6. /\ IsBuffer(r) /\ r.lost = b.lost /\ r.size = b.size /\ capacity(r) >= cap
        /\ sz <= capacity(r)
        /\ \A i \in 1..b.size : r.cells[i] = b.cells[i]
    <2>1. CASE at + m < capacity(room)
      <3>1. r = room
        BY <2>1
      <3> HIDE DEF r
      <3>2. sz <= capacity(room)
        BY <1>2, <2>1
      <3> HIDE DEF sz
      <3> QED
        BY <1>1, <3>1, <3>2
    <2>2. CASE ~(at + m < capacity(room))
      <3>1. r = reserve(room, sz)
        BY <2>2
      <3> HIDE DEF r, sz
      <3> DEFINE q == reserve(room, sz)
      <3>2. /\ IsBuffer(q) /\ q.size = room.size /\ q.lost = room.lost
            /\ capacity(q) >= sz /\ capacity(q) >= capacity(room)
            /\ \A i \in 1..room.size : q.cells[i] = room.cells[i]
        BY <1>1, <1>2, ReservedIs
      <3> HIDE DEF q
      <3>3. capacity(q) \in Nat
        BY <3>2, BufferParts
      <3>4. capacity(q) >= cap /\ sz <= capacity(q)
        BY <1>1, <1>2, <3>2, <3>3
      <3>5. r = q
        BY <3>1 DEF q
      <3> QED
        BY <1>1, <3>2, <3>4, <3>5
    <2> QED
      BY <2>1, <2>2
  <1> HIDE DEF r
  <1> DEFINE k == n + (m + 1)
  <1>7. k \in Nat /\ b.size + k = sz
    BY <1>2
  <1>8. PICK s \in Seq(Cells) : Len(s) = k /\ Beyond(r, b, s, cap)
    <2> HIDE DEF k, sz
    <2>1. b.size + k <= capacity(r)
      BY <1>6, <1>7
    <2> QED
      BY <1>6, <1>7, <2>1, BeyondSome
  <1>9. PICK x, y \in Seq(Cells) : Len(x) = n /\ Len(y) = m + 1 /\ s = x \o y
    <2> DEFINE j == m + 1
    <2>1. j \in Nat /\ Len(s) = n + j
      BY <1>2, <1>8
    <2> HIDE DEF j
    <2>2. \E x, y \in Seq(Cells) : Len(x) = n /\ Len(y) = j /\ s = x \o y
      BY <2>1, SplitAt
    <2> QED
      BY <2>2 DEF j
  <1> DEFINE u == x \o y \o <<>>
             v == x \o e \o <<>>
  <1>10. <<>> \in Seq(Cells)
    BY EmptySeq
  <1> HIDE DEF e, m, at, sz
  <1>11. Three(u, x, y, <<>>) /\ Three(v, x, e, <<>>)
    BY <1>4, <1>9, <1>10, ThreeParts
  <1>12. u = s /\ v = x \o e
    <2> DEFINE xy == x \o y
               xe == x \o e
    <2>1. xy \in Seq(Cells) /\ xe \in Seq(Cells)
      BY <1>4, <1>9, ConcatProperties
    <2> HIDE DEF xy, xe
    <2>2. xy \o <<>> = xy /\ xe \o <<>> = xe
      BY <2>1, ConcatEmptySeq
    <2> QED
      BY <1>9, <2>2 DEF xy, xe
  <1> HIDE DEF u, v
  <1>13. Beyond(WriteAt(r, b.size + Len(x), e), b, v, cap)
    <2>1. Beyond(r, b, u, cap) /\ Len(e) = Len(y)
      BY <1>4, <1>8, <1>9, <1>12
    <2> QED
      BY <1>11, <2>1, BeyondWritten
  <1>14. x \o e = (x \o out) \o <<"nul">> /\ x \o out \in Seq(Cells) /\ <<"nul">> \in Seq(Cells)
    <2>1. <<"nul">> \in Seq(Cells)
      BY <1>3
    <2> DEFINE t == <<"nul">>
    <2> HIDE DEF t
    <2>2. t \in Seq(Cells)
      BY <2>1 DEF t
    <2>3. (x \o out) \o t = x \o (out \o t)
      BY <1>9, <2>2, RegroupCells
    <2>4. x \o out \in Seq(Cells)
      BY <1>9, ConcatProperties
    <2> QED
      BY <2>1, <2>3, <2>4 DEF e, t
  <1> DEFINE w == WriteAt(r, at, e)
             xo == x \o out
             t == <<"nul">>
  <1>15. Beyond(w, b, xo \o t, cap)
    BY <1>9, <1>12, <1>13, <1>14 DEF at
  <1>16. xo \in Seq(Cells) /\ t \in Seq(Cells)
    BY <1>14
  <1> HIDE DEF w, xo, t
  <1>17. Beyond(w, b, xo, cap)
    BY <1>15, <1>16, BeyondPart
  <1> QED
    BY <1>5, <1>9, <1>17 DEF w, xo, at

(* A part of what is held is replaced by another as long.                   *)
LEMMA Replaced ==
    ASSUME NEW b, IsBuffer(b), NEW cap \in Int, NEW r, NEW pre \in Seq(Cells),
           NEW mid \in Seq(Cells), NEW s \in Seq(Cells), NEW post \in Seq(Cells),
           Len(s) = Len(mid), NEW u, NEW at, u = (pre \o mid) \o post, at = b.size + Len(pre),
           Beyond(r, b, u, cap)
    PROVE  Beyond(WriteAt(r, at, s), b, (pre \o s) \o post, cap)
  <1> DEFINE v == (pre \o s) \o post
             w == (pre \o mid) \o post
             a == b.size + Len(pre)
             q == WriteAt(r, a, s)
  <1>1. Three(w, pre, mid, post) /\ Three(v, pre, s, post)
    BY ThreeParts
  <1> HIDE DEF v, w
  <1>2. Beyond(r, b, w, cap)
    BY DEF w
  <1>3. Beyond(q, b, v, cap)
    BY <1>1, <1>2, BeyondWritten
  <1> QED
    BY <1>3 DEF v, q, a

(* The blanks that snprintf has put are turned into the fill.               *)
LEMMA FillTurned ==
    ASSUME NEW c \in Cells, NEW n \in Nat
    PROVE  <<c>> \o Fill(c, n) = Fill(c, n) \o <<c>>
  <1> DEFINE F == Fill(c, n)
             o == <<c>>
             x == o \o F
             y == F \o o
  <1>1. F \in Seq(Cells) /\ Len(F) = n /\ \A i \in 1..n : F[i] = c
    <2>1. n \in Int
      OBVIOUS
    <2>2. Fill(c, n) \in Seq(Cells)
      BY <2>1, FillIs
    <2>3. Len(Fill(c, n)) = IF n < 0 THEN 0 ELSE n
      BY <2>1, FillIs
    <2>4. \A i \in 1..n : Fill(c, n)[i] = c
      BY <2>1, FillIs
    <2> HIDE DEF F
    <2>5. Len(F) = n
      BY <2>3 DEF F
    <2> QED
      BY <2>2, <2>4, <2>5 DEF F
  <1>2. o \in Seq(Cells) /\ Len(o) = 1 /\ o[1] = c
    OBVIOUS
  <1> HIDE DEF F, o
  <1>3. /\ x \in Seq(Cells) /\ Len(x) = Len(o) + Len(F)
        /\ \A i \in 1..Len(o) : x[i] = o[i]
        /\ \A i \in 1..Len(F) : x[Len(o) + i] = F[i]
    <2>1. o \in Seq(Cells) /\ F \in Seq(Cells)
      BY <1>1, <1>2
    <2> QED
      BY <2>1, Joined
  <1>4. /\ y \in Seq(Cells) /\ Len(y) = Len(F) + Len(o)
        /\ \A i \in 1..Len(F) : y[i] = F[i]
        /\ \A i \in 1..Len(o) : y[Len(F) + i] = o[i]
    <2>1. o \in Seq(Cells) /\ F \in Seq(Cells)
      BY <1>1, <1>2
    <2> QED
      BY <2>1, Joined
  <1> HIDE DEF x, y
  <1>5. ASSUME NEW i \in 1..Len(x) PROVE x[i] = c
    <2>1. CASE i = 1
      BY <1>2, <1>3, <2>1
    <2>2. CASE i > 1
      <3> DEFINE j == i - 1
      <3>1. j \in 1..n /\ 1 + j = i
        BY <1>1, <1>2, <1>3, <2>2
      <3> HIDE DEF j
      <3> QED
        BY <1>1, <1>2, <1>3, <3>1
    <2> QED
      BY <2>1, <2>2
  <1>6. ASSUME NEW i \in 1..Len(y) PROVE y[i] = c
    <2>1. CASE i <= n
      BY <1>1, <1>4, <2>1
    <2>2. CASE i > n
      <3>1. i = n + 1
        BY <1>1, <1>2, <1>4, <2>2
      <3> QED
        BY <1>1, <1>2, <1>4, <3>1
    <2> QED
      BY <2>1, <2>2
  <1>7. Len(x) = Len(y)
    BY <1>1, <1>2, <1>3, <1>4
  <1>8. x = y
    BY <1>3, <1>4, <1>5, <1>6, <1>7, SeqEqual
  <1> QED
    BY <1>8 DEF x, y, F, o

-----------------------------------------------------------------------------
(* A text after the blanks of its width.                                    *)
Blanked(kb, rest) == Fill(Blank, kb) \o rest

(* The sign goes before the fill, or behind it, and the fill where there    *)
(* were blanks.                                                             *)
LEMMA SignedFormatIs ==
    ASSUME NEW b, IsBuffer(b), NEW cap \in Int, NEW r, NEW spec, spec.fill \in Cells,
           NEW sign \in SignTexts, NEW x \in Seq(Cells), Len(x) = Len(sign), NEW kb \in Nat,
           NEW rest \in Seq(Cells), Len(rest) > 0, rest[1] # Blank,
           Beyond(r, b, x \o Blanked(kb, rest), cap)
    PROVE  Beyond(SignAndFill(r, b.size, sign, Blanked(kb, rest), spec), b,
                  IF SignInside(sign, Blanked(kb, rest), spec)
                  THEN (Fill(spec.fill, kb) \o sign) \o rest
                  ELSE (sign \o Fill(spec.fill, kb)) \o rest, cap)
  <1> DEFINE out == Blanked(kb, rest)
             fill == spec.fill
             G == Fill(Blank, kb)
             F == Fill(fill, kb)
             inside == SignInside(sign, out, spec)
             ls == Len(sign)
             c1 == IF inside THEN <<fill>> ELSE sign
             e2 == IF fill # Blank \/ inside THEN F ELSE <<>>
             W1 == WriteAt(r, b.size, c1)
             W2 == WriteAt(W1, b.size + ls, e2)
             W3 == WriteAt(W2, ((b.size + ls) + kb) - 1, IF inside THEN sign ELSE <<>>)
  <1>0. Blank \in Cells /\ fill \in Cells /\ b.size \in Nat /\ kb \in Int
    BY JunkType, BufferParts DEF JunkCells
  <1>1. /\ Blanks(out) = kb /\ out \in Seq(Cells) /\ (out[1] = Blank <=> kb > 0)
    BY BlanksAre DEF Blanked
  <1>2. SignAndFill(r, b.size, sign, out, spec) = W3
    <2> HIDE DEF out
    <2> QED
      BY <1>1 DEF SignAndFill
  <1>3. sign \in Seq(Cells) /\ ls \in {0, 1} /\ (ls = 0 <=> sign = <<>>)
    BY SignCells
  <1>4. inside \in BOOLEAN /\ (inside => ls = 1 /\ kb > 0)
    <2> HIDE DEF out
    <2> QED
      BY <1>1, <1>3 DEF SignInside
  <1> HIDE DEF inside
  <1>5. G \in Seq(Cells) /\ F \in Seq(Cells) /\ Len(G) = kb /\ Len(F) = kb
    <2> HIDE DEF fill
    <2>1. Fill(Blank, kb) \in Seq(Cells) /\ Fill(fill, kb) \in Seq(Cells)
      BY <1>0, FillIs
    <2>2. Len(Fill(Blank, kb)) = IF kb < 0 THEN 0 ELSE kb
      BY <1>0, FillIs
    <2>3. Len(Fill(fill, kb)) = IF kb < 0 THEN 0 ELSE kb
      BY <1>0, FillIs
    <2> HIDE DEF F, G
    <2>4. Len(F) = kb /\ Len(G) = kb
      BY <2>2, <2>3 DEF F, G
    <2> QED
      BY <2>1, <2>4 DEF F, G
  <1>6. <<fill>> \in Seq(Cells) /\ Len(<<fill>>) = 1 /\ c1 \in Seq(Cells) /\ Len(c1) = ls
    <2> HIDE DEF fill
    <2>1. <<fill>> \in Seq(Cells) /\ Len(<<fill>>) = 1
      BY <1>0
    <2> DEFINE o == <<fill>>
    <2> HIDE DEF o
    <2> QED
      BY <1>3, <1>4, <2>1 DEF o
  <1>7. <<>> \in Seq(Cells) /\ Len(<<>>) = 0
    BY EmptySeq
  <1> HIDE DEF out, G, F, W1, W2, W3, c1, ls, fill
  <1>8. Beyond(W1, b, c1 \o out, cap)
    <2> DEFINE e == <<>>
               u == x \o out
               p == e \o x
    <2>1. p = x /\ e \o c1 = c1
      BY <1>6, ConcatEmptySeq
    <2>2. Beyond(r, b, u, cap)
      BY DEF out
    <2>3. e \in Seq(Cells) /\ b.size = b.size + Len(e)
      BY <1>0, <1>7
    <2>4. u = p \o out
      BY <2>1
    <2>5. Len(c1) = Len(x)
      BY <1>6 DEF ls
    <2> HIDE DEF e, u, p
    <2>6. Beyond(WriteAt(r, b.size, c1), b, (e \o c1) \o out, cap)
      BY <1>1, <1>6, <2>2, <2>3, <2>4, <2>5, Replaced DEF p
    <2> QED
      BY <2>1, <2>6 DEF W1
  <1>9. Beyond(W2, b, (c1 \o F) \o rest, cap)
    <2> DEFINE u == c1 \o out
    <2>1. u = (c1 \o G) \o rest
      <3>1. (c1 \o G) \o rest = c1 \o (G \o rest)
        <4>1. c1 \in Seq(Cells) /\ G \in Seq(Cells)
          BY <1>5, <1>6
        <4> QED
          BY <4>1, RegroupCells
      <3>2. out = G \o rest
        BY DEF out, Blanked, G
      <3> QED
        BY <3>1, <3>2
    <2>2. Beyond(W1, b, u, cap)
      BY <1>8
    <2> HIDE DEF u
    <2>3. CASE e2 = F
      <3>1. b.size + ls = b.size + Len(c1) /\ Len(F) = Len(G)
        BY <1>5, <1>6
      <3>2. Beyond(WriteAt(W1, b.size + ls, F), b, (c1 \o F) \o rest, cap)
        BY <1>5, <1>6, <2>1, <2>2, <3>1, Replaced
      <3> HIDE DEF e2
      <3> QED
        BY <2>3, <3>2 DEF W2
    <2>4. CASE ~(fill # Blank \/ inside)
      <3>1. e2 = <<>> /\ F = G
        BY <2>4 DEF F, G
      <3>2. IsBuffer(W1)
        BY <1>8 DEF Beyond
      <3>3. WriteAt(W1, b.size + ls, <<>>) = W1
        BY <3>2, NothingWritten
      <3> HIDE DEF e2
      <3>4. W2 = W1
        BY <3>1, <3>3 DEF W2
      <3> QED
        BY <2>1, <2>2, <3>1, <3>4
    <2> QED
      BY <2>3, <2>4
  <1>10. CASE inside
    <2> DEFINE o == <<fill>>
               u == (c1 \o F) \o rest
    <2>1. c1 = o /\ o \o F = F \o o
      BY <1>0, <1>10, FillTurned DEF c1, F
    <2>2. ls = 1 /\ Len(o) = 1 /\ o \in Seq(Cells)
      BY <1>4, <1>6, <1>10
    <2>3. u = (F \o o) \o rest
      BY <2>1
    <2>4. Beyond(W2, b, u, cap)
      BY <1>9
    <2>5. Len(sign) = Len(o)
      BY <2>2 DEF ls
    <2> DEFINE at == ((b.size + ls) + kb) - 1
    <2>6. at = b.size + Len(F)
      <3>1. ((b.size + 1) + kb) - 1 = b.size + kb
        BY <1>0
      <3> QED
        BY <1>5, <2>2, <3>1
    <2> HIDE DEF o, u, at
    <2>7. Beyond(WriteAt(W2, at, sign), b, (F \o sign) \o rest, cap)
      BY <1>3, <1>5, <2>2, <2>3, <2>4, <2>5, <2>6, Replaced
    <2>8. W3 = WriteAt(W2, at, sign)
      BY <1>10 DEF W3, at
    <2> QED
      BY <1>2, <1>10, <2>7, <2>8 DEF inside, F, out, fill
  <1>11. CASE ~inside
    <2>1. c1 = sign
      BY <1>11 DEF c1
    <2>2. IsBuffer(W2)
      BY <1>9 DEF Beyond
    <2> DEFINE at == ((b.size + ls) + kb) - 1
    <2>3. WriteAt(W2, at, <<>>) = W2
      BY <2>2, NothingWritten
    <2>4. W3 = W2
      BY <1>11, <2>3 DEF W3
    <2>5. Beyond(W3, b, (sign \o F) \o rest, cap)
      BY <1>9, <2>1, <2>4
    <2> QED
      BY <1>2, <1>11, <2>5 DEF inside, F, out, fill
  <1> QED
    BY <1>4, <1>10, <1>11

(* What snprintf prints: blanks, and the number with the blanks behind it.  *)
BlanksAhead(k, left) == IF left \/ k < 0 THEN 0 ELSE k
(* snprintf blanks to the left, or to the right of a number aligned so.     *)
WithBehind(digits, k, left) == IF left THEN digits \o Fill(Blank, k) ELSE digits

LEMMA BlankFill ==
    ASSUME NEW k \in Int
    PROVE  /\ Fill(Blank, k) \in Seq(Cells) /\ (k <= 0 => Fill(Blank, k) = <<>>)
           /\ Len(Fill(Blank, k)) = IF k < 0 THEN 0 ELSE k
  <1>1. Blank \in Cells
    BY JunkType DEF JunkCells
  <1> QED
    BY <1>1, FillIs

(* What snprintf prints: blanks on one side of the digits.                  *)
LEMMA SnprintfIs ==
    ASSUME NEW digits \in Seq(Cells), Len(digits) > 0, digits[1] # Blank, NEW width \in Int,
           NEW left \in BOOLEAN, NEW k, k = width - Len(digits)
    PROVE  /\ k \in Int /\ BlanksAhead(k, left) \in Nat
           /\ WithBehind(digits, k, left) \in Seq(Cells) /\ Len(WithBehind(digits, k, left)) > 0
           /\ WithBehind(digits, k, left)[1] # Blank
           /\ snprintf(digits, width, left)
                = Blanked(BlanksAhead(k, left), WithBehind(digits, k, left))
  <1> DEFINE B == Fill(Blank, k)
             a == BlanksAhead(k, left)
             h == WithBehind(digits, k, left)
  <1>1. Len(digits) \in Nat
    BY LenProperties
  <1>2. k \in Int
    BY <1>1
  <1>3. B \in Seq(Cells) /\ (k <= 0 => B = <<>>)
    BY <1>2, BlankFill
  <1>4. a \in Nat
    BY <1>2 DEF BlanksAhead
  <1>5. snprintf(digits, width, left) = IF left THEN digits \o B ELSE B \o digits
    BY DEF snprintf
  <1> DEFINE w == digits \o B
  <1>6. /\ w \in Seq(Cells) /\ Len(w) = Len(digits) + Len(B)
        /\ \A i \in 1..Len(digits) : w[i] = digits[i]
    <2> HIDE DEF B
    <2>1. B \in Seq(Cells)
      BY <1>3
    <2> QED
      BY <2>1, Joined
  <1>7. Len(B) \in Nat
    BY <1>3, LenProperties
  <1>8. CASE left
    <2>1. h = w /\ a = 0
      BY <1>8 DEF WithBehind, BlanksAhead
    <2>2. Fill(Blank, 0) = <<>>
      BY BlankFill
    <2>3. <<>> \o w = w
      <3> HIDE DEF w
      <3> QED
        BY <1>6, ConcatEmptySeq
    <2> HIDE DEF w, B, h, a
    <2>4. Blanked(a, h) = w
      BY <2>1, <2>2, <2>3 DEF Blanked
    <2>5. 1 \in 1..Len(digits)
      BY <1>1
    <2>6. w[1] = digits[1] /\ Len(w) > 0
      BY <1>1, <1>6, <1>7, <2>5
    <2> QED
      BY <1>2, <1>4, <1>5, <1>6, <1>8, <2>1, <2>4, <2>6 DEF h, a, w
  <1>9. CASE ~left
    <2>1. h = digits /\ a = IF k < 0 THEN 0 ELSE k
      BY <1>9 DEF WithBehind, BlanksAhead
    <2>2. Fill(Blank, a) = B
      <3>1. CASE k < 0
        <4>1. a = 0
          BY <2>1, <3>1
        <4>2. Fill(Blank, 0) = <<>>
          BY BlankFill
        <4> HIDE DEF a, B
        <4> QED
          BY <1>2, <1>3, <3>1, <4>1, <4>2
      <3>2. CASE ~(k < 0)
        BY <2>1, <3>2
      <3> QED
        BY <3>1, <3>2
    <2> HIDE DEF B, h, a
    <2>3. Blanked(a, h) = B \o digits
      BY <2>1, <2>2 DEF Blanked
    <2> QED
      BY <1>2, <1>4, <1>5, <1>9, <2>1, <2>3 DEF h, a
  <1> QED
    BY <1>8, <1>9

-----------------------------------------------------------------------------
(* A text with its sign, which goes inside the blanks or before them.       *)
SignedText(sign, kb, rest, spec) ==
    IF SignInside(sign, Blanked(kb, rest), spec) THEN (Fill(spec.fill, kb) \o sign) \o rest
    ELSE (sign \o Fill(spec.fill, kb)) \o rest

LEMMA SignedTextIs ==
    ASSUME NEW sign \in Seq(Cells), NEW kb \in Nat, NEW rest \in Seq(Cells), NEW spec,
           spec.fill \in Cells, Len(rest) > 0, rest[1] # Blank
    PROVE  /\ SignedText(sign, kb, rest, spec) \in Seq(Cells)
           /\ Len(SignedText(sign, kb, rest, spec)) = Len(Blanked(kb, rest)) + Len(sign)
  <1> DEFINE F == Fill(spec.fill, kb)
             u == F \o sign
             v == sign \o F
             fill == spec.fill
  <1>1. F \in Seq(Cells) /\ Len(F) = kb
    <2>1. kb \in Int /\ fill \in Cells
      OBVIOUS
    <2> HIDE DEF fill
    <2>2. Fill(fill, kb) \in Seq(Cells)
      BY <2>1, FillIs
    <2>3. Len(Fill(fill, kb)) = IF kb < 0 THEN 0 ELSE kb
      BY <2>1, FillIs
    <2> DEFINE G == Fill(fill, kb)
    <2> HIDE DEF G
    <2>4. G \in Seq(Cells) /\ Len(G) = kb
      BY <2>2, <2>3 DEF G
    <2> QED
      BY <2>4 DEF G, fill
  <1>2. Len(Blanked(kb, rest)) = kb + Len(rest)
    BY BlanksAre DEF Blanked
  <1>3. Len(sign) \in Nat /\ Len(rest) \in Nat
    BY LenProperties
  <1> HIDE DEF F
  <1>4. /\ u \in Seq(Cells) /\ Len(u) = kb + Len(sign) /\ v \in Seq(Cells)
        /\ Len(v) = Len(sign) + kb
    BY <1>1, ConcatProperties
  <1> DEFINE ur == u \o rest
             vr == v \o rest
  <1> HIDE DEF u, v
  <1>5. ur \in Seq(Cells) /\ Len(ur) = Len(u) + Len(rest)
    BY <1>4, ConcatProperties
  <1>6. vr \in Seq(Cells) /\ Len(vr) = Len(v) + Len(rest)
    BY <1>4, ConcatProperties
  <1>7. SignedText(sign, kb, rest, spec) = ur \/ SignedText(sign, kb, rest, spec) = vr
    BY DEF SignedText, F, u, v
  <1> HIDE DEF ur, vr
  <1>8. /\ Len(ur) = Len(Blanked(kb, rest)) + Len(sign)
        /\ Len(vr) = Len(Blanked(kb, rest)) + Len(sign)
    BY <1>2, <1>3, <1>4, <1>5, <1>6
  <1> QED
    BY <1>5, <1>6, <1>7, <1>8

IsLeft(spec) == spec.align = "left"
(* How the text of a double is made, as it is padded.                       *)
DoubleText(sign, digits, k, spec) ==
    SignedText(sign, BlanksAhead(k, IsLeft(spec)), WithBehind(digits, k, IsLeft(spec)), spec)
DoublePadding(sign, digits, spec) ==
    Padded(sign, digits, spec.align, IF IsLeft(spec) THEN Blank ELSE spec.fill, spec.width)

(* A number that snprintf has padded as wide as it should is laid out so.   *)
LEMMA TextIsLayout ==
    ASSUME NEW sign \in SignTexts, NEW digits \in Seq(Cells), Len(digits) > 0, digits[1] # Blank,
           NEW spec, spec.width \in Nat, spec.fill \in Cells, spec.align \in Aligns,
           NEW k \in Int, NEW lack, lack = Lacks(sign, digits, spec.width),
           lack > 0 /\ spec.align # "center" => k = lack,
           lack <= 0 \/ spec.align = "center" => k <= 0
    PROVE  /\ lack <= 0 \/ spec.align = "center" =>
                 DoubleText(sign, digits, k, spec) = sign \o digits
           /\ lack <= 0 \/ spec.align # "center" =>
                 DoubleText(sign, digits, k, spec) = DoublePadding(sign, digits, spec)
  <1> DEFINE left == IsLeft(spec)
             kb == BlanksAhead(k, left)
             rest == WithBehind(digits, k, left)
             fill == spec.fill
             out == Blanked(kb, rest)
             inside == SignInside(sign, out, spec)
             F == Fill(fill, kb)
             z == DoublePadding(sign, digits, spec)
             text == DoubleText(sign, digits, k, spec)
             pf == IF left THEN Blank ELSE fill
  <1>0. sign \in Seq(Cells) /\ left \in BOOLEAN /\ (left <=> spec.align = "left")
    BY SignCells DEF IsLeft
  <1>1. lack \in Int
    <2>1. Len(sign) \in Nat /\ Len(digits) \in Nat
      BY <1>0, LenProperties
    <2> QED
      BY <2>1 DEF Lacks
  <1>2. text = IF inside THEN (F \o sign) \o rest ELSE (sign \o F) \o rest
    BY DEF DoubleText, SignedText
  <1>3. PaddedAs(z, sign, digits, spec.align, pf, lack)
    <2> HIDE DEF pf
    <2>1. PaddedAs(Padded(sign, digits, spec.align, pf, spec.width), sign, digits, spec.align, pf,
                   Lacks(sign, digits, spec.width))
      BY <1>0, PaddedIs
    <2> QED
      BY <2>1 DEF DoublePadding, pf
  <1>4. inside <=> sign # <<>> /\ spec.align \in {"right", "default"} /\ kb > 0
    <2>1. /\ kb \in Nat /\ rest \in Seq(Cells) /\ Len(rest) > 0 /\ rest[1] # Blank
      <3> DEFINE w == k + Len(digits)
      <3>1. Len(digits) \in Nat
        BY LenProperties
      <3>2. w \in Int /\ k = w - Len(digits)
        BY <3>1
      <3> HIDE DEF w, left
      <3> QED
        BY <1>0, <3>2, SnprintfIs
    <2> HIDE DEF kb, rest
    <2>2. out[1] = Blank <=> kb > 0
      BY <2>1, BlanksAre DEF Blanked
    <2> QED
      BY <2>2 DEF SignInside
  <1>5. Fill(fill, 0) = <<>> /\ (k <= 0 => Fill(Blank, k) = <<>>)
    <2> HIDE DEF fill
    <2>1. Fill(fill, 0) = <<>>
      <3>1. 0 \in Int /\ fill \in Cells
        BY DEF fill
      <3> QED
        BY <3>1, FillIs
    <2>2. k <= 0 => Fill(Blank, k) = <<>>
      BY BlankFill
    <2> QED
      BY <2>1, <2>2
  <1>6. sign \o <<>> = sign /\ digits \o <<>> = digits
    BY <1>0, ConcatEmptySeq
  <1>7. lack <= 0 \/ spec.align = "center" => text = sign \o digits
    <2> SUFFICES ASSUME lack <= 0 \/ spec.align = "center" PROVE text = sign \o digits
      OBVIOUS
    <2>1. k <= 0
      OBVIOUS
    <2>2. kb = 0
      BY <1>0, <2>1 DEF BlanksAhead
    <2>3. rest = digits
      BY <1>0, <1>5, <1>6, <2>1 DEF WithBehind
    <2>4. F = <<>>
      BY <1>5, <2>2
    <2> HIDE DEF F, rest, inside, text, kb
    <2> QED
      BY <1>2, <1>4, <1>6, <2>2, <2>3, <2>4
  <1>8. lack <= 0 \/ spec.align # "center" => text = z
    <2>1. CASE lack <= 0
      <3>1. z = sign \o digits
        BY <1>3, <2>1 DEF PaddedAs
      <3> HIDE DEF z, text
      <3> QED
        BY <1>7, <2>1, <3>1
    <2>2. CASE lack > 0 /\ spec.align = "left"
      <3>1. left /\ pf = Blank /\ kb = 0 /\ k = lack
        BY <1>0, <2>2 DEF BlanksAhead
      <3> DEFINE B == Fill(Blank, lack)
      <3>2. rest = digits \o B
        BY <3>1 DEF WithBehind
      <3>3. F = <<>>
        BY <1>5, <3>1
      <3>4. ~inside
        <4> HIDE DEF inside
        <4>1. spec.align \notin {"right", "default"}
          BY <2>2
        <4> QED
          BY <1>4, <4>1
      <3>5. z = (sign \o digits) \o B
        <4> HIDE DEF z, pf, B
        <4>1. z = (sign \o digits) \o Fill(pf, lack)
          BY <1>3, <2>2 DEF PaddedAs
        <4> QED
          BY <3>1, <4>1 DEF B
      <3>6. B \in Seq(Cells)
        BY <1>1, BlankFill
      <3> HIDE DEF F, inside, z, text, B, rest
      <3>7. text = sign \o (digits \o B)
        BY <1>2, <1>6, <3>2, <3>3, <3>4
      <3>8. (sign \o digits) \o B = sign \o (digits \o B)
        BY <1>0, <3>6, RegroupCells
      <3> QED
        BY <3>5, <3>7, <3>8
    <2>3. CASE lack > 0 /\ spec.align \in {"numeric", "right", "default"}
      <3>1. ~left /\ pf = fill /\ kb = lack /\ k = lack
        BY <1>0, <1>1, <2>3 DEF BlanksAhead
      <3>2. rest = digits
        BY <3>1 DEF WithBehind
      <3>3. F = Fill(fill, lack)
        BY <3>1
      <3>4. F \in Seq(Cells)
        <4>1. fill \in Cells
          OBVIOUS
        <4> HIDE DEF fill
        <4>2. Fill(fill, lack) \in Seq(Cells)
          BY <1>1, <4>1, FillIs
        <4> QED
          BY <3>3, <4>2
      <3>5. CASE spec.align = "numeric"
        <4>1. z = (sign \o F) \o digits
          <5> HIDE DEF z, pf, F
          <5>1. z = (sign \o Fill(pf, lack)) \o digits
            BY <1>3, <2>3, <3>5 DEF PaddedAs
          <5> QED
            BY <3>1, <3>3, <5>1
        <4>2. ~inside
          <5> HIDE DEF inside
          <5>1. spec.align \notin {"right", "default"}
            BY <3>5
          <5> QED
            BY <1>4, <5>1
        <4> HIDE DEF F, inside, z, text, rest
        <4> QED
          BY <1>2, <3>2, <4>1, <4>2
      <3>6. CASE spec.align \in {"right", "default"}
        <4>1. z = (F \o sign) \o digits
          <5> HIDE DEF z, pf, F
          <5>0. spec.align \notin {"left", "numeric", "center"}
            BY <3>6
          <5>1. z = (Fill(pf, lack) \o sign) \o digits
            BY <1>3, <2>3, <5>0 DEF PaddedAs
          <5> QED
            BY <3>1, <3>3, <5>1
        <4>2. inside <=> sign # <<>>
          <5> HIDE DEF inside, kb
          <5>1. kb > 0
            BY <2>3, <3>1
          <5> QED
            BY <1>4, <3>6, <5>1
        <4>3. <<>> \o F = F /\ F \o <<>> = F
          <5> HIDE DEF F
          <5> QED
            BY <3>4, ConcatEmptySeq
        <4> HIDE DEF F, inside, z, text, rest
        <4> QED
          BY <1>2, <3>2, <4>1, <4>2, <4>3
      <3> QED
        BY <2>3, <3>5, <3>6
    <2>4. spec.align \in {"left", "center", "numeric", "right", "default"}
      BY DEF Aligns
    <2> HIDE DEF text, z
    <2> QED
      BY <1>1, <2>1, <2>2, <2>3, <2>4
  <1> QED
    BY <1>7, <1>8

(* What write_double gives snprintf: a place, its room and a width.         *)
RoomFor(b, sign, spec) ==
    IF sign = <<>> THEN b ELSE reserve(b, b.size + (IF spec.width > 1 THEN spec.width ELSE 1))
RoomIn(b, sign, spec) == IF sign = <<>> THEN capacity(b) ELSE b.size + spec.width
PrintWidth(sign, spec) ==
    IF spec.align = "center" THEN 0
    ELSE IF sign # <<>> /\ spec.width > 0 THEN spec.width - 1 ELSE spec.width
PrintedOut(sign, digits, spec) == snprintf(digits, PrintWidth(sign, spec), spec.align = "left")
PrintedIn(b, sign, digits, spec) ==
    SignAndFill(format_float(RoomFor(b, sign, spec), b.size + Len(sign),
                             PrintedOut(sign, digits, spec)),
                b.size, sign, PrintedOut(sign, digits, spec), spec)
PrintedText(sign, digits, spec) ==
    DoubleText(sign, digits, PrintWidth(sign, spec) - Len(digits), spec)

LEMMA RoomForIs ==
    ASSUME NEW b, IsBuffer(b), NEW sign, NEW spec, spec.width \in Nat
    PROVE  /\ Beyond(RoomFor(b, sign, spec), b, <<>>, RoomIn(b, sign, spec))
           /\ RoomIn(b, sign, spec) \in Int
  <1>0. b.size \in Nat /\ capacity(b) \in Nat /\ b.size <= capacity(b) /\ Len(<<>>) = 0
        /\ \A i \in 1..0 : FALSE
    BY BufferParts
  <1> DEFINE e == <<>>
  <1>1. CASE sign = <<>>
    <2>1. RoomFor(b, sign, spec) = b /\ RoomIn(b, sign, spec) = capacity(b)
      BY <1>1 DEF RoomFor, RoomIn
    <2>2. \A i \in 1..Len(e) : b.cells[b.size + i] = e[i]
      BY <1>0
    <2>3. Len(e) = 0
      BY <1>0
    <2> HIDE DEF e
    <2>4. Beyond(b, b, e, capacity(b))
      BY <1>0, <2>2, <2>3 DEF Beyond
    <2> QED
      BY <1>0, <2>1, <2>4 DEF e
  <1>2. CASE sign # <<>>
    <2> DEFINE sz == b.size + (IF spec.width > 1 THEN spec.width ELSE 1)
               q == reserve(b, sz)
               cap == b.size + spec.width
    <2>1. RoomFor(b, sign, spec) = q /\ RoomIn(b, sign, spec) = cap
      BY <1>2 DEF RoomFor, RoomIn
    <2>2. sz \in Nat /\ cap \in Int /\ sz >= cap /\ sz >= b.size
      BY <1>0
    <2> HIDE DEF sz, cap
    <2>3. /\ IsBuffer(q) /\ q.size = b.size /\ q.lost = b.lost
          /\ capacity(q) >= sz /\ capacity(q) >= capacity(b)
          /\ \A i \in 1..b.size : q.cells[i] = b.cells[i]
      BY <2>2, ReservedIs
    <2> HIDE DEF q
    <2>4. capacity(q) \in Nat
      BY <2>3, BufferParts
    <2>5. \A i \in 1..Len(e) : q.cells[b.size + i] = e[i]
      BY <1>0
    <2>6. Len(e) = 0
      BY <1>0
    <2> HIDE DEF e
    <2>7. capacity(q) >= cap /\ b.size + Len(e) <= capacity(q)
      BY <1>0, <2>2, <2>3, <2>4, <2>6
    <2>8. Beyond(q, b, e, cap)
      BY <2>3, <2>5, <2>7 DEF Beyond
    <2> QED
      BY <2>1, <2>2, <2>8 DEF e
  <1> QED
    BY <1>1, <1>2

(* The number with its sign is printed behind what is in use.               *)
LEMMA NumberPrinted ==
    ASSUME NEW b, IsBuffer(b), NEW sign \in SignTexts, NEW digits \in Seq(Cells), Len(digits) > 0,
           digits[1] # Blank, NEW spec, spec.width \in Nat, spec.fill \in Cells
    PROVE  /\ Beyond(PrintedIn(b, sign, digits, spec), b, PrintedText(sign, digits, spec),
                     RoomIn(b, sign, spec))
           /\ PrintedText(sign, digits, spec) \in Seq(Cells)
           /\ Len(PrintedText(sign, digits, spec)) = Len(PrintedOut(sign, digits, spec)) + Len(sign)
  <1> DEFINE w == PrintWidth(sign, spec)
             k == w - Len(digits)
             left == IsLeft(spec)
             kb == BlanksAhead(k, left)
             rest == WithBehind(digits, k, left)
             out == PrintedOut(sign, digits, spec)
             room == RoomFor(b, sign, spec)
             cap == RoomIn(b, sign, spec)
             ls == Len(sign)
             ff == format_float(room, b.size + ls, out)
             inside == SignInside(sign, out, spec)
             text == PrintedText(sign, digits, spec)
  <1>0. sign \in Seq(Cells) /\ ls \in Nat /\ left \in BOOLEAN /\ left = (spec.align = "left")
    BY SignCells, LenProperties DEF IsLeft
  <1>1. w \in Int
    BY DEF PrintWidth
  <1>2. /\ k \in Int /\ kb \in Nat /\ rest \in Seq(Cells) /\ Len(rest) > 0 /\ rest[1] # Blank
        /\ snprintf(digits, w, left) = Blanked(kb, rest)
    <2> HIDE DEF left, w
    <2>1. k = w - Len(digits) /\ left \in BOOLEAN
      BY <1>0
    <2> HIDE DEF k
    <2> QED
      BY <1>1, <2>1, SnprintfIs
  <1>3. out = Blanked(kb, rest)
    <2> HIDE DEF kb, rest, left
    <2> QED
      BY <1>0, <1>2 DEF PrintedOut
  <1> HIDE DEF kb, rest, left, k, w
  <1>4. Blanked(kb, rest) \in Seq(Cells)
    BY <1>2, BlanksAre DEF Blanked
  <1>5. Beyond(room, b, <<>>, cap) /\ cap \in Int
    BY RoomForIs
  <1> HIDE DEF out, room, cap, ls
  <1>6. PICK x \in Seq(Cells) : Len(x) = ls /\ Beyond(ff, b, x \o out, cap)
    <2>1. out \in Seq(Cells)
      BY <1>3, <1>4
    <2> QED
      BY <1>0, <1>5, <2>1, FloatPrinted
  <1> HIDE DEF ff
  <1>7. Beyond(SignAndFill(ff, b.size, sign, Blanked(kb, rest), spec), b,
               IF SignInside(sign, Blanked(kb, rest), spec)
               THEN (Fill(spec.fill, kb) \o sign) \o rest
               ELSE (sign \o Fill(spec.fill, kb)) \o rest, cap)
    <2>1. Beyond(ff, b, x \o Blanked(kb, rest), cap) /\ Len(x) = Len(sign)
      BY <1>3, <1>6 DEF ls
    <2> QED
      BY <1>2, <1>5, <1>6, <2>1, SignedFormatIs
  <1>8. text = SignedText(sign, kb, rest, spec)
    BY DEF PrintedText, DoubleText, kb, rest, left, k, w
  <1>9. SignedText(sign, kb, rest, spec) \in Seq(Cells)
        /\ Len(SignedText(sign, kb, rest, spec)) = Len(Blanked(kb, rest)) + Len(sign)
    <2>1. kb \in Nat /\ rest \in Seq(Cells) /\ Len(rest) > 0 /\ rest[1] # Blank
      BY <1>2
    <2>2. sign \in Seq(Cells)
      BY <1>0
    <2>3. SignedText(sign, kb, rest, spec) \in Seq(Cells)
      BY <2>1, <2>2, SignedTextIs
    <2> QED
      BY <2>1, <2>2, <2>3, SignedTextIs
  <1>10. Beyond(SignAndFill(ff, b.size, sign, out, spec), b, text, cap)
    BY <1>3, <1>7, <1>8 DEF SignedText
  <1>11. PrintedIn(b, sign, digits, spec) = SignAndFill(ff, b.size, sign, out, spec)
    BY DEF PrintedIn, ff, out, room, ls
  <1> HIDE DEF text
  <1> QED
    BY <1>3, <1>8, <1>9, <1>10, <1>11 DEF text, out, cap

(* A text of all its cells.                                                 *)
LEMMA ThreeAll ==
    ASSUME NEW x \in Seq(Cells)
    PROVE  Three(x, <<>>, x, <<>>)
  <1> DEFINE e == <<>>
             u == (e \o x) \o e
  <1>1. e \in Seq(Cells)
    BY EmptySeq
  <1>2. u = x
    <2>1. <<>> \o x = x /\ x \o <<>> = x
      BY ConcatEmptySeq
    <2> QED
      BY <2>1
  <1> HIDE DEF e
  <1>3. Three(u, e, x, e)
    BY <1>1, ThreeParts
  <1> HIDE DEF u
  <1> QED
    BY <1>2, <1>3 DEF e

(* A text written over the whole of an area.                                *)
LEMMA AllWritten ==
    ASSUME NEW b, IsBuffer(b), NEW r, NEW s \in Seq(Cells), NEW t \in Seq(Cells),
           Len(s) = Len(t), Holds(r, b, s)
    PROVE  Holds(WriteAt(r, b.size, t), b, t)
  <1> DEFINE e == <<>>
             q == WriteAt(r, b.size + Len(e), t)
  <1>1. Three(s, e, s, e) /\ Three(t, e, t, e)
    BY ThreeAll
  <1>2. b.size + Len(e) = b.size
    <2>1. Len(<<>>) = 0 /\ b.size \in Nat
      BY BufferParts
    <2> QED
      BY <2>1
  <1>3. Len(t) = Len(s)
    OBVIOUS
  <1> HIDE DEF e
  <1>4. Holds(q, b, t)
    BY <1>1, <1>3, Overwritten
  <1> QED
    BY <1>2, <1>4 DEF q

(* A number is centred in the room that there is for it.                    *)
LEMMA CentredIs ==
    ASSUME NEW b, IsBuffer(b), NEW sign \in Seq(Cells), NEW digits \in Seq(Cells), NEW spec,
           spec.width \in Nat, spec.fill \in Cells, NEW r, NEW cap \in Int, NEW n \in Nat,
           n = Len(sign) + Len(digits), n < spec.width,
           Beyond(r, b, sign \o digits, cap), b.size + spec.width <= capacity(r)
    PROVE  Holds(Centred(grow_buffer(r, spec.width), b.size, n, spec), b,
                 Padded(sign, digits, "center", spec.fill, spec.width))
  <1> DEFINE width == spec.width
             fill == spec.fill
             text == sign \o digits
             g == grow_buffer(r, width)
             lack == Lacks(sign, digits, width)
             h == lack \div 2
             H == Fill(fill, h)
             R == Fill(fill, lack - h)
             area == (H \o text) \o R
             z == Padded(sign, digits, "center", fill, width)
  <1>1. text \in Seq(Cells) /\ Len(text) = n
    BY ConcatProperties
  <1>2. lack = width - n /\ lack \in Nat /\ lack > 0
    BY DEF Lacks
  <1>3. h \in Nat /\ h <= lack /\ lack - h \in Nat
    <2> HIDE DEF lack
    <2>1. h \in 0..lack
      BY <1>2, Half
    <2> HIDE DEF h
    <2> QED
      BY <1>2, <2>1
  <1>4. H \in Seq(Cells) /\ Len(H) = h /\ R \in Seq(Cells) /\ Len(R) = lack - h
    <2> DEFINE e == lack - h
    <2>1. h \in Int /\ e \in Int /\ h \in Nat /\ e \in Nat
      BY <1>3
    <2>2. fill \in Cells
      OBVIOUS
    <2> HIDE DEF h, e, fill
    <2>3. Fill(fill, h) \in Seq(Cells)
      BY <2>1, <2>2, FillIs
    <2>4. Fill(fill, e) \in Seq(Cells)
      BY <2>1, <2>2, FillIs
    <2>5. Len(Fill(fill, h)) = IF h < 0 THEN 0 ELSE h
      BY <2>1, <2>2, FillIs
    <2>6. Len(Fill(fill, e)) = IF e < 0 THEN 0 ELSE e
      BY <2>1, <2>2, FillIs
    <2> DEFINE E == Fill(fill, e)
    <2> HIDE DEF H, E
    <2>7. Len(H) = h /\ Len(E) = e
      BY <2>1, <2>5, <2>6 DEF H, E
    <2> QED
      BY <2>3, <2>4, <2>7 DEF H, E, e
  <1>5. PaddedAs(z, sign, digits, "center", fill, lack)
    <2> HIDE DEF fill
    <2> QED
      BY PaddedIs
  <1> HIDE DEF text
  <1>6. area \in Seq(Cells) /\ Len(area) = width
    <2> HIDE DEF H, R
    <2> DEFINE ht == H \o text
    <2>1. ht \in Seq(Cells) /\ Len(ht) = Len(H) + Len(text)
      BY <1>1, <1>4, ConcatProperties
    <2> HIDE DEF ht
    <2>2. ht \o R \in Seq(Cells) /\ Len(ht \o R) = Len(ht) + Len(R)
      BY <1>4, <2>1, ConcatProperties
    <2>3. area = ht \o R
      BY DEF ht
    <2> DEFINE lt == Len(ht)
               la == Len(ht \o R)
               lr == Len(R)
    <2>4. lt = h + n /\ lr = lack - h /\ la = lt + lr
      BY <1>1, <1>4, <2>1, <2>2
    <2>5. n + lack = width /\ lack \in Int /\ h \in Int
      <3> HIDE DEF lack, h
      <3> QED
        BY <1>2, <1>3
    <2> HIDE DEF lack, h, area, lt, la, lr, width
    <2>6. la = width
      BY <2>4, <2>5
    <2> QED
      BY <2>2, <2>3, <2>6 DEF la
  <1>7. z = area
    <2> HIDE DEF H, R, z, lack
    <2>1. z = ((H \o sign) \o digits) \o R
      BY <1>2, <1>5 DEF PaddedAs, H, R
    <2>2. (H \o sign) \o digits = H \o text
      <3>1. H \in Seq(Cells)
        BY <1>4
      <3>2. (H \o sign) \o digits = H \o (sign \o digits)
        BY <3>1, RegroupCells
      <3> QED
        BY <3>2 DEF text
    <2> QED
      BY <2>1, <2>2
  <1>8. /\ IsBuffer(r) /\ r.lost = b.lost /\ r.size = b.size /\ capacity(r) >= cap
        /\ capacity(r) \in Nat /\ b.size \in Nat
        /\ \A i \in 1..b.size : r.cells[i] = b.cells[i]
        /\ \A i \in 1..n : r.cells[b.size + i] = text[i]
    <2>1. IsBuffer(r) /\ b.size \in Nat
      BY BufferParts DEF Beyond
    <2>2. capacity(r) \in Nat
      BY <2>1, BufferParts
    <2>3. Beyond(r, b, text, cap)
      BY DEF text
    <2> QED
      BY <1>1, <2>1, <2>2, <2>3 DEF Beyond
  <1>9. PICK s \in Seq(Cells) : Len(s) = width /\ Beyond(r, b, s, cap)
    <2>1. width \in Nat /\ b.size + width <= capacity(r)
      OBVIOUS
    <2> HIDE DEF width
    <2> QED
      BY <1>8, <2>1, BeyondSome
  <1>10. Holds(g, b, s)
    <2>1. Holds(grow_buffer(r, Len(s)), b, s)
      BY <1>9, BeyondGrown
    <2> QED
      BY <1>9, <2>1
  <1>11. g.cells = r.cells
    <2>1. width \in Nat /\ r.size + width <= capacity(r)
      BY <1>8
    <2> HIDE DEF width
    <2> QED
      BY <1>8, <2>1, GrewBy
  <1>12. SubSeq(g.cells, b.size + 1, b.size + n) = text
    <2> DEFINE c == r.cells
               lo == b.size + 1
               hi == b.size + n
               sub == SubSeq(c, lo, hi)
    <2>1. c \in Seq(Cells) /\ Len(c) = capacity(r)
      BY <1>8, BufferParts DEF capacity
    <2>2. lo \in 1..(Len(c) + 1) /\ hi \in (lo - 1)..Len(c) /\ (hi - lo) + 1 = n
      <3> HIDE DEF c
      <3>1. b.size + n <= Len(c) /\ Len(c) \in Nat
        BY <1>8, <2>1
      <3>2. b.size \in Nat /\ n \in Nat
        BY <1>8
      <3> DEFINE m == Len(c)
                 at == b.size
      <3> HIDE DEF m, at
      <3>3. at \in Nat /\ m \in Nat /\ at + n <= m
        BY <3>1, <3>2 DEF m, at
      <3>4. /\ at + 1 \in 1..(m + 1) /\ at + n \in ((at + 1) - 1)..m
            /\ ((at + n) - (at + 1)) + 1 = n
        BY <3>3
      <3> QED
        BY <3>4 DEF m, at
    <2> HIDE DEF c
    <2>3. /\ sub \in Seq(Cells) /\ Len(sub) = n
          /\ \A i \in 1..n : sub[i] = c[lo + i - 1]
      <3> HIDE DEF lo, hi
      <3>1. /\ sub \in Seq(Cells)
            /\ Len(sub) = IF lo <= hi THEN (hi - lo) + 1 ELSE 0
            /\ \A i \in 1..((hi - lo) + 1) : sub[i] = c[lo + i - 1]
        <4>1. lo \in Int /\ hi \in Int
          BY <2>2
        <4>2. \A i \in lo..hi : c[i] \in Cells
          <5>1. \A i \in lo..hi : i \in 1..Len(c)
            BY <2>2
          <5> QED
            BY <2>1, <5>1, ElementOfSeq
        <4> QED
          BY <4>1, <4>2, SubSeqProperties
      <3>2. lo \in Int /\ hi \in Int /\ ~(lo <= hi) => n = 0
        BY <2>2
      <3> HIDE DEF sub
      <3> QED
        BY <2>2, <3>1, <3>2
    <2> HIDE DEF sub
    <2>4. \A i \in 1..n : sub[i] = text[i]
      <3> SUFFICES ASSUME NEW i \in 1..n PROVE sub[i] = text[i]
        OBVIOUS
      <3>1. lo + i - 1 = b.size + i
        BY <1>8
      <3> HIDE DEF lo
      <3> QED
        BY <1>8, <2>3, <3>1 DEF c
    <2>5. sub = text
      BY <1>1, <2>3, <2>4, SeqEqual
    <2> QED
      BY <1>11, <2>5 DEF sub, c
  <1>13. Centred(g, b.size, n, spec) = WriteAt(g, b.size, area)
    <2>1. fill_padding(width, n) = h /\ (width - n) - h = lack - h
      BY <1>2 DEF fill_padding
    <2>2. Centred(g, b.size, n, spec)
            = WriteAt(g, b.size, (Fill(fill, fill_padding(width, n))
                                    \o SubSeq(g.cells, b.size + 1, b.size + n))
                                    \o Fill(fill, (width - n) - fill_padding(width, n)))
      BY DEF Centred
    <2> HIDE DEF g, h, lack, text
    <2> QED
      BY <1>12, <2>1, <2>2
  <1> HIDE DEF g, area, z
  <1>14. Holds(WriteAt(g, b.size, area), b, area)
    <2>1. Len(s) = Len(area)
      BY <1>6, <1>9
    <2> QED
      BY <1>6, <1>9, <1>10, <2>1, AllWritten
  <1> QED
    BY <1>7, <1>13, <1>14 DEF z, g

-----------------------------------------------------------------------------
(* The specification of a double, and its value.                            *)
IsDoubleSpec(spec) == /\ spec.width \in Nat /\ spec.fill \in Cells /\ spec.align \in Aligns
                      /\ spec.type \in DoubleCodes
IsDouble(value) == /\ value.negative \in BOOLEAN /\ value.finite \in BOOLEAN
                   /\ value.digits \in Seq(Cells) /\ Len(value.digits) > 0
                   /\ value.digits[1] # Blank

(* What write_number does, by the width and the alignment.                  *)
LEMMA NumberIs ==
    ASSUME NEW b, NEW value, NEW spec
    PROVE  LET sign == SignPrefix(value.negative, spec)
               p == PrintedIn(b, sign, value.digits, spec)
               n == Len(PrintedOut(sign, value.digits, spec)) + Len(sign)
           IN  /\ spec.align = "center" /\ spec.width > n =>
                     write_number(b, value, spec)
                       = Centred(grow_buffer(p, spec.width), b.size, n, spec)
               /\ ~(spec.align = "center" /\ spec.width > n) =>
                     write_number(b, value, spec) = grow_buffer(p, n)
  <1> DEFINE sign == SignPrefix(value.negative, spec)
             out == PrintedOut(sign, value.digits, spec)
             p == PrintedIn(b, sign, value.digits, spec)
             n == Len(out) + Len(sign)
  <1>1. write_number(b, value, spec)
          = IF spec.align = "center" /\ spec.width > n
            THEN Centred(grow_buffer(p, spec.width), b.size, n, spec)
            ELSE grow_buffer(p, n)
    BY DEF write_number, PrintedIn, PrintedOut, RoomFor, PrintWidth
  <1> QED
    BY <1>1

(* snprintf is asked for the width that the sign leaves.                    *)
LEMMA WidthLeft ==
    ASSUME NEW sign \in SignTexts, NEW digits \in Seq(Cells), Len(digits) > 0, NEW spec,
           spec.width \in Nat, NEW k, k = PrintWidth(sign, spec) - Len(digits),
           NEW lack, lack = Lacks(sign, digits, spec.width)
    PROVE  /\ k \in Int /\ lack \in Int
           /\ lack > 0 /\ spec.align # "center" => k = lack
           /\ lack <= 0 \/ spec.align = "center" => k <= 0
  <1> DEFINE ls == Len(sign)
             ld == Len(digits)
             w == spec.width
             pw == PrintWidth(sign, spec)
  <1>1. ls \in {0, 1} /\ (ls = 0 <=> sign = <<>>) /\ ld \in Nat /\ ld > 0 /\ w \in Nat
    BY SignCells, LenProperties
  <1>2. pw = IF spec.align = "center" THEN 0 ELSE IF sign # <<>> /\ w > 0 THEN w - 1 ELSE w
    BY DEF PrintWidth
  <1>3. lack = w - (ls + ld) /\ k = pw - ld
    BY DEF Lacks
  <1> HIDE DEF ls, ld, w, pw
  <1>4. CASE spec.align = "center"
    BY <1>1, <1>2, <1>3, <1>4
  <1>5. CASE spec.align # "center" /\ w = 0
    BY <1>1, <1>2, <1>3, <1>5
  <1>6. CASE spec.align # "center" /\ w > 0 /\ ls = 0
    BY <1>1, <1>2, <1>3, <1>6
  <1>7. CASE spec.align # "center" /\ w > 0 /\ ls = 1
    BY <1>1, <1>2, <1>3, <1>7
  <1> QED
    BY <1>1, <1>4, <1>5, <1>6, <1>7

(* A finite double is laid out as it should be, unless it is moved too late. *)
LEMMA NumberWritten ==
    ASSUME NEW b, IsBuffer(b), b.lost = FALSE, NEW value, IsDouble(value), value.finite,
           NEW spec, IsDoubleSpec(spec)
    PROVE  LaidOut(b, write_number(b, value, spec), DoubleLayout(value, spec),
                   MovedLate(b, value, spec))
  <1> DEFINE sign == SignPrefix(value.negative, spec)
             digits == value.digits
             text == PrintedText(sign, digits, spec)
             p == PrintedIn(b, sign, digits, spec)
             out == PrintedOut(sign, digits, spec)
             n == Len(out) + Len(sign)
             cap == RoomIn(b, sign, spec)
             k == PrintWidth(sign, spec) - Len(digits)
             lack == Lacks(sign, digits, spec.width)
             r == write_number(b, value, spec)
             z == DoublePadding(sign, digits, spec)
             late == MovedLate(b, value, spec)
             width == spec.width
  <1>0. /\ spec.width \in Nat /\ spec.fill \in Cells /\ spec.align \in Aligns
        /\ digits \in Seq(Cells) /\ Len(digits) > 0 /\ digits[1] # Blank
        /\ value.negative \in BOOLEAN
    BY DEF IsDoubleSpec, IsDouble
  <1>1. sign \in SignTexts /\ sign \in Seq(Cells)
    <2>1. sign \in SignTexts
      BY <1>0, SignIs
    <2> QED
      BY <2>1, SignCells
  <1>2. /\ spec.align = "center" /\ spec.width > n =>
              r = Centred(grow_buffer(p, spec.width), b.size, n, spec)
        /\ ~(spec.align = "center" /\ spec.width > n) => r = grow_buffer(p, n)
    <2> HIDE DEF r
    <2> QED
      BY NumberIs DEF r
  <1>3. DoubleLayout(value, spec) = z
    BY DEF DoubleLayout, DoublePadding, IsLeft
  <1>4. late <=> spec.align = "center" /\ sign = <<>> /\ b.size + width > capacity(b)
    BY DEF MovedLate
  <1> HIDE DEF sign, digits, r, late
  <1>5. /\ Beyond(p, b, text, cap) /\ text \in Seq(Cells) /\ Len(text) = n
    BY <1>0, <1>1, NumberPrinted
  <1>6. /\ k \in Int /\ lack \in Int
        /\ lack > 0 /\ spec.align # "center" => k = lack
        /\ lack <= 0 \/ spec.align = "center" => k <= 0
    <2> HIDE DEF k, lack
    <2> QED
      BY <1>0, <1>1, WidthLeft DEF k, lack
  <1>7. /\ lack <= 0 \/ spec.align = "center" => text = sign \o digits
        /\ lack <= 0 \/ spec.align # "center" => text = z
    <2> HIDE DEF k, lack
    <2>1. /\ lack <= 0 \/ spec.align = "center" =>
                DoubleText(sign, digits, k, spec) = sign \o digits
          /\ lack <= 0 \/ spec.align # "center" =>
                DoubleText(sign, digits, k, spec) = DoublePadding(sign, digits, spec)
      BY <1>0, <1>1, <1>6, TextIsLayout DEF lack
    <2> QED
      BY <2>1 DEF PrintedText, k
  <1>8. cap \in Int
    BY <1>0, RoomForIs
  <1>9. n \in Nat
    <2> HIDE DEF text, n
    <2> QED
      BY <1>5, LenProperties
  <1>10. /\ Len(sign) \in Nat /\ Len(digits) \in Nat
         /\ Len(sign \o digits) = Len(sign) + Len(digits)
    BY <1>0, <1>1, ConcatProperties, LenProperties
  <1>11. lack = width - (Len(sign) + Len(digits)) /\ width \in Nat
    BY <1>0 DEF Lacks
  <1> HIDE DEF text, p, out, cap, k, lack, z
  <1>12. IsBuffer(p) /\ capacity(p) \in Nat /\ capacity(p) >= cap
    <2>1. IsBuffer(p) /\ capacity(p) >= cap
      BY <1>5 DEF Beyond
    <2> QED
      BY <2>1, BufferParts
  <1>13. CASE ~(spec.align = "center" /\ width > n)
    <2>1. text = z
      <3>1. CASE spec.align # "center"
        BY <1>7, <3>1
      <3>2. CASE spec.align = "center"
        <4>1. text = sign \o digits
          BY <1>7, <3>2
        <4>2. n = Len(sign) + Len(digits)
          BY <1>5, <1>10, <4>1
        <4>3. ~(width > n)
          BY <1>13, <3>2
        <4> HIDE DEF n, width
        <4>4. lack <= 0
          BY <1>9, <1>11, <4>2, <4>3
        <4> QED
          BY <1>7, <4>4
      <3> QED
        BY <3>1, <3>2
    <2>2. r = grow_buffer(p, n)
      BY <1>2, <1>13
    <2>3. Holds(grow_buffer(p, Len(text)), b, text)
      BY <1>5, <1>8, BeyondGrown
    <2> HIDE DEF n
    <2>4. Holds(r, b, z)
      BY <1>5, <2>1, <2>2, <2>3
    <2>5. z \in Seq(Cells)
      BY <1>5, <2>1
    <2>6. LaidOut(b, r, z, late)
      BY <2>4, <2>5, HeldLaidOut
    <2> QED
      BY <1>3, <2>6 DEF r, late
  <1>14. CASE spec.align = "center" /\ width > n
    <2> DEFINE g == grow_buffer(p, width)
    <2>1. r = Centred(g, b.size, n, spec)
      BY <1>2, <1>14
    <2>2. text = sign \o digits
      BY <1>7, <1>14
    <2>3. n = Len(sign) + Len(digits)
      BY <1>5, <1>10, <2>2
    <2>4. z = Padded(sign, digits, "center", spec.fill, spec.width)
      BY <1>14 DEF z, DoublePadding, IsLeft
    <2>5. z \in Seq(Cells)
      BY <1>0, <1>1, <2>4, PaddedType
    <2>6. ~late => Holds(r, b, z)
      <3> SUFFICES ASSUME ~late PROVE Holds(r, b, z)
        OBVIOUS
      <3>1. b.size + width <= cap
        <4>1. b.size \in Nat /\ capacity(b) \in Nat
          BY BufferParts
        <4>2. CASE sign = <<>>
          <5>1. cap = capacity(b)
            BY <4>2 DEF cap, RoomIn
          <5>2. ~(b.size + width > capacity(b))
            BY <1>4, <1>14, <4>2
          <5> HIDE DEF width
          <5> QED
            BY <1>11, <4>1, <5>1, <5>2
        <4>3. CASE sign # <<>>
          <5>1. cap = b.size + width
            BY <4>3 DEF cap, RoomIn
          <5> HIDE DEF width
          <5> QED
            BY <1>11, <4>1, <5>1
        <4> QED
          BY <4>2, <4>3
      <3>2. b.size + spec.width <= capacity(p)
        <4>1. b.size \in Nat
          BY BufferParts
        <4> QED
          BY <1>8, <1>11, <1>12, <3>1, <4>1
      <3>3. Beyond(p, b, sign \o digits, cap)
        BY <1>5, <2>2
      <3>4. n < spec.width
        <4> HIDE DEF n
        <4> QED
          BY <1>9, <1>11, <1>14
      <3> HIDE DEF n, g
      <3>5. Holds(Centred(grow_buffer(p, spec.width), b.size, n, spec), b,
                  Padded(sign, digits, "center", spec.fill, spec.width))
        BY <1>0, <1>1, <1>8, <1>9, <2>3, <3>2, <3>3, <3>4, CentredIs
      <3> QED
        BY <2>1, <2>4, <3>5 DEF g
    <2>7. r.size <= capacity(r)
      <3>1. IsBuffer(g)
        <4> HIDE DEF width
        <4> QED
          BY <1>11, <1>12, GrewBy
      <3> HIDE DEF g
      <3>2. PICK ptr, chars : r = WriteTo(g, ptr, chars)
        BY <2>1 DEF Centred, WriteAt
      <3>3. r.size = g.size /\ capacity(r) = capacity(g)
        BY <3>1, <3>2, KeepsSize
      <3>4. g.size <= capacity(g)
        BY <3>1 DEF IsBuffer
      <3> QED
        BY <3>3, <3>4
    <2>8. late \in BOOLEAN
      BY DEF late, MovedLate
    <2>9. LaidOut(b, r, z, late)
      <3> HIDE DEF g, n
      <3>1. ~late => LaidOut(b, r, z, late)
        BY <2>5, <2>6, HeldLaidOut
      <3>2. late => LaidOut(b, r, z, late)
        BY <2>7 DEF LaidOut
      <3> QED
        BY <2>8, <3>1, <3>2
    <2> QED
      BY <1>3, <2>9 DEF r, late
  <1> QED
    BY <1>13, <1>14

(* A double is appended whole to any buffer.                                *)
LEMMA DoubleIsWhole ==
    ASSUME NEW b, IsBuffer(b), b.lost = FALSE, NEW arg, arg.type = "double", IsDouble(arg.value),
           NEW spec, IsDoubleSpec(spec), NEW sep
    PROVE  IsWhole(b, arg, spec, sep)
  <1> DEFINE value == arg.value
             sign == SignPrefix(value.negative, spec)
             digits == value.digits
             r == write_double(b, value, spec)
             z == DoubleLayout(value, spec)
             late == MovedLate(b, value, spec)
  <1>0. /\ spec.width \in Nat /\ spec.fill \in Cells /\ spec.align \in Aligns
        /\ digits \in Seq(Cells) /\ value.negative \in BOOLEAN /\ value.finite \in BOOLEAN
        /\ spec.type \in DoubleCodes
    BY DEF IsDoubleSpec, IsDouble
  <1>1. sign \in Seq(Cells)
    <2>1. sign \in SignTexts
      BY <1>0, SignIs
    <2> QED
      BY <2>1, SignCells
  <1>2. /\ value.finite => r = write_number(b, value, spec)
        /\ ~value.finite => r = write_str(b, sign \o digits, spec)
    <2>1. r = CASE spec.type \notin DoubleCodes -> Error("unknown format code")
                [] spec.type \in DoubleCodes /\ ~value.finite -> write_str(b, sign \o digits, spec)
                [] OTHER -> write_number(b, value, spec)
      BY Zenon DEF write_double
    <2> HIDE DEF r, sign, digits
    <2>2. value.finite => r = write_number(b, value, spec)
      BY Zenon, <1>0, <2>1
    <2>3. ~value.finite => r = write_str(b, sign \o digits, spec)
      BY Zenon, <1>0, <2>1
    <2> QED
      BY <2>2, <2>3
  <1>3. LaidOut(b, r, z, late)
    <2>1. CASE value.finite
      <3>1. r = write_number(b, value, spec)
        BY <1>2, <2>1
      <3>2. IsDouble(value)
        OBVIOUS
      <3> HIDE DEF r, value
      <3>3. LaidOut(b, write_number(b, value, spec), DoubleLayout(value, spec),
                    MovedLate(b, value, spec))
        BY <2>1, <3>2, NumberWritten
      <3> QED
        BY <3>1, <3>3
    <2>2. CASE ~value.finite
      <3>1. z = Padded(sign, digits, WordAlign(spec.align), spec.fill, spec.width)
        BY <2>2 DEF DoubleLayout, WordAlign
      <3>2. r = write_str(b, sign \o digits, spec)
        BY <1>2, <2>2
      <3> HIDE DEF r, z, sign, digits, late
      <3>3. Holds(write_str(b, sign \o digits, spec), b,
                  Padded(sign, digits, WordAlign(spec.align), spec.fill, spec.width))
        BY <1>0, <1>1, StrWritten
      <3>4. Padded(sign, digits, WordAlign(spec.align), spec.fill, spec.width) \in Seq(Cells)
        BY <1>0, <1>1, PaddedType
      <3>5. Holds(r, b, z) /\ z \in Seq(Cells)
        BY <3>1, <3>2, <3>3, <3>4
      <3> QED
        BY <3>5, HeldLaidOut
    <2> QED
      BY <2>1, <2>2
  <1> QED
    BY <1>3 DEF IsWhole

-----------------------------------------------------------------------------
(* What the inputs are made of is what the lemmas speak of.                 *)
LEMMA Wider ==
    ASSUME NEW S, NEW T, S \subseteq T, NEW s \in Seq(S)
    PROVE  s \in Seq(T)
  BY LenProperties, ElementOfSeq

LEMMA GivenCells == Symbols \subseteq Cells
  BY Zenon DEF Cells

LEMMA GivenBuffers == ASSUME NEW b \in Buffers PROVE IsBuffer(b) /\ b.lost = FALSE
  <1>1. /\ b \in [cells : Seq(Symbols), size : Nat, gen : Nat, lost : {FALSE}]
        /\ b.size <= Len(b.cells)
    BY NumbersAssumption DEF MemoryBuffers
  <1>2. b.cells \in Seq(Symbols)
    BY <1>1
  <1>3. b.cells \in Seq(Cells)
    BY <1>2, GivenCells, Wider
  <1>4. b \in [cells : Seq(Cells), size : Nat, gen : Nat, lost : BOOLEAN] /\ b.lost = FALSE
    BY <1>1, <1>3
  <1> QED
    BY <1>1, <1>4 DEF IsBuffer, capacity

(* Whatever the number, its specification and the room in the buffer, the   *)
(* number is written whole, padded as it is aligned, in the place counted   *)
(* for it.  (BasicWriter)                                                   *)
THEOREM NumbersAreWhole == InputSpec => []NumberIsWhole
  <1>1. ASSUME InputOK, input.kind = "int", NEW x \in Ints
        PROVE  IsWhole(input.with, x, input.of, <<",">>)
    <2>1. PICK s \in IntSpecs, a \in Aligns : input.of = WithAlign(s, a)
      BY <1>1 DEF InputOK
    <2>2. input.with \in Buffers
      BY <1>1 DEF InputOK
    <2>3. IsBuffer(input.with) /\ input.with.lost = FALSE
      BY <2>2, GivenBuffers
    <2>4. x.type \in IntTypes /\ x.value \in Lowest(x.type)..Highest(x.type)
      BY NumbersAssumption
    <2>5. s \in SpecParts(IntCodes)
      BY NumbersAssumption
    <2>6. IsIntSpec(input.of)
      <3>1. /\ s.width \in Nat /\ s.fill \in Symbols /\ s.precision \in {-1} \cup Nat
            /\ s.type \in IntCodes
        BY <2>5 DEF SpecParts
      <3>2. s.fill \in Cells
        BY <3>1, GivenCells
      <3> QED
        BY <2>1, <3>1, <3>2 DEF WithAlign, IsIntSpec
    <2>7. "," \in Cells
      BY Zenon DEF Cells
    <2>8. <<",">> \in Seq(Cells)
      BY <2>7, OneCell
    <2> QED
      BY <2>3, <2>4, <2>6, <2>8, IntIsWhole
  <1>2. ASSUME InputOK, input.kind = "double", NEW x \in Doubles
        PROVE  IsWhole(input.with, x, input.of, <<>>)
    <2>1. PICK s \in DoubleSpecs, a \in Aligns : input.of = WithAlign(s, a)
      BY <1>2 DEF InputOK
    <2>2. input.with \in Buffers
      BY <1>2 DEF InputOK
    <2>3. IsBuffer(input.with) /\ input.with.lost = FALSE
      BY <2>2, GivenBuffers
    <2>4. s \in SpecParts(DoubleCodes)
      BY NumbersAssumption
    <2>5. IsDoubleSpec(input.of)
      <3>1. s.width \in Nat /\ s.fill \in Symbols /\ s.type \in DoubleCodes
        BY <2>4 DEF SpecParts
      <3>2. s.fill \in Cells
        BY <3>1, GivenCells
      <3> QED
        BY <2>1, <3>1, <3>2 DEF WithAlign, IsDoubleSpec
    <2>6. x.type = "double" /\ IsDouble(x.value)
      <3>1. x \in [type : {"double"},
                   value : [negative : BOOLEAN, finite : BOOLEAN, digits : Seq(Symbols)]]
        BY NumbersAssumption
      <3>2. Len(x.value.digits) > 0 /\ x.value.digits[1] # Blank
        BY NumbersAssumption
      <3>3. x.value.digits \in Seq(Symbols)
        BY <3>1
      <3>4. x.value.digits \in Seq(Cells)
        BY <3>3, GivenCells, Wider
      <3> QED
        BY <3>1, <3>2, <3>4 DEF IsDouble
    <2> QED
      BY <2>3, <2>5, <2>6, DoubleIsWhole
  <1>3. InputOK => NumberIsWhole
    BY <1>1, <1>2 DEF NumberIsWhole
  <1> QED
    BY <1>3, InputsKeep, PTL
==============================================================================
