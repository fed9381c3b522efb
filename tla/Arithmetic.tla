----------------------------- MODULE Arithmetic -----------------------------
(***************************************************************************)
(* Lemmas about numbers: induction, functions defined by it, and remainders.*)
(***************************************************************************)
EXTENDS Integers, TLAPS, WellFoundedInduction

-----------------------------------------------------------------------------
(***************************************************************************)
(* Induction, and functions that are defined by it.                        *)
(***************************************************************************)

\* A set of natural numbers has a least element, and induction is a matter of
\* looking at it.
LEMMA NatLeast ==
    ASSUME NEW T \in SUBSET Nat, T # {}
    PROVE  \E x \in T : \A y \in T : x <= y
  <1> DEFINE R == OpToRel(<, Nat)
  <1>1. IsWellFoundedOn(R, Nat)
    BY NatLessThanWellFounded
  <1>2. \A x, y \in Nat : x < y => <<x, y>> \in R
    BY DEF OpToRel
  <1> HIDE DEF R
  <1>3. PICK x \in T : \A y \in T : ~ (<<y, x>> \in R)
    BY <1>1, WFMin
  <1>4. \A y \in T : ~ (y < x)
    BY <1>2, <1>3, Zenon
  <1> QED
    BY <1>4

\* What holds of 0, and of each number after one of which it holds, holds of all.
LEMMA StepByStep ==
    ASSUME NEW T, 0 \in T, \A n \in Nat : n \in T => n + 1 \in T
    PROVE  Nat \subseteq T
  <1>1. SUFFICES ASSUME Nat \ T # {} PROVE FALSE
    OBVIOUS
  <1>2. PICK n \in Nat \ T : \A m \in Nat \ T : n <= m
    BY <1>1, NatLeast
  <1>3. n # 0 /\ n - 1 \in Nat /\ n - 1 < n
    BY <1>2
  <1>4. n - 1 \in T
    BY <1>2, <1>3
  <1>5. (n - 1) + 1 \in T
    BY <1>3, <1>4
  <1> QED
    BY <1>2, <1>5

\* f takes, from c, the first n rounds of the step g.
Takes(f, n, S, c, g) == /\ f \in [0 .. n -> S] /\ f[0] = c
                        /\ \A m \in 0 .. n - 1 : f[m + 1] = g[m + 1][f[m]]

LEMMA OneRoundMore ==
    ASSUME NEW S, NEW c \in S, NEW g \in [Nat -> [S -> S]], NEW n \in Nat,
           NEW f, Takes(f, n, S, c, g)
    PROVE  \E h : Takes(h, n + 1, S, c, g)
  <1> DEFINE h == [m \in 0 .. n + 1 |-> IF m = n + 1 THEN g[n + 1][f[n]] ELSE f[m]]
  <1>1. f \in [0 .. n -> S] /\ f[0] = c /\ \A m \in 0 .. n - 1 : f[m + 1] = g[m + 1][f[m]]
    BY DEF Takes
  <1>2. h \in [0 .. n + 1 -> S] /\ h[0] = c
    BY <1>1
  <1>3. ASSUME NEW m \in 0 .. n
        PROVE  h[m + 1] = g[m + 1][h[m]]
    <2>1. CASE m = n
      BY <1>1, <2>1
    <2>2. CASE m # n
      <3>1. m \in 0 .. n - 1 /\ h[m + 1] = f[m + 1] /\ h[m] = f[m]
        BY <2>2
      <3> QED
        BY <1>1, <3>1
    <2> QED
      BY <2>1, <2>2
  <1>4. (n + 1) - 1 = n
    OBVIOUS
  <1> HIDE DEF h
  <1>5. Takes(h, n + 1, S, c, g)
    BY <1>2, <1>3, <1>4 DEF Takes
  <1> QED
    BY <1>5

LEMMA RoundsAgree ==
    ASSUME NEW S, NEW c \in S, NEW g \in [Nat -> [S -> S]], NEW n \in Nat,
           NEW a, Takes(a, n + 1, S, c, g), NEW b, Takes(b, n, S, c, g)
    PROVE  a[n] = b[n]
  <1> DEFINE T == {m \in Nat : m <= n => a[m] = b[m]}
  <1>1. /\ a[0] = c /\ b[0] = c
        /\ \A m \in 0 .. (n + 1) - 1 : a[m + 1] = g[m + 1][a[m]]
        /\ \A m \in 0 .. n - 1 : b[m + 1] = g[m + 1][b[m]]
    BY DEF Takes
  <1>2. 0 \in T
    BY <1>1
  <1>3. ASSUME NEW m \in Nat, m \in T
        PROVE  m + 1 \in T
    <2>1. SUFFICES ASSUME m + 1 <= n PROVE a[m + 1] = b[m + 1]
      OBVIOUS
    <2>2. m \in 0 .. n - 1 /\ m \in 0 .. (n + 1) - 1 /\ a[m] = b[m]
      BY <1>3, <2>1
    <2> QED
      BY <1>1, <2>2
  <1> HIDE DEF T
  <1>4. \A m \in Nat : m \in T => m + 1 \in T
    BY <1>3
  <1>5. Nat \subseteq T
    BY <1>2, <1>4, StepByStep
  <1> QED
    BY <1>5 DEF T

\* f starts at c and takes the step g in every round.
Runs(f, S, c, g) == /\ f \in [Nat -> S] /\ f[0] = c
                    /\ \A n \in Nat : f[n + 1] = g[n + 1][f[n]]

LEMMA Rounds ==
    ASSUME NEW S, NEW c \in S, NEW g \in [Nat -> [S -> S]]
    PROVE  \E f : Runs(f, S, c, g)
  <1> DEFINE T == {n \in Nat : \E f : Takes(f, n, S, c, g)}
             part(n) == CHOOSE f : Takes(f, n, S, c, g)
             F == [n \in Nat |-> part(n)[n]]
  <1>1. Nat \subseteq T
    <2>1. 0 \in T
      <3>1. Takes([m \in 0 .. 0 |-> c], 0, S, c, g)
        BY DEF Takes
      <3> QED
        BY <3>1
    <2>2. ASSUME NEW n \in Nat, n \in T
          PROVE  n + 1 \in T
      BY <2>2, OneRoundMore
    <2> HIDE DEF T
    <2>3. \A n \in Nat : n \in T => n + 1 \in T
      BY <2>2
    <2> QED
      BY <2>1, <2>3, StepByStep
  <1>2. \A n \in Nat : Takes(part(n), n, S, c, g)
    BY <1>1, Zenon
  <1> HIDE DEF part
  <1>3. \A n \in Nat : part(n + 1)[n] = part(n)[n]
    <2> TAKE n \in Nat
    <2>1. Takes(part(n + 1), n + 1, S, c, g) /\ Takes(part(n), n, S, c, g)
      BY <1>2
    <2> QED
      BY <2>1, RoundsAgree
  <1>4. F \in [Nat -> S]
    <2>1. ASSUME NEW n \in Nat
          PROVE  part(n)[n] \in S
      <3>1. part(n) \in [0 .. n -> S] /\ n \in 0 .. n
        BY <1>2 DEF Takes
      <3> QED
        BY <3>1
    <2> QED
      BY <2>1
  <1>5. F[0] = c
    BY <1>2 DEF Takes
  <1>6. ASSUME NEW n \in Nat
        PROVE  F[n + 1] = g[n + 1][F[n]]
    <2>1. part(n + 1)[n + 1] = g[n + 1][part(n + 1)[n]]
      <3>1. n + 1 \in Nat /\ n \in 0 .. (n + 1) - 1
        OBVIOUS
      <3>2. Takes(part(n + 1), n + 1, S, c, g)
        BY <1>2, <3>1
      <3> QED
        BY <3>1, <3>2 DEF Takes
    <2>2. F[n + 1] = part(n + 1)[n + 1] /\ F[n] = part(n)[n] /\ part(n + 1)[n] = part(n)[n]
      BY <1>3
    <2> HIDE DEF F
    <2> QED
      BY <2>1, <2>2
  <1> HIDE DEF F
  <1>7. Runs(F, S, c, g)
    BY <1>4, <1>5, <1>6 DEF Runs
  <1> QED
    BY <1>7

\* As far as the first n rounds.
RunsTo(f, n, S, c, g) == /\ f \in [0 .. n -> S] /\ f[0] = c
                         /\ \A i \in 1 .. n : f[i] = g[i][f[i - 1]]

LEMMA RoundsTo ==
    ASSUME NEW n \in Nat, NEW S, NEW c \in S, NEW g \in [1 .. n -> [S -> S]]
    PROVE  \E f : RunsTo(f, n, S, c, g)
  <1> DEFINE h == [i \in Nat |-> IF i \in 1 .. n THEN g[i] ELSE [b \in S |-> b]]
  <1>1. h \in [Nat -> [S -> S]]
    OBVIOUS
  <1>2. \A i \in 1 .. n : h[i] = g[i]
    OBVIOUS
  <1> HIDE DEF h
  <1>3. PICK r : Runs(r, S, c, h)
    BY <1>1, Rounds
  <1>4. r \in [Nat -> S] /\ r[0] = c /\ \A i \in Nat : r[i + 1] = h[i + 1][r[i]]
    BY <1>3 DEF Runs
  <1> DEFINE f == [i \in 0 .. n |-> r[i]]
  <1>5. f \in [0 .. n -> S] /\ f[0] = c
    BY <1>4
  <1>6. ASSUME NEW i \in 1 .. n
        PROVE  f[i] = g[i][f[i - 1]]
    <2>1. i - 1 \in Nat /\ (i - 1) + 1 = i /\ i \in 0 .. n /\ i - 1 \in 0 .. n
      OBVIOUS
    <2>2. r[i] = h[i][r[i - 1]]
      BY <1>4, <2>1
    <2> QED
      BY <1>2, <2>1, <2>2
  <1> HIDE DEF f
  <1>7. RunsTo(f, n, S, c, g)
    BY <1>5, <1>6 DEF RunsTo
  <1> QED
    BY <1>7

LEMMA StepsTo ==
    ASSUME NEW n \in Nat, NEW T, 0 \in T, \A i \in 1 .. n : i - 1 \in T => i \in T
    PROVE  0 .. n \subseteq T
  <1> DEFINE U == {i \in Nat : i <= n => i \in T}
  <1>1. 0 \in U
    OBVIOUS
  <1>2. ASSUME NEW i \in Nat, i \in U
        PROVE  i + 1 \in U
    <2>1. SUFFICES ASSUME i + 1 <= n PROVE i + 1 \in T
      OBVIOUS
    <2>2. i + 1 \in 1 .. n /\ (i + 1) - 1 = i /\ i \in T
      BY <1>2, <2>1
    <2> QED
      BY <2>2
  <1>3. \A i \in Nat : i \in U => i + 1 \in U
    BY <1>2
  <1> HIDE DEF U
  <1>4. Nat \subseteq U
    BY <1>1, <1>3, StepByStep
  <1> QED
    BY <1>4 DEF U

-----------------------------------------------------------------------------
(***************************************************************************)
(* Arithmetic of the wrapping two-byte indices of the receive ring and of  *)
(* the wrapping addresses of the bus.  m is the range of the index, l that *)
(* of its low byte, h that of its high byte, s the number of slots.        *)
(***************************************************************************)

\* Division with remainder.
LEMMA DivMod ==
    ASSUME NEW a \in Int, NEW m \in Nat \ {0}
    PROVE  \E d \in Int, r \in 0 .. m - 1 : a = (m * d) + r /\ a % m = r
  <1>1. a = (m * (a \div m)) + (a % m) /\ a \div m \in Int /\ a % m \in 0 .. m - 1
    BY SMT
  <1> QED
    BY <1>1, Zenon

\* The remainder is the only number in range that differs by a multiple.
LEMMA ModUnique ==
    ASSUME NEW m \in Nat \ {0}, NEW d \in Int, NEW r \in 0 .. m - 1,
           NEW a \in Int, a = (m * d) + r
    PROVE  a % m = r
  BY SMT

\* The only multiple of m strictly between -m and m is 0.
LEMMA SmallMultiple ==
    ASSUME NEW m \in Nat \ {0}, NEW q \in Int, -m < m * q, m * q < m
    PROVE  q = 0
  BY SMT

\* Adding a multiple of m does not change the remainder.
LEMMA ModPlusMultiple ==
    ASSUME NEW m \in Nat \ {0}, NEW a \in Int, NEW q \in Int, NEW b \in Int
    PROVE  b = a + (m * q) => b % m = a % m
  <1>1. SUFFICES ASSUME b = a + (m * q)
                 PROVE  b % m = a % m
    OBVIOUS
  <1>2. PICK d \in Int, r \in 0 .. m - 1 : a = (m * d) + r /\ a % m = r
    BY DivMod
  <1>3. PICK e \in Int : e = d + q
    OBVIOUS
  <1>4. b = (m * e) + r
    BY <1>1, <1>2, <1>3, SMT
  <1>5. b % m = r
    BY <1>4, ModUnique
  <1> QED
    BY <1>2, <1>5

\* A number is cut to one more digit by adding the next one, in its place.
LEMMA ModJoin ==
    ASSUME NEW v \in Int, NEW b \in Nat \ {0}, NEW p \in Nat \ {0}
    PROVE  v % (b * p) = (v % p) + ((v \div p) % b) * p
  <1>1. v = (p * (v \div p)) + (v % p) /\ v \div p \in Int /\ v % p \in 0 .. p - 1
    BY SMT
  <1>2. PICK d \in Int, r \in 0 .. p - 1 : v = (p * d) + r /\ v \div p = d /\ v % p = r
    BY <1>1, Zenon
  <1>3. PICK e \in Int, s \in 0 .. b - 1 : d = (b * e) + s /\ d % b = s
    BY DivMod
  <1>4. PICK k \in Nat \ {0} : k = b * p
    <2>1. b * p \in Nat \ {0}
      BY SMT
    <2> QED
      BY <2>1
  <1>5. PICK t \in Int : t = s * p + r
    <2>1. s * p \in Int
      BY SMT
    <2> QED
      BY <2>1
  <1>6. v = (k * e) + t
    BY <1>2, <1>3, <1>4, <1>5, SMT
  <1>7. t \in 0 .. k - 1
    <2>1. PICK u \in Nat : b = s + 1 + u
      <3>1. b - s - 1 \in Nat /\ b = s + 1 + (b - s - 1)
        OBVIOUS
      <3> QED
        BY <3>1
    <2>2. k = s * p + p + u * p
      BY <1>4, <2>1, SMT
    <2>3. s * p \in Nat /\ u * p \in Nat
      BY SMT
    <2> QED
      BY <1>5, <2>2, <2>3
  <1>8. v % k = t
    BY <1>6, <1>7, ModUnique
  <1> QED
    BY <1>2, <1>3, <1>4, <1>5, <1>8

\* A number in range is its own remainder.
LEMMA ModSmall ==
    ASSUME NEW m \in Nat \ {0}, NEW r \in 0 .. m - 1
    PROVE  r % m = r
  BY SMT

\* uint16_t addition of a reduced index.
LEMMA ModAdd ==
    ASSUME NEW m \in Nat \ {0}, NEW a \in Int, NEW b \in Int
    PROVE  ((a % m) + b) % m = (a + b) % m
  <1>1. PICK d \in Int, r \in 0 .. m - 1 : a = (m * d) + r /\ a % m = r
    BY DivMod
  <1>2. PICK x \in Int : x = r + b
    OBVIOUS
  <1>3. PICK y \in Int : y = a + b
    OBVIOUS
  <1>4. y = x + (m * d)
    BY <1>1, <1>2, <1>3
  <1>5. y % m = x % m
    BY <1>4, ModPlusMultiple
  <1> QED
    BY <1>1, <1>2, <1>3, <1>5

\* uint16_t subtraction of two reduced indices gives their distance.
LEMMA ModDistance ==
    ASSUME NEW m \in Nat \ {0}, NEW a \in Int, NEW b \in Int,
           a - b \in 0 .. m - 1
    PROVE  ((a % m) - (b % m)) % m = a - b
  <1>1. PICK da \in Int, ra \in 0 .. m - 1 : a = (m * da) + ra /\ a % m = ra
    BY DivMod
  <1>2. PICK db \in Int, rb \in 0 .. m - 1 : b = (m * db) + rb /\ b % m = rb
    BY DivMod
  <1>3. PICK x \in Int : x = ra - rb
    OBVIOUS
  <1>4. PICK y \in 0 .. m - 1 : y = a - b
    OBVIOUS
  <1>5. PICK q \in Int : q = db - da
    OBVIOUS
  <1>6. x = (m * q) + y
    BY <1>1, <1>2, <1>3, <1>4, <1>5, SMT
  <1>7. x % m = y
    BY <1>6, ModUnique
  <1> QED
    BY <1>1, <1>2, <1>3, <1>4, <1>7

\* A slot does not depend on how often the index has wrapped.
LEMMA ModMod ==
    ASSUME NEW m \in Nat \ {0}, NEW s \in Nat \ {0}, m % s = 0, NEW a \in Int
    PROVE  (a % m) % s = a % s
  <1>1. PICK d \in Int, r \in 0 .. m - 1 : a = (m * d) + r /\ a % m = r
    BY DivMod
  <1>2. PICK k \in Int : m = s * k
    BY DivMod
  <1>3. PICK q \in Int : q = k * d
    OBVIOUS
  <1>4. m * d = s * q
    BY <1>2, <1>3, SMT
  <1>5. a = r + (s * q)
    BY <1>1, <1>4
  <1>6. r \in Int
    OBVIOUS
  <1>7. a % s = r % s
    BY <1>5, <1>6, ModPlusMultiple, Zenon
  <1> QED
    BY <1>1, <1>7

\* Two numbers fewer than s apart never share a remainder.
LEMMA ModApart ==
    ASSUME NEW s \in Nat \ {0}, NEW a \in Int, NEW b \in Int,
           a < b, b < a + s
    PROVE  a % s # b % s
  <1>1. PICK da \in Int, ra \in 0 .. s - 1 : a = (s * da) + ra /\ a % s = ra
    BY DivMod
  <1>2. PICK db \in Int, rb \in 0 .. s - 1 : b = (s * db) + rb /\ b % s = rb
    BY DivMod
  <1>3. SUFFICES ASSUME ra = rb
                 PROVE  FALSE
    BY <1>1, <1>2
  <1>4. PICK q \in Int : q = db - da
    OBVIOUS
  <1>5. b - a = s * q
    BY <1>1, <1>2, <1>3, <1>4, SMT
  <1>6. q = 0
    BY <1>5, SmallMultiple
  <1> QED
    BY <1>5, <1>6

\* Replacing the low byte of an index gives an index.
LEMMA WithLowRange ==
    ASSUME NEW l \in Nat \ {0}, NEW h \in Nat \ {0},
           NEW x \in 0 .. (l * h) - 1, NEW b \in 0 .. l - 1
    PROVE  x - (x % l) + b \in 0 .. (l * h) - 1
  <1>1. PICK hx \in Int, lx \in 0 .. l - 1 : x = (l * hx) + lx /\ x % l = lx
    BY DivMod
  <1>2. x - (x % l) + b = (l * hx) + b
    BY <1>1, SMT
  <1>3. l * hx < l * h /\ -l < l * hx
    BY <1>1, SMT
  <1>4. hx < h /\ hx > -1
    BY <1>3, SMT
  <1>5. (l * hx) + l <= l * h /\ l * hx >= 0
    <2>1. PICK k \in Nat : h = hx + 1 + k
      <3>1. h - hx - 1 \in Nat
        BY <1>4, SMT
      <3> QED
        BY <3>1, SMT
    <2>2. l * h = (l * hx) + l + (l * k)
      BY <2>1, SMT
    <2>3. l * k >= 0
      BY SMT
    <2>4. l * hx >= 0
      BY <1>4, SMT
    <2> QED
      BY <2>2, <2>3, <2>4, SMT
  <1>6. l * hx \in Int /\ l * h \in Int
    BY SMT
  <1> QED
    BY <1>2, <1>5, <1>6, SMT

\* A `write` whose low byte was loaded at count t and whose high byte was
\* loaded at count w looks like `read` only if nothing had arrived by t.
LEMMA HalfLoaded ==
    ASSUME NEW l \in Nat \ {0}, NEW h \in Nat \ {0, 1}, NEW n \in Nat,
           NEW m \in Nat \ {0},
           NEW r \in Int, NEW t \in Int, NEW w \in Int
    PROVE  /\ m = l * h /\ 2 * n <= m
           /\ r <= t /\ t <= w /\ w - r <= n
           /\ (w % m) - ((w % m) % l) + (t % l) = r % m
           => t = r
  <1>1. SUFFICES ASSUME m = l * h, 2 * n <= m, r <= t, t <= w, w - r <= n,
                        (w % m) - ((w % m) % l) + (t % l) = r % m
                 PROVE  t = r
    OBVIOUS
  <1>2. PICK qw \in Int, W \in 0 .. m - 1 : w = (m * qw) + W /\ w % m = W
    BY DivMod, Zenon
  <1>3. PICK qr \in Int, R \in 0 .. m - 1 : r = (m * qr) + R /\ r % m = R
    BY DivMod, Zenon
  <1>4. PICK hw \in Int, lw \in 0 .. l - 1 : W = (l * hw) + lw /\ W % l = lw
    <2>1. W \in Int
      OBVIOUS
    <2> QED
      BY <2>1, DivMod, Zenon
  <1>5. PICK lt \in 0 .. l - 1 : t % l = lt
    BY DivMod
  <1>6. W - lw + lt = R
    BY <1>1, <1>2, <1>3, <1>4, <1>5
  <1>7. PICK q \in Int : q = qw - qr
    OBVIOUS
  <1>8. m * q = (w - r) - lw + lt
    <2>1. m * q = (m * qw) - (m * qr)
      BY <1>7, SMT
    <2> QED
      BY <2>1, <1>2, <1>3, <1>6, SMT
  <1>9. 2 * l <= m
    <2>1. PICK k \in Nat : h = 2 + k
      <3>1. h - 2 \in Nat
        OBVIOUS
      <3> QED
        BY <3>1, SMT
    <2>2. m = (2 * l) + (l * k)
      BY <1>1, <2>1, SMT
    <2>3. l * k >= 0
      BY SMT
    <2> QED
      BY <2>2, <2>3, SMT
  <1>10. -m < m * q /\ m * q < m
    BY <1>1, <1>8, <1>9, SMT
  <1>11. q = 0
    BY <1>10, SmallMultiple
  <1>12. m * q = 0
    BY <1>11, SMT
  <1>13. w - r < l
    BY <1>8, <1>12, SMT
  <1>14. R % l = r % l
    <2>1. PICK k \in Int : k = h * (-qr)
      BY SMT
    <2>2. R = r + (l * k)
      BY <1>1, <1>3, <2>1, SMT
    <2>3. R \in Int
      OBVIOUS
    <2> QED
      BY <2>2, <2>3, ModPlusMultiple, Zenon
  <1>15. R = (l * hw) + lt
    BY <1>4, <1>6, SMT
  <1>16. R % l = lt
    BY <1>15, ModUnique
  <1>17. r % l = t % l
    BY <1>5, <1>14, <1>16
  <1>18. t < r + l
    BY <1>1, <1>13
  <1>19. ~(r < t)
    BY <1>17, <1>18, ModApart
  <1> QED
    BY <1>1, <1>19

\* Between its two stores, an incremented index is the old one or, when the
\* increment carries, one low-byte range ahead.
LEMMA HalfStored ==
    ASSUME NEW l \in Nat \ {0}, NEW h \in Nat \ {0},
           NEW m \in Nat \ {0},
           NEW x \in 0 .. m - 1, NEW i \in 0 .. m - 1
    PROVE  m = l * h /\ i = (x + 1) % m
             => i - (i % l) + (x % l) \in {x, (x + l) % m}
  <1>1. SUFFICES ASSUME m = l * h, i = (x + 1) % m
                 PROVE  i - (i % l) + (x % l) \in {x, (x + l) % m}
    OBVIOUS
  <1>2. PICK hx \in Int, lx \in 0 .. l - 1 : x = (l * hx) + lx /\ x % l = lx
    BY DivMod
  <1>3. PICK y \in Int : y = x + 1
    OBVIOUS
  <1>4. CASE lx < l - 1
    <2>1. PICK ly \in 0 .. l - 1 : ly = lx + 1
      BY <1>4
    <2>2. y = (l * hx) + ly
      BY <1>2, <1>3, <2>1
    <2>3. y % l = ly
      BY <2>2, ModUnique
    <2>4. x < m - 1
      <3>1. SUFFICES ASSUME x = m - 1 PROVE FALSE
        OBVIOUS
      <3>2. PICK k \in Int : k = h - hx
        OBVIOUS
      <3>3. l * k = (l * h) - (l * hx)
        BY <3>2, SMT
      <3>4. l * k = lx + 1
        BY <1>1, <1>2, <3>1, <3>3
      <3>5. k = 0
        BY <3>4, <1>4, SmallMultiple
      <3> QED
        BY <3>4, <3>5, SMT
    <2>5. i = y
      BY <1>1, <1>3, <2>4, ModSmall
    <2> QED
      BY <1>2, <1>3, <2>1, <2>3, <2>5
  <1>5. CASE lx = l - 1
    <2>1. PICK k \in Int : k = hx + 1
      OBVIOUS
    <2>2. l * k = (l * hx) + l
      BY <2>1, SMT
    <2>3. y = (l * k) + 0
      BY <1>2, <1>3, <1>5, <2>2
    <2>4. y % l = 0
      BY <2>3, ModUnique
    <2>5. CASE x = m - 1
      <3>1. i = 0
        <4>1. m = (m * 1) + 0
          BY SMT
        <4>2. m % m = 0
          BY <4>1, ModUnique
        <4> QED
          BY <1>1, <2>5, <4>2
      <3>2. i % l = 0
        BY <3>1, ModSmall
      <3>3. l <= m
        <4>1. SUFFICES ASSUME m < l PROVE FALSE
          OBVIOUS
        <4>2. -l < l * h /\ l * h < l
          BY <1>1, <4>1
        <4>3. h = 0
          BY <4>2, SmallMultiple
        <4> QED
          BY <4>3
      <3>4. PICK z \in Int : z = x + l
        OBVIOUS
      <3>5. z = (m * 1) + (l - 1)
        BY <2>5, <3>4, SMT
      <3>6. z % m = l - 1
        BY <3>3, <3>5, ModUnique
      <3> QED
        BY <3>1, <3>2, <3>4, <3>6, <1>2, <1>5
    <2>6. CASE x < m - 1
      <3>1. i = y
        BY <1>1, <1>3, <2>6, ModSmall
      <3>2. l * k < l * h
        BY <1>1, <1>3, <2>3, <2>6
      <3>3. PICK j \in Int : j = h - k
        OBVIOUS
      <3>4. l * j = (l * h) - (l * k)
        BY <3>3, SMT
      <3>5. l * j >= l
        <4>1. l * j > 0
          BY <3>2, <3>4, SMT
        <4>2. SUFFICES ASSUME l * j < l PROVE FALSE
          BY SMT
        <4>3. j = 0
          BY <4>1, <4>2, SmallMultiple
        <4> QED
          BY <4>1, <4>3, SMT
      <3>6. PICK z \in 0 .. m - 1 : z = x + l
        BY <1>1, <1>3, <2>3, <3>4, <3>5
      <3>7. z % m = z
        BY ModSmall
      <3> QED
        BY <3>1, <2>4, <3>6, <3>7, <1>2, <1>3, <1>5
    <2> QED
      BY <2>5, <2>6
  <1> QED
    BY <1>4, <1>5
=============================================================================
