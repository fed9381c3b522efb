----------------------- MODULE CommandHandlersProofs -----------------------
(***************************************************************************)
(* Proofs about glydb's commands, for all lines of words that have a       *)
(* length, all files and every size of the address space, of a byte and of *)
(* an integer: what the parser hands to a handler is valid, what a handler *)
(* asks of the target is within its limits and is what the line says, an   *)
(* error stops the command, and everything that a line allocated or opened *)
(* is given back.                                                          *)
(***************************************************************************)
EXTENDS CommandHandlers, Arithmetic, SequenceTheorems, FiniteSetTheorems, TLAPS

-----------------------------------------------------------------------------
(***************************************************************************)
(* First, lemmas on the operators of the command line: the integers of     *)
(* value.c, the buffer of buffer.c and the search of a table.  What they   *)
(* compute step by step is a recursive function, and each lemma an         *)
(* induction over its rounds.                                              *)
(***************************************************************************)

-----------------------------------------------------------------------------
(***************************************************************************)
(* Powers.                                                                 *)
(***************************************************************************)

LEMMA Powers ==
    ASSUME NEW base \in Nat \ {0}
    PROVE  /\ Power(base, 0) = 1
           /\ \A n \in Nat : /\ Power(base, n) \in Nat \ {0}
                             /\ Power(base, n + 1) = base * Power(base, n)
  <1> DEFINE power[i \in Nat] == IF i = 0 THEN 1 ELSE base * power[i - 1]
             T == Nat \ {0}
             g == [i \in Nat |-> [x \in T |-> base * x]]
             one == 1
  <1>1. \A n : Power(base, n) = power[n]
    BY DEF Power
  <1>2. g \in [Nat -> [T -> T]]
    <2>1. \A x \in T : base * x \in T
      BY SMT
    <2> QED
      BY <2>1
  <1>3. \A n \in Nat : \A x \in T : g[n][x] = base * x
    OBVIOUS
  <1>4. one \in T
    OBVIOUS
  <1> HIDE DEF g, power, T, one
  <1>5. PICK f : Runs(f, T, one, g)
    BY <1>2, <1>4, Rounds
  <1>6. f \in [Nat -> T] /\ f[0] = 1 /\ \A n \in Nat : f[n + 1] = g[n + 1][f[n]]
    BY <1>5 DEF Runs, one
  <1>7. f = [i \in Nat |-> IF i = 0 THEN 1 ELSE base * f[i - 1]]
    <2>1. ASSUME NEW i \in Nat, i # 0
          PROVE  f[i] = base * f[i - 1]
      <3>1. i - 1 \in Nat /\ (i - 1) + 1 = i
        BY <2>1
      <3>2. f[i] = g[i][f[i - 1]] /\ f[i - 1] \in T
        BY <1>6, <3>1
      <3> QED
        BY <1>3, <3>2
    <2> QED
      BY <1>6, <2>1
  <1>8. power = [i \in Nat |-> IF i = 0 THEN 1 ELSE base * power[i - 1]]
    BY <1>7 DEF power
  <1>9. power[0] = 1 /\ \A n \in Nat : power[n + 1] = base * power[n]
    <2>1. \A n \in Nat : n + 1 \in Nat /\ n + 1 # 0 /\ (n + 1) - 1 = n
      OBVIOUS
    <2> QED
      BY <1>8, <2>1
  <1> DEFINE U == {n \in Nat : power[n] \in T}
  <1>10. 0 \in U
    BY <1>4, <1>9 DEF one
  <1>11. ASSUME NEW n \in Nat, n \in U
         PROVE  n + 1 \in U
    <2>1. power[n] \in T /\ power[n + 1] = base * power[n]
      BY <1>9, <1>11
    <2>2. base * power[n] \in T
      BY <2>1, SMT DEF T
    <2> QED
      BY <2>1, <2>2
  <1>12. \A n \in Nat : n \in U => n + 1 \in U
    BY <1>11
  <1> HIDE DEF U
  <1>13. Nat \subseteq U
    BY <1>10, <1>12, StepByStep
  <1>14. \A n \in Nat : power[n] \in T
    BY <1>13 DEF U
  <1> QED
    BY <1>1, <1>9, <1>14 DEF T

-----------------------------------------------------------------------------
(***************************************************************************)
(* parse_int.                                                              *)
(***************************************************************************)

\* A round of the loop over the digits.
GatherRound(digits, base, i, before) ==
    LET times == Unsigned(before.int * base)
        digit == DigitOf(Char(digits, i))
    IN IF /\ before.ok /\ digit < base
          /\ ~Overflows(before.int, base) /\ digit <= Unsigned(IntLimit - times)
       THEN AnInt(Unsigned(times + digit)) ELSE NotAnInt

LEMMA DigitInRange == \A c : DigitOf(c) \in 0 .. NoDigit
  <1> TAKE c
  <1>1. CASE c \in DOMAIN PlaceOf
    <2>1. \E i \in 1 .. 36 : c \in {Char(Lower, i), Char(Upper, i)}
      <3>1. PICK a \in {Lower, Upper}, i \in 1 .. 36 : c = Char(a, i)
        BY <1>1 DEF PlaceOf
      <3> QED
        BY <3>1
    <2>2. PlaceOf[c] = CHOOSE i \in 1 .. 36 : c \in {Char(Lower, i), Char(Upper, i)}
      BY <1>1 DEF PlaceOf
    <2>3. PlaceOf[c] \in 1 .. 36
      BY <2>1, <2>2
    <2> QED
      BY <1>1, <2>3 DEF DigitOf, NoDigit
  <1>2. CASE c \notin DOMAIN PlaceOf
    BY <1>2 DEF DigitOf, NoDigit
  <1> QED
    BY <1>1, <1>2

\* Of a number that does not overflow the product is within the limit.
LEMMA NoOverflow ==
    ASSUME NEW n \in 0 .. IntLimit, NEW base \in Nat \ {0}, ~ Overflows(n, base)
    PROVE  n * base \in 0 .. IntLimit
  <1>1. IntLimit \in Nat /\ n \in Nat
    BY IntLimitAssumption
  <1>2. CASE n = 0
    BY <1>1, <1>2
  <1>3. CASE n # 0
    <2>1. base <= IntLimit \div n
      BY <1>1, <1>3 DEF Overflows
    <2>2. PICK d \in Int, r \in 0 .. n - 1 : IntLimit = (n * d) + r /\ IntLimit \div n = d
      <3>1. IntLimit = (n * (IntLimit \div n)) + (IntLimit % n)
            /\ IntLimit \div n \in Int /\ IntLimit % n \in 0 .. n - 1
        BY <1>1, <1>3, SMT
      <3> QED
        BY <3>1, Zenon
    <2>3. PICK e \in Nat : d = base + e
      <3>1. d - base \in Nat /\ d = base + (d - base)
        BY <2>1, <2>2
      <3> QED
        BY <3>1
    <2>4. n * d = n * base + n * e
      BY <1>1, <2>3
    <2>5. n * e \in Nat /\ n * base \in Nat
      BY <1>1
    <2> QED
      BY <1>1, <2>2, <2>4, <2>5
  <1> QED
    BY <1>2, <1>3

LEMMA NoWrap ==
    ASSUME NEW n \in 0 .. IntLimit
    PROVE  Unsigned(n) = n
  BY IntLimitAssumption DEF Unsigned

\* Of one that overflows it is past the limit.
LEMMA OverflowsPast ==
    ASSUME NEW n \in 0 .. IntLimit, NEW base \in Nat \ {0}, Overflows(n, base)
    PROVE  n * base > IntLimit
  <1>1. IntLimit \in Nat /\ n \in Nat /\ n # 0 /\ base > IntLimit \div n
    BY IntLimitAssumption DEF Overflows
  <1>2. PICK d \in Int, r \in 0 .. n - 1 : IntLimit = (n * d) + r /\ IntLimit \div n = d
    <2>1. IntLimit = (n * (IntLimit \div n)) + (IntLimit % n)
          /\ IntLimit \div n \in Int /\ IntLimit % n \in 0 .. n - 1
      BY <1>1, SMT
    <2> QED
      BY <2>1, Zenon
  <1>3. PICK e \in Nat : base = d + 1 + e
    <2>1. base - d - 1 \in Nat /\ base = d + 1 + (base - d - 1)
      BY <1>1, <1>2
    <2> QED
      BY <2>1
  <1>4. n * base = n * d + n + n * e
    BY <1>1, <1>3, SMT
  <1>5. n * e \in Nat /\ n * d \in Int
    BY <1>1, <1>2, SMT
  <1> QED
    BY <1>1, <1>2, <1>4, <1>5

DigitAt(digits, i) == DigitOf(Char(digits, i))

LEMMA DigitNat == \A digits, i : DigitAt(digits, i) \in Nat
  <1>1. 0 .. NoDigit \subseteq Nat
    BY DEF NoDigit
  <1>2. \A c : DigitOf(c) \in Nat
    BY <1>1, DigitInRange, Zenon
  <1> QED
    BY <1>2, Zenon DEF DigitAt

\* v[i] is the number that the first i digits spell.
Reads(v, digits, base) ==
    /\ v \in [0 .. Len(digits) -> Nat] /\ v[0] = 0
    /\ \A i \in 1 .. Len(digits) : v[i] = v[i - 1] * base + DigitAt(digits, i)

LEMMA SomeReads ==
    ASSUME NEW digits, Len(digits) \in Nat, NEW base \in Nat \ {0}
    PROVE  \E v : Reads(v, digits, base)
  <1> DEFINE n == Len(digits)
             zero == 0
             g == [i \in 1 .. n |-> [x \in Nat |-> x * base + DigitAt(digits, i)]]
  <1>1. \A i : DigitAt(digits, i) \in Nat
    BY DigitNat
  <1>2. \A x \in Nat : x * base \in Nat
    BY SMT
  <1>3. g \in [1 .. n -> [Nat -> Nat]]
    BY <1>1, <1>2
  <1>4. \A i \in 1 .. n : \A x \in Nat : g[i][x] = x * base + DigitAt(digits, i)
    OBVIOUS
  <1>5. zero \in Nat
    OBVIOUS
  <1> HIDE DEF g, zero, n
  <1>6. n \in Nat
    BY DEF n
  <1>7. PICK f \in [0 .. n -> Nat] : f[0] = zero /\ \A i \in 1 .. n : f[i] = g[i][f[i - 1]]
    <2>1. \E f : RunsTo(f, n, Nat, zero, g)
      BY <1>3, <1>5, <1>6, RoundsTo
    <2> QED
      BY <2>1 DEF RunsTo
  <1>8. ASSUME NEW i \in 1 .. n
        PROVE  f[i] = f[i - 1] * base + DigitAt(digits, i)
    <2>1. i - 1 \in 0 .. n
      BY <1>6
    <2>2. f[i - 1] \in Nat
      BY <2>1
    <2> QED
      BY <1>4, <1>7, <2>2
  <1>9. Reads(f, digits, base)
    BY <1>7, <1>8 DEF Reads, n, zero
  <1> QED
    BY <1>9

\* The sum over the places is the number spelt.
LEMMA PlaceValueRead ==
    ASSUME NEW digits, Len(digits) \in Nat, NEW base \in Nat \ {0},
           NEW v, Reads(v, digits, base)
    PROVE  PlaceValue(digits, base) = v[Len(digits)]
  <1> DEFINE n == Len(digits)
             term(i) == DigitAt(digits, i) * Power(base, n - i)
             sum[i \in 0 .. n] == IF i = 0 THEN 0 ELSE sum[i - 1] + term(i)
             g == [i \in 1 .. n |-> [x \in Nat |-> x + term(i)]]
             zero == 0
  <1>1. PlaceValue(digits, base) = sum[n]
    BY DEF PlaceValue, DigitAt
  <1>2. n \in Nat /\ zero \in Nat
    OBVIOUS
  <1>3. \A i : DigitAt(digits, i) \in Nat
    BY DigitNat
  <1>4. \A i \in Nat : Power(base, i) \in Nat /\ Power(base, i + 1) = base * Power(base, i)
    BY Powers
  <1>5. Power(base, 0) = 1
    BY Powers
  <1>6. \A i \in 1 .. n : term(i) \in Nat
    <2> TAKE i \in 1 .. n
    <2>1. n - i \in Nat
      OBVIOUS
    <2>2. Power(base, n - i) \in Nat /\ DigitAt(digits, i) \in Nat
      BY <1>3, <1>4, <2>1
    <2> QED
      BY <2>2
  <1> HIDE DEF n, term
  <1>7. g \in [1 .. n -> [Nat -> Nat]] /\ \A i \in 1 .. n : \A x \in Nat : g[i][x] = x + term(i)
    BY <1>6
  <1> HIDE DEF g, sum, zero
  <1>8. PICK f \in [0 .. n -> Nat] : f[0] = zero /\ \A i \in 1 .. n : f[i] = g[i][f[i - 1]]
    <2>1. \E f : RunsTo(f, n, Nat, zero, g)
      BY <1>2, <1>7, RoundsTo
    <2> QED
      BY <2>1 DEF RunsTo
  <1>9. f = [i \in 0 .. n |-> IF i = 0 THEN 0 ELSE f[i - 1] + term(i)]
    <2>1. ASSUME NEW i \in 0 .. n, i # 0
          PROVE  f[i] = f[i - 1] + term(i)
      <3>1. i \in 1 .. n /\ i - 1 \in 0 .. n
        BY <1>2, <2>1
      <3>2. f[i - 1] \in Nat /\ f[i] = g[i][f[i - 1]]
        BY <1>8, <3>1
      <3> QED
        BY <1>7, <3>1, <3>2
    <2> QED
      BY <1>8, <2>1 DEF zero
  <1>10. sum = [i \in 0 .. n |-> IF i = 0 THEN 0 ELSE sum[i - 1] + term(i)]
    BY <1>9 DEF sum
  <1>11. v \in [0 .. n -> Nat] /\ v[0] = 0
         /\ \A i \in 1 .. n : v[i] = v[i - 1] * base + DigitAt(digits, i)
    BY DEF Reads, n
  <1> DEFINE T == {i \in 0 .. n : sum[i] = v[i] * Power(base, n - i)}
  <1>12. 0 \in T
    <2>1. sum[0] = 0 /\ Power(base, n - 0) \in Nat
      BY <1>2, <1>4, <1>10
    <2> QED
      BY <1>2, <1>11, <2>1
  <1>13. ASSUME NEW i \in 1 .. n, i - 1 \in T
         PROVE  i \in T
    <2> DEFINE p == Power(base, n - i)
               x == v[i - 1]
               d == DigitAt(digits, i)
    <2>1. n - i \in Nat /\ n - (i - 1) = (n - i) + 1 /\ i \in 0 .. n /\ i # 0 /\ i - 1 \in 0 .. n
      BY <1>2
    <2>2. p \in Nat /\ Power(base, n - (i - 1)) = base * p
      BY <1>4, <2>1
    <2>3. x \in Nat /\ v[i] = x * base + d /\ d \in Nat
      BY <1>3, <1>11, <2>1
    <2>4. sum[i] = sum[i - 1] + d * p /\ sum[i - 1] = x * Power(base, n - (i - 1))
      BY <1>10, <1>13, <2>1 DEF term
    <2> HIDE DEF p, x, d
    <2>5. x * (base * p) + d * p = (x * base + d) * p
      BY <2>2, <2>3, SMT
    <2>6. sum[i] = v[i] * p
      BY <2>2, <2>3, <2>4, <2>5
    <2> QED
      BY <2>1, <2>6 DEF p
  <1> HIDE DEF T
  <1>14. 0 .. n \subseteq T
    BY <1>2, <1>12, <1>13, StepsTo
  <1>15. sum[n] = v[n] * Power(base, n - n)
    BY <1>2, <1>14 DEF T
  <1>16. n - n = 0 /\ v[n] \in Nat
    BY <1>2, <1>11
  <1> QED
    BY <1>1, <1>5, <1>15, <1>16 DEF n

\* What the first i rounds of the loop come to.
SoFar(digits, base, v, i) ==
    IF (\A j \in 1 .. i : DigitAt(digits, j) < base) /\ v[i] <= IntLimit
    THEN AnInt(v[i]) ELSE NotAnInt

\* A round takes what the digits before come to to what they come to with the
\* next: no product and no sum wraps.
LEMMA GatherStep ==
    ASSUME NEW digits, Len(digits) \in Nat, NEW base \in Nat \ {0},
           NEW v, Reads(v, digits, base), NEW i \in 1 .. Len(digits)
    PROVE  GatherRound(digits, base, i, SoFar(digits, base, v, i - 1))
              = SoFar(digits, base, v, i)
  <1> DEFINE x == v[i - 1]
             d == DigitAt(digits, i)
             before == SoFar(digits, base, v, i - 1)
             times == Unsigned(before.int * base)
             goesOn == /\ before.ok /\ d < base
                       /\ ~Overflows(before.int, base) /\ d <= Unsigned(IntLimit - times)
             fits(k) == \A j \in 1 .. k : DigitAt(digits, j) < base
  <1>1. GatherRound(digits, base, i, before)
           = IF goesOn THEN AnInt(Unsigned(times + d)) ELSE NotAnInt
    BY DEF GatherRound, DigitAt
  <1>2. SoFar(digits, base, v, i) = IF fits(i) /\ v[i] <= IntLimit THEN AnInt(v[i]) ELSE NotAnInt
    BY DEF SoFar
  <1>3. before = IF fits(i - 1) /\ x <= IntLimit THEN AnInt(x) ELSE NotAnInt
    BY DEF SoFar
  <1>4. x \in Nat /\ v[i] = x * base + d /\ v[i] \in Nat
    <2>1. i - 1 \in 0 .. Len(digits) /\ i \in 0 .. Len(digits)
      OBVIOUS
    <2> QED
      BY <2>1 DEF Reads
  <1>5. d \in Nat /\ IntLimit \in Nat
    BY DigitNat, IntLimitAssumption
  <1>6. fits(i) <=> fits(i - 1) /\ d < base
    <2>1. \A j : j \in 1 .. i <=> j \in 1 .. i - 1 \/ j = i
      OBVIOUS
    <2> QED
      BY <2>1
  <1> HIDE DEF fits, d, x, before
  <1>7. CASE fits(i - 1) /\ x <= IntLimit
    <2>1. before.ok = TRUE /\ before.int = x /\ x \in 0 .. IntLimit
      BY <1>3, <1>4, <1>5, <1>7 DEF AnInt
    <2>2. CASE Overflows(x, base)
      <3>1. x * base > IntLimit
        BY <2>1, <2>2, OverflowsPast
      <3>2. x * base \in Nat
        BY <1>4, SMT
      <3>3. ~ (v[i] <= IntLimit)
        BY <1>4, <1>5, <3>1, <3>2
      <3>4. ~ goesOn
        BY <2>1, <2>2
      <3> QED
        BY <1>1, <1>2, <3>3, <3>4 DEF before
    <2>3. CASE ~ Overflows(x, base)
      <3>1. x * base \in 0 .. IntLimit
        BY <2>1, <2>3, NoOverflow
      <3>2. times = x * base
        BY <2>1, <3>1, NoWrap
      <3>3. Unsigned(IntLimit - times) = IntLimit - x * base
        <4>1. IntLimit - x * base \in 0 .. IntLimit
          BY <1>5, <3>1
        <4> QED
          BY <3>2, <4>1, NoWrap
      <3>4. goesOn <=> d < base /\ v[i] <= IntLimit
        <4>1. d <= IntLimit - x * base <=> v[i] <= IntLimit
          BY <1>4, <1>5, <3>1
        <4> QED
          BY <2>1, <2>3, <3>3, <4>1
      <3>5. v[i] <= IntLimit => Unsigned(times + d) = v[i]
        <4>1. times + d = v[i]
          BY <1>4, <3>2
        <4> QED
          BY <1>4, <1>5, <4>1, NoWrap
      <3> HIDE DEF times, goesOn
      <3>6. fits(i) <=> d < base
        BY <1>6, <1>7
      <3> QED
        BY <1>1, <1>2, <3>4, <3>5, <3>6 DEF before
    <2> QED
      BY <2>2, <2>3
  <1>8. CASE ~ (fits(i - 1) /\ x <= IntLimit)
    <2>1. before.ok = FALSE
      BY <1>3, <1>8 DEF NotAnInt
    <2>2. ~ goesOn
      BY <2>1
    <2>3. x <= x * base
      <3>1. \A a, b \in Nat : b # 0 => a <= a * b
        BY SMT
      <3> QED
        BY <1>4, <3>1
    <2>4. ~ (fits(i) /\ v[i] <= IntLimit)
      <3>1. x * base \in Nat
        BY <1>4, SMT
      <3>2. v[i] <= IntLimit => x <= IntLimit
        BY <1>4, <1>5, <2>3, <3>1
      <3> QED
        BY <1>6, <1>8, <3>2
    <2> QED
      BY <1>1, <1>2, <2>2, <2>4 DEF before
  <1> QED
    BY <1>7, <1>8

LEMMA GatherRead ==
    ASSUME NEW digits, Len(digits) \in Nat, NEW base \in Nat \ {0},
           NEW v, Reads(v, digits, base)
    PROVE  Gather(digits, base) = SoFar(digits, base, v, Len(digits))
  <1> DEFINE n == Len(digits)
             upTo[i \in 0 .. n] ==
                IF i = 0 THEN AnInt(0) ELSE GatherRound(digits, base, i, upTo[i - 1])
             f == [i \in 0 .. n |-> SoFar(digits, base, v, i)]
  <1>1. Gather(digits, base) = upTo[n]
    BY DEF Gather, GatherRound
  <1>2. n \in Nat
    OBVIOUS
  <1>3. SoFar(digits, base, v, 0) = AnInt(0)
    <2>1. v[0] = 0 /\ IntLimit \in Nat /\ 1 .. 0 = {}
      BY IntLimitAssumption DEF Reads
    <2> QED
      BY <2>1 DEF SoFar
  <1>4. \A i \in 1 .. n : GatherRound(digits, base, i, SoFar(digits, base, v, i - 1))
                            = SoFar(digits, base, v, i)
    BY GatherStep
  <1> HIDE DEF n
  <1>5. f = [i \in 0 .. n |-> IF i = 0 THEN AnInt(0)
                              ELSE GatherRound(digits, base, i, f[i - 1])]
    <2>1. ASSUME NEW i \in 0 .. n, i # 0
          PROVE  f[i] = GatherRound(digits, base, i, f[i - 1])
      <3>1. i \in 1 .. n /\ i - 1 \in 0 .. n
        BY <1>2, <2>1
      <3>2. f[i] = SoFar(digits, base, v, i) /\ f[i - 1] = SoFar(digits, base, v, i - 1)
        BY <3>1
      <3> QED
        BY <1>4, <3>1, <3>2
    <2>2. f[0] = AnInt(0)
      BY <1>2, <1>3
    <2>3. f = [i \in 0 .. n |-> f[i]]
      OBVIOUS
    <2> HIDE DEF f
    <2> QED
      BY <2>1, <2>2, <2>3
  <1> HIDE DEF f
  <1>6. upTo = [i \in 0 .. n |-> IF i = 0 THEN AnInt(0)
                                 ELSE GatherRound(digits, base, i, upTo[i - 1])]
    BY <1>5 DEF upTo
  <1> HIDE DEF upTo
  <1> DEFINE T == {i \in 0 .. n : upTo[i] = SoFar(digits, base, v, i)}
  <1>7. 0 \in T
    BY <1>2, <1>3, <1>6
  <1>8. ASSUME NEW i \in 1 .. n, i - 1 \in T
        PROVE  i \in T
    <2>1. i \in 0 .. n /\ i # 0
      BY <1>2
    <2>2. upTo[i] = GatherRound(digits, base, i, upTo[i - 1])
      BY <1>6, <2>1
    <2> QED
      BY <1>4, <1>8, <2>1, <2>2
  <1> HIDE DEF T
  <1>9. 0 .. n \subseteq T
    BY <1>2, <1>7, <1>8, StepsTo
  <1> QED
    BY <1>1, <1>2, <1>9 DEF T, n

\* What the loop gathers is the value of the digits, where there is one within
\* the limit.
LEMMA GatherExact ==
    ASSUME NEW digits, Len(digits) \in Nat, NEW base \in Nat \ {0}
    PROVE  /\ PlaceValue(digits, base) \in Nat
           /\ Gather(digits, base) =
                 IF /\ \A i \in 1 .. Len(digits) : DigitAt(digits, i) < base
                    /\ PlaceValue(digits, base) <= IntLimit
                 THEN AnInt(PlaceValue(digits, base)) ELSE NotAnInt
  <1>1. PICK v : Reads(v, digits, base)
    BY SomeReads
  <1>2. PlaceValue(digits, base) = v[Len(digits)]
    BY <1>1, PlaceValueRead
  <1>3. v[Len(digits)] \in Nat
    BY <1>1 DEF Reads
  <1>4. Gather(digits, base) = SoFar(digits, base, v, Len(digits))
    BY <1>1, GatherRead
  <1> QED
    BY <1>2, <1>3, <1>4 DEF SoFar

Gathered == [ok : BOOLEAN, int : 0 .. IntLimit]

LEMMA GatherInRange ==
    ASSUME NEW digits, Len(digits) \in Nat, NEW base \in Nat \ {0}
    PROVE  Gather(digits, base) \in Gathered
  <1>1. CASE /\ \A i \in 1 .. Len(digits) : DigitAt(digits, i) < base
             /\ PlaceValue(digits, base) <= IntLimit
    <2>1. PlaceValue(digits, base) \in 0 .. IntLimit
      BY <1>1, GatherExact, IntLimitAssumption
    <2>2. Gather(digits, base) = AnInt(PlaceValue(digits, base))
      BY <1>1, GatherExact
    <2> QED
      BY <2>1, <2>2 DEF AnInt, Gathered
  <1>2. CASE ~ (/\ \A i \in 1 .. Len(digits) : DigitAt(digits, i) < base
                /\ PlaceValue(digits, base) <= IntLimit)
    <2>1. Gather(digits, base) = NotAnInt
      BY <1>2, GatherExact
    <2> QED
      BY <2>1, IntLimitAssumption DEF NotAnInt, Gathered
  <1> QED
    BY <1>1, <1>2

LEMMA RestOfWord ==
    ASSUME NEW w, Len(w) \in Nat, NEW i \in Nat
    PROVE  Len(From(w, i)) \in Nat
  <1> DEFINE S == {w[j] : j \in i .. Len(w)}
  <1>1. \A j \in i .. Len(w) : w[j] \in S
    OBVIOUS
  <1>2. Len(SubSeq(w, i, Len(w))) = IF i <= Len(w) THEN Len(w) - i + 1 ELSE 0
    BY <1>1, SubSeqProperties
  <1> QED
    BY <1>2 DEF From

\* What parse_int accepts is a number that 64 bits hold, whatever the word.
LEMMA IntInRange ==
    ASSUME NEW w, Len(w) \in Nat
    PROVE  /\ parse_int(w).ok \in BOOLEAN /\ as_int(w) \in Int
           /\ parse_int(w).ok => as_int(w) \in -IntLimit .. IntLimit - 1
  <1> DEFINE start == IF IsFlag(w) THEN 2 ELSE 1
             base == IF Prefixed(w, start) THEN Radix[Char(w, start + 1)] ELSE 10
             at1 == IF Prefixed(w, start) THEN start + 2 ELSE start
             digits == From(w, at1)
             gathered == Gather(digits, base)
  <1>1. base \in Nat \ {0}
    <2>1. Prefixed(w, start) => Char(w, start + 1) \in {"x", "o", "b"}
      BY DEF Prefixed, Radix
    <2>2. Radix["x"] = 16 /\ Radix["o"] = 8 /\ Radix["b"] = 2
      BY DEF Radix
    <2> QED
      BY <2>1, <2>2
  <1>2. at1 \in Nat
    OBVIOUS
  <1> HIDE DEF base, at1
  <1>3. Len(digits) \in Nat
    BY <1>2, RestOfWord
  <1>4. gathered.ok \in BOOLEAN /\ gathered.int \in 0 .. IntLimit
    BY <1>1, <1>3, GatherInRange DEF Gathered
  <1> HIDE DEF digits
  <1>5. gathered \in Gathered
    BY <1>1, <1>3, GatherInRange
  <1> DEFINE p == parse_int(w)
  <1>6. p = IF Len(digits) = 0 THEN NotAnInt
            ELSE IF IsFlag(w) THEN [gathered EXCEPT !.int = - @]
            ELSE IF gathered.int = IntLimit THEN NotAnInt ELSE gathered
    BY DEF parse_int, digits, base, at1
  <1> HIDE DEF gathered, p
  <1>7. \/ p = NotAnInt
        \/ p.ok \in BOOLEAN /\ p.int = - gathered.int
        \/ p = gathered /\ gathered.int # IntLimit
    BY <1>5, <1>6 DEF Gathered
  <1>8. IntLimit \in Nat \ {0}
    BY IntLimitAssumption
  <1>9. p.ok \in BOOLEAN /\ p.int \in Int /\ p.int \in -IntLimit .. IntLimit - 1
    <2>1. CASE p = NotAnInt
      <3>1. p.ok = FALSE /\ p.int = 0
        BY <2>1 DEF NotAnInt
      <3>2. p.ok \in BOOLEAN
        BY <3>1, Zenon
      <3>3. p.int \in Int /\ p.int \in -IntLimit .. IntLimit - 1
        BY <1>8, <3>1
      <3> QED
        BY <3>2, <3>3
    <2>2. CASE p.ok \in BOOLEAN /\ p.int = - gathered.int
      <3>1. - gathered.int \in -IntLimit .. IntLimit - 1 /\ - gathered.int \in Int
        BY <1>4, <1>8
      <3> QED
        BY <2>2, <3>1
    <2>3. CASE p = gathered /\ gathered.int # IntLimit
      <3>1. gathered.int \in -IntLimit .. IntLimit - 1 /\ gathered.int \in Int
        BY <1>4, <1>8, <2>3
      <3> QED
        BY <1>4, <2>3, <3>1
    <2> QED
      BY <1>7, <2>1, <2>2, <2>3
  <1> QED
    BY <1>9 DEF p, as_int

\* Of a word and its rest.
LEMMA RestLength ==
    ASSUME NEW w, Len(w) \in Nat, NEW i \in Nat \ {0}
    PROVE  Len(From(w, i)) = IF i <= Len(w) THEN Len(w) - i + 1 ELSE 0
  <1> DEFINE S == {w[j] : j \in i .. Len(w)}
  <1>1. \A j \in i .. Len(w) : w[j] \in S
    OBVIOUS
  <1> QED
    BY <1>1, SubSeqProperties DEF From

LEMMA CharOfRest ==
    ASSUME NEW w, Len(w) \in Nat, NEW i \in Nat \ {0}, NEW k \in Nat \ {0},
           i + k - 1 <= Len(w)
    PROVE  Char(From(w, i), k) = Char(w, i + k - 1)
  <1>1. From(w, i) = [j \in 1 .. (1 + Len(w) - i) |-> w[j + i - 1]]
    BY DEF From
  <1>2. k \in 1 .. (1 + Len(w) - i) /\ k + i - 1 = i + k - 1
    OBVIOUS
  <1>3. From(w, i)[k] = w[i + k - 1]
    BY <1>1, <1>2
  <1>4. Char(From(w, i), k) = [j \in 1 .. (1 + k - k) |-> From(w, i)[j + k - 1]]
    BY DEF Char
  <1>5. Char(w, i + k - 1)
          = [j \in 1 .. (1 + (i + k - 1) - (i + k - 1)) |-> w[j + (i + k - 1) - 1]]
    BY DEF Char
  <1>6. Char(From(w, i), k) = [j \in 1 .. 1 |-> From(w, i)[k]]
    BY <1>4
  <1>7. Char(w, i + k - 1) = [j \in 1 .. 1 |-> w[i + k - 1]]
    BY <1>5
  <1> QED
    BY <1>3, <1>6, <1>7

LEMMA RestOfRest ==
    ASSUME NEW w, Len(w) \in Nat, NEW i \in Nat \ {0}, i < Len(w)
    PROVE  From(From(w, i), 3) = From(w, i + 2)
  <1>1. From(w, i) = [j \in 1 .. (1 + Len(w) - i) |-> w[j + i - 1]]
    BY DEF From
  <1>2. Len(From(w, i)) = Len(w) - i + 1
    BY RestLength
  <1> DEFINE rest == From(w, i)
             n == Len(w)
  <1>3. From(rest, 3) = [j \in 1 .. (1 + (n - i + 1) - 3) |-> rest[j + 3 - 1]]
    BY <1>2 DEF From
  <1>4. From(w, i + 2) = [j \in 1 .. (1 + n - (i + 2)) |-> w[j + (i + 2) - 1]]
    BY DEF From
  <1>5. n \in Nat /\ rest = [j \in 1 .. (1 + n - i) |-> w[j + i - 1]]
    BY <1>1
  <1> HIDE DEF rest, n
  <1>6. ASSUME NEW j \in 1 .. (1 + n - (i + 2))
        PROVE  rest[j + 3 - 1] = w[j + (i + 2) - 1]
    <2>1. j + 3 - 1 \in 1 .. (1 + n - i) /\ (j + 3 - 1) + i - 1 = j + (i + 2) - 1
      BY <1>5
    <2> QED
      BY <1>5, <2>1
  <1>7. 1 + (n - i + 1) - 3 = 1 + n - (i + 2)
    BY <1>5
  <1>8. From(rest, 3) = From(w, i + 2)
    BY <1>3, <1>4, <1>6, <1>7
  <1> QED
    BY <1>8 DEF rest

\* The sign, the base and the digits, as parse_int finds them.
StartOf(w) == IF IsFlag(w) THEN 2 ELSE 1
BaseOf(w) == IF Prefixed(w, StartOf(w)) THEN Radix[Char(w, StartOf(w) + 1)] ELSE 10
DigitsOf(w) == From(w, IF Prefixed(w, StartOf(w)) THEN StartOf(w) + 2 ELSE StartOf(w))
Signed(w, n) == IF IsFlag(w) THEN - n ELSE n
Reading(w, digits, base) ==
    IF Spells(digits, base) THEN {Signed(w, PlaceValue(digits, base))} ELSE {}

LEMMA BaseKnown ==
    ASSUME NEW w, Len(w) \in Nat
    PROVE  BaseOf(w) \in Nat \ {0} /\ Len(DigitsOf(w)) \in Nat
  <1>1. Prefixed(w, StartOf(w)) => Char(w, StartOf(w) + 1) \in {"x", "o", "b"}
    BY DEF Prefixed, Radix
  <1>2. Radix["x"] = 16 /\ Radix["o"] = 8 /\ Radix["b"] = 2
    BY DEF Radix
  <1>3. BaseOf(w) \in Nat \ {0}
    BY <1>1, <1>2 DEF BaseOf
  <1>4. StartOf(w) \in Nat /\ StartOf(w) + 2 \in Nat
    BY DEF StartOf
  <1> QED
    BY <1>3, <1>4, RestOfWord DEF DigitsOf

\* A word has one reading: the one of its prefix, or of none.
LEMMA OneReading ==
    ASSUME NEW w, Len(w) \in Nat
    PROVE  Meanings(w) = Reading(w, DigitsOf(w), BaseOf(w))
  <1> DEFINE st == StartOf(w)
             rest == From(w, st)
             other == IF Len(rest) < 2 \/ Char(rest, 1) # "0" THEN {}
                      ELSE UNION {Reading(w, From(rest, 3), Radix[r]) :
                                    r \in {r \in DOMAIN Radix : Char(rest, 2) = r}}
  <1>1. Meanings(w) = Reading(w, rest, 10) \cup other
    BY DEF Meanings, Reading, Signed, StartOf, IsFlag
  <1>2. st \in Nat \ {0}
    BY DEF StartOf
  <1> HIDE DEF st
  <1>3. Len(rest) = IF st <= Len(w) THEN Len(w) - st + 1 ELSE 0
    BY <1>2, RestLength
  <1>4. ASSUME st < Len(w)
        PROVE  Char(rest, 1) = Char(w, st) /\ Char(rest, 2) = Char(w, st + 1)
               /\ From(rest, 3) = From(w, st + 2)
    <2>1. Char(rest, 1) = Char(w, st + 1 - 1) /\ Char(rest, 2) = Char(w, st + 2 - 1)
      BY <1>2, <1>4, CharOfRest
    <2>2. st + 1 - 1 = st /\ st + 2 - 1 = st + 1
      BY <1>2
    <2>3. From(rest, 3) = From(w, st + 2)
      BY <1>2, <1>4, RestOfRest
    <2> QED
      BY <2>1, <2>2, <2>3
  <1> HIDE DEF rest
  <1>5. CASE Prefixed(w, st)
    <2> DEFINE c == Char(w, st + 1)
    <2>1. st < Len(w) /\ Char(w, st) = "0" /\ c \in DOMAIN Radix
      BY <1>5 DEF Prefixed
    <2>2. Char(rest, 1) = "0" /\ Char(rest, 2) = c /\ From(rest, 3) = From(w, st + 2)
      BY <1>4, <2>1
    <2>3. Len(rest) >= 2 /\ 2 \in 1 .. Len(rest)
      BY <1>2, <1>3, <2>1
    <2>4. Reading(w, rest, 10) = {}
      <3>1. DigitOf(Char(rest, 2)) >= 10 /\ DigitOf(Char(rest, 2)) \in Nat
        BY <2>1, <2>2, RadixAssumption, DigitNat DEF DigitAt
      <3>2. ~ Spells(rest, 10)
        BY <2>3, <3>1 DEF Spells
      <3> QED
        BY <3>2 DEF Reading
    <2> HIDE DEF c
    <2>5. {r \in DOMAIN Radix : Char(rest, 2) = r} = {c}
      BY <2>1, <2>2
    <2>6. other = Reading(w, From(w, st + 2), Radix[c])
      <3>1. {Reading(w, From(rest, 3), Radix[r]) : r \in {c}} = {Reading(w, From(rest, 3), Radix[c])}
        OBVIOUS
      <3>2. other = UNION {Reading(w, From(rest, 3), Radix[r]) : r \in {c}}
        BY <2>2, <2>3, <2>5
      <3>3. \A s : UNION {s} = s
        OBVIOUS
      <3>4. other = Reading(w, From(rest, 3), Radix[c])
        BY <3>1, <3>2, <3>3, Zenon
      <3> QED
        BY <2>2, <3>4, Zenon
    <2> QED
      BY <1>1, <1>5, <2>4, <2>6 DEF DigitsOf, BaseOf, c, st
  <1>6. CASE ~ Prefixed(w, st)
    <2>1. other = {}
      <3>1. SUFFICES ASSUME ~ (Len(rest) < 2), Char(rest, 1) = "0"
                     PROVE  {r \in DOMAIN Radix : Char(rest, 2) = r} = {}
        OBVIOUS
      <3>2. st < Len(w)
        BY <1>2, <1>3, <3>1
      <3>3. ~ (Char(rest, 2) \in DOMAIN Radix)
        BY <1>4, <1>6, <3>1, <3>2 DEF Prefixed
      <3> QED
        BY <3>3
    <2> QED
      BY <1>1, <1>6, <2>1 DEF DigitsOf, BaseOf, rest, st
  <1> QED
    BY <1>5, <1>6

\* What parse_int accepts is what the word means, if 64 bits hold it.
LEMMA ExactInt ==
    ASSUME NEW w, Len(w) \in Nat
    PROVE  {n \in Meanings(w) : n \in -IntLimit .. IntLimit - 1}
              = IF parse_int(w).ok THEN {as_int(w)} ELSE {}
  <1> DEFINE digits == DigitsOf(w)
             value == PlaceValue(digits, BaseOf(w))
             spelt == \A i \in 1 .. Len(digits) : DigitAt(digits, i) < BaseOf(w)
             gathered == Gather(digits, BaseOf(w))
             p == parse_int(w)
             within == {n \in Meanings(w) : n \in -IntLimit .. IntLimit - 1}
  <1>1. Len(digits) \in Nat /\ value \in Nat
        /\ gathered = IF spelt /\ value <= IntLimit THEN AnInt(value) ELSE NotAnInt
    BY BaseKnown, GatherExact
  <1>2. p = IF Len(digits) = 0 THEN NotAnInt
            ELSE IF IsFlag(w) THEN [gathered EXCEPT !.int = - @]
            ELSE IF gathered.int = IntLimit THEN NotAnInt ELSE gathered
    BY DEF parse_int, DigitsOf, BaseOf, StartOf
  <1>3. Meanings(w) = IF Len(digits) > 0 /\ spelt THEN {Signed(w, value)} ELSE {}
    BY OneReading DEF Reading, Spells, DigitAt
  <1>4. within = {n \in Meanings(w) : n \in -IntLimit .. IntLimit - 1}
    OBVIOUS
  <1>5. IntLimit \in Nat \ {0}
    BY IntLimitAssumption
  <1> HIDE DEF digits, value, spelt, gathered, p, within
  <1>6. CASE ~ (Len(digits) > 0 /\ spelt /\ value <= IntLimit)
    <2>1. p.ok = FALSE
      <3>1. Len(digits) # 0 => gathered = NotAnInt
        BY <1>1, <1>6
      <3>2. p = NotAnInt \/ p = [NotAnInt EXCEPT !.int = - @]
        BY <1>2, <3>1
      <3> QED
        BY <3>2 DEF NotAnInt
    <2>2. within = {}
      <3>1. CASE ~ (Len(digits) > 0 /\ spelt)
        BY <1>3, <1>4, <3>1
      <3>2. CASE Len(digits) > 0 /\ spelt
        <4>1. value > IntLimit /\ Meanings(w) = {Signed(w, value)}
          BY <1>1, <1>3, <1>5, <1>6, <3>2
        <4>2. ~ (Signed(w, value) \in -IntLimit .. IntLimit - 1)
          BY <1>1, <1>5, <4>1 DEF Signed
        <4> QED
          BY <1>4, <4>1, <4>2
      <3> QED
        BY <3>1, <3>2
    <2> QED
      BY <2>1, <2>2 DEF p, within
  <1>7. CASE Len(digits) > 0 /\ spelt /\ value <= IntLimit
    <2>1. gathered = AnInt(value) /\ Len(digits) # 0
      BY <1>1, <1>7
    <2>2. gathered.ok = TRUE /\ gathered.int = value
      BY <2>1 DEF AnInt
    <2>3. Meanings(w) = {Signed(w, value)}
      BY <1>3, <1>7
    <2>4. CASE IsFlag(w)
      <3>1. p = [gathered EXCEPT !.int = - @]
        BY <1>2, <2>1, <2>4
      <3>2. p.ok = TRUE /\ p.int = Signed(w, value)
        BY <2>1, <2>4, <3>1 DEF AnInt, Signed
      <3>3. Signed(w, value) \in -IntLimit .. IntLimit - 1
        BY <1>1, <1>5, <1>7, <2>4 DEF Signed
      <3> QED
        BY <1>4, <2>3, <3>2, <3>3 DEF p, within, as_int
    <2>5. CASE ~ IsFlag(w)
      <3>1. Signed(w, value) = value
        BY <2>5 DEF Signed
      <3>2. CASE value = IntLimit
        <4>1. p.ok = FALSE
          BY <1>2, <2>1, <2>2, <2>5, <3>2 DEF NotAnInt
        <4>2. within = {}
          BY <1>4, <1>5, <2>3, <3>1, <3>2
        <4> QED
          BY <4>1, <4>2 DEF p, within
      <3>3. CASE value # IntLimit
        <4>1. p.ok = TRUE /\ p.int = value
          BY <1>2, <2>1, <2>2, <2>5, <3>3
        <4>2. value \in -IntLimit .. IntLimit - 1
          BY <1>1, <1>5, <1>7, <3>3
        <4>3. within = {value}
          BY <1>4, <2>3, <3>1, <4>2
        <4> QED
          BY <4>1, <4>3 DEF p, within, as_int
      <3> QED
        BY <3>2, <3>3
    <2> QED
      BY <2>4, <2>5
  <1> QED
    BY <1>6, <1>7

-----------------------------------------------------------------------------
(***************************************************************************)
(* The search of a table, and the tables.                                  *)
(***************************************************************************)

\* The search ends at one of the entries that fit, or finds none.
LEMMA FirstFits ==
    ASSUME NEW n \in Nat, NEW fits \in SUBSET (1 .. n)
    PROVE  /\ fits = {} => FirstOf(fits) = 0
           /\ fits # {} => FirstOf(fits) \in fits
  <1>1. CASE fits = {}
    BY <1>1 DEF FirstOf
  <1>2. CASE fits # {}
    <2>1. fits \in SUBSET Nat
      OBVIOUS
    <2>2. \E i \in fits : \A j \in fits : i <= j
      BY <1>2, <2>1, NatLeast
    <2>3. (CHOOSE i \in fits : \A j \in fits : i <= j) \in fits
      BY <2>2
    <2> QED
      BY <1>2, <2>3 DEF FirstOf
  <1> QED
    BY <1>1, <1>2

Tables == {commands, memory_commands, erase_commands, flash_commands, connection_commands}
Writes == {"memory_write", "flash_write"}


Positionals == [type : {"int", "str"}, optional : BOOLEAN, variadic : BOOLEAN]
IsDirectory(c) == c.type = "directory" /\ c.subcommands \in Tables
IsLeaf(c) == /\ c.type = "leaf" /\ c.positionals \in Seq(Positionals) /\ Len(c.options) \in Nat
             /\ c.payload \in Writes => c.positionals = write_pos /\ c.options = write_opts
IsEntry(c) == IsLeaf(c) \/ IsDirectory(c)

LEMMA LeafIsEntry ==
    \A name, o, payload : \A p \in Seq(Positionals) :
        Len(o) \in Nat /\ (payload \in Writes => p = write_pos /\ o = write_opts) =>
            IsEntry(Leaf(name, o, p, payload))
  BY DEF IsEntry, IsLeaf, Leaf

LEMMA DirectoryIsEntry ==
    \A name : \A t \in Tables : IsEntry(Directory(name, t))
  BY DEF IsEntry, IsDirectory, Directory

LEMMA KnownLists ==
    /\ Len(write_opts) \in Nat /\ Len(load_opts) \in Nat /\ Len(<< >>) \in Nat
    /\ write_pos \in Seq(Positionals) /\ load_pos \in Seq(Positionals)
    /\ << >> \in Seq(Positionals)
    /\ <<Required("int")>> \in Seq(Positionals) /\ <<Optional("str")>> \in Seq(Positionals)
    /\ <<Required("int"), Optional("int")>> \in Seq(Positionals)
    /\ <<Required("int"), Required("int")>> \in Seq(Positionals)
    /\ <<[Optional("str") EXCEPT !.variadic = TRUE]>> \in Seq(Positionals)
  <1>1. /\ Required("int") \in Positionals /\ Required("str") \in Positionals
        /\ Optional("int") \in Positionals /\ Optional("str") \in Positionals
        /\ [Required("int") EXCEPT !.variadic = TRUE] \in Positionals
        /\ [Optional("str") EXCEPT !.variadic = TRUE] \in Positionals
    BY DEF Required, Optional, Positionals
  <1>2. Len(write_opts) \in Nat /\ Len(load_opts) \in Nat
    BY DEF write_opts, load_opts
  <1> QED
    BY <1>1, <1>2 DEF write_pos, load_pos

LEMMA KnownEntries ==
    /\ \A i \in 1 .. 3 : IsEntry(memory_commands[i])
    /\ \A i \in 1 .. 2 : IsEntry(erase_commands[i])
    /\ \A i \in 1 .. 5 : IsEntry(flash_commands[i])
    /\ \A i \in 1 .. 3 : IsEntry(connection_commands[i])
    /\ \A i \in 1 .. 7 : IsEntry(commands[i])
  <1>1. \A i \in 1 .. 3 : IsEntry(memory_commands[i])
    <2>1. IsEntry(Leaf("write", write_opts, write_pos, "memory_write"))
      BY LeafIsEntry, KnownLists DEF Writes
    <2>2. IsEntry(Leaf("read", <<>>, <<Required("int"), Optional("int")>>, "memory_read"))
      BY LeafIsEntry, KnownLists DEF Writes
    <2>3. IsEntry(Leaf("load", load_opts, load_pos, "memory_load"))
      BY LeafIsEntry, KnownLists DEF Writes
    <2> QED
      BY <2>1, <2>2, <2>3 DEF memory_commands
  <1>2. \A i \in 1 .. 2 : IsEntry(erase_commands[i])
    <2>1. IsEntry(Leaf("sector", <<>>, <<Required("int")>>, "flash_erase_sector"))
      BY LeafIsEntry, KnownLists DEF Writes
    <2>2. IsEntry(Leaf("chip", <<>>, <<>>, "flash_erase_chip"))
      BY LeafIsEntry, KnownLists DEF Writes
    <2> QED
      BY <2>1, <2>2 DEF erase_commands
  <1>3. \A i \in 1 .. 5 : IsEntry(flash_commands[i])
    <2>1. IsEntry(Leaf("write", write_opts, write_pos, "flash_write"))
      BY LeafIsEntry, KnownLists DEF Writes
    <2>2. IsEntry(Leaf("info", <<>>, <<>>, "flash_info"))
      BY LeafIsEntry, KnownLists DEF Writes
    <2>3. IsEntry(Directory("erase", erase_commands))
      BY DirectoryIsEntry DEF Tables
    <2>4. IsEntry(Leaf("load", load_opts, load_pos, "flash_load"))
      BY LeafIsEntry, KnownLists DEF Writes
    <2>5. IsEntry(Leaf("program", load_opts, load_pos, "flash_program"))
      BY LeafIsEntry, KnownLists DEF Writes
    <2> QED
      BY <2>1, <2>2, <2>3, <2>4, <2>5 DEF flash_commands
  <1>4. \A i \in 1 .. 3 : IsEntry(connection_commands[i])
    <2>1. IsEntry(Leaf("open", <<>>, <<Optional("str")>>, "connection_open"))
      BY LeafIsEntry, KnownLists DEF Writes
    <2>2. IsEntry(Leaf("close", <<>>, <<>>, "connection_close"))
      BY LeafIsEntry, KnownLists DEF Writes
    <2>3. IsEntry(Leaf("status", <<>>, <<>>, "connection_status"))
      BY LeafIsEntry, KnownLists DEF Writes
    <2> QED
      BY <2>1, <2>2, <2>3 DEF connection_commands
  <1>5. \A i \in 1 .. 7 : IsEntry(commands[i])
    <2>1. IsEntry(Leaf("help", <<>>, <<[Optional("str") EXCEPT !.variadic = TRUE]>>, "help"))
      BY LeafIsEntry, KnownLists DEF Writes
    <2>2. IsEntry(Leaf("quit", <<>>, <<>>, "quit"))
      BY LeafIsEntry, KnownLists DEF Writes
    <2>3. IsEntry(Directory("memory", memory_commands))
      BY DirectoryIsEntry DEF Tables
    <2>4. IsEntry(Directory("connection", connection_commands))
      BY DirectoryIsEntry DEF Tables
    <2>5. IsEntry(Leaf("ping", <<>>, <<>>, "ping"))
      BY LeafIsEntry, KnownLists DEF Writes
    <2>6. IsEntry(Directory("flash", flash_commands))
      BY DirectoryIsEntry DEF Tables
    <2>7. IsEntry(Leaf("disassemble", <<>>, <<Required("int"), Required("int")>>, "disassemble"))
      BY LeafIsEntry, KnownLists DEF Writes
    <2> QED
      BY <2>1, <2>2, <2>3, <2>4, <2>5, <2>6, <2>7 DEF commands
  <1> QED
    BY <1>1, <1>2, <1>3, <1>4, <1>5

LEMMA TableLengths ==
    /\ Len(memory_commands) = 3 /\ Len(erase_commands) = 2 /\ Len(flash_commands) = 5
    /\ Len(connection_commands) = 3 /\ Len(commands) = 7
  BY DEF memory_commands, erase_commands, flash_commands, connection_commands, commands

\* Every entry of a table is a leaf or a directory, whose table is one of them.
LEMMA MatchedEntry ==
    ASSUME NEW t \in Tables, NEW w, cmd_match_command(t, w) # 0
    PROVE  IsEntry(t[cmd_match_command(t, w)])
  <1>1. Len(t) \in Nat
    BY TableLengths DEF Tables
  <1>2. cmd_match_command(t, w) \in 1 .. Len(t)
    BY <1>1, FirstFits DEF cmd_match_command
  <1>3. \A i \in 1 .. Len(t) : IsEntry(t[i])
    BY KnownEntries, TableLengths DEF Tables
  <1> QED
    BY <1>2, <1>3
\* A write is given an address and at least one value.
LEMMA WritePositionals ==
    Cardinality({i \in DOMAIN write_pos : ~ write_pos[i].optional}) = 2
  <1>1. {i \in DOMAIN write_pos : ~ write_pos[i].optional} = 1 .. 2
    BY DEF write_pos, Required
  <1>2. Cardinality(1 .. 2) = IF 1 > 2 THEN 0 ELSE 2 - 1 + 1
    <2>1. \A a, b \in Int : Cardinality(a .. b) = IF a > b THEN 0 ELSE b - a + 1
      BY FS_Interval
    <2>2. 1 \in Int /\ 2 \in Int
      OBVIOUS
    <2> QED
      BY <2>1, <2>2, Zenon
  <1>3. (IF 1 > 2 THEN 0 ELSE 2 - 1 + 1) = 2
    OBVIOUS
  <1> QED
    BY <1>1, <1>2, <1>3, Zenon

-----------------------------------------------------------------------------
(***************************************************************************)
(* The buffer.                                                             *)
(***************************************************************************)

\* Growing ends with what was wanted, or more.
LEMMA GrownEnough ==
    ASSUME NEW capacity \in Nat, NEW wanted \in Nat, capacity < wanted
    PROVE  BetterCapacity(capacity, wanted) \in Nat /\ BetterCapacity(capacity, wanted) >= wanted
  <1> DEFINE grown[n \in Nat] ==
                IF n = 0 THEN capacity ELSE grown[n - 1] + grown[n - 1] \div 2 + 8
             enough == {n \in 1 .. wanted : grown[n] >= wanted}
             last == CHOOSE n \in 1 .. wanted : /\ grown[n] >= wanted
                                                /\ \A m \in 1 .. n - 1 : grown[m] < wanted
             g == [n \in Nat |-> [c \in Nat |-> c + c \div 2 + 8]]
  <1>1. BetterCapacity(capacity, wanted) = grown[last]
    BY DEF BetterCapacity
  <1>2. g \in [Nat -> [Nat -> Nat]]
    <2>1. \A c \in Nat : c \div 2 \in Nat
      BY SMT
    <2> QED
      BY <2>1
  <1>3. \A n \in Nat : \A c \in Nat : g[n][c] = c + c \div 2 + 8
    OBVIOUS
  <1> HIDE DEF g, grown
  <1>4. PICK f : Runs(f, Nat, capacity, g)
    BY <1>2, Rounds
  <1>5. f \in [Nat -> Nat] /\ f[0] = capacity /\ \A n \in Nat : f[n + 1] = g[n + 1][f[n]]
    BY <1>4 DEF Runs
  <1>6. f = [n \in Nat |-> IF n = 0 THEN capacity ELSE f[n - 1] + f[n - 1] \div 2 + 8]
    <2>1. ASSUME NEW n \in Nat, n # 0
          PROVE  f[n] = f[n - 1] + f[n - 1] \div 2 + 8
      <3>1. n - 1 \in Nat /\ (n - 1) + 1 = n
        BY <2>1
      <3>2. f[n] = g[n][f[n - 1]] /\ f[n - 1] \in Nat
        BY <1>5, <3>1
      <3> QED
        BY <1>3, <3>2
    <2> QED
      BY <1>5, <2>1
  <1>7. grown = [n \in Nat |-> IF n = 0 THEN capacity
                               ELSE grown[n - 1] + grown[n - 1] \div 2 + 8]
    BY <1>6 DEF grown
  <1> DEFINE T == {n \in Nat : grown[n] \in Nat /\ grown[n] >= n}
  <1>8. Nat \subseteq T
    <2>1. 0 \in T
      BY <1>7
    <2>2. ASSUME NEW n \in Nat, n \in T
          PROVE  n + 1 \in T
      <3>1. grown[n + 1] = grown[n] + grown[n] \div 2 + 8
        <4>1. n + 1 \in Nat /\ n + 1 # 0 /\ (n + 1) - 1 = n
          OBVIOUS
        <4> QED
          BY <1>7, <4>1
      <3>2. grown[n] \in Nat /\ grown[n] >= n
        BY <2>2
      <3>3. grown[n] \div 2 \in Nat
        BY <3>2, SMT
      <3>4. grown[n + 1] \in Nat /\ grown[n + 1] >= n + 1
        BY <3>1, <3>2, <3>3
      <3> QED
        BY <3>4
    <2> HIDE DEF T
    <2>3. \A n \in Nat : n \in T => n + 1 \in T
      BY <2>2
    <2> QED
      BY <2>1, <2>3, StepByStep
  <1>9. \A n \in Nat : grown[n] \in Nat /\ grown[n] >= n
    BY <1>8
  <1>10. last \in 1 .. wanted /\ grown[last] >= wanted
    <2>1. enough \in SUBSET Nat /\ wanted \in enough
      BY <1>9
    <2>2. PICK n \in enough : \A m \in enough : n <= m
      BY <2>1, NatLeast
    <2>3. \A m \in 1 .. n - 1 : grown[m] < wanted
      BY <1>9, <2>2
    <2> QED
      BY <2>2, <2>3
  <1> QED
    BY <1>1, <1>9, <1>10

Buffers == [size : Nat, capacity : Nat, allocated : Nat]
Fits(buf) == buf.size <= buf.capacity /\ buf.capacity <= buf.allocated

\* A value that is pushed is within the memory of the buffer.
LEMMA PushFits ==
    ASSUME NEW buf \in Buffers, Fits(buf)
    PROVE  /\ buffer_push_data(buf) \in Buffers /\ Fits(buffer_push_data(buf))
           /\ buffer_push_data(buf).size = buf.size + ValueSize
  <1> DEFINE wanted == buf.capacity + ValueSize
             better == BetterCapacity(buf.capacity, wanted)
  <1>1. /\ buf.size \in Nat /\ buf.capacity \in Nat /\ buf.allocated \in Nat
        /\ wanted \in Nat /\ buf.capacity < wanted /\ wanted = buf.capacity + 8
    BY DEF Buffers, ValueSize
  <1>2. better \in Nat /\ better >= wanted
    BY <1>1, GrownEnough
  <1>3. ~ (buf.capacity >= wanted)
    BY <1>1
  <1>4. buffer_ensure_total_capacity(buf, wanted) =
           [buf EXCEPT !.capacity = wanted, !.allocated = better]
    BY <1>3, Zenon DEF buffer_ensure_total_capacity
  <1> DEFINE grown == [size |-> buf.size, capacity |-> wanted, allocated |-> better]
  <1> HIDE DEF better
  <1>5. buffer_ensure_total_capacity(buf, wanted) = grown
    BY <1>4 DEF Buffers
  <1>6. buffer_push_data(buf) = [grown EXCEPT !.size = @ + ValueSize]
    BY <1>5 DEF buffer_push_data
  <1>7. buffer_push_data(buf) =
           [size |-> buf.size + 8, capacity |-> wanted, allocated |-> better]
    BY <1>6 DEF ValueSize
  <1> HIDE DEF wanted
  <1> QED
    BY <1>1, <1>2, <1>7 DEF Buffers, Fits, ValueSize

-----------------------------------------------------------------------------
(***************************************************************************)
(* Parser and handlers.                                                    *)
(***************************************************************************)
Working == {"expand", "load", "erase", "op", "target", "free"}
Taking == {"leaf", "short"}
Idling == {"prompt", "ended"}
Phases == {"prompt", "command", "leaf", "short", "run", "expand", "load", "erase",
           "op", "target", "free", "deinit", "crashed", "ended"}

Words(s) == \A i \in DOMAIN s : Len(s[i]) \in Nat

\* Where the parser is.
PlaceInv ==
    /\ phase \in Phases
    /\ line \in Seq(STRING) /\ Words(line)
    /\ at \in 1 .. Len(line) + 1 /\ off \in Nat /\ first \in Nat
    /\ off # 0 => at <= Len(line)
    /\ phase \in Idling => line = <<>> /\ at = 1
    /\ phase \in Idling \cup {"command", "leaf"} => off = 0
    /\ phase = "short" => at <= Len(line)

\* What it searches and has matched.
MatchInv ==
    /\ spec \in Tables
    /\ cmd = NoCommand \/ IsEntry(cmd)
    /\ phase \in Taking \cup Working => cmd.type = "leaf"
    /\ phase \in Idling \cup {"command"} => cmd.type # "leaf"
    /\ phase \in Idling => spec = commands /\ cmd = NoCommand
    /\ phase = "expand" => cmd.payload \in Writes
    /\ phase \in {"load", "erase"} => cmd.payload \in Loads
    /\ phase = "op" => cmd.payload \in Writes \cup Loads

\* An option that is present has a value of its type.
SlotOK(o, type) == o.present => Len(o.value) \in Nat /\ Parses(o.value, type)

\* What it has taken: nothing but for a leaf, and for one values of its types,
\* as many as it may and, when it runs, as many as it must have.
TakenInv ==
    /\ positionals \in Seq(STRING) /\ Words(positionals)
    /\ cmd.type # "leaf" => positionals = <<>> /\ options = <<>>
    /\ cmd.type = "leaf" =>
          /\ options = [i \in 1 .. Len(cmd.options) |-> options[i]]
          /\ \A i \in 1 .. Len(cmd.options) : SlotOK(options[i], cmd.options[i].type)
          /\ \A i \in DOMAIN positionals : Parses(positionals[i], PosType(i))
          /\ Len(positionals) <= MaxPositionals \/ Variadic
    /\ buffer \in Buffers /\ Fits(buffer) /\ buffer.size = ValueSize * Len(positionals)
OwnedInv ==
    /\ phase \in Taking \cup Idling \cup {"command"} => ~owned
    /\ phase \in Working \cup {"run"} /\ cmd.type = "leaf" =>
          owned /\ Len(positionals) >= MinPositionals
    /\ phase \in Idling => buffer = buffer_init

FlagInv == owned \in BOOLEAN /\ ok \in BOOLEAN /\ reported \in BOOLEAN

\* A line begins without an error, and a request is under way in one phase only.
ErrorInv ==
    /\ phase \in Idling \cup {"command"} => ~reported
    /\ request # NoRequest => phase = "target"

\* What a handler works on.
ExpandInv ==
    phase = "expand" =>
        /\ Repeat >= 1 /\ Width \in 1 .. MaxWidth /\ Address \in 0 .. AddrSpace
        /\ loop.k \in 1 .. Len(positionals) - 1 /\ loop.l \in 0 .. Width - 1
        /\ Address + Len(scratch) <= AddrSpace + 1
WorkInv ==
    /\ quit \in BOOLEAN /\ conn \in BOOLEAN
    /\ op \in [address : Nat, len : Nat] /\ scratch \in Seq(Byte)
    /\ loop \in [j : Nat, k : Nat, l : Nat]
    /\ phase \notin Working => NoWork
    /\ loop.k \in 1 .. Len(positionals) + 1
    /\ ExpandInv
    /\ phase = "load" => Relocation \in 0 .. AddrSpace /\ Path \in DOMAIN Files
    /\ phase \in {"erase", "op"} => WriteRequest(op.address, op.len)
    /\ request.kind \in {"write", "flash"} =>
          /\ WriteRequest(request.address, request.len)
          /\ IsRam(request.address) = (request.kind = "write")
    /\ request.kind = "read" => ReadRequest(request.address, request.len)
    /\ request.kind = "erase" => EraseRequest(request.address)

\* What is allocated: beside what cmd_parse_result_deinit frees what the session
\* keeps, and what the handler is working with.
Freed == FreedStrings \cup {TheOne("options"), TheOne("positionals")}
Kept == {TheOne("scratch")} \cup IF conn THEN {TheOne("port")} ELSE {}
Held == (IF phase = "load" THEN {TheOne("file")} ELSE {})
           \cup (IF phase \in {"erase", "free"} THEN {TheOne("ops")} ELSE {})
           \cup (IF phase \in {"op", "target"} /\ cmd.payload \in Loads
                 THEN {TheOne("ops")} ELSE {})
HeapInv ==
    /\ phase \in {"prompt", "command"} => heap = Kept
    /\ phase = "ended" => heap = {}
    /\ phase # "ended" => heap \ Freed = Kept \cup Held

HandlersInv ==
    PlaceInv /\ MatchInv /\ TakenInv /\ OwnedInv /\ FlagInv /\ ErrorInv /\ WorkInv /\ HeapInv
-----------------------------------------------------------------------------
(***************************************************************************)
(* What the actions leave alone.                                           *)
(***************************************************************************)

\* A handler changes nothing of the parser and of what it has read.
LEMMA HandleFrame ==
    Handle => /\ phase \in Working \cup {"run"} /\ phase' \in Working \cup {"deinit"}
              /\ UNCHANGED <<parser, first, cmd, values, ok>>
  <1> SUFFICES ASSUME Handle
      PROVE  /\ phase \in Working \cup {"run"} /\ phase' \in Working \cup {"deinit"}
             /\ UNCHANGED <<parser, first, cmd, values, ok>>
    OBVIOUS
  <1> USE DEF Return, ReturnOnly, GoOn, Running, Working, result
  <1>1. CASE RunDirectory
    BY <1>1 DEF RunDirectory
  <1>2. CASE Status
    BY <1>2 DEF Status
  <1>3. CASE Help
    BY <1>3 DEF Help
  <1>4. CASE Quit
    BY <1>4 DEF Quit
  <1>5. CASE Open
    BY <1>5 DEF Open
  <1>6. CASE Close
    BY <1>6 DEF Close
  <1>7. CASE WriteStart
    BY <1>7 DEF WriteStart
  <1>8. CASE WriteByte
    BY <1>8 DEF WriteByte
  <1>9. CASE WriteExpanded
    BY <1>9 DEF WriteExpanded
  <1>10. CASE LoadStart
    BY <1>10 DEF LoadStart
  <1>11. CASE LoadFails
    BY <1>11 DEF LoadFails
  <1>12. CASE LoadBin
    BY <1>12 DEF LoadBin
  <1>13. CASE EraseAll
    BY <1>13 DEF EraseAll
  <1>14. CASE WriteOp
    BY <1>14 DEF WriteOp
  <1>15. CASE Read
    BY <1>15 DEF Read, AskTarget
  <1>16. CASE EraseSector
    BY <1>16 DEF EraseSector, AskTarget
  <1>17. CASE Ask
    BY <1>17 DEF Ask, AskTarget
  <1>18. CASE TargetReturns
    BY <1>18 DEF TargetReturns
  <1>19. CASE FreeOps
    BY <1>19 DEF FreeOps
  <1> QED
    BY <1>1, <1>2, <1>3, <1>4, <1>5, <1>6, <1>7, <1>8, <1>9, <1>10, <1>11, <1>12, <1>13,
       <1>14, <1>15, <1>16, <1>17, <1>18, <1>19 DEF Handle

\* The parser is done before a handler runs, or comes after it.
LEMMA ParseFrame ==
    Parse => phase \notin Working \cup Idling /\ phase' \notin Working \cup {"ended"}
  <1> SUFFICES ASSUME Parse
      PROVE  phase \notin Working \cup Idling /\ phase' \notin Working \cup {"ended"}
    OBVIOUS
  <1> USE DEF Fail, Succeed, TakeOption, AtLong, AtLetter, AtPositional, Working, Idling
  <1>1. CASE CommandEndsLine
    BY <1>1 DEF CommandEndsLine
  <1>2. CASE NoSuchCommand
    BY <1>2 DEF NoSuchCommand
  <1>3. CASE CommandWord
    BY <1>3 DEF CommandWord
  <1>4. CASE LeafEnds
    BY <1>4 DEF LeafEnds
  <1>5. CASE MissingPositional
    BY <1>5 DEF MissingPositional
  <1>6. CASE PositionalError
    BY <1>6 DEF PositionalError
  <1>7. CASE Positional
    BY <1>7 DEF Positional
  <1>8. CASE LongError
    BY <1>8 DEF LongError
  <1>9. CASE LongMissing
    BY <1>9 DEF LongMissing
  <1>10. CASE Long
    BY <1>10 DEF Long
  <1>11. CASE EnterShort
    BY <1>11 DEF EnterShort
  <1>12. CASE ShortEnds
    BY <1>12 DEF ShortEnds
  <1>13. CASE ShortError
    BY <1>13 DEF ShortError
  <1>14. CASE Short
    BY <1>14 DEF Short
  <1>15. CASE Deinit
    BY <1>15 DEF Deinit
  <1>16. CASE DeinitNull
    BY <1>16 DEF DeinitNull
  <1> QED
    BY <1>1, <1>2, <1>3, <1>4, <1>5, <1>6, <1>7, <1>8, <1>9, <1>10, <1>11, <1>12, <1>13,
       <1>14, <1>15, <1>16 DEF Parse

LEMMA InitInv == Init => HandlersInv
  <1> SUFFICES ASSUME Init PROVE HandlersInv
    OBVIOUS
  <1> USE DEF Init, Idle, NoWork, Idling, Working, Taking
  <1>1. PlaceInv
    BY DEF PlaceInv, Phases, Words
  <1>2. MatchInv
    BY DEF MatchInv, Tables, NoCommand
  <1>3. TakenInv
    BY DEF TakenInv, Words, NoCommand, Buffers, Fits, buffer_init, ValueSize
  <1>8. FlagInv
    BY Zenon DEF FlagInv
  <1>7. OwnedInv
    BY DEF OwnedInv, NoCommand
  <1>4. ErrorInv
    BY DEF ErrorInv
  <1>5. WorkInv
    <2>1. quit \in BOOLEAN /\ conn \in BOOLEAN
      BY Zenon
    <2>2. /\ op \in [address : Nat, len : Nat] /\ scratch \in Seq(Byte)
          /\ loop \in [j : Nat, k : Nat, l : Nat] /\ loop.k \in 1 .. Len(positionals) + 1
          /\ request.kind = "none"
      BY DEF NoOp, LoopStart, NoRequest
    <2>3. NoWork
      OBVIOUS
    <2> QED
      BY <2>1, <2>2, <2>3 DEF WorkInv, ExpandInv
  <1>6. HeapInv
    <2>1. FreedStrings = {}
      BY DEF FreedStrings, StringPositionals, NoCommand
    <2>2. heap = Kept /\ heap \ Freed = Kept
      BY <2>1 DEF Freed, Kept, TheOne
    <2>3. Held = {}
      BY DEF Held
    <2> QED
      BY <2>2, <2>3 DEF HeapInv
  <1> QED
    BY <1>1, <1>2, <1>3, <1>4, <1>5, <1>6, <1>7, <1>8 DEF HandlersInv
-----------------------------------------------------------------------------
(***************************************************************************)
(* Each part of the invariant is kept.                                     *)
(***************************************************************************)

LEMMA PlaceStep == HandlersInv /\ [Next]_vars => PlaceInv'
  <1> SUFFICES ASSUME PlaceInv, [Next]_vars PROVE PlaceInv'
    BY DEF HandlersInv
  <1> USE DEF PlaceInv, Phases, parser
  <1>1. CASE UNCHANGED vars
    BY <1>1 DEF vars, parserVars, Words
  <1>2. CASE ReadLine
    <2>1. PICK l \in Lines : StartLine(l)
      BY <1>2 DEF ReadLine
    <2>2. l \in Seq(STRING) /\ Words(l)
      BY HandlersAssumption DEF Words
    <2> QED
      BY <2>1, <2>2 DEF StartLine, Idling
  <1>3. CASE End
    BY <1>3 DEF End, Idling, Words
  <1>4. CASE Handle
    BY <1>4, HandleFrame DEF Idling, Working, Words
  <1>5. CASE Parse
    <2> USE DEF Fail, Succeed, TakeOption, AtLong, AtLetter, AtPositional, AtEnd, Idling, Words
    <2>1. CASE CommandEndsLine
      BY <2>1 DEF CommandEndsLine
    <2>2. CASE NoSuchCommand
      BY <2>2 DEF NoSuchCommand
    <2>3. CASE CommandWord
      BY <2>3 DEF CommandWord
    <2>4. CASE LeafEnds
      BY <2>4 DEF LeafEnds
    <2>5. CASE MissingPositional
      BY <2>5 DEF MissingPositional
    <2>6. CASE PositionalError
      BY <2>6 DEF PositionalError
    <2>7. CASE Positional
      BY <2>7 DEF Positional
    <2>8. CASE LongError
      BY <2>8 DEF LongError
    <2>9. CASE LongMissing
      BY <2>9 DEF LongMissing
    <2>10. CASE Long
      BY <2>10 DEF Long
    <2>11. CASE EnterShort
      BY <2>11 DEF EnterShort
    <2>12. CASE ShortEnds
      BY <2>12 DEF ShortEnds
    <2>13. CASE ShortError
      BY <2>13 DEF ShortError
    <2>14. CASE Short
      BY <2>14 DEF Short, HasArgument, Attached
    <2>15. CASE Deinit
      BY <2>15 DEF Deinit
    <2>16. CASE DeinitNull
      BY <2>16 DEF DeinitNull
    <2> QED
      BY <1>5, <2>1, <2>2, <2>3, <2>4, <2>5, <2>6, <2>7, <2>8, <2>9, <2>10, <2>11, <2>12, <2>13, <2>14, <2>15, <2>16 DEF Parse
  <1> QED
    BY <1>1, <1>2, <1>3, <1>4, <1>5 DEF Next, debugger_do_line

LEMMA MatchStep == HandlersInv /\ [Next]_vars => MatchInv'
  <1> SUFFICES ASSUME MatchInv, [Next]_vars PROVE MatchInv'
    BY DEF HandlersInv
  <1> USE DEF MatchInv, Idling, Working, Taking
  <1>1. CASE UNCHANGED vars
    BY <1>1 DEF vars, parserVars, parser, result
  <1>2. CASE ReadLine
    BY <1>2 DEF ReadLine, StartLine, result
  <1>3. CASE End
    BY <1>3 DEF End, parser
  <1>4. CASE Handle
    <2>1. UNCHANGED <<spec, cmd>> /\ cmd.type = cmd'.type /\ phase' \in Working \cup {"deinit"}
      BY <1>4, HandleFrame DEF parser
    <2>2. phase' \in Working => cmd.type = "leaf"
      <3> USE DEF Return, ReturnOnly, GoOn, Running
      <3>1. CASE RunDirectory
        BY <3>1 DEF RunDirectory
      <3>2. CASE Status
        BY <3>2 DEF Status
      <3>3. CASE Help
        BY <3>3 DEF Help
      <3>4. CASE Quit
        BY <3>4 DEF Quit
      <3>5. CASE Open
        BY <3>5 DEF Open
      <3>6. CASE Close
        BY <3>6 DEF Close
      <3>7. CASE WriteStart
        BY <3>7 DEF WriteStart
      <3>8. CASE WriteByte
        BY <3>8 DEF WriteByte
      <3>9. CASE WriteExpanded
        BY <3>9 DEF WriteExpanded
      <3>10. CASE LoadStart
        BY <3>10 DEF LoadStart
      <3>11. CASE LoadFails
        BY <3>11 DEF LoadFails
      <3>12. CASE LoadBin
        BY <3>12 DEF LoadBin
      <3>13. CASE EraseAll
        BY <3>13 DEF EraseAll
      <3>14. CASE WriteOp
        BY <3>14 DEF WriteOp
      <3>15. CASE Read
        BY <3>15 DEF Read, AskTarget
      <3>16. CASE EraseSector
        BY <3>16 DEF EraseSector, AskTarget
      <3>17. CASE Ask
        BY <3>17 DEF Ask, AskTarget
      <3>18. CASE TargetReturns
        BY <3>18 DEF TargetReturns
      <3>19. CASE FreeOps
        BY <3>19 DEF FreeOps
      <3> QED
        BY <1>4, <3>1, <3>2, <3>3, <3>4, <3>5, <3>6, <3>7, <3>8, <3>9, <3>10, <3>11, <3>12, <3>13, <3>14, <3>15, <3>16, <3>17, <3>18, <3>19 DEF Handle
    <2>3. /\ phase' = "expand" => cmd.payload \in Writes
          /\ phase' \in {"load", "erase"} => cmd.payload \in Loads
          /\ phase' = "op" => cmd.payload \in Writes \cup Loads
      <3> USE DEF Return, ReturnOnly, GoOn, Running, Writes
      <3>1. CASE RunDirectory
        BY <3>1 DEF RunDirectory
      <3>2. CASE Status
        BY <3>2 DEF Status
      <3>3. CASE Help
        BY <3>3 DEF Help
      <3>4. CASE Quit
        BY <3>4 DEF Quit
      <3>5. CASE Open
        BY <3>5 DEF Open
      <3>6. CASE Close
        BY <3>6 DEF Close
      <3>7. CASE WriteStart
        BY <3>7 DEF WriteStart
      <3>8. CASE WriteByte
        BY <3>8 DEF WriteByte
      <3>9. CASE WriteExpanded
        BY <3>9 DEF WriteExpanded
      <3>10. CASE LoadStart
        BY <3>10 DEF LoadStart
      <3>11. CASE LoadFails
        BY <3>11 DEF LoadFails
      <3>12. CASE LoadBin
        BY <3>12 DEF LoadBin
      <3>13. CASE EraseAll
        BY <3>13 DEF EraseAll
      <3>14. CASE WriteOp
        BY <3>14 DEF WriteOp
      <3>15. CASE Read
        BY <3>15 DEF Read, AskTarget
      <3>16. CASE EraseSector
        BY <3>16 DEF EraseSector, AskTarget
      <3>17. CASE Ask
        BY <3>17 DEF Ask, AskTarget
      <3>18. CASE TargetReturns
        BY <3>18 DEF TargetReturns
      <3>19. CASE FreeOps
        BY <3>19 DEF FreeOps
      <3> QED
        BY <1>4, <3>1, <3>2, <3>3, <3>4, <3>5, <3>6, <3>7, <3>8, <3>9, <3>10, <3>11, <3>12, <3>13, <3>14, <3>15, <3>16, <3>17, <3>18, <3>19 DEF Handle
    <2> QED
      BY <2>1, <2>2, <2>3
  <1>5. CASE Parse
    <2> USE DEF Fail, Succeed, TakeOption, AtLong, AtLetter, AtPositional, parser, result
    <2>1. CASE CommandEndsLine
      BY <2>1 DEF CommandEndsLine
    <2>2. CASE NoSuchCommand
      BY <2>2 DEF NoSuchCommand, NoCommand
    <2>3. CASE CommandWord
      BY <2>3, MatchedEntry DEF CommandWord, IsEntry, IsLeaf, IsDirectory
    <2>4. CASE LeafEnds
      BY <2>4 DEF LeafEnds
    <2>5. CASE MissingPositional
      BY <2>5 DEF MissingPositional
    <2>6. CASE PositionalError
      BY <2>6 DEF PositionalError
    <2>7. CASE Positional
      BY <2>7 DEF Positional
    <2>8. CASE LongError
      BY <2>8 DEF LongError
    <2>9. CASE LongMissing
      BY <2>9 DEF LongMissing
    <2>10. CASE Long
      BY <2>10 DEF Long
    <2>11. CASE EnterShort
      BY <2>11 DEF EnterShort
    <2>12. CASE ShortEnds
      BY <2>12 DEF ShortEnds
    <2>13. CASE ShortError
      BY <2>13 DEF ShortError
    <2>14. CASE Short
      BY <2>14 DEF Short
    <2>15. CASE Deinit
      BY <2>15 DEF Deinit, Tables, NoCommand
    <2>16. CASE DeinitNull
      BY <2>16 DEF DeinitNull
    <2> QED
      BY <1>5, <2>1, <2>2, <2>3, <2>4, <2>5, <2>6, <2>7, <2>8, <2>9, <2>10, <2>11, <2>12, <2>13, <2>14, <2>15, <2>16 DEF Parse
  <1> QED
    BY <1>1, <1>2, <1>3, <1>4, <1>5 DEF Next, debugger_do_line

LEMMA LeafCmd == MatchInv /\ cmd.type = "leaf" => IsLeaf(cmd)
  BY DEF MatchInv, NoCommand, IsEntry, IsLeaf, IsDirectory

LEMMA TakenFrame ==
    TakenInv /\ UNCHANGED <<cmd, options, positionals, buffer>> => TakenInv'
  <1> SUFFICES ASSUME TakenInv, UNCHANGED <<cmd, options, positionals, buffer>> PROVE TakenInv'
    OBVIOUS
  <1> QED
    BY DEF TakenInv, Words, PosType, MaxPositionals, Variadic

LEMMA OwnedStep == HandlersInv /\ [Next]_vars => OwnedInv'
  <1> SUFFICES ASSUME MatchInv, OwnedInv, [Next]_vars PROVE OwnedInv'
    BY DEF HandlersInv
  <1> USE DEF OwnedInv, Idling, Working, Taking
  <1>1. CASE UNCHANGED vars
    BY <1>1 DEF vars, parserVars, result, values, MinPositionals
  <1>2. CASE ReadLine
    BY <1>2 DEF ReadLine, StartLine, result, values
  <1>3. CASE End
    BY <1>3 DEF End, values
  <1>4. CASE Handle
    <2>1. UNCHANGED <<cmd, values>>
      BY <1>4, HandleFrame
    <2>2. MinPositionals' = MinPositionals
      BY <2>1 DEF MinPositionals
    <2> QED
      BY <1>4, <2>1, <2>2, HandleFrame DEF values
  <1>5. CASE Parse
    <2> USE DEF Fail, Succeed, TakeOption, AtLong, AtLetter, AtPositional, result, values
    <2>1. CASE CommandEndsLine
      BY <2>1 DEF CommandEndsLine, MatchInv
    <2>2. CASE NoSuchCommand
      BY <2>2 DEF NoSuchCommand, MatchInv
    <2>3. CASE CommandWord
      BY <2>3 DEF CommandWord
    <2>4. CASE LeafEnds
      BY <2>4 DEF LeafEnds, MinPositionals
    <2>5. CASE MissingPositional
      BY <2>5 DEF MissingPositional
    <2>6. CASE PositionalError
      BY <2>6 DEF PositionalError
    <2>7. CASE Positional
      BY <2>7 DEF Positional
    <2>8. CASE LongError
      BY <2>8 DEF LongError
    <2>9. CASE LongMissing
      BY <2>9 DEF LongMissing
    <2>10. CASE Long
      BY <2>10 DEF Long
    <2>11. CASE EnterShort
      BY <2>11 DEF EnterShort
    <2>12. CASE ShortEnds
      BY <2>12 DEF ShortEnds
    <2>13. CASE ShortError
      BY <2>13 DEF ShortError
    <2>14. CASE Short
      BY <2>14 DEF Short
    <2>15. CASE Deinit
      BY <2>15 DEF Deinit
    <2>16. CASE DeinitNull
      BY <2>16 DEF DeinitNull
    <2> QED
      BY <1>5, <2>1, <2>2, <2>3, <2>4, <2>5, <2>6, <2>7, <2>8, <2>9, <2>10, <2>11, <2>12, <2>13, <2>14, <2>15, <2>16 DEF Parse
  <1> QED
    BY <1>1, <1>2, <1>3, <1>4, <1>5 DEF Next, debugger_do_line
\* An option that takes a value of its type.
LEMMA OptionTaken ==
    ASSUME MatchInv, TakenInv, phase \in Taking, NEW i, NEW v, NEW n, TakeOption(i, v, n),
           Len(v) \in Nat, Parses(v, cmd.options[i].type)
    PROVE  TakenInv'
  <1>1. /\ options' = [options EXCEPT ![i] = Given(v)] /\ cmd.type = "leaf"
        /\ UNCHANGED <<cmd, positionals, buffer>>
    BY DEF TakeOption, MatchInv
  <1>2. /\ options = [j \in 1 .. Len(cmd.options) |-> options[j]]
        /\ \A j \in 1 .. Len(cmd.options) : SlotOK(options[j], cmd.options[j].type)
    BY <1>1 DEF TakenInv
  <1>3. options' = [j \in 1 .. Len(cmd.options) |-> options'[j]]
    BY <1>1, <1>2
  <1>4. ASSUME NEW j \in 1 .. Len(cmd.options)
        PROVE  SlotOK(options'[j], cmd.options[j].type)
    <2>1. CASE j = i
      <3>1. options'[j] = Given(v)
        BY <1>1, <1>2, <2>1
      <3> QED
        BY <2>1, <3>1 DEF SlotOK, Given
    <2>2. CASE j # i
      <3>1. options'[j] = options[j]
        BY <1>1, <1>2, <2>2
      <3> QED
        BY <1>2, <3>1
    <2> QED
      BY <2>1, <2>2
  <1> QED
    BY <1>1, <1>3, <1>4 DEF TakenInv, Words, PosType, MaxPositionals, Variadic

LEMMA TakenStep == HandlersInv /\ [Next]_vars => TakenInv'
  <1> SUFFICES ASSUME PlaceInv, MatchInv, TakenInv, [Next]_vars PROVE TakenInv'
    BY DEF HandlersInv
  <1>1. CASE UNCHANGED vars
    BY <1>1, TakenFrame DEF vars, parserVars, result, values
  <1>2. CASE ReadLine
    BY <1>2, TakenFrame DEF ReadLine, StartLine, result, values
  <1>3. CASE End
    BY <1>3, TakenFrame DEF End, values
  <1>4. CASE Handle
    BY <1>4, TakenFrame, HandleFrame DEF values
  <1>5. CASE Parse
    <2> USE DEF Fail, values, result
    <2>1. CASE CommandEndsLine
      BY <2>1, TakenFrame DEF CommandEndsLine
    <2>2. CASE NoSuchCommand
      <3>1. positionals = << >> /\ options = << >> /\ cmd'.type # "leaf"
        BY <2>2 DEF NoSuchCommand, MatchInv, TakenInv, Idling, NoCommand
      <3>2. UNCHANGED <<positionals, options, buffer>>
        BY <2>2 DEF NoSuchCommand
      <3> QED
        BY <3>1, <3>2 DEF TakenInv, Words
    <2>3. CASE CommandWord
      <3> DEFINE matched == spec[cmd_match_command(spec, Word)]
      <3>1. /\ positionals = << >> /\ options = << >> /\ cmd' = matched
            /\ UNCHANGED <<positionals, buffer>>
        BY <2>3 DEF CommandWord, MatchInv, TakenInv, Idling
      <3>2. IsEntry(matched)
        BY <2>3, MatchedEntry DEF CommandWord, MatchInv
      <3>3. CASE matched.type = "directory"
        <4>1. UNCHANGED options
          BY <2>3, <3>3 DEF CommandWord
        <4> QED
          BY <3>1, <3>3, <4>1 DEF TakenInv, Words
      <3>4. CASE matched.type = "leaf"
        <4>1. options' = [i \in 1 .. Len(matched.options) |-> Absent]
          BY <2>3, <3>4 DEF CommandWord
        <4>2. Len(matched.positionals) \in Nat
          BY <3>2, <3>4 DEF IsEntry, IsLeaf, IsDirectory
        <4> HIDE DEF matched
        <4>3. \A i \in 1 .. Len(matched.options) : SlotOK(options'[i], matched.options[i].type)
          BY <4>1 DEF SlotOK, Absent
        <4>4. positionals' = << >> /\ Len(positionals') = 0 /\ DOMAIN positionals' = {}
          BY <3>1
        <4>5. options' = [i \in 1 .. Len(cmd'.options) |-> options'[i]]
          BY <3>1, <4>1
        <4>6. \A i \in 1 .. Len(cmd'.options) : SlotOK(options'[i], cmd'.options[i].type)
          BY <3>1, <4>3
        <4>7. Len(positionals') <= Len(cmd'.positionals)
          BY <3>1, <4>2, <4>4
        <4>8. cmd'.type = "leaf" /\ UNCHANGED <<positionals, buffer>>
          BY <3>1, <3>4
        <4> QED
          BY <4>4, <4>5, <4>6, <4>7, <4>8 DEF TakenInv, Words, MaxPositionals
      <3> QED
        BY <2>3, <3>3, <3>4 DEF CommandWord
    <2>4. CASE LeafEnds
      BY <2>4, TakenFrame DEF LeafEnds
    <2>5. CASE MissingPositional
      BY <2>5, TakenFrame DEF MissingPositional
    <2>6. CASE PositionalError
      BY <2>6, TakenFrame DEF PositionalError
    <2>7. CASE Positional
      <3> DEFINE n == Len(positionals) + 1
      <3>1. /\ Parses(Word, PosType(n)) /\ RoomForPositional
            /\ positionals' = Append(positionals, Word) /\ buffer' = buffer_push_data(buffer)
            /\ UNCHANGED <<cmd, options>> /\ cmd.type = "leaf"
        BY <2>7 DEF Positional, AtPositional, MatchInv, Taking
      <3>2. Word \in STRING /\ Len(Word) \in Nat
        BY <2>7 DEF Positional, AtPositional, AtEnd, Word, PlaceInv, Words
      <3>3. Len(cmd.positionals) \in Nat
        BY <3>1, LeafCmd DEF IsLeaf
      <3>4. positionals \in Seq(STRING) /\ Words(positionals) /\ Len(positionals) \in Nat
        BY DEF TakenInv
      <3> HIDE DEF n
      <3>5. /\ positionals' \in Seq(STRING) /\ Len(positionals') = Len(positionals) + 1
            /\ \A i \in 1 .. Len(positionals) : positionals'[i] = positionals[i]
            /\ positionals'[Len(positionals) + 1] = Word
        BY <3>1, <3>2, <3>4
      <3>6. ASSUME NEW i \in DOMAIN positionals'
            PROVE  Len(positionals'[i]) \in Nat /\ Parses(positionals'[i], PosType(i)')
        <4>1. i \in 1 .. Len(positionals) + 1
          BY <3>4, <3>5
        <4>2. PosType(i)' = PosType(i)
          BY <3>1 DEF PosType, MaxPositionals
        <4>3. CASE i \in 1 .. Len(positionals)
          <5>1. i \in DOMAIN positionals
            BY <3>4, <4>3
          <5> QED
            BY <3>1, <3>4, <3>5, <4>2, <4>3, <5>1 DEF TakenInv, Words
        <4>4. CASE i = Len(positionals) + 1
          BY <3>1, <3>2, <3>5, <4>2, <4>4 DEF n
        <4> QED
          BY <3>4, <4>1, <4>3, <4>4
      <3>7. (Len(positionals) <= MaxPositionals \/ Variadic)'
        BY <3>1, <3>3, <3>4, <3>5 DEF RoomForPositional, MaxPositionals, Variadic
      <3>8. /\ buffer' \in Buffers /\ Fits(buffer')
            /\ buffer'.size = ValueSize * Len(positionals')
        <4>1. buffer \in Buffers /\ Fits(buffer) /\ buffer.size = ValueSize * Len(positionals)
          BY DEF TakenInv
        <4>2. /\ buffer' \in Buffers /\ Fits(buffer')
              /\ buffer'.size = buffer.size + ValueSize
          BY <3>1, <4>1, PushFits
        <4> QED
          BY <3>4, <3>5, <4>1, <4>2 DEF ValueSize
      <3> QED
        BY <3>1, <3>5, <3>6, <3>7, <3>8 DEF TakenInv, Words
    <2>8. CASE LongError
      BY <2>8, TakenFrame DEF LongError
    <2>9. CASE LongMissing
      BY <2>9, TakenFrame DEF LongMissing
    <2>10. CASE Long
      <3>1. Len(line[at + 1]) \in Nat
        BY <2>10 DEF Long, AtLong, PlaceInv, Words
      <3>2. TakeOption(LongIndex, line[at + 1], at + 2)
            /\ Parses(line[at + 1], cmd.options[LongIndex].type) /\ phase = "leaf"
        BY <2>10 DEF Long, AtLong
      <3> QED
        BY <3>1, <3>2, OptionTaken DEF Taking
    <2>11. CASE EnterShort
      BY <2>11, TakenFrame DEF EnterShort
    <2>12. CASE ShortEnds
      BY <2>12, TakenFrame DEF ShortEnds
    <2>13. CASE ShortError
      BY <2>13, TakenFrame DEF ShortError
    <2>14. CASE Short
      <3>1. Len(Argument) \in Nat
        <4>1. /\ at \in 1 .. Len(line) /\ off \in Nat /\ Len(line[at]) \in Nat
              /\ at < Len(line) => Len(line[at + 1]) \in Nat
          BY <2>14 DEF Short, AtLetter, PlaceInv, Words
        <4>2. Len(From(line[at], off + 1)) \in Nat
          BY <4>1, RestOfWord
        <4> QED
          BY <2>14, <4>1, <4>2 DEF Short, HasArgument, Argument, Attached, Word
      <3>2. \E n : TakeOption(ShortIndex, Argument, n)
            /\ Parses(Argument, cmd.options[ShortIndex].type) /\ phase = "short"
        BY <2>14, Zenon DEF Short, AtLetter
      <3> QED
        BY <3>1, <3>2, OptionTaken DEF Taking
    <2>15. CASE Deinit
      BY <2>15 DEF Deinit, TakenInv, Words, NoCommand, Buffers, Fits, buffer_init, ValueSize
    <2>16. CASE DeinitNull
      BY <2>16, TakenFrame DEF DeinitNull
    <2> QED
      BY <1>5, <2>1, <2>2, <2>3, <2>4, <2>5, <2>6, <2>7, <2>8, <2>9, <2>10, <2>11, <2>12, <2>13, <2>14, <2>15, <2>16 DEF Parse
  <1> QED
    BY <1>1, <1>2, <1>3, <1>4, <1>5 DEF Next, debugger_do_line

LEMMA Space == /\ HalfSpace \in Nat \ {0} /\ AddrSpace \in Nat
               /\ MaxWidth \in Nat /\ ByteSize \in Nat \ {0}
  BY HalfSpaceAssumption, HandlersAssumption DEF AddrSpace

LEMMA ByteRange ==
    ASSUME NEW v \in Int, NEW l \in Nat
    PROVE  ByteOf(v, l) \in Byte
  <1>1. Power(ByteSize, l) \in Nat \ {0}
    BY Powers, Space
  <1>2. \A p \in Nat \ {0} : (v \div p) % ByteSize \in 0 .. ByteSize - 1
    BY Space
  <1> QED
    BY <1>1, <1>2 DEF ByteOf, Byte

\* The bytes of a value, from the lowest, joined again: the value, cut to them.
LEMMA BytesJoin ==
    ASSUME NEW v \in Int, NEW bytes, Len(bytes) \in Nat,
           \A i \in 1 .. Len(bytes) : bytes[i] = ByteOf(v, i - 1)
    PROVE  Joined(bytes) = v % Power(ByteSize, Len(bytes))
  <1> DEFINE n == Len(bytes)
             term(i) == bytes[i] * Power(ByteSize, i - 1)
             sum[i \in 0 .. n] == IF i = 0 THEN 0 ELSE sum[i - 1] + term(i)
             g == [i \in 1 .. n |-> [x \in Nat |-> x + term(i)]]
             zero == 0
  <1>1. Joined(bytes) = sum[n]
    BY DEF Joined
  <1>2. n \in Nat /\ zero \in Nat /\ ByteSize \in Nat \ {0}
    BY Space
  <1>3. Power(ByteSize, 0) = 1
        /\ \A i \in Nat : /\ Power(ByteSize, i) \in Nat \ {0}
                          /\ Power(ByteSize, i + 1) = ByteSize * Power(ByteSize, i)
    BY <1>2, Powers
  <1>4. \A i \in 1 .. n : term(i) \in Nat /\ term(i) = ByteOf(v, i - 1) * Power(ByteSize, i - 1)
    <2> TAKE i \in 1 .. n
    <2>1. i - 1 \in Nat
      OBVIOUS
    <2>2. Power(ByteSize, i - 1) \in Nat /\ ByteOf(v, i - 1) \in Nat
      BY <1>2, <1>3, <2>1, ByteRange DEF Byte
    <2>3. bytes[i] = ByteOf(v, i - 1)
      OBVIOUS
    <2> QED
      BY <2>2, <2>3
  <1> HIDE DEF n, term
  <1>5. g \in [1 .. n -> [Nat -> Nat]] /\ \A i \in 1 .. n : \A x \in Nat : g[i][x] = x + term(i)
    BY <1>4
  <1> HIDE DEF g, sum, zero
  <1>6. PICK f \in [0 .. n -> Nat] : f[0] = zero /\ \A i \in 1 .. n : f[i] = g[i][f[i - 1]]
    <2>1. \E f : RunsTo(f, n, Nat, zero, g)
      BY <1>2, <1>5, RoundsTo
    <2> QED
      BY <2>1 DEF RunsTo
  <1>7. f = [i \in 0 .. n |-> IF i = 0 THEN 0 ELSE f[i - 1] + term(i)]
    <2>1. ASSUME NEW i \in 0 .. n, i # 0
          PROVE  f[i] = f[i - 1] + term(i)
      <3>1. i \in 1 .. n /\ i - 1 \in 0 .. n
        BY <1>2, <2>1
      <3>2. f[i - 1] \in Nat /\ f[i] = g[i][f[i - 1]]
        BY <1>6, <3>1
      <3> QED
        BY <1>5, <3>1, <3>2
    <2> QED
      BY <1>6, <2>1 DEF zero
  <1>8. sum = [i \in 0 .. n |-> IF i = 0 THEN 0 ELSE sum[i - 1] + term(i)]
    BY <1>7 DEF sum
  <1> DEFINE T == {i \in 0 .. n : sum[i] = v % Power(ByteSize, i)}
  <1>9. 0 \in T
    <2>1. v % 1 = 0
      OBVIOUS
    <2> QED
      BY <1>2, <1>3, <1>8, <2>1
  <1>10. ASSUME NEW i \in 1 .. n, i - 1 \in T
         PROVE  i \in T
    <2> DEFINE p == Power(ByteSize, i - 1)
    <2>1. i - 1 \in Nat /\ (i - 1) + 1 = i /\ i \in 0 .. n /\ i # 0
      BY <1>2
    <2>2. p \in Nat \ {0} /\ Power(ByteSize, i) = ByteSize * p
      BY <1>3, <2>1
    <2>3. term(i) = ((v \div p) % ByteSize) * p
      BY <1>4 DEF ByteOf
    <2>4. sum[i] = sum[i - 1] + term(i) /\ sum[i - 1] = v % p
      BY <1>8, <1>10, <2>1
    <2> HIDE DEF p
    <2>5. v % (ByteSize * p) = (v % p) + ((v \div p) % ByteSize) * p
      BY <1>2, <2>2, ModJoin
    <2>6. sum[i] = v % Power(ByteSize, i)
      BY <2>2, <2>3, <2>4, <2>5
    <2> QED
      BY <2>1, <2>6
  <1> HIDE DEF T
  <1>11. 0 .. n \subseteq T
    BY <1>2, <1>9, <1>10, StepsTo
  <1>12. sum[n] = v % Power(ByteSize, n)
    BY <1>2, <1>11 DEF T
  <1> QED
    BY <1>1, <1>12 DEF n

LEMMA SameArguments ==
    UNCHANGED <<positionals, options>> =>
        /\ Address' = Address /\ Repeat' = Repeat /\ Width' = Width
        /\ Relocation' = Relocation /\ Path' = Path
  BY DEF Address, Repeat, Width, OptionInt, Relocation, Path

LEMMA PositionalsInt ==
    TakenInv => \A i \in DOMAIN positionals : as_int(positionals[i]) \in Int
  BY IntInRange DEF TakenInv, Words

LEMMA DoneWork ==
    ASSUME NoWork', phase' \notin Working, quit' \in BOOLEAN, conn' \in BOOLEAN,
           positionals' \in Seq(STRING)
    PROVE  WorkInv'
  <1>1. /\ op' \in [address : Nat, len : Nat] /\ scratch' \in Seq(Byte)
        /\ loop' \in [j : Nat, k : Nat, l : Nat] /\ loop'.k \in 1 .. Len(positionals') + 1
        /\ request'.kind = "none"
    BY DEF NoWork, NoOp, LoopStart, NoRequest
  <1> QED
    BY <1>1 DEF WorkInv, ExpandInv, Working

LEMMA ReturnWork ==
    ASSUME WorkInv, TakenInv, NEW c, Return(c), conn' \in BOOLEAN
    PROVE  WorkInv'
  <1>1. NoWork' /\ phase' \notin Working /\ UNCHANGED <<quit, positionals>>
    BY DEF Return, NoWork, DropWork, Working, values
  <1>2. quit' \in BOOLEAN /\ positionals' \in Seq(STRING)
    BY <1>1 DEF WorkInv, TakenInv
  <1> QED
    BY <1>1, <1>2, DoneWork

\* A write has an address and a value.
LEMMA WriteHasValue ==
    MatchInv /\ TakenInv /\ OwnedInv /\ Running(Writes) => Len(positionals) >= 2
  <1> SUFFICES ASSUME MatchInv, TakenInv, OwnedInv, Running(Writes) PROVE Len(positionals) >= 2
    OBVIOUS
  <1>1. cmd.type = "leaf" /\ cmd.payload \in Writes /\ phase = "run"
    BY DEF Running
  <1>2. cmd.positionals = write_pos
    BY <1>1, LeafCmd DEF IsLeaf
  <1>3. MinPositionals = 2
    BY <1>2, WritePositionals DEF MinPositionals
  <1> QED
    BY <1>1, <1>3 DEF OwnedInv
\* A byte is put into the scratch buffer.
LEMMA ByteStep ==
    ASSUME MatchInv, TakenInv, WorkInv, WriteByte, ByteFits
    PROVE  WorkInv'
  <1>1. /\ phase = "expand" /\ UNCHANGED <<phase, positionals, options, quit, conn, op, request>>
        /\ scratch' = Append(scratch, ByteOf(as_int(positionals[loop.k + 1]), loop.l))
        /\ loop' = NextByte
    BY DEF WriteByte, result, values, session
  <1>2. /\ Width \in 1 .. MaxWidth /\ Address \in 0 .. AddrSpace /\ Repeat >= 1
        /\ loop.k \in 1 .. Len(positionals) - 1 /\ loop.l \in 0 .. Width - 1
        /\ loop \in [j : Nat, k : Nat, l : Nat] /\ scratch \in Seq(Byte)
        /\ Len(positionals) \in Nat
    BY <1>1 DEF WorkInv, ExpandInv, TakenInv
  <1>3. ByteOf(as_int(positionals[loop.k + 1]), loop.l) \in Byte
    <2>1. loop.k + 1 \in DOMAIN positionals
      BY <1>2 DEF TakenInv
    <2>2. as_int(positionals[loop.k + 1]) \in Int
      BY <2>1, PositionalsInt
    <2> QED
      BY <1>2, <2>2, ByteRange
  <1>4. scratch' \in Seq(Byte) /\ Len(scratch') = Len(scratch) + 1
    BY <1>1, <1>2, <1>3
  <1>5. Address + Len(scratch') <= AddrSpace + 1
    BY <1>2, <1>4, Space DEF ByteFits
  <1>6. /\ NextByte \in [j : Nat, k : Nat, l : Nat]
        /\ NextByte.k \in 1 .. Len(positionals) - 1 /\ NextByte.l \in 0 .. Width - 1
    <2>1. CASE loop.l + 1 < Width
      <3>1. NextByte = [loop EXCEPT !.l = @ + 1]
        BY <2>1 DEF NextByte
      <3>2. NextByte = [j |-> loop.j, k |-> loop.k, l |-> loop.l + 1]
        BY <1>2, <3>1
      <3>3. loop.j \in Nat /\ loop.k \in Nat /\ loop.l + 1 \in 0 .. Width - 1
        BY <1>2, <2>1
      <3> QED
        BY <1>2, <3>2, <3>3
    <2>2. CASE ~ (loop.l + 1 < Width) /\ loop.k + 1 < Len(positionals)
      <3>1. NextByte = [loop EXCEPT !.k = @ + 1, !.l = 0]
        BY <2>2 DEF NextByte
      <3>2. NextByte = [j |-> loop.j, k |-> loop.k + 1, l |-> 0]
        BY <1>2, <3>1
      <3> QED
        BY <1>2, <2>2, <3>2, Space
    <2>3. CASE ~ (loop.l + 1 < Width) /\ ~ (loop.k + 1 < Len(positionals))
      <3>1. NextByte = [j |-> loop.j + 1, k |-> 1, l |-> 0]
        BY <2>3 DEF NextByte, LoopStart
      <3> QED
        BY <1>2, <3>1, Space
    <2> QED
      BY <2>1, <2>2, <2>3
  <1>7. Address' = Address /\ Repeat' = Repeat /\ Width' = Width
    BY <1>1, SameArguments
  <1>8. ExpandInv'
    BY <1>1, <1>2, <1>5, <1>6, <1>7 DEF ExpandInv
  <1>9. loop' \in [j : Nat, k : Nat, l : Nat] /\ loop'.k \in 1 .. Len(positionals') + 1
    BY <1>1, <1>2, <1>6
  <1> QED
    BY <1>1, <1>4, <1>8, <1>9 DEF WorkInv, Working

LEMMA WorkStep == HandlersInv /\ [Next]_vars => WorkInv'
  <1> SUFFICES ASSUME MatchInv, TakenInv, OwnedInv, WorkInv, TakenInv', [Next]_vars
      PROVE  WorkInv'
    BY TakenStep DEF HandlersInv
  <1>1. CASE UNCHANGED vars
    <2>1. UNCHANGED <<phase, positionals, options, quit, conn, op, scratch, loop, request>>
      BY <1>1 DEF vars, parserVars, result, values, session, work
    <2> QED
      BY <2>1, SameArguments DEF WorkInv, ExpandInv, NoWork
  <1>2. CASE ReadLine
    <2>1. /\ phase = "prompt" /\ phase' = "command" /\ UNCHANGED <<positionals, quit, conn>>
          /\ UNCHANGED <<op, scratch, loop, request>>
      BY <1>2 DEF ReadLine, StartLine, result, values, session, work
    <2> QED
      BY <2>1, DoneWork DEF WorkInv, Working, TakenInv, NoWork
  <1>3. CASE End
    <2>1. /\ phase = "prompt" /\ phase' = "ended" /\ UNCHANGED <<positionals, quit>>
          /\ UNCHANGED <<op, scratch, loop, request>> /\ conn' = FALSE
      BY <1>3 DEF End, values, work
    <2>2. conn' \in BOOLEAN /\ quit' \in BOOLEAN
      BY <2>1, Zenon DEF WorkInv
    <2> QED
      BY <2>1, <2>2, DoneWork DEF WorkInv, Working, TakenInv, NoWork
  <1>4. CASE Handle
    <2>1. CASE RunDirectory
      <3>1. \E c : Return(c) /\ conn' \in BOOLEAN
        BY <2>1, Zenon DEF RunDirectory, ReturnOnly, WorkInv
      <3> QED
        BY <3>1, ReturnWork
    <2>2. CASE Status
      <3>1. \E c : Return(c) /\ conn' \in BOOLEAN
        BY <2>2, Zenon DEF Status, ReturnOnly, WorkInv
      <3> QED
        BY <3>1, ReturnWork
    <2>3. CASE Help
      <3>1. \E c : Return(c) /\ conn' \in BOOLEAN
        BY <2>3, Zenon DEF Help, ReturnOnly, WorkInv
      <3> QED
        BY <3>1, ReturnWork
    <2>4. CASE Quit
      <3>1. NoWork' /\ phase' \notin Working /\ UNCHANGED <<positionals, conn>>
        BY <2>4 DEF Quit, NoWork, Working, Running, WorkInv, work, result, values
      <3>2. quit' \in BOOLEAN /\ conn' \in BOOLEAN
        BY <2>4, <3>1, Zenon DEF Quit, WorkInv
      <3> QED
        BY <3>1, <3>2, DoneWork DEF TakenInv
    <2>5. CASE Open
      <3>1. \E c : Return(c) /\ conn' \in BOOLEAN
        BY <2>5, Zenon DEF Open, ReturnOnly, WorkInv
      <3> QED
        BY <3>1, ReturnWork
    <2>6. CASE Close
      <3>1. \E c : Return(c) /\ conn' \in BOOLEAN
        BY <2>6, Zenon DEF Close, ReturnOnly, WorkInv
      <3> QED
        BY <3>1, ReturnWork
    <2>7. CASE WriteStart
      <3>1. CASE ReturnOnly(TRUE)
        BY <3>1, ReturnWork DEF ReturnOnly, WorkInv
      <3>2. CASE /\ Repeat >= 1 /\ Width \in 1 .. MaxWidth /\ Address \in 0 .. AddrSpace
                 /\ GoOn("expand") /\ UNCHANGED work
        <4>1. Len(positionals) >= 2 /\ phase = "run"
          BY <2>7, WriteHasValue DEF WriteStart, Writes, Running
        <4>2. NoWork
          BY <4>1 DEF WorkInv, Working
        <4>3. UNCHANGED <<positionals, options, quit, conn, op, scratch, loop, request>>
              /\ phase' = "expand"
          BY <3>2 DEF GoOn, work, session, values
        <4>4. /\ Repeat' >= 1 /\ Width' \in 1 .. MaxWidth /\ Address' \in 0 .. AddrSpace
          BY <3>2, <4>3, SameArguments
        <4>8. \A w \in 1 .. MaxWidth : 0 \in 0 .. w - 1
          BY Space
        <4>9. \A a \in 0 .. AddrSpace : a + 0 <= AddrSpace + 1
          BY Space
        <4>5. scratch' = << >> /\ loop'.k = 1 /\ loop'.l = 0 /\ Len(scratch') = 0
          BY <4>2, <4>3 DEF NoWork, LoopStart
        <4>6. /\ loop'.k \in 1 .. Len(positionals') - 1 /\ loop'.l \in 0 .. Width' - 1
              /\ Address' + Len(scratch') <= AddrSpace + 1
          <5>1. Len(positionals) \in Nat
            BY DEF TakenInv
          <5>2. loop'.k \in 1 .. Len(positionals') - 1
            BY <4>1, <4>3, <4>5, <5>1
          <5>3. 0 \in 0 .. Width' - 1
            BY <4>4, <4>8
          <5>4. Address' + 0 <= AddrSpace + 1
            BY <4>4, <4>9
          <5> QED
            BY <4>5, <5>2, <5>3, <5>4
        <4>7. ExpandInv'
          BY <4>4, <4>6 DEF ExpandInv
        <4> QED
          BY <4>3, <4>7 DEF WorkInv, Working
      <3> QED
        BY <2>7, <3>1, <3>2 DEF WriteStart
    <2>8. CASE WriteByte
      <3>1. CASE ReturnOnly(TRUE)
        BY <3>1, ReturnWork DEF ReturnOnly, WorkInv
      <3>2. CASE ByteFits /\ ~ ReturnOnly(TRUE)
        BY <2>8, <3>2, ByteStep
      <3> QED
        BY <2>8, <3>1, <3>2 DEF WriteByte
    <2>9. CASE WriteExpanded
      <3>1. /\ op' = [address |-> Address, len |-> Len(scratch)] /\ phase' = "op"
            /\ UNCHANGED <<scratch, loop, request, positionals, quit, conn>> /\ phase = "expand"
        BY <2>9 DEF WriteExpanded, GoOn, values, session
      <3>2. /\ Address \in 0 .. AddrSpace /\ Address + Len(scratch) <= AddrSpace + 1
            /\ Len(scratch) \in Nat
        BY <3>1 DEF WorkInv, ExpandInv
      <3>3. op' \in [address : Nat, len : Nat] /\ WriteRequest(op'.address, op'.len)
        BY <3>1, <3>2, Space DEF WriteRequest
      <3> QED
        BY <3>1, <3>3 DEF WorkInv, ExpandInv, Working
    <2>10. CASE LoadStart
      <3>1. CASE ReturnOnly(TRUE)
        BY <3>1, ReturnWork DEF ReturnOnly, WorkInv
      <3>2. CASE /\ Relocation \in 0 .. AddrSpace /\ Path \in DOMAIN Files
                 /\ GoOn("load") /\ UNCHANGED work
        <4>1. UNCHANGED <<positionals, options, quit, conn, op, scratch, loop, request>>
              /\ phase' = "load"
          BY <3>2 DEF GoOn, work, session, values
        <4>2. Relocation' \in 0 .. AddrSpace /\ Path' \in DOMAIN Files
          BY <3>2, <4>1, SameArguments
        <4> QED
          BY <4>1, <4>2 DEF WorkInv, ExpandInv, Working
      <3> QED
        BY <2>10, <3>1, <3>2 DEF LoadStart
    <2>11. CASE LoadFails
      <3>1. \E c : Return(c) /\ conn' \in BOOLEAN
        BY <2>11, Zenon DEF LoadFails, ReturnOnly, WorkInv
      <3> QED
        BY <3>1, ReturnWork
    <2>12. CASE LoadBin
      <3>1. /\ op' = [address |-> Relocation, len |-> Len(Files[Path])]
            /\ phase' \in {"erase", "op"} /\ Len(Files[Path]) <= AddrSpace
            /\ UNCHANGED <<loop, request, positionals, quit, conn>> /\ phase = "load"
        BY <2>12 DEF LoadBin, GoOn, values, session
      <3>2. Relocation \in 0 .. AddrSpace /\ Files[Path] \in Seq(Byte)
        BY <3>1, HandlersAssumption DEF WorkInv
      <3>3. op' \in [address : Nat, len : Nat] /\ WriteRequest(op'.address, op'.len)
        <4>1. Len(Files[Path]) \in Nat
          BY <3>2
        <4> QED
          BY <3>1, <3>2, <4>1, Space DEF WriteRequest
      <3>4. scratch' \in Seq(Byte)
        <4>1. PICK n \in 0 .. Len(Files[Path]) : scratch' = SubSeq(Files[Path], 1, n)
          BY <2>12 DEF LoadBin
        <4> QED
          BY <3>2, <4>1
      <3> QED
        BY <3>1, <3>3, <3>4 DEF WorkInv, ExpandInv, Working
    <2>13. CASE EraseAll
      <3>1. /\ phase = "erase" /\ phase' \in {"op", "free"}
            /\ UNCHANGED <<op, scratch, loop, request, positionals, quit, conn>>
        BY <2>13 DEF EraseAll, GoOn, values, session
      <3> QED
        BY <3>1 DEF WorkInv, ExpandInv, Working
    <2>14. CASE WriteOp
      <3>1. CASE ReturnOnly(TRUE)
        BY <3>1, ReturnWork DEF ReturnOnly, WorkInv
      <3>2. CASE GoOn("free") /\ UNCHANGED work
        <4>1. /\ phase' = "free"
              /\ UNCHANGED <<op, scratch, loop, request, positionals, quit, conn>>
          BY <3>2 DEF GoOn, values, session, work
        <4> QED
          BY <4>1 DEF WorkInv, ExpandInv, Working
      <3>3. CASE /\ IsRam(op.address) = ToMemory
                 /\ request' = Request(IF ToMemory THEN "write" ELSE "flash", op.address, op.len)
                 /\ GoOn("target") /\ UNCHANGED <<op, scratch, loop>>
        <4>1. /\ phase' = "target"
              /\ UNCHANGED <<op, scratch, loop, positionals, quit, conn>>
          BY <3>3 DEF GoOn, values, session
        <4>2. WriteRequest(op.address, op.len)
          BY <2>14 DEF WriteOp, WorkInv
        <4>3. /\ request'.kind = IF ToMemory THEN "write" ELSE "flash"
              /\ request'.address = op.address /\ request'.len = op.len
          BY <3>3 DEF Request
        <4>4. IsRam(request'.address) = (request'.kind = "write")
          <5>1. CASE ToMemory
            BY <3>3, <4>3, <5>1
          <5>2. CASE ~ ToMemory
            BY <3>3, <4>3, <5>2 DEF IsRam, ToMemory
          <5> QED
            BY <5>1, <5>2
        <4>5. request'.kind \in {"write", "flash"}
          BY <4>3
        <4> QED
          BY <4>1, <4>2, <4>3, <4>4, <4>5 DEF WorkInv, ExpandInv, Working
      <3> QED
        BY <2>14, <3>1, <3>2, <3>3 DEF WriteOp
    <2>15. CASE Read
      <3>1. CASE ReturnOnly(TRUE)
        BY <3>1, ReturnWork DEF ReturnOnly, WorkInv
      <3>2. CASE Address \in 0 .. AddrSpace /\ Amount \in 1 .. AddrSpace
                 /\ AskTarget("read", Address, Amount)
        <4>1. /\ request' = [kind |-> "read", address |-> Address, len |-> Amount]
              /\ phase' = "target" /\ UNCHANGED <<op, scratch, loop, positionals, quit, conn>>
          BY <3>2 DEF AskTarget, Request, GoOn, values, session
        <4>2. request'.kind = "read" /\ ReadRequest(request'.address, request'.len)
          BY <3>2, <4>1 DEF ReadRequest, EraseRequest
        <4> QED
          BY <4>1, <4>2 DEF WorkInv, ExpandInv, Working
      <3> QED
        BY <2>15, <3>1, <3>2 DEF Read
    <2>16. CASE EraseSector
      <3>1. CASE ReturnOnly(TRUE)
        BY <3>1, ReturnWork DEF ReturnOnly, WorkInv
      <3>2. CASE Address \in 0 .. AddrSpace /\ IsFlash(Address)
                 /\ AskTarget("erase", Address, 0)
        <4>1. /\ request' = [kind |-> "erase", address |-> Address, len |-> 0]
              /\ phase' = "target" /\ UNCHANGED <<op, scratch, loop, positionals, quit, conn>>
          BY <3>2 DEF AskTarget, Request, GoOn, values, session
        <4>2. request'.kind = "erase" /\ EraseRequest(request'.address)
          BY <3>2, <4>1 DEF ReadRequest, EraseRequest
        <4> QED
          BY <4>1, <4>2 DEF WorkInv, ExpandInv, Working
      <3> QED
        BY <2>16, <3>1, <3>2 DEF EraseSector
    <2>17. CASE Ask
      <3>1. /\ request' = [kind |-> cmd.payload, address |-> 0, len |-> 0]
            /\ cmd.payload \in {"flash_erase_chip", "flash_info", "ping"}
            /\ phase' = "target" /\ UNCHANGED <<op, scratch, loop, positionals, quit, conn>>
        BY <2>17 DEF Ask, Running, AskTarget, Request, GoOn, values, session
      <3>2. request'.kind \in {"flash_erase_chip", "flash_info", "ping"}
        BY <3>1
      <3> QED
        BY <3>1, <3>2 DEF WorkInv, ExpandInv, Working
    <2>18. CASE TargetReturns
      <3>1. CASE \E c : ReturnOnly(c)
        BY <3>1, ReturnWork DEF ReturnOnly, WorkInv
      <3>2. CASE request' = NoRequest /\ GoOn("free") /\ UNCHANGED <<op, scratch, loop>>
        <4>1. /\ phase' = "free" /\ request'.kind = "none"
              /\ UNCHANGED <<op, scratch, loop, positionals, quit, conn>>
          BY <3>2 DEF GoOn, values, session, NoRequest
        <4> QED
          BY <4>1 DEF WorkInv, ExpandInv, Working
      <3> QED
        BY <2>18, <3>1, <3>2, Zenon DEF TargetReturns
    <2>19. CASE FreeOps
      <3>1. \E c : Return(c) /\ conn' \in BOOLEAN
        BY <2>19, Zenon DEF FreeOps, ReturnOnly, WorkInv
      <3> QED
        BY <3>1, ReturnWork
    <2> QED
      BY <1>4, <2>1, <2>2, <2>3, <2>4, <2>5, <2>6, <2>7, <2>8, <2>9, <2>10, <2>11, <2>12, <2>13, <2>14, <2>15, <2>16, <2>17, <2>18, <2>19 DEF Handle
  <1>5. CASE Parse /\ UNCHANGED <<session, work>>
    <2>1. phase \notin Working /\ phase' \notin Working
      BY <1>5, ParseFrame
    <2>2. UNCHANGED <<quit, conn, op, scratch, loop, request>>
      BY <1>5 DEF session, work
    <2>3. positionals' \in Seq(STRING)
      BY DEF TakenInv
    <2> QED
      BY <2>1, <2>2, <2>3, DoneWork DEF WorkInv, NoWork
  <1> QED
    BY <1>1, <1>2, <1>3, <1>4, <1>5 DEF Next, debugger_do_line

LEMMA FlagStep == HandlersInv /\ [Next]_vars => FlagInv'
  <1> SUFFICES ASSUME FlagInv, [Next]_vars PROVE FlagInv'
    BY DEF HandlersInv
  <1> USE DEF FlagInv, result, values
  <1>1. CASE UNCHANGED vars
    BY <1>1, Zenon DEF vars, parserVars
  <1>2. CASE ReadLine
    BY <1>2, Zenon DEF ReadLine, StartLine
  <1>3. CASE End
    BY <1>3, Zenon DEF End
  <1>4. CASE Handle
    <2>0. UNCHANGED <<owned, ok>>
      BY <1>4, HandleFrame
    <2>1. reported' \in BOOLEAN
      <3> USE DEF Return, ReturnOnly, GoOn, AskTarget
      <3>1. CASE RunDirectory
        BY <3>1, Zenon DEF RunDirectory
      <3>2. CASE Status
        BY <3>2, Zenon DEF Status
      <3>3. CASE Help
        BY <3>3, Zenon DEF Help
      <3>4. CASE Quit
        BY <3>4, Zenon DEF Quit
      <3>5. CASE Open
        BY <3>5, Zenon DEF Open
      <3>6. CASE Close
        BY <3>6, Zenon DEF Close
      <3>7. CASE WriteStart
        BY <3>7, Zenon DEF WriteStart
      <3>8. CASE WriteByte
        BY <3>8, Zenon DEF WriteByte
      <3>9. CASE WriteExpanded
        BY <3>9, Zenon DEF WriteExpanded
      <3>10. CASE LoadStart
        BY <3>10, Zenon DEF LoadStart
      <3>11. CASE LoadFails
        BY <3>11, Zenon DEF LoadFails
      <3>12. CASE LoadBin
        BY <3>12, Zenon DEF LoadBin
      <3>13. CASE EraseAll
        BY <3>13, Zenon DEF EraseAll
      <3>14. CASE WriteOp
        BY <3>14, Zenon DEF WriteOp
      <3>15. CASE Read
        BY <3>15, Zenon DEF Read
      <3>16. CASE EraseSector
        BY <3>16, Zenon DEF EraseSector
      <3>17. CASE Ask
        BY <3>17, Zenon DEF Ask
      <3>18. CASE TargetReturns
        BY <3>18, Zenon DEF TargetReturns
      <3>19. CASE FreeOps
        BY <3>19, Zenon DEF FreeOps
      <3> QED
        BY <1>4, <3>1, <3>2, <3>3, <3>4, <3>5, <3>6, <3>7, <3>8, <3>9, <3>10, <3>11, <3>12, <3>13, <3>14, <3>15, <3>16, <3>17, <3>18, <3>19 DEF Handle
    <2> QED
      BY <2>0, <2>1, Zenon
  <1>5. CASE Parse
    <2> USE DEF Fail, Succeed, TakeOption
    <2>1. CASE CommandEndsLine
      BY <2>1, Zenon DEF CommandEndsLine
    <2>2. CASE NoSuchCommand
      BY <2>2, Zenon DEF NoSuchCommand
    <2>3. CASE CommandWord
      BY <2>3, Zenon DEF CommandWord
    <2>4. CASE LeafEnds
      BY <2>4, Zenon DEF LeafEnds
    <2>5. CASE MissingPositional
      BY <2>5, Zenon DEF MissingPositional
    <2>6. CASE PositionalError
      BY <2>6, Zenon DEF PositionalError
    <2>7. CASE Positional
      BY <2>7, Zenon DEF Positional
    <2>8. CASE LongError
      BY <2>8, Zenon DEF LongError
    <2>9. CASE LongMissing
      BY <2>9, Zenon DEF LongMissing
    <2>10. CASE Long
      BY <2>10, Zenon DEF Long
    <2>11. CASE EnterShort
      BY <2>11, Zenon DEF EnterShort
    <2>12. CASE ShortEnds
      BY <2>12, Zenon DEF ShortEnds
    <2>13. CASE ShortError
      BY <2>13, Zenon DEF ShortError
    <2>14. CASE Short
      BY <2>14, Zenon DEF Short
    <2>15. CASE Deinit
      BY <2>15, Zenon DEF Deinit
    <2>16. CASE DeinitNull
      BY <2>16, Zenon DEF DeinitNull
    <2> QED
      BY <1>5, <2>1, <2>2, <2>3, <2>4, <2>5, <2>6, <2>7, <2>8, <2>9, <2>10, <2>11, <2>12, <2>13, <2>14, <2>15, <2>16 DEF Parse
  <1> QED
    BY <1>1, <1>2, <1>3, <1>4, <1>5 DEF Next, debugger_do_line
\* The parser gives up, or the handler is done with its request.
LEMMA ErrorEnds ==
    ErrorInv /\ phase # "target" /\ phase' \in {"free", "deinit", "crashed"} /\ UNCHANGED request
        => ErrorInv'
  BY DEF ErrorInv, Idling, Taking

LEMMA ReturnError == \A c : Return(c) => ErrorInv'
  BY DEF Return, DropWork, ErrorInv, Idling, Taking

LEMMA ErrorGoesOn ==
    /\ ErrorInv /\ phase \in Taking \cup {"run", "expand", "load", "erase", "op"}
    /\ phase' \in Taking \cup {"run", "expand", "load", "erase", "op"}
    /\ UNCHANGED <<line, reported, request>>
  => ErrorInv'
  <1> SUFFICES ASSUME ErrorInv,
                      phase \in Taking \cup {"run", "expand", "load", "erase", "op"},
                      phase' \in Taking \cup {"run", "expand", "load", "erase", "op"},
                      UNCHANGED <<line, reported, request>>
               PROVE  ErrorInv'
    OBVIOUS
  <1>1. request' = NoRequest
    BY DEF ErrorInv, Taking
  <1> QED
    BY <1>1 DEF ErrorInv, Idling, Taking

\* Before a line is looked into.
LEMMA ErrorFree ==
    /\ ErrorInv /\ phase \in Idling \cup {"command"}
    /\ phase' \in Taking \cup Idling \cup {"command", "run"} /\ UNCHANGED <<reported, request>>
  => ErrorInv'
  <1> SUFFICES ASSUME ErrorInv, phase \in Idling \cup {"command"},
                      phase' \in Taking \cup Idling \cup {"command", "run"},
                      UNCHANGED <<reported, request>>
               PROVE  ErrorInv'
    OBVIOUS
  <1>1. request' = NoRequest
    BY DEF ErrorInv, Idling
  <1>2. ~ reported'
    BY DEF ErrorInv
  <1> QED
    BY <1>1, <1>2 DEF ErrorInv, Idling, Taking

LEMMA ErrorAsks ==
    ErrorInv /\ phase = "run" => \A k, a, n : AskTarget(k, a, n) => ErrorInv'
  <1> SUFFICES ASSUME ErrorInv, phase = "run", NEW k, NEW a, NEW n, AskTarget(k, a, n)
               PROVE  ErrorInv'
    OBVIOUS
  <1>1. phase' = "target" /\ UNCHANGED <<line, reported>>
    BY DEF AskTarget, GoOn, parser
  <1> QED
    BY <1>1 DEF ErrorInv, Idling

LEMMA ErrorStep == HandlersInv /\ [Next]_vars => ErrorInv'
  <1> SUFFICES ASSUME ErrorInv, [Next]_vars PROVE ErrorInv'
    BY DEF HandlersInv
  <1>1. CASE UNCHANGED vars
    <2>1. UNCHANGED <<phase, line, cmd, reported, op, request>>
      BY <1>1 DEF vars, parserVars, parser, result, values, work
    <2> QED
      BY <2>1 DEF ErrorInv
  <1>2. CASE ReadLine
    BY <1>2, ErrorFree DEF ReadLine, StartLine, work, Idling
  <1>3. CASE End
    BY <1>3, ErrorFree DEF End, work, Idling
  <1>4. CASE Handle
    <2>1. CASE RunDirectory
      BY <2>1, ReturnError DEF RunDirectory, ReturnOnly
    <2>2. CASE Status
      BY <2>2, ReturnError DEF Status, ReturnOnly
    <2>3. CASE Help
      BY <2>3, ReturnError DEF Help, ReturnOnly
    <2>4. CASE Quit
      <3>1. /\ phase' = "deinit" /\ UNCHANGED request /\ phase = "run"
        BY <2>4 DEF Quit, Running, work
      <3> QED
        BY <3>1, ErrorEnds
    <2>5. CASE Open
      BY <2>5, ReturnError DEF Open, ReturnOnly
    <2>6. CASE Close
      BY <2>6, ReturnError DEF Close, ReturnOnly
    <2>7. CASE WriteStart
      <3>1. CASE ReturnOnly(TRUE)
        BY <3>1, ReturnError DEF ReturnOnly
      <3>2. CASE ~ ReturnOnly(TRUE)
        <4>1. phase = "run" /\ phase' \in {"expand"} /\ UNCHANGED <<line, reported, request>>
          BY <2>7, <3>2 DEF WriteStart, GoOn, Running, parser, result, values, work
        <4> QED
          BY <4>1, ErrorGoesOn
      <3> QED
        BY <3>1, <3>2
    <2>8. CASE WriteByte
      <3>1. CASE ReturnOnly(TRUE)
        BY <3>1, ReturnError DEF ReturnOnly
      <3>2. CASE ~ ReturnOnly(TRUE)
        <4>1. phase = "expand" /\ phase' \in {"expand"} /\ UNCHANGED <<line, reported, request>>
          BY <2>8, <3>2 DEF WriteByte, GoOn, Running, parser, result, values, work
        <4> QED
          BY <4>1, ErrorGoesOn
      <3> QED
        BY <3>1, <3>2
    <2>9. CASE WriteExpanded
      <3>1. CASE ReturnOnly(TRUE)
        BY <3>1, ReturnError DEF ReturnOnly
      <3>2. CASE ~ ReturnOnly(TRUE)
        <4>1. phase = "expand" /\ phase' \in {"op"} /\ UNCHANGED <<line, reported, request>>
          BY <2>9, <3>2 DEF WriteExpanded, GoOn, Running, parser, result, values, work
        <4> QED
          BY <4>1, ErrorGoesOn
      <3> QED
        BY <3>1, <3>2
    <2>10. CASE LoadStart
      <3>1. CASE ReturnOnly(TRUE)
        BY <3>1, ReturnError DEF ReturnOnly
      <3>2. CASE ~ ReturnOnly(TRUE)
        <4>1. phase = "run" /\ phase' \in {"load"} /\ UNCHANGED <<line, reported, request>>
          BY <2>10, <3>2 DEF LoadStart, GoOn, Running, parser, result, values, work
        <4> QED
          BY <4>1, ErrorGoesOn
      <3> QED
        BY <3>1, <3>2
    <2>11. CASE LoadFails
      BY <2>11, ReturnError DEF LoadFails, ReturnOnly
    <2>12. CASE LoadBin
      <3>1. CASE ReturnOnly(TRUE)
        BY <3>1, ReturnError DEF ReturnOnly
      <3>2. CASE ~ ReturnOnly(TRUE)
        <4>1. phase = "load" /\ phase' \in {"erase", "op"} /\ UNCHANGED <<line, reported, request>>
          BY <2>12, <3>2 DEF LoadBin, GoOn, Running, parser, result, values, work
        <4> QED
          BY <4>1, ErrorGoesOn
      <3> QED
        BY <3>1, <3>2
    <2>13. CASE EraseAll
      <3>1. phase = "erase" /\ UNCHANGED <<line, request>>
        BY <2>13 DEF EraseAll, GoOn, parser, values
      <3>2. CASE phase' = "op" /\ UNCHANGED reported
        BY <3>1, <3>2, ErrorGoesOn
      <3>3. CASE phase' = "free"
        BY <3>1, <3>3, ErrorEnds
      <3> QED
        BY <2>13, <3>2, <3>3 DEF EraseAll, GoOn
    <2>14. CASE WriteOp
      <3>1. phase = "op"
        BY <2>14 DEF WriteOp
      <3>2. CASE ReturnOnly(TRUE)
        BY <3>2, ReturnError DEF ReturnOnly
      <3>3. CASE GoOn("free") /\ UNCHANGED work
        BY <3>1, <3>3, ErrorEnds DEF GoOn, work
      <3>4. CASE /\ request' = Request(IF ToMemory THEN "write" ELSE "flash", op.address, op.len)
                 /\ reported' = (reported \/ PastEnd)
                 /\ GoOn("target") /\ UNCHANGED op
        <4>1. phase' = "target"
          BY <3>4 DEF GoOn
        <4> QED
          BY <4>1 DEF ErrorInv, Idling
      <3> QED
        BY <2>14, <3>2, <3>3, <3>4 DEF WriteOp
    <2>15. CASE Read
      <3>1. CASE ReturnOnly(TRUE)
        BY <3>1, ReturnError DEF ReturnOnly
      <3>2. CASE phase = "run" /\ \E k, a, n : AskTarget(k, a, n)
        BY <3>2, ErrorAsks
      <3> QED
        BY <2>15, <3>1, <3>2, Zenon DEF Read, Running
    <2>16. CASE EraseSector
      <3>1. CASE ReturnOnly(TRUE)
        BY <3>1, ReturnError DEF ReturnOnly
      <3>2. CASE phase = "run" /\ \E k, a, n : AskTarget(k, a, n)
        BY <3>2, ErrorAsks
      <3> QED
        BY <2>16, <3>1, <3>2, Zenon DEF EraseSector, Running
    <2>17. CASE Ask
      <3>1. CASE ReturnOnly(TRUE)
        BY <3>1, ReturnError DEF ReturnOnly
      <3>2. CASE phase = "run" /\ \E k, a, n : AskTarget(k, a, n)
        BY <3>2, ErrorAsks
      <3> QED
        BY <2>17, <3>1, <3>2, Zenon DEF Ask, Running
    <2>18. CASE TargetReturns
      <3>1. CASE \E c : Return(c)
        BY <3>1, ReturnError
      <3>2. CASE request' = NoRequest /\ phase' = "free"
        BY <3>2 DEF ErrorInv, Idling, Taking
      <3> QED
        BY <2>18, <3>1, <3>2, Zenon DEF TargetReturns, ReturnOnly, GoOn
    <2>19. CASE FreeOps
      BY <2>19, ReturnError DEF FreeOps, ReturnOnly
    <2> QED
      BY <1>4, <2>1, <2>2, <2>3, <2>4, <2>5, <2>6, <2>7, <2>8, <2>9, <2>10, <2>11, <2>12, <2>13, <2>14, <2>15, <2>16, <2>17, <2>18, <2>19 DEF Handle
  <1>5. CASE Parse /\ UNCHANGED <<session, work>>
    <2>0. UNCHANGED request /\ phase # "target" /\ request' = NoRequest
      BY <1>5, ParseFrame DEF work, ErrorInv, Working
    <2>1. CASE CommandEndsLine
      <3>1. phase = "command" /\ phase' \in Taking \cup {"command", "run"} /\ UNCHANGED reported
        BY <2>1 DEF CommandEndsLine, Succeed, Taking
      <3> QED
        BY <3>1, <2>0, ErrorFree
    <2>2. CASE NoSuchCommand
      BY <2>2, <2>0, ErrorEnds DEF NoSuchCommand
    <2>3. CASE CommandWord
      <3>1. phase = "command" /\ phase' \in Taking \cup {"command", "run"} /\ UNCHANGED reported
        BY <2>3 DEF CommandWord, Succeed, Taking
      <3> QED
        BY <3>1, <2>0, ErrorFree
    <2>4. CASE LeafEnds
      <3>1. phase \in Taking /\ phase' \in Taking \cup {"run"} /\ UNCHANGED <<line, reported>>
        BY <2>4 DEF LeafEnds, AtPositional, AtLong, AtLetter, TakeOption, Taking, Succeed, parser
      <3> QED
        BY <3>1, <2>0, ErrorGoesOn
    <2>5. CASE MissingPositional
      BY <2>5, <2>0, ErrorEnds DEF MissingPositional, Fail
    <2>6. CASE PositionalError
      BY <2>6, <2>0, ErrorEnds DEF PositionalError, Fail
    <2>7. CASE Positional
      <3>1. phase \in Taking /\ phase' \in Taking \cup {"run"} /\ UNCHANGED <<line, reported>>
        BY <2>7 DEF Positional, AtPositional, AtLong, AtLetter, TakeOption, Taking, Succeed, parser
      <3> QED
        BY <3>1, <2>0, ErrorGoesOn
    <2>8. CASE LongError
      BY <2>8, <2>0, ErrorEnds DEF LongError, Fail
    <2>9. CASE LongMissing
      <3>1. phase' = "leaf"
        BY <2>9 DEF LongMissing, AtLong
      <3> QED
        BY <3>1, <2>0 DEF ErrorInv, Idling
    <2>10. CASE Long
      <3>1. phase \in Taking /\ phase' \in Taking \cup {"run"} /\ UNCHANGED <<line, reported>>
        BY <2>10 DEF Long, AtPositional, AtLong, AtLetter, TakeOption, Taking, Succeed, parser
      <3> QED
        BY <3>1, <2>0, ErrorGoesOn
    <2>11. CASE EnterShort
      <3>1. phase \in Taking /\ phase' \in Taking \cup {"run"} /\ UNCHANGED <<line, reported>>
        BY <2>11 DEF EnterShort, AtPositional, AtLong, AtLetter, TakeOption, Taking, Succeed, parser
      <3> QED
        BY <3>1, <2>0, ErrorGoesOn
    <2>12. CASE ShortEnds
      <3>1. phase \in Taking /\ phase' \in Taking \cup {"run"} /\ UNCHANGED <<line, reported>>
        BY <2>12 DEF ShortEnds, AtPositional, AtLong, AtLetter, TakeOption, Taking, Succeed, parser
      <3> QED
        BY <3>1, <2>0, ErrorGoesOn
    <2>13. CASE ShortError
      BY <2>13, <2>0, ErrorEnds DEF ShortError, Fail
    <2>14. CASE Short
      <3>1. phase \in Taking /\ phase' \in Taking \cup {"run"} /\ UNCHANGED <<line, reported>>
        BY <2>14 DEF Short, AtPositional, AtLong, AtLetter, TakeOption, Taking, Succeed, parser
      <3> QED
        BY <3>1, <2>0, ErrorGoesOn
    <2>15. CASE Deinit
      <3>1. phase' = "prompt" /\ ~ reported'
        BY <2>15 DEF Deinit
      <3> QED
        BY <3>1, <2>0 DEF ErrorInv, Idling, Taking
    <2>16. CASE DeinitNull
      BY <2>16, <2>0, ErrorEnds DEF DeinitNull
    <2> QED
      BY <1>5, <2>1, <2>2, <2>3, <2>4, <2>5, <2>6, <2>7, <2>8, <2>9, <2>10, <2>11, <2>12, <2>13, <2>14, <2>15, <2>16 DEF Parse
  <1> QED
    BY <1>1, <1>2, <1>3, <1>4, <1>5 DEF Next, debugger_do_line
\* What is not freed with the result of the parser.
Own == {TheOne("scratch"), TheOne("port"), TheOne("file"), TheOne("ops")}

LEMMA Distinct ==
    /\ TheOne("scratch") # TheOne("port") /\ TheOne("scratch") # TheOne("file")
    /\ TheOne("scratch") # TheOne("ops") /\ TheOne("port") # TheOne("file")
    /\ TheOne("port") # TheOne("ops") /\ TheOne("file") # TheOne("ops")
  BY DEF TheOne

LEMMA NotOwn ==
    /\ \A i : Nth("positional", i) \notin Own /\ Nth("option", i) \notin Own
    /\ TheOne("options") \notin Own /\ TheOne("positionals") \notin Own
  BY DEF Own, Nth, TheOne

LEMMA Apart == Freed \cap Own = {} /\ Freed' \cap Own = {}
  BY NotOwn DEF Freed, FreedStrings

LEMMA KeptOwn == Kept \subseteq Own /\ Kept' \subseteq Own
  BY DEF Kept, Own

LEMMA SameFreed == UNCHANGED <<cmd, positionals, options>> => Freed' = Freed
  BY DEF Freed, FreedStrings, StringPositionals, PosType, MaxPositionals

\* Nothing is allocated or freed.
LEMMA HeapKept ==
    ASSUME HeapInv, phase # "ended", phase' \notin Idling \cup {"command"}, heap' = heap,
           Freed' = Freed, Held' = Held, Kept' = Kept
    PROVE  HeapInv'
  BY DEF HeapInv, Idling

LEMMA ReturnHeap ==
    ASSUME HeapInv, phase # "ended", Held = {}, Freed' = Freed, NEW c, ReturnOnly(c)
    PROVE  HeapInv'
  <1>1. phase' = "deinit" /\ heap' = heap /\ conn' = conn
    BY DEF ReturnOnly, Return
  <1>2. Held' = {} /\ Kept' = Kept
    BY <1>1 DEF Held, Kept
  <1> QED
    BY <1>1, <1>2, HeapKept DEF Idling

\* A command that loads has ops to free, and no other.
LEMMA OpsHeld ==
    HeapInv /\ phase \in {"op", "target"} =>
        Held = IF AfterOp = "free" THEN {TheOne("ops")} ELSE {}
  <1> SUFFICES ASSUME HeapInv, phase \in {"op", "target"}
               PROVE  Held = IF AfterOp = "free" THEN {TheOne("ops")} ELSE {}
    OBVIOUS
  <1>1. heap \ Freed = Kept \cup Held
    BY DEF HeapInv
  <1>2. TheOne("ops") \notin Freed /\ TheOne("ops") \notin Kept
    BY Apart, Distinct DEF Own, Kept
  <1>3. Held = IF cmd.payload \in Loads THEN {TheOne("ops")} ELSE {}
    BY DEF Held
  <1>4. TheOne("ops") \in heap <=> cmd.payload \in Loads
    BY <1>1, <1>2, <1>3
  <1> QED
    BY <1>3, <1>4 DEF AfterOp

LEMMA FreeHeap ==
    ASSUME HeapInv, phase \in {"op", "target"}, AfterOp = "free", Freed' = Freed,
           GoOn("free"), UNCHANGED heap
    PROVE  HeapInv'
  <1>1. phase' = "free" /\ conn' = conn
    BY DEF GoOn, session
  <1>2. Held = {TheOne("ops")} /\ Held' = {TheOne("ops")} /\ Kept' = Kept
    BY <1>1, OpsHeld DEF Held, Kept
  <1> QED
    BY <1>1, <1>2, HeapKept DEF Idling

LEMMA HandleHeap ==
    ASSUME MatchInv, HeapInv, Handle
    PROVE  HeapInv'
  <1>0. /\ Freed' = Freed /\ UNCHANGED cmd /\ phase # "ended"
        /\ phase' \notin Idling \cup {"command"}
        /\ phase \in {"run", "expand"} => Held = {}
    BY HandleFrame, SameFreed DEF values, Working, Idling, Held
  <1>1. CASE RunDirectory
    BY <1>1, <1>0, ReturnHeap DEF RunDirectory, Running
  <1>2. CASE Status
    BY <1>2, <1>0, ReturnHeap DEF Status, Running
  <1>3. CASE Help
    BY <1>3, <1>0, ReturnHeap DEF Help, Running
  <1>4. CASE Quit
    <2>1. phase = "run" /\ phase' = "deinit" /\ UNCHANGED <<heap, conn>>
      BY <1>4 DEF Quit, Running, result
    <2>2. Held = {} /\ Held' = {} /\ Kept' = Kept
      BY <2>1 DEF Held, Kept
    <2> QED
      BY <1>0, <2>1, <2>2, HeapKept
  <1>5. CASE Open
    <2>1. phase = "run"
      BY <1>5 DEF Open, Running
    <2>2. CASE ReturnOnly(TRUE)
      BY <1>0, <2>1, <2>2, ReturnHeap
    <2>3. CASE conn' = TRUE /\ heap' = heap \cup {TheOne("port")} /\ Return(FALSE)
      <3>1. Held = {} /\ Held' = {} /\ Kept' = Kept \cup {TheOne("port")}
        BY <2>1, <2>3 DEF Held, Kept, Return
      <3>2. phase' = "deinit"
        BY <2>3 DEF Return
      <3>3. heap' \ Freed' = Kept' \cup Held'
        BY <1>0, <2>1, <2>3, <3>1, Apart DEF HeapInv, Own
      <3> QED
        BY <3>2, <3>3 DEF HeapInv
    <2> QED
      BY <1>5, <2>2, <2>3 DEF Open
  <1>6. CASE Close
    <2>1. /\ phase = "run" /\ phase' = "deinit" /\ conn' = FALSE
          /\ heap' = heap \ {TheOne("port")}
      BY <1>6 DEF Close, Running, Return
    <2>2. Held = {} /\ Held' = {} /\ Kept' = Kept \ {TheOne("port")}
      BY <2>1, Distinct DEF Held, Kept
    <2>3. heap' \ Freed' = Kept' \cup Held'
      BY <1>0, <2>1, <2>2 DEF HeapInv
    <2> QED
      BY <2>1, <2>3 DEF HeapInv
  <1>7. CASE WriteStart
    <2>1. phase = "run"
      BY <1>7 DEF WriteStart, Running
    <2>2. CASE ReturnOnly(TRUE)
      BY <1>0, <2>1, <2>2, ReturnHeap
    <2>3. CASE ~ ReturnOnly(TRUE)
      <3>1. phase' = "expand" /\ UNCHANGED <<heap, conn>>
        BY <1>7, <2>1, <2>3 DEF WriteStart, GoOn, session, result
      <3>2. Held = {} /\ Held' = {} /\ Kept' = Kept
        BY <1>7, <1>0, <2>1, <3>1 DEF Held, Kept, WriteStart, MatchInv, Writes, Loads
      <3> QED
        BY <1>0, <2>1, <3>1, <3>2, HeapKept
    <2> QED
      BY <2>2, <2>3
  <1>8. CASE WriteByte
    <2>1. phase = "expand"
      BY <1>8 DEF WriteByte, Running
    <2>2. CASE ReturnOnly(TRUE)
      BY <1>0, <2>1, <2>2, ReturnHeap
    <2>3. CASE ~ ReturnOnly(TRUE)
      <3>1. phase' = "expand" /\ UNCHANGED <<heap, conn>>
        BY <1>8, <2>1, <2>3 DEF WriteByte, GoOn, session, result
      <3>2. Held = {} /\ Held' = {} /\ Kept' = Kept
        BY <1>8, <1>0, <2>1, <3>1 DEF Held, Kept, WriteByte, MatchInv, Writes, Loads
      <3> QED
        BY <1>0, <2>1, <3>1, <3>2, HeapKept
    <2> QED
      BY <2>2, <2>3
  <1>9. CASE WriteExpanded
    <2>1. phase = "expand"
      BY <1>9 DEF WriteExpanded, Running
    <2>2. CASE ReturnOnly(TRUE)
      BY <1>0, <2>1, <2>2, ReturnHeap
    <2>3. CASE ~ ReturnOnly(TRUE)
      <3>1. phase' = "op" /\ UNCHANGED <<heap, conn>>
        BY <1>9, <2>1, <2>3 DEF WriteExpanded, GoOn, session, result
      <3>2. Held = {} /\ Held' = {} /\ Kept' = Kept
        BY <1>9, <1>0, <2>1, <3>1 DEF Held, Kept, WriteExpanded, MatchInv, Writes, Loads
      <3> QED
        BY <1>0, <2>1, <3>1, <3>2, HeapKept
    <2> QED
      BY <2>2, <2>3
  <1>10. CASE LoadStart
    <2>1. phase = "run"
      BY <1>10 DEF LoadStart, Running
    <2>2. CASE ReturnOnly(TRUE)
      BY <1>0, <2>1, <2>2, ReturnHeap
    <2>3. CASE heap' = heap \cup {TheOne("file")} /\ GoOn("load")
      <3>1. Held = {} /\ Held' = {TheOne("file")} /\ Kept' = Kept /\ phase' = "load"
        BY <2>1, <2>3 DEF Held, Kept, GoOn, session
      <3>2. heap' \ Freed' = Kept' \cup Held'
        BY <1>0, <2>1, <2>3, <3>1, Apart DEF HeapInv, Own
      <3> QED
        BY <3>1, <3>2 DEF HeapInv
    <2> QED
      BY <1>10, <2>2, <2>3 DEF LoadStart
  <1>11. CASE LoadFails
    <2>1. /\ phase = "load" /\ phase' = "deinit" /\ UNCHANGED conn
          /\ heap' = heap \ {TheOne("file")}
      BY <1>11 DEF LoadFails, Return
    <2>2. Held = {TheOne("file")} /\ Held' = {} /\ Kept' = Kept
      BY <2>1 DEF Held, Kept
    <2>3. TheOne("file") \notin Kept
      BY Distinct DEF Kept
    <2>4. heap' \ Freed' = Kept' \cup Held'
      BY <1>0, <2>1, <2>2, <2>3 DEF HeapInv
    <2> QED
      BY <2>1, <2>4 DEF HeapInv
  <1>12. CASE LoadBin
    <2>1. /\ phase = "load" /\ phase' \in {"erase", "op"} /\ UNCHANGED conn
          /\ heap' = (heap \ {TheOne("file")}) \cup {TheOne("ops")}
      BY <1>12 DEF LoadBin, GoOn, session
    <2>2. cmd'.payload \in Loads
      BY <1>0, <2>1 DEF MatchInv
    <2>3. Held = {TheOne("file")} /\ Held' = {TheOne("ops")} /\ Kept' = Kept
      BY <2>1, <2>2 DEF Held, Kept
    <2>4. TheOne("file") \notin Kept
      BY Distinct DEF Kept
    <2>5. heap' \ Freed' = Kept' \cup Held'
      BY <1>0, <2>1, <2>3, <2>4, Apart DEF HeapInv, Own
    <2> QED
      BY <2>1, <2>5 DEF HeapInv
  <1>13. CASE EraseAll
    <2>1. phase = "erase" /\ phase' \in {"op", "free"} /\ UNCHANGED <<heap, conn>>
      BY <1>13 DEF EraseAll, GoOn, session
    <2>2. cmd.payload \in Loads /\ cmd'.payload \in Loads
      BY <1>0, <2>1 DEF MatchInv
    <2>3. Held' = Held /\ Kept' = Kept
      BY <2>1, <2>2 DEF Held, Kept
    <2> QED
      BY <1>0, <2>1, <2>3, HeapKept
  <1>14. CASE WriteOp
    <2>1. phase = "op"
      BY <1>14 DEF WriteOp
    <2>2. CASE ReturnOnly(TRUE) /\ AfterOp # "free"
      BY <1>0, <2>1, <2>2, OpsHeld, ReturnHeap
    <2>3. CASE GoOn("free") /\ UNCHANGED heap /\ AfterOp = "free"
      BY <1>0, <2>1, <2>3, FreeHeap
    <2>4. CASE GoOn("target") /\ UNCHANGED heap
      <3>1. Held' = Held /\ Kept' = Kept /\ phase' = "target"
        BY <1>0, <2>1, <2>4 DEF Held, Kept, GoOn, session
      <3> QED
        BY <1>0, <2>1, <2>4, <3>1, HeapKept
    <2> QED
      BY <1>14, <2>2, <2>3, <2>4 DEF WriteOp
  <1>15. CASE Read
    <2>1. phase = "run" /\ cmd.payload \in {"memory_read", "disassemble"}
      BY <1>15 DEF Read, Running
    <2>2. CASE ReturnOnly(TRUE)
      BY <1>0, <2>1, <2>2, ReturnHeap
    <2>3. CASE ~ ReturnOnly(TRUE)
      <3>1. phase' = "target" /\ UNCHANGED <<heap, conn>>
        BY <1>15, <2>3 DEF Read, AskTarget, GoOn, session
      <3>2. Held = {} /\ Held' = {} /\ Kept' = Kept
        BY <1>0, <2>1, <3>1 DEF Held, Kept, Loads
      <3> QED
        BY <1>0, <2>1, <3>1, <3>2, HeapKept
    <2> QED
      BY <2>2, <2>3
  <1>16. CASE EraseSector
    <2>1. phase = "run" /\ cmd.payload \in {"flash_erase_sector"}
      BY <1>16 DEF EraseSector, Running
    <2>2. CASE ReturnOnly(TRUE)
      BY <1>0, <2>1, <2>2, ReturnHeap
    <2>3. CASE ~ ReturnOnly(TRUE)
      <3>1. phase' = "target" /\ UNCHANGED <<heap, conn>>
        BY <1>16, <2>3 DEF EraseSector, AskTarget, GoOn, session
      <3>2. Held = {} /\ Held' = {} /\ Kept' = Kept
        BY <1>0, <2>1, <3>1 DEF Held, Kept, Loads
      <3> QED
        BY <1>0, <2>1, <3>1, <3>2, HeapKept
    <2> QED
      BY <2>2, <2>3
  <1>17. CASE Ask
    <2>1. phase = "run" /\ cmd.payload \in {"flash_erase_chip", "flash_info", "ping"}
      BY <1>17 DEF Ask, Running
    <2>2. CASE ReturnOnly(TRUE)
      BY <1>0, <2>1, <2>2, ReturnHeap
    <2>3. CASE ~ ReturnOnly(TRUE)
      <3>1. phase' = "target" /\ UNCHANGED <<heap, conn>>
        BY <1>17, <2>3 DEF Ask, AskTarget, GoOn, session
      <3>2. Held = {} /\ Held' = {} /\ Kept' = Kept
        BY <1>0, <2>1, <3>1 DEF Held, Kept, Loads
      <3> QED
        BY <1>0, <2>1, <3>1, <3>2, HeapKept
    <2> QED
      BY <2>2, <2>3
  <1>18. CASE TargetReturns
    <2>1. phase = "target"
      BY <1>18 DEF TargetReturns
    <2>2. CASE AfterOp = "free"
      <3>1. GoOn("free") /\ UNCHANGED heap
        BY <1>18, <2>2 DEF TargetReturns
      <3> QED
        BY <1>0, <2>1, <2>2, <3>1, FreeHeap
    <2>3. CASE AfterOp # "free"
      <3>1. \E c : ReturnOnly(c)
        BY <1>18, <2>3, Zenon DEF TargetReturns
      <3> QED
        BY <1>0, <2>1, <2>3, <3>1, OpsHeld, ReturnHeap
    <2> QED
      BY <2>2, <2>3
  <1>19. CASE FreeOps
    <2>1. /\ phase = "free" /\ phase' = "deinit" /\ UNCHANGED conn
          /\ heap' = heap \ {TheOne("ops")}
      BY <1>19 DEF FreeOps, Return
    <2>2. Held = {TheOne("ops")} /\ Held' = {} /\ Kept' = Kept
      BY <2>1 DEF Held, Kept
    <2>3. TheOne("ops") \notin Kept
      BY Distinct DEF Kept
    <2>4. heap' \ Freed' = Kept' \cup Held'
      BY <1>0, <2>1, <2>2, <2>3 DEF HeapInv
    <2> QED
      BY <2>1, <2>4 DEF HeapInv
  <1> QED
    BY <1>0, <1>1, <1>2, <1>3, <1>4, <1>5, <1>6, <1>7, <1>8, <1>9, <1>10, <1>11, <1>12, <1>13, <1>14, <1>15, <1>16, <1>17, <1>18, <1>19 DEF Handle
\* A command line that was not found to be one of a leaf: nothing is allocated.
LEMMA EmptyHeap ==
    ASSUME HeapInv, phase = "command", Kept' = Kept, Held' = {}, phase' # "ended",
           \/ heap' = heap
           \/ heap' = heap \cup {TheOne("options")} /\ phase' = "leaf"
    PROVE  HeapInv'
  <1>1. heap = Kept
    BY DEF HeapInv
  <1>2. heap' \ Freed' = Kept'
    BY <1>1, Apart, KeptOwn DEF Freed
  <1> QED
    BY <1>1, <1>2 DEF HeapInv

LEMMA SameHeap ==
    ASSUME HeapInv, Kept' = Kept, Held = {}, Held' = {}, phase # "ended",
           phase' \notin Idling \cup {"command"}, UNCHANGED <<cmd, positionals, options, heap>>
    PROVE  HeapInv'
  <1>1. Freed' = Freed
    BY SameFreed
  <1> QED
    BY <1>1, HeapKept

LEMMA FailHeap ==
    ASSUME HeapInv, Kept' = Kept, Held = {}, Held' = {}, phase # "ended", Fail
    PROVE  HeapInv'
  <1>1. /\ heap' = heap \ {TheOne("positionals")} /\ phase' = "deinit"
        /\ UNCHANGED <<cmd, positionals, options>>
    BY DEF Fail, values
  <1>2. Freed' = Freed
    BY <1>1, SameFreed
  <1>3. heap' \ Freed' = Kept' \cup Held'
    BY <1>1, <1>2 DEF HeapInv, Freed
  <1> QED
    BY <1>1, <1>3 DEF HeapInv

\* What is allocated and will be freed grows by the same, s.
LEMMA GrownHeap ==
    ASSUME HeapInv, Kept' = Kept, Held = {}, Held' = {}, phase # "ended",
           phase' \notin Idling \cup {"command"}, NEW s, s \cap Own = {},
           \/ heap' = heap \cup s
           \/ heap' = heap \cup s \cup {TheOne("positionals")},
           FreedStrings' = FreedStrings \cup s
    PROVE  HeapInv'
  <1>1. heap \ Freed = Kept /\ Freed' = Freed \cup s /\ TheOne("positionals") \in Freed
    BY DEF HeapInv, Freed
  <1>2. heap' \ Freed' = Kept'
    BY <1>1, KeptOwn
  <1> QED
    BY <1>2 DEF HeapInv, Idling

LEMMA PositionalHeap ==
    ASSUME MatchInv, TakenInv, HeapInv, Kept' = Kept, Held = {}, Held' = {}, Positional
    PROVE  HeapInv'
  <1> DEFINE n == Len(positionals) + 1
             s == IF PosType(n) = "str" THEN {Nth("positional", n)} ELSE {}
  <1>1. /\ phase = "leaf" /\ phase' = "leaf" /\ UNCHANGED <<cmd, options>>
        /\ positionals' = Append(positionals, Word)
        /\ heap' = Allocated(PosType(n), Nth("positional", n)) \cup {TheOne("positionals")}
    BY DEF Positional, AtPositional
  <1>2. positionals \in Seq(STRING) /\ cmd.type = "leaf"
    BY <1>1 DEF TakenInv, MatchInv, Taking
  <1>3. n \in Nat /\ 1 .. Len(positionals') = (1 .. Len(positionals)) \cup {n}
    BY <1>1, <1>2
  <1>4. heap' = heap \cup s \cup {TheOne("positionals")} /\ s \cap Own = {}
    BY <1>1, NotOwn DEF Allocated
  <1>5. \A i : PosType(i)' = PosType(i)
    BY <1>1 DEF PosType, MaxPositionals
  <1> HIDE DEF n
  <1>6. StringPositionals' =
           StringPositionals \cup (IF PosType(n) = "str" THEN {n} ELSE {})
    BY <1>1, <1>2, <1>3, <1>5 DEF StringPositionals
  <1>7. FreedStrings' = FreedStrings \cup s
    BY <1>1, <1>6 DEF FreedStrings
  <1> HIDE DEF s
  <1> QED
    BY <1>1, <1>4, <1>7, GrownHeap DEF Idling

LEMMA OptionHeap ==
    ASSUME MatchInv, TakenInv, HeapInv, Kept' = Kept, Held = {}, Held' = {}, phase \in Taking,
           NEW i \in 1 .. Len(cmd.options), ~ options[i].present, NEW v, NEW n,
           TakeOption(i, v, n)
    PROVE  HeapInv'
  <1> DEFINE s == IF cmd.options[i].type = "str" THEN {Nth("option", i)} ELSE {}
  <1>1. /\ phase' = "leaf" /\ UNCHANGED <<cmd, positionals>> /\ cmd.type = "leaf"
        /\ options' = [options EXCEPT ![i] = Given(v)]
        /\ heap' = Allocated(cmd.options[i].type, Nth("option", i))
    BY DEF TakeOption, MatchInv
  <1>2. options = [j \in 1 .. Len(cmd.options) |-> options[j]]
    BY <1>1 DEF TakenInv
  <1>3. /\ DOMAIN options = 1 .. Len(cmd.options) /\ DOMAIN options' = DOMAIN options
        /\ options'[i].present
        /\ \A j \in DOMAIN options : j # i => options'[j] = options[j]
    BY <1>1, <1>2 DEF Given
  <1>4. heap' = heap \cup s /\ s \cap Own = {}
    BY <1>1, NotOwn DEF Allocated
  <1>5. StringPositionals' = StringPositionals
    BY <1>1 DEF StringPositionals, PosType, MaxPositionals
  <1> DEFINE strings == {j \in DOMAIN options : options[j].present /\ cmd.options[j].type = "str"}
             strings1 == {j \in DOMAIN options' : options'[j].present /\ cmd'.options[j].type = "str"}
  <1>6. strings1 = strings \cup (IF cmd.options[i].type = "str" THEN {i} ELSE {})
    BY <1>1, <1>3
  <1>7. /\ FreedStrings = {Nth("positional", j) : j \in StringPositionals}
                             \cup {Nth("option", j) : j \in strings}
        /\ FreedStrings' = {Nth("positional", j) : j \in StringPositionals'}
                             \cup {Nth("option", j) : j \in strings1}
    BY DEF FreedStrings
  <1> HIDE DEF strings, strings1
  <1>8. FreedStrings' = FreedStrings \cup s
    BY <1>5, <1>6, <1>7
  <1> HIDE DEF s
  <1>9. phase # "ended"
    BY DEF Taking
  <1> QED
    BY <1>1, <1>4, <1>8, <1>9, GrownHeap DEF Idling

LEMMA HeapStep == HandlersInv /\ [Next]_vars => HeapInv'
  <1> SUFFICES ASSUME MatchInv, TakenInv, HeapInv, [Next]_vars PROVE HeapInv'
    BY DEF HandlersInv
  <1>1. CASE UNCHANGED vars
    <2>1. UNCHANGED <<phase, cmd, positionals, options, heap, conn>>
      BY <1>1 DEF vars, parserVars, result, values, session
    <2>2. Freed' = Freed /\ Held' = Held /\ Kept' = Kept
      BY <2>1, SameFreed DEF Held, Kept
    <2> QED
      BY <2>1, <2>2 DEF HeapInv
  <1>2. CASE ReadLine
    <2>1. phase = "prompt" /\ phase' = "command" /\ UNCHANGED <<heap, conn>>
      BY <1>2 DEF ReadLine, StartLine, result, session
    <2>2. Held' = {} /\ Kept' = Kept
      BY <2>1 DEF Held, Kept
    <2>3. heap' = Kept'
      BY <2>1, <2>2 DEF HeapInv
    <2> QED
      BY <2>1, <2>2, <2>3, Apart, KeptOwn DEF HeapInv
  <1>3. CASE End
    <2>1. phase = "prompt" /\ phase' = "ended" /\ heap' = heap \ {TheOne("scratch"), TheOne("port")}
      BY <1>3 DEF End
    <2>2. heap' = {}
      BY <2>1 DEF HeapInv, Kept
    <2> QED
      BY <2>1, <2>2 DEF HeapInv
  <1>4. CASE Handle
    BY <1>4, HandleHeap
  <1>5. CASE Parse /\ UNCHANGED <<session, work>>
    <2>0. Held = {} /\ Held' = {} /\ Kept' = Kept /\ phase # "ended" /\ phase' # "ended"
      BY <1>5, ParseFrame DEF Held, Kept, session, Working, Idling
    <2> USE DEF Idling, Taking
    <2>1. CASE CommandEndsLine
      BY <2>1, <2>0, EmptyHeap DEF CommandEndsLine, Succeed, result
    <2>2. CASE NoSuchCommand
      BY <2>2, <2>0, EmptyHeap DEF NoSuchCommand
    <2>3. CASE CommandWord
      BY <2>3, <2>0, EmptyHeap DEF CommandWord
    <2>4. CASE LeafEnds
      <3>1. /\ phase \in Taking /\ phase' \in Taking \cup {"run"}
            /\ UNCHANGED <<cmd, positionals, options, heap>>
        BY <2>4 DEF LeafEnds, AtLong, Taking, Succeed, result, values
      <3> QED
        BY <2>0, <3>1, SameHeap
    <2>5. CASE MissingPositional
      BY <2>5, <2>0, FailHeap DEF MissingPositional, AtPositional, AtLong, AtLetter
    <2>6. CASE PositionalError
      BY <2>6, <2>0, FailHeap DEF PositionalError, AtPositional, AtLong, AtLetter
    <2>7. CASE Positional
      BY <2>7, <2>0, PositionalHeap
    <2>8. CASE LongError
      BY <2>8, <2>0, FailHeap DEF LongError, AtPositional, AtLong, AtLetter
    <2>9. CASE LongMissing
      <3>1. /\ phase \in Taking /\ phase' \in Taking \cup {"run"}
            /\ UNCHANGED <<cmd, positionals, options, heap>>
        BY <2>9 DEF LongMissing, AtLong, Taking, Succeed, result, values
      <3> QED
        BY <2>0, <3>1, SameHeap
    <2>10. CASE Long
      <3>1. LongIndex \in 1 .. Len(cmd.options)
        <4>1. cmd.type = "leaf"
          BY <2>10 DEF Long, AtLong, MatchInv, Taking
        <4>2. Len(cmd.options) \in Nat
          BY <4>1, LeafCmd DEF IsLeaf
        <4> QED
          BY <2>10, <4>2, FirstFits DEF Long, LongIndex, LongOption
      <3> QED
        BY <2>10, <2>0, <3>1, OptionHeap DEF Long, AtLong, Taking
    <2>11. CASE EnterShort
      <3>1. /\ phase \in Taking /\ phase' \in Taking \cup {"run"}
            /\ UNCHANGED <<cmd, positionals, options, heap>>
        BY <2>11 DEF EnterShort, AtLong, Taking, Succeed, result, values
      <3> QED
        BY <2>0, <3>1, SameHeap
    <2>12. CASE ShortEnds
      <3>1. /\ phase \in Taking /\ phase' \in Taking \cup {"run"}
            /\ UNCHANGED <<cmd, positionals, options, heap>>
        BY <2>12 DEF ShortEnds, AtLong, Taking, Succeed, result, values
      <3> QED
        BY <2>0, <3>1, SameHeap
    <2>13. CASE ShortError
      BY <2>13, <2>0, FailHeap DEF ShortError, AtPositional, AtLong, AtLetter
    <2>14. CASE Short
      <3>1. ShortIndex \in 1 .. Len(cmd.options)
        <4>1. cmd.type = "leaf"
          BY <2>14 DEF Short, AtLetter, MatchInv, Taking
        <4>2. Len(cmd.options) \in Nat
          BY <4>1, LeafCmd DEF IsLeaf
        <4> QED
          BY <2>14, <4>2, FirstFits DEF Short, ShortIndex, ShortOption
      <3> QED
        BY <2>14, <2>0, <3>1, OptionHeap DEF Short, AtLetter, Taking
    <2>15. CASE Deinit
      <3>1. heap' = heap \ Freed /\ phase' = "prompt" /\ phase = "deinit"
        BY <2>15 DEF Deinit, Freed
      <3>2. heap' = Kept'
        BY <2>0, <3>1 DEF HeapInv, Held
      <3> QED
        BY <2>0, <3>1, <3>2, Apart, KeptOwn DEF HeapInv, Idling
    <2>16. CASE DeinitNull
      <3>1. phase' = "crashed" /\ UNCHANGED <<cmd, positionals, options, heap>>
        BY <2>16 DEF DeinitNull, result, values
      <3> QED
        BY <2>0, <3>1, SameHeap
    <2> QED
      BY <1>5, <2>1, <2>2, <2>3, <2>4, <2>5, <2>6, <2>7, <2>8, <2>9, <2>10, <2>11, <2>12, <2>13, <2>14, <2>15, <2>16 DEF Parse
  <1> QED
    BY <1>1, <1>2, <1>3, <1>4, <1>5 DEF Next, debugger_do_line
-----------------------------------------------------------------------------
(***************************************************************************)
(* What a write is made of.                                                *)
(***************************************************************************)

\* scratch holds, field by field and from its low byte, the values again and again.
Values == Len(positionals) - 1
Spread == \A f \in Nat : \A i \in 0 .. Width - 1 :
    f * Width + i < Len(scratch) =>
        scratch[f * Width + i + 1] = ByteOf(as_int(positionals[2 + (f % Values)]), i)

\* The fields before the one that subcommand_write is at.
Passed == loop.j * Values + loop.k - 1

Expanding ==
    /\ loop.j <= Repeat /\ (loop.j = Repeat => loop.k = 1 /\ loop.l = 0)
    /\ Len(scratch) = Passed * Width + loop.l
Expanded == /\ op = [address |-> Address, len |-> Len(scratch)]
            /\ Len(scratch) = Fields * Width
Widths == Repeat \in Nat /\ Width \in 1 .. MaxWidth /\ Values >= 1
Loaded == /\ op = [address |-> Relocation, len |-> Len(Files[Path])]
          /\ Path \in DOMAIN Files
          /\ \E n \in 0 .. Len(Files[Path]) : scratch = SubSeq(Files[Path], 1, n)

DataInv ==
    /\ phase = "expand" => Expanding /\ Repeat \in Nat /\ Spread
    /\ phase \in {"op", "target"} /\ cmd.payload \in Writes => Expanded /\ Widths /\ Spread
    /\ phase \in {"erase", "op", "target"} /\ cmd.payload \in Loads => Loaded
    /\ request.kind \in {"write", "flash"} =>
          /\ phase = "target" /\ cmd.payload \in Writes \cup Loads
          /\ request.address = op.address /\ request.len = op.len

DataVars == <<phase, cmd.payload, positionals, options, op, scratch, loop, request>>

LEMMA SameData == DataInv /\ UNCHANGED DataVars => DataInv'
  <1> SUFFICES ASSUME DataInv, UNCHANGED DataVars PROVE DataInv'
    OBVIOUS
  <1>1. UNCHANGED <<phase, cmd.payload, positionals, options, op, scratch, loop, request>>
    BY DEF DataVars
  <1>2. /\ Address' = Address /\ Repeat' = Repeat /\ Width' = Width
        /\ Relocation' = Relocation /\ Path' = Path
    BY <1>1, SameArguments
  <1>3. Values' = Values /\ Fields' = Fields
    BY <1>1, <1>2 DEF Values, Fields
  <1>4. Spread' = Spread /\ Expanding' = Expanding /\ Expanded' = Expanded /\ Widths' = Widths
    BY <1>1, <1>2, <1>3 DEF Spread, Expanding, Passed, Expanded, Widths
  <1>5. Loaded' = Loaded
    BY <1>1, <1>2 DEF Loaded
  <1> QED
    BY <1>1, <1>2, <1>4, <1>5 DEF DataInv

LEMMA NextPosition ==
    ASSUME NEW n \in Nat \ {0}, NEW w \in Nat \ {0},
           NEW j \in Nat, NEW k \in 1 .. n, NEW l \in 0 .. w - 1
    PROVE  /\ l + 1 < w => (j * n + k - 1) * w + (l + 1) = ((j * n + k - 1) * w + l) + 1
           /\ l + 1 = w => (j * n + (k + 1) - 1) * w + 0 = ((j * n + k - 1) * w + l) + 1
           /\ l + 1 = w /\ k = n =>
                 ((j + 1) * n + 1 - 1) * w + 0 = ((j * n + k - 1) * w + l) + 1
  <1>1. PICK a \in Nat : a = j * n
    <2>1. j * n \in Nat
      BY SMT
    <2> QED
      BY <2>1
  <1>2. PICK q \in Nat : q = a + k - 1
    BY <1>1
  <1>3. (q + 1) * w = q * w + w /\ q * w \in Nat
    BY SMT
  <1>4. (j + 1) * n = a + n
    BY <1>1, SMT
  <1>5. j * n + k - 1 = q /\ j * n + (k + 1) - 1 = q + 1
    BY <1>1, <1>2
  <1>6. k = n => (j + 1) * n + 1 - 1 = q + 1
    BY <1>1, <1>2, <1>4
  <1> QED
    BY <1>3, <1>5, <1>6

\* A place belongs to one byte of one field.
LEMMA OnePlace ==
    ASSUME NEW w \in Nat \ {0}, NEW f \in Nat, NEW d \in Nat,
           NEW i \in 0 .. w - 1, NEW l \in 0 .. w - 1, f * w + i = d * w + l
    PROVE  f = d /\ i = l
  <1>1. PICK a \in Int : a = f * w + i
    <2>1. f * w + i \in Int
      BY SMT
    <2> QED
      BY <2>1
  <1>2. a = w * f + i /\ a = w * d + l
    BY <1>1, SMT
  <1>3. a % w = i /\ a % w = l
    <2>1. f \in Int /\ d \in Int
      OBVIOUS
    <2>2. ASSUME NEW e \in Int, NEW r \in 0 .. w - 1, a = (w * e) + r
          PROVE  a % w = r
      BY <2>2, ModUnique
    <2>3. \A e \in Int : \A r \in 0 .. w - 1 : a = w * e + r => a % w = r
      BY <2>2
    <2> QED
      BY <1>2, <2>1, <2>3, Zenon
  <1>4. PICK q \in Int : q = f - d
    OBVIOUS
  <1>5. w * q = 0
    BY <1>2, <1>3, <1>4, SMT
  <1>6. q = 0
    BY <1>5, SmallMultiple
  <1> QED
    BY <1>3, <1>4, <1>6

LEMMA WriteByteData ==
    ASSUME WorkInv, TakenInv, DataInv, WriteByte, ByteFits
    PROVE  DataInv'
  <1>1. /\ phase = "expand" /\ phase' = "expand"
        /\ UNCHANGED <<phase, cmd, positionals, options, op, request>>
        /\ scratch' = Append(scratch, ByteOf(as_int(positionals[loop.k + 1]), loop.l))
        /\ loop' = NextByte /\ loop.j < Repeat
    BY DEF WriteByte, result, values
  <1> DEFINE n == Values
             w == Width
             d == Passed
  <1>2. /\ w \in Nat \ {0} /\ n \in Nat \ {0} /\ w \in 1 .. MaxWidth
        /\ loop.k \in 1 .. n /\ loop.l \in 0 .. w - 1 /\ Repeat \in Nat
        /\ loop \in [j : Nat, k : Nat, l : Nat] /\ loop.j \in Nat /\ scratch \in Seq(Byte)
    <2>1. /\ w \in 1 .. MaxWidth /\ loop.k \in 1 .. Len(positionals) - 1
          /\ loop.l \in 0 .. w - 1 /\ loop \in [j : Nat, k : Nat, l : Nat]
          /\ scratch \in Seq(Byte) /\ Len(positionals) \in Nat
      BY <1>1 DEF WorkInv, ExpandInv, TakenInv
    <2>2. Repeat \in Nat
      BY <1>1 DEF DataInv
    <2>3. loop.j \in Nat
      BY <2>1
    <2>4. n \in Nat \ {0} /\ loop.k \in 1 .. n
      <3>1. n = Len(positionals) - 1
        BY DEF Values
      <3>2. loop.k \in 1 .. n
        BY <2>1, <3>1
      <3> HIDE DEF n
      <3> QED
        BY <2>1, <3>1, <3>2
    <2>5. w \in Nat \ {0}
      BY <2>1, Space
    <2> HIDE DEF n, w
    <2> QED
      BY <2>1, <2>2, <2>3, <2>4, <2>5, Zenon
  <1>3. Len(scratch) = d * w + loop.l /\ Spread
    BY <1>1 DEF DataInv, Expanding
  <1>4. Values' = n /\ Width' = w /\ Repeat' = Repeat
    BY <1>1, SameArguments DEF Values
  <1>5. d = loop.j * n + loop.k - 1 /\ d \in Nat /\ d % n = loop.k - 1
    <2>1. PICK a \in Nat : a = loop.j * n
      <3>1. loop.j * n \in Nat
        BY <1>2, SMT
      <3> QED
        BY <3>1
    <2>2. PICK r \in 0 .. n - 1 : r = loop.k - 1
      BY <1>2
    <2>3. d = a + r
      BY <1>2, <2>1, <2>2 DEF Passed
    <2>4. a = n * loop.j
      BY <1>2, <2>1, SMT
    <2>5. d = (n * loop.j) + r /\ d \in Int
      BY <1>2, <2>1, <2>3, <2>4
    <2> HIDE DEF d, n
    <2>6. loop.j \in Int
      BY <1>2
    <2>7. d % n = r
      BY <1>2, <2>5, <2>6, ModUnique, Zenon
    <2> QED
      BY <2>1, <2>2, <2>3, <2>7 DEF d, Passed, n
  <1> HIDE DEF d, n, w
  <1>6. Len(scratch) \in Nat /\ Len(scratch') = Len(scratch) + 1
        /\ scratch'[Len(scratch) + 1] = ByteOf(as_int(positionals[loop.k + 1]), loop.l)
        /\ \A i \in 1 .. Len(scratch) : scratch'[i] = scratch[i]
    BY <1>1, <1>2
  <1>7. Expanding'
    <2>1. Len(scratch') = (d * w + loop.l) + 1
      BY <1>3, <1>6
    <2>2. /\ loop.l + 1 < w => (loop.j * n + loop.k - 1) * w + (loop.l + 1)
                                  = ((loop.j * n + loop.k - 1) * w + loop.l) + 1
          /\ loop.l + 1 = w => (loop.j * n + (loop.k + 1) - 1) * w + 0
                                  = ((loop.j * n + loop.k - 1) * w + loop.l) + 1
          /\ loop.l + 1 = w /\ loop.k = n =>
                ((loop.j + 1) * n + 1 - 1) * w + 0
                  = ((loop.j * n + loop.k - 1) * w + loop.l) + 1
      BY <1>2, NextPosition
    <2>3. Len(scratch') = ((loop.j * n + loop.k - 1) * w + loop.l) + 1
      BY <1>5, <2>1
    <2>4. Len(positionals) = n + 1
      BY <1>2 DEF n, Values, TakenInv
    <2>5. /\ loop'.j <= Repeat /\ (loop'.j = Repeat => loop'.k = 1 /\ loop'.l = 0)
          /\ Len(scratch') = (loop'.j * n + loop'.k - 1) * w + loop'.l
      <3>1. CASE loop.l + 1 < Width
        <4>1. loop' = [loop EXCEPT !.l = @ + 1]
          BY <1>1, <3>1 DEF NextByte
        <4>2. loop'.j = loop.j /\ loop'.k = loop.k /\ loop'.l = loop.l + 1
          BY <1>2, <4>1
        <4> QED
          BY <1>1, <1>2, <2>2, <2>3, <3>1, <4>2 DEF w
      <3>2. CASE ~ (loop.l + 1 < Width) /\ loop.k + 1 < Len(positionals)
        <4>1. loop' = [loop EXCEPT !.k = @ + 1, !.l = 0]
          BY <1>1, <3>2 DEF NextByte
        <4>2. loop'.j = loop.j /\ loop'.k = loop.k + 1 /\ loop'.l = 0
          BY <1>2, <4>1
        <4>3. loop.l + 1 = w
          BY <1>2, <3>2 DEF w
        <4>4. Len(scratch') = (loop.j * n + (loop.k + 1) - 1) * w + 0
          BY <2>2, <2>3, <4>3, Zenon
        <4> QED
          BY <1>1, <1>2, <4>2, <4>4
      <3>3. CASE ~ (loop.l + 1 < Width) /\ ~ (loop.k + 1 < Len(positionals))
        <4>1. loop' = [j |-> loop.j + 1, k |-> 1, l |-> 0]
          BY <1>1, <3>3 DEF NextByte, LoopStart
        <4>2. loop'.j = loop.j + 1 /\ loop'.k = 1 /\ loop'.l = 0
          BY <4>1
        <4>3. loop.l + 1 = w /\ loop.k = n
          BY <1>2, <2>4, <3>3 DEF w
        <4>4. Len(scratch') = ((loop.j + 1) * n + 1 - 1) * w + 0
          BY <2>2, <2>3, <4>3, Zenon
        <4> QED
          BY <1>1, <1>2, <4>2, <4>4
      <3> QED
        BY <3>1, <3>2, <3>3
    <2> QED
      BY <1>4, <2>5 DEF Expanding, Passed
  <1>8. ASSUME NEW f \in Nat, NEW i \in 0 .. w - 1, f * w + i < Len(scratch')
        PROVE  scratch'[f * w + i + 1] = ByteOf(as_int(positionals[2 + (f % n)]), i)
    <2>1. PICK p \in Nat : p = f * w + i
      <3>1. f * w \in Nat
        BY <1>2, SMT
      <3>2. f * w + i \in Nat
        BY <1>2, <3>1
      <3> QED
        BY <3>2
    <2>2. CASE p < Len(scratch)
      <3>1. scratch[f * w + i + 1] = ByteOf(as_int(positionals[2 + (f % n)]), i)
        BY <1>3, <2>1, <2>2 DEF Spread, n, w
      <3>2. p + 1 \in 1 .. Len(scratch)
        BY <1>6, <2>2
      <3> QED
        BY <1>6, <2>1, <3>1, <3>2
    <2>3. CASE p = Len(scratch)
      <3>1. f * w + i = d * w + loop.l
        BY <1>3, <2>1, <2>3
      <3>2. f = d /\ i = loop.l
        <4>1. \A e \in Nat : \A l \in 0 .. w - 1 : f * w + i = e * w + l => f = e /\ i = l
          BY <1>2, OnePlace
        <4> QED
          BY <1>2, <1>5, <3>1, <4>1, Zenon
      <3>3. 2 + (f % n) = loop.k + 1
        BY <1>2, <1>5, <3>2
      <3> QED
        BY <1>6, <2>1, <2>3, <3>2, <3>3
    <2> QED
      BY <1>6, <1>8, <2>1, <2>2, <2>3
  <1>9. Spread'
    BY <1>1, <1>4, <1>8 DEF Spread, w
  <1>10. request'.kind \notin {"write", "flash"}
    BY <1>1 DEF DataInv
  <1> QED
    BY <1>1, <1>2, <1>4, <1>7, <1>9, <1>10 DEF DataInv

LEMMA WriteRepeat ==
    ASSUME MatchInv, TakenInv, cmd.type = "leaf", cmd.payload \in Writes
    PROVE  Repeat \in Int
  <1>1. cmd.options = write_opts
    BY LeafCmd DEF IsLeaf
  <1>2. Len(cmd.options) = 2
    BY <1>1 DEF write_opts
  <1>3. SlotOK(options[1], cmd.options[1].type)
    BY <1>2 DEF TakenInv
  <1>4. options[1].present => as_int(options[1].value) \in Int
    BY <1>3, IntInRange DEF SlotOK
  <1> QED
    BY <1>4 DEF Repeat, OptionInt

LEMMA StartData ==
    ASSUME HandlersInv, phase = "run", cmd.type = "leaf", cmd.payload \in Writes,
           Repeat >= 1, Width \in 1 .. MaxWidth, GoOn("expand"), UNCHANGED work
    PROVE  DataInv'
  <1>1. NoWork
    BY DEF HandlersInv, WorkInv, Working
  <1>2. /\ phase' = "expand" /\ UNCHANGED <<positionals, options>>
        /\ scratch' = <<>> /\ loop' = LoopStart /\ request' = NoRequest
    BY <1>1 DEF GoOn, work, values, NoWork
  <1>3. Repeat' = Repeat /\ Width' = Width /\ Values' = Values
    BY <1>2, SameArguments DEF Values
  <1>4. Repeat \in Nat /\ Width \in Nat
    <2>1. Repeat \in Int
      BY WriteRepeat DEF HandlersInv
    <2> QED
      BY <2>1, Space
  <1>5. Values \in Int
    BY DEF HandlersInv, TakenInv, Values
  <1>6. 0 * Values + 1 - 1 = 0 /\ 0 * Width + 0 = 0
    BY <1>4, <1>5, SMT
  <1>7. Len(scratch') = 0 /\ loop'.j = 0 /\ loop'.k = 1 /\ loop'.l = 0
    BY <1>2 DEF LoopStart
  <1>8. Passed' = 0
    BY <1>3, <1>6, <1>7 DEF Passed
  <1>9. Expanding'
    BY <1>3, <1>4, <1>6, <1>7, <1>8 DEF Expanding
  <1>10. Spread'
    <2>1. \A f \in Nat : \A i \in 0 .. Width - 1 : ~ (f * Width + i < 0)
      <3> TAKE f \in Nat
      <3> TAKE i \in 0 .. Width - 1
      <3>1. f * Width \in Nat
        BY <1>4, SMT
      <3> QED
        BY <1>4, <3>1
    <2> QED
      BY <1>3, <1>7, <2>1 DEF Spread
  <1> QED
    BY <1>2, <1>3, <1>4, <1>9, <1>10 DEF DataInv, NoRequest

LEMMA ExpandedData ==
    ASSUME HandlersInv, DataInv, WriteExpanded
    PROVE  DataInv'
  <1>1. /\ phase = "expand" /\ phase' = "op" /\ loop.j = Repeat
        /\ UNCHANGED <<cmd, positionals, options, scratch, loop, request>>
        /\ op' = [address |-> Address, len |-> Len(scratch)]
    BY DEF WriteExpanded, GoOn, values
  <1>2. Expanding /\ Spread /\ Repeat \in Nat
    BY <1>1 DEF DataInv
  <1>3. /\ cmd.payload \in Writes /\ cmd.payload \notin Loads /\ Width \in 1 .. MaxWidth
        /\ loop.k \in 1 .. Values /\ Values \in Int
    <2>1. cmd.payload \in Writes
      BY <1>1 DEF HandlersInv, MatchInv
    <2>2. Width \in 1 .. MaxWidth /\ loop.k \in 1 .. Values
      BY <1>1 DEF HandlersInv, WorkInv, ExpandInv, Values
    <2>3. Values \in Int
      BY DEF HandlersInv, TakenInv, Values
    <2> QED
      BY <2>1, <2>2, <2>3 DEF Writes, Loads
  <1>4. Values >= 1
    BY <1>3
  <1>5. Address' = Address /\ Repeat' = Repeat /\ Width' = Width /\ Values' = Values
        /\ Fields' = Fields
    BY <1>1, SameArguments DEF Values, Fields
  <1>6. Len(scratch) = Fields * Width
    <2>1. loop.k = 1 /\ loop.l = 0 /\ Len(scratch) = Passed * Width + loop.l
      BY <1>1, <1>2 DEF Expanding
    <2>2. Repeat * Values \in Int /\ Fields = Repeat * Values
      BY <1>2, <1>3, SMT DEF Fields, Values
    <2>3. Passed = Repeat * Values + 1 - 1
      BY <1>1, <2>1 DEF Passed
    <2>4. Passed = Fields /\ Fields \in Int
      BY <2>2, <2>3
    <2>5. Fields * Width \in Int
      BY <1>3, <2>4, Space, SMT
    <2> QED
      BY <2>1, <2>4, <2>5
  <1>7. Expanded' /\ Widths' /\ Spread'
    BY <1>1, <1>2, <1>3, <1>4, <1>5, <1>6 DEF Expanded, Widths, Spread
  <1>8. request' = NoRequest
    BY <1>1 DEF HandlersInv, ErrorInv
  <1> QED
    BY <1>1, <1>3, <1>7, <1>8 DEF DataInv, NoRequest

LEMMA LoadedData ==
    ASSUME HandlersInv, LoadBin
    PROVE  DataInv'
  <1>1. /\ phase = "load" /\ phase' \in {"erase", "op"}
        /\ UNCHANGED <<cmd, positionals, options, request>>
        /\ op' = [address |-> Relocation, len |-> Len(Files[Path])]
        /\ \E n \in 0 .. Len(Files[Path]) : scratch' = SubSeq(Files[Path], 1, n)
    BY DEF LoadBin, GoOn, values
  <1>2. cmd.payload \in Loads /\ cmd.payload \notin Writes
    BY <1>1 DEF HandlersInv, MatchInv, Writes, Loads
  <1>3. Relocation' = Relocation /\ Path' = Path
    BY <1>1, SameArguments
  <1>4. request' = NoRequest /\ Path \in DOMAIN Files
    BY <1>1 DEF HandlersInv, ErrorInv, WorkInv
  <1>5. Loaded'
    BY <1>1, <1>3, <1>4 DEF Loaded
  <1> QED
    BY <1>1, <1>2, <1>4, <1>5 DEF DataInv, NoRequest

LEMMA EmptyHanded ==
    phase' \notin {"expand", "erase", "op", "target"} /\ request' = NoRequest => DataInv'
  BY DEF DataInv, NoRequest

LEMMA ReturnData == \A c : Return(c) => DataInv'
  BY EmptyHanded DEF Return, DropWork

LEMMA AskData ==
    ASSUME NEW kind, NEW address, NEW len, AskTarget(kind, address, len),
           kind \notin {"write", "flash"}, cmd.payload \notin Writes \cup Loads
    PROVE  DataInv'
  <1>1. phase' = "target" /\ cmd' = cmd /\ request'.kind = kind
    BY DEF AskTarget, GoOn, Request
  <1> QED
    BY <1>1 DEF DataInv

LEMMA HandleData ==
    ASSUME HandlersInv, DataInv, Handle
    PROVE  DataInv'
  <1>0. phase # "target" => request = NoRequest
    BY DEF HandlersInv, ErrorInv
  <1>1. CASE RunDirectory
    BY <1>1, ReturnData DEF RunDirectory, ReturnOnly
  <1>2. CASE Status
    BY <1>2, ReturnData DEF Status, ReturnOnly
  <1>3. CASE Help
    BY <1>3, ReturnData DEF Help, ReturnOnly
  <1>4. CASE Quit
    BY <1>0, <1>4, EmptyHanded DEF Quit, Running, work
  <1>5. CASE Open
    BY <1>5, ReturnData DEF Open, ReturnOnly
  <1>6. CASE Close
    BY <1>6, ReturnData DEF Close
  <1>7. CASE WriteStart
    <2>1. CASE ReturnOnly(TRUE)
      BY <2>1, ReturnData DEF ReturnOnly
    <2>2. CASE ~ ReturnOnly(TRUE)
      <3>1. Repeat >= 1 /\ Width \in 1 .. MaxWidth /\ GoOn("expand") /\ UNCHANGED work
        BY <1>7, <2>2 DEF WriteStart
      <3>2. phase = "run" /\ cmd.type = "leaf" /\ cmd.payload \in Writes
        BY <1>7 DEF WriteStart, Running, Writes
      <3> QED
        BY <3>1, <3>2, StartData
    <2> QED
      BY <2>1, <2>2
  <1>8. CASE WriteByte
    <2>1. CASE ByteFits
      BY <1>8, <2>1, WriteByteData DEF HandlersInv
    <2>2. CASE ~ ByteFits
      BY <1>8, <2>2, ReturnData DEF WriteByte, ReturnOnly
    <2> QED
      BY <2>1, <2>2
  <1>9. CASE WriteExpanded
    BY <1>9, ExpandedData
  <1>10. CASE LoadStart
    <2>1. CASE ReturnOnly(TRUE)
      BY <2>1, ReturnData DEF ReturnOnly
    <2>2. CASE ~ ReturnOnly(TRUE)
      BY <1>0, <1>10, <2>2, EmptyHanded DEF LoadStart, Running, GoOn, work
    <2> QED
      BY <2>1, <2>2
  <1>11. CASE LoadFails
    BY <1>11, ReturnData DEF LoadFails
  <1>12. CASE LoadBin
    BY <1>12, LoadedData
  <1>13. CASE EraseAll
    <2>1. /\ phase = "erase" /\ phase' \in {"op", "free"}
          /\ UNCHANGED <<cmd, positionals, options, op, scratch, loop, request>>
      BY <1>13 DEF EraseAll, GoOn, values
    <2>2. cmd.payload \in Loads /\ cmd.payload \notin Writes
      BY <2>1 DEF HandlersInv, MatchInv, Loads, Writes
    <2>3. Loaded'
      <3>1. Loaded
        BY <2>1, <2>2 DEF DataInv
      <3> QED
        BY <2>1, <3>1, SameArguments DEF Loaded
    <2>4. request' = NoRequest
      BY <1>0, <2>1
    <2> QED
      BY <2>1, <2>2, <2>3, <2>4 DEF DataInv, NoRequest
  <1>14. CASE WriteOp
    <2>1. CASE ReturnOnly(TRUE)
      BY <2>1, ReturnData DEF ReturnOnly
    <2>2. CASE phase' = "free" /\ UNCHANGED work
      BY <1>0, <1>14, <2>2, EmptyHanded DEF WriteOp, work
    <2>3. CASE /\ GoOn("target") /\ UNCHANGED <<op, scratch, loop>>
               /\ request' = Request(IF ToMemory THEN "write" ELSE "flash", op.address, op.len)
      <3>1. /\ phase = "op" /\ phase' = "target"
            /\ UNCHANGED <<cmd, positionals, options, op, scratch, loop>>
        BY <1>14, <2>3 DEF WriteOp, GoOn, values
      <3>2. cmd.payload \in Writes \cup Loads
        BY <3>1 DEF HandlersInv, MatchInv
      <3>3. /\ Address' = Address /\ Repeat' = Repeat /\ Width' = Width
            /\ Relocation' = Relocation /\ Path' = Path
        BY <3>1, SameArguments
      <3>4. Values' = Values /\ Fields' = Fields
        BY <3>1, <3>3 DEF Values, Fields
      <3>5. cmd.payload \in Writes => Expanded' /\ Widths' /\ Spread'
        BY <3>1, <3>3, <3>4 DEF DataInv, Expanded, Widths, Spread
      <3>6. cmd.payload \in Loads => Loaded'
        BY <3>1, <3>3 DEF DataInv, Loaded
      <3>7. request'.address = op'.address /\ request'.len = op'.len
        BY <2>3 DEF Request
      <3> QED
        BY <3>1, <3>2, <3>5, <3>6, <3>7 DEF DataInv
    <2>4. \/ ReturnOnly(TRUE)
          \/ phase' = "free" /\ UNCHANGED work
          \/ /\ GoOn("target") /\ UNCHANGED <<op, scratch, loop>>
             /\ request' = Request(IF ToMemory THEN "write" ELSE "flash", op.address, op.len)
      BY <1>14 DEF WriteOp, GoOn
    <2> QED
      BY <2>1, <2>2, <2>3, <2>4
  <1>15. CASE Read
    <2>1. CASE ReturnOnly(TRUE)
      BY <2>1, ReturnData DEF ReturnOnly
    <2>2. CASE AskTarget("read", Address, Amount)
      BY <1>15, <2>2, AskData DEF Read, Running, Writes, Loads
    <2> QED
      BY <1>15, <2>1, <2>2 DEF Read
  <1>16. CASE EraseSector
    <2>1. CASE ReturnOnly(TRUE)
      BY <2>1, ReturnData DEF ReturnOnly
    <2>2. CASE AskTarget("erase", Address, 0)
      BY <1>16, <2>2, AskData DEF EraseSector, Running, Writes, Loads
    <2> QED
      BY <1>16, <2>1, <2>2 DEF EraseSector
  <1>17. CASE Ask
    BY <1>17, AskData DEF Ask, Running, Writes, Loads
  <1>18. CASE TargetReturns
    <2>1. PICK succeeds \in IF Succeeds THEN BOOLEAN ELSE {FALSE} :
              IF AfterOp = "free"
              THEN request' = NoRequest /\ GoOn("free")
              ELSE ReturnOnly(~succeeds)
      BY <1>18 DEF TargetReturns
    <2> QED
      BY <2>1, ReturnData, EmptyHanded DEF ReturnOnly, GoOn
  <1>19. CASE FreeOps
    BY <1>19, ReturnData DEF FreeOps
  <1> QED
    BY <1>1, <1>2, <1>3, <1>4, <1>5, <1>6, <1>7, <1>8, <1>9, <1>10, <1>11, <1>12, <1>13,
       <1>14, <1>15, <1>16, <1>17, <1>18, <1>19 DEF Handle

LEMMA DataStep == HandlersInv /\ DataInv /\ [Next]_vars => DataInv'
  <1> SUFFICES ASSUME HandlersInv, DataInv, [Next]_vars PROVE DataInv'
    OBVIOUS
  <1>0. phase # "target" => request = NoRequest
    BY DEF HandlersInv, ErrorInv
  <1>1. CASE UNCHANGED vars
    BY <1>1, SameData DEF vars, parserVars, result, values, work, DataVars
  <1>2. CASE ReadLine
    BY <1>0, <1>2, EmptyHanded DEF ReadLine, StartLine, work
  <1>3. CASE End
    BY <1>0, <1>3, EmptyHanded DEF End, work
  <1>4. CASE Handle
    BY <1>4, HandleData
  <1>5. CASE Parse /\ UNCHANGED <<session, work>>
    <2>1. phase # "target" /\ phase' \notin {"expand", "erase", "op", "target"}
      BY <1>5, ParseFrame DEF Working
    <2> QED
      BY <1>0, <1>5, <2>1, EmptyHanded DEF work
  <1> QED
    BY <1>1, <1>2, <1>3, <1>4, <1>5 DEF Next, debugger_do_line
-----------------------------------------------------------------------------
(***************************************************************************)
(* What is read of a line.                                                 *)
(***************************************************************************)

\* What the words before a are taken for: values, and values of the k-th option.
PlacesBefore(a) == {i \in first .. a - 1 : ~IsArgument[i] /\ ~IsFlag(line[i])}
ValueAt(i) == IF IsLong(line[i]) \/ Len(line[i]) = 2 THEN line[i + 1] ELSE From(line[i], 3)
Gives(i, k) == /\ ~IsArgument[i] /\ IsFlag(line[i]) /\ Names(i, k)
               /\ i = Len(line) => ~LongTakes(line[i])
OptionsBefore(a, k) == {ValueAt(i) : i \in {j \in first .. a - 1 : Gives(j, k)}}

PositionalsRead(a) ==
    positionals = [n \in 1 .. Cardinality(PlacesBefore(a)) |-> line[NthOf(PlacesBefore(a), n)]]
OptionsRead(a) ==
    \A k \in DOMAIN options :
        OptionsBefore(a, k) = IF options[k].present THEN {options[k].value} ELSE {}

\* The words before the one the parser is at are read, and it is not itself an
\* argument.
ReadInv ==
    phase \in {"leaf", "short", "run"} /\ cmd.type = "leaf" =>
        /\ first \in 1 .. at
        /\ at <= Len(line) => ~IsArgument[at]
        /\ PositionalsRead(at) /\ OptionsRead(at)
        /\ phase = "run" => AtEnd
        /\ phase = "short" => off = 2 /\ IsFlag(Word) /\ ~IsLong(Word)

\* IsArgument, of the words s of a line and the first after the command's name.
ArgumentsOf(s, start) ==
    LET isArg[i \in 1 .. Len(s)] ==
            IF i <= start THEN FALSE
            ELSE ~isArg[i - 1] /\ (LongTakes(s[i - 1]) \/ ShortTakes(s[i - 1]))
    IN isArg

LEMMA ArgumentRounds ==
    ASSUME NEW s, NEW start \in Nat \ {0}, Len(s) \in Nat
    PROVE  \A i \in 1 .. Len(s) :
              ArgumentsOf(s, start)[i] =
                  IF i <= start THEN FALSE
                  ELSE ~ArgumentsOf(s, start)[i - 1]
                       /\ (LongTakes(s[i - 1]) \/ ShortTakes(s[i - 1]))
  <1> DEFINE n == Len(s)
             takes(i) == LongTakes(s[i]) \/ ShortTakes(s[i])
             g == [i \in 1 .. n |-> [b \in BOOLEAN |-> IF i <= start THEN FALSE
                                                       ELSE ~b /\ takes(i - 1)]]
             isArg[i \in 1 .. n] == IF i <= start THEN FALSE ELSE ~isArg[i - 1] /\ takes(i - 1)
             no == FALSE
  <1>1. ArgumentsOf(s, start) = isArg
    BY DEF ArgumentsOf
  <1> HIDE DEF takes
  <1>2. g \in [1 .. n -> [BOOLEAN -> BOOLEAN]]
        /\ \A i \in 1 .. n : \A b \in BOOLEAN :
              g[i][b] = IF i <= start THEN FALSE ELSE ~b /\ takes(i - 1)
    BY Zenon
  <1>3. no \in BOOLEAN /\ n \in Nat
    OBVIOUS
  <1> HIDE DEF g, isArg, no, n
  <1>4. PICK f \in [0 .. n -> BOOLEAN] : f[0] = no /\ \A i \in 1 .. n : f[i] = g[i][f[i - 1]]
    <2>1. \E f : RunsTo(f, n, BOOLEAN, no, g)
      BY <1>2, <1>3, RoundsTo
    <2> QED
      BY <2>1 DEF RunsTo
  <1> DEFINE h == [i \in 1 .. n |-> f[i]]
  <1>5. ASSUME NEW i \in 1 .. n
        PROVE  h[i] = IF i <= start THEN FALSE ELSE ~h[i - 1] /\ takes(i - 1)
    <2>1. i - 1 \in 0 .. n /\ (~(i <= start) => i - 1 \in 1 .. n)
      BY <1>3
    <2>2. f[i - 1] \in BOOLEAN /\ f[i] = g[i][f[i - 1]]
      BY <1>4, <2>1
    <2>3. f[i] = IF i <= start THEN FALSE ELSE ~f[i - 1] /\ takes(i - 1)
      BY <1>2, <2>2, Zenon
    <2>4. h[i] = f[i]
      OBVIOUS
    <2>5. ~(i <= start) => h[i - 1] = f[i - 1]
      BY <2>1
    <2> HIDE DEF h
    <2> QED
      BY <2>3, <2>4, <2>5, Zenon
  <1>6. h = [i \in 1 .. n |-> h[i]]
    OBVIOUS
  <1> HIDE DEF h
  <1>7. h = [i \in 1 .. n |-> IF i <= start THEN FALSE ELSE ~h[i - 1] /\ takes(i - 1)]
    BY <1>5, <1>6
  <1>8. isArg = [i \in 1 .. n |-> IF i <= start THEN FALSE ELSE ~isArg[i - 1] /\ takes(i - 1)]
    BY <1>7, Zenon DEF isArg
  <1>9. \A i \in 1 .. n :
            isArg[i] = IF i <= start THEN FALSE ELSE ~isArg[i - 1] /\ takes(i - 1)
    BY <1>8
  <1> QED
    BY <1>1, <1>9, Zenon DEF takes, n

LEMMA ArgumentsBegin ==
    ASSUME NEW s, NEW start \in Nat \ {0}, Len(s) \in Nat, NEW i \in 1 .. Len(s), i <= start
    PROVE  ~ArgumentsOf(s, start)[i]
  <1>1. \A j \in 1 .. Len(s) :
            ArgumentsOf(s, start)[j] =
                IF j <= start THEN FALSE
                ELSE ~ArgumentsOf(s, start)[j - 1]
                     /\ (LongTakes(s[j - 1]) \/ ShortTakes(s[j - 1]))
    BY ArgumentRounds, Zenon
  <1>2. ArgumentsOf(s, start)[i] = FALSE
    BY <1>1, Zenon
  <1> QED
    BY <1>2

LEMMA ArgumentNext ==
    ASSUME first \in Nat \ {0}, Len(line) \in Nat, NEW i \in 1 .. Len(line),
           first <= i, i + 1 <= Len(line)
    PROVE  IsArgument[i + 1] <=>
              ~IsArgument[i] /\ (LongTakes(line[i]) \/ ShortTakes(line[i]))
  <1> DEFINE takes(j) == LongTakes(line[j]) \/ ShortTakes(line[j])
  <1>1. \A j \in 1 .. Len(line) :
            IsArgument[j] = IF j <= first THEN FALSE ELSE ~IsArgument[j - 1] /\ takes(j - 1)
    <2>1. IsArgument = ArgumentsOf(line, first)
      BY DEF IsArgument, ArgumentsOf
    <2>2. \A j \in 1 .. Len(line) :
              ArgumentsOf(line, first)[j] =
                  IF j <= first THEN FALSE
                  ELSE ~ArgumentsOf(line, first)[j - 1]
                       /\ (LongTakes(line[j - 1]) \/ ShortTakes(line[j - 1]))
      BY ArgumentRounds, Zenon
    <2> QED
      BY <2>1, <2>2, Zenon
  <1> HIDE DEF takes
  <1>2. i + 1 \in 1 .. Len(line) /\ ~(i + 1 <= first) /\ (i + 1) - 1 = i
    OBVIOUS
  <1>3. IsArgument[i + 1] <=> ~IsArgument[i] /\ takes(i)
    BY <1>1, <1>2
  <1> QED
    BY <1>3 DEF takes

LEMMA PlacesNext ==
    ASSUME NEW a \in Nat, first \in 1 .. a
    PROVE  /\ ~IsArgument[a] /\ ~IsFlag(line[a]) =>
                 PlacesBefore(a + 1) = PlacesBefore(a) \cup {a}
           /\ IsArgument[a] \/ IsFlag(line[a]) => PlacesBefore(a + 1) = PlacesBefore(a)
  <1>1. \A i : i \in first .. (a + 1) - 1 <=> i \in first .. a - 1 \/ i = a
    OBVIOUS
  <1> QED
    BY <1>1 DEF PlacesBefore

LEMMA OptionsNext ==
    ASSUME NEW a \in Nat, first \in 1 .. a, NEW k
    PROVE  /\ Gives(a, k) => OptionsBefore(a + 1, k) = OptionsBefore(a, k) \cup {ValueAt(a)}
           /\ ~Gives(a, k) => OptionsBefore(a + 1, k) = OptionsBefore(a, k)
  <1>1. \A i : i \in first .. (a + 1) - 1 <=> i \in first .. a - 1 \/ i = a
    OBVIOUS
  <1> QED
    BY <1>1 DEF OptionsBefore

\* The places of the values are counted from the first.
LEMMA NthKept ==
    ASSUME NEW s \in SUBSET Nat, IsFiniteSet(s), NEW a \in Nat, \A i \in s : i < a,
           NEW n \in 1 .. Cardinality(s)
    PROVE  NthOf(s \cup {a}, n) = NthOf(s, n)
  <1> DEFINE t == s \cup {a}
             inS(i) == Cardinality({j \in s : j <= i})
             inT(i) == Cardinality({j \in t : j <= i})
  <1>1. ASSUME NEW i \in s
        PROVE  inT(i) = inS(i)
    <2>1. {j \in t : j <= i} = {j \in s : j <= i}
      OBVIOUS
    <2> QED
      BY <2>1
  <1>2. inT(a) = Cardinality(s) + 1 /\ Cardinality(s) \in Nat /\ a \notin s
    <2>1. {j \in t : j <= a} = t
      <3>1. \A j \in t : j <= a
        OBVIOUS
      <3> QED
        BY <3>1, Zenon
    <2>2. a \notin s
      OBVIOUS
    <2> QED
      BY <2>1, <2>2, FS_AddElement, FS_CardinalityType
  <1>3. inT(a) # n
    BY <1>2
  <1> HIDE DEF inS, inT
  <1>4. \A i : i \in t /\ inT(i) = n <=> i \in s /\ inS(i) = n
    BY <1>1, <1>2, <1>3
  <1> QED
    BY <1>4, Zenon DEF NthOf, inS, inT

LEMMA NthNew ==
    ASSUME NEW s \in SUBSET Nat, IsFiniteSet(s), NEW a \in Nat, \A i \in s : i < a
    PROVE  NthOf(s \cup {a}, Cardinality(s) + 1) = a
  <1> DEFINE t == s \cup {a}
             inT(i) == Cardinality({j \in t : j <= i})
             n == Cardinality(s)
  <1>1. ASSUME NEW i \in s
        PROVE  inT(i) <= n /\ inT(i) \in Nat
    <2>1. {j \in t : j <= i} \in SUBSET s
      OBVIOUS
    <2> QED
      BY <2>1, FS_Subset, FS_CardinalityType
  <1>2. inT(a) = n + 1 /\ n \in Nat
    <2>1. {j \in t : j <= a} = t /\ a \notin s
      <3>1. (\A j \in t : j <= a) /\ a \notin s
        OBVIOUS
      <3> QED
        BY <3>1, Zenon
    <2> QED
      BY <2>1, FS_AddElement, FS_CardinalityType
  <1> HIDE DEF inT, n
  <1>3. \A i : i \in t /\ inT(i) = n + 1 <=> i = a
    <2>1. \A i \in s : inT(i) # n + 1
      BY <1>1, <1>2
    <2>2. \A i : i \in t <=> i \in s \/ i = a
      OBVIOUS
    <2> QED
      BY <1>2, <2>1, <2>2, Zenon
  <1>4. (CHOOSE i \in t : inT(i) = n + 1) = a
    BY <1>3, Zenon
  <1> QED
    BY <1>4, Zenon DEF NthOf, inT, n

LEMMA PlacesFinite ==
    ASSUME NEW a \in Nat, first \in 1 .. a
    PROVE  /\ PlacesBefore(a) \in SUBSET Nat /\ \A i \in PlacesBefore(a) : i < a
           /\ IsFiniteSet(PlacesBefore(a)) /\ Cardinality(PlacesBefore(a)) \in Nat
  <1>1. PlacesBefore(a) \in SUBSET (first .. a - 1)
    BY DEF PlacesBefore
  <1>2. IsFiniteSet(first .. a - 1)
    BY FS_Interval
  <1>3. IsFiniteSet(PlacesBefore(a))
    BY <1>1, <1>2, FS_Subset
  <1> QED
    BY <1>1, <1>3, FS_CardinalityType

LEMMA ReadFrame ==
    ASSUME UNCHANGED <<line, first, cmd>>
    PROVE  /\ IsArgument' = IsArgument
           /\ PositionalsRead(at)' <=>
                 positionals' = [n \in 1 .. Cardinality(PlacesBefore(at')) |->
                                    line[NthOf(PlacesBefore(at'), n)]]
           /\ OptionsRead(at)' <=>
                 \A k \in DOMAIN options' :
                    OptionsBefore(at', k)
                       = IF options'[k].present THEN {options'[k].value} ELSE {}
  <1>1. IsArgument' = IsArgument
    BY DEF IsArgument
  <1>2. PlacesBefore(at)' = PlacesBefore(at')
    BY <1>1 DEF PlacesBefore
  <1>3. \A i, k : Gives(i, k)' <=> Gives(i, k)
    BY <1>1 DEF Gives, Names
  <1>4. \A i : ValueAt(i)' = ValueAt(i)
    BY DEF ValueAt
  <1>5. \A k : OptionsBefore(at, k)' = OptionsBefore(at', k)
    BY <1>3, <1>4 DEF OptionsBefore
  <1>6. PositionalsRead(at)' <=>
           positionals' = [n \in 1 .. Cardinality(PlacesBefore(at')) |->
                              line[NthOf(PlacesBefore(at'), n)]]
    BY <1>2 DEF PositionalsRead
  <1>7. OptionsRead(at)' <=>
           \A k \in DOMAIN options' :
              OptionsBefore(at', k) = IF options'[k].present THEN {options'[k].value} ELSE {}
    BY <1>5 DEF OptionsRead
  <1> QED
    BY <1>1, <1>6, <1>7

\* The parser stands at a word that is not an argument.
AtWord == /\ cmd.type = "leaf" /\ first \in 1 .. at /\ at \in 1 .. Len(line)
          /\ Len(line) \in Nat /\ ~IsArgument[at]
          /\ PositionalsRead(at) /\ OptionsRead(at)

LEMMA TakingAtWord ==
    HandlersInv /\ ReadInv /\ phase \in Taking /\ ~AtEnd =>
        AtWord /\ IsLeaf(cmd) /\ DOMAIN options = 1 .. Len(cmd.options)
  <1> SUFFICES ASSUME HandlersInv, ReadInv, phase \in Taking, ~AtEnd
      PROVE  AtWord /\ IsLeaf(cmd) /\ DOMAIN options = 1 .. Len(cmd.options)
    OBVIOUS
  <1>1. cmd.type = "leaf" /\ MatchInv
    BY DEF HandlersInv, MatchInv
  <1>2. Len(line) \in Nat /\ at \in 1 .. Len(line)
    BY DEF HandlersInv, PlaceInv, AtEnd
  <1>3. /\ first \in 1 .. at /\ ~IsArgument[at]
        /\ PositionalsRead(at) /\ OptionsRead(at)
    BY <1>1, <1>2 DEF ReadInv, Taking
  <1>4. options = [i \in 1 .. Len(cmd.options) |-> options[i]]
    BY <1>1 DEF HandlersInv, TakenInv
  <1>5. DOMAIN options = 1 .. Len(cmd.options)
    BY <1>4
  <1> QED
    BY <1>1, <1>2, <1>3, <1>5, LeafCmd DEF AtWord

\* A word that is an option without a value.
LEMMA FlagSkipped ==
    ASSUME AtWord, IsFlag(Word), \A k : ~Gives(at, k),
           UNCHANGED <<line, first, cmd, positionals, options>>,
           phase' = "leaf", at' = at + 1,
           at < Len(line) => ~(LongTakes(Word) \/ ShortTakes(Word))
    PROVE  ReadInv'
  <1>1. at \in Nat /\ first \in 1 .. at /\ Len(line) \in Nat /\ first \in Nat \ {0}
    BY DEF AtWord
  <1>2. PlacesBefore(at + 1) = PlacesBefore(at)
    BY <1>1, PlacesNext DEF Word
  <1>3. \A k : OptionsBefore(at + 1, k) = OptionsBefore(at, k)
    BY <1>1, OptionsNext
  <1>4. PositionalsRead(at)'
    BY <1>2, ReadFrame DEF AtWord, PositionalsRead
  <1>5. OptionsRead(at)'
    BY <1>3, ReadFrame DEF AtWord, OptionsRead
  <1>6. at + 1 <= Len(line) => ~IsArgument[at + 1]
    BY <1>1, ArgumentNext DEF AtWord, Word
  <1>7. IsArgument' = IsArgument
    BY ReadFrame
  <1> QED
    BY <1>1, <1>4, <1>5, <1>6, <1>7 DEF ReadInv

LEMMA PositionalRead ==
    ASSUME AtWord, ~IsFlag(Word), Positional, positionals \in Seq(STRING), Word \in STRING
    PROVE  ReadInv'
  <1> DEFINE s == PlacesBefore(at)
             c == Cardinality(s)
  <1>1. at \in Nat /\ first \in 1 .. at /\ Len(line) \in Nat /\ first \in Nat \ {0}
    BY DEF AtWord
  <1>2. /\ UNCHANGED <<line, first, cmd, options, phase>> /\ at' = at + 1 /\ phase = "leaf"
        /\ positionals' = Append(positionals, Word)
    BY DEF Positional, AtPositional
  <1>3. PlacesBefore(at + 1) = s \cup {at}
    BY <1>1, PlacesNext DEF AtWord, Word
  <1>4. \A k : OptionsBefore(at + 1, k) = OptionsBefore(at, k)
    BY <1>1, OptionsNext DEF Gives, Word
  <1>5. s \in SUBSET Nat /\ (\A i \in s : i < at) /\ IsFiniteSet(s) /\ c \in Nat
    BY <1>1, PlacesFinite
  <1>6. Cardinality(s \cup {at}) = c + 1
    <2>1. at \notin s
      BY <1>1, <1>5
    <2> QED
      BY <1>5, <2>1, FS_AddElement
  <1>7. \A n \in 1 .. c : NthOf(s \cup {at}, n) = NthOf(s, n)
    BY <1>1, <1>5, NthKept
  <1>8. NthOf(s \cup {at}, c + 1) = at
    BY <1>1, <1>5, NthNew
  <1>9. positionals = [n \in 1 .. c |-> line[NthOf(s, n)]]
    BY DEF AtWord, PositionalsRead
  <1> HIDE DEF s, c
  <1>10. positionals' = [n \in 1 .. c + 1 |-> line[NthOf(s \cup {at}, n)]]
    <2>1. DOMAIN positionals = 1 .. c
      BY <1>9
    <2>2. Len(positionals) = c
      BY <1>5, <2>1
    <2>3. positionals' = [n \in 1 .. c + 1 |-> IF n <= c THEN positionals[n] ELSE Word]
      <3>1. /\ positionals' \in Seq(STRING) /\ Len(positionals') = Len(positionals) + 1
            /\ \A i \in 1 .. Len(positionals) : positionals'[i] = positionals[i]
            /\ positionals'[Len(positionals) + 1] = Word
        BY <1>2
      <3>2. positionals' = [n \in 1 .. c + 1 |-> positionals'[n]]
        BY <2>2, <3>1
      <3>3. ASSUME NEW n \in 1 .. c + 1
            PROVE  positionals'[n] = IF n <= c THEN positionals[n] ELSE Word
        <4>1. CASE n <= c
          <5>1. n \in 1 .. Len(positionals)
            BY <1>5, <2>2, <4>1
          <5> QED
            BY <3>1, <4>1, <5>1
        <4>2. CASE ~ (n <= c)
          <5>1. n = Len(positionals) + 1
            BY <1>5, <2>2, <4>2
          <5> QED
            BY <3>1, <4>2, <5>1
        <4> QED
          BY <4>1, <4>2
      <3> QED
        BY <3>2, <3>3
    <2>4. ASSUME NEW n \in 1 .. c + 1
          PROVE  line[NthOf(s \cup {at}, n)] = IF n <= c THEN positionals[n] ELSE Word
      <3>1. CASE n <= c
        <4>1. n \in 1 .. c
          BY <1>5, <3>1
        <4>2. positionals[n] = line[NthOf(s, n)]
          BY <1>9, <4>1
        <4> QED
          BY <1>7, <3>1, <4>1, <4>2
      <3>2. CASE ~ (n <= c)
        <4>1. n = c + 1
          BY <1>5, <3>2
        <4> QED
          BY <1>8, <3>2, <4>1 DEF Word
      <3> QED
        BY <3>1, <3>2
    <2> QED
      BY <2>3, <2>4
  <1>11. PositionalsRead(at)'
    BY <1>2, <1>3, <1>6, <1>10, ReadFrame DEF c
  <1>12. OptionsRead(at)'
    BY <1>2, <1>4, ReadFrame DEF AtWord, OptionsRead
  <1>13. at + 1 <= Len(line) => ~IsArgument[at + 1]
    <2>1. ~LongTakes(Word) /\ ~ShortTakes(Word)
      BY DEF LongTakes, ShortTakes, IsLong
    <2> QED
      BY <1>1, <2>1, ArgumentNext DEF AtWord, Word
  <1>14. IsArgument' = IsArgument
    BY <1>2, ReadFrame
  <1> QED
    BY <1>1, <1>2, <1>11, <1>12, <1>13, <1>14 DEF ReadInv

\* An option with its value, in its own word or in the next one.
LEMMA OptionRead ==
    ASSUME AtWord, IsFlag(Word), NEW k \in DOMAIN options, ~options[k].present,
           \A m : Names(at, m) <=> m = k,
           at = Len(line) => ~LongTakes(Word),
           NEW b \in {at + 1, at + 2}, TakeOption(k, ValueAt(at), b),
           b = at + 1 => ~(LongTakes(Word) \/ ShortTakes(Word)),
           b = at + 2 => at < Len(line) /\ (LongTakes(Word) \/ ShortTakes(Word))
    PROVE  ReadInv'
  <1> DEFINE v == ValueAt(at)
  <1>1. at \in Nat /\ first \in 1 .. at /\ Len(line) \in Nat /\ first \in Nat \ {0}
        /\ at \in 1 .. Len(line) /\ ~IsArgument[at]
    BY DEF AtWord
  <1>2. /\ UNCHANGED <<line, first, cmd, positionals>> /\ at' = b /\ phase' = "leaf"
        /\ options' = [options EXCEPT ![k] = Given(v)]
    BY DEF TakeOption
  <1> HIDE DEF v
  <1>3. \A m : Gives(at, m) <=> m = k
    BY <1>1 DEF Gives, Word
  <1>4. PlacesBefore(at + 1) = PlacesBefore(at)
    BY <1>1, PlacesNext DEF Word
  <1>5. /\ OptionsBefore(at + 1, k) = OptionsBefore(at, k) \cup {v}
        /\ \A m : m # k => OptionsBefore(at + 1, m) = OptionsBefore(at, m)
    BY <1>1, <1>3, OptionsNext DEF v
  <1>6. /\ PlacesBefore(b) = PlacesBefore(at + 1)
        /\ \A m : OptionsBefore(b, m) = OptionsBefore(at + 1, m)
        /\ b <= Len(line) => ~IsArgument[b]
    <2>1. CASE b = at + 1
      BY <1>1, <2>1, ArgumentNext DEF Word
    <2>2. CASE b = at + 2
      <3>1. at + 1 \in 1 .. Len(line) /\ at + 1 \in Nat /\ first \in 1 .. at + 1
            /\ b = (at + 1) + 1
        BY <1>1, <2>2
      <3>2. IsArgument[at + 1]
        BY <1>1, <2>2, <3>1, ArgumentNext DEF Word
      <3>3. \A m : ~Gives(at + 1, m)
        BY <3>2 DEF Gives
      <3>4. b <= Len(line) => ~IsArgument[b]
        BY <1>1, <3>1, <3>2, ArgumentNext
      <3>5. PlacesBefore((at + 1) + 1) = PlacesBefore(at + 1)
        BY <3>1, <3>2, PlacesNext
      <3>6. \A m : OptionsBefore((at + 1) + 1, m) = OptionsBefore(at + 1, m)
        BY <3>1, <3>3, OptionsNext
      <3> QED
        BY <3>1, <3>4, <3>5, <3>6
    <2> QED
      BY <2>1, <2>2
  <1>7. PositionalsRead(at)'
    BY <1>2, <1>4, <1>6, ReadFrame DEF AtWord, PositionalsRead
  <1>8. OptionsRead(at)'
    <2>1. ASSUME NEW m \in DOMAIN options
          PROVE  OptionsBefore(b, m) = IF options'[m].present THEN {options'[m].value} ELSE {}
      <3>1. OptionsBefore(at, m) = IF options[m].present THEN {options[m].value} ELSE {}
        BY DEF AtWord, OptionsRead
      <3>2. CASE m = k
        <4>1. options'[m] = Given(v)
          BY <1>2, <3>2
        <4>2. options'[m].present = TRUE /\ options'[m].value = v
          BY <4>1 DEF Given
        <4>3. OptionsBefore(b, m) = {v}
          BY <1>5, <1>6, <3>1, <3>2
        <4> QED
          BY <4>2, <4>3
      <3>3. CASE m # k
        <4>1. options'[m] = options[m]
          BY <1>2, <3>3
        <4> QED
          BY <1>5, <1>6, <3>1, <3>3, <4>1
      <3> QED
        BY <3>2, <3>3
    <2>2. DOMAIN options' = DOMAIN options
      BY <1>2
    <2> QED
      BY <1>2, <2>1, <2>2, ReadFrame
  <1>9. IsArgument' = IsArgument
    BY <1>2, ReadFrame
  <1> QED
    BY <1>1, <1>2, <1>6, <1>7, <1>8, <1>9 DEF ReadInv

\* The handlers, and what is not taking values, come to no such state; a leaf
\* begins at the word after its name.
LEMMA BeginRead ==
    ASSUME HandlersInv, CommandWord
    PROVE  ReadInv'
  <1>1. CASE phase' = "leaf"
    <2> DEFINE matched == spec[cmd_match_command(spec, Word)]
    <2>1. phase = "command"
      BY DEF CommandWord
    <2>2. positionals = <<>> /\ cmd.type # "leaf"
      BY <2>1 DEF HandlersInv, MatchInv, TakenInv, Idling
    <2>3. /\ first' = at + 1 /\ at' = at + 1 /\ line' = line /\ positionals' = <<>>
          /\ options' = [i \in 1 .. Len(matched.options) |-> Absent]
      BY <1>1, <2>1, <2>2 DEF CommandWord
    <2>4. at \in Nat /\ at \in 1 .. Len(line) + 1 /\ Len(line) \in Nat
      BY DEF HandlersInv, PlaceInv
    <2> HIDE DEF matched
    <2>5. PlacesBefore(at)' = {}
      BY <2>3, <2>4 DEF PlacesBefore
    <2>6. \A k : OptionsBefore(at, k)' = {}
      BY <2>3, <2>4 DEF OptionsBefore
    <2>7. PositionalsRead(at)'
      <3>1. Cardinality(PlacesBefore(at)') = 0
        BY <2>5, FS_EmptySet
      <3>2. \A e : <<>> = [n \in 1 .. 0 |-> e]
        OBVIOUS
      <3>3. 1 .. 0 = {}
        OBVIOUS
      <3> QED
        BY <2>3, <2>5, <3>1, <3>3 DEF PositionalsRead
    <2>8. OptionsRead(at)'
      <3>1. \A k \in DOMAIN options' : options'[k].present = FALSE
        BY <2>3 DEF Absent
      <3> QED
        BY <2>6, <3>1 DEF OptionsRead
    <2>9. at' <= Len(line') => ~IsArgument'[at']
      <3>1. first' \in Nat \ {0} /\ Len(line') \in Nat /\ at' = first' /\ at' \in Nat \ {0}
        BY <2>3, <2>4
      <3>2. IsArgument' = ArgumentsOf(line', first')
        BY DEF IsArgument, ArgumentsOf
      <3>3. at' <= Len(line') => ~ArgumentsOf(line', first')[at']
        BY <3>1, ArgumentsBegin
      <3> QED
        BY <3>2, <3>3
    <2>10. first' \in 1 .. at'
      BY <2>3, <2>4
    <2> QED
      BY <1>1, <2>7, <2>8, <2>9, <2>10 DEF ReadInv
  <1>2. CASE phase' # "leaf"
    BY <1>2 DEF CommandWord, ReadInv
  <1> QED
    BY <1>1, <1>2

LEMMA LongRead ==
    ASSUME HandlersInv, ReadInv, Long
    PROVE  ReadInv'
  <1>1. /\ phase = "leaf" /\ ~AtEnd /\ IsLong(Word) /\ IsFlag(Word) /\ LongIndex # 0
        /\ ~options[LongIndex].present /\ at < Len(line)
        /\ TakeOption(LongIndex, line[at + 1], at + 2)
    BY DEF Long, AtLong, IsLong
  <1>2. AtWord /\ IsLeaf(cmd) /\ DOMAIN options = 1 .. Len(cmd.options)
    BY <1>1, TakingAtWord DEF Taking
  <1>3. LongIndex = LongOption(cmd.options, Word) /\ LongIndex \in DOMAIN options
    BY <1>1, <1>2, FirstFits DEF IsLeaf, LongIndex, LongOption
  <1>4. \A m : Names(at, m) <=> m = LongIndex
    BY <1>1, <1>3 DEF Names, Word
  <1>5. ValueAt(at) = line[at + 1]
    BY <1>1 DEF ValueAt, Word
  <1>6. LongTakes(Word) /\ at \in Nat /\ Len(line) \in Nat
    BY <1>1, <1>2 DEF LongTakes, AtWord
  <1>7. at + 2 # at + 1 /\ at # Len(line)
    BY <1>1, <1>6
  <1> QED
    BY <1>1, <1>2, <1>3, <1>4, <1>5, <1>6, <1>7, OptionRead

LEMMA LongMissingRead ==
    ASSUME HandlersInv, ReadInv, LongMissing
    PROVE  ReadInv'
  <1>1. /\ phase = "leaf" /\ ~AtEnd /\ IsLong(Word) /\ IsFlag(Word) /\ at = Len(line)
        /\ UNCHANGED <<line, first, cmd, positionals, options>>
        /\ phase' = "leaf" /\ at' = at + 1
    BY DEF LongMissing, AtLong, IsLong, result, values
  <1>2. AtWord
    BY <1>1, TakingAtWord DEF Taking
  <1>3. \A k : ~Gives(at, k)
    BY <1>1 DEF Gives, LongTakes, Word
  <1>4. ~(at < Len(line))
    BY <1>1, <1>2 DEF AtWord
  <1> QED
    BY <1>1, <1>2, <1>3, <1>4, FlagSkipped

LEMMA EnterShortRead ==
    ASSUME HandlersInv, ReadInv, EnterShort
    PROVE  ReadInv'
  <1>1. /\ phase = "leaf" /\ ~AtEnd /\ IsFlag(Word) /\ ~IsLong(Word)
        /\ UNCHANGED <<line, first, cmd, positionals, options, at>>
        /\ phase' = "short" /\ off' = 2
    BY DEF EnterShort, result, values
  <1>2. AtWord
    BY <1>1, TakingAtWord DEF Taking
  <1>3. PositionalsRead(at)' /\ OptionsRead(at)' /\ IsArgument' = IsArgument
    BY <1>1, <1>2, ReadFrame DEF AtWord, PositionalsRead, OptionsRead
  <1>4. Word' = Word
    BY <1>1 DEF Word
  <1> QED
    BY <1>1, <1>2, <1>3, <1>4 DEF ReadInv, AtWord

\* What a group of short options begins with.
LEMMA AtGroup ==
    HandlersInv /\ ReadInv /\ phase = "short" =>
        /\ AtWord /\ IsLeaf(cmd) /\ DOMAIN options = 1 .. Len(cmd.options)
        /\ off = 2 /\ IsFlag(Word) /\ ~IsLong(Word) /\ Len(Word) \in Nat
  <1> SUFFICES ASSUME HandlersInv, ReadInv, phase = "short"
      PROVE  /\ AtWord /\ IsLeaf(cmd) /\ DOMAIN options = 1 .. Len(cmd.options)
             /\ off = 2 /\ IsFlag(Word) /\ ~IsLong(Word) /\ Len(Word) \in Nat
    OBVIOUS
  <1>1. ~AtEnd /\ Len(Word) \in Nat
    BY DEF HandlersInv, PlaceInv, AtEnd, Words, Word
  <1>2. cmd.type = "leaf"
    BY DEF HandlersInv, MatchInv, Taking
  <1> QED
    BY <1>1, <1>2, TakingAtWord DEF Taking, ReadInv

LEMMA ShortEndsRead ==
    ASSUME HandlersInv, ReadInv, ShortEnds
    PROVE  ReadInv'
  <1>1. /\ phase = "short" /\ off > Len(Word)
        /\ UNCHANGED <<line, first, cmd, positionals, options>>
        /\ phase' = "leaf" /\ at' = at + 1
    BY DEF ShortEnds, result, values
  <1>2. AtWord /\ off = 2 /\ IsFlag(Word) /\ ~IsLong(Word) /\ Len(Word) \in Nat
    BY <1>1, AtGroup
  <1>3. ~(Len(Word) > 1) /\ Len(Word) # 2
    BY <1>1, <1>2
  <1>4. \A k : ~Gives(at, k)
    BY <1>2, <1>3 DEF Gives, Names, Word
  <1>5. ~LongTakes(Word) /\ ~ShortTakes(Word)
    BY <1>2, <1>3 DEF LongTakes, ShortTakes
  <1> QED
    BY <1>1, <1>2, <1>4, <1>5, FlagSkipped

LEMMA ShortRead ==
    ASSUME HandlersInv, ReadInv, Short
    PROVE  ReadInv'
  <1>1. /\ phase = "short" /\ off <= Len(Word) /\ ShortIndex # 0
        /\ ~options[ShortIndex].present /\ HasArgument
        /\ TakeOption(ShortIndex, Argument, IF Attached THEN at + 1 ELSE at + 2)
    BY DEF Short, AtLetter
  <1>2. /\ AtWord /\ IsLeaf(cmd) /\ DOMAIN options = 1 .. Len(cmd.options)
        /\ off = 2 /\ IsFlag(Word) /\ ~IsLong(Word) /\ Len(Word) \in Nat
    BY <1>1, AtGroup
  <1>3. ShortIndex = ShortOption(cmd.options, Char(Word, 2)) /\ ShortIndex \in DOMAIN options
    <2>1. ShortIndex = ShortOption(cmd.options, Char(Word, 2))
      BY <1>2 DEF ShortIndex
    <2>2. ShortIndex \in DOMAIN options
      BY <1>1, <1>2, FirstFits DEF IsLeaf, ShortIndex, ShortOption
    <2> QED
      BY <2>1, <2>2
  <1>4. \A m : Names(at, m) <=> m = ShortIndex
    BY <1>1, <1>2, <1>3 DEF Names, Word
  <1>5. ~LongTakes(Word) /\ at \in Nat /\ Len(line) \in Nat /\ at + 1 # at + 2
    BY <1>2 DEF LongTakes, AtWord
  <1> DEFINE n == Len(Word)
  <1>6. off = 2 /\ n \in Nat /\ 2 <= n
    BY <1>1, <1>2
  <1>7. Attached <=> 2 < n
    BY <1>6 DEF Attached
  <1> HIDE DEF n
  <1>8. CASE Attached
    <2>1. n # 2
      BY <1>6, <1>7, <1>8
    <2>2. ValueAt(at) = Argument
      BY <1>2, <1>8, <2>1 DEF ValueAt, Argument, Word, n
    <2>3. ~ShortTakes(Word)
      BY <2>1 DEF ShortTakes, n
    <2>4. TakeOption(ShortIndex, ValueAt(at), at + 1)
      BY <1>1, <1>8, <2>2
    <2> QED
      BY <1>1, <1>2, <1>3, <1>4, <1>5, <2>3, <2>4, OptionRead
  <1>9. CASE ~Attached
    <2>1. n = 2 /\ at < Len(line)
      BY <1>1, <1>6, <1>7, <1>9 DEF HasArgument
    <2>2. ValueAt(at) = Argument
      BY <1>9, <2>1 DEF ValueAt, Argument, Word, n
    <2>3. ShortTakes(Word)
      BY <1>2, <2>1 DEF ShortTakes, n
    <2>4. TakeOption(ShortIndex, ValueAt(at), at + 2)
      BY <1>1, <1>9, <2>2
    <2> QED
      BY <1>1, <1>2, <1>3, <1>4, <1>5, <2>1, <2>3, <2>4, OptionRead
  <1> QED
    BY <1>8, <1>9

LEMMA NothingRead ==
    phase' \notin {"leaf", "short", "run"} \/ cmd'.type # "leaf" => ReadInv'
  BY DEF ReadInv

LEMMA SameRead ==
    ASSUME ReadInv, UNCHANGED <<phase, line, at, off, first, cmd, positionals, options>>
    PROVE  ReadInv'
  <1>1. IsArgument' = IsArgument /\ Word' = Word /\ AtEnd' = AtEnd
    BY ReadFrame DEF Word, AtEnd
  <1>2. PositionalsRead(at) => PositionalsRead(at)'
    BY ReadFrame DEF PositionalsRead
  <1>3. OptionsRead(at) => OptionsRead(at)'
    BY ReadFrame DEF OptionsRead
  <1> QED
    BY <1>1, <1>2, <1>3 DEF ReadInv

LEMMA ReadStep == HandlersInv /\ ReadInv /\ [Next]_vars => ReadInv'
  <1> SUFFICES ASSUME HandlersInv, ReadInv, [Next]_vars PROVE ReadInv'
    OBVIOUS
  <1>1. CASE UNCHANGED vars
    BY <1>1, SameRead DEF vars, parserVars, parser, result, values
  <1>2. CASE ReadLine
    BY <1>2, NothingRead DEF ReadLine, StartLine
  <1>3. CASE End
    BY <1>3, NothingRead DEF End
  <1>4. CASE Handle
    BY <1>4, HandleFrame, NothingRead DEF Working
  <1>5. CASE Parse
    <2>1. CASE CommandEndsLine
      <3>1. cmd'.type # "leaf"
        BY <2>1 DEF CommandEndsLine, result, HandlersInv, MatchInv
      <3> QED
        BY <3>1, NothingRead
    <2>2. CASE NoSuchCommand
      BY <2>2, NothingRead DEF NoSuchCommand
    <2>3. CASE CommandWord
      BY <2>3, BeginRead
    <2>4. CASE LeafEnds
      <3>1. /\ phase = "leaf" /\ phase' = "run" /\ AtEnd
            /\ UNCHANGED <<line, at, off, first, cmd, positionals, options>>
        BY <2>4 DEF LeafEnds, Succeed, parser
      <3>2. cmd.type = "leaf"
        BY <3>1 DEF HandlersInv, MatchInv, Taking
      <3>3. IsArgument' = IsArgument /\ AtEnd'
        BY <3>1, ReadFrame DEF AtEnd
      <3>4. PositionalsRead(at)'
        BY <3>1, <3>2, ReadFrame DEF ReadInv, PositionalsRead
      <3>5. OptionsRead(at)'
        BY <3>1, <3>2, ReadFrame DEF ReadInv, OptionsRead
      <3> QED
        BY <3>1, <3>2, <3>3, <3>4, <3>5 DEF ReadInv
    <2>5. CASE MissingPositional
      BY <2>5, NothingRead DEF MissingPositional, Fail
    <2>6. CASE PositionalError
      BY <2>6, NothingRead DEF PositionalError, Fail
    <2>7. CASE Positional
      <3>1. phase = "leaf" /\ ~AtEnd /\ ~IsFlag(Word)
        BY <2>7 DEF Positional, AtPositional
      <3>2. AtWord
        BY <3>1, TakingAtWord DEF Taking
      <3>3. positionals \in Seq(STRING) /\ Word \in STRING
        BY <3>2 DEF HandlersInv, TakenInv, PlaceInv, AtWord, Word
      <3> QED
        BY <2>7, <3>1, <3>2, <3>3, PositionalRead
    <2>8. CASE LongError
      BY <2>8, NothingRead DEF LongError, Fail
    <2>9. CASE LongMissing
      BY <2>9, LongMissingRead
    <2>10. CASE Long
      BY <2>10, LongRead
    <2>11. CASE EnterShort
      BY <2>11, EnterShortRead
    <2>12. CASE ShortEnds
      BY <2>12, ShortEndsRead
    <2>13. CASE ShortError
      BY <2>13, NothingRead DEF ShortError, Fail
    <2>14. CASE Short
      BY <2>14, ShortRead
    <2>15. CASE Deinit
      BY <2>15, NothingRead DEF Deinit
    <2>16. CASE DeinitNull
      BY <2>16, NothingRead DEF DeinitNull
    <2> QED
      BY <1>5, <2>1, <2>2, <2>3, <2>4, <2>5, <2>6, <2>7, <2>8, <2>9, <2>10, <2>11, <2>12, <2>13, <2>14, <2>15, <2>16 DEF Parse
  <1> QED
    BY <1>1, <1>2, <1>3, <1>4, <1>5 DEF Next, debugger_do_line
-----------------------------------------------------------------------------
(***************************************************************************)
(* Which errors do not stop a command.                                     *)
(***************************************************************************)

\* The commands that are under way without a request.
Carrying == {"run", "expand", "load", "erase", "op"}

\* An error is behind a command that is under way just when its line ends in an
\* option without the argument it takes, or its write goes past the end; and what
\* is loaded fits the scratch buffer.
ExactInv ==
    /\ phase = "leaf" => (reported <=> AtEnd /\ BareOption)
    /\ phase = "short" => ~reported
    /\ phase \in Carrying => (reported <=> BareOption)
    /\ phase = "target" => (reported <=> BareOption \/ (Writing /\ PastEnd))
    /\ phase \in {"erase", "op", "target"} /\ cmd.payload \in Loads => op.len <= AddrSpace
    /\ phase = "target" /\ Writing => request.kind = IF ToMemory THEN "write" ELSE "flash"

LEMMA BareFrame ==
    ASSUME UNCHANGED <<line, first, cmd>>
    PROVE  BareOption' <=> BareOption
  <1>1. IsArgument' = IsArgument
    BY DEF IsArgument
  <1> QED
    BY <1>1 DEF BareOption

LEMMA ExactOver ==
    phase' \in {"deinit", "free", "crashed", "prompt", "ended", "command"} => ExactInv'
  BY DEF ExactInv, Carrying

LEMMA ExactCarries ==
    ASSUME ExactInv, phase \in Carrying, phase' \in Carrying,
           UNCHANGED <<line, first, cmd, reported>>,
           phase' \in {"erase", "op"} /\ cmd.payload \in Loads => op'.len <= AddrSpace
    PROVE  ExactInv'
  <1>1. BareOption' <=> BareOption
    BY BareFrame
  <1>2. reported' <=> BareOption'
    BY <1>1 DEF ExactInv
  <1> QED
    BY <1>2 DEF ExactInv, Carrying

LEMMA ExactAsks ==
    ASSUME HandlersInv, ExactInv, phase = "run", NEW k, NEW a, NEW n,
           AskTarget(k, a, n), k \notin {"write", "flash"}, cmd.payload \notin Loads
    PROVE  ExactInv'
  <1>1. phase' = "target" /\ UNCHANGED <<line, first, cmd, reported>> /\ request'.kind = k
    BY DEF AskTarget, GoOn, parser, Request
  <1>2. BareOption' <=> BareOption
    BY <1>1, BareFrame
  <1>3. reported' <=> BareOption'
    BY <1>1, <1>2 DEF ExactInv, Carrying
  <1>4. ~Writing'
    BY <1>1 DEF Writing
  <1> QED
    BY <1>1, <1>3, <1>4 DEF ExactInv, Carrying

LEMMA ExactHandle ==
    ASSUME HandlersInv, ExactInv, Handle
    PROVE  ExactInv'
  <1>0. /\ UNCHANGED <<line, first, cmd>>
        /\ \A c : ReturnOnly(c) => phase' = "deinit"
    BY HandleFrame DEF ReturnOnly, Return, parser
  <1>1. CASE RunDirectory \/ Status \/ Help \/ Quit \/ Open \/ Close \/ LoadFails \/ FreeOps
    <2>1. phase' = "deinit"
      BY <1>1 DEF RunDirectory, Status, Help, Quit, Open, Close, LoadFails, FreeOps,
                  ReturnOnly, Return
    <2> QED
      BY <2>1, ExactOver
  <1>2. CASE WriteStart
    <2>1. \/ phase' = "deinit"
          \/ phase = "run" /\ phase' = "expand" /\ UNCHANGED reported
      BY <1>0, <1>2 DEF WriteStart, GoOn, Running
    <2> QED
      BY <1>0, <2>1, ExactOver, ExactCarries DEF Carrying
  <1>3. CASE WriteByte
    <2>1. \/ phase' = "deinit"
          \/ phase = "expand" /\ phase' = "expand" /\ UNCHANGED reported
      BY <1>0, <1>3 DEF WriteByte
    <2> QED
      BY <1>0, <2>1, ExactOver, ExactCarries DEF Carrying
  <1>4. CASE WriteExpanded
    <2>1. phase = "expand" /\ phase' = "op" /\ UNCHANGED reported
      BY <1>4 DEF WriteExpanded, GoOn
    <2>2. cmd.payload \notin Loads
      BY <2>1 DEF HandlersInv, MatchInv, Writes, Loads
    <2> QED
      BY <1>0, <2>1, <2>2, ExactCarries DEF Carrying
  <1>5. CASE LoadStart
    <2>1. \/ phase' = "deinit"
          \/ phase = "run" /\ phase' = "load" /\ UNCHANGED reported
      BY <1>0, <1>5 DEF LoadStart, GoOn, Running
    <2> QED
      BY <1>0, <2>1, ExactOver, ExactCarries DEF Carrying
  <1>6. CASE LoadBin
    <2>1. /\ phase = "load" /\ phase' \in {"erase", "op"} /\ UNCHANGED reported
          /\ op'.len = Len(Files[Path]) /\ Len(Files[Path]) <= AddrSpace
      BY <1>6 DEF LoadBin, GoOn
    <2> QED
      BY <1>0, <2>1, ExactCarries DEF Carrying
  <1>7. CASE EraseAll
    <2>1. phase = "erase" /\ op' = op
      BY <1>7 DEF EraseAll
    <2>2. phase' = "free" \/ (phase' = "op" /\ UNCHANGED reported)
      BY <1>7 DEF EraseAll, GoOn
    <2>3. cmd.payload \in Loads => op'.len <= AddrSpace
      BY <2>1 DEF ExactInv
    <2> QED
      BY <1>0, <2>1, <2>2, <2>3, ExactOver, ExactCarries DEF Carrying
  <1>8. CASE WriteOp
    <2>1. \/ phase' \in {"deinit", "free"}
          \/ /\ request' = Request(IF ToMemory THEN "write" ELSE "flash", op.address, op.len)
             /\ reported' = (reported \/ PastEnd) /\ phase' = "target" /\ op' = op
      BY <1>0, <1>8, Zenon DEF WriteOp, GoOn
    <2>2. CASE phase' \in {"deinit", "free"}
      BY <2>2, ExactOver
    <2>3. CASE /\ request' = Request(IF ToMemory THEN "write" ELSE "flash", op.address, op.len)
               /\ reported' = (reported \/ PastEnd) /\ phase' = "target" /\ op' = op
      <3>1. BareOption' <=> BareOption
        BY <1>0, BareFrame
      <3>2. PastEnd' <=> PastEnd
        BY <1>0, <2>3 DEF PastEnd, ToMemory
      <3>3. Writing'
        BY <2>3 DEF Request, Writing
      <3>4. phase = "op"
        BY <1>8 DEF WriteOp
      <3>5. reported' <=> BareOption' \/ (Writing' /\ PastEnd')
        BY <2>3, <3>1, <3>2, <3>3, <3>4 DEF ExactInv, Carrying
      <3>6. cmd'.payload \in Loads => op'.len <= AddrSpace
        BY <1>0, <2>3, <3>4 DEF ExactInv
      <3>7. request'.kind = IF ToMemory' THEN "write" ELSE "flash"
        BY <1>0, <2>3 DEF Request, ToMemory
      <3> QED
        BY <2>3, <3>5, <3>6, <3>7 DEF ExactInv, Carrying
    <2> QED
      BY <2>1, <2>2, <2>3
  <1>9. CASE Read
    <2>1. \/ phase' = "deinit"
          \/ phase = "run" /\ AskTarget("read", Address, Amount) /\ cmd.payload \notin Loads
      BY <1>0, <1>9 DEF Read, Running, Loads
    <2> QED
      BY <2>1, ExactOver, ExactAsks
  <1>10. CASE EraseSector
    <2>1. \/ phase' = "deinit"
          \/ phase = "run" /\ AskTarget("erase", Address, 0) /\ cmd.payload \notin Loads
      BY <1>0, <1>10 DEF EraseSector, Running, Loads
    <2> QED
      BY <2>1, ExactOver, ExactAsks
  <1>11. CASE Ask
    <2>1. /\ phase = "run" /\ AskTarget(cmd.payload, 0, 0)
          /\ cmd.payload \notin Loads /\ cmd.payload \notin {"write", "flash"}
      BY <1>11 DEF Ask, Running, Loads
    <2> QED
      BY <2>1, ExactAsks
  <1>12. CASE TargetReturns
    <2>1. phase' \in {"deinit", "free"}
      BY <1>0, <1>12 DEF TargetReturns, GoOn
    <2> QED
      BY <2>1, ExactOver
  <1> QED
    BY <1>1, <1>2, <1>3, <1>4, <1>5, <1>6, <1>7, <1>8, <1>9, <1>10, <1>11, <1>12 DEF Handle

\* The parser goes on behind words of which the last is no option without its
\* argument.
LEMMA ExactReads ==
    ASSUME ExactInv, AtWord, phase \in Taking, phase' = "leaf",
           UNCHANGED <<line, first, cmd, reported>>, AtEnd' => ~BareOption
    PROVE  ExactInv'
  <1>1. ~reported
    BY DEF ExactInv, Taking, AtWord, AtEnd
  <1>2. BareOption' <=> BareOption
    BY BareFrame
  <1> QED
    BY <1>1, <1>2 DEF ExactInv, Carrying

\* The last word but for an argument, or an argument.
LEMMA NotBare ==
    ASSUME AtWord, NEW n \in {at + 1, at + 2}, UNCHANGED line, at' = n,
           n = at + 1 => ~IsLong(Word),
           n = at + 2 => at < Len(line) /\ (LongTakes(Word) \/ ShortTakes(Word))
    PROVE  AtEnd' => ~BareOption
  <1> SUFFICES ASSUME AtEnd' PROVE ~BareOption
    OBVIOUS
  <1>1. at \in 1 .. Len(line) /\ Len(line) \in Nat /\ n > Len(line)
        /\ first \in Nat \ {0} /\ first <= at
    BY DEF AtWord, AtEnd
  <1>2. CASE n = at + 1
    <2>1. at = Len(line)
      BY <1>1, <1>2
    <2> QED
      BY <1>2, <2>1 DEF BareOption, Word
  <1>3. CASE n = at + 2
    <2>1. at + 1 = Len(line)
      BY <1>1, <1>3
    <2>2. IsArgument[at + 1]
      BY <1>1, <1>3, <2>1, ArgumentNext DEF AtWord, Word
    <2> QED
      BY <2>1, <2>2 DEF BareOption
  <1> QED
    BY <1>2, <1>3

LEMMA ExactParse ==
    ASSUME HandlersInv, ReadInv, ExactInv, Parse
    PROVE  ExactInv'
  <1>1. CASE \/ NoSuchCommand \/ MissingPositional \/ PositionalError \/ LongError
             \/ ShortError \/ Deinit \/ DeinitNull
    <2>1. phase' \in {"deinit", "crashed", "prompt"}
      BY <1>1 DEF NoSuchCommand, MissingPositional, PositionalError, LongError, ShortError,
                  Deinit, DeinitNull, Fail
    <2> QED
      BY <2>1, ExactOver
  <1>2. CASE CommandEndsLine
    <2>1. /\ phase = "command" /\ phase' = "run"
          /\ UNCHANGED <<line, first, cmd, reported>>
      BY <1>2 DEF CommandEndsLine, Succeed, parser, result
    <2>2. ~reported /\ cmd.type # "leaf"
      BY <2>1 DEF HandlersInv, ErrorInv, MatchInv, Idling
    <2>3. ~BareOption'
      BY <2>1, <2>2 DEF BareOption
    <2> QED
      BY <2>1, <2>2, <2>3 DEF ExactInv, Carrying
  <1>3. CASE CommandWord
    <2>1. /\ phase = "command" /\ UNCHANGED <<line, reported>> /\ at' = at + 1
          /\ phase' = "command" \/ (phase' = "leaf" /\ first' = at + 1)
      BY <1>3 DEF CommandWord
    <2>2. ~reported /\ at \in Nat /\ Len(line) \in Nat
      BY <2>1 DEF HandlersInv, ErrorInv, PlaceInv
    <2>3. CASE phase' = "command"
      BY <2>3, ExactOver
    <2>4. CASE phase' = "leaf" /\ first' = at + 1
      <3>1. AtEnd' => ~BareOption'
        BY <2>1, <2>2, <2>4 DEF AtEnd, BareOption
      <3> QED
        BY <2>1, <2>2, <2>4, <3>1 DEF ExactInv, Carrying
    <2> QED
      BY <2>1, <2>3, <2>4
  <1>4. CASE LeafEnds
    <2>1. /\ phase = "leaf" /\ AtEnd /\ phase' = "run"
          /\ UNCHANGED <<line, first, cmd, reported>>
      BY <1>4 DEF LeafEnds, Succeed, parser
    <2>2. BareOption' <=> BareOption
      BY <2>1, BareFrame
    <2> QED
      BY <2>1, <2>2 DEF ExactInv, Carrying
  <1>5. CASE Positional
    <2>1. /\ phase = "leaf" /\ ~AtEnd /\ ~IsFlag(Word) /\ phase' = "leaf" /\ at' = at + 1
          /\ UNCHANGED <<line, first, cmd, reported>>
      BY <1>5 DEF Positional, AtPositional
    <2>2. AtWord /\ ~IsLong(Word) /\ at + 1 # at + 2
      BY <2>1, TakingAtWord DEF Taking, IsLong, AtWord
    <2>3. AtEnd' => ~BareOption
      BY <2>1, <2>2, NotBare
    <2> QED
      BY <2>1, <2>2, <2>3, ExactReads DEF Taking
  <1>6. CASE LongMissing
    <2>1. /\ phase = "leaf" /\ ~AtEnd /\ IsLong(Word) /\ at = Len(line)
          /\ phase' = "leaf" /\ at' = at + 1 /\ reported' = TRUE
          /\ UNCHANGED <<line, first, cmd>>
      BY <1>6 DEF LongMissing, AtLong, result
    <2>2. AtWord
      BY <2>1, TakingAtWord DEF Taking
    <2>3. BareOption
      BY <2>1, <2>2 DEF BareOption, AtWord, Word
    <2>4. BareOption' /\ AtEnd'
      BY <2>1, <2>2, <2>3, BareFrame DEF AtEnd, AtWord
    <2> QED
      BY <2>1, <2>4 DEF ExactInv, Carrying
  <1>7. CASE Long
    <2>1. /\ phase = "leaf" /\ ~AtEnd /\ IsLong(Word) /\ at < Len(line)
          /\ phase' = "leaf" /\ at' = at + 2 /\ UNCHANGED <<line, first, cmd, reported>>
      BY <1>7 DEF Long, AtLong, TakeOption
    <2>2. AtWord /\ LongTakes(Word) /\ at + 1 # at + 2
      BY <2>1, TakingAtWord DEF Taking, LongTakes, AtWord
    <2>3. AtEnd' => ~BareOption
      BY <2>1, <2>2, NotBare
    <2> QED
      BY <2>1, <2>2, <2>3, ExactReads DEF Taking
  <1>8. CASE EnterShort
    <2>1. phase = "leaf" /\ ~AtEnd /\ phase' = "short" /\ UNCHANGED reported
      BY <1>8 DEF EnterShort
    <2> QED
      BY <2>1 DEF ExactInv, Carrying
  <1>9. CASE ShortEnds
    <2>1. /\ phase = "short" /\ phase' = "leaf" /\ at' = at + 1
          /\ UNCHANGED <<line, first, cmd, reported>>
      BY <1>9 DEF ShortEnds, result
    <2>2. AtWord /\ ~IsLong(Word) /\ at + 1 # at + 2
      BY <2>1, AtGroup DEF AtWord
    <2>3. AtEnd' => ~BareOption
      BY <2>1, <2>2, NotBare
    <2> QED
      BY <2>1, <2>2, <2>3, ExactReads DEF Taking
  <1>10. CASE Short
    <2>1. /\ phase = "short" /\ off <= Len(Word) /\ HasArgument /\ phase' = "leaf"
          /\ at' = IF Attached THEN at + 1 ELSE at + 2
          /\ UNCHANGED <<line, first, cmd, reported>>
      BY <1>10 DEF Short, AtLetter, TakeOption
    <2>2. /\ AtWord /\ IsFlag(Word) /\ ~IsLong(Word) /\ at + 1 # at + 2
          /\ off = 2 /\ Len(Word) \in Nat
      BY <2>1, AtGroup DEF AtWord
    <2>3. ~Attached => at < Len(line) /\ ShortTakes(Word)
      <3> DEFINE n == Len(Word)
      <3>1. n \in Nat /\ 2 <= n /\ (Attached <=> 2 < n)
        BY <2>1, <2>2 DEF Attached
      <3> HIDE DEF n
      <3>2. ~Attached => n = 2
        BY <3>1
      <3> QED
        BY <2>1, <2>2, <3>2 DEF HasArgument, ShortTakes, n
    <2>4. AtEnd' => ~BareOption
      BY <2>1, <2>2, <2>3, NotBare
    <2> QED
      BY <2>1, <2>2, <2>4, ExactReads DEF Taking
  <1> QED
    BY <1>1, <1>2, <1>3, <1>4, <1>5, <1>6, <1>7, <1>8, <1>9, <1>10 DEF Parse

LEMMA ExactStep == HandlersInv /\ ReadInv /\ ExactInv /\ [Next]_vars => ExactInv'
  <1> SUFFICES ASSUME HandlersInv, ReadInv, ExactInv, [Next]_vars PROVE ExactInv'
    OBVIOUS
  <1>1. CASE UNCHANGED vars
    <2>1. UNCHANGED <<phase, line, at, first, cmd, reported, op, request>>
      BY <1>1 DEF vars, parserVars, parser, result, values, work
    <2>2. (BareOption' <=> BareOption) /\ (AtEnd' <=> AtEnd)
          /\ (Writing' <=> Writing) /\ (PastEnd' <=> PastEnd)
      BY <2>1, BareFrame DEF AtEnd, Writing, PastEnd, ToMemory
    <2> QED
      BY <2>1, <2>2 DEF ExactInv, ToMemory
  <1>2. CASE ReadLine
    BY <1>2, ExactOver DEF ReadLine, StartLine
  <1>3. CASE End
    BY <1>3, ExactOver DEF End
  <1>4. CASE Handle
    BY <1>4, ExactHandle
  <1>5. CASE Parse
    BY <1>5, ExactParse
  <1> QED
    BY <1>1, <1>2, <1>3, <1>4, <1>5 DEF Next, debugger_do_line
-----------------------------------------------------------------------------
(***************************************************************************)
(* What follows.                                                           *)
(***************************************************************************)

\* The invariant above holds of every state of glydb.
THEOREM HandlersInvariant == Spec => []HandlersInv
  <1>1. HandlersInv /\ [Next]_vars => HandlersInv'
    BY Zenon, PlaceStep, MatchStep, TakenStep, OwnedStep, FlagStep, ErrorStep, WorkStep,
       HeapStep DEF HandlersInv
  <1> QED
    BY InitInv, <1>1, PTL DEF Spec

\* Types: the parser never goes past the end of its line, a value that is pushed
\* fits the memory of the buffer, and subcommand_write's indices stay in range.
THEOREM HandlersTypeOK == Spec => []TypeOK
  <1>1. HandlersInv => TypeOK
    <2> SUFFICES ASSUME HandlersInv PROVE TypeOK
      OBVIOUS
    <2>1. phase \in Phases
      BY DEF HandlersInv, PlaceInv
    <2>2. /\ line \in Seq(STRING) /\ at \in 1 .. Len(line) + 1
          /\ off \in Nat /\ (off # 0 => ~AtEnd) /\ first \in Nat
      BY DEF HandlersInv, PlaceInv, AtEnd
    <2>3. cmd.type \in {"none", "directory", "leaf"}
      BY DEF HandlersInv, MatchInv, NoCommand, IsEntry, IsLeaf, IsDirectory
    <2>4. owned \in BOOLEAN /\ ok \in BOOLEAN /\ reported \in BOOLEAN
      BY Zenon DEF HandlersInv, FlagInv
    <2>5. /\ buffer.size = ValueSize * Len(positionals)
          /\ buffer.size <= buffer.capacity /\ buffer.capacity <= buffer.allocated
      BY DEF HandlersInv, TakenInv, Fits
    <2>6. ParserTypeOK
      BY <2>2, <2>3, <2>4, <2>5, Zenon DEF ParserTypeOK
    <2>7. quit \in BOOLEAN /\ conn \in BOOLEAN
      BY Zenon DEF HandlersInv, WorkInv
    <2>8. op \in [address : Nat, len : Nat] /\ loop \in [j : Nat, k : Nat, l : Nat]
      BY Zenon DEF HandlersInv, WorkInv
    <2>9. op.address \in Nat /\ op.len \in Nat /\ loop.j \in Nat /\ loop.l \in Nat
      BY <2>8
    <2>10. scratch \in Seq(Byte) /\ loop.k \in 1 .. Len(positionals) + 1
      BY Zenon DEF HandlersInv, WorkInv
    <2> QED
      BY <2>1, <2>6, <2>7, <2>9, <2>10, Zenon DEF TypeOK, Phases
  <1> QED
    BY HandlersInvariant, <1>1, PTL

\* A handler that runs has its positionals, as many as its table asks for and no
\* more than it allows, and every value is of the type that the table names
\* (command.h:113-115).
THEOREM HandlersResultValid == Spec => []ResultValid
  <1>1. HandlersInv => ResultValid
    <2> SUFFICES ASSUME HandlersInv, phase = "run", cmd.type = "leaf"
        PROVE  /\ owned
               /\ Len(positionals) >= MinPositionals
               /\ Len(positionals) <= MaxPositionals \/ Variadic
               /\ \A i \in DOMAIN positionals : Parses(positionals[i], PosType(i))
               /\ \A i \in DOMAIN options : options[i].present =>
                       Parses(options[i].value, cmd.options[i].type)
      BY DEF ResultValid
    <2>1. owned /\ Len(positionals) >= MinPositionals
      BY DEF HandlersInv, OwnedInv
    <2>2. /\ Len(positionals) <= MaxPositionals \/ Variadic
          /\ \A i \in DOMAIN positionals : Parses(positionals[i], PosType(i))
      BY DEF HandlersInv, TakenInv
    <2>3. /\ options = [i \in 1 .. Len(cmd.options) |-> options[i]]
          /\ \A i \in 1 .. Len(cmd.options) : SlotOK(options[i], cmd.options[i].type)
      BY DEF HandlersInv, TakenInv
    <2>4. DOMAIN options = 1 .. Len(cmd.options)
      BY <2>3
    <2> QED
      BY <2>1, <2>2, <2>3, <2>4, Zenon DEF SlotOK
  <1> QED
    BY HandlersInvariant, <1>1, PTL

\* Between lines nothing is left of a line, and at the end nothing at all.
THEOREM HandlersFreesAll == Spec => []FreesAll
  <1>1. HandlersInv => FreesAll
    BY DEF HandlersInv, HeapInv, FreesAll, Kept
  <1> QED
    BY HandlersInvariant, <1>1, PTL

\* What is asked of target.c, the two cases that should have been stopped
\* included, is within the limits that TargetTransfer takes as its input.
THEOREM HandlersRequestsTaken ==
    Spec => [](/\ Writing => WriteRequest(request.address, request.len)
               /\ request.kind = "read" => ReadRequest(request.address, request.len)
               /\ request.kind = "erase" => EraseRequest(request.address))
  <1>1. HandlersInv => /\ Writing => WriteRequest(request.address, request.len)
                       /\ request.kind = "read" => ReadRequest(request.address, request.len)
                       /\ request.kind = "erase" => EraseRequest(request.address)
    BY DEF HandlersInv, WorkInv, Writing
  <1> QED
    BY HandlersInvariant, <1>1, PTL

\* A word of a line is taken for an integer just if it is a numeral, in any of
\* the four bases, of a number that 64 bits hold, and then for that number: no
\* product and no sum of parse_int (value.c) wraps, at neither end.
THEOREM HandlersIntsExact == Spec => []IntsExact
  <1>1. HandlersInv => IntsExact
    <2> SUFFICES ASSUME HandlersInv, NEW i \in DOMAIN line
        PROVE  {n \in Meanings(line[i]) : n \in -IntLimit .. IntLimit - 1}
                  = IF parse_int(line[i]).ok THEN {as_int(line[i])} ELSE {}
      BY DEF IntsExact
    <2>1. Len(line[i]) \in Nat
      BY DEF HandlersInv, PlaceInv, Words
    <2> QED
      BY <2>1, ExactInt
  <1> QED
    BY HandlersInvariant, <1>1, PTL

\* The bytes that a write or a load is carrying are those above.
THEOREM HandlersData == Spec => []DataInv
  <1>1. Init => DataInv
    BY DEF Init, Idle, NoWork, NoRequest, DataInv
  <1> QED
    BY <1>1, DataStep, HandlersInvariant, PTL DEF Spec

LEMMA Slice ==
    ASSUME NEW s, NEW p \in Nat, NEW w \in Nat \ {0}
    PROVE  /\ Len(SubSeq(s, p + 1, p + w)) = w
           /\ \A i \in 1 .. w : SubSeq(s, p + 1, p + w)[i] = s[p + i]
  <1>1. PICK a \in Int, b \in Int : a = p + 1 /\ b = p + w
    OBVIOUS
  <1> DEFINE S == {s[j] : j \in a .. b}
  <1>2. \A j \in a .. b : s[j] \in S
    OBVIOUS
  <1> HIDE DEF S
  <1>3. /\ Len(SubSeq(s, a, b)) = IF a <= b THEN b - a + 1 ELSE 0
        /\ \A i \in 1 .. b - a + 1 : SubSeq(s, a, b)[i] = s[a + i - 1]
    BY <1>2, SubSeqProperties
  <1>4. b - a + 1 = w /\ a <= b
    BY <1>1
  <1>5. \A i \in 1 .. w : a + i - 1 = p + i
    BY <1>1
  <1> QED
    BY <1>1, <1>3, <1>4, <1>5

LEMMA FieldJoins ==
    ASSUME HandlersInv, Expanded, Widths, Spread, NEW n \in 1 .. Fields
    PROVE  Joined(Field(n)) = as_int(Value(n)) % Power(ByteSize, Width)
  <1> DEFINE w == Width
             f == n - 1
             bytes == Field(n)
             v == as_int(positionals[2 + (f % Values)])
  <1>1. /\ Repeat \in Nat /\ w \in Nat \ {0} /\ Values \in Nat \ {0}
        /\ scratch \in Seq(Byte) /\ positionals \in Seq(STRING)
    <2>1. Values \in Int /\ positionals \in Seq(STRING)
      BY DEF HandlersInv, TakenInv, Values
    <2>2. scratch \in Seq(Byte)
      BY DEF HandlersInv, WorkInv
    <2> QED
      BY <2>1, <2>2, Space DEF Widths
  <1>2. Fields \in Nat /\ f \in Nat /\ n = f + 1 /\ f + 1 <= Fields
    <2>1. Repeat * Values \in Nat
      BY <1>1, SMT
    <2>2. Fields = Repeat * Values
      BY DEF Fields, Values
    <2> QED
      BY <2>1, <2>2
  <1>3. Value(n) = positionals[2 + (f % Values)]
    BY DEF Value, Values
  <1>4. v \in Int
    <2>1. f % Values \in 0 .. Values - 1
      BY <1>1, <1>2
    <2>2. 2 + (f % Values) \in 1 .. Len(positionals)
      BY <1>1, <2>1 DEF Values
    <2> QED
      BY <1>1, <2>2, PositionalsInt DEF HandlersInv
  <1>5. PICK p \in Nat : p = f * w /\ n * w = p + w
    <2>1. f * w \in Nat /\ n * w = f * w + w
      BY <1>1, <1>2, SMT
    <2> QED
      BY <2>1
  <1>6. p + w <= Len(scratch)
    <2>1. PICK u \in Nat : Fields = n + u
      BY <1>2
    <2>2. Fields * w = n * w + u * w /\ u * w \in Nat
      BY <1>1, <1>2, <2>1, SMT
    <2>3. Len(scratch) = Fields * w
      BY DEF Expanded
    <2> QED
      BY <1>1, <1>5, <2>2, <2>3
  <1>7. bytes = SubSeq(scratch, p + 1, p + w)
    BY <1>5 DEF Field
  <1> HIDE DEF w, f, bytes, v
  <1>8. Len(bytes) = w /\ \A i \in 1 .. w : bytes[i] = scratch[p + i]
    <2>1. w \in Nat \ {0}
      BY <1>1
    <2>2. /\ Len(SubSeq(scratch, p + 1, p + w)) = w
          /\ \A i \in 1 .. w : SubSeq(scratch, p + 1, p + w)[i] = scratch[p + i]
      BY <2>1, Slice, Zenon
    <2> QED
      BY <1>7, <2>2, Zenon
  <1>9. ASSUME NEW i \in 1 .. Len(bytes)
        PROVE  bytes[i] = ByteOf(v, i - 1)
    <2>1. i - 1 \in 0 .. w - 1 /\ f * w + (i - 1) < Len(scratch) /\ f * w + (i - 1) + 1 = p + i
      BY <1>1, <1>5, <1>6, <1>8
    <2>2. scratch[f * w + (i - 1) + 1] = ByteOf(v, i - 1)
      BY <1>2, <2>1, Zenon DEF Spread, w, v
    <2> QED
      BY <1>8, <2>1, <2>2
  <1>10. Joined(bytes) = v % Power(ByteSize, Len(bytes))
    BY <1>1, <1>4, <1>8, <1>9, BytesJoin
  <1> QED
    BY <1>3, <1>8, <1>10 DEF bytes, v, w

\* What a write puts into target memory is what its line says: at the address
\* given its values, field by field, cut to the width, low byte first, and all of
\* them again for each repeat (subcommand_write); of a load the file, from its
\* first byte.
THEOREM HandlersOwnData == Spec => []OwnData
  <1>1. HandlersInv /\ DataInv => OwnData
    <2> SUFFICES ASSUME HandlersInv, DataInv, request.kind \in {"write", "flash"}
        PROVE  IF cmd.payload \in Loads
               THEN /\ request.len = Len(Files[Path]) /\ request.address = Relocation
                    /\ Len(scratch) <= request.len
                    /\ scratch = SubSeq(Files[Path], 1, Len(scratch))
               ELSE /\ request.address = Address
                    /\ request.len = Fields * Width /\ request.len = Len(scratch)
                    /\ \A n \in 1 .. Fields :
                          Joined(Field(n)) = as_int(Value(n)) % Power(ByteSize, Width)
      BY DEF OwnData
    <2>1. /\ phase = "target" /\ cmd.payload \in Writes \cup Loads
          /\ request.address = op.address /\ request.len = op.len
      BY DEF DataInv
    <2>2. CASE cmd.payload \in Loads
      <3>1. Loaded
        BY <2>1, <2>2 DEF DataInv
      <3>2. PICK n \in 0 .. Len(Files[Path]) : scratch = SubSeq(Files[Path], 1, n)
        BY <3>1 DEF Loaded
      <3>3. Files[Path] \in Seq(Byte)
        BY <3>1, HandlersAssumption DEF Loaded
      <3>4. Len(scratch) = n
        BY <3>2, <3>3
      <3> QED
        BY <2>1, <2>2, <3>1, <3>2, <3>3, <3>4 DEF Loaded
    <2>3. CASE cmd.payload \notin Loads
      <3>1. Expanded /\ Widths /\ Spread
        BY <2>1, <2>3 DEF DataInv
      <3>2. \A n \in 1 .. Fields : Joined(Field(n)) = as_int(Value(n)) % Power(ByteSize, Width)
        BY <3>1, FieldJoins
      <3> QED
        BY <2>1, <2>3, <3>1, <3>2 DEF Expanded
    <2> QED
      BY <2>2, <2>3
  <1> QED
    BY HandlersInvariant, HandlersData, <1>1, PTL

\* As far as the parser is, what it has taken is what the line says.
THEOREM HandlersRead == Spec => []ReadInv
  <1>1. Init => ReadInv
    BY DEF Init, Idle, ReadInv
  <1> QED
    BY <1>1, ReadStep, HandlersInvariant, PTL DEF Spec

\* A command that runs is given what its line says (parse_leaf): the words that
\* are neither options nor their arguments, in their order, and of every option
\* the one value given to it, wherever in the line it stands.
THEOREM HandlersReadsAsWritten == Spec => []ReadsAsWritten
  <1>1. HandlersInv /\ ReadInv => ReadsAsWritten
    <2> SUFFICES ASSUME HandlersInv, ReadInv, phase = "run", cmd.type = "leaf"
        PROVE  /\ positionals = [n \in 1 .. Cardinality(PositionalWords) |->
                                    line[NthOf(PositionalWords, n)]]
               /\ \A k \in DOMAIN options :
                     GivenTo(k) = IF options[k].present THEN {options[k].value} ELSE {}
      BY DEF ReadsAsWritten
    <2>1. first \in 1 .. at /\ AtEnd /\ PositionalsRead(at) /\ OptionsRead(at)
      BY DEF ReadInv
    <2>2. at \in 1 .. Len(line) + 1 /\ Len(line) \in Nat
      BY DEF HandlersInv, PlaceInv
    <2>3. at - 1 = Len(line)
      BY <2>1, <2>2 DEF AtEnd
    <2>4. PositionalWords = PlacesBefore(at)
      BY <2>3 DEF PositionalWords, Arguments, PlacesBefore
    <2>5. \A k : GivenTo(k) = OptionsBefore(at, k)
      <3> TAKE k
      <3>1. {j \in Arguments : IsFlag(line[j]) /\ Names(j, k)
                                /\ (j = Len(line) => ~LongTakes(line[j]))}
              = {j \in first .. at - 1 : Gives(j, k)}
        BY <2>3 DEF Arguments, Gives
      <3> QED
        BY <3>1 DEF GivenTo, OptionsBefore, ValueAt
    <2> QED
      BY <2>1, <2>4, <2>5 DEF PositionalsRead, OptionsRead
  <1> QED
    BY HandlersInvariant, HandlersRead, <1>1, PTL

\* The invariant behind what follows: at every step of the parser and of a handler,
\* which errors lie behind it.
THEOREM HandlersExact == Spec => []ExactInv
  <1>1. Init => ExactInv
    BY ExactOver DEF Init, Idle, ExactInv, Carrying
  <1> QED
    BY <1>1, ExactStep, HandlersInvariant, HandlersRead, PTL DEF Spec

\* An error stops the command, and every one that does not is one of two: a long
\* option at the end of its line (command.c:107), a write past the end
\* (memory.c:16).
THEOREM HandlersErrorStops == Spec => []ErrorStopsCommand
  <1>1. HandlersInv /\ ExactInv => ErrorStopsCommand
    <2> SUFFICES ASSUME HandlersInv, ExactInv PROVE ErrorStopsCommand
      OBVIOUS
    <2>1. request # NoRequest => phase = "target"
      BY DEF HandlersInv, ErrorInv
    <2> QED
      BY <2>1 DEF ExactInv, Carrying, ErrorStopsCommand
  <1> QED
    BY HandlersInvariant, HandlersExact, <1>1, PTL

\* A write of which nothing is complained of stays inside its memory; none starts
\* in the other one; a read, and a file, fits the scratch buffer.
THEOREM HandlersRequestsFit == Spec => []RequestsFit
  <1>1. HandlersInv /\ DataInv /\ ExactInv => RequestsFit
    <2> SUFFICES ASSUME HandlersInv, DataInv, ExactInv PROVE RequestsFit
      OBVIOUS
    <2>1. Writing => IsRam(request.address) = (request.kind = "write")
      BY DEF HandlersInv, WorkInv, Writing
    <2>2. request.kind = "read" => request.len \in 1 .. AddrSpace
      BY DEF HandlersInv, WorkInv, ReadRequest
    <2>3. Writing => /\ phase = "target" /\ request.address = op.address
                     /\ request.len = op.len /\ request.address \in Nat /\ request.len \in Nat
      BY Space DEF HandlersInv, WorkInv, WriteRequest, DataInv, Writing
    <2>4. Writing /\ cmd.payload \in Loads => request.len \in 0 .. AddrSpace
      BY <2>3, Space DEF ExactInv
    <2>5. ASSUME Writing, ~reported, NEW i \in 0 .. request.len - 1
          PROVE  request.address + i \in
                    IF request.kind = "write" THEN FlashEnd .. AddrSpace - 1
                                              ELSE 0 .. FlashEnd - 1
      <3> DEFINE a == request.address
                 n == request.len
      <3>1. ~PastEnd /\ a \in Nat /\ n \in Nat /\ a = op.address /\ n = op.len
        BY <2>3, <2>5 DEF ExactInv
      <3>2. request.kind = "write" <=> ToMemory
        BY <2>3, <2>5 DEF ExactInv
      <3>3. HalfSpace \in Nat \ {0} /\ FlashEnd = HalfSpace /\ AddrSpace = 2 * HalfSpace
        BY Space DEF FlashEnd, AddrSpace
      <3>4. request.kind = "write" => a >= HalfSpace
        <4>1. a < HalfSpace => a \div HalfSpace = 0
          BY <3>1, <3>3
        <4> QED
          BY <2>1, <2>5, <3>1, <3>3, <4>1 DEF IsRam
      <3>5. a + n <= IF ToMemory THEN AddrSpace ELSE FlashEnd
        BY <3>1, <3>3 DEF PastEnd
      <3> QED
        BY <3>1, <3>2, <3>3, <3>4, <3>5
    <2> QED
      BY <2>1, <2>2, <2>4, <2>5 DEF RequestsFit
  <1> QED
    BY HandlersInvariant, HandlersData, HandlersExact, <1>1, PTL
=============================================================================
