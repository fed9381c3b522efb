-------------------------- MODULE SerialRingProofs --------------------------
(***************************************************************************)
(* Proofs about the receive ring, for every size of buffer and index that  *)
(* RingAssumption admits and every sender whose window fits the buffer.    *)
(***************************************************************************)
EXTENDS SerialRing, Arithmetic

-----------------------------------------------------------------------------
(***************************************************************************)
(* The index operations of the ring, in terms of byte counts.              *)
(***************************************************************************)

LEMMA Sizes ==
    /\ BufferSize \in Nat \ {0}
    /\ LowRange \in Nat \ {0}
    /\ HighRange \in Nat \ {0, 1} /\ HighRange \in Nat \ {0}
    /\ IndexRange \in Nat \ {0}
    /\ IndexRange = LowRange * HighRange
    /\ 2 * BufferSize <= IndexRange
    /\ BufferSize < IndexRange
    /\ IndexRange % BufferSize = 0
    /\ IndexRange % LowRange = 0
    /\ 2 * LowRange <= IndexRange
  <1>1. /\ BufferSize \in Nat \ {0} /\ LowRange \in Nat \ {0}
        /\ HighRange \in Nat \ {0, 1} /\ 2 * BufferSize <= IndexRange
        /\ IndexRange % BufferSize = 0
    BY RingAssumption
  <1>2. IndexRange = LowRange * HighRange /\ IndexRange \in Int
    BY <1>1, SMT DEF IndexRange
  <1>3. BufferSize < IndexRange /\ IndexRange \in Nat \ {0}
    BY <1>1, <1>2
  <1>4. IndexRange % LowRange = 0
    <2>1. IndexRange = (LowRange * HighRange) + 0
      BY <1>2
    <2> QED
      BY <1>1, <1>2, <2>1, ModUnique
  <1>5. 2 * LowRange <= IndexRange
    <2>1. PICK k \in Nat : HighRange = 2 + k
      <3>1. HighRange - 2 \in Nat
        BY <1>1
      <3> QED
        BY <3>1, <1>1, SMT
    <2>2. LowRange * HighRange = (2 * LowRange) + (LowRange * k)
      BY <1>1, <2>1, SMT
    <2>3. LowRange * k >= 0 /\ LowRange * k \in Int
      BY <1>1, SMT
    <2> QED
      BY <1>1, <1>2, <2>2, <2>3, SMT
  <1> QED
    BY <1>1, <1>2, <1>3, <1>4, <1>5

LEMMA ModIndex ==
    ASSUME NEW a \in Int
    PROVE  a % IndexRange \in Index
  BY Sizes, SMT DEF Index

LEMMA SizeExact ==
    ASSUME NEW a \in Int, NEW b \in Int, a - b \in 0 .. IndexRange - 1
    PROVE  Size(a % IndexRange, b % IndexRange) = a - b
  BY Sizes, ModDistance DEF Size

LEMMA IncExact ==
    ASSUME NEW a \in Int
    PROVE  Inc(a % IndexRange) = (a + 1) % IndexRange
  <1>1. 1 \in Int
    OBVIOUS
  <1> QED
    BY <1>1, Sizes, ModAdd, Zenon DEF Inc

LEMMA SlotExact ==
    ASSUME NEW a \in Int
    PROVE  Slot(a % IndexRange) = Slot(a) /\ Slot(a) \in 0 .. BufferSize - 1
  <1>1. Slot(a) \in 0 .. BufferSize - 1
    BY Sizes, SMT DEF Slot
  <1> QED
    BY <1>1, Sizes, ModMod DEF Slot

LEMMA SlotApart ==
    ASSUME NEW a \in Int, NEW b \in Int, a < b, b < a + BufferSize
    PROVE  Slot(a) # Slot(b)
  BY Sizes, ModApart DEF Slot

LEMMA LowExact ==
    ASSUME NEW a \in Int
    PROVE  Low(a % IndexRange) = Low(a) /\ Low(a) \in 0 .. LowRange - 1
  <1>1. Low(a) \in 0 .. LowRange - 1
    BY Sizes, SMT DEF Low
  <1> QED
    BY <1>1, Sizes, ModMod DEF Low

LEMMA WithLowIndex ==
    ASSUME NEW i \in Index, NEW b \in 0 .. LowRange - 1
    PROVE  WithLow(i, b) \in Index
  BY Sizes, WithLowRange DEF WithLow, Low, Index

\* An index that was half loaded looks empty exactly when the buffer was
\* empty at the time its low byte was loaded.
LEMMA SeesEmptyExact ==
    ASSUME NEW r \in Int, NEW t \in Int, NEW w \in Int,
           r <= t, t <= w, w - r <= BufferSize
    PROVE  /\ Size(WithLow(w % IndexRange, Low(t)), r % IndexRange) = 0 => t = r
           /\ w = r => Size(WithLow(w % IndexRange, Low(t)), r % IndexRange) = 0
  <1> DEFINE W == w % IndexRange
             R == r % IndexRange
             X == WithLow(W, Low(t))
  <1>1. W \in Index /\ R \in Index
    BY ModIndex
  <1>2. X \in Index
    BY <1>1, LowExact, WithLowIndex
  <1>3. ASSUME Size(X, R) = 0
        PROVE  t = r
    <2>1. X - R \in Int /\ -IndexRange < X - R /\ X - R < IndexRange
      BY <1>1, <1>2, Sizes DEF Index
    <2>2. PICK x \in Int : x = X - R
      BY <2>1
    <2>3. x % IndexRange = 0
      BY <1>3, <2>2 DEF Size
    <2>4. PICK q \in Int : x = IndexRange * q
      <3>1. PICK q \in Int, p \in 0 .. IndexRange - 1 :
              x = (IndexRange * q) + p /\ x % IndexRange = p
        BY Sizes, DivMod
      <3>2. IndexRange * q \in Int
        BY Sizes, SMT
      <3> QED
        BY <2>3, <3>1, <3>2
    <2>5. q = 0
      BY <2>1, <2>2, <2>4, Sizes, SmallMultiple
    <2>6. x = 0
      BY <2>4, <2>5, Sizes, SMT
    <2>7. X = R
      BY <2>2, <2>6, <1>1, <1>2 DEF Index
    <2>8. W - (W % LowRange) + (t % LowRange) = R
      BY <2>7 DEF WithLow, Low
    <2>9. /\ LowRange \in Nat \ {0} /\ HighRange \in Nat \ {0, 1}
          /\ BufferSize \in Nat /\ IndexRange \in Nat \ {0}
      BY Sizes
    <2>10. /\ IndexRange = LowRange * HighRange /\ 2 * BufferSize <= IndexRange
           /\ r <= t /\ t <= w /\ w - r <= BufferSize
           /\ (w % IndexRange) - ((w % IndexRange) % LowRange) + (t % LowRange)
                = r % IndexRange
      BY <2>8, Sizes
    <2> HIDE DEF W, R, X
    <2> QED
      BY <2>9, <2>10, HalfLoaded, Zenon
  <1>4. ASSUME w = r
        PROVE  Size(X, R) = 0
    <2>1. t = w
      BY <1>4
    <2>2. Low(t) = Low(W)
      BY <2>1, LowExact
    <2>3. Low(W) \in Int /\ W \in Int
      BY <1>1, <2>2, LowExact, Sizes DEF Index
    <2>4. X = W
      BY <2>2, <2>3 DEF WithLow
    <2>5. r - r \in 0 .. IndexRange - 1
      BY Sizes
    <2>6. Size(R, R) = r - r
      BY <2>5, SizeExact
    <2> QED
      BY <1>4, <2>4, <2>6
  <1> QED
    BY <1>3, <1>4

\* Storing the high byte of `read` first leaves it where it was or one page on.
LEMMA TakeHighExact ==
    ASSUME NEW r \in Int, NEW i, i = r % IndexRange
    PROVE  WithLow(Inc(i), Low(i)) \in {r % IndexRange, (r + LowRange) % IndexRange}
  <1>1. i \in Index /\ Inc(i) \in Index
    BY ModIndex, Sizes DEF Inc, Index
  <1>2. WithLow(Inc(i), Low(i)) \in {i, (i + LowRange) % IndexRange}
    BY <1>1, Sizes, HalfStored DEF WithLow, Low, Inc, Index
  <1>3. (i + LowRange) % IndexRange = (r + LowRange) % IndexRange
    <2>1. LowRange \in Int
      BY Sizes
    <2> QED
      BY <2>1, Sizes, ModAdd, Zenon
  <1> QED
    BY <1>2, <1>3

-----------------------------------------------------------------------------
(***************************************************************************)
(* The invariant.                                                          *)
(***************************************************************************)

\* Facts about the counts that every step below starts from.
LEMMA Counts ==
    ASSUME RingInv
    PROVE  /\ Taken \in Nat /\ Written \in Int /\ sent \in Nat
           /\ Len(uart) \in Nat
           /\ Taken <= Written /\ Written <= sent
           /\ sent = Written + Len(uart)
           /\ sent - Taken <= Window
  BY RingAssumption DEF RingInv, TypeOK, IndexInv, Taken, Written

\* With a byte still to be stored, the ring has room for it, whatever the
\* half-stored value of `read`.
LEMMA NeverFull ==
    ASSUME RingInv, Window <= BufferSize, uart # <<>>
    PROVE  ~IsFull
  <1>1. /\ Taken \in Int /\ Written \in Int /\ Taken <= Written
        /\ Written - Taken < BufferSize
    <2>1. Len(uart) >= 1
      BY DEF RingInv, TypeOK
    <2> QED
      BY <2>1, Counts, Sizes, RingAssumption
  <1>2. write = Written % IndexRange
    BY DEF RingInv, IndexInv
  <1>3. CASE read = Taken % IndexRange
    <2>1. Written - Taken \in 0 .. IndexRange - 1
      BY <1>1, Sizes
    <2>2. Size(write, read) = Written - Taken
      BY <1>1, <1>2, <1>3, <2>1, SizeExact
    <2> QED
      BY <1>1, <2>2, Sizes DEF IsFull
  <1>4. CASE pc = "load"
    <2>1. Taken < Written /\ read = (Taken + 1) % IndexRange
      BY <1>4 DEF RingInv, IndexInv, MainInv
    <2>2. PICK r \in Int : r = Taken + 1
      BY <1>1
    <2>3. Written - r \in 0 .. IndexRange - 1
      BY <1>1, <2>1, <2>2, Sizes
    <2>4. Size(write, read) = Written - r
      BY <1>1, <1>2, <2>1, <2>2, <2>3, SizeExact
    <2> QED
      BY <1>1, <2>2, <2>4, Sizes DEF IsFull
  <1>5. CASE pc = "take_lo" /\ read = (Taken + LowRange) % IndexRange
    <2>1. Taken < Written
      BY <1>5 DEF RingInv, MainInv
    <2>2. PICK r \in Int : r = Taken + LowRange
      BY <1>1, Sizes
    <2>3. CASE r <= Written
      <3>1. Written - r \in 0 .. IndexRange - 1
        BY <1>1, <2>2, <2>3, Sizes
      <3>2. Size(write, read) = Written - r
        BY <1>1, <1>2, <1>5, <2>2, <3>1, SizeExact
      <3> QED
        BY <1>1, <2>2, <3>2, Sizes DEF IsFull
    <2>4. CASE Written < r
      <3>1. PICK w \in Int : w = Written + IndexRange
        BY <1>1, Sizes
      <3>2. w = Written + (IndexRange * 1)
        BY <1>1, <3>1, Sizes
      <3>3. w % IndexRange = Written % IndexRange
        <4>1. 1 \in Int /\ Written \in Int /\ w \in Int /\ IndexRange \in Nat \ {0}
          BY <1>1, <3>1, Sizes
        <4> QED
          BY <3>2, <4>1, ModPlusMultiple, Zenon
      <3>4. w - r \in 0 .. IndexRange - 1
        BY <1>1, <2>1, <2>2, <2>4, <3>1, Sizes
      <3>5. Size(write, read) = w - r
        BY <1>2, <1>5, <2>2, <3>3, <3>4, SizeExact
      <3>6. w - r > BufferSize
        BY <1>1, <2>1, <2>2, <3>1, Sizes
      <3> QED
        BY <3>5, <3>6, Sizes DEF IsFull
    <2> QED
      BY <1>1, <2>2, <2>3, <2>4
  <1> QED
    BY <1>3, <1>4, <1>5 DEF RingInv, IndexInv

LEMMA RingInit == Init => RingInv
  <1> SUFFICES ASSUME Init PROVE RingInv
    OBVIOUS
  <1>1. 0 % IndexRange = 0 /\ 0 \in Index
    BY Sizes, ModSmall DEF Index
  <1>2. TypeOK
    BY <1>1, RingAssumption DEF Init, TypeOK, Labels, NoByte
  <1>3. Taken = 0 /\ Written = 0
    <2>1. returned = <<>> /\ uart = <<>> /\ sent = 0
      BY DEF Init
    <2>2. Len(returned) = 0 /\ Len(uart) = 0
      BY <2>1
    <2>3. sent = 0
      BY <2>1
    <2> QED
      BY <2>2, <2>3 DEF Taken, Written
  <1>4. UartInv /\ SlotInv /\ Lossless
    BY <1>3 DEF Init, UartInv, SlotInv, Lossless
  <1>5. IndexInv
    BY <1>1, <1>3, RingAssumption DEF Init, IndexInv
  <1>6. MainInv
    BY DEF Init, MainInv
  <1> QED
    BY <1>2, <1>4, <1>5, <1>6 DEF RingInv

LEMMA RingArrive ==
    ASSUME RingInv, ByteArrives
    PROVE  RingInv'
  <1>1. /\ uart' = Append(uart, sent) /\ sent' = sent + 1
        /\ Len(uart') = Len(uart) + 1 /\ sent < MaxBytes
        /\ sent - Taken < Window /\ Len(uart) < UartDepth
        /\ uart \in Seq(Nat) /\ sent \in Nat
    BY DEF ByteArrives, RingInv, TypeOK, Taken
  <1>2. TypeOK'
    BY <1>1, RingAssumption DEF ByteArrives, RingInv, TypeOK
  <1>3. Taken' = Taken /\ Written' = Written
    BY <1>1 DEF ByteArrives, Taken, Written, RingInv, TypeOK
  <1>4. UartInv'
    BY <1>1, <1>3, Counts DEF RingInv, UartInv
  <1>5. IndexInv'
    BY <1>1, <1>3, RingAssumption, Counts DEF ByteArrives, RingInv, IndexInv
  <1>6. SlotInv' /\ Lossless'
    BY <1>3 DEF ByteArrives, RingInv, SlotInv, Lossless
  <1>7. MainInv'
    BY <1>3 DEF ByteArrives, RingInv, MainInv
  <1> QED
    BY <1>2, <1>4, <1>5, <1>6, <1>7 DEF RingInv

LEMMA RingReceive ==
    ASSUME RingInv, UsartRx, Window <= BufferSize
    PROVE  RingInv'
  <1>1. /\ uart # <<>> /\ uart \in Seq(Nat) /\ Len(uart) \in Nat \ {0}
        /\ uart' = Tail(uart) /\ uart' \in Seq(Nat) /\ Len(uart') = Len(uart) - 1
        /\ \A k \in 1 .. Len(uart) - 1 : uart'[k] = uart[k + 1]
        /\ ie
    BY DEF UsartRx, RingInv, TypeOK
  <1>2. ~IsFull
    BY <1>1, NeverFull
  <1>3. data' = [data EXCEPT ![Slot(write)] = Head(uart)] /\ write' = Inc(write)
    BY <1>2 DEF UsartRx, Store
  <1>4. Taken' = Taken /\ Written' = Written + 1
    BY <1>1, Counts DEF UsartRx, Taken, Written
  <1>5. Head(uart) = Written /\ Head(uart) \in Nat
    BY <1>1, Counts DEF RingInv, UartInv
  <1>6. /\ write' = Written' % IndexRange /\ write' \in Index
        /\ Slot(write) = Slot(Written) /\ Slot(write) \in 0 .. BufferSize - 1
    BY <1>3, <1>4, Counts, IncExact, SlotExact, ModIndex DEF RingInv, IndexInv
  <1>7. TypeOK'
    <2>1. data' \in [0 .. BufferSize - 1 -> Nat \cup {NoByte}]
      BY <1>3, <1>5, <1>6 DEF RingInv, TypeOK
    <2>2. pc' \in Labels
      BY DEF UsartRx, RingInv, TypeOK, Labels
    <2>3. Len(uart') <= UartDepth
      BY <1>1, RingAssumption DEF RingInv, TypeOK
    <2>4. UNCHANGED <<read, ie, reg, idx, sent, returned>>
      BY DEF UsartRx
    <2> QED
      BY <1>1, <1>6, <2>1, <2>2, <2>3, <2>4 DEF RingInv, TypeOK, Index
  <1>8. UartInv'
    BY <1>1, <1>4, Counts DEF RingInv, UartInv
  <1>9. IndexInv'
    BY <1>4, <1>6, Counts DEF UsartRx, RingInv, IndexInv
  <1>10. SlotInv'
    <2> SUFFICES ASSUME NEW k \in Taken .. Written
                 PROVE  data'[Slot(k)] = k
      BY <1>4, Counts DEF UsartRx, SlotInv, Slot
    <2>1. k \in Int /\ Slot(k) \in 0 .. BufferSize - 1
      BY Counts, SlotExact
    <2>2. CASE k = Written
      BY <1>3, <1>5, <1>6, <2>1, <2>2 DEF RingInv, TypeOK
    <2>3. CASE k < Written
      <3>1. Written < k + BufferSize
        BY <1>1, <2>1, Counts, Sizes, RingAssumption
      <3>2. Slot(k) # Slot(Written)
        BY <2>1, <2>3, <3>1, Counts, SlotApart
      <3>3. data[Slot(k)] = k
        BY <2>1, <2>3, Counts DEF RingInv, SlotInv
      <3> QED
        BY <1>3, <1>6, <2>1, <3>2, <3>3 DEF RingInv, TypeOK
    <2> QED
      BY <2>1, <2>2, <2>3, Counts
  <1>11. MainInv'
    <2>1. pc' \in {"read_lo", "read_hi", "take_hi", "take_lo", "load"}
            => Taken' < Written'
      BY <1>4, Counts DEF UsartRx, RingInv, MainInv
    <2>2. pc' \in {"wait_hi", "read_hi", "poll_hi"} =>
            \E t \in Taken' .. Written' :
                reg' = Low(t) /\ (pc' = "read_hi" => Taken' < t)
      <3> SUFFICES ASSUME pc' \in {"wait_hi", "read_hi", "poll_hi"}
                   PROVE  \E t \in Taken' .. Written' :
                            reg' = Low(t) /\ (pc' = "read_hi" => Taken' < t)
        OBVIOUS
      <3>1. pc = pc' /\ reg' = reg
        BY DEF UsartRx
      <3>2. PICK t \in Taken .. Written :
              reg = Low(t) /\ (pc = "read_hi" => Taken < t)
        BY <3>1 DEF RingInv, MainInv
      <3>3. t \in Taken' .. Written'
        BY <1>4, Counts
      <3> QED
        BY <1>4, <3>1, <3>2, <3>3
    <2>3. pc' \notin {"loop", "sleep", "asleep"}
      BY <1>1 DEF UsartRx, RingInv, MainInv
    <2> QED
      BY <2>1, <2>2, <2>3 DEF MainInv, Low
  <1>12. Lossless'
    BY DEF UsartRx, RingInv, Lossless
  <1> QED
    BY <1>7, <1>8, <1>9, <1>10, <1>11, <1>12 DEF RingInv

\* A step of the main loop that moves no byte and touches no index keeps
\* everything but its own place.
LEMMA RingQuiet ==
    ASSUME RingInv, pc' \in Labels, ie' \in BOOLEAN, reg' \in 0 .. LowRange - 1,
           UNCHANGED <<data, read, write, idx, uart, sent, returned>>,
           pc \notin {"take_lo", "load"}, pc' \notin {"take_lo", "load"},
           MainInv'
    PROVE  RingInv'
  <1>1. Taken' = Taken /\ Written' = Written
    BY DEF Taken, Written
  <1>2. TypeOK'
    BY DEF RingInv, TypeOK
  <1>3. IndexInv'
    BY <1>1 DEF RingInv, IndexInv
  <1>4. UartInv' /\ SlotInv' /\ Lossless'
    BY <1>1 DEF RingInv, UartInv, SlotInv, Lossless
  <1> QED
    BY <1>2, <1>3, <1>4 DEF RingInv

\* What a comparison with a half-loaded `write` tells.
LEMMA CheckExact ==
    ASSUME RingInv, Window <= BufferSize,
           pc \in {"wait_hi", "read_hi", "poll_hi"}
    PROVE  /\ ~SeesEmpty => Taken < Written
           /\ pc = "read_hi" => ~SeesEmpty
  <1>1. PICK t \in Taken .. Written :
          reg = Low(t) /\ (pc = "read_hi" => Taken < t)
    BY DEF RingInv, MainInv
  <1>2. /\ Taken \in Int /\ t \in Int /\ Written \in Int
        /\ Taken <= t /\ t <= Written /\ Written - Taken <= BufferSize
    BY <1>1, Counts, Sizes, RingAssumption
  <1>3. write = Written % IndexRange /\ read = Taken % IndexRange
    BY DEF RingInv, IndexInv
  <1>4. /\ SeesEmpty => t = Taken
        /\ Written = Taken => SeesEmpty
    BY <1>1, <1>2, <1>3, SeesEmptyExact DEF SeesEmpty
  <1> QED
    BY <1>1, <1>2, <1>4

\* The loop condition, with interrupts disabled, is exact.
LEMMA EmptyExact ==
    ASSUME RingInv, Window <= BufferSize, pc \notin {"take_lo", "load"}
    PROVE  IsEmpty <=> Taken = Written
  <1>1. write = Written % IndexRange /\ read = Taken % IndexRange
    BY DEF RingInv, IndexInv
  <1>2. Written - Taken \in 0 .. IndexRange - 1
    BY Counts, Sizes, RingAssumption
  <1>3. Size(write, read) = Written - Taken
    BY <1>1, <1>2, Counts, SizeExact
  <1> QED
    BY <1>3, Counts DEF IsEmpty

LEMMA RingCall ==
    ASSUME RingInv, Call
    PROVE  RingInv'
  <1>1. MainInv'
    BY DEF Call, Goto, MainInv, RingInv
  <1> QED
    BY <1>1, RingQuiet DEF Call, Goto, Labels, RingInv, TypeOK

LEMMA RingLoadLow ==
    ASSUME RingInv, NEW from, NEW to, LoadWriteLow(from, to),
           <<from, to>> \in {<<"wait_lo", "wait_hi">>, <<"read_lo", "read_hi">>,
                             <<"poll_lo", "poll_hi">>}
    PROVE  RingInv'
  <1>1. /\ pc = from /\ pc' = to /\ reg' = Low(write)
        /\ UNCHANGED <<data, read, write, ie, idx, uart, sent, returned>>
    BY DEF LoadWriteLow, Goto
  <1>2. \/ from = "wait_lo" /\ to = "wait_hi"
        \/ from = "read_lo" /\ to = "read_hi"
        \/ from = "poll_lo" /\ to = "poll_hi"
    BY Zenon
  <1>3. reg' = Low(Written) /\ reg' \in 0 .. LowRange - 1
    BY <1>1, Counts, LowExact DEF RingInv, IndexInv
  <1>4. Taken' = Taken /\ Written' = Written
    BY <1>1 DEF Taken, Written
  <1>5. MainInv'
    <2>1. Written \in Taken .. Written
      BY Counts
    <2>2. pc = "read_lo" => Taken < Written
      BY DEF RingInv, MainInv
    <2>3. \E t \in Taken' .. Written' :
            reg' = Low(t) /\ (pc' = "read_hi" => Taken' < t)
      BY <1>1, <1>2, <1>3, <1>4, <2>1, <2>2
    <2>4. pc' \in {"read_lo", "read_hi", "take_hi", "take_lo", "load"}
            => Taken' < Written'
      BY <1>1, <1>2, <1>4, <2>2
    <2>5. pc' \notin {"loop", "sleep", "asleep"}
      BY <1>1, <1>2
    <2> QED
      BY <2>3, <2>4, <2>5 DEF MainInv, Low
  <1> QED
    BY <1>1, <1>2, <1>3, <1>5, RingQuiet DEF Labels, RingInv, TypeOK

LEMMA RingWait ==
    ASSUME RingInv, Window <= BufferSize,
           WaitCheck \/ Cli \/ WaitLoop \/ SeiSleep \/ PollCheck
    PROVE  RingInv'
  <1>1. CASE WaitCheck
    <2>1. MainInv'
      BY <1>1, CheckExact DEF WaitCheck, Goto, MainInv, Taken, Written
    <2> QED
      BY <1>1, <2>1, RingQuiet DEF WaitCheck, Goto, Labels, RingInv, TypeOK
  <1>2. CASE Cli
    <2>1. MainInv'
      BY <1>2 DEF Cli, Goto, MainInv
    <2> QED
      BY <1>2, <2>1, RingQuiet DEF Cli, Goto, Labels, RingInv, TypeOK
  <1>3. CASE WaitLoop
    <2>1. MainInv'
      <3>1. pc = "loop" /\ UNCHANGED <<uart, sent, returned>>
        BY <1>3 DEF WaitLoop
      <3>2. Taken' = Taken /\ Written' = Written
        BY <3>1 DEF Taken, Written
      <3>3. IsEmpty <=> Taken = Written
        BY <3>1, EmptyExact
      <3>4. CASE IsEmpty
        <4>1. pc' = "sleep" /\ ~ie'
          BY <1>3, <3>1, <3>4 DEF WaitLoop, Goto, RingInv, MainInv
        <4> QED
          BY <3>2, <3>3, <3>4, <4>1 DEF MainInv
      <3>5. CASE ~IsEmpty
        <4>1. pc' = "read_lo"
          BY <1>3, <3>5 DEF WaitLoop, Goto
        <4> QED
          BY <3>2, <3>3, <3>5, <4>1, Counts DEF MainInv
      <3> QED
        BY <3>4, <3>5
    <2> QED
      BY <1>3, <2>1, RingQuiet DEF WaitLoop, Goto, Labels, RingInv, TypeOK
  <1>4. CASE SeiSleep
    <2>1. MainInv'
      <3>1. pc = "sleep" /\ pc' = "asleep" /\ UNCHANGED <<uart, sent, returned>>
        BY <1>4 DEF SeiSleep, Goto
      <3>2. Taken' = Taken /\ Written' = Written
        BY <3>1 DEF Taken, Written
      <3> QED
        BY <3>1, <3>2 DEF RingInv, MainInv
    <2> QED
      BY <1>4, <2>1, RingQuiet DEF SeiSleep, Goto, Labels, RingInv, TypeOK
  <1>5. CASE PollCheck
    <2>1. MainInv'
      BY <1>5, CheckExact DEF PollCheck, Goto, MainInv, Taken, Written
    <2> QED
      BY <1>5, <2>1, RingQuiet DEF PollCheck, Goto, Labels, RingInv, TypeOK
  <1> QED
    BY <1>1, <1>2, <1>3, <1>4, <1>5

LEMMA RingReadCheck ==
    ASSUME RingInv, Window <= BufferSize, ReadCheck
    PROVE  RingInv'
  <1>1. pc = "read_hi" /\ ~SeesEmpty /\ Taken < Written
    BY CheckExact DEF ReadCheck
  <1>2. /\ pc' = "take_hi"
        /\ UNCHANGED <<data, read, write, ie, reg, idx, uart, sent, returned>>
    BY <1>1 DEF ReadCheck, Goto
  <1>3. MainInv'
    BY <1>1, <1>2 DEF MainInv, Taken, Written
  <1> QED
    BY <1>1, <1>2, <1>3, RingQuiet DEF Labels, RingInv, TypeOK

LEMMA RingTakeHigh ==
    ASSUME RingInv, TakeHigh
    PROVE  RingInv'
  <1>1. /\ pc = "take_hi" /\ pc' = "take_lo" /\ idx' = read
        /\ read' = WithLow(Inc(read), Low(read))
        /\ UNCHANGED <<data, write, ie, reg, uart, sent, returned>>
    BY DEF TakeHigh, Goto
  <1>2. Taken' = Taken /\ Written' = Written
    BY <1>1 DEF Taken, Written
  <1>3. read = Taken % IndexRange /\ Taken \in Int
    BY <1>1, Counts DEF RingInv, IndexInv
  <1>4. read' \in {Taken % IndexRange, (Taken + LowRange) % IndexRange}
    BY <1>1, <1>3, TakeHighExact
  <1>5. read' \in Index
    <2>1. Taken + LowRange \in Int
      BY <1>3, Sizes
    <2> QED
      BY <1>3, <1>4, <2>1, ModIndex
  <1>6. TypeOK'
    BY <1>1, <1>5 DEF RingInv, TypeOK, Labels
  <1>7. IndexInv'
    BY <1>1, <1>2, <1>3, <1>4 DEF RingInv, IndexInv
  <1>8. UartInv' /\ SlotInv' /\ Lossless'
    BY <1>1, <1>2 DEF RingInv, UartInv, SlotInv, Lossless
  <1>9. MainInv'
    BY <1>1, <1>2 DEF RingInv, MainInv
  <1> QED
    BY <1>6, <1>7, <1>8, <1>9 DEF RingInv

LEMMA RingTakeLow ==
    ASSUME RingInv, TakeLow
    PROVE  RingInv'
  <1>1. /\ pc = "take_lo" /\ pc' = "load" /\ read' = Inc(idx)
        /\ UNCHANGED <<data, write, ie, reg, idx, uart, sent, returned>>
    BY DEF TakeLow, Goto
  <1>2. Taken' = Taken /\ Written' = Written
    BY <1>1 DEF Taken, Written
  <1>3. idx = Taken % IndexRange /\ Taken \in Int /\ Taken + 1 \in Int
    BY <1>1, Counts DEF RingInv, IndexInv
  <1>4. read' = (Taken + 1) % IndexRange /\ read' \in Index
    BY <1>1, <1>3, IncExact, ModIndex
  <1>5. TypeOK'
    BY <1>1, <1>4 DEF RingInv, TypeOK, Labels
  <1>6. IndexInv'
    BY <1>1, <1>2, <1>3, <1>4 DEF RingInv, IndexInv
  <1>7. UartInv' /\ SlotInv' /\ Lossless'
    BY <1>1, <1>2 DEF RingInv, UartInv, SlotInv, Lossless
  <1>8. MainInv'
    BY <1>1, <1>2 DEF RingInv, MainInv
  <1> QED
    BY <1>5, <1>6, <1>7, <1>8 DEF RingInv

LEMMA RingLoad ==
    ASSUME RingInv, Load
    PROVE  RingInv'
  <1>1. /\ pc = "load" /\ pc' = "idle"
        /\ returned' = Append(returned, data[Slot(idx)])
        /\ UNCHANGED <<data, read, write, ie, reg, idx, uart, sent>>
    BY DEF Load, Goto
  <1>2. /\ Taken < Written /\ Taken \in Nat /\ Written \in Int
        /\ idx = Taken % IndexRange /\ read = (Taken + 1) % IndexRange
    BY <1>1, Counts DEF RingInv, IndexInv, MainInv
  <1>3. data[Slot(idx)] = Taken
    <2>1. data[Slot(Taken)] = Taken
      BY <1>2 DEF RingInv, SlotInv
    <2> QED
      BY <1>2, <2>1, SlotExact
  <1>4. /\ returned \in Seq(Nat \cup {NoByte}) /\ returned' = Append(returned, Taken)
        /\ returned' \in Seq(Nat \cup {NoByte}) /\ Len(returned) = Taken
        /\ Len(returned') = Taken + 1
        /\ returned'[Taken + 1] = Taken
        /\ \A i \in 1 .. Taken : returned'[i] = returned[i]
    BY <1>1, <1>2, <1>3 DEF RingInv, TypeOK, Taken
  <1>5. Taken' = Taken + 1 /\ Written' = Written
    BY <1>1, <1>4 DEF Taken, Written
  <1>6. TypeOK'
    BY <1>1, <1>4 DEF RingInv, TypeOK, Labels
  <1>7. IndexInv'
    <2>1. write = Written % IndexRange
      BY DEF RingInv, IndexInv
    <2>2. Taken' <= Written' /\ sent' - Taken' <= Window
      BY <1>1, <1>2, <1>5, Counts, RingAssumption
    <2> QED
      BY <1>1, <1>2, <1>5, <2>1, <2>2 DEF IndexInv
  <1>8. UartInv'
    BY <1>1, <1>5 DEF RingInv, UartInv
  <1>9. SlotInv'
    BY <1>1, <1>2, <1>5 DEF RingInv, SlotInv, Slot
  <1>10. Lossless'
    BY <1>2, <1>4 DEF RingInv, Lossless
  <1>11. MainInv'
    BY <1>1 DEF MainInv
  <1> QED
    BY <1>6, <1>7, <1>8, <1>9, <1>10, <1>11 DEF RingInv

LEMMA RingStep ==
    ASSUME RingInv, Window <= BufferSize, [Next]_vars
    PROVE  RingInv'
  <1>1. CASE UNCHANGED vars
    <2>1. Taken' = Taken /\ Written' = Written
      BY <1>1 DEF vars, Taken, Written
    <2>2. TypeOK' /\ UartInv' /\ IndexInv' /\ SlotInv' /\ MainInv' /\ Lossless'
      BY <1>1, <2>1 DEF vars, RingInv, TypeOK, UartInv, IndexInv, SlotInv,
                        MainInv, Lossless
    <2> QED
      BY <2>2 DEF RingInv
  <1>2. CASE Main
    BY <1>2, RingCall, RingLoadLow, RingWait, RingReadCheck, RingTakeHigh,
       RingTakeLow, RingLoad DEF Main
  <1> QED
    BY <1>1, <1>2, RingArrive, RingReceive DEF Next

(***************************************************************************)
(* Every byte is returned once and in order, for every buffer and index    *)
(* size, as long as the sender's window fits the buffer: the interrupt     *)
(* handler and the main loop of serial.c never step on each other, and a   *)
(* half-loaded or half-stored index is never mistaken.                     *)
(***************************************************************************)
THEOREM RingInvariant ==
    ASSUME Window <= BufferSize
    PROVE  Spec => []RingInv
  <1>1. RingInv /\ [Next]_vars => RingInv'
    BY RingStep
  <1> QED
    BY <1>1, RingInit, PTL DEF Spec

\* Every byte that arrives is returned once and in order (serial_read_u8,
\* serial_poll_u8).
THEOREM RingLossless ==
    ASSUME Window <= BufferSize
    PROVE  Spec => []Lossless
  <1>1. RingInv => Lossless
    BY DEF RingInv
  <1> QED
    BY <1>1, RingInvariant, PTL

\* The indices stay in range, also half stored, and the ring holds bytes.
THEOREM RingTypeOK ==
    ASSUME Window <= BufferSize
    PROVE  Spec => []TypeOK
  <1>1. RingInv => TypeOK
    BY DEF RingInv
  <1> QED
    BY <1>1, RingInvariant, PTL

(***************************************************************************)
(* serial_wait_for_data never puts the CPU to sleep over a byte that is    *)
(* already in the buffer.                                                  *)
(***************************************************************************)
THEOREM RingNoLostWakeup ==
    ASSUME Window <= BufferSize
    PROVE  Spec => []NoLostWakeup
  <1>1. RingInv => NoLostWakeup
    <2> SUFFICES ASSUME RingInv, pc = "asleep"
                 PROVE  IsEmpty
      BY DEF NoLostWakeup
    <2>1. Taken = Written
      BY DEF RingInv, MainInv
    <2> QED
      BY <2>1, EmptyExact
  <1> QED
    BY <1>1, RingInvariant, PTL
-----------------------------------------------------------------------------
(***************************************************************************)
(* The ring as the queue that serial.h promises.                           *)
(***************************************************************************)

\* The bytes of the line from the a-th up to the b-th.
Span(a, b) == [k \in 1 .. b - a |-> a + k - 1]

\* Where the byte behind the oldest index is.
LEMMA OldestSlot ==
    ASSUME RingInv, Window <= BufferSize
    PROVE  /\ Size(write, OldestIndex) = Written - Taken
           /\ \A k \in Nat : Slot(OldestIndex + k) = Slot(Taken + k)
  <1>1. OldestIndex = Taken % IndexRange /\ write = Written % IndexRange
    BY DEF OldestIndex, RingInv, IndexInv
  <1>2. Written - Taken \in 0 .. IndexRange - 1 /\ Taken \in Int /\ Written \in Int
    BY Counts, Sizes, RingAssumption
  <1>3. ASSUME NEW k \in Nat
        PROVE  Slot(OldestIndex + k) = Slot(Taken + k)
    <2>1. OldestIndex \in Int /\ k \in Int
      BY <1>1, <1>2, ModIndex, Sizes DEF Index
    <2>2. (OldestIndex + k) % IndexRange = (Taken + k) % IndexRange
      BY <1>1, <1>2, <2>1, Sizes, ModAdd
    <2>3. OldestIndex + k \in Int /\ Taken + k \in Int
      BY <1>2, <2>1
    <2> QED
      BY <2>2, <2>3, SlotExact
  <1> QED
    BY <1>1, <1>2, <1>3, SizeExact

\* What is queued and what is delivered.
LEMMA QueueBytes ==
    ASSUME RingInv, Window <= BufferSize
    PROVE  /\ RingBytes \o uart = Span(Taken, sent)
           /\ returned = Span(0, Taken)
  <1>1. /\ Taken \in Nat /\ Written \in Int /\ sent \in Nat /\ Len(uart) \in Nat
        /\ Taken <= Written /\ sent = Written + Len(uart)
    BY Counts
  <1>2. RingBytes = Span(Taken, Written)
    <2>1. ASSUME NEW k \in 1 .. Written - Taken
          PROVE  data[Slot(OldestIndex + k - 1)] = Taken + k - 1
      <3>1. k - 1 \in Nat /\ Taken + (k - 1) \in Taken .. Written - 1
        BY <1>1
      <3>2. OldestIndex \in Int
        BY ModIndex, Sizes, <1>1 DEF OldestIndex, RingInv, TypeOK, Index
      <3>3. OldestIndex + k - 1 = OldestIndex + (k - 1)
        BY <3>2
      <3>4. Slot(OldestIndex + k - 1) = Slot(Taken + (k - 1))
        BY <3>1, <3>3, OldestSlot
      <3>5. data[Slot(Taken + (k - 1))] = Taken + (k - 1)
        BY <3>1 DEF RingInv, SlotInv
      <3> QED
        BY <1>1, <3>4, <3>5
    <2>2. Size(write, OldestIndex) = Written - Taken
      BY OldestSlot
    <2> QED
      BY <2>1, <2>2 DEF RingBytes, Span
  <1>3. Span(Taken, Written) \o uart = Span(Taken, sent)
    <2>1. /\ Span(Taken, Written) \in Seq(Int) /\ Len(Span(Taken, Written)) = Written - Taken
          /\ \A k \in 1 .. Written - Taken : Span(Taken, Written)[k] = Taken + k - 1
      BY <1>1 DEF Span
    <2>2. /\ uart \in Seq(Int)
          /\ \A k \in 1 .. Len(uart) : uart[k] = Written + k - 1
      BY DEF RingInv, TypeOK, UartInv
    <2>3. /\ Span(Taken, sent) \in Seq(Int) /\ Len(Span(Taken, sent)) = sent - Taken
          /\ \A k \in 1 .. sent - Taken : Span(Taken, sent)[k] = Taken + k - 1
      BY <1>1 DEF Span
    <2> DEFINE both == Span(Taken, Written) \o uart
    <2>4. both \in Seq(Int) /\ Len(both) = sent - Taken
      BY <1>1, <2>1, <2>2
    <2>5. \A k \in 1 .. sent - Taken : both[k] = Taken + k - 1
      <3> HIDE DEF both
      <3> SUFFICES ASSUME NEW k \in 1 .. sent - Taken PROVE both[k] = Taken + k - 1
        OBVIOUS
      <3>1. CASE k <= Written - Taken
        BY <1>1, <2>1, <2>2, <3>1 DEF both
      <3>2. CASE k > Written - Taken
        <4>1. PICK j \in 1 .. Len(uart) : j = k - (Written - Taken)
          BY <1>1, <3>2
        <4>2. both[k] = uart[j]
          <5>1. PICK m \in Nat : m = Written - Taken /\ k = m + j
            BY <1>1, <4>1
          <5>2. \A s, t \in Seq(Int) : \A l \in 1 .. Len(t) : (s \o t)[Len(s) + l] = t[l]
            OBVIOUS
          <5> QED
            BY <2>1, <2>2, <5>1, <5>2 DEF both
        <4>3. uart[j] = Written + j - 1 /\ Written + j - 1 = Taken + k - 1
          BY <1>1, <2>2, <4>1
        <4> QED
          BY <4>2, <4>3
      <3> QED
        BY <1>1, <3>1, <3>2
    <2> HIDE DEF both
    <2>6. both = Span(Taken, sent)
      BY <2>3, <2>4, <2>5
    <2> QED
      BY <2>6 DEF both
  <1>4. returned = Span(0, Taken)
    <2>1. returned \in Seq(Nat \cup {NoByte}) /\ Len(returned) = Taken
      BY DEF RingInv, TypeOK, Taken
    <2>2. \A i \in 1 .. Taken : returned[i] = 0 + i - 1
      BY <1>1, <2>1 DEF RingInv, Lossless
    <2> QED
      BY <1>1, <2>1, <2>2 DEF Span
  <1> QED
    BY <1>2, <1>3, <1>4

\* The two ends of a span.
LEMMA SpanGrows ==
    ASSUME NEW a \in Nat, NEW b \in Nat, a <= b
    PROVE  /\ Len(Span(a, b)) = b - a
           /\ Span(a, b + 1) = Append(Span(a, b), b)
           /\ a < b => /\ Span(a, b) # <<>> /\ Head(Span(a, b)) = a
                       /\ Tail(Span(a, b)) = Span(a + 1, b)
  <1>1. /\ Span(a, b) \in Seq(Int) /\ Len(Span(a, b)) = b - a
        /\ \A k \in 1 .. b - a : Span(a, b)[k] = a + k - 1
    BY DEF Span
  <1>2. /\ Span(a, b + 1) \in Seq(Int) /\ Len(Span(a, b + 1)) = b - a + 1
        /\ \A k \in 1 .. b - a + 1 : Span(a, b + 1)[k] = a + k - 1
    BY DEF Span
  <1>3. Span(a, b + 1) = Append(Span(a, b), b)
    <2>1. PICK s \in Seq(Int) : s = Span(a, b)
      BY <1>1
    <2>2. Len(s) = b - a /\ \A k \in 1 .. b - a : s[k] = a + k - 1
      BY <1>1, <2>1
    <2>3. PICK more \in Seq(Int) : more = Append(s, b)
      <3>1. b \in Int
        OBVIOUS
      <3>2. \A x \in Int : Append(s, x) \in Seq(Int)
        OBVIOUS
      <3> QED
        BY <3>1, <3>2
    <2>4. PICK n \in Nat : n = b - a
      OBVIOUS
    <2>5. Len(more) = n + 1 /\ more[n + 1] = b /\ \A k \in 1 .. n : more[k] = s[k]
      <3>1. \A q \in Seq(Int) : \A x \in Int :
               /\ Len(Append(q, x)) = Len(q) + 1 /\ Append(q, x)[Len(q) + 1] = x
               /\ \A k \in 1 .. Len(q) : Append(q, x)[k] = q[k]
        OBVIOUS
      <3>2. Len(s) = n /\ b \in Int
        BY <2>2, <2>4
      <3> QED
        BY <2>3, <3>1, <3>2
    <2>6. ASSUME NEW k \in 1 .. n + 1
          PROVE  more[k] = a + k - 1
      <3>1. CASE k \in 1 .. n
        <4>1. more[k] = s[k] /\ s[k] = a + k - 1
          BY <2>2, <2>4, <2>5, <3>1
        <4> QED
          BY <4>1
      <3>2. CASE k = n + 1
        <4>1. a + k - 1 = b
          BY <2>4, <3>2
        <4> QED
          BY <2>5, <3>2, <4>1
      <3> QED
        BY <2>4, <3>1, <3>2
    <2>7. PICK t \in Seq(Int) : t = Span(a, b + 1)
      BY <1>2
    <2>8. Len(t) = n + 1 /\ \A k \in 1 .. n + 1 : t[k] = a + k - 1
      BY <1>2, <2>4, <2>7
    <2>9. t = more
      <3>1. Len(t) = Len(more) /\ \A k \in 1 .. Len(t) : t[k] = more[k]
        BY <2>5, <2>6, <2>8
      <3> QED
        BY <2>3, <2>7, <3>1
    <2> QED
      BY <2>1, <2>3, <2>7, <2>9
  <1>4. ASSUME a < b
        PROVE  /\ Span(a, b) # <<>> /\ Head(Span(a, b)) = a
               /\ Tail(Span(a, b)) = Span(a + 1, b)
    <2>1. /\ Span(a + 1, b) \in Seq(Int) /\ Len(Span(a + 1, b)) = b - a - 1
          /\ \A k \in 1 .. b - a - 1 : Span(a + 1, b)[k] = a + k
      BY <1>4 DEF Span
    <2>2. Span(a, b) # <<>> /\ Head(Span(a, b)) = a
      BY <1>1, <1>4
    <2> DEFINE rest == Tail(Span(a, b))
    <2>3. rest \in Seq(Int) /\ Len(rest) = b - a - 1
      BY <1>1, <1>4
    <2>4. \A k \in 1 .. b - a - 1 : rest[k] = a + k
      BY <1>1, <1>4
    <2> HIDE DEF rest
    <2>5. rest = Span(a + 1, b)
      BY <2>1, <2>3, <2>4
    <2> QED
      BY <2>2, <2>5 DEF rest
  <1> QED
    BY <1>1, <1>3, <1>4

\* What the queue is, at every state of the ring.
QueueInv == RingBytes \o uart = Span(Taken, sent) /\ returned = Span(0, Taken)

\* A step of the line or of the main loop is a step of the queue, or none: Put
\* when a byte reaches the USART, Get when the loaded byte is returned.
LEMMA QueueStep ==
    ASSUME RingInv, QueueInv, QueueInv', Window <= BufferSize, [Next]_vars
    PROVE  [Queue!Put \/ Queue!Get]_(Queue!vars)
  <1>1. RingBytes \o uart = Span(Taken, sent) /\ returned = Span(0, Taken)
    BY DEF QueueInv
  <1>2. (RingBytes \o uart)' = Span(Taken', sent') /\ returned' = Span(0, Taken')
    BY DEF QueueInv
  <1>3. Taken \in Nat /\ sent \in Nat /\ Taken <= sent
    BY Counts
  <1>4. ASSUME UNCHANGED <<sent, returned>>
        PROVE  UNCHANGED Queue!vars
    <2>1. Taken' = Taken /\ sent' = sent
      BY <1>4 DEF Taken
    <2> QED
      BY <1>1, <1>2, <1>4, <2>1 DEF Queue!vars
  <1>5. CASE ByteArrives
    <2>1. sent' = sent + 1 /\ returned' = returned /\ Taken' = Taken
      BY <1>5 DEF ByteArrives, Taken
    <2>2. /\ Span(Taken, sent + 1) = Append(Span(Taken, sent), sent)
          /\ Len(Span(Taken, sent)) + Len(returned) = sent
      BY <1>3, SpanGrows DEF Taken
    <2> QED
      BY <1>1, <1>2, <2>1, <2>2 DEF Queue!Put
  <1>6. CASE Load
    <2>1. /\ Taken < Written /\ Written <= sent
          /\ returned' = Append(returned, data[Slot(idx)]) /\ sent' = sent
      BY <1>6, Counts DEF Load, RingInv, MainInv
    <2>2. Taken < sent
      BY <1>3, <2>1, Counts
    <2>3. Taken' = Taken + 1
      BY <2>1 DEF Taken, RingInv, TypeOK
    <2>4. /\ Span(Taken, sent) # <<>> /\ Head(Span(Taken, sent)) = Taken
          /\ Tail(Span(Taken, sent)) = Span(Taken + 1, sent)
      BY <1>3, <2>2, SpanGrows
    <2>5. 0 \in Nat /\ 0 <= Taken
      BY <1>3
    <2>6. Span(0, Taken + 1) = Append(Span(0, Taken), Taken)
      BY <1>3, <2>5, SpanGrows
    <2> QED
      BY <1>1, <1>2, <2>1, <2>3, <2>4, <2>6 DEF Queue!Get
  <1>7. CASE UNCHANGED vars
    BY <1>4, <1>7 DEF vars
  <1>8. CASE UsartRx
    BY <1>4, <1>8 DEF UsartRx
  <1>9. CASE ReadCheck
    BY <1>4, <1>9, CheckExact DEF ReadCheck
  <1>10. CASE Main /\ ~Load /\ ~ReadCheck
    BY <1>4, <1>10 DEF Main, Call, LoadWriteLow, WaitCheck, Cli, WaitLoop, SeiSleep,
                       PollCheck, TakeHigh, TakeLow
  <1> QED
    BY <1>5, <1>6, <1>7, <1>8, <1>9, <1>10 DEF Next

\* No step overwrites a byte of the ring that has not been returned: only the
\* interrupt handler stores, and behind the last of them.
LEMMA KeepStep ==
    ASSUME RingInv, Window <= BufferSize, [Next]_vars
    PROVE  [\A s \in Unreturned : data'[s] = data[s] \/ s \notin Unreturned']_vars
  <1>1. CASE UsartRx
    <2>1. uart # <<>> /\ Len(uart) \in Nat /\ Len(uart) # 0
      BY <1>1 DEF UsartRx, RingInv, TypeOK
    <2>2. Written - Taken < BufferSize
      BY <2>1, Counts, Sizes, RingAssumption
    <2>3. data' = [data EXCEPT ![Slot(write)] = Head(uart)]
      BY <1>1, <2>1, NeverFull DEF UsartRx, Store
    <2>4. Slot(write) = Slot(Written)
      BY Counts, SlotExact DEF RingInv, IndexInv
    <2>5. ASSUME NEW s \in Unreturned
          PROVE  data'[s] = data[s]
      <3>1. PICK k \in 0 .. Size(write, OldestIndex) - 1 : s = Slot(OldestIndex + k)
        BY DEF Unreturned
      <3>2. k \in Nat /\ k < Written - Taken
        BY <3>1, OldestSlot, Counts
      <3>3. s = Slot(Taken + k)
        BY <3>1, <3>2, OldestSlot
      <3>4. PICK a \in Int : a = Taken + k
        BY <3>2, Counts
      <3>5. a < Written /\ Written < a + BufferSize
        BY <2>2, <3>2, <3>4, Counts, Sizes
      <3>6. s # Slot(Written) /\ s \in 0 .. BufferSize - 1
        BY <3>3, <3>4, <3>5, Counts, SlotApart, SlotExact
      <3> QED
        BY <2>3, <2>4, <3>6 DEF RingInv, TypeOK
    <2> QED
      BY <2>5
  <1>2. CASE ByteArrives \/ Main \/ UNCHANGED vars
    <2>1. data' = data
      BY <1>2 DEF ByteArrives, Main, Call, LoadWriteLow, WaitCheck, Cli, WaitLoop, SeiSleep,
                  ReadCheck, PollCheck, TakeHigh, TakeLow, Load, vars
    <2> QED
      BY <2>1
  <1> QED
    BY <1>1, <1>2 DEF Next

(***************************************************************************)
(* A byte of the ring that has not been returned is not overwritten, also  *)
(* while the index that protects it is half stored.                        *)
(***************************************************************************)
THEOREM RingKeepsUnreturned ==
    ASSUME Window <= BufferSize
    PROVE  Spec => KeepsUnreturned
  <1>1. RingInv /\ [Next]_vars =>
            [\A s \in Unreturned : data'[s] = data[s] \/ s \notin Unreturned']_vars
    BY KeepStep
  <1> QED
    BY <1>1, RingInvariant, PTL DEF Spec, KeepsUnreturned

(***************************************************************************)
(* The receive path implements the queue of serial.h, as far as safety     *)
(* goes: that every byte is handed out in the end is for TLC.              *)
(***************************************************************************)
THEOREM RingIsQueue ==
    ASSUME Window <= BufferSize
    PROVE  Spec => Queue!Safety
  <1>1. Init => Queue!Init
    <2> SUFFICES ASSUME Init PROVE RingBytes \o uart = <<>> /\ returned = <<>>
      BY DEF Queue!Init
    <2>1. Size(write, OldestIndex) = 0
      <3>1. 0 \in Int /\ 0 - 0 \in 0 .. IndexRange - 1 /\ 0 \in 0 .. IndexRange - 1
        BY Sizes
      <3>2. 0 % IndexRange = 0
        BY <3>1, Sizes, ModSmall
      <3> QED
        BY <3>2 DEF Size, OldestIndex, Init
    <2>2. RingBytes = <<>>
      BY <2>1 DEF RingBytes
    <2> QED
      BY <2>2 DEF Init
  <1>2. RingInv => QueueInv
    BY QueueBytes DEF QueueInv
  <1>3. RingInv /\ QueueInv /\ QueueInv' /\ [Next]_vars =>
            [Queue!Put \/ Queue!Get]_(Queue!vars)
    BY QueueStep
  <1> QED
    BY <1>1, <1>2, <1>3, RingInvariant, PTL DEF Spec, Queue!Safety
=============================================================================
