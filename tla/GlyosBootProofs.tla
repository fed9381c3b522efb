-------------------------- MODULE GlyosBootProofs --------------------------
(***************************************************************************)
(* Proofs about the GlyOS kernel, whatever the PIO's registers held at the *)
(* reset: its routines return, and its fill stays behind its stack.  The   *)
(* invariant says of each instruction of the program which calls are under *)
(* way there, where the stack is, which pages the ports select, and what   *)
(* the registers hold as far as later instructions need it.                *)
(***************************************************************************)
EXTENDS GlyosBoot, Arithmetic, SequenceTheorems

-----------------------------------------------------------------------------
(***************************************************************************)
(* Bytes as sets of bits.                                                  *)
(***************************************************************************)

LEMMA WeightsOfBits ==
    /\ Weight[0 + 1] = 1 /\ Weight[1 + 1] = 2 /\ Weight[2 + 1] = 4 /\ Weight[3 + 1] = 8
    /\ Weight[4 + 1] = 16 /\ Weight[5 + 1] = 32 /\ Weight[6 + 1] = 64 /\ Weight[7 + 1] = 128
  BY DEF Weight

LEMMA BitsOf ==
    ASSUME NEW n
    PROVE  Bits(n) \in Byte
  BY DEF Bits, Byte

\* The constants of the program.
LEMMA Constants ==
    /\ Bits(\hF3) = {0, 1, 4, 5, 6, 7} /\ Bits(\h0F) = {0, 1, 2, 3}
    /\ Bits(\hF0) = {4, 5, 6, 7} /\ Bits(\hAA) = {1, 3, 5, 7}
    /\ Bits(\h66) = {1, 2, 5, 6} /\ Bits(\h10) = {4}
    /\ Bits(\h01) = {0} /\ Bits(\h81) = {0, 7}
  BY WeightsOfBits DEF Bits, Bit

\* A byte's bits are those of its number.
LEMMA BitsOfNum ==
    ASSUME NEW b \in Byte
    PROVE  Num(b) \in 0 .. 255 /\ Bits(Num(b)) = b
  <1> DEFINE v(i) == IF i \in b THEN Weight[i + 1] ELSE 0
  <1>1. /\ v(0) \in {0, 1} /\ v(1) \in {0, 2} /\ v(2) \in {0, 4} /\ v(3) \in {0, 8}
        /\ v(4) \in {0, 16} /\ v(5) \in {0, 32} /\ v(6) \in {0, 64} /\ v(7) \in {0, 128}
    BY WeightsOfBits
  <1>2. /\ 0 \in b <=> v(0) = 1
        /\ 1 \in b <=> v(1) = 2
        /\ 2 \in b <=> v(2) = 4
        /\ 3 \in b <=> v(3) = 8
        /\ 4 \in b <=> v(4) = 16
        /\ 5 \in b <=> v(5) = 32
        /\ 6 \in b <=> v(6) = 64
        /\ 7 \in b <=> v(7) = 128
    BY WeightsOfBits
  <1>3. Num(b) = v(0) + v(1) + v(2) + v(3) + v(4) + v(5) + v(6) + v(7)
    BY DEF Num
  <1> DEFINE n == Num(b)
  <1> HIDE DEF v
  <1>4. n \in 0 .. 255
    BY <1>1, <1>3
  <1>5. /\ (n \div 1) % 2 = 1 <=> v(0) = 1
        /\ (n \div 2) % 2 = 1 <=> v(1) = 2
        /\ (n \div 4) % 2 = 1 <=> v(2) = 4
        /\ (n \div 8) % 2 = 1 <=> v(3) = 8
        /\ (n \div 16) % 2 = 1 <=> v(4) = 16
        /\ (n \div 32) % 2 = 1 <=> v(5) = 32
        /\ (n \div 64) % 2 = 1 <=> v(6) = 64
        /\ (n \div 128) % 2 = 1 <=> v(7) = 128
    BY <1>1, <1>3
  <1>6. \A i \in Bit : i \in Bits(n) <=> i \in b
    <2> HIDE DEF n
    <2> QED
      BY <1>2, <1>5, WeightsOfBits DEF Bits, Bit
  <1> QED
    BY <1>4, <1>6 DEF Bits, Byte

LEMMA OperationsOnBytes ==
    ASSUME NEW b \in Byte, NEW c \in Byte
    PROVE  /\ Exclusive(b, c) \in Byte /\ b \cap c \in Byte /\ b \cup c \in Byte
           /\ RotatedLeft(b) \in Byte /\ RotatedRight(b) \in Byte /\ ShiftedRight(b) \in Byte
  <1>1. \A i \in Bit : (i + 1) % 8 \in Bit /\ (i + 7) % 8 \in Bit /\ (i # 0 => i - 1 \in Bit)
    BY DEF Bit
  <1> QED
    BY <1>1 DEF Exclusive, RotatedLeft, RotatedRight, ShiftedRight, Byte

\* bitreverse in three steps: neighbours a bit apart are exchanged, then pairs.
Swapped(b) == Exclusive(Exclusive(RotatedLeft(RotatedLeft(b)), b) \cap Bits(\hAA), b)
Turned(b) == RotatedLeft(RotatedLeft(RotatedLeft(b)))
Joined(s) == Exclusive(Exclusive(Turned(s), RotatedRight(s)) \cap Bits(\h66), RotatedRight(s))
Reversed(b) == {7 - i : i \in b}

LEMMA RotatedBits ==
    ASSUME NEW b \in Byte, NEW i \in Bit
    PROVE  /\ i \in RotatedLeft(b) <=> (i + 7) % 8 \in b
           /\ i \in RotatedRight(b) <=> (i + 1) % 8 \in b
           /\ i \in Reversed(b) <=> 7 - i \in b
  <1>1. \A j \in b : j \in Bit
    BY DEF Byte
  <1>2. \A j \in Bit : /\ i = (j + 1) % 8 <=> j = (i + 7) % 8
                       /\ i = (j + 7) % 8 <=> j = (i + 1) % 8
                       /\ i = 7 - j <=> j = 7 - i
    BY DEF Bit
  <1> QED
    BY <1>1, <1>2 DEF RotatedLeft, RotatedRight, Reversed

LEMMA ReversesEveryByte ==
    ASSUME NEW b \in Byte
    PROVE  Joined(Swapped(b)) = Reversed(b)
  <1> DEFINE s == Swapped(b)
  <1>1. s \in Byte /\ RotatedLeft(b) \in Byte
    BY OperationsOnBytes, BitsOf DEF Swapped
  <1>2. \A i \in Bit : i \in s <=> IF i \in {1, 3, 5, 7} THEN (i + 6) % 8 \in b ELSE i \in b
    <2> SUFFICES ASSUME NEW i \in Bit
                 PROVE  i \in s <=> IF i \in {1, 3, 5, 7} THEN (i + 6) % 8 \in b ELSE i \in b
      OBVIOUS
    <2>1. (i + 7) % 8 \in Bit /\ (((i + 7) % 8) + 7) % 8 = (i + 6) % 8
      BY DEF Bit
    <2>2. i \in RotatedLeft(RotatedLeft(b)) <=> (i + 6) % 8 \in b
      BY <1>1, <2>1, RotatedBits
    <2> QED
      BY <2>2, Constants DEF Swapped, Exclusive
  <1> HIDE DEF s
  <1>3. \A i \in Bit : i \in RotatedRight(s) <=> (i + 1) % 8 \in s
    BY <1>1, RotatedBits
  <1>4. \A i \in Bit : i \in Turned(s) <=> (i + 5) % 8 \in s
    <2> SUFFICES ASSUME NEW i \in Bit
                 PROVE  i \in Turned(s) <=> (i + 5) % 8 \in s
      OBVIOUS
    <2>1. /\ (i + 7) % 8 \in Bit /\ (i + 6) % 8 \in Bit
          /\ (((i + 7) % 8) + 7) % 8 = (i + 6) % 8 /\ (((i + 6) % 8) + 7) % 8 = (i + 5) % 8
      BY DEF Bit
    <2>2. RotatedLeft(s) \in Byte /\ RotatedLeft(RotatedLeft(s)) \in Byte
      BY <1>1, OperationsOnBytes
    <2> QED
      BY <1>1, <2>1, <2>2, RotatedBits DEF Turned
  <1>5. \A i \in Bit : i \in Joined(s) <=> IF i \in {1, 2, 5, 6} THEN (i + 5) % 8 \in s
                                                               ELSE (i + 1) % 8 \in s
    BY <1>3, <1>4, Constants DEF Joined, Exclusive
  <1>6. \A i \in Bit : i \in Joined(s) <=> 7 - i \in b
    BY <1>2, <1>5 DEF Bit
  <1>7. \A i \in Bit : i \in Joined(s) <=> i \in Reversed(b)
    BY <1>6, RotatedBits
  <1>8. Joined(s) \in Byte /\ Reversed(b) \in Byte
    <2>1. Joined(s) \in Byte
      BY <1>1, OperationsOnBytes, BitsOf DEF Joined, Turned
    <2>2. \A i \in Bit : 7 - i \in Bit
      BY DEF Bit
    <2> QED
      BY <2>1, <2>2 DEF Reversed, Byte
  <1> QED
    BY <1>7, <1>8 DEF s, Byte

-----------------------------------------------------------------------------
(***************************************************************************)
(* What an instruction does.  Here(i): i is the next one.                  *)
(***************************************************************************)
Here(i) == pc[1] \in DOMAIN Program /\ Instruction = i
Onward == pc' = Following /\ UNCHANGED <<data, mode, stack, calls>>

Registers == [a : Byte, hl : Word, ix : Word, bc : Word, sp : Word, carry : BOOLEAN]
Modes == {"input", "mask_next", "output", "mixed"}
Typed == r \in Registers /\ data \in [Ports -> Byte] /\ mode \in [Ports -> Modes]

LEMMA Words == \A n : n \in Word <=> n \in Int /\ 0 <= n /\ n <= 65535
  <1> DEFINE top == 65535
  <1>1. Word = 0 .. top
    BY DEF Word
  <1> HIDE DEF top
  <1>2. \A n : n \in Word <=> n \in Int /\ 0 <= n /\ n <= top
    BY <1>1
  <1> QED
    BY <1>2 DEF top

\* l is the lower half of hl.
LEMMA LowerHalf ==
    ASSUME NEW hl \in Word, NEW b \in Byte
    PROVE  LET n == 256 * (hl \div 256) + Num(b)
           IN n \in Word /\ Bits(n % 256) = b
  <1> DEFINE m == Num(b)
             n == 256 * (hl \div 256) + m
  <1>1. m \in 0 .. 255 /\ Bits(m) = b
    BY BitsOfNum
  <1> HIDE DEF m
  <1>2. n \in Int /\ 0 <= n /\ n <= 65535 /\ n % 256 = m
    BY <1>1, Words
  <1> QED
    BY <1>1, <1>2, Words DEF m

\* An instruction that sets a, or l, to x.
SetsA(x) ==
    /\ Onward /\ Typed' /\ r'.a = x /\ L' = L
    /\ r'.hl = r.hl /\ r'.ix = r.ix /\ r'.bc = r.bc /\ r'.sp = r.sp
SetsL(x) ==
    /\ Onward /\ Typed' /\ L' = x
    /\ r'.a = r.a /\ r'.ix = r.ix /\ r'.bc = r.bc /\ r'.sp = r.sp

LEMMA SetA ==
    ASSUME Typed, Onward, NEW x \in Byte, r' = [r EXCEPT !.a = x]
    PROVE  SetsA(x)
  <1>1. r' \in Registers /\ data' = data /\ mode' = mode
    BY DEF Typed, Registers, Onward
  <1>2. /\ r'.a = x /\ r'.hl = r.hl /\ r'.ix = r.ix /\ r'.bc = r.bc /\ r'.sp = r.sp
    BY DEF Typed, Registers
  <1> QED
    BY <1>1, <1>2 DEF SetsA, Typed, L

LEMMA SetL ==
    ASSUME Typed, Onward, NEW x \in Byte, r' = WithL(x)
    PROVE  SetsL(x)
  <1> DEFINE n == 256 * (r.hl \div 256) + Num(x)
  <1>1. r' = [r EXCEPT !.hl = n] /\ data' = data /\ mode' = mode
    BY DEF WithL, Onward
  <1>2. r.hl \in Word
    BY DEF Typed, Registers
  <1>3. n \in Word /\ Bits(n % 256) = x
    BY <1>2, LowerHalf
  <1> HIDE DEF n
  <1>4. /\ r' \in Registers /\ r'.hl = n
        /\ r'.a = r.a /\ r'.ix = r.ix /\ r'.bc = r.bc /\ r'.sp = r.sp
    BY <1>1, <1>3 DEF Typed, Registers
  <1> QED
    BY <1>1, <1>3, <1>4 DEF SetsL, Typed, L

LEMMA BytesAtHand ==
    ASSUME Typed
    PROVE  r.a \in Byte /\ L \in Byte /\ \A p \in Ports : data[p] \in Byte
  BY BitsOf DEF Typed, Registers, L

LEMMA DoesLdA ==
    ASSUME Typed, Next, NEW n, Here(<<"ld_a", n>>)
    PROVE  SetsA(Bits(n))
  <1>1. Onward /\ r' = [r EXCEPT !.a = Bits(n)]
    BY DEF Next, Compute, Out, Control, StoreIx, Call, Ret, Jump, Is, Here, Operand, Onward
  <1> QED
    BY <1>1, SetA, BitsOf

LEMMA DoesAnd ==
    ASSUME Typed, Next, NEW n, Here(<<"and_n", n>>)
    PROVE  SetsA(r.a \cap Bits(n))
  <1>1. Onward /\ r' = [r EXCEPT !.a = @ \cap Bits(n)]
    BY DEF Next, Compute, Out, Control, StoreIx, Call, Ret, Jump, Is, Here, Operand, Onward
  <1> QED
    BY <1>1, SetA, BitsOf, BytesAtHand, OperationsOnBytes

LEMMA DoesOr ==
    ASSUME Typed, Next, Here(<<"or_l">>)
    PROVE  SetsA(r.a \cup L)
  <1>1. Onward /\ r' = [r EXCEPT !.a = @ \cup L]
    BY DEF Next, Compute, Out, Control, StoreIx, Call, Ret, Jump, Is, Here, Operand, Onward
  <1> QED
    BY <1>1, SetA, BytesAtHand, OperationsOnBytes

LEMMA DoesXorA ==
    ASSUME Typed, Next, Here(<<"xor", "a">>)
    PROVE  SetsA({})
  <1>1. Onward /\ r' = [r EXCEPT !.a = Exclusive(@, @)]
    BY DEF Next, Compute, Out, Control, StoreIx, Call, Ret, Jump, Is, Here, Operand, Onward
  <1>2. Exclusive(r.a, r.a) = {} /\ {} \in Byte
    BY DEF Exclusive, Byte
  <1> QED
    BY <1>1, <1>2, SetA

LEMMA DoesXorL ==
    ASSUME Typed, Next, Here(<<"xor", "l">>)
    PROVE  SetsA(Exclusive(r.a, L))
  <1>1. Onward /\ r' = [r EXCEPT !.a = Exclusive(@, L)]
    BY DEF Next, Compute, Out, Control, StoreIx, Call, Ret, Jump, Is, Here, Operand, Onward
  <1> QED
    BY <1>1, SetA, BytesAtHand, OperationsOnBytes

LEMMA DoesXor ==
    ASSUME Typed, Next, NEW n, Here(<<"xor_n", n>>)
    PROVE  SetsA(Exclusive(r.a, Bits(n)))
  <1>1. Onward /\ r' = [r EXCEPT !.a = Exclusive(@, Bits(n))]
    BY DEF Next, Compute, Out, Control, StoreIx, Call, Ret, Jump, Is, Here, Operand, Onward
  <1> QED
    BY <1>1, SetA, BitsOf, BytesAtHand, OperationsOnBytes

LEMMA DoesRlca ==
    ASSUME Typed, Next, Here(<<"rlca">>)
    PROVE  SetsA(RotatedLeft(r.a))
  <1>1. Onward /\ r' = [r EXCEPT !.a = RotatedLeft(@)]
    BY DEF Next, Compute, Out, Control, StoreIx, Call, Ret, Jump, Is, Here, Operand, Onward
  <1> QED
    BY <1>1, SetA, BytesAtHand, OperationsOnBytes

LEMMA DoesSrl ==
    ASSUME Typed, Next, Here(<<"srl_a">>)
    PROVE  SetsA(ShiftedRight(r.a))
  <1>1. Onward /\ r' = [r EXCEPT !.a = ShiftedRight(@)]
    BY DEF Next, Compute, Out, Control, StoreIx, Call, Ret, Jump, Is, Here, Operand, Onward
  <1> QED
    BY <1>1, SetA, BytesAtHand, OperationsOnBytes

LEMMA DoesIn ==
    ASSUME Typed, Next, NEW p \in Ports, Here(<<"in", p>>)
    PROVE  SetsA(data[p])
  <1>1. Onward /\ r' = [r EXCEPT !.a = data[p]]
    BY DEF Next, Compute, Out, Control, StoreIx, Call, Ret, Jump, Is, Here, Operand, Onward
  <1> QED
    BY <1>1, SetA, BytesAtHand

LEMMA DoesLdL ==
    ASSUME Typed, Next, Here(<<"ld_l_a">>)
    PROVE  SetsL(r.a)
  <1>1. Onward /\ r' = WithL(r.a)
    BY DEF Next, Compute, Out, Control, StoreIx, Call, Ret, Jump, Is, Here, Operand, Onward
  <1> QED
    BY <1>1, SetL, BytesAtHand

LEMMA DoesRrcL ==
    ASSUME Typed, Next, Here(<<"rrc_l">>)
    PROVE  SetsL(RotatedRight(L))
  <1>1. Onward /\ r' = WithL(RotatedRight(L))
    BY DEF Next, Compute, Out, Control, StoreIx, Call, Ret, Jump, Is, Here, Operand, Onward
  <1> QED
    BY <1>1, SetL, BytesAtHand, OperationsOnBytes

LEMMA DoesLdHl ==
    ASSUME Next, NEW n, Here(<<"ld_hl", n>>)
    PROVE  Onward /\ r' = [r EXCEPT !.hl = n]
  BY DEF Next, Compute, Out, Control, StoreIx, Call, Ret, Jump, Is, Here, Operand, Onward

LEMMA DoesLdIx ==
    ASSUME Next, NEW n, Here(<<"ld_ix", n>>)
    PROVE  Onward /\ r' = [r EXCEPT !.ix = n]
  BY DEF Next, Compute, Out, Control, StoreIx, Call, Ret, Jump, Is, Here, Operand, Onward

LEMMA DoesLdBc ==
    ASSUME Next, NEW n, Here(<<"ld_bc", n>>)
    PROVE  Onward /\ r' = [r EXCEPT !.bc = n]
  BY DEF Next, Compute, Out, Control, StoreIx, Call, Ret, Jump, Is, Here, Operand, Onward

LEMMA DoesLdSp ==
    ASSUME Next, NEW n, Here(<<"ld_sp", n>>)
    PROVE  Onward /\ r' = [r EXCEPT !.sp = n]
  BY DEF Next, Compute, Out, Control, StoreIx, Call, Ret, Jump, Is, Here, Operand, Onward

LEMMA DoesIncHl ==
    ASSUME Next, Here(<<"inc_hl">>)
    PROVE  Onward /\ r' = [r EXCEPT !.hl = Sum16(@ + 1)]
  BY DEF Next, Compute, Out, Control, StoreIx, Call, Ret, Jump, Is, Here, Operand, Onward

LEMMA DoesAddIx ==
    ASSUME Next, Here(<<"add_ix_bc">>)
    PROVE  /\ Onward
           /\ r' = [r EXCEPT !.ix = Sum16(@ + r.bc), !.carry = r.ix + r.bc > 65535]
  BY DEF Next, Compute, Out, Control, StoreIx, Call, Ret, Jump, Is, Here, Operand, Onward

LEMMA DoesOut ==
    ASSUME Next, NEW p, Here(<<"out", p>>)
    PROVE  pc' = Following /\ UNCHANGED <<r, mode, stack, calls>>
           /\ data' = [data EXCEPT ![p] = r.a]
  BY DEF Next, Compute, Out, Control, StoreIx, Call, Ret, Jump, Is, Here, Operand

LEMMA DoesControl ==
    ASSUME Next, NEW p, Here(<<"control", p>>)
    PROVE  /\ pc' = Following /\ UNCHANGED <<r, data, stack, calls>>
           /\ mode' = [mode EXCEPT ![p] =
                         IF @ = "mask_next" THEN IF r.a = {} THEN "output" ELSE "mixed"
                         ELSE IF r.a = Bits(\hF3) THEN "mask_next" ELSE @]
  BY DEF Next, Compute, Out, Control, StoreIx, Call, Ret, Jump, Is, Here, Operand

LEMMA DoesStore ==
    ASSUME Next, NEW n, Here(<<"store_ix", n>>)
    PROVE  /\ pc' = Following /\ UNCHANGED <<r, data, mode, calls>>
           /\ stack' = Stored(r.ix + n, "fill")
  BY DEF Next, Compute, Out, Control, StoreIx, Call, Ret, Jump, Is, Here, Operand

LEMMA DoesCall ==
    ASSUME Next, NEW f, Here(<<"call", f>>)
    PROVE  /\ stack' = Pushed(r.sp - 1, r.sp - 2) /\ r' = [r EXCEPT !.sp = @ - 2]
           /\ pc' = <<f, 1>> /\ calls' = Append(calls, Following)
           /\ UNCHANGED <<data, mode>>
  BY DEF Next, Compute, Out, Control, StoreIx, Call, Ret, Jump, Is, Here, Operand

LEMMA DoesRet ==
    ASSUME Next, Here(<<"ret">>)
    PROVE  /\ pc' = Popped /\ r' = [r EXCEPT !.sp = @ + 2]
           /\ calls' = SubSeq(calls, 1, Len(calls) - 1)
           /\ UNCHANGED <<data, mode, stack>>
  BY DEF Next, Compute, Out, Control, StoreIx, Call, Ret, Jump, Is, Here, Operand

LEMMA DoesJp ==
    ASSUME Next, NEW f, Here(<<"jp", f>>)
    PROVE  pc' = <<f, 1>> /\ UNCHANGED <<r, data, mode, stack, calls>>
  BY DEF Next, Compute, Out, Control, StoreIx, Call, Ret, Jump, Is, Here, Operand

LEMMA DoesJpC ==
    ASSUME Next, NEW f, Here(<<"jp_c", f>>)
    PROVE  /\ pc' = IF r.carry THEN <<f, 1>> ELSE Following
           /\ UNCHANGED <<r, data, mode, stack, calls>>
  BY DEF Next, Compute, Out, Control, StoreIx, Call, Ret, Jump, Is, Here, Operand

-----------------------------------------------------------------------------
(***************************************************************************)
(* The pages, and the stack in one of them.                                *)
(***************************************************************************)
Outputs == mode = [p \in Ports |-> "output"]
Upper(b) == b \cap {4, 5, 6, 7}
StackPage == Upper(data["B"]) = {4}     \* slot 2 has page 8
HighPage == Upper(data["A"]) = {7}      \* slot 3 has page 1
BothPages == data["A"] = {3, 7}         \* and so has slot 1

\* The n calls under way have a stack from 0x8100 downwards.
Ready(n) == Outputs /\ StackPage /\ r.sp = \h8100 - 2 * n

\* The c-th call has its two bytes there, and nothing was pushed elsewhere.
Saved(c) ==
    /\ <<8, 257 - 2 * c>> \in DOMAIN stack /\ <<8, 256 - 2 * c>> \in DOMAIN stack
    /\ stack[<<8, 257 - 2 * c>>] = <<"high", calls[c]>>
    /\ stack[<<8, 256 - 2 * c>>] = <<"low", calls[c]>>
Labels == DOMAIN Program
StackPlaces == {<<8, n>> : n \in 252 .. 255}
StackInv ==
    /\ calls \in Seq(Labels \X Nat)
    /\ DOMAIN stack \subseteq StackPlaces
    /\ \A c \in 1 .. Len(calls) : Saved(c)

LEMMA NumOfNibble ==
    ASSUME NEW b \in SUBSET (0 .. 3)
    PROVE  /\ b = {3} => Num(b) = 8
           /\ b = {0} => Num(b) = 1
  BY WeightsOfBits DEF Num

LEMMA PageOfStack ==
    ASSUME StackPage
    PROVE  Page(2) = 8
  <1> DEFINE b == {k \in 0 .. 3 : PinBit(0 + k) \in data["B"]}
  <1>1. \A k \in 0 .. 3 : PinBit(0 + k) \in data["B"] <=> PinBit(0 + k) \in Upper(data["B"])
    BY DEF PinBit, Upper
  <1>2. b = {3}
    BY <1>1 DEF StackPage, PinBit
  <1> QED
    BY <1>2, NumOfNibble DEF Page, Nibble

LEMMA PagesOfOthers ==
    ASSUME BothPages
    PROVE  Page(1) = 1 /\ Page(3) = 1
  <1>1. {k \in 0 .. 3 : PinBit(4 + k) \in data["A"]} = {0}
    BY DEF BothPages, PinBit
  <1>2. {k \in 0 .. 3 : PinBit(0 + k) \in data["A"]} = {0}
    BY DEF BothPages, PinBit
  <1> QED
    BY <1>1, <1>2, NumOfNibble DEF Page, Nibble

LEMMA StackPhysical ==
    ASSUME StackPage, NEW n \in 252 .. 255
    PROVE  Physical(\h8000 + n) = <<8, n>> /\ InRam(\h8000 + n)
  <1>1. (\h8000 + n) \div \h4000 = 2 /\ (\h8000 + n) % \h4000 = n
    OBVIOUS
  <1> QED
    BY <1>1, PageOfStack DEF Physical, InRam

\* A call pushes its return address on the stack.
LEMMA Pushes ==
    ASSUME Typed, StackInv, pc \in Labels \X Nat, NEW f, Here(<<"call", f>>), Next,
           NEW m \in {0, 1}, Len(calls) = m, Ready(m)
    PROVE  /\ Typed' /\ StackInv' /\ Ready(m + 1)'
           /\ pc' = <<f, 1>> /\ calls' = Append(calls, Following)
           /\ r'.a = r.a /\ L' = L /\ UNCHANGED data
  <1> DEFINE high == <<8, 255 - 2 * m>>
             low == <<8, 254 - 2 * m>>
  <1>1. /\ stack' = Pushed(r.sp - 1, r.sp - 2) /\ r' = [r EXCEPT !.sp = @ - 2]
        /\ pc' = <<f, 1>> /\ calls' = Append(calls, Following)
        /\ UNCHANGED <<data, mode>>
    BY DoesCall
  <1>2. /\ r.sp - 1 = \h8000 + (255 - 2 * m) /\ r.sp - 2 = \h8000 + (254 - 2 * m)
        /\ 255 - 2 * m \in 252 .. 255 /\ 254 - 2 * m \in 252 .. 255
    BY DEF Ready
  <1>3. /\ Physical(r.sp - 1) = high /\ InRam(r.sp - 1)
        /\ Physical(r.sp - 2) = low /\ InRam(r.sp - 2)
    BY <1>2, StackPhysical DEF Ready
  <1>4. stack' = [x \in DOMAIN stack \cup {high, low} |->
                    IF x = high THEN <<"high", Following>>
                    ELSE IF x = low THEN <<"low", Following>> ELSE stack[x]]
    <2> DEFINE ram == {w \in {r.sp - 1, r.sp - 2} : InRam(w)}
               places == DOMAIN stack \cup {Physical(w) : w \in ram}
    <2>1. stack' = [x \in places |->
                      IF x = Physical(r.sp - 1) THEN <<"high", Following>>
                      ELSE IF x = Physical(r.sp - 2) THEN <<"low", Following>> ELSE stack[x]]
      BY <1>1 DEF Pushed
    <2>2. places = DOMAIN stack \cup {high, low}
      <3>1. ram = {r.sp - 1, r.sp - 2}
        BY <1>3
      <3> HIDE DEF ram
      <3>2. {Physical(w) : w \in ram} = {Physical(r.sp - 1), Physical(r.sp - 2)}
        BY <3>1
      <3> QED
        BY <1>3, <3>2
    <2> HIDE DEF places
    <2> QED
      BY <1>3, <2>1, <2>2
  <1>5. Typed' /\ Ready(m + 1)' /\ r'.a = r.a /\ L' = L
    <2>1. r.sp - 2 \in Word /\ r.sp - 2 = \h8100 - 2 * (m + 1)
      BY Words DEF Ready
    <2>2. /\ r' \in Registers /\ r'.sp = r.sp - 2 /\ r'.a = r.a /\ r'.hl = r.hl
      BY <1>1, <2>1 DEF Typed, Registers
    <2>3. Typed' /\ L' = L
      BY <1>1, <2>2 DEF Typed, L
    <2>4. Outputs' /\ StackPage'
      <3>1. data' = data /\ mode' = mode
        BY <1>1, Zenon
      <3> QED
        BY <3>1 DEF Ready, Outputs, StackPage
    <2> QED
      BY <2>1, <2>2, <2>3, <2>4 DEF Ready
  <1>6. DOMAIN stack' \subseteq StackPlaces
    BY <1>2, <1>4 DEF StackInv, StackPlaces
  <1>7. Len(calls') = m + 1 /\ calls'[m + 1] = Following /\ \A c \in 1 .. m : calls'[c] = calls[c]
    BY <1>1 DEF StackInv
  <1>8. Saved(m + 1)'
    <2>1. <<8, 257 - 2 * (m + 1)>> = high /\ <<8, 256 - 2 * (m + 1)>> = low /\ high # low
      OBVIOUS
    <2> QED
      BY <1>4, <1>7, <2>1 DEF Saved
  <1>9. ASSUME NEW c \in 1 .. m PROVE Saved(c)'
    <2>1. c = 1 /\ m = 1
      OBVIOUS
    <2>2. Saved(c)
      BY DEF StackInv
    <2>3. <<8, 257 - 2 * c>> \notin {high, low} /\ <<8, 256 - 2 * c>> \notin {high, low}
      BY <2>1
    <2>4. ASSUME NEW x \in DOMAIN stack, x \notin {high, low}
          PROVE  x \in DOMAIN stack' /\ stack'[x] = stack[x]
      BY <1>4, <2>4
    <2> DEFINE h == <<8, 257 - 2 * c>>
               l == <<8, 256 - 2 * c>>
    <2>5. h \in DOMAIN stack /\ l \in DOMAIN stack
      BY <2>2 DEF Saved
    <2>6. /\ h \in DOMAIN stack' /\ stack'[h] = stack[h]
          /\ l \in DOMAIN stack' /\ stack'[l] = stack[l]
      <3> HIDE DEF h, l
      <3> QED
        BY <2>3, <2>4, <2>5 DEF h, l
    <2>7. stack[h] = <<"high", calls[c]>> /\ stack[l] = <<"low", calls[c]>>
      BY <2>2 DEF Saved
    <2>8. calls'[c] = calls[c]
      BY <1>7
    <2> QED
      BY <2>6, <2>7, <2>8 DEF Saved
  <1>10. StackInv'
    <2>1. calls' \in Seq(Labels \X Nat)
      <3>1. Following \in Labels \X Nat
        BY DEF Following, Here, Labels, StackInv
      <3> QED
        BY <1>1, <3>1 DEF StackInv
    <2>2. \A c \in 1 .. Len(calls') : c \in 1 .. m \/ c = m + 1
      BY <1>7
    <2> QED
      BY <1>6, <1>8, <1>9, <2>1, <2>2 DEF StackInv
  <1> QED
    BY <1>1, <1>5, <1>10

\* A return takes the last of them from it.
LEMMA Pops ==
    ASSUME Typed, StackInv, Here(<<"ret">>), Next,
           NEW m \in {1, 2}, Len(calls) = m, Ready(m)
    PROVE  /\ Typed' /\ StackInv' /\ Ready(m - 1)'
           /\ pc' = calls[m] /\ calls' = SubSeq(calls, 1, m - 1)
           /\ r'.a = r.a /\ L' = L /\ UNCHANGED data
  <1> DEFINE high == <<8, 257 - 2 * m>>
             low == <<8, 256 - 2 * m>>
  <1>1. /\ pc' = Popped /\ r' = [r EXCEPT !.sp = @ + 2]
        /\ calls' = SubSeq(calls, 1, m - 1)
        /\ UNCHANGED <<data, mode, stack>>
    BY DoesRet
  <1>2. /\ r.sp + 1 = \h8000 + (257 - 2 * m) /\ r.sp = \h8000 + (256 - 2 * m)
        /\ 257 - 2 * m \in 252 .. 255 /\ 256 - 2 * m \in 252 .. 255
    BY DEF Ready
  <1>3. Physical(r.sp + 1) = high /\ Physical(r.sp) = low
    BY <1>2, StackPhysical DEF Ready
  <1>4. At(r.sp + 1) = <<"high", calls[m]>> /\ At(r.sp) = <<"low", calls[m]>>
    <2>1. Saved(m)
      BY DEF StackInv
    <2> QED
      BY <1>3, <2>1 DEF At, Saved
  <1>5. Popped = calls[m]
    BY <1>4 DEF Popped
  <1>6. Typed' /\ Ready(m - 1)' /\ r'.a = r.a /\ L' = L
    <2>1. r.sp + 2 \in Word /\ r.sp + 2 = \h8100 - 2 * (m - 1)
      BY Words DEF Ready
    <2>2. /\ r' \in Registers /\ r'.sp = r.sp + 2 /\ r'.a = r.a /\ r'.hl = r.hl
      BY <1>1, <2>1 DEF Typed, Registers
    <2>3. Typed' /\ L' = L
      BY <1>1, <2>2 DEF Typed, L
    <2>4. Outputs' /\ StackPage'
      BY <1>1 DEF Ready, Outputs, StackPage, Upper
    <2> QED
      BY <2>1, <2>2, <2>3, <2>4 DEF Ready
  <1>7. /\ calls' \in Seq(Labels \X Nat) /\ Len(calls') = m - 1
        /\ \A c \in 1 .. m - 1 : calls'[c] = calls[c]
    BY <1>1 DEF StackInv
  <1>8. StackInv'
    <2>1. ASSUME NEW c \in 1 .. m - 1
          PROVE  Saved(c)'
      <3>1. Saved(c) /\ calls'[c] = calls[c] /\ stack' = stack
        BY <1>1, <1>7 DEF StackInv
      <3> QED
        BY <3>1 DEF Saved
    <2> QED
      BY <1>1, <1>7, <2>1 DEF StackInv
  <1> QED
    BY <1>1, <1>5, <1>6, <1>8

-----------------------------------------------------------------------------
(***************************************************************************)
(* bitreverse and the routines that call it, instruction by instruction.   *)
(***************************************************************************)
LEMMA AtPlace ==
    ASSUME NEW label \in DOMAIN Program, NEW k, pc = <<label, k>>
    PROVE  Following = <<label, k + 1>> /\ Here(Program[label][k])
  BY DEF Following, Here, Instruction

LEMMA Frame ==
    ASSUME StackInv, Onward, r'.sp = r.sp, NEW n
    PROVE  /\ StackInv' /\ (Ready(n) => Ready(n)')
           /\ pc' = Following /\ calls' = calls /\ data' = data
  <1>1. pc' = Following /\ calls' = calls /\ data' = data /\ mode' = mode /\ stack' = stack
    BY DEF Onward
  <1>2. StackInv'
    <2>1. ASSUME NEW c \in 1 .. Len(calls)
          PROVE  Saved(c)'
      <3>1. Saved(c)
        BY DEF StackInv
      <3> QED
        BY <1>1, <3>1 DEF Saved
    <2> QED
      BY <1>1, <2>1 DEF StackInv
  <1>3. Ready(n) => Ready(n)'
    BY <1>1 DEF Ready, Outputs, StackPage
  <1> QED
    BY <1>1, <1>2, <1>3

\* a and l before each instruction of bitreverse, called with b in a.
AccuOf(b) ==
    LET s == Swapped(b)
        t == RotatedRight(s)
    IN << b, b, RotatedLeft(b), RotatedLeft(RotatedLeft(b)),
          Exclusive(RotatedLeft(RotatedLeft(b)), b),
          Exclusive(RotatedLeft(RotatedLeft(b)), b) \cap Bits(\hAA),
          s, s, RotatedLeft(s), RotatedLeft(RotatedLeft(s)), Turned(s), Turned(s),
          Exclusive(Turned(s), t), Exclusive(Turned(s), t) \cap Bits(\h66), Joined(s) >>
LowerOf(b) ==
    LET s == Swapped(b)
        t == RotatedRight(s)
    IN << {}, b, b, b, b, b, b, s, s, s, s, t, t, t, t >>
ReverseAt(k, b) == r.a = AccuOf(b)[k] /\ (k # 1 => L = LowerOf(b)[k])

LEMMA ReverseStep ==
    ASSUME Typed, Next, NEW b, NEW k \in 1 .. 14,
           pc = <<"bitreverse", k>>, ReverseAt(k, b)
    PROVE  Typed' /\ Onward /\ r'.sp = r.sp /\ ReverseAt(k + 1, b)'
  <1>1. Here(bitreverse[k])
    BY AtPlace DEF Program
  <1>2. CASE k = 1
    <2>1. SetsL(r.a)
      BY <1>1, <1>2, DoesLdL DEF bitreverse
    <2> QED
      BY <1>2, <2>1 DEF SetsL, ReverseAt, AccuOf, LowerOf
  <1>3. CASE k = 2
    <2>1. SetsA(RotatedLeft(r.a))
      BY <1>1, <1>3, DoesRlca DEF bitreverse
    <2> QED
      BY <1>3, <2>1 DEF SetsA, ReverseAt, AccuOf, LowerOf
  <1>4. CASE k = 3
    <2>1. SetsA(RotatedLeft(r.a))
      BY <1>1, <1>4, DoesRlca DEF bitreverse
    <2> QED
      BY <1>4, <2>1 DEF SetsA, ReverseAt, AccuOf, LowerOf
  <1>5. CASE k = 4
    <2>1. SetsA(Exclusive(r.a, L))
      BY <1>1, <1>5, DoesXorL DEF bitreverse
    <2> QED
      BY <1>5, <2>1 DEF SetsA, ReverseAt, AccuOf, LowerOf
  <1>6. CASE k = 5
    <2>1. SetsA(r.a \cap Bits(\hAA))
      BY <1>1, <1>6, DoesAnd DEF bitreverse
    <2> QED
      BY <1>6, <2>1 DEF SetsA, ReverseAt, AccuOf, LowerOf
  <1>7. CASE k = 6
    <2>1. SetsA(Exclusive(r.a, L))
      BY <1>1, <1>7, DoesXorL DEF bitreverse
    <2> QED
      BY <1>7, <2>1 DEF SetsA, ReverseAt, AccuOf, LowerOf, Swapped
  <1>8. CASE k = 7
    <2>1. SetsL(r.a)
      BY <1>1, <1>8, DoesLdL DEF bitreverse
    <2> QED
      BY <1>8, <2>1 DEF SetsL, ReverseAt, AccuOf, LowerOf
  <1>9. CASE k = 8
    <2>1. SetsA(RotatedLeft(r.a))
      BY <1>1, <1>9, DoesRlca DEF bitreverse
    <2> QED
      BY <1>9, <2>1 DEF SetsA, ReverseAt, AccuOf, LowerOf
  <1>10. CASE k = 9
    <2>1. SetsA(RotatedLeft(r.a))
      BY <1>1, <1>10, DoesRlca DEF bitreverse
    <2> QED
      BY <1>10, <2>1 DEF SetsA, ReverseAt, AccuOf, LowerOf
  <1>11. CASE k = 10
    <2>1. SetsA(RotatedLeft(r.a))
      BY <1>1, <1>11, DoesRlca DEF bitreverse
    <2> QED
      BY <1>11, <2>1 DEF SetsA, ReverseAt, AccuOf, LowerOf, Turned
  <1>12. CASE k = 11
    <2>1. SetsL(RotatedRight(L))
      BY <1>1, <1>12, DoesRrcL DEF bitreverse
    <2> QED
      BY <1>12, <2>1 DEF SetsL, ReverseAt, AccuOf, LowerOf
  <1>13. CASE k = 12
    <2>1. SetsA(Exclusive(r.a, L))
      BY <1>1, <1>13, DoesXorL DEF bitreverse
    <2> QED
      BY <1>13, <2>1 DEF SetsA, ReverseAt, AccuOf, LowerOf
  <1>14. CASE k = 13
    <2>1. SetsA(r.a \cap Bits(\h66))
      BY <1>1, <1>14, DoesAnd DEF bitreverse
    <2> QED
      BY <1>14, <2>1 DEF SetsA, ReverseAt, AccuOf, LowerOf
  <1>15. CASE k = 14
    <2>1. SetsA(Exclusive(r.a, L))
      BY <1>1, <1>15, DoesXorL DEF bitreverse
    <2> QED
      BY <1>15, <2>1 DEF SetsA, ReverseAt, AccuOf, LowerOf, Joined
  <1> QED
    BY <1>2, <1>3, <1>4, <1>5, <1>6, <1>7, <1>8, <1>9, <1>10, <1>11, <1>12, <1>13, <1>14, <1>15

\* The part of setpage3 and setportc behind the call, b being what it returned.
Shifted(b) == ShiftedRight(ShiftedRight(ShiftedRight(ShiftedRight(b))))
NibbleAt(k, port, b) ==
    /\ k = 2 => r.a = b
    /\ k = 3 => r.a = ShiftedRight(b)
    /\ k = 4 => r.a = ShiftedRight(ShiftedRight(b))
    /\ k = 5 => r.a = ShiftedRight(ShiftedRight(ShiftedRight(b)))
    /\ k = 6 => r.a = Shifted(b)
    /\ k \in 7 .. 9 => L = Shifted(b)
    /\ k = 8 => r.a = data[port]
    /\ k = 9 => r.a = Upper(data[port])
    /\ k = 10 => r.a = Upper(data[port]) \cup Shifted(b)

LEMMA NibbleStep ==
    ASSUME Typed, Next, NEW label \in DOMAIN Program, NEW port \in Ports,
           Program[label] = LowerNibble(port),
           NEW b, NEW k \in 2 .. 9, pc = <<label, k>>, NibbleAt(k, port, b)
    PROVE  Typed' /\ Onward /\ r'.sp = r.sp /\ NibbleAt(k + 1, port, b)'
  <1>1. Here(LowerNibble(port)[k])
    BY AtPlace
  <1>2. CASE k = 2
    <2>1. SetsA(ShiftedRight(r.a))
      BY <1>1, <1>2, DoesSrl DEF LowerNibble
    <2> QED
      BY <1>2, <2>1 DEF SetsA, NibbleAt
  <1>3. CASE k = 3
    <2>1. SetsA(ShiftedRight(r.a))
      BY <1>1, <1>3, DoesSrl DEF LowerNibble
    <2> QED
      BY <1>3, <2>1 DEF SetsA, NibbleAt
  <1>4. CASE k = 4
    <2>1. SetsA(ShiftedRight(r.a))
      BY <1>1, <1>4, DoesSrl DEF LowerNibble
    <2> QED
      BY <1>4, <2>1 DEF SetsA, NibbleAt
  <1>5. CASE k = 5
    <2>1. SetsA(ShiftedRight(r.a))
      BY <1>1, <1>5, DoesSrl DEF LowerNibble
    <2> QED
      BY <1>5, <2>1 DEF SetsA, NibbleAt, Shifted
  <1>6. CASE k = 6
    <2>1. SetsL(r.a)
      BY <1>1, <1>6, DoesLdL DEF LowerNibble
    <2> QED
      BY <1>6, <2>1 DEF SetsL, NibbleAt
  <1>7. CASE k = 7
    <2>1. SetsA(data[port])
      BY <1>1, <1>7, DoesIn DEF LowerNibble
    <2> QED
      BY <1>7, <2>1 DEF SetsA, NibbleAt, Onward
  <1>8. CASE k = 8
    <2>1. SetsA(r.a \cap Bits(\hF0))
      BY <1>1, <1>8, DoesAnd DEF LowerNibble
    <2> QED
      BY <1>8, <2>1, Constants DEF SetsA, NibbleAt, Upper, Onward
  <1>9. CASE k = 9
    <2>1. SetsA(r.a \cup L)
      BY <1>1, <1>9, DoesOr DEF LowerNibble
    <2> QED
      BY <1>9, <2>1 DEF SetsA, NibbleAt, Onward
  <1> QED
    BY <1>2, <1>3, <1>4, <1>5, <1>6, <1>7, <1>8, <1>9

-----------------------------------------------------------------------------
(***************************************************************************)
(* The places of the routines, each with the calls under way there.        *)
(***************************************************************************)
Routines == {"setpage1", "setpage3", "setportc"}
Back(f) == <<"boot", IF f = "setpage1" THEN 16 ELSE IF f = "setpage3" THEN 18 ELSE 20>>
Inside(f) == <<f, IF f = "setpage1" THEN 3 ELSE 2>>
Given(f) == IF f = "setpage1" THEN {0} ELSE IF f = "setpage3" THEN {0, 7} ELSE {0, 1, 2, 3}
PortOf(f) == IF f = "setportc" THEN "B" ELSE "A"

\* What a routine finds set, and what it leaves set.
Before(f) == /\ f = "setpage3" => HighPage
             /\ f = "setportc" => BothPages
After(f) == IF f = "setpage1" THEN HighPage ELSE BothPages

InReverse(f) == \E k \in 1 .. 15 :
    /\ pc = <<"bitreverse", k>> /\ calls = <<Back(f), Inside(f)>>
    /\ Ready(2) /\ Before(f) /\ ReverseAt(k, Given(f))

InNibble(f) == \E k \in 1 .. 11 :
    /\ pc = <<f, k>> /\ calls = <<Back(f)>> /\ Ready(1)
    /\ IF k = 11 THEN After(f) ELSE Before(f)
    /\ k = 1 => r.a = Given(f)
    /\ k \in 2 .. 10 => NibbleAt(k, PortOf(f), Reversed(Given(f)))

InSetpage1 == \E k \in 1 .. 8 :
    /\ pc = <<"setpage1", k>> /\ calls = <<Back("setpage1")>> /\ Ready(1)
    /\ k \in {1, 2} => r.a = {0}
    /\ k = 3 => r.a = {7}
    /\ k \in 4 .. 6 => L = {7}
    /\ k = 6 => Upper(r.a) = {}
    /\ k = 7 => Upper(r.a) = {7}
    /\ k = 8 => HighPage

LEMMA ReversedGiven ==
    /\ \A f \in Routines : Given(f) \in Byte
    /\ Reversed(Given("setpage1")) = {7}
    /\ Shifted(Reversed(Given("setpage3"))) = {3}
    /\ Shifted(Reversed(Given("setportc"))) = {0, 1, 2, 3}
  <1>1. /\ Reversed({0}) = {7} /\ Reversed({0, 7}) = {0, 7}
        /\ Reversed({0, 1, 2, 3}) = {4, 5, 6, 7}
    BY DEF Reversed
  <1>2. /\ ShiftedRight({0, 7}) = {6} /\ ShiftedRight({6}) = {5}
        /\ ShiftedRight({5}) = {4} /\ ShiftedRight({4}) = {3}
    BY DEF ShiftedRight
  <1>3. /\ ShiftedRight({4, 5, 6, 7}) = {3, 4, 5, 6} /\ ShiftedRight({3, 4, 5, 6}) = {2, 3, 4, 5}
        /\ ShiftedRight({2, 3, 4, 5}) = {1, 2, 3, 4} /\ ShiftedRight({1, 2, 3, 4}) = {0, 1, 2, 3}
    BY DEF ShiftedRight
  <1>4. Shifted({0, 7}) = {3} /\ Shifted({4, 5, 6, 7}) = {0, 1, 2, 3}
    BY <1>2, <1>3 DEF Shifted
  <1> QED
    BY <1>1, <1>4 DEF Given, Routines, Byte, Bit

LEMMA CallsSeq ==
    ASSUME NEW a, NEW b
    PROVE  /\ Len(<<a>>) = 1 /\ <<a>>[1] = a /\ Append(<<>>, a) = <<a>>
           /\ Len(<<a, b>>) = 2 /\ <<a, b>>[2] = b /\ Append(<<a>>, b) = <<a, b>>
           /\ SubSeq(<<a, b>>, 1, 1) = <<a>> /\ SubSeq(<<a>>, 1, 0) = <<>>
  <1> DEFINE S == {a, b}
             one == <<a>>
             two == <<a, b>>
             longer == Append(one, b)
             shorter == SubSeq(two, 1, 1)
  <1>1. one \in Seq(S) /\ Len(one) = 1 /\ one[1] = a /\ SubSeq(one, 1, 0) = <<>>
    OBVIOUS
  <1>2. two \in Seq(S) /\ Len(two) = 2 /\ two[1] = a /\ two[2] = b
    OBVIOUS
  <1>3. Append(<<>>, a) = one /\ b \in S
    OBVIOUS
  <1> HIDE DEF one, two, S
  <1>4. longer \in Seq(S) /\ Len(longer) = 2 /\ longer[2] = b
    BY <1>1, <1>3, AppendProperties
  <1>5. longer[1] = a
    BY <1>1, <1>3, AppendProperties
  <1>6. shorter \in Seq(S) /\ Len(shorter) = 1 /\ shorter[1] = a
    BY <1>2 DEF S
  <1> HIDE DEF longer, shorter
  <1>7. \A i \in 1 .. 2 : i = 1 \/ i = 2
    OBVIOUS
  <1>8. longer = two
    BY <1>2, <1>4, <1>5, <1>7, SeqEqual
  <1>9. shorter = one
    BY <1>1, <1>6, SeqEqual
  <1> QED
    BY <1>1, <1>2, <1>3, <1>8, <1>9 DEF one, two, longer, shorter

\* It comes back with the bits in reverse, to the routine that called it.
LEMMA InReverseStep ==
    ASSUME Typed, StackInv, Next, NEW f \in Routines, InReverse(f)
    PROVE  /\ Typed' /\ StackInv'
           /\ InReverse(f)' \/ InSetpage1' \/ (f # "setpage1" /\ InNibble(f)')
  <1>1. PICK k \in 1 .. 15 :
            /\ pc = <<"bitreverse", k>> /\ calls = <<Back(f), Inside(f)>>
            /\ Ready(2) /\ Before(f) /\ ReverseAt(k, Given(f))
    BY DEF InReverse
  <1>2. CASE k \in 1 .. 14
    <2>1. Typed' /\ Onward /\ r'.sp = r.sp /\ ReverseAt(k + 1, Given(f))'
      BY <1>1, <1>2, ReverseStep
    <2>2. Following = <<"bitreverse", k + 1>>
      BY <1>1, AtPlace DEF Program
    <2>3. StackInv' /\ Ready(2)' /\ pc' = Following /\ calls' = calls /\ data' = data
      BY <1>1, <2>1, Frame
    <2>4. Before(f)'
      BY <1>1, <2>3 DEF Before, HighPage, BothPages
    <2> QED
      BY <1>1, <1>2, <2>1, <2>2, <2>3, <2>4 DEF InReverse
  <1>3. CASE k = 15
    <2>1. Here(<<"ret">>)
      BY <1>1, <1>3, AtPlace DEF Program, bitreverse
    <2>2. Len(calls) = 2 /\ calls[2] = Inside(f) /\ SubSeq(calls, 1, 2 - 1) = <<Back(f)>>
      <3>1. 2 - 1 = 1
        OBVIOUS
      <3> QED
        BY <1>1, <3>1, CallsSeq
    <2>3. /\ Typed' /\ StackInv' /\ Ready(1)' /\ pc' = Inside(f) /\ calls' = <<Back(f)>>
          /\ r'.a = r.a /\ data' = data
      BY <1>1, <2>1, <2>2, Pops
    <2>4. r.a = Reversed(Given(f))
      <3>1. r.a = Joined(Swapped(Given(f)))
        BY <1>1, <1>3 DEF ReverseAt, AccuOf
      <3> QED
        BY <3>1, ReversedGiven, ReversesEveryByte
    <2>5. Before(f)'
      BY <1>1, <2>3 DEF Before, HighPage, BothPages
    <2>6. CASE f = "setpage1"
      <3>1. pc' = <<"setpage1", 3>> /\ r'.a = {7}
        BY <2>3, <2>4, <2>6, ReversedGiven DEF Inside
      <3>2. InSetpage1'
        BY <2>3, <2>6, <3>1 DEF InSetpage1
      <3> QED
        BY <2>3, <3>2
    <2>7. CASE f # "setpage1"
      <3>1. pc' = <<f, 2>>
        BY <2>3, <2>7 DEF Inside
      <3>2. NibbleAt(2, PortOf(f), Reversed(Given(f)))'
        BY <2>3, <2>4 DEF NibbleAt
      <3>3. InNibble(f)'
        BY <2>3, <2>5, <3>1, <3>2 DEF InNibble
      <3> QED
        BY <2>3, <2>7, <3>3
    <2> QED
      BY <2>6, <2>7
  <1> QED
    BY <1>2, <1>3

\* The routines themselves.
LEMMA SameStack ==
    ASSUME StackInv, stack' = stack, calls' = calls
    PROVE  StackInv'
  <1>1. ASSUME NEW c \in 1 .. Len(calls)
        PROVE  Saved(c)'
    <2>1. Saved(c)
      BY DEF StackInv
    <2> QED
      BY <2>1 DEF Saved
  <1> QED
    BY <1>1 DEF StackInv

LEMMA PortWritten ==
    ASSUME Typed, StackInv, Next, NEW p \in Ports, Here(<<"out", p>>)
    PROVE  /\ Typed' /\ StackInv' /\ pc' = Following /\ UNCHANGED <<r, mode, calls>>
           /\ data'[p] = r.a /\ \A q \in Ports \ {p} : data'[q] = data[q]
  <1>1. /\ pc' = Following /\ UNCHANGED <<r, mode, stack, calls>>
        /\ data' = [data EXCEPT ![p] = r.a]
    BY DoesOut
  <1>2. data' \in [Ports -> Byte] /\ data'[p] = r.a /\ \A q \in Ports \ {p} : data'[q] = data[q]
    BY <1>1, BytesAtHand DEF Typed
  <1> QED
    BY <1>1, <1>2, SameStack DEF Typed

LEMMA ControlWord ==
    ASSUME Typed, StackInv, Next, NEW p \in Ports, Here(<<"control", p>>)
    PROVE  /\ Typed' /\ StackInv' /\ pc' = Following /\ UNCHANGED <<r, data, calls>>
           /\ \A q \in Ports \ {p} : mode'[q] = mode[q]
           /\ mode[p] = "mask_next" /\ r.a = {} => mode'[p] = "output"
           /\ mode[p] # "mask_next" /\ r.a = Bits(\hF3) => mode'[p] = "mask_next"
  <1>1. /\ pc' = Following /\ UNCHANGED <<r, data, stack, calls>>
        /\ mode' = [mode EXCEPT ![p] =
                      IF @ = "mask_next" THEN IF r.a = {} THEN "output" ELSE "mixed"
                      ELSE IF r.a = Bits(\hF3) THEN "mask_next" ELSE @]
    BY DoesControl
  <1>2. mode' \in [Ports -> Modes] /\ \A q \in Ports \ {p} : mode'[q] = mode[q]
    BY <1>1 DEF Typed, Modes
  <1>3. /\ mode[p] = "mask_next" /\ r.a = {} => mode'[p] = "output"
        /\ mode[p] # "mask_next" /\ r.a = Bits(\hF3) => mode'[p] = "mask_next"
    BY <1>1 DEF Typed
  <1> QED
    BY <1>1, <1>2, <1>3, SameStack DEF Typed

LEMMA LoadsHl ==
    ASSUME Typed, StackInv, Next, NEW n \in Word, Here(<<"ld_hl", n>>)
    PROVE  /\ Typed' /\ StackInv' /\ pc' = Following /\ UNCHANGED <<data, mode, calls>>
           /\ r'.hl = n /\ r'.a = r.a /\ r'.ix = r.ix /\ r'.bc = r.bc /\ r'.sp = r.sp
  <1>1. Onward /\ r' = [r EXCEPT !.hl = n]
    BY DoesLdHl
  <1>2. r' \in Registers /\ r'.hl = n /\ r'.a = r.a /\ r'.ix = r.ix /\ r'.bc = r.bc /\ r'.sp = r.sp
    BY <1>1 DEF Typed, Registers
  <1> QED
    BY <1>1, <1>2, SameStack DEF Typed, Onward

LEMMA LoadsIx ==
    ASSUME Typed, StackInv, Next, NEW n \in Word, Here(<<"ld_ix", n>>)
    PROVE  /\ Typed' /\ StackInv' /\ pc' = Following /\ UNCHANGED <<data, mode, calls>>
           /\ r'.ix = n /\ r'.a = r.a /\ r'.hl = r.hl /\ r'.bc = r.bc /\ r'.sp = r.sp
  <1>1. Onward /\ r' = [r EXCEPT !.ix = n]
    BY DoesLdIx
  <1>2. r' \in Registers /\ r'.ix = n /\ r'.a = r.a /\ r'.hl = r.hl /\ r'.bc = r.bc /\ r'.sp = r.sp
    BY <1>1 DEF Typed, Registers
  <1> QED
    BY <1>1, <1>2, SameStack DEF Typed, Onward

LEMMA LoadsBc ==
    ASSUME Typed, StackInv, Next, NEW n \in Word, Here(<<"ld_bc", n>>)
    PROVE  /\ Typed' /\ StackInv' /\ pc' = Following /\ UNCHANGED <<data, mode, calls>>
           /\ r'.bc = n /\ r'.a = r.a /\ r'.hl = r.hl /\ r'.ix = r.ix /\ r'.sp = r.sp
  <1>1. Onward /\ r' = [r EXCEPT !.bc = n]
    BY DoesLdBc
  <1>2. r' \in Registers /\ r'.bc = n /\ r'.a = r.a /\ r'.hl = r.hl /\ r'.ix = r.ix /\ r'.sp = r.sp
    BY <1>1 DEF Typed, Registers
  <1> QED
    BY <1>1, <1>2, SameStack DEF Typed, Onward

LEMMA LoadsSp ==
    ASSUME Typed, StackInv, Next, NEW n \in Word, Here(<<"ld_sp", n>>)
    PROVE  /\ Typed' /\ StackInv' /\ pc' = Following /\ UNCHANGED <<data, mode, calls>>
           /\ r'.sp = n /\ r'.a = r.a /\ r'.hl = r.hl /\ r'.ix = r.ix /\ r'.bc = r.bc
  <1>1. Onward /\ r' = [r EXCEPT !.sp = n]
    BY DoesLdSp
  <1>2. r' \in Registers /\ r'.sp = n /\ r'.a = r.a /\ r'.hl = r.hl /\ r'.ix = r.ix /\ r'.bc = r.bc
    BY <1>1 DEF Typed, Registers
  <1> QED
    BY <1>1, <1>2, SameStack DEF Typed, Onward

\* They come back to boot with the pages set.
Returned(f) == /\ pc = Back(f) /\ calls = <<>> /\ Ready(0) /\ After(f)

LEMMA ReturnsFrom ==
    ASSUME Typed, StackInv, Next, NEW f \in Routines, Here(<<"ret">>),
           calls = <<Back(f)>>, Ready(1), After(f)
    PROVE  Typed' /\ StackInv' /\ Returned(f)'
  <1>1. Len(calls) = 1 /\ calls[1] = Back(f) /\ SubSeq(calls, 1, 1 - 1) = <<>>
    <2>1. 1 - 1 = 0
      OBVIOUS
    <2> QED
      BY <2>1, CallsSeq
  <1>2. /\ Typed' /\ StackInv' /\ Ready(0)' /\ pc' = Back(f) /\ calls' = <<>> /\ data' = data
    BY <1>1, Pops
  <1> QED
    BY <1>2 DEF Returned, After, HighPage, BothPages

LEMMA CallsBitreverse ==
    ASSUME Typed, StackInv, Next, NEW f \in Routines, Here(<<"call", "bitreverse">>),
           Following = Inside(f), pc \in Labels \X Nat,
           calls = <<Back(f)>>, Ready(1), Before(f), r.a = Given(f)
    PROVE  Typed' /\ StackInv' /\ InReverse(f)'
  <1>1. Len(calls) = 1 /\ Append(calls, Following) = <<Back(f), Inside(f)>> /\ 1 + 1 = 2
    <2>1. 1 + 1 = 2
      OBVIOUS
    <2> QED
      BY <2>1, CallsSeq
  <1>2. /\ Typed' /\ StackInv' /\ Ready(2)' /\ pc' = <<"bitreverse", 1>>
        /\ calls' = <<Back(f), Inside(f)>> /\ r'.a = r.a /\ data' = data
    BY <1>1, Pushes
  <1>3. Before(f)'
    BY <1>2 DEF Before, HighPage, BothPages
  <1>4. ReverseAt(1, Given(f))'
    BY <1>2 DEF ReverseAt, AccuOf
  <1> QED
    BY <1>2, <1>3, <1>4 DEF InReverse

LEMMA InNibbleStep ==
    ASSUME Typed, StackInv, Next, NEW f \in {"setpage3", "setportc"}, InNibble(f)
    PROVE  Typed' /\ StackInv' /\ (InNibble(f)' \/ InReverse(f)' \/ Returned(f)')
  <1>1. PICK k \in 1 .. 11 :
            /\ pc = <<f, k>> /\ calls = <<Back(f)>> /\ Ready(1)
            /\ IF k = 11 THEN After(f) ELSE Before(f)
            /\ k = 1 => r.a = Given(f)
            /\ k \in 2 .. 10 => NibbleAt(k, PortOf(f), Reversed(Given(f)))
    BY DEF InNibble
  <1>2. f \in DOMAIN Program /\ Program[f] = LowerNibble(PortOf(f)) /\ PortOf(f) \in Ports
    BY DEF Program, PortOf, setpage3, setportc, Ports
  <1>3. Following = <<f, k + 1>> /\ Here(LowerNibble(PortOf(f))[k]) /\ pc \in Labels \X Nat
    BY <1>1, <1>2, AtPlace DEF Labels
  <1>4. CASE k = 1
    <2>1. Here(<<"call", "bitreverse">>) /\ Following = Inside(f)
      BY <1>3, <1>4 DEF LowerNibble, Inside
    <2> QED
      BY <1>1, <1>3, <1>4, <2>1, CallsBitreverse DEF Routines
  <1>5. CASE k \in 2 .. 9
    <2>1. Typed' /\ Onward /\ r'.sp = r.sp /\ NibbleAt(k + 1, PortOf(f), Reversed(Given(f)))'
      BY <1>1, <1>2, <1>5, NibbleStep
    <2>2. StackInv' /\ Ready(1)' /\ pc' = Following /\ calls' = calls /\ data' = data
      BY <1>1, <2>1, Frame
    <2>3. Before(f)'
      BY <1>1, <1>5, <2>2 DEF Before, HighPage, BothPages
    <2>4. InNibble(f)'
      BY <1>1, <1>3, <1>5, <2>1, <2>2, <2>3 DEF InNibble
    <2> QED
      BY <2>1, <2>2, <2>4
  <1>6. CASE k = 10
    <2> DEFINE p == PortOf(f)
    <2>1. Here(<<"out", p>>)
      BY <1>3, <1>6 DEF LowerNibble
    <2>2. /\ Typed' /\ StackInv' /\ pc' = Following /\ UNCHANGED <<r, mode, calls>>
          /\ data'[p] = r.a /\ \A q \in Ports \ {p} : data'[q] = data[q]
      BY <1>2, <2>1, PortWritten
    <2>3. r.a = Upper(data[p]) \cup Shifted(Reversed(Given(f)))
      BY <1>1, <1>6 DEF NibbleAt
    <2>4. StackPage' /\ After(f)'
      <3>1. CASE f = "setpage3"
        <4>1. data'["A"] = {7} \cup {3} /\ data'["B"] = data["B"]
          BY <1>1, <1>6, <2>2, <2>3, <3>1, ReversedGiven DEF PortOf, Before, HighPage, Ports
        <4> QED
          BY <1>1, <3>1, <4>1 DEF Ready, StackPage, After, BothPages
      <3>2. CASE f = "setportc"
        <4>1. data'["B"] = {4} \cup {0, 1, 2, 3} /\ data'["A"] = data["A"]
          BY <1>1, <2>2, <2>3, <3>2, ReversedGiven DEF PortOf, Ready, StackPage, Ports
        <4>2. data["A"] = {3, 7}
          BY <1>1, <1>6, <3>2 DEF Before, BothPages
        <4> QED
          BY <3>2, <4>1, <4>2 DEF StackPage, Upper, After, BothPages
      <3> QED
        BY <3>1, <3>2
    <2>5. Ready(1)'
      BY <1>1, <2>2, <2>4 DEF Ready, Outputs
    <2>6. InNibble(f)'
      BY <1>1, <1>3, <1>6, <2>2, <2>4, <2>5 DEF InNibble
    <2> QED
      BY <2>2, <2>6
  <1>7. CASE k = 11
    <2>1. Here(<<"ret">>)
      BY <1>3, <1>7 DEF LowerNibble
    <2> QED
      BY <1>1, <1>7, <2>1, ReturnsFrom DEF Routines
  <1> QED
    BY <1>4, <1>5, <1>6, <1>7

LEMMA InSetpage1Step ==
    ASSUME Typed, StackInv, Next, InSetpage1
    PROVE  /\ Typed' /\ StackInv'
           /\ InSetpage1' \/ InReverse("setpage1")' \/ Returned("setpage1")'
  <1>1. PICK k \in 1 .. 8 :
            /\ pc = <<"setpage1", k>> /\ calls = <<Back("setpage1")>> /\ Ready(1)
            /\ k \in {1, 2} => r.a = {0}
            /\ k = 3 => r.a = {7}
            /\ k \in 4 .. 6 => L = {7}
            /\ k = 6 => Upper(r.a) = {}
            /\ k = 7 => Upper(r.a) = {7}
            /\ k = 8 => HighPage
    BY DEF InSetpage1
  <1>2. Following = <<"setpage1", k + 1>> /\ Here(setpage1[k]) /\ pc \in Labels \X Nat
    BY <1>1, AtPlace DEF Program, Labels
  <1>3. CASE k = 1
    <2>1. SetsA(r.a \cap Bits(\h0F))
      BY <1>2, <1>3, DoesAnd DEF setpage1
    <2>2. r'.a = {0}
      BY <1>1, <1>3, <2>1, Constants DEF SetsA
    <2>3. Typed' /\ StackInv' /\ Ready(1)' /\ pc' = Following /\ calls' = calls
      BY <1>1, <2>1, Frame DEF SetsA
    <2> QED
      BY <1>1, <1>2, <1>3, <2>2, <2>3 DEF InSetpage1
  <1>4. CASE k = 2
    <2>1. Here(<<"call", "bitreverse">>) /\ Following = Inside("setpage1")
      BY <1>2, <1>4 DEF setpage1, Inside
    <2>2. Before("setpage1") /\ r.a = Given("setpage1")
      BY <1>1, <1>4 DEF Before, Given
    <2> QED
      BY <1>1, <1>2, <2>1, <2>2, CallsBitreverse DEF Routines
  <1>5. CASE k = 3
    <2>1. SetsL(r.a)
      BY <1>2, <1>5, DoesLdL DEF setpage1
    <2>2. Typed' /\ StackInv' /\ Ready(1)' /\ pc' = Following /\ calls' = calls
      BY <1>1, <2>1, Frame DEF SetsL
    <2> QED
      BY <1>1, <1>2, <1>5, <2>1, <2>2 DEF InSetpage1, SetsL
  <1>6. CASE k = 4
    <2>1. SetsA(data["A"])
      BY <1>2, <1>6, DoesIn DEF setpage1, Ports
    <2>2. L' = {7}
      BY <1>1, <1>6, <2>1 DEF SetsA
    <2>3. Typed' /\ StackInv' /\ Ready(1)' /\ pc' = Following /\ calls' = calls
      BY <1>1, <2>1, Frame DEF SetsA
    <2> QED
      BY <1>1, <1>2, <1>6, <2>2, <2>3 DEF InSetpage1
  <1>7. CASE k = 5
    <2>1. SetsA(r.a \cap Bits(\h0F))
      BY <1>2, <1>7, DoesAnd DEF setpage1
    <2>2. L' = {7} /\ Upper(r'.a) = {}
      BY Constants, <1>1, <1>7, <2>1 DEF SetsA, Upper
    <2>3. Typed' /\ StackInv' /\ Ready(1)' /\ pc' = Following /\ calls' = calls
      BY <1>1, <2>1, Frame DEF SetsA
    <2> QED
      BY <1>1, <1>2, <1>7, <2>2, <2>3 DEF InSetpage1
  <1>8. CASE k = 6
    <2>1. SetsA(r.a \cup L)
      BY <1>2, <1>8, DoesOr DEF setpage1
    <2>2. Upper(r'.a) = {7}
      BY <1>1, <1>8, <2>1 DEF SetsA, Upper
    <2>3. Typed' /\ StackInv' /\ Ready(1)' /\ pc' = Following /\ calls' = calls
      BY <1>1, <2>1, Frame DEF SetsA
    <2> QED
      BY <1>1, <1>2, <1>8, <2>2, <2>3 DEF InSetpage1
  <1>9. CASE k = 7
    <2>1. Here(<<"out", "A">>)
      BY <1>2, <1>9 DEF setpage1
    <2>2. /\ Typed' /\ StackInv' /\ pc' = Following /\ UNCHANGED <<r, mode, calls>>
          /\ data'["A"] = r.a /\ \A q \in Ports \ {"A"} : data'[q] = data[q]
      BY <2>1, PortWritten DEF Ports
    <2>3. HighPage' /\ data'["B"] = data["B"]
      BY <1>1, <1>9, <2>2 DEF HighPage, Ports
    <2>4. Ready(1)'
      BY <1>1, <2>2, <2>3 DEF Ready, Outputs, StackPage
    <2> QED
      BY <1>1, <1>2, <1>9, <2>2, <2>3, <2>4 DEF InSetpage1
  <1>10. CASE k = 8
    <2>1. Here(<<"ret">>) /\ After("setpage1")
      BY <1>1, <1>2, <1>10 DEF setpage1, After
    <2> QED
      BY <1>1, <2>1, ReturnsFrom DEF Routines
  <1> QED
    BY <1>3, <1>4, <1>5, <1>6, <1>7, <1>8, <1>9, <1>10

-----------------------------------------------------------------------------
(***************************************************************************)
(* boot, up to each instruction.                                           *)
(***************************************************************************)
BootAt(k) ==
    /\ mode["A"] = IF k <= 2 THEN "input" ELSE IF k <= 5 THEN "mask_next" ELSE "output"
    /\ mode["B"] = IF k <= 3 THEN "input" ELSE IF k <= 6 THEN "mask_next"
                   ELSE IF k \in {9, 10} THEN "mask_next" ELSE "output"
    /\ k \in {2, 3, 8} => r.a = Bits(\hF3)
    /\ k \in {5, 6, 10} => r.a = {}
    /\ k = 12 => r.a = {4}
    /\ k = 15 => r.a = {0}
    /\ k = 17 => r.a = {0, 7}
    /\ k = 19 => r.a = {0, 1, 2, 3}
    /\ k >= 13 => StackPage
    /\ k >= 14 => r.sp = \h8100
    /\ k \in {16, 17} => HighPage
    /\ k >= 18 => BothPages
    /\ k = 22 => r.bc = 2

InBoot == \E k \in 1 .. 22 : pc = <<"boot", k>> /\ calls = <<>> /\ BootAt(k)

LEMMA OutputsInBoot ==
    ASSUME Typed, NEW k \in 14 .. 22, BootAt(k)
    PROVE  Ready(0)
  <1>1. mode \in [Ports -> Modes] /\ mode["A"] = "output" /\ mode["B"] = "output"
    BY DEF Typed, BootAt
  <1>2. Outputs
    BY <1>1 DEF Outputs, Ports
  <1> QED
    BY <1>2 DEF BootAt, Ready

LEMMA CallsFromBoot ==
    ASSUME Typed, StackInv, Next, NEW f \in Routines, Here(<<"call", f>>),
           Following = Back(f), pc \in Labels \X Nat,
           calls = <<>>, Ready(0), Before(f), r.a = Given(f)
    PROVE  /\ Typed' /\ StackInv' /\ Ready(1)' /\ Before(f)' /\ r'.a = Given(f)
           /\ pc' = <<f, 1>> /\ calls' = <<Back(f)>>
  <1>1. 0 + 1 = 1 /\ Len(calls) = 0
    OBVIOUS
  <1>2. Append(calls, Following) = <<Back(f)>>
    BY CallsSeq
  <1>3. /\ Typed' /\ StackInv' /\ Ready(1)' /\ pc' = <<f, 1>>
        /\ calls' = <<Back(f)>> /\ r'.a = r.a /\ data' = data
    BY <1>1, <1>2, Pushes
  <1> QED
    BY <1>3 DEF Before, HighPage, BothPages

\* Back in boot, behind the call.
LEMMA ReturnedToBoot ==
    ASSUME NEW f \in Routines, Returned(f)'
    PROVE  InBoot'
  <1>1. /\ mode'["A"] = "output" /\ mode'["B"] = "output" /\ StackPage' /\ r'.sp = \h8100
    BY DEF Returned, Ready, Outputs, Ports
  <1>2. CASE f = "setpage1"
    <2>1. pc' = <<"boot", 16>> /\ HighPage' /\ calls' = <<>>
      BY <1>2 DEF Returned, Back, After
    <2> QED
      BY <1>1, <2>1 DEF InBoot, BootAt
  <1>3. CASE f = "setpage3"
    <2>1. pc' = <<"boot", 18>> /\ BothPages' /\ calls' = <<>>
      BY <1>3 DEF Returned, Back, After
    <2> QED
      BY <1>1, <2>1 DEF InBoot, BootAt
  <1>4. CASE f = "setportc"
    <2>1. pc' = <<"boot", 20>> /\ BothPages' /\ calls' = <<>>
      BY <1>4 DEF Returned, Back, After
    <2> QED
      BY <1>1, <2>1 DEF InBoot, BootAt
  <1> QED
    BY <1>2, <1>3, <1>4 DEF Routines

InLoop0 == \E k \in 1 .. 6 :
    /\ pc = <<"loop0", k>> /\ calls = <<>> /\ Ready(0) /\ BothPages /\ r.bc = 2
    /\ k >= 2 => r.hl = 0
    /\ k >= 3 => r.ix = \h9000
    /\ k = 4 => r.a = data["B"]
    /\ k = 5 => Upper(r.a) = {4}

\* The fill's address, and its value.
InStep == r.hl <= 14335 /\ r.ix = \h9000 + 2 * r.hl
InLoop1 == \E k \in 1 .. 6 :
    /\ pc = <<"loop1", k>> /\ calls = <<>> /\ Ready(0) /\ BothPages /\ r.bc = 2
    /\ k \in 1 .. 3 => InStep
    /\ k = 4 => r.hl >= 1 /\ r.hl <= 14336 /\ r.ix = \h9000 + 2 * (r.hl - 1)
    /\ k = 5 => r.carry \/ InStep
    /\ k = 6 => InStep

LEMMA BootStraight ==
    ASSUME Typed, StackInv, Next, NEW k \in 1 .. 22, k \notin {15, 17, 19, 22},
           pc = <<"boot", k>>, calls = <<>>, BootAt(k)
    PROVE  Typed' /\ StackInv' /\ InBoot'
  <1>1. Following = <<"boot", k + 1>> /\ Here(boot[k])
    BY AtPlace DEF Program
  <1>2. SUFFICES Typed' /\ StackInv' /\ pc' = Following /\ calls' = calls /\ BootAt(k + 1)'
    BY <1>1 DEF InBoot
  <1>3. CASE k = 1
    <2>1. SetsA(Bits(\hF3))
      BY <1>1, <1>3, DoesLdA DEF boot
    <2>2. Typed' /\ StackInv' /\ pc' = Following /\ calls' = calls /\ data' = data
      BY <2>1, Frame DEF SetsA
    <2>3. mode' = mode /\ r'.a = Bits(\hF3) /\ r'.sp = r.sp /\ r'.bc = r.bc
      BY <2>1 DEF SetsA, Onward
    <2> QED
      BY <1>3, <2>2, <2>3 DEF BootAt, StackPage, HighPage, BothPages
  <1>4. CASE k = 2
    <2>1. Here(<<"control", "A">>)
      BY <1>1, <1>4 DEF boot
    <2>2. /\ Typed' /\ StackInv' /\ pc' = Following /\ UNCHANGED <<r, data, calls>>
          /\ \A q \in Ports \ {"A"} : mode'[q] = mode[q]
          /\ mode["A"] = "mask_next" /\ r.a = {} => mode'["A"] = "output"
          /\ mode["A"] # "mask_next" /\ r.a = Bits(\hF3) => mode'["A"] = "mask_next"
      BY <2>1, ControlWord DEF Ports
    <2> QED
      BY <1>4, <2>2 DEF BootAt, Ports
  <1>5. CASE k = 3
    <2>1. Here(<<"control", "B">>)
      BY <1>1, <1>5 DEF boot
    <2>2. /\ Typed' /\ StackInv' /\ pc' = Following /\ UNCHANGED <<r, data, calls>>
          /\ \A q \in Ports \ {"B"} : mode'[q] = mode[q]
          /\ mode["B"] = "mask_next" /\ r.a = {} => mode'["B"] = "output"
          /\ mode["B"] # "mask_next" /\ r.a = Bits(\hF3) => mode'["B"] = "mask_next"
      BY <2>1, ControlWord DEF Ports
    <2> QED
      BY <1>5, <2>2 DEF BootAt, Ports
  <1>6. CASE k = 4
    <2>1. SetsA({})
      BY <1>1, <1>6, DoesXorA DEF boot
    <2>2. Typed' /\ StackInv' /\ pc' = Following /\ calls' = calls /\ data' = data
      BY <2>1, Frame DEF SetsA
    <2>3. mode' = mode /\ r'.a = {} /\ r'.sp = r.sp /\ r'.bc = r.bc
      BY <2>1 DEF SetsA, Onward
    <2> QED
      BY <1>6, <2>2, <2>3 DEF BootAt, StackPage, HighPage, BothPages
  <1>7. CASE k = 5
    <2>1. Here(<<"control", "A">>)
      BY <1>1, <1>7 DEF boot
    <2>2. /\ Typed' /\ StackInv' /\ pc' = Following /\ UNCHANGED <<r, data, calls>>
          /\ \A q \in Ports \ {"A"} : mode'[q] = mode[q]
          /\ mode["A"] = "mask_next" /\ r.a = {} => mode'["A"] = "output"
          /\ mode["A"] # "mask_next" /\ r.a = Bits(\hF3) => mode'["A"] = "mask_next"
      BY <2>1, ControlWord DEF Ports
    <2> QED
      BY <1>7, <2>2 DEF BootAt, Ports
  <1>8. CASE k = 6
    <2>1. Here(<<"control", "B">>)
      BY <1>1, <1>8 DEF boot
    <2>2. /\ Typed' /\ StackInv' /\ pc' = Following /\ UNCHANGED <<r, data, calls>>
          /\ \A q \in Ports \ {"B"} : mode'[q] = mode[q]
          /\ mode["B"] = "mask_next" /\ r.a = {} => mode'["B"] = "output"
          /\ mode["B"] # "mask_next" /\ r.a = Bits(\hF3) => mode'["B"] = "mask_next"
      BY <2>1, ControlWord DEF Ports
    <2> QED
      BY <1>8, <2>2 DEF BootAt, Ports
  <1>9. CASE k = 7
    <2>1. SetsA(Bits(\hF3))
      BY <1>1, <1>9, DoesLdA DEF boot
    <2>2. Typed' /\ StackInv' /\ pc' = Following /\ calls' = calls /\ data' = data
      BY <2>1, Frame DEF SetsA
    <2>3. mode' = mode /\ r'.a = Bits(\hF3) /\ r'.sp = r.sp /\ r'.bc = r.bc
      BY <2>1 DEF SetsA, Onward
    <2> QED
      BY <1>9, <2>2, <2>3 DEF BootAt, StackPage, HighPage, BothPages
  <1>10. CASE k = 8
    <2>1. Here(<<"control", "B">>)
      BY <1>1, <1>10 DEF boot
    <2>2. /\ Typed' /\ StackInv' /\ pc' = Following /\ UNCHANGED <<r, data, calls>>
          /\ \A q \in Ports \ {"B"} : mode'[q] = mode[q]
          /\ mode["B"] = "mask_next" /\ r.a = {} => mode'["B"] = "output"
          /\ mode["B"] # "mask_next" /\ r.a = Bits(\hF3) => mode'["B"] = "mask_next"
      BY <2>1, ControlWord DEF Ports
    <2> QED
      BY <1>10, <2>2 DEF BootAt, Ports
  <1>11. CASE k = 9
    <2>1. SetsA({})
      BY <1>1, <1>11, DoesXorA DEF boot
    <2>2. Typed' /\ StackInv' /\ pc' = Following /\ calls' = calls /\ data' = data
      BY <2>1, Frame DEF SetsA
    <2>3. mode' = mode /\ r'.a = {} /\ r'.sp = r.sp /\ r'.bc = r.bc
      BY <2>1 DEF SetsA, Onward
    <2> QED
      BY <1>11, <2>2, <2>3 DEF BootAt, StackPage, HighPage, BothPages
  <1>12. CASE k = 10
    <2>1. Here(<<"control", "B">>)
      BY <1>1, <1>12 DEF boot
    <2>2. /\ Typed' /\ StackInv' /\ pc' = Following /\ UNCHANGED <<r, data, calls>>
          /\ \A q \in Ports \ {"B"} : mode'[q] = mode[q]
          /\ mode["B"] = "mask_next" /\ r.a = {} => mode'["B"] = "output"
          /\ mode["B"] # "mask_next" /\ r.a = Bits(\hF3) => mode'["B"] = "mask_next"
      BY <2>1, ControlWord DEF Ports
    <2> QED
      BY <1>12, <2>2 DEF BootAt, Ports
  <1>13. CASE k = 11
    <2>1. SetsA(Bits(\h10))
      BY <1>1, <1>13, DoesLdA DEF boot
    <2>2. Typed' /\ StackInv' /\ pc' = Following /\ calls' = calls /\ data' = data
      BY <2>1, Frame DEF SetsA
    <2>3. mode' = mode /\ r'.a = Bits(\h10) /\ r'.sp = r.sp /\ r'.bc = r.bc
      BY <2>1 DEF SetsA, Onward
    <2> QED
      BY <1>13, <2>2, <2>3, Constants DEF BootAt, StackPage, HighPage, BothPages
  <1>14. CASE k = 12
    <2>1. Here(<<"out", "B">>)
      BY <1>1, <1>14 DEF boot
    <2>2. /\ Typed' /\ StackInv' /\ pc' = Following /\ UNCHANGED <<r, mode, calls>>
          /\ data'["B"] = r.a
      BY <2>1, PortWritten DEF Ports
    <2>3. StackPage'
      BY <1>14, <2>2 DEF BootAt, StackPage, Upper
    <2> QED
      BY <1>14, <2>2, <2>3 DEF BootAt
  <1>15. CASE k = 13
    <2>1. Here(<<"ld_sp", \h8100>>) /\ \h8100 \in Word
      BY <1>1, <1>15, Words DEF boot
    <2>2. /\ Typed' /\ StackInv' /\ pc' = Following /\ UNCHANGED <<data, mode, calls>>
          /\ r'.sp = \h8100 /\ r'.a = r.a /\ r'.bc = r.bc
      BY <2>1, LoadsSp
    <2> QED
      BY <1>15, <2>2 DEF BootAt, StackPage, HighPage, BothPages
  <1>16. CASE k = 14
    <2>1. SetsA(Bits(\h01))
      BY <1>1, <1>16, DoesLdA DEF boot
    <2>2. Typed' /\ StackInv' /\ pc' = Following /\ calls' = calls /\ data' = data
      BY <2>1, Frame DEF SetsA
    <2>3. mode' = mode /\ r'.a = Bits(\h01) /\ r'.sp = r.sp /\ r'.bc = r.bc
      BY <2>1 DEF SetsA, Onward
    <2> QED
      BY <1>16, <2>2, <2>3, Constants DEF BootAt, StackPage, HighPage, BothPages
  <1>17. CASE k = 16
    <2>1. SetsA(Bits(\h81))
      BY <1>1, <1>17, DoesLdA DEF boot
    <2>2. Typed' /\ StackInv' /\ pc' = Following /\ calls' = calls /\ data' = data
      BY <2>1, Frame DEF SetsA
    <2>3. mode' = mode /\ r'.a = Bits(\h81) /\ r'.sp = r.sp /\ r'.bc = r.bc
      BY <2>1 DEF SetsA, Onward
    <2> QED
      BY <1>17, <2>2, <2>3, Constants DEF BootAt, StackPage, HighPage, BothPages
  <1>18. CASE k = 18
    <2>1. SetsA(Bits(\h0F))
      BY <1>1, <1>18, DoesLdA DEF boot
    <2>2. Typed' /\ StackInv' /\ pc' = Following /\ calls' = calls /\ data' = data
      BY <2>1, Frame DEF SetsA
    <2>3. mode' = mode /\ r'.a = Bits(\h0F) /\ r'.sp = r.sp /\ r'.bc = r.bc
      BY <2>1 DEF SetsA, Onward
    <2> QED
      BY <1>18, <2>2, <2>3, Constants DEF BootAt, StackPage, HighPage, BothPages
  <1>19. CASE k = 20
    <2>1. Here(<<"ld_ix", \h8000>>) /\ \h8000 \in Word
      BY <1>1, <1>19, Words DEF boot
    <2>2. /\ Typed' /\ StackInv' /\ pc' = Following /\ UNCHANGED <<data, mode, calls>>
          /\ r'.ix = \h8000 /\ r'.a = r.a /\ r'.bc = r.bc /\ r'.sp = r.sp
      BY <2>1, LoadsIx
    <2> QED
      BY <1>19, <2>2 DEF BootAt, StackPage, HighPage, BothPages
  <1>20. CASE k = 21
    <2>1. Here(<<"ld_bc", 2>>) /\ 2 \in Word
      BY <1>1, <1>20, Words DEF boot
    <2>2. /\ Typed' /\ StackInv' /\ pc' = Following /\ UNCHANGED <<data, mode, calls>>
          /\ r'.bc = 2 /\ r'.a = r.a /\ r'.sp = r.sp
      BY <2>1, LoadsBc
    <2> QED
      BY <1>20, <2>2 DEF BootAt, StackPage, HighPage, BothPages
  <1>21. k \in {1, 2, 3, 4, 5, 6, 7, 8, 9, 10, 11, 12, 13, 14, 16, 18, 20, 21}
    OBVIOUS
  <1> QED
    BY <1>3, <1>4, <1>5, <1>6, <1>7, <1>8, <1>9, <1>10, <1>11, <1>12, <1>13,
       <1>14, <1>15, <1>16, <1>17, <1>18, <1>19, <1>20, <1>21

LEMMA InBootStep ==
    ASSUME Typed, StackInv, Next, InBoot
    PROVE  /\ Typed' /\ StackInv'
           /\ \/ InBoot' \/ InSetpage1' \/ InLoop0'
              \/ \E f \in {"setpage3", "setportc"} : InNibble(f)'
  <1>1. PICK k \in 1 .. 22 : pc = <<"boot", k>> /\ calls = <<>> /\ BootAt(k)
    BY DEF InBoot
  <1>2. Following = <<"boot", k + 1>> /\ Here(boot[k]) /\ pc \in Labels \X Nat
    BY <1>1, AtPlace DEF Program, Labels
  <1>3. CASE k \notin {15, 17, 19, 22}
    BY <1>1, <1>3, BootStraight
  <1>4. CASE k = 15
    <2>1. Here(<<"call", "setpage1">>) /\ Following = Back("setpage1")
      BY <1>2, <1>4 DEF boot, Back
    <2>2. Ready(0) /\ Before("setpage1") /\ r.a = Given("setpage1")
      BY <1>1, <1>4, OutputsInBoot DEF BootAt, Before, Given
    <2>3. /\ Typed' /\ StackInv' /\ Ready(1)' /\ Before("setpage1")' /\ r'.a = Given("setpage1")
          /\ pc' = <<"setpage1", 1>> /\ calls' = <<Back("setpage1")>>
      BY <1>1, <1>2, <2>1, <2>2, CallsFromBoot DEF Routines
    <2> QED
      BY <2>3 DEF InSetpage1, Given
  <1>5. CASE k = 17
    <2>1. Here(<<"call", "setpage3">>) /\ Following = Back("setpage3")
      BY <1>2, <1>5 DEF boot, Back
    <2>2. Ready(0) /\ Before("setpage3") /\ r.a = Given("setpage3")
      BY <1>1, <1>5, OutputsInBoot DEF BootAt, Before, Given
    <2>3. /\ Typed' /\ StackInv' /\ Ready(1)' /\ Before("setpage3")' /\ r'.a = Given("setpage3")
          /\ pc' = <<"setpage3", 1>> /\ calls' = <<Back("setpage3")>>
      BY <1>1, <1>2, <2>1, <2>2, CallsFromBoot DEF Routines
    <2> QED
      BY <2>3 DEF InNibble
  <1>6. CASE k = 19
    <2>1. Here(<<"call", "setportc">>) /\ Following = Back("setportc")
      BY <1>2, <1>6 DEF boot, Back
    <2>2. Ready(0) /\ Before("setportc") /\ r.a = Given("setportc")
      BY <1>1, <1>6, OutputsInBoot DEF BootAt, Before, Given
    <2>3. /\ Typed' /\ StackInv' /\ Ready(1)' /\ Before("setportc")' /\ r'.a = Given("setportc")
          /\ pc' = <<"setportc", 1>> /\ calls' = <<Back("setportc")>>
      BY <1>1, <1>2, <2>1, <2>2, CallsFromBoot DEF Routines
    <2> QED
      BY <2>3 DEF InNibble
  <1>7. CASE k = 22
    <2>1. Here(<<"jp", "loop0">>)
      BY <1>2, <1>7 DEF boot
    <2>2. pc' = <<"loop0", 1>> /\ UNCHANGED <<r, data, mode, stack, calls>>
      BY <2>1, DoesJp
    <2>3. Ready(0) /\ BothPages /\ r.bc = 2
      BY <1>1, <1>7, OutputsInBoot DEF BootAt
    <2>4. Ready(0)' /\ BothPages' /\ Typed'
      BY <2>2, <2>3 DEF Ready, Outputs, StackPage, BothPages, Typed
    <2>5. StackInv'
      BY <2>2, SameStack
    <2> QED
      BY <1>1, <2>2, <2>3, <2>4, <2>5 DEF InLoop0
  <1> QED
    BY <1>3, <1>4, <1>5, <1>6, <1>7

-----------------------------------------------------------------------------
(***************************************************************************)
(* The fill.                                                               *)
(***************************************************************************)
LEMMA InLoop0Step ==
    ASSUME Typed, StackInv, Next, InLoop0
    PROVE  Typed' /\ StackInv' /\ (InLoop0' \/ InLoop1')
  <1>1. PICK k \in 1 .. 6 :
            /\ pc = <<"loop0", k>> /\ calls = <<>> /\ Ready(0) /\ BothPages /\ r.bc = 2
            /\ k >= 2 => r.hl = 0
            /\ k >= 3 => r.ix = \h9000
            /\ k = 4 => r.a = data["B"]
            /\ k = 5 => Upper(r.a) = {4}
    BY DEF InLoop0
  <1>2. Following = <<"loop0", k + 1>> /\ Here(loop0[k])
    BY <1>1, AtPlace DEF Program
  <1>4. CASE k = 1
    <2>1. Here(<<"ld_hl", 0>>) /\ 0 \in Word
      BY <1>2, <1>4, Words DEF loop0
    <2>2. /\ Typed' /\ StackInv' /\ pc' = Following /\ UNCHANGED <<data, mode, calls>>
          /\ r'.hl = 0 /\ r'.bc = r.bc /\ r'.sp = r.sp
      BY <2>1, LoadsHl
    <2>3. Ready(0)' /\ BothPages'
      BY <1>1, <2>2 DEF Ready, Outputs, StackPage, BothPages
    <2> QED
      BY <1>1, <1>2, <1>4, <2>2, <2>3 DEF InLoop0
  <1>5. CASE k = 2
    <2>1. Here(<<"ld_ix", \h9000>>) /\ \h9000 \in Word
      BY <1>2, <1>5, Words DEF loop0
    <2>2. /\ Typed' /\ StackInv' /\ pc' = Following /\ UNCHANGED <<data, mode, calls>>
          /\ r'.ix = \h9000 /\ r'.hl = r.hl /\ r'.bc = r.bc /\ r'.sp = r.sp
      BY <2>1, LoadsIx
    <2>3. Ready(0)' /\ BothPages'
      BY <1>1, <2>2 DEF Ready, Outputs, StackPage, BothPages
    <2> QED
      BY <1>1, <1>2, <1>5, <2>2, <2>3 DEF InLoop0
  <1>6. CASE k = 3
    <2>1. SetsA(data["B"])
      BY <1>2, <1>6, DoesIn DEF loop0, Ports
    <2>2. /\ Typed' /\ StackInv' /\ Ready(0)' /\ pc' = Following /\ calls' = calls
          /\ data' = data
      BY <1>1, <2>1, Frame DEF SetsA
    <2>3. r'.a = data'["B"]
      BY <1>1, <1>6, <2>1, <2>2 DEF SetsA
    <2>4. r'.hl = r.hl /\ r'.ix = r.ix /\ r'.bc = r.bc /\ BothPages'
      BY <1>1, <2>1, <2>2 DEF SetsA, BothPages
    <2> QED
      BY <1>1, <1>2, <1>6, <2>2, <2>3, <2>4 DEF InLoop0
  <1>7. CASE k = 4
    <2>1. SetsA(Exclusive(r.a, Bits(\h0F)))
      BY <1>2, <1>7, DoesXor DEF loop0, Ports
    <2>2. /\ Typed' /\ StackInv' /\ Ready(0)' /\ pc' = Following /\ calls' = calls
          /\ data' = data
      BY <1>1, <2>1, Frame DEF SetsA
    <2>3. Upper(r'.a) = {4}
      BY <1>1, <1>7, <2>1, <2>2, Constants DEF SetsA, Exclusive, Upper, Ready, StackPage
    <2>4. r'.hl = r.hl /\ r'.ix = r.ix /\ r'.bc = r.bc /\ BothPages'
      BY <1>1, <2>1, <2>2 DEF SetsA, BothPages
    <2> QED
      BY <1>1, <1>2, <1>7, <2>2, <2>3, <2>4 DEF InLoop0
  <1>8. CASE k = 5
    <2>1. Here(<<"out", "B">>)
      BY <1>2, <1>8 DEF loop0
    <2>2. /\ Typed' /\ StackInv' /\ pc' = Following /\ UNCHANGED <<r, mode, calls>>
          /\ data'["B"] = r.a /\ \A q \in Ports \ {"B"} : data'[q] = data[q]
      BY <2>1, PortWritten DEF Ports
    <2>3. BothPages' /\ StackPage'
      BY <1>1, <1>8, <2>2 DEF BothPages, StackPage, Ports
    <2>4. Ready(0)'
      BY <1>1, <2>2, <2>3 DEF Ready, Outputs
    <2> QED
      BY <1>1, <1>2, <1>8, <2>2, <2>3, <2>4 DEF InLoop0
  <1>9. CASE k = 6
    <2>1. Here(<<"jp", "loop1">>)
      BY <1>2, <1>9 DEF loop0
    <2>2. pc' = <<"loop1", 1>> /\ UNCHANGED <<r, data, mode, stack, calls>>
      BY <2>1, DoesJp
    <2>3. Ready(0)' /\ BothPages' /\ Typed'
      BY <1>1, <2>2 DEF Ready, Outputs, StackPage, BothPages, Typed
    <2>4. StackInv'
      BY <2>2, SameStack
    <2>5. InStep'
      BY <1>1, <1>9, <2>2 DEF InStep
    <2> QED
      BY <1>1, <2>2, <2>3, <2>4, <2>5 DEF InLoop1
  <1> QED
    BY <1>4, <1>5, <1>6, <1>7, <1>8, <1>9

LEMMA Sums ==
    ASSUME NEW n \in Nat
    PROVE  Sum16(n) \in Word /\ (n <= 65535 => Sum16(n) = n)
  BY Words DEF Sum16

LEMMA InLoop1Step ==
    ASSUME Typed, StackInv, Next, InLoop1
    PROVE  Typed' /\ StackInv' /\ (InLoop0' \/ InLoop1')
  <1>1. PICK k \in 1 .. 6 :
            /\ pc = <<"loop1", k>> /\ calls = <<>> /\ Ready(0) /\ BothPages /\ r.bc = 2
            /\ k \in 1 .. 3 => InStep
            /\ k = 4 => r.hl >= 1 /\ r.hl <= 14336 /\ r.ix = \h9000 + 2 * (r.hl - 1)
            /\ k = 5 => r.carry \/ InStep
            /\ k = 6 => InStep
    BY DEF InLoop1
  <1>2. Following = <<"loop1", k + 1>> /\ Here(loop1[k])
    BY <1>1, AtPlace DEF Program
  <1>3. r.hl \in Nat /\ r.ix \in Nat
    BY Words DEF Typed, Registers
  <1>4. CASE k \in {1, 2}
    <2>1. PICK n \in {0, 1} : Here(<<"store_ix", n>>)
      BY <1>2, <1>4 DEF loop1
    <2>2. /\ pc' = Following /\ UNCHANGED <<r, data, mode, calls>>
          /\ stack' = Stored(r.ix + n, "fill")
      BY <2>1, DoesStore
    <2>3. DOMAIN stack' = DOMAIN stack
      BY <2>2 DEF Stored
    <2>4. StackInv'
      <3>1. Len(calls') = 0
        BY <1>1, <2>2
      <3> QED
        BY <2>2, <2>3, <3>1 DEF StackInv
    <2>5. Ready(0)' /\ BothPages' /\ Typed' /\ InStep'
      BY <1>1, <1>4, <2>2 DEF Ready, Outputs, StackPage, BothPages, Typed, InStep
    <2> QED
      BY <1>1, <1>2, <1>4, <2>2, <2>4, <2>5 DEF InLoop1
  <1>5. CASE k = 3
    <2>1. Onward /\ r' = [r EXCEPT !.hl = Sum16(@ + 1)]
      BY <1>2, <1>5, DoesIncHl DEF loop1
    <2>2. Sum16(r.hl + 1) = r.hl + 1 /\ r.hl + 1 \in Word
      BY <1>1, <1>3, <1>5, Sums, Words DEF InStep
    <2>3. /\ r' \in Registers /\ r'.hl = r.hl + 1
          /\ r'.ix = r.ix /\ r'.bc = r.bc /\ r'.sp = r.sp
      BY <2>1, <2>2 DEF Typed, Registers
    <2>4. /\ StackInv' /\ Ready(0)' /\ pc' = Following /\ calls' = calls /\ data' = data
      BY <1>1, <2>1, <2>3, Frame
    <2>5. Typed' /\ BothPages'
      BY <1>1, <2>1, <2>3 DEF Typed, Onward, BothPages
    <2>6. r'.hl >= 1 /\ r'.hl <= 14336 /\ r'.ix = \h9000 + 2 * (r'.hl - 1)
      BY <1>1, <1>3, <1>5, <2>3 DEF InStep
    <2> QED
      BY <1>1, <1>2, <1>5, <2>3, <2>4, <2>5, <2>6 DEF InLoop1
  <1>6. CASE k = 4
    <2>1. /\ Onward
          /\ r' = [r EXCEPT !.ix = Sum16(@ + r.bc), !.carry = r.ix + r.bc > 65535]
      BY <1>2, <1>6, DoesAddIx DEF loop1
    <2>2. Sum16(r.ix + 2) \in Word /\ (r.ix + 2 <= 65535 => Sum16(r.ix + 2) = r.ix + 2)
      BY <1>3, Sums
    <2>3. /\ r' \in Registers /\ r'.hl = r.hl /\ r'.bc = r.bc /\ r'.sp = r.sp
          /\ r'.ix = Sum16(r.ix + 2) /\ (r'.carry <=> r.ix + 2 > 65535)
      <3> DEFINE sum == Sum16(r.ix + 2)
                 over == r.ix + 2 > 65535
      <3>1. sum \in Word /\ over \in BOOLEAN
        BY <2>2
      <3>2. r' = [r EXCEPT !.ix = sum, !.carry = over]
        BY <1>1, <2>1
      <3> HIDE DEF sum, over
      <3>3. r' \in Registers
        BY <3>1, <3>2 DEF Typed, Registers
      <3>4. /\ r'.hl = r.hl /\ r'.bc = r.bc /\ r'.sp = r.sp /\ r'.ix = sum
            /\ (r'.carry <=> over)
        BY <3>1, <3>2 DEF Typed, Registers
      <3> QED
        BY <3>3, <3>4 DEF sum, over
    <2>4. /\ StackInv' /\ Ready(0)' /\ pc' = Following /\ calls' = calls /\ data' = data
      BY <1>1, <2>1, <2>3, Frame
    <2>5. Typed' /\ BothPages'
      BY <1>1, <2>1, <2>3 DEF Typed, Onward, BothPages
    <2>6. ASSUME ~ r'.carry PROVE InStep'
      <3>1. r.ix + 2 <= 65535 /\ r'.ix = r.ix + 2
        BY <1>3, <2>2, <2>3, <2>6
      <3>2. r'.hl = r.hl /\ r.hl >= 1 /\ r.hl <= 14336 /\ r.ix = \h9000 + 2 * (r.hl - 1)
        BY <1>1, <1>6, <2>3
      <3> QED
        BY <1>3, <3>1, <3>2 DEF InStep
    <2> QED
      BY <1>1, <1>2, <1>6, <2>3, <2>4, <2>5, <2>6 DEF InLoop1
  <1>7. CASE k \in {5, 6}
    <2>1. /\ UNCHANGED <<r, data, mode, stack, calls>>
          /\ \/ pc' = <<"loop0", 1>>
             \/ pc' = <<"loop1", 6>> /\ InStep
             \/ pc' = <<"loop1", 1>> /\ InStep
      <3>1. CASE k = 5
        <4>1. Here(<<"jp_c", "loop0">>)
          BY <1>2, <3>1 DEF loop1
        <4> QED
          BY <1>1, <1>2, <3>1, <4>1, DoesJpC
      <3>2. CASE k = 6
        <4>1. Here(<<"jp", "loop1">>)
          BY <1>2, <3>2 DEF loop1
        <4> QED
          BY <1>1, <3>2, <4>1, DoesJp
      <3> QED
        BY <1>7, <3>1, <3>2
    <2>2. Ready(0)' /\ BothPages' /\ Typed' /\ (InStep => InStep')
      BY <1>1, <2>1 DEF Ready, Outputs, StackPage, BothPages, Typed, InStep
    <2>3. StackInv'
      BY <2>1, SameStack
    <2> QED
      BY <1>1, <2>1, <2>2, <2>3 DEF InLoop0, InLoop1
  <1> QED
    BY <1>4, <1>5, <1>6, <1>7

-----------------------------------------------------------------------------
(***************************************************************************)
(* The invariant, and what follows.                                        *)
(***************************************************************************)
\* The CPU is at one of these places, with what holds there.
KernelInv ==
    /\ Typed /\ StackInv
    /\ \/ InBoot \/ InSetpage1 \/ InLoop0 \/ InLoop1
       \/ \E f \in Routines : InReverse(f)
       \/ \E f \in {"setpage3", "setportc"} : InNibble(f)

LEMMA KernelInit == Init => KernelInv
  <1> SUFFICES ASSUME Init PROVE KernelInv
    OBVIOUS
  <1>1. 0 \in Word /\ {} \in Byte
    BY Words DEF Byte
  <1>2. Typed
    BY <1>1, LeftoverAssumption DEF Init, Typed, Registers, Modes
  <1>3. StackInv
    BY DEF Init, StackInv
  <1>4. mode["A"] = "input" /\ mode["B"] = "input"
    BY DEF Init, Ports
  <1>5. InBoot
    BY <1>4 DEF Init, InBoot, BootAt
  <1> QED
    BY <1>2, <1>3, <1>5 DEF KernelInv

LEMMA KernelStep == KernelInv /\ [Next]_vars => KernelInv'
  <1> SUFFICES ASSUME KernelInv, [Next]_vars PROVE KernelInv'
    OBVIOUS
  <1>0. Typed /\ StackInv
    BY DEF KernelInv
  <1>1. CASE UNCHANGED vars
    <2>1. UNCHANGED <<pc, r, data, mode, stack, calls>>
      BY <1>1 DEF vars
    <2>2. Typed' /\ StackInv'
      BY <1>0, <2>1, SameStack DEF Typed
    <2>3. \A n : Ready(n)' <=> Ready(n)
      BY <2>1 DEF Ready, Outputs, StackPage
    <2>4. L' = L /\ (BothPages' <=> BothPages) /\ (HighPage' <=> HighPage) /\ (InStep' <=> InStep)
      BY <2>1 DEF L, BothPages, HighPage, InStep
    <2>5. InBoot => InBoot'
      BY <2>1, <2>4 DEF InBoot, BootAt, StackPage
    <2>6. InSetpage1 => InSetpage1'
      BY <2>1, <2>3, <2>4 DEF InSetpage1
    <2>7. (InLoop0 => InLoop0') /\ (InLoop1 => InLoop1')
      BY <2>1, <2>3, <2>4 DEF InLoop0, InLoop1
    <2>8. \A f \in Routines : InReverse(f) => InReverse(f)'
      BY <2>1, <2>3, <2>4 DEF InReverse, Before, ReverseAt
    <2>9. \A f \in {"setpage3", "setportc"} : InNibble(f) => InNibble(f)'
      BY <2>1, <2>3, <2>4 DEF InNibble, Before, After, NibbleAt
    <2> QED
      BY <2>2, <2>5, <2>6, <2>7, <2>8, <2>9 DEF KernelInv
  <1>2. CASE Next
    <2>1. CASE InBoot
      BY <1>0, <1>2, <2>1, InBootStep DEF KernelInv
    <2>2. CASE InSetpage1
      BY <1>0, <1>2, <2>2, InSetpage1Step, ReturnedToBoot DEF KernelInv, Routines
    <2>3. CASE InLoop0
      BY <1>0, <1>2, <2>3, InLoop0Step DEF KernelInv
    <2>4. CASE InLoop1
      BY <1>0, <1>2, <2>4, InLoop1Step DEF KernelInv
    <2>5. ASSUME NEW f \in Routines, InReverse(f)
          PROVE  KernelInv'
      BY <1>0, <1>2, <2>5, InReverseStep DEF KernelInv, Routines
    <2>6. ASSUME NEW f \in {"setpage3", "setportc"}, InNibble(f)
          PROVE  KernelInv'
      <3>1. f \in Routines
        BY DEF Routines
      <3> QED
        BY <1>0, <1>2, <2>6, <3>1, InNibbleStep, ReturnedToBoot DEF KernelInv
    <2> QED
      BY <2>1, <2>2, <2>3, <2>4, <2>5, <2>6 DEF KernelInv
  <1> QED
    BY <1>1, <1>2

\* The invariant above holds of every state of the kernel.
THEOREM KernelInvariant == Spec => []KernelInv
  BY KernelInit, KernelStep, PTL DEF Spec

LEMMA Places ==
    /\ DOMAIN boot = 1 .. 22 /\ DOMAIN loop0 = 1 .. 6 /\ DOMAIN loop1 = 1 .. 6
    /\ DOMAIN setpage1 = 1 .. 8 /\ DOMAIN bitreverse = 1 .. 15
    /\ DOMAIN setpage3 = 1 .. 11 /\ DOMAIN setportc = 1 .. 11
  BY DEF boot, loop0, loop1, setpage1, bitreverse, setpage3, setportc, LowerNibble

LEMMA InProgram ==
    ASSUME KernelInv
    PROVE  /\ pc[1] \in DOMAIN Program /\ pc[2] \in DOMAIN Program[pc[1]]
           /\ Len(calls) <= 2
  <1>1. CASE InBoot \/ InLoop0 \/ InLoop1
    <2>1. Len(calls) = 0
      BY <1>1 DEF InBoot, InLoop0, InLoop1
    <2>2. \/ \E k \in 1 .. 22 : pc = <<"boot", k>>
          \/ \E k \in 1 .. 6 : pc = <<"loop0", k>> \/ pc = <<"loop1", k>>
      BY <1>1 DEF InBoot, InLoop0, InLoop1
    <2> QED
      BY <2>1, <2>2, Places DEF Program
  <1>2. CASE InSetpage1
    <2>1. PICK k \in 1 .. 8 : pc = <<"setpage1", k>> /\ calls = <<Back("setpage1")>>
      BY <1>2 DEF InSetpage1
    <2> QED
      BY <2>1, CallsSeq, Places DEF Program
  <1>3. ASSUME NEW f \in Routines, InReverse(f)
        PROVE  /\ pc[1] \in DOMAIN Program /\ pc[2] \in DOMAIN Program[pc[1]]
               /\ Len(calls) <= 2
    <2>1. PICK k \in 1 .. 15 : pc = <<"bitreverse", k>> /\ calls = <<Back(f), Inside(f)>>
      BY <1>3 DEF InReverse
    <2>2. Len(calls) = 2
      BY <2>1, CallsSeq
    <2> QED
      BY <2>1, <2>2, Places DEF Program
  <1>4. ASSUME NEW f \in {"setpage3", "setportc"}, InNibble(f)
        PROVE  /\ pc[1] \in DOMAIN Program /\ pc[2] \in DOMAIN Program[pc[1]]
               /\ Len(calls) <= 2
    <2>1. PICK k \in 1 .. 11 : pc = <<f, k>> /\ calls = <<Back(f)>>
      BY <1>4 DEF InNibble
    <2>2. Len(calls) = 1
      BY <2>1, CallsSeq
    <2> QED
      BY <2>1, <2>2, Places DEF Program
  <1> QED
    BY <1>1, <1>2, <1>3, <1>4 DEF KernelInv

\* The CPU is always at an instruction of the program, with at most two calls
\* under way (main.z80:45-193).
THEOREM KernelTypeOK == Spec => []TypeOK
  <1>1. KernelInv => TypeOK
    <2> SUFFICES ASSUME KernelInv PROVE TypeOK
      OBVIOUS
    <2>1. Typed
      BY DEF KernelInv
    <2> QED
      BY <2>1, InProgram DEF TypeOK, Typed, Registers, Modes
  <1> QED
    BY <1>1, KernelInvariant, PTL

\* The address that is filled lies behind the stack, in its slot or the next.
LEMMA BehindStack ==
    ASSUME StackPage, BothPages, StackInv,
           NEW x \in Nat, x >= \h9000, x <= 65535
    PROVE  Physical(x) \notin DOMAIN stack
  <1>1. x \div \h4000 \in {2, 3} /\ (x \div \h4000 = 2 => x % \h4000 >= 4096)
    OBVIOUS
  <1>2. CASE x \div \h4000 = 2
    <2>1. x % \h4000 \notin 252 .. 255
      BY <1>1, <1>2
    <2> QED
      BY <2>1 DEF Physical, StackInv, StackPlaces
  <1>3. CASE x \div \h4000 = 3
    <2>1. Page(x \div \h4000) = 1
      BY <1>3, PagesOfOthers
    <2> QED
      BY <2>1 DEF Physical, StackInv, StackPlaces
  <1> QED
    BY <1>1, <1>2, <1>3

\* An address has memory that takes what is stored, or has not, with its slot.
LEMMA RamOrFlash ==
    ASSUME StackPage, BothPages, NEW x \in Nat, x >= \h9000, x <= 65535
    PROVE  InRam(x) <=> x < \hC000
  <1>1. x \div \h4000 = IF x < \hC000 THEN 2 ELSE 3
    OBVIOUS
  <1> QED
    BY <1>1, PageOfStack, PagesOfOthers DEF InRam

\* The two routines put the page they are given in each other's slot
\* (main.z80:103-154).
LEMMA SwappedSlots ==
    ASSUME KernelInv
    PROVE  /\ pc = <<"setpage1", Len(setpage1)>> => Page(3) = 1
           /\ pc = <<"setpage3", Len(setpage3)>> => Page(1) = 1
  <1>0. Len(setpage1) = 8 /\ Len(setpage3) = 11
    BY DEF setpage1, setpage3, LowerNibble
  <1>1. ASSUME pc = <<"setpage1", 8>> PROVE Page(3) = 1
    <2>1. InSetpage1
      BY <1>1 DEF KernelInv, InBoot, InLoop0, InLoop1, InReverse, InNibble
    <2>2. HighPage
      BY <1>1, <2>1 DEF InSetpage1
    <2>3. {k \in 0 .. 3 : PinBit(0 + k) \in data["A"]} = {0}
      BY <2>2 DEF HighPage, Upper, PinBit
    <2> QED
      BY <2>3, NumOfNibble DEF Page, Nibble
  <1>2. ASSUME pc = <<"setpage3", 11>> PROVE Page(1) = 1
    <2>1. InNibble("setpage3")
      BY <1>2 DEF KernelInv, InBoot, InLoop0, InLoop1, InReverse, InSetpage1, InNibble
    <2>2. BothPages
      BY <1>2, <2>1 DEF InNibble, After
    <2> QED
      BY <2>2, PagesOfOthers
  <1> QED
    BY <1>0, <1>1, <1>2

\* While memory is filled the stack keeps its page, the fill starts behind the
\* stack, ends with the address space and keeps its value in step with its
\* address (main.z80:85-101); setpage1 and setpage3 set each other's slot, and
\* the fill leaves RAM where slot 3 begins.
THEOREM KernelFillsBehindStack == Spec => []FillsBehindStack
  <1>1. KernelInv => FillsBehindStack
    <2> SUFFICES ASSUME KernelInv, Filling
                 PROVE  /\ mode = [p \in Ports |-> "output"]
                        /\ Page(1) = 1 /\ Page(2) = 8 /\ Page(3) = 1
                        /\ Is("store_ix") =>
                             /\ r.ix >= \h9000 /\ r.ix = \h9000 + 2 * r.hl
                             /\ Physical(r.ix + Operand) \notin DOMAIN stack
                             /\ InRam(r.ix + Operand) <=> r.ix < \hC000
      BY SwappedSlots DEF FillsBehindStack
    <2>1. InLoop1
      <3>1. ~ InBoot /\ ~ InLoop0 /\ ~ InSetpage1
        BY DEF Filling, InBoot, InLoop0, InSetpage1
      <3>2. \A f \in Routines : ~ InReverse(f)
        BY DEF Filling, InReverse
      <3>3. \A f \in {"setpage3", "setportc"} : ~ InNibble(f)
        BY DEF Filling, InNibble
      <3> QED
        BY <3>1, <3>2, <3>3 DEF KernelInv
    <2>2. PICK k \in 1 .. 6 :
              /\ pc = <<"loop1", k>> /\ Ready(0) /\ BothPages
              /\ k \in 1 .. 3 => InStep
      BY <2>1 DEF InLoop1
    <2>3. mode = [p \in Ports |-> "output"] /\ StackPage
      BY <2>2 DEF Ready, Outputs
    <2>4. Page(1) = 1 /\ Page(2) = 8 /\ Page(3) = 1
      BY <2>2, <2>3, PageOfStack, PagesOfOthers
    <2>5. ASSUME Is("store_ix")
          PROVE  /\ r.ix >= \h9000 /\ r.ix = \h9000 + 2 * r.hl
                 /\ Physical(r.ix + Operand) \notin DOMAIN stack
                 /\ InRam(r.ix + Operand) <=> r.ix < \hC000
      <3>1. Instruction = loop1[k]
        BY <2>2, AtPlace DEF Here, Program
      <3>2. k \in {1, 2} /\ Operand \in {0, 1}
        BY <2>5, <3>1 DEF Is, Operand, loop1
      <3>3. r.hl \in Nat /\ r.ix \in Nat
        BY Words DEF KernelInv, Typed, Registers
      <3>4. r.hl <= 14335 /\ r.ix = \h9000 + 2 * r.hl
        BY <2>2, <3>2 DEF InStep
      <3>5. r.ix + Operand \in Nat /\ r.ix + Operand >= \h9000 /\ r.ix + Operand <= 65535
        BY <3>2, <3>3, <3>4
      <3>6. Physical(r.ix + Operand) \notin DOMAIN stack
        BY <2>2, <2>3, <3>5, BehindStack DEF KernelInv
      <3>7. InRam(r.ix + Operand) <=> r.ix + Operand < \hC000
        BY <2>2, <2>3, <3>5, RamOrFlash
      <3>8. r.ix + Operand < \hC000 <=> r.ix < \hC000
        BY <3>2, <3>3, <3>4
      <3> QED
        BY <3>3, <3>4, <3>6, <3>7, <3>8
    <2> QED
      BY <2>3, <2>4, <2>5
  <1> QED
    BY <1>1, KernelInvariant, PTL

LEMMA NoReturn ==
    /\ \A k \in 1 .. 22 : boot[k][1] # "ret"
    /\ \A k \in 1 .. 6 : loop0[k][1] # "ret" /\ loop1[k][1] # "ret"
    /\ \A k \in 1 .. 8 : setpage1[k][1] = "ret" => setpage1[k] = <<"ret">>
    /\ \A k \in 1 .. 15 : bitreverse[k][1] = "ret" => bitreverse[k] = <<"ret">>
    /\ \A p \in Ports : \A k \in 1 .. 11 :
         LowerNibble(p)[k][1] = "ret" => LowerNibble(p)[k] = <<"ret">>
  BY DEF boot, loop0, loop1, setpage1, bitreverse, LowerNibble

LEMMA ReturnStep ==
    ASSUME KernelInv, Next, Is("ret")
    PROVE  pc' = calls[Len(calls)]
  <1>0. Typed /\ StackInv
    BY DEF KernelInv
  <1>1. ~ InBoot /\ ~ InLoop0 /\ ~ InLoop1
    <2>1. ASSUME NEW label \in DOMAIN Program, NEW k, pc = <<label, k>>
          PROVE  Program[label][k][1] = "ret"
      BY <2>1, AtPlace DEF Here, Is
    <2> QED
      BY <2>1, NoReturn DEF InBoot, InLoop0, InLoop1, Program
  <1>2. CASE InSetpage1
    <2>1. PICK k \in 1 .. 8 : pc = <<"setpage1", k>> /\ calls = <<Back("setpage1")>> /\ Ready(1)
      BY <1>2 DEF InSetpage1
    <2>2. Here(<<"ret">>)
      BY <2>1, NoReturn, AtPlace DEF Here, Is, Program
    <2>3. Len(calls) = 1
      BY <2>1, CallsSeq
    <2> QED
      BY <1>0, <2>1, <2>2, <2>3, Pops
  <1>3. ASSUME NEW f \in Routines, InReverse(f)
        PROVE  pc' = calls[Len(calls)]
    <2>1. PICK k \in 1 .. 15 :
              pc = <<"bitreverse", k>> /\ calls = <<Back(f), Inside(f)>> /\ Ready(2)
      BY <1>3 DEF InReverse
    <2>2. Here(<<"ret">>)
      <3>1. Instruction = bitreverse[k] /\ pc[1] \in DOMAIN Program
        BY <2>1, AtPlace DEF Here, Program
      <3> QED
        BY <3>1, NoReturn DEF Here, Is
    <2>3. Len(calls) = 2
      BY <2>1, CallsSeq
    <2> QED
      BY <1>0, <2>1, <2>2, <2>3, Pops
  <1>4. ASSUME NEW f \in {"setpage3", "setportc"}, InNibble(f)
        PROVE  pc' = calls[Len(calls)]
    <2>1. PICK k \in 1 .. 11 : pc = <<f, k>> /\ calls = <<Back(f)>> /\ Ready(1)
      BY <1>4 DEF InNibble
    <2>2. f \in DOMAIN Program /\ Program[f] = LowerNibble(PortOf(f)) /\ PortOf(f) \in Ports
      BY DEF Program, PortOf, setpage3, setportc, Ports
    <2>3. Instruction = LowerNibble(PortOf(f))[k] /\ pc[1] \in DOMAIN Program
      BY <2>1, <2>2, AtPlace DEF Here
    <2>4. Here(<<"ret">>)
      BY <2>2, <2>3, NoReturn DEF Here, Is
    <2>5. Len(calls) = 1
      BY <2>1, CallsSeq
    <2> QED
      BY <1>0, <2>1, <2>4, <2>5, Pops
  <1> QED
    BY <1>1, <1>2, <1>3, <1>4 DEF KernelInv

\* Every routine returns to where it was called, though it writes the ports that
\* select the page of its stack, and whatever they held at the reset (main.z80:103-193).
THEOREM KernelReturnsHome == Spec => ReturnsHome
  <1>1. KernelInv /\ [Next]_vars => [Is("ret") => pc' = calls[Len(calls)]]_vars
    BY ReturnStep
  <1> QED
    BY <1>1, KernelInvariant, PTL DEF Spec, ReturnsHome
=============================================================================
