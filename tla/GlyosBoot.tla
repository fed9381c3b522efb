----------------------------- MODULE GlyosBoot -----------------------------
(***************************************************************************)
(* The GlyOS kernel (glyos/kernel/main.z80): it programs the PIO whose     *)
(* outputs select the memory page of each 16K slot of the Z80's address    *)
(* space, with its own stack in one of them, then fills memory and blinks. *)
(*                                                                         *)
(* The program is given instruction by instruction, and a step executes    *)
(* one.  A byte is the set of its one bits, as the CPU sees it.  The       *)
(* wiring of the PIO is that of the board.  Interrupts are disabled.       *)
(***************************************************************************)
EXTENDS Integers, Sequences

CONSTANT Leftover   \* bound: what the PIO's data registers may hold at a reset

Bit == 0 .. 7
Byte == SUBSET Bit
Weight == <<1, 2, 4, 8, 16, 32, 64, 128>>
Bits(n) == {i \in Bit : (n \div Weight[i + 1]) % 2 = 1}
Num(b) == LET Value(i) == IF i \in b THEN Weight[i + 1] ELSE 0
          IN Value(0) + Value(1) + Value(2) + Value(3)
               + Value(4) + Value(5) + Value(6) + Value(7)

ASSUME LeftoverAssumption == Leftover \subseteq Byte

-----------------------------------------------------------------------------
(***************************************************************************)
(* The program: for each label its instructions, up to the jump, or the    *)
(* return, that leaves it.                                                 *)
(***************************************************************************)
boot ==
    << <<"ld_a", \hF3>>, <<"control", "A">>, <<"control", "B">>,
       <<"xor", "a">>, <<"control", "A">>, <<"control", "B">>,
       <<"ld_a", \hF3>>, <<"control", "B">>, <<"xor", "a">>, <<"control", "B">>,
       <<"ld_a", \h10>>, <<"out", "B">>, <<"ld_sp", \h8100>>,
       <<"ld_a", \h01>>, <<"call", "setpage1">>,
       <<"ld_a", \h81>>, <<"call", "setpage3">>,
       <<"ld_a", \h0F>>, <<"call", "setportc">>,
       <<"ld_ix", \h8000>>, <<"ld_bc", 2>>, <<"jp", "loop0">> >>

loop0 == << <<"ld_hl", 0>>, <<"ld_ix", \h9000>>,
            <<"in", "B">>, <<"xor_n", \h0F>>, <<"out", "B">>, <<"jp", "loop1">> >>

loop1 == << <<"store_ix", 0>>, <<"store_ix", 1>>, <<"inc_hl">>, <<"add_ix_bc">>,
            <<"jp_c", "loop0">>, <<"jp", "loop1">> >>

\* The upper four bits, as they are, put in place of those of a port.
setpage1 == << <<"and_n", \h0F>>, <<"call", "bitreverse">>, <<"ld_l_a">>,
               <<"in", "A">>, <<"and_n", \h0F>>, <<"or_l">>, <<"out", "A">>, <<"ret">> >>

\* The upper four bits, put in place of the lower four of a port.
LowerNibble(port) ==
    << <<"call", "bitreverse">>, <<"srl_a">>, <<"srl_a">>, <<"srl_a">>, <<"srl_a">>, <<"ld_l_a">>,
       <<"in", port>>, <<"and_n", \hF0>>, <<"or_l">>, <<"out", port>>, <<"ret">> >>

setpage2 == LowerNibble("B")

\* Mutant of setpage3: the other slot of the port is not kept.
setpage3_alone == SubSeq(LowerNibble("A"), 1, 6) \o << <<"out", "A">>, <<"ret">> >>
setpage3 == LowerNibble("A")

\* Mutant of setportc: it does what its comment says, and sets the high bits.
setportc_high == << <<"call", "bitreverse">>, <<"ld_l_a">>,
                    <<"in", "B">>, <<"and_n", \h0F>>, <<"or_l">>, <<"out", "B">>, <<"ret">> >>
setportc == LowerNibble("B")

bitreverse ==
    << <<"ld_l_a">>, <<"rlca">>, <<"rlca">>, <<"xor", "l">>, <<"and_n", \hAA>>, <<"xor", "l">>,
       <<"ld_l_a">>, <<"rlca">>, <<"rlca">>, <<"rlca">>, <<"rrc_l">>,
       <<"xor", "l">>, <<"and_n", \h66>>, <<"xor", "l">>, <<"ret">> >>

Program == [boot |-> boot, loop0 |-> loop0, loop1 |-> loop1, setpage1 |-> setpage1,
            setpage2 |-> setpage2, setpage3 |-> setpage3, setportc |-> setportc,
            bitreverse |-> bitreverse]

-----------------------------------------------------------------------------
VARIABLES pc,     \* a label, and the instruction under it
          r,      \* the registers: a is a byte, the others are words; carry
                  \* is as add sets it, that of other instructions is not read
          data,   \* the PIO's output registers
          mode,   \* of each port: what the control words have made of it
          stack,  \* the bytes of memory that were pushed, by page and offset
          calls   \* ghost: where the calls under way are to return to

vars == <<pc, r, data, mode, stack, calls>>

Ports == {"A", "B"}
L == Bits(r.hl % 256)
WithL(b) == [r EXCEPT !.hl = 256 * (@ \div 256) + Num(b)]

Init ==
    /\ pc = <<"boot", 1>>
    /\ r = [a |-> {}, hl |-> 0, ix |-> 0, bc |-> 0, sp |-> 0, carry |-> FALSE]
    /\ data \in [Ports -> Leftover]
    /\ mode = [p \in Ports |-> "input"]
    /\ stack = <<>> /\ calls = <<>>

(***************************************************************************)
(* The board: bit i of the CPU's data bus is bit 7 - i of the PIO's.  The  *)
(* pins A0 to A3 are the page of slot 3, A4 to A7 of slot 1, and B0 to B3  *)
(* of slot 2; slot 0 has page 0.  B4 to B7 are the pins of GPIO port C.    *)
(* Pages from 8 are RAM, those below are flash.                            *)
(***************************************************************************)
PinBit(pin) == 7 - pin
Nibble(port, pin) == Num({k \in 0 .. 3 : PinBit(pin + k) \in data[port]})
Page(slot) == CASE slot = 0 -> 0
                [] slot = 1 -> Nibble("A", 4)
                [] slot = 2 -> Nibble("B", 0)
                [] slot = 3 -> Nibble("A", 0)
Physical(address) == <<Page(address \div \h4000), address % \h4000>>
InRam(address) == Page(address \div \h4000) >= 8

-----------------------------------------------------------------------------
(***************************************************************************)
(* The instructions.                                                       *)
(***************************************************************************)
Instruction == Program[pc[1]][pc[2]]
Is(op) == pc[1] \in DOMAIN Program /\ Instruction[1] = op
Operand == Instruction[2]
Following == <<pc[1], pc[2] + 1>>

Exclusive(b, c) == (b \ c) \cup (c \ b)
RotatedLeft(b) == {(i + 1) % 8 : i \in b}
RotatedRight(b) == {(i + 7) % 8 : i \in b}
ShiftedRight(b) == {i - 1 : i \in b \ {0}}

\* Mutant of Sum16: the sum keeps its 17th bit.
WideSum(n) == n
Sum16(n) == n % 65536

Compute ==
    /\ \/ Is("ld_a") /\ r' = [r EXCEPT !.a = Bits(Operand)]
       \/ Is("and_n") /\ r' = [r EXCEPT !.a = @ \cap Bits(Operand)]
       \/ Is("or_l") /\ r' = [r EXCEPT !.a = @ \cup L]
       \/ Is("xor") /\ r' = [r EXCEPT !.a = Exclusive(@, IF Operand = "a" THEN @ ELSE L)]
       \/ Is("xor_n") /\ r' = [r EXCEPT !.a = Exclusive(@, Bits(Operand))]
       \/ Is("rlca") /\ r' = [r EXCEPT !.a = RotatedLeft(@)]
       \/ Is("srl_a") /\ r' = [r EXCEPT !.a = ShiftedRight(@)]
       \/ Is("in") /\ r' = [r EXCEPT !.a = data[Operand]]
       \/ Is("ld_l_a") /\ r' = WithL(r.a)
       \/ Is("rrc_l") /\ r' = WithL(RotatedRight(L))
       \/ Is("ld_hl") /\ r' = [r EXCEPT !.hl = Operand]
       \/ Is("ld_ix") /\ r' = [r EXCEPT !.ix = Operand]
       \/ Is("ld_bc") /\ r' = [r EXCEPT !.bc = Operand]
       \/ Is("ld_sp") /\ r' = [r EXCEPT !.sp = Operand]
       \/ Is("inc_hl") /\ r' = [r EXCEPT !.hl = Sum16(@ + 1)]
       \/ Is("add_ix_bc") /\ r' = [r EXCEPT !.ix = Sum16(@ + r.bc),
                                             !.carry = r.ix + r.bc > 65535]
    /\ pc' = Following /\ UNCHANGED <<data, mode, stack, calls>>

Out ==
    /\ Is("out")
    /\ data' = [data EXCEPT ![Operand] = r.a]
    /\ pc' = Following /\ UNCHANGED <<r, mode, stack, calls>>

\* A control word is the mode word of mode 3, or the mask of inputs that has to
\* follow it.
Control ==
    /\ Is("control")
    /\ mode' = [mode EXCEPT ![Operand] =
                  IF @ = "mask_next" THEN IF r.a = {} THEN "output" ELSE "mixed"
                  ELSE IF r.a = Bits(\hF3) THEN "mask_next" ELSE @]
    /\ pc' = Following /\ UNCHANGED <<r, data, stack, calls>>

\* Memory is only followed where the stack has been.
Stored(address, byte) ==
    IF InRam(address) /\ Physical(address) \in DOMAIN stack
    THEN [stack EXCEPT ![Physical(address)] = byte] ELSE stack
StoreIx ==
    /\ Is("store_ix")
    /\ stack' = Stored(r.ix + Operand, "fill")
    /\ pc' = Following /\ UNCHANGED <<r, data, mode, calls>>

\* Flash does not take what is pushed.
Pushed(high, low) ==
    [x \in DOMAIN stack \cup {Physical(w) : w \in {w \in {high, low} : InRam(w)}} |->
        IF x = Physical(high) THEN <<"high", Following>>
        ELSE IF x = Physical(low) THEN <<"low", Following>> ELSE stack[x]]
Call ==
    /\ Is("call")
    /\ stack' = Pushed(r.sp - 1, r.sp - 2) /\ r' = [r EXCEPT !.sp = @ - 2]
    /\ pc' = <<Operand, 1>> /\ calls' = Append(calls, Following)
    /\ UNCHANGED <<data, mode>>

Lost == <<"lost", 1>>
At(address) == IF Physical(address) \in DOMAIN stack THEN stack[Physical(address)] ELSE <<"none", Lost>>
Popped == IF At(r.sp)[1] = "low" /\ At(r.sp + 1) = <<"high", At(r.sp)[2]>>
          THEN At(r.sp)[2] ELSE Lost
Ret ==
    /\ Is("ret")
    /\ pc' = Popped /\ r' = [r EXCEPT !.sp = @ + 2]
    /\ calls' = SubSeq(calls, 1, Len(calls) - 1)
    /\ UNCHANGED <<data, mode, stack>>

Jump ==
    /\ \/ Is("jp") /\ pc' = <<Operand, 1>>
       \/ Is("jp_c") /\ pc' = IF r.carry THEN <<Operand, 1>> ELSE Following
    /\ UNCHANGED <<r, data, mode, stack, calls>>

Next == Compute \/ Out \/ Control \/ StoreIx \/ Call \/ Ret \/ Jump

Spec == Init /\ [][Next]_vars

-----------------------------------------------------------------------------
Word == 0 .. 65535
TypeOK ==
    /\ pc = Lost \/ (pc[1] \in DOMAIN Program /\ pc[2] \in DOMAIN Program[pc[1]])
    /\ r \in [a : Byte, hl : Word, ix : Word, bc : Word, sp : Word, carry : BOOLEAN]
    /\ data \in [Ports -> Byte]
    /\ mode \in [Ports -> {"input", "mask_next", "output", "mixed"}]
    /\ Len(calls) <= 2

(***************************************************************************)
(* Every routine returns to where it was called, though the routines       *)
(* change the port that selects the page its return address is in          *)
(* (main.z80:62-63, "We don't have a stack pointer yet").                  *)
(***************************************************************************)
ReturnsHome == [][Is("ret") => pc' = calls[Len(calls)]]_vars

(***************************************************************************)
(* While memory is filled and the lights blink, the stack's page stays     *)
(* under it, whatever the PIO's registers held before: two slots share a   *)
(* port, and so do a slot and the lights.  The fill starts behind the      *)
(* stack, ends with the address space, and its value keeps in step with    *)
(* its address.                                                            *)
(*                                                                         *)
(* The slots are not those of the comments.  setpage1 ("Set page in slot   *)
(* 1", main.z80:103) puts the page it is given in slot 3, and setpage3 in  *)
(* slot 1; and slot 3, which boot asks to be "RAM page 1" (main.z80:75),   *)
(* has page 1 of the flash, so that what is to "fill ram" (main.z80:85)    *)
(* stores in RAM up to the end of slot 2 and in flash, which takes         *)
(* nothing, from there on.                                                 *)
(***************************************************************************)
Filling == pc[1] = "loop1"
FillsBehindStack ==
    /\ pc = <<"setpage1", Len(setpage1)>> => Page(3) = 1
    /\ pc = <<"setpage3", Len(setpage3)>> => Page(1) = 1
    /\ Filling =>
        /\ mode = [p \in Ports |-> "output"]
        /\ Page(1) = 1 /\ Page(2) = 8 /\ Page(3) = 1
        /\ Is("store_ix") =>
             /\ r.ix >= \h9000 /\ r.ix = \h9000 + 2 * r.hl
             /\ Physical(r.ix + Operand) \notin DOMAIN stack
             /\ InRam(r.ix + Operand) <=> r.ix < \hC000
=============================================================================
