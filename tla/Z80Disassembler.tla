-------------------------- MODULE Z80Disassembler --------------------------
(***************************************************************************)
(* glydb's `disassemble` command: the decoder z80/disassemble.c and the    *)
(* loop of commands/disassemble.c that lists one instruction after the     *)
(* other over the bytes read from the target.                              *)
(*                                                                         *)
(* The decoder reads operands in the order it adds them, so decoding is    *)
(* two operators: Decode gives an opcode's mnemonic and the forms of its   *)
(* operands, and Fetch reads the bytes that the forms call for.  Printing  *)
(* is left out, except for what it prints of a byte nobody wrote (Junk).   *)
(***************************************************************************)
EXTENDS Integers, Sequences

CONSTANTS Codes, \* the byte sequences disassembled
          Junk   \* bound: what may lie in a byte that is never written

Byte == 0 .. 255
MaxOperands == 3   \* Z80_MAX_OPERANDS
MaxInstSize == 4   \* Z80_MAX_INST_SIZE

ASSUME DisassemblerAssumption ==
    /\ \A c \in Codes : c \in Seq(Byte) /\ c # <<>>
    /\ Junk \subseteq Byte /\ Junk # {}

-----------------------------------------------------------------------------
(***************************************************************************)
(* Operands: the union of struct z80_op.                                   *)
(***************************************************************************)
Inst(m, ops) == [mnemoric |-> m, operands |-> ops]
Plain(m) == Inst(m, <<>>)

R8(r) == [type |-> "R8", reg8 |-> r]
R8Deref(r) == [type |-> "R8_DEREF", reg8 |-> r]
R16(r) == [type |-> "R16", reg16 |-> r]
R16Deref(r) == [type |-> "R16_DEREF", reg16 |-> r]
Status(cc) == [type |-> "STATUS", status |-> cc]
Imm8(n) == [type |-> "U8", imm8 |-> n]
Imm8Deref(n) == [type |-> "U8_DEREF", imm8 |-> n]
Imm16(n) == [type |-> "U16", imm16 |-> n]
Imm16Deref(n) == [type |-> "U16_DEREF", imm16 |-> n]
JmpRel(d) == [type |-> "JMP_REL", jmp_disp |-> d]
Im(mode) == [type |-> "IM", im |-> mode]
AfShadow == [type |-> "AF_SHADOW"]
IndexRel(idx, d) == [type |-> idx, displacement |-> d]

\* Operands whose bytes Fetch reads.
N == [fetch |-> "n"]
NN == [fetch |-> "nn"]
NDeref == [fetch |-> "n_deref"]
NNDeref == [fetch |-> "nn_deref"]
D == [fetch |-> "d"]
Disp(idx) == [fetch |-> idx]

\* Mutant of Signed: the byte is taken as it is.
SignedAsByte(b) == b

\* The conversion of a byte to int8_t.
Signed(b) == IF b < 128 THEN b ELSE b - 256

cc_tab == <<"NZ", "Z", "NC", "C", "PO", "PE", "P", "M">>
rp_tab == <<"BC", "DE", "HL", "SP">>
rp2_tab == <<"BC", "DE", "HL", "AF">>
im_tab == <<"0", "0/1", "1", "2">>
bli_tab == << <<"LDI", "CPI", "INI", "OUTI">>, <<"LDD", "CPD", "IND", "OUTD">>,
              <<"LDIR", "CPIR", "INIR", "OTIR">>, <<"LDDR", "CPDR", "INDR", "OTDR">> >>
rot_tab == <<"RLC", "RRC", "RL", "RR", "SLA", "SRA", "SLL", "SRL">>
alu_tab == <<"ADD", "ADC", "SUB", "SBC", "AND", "XOR", "OR", "CP">>

-----------------------------------------------------------------------------
(***************************************************************************)
(* Registers under a prefix: is_ix, is_iy or none of them.                 *)
(***************************************************************************)
High == [none |-> "H", IX |-> "IXH", IY |-> "IYH"]
Low == [none |-> "L", IX |-> "IXL", IY |-> "IYL"]
Wide == [none |-> "HL", IX |-> "IX", IY |-> "IY"]

OpR(r, idx) ==
    CASE r = 6 -> IF idx = "none" THEN R16Deref("HL") ELSE Disp(idx)
      [] OTHER -> R8(<<"B", "C", "D", "E", High[idx], Low[idx], "", "A">>[r + 1])

OpPair(name, idx) == R16(IF name = "HL" THEN Wide[idx] ELSE name)
OpRp(p, idx) == OpPair(rp_tab[p + 1], idx)
OpRp2(p, idx) == OpPair(rp2_tab[p + 1], idx)
OpHlOrIndex(idx) == R16(Wide[idx])
OpCc(cc) == Status(cc_tab[cc + 1])

OpAlu(y, op) ==
    Inst(alu_tab[y + 1], IF y \in {0, 1, 3} THEN <<R8("A"), op>> ELSE <<op>>)

-----------------------------------------------------------------------------
(***************************************************************************)
(* disassemble_regular, by the fields x, y, z of the opcode; y holds p and *)
(* q: p = y \div 2, q = y % 2.                                             *)
(***************************************************************************)
RegularX0(y, z, idx) ==
    LET p == y \div 2
        a == R8("A")
        hl == OpHlOrIndex(idx)
        bc == R16Deref("BC")
    IN CASE z = 0 -> << Plain("NOP"), Inst("EX", <<a, AfShadow>>),
                        Inst("DJNZ", <<D>>), Inst("JR", <<D>>),
                        Inst("JR", <<OpCc(0), D>>), Inst("JR", <<OpCc(1), D>>),
                        Inst("JR", <<OpCc(2), D>>), Inst("JR", <<OpCc(3), D>>) >>[y + 1]
         [] z = 1 -> IF y % 2 = 0 THEN Inst("LD", <<OpRp(p, idx), NN>>)
                                  ELSE Inst("ADD", <<hl, OpRp(p, idx)>>)
         [] z = 2 -> Inst("LD", << <<bc, a>>, <<a, bc>>,
                                   <<bc, a>>, <<a, R16Deref("DE")>>,
                                   <<NNDeref, hl>>, <<hl, NNDeref>>,
                                   <<NNDeref, a>>, <<a, NNDeref>> >>[y + 1])
         [] z = 3 -> Inst(IF y % 2 = 0 THEN "INC" ELSE "DEC", <<OpRp(p, idx)>>)
         [] z = 4 -> Inst("INC", <<OpR(y, idx)>>)
         [] z = 5 -> Inst("DEC", <<OpR(y, idx)>>)
         [] z = 6 -> Inst("LD", <<OpR(y, idx), N>>)
         [] z = 7 -> Plain(<<"RLCA", "RRCA", "RLA", "RRA",
                             "DAA", "CPL", "SCF", "CCF">>[y + 1])

\* Mutant of RegularX1: without the special case.
RegularX1AllHalves(y, z, idx) ==
    IF y = 6 /\ z = 6 THEN Plain("HALT") ELSE Inst("LD", <<OpR(y, idx), OpR(z, idx)>>)

\* Beside a memory operand, h and l are the normal ones.
RegularX1(y, z, idx) ==
    IF y = 6 /\ z = 6
    THEN Plain("HALT")
    ELSE Inst("LD", << OpR(y, IF z = 6 THEN "none" ELSE idx),
                       OpR(z, IF y = 6 THEN "none" ELSE idx) >>)

RegularX3(y, z, idx) ==
    LET p == y \div 2
        invalid == Plain("INVALID")   \* the prefixes
    IN CASE z = 0 -> Inst("RET", <<OpCc(y)>>)
         [] z = 1 -> IF y % 2 = 0
                     THEN Inst("POP", <<OpRp2(p, idx)>>)
                     ELSE << Plain("RET"), Plain("EXX"), Inst("JP", <<R16("HL")>>),
                             Inst("LD", <<R16("SP"), R16("HL")>>) >>[p + 1]
         [] z = 2 -> Inst("JP", <<OpCc(y), NN>>)
         [] z = 3 -> << Inst("JP", <<NN>>), invalid,
                        Inst("OUT", <<NDeref, R8("A")>>), Inst("IN", <<R8("A"), NDeref>>),
                        Inst("EX", <<R16Deref("SP"), OpHlOrIndex(idx)>>),
                        Inst("EX", <<R16("DE"), R16("HL")>>),
                        Plain("DI"), Plain("EI") >>[y + 1]
         [] z = 4 -> Inst("CALL", <<OpCc(y), NN>>)
         [] z = 5 -> IF y % 2 = 0
                     THEN Inst("PUSH", <<OpRp2(p, idx)>>)
                     ELSE << Inst("CALL", <<NN>>), invalid, invalid, invalid >>[p + 1]
         [] z = 6 -> OpAlu(y, N)
         [] z = 7 -> Inst("RST", <<Imm8(8 * y)>>)

Regular(x, y, z, idx) ==
    CASE x = 0 -> RegularX0(y, z, idx)
      [] x = 1 -> RegularX1(y, z, idx)
      [] x = 2 -> OpAlu(y, OpR(z, idx))
      [] x = 3 -> RegularX3(y, z, idx)

-----------------------------------------------------------------------------
(***************************************************************************)
(* disassemble_extended.  For x = 1 its inner switch has no case for       *)
(* z = 7, and control runs on into the case of x = 2, which looks at y.    *)
(***************************************************************************)
ExtendedByY(y) ==
    LET a == R8("A")
        ld == Inst("LD", <<a, R8("I")>>)
    IN << Inst("LD", <<R8("I"), a>>), Inst("LD", <<R8("R"), a>>), ld, ld,
          Plain("RRD"), Plain("RLD"), Plain("NOP"), Plain("NOP") >>[y + 1]

ExtendedX1(y, z) ==
    LET p == y \div 2
        c == R8Deref("C")
        r == OpR(y, "none")
    IN CASE z = 0 -> Inst("IN", IF y # 6 THEN <<r, c>> ELSE <<c>>)
         [] z = 1 -> Inst("OUT", <<c, IF y # 6 THEN r ELSE Imm8(0)>>)
         [] z = 2 -> Inst(IF y % 2 = 0 THEN "SBC" ELSE "ADC",
                          <<R16("HL"), OpRp(p, "none")>>)
         [] z = 3 -> Inst("LD", IF y % 2 = 0 THEN <<NNDeref, OpRp(p, "none")>>
                                             ELSE <<OpRp(p, "none"), NNDeref>>)
         [] z = 4 -> Plain("NEG")
         [] z = 5 -> Plain(IF y = 1 THEN "RETI" ELSE "RETN")
         [] z = 6 -> Inst("IM", <<Im(im_tab[(y % 4) + 1])>>)
         [] z = 7 -> ExtendedByY(y)

Extended(x, y, z) ==
    CASE x = 0 -> Plain("INVALID")
      [] x = 1 -> ExtendedX1(y, z)
      [] x = 2 -> ExtendedByY(y)
      [] x = 3 -> Plain(IF z <= 3 /\ y >= 4 THEN bli_tab[y - 3][z + 1] ELSE "INVALID")

\* disassemble_bit; under an index prefix d is the displacement before the opcode.
Bit(x, y, z, idx, d) ==
    Inst( IF x = 0 THEN rot_tab[y + 1] ELSE <<"BIT", "RES", "SET">>[x],
          (IF x = 0 THEN <<>> ELSE <<Imm8(y)>>)
            \o (IF idx = "none" THEN <<OpR(z, idx)>>
                ELSE <<IndexRel(idx, d)>>
                       \o (IF x # 1 /\ z # 6 THEN <<OpR(z, idx)>> ELSE <<>>)) )

-----------------------------------------------------------------------------
(***************************************************************************)
(* Reading bytes: read_u8 gives one byte after the other, and 0 with       *)
(* out_of_bounds set from the first that is not there, so that the number  *)
(* of reads is the whole state of a reader.                                *)
(***************************************************************************)
ReadU8(bytes, k) == IF k <= Len(bytes) THEN bytes[k] ELSE 0
OutOfBounds(bytes, reads) == reads > Len(bytes)

\* Mutant of SizeAfter: without the check of the length.
SizeUnchecked(bytes, reads) == reads
SizeAfter(bytes, reads) == IF OutOfBounds(bytes, reads) THEN Len(bytes) ELSE reads

\* op_n tags the byte it stores as a 16-bit operand and leaves the other half
\* of it unwritten.
Fetch(acc, form, bytes, junk) ==
    LET n == acc.reads
        lo == ReadU8(bytes, n + 1)
        word == 256 * ReadU8(bytes, n + 2) + lo
        With(k, op) == [reads |-> n + k, operands |-> Append(acc.operands, op)]
    IN IF "fetch" \notin DOMAIN form THEN With(0, form)
       ELSE CASE form = N -> With(1, Imm16(256 * junk + lo))
              [] form = NDeref -> With(1, Imm8Deref(lo))
              [] form = D -> With(1, JmpRel(2 + Signed(lo)))
              [] form = NN -> With(2, Imm16(word))
              [] form = NNDeref -> With(2, Imm16Deref(word))
              [] OTHER -> With(1, IndexRel(form.fetch, Signed(lo)))

\* The operands, one after the other, behind the opcode's own bytes.
ReadOperands(forms, at, bytes, junk) ==
    LET acc[i \in 0 .. Len(forms)] ==
            IF i = 0 THEN [reads |-> at, operands |-> <<>>]
            ELSE Fetch(acc[i - 1], forms[i], bytes, junk)
    IN acc[Len(forms)]

Decode(extended, bit, idx, opcode, d) ==
    LET x == opcode \div 64
        y == (opcode \div 8) % 8
        z == opcode % 8
    IN CASE extended -> Extended(x, y, z)
         [] ~extended /\ bit -> Bit(x, y, z, idx, d)
         [] ~extended /\ ~bit -> Regular(x, y, z, idx)

Index(first) == CASE first = \hDD -> "IX" [] first = \hDF -> "IY" [] OTHER -> "none"

\* The instruction with its operands read, and the number of reads.  Under an
\* index prefix and 0xCB the displacement comes before the opcode.
ReadInst(bytes, junk) ==
    LET first == ReadU8(bytes, 1)
        idx == Index(first)
        extended == first = \hED
        bit == ReadU8(bytes, IF idx = "none" THEN 1 ELSE 2) = \hCB
        at == CASE idx # "none" /\ bit -> 4
                [] idx = "none" /\ ~extended /\ ~bit -> 1
                [] OTHER -> 2
        inst == Decode(extended, bit, idx, ReadU8(bytes, at), Signed(ReadU8(bytes, 3)))
        done == ReadOperands(inst.operands, at, bytes, junk)
    IN [mnemoric |-> inst.mnemoric, operands |-> done.operands,
        size |-> SizeAfter(bytes, done.reads), cut |-> OutOfBounds(bytes, done.reads)]

\* Mutant of Disassemble: an instruction that is cut off is not taken back.
DisassembleKeepsCut(bytes, junk) ==
    LET read == ReadInst(bytes, junk)
    IN [mnemoric |-> read.mnemoric, operands |-> read.operands, size |-> read.size]

\* z80_disassemble.  It returns at once when the opcode is out of bounds; as
\* nothing more can be read then, and nothing kept, that is the same as going on.
Disassemble(bytes, junk) ==
    LET read == ReadInst(bytes, junk)
    IN [mnemoric |-> IF read.cut THEN "INVALID" ELSE read.mnemoric,
        operands |-> IF read.cut THEN <<>> ELSE read.operands,
        size |-> read.size]

-----------------------------------------------------------------------------
(***************************************************************************)
(* The command's loop.                                                     *)
(***************************************************************************)
VARIABLES code,    \* dbg->scratch up to amt; empty between commands
          offset,  \* of the next instruction
          listing  \* the instructions printed: [at, inst]

vars == <<code, offset, listing>>

Init == code = <<>> /\ offset = 0 /\ listing = <<>>

\* The arguments are in range and target_read_memory has read the bytes.
Start ==
    /\ code = <<>>
    /\ \E c \in Codes : code' = c
    /\ offset' = 0
    /\ UNCHANGED listing

Rest == SubSeq(code, offset + 1, Len(code))

ListNext ==
    /\ code # <<>> /\ offset < Len(code)
    /\ \E junk \in Junk :
         LET inst == Disassemble(Rest, junk)
         IN /\ listing' = Append(listing, [at |-> offset, inst |-> inst])
            /\ offset' = offset + inst.size
    /\ UNCHANGED code

Return ==
    /\ code # <<>> /\ offset >= Len(code)
    /\ code' = <<>> /\ offset' = 0 /\ listing' = <<>>

Next == Start \/ ListNext \/ Return

Spec == Init /\ [][Next]_vars

-----------------------------------------------------------------------------
(***************************************************************************)
(* Properties.                                                             *)
(***************************************************************************)
Uint16 == 0 .. 65535
Int8 == -128 .. 127
JumpRange == -126 .. 129

OperandOK(op) ==
    \/ /\ op.type \in {"R8", "R8_DEREF"}
       /\ op.reg8 \in {"A", "B", "C", "D", "E", "H", "L", "I", "R", "IXH", "IXL", "IYH", "IYL"}
    \/ /\ op.type \in {"R16", "R16_DEREF"}
       /\ op.reg16 \in {"AF", "BC", "DE", "HL", "SP", "IX", "IY"}
    \/ op.type = "STATUS" /\ op.status \in {cc_tab[k] : k \in 1 .. 8}
    \/ op.type \in {"U8", "U8_DEREF"} /\ op.imm8 \in Byte
    \/ op.type \in {"U16", "U16_DEREF"} /\ op.imm16 \in Uint16
    \/ op.type = "JMP_REL" /\ op.jmp_disp \in JumpRange
    \/ op.type = "IM" /\ op.im \in {im_tab[k] : k \in 1 .. 4}
    \/ op.type = "AF_SHADOW"
    \/ op.type \in {"IX", "IY"} /\ op.displacement \in Int8

\* Types: every operand of the listing holds the member that its type says is
\* valid, in the range z80.h gives it, and there are at most three of them
\* (next_operand asserts it).
TypeOK ==
    /\ code \in Seq(Byte)
    /\ offset \in Nat
    /\ \A k \in 1 .. Len(listing) :
         LET ops == listing[k].inst.operands
         IN Len(ops) <= MaxOperands /\ \A j \in 1 .. Len(ops) : OperandOK(ops[j])

\* Every instruction, valid or not, has 1 to Z80_MAX_INST_SIZE bytes, and they
\* lie in the bytes read: `inst->size` is always valid (disassemble.h:8).  The
\* padding of a line counts from the size to the maximum, and the loop to amt,
\* in unsigned arithmetic: either would run away if this failed, and the loop
\* would not end if a size were 0.
SizesFit ==
    /\ offset <= Len(code)
    /\ \A k \in 1 .. Len(listing) : listing[k].inst.size \in 1 .. MaxInstSize

\* The bytes of an instruction are all that decides it: whatever follows, a
\* valid instruction is the one its own bytes give, and what is invalid only
\* because it is cut off takes all the bytes that are left.  So listing a region
\* in pieces, or cut short, never shows another instruction where it is whole.
BytesDecide ==
    \A k \in 1 .. Len(listing) : \A junk \in Junk :
        LET at == listing[k].at
            inst == listing[k].inst
            own == Disassemble(SubSeq(code, at + 1, at + inst.size), junk)
        IN /\ own.size = inst.size
           /\ own.mnemoric = inst.mnemoric
           /\ \A cut \in 1 .. inst.size - 1 :
                inst.mnemoric # "INVALID" =>
                    Disassemble(SubSeq(code, at + 1, at + cut), junk).mnemoric
                        = "INVALID"
=============================================================================
