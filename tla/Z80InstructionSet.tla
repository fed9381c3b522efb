------------------------- MODULE Z80InstructionSet -------------------------
(***************************************************************************)
(* The documented instructions of the Z80 (doc/manuals/Z80.pdf, to which   *)
(* z80.h refers), as an assembler sees them: from an instruction to its    *)
(* bytes, group by group.  It is what the disassembler is compared with,   *)
(* and shares with it only the names of the operands.                      *)
(***************************************************************************)
EXTENDS Z80Disassembler, SequencesExt

CONSTANT ByteArgs   \* bound: the immediate bytes and displacements

ASSUME InstructionSetAssumption == ByteArgs \subseteq Byte

Reg == [B |-> 0, C |-> 1, D |-> 2, E |-> 3, H |-> 4, L |-> 5, A |-> 7]
Pair == [BC |-> 0, DE |-> 1, HL |-> 2, SP |-> 3]
Stacked == [BC |-> 0, DE |-> 1, HL |-> 2, AF |-> 3]
Cond == [NZ |-> 0, Z |-> 1, NC |-> 2, C |-> 3, PO |-> 4, PE |-> 5, P |-> 6, M |-> 7]
Prefix == [IX |-> <<\hDD>>, IY |-> <<\hFD>>]

Asm(m, ops, bytes) == [mnemoric |-> m, operands |-> ops, bytes |-> bytes]
Words == {<<lo, hi>> : lo \in ByteArgs, hi \in ByteArgs}
Val(w) == 256 * w[2] + w[1]

\* The operands with a place in an opcode: registers, (hl), and (ix+d), (iy+d)
\* with a prefix before the opcode and the displacement after it.
InReg == {[op |-> R8(r), pre |-> <<>>, num |-> Reg[r], post |-> <<>>] : r \in DOMAIN Reg}
InHL == {[op |-> R16Deref("HL"), pre |-> <<>>, num |-> 6, post |-> <<>>]}
Indexed == {[op |-> IndexRel(i, Signed(d)), pre |-> Prefix[i], num |-> 6, post |-> <<d>>] :
              i \in {"IX", "IY"}, d \in ByteArgs}
InMemory == InHL \cup Indexed
Places == InReg \cup InMemory

\* The pair that an index prefix replaces.
Wides == {[name |-> "HL", pre |-> <<>>], [name |-> "IX", pre |-> Prefix["IX"]],
          [name |-> "IY", pre |-> Prefix["IY"]]}
PairName(p, w) == R16(IF p = "HL" THEN w.name ELSE p)
A == R8("A")

\* Instructions with an immediate byte behind their opcode.
AluNum == [ADD |-> 0, ADC |-> 1, SUB |-> 2, SBC |-> 3, AND |-> 4, XOR |-> 5, OR |-> 6, CP |-> 7]
AluAcc(m) == IF m \in {"ADD", "ADC", "SBC"} THEN <<A>> ELSE <<>>
LoadByte ==
    {Asm("LD", <<t.op, Imm8(n)>>, t.pre \o <<6 + 8 * t.num>> \o t.post \o <<n>>) :
        t \in Places, n \in ByteArgs}
AluByte ==
    {Asm(m, AluAcc(m) \o <<Imm8(n)>>, <<\hC6 + 8 * AluNum[m], n>>) :
        m \in DOMAIN AluNum, n \in ByteArgs}

Load8 ==
    LoadByte
    \cup {Asm("LD", <<R8(r), s.op>>, s.pre \o <<64 + 8 * Reg[r] + s.num>> \o s.post) :
        r \in DOMAIN Reg, s \in Places}
    \cup {Asm("LD", <<t.op, R8(r)>>, t.pre \o <<112 + Reg[r]>> \o t.post) :
        t \in InMemory, r \in DOMAIN Reg}
    \cup {Asm("LD", <<A, R16Deref("BC")>>, <<\h0A>>), Asm("LD", <<A, R16Deref("DE")>>, <<\h1A>>),
          Asm("LD", <<R16Deref("BC"), A>>, <<\h02>>), Asm("LD", <<R16Deref("DE"), A>>, <<\h12>>),
          Asm("LD", <<A, R8("I")>>, <<\hED, \h57>>), Asm("LD", <<A, R8("R")>>, <<\hED, \h5F>>),
          Asm("LD", <<R8("I"), A>>, <<\hED, \h47>>), Asm("LD", <<R8("R"), A>>, <<\hED, \h4F>>)}
    \cup {Asm("LD", <<A, Imm16Deref(Val(w))>>, <<\h3A>> \o w) : w \in Words}
    \cup {Asm("LD", <<Imm16Deref(Val(w)), A>>, <<\h32>> \o w) : w \in Words}

Load16 ==
    {Asm("LD", <<R16(i.name), Imm16(Val(w))>>, i.pre \o <<\h21>> \o w) :
        i \in Wides, w \in Words}
    \cup {Asm("LD", <<R16(p), Imm16(Val(w))>>, <<1 + 16 * Pair[p]>> \o w) :
        p \in DOMAIN Pair, w \in Words}
    \cup {Asm("LD", <<R16(i.name), Imm16Deref(Val(w))>>, i.pre \o <<\h2A>> \o w) :
        i \in Wides, w \in Words}
    \cup {Asm("LD", <<Imm16Deref(Val(w)), R16(i.name)>>, i.pre \o <<\h22>> \o w) :
        i \in Wides, w \in Words}
    \cup {Asm("LD", <<R16(p), Imm16Deref(Val(w))>>, <<\hED, \h4B + 16 * Pair[p]>> \o w) :
        p \in DOMAIN Pair, w \in Words}
    \cup {Asm("LD", <<Imm16Deref(Val(w)), R16(p)>>, <<\hED, \h43 + 16 * Pair[p]>> \o w) :
        p \in DOMAIN Pair, w \in Words}
    \cup {Asm("LD", <<R16("SP"), R16(i.name)>>, i.pre \o <<\hF9>>) : i \in Wides}
    \cup (UNION {{Asm("PUSH", <<R16(i.name)>>, i.pre \o <<\hE5>>),
                  Asm("POP", <<R16(i.name)>>, i.pre \o <<\hE1>>)} : i \in Wides})
    \cup (UNION {{Asm("PUSH", <<R16(p)>>, <<\hC5 + 16 * Stacked[p]>>),
                  Asm("POP", <<R16(p)>>, <<\hC1 + 16 * Stacked[p]>>)} :
                 p \in DOMAIN Stacked})

Block ==
    {Asm(<< <<"LDI", "CPI", "INI", "OUTI">>, <<"LDD", "CPD", "IND", "OUTD">>,
            <<"LDIR", "CPIR", "INIR", "OTIR">>, <<"LDDR", "CPDR", "INDR", "OTDR">> >>[j + 1][k + 1],
         <<>>, <<\hED, \hA0 + 8 * j + k>>) : j \in 0 .. 3, k \in 0 .. 3}

ExchangeAndBlock ==
    {Asm("EX", <<R16("DE"), R16("HL")>>, <<\hEB>>), Asm("EX", <<R16("AF"), AfShadow>>, <<\h08>>),
     Asm("EXX", <<>>, <<\hD9>>)}
    \cup {Asm("EX", <<R16Deref("SP"), R16(i.name)>>, i.pre \o <<\hE3>>) : i \in Wides}
    \cup Block

Arithmetic ==
    AluByte
    \cup {Asm(m, AluAcc(m) \o <<s.op>>, s.pre \o <<128 + 8 * AluNum[m] + s.num>> \o s.post) :
        m \in DOMAIN AluNum, s \in Places}
    \cup (UNION {{Asm("INC", <<t.op>>, t.pre \o <<4 + 8 * t.num>> \o t.post),
                  Asm("DEC", <<t.op>>, t.pre \o <<5 + 8 * t.num>> \o t.post)} : t \in Places})
    \cup {Asm("ADD", <<R16(i.name), PairName(p, i)>>, i.pre \o <<9 + 16 * Pair[p]>>) :
        i \in Wides, p \in DOMAIN Pair}
    \cup (UNION {{Asm("ADC", <<R16("HL"), R16(p)>>, <<\hED, \h4A + 16 * Pair[p]>>),
                  Asm("SBC", <<R16("HL"), R16(p)>>, <<\hED, \h42 + 16 * Pair[p]>>),
                  Asm("INC", <<R16(p)>>, <<3 + 16 * Pair[p]>>),
                  Asm("DEC", <<R16(p)>>, <<\h0B + 16 * Pair[p]>>)} : p \in DOMAIN Pair})
    \cup (UNION {{Asm("INC", <<R16(i.name)>>, i.pre \o <<\h23>>),
                  Asm("DEC", <<R16(i.name)>>, i.pre \o <<\h2B>>)} : i \in Wides})

Control ==
    {Asm("DAA", <<>>, <<\h27>>), Asm("CPL", <<>>, <<\h2F>>), Asm("CCF", <<>>, <<\h3F>>),
     Asm("SCF", <<>>, <<\h37>>), Asm("NOP", <<>>, <<0>>), Asm("HALT", <<>>, <<\h76>>),
     Asm("DI", <<>>, <<\hF3>>), Asm("EI", <<>>, <<\hFB>>), Asm("NEG", <<>>, <<\hED, \h44>>),
     Asm("IM", <<Im("0")>>, <<\hED, \h46>>), Asm("IM", <<Im("1")>>, <<\hED, \h56>>),
     Asm("IM", <<Im("2")>>, <<\hED, \h5E>>)}

RotateAndBit ==
    LET Num == [RLC |-> 0, RRC |-> 1, RL |-> 2, RR |-> 3, SLA |-> 4, SRA |-> 5, SRL |-> 7]
        Bits == [BIT |-> 64, RES |-> 128, SET |-> 192]
    IN {Asm("RLCA", <<>>, <<\h07>>), Asm("RLA", <<>>, <<\h17>>), Asm("RRCA", <<>>, <<\h0F>>),
        Asm("RRA", <<>>, <<\h1F>>), Asm("RLD", <<>>, <<\hED, \h6F>>),
        Asm("RRD", <<>>, <<\hED, \h67>>)}
       \cup {Asm(m, <<t.op>>, t.pre \o <<\hCB>> \o t.post \o <<8 * Num[m] + t.num>>) :
            m \in DOMAIN Num, t \in Places}
       \cup {Asm(m, <<Imm8(k), t.op>>,
                 t.pre \o <<\hCB>> \o t.post \o <<Bits[m] + 8 * k + t.num>>) :
            m \in DOMAIN Bits, k \in 0 .. 7, t \in Places}

Jump ==
    (UNION {{Asm("JP", <<Imm16(Val(w))>>, <<\hC3>> \o w),
             Asm("CALL", <<Imm16(Val(w))>>, <<\hCD>> \o w)} : w \in Words})
    \cup (UNION {{Asm("JP", <<Status(c), Imm16(Val(w))>>, <<\hC2 + 8 * Cond[c]>> \o w),
                  Asm("CALL", <<Status(c), Imm16(Val(w))>>, <<\hC4 + 8 * Cond[c]>> \o w)} :
                 c \in DOMAIN Cond, w \in Words})
    \cup (UNION {{Asm("JR", <<JmpRel(2 + Signed(d))>>, <<\h18, d>>),
                  Asm("DJNZ", <<JmpRel(2 + Signed(d))>>, <<\h10, d>>)} : d \in ByteArgs})
    \cup {Asm("JR", <<Status(c), JmpRel(2 + Signed(d))>>, <<\h20 + 8 * Cond[c], d>>) :
            c \in {"NZ", "Z", "NC", "C"}, d \in ByteArgs}
    \cup {Asm("JP", <<R16(i.name)>>, i.pre \o <<\hE9>>) : i \in Wides}
    \cup {Asm("RET", <<>>, <<\hC9>>), Asm("RETI", <<>>, <<\hED, \h4D>>),
          Asm("RETN", <<>>, <<\hED, \h45>>)}
    \cup {Asm("RET", <<Status(c)>>, <<\hC0 + 8 * Cond[c]>>) : c \in DOMAIN Cond}
    \cup {Asm("RST", <<Imm8(8 * k)>>, <<\hC7 + 8 * k>>) : k \in 0 .. 7}

InputOutput ==
    (UNION {{Asm("IN", <<A, Imm8Deref(n)>>, <<\hDB, n>>),
             Asm("OUT", <<Imm8Deref(n), A>>, <<\hD3, n>>)} : n \in ByteArgs})
    \cup (UNION {{Asm("IN", <<R8(r), R8Deref("C")>>, <<\hED, \h40 + 8 * Reg[r]>>),
                  Asm("OUT", <<R8Deref("C"), R8(r)>>, <<\hED, \h41 + 8 * Reg[r]>>)} :
                 r \in DOMAIN Reg})

Documented == Load8 \cup Load16 \cup ExchangeAndBlock \cup Arithmetic
                \cup Control \cup RotateAndBit \cup Jump \cup InputOutput
ByFirst == [b \in Byte |-> {i \in Documented : i.bytes[1] = b}]

-----------------------------------------------------------------------------
(***************************************************************************)
(* What the decoder lists otherwise: everything behind the prefix of iy,   *)
(* which it takes to be 0xDF, and so rst 0x18, which is 0xDF; the block    *)
(* instructions, which it looks up as if they were ld i, a and its like;   *)
(* and five more.                                                          *)
(***************************************************************************)
SingleSlips ==
    {Asm("RST", <<Imm8(24)>>, <<\hDF>>),
     Asm("LD", <<R16Deref("DE"), A>>, <<\h12>>),           \* as ld (bc), a
     Asm("EX", <<R16("AF"), AfShadow>>, <<\h08>>),         \* as ex a, af'
     Asm("LD", <<A, R8("R")>>, <<\hED, \h5F>>),            \* as ld a, i
     Asm("JP", <<R16("IX")>>, <<\hDD, \hE9>>),             \* as jp hl
     Asm("LD", <<R16("SP"), R16("IX")>>, <<\hDD, \hF9>>)}  \* as ld sp, hl

Slips == {i \in Documented : i.bytes[1] = \hFD} \cup Block \cup SingleSlips

\* What op_n makes of an immediate byte: a 16-bit operand, of which the upper half
\* is never written.
ByteAsWord(op, wanted) == op.type = "U16" /\ op.imm16 % 256 = wanted.imm8

\* The documented instructions that the bytes at an entry of the listing start with.
Encoded(at) ==
    {i \in ByFirst[code[at + 1]] : IsPrefix(i.bytes, SubSeq(code, at + 1, Len(code)))}

\* Every documented instruction, wherever it stands in the bytes and whatever
\* surrounds it, is listed as what it is (disassemble.h:6, "Disassemble a single
\* instruction"): mnemonic, operands in order, registers under their prefix,
\* displacement, immediate and length.
ListedAsDocumented ==
    \A k \in 1 .. Len(listing) : \A i \in Encoded(listing[k].at) :
        LET inst == listing[k].inst
        IN /\ inst.mnemoric = i.mnemoric /\ inst.size = Len(i.bytes)
           /\ inst.operands = i.operands

\* Of the documented instructions the decoder lists all but Slips as what they
\* are, an immediate byte as a word, and none of Slips.
ListedButSlips ==
    \A k \in 1 .. Len(listing) : \A i \in Encoded(listing[k].at) :
        LET inst == listing[k].inst
            last == Len(i.operands)
        IN i \notin Slips <=>
               /\ inst.mnemoric = i.mnemoric /\ inst.size = Len(i.bytes)
               /\ Len(inst.operands) = last
               /\ \A j \in 1 .. last :
                    IF i \in LoadByte \cup AluByte /\ j = last
                    THEN ByteAsWord(inst.operands[j], i.operands[j])
                    ELSE inst.operands[j] = i.operands[j]
=============================================================================
