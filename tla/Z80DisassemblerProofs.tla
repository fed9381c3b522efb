----------------------- MODULE Z80DisassemblerProofs -----------------------
(***************************************************************************)
(* The disassembler, for every sequence of bytes: the operands it makes,   *)
(* the sizes it gives, that an instruction's own bytes decide it, and that *)
(* what the bytes start with according to the manual is what is listed.    *)
(***************************************************************************)
EXTENDS Z80InstructionSet, Arithmetic, SequenceTheorems

-----------------------------------------------------------------------------
(***************************************************************************)
(* The forms of operands, and the bytes that one takes.                    *)
(***************************************************************************)
Indices == {"none", "IX", "IY"}
OneByte == {N, NDeref, D, Disp("IX"), Disp("IY")}
TwoBytes == {NN, NNDeref}

Given(form) == "fetch" \notin DOMAIN form /\ OperandOK(form)
Form(form) == form \in OneByte \/ form \in TwoBytes \/ Given(form)
BytesOf(form) == IF form \in OneByte THEN 1 ELSE IF form \in TwoBytes THEN 2 ELSE 0

\* What Decode may give: at most three operands, of two bytes together.
Forms(s) ==
    \/ s = <<>>
    \/ \E a : Form(a) /\ s = <<a>>
    \/ \E a, b : Form(a) /\ Form(b) /\ BytesOf(a) + BytesOf(b) <= 2 /\ s = <<a, b>>
    \/ \E a, b, c : Given(a) /\ Given(b) /\ Given(c) /\ s = <<a, b, c>>

\* The bytes they take.
Taken(s) == IF Len(s) = 1 THEN BytesOf(s[1])
            ELSE IF Len(s) = 2 THEN BytesOf(s[1]) + BytesOf(s[2]) ELSE 0

LEMMA FetchedNotGiven ==
    ASSUME NEW form, Given(form)
    PROVE  BytesOf(form) = 0 /\ form \notin OneByte /\ form \notin TwoBytes
  <1>1. \A f \in OneByte \cup TwoBytes : "fetch" \in DOMAIN f
    BY DEF OneByte, TwoBytes, N, NN, NDeref, NNDeref, D, Disp
  <1> QED
    BY <1>1 DEF Given, BytesOf

LEMMA BytesOfForm ==
    ASSUME NEW form, Form(form)
    PROVE  BytesOf(form) \in 0 .. 2
  BY DEF BytesOf

\* The operands that need no byte.
LEMMA GivenR8 ==
    ASSUME NEW r \in {"A", "B", "C", "D", "E", "H", "L", "I", "R", "IXH", "IXL", "IYH", "IYL"}
    PROVE  Given(R8(r)) /\ Given(R8Deref(r))
  BY DEF Given, OperandOK, R8, R8Deref

LEMMA GivenR16 ==
    ASSUME NEW r \in {"AF", "BC", "DE", "HL", "SP", "IX", "IY"}
    PROVE  Given(R16(r)) /\ Given(R16Deref(r))
  BY DEF Given, OperandOK, R16, R16Deref

LEMMA GivenCc ==
    ASSUME NEW cc \in 0 .. 7
    PROVE  Given(OpCc(cc))
  <1>1. cc + 1 \in 1 .. 8
    OBVIOUS
  <1> QED
    BY <1>1 DEF Given, OperandOK, OpCc, Status

LEMMA GivenIm ==
    ASSUME NEW k \in 1 .. 4
    PROVE  Given(Im(im_tab[k]))
  BY DEF Given, OperandOK, Im

LEMMA GivenImm8 ==
    ASSUME NEW n \in Byte
    PROVE  Given(Imm8(n)) /\ Given(Imm8Deref(n))
  BY DEF Given, OperandOK, Imm8, Imm8Deref

LEMMA GivenImm16 ==
    ASSUME NEW n \in Uint16
    PROVE  Given(Imm16(n)) /\ Given(Imm16Deref(n))
  BY DEF Given, OperandOK, Imm16, Imm16Deref

LEMMA GivenJmpRel ==
    ASSUME NEW d \in JumpRange
    PROVE  Given(JmpRel(d))
  BY DEF Given, OperandOK, JmpRel

LEMMA GivenAfShadow == Given(AfShadow)
  BY DEF Given, OperandOK, AfShadow

LEMMA GivenIndexRel ==
    ASSUME NEW idx \in {"IX", "IY"}, NEW d \in Int8
    PROVE  Given(IndexRel(idx, d))
  BY DEF Given, OperandOK, IndexRel

LEMMA GivenPair ==
    ASSUME NEW p \in 0 .. 3, NEW idx \in Indices
    PROVE  Given(OpRp(p, idx)) /\ Given(OpRp2(p, idx)) /\ Given(OpHlOrIndex(idx))
  <1> DEFINE names == {"AF", "BC", "DE", "HL", "SP", "IX", "IY"}
  <1>1. Wide[idx] \in names
    BY DEF Wide, Indices
  <1>2. rp_tab[p + 1] \in names /\ rp2_tab[p + 1] \in names
    BY DEF rp_tab, rp2_tab
  <1> QED
    BY <1>1, <1>2, GivenR16 DEF OpRp, OpRp2, OpPair, OpHlOrIndex

LEMMA FormR ==
    ASSUME NEW r \in 0 .. 7, NEW idx \in Indices
    PROVE  /\ Form(OpR(r, idx)) /\ BytesOf(OpR(r, idx)) \in 0 .. 1
           /\ r # 6 \/ idx = "none" => Given(OpR(r, idx))
           /\ r = 6 /\ idx # "none" => OpR(r, idx) = Disp(idx)
  <1> DEFINE names == {"A", "B", "C", "D", "E", "H", "L", "I", "R", "IXH", "IXL", "IYH", "IYL"}
             name == <<"B", "C", "D", "E", High[idx], Low[idx], "", "A">>[r + 1]
  <1>1. CASE r # 6
    <2>1. High[idx] \in names /\ Low[idx] \in names
      BY DEF High, Low, Indices
    <2> DEFINE h == High[idx]
               l == Low[idx]
    <2>2. name \in names
      <3> HIDE DEF h, l
      <3>1. h \in names /\ l \in names
        BY <2>1 DEF h, l
      <3>2. <<"B", "C", "D", "E", h, l, "", "A">>[r + 1] \in names
        <4> DEFINE t == <<"B", "C", "D", "E", h, l, "", "A">>
        <4>1. /\ t[1] = "B" /\ t[2] = "C" /\ t[3] = "D" /\ t[4] = "E"
              /\ t[5] = h /\ t[6] = l /\ t[8] = "A"
          OBVIOUS
        <4> HIDE DEF t
        <4>2. r + 1 \in {1, 2, 3, 4, 5, 6, 8}
          BY <1>1
        <4>3. t[r + 1] \in names
          BY <3>1, <4>1, <4>2
        <4> QED
          BY <4>3 DEF t
      <3> QED
        BY <3>2 DEF h, l
    <2>3. OpR(r, idx) = R8(name)
      BY <1>1 DEF OpR
    <2> HIDE DEF name
    <2>4. Given(OpR(r, idx))
      BY <2>2, <2>3, GivenR8
    <2> QED
      BY <1>1, <2>4, FetchedNotGiven DEF Form
  <1>2. CASE r = 6 /\ idx = "none"
    <2>1. OpR(r, idx) = R16Deref("HL")
      BY <1>2 DEF OpR
    <2>2. Given(OpR(r, idx))
      BY <2>1, GivenR16
    <2> QED
      BY <1>2, <2>2, FetchedNotGiven DEF Form
  <1>3. CASE r = 6 /\ idx # "none"
    <2>1. OpR(r, idx) = Disp(idx)
      BY <1>3 DEF OpR
    <2>2. Disp(idx) \in OneByte
      BY <1>3 DEF OneByte, Indices
    <2> QED
      BY <1>3, <2>1, <2>2 DEF Form, BytesOf
  <1> QED
    BY <1>1, <1>2, <1>3

\* The operands of any of these are such forms.
LEMMA FormsNone == Forms(<<>>)
  BY DEF Forms

LEMMA FormsOne ==
    ASSUME NEW a, Form(a)
    PROVE  Forms(<<a>>)
  BY Zenon DEF Forms

LEMMA FormsTwo ==
    ASSUME NEW a, NEW b, Form(a), Form(b), BytesOf(a) + BytesOf(b) <= 2
    PROVE  Forms(<<a, b>>)
  BY Zenon DEF Forms

LEMMA FormsThree ==
    ASSUME NEW a, NEW b, NEW c, Given(a), Given(b), Given(c)
    PROVE  Forms(<<a, b, c>>)
  BY Zenon DEF Forms

\* One operand given and one with its bytes to read, in either order.
LEMMA FormsGivenTwo ==
    ASSUME NEW a, NEW b, Given(a), Form(b)
    PROVE  Forms(<<a, b>>) /\ Forms(<<b, a>>)
  <1>1. BytesOf(a) = 0 /\ BytesOf(b) \in 0 .. 2 /\ Form(a)
    BY FetchedNotGiven, BytesOfForm DEF Form
  <1>2. BytesOf(a) + BytesOf(b) <= 2 /\ BytesOf(b) + BytesOf(a) <= 2
    BY <1>1
  <1> QED
    BY <1>1, <1>2, FormsTwo

-----------------------------------------------------------------------------
(***************************************************************************)
(* Every entry of the decoder's tables has such operands.                  *)
(***************************************************************************)
Decoded(inst) == Forms(inst.operands)

LEMMA DecodedInst ==
    ASSUME NEW m, NEW ops, Forms(ops)
    PROVE  Decoded(Inst(m, ops))
  BY DEF Decoded, Inst

LEMMA DecodedPlain ==
    ASSUME NEW m
    PROVE  Decoded(Plain(m))
  BY DecodedInst, FormsNone DEF Plain

LEMMA DecodedOne ==
    ASSUME NEW m, NEW a, Form(a)
    PROVE  Decoded(Inst(m, <<a>>))
  BY DecodedInst, FormsOne

LEMMA DecodedGivenTwo ==
    ASSUME NEW m, NEW a, NEW b, Given(a), Form(b)
    PROVE  Decoded(Inst(m, <<a, b>>)) /\ Decoded(Inst(m, <<b, a>>))
  BY DecodedInst, FormsGivenTwo

LEMMA EightDecoded ==
    ASSUME NEW s, NEW y \in 0 .. 7, \A k \in 1 .. 8 : Decoded(s[k])
    PROVE  Decoded(s[y + 1])
  OBVIOUS

LEMMA FormsToRead ==
    /\ Form(N) /\ Form(NDeref) /\ Form(D) /\ Form(NN) /\ Form(NNDeref)
    /\ BytesOf(N) = 1
  BY DEF Form, OneByte, TwoBytes, BytesOf

\* The registers that the tables name.
LEMMA GivenNamed ==
    /\ Given(R8("A")) /\ Given(R8("I")) /\ Given(R8("R")) /\ Given(R8Deref("C"))
    /\ Given(R16("HL")) /\ Given(R16("SP")) /\ Given(R16("DE"))
    /\ Given(R16Deref("BC")) /\ Given(R16Deref("DE")) /\ Given(R16Deref("SP"))
  BY GivenR8, GivenR16

LEMMA GivenIsForm ==
    ASSUME NEW a, Given(a)
    PROVE  Form(a)
  BY DEF Form

LEMMA DecodedAlu ==
    ASSUME NEW y \in 0 .. 7, NEW op, Form(op)
    PROVE  Decoded(OpAlu(y, op))
  <1>1. Forms(<<R8("A"), op>>) /\ Forms(<<op>>)
    BY FormsGivenTwo, FormsOne, GivenNamed
  <1> QED
    BY <1>1, DecodedInst DEF OpAlu

LEMMA RegularX0Forms ==
    ASSUME NEW y \in 0 .. 7, NEW z \in 0 .. 7, NEW idx \in Indices
    PROVE  Decoded(RegularX0(y, z, idx))
  <1> DEFINE p == y \div 2
             a == R8("A")
             hl == OpHlOrIndex(idx)
             bc == R16Deref("BC")
  <1>1. p \in 0 .. 3
    OBVIOUS
  <1>2. Given(a) /\ Given(hl) /\ Given(bc) /\ Given(OpRp(p, idx)) /\ Given(R16Deref("DE"))
    BY <1>1, GivenPair, GivenNamed
  <1>3. Form(a) /\ Form(hl) /\ Form(bc) /\ Form(OpRp(p, idx)) /\ Form(OpR(y, idx))
    BY <1>2, GivenIsForm, FormR
  <1> HIDE DEF p, a, hl, bc
  <1>4. CASE z = 0
    <2> DEFINE t == << Plain("NOP"), Inst("EX", <<a, AfShadow>>),
                       Inst("DJNZ", <<D>>), Inst("JR", <<D>>),
                       Inst("JR", <<OpCc(0), D>>), Inst("JR", <<OpCc(1), D>>),
                       Inst("JR", <<OpCc(2), D>>), Inst("JR", <<OpCc(3), D>>) >>
    <2>1. RegularX0(y, z, idx) = t[y + 1]
      BY <1>4 DEF RegularX0, a
    <2>2. Decoded(t[1]) /\ Decoded(t[2]) /\ Decoded(t[3]) /\ Decoded(t[4])
      <3>1. Decoded(Inst("EX", <<a, AfShadow>>))
        BY <1>2, GivenAfShadow, GivenIsForm, DecodedGivenTwo
      <3>2. Decoded(Inst("DJNZ", <<D>>)) /\ Decoded(Inst("JR", <<D>>))
        BY FormsToRead, DecodedOne
      <3> QED
        BY <3>1, <3>2, DecodedPlain
    <2>3. Decoded(t[5]) /\ Decoded(t[6]) /\ Decoded(t[7]) /\ Decoded(t[8])
      <3>1. \A k \in 0 .. 3 : Given(OpCc(k))
        BY GivenCc
      <3>2. \A k \in 0 .. 3 : Decoded(Inst("JR", <<OpCc(k), D>>))
        BY <3>1, FormsToRead, DecodedGivenTwo
      <3> QED
        BY <3>2
    <2> HIDE DEF t
    <2>4. \A k \in 1 .. 8 : Decoded(t[k])
      BY <2>2, <2>3
    <2> QED
      BY <2>1, <2>4, EightDecoded
  <1>5. CASE z = 1
    <2>1. Decoded(Inst("LD", <<OpRp(p, idx), NN>>)) /\ Decoded(Inst("ADD", <<hl, OpRp(p, idx)>>))
      BY <1>2, <1>3, FormsToRead, DecodedGivenTwo
    <2> QED
      BY <1>5, <2>1 DEF RegularX0, p, hl
  <1>6. CASE z = 2
    <2> DEFINE t == << <<bc, a>>, <<a, bc>>, <<bc, a>>, <<a, R16Deref("DE")>>,
                       <<NNDeref, hl>>, <<hl, NNDeref>>, <<NNDeref, a>>, <<a, NNDeref>> >>
    <2>1. RegularX0(y, z, idx) = Inst("LD", t[y + 1])
      BY <1>6 DEF RegularX0, a, hl, bc
    <2>2. Forms(t[1]) /\ Forms(t[2]) /\ Forms(t[3]) /\ Forms(t[4])
      <3>1. Forms(<<bc, a>>) /\ Forms(<<a, bc>>)
        BY <1>2, <1>3, FormsGivenTwo
      <3>2. Forms(<<a, R16Deref("DE")>>)
        BY <1>2, <1>3, FormsGivenTwo
      <3> QED
        BY <3>1, <3>2
    <2>3. Forms(t[5]) /\ Forms(t[6]) /\ Forms(t[7]) /\ Forms(t[8])
      <3>1. Forms(<<NNDeref, hl>>) /\ Forms(<<hl, NNDeref>>)
        BY <1>2, FormsToRead, FormsGivenTwo
      <3>2. Forms(<<NNDeref, a>>) /\ Forms(<<a, NNDeref>>)
        BY <1>2, FormsToRead, FormsGivenTwo
      <3> QED
        BY <3>1, <3>2
    <2> HIDE DEF t
    <2>4. Forms(t[y + 1])
      BY <2>2, <2>3
    <2> QED
      BY <2>1, <2>4, DecodedInst
  <1>7. CASE z = 3
    <2>1. RegularX0(y, z, idx) = Inst(IF y % 2 = 0 THEN "INC" ELSE "DEC", <<OpRp(p, idx)>>)
      BY <1>7 DEF RegularX0, p
    <2> QED
      BY <1>3, <2>1, DecodedOne
  <1>8. CASE z \in {4, 5}
    <2>1. Decoded(Inst("INC", <<OpR(y, idx)>>)) /\ Decoded(Inst("DEC", <<OpR(y, idx)>>))
      BY <1>3, DecodedOne
    <2> QED
      BY <1>8, <2>1 DEF RegularX0
  <1>9. CASE z = 6
    <2>1. BytesOf(OpR(y, idx)) \in 0 .. 1
      BY FormR
    <2>2. Forms(<<OpR(y, idx), N>>)
      BY <1>3, <2>1, FormsToRead, FormsTwo
    <2>3. RegularX0(y, z, idx) = Inst("LD", <<OpR(y, idx), N>>)
      BY <1>9 DEF RegularX0
    <2> QED
      BY <2>2, <2>3, DecodedInst
  <1>10. CASE z = 7
    <2>1. RegularX0(y, z, idx) = Plain(<<"RLCA", "RRCA", "RLA", "RRA",
                                         "DAA", "CPL", "SCF", "CCF">>[y + 1])
      BY <1>10 DEF RegularX0
    <2> QED
      BY <2>1, DecodedPlain
  <1> QED
    BY <1>4, <1>5, <1>6, <1>7, <1>8, <1>9, <1>10

LEMMA RegularX1Forms ==
    ASSUME NEW y \in 0 .. 7, NEW z \in 0 .. 7, NEW idx \in Indices
    PROVE  Decoded(RegularX1(y, z, idx))
  <1> DEFINE iy == IF z = 6 THEN "none" ELSE idx
             iz == IF y = 6 THEN "none" ELSE idx
  <1>1. iy \in Indices /\ iz \in Indices
    BY DEF Indices
  <1> HIDE DEF iy, iz
  <1>2. Form(OpR(y, iy)) /\ BytesOf(OpR(y, iy)) \in 0 .. 1
    BY <1>1, FormR
  <1>3. Form(OpR(z, iz)) /\ BytesOf(OpR(z, iz)) \in 0 .. 1
    BY <1>1, FormR
  <1>4. Forms(<<OpR(y, iy), OpR(z, iz)>>)
    BY <1>2, <1>3, FormsTwo
  <1>5. RegularX1(y, z, idx) \in {Plain("HALT"), Inst("LD", <<OpR(y, iy), OpR(z, iz)>>)}
    BY DEF RegularX1, iy, iz
  <1> QED
    BY <1>4, <1>5, DecodedInst, DecodedPlain

LEMMA RegularX3Forms ==
    ASSUME NEW y \in 0 .. 7, NEW z \in 0 .. 7, NEW idx \in Indices
    PROVE  Decoded(RegularX3(y, z, idx))
  <1> DEFINE p == y \div 2
             invalid == Plain("INVALID")
  <1>1. p \in 0 .. 3
    OBVIOUS
  <1>2. Given(OpRp2(p, idx)) /\ Given(OpHlOrIndex(idx)) /\ Given(OpCc(y)) /\ Decoded(invalid)
    BY <1>1, GivenPair, GivenCc, DecodedPlain
  <1> HIDE DEF p, invalid
  <1>3. CASE z = 0
    <2>1. RegularX3(y, z, idx) = Inst("RET", <<OpCc(y)>>)
      BY <1>3 DEF RegularX3
    <2> QED
      BY <1>2, <2>1, GivenIsForm, DecodedOne
  <1>4. CASE z = 1
    <2> DEFINE t == << Plain("RET"), Plain("EXX"), Inst("JP", <<R16("HL")>>),
                       Inst("LD", <<R16("SP"), R16("HL")>>) >>
    <2>1. RegularX3(y, z, idx) = IF y % 2 = 0 THEN Inst("POP", <<OpRp2(p, idx)>>) ELSE t[p + 1]
      BY <1>4 DEF RegularX3, p
    <2>2. Decoded(Inst("POP", <<OpRp2(p, idx)>>))
      BY <1>2, GivenIsForm, DecodedOne
    <2>3. Decoded(t[1]) /\ Decoded(t[2]) /\ Decoded(t[3]) /\ Decoded(t[4])
      <3>1. Decoded(Inst("JP", <<R16("HL")>>))
        BY GivenNamed, GivenIsForm, DecodedOne
      <3>2. Decoded(Inst("LD", <<R16("SP"), R16("HL")>>))
        BY GivenNamed, GivenIsForm, DecodedGivenTwo
      <3> QED
        BY <3>1, <3>2, DecodedPlain
    <2> HIDE DEF t
    <2>4. Decoded(t[p + 1])
      BY <1>1, <2>3
    <2> QED
      BY <2>1, <2>2, <2>4
  <1>5. CASE z = 2
    <2>1. RegularX3(y, z, idx) = Inst("JP", <<OpCc(y), NN>>)
      BY <1>5 DEF RegularX3
    <2> QED
      BY <1>2, <2>1, FormsToRead, DecodedGivenTwo
  <1>6. CASE z = 3
    <2> DEFINE t == << Inst("JP", <<NN>>), invalid,
                       Inst("OUT", <<NDeref, R8("A")>>), Inst("IN", <<R8("A"), NDeref>>),
                       Inst("EX", <<R16Deref("SP"), OpHlOrIndex(idx)>>),
                       Inst("EX", <<R16("DE"), R16("HL")>>),
                       Plain("DI"), Plain("EI") >>
    <2>1. RegularX3(y, z, idx) = t[y + 1]
      BY <1>6 DEF RegularX3, invalid
    <2>2. Decoded(t[1]) /\ Decoded(t[2]) /\ Decoded(t[3]) /\ Decoded(t[4])
      <3>1. Decoded(Inst("JP", <<NN>>))
        BY FormsToRead, DecodedOne
      <3>2. Decoded(Inst("OUT", <<NDeref, R8("A")>>)) /\ Decoded(Inst("IN", <<R8("A"), NDeref>>))
        BY GivenNamed, FormsToRead, DecodedGivenTwo
      <3> QED
        BY <1>2, <3>1, <3>2
    <2>3. Decoded(t[5]) /\ Decoded(t[6]) /\ Decoded(t[7]) /\ Decoded(t[8])
      <3>1. Decoded(Inst("EX", <<R16Deref("SP"), OpHlOrIndex(idx)>>))
        BY <1>2, GivenNamed, GivenIsForm, DecodedGivenTwo
      <3>2. Decoded(Inst("EX", <<R16("DE"), R16("HL")>>))
        BY GivenNamed, GivenIsForm, DecodedGivenTwo
      <3> QED
        BY <3>1, <3>2, DecodedPlain
    <2> HIDE DEF t
    <2>4. \A k \in 1 .. 8 : Decoded(t[k])
      BY <2>2, <2>3
    <2> QED
      BY <2>1, <2>4, EightDecoded
  <1>7. CASE z = 4
    <2>1. RegularX3(y, z, idx) = Inst("CALL", <<OpCc(y), NN>>)
      BY <1>7 DEF RegularX3
    <2> QED
      BY <1>2, <2>1, FormsToRead, DecodedGivenTwo
  <1>8. CASE z = 5
    <2> DEFINE t == << Inst("CALL", <<NN>>), invalid, invalid, invalid >>
    <2>1. RegularX3(y, z, idx) = IF y % 2 = 0 THEN Inst("PUSH", <<OpRp2(p, idx)>>) ELSE t[p + 1]
      BY <1>8 DEF RegularX3, p, invalid
    <2>2. Decoded(Inst("PUSH", <<OpRp2(p, idx)>>))
      BY <1>2, GivenIsForm, DecodedOne
    <2>3. Decoded(t[1]) /\ Decoded(t[2]) /\ Decoded(t[3]) /\ Decoded(t[4])
      <3>1. Decoded(Inst("CALL", <<NN>>))
        BY FormsToRead, DecodedOne
      <3> QED
        BY <1>2, <3>1
    <2> HIDE DEF t
    <2>4. Decoded(t[p + 1])
      BY <1>1, <2>3
    <2> QED
      BY <2>1, <2>2, <2>4
  <1>9. CASE z = 6
    <2>1. RegularX3(y, z, idx) = OpAlu(y, N)
      BY <1>9 DEF RegularX3
    <2> QED
      BY <2>1, FormsToRead, DecodedAlu
  <1>10. CASE z = 7
    <2>1. RegularX3(y, z, idx) = Inst("RST", <<Imm8(8 * y)>>)
      BY <1>10 DEF RegularX3
    <2>2. 8 * y \in Byte
      BY DEF Byte
    <2>3. Form(Imm8(8 * y))
      BY <2>2, GivenImm8, GivenIsForm
    <2> QED
      BY <2>1, <2>3, DecodedOne
  <1> QED
    BY <1>3, <1>4, <1>5, <1>6, <1>7, <1>8, <1>9, <1>10

LEMMA RegularForms ==
    ASSUME NEW x \in 0 .. 3, NEW y \in 0 .. 7, NEW z \in 0 .. 7, NEW idx \in Indices
    PROVE  Decoded(Regular(x, y, z, idx))
  <1>1. CASE x = 0
    BY <1>1, RegularX0Forms DEF Regular
  <1>2. CASE x = 1
    BY <1>2, RegularX1Forms DEF Regular
  <1>3. CASE x = 2
    <2>1. Regular(x, y, z, idx) = OpAlu(y, OpR(z, idx))
      BY <1>3 DEF Regular
    <2> QED
      BY <2>1, FormR, DecodedAlu
  <1>4. CASE x = 3
    BY <1>4, RegularX3Forms DEF Regular
  <1> QED
    BY <1>1, <1>2, <1>3, <1>4

LEMMA ExtendedByYForms ==
    ASSUME NEW y \in 0 .. 7
    PROVE  Decoded(ExtendedByY(y))
  <1> DEFINE a == R8("A")
             ld == Inst("LD", <<a, R8("I")>>)
             t == << Inst("LD", <<R8("I"), a>>), Inst("LD", <<R8("R"), a>>), ld, ld,
                     Plain("RRD"), Plain("RLD"), Plain("NOP"), Plain("NOP") >>
  <1>1. Given(a) /\ Form(a)
    BY GivenNamed, GivenIsForm
  <1>2. ExtendedByY(y) = t[y + 1]
    BY DEF ExtendedByY
  <1> HIDE DEF a
  <1>3. Decoded(ld) /\ Decoded(Inst("LD", <<R8("I"), a>>)) /\ Decoded(Inst("LD", <<R8("R"), a>>))
    BY <1>1, GivenNamed, DecodedGivenTwo
  <1> HIDE DEF ld
  <1>4. Decoded(t[1]) /\ Decoded(t[2]) /\ Decoded(t[3]) /\ Decoded(t[4])
    BY <1>3
  <1>5. Decoded(t[5]) /\ Decoded(t[6]) /\ Decoded(t[7]) /\ Decoded(t[8])
    BY DecodedPlain
  <1> HIDE DEF t
  <1>6. \A k \in 1 .. 8 : Decoded(t[k])
    BY <1>4, <1>5
  <1> QED
    BY <1>2, <1>6, EightDecoded

LEMMA ExtendedX1Forms ==
    ASSUME NEW y \in 0 .. 7, NEW z \in 0 .. 7
    PROVE  Decoded(ExtendedX1(y, z))
  <1> DEFINE p == y \div 2
             c == R8Deref("C")
             r == OpR(y, "none")
             rp == OpRp(p, "none")
  <1>1. p \in 0 .. 3 /\ "none" \in Indices
    BY DEF Indices
  <1>2. Given(c) /\ Given(r) /\ Given(rp)
    BY <1>1, GivenNamed, GivenPair, FormR
  <1>3. Form(c) /\ Form(r) /\ Form(rp)
    BY <1>2, GivenIsForm
  <1> HIDE DEF p, c, r, rp
  <1>4. CASE z = 0
    <2>1. ExtendedX1(y, z) = Inst("IN", IF y # 6 THEN <<r, c>> ELSE <<c>>)
      BY <1>4 DEF ExtendedX1, r, c
    <2>2. Decoded(Inst("IN", <<r, c>>)) /\ Decoded(Inst("IN", <<c>>))
      BY <1>2, <1>3, DecodedGivenTwo, DecodedOne
    <2> QED
      BY <2>1, <2>2
  <1>5. CASE z = 1
    <2>1. ExtendedX1(y, z) = Inst("OUT", <<c, IF y # 6 THEN r ELSE Imm8(0)>>)
      BY <1>5 DEF ExtendedX1, r, c
    <2>2. Form(Imm8(0))
      BY GivenImm8, GivenIsForm DEF Byte
    <2>3. Decoded(Inst("OUT", <<c, r>>)) /\ Decoded(Inst("OUT", <<c, Imm8(0)>>))
      BY <1>2, <1>3, <2>2, DecodedGivenTwo
    <2> QED
      BY <2>1, <2>3
  <1>6. CASE z = 2
    <2> DEFINE m == IF y % 2 = 0 THEN "SBC" ELSE "ADC"
    <2>1. ExtendedX1(y, z) = Inst(m, <<R16("HL"), rp>>)
      BY <1>6 DEF ExtendedX1, rp, p
    <2> HIDE DEF m
    <2> QED
      BY <1>3, <2>1, GivenNamed, DecodedGivenTwo
  <1>7. CASE z = 3
    <2>1. ExtendedX1(y, z) = Inst("LD", IF y % 2 = 0 THEN <<NNDeref, rp>> ELSE <<rp, NNDeref>>)
      BY <1>7 DEF ExtendedX1, rp, p
    <2>2. Decoded(Inst("LD", <<NNDeref, rp>>)) /\ Decoded(Inst("LD", <<rp, NNDeref>>))
      BY <1>2, FormsToRead, DecodedGivenTwo
    <2> QED
      BY <2>1, <2>2
  <1>8. CASE z = 4
    BY <1>8, DecodedPlain DEF ExtendedX1
  <1>9. CASE z = 5
    <2>1. ExtendedX1(y, z) = Plain(IF y = 1 THEN "RETI" ELSE "RETN")
      BY <1>9 DEF ExtendedX1
    <2> QED
      BY <2>1, DecodedPlain
  <1>10. CASE z = 6
    <2>1. ExtendedX1(y, z) = Inst("IM", <<Im(im_tab[(y % 4) + 1])>>)
      BY <1>10 DEF ExtendedX1
    <2>2. (y % 4) + 1 \in 1 .. 4
      OBVIOUS
    <2>3. Form(Im(im_tab[(y % 4) + 1]))
      BY <2>2, GivenIm, GivenIsForm
    <2> QED
      BY <2>1, <2>3, DecodedOne
  <1>11. CASE z = 7
    BY <1>11, ExtendedByYForms DEF ExtendedX1
  <1> QED
    BY <1>4, <1>5, <1>6, <1>7, <1>8, <1>9, <1>10, <1>11

LEMMA ExtendedForms ==
    ASSUME NEW x \in 0 .. 3, NEW y \in 0 .. 7, NEW z \in 0 .. 7
    PROVE  Decoded(Extended(x, y, z))
  <1>1. CASE x = 0
    BY <1>1, DecodedPlain DEF Extended
  <1>2. CASE x = 1
    BY <1>2, ExtendedX1Forms DEF Extended
  <1>3. CASE x = 2
    BY <1>3, ExtendedByYForms DEF Extended
  <1>4. CASE x = 3
    <2>1. Extended(x, y, z) = Plain(IF z <= 3 /\ y >= 4 THEN bli_tab[y - 3][z + 1] ELSE "INVALID")
      BY <1>4 DEF Extended
    <2> QED
      BY <2>1, DecodedPlain
  <1> QED
    BY <1>1, <1>2, <1>3, <1>4

\* What stands behind an operand; the provers do not add two tuples up.
LEMMA BehindOne ==
    ASSUME NEW a, NEW b, NEW c
    PROVE  /\ <<a>> \o <<b>> = <<a, b>> /\ <<a>> \o <<b, c>> = <<a, b, c>>
           /\ <<>> \o <<b>> = <<b>> /\ <<>> \o <<b, c>> = <<b, c>>
  <1> DEFINE S == {a, b, c}
             s == <<a>>
             t == <<b>>
             u == <<b, c>>
  <1>1. /\ s \in Seq(S) /\ Len(s) = 1 /\ s[1] = a
        /\ t \in Seq(S) /\ Len(t) = 1 /\ t[1] = b
        /\ u \in Seq(S) /\ Len(u) = 2 /\ u[1] = b /\ u[2] = c
    OBVIOUS
  <1> HIDE DEF s, t, u, S
  <1>2. /\ s \o t \in Seq(S) /\ Len(s \o t) = 2
        /\ \A i \in 1 .. 2 : (s \o t)[i] = IF i <= 1 THEN s[i] ELSE t[i - 1]
    BY <1>1, ConcatProperties
  <1>3. /\ s \o u \in Seq(S) /\ Len(s \o u) = 3
        /\ \A i \in 1 .. 3 : (s \o u)[i] = IF i <= 1 THEN s[i] ELSE u[i - 1]
    BY <1>1, ConcatProperties
  <1>4. (s \o t)[1] = a /\ (s \o t)[2] = b
    BY <1>1, <1>2
  <1>5. (s \o u)[1] = a /\ (s \o u)[2] = b /\ (s \o u)[3] = c
    BY <1>1, <1>3
  <1> DEFINE two == <<a, b>>
             three == <<a, b, c>>
             v == s \o t
             w == s \o u
  <1>6. /\ two \in Seq(S) /\ Len(two) = 2 /\ two[1] = a /\ two[2] = b
        /\ three \in Seq(S) /\ Len(three) = 3
        /\ three[1] = a /\ three[2] = b /\ three[3] = c
    BY DEF S
  <1>7. v[1] = a /\ v[2] = b /\ w[1] = a /\ w[2] = b /\ w[3] = c
    BY <1>4, <1>5
  <1> HIDE DEF two, three, v, w
  <1>8. \A i \in 1 .. 2 : v[i] = two[i]
    BY <1>7, <1>6
  <1>9. \A i \in 1 .. 3 : w[i] = three[i]
    BY <1>7, <1>6
  <1>10. v = two
    BY <1>2, <1>6, <1>8, SeqEqual DEF v
  <1>11. w = three
    BY <1>3, <1>6, <1>9, SeqEqual DEF w
  <1>12. <<>> \o <<b>> = <<b>> /\ <<>> \o <<b, c>> = <<b, c>>
    OBVIOUS
  <1> QED
    BY <1>10, <1>11, <1>12 DEF s, t, u, v, w, two, three

\* The operands of an instruction of one bit, or of a rotation, are all known
\* when its opcode is read.
LEMMA BitForms ==
    ASSUME NEW x \in 0 .. 3, NEW y \in 0 .. 7, NEW z \in 0 .. 7, NEW idx \in Indices,
           NEW d \in Int8
    PROVE  Decoded(Bit(x, y, z, idx, d)) /\ Taken(Bit(x, y, z, idx, d).operands) = 0
  <1> DEFINE b == IF x = 0 THEN <<>> ELSE <<Imm8(y)>>
             r == IF idx = "none" THEN <<OpR(z, idx)>>
                  ELSE <<IndexRel(idx, d)>>
                         \o (IF x # 1 /\ z # 6 THEN <<OpR(z, idx)>> ELSE <<>>)
  <1>1. Bit(x, y, z, idx, d).operands = b \o r
    BY DEF Bit, Inst
  <1>2. y \in Byte
    BY DEF Byte
  <1>3. Given(Imm8(y))
    BY <1>2, GivenImm8
  <1>4. \/ \E o : Given(o) /\ r = <<o>>
        \/ \E o, u : Given(o) /\ Given(u) /\ r = <<o, u>>
    <2>1. CASE idx = "none"
      <3>1. r = <<OpR(z, idx)>> /\ Given(OpR(z, idx))
        BY <2>1, FormR
      <3> QED
        BY <3>1, Zenon
    <2>2. CASE idx # "none" /\ x # 1 /\ z # 6
      <3>1. r = <<IndexRel(idx, d), OpR(z, idx)>>
        BY <2>2, BehindOne
      <3>2. Given(IndexRel(idx, d)) /\ Given(OpR(z, idx))
        BY <2>2, FormR, GivenIndexRel DEF Indices
      <3> QED
        BY <3>1, <3>2, Zenon
    <2>3. CASE idx # "none" /\ ~(x # 1 /\ z # 6)
      <3>1. r = <<IndexRel(idx, d)>> \o <<>>
        BY <2>3
      <3>2. \A e : <<e>> \o <<>> = <<e>>
        OBVIOUS
      <3>3. Given(IndexRel(idx, d))
        BY <2>3, GivenIndexRel DEF Indices
      <3> QED
        BY <3>1, <3>2, <3>3, Zenon
    <2> QED
      BY <2>1, <2>2, <2>3
  <1> DEFINE one == Imm8(y)
  <1>5. b = <<>> \/ b = <<one>>
    OBVIOUS
  <1> HIDE DEF r, b, one
  <1>6. \A o, u : /\ <<one>> \o <<o>> = <<one, o>> /\ <<one>> \o <<o, u>> = <<one, o, u>>
                  /\ <<>> \o <<o>> = <<o>> /\ <<>> \o <<o, u>> = <<o, u>>
    BY BehindOne, Zenon
  <1>7. \/ \E o : Given(o) /\ b \o r = <<o>>
        \/ \E o, u : Given(o) /\ Given(u) /\ b \o r = <<o, u>>
        \/ \E i, o, u : Given(i) /\ Given(o) /\ Given(u) /\ b \o r = <<i, o, u>>
    <2>1. CASE \E o : Given(o) /\ r = <<o>>
      <3>1. PICK o : Given(o) /\ r = <<o>>
        BY <2>1
      <3>2. <<>> \o <<o>> = <<o>> /\ <<one>> \o <<o>> = <<one, o>>
        BY <1>6, Zenon
      <3>3. b \o r = <<o>> \/ b \o r = <<one, o>>
        BY <1>5, <3>1, <3>2
      <3> QED
        BY <1>3, <3>1, <3>3, Zenon DEF one
    <2>2. CASE \E o, u : Given(o) /\ Given(u) /\ r = <<o, u>>
      <3>1. PICK o, u : Given(o) /\ Given(u) /\ r = <<o, u>>
        BY <2>2
      <3>2. <<>> \o <<o, u>> = <<o, u>> /\ <<one>> \o <<o, u>> = <<one, o, u>>
        BY <1>6, Zenon
      <3>3. b \o r = <<o, u>> \/ b \o r = <<one, o, u>>
        BY <1>5, <3>1, <3>2
      <3> QED
        BY <1>3, <3>1, <3>3, Zenon DEF one
    <2> QED
      BY <1>4, <2>1, <2>2
  <1> DEFINE s == b \o r
  <1> HIDE DEF s
  <1>8. Forms(s) /\ Taken(s) = 0
    <2>1. ASSUME NEW o, Given(o), s = <<o>>
          PROVE  Forms(s) /\ Taken(s) = 0
      <3>1. BytesOf(o) = 0 /\ Forms(s)
        BY <2>1, FetchedNotGiven, GivenIsForm, FormsOne
      <3> QED
        BY <2>1, <3>1 DEF Taken
    <2>2. ASSUME NEW o, NEW u, Given(o), Given(u), s = <<o, u>>
          PROVE  Forms(s) /\ Taken(s) = 0
      <3>1. BytesOf(o) = 0 /\ BytesOf(u) = 0
        BY <2>2, FetchedNotGiven
      <3>2. Forms(s)
        BY <2>2, GivenIsForm, FormsGivenTwo
      <3> QED
        BY <2>2, <3>1, <3>2 DEF Taken
    <2>3. ASSUME NEW i, NEW o, NEW u, Given(i), Given(o), Given(u), s = <<i, o, u>>
          PROVE  Forms(s) /\ Taken(s) = 0
      <3>1. Forms(s)
        BY <2>3, FormsThree
      <3> QED
        BY <2>3, <3>1 DEF Taken
    <2> QED
      BY <1>7, <2>1, <2>2, <2>3 DEF s
  <1> QED
    BY <1>1, <1>8 DEF Decoded, s

LEMMA DecodeForms ==
    ASSUME NEW extended \in BOOLEAN, NEW bit \in BOOLEAN, NEW idx \in Indices,
           NEW opcode \in Byte, NEW d \in Int8
    PROVE  LET inst == Decode(extended, bit, idx, opcode, d)
           IN Forms(inst.operands) /\ (~extended /\ bit => Taken(inst.operands) = 0)
  <1> DEFINE x == opcode \div 64
             y == (opcode \div 8) % 8
             z == opcode % 8
  <1>1. x \in 0 .. 3 /\ y \in 0 .. 7 /\ z \in 0 .. 7
    BY DEF Byte
  <1>2. Decode(extended, bit, idx, opcode, d) =
            IF extended THEN Extended(x, y, z)
            ELSE IF bit THEN Bit(x, y, z, idx, d) ELSE Regular(x, y, z, idx)
    BY DEF Decode
  <1> HIDE DEF x, y, z
  <1>3. Decoded(Extended(x, y, z)) /\ Decoded(Regular(x, y, z, idx))
    BY <1>1, ExtendedForms, RegularForms
  <1>4. Decoded(Bit(x, y, z, idx, d)) /\ Taken(Bit(x, y, z, idx, d).operands) = 0
    BY <1>1, BitForms
  <1> QED
    BY <1>2, <1>3, <1>4 DEF Decoded

-----------------------------------------------------------------------------
(***************************************************************************)
(* Reading the operands.                                                   *)
(***************************************************************************)
LEMMA ByteRead ==
    ASSUME NEW b \in Seq(Byte), NEW k \in Nat \ {0}
    PROVE  ReadU8(b, k) \in Byte
  <1>1. 0 \in Byte
    BY DEF Byte
  <1>2. k <= Len(b) => b[k] \in Byte
    BY ElementOfSeq
  <1> QED
    BY <1>1, <1>2 DEF ReadU8

LEMMA InUint16 ==
    ASSUME NEW n \in Nat, n <= 65535
    PROVE  n \in Uint16
  <1> DEFINE last == 65535
  <1>1. last \in Nat /\ n <= last
    OBVIOUS
  <1>2. Uint16 = 0 .. last
    BY DEF Uint16
  <1> HIDE DEF last
  <1> QED
    BY <1>1, <1>2

LEMMA SignedRange ==
    ASSUME NEW v \in Byte
    PROVE  Signed(v) \in Int8 /\ 2 + Signed(v) \in JumpRange
  BY DEF Signed, Byte, Int8, JumpRange

\* A form takes its bytes, and gives an operand as its type says.
LEMMA FormFetched ==
    ASSUME NEW form, Form(form), NEW acc, acc.reads \in Nat,
           NEW b \in Seq(Byte), NEW junk \in Byte
    PROVE  \E op : /\ OperandOK(op)
                   /\ Fetch(acc, form, b, junk) = [reads |-> acc.reads + BytesOf(form),
                                                   operands |-> Append(acc.operands, op)]
  <1> DEFINE n == acc.reads
             lo == ReadU8(b, n + 1)
             hi == ReadU8(b, n + 2)
             word == 256 * hi + lo
             With(k, op) == [reads |-> n + k, operands |-> Append(acc.operands, op)]
             F == Fetch(acc, form, b, junk)
  <1>1. lo \in Byte /\ hi \in Byte
    BY ByteRead
  <1>2. Given(Imm8Deref(lo)) /\ Given(JmpRel(2 + Signed(lo))) /\ Signed(lo) \in Int8
    BY <1>1, SignedRange, GivenImm8, GivenJmpRel
  <1> HIDE DEF lo, hi
  <1>3. word \in Uint16 /\ 256 * junk + lo \in Uint16
    <2>1. /\ lo \in Int /\ 0 <= lo /\ lo <= 255 /\ hi \in Int /\ 0 <= hi /\ hi <= 255
          /\ junk \in Int /\ 0 <= junk /\ junk <= 255
      BY <1>1 DEF Byte
    <2>2. 256 * junk + lo \in Nat /\ 256 * junk + lo <= 65535
      BY <2>1
    <2>3. word \in Nat /\ word <= 65535
      BY <2>1
    <2> QED
      BY <2>2, <2>3, InUint16
  <1>4. Given(Imm16(word)) /\ Given(Imm16Deref(word)) /\ Given(Imm16(256 * junk + lo))
    BY <1>3, GivenImm16
  <1>5. F = IF "fetch" \notin DOMAIN form THEN With(0, form)
            ELSE CASE form = N -> With(1, Imm16(256 * junk + lo))
                   [] form = NDeref -> With(1, Imm8Deref(lo))
                   [] form = D -> With(1, JmpRel(2 + Signed(lo)))
                   [] form = NN -> With(2, Imm16(word))
                   [] form = NNDeref -> With(2, Imm16Deref(word))
                   [] OTHER -> With(1, IndexRel(form.fetch, Signed(lo)))
    BY DEF Fetch, lo, hi
  <1> HIDE DEF F, word
  <1>0. /\ "fetch" \in DOMAIN N /\ "fetch" \in DOMAIN NDeref /\ "fetch" \in DOMAIN D
        /\ "fetch" \in DOMAIN NN /\ "fetch" \in DOMAIN NNDeref
        /\ NDeref # N /\ D # N /\ D # NDeref /\ NN # N /\ NN # NDeref /\ NN # D
        /\ NNDeref # N /\ NNDeref # NDeref /\ NNDeref # D /\ NNDeref # NN
    BY DEF N, NDeref, D, NN, NNDeref
  <1>6. SUFFICES \E op : OperandOK(op) /\ F = With(BytesOf(form), op)
    BY DEF F
  <1> HIDE DEF With
  <1>7. CASE Given(form)
    <2>1. BytesOf(form) = 0 /\ F = With(0, form)
      BY <1>5, <1>7, FetchedNotGiven DEF Given
    <2> QED
      BY <1>7, <2>1, Zenon DEF Given
  <1>8. CASE form \in {N, NDeref, D}
    <2>1. BytesOf(form) = 1
      BY <1>8 DEF BytesOf, OneByte
    <2>2. CASE form = N
      <3>1. F = With(1, Imm16(256 * junk + lo))
        BY <1>0, <1>5, <2>2
      <3> QED
        BY <1>4, <2>1, <3>1, Zenon DEF Given
    <2>3. CASE form = NDeref
      <3>1. F = With(1, Imm8Deref(lo))
        BY <1>0, <1>5, <2>3
      <3> QED
        BY <1>2, <2>1, <3>1, Zenon DEF Given
    <2>4. CASE form = D
      <3>1. F = With(1, JmpRel(2 + Signed(lo)))
        BY <1>0, <1>5, <2>4
      <3> QED
        BY <1>2, <2>1, <3>1, Zenon DEF Given
    <2> QED
      BY <1>8, <2>2, <2>3, <2>4
  <1>9. CASE form \in TwoBytes
    <2>1. BytesOf(form) = 2
      BY <1>9 DEF BytesOf, OneByte, TwoBytes, N, NDeref, D, NN, NNDeref, Disp
    <2>2. CASE form = NN
      <3>1. F = With(2, Imm16(word))
        BY <1>0, <1>5, <2>2
      <3> QED
        BY <1>4, <2>1, <3>1, Zenon DEF Given
    <2>3. CASE form = NNDeref
      <3>1. F = With(2, Imm16Deref(word))
        BY <1>5, <2>3 DEF N, NDeref, D, NN, NNDeref
      <3> QED
        BY <1>4, <2>1, <3>1, Zenon DEF Given
    <2> QED
      BY <1>9, <2>2, <2>3 DEF TwoBytes
  <1>10. ASSUME NEW idx \in {"IX", "IY"}, form = Disp(idx)
         PROVE  \E op : OperandOK(op) /\ F = With(BytesOf(form), op)
    <2>1. BytesOf(form) = 1
      BY <1>10 DEF BytesOf, OneByte
    <2>2. F = With(1, IndexRel(idx, Signed(lo)))
      BY <1>5, <1>10 DEF N, NDeref, D, NN, NNDeref, Disp
    <2>3. Given(IndexRel(idx, Signed(lo)))
      BY <1>2, GivenIndexRel
    <2> QED
      BY <2>1, <2>2, <2>3, Zenon DEF Given
  <1> QED
    BY <1>7, <1>8, <1>9, <1>10 DEF Form, OneByte

\* The loop, for the few operands there are.
LEMMA OperandRounds ==
    ASSUME NEW s, Len(s) \in 0 .. 3, NEW at, NEW b, NEW junk
    PROVE  LET a0 == [reads |-> at, operands |-> <<>>]
               a1 == Fetch(a0, s[1], b, junk)
               a2 == Fetch(a1, s[2], b, junk)
               a3 == Fetch(a2, s[3], b, junk)
           IN ReadOperands(s, at, b, junk) =
                  IF Len(s) = 0 THEN a0 ELSE IF Len(s) = 1 THEN a1
                  ELSE IF Len(s) = 2 THEN a2 ELSE a3
  <1> DEFINE n == Len(s)
             F(a, i) == Fetch(a, s[i], b, junk)
             a0 == [reads |-> at, operands |-> <<>>]
             a1 == F(a0, 1)
             a2 == F(a1, 2)
             a3 == F(a2, 3)
             acc[i \in 0 .. n] == IF i = 0 THEN a0 ELSE F(acc[i - 1], i)
             h == [i \in 0 .. n |-> IF i = 0 THEN a0 ELSE IF i = 1 THEN a1
                                    ELSE IF i = 2 THEN a2 ELSE a3]
  <1>1. ReadOperands(s, at, b, junk) = acc[n]
    BY DEF ReadOperands
  <1>2. n \in 0 .. 3
    OBVIOUS
  <1> HIDE DEF F, a0, n, acc
  <1>3. ASSUME NEW i \in 0 .. n
        PROVE  h[i] = IF i = 0 THEN a0 ELSE F(h[i - 1], i)
    <2>1. h[i] = IF i = 0 THEN a0 ELSE IF i = 1 THEN a1 ELSE IF i = 2 THEN a2 ELSE a3
      OBVIOUS
    <2>2. i # 0 => h[i - 1] = IF i = 1 THEN a0 ELSE IF i = 2 THEN a1
                              ELSE IF i = 3 THEN a2 ELSE a3
      BY <1>2
    <2>3. i = 0 \/ i = 1 \/ i = 2 \/ i = 3
      BY <1>2
    <2> HIDE DEF h
    <2>4. CASE i = 0
      BY <2>1, <2>4
    <2>5. CASE i = 1
      BY <2>1, <2>2, <2>5
    <2>6. CASE i = 2
      BY <2>1, <2>2, <2>6
    <2>7. CASE i = 3
      BY <2>1, <2>2, <2>7
    <2> QED
      BY <2>3, <2>4, <2>5, <2>6, <2>7
  <1>4. h = [i \in 0 .. n |-> h[i]] /\ h[n] = IF n = 0 THEN a0 ELSE IF n = 1 THEN a1
                                             ELSE IF n = 2 THEN a2 ELSE a3
    BY <1>2
  <1> HIDE DEF a1, a2, a3, h
  <1>5. h = [i \in 0 .. n |-> IF i = 0 THEN a0 ELSE F(h[i - 1], i)]
    BY <1>3, <1>4
  <1>6. acc = [i \in 0 .. n |-> IF i = 0 THEN a0 ELSE F(acc[i - 1], i)]
    BY <1>5, Zenon DEF acc
  <1>7. \A i \in 0 .. n : acc[i] = IF i = 0 THEN a0 ELSE F(acc[i - 1], i)
    BY <1>6
  <1>8. acc[n] = IF n = 0 THEN a0 ELSE IF n = 1 THEN a1 ELSE IF n = 2 THEN a2 ELSE a3
    <2>1. acc[0] = a0
      BY <1>2, <1>7
    <2>2. n >= 1 => acc[1] = a1
      BY <1>2, <1>7, <2>1 DEF a1
    <2>3. n >= 2 => acc[2] = a2
      BY <1>2, <1>7, <2>2 DEF a2
    <2>4. n >= 3 => acc[3] = a3
      BY <1>2, <1>7, <2>3 DEF a3
    <2> QED
      BY <1>2, <2>1, <2>2, <2>3, <2>4
  <1> QED
    BY <1>1, <1>8 DEF n, F, a0, a1, a2, a3

OperandsOK(ops) == Len(ops) <= MaxOperands /\ \A j \in 1 .. Len(ops) : OperandOK(ops[j])

\* n operands, each as its type says.
Has(ops, n) == /\ \E S : ops \in Seq(S)
               /\ Len(ops) = n /\ \A j \in 1 .. n : OperandOK(ops[j])

LEMMA HasNone == Has(<<>>, 0)
  <1>1. <<>> \in Seq({}) /\ Len(<<>>) = 0
    OBVIOUS
  <1>2. 1 .. 0 = {}
    OBVIOUS
  <1> QED
    BY <1>1, <1>2 DEF Has

LEMMA HasOneMore ==
    ASSUME NEW ops, NEW n \in Nat, Has(ops, n), NEW op, OperandOK(op)
    PROVE  Has(Append(ops, op), n + 1)
  <1>1. PICK S : ops \in Seq(S)
    BY DEF Has
  <1>2. Len(ops) = n /\ \A j \in 1 .. n : OperandOK(ops[j])
    BY DEF Has
  <1> DEFINE T == S \cup {op}
             w == Append(ops, op)
  <1>3. ops \in Seq(T) /\ op \in T
    BY <1>1, SeqMonotonic
  <1> HIDE DEF T
  <1>4. /\ w \in Seq(T) /\ Len(w) = Len(ops) + 1 /\ w[Len(ops) + 1] = op
        /\ \A i \in 1 .. Len(ops) : w[i] = ops[i]
    BY <1>3, AppendProperties
  <1> HIDE DEF w
  <1>5. Len(w) = n + 1 /\ w[n + 1] = op /\ \A i \in 1 .. n : w[i] = ops[i]
    BY <1>2, <1>4
  <1>6. ASSUME NEW j \in 1 .. n + 1
        PROVE  OperandOK(w[j])
    <2>1. j = n + 1 \/ j \in 1 .. n
      OBVIOUS
    <2> QED
      BY <1>2, <1>5, <2>1
  <1>7. \E U : w \in Seq(U)
    BY <1>4, Zenon
  <1>8. Has(w, n + 1)
    BY <1>5, <1>6, <1>7 DEF Has
  <1> QED
    BY <1>8 DEF w

LEMMA HasOK ==
    ASSUME NEW ops, NEW n \in 0 .. 3, Has(ops, n)
    PROVE  OperandsOK(ops)
  BY DEF Has, OperandsOK, MaxOperands

LEMMA FormsLength ==
    ASSUME NEW s, Forms(s)
    PROVE  Len(s) \in 0 .. 3 /\ Taken(s) \in 0 .. 2
  <1>1. CASE s = <<>>
    BY <1>1 DEF Taken
  <1>2. ASSUME NEW a, Form(a), s = <<a>>
        PROVE  Len(s) \in 0 .. 3 /\ Taken(s) \in 0 .. 2
    BY <1>2, BytesOfForm DEF Taken
  <1>3. ASSUME NEW a, NEW b, Form(a), Form(b), BytesOf(a) + BytesOf(b) <= 2, s = <<a, b>>
        PROVE  Len(s) \in 0 .. 3 /\ Taken(s) \in 0 .. 2
    <2>1. BytesOf(a) \in 0 .. 2 /\ BytesOf(b) \in 0 .. 2
      BY <1>3, BytesOfForm
    <2> QED
      BY <1>3, <2>1 DEF Taken
  <1>4. ASSUME NEW a, NEW b, NEW c, s = <<a, b, c>>
        PROVE  Len(s) \in 0 .. 3 /\ Taken(s) \in 0 .. 2
    BY <1>4 DEF Taken
  <1> QED
    BY <1>1, <1>2, <1>3, <1>4 DEF Forms

LEMMA OperandsRead ==
    ASSUME NEW s, Forms(s), NEW at \in Nat, NEW b \in Seq(Byte), NEW junk \in Byte
    PROVE  LET done == ReadOperands(s, at, b, junk)
           IN done.reads = at + Taken(s) /\ OperandsOK(done.operands)
  <1> DEFINE a0 == [reads |-> at, operands |-> <<>>]
             a1 == Fetch(a0, s[1], b, junk)
             a2 == Fetch(a1, s[2], b, junk)
             a3 == Fetch(a2, s[3], b, junk)
             done == ReadOperands(s, at, b, junk)
             After(a, form, op) == [reads |-> a.reads + BytesOf(form),
                                    operands |-> Append(a.operands, op)]
  <1>1. done = IF Len(s) = 0 THEN a0 ELSE IF Len(s) = 1 THEN a1
               ELSE IF Len(s) = 2 THEN a2 ELSE a3
    BY OperandRounds, FormsLength
  <1>2. ASSUME NEW a, NEW f, Form(f), a.reads \in Nat
        PROVE  \E op : OperandOK(op) /\ Fetch(a, f, b, junk) = After(a, f, op)
    BY <1>2, FormFetched
  <1>3. a0.reads = at /\ a0.operands = <<>>
    OBVIOUS
  <1> HIDE DEF a0, a1, a2, a3, done
  <1>4. ASSUME s = <<>>
        PROVE  done.reads = at + Taken(s) /\ OperandsOK(done.operands)
    <2>1. Len(s) = 0 /\ Taken(s) = 0
      BY <1>4 DEF Taken
    <2>2. done.reads = at + Taken(s) /\ done.operands = <<>>
      BY <1>1, <1>3, <2>1
    <2>3. OperandsOK(<<>>)
      BY HasNone, HasOK
    <2> QED
      BY <2>2, <2>3
  <1>5. ASSUME NEW a, NEW n \in Nat, Has(a.operands, n), a.reads \in Nat, NEW f, Form(f)
        PROVE  LET next == Fetch(a, f, b, junk)
               IN /\ next.reads = a.reads + BytesOf(f) /\ next.reads \in Nat
                  /\ Has(next.operands, n + 1)
    <2>1. PICK o : OperandOK(o) /\ Fetch(a, f, b, junk) = After(a, f, o)
      BY <1>2, <1>5
    <2>2. Has(Append(a.operands, o), n + 1) /\ BytesOf(f) \in 0 .. 2
      BY <1>5, <2>1, HasOneMore, BytesOfForm
    <2> QED
      BY <1>5, <2>1, <2>2
  <1>6. ASSUME Form(s[1])
        PROVE  a1.reads = at + BytesOf(s[1]) /\ a1.reads \in Nat /\ Has(a1.operands, 1)
    <2>1. Has(a0.operands, 0) /\ a0.reads = at
      BY <1>3, HasNone
    <2> QED
      BY <1>5, <1>6, <2>1 DEF a1
  <1>7. ASSUME Form(s[1]), Form(s[2])
        PROVE  /\ a2.reads = at + (BytesOf(s[1]) + BytesOf(s[2])) /\ a2.reads \in Nat
               /\ Has(a2.operands, 2)
    <2>1. a1.reads = at + BytesOf(s[1]) /\ a1.reads \in Nat /\ Has(a1.operands, 1)
      BY <1>6, <1>7
    <2>2. BytesOf(s[1]) \in 0 .. 2 /\ BytesOf(s[2]) \in 0 .. 2
      BY <1>7, BytesOfForm
    <2>3. a2.reads = a1.reads + BytesOf(s[2]) /\ a2.reads \in Nat /\ Has(a2.operands, 2)
      BY <1>5, <1>7, <2>1 DEF a2
    <2> QED
      BY <2>1, <2>2, <2>3
  <1>8. ASSUME NEW a, Form(a), s = <<a>>
        PROVE  done.reads = at + Taken(s) /\ OperandsOK(done.operands)
    <2>1. Len(s) = 1 /\ s[1] = a
      BY <1>8
    <2>2. done = a1 /\ done.reads = at + Taken(s) /\ Has(done.operands, 1)
      BY <1>1, <1>6, <1>8, <2>1 DEF Taken
    <2> QED
      BY <2>2, HasOK
  <1>9. ASSUME NEW a, NEW c, Form(a), Form(c), s = <<a, c>>
        PROVE  done.reads = at + Taken(s) /\ OperandsOK(done.operands)
    <2>1. Len(s) = 2 /\ s[1] = a /\ s[2] = c
      BY <1>9
    <2>2. done = a2 /\ done.reads = at + Taken(s) /\ Has(done.operands, 2)
      BY <1>1, <1>7, <1>9, <2>1 DEF Taken
    <2> QED
      BY <2>2, HasOK
  <1>10. ASSUME NEW a, NEW c, NEW e, Given(a), Given(c), Given(e), s = <<a, c, e>>
         PROVE  done.reads = at + Taken(s) /\ OperandsOK(done.operands)
    <2>1. Len(s) = 3 /\ s[1] = a /\ s[2] = c /\ s[3] = e
      BY <1>10
    <2>2. Form(a) /\ Form(c) /\ Form(e) /\ BytesOf(a) = 0 /\ BytesOf(c) = 0 /\ BytesOf(e) = 0
      BY <1>10, GivenIsForm, FetchedNotGiven
    <2>3. a2.reads = at /\ a2.reads \in Nat /\ Has(a2.operands, 2)
      BY <1>7, <2>1, <2>2
    <2>4. a3.reads = a2.reads + BytesOf(e) /\ Has(a3.operands, 3)
      BY <1>5, <2>1, <2>2, <2>3 DEF a3
    <2>5. done = a3 /\ Taken(s) = 0
      BY <1>1, <2>1 DEF Taken
    <2>6. a3.reads = at + Taken(s)
      BY <2>2, <2>3, <2>4, <2>5
    <2> QED
      <3>1. Has(done.operands, 3) /\ done.reads = at + Taken(s)
        BY <2>4, <2>5, <2>6
      <3> QED
        BY <3>1, HasOK
  <1>11. done.reads = at + Taken(s) /\ OperandsOK(done.operands)
    BY <1>4, <1>8, <1>9, <1>10, Zenon DEF Forms
  <1> QED
    BY <1>11 DEF done

-----------------------------------------------------------------------------
(***************************************************************************)
(* ReadInst by its parts: the prefixes, the place of the opcode, what it   *)
(* decodes to, and the reads that makes.                                   *)
(***************************************************************************)
InstIndex(b) == Index(ReadU8(b, 1))
InstBit(b) == ReadU8(b, IF InstIndex(b) = "none" THEN 1 ELSE 2) = \hCB
InstExtended(b) == ReadU8(b, 1) = \hED
OpcodeAt(b) ==
    IF InstIndex(b) # "none" /\ InstBit(b) THEN 4
    ELSE IF InstIndex(b) = "none" /\ ~InstExtended(b) /\ ~InstBit(b) THEN 1 ELSE 2
InstAt(b) == Decode(InstExtended(b), InstBit(b), InstIndex(b), ReadU8(b, OpcodeAt(b)),
                    Signed(ReadU8(b, 3)))
Reads(b) == OpcodeAt(b) + Taken(InstAt(b).operands)

LEMMA IndexKnown ==
    ASSUME NEW b
    PROVE  InstIndex(b) \in Indices
  BY DEF InstIndex, Index, Indices

LEMMA InstForms ==
    ASSUME NEW b \in Seq(Byte)
    PROVE  /\ Forms(InstAt(b).operands) /\ Taken(InstAt(b).operands) \in 0 .. 2
           /\ OpcodeAt(b) \in {1, 2, 4} /\ Reads(b) \in 1 .. 4
  <1>1. OpcodeAt(b) \in {1, 2, 4}
    BY DEF OpcodeAt
  <1>2. ReadU8(b, OpcodeAt(b)) \in Byte /\ Signed(ReadU8(b, 3)) \in Int8
    BY <1>1, ByteRead, SignedRange
  <1>3. InstExtended(b) \in BOOLEAN /\ InstBit(b) \in BOOLEAN /\ InstIndex(b) \in Indices
    BY IndexKnown DEF InstExtended, InstBit
  <1>4. /\ Forms(InstAt(b).operands)
        /\ ~InstExtended(b) /\ InstBit(b) => Taken(InstAt(b).operands) = 0
    BY <1>2, <1>3, DecodeForms DEF InstAt
  <1>5. Taken(InstAt(b).operands) \in 0 .. 2
    BY <1>4, FormsLength
  <1>6. InstIndex(b) # "none" => ~InstExtended(b)
    BY DEF InstIndex, Index, InstExtended
  <1>7. OpcodeAt(b) = 4 => Taken(InstAt(b).operands) = 0
    BY <1>4, <1>6 DEF OpcodeAt
  <1>8. Reads(b) \in 1 .. 4
    BY <1>1, <1>5, <1>7 DEF Reads
  <1> QED
    BY <1>1, <1>4, <1>5, <1>8

LEMMA InstRead ==
    ASSUME NEW b \in Seq(Byte), NEW junk \in Byte
    PROVE  LET inst == Disassemble(b, junk)
           IN /\ inst.mnemoric = IF Reads(b) > Len(b) THEN "INVALID" ELSE InstAt(b).mnemoric
              /\ inst.size = IF Reads(b) > Len(b) THEN Len(b) ELSE Reads(b)
              /\ OperandsOK(inst.operands)
  <1> DEFINE done == ReadOperands(InstAt(b).operands, OpcodeAt(b), b, junk)
             read == ReadInst(b, junk)
  <1>1. OpcodeAt(b) = CASE InstIndex(b) # "none" /\ InstBit(b) -> 4
                        [] InstIndex(b) = "none" /\ ~InstExtended(b) /\ ~InstBit(b) -> 1
                        [] OTHER -> 2
    BY DEF OpcodeAt
  <1>2. read = [mnemoric |-> InstAt(b).mnemoric, operands |-> done.operands,
                size |-> SizeAfter(b, done.reads), cut |-> OutOfBounds(b, done.reads)]
    BY <1>1, Zenon DEF ReadInst, InstAt, InstIndex, InstBit, InstExtended
  <1>3. done.reads = Reads(b) /\ OperandsOK(done.operands)
    BY InstForms, OperandsRead DEF Reads
  <1> HIDE DEF done
  <1>4. /\ read.mnemoric = InstAt(b).mnemoric /\ read.operands = done.operands
        /\ read.size = IF Reads(b) > Len(b) THEN Len(b) ELSE Reads(b)
        /\ read.cut = (Reads(b) > Len(b))
    BY <1>2, <1>3 DEF SizeAfter, OutOfBounds
  <1>5. OperandsOK(<<>>)
    BY DEF OperandsOK, MaxOperands
  <1> HIDE DEF read
  <1> QED
    BY <1>3, <1>4, <1>5 DEF Disassemble, read

-----------------------------------------------------------------------------
(***************************************************************************)
(* What the first bytes decide.                                            *)
(***************************************************************************)
StartOf(p, b) == Len(p) \in 1 .. Len(b) /\ \A i \in 1 .. Len(p) : p[i] = b[i]

\* The displacement is looked at only behind two prefixes.
LEMMA DecodeIgnores ==
    ASSUME NEW extended \in BOOLEAN, NEW bit \in BOOLEAN, NEW idx, NEW opcode, NEW d, NEW e,
           ~(bit /\ idx # "none")
    PROVE  Decode(extended, bit, idx, opcode, d) = Decode(extended, bit, idx, opcode, e)
  <1> DEFINE x == opcode \div 64
             y == (opcode \div 8) % 8
             z == opcode % 8
  <1>1. \A f : Decode(extended, bit, idx, opcode, f) =
            IF extended THEN Extended(x, y, z)
            ELSE IF bit THEN Bit(x, y, z, idx, f) ELSE Regular(x, y, z, idx)
    BY DEF Decode
  <1>2. idx = "none" => Bit(x, y, z, idx, d) = Bit(x, y, z, idx, e)
    BY DEF Bit
  <1> HIDE DEF x, y, z
  <1> QED
    BY <1>1, <1>2

LEMMA SameBytes ==
    ASSUME NEW b \in Seq(Byte), NEW p \in Seq(Byte), StartOf(p, b), NEW k \in 1 .. Len(p)
    PROVE  ReadU8(p, k) = ReadU8(b, k)
  BY DEF StartOf, ReadU8

\* With the opcode the whole instruction is the same, and without it it is cut off.
LEMMA StartReads ==
    ASSUME NEW b \in Seq(Byte), NEW p \in Seq(Byte), StartOf(p, b)
    PROVE  /\ Len(p) >= OpcodeAt(b) =>
                 Reads(p) = Reads(b) /\ InstAt(p).mnemoric = InstAt(b).mnemoric
           /\ Len(p) < OpcodeAt(b) => Reads(p) > Len(p)
  <1>1. Len(p) \in Nat \ {0} /\ Len(b) \in Nat
    BY DEF StartOf
  <1>2. \A k \in 1 .. Len(p) : ReadU8(p, k) = ReadU8(b, k)
    BY SameBytes
  <1>3. ReadU8(p, 1) = ReadU8(b, 1)
    BY <1>1, <1>2
  <1>4. InstIndex(p) = InstIndex(b) /\ InstExtended(p) = InstExtended(b)
    BY <1>3 DEF InstIndex, InstExtended
  <1>5. Len(p) >= 2 \/ InstIndex(b) = "none" => InstBit(p) = InstBit(b)
    <2>1. Len(p) >= 2 => ReadU8(p, 2) = ReadU8(b, 2)
      BY <1>1, <1>2
    <2> QED
      BY <1>3, <1>4, <2>1 DEF InstBit
  <1>6. /\ InstBit(p) \in BOOLEAN /\ InstBit(b) \in BOOLEAN
        /\ InstExtended(p) \in BOOLEAN /\ InstExtended(b) \in BOOLEAN
    BY DEF InstBit, InstExtended
  <1>7. Len(p) >= OpcodeAt(b) =>
            Reads(p) = Reads(b) /\ InstAt(p).mnemoric = InstAt(b).mnemoric
    <2> SUFFICES ASSUME Len(p) >= OpcodeAt(b)
                 PROVE  Reads(p) = Reads(b) /\ InstAt(p).mnemoric = InstAt(b).mnemoric
      OBVIOUS
    <2>1. InstBit(p) = InstBit(b)
      BY <1>1, <1>5 DEF OpcodeAt
    <2>2. OpcodeAt(p) = OpcodeAt(b)
      BY <1>4, <2>1 DEF OpcodeAt
    <2>3. OpcodeAt(b) \in {1, 2, 4}
      BY InstForms
    <2>4. ReadU8(p, OpcodeAt(b)) = ReadU8(b, OpcodeAt(b))
      BY <1>1, <1>2, <2>3
    <2>5. InstAt(p) = InstAt(b)
      <3>1. CASE InstBit(b) /\ InstIndex(b) # "none"
        <4>1. OpcodeAt(b) = 4
          BY <3>1 DEF OpcodeAt
        <4>2. ReadU8(p, 3) = ReadU8(b, 3)
          BY <1>1, <1>2, <4>1
        <4> QED
          BY <1>4, <2>1, <2>2, <2>4, <4>2 DEF InstAt
      <3>2. CASE ~(InstBit(b) /\ InstIndex(b) # "none")
        <4>1. \A d, e : Decode(InstExtended(b), InstBit(b), InstIndex(b), ReadU8(b, OpcodeAt(b)), d)
                      = Decode(InstExtended(b), InstBit(b), InstIndex(b), ReadU8(b, OpcodeAt(b)), e)
          BY <1>6, <3>2, DecodeIgnores
        <4> QED
          BY <1>4, <2>1, <2>2, <2>4, <4>1 DEF InstAt
      <3> QED
        BY <3>1, <3>2
    <2> QED
      BY <2>2, <2>5 DEF Reads
  <1>8. Len(p) < OpcodeAt(b) => Reads(p) > Len(p)
    <2> SUFFICES ASSUME Len(p) < OpcodeAt(b)
                 PROVE  Reads(p) > Len(p)
      OBVIOUS
    <2>1. OpcodeAt(p) > Len(p)
      <3>1. CASE Len(p) = 1
        BY <1>4, <1>5, <3>1 DEF OpcodeAt
      <3>2. CASE Len(p) >= 2
        <4>1. InstBit(p) = InstBit(b)
          BY <1>5, <3>2
        <4>2. OpcodeAt(p) = OpcodeAt(b)
          BY <1>4, <4>1 DEF OpcodeAt
        <4> QED
          BY <4>2
      <3>3. \A n \in Nat \ {0} : n = 1 \/ n >= 2
        OBVIOUS
      <3> QED
        BY <1>1, <3>1, <3>2, <3>3, Zenon
    <2>2. Taken(InstAt(p).operands) \in 0 .. 2 /\ OpcodeAt(p) \in {1, 2, 4}
      BY InstForms
    <2> QED
      BY <1>1, <2>1, <2>2 DEF Reads
  <1> QED
    BY <1>7, <1>8

\* An instruction's own bytes give it again, and no fewer do.
LEMMA OwnBytes ==
    ASSUME NEW b \in Seq(Byte), NEW p \in Seq(Byte), StartOf(p, b),
           NEW junk \in Byte, NEW other \in Byte
    PROVE  LET inst == Disassemble(b, junk)
               own == Disassemble(p, other)
           IN /\ Len(p) = inst.size => own.size = inst.size /\ own.mnemoric = inst.mnemoric
              /\ Len(p) < inst.size /\ inst.mnemoric # "INVALID" => own.mnemoric = "INVALID"
  <1> DEFINE inst == Disassemble(b, junk)
             own == Disassemble(p, other)
  <1>1. /\ inst.mnemoric = IF Reads(b) > Len(b) THEN "INVALID" ELSE InstAt(b).mnemoric
        /\ inst.size = IF Reads(b) > Len(b) THEN Len(b) ELSE Reads(b)
    BY InstRead
  <1>2. /\ own.mnemoric = IF Reads(p) > Len(p) THEN "INVALID" ELSE InstAt(p).mnemoric
        /\ own.size = IF Reads(p) > Len(p) THEN Len(p) ELSE Reads(p)
    BY InstRead
  <1> HIDE DEF inst, own
  <1>3. /\ Len(p) >= OpcodeAt(b) =>
              Reads(p) = Reads(b) /\ InstAt(p).mnemoric = InstAt(b).mnemoric
        /\ Len(p) < OpcodeAt(b) => Reads(p) > Len(p)
    BY StartReads
  <1>4. /\ Reads(b) \in 1 .. 4 /\ Reads(p) \in 1 .. 4 /\ OpcodeAt(b) \in {1, 2, 4}
        /\ Reads(b) >= OpcodeAt(b) /\ Len(p) \in Nat /\ Len(b) \in Nat /\ Len(p) <= Len(b)
    <2>1. Taken(InstAt(b).operands) \in 0 .. 2 /\ OpcodeAt(b) \in {1, 2, 4}
      BY InstForms
    <2>2. Reads(b) >= OpcodeAt(b)
      BY <2>1 DEF Reads
    <2> QED
      BY <2>1, <2>2, InstForms DEF StartOf
  <1>5. Len(p) = inst.size => own.size = inst.size /\ own.mnemoric = inst.mnemoric
    <2> SUFFICES ASSUME Len(p) = inst.size
                 PROVE  own.size = inst.size /\ own.mnemoric = inst.mnemoric
      OBVIOUS
    <2>1. CASE Reads(b) > Len(b)
      <3>1. Reads(p) > Len(p)
        BY <1>1, <1>3, <1>4, <2>1
      <3> QED
        BY <1>1, <1>2, <2>1, <3>1
    <2>2. CASE ~(Reads(b) > Len(b))
      <3>1. Len(p) = Reads(b) /\ Reads(p) = Reads(b) /\ InstAt(p).mnemoric = InstAt(b).mnemoric
        BY <1>1, <1>3, <1>4, <2>2
      <3>2. ~(Reads(p) > Len(p))
        BY <1>4, <3>1
      <3> QED
        BY <1>1, <1>2, <2>2, <3>1, <3>2
    <2> QED
      BY <2>1, <2>2
  <1>6. Len(p) < inst.size /\ inst.mnemoric # "INVALID" => own.mnemoric = "INVALID"
    <2> SUFFICES ASSUME Len(p) < inst.size, inst.mnemoric # "INVALID"
                 PROVE  own.mnemoric = "INVALID"
      OBVIOUS
    <2>1. inst.size = Reads(b)
      BY <1>1
    <2>2. Reads(p) > Len(p)
      BY <1>3, <1>4, <2>1
    <2> QED
      BY <1>2, <2>2
  <1> QED
    BY <1>5, <1>6 DEF inst, own

-----------------------------------------------------------------------------
(***************************************************************************)
(* The listing.                                                            *)
(***************************************************************************)
\* What the loop may print: at each offset the instruction decoded there.
Behind(at) == SubSeq(code, at + 1, Len(code))
Entries == {[at |-> at, inst |-> Disassemble(Behind(at), junk)] :
              at \in 0 .. Len(code) - 1, junk \in Junk}

\* The invariant: the offset is within the bytes, and what is listed was decoded
\* from the bytes there, whatever lay in those that are never written.
ListingInv ==
    /\ code \in Codes \cup {<<>>}
    /\ offset \in 0 .. Len(code)
    /\ listing \in Seq(Entries)

LEMMA CodesAreBytes == \A c \in Codes \cup {<<>>} : c \in Seq(Byte) /\ Len(c) \in Nat
  <1>1. \A c \in Codes \cup {<<>>} : c \in Seq(Byte)
    <2>1. <<>> \in Seq(Byte)
      BY EmptySeq
    <2>2. \A c \in Codes : c \in Seq(Byte)
      BY DisassemblerAssumption, Zenon
    <2> QED
      BY <2>1, <2>2
  <1>2. \A c \in Seq(Byte) : Len(c) \in Nat
    OBVIOUS
  <1> QED
    BY <1>1, <1>2

LEMMA RestOfCode ==
    ASSUME code \in Seq(Byte), NEW at \in 0 .. Len(code) - 1
    PROVE  /\ Behind(at) \in Seq(Byte) /\ Len(Behind(at)) = Len(code) - at
           /\ \A i \in 1 .. Len(code) - at : Behind(at)[i] = code[at + i]
  <1>1. at + 1 \in Int /\ Len(code) \in Int /\ at + 1 <= Len(code)
    OBVIOUS
  <1>2. \A i \in at + 1 .. Len(code) : code[i] \in Byte
    BY ElementOfSeq
  <1>3. /\ Behind(at) \in Seq(Byte)
        /\ Len(Behind(at)) = IF at + 1 <= Len(code) THEN Len(code) - (at + 1) + 1 ELSE 0
        /\ \A i \in 1 .. Len(code) - (at + 1) + 1 : Behind(at)[i] = code[at + 1 + i - 1]
    BY <1>1, <1>2, SubSeqProperties DEF Behind
  <1>4. \A i \in 1 .. Len(code) - at :
            i \in 1 .. Len(code) - (at + 1) + 1 /\ at + 1 + i - 1 = at + i
    BY <1>1
  <1>5. Len(Behind(at)) = Len(code) - at
    BY <1>1, <1>3
  <1>6. \A i \in 1 .. Len(code) - at : Behind(at)[i] = code[at + i]
    BY <1>3, <1>4
  <1> QED
    BY <1>3, <1>5, <1>6

\* Wherever the loop stands, it goes on by the bytes of an instruction.
LEMMA SizeThere ==
    ASSUME code \in Seq(Byte), NEW at \in 0 .. Len(code) - 1, NEW junk \in Junk
    PROVE  LET inst == Disassemble(Behind(at), junk)
           IN /\ inst.size \in 1 .. MaxInstSize /\ at + inst.size <= Len(code)
              /\ OperandsOK(inst.operands)
  <1> DEFINE b == Behind(at)
             inst == Disassemble(b, junk)
  <1>1. b \in Seq(Byte) /\ Len(b) = Len(code) - at /\ Len(code) \in Nat /\ junk \in Byte
    BY RestOfCode, DisassemblerAssumption
  <1> HIDE DEF b
  <1>2. /\ inst.size = IF Reads(b) > Len(b) THEN Len(b) ELSE Reads(b)
        /\ OperandsOK(inst.operands)
    BY <1>1, InstRead
  <1>3. Reads(b) \in 1 .. 4
    BY <1>1, InstForms
  <1> HIDE DEF inst
  <1>4. inst.size \in 1 .. MaxInstSize /\ at + inst.size <= Len(code)
    BY <1>1, <1>2, <1>3 DEF MaxInstSize
  <1> QED
    BY <1>2, <1>4 DEF inst, b

LEMMA ListingInit == Init => ListingInv
  <1>1. ASSUME Init
        PROVE  ListingInv
    BY <1>1 DEF Init, ListingInv
  <1> QED
    BY <1>1

LEMMA ListingStep == ListingInv /\ [Next]_vars => ListingInv'
  <1> SUFFICES ASSUME ListingInv, [Next]_vars
               PROVE  ListingInv'
    OBVIOUS
  <1>1. code \in Seq(Byte) /\ Len(code) \in Nat
    BY CodesAreBytes DEF ListingInv
  <1>2. CASE Start
    <2>1. code' \in Codes /\ offset' = 0 /\ listing' = listing /\ code = <<>>
      BY <1>2 DEF Start
    <2>2. Len(code') \in Nat
      BY <2>1, CodesAreBytes
    <2>3. Entries = {}
      BY <2>1 DEF Entries
    <2>4. listing' \in Seq(Entries')
      BY <2>1, <2>3, SeqMonotonic DEF ListingInv
    <2> QED
      BY <2>1, <2>2, <2>4 DEF ListingInv
  <1>3. CASE ListNext
    <2>1. PICK junk \in Junk :
              LET inst == Disassemble(Rest, junk)
              IN listing' = Append(listing, [at |-> offset, inst |-> inst])
                 /\ offset' = offset + inst.size
      BY <1>3 DEF ListNext
    <2> DEFINE inst == Disassemble(Behind(offset), junk)
               entry == [at |-> offset, inst |-> inst]
    <2>2. code' = code /\ offset \in 0 .. Len(code) - 1 /\ Rest = Behind(offset)
      BY <1>1, <1>3 DEF ListNext, ListingInv, Rest, Behind
    <2>3. listing' = Append(listing, entry) /\ offset' = offset + inst.size
      BY <2>1, <2>2
    <2>4. inst.size \in 1 .. MaxInstSize /\ offset + inst.size <= Len(code)
      BY <1>1, <2>2, SizeThere
    <2>5. entry \in Entries /\ Entries' = Entries
      BY <2>2 DEF Entries, Behind
    <2> HIDE DEF inst, entry
    <2>6. listing' \in Seq(Entries')
      BY <2>3, <2>5, AppendProperties DEF ListingInv
    <2>7. offset' \in 0 .. Len(code')
      BY <1>1, <2>2, <2>3, <2>4 DEF MaxInstSize
    <2> QED
      BY <2>2, <2>6, <2>7 DEF ListingInv
  <1>4. CASE Return
    <2>1. code' = <<>> /\ offset' = 0 /\ listing' = <<>>
      BY <1>4 DEF Return
    <2>2. listing' \in Seq(Entries') /\ Len(code') = 0
      BY <2>1
    <2> QED
      BY <2>1, <2>2 DEF ListingInv
  <1>5. CASE UNCHANGED vars
    <2>1. code' = code /\ offset' = offset /\ listing' = listing
      BY <1>5 DEF vars
    <2>2. Entries' = Entries
      BY <2>1 DEF Entries, Behind
    <2> QED
      BY <2>1, <2>2 DEF ListingInv
  <1> QED
    BY <1>2, <1>3, <1>4, <1>5 DEF Next

\* All that is listed was decoded where it says (commands/disassemble.c).
THEOREM DisassemblerInvariant == Spec => []ListingInv
  BY ListingInit, ListingStep, PTL DEF Spec

LEMMA ListedThere ==
    ASSUME ListingInv, NEW k \in 1 .. Len(listing)
    PROVE  \E at \in 0 .. Len(code) - 1, junk \in Junk :
               listing[k].at = at /\ listing[k].inst = Disassemble(Behind(at), junk)
  <1>1. listing[k] \in Entries
    BY ElementOfSeq DEF ListingInv
  <1> QED
    BY <1>1 DEF Entries

\* Types: every operand that is printed holds the member of the union that its
\* type names, in its range, and there are at most three of them, so that
\* next_operand never fails its assertion (z80/disassemble.c:86-94).
THEOREM DisassemblerTypeOK == Spec => []TypeOK
  <1>1. ListingInv => TypeOK
    <2> SUFFICES ASSUME ListingInv
                 PROVE  TypeOK
      OBVIOUS
    <2>1. code \in Seq(Byte) /\ Len(code) \in Nat /\ offset \in Nat
      BY CodesAreBytes DEF ListingInv
    <2>2. ASSUME NEW k \in 1 .. Len(listing)
          PROVE  OperandsOK(listing[k].inst.operands)
      BY <2>1, ListedThere, SizeThere
    <2> QED
      BY <2>1, <2>2 DEF TypeOK, OperandsOK
  <1> QED
    BY DisassemblerInvariant, <1>1, PTL

\* Every instruction, valid or not, takes one to four bytes of those there are:
\* neither the padding of a line nor the loop, which both count in unsigned
\* arithmetic, runs past them, and the loop ends (disassemble.h:8).
THEOREM DisassemblerSizesFit == Spec => []SizesFit
  <1>1. ListingInv => SizesFit
    <2> SUFFICES ASSUME ListingInv
                 PROVE  SizesFit
      OBVIOUS
    <2>1. code \in Seq(Byte) /\ Len(code) \in Nat /\ offset <= Len(code)
      BY CodesAreBytes DEF ListingInv
    <2>2. ASSUME NEW k \in 1 .. Len(listing)
          PROVE  listing[k].inst.size \in 1 .. MaxInstSize
      BY <2>1, ListedThere, SizeThere
    <2> QED
      BY <2>1, <2>2 DEF SizesFit
  <1> QED
    BY DisassemblerInvariant, <1>1, PTL

\* An instruction's bytes are all that decides it, whatever follows them in the
\* region and whatever lies in the bytes never written, and cut off anywhere it is
\* shown as invalid (z80_disassemble).
THEOREM DisassemblerBytesDecide == Spec => []BytesDecide
  <1>1. ListingInv => BytesDecide
    <2> SUFFICES ASSUME ListingInv, NEW k \in 1 .. Len(listing), NEW other \in Junk
                 PROVE  LET at == listing[k].at
                            inst == listing[k].inst
                            own == Disassemble(SubSeq(code, at + 1, at + inst.size), other)
                        IN /\ own.size = inst.size
                           /\ own.mnemoric = inst.mnemoric
                           /\ \A cut \in 1 .. inst.size - 1 :
                                inst.mnemoric # "INVALID" =>
                                    Disassemble(SubSeq(code, at + 1, at + cut), other).mnemoric
                                        = "INVALID"
      BY DEF BytesDecide
    <2>1. code \in Seq(Byte) /\ Len(code) \in Nat
      BY CodesAreBytes DEF ListingInv
    <2>2. PICK at \in 0 .. Len(code) - 1, junk \in Junk :
              listing[k].at = at /\ listing[k].inst = Disassemble(Behind(at), junk)
      BY ListedThere
    <2> DEFINE b == Behind(at)
               inst == Disassemble(b, junk)
    <2>3. /\ b \in Seq(Byte) /\ Len(b) = Len(code) - at
          /\ \A i \in 1 .. Len(code) - at : b[i] = code[at + i]
      BY <2>1, RestOfCode
    <2>4. inst.size \in 1 .. MaxInstSize /\ at + inst.size <= Len(code)
      BY <2>1, SizeThere
    <2>5. junk \in Byte /\ other \in Byte
      BY DisassemblerAssumption
    <2>6. inst = listing[k].inst /\ at = listing[k].at
      BY <2>2
    <2> HIDE DEF b, inst
    <2>7. ASSUME NEW n \in 1 .. inst.size
          PROVE  LET p == SubSeq(code, at + 1, at + n)
                 IN p \in Seq(Byte) /\ Len(p) = n /\ StartOf(p, b)
      <3> DEFINE p == SubSeq(code, at + 1, at + n)
      <3>1. at + 1 \in Int /\ at + n \in Int /\ at + 1 <= at + n /\ at + n <= Len(code)
            /\ n <= Len(code) - at
        BY <2>1, <2>4 DEF MaxInstSize
      <3>2. \A i \in at + 1 .. at + n : code[i] \in Byte
        BY <2>1, <3>1, ElementOfSeq
      <3>3. /\ p \in Seq(Byte)
            /\ Len(p) = IF at + 1 <= at + n THEN at + n - (at + 1) + 1 ELSE 0
            /\ \A i \in 1 .. at + n - (at + 1) + 1 : p[i] = code[at + 1 + i - 1]
        BY <3>1, <3>2, SubSeqProperties
      <3> HIDE DEF p
      <3>4. Len(p) = n
        BY <3>1, <3>3
      <3>5. \A i \in 1 .. n : i \in 1 .. at + n - (at + 1) + 1 /\ at + 1 + i - 1 = at + i
        BY <3>1
      <3>6. ASSUME NEW i \in 1 .. n
            PROVE  p[i] = b[i]
        <4>1. p[i] = code[at + 1 + i - 1]
          BY <3>3, <3>5
        <4>2. i \in 1 .. Len(code) - at
          BY <2>1, <3>1
        <4>3. b[i] = code[at + i]
          BY <2>3, <4>2
        <4> QED
          BY <3>5, <4>1, <4>3
      <3>7. StartOf(p, b)
        BY <2>1, <2>3, <3>1, <3>4, <3>6 DEF StartOf
      <3> QED
        BY <3>3, <3>4, <3>7 DEF p
    <2>8. ASSUME NEW n \in 1 .. inst.size
          PROVE  LET own == Disassemble(SubSeq(code, at + 1, at + n), other)
                 IN /\ n = inst.size => own.size = inst.size /\ own.mnemoric = inst.mnemoric
                    /\ n < inst.size /\ inst.mnemoric # "INVALID" => own.mnemoric = "INVALID"
      <3> DEFINE p == SubSeq(code, at + 1, at + n)
      <3>1. p \in Seq(Byte) /\ Len(p) = n /\ StartOf(p, b)
        BY <2>7
      <3> HIDE DEF p
      <3>2. LET own == Disassemble(p, other)
            IN /\ Len(p) = inst.size => own.size = inst.size /\ own.mnemoric = inst.mnemoric
               /\ Len(p) < inst.size /\ inst.mnemoric # "INVALID" => own.mnemoric = "INVALID"
        BY <2>3, <2>5, <3>1, OwnBytes DEF inst
      <3> QED
        BY <3>1, <3>2 DEF p
    <2>9. inst.size \in 1 .. inst.size /\ \A n \in 1 .. inst.size - 1 :
              n \in 1 .. inst.size /\ n < inst.size
      <3>1. inst.size \in Nat /\ inst.size >= 1
        BY <2>4 DEF MaxInstSize
      <3> QED
        BY <3>1
    <2>10. /\ Disassemble(SubSeq(code, at + 1, at + inst.size), other).size = inst.size
           /\ Disassemble(SubSeq(code, at + 1, at + inst.size), other).mnemoric = inst.mnemoric
      BY <2>8, <2>9
    <2>11. \A cut \in 1 .. inst.size - 1 :
               inst.mnemoric # "INVALID" =>
                   Disassemble(SubSeq(code, at + 1, at + cut), other).mnemoric = "INVALID"
      BY <2>8, <2>9
    <2> QED
      BY <2>6, <2>10, <2>11
  <1> QED
    BY DisassemblerInvariant, <1>1, PTL
-----------------------------------------------------------------------------
(***************************************************************************)
(* Against the reference.  Bytes as an assembler puts them together, and   *)
(* the operands that the decoder makes of them.                            *)
(***************************************************************************)
\* t stands in b behind the first k bytes.
Stands(t, b, k) == k + Len(t) <= Len(b) /\ \A j \in 1 .. Len(t) : ReadU8(b, k + j) = t[j]

\* The same operand, or for an immediate byte the word that op_n makes of it; it is
\* the last operand.
Matches(word, got, wanted) == IF word THEN ByteAsWord(got, wanted) ELSE got = wanted
Alike(word, ops, wanted) ==
    /\ Len(ops) = Len(wanted)
    /\ \A j \in 1 .. Len(wanted) : Matches(word /\ j = Len(wanted), ops[j], wanted[j])
Meets(word, inst, i) ==
    /\ inst.mnemoric = i.mnemoric /\ inst.size = Len(i.bytes)
    /\ Alike(word, inst.operands, i.operands)

\* The form reads the bytes t and makes the operand of them.
MakesAs(word, form, t, op) ==
    \A b \in Seq(Byte), junk \in Byte : \A acc :
        acc.reads \in Nat /\ Stands(t, b, acc.reads) =>
            \E got : /\ Matches(word, got, op)
                     /\ Fetch(acc, form, b, junk) =
                            [reads |-> acc.reads + Len(t), operands |-> Append(acc.operands, got)]
Makes(form, t, op) == MakesAs(FALSE, form, t, op)

\* The forms read the bytes t and make the operands of them.
GivesAs(word, forms, t, ops) ==
    \A b \in Seq(Byte), junk \in Byte, at \in Nat :
        Stands(t, b, at) =>
            LET done == ReadOperands(forms, at, b, junk)
            IN done.reads = at + Len(t) /\ Alike(word, done.operands, ops)
Gives(forms, t, ops) == GivesAs(FALSE, forms, t, ops)

LEMMA StandsParts ==
    ASSUME NEW s \in Seq(Byte), NEW t \in Seq(Byte), NEW b \in Seq(Byte), NEW k \in Nat,
           Stands(s \o t, b, k)
    PROVE  Stands(s, b, k) /\ Stands(t, b, k + Len(s))
  <1> DEFINE st == s \o t
  <1>1. /\ Len(st) = Len(s) + Len(t) /\ Len(s) \in Nat /\ Len(t) \in Nat /\ Len(b) \in Nat
        /\ \A i \in 1 .. Len(s) + Len(t) :
               st[i] = IF i <= Len(s) THEN s[i] ELSE t[i - Len(s)]
    BY ConcatProperties
  <1> HIDE DEF st
  <1>2. k + Len(st) <= Len(b) /\ \A j \in 1 .. Len(st) : ReadU8(b, k + j) = st[j]
    BY DEF Stands, st
  <1>3. ASSUME NEW j \in 1 .. Len(s)
        PROVE  ReadU8(b, k + j) = s[j]
    <2>1. j \in 1 .. Len(st) /\ j \in 1 .. Len(s) + Len(t) /\ j <= Len(s)
      BY <1>1
    <2> QED
      BY <1>1, <1>2, <2>1
  <1>4. ASSUME NEW j \in 1 .. Len(t)
        PROVE  ReadU8(b, k + Len(s) + j) = t[j]
    <2> DEFINE i == Len(s) + j
    <2>1. /\ i \in 1 .. Len(st) /\ i \in 1 .. Len(s) + Len(t) /\ ~(i <= Len(s))
          /\ i - Len(s) = j /\ k + i = k + Len(s) + j
      BY <1>1
    <2> HIDE DEF i
    <2> QED
      BY <1>1, <1>2, <2>1
  <1> QED
    BY <1>1, <1>2, <1>3, <1>4 DEF Stands

LEMMA StandsFirst ==
    ASSUME NEW s \in Seq(Byte), NEW b \in Seq(Byte), IsPrefix(s, b)
    PROVE  Stands(s, b, 0)
  <1>1. Len(s) \in Nat /\ Len(b) \in Nat /\ Len(s) <= Len(b)
    BY DEF IsPrefix
  <1>2. SubSeq(s, 1, Len(s)) = SubSeq(b, 1, Len(s))
    BY DEF IsPrefix
  <1>3. \A j \in 1 .. Len(s) : SubSeq(s, 1, Len(s))[j] = s[j]
    BY <1>1
  <1>4. \A j \in 1 .. Len(s) : SubSeq(b, 1, Len(s))[j] = b[j]
    BY <1>1
  <1>5. \A j \in 1 .. Len(s) : ReadU8(b, 0 + j) = b[j]
    BY <1>1 DEF ReadU8
  <1> QED
    BY <1>1, <1>2, <1>3, <1>4, <1>5 DEF Stands

\* One byte, two and four.
LEMMA StandsOne ==
    ASSUME NEW p, NEW b, NEW k \in Nat, Stands(<<p>>, b, k)
    PROVE  k + 1 <= Len(b) /\ ReadU8(b, k + 1) = p
  BY DEF Stands

LEMMA StandsTwo ==
    ASSUME NEW p, NEW q, NEW b, NEW k \in Nat, Stands(<<p, q>>, b, k)
    PROVE  k + 2 <= Len(b) /\ ReadU8(b, k + 1) = p /\ ReadU8(b, k + 2) = q
  <1> DEFINE t == <<p, q>>
  <1>1. Len(t) = 2 /\ t[1] = p /\ t[2] = q
    OBVIOUS
  <1> HIDE DEF t
  <1> QED
    BY <1>1 DEF Stands, t

LEMMA BytesSeq ==
    /\ <<>> \in Seq(Byte) /\ Len(<<>>) = 0
    /\ \A p \in Byte : <<p>> \in Seq(Byte) /\ Len(<<p>>) = 1
    /\ \A p \in Byte, q \in Byte : <<p, q>> \in Seq(Byte) /\ Len(<<p, q>>) = 2
  <1> DEFINE S == Byte
  <1>1. \A p \in S, q \in S : <<p>> \in Seq(S) /\ Len(<<p>>) = 1
                              /\ <<p, q>> \in Seq(S) /\ Len(<<p, q>>) = 2
    <2> HIDE DEF S
    <2> QED
      OBVIOUS
  <1> QED
    BY <1>1, EmptySeq

\* What the forms take.
LEMMA MakesGiven ==
    ASSUME NEW f, Given(f)
    PROVE  Makes(f, <<>>, f)
  <1> SUFFICES ASSUME NEW b \in Seq(Byte), NEW junk \in Byte, NEW acc, acc.reads \in Nat
               PROVE  \E got : /\ Matches(FALSE, got, f)
                               /\ Fetch(acc, f, b, junk) =
                                      [reads |-> acc.reads + Len(<<>>),
                                       operands |-> Append(acc.operands, got)]
    BY DEF Makes, MakesAs
  <1>1. Fetch(acc, f, b, junk) =
            [reads |-> acc.reads + 0, operands |-> Append(acc.operands, f)]
    BY DEF Fetch, Given
  <1>2. Matches(FALSE, f, f) /\ Len(<<>>) = 0
    BY DEF Matches
  <1> QED
    BY <1>1, <1>2

\* Each form is told apart by what it fetches.
LEMMA FormsApart ==
    /\ "fetch" \in DOMAIN N /\ "fetch" \in DOMAIN NDeref /\ "fetch" \in DOMAIN D
    /\ "fetch" \in DOMAIN NN /\ "fetch" \in DOMAIN NNDeref
    /\ NDeref # N /\ D # N /\ D # NDeref /\ NN # N /\ NN # NDeref /\ NN # D
    /\ NNDeref # N /\ NNDeref # NDeref /\ NNDeref # D /\ NNDeref # NN
    /\ \A idx \in {"IX", "IY"} :
           /\ "fetch" \in DOMAIN Disp(idx) /\ Disp(idx).fetch = idx
           /\ Disp(idx) # N /\ Disp(idx) # NDeref /\ Disp(idx) # D /\ Disp(idx) # NN
           /\ Disp(idx) # NNDeref
  BY DEF N, NDeref, D, NN, NNDeref, Disp

\* A form that makes the operand itself.
LEMMA MakesExactly ==
    ASSUME NEW f, NEW t, NEW op,
           ASSUME NEW b \in Seq(Byte), NEW junk \in Byte, NEW acc, acc.reads \in Nat,
                  Stands(t, b, acc.reads)
           PROVE  Fetch(acc, f, b, junk) =
                      [reads |-> acc.reads + Len(t), operands |-> Append(acc.operands, op)]
    PROVE  Makes(f, t, op)
  <1>1. ASSUME NEW word \in BOOLEAN, word = FALSE
        PROVE  MakesAs(word, f, t, op)
    <2>1. Matches(word, op, op)
      BY <1>1 DEF Matches
    <2> QED
      BY <2>1 DEF MakesAs
  <1> QED
    BY <1>1, Zenon DEF Makes

LEMMA MakesOneByte ==
    ASSUME NEW n \in Byte
    PROVE  /\ MakesAs(TRUE, N, <<n>>, Imm8(n)) /\ Makes(NDeref, <<n>>, Imm8Deref(n))
           /\ Makes(D, <<n>>, JmpRel(2 + Signed(n)))
           /\ \A idx \in {"IX", "IY"} : Makes(Disp(idx), <<n>>, IndexRel(idx, Signed(n)))
  <1> DEFINE t == <<n>>
  <1>1. Len(t) = 1
    OBVIOUS
  <1>2. ASSUME NEW b \in Seq(Byte), NEW k \in Nat, Stands(t, b, k)
        PROVE  ReadU8(b, k + 1) = n
    BY <1>2, StandsOne
  <1> HIDE DEF t
  <1>3. ASSUME NEW junk \in Byte
        PROVE  Matches(TRUE, Imm16(256 * junk + n), Imm8(n))
    <2>1. (256 * junk + n) % 256 = n
      BY DEF Byte
    <2> QED
      BY <2>1 DEF Matches, ByteAsWord, Imm16, Imm8
  <1>5. MakesAs(TRUE, N, t, Imm8(n))
    <2> SUFFICES ASSUME NEW b \in Seq(Byte), NEW junk \in Byte, NEW acc, acc.reads \in Nat,
                        Stands(t, b, acc.reads)
                 PROVE  \E got : /\ Matches(TRUE, got, Imm8(n))
                                 /\ Fetch(acc, N, b, junk) =
                                        [reads |-> acc.reads + Len(t),
                                         operands |-> Append(acc.operands, got)]
      BY Zenon DEF MakesAs
    <2>1. Fetch(acc, N, b, junk) =
              [reads |-> acc.reads + 1, operands |-> Append(acc.operands, Imm16(256 * junk + n))]
      BY <1>2, FormsApart DEF Fetch
    <2> QED
      BY <1>1, <1>3, <2>1
  <1>6. Makes(NDeref, t, Imm8Deref(n))
    <2>1. ASSUME NEW b \in Seq(Byte), NEW junk \in Byte, NEW acc, acc.reads \in Nat,
                 Stands(t, b, acc.reads)
          PROVE  Fetch(acc, NDeref, b, junk) =
                     [reads |-> acc.reads + Len(t), operands |-> Append(acc.operands, Imm8Deref(n))]
      BY <1>1, <1>2, <2>1, FormsApart DEF Fetch
    <2> QED
      BY <2>1, MakesExactly
  <1>7. Makes(D, t, JmpRel(2 + Signed(n)))
    <2>1. ASSUME NEW b \in Seq(Byte), NEW junk \in Byte, NEW acc, acc.reads \in Nat,
                 Stands(t, b, acc.reads)
          PROVE  Fetch(acc, D, b, junk) =
                     [reads |-> acc.reads + Len(t),
                      operands |-> Append(acc.operands, JmpRel(2 + Signed(n)))]
      BY <1>1, <1>2, <2>1, FormsApart DEF Fetch
    <2> QED
      BY <2>1, MakesExactly
  <1>8. ASSUME NEW idx \in {"IX", "IY"}
        PROVE  Makes(Disp(idx), t, IndexRel(idx, Signed(n)))
    <2>1. ASSUME NEW b \in Seq(Byte), NEW junk \in Byte, NEW acc, acc.reads \in Nat,
                 Stands(t, b, acc.reads)
          PROVE  Fetch(acc, Disp(idx), b, junk) =
                     [reads |-> acc.reads + Len(t),
                      operands |-> Append(acc.operands, IndexRel(idx, Signed(n)))]
      BY <1>1, <1>2, <2>1, FormsApart DEF Fetch
    <2> QED
      BY <2>1, MakesExactly
  <1> QED
    BY <1>5, <1>6, <1>7, <1>8 DEF t

LEMMA MakesTwoBytes ==
    ASSUME NEW lo \in Byte, NEW hi \in Byte
    PROVE  /\ Makes(NN, <<lo, hi>>, Imm16(256 * hi + lo))
           /\ Makes(NNDeref, <<lo, hi>>, Imm16Deref(256 * hi + lo))
  <1> DEFINE t == <<lo, hi>>
  <1>1. Len(t) = 2
    OBVIOUS
  <1>2. ASSUME NEW b \in Seq(Byte), NEW k \in Nat, Stands(t, b, k)
        PROVE  ReadU8(b, k + 1) = lo /\ ReadU8(b, k + 2) = hi
    BY <1>2, StandsTwo
  <1> HIDE DEF t
  <1>3. Makes(NN, t, Imm16(256 * hi + lo))
    <2>1. ASSUME NEW b \in Seq(Byte), NEW junk \in Byte, NEW acc, acc.reads \in Nat,
                 Stands(t, b, acc.reads)
          PROVE  Fetch(acc, NN, b, junk) =
                     [reads |-> acc.reads + Len(t),
                      operands |-> Append(acc.operands, Imm16(256 * hi + lo))]
      BY <1>1, <1>2, <2>1, FormsApart DEF Fetch
    <2> QED
      BY <2>1, MakesExactly
  <1>4. Makes(NNDeref, t, Imm16Deref(256 * hi + lo))
    <2>1. ASSUME NEW b \in Seq(Byte), NEW junk \in Byte, NEW acc, acc.reads \in Nat,
                 Stands(t, b, acc.reads)
          PROVE  Fetch(acc, NNDeref, b, junk) =
                     [reads |-> acc.reads + Len(t),
                      operands |-> Append(acc.operands, Imm16Deref(256 * hi + lo))]
      BY <1>1, <1>2, <2>1, FormsApart DEF Fetch
    <2> QED
      BY <2>1, MakesExactly
  <1> QED
    BY <1>3, <1>4 DEF t

LEMMA AlikeNone == Alike(FALSE, <<>>, <<>>)
  <1>1. Len(<<>>) = 0 /\ 1 .. 0 = {}
    OBVIOUS
  <1> QED
    BY <1>1 DEF Alike

LEMMA AlikeOne ==
    ASSUME NEW word \in BOOLEAN, NEW g, NEW op, Matches(word, g, op)
    PROVE  Alike(word, Append(<<>>, g), <<op>>)
  <1> DEFINE s == Append(<<>>, g)
             t == <<op>>
  <1>1. Len(s) = 1 /\ s[1] = g /\ Len(t) = 1 /\ t[1] = op
    OBVIOUS
  <1> HIDE DEF s, t
  <1>2. \A j \in 1 .. 1 : Matches(word /\ j = 1, s[j], t[j])
    BY <1>1 DEF Matches
  <1> QED
    BY <1>1, <1>2 DEF Alike, s, t

LEMMA AlikeTwo ==
    ASSUME NEW word \in BOOLEAN, NEW g, NEW h, NEW op, NEW oq,
           Matches(FALSE, g, op), Matches(word, h, oq)
    PROVE  Alike(word, Append(Append(<<>>, g), h), <<op, oq>>)
  <1> DEFINE s == Append(Append(<<>>, g), h)
             t == <<op, oq>>
  <1>1. Len(s) = 2 /\ s[1] = g /\ s[2] = h
    OBVIOUS
  <1>2. Len(t) = 2 /\ t[1] = op /\ t[2] = oq
    OBVIOUS
  <1> HIDE DEF s, t
  <1>3. \A j \in 1 .. 2 : Matches(word /\ j = 2, s[j], t[j])
    BY <1>1, <1>2 DEF Matches
  <1> QED
    BY <1>1, <1>2, <1>3 DEF Alike, s, t

LEMMA Made ==
    ASSUME NEW word \in BOOLEAN, NEW f, NEW t, NEW op, MakesAs(word, f, t, op), NEW b \in Seq(Byte), NEW junk \in Byte,
           NEW acc, acc.reads \in Nat, Stands(t, b, acc.reads)
    PROVE  \E got : /\ Matches(word, got, op)
                    /\ Fetch(acc, f, b, junk) =
                           [reads |-> acc.reads + Len(t), operands |-> Append(acc.operands, got)]
  BY DEF MakesAs

LEMMA GivesNone == Gives(<<>>, <<>>, <<>>)
  <1> SUFFICES ASSUME NEW b \in Seq(Byte), NEW junk \in Byte, NEW at \in Nat
               PROVE  LET done == ReadOperands(<<>>, at, b, junk)
                      IN done.reads = at + Len(<<>>) /\ Alike(FALSE, done.operands, <<>>)
    BY DEF Gives, GivesAs
  <1> DEFINE s == <<>>
  <1>1. Len(s) = 0
    OBVIOUS
  <1>2. Len(s) \in 0 .. 3
    BY <1>1
  <1> DEFINE a0 == [reads |-> at, operands |-> <<>>]
  <1> HIDE DEF s, a0
  <1>3. ReadOperands(s, at, b, junk) = a0
    BY <1>1, <1>2, OperandRounds DEF a0
  <1>4. a0.reads = at /\ a0.operands = <<>>
    BY DEF a0
  <1>5. LET done == ReadOperands(s, at, b, junk)
        IN done.reads = at + Len(s) /\ done.operands = <<>>
    BY <1>1, <1>3, <1>4
  <1> QED
    BY <1>5, AlikeNone, Zenon DEF s

LEMMA GivesOneAs ==
    ASSUME NEW word \in BOOLEAN, NEW f, NEW t \in Seq(Byte), NEW op, MakesAs(word, f, t, op)
    PROVE  GivesAs(word, <<f>>, t, <<op>>)
  <1> SUFFICES ASSUME NEW b \in Seq(Byte), NEW junk \in Byte, NEW at \in Nat, Stands(t, b, at)
               PROVE  LET done == ReadOperands(<<f>>, at, b, junk)
                      IN done.reads = at + Len(t) /\ Alike(word, done.operands, <<op>>)
    BY DEF GivesAs
  <1> DEFINE s == <<f>>
             a0 == [reads |-> at, operands |-> <<>>]
  <1>1. Len(s) = 1 /\ s[1] = f
    OBVIOUS
  <1>2. a0.reads = at /\ a0.operands = <<>>
    OBVIOUS
  <1> HIDE DEF s
  <1>3. ReadOperands(s, at, b, junk) = Fetch(a0, f, b, junk)
    BY <1>1, OperandRounds
  <1> HIDE DEF a0
  <1>4. PICK got : /\ Matches(word, got, op)
                   /\ Fetch(a0, f, b, junk) = [reads |-> a0.reads + Len(t),
                                               operands |-> Append(a0.operands, got)]
    BY <1>2 DEF MakesAs
  <1>5. Alike(word, Append(<<>>, got), <<op>>)
    BY <1>4, AlikeOne
  <1> QED
    BY <1>2, <1>3, <1>4, <1>5 DEF s

LEMMA GivesTwoAs ==
    ASSUME NEW word \in BOOLEAN, NEW f, NEW g, NEW t \in Seq(Byte), NEW u \in Seq(Byte), NEW op, NEW oq,
           Makes(f, t, op), MakesAs(word, g, u, oq)
    PROVE  GivesAs(word, <<f, g>>, t \o u, <<op, oq>>)
  <1> SUFFICES ASSUME NEW b \in Seq(Byte), NEW junk \in Byte, NEW at \in Nat,
                      Stands(t \o u, b, at)
               PROVE  LET done == ReadOperands(<<f, g>>, at, b, junk)
                      IN done.reads = at + Len(t \o u) /\ Alike(word, done.operands, <<op, oq>>)
    BY DEF GivesAs
  <1> DEFINE s == <<f, g>>
             a0 == [reads |-> at, operands |-> <<>>]
             a1 == Fetch(a0, f, b, junk)
  <1>1. Len(s) = 2 /\ s[1] = f /\ s[2] = g
    OBVIOUS
  <1>2. a0.reads = at /\ a0.operands = <<>>
    OBVIOUS
  <1> HIDE DEF s
  <1>3. ReadOperands(s, at, b, junk) = Fetch(a1, g, b, junk)
    BY <1>1, OperandRounds
  <1> HIDE DEF a0
  <1>4. Stands(t, b, at) /\ Stands(u, b, at + Len(t))
    BY StandsParts
  <1>5. Len(t) \in Nat /\ Len(u) \in Nat /\ Len(t \o u) = Len(t) + Len(u)
    BY ConcatProperties
  <1>6. PICK got : /\ Matches(FALSE, got, op)
                   /\ a1 = [reads |-> a0.reads + Len(t), operands |-> Append(a0.operands, got)]
    <2>1. a0.reads \in Nat /\ Stands(t, b, a0.reads)
      BY <1>2, <1>4
    <2>2. MakesAs(FALSE, f, t, op)
      BY Zenon DEF Makes
    <2>3. ASSUME NEW k \in BOOLEAN, k = FALSE
          PROVE  \E got : /\ Matches(k, got, op)
                          /\ Fetch(a0, f, b, junk) = [reads |-> a0.reads + Len(t),
                                                      operands |-> Append(a0.operands, got)]
      <3>1. MakesAs(k, f, t, op)
        BY <2>2, <2>3, Zenon
      <3> QED
        BY <2>1, <3>1, Made
    <2> QED
      BY <2>3, Zenon
  <1>7. a1.reads = at + Len(t) /\ a1.operands = Append(<<>>, got) /\ at + Len(t) \in Nat
    BY <1>2, <1>5, <1>6
  <1> HIDE DEF a1
  <1>8. PICK h : /\ Matches(word, h, oq)
                 /\ Fetch(a1, g, b, junk) = [reads |-> a1.reads + Len(u),
                                             operands |-> Append(a1.operands, h)]
    <2>1. a1.reads \in Nat /\ Stands(u, b, a1.reads)
      BY <1>4, <1>7
    <2> QED
      BY <2>1, Made
  <1>9. Alike(word, Append(Append(<<>>, got), h), <<op, oq>>)
    BY <1>6, <1>8, AlikeTwo
  <1>10. LET done == ReadOperands(s, at, b, junk)
         IN done.reads = at + Len(t) + Len(u) /\ Alike(word, done.operands, <<op, oq>>)
    BY <1>3, <1>7, <1>8, <1>9
  <1>11. at + Len(t) + Len(u) = at + Len(t \o u)
    BY <1>5
  <1> QED
    BY <1>10, <1>11 DEF s

LEMMA GivesOne ==
    ASSUME NEW f, NEW t \in Seq(Byte), NEW op, Makes(f, t, op)
    PROVE  Gives(<<f>>, t, <<op>>)
  BY GivesOneAs DEF Makes, Gives

LEMMA GivesTwo ==
    ASSUME NEW f, NEW g, NEW t \in Seq(Byte), NEW u \in Seq(Byte), NEW op, NEW oq,
           Makes(f, t, op), Makes(g, u, oq)
    PROVE  Gives(<<f, g>>, t \o u, <<op, oq>>)
  BY GivesTwoAs DEF Makes, Gives

\* The same, with the operands that take no byte.
LEMMA GivesGiven ==
    ASSUME NEW f, Given(f)
    PROVE  Gives(<<f>>, <<>>, <<f>>)
  BY MakesGiven, GivesOne, EmptySeq

LEMMA GivesGivenBefore ==
    ASSUME NEW word \in BOOLEAN, NEW f, Given(f), NEW g, NEW t \in Seq(Byte), NEW op,
           MakesAs(word, g, t, op)
    PROVE  GivesAs(word, <<f, g>>, t, <<f, op>>)
  <1>1. <<>> \in Seq(Byte) /\ <<>> \o t = t
    BY EmptySeq, ConcatEmptySeq
  <1>2. Makes(f, <<>>, f)
    BY MakesGiven
  <1>3. GivesAs(word, <<f, g>>, <<>> \o t, <<f, op>>)
    BY <1>1, <1>2, GivesTwoAs, Zenon
  <1> QED
    BY <1>1, <1>3, Zenon

LEMMA GivesGivenFirst ==
    ASSUME NEW f, Given(f), NEW g, NEW t \in Seq(Byte), NEW op, Makes(g, t, op)
    PROVE  Gives(<<f, g>>, t, <<f, op>>) /\ Gives(<<g, f>>, t, <<op, f>>)
  <1>1. <<>> \in Seq(Byte) /\ <<>> \o t = t /\ t \o <<>> = t
    BY EmptySeq, ConcatEmptySeq
  <1>2. Makes(f, <<>>, f)
    BY MakesGiven
  <1>3. Gives(<<f, g>>, <<>> \o t, <<f, op>>) /\ Gives(<<g, f>>, t \o <<>>, <<op, f>>)
    BY <1>1, <1>2, GivesTwo, Zenon
  <1> QED
    BY <1>1, <1>3, Zenon

LEMMA GivesGivenTwo ==
    ASSUME NEW f, Given(f), NEW g, Given(g)
    PROVE  Gives(<<f, g>>, <<>>, <<f, g>>)
  BY MakesGiven, GivesGivenFirst, EmptySeq

-----------------------------------------------------------------------------
(***************************************************************************)
(* The opcodes: where one stands, and what it decodes to.                  *)
(***************************************************************************)
\* What is listed of an instruction that is whole.
LEMMA MetBy ==
    ASSUME NEW word \in BOOLEAN, NEW b \in Seq(Byte), NEW junk \in Byte, NEW m, NEW forms, NEW at \in Nat,
           NEW t \in Seq(Byte), NEW ops, NEW bytes,
           InstAt(b) = Inst(m, forms), OpcodeAt(b) = at, GivesAs(word, forms, t, ops),
           Stands(t, b, at), Len(bytes) = at + Len(t)
    PROVE  Meets(word, Disassemble(b, junk), Asm(m, ops, bytes))
  <1> DEFINE done == ReadOperands(InstAt(b).operands, OpcodeAt(b), b, junk)
             read == ReadInst(b, junk)
  <1>1. OpcodeAt(b) = CASE InstIndex(b) # "none" /\ InstBit(b) -> 4
                        [] InstIndex(b) = "none" /\ ~InstExtended(b) /\ ~InstBit(b) -> 1
                        [] OTHER -> 2
    BY DEF OpcodeAt
  <1>2. read = [mnemoric |-> InstAt(b).mnemoric, operands |-> done.operands,
                size |-> SizeAfter(b, done.reads), cut |-> OutOfBounds(b, done.reads)]
    BY <1>1, Zenon DEF ReadInst, InstAt, InstIndex, InstBit, InstExtended
  <1>3. InstAt(b).mnemoric = m /\ InstAt(b).operands = forms
    BY DEF Inst
  <1>4. done.reads = at + Len(t) /\ Alike(word, done.operands, ops) /\ at + Len(t) <= Len(b)
    BY <1>3 DEF GivesAs, Stands
  <1> HIDE DEF done
  <1>5. Len(b) \in Nat /\ Len(t) \in Nat
    OBVIOUS
  <1>6. /\ read.mnemoric = m /\ read.operands = done.operands
        /\ read.size = SizeAfter(b, done.reads) /\ read.cut = OutOfBounds(b, done.reads)
    BY <1>2, <1>3
  <1>7. ~OutOfBounds(b, done.reads) /\ SizeAfter(b, done.reads) = at + Len(t)
    BY <1>4, <1>5 DEF OutOfBounds, SizeAfter
  <1> HIDE DEF read
  <1>8. /\ Disassemble(b, junk).mnemoric = m /\ Disassemble(b, junk).operands = done.operands
        /\ Disassemble(b, junk).size = at + Len(t)
    BY <1>6, <1>7 DEF Disassemble, read
  <1> QED
    BY <1>4, <1>8 DEF Meets, Asm

ListedAs(word, i) ==
    \A b \in Seq(Byte), junk \in Byte :
        IsPrefix(i.bytes, b) => Meets(word, Disassemble(b, junk), i)
Listed(i) == ListedAs(FALSE, i)

\* Listed as what it is, or a slip.
ShownAs(word, i) ==
    \/ i \in Block \cup SingleSlips
    \/ i.bytes[1] = \hFD /\ Len(i.bytes) > 1 /\ i.bytes \in Seq(Byte)
    \/ i.bytes[1] # \hFD /\ ListedAs(word, i)
Shown(i) == ShownAs(FALSE, i)

Fields(x, y, z) == 64 * x + 8 * y + z

LEMMA FieldsRead ==
    ASSUME NEW x \in 0 .. 3, NEW y \in 0 .. 7, NEW z \in 0 .. 7
    PROVE  /\ Fields(x, y, z) \in Byte
           /\ Fields(x, y, z) \div 64 = x
           /\ (Fields(x, y, z) \div 8) % 8 = y
           /\ Fields(x, y, z) % 8 = z
  <1> DEFINE p == Fields(x, y, z)
             h == 8 * x + y
  <1>1. p \in Nat /\ 0 <= p /\ p <= 255 /\ h \in Nat
    BY DEF Fields
  <1>2. p = 8 * h + z /\ h = 8 * x + y /\ p = 64 * x + (8 * y + z)
    BY DEF Fields
  <1>3. 8 * y + z \in 0 .. 63
    OBVIOUS
  <1> HIDE DEF p, h
  <1>4. p \div 8 = h /\ p % 8 = z
    BY <1>1, <1>2
  <1>5. h % 8 = y
    BY <1>1, <1>2
  <1>6. p \div 64 = x
    BY <1>1, <1>2, <1>3
  <1> QED
    BY <1>1, <1>4, <1>5, <1>6 DEF p, Byte

\* An opcode is decoded as its fields say.
LEMMA InstIs ==
    ASSUME NEW b, NEW x \in 0 .. 3, NEW y \in 0 .. 7, NEW z \in 0 .. 7,
           ReadU8(b, OpcodeAt(b)) = Fields(x, y, z)
    PROVE  InstAt(b) = IF InstExtended(b) THEN Extended(x, y, z)
                       ELSE IF InstBit(b)
                            THEN Bit(x, y, z, InstIndex(b), Signed(ReadU8(b, 3)))
                            ELSE Regular(x, y, z, InstIndex(b))
  <1> DEFINE p == Fields(x, y, z)
  <1>1. p \div 64 = x /\ (p \div 8) % 8 = y /\ p % 8 = z
    BY FieldsRead
  <1> HIDE DEF p
  <1>2. ReadU8(b, OpcodeAt(b)) = p
    BY DEF p
  <1> QED
    BY <1>1, <1>2 DEF InstAt, Decode

\* Every instruction that begins with the bytes of head, which lead to the opcode.
LEMMA ListedBy ==
    ASSUME NEW word \in BOOLEAN, NEW head \in Seq(Byte), NEW t \in Seq(Byte), NEW m, NEW forms, NEW ops,
           GivesAs(word, forms, t, ops),
           \A b \in Seq(Byte) : Stands(head, b, 0) =>
               InstAt(b) = Inst(m, forms) /\ OpcodeAt(b) = Len(head)
    PROVE  ListedAs(word, Asm(m, ops, head \o t))
  <1> DEFINE bytes == head \o t
  <1> HIDE DEF bytes
  <1>1. bytes \in Seq(Byte) /\ Len(bytes) = Len(head) + Len(t) /\ Len(head) \in Nat
    BY ConcatProperties DEF bytes
  <1>2. ASSUME NEW b \in Seq(Byte), NEW junk \in Byte, IsPrefix(bytes, b)
        PROVE  Meets(word, Disassemble(b, junk), Asm(m, ops, bytes))
    <2>1. Stands(bytes, b, 0)
      BY <1>1, <1>2, StandsFirst
    <2>2. Stands(head, b, 0) /\ Stands(t, b, 0 + Len(head))
      BY <2>1, StandsParts DEF bytes
    <2>3. InstAt(b) = Inst(m, forms) /\ OpcodeAt(b) = Len(head) /\ Stands(t, b, Len(head))
      BY <1>1, <2>2
    <2> QED
      BY <1>1, <2>3, MetBy
  <1>3. Asm(m, ops, bytes).bytes = bytes
    BY DEF Asm
  <1>4. ListedAs(word, Asm(m, ops, bytes))
    BY <1>2, <1>3 DEF ListedAs
  <1> QED
    BY <1>4 DEF bytes

LEMMA ShownSlip ==
    ASSUME NEW i \in Block \cup SingleSlips
    PROVE  Shown(i)
  BY DEF Shown, ShownAs

LEMMA FirstOfJoined ==
    ASSUME NEW s \in Seq(Byte), NEW t \in Seq(Byte), Len(s) >= 1
    PROVE  (s \o t)[1] = s[1]
  <1>1. 1 \in 1 .. Len(s) + Len(t) /\ 1 <= Len(s)
    OBVIOUS
  <1> QED
    BY <1>1, ConcatProperties

\* Of bytes that do not begin with the prefix of iy, and of bytes that do.
LEMMA ShownFrom ==
    ASSUME NEW word \in BOOLEAN, NEW head \in Seq(Byte), NEW t \in Seq(Byte), NEW m,
           NEW forms, NEW ops, GivesAs(word, forms, t, ops), Len(head) >= 1, head[1] # \hFD,
           \A b \in Seq(Byte) : Stands(head, b, 0) =>
               InstAt(b) = Inst(m, forms) /\ OpcodeAt(b) = Len(head)
    PROVE  ShownAs(word, Asm(m, ops, head \o t)) /\ ListedAs(word, Asm(m, ops, head \o t))
  <1>1. ListedAs(word, Asm(m, ops, head \o t))
    BY ListedBy
  <1>2. (head \o t)[1] # \hFD
    BY FirstOfJoined
  <1>3. Asm(m, ops, head \o t).bytes = head \o t
    BY DEF Asm
  <1>4. Asm(m, ops, head \o t).bytes[1] # \hFD
    BY <1>2, <1>3, Zenon
  <1> QED
    BY <1>1, <1>4, Zenon DEF ShownAs

LEMMA ShownSlipFirst ==
    ASSUME NEW word \in BOOLEAN, NEW s \in Seq(Byte), NEW t \in Seq(Byte), Len(s) >= 1,
           s[1] = \hFD, Len(s) + Len(t) > 1, NEW m, NEW ops
    PROVE  ShownAs(word, Asm(m, ops, s \o t))
  <1> DEFINE bytes == s \o t
  <1>1. bytes[1] = \hFD
    BY FirstOfJoined
  <1>2. Len(bytes) = Len(s) + Len(t) /\ bytes \in Seq(Byte)
    BY ConcatProperties
  <1> HIDE DEF bytes
  <1>3. Asm(m, ops, bytes).bytes = bytes
    BY DEF Asm
  <1>4. Len(bytes) > 1
    BY <1>2
  <1>5. ShownAs(word, Asm(m, ops, bytes))
    BY <1>1, <1>2, <1>3, <1>4, Zenon DEF ShownAs
  <1> QED
    BY <1>5 DEF bytes

LEMMA ShownSlipBytes ==
    ASSUME NEW s \in Seq(Byte), NEW t \in Seq(Byte), Len(s) >= 1,
           s[1] = \hFD, Len(s) + Len(t) > 1, NEW m, NEW ops
    PROVE  Shown(Asm(m, ops, s \o t))
  <1>1. ASSUME NEW word \in BOOLEAN
        PROVE  ShownAs(word, Asm(m, ops, s \o t))
    BY ShownSlipFirst
  <1> QED
    BY <1>1, Zenon DEF Shown

LEMMA PrefixBytes == \hCB \in Byte /\ \hDD \in Byte /\ \hED \in Byte /\ \hFD \in Byte
  BY DEF Byte

\* The bytes of the prefix for a choice of registers.
Pre(idx) == IF idx = "none" THEN <<>> ELSE Prefix[idx]

LEMMA JoinedOne ==
    ASSUME NEW p \in Byte
    PROVE  /\ Pre("none") \o <<p>> = <<p>>
           /\ \A q : <<q>> \o <<p>> = <<q, p>>
  <1>1. Pre("none") \o <<p>> = <<p>>
    BY BehindOne DEF Pre
  <1> QED
    BY <1>1, BehindOne, Zenon

\* An opcode that is no prefix, nor taken for one.
Ordinary(p) == p \notin {\hCB, \hDD, \hED, \hDF, \hFD}

\* What an opcode decodes to: by itself or behind an index prefix, behind 0xED,
\* behind 0xCB, and behind 0xCB and the prefix of ix.
Code(p, idx, m, forms) ==
    \E x \in 0 .. 3, y \in 0 .. 7, z \in 0 .. 7 :
        p = Fields(x, y, z) /\ Ordinary(p) /\ Regular(x, y, z, idx) = Inst(m, forms)
CodeExtended(p, m, forms) ==
    \E x \in 0 .. 3, y \in 0 .. 7, z \in 0 .. 7 :
        p = Fields(x, y, z) /\ Extended(x, y, z) = Inst(m, forms)
CodeBit(p, m, forms) ==
    \E x \in 0 .. 3, y \in 0 .. 7, z \in 0 .. 7 :
        p = Fields(x, y, z) /\ \A d : Bit(x, y, z, "none", d) = Inst(m, forms)
CodeIndexedBit(p, d, m, forms) ==
    \E x \in 0 .. 3, y \in 0 .. 7, z \in 0 .. 7 :
        p = Fields(x, y, z) /\ Bit(x, y, z, "IX", Signed(d)) = Inst(m, forms)

\* Opcodes without a prefix.
LEMMA ShownPlainAs ==
    ASSUME NEW word \in BOOLEAN, NEW p, NEW m, NEW forms, Code(p, "none", m, forms),
           NEW t \in Seq(Byte), NEW ops, GivesAs(word, forms, t, ops)
    PROVE  ShownAs(word, Asm(m, ops, <<p>> \o t)) /\ ListedAs(word, Asm(m, ops, <<p>> \o t))
  <1>0. PICK x \in 0 .. 3, y \in 0 .. 7, z \in 0 .. 7 :
            /\ p = Fields(x, y, z) /\ Ordinary(p)
            /\ Regular(x, y, z, "none") = Inst(m, forms)
    BY DEF Code
  <1>1. p \in Byte
    BY <1>0, FieldsRead
  <1> DEFINE head == <<p>>
  <1>2. head \in Seq(Byte) /\ Len(head) = 1
    BY <1>1, BytesSeq
  <1>3. head[1] = p
    OBVIOUS
  <1>4. ASSUME NEW b \in Seq(Byte), Stands(head, b, 0)
        PROVE  InstAt(b) = Inst(m, forms) /\ OpcodeAt(b) = Len(head)
    <2>1. ReadU8(b, 0 + 1) = p
      BY <1>4, StandsOne
    <2>2. ReadU8(b, 1) = p
      BY <2>1
    <2>3. InstIndex(b) = "none"
      BY <1>0, <2>2 DEF InstIndex, Index, Ordinary
    <2>4. ~InstBit(b) /\ ~InstExtended(b)
      BY <1>0, <2>2, <2>3 DEF InstBit, InstExtended, Ordinary
    <2>5. OpcodeAt(b) = 1
      BY <2>3, <2>4 DEF OpcodeAt
    <2>6. InstAt(b) = Regular(x, y, z, InstIndex(b))
      BY <1>0, <2>2, <2>4, <2>5, InstIs
    <2> QED
      BY <1>0, <1>2, <2>3, <2>5, <2>6
  <1>5. head[1] # \hFD /\ Len(head) >= 1
    BY <1>0, <1>2, <1>3 DEF Ordinary
  <1> HIDE DEF head
  <1>6. ShownAs(word, Asm(m, ops, head \o t)) /\ ListedAs(word, Asm(m, ops, head \o t))
    BY <1>2, <1>4, <1>5, ShownFrom
  <1> QED
    BY <1>6 DEF head

LEMMA ShownPlain ==
    ASSUME NEW p, NEW m, NEW forms, Code(p, "none", m, forms),
           NEW t \in Seq(Byte), NEW ops, Gives(forms, t, ops)
    PROVE  Shown(Asm(m, ops, <<p>> \o t)) /\ Listed(Asm(m, ops, <<p>> \o t))
  BY ShownPlainAs DEF Gives, Shown, Listed

\* Those behind the prefix of ix.
LEMMA ShownIndexedAs ==
    ASSUME NEW word \in BOOLEAN, NEW p, NEW m, NEW forms, Code(p, "IX", m, forms),
           NEW t \in Seq(Byte), NEW ops, GivesAs(word, forms, t, ops)
    PROVE  /\ ShownAs(word, Asm(m, ops, <<\hDD, p>> \o t))
           /\ ListedAs(word, Asm(m, ops, <<\hDD, p>> \o t))
  <1>0. PICK x \in 0 .. 3, y \in 0 .. 7, z \in 0 .. 7 :
            /\ p = Fields(x, y, z) /\ Ordinary(p)
            /\ Regular(x, y, z, "IX") = Inst(m, forms)
    BY DEF Code
  <1>1. p \in Byte /\ \hDD \in Byte
    BY <1>0, FieldsRead, PrefixBytes
  <1> DEFINE head == <<\hDD, p>>
  <1>2. head \in Seq(Byte) /\ Len(head) = 2
    BY <1>1, BytesSeq
  <1>3. ASSUME NEW b \in Seq(Byte), Stands(head, b, 0)
        PROVE  InstAt(b) = Inst(m, forms) /\ OpcodeAt(b) = Len(head)
    <2>1. ReadU8(b, 0 + 1) = \hDD /\ ReadU8(b, 0 + 2) = p
      BY <1>3, StandsTwo
    <2>2. ReadU8(b, 1) = \hDD /\ ReadU8(b, 2) = p
      BY <2>1
    <2>3. InstIndex(b) = "IX" /\ ~InstExtended(b)
      BY <2>2 DEF InstIndex, Index, InstExtended
    <2>4. ~InstBit(b)
      BY <1>0, <2>2, <2>3 DEF InstBit, Ordinary
    <2>5. OpcodeAt(b) = 2
      BY <2>3, <2>4 DEF OpcodeAt
    <2>6. InstAt(b) = Regular(x, y, z, InstIndex(b))
      BY <1>0, <2>2, <2>3, <2>4, <2>5, InstIs
    <2> QED
      BY <1>0, <1>2, <2>3, <2>5, <2>6
  <1>4. head[1] # \hFD /\ Len(head) >= 1
    BY <1>2
  <1> HIDE DEF head
  <1>5. ShownAs(word, Asm(m, ops, head \o t)) /\ ListedAs(word, Asm(m, ops, head \o t))
    BY <1>2, <1>3, <1>4, ShownFrom
  <1> QED
    BY <1>5 DEF head

\* Any of the two, and those behind the prefix of iy, which are slips.
LEMMA ShownRegularAs ==
    ASSUME NEW word \in BOOLEAN, NEW idx \in Indices, NEW p, NEW m, NEW forms, Code(p, idx, m, forms),
           NEW t \in Seq(Byte), NEW ops, GivesAs(word, forms, t, ops)
    PROVE  ShownAs(word, Asm(m, ops, Pre(idx) \o <<p>> \o t))
  <1>1. p \in Byte /\ \hFD \in Byte
    <2>1. PICK x \in 0 .. 3, y \in 0 .. 7, z \in 0 .. 7 : p = Fields(x, y, z)
      BY Zenon DEF Code
    <2> QED
      BY <2>1, FieldsRead, PrefixBytes
  <1>2. CASE idx = "none"
    <2>1. ShownAs(word, Asm(m, ops, <<p>> \o t))
      BY <1>2, ShownPlainAs
    <2>2. Pre(idx) \o <<p>> = <<p>>
      BY <1>1, <1>2, JoinedOne
    <2> QED
      BY <2>1, <2>2
  <1>3. CASE idx = "IX"
    <2>1. ShownAs(word, Asm(m, ops, <<\hDD, p>> \o t))
      BY <1>3, ShownIndexedAs
    <2>2. Pre(idx) \o <<p>> = <<\hDD, p>>
      BY <1>1, <1>3, JoinedOne DEF Pre, Prefix
    <2> QED
      BY <2>1, <2>2
  <1>4. CASE idx = "IY"
    <2>1. Pre(idx) \o <<p>> = <<\hFD, p>>
      BY <1>1, <1>4, JoinedOne DEF Pre, Prefix
    <2>2. ShownAs(word, Asm(m, ops, <<\hFD, p>> \o t))
      <3> DEFINE head == <<\hFD, p>>
      <3>1. head \in Seq(Byte) /\ Len(head) = 2
        BY <1>1, BytesSeq
      <3>2. head[1] = \hFD
        OBVIOUS
      <3> HIDE DEF head
      <3>4. Len(head) + Len(t) > 1
        BY <3>1
      <3>3. ShownAs(word, Asm(m, ops, head \o t))
        BY <3>1, <3>2, <3>4, ShownSlipFirst
      <3> QED
        BY <3>3 DEF head
    <2> QED
      BY <2>1, <2>2
  <1> QED
    BY <1>2, <1>3, <1>4 DEF Indices

LEMMA ShownRegular ==
    ASSUME NEW idx \in Indices, NEW p, NEW m, NEW forms, Code(p, idx, m, forms),
           NEW t \in Seq(Byte), NEW ops, Gives(forms, t, ops)
    PROVE  Shown(Asm(m, ops, Pre(idx) \o <<p>> \o t))
  BY ShownRegularAs DEF Gives, Shown

\* Those behind 0xED.
LEMMA ShownExtended ==
    ASSUME NEW p, NEW m, NEW forms, CodeExtended(p, m, forms),
           NEW t \in Seq(Byte), NEW ops, Gives(forms, t, ops)
    PROVE  /\ Shown(Asm(m, ops, <<\hED, p>> \o t))
           /\ Listed(Asm(m, ops, <<\hED, p>> \o t))
  <1>0. PICK x \in 0 .. 3, y \in 0 .. 7, z \in 0 .. 7 :
            p = Fields(x, y, z) /\ Extended(x, y, z) = Inst(m, forms)
    BY DEF CodeExtended
  <1>1. p \in Byte /\ \hED \in Byte
    BY <1>0, FieldsRead, PrefixBytes
  <1> DEFINE head == <<\hED, p>>
  <1>2. head \in Seq(Byte) /\ Len(head) = 2
    BY <1>1, BytesSeq
  <1>3. ASSUME NEW b \in Seq(Byte), Stands(head, b, 0)
        PROVE  InstAt(b) = Inst(m, forms) /\ OpcodeAt(b) = Len(head)
    <2>1. ReadU8(b, 0 + 1) = \hED /\ ReadU8(b, 0 + 2) = p
      BY <1>3, StandsTwo
    <2>2. ReadU8(b, 1) = \hED /\ ReadU8(b, 2) = p
      BY <2>1
    <2>3. InstIndex(b) = "none" /\ InstExtended(b)
      BY <2>2 DEF InstIndex, Index, InstExtended
    <2>4. OpcodeAt(b) = 2
      BY <2>3 DEF OpcodeAt
    <2>5. InstAt(b) = Extended(x, y, z)
      BY <2>2, <2>3, <2>4, <1>0, InstIs
    <2> QED
      BY <1>0, <1>2, <2>4, <2>5
  <1>4. head[1] # \hFD /\ Len(head) >= 1
    BY <1>2
  <1> HIDE DEF head
  <1>5. ShownAs(FALSE, Asm(m, ops, head \o t)) /\ ListedAs(FALSE, Asm(m, ops, head \o t))
    BY <1>2, <1>3, <1>4, ShownFrom DEF Gives
  <1> QED
    BY <1>5 DEF head, Shown, Listed

\* Those behind 0xCB.
LEMMA ShownBit ==
    ASSUME NEW p, NEW m, NEW forms, CodeBit(p, m, forms),
           NEW ops, Gives(forms, <<>>, ops)
    PROVE  Shown(Asm(m, ops, <<\hCB, p>>))
  <1>0. PICK x \in 0 .. 3, y \in 0 .. 7, z \in 0 .. 7 :
            p = Fields(x, y, z) /\ \A d : Bit(x, y, z, "none", d) = Inst(m, forms)
    BY DEF CodeBit
  <1>1. p \in Byte /\ \hCB \in Byte
    BY <1>0, FieldsRead, PrefixBytes
  <1> DEFINE head == <<\hCB, p>>
  <1>2. head \in Seq(Byte) /\ Len(head) = 2
    BY <1>1, BytesSeq
  <1>3. ASSUME NEW b \in Seq(Byte), Stands(head, b, 0)
        PROVE  InstAt(b) = Inst(m, forms) /\ OpcodeAt(b) = Len(head)
    <2>1. ReadU8(b, 0 + 1) = \hCB /\ ReadU8(b, 0 + 2) = p
      BY <1>3, StandsTwo
    <2>2. ReadU8(b, 1) = \hCB /\ ReadU8(b, 2) = p
      BY <2>1
    <2>3. InstIndex(b) = "none" /\ ~InstExtended(b)
      BY <2>2 DEF InstIndex, Index, InstExtended
    <2>4. InstBit(b)
      BY <2>2, <2>3 DEF InstBit
    <2>5. OpcodeAt(b) = 2
      BY <2>3, <2>4 DEF OpcodeAt
    <2>6. InstAt(b) = Bit(x, y, z, InstIndex(b), Signed(ReadU8(b, 3)))
      BY <2>2, <2>3, <2>4, <2>5, <1>0, InstIs
    <2> QED
      BY <1>0, <1>2, <2>3, <2>5, <2>6
  <1>6. head[1] # \hFD /\ Len(head) >= 1
    BY <1>2
  <1> HIDE DEF head
  <1>4. <<>> \in Seq(Byte) /\ head \o <<>> = head
    BY <1>2, EmptySeq, ConcatEmptySeq
  <1>5. Shown(Asm(m, ops, head \o <<>>))
    BY <1>2, <1>3, <1>4, <1>6, ShownFrom DEF Gives, Shown
  <1> QED
    BY <1>4, <1>5 DEF head

\* Those behind 0xDD 0xCB and the displacement.
LEMMA ShownIndexedBit ==
    ASSUME NEW p, NEW d \in Byte, NEW m, NEW forms, CodeIndexedBit(p, d, m, forms),
           NEW ops, Gives(forms, <<>>, ops)
    PROVE  Shown(Asm(m, ops, <<\hDD, \hCB>> \o <<d, p>>))
  <1>0. PICK x \in 0 .. 3, y \in 0 .. 7, z \in 0 .. 7 :
            p = Fields(x, y, z) /\ Bit(x, y, z, "IX", Signed(d)) = Inst(m, forms)
    BY DEF CodeIndexedBit
  <1>1. p \in Byte /\ \hCB \in Byte /\ \hDD \in Byte
    BY <1>0, FieldsRead, PrefixBytes
  <1> DEFINE s == <<\hDD, \hCB>>
             u == <<d, p>>
             head == s \o u
  <1>2. s \in Seq(Byte) /\ Len(s) = 2 /\ u \in Seq(Byte) /\ Len(u) = 2
    BY <1>1, BytesSeq
  <1>3. head \in Seq(Byte) /\ Len(head) = 4
    BY <1>2, ConcatProperties
  <1>4. ASSUME NEW b \in Seq(Byte), Stands(head, b, 0)
        PROVE  InstAt(b) = Inst(m, forms) /\ OpcodeAt(b) = Len(head)
    <2>1. Stands(s, b, 0) /\ Stands(u, b, 2)
      <3> HIDE DEF s, u
      <3>1. Stands(s, b, 0) /\ Stands(u, b, 0 + Len(s))
        BY <1>2, <1>4, StandsParts
      <3>2. 0 + Len(s) = 2
        BY <1>2
      <3> QED
        BY <3>1, <3>2
    <2>2. ReadU8(b, 0 + 1) = \hDD /\ ReadU8(b, 0 + 2) = \hCB
      BY <2>1, StandsTwo
    <2>3. ReadU8(b, 2 + 1) = d /\ ReadU8(b, 2 + 2) = p
      BY <2>1, StandsTwo
    <2>4. ReadU8(b, 1) = \hDD /\ ReadU8(b, 2) = \hCB /\ ReadU8(b, 3) = d /\ ReadU8(b, 4) = p
      BY <2>2, <2>3
    <2>5. InstIndex(b) = "IX" /\ ~InstExtended(b)
      BY <2>4 DEF InstIndex, Index, InstExtended
    <2>6. InstBit(b)
      BY <2>4, <2>5 DEF InstBit
    <2>7. OpcodeAt(b) = 4
      BY <2>5, <2>6 DEF OpcodeAt
    <2>8. InstAt(b) = Bit(x, y, z, InstIndex(b), Signed(ReadU8(b, 3)))
      BY <2>4, <2>5, <2>6, <2>7, <1>0, InstIs
    <2> QED
      BY <1>0, <1>3, <2>4, <2>5, <2>7, <2>8
  <1>7. head[1] # \hFD /\ Len(head) >= 1
    <2>1. s[1] = \hDD
      OBVIOUS
    <2> HIDE DEF s, u
    <2>2. head[1] = s[1]
      BY <1>2, FirstOfJoined
    <2> QED
      BY <1>3, <2>1, <2>2
  <1> HIDE DEF head
  <1>5. <<>> \in Seq(Byte) /\ head \o <<>> = head
    BY <1>3, EmptySeq, ConcatEmptySeq
  <1>6. Shown(Asm(m, ops, head \o <<>>))
    <2>1. ASSUME NEW word \in BOOLEAN, word = FALSE
          PROVE  ShownAs(word, Asm(m, ops, head \o <<>>))
      <3>1. GivesAs(word, forms, <<>>, ops)
        BY <2>1, Zenon DEF Gives
      <3>2. /\ head \in Seq(Byte) /\ <<>> \in Seq(Byte)
            /\ Len(head) >= 1 /\ head[1] # \hFD
        BY <1>3, <1>5, <1>7
      <3>3. \A b \in Seq(Byte) : Stands(head, b, 0) =>
                InstAt(b) = Inst(m, forms) /\ OpcodeAt(b) = Len(head)
        BY <1>4
      <3> QED
        BY <3>1, <3>2, <3>3, ShownFrom
    <2> QED
      BY <2>1, Zenon DEF Shown
  <1> QED
    BY <1>5, <1>6 DEF head

-----------------------------------------------------------------------------
(***************************************************************************)
(* The names of the reference and the numbers of the decoder.              *)
(***************************************************************************)
LEMMA RegNumber ==
    ASSUME NEW r \in DOMAIN Reg
    PROVE  Reg[r] \in 0 .. 7 /\ Reg[r] # 6 /\ OpR(Reg[r], "none") = R8(r)
  <1> DEFINE t == <<"B", "C", "D", "E", High["none"], Low["none"], "", "A">>
  <1>1. \/ (r = "A" /\ Reg[r] = 7) \/ (r = "B" /\ Reg[r] = 0) \/ (r = "C" /\ Reg[r] = 1)
        \/ (r = "D" /\ Reg[r] = 2) \/ (r = "E" /\ Reg[r] = 3) \/ (r = "H" /\ Reg[r] = 4)
        \/ (r = "L" /\ Reg[r] = 5)
    BY DEF Reg
  <1>2. /\ t[1] = "B" /\ t[2] = "C" /\ t[3] = "D" /\ t[4] = "E" /\ t[5] = "H" /\ t[6] = "L"
        /\ t[8] = "A"
    BY DEF High, Low
  <1>3. Reg[r] \in 0 .. 7 /\ Reg[r] # 6
    BY <1>1
  <1>4. OpR(Reg[r], "none") = R8(t[Reg[r] + 1])
    BY <1>3 DEF OpR
  <1> HIDE DEF t
  <1>5. t[Reg[r] + 1] = r
    BY <1>1, <1>2
  <1> QED
    BY <1>3, <1>4, <1>5

LEMMA GivenReg ==
    ASSUME NEW r \in DOMAIN Reg
    PROVE  Given(R8(r)) /\ Given(R8Deref(r))
  <1>1. r \in {"A", "B", "C", "D", "E", "H", "L", "I", "R", "IXH", "IXL", "IYH", "IYL"}
    BY DEF Reg
  <1> QED
    BY <1>1, GivenR8

LEMMA PairNumber ==
    ASSUME NEW p \in DOMAIN Pair, NEW idx \in Indices
    PROVE  /\ Pair[p] \in 0 .. 3 /\ OpRp(Pair[p], "none") = R16(p) /\ Given(R16(p))
           /\ OpRp(Pair[p], idx) = R16(IF p = "HL" THEN Wide[idx] ELSE p)
  <1>1. \/ (p = "BC" /\ Pair[p] = 0) \/ (p = "DE" /\ Pair[p] = 1)
        \/ (p = "HL" /\ Pair[p] = 2) \/ (p = "SP" /\ Pair[p] = 3)
    BY DEF Pair
  <1>2. Pair[p] \in 0 .. 3 /\ rp_tab[Pair[p] + 1] = p
    BY <1>1 DEF rp_tab
  <1>3. Wide["none"] = "HL"
    BY DEF Wide
  <1>4. Given(R16(p))
    BY <1>1, GivenR16
  <1> QED
    BY <1>2, <1>3, <1>4 DEF OpRp, OpPair

LEMMA StackedNumber ==
    ASSUME NEW p \in DOMAIN Stacked
    PROVE  Stacked[p] \in 0 .. 3 /\ OpRp2(Stacked[p], "none") = R16(p) /\ Given(R16(p))
  <1>1. \/ (p = "BC" /\ Stacked[p] = 0) \/ (p = "DE" /\ Stacked[p] = 1)
        \/ (p = "HL" /\ Stacked[p] = 2) \/ (p = "AF" /\ Stacked[p] = 3)
    BY DEF Stacked
  <1>2. Stacked[p] \in 0 .. 3 /\ rp2_tab[Stacked[p] + 1] = p
    BY <1>1 DEF rp2_tab
  <1>3. Wide["none"] = "HL"
    BY DEF Wide
  <1>4. Given(R16(p))
    BY <1>1, GivenR16
  <1> QED
    BY <1>2, <1>3, <1>4 DEF OpRp2, OpPair

LEMMA CondNumber ==
    ASSUME NEW c \in DOMAIN Cond
    PROVE  /\ Cond[c] \in 0 .. 7 /\ OpCc(Cond[c]) = Status(c) /\ Given(Status(c))
           /\ c \in {"NZ", "Z", "NC", "C"} => Cond[c] \in 0 .. 3
  <1>1. \/ (c = "NZ" /\ Cond[c] = 0) \/ (c = "Z" /\ Cond[c] = 1) \/ (c = "NC" /\ Cond[c] = 2)
        \/ (c = "C" /\ Cond[c] = 3) \/ (c = "PO" /\ Cond[c] = 4) \/ (c = "PE" /\ Cond[c] = 5)
        \/ (c = "P" /\ Cond[c] = 6) \/ (c = "M" /\ Cond[c] = 7)
    BY DEF Cond
  <1>2. Cond[c] \in 0 .. 7 /\ cc_tab[Cond[c] + 1] = c
    BY <1>1 DEF cc_tab
  <1>3. OpCc(Cond[c]) = Status(c) /\ Given(OpCc(Cond[c]))
    BY <1>2, GivenCc DEF OpCc
  <1> QED
    BY <1>1, <1>2, <1>3

\* The operand at a place is what OpR reads there.
LEMMA PlaceMade ==
    ASSUME NEW s \in Places
    PROVE  /\ s.num \in 0 .. 7 /\ s.post \in Seq(Byte)
           /\ \E idx \in Indices :
                /\ s.pre = Pre(idx) /\ Makes(OpR(s.num, idx), s.post, s.op)
                /\ s.num = 6 \/ idx = "none"
  <1>1. CASE s \in InReg
    <2>1. PICK r \in DOMAIN Reg :
              s = [op |-> R8(r), pre |-> <<>>, num |-> Reg[r], post |-> <<>>]
      BY <1>1 DEF InReg
    <2>2. s.op = R8(r) /\ s.pre = <<>> /\ s.num = Reg[r] /\ s.post = <<>>
      BY <2>1
    <2>3. s.num \in 0 .. 7 /\ OpR(s.num, "none") = s.op /\ Given(s.op)
      BY <2>2, RegNumber, GivenReg
    <2>4. Makes(OpR(s.num, "none"), s.post, s.op)
      BY <2>2, <2>3, MakesGiven
    <2>5. "none" \in Indices /\ Pre("none") = <<>>
      BY DEF Indices, Pre
    <2> QED
      BY <2>2, <2>3, <2>4, <2>5, EmptySeq
  <1>2. CASE s \in InHL
    <2>1. s.op = R16Deref("HL") /\ s.pre = <<>> /\ s.num = 6 /\ s.post = <<>>
      BY <1>2 DEF InHL
    <2>2. OpR(6, "none") = s.op /\ Given(s.op)
      BY <2>1, GivenR16 DEF OpR
    <2>3. Makes(OpR(s.num, "none"), s.post, s.op)
      BY <2>1, <2>2, MakesGiven
    <2>4. "none" \in Indices /\ Pre("none") = <<>>
      BY DEF Indices, Pre
    <2> QED
      BY <2>1, <2>3, <2>4, EmptySeq
  <1>3. CASE s \in Indexed
    <2>1. PICK i \in {"IX", "IY"}, d \in ByteArgs :
              s = [op |-> IndexRel(i, Signed(d)), pre |-> Prefix[i], num |-> 6, post |-> <<d>>]
      BY <1>3 DEF Indexed
    <2>2. s.op = IndexRel(i, Signed(d)) /\ s.pre = Prefix[i] /\ s.num = 6 /\ s.post = <<d>>
      BY <2>1
    <2>3. d \in Byte /\ i # "none" /\ i \in Indices
      BY InstructionSetAssumption DEF Indices
    <2>4. OpR(6, i) = Disp(i) /\ Pre(i) = Prefix[i]
      BY <2>3 DEF OpR, Pre
    <2>5. Makes(Disp(i), <<d>>, IndexRel(i, Signed(d)))
      BY <2>3, MakesOneByte
    <2>6. Makes(OpR(s.num, i), s.post, s.op)
      BY <2>2, <2>4, <2>5
    <2>7. s.post \in Seq(Byte)
      BY <2>2, <2>3, BytesSeq
    <2> QED
      BY <2>2, <2>3, <2>4, <2>6, <2>7
  <1> QED
    BY <1>1, <1>2, <1>3 DEF Places, InMemory

LEMMA MemoryNumber ==
    ASSUME NEW t \in InMemory
    PROVE  t.num = 6 /\ t \in Places
  BY DEF InMemory, InHL, Indexed, Places

\* A pair that a prefix replaces is what OpHlOrIndex names.
LEMMA WideMade ==
    ASSUME NEW i \in Wides
    PROVE  \E idx \in Indices :
               /\ i.pre = Pre(idx) /\ i.name = Wide[idx]
               /\ OpHlOrIndex(idx) = R16(i.name) /\ Given(R16(i.name))
  <1>1. CASE i = [name |-> "HL", pre |-> <<>>]
    <2>1. i.pre = Pre("none") /\ i.name = Wide["none"] /\ i.name = "HL" /\ "none" \in Indices
      BY <1>1 DEF Pre, Wide, Indices
    <2>2. OpHlOrIndex("none") = R16(i.name) /\ Given(R16(i.name))
      BY <2>1, GivenR16 DEF OpHlOrIndex
    <2> QED
      BY <2>1, <2>2
  <1>2. CASE i = [name |-> "IX", pre |-> Prefix["IX"]]
    <2>1. i.pre = Pre("IX") /\ i.name = Wide["IX"] /\ i.name = "IX" /\ "IX" \in Indices
      BY <1>2 DEF Pre, Wide, Indices
    <2>2. OpHlOrIndex("IX") = R16(i.name) /\ Given(R16(i.name))
      BY <2>1, GivenR16 DEF OpHlOrIndex
    <2> QED
      BY <2>1, <2>2
  <1>3. CASE i = [name |-> "IY", pre |-> Prefix["IY"]]
    <2>1. i.pre = Pre("IY") /\ i.name = Wide["IY"] /\ i.name = "IY" /\ "IY" \in Indices
      BY <1>3 DEF Pre, Wide, Indices
    <2>2. OpHlOrIndex("IY") = R16(i.name) /\ Given(R16(i.name))
      BY <2>1, GivenR16 DEF OpHlOrIndex
    <2> QED
      BY <2>1, <2>2
  <1> QED
    BY <1>1, <1>2, <1>3 DEF Wides

LEMMA PreSeq ==
    ASSUME NEW idx \in Indices
    PROVE  Pre(idx) \in Seq(Byte)
  <1> DEFINE ix == <<\hDD>>
             iy == <<\hFD>>
             none == <<>>
  <1>1. ix \in Seq(Byte) /\ iy \in Seq(Byte) /\ none \in Seq(Byte)
    BY PrefixBytes, BytesSeq
  <1>2. Pre(idx) = none \/ Pre(idx) = ix \/ Pre(idx) = iy
    BY DEF Pre, Prefix, Indices
  <1> HIDE DEF ix, iy, none
  <1> QED
    BY <1>1, <1>2

LEMMA WordSeq ==
    ASSUME NEW w \in Words
    PROVE  /\ w \in Seq(Byte)
           /\ Makes(NN, w, Imm16(Val(w))) /\ Makes(NNDeref, w, Imm16Deref(Val(w)))
  <1>1. PICK lo \in ByteArgs, hi \in ByteArgs : w = <<lo, hi>>
    BY DEF Words
  <1>2. lo \in Byte /\ hi \in Byte
    BY InstructionSetAssumption
  <1>3. Val(w) = 256 * hi + lo
    BY <1>1 DEF Val
  <1> QED
    BY <1>1, <1>2, <1>3, BytesSeq, MakesTwoBytes

-----------------------------------------------------------------------------
(***************************************************************************)
(* The decoder's tables, by opcode.                                        *)
(***************************************************************************)
LEMMA CodeFrom ==
    ASSUME NEW x \in 0 .. 3, NEW y \in 0 .. 7, NEW z \in 0 .. 7, NEW idx, NEW m, NEW forms,
           NEW p, p = Fields(x, y, z), Ordinary(p), Regular(x, y, z, idx) = Inst(m, forms)
    PROVE  Code(p, idx, m, forms)
  BY Zenon DEF Code

LEMMA CodeX0 ==
    ASSUME NEW y \in 0 .. 7, NEW z \in 0 .. 7, NEW idx, NEW m, NEW forms,
           NEW p, p = 8 * y + z, RegularX0(y, z, idx) = Inst(m, forms)
    PROVE  Code(p, idx, m, forms)
  <1>1. p = Fields(0, y, z) /\ Ordinary(p) /\ 0 \in 0 .. 3
    BY DEF Fields, Ordinary
  <1>2. Regular(0, y, z, idx) = Inst(m, forms)
    BY DEF Regular
  <1> QED
    BY <1>1, <1>2, CodeFrom

LEMMA CodeX1 ==
    ASSUME NEW y \in 0 .. 7, NEW z \in 0 .. 7, NEW idx, NEW m, NEW forms,
           NEW p, p = 64 + 8 * y + z, RegularX1(y, z, idx) = Inst(m, forms)
    PROVE  Code(p, idx, m, forms)
  <1>1. p = Fields(1, y, z) /\ Ordinary(p) /\ 1 \in 0 .. 3
    BY DEF Fields, Ordinary
  <1>2. Regular(1, y, z, idx) = Inst(m, forms)
    BY DEF Regular
  <1> QED
    BY <1>1, <1>2, CodeFrom

LEMMA CodeX2 ==
    ASSUME NEW y \in 0 .. 7, NEW z \in 0 .. 7, NEW idx, NEW m, NEW forms,
           NEW p, p = 128 + 8 * y + z, OpAlu(y, OpR(z, idx)) = Inst(m, forms)
    PROVE  Code(p, idx, m, forms)
  <1>1. p = Fields(2, y, z) /\ Ordinary(p) /\ 2 \in 0 .. 3
    BY DEF Fields, Ordinary
  <1>2. Regular(2, y, z, idx) = Inst(m, forms)
    BY DEF Regular
  <1> QED
    BY <1>1, <1>2, CodeFrom

LEMMA CodeX3 ==
    ASSUME NEW y \in 0 .. 7, NEW z \in 0 .. 7, NEW idx, NEW m, NEW forms,
           NEW p, p = 192 + 8 * y + z, Ordinary(p), RegularX3(y, z, idx) = Inst(m, forms)
    PROVE  Code(p, idx, m, forms)
  <1>1. p = Fields(3, y, z) /\ 3 \in 0 .. 3
    BY DEF Fields
  <1>2. Regular(3, y, z, idx) = Inst(m, forms)
    BY DEF Regular
  <1> QED
    BY <1>1, <1>2, CodeFrom

\* x = 0: eight for each z.
LEMMA CodesJr ==
    ASSUME NEW idx
    PROVE  /\ Code(0, idx, "NOP", <<>>) /\ Code(\h10, idx, "DJNZ", <<D>>)
           /\ Code(\h18, idx, "JR", <<D>>)
           /\ \A c \in 0 .. 3 : Code(\h20 + 8 * c, idx, "JR", <<OpCc(c), D>>)
  <1> DEFINE t == << Plain("NOP"), Inst("EX", <<R8("A"), AfShadow>>),
                     Inst("DJNZ", <<D>>), Inst("JR", <<D>>),
                     Inst("JR", <<OpCc(0), D>>), Inst("JR", <<OpCc(1), D>>),
                     Inst("JR", <<OpCc(2), D>>), Inst("JR", <<OpCc(3), D>>) >>
  <1>1. \A y \in 0 .. 7 : RegularX0(y, 0, idx) = t[y + 1]
    BY DEF RegularX0
  <1>2. /\ t[1] = Inst("NOP", <<>>) /\ t[3] = Inst("DJNZ", <<D>>) /\ t[4] = Inst("JR", <<D>>)
        /\ t[5] = Inst("JR", <<OpCc(0), D>>) /\ t[6] = Inst("JR", <<OpCc(1), D>>)
        /\ t[7] = Inst("JR", <<OpCc(2), D>>) /\ t[8] = Inst("JR", <<OpCc(3), D>>)
    BY DEF Plain
  <1> HIDE DEF t
  <1>3. \A c \in 0 .. 3 : t[4 + c + 1] = Inst("JR", <<OpCc(c), D>>)
    <2> SUFFICES ASSUME NEW c \in 0 .. 3
                 PROVE  t[4 + c + 1] = Inst("JR", <<OpCc(c), D>>)
      OBVIOUS
    <2>1. CASE c = 0
      BY <1>2, <2>1
    <2>2. CASE c = 1
      BY <1>2, <2>2
    <2>3. CASE c = 2
      BY <1>2, <2>3
    <2>4. CASE c = 3
      BY <1>2, <2>4
    <2> QED
      BY <2>1, <2>2, <2>3, <2>4
  <1>4. Code(0, idx, "NOP", <<>>)
    <2>1. RegularX0(0, 0, idx) = Inst("NOP", <<>>)
      BY <1>1, <1>2
    <2> QED
      BY <2>1, CodeX0
  <1>5. Code(\h10, idx, "DJNZ", <<D>>)
    <2>1. RegularX0(2, 0, idx) = Inst("DJNZ", <<D>>)
      BY <1>1, <1>2
    <2> QED
      BY <2>1, CodeX0
  <1>6. Code(\h18, idx, "JR", <<D>>)
    <2>1. RegularX0(3, 0, idx) = Inst("JR", <<D>>)
      BY <1>1, <1>2
    <2> QED
      BY <2>1, CodeX0
  <1>7. ASSUME NEW c \in 0 .. 3
        PROVE  Code(\h20 + 8 * c, idx, "JR", <<OpCc(c), D>>)
    <2>1. RegularX0(4 + c, 0, idx) = Inst("JR", <<OpCc(c), D>>)
      BY <1>1, <1>3
    <2>2. 4 + c \in 0 .. 7 /\ \h20 + 8 * c = 8 * (4 + c) + 0
      OBVIOUS
    <2> QED
      BY <2>1, <2>2, CodeX0
  <1> QED
    BY <1>4, <1>5, <1>6, <1>7

LEMMA CodesRp ==
    ASSUME NEW idx, NEW p \in 0 .. 3
    PROVE  /\ Code(1 + 16 * p, idx, "LD", <<OpRp(p, idx), NN>>)
           /\ Code(9 + 16 * p, idx, "ADD", <<OpHlOrIndex(idx), OpRp(p, idx)>>)
           /\ Code(3 + 16 * p, idx, "INC", <<OpRp(p, idx)>>)
           /\ Code(\h0B + 16 * p, idx, "DEC", <<OpRp(p, idx)>>)
  <1> DEFINE e == 2 * p
             o == 2 * p + 1
  <1>1. /\ e \in 0 .. 7 /\ e \div 2 = p /\ e % 2 = 0
        /\ o \in 0 .. 7 /\ o \div 2 = p /\ o % 2 # 0
    OBVIOUS
  <1>2. /\ 1 + 16 * p = 8 * e + 1 /\ 9 + 16 * p = 8 * o + 1
        /\ 3 + 16 * p = 8 * e + 3 /\ \h0B + 16 * p = 8 * o + 3
    OBVIOUS
  <1> HIDE DEF e, o
  <1>3. RegularX0(e, 1, idx) = Inst("LD", <<OpRp(p, idx), NN>>)
    BY <1>1 DEF RegularX0
  <1>4. RegularX0(o, 1, idx) = Inst("ADD", <<OpHlOrIndex(idx), OpRp(p, idx)>>)
    BY <1>1 DEF RegularX0
  <1>5. RegularX0(e, 3, idx) = Inst("INC", <<OpRp(p, idx)>>)
    BY <1>1 DEF RegularX0
  <1>6. RegularX0(o, 3, idx) = Inst("DEC", <<OpRp(p, idx)>>)
    BY <1>1 DEF RegularX0
  <1>7. 1 \in 0 .. 7 /\ 3 \in 0 .. 7
    OBVIOUS
  <1> QED
    BY <1>1, <1>2, <1>3, <1>4, <1>5, <1>6, <1>7, CodeX0

LEMMA CodesIndirect ==
    ASSUME NEW idx
    PROVE  LET a == R8("A")
               hl == OpHlOrIndex(idx)
           IN /\ Code(\h02, idx, "LD", <<R16Deref("BC"), a>>)
              /\ Code(\h0A, idx, "LD", <<a, R16Deref("BC")>>)
              /\ Code(\h1A, idx, "LD", <<a, R16Deref("DE")>>)
              /\ Code(\h22, idx, "LD", <<NNDeref, hl>>)
              /\ Code(\h2A, idx, "LD", <<hl, NNDeref>>)
              /\ Code(\h32, idx, "LD", <<NNDeref, a>>)
              /\ Code(\h3A, idx, "LD", <<a, NNDeref>>)
  <1> DEFINE a == R8("A")
             hl == OpHlOrIndex(idx)
             bc == R16Deref("BC")
             t == << <<bc, a>>, <<a, bc>>, <<bc, a>>, <<a, R16Deref("DE")>>,
                     <<NNDeref, hl>>, <<hl, NNDeref>>, <<NNDeref, a>>, <<a, NNDeref>> >>
  <1>1. \A y \in 0 .. 7 : RegularX0(y, 2, idx) = Inst("LD", t[y + 1])
    BY DEF RegularX0
  <1>2. /\ t[1] = <<bc, a>> /\ t[2] = <<a, bc>> /\ t[4] = <<a, R16Deref("DE")>>
        /\ t[5] = <<NNDeref, hl>> /\ t[6] = <<hl, NNDeref>>
        /\ t[7] = <<NNDeref, a>> /\ t[8] = <<a, NNDeref>>
    OBVIOUS
  <1> HIDE DEF t, a, hl, bc
  <1>3. ASSUME NEW y \in 0 .. 7
        PROVE  Code(8 * y + 2, idx, "LD", t[y + 1])
    <2>1. RegularX0(y, 2, idx) = Inst("LD", t[y + 1]) /\ 2 \in 0 .. 7
      BY <1>1
    <2> QED
      BY <2>1, CodeX0
  <1>4. /\ Code(8 * 0 + 2, idx, "LD", t[0 + 1]) /\ Code(8 * 1 + 2, idx, "LD", t[1 + 1])
        /\ Code(8 * 3 + 2, idx, "LD", t[3 + 1]) /\ Code(8 * 4 + 2, idx, "LD", t[4 + 1])
        /\ Code(8 * 5 + 2, idx, "LD", t[5 + 1]) /\ Code(8 * 6 + 2, idx, "LD", t[6 + 1])
        /\ Code(8 * 7 + 2, idx, "LD", t[7 + 1])
    <2>1. \A y \in {0, 1, 3, 4, 5, 6, 7} : y \in 0 .. 7
      OBVIOUS
    <2> QED
      BY <1>3, <2>1
  <1> QED
    BY <1>2, <1>4 DEF a, hl, bc

LEMMA CodesOneRegister ==
    ASSUME NEW idx, NEW y \in 0 .. 7
    PROVE  /\ Code(4 + 8 * y, idx, "INC", <<OpR(y, idx)>>)
           /\ Code(5 + 8 * y, idx, "DEC", <<OpR(y, idx)>>)
           /\ Code(6 + 8 * y, idx, "LD", <<OpR(y, idx), N>>)
  <1>1. RegularX0(y, 4, idx) = Inst("INC", <<OpR(y, idx)>>)
    BY DEF RegularX0
  <1>2. RegularX0(y, 5, idx) = Inst("DEC", <<OpR(y, idx)>>)
    BY DEF RegularX0
  <1>3. RegularX0(y, 6, idx) = Inst("LD", <<OpR(y, idx), N>>)
    BY DEF RegularX0
  <1>4. /\ 4 + 8 * y = 8 * y + 4 /\ 5 + 8 * y = 8 * y + 5 /\ 6 + 8 * y = 8 * y + 6
        /\ 4 \in 0 .. 7 /\ 5 \in 0 .. 7 /\ 6 \in 0 .. 7
    OBVIOUS
  <1> QED
    BY <1>1, <1>2, <1>3, <1>4, CodeX0

LEMMA CodesAccumulator ==
    ASSUME NEW idx
    PROVE  /\ Code(\h07, idx, "RLCA", <<>>) /\ Code(\h0F, idx, "RRCA", <<>>)
           /\ Code(\h17, idx, "RLA", <<>>) /\ Code(\h1F, idx, "RRA", <<>>)
           /\ Code(\h27, idx, "DAA", <<>>) /\ Code(\h2F, idx, "CPL", <<>>)
           /\ Code(\h37, idx, "SCF", <<>>) /\ Code(\h3F, idx, "CCF", <<>>)
  <1> DEFINE t == <<"RLCA", "RRCA", "RLA", "RRA", "DAA", "CPL", "SCF", "CCF">>
  <1>1. \A y \in 0 .. 7 : RegularX0(y, 7, idx) = Inst(t[y + 1], <<>>)
    BY DEF RegularX0, Plain
  <1>2. /\ t[1] = "RLCA" /\ t[2] = "RRCA" /\ t[3] = "RLA" /\ t[4] = "RRA"
        /\ t[5] = "DAA" /\ t[6] = "CPL" /\ t[7] = "SCF" /\ t[8] = "CCF"
    OBVIOUS
  <1> HIDE DEF t
  <1>3. ASSUME NEW y \in 0 .. 7
        PROVE  Code(8 * y + 7, idx, t[y + 1], <<>>)
    <2>1. RegularX0(y, 7, idx) = Inst(t[y + 1], <<>>) /\ 7 \in 0 .. 7
      BY <1>1
    <2> QED
      BY <2>1, CodeX0
  <1>4. /\ Code(8 * 0 + 7, idx, t[0 + 1], <<>>) /\ Code(8 * 1 + 7, idx, t[1 + 1], <<>>)
        /\ Code(8 * 2 + 7, idx, t[2 + 1], <<>>) /\ Code(8 * 3 + 7, idx, t[3 + 1], <<>>)
        /\ Code(8 * 4 + 7, idx, t[4 + 1], <<>>) /\ Code(8 * 5 + 7, idx, t[5 + 1], <<>>)
        /\ Code(8 * 6 + 7, idx, t[6 + 1], <<>>) /\ Code(8 * 7 + 7, idx, t[7 + 1], <<>>)
    <2>1. \A y \in {0, 1, 2, 3, 4, 5, 6, 7} : y \in 0 .. 7
      OBVIOUS
    <2> QED
      BY <1>3, <2>1
  <1> QED
    BY <1>2, <1>4

\* x = 1 and x = 2.
LEMMA CodesLoad ==
    ASSUME NEW idx, NEW y \in 0 .. 7, NEW z \in 0 .. 7
    PROVE  /\ y # 6 =>
                  Code(64 + 8 * y + z, idx, "LD",
                       <<OpR(y, IF z = 6 THEN "none" ELSE idx), OpR(z, idx)>>)
           /\ z # 6 =>
                  Code(64 + 8 * y + z, idx, "LD",
                       <<OpR(y, idx), OpR(z, IF y = 6 THEN "none" ELSE idx)>>)
           /\ Code(\h76, idx, "HALT", <<>>)
  <1> DEFINE p == 64 + 8 * y + z
  <1>1. p = 64 + 8 * y + z
    OBVIOUS
  <1>2. y # 6 => RegularX1(y, z, idx) =
                     Inst("LD", <<OpR(y, IF z = 6 THEN "none" ELSE idx), OpR(z, idx)>>)
    BY DEF RegularX1
  <1>3. z # 6 => RegularX1(y, z, idx) =
                     Inst("LD", <<OpR(y, idx), OpR(z, IF y = 6 THEN "none" ELSE idx)>>)
    BY DEF RegularX1
  <1>4. RegularX1(6, 6, idx) = Inst("HALT", <<>>)
    BY DEF RegularX1, Plain
  <1>5. \h76 = 64 + 8 * 6 + 6 /\ 6 \in 0 .. 7
    OBVIOUS
  <1>6. Code(\h76, idx, "HALT", <<>>)
    BY <1>4, <1>5, CodeX1
  <1> HIDE DEF p
  <1>7. /\ y # 6 => Code(p, idx, "LD", <<OpR(y, IF z = 6 THEN "none" ELSE idx), OpR(z, idx)>>)
        /\ z # 6 => Code(p, idx, "LD", <<OpR(y, idx), OpR(z, IF y = 6 THEN "none" ELSE idx)>>)
    BY <1>1, <1>2, <1>3, CodeX1
  <1> QED
    BY <1>6, <1>7 DEF p

\* The operands of an instruction of the accumulator.
WithA(y, op) == IF y \in {0, 1, 3} THEN <<R8("A"), op>> ELSE <<op>>

LEMMA CodesAlu ==
    ASSUME NEW idx, NEW y \in 0 .. 7, NEW z \in 0 .. 7
    PROVE  /\ Code(128 + 8 * y + z, idx, alu_tab[y + 1], WithA(y, OpR(z, idx)))
           /\ Code(\hC6 + 8 * y, idx, alu_tab[y + 1], WithA(y, N))
  <1>1. OpAlu(y, OpR(z, idx)) = Inst(alu_tab[y + 1], WithA(y, OpR(z, idx)))
    BY DEF OpAlu, WithA
  <1>2. RegularX3(y, 6, idx) = Inst(alu_tab[y + 1], WithA(y, N))
    BY DEF RegularX3, OpAlu, WithA
  <1>3. \hC6 + 8 * y = 192 + 8 * y + 6 /\ 6 \in 0 .. 7
    OBVIOUS
  <1>4. Ordinary(\hC6 + 8 * y)
    BY DEF Ordinary
  <1> QED
    BY <1>1, <1>2, <1>3, <1>4, CodeX2, CodeX3

\* x = 3.
LEMMA CodesCc ==
    ASSUME NEW idx, NEW y \in 0 .. 7
    PROVE  /\ Code(\hC0 + 8 * y, idx, "RET", <<OpCc(y)>>)
           /\ Code(\hC2 + 8 * y, idx, "JP", <<OpCc(y), NN>>)
           /\ Code(\hC4 + 8 * y, idx, "CALL", <<OpCc(y), NN>>)
           /\ y # 3 => Code(\hC7 + 8 * y, idx, "RST", <<Imm8(8 * y)>>)
  <1>1. RegularX3(y, 0, idx) = Inst("RET", <<OpCc(y)>>)
    BY DEF RegularX3
  <1>2. RegularX3(y, 2, idx) = Inst("JP", <<OpCc(y), NN>>)
    BY DEF RegularX3
  <1>3. RegularX3(y, 4, idx) = Inst("CALL", <<OpCc(y), NN>>)
    BY DEF RegularX3
  <1>4. RegularX3(y, 7, idx) = Inst("RST", <<Imm8(8 * y)>>)
    BY DEF RegularX3
  <1>5. \A z \in {0, 2, 4} : z \in 0 .. 7 /\ Ordinary(192 + 8 * y + z)
    BY DEF Ordinary
  <1>7. 7 \in 0 .. 7 /\ (y # 3 => Ordinary(192 + 8 * y + 7))
    BY DEF Ordinary
  <1>6. /\ \hC0 + 8 * y = 192 + 8 * y + 0 /\ \hC2 + 8 * y = 192 + 8 * y + 2
        /\ \hC4 + 8 * y = 192 + 8 * y + 4 /\ \hC7 + 8 * y = 192 + 8 * y + 7
    OBVIOUS
  <1> QED
    BY <1>1, <1>2, <1>3, <1>4, <1>5, <1>6, <1>7, CodeX3

LEMMA CodesStack ==
    ASSUME NEW idx, NEW p \in 0 .. 3
    PROVE  /\ Code(\hC1 + 16 * p, idx, "POP", <<OpRp2(p, idx)>>)
           /\ Code(\hC5 + 16 * p, idx, "PUSH", <<OpRp2(p, idx)>>)
  <1> DEFINE e == 2 * p
             q == \hC1 + 16 * p
             u == \hC5 + 16 * p
  <1>1. e \in 0 .. 7 /\ e \div 2 = p /\ e % 2 = 0
    OBVIOUS
  <1>2. q = 192 + 8 * e + 1 /\ u = 192 + 8 * e + 5 /\ 1 \in 0 .. 7 /\ 5 \in 0 .. 7
    OBVIOUS
  <1>3. Ordinary(q) /\ Ordinary(u)
    BY DEF Ordinary
  <1> HIDE DEF e, q, u
  <1>4. RegularX3(e, 1, idx) = Inst("POP", <<OpRp2(p, idx)>>)
    BY <1>1 DEF RegularX3
  <1>5. RegularX3(e, 5, idx) = Inst("PUSH", <<OpRp2(p, idx)>>)
    BY <1>1 DEF RegularX3
  <1>6. Code(q, idx, "POP", <<OpRp2(p, idx)>>) /\ Code(u, idx, "PUSH", <<OpRp2(p, idx)>>)
    BY <1>1, <1>2, <1>3, <1>4, <1>5, CodeX3
  <1> QED
    BY <1>6 DEF q, u

LEMMA CodesReturn ==
    ASSUME NEW idx
    PROVE  /\ Code(\hC9, idx, "RET", <<>>) /\ Code(\hD9, idx, "EXX", <<>>)
           /\ Code(\hE9, idx, "JP", <<R16("HL")>>)
           /\ Code(\hF9, idx, "LD", <<R16("SP"), R16("HL")>>)
           /\ Code(\hCD, idx, "CALL", <<NN>>)
  <1> DEFINE t == << Plain("RET"), Plain("EXX"), Inst("JP", <<R16("HL")>>),
                     Inst("LD", <<R16("SP"), R16("HL")>>) >>
             u == << Inst("CALL", <<NN>>), Plain("INVALID"), Plain("INVALID"),
                     Plain("INVALID") >>
  <1>1. \A y \in {1, 3, 5, 7} : RegularX3(y, 1, idx) = t[(y \div 2) + 1]
    <2>1. \A y \in {1, 3, 5, 7} : y % 2 # 0
      OBVIOUS
    <2> QED
      BY <2>1 DEF RegularX3
  <1>2. RegularX3(1, 5, idx) = u[1]
    BY DEF RegularX3
  <1>3. /\ t[1] = Inst("RET", <<>>) /\ t[2] = Inst("EXX", <<>>) /\ t[3] = Inst("JP", <<R16("HL")>>)
        /\ t[4] = Inst("LD", <<R16("SP"), R16("HL")>>) /\ u[1] = Inst("CALL", <<NN>>)
    BY DEF Plain
  <1> HIDE DEF t, u
  <1>4. /\ RegularX3(1, 1, idx) = t[1] /\ RegularX3(3, 1, idx) = t[2]
        /\ RegularX3(5, 1, idx) = t[3] /\ RegularX3(7, 1, idx) = t[4]
    BY <1>1
  <1>5. /\ \hC9 = 192 + 8 * 1 + 1 /\ \hD9 = 192 + 8 * 3 + 1 /\ \hE9 = 192 + 8 * 5 + 1
        /\ \hF9 = 192 + 8 * 7 + 1 /\ \hCD = 192 + 8 * 1 + 5
    OBVIOUS
  <1>6. \A p \in {\hC9, \hD9, \hE9, \hF9, \hCD} : Ordinary(p)
    BY DEF Ordinary
  <1>7. \A y \in {1, 3, 5, 7} : y \in 0 .. 7
    OBVIOUS
  <1>8. Code(\hC9, idx, "RET", <<>>)
    BY <1>3, <1>4, <1>5, <1>6, <1>7, CodeX3
  <1>9. Code(\hD9, idx, "EXX", <<>>)
    BY <1>3, <1>4, <1>5, <1>6, <1>7, CodeX3
  <1>10. Code(\hE9, idx, "JP", <<R16("HL")>>)
    BY <1>3, <1>4, <1>5, <1>6, <1>7, CodeX3
  <1>11. Code(\hF9, idx, "LD", <<R16("SP"), R16("HL")>>)
    BY <1>3, <1>4, <1>5, <1>6, <1>7, CodeX3
  <1>12. Code(\hCD, idx, "CALL", <<NN>>)
    BY <1>2, <1>3, <1>5, <1>6, <1>7, CodeX3
  <1> QED
    BY <1>8, <1>9, <1>10, <1>11, <1>12

LEMMA CodesMixed ==
    ASSUME NEW idx
    PROVE  /\ Code(\hC3, idx, "JP", <<NN>>)
           /\ Code(\hD3, idx, "OUT", <<NDeref, R8("A")>>)
           /\ Code(\hDB, idx, "IN", <<R8("A"), NDeref>>)
           /\ Code(\hE3, idx, "EX", <<R16Deref("SP"), OpHlOrIndex(idx)>>)
           /\ Code(\hEB, idx, "EX", <<R16("DE"), R16("HL")>>)
           /\ Code(\hF3, idx, "DI", <<>>) /\ Code(\hFB, idx, "EI", <<>>)
  <1> DEFINE t == << Inst("JP", <<NN>>), Plain("INVALID"),
                     Inst("OUT", <<NDeref, R8("A")>>), Inst("IN", <<R8("A"), NDeref>>),
                     Inst("EX", <<R16Deref("SP"), OpHlOrIndex(idx)>>),
                     Inst("EX", <<R16("DE"), R16("HL")>>),
                     Plain("DI"), Plain("EI") >>
  <1>1. \A y \in 0 .. 7 : RegularX3(y, 3, idx) = t[y + 1]
    BY DEF RegularX3
  <1>2. /\ t[1] = Inst("JP", <<NN>>) /\ t[3] = Inst("OUT", <<NDeref, R8("A")>>)
        /\ t[4] = Inst("IN", <<R8("A"), NDeref>>)
        /\ t[5] = Inst("EX", <<R16Deref("SP"), OpHlOrIndex(idx)>>)
        /\ t[6] = Inst("EX", <<R16("DE"), R16("HL")>>)
        /\ t[7] = Inst("DI", <<>>) /\ t[8] = Inst("EI", <<>>)
    BY DEF Plain
  <1> HIDE DEF t
  <1>3. /\ RegularX3(0, 3, idx) = t[1] /\ RegularX3(2, 3, idx) = t[3]
        /\ RegularX3(3, 3, idx) = t[4] /\ RegularX3(4, 3, idx) = t[5]
        /\ RegularX3(5, 3, idx) = t[6] /\ RegularX3(6, 3, idx) = t[7]
        /\ RegularX3(7, 3, idx) = t[8]
    BY <1>1
  <1>4. /\ \hC3 = 192 + 8 * 0 + 3 /\ \hD3 = 192 + 8 * 2 + 3 /\ \hDB = 192 + 8 * 3 + 3
        /\ \hE3 = 192 + 8 * 4 + 3 /\ \hEB = 192 + 8 * 5 + 3 /\ \hF3 = 192 + 8 * 6 + 3
        /\ \hFB = 192 + 8 * 7 + 3
    OBVIOUS
  <1>5. \A p \in {\hC3, \hD3, \hDB, \hE3, \hEB, \hF3, \hFB} : Ordinary(p)
    BY DEF Ordinary
  <1>6. \A y \in {0, 2, 3, 4, 5, 6, 7} : y \in 0 .. 7
    OBVIOUS
  <1>7. Code(\hC3, idx, "JP", <<NN>>)
    BY <1>2, <1>3, <1>4, <1>5, <1>6, CodeX3
  <1>8. Code(\hD3, idx, "OUT", <<NDeref, R8("A")>>)
    BY <1>2, <1>3, <1>4, <1>5, <1>6, CodeX3
  <1>9. Code(\hDB, idx, "IN", <<R8("A"), NDeref>>)
    BY <1>2, <1>3, <1>4, <1>5, <1>6, CodeX3
  <1>10. Code(\hE3, idx, "EX", <<R16Deref("SP"), OpHlOrIndex(idx)>>)
    BY <1>2, <1>3, <1>4, <1>5, <1>6, CodeX3
  <1>11. Code(\hEB, idx, "EX", <<R16("DE"), R16("HL")>>)
    BY <1>2, <1>3, <1>4, <1>5, <1>6, CodeX3
  <1>12. Code(\hF3, idx, "DI", <<>>) /\ Code(\hFB, idx, "EI", <<>>)
    BY <1>2, <1>3, <1>4, <1>5, <1>6, CodeX3
  <1> QED
    BY <1>7, <1>8, <1>9, <1>10, <1>11, <1>12

\* Behind 0xED.
LEMMA CodeExtendedX1 ==
    ASSUME NEW y \in 0 .. 7, NEW z \in 0 .. 7, NEW m, NEW forms,
           NEW p, p = 64 + 8 * y + z, ExtendedX1(y, z) = Inst(m, forms)
    PROVE  CodeExtended(p, m, forms)
  <1>1. p = Fields(1, y, z) /\ 1 \in 0 .. 3
    BY DEF Fields
  <1>2. Extended(1, y, z) = Inst(m, forms)
    BY DEF Extended
  <1> QED
    BY <1>1, <1>2 DEF CodeExtended

LEMMA CodesInOut ==
    ASSUME NEW y \in 0 .. 7, y # 6
    PROVE  /\ CodeExtended(\h40 + 8 * y, "IN", <<OpR(y, "none"), R8Deref("C")>>)
           /\ CodeExtended(\h41 + 8 * y, "OUT", <<R8Deref("C"), OpR(y, "none")>>)
  <1>1. ExtendedX1(y, 0) = Inst("IN", <<OpR(y, "none"), R8Deref("C")>>)
    BY DEF ExtendedX1
  <1>2. ExtendedX1(y, 1) = Inst("OUT", <<R8Deref("C"), OpR(y, "none")>>)
    BY DEF ExtendedX1
  <1>3. \h40 + 8 * y = 64 + 8 * y + 0 /\ \h41 + 8 * y = 64 + 8 * y + 1
        /\ 0 \in 0 .. 7 /\ 1 \in 0 .. 7
    OBVIOUS
  <1> QED
    BY <1>1, <1>2, <1>3, CodeExtendedX1

LEMMA CodesWide ==
    ASSUME NEW p \in 0 .. 3
    PROVE  /\ CodeExtended(\h42 + 16 * p, "SBC", <<R16("HL"), OpRp(p, "none")>>)
           /\ CodeExtended(\h4A + 16 * p, "ADC", <<R16("HL"), OpRp(p, "none")>>)
           /\ CodeExtended(\h43 + 16 * p, "LD", <<NNDeref, OpRp(p, "none")>>)
           /\ CodeExtended(\h4B + 16 * p, "LD", <<OpRp(p, "none"), NNDeref>>)
  <1> DEFINE e == 2 * p
             o == 2 * p + 1
  <1>1. /\ e \in 0 .. 7 /\ e \div 2 = p /\ e % 2 = 0
        /\ o \in 0 .. 7 /\ o \div 2 = p /\ o % 2 # 0
    OBVIOUS
  <1>2. /\ \h42 + 16 * p = 64 + 8 * e + 2 /\ \h4A + 16 * p = 64 + 8 * o + 2
        /\ \h43 + 16 * p = 64 + 8 * e + 3 /\ \h4B + 16 * p = 64 + 8 * o + 3
        /\ 2 \in 0 .. 7 /\ 3 \in 0 .. 7
    OBVIOUS
  <1> HIDE DEF e, o
  <1>3. ExtendedX1(e, 2) = Inst("SBC", <<R16("HL"), OpRp(p, "none")>>)
    BY <1>1 DEF ExtendedX1
  <1>4. ExtendedX1(o, 2) = Inst("ADC", <<R16("HL"), OpRp(p, "none")>>)
    BY <1>1 DEF ExtendedX1
  <1>5. ExtendedX1(e, 3) = Inst("LD", <<NNDeref, OpRp(p, "none")>>)
    BY <1>1 DEF ExtendedX1
  <1>6. ExtendedX1(o, 3) = Inst("LD", <<OpRp(p, "none"), NNDeref>>)
    BY <1>1 DEF ExtendedX1
  <1> QED
    BY <1>1, <1>2, <1>3, <1>4, <1>5, <1>6, CodeExtendedX1

LEMMA CodesReturnExtended ==
    /\ CodeExtended(\h44, "NEG", <<>>)
    /\ CodeExtended(\h45, "RETN", <<>>) /\ CodeExtended(\h4D, "RETI", <<>>)
    /\ CodeExtended(\h46, "IM", <<Im("0")>>) /\ CodeExtended(\h56, "IM", <<Im("1")>>)
    /\ CodeExtended(\h5E, "IM", <<Im("2")>>)
  <1>1. ExtendedX1(0, 4) = Inst("NEG", <<>>)
    BY DEF ExtendedX1, Plain
  <1>2. ExtendedX1(0, 5) = Inst("RETN", <<>>)
    BY DEF ExtendedX1, Plain
  <1>3. ExtendedX1(1, 5) = Inst("RETI", <<>>)
    BY DEF ExtendedX1, Plain
  <1>4. \A y \in 0 .. 7 : ExtendedX1(y, 6) = Inst("IM", <<Im(im_tab[(y % 4) + 1])>>)
    BY DEF ExtendedX1
  <1>5. im_tab[1] = "0" /\ im_tab[3] = "1" /\ im_tab[4] = "2"
    BY DEF im_tab
  <1>6. (0 % 4) + 1 = 1 /\ (2 % 4) + 1 = 3 /\ (3 % 4) + 1 = 4
    OBVIOUS
  <1>7. /\ ExtendedX1(0, 6) = Inst("IM", <<Im("0")>>)
        /\ ExtendedX1(2, 6) = Inst("IM", <<Im("1")>>)
        /\ ExtendedX1(3, 6) = Inst("IM", <<Im("2")>>)
    BY <1>4, <1>5, <1>6
  <1>8. /\ \h44 = 64 + 8 * 0 + 4 /\ \h45 = 64 + 8 * 0 + 5 /\ \h4D = 64 + 8 * 1 + 5
        /\ \h46 = 64 + 8 * 0 + 6 /\ \h56 = 64 + 8 * 2 + 6 /\ \h5E = 64 + 8 * 3 + 6
        /\ \A y \in {0, 1, 2, 3, 4, 5, 6} : y \in 0 .. 7
    OBVIOUS
  <1>9. CodeExtended(\h44, "NEG", <<>>)
    BY <1>1, <1>8, CodeExtendedX1
  <1>10. CodeExtended(\h45, "RETN", <<>>) /\ CodeExtended(\h4D, "RETI", <<>>)
    BY <1>2, <1>3, <1>8, CodeExtendedX1
  <1>11. CodeExtended(\h46, "IM", <<Im("0")>>) /\ CodeExtended(\h56, "IM", <<Im("1")>>)
         /\ CodeExtended(\h5E, "IM", <<Im("2")>>)
    BY <1>7, <1>8, CodeExtendedX1
  <1> QED
    BY <1>9, <1>10, <1>11

LEMMA CodesSpecial ==
    LET a == R8("A")
    IN /\ CodeExtended(\h47, "LD", <<R8("I"), a>>) /\ CodeExtended(\h4F, "LD", <<R8("R"), a>>)
       /\ CodeExtended(\h57, "LD", <<a, R8("I")>>)
       /\ CodeExtended(\h67, "RRD", <<>>) /\ CodeExtended(\h6F, "RLD", <<>>)
  <1> DEFINE a == R8("A")
             ld == Inst("LD", <<a, R8("I")>>)
             t == << Inst("LD", <<R8("I"), a>>), Inst("LD", <<R8("R"), a>>), ld, ld,
                     Plain("RRD"), Plain("RLD"), Plain("NOP"), Plain("NOP") >>
  <1>1. \A y \in 0 .. 7 : ExtendedX1(y, 7) = t[y + 1]
    BY DEF ExtendedX1, ExtendedByY
  <1>2. /\ t[1] = Inst("LD", <<R8("I"), a>>) /\ t[2] = Inst("LD", <<R8("R"), a>>)
        /\ t[3] = Inst("LD", <<a, R8("I")>>)
        /\ t[5] = Inst("RRD", <<>>) /\ t[6] = Inst("RLD", <<>>)
    BY DEF Plain
  <1> HIDE DEF t, a
  <1>3. /\ ExtendedX1(0, 7) = t[1] /\ ExtendedX1(1, 7) = t[2] /\ ExtendedX1(2, 7) = t[3]
        /\ ExtendedX1(4, 7) = t[5] /\ ExtendedX1(5, 7) = t[6]
    BY <1>1
  <1>4. /\ \h47 = 64 + 8 * 0 + 7 /\ \h4F = 64 + 8 * 1 + 7 /\ \h57 = 64 + 8 * 2 + 7
        /\ \h67 = 64 + 8 * 4 + 7 /\ \h6F = 64 + 8 * 5 + 7
        /\ \A y \in {0, 1, 2, 4, 5, 7} : y \in 0 .. 7
    OBVIOUS
  <1>5. CodeExtended(\h47, "LD", <<R8("I"), a>>) /\ CodeExtended(\h4F, "LD", <<R8("R"), a>>)
    BY <1>2, <1>3, <1>4, CodeExtendedX1
  <1>6. CodeExtended(\h57, "LD", <<a, R8("I")>>)
    BY <1>2, <1>3, <1>4, CodeExtendedX1
  <1>7. CodeExtended(\h67, "RRD", <<>>) /\ CodeExtended(\h6F, "RLD", <<>>)
    BY <1>2, <1>3, <1>4, CodeExtendedX1
  <1> QED
    BY <1>5, <1>6, <1>7 DEF a

\* Behind 0xCB: rotations, and the instructions of one bit.
bit_tab == <<"BIT", "RES", "SET">>

LEMMA CodesBit ==
    ASSUME NEW y \in 0 .. 7, NEW z \in 0 .. 7
    PROVE  /\ CodeBit(8 * y + z, rot_tab[y + 1], <<OpR(z, "none")>>)
           /\ \A x \in 1 .. 3 :
                  CodeBit(64 * x + 8 * y + z, bit_tab[x], <<Imm8(y), OpR(z, "none")>>)
  <1>1. ASSUME NEW d
        PROVE  Bit(0, y, z, "none", d) = Inst(rot_tab[y + 1], <<OpR(z, "none")>>)
    <2>1. <<>> \o <<OpR(z, "none")>> = <<OpR(z, "none")>>
      BY BehindOne
    <2> QED
      BY <2>1 DEF Bit
  <1>2. ASSUME NEW d, NEW x \in 1 .. 3
        PROVE  Bit(x, y, z, "none", d) = Inst(bit_tab[x], <<Imm8(y), OpR(z, "none")>>)
    <2>1. <<Imm8(y)>> \o <<OpR(z, "none")>> = <<Imm8(y), OpR(z, "none")>>
      BY BehindOne
    <2>2. x # 0
      OBVIOUS
    <2> QED
      BY <2>1, <2>2 DEF Bit, bit_tab
  <1>3. 8 * y + z = Fields(0, y, z) /\ 0 \in 0 .. 3
    BY DEF Fields
  <1>4. CodeBit(8 * y + z, rot_tab[y + 1], <<OpR(z, "none")>>)
    BY <1>1, <1>3 DEF CodeBit
  <1>5. ASSUME NEW x \in 1 .. 3
        PROVE  CodeBit(64 * x + 8 * y + z, bit_tab[x], <<Imm8(y), OpR(z, "none")>>)
    <2>1. 64 * x + 8 * y + z = Fields(x, y, z) /\ x \in 0 .. 3
      BY DEF Fields
    <2> QED
      BY <1>2, <2>1 DEF CodeBit
  <1> QED
    BY <1>4, <1>5

LEMMA CodesIndexedBit ==
    ASSUME NEW y \in 0 .. 7, NEW d
    PROVE  LET r == IndexRel("IX", Signed(d))
           IN /\ CodeIndexedBit(8 * y + 6, d, rot_tab[y + 1], <<r>>)
              /\ \A x \in 1 .. 3 :
                     CodeIndexedBit(64 * x + 8 * y + 6, d, bit_tab[x], <<Imm8(y), r>>)
  <1> DEFINE r == IndexRel("IX", Signed(d))
  <1>1. Bit(0, y, 6, "IX", Signed(d)) = Inst(rot_tab[y + 1], <<>> \o (<<r>> \o <<>>))
    BY DEF Bit
  <1>2. ASSUME NEW x \in 1 .. 3
        PROVE  Bit(x, y, 6, "IX", Signed(d)) = Inst(bit_tab[x], <<Imm8(y)>> \o (<<r>> \o <<>>))
    <2>1. x # 0
      OBVIOUS
    <2> QED
      BY <2>1 DEF Bit, bit_tab
  <1> HIDE DEF r
  <1>3. <<r>> \o <<>> = <<r>> /\ <<>> \o <<r>> = <<r>>
    OBVIOUS
  <1>4. <<Imm8(y)>> \o <<r>> = <<Imm8(y), r>>
    BY BehindOne
  <1>5. 8 * y + 6 = Fields(0, y, 6) /\ 0 \in 0 .. 3 /\ 6 \in 0 .. 7
    BY DEF Fields
  <1>6. CodeIndexedBit(8 * y + 6, d, rot_tab[y + 1], <<r>>)
    BY <1>1, <1>3, <1>5 DEF CodeIndexedBit
  <1>7. ASSUME NEW x \in 1 .. 3
        PROVE  CodeIndexedBit(64 * x + 8 * y + 6, d, bit_tab[x], <<Imm8(y), r>>)
    <2>1. 64 * x + 8 * y + 6 = Fields(x, y, 6) /\ x \in 0 .. 3 /\ 6 \in 0 .. 7
      BY DEF Fields
    <2>2. Bit(x, y, 6, "IX", Signed(d)) = Inst(bit_tab[x], <<Imm8(y), r>>)
      BY <1>2, <1>3, <1>4
    <2> QED
      BY <2>1, <2>2 DEF CodeIndexedBit
  <1> QED
    BY <1>6, <1>7 DEF r

-----------------------------------------------------------------------------
(***************************************************************************)
(* The groups of the reference.                                            *)
(***************************************************************************)
LEMMA BehindNone ==
    ASSUME NEW p, NEW q
    PROVE  <<p>> \o <<>> = <<p>> /\ <<p, q>> \o <<>> = <<p, q>>
  <1> DEFINE S == {p, q}
             s == <<p>>
             t == <<p, q>>
  <1>1. s \in Seq(S) /\ t \in Seq(S)
    OBVIOUS
  <1> HIDE DEF s, t, S
  <1>2. s \o <<>> = s /\ t \o <<>> = t
    BY <1>1, ConcatEmptySeq
  <1> QED
    BY <1>2 DEF s, t

LEMMA JoinedApart ==
    ASSUME NEW s \in Seq(Byte), NEW t \in Seq(Byte), NEW u \in Seq(Byte)
    PROVE  s \o t \o u = s \o (t \o u)
  BY ConcatAssociative

LEMMA CodeByte ==
    ASSUME NEW p, NEW idx, NEW m, NEW forms, Code(p, idx, m, forms)
    PROVE  p \in Byte
  <1>1. PICK x \in 0 .. 3, y \in 0 .. 7, z \in 0 .. 7 : p = Fields(x, y, z)
    BY Zenon DEF Code
  <1> QED
    BY <1>1, FieldsRead

\* Without a byte behind the opcode.
LEMMA ShownBare ==
    ASSUME NEW p, NEW m, NEW forms, Code(p, "none", m, forms),
           NEW ops, Gives(forms, <<>>, ops)
    PROVE  Shown(Asm(m, ops, <<p>>)) /\ Listed(Asm(m, ops, <<p>>))
  <1> DEFINE none == <<>>
  <1>1. none \in Seq(Byte) /\ Gives(forms, none, ops)
    BY BytesSeq
  <1>2. <<p>> \o none = <<p>>
    BY BehindNone
  <1> HIDE DEF none
  <1>3. Shown(Asm(m, ops, <<p>> \o none)) /\ Listed(Asm(m, ops, <<p>> \o none))
    BY <1>1, ShownPlain
  <1> QED
    BY <1>2, <1>3, Zenon

LEMMA ShownBareExtended ==
    ASSUME NEW p, NEW m, NEW forms, CodeExtended(p, m, forms),
           NEW ops, Gives(forms, <<>>, ops)
    PROVE  Shown(Asm(m, ops, <<\hED, p>>)) /\ Listed(Asm(m, ops, <<\hED, p>>))
  <1> DEFINE none == <<>>
             head == <<\hED, p>>
  <1>1. none \in Seq(Byte) /\ Gives(forms, none, ops)
    BY BytesSeq
  <1>2. head \o none = head
    BY BehindNone
  <1> HIDE DEF none
  <1>3. /\ Shown(Asm(m, ops, <<\hED, p>> \o none))
        /\ Listed(Asm(m, ops, <<\hED, p>> \o none))
    BY <1>1, ShownExtended
  <1>4. Shown(Asm(m, ops, head \o none)) /\ Listed(Asm(m, ops, head \o none))
    BY <1>3
  <1> HIDE DEF head
  <1>5. Shown(Asm(m, ops, head)) /\ Listed(Asm(m, ops, head))
    BY <1>2, <1>4
  <1> QED
    BY <1>5 DEF head

LEMMA ShownBareRegular ==
    ASSUME NEW idx \in Indices, NEW p, NEW m, NEW forms, Code(p, idx, m, forms),
           NEW ops, Gives(forms, <<>>, ops)
    PROVE  Shown(Asm(m, ops, Pre(idx) \o <<p>>))
  <1> DEFINE u == <<p>>
  <1>0. <<>> \in Seq(Byte)
    BY BytesSeq
  <1>1. Shown(Asm(m, ops, Pre(idx) \o u \o <<>>))
    BY <1>0, ShownRegular
  <1>2. Pre(idx) \in Seq(Byte) /\ u \in Seq(Byte)
    BY PreSeq, CodeByte, BytesSeq
  <1> HIDE DEF u
  <1>3. Pre(idx) \o u \o <<>> = Pre(idx) \o u
    BY <1>2, ConcatProperties, ConcatEmptySeq
  <1>4. Shown(Asm(m, ops, Pre(idx) \o u))
    BY <1>1, <1>3
  <1> QED
    BY <1>4 DEF u

\* With one byte behind it.
LEMMA ShownWithByte ==
    ASSUME NEW p, NEW m, NEW forms, Code(p, "none", m, forms),
           NEW n \in Byte, NEW ops, Gives(forms, <<n>>, ops)
    PROVE  Shown(Asm(m, ops, <<p, n>>))
  <1>1. Shown(Asm(m, ops, <<p>> \o <<n>>))
    BY ShownPlain, BytesSeq
  <1>2. <<p>> \o <<n>> = <<p, n>>
    BY BehindOne
  <1> QED
    BY <1>1, <1>2, Zenon

LEMMA GivenA == Given(A) /\ A = R8("A")
  BY GivenNamed DEF A

\* 8-bit loads.
LEMMA LoadFromPlace ==
    ASSUME NEW r \in DOMAIN Reg, NEW s \in Places
    PROVE  Shown(Asm("LD", <<R8(r), s.op>>, s.pre \o <<64 + 8 * Reg[r] + s.num>> \o s.post))
  <1> DEFINE y == Reg[r]
             z == s.num
             p == 64 + 8 * y + z
  <1>1. y \in 0 .. 7 /\ y # 6 /\ OpR(y, "none") = R8(r) /\ Given(R8(r))
    BY RegNumber, GivenReg
  <1>2. z \in 0 .. 7 /\ s.post \in Seq(Byte)
    BY PlaceMade
  <1>3. PICK idx \in Indices : /\ s.pre = Pre(idx) /\ Makes(OpR(z, idx), s.post, s.op)
                               /\ z = 6 \/ idx = "none"
    BY PlaceMade
  <1> HIDE DEF y, z
  <1>4. Code(p, idx, "LD", <<OpR(y, IF z = 6 THEN "none" ELSE idx), OpR(z, idx)>>)
    BY <1>1, <1>2, CodesLoad
  <1>5. (IF z = 6 THEN "none" ELSE idx) = "none"
    BY <1>3
  <1> HIDE DEF p
  <1>6. Code(p, idx, "LD", <<R8(r), OpR(z, idx)>>)
    BY <1>1, <1>4, <1>5
  <1>7. Gives(<<R8(r), OpR(z, idx)>>, s.post, <<R8(r), s.op>>)
    BY <1>1, <1>2, <1>3, GivesGivenFirst
  <1>8. Shown(Asm("LD", <<R8(r), s.op>>, Pre(idx) \o <<p>> \o s.post))
    BY <1>2, <1>6, <1>7, ShownRegular
  <1> QED
    BY <1>3, <1>8 DEF p, y, z

LEMMA LoadToMemory ==
    ASSUME NEW t \in InMemory, NEW r \in DOMAIN Reg
    PROVE  Shown(Asm("LD", <<t.op, R8(r)>>, t.pre \o <<112 + Reg[r]>> \o t.post))
  <1> DEFINE y == 6
             z == Reg[r]
             p == 64 + 8 * y + z
             q == 112 + z
  <1>1. z \in 0 .. 7 /\ z # 6 /\ OpR(z, "none") = R8(r) /\ Given(R8(r))
    BY RegNumber, GivenReg
  <1>2. t.num = 6 /\ t \in Places
    BY MemoryNumber
  <1>3. t.post \in Seq(Byte)
    BY <1>2, PlaceMade
  <1>4. PICK idx \in Indices : t.pre = Pre(idx) /\ Makes(OpR(y, idx), t.post, t.op)
    BY <1>2, PlaceMade
  <1>0. p = q /\ y \in 0 .. 7 /\ (IF y = 6 THEN "none" ELSE idx) = "none"
    BY <1>1
  <1> HIDE DEF y, z
  <1>5. Code(p, idx, "LD", <<OpR(y, idx), OpR(z, IF y = 6 THEN "none" ELSE idx)>>)
    BY <1>0, <1>1, CodesLoad
  <1> HIDE DEF p, q
  <1>7. Code(q, idx, "LD", <<OpR(y, idx), R8(r)>>)
    BY <1>0, <1>1, <1>5
  <1>8. Gives(<<OpR(y, idx), R8(r)>>, t.post, <<t.op, R8(r)>>)
    BY <1>1, <1>3, <1>4, GivesGivenFirst
  <1>9. Shown(Asm("LD", <<t.op, R8(r)>>, Pre(idx) \o <<q>> \o t.post))
    BY <1>3, <1>7, <1>8, ShownRegular
  <1> QED
    BY <1>4, <1>9 DEF q, z

LEMMA LoadImmediate ==
    ASSUME NEW t \in Places, NEW n \in ByteArgs
    PROVE  ShownAs(TRUE, Asm("LD", <<t.op, Imm8(n)>>,
                     t.pre \o <<6 + 8 * t.num>> \o t.post \o <<n>>))
  <1> DEFINE y == t.num
             p == 6 + 8 * y
             u == <<n>>
             s == <<p>>
  <1>1. n \in Byte
    BY InstructionSetAssumption
  <1>2. u \in Seq(Byte) /\ MakesAs(TRUE, N, u, Imm8(n))
    BY <1>1, BytesSeq, MakesOneByte
  <1>3. y \in 0 .. 7 /\ t.post \in Seq(Byte)
    BY PlaceMade
  <1>4. PICK idx \in Indices : t.pre = Pre(idx) /\ Makes(OpR(y, idx), t.post, t.op)
    BY PlaceMade
  <1> HIDE DEF y, u
  <1>5. Code(p, idx, "LD", <<OpR(y, idx), N>>)
    BY <1>3, CodesOneRegister
  <1> HIDE DEF p
  <1>6. GivesAs(TRUE, <<OpR(y, idx), N>>, t.post \o u, <<t.op, Imm8(n)>>)
    BY <1>2, <1>3, <1>4, GivesTwoAs
  <1>7. t.post \o u \in Seq(Byte)
    BY <1>2, <1>3, ConcatProperties
  <1>8. ShownAs(TRUE, Asm("LD", <<t.op, Imm8(n)>>, Pre(idx) \o <<p>> \o (t.post \o u)))
    BY <1>5, <1>6, <1>7, ShownRegularAs
  <1>9. Pre(idx) \in Seq(Byte) /\ s \in Seq(Byte)
    BY <1>5, CodeByte, BytesSeq, PreSeq
  <1>10. ShownAs(TRUE, Asm("LD", <<t.op, Imm8(n)>>, Pre(idx) \o s \o (t.post \o u)))
    BY <1>8
  <1> HIDE DEF s
  <1> DEFINE h == Pre(idx) \o s
  <1>11. h \in Seq(Byte)
    BY <1>9, ConcatProperties
  <1> HIDE DEF h
  <1>12. h \o t.post \o u = h \o (t.post \o u)
    BY <1>2, <1>3, <1>11, JoinedApart
  <1>13. ShownAs(TRUE, Asm("LD", <<t.op, Imm8(n)>>, t.pre \o s \o t.post \o u))
    BY <1>4, <1>10, <1>12 DEF h
  <1> QED
    BY <1>13 DEF s, p, y, u

LEMMA LoadAccumulator ==
    /\ Shown(Asm("LD", <<A, R16Deref("BC")>>, <<\h0A>>))
    /\ Shown(Asm("LD", <<A, R16Deref("DE")>>, <<\h1A>>))
    /\ Shown(Asm("LD", <<R16Deref("BC"), A>>, <<\h02>>))
    /\ Shown(Asm("LD", <<R16Deref("DE"), A>>, <<\h12>>))
    /\ Shown(Asm("LD", <<A, R8("I")>>, <<\hED, \h57>>))
    /\ Shown(Asm("LD", <<A, R8("R")>>, <<\hED, \h5F>>))
    /\ Shown(Asm("LD", <<R8("I"), A>>, <<\hED, \h47>>))
    /\ Shown(Asm("LD", <<R8("R"), A>>, <<\hED, \h4F>>))
  <1>1. /\ Given(A) /\ Given(R16Deref("BC")) /\ Given(R16Deref("DE"))
        /\ Given(R8("I")) /\ Given(R8("R"))
    BY GivenA, GivenNamed
  <1>2. /\ Code(\h0A, "none", "LD", <<A, R16Deref("BC")>>)
        /\ Code(\h1A, "none", "LD", <<A, R16Deref("DE")>>)
        /\ Code(\h02, "none", "LD", <<R16Deref("BC"), A>>)
        /\ CodeExtended(\h57, "LD", <<A, R8("I")>>)
        /\ CodeExtended(\h47, "LD", <<R8("I"), A>>)
        /\ CodeExtended(\h4F, "LD", <<R8("R"), A>>)
    BY GivenA, CodesIndirect, CodesSpecial
  <1>3. /\ Shown(Asm("LD", <<A, R16Deref("BC")>>, <<\h0A>>))
        /\ Shown(Asm("LD", <<A, R16Deref("DE")>>, <<\h1A>>))
        /\ Shown(Asm("LD", <<R16Deref("BC"), A>>, <<\h02>>))
    BY <1>1, <1>2, GivesGivenTwo, ShownBare
  <1>4. Shown(Asm("LD", <<A, R8("I")>>, <<\hED, \h57>>))
    <2>1. Gives(<<A, R8("I")>>, <<>>, <<A, R8("I")>>)
      BY <1>1, GivesGivenTwo
    <2> QED
      BY <1>2, <2>1, ShownBareExtended
  <1>5. Shown(Asm("LD", <<R8("I"), A>>, <<\hED, \h47>>))
    <2>1. Gives(<<R8("I"), A>>, <<>>, <<R8("I"), A>>)
      BY <1>1, GivesGivenTwo
    <2> QED
      BY <1>2, <2>1, ShownBareExtended
  <1>6. Shown(Asm("LD", <<R8("R"), A>>, <<\hED, \h4F>>))
    <2>1. Gives(<<R8("R"), A>>, <<>>, <<R8("R"), A>>)
      BY <1>1, GivesGivenTwo
    <2> QED
      BY <1>2, <2>1, ShownBareExtended
  <1>7. /\ Asm("LD", <<R16Deref("DE"), A>>, <<\h12>>) \in SingleSlips
        /\ Asm("LD", <<A, R8("R")>>, <<\hED, \h5F>>) \in SingleSlips
    BY Zenon DEF SingleSlips
  <1>8. /\ Shown(Asm("LD", <<R16Deref("DE"), A>>, <<\h12>>))
        /\ Shown(Asm("LD", <<A, R8("R")>>, <<\hED, \h5F>>))
    BY <1>7, ShownSlip
  <1> QED
    BY <1>3, <1>4, <1>5, <1>6, <1>8

LEMMA LoadAbsolute ==
    ASSUME NEW w \in Words
    PROVE  /\ Shown(Asm("LD", <<A, Imm16Deref(Val(w))>>, <<\h3A>> \o w))
           /\ Shown(Asm("LD", <<Imm16Deref(Val(w)), A>>, <<\h32>> \o w))
  <1>1. /\ Code(\h3A, "none", "LD", <<A, NNDeref>>)
        /\ Code(\h32, "none", "LD", <<NNDeref, A>>)
    BY GivenA, CodesIndirect
  <1>2. /\ Gives(<<A, NNDeref>>, w, <<A, Imm16Deref(Val(w))>>)
        /\ Gives(<<NNDeref, A>>, w, <<Imm16Deref(Val(w)), A>>)
    BY GivenA, WordSeq, GivesGivenFirst
  <1> QED
    BY <1>1, <1>2, WordSeq, ShownPlain

LEMMA Load8Shown == \A i \in Load8 : i \in LoadByte \/ Shown(i)
  <1> DEFINE From(r, s) ==
                Asm("LD", <<R8(r), s.op>>, s.pre \o <<64 + 8 * Reg[r] + s.num>> \o s.post)
             To(t, r) == Asm("LD", <<t.op, R8(r)>>, t.pre \o <<112 + Reg[r]>> \o t.post)
             acc == {Asm("LD", <<A, R16Deref("BC")>>, <<\h0A>>),
                     Asm("LD", <<A, R16Deref("DE")>>, <<\h1A>>),
                     Asm("LD", <<R16Deref("BC"), A>>, <<\h02>>),
                     Asm("LD", <<R16Deref("DE"), A>>, <<\h12>>),
                     Asm("LD", <<A, R8("I")>>, <<\hED, \h57>>),
                     Asm("LD", <<A, R8("R")>>, <<\hED, \h5F>>),
                     Asm("LD", <<R8("I"), A>>, <<\hED, \h47>>),
                     Asm("LD", <<R8("R"), A>>, <<\hED, \h4F>>)}
             Read(w) == Asm("LD", <<A, Imm16Deref(Val(w))>>, <<\h3A>> \o w)
             Written(w) == Asm("LD", <<Imm16Deref(Val(w)), A>>, <<\h32>> \o w)
  <1>1. \A r \in DOMAIN Reg, s \in Places : Shown(From(r, s))
    BY LoadFromPlace
  <1>2. \A t \in InMemory, r \in DOMAIN Reg : Shown(To(t, r))
    BY LoadToMemory
  <1>4. \A i \in acc : Shown(i)
    BY LoadAccumulator
  <1>5. \A w \in Words : Shown(Read(w)) /\ Shown(Written(w))
    BY LoadAbsolute
  <1>6. Load8 = LoadByte
                  \cup {From(r, s) : r \in DOMAIN Reg, s \in Places}
                  \cup {To(t, r) : t \in InMemory, r \in DOMAIN Reg}
                  \cup acc
                  \cup {Read(w) : w \in Words} \cup {Written(w) : w \in Words}
    BY DEF Load8
  <1> HIDE DEF From, To, acc, Read, Written
  <1> QED
    BY <1>1, <1>2, <1>4, <1>5, <1>6

\* 16-bit loads.
LEMMA WideNumber ==
    ASSUME NEW i \in Wides
    PROVE  \E idx \in Indices :
               /\ i.pre = Pre(idx) /\ Given(R16(i.name)) /\ OpHlOrIndex(idx) = R16(i.name)
               /\ OpRp(2, idx) = R16(i.name) /\ OpRp2(2, idx) = R16(i.name)
  <1>1. PICK idx \in Indices : /\ i.pre = Pre(idx) /\ i.name = Wide[idx]
                               /\ OpHlOrIndex(idx) = R16(i.name) /\ Given(R16(i.name))
    BY WideMade
  <1>2. rp_tab[2 + 1] = "HL" /\ rp2_tab[2 + 1] = "HL"
    BY DEF rp_tab, rp2_tab
  <1>3. OpRp(2, idx) = R16(i.name) /\ OpRp2(2, idx) = R16(i.name)
    BY <1>1, <1>2 DEF OpRp, OpRp2, OpPair
  <1> QED
    BY <1>1, <1>3

LEMMA LoadWide ==
    ASSUME NEW i \in Wides, NEW w \in Words
    PROVE  /\ Shown(Asm("LD", <<R16(i.name), Imm16(Val(w))>>, i.pre \o <<\h21>> \o w))
           /\ Shown(Asm("LD", <<R16(i.name), Imm16Deref(Val(w))>>, i.pre \o <<\h2A>> \o w))
           /\ Shown(Asm("LD", <<Imm16Deref(Val(w)), R16(i.name)>>, i.pre \o <<\h22>> \o w))
  <1> DEFINE op == R16(i.name)
  <1>1. PICK idx \in Indices : /\ i.pre = Pre(idx) /\ Given(op)
                               /\ OpHlOrIndex(idx) = op /\ OpRp(2, idx) = op
    BY WideNumber
  <1>2. 1 + 16 * 2 = \h21 /\ 2 \in 0 .. 3
    OBVIOUS
  <1>3. Code(1 + 16 * 2, idx, "LD", <<OpRp(2, idx), NN>>)
    BY <1>2, CodesRp
  <1>4. /\ Code(\h2A, idx, "LD", <<OpHlOrIndex(idx), NNDeref>>)
        /\ Code(\h22, idx, "LD", <<NNDeref, OpHlOrIndex(idx)>>)
    BY CodesIndirect
  <1> HIDE DEF op
  <1>5. /\ Code(\h21, idx, "LD", <<op, NN>>) /\ Code(\h2A, idx, "LD", <<op, NNDeref>>)
        /\ Code(\h22, idx, "LD", <<NNDeref, op>>)
    BY <1>1, <1>2, <1>3, <1>4
  <1>6. /\ Gives(<<op, NN>>, w, <<op, Imm16(Val(w))>>)
        /\ Gives(<<op, NNDeref>>, w, <<op, Imm16Deref(Val(w))>>)
        /\ Gives(<<NNDeref, op>>, w, <<Imm16Deref(Val(w)), op>>)
    BY <1>1, WordSeq, GivesGivenFirst
  <1>7. /\ Shown(Asm("LD", <<op, Imm16(Val(w))>>, Pre(idx) \o <<\h21>> \o w))
        /\ Shown(Asm("LD", <<op, Imm16Deref(Val(w))>>, Pre(idx) \o <<\h2A>> \o w))
        /\ Shown(Asm("LD", <<Imm16Deref(Val(w)), op>>, Pre(idx) \o <<\h22>> \o w))
    BY <1>5, <1>6, WordSeq, ShownRegular
  <1> QED
    BY <1>1, <1>7 DEF op

LEMMA LoadPair ==
    ASSUME NEW p \in DOMAIN Pair, NEW w \in Words
    PROVE  /\ Shown(Asm("LD", <<R16(p), Imm16(Val(w))>>, <<1 + 16 * Pair[p]>> \o w))
           /\ Shown(Asm("LD", <<R16(p), Imm16Deref(Val(w))>>, <<\hED, \h4B + 16 * Pair[p]>> \o w))
           /\ Shown(Asm("LD", <<Imm16Deref(Val(w)), R16(p)>>, <<\hED, \h43 + 16 * Pair[p]>> \o w))
  <1> DEFINE op == R16(p)
             k == Pair[p]
             imm == 1 + 16 * k
             rd == \h4B + 16 * k
             wr == \h43 + 16 * k
  <1>1. k \in 0 .. 3 /\ OpRp(k, "none") = op /\ Given(op)
    BY PairNumber DEF Indices
  <1> HIDE DEF k
  <1>2. /\ Code(imm, "none", "LD", <<OpRp(k, "none"), NN>>)
        /\ CodeExtended(rd, "LD", <<OpRp(k, "none"), NNDeref>>)
        /\ CodeExtended(wr, "LD", <<NNDeref, OpRp(k, "none")>>)
    BY <1>1, CodesRp, CodesWide
  <1> HIDE DEF op, imm, rd, wr
  <1>3. /\ Gives(<<op, NN>>, w, <<op, Imm16(Val(w))>>)
        /\ Gives(<<op, NNDeref>>, w, <<op, Imm16Deref(Val(w))>>)
        /\ Gives(<<NNDeref, op>>, w, <<Imm16Deref(Val(w)), op>>)
    BY <1>1, WordSeq, GivesGivenFirst
  <1>4. Shown(Asm("LD", <<op, Imm16(Val(w))>>, <<imm>> \o w))
    BY <1>1, <1>2, <1>3, WordSeq, ShownPlain
  <1>5. Shown(Asm("LD", <<op, Imm16Deref(Val(w))>>, <<\hED, rd>> \o w))
    BY <1>1, <1>2, <1>3, WordSeq, ShownExtended
  <1>6. Shown(Asm("LD", <<Imm16Deref(Val(w)), op>>, <<\hED, wr>> \o w))
    BY <1>1, <1>2, <1>3, WordSeq, ShownExtended
  <1> QED
    BY <1>4, <1>5, <1>6 DEF op, imm, rd, wr, k

\* JP and LD SP, of which only the form with hl is as documented.
LEMMA WideSlips ==
    ASSUME NEW i \in Wides, NEW p \in Byte, NEW m, NEW ops,
           i.name = "HL" => Shown(Asm(m, ops, <<p>>)),
           i.name = "IX" => Asm(m, ops, <<\hDD, p>>) \in SingleSlips
    PROVE  Shown(Asm(m, ops, i.pre \o <<p>>))
  <1>1. \/ (i.name = "HL" /\ i.pre = <<>>) \/ (i.name = "IX" /\ i.pre = <<\hDD>>)
        \/ i.pre = <<\hFD>>
    BY DEF Wides, Prefix
  <1>2. CASE i.name = "HL" /\ i.pre = <<>>
    BY <1>2, BehindOne
  <1>3. CASE i.name = "IX" /\ i.pre = <<\hDD>>
    <2>0. <<\hDD>> \o <<p>> = <<\hDD, p>>
      BY JoinedOne
    <2>1. i.pre \o <<p>> = <<\hDD, p>>
      BY <1>3, <2>0
    <2> QED
      BY <1>3, <2>1, ShownSlip
  <1>4. CASE i.pre = <<\hFD>>
    <2> DEFINE fd == <<\hFD>>
               u == <<p>>
    <2>1. fd \in Seq(Byte) /\ Len(fd) = 1 /\ u \in Seq(Byte) /\ Len(u) = 1
      BY PrefixBytes, BytesSeq
    <2>2. fd[1] = \hFD
      OBVIOUS
    <2> HIDE DEF fd, u
    <2>3. Shown(Asm(m, ops, fd \o u))
      BY <2>1, <2>2, ShownSlipBytes
    <2> QED
      BY <1>4, <2>3 DEF fd, u
  <1> QED
    BY <1>1, <1>2, <1>3, <1>4

LEMMA LoadStackPointer ==
    ASSUME NEW i \in Wides
    PROVE  Shown(Asm("LD", <<R16("SP"), R16(i.name)>>, i.pre \o <<\hF9>>))
  <1> DEFINE ops == <<R16("SP"), R16(i.name)>>
  <1>1. ASSUME i.name = "HL"
        PROVE  Shown(Asm("LD", ops, <<\hF9>>))
    <2>1. Code(\hF9, "none", "LD", <<R16("SP"), R16("HL")>>)
      BY CodesReturn
    <2>2. Gives(<<R16("SP"), R16("HL")>>, <<>>, <<R16("SP"), R16("HL")>>)
      BY GivenNamed, GivesGivenTwo
    <2>3. Shown(Asm("LD", <<R16("SP"), R16("HL")>>, <<\hF9>>))
      BY <2>1, <2>2, ShownBare
    <2> QED
      BY <1>1, <2>3
  <1>2. ASSUME i.name = "IX"
        PROVE  Asm("LD", ops, <<\hDD, \hF9>>) \in SingleSlips
    <2>1. Asm("LD", <<R16("SP"), R16("IX")>>, <<\hDD, \hF9>>) \in SingleSlips
      BY DEF SingleSlips
    <2> QED
      BY <1>2, <2>1
  <1>4. \hF9 \in Byte
    BY DEF Byte
  <1> HIDE DEF ops
  <1>3. Shown(Asm("LD", ops, i.pre \o <<\hF9>>))
    BY <1>1, <1>2, <1>4, WideSlips
  <1> QED
    BY <1>3 DEF ops

LEMMA StackWide ==
    ASSUME NEW i \in Wides
    PROVE  /\ Shown(Asm("PUSH", <<R16(i.name)>>, i.pre \o <<\hE5>>))
           /\ Shown(Asm("POP", <<R16(i.name)>>, i.pre \o <<\hE1>>))
  <1> DEFINE op == R16(i.name)
  <1>1. PICK idx \in Indices : i.pre = Pre(idx) /\ Given(op) /\ OpRp2(2, idx) = op
    BY WideNumber
  <1> DEFINE k == 2
  <1>2. \hC1 + 16 * k = \hE1 /\ \hC5 + 16 * k = \hE5 /\ k \in 0 .. 3 /\ OpRp2(k, idx) = op
    BY <1>1
  <1> HIDE DEF op, k
  <1>3. /\ Code(\hC1 + 16 * k, idx, "POP", <<OpRp2(k, idx)>>)
        /\ Code(\hC5 + 16 * k, idx, "PUSH", <<OpRp2(k, idx)>>)
    BY <1>2, CodesStack
  <1>4. Code(\hE1, idx, "POP", <<op>>) /\ Code(\hE5, idx, "PUSH", <<op>>)
    BY <1>1, <1>2, <1>3
  <1>5. Gives(<<op>>, <<>>, <<op>>)
    BY <1>1, GivesGiven
  <1>6. Shown(Asm("PUSH", <<op>>, Pre(idx) \o <<\hE5>>))
    BY <1>4, <1>5, ShownBareRegular
  <1>7. Shown(Asm("POP", <<op>>, Pre(idx) \o <<\hE1>>))
    BY <1>4, <1>5, ShownBareRegular
  <1> QED
    BY <1>1, <1>6, <1>7 DEF op

LEMMA StackPair ==
    ASSUME NEW p \in DOMAIN Stacked
    PROVE  /\ Shown(Asm("PUSH", <<R16(p)>>, <<\hC5 + 16 * Stacked[p]>>))
           /\ Shown(Asm("POP", <<R16(p)>>, <<\hC1 + 16 * Stacked[p]>>))
  <1> DEFINE op == R16(p)
             k == Stacked[p]
             push == \hC5 + 16 * k
             pop == \hC1 + 16 * k
  <1>1. k \in 0 .. 3 /\ OpRp2(k, "none") = op /\ Given(op)
    BY StackedNumber
  <1> HIDE DEF k
  <1>2. /\ Code(push, "none", "PUSH", <<OpRp2(k, "none")>>)
        /\ Code(pop, "none", "POP", <<OpRp2(k, "none")>>)
    BY <1>1, CodesStack
  <1> HIDE DEF op, push, pop
  <1>3. Gives(<<op>>, <<>>, <<op>>)
    BY <1>1, GivesGiven
  <1>4. Shown(Asm("PUSH", <<op>>, <<push>>)) /\ Shown(Asm("POP", <<op>>, <<pop>>))
    BY <1>1, <1>2, <1>3, ShownBare
  <1> QED
    BY <1>4 DEF op, push, pop, k

LEMMA Load16Shown == \A i \in Load16 : Shown(i)
  <1> DEFINE WideImm(i, w) ==
                Asm("LD", <<R16(i.name), Imm16(Val(w))>>, i.pre \o <<\h21>> \o w)
             PairImm(p, w) == Asm("LD", <<R16(p), Imm16(Val(w))>>, <<1 + 16 * Pair[p]>> \o w)
             WideRead(i, w) ==
                Asm("LD", <<R16(i.name), Imm16Deref(Val(w))>>, i.pre \o <<\h2A>> \o w)
             WideWritten(i, w) ==
                Asm("LD", <<Imm16Deref(Val(w)), R16(i.name)>>, i.pre \o <<\h22>> \o w)
             PairRead(p, w) ==
                Asm("LD", <<R16(p), Imm16Deref(Val(w))>>, <<\hED, \h4B + 16 * Pair[p]>> \o w)
             PairWritten(p, w) ==
                Asm("LD", <<Imm16Deref(Val(w)), R16(p)>>, <<\hED, \h43 + 16 * Pair[p]>> \o w)
             Pointer(i) == Asm("LD", <<R16("SP"), R16(i.name)>>, i.pre \o <<\hF9>>)
             Wide1(i) == Asm("PUSH", <<R16(i.name)>>, i.pre \o <<\hE5>>)
             Wide2(i) == Asm("POP", <<R16(i.name)>>, i.pre \o <<\hE1>>)
             Pair1(p) == Asm("PUSH", <<R16(p)>>, <<\hC5 + 16 * Stacked[p]>>)
             Pair2(p) == Asm("POP", <<R16(p)>>, <<\hC1 + 16 * Stacked[p]>>)
  <1>1. \A i \in Wides, w \in Words :
            Shown(WideImm(i, w)) /\ Shown(WideRead(i, w)) /\ Shown(WideWritten(i, w))
    BY LoadWide
  <1>2. \A p \in DOMAIN Pair, w \in Words :
            Shown(PairImm(p, w)) /\ Shown(PairRead(p, w)) /\ Shown(PairWritten(p, w))
    BY LoadPair
  <1>3. \A i \in Wides : Shown(Pointer(i)) /\ Shown(Wide1(i)) /\ Shown(Wide2(i))
    BY LoadStackPointer, StackWide
  <1>4. \A p \in DOMAIN Stacked : Shown(Pair1(p)) /\ Shown(Pair2(p))
    BY StackPair
  <1>5. Load16 = {WideImm(i, w) : i \in Wides, w \in Words}
                   \cup {PairImm(p, w) : p \in DOMAIN Pair, w \in Words}
                   \cup {WideRead(i, w) : i \in Wides, w \in Words}
                   \cup {WideWritten(i, w) : i \in Wides, w \in Words}
                   \cup {PairRead(p, w) : p \in DOMAIN Pair, w \in Words}
                   \cup {PairWritten(p, w) : p \in DOMAIN Pair, w \in Words}
                   \cup {Pointer(i) : i \in Wides}
                   \cup (UNION {{Wide1(i), Wide2(i)} : i \in Wides})
                   \cup (UNION {{Pair1(p), Pair2(p)} : p \in DOMAIN Stacked})
    BY DEF Load16
  <1> HIDE DEF WideImm, PairImm, WideRead, WideWritten, PairRead, PairWritten,
               Pointer, Wide1, Wide2, Pair1, Pair2
  <1> DEFINE loads == {WideImm(i, w) : i \in Wides, w \in Words}
                        \cup {PairImm(p, w) : p \in DOMAIN Pair, w \in Words}
                        \cup {WideRead(i, w) : i \in Wides, w \in Words}
                        \cup {WideWritten(i, w) : i \in Wides, w \in Words}
                        \cup {PairRead(p, w) : p \in DOMAIN Pair, w \in Words}
                        \cup {PairWritten(p, w) : p \in DOMAIN Pair, w \in Words}
                        \cup {Pointer(i) : i \in Wides}
             wide == UNION {{Wide1(i), Wide2(i)} : i \in Wides}
             pair == UNION {{Pair1(p), Pair2(p)} : p \in DOMAIN Stacked}
  <1>6. \A i \in loads : Shown(i)
    BY <1>1, <1>2, <1>3
  <1>7. (\A i \in wide : Shown(i)) /\ \A i \in pair : Shown(i)
    BY <1>3, <1>4
  <1>8. Load16 = loads \cup wide \cup pair
    BY <1>5
  <1> HIDE DEF loads, wide, pair
  <1> QED
    BY <1>6, <1>7, <1>8

\* Exchanges, and the block instructions, which are slips.
LEMMA ExchangeStack ==
    ASSUME NEW i \in Wides
    PROVE  Shown(Asm("EX", <<R16Deref("SP"), R16(i.name)>>, i.pre \o <<\hE3>>))
  <1> DEFINE op == R16(i.name)
             sp == R16Deref("SP")
  <1>1. PICK idx \in Indices : i.pre = Pre(idx) /\ Given(op) /\ OpHlOrIndex(idx) = op
    BY WideNumber
  <1>2. Code(\hE3, idx, "EX", <<sp, OpHlOrIndex(idx)>>)
    BY CodesMixed
  <1>3. Given(sp)
    BY GivenNamed
  <1> HIDE DEF op, sp
  <1>4. Code(\hE3, idx, "EX", <<sp, op>>)
    BY <1>1, <1>2
  <1>5. Gives(<<sp, op>>, <<>>, <<sp, op>>)
    BY <1>1, <1>3, GivesGivenTwo
  <1>6. Shown(Asm("EX", <<sp, op>>, Pre(idx) \o <<\hE3>>))
    BY <1>4, <1>5, ShownBareRegular
  <1> QED
    BY <1>1, <1>6 DEF op, sp

LEMMA Exchanges ==
    /\ Shown(Asm("EX", <<R16("DE"), R16("HL")>>, <<\hEB>>))
    /\ Shown(Asm("EX", <<R16("AF"), AfShadow>>, <<\h08>>))
    /\ Shown(Asm("EXX", <<>>, <<\hD9>>))
  <1>1. Code(\hEB, "none", "EX", <<R16("DE"), R16("HL")>>)
    BY CodesMixed
  <1>6. Code(\hD9, "none", "EXX", <<>>)
    BY CodesReturn
  <1>2. Gives(<<R16("DE"), R16("HL")>>, <<>>, <<R16("DE"), R16("HL")>>)
    BY GivenNamed, GivesGivenTwo
  <1>3. Asm("EX", <<R16("AF"), AfShadow>>, <<\h08>>) \in SingleSlips
    BY Zenon DEF SingleSlips
  <1>4. Shown(Asm("EX", <<R16("DE"), R16("HL")>>, <<\hEB>>))
    BY <1>1, <1>2, ShownBare
  <1>5. Shown(Asm("EXX", <<>>, <<\hD9>>))
    BY <1>6, GivesNone, ShownBare
  <1> QED
    BY <1>3, <1>4, <1>5, ShownSlip

LEMMA ExchangeAndBlockShown == \A i \in ExchangeAndBlock : Shown(i)
  <1> DEFINE Stack(i) == Asm("EX", <<R16Deref("SP"), R16(i.name)>>, i.pre \o <<\hE3>>)
             ex == {Asm("EX", <<R16("DE"), R16("HL")>>, <<\hEB>>),
                    Asm("EX", <<R16("AF"), AfShadow>>, <<\h08>>),
                    Asm("EXX", <<>>, <<\hD9>>)}
  <1>1. ExchangeAndBlock = ex \cup {Stack(i) : i \in Wides} \cup Block
    BY DEF ExchangeAndBlock
  <1>2. \A i \in Block : Shown(i)
    BY ShownSlip
  <1>3. \A i \in Wides : Shown(Stack(i))
    BY ExchangeStack
  <1>4. \A i \in ex : Shown(i)
    BY Exchanges
  <1> HIDE DEF Stack, ex
  <1> QED
    BY <1>1, <1>2, <1>3, <1>4

\* The CPU's own.
LEMMA ControlShown == \A i \in Control : Shown(i)
  <1>1. \A p, m : Code(p, "none", m, <<>>) => Shown(Asm(m, <<>>, <<p>>))
    BY GivesNone, ShownBare
  <1>2. /\ Shown(Asm("DAA", <<>>, <<\h27>>)) /\ Shown(Asm("CPL", <<>>, <<\h2F>>))
        /\ Shown(Asm("CCF", <<>>, <<\h3F>>)) /\ Shown(Asm("SCF", <<>>, <<\h37>>))
    BY <1>1, CodesAccumulator
  <1>3. 6 \in 0 .. 7
    OBVIOUS
  <1>4. Shown(Asm("NOP", <<>>, <<0>>)) /\ Shown(Asm("HALT", <<>>, <<\h76>>))
    BY <1>1, <1>3, CodesJr, CodesLoad
  <1>5. Shown(Asm("DI", <<>>, <<\hF3>>)) /\ Shown(Asm("EI", <<>>, <<\hFB>>))
    BY <1>1, CodesMixed
  <1>6. Shown(Asm("NEG", <<>>, <<\hED, \h44>>))
    BY GivesNone, CodesReturnExtended, ShownBareExtended
  <1>7. \A op : Given(op) => Gives(<<op>>, <<>>, <<op>>)
    BY GivesGiven
  <1>8. Given(Im("0")) /\ Given(Im("1")) /\ Given(Im("2"))
    BY DEF Given, OperandOK, Im, im_tab
  <1>9. Shown(Asm("IM", <<Im("0")>>, <<\hED, \h46>>))
    BY <1>7, <1>8, CodesReturnExtended, ShownBareExtended
  <1>10. Shown(Asm("IM", <<Im("1")>>, <<\hED, \h56>>))
    BY <1>7, <1>8, CodesReturnExtended, ShownBareExtended
  <1>11. Shown(Asm("IM", <<Im("2")>>, <<\hED, \h5E>>))
    BY <1>7, <1>8, CodesReturnExtended, ShownBareExtended
  <1> QED
    BY <1>2, <1>4, <1>5, <1>6, <1>9, <1>10, <1>11 DEF Control

\* Input and output.
LEMMA InOutByte ==
    ASSUME NEW n \in ByteArgs
    PROVE  /\ Shown(Asm("IN", <<A, Imm8Deref(n)>>, <<\hDB, n>>))
           /\ Shown(Asm("OUT", <<Imm8Deref(n), A>>, <<\hD3, n>>))
  <1>1. n \in Byte
    BY InstructionSetAssumption
  <1>2. /\ Gives(<<A, NDeref>>, <<n>>, <<A, Imm8Deref(n)>>)
        /\ Gives(<<NDeref, A>>, <<n>>, <<Imm8Deref(n), A>>)
    BY <1>1, GivenA, MakesOneByte, BytesSeq, GivesGivenFirst
  <1>3. Code(\hDB, "none", "IN", <<A, NDeref>>) /\ Code(\hD3, "none", "OUT", <<NDeref, A>>)
    BY CodesMixed, GivenA
  <1> QED
    BY <1>1, <1>2, <1>3, ShownWithByte

LEMMA InOutRegister ==
    ASSUME NEW r \in DOMAIN Reg
    PROVE  /\ Shown(Asm("IN", <<R8(r), R8Deref("C")>>, <<\hED, \h40 + 8 * Reg[r]>>))
           /\ Shown(Asm("OUT", <<R8Deref("C"), R8(r)>>, <<\hED, \h41 + 8 * Reg[r]>>))
  <1> DEFINE y == Reg[r]
             c == R8Deref("C")
             op == R8(r)
             in == \h40 + 8 * y
             out == \h41 + 8 * y
  <1>1. y \in 0 .. 7 /\ y # 6 /\ OpR(y, "none") = op /\ Given(op) /\ Given(c)
    BY RegNumber, GivenReg, GivenNamed
  <1> HIDE DEF y
  <1>2. CodeExtended(in, "IN", <<OpR(y, "none"), c>>)
        /\ CodeExtended(out, "OUT", <<c, OpR(y, "none")>>)
    BY <1>1, CodesInOut
  <1> HIDE DEF c, op, in, out
  <1>3. Gives(<<op, c>>, <<>>, <<op, c>>) /\ Gives(<<c, op>>, <<>>, <<c, op>>)
    BY <1>1, GivesGivenTwo
  <1>4. Shown(Asm("IN", <<op, c>>, <<\hED, in>>)) /\ Shown(Asm("OUT", <<c, op>>, <<\hED, out>>))
    BY <1>1, <1>2, <1>3, ShownBareExtended
  <1> QED
    BY <1>4 DEF c, op, in, out, y

LEMMA InputOutputShown == \A i \in InputOutput : Shown(i)
  <1> DEFINE In(n) == Asm("IN", <<A, Imm8Deref(n)>>, <<\hDB, n>>)
             Out(n) == Asm("OUT", <<Imm8Deref(n), A>>, <<\hD3, n>>)
             InC(r) == Asm("IN", <<R8(r), R8Deref("C")>>, <<\hED, \h40 + 8 * Reg[r]>>)
             OutC(r) == Asm("OUT", <<R8Deref("C"), R8(r)>>, <<\hED, \h41 + 8 * Reg[r]>>)
  <1>1. \A n \in ByteArgs : Shown(In(n)) /\ Shown(Out(n))
    BY InOutByte
  <1>2. \A r \in DOMAIN Reg : Shown(InC(r)) /\ Shown(OutC(r))
    BY InOutRegister
  <1>3. InputOutput = (UNION {{In(n), Out(n)} : n \in ByteArgs})
                        \cup (UNION {{InC(r), OutC(r)} : r \in DOMAIN Reg})
    BY DEF InputOutput
  <1> HIDE DEF In, Out, InC, OutC
  <1> QED
    BY <1>1, <1>2, <1>3

\* Jumps, calls and returns.
LEMMA JumpAlways ==
    ASSUME NEW w \in Words
    PROVE  /\ Shown(Asm("JP", <<Imm16(Val(w))>>, <<\hC3>> \o w))
           /\ Shown(Asm("CALL", <<Imm16(Val(w))>>, <<\hCD>> \o w))
  <1>1. Code(\hC3, "none", "JP", <<NN>>) /\ Code(\hCD, "none", "CALL", <<NN>>)
    BY CodesMixed, CodesReturn
  <1>2. Gives(<<NN>>, w, <<Imm16(Val(w))>>)
    BY WordSeq, GivesOne
  <1> QED
    BY <1>1, <1>2, WordSeq, ShownPlain

LEMMA JumpIf ==
    ASSUME NEW c \in DOMAIN Cond, NEW w \in Words
    PROVE  /\ Shown(Asm("JP", <<Status(c), Imm16(Val(w))>>, <<\hC2 + 8 * Cond[c]>> \o w))
           /\ Shown(Asm("CALL", <<Status(c), Imm16(Val(w))>>, <<\hC4 + 8 * Cond[c]>> \o w))
  <1> DEFINE y == Cond[c]
             op == Status(c)
             jp == \hC2 + 8 * y
             call == \hC4 + 8 * y
  <1>1. y \in 0 .. 7 /\ OpCc(y) = op /\ Given(op)
    BY CondNumber
  <1> HIDE DEF y
  <1>2. Code(jp, "none", "JP", <<OpCc(y), NN>>) /\ Code(call, "none", "CALL", <<OpCc(y), NN>>)
    BY <1>1, CodesCc
  <1> HIDE DEF op, jp, call
  <1>3. Gives(<<op, NN>>, w, <<op, Imm16(Val(w))>>)
    BY <1>1, WordSeq, GivesGivenFirst
  <1>4. /\ Shown(Asm("JP", <<op, Imm16(Val(w))>>, <<jp>> \o w))
        /\ Shown(Asm("CALL", <<op, Imm16(Val(w))>>, <<call>> \o w))
    BY <1>1, <1>2, <1>3, WordSeq, ShownPlain
  <1> QED
    BY <1>4 DEF op, jp, call, y

LEMMA JumpNear ==
    ASSUME NEW d \in ByteArgs
    PROVE  /\ Shown(Asm("JR", <<JmpRel(2 + Signed(d))>>, <<\h18, d>>))
           /\ Shown(Asm("DJNZ", <<JmpRel(2 + Signed(d))>>, <<\h10, d>>))
  <1>1. d \in Byte
    BY InstructionSetAssumption
  <1> DEFINE op == JmpRel(2 + Signed(d))
             u == <<d>>
  <1>2. u \in Seq(Byte) /\ Makes(D, u, op)
    BY <1>1, BytesSeq, MakesOneByte
  <1>3. Code(\h18, "none", "JR", <<D>>) /\ Code(\h10, "none", "DJNZ", <<D>>)
    BY CodesJr
  <1> HIDE DEF op, u
  <1>4. Gives(<<D>>, u, <<op>>)
    BY <1>2, GivesOne
  <1>5. Gives(<<D>>, <<d>>, <<op>>)
    BY <1>4 DEF u
  <1>6. Shown(Asm("JR", <<op>>, <<\h18, d>>)) /\ Shown(Asm("DJNZ", <<op>>, <<\h10, d>>))
    BY <1>1, <1>3, <1>5, ShownWithByte
  <1> QED
    BY <1>6 DEF op

LEMMA JumpNearIf ==
    ASSUME NEW c \in {"NZ", "Z", "NC", "C"}, NEW d \in ByteArgs
    PROVE  Shown(Asm("JR", <<Status(c), JmpRel(2 + Signed(d))>>, <<\h20 + 8 * Cond[c], d>>))
  <1> DEFINE y == Cond[c]
             cc == Status(c)
             op == JmpRel(2 + Signed(d))
             p == \h20 + 8 * y
             u == <<d>>
  <1>1. d \in Byte /\ c \in DOMAIN Cond
    BY InstructionSetAssumption DEF Cond
  <1>2. y \in 0 .. 3 /\ OpCc(y) = cc /\ Given(cc)
    BY <1>1, CondNumber
  <1>3. u \in Seq(Byte) /\ Makes(D, u, op)
    BY <1>1, BytesSeq, MakesOneByte
  <1> HIDE DEF y
  <1>4. Code(p, "none", "JR", <<OpCc(y), D>>)
    BY <1>2, CodesJr
  <1> HIDE DEF cc, op, p, u
  <1>5. Gives(<<cc, D>>, u, <<cc, op>>)
    BY <1>2, <1>3, GivesGivenFirst
  <1>6. Gives(<<cc, D>>, <<d>>, <<cc, op>>) /\ Code(p, "none", "JR", <<cc, D>>)
    BY <1>2, <1>4, <1>5 DEF u
  <1>7. Shown(Asm("JR", <<cc, op>>, <<p, d>>))
    BY <1>1, <1>6, ShownWithByte
  <1> QED
    BY <1>7 DEF cc, op, p, y

LEMMA JumpThere ==
    ASSUME NEW i \in Wides
    PROVE  Shown(Asm("JP", <<R16(i.name)>>, i.pre \o <<\hE9>>))
  <1> DEFINE ops == <<R16(i.name)>>
  <1>1. ASSUME i.name = "HL"
        PROVE  Shown(Asm("JP", ops, <<\hE9>>))
    <2>1. Code(\hE9, "none", "JP", <<R16("HL")>>)
      BY CodesReturn
    <2>2. Gives(<<R16("HL")>>, <<>>, <<R16("HL")>>)
      BY GivenNamed, GivesGiven
    <2>3. Shown(Asm("JP", <<R16("HL")>>, <<\hE9>>))
      BY <2>1, <2>2, ShownBare
    <2> QED
      BY <1>1, <2>3
  <1>2. ASSUME i.name = "IX"
        PROVE  Asm("JP", ops, <<\hDD, \hE9>>) \in SingleSlips
    <2>1. Asm("JP", <<R16("IX")>>, <<\hDD, \hE9>>) \in SingleSlips
      BY DEF SingleSlips
    <2> QED
      BY <1>2, <2>1
  <1>4. \hE9 \in Byte
    BY DEF Byte
  <1> HIDE DEF ops
  <1>3. Shown(Asm("JP", ops, i.pre \o <<\hE9>>))
    BY <1>1, <1>2, <1>4, WideSlips
  <1> QED
    BY <1>3 DEF ops

LEMMA Returns ==
    /\ Shown(Asm("RET", <<>>, <<\hC9>>)) /\ Shown(Asm("RETI", <<>>, <<\hED, \h4D>>))
    /\ Shown(Asm("RETN", <<>>, <<\hED, \h45>>))
  <1>1. Shown(Asm("RET", <<>>, <<\hC9>>))
    BY CodesReturn, GivesNone, ShownBare
  <1>2. Shown(Asm("RETI", <<>>, <<\hED, \h4D>>))
    BY CodesReturnExtended, GivesNone, ShownBareExtended
  <1>3. Shown(Asm("RETN", <<>>, <<\hED, \h45>>))
    BY CodesReturnExtended, GivesNone, ShownBareExtended
  <1> QED
    BY <1>1, <1>2, <1>3

LEMMA ReturnIf ==
    ASSUME NEW c \in DOMAIN Cond
    PROVE  Shown(Asm("RET", <<Status(c)>>, <<\hC0 + 8 * Cond[c]>>))
  <1> DEFINE y == Cond[c]
             op == Status(c)
             p == \hC0 + 8 * y
  <1>1. y \in 0 .. 7 /\ OpCc(y) = op /\ Given(op)
    BY CondNumber
  <1> HIDE DEF y
  <1>2. Code(p, "none", "RET", <<OpCc(y)>>)
    BY <1>1, CodesCc
  <1> HIDE DEF op, p
  <1>3. Gives(<<op>>, <<>>, <<op>>)
    BY <1>1, GivesGiven
  <1>4. Shown(Asm("RET", <<op>>, <<p>>))
    BY <1>1, <1>2, <1>3, ShownBare
  <1> QED
    BY <1>4 DEF op, p, y

LEMMA Restart ==
    ASSUME NEW k \in 0 .. 7
    PROVE  Shown(Asm("RST", <<Imm8(8 * k)>>, <<\hC7 + 8 * k>>))
  <1> DEFINE op == Imm8(8 * k)
             p == \hC7 + 8 * k
  <1>1. 8 * k \in Byte
    BY DEF Byte
  <1>2. Given(op)
    BY <1>1, GivenImm8
  <1>3. ASSUME k # 3
        PROVE  Shown(Asm("RST", <<op>>, <<p>>))
    <2>1. Code(p, "none", "RST", <<op>>)
      BY <1>3, CodesCc
    <2> HIDE DEF op, p
    <2>2. Gives(<<op>>, <<>>, <<op>>)
      BY <1>2, GivesGiven
    <2> QED
      BY <2>1, <2>2, ShownBare
  <1>4. ASSUME k = 3
        PROVE  Shown(Asm("RST", <<op>>, <<p>>))
    <2>1. Asm("RST", <<Imm8(24)>>, <<\hDF>>) \in SingleSlips
      BY DEF SingleSlips
    <2>2. op = Imm8(24) /\ p = \hDF
      BY <1>4
    <2> QED
      BY <2>1, <2>2, ShownSlip
  <1> HIDE DEF op, p
  <1>5. Shown(Asm("RST", <<op>>, <<p>>))
    BY <1>3, <1>4
  <1> QED
    BY <1>5 DEF op, p

LEMMA JumpShown == \A i \in Jump : Shown(i)
  <1> DEFINE Jp(w) == Asm("JP", <<Imm16(Val(w))>>, <<\hC3>> \o w)
             Call(w) == Asm("CALL", <<Imm16(Val(w))>>, <<\hCD>> \o w)
             JpIf(c, w) ==
                Asm("JP", <<Status(c), Imm16(Val(w))>>, <<\hC2 + 8 * Cond[c]>> \o w)
             CallIf(c, w) ==
                Asm("CALL", <<Status(c), Imm16(Val(w))>>, <<\hC4 + 8 * Cond[c]>> \o w)
             Jr(d) == Asm("JR", <<JmpRel(2 + Signed(d))>>, <<\h18, d>>)
             Djnz(d) == Asm("DJNZ", <<JmpRel(2 + Signed(d))>>, <<\h10, d>>)
             JrIf(c, d) ==
                Asm("JR", <<Status(c), JmpRel(2 + Signed(d))>>, <<\h20 + 8 * Cond[c], d>>)
             There(i) == Asm("JP", <<R16(i.name)>>, i.pre \o <<\hE9>>)
             RetIf(c) == Asm("RET", <<Status(c)>>, <<\hC0 + 8 * Cond[c]>>)
             Rst(k) == Asm("RST", <<Imm8(8 * k)>>, <<\hC7 + 8 * k>>)
             ret == {Asm("RET", <<>>, <<\hC9>>), Asm("RETI", <<>>, <<\hED, \h4D>>),
                     Asm("RETN", <<>>, <<\hED, \h45>>)}
  <1>1. \A w \in Words : Shown(Jp(w)) /\ Shown(Call(w))
    BY JumpAlways
  <1>2. \A c \in DOMAIN Cond, w \in Words : Shown(JpIf(c, w)) /\ Shown(CallIf(c, w))
    BY JumpIf
  <1>3. \A d \in ByteArgs : Shown(Jr(d)) /\ Shown(Djnz(d))
    BY JumpNear
  <1>4. \A c \in {"NZ", "Z", "NC", "C"}, d \in ByteArgs : Shown(JrIf(c, d))
    BY JumpNearIf
  <1>5. (\A i \in Wides : Shown(There(i))) /\ (\A i \in ret : Shown(i))
    BY JumpThere, Returns
  <1>6. (\A c \in DOMAIN Cond : Shown(RetIf(c))) /\ (\A k \in 0 .. 7 : Shown(Rst(k)))
    BY ReturnIf, Restart
  <1>7. Jump = (UNION {{Jp(w), Call(w)} : w \in Words})
                 \cup (UNION {{JpIf(c, w), CallIf(c, w)} : c \in DOMAIN Cond, w \in Words})
                 \cup (UNION {{Jr(d), Djnz(d)} : d \in ByteArgs})
                 \cup {JrIf(c, d) : c \in {"NZ", "Z", "NC", "C"}, d \in ByteArgs}
                 \cup {There(i) : i \in Wides}
                 \cup ret
                 \cup {RetIf(c) : c \in DOMAIN Cond}
                 \cup {Rst(k) : k \in 0 .. 7}
    BY DEF Jump
  <1> HIDE DEF Jp, Call, JpIf, CallIf, Jr, Djnz, JrIf, There, RetIf, Rst, ret
  <1> QED
    BY <1>1, <1>2, <1>3, <1>4, <1>5, <1>6, <1>7

\* Arithmetic and logic.
LEMMA AluNumber ==
    ASSUME NEW m \in DOMAIN AluNum
    PROVE  /\ AluNum[m] \in 0 .. 7 /\ alu_tab[AluNum[m] + 1] = m
           /\ AluNum[m] \in {0, 1, 3} <=> m \in {"ADD", "ADC", "SBC"}
  <1>1. \/ (m = "ADD" /\ AluNum[m] = 0) \/ (m = "ADC" /\ AluNum[m] = 1)
        \/ (m = "SUB" /\ AluNum[m] = 2) \/ (m = "SBC" /\ AluNum[m] = 3)
        \/ (m = "AND" /\ AluNum[m] = 4) \/ (m = "XOR" /\ AluNum[m] = 5)
        \/ (m = "OR" /\ AluNum[m] = 6) \/ (m = "CP" /\ AluNum[m] = 7)
    BY DEF AluNum
  <1> QED
    BY <1>1 DEF alu_tab

LEMMA AluGives ==
    ASSUME NEW word \in BOOLEAN, NEW m \in DOMAIN AluNum, NEW f, NEW t \in Seq(Byte),
           NEW op, MakesAs(word, f, t, op)
    PROVE  GivesAs(word, WithA(AluNum[m], f), t, AluAcc(m) \o <<op>>)
  <1> DEFINE y == AluNum[m]
  <1>1. y \in {0, 1, 3} <=> m \in {"ADD", "ADC", "SBC"}
    BY AluNumber
  <1> HIDE DEF y
  <1>2. Given(A) /\ A = R8("A")
    BY GivenA
  <1>3. CASE m \in {"ADD", "ADC", "SBC"}
    <2>1. WithA(y, f) = <<A, f>>
      BY <1>1, <1>2, <1>3 DEF WithA
    <2>2. AluAcc(m) \o <<op>> = <<A, op>>
      <3>1. AluAcc(m) = <<A>>
        BY <1>3 DEF AluAcc
      <3>2. <<A>> \o <<op>> = <<A, op>>
        BY BehindOne
      <3> QED
        BY <3>1, <3>2
    <2>3. GivesAs(word, <<A, f>>, t, <<A, op>>)
      BY <1>2, GivesGivenBefore
    <2> QED
      BY <2>1, <2>2, <2>3 DEF y
  <1>4. CASE m \notin {"ADD", "ADC", "SBC"}
    <2>1. WithA(y, f) = <<f>>
      BY <1>1, <1>4 DEF WithA
    <2>2. AluAcc(m) \o <<op>> = <<op>>
      <3>1. AluAcc(m) = <<>>
        BY <1>4 DEF AluAcc
      <3> QED
        BY <3>1, BehindOne
    <2>3. GivesAs(word, <<f>>, t, <<op>>)
      BY GivesOneAs
    <2> QED
      BY <2>1, <2>2, <2>3 DEF y
  <1> QED
    BY <1>3, <1>4

LEMMA AluPlace ==
    ASSUME NEW m \in DOMAIN AluNum, NEW s \in Places
    PROVE  Shown(Asm(m, AluAcc(m) \o <<s.op>>,
                     s.pre \o <<128 + 8 * AluNum[m] + s.num>> \o s.post))
  <1> DEFINE y == AluNum[m]
             z == s.num
             p == 128 + 8 * y + z
             ops == AluAcc(m) \o <<s.op>>
  <1>1. y \in 0 .. 7 /\ alu_tab[y + 1] = m
    BY AluNumber
  <1>2. z \in 0 .. 7 /\ s.post \in Seq(Byte)
    BY PlaceMade
  <1>3. PICK idx \in Indices : s.pre = Pre(idx) /\ Makes(OpR(z, idx), s.post, s.op)
    BY PlaceMade
  <1> HIDE DEF z
  <1>4. Gives(WithA(y, OpR(z, idx)), s.post, ops)
    BY <1>2, <1>3, AluGives DEF Makes, Gives
  <1> HIDE DEF y, ops
  <1>5. Code(p, idx, alu_tab[y + 1], WithA(y, OpR(z, idx)))
    BY <1>1, <1>2, CodesAlu
  <1> HIDE DEF p
  <1>6. Shown(Asm(m, ops, Pre(idx) \o <<p>> \o s.post))
    BY <1>1, <1>2, <1>4, <1>5, ShownRegular
  <1> QED
    BY <1>3, <1>6 DEF p, y, z, ops

LEMMA AluImmediate ==
    ASSUME NEW m \in DOMAIN AluNum, NEW n \in ByteArgs
    PROVE  ShownAs(TRUE, Asm(m, AluAcc(m) \o <<Imm8(n)>>, <<\hC6 + 8 * AluNum[m], n>>))
  <1> DEFINE y == AluNum[m]
             p == \hC6 + 8 * y
             ops == AluAcc(m) \o <<Imm8(n)>>
             u == <<n>>
  <1>1. y \in 0 .. 7 /\ alu_tab[y + 1] = m
    BY AluNumber
  <1>2. n \in Byte
    BY InstructionSetAssumption
  <1>3. u \in Seq(Byte) /\ MakesAs(TRUE, N, u, Imm8(n))
    BY <1>2, BytesSeq, MakesOneByte
  <1> HIDE DEF u
  <1>4. GivesAs(TRUE, WithA(y, N), u, ops)
    BY <1>3, AluGives
  <1> HIDE DEF y, ops
  <1>5. Code(p, "none", alu_tab[y + 1], WithA(y, N)) /\ 0 \in 0 .. 7
    BY <1>1, CodesAlu
  <1> HIDE DEF p
  <1>6. GivesAs(TRUE, WithA(y, N), u, ops) /\ Code(p, "none", m, WithA(y, N))
    BY <1>1, <1>4, <1>5
  <1>7. ShownAs(TRUE, Asm(m, ops, <<p>> \o u))
    BY <1>3, <1>6, ShownPlainAs
  <1>8. <<p>> \o u = <<p, n>>
    BY BehindOne DEF u
  <1>9. ShownAs(TRUE, Asm(m, ops, <<p, n>>))
    BY <1>7, <1>8, Zenon
  <1> QED
    BY <1>9 DEF p, y, ops

LEMMA StepPlace ==
    ASSUME NEW t \in Places
    PROVE  /\ Shown(Asm("INC", <<t.op>>, t.pre \o <<4 + 8 * t.num>> \o t.post))
           /\ Shown(Asm("DEC", <<t.op>>, t.pre \o <<5 + 8 * t.num>> \o t.post))
  <1> DEFINE y == t.num
             inc == 4 + 8 * y
             dec == 5 + 8 * y
  <1>1. y \in 0 .. 7 /\ t.post \in Seq(Byte)
    BY PlaceMade
  <1>2. PICK idx \in Indices : t.pre = Pre(idx) /\ Makes(OpR(y, idx), t.post, t.op)
    BY PlaceMade
  <1> HIDE DEF y
  <1>3. Code(inc, idx, "INC", <<OpR(y, idx)>>) /\ Code(dec, idx, "DEC", <<OpR(y, idx)>>)
    BY <1>1, CodesOneRegister
  <1> HIDE DEF inc, dec
  <1>4. Gives(<<OpR(y, idx)>>, t.post, <<t.op>>)
    BY <1>1, <1>2, GivesOne
  <1>5. /\ Shown(Asm("INC", <<t.op>>, Pre(idx) \o <<inc>> \o t.post))
        /\ Shown(Asm("DEC", <<t.op>>, Pre(idx) \o <<dec>> \o t.post))
    BY <1>1, <1>3, <1>4, ShownRegular
  <1> QED
    BY <1>2, <1>5 DEF inc, dec, y

LEMMA AddWide ==
    ASSUME NEW i \in Wides, NEW p \in DOMAIN Pair
    PROVE  Shown(Asm("ADD", <<R16(i.name), PairName(p, i)>>, i.pre \o <<9 + 16 * Pair[p]>>))
  <1> DEFINE k == Pair[p]
             c == 9 + 16 * k
             op == R16(i.name)
             oq == PairName(p, i)
  <1>1. PICK idx \in Indices : /\ i.pre = Pre(idx) /\ i.name = Wide[idx]
                               /\ OpHlOrIndex(idx) = op /\ Given(op)
    BY WideMade
  <1>2. k \in 0 .. 3 /\ OpRp(k, idx) = oq
    BY <1>1, PairNumber DEF PairName
  <1>3. Given(oq)
    BY <1>1, PairNumber DEF PairName
  <1> HIDE DEF k
  <1>4. Code(c, idx, "ADD", <<OpHlOrIndex(idx), OpRp(k, idx)>>)
    BY <1>2, CodesRp
  <1> HIDE DEF c, op, oq
  <1>5. Code(c, idx, "ADD", <<op, oq>>) /\ Gives(<<op, oq>>, <<>>, <<op, oq>>)
    BY <1>1, <1>2, <1>3, <1>4, GivesGivenTwo
  <1>6. Shown(Asm("ADD", <<op, oq>>, Pre(idx) \o <<c>>))
    BY <1>5, ShownBareRegular
  <1> QED
    BY <1>1, <1>6 DEF c, op, oq, k

LEMMA PairArithmetic ==
    ASSUME NEW p \in DOMAIN Pair
    PROVE  /\ Shown(Asm("ADC", <<R16("HL"), R16(p)>>, <<\hED, \h4A + 16 * Pair[p]>>))
           /\ Shown(Asm("SBC", <<R16("HL"), R16(p)>>, <<\hED, \h42 + 16 * Pair[p]>>))
           /\ Shown(Asm("INC", <<R16(p)>>, <<3 + 16 * Pair[p]>>))
           /\ Shown(Asm("DEC", <<R16(p)>>, <<\h0B + 16 * Pair[p]>>))
  <1> DEFINE k == Pair[p]
             op == R16(p)
             hl == R16("HL")
             adc == \h4A + 16 * k
             sbc == \h42 + 16 * k
             inc == 3 + 16 * k
             dec == \h0B + 16 * k
  <1>1. k \in 0 .. 3 /\ OpRp(k, "none") = op /\ Given(op) /\ Given(hl)
    BY PairNumber, GivenNamed DEF Indices
  <1> HIDE DEF k
  <1>2. /\ CodeExtended(adc, "ADC", <<hl, OpRp(k, "none")>>)
        /\ CodeExtended(sbc, "SBC", <<hl, OpRp(k, "none")>>)
    BY <1>1, CodesWide
  <1>3. /\ Code(inc, "none", "INC", <<OpRp(k, "none")>>)
        /\ Code(dec, "none", "DEC", <<OpRp(k, "none")>>)
    BY <1>1, CodesRp
  <1> HIDE DEF op, hl, adc, sbc, inc, dec
  <1>4. Gives(<<hl, op>>, <<>>, <<hl, op>>) /\ Gives(<<op>>, <<>>, <<op>>)
    BY <1>1, GivesGiven, GivesGivenTwo
  <1>5. /\ Shown(Asm("ADC", <<hl, op>>, <<\hED, adc>>))
        /\ Shown(Asm("SBC", <<hl, op>>, <<\hED, sbc>>))
    BY <1>1, <1>2, <1>4, ShownBareExtended
  <1>6. Shown(Asm("INC", <<op>>, <<inc>>)) /\ Shown(Asm("DEC", <<op>>, <<dec>>))
    BY <1>1, <1>3, <1>4, ShownBare
  <1> QED
    BY <1>5, <1>6 DEF op, hl, adc, sbc, inc, dec, k

LEMMA StepWide ==
    ASSUME NEW i \in Wides
    PROVE  /\ Shown(Asm("INC", <<R16(i.name)>>, i.pre \o <<\h23>>))
           /\ Shown(Asm("DEC", <<R16(i.name)>>, i.pre \o <<\h2B>>))
  <1> DEFINE op == R16(i.name)
             k == 2
  <1>1. PICK idx \in Indices : i.pre = Pre(idx) /\ Given(op) /\ OpRp(2, idx) = op
    BY WideNumber
  <1>2. 3 + 16 * k = \h23 /\ \h0B + 16 * k = \h2B /\ k \in 0 .. 3 /\ OpRp(k, idx) = op
    BY <1>1
  <1> HIDE DEF op, k
  <1>3. /\ Code(3 + 16 * k, idx, "INC", <<OpRp(k, idx)>>)
        /\ Code(\h0B + 16 * k, idx, "DEC", <<OpRp(k, idx)>>)
    BY <1>2, CodesRp
  <1>4. Code(\h23, idx, "INC", <<op>>) /\ Code(\h2B, idx, "DEC", <<op>>)
    BY <1>2, <1>3
  <1>5. Gives(<<op>>, <<>>, <<op>>)
    BY <1>1, GivesGiven
  <1>6. /\ Shown(Asm("INC", <<op>>, Pre(idx) \o <<\h23>>))
        /\ Shown(Asm("DEC", <<op>>, Pre(idx) \o <<\h2B>>))
    BY <1>4, <1>5, ShownBareRegular
  <1> QED
    BY <1>1, <1>6 DEF op

LEMMA ArithmeticShown == \A i \in Arithmetic : i \in AluByte \/ Shown(i)
  <1> DEFINE Alu(m, s) == Asm(m, AluAcc(m) \o <<s.op>>,
                              s.pre \o <<128 + 8 * AluNum[m] + s.num>> \o s.post)
             Inc(t) == Asm("INC", <<t.op>>, t.pre \o <<4 + 8 * t.num>> \o t.post)
             Dec(t) == Asm("DEC", <<t.op>>, t.pre \o <<5 + 8 * t.num>> \o t.post)
             Add(i, p) == Asm("ADD", <<R16(i.name), PairName(p, i)>>,
                              i.pre \o <<9 + 16 * Pair[p]>>)
             Adc(p) == Asm("ADC", <<R16("HL"), R16(p)>>, <<\hED, \h4A + 16 * Pair[p]>>)
             Sbc(p) == Asm("SBC", <<R16("HL"), R16(p)>>, <<\hED, \h42 + 16 * Pair[p]>>)
             IncP(p) == Asm("INC", <<R16(p)>>, <<3 + 16 * Pair[p]>>)
             DecP(p) == Asm("DEC", <<R16(p)>>, <<\h0B + 16 * Pair[p]>>)
             IncW(i) == Asm("INC", <<R16(i.name)>>, i.pre \o <<\h23>>)
             DecW(i) == Asm("DEC", <<R16(i.name)>>, i.pre \o <<\h2B>>)
  <1>1. \A m \in DOMAIN AluNum, s \in Places : Shown(Alu(m, s))
    BY AluPlace
  <1>2. \A t \in Places : Shown(Inc(t)) /\ Shown(Dec(t))
    BY StepPlace
  <1>3. \A i \in Wides :
            /\ \A p \in DOMAIN Pair : Shown(Add(i, p))
            /\ Shown(IncW(i)) /\ Shown(DecW(i))
    BY AddWide, StepWide
  <1>4. \A p \in DOMAIN Pair :
            Shown(Adc(p)) /\ Shown(Sbc(p)) /\ Shown(IncP(p)) /\ Shown(DecP(p))
    BY PairArithmetic
  <1>5. Arithmetic = AluByte
                       \cup {Alu(m, s) : m \in DOMAIN AluNum, s \in Places}
                       \cup (UNION {{Inc(t), Dec(t)} : t \in Places})
                       \cup {Add(i, p) : i \in Wides, p \in DOMAIN Pair}
                       \cup (UNION {{Adc(p), Sbc(p), IncP(p), DecP(p)} : p \in DOMAIN Pair})
                       \cup (UNION {{IncW(i), DecW(i)} : i \in Wides})
    BY DEF Arithmetic
  <1> HIDE DEF Alu, Inc, Dec, Add, Adc, Sbc, IncP, DecP, IncW, DecW
  <1> QED
    BY <1>1, <1>2, <1>3, <1>4, <1>5

\* Rotates, shifts and bits.
LEMMA PlaceKinds ==
    ASSUME NEW t \in Places
    PROVE  /\ t.num \in 0 .. 7
           /\ \/ t.pre = <<>> /\ t.post = <<>> /\ OpR(t.num, "none") = t.op /\ Given(t.op)
              \/ \E d \in Byte : /\ t.pre = <<\hDD>> /\ t.post = <<d>> /\ t.num = 6
                                 /\ t.op = IndexRel("IX", Signed(d)) /\ Given(t.op)
              \/ \E d \in Byte : t.pre = <<\hFD>> /\ t.post = <<d>>
  <1>1. CASE t \in InReg
    <2>1. PICK r \in DOMAIN Reg :
              t = [op |-> R8(r), pre |-> <<>>, num |-> Reg[r], post |-> <<>>]
      BY <1>1 DEF InReg
    <2>2. t.op = R8(r) /\ t.pre = <<>> /\ t.num = Reg[r] /\ t.post = <<>>
      BY <2>1
    <2> QED
      BY <2>2, RegNumber, GivenReg
  <1>2. CASE t \in InHL
    <2>1. t.op = R16Deref("HL") /\ t.pre = <<>> /\ t.num = 6 /\ t.post = <<>>
      BY <1>2 DEF InHL
    <2>2. OpR(6, "none") = t.op /\ Given(t.op)
      BY <2>1, GivenR16 DEF OpR
    <2> QED
      BY <2>1, <2>2
  <1>3. CASE t \in Indexed
    <2>1. PICK i \in {"IX", "IY"}, d \in ByteArgs :
              t = [op |-> IndexRel(i, Signed(d)), pre |-> Prefix[i], num |-> 6, post |-> <<d>>]
      BY <1>3 DEF Indexed
    <2>2. t.op = IndexRel(i, Signed(d)) /\ t.pre = Prefix[i] /\ t.num = 6 /\ t.post = <<d>>
      BY <2>1
    <2>3. d \in Byte
      BY InstructionSetAssumption
    <2>4. Signed(d) \in Int8
      BY <2>3 DEF Signed, Int8, Byte
    <2>5. Given(t.op)
      BY <2>2, <2>4, GivenIndexRel
    <2>6. \/ i = "IX" /\ t.pre = <<\hDD>>
          \/ i = "IY" /\ t.pre = <<\hFD>>
      BY <2>2 DEF Prefix
    <2> QED
      BY <2>2, <2>3, <2>5, <2>6
  <1> QED
    BY <1>1, <1>2, <1>3 DEF Places, InMemory

LEMMA PlaceBare ==
    ASSUME NEW t \in Places, t.pre = <<>>
    PROVE  OpR(t.num, "none") = t.op /\ Given(t.op)
  <1>1. <<>> # <<\hDD>> /\ <<>> # <<\hFD>>
    OBVIOUS
  <1> QED
    BY <1>1, PlaceKinds

LEMMA PlaceIx ==
    ASSUME NEW t \in Places, NEW d \in Byte, t.pre = <<\hDD>>, t.post = <<d>>
    PROVE  t.num = 6 /\ t.op = IndexRel("IX", Signed(d)) /\ Given(t.op)
  <1>1. <<\hDD>> # <<>> /\ <<\hDD>> # <<\hFD>>
    OBVIOUS
  <1>2. PICK e \in Byte : /\ t.post = <<e>> /\ t.num = 6
                         /\ t.op = IndexRel("IX", Signed(e)) /\ Given(t.op)
    BY <1>1, PlaceKinds
  <1>3. e = d
    BY <1>2
  <1> QED
    BY <1>2, <1>3

\* An opcode behind 0xCB, wherever its operand is.
LEMMA ShownAtBit ==
    ASSUME NEW t \in Places, NEW p \in Byte, NEW m, NEW ops,
           t.pre = <<>> => Shown(Asm(m, ops, <<\hCB, p>>)),
           \A d \in Byte : t.pre = <<\hDD>> /\ t.post = <<d>> =>
               Shown(Asm(m, ops, <<\hDD, \hCB>> \o <<d, p>>))
    PROVE  Shown(Asm(m, ops, t.pre \o <<\hCB>> \o t.post \o <<p>>))
  <1> DEFINE cb == <<\hCB>>
             u == <<p>>
  <1>1. cb \in Seq(Byte) /\ u \in Seq(Byte)
    BY PrefixBytes, BytesSeq
  <1>2. cb \o u = <<\hCB, p>>
    BY JoinedOne
  <1>3. CASE t.pre = <<>> /\ t.post = <<>>
    <2>1. Shown(Asm(m, ops, <<\hCB, p>>))
      BY <1>3
    <2> HIDE DEF cb, u
    <2>2. <<>> \o cb \o <<>> \o u = cb \o u
      BY <1>1, ConcatEmptySeq
    <2>3. Shown(Asm(m, ops, <<>> \o cb \o <<>> \o u))
      BY <1>2, <2>1, <2>2
    <2>4. Shown(Asm(m, ops, t.pre \o cb \o t.post \o u))
      BY <1>3, <2>3
    <2> QED
      BY <2>4 DEF cb, u
  <1>4. ASSUME NEW d \in Byte, t.pre = <<\hDD>>, t.post = <<d>>
        PROVE  Shown(Asm(m, ops, t.pre \o cb \o t.post \o u))
    <2> DEFINE dd == <<\hDD>>
               e == <<d>>
    <2>1. Shown(Asm(m, ops, <<\hDD, \hCB>> \o <<d, p>>))
      BY <1>4
    <2>2. dd \in Seq(Byte) /\ e \in Seq(Byte)
      BY PrefixBytes, BytesSeq
    <2>3. dd \o cb = <<\hDD, \hCB>>
      BY PrefixBytes, JoinedOne
    <2>4. e \o u = <<d, p>>
      BY JoinedOne
    <2>5. t.pre = dd /\ t.post = e
      BY <1>4
    <2> HIDE DEF cb, u, dd, e
    <2>6. dd \o cb \in Seq(Byte)
      BY <1>1, <2>2, ConcatProperties
    <2>7. dd \o cb \o e \o u = (dd \o cb) \o (e \o u)
      BY <1>1, <2>2, <2>6, JoinedApart
    <2>8. Shown(Asm(m, ops, dd \o cb \o e \o u))
      BY <2>1, <2>3, <2>4, <2>7
    <2> QED
      BY <2>5, <2>8
  <1>5. ASSUME NEW d \in Byte, t.pre = <<\hFD>>, t.post = <<d>>
        PROVE  Shown(Asm(m, ops, t.pre \o cb \o t.post \o u))
    <2> DEFINE fd == <<\hFD>>
               e == <<d>>
               rest == cb \o (e \o u)
    <2>1. fd \in Seq(Byte) /\ e \in Seq(Byte)
      BY PrefixBytes, BytesSeq
    <2>2. Len(fd) = 1 /\ fd[1] = \hFD /\ Len(cb) = 1
      OBVIOUS
    <2>3. t.pre = fd /\ t.post = e
      BY <1>5
    <2> HIDE DEF cb, u, e, fd
    <2>4. e \o u \in Seq(Byte)
      BY <1>1, <2>1, ConcatProperties
    <2> DEFINE h == fd \o cb
    <2>5. h \in Seq(Byte)
      BY <1>1, <2>1, ConcatProperties
    <2>10. rest \in Seq(Byte) /\ Len(fd) + Len(rest) > 1
      <3> DEFINE eu == e \o u
      <3>1. cb \in Seq(Byte) /\ eu \in Seq(Byte)
        BY <1>1, <2>4
      <3> HIDE DEF eu
      <3>2. /\ cb \o eu \in Seq(Byte) /\ Len(cb \o eu) = Len(cb) + Len(eu)
            /\ Len(eu) \in Nat
        BY <3>1, ConcatProperties
      <3>3. Len(fd) + Len(cb \o eu) > 1
        BY <2>2, <3>2
      <3> QED
        BY <3>2, <3>3 DEF eu
    <2> HIDE DEF h
    <2>11. h \in Seq(Byte) /\ e \in Seq(Byte) /\ u \in Seq(Byte)
      BY <1>1, <2>1, <2>5
    <2>6. h \o e \o u = h \o (e \o u)
      <3> DEFINE S == Seq(Byte)
                 J(x, y) == x \o y
      <3>1. \A x, y, z \in S : J(J(x, y), z) = J(x, J(y, z))
        BY JoinedApart
      <3>2. h \in S /\ e \in S /\ u \in S
        BY <2>11
      <3>3. J(J(h, e), u) = J(h, J(e, u))
        <4> HIDE DEF S, J
        <4> QED
          BY <3>1, <3>2
      <3> QED
        BY <3>3
    <2>7. (fd \o cb) \o (e \o u) = fd \o rest
      BY <1>1, <2>1, <2>4, JoinedApart
    <2> HIDE DEF rest
    <2>8. Shown(Asm(m, ops, fd \o rest))
      <3>1. Len(fd) >= 1 /\ fd[1] = \hFD
        BY <2>2
      <3> QED
        BY <2>1, <2>10, <3>1, ShownSlipBytes, Zenon
    <2>9. Shown(Asm(m, ops, fd \o cb \o e \o u))
      BY <2>6, <2>7, <2>8 DEF h
    <2> QED
      BY <2>3, <2>9
  <1>6. \/ t.pre = <<>> /\ t.post = <<>>
        \/ \E d \in Byte : t.pre = <<\hDD>> /\ t.post = <<d>>
        \/ \E d \in Byte : t.pre = <<\hFD>> /\ t.post = <<d>>
    BY PlaceKinds
  <1> HIDE DEF cb, u
  <1>7. Shown(Asm(m, ops, t.pre \o cb \o t.post \o u))
    BY <1>3, <1>4, <1>5, <1>6 DEF cb, u
  <1> QED
    BY <1>7 DEF cb, u

RotNum == [RLC |-> 0, RRC |-> 1, RL |-> 2, RR |-> 3, SLA |-> 4, SRA |-> 5, SRL |-> 7]
BitCode == [BIT |-> 64, RES |-> 128, SET |-> 192]

LEMMA RotNumber ==
    ASSUME NEW m \in DOMAIN RotNum
    PROVE  RotNum[m] \in 0 .. 7 /\ rot_tab[RotNum[m] + 1] = m
  <1>1. \/ (m = "RLC" /\ RotNum[m] = 0) \/ (m = "RRC" /\ RotNum[m] = 1)
        \/ (m = "RL" /\ RotNum[m] = 2) \/ (m = "RR" /\ RotNum[m] = 3)
        \/ (m = "SLA" /\ RotNum[m] = 4) \/ (m = "SRA" /\ RotNum[m] = 5)
        \/ (m = "SRL" /\ RotNum[m] = 7)
    BY DEF RotNum
  <1> QED
    BY <1>1 DEF rot_tab

LEMMA BitNumber ==
    ASSUME NEW m \in DOMAIN BitCode
    PROVE  \E x \in 1 .. 3 : BitCode[m] = 64 * x /\ bit_tab[x] = m
  <1>1. \/ (m = "BIT" /\ BitCode[m] = 64) \/ (m = "RES" /\ BitCode[m] = 128)
        \/ (m = "SET" /\ BitCode[m] = 192)
    BY DEF BitCode
  <1>2. CASE m = "BIT"
    <2>1. BitCode[m] = 64 * 1 /\ bit_tab[1] = m /\ 1 \in 1 .. 3
      BY <1>1, <1>2 DEF bit_tab
    <2> QED
      BY <2>1
  <1>3. CASE m = "RES"
    <2>1. BitCode[m] = 64 * 2 /\ bit_tab[2] = m /\ 2 \in 1 .. 3
      BY <1>1, <1>3 DEF bit_tab
    <2> QED
      BY <2>1
  <1>4. CASE m = "SET"
    <2>1. BitCode[m] = 64 * 3 /\ bit_tab[3] = m /\ 3 \in 1 .. 3
      BY <1>1, <1>4 DEF bit_tab
    <2> QED
      BY <2>1
  <1> QED
    BY <1>1, <1>2, <1>3, <1>4

LEMMA RotatePlace ==
    ASSUME NEW m \in DOMAIN RotNum, NEW t \in Places
    PROVE  Shown(Asm(m, <<t.op>>, t.pre \o <<\hCB>> \o t.post \o <<8 * RotNum[m] + t.num>>))
  <1> DEFINE y == RotNum[m]
             z == t.num
             p == 8 * y + z
             op == t.op
  <1>1. y \in 0 .. 7 /\ rot_tab[y + 1] = m
    BY RotNumber
  <1>2. z \in 0 .. 7
    BY PlaceKinds
  <1>3. p \in Byte
    BY <1>1, <1>2 DEF Byte
  <1> HIDE DEF y
  <1>4. ASSUME t.pre = <<>>
        PROVE  Shown(Asm(m, <<op>>, <<\hCB, p>>))
    <2>1. OpR(z, "none") = op /\ Given(op)
      BY <1>4, PlaceBare
    <2> HIDE DEF z
    <2>2. CodeBit(p, rot_tab[y + 1], <<OpR(z, "none")>>)
      BY <1>1, <1>2, CodesBit
    <2> HIDE DEF op, p
    <2>3. Gives(<<op>>, <<>>, <<op>>)
      BY <2>1, GivesGiven
    <2> QED
      BY <1>1, <2>1, <2>2, <2>3, ShownBit
  <1>5. ASSUME NEW d \in Byte, t.pre = <<\hDD>>, t.post = <<d>>
        PROVE  Shown(Asm(m, <<op>>, <<\hDD, \hCB>> \o <<d, p>>))
    <2>1. z = 6 /\ op = IndexRel("IX", Signed(d)) /\ Given(op)
      BY <1>5, PlaceIx
    <2>2. p = 8 * y + 6
      BY <2>1
    <2> HIDE DEF op, z, p
    <2>3. CodeIndexedBit(p, d, rot_tab[y + 1], <<op>>)
      BY <1>1, <2>1, <2>2, CodesIndexedBit
    <2>4. Gives(<<op>>, <<>>, <<op>>)
      BY <2>1, GivesGiven
    <2> QED
      BY <1>1, <2>3, <2>4, ShownIndexedBit
  <1> DEFINE ops == <<op>>
  <1> HIDE DEF ops, p
  <1>6. t.pre = <<>> => Shown(Asm(m, ops, <<\hCB, p>>))
    BY <1>4 DEF ops
  <1>7. \A d \in Byte : t.pre = <<\hDD>> /\ t.post = <<d>> =>
            Shown(Asm(m, ops, <<\hDD, \hCB>> \o <<d, p>>))
    BY <1>5 DEF ops
  <1>8. Shown(Asm(m, ops, t.pre \o <<\hCB>> \o t.post \o <<p>>))
    BY <1>3, <1>6, <1>7, ShownAtBit
  <1> QED
    BY <1>8 DEF ops, p, y

LEMMA BitPlace ==
    ASSUME NEW m \in DOMAIN BitCode, NEW k \in 0 .. 7, NEW t \in Places
    PROVE  Shown(Asm(m, <<Imm8(k), t.op>>,
                     t.pre \o <<\hCB>> \o t.post \o <<BitCode[m] + 8 * k + t.num>>))
  <1> DEFINE z == t.num
             q == BitCode[m] + 8 * k + z
             op == t.op
             bit == Imm8(k)
  <1>1. PICK x \in 1 .. 3 : BitCode[m] = 64 * x /\ bit_tab[x] = m
    BY BitNumber
  <1> DEFINE p == 64 * x + 8 * k + z
  <1>2. z \in 0 .. 7
    BY PlaceKinds
  <1>3. p \in Byte
    BY <1>2 DEF Byte
  <1>4. Given(bit)
    BY GivenImm8 DEF Byte
  <1>5. ASSUME t.pre = <<>>
        PROVE  Shown(Asm(m, <<bit, op>>, <<\hCB, p>>))
    <2>1. OpR(z, "none") = op /\ Given(op)
      BY <1>5, PlaceBare
    <2> HIDE DEF z
    <2>2. CodeBit(p, bit_tab[x], <<bit, OpR(z, "none")>>)
      BY <1>2, CodesBit
    <2> HIDE DEF op, p, bit
    <2>3. Gives(<<bit, op>>, <<>>, <<bit, op>>)
      BY <1>4, <2>1, GivesGivenTwo
    <2> QED
      BY <1>1, <2>1, <2>2, <2>3, ShownBit
  <1>6. ASSUME NEW d \in Byte, t.pre = <<\hDD>>, t.post = <<d>>
        PROVE  Shown(Asm(m, <<bit, op>>, <<\hDD, \hCB>> \o <<d, p>>))
    <2>1. z = 6 /\ op = IndexRel("IX", Signed(d)) /\ Given(op)
      BY <1>6, PlaceIx
    <2>2. p = 64 * x + 8 * k + 6
      BY <2>1
    <2> HIDE DEF op, z, p
    <2>3. CodeIndexedBit(p, d, bit_tab[x], <<bit, op>>)
      BY <2>1, <2>2, CodesIndexedBit
    <2> HIDE DEF bit
    <2>4. Gives(<<bit, op>>, <<>>, <<bit, op>>)
      BY <1>4, <2>1, GivesGivenTwo
    <2> QED
      BY <1>1, <2>3, <2>4, ShownIndexedBit
  <1>7. p = q
    BY <1>1
  <1> DEFINE ops == <<bit, op>>
  <1> HIDE DEF ops, p
  <1>8. t.pre = <<>> => Shown(Asm(m, ops, <<\hCB, p>>))
    BY <1>5 DEF ops
  <1>9. \A d \in Byte : t.pre = <<\hDD>> /\ t.post = <<d>> =>
            Shown(Asm(m, ops, <<\hDD, \hCB>> \o <<d, p>>))
    BY <1>6 DEF ops
  <1>10. Shown(Asm(m, ops, t.pre \o <<\hCB>> \o t.post \o <<p>>))
    BY <1>3, <1>8, <1>9, ShownAtBit
  <1> HIDE DEF q
  <1>11. Shown(Asm(m, ops, t.pre \o <<\hCB>> \o t.post \o <<q>>))
    BY <1>7, <1>10
  <1> QED
    BY <1>11 DEF ops, q

LEMMA RotateAccumulator ==
    /\ Shown(Asm("RLCA", <<>>, <<\h07>>)) /\ Shown(Asm("RLA", <<>>, <<\h17>>))
    /\ Shown(Asm("RRCA", <<>>, <<\h0F>>)) /\ Shown(Asm("RRA", <<>>, <<\h1F>>))
    /\ Shown(Asm("RLD", <<>>, <<\hED, \h6F>>)) /\ Shown(Asm("RRD", <<>>, <<\hED, \h67>>))
  <1>1. \A p, m : Code(p, "none", m, <<>>) => Shown(Asm(m, <<>>, <<p>>))
    BY GivesNone, ShownBare
  <1>2. /\ Shown(Asm("RLCA", <<>>, <<\h07>>)) /\ Shown(Asm("RLA", <<>>, <<\h17>>))
        /\ Shown(Asm("RRCA", <<>>, <<\h0F>>)) /\ Shown(Asm("RRA", <<>>, <<\h1F>>))
    BY <1>1, CodesAccumulator
  <1>3. Shown(Asm("RLD", <<>>, <<\hED, \h6F>>))
    BY CodesSpecial, GivesNone, ShownBareExtended
  <1>4. Shown(Asm("RRD", <<>>, <<\hED, \h67>>))
    BY CodesSpecial, GivesNone, ShownBareExtended
  <1> QED
    BY <1>2, <1>3, <1>4

LEMMA RotateAndBitShown == \A i \in RotateAndBit : Shown(i)
  <1> DEFINE rota == {Asm("RLCA", <<>>, <<\h07>>), Asm("RLA", <<>>, <<\h17>>),
                      Asm("RRCA", <<>>, <<\h0F>>), Asm("RRA", <<>>, <<\h1F>>),
                      Asm("RLD", <<>>, <<\hED, \h6F>>), Asm("RRD", <<>>, <<\hED, \h67>>)}
             Rot(m, t) == Asm(m, <<t.op>>,
                              t.pre \o <<\hCB>> \o t.post \o <<8 * RotNum[m] + t.num>>)
             Bits(m, k, t) == Asm(m, <<Imm8(k), t.op>>,
                                  t.pre \o <<\hCB>> \o t.post
                                      \o <<BitCode[m] + 8 * k + t.num>>)
  <1>1. \A i \in rota : Shown(i)
    BY RotateAccumulator
  <1>2. \A m \in DOMAIN RotNum, t \in Places : Shown(Rot(m, t))
    BY RotatePlace
  <1>3. \A m \in DOMAIN BitCode, k \in 0 .. 7, t \in Places : Shown(Bits(m, k, t))
    BY BitPlace
  <1>4. RotateAndBit = rota
                         \cup {Rot(m, t) : m \in DOMAIN RotNum, t \in Places}
                         \cup {Bits(m, k, t) :
                                 m \in DOMAIN BitCode, k \in 0 .. 7, t \in Places}
    BY DEF RotateAndBit, RotNum, BitCode
  <1> HIDE DEF rota, Rot, Bits
  <1> QED
    BY <1>1, <1>2, <1>3, <1>4

WithByte == LoadByte \cup AluByte

LEMMA WithByteShown == \A i \in WithByte : ShownAs(TRUE, i)
  <1> DEFINE Load(t, n) == Asm("LD", <<t.op, Imm8(n)>>,
                               t.pre \o <<6 + 8 * t.num>> \o t.post \o <<n>>)
             Alu(m, n) == Asm(m, AluAcc(m) \o <<Imm8(n)>>, <<\hC6 + 8 * AluNum[m], n>>)
             ByWord(i) == ShownAs(TRUE, i)
  <1>1. \A i \in LoadByte : ByWord(i)
    <2>1. \A t \in Places, n \in ByteArgs : ByWord(Load(t, n))
      BY LoadImmediate
    <2>2. LoadByte = {Load(t, n) : t \in Places, n \in ByteArgs}
      BY DEF LoadByte
    <2> HIDE DEF Load, ByWord
    <2> QED
      BY <2>1, <2>2
  <1>2. \A i \in AluByte : ByWord(i)
    <2>1. \A m \in DOMAIN AluNum, n \in ByteArgs : ByWord(Alu(m, n))
      BY AluImmediate
    <2>2. AluByte = {Alu(m, n) : m \in DOMAIN AluNum, n \in ByteArgs}
      BY DEF AluByte
    <2> HIDE DEF Alu, ByWord
    <2> QED
      BY <2>1, <2>2
  <1> QED
    BY <1>1, <1>2 DEF WithByte

LEMMA DocumentedShown == \A i \in Documented : i \in WithByte \/ Shown(i)
  BY Load8Shown, Load16Shown, ExchangeAndBlockShown, ArithmeticShown, ControlShown,
     RotateAndBitShown, JumpShown, InputOutputShown DEF Documented, WithByte

-----------------------------------------------------------------------------
(***************************************************************************)
(* The slips: none of them is listed as what it is.                        *)
(***************************************************************************)
\* Another mnemonic, another length, or an operand that is another one and no word.
Other(inst, i) ==
    \/ inst.mnemoric # i.mnemoric
    \/ inst.size # Len(i.bytes)
    \/ \E j \in 1 .. Len(i.operands) :
           inst.operands[j] # i.operands[j] /\ inst.operands[j].type # "U16"
Missed(i) ==
    \A b \in Seq(Byte), junk \in Byte :
        IsPrefix(i.bytes, b) => Other(Disassemble(b, junk), i)

\* Listed exactly: the operands are the ones given.
LEMMA ListedExactly ==
    ASSUME NEW m, NEW ops, NEW bytes, Listed(Asm(m, ops, bytes)),
           NEW b \in Seq(Byte), NEW junk \in Byte, IsPrefix(bytes, b)
    PROVE  LET inst == Disassemble(b, junk)
           IN /\ inst.mnemoric = m /\ inst.size = Len(bytes)
              /\ \A j \in 1 .. Len(ops) : inst.operands[j] = ops[j]
  <1> DEFINE i == Asm(m, ops, bytes)
             inst == Disassemble(b, junk)
  <1>1. i.mnemoric = m /\ i.operands = ops /\ i.bytes = bytes
    BY DEF Asm
  <1>2. ListedAs(FALSE, i)
    BY Zenon DEF Listed
  <1> HIDE DEF i
  <1>3. ASSUME NEW word \in BOOLEAN, word = FALSE
        PROVE  Meets(word, inst, i)
    <2>1. ListedAs(word, i)
      BY <1>2, <1>3, Zenon
    <2> QED
      BY <1>1, <2>1 DEF ListedAs
  <1> HIDE DEF inst
  <1>4. ASSUME NEW word \in BOOLEAN, word = FALSE
        PROVE  /\ inst.mnemoric = m /\ inst.size = Len(bytes)
               /\ \A j \in 1 .. Len(ops) : inst.operands[j] = ops[j]
    <2>1. Meets(word, inst, i)
      BY <1>3, <1>4
    <2>2. inst.mnemoric = m /\ inst.size = Len(bytes) /\ Alike(word, inst.operands, ops)
      BY <1>1, <2>1 DEF Meets
    <2>3. ASSUME NEW j \in 1 .. Len(ops)
          PROVE  inst.operands[j] = ops[j]
      BY <1>4, <2>2 DEF Alike, Matches
    <2> QED
      BY <2>2, <2>3
  <1>5. FALSE \in BOOLEAN
    OBVIOUS
  <1>6. /\ inst.mnemoric = m /\ inst.size = Len(bytes)
        /\ \A j \in 1 .. Len(ops) : inst.operands[j] = ops[j]
    BY <1>4, <1>5, Zenon
  <1> QED
    BY <1>6 DEF inst

\* What is listed as another instruction is missed.
LEMMA MissedName ==
    ASSUME NEW m, NEW ops, NEW bytes, NEW other, NEW made,
           Listed(Asm(other, made, bytes)), m # other
    PROVE  Missed(Asm(m, ops, bytes))
  <1> DEFINE i == Asm(m, ops, bytes)
  <1>1. i.mnemoric = m /\ i.bytes = bytes
    BY DEF Asm
  <1> HIDE DEF i
  <1>2. ASSUME NEW b \in Seq(Byte), NEW junk \in Byte, IsPrefix(bytes, b)
        PROVE  Disassemble(b, junk).mnemoric # m
    BY <1>2, ListedExactly
  <1>3. Missed(i)
    BY <1>1, <1>2 DEF Missed, Other
  <1> QED
    BY <1>3 DEF i

LEMMA MissedOperand ==
    ASSUME NEW m, NEW ops, NEW bytes, NEW made, Listed(Asm(m, made, bytes)),
           Len(made) = Len(ops), NEW j \in 1 .. Len(ops),
           made[j] # ops[j], made[j].type # "U16"
    PROVE  Missed(Asm(m, ops, bytes))
  <1> DEFINE i == Asm(m, ops, bytes)
  <1>1. i.operands = ops /\ i.bytes = bytes
    BY DEF Asm
  <1> HIDE DEF i
  <1>2. ASSUME NEW b \in Seq(Byte), NEW junk \in Byte, IsPrefix(bytes, b)
        PROVE  Disassemble(b, junk).operands[j] = made[j]
    <2>1. j \in 1 .. Len(made)
      OBVIOUS
    <2> QED
      BY <1>2, <2>1, ListedExactly
  <1>3. Missed(i)
    BY <1>1, <1>2 DEF Missed, Other
  <1> QED
    BY <1>3 DEF i

\* The operations behind 0xED for x = 2 go by y alone.
LEMMA BlockMissed == \A i \in Block : Missed(i)
  <1> DEFINE names == << <<"LDI", "CPI", "INI", "OUTI">>, <<"LDD", "CPD", "IND", "OUTD">>,
                         <<"LDIR", "CPIR", "INIR", "OTIR">>,
                         <<"LDDR", "CPDR", "INDR", "OTDR">> >>
             One(j, k) == Asm(names[j + 1][k + 1], <<>>, <<\hED, \hA0 + 8 * j + k>>)
             made == <<"RRD", "RLD", "NOP", "NOP">>
  <1>1. ASSUME NEW j \in 0 .. 3, NEW k \in 0 .. 3
        PROVE  names[j + 1][k + 1] # made[j + 1]
    OBVIOUS
  <1>2. ASSUME NEW j \in 0 .. 3
        PROVE  ExtendedByY(4 + j) = Inst(made[j + 1], <<>>)
    BY DEF ExtendedByY, Plain
  <1> HIDE DEF names, made
  <1>3. ASSUME NEW j \in 0 .. 3, NEW k \in 0 .. 3
        PROVE  Missed(One(j, k))
    <2> DEFINE p == \hA0 + 8 * j + k
               other == made[j + 1]
    <2>1. p = Fields(2, 4 + j, k) /\ 2 \in 0 .. 3 /\ 4 + j \in 0 .. 7 /\ k \in 0 .. 7
      BY DEF Fields
    <2>2. Extended(2, 4 + j, k) = Inst(other, <<>>)
      BY <1>2 DEF Extended
    <2> HIDE DEF p, other
    <2>3. CodeExtended(p, other, <<>>)
      BY <2>1, <2>2, Zenon DEF CodeExtended
    <2>4. Listed(Asm(other, <<>>, <<\hED, p>>))
      BY <2>3, GivesNone, ShownBareExtended
    <2>5. names[j + 1][k + 1] # other
      BY <1>1 DEF other
    <2>6. Missed(Asm(names[j + 1][k + 1], <<>>, <<\hED, p>>))
      BY <2>4, <2>5, MissedName
    <2> QED
      BY <2>6 DEF p
  <1>4. Block = {One(j, k) : j \in 0 .. 3, k \in 0 .. 3}
    BY DEF Block, names
  <1> HIDE DEF One
  <1> QED
    BY <1>3, <1>4

LEMMA CodesMissed ==
    /\ Code(\h12, "none", "LD", <<R16Deref("BC"), R8("A")>>)
    /\ Code(\h08, "none", "EX", <<R8("A"), AfShadow>>)
    /\ CodeExtended(\h5F, "LD", <<R8("A"), R8("I")>>)
  <1> DEFINE a == R8("A")
             bc == R16Deref("BC")
  <1>1. RegularX0(2, 2, "none") = Inst("LD", <<bc, a>>)
    BY DEF RegularX0
  <1>2. RegularX0(1, 0, "none") = Inst("EX", <<a, AfShadow>>)
    BY DEF RegularX0
  <1>3. ExtendedX1(3, 7) = Inst("LD", <<a, R8("I")>>)
    BY DEF ExtendedX1, ExtendedByY
  <1> HIDE DEF a, bc
  <1>4. /\ \h12 = 8 * 2 + 2 /\ \h08 = 8 * 1 + 0 /\ \h5F = 64 + 8 * 3 + 7
        /\ \A y \in {0, 1, 2, 3, 7} : y \in 0 .. 7
    OBVIOUS
  <1>5. Code(\h12, "none", "LD", <<bc, a>>) /\ Code(\h08, "none", "EX", <<a, AfShadow>>)
    BY <1>1, <1>2, <1>4, CodeX0
  <1>6. CodeExtended(\h5F, "LD", <<a, R8("I")>>)
    BY <1>3, <1>4, CodeExtendedX1
  <1> QED
    BY <1>5, <1>6 DEF a, bc

LEMMA ListedBehindIx ==
    ASSUME NEW p, NEW m, NEW forms, Code(p, "IX", m, forms),
           NEW ops, Gives(forms, <<>>, ops)
    PROVE  Listed(Asm(m, ops, <<\hDD, p>>))
  <1> DEFINE none == <<>>
             head == <<\hDD, p>>
  <1>1. none \in Seq(Byte) /\ Gives(forms, none, ops)
    BY BytesSeq
  <1>2. head \o none = head
    BY BehindNone
  <1> HIDE DEF none
  <1>3. ASSUME NEW word \in BOOLEAN, word = FALSE
        PROVE  ListedAs(word, Asm(m, ops, <<\hDD, p>> \o none))
    <2>1. GivesAs(word, forms, none, ops)
      BY <1>1, <1>3, Zenon DEF Gives
    <2> QED
      BY <1>1, <2>1, ShownIndexedAs
  <1>4. Listed(Asm(m, ops, head \o none))
    BY <1>3, Zenon DEF Listed
  <1> HIDE DEF head
  <1>5. Listed(Asm(m, ops, head))
    BY <1>2, <1>4
  <1> QED
    BY <1>5 DEF head

\* 0xDF is taken for a prefix, so whatever it begins has two bytes or is cut off.
LEMMA RestartMissed == Missed(Asm("RST", <<Imm8(24)>>, <<\hDF>>))
  <1> DEFINE bytes == <<\hDF>>
             i == Asm("RST", <<Imm8(24)>>, bytes)
  <1>1. bytes \in Seq(Byte) /\ Len(bytes) = 1 /\ bytes[1] = \hDF
    <2>1. \hDF \in Byte
      BY DEF Byte
    <2> QED
      BY <2>1, BytesSeq
  <1>2. i.mnemoric = "RST" /\ i.bytes = bytes
    BY DEF Asm
  <1> HIDE DEF i
  <1>3. ASSUME NEW b \in Seq(Byte), NEW junk \in Byte, IsPrefix(bytes, b)
        PROVE  Other(Disassemble(b, junk), i)
    <2> DEFINE inst == Disassemble(b, junk)
    <2>1. ReadU8(b, 0 + 1) = \hDF
      <3>1. Stands(bytes, b, 0)
        BY <1>1, <1>3, StandsFirst
      <3> QED
        BY <3>1, StandsOne
    <2>2. InstIndex(b) = "IY"
      BY <2>1 DEF InstIndex, Index
    <2>3. OpcodeAt(b) \in {2, 4}
      BY <2>2 DEF OpcodeAt
    <2>4. Reads(b) >= 2
      BY <2>3, InstForms DEF Reads
    <2>5. /\ inst.mnemoric = IF Reads(b) > Len(b) THEN "INVALID" ELSE InstAt(b).mnemoric
          /\ inst.size = IF Reads(b) > Len(b) THEN Len(b) ELSE Reads(b)
      BY InstRead
    <2>6. Reads(b) \in Int /\ Len(b) \in Int
      BY InstForms
    <2> HIDE DEF inst
    <2>7. inst.mnemoric = "INVALID" \/ inst.size # 1
      BY <2>4, <2>5, <2>6
    <2>8. inst.mnemoric # i.mnemoric \/ inst.size # Len(i.bytes)
      BY <1>1, <1>2, <2>7
    <2>9. Other(inst, i)
      BY <2>8 DEF Other
    <2> QED
      BY <2>9 DEF inst
  <1>4. Missed(i)
    BY <1>2, <1>3 DEF Missed
  <1> QED
    BY <1>4 DEF i

LEMMA SinglesMissed == \A i \in SingleSlips : Missed(i)
  <1> DEFINE a == R8("A")
  <1>1. Missed(Asm("LD", <<R16Deref("DE"), A>>, <<\h12>>))
    <2> DEFINE ops == <<R16Deref("DE"), A>>
               made == <<R16Deref("BC"), R8("A")>>
    <2>1. Gives(made, <<>>, made)
      BY GivenNamed, GivesGivenTwo
    <2>2. Listed(Asm("LD", made, <<\h12>>))
      BY <2>1, CodesMissed, ShownBare
    <2>3. Len(made) = Len(ops) /\ 1 \in 1 .. Len(ops) /\ made[1] # ops[1] /\ made[1].type # "U16"
      BY DEF R16Deref
    <2> HIDE DEF ops, made
    <2>4. Missed(Asm("LD", ops, <<\h12>>))
      BY <2>2, <2>3, MissedOperand
    <2> QED
      BY <2>4 DEF ops
  <1>2. Missed(Asm("EX", <<R16("AF"), AfShadow>>, <<\h08>>))
    <2> DEFINE ops == <<R16("AF"), AfShadow>>
               made == <<R8("A"), AfShadow>>
    <2>1. Gives(made, <<>>, made)
      BY GivenNamed, GivenAfShadow, GivesGivenTwo
    <2>2. Listed(Asm("EX", made, <<\h08>>))
      BY <2>1, CodesMissed, ShownBare
    <2>3. Len(made) = Len(ops) /\ 1 \in 1 .. Len(ops) /\ made[1] # ops[1] /\ made[1].type # "U16"
      BY DEF R16, R8
    <2> HIDE DEF ops, made
    <2>4. Missed(Asm("EX", ops, <<\h08>>))
      BY <2>2, <2>3, MissedOperand
    <2> QED
      BY <2>4 DEF ops
  <1>3. Missed(Asm("LD", <<A, R8("R")>>, <<\hED, \h5F>>))
    <2> DEFINE ops == <<A, R8("R")>>
               made == <<R8("A"), R8("I")>>
               bytes == <<\hED, \h5F>>
    <2>1. Gives(made, <<>>, made)
      BY GivenNamed, GivesGivenTwo
    <2>2. Listed(Asm("LD", made, bytes))
      BY <2>1, CodesMissed, ShownBareExtended
    <2>3. Len(made) = Len(ops) /\ 2 \in 1 .. Len(ops) /\ made[2] # ops[2] /\ made[2].type # "U16"
      BY DEF R8
    <2> HIDE DEF ops, made, bytes
    <2>4. Missed(Asm("LD", ops, bytes))
      BY <2>2, <2>3, MissedOperand
    <2> QED
      BY <2>4 DEF ops, bytes
  <1>4. Missed(Asm("JP", <<R16("IX")>>, <<\hDD, \hE9>>))
    <2> DEFINE ops == <<R16("IX")>>
               made == <<R16("HL")>>
               bytes == <<\hDD, \hE9>>
    <2>1. Gives(made, <<>>, made)
      BY GivenNamed, GivesGiven
    <2>2. Listed(Asm("JP", made, bytes))
      BY <2>1, CodesReturn, ListedBehindIx
    <2>3. Len(made) = Len(ops) /\ 1 \in 1 .. Len(ops) /\ made[1] # ops[1] /\ made[1].type # "U16"
      BY DEF R16
    <2> HIDE DEF ops, made, bytes
    <2>4. Missed(Asm("JP", ops, bytes))
      BY <2>2, <2>3, MissedOperand
    <2> QED
      BY <2>4 DEF ops, bytes
  <1>5. Missed(Asm("LD", <<R16("SP"), R16("IX")>>, <<\hDD, \hF9>>))
    <2> DEFINE ops == <<R16("SP"), R16("IX")>>
               made == <<R16("SP"), R16("HL")>>
               bytes == <<\hDD, \hF9>>
    <2>1. Gives(made, <<>>, made)
      BY GivenNamed, GivesGivenTwo
    <2>2. Listed(Asm("LD", made, bytes))
      BY <2>1, CodesReturn, ListedBehindIx
    <2>3. Len(made) = Len(ops) /\ 2 \in 1 .. Len(ops) /\ made[2] # ops[2] /\ made[2].type # "U16"
      BY DEF R16
    <2> HIDE DEF ops, made, bytes
    <2>4. Missed(Asm("LD", ops, bytes))
      BY <2>2, <2>3, MissedOperand
    <2> QED
      BY <2>4 DEF ops, bytes
  <1> QED
    BY <1>1, <1>2, <1>3, <1>4, <1>5, RestartMissed DEF SingleSlips

\* 0xFD itself decodes to an invalid instruction of one byte.
LEMMA IyPrefixListed == Listed(Asm("INVALID", <<>>, <<\hFD>>))
  <1> DEFINE head == <<\hFD>>
             none == <<>>
  <1>1. head \in Seq(Byte) /\ Len(head) = 1 /\ none \in Seq(Byte)
    BY PrefixBytes, BytesSeq
  <1>2. RegularX3(7, 5, "none") = Inst("INVALID", <<>>)
    BY DEF RegularX3, Plain
  <1>3. \hFD = Fields(3, 7, 5) /\ 3 \in 0 .. 3 /\ 7 \in 0 .. 7 /\ 5 \in 0 .. 7
    BY DEF Fields
  <1>4. Regular(3, 7, 5, "none") = Inst("INVALID", <<>>)
    BY <1>2 DEF Regular
  <1>5. ASSUME NEW b \in Seq(Byte), Stands(head, b, 0)
        PROVE  InstAt(b) = Inst("INVALID", <<>>) /\ OpcodeAt(b) = 1
    <2>1. ReadU8(b, 0 + 1) = \hFD
      BY <1>5, StandsOne
    <2>2. InstIndex(b) = "none" /\ ~InstExtended(b) /\ ~InstBit(b)
      BY <2>1 DEF InstIndex, Index, InstExtended, InstBit
    <2>3. OpcodeAt(b) = 1
      BY <2>2 DEF OpcodeAt
    <2>4. ReadU8(b, OpcodeAt(b)) = Fields(3, 7, 5)
      BY <1>3, <2>1, <2>3
    <2>5. InstAt(b) = Regular(3, 7, 5, InstIndex(b))
      BY <1>3, <2>2, <2>4, InstIs
    <2> QED
      BY <1>4, <2>2, <2>3, <2>5
  <1>6. head \o none = head
    BY BehindNone
  <1> HIDE DEF head
  <1>7. ASSUME NEW word \in BOOLEAN, word = FALSE
        PROVE  ListedAs(word, Asm("INVALID", none, head \o none))
    <2>1. GivesAs(word, none, none, none)
      BY <1>7, GivesNone, Zenon DEF Gives
    <2> HIDE DEF none
    <2>2. \A b \in Seq(Byte) : Stands(head, b, 0) =>
              InstAt(b) = Inst("INVALID", none) /\ OpcodeAt(b) = Len(head)
      BY <1>1, <1>5 DEF none
    <2> QED
      BY <1>1, <2>1, <2>2, ListedBy
  <1> HIDE DEF none
  <1>8. Listed(Asm("INVALID", none, head \o none))
    BY <1>7, Zenon DEF Listed
  <1>9. Listed(Asm("INVALID", none, head))
    BY <1>6, <1>8
  <1> QED
    BY <1>9 DEF head, none

LEMMA FirstOnly ==
    ASSUME NEW c \in Seq(Byte), Len(c) >= 1
    PROVE  SubSeq(c, 1, 1) = <<c[1]>>
  <1> DEFINE s == SubSeq(c, 1, 1)
             t == <<c[1]>>
  <1>1. c[1] \in Byte /\ 1 \in Int /\ Len(c) \in Nat /\ \A i \in 1 .. 1 : c[i] \in Byte
    BY ElementOfSeq
  <1>2. s \in Seq(Byte) /\ Len(s) = 1 /\ s[1] = c[1]
    BY <1>1, SubSeqProperties
  <1>3. t \in Seq(Byte) /\ Len(t) = 1 /\ t[1] = c[1]
    BY <1>1, BytesSeq
  <1> HIDE DEF s, t
  <1>4. s = t
    BY <1>2, <1>3, SeqEqual
  <1> QED
    BY <1>4 DEF s, t

LEMMA MoreThanOne == \A s \in Seq(Byte) : Len(s) > 1 => Len(s) # 1
  <1>1. \A n \in Nat : n > 1 => n # 1
    OBVIOUS
  <1>2. \A s \in Seq(Byte) : Len(s) \in Nat
    OBVIOUS
  <1> QED
    BY <1>1, <1>2, Zenon

LEMMA IyMissed ==
    ASSUME NEW i, i.bytes \in Seq(Byte), i.bytes[1] = \hFD, Len(i.bytes) > 1
    PROVE  Missed(i)
  <1> SUFFICES ASSUME NEW b \in Seq(Byte), NEW junk \in Byte, IsPrefix(i.bytes, b)
               PROVE  Other(Disassemble(b, junk), i)
    BY DEF Missed
  <1>0. Len(i.bytes) # 1
    BY MoreThanOne, Zenon
  <1> DEFINE fd == <<\hFD>>
             s == i.bytes
             inst == Disassemble(b, junk)
  <1>1. Len(fd) = 1 /\ fd[1] = \hFD
    OBVIOUS
  <1>2. s \in Seq(Byte) /\ s[1] = \hFD /\ Len(s) > 1 /\ IsPrefix(s, b) /\ Len(s) \in Nat
    OBVIOUS
  <1> HIDE DEF s
  <1>3. IsPrefix(fd, b)
    <2>1. Len(s) <= Len(b) /\ Len(b) \in Nat /\ SubSeq(s, 1, Len(s)) = SubSeq(b, 1, Len(s))
      BY <1>2 DEF IsPrefix
    <2>2. s[1] = b[1]
      <3>1. 1 \in 1 .. Len(s)
        BY <1>2
      <3>2. SubSeq(s, 1, Len(s))[1] = s[1] /\ SubSeq(b, 1, Len(s))[1] = b[1]
        BY <1>2, <2>1, <3>1
      <3> QED
        BY <2>1, <3>2
    <2>3. 1 <= Len(b)
      BY <1>2, <2>1
    <2>4. SubSeq(b, 1, 1) = <<b[1]>>
      BY <2>1, <2>3, FirstOnly
    <2>5. SubSeq(fd, 1, 1) = <<\hFD>>
      <3>1. fd \in Seq(Byte) /\ Len(fd) >= 1
        BY PrefixBytes, BytesSeq
      <3> HIDE DEF fd
      <3>2. SubSeq(fd, 1, 1) = <<fd[1]>>
        BY <3>1, FirstOnly
      <3>3. fd[1] = \hFD
        BY <1>1
      <3> QED
        BY <3>2, <3>3
    <2> QED
      BY <1>1, <1>2, <2>2, <2>3, <2>4, <2>5 DEF IsPrefix
  <1> HIDE DEF fd
  <1>4. Listed(Asm("INVALID", <<>>, fd))
    BY IyPrefixListed DEF fd
  <1>5. inst.size = Len(fd)
    BY <1>3, <1>4, ListedExactly
  <1> HIDE DEF inst
  <1>6. inst.size # Len(i.bytes)
    BY <1>0, <1>1, <1>5, Zenon
  <1>7. Other(inst, i)
    BY <1>6 DEF Other
  <1> QED
    BY <1>7 DEF inst

LEMMA SlipsMissed == \A i \in Slips : Missed(i)
  <1> SUFFICES ASSUME NEW i \in Slips, i \notin Block \cup SingleSlips
               PROVE  Missed(i)
    BY BlockMissed, SinglesMissed
  <1>1. i \in Documented /\ i.bytes[1] = \hFD
    BY DEF Slips
  <1>2. ASSUME NEW word \in BOOLEAN, ShownAs(word, i)
        PROVE  Missed(i)
    <2>1. i.bytes \in Seq(Byte) /\ Len(i.bytes) > 1
      BY <1>1, <1>2 DEF ShownAs
    <2> QED
      BY <1>1, <2>1, IyMissed
  <1>3. (\E word \in BOOLEAN : ShownAs(word, i))
    <2>1. ShownAs(TRUE, i) \/ ShownAs(FALSE, i)
      BY <1>1, DocumentedShown, WithByteShown, Zenon DEF Shown
    <2>2. TRUE \in BOOLEAN /\ FALSE \in BOOLEAN
      OBVIOUS
    <2> QED
      BY <2>1, <2>2, Zenon
  <1> QED
    BY <1>2, <1>3

\* What is no slip is met, an immediate byte as a word where it is one.
LEMMA OthersMet ==
    ASSUME NEW i \in Documented, i \notin Slips, NEW b \in Seq(Byte), NEW junk \in Byte,
           IsPrefix(i.bytes, b)
    PROVE  Meets(i \in WithByte, Disassemble(b, junk), i)
  <1>1. i \notin Block \cup SingleSlips /\ i.bytes[1] # \hFD
    BY DEF Slips
  <1>2. ASSUME NEW word \in BOOLEAN, ShownAs(word, i)
        PROVE  Meets(word, Disassemble(b, junk), i)
    BY <1>1, <1>2 DEF ShownAs, ListedAs
  <1>3. CASE i \in WithByte
    <2>1. ShownAs(TRUE, i)
      BY <1>3, WithByteShown
    <2>2. (i \in WithByte) = TRUE
      BY <1>3
    <2>3. ASSUME NEW word \in BOOLEAN, word = TRUE
          PROVE  Meets(word, Disassemble(b, junk), i)
      BY <1>2, <2>1, <2>3, Zenon
    <2> QED
      BY <2>2, <2>3, Zenon
  <1>4. CASE i \notin WithByte
    <2>1. ShownAs(FALSE, i)
      BY <1>4, DocumentedShown, Zenon DEF Shown
    <2>2. (i \in WithByte) = FALSE
      BY <1>4
    <2>3. ASSUME NEW word \in BOOLEAN, word = FALSE
          PROVE  Meets(word, Disassemble(b, junk), i)
      BY <1>2, <2>1, <2>3, Zenon
    <2> QED
      BY <2>2, <2>3, Zenon
  <1> QED
    BY <1>3, <1>4

\* Where the bytes start with a documented instruction, it is what is listed, its
\* mnemonic, its operands in order, its length, an immediate byte as a word, unless
\* it is one of the slips, and none of these is (z80_disassemble, against the
\* manual z80.h refers to).
THEOREM DisassemblerListedButSlips == Spec => []ListedButSlips
  <1>1. ListingInv => ListedButSlips
    <2> SUFFICES ASSUME ListingInv, NEW k \in 1 .. Len(listing),
                        NEW i \in Encoded(listing[k].at)
                 PROVE  LET inst == listing[k].inst
                            last == Len(i.operands)
                        IN i \notin Slips <=>
                               /\ inst.mnemoric = i.mnemoric /\ inst.size = Len(i.bytes)
                               /\ Len(inst.operands) = last
                               /\ \A j \in 1 .. last :
                                    IF i \in LoadByte \cup AluByte /\ j = last
                                    THEN ByteAsWord(inst.operands[j], i.operands[j])
                                    ELSE inst.operands[j] = i.operands[j]
      BY DEF ListedButSlips
    <2>1. code \in Seq(Byte) /\ Len(code) \in Nat
      BY CodesAreBytes DEF ListingInv
    <2>2. PICK at \in 0 .. Len(code) - 1, junk \in Junk :
              listing[k].at = at /\ listing[k].inst = Disassemble(Behind(at), junk)
      BY ListedThere
    <2> DEFINE b == Behind(at)
               inst == Disassemble(b, junk)
    <2>3. b \in Seq(Byte) /\ junk \in Byte /\ code[at + 1] \in Byte
      <3>1. at + 1 \in 1 .. Len(code)
        BY <2>1
      <3> QED
        BY <2>1, <3>1, RestOfCode, ElementOfSeq, DisassemblerAssumption
    <2>4. i \in Documented /\ IsPrefix(i.bytes, b)
      <3>1. i \in ByFirst[code[at + 1]] /\ IsPrefix(i.bytes, b)
        BY <2>2 DEF Encoded, Behind
      <3> QED
        BY <2>3, <3>1 DEF ByFirst
    <2> HIDE DEF b
    <2>5. inst = listing[k].inst
      BY <2>2 DEF b
    <2>6. ASSUME i \notin Slips
          PROVE  Meets(i \in WithByte, inst, i)
      BY <2>3, <2>4, <2>6, OthersMet
    <2>7. ASSUME i \in Slips
          PROVE  Other(inst, i)
      BY <2>3, <2>4, <2>7, SlipsMissed DEF Missed
    <2> HIDE DEF inst
    <2>8. ASSUME i \notin Slips
          PROVE  /\ inst.mnemoric = i.mnemoric /\ inst.size = Len(i.bytes)
                 /\ Len(inst.operands) = Len(i.operands)
                 /\ \A j \in 1 .. Len(i.operands) :
                      IF i \in LoadByte \cup AluByte /\ j = Len(i.operands)
                      THEN ByteAsWord(inst.operands[j], i.operands[j])
                      ELSE inst.operands[j] = i.operands[j]
      BY <2>6, <2>8 DEF Meets, Alike, Matches, WithByte
    <2>9. ASSUME i \in Slips
          PROVE  ~ /\ inst.mnemoric = i.mnemoric /\ inst.size = Len(i.bytes)
                   /\ \A j \in 1 .. Len(i.operands) :
                        IF i \in LoadByte \cup AluByte /\ j = Len(i.operands)
                        THEN ByteAsWord(inst.operands[j], i.operands[j])
                        ELSE inst.operands[j] = i.operands[j]
      BY <2>7, <2>9 DEF Other, ByteAsWord
    <2> QED
      BY <2>5, <2>8, <2>9
  <1> QED
    BY DisassemblerInvariant, <1>1, PTL
=============================================================================
