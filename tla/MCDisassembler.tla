--------------------------- MODULE MCDisassembler ---------------------------
(***************************************************************************)
(* Every opcode, under every prefix and under none, whole and cut off,     *)
(* with a tail whose bytes stand for immediates, displacements (of either  *)
(* sign) and further instructions.                                         *)
(***************************************************************************)
EXTENDS Z80InstructionSet

MCByteArgs == {5, 133}
MCJunk == {0, 1}

Tail3 == <<5, 133, 5>>
Opcodes == {<<b>> \o Tail3 : b \in Byte}
Prefixed == {<<p, b>> \o Tail3 : p \in {\hCB, \hDD, \hDF, \hED, \hFD}, b \in Byte}
IndexedBits == {<<p, \hCB, 133, b>> : p \in {\hDD, \hDF, \hFD}, b \in Byte}
PrefixChains == {<<p, q, r, 5>> : p \in {\hDD, \hED}, q \in {\hCB, \hDD, \hED}, r \in {\hCB, \hDD}}
Whole == Opcodes \cup Prefixed \cup IndexedBits \cup PrefixChains

MCCodes == UNION {{SubSeq(c, 1, n) : n \in 1 .. Len(c)} : c \in Whole}

\* What can stand behind the prefix of iy.
MCIyCodes == {<<\hFD, b>> \o Tail3 : b \in Byte}
=============================================================================
