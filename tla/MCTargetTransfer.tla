-------------------------- MODULE MCTargetTransfer --------------------------
(***************************************************************************)
(* An address space of 32 bytes, packets of 6 data bytes, flash sectors of *)
(* 2 bytes erased at a stride of 8: the proportion of the code's 0x1000 to *)
(* 0x4000.  The blocks take several packets, start in the middle of a      *)
(* sector, cross from flash to RAM, and wrap around; one starts just past  *)
(* the end of the address space, which the range check lets through; one   *)
(* is empty, and one a byte longer than the address space.                 *)
(***************************************************************************)
EXTENDS TargetTransfer

MCBits == {0, 1}
MCInitMem == [x \in Addresses |-> CASE x % 3 = 0 -> {0}
                                    [] x % 3 = 1 -> {0, 1}
                                    [] OTHER -> {}]
Pattern(n) == [j \in 1 .. n |-> CASE j % 4 = 0 -> {}
                                  [] j % 4 = 1 -> {1}
                                  [] j % 4 = 2 -> {0, 1}
                                  [] OTHER -> {0}]
Block(a, n) == [address |-> a, data |-> Pattern(n)]

MCWrites == {Block(17, 7), Block(30, 5), Block(20, 30), Block(3, 6), Block(14, 4),
             Block(32, 1), Block(5, 0), Block(0, 33)}
MCReads == {[address |-> 0, amt |-> 6], [address |-> 29, amt |-> 13],
            [address |-> 32, amt |-> 1]}
=============================================================================
