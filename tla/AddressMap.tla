----------------------------- MODULE AddressMap -----------------------------
(***************************************************************************)
(* The address space that glydb, the coprocessor and the Z80's memory      *)
(* share (common/glycon.h): flash below, RAM above.  And the ranges that   *)
(* glydb's command handlers let through to the functions of target.c,      *)
(* which check nothing themselves: no other request is made                *)
(* (HandlersRequestsTaken of CommandHandlersProofs), and TargetTransfer    *)
(* takes these as its input.                                               *)
(***************************************************************************)
EXTENDS Naturals

CONSTANT HalfSpace   \* GLYCON_RAM_MASK, 0x20000

ASSUME HalfSpaceAssumption == HalfSpace \in Nat \ {0}

AddrSpace == 2 * HalfSpace   \* GLYCON_ADDRSPACE_SIZE, GLYCON_RAM_END
FlashEnd == HalfSpace        \* GLYCON_FLASH_END

\* glycon.h:24-30, of an address of any width.
IsRam(a) == (a \div HalfSpace) % 2 = 1
IsFlash(a) == ~IsRam(a)

\* The address just past the end is let through, and so is a byte past it.
WriteRequest(a, n) == a \in 0 .. AddrSpace /\ n \in 0 .. AddrSpace + 1
ReadRequest(a, n) == a \in 0 .. AddrSpace /\ n \in 1 .. AddrSpace
EraseRequest(a) == a \in 0 .. AddrSpace /\ IsFlash(a)
=============================================================================
