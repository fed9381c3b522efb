------------------------------ MODULE FlashChip ------------------------------
(***************************************************************************)
(* The flash chip on the board (an SST39SF010, U2 of the schematic), as    *)
(* glyco/src/flash.c uses it: a write cycle is a step of the chip's        *)
(* command decoder, and only a complete command sequence changes memory.   *)
(*                                                                         *)
(* A byte is the set of its one-bits, so that programming, which can only  *)
(* clear bits, is intersection.                                            *)
(***************************************************************************)
EXTENDS Integers

Byte == SUBSET (0 .. 7)
Erased == 0 .. 7

\* The command bytes of the chip's data sheet.
xAA == {1, 3, 5, 7}
x55 == {0, 2, 4, 6}
xA0 == {5, 7}
x90 == {4, 7}
xF0 == {4, 5, 6, 7}
x80 == {7}
x30 == {4, 5}
x10 == {4}

\* BFh and B5h, the identifiers commands/flash.c:41-42 calls "ok".
MfgId == {0, 1, 2, 3, 4, 5, 7}
DevId == {0, 2, 4, 5, 7}

\* The chip's sectors are of 4 kilobytes, not of the 16 that flash.h:19 names.
ChipSector(a) == a \div 4096
ChipSelected(a) == a < 131072

\* The decoder compares 15 address bits.
Unlock1 == 21845 \* 5555h
Unlock2 == 10922 \* 2AAAh
Decodes(a, u) == a % 32768 = u

\* mem: the cells; step: how far the decoder is; id: software-ID mode.
Chip(mem) == [mem |-> mem, step |-> "read", id |-> FALSE]

To(chip, s) == [chip EXCEPT !.step = s]

EraseCells(chip, cells) ==
    [chip EXCEPT !.step = "read",
                 !.mem = [a \in DOMAIN chip.mem |->
                            IF a \in cells THEN Erased ELSE chip.mem[a]]]

\* One write cycle: address a, data d.
WriteCycle(chip, a, d) ==
    LET u1 == Decodes(a, Unlock1)
        u2 == Decodes(a, Unlock2)
    IN CASE chip.step = "read" /\ u1 /\ d = xAA -> To(chip, "unlocking")
         [] chip.step = "unlocking" /\ u2 /\ d = x55 -> To(chip, "unlocked")
         [] chip.step = "unlocked" /\ u1 /\ d = xA0 -> To(chip, "program")
         [] chip.step = "unlocked" /\ u1 /\ d = x80 -> To(chip, "erase")
         [] chip.step = "unlocked" /\ u1 /\ d = x90 ->
              [chip EXCEPT !.step = "read", !.id = TRUE]
         [] chip.step = "unlocked" /\ u1 /\ d = xF0 ->
              [chip EXCEPT !.step = "read", !.id = FALSE]
         [] chip.step = "erase" /\ u1 /\ d = xAA -> To(chip, "eraseUnlocking")
         [] chip.step = "eraseUnlocking" /\ u2 /\ d = x55 -> To(chip, "eraseUnlocked")
         [] chip.step = "eraseUnlocked" /\ u1 /\ d = x10 ->
              EraseCells(chip, DOMAIN chip.mem)
         [] chip.step = "eraseUnlocked" /\ d = x30 ->
              EraseCells(chip, {c \in DOMAIN chip.mem : ChipSector(c) = ChipSector(a)})
         [] chip.step = "program" ->
              [chip EXCEPT !.step = "read",
                           !.mem = [c \in DOMAIN chip.mem |->
                                      IF c = a THEN chip.mem[c] \cap d
                                               ELSE chip.mem[c]]]
         [] OTHER -> To(chip, "read")

\* What the chip drives when its output is enabled.
ReadCycle(chip, a) ==
    IF chip.id THEN (IF a % 2 = 0 THEN MfgId ELSE DevId) ELSE chip.mem[a]

ChipType(mems) ==
    [mem : mems, id : BOOLEAN,
     step : {"read", "unlocking", "unlocked", "program", "erase",
             "eraseUnlocking", "eraseUnlocked"}]
=============================================================================
