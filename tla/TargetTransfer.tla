--------------------------- MODULE TargetTransfer ---------------------------
(***************************************************************************)
(* The commands of glydb that move blocks of bytes (commands/memory.c and  *)
(* commands/flash.c) over the transfer functions of target.c: what they    *)
(* check, how they cut a block into packets, and what the target's memory  *)
(* holds when every packet arrives, and when one fails.                    *)
(*                                                                         *)
(* One step is one target_exec_cmd.  What a packet does to memory is what  *)
(* CoprocBus shows of the handlers (CommandEffect).  A packet reported as  *)
(* failed may have been carried out, when its reply came late (DebugLink); *)
(* a line that loses bytes, and so garbles packets, is not considered.     *)
(***************************************************************************)
EXTENDS AddressMap, Sequences

CONSTANTS SectorStride,  \* GLYCON_FLASH_SECTOR_SIZE, 0x4000
          ChipSector,    \* sector size of the flash chip, 0x1000
          MaxDataLength, \* BDBP_MAX_DATA_LENGTH, 255
          Bits,          \* the bits of a byte; a byte is the set of its ones
          Writes,        \* the blocks written: [address, data]
          Reads,         \* the blocks read: [address, amt]
          InitMem,       \* what memory holds at first
          MaxCommands    \* bound: commands started

AddrSize == 3                \* BDBP_ADDR_SIZE
Byte == SUBSET Bits
Erased == Bits
Addresses == 0 .. AddrSpace - 1

ASSUME TransferAssumption ==
    /\ SectorStride \in Nat \ {0} /\ ChipSector \in Nat \ {0}
    /\ MaxDataLength \in AddrSize + 1 .. AddrSpace
    /\ Writes \subseteq [address : Nat, data : Seq(Byte)]
    /\ \A w \in Writes : WriteRequest(w.address, Len(w.data))
    /\ Reads \subseteq [address : Nat, amt : Nat]
    /\ \A r \in Reads : ReadRequest(r.address, r.amt)
    /\ InitMem \in [Addresses -> Byte]
    /\ MaxCommands \in Nat

\* bdbp_pkt_append_addr sends 20 bits, of which pinout_write_addr puts 18 on
\* the bus: the address space, and eight halves of it.
PacketAddr(a) == a % (8 * HalfSpace)
BusAddr(a) == a % AddrSpace

VARIABLES phase,   \* what the command is doing
          kind,    \* of the command: "memory" and "flash" are the writes
          address, \* of the block
          data,    \* the block written
          amt,     \* bytes asked for
          i,       \* bytes of the block done, or the next address to erase
          scratch, \* dbg->scratch: bytes read
          mem,     \* the target's memory
          outcome, \* how the last command ended
          program, \* ghost: the command is `flash program`
          base,    \* ghost: memory when the block began to be written
          tried,   \* ghost: bytes of the block sent, i and a failed packet's
          commands \* ghost: commands started

block == <<kind, address, data, amt, program>>
vars == <<phase, block, i, scratch, mem, outcome, base, tried, commands>>

Init ==
    /\ phase = "idle" /\ kind = "memory" /\ address = 0
    /\ data = <<>> /\ amt = 0 /\ i = 0 /\ scratch = <<>>
    /\ mem = InitMem /\ outcome = "none"
    /\ program = FALSE /\ base = InitMem /\ tried = 0 /\ commands = 0

-----------------------------------------------------------------------------
(***************************************************************************)
(* What a packet does to memory: cmd_write reaches RAM only, as flash does *)
(* not see its strobe; cmd_flash skips RAM, and programming clears bits;   *)
(* cmd_erase_sector skips RAM.                                             *)
(***************************************************************************)
PlacedAt(a, d, x) == {j \in 1 .. Len(d) : BusAddr(a + j - 1) = x}
Latest(s) == CHOOSE j \in s : \A k \in s : k <= j

RamWritten(m, a, d) ==
    [x \in Addresses |-> IF IsRam(x) /\ PlacedAt(a, d, x) # {}
                         THEN d[Latest(PlacedAt(a, d, x))] ELSE m[x]]

\* Mutant of FlashWritten: without flash_byte_program's check of the address.
EveryByteWritten(m, a, d) ==
    [x \in Addresses |-> {b \in m[x] : \A j \in PlacedAt(a, d, x) : b \in d[j]}]

FlashWritten(m, a, d) ==
    [x \in Addresses |-> IF IsFlash(x)
                         THEN {b \in m[x] : \A j \in PlacedAt(a, d, x) : b \in d[j]}
                         ELSE m[x]]

Written(k, m, a, d) == IF k = "memory" THEN RamWritten(m, a, d)
                                       ELSE FlashWritten(m, a, d)

SectorErased(m, a) ==
    [x \in Addresses |->
        IF IsFlash(a) /\ IsFlash(x) /\ x \div ChipSector = BusAddr(a) \div ChipSector
        THEN Erased ELSE m[x]]

ChipErased(m) == [x \in Addresses |-> IF IsFlash(x) THEN Erased ELSE m[x]]

ReadFrom(m, a, n) == [j \in 1 .. n |-> m[BusAddr(a + j - 1)]]

-----------------------------------------------------------------------------
(***************************************************************************)
(* The commands.  Their handlers have bounded the addresses and amounts    *)
(* (AddressMap; HandlersRequestsTaken of CommandHandlersProofs).           *)
(***************************************************************************)

Start ==
    /\ phase = "idle" /\ commands < MaxCommands
    /\ commands' = commands + 1
    /\ i' = 0 /\ tried' = 0 /\ base' = mem /\ scratch' = <<>>

\* memory_write_op and flash_write_op: the base address decides.  A block that
\* goes past the end is complained of, and written.
StartWrite(k, w) ==
    /\ Start
    /\ kind' = k /\ address' = w.address /\ data' = w.data /\ amt' = 0
    /\ program' = FALSE
    /\ \/ /\ (k = "memory") = IsRam(w.address)
          /\ phase' = "write" /\ outcome' = "none"
       \/ /\ (k = "memory") # IsRam(w.address)
          /\ phase' = "idle" /\ outcome' = "rejected"
    /\ UNCHANGED mem

\* flash_program; the base address is checked after the erasing.
StartProgram(w) ==
    /\ Start
    /\ kind' = "flash" /\ address' = w.address /\ data' = w.data /\ amt' = 0
    /\ program' = TRUE
    /\ phase' = "erase" /\ outcome' = "none"
    /\ UNCHANGED mem

\* One sector of flash_program's loop.
EraseNext ==
    /\ phase = "erase" /\ i < FlashEnd
    /\ \/ /\ mem' = SectorErased(mem, PacketAddr(i))
          /\ i' = i + SectorStride
          /\ UNCHANGED <<phase, outcome>>
       \/ /\ mem' \in {mem, SectorErased(mem, PacketAddr(i))}
          /\ phase' = "idle" /\ outcome' = "failed" /\ i' = 0
    /\ base' = mem'
    /\ UNCHANGED <<block, scratch, tried, commands>>

\* Mutant of EraseDone: the index is not reset.
EraseDoneKeepsIndex ==
    /\ phase = "erase" /\ i >= FlashEnd
    /\ \/ IsFlash(address) /\ phase' = "write" /\ UNCHANGED outcome
       \/ IsRam(address) /\ phase' = "idle" /\ outcome' = "rejected"
    /\ UNCHANGED <<block, i, scratch, mem, base, tried, commands>>

\* The end of the loop, and flash_write_op's check.
EraseDone ==
    /\ phase = "erase" /\ i >= FlashEnd
    /\ i' = 0
    /\ \/ IsFlash(address) /\ phase' = "write" /\ UNCHANGED outcome
       \/ IsRam(address) /\ phase' = "idle" /\ outcome' = "rejected"
    /\ UNCHANGED <<block, scratch, mem, base, tried, commands>>

Smaller(a, b) == IF a < b THEN a ELSE b

\* Mutant of WriteChunk: no room is kept for the address.
WholePacket == Smaller(MaxDataLength, Len(data) - i)

\* target_write: a packet holds the address and as many bytes as fit.
WriteChunk == Smaller(MaxDataLength - AddrSize, Len(data) - i)

\* Mutant of WritePacket: every packet is sent to the address of the first.
WriteSameAddress ==
    /\ phase = "write" /\ i < Len(data)
    /\ LET bytes == SubSeq(data, i + 1, i + WriteChunk)
           after == Written(kind, mem, PacketAddr(address), bytes)
       IN \/ /\ mem' = after
             /\ UNCHANGED <<phase, outcome>>
          \/ /\ mem' \in {mem, after}
             /\ phase' = "idle" /\ outcome' = "failed"
    /\ i' = i + WriteChunk /\ tried' = i
    /\ UNCHANGED <<block, scratch, base, commands>>

WritePacket ==
    /\ phase = "write" /\ i < Len(data)
    /\ LET bytes == SubSeq(data, i + 1, i + WriteChunk)
           after == Written(kind, mem, PacketAddr(address + i), bytes)
       IN \/ /\ mem' = after
             /\ UNCHANGED <<phase, outcome>>
          \/ /\ mem' \in {mem, after}
             /\ phase' = "idle" /\ outcome' = "failed"
    /\ i' = i + WriteChunk /\ tried' = i
    /\ UNCHANGED <<block, scratch, base, commands>>

WriteDone ==
    /\ phase = "write" /\ i = Len(data)
    /\ phase' = "idle" /\ outcome' = "done" /\ tried' = i
    /\ UNCHANGED <<block, i, scratch, mem, base, commands>>

\* memory_read
StartRead(r) ==
    /\ Start
    /\ kind' = "read" /\ address' = r.address /\ data' = <<>> /\ amt' = r.amt
    /\ program' = FALSE
    /\ phase' = "read" /\ outcome' = "none"
    /\ UNCHANGED mem

\* Mutant of ReadChunk: room is kept for an address.
ReadShortChunk == Smaller(MaxDataLength - AddrSize, amt - i)

ReadChunk == Smaller(MaxDataLength, amt - i)

\* target_read_memory: each round but the last advances by a whole packet.
ReadPacket ==
    /\ phase = "read" /\ i < amt
    /\ \/ /\ scratch' = scratch \o ReadFrom(mem, PacketAddr(address + i), ReadChunk)
          /\ i' = i + MaxDataLength
          /\ UNCHANGED <<phase, outcome>>
       \/ /\ phase' = "idle" /\ outcome' = "failed"
          /\ UNCHANGED <<scratch, i>>
    /\ UNCHANGED <<block, mem, base, tried, commands>>

\* Mutant of ReadDone: the loop ends only at the amount itself.
ReadDoneExactly ==
    /\ phase = "read" /\ i = amt
    /\ phase' = "idle" /\ outcome' = "done"
    /\ UNCHANGED <<block, i, scratch, mem, base, tried, commands>>

ReadDone ==
    /\ phase = "read" /\ i >= amt
    /\ phase' = "idle" /\ outcome' = "done"
    /\ UNCHANGED <<block, i, scratch, mem, base, tried, commands>>

\* flash_erase_sector and flash_erase_chip: one packet.
EraseOne ==
    /\ Start
    /\ \E m \in {SectorErased(mem, PacketAddr(a)) :
                    a \in {x \in 0 .. AddrSpace : EraseRequest(x)}} \cup {ChipErased(mem)} :
          \/ mem' = m /\ outcome' = "done"
          \/ mem' \in {mem, m} /\ outcome' = "failed"
    /\ phase' = "idle" /\ kind' = "erase" /\ address' = 0
    /\ data' = <<>> /\ amt' = 0 /\ program' = FALSE

Transfer == EraseNext \/ EraseDone \/ WritePacket \/ WriteDone \/ ReadPacket \/ ReadDone

Next == \/ \E w \in Writes : \/ \E k \in {"memory", "flash"} : StartWrite(k, w)
                             \/ StartProgram(w)
        \/ \E r \in Reads : StartRead(r)
        \/ EraseOne
        \/ Transfer

\* Every packet returns, with or without success (DebugLink's CommandEnds).
Spec == Init /\ [][Next]_vars /\ WF_vars(Transfer)

-----------------------------------------------------------------------------
TypeOK ==
    /\ phase \in {"idle", "erase", "write", "read"}
    /\ kind \in {"memory", "flash", "read", "erase"}
    /\ address \in 0 .. AddrSpace /\ data \in Seq(Byte) /\ amt \in 0 .. AddrSpace
    /\ i \in Nat /\ tried \in 0 .. Len(data)
    /\ phase = "write" => i <= Len(data)
    /\ scratch \in Seq(Byte)
    /\ mem \in [Addresses -> Byte] /\ base \in [Addresses -> Byte]
    /\ outcome \in {"none", "done", "failed", "rejected"}
    /\ program \in BOOLEAN /\ commands \in 0 .. MaxCommands

(***************************************************************************)
(* Packet by packet, memory is what it was with a prefix of the block laid *)
(* over it, and nothing besides: also where the block crosses from flash   *)
(* to RAM or wraps around the address space, and after a packet failed.  A *)
(* write that is done has laid over the whole block (target.h:19-26: "This *)
(* will split up the write into multiple packets as needed").              *)
(***************************************************************************)
WithPrefix(n) == Written(kind, base, address, SubSeq(data, 1, n))

WritesPrefix ==
    kind \in {"memory", "flash"} =>
      /\ phase = "write" => mem = WithPrefix(i)
      /\ phase = "idle" => mem \in {WithPrefix(i), WithPrefix(tried)}
      /\ phase = "idle" /\ outcome = "done" => mem = WithPrefix(Len(data))

(***************************************************************************)
(* A read that succeeds has put together, from packets of at most 255      *)
(* bytes, the bytes asked for (target.h:28-30).                            *)
(***************************************************************************)
ReadBack ==
    kind = "read" /\ outcome = "done" => scratch = ReadFrom(mem, address, amt)

(***************************************************************************)
(* No packet overflows: bdbp_pkt_append_data's assertion holds, the loops  *)
(* advance, and 20 bits hold every address sent, those past the end of the *)
(* address space included (bdbp_util.c:36, 45-49).                         *)
(***************************************************************************)
PacketsFit ==
    /\ phase = "write" /\ i < Len(data) =>
          WriteChunk > 0 /\ AddrSize + WriteChunk <= MaxDataLength
    /\ phase = "read" /\ i < amt =>
          ReadChunk > 0 /\ AddrSize + 1 <= MaxDataLength
    /\ phase \in {"write", "read"} => PacketAddr(address + i) = address + i

(***************************************************************************)
(* Whatever the range of a block, a flash command leaves RAM alone and a   *)
(* memory command flash; and only erasing sets a bit of the flash.         *)
(***************************************************************************)
Erasing == phase = "erase" \/ kind' = "erase"

RightChip ==
    [][\A x \in Addresses : mem'[x] # mem[x] =>
          IF IsRam(x) THEN phase = "write" /\ kind = "memory"
          ELSE \/ Erasing /\ mem'[x] = Erased
               \/ phase = "write" /\ kind = "flash" /\ mem'[x] \subseteq mem[x]]_vars

\* A transfer ends.
TransferEnds == phase # "idle" ~> phase = "idle"

(***************************************************************************)
(* "Erase flash address space and load file." (commands/flash.c:128): when *)
(* `flash program` is done the flash holds the file, and is erased where   *)
(* the file does not reach.                                                *)
(***************************************************************************)
ProgramWrites ==
    program /\ outcome = "done" =>
        mem = FlashWritten(ChipErased(base), address, data)
=============================================================================
