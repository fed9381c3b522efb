------------------------------ MODULE CoprocBus ------------------------------
(***************************************************************************)
(* The coprocessor on the Z80's bus: glyco/src/bus.c, bus.h, pinout.h,     *)
(* flash.c and the command handlers of main.c, down to the single write to *)
(* a port register, with the Z80's side of BUSREQ/BUSACK and the RAM and   *)
(* flash chips as the environment.                                         *)
(*                                                                         *)
(* A sequence of register writes is data: `todo` holds those still to be   *)
(* made, and MicroStep makes one.  The address register is three ports; a  *)
(* write to it is one step, as no write strobe is active while the code    *)
(* changes it.                                                             *)
(***************************************************************************)
EXTENDS FlashChip, Sequences

CONSTANTS Requests,   \* the commands the handlers are given
          PollLimit,  \* BUS_ACQUIRE_TIMEOUT_US polls of BUSACK, 1000 in the code
          MemAddr,    \* the bus addresses whose contents are modelled
          InitByte    \* what they hold at first

AddrSpace == 262144       \* GLYCON_ADDRSPACE_SIZE
RamMask == 131072         \* GLYCON_RAM_MASK
IsRam(a) == (a \div RamMask) % 2 = 1
IsFlash(a) == ~IsRam(a)
\* pinout_write_addr puts 18 bits on the pins.
BusAddr(a) == a % AddrSpace

Kinds == {"write", "read", "flash", "flash_id", "erase_sector", "erase_chip"}

ASSUME BusAssumption ==
    /\ PollLimit \in Nat
    /\ MemAddr \subseteq 0 .. AddrSpace - 1
    /\ InitByte \in Byte
    /\ Requests \subseteq [kind : Kinds, addr : Nat, data : Seq(Byte), amt : Nat]
    \* The length of a message is a byte.
    /\ \A c \in Requests : Len(c.data) <= AddrSpace

VARIABLES phase,    \* where the coprocessor is in handling a command
          todo,     \* register writes still to be made
          cmd,      \* the command being handled
          iter,     \* iterations of the handler's loop made
          delay,    \* polls of BUSACK made
          result,   \* what bus_acquire returned last
          busreq,   \* the BUSREQ pin, high = requested (the board inverts it)
          granted,  \* BUSACK is low: the Z80 is off the bus
          alive,    \* the Z80 runs, and so answers BUSREQ
          ddr,      \* direction of each group of pins
          port,     \* level of each group of pins
          ram,      \* contents of the RAM
          flash,    \* the flash chip
          samples,  \* bytes read by this command
          before    \* ghost: memory when this command arrived

coproc == <<phase, todo, cmd, iter, delay, result, ddr, port, samples, before>>
memory == <<ram, flash>>
vars == <<coproc, memory, busreq, granted, alive>>

Pins == {"data", "addr", "ramWe", "memOe", "flashWe"}

-----------------------------------------------------------------------------
(***************************************************************************)
(* Register writes.                                                        *)
(***************************************************************************)

Ddr(pin, dir) == [reg |-> "ddr", pin |-> pin, val |-> dir]
Port(pin, val) == [reg |-> "port", pin |-> pin, val |-> val]
Sample == [reg |-> "sample"]

MicroOps == {Sample} \cup [reg : {"ddr"}, pin : Pins, val : {"in", "out"}]
              \cup [reg : {"port"}, pin : {"data"}, val : Byte]
              \cup [reg : {"port"}, pin : {"addr"}, val : Nat]
              \cup [reg : {"port"}, pin : {"ramWe", "memOe", "flashWe"}, val : {0, 1}]

\* The high address bits share PORTD and DDRD with FLASH_WE, and pinout.h
\* writes the whole register.
Apply(regs, o) == IF o.pin = "addr"
                  THEN [regs EXCEPT !.addr = o.val,
                                    !.flashWe = IF o.reg = "ddr" THEN "in" ELSE 0]
                  ELSE [regs EXCEPT ![o.pin] = o.val]

\* bus.c:27-41
AcquireSetup ==
    <<Port("data", {}), Ddr("data", "in"),
      Port("addr", 0), Ddr("addr", "out"),
      Port("ramWe", 1), Ddr("ramWe", "out"),
      Port("memOe", 0), Ddr("memOe", "out"),
      Port("flashWe", 0), Ddr("flashWe", "out")>>

\* Mutant of ReleaseSteps: the address pins stay outputs.
ReleaseKeepsAddress ==
    <<Port("data", {}), Ddr("data", "in"),
      Port("addr", 0),
      Ddr("ramWe", "in"), Port("ramWe", 1),
      Ddr("memOe", "in"), Port("memOe", 1),
      Ddr("flashWe", "in"), Port("addr", 0)>>

\* bus.c:47-61.  Line 59 masks with FLASH_WE_MASK where ~FLASH_WE_MASK is
\* meant; it clears the address bits of the port, which are 0 already.
ReleaseSteps ==
    <<Port("data", {}), Ddr("data", "in"),
      Port("addr", 0),
      Ddr("ramWe", "in"), Port("ramWe", 1),
      Ddr("memOe", "in"), Port("memOe", 1),
      Ddr("flashWe", "in"), Port("addr", 0),
      Ddr("addr", "in")>>

\* Mutant of WriteMode: the memory's output stays enabled.
WriteModeKeepsOutput == <<Ddr("data", "out")>>

WriteMode == <<Port("memOe", 1), Ddr("data", "out")>>
ReadMode == <<Port("memOe", 0), Ddr("data", "in"), Port("data", {})>>

BusWrite(a, d) == <<Port("addr", BusAddr(a)), Port("data", d)>>
BusRead(a) == <<Port("addr", BusAddr(a)), Sample>>
PulseRamWrite == <<Port("ramWe", 0), Port("ramWe", 1)>>
PulseFlashWrite == <<Port("flashWe", 1), Port("flashWe", 0)>>

FlashCmd(a, d) == BusWrite(a, d) \o PulseFlashWrite

FlashByteProgram(a, d) ==
    IF IsRam(a) THEN <<>>
    ELSE WriteMode \o FlashCmd(Unlock1, xAA) \o FlashCmd(Unlock2, x55)
           \o FlashCmd(Unlock1, xA0) \o FlashCmd(a, d)

FlashSoftwareId ==
    WriteMode \o FlashCmd(Unlock1, xAA) \o FlashCmd(Unlock2, x55)
      \o FlashCmd(Unlock1, x90)
      \o ReadMode \o BusRead(0) \o BusRead(1)
      \o WriteMode \o FlashCmd(Unlock1, xAA) \o FlashCmd(Unlock2, x55)
      \o FlashCmd(Unlock1, xF0)

EraseUnlock ==
    WriteMode \o FlashCmd(Unlock1, xAA) \o FlashCmd(Unlock2, x55)
      \o FlashCmd(Unlock1, x80)
      \o FlashCmd(Unlock1, xAA) \o FlashCmd(Unlock2, x55)

FlashEraseSector(a) ==
    IF IsRam(a) THEN <<>> ELSE EraseUnlock \o FlashCmd(a, x30)

FlashEraseChip == EraseUnlock \o FlashCmd(Unlock1, x10)

-----------------------------------------------------------------------------
(***************************************************************************)
(* The handlers of main.c: what they do before their loop, in one          *)
(* iteration, and how often they iterate.                                  *)
(***************************************************************************)

Prologue(c) == CASE c.kind = "write" -> WriteMode
                 [] c.kind = "read" -> ReadMode
                 [] OTHER -> <<>>

Body(c, i) ==
    CASE c.kind = "write" -> BusWrite(c.addr + i, c.data[i + 1]) \o PulseRamWrite
      [] c.kind = "read" -> BusRead(c.addr + i)
      [] c.kind = "flash" -> FlashByteProgram(c.addr + i, c.data[i + 1])
      [] c.kind = "flash_id" -> FlashSoftwareId
      [] c.kind = "erase_sector" -> FlashEraseSector(c.addr)
      [] c.kind = "erase_chip" -> FlashEraseChip

Iterations(c) == CASE c.kind \in {"write", "flash"} -> Len(c.data)
                   [] c.kind = "read" -> c.amt
                   [] OTHER -> 1

-----------------------------------------------------------------------------
(***************************************************************************)
(* Memory as the pins drive it.                                            *)
(***************************************************************************)

\* MEM_OE low enables the output of whichever chip the address selects: the
\* board leads it to both (net ~{MEMRD} of hardware/kicad/glycon_rev1.0).
MemDrives(d, p) == d.memOe = "out" /\ p.memOe = 0 /\ d.addr = "out"
RamWriting(d, p) == d.ramWe = "out" /\ p.ramWe = 0 /\ d.addr = "out" /\ IsRam(p.addr)
\* The board inverts FLASH_WE; the chip ignores it while its output is on.
FlashWriting(d, p) == /\ d.flashWe = "out" /\ p.flashWe = 1
                      /\ d.addr = "out" /\ ChipSelected(p.addr)
                      /\ ~(d.memOe = "out" /\ p.memOe = 0)

DataBus == CASE ddr.data = "out" -> port.data
             [] ddr.data = "in" /\ MemDrives(ddr, port) ->
                  IF IsRam(port.addr) THEN ram[port.addr]
                                      ELSE ReadCycle(flash, port.addr)
             [] OTHER -> {}

Init ==
    /\ phase = "idle" /\ todo = <<>>
    /\ cmd = [kind |-> "read", addr |-> 0, data |-> <<>>, amt |-> 0]
    /\ iter = 0 /\ delay = 0
    /\ result = "none"
    /\ busreq = FALSE /\ granted = FALSE /\ alive = TRUE
    /\ ddr = [p \in Pins |-> "in"]
    /\ port = [data |-> {}, addr |-> 0, ramWe |-> 0, memOe |-> 0, flashWe |-> 0]
    /\ ram = [a \in {x \in MemAddr : IsRam(x)} |-> InitByte]
    /\ flash = Chip([a \in {x \in MemAddr : IsFlash(x)} |-> InitByte])
    /\ samples = <<>>
    /\ before = <<ram, flash.mem>>

-----------------------------------------------------------------------------
(***************************************************************************)
(* The coprocessor.                                                        *)
(***************************************************************************)

\* A command arrives and bus_acquire makes its first check (bus.c:11-16).
Receive(c) ==
    /\ phase = "idle"
    /\ cmd' = c
    /\ iter' = 0 /\ samples' = <<>>
    /\ before' = <<ram, flash.mem>>
    /\ \/ granted /\ result' = "acquired" /\ UNCHANGED <<phase, busreq, delay>>
       \/ ~granted /\ phase' = "poll" /\ busreq' = TRUE /\ delay' = 0
                   /\ UNCHANGED result
    /\ UNCHANGED <<todo, ddr, port, memory, granted, alive>>

\* Mutant of Poll: `<=` for `<`.
PollOnceMore ==
    /\ phase = "poll"
    /\ \/ ~granted /\ delay <= PollLimit /\ delay' = delay + 1 /\ UNCHANGED phase
       \/ (granted \/ delay > PollLimit) /\ phase' = "recheck" /\ UNCHANGED delay
    /\ UNCHANGED <<todo, cmd, iter, result, ddr, port, samples, before,
                   memory, busreq, granted, alive>>

\* Mutant of Poll: the polls are not counted.
PollForever ==
    /\ phase = "poll" /\ granted
    /\ phase' = "recheck"
    /\ UNCHANGED <<todo, cmd, iter, delay, result, ddr, port, samples, before,
                   memory, busreq, granted, alive>>

\* One evaluation of the loop condition of bus.c:18.
Poll ==
    /\ phase = "poll"
    /\ \/ ~granted /\ delay < PollLimit /\ delay' = delay + 1 /\ UNCHANGED phase
       \/ (granted \/ delay = PollLimit) /\ phase' = "recheck" /\ UNCHANGED delay
    /\ UNCHANGED <<todo, cmd, iter, result, ddr, port, samples, before,
                   memory, busreq, granted, alive>>

\* Mutant of Recheck: after the loop the bus is taken to be acquired.
RecheckNothing ==
    /\ phase = "recheck"
    /\ phase' = "setup" /\ todo' = AcquireSetup
    /\ UNCHANGED <<cmd, iter, delay, result, ddr, port, samples, before,
                   memory, busreq, granted, alive>>

\* bus.c:22
Recheck ==
    /\ phase = "recheck"
    /\ \/ ~granted /\ phase' = "giveup" /\ UNCHANGED todo
       \/ granted /\ phase' = "setup" /\ todo' = AcquireSetup
    /\ UNCHANGED <<cmd, iter, delay, result, ddr, port, samples, before,
                   memory, busreq, granted, alive>>

\* Mutant of GiveUp: BUSREQ stays asserted.
GiveUpRequesting ==
    /\ phase = "giveup"
    /\ result' = "timeout"
    /\ phase' = "idle"
    /\ UNCHANGED <<todo, cmd, iter, delay, ddr, port, samples, before,
                   memory, busreq, granted, alive>>

\* bus.c:23-24: the Z80 may have acknowledged since the check.
GiveUp ==
    /\ phase = "giveup"
    /\ busreq' = FALSE
    /\ result' = "timeout"
    /\ phase' = "idle"
    /\ UNCHANGED <<todo, cmd, iter, delay, ddr, port, samples, before,
                   memory, granted, alive>>

\* One register access, and what it does to the memory chips: RAM follows
\* the bus for as long as its write enable is low, the flash chip takes a
\* write cycle when its write enable becomes active.
MicroStep ==
    /\ todo # <<>>
    /\ todo' = Tail(todo)
    /\ LET o == Head(todo)
           d == IF o.reg = "ddr" THEN Apply(ddr, o) ELSE ddr
           p == IF o.reg = "port" THEN Apply(port, o) ELSE port
       IN /\ ddr' = d
          /\ port' = p
          /\ samples' = IF o = Sample THEN Append(samples, DataBus) ELSE samples
          /\ ram' = IF RamWriting(d, p)
                    THEN [a \in DOMAIN ram |-> IF a = p.addr
                            THEN (IF d.data = "out" THEN p.data ELSE {})
                            ELSE ram[a]]
                    ELSE ram
          /\ flash' = IF FlashWriting(d, p) /\ ~FlashWriting(ddr, port)
                      THEN WriteCycle(flash, p.addr,
                                      IF d.data = "out" THEN p.data ELSE {})
                      ELSE flash
    /\ UNCHANGED <<phase, cmd, iter, delay, result, before, busreq, granted, alive>>

\* bus_acquire returns; the handler starts.
Acquired ==
    /\ phase = "setup" /\ todo = <<>>
    /\ result' = "success"
    /\ phase' = "held"
    /\ todo' = Prologue(cmd)
    /\ UNCHANGED <<cmd, iter, delay, ddr, port, samples, before,
                   memory, busreq, granted, alive>>

\* The next iteration of the handler's loop, or bus_release().
Iterate ==
    /\ phase = "held" /\ todo = <<>>
    /\ \/ /\ iter < Iterations(cmd)
          /\ todo' = Body(cmd, iter)
          /\ iter' = iter + 1
          /\ UNCHANGED phase
       \/ /\ iter = Iterations(cmd)
          /\ todo' = ReleaseSteps
          /\ phase' = "release"
          /\ UNCHANGED iter
    /\ UNCHANGED <<cmd, delay, result, ddr, port, samples, before,
                   memory, busreq, granted, alive>>

\* bus.c:65
DropRequest ==
    /\ phase = "release" /\ todo = <<>>
    /\ busreq' = FALSE
    /\ phase' = "drain"
    /\ UNCHANGED <<todo, cmd, iter, delay, result, ddr, port, samples, before,
                   memory, granted, alive>>

\* Mutant of Drained: without the wait.
DrainedAtOnce ==
    /\ phase = "drain"
    /\ phase' = "idle"
    /\ UNCHANGED <<todo, cmd, iter, delay, result, ddr, port, samples, before,
                   memory, busreq, granted, alive>>

\* bus.c:66-67: wait for the Z80 to take the bus back.
Drained ==
    /\ phase = "drain" /\ ~granted
    /\ phase' = "idle"
    /\ UNCHANGED <<todo, cmd, iter, delay, result, ddr, port, samples, before,
                   memory, busreq, granted, alive>>

-----------------------------------------------------------------------------
(***************************************************************************)
(* The Z80: it leaves the bus at the end of a machine cycle in which       *)
(* BUSREQ is asserted, and takes it back when BUSREQ is released.  Held in *)
(* reset, it does not answer.                                              *)
(***************************************************************************)

Z80Grant ==
    /\ busreq /\ ~granted /\ alive
    /\ granted' = TRUE
    /\ UNCHANGED <<coproc, memory, busreq, alive>>

Z80Resume ==
    /\ ~busreq /\ granted
    /\ granted' = FALSE
    /\ UNCHANGED <<coproc, memory, busreq, alive>>

Z80Reset ==
    /\ ~granted
    /\ alive' = ~alive
    /\ UNCHANGED <<coproc, memory, busreq, granted>>

Coprocessor ==
    \/ Poll \/ Recheck \/ GiveUp \/ MicroStep \/ Acquired \/ Iterate
    \/ DropRequest \/ Drained

Next == \/ \E c \in Requests : Receive(c)
        \/ Coprocessor
        \/ Z80Grant \/ Z80Resume \/ Z80Reset

\* The coprocessor's CPU runs, and a Z80 off the bus watches BUSREQ.  Nothing
\* makes the Z80 answer a request.
Fairness == WF_vars(Coprocessor) /\ WF_vars(Z80Resume)

Spec == Init /\ [][Next]_vars /\ Fairness

-----------------------------------------------------------------------------
Phases == {"idle", "poll", "recheck", "giveup", "setup", "held", "release", "drain"}

TypeOK ==
    /\ phase \in Phases
    /\ todo \in Seq(MicroOps)
    /\ cmd \in [kind : Kinds, addr : Nat, data : Seq(Byte), amt : Nat]
    /\ iter \in Nat /\ delay \in 0 .. PollLimit
    /\ result \in {"none", "success", "timeout", "acquired"}
    /\ busreq \in BOOLEAN /\ granted \in BOOLEAN /\ alive \in BOOLEAN
    /\ ddr \in [Pins -> {"in", "out"}]
    /\ port \in [data : Byte, addr : Nat, ramWe : {0, 1}, memOe : {0, 1},
                 flashWe : {0, 1}]

(***************************************************************************)
(* The coprocessor drives an address, data or control line only while the  *)
(* Z80 has given up the bus, through every late acknowledge, timeout and   *)
(* release (bus.h:30-38).                                                  *)
(***************************************************************************)
BusOwnership == (\E p \in Pins : ddr[p] = "out") => granted

(***************************************************************************)
(* "The bus ack pin was somehow already low": when a command finds it so,  *)
(* an earlier command timed out just before the Z80 answered; a completed  *)
(* command always left the bus with the Z80.                               *)
(***************************************************************************)
AckedEarlyAfterTimeout ==
    phase = "idle" /\ granted => result \in {"timeout", "acquired"}

(***************************************************************************)
(* The inductive invariant behind the two: BUSREQ stays asserted, and so   *)
(* the Z80 stays away, from the check of BUSACK to the end of the release; *)
(* and every pin still driven during the release has its switch to input   *)
(* among the register writes to come, after which nothing is driven.       *)
(***************************************************************************)
Waiting == {"idle", "poll", "recheck", "giveup", "drain"}
Holding == {"setup", "held", "release"}

RequestInv ==
    /\ phase \in Holding => busreq /\ granted
    /\ phase \in {"poll", "recheck", "giveup"} => busreq
    /\ phase \in {"idle", "drain"} => ~busreq

QuietInv == phase \in Waiting => /\ todo = <<>>
                                /\ \A p \in Pins : ddr[p] = "in"

ReleaseInv ==
    phase = "release" =>
      /\ \A p \in Pins : ddr[p] = "out" =>
            \E j \in 1 .. Len(todo) : todo[j] = Ddr(p, "in")
      /\ \A j \in 1 .. Len(todo) : todo[j].reg = "ddr" => todo[j].val = "in"

BusInv == /\ TypeOK /\ RequestInv /\ QuietInv /\ ReleaseInv
          /\ AckedEarlyAfterTimeout

(***************************************************************************)
(* What a command does to memory and reads from it, end to end: the bytes  *)
(* asked for and no others, the flash chip back in read mode; and nothing  *)
(* at all when the bus was not acquired.                                   *)
(*                                                                         *)
(* Erasing a sector erases the chip's 4 kilobytes, which the protocol says *)
(* (binary_debug_protocol.h:44), and not the "0x4000 (16K) bytes" that     *)
(* flash.h:19 says of flash_erase_sector: the other 12 keep what they had. *)
(***************************************************************************)
Targets(c) == {BusAddr(c.addr + i) : i \in 0 .. Len(c.data) - 1}
ByteFor(c, a) == c.data[CHOOSE i \in 1 .. Len(c.data) : BusAddr(c.addr + i - 1) = a]

WantRam(c, mem) ==
    [a \in DOMAIN mem |->
        IF c.kind = "write" /\ a \in Targets(c) THEN ByteFor(c, a) ELSE mem[a]]

WantFlash(c, mem) ==
    [a \in DOMAIN mem |->
        CASE c.kind = "flash" /\ a \in Targets(c) -> mem[a] \cap ByteFor(c, a)
          [] c.kind = "erase_chip" -> Erased
          [] c.kind = "erase_sector" /\ IsFlash(c.addr)
               /\ ChipSector(a) = ChipSector(BusAddr(c.addr)) -> Erased
          [] OTHER -> mem[a]]

WantSamples(c, r, f) ==
    CASE c.kind = "read" ->
           [i \in 1 .. c.amt |-> LET a == BusAddr(c.addr + i - 1)
                                 IN IF IsRam(a) THEN r[a] ELSE f[a]]
      [] c.kind = "flash_id" -> <<MfgId, DevId>>
      [] OTHER -> <<>>

CommandEffect ==
    LET r == before[1]
        f == before[2]
    IN CASE phase = "drain" ->
              /\ ram = WantRam(cmd, r)
              /\ flash = Chip(WantFlash(cmd, f))
              /\ samples = WantSamples(cmd, r, f)
         [] phase \in {"poll", "recheck", "giveup"} ->
              ram = r /\ flash = Chip(f)
         [] OTHER -> TRUE

\* Every command ends, and the Z80 gets its bus back: also when the Z80
\* never answers, or answers after the coprocessor gave up.
CommandEnds == phase # "idle" ~> phase = "idle"
BusReturned == granted ~> ~granted

(***************************************************************************)
(* "the memory chip's output should be disabled when reading from any      *)
(* other device to prevent the data signals from interfering" (bus.h:48):  *)
(* a memory chip and the coprocessor never drive the data lines at once.   *)
(***************************************************************************)
OneDataDriver == ~(ddr.data = "out" /\ MemDrives(ddr, port))
=============================================================================
