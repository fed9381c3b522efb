# A verification of glycon

Glycon is a home-built Z80 computer. An Arduino Mega, the *coprocessor*
(`glyco`), sits on the Z80's bus and takes it over to read and write RAM and
flash; `glydb`, a debugger on a PC, sends it commands over a serial line. This
directory holds TLA+ modules of that system, TLC runs that check them on small
instances, and TLAPS proofs for instances of any size. Paths below are relative
to `src/`.

## 1. The system

| Part | State | Operations | Talks to |
|---|---|---|---|
| Receive path, `glyco/src/serial.c` | ring of 512 bytes, two 16-bit indices, the interrupt flag | interrupt handler, wait (sleeping), poll, read | UART; the main loop |
| Bus access, `glyco/src/bus.c`, `bus.h`, `pinout.h` | pin directions and levels, BUSREQ | acquire with a limit, set mode, read, write, strobe, release | Z80 (BUSREQ/BUSACK), memory chips |
| Flash driver, `glyco/src/flash.c` | none of its own; the chip's command decoder | program a byte, read the ID, erase a sector or the chip | bus access |
| Main loop, `glyco/src/main.c` | the message being read | framing, dispatch, seven handlers, replies | all of the above |
| Protocol, `common/include/common/*.h` | - | command and status codes, message format, address map | both sides |
| Connection and remote call, `glydb/src/connection.c`, `target.c:10-56` | open port, the packet | open (restarts the coprocessor), close, send, read with a 2 s timeout | serial line |
| Transfers, `glydb/src/target.c:58-98`, `bdbp_util.c`, `commands/memory.c`, `commands/flash.c` | block, position in it, scratch buffer | write, read, load, program, erase | remote call |
| Arguments and files, `commands/commands.c`, `debugger.c` | scratch buffer | expand values, read a file | transfers |
| Command line, `command.c`, `parser.c`, `value.c`, `buffer.c` | parse result, growing buffer | match command, options, positionals, values | commands |
| Disassembler, `glydb/src/z80/` | none | decode one instruction | `commands/disassemble.c` |
| GlyOS, `glyos/kernel/main.z80` | page registers, a stack in the memory they map | boot, set pages and lights, fill memory | hardware |
| Simulator, `glysim` | - | an empty start | - |

What is hard in it:

* *Interleaving.* The interrupt handler runs between any two instructions of
  the main loop, and the AVR moves 16-bit indices a byte at a time. The Z80
  answers BUSREQ whenever its machine cycle ends, also just after the
  coprocessor stopped waiting.
* *Order.* Pins share port registers, and each register write takes effect at
  once; flash memory takes every write cycle as a step of a command.
* *Failure.* The line has no checksum and no way to find the start of a message
  again; the debugger gives up after two seconds, and the coprocessor does not.
* *Edges.* Blocks are cut into packets of 252 or 255 bytes; ranges are checked
  with `>` where `>=` is meant; a block may run into the other chip or around
  the address space.

What makes each part correct: bytes are returned once, in order and in the end
(receive path); the bus is driven only while the Z80 is off it, and given back
(bus access); a command changes exactly the bytes it names (handlers, flash); a
command that returns success was carried out once, on the bytes sent, and its
result is its own (remote call); memory holds the block, or a prefix of it
(transfers); a command runs on what its line says, asks the target for nothing
out of range, and gives back what it took, however it ends (command line); the
routines that switch pages find their way back (GlyOS). PROJECT.json lists the places where each of these could go wrong
(`hazards`) and the properties that watch them.

## 2. Modules

| Module | Models | Uses |
|---|---|---|
| `ByteQueue` | what `serial.h` promises: a queue | |
| `SerialRing` | `serial.c` | implements `ByteQueue` |
| `FlashChip` | the SST39SF010's command decoder (external) | |
| `CoprocBus` | `bus.c`, `bus.h`, `pinout.h`, `flash.c`, the handlers of `main.c`; the Z80's side of the bus | `FlashChip` |
| `DebugRpc` | what a remote call promises | |
| `DebugLink` | `target_exec_cmd`, `connection.c`, the line, the main loop's framing and replies | implements `DebugRpc` |
| `AddressMap` | `glycon.h`, and the ranges glydb lets through | |
| `TargetTransfer` | block transfers and the memory and flash commands | extends `AddressMap` |
| `CommandLine` | `command.c` over the tables of commands, the integers of `value.c`, `buffer.c`, who owns the strings | |
| `CommandHandlers` | `debugger.c`, `commands/*.c`: the loop around the parser, and every handler up to its call of `target.c` | extends `CommandLine`, `AddressMap` |
| `Z80Disassembler` | `z80/disassemble.c` and the loop of `commands/disassemble.c` | |
| `Z80InstructionSet` | the documented instructions, from instruction to bytes: the reference for the decoder | extends `Z80Disassembler` |
| `GlyosBoot` | `glyos/kernel/main.z80`, the PIO and the pages | |
| `Arithmetic` | - (lemmas: `%`, the least of a set of numbers, loops as functions) | |
| `SerialRingProofs` | - (proofs) | `SerialRing` |
| `CoprocBusProofs` | - (proofs: who drives the bus; what a command does) | `CoprocBus` |
| `DebugLinkProofs` | - (proofs) | `DebugLink` |
| `TargetTransferProofs` | - (proofs) | `TargetTransfer` |
| `CommandHandlersProofs` | - (proofs, with lemmas on the parser's operators) | `CommandHandlers` |
| `Z80DisassemblerProofs` | - (proofs) | `Z80InstructionSet` |
| `GlyosBootProofs` | - (proofs) | `GlyosBoot` |
| `MCSerialRing`, `MCCoprocBus`, `MCDebugLink`, `MCTargetTransfer`, `MCCommandLine`, `MCDisassembler`, `MCGlyosBoot` | instances for TLC | |

The layers rest on one another through what each shows. `SerialRing` assumes a
sender with at most a buffer of unreturned bytes (`Window <= BufferSize`);
`DebugLink` shows that glydb is one until the line fails (`OneRequest`: a
packet has at most 257 bytes, the buffer 512). `DebugLink` treats a handler as
one step with an outcome; `CoprocBus` shows what the handler does meanwhile.
`TargetTransfer` treats a command as one step on memory, which is `CoprocBus`'s
`CommandEffect`, that returns, which is `DebugLink`'s `CommandEnds`.
`CommandLine` shows what a command's handler may count on (`ResultValid`), and
`CommandHandlers` runs the handlers on it, which index their arguments without
a check. Its requests to the target are within `WriteRequest`, `ReadRequest` and
`EraseRequest` of `AddressMap`, which is proved (`HandlersRequestsTaken`), and
these are the inputs that `TargetTransfer` takes: the two modules meet there.
They are wider than what a user is told: a write that was complained of is among
them, and an address just past the end.

Definitions whose comment begins "Mutant of" are not part of the model: each is
the definition after it with a plausible mistake, used to see that the
properties notice.

### SerialRing

One action per access to what the handler shares with the main loop. `data`,
`read`, `write` are `rx_buffer`; `pc` is the place in `serial_wait_for_data`,
`serial_read_u8` or `serial_poll_u8`; `reg` is the register with the low byte of
`write`, loaded before its high byte; `idx` the old value of `read` that indexes
the load. Compiled, `data[read++ & MASK]` stores the new index (high byte first,
then low) *before* it loads the byte, so for three instructions the slot being
taken counts as free. `UsartRx` is the whole handler: AVR handlers do not nest.
The n-th byte is the number n, so order and loss can be read off the result.

### CoprocBus

`todo` holds the register writes the code is about to make and `MicroStep` makes
one; the sequences (`AcquireSetup`, `ReleaseSteps`, `WriteMode`, `BusWrite`, ...)
are the bodies of the functions with those names. `phase` is the place in
`bus_acquire`, the handler, or `bus_release`. The RAM stores what is on the bus
while its write enable is low; the flash chip takes a write cycle when its write
enable becomes active; both drive the bus while MEM_OE is low (the schematic's
net `~{MEMRD}` goes to both chips). The Z80 may grant at any time after a
request, take the bus back at any time after it ended, and be held in reset.
The address register is three ports written one after the other; the model
writes them at once, since no strobe is active meanwhile, and keeps what
matters of it: writing the third port clears FLASH_WE, and setting its
direction makes FLASH_WE an input. A sector of the chip (`ChipSector`) has 4
kilobytes, as `binary_debug_protocol.h:44` says; `flash.h:19`, at the function
that erases one, says 16, and is wrong (section 3).

### DebugLink

`host` is the place in `target_exec_cmd`, `dev` the place in the main loop.
Bytes go through `toDev` and `rx` (the receive buffer, with its capacity) to
`msg`, and back through `out` and `toHost`; each carries the number of its
command as a ghost. `Open` is `conn_open_serial`: opening the port restarts an
Arduino, which the code counts on (`connection.c:64`); what the boot loader does
with bytes of its own is not modelled. `Close` is `conn_close`, or the end of
glydb at any point of a command. `ReadTimeout` is the 2-second limit: it fires
when nothing is on its way, or, as a fault, although something is. Other faults
are a lost byte and a failing `write()`. A message read out of step may have
too few bytes: `cmd_read` then takes the amount from uninitialised stack
(`StackBytes`), and `cmd_write` and `cmd_flash` never meet the end of their
loop (`RunsAway`; `dev = "runaway"`).

`DebugRpc` says what is left of this for a user: in a session without a fault, a
command is carried out at most once, before it returns and before the next one
starts, and returns success exactly when it was.

### TargetTransfer

One step per packet. `kind`, `address`, `data`, `amt` are the operation, `i` is
the loop index of `target_write`, `target_read_memory` and `flash_program`.
Sizes are constants, so that the proportions of the code (a stride of four
sectors; packets smaller than blocks) can be had in 32 bytes. A packet that
fails may or may not have been carried out, as a late reply leaves open. A line
that garbles packets is left to `DebugLink`.

### CommandLine

A line is a sequence of words; `at` is the word the parser is at, and `off` the
letter, in a group of short options. One action per round of a loop of
`parse_cmd`, `parse_leaf` or `parse_short_options`, and one per way out of it.
The tables (`memory_commands` and the others) are those of the code, in their
order, which matters because a command may be abbreviated and the first that
fits is taken. A value stands for itself as the word it was read from; `heap`
holds a name for each object allocated. `Fail` is the exit `err_free_positionals`:
it frees the array, but `result.positionals_len` stays what it was, and
`result.positionals` stays null (`owned = FALSE`), which `Deinit` and
`DeinitNull` then meet. `LongMissing` is the one error of a line that the
code reports and goes on from (`command.c:105-109` returns true although
`command.h:113-115` keeps that for success).

`parse_int` is a function of the characters of a word, with the two checks
against the limit and the wrapping of `uint64_t` as the code has them; the limit
2^63 is a constant. `buffer` keeps size, capacity and what realloc was asked
for: the code stores the capacity wanted and not the one it asked for
(`buffer.c:26-29`), and asks for room behind the capacity, not behind the size
(line 33), so it allocates more often than it means to but never too little.

### CommandHandlers

`phase` goes on where the parser's ends: a handler expands values (`expand`, a
byte a step, in the order of the three loops of `subcommand_write`), reads a file
(`load`), erases for `flash program`, checks the write operation (`op`), waits
for the target (`target`), frees (`free`) and returns. `request` is what it asks
of `target.c`. What opening a port, reading a file and a call of the target come
to is a choice; without a connection a call fails, unless it has nothing to
send. Things the model makes plain:

* the address just past the end passes every check (`commands.c:47,86`,
  `memory.c:32`), although the messages there call the range "[0, %d)", and so
  does one byte too many (`commands.c:58`): the scratch buffer, which has as many
  bytes as the address space (`debugger.h:18`), is overrun by one byte, and only
  by a write to address 0. What lies behind the buffer is no state of the model,
  and no property is about it;
* `memory_write_op` and `flash_write_op` complain of a write past the end of
  their memory and make it (`memory.c:15-19`): `ErrorStopsCommand` has it;
* `--type bin` names an unknown type, and `--type .bin` the known one:
  `debugger.c:150` skips the character that of a path is the dot;
* of a file that became shorter while it was read, the rest of the write is what
  an earlier command left in the scratch buffer (`debugger.c:110`).

### GlyosBoot

The program label by label, an instruction a step (`Compute`, `Out`, `Control`,
`StoreIx`, `Call`, `Ret`, `Jump`). A byte is a set of bits, so that rotations,
masks and the reversed wiring are set operations. Memory is followed only where
something was pushed, by physical page: a return address that is pushed while one
page is mapped is looked for in the page that is mapped at the `ret`. The wiring
(external) is that of the board of rev. 1.0, and resolves where the program's
comments contradict each other: A0 to A3 are the page of slot 3, A4 to A7 of slot 1,
B0 to B3 of slot 2, B4 to B7 the pins of port C, all reversed on the way. With
it, `setpage1` writes the half of port A that selects slot 3, and `setpage3`
that of slot 1, each contrary to its comment; `setpage2`, which nothing calls,
and `setportc` have the same instructions and write the half of port C, as only
`setportc` says. `boot` asks for page 1 in both slots (0x81 is cut to its lower
four bits although line 75 says "RAM page 1"), so on the machine the exchange
does not show, and the fill of 0xC000-0xFFFF goes to flash, which does not take
it. `FillsBehindStack` says all of this: which slot each routine has set when it
returns, page 1 and not 9 in slot 3, and a fill that is in RAM up to 0xC000.

### Z80Disassembler and Z80InstructionSet

The decoder looks at an opcode and then reads the operands' bytes, in the order
of the operands. `Decode` is the first half (`Regular`, `Extended`, `Bit` are
the functions of those names, `Index` what a prefix makes of hl), `Fetch` the
second, and `Disassemble` both, with the end of the bytes reached anywhere.
A byte of an operand that the code never writes is one of `Junk`. The state is
that of the listing loop: `code`, `offset`, and `listing`, what was printed.

`Z80InstructionSet` builds each documented instruction as an assembler would,
group by group, and was written from the instruction set, not from the decoder.
`ListedAsDocumented` says that each is listed as what it is. It does not hold,
and `ListedButSlips` says where it does not, in both directions: the decoder
lists an instruction with its mnemonic, operands and length just if it is not one
of `Slips`, which are

* every instruction of iy: line 637 tests for the prefix 0xDF, which is
  `rst 0x18`; 0xFD is shown as invalid, and `rst 0x18` as a prefix;
* the sixteen block instructions, whose table stands under x = 3 and whose
  opcodes are taken for `ld i, a` and its like (line 553);
* `ld (de), a`, `ex af, af'`, `ld a, r`, `jp ix`, `ld sp, ix`;

and an immediate byte of `ld r, n` or of an arithmetic instruction is always in
an operand tagged as 16 bits wide, whose upper half is never written
(`ByteAsWord`; `disassemble.c:107`). A slip that is mended, a new one, or an
operand tagged otherwise each break the equivalence.

## 3. Runs

| Run | Question | Bounds |
|---|---|---|
| `serial_ring` | Is the ring a queue, and does the main loop wake up? | buffer 8, index bytes of 4 values: index range 16, so the buffer is half of it as at most allowed, and spans two low-byte pages as 512 does 256; 35 bytes wrap each index twice |
| `coproc_bus` | Is the bus owned, used and returned correctly? | one or two commands of each kind at the ends of RAM and flash and in two sectors, in any order and number; 2 polls for 1000 |
| `coproc_bus_data` | Does only one device drive the data lines? | the same |
| `debug_link` | Is an undisturbed session a remote call? | 3 packets, 2 commands, 1 fault of 3 kinds, any number of reopenings; buffer 8, so that a second packet can overflow it |
| `debug_link_stale` | Does a successful reply fit its command? | the same, late replies only |
| `target_transfer` | Do packets add up to blocks? | 32 addresses, 3 or 6 bytes a packet, 6 blocks, 3 reads, 2 commands |
| `flash_program` | Does `flash program` erase what it writes? | the same |
| `command_line` | Does a command do what its line says, when does an error stop it, and does it leave nothing behind? | every command, in full and abbreviated, with up to three words of 4 to 10 kinds; writes, reads and loads with numbers at the ends of their ranges; all words of up to three characters of nine, for the integers; 16 addresses, bytes of 2 bits, integers of 3 bytes (limit 32), six files |
| `command_line_error` | Does glydb survive an error in a line? | `flash load` with up to two words |
| `disassembler` | Which instructions are listed as what they are? | every opcode under every prefix and none, chains of prefixes, each whole and cut off at every byte; two values for each byte of an operand, one of each sign |
| `disassembler_iy` | Are those of iy? | every opcode behind 0xFD |
| `glyos_boot` | Do the page routines return, which slots do they set, and does the fill stay behind the stack? | none on the program; nine pairs of values in the PIO's registers at a reset |

The bounds reach the cases that matter: both indices wrap several times with the
buffer full and empty; a late acknowledge meets every point of the following
command; the second command meets anything the first left behind; blocks end
within, at, and past a packet, a sector, a chip and the address space. `MaxBytes`
bounds `sent`, `MaxCalls`, `MaxFaults` and `MaxCommands` bound counters that
exist only for that. `Lines` and `Codes` are the inputs; no table of the code
has more than two options or positionals, so three words reach one too many of
either, an option before, between and after positionals, and one given twice.
The integers keep the proportion of the code, where a limit is a power of two
and all bases but ten divide it; every word of up to three characters includes
all bases at, below and above both ends. Writes, reads and files end within,
at and past the address space.
Deadlock is not checked where a system may rest: a sender with nothing to send,
a debugger with no command, or one that was quit.

What the properties say is in the comments above them. In short:

* `serial_ring`: `RingInv` (the inductive invariant), `Lossless`,
  `KeepsUnreturned` (a byte is not overwritten before it is returned),
  `NoLostWakeup`, `IsQueue` (implements `ByteQueue`, liveness included).
* `coproc_bus`: `BusOwnership`, `BusInv`, `AckedEarlyAfterTimeout`,
  `CommandEffect` (memory, flash and the bytes read, end to end),
  `CommandEnds`, `BusReturned`.
* `debug_link`: `OwnReply`, `OneRequest`, `CommandEnds`, `IsRpc`.
* `target_transfer`: `WritesPrefix`, `ReadBack`, `PacketsFit`, `RightChip`,
  `TransferEnds`.
* `command_line`: `ResultValid` (what a handler relies on), `ReadsAsWritten`
  (against a reading of the whole line at once), `IntsExact` (against the place
  value of the digits), `OwnData` (a write's bytes, put together again, are the
  line's values, a load's the file's), `ErrorStopsCommand` (a command runs
  after an error just if the line ends in a long option without its argument, and
  a handler that reported one makes a request just if it is a write past the end
  of its memory), `RequestsFit` (every other write stays inside its memory),
  `FreesAll`, `LineEnds`; `TypeOK` has the invariant of the buffer.
* `disassembler`: `SizesFit` (no run past the bytes, and the loop ends),
  `BytesDecide`, `ListedButSlips`.
* `glyos_boot`: `ReturnsHome` (every `ret` goes to its call, across a change of
  pages), `FillsBehindStack` (which pages the slots have, and which routine set
  them, whatever the registers held; the fill neither meets the stack nor loses
  step with its address, and leaves RAM at 0xC000).

Five runs show the code to differ from what is said of it:

* `coproc_bus_data`: the memory's output "should be disabled ... to prevent the
  data signals from interfering" (`bus.h:48`). `bus_set_mode` enables it one
  register write too early when it leaves write mode.
* `debug_link_stale`: "Successful response has no data"
  (`binary_debug_protocol.h:16`) and the like. A late reply is taken by the next
  command, whose caller uses bytes that are not there. Closing and opening the
  connection is enough to be in step again, which `debug_link` shows.
* `flash_program`: "Erase flash address space and load file."
  (`commands/flash.c:128`). `GLYCON_FLASH_SECTOR_SIZE` is 0x4000 for sectors of
  0x1000, so three sectors of four are not erased.
* `command_line_error`: `cmd_parse_result_deinit` "Frees any data owned by
  `result`" (`command.h:118`). After an error behind a string positional, as in
  `flash load 5 f.bin`, it reads through a null pointer.

* `disassembler_iy`: "FD prefix" (`disassemble.c:494`), "Used for (iy+x)"
  (`z80.h:152`). `add iy, bc`, 0xFD 0x09, is listed as an invalid byte, and then
  `add hl, bc`.

The other differences met are inside properties that hold. Each of these is an
equivalence: the code departs from the words in exactly the cases named, in all
of them, and a change of the code either way breaks the property.

| Said | Done | In |
|---|---|---|
| "Returns `true` if parsing is successful, and `false` otherwise" (`command.h:114`) | true after a long option without its argument (`command.c:107`); the command runs | `ErrorStopsCommand` |
| "an error occured, and the write should not be performed" (`commands.h:46`) | a write past the end of its memory is complained of and made (`memory.c:16`, `flash.c:18`) | `ErrorStopsCommand` |
| "for `ex af, af'`" (`z80.h:154`), "Disassemble a single instruction" (`disassemble.h:6`) | the slips besides iy | `ListedButSlips` |
| "Valid when type is Z80_OP_U16" of `imm16` (`z80.h:177`) | an immediate byte has this type and writes `imm8` (`disassemble.c:107`) | `ListedButSlips` |
| "Flash sectors are 0x4000 (16K) bytes" (`flash.h:19`) | the chip's have 4 kilobytes | `CommandEffect` |
| "RAM page 1" (`main.z80:75`), "fill ram" (line 85) | page 1 of the flash, and a fill that is lost there | `FillsBehindStack` |
| "Set page in slot 1", "Slot 1 is high bits of PORT_PIO_A_DATA", "Set page in slot 3" (`main.z80:103,111,138`) | slot 3 and slot 1 | `FillsBehindStack` |

Two more are seen from the code and are checked nowhere: the range "[0, %d)" that
includes its end, with the byte too many in the scratch buffer (section 2,
`CommandHandlers`), and "If full, skip" (`serial.c:96`). `ring_buffer_read` stores
the incremented index before it loads the byte, so that a byte which arrives in
between at a full buffer is not skipped but takes the place of the one being read.
glydb never fills the buffer (`OneRequest`), and within the buffer the order does
no harm (`KeepsUnreturned`).

## 4. Fairness

Weak fairness everywhere, of whole processors: the CPU of the coprocessor
executes its program, an interrupt that is pending and enabled is served, glydb
runs, the line delivers what it does not lose, and a Z80 that is off the bus
watches BUSREQ (it does nothing else then). No fairness is given to what nobody
owes: a sender's next byte, a user's next command, a Z80's grant, a fault.
`CommandEnds` of `CoprocBus` therefore holds for a Z80 that never answers, and
`CommandEnds` of `DebugLink` for a line that loses anything. `CommandHandlers` gives
it to `debugger_do_line`, since that is one call of one thread and every call of
the target returns (`CommandEnds` of `DebugLink`), and none to the user.
`GlyosBoot` has none: it is a loop. `Z80Disassembler` has none: that the listing ends is in `SizesFit`,
as every step advances by at least a byte and never beyond the end.

## 5. Proofs

For every value of the constants, from the assumptions named in the modules:

* `RingInvariant`, and from it `RingLossless`, `RingTypeOK`, `RingNoLostWakeup`,
  for `Window <= BufferSize` and `RingAssumption`: the buffer divides the index
  range, and is at most half of it. `Lossless` is not inductive: nothing in it
  says what is in the buffer. `RingInv` adds that the indices are the numbers of
  bytes taken and written modulo the index range (`IndexInv`, with `read` half
  stored as an exception), that the slots between them hold those bytes
  (`SlotInv`), and what the main loop knows at each place (`MainInv`): above
  all that a low byte in `reg` was that of some earlier `write`. Lemma
  `HalfLoaded` is the heart: such a half-loaded index never equals `read` when
  the buffer is not empty, because the buffer is at most half the range.
  The arithmetic of `%` is in `Arithmetic`.
* `RingKeepsUnreturned` follows from the same invariant, step by step, and so
  does `RingIsQueue`: the receive path implements `ByteQueue` as far as safety
  goes. Its refinement mapping joins the bytes of the ring and of the UART into
  the queue, which is `Span(Taken, sent)` (`QueueInv`): a byte that arrives is a
  `Put`, one that is returned a `Get`, and the handler's steps and the half
  stores are stutters.
* `BusInvariant`, and from it `BusOwned`, `BusAckedEarly`, `BusTypeOK`, for every
  set of commands of any length, and any poll limit. Ownership alone does not
  survive a step: one has to know that the Z80 stays away while BUSREQ is held
  (`RequestInv`), that nothing is driven while waiting (`QuietInv`), and that
  during the release every pin still driven has its switch to input ahead and
  none is switched to output (`ReleaseInv`).
* `EffectInvariant`, and from it `BusCommandEffect`: a command that had the bus
  changed the cells it names and no others and read what was in them, and one
  that had not did nothing. `CommandEffect` speaks only of the end of a command;
  in the middle of a handler there are half-set pins, a flash chip in the middle
  of a command sequence, and a byte that is written or is not. `EffectInv` says
  of each moment where the accesses still in `todo` *lead* (`Leads`, a run of
  the register accesses from the present state): to a state of rest (`Ready`, no
  strobe active, the pins in the handler's mode) in which exactly the iterations
  counted by `iter` have been done (`Done`). A step of `MicroStep` then only
  moves along that run, and each body of a loop is a lemma of its own
  (`WriteBody`, `ReadBody`, `FlashBody`, `OnceBody`), gone through write cycle
  by write cycle against the chip's decoder. During the release no access can
  make a strobe (`Calm`, `CalmOp`). The proof needs that a message does not
  cover a cell twice, which a length of one byte gives (`BusAssumption`;
  `data_len` in `main.c:165`); which requests come, and which cells of the
  chips are looked at, is free.
* `LinkInvariant`, and from it `LinkOwnReply`, `LinkOneRequest`, `LinkTypeOK`,
  and `LinkIsRpc`: the link implements `DebugRpc`, step by step. `LinkAssumption`
  says that a request is well formed, as `bdbp_pkt` builds it (its second byte
  is the number of those that follow, with room for an address where there is
  one) and fits the receive buffer. The invariant has a part for every session
  (bytes under way are of commands that were started) and one for a session
  without a fault (`SessionInv`): either nothing of the command has been handled
  and its bytes lie, in order and none missing, in the message, the buffer and on
  the line (`Asking`), or it was handled once and the bytes of its reply lie in
  order in three such places (`Answering`). After `Open` this holds again,
  because opening restarts the coprocessor.
* `TransferInvariant`, and from it `TransferWritesPrefix`, `TransferReadBack`,
  `TransferPacketsFit`, `TransferRightChip` and `TransferTypeOK`, for any size of
  memory, packet (that has room for an address and a byte, and is no longer than
  memory) and sector, and every block that glydb lets through. `ReadBack` speaks
  of the end of a read: `ReadInv` adds what scratch holds after each packet, and
  `PhaseInv` that the phase goes with the kind of the command.
* `HandlersInvariant`, and from it `HandlersResultValid`, `HandlersFreesAll`,
  `HandlersRequestsTaken` and `HandlersTypeOK`, for all lines and files, and any size of byte, field and integer. The invariant has a part for the
  place in the line (`PlaceInv`), for what was matched (`MatchInv`), for the
  values taken so far, each of its type (`TakenInv`), for who owns the arrays
  (`OwnedInv`), for errors and whether they stop the command (`ErrorInv`), for
  what a handler computes (`WorkInv`) and for what is allocated (`HeapInv`: up to
  what `cmd_parse_result_deinit` frees, exactly what the session keeps and the
  handler holds). `HandlersAssumption` states besides the sizes one fact that the
  provers do not have, that a word has a length; `RadixAssumption`, that the
  letters of the prefixes of a base are not decimal digits, is of the tables of
  the code, and TLC evaluates both.
* `HandlersIntsExact`, from `ExactInt`, which is about every word: the checks of
  `parse_int` compare products and sums that may have wrapped around 2^64, and yet
  a word is taken just if it is a numeral of a number that 64 bits hold, and for
  that number. The number that is meant is a sum of place values, one term for
  each digit; what the loop gathers is compared with it digit by digit
  (`GatherExact`), and once it is past the limit no digit brings it back.
* `HandlersOwnData`, from a second invariant, `DataInv` (`HandlersData`): at each
  byte of the expansion the scratch buffer has the fields written so far and the
  bytes so far of the next (`Spread`), and while a file is read some first part of
  it. The bytes of a field, put together, are its value cut to the width
  (`FieldJoins`), by an induction over the bytes, since each takes the remainder
  of one division more.
* `HandlersReadsAsWritten`, from a third, `ReadInv` (`HandlersRead`). What a line
  means is a choice over the whole line, and the parser goes through it a word at
  a time, taking two at once for an option with its argument. The reading is
  therefore cut at each word (`ArgumentsOf`, `PlacesBefore`, `OptionsBefore`), and
  `ReadInv` says that the values taken so far are the reading of the words before
  the one the parser is at, and that this one is nobody's argument.
* `HandlersErrorStops` and `HandlersRequestsFit`, from a fourth, `ExactInv`
  (`HandlersExact`). That an error stops the command says what may not happen;
  that the two exceptions are always met says what must have been reported
  before. `ExactInv` therefore has at each place, as an equivalence, which error
  lies behind it: none while a line is read and a handler is at work, unless the
  parser is past a bare long option, which is the last word (`BareOption`), and
  a write past the end at the call of the target (`Carrying`).
* `CommandHandlersProofs` begins with what these rest on, for every input: `IntInRange`
  (what `parse_int` accepts is a number of 64 bits), `GrownEnough` (`buffer.c`'s
  growth ends, with room enough) and `PushFits` (a pushed value is within what
  realloc gave).
* `DisassemblerInvariant`, and from it `DisassemblerSizesFit`,
  `DisassemblerBytesDecide` and `DisassemblerTypeOK`, for every sequence of bytes.
  The invariant is simple (what is listed was decoded from the bytes at its
  offset); the work is in the decoder. Every entry of its tables has operands of
  a known form (`DecodeForms`): at most three, of which those to be read take two
  bytes together. With the opcode in the first, second or fourth place that makes
  one to four reads (`InstRead`), and each read is of a byte counted in the size,
  so that two sequences that agree so far give the same instruction (`OwnBytes`).
* `DisassemblerListedButSlips`, from the same invariant, for every sequence of
  bytes and whatever immediates and displacements the reference is built over
  (`InstructionSetAssumption`: they are bytes). The two sides go in opposite
  directions, the decoder from the fields of an opcode to its operands and the
  reference from an instruction to its bytes, and they meet at the opcode. Of
  the decoder, one lemma for each row of its tables says which opcodes, under
  which prefix, have which mnemonic and which forms of operands (`Code`,
  `CodeExtended`, `CodeBit`, `CodeIndexedBit`), and `Gives` says what operands
  those forms make of the bytes behind the opcode. Of the reference, one lemma
  for each line of each group gives the opcode and the bytes behind it. Together
  they make every instruction `Shown`: bytes that start with it are disassembled
  as it, unless it is one of `Slips` (`Load8Shown` to `RotateAndBitShown`, and
  `DocumentedShown` for all), an immediate byte as a word and as nothing else.
  In the other direction every slip is `Missed`: what the code lists for its
  bytes has another mnemonic (`BlockMissed`, `IyMissed`, whose first byte is
  invalid), another size or another operand (`RestartMissed`, `SinglesMissed`).
* `KernelReturnsHome`, `KernelFillsBehindStack` and `KernelTypeOK`, for whatever
  bytes the PIO's registers held at the reset (`LeftoverAssumption` asks no more
  than that they are bytes). The invariant (`KernelInvariant`) goes from
  instruction to instruction: at each it has the calls under way, and of the
  registers and ports what a later instruction depends on. Return addresses are
  at 0x80fc to 0x80ff, which is page 8 as long as the upper half of port B, as
  the CPU sees it, is 1; no routine that boot calls changes that half, since
  `setpage1` and `setpage3` write port A and `setportc` the lower half of B
  (`Pushes`, `Pops`).
  That they put the right pages there rests on `bitreverse`, which reverses every
  byte (`ReversesEveryByte`): its twelve rotations, exclusive ors and masks are
  followed bit by bit, for a byte that is a variable.

The provers cannot use the library's induction theorems, which take an operator
as a parameter. Where a proof needs induction, it is by a set instead: of a set
of natural numbers that is not empty, one is the least (`NatLeast` in `Arithmetic`,
from the well-foundedness of the natural numbers), and `Rounds`, `RoundsTo` and
`StepsTo` have from it that the rounds of a loop make one function.

Only model-checked:

* liveness (`CommandEnds`, `BusReturned`, `TransferEnds`, `LineEnds`, and the
  fairness of `IsQueue`): fairness and ENABLED are outside the prover's reach;
* the five properties that are shown to fail.

## 6. Not modelled

Time: the delays of `timing.h` are taken to be long enough, and the two seconds
of glydb to be longer than any command. The coprocessor holding the bus while
the Z80 is reset. Garbage on the line other than lost bytes. In the command
line: escapes in strings, which only change characters of a word and so what a
path is; boolean values and options without a value, which no table has; running
out of memory. The wording of everything printed: the contents of `help`, the
names in `z80.c`, `flash info`. The empty `rst` vectors of GlyOS, whose
interrupts are off. `glysim` (empty), the build files, and the hardware beyond
the chips and wires named.

## 7. Plan

Done: the coprocessor's receive path and bus, the link, the transfers, the
command line with its handlers, the disassembler, and GlyOS; and, for every
value of the constants, every safety property that the passing runs check. What
is left to TLC is liveness, which the provers cannot reach.
