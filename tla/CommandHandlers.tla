-------------------------- MODULE CommandHandlers --------------------------
(***************************************************************************)
(* glydb around its parser: debugger_repl reads a line, the handler of the *)
(* command that CommandLine matched runs, and what it hands to target.c    *)
(* goes over the link (TargetTransfer, DebugLink).  The handlers check     *)
(* every range, put the bytes of a write or of a file into dbg->scratch,   *)
(* and give back what they opened and allocated on every way out.          *)
(*                                                                         *)
(* A call of target.c is one request, which succeeds or fails.  What glydb *)
(* prints is left out.                                                     *)
(***************************************************************************)
EXTENDS CommandLine, AddressMap

CONSTANTS ByteSize,   \* the values of a byte, 256
          MaxWidth,   \* the bytes of an int64_t, 8
          Lines,      \* bound: the lines typed
          Files       \* what can be opened and read: from its path to its bytes

Byte == 0 .. ByteSize - 1

ASSUME HandlersAssumption ==
    /\ ByteSize \in Nat \ {0, 1} /\ MaxWidth \in Nat \ {0}
    /\ 2 * IntLimit = Power(ByteSize, MaxWidth)
    /\ Lines \subseteq Seq(STRING)
    /\ DOMAIN Files \subseteq STRING
    /\ \A path \in DOMAIN Files : Files[path] \in Seq(Byte)
    \* A fact of words, of which the provers know none.
    /\ \A l \in Lines : \A i \in DOMAIN l : Len(l[i]) \in Nat

VARIABLES quit,      \* dbg->quit
          conn,      \* dbg->conn is open
          op,        \* the debugger_write_op: where the bytes go, and how many
          scratch,   \* the bytes this command put into dbg->scratch, from its
                     \* start; behind them are those of earlier commands
          loop,      \* subcommand_write's j, k and l
          request    \* the call of target.c under way

session == <<quit, conn>>
work == <<op, scratch, loop, request>>
vars == <<parserVars, session, work>>

NoOp == [address |-> 0, len |-> 0]
LoopStart == [j |-> 0, k |-> 1, l |-> 0]
NoRequest == [kind |-> "none", address |-> 0, len |-> 0]
Request(kind, address, len) == [kind |-> kind, address |-> address, len |-> len]
NoWork == op = NoOp /\ scratch = <<>> /\ loop = LoopStart /\ request = NoRequest
DropWork == op' = NoOp /\ scratch' = <<>> /\ loop' = LoopStart /\ request' = NoRequest

\* debugger_init: a port named on glydb's command line may have been opened.
Init ==
    /\ Idle /\ NoWork /\ quit = FALSE
    /\ conn \in BOOLEAN
    /\ heap = {TheOne("scratch")} \cup IF conn THEN {TheOne("port")} ELSE {}

ReadLine ==
    /\ ~quit
    /\ \E l \in Lines : StartLine(l)
    /\ UNCHANGED <<session, work>>

\* After `quit`, or at the end of the input, debugger_deinit.
End ==
    /\ phase = "prompt" /\ phase' = "ended"
    /\ heap' = heap \ {TheOne("scratch"), TheOne("port")} /\ conn' = FALSE
    /\ UNCHANGED <<parser, cmd, values, ok, reported, first, quit, work>>

-----------------------------------------------------------------------------
Running(payloads) == phase = "run" /\ cmd.type = "leaf" /\ cmd.payload \in payloads

\* A handler returns, having complained or not.
Return(complained) ==
    /\ phase' = "deinit" /\ reported' = (reported \/ complained)
    /\ DropWork
    /\ UNCHANGED <<parser, cmd, values, ok, first, quit>>

ReturnOnly(complained) == Return(complained) /\ UNCHANGED <<heap, conn>>

GoOn(next) ==
    /\ phase' = next
    /\ UNCHANGED <<parser, cmd, values, ok, first, session>>

\* A directory has no handler.
RunDirectory == phase = "run" /\ cmd.type # "leaf" /\ ReturnOnly(FALSE)

\* connection_status only prints.
Status == Running({"connection_status"}) /\ ReturnOnly(FALSE)

\* report_help follows its words through the directories; behind a leaf there
\* are none.
Directories == Directory("", commands)
HelpOn ==
    LET upTo[i \in 0 .. Len(positionals)] ==
            IF i = 0 THEN Directories
            ELSE LET before == upTo[i - 1]
                     table == IF before.type = "directory" THEN before.subcommands ELSE <<>>
                     found == cmd_match_command(table, positionals[i])
                 IN IF found = 0 THEN NoCommand ELSE table[found]
    IN upTo[Len(positionals)]
Help == Running({"help"}) /\ ReturnOnly(HelpOn = NoCommand)

Quit ==
    /\ Running({"quit"})
    /\ quit' = TRUE /\ phase' = "deinit"
    /\ UNCHANGED <<parser, result, ok, reported, first, conn, work>>

\* subcommand_open: opening the port may fail.
Open ==
    /\ Running({"connection_open"})
    /\ \/ ReturnOnly(TRUE)
       \/ ~conn /\ conn' = TRUE /\ heap' = heap \cup {TheOne("port")} /\ Return(FALSE)

Close ==
    /\ Running({"connection_close"})
    /\ conn' = FALSE /\ heap' = heap \ {TheOne("port")} /\ Return(FALSE)

-----------------------------------------------------------------------------
(***************************************************************************)
(* subcommand_write: the values, each of `width` bytes, `repeat` times.    *)
(***************************************************************************)
OptionInt(i, default) == IF options[i].present THEN as_int(options[i].value) ELSE default
Repeat == OptionInt(1, 1)
Width == OptionInt(2, 1)
Address == as_int(positionals[1])

WriteStart ==
    /\ Running({"memory_write", "flash_write"})
    /\ IF Repeat >= 1 /\ Width \in 1 .. MaxWidth /\ Address \in 0 .. AddrSpace
       THEN GoOn("expand") /\ UNCHANGED <<heap, reported, work>>
       ELSE ReturnOnly(TRUE)

\* Mutant of ByteOf: the bytes of a value are taken from its upper end.
UpperByteOf(value, l) == (value \div Power(ByteSize, Width - 1 - l)) % ByteSize
\* Of a negative value too, by its two's complement.
ByteOf(value, l) == (value \div Power(ByteSize, l)) % ByteSize

NextByte ==
    IF loop.l + 1 < Width THEN [loop EXCEPT !.l = @ + 1]
    ELSE IF loop.k + 1 < Len(positionals) THEN [loop EXCEPT !.k = @ + 1, !.l = 0]
    ELSE [LoopStart EXCEPT !.j = loop.j + 1]

\* The byte at the end of the address space itself passes.
ByteFits == Address + Len(scratch) <= AddrSpace

WriteByte ==
    /\ phase = "expand" /\ loop.j < Repeat
    /\ IF ByteFits
       THEN /\ scratch' = Append(scratch, ByteOf(as_int(positionals[loop.k + 1]), loop.l))
            /\ loop' = NextByte
            /\ UNCHANGED <<phase, parser, result, ok, reported, first, session, op, request>>
       ELSE ReturnOnly(TRUE)

WriteExpanded ==
    /\ phase = "expand" /\ loop.j = Repeat
    /\ op' = [address |-> Address, len |-> Len(scratch)]
    /\ GoOn("op") /\ UNCHANGED <<heap, reported, scratch, loop, request>>

-----------------------------------------------------------------------------
(***************************************************************************)
(* subcommand_load and debugger_load_file.                                 *)
(***************************************************************************)
Loads == {"memory_load", "flash_load", "flash_program"}
Path == positionals[1]
Relocation == IF Len(positionals) > 1 THEN as_int(positionals[2]) ELSE 0

\* strrchr(path, '.'), or an option in its place; ++ext skips a character of both.
Dots(w) == {i \in 1 .. Len(w) : Char(w, i) = "."}
LastDot(w) == CHOOSE i \in Dots(w) : \A j \in Dots(w) : j <= i
HasType == options[1].present \/ Dots(Path) # {}
FileType == From(IF options[1].present THEN options[1].value ELSE From(Path, LastDot(Path)), 2)

LoadStart ==
    /\ Running(Loads)
    /\ IF Relocation \in 0 .. AddrSpace /\ HasType /\ Path \in DOMAIN Files
       THEN /\ heap' = heap \cup {TheOne("file")}
            /\ GoOn("load") /\ UNCHANGED <<reported, work>>
       ELSE ReturnOnly(TRUE)

\* Mutant of LoadFails: the file stays open.
LoadFailsOpen == phase = "load" /\ ReturnOnly(TRUE)

\* A type that is not known or not written yet, a file too large, or one that
\* cannot be read.
LoadFails ==
    /\ phase = "load"
    /\ heap' = heap \ {TheOne("file")} /\ UNCHANGED conn
    /\ Return(TRUE)

\* load_bin.  The size is asked for before the bytes are read, and a file that
\* has become shorter in between is read for what is there.
LoadBin ==
    /\ phase = "load" /\ FileType = "bin" /\ Len(Files[Path]) <= AddrSpace
    /\ \E n \in 0 .. Len(Files[Path]) : scratch' = SubSeq(Files[Path], 1, n)
    /\ op' = [address |-> Relocation, len |-> Len(Files[Path])]
    /\ heap' = (heap \ {TheOne("file")}) \cup {TheOne("ops")}
    /\ GoOn(IF cmd.payload = "flash_program" THEN "erase" ELSE "op")
    /\ UNCHANGED <<reported, loop, request>>

\* flash_program's loop over the sectors (TargetTransfer).
EraseAll ==
    /\ phase = "erase"
    /\ UNCHANGED <<heap, op, scratch, loop, request>>
    /\ \/ conn /\ GoOn("op") /\ UNCHANGED reported
       \/ GoOn("free") /\ reported' = TRUE

-----------------------------------------------------------------------------
(***************************************************************************)
(* memory_write_op and flash_write_op, and the requests.                   *)
(***************************************************************************)
ToMemory == cmd.payload \in {"memory_write", "memory_load"}
\* Mutant of PastEnd: the address alone is compared.
PastEndAddress == op.address > (IF ToMemory THEN AddrSpace ELSE FlashEnd)
PastEnd == op.address + op.len > (IF ToMemory THEN AddrSpace ELSE FlashEnd)

\* A command that loads has ops to free.
AfterOp == IF TheOne("ops") \in heap THEN "free" ELSE "deinit"

\* Past the end is complained of only.
WriteOp ==
    /\ phase = "op"
    /\ IF IsRam(op.address) = ToMemory
       THEN /\ request' = Request(IF ToMemory THEN "write" ELSE "flash", op.address, op.len)
            /\ reported' = (reported \/ PastEnd)
            /\ GoOn("target") /\ UNCHANGED <<heap, op, scratch, loop>>
       ELSE IF AfterOp = "free"
       THEN reported' = TRUE /\ GoOn("free") /\ UNCHANGED <<heap, work>>
       ELSE ReturnOnly(TRUE)

AskTarget(kind, address, len) ==
    /\ request' = Request(kind, address, len)
    /\ GoOn("target") /\ UNCHANGED <<heap, reported, op, scratch, loop>>

\* memory_read and disassemble.
Amount == IF Len(positionals) > 1 THEN as_int(positionals[2]) ELSE 1
Read ==
    /\ Running({"memory_read", "disassemble"})
    /\ IF Address \in 0 .. AddrSpace /\ Amount \in 1 .. AddrSpace
       THEN AskTarget("read", Address, Amount) ELSE ReturnOnly(TRUE)

EraseSector ==
    /\ Running({"flash_erase_sector"})
    /\ IF Address \in 0 .. AddrSpace /\ IsFlash(Address)
       THEN AskTarget("erase", Address, 0) ELSE ReturnOnly(TRUE)

\* Requests without an address.
Ask == Running({"flash_erase_chip", "flash_info", "ping"}) /\ AskTarget(cmd.payload, 0, 0)

\* A call of target.c returns.  Without a connection it sends nothing, and fails
\* unless there is nothing to send.
Succeeds == conn \/ (request.kind \in {"write", "flash"} /\ request.len = 0)
TargetReturns ==
    /\ phase = "target"
    /\ \E succeeds \in IF Succeeds THEN BOOLEAN ELSE {FALSE} :
          IF AfterOp = "free"
          THEN /\ request' = NoRequest /\ reported' = (reported \/ ~succeeds)
               /\ GoOn("free") /\ UNCHANGED <<heap, op, scratch, loop>>
          ELSE ReturnOnly(~succeeds)

FreeOps ==
    /\ phase = "free"
    /\ heap' = heap \ {TheOne("ops")} /\ UNCHANGED conn
    /\ Return(FALSE)

-----------------------------------------------------------------------------
Handle ==
    \/ RunDirectory \/ Status \/ Help \/ Quit \/ Open \/ Close
    \/ WriteStart \/ WriteByte \/ WriteExpanded
    \/ LoadStart \/ LoadFails \/ LoadBin \/ EraseAll
    \/ WriteOp \/ Read \/ EraseSector \/ Ask \/ TargetReturns \/ FreeOps

debugger_do_line == (Parse /\ UNCHANGED <<session, work>>) \/ Handle

Next == ReadLine \/ debugger_do_line \/ End

\* debugger_do_line is one call of one thread, and every request returns
\* (DebugLink's CommandEnds); the user may stop typing.
Spec == Init /\ [][Next]_vars /\ WF_vars(debugger_do_line)

-----------------------------------------------------------------------------
(***************************************************************************)
(* Properties.                                                             *)
(***************************************************************************)
TypeOK ==
    /\ phase \in {"prompt", "command", "leaf", "short", "run", "expand", "load", "erase",
                  "op", "target", "free", "deinit", "crashed", "ended"}
    /\ ParserTypeOK
    /\ quit \in BOOLEAN /\ conn \in BOOLEAN
    /\ op.address \in Nat /\ op.len \in Nat
    /\ scratch \in Seq(Byte)
    /\ loop.k \in 1 .. Len(positionals) + 1 /\ loop.j \in Nat /\ loop.l \in Nat

Writing == request.kind \in {"write", "flash"}

\* The line ends in a long option, which is without the argument it takes.
BareOption ==
    /\ cmd.type = "leaf" /\ first <= Len(line)
    /\ ~IsArgument[Len(line)] /\ IsLong(line[Len(line)])

\* An error that is reported stops the command before it runs, and a handler that
\* reports one makes no request of the target (command.h:113-115, "`true` if
\* parsing is successful", commands.h:46, "the write should not be performed"),
\* but in two cases, in which the code goes on every time: a long option at the
\* end of a line, without its argument, is reported and left out (command.c:107),
\* and a write past the end of its memory is reported and made (memory.c:16).
ErrorStopsCommand ==
    /\ phase = "run" => (reported <=> BareOption)
    /\ request # NoRequest =>
          (reported <=> BareOption \/ (Writing /\ PastEnd))

\* Between lines nothing that a line allocated or opened is left, whatever it
\* gave, wherever it went wrong and however its command ended: strings, arrays,
\* the file, the write operations; only the scratch buffer, and the port's name
\* while the connection is open.  When glydb ends these are gone too.  A line
\* whose strings would be lost does not get here (Survives).
FreesAll ==
    /\ phase = "prompt" =>
          heap = {TheOne("scratch")} \cup IF conn THEN {TheOne("port")} ELSE {}
    /\ phase = "ended" => heap = {}

\* Every line comes to its end: the loops of the parser always get on, a lone
\* '-' and an option without its argument included, and so does every handler.
LineEnds == phase = "command" ~> phase \in {"prompt", "crashed"}

\* Whatever numbers a line gives, 64-bit ones at either end included: a write of
\* which nothing is complained of stays inside the memory its command is for, and
\* none of memory's starts in flash, or of flash in memory (memory.c:12-16);
\* what is read, or loaded from a file, fits the scratch buffer, which has
\* AddrSpace bytes (debugger.h:18), and a read is of one byte at least.
RequestsFit ==
    /\ Writing => IsRam(request.address) = (request.kind = "write")
    /\ Writing /\ ~reported =>
          \A i \in 0 .. request.len - 1 :
             request.address + i \in IF request.kind = "write" THEN FlashEnd .. AddrSpace - 1
                                                               ELSE 0 .. FlashEnd - 1
    /\ Writing /\ cmd.payload \in Loads => request.len \in 0 .. AddrSpace
    /\ request.kind = "read" => request.len \in 1 .. AddrSpace

\* What a write puts into target memory is what its line says: at the address it
\* gives, field by field, the values, cut to the width, low byte first, and all of
\* them again for each repeat; of a load the file, from its first byte.
Joined(bytes) ==
    LET sum[i \in 0 .. Len(bytes)] ==
            IF i = 0 THEN 0 ELSE sum[i - 1] + bytes[i] * Power(ByteSize, i - 1)
    IN sum[Len(bytes)]
Fields == Repeat * (Len(positionals) - 1)
Field(n) == SubSeq(scratch, (n - 1) * Width + 1, n * Width)
Value(n) == positionals[2 + ((n - 1) % (Len(positionals) - 1))]
OwnData ==
    request.kind \in {"write", "flash"} =>
        IF cmd.payload \in Loads
        THEN /\ request.len = Len(Files[Path]) /\ request.address = Relocation
             /\ Len(scratch) <= request.len /\ scratch = SubSeq(Files[Path], 1, Len(scratch))
        ELSE /\ request.address = Address
             /\ request.len = Fields * Width /\ request.len = Len(scratch)
             /\ \A n \in 1 .. Fields :
                   Joined(Field(n)) = as_int(Value(n)) % Power(ByteSize, Width)
=============================================================================
