---------------------------- MODULE CommandLine ----------------------------
(***************************************************************************)
(* glydb's command line: the parser of command.c that matches a line       *)
(* against the tables of commands, options and positionals, the integers   *)
(* of value.c, and what is freed when the line is done.  CommandHandlers   *)
(* adds the loop around it and the handlers.                               *)
(*                                                                         *)
(* A line is a sequence of words; white space only separates them.  A step *)
(* of the parser is a round of one of its loops: a command word, a         *)
(* positional, a long option, or a letter of a group of short ones.  A     *)
(* value is the word it was read from.  Strings are copied to the heap.    *)
(***************************************************************************)
EXTENDS Integers, Sequences, FiniteSets

CONSTANT IntLimit   \* -INT64_MIN, 2^63

ASSUME IntLimitAssumption == IntLimit \in Nat \ {0}

\* The place value of a digit, or of a byte.
Power(base, n) == LET power[i \in Nat] == IF i = 0 THEN 1 ELSE base * power[i - 1] IN power[n]

-----------------------------------------------------------------------------
(***************************************************************************)
(* The tables: commands.c, and the file of each command.                   *)
(***************************************************************************)
Option(name, shorthand, type) == [name |-> name, shorthand |-> shorthand, type |-> type]
Required(type) == [type |-> type, optional |-> FALSE, variadic |-> FALSE]
Optional(type) == [type |-> type, optional |-> TRUE, variadic |-> FALSE]

Leaf(name, options, positionals, payload) ==
    [type |-> "leaf", name |-> name, options |-> options,
     positionals |-> positionals, payload |-> payload]
Directory(name, subcommands) ==
    [type |-> "directory", name |-> name, subcommands |-> subcommands]

write_opts == <<Option("repeat", "r", "int"), Option("width", "w", "int")>>
write_pos == <<Required("int"), [Required("int") EXCEPT !.variadic = TRUE]>>
load_opts == <<Option("type", "t", "str")>>
load_pos == <<Required("str"), Optional("int")>>

memory_commands ==
    << Leaf("write", write_opts, write_pos, "memory_write"),
       Leaf("read", <<>>, <<Required("int"), Optional("int")>>, "memory_read"),
       Leaf("load", load_opts, load_pos, "memory_load") >>

erase_commands ==
    << Leaf("sector", <<>>, <<Required("int")>>, "flash_erase_sector"),
       Leaf("chip", <<>>, <<>>, "flash_erase_chip") >>

flash_commands ==
    << Leaf("write", write_opts, write_pos, "flash_write"),
       Leaf("info", <<>>, <<>>, "flash_info"),
       Directory("erase", erase_commands),
       Leaf("load", load_opts, load_pos, "flash_load"),
       Leaf("program", load_opts, load_pos, "flash_program") >>

connection_commands ==
    << Leaf("open", <<>>, <<Optional("str")>>, "connection_open"),
       Leaf("close", <<>>, <<>>, "connection_close"),
       Leaf("status", <<>>, <<>>, "connection_status") >>

commands ==
    << Leaf("help", <<>>, <<[Optional("str") EXCEPT !.variadic = TRUE]>>, "help"),
       Leaf("quit", <<>>, <<>>, "quit"),
       Directory("memory", memory_commands),
       Directory("connection", connection_commands),
       Leaf("ping", <<>>, <<>>, "ping"),
       Directory("flash", flash_commands),
       Leaf("disassemble", <<>>, <<Required("int"), Required("int")>>, "disassemble") >>

NoCommand == [type |-> "none"]

-----------------------------------------------------------------------------
(***************************************************************************)
(* Words.                                                                  *)
(***************************************************************************)
Char(w, i) == SubSeq(w, i, i)
From(w, i) == SubSeq(w, i, Len(w))
IsFlag(w) == Char(w, 1) = "-"
IsLong(w) == IsFlag(w) /\ Len(w) > 1 /\ Char(w, 2) = "-"

\* strncmp(name, word, the length of word) = 0.
Abbreviates(w, name) == Len(w) <= Len(name) /\ SubSeq(name, 1, Len(w)) = w

\* The first entry of a table that fits, or 0.
FirstOf(fits) == IF fits = {} THEN 0 ELSE CHOOSE i \in fits : \A j \in fits : i <= j
cmd_match_command(spec, w) ==
    FirstOf({i \in 1 .. Len(spec) : Abbreviates(w, spec[i].name)})
LongOption(options, w) ==
    FirstOf({i \in 1 .. Len(options) : Abbreviates(From(w, 3), options[i].name)})
ShortOption(options, c) == FirstOf({i \in 1 .. Len(options) : options[i].shorthand = c})

-----------------------------------------------------------------------------
(***************************************************************************)
(* Values (value.c).  A string is its word; escapes are not looked into.   *)
(***************************************************************************)
Lower == "0123456789abcdefghijklmnopqrstuvwxyz"
Upper == "0123456789ABCDEFGHIJKLMNOPQRSTUVWXYZ"
PlaceOf == [c \in {Char(a, i) : a \in {Lower, Upper}, i \in 1 .. 36} |->
              CHOOSE i \in 1 .. 36 : c \in {Char(Lower, i), Char(Upper, i)}]
NoDigit == 36   \* of any other character: no base has it
DigitOf(c) == IF c \in DOMAIN PlaceOf THEN PlaceOf[c] - 1 ELSE NoDigit

Radix == [x |-> 16, o |-> 8, b |-> 2]
\* The letters of the prefixes are no decimal digits.
ASSUME RadixAssumption == \A c \in DOMAIN Radix : DigitOf(c) >= 10

Prefixed(w, at0) ==
    at0 < Len(w) /\ Char(w, at0) = "0" /\ Char(w, at0 + 1) \in DOMAIN Radix

\* The numbers of 64 bits that the digits are gathered in.
Unsigned(n) == n % (2 * IntLimit)

\* Mutant of Overflows: the product is not checked.
OverflowsLater(n, base) == FALSE
\* n * base goes past the limit.
Overflows(n, base) == n # 0 /\ base > IntLimit \div n

NotAnInt == [ok |-> FALSE, int |-> 0]
AnInt(n) == [ok |-> TRUE, int |-> n]

\* The loop over the digits.
Gather(digits, base) ==
    LET upTo[i \in 0 .. Len(digits)] ==
            IF i = 0 THEN AnInt(0)
            ELSE LET before == upTo[i - 1]
                     times == Unsigned(before.int * base)
                     digit == DigitOf(Char(digits, i))
                 IN IF /\ before.ok /\ digit < base
                       /\ ~Overflows(before.int, base) /\ digit <= Unsigned(IntLimit - times)
                    THEN AnInt(Unsigned(times + digit)) ELSE NotAnInt
    IN upTo[Len(digits)]

\* A word, as an integer: a sign, the prefix of a base, digits.
parse_int(w) ==
    LET start == IF IsFlag(w) THEN 2 ELSE 1
        base == IF Prefixed(w, start) THEN Radix[Char(w, start + 1)] ELSE 10
        digits == From(w, IF Prefixed(w, start) THEN start + 2 ELSE start)
        gathered == Gather(digits, base)
    IN IF Len(digits) = 0 THEN NotAnInt
       ELSE IF IsFlag(w) THEN [gathered EXCEPT !.int = - @]
       ELSE IF gathered.int = IntLimit THEN NotAnInt ELSE gathered

Parses(w, type) == type = "int" => parse_int(w).ok
as_int(w) == parse_int(w).int

-----------------------------------------------------------------------------
(***************************************************************************)
(* The buffer that the values are pushed to (buffer.c); of realloc'ed      *)
(* memory the size.                                                        *)
(***************************************************************************)
ValueSize == 8   \* sizeof(union value_data)
buffer_init == [size |-> 0, capacity |-> 0, allocated |-> 0]

\* The capacity grows by half and 8 until it is enough.
BetterCapacity(capacity, wanted) ==
    LET grown[n \in Nat] ==
            IF n = 0 THEN capacity ELSE grown[n - 1] + grown[n - 1] \div 2 + 8
    IN grown[CHOOSE n \in 1 .. wanted : /\ grown[n] >= wanted
                                         /\ \A m \in 1 .. n - 1 : grown[m] < wanted]

buffer_ensure_total_capacity(buf, wanted) ==
    IF buf.capacity >= wanted THEN buf
    ELSE [buf EXCEPT !.capacity = wanted, !.allocated = BetterCapacity(buf.capacity, wanted)]

buffer_push_data(buf) ==
    [buffer_ensure_total_capacity(buf, buf.capacity + ValueSize) EXCEPT !.size = @ + ValueSize]

\* struct cmd_parsed_optional: an option not given yet, and one given v.
Absent == [present |-> FALSE, value |-> ""]
Given(v) == [present |-> TRUE, value |-> v]

-----------------------------------------------------------------------------
VARIABLES phase,       \* what debugger_repl is doing
          line,        \* the line
          at,          \* the word the parser is at
          off,         \* the letter it is at, in a group of short options
          spec,        \* the directory searched
          cmd,         \* result.matched_command
          options,     \* result.options: of each whether it is present, and its value
          positionals, \* the values pushed; their number is positionals_len
          buffer,      \* the buffer they are in
          owned,       \* result.positionals points to them
          heap,        \* what is allocated or open and not freed
          ok,          \* cmd_parse returned true
          reported,    \* ghost: an error was reported
          first        \* ghost: the first word after the command's name

parser == <<line, at, off, spec>>
values == <<options, positionals, buffer, owned>>
result == <<cmd, values, heap>>
parserVars == <<phase, parser, result, ok, reported, first>>

\* Where heap memory is: the one object of a kind, or the n-th string of one.
TheOne(kind) == <<kind, 0>>
Nth(kind, n) == <<kind, n>>

Idle ==
    /\ phase = "prompt"
    /\ line = <<>> /\ at = 1 /\ off = 0 /\ spec = commands /\ cmd = NoCommand
    /\ options = <<>> /\ positionals = <<>> /\ buffer = buffer_init /\ owned = FALSE
    /\ ok = FALSE /\ reported = FALSE /\ first = 0

\* cmd_parse starts on line l.
StartLine(l) ==
    /\ phase = "prompt" /\ phase' = "command"
    /\ line' = l
    /\ UNCHANGED <<at, off, spec, result, ok, reported, first>>

AtEnd == at > Len(line)
Word == line[at]

\* Mutant of Fail: the error is reported, and the word skipped.
FailGoesOn ==
    /\ reported' = TRUE /\ at' = at + 1 /\ phase' = "leaf" /\ off' = 0
    /\ UNCHANGED <<line, spec, result, ok, first>>

\* The parser gives up.  The buffer of positionals is freed, but neither the
\* strings in it are, nor is their number reset.
Fail ==
    /\ reported' = TRUE /\ ok' = FALSE /\ phase' = "deinit"
    /\ heap' = heap \ {TheOne("positionals")}
    /\ UNCHANGED <<parser, cmd, values, first>>

Succeed == ok' = TRUE /\ phase' = "run"

-----------------------------------------------------------------------------
(***************************************************************************)
(* parse_cmd.                                                              *)
(***************************************************************************)
\* An empty line, or the name of a directory.
CommandEndsLine ==
    /\ phase = "command" /\ AtEnd
    /\ Succeed
    /\ UNCHANGED <<parser, result, reported, first>>

NoSuchCommand ==
    /\ phase = "command" /\ ~AtEnd
    /\ IsFlag(Word) \/ cmd_match_command(spec, Word) = 0
    /\ reported' = TRUE /\ ok' = FALSE /\ phase' = "deinit"
    /\ cmd' = IF IsFlag(Word) THEN cmd ELSE NoCommand
    /\ UNCHANGED <<parser, values, heap, first>>

CommandWord ==
    /\ phase = "command" /\ ~AtEnd
    /\ ~IsFlag(Word) /\ cmd_match_command(spec, Word) # 0
    /\ LET matched == spec[cmd_match_command(spec, Word)]
       IN /\ cmd' = matched
          /\ \/ /\ matched.type = "directory"
                /\ spec' = matched.subcommands
                /\ UNCHANGED <<phase, options, heap, first>>
             \/ /\ matched.type = "leaf"
                /\ phase' = "leaf" /\ first' = at + 1
                /\ options' = [i \in 1 .. Len(matched.options) |-> Absent]
                /\ heap' = heap \cup {TheOne("options")}
                /\ UNCHANGED spec
    /\ at' = at + 1
    /\ UNCHANGED <<line, off, positionals, buffer, owned, ok, reported>>

-----------------------------------------------------------------------------
(***************************************************************************)
(* parse_leaf.                                                             *)
(***************************************************************************)
MinPositionals == Cardinality({i \in DOMAIN cmd.positionals : ~cmd.positionals[i].optional})
MaxPositionals == Len(cmd.positionals)
Variadic == \E i \in DOMAIN cmd.positionals : cmd.positionals[i].variadic

\* The entry of the table for the i-th value: the last one is variadic.
PosType(i) == cmd.positionals[IF i > MaxPositionals THEN MaxPositionals ELSE i].type

\* Memory of a string value.
Allocated(type, where) == IF type = "str" THEN heap \cup {where} ELSE heap

LeafEnds ==
    /\ phase = "leaf" /\ AtEnd
    /\ Len(positionals) >= MinPositionals
    /\ Succeed /\ owned' = TRUE
    /\ UNCHANGED <<parser, cmd, options, positionals, buffer, heap, reported, first>>

MissingPositional ==
    /\ phase = "leaf" /\ AtEnd
    /\ Len(positionals) < MinPositionals
    /\ Fail

AtPositional == phase = "leaf" /\ ~AtEnd /\ ~IsFlag(Word)
\* Mutant of RoomForPositional: the number is checked against none only.
AlwaysRoom == MaxPositionals > 0
RoomForPositional == Len(positionals) < MaxPositionals \/ Variadic

PositionalError ==
    /\ AtPositional
    /\ RoomForPositional => ~Parses(Word, PosType(Len(positionals) + 1))
    /\ Fail

Positional ==
    /\ AtPositional /\ RoomForPositional
    /\ LET n == Len(positionals) + 1
       IN /\ Parses(Word, PosType(n))
          /\ heap' = Allocated(PosType(n), Nth("positional", n)) \cup {TheOne("positionals")}
    /\ positionals' = Append(positionals, Word)
    /\ buffer' = buffer_push_data(buffer)
    /\ at' = at + 1
    /\ UNCHANGED <<phase, line, off, spec, cmd, options, owned, ok, reported, first>>

\* Mutant of TakeOption: the value is not skipped.
TakeOptionOnly(i, v, n) ==
    /\ options' = [options EXCEPT ![i] = Given(v)]
    /\ heap' = Allocated(cmd.options[i].type, Nth("option", i))
    /\ at' = at + 1 /\ off' = 0 /\ phase' = "leaf"
    /\ UNCHANGED <<line, spec, cmd, positionals, buffer, owned, ok, reported, first>>

\* An option takes the value v; the parser goes on at word n.
TakeOption(i, v, n) ==
    /\ options' = [options EXCEPT ![i] = Given(v)]
    /\ heap' = Allocated(cmd.options[i].type, Nth("option", i))
    /\ at' = n /\ off' = 0 /\ phase' = "leaf"
    /\ UNCHANGED <<line, spec, cmd, positionals, buffer, owned, ok, reported, first>>

\* parse_long_option.
AtLong == phase = "leaf" /\ ~AtEnd /\ IsLong(Word)
LongIndex == IF Len(Word) = 2 THEN 0 ELSE LongOption(cmd.options, Word)

LongError ==
    /\ AtLong
    /\ \/ LongIndex = 0
       \/ /\ LongIndex # 0
          /\ \/ options[LongIndex].present
             \/ /\ at < Len(line)
                /\ ~Parses(line[at + 1], cmd.options[LongIndex].type)
    /\ Fail

\* Mutant of LongMissing: the argument that is not there is skipped too.
LongMissingSkips ==
    /\ AtLong /\ LongIndex # 0 /\ ~options[LongIndex].present
    /\ at = Len(line)
    /\ reported' = TRUE /\ at' = at + 2
    /\ UNCHANGED <<phase, line, off, spec, result, ok, first>>

\* A missing argument is reported, and true returned.
LongMissing ==
    /\ AtLong /\ LongIndex # 0 /\ ~options[LongIndex].present
    /\ at = Len(line)
    /\ reported' = TRUE /\ at' = at + 1
    /\ UNCHANGED <<phase, line, off, spec, result, ok, first>>

Long ==
    /\ AtLong /\ LongIndex # 0 /\ ~options[LongIndex].present
    /\ at < Len(line) /\ Parses(line[at + 1], cmd.options[LongIndex].type)
    /\ TakeOption(LongIndex, line[at + 1], at + 2)

\* parse_short_options: the loop over the letters after one '-'.  Every option
\* of the tables takes a value, and so ends the group.
EnterShort ==
    /\ phase = "leaf" /\ ~AtEnd /\ IsFlag(Word) /\ ~IsLong(Word)
    /\ phase' = "short" /\ off' = 2
    /\ UNCHANGED <<line, at, spec, result, ok, reported, first>>

AtLetter == phase = "short" /\ off <= Len(Word)
ShortIndex == ShortOption(cmd.options, Char(Word, off))

\* Mutant of ShortEnds: the parser stays at the word.
ShortEndsAgain ==
    /\ phase = "short" /\ off > Len(Word)
    /\ phase' = "leaf" /\ off' = 0 /\ at' = at
    /\ UNCHANGED <<line, spec, result, ok, reported, first>>

\* The '-' stands alone.
ShortEnds ==
    /\ phase = "short" /\ off > Len(Word)
    /\ phase' = "leaf" /\ off' = 0 /\ at' = at + 1
    /\ UNCHANGED <<line, spec, result, ok, reported, first>>

\* The rest of the word is the value, or if there is none the next word.
Attached == off < Len(Word)
HasArgument == Attached \/ at < Len(line)
Argument == IF Attached THEN From(Word, off + 1) ELSE line[at + 1]

ShortError ==
    /\ AtLetter
    /\ \/ ShortIndex = 0
       \/ /\ ShortIndex # 0
          /\ \/ options[ShortIndex].present
             \/ ~HasArgument
             \/ HasArgument /\ ~Parses(Argument, cmd.options[ShortIndex].type)
    /\ Fail

Short ==
    /\ AtLetter /\ ShortIndex # 0 /\ ~options[ShortIndex].present /\ HasArgument
    /\ Parses(Argument, cmd.options[ShortIndex].type)
    /\ TakeOption(ShortIndex, Argument, IF Attached THEN at + 1 ELSE at + 2)

-----------------------------------------------------------------------------
(***************************************************************************)
(* cmd_parse_result_deinit.                                                *)
(***************************************************************************)
StringPositionals ==
    IF cmd.type # "leaf" THEN {}
    ELSE {i \in 1 .. Len(positionals) : PosType(i) = "str"}

FreedStrings ==
    {Nth("positional", i) : i \in StringPositionals}
        \cup {Nth("option", i) : i \in {j \in DOMAIN options :
                options[j].present /\ cmd.options[j].type = "str"}}

\* The array of positionals is followed for each that is a string, counted ones
\* included that were given up in Fail.
Deinit ==
    /\ phase = "deinit"
    /\ owned \/ StringPositionals = {}
    /\ heap' = heap \ (FreedStrings \cup {TheOne("options"), TheOne("positionals")})
    /\ phase' = "prompt"
    /\ line' = <<>> /\ at' = 1 /\ off' = 0 /\ spec' = commands /\ cmd' = NoCommand
    /\ options' = <<>> /\ positionals' = <<>> /\ buffer' = buffer_init /\ owned' = FALSE
    /\ ok' = FALSE /\ reported' = FALSE /\ first' = 0

DeinitNull ==
    /\ phase = "deinit"
    /\ ~owned /\ StringPositionals # {}
    /\ phase' = "crashed"
    /\ UNCHANGED <<parser, result, ok, reported, first>>

Parse ==
    \/ CommandEndsLine \/ NoSuchCommand \/ CommandWord
    \/ LeafEnds \/ MissingPositional \/ PositionalError \/ Positional
    \/ LongError \/ LongMissing \/ Long
    \/ EnterShort \/ ShortEnds \/ ShortError \/ Short
    \/ Deinit \/ DeinitNull

-----------------------------------------------------------------------------
(***************************************************************************)
(* Properties.                                                             *)
(***************************************************************************)
\* Types: the parser never goes past the end of the line, and a value that is
\* pushed fits the memory of the buffer.
ParserTypeOK ==
    /\ line \in Seq(STRING)
    /\ at \in 1 .. Len(line) + 1
    /\ off \in Nat /\ (off # 0 => ~AtEnd)
    /\ cmd.type \in {"none", "directory", "leaf"}
    /\ owned \in BOOLEAN /\ ok \in BOOLEAN /\ reported \in BOOLEAN
    /\ first \in Nat
    /\ buffer.size = ValueSize * Len(positionals)
    /\ buffer.size <= buffer.capacity /\ buffer.capacity <= buffer.allocated

\* What a handler is given is valid (command.h:113-115): as many positionals as
\* its table asks for, and every value of the type the table names.  The
\* handlers read args->positionals and args->options with no check of their own.
ResultValid ==
    phase = "run" /\ cmd.type = "leaf" =>
        /\ owned
        /\ Len(positionals) >= MinPositionals
        /\ Len(positionals) <= MaxPositionals \/ Variadic
        /\ \A i \in DOMAIN positionals : Parses(positionals[i], PosType(i))
        /\ \A i \in DOMAIN options : options[i].present =>
                Parses(options[i].value, cmd.options[i].type)

\* How a line reads, as a whole: a word is an option if it starts with '-' and
\* is not itself the argument of the option before it.
LongTakes(w) == IsLong(w)
ShortTakes(w) == IsFlag(w) /\ ~IsLong(w) /\ Len(w) = 2
IsArgument ==
    LET isArg[i \in 1 .. Len(line)] ==
            IF i <= first THEN FALSE
            ELSE ~isArg[i - 1] /\ (LongTakes(line[i - 1]) \/ ShortTakes(line[i - 1]))
    IN isArg
Arguments == {i \in first .. Len(line) : ~IsArgument[i]}
PositionalWords == {i \in Arguments : ~IsFlag(line[i])}
NthOf(s, n) == CHOOSE i \in s : Cardinality({j \in s : j <= i}) = n

Names(i, k) ==
    IF IsLong(line[i]) THEN LongOption(cmd.options, line[i]) = k
                       ELSE Len(line[i]) > 1 /\ ShortOption(cmd.options, Char(line[i], 2)) = k
GivenTo(k) ==
    {IF IsLong(line[i]) \/ Len(line[i]) = 2 THEN line[i + 1] ELSE From(line[i], 3) :
        i \in {j \in Arguments : IsFlag(line[j]) /\ Names(j, k)
                                  /\ (j = Len(line) => ~LongTakes(line[j]))}}

\* A command that runs is given what the line says: the words that are neither
\* options nor their arguments are its positionals, in their order, and every
\* option has the one value given to it, wherever in the line it stands.
ReadsAsWritten ==
    phase = "run" /\ cmd.type = "leaf" =>
        /\ positionals = [n \in 1 .. Cardinality(PositionalWords) |->
                            line[NthOf(PositionalWords, n)]]
        /\ \A k \in DOMAIN options :
                GivenTo(k) = IF options[k].present THEN {options[k].value} ELSE {}

\* What a word means as an integer, by the place value of its digits.
Spells(digits, base) ==
    Len(digits) > 0 /\ \A i \in 1 .. Len(digits) : DigitOf(Char(digits, i)) < base
PlaceValue(digits, base) ==
    LET sum[i \in 0 .. Len(digits)] ==
            IF i = 0 THEN 0
            ELSE sum[i - 1] + DigitOf(Char(digits, i)) * Power(base, Len(digits) - i)
    IN sum[Len(digits)]
Meanings(w) ==
    LET negative == Char(w, 1) = "-"
        rest == From(w, IF negative THEN 2 ELSE 1)
        Read(digits, base) == IF ~Spells(digits, base) THEN {}
                              ELSE {IF negative THEN - PlaceValue(digits, base)
                                                ELSE PlaceValue(digits, base)}
    IN Read(rest, 10) \cup
       (IF Len(rest) < 2 \/ Char(rest, 1) # "0" THEN {}
        ELSE UNION {Read(From(rest, 3), Radix[r]) : r \in {r \in DOMAIN Radix : Char(rest, 2) = r}})

\* A word is taken for an integer just if it is a numeral, of any of the four
\* bases, of a number that 64 bits hold, and then for that number: no sum or
\* product of parse_int wraps, at neither end of the range.
IntsExact ==
    phase = "command" /\ at = 1 =>
        \A i \in DOMAIN line :
            {n \in Meanings(line[i]) : n \in -IntLimit .. IntLimit - 1}
              = IF parse_int(line[i]).ok THEN {as_int(line[i])} ELSE {}

\* cmd_parse_result_deinit "frees any data owned by result" (command.h:118) of
\* every line, and the prompt comes back.
Survives == phase # "crashed"
=============================================================================
