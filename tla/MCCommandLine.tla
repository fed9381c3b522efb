--------------------------- MODULE MCCommandLine ---------------------------
(***************************************************************************)
(* Lines of a command, in full or abbreviated, and up to three words of    *)
(* its arguments: numbers, other words, options long and short, with and   *)
(* without their values, repeated and misspelt; writes and loads with the  *)
(* numbers at the borders of their ranges; and short words of digits,      *)
(* signs and prefixes, for the integers.  An address space of 16 bytes, a  *)
(* byte of two bits and integers of three bytes.                           *)
(***************************************************************************)
EXTENDS CommandHandlers, TLC

UpTo(n, s) == UNION {[1 .. k -> s] : k \in 0 .. n}

WriteWords == {"9", "x", "-5", "-r", "-w3", "-r7", "--repeat", "--wid", "--", "-"}
LoadWords == {"9", "f.bin", "-t", "-tbin", "--type", "--t", "-x", "-"}
OtherWords == {"9", "x", "-x", "erase"}

Arguments3 ==
    {c \o a : c \in {<<"memory", "write">>, <<"f", "w">>}, a \in UpTo(3, WriteWords)}
    \cup {c \o a : c \in {<<"mem", "load">>, <<"flash", "p">>}, a \in UpTo(3, LoadWords)}
    \cup {c \o a : c \in {<<"memory", "r">>, <<"flash", "erase", "sector">>, <<"di">>,
                          <<"connection", "open">>, <<"help">>, <<"quit">>, <<"ping">>,
                          <<"co", "c">>, <<"co", "s">>, <<"f", "i">>, <<"f", "e", "chip">>},
                   a \in UpTo(3, OtherWords)}
    \cup UpTo(2, {"memory", "flash", "erase", "x", "--type"})
    \cup {<<"help">> \o a : a \in UpTo(3, {"flash", "e", "ping", "help"})}

Writes ==
    {c \o <<"w", a>> \o v \o o :
        c \in {<<"memory">>, <<"flash">>}, a \in {"0", "7", "8", "0xF", "0x10", "17"},
        v \in {<<"3">>, <<"27", "0b110", "31">>},
        o \in {<<>>, <<"-r", "0">>, <<"-r8">>, <<"-r17">>, <<"-r", "-1">>, <<"-r31", "-w3">>,
               <<"-w0">>, <<"-w", "2", "-r2">>, <<"-w3">>, <<"-w4">>, <<"-w2", "--rep", "4">>}}

Reads ==
    {c \o <<a, n>> : c \in {<<"memory", "read">>, <<"disas">>},
                     a \in {"0", "16", "17"}, n \in {"0", "1", "16", "17"}}
    \cup {<<"flash", "erase", "sector", a>> : a \in {"7", "8", "16", "17", "24"}}

Loading ==
    {c \o <<path>> \o r \o t :
        c \in {<<"memory", "load">>, <<"flash", "load">>, <<"flash", "program">>},
        path \in {"f.bin", "empty.bin", "large.bin", "f.ihx", "f.x/f", "f", "none.bin"},
        r \in {<<>>, <<"8">>, <<"16">>, <<"17">>},
        t \in {<<>>, <<"-tbin">>, <<"-t", ".bin">>, <<"-t.ihx">>}}

Numerals == UpTo(3, {"0", "1", "2", "3", "x", "o", "b", "F", "-"}) \ {<<>>}
Spelled(cs) == LET upTo[i \in 0 .. Len(cs)] == IF i = 0 THEN "" ELSE upTo[i - 1] \o cs[i]
               IN upTo[Len(cs)]
LongNumerals == {"-0x20", "-0x21", "-0o40", "-0o41", "0b11111", "0b100000", "-0b100000",
                 "0xg", "0x1f", "zz", "10000", "9_"}
Integers3 == {<<"memory", "read", Spelled(n)>> : n \in Numerals}
             \cup {<<"memory", "read", w>> : w \in LongNumerals}

MCLines == Arguments3 \cup Writes \cup Reads \cup Loading \cup Integers3

MCFiles ==
    LET Bytes(n) == [i \in 1 .. n |-> (i * i) % 4]
    IN ("f.bin" :> Bytes(3)) @@ ("empty.bin" :> <<>>) @@ ("large.bin" :> Bytes(17))
       @@ ("f.ihx" :> Bytes(3)) @@ ("f.x/f" :> Bytes(3)) @@ ("f" :> Bytes(16))

\* Lines for the run on what is freed after an error.
MCLoadLines == {<<"flash", "load">> \o a : a \in UpTo(2, LoadWords)}
=============================================================================
