---------------------------- MODULE MCCoprocBus ----------------------------
(***************************************************************************)
(* The bus with one command of every kind.  The addresses are the ends of  *)
(* RAM and flash and one cell in each of two flash sectors; the commands   *)
(* run over both ends.                                                     *)
(***************************************************************************)
EXTENDS CoprocBus

Cmd(k, a, d, n) == [kind |-> k, addr |-> a, data |-> d, amt |-> n]

MCMemAddr == {0, 1, 4096, 131071, 131072, 262143}
MCInitByte == {0, 6}

MCRequests ==
    {Cmd("write", 262143, <<x55, x30>>, 0),
     Cmd("read", 0, <<>>, 2),
     Cmd("read", 131071, <<>>, 2),
     Cmd("flash", 131071, <<x90, x10>>, 0),
     Cmd("flash", 1, <<x55>>, 0),
     Cmd("flash_id", 0, <<>>, 0),
     Cmd("erase_sector", 1, <<>>, 0),
     Cmd("erase_sector", 131072, <<>>, 0),
     Cmd("erase_chip", 0, <<>>, 0)}
=============================================================================
