---------------------------- MODULE MCDebugLink -----------------------------
(***************************************************************************)
(* Pings, a read of one byte and a write of one byte, two commands and one *)
(* fault: enough for the second command to meet what the first left on the *)
(* line, and for the connection to be closed and opened in between.        *)
(***************************************************************************)
EXTENDS DebugLink

MCRequests == {<<Ping, 0>>, <<Read, 4, 0, 0, 2, 1>>, <<Write, 4, 0, 0, 2, 9>>}
=============================================================================
