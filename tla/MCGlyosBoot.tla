---------------------------- MODULE MCGlyosBoot ----------------------------
(***************************************************************************)
(* The kernel as it is, after a reset that leaves the PIO's registers      *)
(* clear, all ones or mixed.                                               *)
(***************************************************************************)
EXTENDS GlyosBoot

MCLeftover == {{}, Bit, {0, 2, 5, 7}}
=============================================================================
