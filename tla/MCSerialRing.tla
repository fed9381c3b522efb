---------------------------- MODULE MCSerialRing ----------------------------
(***************************************************************************)
(* The receive ring at small sizes: an index of two bytes of LowRange and  *)
(* HighRange values, a buffer of two low-byte pages as in the code (512    *)
(* slots, 256 values), enough bytes for both indices to wrap.              *)
(***************************************************************************)
EXTENDS SerialRing
=============================================================================
