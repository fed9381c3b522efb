------------------------------ MODULE ByteQueue ------------------------------
(***************************************************************************)
(* What serial.h promises its caller: the bytes that reach the receive     *)
(* line are handed out once each, in the order in which they arrived, and  *)
(* every one of them is handed out in the end.  The n-th byte of the line  *)
(* is the number n: the queue never looks at a value.                      *)
(***************************************************************************)
EXTENDS Naturals, Sequences

VARIABLES queue,      \* arrived, not yet returned to the caller
          delivered   \* everything returned to the caller so far

vars == <<queue, delivered>>

Init == queue = <<>> /\ delivered = <<>>

Put == /\ queue' = Append(queue, Len(queue) + Len(delivered))
       /\ UNCHANGED delivered

Get == /\ queue # <<>>
       /\ delivered' = Append(delivered, Head(queue))
       /\ queue' = Tail(queue)

Safety == Init /\ [][Put \/ Get]_vars

Spec == Safety /\ WF_vars(Get)
=============================================================================
