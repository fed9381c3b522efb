------------------------------ MODULE DebugRpc ------------------------------
(***************************************************************************)
(* What the link between glydb and the coprocessor promises a command of   *)
(* the debugger (target.h:12-17, binary_debug_protocol.h:8-12).            *)
(*                                                                         *)
(* Commands are numbered.  In a session in which the line lost nothing     *)
(* and nothing came late, a command is carried out at most once, before    *)
(* the next one starts, and it returns success only when it was carried    *)
(* out.  Opening the connection starts such a session: a command left      *)
(* behind by an earlier session is never carried out any more.             *)
(***************************************************************************)
EXTENDS Naturals

VARIABLES open,      \* the connection is open
          disturbed, \* a byte was lost, or late, since it was opened
          calls,     \* commands started
          waiting,   \* a command waits for its result
          inflight,  \* the last command may still be carried out
          done,      \* the commands carried out with success
          last       \* the last command that returned, and whether with success

vars == <<open, disturbed, calls, waiting, inflight, done, last>>

Init ==
    /\ open = FALSE /\ disturbed = FALSE
    /\ calls = 0 /\ waiting = FALSE /\ inflight = FALSE
    /\ done = {}
    /\ last = [n |-> 0, ok |-> FALSE]

\* Opening restarts the coprocessor.
Open ==
    /\ ~open /\ open' = TRUE
    /\ disturbed' = FALSE /\ inflight' = FALSE
    /\ UNCHANGED <<calls, waiting, done, last>>

\* `connection close`, or the end of glydb in the middle of a command.
Close ==
    /\ open /\ open' = FALSE
    /\ waiting' = FALSE
    /\ inflight' \in {inflight, FALSE}
    /\ UNCHANGED <<disturbed, calls, done, last>>

Call ==
    /\ open /\ ~waiting
    /\ calls' = calls + 1 /\ waiting' = TRUE /\ inflight' = TRUE
    /\ UNCHANGED <<open, disturbed, done, last>>

\* The target carries the command out, or fails to.
Serve ==
    /\ inflight /\ inflight' = FALSE
    /\ done' \in {done, done \cup {calls}}
    /\ UNCHANGED <<open, disturbed, calls, waiting, last>>

Return ==
    /\ waiting /\ waiting' = FALSE
    /\ ~inflight
    /\ last' = [n |-> calls, ok |-> calls \in done]
    /\ UNCHANGED <<open, disturbed, calls, inflight, done>>

\* Once the session is disturbed, what a command returns says nothing of
\* what the target does, or of when.
Disturbed ==
    /\ disturbed' = TRUE
    /\ waiting' \in {waiting, FALSE}
    /\ inflight' \in BOOLEAN
    /\ \E s \in SUBSET (1 .. calls) : done' = done \cup s
    /\ \/ last' = last
       \/ waiting /\ last' \in [n : {calls}, ok : BOOLEAN]
    /\ UNCHANGED <<open, calls>>

Next == Open \/ Close \/ Call \/ Serve \/ Return \/ Disturbed

Spec == Init /\ [][Next]_vars
=============================================================================
