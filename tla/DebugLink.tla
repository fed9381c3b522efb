----------------------------- MODULE DebugLink ------------------------------
(***************************************************************************)
(* The serial link: glydb's side of a command (target_exec_cmd of          *)
(* target.c over connection.c), the line in both directions, the receive   *)
(* buffer of serial.c, and the coprocessor's main loop with the replies of *)
(* its handlers (main.c).                                                  *)
(*                                                                         *)
(* Bytes travel one at a time.  A byte on the line carries, as a ghost,    *)
(* the number of the command it belongs to.  What the handlers do to the   *)
(* bus is the subject of CoprocBus; here a handler is one step that picks  *)
(* its outcome, and its reply.                                             *)
(***************************************************************************)
EXTENDS Naturals, Sequences

CONSTANTS Requests,   \* the packets the commands of glydb send
          ReadByte,   \* what the memory holds
          StackBytes, \* what an uninitialised byte of msg_data may hold
          Capacity,   \* SERIAL_BUFFER_SIZE, 512 in the code
          Faults,     \* what may go wrong: a subset of AllFaults
          MaxCalls,   \* bound: commands started
          MaxFaults   \* bound: faults

AllFaults == {"lose", "late", "write"}

\* enum bdbp_cmd
Ping == 1
Write == 2
Read == 3
WriteFlash == 4
FlashId == 5
EraseSector == 6
EraseChip == 7

\* enum bdbp_status
Success == 1
UnknownCmd == 2
BusTimeout == 3
BusAcquired == 4

AddrSize == 3     \* BDBP_ADDR_SIZE

Byte == 0 .. 255

\* A request holds its command, the number of its data bytes, and those, at
\* most 257 bytes; one that writes has an address (target_write).
ASSUME LinkAssumption ==
    /\ Requests \subseteq Seq(Byte)
    /\ \A p \in Requests :
          /\ Len(p) >= 2 /\ Len(p) = 2 + p[2] /\ Len(p) <= Capacity
          /\ p[1] \in {Write, WriteFlash} => p[2] >= AddrSize
    /\ ReadByte \in Byte /\ StackBytes \subseteq Byte
    /\ Capacity \in Nat /\ Faults \subseteq AllFaults
    /\ MaxCalls \in Nat /\ MaxFaults \in Nat

VARIABLES open,     \* conn.fd != -1
          host,     \* where target_exec_cmd is
          pkt,      \* the request it sends
          sent,     \* bytes of it written
          reply,    \* bytes of the reply read
          toDev,    \* bytes on the way to the coprocessor
          toHost,   \* bytes on the way to glydb
          rx,       \* rx_buffer
          dev,      \* where the main loop is
          msg,      \* the bytes of the message it has read
          out,      \* bytes of the reply still to be written
          calls,    \* ghost: commands started
          log,      \* ghost: what the handlers were run for
          last,     \* ghost: the last command that returned
          faults,   \* ghost: faults so far
          disturbed \* ghost: one of them since the connection was opened

hostVars == <<open, host, pkt, sent, reply>>
devVars == <<dev, msg, out>>
ghosts == <<calls, log, last, faults, disturbed>>
vars == <<hostVars, devVars, toDev, toHost, rx, ghosts>>

Init ==
    /\ open = FALSE /\ host = "idle"
    /\ pkt = <<>> /\ sent = 0 /\ reply = <<>>
    /\ toDev = <<>> /\ toHost = <<>> /\ rx = <<>>
    /\ dev = "read" /\ msg = <<>> /\ out = <<>>
    /\ calls = 0 /\ log = {}
    /\ last = [n |-> 0, ok |-> FALSE, pkt |-> <<>>, reply |-> <<>>, clean |-> FALSE]
    /\ faults = 0 /\ disturbed = FALSE

-----------------------------------------------------------------------------
(***************************************************************************)
(* glydb.                                                                  *)
(***************************************************************************)

\* Mutant of Open: the coprocessor is not restarted.
OpenWithoutReset ==
    /\ ~open /\ open' = TRUE
    /\ disturbed' = FALSE
    /\ UNCHANGED <<host, pkt, sent, reply, devVars, toDev, toHost, rx, calls, log,
                   last, faults>>

\* conn_open_serial: opening the port restarts the coprocessor, which sleep(1)
\* waits for.  The kernel dropped its queues when the port was closed.
Open ==
    /\ ~open /\ open' = TRUE
    /\ toDev' = <<>> /\ toHost' = <<>> /\ rx' = <<>>
    /\ dev' = "read" /\ msg' = <<>> /\ out' = <<>>
    /\ disturbed' = FALSE
    /\ UNCHANGED <<host, pkt, sent, reply, calls, log, last, faults>>

\* conn_close between commands, or the end of the process in one.
Close ==
    /\ open /\ open' = FALSE
    /\ host' = "idle" /\ pkt' = <<>> /\ sent' = 0 /\ reply' = <<>>
    /\ toHost' = <<>>
    /\ UNCHANGED <<devVars, toDev, rx, ghosts>>

\* target_exec_cmd, once debugger_require_connection has passed.
ExecCmd(p) ==
    /\ open /\ host = "idle" /\ calls < MaxCalls
    /\ host' = "send" /\ pkt' = p /\ sent' = 0 /\ reply' = <<>>
    /\ calls' = calls + 1
    /\ UNCHANGED <<open, devVars, toDev, toHost, rx, log, last, faults, disturbed>>

\* Mutant of SendByte: `i <= len` ends the loop of conn_write_all.
SendOneMore ==
    /\ host = "send"
    /\ toDev' = Append(toDev, [b |-> pkt[sent + 1], n |-> calls])
    /\ sent' = sent + 1
    /\ host' = IF sent' > Len(pkt) THEN "read" ELSE "send"
    /\ UNCHANGED <<open, pkt, reply, devVars, toHost, rx, ghosts>>

\* One conn_write_byte of conn_write_all.
SendByte ==
    /\ host = "send"
    /\ toDev' = Append(toDev, [b |-> pkt[sent + 1], n |-> calls])
    /\ sent' = sent + 1
    /\ host' = IF sent' = Len(pkt) THEN "read" ELSE "send"
    /\ UNCHANGED <<open, pkt, reply, devVars, toHost, rx, ghosts>>

\* target_exec_cmd returns: false is success.
Return(ok, r, clean) ==
    /\ host' = "idle" /\ pkt' = <<>> /\ sent' = 0 /\ reply' = <<>>
    /\ last' = [n |-> calls, ok |-> ok, pkt |-> pkt, reply |-> r, clean |-> clean]

\* Mutant of IsWhole: the data bytes are left unread.
IsHeader(r) == Len(r) = 2

\* The data bytes of the reply are as many as its second byte says.
IsWhole(r) == Len(r) >= 2 /\ Len(r) = 2 + r[2].b

\* Mutant of Succeeded: the status is not looked at.
AnyStatus(r) == TRUE

Succeeded(r) == r[1].b = Success

\* conn_read_byte gets a byte: status, length or data.
ReadReply ==
    /\ host = "read" /\ toHost # <<>>
    /\ toHost' = Tail(toHost)
    /\ LET r == Append(reply, Head(toHost))
       IN IF IsWhole(r)
          THEN Return(Succeeded(r), r, ~disturbed)
          ELSE reply' = r /\ UNCHANGED <<host, pkt, sent, last>>
    /\ UNCHANGED <<open, devVars, toDev, rx, calls, log, faults, disturbed>>

\* No byte is coming: nothing is on the line, and the coprocessor waits for
\* one itself or is lost in a handler.
Silent == /\ toHost = <<>> /\ toDev = <<>>
          /\ dev \in {"read", "runaway"} /\ (dev = "read" => rx = <<>>)

Fault(f) == /\ f \in Faults /\ faults < MaxFaults
            /\ faults' = faults + 1 /\ disturbed' = TRUE

\* Mutant of ReadTimeout: a read that blocks until a byte comes.
NoTimeout ==
    /\ host = "read" /\ toHost = <<>>
    /\ ~Silent /\ Return(FALSE, reply, FALSE) /\ Fault("late")
    /\ UNCHANGED <<open, devVars, toDev, toHost, rx, calls, log>>

\* conn_read_byte finds nothing for 2 seconds, the VTIME of
\* set_serial_attribs: nothing is coming, or it comes late.
ReadTimeout ==
    /\ host = "read" /\ toHost = <<>>
    /\ \/ Silent /\ Return(FALSE, reply, ~disturbed) /\ UNCHANGED <<faults, disturbed>>
       \/ ~Silent /\ Return(FALSE, reply, FALSE) /\ Fault("late")
    /\ UNCHANGED <<open, devVars, toDev, toHost, rx, calls, log>>

\* write() fails: what was written before stays written.
WriteError ==
    /\ host = "send"
    /\ Fault("write")
    /\ Return(FALSE, reply, FALSE)
    /\ UNCHANGED <<open, devVars, toDev, toHost, rx, calls, log>>

-----------------------------------------------------------------------------
(***************************************************************************)
(* The line.                                                               *)
(***************************************************************************)

\* A byte arrives and the interrupt handler stores it, if there is room
\* (serial.c:93-100).
Receive ==
    /\ toDev # <<>>
    /\ toDev' = Tail(toDev)
    /\ rx' = IF Len(rx) < Capacity THEN Append(rx, Head(toDev)) ELSE rx
    /\ UNCHANGED <<hostVars, devVars, toHost, ghosts>>

Lose ==
    /\ Fault("lose")
    /\ \/ toDev # <<>> /\ toDev' = Tail(toDev) /\ UNCHANGED toHost
       \/ toHost # <<>> /\ toHost' = Tail(toHost) /\ UNCHANGED toDev
    /\ UNCHANGED <<hostVars, devVars, rx, calls, log, last>>

-----------------------------------------------------------------------------
(***************************************************************************)
(* The coprocessor.                                                        *)
(***************************************************************************)

Bytes(m) == [i \in 1 .. Len(m) |-> m[i].b]

\* The main loop reads command, length and data (main.c:161-170).
ReadMessage ==
    /\ dev = "read" /\ rx # <<>>
    /\ rx' = Tail(rx)
    /\ msg' = Append(msg, Head(rx))
    /\ dev' = IF IsWhole(msg') THEN "handle" ELSE "read"
    /\ UNCHANGED <<hostVars, out, toDev, toHost, ghosts>>

\* cmd_read takes the amount from the message, or, when the message is too
\* short, from what the stack holds.
CmdRead(data) ==
    LET amounts == IF Len(data) > AddrSize THEN {data[AddrSize + 1]} ELSE StackBytes
    IN {<<Success, a>> \o [i \in 1 .. a |-> ReadByte] : a \in amounts}

\* The reply of a handler that succeeds.
Replies(cmd, data) ==
    CASE cmd = Read -> CmdRead(data)
      [] cmd = FlashId -> {<<Success, 2, 191, 181>>}
      [] cmd \in {Ping, Write, WriteFlash, EraseSector, EraseChip} -> {<<Success, 0>>}
      [] OTHER -> {<<UnknownCmd, 0>>}

\* acquire_bus_or_fail
NeedsBus(cmd) == cmd \in {Write, Read, WriteFlash, FlashId, EraseSector, EraseChip}
BusFailures == {<<BusTimeout, 0>>, <<BusAcquired, 0>>}

\* The loops of cmd_write and cmd_flash end when the data pointer meets the
\* end of the message: never, if the address already took it past that.
RunsAway(cmd, data) == cmd \in {Write, WriteFlash} /\ Len(data) < AddrSize

Tagged(bytes, n) == [i \in 1 .. Len(bytes) |-> [b |-> bytes[i], n |-> n]]

\* The switch of main.c:172-199.
Handle ==
    /\ dev = "handle"
    /\ LET m == Bytes(msg)
           cmd == m[1]
           data == SubSeq(m, 3, Len(m))
           n == msg[1].n
       IN \/ /\ ~RunsAway(cmd, data)
             /\ \E r \in Replies(cmd, data) : out' = Tagged(r, n)
             /\ log' = log \cup {[n |-> n, pkt |-> m, ok |-> cmd \in Ping .. EraseChip]}
             /\ dev' = "reply" /\ msg' = <<>>
          \/ /\ NeedsBus(cmd)
             /\ \E r \in BusFailures : out' = Tagged(r, n)
             /\ log' = log \cup {[n |-> n, pkt |-> m, ok |-> FALSE]}
             /\ dev' = "reply" /\ msg' = <<>>
          \/ /\ RunsAway(cmd, data)
             /\ dev' = "runaway" /\ msg' = <<>>
             /\ log' = log \cup {[n |-> n, pkt |-> m, ok |-> TRUE]}
             /\ UNCHANGED out
    /\ UNCHANGED <<hostVars, toDev, toHost, rx, calls, last, faults, disturbed>>

\* One serial_write_u8.  A byte written while the port is closed is lost.
WriteReply ==
    /\ dev = "reply"
    /\ toHost' = IF open THEN Append(toHost, Head(out)) ELSE toHost
    /\ out' = Tail(out)
    /\ dev' = IF out' = <<>> THEN "read" ELSE "reply"
    /\ UNCHANGED <<hostVars, msg, toDev, rx, ghosts>>

-----------------------------------------------------------------------------
Coprocessor == ReadMessage \/ Handle \/ WriteReply
Host == SendByte \/ ReadReply \/ ReadTimeout \/ WriteError

Next == \/ Open \/ Close
        \/ \E p \in Requests : ExecCmd(p)
        \/ Host
        \/ Receive \/ Lose
        \/ Coprocessor

\* glydb and the coprocessor run, and the line delivers.  Nobody has to open
\* the connection or type a command, and nothing has to go wrong.
Fairness == WF_vars(Host) /\ WF_vars(Receive) /\ WF_vars(Coprocessor)

Spec == Init /\ [][Next]_vars /\ Fairness

-----------------------------------------------------------------------------
Tagging(s) == \A i \in 1 .. Len(s) : s[i] \in [b : Byte, n : 1 .. calls]

TypeOK ==
    /\ open \in BOOLEAN /\ disturbed \in BOOLEAN
    /\ host \in {"idle", "send", "read"} /\ dev \in {"read", "handle", "reply", "runaway"}
    /\ calls \in 0 .. MaxCalls /\ faults \in 0 .. MaxFaults
    /\ Tagging(toDev) /\ Tagging(toHost) /\ Tagging(rx)
    /\ Tagging(reply) /\ Tagging(msg) /\ Tagging(out)
    /\ host = "send" => sent < Len(pkt)
    /\ dev = "reply" <=> out # <<>>

(***************************************************************************)
(* In a session in which no byte was lost or late, a command that returned *)
(* was run by the coprocessor, on the very bytes glydb sent; it returns    *)
(* success exactly when the handler succeeded; and every byte of the reply *)
(* was written for it (target.h:12-17).  Opening the connection again is   *)
(* enough to have such a session.                                          *)
(***************************************************************************)
OwnReply ==
    last.clean =>
        /\ \E e \in log : e.n = last.n /\ e.pkt = last.pkt /\ e.ok = last.ok
        /\ \A i \in 1 .. Len(last.reply) : last.reply[i].n = last.n

(***************************************************************************)
(* Until the line fails, at most one request and its reply are under way,  *)
(* so the receive buffer never has to hold more than one packet and drops  *)
(* nothing: what SerialRing assumes of the sender (its Window).            *)
(***************************************************************************)
UnderWay == toDev \o rx \o msg
OneRequest ==
    open /\ ~disturbed =>
        /\ Len(UnderWay) <= Len(pkt)
        /\ \A i \in 1 .. Len(UnderWay) : UnderWay[i].n = calls
        /\ host # "read" => out = <<>> /\ toHost = <<>>

\* No command keeps glydb waiting forever, whatever is lost.
CommandEnds == host # "idle" ~> host = "idle"

(***************************************************************************)
(* The link implements the remote call of DebugRpc: a command left behind  *)
(* in an earlier session is never carried out after a new one was opened,  *)
(* none is carried out twice, none after its result was returned.          *)
(***************************************************************************)
InFlight == \/ host = "send"
            \/ \E i \in 1 .. Len(UnderWay) : UnderWay[i].n = calls

Rpc == INSTANCE DebugRpc WITH
           waiting <- host # "idle",
           inflight <- InFlight,
           done <- {e.n : e \in {x \in log : x.ok}},
           last <- [n |-> last.n, ok |-> last.ok]
IsRpc == Rpc!Spec

(***************************************************************************)
(* The successful reply of each command has the data the protocol names    *)
(* for it (binary_debug_protocol.h:16, 28-29, 39-40): none, the bytes      *)
(* asked for, or two.  The callers of target_exec_cmd use that many bytes  *)
(* of the buffer without looking at its length.                            *)
(***************************************************************************)
DataLength(p) == CASE p[1] = Read -> p[2 + AddrSize + 1]
                   [] p[1] = FlashId -> 2
                   [] OTHER -> 0

ReplyFits == last.ok => Len(last.reply) = 2 + DataLength(last.pkt)
=============================================================================
