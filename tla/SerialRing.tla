----------------------------- MODULE SerialRing -----------------------------
(***************************************************************************)
(* The receive path of the coprocessor, glyco/src/serial.c: the interrupt  *)
(* handler stores bytes into a ring buffer, the main loop takes them out,  *)
(* and nothing but the code's own order of memory accesses keeps the two   *)
(* apart.                                                                  *)
(*                                                                         *)
(* The handler runs to completion between two instructions of the main     *)
(* loop, so it is one action.  The main loop is cut at every access to a   *)
(* variable the handler also uses.  The AVR moves 8 bits at a time: a      *)
(* 16-bit index is loaded low byte first and stored high byte first (the   *)
(* order avr-gcc gives volatile accesses), and the handler may run in      *)
(* between.  gcc stores the incremented `read` index before it loads the   *)
(* data byte of `data[read++ & MASK]`.                                     *)
(*                                                                         *)
(* The n-th byte sent is the number n: nothing here looks at a value.      *)
(***************************************************************************)
EXTENDS Integers, Sequences

CONSTANTS BufferSize,  \* SERIAL_BUFFER_SIZE, 512 in the code
          LowRange,    \* values of an index's low byte, 256 on the AVR
          HighRange,   \* values of an index's high byte, 256 on the AVR
          UartDepth,   \* bytes the USART itself holds before the handler runs
          Window,      \* the sender never has more unreturned bytes than this
          MaxBytes     \* bound on the bytes sent in a behaviour

\* The range of uint16_t.
IndexRange == LowRange * HighRange

(***************************************************************************)
(* serial.c:9 asks for a power of 2, so that the slots stay in step when   *)
(* an index wraps.  serial.c:10 asks for at most half the range of the     *)
(* index type: that also keeps a half-loaded `write` from looking like     *)
(* `read` (lemma HalfLoaded of SerialRingProofs).                          *)
(***************************************************************************)
ASSUME RingAssumption ==
    /\ BufferSize \in Nat \ {0}
    /\ LowRange \in Nat \ {0}
    /\ HighRange \in Nat \ {0, 1}
    /\ UartDepth \in Nat \ {0}
    /\ Window \in Nat \ {0}
    /\ MaxBytes \in Nat
    /\ IndexRange % BufferSize = 0
    /\ 2 * BufferSize <= IndexRange

VARIABLES data,      \* rx_buffer.data
          read,      \* rx_buffer.read
          write,     \* rx_buffer.write
          ie,        \* the global interrupt enable flag
          pc,        \* where the main loop is
          reg,       \* register holding the low byte of `write`
          idx,       \* register holding the old value of `read`
          uart,      \* received by the USART, not yet read from UDR0
          sent,      \* bytes the sender has put on the line
          returned   \* what serial_read_u8 and serial_poll_u8 have returned

vars == <<data, read, write, ie, pc, reg, idx, uart, sent, returned>>

\* serial_read_u8 returns -1 when there is nothing to read.
NoByte == -1

Index == 0 .. IndexRange - 1
Low(i) == i % LowRange

\* Mutant of Slot: a mask of one byte.
SlotOfLowByte(i) == Low(i)

Slot(i) == i % BufferSize

\* Mutant of Inc: an index that does not wrap.
IncUnbounded(i) == i + 1

Inc(i) == (i + 1) % IndexRange

\* The index whose high byte is that of i and whose low byte is b.
WithLow(i, b) == i - Low(i) + b

Size(w, r) == (w - r) % IndexRange
\* Mutant of IsFull: one slot is kept free.
IsAlmostFull == Size(write, read) = BufferSize - 1

IsFull == Size(write, read) = BufferSize
IsEmpty == Size(write, read) = 0
\* Mutant of SeesEmpty: 8-bit indices are compared.
SeesLowBytesEqual == reg = Low(read)

\* ring_buffer_is_empty when the low byte of `write` was loaded earlier.
SeesEmpty == Size(WithLow(write, reg), read) = 0

Labels == {"idle", "wait_lo", "wait_hi", "cli", "loop", "sleep", "asleep",
           "awake", "read_lo", "read_hi", "poll_lo", "poll_hi",
           "take_hi", "take_lo", "load"}

\* serial_init; the data bytes are never read before they are written.
Init ==
    /\ data = [i \in 0 .. BufferSize - 1 |-> NoByte]
    /\ read = 0 /\ write = 0
    /\ ie = TRUE
    /\ pc = "idle"
    /\ reg = 0 /\ idx = 0
    /\ uart = <<>> /\ sent = 0 /\ returned = <<>>

-----------------------------------------------------------------------------
(***************************************************************************)
(* The sender and the interrupt handler.                                   *)
(***************************************************************************)

\* A byte reaches the USART.  At 1 Mbaud a byte takes 160 cycles: the handler
\* keeps up with the line, so the USART itself never overruns.
ByteArrives ==
    /\ sent < MaxBytes
    /\ sent - Len(returned) < Window
    /\ Len(uart) < UartDepth
    /\ uart' = Append(uart, sent)
    /\ sent' = sent + 1
    /\ UNCHANGED <<data, read, write, ie, pc, reg, idx, returned>>

\* ring_buffer_write
Store(b) ==
    /\ data' = [data EXCEPT ![Slot(write)] = b]
    /\ write' = Inc(write)

\* ISR(USART0_RX_vect): a byte that finds the buffer full is dropped.  Any
\* interrupt ends sleep_cpu().
UsartRx ==
    /\ ie
    /\ uart # <<>>
    /\ uart' = Tail(uart)
    /\ \/ IsFull /\ UNCHANGED <<data, write>>
       \/ ~IsFull /\ Store(Head(uart))
    /\ pc' = IF pc = "asleep" THEN "awake" ELSE pc
    /\ UNCHANGED <<read, ie, reg, idx, sent, returned>>

-----------------------------------------------------------------------------
(***************************************************************************)
(* The main loop.  Its caller waits for data, reads the first byte with    *)
(* serial_read_u8 and the ones that follow with serial_poll_u8.            *)
(***************************************************************************)

Goto(l) == pc' = l

\* Between two calls, main.c either waits for the next message or polls for
\* the next byte of this one.
Call ==
    /\ pc = "idle"
    /\ \E l \in {"wait_lo", "poll_lo"} : Goto(l)
    /\ UNCHANGED <<data, read, write, ie, reg, idx, uart, sent, returned>>

LoadWriteLow(from, to) ==
    /\ pc = from
    /\ reg' = Low(write)
    /\ Goto(to)
    /\ UNCHANGED <<data, read, write, ie, idx, uart, sent, returned>>

\* serial_wait_for_data, the check before interrupts are disabled.
WaitCheck ==
    /\ pc = "wait_hi"
    /\ Goto(IF SeesEmpty THEN "cli" ELSE "read_lo")
    /\ UNCHANGED <<data, read, write, ie, reg, idx, uart, sent, returned>>

\* Mutant of Cli: without cli().
NoCli ==
    /\ pc \in {"cli", "awake"}
    /\ Goto("loop")
    /\ UNCHANGED <<data, read, write, ie, reg, idx, uart, sent, returned>>

Cli ==
    /\ pc \in {"cli", "awake"}
    /\ ie' = FALSE
    /\ Goto("loop")
    /\ UNCHANGED <<data, read, write, reg, idx, uart, sent, returned>>

\* The loop condition; interrupts are disabled.  The loop ends in sei().
WaitLoop ==
    /\ pc = "loop"
    /\ \/ IsEmpty /\ Goto("sleep") /\ UNCHANGED ie
       \/ ~IsEmpty /\ Goto("read_lo") /\ ie' = TRUE
    /\ UNCHANGED <<data, read, write, reg, idx, uart, sent, returned>>

\* Mutant of SeiSleep: without sei().
SleepWithoutSei ==
    /\ pc = "sleep"
    /\ Goto("asleep")
    /\ UNCHANGED <<data, read, write, ie, reg, idx, uart, sent, returned>>

\* sei(); sleep_cpu(): no interrupt is taken between sei and the instruction
\* after it.
SeiSleep ==
    /\ pc = "sleep"
    /\ ie' = TRUE
    /\ Goto("asleep")
    /\ UNCHANGED <<data, read, write, reg, idx, uart, sent, returned>>

\* serial_read_u8
ReadCheck ==
    /\ pc = "read_hi"
    /\ \/ /\ SeesEmpty
          /\ returned' = Append(returned, NoByte)
          /\ Goto("idle")
       \/ ~SeesEmpty /\ Goto("take_hi") /\ UNCHANGED returned
    /\ UNCHANGED <<data, read, write, ie, reg, idx, uart, sent>>

\* serial_poll_for_data
PollCheck ==
    /\ pc = "poll_hi"
    /\ Goto(IF SeesEmpty THEN "poll_lo" ELSE "take_hi")
    /\ UNCHANGED <<data, read, write, ie, reg, idx, uart, sent, returned>>

\* ring_buffer_read in three steps: the two stores of read++, then the data.
TakeHigh ==
    /\ pc = "take_hi"
    /\ idx' = read
    /\ read' = WithLow(Inc(read), Low(read))
    /\ Goto("take_lo")
    /\ UNCHANGED <<data, write, ie, reg, uart, sent, returned>>

TakeLow ==
    /\ pc = "take_lo"
    /\ read' = Inc(idx)
    /\ Goto("load")
    /\ UNCHANGED <<data, write, ie, reg, idx, uart, sent, returned>>

Load ==
    /\ pc = "load"
    /\ returned' = Append(returned, data[Slot(idx)])
    /\ Goto("idle")
    /\ UNCHANGED <<data, read, write, ie, reg, idx, uart, sent>>

Main ==
    \/ Call
    \/ LoadWriteLow("wait_lo", "wait_hi") \/ WaitCheck
    \/ Cli \/ WaitLoop \/ SeiSleep
    \/ LoadWriteLow("read_lo", "read_hi") \/ ReadCheck
    \/ LoadWriteLow("poll_lo", "poll_hi") \/ PollCheck
    \/ TakeHigh \/ TakeLow \/ Load

Next == ByteArrives \/ UsartRx \/ Main

\* The CPU runs and a pending, enabled interrupt is served; the line owes
\* nobody a byte.
Fairness == WF_vars(UsartRx) /\ WF_vars(Main)

Spec == Init /\ [][Next]_vars /\ Fairness

-----------------------------------------------------------------------------
TypeOK ==
    /\ data \in [0 .. BufferSize - 1 -> Nat \cup {NoByte}]
    /\ read \in Index /\ write \in Index /\ idx \in Index
    /\ ie \in BOOLEAN
    /\ pc \in Labels
    /\ reg \in 0 .. LowRange - 1
    /\ uart \in Seq(Nat) /\ Len(uart) <= UartDepth
    /\ sent \in 0 .. MaxBytes
    /\ returned \in Seq(Nat \cup {NoByte})

(***************************************************************************)
(* The inductive invariant.  Both indices are byte counts modulo the index *)
(* range; the slots between them hold the bytes in line order; a low byte  *)
(* in the register was the low byte of some earlier `write`, of one that   *)
(* was already ahead of `read` when the buffer was known not to be empty.  *)
(***************************************************************************)
Taken == Len(returned)
Written == sent - Len(uart)

UartInv == \A k \in 1 .. Len(uart) : uart[k] = Written + k - 1

IndexInv ==
    /\ Taken <= Written
    /\ sent - Taken <= Window
    /\ write = Written % IndexRange
    /\ IF pc \in {"take_lo", "load"}
         THEN idx = Taken % IndexRange
         ELSE read = Taken % IndexRange
    /\ pc = "take_lo" => read \in {Taken % IndexRange,
                                   (Taken + LowRange) % IndexRange}
    /\ pc = "load" => read = (Taken + 1) % IndexRange

SlotInv == \A k \in Taken .. Written - 1 : data[Slot(k)] = k

MainInv ==
    /\ pc \in {"read_lo", "read_hi", "take_hi", "take_lo", "load"}
          => Taken < Written
    /\ pc \in {"wait_hi", "read_hi", "poll_hi"}
          => \E t \in Taken .. Written :
                /\ reg = Low(t)
                /\ pc = "read_hi" => Taken < t
    /\ pc \in {"loop", "sleep"} => ~ie
    /\ pc \in {"sleep", "asleep"} => Taken = Written

(***************************************************************************)
(* Every call returns the next byte of the line: none is lost, repeated or *)
(* reordered, and serial_read_u8 after serial_wait_for_data never returns  *)
(* -1, which main.c:164 would take for command 255.  It holds while the    *)
(* sender leaves at most BufferSize bytes unreturned.                      *)
(***************************************************************************)
Lossless == \A i \in 1 .. Len(returned) : returned[i] = i - 1

RingInv == TypeOK /\ UartInv /\ IndexInv /\ SlotInv /\ MainInv /\ Lossless

(***************************************************************************)
(* serial_wait_for_data never sleeps on a byte that is already in the      *)
(* buffer: no wake-up falls between the check and sleep_cpu().             *)
(***************************************************************************)
NoLostWakeup == pc = "asleep" => IsEmpty

(***************************************************************************)
(* A byte of the ring that has not been returned is not overwritten, also  *)
(* while the index that protects it is half stored.                        *)
(***************************************************************************)
OldestIndex == IF pc \in {"take_lo", "load"} THEN idx ELSE read
Unreturned == {Slot(OldestIndex + k) : k \in 0 .. Size(write, OldestIndex) - 1}
KeepsUnreturned ==
    [][\A s \in Unreturned : data'[s] = data[s] \/ s \notin Unreturned']_vars

(***************************************************************************)
(* The receive path is the queue serial.h promises: the bytes of the ring  *)
(* and the USART, in order, and none stays there for ever.                 *)
(***************************************************************************)
RingBytes ==
    [k \in 1 .. Size(write, OldestIndex) |-> data[Slot(OldestIndex + k - 1)]]
Queue == INSTANCE ByteQueue WITH queue <- RingBytes \o uart,
                                 delivered <- returned
IsQueue == Queue!Spec
=============================================================================
