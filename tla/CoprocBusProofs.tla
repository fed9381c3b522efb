-------------------------- MODULE CoprocBusProofs --------------------------
(***************************************************************************)
(* Proofs about the coprocessor on the bus, for every set of commands,     *)
(* every poll limit, every memory and every moment at which the Z80        *)
(* answers: who drives the bus, and what a command does to memory and      *)
(* reads from it.  The second goes over the register writes one by one:    *)
(* that is where the chips see a write strobe or do not.                   *)
(***************************************************************************)
EXTENDS CoprocBus, Arithmetic, SequenceTheorems, TLAPS

-----------------------------------------------------------------------------
(***************************************************************************)
(* Who drives the bus.                                                     *)
(***************************************************************************)
LEMMA DdrOp == \A p \in Pins : \A d \in {"in", "out"} : Ddr(p, d) \in MicroOps
  BY DEF Ddr, MicroOps

LEMMA PortOps ==
    /\ \A d \in Byte : Port("data", d) \in MicroOps
    /\ \A a \in Nat : Port("addr", a) \in MicroOps
    /\ \A v \in {0, 1} : /\ Port("ramWe", v) \in MicroOps
                         /\ Port("memOe", v) \in MicroOps
                         /\ Port("flashWe", v) \in MicroOps
  BY DEF Port, MicroOps

LEMMA CommandBytes ==
    /\ {} \in Byte /\ xAA \in Byte /\ x55 \in Byte /\ xA0 \in Byte
    /\ x90 \in Byte /\ xF0 \in Byte /\ x80 \in Byte /\ x30 \in Byte
    /\ x10 \in Byte
  BY DEF Byte, xAA, x55, xA0, x90, xF0, x80, x30, x10

LEMMA BusAddrNat == \A a \in Nat : BusAddr(a) \in Nat
  BY SMT DEF BusAddr, AddrSpace

LEMMA ModeOps == WriteMode \in Seq(MicroOps) /\ ReadMode \in Seq(MicroOps)
  <1>1. /\ Port("memOe", 1) \in MicroOps /\ Port("memOe", 0) \in MicroOps
        /\ Port("data", {}) \in MicroOps
    BY PortOps, CommandBytes
  <1>2. Ddr("data", "out") \in MicroOps /\ Ddr("data", "in") \in MicroOps
    BY DdrOp DEF Pins
  <1> QED
    BY <1>1, <1>2 DEF WriteMode, ReadMode

LEMMA FlashCmdOps ==
    ASSUME NEW a \in Nat, NEW d \in Byte
    PROVE  /\ BusWrite(a, d) \in Seq(MicroOps)
           /\ FlashCmd(a, d) \in Seq(MicroOps)
  <1>1. Port("addr", BusAddr(a)) \in MicroOps /\ Port("data", d) \in MicroOps
    BY PortOps, BusAddrNat
  <1>2. Port("flashWe", 1) \in MicroOps /\ Port("flashWe", 0) \in MicroOps
    BY PortOps
  <1>3. BusWrite(a, d) \in Seq(MicroOps)
    BY <1>1 DEF BusWrite
  <1>4. PulseFlashWrite \in Seq(MicroOps)
    BY <1>2 DEF PulseFlashWrite
  <1> QED
    BY <1>3, <1>4 DEF FlashCmd

LEMMA BusReadOps == \A a \in Nat : BusRead(a) \in Seq(MicroOps)
  <1> TAKE a \in Nat
  <1>1. Port("addr", BusAddr(a)) \in MicroOps /\ Sample \in MicroOps
    BY PortOps, BusAddrNat DEF MicroOps
  <1> QED
    BY <1>1 DEF BusRead

LEMMA ConcatOps ==
    \A s, t \in Seq(MicroOps) : s \o t \in Seq(MicroOps)
  OBVIOUS

LEMMA UnlockOps ==
    /\ FlashCmd(Unlock1, xAA) \in Seq(MicroOps)
    /\ FlashCmd(Unlock2, x55) \in Seq(MicroOps)
    /\ FlashCmd(Unlock1, xA0) \in Seq(MicroOps)
    /\ FlashCmd(Unlock1, x90) \in Seq(MicroOps)
    /\ FlashCmd(Unlock1, xF0) \in Seq(MicroOps)
    /\ FlashCmd(Unlock1, x80) \in Seq(MicroOps)
    /\ FlashCmd(Unlock1, x10) \in Seq(MicroOps)
  <1>1. Unlock1 \in Nat /\ Unlock2 \in Nat
    BY DEF Unlock1, Unlock2
  <1> QED
    BY <1>1, CommandBytes, FlashCmdOps

LEMMA FlashOps ==
    /\ \A a \in Nat : \A d \in Byte : FlashByteProgram(a, d) \in Seq(MicroOps)
    /\ FlashSoftwareId \in Seq(MicroOps)
    /\ \A a \in Nat : FlashEraseSector(a) \in Seq(MicroOps)
    /\ FlashEraseChip \in Seq(MicroOps)
  <1>1. EraseUnlock \in Seq(MicroOps)
    BY ModeOps, UnlockOps, ConcatOps, Zenon DEF EraseUnlock
  <1>2. ASSUME NEW a \in Nat, NEW d \in Byte
        PROVE  FlashByteProgram(a, d) \in Seq(MicroOps)
    <2>1. FlashCmd(a, d) \in Seq(MicroOps)
      BY FlashCmdOps
    <2>2. WriteMode \o FlashCmd(Unlock1, xAA) \o FlashCmd(Unlock2, x55)
            \o FlashCmd(Unlock1, xA0) \o FlashCmd(a, d) \in Seq(MicroOps)
      BY <2>1, ModeOps, UnlockOps, ConcatOps, Zenon
    <2>3. <<>> \in Seq(MicroOps)
      OBVIOUS
    <2> QED
      BY <2>2, <2>3 DEF FlashByteProgram
  <1>3. FlashSoftwareId \in Seq(MicroOps)
    <2>1. BusRead(0) \in Seq(MicroOps) /\ BusRead(1) \in Seq(MicroOps)
      BY BusReadOps
    <2> QED
      BY <2>1, ModeOps, UnlockOps, ConcatOps, Zenon DEF FlashSoftwareId
  <1>4. ASSUME NEW a \in Nat
        PROVE  FlashEraseSector(a) \in Seq(MicroOps)
    <2>1. FlashCmd(a, x30) \in Seq(MicroOps)
      BY CommandBytes, FlashCmdOps
    <2>2. EraseUnlock \o FlashCmd(a, x30) \in Seq(MicroOps)
      BY <1>1, <2>1, ConcatOps, Zenon
    <2>3. <<>> \in Seq(MicroOps)
      OBVIOUS
    <2> QED
      BY <2>2, <2>3 DEF FlashEraseSector
  <1>5. FlashEraseChip \in Seq(MicroOps)
    BY <1>1, UnlockOps, ConcatOps, Zenon DEF FlashEraseChip
  <1> QED
    BY <1>2, <1>3, <1>4, <1>5

Command == [kind : Kinds, addr : Nat, data : Seq(Byte), amt : Nat]

\* Whatever a handler does with the bus is a sequence of register writes.
LEMMA HandlerOps ==
    ASSUME NEW c \in Command, NEW i \in Nat, i < Iterations(c)
    PROVE  Prologue(c) \in Seq(MicroOps) /\ Body(c, i) \in Seq(MicroOps)
  <1>1. Prologue(c) \in Seq(MicroOps)
    <2>1. <<>> \in Seq(MicroOps)
      OBVIOUS
    <2> QED
      BY <2>1, ModeOps, Zenon DEF Prologue
  <1>2. c.addr \in Nat /\ c.addr + i \in Nat /\ c.kind \in Kinds
    BY DEF Command
  <1>3. CASE c.kind = "write"
    <2>1. c.data[i + 1] \in Byte
      BY <1>3 DEF Command, Iterations
    <2>2. BusWrite(c.addr + i, c.data[i + 1]) \in Seq(MicroOps)
      BY <1>2, <2>1, FlashCmdOps
    <2>3. PulseRamWrite \in Seq(MicroOps)
      <3>1. Port("ramWe", 0) \in MicroOps /\ Port("ramWe", 1) \in MicroOps
        BY PortOps
      <3> QED
        BY <3>1 DEF PulseRamWrite
    <2>4. Body(c, i) = BusWrite(c.addr + i, c.data[i + 1]) \o PulseRamWrite
      BY <1>3, Zenon DEF Body
    <2> QED
      BY <1>1, <2>2, <2>3, <2>4, ConcatOps, Zenon
  <1>4. CASE c.kind = "read"
    <2>1. Body(c, i) = BusRead(c.addr + i)
      BY <1>4 DEF Body
    <2> QED
      BY <1>1, <1>2, <2>1, BusReadOps
  <1>5. CASE c.kind = "flash"
    <2>1. c.data[i + 1] \in Byte
      BY <1>5 DEF Command, Iterations
    <2>2. Body(c, i) = FlashByteProgram(c.addr + i, c.data[i + 1])
      BY <1>5 DEF Body
    <2> QED
      BY <1>1, <1>2, <2>1, <2>2, FlashOps
  <1>6. CASE c.kind = "flash_id"
    <2>1. Body(c, i) = FlashSoftwareId
      BY <1>6 DEF Body
    <2> QED
      BY <1>1, <2>1, FlashOps
  <1>7. CASE c.kind = "erase_sector"
    <2>1. Body(c, i) = FlashEraseSector(c.addr)
      BY <1>7 DEF Body
    <2> QED
      BY <1>1, <1>2, <2>1, FlashOps
  <1>8. CASE c.kind = "erase_chip"
    <2>1. Body(c, i) = FlashEraseChip
      BY <1>8 DEF Body
    <2> QED
      BY <1>1, <2>1, FlashOps
  <1> QED
    BY <1>2, <1>3, <1>4, <1>5, <1>6, <1>7, <1>8 DEF Kinds

-----------------------------------------------------------------------------
(***************************************************************************)
(* The fixed sequences of bus_acquire and bus_release.                     *)
(***************************************************************************)

LEMMA SetupOps == AcquireSetup \in Seq(MicroOps)
  <1>1. /\ Port("data", {}) \in MicroOps /\ Port("addr", 0) \in MicroOps
        /\ Port("ramWe", 1) \in MicroOps /\ Port("memOe", 0) \in MicroOps
        /\ Port("flashWe", 0) \in MicroOps
    BY PortOps, CommandBytes
  <1>2. /\ Ddr("data", "in") \in MicroOps /\ Ddr("addr", "out") \in MicroOps
        /\ Ddr("ramWe", "out") \in MicroOps /\ Ddr("memOe", "out") \in MicroOps
        /\ Ddr("flashWe", "out") \in MicroOps
    BY DdrOp DEF Pins
  <1> QED
    BY <1>1, <1>2 DEF AcquireSetup

\* The release switches every pin to input and none to output.
LEMMA ReleaseOps ==
    /\ ReleaseSteps \in Seq(MicroOps)
    /\ \A p \in Pins : \E j \in 1 .. Len(ReleaseSteps) :
          ReleaseSteps[j] = Ddr(p, "in")
    /\ \A j \in 1 .. Len(ReleaseSteps) :
          ReleaseSteps[j].reg = "ddr" => ReleaseSteps[j].val = "in"
  <1>1. /\ Port("data", {}) \in MicroOps /\ Port("addr", 0) \in MicroOps
        /\ Port("ramWe", 1) \in MicroOps /\ Port("memOe", 1) \in MicroOps
    BY PortOps, CommandBytes
  <1>2. \A p \in Pins : Ddr(p, "in") \in MicroOps
    BY DdrOp
  <1>3. ReleaseSteps \in Seq(MicroOps)
    BY <1>1, <1>2 DEF ReleaseSteps, Pins
  <1>4. Len(ReleaseSteps) = 10
    BY DEF ReleaseSteps
  <1>5. /\ ReleaseSteps[2] = Ddr("data", "in")
        /\ ReleaseSteps[4] = Ddr("ramWe", "in")
        /\ ReleaseSteps[6] = Ddr("memOe", "in")
        /\ ReleaseSteps[8] = Ddr("flashWe", "in")
        /\ ReleaseSteps[10] = Ddr("addr", "in")
    BY DEF ReleaseSteps
  <1>6. /\ ReleaseSteps[1].reg = "port" /\ ReleaseSteps[3].reg = "port"
        /\ ReleaseSteps[5].reg = "port" /\ ReleaseSteps[7].reg = "port"
        /\ ReleaseSteps[9].reg = "port"
    BY DEF ReleaseSteps, Port
  <1>7. \A p \in Pins : Ddr(p, "in").reg = "ddr" /\ Ddr(p, "in").val = "in"
    BY DEF Ddr
  <1>8. \A p \in Pins : \E j \in 1 .. Len(ReleaseSteps) :
          ReleaseSteps[j] = Ddr(p, "in")
    <2>1. 2 \in 1 .. 10 /\ 4 \in 1 .. 10 /\ 6 \in 1 .. 10 /\ 8 \in 1 .. 10 /\ 10 \in 1 .. 10
      OBVIOUS
    <2> QED
      BY <1>4, <1>5, <2>1 DEF Pins
  <1>9. \A j \in 1 .. Len(ReleaseSteps) :
          ReleaseSteps[j].reg = "ddr" => ReleaseSteps[j].val = "in"
    <2> SUFFICES ASSUME NEW j \in 1 .. 10, ReleaseSteps[j].reg = "ddr"
                 PROVE  ReleaseSteps[j].val = "in"
      BY <1>4
    <2>1. j \in {2, 4, 6, 8, 10}
      BY <1>6
    <2> QED
      BY <1>5, <1>7, <2>1 DEF Pins
  <1> QED
    BY <1>3, <1>8, <1>9

-----------------------------------------------------------------------------
(***************************************************************************)
(* The invariant.                                                          *)
(***************************************************************************)

LEMMA BusInit == Init => BusInv
  <1> SUFFICES ASSUME Init PROVE BusInv
    OBVIOUS
  <1>1. TypeOK
    <2>1. port \in [data : Byte, addr : Nat, ramWe : {0, 1}, memOe : {0, 1},
                    flashWe : {0, 1}]
      BY CommandBytes DEF Init
    <2>2. cmd \in [kind : Kinds, addr : Nat, data : Seq(Byte), amt : Nat]
      BY DEF Init, Kinds
    <2>3. todo \in Seq(MicroOps)
      BY DEF Init
    <2>4. delay \in 0 .. PollLimit /\ iter \in Nat
      BY BusAssumption DEF Init
    <2>5. ddr \in [Pins -> {"in", "out"}]
      BY DEF Init
    <2>6. phase \in Phases
      BY DEF Init, Phases
    <2> QED
      BY <2>1, <2>2, <2>3, <2>4, <2>5, <2>6 DEF Init, TypeOK
  <1>2. RequestInv /\ QuietInv /\ ReleaseInv /\ AckedEarlyAfterTimeout
    BY DEF Init, RequestInv, QuietInv, ReleaseInv, AckedEarlyAfterTimeout,
           Waiting, Holding
  <1> QED
    BY <1>1, <1>2 DEF BusInv

\* A register write keeps the types of the registers.
LEMMA ApplyType ==
    ASSUME TypeOK, NEW o \in MicroOps
    PROVE  /\ o.reg = "ddr" => Apply(ddr, o) \in [Pins -> {"in", "out"}]
           /\ o.reg = "port" =>
                Apply(port, o) \in [data : Byte, addr : Nat, ramWe : {0, 1},
                                    memOe : {0, 1}, flashWe : {0, 1}]
  <1>1. ASSUME o.reg = "ddr"
        PROVE  Apply(ddr, o) \in [Pins -> {"in", "out"}]
    <2>1. o.pin \in Pins /\ o.val \in {"in", "out"}
      BY <1>1 DEF MicroOps, Sample
    <2> QED
      BY <1>1, <2>1 DEF Apply, TypeOK, Pins
  <1>2. ASSUME o.reg = "port"
        PROVE  Apply(port, o) \in [data : Byte, addr : Nat, ramWe : {0, 1},
                                   memOe : {0, 1}, flashWe : {0, 1}]
    <2>1. \/ o.pin = "data" /\ o.val \in Byte
          \/ o.pin = "addr" /\ o.val \in Nat
          \/ o.pin \in {"ramWe", "memOe", "flashWe"} /\ o.val \in {0, 1}
      BY <1>2 DEF MicroOps, Sample
    <2> QED
      BY <1>2, <2>1 DEF Apply, TypeOK
  <1> QED
    BY <1>1, <1>2

LEMMA BusMicroStep ==
    ASSUME BusInv, MicroStep
    PROVE  BusInv'
  <1> DEFINE o == Head(todo)
  <1>1. /\ todo # <<>> /\ todo \in Seq(MicroOps) /\ todo' = Tail(todo)
        /\ todo' \in Seq(MicroOps) /\ o \in MicroOps /\ o = todo[1]
        /\ Len(todo') = Len(todo) - 1 /\ Len(todo) \in Nat \ {0}
        /\ \A j \in 1 .. Len(todo') : todo'[j] = todo[j + 1]
    BY DEF MicroStep, BusInv, TypeOK
  <1>2. /\ ddr' = IF o.reg = "ddr" THEN Apply(ddr, o) ELSE ddr
        /\ port' = IF o.reg = "port" THEN Apply(port, o) ELSE port
        /\ UNCHANGED <<phase, cmd, iter, delay, result, before, busreq, granted, alive>>
    BY DEF MicroStep
  <1>3. TypeOK'
    BY <1>1, <1>2, ApplyType DEF BusInv, TypeOK
  <1>4. RequestInv' /\ AckedEarlyAfterTimeout'
    BY <1>2 DEF BusInv, RequestInv, AckedEarlyAfterTimeout
  <1>5. phase \in Holding
    BY <1>1 DEF BusInv, QuietInv, Waiting, Holding, TypeOK, Phases
  <1>6. QuietInv'
    BY <1>2, <1>5 DEF QuietInv, Waiting, Holding
  <1>7. ReleaseInv'
    <2> SUFFICES ASSUME phase = "release"
                 PROVE  /\ \A p \in Pins : ddr'[p] = "out" =>
                              \E j \in 1 .. Len(todo') : todo'[j] = Ddr(p, "in")
                        /\ \A j \in 1 .. Len(todo') :
                              todo'[j].reg = "ddr" => todo'[j].val = "in"
      BY <1>2 DEF ReleaseInv, Ddr
    <2>1. /\ \A p \in Pins : ddr[p] = "out" =>
                \E j \in 1 .. Len(todo) : todo[j] = Ddr(p, "in")
          /\ \A j \in 1 .. Len(todo) : todo[j].reg = "ddr" => todo[j].val = "in"
      BY DEF BusInv, ReleaseInv
    <2>2. o.reg = "ddr" => o.val = "in"
      BY <1>1, <2>1
    <2>3. ASSUME NEW p \in Pins, ddr'[p] = "out"
          PROVE  ddr[p] = "out" /\ o # Ddr(p, "in")
      <3>1. CASE o.reg # "ddr"
        BY <1>2, <2>3, <3>1 DEF Ddr
      <3>2. CASE o.reg = "ddr"
        <4>1. o.pin \in Pins /\ o.val = "in"
          BY <1>1, <2>2, <3>2 DEF MicroOps, Sample
        <4>2. DOMAIN ddr = Pins /\ ddr' = Apply(ddr, o)
          BY <1>2, <3>2 DEF BusInv, TypeOK
        <4>3. CASE o.pin = "addr"
          <5>1. ddr' = [ddr EXCEPT !.addr = "in", !.flashWe = "in"]
            BY <3>2, <4>1, <4>2, <4>3 DEF Apply
          <5>2. p # "addr" /\ ddr'[p] = ddr[p]
            BY <2>3, <4>2, <5>1 DEF Pins
          <5> QED
            BY <2>3, <4>3, <5>2 DEF Ddr
        <4>4. CASE o.pin # "addr"
          <5>1. ddr' = [ddr EXCEPT ![o.pin] = "in"]
            BY <4>1, <4>2, <4>4 DEF Apply
          <5>2. p # o.pin /\ ddr'[p] = ddr[p]
            BY <2>3, <4>1, <4>2, <5>1
          <5> QED
            BY <2>3, <5>2 DEF Ddr
        <4> QED
          BY <4>3, <4>4
      <3> QED
        BY <3>1, <3>2
    <2>4. ASSUME NEW p \in Pins, ddr'[p] = "out"
          PROVE  \E j \in 1 .. Len(todo') : todo'[j] = Ddr(p, "in")
      <3>1. PICK j \in 1 .. Len(todo) : todo[j] = Ddr(p, "in")
        BY <2>1, <2>3, <2>4
      <3>2. j # 1
        BY <1>1, <2>3, <2>4, <3>1
      <3>3. j - 1 \in 1 .. Len(todo') /\ todo'[j - 1] = Ddr(p, "in")
        BY <1>1, <3>1, <3>2
      <3> QED
        BY <3>3
    <2>5. \A j \in 1 .. Len(todo') : todo'[j].reg = "ddr" => todo'[j].val = "in"
      BY <1>1, <2>1
    <2> QED
      BY <2>4, <2>5
  <1> QED
    BY <1>3, <1>4, <1>6, <1>7 DEF BusInv

LEMMA BusAcquire ==
    ASSUME BusInv, \/ \E c \in Requests : Receive(c)
                   \/ Poll \/ Recheck \/ GiveUp
    PROVE  BusInv'
  <1>1. CASE \E c \in Requests : Receive(c)
    <2>1. PICK c \in Requests : Receive(c)
      BY <1>1
    <2>2. TypeOK'
      <3>1. cmd' \in [kind : Kinds, addr : Nat, data : Seq(Byte), amt : Nat]
        BY <2>1, BusAssumption DEF Receive
      <3>2. /\ phase' \in Phases /\ busreq' \in BOOLEAN
            /\ result' \in {"none", "success", "timeout", "acquired"}
        BY <2>1 DEF Receive, BusInv, TypeOK, Phases
      <3>3. iter' \in Nat /\ delay' \in 0 .. PollLimit
        BY <2>1, BusAssumption DEF Receive, BusInv, TypeOK
      <3>4. UNCHANGED <<todo, ddr, port, granted, alive>>
        BY <2>1 DEF Receive
      <3> QED
        BY <3>1, <3>2, <3>3, <3>4 DEF BusInv, TypeOK
    <2>3. RequestInv' /\ QuietInv' /\ ReleaseInv' /\ AckedEarlyAfterTimeout'
      BY <2>1 DEF Receive, memory, BusInv, RequestInv, QuietInv, ReleaseInv,
                  AckedEarlyAfterTimeout, Waiting, Holding
    <2> QED
      BY <2>2, <2>3 DEF BusInv
  <1>2. CASE Poll
    <2>1. TypeOK'
      BY <1>2, BusAssumption DEF Poll, memory, BusInv, TypeOK, Phases
    <2>2. RequestInv' /\ QuietInv' /\ ReleaseInv' /\ AckedEarlyAfterTimeout'
      BY <1>2 DEF Poll, memory, BusInv, RequestInv, QuietInv, ReleaseInv,
                  AckedEarlyAfterTimeout, Waiting, Holding
    <2> QED
      BY <2>1, <2>2 DEF BusInv
  <1>3. CASE Recheck
    <2>1. TypeOK'
      BY <1>3, SetupOps DEF Recheck, memory, BusInv, TypeOK, Phases
    <2>2. RequestInv' /\ QuietInv' /\ ReleaseInv' /\ AckedEarlyAfterTimeout'
      BY <1>3 DEF Recheck, memory, BusInv, RequestInv, QuietInv, ReleaseInv,
                  AckedEarlyAfterTimeout, Waiting, Holding
    <2> QED
      BY <2>1, <2>2 DEF BusInv
  <1>4. CASE GiveUp
    <2>1. TypeOK'
      BY <1>4 DEF GiveUp, memory, BusInv, TypeOK, Phases
    <2>2. RequestInv' /\ QuietInv' /\ ReleaseInv' /\ AckedEarlyAfterTimeout'
      BY <1>4 DEF GiveUp, memory, BusInv, RequestInv, QuietInv, ReleaseInv,
                  AckedEarlyAfterTimeout, Waiting, Holding
    <2> QED
      BY <2>1, <2>2 DEF BusInv
  <1> QED
    BY <1>1, <1>2, <1>3, <1>4

LEMMA BusHandle ==
    ASSUME BusInv, Acquired \/ Iterate
    PROVE  BusInv'
  <1>1. CASE Acquired
    <2>1. Prologue(cmd) \in Seq(MicroOps)
      <3>1. <<>> \in Seq(MicroOps)
        OBVIOUS
      <3> QED
        BY <3>1, ModeOps, Zenon DEF Prologue
    <2>2. TypeOK'
      BY <1>1, <2>1 DEF Acquired, memory, BusInv, TypeOK, Phases
    <2>3. RequestInv' /\ QuietInv' /\ ReleaseInv' /\ AckedEarlyAfterTimeout'
      BY <1>1 DEF Acquired, memory, BusInv, RequestInv, QuietInv, ReleaseInv,
                  AckedEarlyAfterTimeout, Waiting, Holding
    <2> QED
      BY <2>2, <2>3 DEF BusInv
  <1>2. CASE Iterate
    <2>1. cmd \in Command /\ iter \in Nat
      BY DEF BusInv, TypeOK, Command
    <2>2. iter < Iterations(cmd) => Body(cmd, iter) \in Seq(MicroOps)
      BY <2>1, HandlerOps
    <2>3. TypeOK'
      BY <1>2, <2>2, ReleaseOps DEF Iterate, memory, BusInv, TypeOK, Phases
    <2>4. RequestInv' /\ QuietInv' /\ AckedEarlyAfterTimeout'
      BY <1>2 DEF Iterate, memory, BusInv, RequestInv, QuietInv,
                  AckedEarlyAfterTimeout, Waiting, Holding
    <2>5. ReleaseInv'
      <3> SUFFICES ASSUME phase' = "release"
                   PROVE  ReleaseInv'
        BY DEF ReleaseInv
      <3>1. todo' = ReleaseSteps
        BY <1>2 DEF Iterate
      <3> QED
        BY <3>1, ReleaseOps DEF ReleaseInv, Ddr
    <2> QED
      BY <2>3, <2>4, <2>5 DEF BusInv
  <1> QED
    BY <1>1, <1>2

LEMMA BusRelease ==
    ASSUME BusInv, DropRequest \/ Drained
    PROVE  BusInv'
  <1>1. CASE DropRequest
    <2>1. phase = "release" /\ todo = <<>> /\ Len(todo) = 0
      BY <1>1 DEF DropRequest
    <2>2. \A p \in Pins : ddr[p] = "in"
      BY <2>1 DEF BusInv, ReleaseInv, TypeOK
    <2>3. TypeOK'
      BY <1>1 DEF DropRequest, memory, BusInv, TypeOK, Phases
    <2>4. RequestInv' /\ QuietInv' /\ ReleaseInv' /\ AckedEarlyAfterTimeout'
      BY <1>1, <2>2 DEF DropRequest, memory, BusInv, RequestInv, QuietInv,
                        ReleaseInv, AckedEarlyAfterTimeout, Waiting, Holding
    <2> QED
      BY <2>3, <2>4 DEF BusInv
  <1>2. CASE Drained
    <2>1. TypeOK'
      BY <1>2 DEF Drained, memory, BusInv, TypeOK, Phases
    <2>2. RequestInv' /\ QuietInv' /\ ReleaseInv' /\ AckedEarlyAfterTimeout'
      BY <1>2 DEF Drained, memory, BusInv, RequestInv, QuietInv,
                  ReleaseInv, AckedEarlyAfterTimeout, Waiting, Holding
    <2> QED
      BY <2>1, <2>2 DEF BusInv
  <1> QED
    BY <1>1, <1>2

LEMMA BusZ80 ==
    ASSUME BusInv, \/ Z80Grant \/ Z80Resume \/ Z80Reset \/ UNCHANGED vars
    PROVE  BusInv'
  <1>1. UNCHANGED coproc /\ UNCHANGED busreq
    BY DEF Z80Grant, Z80Resume, Z80Reset, vars
  <1>2. TypeOK'
    BY <1>1 DEF Z80Grant, Z80Resume, Z80Reset, vars, coproc, BusInv, TypeOK
  <1>3. QuietInv' /\ ReleaseInv'
    BY <1>1 DEF coproc, BusInv, QuietInv, ReleaseInv, Ddr
  <1>4. RequestInv' /\ AckedEarlyAfterTimeout'
    BY <1>1 DEF Z80Grant, Z80Resume, Z80Reset, vars, coproc, BusInv, TypeOK,
                RequestInv, AckedEarlyAfterTimeout, Holding
  <1> QED
    BY <1>2, <1>3, <1>4 DEF BusInv

LEMMA BusStep == BusInv /\ [Next]_vars => BusInv'
  BY BusMicroStep, BusAcquire, BusHandle, BusRelease, BusZ80 DEF Next, Coprocessor

\* The invariant of the bus holds between any two register writes, whatever the
\* commands and whenever the Z80 answers (bus_acquire, bus_release).
THEOREM BusInvariant == Spec => []BusInv
  BY BusInit, BusStep, PTL DEF Spec

\* Pins, chips and the place in a handler keep their types.
THEOREM BusTypeOK == Spec => []TypeOK
  <1>1. BusInv => TypeOK
    BY DEF BusInv
  <1> QED
    BY <1>1, BusInvariant, PTL

(***************************************************************************)
(* Whatever the commands and whenever the Z80 answers, the coprocessor     *)
(* drives the bus only while the Z80 is off it (bus.c).                    *)
(***************************************************************************)
THEOREM BusOwned == Spec => []BusOwnership
  <1>1. BusInv => BusOwnership
    BY DEF BusInv, TypeOK, Phases, RequestInv, QuietInv, BusOwnership,
           Waiting, Holding
  <1> QED
    BY <1>1, BusInvariant, PTL

(***************************************************************************)
(* A command finds BUSACK already low only after one that timed out        *)
(* (bus_acquire's BUS_ACQUIRE_ACQUIRED).                                   *)
(***************************************************************************)
THEOREM BusAckedEarly == Spec => []AckedEarlyAfterTimeout
  <1>1. BusInv => AckedEarlyAfterTimeout
    BY DEF BusInv
  <1> QED
    BY <1>1, BusInvariant, PTL

-----------------------------------------------------------------------------
(***************************************************************************)
(* A register access as a function of the state it meets, and where a      *)
(* sequence of them leads.                                                 *)
(***************************************************************************)
State(d, p, r, f, x) == [ddr |-> d, port |-> p, ram |-> r, flash |-> f, samples |-> x]
Now == State(ddr, port, ram, flash, samples)

BusOf(s) ==
    CASE s.ddr.data = "out" -> s.port.data
      [] s.ddr.data = "in" /\ MemDrives(s.ddr, s.port) ->
           IF IsRam(s.port.addr) THEN s.ram[s.port.addr]
                                 ELSE ReadCycle(s.flash, s.port.addr)
      [] OTHER -> {}

After(s, o) ==
    LET d == IF o.reg = "ddr" THEN Apply(s.ddr, o) ELSE s.ddr
        p == IF o.reg = "port" THEN Apply(s.port, o) ELSE s.port
        byte == IF d.data = "out" THEN p.data ELSE {}
    IN State(d, p,
             IF RamWriting(d, p)
             THEN [a \in DOMAIN s.ram |-> IF a = p.addr THEN byte ELSE s.ram[a]]
             ELSE s.ram,
             IF FlashWriting(d, p) /\ ~FlashWriting(s.ddr, s.port)
             THEN WriteCycle(s.flash, p.addr, byte) ELSE s.flash,
             IF o = Sample THEN Append(s.samples, BusOf(s)) ELSE s.samples)

\* The accesses ops lead from s to t.
Leads(s, ops, t) ==
    \E run : /\ run[0] = s /\ run[Len(ops)] = t
             /\ \A i \in 1 .. Len(ops) : run[i] = After(run[i - 1], ops[i])

-----------------------------------------------------------------------------
(***************************************************************************)
(* The inductive invariant: what the accesses still to be made lead to,    *)
(* from the state of the pins and the chips at this moment.                *)
(***************************************************************************)
Dirs == [Pins -> {"in", "out"}]
Levels == [data : Byte, addr : Nat, ramWe : {0, 1}, memOe : {0, 1}, flashWe : {0, 1}]

\* Between two parts of a handler the address and the strobes are driven, and
\* the strobes are at rest.
Ready(s) ==
    /\ s.ddr \in Dirs /\ s.port \in Levels
    /\ s.ddr.addr = "out" /\ s.ddr.ramWe = "out"
    /\ s.ddr.memOe = "out" /\ s.ddr.flashWe = "out"
    /\ s.port.ramWe = 1 /\ s.port.flashWe = 0
WriteReady(s) == Ready(s) /\ s.ddr.data = "out" /\ s.port.memOe = 1
ReadReady(s) == Ready(s) /\ s.ddr.data = "in" /\ s.port.memOe = 0
ReadyFor(c, s) ==
    CASE c.kind = "write" -> WriteReady(s)
      [] c.kind = "read" -> ReadReady(s)
      [] OTHER -> Ready(s)

\* No write strobe reaches a chip, and no access of the release makes one.
Calm(s) == /\ s.ddr.ramWe = "in" \/ s.port.ramWe = 1
           /\ s.ddr.flashWe = "in" \/ s.port.flashWe = 0
CalmOp(o) ==
    \/ o.reg = "ddr" /\ o.val = "in"
    \/ o.reg = "port" /\ o.pin # "flashWe" /\ (o.pin = "ramWe" => o.val = 1)

\* The cell of the i-th byte.
CellOf(c, i) == BusAddr(c.addr + i - 1)

\* What n iterations of a handler's loop have done.
RamDone(c, n, r, m) ==
    /\ m = [a \in DOMAIN r |-> m[a]]
    /\ \A a \in DOMAIN r :
         /\ \A i \in 1 .. n : c.kind = "write" /\ CellOf(c, i) = a => m[a] = c.data[i]
         /\ c.kind # "write" \/ (\A i \in 1 .. n : CellOf(c, i) # a) => m[a] = r[a]

FlashDone(c, n, f, m) ==
    IF c.kind = "flash"
    THEN /\ m = [a \in DOMAIN f |-> m[a]]
         /\ \A a \in DOMAIN f :
              /\ \A i \in 1 .. n : CellOf(c, i) = a => m[a] = f[a] \cap c.data[i]
              /\ (\A i \in 1 .. n : CellOf(c, i) # a) => m[a] = f[a]
    ELSE m = IF n = 0 THEN f ELSE WantFlash(c, f)

ReadCell(c, i, r, f) ==
    IF IsRam(CellOf(c, i)) THEN r[CellOf(c, i)] ELSE f[CellOf(c, i)]
SamplesDone(c, n, r, f, x) ==
    x = CASE c.kind = "read" -> [i \in 1 .. n |-> ReadCell(c, i, r, f)]
          [] c.kind = "flash_id" /\ n = 1 -> <<MfgId, DevId>>
          [] OTHER -> <<>>

Done(c, n, r, f, s) ==
    /\ RamDone(c, n, r, s.ram)
    /\ s.flash = Chip(s.flash.mem) /\ FlashDone(c, n, f, s.flash.mem)
    /\ SamplesDone(c, n, r, f, s.samples)

\* The cells of the two chips.
MemOK(r, f) ==
    /\ r = [a \in DOMAIN r |-> r[a]] /\ \A a \in DOMAIN r : IsRam(a)
    /\ f = [a \in DOMAIN f |-> f[a]] /\ \A a \in DOMAIN f : IsFlash(a)

\* The chips at rest, as a command finds them.
RestInv ==
    /\ flash = [mem |-> flash.mem, step |-> flash.step, id |-> flash.id]
    /\ MemOK(ram, flash.mem) /\ MemOK(before[1], before[2])
    /\ phase \in Waiting => flash = Chip(flash.mem)
    /\ phase \in {"poll", "recheck", "giveup"} =>
          samples = <<>> /\ iter = 0 /\ before = <<ram, flash.mem>>
    /\ Len(cmd.data) <= AddrSpace

SetupInv ==
    phase = "setup" =>
        /\ iter = 0
        /\ \E t : /\ Leads(Now, todo, t) /\ Ready(t)
                  /\ t.ram = before[1] /\ t.flash = Chip(before[2]) /\ t.samples = <<>>
HeldInv ==
    phase = "held" =>
        /\ iter <= Iterations(cmd)
        /\ \E t : /\ Leads(Now, todo, t) /\ ReadyFor(cmd, t)
                  /\ Done(cmd, iter, before[1], before[2], t)
LeaveInv ==
    phase = "release" =>
        /\ Calm(Now) /\ \A j \in 1 .. Len(todo) : CalmOp(todo[j])
        /\ Done(cmd, Iterations(cmd), before[1], before[2], Now)
DrainInv ==
    phase = "drain" => Done(cmd, Iterations(cmd), before[1], before[2], Now)

EffectInv == BusInv /\ RestInv /\ SetupInv /\ HeldInv /\ LeaveInv /\ DrainInv
-----------------------------------------------------------------------------
(***************************************************************************)
(* Leads: no step, the first step, one step after another.                 *)
(***************************************************************************)

LEMMA LeadsNowhere ==
    ASSUME NEW s, NEW t
    PROVE  Leads(s, <<>>, t) <=> s = t
  <1>1. ASSUME Leads(s, <<>>, t) PROVE s = t
    BY <1>1 DEF Leads
  <1>2. ASSUME s = t PROVE Leads(s, <<>>, t)
    <2>1. PICK run : run[0] = s
      <3>1. [i \in {0} |-> s][0] = s
        OBVIOUS
      <3> QED
        BY <3>1
    <2>2. Len(<<>>) = 0 /\ 1 .. 0 = {}
      OBVIOUS
    <2> QED
      BY <1>2, <2>1, <2>2 DEF Leads
  <1> QED
    BY <1>1, <1>2

LEMMA LeadsOn ==
    ASSUME NEW ops \in Seq(MicroOps), ops # <<>>, NEW s, NEW t, Leads(s, ops, t)
    PROVE  Leads(After(s, Head(ops)), Tail(ops), t)
  <1>1. PICK run : /\ run[0] = s /\ run[Len(ops)] = t
                   /\ \A i \in 1 .. Len(ops) : run[i] = After(run[i - 1], ops[i])
    BY Zenon DEF Leads
  <1>2. PICK n \in Nat : n + 1 = Len(ops)
    <2>1. Len(ops) - 1 \in Nat
      OBVIOUS
    <2> QED
      BY <2>1
  <1>3. /\ Len(Tail(ops)) = n /\ Head(ops) = ops[1]
        /\ \A i \in 1 .. n : Tail(ops)[i] = ops[i + 1]
    BY <1>2
  <1> DEFINE rest == [i \in 0 .. n |-> run[i + 1]]
  <1>4. rest[0] = After(s, Head(ops)) /\ rest[n] = t
    BY <1>1, <1>2, <1>3
  <1>5. ASSUME NEW i \in 1 .. n PROVE rest[i] = After(rest[i - 1], Tail(ops)[i])
    <2>1. rest[i] = run[i + 1] /\ rest[i - 1] = run[i]
      OBVIOUS
    <2>2. run[i + 1] = After(run[i], ops[i + 1])
      <3>1. i + 1 \in 1 .. Len(ops) /\ (i + 1) - 1 = i
        BY <1>2
      <3> QED
        BY <1>1, <3>1
    <2> QED
      BY <1>3, <2>1, <2>2
  <1> HIDE DEF rest
  <1> QED
    BY <1>3, <1>4, <1>5 DEF Leads

LEMMA LeadsBoth ==
    ASSUME NEW p \in Seq(MicroOps), NEW q \in Seq(MicroOps), NEW s, NEW t, NEW u,
           Leads(s, p, t), Leads(t, q, u)
    PROVE  Leads(s, p \o q, u)
  <1>1. PICK f : /\ f[0] = s /\ f[Len(p)] = t
                 /\ \A i \in 1 .. Len(p) : f[i] = After(f[i - 1], p[i])
    BY Zenon DEF Leads
  <1>2. PICK g : /\ g[0] = t /\ g[Len(q)] = u
                 /\ \A i \in 1 .. Len(q) : g[i] = After(g[i - 1], q[i])
    BY Zenon DEF Leads
  <1>3. PICK m \in Nat, n \in Nat : m = Len(p) /\ n = Len(q)
    OBVIOUS
  <1>4. /\ Len(p \o q) = m + n
        /\ \A i \in 1 .. m : (p \o q)[i] = p[i]
        /\ \A i \in m + 1 .. m + n : (p \o q)[i] = q[i - m]
    BY <1>3
  <1> DEFINE run == [i \in 0 .. m + n |-> IF i <= m THEN f[i] ELSE g[i - m]]
  <1>5. /\ \A i \in 0 .. m : run[i] = f[i]
        /\ \A i \in 1 .. n : run[m + i] = g[i]
    OBVIOUS
  <1> HIDE DEF run
  <1>6. run[0] = s /\ run[m + n] = u
    <2>1. CASE n = 0
      BY <1>1, <1>2, <1>3, <1>5, <2>1
    <2>2. CASE n # 0
      BY <1>1, <1>2, <1>3, <1>5, <2>2
    <2> QED
      BY <2>1, <2>2
  <1>7. ASSUME NEW i \in 1 .. m + n PROVE run[i] = After(run[i - 1], (p \o q)[i])
    <2>1. CASE i <= m
      <3>1. i \in 0 .. m /\ i - 1 \in 0 .. m /\ i \in 1 .. m
        BY <2>1
      <3> QED
        BY <1>1, <1>3, <1>4, <1>5, <3>1
    <2>2. CASE i > m
      <3>1. PICK j \in 1 .. n : i = m + j
        <4>1. i - m \in 1 .. n
          BY <2>2
        <4> QED
          BY <4>1
      <3>2. (p \o q)[i] = q[j]
        <4>1. i \in m + 1 .. m + n /\ i - m = j
          BY <3>1
        <4> QED
          BY <1>4, <4>1
      <3>3. run[i] = g[j] /\ g[j] = After(g[j - 1], q[j])
        BY <1>2, <1>3, <1>5, <3>1
      <3>4. run[i - 1] = g[j - 1]
        <4>1. CASE j = 1
          <5>1. i - 1 = m /\ m \in 0 .. m /\ j - 1 = 0
            BY <3>1, <4>1
          <5> QED
            BY <1>1, <1>2, <1>3, <1>5, <5>1
        <4>2. CASE j # 1
          <5>1. i - 1 = m + (j - 1) /\ j - 1 \in 1 .. n
            BY <3>1, <4>2
          <5> QED
            BY <1>5, <5>1
        <4> QED
          BY <4>1, <4>2
      <3> QED
        BY <3>2, <3>3, <3>4
    <2>3. i <= m \/ i > m
      OBVIOUS
    <2> QED
      BY <2>1, <2>2, <2>3, Zenon
  <1> QED
    BY <1>4, <1>6, <1>7 DEF Leads

LEMMA LeadsOne ==
    ASSUME NEW o \in MicroOps, NEW s
    PROVE  Leads(s, <<o>>, After(s, o))
  <1> DEFINE run == [i \in {0, 1} |-> IF i = 0 THEN s ELSE After(s, o)]
  <1>1. run[0] = s /\ run[1] = After(s, o)
    OBVIOUS
  <1>2. Len(<<o>>) = 1 /\ <<o>>[1] = o
    OBVIOUS
  <1>3. \A i \in 1 .. 1 : run[i] = After(run[i - 1], <<o>>[i])
    BY <1>1, <1>2
  <1> HIDE DEF run
  <1> QED
    BY <1>1, <1>2, <1>3 DEF Leads

LEMMA LeadsTwo ==
    ASSUME NEW o \in MicroOps, NEW o2 \in MicroOps, NEW s
    PROVE  Leads(s, <<o, o2>>, After(After(s, o), o2))
  <1> DEFINE u == After(After(s, o), o2)
             run == [i \in 0 .. 2 |-> IF i = 0 THEN s ELSE IF i = 1 THEN After(s, o) ELSE u]
  <1>1. run[0] = s /\ run[1] = After(s, o) /\ run[2] = u
    OBVIOUS
  <1>2. Len(<<o, o2>>) = 2 /\ <<o, o2>>[1] = o /\ <<o, o2>>[2] = o2
    OBVIOUS
  <1>3. ASSUME NEW i \in 1 .. 2 PROVE run[i] = After(run[i - 1], <<o, o2>>[i])
    <2>1. i = 1 \/ i = 2
      OBVIOUS
    <2> HIDE DEF run
    <2>2. CASE i = 1
      BY <1>1, <1>2, <2>2
    <2>3. CASE i = 2
      BY <1>1, <1>2, <2>3
    <2> QED
      BY <2>1, <2>2, <2>3
  <1> HIDE DEF run
  <1> QED
    BY <1>1, <1>2, <1>3 DEF Leads
-----------------------------------------------------------------------------
(***************************************************************************)
(* What single accesses do.                                                *)
(***************************************************************************)
SameChips(s, t) == t.ram = s.ram /\ t.flash = s.flash /\ t.samples = s.samples

LEMMA AfterPort ==
    ASSUME NEW s, NEW pin, NEW v
    PROVE  /\ After(s, Port(pin, v)).ddr = s.ddr
           /\ After(s, Port(pin, v)).port = Apply(s.port, Port(pin, v))
           /\ After(s, Port(pin, v)).samples = s.samples
  BY DEF After, Port, Sample, State

LEMMA AfterDdr ==
    ASSUME NEW s, NEW pin, NEW v
    PROVE  /\ After(s, Ddr(pin, v)).ddr = Apply(s.ddr, Ddr(pin, v))
           /\ After(s, Ddr(pin, v)).port = s.port
           /\ After(s, Ddr(pin, v)).samples = s.samples
  BY DEF After, Ddr, Sample, State

\* An access after which the strobes are at rest does nothing to the chips.
LEMMA AfterCalm ==
    ASSUME NEW s, NEW o, Calm(After(s, o))
    PROVE  After(s, o).ram = s.ram /\ After(s, o).flash = s.flash
  <1> DEFINE d == IF o.reg = "ddr" THEN Apply(s.ddr, o) ELSE s.ddr
             p == IF o.reg = "port" THEN Apply(s.port, o) ELSE s.port
  <1>1. After(s, o).ddr = d /\ After(s, o).port = p
    BY DEF After, State
  <1>2. ~RamWriting(d, p) /\ ~FlashWriting(d, p)
    BY <1>1 DEF Calm, RamWriting, FlashWriting
  <1> QED
    BY <1>2 DEF After, State

\* An address is put on its pins, which ends a flash write.
LEMMA SetAddress ==
    ASSUME NEW s, Ready(s), NEW a \in Nat
    PROVE  LET t == After(s, Port("addr", a))
           IN /\ Ready(t) /\ SameChips(s, t)
              /\ t.ddr = s.ddr /\ t.port = [s.port EXCEPT !.addr = a]
  <1> DEFINE t == After(s, Port("addr", a))
  <1>1. t.ddr = s.ddr /\ t.port = [s.port EXCEPT !.addr = a, !.flashWe = 0]
    <2>1. t.ddr = s.ddr /\ t.port = Apply(s.port, Port("addr", a))
      BY AfterPort
    <2>2. Apply(s.port, Port("addr", a)) = [s.port EXCEPT !.addr = a, !.flashWe = 0]
      BY DEF Apply, Port
    <2> QED
      BY <2>1, <2>2
  <1>2. t.port = [s.port EXCEPT !.addr = a] /\ t.port \in Levels
    BY <1>1 DEF Ready, Levels
  <1>3. Ready(t)
    BY <1>1, <1>2 DEF Ready, Levels
  <1>4. SameChips(s, t)
    BY <1>3, AfterPort, AfterCalm DEF SameChips, Calm, Ready
  <1> QED
    BY <1>1, <1>2, <1>3, <1>4

LEMMA SetData ==
    ASSUME NEW s, Ready(s), NEW b \in Byte
    PROVE  LET t == After(s, Port("data", b))
           IN /\ Ready(t) /\ SameChips(s, t)
              /\ t.ddr = s.ddr /\ t.port = [s.port EXCEPT !.data = b]
  <1> DEFINE t == After(s, Port("data", b))
  <1>1. t.ddr = s.ddr /\ t.port = [s.port EXCEPT !.data = b]
    <2>1. t.ddr = s.ddr /\ t.port = Apply(s.port, Port("data", b))
      BY AfterPort
    <2>2. Apply(s.port, Port("data", b)) = [s.port EXCEPT !.data = b]
      BY DEF Apply, Port
    <2> QED
      BY <2>1, <2>2
  <1>2. Ready(t)
    BY <1>1 DEF Ready, Levels
  <1>3. SameChips(s, t)
    BY <1>2, AfterPort, AfterCalm DEF SameChips, Calm, Ready
  <1> QED
    BY <1>1, <1>2, <1>3

\* The memories' output is switched, or the direction of the data pins.
LEMMA SetOutput ==
    ASSUME NEW s, Ready(s), NEW v \in {0, 1}
    PROVE  LET t == After(s, Port("memOe", v))
           IN /\ Ready(t) /\ SameChips(s, t)
              /\ t.ddr = s.ddr /\ t.port = [s.port EXCEPT !.memOe = v]
  <1> DEFINE t == After(s, Port("memOe", v))
  <1>1. t.ddr = s.ddr /\ t.port = [s.port EXCEPT !.memOe = v]
    <2>1. t.ddr = s.ddr /\ t.port = Apply(s.port, Port("memOe", v))
      BY AfterPort
    <2>2. Apply(s.port, Port("memOe", v)) = [s.port EXCEPT !.memOe = v]
      BY DEF Apply, Port
    <2> QED
      BY <2>1, <2>2
  <1>2. Ready(t)
    BY <1>1 DEF Ready, Levels
  <1>3. SameChips(s, t)
    BY <1>2, AfterPort, AfterCalm DEF SameChips, Calm, Ready
  <1> QED
    BY <1>1, <1>2, <1>3

LEMMA SetDirection ==
    ASSUME NEW s, Ready(s), NEW v \in {"in", "out"}
    PROVE  LET t == After(s, Ddr("data", v))
           IN /\ Ready(t) /\ SameChips(s, t)
              /\ t.ddr = [s.ddr EXCEPT !.data = v] /\ t.port = s.port
  <1> DEFINE t == After(s, Ddr("data", v))
  <1>1. t.port = s.port /\ t.ddr = [s.ddr EXCEPT !.data = v]
    <2>1. t.port = s.port /\ t.ddr = Apply(s.ddr, Ddr("data", v))
      BY AfterDdr
    <2>2. Apply(s.ddr, Ddr("data", v)) = [s.ddr EXCEPT !.data = v]
      BY DEF Apply, Ddr
    <2> QED
      BY <2>1, <2>2
  <1>2. Ready(t)
    BY <1>1 DEF Ready, Dirs, Pins
  <1>3. SameChips(s, t)
    BY <1>2, AfterDdr, AfterCalm DEF SameChips, Calm, Ready
  <1> QED
    BY <1>1, <1>2, <1>3

-----------------------------------------------------------------------------
(***************************************************************************)
(* What the functions of bus.c do.                                         *)
(***************************************************************************)
LEMMA ModeLeads ==
    ASSUME NEW s, Ready(s)
    PROVE  /\ \E t : Leads(s, WriteMode, t) /\ WriteReady(t) /\ SameChips(s, t)
           /\ \E t : Leads(s, ReadMode, t) /\ ReadReady(t) /\ SameChips(s, t)
  <1>0. /\ Port("memOe", 1) \in MicroOps /\ Port("memOe", 0) \in MicroOps
        /\ Port("data", {}) \in MicroOps
        /\ Ddr("data", "in") \in MicroOps /\ Ddr("data", "out") \in MicroOps
    BY DEF Port, Ddr, MicroOps, Byte, Pins
  <1>1. \E t : Leads(s, WriteMode, t) /\ WriteReady(t) /\ SameChips(s, t)
    <2> DEFINE s1 == After(s, Port("memOe", 1))
               s2 == After(s1, Ddr("data", "out"))
    <2>1. Leads(s, WriteMode, s2)
      BY <1>0, LeadsTwo DEF WriteMode
    <2>2. /\ Ready(s1) /\ SameChips(s, s1) /\ s1.ddr = s.ddr
          /\ s1.port = [s.port EXCEPT !.memOe = 1]
      BY SetOutput
    <2>3. /\ Ready(s2) /\ SameChips(s1, s2) /\ s2.ddr = [s1.ddr EXCEPT !.data = "out"]
          /\ s2.port = s1.port
      BY <2>2, SetDirection
    <2> HIDE DEF s1, s2
    <2>4. WriteReady(s2)
      BY <2>2, <2>3 DEF WriteReady, Ready, Dirs, Pins, Levels
    <2> QED
      BY <2>1, <2>2, <2>3, <2>4 DEF SameChips
  <1>2. \E t : Leads(s, ReadMode, t) /\ ReadReady(t) /\ SameChips(s, t)
    <2> DEFINE s1 == After(s, Port("memOe", 0))
               s2 == After(s1, Ddr("data", "in"))
               s3 == After(s2, Port("data", {}))
    <2>1. Leads(s, <<Port("memOe", 0), Ddr("data", "in")>>, s2)
      BY <1>0, LeadsTwo
    <2>2. Leads(s2, <<Port("data", {})>>, s3)
      BY <1>0, LeadsOne
    <2>3. ReadMode = <<Port("memOe", 0), Ddr("data", "in")>> \o <<Port("data", {})>>
      BY <1>0 DEF ReadMode
    <2>4. Leads(s, ReadMode, s3)
      <3> HIDE DEF s1, s2, s3
      <3>1. /\ <<Port("memOe", 0), Ddr("data", "in")>> \in Seq(MicroOps)
            /\ <<Port("data", {})>> \in Seq(MicroOps)
        BY <1>0
      <3> QED
        BY <2>1, <2>2, <2>3, <3>1, LeadsBoth, Zenon
    <2>5. /\ Ready(s1) /\ SameChips(s, s1) /\ s1.ddr = s.ddr
          /\ s1.port = [s.port EXCEPT !.memOe = 0]
      BY SetOutput
    <2>6. /\ Ready(s2) /\ SameChips(s1, s2) /\ s2.ddr = [s1.ddr EXCEPT !.data = "in"]
          /\ s2.port = s1.port
      BY <2>5, SetDirection
    <2>7. /\ Ready(s3) /\ SameChips(s2, s3) /\ s3.ddr = s2.ddr
          /\ s3.port = [s2.port EXCEPT !.data = {}]
      <3>1. {} \in Byte
        BY DEF Byte
      <3> QED
        BY <2>6, <3>1, SetData
    <2> HIDE DEF s1, s2, s3
    <2>8. ReadReady(s3)
      BY <2>5, <2>6, <2>7 DEF ReadReady, Ready, Dirs, Pins, Levels
    <2> QED
      BY <2>4, <2>5, <2>6, <2>7, <2>8 DEF SameChips
  <1> QED
    BY <1>1, <1>2

\* An address and a byte.
LEMMA BusWriteLeads ==
    ASSUME NEW s, WriteReady(s), NEW a \in Nat, NEW b \in Byte
    PROVE  \E t : /\ Leads(s, BusWrite(a, b), t) /\ WriteReady(t) /\ SameChips(s, t)
                  /\ t.port.addr = BusAddr(a) /\ t.port.data = b
  <1> DEFINE s1 == After(s, Port("addr", BusAddr(a)))
             s2 == After(s1, Port("data", b))
  <1>1. BusAddr(a) \in Nat
    BY BusAddrNat
  <1>2. Port("addr", BusAddr(a)) \in MicroOps /\ Port("data", b) \in MicroOps
    BY <1>1 DEF Port, MicroOps
  <1>3. Leads(s, BusWrite(a, b), s2)
    BY <1>2, LeadsTwo DEF BusWrite
  <1>4. /\ Ready(s1) /\ SameChips(s, s1) /\ s1.ddr = s.ddr
        /\ s1.port = [s.port EXCEPT !.addr = BusAddr(a)]
    BY <1>1, SetAddress DEF WriteReady
  <1>5. /\ Ready(s2) /\ SameChips(s1, s2) /\ s2.ddr = s1.ddr
        /\ s2.port = [s1.port EXCEPT !.data = b]
    BY <1>4, SetData
  <1> HIDE DEF s1, s2
  <1>6. WriteReady(s2) /\ s2.port.addr = BusAddr(a) /\ s2.port.data = b
    BY <1>4, <1>5 DEF WriteReady, Ready, Levels
  <1> QED
    BY <1>3, <1>4, <1>5, <1>6 DEF SameChips
\* The address pins select the chip that the address is in.
LEMMA Selects ==
    \A a \in Nat : /\ BusAddr(a) \in Nat /\ BusAddr(a) < AddrSpace
                   /\ IsRam(BusAddr(a)) <=> IsRam(a)
                   /\ ChipSelected(BusAddr(a)) <=> ~IsRam(a)
  BY DEF BusAddr, AddrSpace, IsRam, RamMask, ChipSelected

\* A byte that is written to RAM reaches the cell addressed, if it is in RAM.
LEMMA RamWriteLeads ==
    ASSUME NEW s, WriteReady(s), NEW a \in Nat, NEW b \in Byte
    PROVE  \E t : /\ Leads(s, BusWrite(a, b) \o PulseRamWrite, t) /\ WriteReady(t)
                  /\ t.flash = s.flash /\ t.samples = s.samples
                  /\ t.ram = IF IsRam(a)
                             THEN [x \in DOMAIN s.ram |-> IF x = BusAddr(a) THEN b ELSE s.ram[x]]
                             ELSE s.ram
  <1>1. PICK s1 : /\ Leads(s, BusWrite(a, b), s1) /\ WriteReady(s1) /\ SameChips(s, s1)
                  /\ s1.port.addr = BusAddr(a) /\ s1.port.data = b
    BY BusWriteLeads
  <1> DEFINE s2 == After(s1, Port("ramWe", 0))
             s3 == After(s2, Port("ramWe", 1))
  <1>2. Port("ramWe", 0) \in MicroOps /\ Port("ramWe", 1) \in MicroOps
    BY DEF Port, MicroOps
  <1>3. Leads(s1, PulseRamWrite, s3)
    BY <1>2, LeadsTwo DEF PulseRamWrite
  <1>4. BusWrite(a, b) \in Seq(MicroOps) /\ PulseRamWrite \in Seq(MicroOps)
    BY <1>2, BusAddrNat DEF BusWrite, PulseRamWrite, Port, MicroOps
  <1>5. Leads(s, BusWrite(a, b) \o PulseRamWrite, s3)
    BY <1>1, <1>3, <1>4, LeadsBoth
  <1>6. /\ s2.ddr = s1.ddr /\ s2.port = [s1.port EXCEPT !.ramWe = 0]
        /\ s2.samples = s1.samples
    <2>1. /\ s2.ddr = s1.ddr /\ s2.port = Apply(s1.port, Port("ramWe", 0))
          /\ s2.samples = s1.samples
      BY AfterPort
    <2>2. Apply(s1.port, Port("ramWe", 0)) = [s1.port EXCEPT !.ramWe = 0]
      BY DEF Apply, Port
    <2> QED
      BY <2>1, <2>2
  <1>7. /\ s2.ram = IF IsRam(BusAddr(a))
                    THEN [x \in DOMAIN s1.ram |-> IF x = BusAddr(a) THEN b ELSE s1.ram[x]]
                    ELSE s1.ram
        /\ s2.flash = s1.flash
    <2> DEFINE d == s1.ddr
               p == [s1.port EXCEPT !.ramWe = 0]
    <2>1. /\ p.ramWe = 0 /\ p.addr = BusAddr(a) /\ p.data = b /\ p.flashWe = 0
          /\ d.ramWe = "out" /\ d.addr = "out" /\ d.data = "out"
      BY <1>1 DEF WriteReady, Ready, Levels
    <2>2. RamWriting(d, p) <=> IsRam(BusAddr(a))
      BY <2>1 DEF RamWriting
    <2>3. ~FlashWriting(d, p)
      BY <2>1 DEF FlashWriting
    <2>4. /\ Port("ramWe", 0).reg = "port" /\ Apply(s1.port, Port("ramWe", 0)) = p
      BY DEF Port, Apply
    <2>5. /\ s2.ram = IF RamWriting(d, p)
                      THEN [x \in DOMAIN s1.ram |->
                              IF x = p.addr THEN IF d.data = "out" THEN p.data ELSE {}
                                            ELSE s1.ram[x]]
                      ELSE s1.ram
          /\ s2.flash = IF FlashWriting(d, p) /\ ~FlashWriting(s1.ddr, s1.port)
                        THEN WriteCycle(s1.flash, p.addr, IF d.data = "out" THEN p.data ELSE {})
                        ELSE s1.flash
      BY <2>4 DEF After, State
    <2> HIDE DEF d, p, s2
    <2> QED
      BY <2>1, <2>2, <2>3, <2>5
  <1>8. s3.ddr = s2.ddr /\ s3.port = [s2.port EXCEPT !.ramWe = 1] /\ s3.samples = s2.samples
    <2>1. /\ s3.ddr = s2.ddr /\ s3.port = Apply(s2.port, Port("ramWe", 1))
          /\ s3.samples = s2.samples
      BY AfterPort
    <2>2. Apply(s2.port, Port("ramWe", 1)) = [s2.port EXCEPT !.ramWe = 1]
      BY DEF Apply, Port
    <2> QED
      BY <2>1, <2>2
  <1>9. s3.ddr = s1.ddr /\ s3.port = s1.port /\ WriteReady(s3)
    <2> HIDE DEF s2, s3
    <2>1. s1.port \in Levels /\ s1.port.ramWe = 1
      BY <1>1 DEF WriteReady, Ready
    <2>2. \A p \in Levels : p.ramWe = 1 =>
             [[p EXCEPT !.ramWe = 0] EXCEPT !.ramWe = 1] = p
      BY DEF Levels
    <2>3. s3.ddr = s1.ddr /\ s3.port = s1.port
      BY <1>6, <1>8, <2>1, <2>2
    <2> QED
      BY <1>1, <2>3 DEF WriteReady, Ready
  <1>10. s3.ram = s2.ram /\ s3.flash = s2.flash
    BY <1>9, AfterCalm DEF WriteReady, Ready, Calm
  <1> HIDE DEF s2, s3
  <1> QED
    BY <1>1, <1>5, <1>6, <1>7, <1>8, <1>9, <1>10, Selects DEF SameChips

\* A byte that is written to the flash chip is one write cycle of it, if the
\* address is in flash.
LEMMA FlashCmdLeads ==
    ASSUME NEW s, WriteReady(s), NEW a \in Nat, NEW b \in Byte
    PROVE  \E t : /\ Leads(s, FlashCmd(a, b), t) /\ WriteReady(t)
                  /\ t.ram = s.ram /\ t.samples = s.samples
                  /\ t.flash = IF IsRam(a) THEN s.flash ELSE WriteCycle(s.flash, BusAddr(a), b)
  <1>1. PICK s1 : /\ Leads(s, BusWrite(a, b), s1) /\ WriteReady(s1) /\ SameChips(s, s1)
                  /\ s1.port.addr = BusAddr(a) /\ s1.port.data = b
    BY BusWriteLeads
  <1> DEFINE s2 == After(s1, Port("flashWe", 1))
             s3 == After(s2, Port("flashWe", 0))
  <1>2. Port("flashWe", 0) \in MicroOps /\ Port("flashWe", 1) \in MicroOps
    BY DEF Port, MicroOps
  <1>3. Leads(s1, PulseFlashWrite, s3)
    BY <1>2, LeadsTwo DEF PulseFlashWrite
  <1>4. BusWrite(a, b) \in Seq(MicroOps) /\ PulseFlashWrite \in Seq(MicroOps)
    BY <1>2, BusAddrNat DEF BusWrite, PulseFlashWrite, Port, MicroOps
  <1>5. Leads(s, FlashCmd(a, b), s3)
    BY <1>1, <1>3, <1>4, LeadsBoth DEF FlashCmd
  <1>6. /\ s2.ddr = s1.ddr /\ s2.port = [s1.port EXCEPT !.flashWe = 1]
        /\ s2.samples = s1.samples
    <2>1. /\ s2.ddr = s1.ddr /\ s2.port = Apply(s1.port, Port("flashWe", 1))
          /\ s2.samples = s1.samples
      BY AfterPort
    <2>2. Apply(s1.port, Port("flashWe", 1)) = [s1.port EXCEPT !.flashWe = 1]
      BY DEF Apply, Port
    <2> QED
      BY <2>1, <2>2
  <1>7. /\ s2.ram = s1.ram
        /\ s2.flash = IF ChipSelected(BusAddr(a)) THEN WriteCycle(s1.flash, BusAddr(a), b)
                                                  ELSE s1.flash
    <2> DEFINE d == s1.ddr
               p == [s1.port EXCEPT !.flashWe = 1]
    <2>1. /\ p.ramWe = 1 /\ p.addr = BusAddr(a) /\ p.data = b /\ p.flashWe = 1 /\ p.memOe = 1
          /\ d.flashWe = "out" /\ d.addr = "out" /\ d.data = "out" /\ s1.port.flashWe = 0
      BY <1>1 DEF WriteReady, Ready, Levels
    <2>2. ~RamWriting(d, p)
      BY <2>1 DEF RamWriting
    <2>3. /\ FlashWriting(d, p) <=> ChipSelected(BusAddr(a))
          /\ ~FlashWriting(s1.ddr, s1.port)
      BY <2>1 DEF FlashWriting
    <2>4. /\ Port("flashWe", 1).reg = "port" /\ Apply(s1.port, Port("flashWe", 1)) = p
      BY DEF Port, Apply
    <2>5. /\ s2.ram = IF RamWriting(d, p)
                      THEN [x \in DOMAIN s1.ram |->
                              IF x = p.addr THEN IF d.data = "out" THEN p.data ELSE {}
                                            ELSE s1.ram[x]]
                      ELSE s1.ram
          /\ s2.flash = IF FlashWriting(d, p) /\ ~FlashWriting(s1.ddr, s1.port)
                        THEN WriteCycle(s1.flash, p.addr, IF d.data = "out" THEN p.data ELSE {})
                        ELSE s1.flash
      BY <2>4 DEF After, State
    <2> HIDE DEF d, p, s2
    <2> QED
      BY <2>1, <2>2, <2>3, <2>5
  <1>8. s3.ddr = s2.ddr /\ s3.port = [s2.port EXCEPT !.flashWe = 0] /\ s3.samples = s2.samples
    <2>1. /\ s3.ddr = s2.ddr /\ s3.port = Apply(s2.port, Port("flashWe", 0))
          /\ s3.samples = s2.samples
      BY AfterPort
    <2>2. Apply(s2.port, Port("flashWe", 0)) = [s2.port EXCEPT !.flashWe = 0]
      BY DEF Apply, Port
    <2> QED
      BY <2>1, <2>2
  <1>9. s3.ddr = s1.ddr /\ s3.port = s1.port /\ WriteReady(s3)
    <2> HIDE DEF s2, s3
    <2>1. s1.port \in Levels /\ s1.port.flashWe = 0
      BY <1>1 DEF WriteReady, Ready
    <2>2. \A p \in Levels : p.flashWe = 0 =>
             [[p EXCEPT !.flashWe = 1] EXCEPT !.flashWe = 0] = p
      BY DEF Levels
    <2>3. s3.ddr = s1.ddr /\ s3.port = s1.port
      BY <1>6, <1>8, <2>1, <2>2
    <2> QED
      BY <1>1, <2>3 DEF WriteReady, Ready
  <1>10. s3.ram = s2.ram /\ s3.flash = s2.flash
    BY <1>9, AfterCalm DEF WriteReady, Ready, Calm
  <1> HIDE DEF s2, s3
  <1> QED
    BY <1>1, <1>5, <1>6, <1>7, <1>8, <1>9, <1>10, Selects DEF SameChips

\* A byte that is read is that of the cell addressed.
LEMMA BusReadLeads ==
    ASSUME NEW s, ReadReady(s), NEW a \in Nat
    PROVE  \E t : /\ Leads(s, BusRead(a), t) /\ ReadReady(t)
                  /\ t.ram = s.ram /\ t.flash = s.flash
                  /\ t.samples = Append(s.samples,
                                    IF IsRam(a) THEN s.ram[BusAddr(a)]
                                                ELSE ReadCycle(s.flash, BusAddr(a)))
  <1> DEFINE s1 == After(s, Port("addr", BusAddr(a)))
             s2 == After(s1, Sample)
  <1>1. BusAddr(a) \in Nat
    BY BusAddrNat
  <1>2. Port("addr", BusAddr(a)) \in MicroOps /\ Sample \in MicroOps
    BY <1>1 DEF Port, MicroOps
  <1>3. Leads(s, BusRead(a), s2)
    BY <1>2, LeadsTwo DEF BusRead
  <1>4. /\ Ready(s1) /\ SameChips(s, s1) /\ s1.ddr = s.ddr
        /\ s1.port = [s.port EXCEPT !.addr = BusAddr(a)]
    BY <1>1, SetAddress DEF ReadReady
  <1>5. ReadReady(s1) /\ s1.port.addr = BusAddr(a)
    BY <1>4 DEF ReadReady, Ready, Levels
  <1>6. /\ s2.ddr = s1.ddr /\ s2.port = s1.port
        /\ s2.samples = Append(s1.samples, BusOf(s1))
    BY DEF After, Sample, State
  <1>7. s2.ram = s1.ram /\ s2.flash = s1.flash
    BY <1>4, <1>6, AfterCalm DEF Calm, Ready
  <1>8. BusOf(s1) = IF IsRam(BusAddr(a)) THEN s1.ram[BusAddr(a)]
                                         ELSE ReadCycle(s1.flash, BusAddr(a))
    BY <1>5 DEF BusOf, ReadReady, Ready, MemDrives
  <1>9. ReadReady(s2)
    BY <1>5, <1>6 DEF ReadReady, Ready
  <1> HIDE DEF s1, s2
  <1> QED
    BY <1>3, <1>4, <1>6, <1>7, <1>8, <1>9, Selects DEF SameChips

-----------------------------------------------------------------------------
(***************************************************************************)
(* The functions of flash.c: one write cycle of the chip after another.    *)
(***************************************************************************)

\* The accesses ops lead from s to a state in which the data pins are of
\* direction m, the flash chip is f and x has been read.
Reaches(s, ops, m, f, x) ==
    \E t : /\ Leads(s, ops, t) /\ IF m = "out" THEN WriteReady(t) ELSE ReadReady(t)
           /\ t.ram = s.ram /\ t.flash = f /\ t.samples = x

LEMMA ReachesFirst ==
    ASSUME NEW s, Ready(s)
    PROVE  Reaches(s, WriteMode, "out", s.flash, s.samples)
  BY ModeLeads DEF Reaches, SameChips

LEMMA ReachesMode ==
    ASSUME NEW s, NEW ops \in Seq(MicroOps), NEW m, NEW f, NEW x, Reaches(s, ops, m, f, x)
    PROVE  /\ Reaches(s, ops \o WriteMode, "out", f, x)
           /\ Reaches(s, ops \o ReadMode, "in", f, x)
  <1>1. PICK t : /\ Leads(s, ops, t) /\ Ready(t)
                 /\ t.ram = s.ram /\ t.flash = f /\ t.samples = x
    BY DEF Reaches, WriteReady, ReadReady
  <1>2. PICK u : Leads(t, WriteMode, u) /\ WriteReady(u) /\ SameChips(t, u)
    BY <1>1, ModeLeads
  <1>3. PICK v : Leads(t, ReadMode, v) /\ ReadReady(v) /\ SameChips(t, v)
    BY <1>1, ModeLeads
  <1>4. Leads(s, ops \o WriteMode, u) /\ Leads(s, ops \o ReadMode, v)
    BY <1>1, <1>2, <1>3, LeadsBoth, ModeOps
  <1> QED
    BY <1>1, <1>2, <1>3, <1>4 DEF Reaches, SameChips

LEMMA ReachesCmd ==
    ASSUME NEW s, NEW ops \in Seq(MicroOps), NEW f, NEW x, Reaches(s, ops, "out", f, x),
           NEW a \in Nat, ~IsRam(a), NEW b \in Byte
    PROVE  Reaches(s, ops \o FlashCmd(a, b), "out", WriteCycle(f, BusAddr(a), b), x)
  <1>1. PICK t : /\ Leads(s, ops, t) /\ WriteReady(t)
                 /\ t.ram = s.ram /\ t.flash = f /\ t.samples = x
    BY DEF Reaches
  <1>2. PICK u : /\ Leads(t, FlashCmd(a, b), u) /\ WriteReady(u)
                 /\ u.ram = t.ram /\ u.samples = t.samples
                 /\ u.flash = WriteCycle(t.flash, BusAddr(a), b)
    BY <1>1, FlashCmdLeads
  <1>3. Leads(s, ops \o FlashCmd(a, b), u)
    BY <1>1, <1>2, LeadsBoth, FlashCmdOps
  <1> QED
    BY <1>1, <1>2, <1>3 DEF Reaches

LEMMA ReachesRead ==
    ASSUME NEW s, NEW ops \in Seq(MicroOps), NEW f, NEW x, Reaches(s, ops, "in", f, x),
           NEW a \in Nat, ~IsRam(a)
    PROVE  Reaches(s, ops \o BusRead(a), "in", f, Append(x, ReadCycle(f, BusAddr(a))))
  <1>1. PICK t : /\ Leads(s, ops, t) /\ ReadReady(t)
                 /\ t.ram = s.ram /\ t.flash = f /\ t.samples = x
    BY DEF Reaches
  <1>2. PICK u : /\ Leads(t, BusRead(a), u) /\ ReadReady(u)
                 /\ u.ram = t.ram /\ u.flash = t.flash
                 /\ u.samples = Append(t.samples, ReadCycle(t.flash, BusAddr(a)))
    BY <1>1, BusReadLeads
  <1>3. Leads(s, ops \o BusRead(a), u)
    BY <1>1, <1>2, LeadsBoth, BusReadOps
  <1> QED
    BY <1>1, <1>2, <1>3 DEF Reaches

\* The chip's decoder, one write cycle at a time.
Decoder(m, s, i) == [mem |-> m, step |-> s, id |-> i]
Programmed(m, a, b) == [c \in DOMAIN m |-> IF c = a THEN m[c] \cap b ELSE m[c]]
SectorErased(m, a) ==
    [c \in DOMAIN m |-> IF ChipSector(c) = ChipSector(a) THEN Erased ELSE m[c]]
AllErased(m) == [c \in DOMAIN m |-> Erased]

LEMMA UnlockAddrs ==
    /\ Unlock1 \in Nat /\ Unlock2 \in Nat /\ ~IsRam(Unlock1) /\ ~IsRam(Unlock2)
    /\ Decodes(BusAddr(Unlock1), Unlock1) /\ ~Decodes(BusAddr(Unlock1), Unlock2)
    /\ Decodes(BusAddr(Unlock2), Unlock2) /\ ~Decodes(BusAddr(Unlock2), Unlock1)
  BY DEF Unlock1, Unlock2, IsRam, RamMask, BusAddr, AddrSpace, Decodes

LEMMA CommandsDiffer ==
    /\ xAA # x55 /\ xAA # xA0 /\ xAA # x90 /\ xAA # xF0 /\ xAA # x80 /\ xAA # x30 /\ xAA # x10
    /\ xA0 # x90 /\ xA0 # xF0 /\ xA0 # x80 /\ x90 # xF0 /\ x90 # x80 /\ xF0 # x80
    /\ x30 # x10
  <1>1. /\ 1 \in xAA /\ 1 \notin x55 /\ 1 \notin xA0 /\ 1 \notin x90 /\ 1 \notin xF0
        /\ 1 \notin x80 /\ 1 \notin x30 /\ 1 \notin x10
    BY DEF xAA, x55, xA0, x90, xF0, x80, x30, x10
  <1>2. /\ 5 \in xA0 /\ 5 \notin x90 /\ 4 \notin xA0 /\ 4 \in xF0 /\ 5 \notin x80
        /\ 5 \in xF0 /\ 4 \in x90 /\ 4 \notin x80 /\ 5 \in x30 /\ 5 \notin x10
    BY DEF xA0, x90, xF0, x80, x30, x10
  <1> QED
    BY <1>1, <1>2

LEMMA DecoderSteps ==
    ASSUME NEW m, NEW i
    PROVE  /\ WriteCycle(Decoder(m, "read", i), BusAddr(Unlock1), xAA)
                = Decoder(m, "unlocking", i)
           /\ WriteCycle(Decoder(m, "unlocking", i), BusAddr(Unlock2), x55)
                = Decoder(m, "unlocked", i)
           /\ WriteCycle(Decoder(m, "unlocked", i), BusAddr(Unlock1), xA0)
                = Decoder(m, "program", i)
           /\ WriteCycle(Decoder(m, "unlocked", i), BusAddr(Unlock1), x80)
                = Decoder(m, "erase", i)
           /\ WriteCycle(Decoder(m, "unlocked", i), BusAddr(Unlock1), x90)
                = Decoder(m, "read", TRUE)
           /\ WriteCycle(Decoder(m, "unlocked", i), BusAddr(Unlock1), xF0)
                = Decoder(m, "read", FALSE)
           /\ WriteCycle(Decoder(m, "erase", i), BusAddr(Unlock1), xAA)
                = Decoder(m, "eraseUnlocking", i)
           /\ WriteCycle(Decoder(m, "eraseUnlocking", i), BusAddr(Unlock2), x55)
                = Decoder(m, "eraseUnlocked", i)
  <1> USE UnlockAddrs, CommandsDiffer DEF WriteCycle, Decoder, To
  <1>1. WriteCycle(Decoder(m, "read", i), BusAddr(Unlock1), xAA) = Decoder(m, "unlocking", i)
    OBVIOUS
  <1>2. WriteCycle(Decoder(m, "unlocking", i), BusAddr(Unlock2), x55) = Decoder(m, "unlocked", i)
    OBVIOUS
  <1>3. WriteCycle(Decoder(m, "unlocked", i), BusAddr(Unlock1), xA0) = Decoder(m, "program", i)
    OBVIOUS
  <1>4. WriteCycle(Decoder(m, "unlocked", i), BusAddr(Unlock1), x80) = Decoder(m, "erase", i)
    OBVIOUS
  <1>5. WriteCycle(Decoder(m, "unlocked", i), BusAddr(Unlock1), x90) = Decoder(m, "read", TRUE)
    OBVIOUS
  <1>6. WriteCycle(Decoder(m, "unlocked", i), BusAddr(Unlock1), xF0) = Decoder(m, "read", FALSE)
    OBVIOUS
  <1>7. WriteCycle(Decoder(m, "erase", i), BusAddr(Unlock1), xAA)
          = Decoder(m, "eraseUnlocking", i)
    OBVIOUS
  <1>8. WriteCycle(Decoder(m, "eraseUnlocking", i), BusAddr(Unlock2), x55)
          = Decoder(m, "eraseUnlocked", i)
    OBVIOUS
  <1> QED
    BY <1>1, <1>2, <1>3, <1>4, <1>5, <1>6, <1>7, <1>8

LEMMA DecoderEnds ==
    ASSUME NEW m, NEW i, NEW a, NEW b
    PROVE  /\ WriteCycle(Decoder(m, "program", i), a, b)
                = Decoder(Programmed(m, a, b), "read", i)
           /\ WriteCycle(Decoder(m, "eraseUnlocked", i), a, x30)
                = Decoder(SectorErased(m, a), "read", i)
           /\ WriteCycle(Decoder(m, "eraseUnlocked", i), BusAddr(Unlock1), x10)
                = Decoder(AllErased(m), "read", i)
  <1>1. WriteCycle(Decoder(m, "program", i), a, b) = Decoder(Programmed(m, a, b), "read", i)
    BY DEF WriteCycle, Decoder, Programmed
  <1> DEFINE e == Decoder(m, "eraseUnlocked", i)
             cells == {c \in DOMAIN m : ChipSector(c) = ChipSector(a)}
  <1>2. ASSUME NEW f
        PROVE  [e EXCEPT !.step = "read", !.mem = f] = Decoder(f, "read", i)
    <2>1. [[mem |-> m, step |-> "eraseUnlocked", id |-> i] EXCEPT !.step = "read"]
            = [mem |-> m, step |-> "read", id |-> i]
      OBVIOUS
    <2>2. [[mem |-> m, step |-> "read", id |-> i] EXCEPT !.mem = f]
            = [mem |-> f, step |-> "read", id |-> i]
      OBVIOUS
    <2> QED
      BY <2>1, <2>2 DEF Decoder
  <1>3. e.mem = m
    BY DEF Decoder
  <1>4. WriteCycle(e, a, x30) = Decoder(SectorErased(m, a), "read", i)
    <2>1. WriteCycle(e, a, x30) = EraseCells(e, cells)
      BY CommandsDiffer DEF WriteCycle, Decoder
    <2>2. SectorErased(m, a) = [c \in DOMAIN m |-> IF c \in cells THEN Erased ELSE m[c]]
      BY DEF SectorErased
    <2> HIDE DEF e
    <2>3. EraseCells(e, cells) = [e EXCEPT !.step = "read", !.mem = SectorErased(m, a)]
      BY <1>3, <2>2, Zenon DEF EraseCells
    <2> HIDE DEF cells
    <2>4. [e EXCEPT !.step = "read", !.mem = SectorErased(m, a)]
            = Decoder(SectorErased(m, a), "read", i)
      BY <1>2, Zenon
    <2> QED
      BY <2>1, <2>3, <2>4, Zenon
  <1>5. WriteCycle(e, BusAddr(Unlock1), x10) = Decoder(AllErased(m), "read", i)
    <2>1. WriteCycle(e, BusAddr(Unlock1), x10) = EraseCells(e, DOMAIN m)
      BY CommandsDiffer, UnlockAddrs DEF WriteCycle, Decoder
    <2>2. AllErased(m) = [c \in DOMAIN m |-> IF c \in DOMAIN m THEN Erased ELSE m[c]]
      BY DEF AllErased
    <2> HIDE DEF e
    <2>3. EraseCells(e, DOMAIN m) = [e EXCEPT !.step = "read", !.mem = AllErased(m)]
      BY <1>3, <2>2, Zenon DEF EraseCells
    <2>4. [e EXCEPT !.step = "read", !.mem = AllErased(m)]
            = Decoder(AllErased(m), "read", i)
      BY <1>2, Zenon
    <2> QED
      BY <2>1, <2>3, <2>4, Zenon
  <1> QED
    BY <1>1, <1>4, <1>5

LEMMA ReachesUnlocked ==
    ASSUME NEW s, NEW ops \in Seq(MicroOps), NEW m, NEW i, NEW x,
           Reaches(s, ops, "out", Decoder(m, "read", i), x)
    PROVE  LET p == ops \o FlashCmd(Unlock1, xAA) \o FlashCmd(Unlock2, x55)
           IN p \in Seq(MicroOps) /\ Reaches(s, p, "out", Decoder(m, "unlocked", i), x)
  <1> DEFINE p1 == ops \o FlashCmd(Unlock1, xAA)
             p2 == p1 \o FlashCmd(Unlock2, x55)
  <1>1. p1 \in Seq(MicroOps) /\ p2 \in Seq(MicroOps)
    BY UnlockOps, ConcatOps, Zenon
  <1>2. Reaches(s, p1, "out", Decoder(m, "unlocking", i), x)
    <2>1. Reaches(s, p1, "out", WriteCycle(Decoder(m, "read", i), BusAddr(Unlock1), xAA), x)
      BY UnlockAddrs, CommandBytes, ReachesCmd
    <2> QED
      BY <2>1, DecoderSteps
  <1> HIDE DEF p1
  <1>3. Reaches(s, p2, "out", Decoder(m, "unlocked", i), x)
    <2>1. Reaches(s, p2, "out", WriteCycle(Decoder(m, "unlocking", i), BusAddr(Unlock2), x55), x)
      BY <1>1, <1>2, UnlockAddrs, CommandBytes, ReachesCmd
    <2> QED
      BY <2>1, DecoderSteps
  <1> QED
    BY <1>1, <1>3 DEF p1

\* flash_byte_program: one cell loses the bits that are not in the byte.
LEMMA ProgramLeads ==
    ASSUME NEW s, Ready(s), NEW m, s.flash = Chip(m),
           NEW a \in Nat, NEW b \in Byte, ~IsRam(a)
    PROVE  Reaches(s, FlashByteProgram(a, b), "out",
                   Chip(Programmed(m, BusAddr(a), b)), s.samples)
  <1> DEFINE p == WriteMode \o FlashCmd(Unlock1, xAA) \o FlashCmd(Unlock2, x55)
             n == Programmed(m, BusAddr(a), b)
  <1>1. s.flash = Decoder(m, "read", FALSE) /\ Chip(n) = Decoder(n, "read", FALSE)
    BY DEF Chip, Decoder
  <1>2. p \in Seq(MicroOps) /\ Reaches(s, p, "out", Decoder(m, "unlocked", FALSE), s.samples)
    <2>1. Reaches(s, WriteMode, "out", Decoder(m, "read", FALSE), s.samples)
      BY <1>1, ReachesFirst
    <2> QED
      BY <2>1, ReachesUnlocked, ModeOps
  <1>3. FlashByteProgram(a, b) = (p \o FlashCmd(Unlock1, xA0)) \o FlashCmd(a, b)
    BY DEF FlashByteProgram
  <1> HIDE DEF p
  <1>4. Reaches(s, p \o FlashCmd(Unlock1, xA0), "out", Decoder(m, "program", FALSE), s.samples)
    <2>1. Reaches(s, p \o FlashCmd(Unlock1, xA0), "out",
                  WriteCycle(Decoder(m, "unlocked", FALSE), BusAddr(Unlock1), xA0), s.samples)
      BY <1>2, UnlockAddrs, CommandBytes, ReachesCmd
    <2> QED
      BY <2>1, DecoderSteps
  <1>5. p \o FlashCmd(Unlock1, xA0) \in Seq(MicroOps)
    BY <1>2, UnlockOps, ConcatOps, Zenon
  <1>6. Reaches(s, (p \o FlashCmd(Unlock1, xA0)) \o FlashCmd(a, b), "out",
                WriteCycle(Decoder(m, "program", FALSE), BusAddr(a), b), s.samples)
    BY <1>4, <1>5, ReachesCmd
  <1>7. WriteCycle(Decoder(m, "program", FALSE), BusAddr(a), b) = Decoder(n, "read", FALSE)
    BY DecoderEnds
  <1> QED
    BY <1>1, <1>3, <1>6, <1>7

LEMMA EraseUnlockLeads ==
    ASSUME NEW s, Ready(s), NEW m, s.flash = Chip(m)
    PROVE  /\ EraseUnlock \in Seq(MicroOps)
           /\ Reaches(s, EraseUnlock, "out", Decoder(m, "eraseUnlocked", FALSE), s.samples)
  <1> DEFINE p == WriteMode \o FlashCmd(Unlock1, xAA) \o FlashCmd(Unlock2, x55)
             p1 == p \o FlashCmd(Unlock1, x80)
             p2 == p1 \o FlashCmd(Unlock1, xAA)
             p3 == p2 \o FlashCmd(Unlock2, x55)
  <1>1. s.flash = Decoder(m, "read", FALSE)
    BY DEF Chip, Decoder
  <1>2. p \in Seq(MicroOps) /\ Reaches(s, p, "out", Decoder(m, "unlocked", FALSE), s.samples)
    <2>1. Reaches(s, WriteMode, "out", Decoder(m, "read", FALSE), s.samples)
      BY <1>1, ReachesFirst
    <2> QED
      BY <2>1, ReachesUnlocked, ModeOps
  <1>3. EraseUnlock = p3
    BY DEF EraseUnlock
  <1> HIDE DEF p
  <1>4. p1 \in Seq(MicroOps) /\ p2 \in Seq(MicroOps) /\ p3 \in Seq(MicroOps)
    BY <1>2, UnlockOps, ConcatOps, Zenon
  <1>5. Reaches(s, p1, "out", Decoder(m, "erase", FALSE), s.samples)
    <2>1. Reaches(s, p1, "out",
                  WriteCycle(Decoder(m, "unlocked", FALSE), BusAddr(Unlock1), x80), s.samples)
      BY <1>2, UnlockAddrs, CommandBytes, ReachesCmd
    <2> QED
      BY <2>1, DecoderSteps
  <1> HIDE DEF p1
  <1>6. Reaches(s, p2, "out", Decoder(m, "eraseUnlocking", FALSE), s.samples)
    <2>1. Reaches(s, p2, "out",
                  WriteCycle(Decoder(m, "erase", FALSE), BusAddr(Unlock1), xAA), s.samples)
      BY <1>4, <1>5, UnlockAddrs, CommandBytes, ReachesCmd
    <2> QED
      BY <2>1, DecoderSteps
  <1> HIDE DEF p2
  <1>7. Reaches(s, p3, "out", Decoder(m, "eraseUnlocked", FALSE), s.samples)
    <2>1. Reaches(s, p3, "out",
                  WriteCycle(Decoder(m, "eraseUnlocking", FALSE), BusAddr(Unlock2), x55), s.samples)
      BY <1>4, <1>6, UnlockAddrs, CommandBytes, ReachesCmd
    <2> QED
      BY <2>1, DecoderSteps
  <1> HIDE DEF p3
  <1> QED
    BY <1>3, <1>4, <1>7

\* flash_erase_sector and flash_erase_chip.
LEMMA EraseLeads ==
    ASSUME NEW s, Ready(s), NEW m, s.flash = Chip(m), NEW a \in Nat
    PROVE  /\ ~IsRam(a) =>
                Reaches(s, FlashEraseSector(a), "out",
                        Chip(SectorErased(m, BusAddr(a))), s.samples)
           /\ Reaches(s, FlashEraseChip, "out", Chip(AllErased(m)), s.samples)
  <1>1. /\ EraseUnlock \in Seq(MicroOps)
        /\ Reaches(s, EraseUnlock, "out", Decoder(m, "eraseUnlocked", FALSE), s.samples)
    BY EraseUnlockLeads
  <1>2. ASSUME ~IsRam(a)
        PROVE  Reaches(s, FlashEraseSector(a), "out",
                       Chip(SectorErased(m, BusAddr(a))), s.samples)
    <2>1. Reaches(s, EraseUnlock \o FlashCmd(a, x30), "out",
                  WriteCycle(Decoder(m, "eraseUnlocked", FALSE), BusAddr(a), x30), s.samples)
      BY <1>1, <1>2, CommandBytes, ReachesCmd
    <2>2. FlashEraseSector(a) = EraseUnlock \o FlashCmd(a, x30)
      BY <1>2 DEF FlashEraseSector
    <2>3. WriteCycle(Decoder(m, "eraseUnlocked", FALSE), BusAddr(a), x30)
            = Chip(SectorErased(m, BusAddr(a)))
      <3>1. WriteCycle(Decoder(m, "eraseUnlocked", FALSE), BusAddr(a), x30)
              = Decoder(SectorErased(m, BusAddr(a)), "read", FALSE)
        BY DecoderEnds, Zenon
      <3> QED
        BY <3>1 DEF Chip, Decoder
    <2> QED
      BY <2>1, <2>2, <2>3
  <1>3. Reaches(s, FlashEraseChip, "out", Chip(AllErased(m)), s.samples)
    <2>1. Reaches(s, EraseUnlock \o FlashCmd(Unlock1, x10), "out",
                  WriteCycle(Decoder(m, "eraseUnlocked", FALSE), BusAddr(Unlock1), x10), s.samples)
      BY <1>1, UnlockAddrs, CommandBytes, ReachesCmd
    <2> QED
      BY <2>1, DecoderEnds DEF Chip, Decoder, FlashEraseChip
  <1> QED
    BY <1>2, <1>3

LEMMA AppendNone == ASSUME NEW x PROVE Append(<<>>, x) = <<x>>
  OBVIOUS

LEMMA AppendToOne ==
    ASSUME NEW x, NEW y
    PROVE  Append(<<x>>, y) = <<x, y>>
  <1> DEFINE s == Append(<<x>>, y)
             t == <<x, y>>
  <1>1. <<x>> \in Seq({x, y}) /\ Len(<<x>>) = 1 /\ <<x>>[1] = x
    OBVIOUS
  <1>2. s \in Seq({x, y}) /\ Len(s) = 2 /\ s[1] = x /\ s[2] = y
    BY <1>1, AppendProperties
  <1>3. t \in Seq({x, y}) /\ Len(t) = 2 /\ t[1] = x /\ t[2] = y
    OBVIOUS
  <1> HIDE DEF s, t
  <1>4. Len(s) = Len(t) /\ \A j \in 1 .. Len(s) : s[j] = t[j]
    BY <1>2, <1>3
  <1>5. s = t
    BY <1>2, <1>3, <1>4, SeqEqual
  <1> QED
    BY <1>5 DEF s, t

\* flash_software_id: the identifiers are read, and the chip is left in read
\* mode as it was.
LEMMA IdLeads ==
    ASSUME NEW s, Ready(s), NEW m, s.flash = Chip(m), s.samples = <<>>
    PROVE  Reaches(s, FlashSoftwareId, "out", Chip(m), <<MfgId, DevId>>)
  <1> DEFINE p == WriteMode \o FlashCmd(Unlock1, xAA) \o FlashCmd(Unlock2, x55)
             p1 == p \o FlashCmd(Unlock1, x90)
             p2 == p1 \o ReadMode
             p3 == p2 \o BusRead(0)
             p4 == p3 \o BusRead(1)
             p5 == p4 \o WriteMode
             p6 == p5 \o FlashCmd(Unlock1, xAA) \o FlashCmd(Unlock2, x55)
             p7 == p6 \o FlashCmd(Unlock1, xF0)
             f == Decoder(m, "read", TRUE)
  <1>1. s.flash = Decoder(m, "read", FALSE) /\ Chip(m) = Decoder(m, "read", FALSE)
    BY DEF Chip, Decoder
  <1>2. p \in Seq(MicroOps) /\ Reaches(s, p, "out", Decoder(m, "unlocked", FALSE), <<>>)
    <2>1. Reaches(s, WriteMode, "out", Decoder(m, "read", FALSE), <<>>)
      BY <1>1, ReachesFirst
    <2> QED
      BY <2>1, ReachesUnlocked, ModeOps
  <1>3. FlashSoftwareId = p7
    BY DEF FlashSoftwareId
  <1> HIDE DEF p
  <1>4. /\ p1 \in Seq(MicroOps) /\ p2 \in Seq(MicroOps) /\ p3 \in Seq(MicroOps)
        /\ p4 \in Seq(MicroOps) /\ p5 \in Seq(MicroOps)
    <2>1. BusRead(0) \in Seq(MicroOps) /\ BusRead(1) \in Seq(MicroOps)
      BY BusReadOps
    <2> QED
      BY <1>2, <2>1, ModeOps, UnlockOps, ConcatOps, Zenon
  <1>5. Reaches(s, p1, "out", f, <<>>)
    <2>1. Reaches(s, p1, "out",
                  WriteCycle(Decoder(m, "unlocked", FALSE), BusAddr(Unlock1), x90), <<>>)
      BY <1>2, UnlockAddrs, CommandBytes, ReachesCmd
    <2> QED
      BY <2>1, DecoderSteps
  <1> HIDE DEF p1, f
  <1>6. Reaches(s, p2, "in", f, <<>>)
    BY <1>4, <1>5, ReachesMode
  <1> HIDE DEF p2
  <1>7. /\ ~IsRam(0) /\ ReadCycle(f, BusAddr(0)) = MfgId
        /\ ~IsRam(1) /\ ReadCycle(f, BusAddr(1)) = DevId
    BY DEF f, Decoder, ReadCycle, BusAddr, AddrSpace, IsRam, RamMask
  <1>8. Reaches(s, p3, "in", f, Append(<<>>, MfgId))
    BY <1>4, <1>6, <1>7, ReachesRead
  <1> HIDE DEF p3
  <1>9. Reaches(s, p4, "in", f, Append(Append(<<>>, MfgId), DevId))
    BY <1>4, <1>7, <1>8, ReachesRead
  <1>10. Append(Append(<<>>, MfgId), DevId) = <<MfgId, DevId>>
    BY AppendNone, AppendToOne
  <1> HIDE DEF p4
  <1>11. Reaches(s, p5, "out", f, <<MfgId, DevId>>)
    BY <1>4, <1>9, <1>10, ReachesMode
  <1> HIDE DEF p5
  <1>12. /\ p6 \in Seq(MicroOps)
         /\ Reaches(s, p6, "out", Decoder(m, "unlocked", TRUE), <<MfgId, DevId>>)
    BY <1>4, <1>11, ReachesUnlocked DEF f
  <1> HIDE DEF p6
  <1>13. Reaches(s, p7, "out", Decoder(m, "read", FALSE), <<MfgId, DevId>>)
    <2>1. Reaches(s, p7, "out",
                  WriteCycle(Decoder(m, "unlocked", TRUE), BusAddr(Unlock1), xF0), <<MfgId, DevId>>)
      BY <1>12, UnlockAddrs, CommandBytes, ReachesCmd
    <2> QED
      BY <2>1, DecoderSteps
  <1> HIDE DEF p7
  <1> QED
    BY <1>1, <1>3, <1>13

-----------------------------------------------------------------------------
(***************************************************************************)
(* bus_acquire: the pins are set up in an order that makes no strobe.      *)
(***************************************************************************)
SetPin(pin, v, dir) == <<Port(pin, v), Ddr(pin, dir)>>

\* t is s but for the level and the direction of one group of pins.
PinSet(s, t, pin, v, dir) ==
    /\ SameChips(s, t) /\ t.ddr \in Dirs /\ t.port \in Levels /\ Calm(t)
    /\ \A p \in Pins : t.ddr[p] = IF p = pin THEN dir
                                  ELSE IF pin = "addr" /\ p = "flashWe" THEN "in"
                                  ELSE s.ddr[p]
    /\ \A p \in Pins : t.port[p] = IF p = pin THEN v
                                   ELSE IF pin = "addr" /\ p = "flashWe" THEN 0
                                   ELSE s.port[p]

LEMMA SetPinLeads ==
    ASSUME NEW s, s.ddr \in Dirs, s.port \in Levels, Calm(s),
           NEW pin \in {"data", "ramWe", "memOe", "flashWe"},
           NEW v, Port(pin, v) \in MicroOps, NEW dir \in {"in", "out"},
           pin = "ramWe" => v = 1, pin = "flashWe" => v = 0
    PROVE  \E t : Leads(s, SetPin(pin, v, dir), t) /\ PinSet(s, t, pin, v, dir)
  <1> DEFINE s1 == After(s, Port(pin, v))
             s2 == After(s1, Ddr(pin, dir))
  <1>1. Ddr(pin, dir) \in MicroOps
    BY DdrOp DEF Pins
  <1>2. Leads(s, SetPin(pin, v, dir), s2)
    BY <1>1, LeadsTwo DEF SetPin
  <1>3. s1.ddr = s.ddr /\ s1.port = [s.port EXCEPT ![pin] = v] /\ s1.samples = s.samples
    <2>1. /\ s1.ddr = s.ddr /\ s1.port = Apply(s.port, Port(pin, v))
          /\ s1.samples = s.samples
      BY AfterPort
    <2>2. Apply(s.port, Port(pin, v)) = [s.port EXCEPT ![pin] = v]
      BY DEF Apply, Port
    <2> QED
      BY <2>1, <2>2
  <1>4. s2.port = s1.port /\ s2.ddr = [s1.ddr EXCEPT ![pin] = dir] /\ s2.samples = s1.samples
    <2>1. /\ s2.port = s1.port /\ s2.ddr = Apply(s1.ddr, Ddr(pin, dir))
          /\ s2.samples = s1.samples
      BY AfterDdr
    <2>2. Apply(s1.ddr, Ddr(pin, dir)) = [s1.ddr EXCEPT ![pin] = dir]
      BY DEF Apply, Ddr
    <2> QED
      BY <2>1, <2>2
  <1>5. s1.port \in Levels
    <2>1. \/ pin = "data" /\ v \in Byte
          \/ pin \in {"ramWe", "memOe", "flashWe"} /\ v \in {0, 1}
      BY DEF Port, MicroOps, Sample
    <2> HIDE DEF s1
    <2> QED
      BY <1>3, <2>1 DEF Levels
  <1>6. Calm(s1) /\ Calm(s2) /\ s2.ddr \in Dirs
    <2> HIDE DEF s1, s2
    <2> QED
      BY <1>3, <1>4 DEF Calm, Dirs, Pins, Levels
  <1>7. s1.ram = s.ram /\ s1.flash = s.flash /\ s2.ram = s1.ram /\ s2.flash = s1.flash
    BY <1>6, AfterCalm
  <1> HIDE DEF s1, s2
  <1>8. \A p \in Pins : s2.ddr[p] = IF p = pin THEN dir ELSE s.ddr[p]
    BY <1>3, <1>4 DEF Dirs, Pins
  <1>9. \A p \in Pins : s2.port[p] = IF p = pin THEN v ELSE s.port[p]
    BY <1>3, <1>4 DEF Levels, Pins
  <1>10. SameChips(s, s2)
    BY <1>3, <1>4, <1>7 DEF SameChips
  <1>11. PinSet(s, s2, pin, v, dir)
    BY <1>4, <1>5, <1>6, <1>8, <1>9, <1>10 DEF PinSet
  <1> QED
    BY <1>2, <1>11

LEMMA SetAddrLeads ==
    ASSUME NEW s, s.ddr \in Dirs, s.port \in Levels, Calm(s), s.ddr.ramWe = "in"
    PROVE  \E t : Leads(s, SetPin("addr", 0, "out"), t) /\ PinSet(s, t, "addr", 0, "out")
  <1> DEFINE s1 == After(s, Port("addr", 0))
             s2 == After(s1, Ddr("addr", "out"))
  <1>1. Port("addr", 0) \in MicroOps /\ Ddr("addr", "out") \in MicroOps
    BY PortOps, DdrOp DEF Pins
  <1>2. Leads(s, SetPin("addr", 0, "out"), s2)
    BY <1>1, LeadsTwo DEF SetPin
  <1>3. /\ s1.ddr = s.ddr /\ s1.port = [[s.port EXCEPT !.addr = 0] EXCEPT !.flashWe = 0]
        /\ s1.samples = s.samples
    <2>1. /\ s1.ddr = s.ddr /\ s1.port = Apply(s.port, Port("addr", 0))
          /\ s1.samples = s.samples
      BY AfterPort
    <2>2. Apply(s.port, Port("addr", 0)) = [[s.port EXCEPT !.addr = 0] EXCEPT !.flashWe = 0]
      BY DEF Apply, Port
    <2> QED
      BY <2>1, <2>2
  <1>4. /\ s2.port = s1.port /\ s2.ddr = [[s1.ddr EXCEPT !.addr = "out"] EXCEPT !.flashWe = "in"]
        /\ s2.samples = s1.samples
    <2>1. /\ s2.port = s1.port /\ s2.ddr = Apply(s1.ddr, Ddr("addr", "out"))
          /\ s2.samples = s1.samples
      BY AfterDdr
    <2>2. Apply(s1.ddr, Ddr("addr", "out"))
            = [[s1.ddr EXCEPT !.addr = "out"] EXCEPT !.flashWe = "in"]
      BY DEF Apply, Ddr
    <2> QED
      BY <2>1, <2>2
  <1>5. s1.port \in Levels
    <2>1. [s.port EXCEPT !.addr = 0] \in Levels
      BY DEF Levels
    <2>2. \A p \in Levels : [p EXCEPT !.flashWe = 0] \in Levels
      BY DEF Levels
    <2> QED
      BY <1>3, <2>1, <2>2
  <1>6. Calm(s1) /\ Calm(s2) /\ s2.ddr \in Dirs
    <2> HIDE DEF s1, s2
    <2>1. s1.port.flashWe = 0
      BY <1>3 DEF Levels
    <2>2. s2.ddr \in Dirs /\ s2.ddr.ramWe = "in" /\ s2.ddr.flashWe = "in"
      <3> DEFINE d == [s.ddr EXCEPT !.addr = "out"]
      <3>1. d \in Dirs /\ d.ramWe = "in"
        BY DEF Dirs, Pins
      <3>2. \A e \in Dirs : LET g == [e EXCEPT !.flashWe = "in"]
                            IN g \in Dirs /\ g.ramWe = e.ramWe /\ g.flashWe = "in"
        BY DEF Dirs, Pins
      <3>3. s2.ddr = [d EXCEPT !.flashWe = "in"]
        BY <1>3, <1>4
      <3> HIDE DEF d
      <3> QED
        BY <3>1, <3>2, <3>3
    <2> QED
      BY <1>3, <1>4, <2>1, <2>2 DEF Calm
  <1>7. s1.ram = s.ram /\ s1.flash = s.flash /\ s2.ram = s1.ram /\ s2.flash = s1.flash
    BY <1>6, AfterCalm
  <1> HIDE DEF s1, s2
  <1>8. \A p \in Pins : s2.ddr[p] = IF p = "addr" THEN "out"
                                    ELSE IF p = "flashWe" THEN "in" ELSE s.ddr[p]
    BY <1>3, <1>4 DEF Dirs, Pins
  <1>9. \A p \in Pins : s2.port[p] = IF p = "addr" THEN 0
                                     ELSE IF p = "flashWe" THEN 0 ELSE s.port[p]
    BY <1>3, <1>4 DEF Levels, Pins
  <1>10. SameChips(s, s2)
    BY <1>3, <1>4, <1>7 DEF SameChips
  <1>11. PinSet(s, s2, "addr", 0, "out")
    BY <1>4, <1>5, <1>6, <1>8, <1>9, <1>10 DEF PinSet
  <1> QED
    BY <1>2, <1>11

LEMMA SetupLeads ==
    ASSUME NEW s, s.ddr \in Dirs, s.port \in Levels, \A p \in Pins : s.ddr[p] = "in"
    PROVE  \E t : Leads(s, AcquireSetup, t) /\ Ready(t) /\ SameChips(s, t)
  <1> DEFINE p1 == SetPin("data", {}, "in")
             p2 == SetPin("addr", 0, "out")
             p3 == SetPin("ramWe", 1, "out")
             p4 == SetPin("memOe", 0, "out")
             p5 == SetPin("flashWe", 0, "out")
  <1>1. /\ Port("data", {}) \in MicroOps /\ Port("ramWe", 1) \in MicroOps
        /\ Port("memOe", 0) \in MicroOps /\ Port("flashWe", 0) \in MicroOps
        /\ Port("addr", 0) \in MicroOps
    BY PortOps, CommandBytes
  <1>2. /\ p1 \in Seq(MicroOps) /\ p2 \in Seq(MicroOps) /\ p3 \in Seq(MicroOps)
        /\ p4 \in Seq(MicroOps) /\ p5 \in Seq(MicroOps)
    BY <1>1, DdrOp DEF SetPin, Pins
  <1>3. AcquireSetup = (((p1 \o p2) \o p3) \o p4) \o p5
    BY DEF AcquireSetup, SetPin
  <1>4. Calm(s)
    BY DEF Calm, Pins
  <1>5. PICK t1 : Leads(s, p1, t1) /\ PinSet(s, t1, "data", {}, "in")
    BY <1>1, <1>4, SetPinLeads
  <1>6. t1.ddr.ramWe = "in" /\ t1.ddr \in Dirs /\ t1.port \in Levels /\ Calm(t1)
    BY <1>5 DEF PinSet, Pins
  <1>7. PICK t2 : Leads(t1, p2, t2) /\ PinSet(t1, t2, "addr", 0, "out")
    BY <1>6, SetAddrLeads
  <1> DEFINE Set(t) == t.ddr \in Dirs /\ t.port \in Levels /\ Calm(t)
  <1>18. Set(t2)
    BY <1>7 DEF PinSet
  <1>8. PICK t3 : Leads(t2, p3, t3) /\ PinSet(t2, t3, "ramWe", 1, "out")
    BY <1>1, <1>18, SetPinLeads
  <1>19. Set(t3)
    BY <1>8 DEF PinSet
  <1>9. PICK t4 : Leads(t3, p4, t4) /\ PinSet(t3, t4, "memOe", 0, "out")
    BY <1>1, <1>19, SetPinLeads
  <1>20. Set(t4)
    BY <1>9 DEF PinSet
  <1>10. PICK t5 : Leads(t4, p5, t5) /\ PinSet(t4, t5, "flashWe", 0, "out")
    BY <1>1, <1>20, SetPinLeads
  <1> HIDE DEF p1, p2, p3, p4, p5
  <1>11. /\ p1 \o p2 \in Seq(MicroOps) /\ (p1 \o p2) \o p3 \in Seq(MicroOps)
         /\ ((p1 \o p2) \o p3) \o p4 \in Seq(MicroOps)
    BY <1>2, ConcatOps, Zenon
  <1>12. Leads(s, p1 \o p2, t2)
    BY <1>2, <1>5, <1>7, LeadsBoth
  <1>13. Leads(s, (p1 \o p2) \o p3, t3)
    BY <1>2, <1>8, <1>11, <1>12, LeadsBoth
  <1>14. Leads(s, ((p1 \o p2) \o p3) \o p4, t4)
    BY <1>2, <1>9, <1>11, <1>13, LeadsBoth
  <1>15. Leads(s, AcquireSetup, t5)
    BY <1>2, <1>3, <1>10, <1>11, <1>14, LeadsBoth
  <1>16. Ready(t5)
    <2>1. t2.ddr.addr = "out"
      BY <1>7 DEF PinSet, Pins
    <2>2. t3.ddr.addr = "out" /\ t3.ddr.ramWe = "out" /\ t3.port.ramWe = 1
      BY <1>8, <2>1 DEF PinSet, Pins
    <2>3. /\ t4.ddr.addr = "out" /\ t4.ddr.ramWe = "out" /\ t4.port.ramWe = 1
          /\ t4.ddr.memOe = "out"
      BY <1>9, <2>2 DEF PinSet, Pins
    <2>4. /\ t5.ddr.addr = "out" /\ t5.ddr.ramWe = "out" /\ t5.port.ramWe = 1
          /\ t5.ddr.memOe = "out" /\ t5.ddr.flashWe = "out" /\ t5.port.flashWe = 0
      BY <1>10, <2>3 DEF PinSet, Pins
    <2> QED
      BY <1>10, <2>4 DEF Ready, PinSet
  <1>17. SameChips(s, t5)
    BY <1>5, <1>7, <1>8, <1>9, <1>10 DEF SameChips, PinSet
  <1> QED
    BY <1>15, <1>16, <1>17

-----------------------------------------------------------------------------
(***************************************************************************)
(* One iteration of a handler.                                             *)
(***************************************************************************)

LEMMA AddrSpaceNat == AddrSpace \in Nat \ {0}
  BY DEF AddrSpace

\* The bytes of a message go to different cells.
LEMMA CellsDiffer ==
    ASSUME NEW c \in Command, NEW i \in 1 .. AddrSpace, NEW j \in 1 .. AddrSpace, i # j
    PROVE  CellOf(c, i) # CellOf(c, j)
  <1> DEFINE a == c.addr + i - 1
             b == c.addr + j - 1
  <1>1. /\ a \in Int /\ b \in Int
        /\ (a < b /\ b < a + AddrSpace) \/ (b < a /\ a < b + AddrSpace)
    BY AddrSpaceNat DEF Command
  <1> HIDE DEF a, b
  <1>2. a % AddrSpace # b % AddrSpace
    <2>1. CASE a < b /\ b < a + AddrSpace
      BY <1>1, <2>1, AddrSpaceNat, ModApart
    <2>2. CASE b < a /\ a < b + AddrSpace
      <3>1. b % AddrSpace # a % AddrSpace
        BY <1>1, <2>2, AddrSpaceNat, ModApart
      <3> QED
        BY <3>1
    <2> QED
      BY <1>1, <2>1, <2>2
  <1> QED
    BY <1>2, Zenon DEF CellOf, BusAddr, a, b

\* The address of iteration n.
LEMMA CellNext ==
    ASSUME NEW c \in Command, NEW n \in Nat
    PROVE  c.addr + n \in Nat /\ BusAddr(c.addr + n) = CellOf(c, n + 1)
  BY DEF Command, CellOf

LEMMA IterationOne ==
    ASSUME NEW c \in Command, NEW n \in Nat, n < Iterations(c),
           c.kind \notin {"write", "read", "flash"}
    PROVE  n = 0
  BY DEF Iterations

\* Commands other than these leave the chips' cells alone.
LEMMA KeptCells ==
    ASSUME NEW c \in Command, NEW r, NEW f, MemOK(r, f)
    PROVE  /\ c.kind \notin {"flash", "erase_chip", "erase_sector"} => WantFlash(c, f) = f
           /\ c.kind = "erase_sector" /\ IsRam(c.addr) => WantFlash(c, f) = f
           /\ c.kind = "erase_sector" /\ ~IsRam(c.addr) =>
                 WantFlash(c, f) = SectorErased(f, BusAddr(c.addr))
           /\ c.kind = "erase_chip" => WantFlash(c, f) = AllErased(f)
  <1>1. f = [a \in DOMAIN f |-> f[a]]
    BY DEF MemOK
  <1>2. CASE c.kind \notin {"flash", "erase_chip", "erase_sector"}
    <2>1. WantFlash(c, f) = [a \in DOMAIN f |-> f[a]]
      BY <1>2 DEF WantFlash
    <2> QED
      BY <1>1, <1>2, <2>1
  <1>3. CASE c.kind = "erase_sector"
    <2>1. IsRam(c.addr) => WantFlash(c, f) = [a \in DOMAIN f |-> f[a]]
      BY <1>3 DEF WantFlash, IsFlash
    <2>2. ~IsRam(c.addr) => WantFlash(c, f) = SectorErased(f, BusAddr(c.addr))
      BY <1>3 DEF WantFlash, IsFlash, SectorErased
    <2> QED
      BY <1>1, <1>3, <2>1, <2>2
  <1>4. CASE c.kind = "erase_chip"
    <2>1. WantFlash(c, f) = AllErased(f)
      BY <1>4 DEF WantFlash, AllErased
    <2> QED
      BY <1>4, <2>1
  <1>5. CASE c.kind = "flash"
    BY <1>5
  <1> QED
    BY <1>2, <1>3, <1>4, <1>5

\* What a command that does not write to RAM leaves there, and what the flash
\* chip is under one that does not program it.
LEMMA DoneKept ==
    ASSUME NEW c \in Command, NEW n \in Nat, NEW r, NEW f, MemOK(r, f), NEW m
    PROVE  /\ c.kind # "write" => (RamDone(c, n, r, m) <=> m = r)
           /\ c.kind \in {"write", "read", "flash_id"} => (FlashDone(c, n, f, m) <=> m = f)
  <1>1. r = [a \in DOMAIN r |-> r[a]]
    BY DEF MemOK
  <1>2. ASSUME c.kind # "write", RamDone(c, n, r, m)
        PROVE  m = r
    BY <1>1, <1>2 DEF RamDone
  <1>3. ASSUME c.kind # "write", m = r
        PROVE  RamDone(c, n, r, m)
    BY <1>1, <1>3 DEF RamDone
  <1>4. c.kind \in {"write", "read", "flash_id"} => (FlashDone(c, n, f, m) <=> m = f)
    BY KeptCells DEF FlashDone
  <1> QED
    BY <1>2, <1>3, <1>4

LEMMA WriteBody ==
    ASSUME NEW c \in Command, c.kind = "write", Len(c.data) <= AddrSpace,
           NEW n \in Nat, n < Iterations(c), NEW r, NEW f, MemOK(r, f),
           NEW s, ReadyFor(c, s), Done(c, n, r, f, s)
    PROVE  \E u : /\ Leads(s, Body(c, n), u) /\ ReadyFor(c, u)
                  /\ Done(c, n + 1, r, f, u)
  <1> DEFINE a == c.addr + n
             b == c.data[n + 1]
  <1>1. /\ a \in Nat /\ b \in Byte /\ BusAddr(a) = CellOf(c, n + 1)
        /\ n + 1 \in 1 .. AddrSpace /\ n + 1 <= Len(c.data) /\ Len(c.data) \in Nat
    <2>1. n < Len(c.data) /\ c.data \in Seq(Byte) /\ Len(c.data) \in Nat
      BY DEF Iterations, Command
    <2>2. b \in Byte /\ n + 1 <= Len(c.data)
      BY <2>1
    <2>3. n + 1 \in 1 .. AddrSpace
      BY <2>1, AddrSpaceNat
    <2> QED
      BY <2>1, <2>2, <2>3, CellNext
  <1>2. WriteReady(s)
    BY DEF ReadyFor
  <1> HIDE DEF a, b
  <1>3. PICK u : /\ Leads(s, BusWrite(a, b) \o PulseRamWrite, u) /\ WriteReady(u)
                 /\ u.flash = s.flash /\ u.samples = s.samples
                 /\ u.ram = IF IsRam(a)
                            THEN [x \in DOMAIN s.ram |-> IF x = BusAddr(a) THEN b ELSE s.ram[x]]
                            ELSE s.ram
    BY <1>1, <1>2, RamWriteLeads
  <1>4. Body(c, n) = BusWrite(a, b) \o PulseRamWrite
    BY DEF Body, a, b
  <1>5. RamDone(c, n + 1, r, u.ram)
    <2>1. /\ DOMAIN s.ram = DOMAIN r /\ s.ram = [x \in DOMAIN r |-> s.ram[x]]
          /\ \A x \in DOMAIN r :
               /\ \A i \in 1 .. n : CellOf(c, i) = x => s.ram[x] = c.data[i]
               /\ (\A i \in 1 .. n : CellOf(c, i) # x) => s.ram[x] = r[x]
      BY DEF Done, RamDone
    <2>2. \A x \in DOMAIN r : u.ram[x] = IF x = CellOf(c, n + 1) THEN b ELSE s.ram[x]
      <3>1. \A x \in DOMAIN r : IsRam(x)
        BY DEF MemOK
      <3>2. IsRam(a) \/ \A x \in DOMAIN r : x # CellOf(c, n + 1)
        BY <1>1, <3>1, Selects
      <3> QED
        BY <1>1, <1>3, <2>1, <3>2
    <2>3. u.ram = [x \in DOMAIN r |-> u.ram[x]]
      <3>1. CASE IsRam(a)
        <4>1. u.ram = [x \in DOMAIN r |-> IF x = BusAddr(a) THEN b ELSE s.ram[x]]
          BY <1>3, <2>1, <3>1
        <4> QED
          BY <4>1
      <3>2. CASE ~IsRam(a)
        BY <1>3, <2>1, <3>2
      <3> QED
        BY <3>1, <3>2
    <2>4. ASSUME NEW x \in DOMAIN r, NEW i \in 1 .. n + 1, CellOf(c, i) = x
          PROVE  u.ram[x] = c.data[i]
      <3>1. CASE i = n + 1
        BY <2>2, <2>4, <3>1 DEF b
      <3>2. CASE i \in 1 .. n
        <4>1. CellOf(c, i) # CellOf(c, n + 1)
          <5>1. i \in 1 .. AddrSpace /\ i # n + 1
            BY <1>1, <3>2, AddrSpaceNat
          <5> QED
            BY <1>1, <5>1, CellsDiffer
        <4> QED
          BY <2>1, <2>2, <2>4, <3>2, <4>1
      <3> QED
        BY <3>1, <3>2
    <2>5. ASSUME NEW x \in DOMAIN r, \A i \in 1 .. n + 1 : CellOf(c, i) # x
          PROVE  u.ram[x] = r[x]
      <3>1. x # CellOf(c, n + 1) /\ \A i \in 1 .. n : CellOf(c, i) # x
        BY <2>5
      <3> QED
        BY <2>1, <2>2, <3>1
    <2> QED
      BY <2>3, <2>4, <2>5 DEF RamDone
  <1>6. FlashDone(c, n + 1, f, u.flash.mem) /\ u.flash = Chip(u.flash.mem)
    BY <1>3, DoneKept DEF Done
  <1>7. SamplesDone(c, n + 1, r, f, u.samples)
    BY <1>3 DEF Done, SamplesDone
  <1> QED
    BY <1>3, <1>4, <1>5, <1>6, <1>7 DEF Done, ReadyFor

\* One more sample.
LEMMA AppendCell ==
    ASSUME NEW n \in Nat, NEW c, NEW r, NEW f
    PROVE  Append([i \in 1 .. n |-> ReadCell(c, i, r, f)], ReadCell(c, n + 1, r, f))
             = [i \in 1 .. n + 1 |-> ReadCell(c, i, r, f)]
  <1> DEFINE F(i) == ReadCell(c, i, r, f)
             S == {F(i) : i \in 1 .. n + 1}
             x == [i \in 1 .. n |-> F(i)]
             y == [i \in 1 .. n + 1 |-> F(i)]
  <1> HIDE DEF F
  <1>1. x \in Seq(S) /\ Len(x) = n /\ y \in Seq(S) /\ Len(y) = n + 1 /\ F(n + 1) \in S
    OBVIOUS
  <1>2. \A i \in 1 .. n : x[i] = y[i]
    OBVIOUS
  <1>3. y[n + 1] = F(n + 1)
    OBVIOUS
  <1> HIDE DEF x, y, S
  <1>4. /\ Append(x, F(n + 1)) \in Seq(S) /\ Len(Append(x, F(n + 1))) = n + 1
        /\ \A i \in 1 .. n : Append(x, F(n + 1))[i] = x[i]
        /\ Append(x, F(n + 1))[n + 1] = F(n + 1)
    BY <1>1, AppendProperties
  <1>5. \A i \in 1 .. n + 1 : Append(x, F(n + 1))[i] = y[i]
    BY <1>2, <1>3, <1>4
  <1>6. Append(x, F(n + 1)) = y
    BY <1>1, <1>4, <1>5, SeqEqual
  <1> QED
    BY <1>6, Zenon DEF x, y, F

LEMMA ReadBody ==
    ASSUME NEW c \in Command, c.kind = "read",
           NEW n \in Nat, n < Iterations(c), NEW r, NEW f, MemOK(r, f),
           NEW s, ReadyFor(c, s), Done(c, n, r, f, s)
    PROVE  \E u : /\ Leads(s, Body(c, n), u) /\ ReadyFor(c, u)
                  /\ Done(c, n + 1, r, f, u)
  <1> DEFINE a == c.addr + n
  <1>1. a \in Nat /\ BusAddr(a) = CellOf(c, n + 1)
    BY CellNext
  <1>2. ReadReady(s)
    BY DEF ReadyFor
  <1>3. s.ram = r /\ s.flash = Chip(f)
    BY DoneKept DEF Done
  <1> HIDE DEF a
  <1>4. PICK u : /\ Leads(s, BusRead(a), u) /\ ReadReady(u)
                 /\ u.ram = s.ram /\ u.flash = s.flash
                 /\ u.samples = Append(s.samples, IF IsRam(a) THEN s.ram[BusAddr(a)]
                                                  ELSE ReadCycle(s.flash, BusAddr(a)))
    BY <1>1, <1>2, BusReadLeads
  <1>5. Body(c, n) = BusRead(a)
    BY DEF Body, a
  <1>6. RamDone(c, n + 1, r, u.ram)
    <2>1. n + 1 \in Nat /\ c.kind # "write"
      OBVIOUS
    <2>2. RamDone(c, n + 1, r, r)
      BY <2>1, DoneKept, Zenon
    <2>3. u.ram = r
      BY <1>3, <1>4
    <2> QED
      BY <2>2, <2>3
  <1>7. FlashDone(c, n + 1, f, u.flash.mem) /\ u.flash = Chip(u.flash.mem)
    <2>1. Chip(f).mem = f
      BY DEF Chip
    <2>2. n + 1 \in Nat /\ c.kind \in {"write", "read", "flash_id"}
      OBVIOUS
    <2>3. FlashDone(c, n + 1, f, f)
      BY <2>2, DoneKept, Zenon
    <2>4. u.flash = Chip(f)
      BY <1>3, <1>4
    <2> QED
      BY <2>1, <2>3, <2>4
  <1>8. SamplesDone(c, n + 1, r, f, u.samples)
    <2>1. ReadCycle(Chip(f), BusAddr(a)) = f[BusAddr(a)]
      BY DEF ReadCycle, Chip
    <2>2. u.samples = Append(s.samples, ReadCell(c, n + 1, r, f))
      BY <1>1, <1>3, <1>4, <2>1, Selects DEF ReadCell
    <2>3. s.samples = [i \in 1 .. n |-> ReadCell(c, i, r, f)]
      BY DEF Done, SamplesDone
    <2>4. u.samples = [i \in 1 .. n + 1 |-> ReadCell(c, i, r, f)]
      BY <2>2, <2>3, AppendCell
    <2> QED
      BY <2>4 DEF SamplesDone
  <1> QED
    BY <1>4, <1>5, <1>6, <1>7, <1>8 DEF Done, ReadyFor

LEMMA FlashBody ==
    ASSUME NEW c \in Command, c.kind = "flash", Len(c.data) <= AddrSpace,
           NEW n \in Nat, n < Iterations(c), NEW r, NEW f, MemOK(r, f),
           NEW s, ReadyFor(c, s), Done(c, n, r, f, s)
    PROVE  \E u : /\ Leads(s, Body(c, n), u) /\ ReadyFor(c, u)
                  /\ Done(c, n + 1, r, f, u)
  <1> DEFINE a == c.addr + n
             b == c.data[n + 1]
             m == s.flash.mem
  <1>1. /\ a \in Nat /\ b \in Byte /\ BusAddr(a) = CellOf(c, n + 1)
        /\ n + 1 \in 1 .. AddrSpace /\ n + 1 <= Len(c.data) /\ Len(c.data) \in Nat
    <2>1. n < Len(c.data) /\ c.data \in Seq(Byte) /\ Len(c.data) \in Nat
      BY DEF Iterations, Command
    <2>2. b \in Byte /\ n + 1 <= Len(c.data)
      BY <2>1
    <2>3. n + 1 \in 1 .. AddrSpace
      BY <2>1, AddrSpaceNat
    <2> QED
      BY <2>1, <2>2, <2>3, CellNext
  <1>2. /\ Ready(s) /\ s.ram = r /\ s.flash = Chip(m) /\ s.samples = <<>>
        /\ FlashDone(c, n, f, m)
    BY DoneKept DEF ReadyFor, Done, SamplesDone
  <1>3. Body(c, n) = FlashByteProgram(a, b)
    BY DEF Body
  <1>4. \A x \in DOMAIN f : ~IsRam(x)
    BY DEF MemOK, IsFlash
  <1>5. /\ DOMAIN m = DOMAIN f /\ m = [x \in DOMAIN f |-> m[x]]
        /\ \A x \in DOMAIN f :
             /\ \A i \in 1 .. n : CellOf(c, i) = x => m[x] = f[x] \cap c.data[i]
             /\ (\A i \in 1 .. n : CellOf(c, i) # x) => m[x] = f[x]
    BY <1>2 DEF FlashDone
  <1> HIDE DEF a, m
  <1>6. ASSUME NEW k, k = [x \in DOMAIN f |-> k[x]],
               \A x \in DOMAIN f : k[x] = IF x = CellOf(c, n + 1) THEN m[x] \cap b ELSE m[x]
        PROVE  FlashDone(c, n + 1, f, k)
    <2>1. ASSUME NEW x \in DOMAIN f, NEW i \in 1 .. n + 1, CellOf(c, i) = x
          PROVE  k[x] = f[x] \cap c.data[i]
      <3>1. CASE i = n + 1
        <4>1. \A j \in 1 .. n : CellOf(c, j) # CellOf(c, n + 1)
          <5> TAKE j \in 1 .. n
          <5>1. j \in 1 .. AddrSpace /\ j # n + 1
            BY <1>1, AddrSpaceNat
          <5> QED
            BY <1>1, <5>1, CellsDiffer
        <4>2. m[x] = f[x]
          BY <1>5, <2>1, <3>1, <4>1
        <4> QED
          BY <1>6, <2>1, <3>1, <4>2
      <3>2. CASE i \in 1 .. n
        <4>1. CellOf(c, i) # CellOf(c, n + 1)
          <5>1. i \in 1 .. AddrSpace /\ i # n + 1
            BY <1>1, <3>2, AddrSpaceNat
          <5> QED
            BY <1>1, <5>1, CellsDiffer
        <4> QED
          BY <1>5, <1>6, <2>1, <3>2, <4>1
      <3> QED
        BY <3>1, <3>2
    <2>2. ASSUME NEW x \in DOMAIN f, \A i \in 1 .. n + 1 : CellOf(c, i) # x
          PROVE  k[x] = f[x]
      <3>1. x # CellOf(c, n + 1) /\ \A i \in 1 .. n : CellOf(c, i) # x
        BY <2>2
      <3> QED
        BY <1>5, <1>6, <3>1
    <2> QED
      BY <1>6, <2>1, <2>2 DEF FlashDone
  <1>7. \A k : Chip(k).mem = k
    BY DEF Chip
  <1>10. RamDone(c, n + 1, r, r)
    <2>1. n + 1 \in Nat /\ c.kind # "write"
      OBVIOUS
    <2> QED
      BY <2>1, DoneKept, Zenon
  <1>8. CASE IsRam(a)
    <2>1. \A x \in DOMAIN f : x # CellOf(c, n + 1)
      BY <1>1, <1>4, <1>8, Selects
    <2>2. FlashDone(c, n + 1, f, m)
      BY <1>5, <1>6, <2>1
    <2>3. Leads(s, Body(c, n), s)
      BY <1>3, <1>8, LeadsNowhere DEF FlashByteProgram
    <2>4. Done(c, n + 1, r, f, s)
      <3>1. s.flash.mem = m
        BY <1>2, <1>7
      <3>2. SamplesDone(c, n + 1, r, f, s.samples)
        BY <1>2 DEF SamplesDone
      <3> QED
        BY <1>2, <1>10, <2>2, <3>1, <3>2 DEF Done
    <2> QED
      BY <2>3, <2>4
  <1>9. CASE ~IsRam(a)
    <2> DEFINE k == Programmed(m, BusAddr(a), b)
    <2>1. PICK u : /\ Leads(s, FlashByteProgram(a, b), u) /\ WriteReady(u)
                   /\ u.ram = s.ram /\ u.flash = Chip(k) /\ u.samples = s.samples
      <3>1. Reaches(s, FlashByteProgram(a, b), "out", Chip(k), s.samples)
        BY <1>1, <1>2, <1>9, ProgramLeads
      <3> QED
        BY <3>1 DEF Reaches
    <2>2. /\ k = [x \in DOMAIN f |-> k[x]]
          /\ \A x \in DOMAIN f : k[x] = IF x = CellOf(c, n + 1) THEN m[x] \cap b ELSE m[x]
      BY <1>1, <1>5 DEF Programmed
    <2> HIDE DEF k
    <2>3. FlashDone(c, n + 1, f, k)
      BY <1>6, <2>2
    <2>4. Done(c, n + 1, r, f, u)
      <3>1. u.flash.mem = k
        BY <1>7, <2>1
      <3>2. SamplesDone(c, n + 1, r, f, u.samples)
        BY <1>2, <2>1 DEF SamplesDone
      <3> QED
        BY <1>2, <1>10, <2>1, <2>3, <3>1, <3>2 DEF Done
    <2> QED
      BY <1>3, <2>1, <2>4 DEF ReadyFor, WriteReady
  <1> QED
    BY <1>8, <1>9

\* The commands without a loop.
LEMMA OnceBody ==
    ASSUME NEW c \in Command, c.kind \notin {"write", "read", "flash"},
           NEW n \in Nat, n < Iterations(c), NEW r, NEW f, MemOK(r, f),
           NEW s, ReadyFor(c, s), Done(c, n, r, f, s)
    PROVE  \E u : /\ Leads(s, Body(c, n), u) /\ ReadyFor(c, u)
                  /\ Done(c, n + 1, r, f, u)
  <1>1. n = 0 /\ n + 1 = 1
    BY IterationOne
  <1>2. /\ Ready(s) /\ s.ram = r /\ s.flash = Chip(f) /\ s.samples = <<>>
    <2>1. Ready(s)
      BY DEF ReadyFor
    <2>2. s.ram = r
      BY DoneKept DEF Done
    <2>3. s.flash = Chip(f) /\ s.samples = <<>>
      BY <1>1 DEF Done, FlashDone, SamplesDone
    <2> QED
      BY <2>1, <2>2, <2>3
  <1>3. c.addr \in Nat /\ c.kind \in {"flash_id", "erase_sector", "erase_chip"}
    BY DEF Command, Kinds
  <1>4. ASSUME NEW u, Ready(u), u.ram = r, u.flash = Chip(WantFlash(c, f)),
               u.samples = IF c.kind = "flash_id" THEN <<MfgId, DevId>> ELSE <<>>
        PROVE  ReadyFor(c, u) /\ Done(c, n + 1, r, f, u)
    <2>1. RamDone(c, n + 1, r, u.ram)
      <3>1. n + 1 \in Nat /\ c.kind # "write"
        OBVIOUS
      <3>2. RamDone(c, n + 1, r, r)
        BY <3>1, DoneKept, Zenon
      <3> QED
        BY <1>4, <3>2
    <2>2. u.flash.mem = WantFlash(c, f)
      BY <1>4 DEF Chip
    <2>3. FlashDone(c, n + 1, f, u.flash.mem)
      BY <1>1, <2>2 DEF FlashDone
    <2>4. SamplesDone(c, n + 1, r, f, u.samples)
      BY <1>1, <1>4 DEF SamplesDone
    <2>5. ReadyFor(c, u)
      BY <1>4 DEF ReadyFor
    <2> QED
      BY <1>4, <2>1, <2>2, <2>3, <2>4, <2>5 DEF Done
  <1>5. ASSUME NEW ops, Reaches(s, ops, "out", Chip(WantFlash(c, f)),
                                IF c.kind = "flash_id" THEN <<MfgId, DevId>> ELSE <<>>)
        PROVE  \E u : /\ Leads(s, ops, u) /\ ReadyFor(c, u)
                      /\ Done(c, n + 1, r, f, u)
    <2>1. PICK u : /\ Leads(s, ops, u) /\ WriteReady(u) /\ u.ram = r
                   /\ u.flash = Chip(WantFlash(c, f))
                   /\ u.samples = IF c.kind = "flash_id" THEN <<MfgId, DevId>> ELSE <<>>
      BY <1>2, <1>5 DEF Reaches
    <2>2. Ready(u)
      BY <2>1 DEF WriteReady
    <2> QED
      BY <1>4, <2>1, <2>2
  <1>6. CASE c.kind = "flash_id"
    <2>1. Body(c, n) = FlashSoftwareId
      BY <1>6 DEF Body
    <2>2. WantFlash(c, f) = f
      BY <1>6, KeptCells
    <2>3. Reaches(s, FlashSoftwareId, "out", Chip(f), <<MfgId, DevId>>)
      BY <1>2, IdLeads
    <2> QED
      BY <1>5, <1>6, <2>1, <2>2, <2>3
  <1>7. CASE c.kind = "erase_sector" /\ IsRam(c.addr)
    <2>1. Body(c, n) = <<>>
      BY <1>7 DEF Body, FlashEraseSector
    <2>2. WantFlash(c, f) = f
      BY <1>7, KeptCells
    <2>3. Leads(s, Body(c, n), s)
      BY <2>1, LeadsNowhere
    <2> QED
      BY <1>2, <1>4, <1>7, <2>2, <2>3
  <1>8. CASE c.kind = "erase_sector" /\ ~IsRam(c.addr)
    <2>1. Body(c, n) = FlashEraseSector(c.addr)
      BY <1>8 DEF Body
    <2>2. WantFlash(c, f) = SectorErased(f, BusAddr(c.addr))
      BY <1>8, KeptCells
    <2>3. Reaches(s, FlashEraseSector(c.addr), "out",
                  Chip(SectorErased(f, BusAddr(c.addr))), <<>>)
      BY <1>2, <1>3, <1>8, EraseLeads
    <2> QED
      BY <1>5, <1>8, <2>1, <2>2, <2>3
  <1>9. CASE c.kind = "erase_chip"
    <2>1. Body(c, n) = FlashEraseChip
      BY <1>9 DEF Body
    <2>2. WantFlash(c, f) = AllErased(f)
      BY <1>9, KeptCells
    <2>3. Reaches(s, FlashEraseChip, "out", Chip(AllErased(f)), <<>>)
      BY <1>2, <1>3, EraseLeads
    <2> QED
      BY <1>5, <1>9, <2>1, <2>2, <2>3
  <1> QED
    BY <1>3, <1>6, <1>7, <1>8, <1>9

LEMMA BodyLeads ==
    ASSUME NEW c \in Command, Len(c.data) <= AddrSpace,
           NEW n \in Nat, n < Iterations(c), NEW r, NEW f, MemOK(r, f),
           NEW s, ReadyFor(c, s), Done(c, n, r, f, s)
    PROVE  \E u : /\ Leads(s, Body(c, n), u) /\ ReadyFor(c, u)
                  /\ Done(c, n + 1, r, f, u)
  <1>1. CASE c.kind = "write"
    BY <1>1, WriteBody
  <1>2. CASE c.kind = "read"
    BY <1>2, ReadBody
  <1>3. CASE c.kind = "flash"
    BY <1>3, FlashBody
  <1>4. CASE c.kind \notin {"write", "read", "flash"}
    BY <1>4, OnceBody
  <1> QED
    BY <1>1, <1>2, <1>3, <1>4

-----------------------------------------------------------------------------
(***************************************************************************)
(* The invariant, action by action.                                        *)
(***************************************************************************)

\* A chip with the cells of m.
IsChip(g, m) == /\ g = Decoder(g.mem, g.step, g.id)
                /\ DOMAIN g.mem = DOMAIN m /\ g.mem = [c \in DOMAIN m |-> g.mem[c]]

\* Whatever the write cycle, the chip stays a chip with the same cells.
LEMMA CycleKeepsChip ==
    ASSUME NEW m, m = [c \in DOMAIN m |-> m[c]], NEW s, NEW i, NEW a, NEW b
    PROVE  IsChip(WriteCycle(Decoder(m, s, i), a, b), m)
  <1> DEFINE chip == Decoder(m, s, i)
  <1>1. ASSUME NEW k, DOMAIN k = DOMAIN m, k = [c \in DOMAIN m |-> k[c]], NEW t, NEW j
        PROVE  IsChip(Decoder(k, t, j), m)
    BY <1>1 DEF Decoder, IsChip
  <1>2. ASSUME NEW t
        PROVE  To(chip, t) = Decoder(m, t, i)
    <2>1. [[mem |-> m, step |-> s, id |-> i] EXCEPT !.step = t]
            = [mem |-> m, step |-> t, id |-> i]
      OBVIOUS
    <2> QED
      BY <2>1 DEF Decoder, To
  <1>3. ASSUME NEW j
        PROVE  [chip EXCEPT !.step = "read", !.id = j] = Decoder(m, "read", j)
    <2>1. [[mem |-> m, step |-> s, id |-> i] EXCEPT !.step = "read"]
            = [mem |-> m, step |-> "read", id |-> i]
      OBVIOUS
    <2>2. [[mem |-> m, step |-> "read", id |-> i] EXCEPT !.id = j]
            = [mem |-> m, step |-> "read", id |-> j]
      OBVIOUS
    <2> QED
      BY <2>1, <2>2 DEF Decoder
  <1>4. ASSUME NEW k
        PROVE  [chip EXCEPT !.step = "read", !.mem = k] = Decoder(k, "read", i)
    <2>1. [[mem |-> m, step |-> s, id |-> i] EXCEPT !.step = "read"]
            = [mem |-> m, step |-> "read", id |-> i]
      OBVIOUS
    <2>2. [[mem |-> m, step |-> "read", id |-> i] EXCEPT !.mem = k]
            = [mem |-> k, step |-> "read", id |-> i]
      OBVIOUS
    <2> QED
      BY <2>1, <2>2 DEF Decoder
  <1>5. chip.mem = m
    BY DEF Decoder
  <1> HIDE DEF chip
  <1>6. \A t : IsChip(To(chip, t), m)
    BY <1>1, <1>2
  <1>7. ASSUME NEW j
        PROVE  IsChip([chip EXCEPT !.step = "read", !.id = j], m)
    <2>1. IsChip(Decoder(m, "read", j), m)
      BY <1>1
    <2>2. [chip EXCEPT !.step = "read", !.id = j] = Decoder(m, "read", j)
      BY <1>3, Zenon
    <2> QED
      BY <2>1, <2>2, Zenon
  <1>8. ASSUME NEW cells
        PROVE  IsChip(EraseCells(chip, cells), m)
    <2> DEFINE k == [c \in DOMAIN m |-> IF c \in cells THEN Erased ELSE m[c]]
    <2>1. EraseCells(chip, cells) = [chip EXCEPT !.step = "read", !.mem = k]
      BY <1>5 DEF EraseCells
    <2>2. DOMAIN k = DOMAIN m /\ k = [c \in DOMAIN m |-> k[c]]
      OBVIOUS
    <2> HIDE DEF k
    <2>3. [chip EXCEPT !.step = "read", !.mem = k] = Decoder(k, "read", i)
      BY <1>4, Zenon
    <2>4. IsChip(Decoder(k, "read", i), m)
      BY <1>1, <2>2
    <2> QED
      BY <2>1, <2>3, <2>4, Zenon
  <1>9. IsChip([chip EXCEPT !.step = "read",
                            !.mem = [c \in DOMAIN chip.mem |->
                                       IF c = a THEN chip.mem[c] \cap b ELSE chip.mem[c]]], m)
    <2> DEFINE k == [c \in DOMAIN m |-> IF c = a THEN m[c] \cap b ELSE m[c]]
    <2>1. k = [c \in DOMAIN chip.mem |-> IF c = a THEN chip.mem[c] \cap b ELSE chip.mem[c]]
      BY <1>5
    <2>2. DOMAIN k = DOMAIN m /\ k = [c \in DOMAIN m |-> k[c]]
      OBVIOUS
    <2> HIDE DEF k
    <2>3. IsChip([chip EXCEPT !.step = "read", !.mem = k], m)
      <3>1. [chip EXCEPT !.step = "read", !.mem = k] = Decoder(k, "read", i)
        BY <1>4, Zenon
      <3>2. IsChip(Decoder(k, "read", i), m)
        BY <1>1, <2>2
      <3> QED
        BY <3>1, <3>2, Zenon
    <2> QED
      BY <2>1, <2>3, Zenon
  <1>10. IsChip(WriteCycle(chip, a, b), m)
    BY <1>6, <1>7, <1>8, <1>9 DEF WriteCycle
  <1> QED
    BY <1>10 DEF chip

LEMMA NowStep ==
    ASSUME MicroStep
    PROVE  Now' = After(Now, Head(todo))
  <1>1. BusOf(Now) = DataBus
    BY DEF BusOf, DataBus, Now, State
  <1> QED
    BY <1>1 DEF MicroStep, Now, After, State

\* An access of the release leaves the strobes at rest.
LEMMA CalmStays ==
    ASSUME NEW s, s.ddr \in Dirs, s.port \in Levels, Calm(s), NEW o \in MicroOps, CalmOp(o)
    PROVE  Calm(After(s, o)) /\ SameChips(s, After(s, o))
  <1> DEFINE d == IF o.reg = "ddr" THEN Apply(s.ddr, o) ELSE s.ddr
             p == IF o.reg = "port" THEN Apply(s.port, o) ELSE s.port
  <1>1. After(s, o).ddr = d /\ After(s, o).port = p
    BY DEF After, State
  <1>2. ASSUME o.reg = "ddr" PROVE Calm(After(s, o))
    <2>1. o.pin \in Pins /\ o.val = "in"
      BY <1>2 DEF CalmOp, MicroOps, Sample
    <2>3. d.ramWe = s.ddr.ramWe \/ d.ramWe = "in"
      BY <1>2, <2>1 DEF Apply, Dirs, Pins
    <2>4. d.flashWe = s.ddr.flashWe \/ d.flashWe = "in"
      BY <1>2, <2>1 DEF Apply, Dirs, Pins
    <2> HIDE DEF d
    <2> QED
      BY <1>1, <1>2, <2>3, <2>4 DEF Calm
  <1>3. ASSUME o.reg = "port" PROVE Calm(After(s, o))
    <2>1. \/ o.pin = "data" /\ o.val \in Byte
          \/ o.pin = "addr" /\ o.val \in Nat
          \/ o.pin = "ramWe" /\ o.val = 1
          \/ o.pin = "memOe" /\ o.val \in {0, 1}
      BY <1>3 DEF CalmOp, MicroOps, Sample
    <2>2. p.ramWe = s.port.ramWe \/ p.ramWe = 1
      BY <1>3, <2>1 DEF Apply, Levels
    <2>3. p.flashWe = s.port.flashWe \/ p.flashWe = 0
      BY <1>3, <2>1 DEF Apply, Levels
    <2> HIDE DEF p
    <2> QED
      BY <1>1, <1>3, <2>2, <2>3 DEF Calm
  <1>4. Calm(After(s, o))
    BY <1>2, <1>3 DEF CalmOp
  <1>5. After(s, o).samples = s.samples
    BY DEF After, State, CalmOp, Sample
  <1> QED
    BY <1>4, <1>5, AfterCalm DEF SameChips

LEMMA ReleaseCalm == \A j \in 1 .. Len(ReleaseSteps) : CalmOp(ReleaseSteps[j])
  <1>1. Len(ReleaseSteps) = 10
    BY DEF ReleaseSteps
  <1>2. /\ CalmOp(ReleaseSteps[1]) /\ CalmOp(ReleaseSteps[3]) /\ CalmOp(ReleaseSteps[5])
        /\ CalmOp(ReleaseSteps[7]) /\ CalmOp(ReleaseSteps[9])
    BY DEF ReleaseSteps, CalmOp, Port
  <1>3. /\ CalmOp(ReleaseSteps[2]) /\ CalmOp(ReleaseSteps[4]) /\ CalmOp(ReleaseSteps[6])
        /\ CalmOp(ReleaseSteps[8]) /\ CalmOp(ReleaseSteps[10])
    BY DEF ReleaseSteps, CalmOp, Ddr
  <1> QED
    BY <1>1, <1>2, <1>3

LEMMA AfterKeepsCells ==
    ASSUME NEW s, s.flash = Decoder(s.flash.mem, s.flash.step, s.flash.id),
           MemOK(s.ram, s.flash.mem), NEW o
    PROVE  LET t == After(s, o)
           IN /\ t.flash = Decoder(t.flash.mem, t.flash.step, t.flash.id)
              /\ MemOK(t.ram, t.flash.mem)
  <1> DEFINE t == After(s, o)
             d == IF o.reg = "ddr" THEN Apply(s.ddr, o) ELSE s.ddr
             p == IF o.reg = "port" THEN Apply(s.port, o) ELSE s.port
             byte == IF d.data = "out" THEN p.data ELSE {}
  <1>1. t.flash = s.flash \/ t.flash = WriteCycle(s.flash, p.addr, byte)
    BY DEF After, State
  <1>2. \/ t.ram = s.ram
        \/ t.ram = [a \in DOMAIN s.ram |-> IF a = p.addr THEN byte ELSE s.ram[a]]
    BY DEF After, State
  <1> HIDE DEF t, p, byte
  <1>3. IsChip(t.flash, s.flash.mem)
    <2>1. s.flash.mem = [c \in DOMAIN s.flash.mem |-> s.flash.mem[c]]
      BY DEF MemOK
    <2>2. IsChip(s.flash, s.flash.mem)
      BY <2>1 DEF IsChip
    <2>3. IsChip(WriteCycle(s.flash, p.addr, byte), s.flash.mem)
      BY <2>1, CycleKeepsChip
    <2> QED
      BY <1>1, <2>2, <2>3
  <1>4. DOMAIN t.ram = DOMAIN s.ram /\ t.ram = [a \in DOMAIN s.ram |-> t.ram[a]]
    <2>1. s.ram = [a \in DOMAIN s.ram |-> s.ram[a]]
      BY DEF MemOK
    <2> DEFINE k == [a \in DOMAIN s.ram |-> IF a = p.addr THEN byte ELSE s.ram[a]]
    <2>2. DOMAIN k = DOMAIN s.ram /\ k = [a \in DOMAIN s.ram |-> k[a]]
      OBVIOUS
    <2>3. t.ram = s.ram \/ t.ram = k
      BY <1>2
    <2> HIDE DEF k
    <2> QED
      BY <2>1, <2>2, <2>3
  <1>5. MemOK(t.ram, t.flash.mem)
    BY <1>3, <1>4 DEF MemOK, IsChip
  <1> QED
    BY <1>3, <1>5 DEF IsChip, t

LEMMA EffectInit == Init => RestInv /\ SetupInv /\ HeldInv /\ LeaveInv /\ DrainInv
  <1> SUFFICES ASSUME Init
               PROVE  RestInv /\ SetupInv /\ HeldInv /\ LeaveInv /\ DrainInv
    OBVIOUS
  <1> DEFINE m == [a \in {x \in MemAddr : IsFlash(x)} |-> InitByte]
  <1>1. flash = Chip(m) /\ m = [a \in DOMAIN m |-> m[a]] /\ \A a \in DOMAIN m : IsFlash(a)
    BY DEF Init
  <1>2. ram = [a \in DOMAIN ram |-> ram[a]] /\ \A a \in DOMAIN ram : IsRam(a)
    BY DEF Init
  <1> HIDE DEF m
  <1>3. flash.mem = m /\ flash = [mem |-> flash.mem, step |-> flash.step, id |-> flash.id]
    BY <1>1 DEF Chip
  <1>4. MemOK(ram, flash.mem)
    BY <1>1, <1>2, <1>3 DEF MemOK
  <1>5. before[1] = ram /\ before[2] = flash.mem
    BY DEF Init
  <1>6. cmd.data = <<>> /\ phase = "idle"
    BY DEF Init
  <1>7. Len(cmd.data) <= AddrSpace
    BY <1>6, AddrSpaceNat
  <1>8. flash = Chip(flash.mem)
    BY <1>1, <1>3
  <1>9. RestInv
    BY <1>3, <1>4, <1>5, <1>6, <1>7, <1>8 DEF RestInv
  <1> QED
    BY <1>6, <1>9 DEF SetupInv, HeldInv, LeaveInv, DrainInv

LEMMA EffectMicroStep ==
    ASSUME EffectInv, MicroStep
    PROVE  RestInv' /\ SetupInv' /\ HeldInv' /\ LeaveInv' /\ DrainInv'
  <1> DEFINE o == Head(todo)
  <1>1. /\ todo \in Seq(MicroOps) /\ todo # <<>> /\ todo' = Tail(todo) /\ o \in MicroOps
        /\ ddr \in Dirs /\ port \in Levels
    BY DEF MicroStep, EffectInv, BusInv, TypeOK, Dirs, Levels
  <1>2. UNCHANGED <<phase, cmd, iter, before>>
    BY DEF MicroStep
  <1>3. phase \in Holding
    BY <1>1 DEF EffectInv, BusInv, QuietInv, TypeOK, Phases, Waiting, Holding
  <1>4. Now' = After(Now, o)
    BY NowStep
  <1>5. /\ Now.ddr = ddr /\ Now.port = port /\ Now.ram = ram /\ Now.flash = flash
        /\ Now.samples = samples
    BY DEF Now, State
  <1>6. /\ Now'.ddr = ddr' /\ Now'.port = port' /\ Now'.ram = ram' /\ Now'.flash = flash'
        /\ Now'.samples = samples'
    BY DEF Now, State
  <1> HIDE DEF o
  <1>7. RestInv'
    <2>1. /\ flash = [mem |-> flash.mem, step |-> flash.step, id |-> flash.id]
          /\ MemOK(ram, flash.mem) /\ MemOK(before[1], before[2])
          /\ Len(cmd.data) <= AddrSpace
      BY DEF EffectInv, RestInv
    <2>2. /\ flash' = Decoder(flash'.mem, flash'.step, flash'.id)
          /\ MemOK(ram', flash'.mem)
      BY <1>4, <1>5, <1>6, <2>1, AfterKeepsCells DEF Decoder
    <2> QED
      BY <1>2, <1>3, <2>1, <2>2 DEF RestInv, Decoder, Waiting, Holding, MemOK
  <1>8. \A t : Leads(Now, todo, t) => Leads(Now', todo', t)
    BY <1>1, <1>4, LeadsOn DEF o
  <1>9. SetupInv'
    BY <1>2, <1>8 DEF EffectInv, SetupInv
  <1>10. HeldInv'
    BY <1>2, <1>8 DEF EffectInv, HeldInv
  <1>11. LeaveInv'
    <2> SUFFICES ASSUME phase = "release"
                 PROVE  /\ Calm(Now') /\ \A j \in 1 .. Len(todo') : CalmOp(todo'[j])
                        /\ Done(cmd', Iterations(cmd'), before'[1], before'[2], Now')
      BY <1>2 DEF LeaveInv
    <2>1. /\ Calm(Now) /\ \A j \in 1 .. Len(todo) : CalmOp(todo[j])
          /\ Done(cmd, Iterations(cmd), before[1], before[2], Now)
      BY DEF EffectInv, LeaveInv
    <2>2. /\ o = todo[1] /\ Len(todo') = Len(todo) - 1 /\ Len(todo) \in Nat \ {0}
          /\ \A j \in 1 .. Len(todo') : todo'[j] = todo[j + 1]
      BY <1>1 DEF o
    <2>3. CalmOp(o) /\ \A j \in 1 .. Len(todo') : CalmOp(todo'[j])
      BY <2>1, <2>2
    <2>4. Calm(Now') /\ SameChips(Now, Now')
      BY <1>1, <1>4, <1>5, <2>1, <2>3, CalmStays
    <2>5. Done(cmd, Iterations(cmd), before[1], before[2], Now')
      BY <2>1, <2>4 DEF Done, SameChips
    <2> QED
      BY <1>2, <2>3, <2>4, <2>5
  <1>12. DrainInv'
    BY <1>2, <1>3 DEF DrainInv, Holding
  <1> QED
    BY <1>7, <1>9, <1>10, <1>11, <1>12

\* Between accesses: the pins and the chips stay.
LEMMA NowStays == UNCHANGED <<ddr, port, ram, flash, samples>> => Now' = Now
  BY DEF Now

LEMMA EffectAcquire ==
    ASSUME EffectInv, \/ \E c \in Requests : Receive(c)
                      \/ Poll \/ Recheck \/ GiveUp
    PROVE  RestInv' /\ SetupInv' /\ HeldInv' /\ LeaveInv' /\ DrainInv'
  <1>1. CASE \E c \in Requests : Receive(c)
    <2>1. PICK c \in Requests : Receive(c)
      BY <1>1
    <2>2. /\ phase = "idle" /\ phase' \in {"idle", "poll"} /\ cmd' = c
          /\ iter' = 0 /\ samples' = <<>> /\ before' = <<ram, flash.mem>>
          /\ ram' = ram /\ flash' = flash
      BY <2>1 DEF Receive, memory
    <2>3. Len(c.data) <= AddrSpace
      BY BusAssumption
    <2>4. /\ flash = [mem |-> flash.mem, step |-> flash.step, id |-> flash.id]
          /\ MemOK(ram, flash.mem) /\ flash = Chip(flash.mem)
      BY <2>2 DEF EffectInv, RestInv, Waiting
    <2>5. before'[1] = ram /\ before'[2] = flash.mem
      BY <2>2
    <2>6. RestInv'
      BY <2>2, <2>3, <2>4, <2>5 DEF RestInv, MemOK
    <2> QED
      BY <2>2, <2>6 DEF SetupInv, HeldInv, LeaveInv, DrainInv
  <1>2. CASE Poll \/ GiveUp
    <2>1. /\ phase \in {"poll", "giveup"} /\ phase' \in {"poll", "recheck", "idle"}
          /\ UNCHANGED <<cmd, iter, samples, before, ram, flash>>
      BY <1>2 DEF Poll, GiveUp, memory
    <2>2. RestInv'
      BY <2>1 DEF EffectInv, RestInv, Waiting, MemOK
    <2> QED
      BY <2>1, <2>2 DEF SetupInv, HeldInv, LeaveInv, DrainInv
  <1>3. CASE Recheck
    <2>1. /\ phase = "recheck"
          /\ phase' = "giveup" \/ (phase' = "setup" /\ todo' = AcquireSetup)
          /\ UNCHANGED <<cmd, iter, samples, before, ram, flash, ddr, port>>
      BY <1>3 DEF Recheck, memory
    <2>2. RestInv'
      BY <2>1 DEF EffectInv, RestInv, Waiting, MemOK
    <2>3. SetupInv'
      <3> SUFFICES ASSUME phase' = "setup"
                   PROVE  SetupInv'
        BY DEF SetupInv
      <3>1. Now' = Now /\ todo' = AcquireSetup
        BY <2>1, NowStays
      <3>2. /\ samples = <<>> /\ iter = 0 /\ before = <<ram, flash.mem>>
            /\ flash = Chip(flash.mem)
        BY <2>1 DEF EffectInv, RestInv, Waiting
      <3>3. /\ Now.ddr \in Dirs /\ Now.port \in Levels /\ \A p \in Pins : Now.ddr[p] = "in"
        BY <2>1 DEF EffectInv, BusInv, QuietInv, TypeOK, Waiting, Now, State, Dirs, Levels
      <3>4. PICK t : Leads(Now, AcquireSetup, t) /\ Ready(t) /\ SameChips(Now, t)
        BY <3>3, SetupLeads
      <3>5. t.ram = before'[1] /\ t.flash = Chip(before'[2]) /\ t.samples = <<>>
        BY <2>1, <3>2, <3>4 DEF SameChips, Now, State
      <3> QED
        BY <2>1, <3>1, <3>2, <3>4, <3>5 DEF SetupInv
    <2> QED
      BY <2>1, <2>2, <2>3 DEF HeldInv, LeaveInv, DrainInv
  <1> QED
    BY <1>1, <1>2, <1>3

LEMMA NothingDone ==
    ASSUME NEW c \in Command, NEW r, NEW f, MemOK(r, f),
           NEW s, s.ram = r, s.flash = Chip(f), s.samples = <<>>
    PROVE  Done(c, 0, r, f, s)
  <1>1. r = [a \in DOMAIN r |-> r[a]] /\ f = [a \in DOMAIN f |-> f[a]]
    BY DEF MemOK
  <1>2. s.flash.mem = f
    BY DEF Chip
  <1>3. RamDone(c, 0, r, s.ram)
    BY <1>1 DEF RamDone
  <1>4. FlashDone(c, 0, f, f)
    BY <1>1 DEF FlashDone
  <1>5. SamplesDone(c, 0, r, f, <<>>)
    <2>1. [i \in 1 .. 0 |-> ReadCell(c, i, r, f)] = <<>>
      OBVIOUS
    <2> QED
      BY <2>1 DEF SamplesDone
  <1> QED
    BY <1>2, <1>3, <1>4, <1>5 DEF Done

LEMMA EffectAcquired ==
    ASSUME EffectInv, Acquired
    PROVE  RestInv' /\ SetupInv' /\ HeldInv' /\ LeaveInv' /\ DrainInv'
  <1>1. /\ phase = "setup" /\ phase' = "held" /\ todo = <<>> /\ todo' = Prologue(cmd)
        /\ UNCHANGED <<cmd, iter, samples, before, ram, flash, ddr, port>>
    BY DEF Acquired, memory
  <1>2. RestInv'
    BY <1>1 DEF EffectInv, RestInv, Waiting, MemOK
  <1>3. HeldInv'
    <2>1. /\ iter = 0
          /\ \E t : /\ Leads(Now, todo, t) /\ Ready(t)
                    /\ t.ram = before[1] /\ t.flash = Chip(before[2]) /\ t.samples = <<>>
      BY <1>1 DEF EffectInv, SetupInv
    <2>2. /\ Ready(Now) /\ Now.ram = before[1] /\ Now.flash = Chip(before[2])
          /\ Now.samples = <<>>
      BY <1>1, <2>1, LeadsNowhere
    <2>3. PICK u : Leads(Now, Prologue(cmd), u) /\ ReadyFor(cmd, u) /\ SameChips(Now, u)
      <3>1. CASE cmd.kind = "write"
        BY <2>2, <3>1, ModeLeads DEF Prologue, ReadyFor
      <3>2. CASE cmd.kind = "read"
        BY <2>2, <3>2, ModeLeads DEF Prologue, ReadyFor
      <3>3. CASE cmd.kind \notin {"write", "read"}
        <4>1. Leads(Now, <<>>, Now) /\ SameChips(Now, Now)
          BY LeadsNowhere DEF SameChips
        <4> QED
          BY <2>2, <3>3, <4>1 DEF Prologue, ReadyFor
      <3> QED
        BY <3>1, <3>2, <3>3
    <2>4. cmd \in Command /\ MemOK(before[1], before[2])
      BY DEF EffectInv, BusInv, TypeOK, Command, RestInv
    <2>5. Done(cmd, 0, before[1], before[2], u)
      BY <2>2, <2>3, <2>4, NothingDone DEF SameChips
    <2>6. 0 <= Iterations(cmd)
      BY <2>4 DEF Iterations, Command
    <2>7. Now' = Now
      BY <1>1, NowStays
    <2> QED
      BY <1>1, <2>1, <2>3, <2>5, <2>6, <2>7 DEF HeldInv
  <1> QED
    BY <1>1, <1>2, <1>3 DEF SetupInv, LeaveInv, DrainInv

LEMMA EffectIterate ==
    ASSUME EffectInv, Iterate
    PROVE  RestInv' /\ SetupInv' /\ HeldInv' /\ LeaveInv' /\ DrainInv'
  <1>1. /\ phase = "held" /\ todo = <<>>
        /\ UNCHANGED <<cmd, samples, before, ram, flash, ddr, port>>
    BY DEF Iterate, memory
  <1>2. cmd \in Command /\ iter \in Nat /\ Len(cmd.data) <= AddrSpace
    BY DEF EffectInv, BusInv, TypeOK, Command, RestInv
  <1>3. MemOK(before[1], before[2])
    BY DEF EffectInv, RestInv
  <1>4. /\ iter <= Iterations(cmd) /\ ReadyFor(cmd, Now)
        /\ Done(cmd, iter, before[1], before[2], Now)
    <2>1. /\ iter <= Iterations(cmd)
          /\ \E t : /\ Leads(Now, todo, t) /\ ReadyFor(cmd, t)
                    /\ Done(cmd, iter, before[1], before[2], t)
      BY <1>1 DEF EffectInv, HeldInv
    <2> QED
      BY <1>1, <2>1, LeadsNowhere
  <1>5. Now' = Now
    BY <1>1, NowStays
  <1>6. CASE iter < Iterations(cmd) /\ todo' = Body(cmd, iter) /\ iter' = iter + 1 /\ phase' = phase
    <2>1. PICK u : /\ Leads(Now, Body(cmd, iter), u) /\ ReadyFor(cmd, u)
                   /\ Done(cmd, iter + 1, before[1], before[2], u)
      BY <1>2, <1>3, <1>4, <1>6, BodyLeads
    <2>2. iter + 1 <= Iterations(cmd)
      BY <1>2, <1>6 DEF Iterations, Command
    <2>3. HeldInv'
      BY <1>1, <1>5, <1>6, <2>1, <2>2 DEF HeldInv
    <2>4. RestInv'
      BY <1>1, <1>6 DEF EffectInv, RestInv, Waiting, MemOK
    <2> QED
      BY <1>1, <1>6, <2>3, <2>4 DEF SetupInv, LeaveInv, DrainInv
  <1>7. CASE iter = Iterations(cmd) /\ todo' = ReleaseSteps /\ phase' = "release"
    <2>1. Calm(Now)
      BY <1>4 DEF ReadyFor, WriteReady, ReadReady, Ready, Calm
    <2>2. LeaveInv'
      BY <1>1, <1>4, <1>5, <1>7, <2>1, ReleaseCalm DEF LeaveInv
    <2>3. RestInv'
      BY <1>1, <1>7 DEF EffectInv, RestInv, Waiting, MemOK
    <2> QED
      BY <1>7, <2>2, <2>3 DEF SetupInv, HeldInv, DrainInv
  <1> QED
    BY <1>6, <1>7 DEF Iterate

LEMMA EffectRelease ==
    ASSUME EffectInv, DropRequest \/ Drained
    PROVE  RestInv' /\ SetupInv' /\ HeldInv' /\ LeaveInv' /\ DrainInv'
  <1>1. CASE DropRequest
    <2>1. /\ phase = "release" /\ phase' = "drain"
          /\ UNCHANGED <<cmd, iter, samples, before, ram, flash, ddr, port>>
      BY <1>1 DEF DropRequest, memory
    <2>2. Done(cmd, Iterations(cmd), before[1], before[2], Now)
      BY <2>1 DEF EffectInv, LeaveInv
    <2>3. Now' = Now
      BY <2>1, NowStays
    <2>4. DrainInv'
      BY <2>1, <2>2, <2>3 DEF DrainInv
    <2>5. flash = Chip(flash.mem)
      BY <2>2 DEF Done, Now, State
    <2>6. RestInv'
      BY <2>1, <2>5 DEF EffectInv, RestInv, MemOK
    <2> QED
      BY <2>1, <2>4, <2>6 DEF SetupInv, HeldInv, LeaveInv
  <1>2. CASE Drained
    <2>1. /\ phase = "drain" /\ phase' = "idle"
          /\ UNCHANGED <<cmd, iter, samples, before, ram, flash, ddr, port>>
      BY <1>2 DEF Drained, memory
    <2>2. RestInv'
      BY <2>1 DEF EffectInv, RestInv, Waiting, MemOK
    <2> QED
      BY <2>1, <2>2 DEF SetupInv, HeldInv, LeaveInv, DrainInv
  <1> QED
    BY <1>1, <1>2

LEMMA EffectZ80 ==
    ASSUME EffectInv, Z80Grant \/ Z80Resume \/ Z80Reset \/ UNCHANGED vars
    PROVE  RestInv' /\ SetupInv' /\ HeldInv' /\ LeaveInv' /\ DrainInv'
  <1>1. UNCHANGED <<phase, todo, cmd, iter, samples, before, ram, flash, ddr, port>>
    BY DEF Z80Grant, Z80Resume, Z80Reset, vars, coproc, memory
  <1>2. Now' = Now
    BY <1>1, NowStays
  <1>3. RestInv'
    BY <1>1 DEF EffectInv, RestInv, MemOK
  <1>4. SetupInv' /\ HeldInv' /\ LeaveInv' /\ DrainInv'
    BY <1>1, <1>2 DEF EffectInv, SetupInv, HeldInv, LeaveInv, DrainInv
  <1> QED
    BY <1>3, <1>4

LEMMA EffectStep == EffectInv /\ [Next]_vars => EffectInv'
  <1> SUFFICES ASSUME EffectInv, [Next]_vars
               PROVE  EffectInv'
    OBVIOUS
  <1>1. BusInv'
    BY BusStep DEF EffectInv
  <1>2. RestInv' /\ SetupInv' /\ HeldInv' /\ LeaveInv' /\ DrainInv'
    BY EffectMicroStep, EffectAcquire, EffectAcquired, EffectIterate, EffectRelease,
       EffectZ80 DEF Next, Coprocessor
  <1> QED
    BY <1>1, <1>2 DEF EffectInv

(***************************************************************************)
(* The accesses still to be made always lead where the command wants.      *)
(***************************************************************************)
THEOREM EffectInvariant == Spec => []EffectInv
  <1>1. Init => EffectInv
    BY BusInit, EffectInit DEF EffectInv
  <1> QED
    BY <1>1, EffectStep, PTL DEF Spec
-----------------------------------------------------------------------------
(***************************************************************************)
(* What all iterations have done is what the command wants.                *)
(***************************************************************************)
LEMMA TargetIndex ==
    ASSUME NEW c \in Command, Len(c.data) <= AddrSpace, NEW a
    PROVE  /\ a \in Targets(c) => \E i \in 1 .. Len(c.data) :
                                     CellOf(c, i) = a /\ ByteFor(c, a) = c.data[i]
           /\ a \notin Targets(c) => \A i \in 1 .. Len(c.data) : CellOf(c, i) # a
  <1>1. c.addr \in Nat /\ Len(c.data) \in Nat
    BY DEF Command
  <1>2. ASSUME a \in Targets(c)
        PROVE  \E i \in 1 .. Len(c.data) : CellOf(c, i) = a /\ ByteFor(c, a) = c.data[i]
    <2>1. PICK k \in 0 .. Len(c.data) - 1 : a = BusAddr(c.addr + k)
      BY <1>2 DEF Targets
    <2>2. k + 1 \in 1 .. Len(c.data) /\ BusAddr(c.addr + (k + 1) - 1) = a
      <3>1. c.addr + (k + 1) - 1 = c.addr + k
        BY <1>1
      <3> QED
        BY <1>1, <2>1, <3>1
    <2> DEFINE i == CHOOSE j \in 1 .. Len(c.data) : BusAddr(c.addr + j - 1) = a
    <2>3. i \in 1 .. Len(c.data) /\ BusAddr(c.addr + i - 1) = a
      BY <2>2
    <2>4. ByteFor(c, a) = c.data[i]
      BY DEF ByteFor
    <2> HIDE DEF i
    <2> QED
      BY <2>3, <2>4 DEF CellOf
  <1>3. ASSUME a \notin Targets(c), NEW i \in 1 .. Len(c.data)
        PROVE  CellOf(c, i) # a
    <2>1. i - 1 \in 0 .. Len(c.data) - 1 /\ c.addr + i - 1 = c.addr + (i - 1)
      BY <1>1
    <2>2. BusAddr(c.addr + (i - 1)) # a
      BY <1>3, <2>1 DEF Targets
    <2> QED
      BY <2>1, <2>2 DEF CellOf
  <1> QED
    BY <1>2, <1>3

LEMMA AllDone ==
    ASSUME NEW c \in Command, Len(c.data) <= AddrSpace, NEW r, NEW f, MemOK(r, f),
           NEW s, Done(c, Iterations(c), r, f, s)
    PROVE  /\ s.ram = WantRam(c, r) /\ s.flash = Chip(WantFlash(c, f))
           /\ s.samples = WantSamples(c, r, f)
  <1> DEFINE n == Iterations(c)
             m == s.flash.mem
  <1>1. /\ RamDone(c, n, r, s.ram) /\ s.flash = Chip(m) /\ FlashDone(c, n, f, m)
        /\ SamplesDone(c, n, r, f, s.samples)
    BY DEF Done
  <1>2. c.kind \in Kinds
    BY DEF Command
  <1> HIDE DEF n, m
  <1>3. s.ram = WantRam(c, r)
    <2>1. s.ram = [a \in DOMAIN r |-> s.ram[a]]
      BY <1>1 DEF RamDone
    <2>2. ASSUME NEW a \in DOMAIN r
          PROVE  s.ram[a] = IF c.kind = "write" /\ a \in Targets(c) THEN ByteFor(c, a) ELSE r[a]
      <3>1. CASE c.kind # "write"
        BY <1>1, <3>1 DEF RamDone
      <3>2. CASE c.kind = "write"
        <4>1. n = Len(c.data)
          BY <3>2 DEF Iterations, n
        <4> QED
          BY <1>1, <3>2, <4>1, TargetIndex DEF RamDone
      <3> QED
        BY <3>1, <3>2
    <2> QED
      BY <2>1, <2>2 DEF WantRam
  <1>4. s.flash = Chip(WantFlash(c, f))
    <2>1. CASE c.kind = "flash"
      <3>1. n = Len(c.data)
        BY <2>1 DEF Iterations, n
      <3>2. m = [a \in DOMAIN f |-> m[a]]
        BY <1>1, <2>1 DEF FlashDone
      <3>3. ASSUME NEW a \in DOMAIN f
            PROVE  m[a] = IF a \in Targets(c) THEN f[a] \cap ByteFor(c, a) ELSE f[a]
        BY <1>1, <2>1, <3>1, TargetIndex DEF FlashDone
      <3>4. WantFlash(c, f) = [a \in DOMAIN f |-> IF a \in Targets(c)
                                                  THEN f[a] \cap ByteFor(c, a) ELSE f[a]]
        BY <2>1 DEF WantFlash
      <3>5. m = WantFlash(c, f)
        BY <3>2, <3>3, <3>4
      <3> QED
        BY <1>1, <3>5
    <2>2. CASE c.kind # "flash"
      <3>1. WantFlash(c, f) = f \/ n = 1
        <4>1. CASE c.kind \in {"write", "read"}
          BY <4>1, KeptCells
        <4>2. CASE c.kind \notin {"write", "read"}
          BY <2>2, <4>2 DEF Iterations, n
        <4> QED
          BY <4>1, <4>2
      <3>2. m = WantFlash(c, f)
        BY <1>1, <2>2, <3>1 DEF FlashDone
      <3> QED
        BY <1>1, <3>2
    <2> QED
      BY <2>1, <2>2
  <1>5. s.samples = WantSamples(c, r, f)
    <2>1. CASE c.kind = "read"
      <3>1. n = c.amt
        BY <2>1 DEF Iterations, n
      <3> QED
        BY <1>1, <2>1, <3>1 DEF SamplesDone, WantSamples, ReadCell, CellOf
    <2>2. CASE c.kind = "flash_id"
      <3>1. n = 1
        BY <2>2 DEF Iterations, n
      <3> QED
        BY <1>1, <2>2, <3>1 DEF SamplesDone, WantSamples
    <2>3. CASE c.kind \notin {"read", "flash_id"}
      BY <1>1, <2>3 DEF SamplesDone, WantSamples
    <2> QED
      BY <2>1, <2>2, <2>3
  <1> QED
    BY <1>3, <1>4, <1>5

(***************************************************************************)
(* Whatever the request, its address and its length, and whenever the Z80  *)
(* answers, a command that got the bus wrote to memory the bytes asked for *)
(* and no others, read the cells asked for, and left the flash chip in     *)
(* read mode; one that did not get the bus did nothing at all (bus.c,      *)
(* flash.c and the handlers of main.c).                                    *)
(***************************************************************************)
THEOREM BusCommandEffect == Spec => []CommandEffect
  <1>1. EffectInv => CommandEffect
    <2> SUFFICES ASSUME EffectInv
                 PROVE  CommandEffect
      OBVIOUS
    <2>1. CASE phase = "drain"
      <3>1. Done(cmd, Iterations(cmd), before[1], before[2], Now)
        BY <2>1 DEF EffectInv, DrainInv
      <3>2. /\ cmd \in Command /\ Len(cmd.data) <= AddrSpace
            /\ MemOK(before[1], before[2])
        BY DEF EffectInv, BusInv, TypeOK, Command, RestInv
      <3>3. /\ Now.ram = WantRam(cmd, before[1])
            /\ Now.flash = Chip(WantFlash(cmd, before[2]))
            /\ Now.samples = WantSamples(cmd, before[1], before[2])
        BY <3>1, <3>2, AllDone
      <3> QED
        BY <2>1, <3>3 DEF CommandEffect, Now, State
    <2>2. CASE phase \in {"poll", "recheck", "giveup"}
      <3>1. before = <<ram, flash.mem>> /\ flash = Chip(flash.mem)
        BY <2>2 DEF EffectInv, RestInv, Waiting
      <3> QED
        BY <2>2, <3>1 DEF CommandEffect
    <2>3. CASE phase \notin {"drain", "poll", "recheck", "giveup"}
      BY <2>3 DEF CommandEffect
    <2> QED
      BY <2>1, <2>2, <2>3
  <1> QED
    BY <1>1, EffectInvariant, PTL
=============================================================================
