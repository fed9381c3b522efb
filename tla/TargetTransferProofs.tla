------------------------ MODULE TargetTransferProofs ------------------------
(***************************************************************************)
(* Proofs about block transfers, for every size of the address space, of a *)
(* packet and of a sector, every block and every content of memory.        *)
(***************************************************************************)
EXTENDS TargetTransfer, SequenceTheorems, Arithmetic

-----------------------------------------------------------------------------
(***************************************************************************)
(* Addresses.                                                              *)
(***************************************************************************)

LEMMA SpaceSize ==
    /\ HalfSpace \in Nat \ {0} /\ AddrSpace \in Nat \ {0}
    /\ AddrSpace = HalfSpace + HalfSpace
    /\ 8 * HalfSpace \in Nat \ {0} /\ 8 * HalfSpace = 4 * AddrSpace
  BY HalfSpaceAssumption DEF AddrSpace

LEMMA BusAddrInSpace == \A a \in Nat : BusAddr(a) \in Addresses
  BY SpaceSize DEF BusAddr, Addresses

\* 20 bits hold the addresses of a block that starts in the address space and
\* is no longer than it, and of one packet more.
LEMMA PacketAddrExact ==
    ASSUME NEW a \in 0 .. AddrSpace, NEW n \in Nat, n < AddrSpace + AddrSpace
    PROVE  PacketAddr(a + n) = a + n
  <1>1. a + n \in 0 .. (8 * HalfSpace) - 1
    BY SpaceSize
  <1> QED
    BY <1>1, SpaceSize, ModSmall DEF PacketAddr

LEMMA SmallerOf ==
    ASSUME NEW a \in Int, NEW b \in Int
    PROVE  /\ Smaller(a, b) \in {a, b}
           /\ Smaller(a, b) <= a /\ Smaller(a, b) <= b
  BY DEF Smaller

-----------------------------------------------------------------------------
(***************************************************************************)
(* What a packet does to memory.                                           *)
(***************************************************************************)

\* A set of positions has a last one.
LEMMA LatestIsLast ==
    ASSUME NEW n \in Nat, NEW s \in SUBSET (1 .. n), s # {}
    PROVE  Latest(s) \in s /\ \A k \in s : k <= Latest(s)
  <1> DEFINE T == {n - k : k \in s}
  <1>1. T \subseteq Nat
    OBVIOUS
  <1>2. T # {}
    OBVIOUS
  <1>3. PICK x \in T : \A y \in T : x <= y
    <2> HIDE DEF T
    <2> QED BY <1>1, <1>2, NatLeast
  <1>4. PICK j \in s : x = n - j
    BY <1>3
  <1>5. \A k \in s : k <= j
    BY <1>3, <1>4
  <1> QED
    BY <1>5 DEF Latest

LEMMA LatestUnique ==
    ASSUME NEW n \in Nat, NEW s \in SUBSET (1 .. n), NEW j \in s,
           \A k \in s : k <= j
    PROVE  Latest(s) = j
  <1>1. Latest(s) \in s /\ \A k \in s : k <= Latest(s)
    <2>1. s # {}
      OBVIOUS
    <2> QED
      BY <2>1, LatestIsLast
  <1>2. PICK l \in s : l = Latest(s)
    BY <1>1
  <1>3. l <= j /\ j <= l
    BY <1>1, <1>2
  <1>4. l \in Int /\ j \in Int
    OBVIOUS
  <1> QED
    BY <1>2, <1>3, <1>4

\* The two parts of a block, and where their bytes are placed.
LEMMA PartsOf ==
    ASSUME NEW d \in Seq(Byte), NEW n \in 0 .. Len(d), NEW c \in 0 .. Len(d) - n
    PROVE  /\ SubSeq(d, 1, n) \in Seq(Byte) /\ Len(SubSeq(d, 1, n)) = n
           /\ SubSeq(d, n + 1, n + c) \in Seq(Byte)
           /\ Len(SubSeq(d, n + 1, n + c)) = c
           /\ SubSeq(d, 1, n + c) \in Seq(Byte) /\ Len(SubSeq(d, 1, n + c)) = n + c
           /\ \A j \in 1 .. n : SubSeq(d, 1, n)[j] = SubSeq(d, 1, n + c)[j]
           /\ \A j \in 1 .. c : SubSeq(d, n + 1, n + c)[j] = SubSeq(d, 1, n + c)[n + j]
  <1>1. \A j \in 1 .. Len(d) : d[j] \in Byte
    BY ElementOfSeq
  <1>2. /\ SubSeq(d, 1, n) \in Seq(Byte)
        /\ Len(SubSeq(d, 1, n)) = n
        /\ \A j \in 1 .. n : SubSeq(d, 1, n)[j] = d[j]
    BY <1>1, SubSeqProperties
  <1>3. /\ SubSeq(d, n + 1, n + c) \in Seq(Byte)
        /\ Len(SubSeq(d, n + 1, n + c)) = c
        /\ \A j \in 1 .. c : SubSeq(d, n + 1, n + c)[j] = d[n + j]
    BY <1>1, SubSeqProperties
  <1>4. /\ SubSeq(d, 1, n + c) \in Seq(Byte)
        /\ Len(SubSeq(d, 1, n + c)) = n + c
        /\ \A j \in 1 .. n + c : SubSeq(d, 1, n + c)[j] = d[j]
    BY <1>1, SubSeqProperties
  <1> QED
    BY <1>2, <1>3, <1>4

LEMMA PlacedInParts ==
    ASSUME NEW d \in Seq(Byte), NEW n \in 0 .. Len(d), NEW c \in 0 .. Len(d) - n,
           NEW a \in Nat, NEW x
    PROVE  /\ PlacedAt(a, SubSeq(d, 1, n), x) \in SUBSET (1 .. n)
           /\ PlacedAt(a + n, SubSeq(d, n + 1, n + c), x) \in SUBSET (1 .. c)
           /\ PlacedAt(a, SubSeq(d, 1, n + c), x) \in SUBSET (1 .. n + c)
           /\ \A j \in 1 .. n : j \in PlacedAt(a, SubSeq(d, 1, n + c), x)
                                  <=> j \in PlacedAt(a, SubSeq(d, 1, n), x)
           /\ \A j \in 1 .. c : n + j \in PlacedAt(a, SubSeq(d, 1, n + c), x)
                                  <=> j \in PlacedAt(a + n, SubSeq(d, n + 1, n + c), x)
  <1>1. \A j \in 1 .. c : (a + n) + j - 1 = a + (n + j) - 1
    OBVIOUS
  <1> QED
    BY <1>1, PartsOf DEF PlacedAt

\* Packets are written one after the other as a block is written at once: the
\* last byte placed at an address is the one that stays.
LEMMA RamByParts ==
    ASSUME NEW m \in [Addresses -> Byte], NEW a \in Nat,
           NEW d \in Seq(Byte), NEW n \in 0 .. Len(d), NEW c \in 0 .. Len(d) - n
    PROVE  RamWritten(RamWritten(m, a, SubSeq(d, 1, n)), a + n,
                      SubSeq(d, n + 1, n + c))
           = RamWritten(m, a, SubSeq(d, 1, n + c))
  <1> DEFINE e == SubSeq(d, 1, n)
             f == SubSeq(d, n + 1, n + c)
             g == SubSeq(d, 1, n + c)
             me == RamWritten(m, a, e)
  <1>1. SUFFICES ASSUME NEW x \in Addresses, IsRam(x)
                 PROVE  RamWritten(me, a + n, f)[x] = RamWritten(m, a, g)[x]
    BY DEF RamWritten
  <1> DEFINE pe == PlacedAt(a, e, x)
             pf == PlacedAt(a + n, f, x)
             pg == PlacedAt(a, g, x)
  <1>2. /\ me[x] = IF pe # {} THEN e[Latest(pe)] ELSE m[x]
        /\ RamWritten(me, a + n, f)[x] = IF pf # {} THEN f[Latest(pf)] ELSE me[x]
        /\ RamWritten(m, a, g)[x] = IF pg # {} THEN g[Latest(pg)] ELSE m[x]
    BY <1>1 DEF RamWritten
  <1>3. /\ pe \in SUBSET (1 .. n) /\ pf \in SUBSET (1 .. c) /\ pg \in SUBSET (1 .. n + c)
        /\ \A j \in 1 .. n : j \in pg <=> j \in pe
        /\ \A j \in 1 .. c : n + j \in pg <=> j \in pf
    BY PlacedInParts
  <1>4. /\ \A j \in 1 .. n : e[j] = g[j]
        /\ \A j \in 1 .. c : f[j] = g[n + j]
    BY PartsOf
  <1> HIDE DEF pe, pf, pg, me, e, f, g
  <1>n. n \in Nat /\ c \in Nat /\ n + c \in Nat
    OBVIOUS
  <1>5. CASE pf # {}
    <2>1. PICK l \in pf : l = Latest(pf) /\ \A k \in pf : k <= l
      BY <1>n, <1>3, <1>5, LatestIsLast, Zenon
    <2>2. n + l \in pg /\ \A k \in pg : k <= n + l
      <3>1. n + l \in pg
        BY <1>3, <2>1
      <3>2. ASSUME NEW k \in pg, k > n + l
            PROVE  FALSE
        <4>1. k - n \in 1 .. c /\ k = n + (k - n)
          BY <1>3, <2>1, <3>2
        <4>2. k - n \in pf
          BY <1>3, <3>2, <4>1
        <4> QED
          BY <2>1, <3>2, <4>1, <4>2, <1>3
      <3> QED
        BY <1>3, <2>1, <3>1, <3>2
    <2>3. Latest(pg) = n + l
      BY <1>n, <1>3, <2>2, LatestUnique, Zenon
    <2> QED
      BY <1>2, <1>3, <1>4, <1>5, <2>1, <2>2, <2>3
  <1>6. CASE pf = {} /\ pe # {}
    <2>1. PICK l \in pe : l = Latest(pe) /\ \A k \in pe : k <= l
      BY <1>n, <1>3, <1>6, LatestIsLast, Zenon
    <2>2. l \in pg /\ \A k \in pg : k <= l
      <3>1. ASSUME NEW k \in pg, k > n
            PROVE  FALSE
        <4>1. k - n \in 1 .. c /\ k = n + (k - n)
          BY <1>3, <3>1
        <4> QED
          BY <1>3, <1>6, <3>1, <4>1
      <3>2. \A k \in pg : k \in pe
        BY <1>3, <3>1
      <3> QED
        BY <1>3, <2>1, <3>2
    <2>3. Latest(pg) = l
      BY <1>n, <1>3, <2>2, LatestUnique, Zenon
    <2> QED
      BY <1>2, <1>3, <1>4, <1>6, <2>1, <2>2, <2>3
  <1>7. CASE pf = {} /\ pe = {}
    <2>1. ASSUME NEW k \in pg
          PROVE  FALSE
      <3>1. CASE k <= n
        BY <1>3, <1>7, <3>1
      <3>2. CASE k > n
        <4>1. k - n \in 1 .. c /\ k = n + (k - n)
          BY <1>3, <3>2
        <4> QED
          BY <1>3, <1>7, <4>1
      <3> QED
        BY <1>3, <3>1, <3>2
    <2> QED
      BY <1>2, <1>7, <2>1
  <1> QED
    BY <1>5, <1>6, <1>7

\* Programming clears bits, in any order.
LEMMA FlashByParts ==
    ASSUME NEW m \in [Addresses -> Byte], NEW a \in Nat,
           NEW d \in Seq(Byte), NEW n \in 0 .. Len(d), NEW c \in 0 .. Len(d) - n
    PROVE  FlashWritten(FlashWritten(m, a, SubSeq(d, 1, n)), a + n,
                        SubSeq(d, n + 1, n + c))
           = FlashWritten(m, a, SubSeq(d, 1, n + c))
  <1> DEFINE e == SubSeq(d, 1, n)
             f == SubSeq(d, n + 1, n + c)
             g == SubSeq(d, 1, n + c)
             me == FlashWritten(m, a, e)
  <1>1. SUFFICES ASSUME NEW x \in Addresses, IsFlash(x)
                 PROVE  FlashWritten(me, a + n, f)[x] = FlashWritten(m, a, g)[x]
    BY DEF FlashWritten
  <1> DEFINE pe == PlacedAt(a, e, x)
             pf == PlacedAt(a + n, f, x)
             pg == PlacedAt(a, g, x)
  <1>2. /\ me[x] = {b \in m[x] : \A j \in pe : b \in e[j]}
        /\ FlashWritten(me, a + n, f)[x] = {b \in me[x] : \A j \in pf : b \in f[j]}
        /\ FlashWritten(m, a, g)[x] = {b \in m[x] : \A j \in pg : b \in g[j]}
    BY <1>1 DEF FlashWritten
  <1>3. /\ pe \in SUBSET (1 .. n) /\ pf \in SUBSET (1 .. c) /\ pg \in SUBSET (1 .. n + c)
        /\ \A j \in 1 .. n : j \in pg <=> j \in pe
        /\ \A j \in 1 .. c : n + j \in pg <=> j \in pf
    BY PlacedInParts
  <1>4. /\ \A j \in 1 .. n : e[j] = g[j]
        /\ \A j \in 1 .. c : f[j] = g[n + j]
    BY PartsOf
  <1> HIDE DEF pe, pf, pg, me, e, f, g
  <1>5. ASSUME NEW b, NEW k \in pg,
               \A j \in pe : b \in e[j], \A j \in pf : b \in f[j]
        PROVE  b \in g[k]
    <2>1. CASE k <= n
      BY <1>3, <1>4, <1>5, <2>1
    <2>2. CASE k > n
      <3>1. k - n \in 1 .. c /\ k = n + (k - n)
        BY <1>3, <2>2
      <3> QED
        BY <1>3, <1>4, <1>5, <3>1
    <2> QED
      BY <1>3, <2>1, <2>2
  <1>6. ASSUME NEW b, \A j \in pg : b \in g[j]
        PROVE  (\A j \in pe : b \in e[j]) /\ (\A j \in pf : b \in f[j])
    BY <1>3, <1>4, <1>6
  <1>7. \A b : (\A j \in pg : b \in g[j])
                 <=> (\A j \in pe : b \in e[j]) /\ (\A j \in pf : b \in f[j])
    BY <1>5, <1>6
  <1> QED
    BY <1>2, <1>7

LEMMA WrittenByParts ==
    ASSUME NEW k, NEW m \in [Addresses -> Byte], NEW a \in Nat,
           NEW d \in Seq(Byte), NEW n \in 0 .. Len(d), NEW c \in 0 .. Len(d) - n
    PROVE  Written(k, Written(k, m, a, SubSeq(d, 1, n)), a + n,
                   SubSeq(d, n + 1, n + c))
           = Written(k, m, a, SubSeq(d, 1, n + c))
  BY RamByParts, FlashByParts DEF Written

\* An empty block changes nothing.
LEMMA NothingWritten ==
    ASSUME NEW k, NEW m \in [Addresses -> Byte], NEW a \in Nat, NEW d
    PROVE  Written(k, m, a, SubSeq(d, 1, 0)) = m
  <1>1. SubSeq(d, 1, 0) = <<>>
    BY SubSeqEmpty
  <1>2. \A x : PlacedAt(a, <<>>, x) = {}
    BY DEF PlacedAt
  <1>3. RamWritten(m, a, <<>>) = m
    BY <1>2 DEF RamWritten
  <1>4. FlashWritten(m, a, <<>>) = m
    BY <1>2 DEF FlashWritten
  <1> QED
    BY <1>1, <1>3, <1>4 DEF Written

LEMMA WrittenType ==
    ASSUME NEW k, NEW m \in [Addresses -> Byte], NEW a \in Nat, NEW d \in Seq(Byte)
    PROVE  Written(k, m, a, d) \in [Addresses -> Byte]
  <1>1. RamWritten(m, a, d) \in [Addresses -> Byte]
    <2>1. ASSUME NEW x \in Addresses, PlacedAt(a, d, x) # {}
          PROVE  d[Latest(PlacedAt(a, d, x))] \in Byte
      <3>1. PlacedAt(a, d, x) \in SUBSET (1 .. Len(d))
        BY DEF PlacedAt
      <3>2. Latest(PlacedAt(a, d, x)) \in PlacedAt(a, d, x)
        <4>1. Len(d) \in Nat
          OBVIOUS
        <4> QED
          BY <2>1, <3>1, <4>1, LatestIsLast, Zenon
      <3> QED
        BY <3>1, <3>2, ElementOfSeq
    <2> QED
      BY <2>1 DEF RamWritten
  <1>2. FlashWritten(m, a, d) \in [Addresses -> Byte]
    <2>1. \A x \in Addresses : m[x] \in SUBSET Bits
      BY DEF Byte
    <2> QED
      BY <2>1 DEF FlashWritten, Byte
  <1> QED
    BY <1>1, <1>2 DEF Written

LEMMA ErasedType ==
    ASSUME NEW m \in [Addresses -> Byte]
    PROVE  /\ \A a : SectorErased(m, a) \in [Addresses -> Byte]
           /\ ChipErased(m) \in [Addresses -> Byte]
  <1>1. Erased \in Byte
    BY DEF Erased, Byte
  <1> QED
    BY <1>1 DEF SectorErased, ChipErased

\* What the packets of a read bring is put together.
LEMMA ReadByParts ==
    ASSUME NEW m \in [Addresses -> Byte], NEW a \in Nat, NEW n \in Nat, NEW c \in Nat
    PROVE  /\ ReadFrom(m, a, n) \in Seq(Byte)
           /\ ReadFrom(m, a, n) \o ReadFrom(m, a + n, c) = ReadFrom(m, a, n + c)
  <1>1. ASSUME NEW b \in Nat, NEW k \in Nat
        PROVE  /\ ReadFrom(m, b, k) \in Seq(Byte) /\ Len(ReadFrom(m, b, k)) = k
               /\ \A j \in 1 .. k : ReadFrom(m, b, k)[j] = m[BusAddr(b + j - 1)]
    <2>1. \A j \in 1 .. k : b + j - 1 \in Nat
      OBVIOUS
    <2>2. \A j \in 1 .. k : m[BusAddr(b + j - 1)] \in Byte
      BY <2>1, BusAddrInSpace
    <2> QED
      BY <2>2 DEF ReadFrom
  <1> DEFINE s == ReadFrom(m, a, n)
             t == ReadFrom(m, a + n, c)
             u == ReadFrom(m, a, n + c)
  <1>2. /\ s \in Seq(Byte) /\ Len(s) = n
        /\ \A j \in 1 .. n : s[j] = m[BusAddr(a + j - 1)]
    BY <1>1
  <1>3. /\ t \in Seq(Byte) /\ Len(t) = c
        /\ \A j \in 1 .. c : t[j] = m[BusAddr((a + n) + j - 1)]
    <2>1. a + n \in Nat
      OBVIOUS
    <2> QED
      BY <1>1, <2>1, Zenon
  <1>4. /\ u \in Seq(Byte) /\ Len(u) = n + c
        /\ \A j \in 1 .. n + c : u[j] = m[BusAddr(a + j - 1)]
    BY <1>1
  <1> HIDE DEF s, t, u
  <1>5. PICK w \in Seq(Byte) :
           /\ w = s \o t /\ Len(w) = n + c
           /\ \A j \in 1 .. n + c : w[j] = IF j <= n THEN s[j] ELSE t[j - n]
    <2>1. /\ s \o t \in Seq(Byte) /\ Len(s \o t) = Len(s) + Len(t)
          /\ \A j \in 1 .. Len(s) + Len(t) :
                (s \o t)[j] = IF j <= Len(s) THEN s[j] ELSE t[j - Len(s)]
      BY <1>2, <1>3, ConcatProperties, Zenon
    <2> QED
      BY <1>2, <1>3, <2>1, Zenon
  <1>6. ASSUME NEW j \in 1 .. n + c
        PROVE  w[j] = u[j]
    <2>1. CASE j <= n
      <3>1. w[j] = s[j] /\ j \in 1 .. n
        BY <1>5, <2>1
      <3> QED
        BY <1>2, <1>4, <3>1, Zenon
    <2>2. CASE j > n
      <3>1. w[j] = t[j - n] /\ j - n \in 1 .. c
        BY <1>5, <2>2
      <3>2. (a + n) + (j - n) - 1 = a + j - 1
        OBVIOUS
      <3> QED
        BY <1>3, <1>4, <3>1, <3>2, Zenon
    <2> QED
      BY <2>1, <2>2
  <1>7. s \o t = u
    <2>1. Len(w) = Len(u) /\ \A j \in 1 .. Len(w) : w[j] = u[j]
      BY <1>4, <1>5, <1>6
    <2> QED
      BY <1>4, <1>5, <2>1, SeqEqual, Zenon
  <1> QED
    BY <1>2, <1>7 DEF s, t, u

-----------------------------------------------------------------------------
(***************************************************************************)
(* The inductive invariant: between two packets, memory (or scratch) is    *)
(* what the packets so far make of it, and the phase goes with the kind of *)
(* the command.                                                            *)
(***************************************************************************)
PhaseInv ==
    /\ Len(data) <= AddrSpace + 1
    /\ phase = "erase" => kind = "flash" /\ mem = base
    /\ phase = "write" => kind \in {"memory", "flash"}
    /\ phase = "read" => kind = "read" /\ outcome = "none"

ReadInv ==
    phase = "read" =>
        /\ i < amt + MaxDataLength
        /\ scratch = ReadFrom(mem, address, Smaller(i, amt))

TransferInv == TypeOK /\ PhaseInv /\ WritesPrefix /\ ReadInv /\ ReadBack

LEMMA ConstantTypes ==
    /\ SectorStride \in Nat \ {0} /\ MaxDataLength \in Nat \ {0}
    /\ AddrSize = 3 /\ MaxDataLength > AddrSize /\ MaxDataLength <= AddrSpace
    /\ InitMem \in [Addresses -> Byte] /\ MaxCommands \in Nat
  BY TransferAssumption, SpaceSize DEF AddrSize

LEMMA WriteTypes ==
    ASSUME NEW w \in Writes
    PROVE  /\ w.address \in 0 .. AddrSpace /\ w.data \in Seq(Byte)
           /\ Len(w.data) <= AddrSpace + 1
  <1>1. w \in [address : Nat, data : Seq(Byte)] /\ WriteRequest(w.address, Len(w.data))
    BY TransferAssumption
  <1> QED
    BY <1>1 DEF WriteRequest

LEMMA ReadTypes ==
    ASSUME NEW r \in Reads
    PROVE  r.address \in 0 .. AddrSpace /\ r.amt \in 1 .. AddrSpace
  BY TransferAssumption DEF ReadRequest

\* The part of a block that a packet carries.
LEMMA WriteChunkFits ==
    ASSUME data \in Seq(Byte), i \in 0 .. Len(data)
    PROVE  /\ WriteChunk \in 0 .. Len(data) - i
           /\ WriteChunk <= MaxDataLength - AddrSize
           /\ i < Len(data) => WriteChunk > 0
           /\ i + WriteChunk \in 0 .. Len(data)
  <1>1. Len(data) \in Nat
    OBVIOUS
  <1> QED
    BY <1>1, ConstantTypes DEF WriteChunk, Smaller

\* Starting a command empties scratch and the index.
LEMMA EmptySequence ==
    /\ <<>> \in Seq(Byte) /\ Len(<<>>) = 0 /\ 0 \in 0 .. 0 /\ 0 \in Nat
    /\ \A d \in Seq(Byte) : 0 \in 0 .. Len(d) /\ 0 <= Len(d)
    /\ 0 \in 0 .. AddrSpace /\ 0 \in 0 .. MaxCommands
  <1>1. \A d \in Seq(Byte) : Len(d) \in Nat
    OBVIOUS
  <1>2. <<>> \in Seq(Byte) /\ Len(<<>>) = 0
    OBVIOUS
  <1> QED
    BY <1>1, <1>2, SpaceSize, ConstantTypes

LEMMA StartTypes ==
    ASSUME TransferInv, Start
    PROVE  /\ i' = 0 /\ i' \in Nat /\ tried' = 0
           /\ scratch' \in Seq(Byte) /\ base' \in [Addresses -> Byte]
           /\ commands' \in 0 .. MaxCommands
  <1>1. commands' \in 0 .. MaxCommands
    BY ConstantTypes DEF TransferInv, TypeOK, Start
  <1> QED
    BY <1>1, EmptySequence, Zenon DEF TransferInv, TypeOK, Start

LEMMA TransferInit == Init => TransferInv
  <1> SUFFICES ASSUME Init PROVE TransferInv
    OBVIOUS
  <1>1. TypeOK
    <2>1. mem \in [Addresses -> Byte] /\ base \in [Addresses -> Byte]
      BY ConstantTypes DEF Init
    <2>2. phase = "idle"
      BY DEF Init
    <2> QED
      BY <2>1, <2>2, EmptySequence, Zenon DEF Init, TypeOK
  <1>2. PhaseInv /\ ReadInv /\ ReadBack
    BY SpaceSize DEF Init, PhaseInv, ReadInv, ReadBack
  <1>3. WritesPrefix
    <2>1. Written("memory", InitMem, 0, SubSeq(<<>>, 1, 0)) = InitMem
      BY ConstantTypes, NothingWritten
    <2> QED
      BY <2>1 DEF Init, WritesPrefix, WithPrefix
  <1> QED
    BY <1>1, <1>2, <1>3 DEF TransferInv

\* The commands that start a transfer.
LEMMA StartStep ==
    ASSUME TransferInv,
           \/ \E w \in Writes : \E k \in {"memory", "flash"} : StartWrite(k, w)
           \/ \E w \in Writes : StartProgram(w)
           \/ \E r \in Reads : StartRead(r)
    PROVE  TransferInv'
  <1>1. mem \in [Addresses -> Byte] /\ commands \in 0 .. MaxCommands
    BY DEF TransferInv, TypeOK
  <1>2. ASSUME NEW w \in Writes, NEW k \in {"memory", "flash"}, StartWrite(k, w)
        PROVE  TransferInv'
    <2>1. TypeOK'
      <3>1. /\ address' = w.address /\ data' = w.data /\ amt' = 0 /\ kind' = k
            /\ program' = FALSE /\ mem' = mem
            /\ \/ phase' = "write" /\ outcome' = "none"
               \/ phase' = "idle" /\ outcome' = "rejected"
        BY <1>2 DEF StartWrite
      <3>2. Start
        BY <1>2 DEF StartWrite
      <3> QED
        BY <1>1, <3>1, <3>2, WriteTypes, StartTypes, EmptySequence DEF TypeOK
    <2>2. PhaseInv' /\ ReadInv' /\ ReadBack'
      BY <1>2, WriteTypes DEF StartWrite, Start, PhaseInv, ReadInv, ReadBack
    <2>3. Written(k, mem, w.address, SubSeq(w.data, 1, 0)) = mem
      BY <1>1, WriteTypes, NothingWritten
    <2>4. WritesPrefix'
      BY <1>2, <2>3 DEF StartWrite, Start, WritesPrefix, WithPrefix
    <2> QED
      BY <2>1, <2>2, <2>4 DEF TransferInv
  <1>3. ASSUME NEW w \in Writes, StartProgram(w)
        PROVE  TransferInv'
    <2>1. TypeOK'
      <3>1. Start
        BY <1>3 DEF StartProgram
      <3> QED
        BY <1>1, <1>3, <3>1, WriteTypes, StartTypes, EmptySequence DEF StartProgram, TypeOK
    <2>2. PhaseInv' /\ ReadInv' /\ ReadBack' /\ WritesPrefix'
      BY <1>3, WriteTypes DEF StartProgram, Start, PhaseInv, ReadInv, ReadBack, WritesPrefix
    <2> QED
      BY <2>1, <2>2 DEF TransferInv
  <1>4. ASSUME NEW r \in Reads, StartRead(r)
        PROVE  TransferInv'
    <2>1. TypeOK'
      <3>1. Start
        BY <1>4 DEF StartRead
      <3>2. amt' \in 0 .. AddrSpace
        BY <1>4, ReadTypes DEF StartRead
      <3> QED
        BY <1>1, <1>4, <3>1, <3>2, ReadTypes, StartTypes, EmptySequence
           DEF StartRead, TypeOK
    <2>2. PhaseInv' /\ ReadBack' /\ WritesPrefix'
      BY <1>4, SpaceSize DEF StartRead, Start, PhaseInv, ReadBack, WritesPrefix
    <2>3. ReadInv'
      <3>1. ReadFrom(mem, r.address, 0) = <<>>
        BY DEF ReadFrom
      <3>2. Smaller(0, r.amt) = 0 /\ 0 < r.amt + MaxDataLength
        BY ReadTypes, ConstantTypes DEF Smaller
      <3> QED
        BY <1>4, <3>1, <3>2 DEF StartRead, Start, ReadInv
    <2> QED
      BY <2>1, <2>2, <2>3 DEF TransferInv
  <1> QED
    BY <1>2, <1>3, <1>4

LEMMA EraseStep ==
    ASSUME TransferInv, EraseNext \/ EraseDone \/ EraseOne
    PROVE  TransferInv'
  <1>1. mem \in [Addresses -> Byte] /\ commands \in 0 .. MaxCommands /\ TypeOK
    BY DEF TransferInv, TypeOK
  <1>2. CASE EraseNext
    <2>1. mem' \in [Addresses -> Byte]
      BY <1>1, <1>2, ErasedType DEF EraseNext
    <2>2. TypeOK'
      BY <1>1, <1>2, <2>1, ConstantTypes DEF EraseNext, block, TypeOK
    <2>3. PhaseInv' /\ ReadInv' /\ ReadBack'
      BY <1>2 DEF EraseNext, block, TransferInv, PhaseInv, ReadInv, ReadBack
    <2>4. WritesPrefix'
      <3>1. address' \in Nat /\ base' = mem'
        BY <1>2, <2>2 DEF EraseNext, TypeOK
      <3>2. WithPrefix(0)' = mem'
        BY <2>1, <3>1, NothingWritten DEF WithPrefix
      <3> QED
        BY <1>2, <3>2 DEF EraseNext, WritesPrefix
    <2> QED
      BY <2>2, <2>3, <2>4 DEF TransferInv
  <1>3. CASE EraseDone
    <2>1. TypeOK'
      BY <1>1, <1>3 DEF EraseDone, block, TypeOK
    <2>2. PhaseInv' /\ ReadInv' /\ ReadBack'
      BY <1>3 DEF EraseDone, block, TransferInv, PhaseInv, ReadInv, ReadBack
    <2>3. WritesPrefix'
      <3>1. WithPrefix(0)' = base'
        BY <2>1, NothingWritten DEF WithPrefix, TypeOK
      <3> QED
        BY <1>3, <3>1 DEF EraseDone, block, TransferInv, PhaseInv, WritesPrefix
    <2> QED
      BY <2>1, <2>2, <2>3 DEF TransferInv
  <1>4. CASE EraseOne
    <2>1. mem' \in [Addresses -> Byte]
      BY <1>1, <1>4, ErasedType DEF EraseOne
    <2>2. TypeOK'
      <3>1. Start /\ outcome' \in {"done", "failed"}
        BY <1>4 DEF EraseOne
      <3> QED
        BY <1>1, <1>4, <2>1, <3>1, StartTypes, EmptySequence DEF EraseOne, TypeOK
    <2>3. PhaseInv' /\ ReadInv' /\ ReadBack' /\ WritesPrefix'
      BY <1>4, SpaceSize DEF EraseOne, Start, PhaseInv, ReadInv, ReadBack, WritesPrefix
    <2> QED
      BY <2>2, <2>3 DEF TransferInv
  <1> QED
    BY <1>2, <1>3, <1>4

\* What was written so far, and the packet, are a longer part of the block.
LEMMA PacketWritten ==
    ASSUME TransferInv, phase = "write"
    PROVE  /\ i \in 0 .. Len(data) /\ WriteChunk \in 0 .. Len(data) - i
           /\ i + WriteChunk \in 0 .. Len(data)
           /\ PacketAddr(address + i) = address + i
           /\ Written(kind, mem, PacketAddr(address + i),
                      SubSeq(data, i + 1, i + WriteChunk)) = WithPrefix(i + WriteChunk)
           /\ WithPrefix(i + WriteChunk) \in [Addresses -> Byte]
  <1>1. /\ data \in Seq(Byte) /\ i \in 0 .. Len(data) /\ address \in 0 .. AddrSpace
        /\ base \in [Addresses -> Byte]
    BY DEF TransferInv, TypeOK
  <1>2. WriteChunk \in 0 .. Len(data) - i /\ i + WriteChunk \in 0 .. Len(data)
    BY <1>1, WriteChunkFits
  <1>3. PacketAddr(address + i) = address + i
    <2>1. i < AddrSpace + AddrSpace
      BY <1>1, ConstantTypes, SpaceSize DEF TransferInv, PhaseInv
    <2> QED
      BY <1>1, <2>1, PacketAddrExact
  <1>4. mem = Written(kind, base, address, SubSeq(data, 1, i))
    BY DEF TransferInv, PhaseInv, WritesPrefix, WithPrefix
  <1>5. address \in Nat
    BY <1>1, SpaceSize
  <1>6. Written(kind, mem, address + i, SubSeq(data, i + 1, i + WriteChunk))
        = WithPrefix(i + WriteChunk)
    BY <1>1, <1>2, <1>4, <1>5, WrittenByParts, Zenon DEF WithPrefix
  <1>7. WithPrefix(i + WriteChunk) \in [Addresses -> Byte]
    <2>1. SubSeq(data, 1, i + WriteChunk) \in Seq(Byte)
      BY <1>1, <1>2, PartsOf, Zenon
    <2> QED
      BY <1>1, <1>5, <2>1, WrittenType DEF WithPrefix
  <1> QED
    BY <1>1, <1>2, <1>3, <1>6, <1>7

LEMMA WriteStep ==
    ASSUME TransferInv, WritePacket \/ WriteDone
    PROVE  TransferInv'
  <1>1. TypeOK /\ PhaseInv
    BY DEF TransferInv
  <1>2. CASE WritePacket
    <2> DEFINE n == i + WriteChunk
    <2>1. /\ i \in 0 .. Len(data) /\ n \in 0 .. Len(data)
          /\ mem = WithPrefix(i) /\ kind \in {"memory", "flash"}
          /\ Written(kind, mem, PacketAddr(address + i),
                     SubSeq(data, i + 1, i + WriteChunk)) = WithPrefix(n)
          /\ WithPrefix(n) \in [Addresses -> Byte]
      BY <1>2, PacketWritten DEF WritePacket, TransferInv, WritesPrefix, PhaseInv
    <2>2. /\ UNCHANGED <<block, scratch, base, commands>> /\ i' = n /\ tried' = i
          /\ \/ mem' = WithPrefix(n) /\ UNCHANGED <<phase, outcome>> /\ phase = "write"
             \/ /\ mem' \in {WithPrefix(i), WithPrefix(n)}
                /\ phase' = "idle" /\ outcome' = "failed"
      BY <1>2, <2>1 DEF WritePacket
    <2>3. WithPrefix(n) = WithPrefix(i)' /\ WithPrefix(i) = WithPrefix(tried)'
      BY <2>2 DEF WithPrefix, block
    <2>4. mem' \in [Addresses -> Byte]
      BY <1>1, <2>1, <2>2 DEF TypeOK
    <2> HIDE DEF n
    <2>5. TypeOK'
      <3>1. i' \in Nat /\ i' <= Len(data') /\ tried' \in 0 .. Len(data')
        BY <2>1, <2>2 DEF block
      <3> QED
        BY <1>1, <2>2, <2>4, <3>1 DEF TypeOK, block
    <2>6. PhaseInv' /\ ReadInv' /\ ReadBack'
      BY <1>1, <2>1, <2>2 DEF PhaseInv, ReadInv, ReadBack, block
    <2>7. WritesPrefix'
      BY <2>2, <2>3 DEF WritesPrefix
    <2> QED
      BY <2>5, <2>6, <2>7 DEF TransferInv
  <1>3. CASE WriteDone
    <2>1. TypeOK'
      BY <1>1, <1>3 DEF WriteDone, TypeOK, block
    <2>2. PhaseInv' /\ ReadInv' /\ ReadBack'
      BY <1>1, <1>3 DEF WriteDone, PhaseInv, ReadInv, ReadBack, block
    <2>3. mem = WithPrefix(i) /\ i = Len(data)
      BY <1>3 DEF WriteDone, TransferInv, PhaseInv, WritesPrefix
    <2>4. WithPrefix(i)' = WithPrefix(i) /\ WithPrefix(Len(data))' = WithPrefix(Len(data))
      BY <1>3 DEF WriteDone, WithPrefix, block
    <2>5. WritesPrefix'
      BY <1>3, <2>3, <2>4 DEF WriteDone, WritesPrefix
    <2> QED
      BY <2>1, <2>2, <2>5 DEF TransferInv
  <1> QED
    BY <1>2, <1>3

LEMMA ReadStep ==
    ASSUME TransferInv, ReadPacket \/ ReadDone
    PROVE  TransferInv'
  <1>1. TypeOK /\ PhaseInv /\ kind = "read" /\ outcome = "none" /\ phase = "read"
    BY DEF TransferInv, PhaseInv, ReadPacket, ReadDone
  <1>2. /\ i \in Nat /\ amt \in 0 .. AddrSpace /\ address \in 0 .. AddrSpace
        /\ address \in Nat /\ amt \in Nat
        /\ mem \in [Addresses -> Byte]
        /\ scratch = ReadFrom(mem, address, Smaller(i, amt))
    BY <1>1, SpaceSize DEF TypeOK, TransferInv, ReadInv
  <1>3. WritesPrefix'
    BY <1>1 DEF ReadPacket, ReadDone, WritesPrefix, block
  <1>4. CASE ReadPacket
    <2>1. ReadChunk \in Nat /\ i < amt
      BY <1>2, <1>4, ConstantTypes DEF ReadPacket, ReadChunk, Smaller
    <2>2. PacketAddr(address + i) = address + i
      <3>1. i < AddrSpace + AddrSpace
        BY <1>2, <2>1, SpaceSize
      <3> QED
        BY <1>2, <3>1, PacketAddrExact
    <2>3. Smaller(i, amt) = i /\ Smaller(i + MaxDataLength, amt) = i + ReadChunk
      BY <1>2, <2>1, ConstantTypes DEF Smaller, ReadChunk
    <2>4. scratch \o ReadFrom(mem, PacketAddr(address + i), ReadChunk)
          = ReadFrom(mem, address, Smaller(i + MaxDataLength, amt))
      <3>1. ReadFrom(mem, address, i) \o ReadFrom(mem, address + i, ReadChunk)
            = ReadFrom(mem, address, i + ReadChunk)
        BY <1>2, <2>1, ReadByParts, Zenon
      <3> QED
        BY <1>2, <2>2, <2>3, <3>1, Zenon
    <2>5. i + ReadChunk \in Nat /\ i + MaxDataLength \in Nat
          /\ i + MaxDataLength < amt + MaxDataLength
      BY <1>2, <2>1, ConstantTypes
    <2>6. ReadFrom(mem, address, i + ReadChunk) \in Seq(Byte)
      BY <1>2, <2>5, ReadByParts
    <2>7. TypeOK'
      BY <1>1, <1>4, <2>3, <2>4, <2>5, <2>6 DEF ReadPacket, TypeOK, block
    <2>8. PhaseInv' /\ ReadBack'
      BY <1>1, <1>4 DEF ReadPacket, PhaseInv, ReadBack, block
    <2>9. ReadInv'
      BY <1>4, <2>4, <2>5 DEF ReadPacket, ReadInv, block
    <2> QED
      BY <1>3, <2>7, <2>8, <2>9 DEF TransferInv
  <1>5. CASE ReadDone
    <2>1. TypeOK' /\ PhaseInv' /\ ReadInv'
      BY <1>1, <1>5 DEF ReadDone, TypeOK, PhaseInv, ReadInv, block
    <2>2. Smaller(i, amt) = amt
      BY <1>2, <1>5 DEF ReadDone, Smaller
    <2>3. ReadBack'
      BY <1>2, <1>5, <2>2 DEF ReadDone, ReadBack, block
    <2> QED
      BY <1>3, <2>1, <2>3 DEF TransferInv
  <1> QED
    BY <1>4, <1>5

LEMMA TransferStep == TransferInv /\ [Next]_vars => TransferInv'
  <1>1. ASSUME TransferInv, UNCHANGED vars
        PROVE  TransferInv'
    BY <1>1 DEF vars, block, TransferInv, TypeOK, PhaseInv, WritesPrefix, WithPrefix,
                ReadInv, ReadBack
  <1>2. ASSUME TransferInv, Next
        PROVE  TransferInv'
    BY <1>2, StartStep, EraseStep, WriteStep, ReadStep DEF Next, Transfer
  <1> QED
    BY <1>1, <1>2

\* The invariant of the transfers holds between any two packets (target_write,
\* target_read_memory, flash_program).
THEOREM TransferInvariant == Spec => []TransferInv
  BY TransferInit, TransferStep, PTL DEF Spec

\* The command, its block and memory keep their types.
THEOREM TransferTypeOK == Spec => []TypeOK
  <1>1. TransferInv => TypeOK
    BY DEF TransferInv
  <1> QED
    BY <1>1, TransferInvariant, PTL

(***************************************************************************)
(* Packet by packet, failed ones included, a write lays a prefix of its    *)
(* block over memory, wherever it starts, crosses or wraps (target_write). *)
(***************************************************************************)
THEOREM TransferWritesPrefix == Spec => []WritesPrefix
  <1>1. TransferInv => WritesPrefix
    BY DEF TransferInv
  <1> QED
    BY <1>1, TransferInvariant, PTL

(***************************************************************************)
(* A read that succeeds returns the bytes asked for, whatever their number *)
(* leaves for the last packet (target_read_memory).                        *)
(***************************************************************************)
THEOREM TransferReadBack == Spec => []ReadBack
  <1>1. TransferInv => ReadBack
    BY DEF TransferInv
  <1> QED
    BY <1>1, TransferInvariant, PTL

(***************************************************************************)
(* No packet of a write or a read overflows its buffer or its address, and *)
(* each carries something.                                                 *)
(***************************************************************************)
THEOREM TransferPacketsFit == Spec => []PacketsFit
  <1>1. ASSUME TransferInv
        PROVE  PacketsFit
    <2>1. TypeOK
      BY <1>1 DEF TransferInv
    <2>2. ASSUME phase = "write", i < Len(data)
          PROVE  WriteChunk > 0 /\ AddrSize + WriteChunk <= MaxDataLength
      <3>1. data \in Seq(Byte) /\ i \in 0 .. Len(data)
        BY <2>1, <2>2 DEF TypeOK
      <3> QED
        BY <2>2, <3>1, WriteChunkFits, ConstantTypes
    <2>3. ASSUME phase = "read", i < amt
          PROVE  ReadChunk > 0 /\ AddrSize + 1 <= MaxDataLength
      BY <2>1, <2>3, ConstantTypes DEF TypeOK, ReadChunk, Smaller
    <2>4. ASSUME phase \in {"write", "read"}
          PROVE  PacketAddr(address + i) = address + i
      <3>1. CASE phase = "write"
        BY <1>1, <3>1, PacketWritten
      <3>2. CASE phase = "read"
        <4>1. i \in Nat /\ address \in 0 .. AddrSpace /\ amt \in 0 .. AddrSpace
          BY <2>1 DEF TypeOK
        <4>2. i < AddrSpace + AddrSpace
          BY <1>1, <3>2, <4>1, ConstantTypes, SpaceSize DEF TransferInv, ReadInv
        <4> QED
          BY <4>1, <4>2, PacketAddrExact
      <3> QED
        BY <2>4, <3>1, <3>2
    <2> QED
      BY <2>2, <2>3, <2>4 DEF PacketsFit
  <1> QED
    BY <1>1, TransferInvariant, PTL

(***************************************************************************)
(* A step changes RAM only for a memory command and flash only for a flash *)
(* command, whatever the range of the block; and only erasing sets a bit   *)
(* of the flash (cmd_write, cmd_flash, cmd_erase_sector).                  *)
(***************************************************************************)
THEOREM TransferRightChip == Spec => RightChip
  <1> DEFINE Changed(x) ==
        IF IsRam(x) THEN phase = "write" /\ kind = "memory"
        ELSE \/ Erasing /\ mem'[x] = Erased
             \/ phase = "write" /\ kind = "flash" /\ mem'[x] \subseteq mem[x]
  <1>1. ASSUME TransferInv, [Next]_vars, NEW x \in Addresses, mem'[x] # mem[x]
        PROVE  Changed(x)
    <2>1. mem \in [Addresses -> Byte]
      BY <1>1 DEF TransferInv, TypeOK
    <2>2. \A a : /\ SectorErased(mem, a)[x] # mem[x]
                    => IsFlash(x) /\ SectorErased(mem, a)[x] = Erased
                 /\ ChipErased(mem)[x] # mem[x]
                    => IsFlash(x) /\ ChipErased(mem)[x] = Erased
      BY DEF SectorErased, ChipErased
    <2>3. CASE EraseNext
      BY <1>1, <2>2, <2>3 DEF EraseNext, Erasing, IsFlash
    <2>4. CASE EraseOne
      <3>1. kind' = "erase"
        BY <2>4 DEF EraseOne
      <3>2. PICK m : /\ m \in {SectorErased(mem, PacketAddr(a)) :
                                  a \in {y \in 0 .. AddrSpace : EraseRequest(y)}}
                                \cup {ChipErased(mem)}
                     /\ mem' \in {mem, m}
        BY <2>4 DEF EraseOne
      <3> QED
        BY <1>1, <2>2, <3>1, <3>2 DEF Erasing, IsFlash
    <2>5. CASE WritePacket
      <3>1. phase = "write" /\ kind \in {"memory", "flash"}
        BY <1>1, <2>5 DEF WritePacket, TransferInv, PhaseInv
      <3>2. PICK a, d : mem' \in {mem, Written(kind, mem, a, d)}
        BY <2>5 DEF WritePacket
      <3>3. /\ RamWritten(mem, a, d)[x] # mem[x] => IsRam(x)
            /\ FlashWritten(mem, a, d)[x] # mem[x]
                  => IsFlash(x) /\ FlashWritten(mem, a, d)[x] \subseteq mem[x]
        BY DEF RamWritten, FlashWritten
      <3> QED
        BY <1>1, <3>1, <3>2, <3>3 DEF Written, IsFlash
    <2>6. mem' # mem => EraseNext \/ EraseOne \/ WritePacket
      BY <1>1 DEF Next, Transfer, StartWrite, StartProgram, StartRead, EraseDone,
                  WriteDone, ReadPacket, ReadDone, vars
    <2> QED
      BY <1>1, <2>3, <2>4, <2>5, <2>6
  <1>2. TransferInv /\ [Next]_vars
        => [\A x \in Addresses : mem'[x] # mem[x] => Changed(x)]_vars
    BY <1>1
  <1> QED
    BY <1>2, TransferInvariant, PTL DEF Spec, RightChip
=============================================================================
