-------------------------- MODULE DebugLinkProofs ---------------------------
(***************************************************************************)
(* Proofs about the serial link, for every set of requests, every size of  *)
(* the receive buffer that holds one, and any number of commands and       *)
(* faults.                                                                 *)
(***************************************************************************)
EXTENDS DebugLink, SequenceTheorems, Integers, TLAPS

Mark(k) == [b : Byte, n : 1 .. k]

(***************************************************************************)
(* What holds in every session.                                            *)
(***************************************************************************)
LineInv ==
    /\ toDev \in Seq(Mark(calls)) /\ rx \in Seq(Mark(calls)) /\ msg \in Seq(Mark(calls))
    /\ out \in Seq(Mark(calls)) /\ toHost \in Seq(Mark(calls))
    /\ reply \in Seq(Mark(calls))

FlagInv ==
    /\ open \in BOOLEAN /\ disturbed \in BOOLEAN
    /\ host \in {"idle", "send", "read"} /\ dev \in {"read", "handle", "reply", "runaway"}
    /\ calls \in 0 .. MaxCalls /\ faults \in 0 .. MaxFaults
    /\ dev = "reply" <=> out # <<>>
    /\ dev = "handle" <=> IsWhole(msg)
    /\ last.ok \in BOOLEAN
    /\ \A e \in log : e.n \in 1 .. calls

HostInv ==
    /\ host = "idle" => pkt = <<>> /\ sent = 0 /\ reply = <<>>
    /\ host # "idle" => open /\ pkt \in Requests /\ calls > 0
    /\ host = "send" => sent \in 0 .. Len(pkt) - 1
    /\ host = "read" => sent = Len(pkt)

(***************************************************************************)
(* What holds in a session that no fault disturbed.  A request travels     *)
(* from glydb over the line and the receive buffer to the main loop, and a *)
(* reply back; the bytes of each lie in that order in three places.        *)
(***************************************************************************)
Piece(s, k, q, c) == \A j \in 1 .. Len(s) : s[j].b = q[k + j] /\ s[j].n = c

Spread(s, t, u, q, c) == /\ Piece(s, 0, q, c)
                         /\ Piece(t, Len(s), q, c)
                         /\ Piece(u, Len(s) + Len(t), q, c)

RequestBytes == Len(msg) + Len(rx) + Len(toDev)
ReplyBytes == Len(reply) + Len(toHost) + Len(out)

\* Nothing but a part of one request is under way to the main loop.
Arriving == \E q \in Requests \cup {<<>>} :
                RequestBytes <= Len(q) /\ Spread(msg, rx, toDev, q, calls)

\* The request has not been handled.
Asking ==
    /\ RequestBytes = sent /\ Spread(msg, rx, toDev, pkt, calls)
    /\ dev \in {"read", "handle"}
    /\ ReplyBytes = 0
    /\ \A e \in log : e.n # calls

Answers(p) == Replies(p[1], SubSeq(p, 3, Len(p))) \cup BusFailures

\* It has been handled, once, and its reply is under way.
Answering ==
    /\ RequestBytes = 0 /\ dev \in {"read", "reply"}
    /\ \E r \in Answers(pkt) :
          /\ ReplyBytes = Len(r) /\ Spread(reply, toHost, out, r, calls)
          /\ Len(reply) < Len(r)
          /\ \E e \in log : e.n = calls /\ e.pkt = pkt /\ e.ok = (r[1] = Success)
          /\ \A e \in log : e.n = calls => e.ok = (r[1] = Success)

SessionInv ==
    ~disturbed =>
        /\ Arriving
        /\ open /\ host = "idle" =>
              RequestBytes = 0 /\ ReplyBytes = 0 /\ dev = "read"
        /\ host = "send" => Asking
        /\ host = "read" => Asking \/ Answering

LinkInv == LineInv /\ FlagInv /\ HostInv /\ SessionInv /\ OwnReply

-----------------------------------------------------------------------------
(***************************************************************************)
(* Bytes that move on.                                                     *)
(***************************************************************************)

LEMMA MarkGrows == \A k \in Nat : Seq(Mark(k)) \subseteq Seq(Mark(k + 1))
  <1> TAKE k \in Nat
  <1>1. Mark(k) \subseteq Mark(k + 1)
    BY DEF Mark
  <1> QED
    BY <1>1, SeqMonotonic

LEMMA TakeByte ==
    ASSUME NEW M, NEW s \in Seq(M), s # <<>>
    PROVE  /\ Head(s) \in M /\ Head(s) = s[1] /\ Tail(s) \in Seq(M)
           /\ Len(s) \in Nat /\ Len(s) > 0
           /\ Len(Tail(s)) = Len(s) - 1
           /\ \A j \in 1 .. Len(s) - 1 : Tail(s)[j] = s[j + 1]
  <1>1. Len(s) \in Nat /\ Len(s) > 0
    OBVIOUS
  <1>2. Head(s) \in M /\ Tail(s) \in Seq(M) /\ Len(Tail(s)) = Len(s) - 1
        /\ \A j \in 1 .. Len(Tail(s)) : Tail(s)[j] = s[j + 1]
    BY HeadTailProperties
  <1>3. Head(s) = s[1]
    OBVIOUS
  <1> QED
    BY <1>1, <1>2, <1>3

LEMMA PutByte ==
    ASSUME NEW M, NEW s \in Seq(M), NEW x \in M
    PROVE  /\ Append(s, x) \in Seq(M) /\ Append(s, x) # <<>>
           /\ Len(Append(s, x)) = Len(s) + 1 /\ Len(s) \in Nat
           /\ Append(s, x)[Len(s) + 1] = x
           /\ \A j \in 1 .. Len(s) : Append(s, x)[j] = s[j]
  BY AppendProperties

\* A byte taken from the second place and put to the first.
LEMMA MoveToFirst ==
    ASSUME NEW M, NEW s \in Seq(M), NEW t \in Seq(M), NEW u \in Seq(M), t # <<>>,
           NEW q, NEW c, Spread(s, t, u, q, c)
    PROVE  Spread(Append(s, Head(t)), Tail(t), u, q, c)
  <1> DEFINE s1 == Append(s, Head(t))
             t1 == Tail(t)
  <1>1. /\ Len(s1) = Len(s) + 1 /\ Len(s) \in Nat
        /\ s1[Len(s) + 1] = t[1] /\ \A j \in 1 .. Len(s) : s1[j] = s[j]
    BY TakeByte, PutByte
  <1>2. /\ Len(t) \in Nat /\ Len(t) > 0 /\ Len(t1) = Len(t) - 1
        /\ \A j \in 1 .. Len(t) - 1 : t1[j] = t[j + 1]
    BY TakeByte
  <1> HIDE DEF s1, t1
  <1>3. Piece(s1, 0, q, c)
    <2>1. SUFFICES ASSUME NEW j \in 1 .. Len(s1)
                   PROVE  s1[j].b = q[0 + j] /\ s1[j].n = c
      BY DEF Piece
    <2>2. CASE j = Len(s) + 1
      <3>1. s1[j] = t[1] /\ 1 \in 1 .. Len(t) /\ 0 + j = Len(s) + 1
        BY <1>1, <1>2, <2>2
      <3> QED
        BY <3>1 DEF Spread, Piece
    <2>3. CASE j \in 1 .. Len(s)
      BY <1>1, <2>3 DEF Spread, Piece
    <2> QED
      BY <1>1, <2>1, <2>2, <2>3
  <1>4. Piece(t1, Len(s1), q, c)
    <2>1. SUFFICES ASSUME NEW j \in 1 .. Len(t1)
                   PROVE  t1[j].b = q[Len(s1) + j] /\ t1[j].n = c
      BY DEF Piece
    <2>2. j + 1 \in 1 .. Len(t) /\ t1[j] = t[j + 1]
      BY <1>2
    <2>3. Len(s1) + j = Len(s) + (j + 1)
      BY <1>1, <1>2
    <2> QED
      BY <2>2, <2>3 DEF Spread, Piece
  <1>5. Piece(u, Len(s1) + Len(t1), q, c)
    <2>1. Len(s1) + Len(t1) = Len(s) + Len(t)
      BY <1>1, <1>2
    <2> QED
      BY <2>1 DEF Spread
  <1> QED
    BY <1>3, <1>4, <1>5 DEF Spread, s1, t1

\* A byte taken from the third place and put to the second.
LEMMA MoveToSecond ==
    ASSUME NEW M, NEW s \in Seq(M), NEW t \in Seq(M), NEW u \in Seq(M), u # <<>>,
           NEW q, NEW c, Spread(s, t, u, q, c)
    PROVE  Spread(s, Append(t, Head(u)), Tail(u), q, c)
  <1> DEFINE t1 == Append(t, Head(u))
             u1 == Tail(u)
  <1>1. /\ Len(t1) = Len(t) + 1 /\ Len(t) \in Nat /\ Len(s) \in Nat
        /\ t1[Len(t) + 1] = u[1] /\ \A j \in 1 .. Len(t) : t1[j] = t[j]
    BY TakeByte, PutByte
  <1>2. /\ Len(u) \in Nat /\ Len(u) > 0 /\ Len(u1) = Len(u) - 1
        /\ \A j \in 1 .. Len(u) - 1 : u1[j] = u[j + 1]
    BY TakeByte
  <1> HIDE DEF t1, u1
  <1>3. Piece(t1, Len(s), q, c)
    <2>1. SUFFICES ASSUME NEW j \in 1 .. Len(t1)
                   PROVE  t1[j].b = q[Len(s) + j] /\ t1[j].n = c
      BY DEF Piece
    <2>2. CASE j = Len(t) + 1
      <3>1. t1[j] = u[1] /\ 1 \in 1 .. Len(u) /\ Len(s) + j = Len(s) + Len(t) + 1
        BY <1>1, <1>2, <2>2
      <3> QED
        BY <3>1 DEF Spread, Piece
    <2>3. CASE j \in 1 .. Len(t)
      BY <1>1, <2>3 DEF Spread, Piece
    <2> QED
      BY <1>1, <2>1, <2>2, <2>3
  <1>4. Piece(u1, Len(s) + Len(t1), q, c)
    <2>1. SUFFICES ASSUME NEW j \in 1 .. Len(u1)
                   PROVE  u1[j].b = q[Len(s) + Len(t1) + j] /\ u1[j].n = c
      BY DEF Piece
    <2>2. /\ j + 1 \in 1 .. Len(u) /\ u1[j] = u[j + 1]
          /\ Len(s) + Len(t1) + j = Len(s) + Len(t) + (j + 1)
      BY <1>1, <1>2, <2>1
    <2> QED
      BY <2>2 DEF Spread, Piece
  <1> QED
    BY <1>3, <1>4 DEF Spread, t1, u1

\* A byte of the whole that is put at the end of the third place.
LEMMA PutLast ==
    ASSUME NEW M, NEW s \in Seq(M), NEW t \in Seq(M), NEW u \in Seq(M), NEW x \in M,
           NEW q, NEW c, Spread(s, t, u, q, c),
           x.b = q[Len(s) + Len(t) + Len(u) + 1], x.n = c
    PROVE  Spread(s, t, Append(u, x), q, c)
  <1> DEFINE u1 == Append(u, x)
  <1>1. /\ Len(u1) = Len(u) + 1 /\ Len(u) \in Nat /\ Len(s) \in Nat /\ Len(t) \in Nat
        /\ u1[Len(u) + 1] = x /\ \A j \in 1 .. Len(u) : u1[j] = u[j]
    BY PutByte
  <1> HIDE DEF u1
  <1>2. SUFFICES ASSUME NEW j \in 1 .. Len(u1)
                 PROVE  u1[j].b = q[Len(s) + Len(t) + j] /\ u1[j].n = c
    BY DEF Spread, Piece, u1
  <1>3. CASE j = Len(u) + 1
    <2>1. u1[j] = x /\ Len(s) + Len(t) + j = Len(s) + Len(t) + Len(u) + 1
      BY <1>1, <1>3
    <2> QED
      BY <2>1
  <1>4. CASE j \in 1 .. Len(u)
    BY <1>1, <1>4 DEF Spread, Piece
  <1> QED
    BY <1>1, <1>2, <1>3, <1>4

LEMMA NoBytes ==
    ASSUME NEW M, NEW s \in Seq(M)
    PROVE  /\ Len(s) \in Nat /\ (Len(s) = 0 <=> s = <<>>)
           /\ <<>> \in Seq(M) /\ Len(<<>>) = 0
  OBVIOUS

-----------------------------------------------------------------------------
(***************************************************************************)
(* Requests and replies.                                                   *)
(***************************************************************************)

LEMMA RequestShape ==
    ASSUME NEW p \in Requests
    PROVE  /\ p \in Seq(Byte) /\ Len(p) \in Nat /\ Len(p) >= 2 /\ Len(p) = 2 + p[2]
           /\ Len(p) <= Capacity /\ \A j \in 1 .. Len(p) : p[j] \in Byte
           /\ p[1] \in {Write, WriteFlash} => p[2] >= AddrSize
  <1>1. p \in Seq(Byte)
    BY LinkAssumption
  <1> QED
    BY <1>1, LinkAssumption, ElementOfSeq

\* A message that is whole is a sequence of bytes as long as it says.
LEMMA MessageShape ==
    ASSUME LineInv, FlagInv, dev = "handle"
    PROVE  /\ Bytes(msg) \in Seq(Byte) /\ Len(Bytes(msg)) = Len(msg)
           /\ Len(msg) \in Nat /\ Len(msg) >= 2 /\ Len(msg) = 2 + Bytes(msg)[2]
           /\ \A j \in 1 .. Len(msg) : Bytes(msg)[j] = msg[j].b
           /\ Bytes(msg)[1] \in Byte
           /\ SubSeq(Bytes(msg), 3, Len(Bytes(msg))) \in Seq(Byte)
           /\ Len(SubSeq(Bytes(msg), 3, Len(Bytes(msg)))) = Len(msg) - 2
           /\ msg[1].n \in 1 .. calls
  <1>1. msg \in Seq(Mark(calls)) /\ Len(msg) \in Nat /\ IsWhole(msg)
    BY DEF LineInv, FlagInv
  <1>2. \A j \in 1 .. Len(msg) : msg[j] \in Mark(calls)
    BY <1>1, ElementOfSeq
  <1>3. \A j \in 1 .. Len(msg) : msg[j].b \in Byte /\ msg[j].n \in 1 .. calls
    BY <1>2 DEF Mark
  <1>4. /\ Bytes(msg) \in Seq(Byte) /\ Len(Bytes(msg)) = Len(msg)
        /\ \A j \in 1 .. Len(msg) : Bytes(msg)[j] = msg[j].b
    BY <1>1, <1>3 DEF Bytes
  <1>5. Len(msg) >= 2 /\ Len(msg) = 2 + msg[2].b /\ 1 \in 1 .. Len(msg) /\ 2 \in 1 .. Len(msg)
    BY <1>1 DEF IsWhole
  <1>6. /\ SubSeq(Bytes(msg), 3, Len(Bytes(msg))) \in Seq(Byte)
        /\ Len(SubSeq(Bytes(msg), 3, Len(Bytes(msg)))) = Len(msg) - 2
    <2> DEFINE m == Bytes(msg)
    <2>1. \A j \in 3 .. Len(m) : m[j] \in Byte
      BY <1>3, <1>4
    <2>2. Len(m) \in Int /\ 3 \in Int /\ Len(m) >= 2
      BY <1>4, <1>5
    <2>3. /\ SubSeq(m, 3, Len(m)) \in Seq(Byte)
          /\ Len(SubSeq(m, 3, Len(m))) = IF 3 <= Len(m) THEN Len(m) - 3 + 1 ELSE 0
      BY <2>1, <2>2, SubSeqProperties
    <2> QED
      BY <1>4, <2>2, <2>3
  <1> QED
    BY <1>1, <1>3, <1>4, <1>5, <1>6

LEMMA ReadAmount ==
    ASSUME NEW d \in Seq(Byte), NEW r \in CmdRead(d)
    PROVE  \E a \in Byte : r = <<Success, a>> \o [j \in 1 .. a |-> ReadByte]
  <1> DEFINE amounts == IF Len(d) > AddrSize THEN {d[AddrSize + 1]} ELSE StackBytes
  <1>1. amounts \subseteq Byte
    <2>1. ASSUME Len(d) > AddrSize
          PROVE  d[AddrSize + 1] \in Byte
      <3>1. AddrSize + 1 \in 1 .. Len(d)
        BY <2>1 DEF AddrSize
      <3> QED
        BY <3>1, ElementOfSeq
    <2> QED
      BY <2>1, LinkAssumption
  <1> HIDE DEF amounts
  <1>2. CmdRead(d) = {<<Success, a>> \o [j \in 1 .. a |-> ReadByte] : a \in amounts}
    BY DEF CmdRead, amounts
  <1>3. PICK a \in amounts : r = <<Success, a>> \o [j \in 1 .. a |-> ReadByte]
    BY <1>2, Zenon
  <1> QED
    BY <1>1, <1>3

\* The reply to each command; every other command is unknown.
LEMMA RepliesTo ==
    /\ Read = 3 /\ FlashId = 5
    /\ \A d : Replies(Read, d) = CmdRead(d)
    /\ \A d : Replies(FlashId, d) = {<<Success, 2, 191, 181>>}
  <1>1. \A d : Replies(3, d) = CmdRead(d)
    BY DEF Replies, Read, FlashId, Ping, Write, WriteFlash, EraseSector, EraseChip
  <1>2. \A d : Replies(5, d) = {<<Success, 2, 191, 181>>}
    BY DEF Replies, Read, FlashId, Ping, Write, WriteFlash, EraseSector, EraseChip
  <1> QED
    BY <1>1, <1>2 DEF Read, FlashId

\* Every reply is as long as its second byte says, and its first byte is the
\* status: success, or another.
LEMMA ReplyShape ==
    ASSUME NEW cmd \in Byte, NEW d \in Seq(Byte), NEW r \in Replies(cmd, d)
    PROVE  /\ r \in Seq(Byte) /\ Len(r) \in Nat /\ Len(r) >= 2 /\ Len(r) = 2 + r[2]
           /\ (r[1] = Success) = (cmd \in Ping .. EraseChip)
  <1>1. CASE cmd = Read
    <2>1. PICK a \in Byte : r = <<Success, a>> \o [j \in 1 .. a |-> ReadByte]
      BY <1>1, RepliesTo, ReadAmount
    <2> DEFINE h == <<Success, a>>
               t == [j \in 1 .. a |-> ReadByte]
    <2>2. h \in Seq(Byte) /\ Len(h) = 2 /\ h[1] = Success /\ h[2] = a
      BY DEF Success, Byte
    <2>3. t \in Seq(Byte) /\ Len(t) = a
      BY LinkAssumption DEF Byte
    <2> HIDE DEF h, t
    <2>4. /\ h \o t \in Seq(Byte) /\ Len(h \o t) = Len(h) + Len(t)
          /\ \A j \in 1 .. Len(h) + Len(t) :
                (h \o t)[j] = IF j <= Len(h) THEN h[j] ELSE t[j - Len(h)]
      BY <2>2, <2>3, ConcatProperties, Zenon
    <2>5. /\ h \o t \in Seq(Byte) /\ Len(h \o t) = 2 + a
          /\ (h \o t)[1] = Success /\ (h \o t)[2] = a
      BY <2>2, <2>3, <2>4 DEF Byte
    <2>6. cmd \in Ping .. EraseChip
      BY <1>1 DEF Read, Ping, EraseChip
    <2> QED
      BY <2>1, <2>5, <2>6 DEF h, t, Byte
  <1>2. CASE cmd = FlashId
    <2>1. r = <<Success, 2, 191, 181>>
      BY <1>2, RepliesTo
    <2> QED
      BY <1>2, <2>1 DEF FlashId, Ping, EraseChip, Success, Byte
  <1>3. CASE cmd \in {Ping, Write, WriteFlash, EraseSector, EraseChip}
    <2>1. r = <<Success, 0>>
      BY <1>3 DEF Replies, Read, FlashId, Ping, Write, WriteFlash, EraseSector, EraseChip
    <2> QED
      BY <1>3, <2>1 DEF Ping, Write, WriteFlash, EraseSector, EraseChip, Success, Byte
  <1>4. CASE cmd \notin {Read, FlashId, Ping, Write, WriteFlash, EraseSector, EraseChip}
    <2>1. r = <<UnknownCmd, 0>>
      BY <1>4 DEF Replies
    <2>2. cmd \notin Ping .. EraseChip
      BY <1>4 DEF Ping, Write, Read, WriteFlash, FlashId, EraseSector, EraseChip, Byte
    <2> QED
      BY <2>1, <2>2 DEF UnknownCmd, Success, Byte
  <1> QED
    BY <1>1, <1>2, <1>3, <1>4

LEMMA FailureShape ==
    ASSUME NEW r \in BusFailures
    PROVE  /\ r \in Seq(Byte) /\ Len(r) \in Nat /\ Len(r) >= 2 /\ Len(r) = 2 + r[2]
           /\ (r[1] = Success) = FALSE
  <1>1. CASE r = <<3, 0>>
    BY <1>1 DEF Success, Byte
  <1>2. CASE r = <<4, 0>>
    BY <1>2 DEF Success, Byte
  <1> QED
    BY <1>1, <1>2 DEF BusFailures, BusTimeout, BusAcquired

LEMMA TaggedBytes ==
    ASSUME NEW r \in Seq(Byte), NEW k \in Nat, NEW c \in 1 .. k
    PROVE  /\ Tagged(r, c) \in Seq(Mark(k)) /\ Len(Tagged(r, c)) = Len(r)
           /\ Piece(Tagged(r, c), 0, r, c)
  <1>1. \A j \in 1 .. Len(r) : r[j] \in Byte
    BY ElementOfSeq
  <1>2. \A j \in 1 .. Len(r) : [b |-> r[j], n |-> c] \in Mark(k)
    BY <1>1 DEF Mark
  <1>3. Len(r) \in Nat
    OBVIOUS
  <1>4. /\ Tagged(r, c) \in Seq(Mark(k)) /\ Len(Tagged(r, c)) = Len(r)
        /\ \A j \in 1 .. Len(r) : Tagged(r, c)[j] = [b |-> r[j], n |-> c]
    BY <1>2, <1>3 DEF Tagged
  <1>5. Piece(Tagged(r, c), 0, r, c)
    <2>1. SUFFICES ASSUME NEW j \in 1 .. Len(r)
                   PROVE  Tagged(r, c)[j].b = r[0 + j] /\ Tagged(r, c)[j].n = c
      BY <1>4 DEF Piece
    <2>2. Tagged(r, c)[j] = [b |-> r[j], n |-> c] /\ 0 + j = j
      BY <1>3, <1>4
    <2> QED
      BY <2>2
  <1> QED
    BY <1>4, <1>5

-----------------------------------------------------------------------------
(***************************************************************************)
(* The inductive step, action by action.                                   *)
(***************************************************************************)

LEMMA BoundTypes == MaxCalls \in Nat /\ MaxFaults \in Nat /\ Capacity \in Nat
  BY LinkAssumption

LEMMA NothingUnderWay ==
    ASSUME NEW c
    PROVE  /\ Spread(<<>>, <<>>, <<>>, <<>>, c)
           /\ Len(<<>>) = 0 /\ Len(<<>>) + Len(<<>>) + Len(<<>>) = 0
  BY DEF Spread, Piece

LEMMA Lengths ==
    ASSUME LineInv
    PROVE  /\ Len(msg) \in Nat /\ Len(rx) \in Nat /\ Len(toDev) \in Nat
           /\ Len(reply) \in Nat /\ Len(toHost) \in Nat /\ Len(out) \in Nat
           /\ (Len(msg) = 0 <=> msg = <<>>) /\ (Len(rx) = 0 <=> rx = <<>>)
           /\ (Len(toDev) = 0 <=> toDev = <<>>) /\ (Len(reply) = 0 <=> reply = <<>>)
           /\ (Len(toHost) = 0 <=> toHost = <<>>) /\ (Len(out) = 0 <=> out = <<>>)
  BY NoBytes DEF LineInv

LEMMA AnswerShape ==
    ASSUME NEW p \in Requests, NEW r \in Answers(p)
    PROVE  r \in Seq(Byte) /\ Len(r) \in Nat /\ Len(r) >= 2 /\ Len(r) = 2 + r[2]
  <1>1. /\ p[1] \in Byte /\ Len(p) \in Int
        /\ \A j \in 3 .. Len(p) : p[j] \in Byte
    BY RequestShape
  <1>2. SubSeq(p, 3, Len(p)) \in Seq(Byte)
    BY <1>1, SubSeqProperties
  <1>3. CASE r \in BusFailures
    BY <1>3, FailureShape
  <1>4. CASE r \in Replies(p[1], SubSeq(p, 3, Len(p)))
    BY <1>1, <1>2, <1>4, ReplyShape
  <1> QED
    BY <1>3, <1>4 DEF Answers

LEMMA LinkInit == Init => LinkInv
  <1> SUFFICES ASSUME Init PROVE LinkInv
    OBVIOUS
  <1>1. LineInv
    BY DEF Init, LineInv
  <1>2. FlagInv
    <2>1. calls \in 0 .. MaxCalls /\ faults \in 0 .. MaxFaults
      BY BoundTypes DEF Init
    <2>2. ~ IsWhole(<<>>)
      BY DEF IsWhole
    <2> QED
      BY <2>1, <2>2 DEF Init, FlagInv
  <1>3. HostInv
    BY DEF Init, HostInv
  <1>4. RequestBytes = 0 /\ ReplyBytes = 0
    BY NothingUnderWay, Zenon DEF Init, RequestBytes, ReplyBytes
  <1>5. Arriving
    <2>1. Spread(msg, rx, toDev, <<>>, calls) /\ RequestBytes <= Len(<<>>)
      BY <1>4, NothingUnderWay DEF Init
    <2> QED
      BY <2>1 DEF Arriving
  <1>6. SessionInv /\ OwnReply
    BY <1>4, <1>5 DEF Init, SessionInv, OwnReply
  <1> QED
    BY <1>1, <1>2, <1>3, <1>6 DEF LinkInv

\* The commands that returned keep their place in the log.
LEMMA OwnReplyKept ==
    ASSUME OwnReply, last' = last, log \subseteq log'
    PROVE  OwnReply'
  BY DEF OwnReply

LEMMA OpenStep ==
    ASSUME LinkInv, Open
    PROVE  LinkInv'
  <1>1. /\ LineInv /\ FlagInv /\ HostInv /\ OwnReply
        /\ UNCHANGED <<host, pkt, sent, reply, calls, log, last, faults>>
        /\ toDev' = <<>> /\ toHost' = <<>> /\ rx' = <<>>
        /\ dev' = "read" /\ msg' = <<>> /\ out' = <<>>
        /\ open' = TRUE /\ disturbed' = FALSE /\ open = FALSE
    BY DEF LinkInv, Open, FlagInv
  <1>2. LineInv' /\ host = "idle" /\ reply = <<>>
    BY <1>1 DEF LineInv, HostInv, FlagInv
  <1>3. FlagInv' /\ HostInv'
    <2>1. ~ IsWhole(<<>>)
      BY DEF IsWhole
    <2> QED
      BY <1>1, <1>2, <2>1 DEF FlagInv, HostInv
  <1>4. RequestBytes' = 0 /\ ReplyBytes' = 0
    BY <1>1, <1>2, NothingUnderWay, Zenon DEF RequestBytes, ReplyBytes
  <1>5. Arriving'
    <2>1. Spread(msg', rx', toDev', <<>>, calls') /\ RequestBytes' <= Len(<<>>)
      BY <1>1, <1>4, NothingUnderWay
    <2> QED
      BY <2>1 DEF Arriving
  <1>6. SessionInv'
    BY <1>1, <1>2, <1>4, <1>5 DEF SessionInv
  <1> QED
    BY <1>1, <1>2, <1>3, <1>6, OwnReplyKept DEF LinkInv

LEMMA CloseStep ==
    ASSUME LinkInv, Close
    PROVE  LinkInv'
  <1>1. /\ LineInv /\ FlagInv /\ HostInv /\ OwnReply /\ SessionInv
        /\ UNCHANGED <<dev, msg, out, toDev, rx, calls, log, last, faults, disturbed>>
        /\ open' = FALSE /\ host' = "idle" /\ pkt' = <<>> /\ sent' = 0
        /\ reply' = <<>> /\ toHost' = <<>>
    BY DEF LinkInv, Close, devVars, ghosts
  <1>2. LineInv'
    <2>1. <<>> \in Seq(Mark(calls))
      OBVIOUS
    <2> QED
      BY <1>1, <2>1, Zenon DEF LineInv
  <1>3. FlagInv'
    BY <1>1 DEF FlagInv
  <1>4. HostInv'
    BY <1>1 DEF HostInv
  <1>5. SessionInv'
    BY <1>1 DEF SessionInv, Arriving, RequestBytes
  <1> QED
    BY <1>1, <1>2, <1>3, <1>4, <1>5, OwnReplyKept DEF LinkInv

LEMMA ExecCmdStep ==
    ASSUME LinkInv, NEW p \in Requests, ExecCmd(p)
    PROVE  LinkInv'
  <1>1. /\ LineInv /\ FlagInv /\ HostInv /\ OwnReply /\ SessionInv
        /\ UNCHANGED <<open, dev, msg, out, toDev, toHost, rx, log, last, faults, disturbed>>
        /\ open = TRUE /\ host = "idle" /\ calls < MaxCalls /\ calls \in Nat
        /\ host' = "send" /\ pkt' = p /\ sent' = 0 /\ reply' = <<>>
        /\ calls' = calls + 1
    BY DEF LinkInv, ExecCmd, devVars, FlagInv
  <1>2. LineInv'
    <2>1. Seq(Mark(calls)) \subseteq Seq(Mark(calls'))
      BY <1>1, MarkGrows
    <2>2. <<>> \in Seq(Mark(calls'))
      OBVIOUS
    <2> QED
      BY <1>1, <2>1, <2>2, Zenon DEF LineInv
  <1>3. FlagInv'
    <2>1. calls' \in 0 .. MaxCalls /\ \A e \in log' : e.n \in 1 .. calls'
      BY <1>1, BoundTypes DEF FlagInv
    <2> QED
      BY <1>1, <2>1 DEF FlagInv
  <1>4. HostInv'
    BY <1>1, RequestShape DEF HostInv
  <1>5. SessionInv'
    <2>1. SUFFICES ASSUME ~disturbed
                   PROVE  Arriving' /\ Asking'
      BY <1>1 DEF SessionInv
    <2>2. RequestBytes = 0 /\ ReplyBytes = 0 /\ dev = "read"
      BY <1>1, <2>1 DEF SessionInv
    <2>3. msg = <<>> /\ rx = <<>> /\ toDev = <<>> /\ toHost = <<>> /\ out = <<>>
      <3>1. /\ Len(msg) \in Nat /\ Len(rx) \in Nat /\ Len(toDev) \in Nat
            /\ Len(toHost) \in Nat /\ Len(out) \in Nat /\ Len(reply) \in Nat
        BY <1>1 DEF LineInv
      <3>2. Len(msg) = 0 /\ Len(rx) = 0 /\ Len(toDev) = 0 /\ Len(toHost) = 0 /\ Len(out) = 0
        BY <2>2, <3>1 DEF RequestBytes, ReplyBytes
      <3> QED
        BY <1>1, <3>2, NoBytes, Zenon DEF LineInv
    <2>4. RequestBytes' = 0 /\ ReplyBytes' = 0
      BY <1>1, <2>3, NothingUnderWay, Zenon DEF RequestBytes, ReplyBytes
    <2>5. \A q : Spread(msg', rx', toDev', q, calls')
      BY <1>1, <2>3 DEF Spread, Piece
    <2>6. Arriving'
      BY <1>1, <2>4, <2>5, RequestShape DEF Arriving
    <2>7. \A e \in log' : e.n # calls'
      BY <1>1 DEF FlagInv
    <2> QED
      BY <1>1, <2>2, <2>4, <2>5, <2>6, <2>7 DEF Asking
  <1> QED
    BY <1>1, <1>2, <1>3, <1>4, <1>5, OwnReplyKept DEF LinkInv

LEMMA SendByteStep ==
    ASSUME LinkInv, SendByte
    PROVE  LinkInv'
  <1> DEFINE x == [b |-> pkt[sent + 1], n |-> calls]
  <1>1. /\ LineInv /\ FlagInv /\ HostInv /\ OwnReply /\ SessionInv
        /\ UNCHANGED <<open, pkt, reply, dev, msg, out, toHost, rx,
                       calls, log, last, faults, disturbed>>
        /\ host = "send" /\ toDev' = Append(toDev, x) /\ sent' = sent + 1
        /\ host' = IF sent' = Len(pkt) THEN "read" ELSE "send"
    BY DEF LinkInv, SendByte, devVars, ghosts
  <1>2. /\ pkt \in Requests /\ calls \in Nat /\ calls > 0 /\ Len(pkt) \in Nat
        /\ sent \in 0 .. Len(pkt) - 1 /\ sent + 1 \in 1 .. Len(pkt)
    BY <1>1, RequestShape DEF HostInv, FlagInv
  <1>3. x \in Mark(calls)
    BY <1>2, RequestShape DEF Mark
  <1> HIDE DEF x
  <1>4. toDev' \in Seq(Mark(calls)) /\ Len(toDev') = Len(toDev) + 1
    BY <1>1, <1>3, PutByte DEF LineInv
  <1>5. LineInv'
    BY <1>1, <1>4 DEF LineInv
  <1>6. FlagInv'
    BY <1>1 DEF FlagInv
  <1>7. HostInv'
    BY <1>1, <1>2 DEF HostInv
  <1>8. SessionInv'
    <2>1. SUFFICES ASSUME ~disturbed
                   PROVE  Arriving' /\ Asking'
      BY <1>1 DEF SessionInv
    <2>2. Asking
      BY <1>1, <2>1 DEF SessionInv
    <2>3. RequestBytes' = sent' /\ RequestBytes' <= Len(pkt)
      <3>1. Len(msg) + Len(rx) + Len(toDev) = sent
        BY <2>2 DEF Asking, RequestBytes
      <3>2. RequestBytes' = Len(msg) + Len(rx) + (Len(toDev) + 1)
        BY <1>1, <1>4 DEF RequestBytes
      <3>3. Len(msg) \in Nat /\ Len(rx) \in Nat /\ Len(toDev) \in Nat
        BY <1>1, Lengths
      <3> QED
        BY <1>1, <1>2, <3>1, <3>2, <3>3
    <2>4. Spread(msg, rx, toDev', pkt, calls)
      <3>1. x.b = pkt[Len(msg) + Len(rx) + Len(toDev) + 1] /\ x.n = calls
        BY <2>2 DEF x, Asking, RequestBytes
      <3>2. Spread(msg, rx, toDev, pkt, calls)
        BY <2>2 DEF Asking
      <3> QED
        BY <1>1, <1>3, <3>1, <3>2, PutLast DEF LineInv
    <2>5. Asking'
      BY <1>1, <2>2, <2>3, <2>4 DEF Asking, ReplyBytes
    <2>6. Arriving'
      BY <1>1, <1>2, <2>3, <2>4 DEF Arriving
    <2> QED
      BY <2>5, <2>6
  <1> QED
    BY <1>1, <1>5, <1>6, <1>7, <1>8, OwnReplyKept DEF LinkInv

\* The reply has arrived as far as it was written, and no further.
LEMMA ReplyArrives ==
    ASSUME LinkInv, host = "read", toHost # <<>>, ~disturbed
    PROVE  /\ RequestBytes = 0 /\ dev \in {"read", "reply"}
           /\ \E r \in Answers(pkt) :
                 /\ r \in Seq(Byte) /\ Len(r) \in Nat /\ Len(r) >= 2 /\ Len(r) = 2 + r[2]
                 /\ ReplyBytes = Len(r)
                 /\ Spread(Append(reply, Head(toHost)), Tail(toHost), out, r, calls)
                 /\ \E e \in log : e.n = calls /\ e.pkt = pkt /\ e.ok = (r[1] = Success)
                 /\ \A e \in log : e.n = calls => e.ok = (r[1] = Success)
  <1>1. LineInv /\ HostInv /\ (Asking \/ Answering)
    BY DEF LinkInv, SessionInv
  <1>2. Answering
    <2>1. SUFFICES ASSUME ReplyBytes = 0 PROVE FALSE
      BY <1>1 DEF Asking
    <2> QED
      BY <1>1, <2>1, Lengths DEF ReplyBytes
  <1>3. PICK r \in Answers(pkt) :
           /\ ReplyBytes = Len(r) /\ Spread(reply, toHost, out, r, calls)
           /\ \E e \in log : e.n = calls /\ e.pkt = pkt /\ e.ok = (r[1] = Success)
           /\ \A e \in log : e.n = calls => e.ok = (r[1] = Success)
    BY <1>2 DEF Answering
  <1>4. r \in Seq(Byte) /\ Len(r) \in Nat /\ Len(r) >= 2 /\ Len(r) = 2 + r[2]
    BY <1>1, AnswerShape DEF HostInv
  <1>5. Spread(Append(reply, Head(toHost)), Tail(toHost), out, r, calls)
    BY <1>1, <1>3, MoveToFirst DEF LineInv
  <1> QED
    BY <1>2, <1>3, <1>4, <1>5 DEF Answering

LEMMA ReadReplyStep ==
    ASSUME LinkInv, ReadReply
    PROVE  LinkInv'
  <1> DEFINE s == Append(reply, Head(toHost))
             t == Tail(toHost)
  <1>1. /\ LineInv /\ FlagInv /\ HostInv /\ OwnReply /\ SessionInv
        /\ UNCHANGED <<open, dev, msg, out, toDev, rx, calls, log, faults, disturbed>>
        /\ host = "read" /\ toHost # <<>> /\ toHost' = t
        /\ \/ /\ IsWhole(s)
              /\ host' = "idle" /\ pkt' = <<>> /\ sent' = 0 /\ reply' = <<>>
              /\ last' = [n |-> calls, ok |-> Succeeded(s), pkt |-> pkt, reply |-> s,
                          clean |-> ~disturbed]
           \/ /\ ~ IsWhole(s) /\ reply' = s
              /\ UNCHANGED <<host, pkt, sent, last>>
    BY DEF LinkInv, ReadReply, Return, devVars
  <1>2. /\ s \in Seq(Mark(calls)) /\ t \in Seq(Mark(calls)) /\ <<>> \in Seq(Mark(calls))
        /\ Len(s) = Len(reply) + 1 /\ Len(t) = Len(toHost) - 1
        /\ Len(s) \in Nat /\ Len(t) \in Nat
    BY <1>1, TakeByte, PutByte, NoBytes DEF LineInv
  <1>3. LineInv'
    BY <1>1, <1>2, Zenon DEF LineInv
  <1>4. FlagInv'
    <2>1. last'.ok \in BOOLEAN
      <3>1. Succeeded(s) \in BOOLEAN
        BY DEF Succeeded
      <3>2. last.ok \in BOOLEAN
        BY <1>1 DEF FlagInv
      <3>3. last'.ok = Succeeded(s) \/ last' = last
        BY <1>1
      <3> QED
        BY <3>1, <3>2, <3>3
    <2> QED
      BY <1>1, <2>1 DEF FlagInv
  <1>5. HostInv'
    BY <1>1 DEF HostInv
  <1> HIDE DEF s, t
  <1>6. CASE disturbed
    <2>1. OwnReply'
      <3>1. ~ last'.clean \/ last' = last
        <4>1. last'.clean = (~ disturbed) \/ last' = last
          BY <1>1
        <4> QED
          BY <1>6, <4>1, Zenon
      <3> QED
        BY <1>1, <3>1, OwnReplyKept DEF OwnReply
    <2> QED
      BY <1>1, <1>3, <1>4, <1>5, <1>6, <2>1 DEF LinkInv, SessionInv
  <1>7. CASE ~disturbed
    <2>1. /\ RequestBytes = 0 /\ dev \in {"read", "reply"}
          /\ \E r \in Answers(pkt) :
                 /\ r \in Seq(Byte) /\ Len(r) \in Nat /\ Len(r) >= 2 /\ Len(r) = 2 + r[2]
                 /\ ReplyBytes = Len(r)
                 /\ Spread(s, t, out, r, calls)
                 /\ \E e \in log : e.n = calls /\ e.pkt = pkt /\ e.ok = (r[1] = Success)
                 /\ \A e \in log : e.n = calls => e.ok = (r[1] = Success)
      BY <1>1, <1>7, ReplyArrives DEF s, t
    <2>2. PICK r \in Answers(pkt) :
             /\ r \in Seq(Byte) /\ Len(r) \in Nat /\ Len(r) >= 2 /\ Len(r) = 2 + r[2]
             /\ ReplyBytes = Len(r)
             /\ Spread(s, t, out, r, calls)
             /\ \E e \in log : e.n = calls /\ e.pkt = pkt /\ e.ok = (r[1] = Success)
             /\ \A e \in log : e.n = calls => e.ok = (r[1] = Success)
      BY <2>1
    <2>3. Len(s) + Len(t) + Len(out) = Len(r) /\ Len(s) <= Len(r)
      BY <1>1, <1>2, <2>2, Lengths DEF ReplyBytes
    <2>4. \A j \in 1 .. Len(s) : s[j].b = r[j] /\ s[j].n = calls
      <3>1. \A j \in 1 .. Len(s) : s[j].b = r[0 + j] /\ s[j].n = calls
        BY <2>2 DEF Spread, Piece
      <3> QED
        BY <3>1, <1>2
    <2>5. IsWhole(s) <=> Len(s) = Len(r)
      <3>1. Len(s) >= 2 => s[2].b = r[2]
        BY <1>2, <2>4
      <3> QED
        BY <1>2, <2>2, <2>3, <3>1 DEF IsWhole
    <2>6. Arriving'
      BY <1>1, <1>7 DEF SessionInv, Arriving, RequestBytes
    <2>7. RequestBytes' = 0
      BY <1>1, <2>1 DEF RequestBytes
    <2>8. CASE IsWhole(s)
      <3>1. Len(t) = 0 /\ Len(out) = 0
        BY <1>1, <1>2, <2>3, <2>5, <2>8, Lengths
      <3>2. out = <<>> /\ dev = "read" /\ ReplyBytes' = 0
        <4>1. out = <<>>
          BY <1>1, <3>1, Lengths
        <4>2. Len(reply') = 0 /\ Len(toHost') = 0 /\ Len(out') = 0
          BY <1>1, <2>8, <3>1
        <4> QED
          BY <1>1, <2>1, <4>1, <4>2 DEF FlagInv, ReplyBytes
      <3>3. SessionInv'
        BY <1>1, <2>6, <2>7, <2>8, <3>2 DEF SessionInv
      <3>4. OwnReply'
        <4>1. Succeeded(s) = (r[1] = Success)
          <5>1. 1 \in 1 .. Len(s)
            BY <1>2, <2>2, <2>5, <2>8
          <5> QED
            BY <2>4, <5>1 DEF Succeeded
        <4>2. PICK e \in log : e.n = calls /\ e.pkt = pkt /\ e.ok = Succeeded(s)
          BY <2>2, <4>1
        <4>3. /\ last'.n = calls /\ last'.ok = Succeeded(s) /\ last'.pkt = pkt
              /\ last'.reply = s /\ log' = log
          BY <1>1, <2>8
        <4> QED
          BY <2>4, <4>2, <4>3 DEF OwnReply
      <3> QED
        BY <1>3, <1>4, <1>5, <3>3, <3>4 DEF LinkInv
    <2>9. CASE ~ IsWhole(s)
      <3>1. Len(s) < Len(r)
        BY <1>2, <2>2, <2>3, <2>5, <2>9
      <3>2. ReplyBytes' = Len(r) /\ Spread(reply', toHost', out', r, calls')
        BY <1>1, <2>2, <2>3, <2>9 DEF ReplyBytes
      <3>3. Answering'
        BY <1>1, <2>1, <2>2, <2>7, <2>9, <3>1, <3>2 DEF Answering
      <3>4. SessionInv'
        BY <1>1, <2>6, <2>9, <3>3 DEF SessionInv
      <3> QED
        BY <1>1, <1>3, <1>4, <1>5, <2>9, <3>4, OwnReplyKept DEF LinkInv
    <2> QED
      BY <2>8, <2>9
  <1> QED
    BY <1>6, <1>7

\* A timeout of an undisturbed session would find a byte still to come.
LEMMA NotSilent ==
    ASSUME LinkInv, host = "read", toHost = <<>>, Silent
    PROVE  disturbed
  <1>1. SUFFICES ASSUME ~disturbed PROVE FALSE
    OBVIOUS
  <1>2. LineInv /\ FlagInv /\ HostInv /\ (Asking \/ Answering)
    BY <1>1 DEF LinkInv, SessionInv
  <1>3. /\ Len(msg) \in Nat /\ Len(toDev) = 0 /\ Len(toHost) = 0 /\ Len(reply) \in Nat
        /\ dev \in {"read", "runaway"} /\ (dev = "read" => Len(rx) = 0)
    BY <1>2, Lengths DEF Silent
  <1>4. CASE Asking
    <2>1. dev = "read" /\ Len(rx) = 0
      BY <1>3, <1>4 DEF Asking
    <2>2. Len(msg) = Len(pkt) /\ pkt \in Requests
      BY <1>2, <1>3, <1>4, <2>1 DEF Asking, RequestBytes, HostInv
    <2>3. Len(pkt) >= 2 /\ Len(pkt) = 2 + pkt[2]
      BY <2>2, RequestShape
    <2>4. msg[2].b = pkt[2]
      <3>1. \A j \in 1 .. Len(msg) : msg[j].b = pkt[0 + j]
        BY <1>4 DEF Asking, Spread, Piece
      <3>2. 2 \in 1 .. Len(msg) /\ 0 + 2 = 2
        BY <1>3, <2>2, <2>3
      <3> QED
        BY <3>1, <3>2
    <2>5. IsWhole(msg)
      BY <2>2, <2>3, <2>4 DEF IsWhole
    <2> QED
      BY <1>2, <2>1, <2>5 DEF FlagInv
  <1>5. CASE Answering
    <2>1. dev = "read" /\ out = <<>>
      BY <1>2, <1>3, <1>5 DEF Answering, FlagInv
    <2>2. Len(out) = 0
      BY <1>2, <2>1, Lengths
    <2>3. PICK r \in Answers(pkt) : ReplyBytes = Len(r) /\ Len(reply) < Len(r)
      BY <1>5 DEF Answering
    <2> QED
      BY <1>3, <2>2, <2>3 DEF ReplyBytes
  <1> QED
    BY <1>2, <1>4, <1>5

LEMMA ReturnStep ==
    ASSUME LinkInv, ReadTimeout \/ WriteError
    PROVE  LinkInv'
  <1>1. /\ LineInv /\ FlagInv /\ HostInv /\ OwnReply
        /\ UNCHANGED <<open, dev, msg, out, toDev, toHost, rx, calls, log>>
        /\ host' = "idle" /\ pkt' = <<>> /\ sent' = 0 /\ reply' = <<>>
        /\ last'.ok = FALSE
    BY DEF LinkInv, ReadTimeout, WriteError, Return, devVars
  <1>2. /\ disturbed' = TRUE /\ ~ last'.clean
        /\ faults' \in 0 .. MaxFaults
    <2>1. CASE WriteError \/ (ReadTimeout /\ ~Silent)
      <3>1. /\ disturbed' = TRUE /\ ~ last'.clean
            /\ faults < MaxFaults /\ faults' = faults + 1
        BY <2>1 DEF WriteError, ReadTimeout, Fault, Return
      <3> QED
        BY <1>1, <3>1, BoundTypes DEF FlagInv
    <2>2. CASE ReadTimeout /\ Silent
      <3>1. disturbed = TRUE
        BY <1>1, <2>2, NotSilent DEF ReadTimeout, FlagInv
      <3>2. last'.clean = (~ disturbed) /\ UNCHANGED <<faults, disturbed>>
        BY <2>2 DEF ReadTimeout, Return
      <3> QED
        BY <1>1, <3>1, <3>2 DEF FlagInv
    <2> QED
      BY <2>1, <2>2
  <1>3. LineInv'
    <2>1. <<>> \in Seq(Mark(calls))
      OBVIOUS
    <2> QED
      BY <1>1, <2>1, Zenon DEF LineInv
  <1>4. FlagInv'
    BY <1>1, <1>2 DEF FlagInv
  <1>5. HostInv'
    BY <1>1 DEF HostInv
  <1> QED
    BY <1>2, <1>3, <1>4, <1>5 DEF LinkInv, SessionInv, OwnReply

\* In an undisturbed session the buffer has room for what comes.
LEMMA RoomForRequest ==
    ASSUME LineInv, Arriving, toDev # <<>>
    PROVE  Len(rx) < Capacity
  <1>1. PICK q \in Requests \cup {<<>>} : RequestBytes <= Len(q)
    BY DEF Arriving
  <1>2. /\ Len(msg) \in Nat /\ Len(rx) \in Nat /\ Len(toDev) \in Nat /\ Len(toDev) # 0
        /\ RequestBytes = Len(msg) + Len(rx) + Len(toDev)
    BY Lengths DEF RequestBytes
  <1>3. Len(rx) < Len(q) /\ Len(q) # 0
    <2>1. Len(q) \in Nat
      BY RequestShape, NothingUnderWay
    <2> QED
      BY <1>1, <1>2, <2>1
  <1>4. q \in Requests
    BY <1>3, NothingUnderWay
  <1> QED
    BY <1>2, <1>3, <1>4, RequestShape, BoundTypes

LEMMA ReceiveStep ==
    ASSUME LinkInv, Receive
    PROVE  LinkInv'
  <1>1. /\ LineInv /\ FlagInv /\ HostInv /\ OwnReply /\ SessionInv
        /\ UNCHANGED <<open, host, pkt, sent, reply, dev, msg, out, toHost,
                       calls, log, last, faults, disturbed>>
        /\ toDev # <<>> /\ toDev' = Tail(toDev)
        /\ rx' = IF Len(rx) < Capacity THEN Append(rx, Head(toDev)) ELSE rx
    BY DEF LinkInv, Receive, hostVars, devVars, ghosts
  <1>2. /\ Tail(toDev) \in Seq(Mark(calls)) /\ Len(Tail(toDev)) = Len(toDev) - 1
        /\ Append(rx, Head(toDev)) \in Seq(Mark(calls))
        /\ Len(Append(rx, Head(toDev))) = Len(rx) + 1
    BY <1>1, TakeByte, PutByte DEF LineInv
  <1>3. LineInv' /\ FlagInv' /\ HostInv'
    BY <1>1, <1>2 DEF LineInv, FlagInv, HostInv
  <1>4. SessionInv'
    <2>1. SUFFICES ASSUME ~disturbed
                   PROVE  SessionInv'
      BY <1>1 DEF SessionInv
    <2>2. rx' = Append(rx, Head(toDev))
      BY <1>1, <2>1, RoomForRequest DEF SessionInv
    <2>3. RequestBytes' = RequestBytes /\ RequestBytes # 0
      <3>1. /\ Len(msg) \in Nat /\ Len(rx) \in Nat /\ Len(toDev) \in Nat
            /\ Len(toDev) # 0
        BY <1>1, Lengths
      <3>2. RequestBytes' = Len(msg) + (Len(rx) + 1) + (Len(toDev) - 1)
        BY <1>1, <1>2, <2>2 DEF RequestBytes
      <3> QED
        BY <3>1, <3>2 DEF RequestBytes
    <2>4. \A q : Spread(msg, rx, toDev, q, calls) => Spread(msg', rx', toDev', q, calls')
      <3> TAKE q
      <3>1. HAVE Spread(msg, rx, toDev, q, calls)
      <3> QED
        BY <1>1, <2>2, <3>1, MoveToSecond DEF LineInv
    <2>5. Arriving'
      BY <1>1, <2>1, <2>3, <2>4 DEF SessionInv, Arriving
    <2>6. Asking => Asking'
      BY <1>1, <2>3, <2>4 DEF Asking, ReplyBytes
    <2>7. ~ Answering
      BY <2>3 DEF Answering
    <2> QED
      BY <1>1, <2>1, <2>3, <2>5, <2>6, <2>7 DEF SessionInv
  <1> QED
    BY <1>1, <1>3, <1>4, OwnReplyKept DEF LinkInv

LEMMA LoseStep ==
    ASSUME LinkInv, Lose
    PROVE  LinkInv'
  <1>1. /\ LineInv /\ FlagInv /\ HostInv /\ OwnReply
        /\ UNCHANGED <<open, host, pkt, sent, reply, dev, msg, out, rx, calls, log, last>>
        /\ faults < MaxFaults /\ faults' = faults + 1 /\ disturbed' = TRUE
        /\ \/ toDev # <<>> /\ toDev' = Tail(toDev) /\ toHost' = toHost
           \/ toHost # <<>> /\ toHost' = Tail(toHost) /\ toDev' = toDev
    BY DEF LinkInv, Lose, Fault, hostVars, devVars
  <1>2. toDev' \in Seq(Mark(calls)) /\ toHost' \in Seq(Mark(calls))
    BY <1>1, TakeByte DEF LineInv
  <1>3. LineInv' /\ HostInv'
    BY <1>1, <1>2 DEF LineInv, HostInv
  <1>4. FlagInv'
    <2>1. faults' \in 0 .. MaxFaults
      BY <1>1, BoundTypes DEF FlagInv
    <2> QED
      BY <1>1, <2>1 DEF FlagInv
  <1> QED
    BY <1>1, <1>3, <1>4, OwnReplyKept DEF LinkInv, SessionInv

LEMMA ReadMessageStep ==
    ASSUME LinkInv, ReadMessage
    PROVE  LinkInv'
  <1>1. /\ LineInv /\ FlagInv /\ HostInv /\ OwnReply /\ SessionInv
        /\ UNCHANGED <<open, host, pkt, sent, reply, out, toDev, toHost,
                       calls, log, last, faults, disturbed>>
        /\ dev = "read" /\ rx # <<>> /\ rx' = Tail(rx) /\ msg' = Append(msg, Head(rx))
        /\ dev' = IF IsWhole(msg') THEN "handle" ELSE "read"
    BY DEF LinkInv, ReadMessage, hostVars, ghosts
  <1>2. /\ Tail(rx) \in Seq(Mark(calls)) /\ Len(Tail(rx)) = Len(rx) - 1
        /\ Append(msg, Head(rx)) \in Seq(Mark(calls))
        /\ Len(Append(msg, Head(rx))) = Len(msg) + 1
    BY <1>1, TakeByte, PutByte DEF LineInv
  <1>3. LineInv' /\ HostInv'
    BY <1>1, <1>2 DEF LineInv, HostInv
  <1>4. FlagInv'
    BY <1>1 DEF FlagInv
  <1>5. SessionInv'
    <2>1. SUFFICES ASSUME ~disturbed
                   PROVE  SessionInv'
      BY <1>1 DEF SessionInv
    <2>2. RequestBytes' = RequestBytes /\ RequestBytes # 0
      <3>1. /\ Len(msg) \in Nat /\ Len(rx) \in Nat /\ Len(toDev) \in Nat
            /\ Len(rx) # 0
        BY <1>1, Lengths
      <3>2. RequestBytes' = (Len(msg) + 1) + (Len(rx) - 1) + Len(toDev)
        BY <1>1, <1>2 DEF RequestBytes
      <3> QED
        BY <3>1, <3>2 DEF RequestBytes
    <2>3. \A q : Spread(msg, rx, toDev, q, calls) => Spread(msg', rx', toDev', q, calls')
      <3> TAKE q
      <3>1. HAVE Spread(msg, rx, toDev, q, calls)
      <3> QED
        BY <1>1, <3>1, MoveToFirst DEF LineInv
    <2>4. Arriving'
      BY <1>1, <2>1, <2>2, <2>3 DEF SessionInv, Arriving
    <2>5. Asking => Asking'
      BY <1>1, <2>2, <2>3 DEF Asking, ReplyBytes
    <2>6. ~ Answering
      BY <2>2 DEF Answering
    <2> QED
      BY <1>1, <2>1, <2>2, <2>4, <2>5, <2>6 DEF SessionInv
  <1> QED
    BY <1>1, <1>3, <1>4, <1>5, OwnReplyKept DEF LinkInv

LEMMA WriteReplyStep ==
    ASSUME LinkInv, WriteReply
    PROVE  LinkInv'
  <1>1. /\ LineInv /\ FlagInv /\ HostInv /\ OwnReply /\ SessionInv
        /\ UNCHANGED <<open, host, pkt, sent, reply, msg, rx, toDev,
                       calls, log, last, faults, disturbed>>
        /\ dev = "reply" /\ out' = Tail(out)
        /\ toHost' = IF open THEN Append(toHost, Head(out)) ELSE toHost
        /\ dev' = IF out' = <<>> THEN "read" ELSE "reply"
        /\ out # <<>>
    BY DEF LinkInv, WriteReply, hostVars, ghosts, FlagInv
  <1>2. /\ Tail(out) \in Seq(Mark(calls)) /\ Len(Tail(out)) = Len(out) - 1
        /\ Append(toHost, Head(out)) \in Seq(Mark(calls))
        /\ Len(Append(toHost, Head(out))) = Len(toHost) + 1
    BY <1>1, TakeByte, PutByte DEF LineInv
  <1>3. LineInv' /\ HostInv'
    BY <1>1, <1>2 DEF LineInv, HostInv
  <1>4. FlagInv'
    <2>1. ~ IsWhole(msg)
      BY <1>1 DEF FlagInv
    <2> QED
      BY <1>1, <2>1 DEF FlagInv
  <1>5. SessionInv'
    <2>1. SUFFICES ASSUME ~disturbed
                   PROVE  SessionInv'
      BY <1>1 DEF SessionInv
    <2>2. Arriving'
      BY <1>1, <2>1 DEF SessionInv, Arriving, RequestBytes
    <2>3. /\ Len(reply) \in Nat /\ Len(toHost) \in Nat /\ Len(out) \in Nat /\ Len(out) # 0
      BY <1>1, Lengths
    <2>4. ReplyBytes # 0
      BY <2>3 DEF ReplyBytes
    <2>5. SUFFICES ASSUME host # "idle"
                   PROVE  host = "read" /\ Answering'
      BY <1>1, <2>1, <2>2, <2>4 DEF SessionInv, HostInv, FlagInv
    <2>6. host = "read" /\ Answering /\ open
      BY <1>1, <2>1, <2>4, <2>5 DEF SessionInv, Asking, FlagInv, HostInv
    <2>7. PICK r \in Answers(pkt) :
             /\ ReplyBytes = Len(r) /\ Spread(reply, toHost, out, r, calls)
             /\ Len(reply) < Len(r)
             /\ \E e \in log : e.n = calls /\ e.pkt = pkt /\ e.ok = (r[1] = Success)
             /\ \A e \in log : e.n = calls => e.ok = (r[1] = Success)
      BY <2>6 DEF Answering
    <2>8. Spread(reply', toHost', out', r, calls')
      BY <1>1, <2>6, <2>7, MoveToSecond DEF LineInv
    <2>9. ReplyBytes' = Len(r)
      <3>1. ReplyBytes' = Len(reply) + (Len(toHost) + 1) + (Len(out) - 1)
        BY <1>1, <1>2, <2>6 DEF ReplyBytes
      <3> QED
        BY <2>3, <2>7, <3>1 DEF ReplyBytes
    <2> QED
      BY <1>1, <2>6, <2>7, <2>8, <2>9 DEF Answering, RequestBytes
  <1> QED
    BY <1>1, <1>3, <1>4, <1>5, OwnReplyKept DEF LinkInv

\* A message that is whole is the request it is a part of.
LEMMA WholeRequest ==
    ASSUME LineInv, FlagInv, dev = "handle", NEW q \in Requests, NEW c,
           Spread(msg, rx, toDev, q, c)
    PROVE  Bytes(msg) = q /\ Len(msg) = Len(q) /\ msg[1].n = c
  <1>1. /\ Bytes(msg) \in Seq(Byte) /\ Len(Bytes(msg)) = Len(msg)
        /\ Len(msg) \in Nat /\ Len(msg) >= 2 /\ Len(msg) = 2 + Bytes(msg)[2]
        /\ \A j \in 1 .. Len(msg) : Bytes(msg)[j] = msg[j].b
    BY MessageShape
  <1>2. q \in Seq(Byte) /\ Len(q) \in Nat /\ Len(q) >= 2 /\ Len(q) = 2 + q[2]
    BY RequestShape
  <1>3. \A j \in 1 .. Len(msg) : msg[j].b = q[j] /\ msg[j].n = c
    <2>1. \A j \in 1 .. Len(msg) : msg[j].b = q[0 + j] /\ msg[j].n = c
      BY DEF Spread, Piece
    <2> QED
      BY <1>1, <2>1
  <1>4. 1 \in 1 .. Len(msg) /\ 2 \in 1 .. Len(msg)
    BY <1>1
  <1>5. Len(msg) = Len(q)
    BY <1>1, <1>2, <1>3, <1>4
  <1>6. \A j \in 1 .. Len(q) : Bytes(msg)[j] = q[j]
    BY <1>1, <1>3, <1>5
  <1>7. Bytes(msg) = q
    BY <1>1, <1>2, <1>5, <1>6, SeqEqual
  <1> QED
    BY <1>3, <1>4, <1>5, <1>7

\* In an undisturbed session the main loop handles the request that glydb waits
\* for, or one that it gave up by closing the connection.
LEMMA WholeMessage ==
    ASSUME LinkInv, dev = "handle", ~disturbed
    PROVE  /\ Bytes(msg) \in Requests /\ msg[1].n = calls
           /\ rx = <<>> /\ toDev = <<>>
           /\ host # "send" /\ ~(open /\ host = "idle")
           /\ host = "read" => Asking /\ Bytes(msg) = pkt
  <1>1. LineInv /\ FlagInv /\ HostInv /\ SessionInv /\ Arriving
    BY DEF LinkInv, SessionInv
  <1>2. /\ Len(msg) \in Nat /\ Len(msg) >= 2 /\ Len(rx) \in Nat /\ Len(toDev) \in Nat
        /\ (Len(rx) = 0 <=> rx = <<>>) /\ (Len(toDev) = 0 <=> toDev = <<>>)
    BY <1>1, MessageShape, Lengths
  <1>3. PICK q \in Requests \cup {<<>>} :
           RequestBytes <= Len(q) /\ Spread(msg, rx, toDev, q, calls)
    BY <1>1 DEF Arriving
  <1>4. q \in Requests
    <2>1. q # <<>>
      BY <1>2, <1>3, NothingUnderWay DEF RequestBytes
    <2> QED
      BY <2>1
  <1>5. Bytes(msg) = q /\ Len(msg) = Len(q) /\ msg[1].n = calls
    BY <1>1, <1>3, <1>4, WholeRequest
  <1>6. rx = <<>> /\ toDev = <<>>
    BY <1>2, <1>3, <1>5 DEF RequestBytes
  <1>7. RequestBytes # 0 /\ RequestBytes = Len(msg)
    BY <1>2, <1>6, NothingUnderWay DEF RequestBytes
  <1>8. host # "send"
    <2>1. SUFFICES ASSUME host = "send" PROVE FALSE
      OBVIOUS
    <2>2. RequestBytes = sent /\ Spread(msg, rx, toDev, pkt, calls)
      BY <1>1, <2>1 DEF SessionInv, Asking
    <2>3. pkt \in Requests /\ sent \in 0 .. Len(pkt) - 1
      BY <1>1, <2>1 DEF HostInv
    <2>4. Len(msg) = Len(pkt) /\ Len(pkt) \in Nat
      BY <1>1, <2>2, <2>3, WholeRequest, RequestShape
    <2>5. sent < Len(pkt)
      BY <2>3, <2>4
    <2>6. sent = Len(pkt)
      BY <1>7, <2>2, <2>4, Zenon
    <2> QED
      BY <2>3, <2>4, <2>5, <2>6
  <1>9. ~(open /\ host = "idle")
    BY <1>1, <1>7 DEF SessionInv
  <1>10. host = "read" => Asking /\ Bytes(msg) = pkt
    <2>1. HAVE host = "read"
    <2>2. Asking /\ pkt \in Requests
      BY <1>1, <1>7, <2>1 DEF SessionInv, Answering, HostInv
    <2>3. Spread(msg, rx, toDev, pkt, calls)
      BY <2>2 DEF Asking
    <2> QED
      BY <1>1, <2>2, <2>3, WholeRequest
  <1> QED
    BY <1>4, <1>5, <1>6, <1>8, <1>9, <1>10

\* A request of glydb's never makes a handler run away.
LEMMA NoRunaway ==
    ASSUME NEW p \in Requests
    PROVE  ~ RunsAway(p[1], SubSeq(p, 3, Len(p)))
  <1>1. /\ Len(p) \in Nat /\ Len(p) >= 2 /\ Len(p) = 2 + p[2]
        /\ \A j \in 3 .. Len(p) : p[j] \in Byte
        /\ p[1] \in {Write, WriteFlash} => p[2] >= AddrSize
    BY RequestShape
  <1>2. Len(SubSeq(p, 3, Len(p))) = Len(p) - 2
    <2>1. Len(SubSeq(p, 3, Len(p))) = IF 3 <= Len(p) THEN Len(p) - 3 + 1 ELSE 0
      BY <1>1, SubSeqProperties
    <2> QED
      BY <1>1, <2>1
  <1>3. p[2] \in Nat
    <2>1. 2 \in 1 .. Len(p)
      BY <1>1
    <2>2. p[2] \in Byte
      BY <2>1, RequestShape
    <2> QED
      BY <2>2 DEF Byte
  <1> QED
    BY <1>1, <1>2, <1>3 DEF RunsAway, AddrSize

\* What the switch writes and records, when the handler comes back.
LEMMA Handled ==
    ASSUME LineInv, FlagInv, Handle, ~ RunsAway(Bytes(msg)[1], SubSeq(Bytes(msg), 3, Len(Bytes(msg))))
    PROVE  \E r \in Answers(Bytes(msg)) :
              /\ r \in Seq(Byte) /\ Len(r) \in Nat /\ Len(r) >= 2
              /\ out' = Tagged(r, msg[1].n) /\ dev' = "reply" /\ msg' = <<>>
              /\ log' = log \cup {[n |-> msg[1].n, pkt |-> Bytes(msg),
                                   ok |-> (r[1] = Success)]}
  <1> DEFINE m == Bytes(msg)
             d == SubSeq(m, 3, Len(m))
             n == msg[1].n
  <1>1. m[1] \in Byte /\ d \in Seq(Byte)
    BY MessageShape DEF Handle
  <1>2. \/ \E r \in Replies(m[1], d) :
             /\ out' = Tagged(r, n) /\ dev' = "reply" /\ msg' = <<>>
             /\ log' = log \cup {[n |-> n, pkt |-> m, ok |-> m[1] \in Ping .. EraseChip]}
        \/ \E r \in BusFailures :
             /\ out' = Tagged(r, n) /\ dev' = "reply" /\ msg' = <<>>
             /\ log' = log \cup {[n |-> n, pkt |-> m, ok |-> FALSE]}
    BY DEF Handle
  <1> HIDE DEF m, d, n
  <1>3. ASSUME NEW r \in Replies(m[1], d)
        PROVE  /\ r \in Seq(Byte) /\ Len(r) \in Nat /\ Len(r) >= 2
               /\ (m[1] \in Ping .. EraseChip) = (r[1] = Success)
    BY <1>1, ReplyShape
  <1>4. ASSUME NEW r \in BusFailures
        PROVE  /\ r \in Seq(Byte) /\ Len(r) \in Nat /\ Len(r) >= 2
               /\ FALSE = (r[1] = Success)
    BY FailureShape
  <1>5. /\ Replies(m[1], d) \subseteq Answers(m) /\ BusFailures \subseteq Answers(m)
    BY DEF Answers, d
  <1>6. CASE \E r \in Replies(m[1], d) :
             /\ out' = Tagged(r, n) /\ dev' = "reply" /\ msg' = <<>>
             /\ log' = log \cup {[n |-> n, pkt |-> m, ok |-> m[1] \in Ping .. EraseChip]}
    <2>1. PICK r \in Replies(m[1], d) :
             /\ out' = Tagged(r, n) /\ dev' = "reply" /\ msg' = <<>>
             /\ log' = log \cup {[n |-> n, pkt |-> m, ok |-> m[1] \in Ping .. EraseChip]}
      BY <1>6
    <2>2. /\ r \in Answers(m) /\ r \in Seq(Byte) /\ Len(r) \in Nat /\ Len(r) >= 2
          /\ log' = log \cup {[n |-> n, pkt |-> m, ok |-> (r[1] = Success)]}
      BY <1>3, <1>5, <2>1
    <2> QED
      BY <2>1, <2>2, Zenon DEF m, n
  <1>7. CASE \E r \in BusFailures :
             /\ out' = Tagged(r, n) /\ dev' = "reply" /\ msg' = <<>>
             /\ log' = log \cup {[n |-> n, pkt |-> m, ok |-> FALSE]}
    <2>1. PICK r \in BusFailures :
             /\ out' = Tagged(r, n) /\ dev' = "reply" /\ msg' = <<>>
             /\ log' = log \cup {[n |-> n, pkt |-> m, ok |-> FALSE]}
      BY <1>7
    <2>2. /\ r \in Answers(m) /\ r \in Seq(Byte) /\ Len(r) \in Nat /\ Len(r) >= 2
          /\ log' = log \cup {[n |-> n, pkt |-> m, ok |-> (r[1] = Success)]}
      BY <1>4, <1>5, <2>1
    <2> QED
      BY <2>1, <2>2, Zenon DEF m, n
  <1> QED
    BY <1>2, <1>6, <1>7


\* The handler that does not come back.
LEMMA Lost ==
    ASSUME LineInv, FlagInv, Handle, RunsAway(Bytes(msg)[1], SubSeq(Bytes(msg), 3, Len(Bytes(msg))))
    PROVE  \/ \E r \in BusFailures :
                 /\ r \in Seq(Byte) /\ Len(r) \in Nat /\ Len(r) >= 2
                 /\ out' = Tagged(r, msg[1].n) /\ dev' = "reply" /\ msg' = <<>>
                 /\ log' = log \cup {[n |-> msg[1].n, pkt |-> Bytes(msg), ok |-> FALSE]}
           \/ /\ dev' = "runaway" /\ msg' = <<>> /\ out' = <<>>
              /\ log' = log \cup {[n |-> msg[1].n, pkt |-> Bytes(msg), ok |-> TRUE]}
  <1> DEFINE m == Bytes(msg)
             n == msg[1].n
  <1>1. \/ \E r \in BusFailures :
             /\ out' = Tagged(r, n) /\ dev' = "reply" /\ msg' = <<>>
             /\ log' = log \cup {[n |-> n, pkt |-> m, ok |-> FALSE]}
        \/ /\ dev' = "runaway" /\ msg' = <<>> /\ out' = out
           /\ log' = log \cup {[n |-> n, pkt |-> m, ok |-> TRUE]}
    BY DEF Handle
  <1>2. out = <<>>
    BY DEF FlagInv, Handle
  <1> HIDE DEF m, n
  <1>3. CASE \E r \in BusFailures :
             /\ out' = Tagged(r, n) /\ dev' = "reply" /\ msg' = <<>>
             /\ log' = log \cup {[n |-> n, pkt |-> m, ok |-> FALSE]}
    <2>1. PICK r \in BusFailures :
             /\ out' = Tagged(r, n) /\ dev' = "reply" /\ msg' = <<>>
             /\ log' = log \cup {[n |-> n, pkt |-> m, ok |-> FALSE]}
      BY <1>3
    <2>2. r \in Seq(Byte) /\ Len(r) \in Nat /\ Len(r) >= 2
      BY FailureShape
    <2> QED
      BY <2>1, <2>2, Zenon DEF m, n
  <1> QED
    BY <1>1, <1>2, <1>3, Zenon DEF m, n

\* Every handler records the command it was run for.
LEMMA HandleRecords ==
    ASSUME LineInv, FlagInv, Handle
    PROVE  /\ \/ \E r \in Seq(Byte) :
                    Len(r) >= 2 /\ out' = Tagged(r, msg[1].n) /\ dev' = "reply"
              \/ out' = <<>> /\ dev' = "runaway"
           /\ \E e : e.n = msg[1].n /\ log' = log \cup {e}
  <1> DEFINE m == Bytes(msg)
             n == msg[1].n
             d == SubSeq(m, 3, Len(m))
  <1>1. CASE RunsAway(m[1], d)
    <2>1. \/ \E r \in BusFailures :
               /\ r \in Seq(Byte) /\ Len(r) \in Nat /\ Len(r) >= 2
               /\ out' = Tagged(r, n) /\ dev' = "reply" /\ msg' = <<>>
               /\ log' = log \cup {[n |-> n, pkt |-> m, ok |-> FALSE]}
          \/ /\ dev' = "runaway" /\ msg' = <<>> /\ out' = <<>>
             /\ log' = log \cup {[n |-> n, pkt |-> m, ok |-> TRUE]}
      BY <1>1, Lost
    <2> HIDE DEF n, m, d
    <2>2. /\ [n |-> n, pkt |-> m, ok |-> FALSE].n = n
          /\ [n |-> n, pkt |-> m, ok |-> TRUE].n = n
      OBVIOUS
    <2> QED
      BY <2>1, <2>2, Zenon DEF n
  <1>2. CASE ~ RunsAway(m[1], d)
    <2>1. \E r \in Answers(m) :
             /\ r \in Seq(Byte) /\ Len(r) \in Nat /\ Len(r) >= 2
             /\ out' = Tagged(r, n) /\ dev' = "reply" /\ msg' = <<>>
             /\ log' = log \cup {[n |-> n, pkt |-> m, ok |-> (r[1] = Success)]}
      BY <1>2, Handled
    <2> HIDE DEF n, m, d
    <2>2. \A r : [n |-> n, pkt |-> m, ok |-> (r[1] = Success)].n = n
      OBVIOUS
    <2> QED
      BY <2>1, <2>2, Zenon DEF n
  <1> QED
    BY <1>1, <1>2

LEMMA HandleStep ==
    ASSUME LinkInv, Handle
    PROVE  LinkInv'
  <1> DEFINE m == Bytes(msg)
             n == msg[1].n
             d == SubSeq(m, 3, Len(m))
  <1>1. /\ LineInv /\ FlagInv /\ HostInv /\ OwnReply /\ SessionInv
        /\ UNCHANGED <<open, host, pkt, sent, reply, toDev, toHost, rx,
                       calls, last, faults, disturbed>>
        /\ dev = "handle" /\ out = <<>>
    BY DEF LinkInv, Handle, hostVars, FlagInv
  <1>2. n \in 1 .. calls /\ calls \in Nat /\ ~ IsWhole(<<>>) /\ <<>> \in Seq(Mark(calls))
    <2>1. n \in 1 .. calls
      BY <1>1, MessageShape
    <2>2. calls \in Nat
      BY <1>1 DEF FlagInv
    <2>3. ~ IsWhole(<<>>)
      BY DEF IsWhole
    <2> QED
      BY <2>1, <2>2, <2>3
  <1>3. msg' = <<>>
    BY DEF Handle
  <1>4. log \subseteq log'
    BY DEF Handle
  <1>5. OwnReply'
    BY <1>1, <1>4, OwnReplyKept
  <1>6. HostInv'
    BY <1>1 DEF HostInv
  <1>7. /\ \/ \E r \in Seq(Byte) : Len(r) >= 2 /\ out' = Tagged(r, n) /\ dev' = "reply"
           \/ out' = <<>> /\ dev' = "runaway"
        /\ \E e : e.n = n /\ log' = log \cup {e}
    BY <1>1, HandleRecords
  <1>8. LineInv' /\ FlagInv'
    <2>1. /\ out' \in Seq(Mark(calls)) /\ (dev' = "reply" <=> out' # <<>>)
          /\ dev' \in {"reply", "runaway"}
      <3>1. CASE \E r \in Seq(Byte) : Len(r) >= 2 /\ out' = Tagged(r, n) /\ dev' = "reply"
        <4>1. PICK r \in Seq(Byte) : Len(r) >= 2 /\ out' = Tagged(r, n) /\ dev' = "reply"
          BY <3>1
        <4>2. out' \in Seq(Mark(calls)) /\ Len(out') = Len(r)
          BY <1>2, <4>1, TaggedBytes
        <4>3. out' # <<>>
          BY <4>1, <4>2
        <4> QED
          BY <4>1, <4>2, <4>3
      <3>2. CASE out' = <<>> /\ dev' = "runaway"
        BY <1>2, <3>2
      <3> QED
        BY <1>7, <3>1, <3>2
    <2>2. LineInv'
      BY <1>1, <1>2, <1>3, <2>1, Zenon DEF LineInv
    <2>3. \A e \in log' : e.n \in 1 .. calls'
      <3>1. \A e \in log : e.n \in 1 .. calls
        BY <1>1 DEF FlagInv
      <3> HIDE DEF n
      <3> QED
        BY <1>1, <1>2, <1>7, <3>1
    <2>4. FlagInv'
      BY <1>1, <1>2, <1>3, <2>1, <2>3 DEF FlagInv
    <2> QED
      BY <2>2, <2>4
  <1>9. SessionInv'
    <2>1. SUFFICES ASSUME ~disturbed
                   PROVE  SessionInv'
      BY <1>1 DEF SessionInv
    <2>2. /\ m \in Requests /\ n = calls /\ rx = <<>> /\ toDev = <<>>
          /\ host # "send" /\ ~(open /\ host = "idle")
          /\ host = "read" => Asking /\ m = pkt
      BY <1>1, <2>1, WholeMessage
    <2>3. RequestBytes' = 0
      BY <1>1, <1>3, <2>2, NothingUnderWay, Zenon DEF RequestBytes
    <2>4. Arriving'
      <3>1. Spread(msg', rx', toDev', <<>>, calls') /\ RequestBytes' <= Len(<<>>)
        BY <1>1, <1>3, <2>2, <2>3, NothingUnderWay
      <3> QED
        BY <3>1 DEF Arriving
    <2>5. ASSUME host = "read"
          PROVE  Answering'
      <3>1. Asking /\ m = pkt
        BY <2>2, <2>5
      <3>2. ~ RunsAway(m[1], d)
        BY <2>2, NoRunaway
      <3>3. PICK r \in Answers(m) :
               /\ r \in Seq(Byte) /\ Len(r) \in Nat /\ Len(r) >= 2
               /\ out' = Tagged(r, n) /\ dev' = "reply" /\ msg' = <<>>
               /\ log' = log \cup {[n |-> n, pkt |-> m, ok |-> (r[1] = Success)]}
        BY <1>1, <3>2, Handled
      <3>4. /\ Len(out') = Len(r) /\ Piece(out', 0, r, calls)
        BY <1>2, <2>2, <3>3, TaggedBytes
      <3>5. reply = <<>> /\ toHost = <<>>
        <4>1. /\ Len(reply) \in Nat /\ Len(toHost) \in Nat /\ Len(out) \in Nat
              /\ Len(reply) + Len(toHost) + Len(out) = 0
          BY <1>1, <3>1, Lengths DEF Asking, ReplyBytes
        <4>2. Len(reply) = 0 /\ Len(toHost) = 0
          BY <4>1
        <4> QED
          BY <1>1, <4>2, Lengths
      <3>6. /\ reply' = <<>> /\ toHost' = <<>> /\ Len(reply') = 0 /\ Len(toHost') = 0
            /\ Len(reply') + Len(toHost') = 0
        BY <1>1, <3>5, NothingUnderWay
      <3>7. ReplyBytes' = Len(r)
        BY <3>3, <3>4, <3>6 DEF ReplyBytes
      <3>8. Spread(reply', toHost', out', r, calls')
        <4>1. Piece(reply', 0, r, calls') /\ Piece(toHost', Len(reply'), r, calls')
          BY <3>6 DEF Piece
        <4>2. Piece(out', Len(reply') + Len(toHost'), r, calls')
          BY <1>1, <3>4, <3>6
        <4> QED
          BY <4>1, <4>2 DEF Spread
      <3>9. \A e \in log : e.n # calls
        BY <3>1 DEF Asking
      <3>10. /\ \E e \in log' : e.n = calls' /\ e.pkt = pkt' /\ e.ok = (r[1] = Success)
             /\ \A e \in log' : e.n = calls' => e.ok = (r[1] = Success)
        <4> DEFINE new == [n |-> n, pkt |-> m, ok |-> (r[1] = Success)]
        <4>1. new.n = n /\ new.pkt = m /\ new.ok = (r[1] = Success)
          BY Zenon
        <4>2. log' = log \cup {new}
          BY <3>3
        <4> HIDE DEF new, n, m
        <4> QED
          BY <1>1, <2>2, <3>1, <3>9, <4>1, <4>2, Zenon
      <3>11. r \in Answers(pkt') /\ Len(reply') < Len(r)
        BY <1>1, <3>1, <3>3, <3>6
      <3>12. dev' \in {"read", "reply"}
        BY <3>3
      <3> HIDE DEF n, m
      <3> QED
        BY <2>3, <3>7, <3>8, <3>10, <3>11, <3>12 DEF Answering
    <2>6. host \in {"idle", "send", "read"}
      BY <1>1 DEF FlagInv
    <2> QED
      BY <1>1, <2>2, <2>4, <2>5, <2>6 DEF SessionInv
  <1> QED
    BY <1>5, <1>6, <1>8, <1>9 DEF LinkInv

\* Every step keeps the invariant.
LEMMA LinkStep ==
    ASSUME LinkInv, [Next]_vars
    PROVE  LinkInv'
  <1>1. CASE Open
    BY <1>1, OpenStep
  <1>2. CASE Close
    BY <1>2, CloseStep
  <1>3. ASSUME NEW p \in Requests, ExecCmd(p)
        PROVE  LinkInv'
    BY <1>3, ExecCmdStep
  <1>4. CASE SendByte
    BY <1>4, SendByteStep
  <1>5. CASE ReadReply
    BY <1>5, ReadReplyStep
  <1>6. CASE ReadTimeout \/ WriteError
    BY <1>6, ReturnStep
  <1>7. CASE Receive
    BY <1>7, ReceiveStep
  <1>8. CASE Lose
    BY <1>8, LoseStep
  <1>9. CASE ReadMessage
    BY <1>9, ReadMessageStep
  <1>10. CASE Handle
    BY <1>10, HandleStep
  <1>11. CASE WriteReply
    BY <1>11, WriteReplyStep
  <1>12. CASE UNCHANGED vars
    BY <1>12 DEF LinkInv, LineInv, FlagInv, HostInv, SessionInv, OwnReply, Arriving,
                 Asking, Answering, RequestBytes, ReplyBytes, vars, hostVars, devVars,
                 ghosts
  <1> QED
    BY <1>1, <1>2, <1>3, <1>4, <1>5, <1>6, <1>7, <1>8, <1>9, <1>10, <1>11, <1>12
    DEF Next, Host, Coprocessor

-----------------------------------------------------------------------------
(***************************************************************************)
(* The theorems.                                                           *)
(***************************************************************************)

\* The invariant of the link: in every session the bytes under way are bytes of
\* commands that were started, and in one that no fault disturbed glydb, the line
\* and the coprocessor agree on how far the one command has got.
THEOREM LinkInvariant == Spec => []LinkInv
  <1>1. Init => LinkInv
    BY LinkInit
  <1>2. LinkInv /\ [Next]_vars => LinkInv'
    BY LinkStep
  <1> QED
    BY <1>1, <1>2, PTL DEF Spec

\* Every byte, flag and counter of the link keeps its type, in every session.
THEOREM LinkTypeOK == Spec => []TypeOK
  <1>1. LinkInv => TypeOK
    <2> SUFFICES ASSUME LinkInv PROVE TypeOK
      OBVIOUS
    <2>1. LineInv /\ FlagInv /\ HostInv
      BY DEF LinkInv
    <2>2. ASSUME NEW s \in Seq(Mark(calls))
          PROVE  Tagging(s)
      <3>1. \A i \in 1 .. Len(s) : s[i] \in Mark(calls)
        BY ElementOfSeq
      <3> QED
        BY <3>1 DEF Tagging, Mark
    <2>3. /\ Tagging(toDev) /\ Tagging(toHost) /\ Tagging(rx)
          /\ Tagging(reply) /\ Tagging(msg) /\ Tagging(out)
      BY <2>1, <2>2 DEF LineInv
    <2>4. host = "send" => sent < Len(pkt)
      <3>1. host = "send" => Len(pkt) \in Nat /\ sent \in 0 .. Len(pkt) - 1
        BY <2>1, RequestShape DEF HostInv
      <3> QED
        BY <3>1
    <2> QED
      BY <2>1, <2>3, <2>4 DEF TypeOK, FlagInv
  <1> QED
    BY <1>1, LinkInvariant, PTL

\* In a session in which no byte was lost or late, a command that returned was run
\* by the coprocessor on the very bytes glydb sent, it returned success exactly when
\* its handler succeeded, and every byte of its reply was written for it.
THEOREM LinkOwnReply == Spec => []OwnReply
  <1>1. LinkInv => OwnReply
    BY DEF LinkInv
  <1> QED
    BY <1>1, LinkInvariant, PTL


-----------------------------------------------------------------------------
(***************************************************************************)
(* What is under way to the main loop, whatever place it has reached.      *)
(***************************************************************************)

Holds(s, c) == \E j \in 1 .. Len(s) : s[j].n = c

LEMMA HoldsNothing == \A c : ~ Holds(<<>>, c)
  BY DEF Holds

LEMMA HoldsJoined ==
    ASSUME NEW M, NEW s \in Seq(M), NEW t \in Seq(M), NEW c
    PROVE  /\ s \o t \in Seq(M) /\ Len(s \o t) = Len(s) + Len(t)
           /\ Holds(s \o t, c) <=> Holds(s, c) \/ Holds(t, c)
  <1> DEFINE w == s \o t
  <1>1. /\ w \in Seq(M) /\ Len(w) = Len(s) + Len(t) /\ Len(s) \in Nat /\ Len(t) \in Nat
        /\ \A j \in 1 .. Len(s) + Len(t) : w[j] = IF j <= Len(s) THEN s[j] ELSE t[j - Len(s)]
    BY ConcatProperties
  <1> HIDE DEF w
  <1>2. ASSUME Holds(w, c) PROVE Holds(s, c) \/ Holds(t, c)
    <2>1. PICK j \in 1 .. Len(w) : w[j].n = c
      BY <1>2 DEF Holds
    <2>2. CASE j <= Len(s)
      <3>1. j \in 1 .. Len(s) /\ w[j] = s[j]
        BY <1>1, <2>2
      <3> QED
        BY <2>1, <3>1 DEF Holds
    <2>3. CASE ~(j <= Len(s))
      <3>1. j - Len(s) \in 1 .. Len(t) /\ w[j] = t[j - Len(s)]
        BY <1>1, <2>3
      <3> QED
        BY <2>1, <3>1 DEF Holds
    <2> QED
      BY <2>2, <2>3
  <1>3. ASSUME Holds(s, c) PROVE Holds(w, c)
    <2>1. PICK j \in 1 .. Len(s) : s[j].n = c
      BY <1>3 DEF Holds
    <2>2. j \in 1 .. Len(w) /\ w[j] = s[j]
      BY <1>1
    <2> QED
      BY <2>1, <2>2 DEF Holds
  <1>4. ASSUME Holds(t, c) PROVE Holds(w, c)
    <2>1. PICK j \in 1 .. Len(t) : t[j].n = c
      BY <1>4 DEF Holds
    <2>2. /\ Len(s) + j \in 1 .. Len(s) + Len(t) /\ ~(Len(s) + j <= Len(s))
          /\ (Len(s) + j) - Len(s) = j
      BY <1>1
    <2>3. Len(s) + j \in 1 .. Len(w) /\ w[Len(s) + j] = t[j]
      BY <1>1, <2>2
    <2> QED
      BY <2>1, <2>3 DEF Holds
  <1> QED
    BY <1>1, <1>2, <1>3, <1>4 DEF w

LEMMA HoldsPut ==
    ASSUME NEW M, NEW s \in Seq(M), NEW x \in M, NEW c
    PROVE  Holds(Append(s, x), c) <=> Holds(s, c) \/ x.n = c
  <1> DEFINE w == Append(s, x)
  <1>1. /\ Len(w) = Len(s) + 1 /\ Len(s) \in Nat /\ w[Len(s) + 1] = x
        /\ \A j \in 1 .. Len(s) : w[j] = s[j]
    BY PutByte
  <1> HIDE DEF w
  <1>2. ASSUME Holds(w, c) PROVE Holds(s, c) \/ x.n = c
    <2>1. PICK j \in 1 .. Len(w) : w[j].n = c
      BY <1>2 DEF Holds
    <2>2. j = Len(s) + 1 \/ j \in 1 .. Len(s)
      BY <1>1
    <2> QED
      BY <1>1, <2>1, <2>2 DEF Holds
  <1>3. ASSUME Holds(s, c) PROVE Holds(w, c)
    <2>1. PICK j \in 1 .. Len(s) : s[j].n = c
      BY <1>3 DEF Holds
    <2>2. j \in 1 .. Len(w) /\ w[j] = s[j]
      BY <1>1
    <2> QED
      BY <2>1, <2>2 DEF Holds
  <1>4. ASSUME x.n = c PROVE Holds(w, c)
    <2>1. Len(s) + 1 \in 1 .. Len(w)
      BY <1>1
    <2> QED
      BY <1>1, <1>4, <2>1 DEF Holds
  <1> QED
    BY <1>2, <1>3, <1>4 DEF w

LEMMA HoldsTaken ==
    ASSUME NEW M, NEW s \in Seq(M), s # <<>>, NEW c
    PROVE  Holds(s, c) <=> Head(s).n = c \/ Holds(Tail(s), c)
  <1> DEFINE t == Tail(s)
             h == Head(s)
  <1>1. /\ Len(s) \in Nat /\ Len(s) > 0 /\ Len(t) = Len(s) - 1 /\ h = s[1]
        /\ \A j \in 1 .. Len(s) - 1 : t[j] = s[j + 1]
    BY TakeByte
  <1> HIDE DEF t, h
  <1>2. ASSUME Holds(s, c) PROVE h.n = c \/ Holds(t, c)
    <2>1. PICK j \in 1 .. Len(s) : s[j].n = c
      BY <1>2 DEF Holds
    <2>2. CASE j = 1
      BY <1>1, <2>1, <2>2
    <2>3. CASE j # 1
      <3>1. j - 1 \in 1 .. Len(t) /\ t[j - 1] = s[(j - 1) + 1] /\ (j - 1) + 1 = j
        BY <1>1, <2>3
      <3> QED
        BY <2>1, <3>1 DEF Holds
    <2> QED
      BY <2>2, <2>3
  <1>3. ASSUME h.n = c PROVE Holds(s, c)
    <2>1. 1 \in 1 .. Len(s)
      BY <1>1
    <2> QED
      BY <1>1, <1>3, <2>1 DEF Holds
  <1>4. ASSUME Holds(t, c) PROVE Holds(s, c)
    <2>1. PICK j \in 1 .. Len(t) : t[j].n = c
      BY <1>4 DEF Holds
    <2>2. j + 1 \in 1 .. Len(s) /\ t[j] = s[j + 1]
      BY <1>1
    <2> QED
      BY <2>1, <2>2 DEF Holds
  <1> QED
    BY <1>2, <1>3, <1>4 DEF t, h

LEMMA HoldsAnywhere ==
    ASSUME NEW M, NEW s \in Seq(M), NEW t \in Seq(M), NEW u \in Seq(M)
    PROVE  /\ Len(s \o t \o u) = Len(s) + Len(t) + Len(u)
           /\ \A c : Holds(s \o t \o u, c) <=> Holds(s, c) \/ Holds(t, c) \/ Holds(u, c)
  <1>1. /\ s \o t \in Seq(M) /\ Len(s \o t) = Len(s) + Len(t)
        /\ \A c : Holds(s \o t, c) <=> Holds(s, c) \/ Holds(t, c)
    BY HoldsJoined
  <1>2. /\ Len(s \o t \o u) = Len(s \o t) + Len(u)
        /\ \A c : Holds(s \o t \o u, c) <=> Holds(s \o t, c) \/ Holds(u, c)
    BY <1>1, HoldsJoined
  <1> QED
    BY <1>1, <1>2

LEMMA UnderWayParts ==
    ASSUME LineInv
    PROVE  /\ Len(UnderWay) = RequestBytes
           /\ \A c : Holds(UnderWay, c) <=> Holds(toDev, c) \/ Holds(rx, c) \/ Holds(msg, c)
  <1>1. /\ Len(UnderWay) = Len(toDev) + Len(rx) + Len(msg)
        /\ \A c : Holds(UnderWay, c) <=> Holds(toDev, c) \/ Holds(rx, c) \/ Holds(msg, c)
    BY HoldsAnywhere DEF UnderWay, LineInv
  <1>2. Len(msg) \in Nat /\ Len(rx) \in Nat /\ Len(toDev) \in Nat
    BY Lengths
  <1> QED
    BY <1>1, <1>2 DEF RequestBytes

\* Whether a command may still be carried out, by place.
LEMMA InFlightParts ==
    ASSUME LineInv
    PROVE  InFlight <=> \/ host = "send" \/ Holds(toDev, calls)
                        \/ Holds(rx, calls) \/ Holds(msg, calls)
  BY UnderWayParts DEF InFlight, Holds

\* The same of the next state.
LEMMA InFlightNext ==
    ASSUME LineInv'
    PROVE  InFlight' <=> \/ host' = "send" \/ Holds(toDev', calls')
                         \/ Holds(rx', calls') \/ Holds(msg', calls')
  <1>1. \A c : Holds(UnderWay', c) <=> Holds(toDev', c) \/ Holds(rx', c) \/ Holds(msg', c)
    BY HoldsAnywhere DEF UnderWay, LineInv
  <1> QED
    BY <1>1 DEF InFlight, Holds

\* Until a fault disturbs the session, at most one request and its reply are under
\* way, and nothing comes back before the request was sent: the assumption that
\* SerialRing makes of the sender.
THEOREM LinkOneRequest == Spec => []OneRequest
  <1>1. LinkInv => OneRequest
    <2> SUFFICES ASSUME LinkInv, open, ~disturbed PROVE
          /\ Len(UnderWay) <= Len(pkt)
          /\ \A i \in 1 .. Len(UnderWay) : UnderWay[i].n = calls
          /\ host # "read" => out = <<>> /\ toHost = <<>>
      BY DEF OneRequest
    <2>1. LineInv /\ FlagInv /\ HostInv /\ SessionInv /\ Arriving
      BY DEF LinkInv, SessionInv
    <2>2. host \in {"idle", "send", "read"}
      BY <2>1 DEF FlagInv
    <2>3. Len(UnderWay) <= Len(pkt)
      <3>1. Len(UnderWay) = RequestBytes
        BY <2>1, UnderWayParts
      <3>2. CASE host = "idle"
        BY <2>1, <3>1, <3>2, NothingUnderWay DEF SessionInv, HostInv
      <3>3. CASE host # "idle"
        <4>1. Len(pkt) \in Nat /\ (host = "send" => sent \in 0 .. Len(pkt) - 1)
              /\ (host = "read" => sent = Len(pkt))
          BY <2>1, <3>3, RequestShape DEF HostInv
        <4>2. RequestBytes = sent \/ (host = "read" /\ RequestBytes = 0)
          BY <2>1, <2>2, <3>3 DEF SessionInv, Asking, Answering
        <4> QED
          BY <2>2, <3>1, <3>3, <4>1, <4>2
      <3> QED
        BY <3>2, <3>3
    <2>4. ASSUME NEW i \in 1 .. Len(UnderWay)
          PROVE  UnderWay[i].n = calls
      <3> DEFINE c == UnderWay[i].n
      <3>1. Holds(UnderWay, c)
        BY DEF Holds
      <3> HIDE DEF c
      <3>2. Holds(toDev, c) \/ Holds(rx, c) \/ Holds(msg, c)
        BY <2>1, <3>1, UnderWayParts
      <3>3. PICK q : Spread(msg, rx, toDev, q, calls)
        BY <2>1 DEF Arriving
      <3>4. c = calls
        BY <3>2, <3>3 DEF Spread, Piece, Holds
      <3> QED
        BY <3>4 DEF c
    <2>5. ASSUME host # "read"
          PROVE  out = <<>> /\ toHost = <<>>
      <3>1. ReplyBytes = 0
        BY <2>1, <2>2, <2>5 DEF SessionInv, Asking
      <3>2. /\ Len(reply) \in Nat /\ Len(toHost) \in Nat /\ Len(out) \in Nat
            /\ Len(reply) + Len(toHost) + Len(out) = 0
        BY <2>1, <3>1, Lengths DEF ReplyBytes
      <3>3. Len(toHost) = 0 /\ Len(out) = 0
        BY <3>2
      <3> QED
        BY <2>1, <3>3, Lengths
    <2> QED
      BY <2>3, <2>4, <2>5
  <1> QED
    BY <1>1, LinkInvariant, PTL

-----------------------------------------------------------------------------
(***************************************************************************)
(* The link implements the remote call.                                    *)
(***************************************************************************)

CarriedOut(l) == {e.n : e \in {x \in l : x.ok}}

LEMMA OneMoreDone ==
    ASSUME NEW l, NEW e
    PROVE  CarriedOut(l \cup {e}) \in {CarriedOut(l), CarriedOut(l) \cup {e.n}}
  <1>1. CASE e.ok
    BY <1>1 DEF CarriedOut
  <1>2. CASE ~ e.ok
    BY <1>2 DEF CarriedOut
  <1> QED
    BY <1>1, <1>2

LEMMA RpcInit == Init => Rpc!Init
  <1> SUFFICES ASSUME Init PROVE Rpc!Init
    OBVIOUS
  <1>1. LineInv
    BY DEF Init, LineInv
  <1>2. ~ InFlight
    BY <1>1, InFlightParts, HoldsNothing DEF Init
  <1>3. {e.n : e \in {x \in log : x.ok}} = {}
    BY DEF Init
  <1> QED
    BY <1>2, <1>3 DEF Init, Rpc!Init


LEMMA OpenIsOpen ==
    ASSUME LinkInv, LinkInv', Open
    PROVE  Rpc!Open
  <1>1. /\ open = FALSE /\ open' = TRUE /\ disturbed' = FALSE
        /\ UNCHANGED <<host, calls, log, last>>
        /\ toDev' = <<>> /\ rx' = <<>> /\ msg' = <<>>
        /\ host # "idle" => open
    BY DEF Open, LinkInv, FlagInv, HostInv
  <1>2. ~ InFlight'
    <2>1. host' = "idle"
      BY <1>1
    <2>2. InFlight' <=> \/ host' = "send" \/ Holds(toDev', calls')
                        \/ Holds(rx', calls') \/ Holds(msg', calls')
      BY InFlightNext DEF LinkInv
    <2> QED
      BY <1>1, <2>1, <2>2, HoldsNothing
  <1> QED
    BY <1>1, <1>2 DEF Rpc!Open

LEMMA CloseIsClose ==
    ASSUME LinkInv, LinkInv', Close
    PROVE  Rpc!Close
  <1>1. /\ open = TRUE /\ open' = FALSE /\ host' = "idle"
        /\ UNCHANGED <<toDev, rx, msg, disturbed, calls, log, last>>
    BY DEF Close, LinkInv, FlagInv, devVars, ghosts
  <1>2. InFlight' => InFlight
    <2>1. InFlight' <=> \/ host' = "send" \/ Holds(toDev', calls')
                        \/ Holds(rx', calls') \/ Holds(msg', calls')
      BY InFlightNext DEF LinkInv
    <2>2. InFlight <=> \/ host = "send" \/ Holds(toDev, calls)
                       \/ Holds(rx, calls) \/ Holds(msg, calls)
      BY InFlightParts DEF LinkInv
    <2> QED
      BY <1>1, <2>1, <2>2
  <1>3. InFlight' \in {InFlight, FALSE}
    BY <1>2 DEF InFlight
  <1> QED
    BY <1>1, <1>3 DEF Rpc!Close

LEMMA ExecCmdIsCall ==
    ASSUME LinkInv, NEW p \in Requests, ExecCmd(p)
    PROVE  Rpc!Call
  <1>1. InFlight'
    BY DEF ExecCmd, InFlight
  <1> QED
    BY <1>1 DEF ExecCmd, Rpc!Call

\* A step that moves bytes only, and none of them away.
LEMMA MoveIsStutter ==
    ASSUME UNCHANGED <<open, disturbed, calls, log, last>>,
           (host' # "idle") = (host # "idle"), InFlight' <=> InFlight
    PROVE  UNCHANGED Rpc!vars
  BY DEF Rpc!vars, InFlight

LEMMA SendByteIsStutter ==
    ASSUME LinkInv, LinkInv', SendByte
    PROVE  UNCHANGED Rpc!vars
  <1> DEFINE x == [b |-> pkt[sent + 1], n |-> calls]
  <1>1. /\ UNCHANGED <<open, disturbed, calls, log, last>>
        /\ host = "send" /\ host' \in {"send", "read"}
        /\ toDev' = Append(toDev, x)
    BY DEF SendByte, ghosts
  <1>2. InFlight
    BY <1>1 DEF InFlight
  <1>3. InFlight'
    <2>1. x.n = calls
      OBVIOUS
    <2>2. x \in Mark(calls)
      <3>1. pkt \in Requests /\ sent \in 0 .. Len(pkt) - 1 /\ calls \in Nat /\ calls > 0
        BY <1>1 DEF LinkInv, HostInv, FlagInv
      <3>2. sent + 1 \in 1 .. Len(pkt)
        BY <3>1, RequestShape
      <3> QED
        BY <3>1, <3>2, RequestShape DEF Mark
    <2> HIDE DEF x
    <2>3. Holds(toDev', calls')
      BY <1>1, <2>1, <2>2, HoldsPut DEF LinkInv, LineInv
    <2> QED
      BY <2>3, InFlightNext DEF LinkInv
  <1> QED
    BY <1>1, <1>2, <1>3, MoveIsStutter

LEMMA ReadMessageIsStutter ==
    ASSUME LinkInv, LinkInv', ReadMessage
    PROVE  UNCHANGED Rpc!vars
  <1>1. /\ UNCHANGED <<open, disturbed, calls, log, last, host, toDev>>
        /\ rx # <<>> /\ rx' = Tail(rx) /\ msg' = Append(msg, Head(rx))
        /\ rx \in Seq(Mark(calls)) /\ msg \in Seq(Mark(calls))
    BY DEF ReadMessage, hostVars, ghosts, LinkInv, LineInv
  <1>2. Head(rx) \in Mark(calls)
    BY <1>1, TakeByte
  <1>3. Holds(msg', calls) <=> Holds(msg, calls) \/ Head(rx).n = calls
    BY <1>1, <1>2, HoldsPut
  <1>4. Holds(rx, calls) <=> Head(rx).n = calls \/ Holds(rx', calls)
    BY <1>1, HoldsTaken
  <1>5. InFlight' <=> InFlight
    <2>1. InFlight' <=> \/ host' = "send" \/ Holds(toDev', calls')
                        \/ Holds(rx', calls') \/ Holds(msg', calls')
      BY InFlightNext DEF LinkInv
    <2>2. InFlight <=> \/ host = "send" \/ Holds(toDev, calls)
                       \/ Holds(rx, calls) \/ Holds(msg, calls)
      BY InFlightParts DEF LinkInv
    <2> QED
      BY <1>1, <1>3, <1>4, <2>1, <2>2
  <1> QED
    BY <1>1, <1>5, MoveIsStutter

LEMMA WriteReplyIsStutter ==
    ASSUME WriteReply
    PROVE  UNCHANGED Rpc!vars
  <1>1. UNCHANGED <<open, disturbed, calls, log, last, host, toDev, rx, msg>>
    BY DEF WriteReply, hostVars, ghosts
  <1>2. InFlight' <=> InFlight
    BY <1>1 DEF InFlight, UnderWay
  <1> QED
    BY <1>1, <1>2, MoveIsStutter

\* Steps of a disturbed session that carry nothing out.
LEMMA DisturbedStep ==
    ASSUME disturbed' = TRUE, UNCHANGED <<open, calls, log>>,
           host' = host \/ host' = "idle",
           last' = last \/ (host # "idle" /\ last'.n = calls /\ last'.ok \in BOOLEAN)
    PROVE  Rpc!Disturbed
  <1>1. (host' # "idle") \in {host # "idle", FALSE}
    OBVIOUS
  <1>2. InFlight' \in BOOLEAN
    BY DEF InFlight
  <1>3. {e.n : e \in {x \in log' : x.ok}} = {e.n : e \in {x \in log : x.ok}} \cup {}
    OBVIOUS
  <1>4. \/ [n |-> last'.n, ok |-> last'.ok] = [n |-> last.n, ok |-> last.ok]
        \/ /\ host # "idle"
           /\ [n |-> last'.n, ok |-> last'.ok] \in [n : {calls}, ok : BOOLEAN]
    OBVIOUS
  <1> QED
    BY <1>1, <1>2, <1>3, <1>4 DEF Rpc!Disturbed

LEMMA ReceiveIsStep ==
    ASSUME LinkInv, LinkInv', Receive
    PROVE  [Rpc!Next]_(Rpc!vars)
  <1>1. /\ UNCHANGED <<open, disturbed, calls, log, last, host, msg>>
        /\ toDev # <<>> /\ toDev' = Tail(toDev)
        /\ rx' = IF Len(rx) < Capacity THEN Append(rx, Head(toDev)) ELSE rx
        /\ rx \in Seq(Mark(calls)) /\ toDev \in Seq(Mark(calls))
    BY DEF Receive, hostVars, devVars, ghosts, LinkInv, LineInv
  <1>2. CASE Len(rx) < Capacity
    <2>1. Head(toDev) \in Mark(calls) /\ rx' = Append(rx, Head(toDev))
      BY <1>1, <1>2, TakeByte
    <2>2. Holds(rx', calls) <=> Holds(rx, calls) \/ Head(toDev).n = calls
      BY <1>1, <2>1, HoldsPut
    <2>3. Holds(toDev, calls) <=> Head(toDev).n = calls \/ Holds(toDev', calls)
      BY <1>1, HoldsTaken
    <2>4. InFlight' <=> InFlight
      <3>1. InFlight' <=> \/ host' = "send" \/ Holds(toDev', calls')
                          \/ Holds(rx', calls') \/ Holds(msg', calls')
        BY InFlightNext DEF LinkInv
      <3>2. InFlight <=> \/ host = "send" \/ Holds(toDev, calls)
                         \/ Holds(rx, calls) \/ Holds(msg, calls)
        BY InFlightParts DEF LinkInv
      <3> QED
        BY <1>1, <2>2, <2>3, <3>1, <3>2
    <2> QED
      BY <1>1, <2>4, MoveIsStutter
  <1>3. CASE ~(Len(rx) < Capacity)
    <2>1. disturbed
      BY <1>1, <1>3, RoomForRequest DEF LinkInv, SessionInv
    <2>2. disturbed' = TRUE
      BY <1>1, <2>1 DEF LinkInv, FlagInv
    <2> QED
      BY <1>1, <2>2, DisturbedStep DEF Rpc!Next
  <1> QED
    BY <1>2, <1>3

LEMMA ReturnIsDisturbed ==
    ASSUME LinkInv, ReadTimeout \/ WriteError
    PROVE  Rpc!Disturbed
  <1>1. /\ host # "idle" /\ host' = "idle" /\ UNCHANGED <<open, calls, log>>
        /\ last'.n = calls /\ last'.ok = FALSE
    BY DEF ReadTimeout, WriteError, Return
  <1>2. disturbed' = TRUE
    <2>1. CASE WriteError \/ (ReadTimeout /\ ~Silent)
      BY <2>1 DEF WriteError, ReadTimeout, Fault
    <2>2. CASE ReadTimeout /\ Silent
      <3>1. disturbed = TRUE /\ disturbed' = disturbed
        BY <2>2, NotSilent DEF ReadTimeout, LinkInv, FlagInv
      <3> QED
        BY <3>1
    <2> QED
      BY <2>1, <2>2
  <1> QED
    BY <1>1, <1>2, DisturbedStep

LEMMA LoseIsDisturbed ==
    ASSUME Lose
    PROVE  Rpc!Disturbed
  <1>1. /\ disturbed' = TRUE /\ UNCHANGED <<open, calls, log, host, last>>
    BY DEF Lose, Fault, hostVars
  <1> QED
    BY <1>1, DisturbedStep


LEMMA ReadReplyIsStep ==
    ASSUME LinkInv, LinkInv', ReadReply
    PROVE  [Rpc!Next]_(Rpc!vars)
  <1> DEFINE s == Append(reply, Head(toHost))
  <1>1. /\ UNCHANGED <<open, toDev, rx, msg, calls, log, disturbed>>
        /\ host = "read" /\ toHost # <<>>
        /\ \/ /\ IsWhole(s) /\ host' = "idle"
              /\ last' = [n |-> calls, ok |-> Succeeded(s), pkt |-> pkt, reply |-> s,
                          clean |-> ~disturbed]
           \/ ~ IsWhole(s) /\ UNCHANGED <<host, last>>
        /\ Succeeded(s) = (s[1].b = Success)
    BY DEF ReadReply, Return, devVars, Succeeded
  <1>2. CASE ~ IsWhole(s)
    <2>1. InFlight' <=> InFlight
      BY <1>1, <1>2 DEF InFlight, UnderWay
    <2> QED
      BY <1>1, <1>2, <2>1, MoveIsStutter
  <1>3. CASE IsWhole(s) /\ disturbed
    <2>1. disturbed' = TRUE
      BY <1>1, <1>3 DEF LinkInv, FlagInv
    <2>2. last'.n = calls /\ last'.ok \in BOOLEAN
      BY <1>1, <1>3 DEF LinkInv, FlagInv
    <2> QED
      BY <1>1, <1>3, <2>1, <2>2, DisturbedStep DEF Rpc!Next
  <1>4. CASE IsWhole(s) /\ ~disturbed
    <2>1. /\ RequestBytes = 0
          /\ \E r \in Answers(pkt) :
                /\ r \in Seq(Byte) /\ Len(r) \in Nat /\ Len(r) >= 2
                /\ Spread(s, Tail(toHost), out, r, calls)
                /\ \E e \in log : e.n = calls /\ e.pkt = pkt /\ e.ok = (r[1] = Success)
                /\ \A e \in log : e.n = calls => e.ok = (r[1] = Success)
      BY <1>1, <1>4, ReplyArrives
    <2>2. PICK r \in Answers(pkt) :
             /\ Spread(s, Tail(toHost), out, r, calls)
             /\ \E e \in log : e.n = calls /\ e.ok = (r[1] = Success)
             /\ \A e \in log : e.n = calls => e.ok = (r[1] = Success)
      BY <2>1
    <2>3. ~ InFlight /\ ~ InFlight'
      <3>1. toDev = <<>> /\ rx = <<>> /\ msg = <<>>
        <4>1. /\ Len(msg) \in Nat /\ Len(rx) \in Nat /\ Len(toDev) \in Nat
              /\ Len(msg) + Len(rx) + Len(toDev) = 0
          BY <2>1, Lengths DEF LinkInv, RequestBytes
        <4>2. Len(msg) = 0 /\ Len(rx) = 0 /\ Len(toDev) = 0
          BY <4>1
        <4> QED
          BY <4>2, Lengths DEF LinkInv
      <3>2. ~ InFlight
        BY <1>1, <3>1, InFlightParts, HoldsNothing DEF LinkInv
      <3>3. ~ InFlight'
        <4>1. InFlight' <=> \/ host' = "send" \/ Holds(toDev', calls')
                            \/ Holds(rx', calls') \/ Holds(msg', calls')
          BY InFlightNext DEF LinkInv
        <4>2. host' = "idle"
          BY <1>1, <1>4
        <4> QED
          BY <1>1, <3>1, <4>1, <4>2, HoldsNothing
      <3> QED
        BY <3>2, <3>3
    <2>4. Succeeded(s) = (r[1] = Success)
      <3>1. 1 \in 1 .. Len(s)
        <4>1. Len(s) = Len(reply) + 1 /\ Len(reply) \in Nat
          BY <1>1, PutByte, TakeByte, Lengths DEF LinkInv, LineInv
        <4> QED
          BY <4>1
      <3>2. s[1].b = r[0 + 1]
        BY <2>2, <3>1 DEF Spread, Piece
      <3> QED
        BY <1>1, <3>2
    <2>5. last'.n = calls /\ last'.ok = Succeeded(s)
      BY <1>1, <1>4
    <2> DEFINE done == {e.n : e \in {x \in log : x.ok}}
    <2>6. (calls \in done) = Succeeded(s)
      <3>1. CASE r[1] = Success
        <4>1. PICK e \in log : e.n = calls /\ e.ok = TRUE
          BY <2>2, <3>1
        <4> QED
          BY <2>4, <3>1, <4>1
      <3>2. CASE r[1] # Success
        <4>1. \A e \in log : e.n = calls => ~ e.ok
          BY <2>2, <3>2
        <4> QED
          BY <2>4, <3>2, <4>1
      <3> QED
        BY <3>1, <3>2
    <2>7. [n |-> last'.n, ok |-> last'.ok] = [n |-> calls, ok |-> calls \in done]
      BY <2>5, <2>6, Zenon
    <2>8. done' = done /\ host' = "idle"
      BY <1>1, <1>4
    <2>9. (host # "idle") /\ (host' # "idle") = FALSE /\ InFlight' = InFlight
      <3>1. (host # "idle") /\ (host' # "idle") = FALSE
        BY <1>1, <2>8
      <3>2. InFlight' = InFlight
        BY <2>3 DEF InFlight
      <3> QED
        BY <3>1, <3>2
    <2>10. Rpc!Return
      BY <1>1, <2>3, <2>7, <2>8, <2>9, Zenon DEF Rpc!Return
    <2> QED
      BY <2>10 DEF Rpc!Next
  <1> QED
    BY <1>2, <1>3, <1>4

LEMMA HandleIsStep ==
    ASSUME LinkInv, LinkInv', Handle
    PROVE  Rpc!Next
  <1> DEFINE n == msg[1].n
             done == {e.n : e \in {x \in log : x.ok}}
  <1>1. /\ UNCHANGED <<open, host, toDev, rx, calls, last, disturbed>>
        /\ dev = "handle" /\ msg' = <<>>
    BY DEF Handle, hostVars
  <1>2. n \in 1 .. calls /\ 1 \in 1 .. Len(msg)
    <2>1. n \in 1 .. calls /\ Len(msg) \in Nat /\ Len(msg) >= 2
      BY <1>1, MessageShape DEF LinkInv
    <2> QED
      BY <2>1
  <1>3. done' \in {done, done \cup {n}}
    <2>1. \E e : e.n = n /\ log' = log \cup {e}
      BY HandleRecords DEF LinkInv
    <2>2. PICK e : e.n = n /\ log' = log \cup {e}
      BY <2>1
    <2>3. CarriedOut(log \cup {e}) \in {CarriedOut(log), CarriedOut(log) \cup {e.n}}
      BY OneMoreDone
    <2> QED
      BY <2>2, <2>3 DEF CarriedOut
  <1>4. CASE disturbed
    <2>1. disturbed' = TRUE
      BY <1>1, <1>4 DEF LinkInv, FlagInv
    <2>2. \E d \in SUBSET (1 .. calls) : done' = done \cup d
      <3>1. {n} \in SUBSET (1 .. calls) /\ {} \in SUBSET (1 .. calls)
        BY <1>2
      <3>2. done' = done \cup {} \/ done' = done \cup {n}
        BY <1>3
      <3> QED
        BY <3>1, <3>2
    <2>3. InFlight' \in BOOLEAN
      BY DEF InFlight
    <2>4. (host' # "idle") = (host # "idle")
      BY <1>1
    <2>5. Rpc!Disturbed
      BY <1>1, <2>1, <2>2, <2>3, <2>4 DEF Rpc!Disturbed
    <2> QED
      BY <2>5 DEF Rpc!Next
  <1>5. CASE ~disturbed
    <2>1. n = calls /\ rx = <<>> /\ toDev = <<>> /\ host # "send"
      BY <1>1, <1>5, WholeMessage
    <2>2. InFlight
      <3>1. Holds(msg, calls)
        BY <1>2, <2>1 DEF Holds
      <3> QED
        BY <3>1, InFlightParts DEF LinkInv
    <2>3. ~ InFlight'
      <3>1. InFlight' <=> \/ host' = "send" \/ Holds(toDev', calls')
                          \/ Holds(rx', calls') \/ Holds(msg', calls')
        BY InFlightNext DEF LinkInv
      <3> QED
        BY <1>1, <2>1, <3>1, HoldsNothing
    <2>4. done' \in {done, done \cup {calls}}
      BY <1>3, <2>1
    <2>5. /\ (host' # "idle") = (host # "idle") /\ InFlight' = FALSE
          /\ [n |-> last'.n, ok |-> last'.ok] = [n |-> last.n, ok |-> last.ok]
      BY <1>1, <2>3
    <2>6. Rpc!Serve
      BY <1>1, <2>2, <2>4, <2>5, Zenon DEF Rpc!Serve
    <2> QED
      BY <2>6 DEF Rpc!Next
  <1> QED
    BY <1>4, <1>5

LEMMA RpcStep ==
    ASSUME LinkInv, LinkInv', [Next]_vars
    PROVE  [Rpc!Next]_(Rpc!vars)
  <1>1. CASE Open
    BY <1>1, OpenIsOpen DEF Rpc!Next
  <1>2. CASE Close
    BY <1>2, CloseIsClose DEF Rpc!Next
  <1>3. ASSUME NEW p \in Requests, ExecCmd(p)
        PROVE  [Rpc!Next]_(Rpc!vars)
    BY <1>3, ExecCmdIsCall DEF Rpc!Next
  <1>4. CASE SendByte
    BY <1>4, SendByteIsStutter
  <1>5. CASE ReadReply
    BY <1>5, ReadReplyIsStep
  <1>6. CASE ReadTimeout \/ WriteError
    BY <1>6, ReturnIsDisturbed DEF Rpc!Next
  <1>7. CASE Receive
    BY <1>7, ReceiveIsStep
  <1>8. CASE Lose
    BY <1>8, LoseIsDisturbed DEF Rpc!Next
  <1>9. CASE ReadMessage
    BY <1>9, ReadMessageIsStutter
  <1>10. CASE Handle
    BY <1>10, HandleIsStep
  <1>11. CASE WriteReply
    BY <1>11, WriteReplyIsStutter
  <1>12. CASE UNCHANGED vars
    BY <1>12 DEF vars, hostVars, devVars, ghosts, Rpc!vars, InFlight, UnderWay
  <1> QED
    BY <1>1, <1>2, <1>3, <1>4, <1>5, <1>6, <1>7, <1>8, <1>9, <1>10, <1>11, <1>12
    DEF Next, Host, Coprocessor

\* The link implements the remote call: a command left behind in an earlier session
\* is never carried out after a new one was opened, none is carried out twice, none
\* after its result was returned, and success is returned only for one carried out.
THEOREM LinkIsRpc == Spec => IsRpc
  <1>1. Init => Rpc!Init
    BY RpcInit
  <1>2. LinkInv /\ LinkInv' /\ [Next]_vars => [Rpc!Next]_(Rpc!vars)
    BY RpcStep
  <1> QED
    BY <1>1, <1>2, LinkInvariant, PTL DEF Spec, IsRpc, Rpc!Spec
=============================================================================
