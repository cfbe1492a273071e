------------------------- MODULE PacketWire_proofs -------------------------
(***************************************************************************)
(* Proofs about PacketWire, for every capacity of the parser, every body   *)
(* the server sends and any number of requests and responses: whatever the *)
(* cuts recv makes, packets come out of the parser as they were sent, in   *)
(* order; a protocol error is one the server caused; nothing stays in the  *)
(* buffer unread; and the encoder under the wire is PayloadEncoder.        *)
(***************************************************************************)
EXTENDS PacketFraming_proofs

-----------------------------------------------------------------------------

(* The bytes at the front of the stream are those of the packet that comes *)
(* next: in, a first part of st, with a header in it.                      *)
LEMMA HeadOfStream ==
    ASSUME NEW pk \in Seq(Packets), NEW g \in 0..Len(pk), NEW st \in Seq(Bytes), NEW off,
           Framed(st, g, pk, off), NEW in \in Seq(Bytes), Len(in) <= Len(st),
           \A k \in 1..Len(in) : in[k] = st[k], Len(in) >= HEADER_LEN
    PROVE  /\ g < Len(pk) /\ pk[g + 1] \in Packets
           /\ in[1] = pk[g + 1].tag /\ in[4] = pk[g + 1].crc /\ Announced(in) = pk[g + 1].length
           /\ \A k \in 1..Len(pk[g + 1].data) :
                 HEADER_LEN + k <= Len(in) => in[HEADER_LEN + k] = pk[g + 1].data[k]
<1>1. Len(pk) \in Nat /\ Len(st) \in Nat /\ Len(in) \in Nat /\ g \in Nat /\ g <= Len(pk) /\ HEADER_LEN = 4
  BY DEF HEADER_LEN
<1>2. g < Len(pk)
  <2>1. g = Len(pk) => Len(st) = 0
    BY Zenon, FramedHead
  <2> QED
    BY <1>1, <2>1
<1>3. PICK q : q = pk[g + 1]
  BY Zenon
<1>4. q \in Packets
  BY <1>1, <1>2, <1>3
<1>5. Width(q) \in Nat /\ Width(q) >= 4 /\ Len(q.data) \in Nat /\ Width(q) = 4 + Len(q.data)
  BY <1>1, <1>4, WidthType DEF Packets, Width
<1>6. \A k \in 1..Width(q) : k <= Len(st) => st[k] = PacketBytes(q)[k]
  BY Zenon, <1>2, <1>3, FramedHead
<1>7. ASSUME NEW k \in 1..Width(q), k <= Len(in) PROVE in[k] = PacketBytes(q)[k]
  <2>1. k \in 1..Len(in) /\ k <= Len(st)
    BY <1>1, <1>5, <1>7
  <2> QED
    BY Zenon, <1>6, <2>1
<1>8. \A k \in 1..4 : in[k] = PacketBytes(q)[k]
  <2>1. \A k \in 1..4 : k \in 1..Width(q) /\ k <= Len(in)
    BY <1>1, <1>5
  <2> QED
    BY Zenon, <1>7, <2>1
<1>9. in[1] = q.tag /\ in[4] = q.crc /\ Announced(in) = q.length
  <2>1. PacketBytes(q)[1] = q.tag /\ PacketBytes(q)[4] = q.crc
        /\ PacketBytes(q)[2] * Radix + PacketBytes(q)[3] = q.length
    BY Zenon, <1>4, EncodedForm
  <2>2. 1 \in 1..4 /\ 2 \in 1..4 /\ 3 \in 1..4 /\ 4 \in 1..4
    OBVIOUS
  <2>3. in[1] = PacketBytes(q)[1] /\ in[2] = PacketBytes(q)[2] /\ in[3] = PacketBytes(q)[3]
        /\ in[4] = PacketBytes(q)[4]
    BY <1>8, <2>2, Zenon
  <2> QED
    BY <2>1, <2>3, Zenon DEF Announced
<1>10. ASSUME NEW k \in 1..Len(q.data), HEADER_LEN + k <= Len(in)
       PROVE  in[HEADER_LEN + k] = q.data[k]
  <2>1. HEADER_LEN + k \in 1..Width(q)
    BY <1>1, <1>5
  <2>2. PacketBytes(q)[HEADER_LEN + k] = q.data[k]
    BY Zenon, <1>4, EncodedForm
  <2> QED
    BY Zenon, <1>7, <1>10, <2>1, <2>2
<1> QED
  BY Zenon, <1>2, <1>3, <1>4, <1>9, <1>10

-----------------------------------------------------------------------------
(* The same without the places, only with the end e of the last packet. *)
Holds(st, from, pk, e) == \E off : Framed(st, from, pk, off) /\ off[Len(pk)] = e

LEMMA ConcatAssoc ==
    ASSUME NEW s \in Seq(Bytes), NEW t \in Seq(Bytes), NEW u \in Seq(Bytes)
    PROVE  (s \o t) \o u = s \o (t \o u)
OBVIOUS

LEMMA HoldsDrop ==
    ASSUME NEW pk \in Seq(Packets), NEW from \in 0..Len(pk) - 1, NEW st \in Seq(Bytes), NEW e,
           Holds(st, from, pk, e), NEW w, w = Width(pk[from + 1]),
           NEW rest \in Seq(Bytes), Behind(rest, st, w)
    PROVE  Holds(rest, from + 1, pk, e - w)
<1>1. PICK off : Framed(st, from, pk, off) /\ off[Len(pk)] = e
  BY Zenon DEF Holds
<1>2. \E o : Framed(rest, from + 1, pk, o) /\ o[Len(pk)] = off[Len(pk)] - w
  BY <1>1, FramedDrop
<1> QED
  BY <1>1, <1>2, Zenon DEF Holds

(* b is what a packet begins with. *)
Begins(b, q) == Len(b) <= Width(q) /\ \A k \in 1..Len(b) : b[k] = PacketBytes(q)[k]

LEMMA HoldsAppend ==
    ASSUME NEW pk \in Seq(Packets), NEW from \in 0..Len(pk), NEW st \in Seq(Bytes),
           Holds(st, from, pk, Len(st)), NEW q \in Packets, NEW b \in Seq(Bytes), Begins(b, q)
    PROVE  Holds(st \o b, from, Append(pk, q), Len(st) + Width(q))
<1>1. PICK off : Framed(st, from, pk, off) /\ off[Len(pk)] = Len(st)
  BY Zenon DEF Holds
<1>2. PICK more, n : more = st \o b /\ n = Len(b)
  BY Zenon
<1>3. /\ more \in Seq(Bytes) /\ Len(more) = Len(st) + n /\ \A k \in 1..Len(st) : more[k] = st[k]
      /\ \A k \in 1..n : more[Len(st) + k] = b[k]
  BY <1>2, Concat, Zenon
<1>4. n \in 0..Width(q) /\ \A k \in 1..n : b[k] = PacketBytes(q)[k]
  BY <1>2, WidthType DEF Begins
<1>5. Extends(more, st, n, q)
  BY <1>3, <1>4, Zenon DEF Extends
<1>6. \E o : Framed(more, from, Append(pk, q), o) /\ o[Len(pk) + 1] = off[Len(pk)] + Width(q)
  BY <1>1, <1>3, <1>4, <1>5, FramedAppend
<1>7. Len(Append(pk, q)) = Len(pk) + 1
  OBVIOUS
<1> QED
  BY <1>1, <1>2, <1>6, <1>7, Zenon DEF Holds

(* The inductive invariant of the wire. *)

Results == [tag : Bytes, data : Seq(Bytes), crc_valid : BOOLEAN]

WireTypes ==
    /\ worker \in {"idle", "extract", "wait"} /\ open \in BOOLEAN
    /\ parser \in Parsers /\ net \in Seq(Bytes) /\ server \in [owes : Nat, closed : BOOLEAN]
    /\ sent \in Seq(Packets) /\ got \in Seq(Results) /\ requests \in 0..MaxRequests
    /\ outcome \in {"none", "OK", "PROTOCOL", "DISCONNECTED", "RESPONSE_TIMEOUT"}

(* The application is in a call only between requests; a request has a     *)
(* connection, with a parser as large as encode_buf.                       *)
Control ==
    /\ at # "idle" => worker = "idle" /\ requests < MaxRequests
    /\ worker # "idle" => open
    /\ open => capacity > 0 /\ Len(parser.buf) = capacity /\ outcome # "PROTOCOL"

(* No packet has more data than it announces, and only the last has less. *)
Whole ==
    \A i \in 1..Len(sent) : /\ Len(sent[i].data) <= sent[i].length
                            /\ i < Len(sent) => Len(sent[i].data) = sent[i].length

(* What the parser holds and what is on the way are the packets that have  *)
(* been sent and not been received, up to a last one that was cut.         *)
Stream == Unconsumed(parser) \o net

InStream ==
    \E e : /\ Holds(Stream, Len(got), sent, e)
           /\ ~server.closed => Len(Stream) = e
           /\ e <= Cardinality(UnderWay)

IInv ==
    /\ EncoderIInv
    /\ WireTypes
    /\ Control
    /\ Whole
    /\ PacketsAsSent
    /\ open => InStream
    /\ ProtocolErrorJustified
    /\ NothingLeftInBuffer

-----------------------------------------------------------------------------
(* Consuming moves the head over bytes that are there. *)
LEMMA ConsumedForm ==
    ASSUME NEW p \in Parsers, NEW t \in Nat, t <= Len(Unconsumed(p)),
           NEW c, c = [p EXCEPT !.head = @ + t]
    PROVE  /\ c \in Parsers /\ c.buf = p.buf /\ Unconsumed(c) \in Seq(Bytes)
           /\ Behind(Unconsumed(c), Unconsumed(p), t)
<1>1. /\ p \in [buf : Seq(Bytes), head : Nat, tail : Nat] /\ p.buf \in Seq(Bytes) /\ p.head \in Nat
      /\ p.tail \in Nat /\ p.head <= p.tail /\ p.tail <= Len(p.buf)
  BY Zenon DEF Parsers
<1>2. Len(Unconsumed(p)) = p.tail - p.head
  BY Zenon, UnconsumedForm
<1>3. c = [buf |-> p.buf, head |-> p.head + t, tail |-> p.tail]
  BY Zenon, <1>1
<1>4. c.buf = p.buf /\ c.head = p.head + t /\ c.tail = p.tail
  BY Zenon, <1>3
<1>5. p.head + t \in Nat /\ p.head + t <= p.tail
  BY <1>1, <1>2
<1>6. c \in Parsers
  BY Zenon, <1>1, <1>3, <1>4, <1>5 DEF Parsers
<1>7. /\ Unconsumed(c) \in Seq(Bytes) /\ Len(Unconsumed(c)) = c.tail - c.head
      /\ \A k \in 1..(c.tail - c.head) : Unconsumed(c)[k] = c.buf[c.head + k]
  BY Zenon, <1>6, UnconsumedForm
<1>8. Len(Unconsumed(c)) = Len(Unconsumed(p)) - t
  BY <1>1, <1>2, <1>4, <1>7
<1>9. ASSUME NEW k \in 1..Len(Unconsumed(c)) PROVE Unconsumed(c)[k] = Unconsumed(p)[t + k]
  <2>1. k \in 1..(c.tail - c.head) /\ t + k \in 1..(p.tail - p.head) /\ (p.head + t) + k = p.head + (t + k)
    BY <1>1, <1>4, <1>7
  <2>2. Unconsumed(c)[k] = p.buf[(p.head + t) + k]
    BY Zenon, <1>4, <1>7, <2>1
  <2>3. Unconsumed(p)[t + k] = p.buf[p.head + (t + k)]
    BY Zenon, <2>1, UnconsumedForm
  <2> QED
    BY Zenon, <2>1, <2>2, <2>3
<1> QED
  BY Zenon, <1>4, <1>6, <1>7, <1>8, <1>9 DEF Behind

(* What comes later does not matter. *)
LEMMA BehindConcat ==
    ASSUME NEW a \in Seq(Bytes), NEW b \in Seq(Bytes), NEW n \in Seq(Bytes), NEW w \in Nat, Behind(b, a, w)
    PROVE  b \o n \in Seq(Bytes) /\ Behind(b \o n, a \o n, w)
<1>1. w <= Len(a) /\ Len(b) = Len(a) - w /\ \A k \in 1..Len(b) : b[k] = a[w + k]
  BY Zenon DEF Behind
<1>2. /\ a \o n \in Seq(Bytes) /\ Len(a \o n) = Len(a) + Len(n) /\ Len(a) \in Nat /\ Len(n) \in Nat
      /\ \A k \in 1..Len(a) : (a \o n)[k] = a[k]
      /\ \A k \in 1..Len(n) : (a \o n)[Len(a) + k] = n[k]
  BY Zenon, Concat
<1>3. /\ b \o n \in Seq(Bytes) /\ Len(b \o n) = Len(b) + Len(n) /\ Len(b) \in Nat
      /\ \A k \in 1..Len(b) : (b \o n)[k] = b[k]
      /\ \A k \in 1..Len(n) : (b \o n)[Len(b) + k] = n[k]
  BY Zenon, Concat
<1>4. w <= Len(a \o n) /\ Len(b \o n) = Len(a \o n) - w
  BY <1>1, <1>2, <1>3
<1>5. ASSUME NEW k \in 1..Len(b \o n) PROVE (b \o n)[k] = (a \o n)[w + k]
  <2>1. CASE k \in 1..Len(b)
    <3>1. w + k \in 1..Len(a)
      BY <1>1, <1>2, <2>1
    <3> QED
      BY Zenon, <1>1, <1>2, <1>3, <2>1, <3>1
  <2>2. CASE ~(k \in 1..Len(b))
    <3>1. PICK j : j = k - Len(b)
      BY Zenon
    <3>2. j \in 1..Len(n) /\ k = Len(b) + j /\ w + k = Len(a) + j
      BY <1>1, <1>2, <1>3, <2>2, <3>1
    <3>3. (b \o n)[Len(b) + j] = n[j] /\ (a \o n)[Len(a) + j] = n[j]
      BY Zenon, <1>2, <1>3, <3>2
    <3> QED
      BY Zenon, <3>2, <3>3
  <2> QED
    BY Zenon, <2>1, <2>2
<1> QED
  BY Zenon, <1>3, <1>4, <1>5 DEF Behind

(* The data that follows a header of h bytes. *)
LEMMA DataOf ==
    ASSUME NEW in \in Seq(Bytes), NEW d \in Seq(Bytes), NEW h \in Nat, Len(in) >= h + Len(d),
           \A k \in 1..Len(d) : h + k <= Len(in) => in[h + k] = d[k]
    PROVE  SubSeq(in, h + 1, h + Len(d)) = d
<1> DEFINE s == SubSeq(in, h + 1, h + Len(d))
<1>1. Len(in) \in Nat /\ Len(d) \in Nat
  OBVIOUS
<1>2. s \in Seq(Bytes) /\ Len(s) = Len(d)
  BY <1>1
<1>3. \A k \in 1..Len(d) : s[k] = in[h + k]
  BY <1>1
<1>4. \A k \in 1..Len(d) : h + k <= Len(in)
  BY <1>1
<1> HIDE DEF s
<1>5. s = d
  BY Zenon, <1>2, <1>3, <1>4, SameBytes
<1> QED
  BY Zenon, <1>5 DEF s

(* The packets after the first g. *)
After(g, pk) == SubSeq(pk, g + 1, Len(pk))

LEMMA Remaining ==
    ASSUME NEW pk \in Seq(Packets), NEW g \in 0..Len(pk), NEW o, o = After(g, pk)
    PROVE  /\ g = Len(pk) => o = <<>>
           /\ g < Len(pk) => o # <<>> /\ 1 \in 1..Len(o) /\ o[1] = pk[g + 1] /\ Head(o) = pk[g + 1]
<1>1. Len(pk) \in Nat /\ g \in Nat /\ g <= Len(pk)
  OBVIOUS
<1>2. CASE g = Len(pk)
  <2>1. g + 1 > Len(pk)
    BY <1>1, <1>2
  <2>2. SubSeq(pk, g + 1, Len(pk)) = <<>>
    BY <1>1, <2>1
  <2> QED
    BY <1>2, <2>2 DEF After
<1>3. CASE g < Len(pk)
  <2>1. o \in Seq(Packets) /\ Len(o) = Len(pk) - g /\ o[1] = pk[g + 1]
    BY <1>1, <1>3 DEF After
  <2>2. Len(o) \in Nat /\ Len(o) >= 1
    BY <1>1, <1>3, <2>1
  <2> QED
    BY <1>3, <2>1, <2>2
<1> QED
  BY Zenon, <1>1, <1>2, <1>3

-----------------------------------------------------------------------------
(* What the worker makes of a parser p, with n still on the way. *)
LEMMA TakesStep ==
    ASSUME IInv, worker # "idle", NEW p \in Parsers, Len(p.buf) = capacity, NEW n \in Seq(Bytes),
           Unconsumed(p) \o n = Stream, NEW r, r = savvy_stream_parser_try_extract(p, cfg.size_max),
           Takes(r), net' = n, UNCHANGED <<evars, server, sent, requests>>
    PROVE  IInv'
<1> DEFINE g == Len(got)
           q == sent[g + 1]
<1>1. EncoderIInv' /\ capacity' = capacity /\ at' = at
  BY Zenon, EncoderNextInv DEF IInv, evars
<1>2. /\ sent \in Seq(Packets) /\ got \in Seq(Results) /\ g \in 0..Len(sent) /\ Len(sent) \in Nat
      /\ g \in Nat /\ open /\ at = "idle" /\ open = TRUE /\ server \in [owes : Nat, closed : BOOLEAN]
  BY DEF IInv, WireTypes, Control, PacketsAsSent
<1>3. PICK off : /\ Framed(Stream, g, sent, off)
                 /\ ~server.closed => Len(Stream) = off[Len(sent)]
                 /\ off[Len(sent)] <= Cardinality(UnderWay)
  BY Zenon, <1>2 DEF IInv, InStream, Holds
<1>4. PICK in : in = Unconsumed(p)
  BY Zenon
<1>5. /\ in \in Seq(Bytes) /\ Len(in) = p.tail - p.head /\ Stream \in Seq(Bytes) /\ Len(in) \in Nat
      /\ Len(Stream) \in Nat /\ Len(Stream) = Len(in) + Len(n) /\ Len(n) \in Nat
      /\ \A k \in 1..Len(in) : in[k] = Stream[k]
  <2>1. in \in Seq(Bytes) /\ Len(in) = p.tail - p.head
    BY Zenon, <1>4, UnconsumedForm
  <2>2. Stream = in \o n
    BY Zenon, <1>4
  <2> QED
    BY <2>1, <2>2, Concat
<1>6. Len(in) >= HEADER_LEN =>
        /\ g < Len(sent) /\ q \in Packets
        /\ in[1] = q.tag /\ in[4] = q.crc /\ Announced(in) = q.length
        /\ \A k \in 1..Len(q.data) : HEADER_LEN + k <= Len(in) => in[HEADER_LEN + k] = q.data[k]
  <2>1. Len(in) <= Len(Stream)
    BY <1>5
  <2> QED
    BY Zenon, <1>2, <1>3, <1>5, <2>1, HeadOfStream
<1>7. /\ r.result \in {"NEED_MORE_DATA", "ERROR", "PACKET_READY"}
      /\ r.result # "PACKET_READY" => r.p = p
      /\ r.result = "NEED_MORE_DATA" => Len(in) < HEADER_LEN \/ Len(in) < HEADER_LEN + Announced(in)
      /\ r.result = "ERROR" =>
            /\ Len(in) >= HEADER_LEN
            /\ HEADER_LEN + Announced(in) > Len(p.buf) \/ HEADER_LEN + Announced(in) > cfg.size_max
      /\ r.result = "PACKET_READY" =>
            /\ Len(in) >= HEADER_LEN /\ Len(in) >= HEADER_LEN + Announced(in)
            /\ r.p = [p EXCEPT !.head = @ + (HEADER_LEN + Announced(in))]
            /\ r.tag = in[1] /\ r.crc = in[4]
            /\ r.data = SubSeq(in, HEADER_LEN + 1, HEADER_LEN + Announced(in))
  <2>1. cfg.size_max \in Nat
    BY Zenon, WidthsAssumption DEF IInv, EncoderIInv, EncoderTypeOK, Configs
  <2> QED
    BY <1>4, <2>1, ExtractForm
<1>8. parser' = r.p /\ net' = n /\ UNCHANGED <<server, sent, requests>>
  BY Zenon DEF Takes
<1>9. HEADER_LEN = 4 /\ HEADER_LEN \in Nat
  BY Zenon DEF HEADER_LEN
<1> HIDE DEF g, q
<1>10. CASE r.result = "NEED_MORE_DATA"
  <2>1. parser' = p /\ worker' = "wait" /\ UNCHANGED <<open, outcome, got>>
    BY Zenon, <1>7, <1>8, <1>10 DEF Takes
  <2>2. WireTypes'
    BY Zenon, <1>8, <2>1 DEF IInv, WireTypes
  <2>3. Control'
    BY Zenon, <1>1, <1>2, <1>8, <2>1 DEF IInv, Control
  <2>4. Whole' /\ PacketsAsSent'
    BY <1>8, <2>1 DEF IInv, Whole, PacketsAsSent
  <2>5. Stream' = Stream /\ UnderWay' = UnderWay
    BY Zenon, <1>8, <2>1 DEF Stream, UnderWay, Unconsumed, Size
  <2>6. InStream'
    <3>1. /\ Framed(Stream', Len(got'), sent', off)
          /\ ~server'.closed => Len(Stream') = off[Len(sent')]
          /\ off[Len(sent')] <= Cardinality(UnderWay')
      BY <1>3, <1>8, <2>1, <2>5, Zenon DEF g
    <3> QED
      BY <3>1, Zenon DEF InStream, Holds
  <2>7. ProtocolErrorJustified'
    BY Zenon, <1>2, <2>1 DEF ProtocolErrorJustified, IInv, Control
  <2>8. NothingLeftInBuffer'
    <3>1. Outstanding' = After(g, sent)
      BY Zenon, <1>8, <2>1 DEF Outstanding, After, g
    <3>2. Outstanding' # <<>> => g < Len(sent) /\ Head(Outstanding') = q
      BY <1>2, <3>1, Remaining DEF q
    <3>3. g < Len(sent) => Len(in) < Size(q)
      <4>1. ASSUME g < Len(sent) PROVE q \in Packets /\ Size(q) = HEADER_LEN + q.length /\ q.length \in Nat
        <5>1. g + 1 \in 1..Len(sent)
          BY <1>2, <4>1
        <5>2. q \in Packets
          BY <1>2, <5>1 DEF q
        <5> QED
          BY <5>2 DEF Size, Packets
      <4>2. Len(in) >= HEADER_LEN => Announced(in) = q.length
        BY Zenon, <1>6
      <4>3. Len(in) < HEADER_LEN \/ Len(in) < HEADER_LEN + Announced(in)
        BY Zenon, <1>7, <1>10
      <4>4. Len(in) \in Nat
        BY Zenon, <1>5
      <4> QED
        BY <1>9, <4>1, <4>2, <4>3, <4>4
    <3>4. parser'.tail - parser'.head = Len(in)
      BY Zenon, <1>5, <2>1
    <3> QED
      BY Zenon, <3>2, <3>3, <3>4 DEF NothingLeftInBuffer, Size
  <2> QED
    BY Zenon, <1>1, <2>2, <2>3, <2>4, <2>6, <2>7, <2>8 DEF IInv
<1>11. CASE r.result = "ERROR"
  <2>1. parser' = p /\ worker' = "idle" /\ open' = FALSE /\ outcome' = "PROTOCOL" /\ got' = got
    BY Zenon, <1>7, <1>8, <1>11 DEF Takes, Fails
  <2>2. WireTypes'
    BY Zenon, <1>8, <2>1 DEF IInv, WireTypes
  <2>3. Control'
    BY Zenon, <1>1, <1>2, <1>8, <2>1 DEF IInv, Control
  <2>4. Whole' /\ PacketsAsSent'
    BY Zenon, <1>8, <2>1 DEF IInv, Whole, PacketsAsSent
  <2>5. ProtocolErrorJustified'
    <3>1. Outstanding' = After(g, sent)
      BY Zenon, <1>8, <2>1 DEF Outstanding, After, g
    <3>2. g < Len(sent) /\ q \in Packets /\ Announced(in) = q.length /\ Size(q) = HEADER_LEN + q.length
          /\ q.length \in Nat
      BY <1>6, <1>7, <1>11 DEF Size, Packets
    <3>3. 1 \in 1..Len(Outstanding') /\ Outstanding'[1] = q
      BY Zenon, <1>2, <3>1, <3>2, Remaining DEF q
    <3>4. capacity \in Nat /\ capacity <= cfg.size_max /\ cfg.size_max \in Nat
      <4>1. cfg \in Configs /\ capacity \in Nat /\ cfg.size_max \in Nat
            /\ capacity = calculate_encoded_packet_capacity(cfg) /\ cfg.max \in Nat
        BY Zenon, WidthsAssumption DEF IInv, EncoderIInv, EncoderTypeOK, Configs
      <4>2. capacity > 0
        BY Zenon, <1>2 DEF IInv, Control
      <4> QED
        BY <4>1, <4>2, Reserved
    <3>5. Size(q) > capacity
      BY <1>7, <1>9, <1>11, <3>2, <3>4
    <3>6. Size(Outstanding'[1]) > capacity'
      BY Zenon, <1>1, <3>3, <3>5
    <3> QED
      BY Zenon, <3>3, <3>6 DEF ProtocolErrorJustified, Size
  <2>6. NothingLeftInBuffer'
    BY Zenon, <2>1 DEF NothingLeftInBuffer
  <2> QED
    BY Zenon, <1>1, <2>1, <2>2, <2>3, <2>4, <2>5, <2>6 DEF IInv
<1>12. CASE r.result = "PACKET_READY"
  <2> DEFINE t == HEADER_LEN + q.length
  <2>1. /\ g < Len(sent) /\ q \in Packets /\ in[1] = q.tag /\ in[4] = q.crc /\ Announced(in) = q.length
        /\ Len(in) >= t /\ r.p = [p EXCEPT !.head = @ + t] /\ r.tag = q.tag /\ r.crc = q.crc
        /\ r.data = SubSeq(in, HEADER_LEN + 1, t)
    BY Zenon, <1>6, <1>7, <1>12
  <2>2. /\ q.length \in Nat /\ q.data \in Seq(Bytes) /\ Len(q.data) \in Nat /\ t \in Nat
        /\ Size(q) = t /\ Width(q) = HEADER_LEN + Len(q.data)
    BY <1>9, <2>1 DEF Packets, Size, Width
  <2>3. Len(q.data) = q.length
    <3>1. g + 1 \in 1..Len(sent)
      BY <1>2, <2>1
    <3>2. CASE g + 1 < Len(sent)
      BY Zenon, <3>1, <3>2 DEF IInv, Whole, q
    <3>3. CASE g + 1 = Len(sent)
      <4>1. Len(q.data) <= q.length
        BY Zenon, <3>1 DEF IInv, Whole, q
      <4>2. off[g + 1] = Width(q) /\ Len(Stream) <= off[Len(sent)]
        <5>1. off[g + 1] = Width(q)
          BY <1>2, <1>3, <1>5, <2>1, FramedHead DEF q
        <5>2. Len(Stream) <= off[Len(sent)]
          BY Zenon, <1>3 DEF Framed
        <5> QED
          BY Zenon, <5>1, <5>2
      <4>3. Len(Stream) <= Width(q)
        BY Zenon, <3>3, <4>2
      <4>4. Len(in) <= Len(Stream) /\ Len(in) \in Nat /\ Len(Stream) \in Nat
        BY <1>5
      <4>5. Len(in) >= HEADER_LEN + q.length /\ Len(Stream) <= HEADER_LEN + Len(q.data)
        BY Zenon, <2>1, <2>2, <4>3
      <4>6. q.length \in Nat /\ Len(q.data) \in Nat
        BY Zenon, <2>2
      <4> QED
        BY <1>9, <4>1, <4>4, <4>5, <4>6
    <3> QED
      BY <1>2, <3>1, <3>2, <3>3
  <2>4. r.data = q.data
    <3>1. \A k \in 1..Len(q.data) : HEADER_LEN + k <= Len(in) => in[HEADER_LEN + k] = q.data[k]
      BY Zenon, <1>6, <1>7, <1>12
    <3>2. Len(in) >= HEADER_LEN + Len(q.data) /\ r.data = SubSeq(in, HEADER_LEN + 1, HEADER_LEN + Len(q.data))
      BY Zenon, <2>1, <2>3
    <3>3. in \in Seq(Bytes) /\ q.data \in Seq(Bytes) /\ HEADER_LEN \in Nat
      BY Zenon, <1>5, <1>9, <2>2
    <3> HIDE DEF t
    <3> QED
      BY Zenon, <3>1, <3>2, <3>3, DataOf
  <2>5. PICK v : v = [tag |-> r.tag, data |-> r.data,
                      crc_valid |-> r.data = <<>> \/ r.crc = savvy_crc32(r.data)]
    BY Zenon
  <2>6. /\ worker' = "idle" /\ outcome' = "OK" /\ open' = open /\ got' = Append(got, v)
    BY Zenon, <1>12, <2>5 DEF Takes
  <2>7. /\ v \in Results /\ v.tag = q.tag /\ v.data = q.data
        /\ v.crc_valid <=> q.data = <<>> \/ q.crc = savvy_crc32(q.data)
    <3>1. PICK b : b = (q.data = <<>> \/ q.crc = savvy_crc32(q.data))
      BY Zenon
    <3>2. b \in BOOLEAN
      BY <3>1, Zenon
    <3>3. v = [tag |-> q.tag, data |-> q.data, crc_valid |-> b]
      BY <2>1, <2>4, <2>5, <3>1, Zenon
    <3>4. q.tag \in Bytes /\ q.data \in Seq(Bytes)
      BY Zenon, <2>1 DEF Packets
    <3>5. v \in Results /\ v.tag = q.tag /\ v.data = q.data /\ v.crc_valid = b
      BY Zenon, <3>2, <3>3, <3>4 DEF Results
    <3> QED
      BY <3>1, <3>5, Zenon
  <2>8. /\ parser' \in Parsers /\ parser'.buf = p.buf /\ Unconsumed(parser') \in Seq(Bytes)
        /\ Behind(Unconsumed(parser'), in, t)
    BY <1>4, <1>8, <2>1, <2>2, ConsumedForm
  <2>9. /\ got' \in Seq(Results) /\ Len(got') = g + 1 /\ got'[g + 1] = v
        /\ \A i \in 1..g : got'[i] = got[i]
    BY <1>2, <2>6, <2>7 DEF g
  <2> HIDE DEF t
  <2>10. WireTypes'
    BY Zenon, <1>8, <2>6, <2>8, <2>9 DEF IInv, WireTypes
  <2>11. Control'
    BY Zenon, <1>1, <1>2, <1>8, <2>6, <2>8 DEF IInv, Control
  <2>12. Whole'
    BY Zenon, <1>8 DEF IInv, Whole
  <2>13. PacketsAsSent'
    <3>1. Len(got') <= Len(sent')
      BY <1>2, <1>8, <2>1, <2>9
    <3>2. ASSUME NEW i \in 1..Len(got')
          PROVE  /\ got'[i].tag = sent'[i].tag /\ got'[i].data = sent'[i].data
                 /\ got'[i].crc_valid <=> sent'[i].data = <<>> \/ sent'[i].crc = savvy_crc32(sent'[i].data)
      <4>1. i \in 1..g \/ i = g + 1
        BY <1>2, <2>9
      <4>2. CASE i \in 1..g
        BY <1>8, <2>9, <4>2, Zenon DEF IInv, PacketsAsSent, g
      <4>3. CASE i = g + 1
        BY <1>8, <2>7, <2>9, <4>3, Zenon DEF q
      <4> QED
        BY Zenon, <4>1, <4>2, <4>3
    <3> QED
      BY Zenon, <3>1, <3>2 DEF PacketsAsSent
  <2>14. InStream'
    <3>1. t = Width(q)
      BY Zenon, <2>2, <2>3 DEF t
    <3>2. /\ Unconsumed(parser') \o n \in Seq(Bytes) /\ Behind(Unconsumed(parser') \o n, in \o n, t)
      BY Zenon, <1>5, <2>2, <2>8, BehindConcat
    <3>3. Stream' \in Seq(Bytes) /\ Behind(Stream', Stream, t)
      BY Zenon, <1>4, <1>8, <3>2 DEF Stream
    <3>4. Holds(Stream', g + 1, sent, off[Len(sent)] - t)
      <4>1. g \in 0..Len(sent) - 1
        BY <1>2, <2>1
      <4>2. t = Width(sent[g + 1])
        BY Zenon, <3>1 DEF q
      <4>3. Holds(Stream, g, sent, off[Len(sent)])
        BY <1>3, Zenon DEF Holds
      <4>4. PICK st, rest, e : st = Stream /\ rest = Stream' /\ e = off[Len(sent)]
        BY Zenon
      <4>5. Holds(rest, g + 1, sent, e - t)
        BY Zenon, <1>2, <1>5, <3>3, <4>1, <4>2, <4>3, <4>4, HoldsDrop
      <4> QED
        BY <4>4, <4>5, Zenon
    <3>5. /\ Cardinality(UnderWay') = Cardinality(UnderWay) - t
          /\ Cardinality(UnderWay) \in Nat
      <4>1. UnderWay = Load(g, sent) /\ UnderWay' = Load(g + 1, sent)
        BY Zenon, <1>8, <2>9 DEF UnderWay, Load, Size, g
      <4>2. g \in 0..Len(sent) - 1
        BY <1>2, <2>1
      <4>3. Cardinality(Load(g + 1, sent)) = Cardinality(Load(g, sent)) - Size(q)
        BY Zenon, <1>2, <4>2, LoadDrop DEF q
      <4> QED
        BY Zenon, <1>2, <2>2, <4>1, <4>3, LoadSize
    <3>6. off[Len(sent)] \in Nat
      BY <1>2, <1>3 DEF Framed
    <3>7. PICK e : e = off[Len(sent)] - t
      BY Zenon
    <3>8. ~server'.closed => Len(Stream') = e
      BY Zenon, <1>3, <1>8, <3>3, <3>7 DEF Behind
    <3>9. e <= Cardinality(UnderWay')
      BY <1>3, <2>2, <3>5, <3>6, <3>7
    <3>10. Holds(Stream', Len(got'), sent', e)
      BY <1>8, <2>9, <3>4, <3>7, Zenon
    <3> QED
      BY <3>8, <3>9, <3>10, Zenon DEF InStream
  <2>15. ProtocolErrorJustified' /\ NothingLeftInBuffer'
    BY Zenon, <2>6 DEF ProtocolErrorJustified, NothingLeftInBuffer
  <2> QED
    BY Zenon, <1>1, <2>10, <2>11, <2>12, <2>13, <2>14, <2>15 DEF IInv
<1> QED
  BY Zenon, <1>7, <1>10, <1>11, <1>12

-----------------------------------------------------------------------------
(* The server sends a packet, or the first k bytes of it and closes. *)
LEMMA SendStep ==
    ASSUME IInv, ServerAlive, NEW q \in Packets, Len(q.data) <= q.length,
           NEW b \in Seq(Bytes), Begins(b, q),
           net' = net \o b, sent' = Append(sent, q),
           server' \in [owes : Nat, closed : BOOLEAN], ~server'.closed => Len(b) = Width(q),
           UNCHANGED <<evars, worker, open, parser, got, outcome, requests>>
    PROVE  IInv'
<1> DEFINE g == Len(got)
           e == Len(sent) + 1
<1>1. EncoderIInv' /\ capacity' = capacity /\ at' = at
  BY Zenon, EncoderNextInv DEF IInv, evars
<1>2. /\ sent \in Seq(Packets) /\ got \in Seq(Results) /\ g \in 0..Len(sent) /\ Len(sent) \in Nat
      /\ g \in Nat /\ open /\ ~server.closed /\ parser \in Parsers /\ net \in Seq(Bytes)
      /\ outcome # "PROTOCOL"
  BY DEF IInv, WireTypes, Control, PacketsAsSent, ServerAlive
<1>3. Holds(Stream, g, sent, Len(Stream)) /\ Len(Stream) <= Cardinality(UnderWay)
  BY Zenon, <1>2 DEF IInv, InStream
<1>4. /\ Width(q) \in Nat /\ Size(q) \in Nat /\ Width(q) <= Size(q) /\ Size(q) > 0
      /\ Len(q.data) \in Nat /\ q.length \in Nat
  BY DEF Width, Size, Packets, HEADER_LEN
<1>5. /\ sent' \in Seq(Packets) /\ Len(sent') = e /\ sent'[e] = q /\ e \in Nat /\ Len(sent) < e
      /\ \A i \in 1..Len(sent) : sent'[i] = sent[i]
  BY <1>2
<1>6. \A i \in 1..e : i \in 1..Len(sent) \/ i = e
  BY <1>2
<1>7. net' \in Seq(Bytes) /\ Unconsumed(parser) \in Seq(Bytes)
      /\ Len(Unconsumed(parser)) = parser.tail - parser.head
  BY Zenon, <1>2, UnconsumedForm, Concat
<1> HIDE DEF g, e
<1>8. WireTypes'
  BY Zenon, <1>5, <1>7 DEF IInv, WireTypes
<1>9. Control'
  BY Zenon, <1>1 DEF IInv, Control
<1>10. Whole'
  <2> SUFFICES ASSUME NEW i \in 1..e
               PROVE  /\ Len(sent'[i].data) <= sent'[i].length
                      /\ i < e => Len(sent'[i].data) = sent'[i].length
    BY Zenon, <1>5 DEF Whole
  <2>1. CASE i \in 1..Len(sent)
    BY Zenon, <1>5, <2>1 DEF IInv, Whole, ServerAlive
  <2>2. CASE i = e
    BY <1>5, <2>2
  <2> QED
    BY Zenon, <1>6, <2>1, <2>2
<1>11. PacketsAsSent'
  <2>1. Len(got') <= Len(sent')
    BY <1>2, <1>5 DEF g
  <2>2. \A i \in 1..Len(got) : i \in 1..Len(sent) /\ sent'[i] = sent[i]
    BY <1>2, <1>5 DEF g
  <2> QED
    BY <2>1, <2>2 DEF IInv, PacketsAsSent
<1>12. /\ Stream \in Seq(Bytes) /\ Len(Stream) \in Nat /\ Len(Stream) >= parser.tail - parser.head
       /\ Stream' = Stream \o b /\ Len(Stream') = Len(Stream) + Len(b)
  <2>1. PICK u : u = Unconsumed(parser)
    BY Zenon
  <2>2. u \in Seq(Bytes) /\ net \in Seq(Bytes) /\ Stream = u \o net /\ Stream' = u \o net'
    BY Zenon, <1>2, <1>7, <2>1 DEF Stream, Unconsumed
  <2>3. Stream \in Seq(Bytes) /\ Len(Stream) = Len(u) + Len(net) /\ Len(net) \in Nat /\ Len(u) \in Nat
    BY Zenon, <2>2, Concat
  <2>4. Stream' = Stream \o b
    BY Zenon, <2>2, ConcatAssoc
  <2>5. Len(Stream \o b) = Len(Stream) + Len(b)
    BY Zenon, <2>3, Concat
  <2> QED
    BY <1>7, <2>1, <2>3, <2>4, <2>5
<1>13. InStream'
  <2>1. Holds(Stream \o b, g, Append(sent, q), Len(Stream) + Width(q))
    BY Zenon, <1>2, <1>3, <1>12, HoldsAppend
  <2>2. PICK z : z = Len(Stream) + Width(q)
    BY Zenon
  <2>3. Holds(Stream', Len(got'), sent', z)
    BY <1>12, <2>1, <2>2, Zenon DEF g
  <2>4. ~server'.closed => Len(Stream') = z
    BY Zenon, <1>12, <2>2
  <2>5. Cardinality(UnderWay') = Cardinality(UnderWay) + Size(q) /\ Cardinality(UnderWay) \in Nat
    <3>1. UnderWay = Load(g, sent) /\ UnderWay' = Load(g, Append(sent, q))
      BY Zenon DEF UnderWay, Load, Size, g
    <3> QED
      BY Zenon, <1>2, <3>1, LoadAppend, LoadSize
  <2>6. z <= Cardinality(UnderWay')
    BY <1>3, <1>4, <1>12, <2>2, <2>5
  <2> QED
    BY <2>3, <2>4, <2>6, Zenon DEF InStream
<1>14. ProtocolErrorJustified'
  BY Zenon, <1>2 DEF ProtocolErrorJustified
<1>15. NothingLeftInBuffer'
  <2>1. Outstanding = After(g, sent) /\ Outstanding' = After(g, sent')
    BY Zenon DEF Outstanding, After, g
  <2>2. Head(Outstanding') = sent'[g + 1]
    <3>1. g \in 0..Len(sent') /\ g < Len(sent')
      BY <1>2, <1>5
    <3> QED
      BY Zenon, <1>5, <2>1, <3>1, Remaining
  <2>3. parser.tail \in Nat /\ parser.head \in Nat
    BY Zenon, <1>2 DEF Parsers
  <2>4. CASE g < Len(sent)
    <3>1. g + 1 \in 1..Len(sent)
      BY <1>2, <2>4
    <3>2. sent'[g + 1] = sent[g + 1]
      BY Zenon, <1>5, <3>1
    <3>3. Outstanding # <<>> /\ Head(Outstanding) = sent[g + 1]
      BY Zenon, <1>2, <2>1, <2>4, Remaining
    <3>4. worker = "wait" => parser.tail - parser.head < Size(sent[g + 1])
      BY Zenon, <3>3 DEF IInv, NothingLeftInBuffer
    <3> QED
      BY Zenon, <2>2, <3>2, <3>4 DEF NothingLeftInBuffer, Size
  <2>5. CASE g = Len(sent)
    <3>1. Len(Stream) = 0
      <4>1. PICK off : Framed(Stream, g, sent, off)
        BY Zenon, <1>3 DEF Holds
      <4> QED
        BY ZenonT(30), <1>2, <1>12, <2>5, <4>1, FramedHead
    <3>2. sent'[g + 1] = q
      BY Zenon, <1>5, <2>5 DEF e
    <3>3. parser.tail - parser.head < Size(q)
      BY <1>4, <1>12, <2>3, <3>1
    <3> QED
      BY Zenon, <2>2, <3>2, <3>3 DEF NothingLeftInBuffer, Size
  <2> QED
    BY <1>2, <2>4, <2>5
<1> QED
  BY Zenon, <1>1, <1>8, <1>9, <1>10, <1>11, <1>13, <1>14, <1>15 DEF IInv

-----------------------------------------------------------------------------
(* The packets the server sends. *)

LEMMA GoodForm ==
    ASSUME NEW n \in Bodies, sent \in Seq(Packets)
    PROVE  /\ Good(n) \in Packets /\ Len(Good(n).data) <= Good(n).length
           /\ BadCrc(n) \in Packets /\ Len(BadCrc(n).data) <= BadCrc(n).length
<1>1. n \in 0..UINT32_MAX /\ n \in Nat /\ Len(sent) \in Nat /\ Radix \in Nat /\ Radix > 1
  BY BodiesAssumption, RadixAssumption, WidthsAssumption
<1>2. Tag \in Bytes
  BY <1>1 DEF Tag, Bytes
<1>3. Data(n) \in Seq(Bytes) /\ Len(Data(n)) = n
  <2>1. \A i \in 1..n : (i + Len(sent)) % Radix \in Bytes
    BY <1>1 DEF Bytes
  <2> QED
    BY <1>1, <2>1 DEF Data
<1>4. savvy_crc32(Data(n)) \in Bytes
  BY Zenon, <1>3, ChecksumType
<1>5. PICK t, d, c : t = Tag /\ d = Data(n) /\ c = savvy_crc32(Data(n))
  BY Zenon
<1>6. Good(n) = [tag |-> t, data |-> d, length |-> n, crc |-> c]
  BY Zenon, <1>5 DEF Good
<1>7. PICK f : f = (c + 1) % Radix
  BY Zenon
<1>8. f \in Bytes
  BY <1>1, <1>4, <1>5, <1>7 DEF Bytes
<1>9. BadCrc(n) = [tag |-> t, data |-> d, length |-> n, crc |-> f]
  BY <1>6, <1>7 DEF BadCrc
<1> QED
  BY <1>1, <1>2, <1>3, <1>4, <1>5, <1>6, <1>8, <1>9 DEF Packets

LEMMA AbsurdForm ==
    ASSUME sent \in Seq(Packets)
    PROVE  Absurd \in Packets /\ Len(Absurd.data) <= Absurd.length
<1>1. UINT32_MAX \in Nat /\ Len(sent) \in Nat /\ Radix \in Nat /\ Radix > 1
  BY RadixAssumption, WidthsAssumption
<1>2. Tag \in Bytes /\ 0 \in Bytes /\ <<>> \in Seq(Bytes)
  BY <1>1 DEF Tag, Bytes
<1> QED
  BY <1>1, <1>2 DEF Absurd, Packets

LEMMA ServerAnswersStep == ASSUME IInv, server_answers PROVE IInv'
<1>1. sent \in Seq(Packets) /\ server \in [owes : Nat, closed : BOOLEAN] /\ ServerAlive /\ server.owes > 0
  BY Zenon DEF IInv, WireTypes, server_answers
<1>2. PICK q \in {Good(n) : n \in Bodies} \cup {BadCrc(n) : n \in Bodies} \cup {Absurd} :
         net' = net \o PacketBytes(q) /\ sent' = Append(sent, q)
  BY Zenon DEF server_answers
<1>3. q \in Packets /\ Len(q.data) <= q.length
  <2>1. (\E n \in Bodies : q = Good(n) \/ q = BadCrc(n)) \/ q = Absurd
    BY Zenon
  <2> QED
    BY <1>1, <2>1, GoodForm, AbsurdForm, Zenon
<1>4. server' \in [owes : Nat, closed : BOOLEAN]
  <2>1. server' = [owes |-> server.owes - 1, closed |-> server.closed]
    BY Zenon, <1>1 DEF server_answers
  <2>2. server.owes - 1 \in Nat /\ server.closed \in BOOLEAN
    BY <1>1
  <2> QED
    BY Zenon, <2>1, <2>2
<1>5. PacketBytes(q) \in Seq(Bytes) /\ Len(PacketBytes(q)) = Width(q) /\ Begins(PacketBytes(q), q)
  BY <1>3, EncodedForm, WidthType DEF Begins, Width
<1> QED
  BY Zenon, <1>1, <1>2, <1>3, <1>4, <1>5, SendStep DEF server_answers

LEMMA ServerRepeatsStep == ASSUME IInv, server_repeats PROVE IInv'
<1>1. sent \in Seq(Packets) /\ server \in [owes : Nat, closed : BOOLEAN] /\ ServerAlive /\ server' = server
  BY Zenon DEF IInv, WireTypes, server_repeats
<1>2. PICK q \in {Good(n) : n \in Bodies} \cup {Absurd} :
         net' = net \o PacketBytes(q) /\ sent' = Append(sent, q)
  BY Zenon DEF server_repeats
<1>3. q \in Packets /\ Len(q.data) <= q.length
  <2>1. (\E n \in Bodies : q = Good(n)) \/ q = Absurd
    BY Zenon
  <2> QED
    BY <1>1, <2>1, GoodForm, AbsurdForm, Zenon
<1>4. PacketBytes(q) \in Seq(Bytes) /\ Len(PacketBytes(q)) = Width(q) /\ Begins(PacketBytes(q), q)
  BY <1>3, EncodedForm, WidthType DEF Begins, Width
<1> QED
  BY Zenon, <1>1, <1>2, <1>3, <1>4, SendStep DEF server_repeats

LEMMA ServerDisconnectsStep == ASSUME IInv, server_disconnects PROVE IInv'
<1>1. /\ sent \in Seq(Packets) /\ server \in [owes : Nat, closed : BOOLEAN]
      /\ server' \in [owes : Nat, closed : BOOLEAN] /\ server'.closed
      /\ UNCHANGED <<evars, worker, open, parser, got, outcome, requests>>
  BY ZenonT(30) DEF IInv, WireTypes, server_disconnects
<1>2. CASE UNCHANGED <<net, sent>>
  <2>1. EncoderIInv' /\ capacity' = capacity /\ at' = at
    BY Zenon, <1>1, EncoderNextInv DEF IInv, evars
  <2>2. WireTypes' /\ Control' /\ Whole' /\ PacketsAsSent'
    BY Zenon, <1>1, <1>2, <2>1 DEF IInv, WireTypes, Control, Whole, PacketsAsSent
  <2>3. Stream' = Stream /\ UnderWay' = UnderWay
    BY Zenon, <1>1, <1>2 DEF Stream, Unconsumed, UnderWay, Size
  <2>4. open' => InStream'
    BY Zenon, <1>1, <1>2, <2>3 DEF IInv, InStream
  <2>5. ProtocolErrorJustified' /\ NothingLeftInBuffer'
    BY Zenon, <1>1, <1>2, <2>1, <2>3
       DEF IInv, ProtocolErrorJustified, NothingLeftInBuffer, Outstanding, Size
  <2> QED
    BY Zenon, <2>1, <2>2, <2>4, <2>5 DEF IInv
<1>3. ASSUME ServerAlive, NEW n \in Bodies, NEW k \in {1, HEADER_LEN, HEADER_LEN + 1}, k < Size(Good(n)),
             net' = net \o SubSeq(PacketBytes(Good(n)), 1, k), sent' = Append(sent, Good(n))
      PROVE  IInv'
  <2>1. PICK q, b : q = Good(n) /\ b = SubSeq(PacketBytes(Good(n)), 1, k)
    BY Zenon
  <2>2. q \in Packets /\ Len(q.data) <= q.length /\ q.length = n /\ Len(q.data) = n /\ n \in Nat
    <3>1. n \in Nat
      BY BodiesAssumption, WidthsAssumption
    <3>2. q.length = n /\ q.data = [i \in 1..n |-> (i + Len(sent)) % Radix]
      BY Zenon, <2>1 DEF Good, Data
    <3>3. Len(q.data) = n
      BY <3>1, <3>2
    <3> QED
      BY Zenon, <1>1, <2>1, <3>1, <3>2, <3>3, GoodForm
  <2>3. k \in Nat /\ k <= Width(q)
    BY <1>3, <2>1, <2>2 DEF Width, Size, HEADER_LEN
  <2>4. PacketBytes(q) \in Seq(Bytes) /\ Len(PacketBytes(q)) = Width(q) /\ Width(q) \in Nat
    BY Zenon, <2>2, EncodedForm, WidthType DEF Width
  <2>5. b \in Seq(Bytes) /\ Len(b) = k /\ \A j \in 1..k : b[j] = PacketBytes(q)[j]
    BY <2>1, <2>3, <2>4
  <2>6. Begins(b, q)
    BY Zenon, <2>3, <2>5 DEF Begins
  <2> QED
    BY Zenon, <1>1, <1>3, <2>1, <2>2, <2>5, <2>6, SendStep
<1> QED
  BY Zenon, <1>2, <1>3 DEF server_disconnects

-----------------------------------------------------------------------------
(* The request ends with an error: the connection is closed. *)
LEMMA FailsStep ==
    ASSUME IInv, worker # "idle", NEW st \in {"PROTOCOL", "DISCONNECTED", "RESPONSE_TIMEOUT"}, Fails(st),
           parser' \in Parsers, net' \in Seq(Bytes), UNCHANGED <<evars, server, sent, requests>>,
           st = "PROTOCOL" => Cardinality(UnderWay) > capacity
    PROVE  IInv'
<1>1. EncoderIInv' /\ capacity' = capacity /\ at' = at
  BY Zenon, EncoderNextInv DEF IInv, evars
<1>2. worker' = "idle" /\ open' = FALSE /\ outcome' = st /\ got' = got
  BY Zenon DEF Fails
<1>3. WireTypes' /\ Whole' /\ PacketsAsSent'
  BY Zenon, <1>2 DEF IInv, WireTypes, Whole, PacketsAsSent
<1>4. Control'
  BY Zenon, <1>1, <1>2 DEF IInv, Control
<1>5. ProtocolErrorJustified'
  <2>1. UnderWay' = UnderWay
    BY Zenon, <1>2 DEF UnderWay, Size
  <2> QED
    BY Zenon, <1>1, <1>2, <2>1 DEF ProtocolErrorJustified
<1>6. NothingLeftInBuffer'
  BY Zenon, <1>2 DEF NothingLeftInBuffer
<1> QED
  BY Zenon, <1>1, <1>2, <1>3, <1>4, <1>5, <1>6 DEF IInv

LEMMA WaitFailsStep == ASSUME IInv, wait_fails PROVE IInv'
<1>1. /\ worker # "idle" /\ parser' \in Parsers /\ net' \in Seq(Bytes)
      /\ UNCHANGED <<evars, server, sent, requests>>
  BY Zenon DEF wait_fails, IInv, WireTypes
<1>2. \E st \in {"DISCONNECTED", "RESPONSE_TIMEOUT"} : Fails(st)
  BY Zenon DEF wait_fails
<1> QED
  BY Zenon, <1>1, <1>2, FailsStep

LEMMA ExtractFirstStep == ASSUME IInv, extract_first PROVE IInv'
<1>1. /\ worker # "idle" /\ parser \in Parsers /\ net \in Seq(Bytes) /\ net' = net
      /\ UNCHANGED <<evars, server, sent, requests>> /\ Len(parser.buf) = capacity
  BY Zenon DEF extract_first, IInv, WireTypes, Control
<1>2. Unconsumed(parser) \o net = Stream
  BY Zenon DEF Stream
<1>3. Takes(savvy_stream_parser_try_extract(parser, cfg.size_max))
  BY Zenon DEF extract_first
<1> QED
  BY Zenon, <1>1, <1>2, <1>3, TakesStep

(* recv's bytes and the rest. *)
LEMMA Cut ==
    ASSUME NEW s \in Seq(Bytes), NEW n \in 1..Len(s)
    PROVE  /\ SubSeq(s, 1, n) \in Seq(Bytes) /\ SubSeq(s, n + 1, Len(s)) \in Seq(Bytes)
           /\ Len(SubSeq(s, 1, n)) = n /\ SubSeq(s, 1, n) \o SubSeq(s, n + 1, Len(s)) = s
OBVIOUS

LEMMA WaitForResponseStep == ASSUME IInv, wait_for_response PROVE IInv'
<1>1. /\ worker # "idle" /\ parser \in Parsers /\ net \in Seq(Bytes) /\ open /\ Len(net) \in Nat
      /\ UNCHANGED <<evars, server, sent, requests>> /\ Len(parser.buf) = capacity /\ RECV_CHUNK \in Nat
  BY BoundsAssumption DEF wait_for_response, IInv, WireTypes, Control
<1>2. PICK n \in 1..Least(Len(net), RECV_CHUNK) :
        LET pushed == savvy_stream_parser_push(parser, SubSeq(net, 1, n)) IN
        /\ net' = SubSeq(net, n + 1, Len(net))
        /\ IF pushed.ok THEN Takes(savvy_stream_parser_try_extract(pushed.p, cfg.size_max))
           ELSE Fails("PROTOCOL") /\ parser' = pushed.p
  BY Zenon DEF wait_for_response
<1>3. PICK bytes, rest, r : /\ bytes = SubSeq(net, 1, n) /\ rest = SubSeq(net, n + 1, Len(net))
                            /\ r = savvy_stream_parser_push(parser, bytes)
  BY Zenon
<1>4. /\ net' = rest
      /\ IF r.ok THEN Takes(savvy_stream_parser_try_extract(r.p, cfg.size_max))
         ELSE Fails("PROTOCOL") /\ parser' = r.p
  BY <1>2, <1>3, Zenon
<1>5. bytes \in Seq(Bytes) /\ rest \in Seq(Bytes) /\ Len(bytes) = n /\ bytes \o rest = net
  <2>1. n \in 1..Len(net)
    BY <1>1 DEF Least
  <2> QED
    BY Zenon, <1>1, <1>3, <2>1, Cut
<1>6. /\ r.p \in Parsers /\ Len(r.p.buf) = capacity /\ r.ok \in BOOLEAN
      /\ r.ok => Unconsumed(r.p) = Unconsumed(parser) \o bytes
      /\ ~r.ok => parser.tail - parser.head + Len(bytes) > capacity
  BY Zenon, <1>1, <1>3, <1>5, PushAppends
<1>7. Unconsumed(parser) \in Seq(Bytes) /\ Len(Unconsumed(parser)) = parser.tail - parser.head
  BY Zenon, <1>1, UnconsumedForm
<1>8. CASE r.ok
  <2>1. Unconsumed(r.p) \o rest = Stream
    <3>1. Unconsumed(r.p) \o rest = (Unconsumed(parser) \o bytes) \o rest
      BY <1>6, <1>8, Zenon
    <3>2. (Unconsumed(parser) \o bytes) \o rest = Unconsumed(parser) \o (bytes \o rest)
      BY <1>5, <1>7, ConcatAssoc, Zenon
    <3> QED
      BY <1>5, <3>1, <3>2, Zenon DEF Stream
  <2>2. Takes(savvy_stream_parser_try_extract(r.p, cfg.size_max))
    BY Zenon, <1>4, <1>8
  <2> QED
    BY Zenon, <1>1, <1>4, <1>5, <1>6, <2>1, <2>2, TakesStep
<1>9. CASE ~r.ok
  <2>1. Cardinality(UnderWay) > capacity
    <3>1. PICK e : Holds(Stream, Len(got), sent, e) /\ e <= Cardinality(UnderWay)
      BY Zenon, <1>1 DEF IInv, InStream
    <3>2. PICK off : Framed(Stream, Len(got), sent, off) /\ off[Len(sent)] = e
      BY Zenon, <3>1 DEF Holds
    <3>3. Len(Stream) <= e
      BY Zenon, <3>2 DEF Framed
    <3>4. e \in Nat
      BY <3>2 DEF Framed, IInv, WireTypes, PacketsAsSent
    <3>5. Cardinality(UnderWay) \in Nat
      <4>1. sent \in Seq(Packets) /\ Len(got) \in 0..Len(sent)
        BY DEF IInv, WireTypes, PacketsAsSent
      <4>2. UnderWay = Load(Len(got), sent)
        BY Zenon DEF UnderWay, Load
      <4> QED
        BY Zenon, <4>1, <4>2, LoadSize
    <3>6. Len(Stream) = Len(Unconsumed(parser)) + Len(net) /\ Len(Unconsumed(parser)) \in Nat
      BY Zenon, <1>1, <1>7, Concat DEF Stream
    <3>7. Len(bytes) \in Nat /\ Len(bytes) <= Len(net)
      BY <1>5, Concat
    <3>8. capacity \in Nat
      BY Zenon DEF IInv, EncoderIInv, EncoderTypeOK
    <3> QED
      BY SMTT(30), <1>1, <1>6, <1>7, <1>9, <3>1, <3>3, <3>4, <3>5, <3>6, <3>7, <3>8
  <2>2. Fails("PROTOCOL") /\ parser' = r.p
    BY Zenon, <1>4, <1>9
  <2> QED
    BY Zenon, <1>1, <1>4, <1>5, <1>6, <2>1, <2>2, FailsStep
<1> QED
  BY Zenon, <1>6, <1>8, <1>9

-----------------------------------------------------------------------------
(* What the application does, and the submission. *)

(* A step of the encoder alone. *)
LEMMA EncoderStep ==
    ASSUME IInv, EncoderIInv', capacity' = capacity, UNCHANGED wvars,
           at' # "idle" => worker = "idle" /\ requests < MaxRequests
    PROVE  IInv'
<1>1. /\ worker' = worker /\ open' = open /\ parser' = parser /\ net' = net /\ server' = server
      /\ sent' = sent /\ got' = got /\ outcome' = outcome /\ requests' = requests
  BY Zenon DEF wvars
<1>2. WireTypes' /\ Whole' /\ PacketsAsSent'
  BY Zenon, <1>1 DEF IInv, WireTypes, Whole, PacketsAsSent
<1>3. Control'
  BY Zenon, <1>1 DEF IInv, Control
<1>4. Stream' = Stream /\ UnderWay' = UnderWay /\ Outstanding' = Outstanding
  BY Zenon, <1>1 DEF Stream, Unconsumed, UnderWay, Size, Outstanding
<1>5. open' => InStream'
  BY Zenon, <1>1, <1>4 DEF IInv, InStream
<1>6. ProtocolErrorJustified' /\ NothingLeftInBuffer'
  BY Zenon, <1>1, <1>4 DEF IInv, ProtocolErrorJustified, NothingLeftInBuffer, Size
<1> QED
  BY Zenon, <1>2, <1>3, <1>5, <1>6 DEF IInv

LEMMA CallsStep == ASSUME IInv, Calls PROVE IInv'
<1>1. PICK n \in {0, cfg.max, cfg.max + 1} : sensor_stream_session_send_data(n) \/ relay_rknn_result(n)
  BY Zenon DEF Calls
<1>2. n \in Nat
  <2>1. cfg.max \in Nat
    BY Zenon, WidthsAssumption DEF IInv, EncoderIInv, EncoderTypeOK, Configs
  <2> QED
    BY <2>1
<1>3. EncoderIInv'
  BY Zenon, <1>1, <1>2, CallStep DEF IInv
<1>4. capacity' = capacity
  BY Zenon, <1>1 DEF sensor_stream_session_send_data, relay_rknn_result
<1> QED
  BY Zenon, <1>3, <1>4, EncoderStep DEF Calls

LEMMA EncodingStep == ASSUME IInv, Encoding PROVE IInv'
<1>1. EncoderIInv'
  BY Zenon, EncoderNextInv DEF IInv, Encoding, EncoderNext
<1>2. capacity' = capacity /\ at # "idle"
  BY Zenon DEF Encoding, Encodes, sensor_wav_wrap, bzip_begins, bzip_turn, savvy_packet_encode
<1> QED
  BY Zenon, <1>1, <1>2, EncoderStep DEF IInv, Control, Encoding

LEMMA SubmitNoResponseStep == ASSUME IInv, submit_no_response PROVE IInv'
<1>1. PICK st \in {"OK", "REJECTED", "OUT_OF_MEMORY"} : session_submits(st)
  BY Zenon DEF submit_no_response
<1>2. EncoderIInv'
  BY Zenon, <1>1, SubmitStep DEF IInv
<1>3. capacity' = capacity /\ at' = "idle" /\ UNCHANGED wvars
  BY Zenon, <1>1 DEF session_submits, Returns, submit_no_response
<1> QED
  BY Zenon, <1>2, <1>3, EncoderStep

(* The parser of a new connection. *)
LEMMA NewParser ==
    ASSUME NEW c \in Nat
    PROVE  /\ savvy_stream_parser_init(c) \in Parsers /\ Len(savvy_stream_parser_init(c).buf) = c
           /\ Unconsumed(savvy_stream_parser_init(c)) = <<>>
<1>1. 0 \in Bytes
  BY RadixAssumption DEF Bytes
<1>2. PICK b : b = [i \in 1..c |-> 0]
  BY Zenon
<1>3. b \in Seq(Bytes) /\ Len(b) = c
  BY <1>1, <1>2
<1>4. savvy_stream_parser_init(c) = [buf |-> b, head |-> 0, tail |-> 0]
  BY Zenon, <1>2 DEF savvy_stream_parser_init
<1>5. savvy_stream_parser_init(c) \in Parsers
  BY <1>3, <1>4 DEF Parsers
<1>6. SubSeq(b, 0 + 1, 0) = <<>>
  BY <1>3
<1> QED
  BY <1>3, <1>4, <1>5, <1>6 DEF Unconsumed

LEMMA EmptyHolds == Holds(<<>>, 0, <<>>, 0)
<1>1. PICK off : off = [i \in 0..0 |-> 0]
  BY ZenonT(30)
<1>2. Framed(<<>>, 0, <<>>, off)
  BY <1>1 DEF Framed
<1> QED
  BY <1>1, <1>2 DEF Holds

LEMMA SubmitsStep == ASSUME IInv, submit PROVE IInv'
<1>1. EncoderIInv' /\ capacity' = capacity /\ at' = "idle" /\ at # "idle" /\ cfg' = cfg
  <2>1. session_submits("OK")
    BY Zenon DEF submit
  <2>2. EncoderIInv'
    BY Zenon, <2>1, SubmitStep DEF IInv
  <2> QED
    BY Zenon, <2>1, <2>2 DEF session_submits, Returns
<1>2. /\ requests' = requests + 1 /\ open' = TRUE /\ worker' = "extract" /\ outcome' = "none"
  BY Zenon DEF submit
<1>3. capacity \in Nat /\ capacity > 0 /\ requests < MaxRequests /\ requests' \in 0..MaxRequests
  <2>1. capacity \in Nat /\ capacity > 0
    BY Zenon, <1>1 DEF IInv, EncoderIInv, EncoderTypeOK
  <2>2. requests < MaxRequests /\ requests \in 0..MaxRequests /\ MaxRequests \in Nat
    BY Zenon, <1>1, BoundsAssumption DEF IInv, Control, WireTypes
  <2> QED
    BY SMTT(30), <1>2, <2>1, <2>2
<1>4. server' \in [owes : Nat, closed : BOOLEAN] /\ server'.closed = (open /\ server.closed)
  <2>1. PICK w, c : w = (IF open THEN server.owes ELSE 0) + 1 /\ c = (open /\ server.closed)
    BY Zenon
  <2>2. server' = [owes |-> w, closed |-> c]
    BY Zenon, <2>1 DEF submit
  <2>3. w \in Nat
    BY <2>1 DEF IInv, WireTypes
  <2>4. c \in BOOLEAN
    BY <2>1, Zenon
  <2> QED
    BY Zenon, <2>1, <2>2, <2>3, <2>4
<1>5. ProtocolErrorJustified' /\ NothingLeftInBuffer'
  BY Zenon, <1>2 DEF ProtocolErrorJustified, NothingLeftInBuffer
<1>6. CASE open
  <2>1. parser' = parser /\ net' = net /\ sent' = sent /\ got' = got
    BY Zenon, <1>6 DEF submit
  <2>2. WireTypes' /\ Whole' /\ PacketsAsSent'
    BY Zenon, <1>2, <1>3, <1>4, <2>1 DEF IInv, WireTypes, Whole, PacketsAsSent
  <2>3. Control'
    BY Zenon, <1>1, <1>2, <1>3, <1>6, <2>1 DEF IInv, Control
  <2>4. Stream' = Stream /\ UnderWay' = UnderWay
    BY Zenon, <2>1 DEF Stream, Unconsumed, UnderWay, Size
  <2>5. InStream'
    BY Zenon, <1>4, <1>6, <2>1, <2>4 DEF IInv, InStream
  <2> QED
    BY Zenon, <1>1, <1>5, <2>2, <2>3, <2>5 DEF IInv
<1>7. CASE ~open
  <2>1. net' = <<>> /\ sent' = <<>> /\ got' = <<>> /\ parser' = savvy_stream_parser_init(capacity)
    BY Zenon, <1>7 DEF submit
  <2>2. parser' \in Parsers /\ Len(parser'.buf) = capacity /\ Unconsumed(parser') = <<>>
    BY Zenon, <1>3, <2>1, NewParser
  <2>3. WireTypes'
    BY <1>2, <1>3, <1>4, <2>1, <2>2 DEF IInv, WireTypes
  <2>4. Whole' /\ PacketsAsSent'
    BY <2>1 DEF Whole, PacketsAsSent
  <2>5. Control'
    BY Zenon, <1>1, <1>2, <1>3, <2>2 DEF Control
  <2>6. InStream'
    <3>1. Stream' = <<>> /\ Len(got') = 0 /\ Len(sent') = 0
      BY <2>1, <2>2 DEF Stream
    <3>2. Holds(Stream', Len(got'), sent', 0) /\ Len(Stream') = 0
      <4>1. Holds(Stream', Len(got'), sent', 0)
        BY <2>1, <3>1, EmptyHolds, Zenon
      <4>2. Len(Stream') = 0
        BY Zenon, <3>1
      <4> QED
        BY Zenon, <4>1, <4>2
    <3>3. 0 <= Cardinality(UnderWay')
      <4>1. UnderWay' = Load(Len(got'), sent')
        BY Zenon DEF UnderWay, Load, Size
      <4>2. sent' \in Seq(Packets) /\ Len(got') \in 0..Len(sent')
        BY <2>1, <3>1
      <4>3. Cardinality(Load(Len(got'), sent')) \in Nat
        BY <4>2, LoadSize, Zenon
      <4> QED
        BY <4>1, <4>3
    <3> QED
      BY Zenon, <3>2, <3>3 DEF InStream
  <2> QED
    BY Zenon, <1>1, <1>5, <2>3, <2>4, <2>5, <2>6 DEF IInv
<1> QED
  BY Zenon, <1>6, <1>7

LEMMA InitInv == Init => IInv
<1> SUFFICES ASSUME Init PROVE IInv
  BY Zenon
<1>1. EncoderIInv
  BY Zenon, EncoderInitInv DEF Init
<1>2. /\ worker = "idle" /\ open = FALSE /\ parser = savvy_stream_parser_init(0) /\ net = <<>>
      /\ server = NewServer /\ sent = <<>> /\ got = <<>> /\ outcome = "none" /\ requests = 0 /\ at = "idle"
  BY Zenon DEF Init, EncoderInit
<1>3. parser \in Parsers
  BY Zenon, <1>2, NewParser
<1>4. server \in [owes : Nat, closed : BOOLEAN]
  BY Zenon, <1>2 DEF NewServer
<1>5. WireTypes
  <2>1. requests \in 0..MaxRequests
    BY <1>2, BoundsAssumption
  <2>2. net \in Seq(Bytes) /\ sent \in Seq(Packets) /\ got \in Seq(Results)
    BY <1>2
  <2> QED
    BY Zenon, <1>2, <1>3, <1>4, <2>1, <2>2 DEF WireTypes
<1>6. Control /\ Whole /\ PacketsAsSent /\ ProtocolErrorJustified /\ NothingLeftInBuffer
  BY <1>2 DEF Control, Whole, PacketsAsSent, ProtocolErrorJustified, NothingLeftInBuffer
<1> QED
  BY Zenon, <1>1, <1>2, <1>5, <1>6 DEF IInv

LEMMA NextInv == IInv /\ [Next]_vars => IInv'
<1> SUFFICES ASSUME IInv, [Next]_vars PROVE IInv'
  BY Zenon
<1>1. CASE UNCHANGED vars
  <2>1. UNCHANGED evars /\ UNCHANGED wvars
    BY Zenon, <1>1 DEF vars
  <2>2. EncoderIInv' /\ capacity' = capacity /\ at' = at
    BY Zenon, <2>1, EncoderNextInv DEF IInv, evars
  <2> QED
    BY Zenon, <2>1, <2>2, EncoderStep DEF IInv, Control
<1> QED
  BY Zenon, <1>1, CallsStep, EncodingStep, SubmitsStep, SubmitNoResponseStep, ExtractFirstStep, WaitForResponseStep,
     WaitFailsStep, ServerAnswersStep, ServerRepeatsStep, ServerDisconnectsStep DEF Next

(* Every state of a session and its connection satisfies the invariant. *)
THEOREM Invariance == Spec => []IInv
BY InitInv, NextInv, PTL DEF Spec

(* What savvy_stream_parser_push and try_extract leave in head and tail    *)
(* stays within the buffer, for every capacity and every chunk recv gives. *)
THEOREM TypesKept == Spec => []TypeOK
<1>1. IInv => TypeOK
  BY DEF IInv, EncoderIInv, WireTypes, TypeOK, Parsers
<1> QED
  BY Invariance, <1>1, PTL

(* Whatever the pieces in which recv delivers the bytes of the server, and *)
(* wherever compaction moves them, process_item is given the packets as    *)
(* they were sent, in their order, and crc_valid tells the damaged ones.   *)
THEOREM PacketsArriveAsSent == Spec => []PacketsAsSent
<1>1. IInv => PacketsAsSent
  BY DEF IInv
<1> QED
  BY Invariance, <1>1, PTL

(* push and try_extract report an error, and process_item fails a request  *)
(* with PROTOCOL, only for a packet above the buffer's size or for more    *)
(* than the buffer holds.                                                  *)
THEOREM ProtocolErrorsAreJustified == Spec => []ProtocolErrorJustified
<1>1. IInv => ProtocolErrorJustified
  BY DEF IInv
<1> QED
  BY Invariance, <1>1, PTL

(* wait_for_response blocks in recv only when the packet it needs is not   *)
(* completely in the buffer.                                               *)
THEOREM NothingIsLeftInBuffer == Spec => []NothingLeftInBuffer
<1>1. IInv => NothingLeftInBuffer
  BY DEF IInv
<1> QED
  BY Invariance, <1>1, PTL

(* On the wire a session encodes as PayloadEncoder says, so that what is   *)
(* proved of EncoderSpec holds of it: the calls of PacketWire are some of  *)
(* its calls, and nothing else touches what it is about.                   *)
THEOREM WireImplementsEncoder == Spec => EncoderSpec
<1>1. Init => EncoderInit
  BY Zenon DEF Init
<1>2. IInv /\ [Next]_vars => [EncoderNext]_evars
  <2> SUFFICES ASSUME IInv, [Next]_vars PROVE [EncoderNext]_evars
    BY Zenon
  <2>1. CASE Calls
    <3>1. cfg.max \in Nat
      BY ZenonT(30), WidthsAssumption DEF IInv, EncoderIInv, EncoderTypeOK, Configs
    <3>2. {0, cfg.max, cfg.max + 1} \subseteq 0..cfg.max + 1
      BY <3>1
    <3> QED
      BY <2>1, <3>2, Zenon DEF Calls, EncoderNext
  <2>2. CASE Encoding
    BY Zenon, <2>2 DEF Encoding, EncoderNext
  <2>3. CASE submit
    BY Zenon, <2>3 DEF submit, EncoderNext
  <2>4. CASE submit_no_response
    BY Zenon, <2>4 DEF submit_no_response, EncoderNext
  <2>5. CASE extract_first \/ wait_for_response \/ wait_fails
    BY Zenon, <2>5 DEF extract_first, wait_for_response, wait_fails
  <2>6. CASE server_answers \/ server_repeats \/ server_disconnects
    BY Zenon, <2>6 DEF server_answers, server_repeats, server_disconnects
  <2>7. CASE UNCHANGED vars
    BY Zenon, <2>7 DEF vars
  <2> QED
    BY <2>1, <2>2, <2>3, <2>4, <2>5, <2>6, <2>7 DEF Next
<1> QED
  BY Invariance, <1>1, <1>2, PTL DEF Spec, EncoderSpec
=============================================================================
