---------------------------- MODULE StreamParser ----------------------------
(***************************************************************************)
(* protocol/packet/stream_parser.c and the layout packet_codec.c gives a   *)
(* packet, on bytes.  A byte is a digit below Radix.  The header has four  *)
(* of them: one for start, command and the like, two for the big-endian    *)
(* Length and one for the checksum of the data.                            *)
(***************************************************************************)
EXTENDS Integers, Sequences, FiniteSets

CONSTANT Radix

ASSUME RadixAssumption == Radix \in Nat \ {0, 1}

HEADER_LEN == 4
Bytes == 0..Radix - 1

(* The sum of the bytes stands for the CRC; as many pairs make it up. *)
savvy_crc32(data) == (1 + Cardinality({u \in (1..Len(data)) \X Bytes : u[2] < data[u[1]]})) % Radix

(* A packet with its declared length and its checksum field. *)
Encoded(tag, length, crc, data) == <<tag, length \div Radix, length % Radix, crc>> \o data

savvy_stream_parser_init(cap) == [buf |-> [i \in 1..cap |-> 0], head |-> 0, tail |-> 0]

Unconsumed(p) == SubSeq(p.buf, p.head + 1, p.tail)

(* Mutant: head and tail move to the front, the bytes stay. *)
compacted_unmoved(p) == [p EXCEPT !.head = 0, !.tail = p.tail - p.head]

(* memmove to the front; what lies behind is left as it was. *)
Compacted(p) ==
    LET used == p.tail - p.head IN
    [buf |-> [i \in DOMAIN p.buf |-> IF i <= used THEN p.buf[p.head + i] ELSE p.buf[i]],
     head |-> 0, tail |-> used]

Fits(p, bytes) == Len(p.buf) - p.tail >= Len(bytes)

Stored(p, bytes) ==
    [p EXCEPT !.buf = [i \in DOMAIN p.buf |-> IF i \in p.tail + 1..p.tail + Len(bytes)
                                              THEN bytes[i - p.tail] ELSE p.buf[i]],
              !.tail = @ + Len(bytes)]

(* Mutant: a buffer that is full at its end is not compacted. *)
push_no_compaction(p, bytes) ==
    IF Fits(p, bytes) THEN [ok |-> TRUE, p |-> Stored(p, bytes)] ELSE [ok |-> FALSE, p |-> p]

(* ok is FALSE for SAVVY_ERR_OVERFLOW. *)
savvy_stream_parser_push(p, bytes) ==
    LET q == IF Fits(p, bytes) THEN p ELSE Compacted(p) IN
    IF Fits(q, bytes) THEN [ok |-> TRUE, p |-> Stored(q, bytes)] ELSE [ok |-> FALSE, p |-> q]

(* Mutant: one byte too many is waited for. *)
complete_late(in, total) == Len(in) > total

Complete(in, total) == Len(in) >= total

(* Mutant: head goes one byte too far. *)
consumed_past_end(p, total) == [p EXCEPT !.head = @ + total + 1]

Consumed(p, total) == [p EXCEPT !.head = @ + total]

(* The sum of the header and the announced length has the width of size_t. *)
(* Where it wraps, savvy_packet_decode refuses what is left.               *)
savvy_stream_parser_try_extract(p, size_max) ==
    LET in == Unconsumed(p)
        length == in[2] * Radix + in[3]
        total == (HEADER_LEN + length) % (size_max + 1) IN
    IF Len(in) < HEADER_LEN THEN [result |-> "NEED_MORE_DATA", p |-> p]
    ELSE IF total > Len(p.buf) THEN [result |-> "ERROR", p |-> p]
    ELSE IF ~Complete(in, total) THEN [result |-> "NEED_MORE_DATA", p |-> p]
    ELSE IF total < HEADER_LEN \/ length > total - HEADER_LEN THEN [result |-> "ERROR", p |-> p]
    ELSE [result |-> "PACKET_READY", p |-> Consumed(p, total),
          tag |-> in[1], crc |-> in[4], data |-> SubSeq(in, HEADER_LEN + 1, total)]
=============================================================================
