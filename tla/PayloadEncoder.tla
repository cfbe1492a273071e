--------------------------- MODULE PayloadEncoder ---------------------------
(***************************************************************************)
(* From a payload to a packet: session.c (the capacity a session reserves, *)
(* send_data, the relay), wav_encoder.c, bzip_codec.c and the length       *)
(* checks of savvy_packet_encode.  Only lengths are modelled, with the     *)
(* widths of size_t and of the 32-bit fields as constants, so that a small *)
(* instance meets every overflow check; what libbz2 does is external.      *)
(***************************************************************************)
EXTENDS Integers

CONSTANTS
    SizeMaxes,               \* SIZE_MAX, of the builds considered
    UINT32_MAX,              \* also UINT_MAX, what a bz_stream counts with
    SENSOR_WAV_HEADER_LEN,   \* 44
    RIFF_EXTRA,              \* 36
    SAVVY_PACKET_HEADER_LEN, \* 26
    SENSOR_BZIP_BOUND_DIVISOR, SENSOR_BZIP_BOUND_EXTRA, \* 100, 600
    MIN_CAPACITY,            \* 4096
    SENSOR_BZIP_MAX_LOOP_ITERATIONS,
    Excess,                  \* by how much libbz2 may exceed its documented bound
    MaxPayloads              \* values of config.max_payload_size

Positive == Nat \ {0}

ASSUME WidthsAssumption ==
    /\ SizeMaxes \subseteq Nat /\ UINT32_MAX \in Nat /\ MaxPayloads \subseteq Nat
    /\ SENSOR_WAV_HEADER_LEN \in Positive /\ RIFF_EXTRA \in Nat /\ SAVVY_PACKET_HEADER_LEN \in Positive
    /\ SENSOR_BZIP_BOUND_DIVISOR \in Positive /\ SENSOR_BZIP_BOUND_EXTRA \in Positive
    /\ MIN_CAPACITY \in Positive
    /\ SENSOR_BZIP_MAX_LOOP_ITERATIONS \in Nat /\ SENSOR_BZIP_MAX_LOOP_ITERATIONS >= 2 /\ Excess \in Nat
    /\ RIFF_EXTRA <= SENSOR_WAV_HEADER_LEN /\ SENSOR_WAV_HEADER_LEN <= UINT32_MAX
    /\ \A m \in SizeMaxes : /\ UINT32_MAX <= m /\ SAVVY_PACKET_HEADER_LEN <= m
                            /\ SENSOR_BZIP_BOUND_EXTRA <= m

VARIABLES
    cfg,      \* role, compress, max_payload_size, and SIZE_MAX of the build
    capacity, \* encode_buf_cap; 0 when create failed
    at,       \* where the thread that sends is
    op,       \* the call: send_data, or one that sends its payload as it is
    len,      \* payload_len of its call
    body,     \* final_body_len
    bz,       \* the compression in progress
    heap,     \* the buffers that are allocated
    faulted,  \* history: in this call memory ran out, or libbz2 failed
    status    \* what the last call returned

evars == <<cfg, capacity, at, op, len, body, bz, heap, faulted, status>>

Configs == [role : {"STREAM", "VOICE"}, compress : BOOLEAN, max : MaxPayloads, size_max : SizeMaxes]

(* in: strm.avail_in; left: what libbz2 will still produce. *)
NoStream == [in |-> 0, left |-> 0, cap |-> 0, written |-> 0, iterations |-> 0]

(* What n bytes can become, by the documentation of libbz2. *)
Bound(n) == n + n \div SENSOR_BZIP_BOUND_DIVISOR + SENSOR_BZIP_BOUND_EXTRA

(* Mutant: the header of the WAV file is not reserved. *)
capacity_without_wav(c) ==
    LET out == IF c.compress THEN Bound(c.max) ELSE c.max IN
    IF \/ c.compress /\ c.max > UINT32_MAX
       \/ c.compress /\ c.max > c.size_max - c.max \div SENSOR_BZIP_BOUND_DIVISOR
       \/ c.compress /\ out > c.size_max
       \/ out > UINT32_MAX \/ out > c.size_max - SAVVY_PACKET_HEADER_LEN
    THEN 0 ELSE SAVVY_PACKET_HEADER_LEN + out

(* 0 stands for SAVVY_ERR_OVERFLOW. *)
calculate_encoded_packet_capacity(c) ==
    LET in == IF c.role = "VOICE" THEN c.max + SENSOR_WAV_HEADER_LEN ELSE c.max
        growth == in \div SENSOR_BZIP_BOUND_DIVISOR
        out == IF c.compress THEN Bound(in) ELSE in IN
    IF \/ c.role = "VOICE" /\ c.max > c.size_max - SENSOR_WAV_HEADER_LEN
       \/ c.compress /\ in > UINT32_MAX
       \/ c.compress /\ in > c.size_max - growth
       \/ c.compress /\ in + growth > c.size_max - SENSOR_BZIP_BOUND_EXTRA
       \/ out > UINT32_MAX
       \/ out > c.size_max - SAVVY_PACKET_HEADER_LEN
    THEN 0 ELSE SAVVY_PACKET_HEADER_LEN + out

(* sensor_stream_session_create *)
EncoderInit ==
    /\ cfg \in Configs /\ cfg.max <= cfg.size_max
    /\ capacity = calculate_encoded_packet_capacity(cfg)
    /\ at = "idle" /\ op = "none" /\ len = 0 /\ body = 0 /\ bz = NoStream
    /\ heap = {} /\ faulted = FALSE /\ status = "none"
-----------------------------------------------------------------------------
(* The call returns without having submitted anything. *)
Returns(st, freed) == at' = "idle" /\ status' = st /\ heap' = heap \ freed

(* send_data, up to its first buffer. *)
sensor_stream_session_send_data(n) ==
    /\ at = "idle" /\ capacity > 0
    /\ op' = "data" /\ len' = n /\ body' = n /\ faulted' = FALSE
    /\ IF n > cfg.max THEN Returns("OVERFLOW", {})
       ELSE /\ at' = IF cfg.role = "VOICE" THEN "wav" ELSE IF cfg.compress THEN "bzip" ELSE "encode"
            /\ status' = "none" /\ UNCHANGED heap
    /\ UNCHANGED <<cfg, capacity, bz>>

(* relay_rknn_result, which sends the payload of a STREAM session as it is. *)
relay_rknn_result(n) ==
    /\ at = "idle" /\ capacity > 0 /\ cfg.role = "STREAM"
    /\ op' = "relay" /\ len' = n /\ body' = n /\ faulted' = FALSE
    /\ IF n > cfg.max THEN Returns("OVERFLOW", {})
       ELSE at' = "encode" /\ status' = "none" /\ UNCHANGED heap
    /\ UNCHANGED <<cfg, capacity, bz>>

sensor_wav_wrap ==
    /\ at = "wav"
    /\ IF body > UINT32_MAX - RIFF_EXTRA \/ body > cfg.size_max - SENSOR_WAV_HEADER_LEN
       THEN Returns("OVERFLOW", {}) /\ UNCHANGED <<body, faulted>>
       ELSE \/ Returns("OUT_OF_MEMORY", {}) /\ faulted' = TRUE /\ UNCHANGED body
            \/ /\ body' = body + SENSOR_WAV_HEADER_LEN /\ heap' = heap \cup {"wav"}
               /\ at' = IF cfg.compress THEN "bzip" ELSE "encode"
               /\ UNCHANGED <<faulted, status>>
    /\ UNCHANGED <<cfg, capacity, op, len, bz>>

(* sensor_bzip_compress begins: the first guess of the capacity may wrap.  *)
(* How much comes out is up to libbz2, which fails if it is above Bound.   *)
bzip_begins ==
    /\ at = "bzip"
    /\ IF body > UINT32_MAX
       THEN Returns("OVERFLOW", {"wav"}) /\ UNCHANGED <<bz, faulted>>
       ELSE \/ Returns("OUT_OF_MEMORY", {"wav"}) /\ faulted' = TRUE /\ UNCHANGED bz
            \/ \E z \in 1..Bound(body) + Excess :
                  /\ bz' = [in |-> body, left |-> z, cap |-> Bound(body) % (cfg.size_max + 1),
                            written |-> 0, iterations |-> 0]
                  /\ faulted' = (z > Bound(body))
                  /\ at' = "bz_loop" /\ heap' = heap \cup {"out"} /\ UNCHANGED status
    /\ UNCHANGED <<cfg, capacity, op, len, body>>

(* sensor_bzip_ensure_capacity, whose only caller asks for one byte more:  *)
(* the loop there doubles at most once.                                    *)
sensor_bzip_ensure_capacity(cap) ==
    IF cap = 0 THEN MIN_CAPACITY ELSE IF cap > cfg.size_max \div 2 THEN cap + 1 ELSE 2 * cap

(* The loop ends with an error; the caller frees the WAV buffer too. *)
bzip_fails(st) == Returns(st, {"wav", "out"}) /\ bz' = NoStream /\ UNCHANGED body

Least(m, n) == IF m < n THEN m ELSE n

(* One turn of the loop.  A call of BZ2_bzCompress goes on until it has no *)
(* input left or no room; it ends the stream when all is written.          *)
bzip_turn ==
    /\ at = "bz_loop"
    /\ LET cap == IF bz.written = bz.cap THEN sensor_bzip_ensure_capacity(bz.cap) ELSE bz.cap
           room == Least(cap - bz.written, UINT32_MAX) IN
       IF bz.iterations >= SENSOR_BZIP_MAX_LOOP_ITERATIONS
       THEN bzip_fails("UNKNOWN") /\ UNCHANGED faulted
       ELSE \/ bz.written = bz.cap /\ bzip_fails("OUT_OF_MEMORY") /\ faulted' = TRUE
            \/ bzip_fails("UNKNOWN") /\ faulted' = TRUE
            \/ \E p \in 0..Least(room, bz.left), in \in 0..bz.in :
                  /\ IF bz.in > 0 THEN p < bz.left /\ (in = 0 \/ p = room)
                     ELSE p = Least(room, bz.left)
                  /\ IF bz.in = 0 /\ p = bz.left
                     THEN /\ at' = "encode" /\ body' = bz.written + p
                          /\ heap' = heap \ {"wav"} /\ bz' = NoStream
                     ELSE /\ bz' = [in |-> in, left |-> bz.left - p, cap |-> cap,
                                    written |-> bz.written + p, iterations |-> bz.iterations + 1]
                          /\ UNCHANGED <<at, body, heap>>
                  /\ UNCHANGED <<faulted, status>>
    /\ UNCHANGED <<cfg, capacity, op, len>>

(* Mutant: the compressed body is not freed once it is in the packet. *)
packet_encode_leaks ==
    /\ at = "encode"
    /\ IF \/ body > UINT32_MAX \/ body > cfg.size_max - SAVVY_PACKET_HEADER_LEN
          \/ capacity < SAVVY_PACKET_HEADER_LEN + body
       THEN Returns("OVERFLOW", {"wav", "out"})
       ELSE at' = "submit" /\ heap' = heap \ {"wav"} /\ UNCHANGED status
    /\ UNCHANGED <<cfg, capacity, op, len, body, bz, faulted>>

(* savvy_packet_encode into encode_buf; the body is not needed after it. *)
savvy_packet_encode ==
    /\ at = "encode"
    /\ IF \/ body > UINT32_MAX \/ body > cfg.size_max - SAVVY_PACKET_HEADER_LEN
          \/ capacity < SAVVY_PACKET_HEADER_LEN + body
       THEN Returns("OVERFLOW", {"wav", "out"})
       ELSE at' = "submit" /\ heap' = heap \ {"wav", "out"} /\ UNCHANGED status
    /\ UNCHANGED <<cfg, capacity, op, len, body, bz, faulted>>

(* The packet goes to the channel, with a pending_send_t that is freed     *)
(* again if the channel does not take it.                                  *)
session_submits(st) ==
    /\ at = "submit"
    /\ Returns(st, {}) /\ body' = 0
    /\ UNCHANGED <<cfg, capacity, op, len, bz, faulted>>

Encodes == sensor_wav_wrap \/ bzip_begins \/ bzip_turn \/ savvy_packet_encode

EncoderNext ==
    \/ \E n \in 0..cfg.max + 1 : sensor_stream_session_send_data(n) \/ relay_rknn_result(n)
    \/ Encodes
    \/ \E st \in {"OK", "REJECTED", "OUT_OF_MEMORY"} : session_submits(st)

EncoderSpec == EncoderInit /\ [][EncoderNext]_evars
-----------------------------------------------------------------------------
(* Types of the variables that model a session's configuration and a call. *)
EncoderTypeOK ==
    /\ cfg \in Configs /\ capacity \in Nat
    /\ at \in {"idle", "wav", "bzip", "bz_loop", "encode", "submit"}
    /\ op \in {"none", "data", "relay"} /\ len \in Nat /\ body \in Nat
    /\ bz \in [in : Nat, left : Nat, cap : Nat, written : Nat, iterations : Nat]
    /\ heap \subseteq {"wav", "out"} /\ faulted \in BOOLEAN
    /\ status \in {"none", "OK", "REJECTED", "OVERFLOW", "OUT_OF_MEMORY", "UNKNOWN"}

(* A session that could be created takes every payload up to               *)
(* max_payload_size: whatever the WAV header and the compression add, the  *)
(* packet fits the buffer create reserved and the 32-bit fields, nothing   *)
(* wraps, and the loop breaker of the compression does not trip.  A larger *)
(* payload is refused.                                                     *)
PayloadFits ==
    /\ at = "submit" => SAVVY_PACKET_HEADER_LEN + body <= capacity
    /\ at = "idle" /\ status # "none" /\ ~faulted =>
          (len > cfg.max <=> status \in {"OVERFLOW", "UNKNOWN"})

(* send_data has freed what it allocated whenever it returns or hands a    *)
(* packet to the channel, on every error path.                             *)
HeapBalanced == at \in {"idle", "submit"} => heap = {}
=============================================================================
