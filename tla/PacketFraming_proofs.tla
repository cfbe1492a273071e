------------------------ MODULE PacketFraming_proofs ------------------------
(***************************************************************************)
(* Proofs about PayloadEncoder, for every width of size_t and of the       *)
(* 32-bit fields, every header length and every configured payload size:   *)
(* a payload that is accepted fits, and no buffer is leaked.               *)
(*                                                                         *)
(* Then the lemmas about StreamParser's operators and packets in a row of  *)
(* bytes that PacketWire_proofs is built from: what a push, a compaction   *)
(* and an extraction do to the unread bytes, and how packets laid end to   *)
(* end lose one at the front and gain one at the back.                     *)
(***************************************************************************)
EXTENDS PacketWire, FiniteSetTheorems, TLAPS

(* Integer division is monotonic. *)
LEMMA DivMono ==
    ASSUME NEW m \in Nat, NEW n \in Nat, NEW d \in Nat \ {0}, m <= n
    PROVE  /\ m \div d \in Nat /\ n \div d \in Nat
           /\ m \div d <= n \div d
<1> DEFINE a == m \div d
           b == n \div d
<1>1. a \in Int /\ b \in Int
  OBVIOUS
<1>2. d * a <= m /\ m < d * a + d /\ d * b <= n /\ n < d * b + d
  BY Z3
<1> QED
  BY <1>1, <1>2, Z3

(* Bound, the size reserved for a compressed payload, grows with its size. *)
LEMMA BoundMono ==
    ASSUME NEW m \in Nat, NEW n \in Nat, m <= n
    PROVE  /\ Bound(m) \in Positive /\ Bound(n) \in Positive
           /\ m <= Bound(m) /\ Bound(m) <= Bound(n)
<1>1. SENSOR_BZIP_BOUND_DIVISOR \in Nat \ {0} /\ SENSOR_BZIP_BOUND_EXTRA \in Nat \ {0}
  BY Zenon, WidthsAssumption DEF Positive
<1> QED
  BY <1>1, DivMono DEF Bound, Positive

-----------------------------------------------------------------------------
(* The length of what is compressed or sent for a payload of n bytes. *)
Wrapped(n) == IF cfg.role = "VOICE" THEN n + SENSOR_WAV_HEADER_LEN ELSE n

(* What a compression keeps to, unless libbz2 exceeds its bound: the       *)
(* buffer need not grow, and all the input goes in with the first call.    *)
InBound ==
    /\ bz.cap = Bound(body) /\ bz.left > 0 /\ bz.written + bz.left <= bz.cap
    /\ bz.iterations = 0 \/ (bz.iterations = 1 /\ bz.in = 0)

(* The inductive invariant: the length at each place of a call, and the    *)
(* buffers that are allocated there.                                       *)
EncoderIInv ==
    /\ EncoderTypeOK
    /\ capacity = calculate_encoded_packet_capacity(cfg)
    /\ at # "idle" => capacity > 0 /\ len <= cfg.max
    /\ at = "wav" => cfg.role = "VOICE" /\ body = len /\ heap = {}
    /\ at \in {"bzip", "bz_loop"} => cfg.compress /\ body = Wrapped(len)
    /\ at = "bzip" => heap \subseteq {"wav"}
    /\ at = "bz_loop" => bz.written <= bz.cap /\ (~faulted => InBound)
    /\ at = "encode" /\ ~faulted => SAVVY_PACKET_HEADER_LEN + body <= capacity
    /\ PayloadFits
    /\ HeapBalanced

(* What a capacity above 0 says of a configuration. *)
LEMMA Reserved ==
    ASSUME NEW n \in Nat, cfg \in Configs, n <= cfg.max,
           capacity = calculate_encoded_packet_capacity(cfg), capacity > 0
    PROVE  /\ Wrapped(n) \in Nat /\ Wrapped(n) <= UINT32_MAX /\ Wrapped(n) <= cfg.size_max
           /\ SAVVY_PACKET_HEADER_LEN + Wrapped(n) <= capacity
           /\ cfg.compress => SAVVY_PACKET_HEADER_LEN + Bound(Wrapped(n)) <= capacity
           /\ capacity <= cfg.size_max /\ capacity <= UINT32_MAX + SAVVY_PACKET_HEADER_LEN
           /\ UINT32_MAX <= cfg.size_max
<1> DEFINE in == Wrapped(cfg.max)
           out == IF cfg.compress THEN Bound(in) ELSE in
<1>1. cfg.max \in Nat /\ cfg.size_max \in Nat /\ UINT32_MAX <= cfg.size_max
  BY Zenon, WidthsAssumption DEF Configs
<1>2. in \in Nat /\ Wrapped(n) \in Nat /\ Wrapped(n) <= in
  BY <1>1, WidthsAssumption DEF Wrapped, Positive
<1>3. /\ in <= Bound(in) /\ Bound(in) \in Nat
      /\ Bound(Wrapped(n)) \in Nat /\ Bound(Wrapped(n)) <= Bound(in)
  BY <1>2, BoundMono DEF Positive
<1>4. in <= out /\ out \in Nat /\ (cfg.compress => out = Bound(in))
  BY <1>2, <1>3
<1>5. SAVVY_PACKET_HEADER_LEN \in Nat /\ UINT32_MAX \in Nat
  BY Zenon, WidthsAssumption DEF Positive
<1>6. /\ ~(out > UINT32_MAX) /\ ~(out > cfg.size_max - SAVVY_PACKET_HEADER_LEN)
      /\ capacity = SAVVY_PACKET_HEADER_LEN + out
  <2>1. capacity # 0
    BY <1>5
  <2> QED
    BY <2>1, Zenon DEF calculate_encoded_packet_capacity, Wrapped
<1> HIDE DEF in, out
<1> QED
  BY <1>1, <1>2, <1>3, <1>4, <1>5, <1>6

LEMMA CapacityType ==
    ASSUME cfg \in Configs
    PROVE  calculate_encoded_packet_capacity(cfg) \in Nat
<1>0. cfg.max \in Nat
  BY Zenon, WidthsAssumption DEF Configs
<1>1. Wrapped(cfg.max) \in Nat
  BY <1>0, WidthsAssumption DEF Wrapped, Positive
<1>2. Bound(Wrapped(cfg.max)) \in Nat
  BY <1>1, BoundMono DEF Positive
<1> QED
  BY <1>1, <1>2, WidthsAssumption DEF calculate_encoded_packet_capacity, Wrapped, Positive

LEMMA EncoderInitInv == EncoderInit => EncoderIInv
<1> SUFFICES ASSUME EncoderInit PROVE EncoderIInv
  BY Zenon
<1>1. bz \in [in : Nat, left : Nat, cap : Nat, written : Nat, iterations : Nat]
  BY Zenon DEF EncoderInit, NoStream
<1>2. EncoderTypeOK
  BY Zenon, <1>1, CapacityType DEF EncoderInit, EncoderTypeOK
<1> QED
  BY Zenon, <1>2 DEF EncoderInit, EncoderIInv, PayloadFits, HeapBalanced

-----------------------------------------------------------------------------
(* One lemma per step of a call. *)

LEMMA CallStep ==
    ASSUME EncoderIInv, NEW n \in Nat, sensor_stream_session_send_data(n) \/ relay_rknn_result(n)
    PROVE  EncoderIInv'
<1> USE DEF Returns
<1>0. EncoderTypeOK /\ capacity > 0 /\ cfg \in Configs /\ heap = {} /\ cfg.max \in Nat
  BY Zenon, WidthsAssumption
     DEF EncoderIInv, EncoderTypeOK, HeapBalanced, Configs, sensor_stream_session_send_data, relay_rknn_result
<1>1. /\ len' = n /\ body' = n /\ faulted' = FALSE /\ op' \in {"data", "relay"}
      /\ UNCHANGED <<cfg, capacity, bz>> /\ heap' = {}
      /\ \/ n > cfg.max /\ at' = "idle" /\ status' = "OVERFLOW"
         \/ /\ n <= cfg.max /\ status' = "none"
            /\ \/ at' = "wav" /\ cfg.role = "VOICE"
               \/ at' = "bzip" /\ cfg.role # "VOICE" /\ cfg.compress
               \/ at' = "encode" /\ cfg.role # "VOICE"
  BY <1>0 DEF sensor_stream_session_send_data, relay_rknn_result
<1>2. EncoderTypeOK'
  BY Zenon, <1>0, <1>1 DEF EncoderTypeOK
<1>3. capacity' = calculate_encoded_packet_capacity(cfg)'
  BY Zenon, <1>1 DEF EncoderIInv, calculate_encoded_packet_capacity, Bound
<1>4. at' = "encode" => SAVVY_PACKET_HEADER_LEN + body' <= capacity'
  BY Zenon, <1>0, <1>1, Reserved DEF EncoderIInv, Wrapped
<1>5. (at = "bzip" => cfg.compress /\ body = Wrapped(len))'
  BY Zenon, <1>1 DEF Wrapped
<1>6. PayloadFits'
  BY Zenon, <1>0, <1>1 DEF PayloadFits
<1> QED
  BY Zenon, <1>0, <1>1, <1>2, <1>3, <1>4, <1>5, <1>6 DEF EncoderIInv, HeapBalanced

LEMMA WavStep == ASSUME EncoderIInv, sensor_wav_wrap PROVE EncoderIInv'
<1> USE DEF Returns
<1>0. /\ EncoderTypeOK /\ capacity > 0 /\ cfg \in Configs /\ heap = {} /\ cfg.max \in Nat
      /\ at = "wav" /\ cfg.role = "VOICE" /\ len \in Nat /\ len <= cfg.max /\ body = len
      /\ Wrapped(len) = len + SENSOR_WAV_HEADER_LEN /\ SENSOR_WAV_HEADER_LEN \in Nat
      /\ cfg.size_max \in Nat /\ UINT32_MAX \in Nat /\ RIFF_EXTRA \in Nat
      /\ RIFF_EXTRA <= SENSOR_WAV_HEADER_LEN
  BY Zenon, WidthsAssumption DEF EncoderIInv, EncoderTypeOK, Configs, sensor_wav_wrap, Wrapped, Positive
<1>1. /\ Wrapped(len) \in Nat /\ Wrapped(len) <= UINT32_MAX /\ Wrapped(len) <= cfg.size_max
      /\ SAVVY_PACKET_HEADER_LEN + Wrapped(len) <= capacity
  BY Zenon, <1>0, Reserved DEF EncoderIInv
<1>2. body <= UINT32_MAX - RIFF_EXTRA /\ body <= cfg.size_max - SENSOR_WAV_HEADER_LEN
  BY <1>0, <1>1
<1>3. /\ UNCHANGED <<cfg, capacity, op, len, bz>>
      /\ \/ at' = "idle" /\ status' = "OUT_OF_MEMORY" /\ heap' = {} /\ faulted' = TRUE /\ body' = body
         \/ /\ body' = Wrapped(len) /\ heap' = {"wav"} /\ UNCHANGED <<faulted, status>>
            /\ \/ at' = "bzip" /\ cfg.compress
               \/ at' = "encode"
  BY <1>0, <1>2 DEF sensor_wav_wrap
<1>4. EncoderTypeOK'
  BY Zenon, <1>0, <1>1, <1>3 DEF EncoderTypeOK
<1>5. capacity' = calculate_encoded_packet_capacity(cfg)' /\ Wrapped(len)' = Wrapped(len)
  BY Zenon, <1>3 DEF EncoderIInv, calculate_encoded_packet_capacity, Bound, Wrapped
<1>6. PayloadFits'
  BY Zenon, <1>3 DEF PayloadFits
<1> QED
  BY Zenon, <1>0, <1>1, <1>3, <1>4, <1>5, <1>6 DEF EncoderIInv, HeapBalanced

LEMMA BzipBeginStep == ASSUME EncoderIInv, bzip_begins PROVE EncoderIInv'
<1> USE DEF Returns
<1>0. /\ EncoderTypeOK /\ capacity > 0 /\ cfg \in Configs /\ heap \subseteq {"wav"} /\ cfg.compress
      /\ at = "bzip" /\ len \in Nat /\ len <= cfg.max /\ body = Wrapped(len)
      /\ cfg.size_max \in Nat /\ UINT32_MAX \in Nat /\ SAVVY_PACKET_HEADER_LEN \in Nat
  BY Zenon, WidthsAssumption DEF EncoderIInv, EncoderTypeOK, Configs, bzip_begins, Positive
<1>1. /\ body \in Nat /\ body <= UINT32_MAX /\ capacity <= cfg.size_max
      /\ SAVVY_PACKET_HEADER_LEN + Bound(body) <= capacity
  BY Zenon, <1>0, Reserved DEF EncoderIInv
<1>2. Bound(body) \in Nat /\ Bound(body) <= cfg.size_max /\ capacity \in Nat
  BY <1>0, <1>1, BoundMono DEF Positive, EncoderTypeOK
<1>3. Bound(body) % (cfg.size_max + 1) = Bound(body)
  BY <1>0, <1>2
<1>4. UNCHANGED <<cfg, capacity, op, len, body>>
  BY Zenon DEF bzip_begins
<1>5. capacity' = calculate_encoded_packet_capacity(cfg)' /\ Wrapped(len)' = Wrapped(len)
      /\ Bound(body)' = Bound(body)
  BY Zenon, <1>4 DEF EncoderIInv, calculate_encoded_packet_capacity, Bound, Wrapped
<1>6. CASE Returns("OUT_OF_MEMORY", {"wav"}) /\ faulted' = TRUE /\ UNCHANGED bz
  <2>1. EncoderTypeOK'
    BY Zenon, <1>0, <1>4, <1>6 DEF EncoderTypeOK
  <2>2. PayloadFits'
    BY Zenon, <1>6 DEF PayloadFits
  <2>3. HeapBalanced'
    BY Zenon, <1>0, <1>6 DEF HeapBalanced
  <2> QED
    BY Zenon, <1>5, <1>6, <2>1, <2>2, <2>3 DEF EncoderIInv
<1>7. ASSUME NEW z \in 1..Bound(body) + Excess,
             bz' = [in |-> body, left |-> z, cap |-> Bound(body) % (cfg.size_max + 1),
                    written |-> 0, iterations |-> 0],
             faulted' = (z > Bound(body)),
             at' = "bz_loop", heap' = heap \cup {"out"}, UNCHANGED status
      PROVE  EncoderIInv'
  <2>1. z \in Nat /\ z > 0
    BY <1>2, WidthsAssumption
  <2>2. bz' = [in |-> body, left |-> z, cap |-> Bound(body), written |-> 0, iterations |-> 0]
    BY Zenon, <1>3, <1>7
  <2>3. bz' \in [in : Nat, left : Nat, cap : Nat, written : Nat, iterations : Nat]
    BY Zenon, <1>1, <1>2, <2>1, <2>2
  <2>4. faulted' \in BOOLEAN
    BY <1>7
  <2>5. EncoderTypeOK'
    BY Zenon, <1>0, <1>4, <1>7, <2>3, <2>4 DEF EncoderTypeOK
  <2>6. bz'.written <= bz'.cap
    BY <1>2, <2>2
  <2>7. ~faulted' => z <= Bound(body)
    <3>1. ~faulted' => ~(z > Bound(body))
      BY <1>7, Zenon
    <3> QED
      BY <1>2, <2>1, <3>1
  <2>8. ~faulted' => InBound'
    BY <1>2, <1>5, <2>1, <2>2, <2>7 DEF InBound
  <2>9. PayloadFits' /\ HeapBalanced'
    BY Zenon, <1>7 DEF PayloadFits, HeapBalanced
  <2> QED
    BY Zenon, <1>0, <1>4, <1>5, <1>7, <2>5, <2>6, <2>8, <2>9 DEF EncoderIInv
<1>8. ~(body > UINT32_MAX)
  BY <1>0, <1>1
<1> QED
  BY <1>6, <1>7, <1>8, Zenon DEF bzip_begins

(* An error of the compression, after which the call is over. *)
LEMMA BzipFailStep ==
    ASSUME EncoderIInv, at = "bz_loop", NEW st \in {"UNKNOWN", "OUT_OF_MEMORY"}, bzip_fails(st),
           faulted' = TRUE, UNCHANGED <<cfg, capacity, op, len>>
    PROVE  EncoderIInv'
<1>1. NoStream \in [in : Nat, left : Nat, cap : Nat, written : Nat, iterations : Nat]
  BY Zenon DEF NoStream
<1>2. heap \subseteq {"wav", "out"}
  BY Zenon DEF EncoderIInv, EncoderTypeOK
<1>3. at' = "idle" /\ heap' = {} /\ status' = st /\ bz' = NoStream /\ body' = body
  BY Zenon, <1>2 DEF bzip_fails, Returns
<1>4. EncoderTypeOK'
  BY Zenon, <1>1, <1>3 DEF EncoderTypeOK, EncoderIInv
<1>5. capacity' = calculate_encoded_packet_capacity(cfg)'
  BY Zenon DEF EncoderIInv, calculate_encoded_packet_capacity, Bound
<1> QED
  BY Zenon, <1>3, <1>4, <1>5 DEF EncoderIInv, PayloadFits, HeapBalanced

LEMMA BzipTurnStep == ASSUME EncoderIInv, bzip_turn PROVE EncoderIInv'
<1> DEFINE cap == IF bz.written = bz.cap THEN sensor_bzip_ensure_capacity(bz.cap) ELSE bz.cap
           room == Least(cap - bz.written, UINT32_MAX)
<1>0. /\ EncoderTypeOK /\ capacity > 0 /\ capacity \in Nat /\ cfg \in Configs /\ cfg.compress
      /\ at = "bz_loop" /\ len \in Nat /\ len <= cfg.max /\ body = Wrapped(len)
      /\ bz.written <= bz.cap /\ (~faulted => InBound)
      /\ SAVVY_PACKET_HEADER_LEN \in Nat /\ UINT32_MAX \in Nat /\ faulted \in BOOLEAN
  BY Zenon, WidthsAssumption DEF EncoderIInv, EncoderTypeOK, bzip_turn, Positive
<1>1. /\ bz.in \in Nat /\ bz.left \in Nat /\ bz.cap \in Nat /\ bz.written \in Nat
      /\ bz.iterations \in Nat
  BY Zenon, <1>0 DEF EncoderTypeOK
<1>2. cap \in Nat /\ bz.written < cap
  BY <1>0, <1>1, WidthsAssumption DEF sensor_bzip_ensure_capacity, Positive
<1>3. /\ SAVVY_PACKET_HEADER_LEN + Bound(body) <= capacity /\ Bound(body) \in Nat
      /\ capacity <= UINT32_MAX + SAVVY_PACKET_HEADER_LEN
  <2>1. Wrapped(len) \in Nat /\ SAVVY_PACKET_HEADER_LEN + Bound(body) <= capacity
        /\ capacity <= UINT32_MAX + SAVVY_PACKET_HEADER_LEN
    BY Zenon, <1>0, Reserved DEF EncoderIInv
  <2> QED
    BY <1>0, <2>1, BoundMono DEF Positive
<1>4. room \in Nat /\ room <= cap - bz.written /\ room <= UINT32_MAX
  BY <1>0, <1>1, <1>2 DEF Least
<1>5. ~faulted => /\ bz.iterations < 2 /\ cap = bz.cap /\ room = cap - bz.written
                  /\ bz.left <= room /\ bz.left > 0 /\ cap = Bound(body)
  BY <1>0, <1>1, <1>3 DEF Least, InBound
<1>6. UNCHANGED <<cfg, capacity, op, len>>
  BY Zenon DEF bzip_turn
<1>7. capacity' = calculate_encoded_packet_capacity(cfg)' /\ Wrapped(len)' = Wrapped(len)
  BY Zenon, <1>6 DEF EncoderIInv, calculate_encoded_packet_capacity, Bound, Wrapped
<1> HIDE DEF cap, room
<1>8. CASE bz.iterations >= SENSOR_BZIP_MAX_LOOP_ITERATIONS /\ bzip_fails("UNKNOWN") /\ UNCHANGED faulted
  <2>1. faulted' = TRUE
    BY <1>0, <1>1, <1>5, <1>8, WidthsAssumption
  <2> QED
    BY Zenon, <1>0, <1>6, <1>8, <2>1, BzipFailStep
<1>9. CASE bzip_fails("OUT_OF_MEMORY") /\ faulted' = TRUE
  BY Zenon, <1>0, <1>6, <1>9, BzipFailStep
<1>10. CASE bzip_fails("UNKNOWN") /\ faulted' = TRUE
  BY Zenon, <1>0, <1>6, <1>10, BzipFailStep
<1>11. ASSUME NEW p \in 0..Least(room, bz.left), NEW in \in 0..bz.in,
              IF bz.in > 0 THEN p < bz.left /\ (in = 0 \/ p = room) ELSE p = Least(room, bz.left),
              UNCHANGED <<faulted, status>>,
              bz.in = 0 /\ p = bz.left, at' = "encode", body' = bz.written + p,
              heap' = heap \ {"wav"}, bz' = NoStream
       PROVE  EncoderIInv'
  <2>1. p \in Nat
    BY <1>1, <1>4 DEF Least
  <2>2. NoStream \in [in : Nat, left : Nat, cap : Nat, written : Nat, iterations : Nat]
    BY Zenon DEF NoStream
  <2>3. body' \in Nat
    BY <1>1, <1>11, <2>1
  <2>4. EncoderTypeOK'
    BY Zenon, <1>0, <1>6, <1>11, <2>2, <2>3 DEF EncoderTypeOK
  <2>5. ~faulted' => SAVVY_PACKET_HEADER_LEN + body' <= capacity'
    BY <1>0, <1>1, <1>2, <1>3, <1>4, <1>5, <1>6, <1>11, <2>1
  <2> QED
    BY Zenon, <1>0, <1>6, <1>7, <1>11, <2>4, <2>5 DEF EncoderIInv, PayloadFits, HeapBalanced
<1>12. ASSUME NEW p \in 0..Least(room, bz.left), NEW in \in 0..bz.in,
              IF bz.in > 0 THEN p < bz.left /\ (in = 0 \/ p = room) ELSE p = Least(room, bz.left),
              UNCHANGED <<faulted, status>>,
              ~(bz.in = 0 /\ p = bz.left),
              bz' = [in |-> in, left |-> bz.left - p, cap |-> cap,
                     written |-> bz.written + p, iterations |-> bz.iterations + 1],
              UNCHANGED <<at, body, heap>>
       PROVE  EncoderIInv'
  <2>1. p \in Nat /\ p <= room /\ p <= bz.left /\ in \in Nat
    BY <1>1, <1>4 DEF Least
  <2>2. bz' \in [in : Nat, left : Nat, cap : Nat, written : Nat, iterations : Nat]
    BY <1>1, <1>2, <1>12, <2>1
  <2>3. EncoderTypeOK'
    BY Zenon, <1>0, <1>6, <1>12, <2>2 DEF EncoderTypeOK
  <2>4. bz'.written <= bz'.cap
    BY <1>1, <1>2, <1>4, <1>12, <2>1
  <2>5. ~faulted' => InBound'
    <3> SUFFICES ASSUME ~faulted PROVE InBound'
      BY Zenon, <1>12
    <3>1. Bound(body)' = Bound(body)
      BY Zenon, <1>12 DEF Bound
    <3>2. bz.in > 0 /\ p < bz.left /\ in = 0
      BY <1>1, <1>4, <1>5, <1>12, <2>1 DEF Least
    <3>3. bz.iterations = 0
      BY <1>0, <1>1, <3>2 DEF InBound
    <3>4. bz.written + bz.left <= bz.cap
      BY Zenon, <1>0 DEF InBound
    <3> QED
      BY <1>1, <1>5, <1>12, <2>1, <3>1, <3>2, <3>3, <3>4 DEF InBound
  <2> QED
    BY Zenon, <1>0, <1>6, <1>7, <1>12, <2>3, <2>4, <2>5 DEF EncoderIInv, PayloadFits, HeapBalanced
<1> QED
  BY <1>8, <1>9, <1>10, <1>11, <1>12, Zenon DEF bzip_turn, cap, room

LEMMA PacketStep == ASSUME EncoderIInv, savvy_packet_encode PROVE EncoderIInv'
<1> USE DEF Returns
<1>0. /\ EncoderTypeOK /\ capacity > 0 /\ capacity \in Nat /\ cfg \in Configs /\ body \in Nat
      /\ at = "encode" /\ len \in Nat /\ len <= cfg.max /\ heap \subseteq {"wav", "out"}
      /\ cfg.size_max \in Nat /\ cfg.max \in Nat
      /\ SAVVY_PACKET_HEADER_LEN \in Nat /\ UINT32_MAX \in Nat /\ faulted \in BOOLEAN
      /\ (~faulted => SAVVY_PACKET_HEADER_LEN + body <= capacity)
  BY Zenon, WidthsAssumption DEF EncoderIInv, EncoderTypeOK, Configs, savvy_packet_encode, Positive
<1>1. capacity <= cfg.size_max /\ capacity <= UINT32_MAX + SAVVY_PACKET_HEADER_LEN
  BY Zenon, <1>0, Reserved DEF EncoderIInv
<1>2. /\ UNCHANGED <<cfg, capacity, op, len, body, bz, faulted>> /\ heap' = {}
      /\ \/ at' = "idle" /\ status' = "OVERFLOW" /\ faulted
         \/ at' = "submit" /\ status' = status /\ SAVVY_PACKET_HEADER_LEN + body <= capacity
  <2>1. heap \ {"wav", "out"} = {}
    BY Zenon, <1>0
  <2>2. ~faulted => /\ ~(body > UINT32_MAX) /\ ~(body > cfg.size_max - SAVVY_PACKET_HEADER_LEN)
                    /\ ~(capacity < SAVVY_PACKET_HEADER_LEN + body)
    BY <1>0, <1>1
  <2>3. ~(capacity < SAVVY_PACKET_HEADER_LEN + body) => SAVVY_PACKET_HEADER_LEN + body <= capacity
    BY <1>0
  <2> QED
    BY <2>1, <2>2, <2>3, Zenon DEF savvy_packet_encode
<1>3. EncoderTypeOK'
  BY Zenon, <1>0, <1>2 DEF EncoderTypeOK
<1>4. capacity' = calculate_encoded_packet_capacity(cfg)'
  BY Zenon, <1>2 DEF EncoderIInv, calculate_encoded_packet_capacity, Bound
<1>5. PayloadFits'
  BY Zenon, <1>2 DEF PayloadFits
<1> QED
  BY Zenon, <1>0, <1>2, <1>3, <1>4, <1>5 DEF EncoderIInv, HeapBalanced

LEMMA SubmitStep ==
    ASSUME EncoderIInv, NEW st \in {"OK", "REJECTED", "OUT_OF_MEMORY"}, session_submits(st)
    PROVE  EncoderIInv'
<1>0. /\ EncoderTypeOK /\ at = "submit" /\ heap = {} /\ len \in Nat /\ len <= cfg.max /\ cfg.max \in Nat
  BY Zenon, WidthsAssumption DEF EncoderIInv, EncoderTypeOK, Configs, HeapBalanced, session_submits
<1>1. /\ at' = "idle" /\ status' = st /\ heap' = {} /\ body' = 0
      /\ UNCHANGED <<cfg, capacity, op, len, bz, faulted>>
  BY Zenon, <1>0 DEF session_submits, Returns
<1>2. EncoderTypeOK'
  BY Zenon, <1>0, <1>1 DEF EncoderTypeOK
<1>3. capacity' = calculate_encoded_packet_capacity(cfg)'
  BY Zenon, <1>1 DEF EncoderIInv, calculate_encoded_packet_capacity, Bound
<1>4. PayloadFits'
  BY <1>0, <1>1 DEF PayloadFits
<1> QED
  BY Zenon, <1>1, <1>2, <1>3, <1>4 DEF EncoderIInv, HeapBalanced

LEMMA EncoderNextInv == EncoderIInv /\ [EncoderNext]_evars => EncoderIInv'
<1> SUFFICES ASSUME EncoderIInv, [EncoderNext]_evars PROVE EncoderIInv'
  BY Zenon
<1>1. ASSUME NEW n \in 0..cfg.max + 1, sensor_stream_session_send_data(n) \/ relay_rknn_result(n)
      PROVE  EncoderIInv'
  <2>1. cfg.max \in Nat
    BY Zenon, WidthsAssumption DEF EncoderIInv, EncoderTypeOK, Configs
  <2>2. n \in Nat
    BY <2>1
  <2> QED
    BY Zenon, <1>1, <2>2, CallStep
<1>2. CASE Encodes
  BY Zenon, <1>2, WavStep, BzipBeginStep, BzipTurnStep, PacketStep DEF Encodes
<1>3. ASSUME NEW st \in {"OK", "REJECTED", "OUT_OF_MEMORY"}, session_submits(st) PROVE EncoderIInv'
  BY Zenon, <1>3, SubmitStep
<1>4. CASE UNCHANGED evars
  <2>1. UNCHANGED <<cfg, capacity, at, op, len, body, bz, heap, faulted, status>>
    BY Zenon, <1>4 DEF evars
  <2>2. EncoderTypeOK' /\ PayloadFits' /\ HeapBalanced'
    BY <2>1 DEF EncoderIInv, EncoderTypeOK, PayloadFits, HeapBalanced
  <2>3. (capacity = calculate_encoded_packet_capacity(cfg))'
    BY Zenon, <2>1 DEF EncoderIInv, calculate_encoded_packet_capacity, Bound, Wrapped
  <2>4. InBound' = InBound /\ Wrapped(len)' = Wrapped(len)
    BY Zenon, <2>1 DEF InBound, Bound, Wrapped
  <2> QED
    BY Zenon, <2>1, <2>2, <2>3, <2>4 DEF EncoderIInv
<1> QED
  BY Zenon, <1>1, <1>2, <1>3, <1>4 DEF EncoderNext

-----------------------------------------------------------------------------
(* Whatever the widths and the configuration: once a session has been      *)
(* created, send_data and the relay refuse exactly the payloads above      *)
(* max_payload_size (a fault of malloc or libbz2 apart), and no packet     *)
(* handed to the channel is longer than encode_buf.                        *)
THEOREM AcceptedPayloadsFit == EncoderSpec => []PayloadFits
<1>1. EncoderIInv => PayloadFits
  BY DEF EncoderIInv
<1> QED
  BY EncoderInitInv, EncoderNextInv, <1>1, PTL DEF EncoderSpec

(* On every path of send_data, the failing ones included, the WAV buffer   *)
(* and the compressed one are freed by the time it returns.                *)
THEOREM NoBufferLeaks == EncoderSpec => []HeapBalanced
<1>1. EncoderIInv => HeapBalanced
  BY DEF EncoderIInv
<1> QED
  BY EncoderInitInv, EncoderNextInv, <1>1, PTL DEF EncoderSpec

-----------------------------------------------------------------------------
Packets == [tag : Bytes, data : Seq(Bytes), length : 0..UINT32_MAX, crc : Bytes]

(* What the parser holds lies in its buffer. *)
Parsers == {p \in [buf : Seq(Bytes), head : Nat, tail : Nat] : p.head <= p.tail /\ p.tail <= Len(p.buf)}

(* A concatenation, place by place. *)
LEMMA Concat ==
    ASSUME NEW s \in Seq(Bytes), NEW t \in Seq(Bytes)
    PROVE  /\ s \o t \in Seq(Bytes) /\ Len(s \o t) = Len(s) + Len(t)
           /\ Len(s) \in Nat /\ Len(t) \in Nat
           /\ \A k \in 1..Len(s) : (s \o t)[k] = s[k]
           /\ \A k \in 1..Len(t) : (s \o t)[Len(s) + k] = t[k]
OBVIOUS

(* Sequences of one length with the same elements are the same. *)
LEMMA SameBytes ==
    ASSUME NEW s \in Seq(Bytes), NEW t \in Seq(Bytes), Len(s) = Len(t),
           \A k \in 1..Len(s) : s[k] = t[k]
    PROVE  s = t
OBVIOUS

(* The two digits of a length are bytes, and give the length back. *)
LEMMA Digits ==
    ASSUME NEW l \in 0..UINT32_MAX, NEW d, NEW m, d = l \div Radix, m = l % Radix
    PROVE  d \in Bytes /\ m \in Bytes /\ d * Radix + m = l
<1>1. Radix \in Nat /\ Radix > 1 /\ l \in Nat /\ l < Radix * Radix
  <2>1. Radix \in Nat /\ Radix > 1 /\ UINT32_MAX = Radix * Radix - 1
    BY RadixAssumption, LayoutAssumption
  <2>2. Radix * Radix \in Nat
    BY <2>1
  <2> QED
    BY <2>1, <2>2
<1>2. d \in Int /\ m = l - d * Radix /\ Radix * d <= l /\ l < Radix * d + Radix
  BY <1>1, Z3
<1>3. d * Radix = Radix * d
  BY <1>1, <1>2
<1>4. 0 <= d /\ d < Radix
  BY <1>1, <1>2, Z3
<1> DEFINE x == d * Radix
<1>5. x \in Int /\ m = l - x /\ x <= l /\ l < x + Radix
  BY <1>1, <1>2, <1>3
<1> HIDE DEF x
<1>6. m \in 0..Radix - 1 /\ x + m = l
  BY <1>1, <1>5
<1>7. d \in 0..Radix - 1
  BY <1>1, <1>2, <1>4
<1> QED
  BY Zenon, <1>6, <1>7 DEF Bytes, x

(* A checksum is a byte. *)
LEMMA ChecksumType ==
    ASSUME NEW data \in Seq(Bytes)
    PROVE  savvy_crc32(data) \in Bytes
<1> DEFINE U == {u \in (1..Len(data)) \X Bytes : u[2] < data[u[1]]}
<1>1. Radix \in Nat /\ Radix > 1 /\ Len(data) \in Nat
  BY RadixAssumption
<1>2. IsFiniteSet(1..Len(data)) /\ IsFiniteSet(Bytes)
  BY <1>1, FS_Interval DEF Bytes
<1>3. IsFiniteSet((1..Len(data)) \X Bytes)
  BY Zenon, <1>2, FS_Product
<1>4. IsFiniteSet(U)
  BY Zenon, <1>3, FS_Subset
<1>5. Cardinality(U) \in Nat
  BY Zenon, <1>4, FS_CardinalityType
<1> HIDE DEF U
<1>6. (1 + Cardinality(U)) % Radix \in 0..Radix - 1
  BY <1>1, <1>5
<1> QED
  BY Zenon, <1>6 DEF U, savvy_crc32, Bytes

(* The bytes of a packet, place by place. *)
LEMMA EncodedForm ==
    ASSUME NEW q \in Packets
    PROVE  /\ PacketBytes(q) \in Seq(Bytes) /\ Len(PacketBytes(q)) = HEADER_LEN + Len(q.data)
           /\ PacketBytes(q)[1] = q.tag /\ PacketBytes(q)[4] = q.crc
           /\ PacketBytes(q)[2] * Radix + PacketBytes(q)[3] = q.length
           /\ \A k \in 1..Len(q.data) : PacketBytes(q)[HEADER_LEN + k] = q.data[k]
<1>1. q.tag \in Bytes /\ q.data \in Seq(Bytes) /\ q.length \in 0..UINT32_MAX /\ q.crc \in Bytes
  BY Zenon DEF Packets
<1>2. PICK d, m : d = q.length \div Radix /\ m = q.length % Radix
  BY Zenon
<1>8. d \in Bytes /\ m \in Bytes /\ d * Radix + m = q.length
  BY Zenon, <1>1, <1>2, Digits
<1> DEFINE h == <<q.tag, d, m, q.crc>>
<1>3. h \in Seq(Bytes) /\ Len(h) = 4 /\ h[1] = q.tag /\ h[2] = d /\ h[3] = m /\ h[4] = q.crc
  BY <1>1, <1>8
<1>4. PacketBytes(q) = h \o q.data
  BY Zenon, <1>2 DEF PacketBytes, Encoded
<1> HIDE DEF h
<1>5. /\ PacketBytes(q) \in Seq(Bytes) /\ Len(PacketBytes(q)) = 4 + Len(q.data)
      /\ \A k \in 1..4 : PacketBytes(q)[k] = h[k]
      /\ \A k \in 1..Len(q.data) : PacketBytes(q)[4 + k] = q.data[k]
  <2>1. \A k \in 1..Len(q.data) : (h \o q.data)[Len(h) + k] = q.data[k]
    BY Zenon, <1>1, <1>3, Concat
  <2>2. /\ h \o q.data \in Seq(Bytes) /\ Len(h \o q.data) = Len(h) + Len(q.data)
        /\ \A k \in 1..Len(h) : (h \o q.data)[k] = h[k]
    BY Zenon, <1>1, <1>3, Concat
  <2> QED
    BY Zenon, <2>1, <2>2, <1>3, <1>4
<1>6. /\ PacketBytes(q)[1] = h[1] /\ PacketBytes(q)[2] = h[2]
      /\ PacketBytes(q)[3] = h[3] /\ PacketBytes(q)[4] = h[4]
  BY <1>5
<1>7. PacketBytes(q)[2] * Radix + PacketBytes(q)[3] = q.length
  BY Zenon, <1>3, <1>6, <1>8
<1> QED
  BY Zenon, <1>3, <1>5, <1>6, <1>7 DEF HEADER_LEN

-----------------------------------------------------------------------------
(* What lies between head and tail, place by place. *)
LEMMA UnconsumedForm ==
    ASSUME NEW p \in Parsers
    PROVE  /\ Unconsumed(p) \in Seq(Bytes) /\ Len(Unconsumed(p)) = p.tail - p.head
           /\ \A k \in 1..(p.tail - p.head) : Unconsumed(p)[k] = p.buf[p.head + k]
<1>1. p.buf \in Seq(Bytes) /\ p.head \in Nat /\ p.tail \in Nat /\ p.head <= p.tail /\ p.tail <= Len(p.buf)
  BY Zenon DEF Parsers
<1> DEFINE a == p.head
           b == p.tail
           s == p.buf
<1> HIDE DEF a, b, s
<1>2. s \in Seq(Bytes) /\ a \in Nat /\ b \in Nat /\ a <= b /\ b <= Len(s)
  BY Zenon, <1>1 DEF a, b, s
<1>3. SubSeq(s, a + 1, b) \in Seq(Bytes) /\ Len(SubSeq(s, a + 1, b)) = b - a
  BY <1>2
<1>4. \A k \in 1..(b - a) : SubSeq(s, a + 1, b)[k] = s[a + k]
  BY <1>2
<1> QED
  BY Zenon, <1>3, <1>4 DEF Unconsumed, a, b, s

(* The move to the front keeps what was not consumed. *)
LEMMA CompactedKeeps ==
    ASSUME NEW p \in Parsers
    PROVE  /\ Compacted(p) \in Parsers /\ Len(Compacted(p).buf) = Len(p.buf)
           /\ Compacted(p).tail = p.tail - p.head
           /\ Unconsumed(Compacted(p)) = Unconsumed(p)
<1>1. p.buf \in Seq(Bytes) /\ p.head \in Nat /\ p.tail \in Nat /\ p.head <= p.tail /\ p.tail <= Len(p.buf)
      /\ Len(p.buf) \in Nat /\ DOMAIN p.buf = 1..Len(p.buf)
  BY DEF Parsers
<1> DEFINE used == p.tail - p.head
           b == [i \in DOMAIN p.buf |-> IF i <= used THEN p.buf[p.head + i] ELSE p.buf[i]]
<1>2. Compacted(p) = [buf |-> b, head |-> 0, tail |-> used]
  BY Zenon DEF Compacted
<1>3. used \in Nat /\ used <= Len(p.buf)
  BY <1>1
<1>4. \A i \in 1..Len(p.buf) : b[i] \in Bytes
  BY <1>1, <1>3
<1>5. b \in Seq(Bytes) /\ Len(b) = Len(p.buf)
  BY <1>1, <1>4
<1>6. \A i \in 1..used : b[i] = p.buf[p.head + i]
  BY <1>1, <1>3
<1> HIDE DEF b, used
<1>7. /\ Compacted(p).buf = b /\ Compacted(p).head = 0 /\ Compacted(p).tail = used
      /\ Compacted(p) \in [buf : Seq(Bytes), head : Nat, tail : Nat]
  BY <1>2, <1>3, <1>5
<1>8. Compacted(p) \in Parsers
  BY <1>3, <1>5, <1>7 DEF Parsers
<1>9. /\ Unconsumed(p) \in Seq(Bytes) /\ Len(Unconsumed(p)) = used
      /\ \A k \in 1..used : Unconsumed(p)[k] = p.buf[p.head + k]
  BY Zenon, UnconsumedForm DEF used
<1>10. /\ Unconsumed(Compacted(p)) \in Seq(Bytes) /\ Len(Unconsumed(Compacted(p))) = used
       /\ \A k \in 1..used : Unconsumed(Compacted(p))[k] = b[k]
  BY <1>3, <1>7, <1>8, UnconsumedForm
<1>11. Unconsumed(Compacted(p)) = Unconsumed(p)
  BY <1>3, <1>6, <1>9, <1>10
<1> QED
  BY Zenon, <1>5, <1>7, <1>8, <1>11 DEF used

(* Bytes that fit are stored behind what was not consumed. *)
LEMMA StoredAppends ==
    ASSUME NEW p \in Parsers, NEW bytes \in Seq(Bytes), Fits(p, bytes)
    PROVE  /\ Stored(p, bytes) \in Parsers /\ Len(Stored(p, bytes).buf) = Len(p.buf)
           /\ Unconsumed(Stored(p, bytes)) = Unconsumed(p) \o bytes
<1>1. /\ p.buf \in Seq(Bytes) /\ p.head \in Nat /\ p.tail \in Nat /\ p.head <= p.tail /\ p.tail <= Len(p.buf)
      /\ Len(p.buf) \in Nat /\ DOMAIN p.buf = 1..Len(p.buf) /\ Len(bytes) \in Nat
      /\ p \in [buf : Seq(Bytes), head : Nat, tail : Nat]
  BY DEF Parsers
<1> DEFINE b == [i \in DOMAIN p.buf |-> IF i \in p.tail + 1..p.tail + Len(bytes)
                                        THEN bytes[i - p.tail] ELSE p.buf[i]]
           t == p.tail + Len(bytes)
           s == Stored(p, bytes)
<1>2. t <= Len(p.buf) /\ t \in Nat
  BY <1>1 DEF Fits
<1>3. s = [p EXCEPT !.buf = b, !.tail = t]
  BY Zenon DEF Stored
<1>4. \A i \in 1..Len(p.buf) : b[i] \in Bytes
  <2> SUFFICES ASSUME NEW i \in 1..Len(p.buf) PROVE b[i] \in Bytes
    BY Zenon
  <2>1. CASE i \in p.tail + 1..p.tail + Len(bytes)
    <3>1. i - p.tail \in 1..Len(bytes)
      BY <1>1, <2>1
    <3> QED
      BY <1>1, <2>1, <3>1
  <2>2. CASE i \notin p.tail + 1..p.tail + Len(bytes)
    BY <1>1, <2>2
  <2> QED
    BY Zenon, <2>1, <2>2
<1>5. b \in Seq(Bytes) /\ Len(b) = Len(p.buf)
  BY <1>1, <1>4
<1>6. /\ \A i \in 1..p.tail : b[i] = p.buf[i]
      /\ \A k \in 1..Len(bytes) : b[p.tail + k] = bytes[k]
  <2>1. \A i \in 1..p.tail : i \in DOMAIN p.buf /\ i \notin p.tail + 1..p.tail + Len(bytes)
    BY <1>1
  <2>3. \A i \in DOMAIN p.buf : i \in p.tail + 1..p.tail + Len(bytes) => b[i] = bytes[i - p.tail]
    BY Zenon
  <2> HIDE DEF b
  <2>4. ASSUME NEW k \in 1..Len(bytes) PROVE b[p.tail + k] = bytes[k]
    <3>1. PICK i : i = p.tail + k
      BY Zenon
    <3>2. i \in DOMAIN p.buf /\ i \in p.tail + 1..p.tail + Len(bytes) /\ i - p.tail = k
      BY <1>1, <1>2, <3>1
    <3>3. b[i] = bytes[i - p.tail]
      BY Zenon, <2>3, <3>2
    <3> QED
      BY Zenon, <3>1, <3>2, <3>3
  <2>5. \A i \in 1..p.tail : b[i] = p.buf[i]
    BY Zenon, <2>1 DEF b
  <2> QED
    BY Zenon, <2>4, <2>5
<1> HIDE DEF b, t, s
<1>7. s.buf = b /\ s.head = p.head /\ s.tail = t /\ s \in [buf : Seq(Bytes), head : Nat, tail : Nat]
  BY Zenon, <1>1, <1>2, <1>3, <1>5
<1>8. s \in Parsers
  BY <1>1, <1>2, <1>5, <1>7 DEF Parsers, t
<1> DEFINE in == Unconsumed(p)
           out == Unconsumed(s)
<1>9. /\ in \in Seq(Bytes) /\ Len(in) = p.tail - p.head
      /\ \A k \in 1..(p.tail - p.head) : in[k] = p.buf[p.head + k]
  BY Zenon, UnconsumedForm
<1>10. /\ out \in Seq(Bytes) /\ Len(out) = t - p.head
       /\ \A k \in 1..(t - p.head) : out[k] = b[p.head + k]
  BY Zenon, <1>7, <1>8, UnconsumedForm
<1> HIDE DEF in, out
<1>11. Len(out) = Len(in) + Len(bytes)
  BY <1>1, <1>9, <1>10 DEF t
<1>12. \A k \in 1..Len(in) : out[k] = in[k]
  <2> SUFFICES ASSUME NEW k \in 1..Len(in) PROVE out[k] = in[k]
    BY Zenon
  <2>1. k \in 1..(p.tail - p.head) /\ k \in 1..(t - p.head) /\ p.head + k \in 1..p.tail
    BY <1>1, <1>9 DEF t
  <2> QED
    BY Zenon, <1>6, <1>9, <1>10, <2>1
<1>13. \A k \in 1..Len(bytes) : out[Len(in) + k] = bytes[k]
  <2> SUFFICES ASSUME NEW k \in 1..Len(bytes) PROVE out[Len(in) + k] = bytes[k]
    BY Zenon
  <2>1. Len(in) + k \in 1..(t - p.head) /\ p.head + (Len(in) + k) = p.tail + k
    BY <1>1, <1>9 DEF t
  <2> QED
    BY Zenon, <1>6, <1>10, <2>1
<1>14. out = in \o bytes
  <2>1. /\ in \o bytes \in Seq(Bytes) /\ Len(in \o bytes) = Len(in) + Len(bytes)
        /\ Len(in) \in Nat /\ Len(bytes) \in Nat
        /\ \A k \in 1..Len(in) : (in \o bytes)[k] = in[k]
        /\ \A k \in 1..Len(bytes) : (in \o bytes)[Len(in) + k] = bytes[k]
    BY Zenon, <1>9, Concat
  <2>2. ASSUME NEW k \in 1..Len(out) PROVE out[k] = (in \o bytes)[k]
    <3>1. CASE k \in 1..Len(in)
      BY Zenon, <3>1, <2>1, <1>12
    <3>2. CASE k \notin 1..Len(in)
      <4>1. k - Len(in) \in 1..Len(bytes) /\ Len(in) + (k - Len(in)) = k
        BY <3>2, <2>1, <1>11
      <4> QED
        BY <4>1, <2>1, <1>13
    <3> QED
      BY ZenonT(30), <3>1, <3>2
  <2> QED
    BY Zenon, <2>1, <2>2, <1>10, <1>11, SameBytes
<1> QED
  BY Zenon, <1>5, <1>7, <1>8, <1>14 DEF in, out, s

(* savvy_stream_parser_push: the bytes come behind those that are there, or *)
(* there is no room for all of them, wherever in the buffer the others lie. *)
LEMMA PushAppends ==
    ASSUME NEW p \in Parsers, NEW bytes \in Seq(Bytes), NEW r, r = savvy_stream_parser_push(p, bytes)
    PROVE  /\ r.p \in Parsers /\ Len(r.p.buf) = Len(p.buf) /\ r.ok \in BOOLEAN
           /\ r.ok => Unconsumed(r.p) = Unconsumed(p) \o bytes
           /\ ~r.ok => p.tail - p.head + Len(bytes) > Len(p.buf)
<1>1. Compacted(p) \in Parsers /\ Len(Compacted(p).buf) = Len(p.buf)
      /\ Unconsumed(Compacted(p)) = Unconsumed(p) /\ Compacted(p).tail = p.tail - p.head
  BY Zenon, CompactedKeeps
<1>2. PICK q : q = IF Fits(p, bytes) THEN p ELSE Compacted(p)
  BY Zenon
<1>3. q \in Parsers /\ Len(q.buf) = Len(p.buf) /\ Unconsumed(q) = Unconsumed(p)
      /\ (~Fits(q, bytes) => q = Compacted(p))
  BY Zenon, <1>1, <1>2
<1>4. r = IF Fits(q, bytes) THEN [ok |-> TRUE, p |-> Stored(q, bytes)] ELSE [ok |-> FALSE, p |-> q]
  BY Zenon, <1>2 DEF savvy_stream_parser_push
<1>5. CASE Fits(q, bytes)
  <2>1. r.ok = TRUE /\ r.p = Stored(q, bytes)
    BY <1>4, <1>5
  <2>2. /\ Stored(q, bytes) \in Parsers /\ Len(Stored(q, bytes).buf) = Len(q.buf)
        /\ Unconsumed(Stored(q, bytes)) = Unconsumed(q) \o bytes
    BY Zenon, <1>3, <1>5, StoredAppends
  <2> QED
    BY <1>3, <2>1, <2>2, Zenon
<1>6. CASE ~Fits(q, bytes)
  <2>1. r.ok = FALSE /\ r.p = q
    BY <1>4, <1>6
  <2>2. ~(Len(p.buf) - (p.tail - p.head) >= Len(bytes))
    BY Zenon, <1>1, <1>3, <1>6 DEF Fits
  <2>3. p.tail \in Nat /\ p.head \in Nat /\ Len(p.buf) \in Nat /\ Len(bytes) \in Nat
    BY DEF Parsers
  <2>4. p.tail - p.head + Len(bytes) > Len(p.buf)
    BY <2>2, <2>3
  <2> QED
    BY Zenon, <1>3, <2>1, <2>4
<1> QED
  BY Zenon, <1>5, <1>6

(* The length that a header announces. *)
Announced(in) == in[2] * Radix + in[3]

(* savvy_stream_parser_try_extract: what its three results say.  A packet  *)
(* is ready only if the sum of header and length did not wrap.             *)
LEMMA ExtractForm ==
    ASSUME NEW p \in Parsers, NEW m \in Nat, NEW r, r = savvy_stream_parser_try_extract(p, m),
           NEW in, in = Unconsumed(p)
    PROVE  /\ r.result \in {"NEED_MORE_DATA", "ERROR", "PACKET_READY"}
           /\ r.result # "PACKET_READY" => r.p = p
           /\ r.result = "NEED_MORE_DATA" => Len(in) < HEADER_LEN \/ Len(in) < HEADER_LEN + Announced(in)
           /\ r.result = "ERROR" =>
                 /\ Len(in) >= HEADER_LEN
                 /\ HEADER_LEN + Announced(in) > Len(p.buf) \/ HEADER_LEN + Announced(in) > m
           /\ r.result = "PACKET_READY" =>
                 /\ Len(in) >= HEADER_LEN /\ Len(in) >= HEADER_LEN + Announced(in)
                 /\ r.p = [p EXCEPT !.head = @ + (HEADER_LEN + Announced(in))]
                 /\ r.tag = in[1] /\ r.crc = in[4]
                 /\ r.data = SubSeq(in, HEADER_LEN + 1, HEADER_LEN + Announced(in))
<1>1. in \in Seq(Bytes) /\ Len(in) \in Nat /\ Len(p.buf) \in Nat
  BY UnconsumedForm DEF Parsers
<1>2. PICK length, total : length = Announced(in) /\ total = (HEADER_LEN + length) % (m + 1)
  BY Zenon
<1>3. r = IF Len(in) < HEADER_LEN THEN [result |-> "NEED_MORE_DATA", p |-> p]
          ELSE IF total > Len(p.buf) THEN [result |-> "ERROR", p |-> p]
          ELSE IF ~(Len(in) >= total) THEN [result |-> "NEED_MORE_DATA", p |-> p]
          ELSE IF total < HEADER_LEN \/ length > total - HEADER_LEN THEN [result |-> "ERROR", p |-> p]
          ELSE [result |-> "PACKET_READY", p |-> [p EXCEPT !.head = @ + total],
                tag |-> in[1], crc |-> in[4], data |-> SubSeq(in, HEADER_LEN + 1, total)]
  BY <1>2, Zenon DEF savvy_stream_parser_try_extract, Announced, Complete, Consumed
<1>4. CASE Len(in) < HEADER_LEN
  BY <1>3, <1>4
<1>5. CASE ~(Len(in) < HEADER_LEN)
  <2>1. length \in Nat
    <3>1. in[2] \in Bytes /\ in[3] \in Bytes
      BY <1>1, <1>5 DEF HEADER_LEN
    <3>2. Radix \in Nat /\ in[2] \in Nat /\ in[3] \in Nat
      BY <3>1, RadixAssumption DEF Bytes
    <3>3. in[2] * Radix \in Nat
      BY <3>2
    <3> QED
      BY <1>2, <3>2, <3>3 DEF Announced
  <2>2. /\ total \in Nat /\ total <= HEADER_LEN + length
        /\ HEADER_LEN + length <= m => total = HEADER_LEN + length
    <3>1. HEADER_LEN + length \in Nat /\ m + 1 \in Nat /\ m + 1 > 0
      BY <2>1 DEF HEADER_LEN
    <3> QED
      BY <3>1, <1>2, Z3
  <2>3. HEADER_LEN \in Nat
    BY Zenon DEF HEADER_LEN
  <2>4. CASE total > Len(p.buf)
    <3>1. r = [result |-> "ERROR", p |-> p]
      BY Zenon, <1>3, <1>5, <2>4
    <3>2. HEADER_LEN + length > Len(p.buf)
      BY <1>1, <2>1, <2>2, <2>3, <2>4
    <3> QED
      BY <1>1, <1>2, <1>5, <2>3, <3>1, <3>2
  <2>5. CASE ~(total > Len(p.buf)) /\ ~(Len(in) >= total)
    <3>1. r = [result |-> "NEED_MORE_DATA", p |-> p]
      BY Zenon, <1>3, <1>5, <2>5
    <3>2. Len(in) < HEADER_LEN + length
      BY <1>1, <2>1, <2>2, <2>3, <2>5
    <3> QED
      BY <1>2, <3>1, <3>2
  <2>6. CASE /\ ~(total > Len(p.buf)) /\ Len(in) >= total
             /\ total < HEADER_LEN \/ length > total - HEADER_LEN
    <3>1. r = [result |-> "ERROR", p |-> p]
      BY Zenon, <1>3, <1>5, <2>6
    <3>2. HEADER_LEN + length > m
      BY <2>1, <2>2, <2>3, <2>6
    <3> QED
      BY <1>1, <1>2, <1>5, <2>3, <3>1, <3>2
  <2>7. CASE /\ ~(total > Len(p.buf)) /\ Len(in) >= total
             /\ ~(total < HEADER_LEN \/ length > total - HEADER_LEN)
    <3>1. r = [result |-> "PACKET_READY", p |-> [p EXCEPT !.head = @ + total],
               tag |-> in[1], crc |-> in[4], data |-> SubSeq(in, HEADER_LEN + 1, total)]
      BY Zenon, <1>3, <1>5, <2>7
    <3>2. total = HEADER_LEN + length
      BY <2>1, <2>2, <2>3, <2>7
    <3>3. Len(in) >= HEADER_LEN
      BY <1>1, <1>5, <2>3
    <3>4. /\ r.result = "PACKET_READY" /\ r.p = [p EXCEPT !.head = @ + total]
          /\ r.tag = in[1] /\ r.crc = in[4] /\ r.data = SubSeq(in, HEADER_LEN + 1, total)
      <4>1. PICK q, t, c, d : /\ q = [p EXCEPT !.head = @ + total] /\ t = in[1] /\ c = in[4]
                              /\ d = SubSeq(in, HEADER_LEN + 1, total)
        BY ZenonT(30)
      <4>2. r = [result |-> "PACKET_READY", p |-> q, tag |-> t, crc |-> c, data |-> d]
        BY <3>1, <4>1, Zenon
      <4>3. r.result = "PACKET_READY" /\ r.p = q /\ r.tag = t /\ r.crc = c /\ r.data = d
        BY <4>2
      <4> QED
        BY <4>1, <4>3, Zenon
    <3>5. total = HEADER_LEN + Announced(in)
      BY Zenon, <1>2, <3>2
    <3> QED
      BY Zenon, <2>7, <3>3, <3>4, <3>5
  <2> QED
    BY Zenon, <2>4, <2>5, <2>6, <2>7
<1> QED
  BY Zenon, <1>4, <1>5

-----------------------------------------------------------------------------
(* What a packet takes on the wire. *)
Width(q) == HEADER_LEN + Len(q.data)

(* The stream st holds the packets of pk after the first `from', one after *)
(* the other, the last of them possibly in part: packet i ends at off[i].  *)
Framed(st, from, pk, off) ==
    /\ off \in [from..Len(pk) -> Nat] /\ off[from] = 0
    /\ \A i \in from + 1..Len(pk) : off[i] = off[i - 1] + Width(pk[i])
    /\ \A i, j \in from..Len(pk) : i <= j => off[i] <= off[j]
    /\ Len(st) <= off[Len(pk)]
    /\ \A i \in from + 1..Len(pk) : \A k \in 1..Width(pk[i]) :
          off[i - 1] + k <= Len(st) => st[off[i - 1] + k] = PacketBytes(pk[i])[k]

LEMMA WidthType == ASSUME NEW q \in Packets PROVE Width(q) \in Nat /\ Width(q) >= HEADER_LEN
BY DEF Width, Packets, HEADER_LEN

(* The stream begins with the first packet it holds. *)
LEMMA FramedHead ==
    ASSUME NEW pk \in Seq(Packets), NEW from \in 0..Len(pk), NEW st \in Seq(Bytes), NEW off,
           Framed(st, from, pk, off)
    PROVE  /\ from = Len(pk) => Len(st) = 0
           /\ from < Len(pk) =>
                 /\ off[from + 1] = Width(pk[from + 1]) /\ off[from + 1] <= off[Len(pk)]
                 /\ \A k \in 1..Width(pk[from + 1]) : k <= Len(st) => st[k] = PacketBytes(pk[from + 1])[k]
<1>1. Len(pk) \in Nat /\ Len(st) \in Nat /\ from \in Nat
  OBVIOUS
<1>2. from = Len(pk) => Len(st) = 0
  BY <1>1 DEF Framed
<1>3. ASSUME from < Len(pk)
      PROVE  /\ off[from + 1] = Width(pk[from + 1]) /\ off[from + 1] <= off[Len(pk)]
             /\ \A k \in 1..Width(pk[from + 1]) : k <= Len(st) => st[k] = PacketBytes(pk[from + 1])[k]
  <2>1. from + 1 \in from + 1..Len(pk) /\ from + 1 - 1 = from /\ pk[from + 1] \in Packets
    BY <1>1, <1>3
  <2>2. off[from] = 0 /\ off[from + 1] = off[from + 1 - 1] + Width(pk[from + 1])
    BY <2>1 DEF Framed
  <2>3. off[from + 1] = Width(pk[from + 1])
    BY <2>1, <2>2, WidthType
  <2>4. off[from + 1] <= off[Len(pk)]
    BY <1>1, <1>3 DEF Framed
  <2>5. \A k \in 1..Width(pk[from + 1]) :
           off[from + 1 - 1] + k <= Len(st) => st[off[from + 1 - 1] + k] = PacketBytes(pk[from + 1])[k]
    BY <2>1 DEF Framed
  <2>6. \A k \in 1..Width(pk[from + 1]) : off[from + 1 - 1] + k = k
    BY <2>1, <2>2, WidthType
  <2> QED
    BY Zenon, <2>3, <2>4, <2>5, <2>6
<1> QED
  BY Zenon, <1>2, <1>3

(* What follows the first w bytes of a stream. *)
Behind(rest, st, w) ==
    w <= Len(st) /\ Len(rest) = Len(st) - w /\ \A k \in 1..Len(rest) : rest[k] = st[w + k]

(* Without its first packet, it holds the others. *)
LEMMA FramedDrop ==
    ASSUME NEW pk \in Seq(Packets), NEW from \in 0..Len(pk) - 1, NEW st \in Seq(Bytes), NEW off,
           Framed(st, from, pk, off), NEW w, w = Width(pk[from + 1]),
           NEW rest \in Seq(Bytes), Behind(rest, st, w)
    PROVE  \E o : Framed(rest, from + 1, pk, o) /\ o[Len(pk)] = off[Len(pk)] - w
<1> DEFINE o == [i \in from + 1..Len(pk) |-> off[i] - w]
<1>1. /\ Len(pk) \in Nat /\ Len(st) \in Nat /\ from \in Nat /\ from < Len(pk) /\ w \in Nat
      /\ Len(rest) \in Nat
  BY WidthType
<1>rest. w <= Len(st) /\ Len(rest) = Len(st) - w
  BY Zenon DEF Behind
<1>2. off \in [from..Len(pk) -> Nat] /\ Len(st) <= off[Len(pk)]
  BY Zenon DEF Framed
<1>sum. \A i \in from + 1..Len(pk) : off[i] = off[i - 1] + Width(pk[i])
  BY Zenon DEF Framed
<1>mono. \A i, j \in from..Len(pk) : i <= j => off[i] <= off[j]
  BY Zenon DEF Framed
<1>bytes. \A i \in from + 1..Len(pk) : \A k \in 1..Width(pk[i]) :
             off[i - 1] + k <= Len(st) => st[off[i - 1] + k] = PacketBytes(pk[i])[k]
  BY Zenon DEF Framed
<1>3. off[from + 1] = w
  <2>1. from + 1 \in from + 1..Len(pk) /\ from + 1 - 1 = from /\ off[from] = 0
    BY <1>1 DEF Framed
  <2>2. off[from + 1] = off[from + 1 - 1] + w
    BY <1>sum, <2>1
  <2> QED
    BY <1>1, <2>1, <2>2
<1>4. \A i \in from + 1..Len(pk) : off[i] \in Nat /\ off[i] >= w /\ o[i] = off[i] - w /\ o[i] \in Nat
  <2> SUFFICES ASSUME NEW i \in from + 1..Len(pk)
               PROVE  off[i] \in Nat /\ off[i] >= w /\ o[i] = off[i] - w /\ o[i] \in Nat
    BY Zenon
  <2>1. i \in from..Len(pk) /\ from + 1 \in from..Len(pk) /\ from + 1 <= i
    BY <1>1
  <2>2. off[i] \in Nat /\ w <= off[i]
    BY Zenon, <1>2, <1>3, <1>mono, <2>1
  <2>3. o[i] = off[i] - w
    BY Zenon
  <2> QED
    BY <1>1, <2>2, <2>3
<1>5. o \in [from + 1..Len(pk) -> Nat]
  BY Zenon, <1>4
<1> HIDE DEF o
<1>6. o[from + 1] = 0
  BY <1>1, <1>3, <1>4
<1>7. ASSUME NEW i \in from + 1 + 1..Len(pk)
      PROVE  /\ i \in from + 1..Len(pk) /\ i - 1 \in from + 1..Len(pk) /\ Width(pk[i]) \in Nat
             /\ o[i] = o[i - 1] + Width(pk[i])
  <2>1. i \in from + 1..Len(pk) /\ i - 1 \in from + 1..Len(pk) /\ pk[i] \in Packets
    BY <1>1
  <2>2. Width(pk[i]) \in Nat
    BY Zenon, <2>1, WidthType
  <2>3. off[i] = off[i - 1] + Width(pk[i])
    BY Zenon, <1>sum, <2>1
  <2>4. /\ off[i] \in Nat /\ off[i - 1] \in Nat
        /\ o[i] = off[i] - w /\ o[i - 1] = off[i - 1] - w
    BY Zenon, <1>4, <2>1
  <2>5. o[i] = o[i - 1] + Width(pk[i])
    BY <1>1, <2>2, <2>3, <2>4
  <2> QED
    BY Zenon, <2>1, <2>2, <2>5
<1>8. \A i, j \in from + 1..Len(pk) : i <= j => o[i] <= o[j]
  <2> SUFFICES ASSUME NEW i \in from + 1..Len(pk), NEW j \in from + 1..Len(pk), i <= j
               PROVE  o[i] <= o[j]
    BY Zenon
  <2>1. i \in from..Len(pk) /\ j \in from..Len(pk)
    BY <1>1
  <2>2. off[i] <= off[j]
    BY Zenon, <1>mono, <2>1
  <2> QED
    BY <1>1, <1>4, <2>2
<1>9. Len(pk) \in from + 1..Len(pk) /\ o[Len(pk)] = off[Len(pk)] - w /\ Len(rest) <= o[Len(pk)]
  <2>1. Len(pk) \in from + 1..Len(pk)
    BY <1>1
  <2>2. off[Len(pk)] \in Nat /\ o[Len(pk)] = off[Len(pk)] - w
    BY Zenon, <1>4, <2>1
  <2> QED
    <3>1. PICK x, y, z, l : x = off[Len(pk)] /\ y = o[Len(pk)] /\ z = Len(rest) /\ l = Len(st)
      BY Zenon
    <3>2. x \in Nat /\ y = x - w /\ w \in Nat /\ l \in Nat /\ z = l - w /\ l <= x
      BY Zenon, <1>1, <1>rest, <1>2, <2>2, <3>1
    <3>3. z <= y
      BY <3>2
    <3> QED
      BY Zenon, <2>1, <2>2, <3>1, <3>3
<1>10. ASSUME NEW i \in from + 1 + 1..Len(pk), NEW k \in 1..Width(pk[i]), o[i - 1] + k <= Len(rest)
       PROVE  rest[o[i - 1] + k] = PacketBytes(pk[i])[k]
  <2>1. i \in from + 1..Len(pk) /\ i - 1 \in from + 1..Len(pk) /\ Width(pk[i]) \in Nat
    BY Zenon, <1>7
  <2>2. PICK x, y, f, m, l : /\ x = y + k /\ y = o[i - 1] /\ f = off[i - 1] /\ m = Len(rest) /\ l = Len(st)
    BY Zenon
  <2>3. x \in 1..Len(rest) /\ w + x = off[i - 1] + k /\ w + x <= Len(st)
    <3>1. off[i - 1] \in Nat /\ o[i - 1] \in Nat /\ o[i - 1] = off[i - 1] - w
      BY Zenon, <1>4, <2>1
    <3>2. f \in Nat /\ y \in Nat /\ y = f - w /\ w \in Nat
      BY Zenon, <1>1, <2>2, <3>1
    <3>3. f = w + y
      BY <3>2
    <3>4. m \in Nat /\ l \in Nat /\ l = w + m
      BY SMTT(30), <1>1, <1>rest, <2>2
    <3>5. k \in Nat /\ k >= 1 /\ y + k <= m
      BY <1>10, <2>1, <2>2
    <3>6. y + k \in 1..m /\ w + (y + k) = (w + y) + k /\ w + (y + k) <= w + m
      <4>1. y \in Nat /\ w \in Nat /\ m \in Nat
        BY Zenon, <3>2, <3>4
      <4>2. y + k \in 1..m
        BY <3>5, <4>1
      <4>3. w + (y + k) = (w + y) + k
        BY <3>5, <4>1
      <4>4. w + (y + k) <= w + m
        BY <3>5, <4>1
      <4> QED
        BY Zenon, <4>2, <4>3, <4>4
    <3> QED
      BY Zenon, <2>2, <3>3, <3>4, <3>6
  <2>4. rest[x] = st[w + x]
    BY Zenon, <2>3 DEF Behind
  <2>5. st[off[i - 1] + k] = PacketBytes(pk[i])[k]
    BY Zenon, <1>bytes, <2>1, <2>3
  <2> QED
    BY Zenon, <2>2, <2>3, <2>4, <2>5
<1>11. Framed(rest, from + 1, pk, o)
  BY Zenon, <1>5, <1>6, <1>7, <1>8, <1>9, <1>10 DEF Framed
<1> QED
  BY Zenon, <1>9, <1>11

(* The stream st with the first n bytes of q behind it. *)
Extends(more, st, n, q) ==
    /\ Len(more) = Len(st) + n /\ \A k \in 1..Len(st) : more[k] = st[k]
    /\ \A k \in 1..n : more[Len(st) + k] = PacketBytes(q)[k]

(* One more packet, or the beginning of one, goes on behind the others. *)
LEMMA FramedAppend ==
    ASSUME NEW pk \in Seq(Packets), NEW from \in 0..Len(pk), NEW st \in Seq(Bytes), NEW off,
           Framed(st, from, pk, off), Len(st) = off[Len(pk)],
           NEW q \in Packets, NEW n \in 0..Width(q),
           NEW more \in Seq(Bytes), Extends(more, st, n, q)
    PROVE  \E o : Framed(more, from, Append(pk, q), o) /\ o[Len(pk) + 1] = off[Len(pk)] + Width(q)
<1> DEFINE e == Len(pk) + 1
           o == [i \in from..e |-> IF i = e THEN off[Len(pk)] + Width(q) ELSE off[i]]
           qs == Append(pk, q)
<1>1. /\ Len(pk) \in Nat /\ Len(st) \in Nat /\ from \in Nat /\ from <= Len(pk) /\ Width(q) \in Nat
      /\ Len(more) \in Nat /\ n \in Nat /\ n <= Width(q)
  BY WidthType
<1>more. Len(more) = Len(st) + n
  BY Zenon DEF Extends
<1>2. off \in [from..Len(pk) -> Nat] /\ off[from] = 0
  BY Zenon DEF Framed
<1>sum. \A i \in from + 1..Len(pk) : off[i] = off[i - 1] + Width(pk[i])
  BY Zenon DEF Framed
<1>mono. \A i, j \in from..Len(pk) : i <= j => off[i] <= off[j]
  BY Zenon DEF Framed
<1>bytes. \A i \in from + 1..Len(pk) : \A k \in 1..Width(pk[i]) :
             off[i - 1] + k <= Len(st) => st[off[i - 1] + k] = PacketBytes(pk[i])[k]
  BY Zenon DEF Framed
<1>3. /\ \A i \in from..Len(pk) : i \in from..e /\ i # e /\ off[i] \in Nat
      /\ e \in from..e /\ e \in Nat
      /\ \A i \in from..e : i = e \/ i \in from..Len(pk)
  <2>1. \A i \in from..Len(pk) : off[i] \in Nat
    BY Zenon, <1>2
  <2>2. \A i \in from..Len(pk) : i \in from..e /\ i # e
    BY <1>1
  <2>3. e \in from..e /\ e \in Nat /\ \A i \in from..e : i = e \/ i \in from..Len(pk)
    BY <1>1
  <2> QED
    BY Zenon, <2>1, <2>2, <2>3
<1>4. (\A i \in from..Len(pk) : o[i] = off[i]) /\ o[e] = off[Len(pk)] + Width(q)
  BY Zenon, <1>3
<1>5. o \in [from..e -> Nat]
  BY <1>1, <1>3
<1>6. /\ qs \in Seq(Packets) /\ Len(qs) = e /\ qs[e] = q /\ \A i \in 1..Len(pk) : qs[i] = pk[i]
  OBVIOUS
<1> HIDE DEF o, e, qs
<1>7. ASSUME NEW i \in from + 1..e
      PROVE  \/ i = e /\ i - 1 = Len(pk) /\ i - 1 \in from..Len(pk)
             \/ i \in from + 1..Len(pk) /\ i \in from..Len(pk) /\ i - 1 \in from..Len(pk) /\ i \in 1..Len(pk)
  BY <1>1 DEF e
<1>8. ASSUME NEW i \in from + 1..e PROVE o[i] = o[i - 1] + Width(qs[i])
  <2>1. CASE i = e /\ i - 1 = Len(pk) /\ i - 1 \in from..Len(pk)
    BY Zenon, <1>4, <1>6, <2>1
  <2>2. CASE i \in from + 1..Len(pk) /\ i \in from..Len(pk) /\ i - 1 \in from..Len(pk) /\ i \in 1..Len(pk)
    BY Zenon, <1>sum, <1>4, <1>6, <2>2
  <2> QED
    BY Zenon, <1>7, <2>1, <2>2
<1>9. ASSUME NEW i \in from..e, NEW j \in from..e, i <= j PROVE o[i] <= o[j]
  <2>1. CASE i \in from..Len(pk) /\ j \in from..Len(pk)
    BY Zenon, <1>mono, <1>4, <1>9, <2>1
  <2>2. CASE i \in from..Len(pk) /\ j = e
    <3>1. off[i] <= off[Len(pk)] /\ off[i] \in Nat /\ off[Len(pk)] \in Nat
      <4>1. Len(pk) \in from..Len(pk) /\ i <= Len(pk)
        BY <1>1, <2>2
      <4> QED
        BY Zenon, <1>2, <1>mono, <2>2, <4>1
    <3> QED
      BY <1>1, <1>4, <2>2, <3>1
  <2>3. CASE i = e
    <3>1. j = e
      BY <1>3, <1>9, <2>3, <1>1 DEF e
    <3> QED
      BY <1>3, <1>5, <2>3, <3>1
  <2> QED
    BY Zenon, <1>3, <2>1, <2>2, <2>3
<1>10. Len(more) <= o[e]
  BY SMTT(30), <1>1, <1>more, <1>4
<1>11. ASSUME NEW i \in from + 1..e, NEW k \in 1..Width(qs[i]), o[i - 1] + k <= Len(more)
       PROVE  more[o[i - 1] + k] = PacketBytes(qs[i])[k]
  <2>1. CASE i = e /\ i - 1 = Len(pk) /\ i - 1 \in from..Len(pk)
    <3>1. o[i - 1] = Len(st) /\ qs[i] = q
      BY Zenon, <1>4, <1>6, <2>1
    <3>2. k \in 1..n
      BY <1>1, <1>more, <1>11, <3>1
    <3> QED
      BY Zenon, <3>1, <3>2 DEF Extends
  <2>2. CASE i \in from + 1..Len(pk) /\ i \in from..Len(pk) /\ i - 1 \in from..Len(pk) /\ i \in 1..Len(pk)
    <3>1. o[i - 1] = off[i - 1] /\ qs[i] = pk[i] /\ k \in 1..Width(pk[i])
      BY Zenon, <1>4, <1>6, <2>2
    <3>2. Width(pk[i]) \in Nat /\ off[i] \in Nat /\ off[i - 1] \in Nat
      <4>1. pk[i] \in Packets
        BY SMTT(30), <2>2
      <4> QED
        BY ZenonT(30), <1>2, <2>2, <4>1, WidthType
    <3>3. off[i] = off[i - 1] + Width(pk[i]) /\ off[i] <= Len(st)
      <4>1. Len(pk) \in from..Len(pk) /\ i <= Len(pk)
        BY SMTT(30), <1>1, <2>2
      <4> QED
        BY Zenon, <1>sum, <1>mono, <2>2, <4>1
    <3>4. off[i - 1] + k \in 1..Len(st)
      <4>1. PICK x, y, z : x = off[i - 1] /\ y = off[i] /\ z = Width(pk[i])
        BY Zenon 
      <4>2. x \in Nat /\ y \in Nat /\ z \in Nat /\ y = x + z /\ y <= Len(st) /\ k \in 1..z
        BY Zenon, <3>1, <3>2, <3>3, <4>1
      <4>3. x + k \in 1..Len(st)
        BY SMTT(30), <1>1, <4>2
      <4> QED
        BY Zenon, <4>1, <4>3
    <3>5. st[off[i - 1] + k] = PacketBytes(pk[i])[k]
      BY <1>bytes, <2>2, <3>1, <3>4
    <3> QED
      BY Zenon, <3>1, <3>4, <3>5 DEF Extends
  <2> QED
    BY Zenon, <1>7, <2>1, <2>2
<1>12. o[from] = 0
  BY SMTT(30), <1>1, <1>2, <1>4
<1>13. Framed(more, from, qs, o)
  BY Zenon, <1>5, <1>6, <1>8, <1>9, <1>10, <1>11, <1>12 DEF Framed
<1> QED
  BY Zenon, <1>4, <1>13 DEF e, qs

-----------------------------------------------------------------------------
(* The bytes of the packets of pk after the first g, as UnderWay has them. *)
Load(g, pk) == {u \in (g + 1..Len(pk)) \X (1..HEADER_LEN + UINT32_MAX) : u[2] <= Size(pk[u[1]])}

(* Those of one packet. *)
Row(i, n) == {i} \X (1..n)

LEMMA SamePairs ==
    ASSUME NEW A, NEW B, \A u \in A : \E i, k : u = <<i, k>>, \A u \in B : \E i, k : u = <<i, k>>,
           \A i, k : <<i, k>> \in A <=> <<i, k>> \in B
    PROVE  A = B
<1>1. \A u : u \in A <=> u \in B
  OBVIOUS
<1> QED
  BY Zenon, <1>1

LEMMA DisjointUnion ==
    ASSUME NEW S, IsFiniteSet(S), NEW T, IsFiniteSet(T), S \cap T = {}
    PROVE  Cardinality(S \cup T) = Cardinality(S) + Cardinality(T)
<1>1. Cardinality(S) \in Nat /\ Cardinality(T) \in Nat
  BY Zenon, FS_CardinalityType
<1>2. Cardinality(S \cup T) = Cardinality(S) + Cardinality(T) - Cardinality(S \cap T)
  BY Zenon, FS_Union
<1>3. Cardinality(S \cap T) = 0
  BY Zenon, FS_EmptySet
<1> QED
  BY <1>1, <1>2, <1>3

LEMMA RowSize ==
    ASSUME NEW i \in Nat, NEW n \in Nat
    PROVE  IsFiniteSet(Row(i, n)) /\ Cardinality(Row(i, n)) = n
<1>1. IsFiniteSet({i}) /\ Cardinality({i}) = 1
  BY Zenon, FS_Singleton
<1>2. IsFiniteSet(1..n) /\ Cardinality(1..n) = n
  BY FS_Interval
<1>3. IsFiniteSet({i} \X (1..n)) /\ Cardinality({i} \X (1..n)) = Cardinality({i}) * Cardinality(1..n)
  BY <1>1, <1>2, FS_Product, Zenon
<1>4. 1 * n = n
  OBVIOUS
<1> QED
  BY <1>1, <1>2, <1>3, <1>4, Zenon DEF Row

LEMMA SizeType ==
    ASSUME NEW q \in Packets
    PROVE  Size(q) \in Nat /\ Size(q) <= HEADER_LEN + UINT32_MAX /\ HEADER_LEN + UINT32_MAX \in Nat
<1>1. UINT32_MAX \in Nat
  BY LayoutAssumption, RadixAssumption
<1> QED
  BY <1>1 DEF Size, Packets, HEADER_LEN

LEMMA LoadSize ==
    ASSUME NEW pk \in Seq(Packets), NEW g \in 0..Len(pk)
    PROVE  IsFiniteSet(Load(g, pk)) /\ Cardinality(Load(g, pk)) \in Nat
<1>1. UINT32_MAX \in Nat /\ Len(pk) \in Nat /\ HEADER_LEN \in Nat
  BY LayoutAssumption, RadixAssumption DEF HEADER_LEN
<1>2. IsFiniteSet(g + 1..Len(pk)) /\ IsFiniteSet(1..HEADER_LEN + UINT32_MAX)
  BY <1>1, FS_Interval
<1>3. IsFiniteSet((g + 1..Len(pk)) \X (1..HEADER_LEN + UINT32_MAX))
  BY Zenon, <1>2, FS_Product
<1>4. Load(g, pk) \subseteq (g + 1..Len(pk)) \X (1..HEADER_LEN + UINT32_MAX)
  BY Zenon DEF Load
<1> QED
  BY Zenon, <1>3, <1>4, FS_Subset, FS_CardinalityType

(* Every packet sent adds its size. *)
LEMMA LoadAppend ==
    ASSUME NEW pk \in Seq(Packets), NEW g \in 0..Len(pk), NEW q \in Packets
    PROVE  Cardinality(Load(g, Append(pk, q))) = Cardinality(Load(g, pk)) + Size(q)
<1> DEFINE e == Len(pk) + 1
           M == 1..HEADER_LEN + UINT32_MAX
<1>1. Len(pk) \in Nat /\ e \in Nat /\ Size(q) \in Nat /\ Size(q) <= HEADER_LEN + UINT32_MAX
      /\ HEADER_LEN + UINT32_MAX \in Nat
  BY SizeType
<1>2. /\ Len(Append(pk, q)) = e /\ Append(pk, q)[e] = q
      /\ \A i \in g + 1..Len(pk) : Append(pk, q)[i] = pk[i]
  BY <1>1
<1>3. ASSUME NEW i, NEW k
      PROVE  <<i, k>> \in Load(g, Append(pk, q)) <=> <<i, k>> \in Load(g, pk) \cup Row(e, Size(q))
  <2>1. <<i, k>> \in Load(g, Append(pk, q)) <=>
          i \in g + 1..e /\ k \in M /\ k <= Size(Append(pk, q)[i])
    BY Zenon, <1>2 DEF Load
  <2>2. <<i, k>> \in Load(g, pk) <=> i \in g + 1..Len(pk) /\ k \in M /\ k <= Size(pk[i])
    BY Zenon DEF Load
  <2>3. <<i, k>> \in Row(e, Size(q)) <=> i = e /\ k \in 1..Size(q)
    BY Zenon DEF Row
  <2>4. k \in 1..Size(q) <=> k \in M /\ k <= Size(q)
    BY <1>1
  <2>5. i \in g + 1..e <=> i \in g + 1..Len(pk) \/ i = e
    BY <1>1
  <2>6. ~(e \in g + 1..Len(pk))
    BY <1>1
  <2> HIDE DEF e, M
  <2> QED
    BY <1>2, <2>1, <2>2, <2>3, <2>4, <2>5, <2>6, Zenon
<1>4. Load(g, Append(pk, q)) = Load(g, pk) \cup Row(e, Size(q))
  <2>1. \A u \in Load(g, Append(pk, q)) : \E i, k : u = <<i, k>>
    BY DEF Load
  <2>2. \A u \in Load(g, pk) \cup Row(e, Size(q)) : \E i, k : u = <<i, k>>
    BY DEF Load, Row
  <2>3. PICK A, B : A = Load(g, Append(pk, q)) /\ B = Load(g, pk) \cup Row(e, Size(q))
    BY Zenon
  <2>4. \A i, k : <<i, k>> \in A <=> <<i, k>> \in B
    BY <1>3, <2>3, Zenon
  <2> QED
    BY <2>1, <2>2, <2>3, <2>4, SamePairs, Zenon
<1>5. Load(g, pk) \cap Row(e, Size(q)) = {}
  <2> SUFFICES ASSUME NEW u \in Load(g, pk), u \in Row(e, Size(q)) PROVE FALSE
    BY Zenon
  <2>1. u[1] \in g + 1..Len(pk)
    BY Zenon DEF Load
  <2>2. u[1] = e
    BY Zenon DEF Row
  <2> QED
    BY <1>1, <2>1, <2>2
<1>6. IsFiniteSet(Load(g, pk)) /\ Cardinality(Load(g, pk)) \in Nat
  BY Zenon, LoadSize
<1>7. IsFiniteSet(Row(e, Size(q))) /\ Cardinality(Row(e, Size(q))) = Size(q)
  BY Zenon, <1>1, RowSize
<1>8. Cardinality(Load(g, pk) \cup Row(e, Size(q))) = Cardinality(Load(g, pk)) + Cardinality(Row(e, Size(q)))
  <2> HIDE DEF e
  <2>1. PICK S, T : S = Load(g, pk) /\ T = Row(e, Size(q))
    BY Zenon
  <2>2. IsFiniteSet(S) /\ IsFiniteSet(T) /\ S \cap T = {}
    BY <1>5, <1>6, <1>7, <2>1, Zenon
  <2>3. Cardinality(S \cup T) = Cardinality(S) + Cardinality(T)
    BY Zenon, <2>2, DisjointUnion
  <2> QED
    BY <2>1, <2>3, Zenon
<1> QED
  BY Zenon, <1>1, <1>4, <1>6, <1>7, <1>8

(* Every packet received takes its size away. *)
LEMMA LoadDrop ==
    ASSUME NEW pk \in Seq(Packets), NEW g \in 0..Len(pk) - 1
    PROVE  /\ Size(pk[g + 1]) \in Nat
           /\ Cardinality(Load(g + 1, pk)) = Cardinality(Load(g, pk)) - Size(pk[g + 1])
<1> DEFINE e == g + 1
           M == 1..HEADER_LEN + UINT32_MAX
           z == Size(pk[e])
<1>1. /\ Len(pk) \in Nat /\ e \in Nat /\ e \in 1..Len(pk) /\ g \in 0..Len(pk) /\ e \in 0..Len(pk)
      /\ pk[e] \in Packets
  OBVIOUS
<1>2. z \in Nat /\ z <= HEADER_LEN + UINT32_MAX /\ HEADER_LEN + UINT32_MAX \in Nat
  BY Zenon, <1>1, SizeType
<1>3. ASSUME NEW i, NEW k
      PROVE  <<i, k>> \in Load(g, pk) <=> <<i, k>> \in Load(e, pk) \cup Row(e, z)
  <2>1. <<i, k>> \in Load(g, pk) <=> i \in g + 1..Len(pk) /\ k \in M /\ k <= Size(pk[i])
    BY Zenon DEF Load
  <2>2. <<i, k>> \in Load(e, pk) <=> i \in e + 1..Len(pk) /\ k \in M /\ k <= Size(pk[i])
    BY Zenon DEF Load
  <2>3. <<i, k>> \in Row(e, z) <=> i = e /\ k \in 1..z
    BY Zenon DEF Row
  <2>4. k \in 1..z <=> k \in M /\ k <= z
    BY <1>2
  <2>5. i \in g + 1..Len(pk) <=> i \in e + 1..Len(pk) \/ i = e
    BY <1>1
  <2>6. ~(e \in e + 1..Len(pk))
    BY <1>1
  <2>7. i = e => Size(pk[i]) = z
    BY Zenon
  <2> HIDE DEF e, M, z
  <2> QED
    BY <2>1, <2>2, <2>3, <2>4, <2>5, <2>6, <2>7, Zenon
<1>4. Load(g, pk) = Load(e, pk) \cup Row(e, z)
  <2>1. \A u \in Load(g, pk) : \E i, k : u = <<i, k>>
    BY DEF Load
  <2>2. \A u \in Load(e, pk) \cup Row(e, z) : \E i, k : u = <<i, k>>
    BY DEF Load, Row
  <2>3. PICK A, B : A = Load(g, pk) /\ B = Load(e, pk) \cup Row(e, z)
    BY Zenon
  <2>4. \A i, k : <<i, k>> \in A <=> <<i, k>> \in B
    BY <1>3, <2>3, Zenon
  <2> QED
    BY <2>1, <2>2, <2>3, <2>4, SamePairs, Zenon
<1>5. Load(e, pk) \cap Row(e, z) = {}
  <2> SUFFICES ASSUME NEW u \in Load(e, pk), u \in Row(e, z) PROVE FALSE
    BY Zenon
  <2>1. u[1] \in e + 1..Len(pk)
    BY Zenon DEF Load
  <2>2. u[1] = e
    BY Zenon DEF Row
  <2> QED
    BY <1>1, <2>1, <2>2
<1>6. IsFiniteSet(Load(e, pk)) /\ Cardinality(Load(e, pk)) \in Nat
  BY Zenon, <1>1, LoadSize
<1>7. IsFiniteSet(Row(e, z)) /\ Cardinality(Row(e, z)) = z
  BY Zenon, <1>1, <1>2, RowSize
<1>8. Cardinality(Load(e, pk) \cup Row(e, z)) = Cardinality(Load(e, pk)) + Cardinality(Row(e, z))
  <2> HIDE DEF e, z
  <2>1. PICK S, T : S = Load(e, pk) /\ T = Row(e, z)
    BY Zenon
  <2>2. IsFiniteSet(S) /\ IsFiniteSet(T) /\ S \cap T = {}
    BY <1>5, <1>6, <1>7, <2>1, Zenon
  <2>3. Cardinality(S \cup T) = Cardinality(S) + Cardinality(T)
    BY Zenon, <2>2, DisjointUnion
  <2> QED
    BY <2>1, <2>3, Zenon
<1> HIDE DEF e, z
<1>10. Cardinality(Load(e, pk)) = Cardinality(Load(g, pk)) - z
  BY <1>2, <1>4, <1>6, <1>7, <1>8
<1> QED
  BY Zenon, <1>2, <1>10 DEF e, z

=====
