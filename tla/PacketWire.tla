----------------------------- MODULE PacketWire -----------------------------
(***************************************************************************)
(* A session's packets on the wire: the calls of PayloadEncoder, the bytes *)
(* of StreamParser, what wait_for_response and process_item of             *)
(* tcp_channel.c do with them, and a server that does what the fixtures of *)
(* tools/mock_streaming_server do.  The buffer of the parser is as large   *)
(* as the one packets are encoded in.  Queue and threads are TcpChannel's: *)
(* here the next call comes when the last request is through.              *)
(***************************************************************************)
EXTENDS PayloadEncoder, StreamParser

CONSTANTS RECV_CHUNK,   \* SENSOR_TCP_RECV_CHUNK
          Bodies,       \* lengths of the responses' data
          MaxResponses, \* bound: packets of the server on a connection
          MaxRequests   \* bound: requests

ASSUME LayoutAssumption == HEADER_LEN = SAVVY_PACKET_HEADER_LEN /\ UINT32_MAX = Radix * Radix - 1
ASSUME BodiesAssumption == Bodies \subseteq 0..UINT32_MAX
ASSUME BoundsAssumption == {RECV_CHUNK, MaxResponses, MaxRequests} \subseteq Nat

VARIABLES
    worker,   \* "idle", "extract", "wait"
    open,     \* sockfd >= 0
    parser,
    net,      \* bytes sent and not yet received
    server,   \* what it owes, and whether it has closed
    sent,     \* history: the packets the server sent on this connection
    got,      \* history: the results of the requests on this connection
    outcome,  \* status of the last request
    requests  \* how many there were

wvars == <<worker, open, parser, net, server, sent, got, outcome, requests>>
vars == <<evars, wvars>>

NewServer == [owes |-> 0, closed |-> FALSE]

Init ==
    /\ EncoderInit
    /\ worker = "idle" /\ open = FALSE /\ parser = savvy_stream_parser_init(0)
    /\ net = <<>> /\ server = NewServer /\ sent = <<>> /\ got = <<>>
    /\ outcome = "none" /\ requests = 0
-----------------------------------------------------------------------------
(* The application calls while no request is under way. *)
Calls ==
    /\ worker = "idle" /\ requests < MaxRequests
    /\ \E n \in {0, cfg.max, cfg.max + 1} : sensor_stream_session_send_data(n) \/ relay_rknn_result(n)
    /\ UNCHANGED wvars

Encoding == Encodes /\ UNCHANGED wvars

(* A request is taken and sent, on a new connection with an empty parser   *)
(* if there was none (try_connect).  One that cannot be sent has nothing   *)
(* to do with the parser: TcpChannel has those.                            *)
submit ==
    /\ op = "data"
    /\ session_submits("OK")
    /\ requests' = requests + 1 /\ open' = TRUE /\ worker' = "extract" /\ outcome' = "none"
    /\ IF open THEN UNCHANGED <<parser, net, sent, got>>
       ELSE net' = <<>> /\ sent' = <<>> /\ got' = <<>> /\ parser' = savvy_stream_parser_init(capacity)
    /\ server' = [owes |-> (IF open THEN server.owes ELSE 0) + 1, closed |-> open /\ server.closed]

(* Not taken, or a relay, which nobody answers. *)
submit_no_response ==
    /\ \/ \E st \in {"REJECTED", "OUT_OF_MEMORY"} : session_submits(st)
       \/ op = "relay" /\ session_submits("OK")
    /\ UNCHANGED wvars

(* close_session_internal, and on_complete with an error. *)
Fails(st) == worker' = "idle" /\ open' = FALSE /\ outcome' = st /\ UNCHANGED got

(* What process_item makes of try_extract's result; TRUE in a response is  *)
(* crc_valid.                                                              *)
Takes(r) ==
    /\ parser' = r.p
    /\ CASE r.result = "ERROR" -> Fails("PROTOCOL")
         [] r.result = "NEED_MORE_DATA" -> worker' = "wait" /\ UNCHANGED <<open, outcome, got>>
         [] OTHER -> /\ worker' = "idle" /\ outcome' = "OK" /\ UNCHANGED open
                     /\ got' = Append(got, [tag |-> r.tag, data |-> r.data,
                                            crc_valid |-> r.data = <<>> \/ r.crc = savvy_crc32(r.data)])

(* wait_for_response first looks for a packet that is already there. *)
extract_first ==
    /\ worker = "extract"
    /\ Takes(savvy_stream_parser_try_extract(parser, cfg.size_max))
    /\ UNCHANGED <<evars, net, server, sent, requests>>

(* recv, push, try_extract. *)
wait_for_response ==
    /\ worker = "wait"
    /\ \E n \in 1..Least(Len(net), RECV_CHUNK) :
          LET pushed == savvy_stream_parser_push(parser, SubSeq(net, 1, n)) IN
          /\ net' = SubSeq(net, n + 1, Len(net))
          /\ IF pushed.ok THEN Takes(savvy_stream_parser_try_extract(pushed.p, cfg.size_max))
             ELSE Fails("PROTOCOL") /\ parser' = pushed.p
    /\ UNCHANGED <<evars, server, sent, requests>>

(* The peer closed; or the deadline passed, which stands for a recv that   *)
(* fails and for stop as well: the connection is closed all the same.      *)
wait_fails ==
    /\ worker = "wait"
    /\ \/ net = <<>> /\ server.closed /\ Fails("DISCONNECTED")
       \/ Fails("RESPONSE_TIMEOUT")
    /\ UNCHANGED <<evars, parser, net, server, sent, requests>>
-----------------------------------------------------------------------------
(* The server. *)

Tag == Len(sent) % Radix
Data(n) == [i \in 1..n |-> (i + Len(sent)) % Radix]

Good(n) == [tag |-> Tag, data |-> Data(n), length |-> n, crc |-> savvy_crc32(Data(n))]
BadCrc(n) == [Good(n) EXCEPT !.crc = (@ + 1) % Radix]
(* length-overflow: a header that announces more than any buffer holds. *)
Absurd == [tag |-> Tag, data |-> <<>>, length |-> UINT32_MAX, crc |-> 0]

PacketBytes(q) == Encoded(q.tag, q.length, q.crc, q.data)
Size(q) == HEADER_LEN + q.length

(* After a packet that lacks some of its data it only closes. *)
ServerAlive ==
    /\ open /\ ~server.closed /\ Len(sent) < MaxResponses
    /\ \A i \in 1..Len(sent) : Len(sent[i].data) = sent[i].length

(* It answers a request; the pieces recv finds are any. *)
server_answers ==
    /\ ServerAlive /\ server.owes > 0
    /\ \E q \in {Good(n) : n \in Bodies} \cup {BadCrc(n) : n \in Bodies} \cup {Absurd} :
          net' = net \o PacketBytes(q) /\ sent' = Append(sent, q)
    /\ server' = [server EXCEPT !.owes = @ - 1]
    /\ UNCHANGED <<evars, worker, open, parser, got, outcome, requests>>

(* A packet nobody asked for follows an answer, as in a coalesced send. *)
server_repeats ==
    /\ ServerAlive /\ sent # <<>>
    /\ \E q \in {Good(n) : n \in Bodies} \cup {Absurd} :
          net' = net \o PacketBytes(q) /\ sent' = Append(sent, q)
    /\ UNCHANGED <<evars, worker, open, parser, server, got, outcome, requests>>

(* It closes, possibly in the middle of an answer. *)
server_disconnects ==
    /\ open /\ ~server.closed
    /\ server' = [server EXCEPT !.closed = TRUE]
    /\ \/ UNCHANGED <<net, sent>>
       \/ /\ ServerAlive /\ server.owes > 0
          /\ \E n \in Bodies : \E k \in {1, HEADER_LEN, HEADER_LEN + 1} :
                /\ k < Size(Good(n))
                /\ net' = net \o SubSeq(PacketBytes(Good(n)), 1, k) /\ sent' = Append(sent, Good(n))
    /\ UNCHANGED <<evars, worker, open, parser, got, outcome, requests>>
-----------------------------------------------------------------------------
Next ==
    \/ Calls \/ Encoding \/ submit \/ submit_no_response
    \/ extract_first \/ wait_for_response \/ wait_fails
    \/ server_answers \/ server_repeats \/ server_disconnects

Spec == Init /\ [][Next]_vars
-----------------------------------------------------------------------------
(* Types: among them that what the parser holds lies in its buffer. *)
TypeOK ==
    /\ EncoderTypeOK
    /\ worker \in {"idle", "extract", "wait"} /\ open \in BOOLEAN
    /\ parser.buf \in Seq(Bytes) /\ 0 <= parser.head
    /\ parser.head <= parser.tail /\ parser.tail <= Len(parser.buf)
    /\ net \in Seq(Bytes) /\ requests \in 0..MaxRequests
    /\ outcome \in {"none", "OK", "PROTOCOL", "DISCONNECTED", "RESPONSE_TIMEOUT"}

(* What a request is given is what the server sent, packet by packet and   *)
(* in order, with crc_valid telling the damaged ones: however the bytes    *)
(* were cut or coalesced, and wherever in the buffer they came to lie.     *)
PacketsAsSent ==
    /\ Len(got) <= Len(sent)
    /\ \A i \in 1..Len(got) :
          /\ got[i].tag = sent[i].tag /\ got[i].data = sent[i].data
          /\ got[i].crc_valid <=> sent[i].data = <<>> \/ sent[i].crc = savvy_crc32(sent[i].data)

Outstanding == SubSeq(sent, Len(got) + 1, Len(sent))

(* Their bytes, each as the number of its packet and its place there. *)
UnderWay ==
    {u \in (Len(got) + 1..Len(sent)) \X (1..HEADER_LEN + UINT32_MAX) : u[2] <= Size(sent[u[1]])}

(* A request fails with PROTOCOL only for a reason: the server announced a *)
(* packet that the buffer cannot hold, or had more under way than fits it. *)
ProtocolErrorJustified ==
    outcome = "PROTOCOL" =>
      \/ \E i \in 1..Len(Outstanding) : Size(Outstanding[i]) > capacity
      \/ Cardinality(UnderWay) > capacity

(* The worker does not wait while the response it waits for is already in  *)
(* its buffer.                                                             *)
NothingLeftInBuffer ==
    worker = "wait" /\ Outstanding # <<>> =>
      parser.tail - parser.head < Size(Head(Outstanding))
=============================================================================
