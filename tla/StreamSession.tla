--------------------------- MODULE StreamSession ---------------------------
(***************************************************************************)
(* src/features/stream/session.c with the result policy it feeds,          *)
(* src/features/result_policy/result_policy.c, over the channel that       *)
(* RequestChannel specifies and TcpChannel implements: what a step does to *)
(* the channel is one of its actions.  One thread sends, one controls.     *)
(*                                                                         *)
(* Send number s is the s-th call the channel accepts.  A response body is *)
(* a JSON object: how its "result" key is written, and its value.          *)
(***************************************************************************)
EXTENDS Integers, Sequences, FiniteSets, Functions

CONSTANTS MaxSends,       \* bounds the number of sends
          Depth,          \* the depth of the channel's queue (4 in the code)
          Threshold,      \* danger_count_threshold
          CounterModulus, \* danger_count is a uint32_t: 2^32
          EchoBodies      \* the bodies with which the server echoes PIRIN

ASSUME SendsAssumption == MaxSends \in Nat /\ Depth \in Nat \ {0}
ASSUME ThresholdAssumption == Threshold \in Nat \ {0}  \* create refuses 0
ASSUME CounterAssumption == CounterModulus \in Nat /\ CounterModulus > Threshold

VARIABLES
    role,                       \* "STREAM" or "VOICE"
    running, closed, queue, worker, cur, over, connected, dropped, \* the channel's
    app,                        \* where the controlling thread is
    kind,                       \* the accepted sends
    pends,                      \* the pending_send_t allocated and not freed, by send
    told,                       \* the on_sent calls: for which send
    danger_count, alerts,       \* the policy's counter; how often on_alert was called
    history                     \* what the answers meant, in order

channel_vars == <<running, closed, queue, worker, cur, over, connected, dropped>>
policy_vars == <<danger_count, alerts, history>>
vars == <<role, channel_vars, app, kind, pends, told, policy_vars>>

Kinds == {"PIRIN", "DATA", "PIROUT", "RELAY"}

(* submit, submit_final or try_relay. *)
ChannelKind(k) == CASE k \in {"PIRIN", "DATA"} -> "NORMAL" [] k = "PIROUT" -> "FINAL" [] OTHER -> k

Channel == INSTANCE RequestChannel WITH Requests <- 1..MaxSends, None <- 0,
                                        kinds <- [s \in DOMAIN kind |-> ChannelKind(kind[s])]

(* Response bodies: no body at all, text that is no JSON object, and       *)
(* objects.  The production server writes the key without quotes.          *)
Empty == [key |-> "none", value |-> "empty"]

Garbage == [key |-> "none", value |-> "garbage"]

Bodies == {Empty, Garbage} \union [key : {"quoted", "bareword"}, value : {"4", "7", "null", "true"}]
            \union [key : {"absent"}, value : {"4"}]

ASSUME EchoAssumption == EchoBodies \subseteq Bodies

Responses == [status : {"OK"}, command : {"I", "R", "other"}, crc_valid : BOOLEAN, body : Bodies]

PirinResponses == {r \in Responses : r.command = "I" => r.body \in EchoBodies}

Failure == [status |-> "ERR", command |-> "none", crc_valid |-> FALSE, body |-> Empty]

Sent == [status |-> "SENT_NO_WAIT", command |-> "none", crc_valid |-> FALSE, body |-> Empty]

(* sensor_stream_session_create *)
Init == /\ role \in {"STREAM", "VOICE"}
        /\ app = "no" /\ kind = <<>> /\ pends = {} /\ told = <<>>
        /\ danger_count = 0 /\ alerts = 0 /\ history = <<>>
        /\ Channel!Init

-----------------------------------------------------------------------------
(* The application's calls. *)

start ==
    /\ app = "no" /\ app' = "start"
    /\ UNCHANGED <<role, kind, pends, told, policy_vars>>
    /\ Channel!Start

(* The channel's worker is created, or cannot be. *)
start_create ==
    /\ app = "start" /\ app' = "no"
    /\ UNCHANGED <<role, kind, pends, told, policy_vars>>
    /\ Channel!Spawn \/ Channel!Halt

(* What the send functions share: encode, allocate, submit.  When any of   *)
(* these fails, what was allocated is freed again and nothing has changed. *)
(* A relay allocates nothing.  A submit that has seen the channel running  *)
(* is accepted until stop closes the queue.                                *)
send(k, needs) ==
    LET s == Len(kind) + 1
    IN  /\ s \in 1..MaxSends /\ (running \/ app = "stop") /\ needs
        /\ kind' = Append(kind, k)
        /\ pends' = IF k # "RELAY" THEN pends \union {s} ELSE pends
        /\ UNCHANGED <<role, app, told, policy_vars>>
        /\ Channel!Accept(s, ChannelKind(k))

send_pirin == send("PIRIN", TRUE)

send_data == send("DATA", TRUE)

send_pirout == send("PIROUT", TRUE)

(* A Voice session refuses it; a session without a connection too. *)
relay_rknn_result == send("RELAY", role = "STREAM" /\ connected)

Joining(by) == IF by = "stop" THEN "stop_join" ELSE "destroy_join"

(* stop, by itself or as the first half of destroy. *)
stop(by) ==
    /\ app = "no"
    /\ UNCHANGED <<role, kind, pends, told, policy_vars>>
    /\ IF running THEN app' = by /\ Channel!Halt
       ELSE app' = Joining(by) /\ UNCHANGED channel_vars

(* Nobody frees the pending_send_t of a request the queue drops. *)
stop_cancel ==
    /\ app \in {"stop", "destroy"} /\ app' = Joining(app)
    /\ UNCHANGED <<role, kind, pends, told, policy_vars>>
    /\ Channel!Drop(TRUE)

(* Mutant: the worker is not joined. *)
stop_return_unjoined ==
    /\ app \in {"stop_join", "destroy_join"}
    /\ UNCHANGED <<role, kind, pends, told, policy_vars>>
    /\ IF app = "stop_join" THEN app' = "no" /\ UNCHANGED channel_vars
       ELSE app' = "destroyed" /\ Channel!Drop(FALSE)

(* The join; destroy then frees the channel, the policy and the session. *)
stop_return ==
    /\ app \in {"stop_join", "destroy_join"} /\ worker # "run"
    /\ UNCHANGED <<role, kind, pends, told, policy_vars>>
    /\ IF app = "stop_join" THEN app' = "no" /\ UNCHANGED channel_vars
       ELSE app' = "destroyed" /\ Channel!Drop(FALSE)

-----------------------------------------------------------------------------
(* The result policy. *)

(* Quotes around a bareword result key. *)
make_parser_input(body) == IF body.key = "bareword" THEN [body EXCEPT !.key = "quoted"] ELSE body

(* savvy_data_result_parse on a strict parser: the result, or "error". *)
data_result_parse(text) ==
    CASE text.key = "absent" -> "0"
      [] text.key = "quoted" /\ text.value = "null" -> "0"
      [] text.key = "quoted" /\ text.value \in {"4", "7"} -> text.value
      [] OTHER -> "error"

data_result_is_normal(dr) == dr = "4"

(* Mutant: the alert comes one response late. *)
on_response_late(body, copied) ==
    LET dr == data_result_parse(make_parser_input(body))
        normal == data_result_is_normal(dr)
        count == IF normal THEN 0 ELSE (danger_count + 1) % CounterModulus
    IN  IF body = Empty \/ ~copied \/ dr = "error" THEN UNCHANGED <<danger_count, alerts>>
        ELSE IF role = "STREAM"
        THEN /\ danger_count' = count
             /\ alerts' = IF ~normal /\ count > Threshold THEN alerts + 1 ELSE alerts
        ELSE /\ alerts' = IF ~normal THEN alerts + 1 ELSE alerts
             /\ UNCHANGED danger_count

(* sensor_result_policy_on_response; copied: there was memory for the      *)
(* parser's copy of the body.                                              *)
on_response(body, copied) ==
    LET dr == data_result_parse(make_parser_input(body))
        normal == data_result_is_normal(dr)
        count == IF normal THEN 0 ELSE (danger_count + 1) % CounterModulus
    IN  IF body = Empty \/ ~copied \/ dr = "error" THEN UNCHANGED <<danger_count, alerts>>
        ELSE IF role = "STREAM"
        THEN /\ danger_count' = count
             /\ alerts' = IF ~normal /\ count >= Threshold THEN alerts + 1 ELSE alerts
        ELSE /\ alerts' = IF ~normal THEN alerts + 1 ELSE alerts
             /\ UNCHANGED danger_count

-----------------------------------------------------------------------------
(* The worker, and the completion handlers it calls. *)

Working(step) == UNCHANGED <<role, app, kind, pends, told, policy_vars>> /\ step

worker_pop == Working(Channel!Take \/ Channel!Exit)

try_connect == Working(Channel!Connect)

(* The request is sent and answered, or fails. *)
process_item == Working(\E o \in {"OK", "SENT_NO_WAIT", "ERR"} : Channel!Finish(o))

(* The end of process_item: on_complete, from which the session does not   *)
(* close the channel's connection.                                         *)
Completes(k, result) ==
    /\ cur # 0 /\ kind[cur] = k /\ over = result.status
    /\ UNCHANGED <<role, app, kind>>
    /\ Channel!Complete(FALSE)

(* Mutant: the pending_send_t is freed after a success only. *)
Tells_frees_if_ok(ok) ==
    /\ told' = Append(told, cur)
    /\ pends' = IF ok THEN pends \ {cur} ELSE pends

(* on_sent, and free(pend). *)
Tells(ok) ==
    /\ told' = Append(told, cur)
    /\ pends' = pends \ {cur}

(* What an answer means to the policy, as session.h and result_policy.h    *)
(* describe it: an echo, command 'I' and no body, starts over; a body      *)
(* without usable result, or one there is no memory for, changes nothing.  *)
IsEcho(result) == result.status = "OK" /\ result.command = "I" /\ result.body = Empty

Meaning(result, copied) ==
    IF \/ ~result.crc_valid \/ ~copied
       \/ result.body \in {Empty, Garbage} \/ result.body.value = "true" THEN "nothing"
    ELSE IF result.body.value = "4" /\ result.body.key # "absent" THEN "normal" ELSE "abnormal"

(* The code asks for the command only, not for the empty body. *)
on_pirin_complete(result) ==
    LET ok == result.status = "OK" /\ result.command = "I"
    IN  /\ Completes("PIRIN", result)
        /\ danger_count' = IF ok THEN 0 ELSE danger_count
        /\ history' = IF IsEcho(result) THEN Append(history, "echo") ELSE history
        /\ Tells(ok)
        /\ UNCHANGED alerts

on_data_complete(result, copied) ==
    /\ Completes("DATA", result)
    /\ IF result.status = "OK" /\ result.command = "R"
       THEN /\ on_response(IF result.crc_valid THEN result.body ELSE Empty, copied)
            /\ history' = Append(history, Meaning(result, copied))
       ELSE UNCHANGED <<danger_count, alerts, history>>
    /\ Tells(result.status = "OK" /\ result.command = "R" /\ result.crc_valid)

(* Mutant: on_sent is only called after a successful send. *)
on_pirout_complete_if_sent(result) ==
    /\ Completes("PIROUT", result)
    /\ IF result.status = "SENT_NO_WAIT" THEN Tells(TRUE)
       ELSE UNCHANGED told /\ pends' = pends \ {cur}
    /\ UNCHANGED <<danger_count, alerts, history>>

on_pirout_complete(result) ==
    /\ Completes("PIROUT", result)
    /\ Tells(result.status = "SENT_NO_WAIT")
    /\ UNCHANGED <<danger_count, alerts, history>>

relay_complete_noop(result) ==
    /\ Completes("RELAY", result)
    /\ UNCHANGED <<pends, told, danger_count, alerts, history>>

-----------------------------------------------------------------------------
Next == \/ start \/ start_create \/ send_pirin \/ send_data \/ send_pirout \/ relay_rknn_result
        \/ (\E by \in {"stop", "destroy"} : stop(by)) \/ stop_cancel \/ stop_return
        \/ worker_pop \/ try_connect \/ process_item
        \/ \E r \in PirinResponses \union {Failure} : on_pirin_complete(r)
        \/ \E r \in Responses \union {Failure}, copied \in BOOLEAN : on_data_complete(r, copied)
        \/ \E r \in {Sent, Failure} : on_pirout_complete(r) \/ relay_complete_noop(r)

SafeSpec == Init /\ [][Next]_vars

-----------------------------------------------------------------------------
(* The abnormal results in the first n answers since the last normal one or *)
(* the last echo.                                                           *)
RunLength(n) ==
    Cardinality({i \in 1..n : /\ history[i] = "abnormal"
                              /\ \A j \in i..n : history[j] \notin {"normal", "echo"}})

(* Stream counts abnormal results in a row, an echo of PIRIN (command 'I',  *)
(* no body) starting over, and alerts on each from the threshold on; Voice  *)
(* alerts on each.  Answers without a usable result, wrong commands,        *)
(* timeouts, relays and their interleaving leave the run as it is, quoted   *)
(* key or not.  (Fewer than 2^32 answers: there the counter wraps.)  It     *)
(* holds of a server whose echoes are bare, the confirmed behaviour of the  *)
(* real one; on_pirin_complete takes every answer 'I' for the echo.         *)
AlertsFollowRuns ==
    LET abnormal == {i \in 1..Len(history) : history[i] = "abnormal"}
    IN  IF role = "STREAM"
        THEN /\ danger_count = RunLength(Len(history))
             /\ alerts = Cardinality({i \in abnormal : RunLength(i) >= Threshold})
        ELSE danger_count = 0 /\ alerts = Cardinality(abnormal)

(* on_sent is called once for each accepted send but a relay, in the order  *)
(* of the calls, and none is skipped: when no worker runs, the sends nobody *)
(* was told about are the ones that stop dropped, and those that wait       *)
(* because a worker is not created yet or could not be.                     *)
OutcomesInOrder ==
    LET owed == {s \in DOMAIN kind : kind[s] # "RELAY"}
        left == {s \in dropped \union Range(queue) : kind[s] # "RELAY"}
    IN  /\ Range(told) \subseteq owed
        /\ \A i, j \in 1..Len(told) : i < j => told[i] < told[j]
        /\ \A s \in owed \ Range(told), t \in Range(told) : t < s
        /\ worker # "run" => owed \ Range(told) = left

(* A pending_send_t exists as long as its request does, and for ever once   *)
(* stop has dropped the request from the queue: those, and no others, leak. *)
PendsAccounted ==
    pends = {s \in Range(queue) \union {cur} \union dropped : s # 0 /\ kind[s] # "RELAY"}

(* Once stop has returned, and before another start, no callback runs, the  *)
(* policy is not touched, and so destroy may free it.                       *)
SilentAfterStop ==
    [][~running /\ app \in {"no", "destroyed"} => UNCHANGED <<told, alerts, danger_count, cur>>]_vars
=============================================================================
