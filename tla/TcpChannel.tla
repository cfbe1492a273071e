----------------------------- MODULE TcpChannel -----------------------------
(***************************************************************************)
(* src/platform/linux/tcp_8141/tcp_channel.c: a request/response channel   *)
(* over one TCP connection, with one worker thread and one bounded queue.  *)
(* Each request is submitted by a thread of its own; Controllers start,    *)
(* stop and destroy the channel; the peer is an external server.           *)
(*                                                                         *)
(* The queue is used through the operations SavvyFifo specifies, each one  *)
(* step.  A response travels as two fragments, so that a recv() can end in *)
(* the middle of it or bring it in one piece.                              *)
(***************************************************************************)
EXTENDS Integers, Sequences, Functions, FiniteSets

CONSTANTS Requests,    \* each submitted at most once
          Controllers, \* the threads that call start, stop and destroy
          Capacity,    \* queue_capacity
          None         \* no request

ASSUME CapacityAssumption == Capacity \in Nat \ {0}
ASSUME NoneAssumption == None \notin Requests

VARIABLES
    lifecycle, stop_requested,  \* "STOPPED", "RUNNING" or (after destroy) "DESTROYED"
    thread,                     \* worker_thread: "none", "joinable" or "joined"
    contents, closed,           \* the queue
    sockfd, connected,          \* "none" or "open"; the atomic flag
    parser, inbox,              \* fragments received and not extracted; not yet received
    peer,                       \* the server: what it has to answer, whether it closed or reads
    wpc, cur, result,           \* the worker: place, request, its result
    sub, kind,                  \* where the submitter of each request is, and what it called
    completions, answer,        \* on_complete calls per request, and the last response it got
    dropped,                    \* requests freed by queue_item_destroy
    ctl, caller                 \* where each controller is; who called the stop it is in

queue_vars == <<contents, closed>>
socket_vars == <<sockfd, connected, parser, inbox, peer>>
worker_vars == <<wpc, cur, result, completions, answer>>
submit_vars == <<sub, kind>>
control_vars == <<lifecycle, stop_requested, thread, ctl, caller>>
vars == <<queue_vars, socket_vars, worker_vars, submit_vars, control_vars, dropped>>

Kinds == {"NORMAL", "FINAL", "RELAY"}

NewPeer == [pending |-> {}, closed |-> FALSE, stalled |-> FALSE]

(* sensor_tcp_channel_create *)
Init ==
    /\ lifecycle = "STOPPED" /\ stop_requested = FALSE /\ thread = "none"
    /\ contents = <<>> /\ closed = FALSE
    /\ sockfd = "none" /\ connected = FALSE /\ parser = <<>> /\ inbox = <<>> /\ peer = NewPeer
    /\ wpc = "none" /\ cur = None /\ result = "none"
    /\ sub = [r \in Requests |-> "new"] /\ kind = [r \in Requests |-> "NORMAL"]
    /\ completions = [r \in Requests |-> 0] /\ answer = [r \in Requests |-> None]
    /\ dropped = {}
    /\ ctl = [c \in Controllers |-> "idle"] /\ caller = [c \in Controllers |-> "stop"]

-----------------------------------------------------------------------------
(* submit, submit_final, try_relay, and enqueue_common behind them. *)

Submitter(r, place) == sub' = [sub EXCEPT ![r] = place]

submit(r, k) ==
    /\ sub[r] = "new" /\ lifecycle # "DESTROYED"
    /\ kind' = [kind EXCEPT ![r] = k]
    /\ Submitter(r, IF k = "RELAY" /\ ~connected THEN "rejected" ELSE "check")
    /\ UNCHANGED <<queue_vars, socket_vars, worker_vars, control_vars, dropped>>

(* Invalid arguments and a failed copy end here too. *)
enqueue_check(r) ==
    /\ sub[r] = "check"
    /\ \/ lifecycle = "RUNNING" /\ Submitter(r, "push")
       \/ Submitter(r, "rejected")
    /\ UNCHANGED <<queue_vars, socket_vars, worker_vars, kind, control_vars, dropped>>

enqueue_push(r) ==
    /\ sub[r] = "push"
    /\ IF closed \/ Len(contents) = Capacity
       THEN Submitter(r, "rejected") /\ UNCHANGED contents
       ELSE Submitter(r, "accepted") /\ contents' = Append(contents, r)
    /\ UNCHANGED <<closed, socket_vars, worker_vars, kind, control_vars, dropped>>

-----------------------------------------------------------------------------
(* start, stop and destroy. *)

Controller(c, place) == ctl' = [ctl EXCEPT ![c] = place]

start(c) ==
    /\ ctl[c] = "idle" /\ lifecycle # "DESTROYED"
    /\ lifecycle' = "RUNNING"
    /\ Controller(c, IF lifecycle = "STOPPED" THEN "start_clear" ELSE "idle")
    /\ UNCHANGED <<queue_vars, socket_vars, worker_vars, submit_vars, stop_requested, thread, caller, dropped>>

start_clear(c) ==
    /\ ctl[c] = "start_clear"
    /\ stop_requested' = FALSE
    /\ Controller(c, "start_create")
    /\ UNCHANGED <<queue_vars, socket_vars, worker_vars, submit_vars, lifecycle, thread, caller, dropped>>

start_create(c) ==
    /\ ctl[c] = "start_create"
    /\ Controller(c, "idle")
    /\ \/ thread' = "joinable" /\ wpc' = "pop" /\ UNCHANGED lifecycle
       \/ lifecycle' = "STOPPED" /\ UNCHANGED <<thread, wpc>> \* pthread_create fails
    /\ UNCHANGED <<queue_vars, socket_vars, cur, result, completions, answer, submit_vars,
                   stop_requested, caller, dropped>>

(* stop, called by the application or by destroy. *)
stop(c, by) ==
    /\ ctl[c] = "idle" /\ lifecycle # "DESTROYED"
    /\ lifecycle' = "STOPPED"
    /\ caller' = [caller EXCEPT ![c] = by]
    /\ Controller(c, IF lifecycle = "RUNNING" THEN "stop_set" ELSE "stop_returned")
    /\ UNCHANGED <<queue_vars, socket_vars, worker_vars, submit_vars, stop_requested, thread, dropped>>

stop_set(c) ==
    /\ ctl[c] = "stop_set"
    /\ stop_requested' = TRUE
    /\ Controller(c, "stop_cancel")
    /\ UNCHANGED <<queue_vars, socket_vars, worker_vars, submit_vars, lifecycle, thread, caller, dropped>>

(* Mutant: the queue is closed but not emptied. *)
stop_cancel_keeps(c) ==
    /\ ctl[c] = "stop_cancel"
    /\ dropped' = dropped \union Range(contents)
    /\ closed' = TRUE
    /\ Controller(c, "stop_join")
    /\ UNCHANGED <<contents, socket_vars, worker_vars, submit_vars, lifecycle, stop_requested, thread, caller>>

stop_cancel(c) ==
    /\ ctl[c] = "stop_cancel"
    /\ dropped' = dropped \union Range(contents)
    /\ contents' = <<>> /\ closed' = TRUE
    /\ Controller(c, "stop_join")
    /\ UNCHANGED <<socket_vars, worker_vars, submit_vars, lifecycle, stop_requested, thread, caller>>

(* Mutant: stop does not wait for the worker. *)
stop_join_nothing(c) ==
    /\ ctl[c] = "stop_join"
    /\ thread' = "joined"
    /\ Controller(c, "stop_returned")
    /\ UNCHANGED <<queue_vars, socket_vars, worker_vars, submit_vars, lifecycle, stop_requested, caller,
                   dropped>>

(* Joining a thread that was never created is undefined; JoinsCreatedThread *)
(* is about that.                                                          *)
stop_join(c) ==
    /\ ctl[c] = "stop_join" /\ wpc = "exited"
    /\ thread' = "joined"
    /\ Controller(c, "stop_returned")
    /\ UNCHANGED <<queue_vars, socket_vars, worker_vars, submit_vars, lifecycle, stop_requested, caller,
                   dropped>>

stop_return(c) ==
    /\ ctl[c] = "stop_returned" /\ caller[c] = "stop"
    /\ Controller(c, "idle")
    /\ UNCHANGED <<queue_vars, socket_vars, worker_vars, submit_vars, lifecycle, stop_requested,
                   thread, caller, dropped>>

(* The rest of destroy: the owner has made sure nobody else is in a call. *)
destroy(c) ==
    /\ ctl[c] = "stop_returned" /\ caller[c] = "destroy"
    /\ \A d \in Controllers \ {c} : ctl[d] = "idle"
    /\ \A r \in Requests : sub[r] \notin {"check", "push"}
    /\ dropped' = dropped \union Range(contents)
    /\ contents' = <<>> /\ lifecycle' = "DESTROYED"
    /\ Controller(c, "idle")
    /\ UNCHANGED <<closed, socket_vars, worker_vars, submit_vars, stop_requested, thread, caller>>

-----------------------------------------------------------------------------
(* The worker. *)

WorkerGoto(place) == wpc' = place /\ UNCHANGED <<cur, result, completions, answer>>

Finish(status) == /\ wpc' = "complete" /\ result' = status
                  /\ UNCHANGED <<cur, completions, answer>>

close_session_internal == sockfd' = "none" /\ connected' = FALSE /\ UNCHANGED <<parser, inbox, peer>>

others == <<submit_vars, control_vars, dropped>>

worker_pop ==
    /\ wpc = "pop"
    /\ \/ /\ contents # <<>>
          /\ cur' = Head(contents) /\ contents' = Tail(contents) /\ wpc' = "begin"
          /\ UNCHANGED <<result, completions, answer>>
       \/ /\ contents = <<>> /\ closed
          /\ WorkerGoto("exit") /\ UNCHANGED contents
    /\ UNCHANGED <<closed, socket_vars, others>>

process_item ==
    /\ wpc = "begin"
    /\ IF sockfd = "open" THEN WorkerGoto("send")
       ELSE IF kind[cur] = "RELAY" THEN Finish("NOT_CONNECTED") ELSE WorkerGoto("connect")
    /\ UNCHANGED <<queue_vars, socket_vars, others>>

(* Mutant: the parser keeps what the last connection left in it. *)
try_connect_keeps_parser ==
    /\ wpc = "connect"
    /\ \/ /\ sockfd' = "open" /\ connected' = TRUE
          /\ inbox' = <<>> /\ peer' = NewPeer /\ UNCHANGED parser
          /\ WorkerGoto("send")
       \/ /\ \/ Finish("IO") \/ Finish("CONNECT_TIMEOUT")
             \/ stop_requested /\ Finish("SHUTTING_DOWN")
          /\ UNCHANGED socket_vars
    /\ UNCHANGED <<queue_vars, others>>

(* A new connection: the parser starts empty, and so does the peer. *)
try_connect ==
    /\ wpc = "connect"
    /\ \/ /\ sockfd' = "open" /\ connected' = TRUE
          /\ parser' = <<>> /\ inbox' = <<>> /\ peer' = NewPeer
          /\ WorkerGoto("send")
       \/ /\ \/ Finish("IO") \/ Finish("CONNECT_TIMEOUT")
             \/ stop_requested /\ Finish("SHUTTING_DOWN")
          /\ UNCHANGED socket_vars
    /\ UNCHANGED <<queue_vars, others>>

(* Mutant: the session stays open after a final packet. *)
send_all_keeps_open ==
    /\ wpc = "send" /\ ~peer.stalled
    /\ peer' = IF peer.closed \/ kind[cur] # "NORMAL" THEN peer
               ELSE [peer EXCEPT !.pending = @ \union {cur}]
    /\ UNCHANGED <<sockfd, connected, parser, inbox>>
    /\ IF kind[cur] = "NORMAL" THEN WorkerGoto("extract") ELSE Finish("SENT_NO_WAIT")
    /\ UNCHANGED <<queue_vars, others>>

(* send_all has no deadline: while the peer does not read, only a stop or a *)
(* broken connection ends it.  The peer gets the request if it still reads. *)
send_all ==
    /\ wpc = "send" /\ ~peer.stalled
    /\ IF kind[cur] = "FINAL" THEN close_session_internal
       ELSE /\ peer' = IF peer.closed \/ kind[cur] = "RELAY" THEN peer
                       ELSE [peer EXCEPT !.pending = @ \union {cur}]
            /\ UNCHANGED <<sockfd, connected, parser, inbox>>
    /\ IF kind[cur] = "NORMAL" THEN WorkerGoto("extract") ELSE Finish("SENT_NO_WAIT")
    /\ UNCHANGED <<queue_vars, others>>

(* Mutant: send_all does not look at stop_requested. *)
send_aborts_on_close ==
    /\ wpc = "send"
    /\ close_session_internal
    /\ peer.closed /\ Finish("DISCONNECTED")
    /\ UNCHANGED <<queue_vars, others>>

send_aborts ==
    /\ wpc = "send"
    /\ close_session_internal
    /\ \/ stop_requested /\ Finish("SHUTTING_DOWN")
       \/ peer.closed /\ Finish("DISCONNECTED")
    /\ UNCHANGED <<queue_vars, others>>

send_fails ==
    /\ wpc = "send"
    /\ close_session_internal /\ Finish("IO")
    /\ UNCHANGED <<queue_vars, others>>

(* savvy_stream_parser_try_extract, at the start of wait_for_response and  *)
(* after every recv: a packet is taken off the front once it is complete;  *)
(* one whose header announces more than the buffer holds is an error.      *)
try_extract ==
    /\ wpc = "extract"
    /\ \/ Len(parser) < 2 /\ WorkerGoto("wait") /\ UNCHANGED socket_vars
       \/ parser # <<>> /\ Finish("PROTOCOL") /\ close_session_internal
       \/ /\ Len(parser) >= 2
          /\ wpc' = "complete" /\ result' = "OK"
          /\ answer' = [answer EXCEPT ![cur] = parser[1][1]]
          /\ parser' = SubSeq(parser, 3, Len(parser))
          /\ UNCHANGED <<cur, completions, sockfd, connected, inbox, peer>>
    /\ UNCHANGED <<queue_vars, others>>

recv ==
    /\ wpc = "wait"
    /\ \E n \in 1..Len(inbox) : /\ parser' = parser \o SubSeq(inbox, 1, n)
                                /\ inbox' = SubSeq(inbox, n + 1, Len(inbox))
    /\ WorkerGoto("extract")
    /\ UNCHANGED <<queue_vars, sockfd, connected, peer, others>>

(* Mutant: there is no response deadline. *)
wait_forever ==
    /\ wpc = "wait"
    /\ close_session_internal
    /\ \/ stop_requested /\ Finish("SHUTTING_DOWN")
       \/ peer.closed /\ inbox = <<>> /\ Finish("DISCONNECTED")
    /\ UNCHANGED <<queue_vars, others>>

(* Among it: what recv brought does not fit the parser's buffer. *)
wait_fails ==
    /\ wpc = "wait"
    /\ close_session_internal
    /\ \/ stop_requested /\ Finish("SHUTTING_DOWN")
       \/ inbox # <<>> /\ Finish("PROTOCOL")
       \/ peer.closed /\ inbox = <<>> /\ Finish("DISCONNECTED")
       \/ Finish("RESPONSE_TIMEOUT")
       \/ Finish("IO")
    /\ UNCHANGED <<queue_vars, others>>

(* The callback, which may call close_session. *)
on_complete ==
    /\ wpc = "complete"
    /\ completions' = [completions EXCEPT ![cur] = @ + 1]
    /\ wpc' = "pop" /\ cur' = None /\ result' = "none"
    /\ close_session_internal \/ UNCHANGED socket_vars
    /\ UNCHANGED <<answer, queue_vars, others>>

worker_exit ==
    /\ wpc = "exit"
    /\ sockfd' = "none" /\ connected' = FALSE
    /\ WorkerGoto("exited")
    /\ UNCHANGED <<parser, inbox, peer, queue_vars, others>>

-----------------------------------------------------------------------------
(* The server: at most one response to each NORMAL request, in any order    *)
(* and at any time, as long as the connection it came on is the current     *)
(* one; what it sends on a closed connection goes nowhere.                 *)

PeerAlive == sockfd = "open" /\ ~peer.closed

peer_answers(r) ==
    /\ PeerAlive /\ r \in peer.pending
    /\ inbox' = inbox \o <<<<r, "head">>, <<r, "tail">>>>
    /\ peer' = [peer EXCEPT !.pending = @ \ {r}]
    /\ UNCHANGED <<queue_vars, sockfd, connected, parser, worker_vars, others>>

peer_closes ==
    /\ PeerAlive
    /\ peer' = [peer EXCEPT !.closed = TRUE]
    /\ UNCHANGED <<queue_vars, sockfd, connected, parser, inbox, worker_vars, others>>

peer_stalls ==
    /\ PeerAlive
    /\ peer' = [peer EXCEPT !.stalled = ~@]
    /\ UNCHANGED <<queue_vars, sockfd, connected, parser, inbox, worker_vars, others>>

-----------------------------------------------------------------------------
SubmitterStep(r) == enqueue_check(r) \/ enqueue_push(r)

(* What the worker does of itself: a socket error is not among it. *)
WorkerStep == \/ worker_pop \/ process_item \/ try_connect \/ send_aborts \/ send_all
              \/ try_extract \/ recv \/ wait_fails \/ on_complete \/ worker_exit

ControllerStep(c) ==
    \/ start_clear(c) \/ start_create(c)
    \/ stop_set(c) \/ stop_cancel(c) \/ stop_join(c) \/ stop_return(c) \/ destroy(c)

PeerStep == (\E r \in Requests : peer_answers(r)) \/ peer_closes \/ peer_stalls

Next == \/ \E r \in Requests : (\E k \in Kinds : submit(r, k)) \/ SubmitterStep(r)
        \/ \E c \in Controllers : start(c) \/ stop(c, "stop") \/ stop(c, "destroy") \/ ControllerStep(c)
        \/ WorkerStep \/ send_fails \/ PeerStep

(* Threads inside a call and the worker go on; the peer may do nothing.    *)
Fairness == /\ \A r \in Requests : WF_vars(SubmitterStep(r))
            /\ \A c \in Controllers : WF_vars(ControllerStep(c))
            /\ WF_vars(WorkerStep)

SafeSpec == Init /\ [][Next]_vars

Spec == SafeSpec /\ Fairness

-----------------------------------------------------------------------------
Num(b) == IF b THEN 1 ELSE 0

(* "Invoked exactly once per accepted submit ... never for a request        *)
(* rejected up front", and not for one dropped by stop or destroy: an       *)
(* accepted request is in exactly one place, once - queued, in process,     *)
(* completed or dropped - and a rejected one in none.                       *)
CompletedOnce ==
    \A r \in Requests :
      Cardinality({i \in DOMAIN contents : contents[i] = r}) + Num(cur = r)
        + completions[r] + Num(r \in dropped) = Num(sub[r] = "accepted")

(* "What prevents a late/stale response for THIS request from being misread *)
(* as the response to the NEXT request": a request that completes with OK   *)
(* has got the server's response to itself, whatever timed out, was cut in  *)
(* the middle or came late before it.                                       *)
ResponseIsOwn == \A r \in Requests : answer[r] \in {None, r}

(* Once stop has joined the worker nothing is left: no queued request that  *)
(* a racing submit slipped in, no socket, no worker behind a destroyed      *)
(* channel.                                                                 *)
StopLeavesNothing ==
    /\ thread = "joined" => wpc = "exited" /\ contents = <<>> /\ sockfd = "none" /\ ~connected
    /\ lifecycle = "DESTROYED" => thread # "joinable" /\ contents = <<>>

(* stop and destroy return, whatever the peer does or does not do.          *)
StopCompletes == \A c \in Controllers : ctl[c] # "idle" ~> ctl[c] = "idle"

(* As long as the peer reads in the end, a request that a worker can get to *)
(* is completed or dropped.                                                 *)
RequestFinishes ==
    <>[]~peer.stalled =>
      \A r \in Requests : sub[r] = "accepted" /\ thread = "joinable"
                            ~> completions[r] = 1 \/ r \in dropped

-----------------------------------------------------------------------------
(* tcp_channel.h: stop is "safe to call from any thread except the          *)
(* channel's own worker thread": the thread it joins exists.                *)
JoinsCreatedThread ==
    \A c \in Controllers : ctl[c] = "stop_join" => thread = "joinable"

=============================================================================
