--------------------------- MODULE RequestChannel ---------------------------
(***************************************************************************)
(* What tcp_channel.h promises the session above it, for one controlling   *)
(* thread: accepted requests are processed one at a time and in order,     *)
(* each has one outcome unless stop or destroy drops it first, a relay     *)
(* never opens a connection, and a connection survives only an answer or a *)
(* relay.  No socket, no bytes, no server, no submitting threads.          *)
(* TcpChannel is shown to implement this module; StreamSession uses it.    *)
(***************************************************************************)
EXTENDS Sequences, Functions

CONSTANTS Requests, \* what can be submitted, each once
          Depth,    \* how many requests may wait
          None      \* no request

VARIABLES
    running,   \* between start and stop
    closed,    \* stop has closed the queue, for good
    queue,     \* the requests that wait, oldest first
    kinds,     \* the kind of each request accepted so far
    worker,    \* "none", "run" or "exited"
    cur,       \* the request in its hands
    over,      \* the outcome of cur that on_complete is about to be told, or "no"
    connected, \* what try_relay looks at
    dropped    \* the requests freed without an outcome

vars == <<running, closed, queue, kinds, worker, cur, over, connected, dropped>>

Kinds == {"NORMAL", "FINAL", "RELAY"}

(* The outcomes of a kind, any error being one. *)
Outcomes(k) == {"ERR", IF k = "NORMAL" THEN "OK" ELSE "SENT_NO_WAIT"}

Init == /\ running = FALSE /\ closed = FALSE /\ queue = <<>> /\ kinds = <<>>
        /\ worker = "none" /\ cur = None /\ over = "no" /\ connected = FALSE /\ dropped = {}

(* The channel is RUNNING before it has a worker; it stays without one if  *)
(* the thread cannot be created, which halts it again.                     *)
Start == /\ ~running /\ running' = TRUE
         /\ UNCHANGED <<closed, queue, kinds, worker, cur, over, connected, dropped>>

Spawn == /\ running /\ worker # "run" /\ worker' = "run"
         /\ UNCHANGED <<running, closed, queue, kinds, cur, over, connected, dropped>>

(* A submit that has seen the channel running may be slow: it is accepted  *)
(* as long as the queue is open.                                           *)
Accept(r, k) ==
    /\ r \notin DOMAIN kinds /\ ~closed /\ Len(queue) < Depth
    /\ queue' = Append(queue, r)
    /\ kinds' = [q \in DOMAIN kinds \union {r} |-> IF q = r THEN k ELSE kinds[q]]
    /\ UNCHANGED <<running, closed, worker, cur, over, connected, dropped>>

Take == /\ worker = "run" /\ cur = None /\ queue # <<>>
        /\ cur' = Head(queue) /\ queue' = Tail(queue)
        /\ UNCHANGED <<running, closed, kinds, worker, over, connected, dropped>>

Connect == /\ cur # None /\ over = "no" /\ ~connected /\ kinds[cur] # "RELAY"
           /\ connected' = TRUE
           /\ UNCHANGED <<running, closed, queue, kinds, worker, cur, over, dropped>>

(* The request is over: nothing is sent without a connection. *)
Finish(outcome) ==
    /\ cur # None /\ over = "no" /\ outcome \in Outcomes(kinds[cur])
    /\ outcome # "ERR" => connected
    /\ over' = outcome /\ connected' = (outcome # "ERR" /\ kinds[cur] # "FINAL")
    /\ UNCHANGED <<running, closed, queue, kinds, worker, cur, dropped>>

(* on_complete is called, which may close the session. *)
Complete(close) ==
    /\ over # "no" /\ over' = "no" /\ cur' = None
    /\ connected' = (connected /\ ~close)
    /\ UNCHANGED <<running, closed, queue, kinds, worker, dropped>>

Exit == /\ worker = "run" /\ cur = None /\ queue = <<>> /\ closed
        /\ worker' = "exited" /\ connected' = FALSE
        /\ UNCHANGED <<running, closed, queue, kinds, cur, over, dropped>>

Halt == /\ running /\ running' = FALSE
        /\ UNCHANGED <<closed, queue, kinds, worker, cur, over, connected, dropped>>

(* stop closes the queue and drops what waits; destroy drops it only. *)
Drop(close) ==
    /\ ~running
    /\ queue' = <<>> /\ dropped' = dropped \union Range(queue) /\ closed' = (closed \/ close)
    /\ UNCHANGED <<running, kinds, worker, cur, over, connected>>

Next == \/ Start \/ Spawn \/ Halt \/ Take \/ Connect \/ Exit
        \/ \E r \in Requests, k \in Kinds : Accept(r, k)
        \/ \E o \in {"OK", "SENT_NO_WAIT", "ERR"} : Finish(o)
        \/ \E close \in BOOLEAN : Complete(close) \/ Drop(close)

Spec == Init /\ [][Next]_vars
=============================================================================
