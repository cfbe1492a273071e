------------------------- MODULE TcpChannel_proofs -------------------------
(***************************************************************************)
(* Proofs about TcpChannel with one controlling thread, for any set of     *)
(* requests and any capacity of the queue: each accepted request has one   *)
(* place, a response is the request's own, and stop leaves nothing behind. *)
(* And that TcpChannel implements RequestChannel, step by step.            *)
(***************************************************************************)
EXTENDS TcpChannelRefinement, FiniteSetTheorems, SequenceTheorems, TLAPS

(* The case of two threads that start and stop the channel is the one      *)
(* JoinsCreatedThread is about.                                            *)
OneController == \E c : Controllers = {c}

Fragments == Requests \X {"head", "tail"}

Response(r) == <<<<r, "head">>, <<r, "tail">>>>

Resting == {"none", "pop", "exit", "exited"}

QueueTypes == /\ closed \in BOOLEAN /\ contents \in Seq(Requests) /\ dropped \in SUBSET Requests

SocketTypes ==
    /\ sockfd \in {"none", "open"} /\ connected \in BOOLEAN
    /\ parser \in Seq(Fragments) /\ inbox \in Seq(Fragments)
    /\ peer \in [pending : SUBSET Requests, closed : BOOLEAN, stalled : BOOLEAN]

WorkerTypes ==
    /\ wpc \in Resting \union {"begin", "connect", "send", "extract", "wait", "complete"}
    /\ cur \in Requests \union {None}
    /\ completions \in [Requests -> Nat] /\ answer \in [Requests -> Requests \union {None}]

SubmitTypes == /\ sub \in [Requests -> {"new", "check", "push", "accepted", "rejected"}]
               /\ kind \in [Requests -> Kinds]

ControlTypes ==
    /\ lifecycle \in {"STOPPED", "RUNNING", "DESTROYED"}
    /\ ctl \in [Controllers -> {"idle", "start_clear", "start_create", "stop_set", "stop_cancel",
                                "stop_join", "stop_returned"}]

Types == QueueTypes /\ SocketTypes /\ WorkerTypes /\ SubmitTypes /\ ControlTypes

(* Where the controlling thread is says what the channel is in. *)
Control ==
    \A c \in Controllers :
      /\ ctl[c] \in {"start_clear", "start_create"} => lifecycle = "RUNNING" /\ wpc \in {"none", "exited"}
      /\ ctl[c] \in {"stop_set", "stop_cancel", "stop_join", "stop_returned"} => lifecycle = "STOPPED"
      /\ ctl[c] = "stop_returned" \/ (ctl[c] = "idle" /\ lifecycle # "RUNNING")
           => wpc \in {"none", "exited"}

(* Where the worker is says which request it has and whether it is         *)
(* connected.                                                              *)
Place ==
    /\ connected <=> sockfd = "open"
    /\ cur = None <=> wpc \in Resting
    /\ wpc = "connect" => sockfd = "none" /\ kind[cur] # "RELAY"
    /\ wpc \in {"send", "extract", "wait"} => sockfd = "open"
    /\ wpc \in {"extract", "wait"} => kind[cur] = "NORMAL"
    /\ closed => contents = <<>>
    /\ wpc = "exit" => closed

(* The places of a request. *)
Queued(r) == \E i \in DOMAIN contents : contents[i] = r

(* A request has one place, in which it is once. *)
OnePlace ==
    /\ \A i, j \in DOMAIN contents : contents[i] = contents[j] => i = j
    /\ \A r \in Requests :
         /\ completions[r] \in {0, 1}
         /\ sub[r] # "accepted" => ~Queued(r) /\ cur # r /\ completions[r] = 0 /\ r \notin dropped
         /\ sub[r] = "accepted" => \/ Queued(r) \/ cur = r \/ completions[r] = 1 \/ r \in dropped
         /\ Queued(r) => cur # r /\ completions[r] = 0 /\ r \notin dropped
         /\ cur = r => completions[r] = 0 /\ r \notin dropped
         /\ completions[r] = 1 => r \notin dropped

(* What is on its way belongs to the request that is waited for. *)
Flow ==
    /\ sockfd = "open" =>
         IF wpc \in {"extract", "wait"}
         THEN \/ peer.pending \subseteq {cur} /\ parser = <<>> /\ inbox = <<>>
              \/ peer.pending = {} /\ parser \o inbox = Response(cur)
         ELSE peer.pending = {} /\ parser = <<>> /\ inbox = <<>>
    /\ ResponseIsOwn

(* The inductive invariant. *)
IInv == Types /\ Control /\ Place /\ OnePlace /\ Flow
-----------------------------------------------------------------------------
(* Fragments put together one after the other. *)
LEMMA Associates ==
    \A s, t, u \in Seq(Fragments) : (s \o t) \o u = s \o (t \o u)
BY ConcatAssociative

(* recv moves fragments from the socket to the parser. *)
LEMMA MovedFragments ==
    ASSUME SocketTypes, NEW n, n \in 1..Len(inbox)
    PROVE  /\ parser \o SubSeq(inbox, 1, n) \in Seq(Fragments)
           /\ SubSeq(inbox, n + 1, Len(inbox)) \in Seq(Fragments)
           /\ (parser \o SubSeq(inbox, 1, n)) \o SubSeq(inbox, n + 1, Len(inbox)) = parser \o inbox
<1> DEFINE a == SubSeq(inbox, 1, n)
           b == SubSeq(inbox, n + 1, Len(inbox))
<1>1. parser \in Seq(Fragments) /\ inbox \in Seq(Fragments) BY Zenon DEF SocketTypes
<1>2. Len(inbox) \in Nat /\ \A i \in 1..Len(inbox) : inbox[i] \in Fragments
  BY Zenon, <1>1, LenProperties, ElementOfSeq
<1>3. a \in Seq(Fragments) /\ b \in Seq(Fragments) BY <1>2, SubSeqProperties
<1>4. a \o b = inbox
  <2>1. a \o b = SubSeq(inbox, 1, Len(inbox)) BY <1>1, <1>2, ConcatAdjacentSubSeq
  <2> QED BY Zenon, <1>1, <2>1, SubSeqFull
<1> HIDE DEF a, b
<1>5. parser \o a \in Seq(Fragments) BY Zenon, <1>1, <1>3, ConcatProperties
<1>6. (parser \o a) \o b = parser \o (a \o b) BY Zenon, <1>1, <1>3, Associates
<1> QED BY Zenon, <1>3, <1>4, <1>5, <1>6 DEF a, b

(* Two fragments in the parser are the whole response that was on its way. *)
LEMMA WholeResponse ==
    ASSUME NEW r \in Requests, NEW s \in Seq(Fragments), NEW t \in Seq(Fragments),
           s \o t = Response(r), Len(s) >= 2
    PROVE  Len(s) = 2 /\ t = <<>> /\ s[1][1] = r
<1>1. Len(s) \in Nat /\ Len(t) \in Nat BY Zenon, LenProperties
<1>2. Len(s \o t) = 2 /\ (s \o t)[1] = <<r, "head">> BY DEF Response
<1>3. Len(s \o t) = Len(s) + Len(t) /\ (s \o t)[1] = s[1] BY <1>1, ConcatProperties
<1> QED BY <1>1, <1>2, <1>3, EmptySeq

(* Dropping what is queued: what stop and destroy do to the requests. *)
LEMMA DropKeepsOnePlace ==
    ASSUME IInv, contents' = <<>>, dropped' = dropped \union Range(contents),
           UNCHANGED <<sub, cur, completions>>
    PROVE  OnePlace' /\ dropped' \in SUBSET Requests
<1> USE DEF IInv
<1>1. \A r \in Requests : r \in dropped' <=> r \in dropped \/ Queued(r) BY Zenon DEF Range, Queued
<1>2. DOMAIN contents' = {} OBVIOUS
<1>3. \A r \in Requests : ~Queued(r)' BY Zenon, <1>2 DEF Queued
<1>4. OnePlace' BY <1>1, <1>2, <1>3 DEF OnePlace
<1>5. \A i \in DOMAIN contents : contents[i] \in Requests
  BY Zenon, LenProperties, ElementOfSeq DEF Types, QueueTypes
<1>6. dropped' \in SUBSET Requests BY Zenon, <1>5 DEF Types, QueueTypes, Range
<1> QED BY Zenon, <1>4, <1>6

(* The threads in submit, submit_final and try_relay keep the invariant. *)
LEMMA SubmittersKeepIInv ==
    ASSUME IInv, NEW r \in Requests, (\E k \in Kinds : submit(r, k)) \/ SubmitterStep(r)
    PROVE  IInv'
<1> USE DEF IInv
<1>1. /\ UNCHANGED <<closed, sockfd, connected, parser, inbox, peer>>
      /\ UNCHANGED <<wpc, cur, completions, answer, lifecycle, ctl, dropped>>
  BY Zenon DEF SubmitterStep, submit, enqueue_check, enqueue_push, queue_vars, socket_vars, worker_vars, control_vars
<1>2. SocketTypes' /\ WorkerTypes' /\ ControlTypes'
  BY <1>1 DEF Types, SocketTypes, WorkerTypes, ControlTypes
<1>3. Control' BY Zenon, <1>1 DEF Control
<1>4. Flow' BY Zenon, <1>1 DEF Flow, ResponseIsOwn, Response
<1>5. ASSUME contents' = contents, sub[r] # "accepted", NEW place \in {"check", "push", "rejected"},
             sub' = [sub EXCEPT ![r] = place], NEW k \in Kinds, kind' = [kind EXCEPT ![r] = k]
      PROVE  IInv'
  <2>1. QueueTypes' BY Zenon, <1>1, <1>5 DEF Types, QueueTypes
  <2>2. SubmitTypes' BY Zenon, <1>5 DEF Types, SubmitTypes
  <2>3. cur # r /\ \A q \in Requests : sub'[q] = "accepted" <=> sub[q] = "accepted"
    BY Zenon, <1>5 DEF OnePlace, Types, SubmitTypes
  <2>4. cur \in Requests => kind'[cur] = kind[cur] BY Zenon, <1>5, <2>3 DEF Types, SubmitTypes
  <2>5. cur = None => wpc \in Resting BY Zenon DEF Place
  <2>6. Place' BY Zenon, <1>1, <1>5, <2>4, <2>5 DEF Types, WorkerTypes, Place, Resting
  <2>7. OnePlace' BY Zenon, <1>1, <1>5, <2>3 DEF OnePlace, Queued
  <2> QED BY Zenon, <1>2, <1>3, <1>4, <2>1, <2>2, <2>6, <2>7 DEF Types
<1>6. ASSUME ~closed, sub[r] = "push", contents' = Append(contents, r),
             sub' = [sub EXCEPT ![r] = "accepted"], kind' = kind
      PROVE  IInv'
  <2>1. QueueTypes' BY Zenon, <1>1, <1>6, AppendProperties DEF Types, QueueTypes
  <2>2. SubmitTypes' BY Zenon, <1>6 DEF Types, SubmitTypes
  <2>3. Place' BY Zenon, <1>1, <1>6 DEF Place
  <2>4. /\ DOMAIN contents = 1..Len(contents) /\ Len(contents) \in Nat
        /\ DOMAIN contents' = 1..(Len(contents) + 1) /\ contents'[Len(contents) + 1] = r
        /\ \A i \in 1..Len(contents) : contents'[i] = contents[i]
    BY <1>6, AppendProperties, LenProperties DEF Types, QueueTypes
  <2>5. \A q \in Requests : Queued(q)' <=> Queued(q) \/ q = r BY <2>4 DEF Queued
  <2>6. ~Queued(r) /\ cur # r /\ completions[r] = 0 /\ r \notin dropped BY Zenon, <1>6 DEF OnePlace
  <2>7. \A i, j \in DOMAIN contents' : contents'[i] = contents'[j] => i = j
    BY <2>4, <2>6 DEF OnePlace, Queued
  <2>8. \A q \in Requests : sub'[q] = IF q = r THEN "accepted" ELSE sub[q] BY Zenon, <1>6 DEF Types, SubmitTypes
  <2>9. OnePlace' BY Zenon, <1>1, <2>5, <2>6, <2>7, <2>8 DEF OnePlace
  <2> QED BY Zenon, <1>2, <1>3, <1>4, <2>1, <2>2, <2>3, <2>9 DEF Types
<1>7. kind = [kind EXCEPT ![r] = kind[r]] /\ kind[r] \in Kinds BY Zenon DEF Types, SubmitTypes
<1>8. ASSUME NEW k \in Kinds, submit(r, k) PROVE IInv'
  BY Zenon, <1>5, <1>8 DEF submit, Submitter, queue_vars
<1>9. CASE enqueue_check(r) BY Zenon, <1>5, <1>7, <1>9 DEF enqueue_check, Submitter, queue_vars
<1>10. CASE enqueue_push(r) BY Zenon, <1>5, <1>6, <1>7, <1>10 DEF enqueue_push, Submitter
<1> QED BY Zenon, <1>8, <1>9, <1>10 DEF SubmitterStep

(* start, stop and destroy, called by one thread, keep the invariant. *)
LEMMA ControllerKeepsIInv ==
    ASSUME OneController, IInv, NEW c \in Controllers,
           start(c) \/ stop(c, "stop") \/ stop(c, "destroy") \/ ControllerStep(c)
    PROVE  IInv'
<1> USE DEF IInv
<1>1. Controllers = {c} BY Zenon, OneController DEF OneController
<1>2. /\ UNCHANGED <<sockfd, connected, parser, inbox, peer>> /\ UNCHANGED <<sub, kind>>
      /\ UNCHANGED <<cur, completions, answer>>
  BY Zenon DEF start, stop, ControllerStep, start_clear, start_create, stop_set, stop_cancel, stop_join,
         stop_return, destroy, submit_vars, socket_vars, worker_vars
<1>3. SocketTypes' /\ SubmitTypes' BY Zenon, <1>2 DEF Types, SocketTypes, SubmitTypes
<1>4. ASSUME UNCHANGED <<contents, closed, dropped>> PROVE QueueTypes' /\ OnePlace'
  BY Zenon, <1>2, <1>4 DEF Types, QueueTypes, OnePlace, Queued
<1>5. ASSUME wpc' = wpc PROVE WorkerTypes' /\ Flow'
  BY Zenon, <1>2, <1>5 DEF Types, WorkerTypes, Flow, ResponseIsOwn, Response
<1>6. ASSUME UNCHANGED <<wpc, contents, closed>> PROVE Place' BY Zenon, <1>2, <1>6 DEF Place
<1>7. ASSUME NEW place, ctl' = [ctl EXCEPT ![c] = place] PROVE ctl'[c] = place
  BY Zenon, <1>7 DEF Types, ControlTypes
<1>8. ASSUME UNCHANGED <<wpc, contents, closed, dropped>>, ControlTypes', Control' PROVE IInv'
  BY Zenon, <1>3, <1>4, <1>5, <1>6, <1>8 DEF Types
<1>9. CASE start(c)
  <2>1. ControlTypes' /\ Control'
    BY Zenon, <1>1, <1>9 DEF Types, ControlTypes, Control, start, Controller, worker_vars
  <2> QED BY Zenon, <1>8, <1>9, <2>1 DEF start, queue_vars, worker_vars
<1>10. CASE start_clear(c)
  <2>1. ControlTypes' /\ Control'
    BY Zenon, <1>1, <1>10 DEF Types, ControlTypes, Control, start_clear, Controller, worker_vars
  <2> QED BY Zenon, <1>8, <1>10, <2>1 DEF start_clear, queue_vars, worker_vars
<1>11. CASE stop(c, "stop") \/ stop(c, "destroy")
  <2>1. ControlTypes' /\ Control'
    BY Zenon, <1>1, <1>11 DEF Types, ControlTypes, Control, stop, Controller, worker_vars
  <2> QED BY Zenon, <1>8, <1>11, <2>1 DEF stop, queue_vars, worker_vars
<1>12. CASE stop_set(c)
  <2>1. ControlTypes' /\ Control'
    BY Zenon, <1>1, <1>12 DEF Types, ControlTypes, Control, stop_set, Controller, worker_vars
  <2> QED BY Zenon, <1>8, <1>12, <2>1 DEF stop_set, queue_vars, worker_vars
<1>13. CASE stop_join(c)
  <2>1. ControlTypes' /\ Control'
    BY Zenon, <1>1, <1>13 DEF Types, ControlTypes, Control, stop_join, Controller, worker_vars
  <2> QED BY Zenon, <1>8, <1>13, <2>1 DEF stop_join, queue_vars, worker_vars
<1>14. CASE stop_return(c)
  <2>1. ControlTypes' /\ Control'
    BY Zenon, <1>1, <1>14 DEF Types, ControlTypes, Control, stop_return, Controller, worker_vars
  <2> QED BY Zenon, <1>8, <1>14, <2>1 DEF stop_return, queue_vars, worker_vars
<1>15. CASE stop_cancel(c) \/ destroy(c)
  <2>1. /\ contents' = <<>> /\ dropped' = dropped \union Range(contents) /\ closed' \in {closed, TRUE}
        /\ wpc' = wpc
    BY Zenon, <1>15 DEF stop_cancel, destroy, worker_vars
  <2>2. ControlTypes' /\ Control'
    BY Zenon, <1>1, <1>15, <2>1 DEF Types, ControlTypes, Control, stop_cancel, destroy, Controller
  <2>3. OnePlace' /\ dropped' \in SUBSET Requests BY Zenon, <1>2, <2>1, DropKeepsOnePlace
  <2>4. QueueTypes' BY Zenon, <2>1, <2>3, EmptySeq DEF Types, QueueTypes
  <2>5. Place' BY Zenon, <1>2, <2>1 DEF Place
  <2> QED BY Zenon, <1>3, <1>5, <2>1, <2>2, <2>3, <2>4, <2>5 DEF Types
<1>16. CASE start_create(c)
  <2>1. UNCHANGED <<contents, closed, dropped>> BY Zenon, <1>16 DEF start_create, queue_vars
  <2>2. wpc \in {"none", "exited"} BY Zenon, <1>16 DEF Control, start_create
  <2>3. wpc' \in {wpc, "pop"} BY Zenon, <1>16 DEF start_create
  <2>4. ControlTypes' /\ Control'
    BY Zenon, <1>1, <1>16, <2>2 DEF Types, ControlTypes, Control, start_create, Controller
  <2>5. WorkerTypes' BY Zenon, <1>2, <2>3 DEF Types, WorkerTypes, Resting
  <2>6. Place' BY Zenon, <1>2, <2>1, <2>2, <2>3 DEF Place, Resting
  <2>7. Flow' BY Zenon, <1>2, <2>2, <2>3 DEF Flow, ResponseIsOwn
  <2> QED BY Zenon, <1>3, <1>4, <2>1, <2>4, <2>5, <2>6, <2>7 DEF Types
<1> QED BY Zenon, <1>9, <1>10, <1>11, <1>12, <1>13, <1>14, <1>15, <1>16 DEF ControllerStep

(* The worker ends a request without a connection: the shape of every      *)
(* error, and of a FINAL request.                                          *)
GivesUp ==
    /\ wpc' = "complete" /\ sockfd' = "none" /\ connected' = FALSE
    /\ UNCHANGED <<parser, inbox, peer, cur, completions, answer, contents, closed, dropped, sub, kind,
                   lifecycle, ctl>>

(* Ending a request without a connection keeps the invariant. *)
LEMMA GivesUpKeepsIInv ==
    ASSUME IInv, wpc \notin Resting, GivesUp
    PROVE  IInv'
<1> USE DEF IInv
<1>1. Types'
  <2> USE DEF Types, GivesUp
  <2>1. SocketTypes' BY Zenon DEF SocketTypes
  <2>2. WorkerTypes' BY Zenon DEF WorkerTypes
  <2> QED BY Zenon, <2>1, <2>2 DEF QueueTypes, SubmitTypes, ControlTypes
<1>2. Control' BY Zenon DEF Control, Resting, GivesUp
<1>3. Place' BY Zenon DEF Place, Resting, GivesUp
<1>4. OnePlace' BY Zenon DEF OnePlace, Queued, GivesUp
<1>5. Flow' BY Zenon DEF Flow, ResponseIsOwn, GivesUp
<1> QED BY Zenon, <1>1, <1>2, <1>3, <1>4, <1>5

(* The worker goes on with its request, or has an answer for it, without a *)
(* change but of where it is and of the socket: three parts of the         *)
(* invariant say nothing of that.                                          *)
Proceeds(place) ==
    /\ wpc' = place
    /\ UNCHANGED <<cur, completions, contents, closed, dropped, sub, kind, lifecycle, ctl>>

(* They are kept. *)
LEMMA ProceedsKeeps ==
    ASSUME IInv, wpc \notin Resting, NEW place, place \notin Resting, Proceeds(place)
    PROVE  QueueTypes' /\ SubmitTypes' /\ ControlTypes' /\ Control' /\ OnePlace'
<1> USE DEF IInv
<1>1. QueueTypes' /\ SubmitTypes' /\ ControlTypes'
  BY Zenon DEF Types, QueueTypes, SubmitTypes, ControlTypes, Proceeds
<1>2. Control' BY Zenon DEF Control, Resting, Proceeds
<1>3. OnePlace' BY Zenon DEF OnePlace, Queued, Proceeds
<1> QED BY Zenon, <1>1, <1>2, <1>3

(* Between worker_pop and on_complete the worker has a request. *)
LEMMA HasRequest == ASSUME IInv, wpc \notin Resting PROVE cur \in Requests
BY Zenon DEF IInv, Types, WorkerTypes, Place

(* The worker's frame, and what it leaves alone. *)
LEMMA Others == others' = others => UNCHANGED <<sub, kind, lifecycle, ctl, dropped>>
BY Zenon DEF others, submit_vars, control_vars

(* process_item keeps the invariant. *)
LEMMA ProcessItemKeepsIInv == ASSUME IInv, process_item PROVE IInv'
<1> USE DEF IInv
<1>1. wpc = "begin" /\ wpc \notin Resting BY Zenon DEF process_item, Resting
<1>2. /\ UNCHANGED <<contents, closed, sockfd, connected, parser, inbox, peer>>
      /\ UNCHANGED <<sub, kind, lifecycle, ctl, dropped>>
      /\ UNCHANGED <<cur, completions, answer>>
  BY Zenon, Others DEF process_item, queue_vars, socket_vars, WorkerGoto, Finish
<1>3. CASE wpc' = "complete" /\ sockfd # "open"
  <2>1. sockfd = "none" /\ connected = FALSE BY Zenon, <1>3 DEF Types, SocketTypes, Place
  <2>2. GivesUp BY Zenon, <1>2, <1>3, <2>1 DEF GivesUp
  <2> QED BY Zenon, <1>1, <2>2, GivesUpKeepsIInv
<1>4. CASE \/ wpc' = "send" /\ sockfd = "open"
           \/ wpc' = "connect" /\ sockfd # "open" /\ kind[cur] # "RELAY"
  <2>1. Proceeds(wpc') /\ wpc' \notin Resting BY Zenon, <1>2, <1>4 DEF Proceeds, Resting
  <2>2. QueueTypes' /\ SubmitTypes' /\ ControlTypes' /\ Control' /\ OnePlace' BY Zenon, <1>1, <2>1, ProceedsKeeps
  <2>3. SocketTypes' BY Zenon, <1>2 DEF Types, SocketTypes
  <2>4. WorkerTypes' BY Zenon, <1>2, <1>4 DEF Types, WorkerTypes
  <2>5. Place' BY Zenon, <1>1, <1>2, <1>4 DEF Types, SocketTypes, Place, Resting
  <2>6. Flow' BY Zenon, <1>1, <1>2, <1>4 DEF Flow, ResponseIsOwn
  <2> QED BY Zenon, <2>2, <2>3, <2>4, <2>5, <2>6 DEF Types
<1> QED BY Zenon, <1>3, <1>4 DEF process_item, WorkerGoto, Finish

(* try_connect keeps the invariant. *)
LEMMA TryConnectKeepsIInv == ASSUME IInv, try_connect PROVE IInv'
<1> USE DEF IInv
<1>1. wpc = "connect" /\ wpc \notin Resting BY Zenon DEF try_connect, Resting
<1>2. /\ UNCHANGED <<contents, closed>> /\ UNCHANGED <<sub, kind, lifecycle, ctl, dropped>>
      /\ UNCHANGED <<cur, completions, answer>>
  BY Zenon, Others DEF try_connect, queue_vars, WorkerGoto, Finish
<1>3. CASE wpc' = "complete" /\ UNCHANGED socket_vars
  <2>1. GivesUp BY <1>1, <1>2, <1>3 DEF GivesUp, Place, socket_vars
  <2> QED BY Zenon, <1>1, <2>1, GivesUpKeepsIInv
<1>4. CASE /\ wpc' = "send" /\ sockfd' = "open" /\ connected' = TRUE
           /\ parser' = <<>> /\ inbox' = <<>> /\ peer' = NewPeer
  <2>1. Proceeds("send") /\ "send" \notin Resting BY Zenon, <1>2, <1>4 DEF Proceeds, Resting
  <2>2. QueueTypes' /\ SubmitTypes' /\ ControlTypes' /\ Control' /\ OnePlace' BY Zenon, <1>1, <2>1, ProceedsKeeps
  <2>3. NewPeer \in [pending : SUBSET Requests, closed : BOOLEAN, stalled : BOOLEAN] BY Zenon DEF NewPeer
  <2>4. SocketTypes' BY Zenon, <1>4, <2>3, EmptySeq DEF SocketTypes
  <2>5. WorkerTypes' BY Zenon, <1>2, <1>4 DEF Types, WorkerTypes
  <2>6. Place' BY Zenon, <1>1, <1>2, <1>4 DEF Place, Resting
  <2>7. NewPeer.pending = {} BY Zenon DEF NewPeer
  <2>8. Flow' BY Zenon, <1>2, <1>4, <2>7 DEF Flow, ResponseIsOwn
  <2> QED BY Zenon, <2>2, <2>4, <2>5, <2>6, <2>8 DEF Types
<1> QED BY Zenon, <1>3, <1>4 DEF try_connect, WorkerGoto, Finish

(* send_all keeps the invariant. *)
LEMMA SendAllKeepsIInv == ASSUME IInv, send_all PROVE IInv'
<1> USE DEF IInv
<1>1. wpc = "send" /\ wpc \notin Resting BY Zenon DEF send_all, Resting
<1>2. /\ UNCHANGED <<contents, closed>> /\ UNCHANGED <<sub, kind, lifecycle, ctl, dropped>>
      /\ UNCHANGED <<cur, completions, answer, parser, inbox>>
  BY Zenon, Others DEF send_all, queue_vars, WorkerGoto, Finish, close_session_internal
<1>3. CASE kind[cur] = "FINAL"
  <2>1. GivesUp BY Zenon, <1>2, <1>3 DEF GivesUp, send_all, Finish, close_session_internal
  <2> QED BY Zenon, <1>1, <2>1, GivesUpKeepsIInv
<1>4. CASE kind[cur] # "FINAL"
  <2>1. /\ wpc' = IF kind[cur] = "NORMAL" THEN "extract" ELSE "complete"
        /\ UNCHANGED <<sockfd, connected>>
        /\ peer' = IF peer.closed \/ kind[cur] = "RELAY" THEN peer
                   ELSE [peer EXCEPT !.pending = @ \union {cur}]
    BY Zenon, <1>4 DEF send_all, WorkerGoto, Finish
  <2>2. Proceeds(wpc') /\ wpc' \notin Resting BY Zenon, <1>2, <2>1 DEF Proceeds, Resting
  <2>3. QueueTypes' /\ SubmitTypes' /\ ControlTypes' /\ Control' /\ OnePlace' BY Zenon, <1>1, <2>2, ProceedsKeeps
  <2>4. cur \in Requests /\ kind[cur] \in {"NORMAL", "RELAY"}
    BY Zenon, <1>1, <1>4, HasRequest DEF Types, SubmitTypes, Kinds
  <2>5. /\ peer' \in [pending : SUBSET Requests, closed : BOOLEAN, stalled : BOOLEAN]
        /\ peer'.pending \subseteq peer.pending \union {cur}
        /\ kind[cur] = "RELAY" => peer' = peer
    BY Zenon, <2>1, <2>4 DEF Types, SocketTypes
  <2>6. SocketTypes' BY Zenon, <1>2, <2>1, <2>5 DEF Types, SocketTypes
  <2>7. WorkerTypes' BY Zenon, <1>2, <2>1 DEF Types, WorkerTypes
  <2>8. Place' BY Zenon, <1>1, <1>2, <2>1 DEF Place, Resting
  <2>9. peer.pending = {} /\ parser = <<>> /\ inbox = <<>> BY Zenon, <1>1 DEF Place, Flow
  <2>10. Flow' BY Zenon, <1>2, <2>1, <2>4, <2>5, <2>9 DEF Flow, ResponseIsOwn
  <2> QED BY Zenon, <2>3, <2>6, <2>7, <2>8, <2>10 DEF Types
<1> QED BY Zenon, <1>3, <1>4

(* A send or a wait that fails, in whichever way, keeps the invariant. *)
LEMMA FailureKeepsIInv == ASSUME IInv, send_aborts \/ send_fails \/ wait_fails PROVE IInv'
<1>1. wpc \notin Resting BY Zenon DEF send_aborts, send_fails, wait_fails, Resting
<1>2. wpc' = "complete" /\ UNCHANGED <<cur, completions, answer>>
  BY Zenon DEF send_aborts, send_fails, wait_fails, Finish
<1>3. close_session_internal /\ UNCHANGED queue_vars /\ UNCHANGED others
  BY Zenon DEF send_aborts, send_fails, wait_fails
<1>4. GivesUp BY Zenon, <1>2, <1>3, Others DEF GivesUp, close_session_internal, queue_vars
<1> QED BY Zenon, <1>1, <1>4, GivesUpKeepsIInv

(* try_extract keeps the invariant: what it takes off the parser is the    *)
(* response to the request in process.                                     *)
LEMMA TryExtractKeepsIInv == ASSUME IInv, try_extract PROVE IInv'
<1> USE DEF IInv
<1>1. wpc = "extract" /\ wpc \notin Resting BY Zenon DEF try_extract, Resting
<1>2. UNCHANGED <<contents, closed>> /\ UNCHANGED <<sub, kind, lifecycle, ctl, dropped>>
  BY Zenon, Others DEF try_extract, queue_vars
<1>3. CASE Finish("PROTOCOL") /\ close_session_internal
  <2>1. GivesUp BY Zenon, <1>2, <1>3 DEF GivesUp, Finish, close_session_internal
  <2> QED BY Zenon, <1>1, <2>1, GivesUpKeepsIInv
<1>4. CASE WorkerGoto("wait") /\ UNCHANGED socket_vars
  <2>1. wpc' = "wait" /\ UNCHANGED <<cur, completions, answer, sockfd, connected, parser, inbox, peer>>
    BY Zenon, <1>4 DEF WorkerGoto, socket_vars
  <2>2. Proceeds("wait") /\ "wait" \notin Resting BY Zenon, <1>2, <2>1 DEF Proceeds, Resting
  <2>3. QueueTypes' /\ SubmitTypes' /\ ControlTypes' /\ Control' /\ OnePlace' BY Zenon, <1>1, <2>2, ProceedsKeeps
  <2>4. SocketTypes' /\ WorkerTypes' BY Zenon, <2>1 DEF Types, SocketTypes, WorkerTypes
  <2>5. Place' BY Zenon, <1>1, <1>2, <2>1 DEF Place, Resting
  <2>6. Flow' BY Zenon, <1>1, <2>1 DEF Flow, ResponseIsOwn, Response
  <2> QED BY Zenon, <2>3, <2>4, <2>5, <2>6 DEF Types
<1>5. CASE /\ Len(parser) >= 2 /\ wpc' = "complete"
           /\ answer' = [answer EXCEPT ![cur] = parser[1][1]]
           /\ parser' = SubSeq(parser, 3, Len(parser))
           /\ UNCHANGED <<cur, completions, sockfd, connected, inbox, peer>>
  <2>1. cur \in Requests BY Zenon, <1>1, HasRequest
  <2>2. sockfd = "open" /\ parser # <<>> BY <1>1, <1>5, EmptySeq DEF Place
  <2>3. peer.pending = {} /\ parser \o inbox = Response(cur) BY Zenon, <1>1, <2>2 DEF Flow
  <2>4. Len(parser) = 2 /\ inbox = <<>> /\ parser[1][1] = cur
    BY Zenon, <1>5, <2>1, <2>3, WholeResponse DEF Types, SocketTypes
  <2>5. parser' = <<>> BY <1>5, <2>4, SubSeqEmpty
  <2>6. Proceeds("complete") /\ "complete" \notin Resting BY Zenon, <1>2, <1>5 DEF Proceeds, Resting
  <2>7. QueueTypes' /\ SubmitTypes' /\ ControlTypes' /\ Control' /\ OnePlace' BY Zenon, <1>1, <2>6, ProceedsKeeps
  <2>8. SocketTypes' BY Zenon, <1>5, <2>5, EmptySeq DEF Types, SocketTypes
  <2>9. WorkerTypes' BY Zenon, <1>5, <2>1, <2>4 DEF Types, WorkerTypes
  <2>10. Place' BY Zenon, <1>1, <1>2, <1>5 DEF Place, Resting
  <2>11. ResponseIsOwn' BY Zenon, <1>5, <2>1, <2>4 DEF Types, WorkerTypes, Flow, ResponseIsOwn
  <2>12. Flow' BY Zenon, <1>5, <2>3, <2>4, <2>5, <2>11 DEF Flow
  <2> QED BY Zenon, <2>7, <2>8, <2>9, <2>10, <2>12 DEF Types
<1> QED BY Zenon, <1>3, <1>4, <1>5 DEF try_extract

(* recv keeps the invariant. *)
LEMMA RecvKeepsIInv == ASSUME IInv, recv PROVE IInv'
<1> USE DEF IInv
<1>1. wpc = "wait" /\ wpc \notin Resting BY Zenon DEF recv, Resting
<1>2. /\ UNCHANGED <<contents, closed, sockfd, connected, peer>>
      /\ UNCHANGED <<sub, kind, lifecycle, ctl, dropped>>
      /\ wpc' = "extract" /\ UNCHANGED <<cur, completions, answer>>
  BY Zenon, Others DEF recv, queue_vars, WorkerGoto
<1>3. PICK n \in 1..Len(inbox) : /\ parser' = parser \o SubSeq(inbox, 1, n)
                                 /\ inbox' = SubSeq(inbox, n + 1, Len(inbox))
  BY Zenon DEF recv
<1>4. parser \in Seq(Fragments) /\ inbox \in Seq(Fragments) BY Zenon DEF Types, SocketTypes
<1>5. parser' \in Seq(Fragments) /\ inbox' \in Seq(Fragments) /\ parser' \o inbox' = parser \o inbox
  <2>1. /\ parser \o SubSeq(inbox, 1, n) \in Seq(Fragments)
        /\ SubSeq(inbox, n + 1, Len(inbox)) \in Seq(Fragments)
        /\ (parser \o SubSeq(inbox, 1, n)) \o SubSeq(inbox, n + 1, Len(inbox)) = parser \o inbox
    BY Zenon, MovedFragments DEF Types
  <2> QED BY <1>3, <2>1, Zenon
<1>6. inbox # <<>> BY <1>3, EmptySeq
<1>7. Proceeds("extract") /\ "extract" \notin Resting BY Zenon, <1>2 DEF Proceeds, Resting
<1>8. QueueTypes' /\ SubmitTypes' /\ ControlTypes' /\ Control' /\ OnePlace' BY Zenon, <1>1, <1>7, ProceedsKeeps
<1>9. SocketTypes' BY Zenon, <1>2, <1>5 DEF Types, SocketTypes
<1>10. WorkerTypes' BY Zenon, <1>2 DEF Types, WorkerTypes
<1>11. Place' BY Zenon, <1>1, <1>2 DEF Place, Resting
<1>12. Flow' BY Zenon, <1>1, <1>2, <1>5, <1>6 DEF Place, Flow, ResponseIsOwn, Response
<1> QED BY Zenon, <1>8, <1>9, <1>10, <1>11, <1>12 DEF Types

(* worker_pop keeps the invariant: the request leaves the queue's front    *)
(* for the worker's hands.                                                 *)
LEMMA WorkerPopKeepsIInv == ASSUME IInv, worker_pop PROVE IInv'
<1> USE NoneAssumption DEF IInv
<1>1. /\ wpc = "pop" /\ cur = None
      /\ UNCHANGED <<closed, sockfd, connected, parser, inbox, peer>>
      /\ UNCHANGED <<sub, kind, lifecycle, ctl, dropped>> /\ UNCHANGED <<completions, answer>>
  BY Zenon, Others DEF worker_pop, socket_vars, WorkerGoto, Place, Resting
<1>2. SocketTypes' /\ SubmitTypes' /\ ControlTypes'
  BY Zenon, <1>1 DEF Types, SocketTypes, SubmitTypes, ControlTypes
<1>3. CASE contents = <<>>
  <2>1. wpc' = "exit" /\ closed /\ UNCHANGED <<cur, contents>> BY Zenon, <1>3 DEF worker_pop, WorkerGoto
  <2>2. QueueTypes' /\ WorkerTypes' BY Zenon, <1>1, <2>1 DEF Types, QueueTypes, WorkerTypes, Resting
  <2>3. Control' BY Zenon, <1>1, <2>1 DEF Control
  <2>4. Place' BY Zenon, <1>1, <2>1 DEF Place, Resting
  <2>5. OnePlace' BY Zenon, <1>1, <2>1 DEF OnePlace, Queued
  <2>6. Flow' BY Zenon, <1>1, <2>1 DEF Flow, ResponseIsOwn
  <2> QED BY Zenon, <1>2, <2>2, <2>3, <2>4, <2>5, <2>6 DEF Types
<1>4. CASE contents # <<>>
  <2>1. cur' = Head(contents) /\ contents' = Tail(contents) /\ wpc' = "begin"
    BY Zenon, <1>4 DEF worker_pop
  <2>2. /\ DOMAIN contents = 1..Len(contents) /\ Len(contents) \in Nat \ {0}
        /\ \A i \in 1..Len(contents) : contents[i] \in Requests
    BY Zenon, <1>4, LenProperties, EmptySeq, ElementOfSeq DEF Types, QueueTypes
  <2>3. /\ contents' \in Seq(Requests) /\ DOMAIN contents' = 1..(Len(contents) - 1)
        /\ \A i \in 1..(Len(contents) - 1) : contents'[i] = contents[i + 1]
    BY Zenon, <1>4, <2>1, HeadTailProperties, LenProperties DEF Types, QueueTypes
  <2>4. cur' = contents[1] /\ cur' \in Requests BY <1>4, <2>1, <2>2
  <2>5. QueueTypes' /\ WorkerTypes' BY Zenon, <1>1, <2>1, <2>3, <2>4 DEF Types, QueueTypes, WorkerTypes
  <2>6. Control' BY Zenon, <1>1, <2>1 DEF Control
  <2>7. Place' BY Zenon, <1>1, <1>4, <2>1, <2>4 DEF Place, Resting
  <2>8. \A i, j \in DOMAIN contents' : contents'[i] = contents'[j] => i = j
    <3>1. SUFFICES ASSUME NEW i \in DOMAIN contents', NEW j \in DOMAIN contents',
                          contents'[i] = contents'[j]
                   PROVE  i = j
      BY Zenon
    <3>2. /\ i \in Int /\ j \in Int /\ i + 1 \in DOMAIN contents /\ j + 1 \in DOMAIN contents
          /\ contents[i + 1] = contents[j + 1]
      BY <3>1, <2>2, <2>3
    <3>3. i + 1 = j + 1 BY Zenon, <3>2 DEF OnePlace
    <3> QED BY <3>2, <3>3
  <2>9. \A r \in Requests : Queued(r)' \/ cur' = r => Queued(r)
    <3>1. SUFFICES ASSUME NEW r \in Requests, Queued(r)' \/ cur' = r
                   PROVE  \E i \in DOMAIN contents : contents[i] = r
      BY Zenon DEF Queued
    <3>2. CASE cur' = r
      <4>1. 1 \in DOMAIN contents BY <2>2
      <4> QED BY Zenon, <3>2, <2>4, <4>1
    <3>3. CASE Queued(r)'
      <4>1. PICK i \in DOMAIN contents' : contents'[i] = r BY Zenon, <3>3 DEF Queued
      <4>2. i + 1 \in DOMAIN contents /\ contents[i + 1] = r BY <4>1, <2>2, <2>3
      <4> QED BY Zenon, <4>2
    <3> QED BY Zenon, <3>1, <3>2, <3>3
  <2>10. \A r \in Requests : Queued(r) => Queued(r)' \/ cur' = r
    <3>1. SUFFICES ASSUME NEW r \in Requests, Queued(r), cur' # r
                   PROVE  \E i \in DOMAIN contents' : contents'[i] = r
      BY Zenon DEF Queued
    <3>2. PICK i \in DOMAIN contents : contents[i] = r BY Zenon, <3>1 DEF Queued
    <3>3. i # 1 BY Zenon, <3>1, <3>2, <2>4
    <3>4. i - 1 \in DOMAIN contents' /\ contents'[i - 1] = r BY <3>2, <3>3, <2>2, <2>3
    <3> QED BY Zenon, <3>4
  <2>11. \A r \in Requests : cur' = r => ~Queued(r)'
    <3>1. SUFFICES ASSUME NEW i \in DOMAIN contents', contents'[i] = contents[1] PROVE FALSE
      BY Zenon, <2>4 DEF Queued
    <3>2. i + 1 \in DOMAIN contents /\ 1 \in DOMAIN contents /\ i + 1 # 1 /\ contents[i + 1] = contents[1]
      BY <3>1, <2>2, <2>3
    <3> QED BY Zenon, <3>2 DEF OnePlace
  <2>12. \A r \in Requests : cur # r BY Zenon, <1>1
  <2>13. OnePlace' BY Zenon, <1>1, <2>8, <2>9, <2>10, <2>11, <2>12 DEF OnePlace
  <2>14. Flow' BY Zenon, <1>1, <2>1 DEF Flow, ResponseIsOwn
  <2> QED BY Zenon, <1>2, <2>5, <2>6, <2>7, <2>13, <2>14 DEF Types
<1> QED BY Zenon, <1>3, <1>4

(* on_complete keeps the invariant: what was in process is completed. *)
LEMMA OnCompleteKeepsIInv == ASSUME IInv, on_complete PROVE IInv'
<1> USE NoneAssumption DEF IInv
<1>1. wpc = "complete" /\ wpc' = "pop" /\ cur' = None BY Zenon DEF on_complete
<1>2. completions' = [completions EXCEPT ![cur] = @ + 1] BY Zenon DEF on_complete
<1>3. UNCHANGED <<contents, closed>> /\ UNCHANGED <<sub, kind, lifecycle, ctl, dropped>>
  BY Zenon, Others DEF on_complete, queue_vars
<1>4. UNCHANGED <<answer, parser, inbox, peer>> BY Zenon DEF on_complete, close_session_internal, socket_vars
<1>5. (sockfd' = "none" /\ connected' = FALSE) \/ UNCHANGED <<sockfd, connected>>
  BY Zenon DEF on_complete, close_session_internal, socket_vars
<1>6. cur \in Requests BY Zenon, <1>1, HasRequest DEF Resting
<1>7. \A r \in Requests : completions'[r] = IF r = cur THEN 1 ELSE completions[r]
  BY <1>2, <1>6 DEF Types, WorkerTypes, OnePlace
<1>8. QueueTypes' /\ SubmitTypes' /\ ControlTypes'
  BY Zenon, <1>3 DEF Types, QueueTypes, SubmitTypes, ControlTypes
<1>9. SocketTypes' BY ZenonT(30), <1>4, <1>5 DEF Types, SocketTypes
<1>10. WorkerTypes' BY <1>1, <1>2, <1>4, <1>6 DEF Types, WorkerTypes, Resting
<1>11. Control' BY Zenon, <1>1, <1>3 DEF Control
<1>12. Place' BY <1>1, <1>3, <1>5 DEF Place, Resting
<1>13. \A r \in Requests : Queued(r)' <=> Queued(r) BY Zenon, <1>3 DEF Queued
<1>14. OnePlace' BY Zenon, <1>1, <1>3, <1>6, <1>7, <1>13 DEF OnePlace
<1>15. Flow' BY Zenon, <1>1, <1>4, <1>5 DEF Flow, ResponseIsOwn
<1> QED BY Zenon, <1>8, <1>9, <1>10, <1>11, <1>12, <1>14, <1>15 DEF Types

(* The exit of the worker keeps the invariant. *)
LEMMA WorkerExitKeepsIInv == ASSUME IInv, worker_exit PROVE IInv'
<1> USE DEF IInv
<1>1. /\ wpc = "exit" /\ wpc' = "exited" /\ sockfd' = "none" /\ connected' = FALSE
      /\ UNCHANGED <<cur, completions, answer, parser, inbox, peer, contents, closed>>
      /\ UNCHANGED <<sub, kind, lifecycle, ctl, dropped>>
  BY Zenon, Others DEF worker_exit, WorkerGoto, queue_vars
<1>2. QueueTypes' /\ SubmitTypes' /\ ControlTypes'
  BY Zenon, <1>1 DEF Types, QueueTypes, SubmitTypes, ControlTypes
<1>3. SocketTypes' /\ WorkerTypes' BY Zenon, <1>1 DEF Types, SocketTypes, WorkerTypes, Resting
<1>4. Control' BY Zenon, <1>1 DEF Control
<1>5. Place' BY Zenon, <1>1 DEF Place, Resting
<1>6. OnePlace' BY Zenon, <1>1 DEF OnePlace, Queued
<1>7. Flow' BY Zenon, <1>1 DEF Flow, ResponseIsOwn
<1> QED BY Zenon, <1>2, <1>3, <1>4, <1>5, <1>6, <1>7 DEF Types

(* The server keeps the invariant: it answers what is waited for. *)
LEMMA PeerKeepsIInv == ASSUME IInv, PeerStep PROVE IInv'
<1> USE DEF IInv
<1>1. /\ UNCHANGED <<contents, closed, sockfd, connected, parser>>
      /\ UNCHANGED <<wpc, cur, completions, answer>> /\ UNCHANGED <<sub, kind, lifecycle, ctl, dropped>>
  BY Zenon, Others DEF PeerStep, peer_answers, peer_closes, peer_stalls, queue_vars, worker_vars
<1>2. QueueTypes' /\ WorkerTypes' /\ SubmitTypes' /\ ControlTypes'
  BY Zenon, <1>1 DEF Types, QueueTypes, WorkerTypes, SubmitTypes, ControlTypes
<1>3. Control' BY Zenon, <1>1 DEF Control
<1>4. Place' BY Zenon, <1>1 DEF Place
<1>5. OnePlace' BY Zenon, <1>1 DEF OnePlace, Queued
<1>6. ASSUME NEW r \in Requests, peer_answers(r) PROVE SocketTypes' /\ Flow'
  <2>1. sockfd = "open" /\ r \in peer.pending BY Zenon, <1>6 DEF peer_answers, PeerAlive
  <2>2. /\ wpc \in {"extract", "wait"} /\ peer.pending \subseteq {cur} /\ r = cur
        /\ parser = <<>> /\ inbox = <<>>
    BY Zenon, <2>1 DEF Flow
  <2>3. Response(r) \in Seq(Fragments) BY DEF Response, Fragments
  <2>4. inbox' = inbox \o Response(r) BY Zenon, <1>6 DEF peer_answers, Response
  <2>5. inbox' = Response(r) BY Zenon, <2>2, <2>3, <2>4, ConcatEmptySeq
  <2>6. peer' = [peer EXCEPT !.pending = @ \ {r}] BY Zenon, <1>6 DEF peer_answers
  <2>7. /\ peer' \in [pending : SUBSET Requests, closed : BOOLEAN, stalled : BOOLEAN]
        /\ peer'.pending = {}
    BY Zenon, <2>2, <2>6 DEF Types, SocketTypes
  <2>8. SocketTypes' BY Zenon, <1>1, <2>3, <2>5, <2>7 DEF Types, SocketTypes
  <2>9. parser' \o inbox' = Response(cur) BY Zenon, <1>1, <2>2, <2>3, <2>5, ConcatEmptySeq
  <2>10. Flow' BY Zenon, <1>1, <2>2, <2>7, <2>9 DEF Flow, ResponseIsOwn, Response
  <2> QED BY Zenon, <2>8, <2>10
<1>7. ASSUME peer_closes \/ peer_stalls PROVE SocketTypes' /\ Flow'
  <2>1. /\ inbox' = inbox /\ peer'.pending = peer.pending
        /\ peer' \in [pending : SUBSET Requests, closed : BOOLEAN, stalled : BOOLEAN]
    BY Zenon, <1>7 DEF peer_closes, peer_stalls, Types, SocketTypes
  <2>2. SocketTypes' BY Zenon, <1>1, <2>1 DEF Types, SocketTypes
  <2>3. Flow' BY Zenon, <1>1, <2>1 DEF Flow, ResponseIsOwn, Response
  <2> QED BY Zenon, <2>2, <2>3
<1>8. SocketTypes' /\ Flow' BY Zenon, <1>6, <1>7 DEF PeerStep
<1> QED BY Zenon, <1>2, <1>3, <1>4, <1>5, <1>8 DEF Types

-----------------------------------------------------------------------------
(* The channel that sensor_tcp_channel_create returns satisfies the        *)
(* invariant.                                                              *)
LEMMA InitIInv == Init => IInv
<1> SUFFICES ASSUME Init PROVE IInv BY Zenon
<1>1. NewPeer \in [pending : SUBSET Requests, closed : BOOLEAN, stalled : BOOLEAN] BY Zenon DEF NewPeer
<1>2. Types
  <2>1. QueueTypes BY Zenon, EmptySeq DEF Init, QueueTypes
  <2>2. SocketTypes BY Zenon, <1>1, EmptySeq DEF Init, SocketTypes
  <2>3. WorkerTypes BY Zenon DEF Init, WorkerTypes, Resting
  <2>4. SubmitTypes BY Zenon DEF Init, SubmitTypes, Kinds
  <2>5. ControlTypes BY Zenon DEF Init, ControlTypes
  <2> QED BY Zenon, <2>1, <2>2, <2>3, <2>4, <2>5 DEF Types
<1>3. Control BY Zenon DEF Init, Control
<1>4. Place BY Zenon DEF Init, Place, Resting
<1>5. DOMAIN contents = {} BY DEF Init
<1>6. OnePlace BY Zenon, <1>5, NoneAssumption DEF Init, OnePlace, Queued
<1>7. Flow BY Zenon DEF Init, Flow, ResponseIsOwn
<1> QED BY Zenon, <1>2, <1>3, <1>4, <1>6, <1>7 DEF IInv

(* Every step keeps the invariant. *)
LEMMA NextIInv == ASSUME OneController, IInv, [Next]_vars PROVE IInv'
<1>1. CASE UNCHANGED vars
  <2>1. /\ UNCHANGED <<contents, closed>> /\ UNCHANGED <<sockfd, connected, parser, inbox, peer>>
        /\ UNCHANGED <<wpc, cur, completions, answer>> /\ UNCHANGED <<sub, kind, lifecycle, ctl, dropped>>
    BY Zenon, <1>1 DEF vars, queue_vars, socket_vars, worker_vars, submit_vars, control_vars
  <2>2. Types' BY <2>1 DEF IInv, Types, QueueTypes, SocketTypes, WorkerTypes, SubmitTypes, ControlTypes
  <2>3. Control' /\ Place' BY Zenon, <2>1 DEF IInv, Control, Place
  <2>4. OnePlace' BY Zenon, <2>1 DEF IInv, OnePlace, Queued
  <2>5. Flow' BY Zenon, <2>1 DEF IInv, Flow, ResponseIsOwn, Response
  <2> QED BY Zenon, <2>2, <2>3, <2>4, <2>5 DEF IInv
<1>2. CASE WorkerStep \/ send_fails
  BY Zenon, <1>2, WorkerPopKeepsIInv, ProcessItemKeepsIInv, TryConnectKeepsIInv, FailureKeepsIInv,
     SendAllKeepsIInv, TryExtractKeepsIInv, RecvKeepsIInv, OnCompleteKeepsIInv, WorkerExitKeepsIInv
     DEF WorkerStep
<1> QED BY Zenon, <1>1, <1>2, SubmittersKeepIInv, ControllerKeepsIInv, PeerKeepsIInv DEF Next

-----------------------------------------------------------------------------
(* What the end of stop and of destroy rests on. *)
Stopped ==
    /\ thread = "joined" => wpc = "exited" /\ closed
    /\ wpc = "exited" => sockfd = "none"
    /\ \A c \in Controllers :
         /\ ctl[c] = "stop_join" => closed
         /\ ctl[c] \in {"start_clear", "start_create", "stop_returned"}
              \/ (ctl[c] = "idle" /\ lifecycle # "RUNNING") => thread # "joinable"
    /\ lifecycle = "DESTROYED" => contents = <<>> /\ \A r \in Requests : sub[r] \notin {"check", "push"}

(* Every step keeps it. *)
LEMMA NextStopped == ASSUME OneController, IInv, Stopped, [Next]_vars PROVE Stopped'
<1>1. ASSUME UNCHANGED <<thread, wpc, closed, sockfd, ctl, lifecycle, contents, sub>> PROVE Stopped'
  BY Zenon, <1>1 DEF Stopped
<1>2. CASE UNCHANGED vars
  BY Zenon, <1>1, <1>2 DEF vars, queue_vars, socket_vars, worker_vars, submit_vars, control_vars
<1>3. CASE PeerStep
  <2>1. UNCHANGED <<thread, wpc, closed, sockfd, ctl, lifecycle, contents, sub>>
    BY ZenonT(30), <1>3 DEF PeerStep, peer_answers, peer_closes, peer_stalls, queue_vars, worker_vars, others,
                submit_vars, control_vars
  <2> QED BY Zenon, <1>1, <2>1
<1>4. ASSUME NEW r \in Requests, (\E k \in Kinds : submit(r, k)) \/ SubmitterStep(r) PROVE Stopped'
  <2>1. UNCHANGED <<thread, wpc, closed, sockfd, ctl, lifecycle>>
    BY Zenon, <1>4 DEF SubmitterStep, submit, enqueue_check, enqueue_push, queue_vars, worker_vars, socket_vars,
                control_vars
  <2>2. lifecycle = "DESTROYED" => UNCHANGED <<contents, sub>>
    BY Zenon, <1>4 DEF SubmitterStep, submit, enqueue_check, enqueue_push, Stopped
  <2> QED BY Zenon, <2>1, <2>2 DEF Stopped
<1>5. ASSUME NEW c \in Controllers, start(c) \/ stop(c, "stop") \/ stop(c, "destroy") \/ ControllerStep(c)
      PROVE  Stopped'
  <2>1. Controllers = {c} BY Zenon, OneController, <1>5 DEF OneController
  <2>2. ctl' = [ctl EXCEPT ![c] = ctl'[c]] /\ UNCHANGED <<sockfd, sub>>
    BY ZenonT(30), <1>5 DEF start, stop, ControllerStep, start_clear, start_create, stop_set, stop_cancel, stop_join,
                stop_return, destroy, Controller, submit_vars, socket_vars, IInv, Types, ControlTypes
  <2> USE <2>1, <2>2 DEF Stopped, IInv, Types, ControlTypes, Control, Controller, queue_vars, worker_vars
  <2>3. CASE start(c) BY Zenon, <2>3 DEF start
  <2>4. CASE start_clear(c) BY Zenon, <2>4 DEF start_clear
  <2>5. CASE start_create(c) BY Zenon, <2>5 DEF start_create
  <2>6. CASE stop(c, "stop") \/ stop(c, "destroy") BY Zenon, <2>6 DEF stop
  <2>7. CASE stop_set(c) BY Zenon, <2>7 DEF stop_set
  <2>8. CASE stop_cancel(c) BY Zenon, <2>8 DEF stop_cancel
  <2>9. CASE stop_join(c) BY Zenon, <2>9 DEF stop_join
  <2>10. CASE stop_return(c) BY Zenon, <2>10 DEF stop_return
  <2>11. CASE destroy(c) BY Zenon, <2>11 DEF destroy
  <2> QED BY ZenonT(30), <1>5, <2>3, <2>4, <2>5, <2>6, <2>7, <2>8, <2>9, <2>10, <2>11 DEF ControllerStep
<1>6. CASE WorkerStep \/ send_fails
  <2>1. UNCHANGED <<thread, closed, ctl, lifecycle, sub>>
    BY Zenon, <1>6 DEF WorkerStep, send_fails, worker_pop, process_item, try_connect, send_aborts, send_all,
                try_extract, recv, wait_fails, on_complete, worker_exit, queue_vars, others, submit_vars,
                control_vars
  <2>2. wpc # "exited" /\ wpc # "none"
    BY Zenon, <1>6 DEF WorkerStep, send_fails, worker_pop, process_item, try_connect, send_aborts, send_all,
                try_extract, recv, wait_fails, on_complete, worker_exit
  <2>3. wpc' = "exited" => sockfd' = "none"
    BY Zenon, <1>6 DEF WorkerStep, send_fails, worker_pop, process_item, try_connect, send_aborts, send_all,
                try_extract, recv, wait_fails, on_complete, worker_exit, WorkerGoto, Finish
  <2>4. contents = <<>> => contents' = <<>>
    BY Zenon, <1>6 DEF WorkerStep, send_fails, worker_pop, process_item, try_connect, send_aborts, send_all,
                try_extract, recv, wait_fails, on_complete, worker_exit, queue_vars
  <2> QED BY Zenon, <2>1, <2>2, <2>3, <2>4 DEF Stopped
<1> QED BY Zenon, <1>2, <1>3, <1>4, <1>5, <1>6 DEF Next

-----------------------------------------------------------------------------
(* In a queue without repetitions a request is once or not at all. *)
LEMMA QueuedOnce ==
    ASSUME IInv, NEW r \in Requests
    PROVE  Cardinality({i \in DOMAIN contents : contents[i] = r}) = Num(Queued(r))
<1> DEFINE At == {i \in DOMAIN contents : contents[i] = r}
<1>1. CASE Queued(r)
  <2>1. PICK i \in DOMAIN contents : contents[i] = r BY Zenon, <1>1 DEF Queued
  <2>2. At = {i} BY Zenon, <2>1 DEF IInv, OnePlace
  <2>3. Cardinality({i}) = 1 BY Zenon, FS_Singleton
  <2> QED BY Zenon, <1>1, <2>2, <2>3 DEF Num
<1>2. CASE ~Queued(r)
  <2>1. At = {} BY Zenon, <1>2 DEF Queued
  <2> QED BY Zenon, <1>2, <2>1, FS_EmptySet DEF Num
<1> QED BY Zenon, <1>1, <1>2

(* The invariant is inductive. *)
THEOREM Invariance == ASSUME OneController PROVE SafeSpec => []IInv
<1>1. Init => IInv BY InitIInv
<1>2. IInv /\ [Next]_vars => IInv' BY NextIInv
<1> QED BY <1>1, <1>2, PTL DEF SafeSpec

(* An accepted request is in the queue, in process, completed or dropped,  *)
(* once and in one place only, and a rejected one nowhere: on_complete is  *)
(* called once for each request that stop and destroy do not drop.         *)
THEOREM RequestsCompleteOnce == ASSUME OneController PROVE SafeSpec => []CompletedOnce
<1>1. IInv => CompletedOnce
  <2> SUFFICES ASSUME IInv, NEW r \in Requests
               PROVE  Num(Queued(r)) + Num(cur = r) + completions[r] + Num(r \in dropped)
                        = Num(sub[r] = "accepted")
    BY QueuedOnce DEF CompletedOnce
  <2> QED BY DEF IInv, OnePlace, Num
<1> QED BY <1>1, Invariance, PTL

(* A request that gets a response gets its own, whatever timed out, was    *)
(* cut short or came late before it.                                       *)
THEOREM ResponsesAreOwn == ASSUME OneController PROVE SafeSpec => []ResponseIsOwn
<1>1. IInv => ResponseIsOwn BY DEF IInv, Flow
<1> QED BY <1>1, Invariance, PTL

(* When stop has joined the worker, and when destroy has returned, nothing *)
(* is left in the queue and nothing runs or is open.                       *)
THEOREM NothingLeft == ASSUME OneController PROVE SafeSpec => []StopLeavesNothing
<1>1. Init => Stopped BY Zenon DEF Init, Stopped
<1>2. IInv /\ Stopped /\ [Next]_vars => Stopped' BY Zenon, NextStopped
<1>3. IInv /\ Stopped => StopLeavesNothing
  <2> SUFFICES ASSUME IInv, Stopped PROVE StopLeavesNothing BY Zenon
  <2>1. thread = "joined" => wpc = "exited" /\ contents = <<>> /\ sockfd = "none" /\ ~connected
    BY Zenon DEF IInv, Place, Stopped
  <2>2. lifecycle = "DESTROYED" => \A c \in Controllers : ctl[c] = "idle"
    BY Zenon DEF IInv, Types, ControlTypes, Control
  <2>3. \E c \in Controllers : TRUE BY OneController DEF OneController
  <2> QED BY <2>1, <2>2, <2>3 DEF Stopped, StopLeavesNothing
<1> QED BY <1>1, <1>2, <1>3, Invariance, PTL DEF SafeSpec

-----------------------------------------------------------------------------
(* The refinement. *)

(* The queue is never longer than its capacity. *)
Bounded == Len(contents) <= Capacity

(* Every step keeps that: it leaves the queue, empties it, takes the first *)
(* request or appends one where there is room.                             *)
LEMMA NextBounded == ASSUME IInv, Bounded, [Next]_vars PROVE Bounded'
<1>1. contents \in Seq(Requests) /\ Len(contents) \in Nat BY Zenon, LenProperties DEF IInv, Types, QueueTypes
<1>2. CASE contents' = contents BY Zenon, <1>2 DEF Bounded
<1>3. CASE contents' = <<>> BY <1>3, CapacityAssumption, EmptySeq DEF Bounded
<1>4. CASE contents # <<>> /\ contents' = Tail(contents)
  <2>1. Len(Tail(contents)) = Len(contents) - 1 BY Zenon, <1>1, <1>4, HeadTailProperties
  <2> QED BY <1>1, <1>4, <2>1, CapacityAssumption DEF Bounded
<1>5. ASSUME NEW r \in Requests, Len(contents) # Capacity, contents' = Append(contents, r) PROVE Bounded'
  <2>1. Len(Append(contents, r)) = Len(contents) + 1 BY Zenon, <1>1, AppendProperties
  <2> QED BY <1>1, <1>5, <2>1, CapacityAssumption DEF Bounded
<1>6. ASSUME NEW r \in Requests, (\E k \in Kinds : submit(r, k)) \/ SubmitterStep(r) PROVE Bounded'
  BY Zenon, <1>2, <1>5, <1>6 DEF SubmitterStep, submit, enqueue_check, enqueue_push, queue_vars
<1>7. ASSUME NEW c \in Controllers, start(c) \/ stop(c, "stop") \/ stop(c, "destroy") \/ ControllerStep(c)
      PROVE  Bounded'
  BY Zenon, <1>2, <1>3, <1>7 DEF start, stop, ControllerStep, start_clear, start_create, stop_set, stop_cancel,
                          stop_join, stop_return, destroy, queue_vars
<1>8. CASE WorkerStep \/ send_fails \/ PeerStep
  BY Zenon, <1>2, <1>4, <1>8 DEF WorkerStep, send_fails, worker_pop, process_item, try_connect, send_aborts,
       send_all, try_extract, recv, wait_fails, on_complete, worker_exit, PeerStep, peer_answers,
       peer_closes, peer_stalls, queue_vars
<1>9. CASE UNCHANGED vars BY Zenon, <1>2, <1>9 DEF vars, queue_vars
<1> QED BY Zenon, <1>6, <1>7, <1>8, <1>9 DEF Next

-----------------------------------------------------------------------------
AbstractStep == [Channel!Next]_(Channel!vars)

(* What the refinement mapping says of a state. *)
LEMMA MappedState ==
    /\ wpc \notin {"none", "exited"} => ChannelWorker = "run"
    /\ wpc \in {"none", "exited"} => ChannelWorker = wpc
    /\ wpc # "complete" => ChannelOutcome = "no"
    /\ wpc = "complete" /\ result \in {"OK", "SENT_NO_WAIT"} => ChannelOutcome = result
    /\ wpc = "complete" /\ result \notin {"OK", "SENT_NO_WAIT"} => ChannelOutcome = "ERR"
BY Zenon DEF ChannelWorker, ChannelOutcome

(* And of the state after a step. *)
LEMMA MappedNext ==
    /\ wpc' \notin {"none", "exited"} => ChannelWorker' = "run"
    /\ wpc' \in {"none", "exited"} => ChannelWorker' = wpc'
    /\ wpc' # "complete" => ChannelOutcome' = "no"
    /\ wpc' = "complete" /\ result' \in {"OK", "SENT_NO_WAIT"} => ChannelOutcome' = result'
    /\ wpc' = "complete" /\ result' \notin {"OK", "SENT_NO_WAIT"} => ChannelOutcome' = "ERR"
BY Zenon DEF ChannelWorker, ChannelOutcome

(* Nothing that the abstract channel shows changes. *)
LEMMA Stutters ==
    ASSUME UNCHANGED <<contents, closed, cur, connected, dropped>>,
           (lifecycle = "RUNNING")' = (lifecycle = "RUNNING"),
           ChannelKinds' = ChannelKinds, ChannelWorker' = ChannelWorker, ChannelOutcome' = ChannelOutcome
    PROVE  AbstractStep
BY Zenon DEF AbstractStep, Channel!vars

(* The kinds the abstract channel knows change only with an acceptance. *)
LEMMA SameKinds == UNCHANGED <<sub, kind>> => ChannelKinds' = ChannelKinds
BY Zenon DEF ChannelKinds

(* The worker's request has been accepted. *)
LEMMA CurKind ==
    ASSUME IInv, wpc \notin Resting
    PROVE  cur \in Requests /\ cur # None /\ ChannelKinds[cur] = kind[cur]
<1>1. cur \in Requests BY Zenon, HasRequest
<1>2. sub[cur] = "accepted" BY Zenon, <1>1 DEF IInv, OnePlace
<1> QED BY Zenon, <1>1, <1>2, NoneAssumption DEF ChannelKinds

(* The request in process is over: the shape of Finish. *)
LEMMA Finishes ==
    ASSUME IInv, wpc \notin Resting, wpc # "complete", wpc' = "complete",
           ChannelOutcome' \in Channel!Outcomes(kind[cur]), ChannelOutcome' # "ERR" => connected,
           connected' = (ChannelOutcome' # "ERR" /\ kind[cur] # "FINAL"),
           UNCHANGED <<contents, closed, cur, dropped, sub, kind, lifecycle>>
    PROVE  AbstractStep
<1>1. cur # None /\ ChannelKinds[cur] = kind[cur] BY Zenon, CurKind
<1>2. ChannelOutcome = "no" BY Zenon, MappedState
<1>3. ChannelWorker = "run" /\ ChannelWorker' = "run" BY Zenon, MappedState, MappedNext DEF Resting
<1>4. ChannelKinds' = ChannelKinds BY Zenon, SameKinds
<1>5. ChannelOutcome' \in {"OK", "SENT_NO_WAIT", "ERR"} BY Zenon DEF Channel!Outcomes
<1>6. Channel!Finish(ChannelOutcome') BY Zenon, <1>1, <1>2, <1>3, <1>4 DEF Channel!Finish
<1> QED BY Zenon, <1>5, <1>6 DEF AbstractStep, Channel!Next

(* It is over with an error. *)
LEMMA FinishesInError ==
    ASSUME IInv, wpc \notin Resting, wpc # "complete", GivesUp, result' \notin {"OK", "SENT_NO_WAIT"}
    PROVE  AbstractStep
<1>1. ChannelOutcome' = "ERR" BY Zenon, MappedNext DEF GivesUp
<1>2. ChannelOutcome' \in Channel!Outcomes(kind[cur]) BY Zenon, <1>1 DEF Channel!Outcomes
<1> QED BY Zenon, <1>1, <1>2, Finishes DEF GivesUp

(* The worker goes on with its request, unseen. *)
LEMMA GoesOn ==
    ASSUME wpc \notin {"none", "exited", "complete"}, wpc' \notin {"none", "exited", "complete"},
           UNCHANGED <<contents, closed, cur, connected, dropped, sub, kind, lifecycle>>
    PROVE  AbstractStep
<1>1. ChannelWorker' = ChannelWorker /\ ChannelOutcome' = ChannelOutcome BY Zenon, MappedState, MappedNext
<1> QED BY Zenon, <1>1, SameKinds, Stutters

(* A step of a submitting thread is an Accept or unseen. *)
LEMMA SubmitterSteps ==
    ASSUME IInv, Bounded, NEW r \in Requests, (\E k \in Kinds : submit(r, k)) \/ SubmitterStep(r)
    PROVE  AbstractStep
<1>1. /\ UNCHANGED <<closed, connected, wpc, result, cur, dropped>> /\ lifecycle' = lifecycle
  BY Zenon DEF SubmitterStep, submit, enqueue_check, enqueue_push, queue_vars, socket_vars, worker_vars, control_vars
<1>2. ChannelWorker' = ChannelWorker /\ ChannelOutcome' = ChannelOutcome
  BY Zenon, <1>1 DEF ChannelWorker, ChannelOutcome
<1>3. sub \in [Requests -> {"new", "check", "push", "accepted", "rejected"}] /\ kind \in [Requests -> Kinds]
  BY Zenon DEF IInv, Types, SubmitTypes
<1>4. ASSUME contents' = contents, sub[r] # "accepted", NEW place, place # "accepted",
             sub' = [sub EXCEPT ![r] = place], NEW k, kind' = [kind EXCEPT ![r] = k]
      PROVE  AbstractStep
  <2>1. {q \in Requests : sub'[q] = "accepted"} = {q \in Requests : sub[q] = "accepted"} BY Zenon, <1>3, <1>4
  <2>2. \A q \in {p \in Requests : sub[p] = "accepted"} : kind'[q] = kind[q] BY Zenon, <1>3, <1>4
  <2>3. ChannelKinds' = ChannelKinds BY Zenon, <2>1, <2>2 DEF ChannelKinds
  <2> QED BY Zenon, <1>1, <1>2, <1>4, <2>3, Stutters
<1>5. ASSUME ~closed, Len(contents) # Capacity, sub[r] = "push", contents' = Append(contents, r),
             sub' = [sub EXCEPT ![r] = "accepted"], kind' = kind
      PROVE  AbstractStep
  <2>1. {q \in Requests : sub'[q] = "accepted"} = {q \in Requests : sub[q] = "accepted"} \union {r}
    BY Zenon, <1>3, <1>5
  <2>2. DOMAIN ChannelKinds = {q \in Requests : sub[q] = "accepted"} BY Zenon DEF ChannelKinds
  <2>3. ChannelKinds' = [q \in DOMAIN ChannelKinds \union {r} |->
                           IF q = r THEN kind[r] ELSE ChannelKinds[q]]
    BY Zenon, <1>5, <2>1, <2>2 DEF ChannelKinds
  <2>4. r \notin DOMAIN ChannelKinds BY Zenon, <1>5, <2>2
  <2>5. Len(contents) < Capacity
    BY SMTT(30), <1>5, CapacityAssumption, LenProperties DEF Bounded, IInv, Types, QueueTypes
  <2>6. Channel!Accept(r, kind[r]) BY Zenon, <1>1, <1>2, <1>5, <2>3, <2>4, <2>5 DEF Channel!Accept
  <2>7. kind[r] \in Channel!Kinds BY Zenon, <1>3 DEF Kinds, Channel!Kinds
  <2> QED BY Zenon, <2>6, <2>7 DEF AbstractStep, Channel!Next
<1>6. kind = [kind EXCEPT ![r] = kind[r]] BY Zenon, <1>3
<1>7. ASSUME NEW k \in Kinds, submit(r, k) PROVE AbstractStep
  BY ZenonT(30), <1>4, <1>7 DEF submit, Submitter, queue_vars
<1>8. CASE enqueue_check(r) BY Zenon, <1>4, <1>6, <1>8 DEF enqueue_check, Submitter, queue_vars
<1>9. CASE enqueue_push(r) BY Zenon, <1>4, <1>5, <1>6, <1>9 DEF enqueue_push, Submitter
<1> QED BY Zenon, <1>7, <1>8, <1>9 DEF SubmitterStep

(* A step of the controlling thread is a Start, a Spawn, a Halt, a Drop or *)
(* unseen.                                                                 *)
LEMMA ControllerSteps ==
    ASSUME IInv, NEW c \in Controllers,
           start(c) \/ stop(c, "stop") \/ stop(c, "destroy") \/ ControllerStep(c)
    PROVE  AbstractStep
<1>1. UNCHANGED <<connected, cur, result>> /\ UNCHANGED <<sub, kind>>
  BY Zenon DEF start, stop, ControllerStep, start_clear, start_create, stop_set, stop_cancel, stop_join,
         stop_return, destroy, submit_vars, socket_vars, worker_vars
<1>2. ChannelKinds' = ChannelKinds BY Zenon, <1>1, SameKinds
<1>3. ASSUME wpc' = wpc PROVE ChannelWorker' = ChannelWorker /\ ChannelOutcome' = ChannelOutcome
  BY Zenon, <1>1, <1>3 DEF ChannelWorker, ChannelOutcome
<1>4. ASSUME UNCHANGED <<contents, closed, dropped, wpc>>,
             (lifecycle = "RUNNING") = (lifecycle' = "RUNNING")
      PROVE  AbstractStep
  BY Zenon, <1>1, <1>2, <1>3, <1>4, Stutters
<1>5. ASSUME UNCHANGED <<contents, closed, dropped, wpc>>, lifecycle # "RUNNING", lifecycle' = "RUNNING"
      PROVE  AbstractStep
  BY Zenon, <1>1, <1>2, <1>3, <1>5 DEF AbstractStep, Channel!Next, Channel!Start
<1>6. ASSUME UNCHANGED <<contents, closed, dropped, wpc>>, lifecycle = "RUNNING", lifecycle' # "RUNNING"
      PROVE  AbstractStep
  BY Zenon, <1>1, <1>2, <1>3, <1>6 DEF AbstractStep, Channel!Next, Channel!Halt
<1>7. CASE start(c) BY Zenon, <1>4, <1>5, <1>7 DEF start, queue_vars, worker_vars
<1>8. CASE stop(c, "stop") \/ stop(c, "destroy")
  BY Zenon, <1>4, <1>6, <1>8 DEF stop, queue_vars, worker_vars
<1>9. CASE start_clear(c) \/ stop_set(c) \/ stop_join(c) \/ stop_return(c)
  BY ZenonT(30), <1>4, <1>9 DEF start_clear, stop_set, stop_join, stop_return, queue_vars, worker_vars
<1>10. CASE start_create(c)
  <2>1. UNCHANGED <<contents, closed, dropped>> /\ lifecycle = "RUNNING" /\ wpc \in {"none", "exited"}
    BY Zenon, <1>10 DEF start_create, queue_vars, IInv, Control
  <2>2. CASE wpc' = "pop" /\ lifecycle' = lifecycle
    <3>1. /\ ChannelWorker # "run" /\ ChannelWorker' = "run"
          /\ ChannelOutcome = "no" /\ ChannelOutcome' = "no"
      BY Zenon, <2>1, <2>2, MappedState, MappedNext
    <3>2. Channel!Spawn BY Zenon, <1>1, <1>2, <2>1, <2>2, <3>1 DEF Channel!Spawn
    <3> QED BY Zenon, <3>2 DEF AbstractStep, Channel!Next
  <2>3. CASE lifecycle' = "STOPPED" /\ wpc' = wpc BY Zenon, <1>6, <2>1, <2>3
  <2> QED BY Zenon, <1>10, <2>2, <2>3 DEF start_create
<1>11. ASSUME NEW close \in BOOLEAN, lifecycle # "RUNNING", lifecycle' # "RUNNING", wpc' = wpc,
              contents' = <<>>, dropped' = dropped \union Range(contents), closed' = (closed \/ close)
       PROVE  AbstractStep
  <2>1. UNCHANGED <<ChannelKinds, ChannelWorker, ChannelOutcome>> BY Zenon, <1>2, <1>3, <1>11
  <2>2. Range(contents) = Channel!Range(contents) BY Zenon DEF Range, Channel!Range
  <2>3. dropped' = dropped \union Channel!Range(contents) BY Zenon, <1>11, <2>2
  <2>4. Channel!Drop(close) BY Zenon, <1>1, <1>11, <2>1, <2>3 DEF Channel!Drop
  <2> QED BY Zenon, <2>4 DEF AbstractStep, Channel!Next
<1>12. closed \in BOOLEAN BY Zenon DEF IInv, Types, QueueTypes
<1>13. CASE stop_cancel(c)
  <2>1. lifecycle # "RUNNING" BY Zenon, <1>13 DEF stop_cancel, IInv, Control
  <2>2. /\ lifecycle' # "RUNNING" /\ wpc' = wpc /\ contents' = <<>>
        /\ dropped' = dropped \union Range(contents) /\ closed' = (closed \/ TRUE)
    BY Zenon, <1>12, <1>13, <2>1 DEF stop_cancel, worker_vars
  <2> QED BY Zenon, <1>11, <2>1, <2>2
<1>14. CASE destroy(c)
  <2>1. lifecycle # "RUNNING" BY Zenon, <1>14 DEF destroy, IInv, Control
  <2>2. /\ lifecycle' # "RUNNING" /\ wpc' = wpc /\ contents' = <<>>
        /\ dropped' = dropped \union Range(contents) /\ closed' = (closed \/ FALSE)
    BY ZenonT(30), <1>12, <1>14, <2>1 DEF destroy, worker_vars
  <2> QED BY ZenonT(30), <1>11, <2>1, <2>2
<1> QED BY Zenon, <1>7, <1>8, <1>9, <1>10, <1>13, <1>14 DEF ControllerStep

(* A step of the worker is a Take, a Connect, a Finish, a Complete, the    *)
(* Exit or unseen.                                                         *)
LEMMA WorkerSteps == ASSUME IInv, WorkerStep \/ send_fails PROVE AbstractStep
<1>1. closed' = closed /\ UNCHANGED <<sub, kind, lifecycle, ctl, dropped>>
  <2>1. closed' = closed /\ UNCHANGED others
    BY Zenon DEF WorkerStep, send_fails, worker_pop, process_item, try_connect, send_aborts, send_all,
           try_extract, recv, wait_fails, on_complete, worker_exit, queue_vars
  <2> QED BY Zenon, <2>1, Others
<1>2. ChannelKinds' = ChannelKinds BY Zenon, <1>1, SameKinds
<1>3. IInv => Place /\ SocketTypes BY Zenon DEF IInv, Types
<1>4. CASE worker_pop
  <2>1. wpc = "pop" /\ connected' = connected BY Zenon, <1>4 DEF worker_pop, socket_vars
  <2>2. CASE contents # <<>>
    <3>1. wpc' = "begin" /\ cur' = Head(contents) /\ contents' = Tail(contents) BY Zenon, <1>4, <2>2 DEF worker_pop
    <3>2. /\ ChannelWorker = "run" /\ ChannelWorker' = "run"
          /\ ChannelOutcome = "no" /\ ChannelOutcome' = "no"
      BY Zenon, <2>1, <3>1, MappedState, MappedNext
    <3>3. cur = None BY Zenon, <1>3, <2>1 DEF Place, Resting
    <3>4. Channel!Take BY Zenon, <1>1, <1>2, <2>1, <2>2, <3>1, <3>2, <3>3 DEF Channel!Take
    <3> QED BY Zenon, <3>4 DEF AbstractStep, Channel!Next
  <2>3. CASE contents = <<>>
    <3>1. wpc' = "exit" /\ UNCHANGED <<cur, contents>> BY Zenon, <1>4, <2>3 DEF worker_pop, WorkerGoto
    <3> QED BY Zenon, <1>1, <2>1, <3>1, GoesOn
  <2> QED BY Zenon, <2>2, <2>3
<1>5. CASE process_item
  <2>1. /\ wpc = "begin"
        /\ UNCHANGED <<contents, closed, sockfd, connected, parser, inbox, peer>>
        /\ UNCHANGED <<cur, completions, answer>>
    BY Zenon, <1>5 DEF process_item, queue_vars, socket_vars, WorkerGoto, Finish
  <2>2. CASE wpc' \in {"send", "connect"} BY Zenon, <1>1, <2>1, <2>2, GoesOn
  <2>3. CASE wpc' = "complete" /\ result' = "NOT_CONNECTED" /\ sockfd # "open"
    <3>1. sockfd = "none" /\ connected = FALSE BY Zenon, <1>3, <2>3 DEF Place, SocketTypes
    <3>2. GivesUp BY Zenon, <1>1, <2>1, <2>3, <3>1 DEF GivesUp
    <3> QED BY Zenon, <2>1, <2>3, <3>2, FinishesInError DEF Resting
  <2> QED BY Zenon, <1>5, <2>2, <2>3 DEF process_item, WorkerGoto, Finish
<1>6. CASE try_connect
  <2>1. wpc = "connect" /\ UNCHANGED <<contents, closed>> /\ UNCHANGED <<cur, completions, answer>>
    BY Zenon, <1>6 DEF try_connect, queue_vars, WorkerGoto, Finish
  <2>2. sockfd = "none" /\ connected = FALSE /\ kind[cur] # "RELAY" BY Zenon, <1>3, <2>1 DEF Place, SocketTypes
  <2>3. CASE wpc' = "send" /\ connected' = TRUE
    <3>1. cur # None /\ ChannelKinds[cur] = kind[cur] BY Zenon, <2>1, CurKind DEF Resting
    <3>2. /\ ChannelWorker = "run" /\ ChannelWorker' = "run"
          /\ ChannelOutcome = "no" /\ ChannelOutcome' = "no"
      BY Zenon, <2>1, <2>3, MappedState, MappedNext
    <3>3. Channel!Connect BY Zenon, <1>1, <1>2, <2>1, <2>2, <2>3, <3>1, <3>2 DEF Channel!Connect
    <3> QED BY Zenon, <3>3 DEF AbstractStep, Channel!Next
  <2>4. CASE /\ wpc' = "complete" /\ result' \notin {"OK", "SENT_NO_WAIT"}
             /\ UNCHANGED <<sockfd, connected, parser, inbox, peer>>
    <3>1. GivesUp BY Zenon, <1>1, <2>1, <2>2, <2>4 DEF GivesUp
    <3> QED BY Zenon, <2>1, <2>4, <3>1, FinishesInError DEF Resting
  <2> QED BY ZenonT(30), <1>6, <2>3, <2>4 DEF try_connect, WorkerGoto, Finish, socket_vars
<1>7. CASE send_aborts \/ send_fails \/ wait_fails
  <2>1. wpc \in {"send", "wait"} BY Zenon, <1>7 DEF send_aborts, send_fails, wait_fails
  <2>2. /\ wpc' = "complete" /\ UNCHANGED <<cur, completions, answer>>
        /\ result' \notin {"OK", "SENT_NO_WAIT"}
    BY Zenon, <1>7 DEF send_aborts, send_fails, wait_fails, Finish
  <2>3. close_session_internal /\ UNCHANGED queue_vars BY Zenon, <1>7 DEF send_aborts, send_fails, wait_fails
  <2>4. GivesUp BY Zenon, <1>1, <2>2, <2>3 DEF GivesUp, close_session_internal, queue_vars
  <2> QED BY Zenon, <2>1, <2>2, <2>4, FinishesInError DEF Resting
<1>8. CASE send_all
  <2>1. wpc = "send" /\ cur' = cur /\ contents' = contents
    BY Zenon, <1>8 DEF send_all, queue_vars, WorkerGoto, Finish
  <2>2. connected = TRUE BY Zenon, <1>3, <2>1 DEF Place, SocketTypes
  <2>3. CASE kind[cur] = "NORMAL"
    <3>1. wpc' = "extract" /\ connected' = connected BY Zenon, <1>8, <2>3 DEF send_all, WorkerGoto
    <3> QED BY Zenon, <1>1, <2>1, <3>1, GoesOn
  <2>4. CASE kind[cur] # "NORMAL"
    <3>1. wpc' = "complete" /\ result' = "SENT_NO_WAIT" BY Zenon, <1>8, <2>4 DEF send_all, Finish
    <3>2. connected' = (kind[cur] # "FINAL")
      BY Zenon, <1>8, <2>2 DEF send_all, close_session_internal
    <3>3. ChannelOutcome' = "SENT_NO_WAIT" BY Zenon, <3>1, MappedNext
    <3>4. ChannelOutcome' \in Channel!Outcomes(kind[cur]) BY Zenon, <2>4, <3>3 DEF Channel!Outcomes
    <3> QED BY Zenon, <1>1, <2>1, <2>2, <3>1, <3>2, <3>3, <3>4, Finishes DEF Resting
  <2> QED BY Zenon, <2>3, <2>4
<1>9. CASE try_extract
  <2>1. wpc = "extract" /\ contents' = contents /\ cur' = cur
    BY Zenon, <1>9 DEF try_extract, queue_vars, WorkerGoto, Finish
  <2>2. connected = TRUE /\ kind[cur] = "NORMAL" BY Zenon, <1>3, <2>1 DEF Place, SocketTypes
  <2>3. CASE wpc' = "wait" /\ connected' = connected BY Zenon, <1>1, <2>1, <2>3, GoesOn
  <2>4. CASE Finish("PROTOCOL") /\ close_session_internal
    <3>1. GivesUp BY Zenon, <1>1, <2>1, <2>4 DEF GivesUp, Finish, close_session_internal
    <3>2. result' = "PROTOCOL" BY Zenon, <2>4 DEF Finish
    <3> QED BY Zenon, <2>1, <3>1, <3>2, FinishesInError DEF Resting
  <2>5. CASE wpc' = "complete" /\ result' = "OK" /\ connected' = connected
    <3>1. ChannelOutcome' = "OK" BY Zenon, <2>5, MappedNext
    <3>2. ChannelOutcome' \in Channel!Outcomes(kind[cur]) BY Zenon, <2>2, <3>1 DEF Channel!Outcomes
    <3>3. connected' = (ChannelOutcome' # "ERR" /\ kind[cur] # "FINAL") BY Zenon, <2>2, <2>5, <3>1
    <3> QED BY Zenon, <1>1, <2>1, <2>2, <2>5, <3>1, <3>2, <3>3, Finishes DEF Resting
  <2> QED BY Zenon, <1>9, <2>3, <2>4, <2>5 DEF try_extract, WorkerGoto, socket_vars
<1>10. CASE recv
  <2>1. wpc = "wait" /\ wpc' = "extract" /\ UNCHANGED <<contents, cur, connected>>
    BY Zenon, <1>10 DEF recv, queue_vars, WorkerGoto
  <2> QED BY Zenon, <1>1, <2>1, GoesOn
<1>11. CASE on_complete
  <2>1. wpc = "complete" /\ wpc' = "pop" /\ cur' = None /\ contents' = contents
    BY Zenon, <1>11 DEF on_complete, queue_vars
  <2>2. /\ ChannelWorker = "run" /\ ChannelWorker' = "run"
        /\ ChannelOutcome # "no" /\ ChannelOutcome' = "no"
    BY Zenon, <2>1, MappedState, MappedNext
  <2>3. connected' = FALSE \/ connected' = connected
    BY Zenon, <1>11 DEF on_complete, close_session_internal, socket_vars
  <2>4. connected \in BOOLEAN BY Zenon, <1>3 DEF SocketTypes
  <2>5. \E close \in BOOLEAN : connected' = (connected /\ ~close) BY Zenon, <2>3, <2>4
  <2>6. PICK close \in BOOLEAN : connected' = (connected /\ ~close) BY Zenon, <2>5
  <2>7. Channel!Complete(close) BY Zenon, <1>1, <1>2, <2>1, <2>2, <2>6 DEF Channel!Complete
  <2> QED BY Zenon, <2>7 DEF AbstractStep, Channel!Next
<1>12. CASE worker_exit
  <2>1. wpc = "exit" /\ wpc' = "exited" /\ connected' = FALSE /\ UNCHANGED <<cur, contents>>
    BY Zenon, <1>12 DEF worker_exit, queue_vars, WorkerGoto
  <2>2. /\ ChannelWorker = "run" /\ ChannelWorker' = "exited"
        /\ ChannelOutcome = "no" /\ ChannelOutcome' = "no"
    BY Zenon, <2>1, MappedState, MappedNext
  <2>3. cur = None /\ closed /\ contents = <<>> BY Zenon, <1>3, <2>1 DEF Place, Resting
  <2>4. Channel!Exit BY Zenon, <1>1, <1>2, <2>1, <2>2, <2>3 DEF Channel!Exit
  <2> QED BY Zenon, <2>4 DEF AbstractStep, Channel!Next
<1> QED BY Zenon, <1>4, <1>5, <1>6, <1>7, <1>8, <1>9, <1>10, <1>11, <1>12 DEF WorkerStep

-----------------------------------------------------------------------------
(* The channel implements what the session relies on: each of its steps is *)
(* a step of RequestChannel or none, so requests are processed one at a    *)
(* time and in order, each with one outcome, and dropped by stop and       *)
(* destroy only.                                                           *)
THEOREM Refinement == ASSUME OneController PROVE SafeSpec => ImplementsChannel
<1>1. Init => Channel!Init
  <2> SUFFICES ASSUME Init PROVE Channel!Init BY Zenon
  <2>1. ChannelWorker = "none" /\ ChannelOutcome = "no" BY Zenon, MappedState DEF Init
  <2>2. {q \in Requests : sub[q] = "accepted"} = {} BY Zenon DEF Init
  <2>3. ChannelKinds = <<>> BY <2>2 DEF ChannelKinds
  <2> QED BY Zenon, <2>1, <2>3 DEF Init, Channel!Init
<1>2. Init => Bounded BY CapacityAssumption, EmptySeq DEF Init, Bounded
<1>3. IInv /\ Bounded /\ [Next]_vars => Bounded' BY Zenon, NextBounded
<1>4. IInv /\ Bounded /\ [Next]_vars => [Channel!Next]_(Channel!vars)
  <2> SUFFICES ASSUME IInv, Bounded, [Next]_vars PROVE AbstractStep BY Zenon DEF AbstractStep
  <2>1. CASE UNCHANGED vars
    <3>1. /\ UNCHANGED <<contents, closed, cur, connected, dropped>> /\ UNCHANGED <<sub, kind, lifecycle>>
          /\ UNCHANGED <<wpc, result>>
      BY Zenon, <2>1 DEF vars, queue_vars, socket_vars, worker_vars, submit_vars, control_vars
    <3>2. ChannelWorker' = ChannelWorker /\ ChannelOutcome' = ChannelOutcome
      BY Zenon, <3>1 DEF ChannelWorker, ChannelOutcome
    <3> QED BY Zenon, <3>1, <3>2, SameKinds, Stutters
  <2>2. CASE PeerStep
    <3>1. /\ UNCHANGED <<contents, closed, connected>> /\ UNCHANGED <<wpc, cur, result>> /\ UNCHANGED others
      BY Zenon, <2>2 DEF PeerStep, peer_answers, peer_closes, peer_stalls, queue_vars, worker_vars
    <3>2. ChannelWorker' = ChannelWorker /\ ChannelOutcome' = ChannelOutcome
      BY Zenon, <3>1 DEF ChannelWorker, ChannelOutcome
    <3> QED BY <3>1, <3>2, Others, SameKinds, Stutters
  <2> QED BY <2>1, <2>2, SubmitterSteps, ControllerSteps, WorkerSteps DEF Next
<1> QED BY <1>1, <1>2, <1>3, <1>4, Invariance, PTL DEF SafeSpec, ImplementsChannel, Channel!Spec
=============================================================================
