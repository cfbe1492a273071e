------------------------ MODULE IpcTransport_proofs ------------------------
(***************************************************************************)
(* Proofs about IpcTransport, for any records and messages, any timeouts,  *)
(* and any number of connects, sends, signals and attempts.                *)
(***************************************************************************)
EXTENDS IpcTransport, FiniteSetTheorems, TLAPS

CallType == [op : {"none", "connect", "send", "recv"}, fd : Fds \cup {NoFd}, text : Seq(Texts),
             left : Nat, first : BOOLEAN, pr : {-1, 0, 1, 2}, err : BOOLEAN, signals : Nat]

SockType == [state : {"none", "pending", "up", "failed"}, c2s : Seq(Texts), s2c : Seq(Texts),
             hup : BOOLEAN, err : BOOLEAN]

MgrType == [at : {"accept", "expect", "serving", "closing", "closed"}, first : Seq(Texts)]

WorkerPlaces == {"top", "connect", "socket", "opened", "restore", "handshake", "loop", "close", "done",
                 "ptop", "polling", "polled"}

SenderPlaces == {"idle", "ptop", "polling", "polled"}

Types ==
    /\ fds \subseteq Fds /\ impl \in Fds \cup {NoFd}
    /\ io_lock \in Procs \cup {Nobody}
    /\ state \in {"DISCONNECTED", "TRANSPORT_CONNECTED", "HANDSHAKING", "CONNECTED", "STOPPING"}
    /\ pc \in [Procs -> WorkerPlaces \cup SenderPlaces]
    /\ pc[Worker] \in WorkerPlaces /\ pc[Sender] \in SenderPlaces
    /\ call \in [Procs -> CallType] /\ sock \in SockType /\ mgr \in MgrType
    /\ cancel \in {"idle", "writing", "OK", "ERR_IO"}
    /\ attempt \in 0..MaxAttempts /\ (cancel \in {"idle", "writing"} => attempt < MaxAttempts)
    /\ marked \in BOOLEAN /\ pipe \in BOOLEAN /\ warned \in BOOLEAN
    /\ ret \in Statuses /\ sent \in Seq(Texts) /\ got \in Seq(Texts)

(* A call in progress is where its process is. *)
Calls ==
    /\ \A p \in Procs : call[p].op # "none" <=> InCall(p) \/ pc[p] \in {"opened", "restore"}
    /\ pc[Worker] \in {"opened", "restore"} => call[Worker].op = "connect"
    /\ call[Worker].op = "send" => call[Worker].text = <<CONNECT>>
    /\ call[Sender].op \in {"none", "send"}

Up == impl # NoFd

(* There is a transport exactly while the worker is between connect and    *)
(* close, the descriptors are its or the one of a connect, and what sends  *)
(* or receives does so on the transport's.                                 *)
Link ==
    /\ Up <=> pc[Worker] \in {"handshake", "loop", "close"} \/ call[Worker].op \in {"send", "recv"}
    /\ Up <=> state # "DISCONNECTED"
    /\ fds = IF Up THEN {impl} ELSE IF call[Worker].op = "connect" THEN {call[Worker].fd} ELSE {}
    /\ call[Worker].op = "connect" => call[Worker].fd \in Fds
    /\ \A p \in Procs : call[p].op \in {"send", "recv"} => call[p].fd = impl
    /\ call[Sender].op = "send" => Up

(* io_lock is held while a message is sent and while the worker receives.  *)
Locks == /\ io_lock = Sender <=> call[Sender].op = "send"
         /\ io_lock = Worker <=> call[Worker].op = "recv"

(* CONNECT is the first record in the connection, or has been read.        *)
Opened == mgr.at \in {"accept", "expect"} => sock.c2s # <<>> /\ Head(sock.c2s) = CONNECT

(* Nothing is before CONNECT, and whoever may send comes after it.         *)
First ==
    /\ mgr.at \in {"accept", "expect"} /\ sock.c2s # <<>> => Head(sock.c2s) = CONNECT
    /\ state = "CONNECTED" \/ call[Sender].op = "send" => Opened

(* A connect that goes on has not seen a cancel that had succeeded: its    *)
(* byte was in the pipe by then.                                           *)
Cancel ==
    /\ cancel = "OK" => pipe
    /\ pc[Worker] \in {"connect", "socket"} \/ call[Worker].op = "connect" => ret = "none"
    /\ pc[Worker] \in {"socket", "opened", "restore"} \/ (InWait(Worker) /\ call[Worker].op = "connect") => ~warned
    /\ pc[Worker] = "polled" /\ call[Worker].op = "connect" /\ warned => call[Worker].pr = 2

(* The inductive invariant. *)
IInv == Types /\ Calls /\ Link /\ Locks /\ First /\ Cancel /\ CancelNotLost /\ ConnectIsFirst
-----------------------------------------------------------------------------
USE DEF Procs, NoFd, WorkerPlaces, SenderPlaces

(* The values a call, the connection and the MGR start from. *)
LEMMA NoTypes ==
    /\ NoCall \in CallType /\ NoSock \in SockType /\ [at |-> "accept", first |-> <<>>] \in MgrType
    /\ CONNECT \in Texts
<1>1. <<>> \in Seq(Texts) OBVIOUS
<1>2. NoCall \in CallType BY Zenon, <1>1 DEF NoCall, CallType
<1>3. NoSock \in SockType BY Zenon, <1>1 DEF NoSock, SockType
<1>4. [at |-> "accept", first |-> <<>>] \in MgrType BY Zenon, <1>1 DEF MgrType
<1>5. CONNECT \in Texts BY Zenon DEF Texts
<1> QED BY Zenon, <1>2, <1>3, <1>4, <1>5

LEMMA Bounds == /\ NFds \in Nat \ {0} /\ MaxAttempts \in Nat \ {0}
                /\ \A op \in {"connect", "send", "recv"} : Timeouts[op] \in Nat
BY Zenon, TransportAssumption

LEMMA InitIInv == Init => IInv
<1> SUFFICES ASSUME Init PROVE IInv BY Zenon
<1> USE ProcsAssumption DEF Init
<1>1. Types
  <2>1. /\ <<>> \in Seq(Texts) /\ call \in [Procs -> CallType] /\ sock \in SockType /\ mgr \in MgrType
    BY NoTypes
  <2>2. 0 \in 0..MaxAttempts /\ 0 < MaxAttempts BY Bounds
  <2> QED BY Zenon, <2>1, <2>2 DEF Types, Statuses
<1>2. Calls /\ Link BY Zenon DEF Calls, Link, Up, InCall, NoCall
<1>3. Locks BY Zenon DEF Locks, NoCall
<1>4. First /\ Cancel /\ CancelNotLost /\ ConnectIsFirst
  BY Zenon DEF First, Cancel, CancelNotLost, ConnectIsFirst, NoSock, NoCall, Opened, InWait
<1> QED BY Zenon, <1>1, <1>2, <1>3, <1>4 DEF IInv

(* What stop does: the byte is in the pipe before cancel() reports success. *)
LEMMA StopperKeeps == ASSUME IInv, stop_requests \/ Stopping PROVE IInv'
<1> USE DEF IInv, stop_requests, Stopping, savvy_ipc_cancel_source_cancel, mark_transport_stopping,
            InCancel, link, history
<1>1. Types'
  <2>1. attempt' \in 0..MaxAttempts /\ (cancel' \in {"idle", "writing"} => attempt' < MaxAttempts)
    BY Bounds DEF Types
  <2>2. /\ cancel' \in {"idle", "writing", "OK", "ERR_IO"} /\ marked' \in BOOLEAN /\ pipe' \in BOOLEAN
        /\ state' \in {"DISCONNECTED", "TRANSPORT_CONNECTED", "HANDSHAKING", "CONNECTED", "STOPPING"}
        /\ UNCHANGED <<fds, impl, sock, io_lock, pc, call, mgr, warned, ret, sent, got>>
    BY Zenon DEF Types
  <2> QED BY <2>1, <2>2 DEF Types
<1>2. Calls' BY Zenon DEF Calls, InCall
<1>3. Link' BY Zenon DEF Types, Link, Up
<1>4. Locks' BY Zenon DEF Locks
<1>5. First' BY Zenon DEF First, Opened
<1>6. Cancel' BY DEF Types, Cancel, InWait
<1>7. CancelNotLost' /\ ConnectIsFirst' BY DEF CancelNotLost, ConnectIsFirst
<1> QED BY Zenon, <1>1, <1>2, <1>3, <1>4, <1>5, <1>6, <1>7

-----------------------------------------------------------------------------
(* The wait with a deadline. *)

(* All that a step of a wait does to the calls. *)
Polls ==
    /\ call' \in [Procs -> CallType] /\ pc' \in [Procs -> WorkerPlaces \cup SenderPlaces]
    /\ \A p \in Procs : /\ UNCHANGED <<call[p].op, call[p].fd, call[p].text>>
                        /\ pc'[p] = pc[p] \/ (InCall(p) /\ InCall(p)')
    /\ UNCHANGED <<link, io_lock, state, stopper, mgr, count, ret, sent, got>>

LEMMA PollsKeeps ==
    ASSUME IInv, Polls, warned' \in BOOLEAN, Cancel', CancelNotLost' PROVE IInv'
<1> USE DEF IInv, Polls, link, stopper
<1>1. Types' BY DEF Types, InCall
<1>2. Calls' BY Zenon DEF Calls, InCall
<1>3. Link' BY Zenon DEF Link, Up, InCall
<1>4. Locks' BY Zenon DEF Locks
<1>5. First' BY Zenon DEF First, Opened
<1>6. ConnectIsFirst' BY Zenon DEF ConnectIsFirst
<1> QED BY Zenon, <1>1, <1>2, <1>3, <1>4, <1>5, <1>6

(* poll() gives up or answers. *)
LEMMA Polled ==
    ASSUME IInv, NEW p \in Procs, InWait(p), NEW pr \in {-1, 0, 1, 2}, NEW e \in BOOLEAN,
           PollReturns(p, pr, e), UNCHANGED <<link, io_lock, state, stopper, mgr, count, ret, sent, got>>
    PROVE  /\ Polls /\ pc'[p] = "polled" /\ call'[p].pr = pr
           /\ \A q \in Procs \ {p} : UNCHANGED <<call[q], pc[q]>>
<1> USE DEF IInv, Types
<1>1. /\ call' = [call EXCEPT ![p] = [call[p] EXCEPT !.pr = pr, !.err = e]]
      /\ pc' = [pc EXCEPT ![p] = "polled"]
  BY Zenon DEF PollReturns, Goto
<1>2. [call[p] EXCEPT !.pr = pr, !.err = e] \in CallType BY ZenonT(30) DEF CallType
<1>3. /\ call'[p].pr = pr /\ UNCHANGED <<call[p].op, call[p].fd, call[p].text>>
      /\ \A q \in Procs \ {p} : UNCHANGED <<call[q], pc[q]>>
  BY Zenon, <1>1 DEF CallType
<1> QED BY Zenon, <1>1, <1>2, <1>3 DEF Polls, InCall, InWait

(* The top of the loop. *)
LEMMA PollTopKeeps == ASSUME IInv, NEW p \in Procs, poll_top(p) PROVE IInv'
<1> USE ProcsAssumption
<1>1. CASE PollReturns(p, 0, FALSE)
  <2>1. /\ Polls /\ pc'[p] = "polled" /\ \A q \in Procs \ {p} : UNCHANGED <<call[q], pc[q]>>
    BY Zenon, <1>1, Polled DEF poll_top, InWait, history
  <2>2. Cancel' /\ CancelNotLost' /\ warned' \in BOOLEAN
    BY <2>1 DEF IInv, Types, Calls, Cancel, CancelNotLost, poll_top, history, stopper, InWait, Polls, InCall
  <2> QED BY Zenon, <2>1, <2>2, PollsKeeps
<1>2. CASE Goto(p, "polling") /\ UNCHANGED call
  <2>1. Polls /\ pc' = [pc EXCEPT ![p] = "polling"]
    BY Zenon, <1>2 DEF IInv, Types, Polls, poll_top, history, Goto, InCall
  <2>2. Cancel' /\ CancelNotLost' /\ warned' \in BOOLEAN
    BY Zenon, <1>2, <2>1 DEF IInv, Types, Cancel, CancelNotLost, poll_top, history, stopper, InWait
  <2> QED BY Zenon, <2>1, <2>2, PollsKeeps
<1> QED BY Zenon, <1>1, <1>2 DEF poll_top

(* poll() fails. *)
LEMMA PollFailsKeeps == ASSUME IInv, NEW p \in Procs, poll_fails(p) PROVE IInv'
<1>1. /\ Polls /\ pc'[p] = "polled" /\ \A q \in Procs \ {p} : UNCHANGED <<call[q], pc[q]>>
  BY Zenon, Polled DEF poll_fails, InWait, history
<1>2. Cancel' /\ CancelNotLost' /\ warned' \in BOOLEAN
  BY <1>1 DEF IInv, Types, Calls, Cancel, CancelNotLost, poll_fails, history, stopper, InWait, Polls, InCall
<1> QED BY Zenon, <1>1, <1>2, PollsKeeps

(* poll() returns: a connect that is warned finds the pipe readable. *)
LEMMA PollReturnsKeeps == ASSUME IInv, NEW p \in Procs, poll_returns(p) PROVE IInv'
<1>1. PICK pr \in {0, 1, 2}, e \in BOOLEAN :
         PollReturns(p, pr, e) /\ (CancelReady(p) => pr = 2)
  BY Zenon DEF poll_returns
<1>2. /\ Polls /\ pc'[p] = "polled" /\ call'[p].pr = pr /\ \A q \in Procs \ {p} : UNCHANGED <<call[q], pc[q]>>
  BY <1>1, Polled DEF poll_returns, InWait
<1>3. warned' = (IF call[p].op = "connect" THEN cancel = "OK" ELSE warned) /\ warned' \in BOOLEAN
  BY Zenon DEF poll_returns, IInv, Types
<1>4. call[p].op = "connect" => p = Worker BY Zenon DEF IInv, Calls
<1>5. Cancel'
  <2>1. CASE p = Worker
    BY <1>1, <1>2, <1>3, <2>1 DEF IInv, Types, Calls, Cancel, CancelReady, poll_returns,
                                      stopper, InWait, Polls, InCall
  <2>2. CASE p = Sender
    BY Zenon, <1>2, <1>3, <1>4, <2>2, ProcsAssumption DEF IInv, Types, Cancel, poll_returns, stopper, InWait
  <2> QED BY Zenon, <2>1, <2>2
<1>6. CancelNotLost'
  BY Zenon, <1>2, <1>3, <1>4 DEF IInv, Types, Calls, Cancel, CancelNotLost, Polls
<1> QED BY Zenon, <1>2, <1>3, <1>5, <1>6, PollsKeeps

(* A signal interrupts it, or the clock goes on. *)
LEMMA InterruptedKeeps == ASSUME IInv, NEW p \in Procs, poll_interrupted(p) PROVE IInv'
<1> DEFINE n == IF call[p].left = 0 THEN call[p].signals ELSE call[p].signals + 1
           next == [call[p] EXCEPT !.first = TRUE, !.signals = n]
<1>1. call' = [call EXCEPT ![p] = next] /\ pc' = [pc EXCEPT ![p] = "ptop"] /\ pc[p] = "polling"
  BY Zenon DEF poll_interrupted, Goto, IInv, Types
<1>2. next \in CallType /\ next.op = call[p].op /\ next.fd = call[p].fd /\ next.text = call[p].text
  <2>1. n \in Nat BY DEF IInv, Types, CallType
  <2> HIDE DEF n
  <2> QED BY Zenon, <2>1 DEF IInv, Types, CallType
<1> HIDE DEF next
<1>3. Polls BY ZenonT(30), <1>1, <1>2 DEF IInv, Types, Polls, poll_interrupted, history, InCall
<1>4. Cancel' /\ CancelNotLost' /\ warned' \in BOOLEAN
  BY <1>1, <1>2 DEF IInv, Types, Cancel, CancelNotLost, poll_interrupted, history, stopper, InWait
<1> QED BY Zenon, <1>3, <1>4, PollsKeeps

LEMMA ClockKeeps == ASSUME IInv, savvy_clock_now PROVE IInv'
<1>1. \A p \in Procs : /\ call'[p] \in CallType /\ call'[p].op = call[p].op /\ call'[p].fd = call[p].fd
                       /\ call'[p].text = call[p].text /\ call'[p].pr = call[p].pr
  <2> TAKE p \in Procs
  <2>1. call[p] \in CallType BY Zenon DEF IInv, Types
  <2>2. \/ call'[p] = call[p]
        \/ call[p].left > 0 /\ call'[p] = [call[p] EXCEPT !.left = @ - 1]
    BY Zenon DEF savvy_clock_now
  <2>3. call[p].left > 0 => call[p].left - 1 \in Nat BY <2>1 DEF CallType
  <2> QED BY Zenon, <2>1, <2>2, <2>3 DEF CallType
<1>2. Polls BY Zenon, <1>1 DEF IInv, Types, Polls, savvy_clock_now, history
<1>3. Cancel' /\ CancelNotLost' /\ warned' \in BOOLEAN
  BY Zenon, <1>1 DEF IInv, Types, Cancel, CancelNotLost, savvy_clock_now, history, stopper, InWait
<1> QED BY Zenon, <1>2, <1>3, PollsKeeps

-----------------------------------------------------------------------------
(* connect. *)

(* What a call is when its wait begins. *)
LEMMA WaitsCall ==
    ASSUME IInv, NEW p \in Procs, NEW op \in {"connect", "send", "recv"}, NEW fd \in Fds,
           NEW text \in Seq(Texts), Waits(p, op, fd, text)
    PROVE  /\ call' \in [Procs -> CallType]
           /\ call'[p].op = op /\ call'[p].fd = fd /\ call'[p].text = text
           /\ \A q \in Procs \ {p} : call'[q] = call[q]
<1> DEFINE new == [NoCall EXCEPT !.op = op, !.fd = fd, !.text = text, !.left = Timeouts[op]]
<1>1. call' = [call EXCEPT ![p] = new] BY Zenon DEF Waits
<1>2. new \in CallType /\ new.op = op /\ new.fd = fd /\ new.text = text
  BY Zenon, Bounds DEF NoCall, CallType
<1> HIDE DEF new
<1> QED BY Zenon, <1>1, <1>2 DEF IInv, Types

(* A call ends. *)
LEMMA EndsCall ==
    ASSUME IInv, NEW p \in Procs, call' = [call EXCEPT ![p] = NoCall]
    PROVE  /\ call' \in [Procs -> CallType] /\ call'[p].op = "none"
           /\ \A q \in Procs \ {p} : call'[q] = call[q]
BY Zenon, NoTypes DEF IInv, Types, NoCall

(* The error paths of connect leave nothing behind. *)
LEMMA ConnectFailsKeeps ==
    ASSUME IInv, NEW status \in {"TIMEOUT", "CANCELLED", "ERR_IO", "NOT_CONNECTED"}, ConnectFails(status),
           pc[Worker] \in {"connect", "socket"} \/ call[Worker].op = "connect",
           warned' \in BOOLEAN, warned' => status \in {"CANCELLED", "ERR_IO"},
           UNCHANGED <<impl, io_lock, state, stopper, sent, got>>
    PROVE  IInv'
<1> USE ProcsAssumption DEF ConnectFails, SocketGone, stopper
<1>1. /\ ~Up /\ state = "DISCONNECTED" /\ call[Sender].op = "none"
      /\ fds \subseteq {call[Worker].fd}
  BY Zenon DEF IInv, Types, Calls, Link, Up, InCall
<1>2. /\ call' \in [Procs -> CallType] /\ call'[Worker].op = "none" /\ call'[Sender] = call[Sender]
      /\ pc' \in [Procs -> WorkerPlaces \cup SenderPlaces]
      /\ pc'[Worker] \in {"top", "done"} /\ pc'[Sender] = pc[Sender]
  BY Zenon, EndsCall DEF IInv, Types, Goto
<1>3. /\ fds' = {} /\ sock' = NoSock /\ mgr' = [at |-> "accept", first |-> <<>>] /\ ret' = status
  BY Zenon, <1>1
<1>4. Types' BY SMTT(30), <1>2, <1>3, NoTypes DEF IInv, Types, Statuses
<1>5. Calls' BY <1>2 DEF IInv, Calls, InCall
<1>6. Link' BY Zenon, <1>1, <1>2, <1>3 DEF IInv, Link, Up
<1>7. Locks'
  <2>1. call[Worker].op # "recv" BY Zenon DEF IInv, Calls, InCall
  <2> QED BY Zenon, <1>1, <1>2, <2>1 DEF IInv, Locks
<1>8. First' BY <1>1, <1>2, <1>3 DEF First, NoSock
<1>9. Cancel' BY Zenon, <1>2 DEF IInv, Cancel, InWait
<1>10. CancelNotLost' /\ ConnectIsFirst' BY <1>3 DEF CancelNotLost, ConnectIsFirst
<1> QED BY Zenon, <1>4, <1>5, <1>6, <1>7, <1>8, <1>9, <1>10 DEF IInv

(* The worker goes on to a place without a call, on the same side of Up. *)
LEMMA WorkerTopKeeps == ASSUME IInv, worker_main_top PROVE IInv'
<1> USE ProcsAssumption DEF worker_main_top, link, stopper, Goto
<1>1. /\ pc' \in [Procs -> WorkerPlaces \cup SenderPlaces] /\ pc[Worker] = "top"
      /\ pc'[Worker] \in {"connect", "done"} /\ pc'[Sender] = pc[Sender]
  BY Zenon DEF IInv, Types
<1>2. Types' BY <1>1 DEF IInv, Types, Statuses
<1>3. Calls' /\ Locks' BY Zenon, <1>1 DEF IInv, Calls, InCall, Locks
<1>4. Link' BY Zenon, <1>1 DEF IInv, Link, Up
<1>5. First' /\ ConnectIsFirst' BY Zenon DEF IInv, First, Opened, ConnectIsFirst
<1>6. Cancel' /\ CancelNotLost' BY Zenon, <1>1 DEF IInv, Cancel, CancelNotLost, InWait
<1> QED BY Zenon, <1>2, <1>3, <1>4, <1>5, <1>6 DEF IInv

LEMMA ConnectChecksKeeps == ASSUME IInv, connect_checks_cancel PROVE IInv'
<1> USE ProcsAssumption DEF connect_checks_cancel
<1>1. warned' = (cancel = "OK") /\ warned' \in BOOLEAN BY Zenon DEF IInv, Types
<1>2. CASE pipe
  BY Zenon, <1>1, <1>2, ConnectFailsKeeps DEF savvy_ipc_cancel_source_is_cancelled
<1>3. CASE ~pipe
  <2>1. ~warned' BY Zenon, <1>1, <1>3 DEF IInv, Cancel
  <2>2. /\ pc' \in [Procs -> WorkerPlaces \cup SenderPlaces] /\ pc[Worker] = "connect"
        /\ pc'[Worker] = "socket" /\ pc'[Sender] = pc[Sender]
        /\ UNCHANGED <<fds, sock, mgr, call, ret>>
    BY Zenon, <1>3 DEF IInv, Types, Goto, savvy_ipc_cancel_source_is_cancelled
  <2>3. Types' BY <1>1, <2>2 DEF IInv, Types, stopper
  <2>4. Calls' /\ Locks' BY Zenon, <2>2 DEF IInv, Calls, InCall, Locks
  <2>5. Link' BY Zenon, <2>2 DEF IInv, Link, Up
  <2>6. First' /\ ConnectIsFirst' BY Zenon, <2>2 DEF IInv, First, Opened, ConnectIsFirst
  <2>7. Cancel' /\ CancelNotLost' BY Zenon, <2>1, <2>2 DEF IInv, Cancel, CancelNotLost, InWait, stopper
  <2> QED BY Zenon, <2>3, <2>4, <2>5, <2>6, <2>7 DEF IInv
<1> QED BY Zenon, <1>2, <1>3

(* The descriptor that socket() returns: there is one, none being open. *)
LEMMA FreeDescriptor == fds = {} => Min(Fds \ fds) \in Fds
<1> SUFFICES ASSUME fds = {} PROVE Min(Fds) \in Fds BY Zenon
<1>1. 1 \in Fds /\ \A y \in Fds : 1 <= y BY Bounds DEF Fds
<1> QED BY Zenon, <1>1 DEF Min

LEMMA ConnectOpensKeeps == ASSUME IInv, connect_opens PROVE IInv'
<1> USE ProcsAssumption
<1>1. pc[Worker] = "socket" /\ UNCHANGED <<impl, io_lock, state, stopper, count, warned, sent, got>>
  BY Zenon DEF connect_opens
<1>2. ~warned /\ ret = "none" BY Zenon, <1>1 DEF IInv, Cancel
<1>3. CASE ConnectFails("ERR_IO")
  BY Zenon, <1>1, <1>2, <1>3, ConnectFailsKeeps DEF IInv, Types
<1>4. ASSUME NEW f, f = Min(Fds \ fds), fds' = fds \cup {f},
             call' = [call EXCEPT ![Worker] = [NoCall EXCEPT !.op = "connect", !.fd = f]],
             Goto(Worker, "opened"), UNCHANGED <<sock, mgr, ret>>
      PROVE  IInv'
  <2>1. ~Up /\ state = "DISCONNECTED" /\ fds = {} /\ call[Sender].op = "none" /\ io_lock # Worker
    BY Zenon, <1>1 DEF IInv, Types, Calls, Link, Up, InCall, Locks
  <2>2. f \in Fds /\ fds' = {f} BY Zenon, <1>4, <2>1, FreeDescriptor
  <2>3. /\ call' \in [Procs -> CallType] /\ call'[Worker].op = "connect" /\ call'[Worker].fd = f
        /\ call'[Sender] = call[Sender]
    <3> DEFINE new == [NoCall EXCEPT !.op = "connect", !.fd = f]
    <3>1. new \in CallType /\ new.op = "connect" /\ new.fd = f
      BY Zenon, <2>2, NoTypes DEF NoCall, CallType
    <3>2. call' = [call EXCEPT ![Worker] = new] BY Zenon, <1>4
    <3> HIDE DEF new
    <3> QED BY Zenon, <3>1, <3>2 DEF IInv, Types
  <2>4. /\ pc' \in [Procs -> WorkerPlaces \cup SenderPlaces] /\ pc'[Worker] = "opened"
        /\ pc'[Sender] = pc[Sender]
    BY Zenon, <1>4 DEF Goto, IInv, Types
  <2>5. Types' BY <1>1, <1>4, <2>2, <2>3, <2>4 DEF IInv, Types, stopper
  <2>6. Calls' BY Zenon, <2>3, <2>4 DEF IInv, Calls, InCall
  <2>7. Link' BY Zenon, <1>1, <2>1, <2>2, <2>3, <2>4 DEF IInv, Link, Up
  <2>8. Locks' BY Zenon, <1>1, <2>1, <2>3 DEF IInv, Locks
  <2>9. First' /\ ConnectIsFirst' BY Zenon, <1>1, <1>4, <2>1, <2>3 DEF IInv, First, ConnectIsFirst
  <2>10. Cancel' /\ CancelNotLost'
    BY Zenon, <1>1, <1>2, <1>4, <2>3, <2>4 DEF IInv, Cancel, CancelNotLost, InWait, stopper
  <2> QED BY Zenon, <2>5, <2>6, <2>7, <2>8, <2>9, <2>10 DEF IInv
<1> QED BY Zenon, <1>3, <1>4 DEF connect_opens

LEMMA ConnectBeginsKeeps == ASSUME IInv, connect_begins PROVE IInv'
<1> USE ProcsAssumption
<1>1. /\ pc[Worker] = "opened" /\ call[Worker].op = "connect"
      /\ UNCHANGED <<impl, io_lock, state, stopper, count, warned, sent, got>>
  BY Zenon DEF connect_begins, IInv, Calls
<1>2. ~warned /\ ret = "none" BY Zenon, <1>1 DEF IInv, Cancel
<1>3. ASSUME NEW s \in {"ERR_IO", "NOT_CONNECTED"}, ConnectFails(s) PROVE IInv'
  BY Zenon, <1>1, <1>2, <1>3, ConnectFailsKeeps DEF IInv, Types
<1>4. ASSUME NEW s \in {"up", "pending"}, sock' = [NoSock EXCEPT !.state = s],
             Waits(Worker, "connect", call[Worker].fd, <<>>),
             Goto(Worker, IF s = "up" THEN "restore" ELSE "ptop"), UNCHANGED <<fds, mgr, ret>>
      PROVE  IInv'
  <2>1. /\ ~Up /\ state = "DISCONNECTED" /\ call[Sender].op = "none" /\ io_lock # Worker
        /\ call[Worker].fd \in Fds /\ fds = {call[Worker].fd}
    BY Zenon, <1>1 DEF IInv, Types, Calls, Link, Up, InCall, Locks
  <2>2. /\ call' \in [Procs -> CallType] /\ call'[Worker].op = "connect"
        /\ call'[Worker].fd = call[Worker].fd /\ call'[Sender] = call[Sender]
    <3>1. <<>> \in Seq(Texts) OBVIOUS
    <3> QED BY Zenon, <1>4, <2>1, <3>1, WaitsCall
  <2>3. /\ pc' \in [Procs -> WorkerPlaces \cup SenderPlaces] /\ pc'[Worker] \in {"restore", "ptop"}
        /\ pc'[Sender] = pc[Sender]
    BY Zenon, <1>4 DEF Goto, IInv, Types
  <2>4. sock' \in SockType /\ sock'.c2s = <<>> BY Zenon, <1>4, NoTypes DEF SockType, NoSock
  <2>5. Types' BY <1>1, <1>4, <2>2, <2>3, <2>4 DEF IInv, Types, stopper
  <2>6. Calls' BY Zenon, <2>2, <2>3 DEF IInv, Calls, InCall
  <2>7. Link' BY Zenon, <1>1, <1>4, <2>1, <2>2, <2>3 DEF IInv, Link, Up
  <2>8. Locks' BY Zenon, <1>1, <2>1, <2>2 DEF IInv, Locks
  <2>9. First' /\ ConnectIsFirst' BY Zenon, <1>1, <1>4, <2>1, <2>2, <2>4 DEF IInv, First, ConnectIsFirst
  <2>10. Cancel' /\ CancelNotLost'
    BY Zenon, <1>1, <1>2, <1>4, <2>2, <2>3 DEF IInv, Cancel, CancelNotLost, InWait, stopper
  <2> QED BY Zenon, <2>5, <2>6, <2>7, <2>8, <2>9, <2>10 DEF IInv
<1> QED BY Zenon, <1>3, <1>4 DEF connect_begins

(* A connect that has its connection goes on, on the descriptor it opened. *)
LEMMA ConnectPolledKeeps == ASSUME IInv, connect_polled PROVE IInv'
<1> USE ProcsAssumption
<1>1. /\ pc[Worker] = "polled" /\ call[Worker].op = "connect" /\ call[Worker].pr \in {-1, 0, 1, 2}
      /\ UNCHANGED <<impl, io_lock, state, stopper, count, warned, sent, got>>
  BY Zenon DEF connect_polled, IInv, Types, CallType
<1>2. warned => call[Worker].pr = 2 BY Zenon, <1>1 DEF IInv, Cancel
<1>3. \/ \E s \in {"TIMEOUT", "CANCELLED", "ERR_IO", "NOT_CONNECTED"} :
            ConnectFails(s) /\ (warned => s = "CANCELLED")
      \/ ~warned /\ Goto(Worker, "restore") /\ UNCHANGED <<fds, sock, mgr, call, ret>>
  <2>1. CASE call[Worker].pr = 0 BY <1>2, <2>1 DEF connect_polled
  <2>2. CASE call[Worker].pr = 2
    <3>1. ConnectFails("CANCELLED") BY <2>2 DEF connect_polled
    <3> QED BY Zenon, <3>1
  <2>3. CASE call[Worker].pr = -1 BY <1>2, <2>3 DEF connect_polled
  <2>4. CASE call[Worker].pr = 1 BY <1>2, <2>4 DEF connect_polled
  <2> QED BY Zenon, <1>1, <2>1, <2>2, <2>3, <2>4
<1>4. ASSUME NEW s \in {"TIMEOUT", "CANCELLED", "ERR_IO", "NOT_CONNECTED"}, ConnectFails(s),
             warned => s = "CANCELLED"
      PROVE  IInv'
  BY Zenon, <1>1, <1>4, ConnectFailsKeeps DEF IInv, Types
<1>5. ASSUME ~warned, Goto(Worker, "restore"), UNCHANGED <<fds, sock, mgr, call, ret>> PROVE IInv'
  <2>1. /\ pc' \in [Procs -> WorkerPlaces \cup SenderPlaces] /\ pc'[Worker] = "restore"
        /\ pc'[Sender] = pc[Sender]
    BY Zenon, <1>5 DEF Goto, IInv, Types
  <2>2. Types' BY SMTT(30), <1>1, <1>5, <2>1 DEF IInv, Types, stopper
  <2>3. Calls' /\ Locks' BY ZenonT(30), <1>1, <1>5, <2>1 DEF IInv, Calls, InCall, Locks
  <2>4. Link' BY Zenon, <1>1, <1>5, <2>1 DEF IInv, Link, Up
  <2>5. First' /\ ConnectIsFirst' BY Zenon, <1>1, <1>5 DEF IInv, First, Opened, ConnectIsFirst
  <2>6. Cancel' /\ CancelNotLost'
    BY Zenon, <1>1, <1>5, <2>1 DEF IInv, Cancel, CancelNotLost, InWait, stopper
  <2> QED BY Zenon, <2>2, <2>3, <2>4, <2>5, <2>6 DEF IInv
<1> QED BY Zenon, <1>3, <1>4, <1>5

LEMMA ConnectRestoresKeeps == ASSUME IInv, connect_restores PROVE IInv'
<1> USE ProcsAssumption
<1>1. /\ pc[Worker] = "restore" /\ call[Worker].op = "connect" /\ ~warned
      /\ UNCHANGED <<io_lock, stopper, count, warned, sent, got>>
  BY Zenon DEF connect_restores, IInv, Calls, Cancel
<1>2. CASE ConnectFails("ERR_IO") /\ UNCHANGED <<impl, state>>
  BY Zenon, <1>1, <1>2, ConnectFailsKeeps DEF IInv, Types
<1>3. CASE /\ ret' = "OK" /\ impl' = call[Worker].fd /\ state' = "TRANSPORT_CONNECTED"
           /\ call' = [call EXCEPT ![Worker] = NoCall]
           /\ Goto(Worker, "handshake") /\ UNCHANGED <<fds, sock, mgr>>
  <2>1. ~Up /\ call[Sender].op = "none" /\ call[Worker].fd \in Fds /\ fds = {call[Worker].fd}
    BY Zenon, <1>1 DEF IInv, Calls, Link, Up
  <2>2. impl' # NoFd /\ impl' \in Fds /\ fds' = {impl'} BY <1>3, <2>1, Bounds DEF Fds
  <2>3. /\ call' \in [Procs -> CallType] /\ call'[Worker].op = "none" /\ call'[Sender] = call[Sender]
        /\ pc' \in [Procs -> WorkerPlaces \cup SenderPlaces] /\ pc'[Worker] = "handshake"
        /\ pc'[Sender] = pc[Sender]
    BY Zenon, <1>3, EndsCall DEF Goto, IInv, Types
  <2>4. Types' BY Zenon, <1>1, <1>3, <2>2, <2>3 DEF IInv, Types, stopper, Statuses
  <2>5. Calls' /\ Locks' BY Zenon, <1>1, <2>3 DEF IInv, Calls, InCall, Locks
  <2>6. Link' BY Zenon, <1>3, <2>1, <2>2, <2>3 DEF IInv, Link, Up
  <2>7. First' /\ ConnectIsFirst' BY Zenon, <1>3, <2>1, <2>3 DEF IInv, First, Opened, ConnectIsFirst
  <2>8. Cancel' /\ CancelNotLost' BY Zenon, <1>1, <2>3 DEF IInv, Cancel, CancelNotLost, InWait, stopper
  <2> QED BY Zenon, <2>4, <2>5, <2>6, <2>7, <2>8 DEF IInv
<1> QED BY Zenon, <1>1, <1>2, <1>3 DEF connect_restores

-----------------------------------------------------------------------------
(* send and recv. *)

LEMMA HandshakeKeeps == ASSUME IInv, send_connect_handshake PROVE IInv'
<1> USE ProcsAssumption
<1>1. /\ pc[Worker] = "handshake" /\ call[Worker].op = "none" /\ Up
      /\ UNCHANGED <<fds, impl, sock, io_lock, stopper, mgr, history>>
  BY Zenon DEF send_connect_handshake, IInv, Calls, Link, InCall, link
<1>2. CASE Goto(Worker, "close") /\ UNCHANGED <<state, call>>
  <2>1. /\ pc' \in [Procs -> WorkerPlaces \cup SenderPlaces] /\ pc'[Worker] = "close"
        /\ pc'[Sender] = pc[Sender]
    BY Zenon, <1>2 DEF Goto, IInv, Types
  <2>2. Types' BY SMTT(30), <1>1, <1>2, <2>1 DEF IInv, Types, stopper, history
  <2>3. Calls' /\ Locks' BY Zenon, <1>1, <1>2, <2>1 DEF IInv, Calls, InCall, Locks
  <2>4. Link' BY Zenon, <1>1, <1>2, <2>1 DEF IInv, Link, Up
  <2>5. First' /\ ConnectIsFirst' BY Zenon, <1>1, <1>2 DEF IInv, First, Opened, ConnectIsFirst
  <2>6. Cancel' /\ CancelNotLost'
    BY Zenon, <1>1, <1>2, <2>1 DEF IInv, Cancel, CancelNotLost, InWait, stopper, history
  <2> QED BY Zenon, <2>2, <2>3, <2>4, <2>5, <2>6 DEF IInv
<1>3. CASE /\ state = "TRANSPORT_CONNECTED" /\ state' = "HANDSHAKING"
           /\ Waits(Worker, "send", impl, <<CONNECT>>) /\ Goto(Worker, "ptop")
  <2>1. impl \in Fds /\ <<CONNECT>> \in Seq(Texts) BY <1>1, NoTypes DEF IInv, Types, Up
  <2>2. /\ call' \in [Procs -> CallType] /\ call'[Worker].op = "send" /\ call'[Worker].fd = impl
        /\ call'[Worker].text = <<CONNECT>> /\ call'[Sender] = call[Sender]
    BY Zenon, <1>3, <2>1, WaitsCall
  <2>3. /\ pc' \in [Procs -> WorkerPlaces \cup SenderPlaces] /\ pc'[Worker] = "ptop"
        /\ pc'[Sender] = pc[Sender]
    BY Zenon, <1>3 DEF Goto, IInv, Types
  <2>4. Types' BY SMTT(30), <1>1, <1>3, <2>2, <2>3 DEF IInv, Types, stopper, history
  <2>5. Calls' BY Zenon, <2>2, <2>3 DEF IInv, Calls, InCall
  <2>6. Link' BY ZenonT(30), <1>1, <1>3, <2>2, <2>3 DEF IInv, Link, Up
  <2>7. Locks' BY Zenon, <1>1, <2>2 DEF IInv, Locks
  <2>8. First' /\ ConnectIsFirst' BY Zenon, <1>1, <1>3, <2>2 DEF IInv, First, Opened, ConnectIsFirst
  <2>9. Cancel' /\ CancelNotLost'
    BY Zenon, <1>1, <2>2, <2>3 DEF IInv, Cancel, CancelNotLost, InWait, stopper, history
  <2> QED BY Zenon, <2>4, <2>5, <2>6, <2>7, <2>8, <2>9 DEF IInv
<1> QED BY Zenon, <1>2, <1>3 DEF send_connect_handshake

LEMMA LoopKeeps == ASSUME IInv, worker_main_loop PROVE IInv'
<1> USE ProcsAssumption
<1>1. /\ pc[Worker] = "loop" /\ call[Worker].op = "none" /\ Up
      /\ UNCHANGED <<fds, impl, sock, state, stopper, mgr, history>>
  BY Zenon DEF worker_main_loop, IInv, Calls, Link, InCall, link
<1>2. CASE Goto(Worker, "close") /\ UNCHANGED <<io_lock, call>>
  <2>1. /\ pc' \in [Procs -> WorkerPlaces \cup SenderPlaces] /\ pc'[Worker] = "close"
        /\ pc'[Sender] = pc[Sender]
    BY Zenon, <1>2 DEF Goto, IInv, Types
  <2>2. Types' BY SMTT(30), <1>1, <1>2, <2>1 DEF IInv, Types, stopper, history
  <2>3. Calls' /\ Locks' BY Zenon, <1>1, <1>2, <2>1 DEF IInv, Calls, InCall, Locks
  <2>4. Link' BY Zenon, <1>1, <1>2, <2>1 DEF IInv, Link, Up
  <2>5. First' /\ ConnectIsFirst' BY Zenon, <1>1, <1>2 DEF IInv, First, Opened, ConnectIsFirst
  <2>6. Cancel' /\ CancelNotLost'
    BY Zenon, <1>1, <1>2, <2>1 DEF IInv, Cancel, CancelNotLost, InWait, stopper, history
  <2> QED BY Zenon, <2>2, <2>3, <2>4, <2>5, <2>6 DEF IInv
<1>3. CASE /\ io_lock = Nobody /\ io_lock' = Worker
           /\ Waits(Worker, "recv", impl, <<>>) /\ Goto(Worker, "ptop")
  <2>1. impl \in Fds /\ <<>> \in Seq(Texts) BY <1>1 DEF IInv, Types, Up
  <2>2. /\ call' \in [Procs -> CallType] /\ call'[Worker].op = "recv" /\ call'[Worker].fd = impl
        /\ call'[Sender] = call[Sender]
    BY Zenon, <1>3, <2>1, WaitsCall
  <2>3. /\ pc' \in [Procs -> WorkerPlaces \cup SenderPlaces] /\ pc'[Worker] = "ptop"
        /\ pc'[Sender] = pc[Sender]
    BY Zenon, <1>3 DEF Goto, IInv, Types
  <2>4. Types' BY SMTT(30), <1>1, <1>3, <2>2, <2>3 DEF IInv, Types, stopper, history
  <2>5. Calls' BY ZenonT(30), <2>2, <2>3 DEF IInv, Calls, InCall
  <2>6. Link' BY ZenonT(30), <1>1, <2>2, <2>3 DEF IInv, Link, Up
  <2>7. Locks' BY Zenon, <1>3, <2>2 DEF IInv, Locks
  <2>8. First' /\ ConnectIsFirst' BY Zenon, <1>1, <2>2 DEF IInv, First, Opened, ConnectIsFirst
  <2>9. Cancel' /\ CancelNotLost'
    BY Zenon, <1>1, <2>2, <2>3 DEF IInv, Cancel, CancelNotLost, InWait, stopper, history
  <2> QED BY Zenon, <2>4, <2>5, <2>6, <2>7, <2>8, <2>9 DEF IInv
<1> QED BY Zenon, <1>2, <1>3 DEF worker_main_loop

(* A message waits behind io_lock; the handshake is in the connection. *)
LEMMA SendKeeps == ASSUME IInv, NEW m \in Messages, send_impl(m) PROVE IInv'
<1> USE ProcsAssumption
<1>1. /\ pc[Sender] = "idle" /\ state = "CONNECTED" /\ io_lock = Nobody /\ io_lock' = Sender
      /\ Waits(Sender, "send", impl, <<m>>) /\ Goto(Sender, "ptop")
      /\ UNCHANGED <<fds, impl, sock, state, stopper, mgr, history>>
  BY Zenon DEF send_impl, link
<1>2. Up /\ impl \in Fds /\ <<m>> \in Seq(Texts)
  <2>1. m \in Texts BY Zenon DEF Texts
  <2> QED BY <1>1, <2>1 DEF IInv, Types, Link, Up
<1>3. /\ call' \in [Procs -> CallType] /\ call'[Sender].op = "send" /\ call'[Sender].fd = impl
      /\ call'[Worker] = call[Worker]
  BY Zenon, <1>1, <1>2, WaitsCall
<1>4. /\ pc' \in [Procs -> WorkerPlaces \cup SenderPlaces] /\ pc'[Sender] = "ptop"
      /\ pc'[Worker] = pc[Worker]
  BY Zenon, <1>1 DEF Goto, IInv, Types
<1>5. Types' BY Zenon, <1>1, <1>3, <1>4 DEF IInv, Types, stopper, history
<1>6. Calls' BY Zenon, <1>3, <1>4 DEF IInv, Calls, InCall
<1>7. Link' BY ZenonT(30), <1>1, <1>2, <1>3, <1>4 DEF IInv, Link, Up
<1>8. Locks' BY ZenonT(30), <1>1, <1>3 DEF IInv, Locks
<1>9. First' /\ ConnectIsFirst' BY ZenonT(30), <1>1 DEF IInv, First, Opened, ConnectIsFirst
<1>10. Cancel' /\ CancelNotLost'
  BY Zenon, <1>1, <1>3, <1>4 DEF IInv, Cancel, CancelNotLost, InWait, stopper, history
<1> QED BY Zenon, <1>5, <1>6, <1>7, <1>8, <1>9, <1>10 DEF IInv

(* What is first in a queue stays first when something is put behind it. *)
LEMMA FirstStays ==
    ASSUME NEW S, NEW s \in Seq(S), NEW t \in Seq(S), s # <<>>
    PROVE  s \o t # <<>> /\ Head(s \o t) = Head(s)
<1>1. Len(s) > 0 /\ Len(s \o t) = Len(s) + Len(t) /\ Len(t) >= 0 OBVIOUS
<1>2. (s \o t)[1] = s[1] BY <1>1
<1> QED BY <1>1, <1>2

(* A text is put behind what is in the connection. *)
LEMMA Puts ==
    ASSUME IInv, NEW p \in Procs, call[p].op = "send", UNCHANGED mgr,
           sock' = [sock EXCEPT !.c2s = @ \o call[p].text]
    PROVE  /\ sock' \in SockType
           /\ mgr.at \in {"accept", "expect"} /\ sock'.c2s # <<>> => Head(sock'.c2s) = CONNECT
           /\ p = Worker \/ Opened => Opened'
<1>1. call[p].text \in Seq(Texts) /\ sock.c2s \in Seq(Texts) BY Zenon DEF IInv, Types, CallType, SockType
<1>2. sock' \in SockType /\ sock'.c2s = sock.c2s \o call[p].text
  <2> DEFINE new == sock.c2s \o call[p].text
  <2>1. new \in Seq(Texts) BY <1>1
  <2>2. sock' = [sock EXCEPT !.c2s = new] BY Zenon
  <2> HIDE DEF new
  <2>3. sock' \in SockType /\ sock'.c2s = new BY Zenon, <2>1, <2>2 DEF IInv, Types, SockType
  <2> QED BY Zenon, <2>3 DEF new
<1>3. sock.c2s # <<>> => sock'.c2s # <<>> /\ Head(sock'.c2s) = Head(sock.c2s)
  BY Zenon, <1>1, <1>2, FirstStays
<1>4. ASSUME p = Worker PROVE sock'.c2s # <<>> /\ (sock.c2s = <<>> => Head(sock'.c2s) = CONNECT)
  <2>1. call[p].text = <<CONNECT>> BY Zenon, <1>4 DEF IInv, Calls
  <2> QED BY <1>1, <1>2, <2>1
<1>5. ASSUME p = Sender, mgr.at \in {"accept", "expect"} PROVE sock.c2s # <<>>
  BY Zenon, <1>5 DEF IInv, First, Opened
<1> QED BY Zenon, <1>2, <1>3, <1>4, <1>5 DEF IInv, First, Opened

LEMMA SendCappedKeeps == ASSUME IInv, NEW p \in Procs, savvy_ipc_send_capped(p) PROVE IInv'
<1> USE ProcsAssumption
<1>1. /\ pc[p] = "polled" /\ call[p].op = "send" /\ UNCHANGED <<fds, impl, stopper, mgr, history>>
      /\ call' = [call EXCEPT ![p] = NoCall]
  BY Zenon DEF savvy_ipc_send_capped
<1>2. PICK ok \in BOOLEAN :
        /\ sock' = IF ok THEN [sock EXCEPT !.c2s = @ \o call[p].text] ELSE sock
        /\ IF p = Worker
           THEN /\ state' = IF ok /\ state = "HANDSHAKING" THEN "CONNECTED" ELSE state
                /\ Goto(p, IF ok /\ state = "HANDSHAKING" THEN "loop" ELSE "close")
                /\ UNCHANGED io_lock
           ELSE io_lock' = Nobody /\ Goto(p, "idle") /\ UNCHANGED state
  BY Zenon DEF savvy_ipc_send_capped
<1>3. /\ call' \in [Procs -> CallType] /\ call'[p].op = "none"
      /\ \A q \in Procs \ {p} : call'[q] = call[q]
  BY Zenon, <1>1, EndsCall
<1>4. /\ sock' \in SockType
      /\ mgr.at \in {"accept", "expect"} /\ sock'.c2s # <<>> => Head(sock'.c2s) = CONNECT
      /\ Opened => Opened'
      /\ p = Worker /\ ok => Opened'
  <2>1. CASE ok BY Zenon, <1>1, <1>2, <2>1, Puts
  <2>2. CASE ~ok
    <3>1. sock' = sock /\ mgr' = mgr BY Zenon, <1>1, <1>2, <2>2
    <3> QED BY Zenon, <2>2, <3>1 DEF IInv, Types, First, Opened
  <2> QED BY Zenon, <2>1, <2>2
<1>5. CASE p = Worker
  <2>1. /\ pc' \in [Procs -> WorkerPlaces \cup SenderPlaces] /\ pc'[Worker] \in {"loop", "close"}
        /\ pc'[Sender] = pc[Sender] /\ UNCHANGED io_lock /\ Up
    BY <1>1, <1>2, <1>5 DEF Goto, IInv, Types, Link
  <2>2. state' = state \/ (ok /\ state = "HANDSHAKING" /\ state' = "CONNECTED") BY Zenon, <1>2, <1>5
  <2>3. Types' BY SMTT(30), <1>1, <1>3, <1>4, <2>1, <2>2 DEF IInv, Types, stopper, history
  <2>4. Calls' BY <1>3, <1>5, <2>1 DEF IInv, Calls, InCall
  <2>5. Link' BY Zenon, <1>1, <1>3, <1>5, <2>1, <2>2 DEF IInv, Link, Up
  <2>6. Locks' BY ZenonT(30), <1>1, <1>3, <1>5, <2>1 DEF IInv, Locks
  <2>7. First' /\ ConnectIsFirst'
    BY Zenon, <1>1, <1>3, <1>4, <1>5, <2>2 DEF IInv, First, ConnectIsFirst, history
  <2>8. Cancel' /\ CancelNotLost'
    BY Zenon, <1>1, <1>3, <1>5, <2>1 DEF IInv, Cancel, CancelNotLost, InWait, stopper, history
  <2> QED BY Zenon, <2>3, <2>4, <2>5, <2>6, <2>7, <2>8 DEF IInv
<1>6. CASE p = Sender
  <2>1. /\ pc' \in [Procs -> WorkerPlaces \cup SenderPlaces] /\ pc'[Sender] = "idle"
        /\ pc'[Worker] = pc[Worker] /\ io_lock' = Nobody /\ io_lock = Sender /\ UNCHANGED state
    BY Zenon, <1>1, <1>2, <1>6 DEF Goto, IInv, Types, Locks
  <2>2. Types' BY SMTT(30), <1>1, <1>3, <1>4, <2>1 DEF IInv, Types, stopper, history
  <2>3. Calls' BY SMTT(30), <1>3, <1>6, <2>1 DEF IInv, Calls, InCall
  <2>4. Link' BY Zenon, <1>1, <1>3, <1>6, <2>1 DEF IInv, Link, Up
  <2>5. Locks' BY Zenon, <1>3, <1>6, <2>1 DEF IInv, Locks
  <2>6. First' /\ ConnectIsFirst'
    BY ZenonT(30), <1>1, <1>3, <1>4, <1>6, <2>1 DEF IInv, First, ConnectIsFirst, history
  <2>7. Cancel' /\ CancelNotLost'
    BY Zenon, <1>1, <1>3, <1>6, <2>1 DEF IInv, Cancel, CancelNotLost, InWait, stopper, history
  <2> QED BY Zenon, <2>2, <2>3, <2>4, <2>5, <2>6, <2>7 DEF IInv
<1> QED BY Zenon, <1>5, <1>6

LEMMA RecvCappedKeeps == ASSUME IInv, savvy_ipc_recv_capped PROVE IInv'
<1> USE ProcsAssumption
<1>1. /\ pc[Worker] = "polled" /\ call[Worker].op = "recv" /\ io_lock' = Nobody
      /\ call' = [call EXCEPT ![Worker] = NoCall]
      /\ UNCHANGED <<fds, impl, state, stopper, mgr, warned, ret, sent>>
  BY Zenon DEF savvy_ipc_recv_capped
<1>2. /\ call' \in [Procs -> CallType] /\ call'[Worker].op = "none" /\ call'[Sender] = call[Sender]
  BY Zenon, <1>1, EndsCall
<1>3. /\ pc' \in [Procs -> WorkerPlaces \cup SenderPlaces] /\ pc'[Worker] \in {"loop", "close"}
      /\ pc'[Sender] = pc[Sender]
  BY DEF savvy_ipc_recv_capped, Goto, IInv, Types
<1>4. sock' \in SockType /\ sock'.c2s = sock.c2s /\ got' \in Seq(Texts)
  <2>1. CASE UNCHANGED <<sock, got>> BY Zenon, <2>1 DEF IInv, Types
  <2>2. CASE /\ sock.s2c # <<>> /\ sock' = [sock EXCEPT !.s2c = Tail(@)]
             /\ got' = got \/ got' = Append(got, Head(sock.s2c))
    <3>1. sock.s2c \in Seq(Texts) /\ got \in Seq(Texts) BY Zenon DEF IInv, Types, SockType
    <3>2. Tail(sock.s2c) \in Seq(Texts) /\ Head(sock.s2c) \in Texts BY <2>2, <3>1
    <3>3. sock' \in SockType /\ sock'.c2s = sock.c2s BY Zenon, <2>2, <3>2 DEF IInv, Types, SockType
    <3> QED BY <2>2, <3>1, <3>2, <3>3
  <2> QED BY Zenon, <2>1, <2>2 DEF savvy_ipc_recv_capped
<1>5. io_lock = Worker /\ Up BY Zenon, <1>1 DEF IInv, Locks, Link
<1>6. Types' BY <1>1, <1>2, <1>3, <1>4 DEF IInv, Types, stopper
<1>7. Calls' BY Zenon, <1>2, <1>3 DEF IInv, Calls, InCall
<1>8. Link' BY Zenon, <1>1, <1>2, <1>3, <1>5 DEF IInv, Link, Up
<1>9. Locks' BY Zenon, <1>1, <1>2, <1>5 DEF IInv, Locks
<1>10. First' /\ ConnectIsFirst' BY Zenon, <1>1, <1>2, <1>4 DEF IInv, First, Opened, ConnectIsFirst
<1>11. Cancel' /\ CancelNotLost' BY Zenon, <1>1, <1>2, <1>3 DEF IInv, Cancel, CancelNotLost, InWait, stopper
<1> QED BY Zenon, <1>6, <1>7, <1>8, <1>9, <1>10, <1>11 DEF IInv

(* Whoever closes the transport holds io_lock: nobody sends. *)
LEMMA CloseKeeps == ASSUME IInv, close_transport PROVE IInv'
<1> USE ProcsAssumption
<1>1. /\ pc[Worker] = "close" /\ io_lock = Nobody /\ Goto(Worker, "top")
      /\ fds' = fds \ {impl} /\ impl' = NoFd /\ state' = "DISCONNECTED"
      /\ sock' = NoSock /\ mgr' = [at |-> "accept", first |-> <<>>]
      /\ UNCHANGED <<io_lock, call, stopper, history>>
  BY Zenon DEF close_transport, SocketGone
<1>2. call[Worker].op = "none" /\ call[Sender].op = "none" /\ fds' = {}
  BY Zenon, <1>1 DEF IInv, Types, Calls, InCall, Locks, Link, Up
<1>3. /\ pc' \in [Procs -> WorkerPlaces \cup SenderPlaces] /\ pc'[Worker] = "top"
      /\ pc'[Sender] = pc[Sender]
  BY Zenon, <1>1 DEF Goto, IInv, Types
<1>4. Types' BY Zenon, <1>1, <1>2, <1>3, NoTypes DEF IInv, Types, stopper, history
<1>5. Calls' /\ Locks' BY ZenonT(30), <1>1, <1>2, <1>3 DEF IInv, Calls, InCall, Locks
<1>6. Link' BY Zenon, <1>1, <1>2, <1>3 DEF Link, Up
<1>7. First' /\ ConnectIsFirst' BY ZenonT(30), <1>1, <1>2 DEF First, ConnectIsFirst, NoSock
<1>8. Cancel' /\ CancelNotLost'
  BY Zenon, <1>1, <1>2, <1>3 DEF IInv, Cancel, CancelNotLost, InWait, stopper, history
<1> QED BY Zenon, <1>4, <1>5, <1>6, <1>7, <1>8 DEF IInv

-----------------------------------------------------------------------------
(* The MGR and the kernel do nothing to the client's side. *)

Remote == connection_settles \/ mgr_accepts \/ mgr_reads \/ mgr_sends \/ mgr_closes

LEMMA RemoteKeeps == ASSUME IInv, Remote PROVE IInv'
<1> DEFINE Same == UNCHANGED <<fds, impl, io_lock, state, pc, call, stopper, warned, ret, got>>
<1>1. Same
  BY Zenon DEF Remote, connection_settles, mgr_accepts, mgr_reads, mgr_sends, mgr_closes, history, link
<1>2. sock.c2s \in Seq(Texts) /\ sock.s2c \in Seq(Texts) /\ sent \in Seq(Texts)
  BY Zenon DEF IInv, Types, SockType
<1> DEFINE Goes == /\ sock' \in SockType /\ mgr' \in MgrType /\ sent' \in Seq(Texts)
                   /\ mgr'.first \in {<<>>, <<CONNECT>>}
                   /\ mgr'.at \in {"accept", "expect"} =>
                        mgr.at \in {"accept", "expect"} /\ sock'.c2s = sock.c2s
<1>3. ASSUME connection_settles \/ mgr_accepts \/ mgr_closes PROVE Goes
  <2>1. /\ sock' \in SockType /\ mgr' \in MgrType /\ sock'.c2s = sock.c2s /\ mgr'.first = mgr.first
        /\ mgr'.at \in {"accept", "expect"} => mgr.at \in {"accept", "expect"}
    BY Zenon, <1>3 DEF connection_settles, mgr_accepts, mgr_closes, link, IInv, Types, SockType, MgrType
  <2>2. sent' = sent BY Zenon, <1>3 DEF connection_settles, mgr_accepts, mgr_closes, history
  <2> QED BY Zenon, <1>2, <2>1, <2>2 DEF IInv, ConnectIsFirst
<1>4. ASSUME mgr_sends PROVE Goes
  <2>1. PICK r \in Records[Len(sent) + 1] :
           sock' = [sock EXCEPT !.s2c = Append(@, r)] /\ sent' = Append(sent, r)
    BY Zenon, <1>4 DEF mgr_sends
  <2>2. r \in Texts
    <3>1. Len(sent) + 1 \in 1..Len(Records) BY <1>2, <1>4, RecordsAssumption DEF mgr_sends
    <3> QED BY Zenon, <2>1, <3>1 DEF Texts
  <2>3. Append(sock.s2c, r) \in Seq(Texts) /\ Append(sent, r) \in Seq(Texts) BY <1>2, <2>2
  <2>4. sock' \in SockType /\ sock'.c2s = sock.c2s /\ UNCHANGED mgr
    BY Zenon, <1>4, <2>1, <2>3 DEF IInv, Types, SockType, mgr_sends
  <2> QED BY Zenon, <2>1, <2>3, <2>4 DEF IInv, Types, ConnectIsFirst
<1>5. ASSUME mgr_reads PROVE Goes
  <2>1. /\ mgr.at \in {"expect", "serving"} /\ sock.c2s # <<>> /\ sock' = [sock EXCEPT !.c2s = Tail(@)]
        /\ sent' = sent
    BY Zenon, <1>5 DEF mgr_reads, history
  <2>2. Tail(sock.c2s) \in Seq(Texts) /\ Head(sock.c2s) \in Texts BY <1>2, <2>1
  <2>3. sock' \in SockType BY Zenon, <2>1, <2>2 DEF IInv, Types, SockType
  <2>4. CASE mgr.at = "serving"
    BY Zenon, <1>2, <1>5, <2>1, <2>3, <2>4 DEF mgr_reads, IInv, Types, ConnectIsFirst
  <2>5. CASE mgr.at = "expect"
    <3>1. Head(sock.c2s) = CONNECT BY Zenon, <2>1, <2>5 DEF IInv, First
    <3>2. mgr' = [at |-> "serving", first |-> <<CONNECT>>] BY Zenon, <1>5, <2>5, <3>1 DEF mgr_reads
    <3>3. mgr' \in MgrType /\ mgr'.first = <<CONNECT>> /\ mgr'.at = "serving"
      BY <3>2, NoTypes DEF MgrType
    <3> QED BY Zenon, <1>2, <2>1, <2>3, <3>3
  <2> QED BY Zenon, <2>1, <2>4, <2>5
<1>6. Goes BY Zenon, <1>3, <1>4, <1>5 DEF Remote
<1>7. Types' BY SMTT(30), <1>1, <1>6 DEF IInv, Types, stopper
<1>8. Calls' /\ Locks' BY ZenonT(30), <1>1 DEF IInv, Calls, InCall, Locks
<1>9. Link' BY ZenonT(30), <1>1 DEF IInv, Link, Up
<1>10. First' BY ZenonT(30), <1>1, <1>6 DEF IInv, First, Opened
<1>11. Cancel' /\ CancelNotLost' /\ ConnectIsFirst'
  BY Zenon, <1>1, <1>6 DEF IInv, Cancel, CancelNotLost, ConnectIsFirst, InWait, stopper
<1> QED BY Zenon, <1>7, <1>8, <1>9, <1>10, <1>11 DEF IInv

-----------------------------------------------------------------------------
(* Every step keeps the invariant. *)
LEMMA NextIInv == IInv /\ [Next]_vars => IInv'
<1> SUFFICES ASSUME IInv, [Next]_vars PROVE IInv' BY Zenon
<1>1. CASE stop_requests \/ Stopping BY Zenon, <1>1, StopperKeeps
<1>2. CASE worker_main
  BY Zenon, <1>2, WorkerTopKeeps, ConnectChecksKeeps, ConnectOpensKeeps, ConnectBeginsKeeps,
     ConnectPolledKeeps, ConnectRestoresKeeps, HandshakeKeeps, LoopKeeps, RecvCappedKeeps, CloseKeeps
     DEF worker_main
<1>3. ASSUME NEW m \in Messages, send_impl(m) PROVE IInv' BY Zenon, <1>3, SendKeeps
<1>4. ASSUME NEW p \in Procs, Waiting(p) \/ poll_fails(p) \/ poll_interrupted(p) \/ savvy_ipc_send_capped(p) PROVE IInv'
  BY Zenon, <1>4, PollTopKeeps, PollReturnsKeeps, PollFailsKeeps, InterruptedKeeps, SendCappedKeeps DEF Waiting
<1>5. CASE savvy_clock_now BY Zenon, <1>5, ClockKeeps
<1>6. CASE Remote BY Zenon, <1>6, RemoteKeeps
<1>7. CASE UNCHANGED vars
  <2>1. Polls BY Zenon, <1>7 DEF Polls, IInv, Types, vars, history
  <2>2. Cancel' /\ CancelNotLost' /\ warned' \in BOOLEAN
    BY Zenon, <1>7 DEF IInv, Types, Cancel, CancelNotLost, InWait, vars, stopper, history
  <2> QED BY Zenon, <2>1, <2>2, PollsKeeps
<1> QED BY Zenon, <1>1, <1>2, <1>3, <1>4, <1>5, <1>6, <1>7 DEF Next, Remote

(* The inductive invariant holds, whatever the MGR, the signals and the    *)
(* threads do.                                                             *)
THEOREM Invariance == Spec => []IInv
BY InitIInv, NextIInv, PTL DEF Spec

(* The variables of the link, the calls, the cancel source and the         *)
(* connection state keep their types.                                      *)
THEOREM TypesKept == Spec => []TypeOK
<1>1. IInv => TypeOK
  <2> SUFFICES ASSUME IInv PROVE TypeOK BY Zenon
  <2>1. \A p \in Procs : /\ call[p].op \in {"none", "connect", "send", "recv"}
                         /\ call[p].pr \in {-1, 0, 1, 2} /\ call[p].left \in Nat
    BY Zenon DEF IInv, Types, CallType
  <2>2. /\ sock.state \in {"none", "pending", "up", "failed"}
        /\ \A s \in {sock.c2s, sock.s2c, sent, got} : s \in Seq(Texts)
    BY DEF IInv, Types, SockType
  <2> QED BY <2>1, <2>2 DEF IInv, Types, TypeOK
<1> QED BY <1>1, Invariance, PTL

(* connect never loses a cancellation that cancel() had reported when it   *)
(* last looked: cancel() succeeds with its byte in the pipe, and nobody    *)
(* reads the pipe.                                                         *)
THEOREM CancelKept == Spec => []CancelNotLost
<1>1. IInv => CancelNotLost BY DEF IInv
<1> QED BY <1>1, Invariance, PTL

(* No descriptor leaks or is closed under a call: io_lock keeps            *)
(* close_transport away from sends, and the worker from itself.            *)
THEOREM DescriptorsAreOwned == Spec => []DescriptorsOwned
<1>1. IInv => DescriptorsOwned
  <2> SUFFICES ASSUME IInv PROVE DescriptorsOwned BY Zenon
  <2>1. call[Worker].op = "connect" => ~Up /\ call[Worker].fd \in Fds /\ call[Worker].fd # NoFd
    BY Bounds DEF IInv, Calls, Link, Fds, InCall
  <2>2. fds = ({impl} \cup (IF call[Worker].op = "connect" THEN {call[Worker].fd} ELSE {})) \ {NoFd}
    BY Zenon, <2>1 DEF IInv, Link, Up
  <2>3. ASSUME NEW p \in Procs, InCall(p) PROVE call[p].fd \in fds
    <3>1. call[p].op \in {"connect", "send", "recv"} BY Zenon, <2>3 DEF IInv, Types, CallType, Calls
    <3>2. CASE call[p].op = "connect" BY Zenon, <2>1, <2>2, <3>2 DEF IInv, Calls
    <3>3. CASE call[p].op \in {"send", "recv"}
      <4>1. Up BY Zenon, <3>3 DEF IInv, Calls, Link
      <4> QED BY Zenon, <3>3, <4>1 DEF IInv, Link
    <3> QED BY <3>1, <3>2, <3>3
  <2> QED BY <2>2, <2>3 DEF DescriptorsOwned
<1> QED BY <1>1, Invariance, PTL

(* The first record the MGR reads is CONNECT: a message is sent only once  *)
(* the handshake is in the connection.                                     *)
THEOREM HandshakeComesFirst == Spec => []ConnectIsFirst
<1>1. IInv => ConnectIsFirst BY DEF IInv
<1> QED BY <1>1, Invariance, PTL
-----------------------------------------------------------------------------
(* What the client has read, and what is left for it to read. *)

(* Wanted says of each record what the client is to do with it: it is      *)
(* wanted when it is within the cap and dispatch_envelope accepts it.      *)
WantedIsDispatched ==
    \A r \in Texts : r \in Wanted <=> r.len <= SAVVY_IPC_MAX_MESSAGE /\ dispatch_envelope(r)

(* g is what is wanted of the first n records of s, in order.              *)
KeptOf(s, n) == {i \in 1..n : s[i] \in Wanted}
Gives(s, n, g) == /\ Len(g) = Cardinality(KeptOf(s, n))
                  /\ \A i \in KeptOf(s, n) : g[Cardinality(KeptOf(s, i))] = s[i]

(* u are the last records of s. *)
EndsWith(s, u) == /\ Len(u) <= Len(s)
                  /\ \A k \in 1..Len(u) : u[k] = s[Len(s) - Len(u) + k]

Begun == {"connect", "socket", "opened"}
Connecting == Begun \union {"top"}

USE DEF Begun

(* A connection begins with nothing sent and nothing delivered and ends    *)
(* before the next one begins; what it holds for the client are the last   *)
(* records sent.                                                           *)
Delivery ==
    /\ pc[Worker] \in Connecting => sock.state = "none"
    /\ sock.state # "up" => sock.s2c = <<>> /\ mgr.at \notin {"expect", "serving"}
    /\ pc[Worker] \in Begun \/ sock.state = "pending" => sent = <<>> /\ got = <<>>
    /\ sock.state = "up" => /\ EndsWith(sent, sock.s2c)
                            /\ Gives(sent, Len(sent) - Len(sock.s2c), got)

LEMMA KeptIsFinite == ASSUME NEW s, NEW n \in Nat
                      PROVE IsFiniteSet(KeptOf(s, n)) /\ Cardinality(KeptOf(s, n)) \in Nat
<1>1. IsFiniteSet(1..n) BY FS_Interval
<1>2. KeptOf(s, n) \in SUBSET (1..n) BY Zenon DEF KeptOf
<1>3. IsFiniteSet(KeptOf(s, n)) BY Zenon, <1>1, <1>2, FS_Subset
<1> QED BY Zenon, <1>3, FS_CardinalityType

(* A wanted record has its place among those delivered. *)
LEMMA KeptHasPlace == ASSUME NEW s, NEW n \in Nat, NEW i \in KeptOf(s, n)
                      PROVE Cardinality(KeptOf(s, i)) \in 1..Cardinality(KeptOf(s, n))
<1>1. i \in Nat /\ i \in KeptOf(s, i) BY DEF KeptOf
<1>2. KeptOf(s, i) \in SUBSET KeptOf(s, n) BY <1>1 DEF KeptOf
<1>3. Cardinality(KeptOf(s, i)) <= Cardinality(KeptOf(s, n)) BY Zenon, <1>2, KeptIsFinite, FS_Subset
<1>4. Cardinality(KeptOf(s, i)) # 0 BY Zenon, <1>1, KeptIsFinite, FS_EmptySet
<1> QED BY <1>1, <1>3, <1>4, KeptIsFinite

LEMMA GivesNone == ASSUME NEW s PROVE Gives(s, 0, <<>>)
<1>1. KeptOf(s, 0) = {} BY DEF KeptOf
<1> QED BY Zenon, <1>1, FS_EmptySet DEF Gives

(* The next record is read: it is delivered if it is wanted. *)
LEMMA GivesMore ==
    ASSUME NEW T, NEW s \in Seq(T), NEW g \in Seq(T), NEW n \in Nat, n < Len(s), Gives(s, n, g)
    PROVE  Gives(s, n + 1, IF s[n + 1] \in Wanted THEN Append(g, s[n + 1]) ELSE g)
<1> DEFINE K == KeptOf(s, n)
<1>1. IsFiniteSet(K) /\ Cardinality(K) \in Nat /\ n + 1 \notin K BY KeptIsFinite DEF KeptOf
<1>2. CASE s[n + 1] \notin Wanted
  <2>1. KeptOf(s, n + 1) = K BY SMTT(30), <1>2 DEF KeptOf
  <2> QED BY Zenon, <1>2, <2>1 DEF Gives
<1>3. CASE s[n + 1] \in Wanted
  <2>1. KeptOf(s, n + 1) = K \cup {n + 1} BY <1>3 DEF KeptOf
  <2>2. Cardinality(KeptOf(s, n + 1)) = Cardinality(K) + 1 BY Zenon, <1>1, <2>1, FS_AddElement
  <2>3. Len(g) = Cardinality(K) /\ Len(Append(g, s[n + 1])) = Cardinality(K) + 1 BY DEF Gives
  <2>4. ASSUME NEW i \in KeptOf(s, n + 1)
        PROVE  Append(g, s[n + 1])[Cardinality(KeptOf(s, i))] = s[i]
    <3>1. CASE i \in K
      <4>1. Cardinality(KeptOf(s, i)) \in 1..Len(g) BY Zenon, <2>3, <3>1, KeptHasPlace
      <4>2. g[Cardinality(KeptOf(s, i))] = s[i] BY Zenon, <3>1 DEF Gives
      <4> HIDE DEF K
      <4> QED BY <4>1, <4>2
    <3>2. CASE i = n + 1
      <4>1. Cardinality(KeptOf(s, i)) = Len(g) + 1 BY Zenon, <2>2, <2>3, <3>2
      <4> QED BY <3>2, <4>1
    <3> QED BY ZenonT(30), <2>1, <2>4, <3>1, <3>2
  <2> QED BY Zenon, <1>3, <2>2, <2>3, <2>4 DEF Gives
<1> QED BY Zenon, <1>2, <1>3

(* A record that is sent changes nothing of what was sent before it. *)
LEMMA GivesSame ==
    ASSUME NEW T, NEW s \in Seq(T), NEW r \in T, NEW g, NEW n \in Nat, n <= Len(s), Gives(s, n, g)
    PROVE  Gives(Append(s, r), n, g)
<1>1. \A i \in 1..n : Append(s, r)[i] = s[i] OBVIOUS
<1>2. \A m \in 0..n : KeptOf(Append(s, r), m) = KeptOf(s, m) BY <1>1 DEF KeptOf
<1>3. \A i \in KeptOf(s, n) : i \in 1..n BY Zenon DEF KeptOf
<1>4. KeptOf(Append(s, r), n) = KeptOf(s, n) BY <1>2
<1>5. ASSUME NEW i \in KeptOf(s, n)
      PROVE  g[Cardinality(KeptOf(Append(s, r), i))] = Append(s, r)[i]
  <2>1. i \in 1..n /\ Append(s, r)[i] = s[i] /\ KeptOf(Append(s, r), i) = KeptOf(s, i)
    BY <1>1, <1>2, <1>3
  <2> QED BY Zenon, <2>1 DEF Gives
<1> QED BY ZenonT(30), <1>4, <1>5 DEF Gives

(* The last records of s stay the last when one more is sent. *)
LEMMA EndsMore ==
    ASSUME NEW T, NEW s \in Seq(T), NEW u \in Seq(T), NEW r \in T, EndsWith(s, u)
    PROVE  /\ EndsWith(Append(s, r), Append(u, r))
           /\ Len(Append(s, r)) - Len(Append(u, r)) = Len(s) - Len(u)
<1>1. PICK a \in Nat, b \in Nat : Len(s) = a /\ Len(u) = b OBVIOUS
<1>2. b <= a /\ \A k \in 1..b : u[k] = s[a - b + k] BY Zenon, <1>1 DEF EndsWith
<1>3. Len(Append(s, r)) = a + 1 /\ Len(Append(u, r)) = b + 1 BY <1>1
<1>4. Append(s, r)[a + 1] = r /\ Append(u, r)[b + 1] = r BY <1>1
<1>5. \A k \in 1..a : Append(s, r)[k] = s[k] BY <1>1
<1>6. \A k \in 1..b : Append(u, r)[k] = u[k] BY <1>1
<1>7. ASSUME NEW k \in 1..(b + 1) PROVE Append(u, r)[k] = Append(s, r)[(a + 1) - (b + 1) + k]
  <2>1. CASE k = b + 1
    <3>1. (a + 1) - (b + 1) + k = a + 1 BY <2>1
    <3> QED BY Zenon, <1>4, <2>1, <3>1
  <2>2. CASE k \in 1..b
    <3>1. (a + 1) - (b + 1) + k = a - b + k /\ a - b + k \in 1..a BY <1>2, <2>2
    <3>2. Append(u, r)[k] = u[k] /\ u[k] = s[a - b + k] BY Zenon, <1>2, <1>6, <2>2
    <3>3. Append(s, r)[a - b + k] = s[a - b + k] BY Zenon, <1>5, <3>1
    <3> QED BY Zenon, <3>1, <3>2, <3>3
  <2>3. k = b + 1 \/ k \in 1..b OBVIOUS
  <2> QED BY Zenon, <2>1, <2>2, <2>3
<1>8. b + 1 <= a + 1 /\ (a + 1) - (b + 1) = a - b BY <1>2
<1> QED BY Zenon, <1>1, <1>3, <1>7, <1>8 DEF EndsWith

(* The first of the last records of s follows those that were read. *)
LEMMA EndsLess ==
    ASSUME NEW T, NEW s \in Seq(T), NEW u \in Seq(T), u # <<>>, EndsWith(s, u),
           NEW n, n = Len(s) - Len(u)
    PROVE  /\ n \in Nat /\ n < Len(s) /\ Head(u) = s[n + 1]
           /\ EndsWith(s, Tail(u)) /\ Len(s) - Len(Tail(u)) = n + 1
<1>1. PICK a \in Nat, b \in Nat : Len(s) = a /\ Len(u) = b OBVIOUS
<1>2. b <= a /\ \A k \in 1..b : u[k] = s[a - b + k] BY Zenon, <1>1 DEF EndsWith
<1>3. 1 <= b /\ Len(Tail(u)) = b - 1 /\ Head(u) = u[1] BY <1>1
<1>4. \A k \in 1..(b - 1) : Tail(u)[k] = u[k + 1] BY <1>1
<1>5. ASSUME NEW k \in 1..(b - 1) PROVE Tail(u)[k] = s[a - (b - 1) + k]
  <2>1. k + 1 \in 1..b /\ a - b + (k + 1) = a - (b - 1) + k BY <1>3
  <2>2. u[k + 1] = s[a - b + (k + 1)] BY Zenon, <1>2, <2>1
  <2> QED BY Zenon, <1>4, <2>1, <2>2
<1>6. /\ n = a - b /\ n \in Nat /\ n < a /\ b - 1 <= a /\ a - (b - 1) = n + 1
      /\ 1 \in 1..b /\ a - b + 1 = n + 1
  BY <1>1, <1>2, <1>3
<1>7. Head(u) = s[n + 1] BY Zenon, <1>2, <1>3, <1>6
<1>8. EndsWith(s, Tail(u)) BY Zenon, <1>1, <1>3, <1>5, <1>6 DEF EndsWith
<1> QED BY Zenon, <1>1, <1>3, <1>6, <1>7, <1>8

(* Steps that neither send nor read a record, nor open or close. *)
Aside ==
    /\ UNCHANGED <<sent, got>> /\ sock'.state = sock.state /\ sock'.s2c = sock.s2c
    /\ mgr'.at \in {"expect", "serving"} => sock.state = "up"
    /\ pc'[Worker] \in Connecting => pc[Worker] \in Connecting
    /\ pc'[Worker] \in Begun => pc[Worker] \in Begun

LEMMA AsideDelivers == ASSUME Delivery, Aside PROVE Delivery'
BY Zenon DEF Delivery, Aside

(* The connection is closed, or never was. *)
Closes == /\ UNCHANGED <<sent, got>> /\ SocketGone
          /\ pc'[Worker] \notin Begun

LEMMA ClosesDelivers == ASSUME Closes PROVE Delivery'
BY Zenon DEF Delivery, Closes, SocketGone, NoSock

LEMMA InitDelivery == Init => Delivery
BY ProcsAssumption DEF Init, Delivery, NoSock, Connecting

LEMMA FailsCloses ==
    ASSUME IInv, NEW status, ConnectFails(status), UNCHANGED <<sent, got>> PROVE Closes
BY Zenon DEF ConnectFails, Closes, Goto, IInv, Types

LEMMA TopDelivers == ASSUME IInv, Delivery, worker_main_top PROVE Delivery'
<1>1. UNCHANGED <<sock, mgr>> /\ sent' = <<>> /\ got' = <<>> /\ sock.state = "none"
  BY Zenon DEF worker_main_top, link, Delivery, Connecting
<1> QED BY Zenon, <1>1 DEF Delivery

LEMMA ConnectDelivers ==
    ASSUME IInv, Delivery, connect_checks_cancel \/ connect_opens \/ connect_polled \/ connect_restores
    PROVE  Delivery'
<1>1. UNCHANGED <<sent, got>> BY Zenon DEF connect_checks_cancel, connect_opens, connect_polled, connect_restores
<1>2. CASE \E status \in Statuses : ConnectFails(status) BY Zenon, <1>1, <1>2, FailsCloses, ClosesDelivers
<1>3. CASE UNCHANGED <<sock, mgr>> /\ \/ Goto(Worker, "socket") /\ pc[Worker] = "connect"
                                      \/ Goto(Worker, "opened") /\ pc[Worker] = "socket"
                                      \/ Goto(Worker, "restore")
                                      \/ Goto(Worker, "handshake")
  <2>1. Aside BY Zenon, <1>1, <1>3 DEF Aside, Delivery, Goto, IInv, Types, Connecting
  <2> QED BY Zenon, <2>1, AsideDelivers
<1>4. CASE connect_checks_cancel \/ connect_opens \/ connect_restores
  BY Zenon, <1>2, <1>3, <1>4 DEF connect_checks_cancel, connect_opens, connect_restores, Statuses
<1>5. CASE connect_polled
  <2>1. call[Worker].pr \in {-1, 0, 1, 2} BY Zenon DEF IInv, Types, CallType
  <2>2. CASE call[Worker].pr = 0 BY Zenon, <1>2, <1>5, <2>2 DEF connect_polled, Statuses
  <2>3. CASE call[Worker].pr = 2 BY Zenon, <1>2, <1>5, <2>3 DEF connect_polled, Statuses
  <2>4. CASE call[Worker].pr = -1 BY Zenon, <1>2, <1>5, <2>4 DEF connect_polled, Statuses
  <2>5. CASE call[Worker].pr = 1 BY Zenon, <1>2, <1>3, <1>5, <2>5 DEF connect_polled, Statuses
  <2> QED BY Zenon, <2>1, <2>2, <2>3, <2>4, <2>5
<1> QED BY Zenon, <1>4, <1>5

LEMMA BeginsDelivers == ASSUME IInv, Delivery, connect_begins PROVE Delivery'
<1>1. UNCHANGED <<sent, got>> /\ sent = <<>> /\ got = <<>> /\ sock.state = "none"
  BY Zenon DEF connect_begins, Delivery, Connecting
<1>2. CASE \E status \in Statuses : ConnectFails(status) BY Zenon, <1>1, <1>2, FailsCloses, ClosesDelivers
<1>3. ASSUME NEW s \in {"up", "pending"}, sock' = [NoSock EXCEPT !.state = s], UNCHANGED mgr,
             Goto(Worker, IF s = "up" THEN "restore" ELSE "ptop")
      PROVE  Delivery'
  <2>1. sock'.state = s /\ sock'.s2c = <<>> BY Zenon, <1>3 DEF NoSock
  <2>2. pc'[Worker] \notin Connecting BY Zenon, <1>3 DEF Goto, IInv, Types, Connecting
  <2>3. mgr'.at \notin {"expect", "serving"} BY Zenon, <1>1, <1>3 DEF Delivery
  <2>4. EndsWith(<<>>, <<>>) /\ Gives(<<>>, 0, <<>>) BY GivesNone DEF EndsWith
  <2> QED BY <1>1, <1>3, <2>1, <2>2, <2>3, <2>4 DEF Delivery, Connecting
<1> QED BY Zenon, <1>2, <1>3 DEF connect_begins, Statuses

LEMMA SettlesDelivers == ASSUME IInv, Delivery, connection_settles PROVE Delivery'
<1>1. UNCHANGED <<sent, got, mgr, pc>> /\ sent = <<>> /\ got = <<>> /\ sock.state = "pending"
      /\ sock.s2c = <<>> /\ mgr.at \notin {"expect", "serving"} /\ pc[Worker] \notin Connecting
  BY Zenon DEF connection_settles, Delivery, history
<1>2. sock'.s2c = <<>> /\ sock'.state \in {"up", "failed"}
  BY Zenon, <1>1 DEF connection_settles, IInv, Types, SockType
<1>3. EndsWith(<<>>, <<>>) /\ Gives(<<>>, 0, <<>>) BY GivesNone DEF EndsWith
<1> QED BY <1>1, <1>2, <1>3 DEF Delivery, Connecting

(* The MGR sends a record: it is the last of those that are to be read.    *)
LEMMA SendsDelivers == ASSUME IInv, Delivery, mgr_sends PROVE Delivery'
<1>1. sock \in SockType /\ sock.s2c \in Seq(Texts) /\ sent \in Seq(Texts) BY Zenon DEF IInv, Types, SockType
<1>2. /\ UNCHANGED <<pc, mgr, got>> /\ sock.state = "up" /\ EndsWith(sent, sock.s2c)
      /\ Gives(sent, Len(sent) - Len(sock.s2c), got) /\ pc[Worker] \notin Connecting
  BY Zenon DEF mgr_sends, Delivery
<1>3. PICK r \in Records[Len(sent) + 1] :
         sock' = [sock EXCEPT !.s2c = Append(@, r)] /\ sent' = Append(sent, r)
  BY Zenon DEF mgr_sends
<1>4. r \in Texts
  <2>1. Len(sent) + 1 \in 1..Len(Records) BY <1>1, RecordsAssumption DEF mgr_sends
  <2> QED BY Zenon, <1>3, <2>1 DEF Texts
<1>5. sock'.state = "up" /\ sock'.s2c = Append(sock.s2c, r) BY Zenon, <1>1, <1>2, <1>3 DEF SockType
<1>6. Len(sent) - Len(sock.s2c) \in Nat /\ Len(sent) - Len(sock.s2c) <= Len(sent)
  BY <1>1, <1>2 DEF EndsWith
<1>7. /\ EndsWith(Append(sent, r), Append(sock.s2c, r))
      /\ Len(Append(sent, r)) - Len(Append(sock.s2c, r)) = Len(sent) - Len(sock.s2c)
  BY Zenon, <1>1, <1>2, <1>4, EndsMore
<1>8. Gives(Append(sent, r), Len(sent) - Len(sock.s2c), got) BY Zenon, <1>1, <1>2, <1>4, <1>6, GivesSame
<1> QED BY Zenon, <1>2, <1>3, <1>5, <1>7, <1>8 DEF Delivery, Connecting

(* The client reads a record, and dispatch_envelope decides what of it. *)
LEMMA RecvDelivers ==
    ASSUME WantedIsDispatched, IInv, Delivery, savvy_ipc_recv_capped PROVE Delivery'
<1>1. /\ sock \in SockType /\ sock.s2c \in Seq(Texts) /\ sent \in Seq(Texts) /\ got \in Seq(Texts)
  BY Zenon DEF IInv, Types, SockType
<1>2. UNCHANGED <<mgr, sent>> BY Zenon DEF savvy_ipc_recv_capped
<1>3. pc'[Worker] \in {"loop", "close"} BY Zenon DEF savvy_ipc_recv_capped, Goto, IInv, Types
<1>4. CASE UNCHANGED <<sock, got>>
  <2>1. Aside BY Zenon, <1>2, <1>3, <1>4 DEF Aside, Delivery, Connecting
  <2> QED BY Zenon, <2>1, AsideDelivers
<1>5. CASE /\ sock.s2c # <<>> /\ sock' = [sock EXCEPT !.s2c = Tail(@)]
           /\ got' = IF /\ Head(sock.s2c).len <= SAVVY_IPC_MAX_MESSAGE
                       /\ dispatch_envelope(Head(sock.s2c))
                     THEN Append(got, Head(sock.s2c)) ELSE got
  <2>1. PICK n : n = Len(sent) - Len(sock.s2c) BY Zenon
  <2>2. sock.state = "up" /\ EndsWith(sent, sock.s2c) /\ Gives(sent, n, got) BY Zenon, <1>5, <2>1 DEF Delivery
  <2>3. PICK u, s : u = sock.s2c /\ s = sent BY Zenon
  <2>4. u \in Seq(Texts) /\ s \in Seq(Texts) /\ u # <<>> /\ EndsWith(s, u) /\ n = Len(s) - Len(u)
    BY Zenon, <1>1, <1>5, <2>1, <2>2, <2>3
  <2>5. /\ n \in Nat /\ n < Len(s) /\ Head(u) = s[n + 1]
        /\ EndsWith(s, Tail(u)) /\ Len(s) - Len(Tail(u)) = n + 1
    BY <2>4, EndsLess
  <2>6. sock'.state = "up" /\ sock'.s2c = Tail(u) BY Zenon, <1>1, <1>5, <2>2, <2>3 DEF SockType
  <2>7. Head(u) \in Texts BY <2>4
  <2>8. got' = IF s[n + 1] \in Wanted THEN Append(got, s[n + 1]) ELSE got
    <3>1. Head(u).len <= SAVVY_IPC_MAX_MESSAGE /\ dispatch_envelope(Head(u)) <=> Head(u) \in Wanted
      BY Zenon, <2>7 DEF WantedIsDispatched
    <3> QED BY Zenon, <1>5, <2>3, <2>5, <3>1
  <2>9. Gives(s, n + 1, got') BY ZenonT(30), <1>1, <2>2, <2>3, <2>4, <2>5, <2>8, GivesMore
  <2> QED BY Zenon, <1>2, <1>3, <2>3, <2>5, <2>6, <2>9 DEF Delivery, Connecting
<1> QED BY Zenon, <1>4, <1>5 DEF savvy_ipc_recv_capped

(* What the stopper, the waits and the sends do is aside, ... *)
LEMMA ClientDelivers ==
    ASSUME IInv, Delivery,
           \/ stop_requests \/ Stopping \/ savvy_clock_now
           \/ send_connect_handshake \/ worker_main_loop
           \/ \E m \in Messages : send_impl(m)
           \/ \E p \in Procs : Waiting(p) \/ poll_fails(p) \/ poll_interrupted(p)
           \/ UNCHANGED vars
    PROVE  Delivery'
<1>1. UNCHANGED <<sock, mgr, sent, got>>
  <2>1. CASE stop_requests \/ Stopping
    BY Zenon, <2>1 DEF stop_requests, Stopping, savvy_ipc_cancel_source_cancel, mark_transport_stopping,
                link, history
  <2>2. CASE savvy_clock_now \/ send_connect_handshake \/ worker_main_loop \/ UNCHANGED vars
    BY Zenon, <2>2 DEF savvy_clock_now, send_connect_handshake, worker_main_loop, vars, link, history
  <2>3. ASSUME NEW m \in Messages, send_impl(m) PROVE UNCHANGED <<sock, mgr, sent, got>>
    BY Zenon, <2>3 DEF send_impl, link, history
  <2>4. ASSUME NEW p \in Procs, Waiting(p) \/ poll_fails(p) \/ poll_interrupted(p)
        PROVE  UNCHANGED <<sock, mgr, sent, got>>
    BY ZenonT(30), <2>4 DEF Waiting, poll_top, poll_returns, poll_fails, poll_interrupted, link, history
  <2> QED BY Zenon, <2>1, <2>2, <2>3, <2>4
<1>2. pc'[Worker] = pc[Worker] \/ pc'[Worker] \notin Connecting
  <2> USE DEF Connecting
  <2>1. CASE stop_requests \/ Stopping \/ savvy_clock_now \/ UNCHANGED vars
    BY Zenon, <2>1 DEF stop_requests, Stopping, savvy_ipc_cancel_source_cancel, mark_transport_stopping,
                savvy_clock_now, vars
  <2>2. CASE send_connect_handshake \/ worker_main_loop
    BY Zenon, <2>2 DEF send_connect_handshake, worker_main_loop, Goto, IInv, Types
  <2>3. ASSUME NEW m \in Messages, send_impl(m) PROVE pc'[Worker] = pc[Worker]
    BY Zenon, <2>3, ProcsAssumption DEF send_impl, Goto, IInv, Types
  <2>4. ASSUME NEW p \in Procs, Waiting(p) \/ poll_fails(p) \/ poll_interrupted(p)
        PROVE  pc'[Worker] = pc[Worker] \/ pc'[Worker] \notin Connecting
    <3>1. \E place \in {"ptop", "polling", "polled"} : Goto(p, place)
      BY ZenonT(30), <2>4 DEF Waiting, poll_top, poll_returns, poll_fails, poll_interrupted, PollReturns
    <3> QED BY Zenon, <3>1 DEF Goto, IInv, Types
  <2> QED BY Zenon, <2>1, <2>2, <2>3, <2>4
<1>3. Aside BY Zenon, <1>1, <1>2 DEF Aside, Delivery, Connecting
<1> QED BY Zenon, <1>3, AsideDelivers

(* ... and so are a record that is sent to the MGR, and what the MGR does  *)
(* except to send.                                                         *)
LEMMA RestDelivers ==
    ASSUME IInv, Delivery,
           \/ mgr_accepts \/ mgr_reads \/ mgr_closes
           \/ \E p \in Procs : savvy_ipc_send_capped(p)
    PROVE  Delivery'
<1>1. sock \in SockType /\ mgr \in MgrType BY Zenon DEF IInv, Types
<1>2. CASE mgr_accepts \/ mgr_reads \/ mgr_closes
  <2>1. UNCHANGED <<pc, sent, got>> BY Zenon, <1>2 DEF mgr_accepts, mgr_reads, mgr_closes, history
  <2>2. sock'.state = sock.state /\ sock'.s2c = sock.s2c
    BY Zenon, <1>1, <1>2 DEF mgr_accepts, mgr_reads, mgr_closes, link, SockType
  <2>3. mgr'.at \in {"expect", "serving"} => sock.state = "up"
    <3>1. CASE mgr_accepts BY Zenon, <3>1 DEF mgr_accepts
    <3>2. CASE mgr_reads BY Zenon, <3>2 DEF mgr_reads, Delivery
    <3>3. CASE mgr_closes BY Zenon, <3>3 DEF mgr_closes
    <3> QED BY Zenon, <1>2, <3>1, <3>2, <3>3
  <2>4. Aside BY Zenon, <2>1, <2>2, <2>3 DEF Aside
  <2> QED BY Zenon, <2>4, AsideDelivers
<1>3. ASSUME NEW p \in Procs, savvy_ipc_send_capped(p) PROVE Delivery'
  <2>1. UNCHANGED <<mgr, sent, got>> BY Zenon, <1>3 DEF savvy_ipc_send_capped, history
  <2>2. sock'.state = sock.state /\ sock'.s2c = sock.s2c
    BY Zenon, <1>1, <1>3 DEF savvy_ipc_send_capped, SockType
  <2>3. \E place \in {"loop", "close", "idle"} : Goto(p, place) BY Zenon, <1>3 DEF savvy_ipc_send_capped
  <2>4. pc'[Worker] = pc[Worker] \/ pc'[Worker] \notin Connecting
    BY Zenon, <2>3 DEF Goto, IInv, Types, Connecting
  <2>5. Aside BY Zenon, <2>1, <2>2, <2>4 DEF Aside, Delivery, Connecting
  <2> QED BY Zenon, <2>5, AsideDelivers
<1> QED BY Zenon, <1>2, <1>3

LEMMA CloseDelivers == ASSUME IInv, close_transport PROVE Delivery'
<1>1. Closes BY Zenon DEF close_transport, Closes, Goto, history, IInv, Types
<1> QED BY Zenon, <1>1, ClosesDelivers

LEMMA NextDelivery ==
    ASSUME WantedIsDispatched PROVE IInv /\ Delivery /\ [Next]_vars => Delivery'
<1> SUFFICES ASSUME IInv, Delivery, [Next]_vars PROVE Delivery' BY Zenon
<1>1. CASE worker_main
  BY Zenon, <1>1, TopDelivers, ConnectDelivers, BeginsDelivers, ClientDelivers, RecvDelivers, CloseDelivers
     DEF worker_main
<1>2. CASE connection_settles BY Zenon, <1>2, SettlesDelivers
<1>3. CASE mgr_sends BY Zenon, <1>3, SendsDelivers
<1>4. CASE UNCHANGED vars BY Zenon, <1>4, ClientDelivers
<1>5. CASE stop_requests \/ Stopping \/ savvy_clock_now BY Zenon, <1>5, ClientDelivers
<1>6. CASE \E m \in Messages : send_impl(m) BY Zenon, <1>6, ClientDelivers
<1>7. CASE \E p \in Procs : Waiting(p) \/ poll_fails(p) \/ poll_interrupted(p) \/ savvy_ipc_send_capped(p)
  BY Zenon, <1>7, ClientDelivers, RestDelivers
<1>8. CASE mgr_accepts \/ mgr_reads \/ mgr_closes BY Zenon, <1>8, RestDelivers
<1> QED BY Zenon, <1>1, <1>2, <1>3, <1>4, <1>5, <1>6, <1>7, <1>8 DEF Next

(* The application is given exactly the wanted of the records consumed,    *)
(* each once and in the order sent, when Wanted is what dispatch_envelope  *)
(* accepts: nothing is left over of one connection when the next begins.   *)
THEOREM EnvelopesDelivered == ASSUME WantedIsDispatched PROVE Spec => []EnvelopesInOrder
<1>1. Delivery => EnvelopesInOrder BY Zenon DEF Delivery, EnvelopesInOrder, Gives, KeptOf, Kept
<1>2. IInv /\ Delivery /\ [Next]_vars => Delivery' BY NextDelivery
<1> QED BY <1>1, <1>2, InitDelivery, Invariance, PTL DEF Spec
=============================================================================
