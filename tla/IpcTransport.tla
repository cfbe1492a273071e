---------------------------- MODULE IpcTransport ----------------------------
(***************************************************************************)
(* The AF_UNIX link under the MGR client, system call by system call:      *)
(* ipc_client.c (connect), ipc_transport_common.c (the cancel source, the  *)
(* wait with a deadline, send, recv, close) and clock.c, as the client's   *)
(* worker, a thread that sends and a thread that stops the client use      *)
(* them.  MgrIpcClient has the locks and the life cycle of the client and  *)
(* takes connect, send and recv as single steps; here it is the other way  *)
(* round: of the locks only io_lock is a variable, state_lock is held      *)
(* within single steps and lifecycle_lock is held while cancel() runs.     *)
(* The MGR is tools/mock_mgr, except that the records it sends are any of  *)
(* Records and that it reads what the client sends after CONNECT.          *)
(***************************************************************************)
EXTENDS IpcEnvelope, Sequences, FiniteSets, FiniteSetsExt

CONSTANTS
    Worker, Sender, Nobody,
    NFds,              \* descriptors the process may have open
    MaxAttempts,       \* SAVVY_CANCEL_WRITE_MAX_ATTEMPTS
    QueueLen,          \* records a direction of the connection holds
    Timeouts,          \* timeout_ms of connect, send and recv, in ticks; none above INT_MAX
    Records,           \* what the MGR may send on a connection as its 1st, 2nd, ... record
    Messages,          \* what the application may send
    Wanted,            \* which of Records the application should be given
    MaxConnects, MaxSends, \* bounds: connects, messages per connection
    MaxSignals         \* bound: signals that interrupt one wait before its deadline

ASSUME TransportAssumption == {NFds, MaxAttempts, QueueLen} \subseteq Nat \ {0}
                              /\ Timeouts \in [{"connect", "send", "recv"} -> Nat]
ASSUME RecordsAssumption == Len(Records) \in Nat
ASSUME ProcsAssumption == Worker # Sender /\ Nobody \notin {Worker, Sender}

Procs == {Worker, Sender}
Fds == 1..NFds
NoFd == 0             \* the code's -1

VARIABLES
    fds,     \* the open descriptors of the link
    impl,    \* transport.impl
    io_lock, \* who holds it
    state,   \* connection_state
    pc,      \* where each process is
    call,    \* its call: op, fd, text, ticks left, first_poll_done, pr, revents
    cancel,  \* stop's cancel(): "idle", "writing", "OK" or "ERR_IO"
    attempt, \* the attempts it has made
    marked,  \* stop has called mark_transport_stopping
    pipe,    \* the cancel pipe holds a byte; nobody ever reads it
    sock,    \* the connection: its state, the records each way, what the MGR's close did to it
    mgr,     \* the MGR: where it is, and the first record it read
    count,   \* connects, and messages of this connection
    warned,  \* history: cancel() had returned SAVVY_OK when connect last looked
    ret,     \* history: what connect returned last
    sent,    \* history: the records the MGR sent on this connection
    got      \* history: the envelopes on_envelope was given on it

link == <<fds, impl, sock>>
stopper == <<cancel, attempt, marked, pipe>>
history == <<warned, ret, sent, got>>
vars == <<link, io_lock, state, pc, call, stopper, mgr, count, history>>

NoCall == [op |-> "none", fd |-> NoFd, text |-> <<>>, left |-> 0, first |-> FALSE,
           pr |-> 0, err |-> FALSE, signals |-> 0]
NoSock == [state |-> "none", c2s |-> <<>>, s2c |-> <<>>, hup |-> FALSE, err |-> FALSE]

(* The CONNECT envelope of send_connect_handshake, with payload "{}". *)
CONNECT == savvy_ipc_envelope_build("connect", <<>>, 1)

Init ==
    /\ fds = {} /\ impl = NoFd /\ sock = NoSock
    /\ io_lock = Nobody /\ state = "DISCONNECTED"
    /\ pc = [p \in Procs |-> IF p = Worker THEN "top" ELSE "idle"]
    /\ call = [p \in Procs |-> NoCall]
    /\ cancel = "idle" /\ attempt = 0 /\ marked = FALSE /\ pipe = FALSE
    /\ mgr = [at |-> "accept", first |-> <<>>]
    /\ count = [connects |-> 0, sends |-> 0]
    /\ warned = FALSE /\ ret = "none" /\ sent = <<>> /\ got = <<>>

Goto(p, place) == pc' = [pc EXCEPT ![p] = place]
-----------------------------------------------------------------------------
(* The thread that calls stop, and the cancel source.  cancel() runs under *)
(* lifecycle_lock, which is_shutdown_requested needs too.                  *)

InCancel == cancel = "writing"
shutdown_requested == cancel # "idle"
savvy_ipc_cancel_source_is_cancelled == pipe

stop_requests ==
    /\ cancel = "idle" /\ cancel' = "writing"
    /\ UNCHANGED <<link, io_lock, state, pc, call, attempt, marked, pipe, mgr, count, history>>

(* Mutant: an interrupted write counts as done. *)
cancel_eintr_is_ok ==
    /\ InCancel
    /\ \/ pipe' = TRUE /\ cancel' = "OK"
       \/ UNCHANGED pipe /\ cancel' = "OK"
    /\ UNCHANGED <<link, io_lock, state, pc, call, attempt, marked, mgr, count, history>>

(* Mutant: nothing counts the attempts. *)
cancel_unbounded ==
    /\ InCancel
    /\ \/ pipe' = TRUE /\ cancel' = "OK" /\ UNCHANGED attempt
       \/ attempt' = attempt + 1 /\ UNCHANGED <<pipe, cancel>>
    /\ UNCHANGED <<link, io_lock, state, pc, call, marked, mgr, count, history>>

(* One attempt to write the byte: it is written (or the pipe is full of    *)
(* them), a signal interrupts it (EINTR), or it fails.                     *)
savvy_ipc_cancel_source_cancel ==
    /\ InCancel
    /\ \/ pipe' = TRUE /\ cancel' = "OK" /\ UNCHANGED attempt
       \/ /\ attempt' = attempt + 1 /\ UNCHANGED pipe
          /\ cancel' = IF attempt' = MaxAttempts THEN "ERR_IO" ELSE cancel
       \/ UNCHANGED <<pipe, attempt>> /\ cancel' = "ERR_IO"
    /\ UNCHANGED <<link, io_lock, state, pc, call, marked, mgr, count, history>>

mark_transport_stopping ==
    /\ cancel \in {"OK", "ERR_IO"} /\ ~marked
    /\ marked' = TRUE
    /\ state' = IF state # "DISCONNECTED" THEN "STOPPING" ELSE state
    /\ UNCHANGED <<link, io_lock, pc, call, cancel, attempt, pipe, mgr, count, history>>
-----------------------------------------------------------------------------
(* savvy_ipc_poll_with_deadline_cancelable: process p waits for its        *)
(* descriptor and, while it connects, for the cancel pipe.                 *)

(* The wait begins: savvy_deadline_arm. *)
Waits(p, op, fd, text) ==
    call' = [call EXCEPT ![p] = [NoCall EXCEPT !.op = op, !.fd = fd, !.text = text,
                                               !.left = Timeouts[op]]]

InWait(p) == pc[p] \in {"ptop", "polling"}
InCall(p) == pc[p] \in {"ptop", "polling", "polled"}

FdReady(p) == \/ call[p].op = "connect" /\ sock.state # "pending"
              \/ call[p].op = "send" /\ (Len(sock.c2s) < QueueLen \/ sock.hup)
              \/ call[p].op = "recv" /\ (sock.s2c # <<>> \/ sock.hup)
CancelReady(p) == call[p].op = "connect" /\ pipe

(* Whether revents has a flag at which the caller gives up.  A connect     *)
(* that failed shows there or only in SO_ERROR, one whose peer has closed  *)
(* again in POLLHUP; send stops at POLLERR and POLLHUP, recv at POLLERR.   *)
ErrorShows(p, e) ==
    CASE call[p].op = "connect" -> e \in {sock.hup, sock.hup \/ sock.state = "failed"}
      [] call[p].op = "send" -> e = (sock.hup \/ sock.err)
      [] OTHER -> e = sock.err

PollReturns(p, pr, err) == /\ call' = [call EXCEPT ![p].pr = pr, ![p].err = err]
                           /\ Goto(p, "polled")

(* Mutant: the deadline is not looked at again after a signal (TC-H-01). *)
poll_top_unguarded(p) ==
    /\ pc[p] = "ptop"
    /\ Goto(p, "polling")
    /\ UNCHANGED <<link, io_lock, state, call, stopper, mgr, count, history>>

(* The top of the loop: after the first poll, an expired deadline ends it. *)
poll_top(p) ==
    /\ pc[p] = "ptop"
    /\ IF call[p].first /\ call[p].left = 0 THEN PollReturns(p, 0, FALSE)
       ELSE Goto(p, "polling") /\ UNCHANGED call
    /\ UNCHANGED <<link, io_lock, state, stopper, mgr, count, history>>

(* Mutant: poll() is not given the time that remains. *)
poll_returns_untimed(p) ==
    /\ pc[p] = "polling"
    /\ \/ CancelReady(p) /\ PollReturns(p, 2, FALSE)
       \/ /\ ~CancelReady(p) /\ FdReady(p)
          /\ \E e \in BOOLEAN : ErrorShows(p, e) /\ PollReturns(p, 1, e)
    /\ warned' = IF call[p].op = "connect" THEN cancel = "OK" ELSE warned
    /\ UNCHANGED <<link, io_lock, state, stopper, mgr, count, ret, sent, got>>

(* poll() returns: cancellation first, then readiness, else the timeout.   *)
poll_returns(p) ==
    /\ pc[p] = "polling"
    /\ \/ CancelReady(p) /\ PollReturns(p, 2, FALSE)
       \/ /\ ~CancelReady(p) /\ FdReady(p)
          /\ \E e \in BOOLEAN : ErrorShows(p, e) /\ PollReturns(p, 1, e)
       \/ ~CancelReady(p) /\ ~FdReady(p) /\ call[p].left = 0 /\ PollReturns(p, 0, FALSE)
    /\ warned' = IF call[p].op = "connect" THEN cancel = "OK" ELSE warned
    /\ UNCHANGED <<link, io_lock, state, stopper, mgr, count, ret, sent, got>>

poll_fails(p) ==
    /\ pc[p] = "polling"
    /\ PollReturns(p, -1, FALSE)
    /\ UNCHANGED <<link, io_lock, state, stopper, mgr, count, history>>

(* EINTR, while nothing is ready.  Once the deadline has passed, nothing   *)
(* bounds the signals.                                                     *)
poll_interrupted(p) ==
    /\ pc[p] = "polling" /\ ~CancelReady(p) /\ ~FdReady(p)
    /\ call[p].left = 0 \/ call[p].signals < MaxSignals
    /\ call' = [call EXCEPT ![p].first = TRUE,
                            ![p].signals = IF call[p].left = 0 THEN @ ELSE @ + 1]
    /\ Goto(p, "ptop")
    /\ UNCHANGED <<link, io_lock, state, stopper, mgr, count, history>>

(* CLOCK_MONOTONIC goes on, as savvy_deadline_remaining_ms sees it. *)
savvy_clock_now ==
    /\ \E p \in Procs : InWait(p) /\ call[p].left > 0
    /\ call' = [p \in Procs |-> IF InWait(p) /\ call[p].left > 0
                                THEN [call[p] EXCEPT !.left = @ - 1] ELSE call[p]]
    /\ UNCHANGED <<link, io_lock, state, pc, stopper, mgr, count, history>>
-----------------------------------------------------------------------------
(* savvy_ipc_client_connect_cancelable, called by worker_main. *)

(* The client's end is closed.  What the MGR still does with the old       *)
(* connection is not seen any more: the time until it accepts again stands *)
(* for it.                                                                 *)
SocketGone == sock' = NoSock /\ mgr' = [at |-> "accept", first |-> <<>>]

(* connect returns without a transport: what it opened is closed again and *)
(* worker_main backs off, or ends after SAVVY_ERR_CANCELLED.               *)
ConnectFails(status) ==
    /\ ret' = status
    /\ Goto(Worker, IF status = "CANCELLED" THEN "done" ELSE "top")
    /\ call' = [call EXCEPT ![Worker] = NoCall]
    /\ fds' = fds \ {call[Worker].fd}
    /\ SocketGone

worker_main_top ==
    /\ pc[Worker] = "top" /\ ~InCancel
    /\ \/ shutdown_requested /\ Goto(Worker, "done") /\ UNCHANGED count
       \/ /\ ~shutdown_requested /\ count.connects < MaxConnects
          /\ Goto(Worker, "connect")
          /\ count' = [connects |-> count.connects + 1, sends |-> 0]
    /\ sent' = <<>> /\ got' = <<>> /\ ret' = "none"
    /\ UNCHANGED <<link, io_lock, state, call, stopper, mgr, warned>>

(* The first thing connect does is to look at the cancel source. *)
connect_checks_cancel ==
    /\ pc[Worker] = "connect"
    /\ warned' = (cancel = "OK")
    /\ IF savvy_ipc_cancel_source_is_cancelled THEN ConnectFails("CANCELLED")
       ELSE Goto(Worker, "socket") /\ UNCHANGED <<fds, sock, mgr, call, ret>>
    /\ UNCHANGED <<impl, io_lock, state, stopper, count, sent, got>>

(* socket(), which may fail. *)
connect_opens ==
    /\ pc[Worker] = "socket"
    /\ \/ ConnectFails("ERR_IO")
       \/ LET f == Min(Fds \ fds) IN
          /\ fds' = fds \cup {f}
          /\ call' = [call EXCEPT ![Worker] = [NoCall EXCEPT !.op = "connect", !.fd = f]]
          /\ Goto(Worker, "opened")
          /\ UNCHANGED <<sock, mgr, ret>>
    /\ UNCHANGED <<impl, io_lock, state, stopper, count, warned, sent, got>>

(* fcntl() and connect(): one of them fails, or the connection is there at *)
(* once, or it is in progress and the wait for it begins.                  *)
connect_begins ==
    /\ pc[Worker] = "opened"
    /\ \/ ConnectFails("ERR_IO")
       \/ ConnectFails("NOT_CONNECTED")
       \/ \E s \in {"up", "pending"} :
             /\ sock' = [NoSock EXCEPT !.state = s]
             /\ Waits(Worker, "connect", call[Worker].fd, <<>>)
             /\ Goto(Worker, IF s = "up" THEN "restore" ELSE "ptop")
             /\ UNCHANGED <<fds, mgr, ret>>
    /\ UNCHANGED <<impl, io_lock, state, stopper, count, warned, sent, got>>

(* The wait for the connection is over. *)
connect_polled ==
    /\ pc[Worker] = "polled" /\ call[Worker].op = "connect"
    /\ CASE call[Worker].pr = 0 -> ConnectFails("TIMEOUT")
         [] call[Worker].pr = 2 -> ConnectFails("CANCELLED")
         [] call[Worker].pr = -1 \/ (call[Worker].pr = 1 /\ call[Worker].err) -> ConnectFails("ERR_IO")
         [] OTHER -> IF sock.state = "failed" THEN ConnectFails("NOT_CONNECTED")
                     ELSE Goto(Worker, "restore") /\ UNCHANGED <<fds, sock, mgr, call, ret>>
    /\ UNCHANGED <<impl, io_lock, state, stopper, count, warned, sent, got>>

(* The flags are restored and the descriptor becomes the transport:        *)
(* savvy_ipc_fd_transport_init, then set_transport_connected.              *)
connect_restores ==
    /\ pc[Worker] = "restore"
    /\ \/ ConnectFails("ERR_IO") /\ UNCHANGED <<impl, state>>
       \/ /\ ret' = "OK" /\ impl' = call[Worker].fd /\ state' = "TRANSPORT_CONNECTED"
          /\ call' = [call EXCEPT ![Worker] = NoCall]
          /\ Goto(Worker, "handshake") /\ UNCHANGED <<fds, sock, mgr>>
    /\ UNCHANGED <<io_lock, stopper, count, warned, sent, got>>
-----------------------------------------------------------------------------
(* send and recv.  fd_transport_send and fd_transport_recv read impl when  *)
(* they begin.                                                             *)

(* The worker sends CONNECT, with no lock: nobody else may use the         *)
(* transport before the handshake is over.                                 *)
send_connect_handshake ==
    /\ pc[Worker] = "handshake" /\ ~InCancel
    /\ IF shutdown_requested \/ state # "TRANSPORT_CONNECTED"
       THEN Goto(Worker, "close") /\ UNCHANGED <<state, call>>
       ELSE /\ state' = "HANDSHAKING"
            /\ Waits(Worker, "send", impl, <<CONNECT>>) /\ Goto(Worker, "ptop")
    /\ UNCHANGED <<link, io_lock, stopper, mgr, count, history>>

(* Mutant: a message may be sent as soon as there is a transport. *)
send_impl_early(m) ==
    /\ pc[Sender] = "idle" /\ count.sends < MaxSends
    /\ state \in {"TRANSPORT_CONNECTED", "HANDSHAKING", "CONNECTED"} /\ io_lock = Nobody
    /\ io_lock' = Sender
    /\ count' = [count EXCEPT !.sends = @ + 1]
    /\ Waits(Sender, "send", impl, <<m>>) /\ Goto(Sender, "ptop")
    /\ UNCHANGED <<link, state, stopper, mgr, history>>

(* The sender, once the action, its direction and its payload are right.   *)
send_impl(m) ==
    /\ pc[Sender] = "idle" /\ count.sends < MaxSends
    /\ savvy_ipc_action_known(m.action) /\ savvy_ipc_action_direction(m.action) = "SENSOR_TO_MGR"
    /\ savvy_ipc_action_validate_payload(m.action, m.payload) /\ m.len <= SAVVY_IPC_MAX_MESSAGE
    /\ state = "CONNECTED" /\ io_lock = Nobody
    /\ io_lock' = Sender
    /\ count' = [count EXCEPT !.sends = @ + 1]
    /\ Waits(Sender, "send", impl, <<m>>) /\ Goto(Sender, "ptop")
    /\ UNCHANGED <<link, state, stopper, mgr, history>>

(* The rest of savvy_ipc_send_capped, and what its caller does next.  The  *)
(* send itself may fail although the descriptor was writable.              *)
savvy_ipc_send_capped(p) ==
    /\ pc[p] = "polled" /\ call[p].op = "send"
    /\ \E ok \in BOOLEAN :
          /\ ok => call[p].pr = 1 /\ ~call[p].err /\ ~sock.hup
          /\ sock' = IF ok THEN [sock EXCEPT !.c2s = @ \o call[p].text] ELSE sock
          /\ IF p = Worker
             THEN /\ state' = IF ok /\ state = "HANDSHAKING" THEN "CONNECTED" ELSE state
                  /\ Goto(p, IF ok /\ state = "HANDSHAKING" THEN "loop" ELSE "close")
                  /\ UNCHANGED io_lock
             ELSE io_lock' = Nobody /\ Goto(p, "idle") /\ UNCHANGED state
    /\ call' = [call EXCEPT ![p] = NoCall]
    /\ UNCHANGED <<fds, impl, stopper, mgr, count, history>>

(* The receive loop of worker_main. *)
worker_main_loop ==
    /\ pc[Worker] = "loop" /\ ~InCancel
    /\ IF shutdown_requested \/ state # "CONNECTED"
       THEN Goto(Worker, "close") /\ UNCHANGED <<io_lock, call>>
       ELSE /\ io_lock = Nobody /\ io_lock' = Worker
            /\ Waits(Worker, "recv", impl, <<>>) /\ Goto(Worker, "ptop")
    /\ UNCHANGED <<link, state, stopper, mgr, count, history>>

(* The rest of savvy_ipc_recv_capped, the unlock and dispatch_envelope: a  *)
(* record over the cap is discarded whole; an empty queue is the end, and  *)
(* so is a recvmsg that fails.                                             *)
savvy_ipc_recv_capped ==
    /\ pc[Worker] = "polled" /\ call[Worker].op = "recv"
    /\ \/ /\ call[Worker].pr = 1 /\ ~call[Worker].err /\ sock.s2c # <<>>
          /\ LET r == Head(sock.s2c) IN
             /\ sock' = [sock EXCEPT !.s2c = Tail(@)]
             /\ got' = IF r.len <= SAVVY_IPC_MAX_MESSAGE /\ dispatch_envelope(r)
                       THEN Append(got, r) ELSE got
          /\ Goto(Worker, "loop")
       \/ /\ Goto(Worker, IF call[Worker].pr = 0 THEN "loop" ELSE "close")
          /\ UNCHANGED <<sock, got>>
    /\ io_lock' = Nobody /\ call' = [call EXCEPT ![Worker] = NoCall]
    /\ UNCHANGED <<fds, impl, state, stopper, mgr, count, warned, ret, sent>>

(* Mutant: the transport is closed without io_lock. *)
close_transport_unlocked ==
    /\ pc[Worker] = "close"
    /\ fds' = fds \ {impl} /\ impl' = NoFd /\ state' = "DISCONNECTED"
    /\ SocketGone
    /\ Goto(Worker, "top")
    /\ UNCHANGED <<io_lock, call, stopper, count, history>>

(* close_transport: the descriptor is shut down and closed, impl is -1.    *)
close_transport ==
    /\ pc[Worker] = "close" /\ io_lock = Nobody
    /\ fds' = fds \ {impl} /\ impl' = NoFd /\ state' = "DISCONNECTED"
    /\ SocketGone
    /\ Goto(Worker, "top")
    /\ UNCHANGED <<io_lock, call, stopper, count, history>>
-----------------------------------------------------------------------------
(* The MGR (tools/mock_mgr), the kernel and the rest of the process. *)

(* A connection in progress is made or fails. *)
connection_settles ==
    /\ sock.state = "pending"
    /\ \E s \in {"up", "failed"} : sock' = [sock EXCEPT !.state = s]
    /\ UNCHANGED <<fds, impl, io_lock, state, pc, call, stopper, mgr, count, history>>

mgr_accepts ==
    /\ mgr.at = "accept" /\ sock.state = "up" /\ ~sock.hup
    /\ mgr' = [mgr EXCEPT !.at = "expect"]
    /\ UNCHANGED <<link, io_lock, state, pc, call, stopper, count, history>>

(* The first record is the handshake; the later ones are only read. *)
mgr_reads ==
    /\ mgr.at \in {"expect", "serving"} /\ sock.c2s # <<>>
    /\ mgr' = IF mgr.at = "serving" THEN mgr
              ELSE [at |-> IF Head(sock.c2s) = CONNECT THEN "serving" ELSE "closing",
                    first |-> <<Head(sock.c2s)>>]
    /\ sock' = [sock EXCEPT !.c2s = Tail(@)]
    /\ UNCHANGED <<fds, impl, io_lock, state, pc, call, stopper, count, history>>

mgr_sends ==
    /\ mgr.at = "serving" /\ Len(sent) < Len(Records) /\ Len(sock.s2c) < QueueLen
    /\ \E r \in Records[Len(sent) + 1] :
          /\ sock' = [sock EXCEPT !.s2c = Append(@, r)]
          /\ sent' = Append(sent, r)
    /\ UNCHANGED <<fds, impl, io_lock, state, pc, call, stopper, mgr, count, warned, ret, got>>

(* It closes: its time is over, the handshake was wrong, or it exits.  An  *)
(* end closed with records unread resets the connection.                   *)
mgr_closes ==
    /\ mgr.at \in {"expect", "serving", "closing"} /\ sock.state = "up"
    /\ mgr' = [mgr EXCEPT !.at = "closed"]
    /\ sock' = [sock EXCEPT !.hup = TRUE, !.err = sock.c2s # <<>>]
    /\ UNCHANGED <<fds, impl, io_lock, state, pc, call, stopper, count, history>>
-----------------------------------------------------------------------------
Waiting(p) == poll_top(p) \/ poll_returns(p)
worker_main == \/ worker_main_top \/ connect_checks_cancel \/ connect_opens \/ connect_begins
               \/ connect_polled \/ connect_restores \/ send_connect_handshake \/ worker_main_loop
               \/ savvy_ipc_recv_capped \/ close_transport
Stopping == savvy_ipc_cancel_source_cancel \/ mark_transport_stopping

Next ==
    \/ stop_requests \/ Stopping
    \/ worker_main
    \/ \E m \in Messages : send_impl(m)
    \/ \E p \in Procs : Waiting(p) \/ poll_fails(p) \/ poll_interrupted(p) \/ savvy_ipc_send_capped(p)
    \/ savvy_clock_now
    \/ connection_settles \/ mgr_accepts \/ mgr_reads \/ mgr_sends \/ mgr_closes

(* The threads run, a poll() that has something to report or whose time is *)
(* over returns, and the clock advances; a poll() that fails, signals, the *)
(* MGR and a connection that settles are owed nothing.                     *)
Fairness ==
    /\ \A p \in Procs : WF_vars(Waiting(p)) /\ WF_vars(savvy_ipc_send_capped(p))
    /\ WF_vars(worker_main) /\ WF_vars(Stopping) /\ WF_vars(savvy_clock_now)

Spec == Init /\ [][Next]_vars /\ Fairness
-----------------------------------------------------------------------------
Texts == (UNION {Records[i] : i \in 1..Len(Records)}) \cup Messages \cup {CONNECT}
Statuses == {"none", "OK", "TIMEOUT", "CANCELLED", "ERR_IO", "NOT_CONNECTED"}

(* Types of the variables that model the link, the calls in progress, the  *)
(* cancel source of ipc_transport_common.c and the connection state.       *)
TypeOK ==
    /\ fds \subseteq Fds /\ impl \in Fds \cup {NoFd}
    /\ io_lock \in Procs \cup {Nobody}
    /\ state \in {"DISCONNECTED", "TRANSPORT_CONNECTED", "HANDSHAKING", "CONNECTED", "STOPPING"}
    /\ pc \in [Procs -> {"top", "connect", "socket", "opened", "restore", "handshake", "loop", "close", "done",
                         "idle", "ptop", "polling", "polled"}]
    /\ \A p \in Procs : /\ call[p].op \in {"none", "connect", "send", "recv"}
                        /\ call[p].pr \in {-1, 0, 1, 2} /\ call[p].left \in Nat
    /\ cancel \in {"idle", "writing", "OK", "ERR_IO"} /\ attempt \in 0..MaxAttempts
    /\ {marked, pipe, warned} \subseteq BOOLEAN
    /\ sock.state \in {"none", "pending", "up", "failed"} /\ ret \in Statuses
    /\ \A s \in {sock.c2s, sock.s2c, sent, got} : s \in Seq(Texts)

(* A cancellation is not lost: when connect returns and the last time it   *)
(* looked cancel() had already reported success, it reports the            *)
(* cancellation (or that poll itself failed), never a connection or a      *)
(* timeout, whatever signals hit the write and the wait.                   *)
CancelNotLost == warned => ret \in {"none", "CANCELLED", "ERR_IO"}

(* The descriptors of the link are the transport's and that of a connect   *)
(* in progress: none leaks on an error path of connect.  Nor is one closed *)
(* under a call that uses it: the kernel may hand its number at once to    *)
(* something else in the process, which that call would read or write.     *)
DescriptorsOwned ==
    LET connecting == IF call[Worker].op = "connect" THEN {call[Worker].fd} ELSE {} IN
    /\ fds = ({impl} \cup connecting) \ {NoFd}
    /\ \A p \in Procs : InCall(p) => call[p].fd \in fds

(* The records Wanted among the first n of this connection. *)
Kept(n) == {i \in 1..n : sent[i] \in Wanted}

(* The application is given exactly the envelopes it should be given,      *)
(* Wanted, of the records the client has consumed on this connection, each *)
(* once and in the order the MGR sent them: not one that is over the cap,  *)
(* malformed, unknown, in the wrong direction or with a wrong payload, and *)
(* a bad record does not take a good one with it.                          *)
EnvelopesInOrder ==
    LET consumed == Len(sent) - Len(sock.s2c) IN
    sock.state = "up" =>
      /\ Len(got) = Cardinality(Kept(consumed))
      /\ \A i \in Kept(consumed) : got[Cardinality(Kept(i))] = sent[i]

(* The first record the MGR reads on a connection is CONNECT, although     *)
(* application threads may call send at any time.                          *)
ConnectIsFirst == mgr.first \in {<<>>, <<CONNECT>>}

(* No call waits forever: a connect, send or recv that waits comes back,   *)
(* whatever the MGR does and however many signals interrupt it.            *)
EveryCallReturns == \A p \in Procs : InWait(p) ~> ~InWait(p)

(* Once stop is requested the worker ends, also when cancel() failed and   *)
(* the worker has to sit out its timeouts.                                 *)
StopEndsWorker == shutdown_requested ~> pc[Worker] = "done"
=============================================================================
