---------------------------- MODULE MgrIpcClient ----------------------------
(***************************************************************************)
(* src/features/mgr_ipc/mgr_ipc_client.c: the Sensor side of the MGR IPC   *)
(* link.  Any number of application threads call start, stop, send,        *)
(* is_connected and destroy on one client; a worker thread connects,       *)
(* handshakes, receives, reconnects, and runs the application's callbacks, *)
(* which may call the same functions.                                      *)
(*                                                                         *)
(* lifecycle_lock and g_registry_lock are never held across anything that  *)
(* blocks, so each of their critical sections is one step.  state_lock and *)
(* io_lock are held across blocking operations and are variables.          *)
(***************************************************************************)
EXTENDS Integers, FiniteSets

CONSTANTS Callers, \* the application's threads
          Worker,  \* the client's own thread, which also runs the callbacks
          Nobody,  \* the owner of a free lock
          CallerOps, CallbackOps \* the functions the threads and the callbacks call

ASSUME WorkerAssumption == Worker \notin Callers
ASSUME NobodyAssumption == Nobody \notin Callers \union {Worker}
ASSUME CallersAssumption == IsFiniteSet(Callers)

Operations == {"start", "stop", "send", "is_connected", "destroy"}

ASSUME OpsAssumption == CallerOps \subseteq Operations /\ CallbackOps \subseteq Operations

Procs == Callers \union {Worker}

VARIABLES
    life,          \* the fields lifecycle_lock protects
    reg,           \* the fields g_registry_lock protects, and whether the client is freed
    connection_state, transport, \* transport: "none" (zeroed) or "open"
    state_lock, io_lock,         \* who holds them
    cancel_source, \* "none", "live" or "cancelled"
    thread,        \* worker_thread: "none", "joinable", "joined" or "detached"
    has_connected_before, was_reconnect, \* reconnect_tracker; on_connected's argument
    pc, op,        \* where each process is inside an API call, and which call
    wpc, after,    \* where worker_main is, and where it goes after close_transport
    destroy_gave_up \* history: some caller's destroy() returned without an effect

lifecycle_vars == <<life, cancel_source, thread>>
transport_vars == <<connection_state, transport, state_lock, io_lock>>
worker_vars == <<wpc, after, has_connected_before, was_reconnect>>
vars == <<lifecycle_vars, reg, transport_vars, worker_vars, pc, op, destroy_gave_up>>

(* The places where worker_main runs a callback of the application. *)
Callbacks == {"on_connected", "on_envelope", "on_disconnected", "on_disconnected_backoff"}

(* sensor_mgr_ipc_client_create *)
Init ==
    /\ life = [started |-> FALSE, shutdown_requested |-> FALSE, stop_complete |-> TRUE,
               terminal_cleanup_complete |-> TRUE, cancel_initialized |-> FALSE,
               worker_detached |-> FALSE, join_in_progress |-> FALSE]
    /\ reg = [destroy_requested |-> FALSE, destroy_from_worker |-> FALSE,
              api_callers |-> 0, freed |-> FALSE]
    /\ connection_state = "DISCONNECTED" /\ transport = "none"
    /\ state_lock = Nobody /\ io_lock = Nobody
    /\ cancel_source = "none" /\ thread = "none"
    /\ has_connected_before = FALSE /\ was_reconnect = FALSE
    /\ pc = [p \in Procs |-> "idle"] /\ op = [p \in Procs |-> "none"]
    /\ wpc = "none" /\ after = "none"
    /\ destroy_gave_up = FALSE

Goto(p, place) == pc' = [pc EXCEPT ![p] = place]

(* pthread_cond_broadcast(&shutdown_cond), p itself going on at place.  The *)
(* woken must take lifecycle_lock again before they look at stop_complete. *)
BroadcastAndGoto(p, place) ==
    pc' = [q \in Procs |-> IF q = p THEN place
                           ELSE IF pc[q] = "stop_wait" THEN "stop_woken" ELSE pc[q]]

-----------------------------------------------------------------------------
(* The registry: entering and leaving a call. *)

FirstStep(o) == CASE o = "start" -> "start" [] o = "stop" -> "stop" [] o = "send" -> "send"
                  [] o = "is_connected" -> "query" [] o = "destroy" -> "claim"

MayCall(p) == pc[p] = "idle" /\ (p = Worker => wpc \in Callbacks)

client_enter(p, o) ==
    /\ MayCall(p) /\ ~reg.freed /\ ~reg.destroy_requested
    /\ reg' = [reg EXCEPT !.api_callers = @ + 1]
    /\ op' = [op EXCEPT ![p] = o]
    /\ Goto(p, FirstStep(o))
    /\ UNCHANGED <<lifecycle_vars, transport_vars, worker_vars, destroy_gave_up>>

(* client_enter returned false: the call is over. *)
client_rejected(p, o) ==
    /\ MayCall(p) /\ (reg.freed \/ reg.destroy_requested)
    /\ destroy_gave_up' = (destroy_gave_up \/ (o = "destroy" /\ p # Worker))
    /\ UNCHANGED <<lifecycle_vars, reg, transport_vars, worker_vars, pc, op>>

client_leave(p) ==
    /\ pc[p] = "leave"
    /\ reg' = [reg EXCEPT !.api_callers = @ - 1]
    /\ op' = [op EXCEPT ![p] = "none"]
    /\ Goto(p, "idle")
    /\ UNCHANGED <<lifecycle_vars, transport_vars, worker_vars, destroy_gave_up>>

-----------------------------------------------------------------------------
(* stop_impl, on behalf of stop, of start (reaping a stopped worker) and of *)
(* destroy.                                                                *)

AfterStop(p) == CASE op[p] = "stop" -> "leave"
                  [] op[p] = "start" -> "start"
                  [] op[p] = "destroy" -> IF p = Worker THEN "leave" ELSE "await_callers"

StopOutcome(p) ==
    IF p = Worker THEN "stop_self"
    ELSE IF life.worker_detached \/ life.join_in_progress
         THEN IF life.stop_complete THEN AfterStop(p) ELSE "stop_wait"
         ELSE "stop_mark"

(* Mutant: destroy waits for pinned sends before it asks the worker to shut *)
(* down.                                                                   *)
stop_impl_late(p) ==
    /\ pc[p] = "stop" /\ (op[p] = "destroy" /\ p # Worker => \A q \in Procs : op[q] # "send")
    /\ \/ /\ ~life.started
          /\ Goto(p, AfterStop(p))
          /\ UNCHANGED <<life, cancel_source>>
       \/ /\ life.started
          /\ life' = [life EXCEPT !.shutdown_requested = TRUE,
                        !.join_in_progress = @ \/ StopOutcome(p) = "stop_mark"]
          /\ IF life.shutdown_requested
             THEN Goto(p, StopOutcome(p)) /\ UNCHANGED cancel_source
             ELSE /\ BroadcastAndGoto(p, StopOutcome(p))
                  /\ cancel_source' = IF life.cancel_initialized THEN "cancelled" ELSE cancel_source
    /\ UNCHANGED <<reg, thread, transport_vars, worker_vars, op, destroy_gave_up>>

stop_impl(p) ==
    /\ pc[p] = "stop"
    /\ \/ /\ ~life.started
          /\ Goto(p, AfterStop(p))
          /\ UNCHANGED <<life, cancel_source>>
       \/ /\ life.started
          /\ life' = [life EXCEPT !.shutdown_requested = TRUE,
                        !.join_in_progress = @ \/ StopOutcome(p) = "stop_mark"]
          /\ IF life.shutdown_requested
             THEN Goto(p, StopOutcome(p)) /\ UNCHANGED cancel_source
             ELSE /\ BroadcastAndGoto(p, StopOutcome(p))
                  /\ cancel_source' = IF life.cancel_initialized THEN "cancelled" ELSE cancel_source
    /\ UNCHANGED <<reg, thread, transport_vars, worker_vars, op, destroy_gave_up>>

mark_transport_stopping(p) ==
    /\ pc[p] \in {"stop_self", "stop_mark"} /\ state_lock = Nobody
    /\ connection_state' = IF connection_state = "DISCONNECTED" THEN "DISCONNECTED" ELSE "STOPPING"
    /\ Goto(p, IF pc[p] = "stop_self" THEN AfterStop(p) ELSE "stop_join")
    /\ UNCHANGED <<lifecycle_vars, reg, transport, state_lock, io_lock, worker_vars, op, destroy_gave_up>>

pthread_join(p) ==
    /\ pc[p] = "stop_join" /\ wpc = "exited"
    /\ thread' = "joined"
    /\ Goto(p, "stop_joined")
    /\ UNCHANGED <<life, cancel_source, reg, transport_vars, worker_vars, op, destroy_gave_up>>

stop_finish(p) ==
    /\ pc[p] = "stop_joined"
    /\ IF life.terminal_cleanup_complete
       THEN /\ life' = [life EXCEPT !.started = FALSE, !.stop_complete = TRUE, !.join_in_progress = FALSE]
            /\ BroadcastAndGoto(p, AfterStop(p))
       ELSE /\ Goto(p, IF op[p] = "start" THEN "leave" ELSE AfterStop(p)) \* SAVVY_ERR_UNKNOWN
            /\ UNCHANGED life
    /\ UNCHANGED <<cancel_source, thread, reg, transport_vars, worker_vars, op, destroy_gave_up>>

(* A woken waiter has lifecycle_lock again. *)
stop_wait(p) ==
    /\ pc[p] = "stop_woken"
    /\ Goto(p, IF life.stop_complete THEN AfterStop(p) ELSE "stop_wait")
    /\ UNCHANGED <<lifecycle_vars, reg, transport_vars, worker_vars, op, destroy_gave_up>>

-----------------------------------------------------------------------------
(* sensor_mgr_ipc_client_start *)

start_check(p) ==
    /\ pc[p] = "start"
    /\ Goto(p, CASE life.started /\ ~life.shutdown_requested -> "leave"
                 [] ~life.started -> "start_peek"
                 [] OTHER -> IF p = Worker THEN "leave" ELSE "stop")
    /\ UNCHANGED <<lifecycle_vars, reg, transport_vars, worker_vars, op, destroy_gave_up>>

(* client_destroy_is_requested without lifecycle_lock: advisory only. *)
start_peek(p) ==
    /\ pc[p] = "start_peek"
    /\ Goto(p, IF reg.destroy_requested THEN "leave" ELSE "start_commit")
    /\ UNCHANGED <<lifecycle_vars, reg, transport_vars, worker_vars, op, destroy_gave_up>>

(* From the authoritative check to started = true, all under lifecycle_lock. *)
start_refused(p) ==
    /\ pc[p] = "start_commit"
    /\ \/ life.started /\ Goto(p, "start")
       \/ ~life.started /\ reg.destroy_requested /\ Goto(p, "leave")
    /\ UNCHANGED <<lifecycle_vars, reg, transport_vars, worker_vars, op, destroy_gave_up>>

start_commit(p) ==
    /\ pc[p] = "start_commit" /\ ~life.started /\ ~reg.destroy_requested
    /\ \/ \* savvy_ipc_cancel_source_init fails
          UNCHANGED <<lifecycle_vars, worker_vars>>
       \/ \* pthread_create fails
          /\ life' = [life EXCEPT !.cancel_initialized = FALSE, !.shutdown_requested = FALSE,
                        !.stop_complete = TRUE, !.terminal_cleanup_complete = FALSE,
                        !.worker_detached = FALSE, !.join_in_progress = FALSE]
          /\ cancel_source' = "none"
          /\ has_connected_before' = FALSE
          /\ UNCHANGED <<thread, wpc, after, was_reconnect>>
       \/ /\ life' = [life EXCEPT !.cancel_initialized = TRUE, !.shutdown_requested = FALSE,
                        !.stop_complete = FALSE, !.terminal_cleanup_complete = FALSE,
                        !.worker_detached = FALSE, !.join_in_progress = FALSE, !.started = TRUE]
          /\ cancel_source' = "live"
          /\ has_connected_before' = FALSE
          /\ thread' = "joinable" /\ wpc' = "top"
          /\ UNCHANGED <<after, was_reconnect>>
    /\ Goto(p, "leave")
    /\ UNCHANGED <<reg, transport_vars, op, destroy_gave_up>>

-----------------------------------------------------------------------------
(* sensor_mgr_ipc_client_send and sensor_mgr_ipc_client_is_connected. *)

(* The checks of the action and its payload and the building of the        *)
(* envelope, before any lock: what waits for state_lock is valid.          *)
send_validate(p) ==
    /\ pc[p] = "send"
    /\ Goto(p, "leave") \/ Goto(p, "send_lock_state")
    /\ UNCHANGED <<lifecycle_vars, reg, transport_vars, worker_vars, op, destroy_gave_up>>

send_check(p) ==
    /\ pc[p] = "send_lock_state" /\ state_lock = Nobody
    /\ \/ /\ connection_state # "CONNECTED"
          /\ Goto(p, "leave") /\ UNCHANGED state_lock
       \/ /\ connection_state = "CONNECTED"
          /\ state_lock' = p /\ Goto(p, "send_lock_io")
    /\ UNCHANGED <<lifecycle_vars, reg, connection_state, transport, io_lock, worker_vars, op, destroy_gave_up>>

send_lock_io(p) ==
    /\ pc[p] = "send_lock_io" /\ io_lock = Nobody
    /\ io_lock' = p /\ state_lock' = Nobody
    /\ Goto(p, "sending")
    /\ UNCHANGED <<lifecycle_vars, reg, connection_state, transport, worker_vars, op, destroy_gave_up>>

(* transport.send returns, whatever its status. *)
send_done(p) ==
    /\ pc[p] = "sending"
    /\ io_lock' = Nobody
    /\ Goto(p, "leave")
    /\ UNCHANGED <<lifecycle_vars, reg, connection_state, transport, state_lock, worker_vars, op,
                   destroy_gave_up>>

is_connected(p) ==
    /\ pc[p] = "query" /\ state_lock = Nobody
    /\ Goto(p, "leave")
    /\ UNCHANGED <<lifecycle_vars, reg, transport_vars, worker_vars, op, destroy_gave_up>>

-----------------------------------------------------------------------------
(* sensor_mgr_ipc_client_destroy *)

client_claim_destroy(p) ==
    /\ pc[p] = "claim"
    /\ \/ /\ reg.destroy_requested
          /\ Goto(p, "leave")
          /\ destroy_gave_up' = (destroy_gave_up \/ p # Worker)
          /\ UNCHANGED reg
       \/ /\ ~reg.destroy_requested
          /\ reg' = [reg EXCEPT !.destroy_requested = TRUE,
                                !.destroy_from_worker = life.started /\ p = Worker]
          /\ Goto(p, IF life.started /\ p = Worker THEN "detach" ELSE "stop")
          /\ UNCHANGED destroy_gave_up
    /\ UNCHANGED <<lifecycle_vars, transport_vars, worker_vars, op>>

(* Mutant: a callback's destroy does not look at join_in_progress. *)
detach_always(p) ==
    /\ pc[p] = "detach"
    /\ life' = [life EXCEPT !.worker_detached = TRUE]
    /\ thread' = "detached"
    /\ Goto(p, "stop")
    /\ UNCHANGED <<reg, cancel_source, transport_vars, worker_vars, op, destroy_gave_up>>

detach(p) ==
    /\ pc[p] = "detach"
    /\ \/ /\ life.join_in_progress
          /\ Goto(p, "unclaim") /\ UNCHANGED <<life, thread>>
       \/ /\ ~life.join_in_progress
          /\ life' = [life EXCEPT !.worker_detached = TRUE]
          /\ thread' = IF life.worker_detached THEN thread ELSE "detached"
          /\ Goto(p, "stop")
    /\ UNCHANGED <<reg, cancel_source, transport_vars, worker_vars, op, destroy_gave_up>>

client_unclaim_destroy(p) ==
    /\ pc[p] = "unclaim"
    /\ reg' = [reg EXCEPT !.destroy_requested = FALSE, !.destroy_from_worker = FALSE]
    /\ Goto(p, "stop")
    /\ UNCHANGED <<lifecycle_vars, transport_vars, worker_vars, op, destroy_gave_up>>

(* Every change of api_callers to a smaller value broadcasts g_registry_idle *)
(* under g_registry_lock, so the two waits on it are guards.               *)
wait_for_other_api_callers(p) ==
    /\ pc[p] = "await_callers" /\ reg.api_callers <= 1
    /\ reg' = [reg EXCEPT !.api_callers = @ - 1]
    /\ Goto(p, "finalize")
    /\ UNCHANGED <<lifecycle_vars, transport_vars, worker_vars, op, destroy_gave_up>>

finalize_destroy(p) ==
    /\ pc[p] = "finalize" /\ reg.api_callers = 0
    /\ reg' = [reg EXCEPT !.freed = TRUE]
    /\ op' = [op EXCEPT ![p] = "none"]
    /\ Goto(p, "idle")
    /\ UNCHANGED <<lifecycle_vars, transport_vars, worker_vars, destroy_gave_up>>

-----------------------------------------------------------------------------
(* worker_main *)

WorkerGoto(place) == wpc' = place /\ UNCHANGED <<after, has_connected_before, was_reconnect>>

CloseThen(place) == wpc' = "close" /\ after' = place
                    /\ UNCHANGED <<has_connected_before, was_reconnect>>

api_vars == <<reg, pc, op, destroy_gave_up>>

worker_top ==
    /\ wpc = "top"
    /\ IF life.shutdown_requested THEN CloseThen("cleanup") ELSE WorkerGoto("connect")
    /\ UNCHANGED <<lifecycle_vars, transport_vars, api_vars>>

(* config.connector: CANCELLED only once the cancel source is cancelled. *)
connector ==
    /\ wpc = "connect"
    /\ \/ cancel_source = "cancelled" /\ CloseThen("cleanup")
       \/ WorkerGoto("backoff")
       \/ WorkerGoto("set_connected")
    /\ UNCHANGED <<lifecycle_vars, transport_vars, api_vars>>

(* Returns on shutdown or when the time is up. *)
interruptible_backoff_sleep ==
    /\ wpc = "backoff"
    /\ WorkerGoto("top")
    /\ UNCHANGED <<lifecycle_vars, transport_vars, api_vars>>

set_transport_connected ==
    /\ wpc = "set_connected" /\ state_lock = Nobody
    /\ transport' = "open" /\ connection_state' = "TRANSPORT_CONNECTED"
    /\ WorkerGoto("check_shutdown")
    /\ UNCHANGED <<lifecycle_vars, state_lock, io_lock, api_vars>>

check_shutdown ==
    /\ wpc = "check_shutdown"
    /\ IF life.shutdown_requested THEN CloseThen("break") ELSE WorkerGoto("handshake")
    /\ UNCHANGED <<lifecycle_vars, transport_vars, api_vars>>

(* savvy_ipc_envelope_build of CONNECT, which may fail, before any lock. *)
handshake_build ==
    /\ wpc = "handshake"
    /\ WorkerGoto("handshake_lock") \/ CloseThen("on_disconnected_backoff")
    /\ UNCHANGED <<lifecycle_vars, transport_vars, api_vars>>

handshake_begin ==
    /\ wpc = "handshake_lock" /\ state_lock = Nobody
    /\ \/ /\ connection_state # "TRANSPORT_CONNECTED"
          /\ CloseThen("on_disconnected_backoff") /\ UNCHANGED connection_state
       \/ /\ connection_state = "TRANSPORT_CONNECTED"
          /\ connection_state' = "HANDSHAKING"
          /\ WorkerGoto("handshake_sending")
    /\ UNCHANGED <<lifecycle_vars, transport, state_lock, io_lock, api_vars>>

(* transport.send of the CONNECT envelope, without io_lock. *)
handshake_send ==
    /\ wpc = "handshake_sending"
    /\ WorkerGoto("handshake_ok") \/ CloseThen("on_disconnected_backoff")
    /\ UNCHANGED <<lifecycle_vars, transport_vars, api_vars>>

(* CONNECT was sent: CONNECTED unless a stop came in between, then the     *)
(* reconnect tracker and on_connected.                                     *)
handshake_end ==
    /\ wpc = "handshake_ok" /\ state_lock = Nobody
    /\ \/ /\ connection_state # "HANDSHAKING"
          /\ CloseThen("on_disconnected_backoff") /\ UNCHANGED connection_state
       \/ /\ connection_state = "HANDSHAKING"
          /\ connection_state' = "CONNECTED"
          /\ WorkerGoto("tracker")
    /\ UNCHANGED <<lifecycle_vars, transport, state_lock, io_lock, api_vars>>

tracker_on_connected ==
    /\ wpc = "tracker"
    /\ was_reconnect' = has_connected_before
    /\ has_connected_before' = TRUE
    /\ wpc' = "on_connected"
    /\ UNCHANGED <<after, lifecycle_vars, transport_vars, api_vars>>

recv_check ==
    /\ wpc = "recv"
    /\ IF life.shutdown_requested THEN CloseThen("on_disconnected") ELSE WorkerGoto("recv_lock_state")
    /\ UNCHANGED <<lifecycle_vars, transport_vars, api_vars>>

recv_lock_state ==
    /\ wpc = "recv_lock_state" /\ state_lock = Nobody
    /\ \/ connection_state # "CONNECTED" /\ CloseThen("on_disconnected") /\ UNCHANGED state_lock
       \/ connection_state = "CONNECTED" /\ WorkerGoto("recv_lock_io") /\ state_lock' = Worker
    /\ UNCHANGED <<lifecycle_vars, connection_state, transport, io_lock, api_vars>>

recv_lock_io ==
    /\ wpc = "recv_lock_io" /\ io_lock = Nobody
    /\ io_lock' = Worker /\ state_lock' = Nobody
    /\ WorkerGoto("receiving")
    /\ UNCHANGED <<lifecycle_vars, connection_state, transport, api_vars>>

(* A timeout, an oversized or an undispatched message; an envelope for the *)
(* application; end of file or an error.                                   *)
recv_done ==
    /\ wpc = "receiving"
    /\ io_lock' = Nobody
    /\ WorkerGoto("recv") \/ WorkerGoto("on_envelope") \/ CloseThen("on_disconnected")
    /\ UNCHANGED <<lifecycle_vars, connection_state, transport, state_lock, api_vars>>

callback_returns ==
    /\ wpc \in Callbacks /\ pc[Worker] = "idle"
    /\ wpc' = CASE wpc = "on_connected" -> "recv" [] wpc = "on_envelope" -> "recv"
                [] wpc = "on_disconnected" -> "top"
                [] wpc = "on_disconnected_backoff" -> "backoff"
    /\ UNCHANGED <<after, has_connected_before, was_reconnect>>
    /\ UNCHANGED <<lifecycle_vars, transport_vars, api_vars>>

(* close_transport: state_lock, then io_lock, then the close. *)
close_lock_state ==
    /\ wpc = "close" /\ state_lock = Nobody
    /\ state_lock' = Worker
    /\ WorkerGoto("close_lock_io")
    /\ UNCHANGED <<lifecycle_vars, connection_state, transport, io_lock, api_vars>>

(* Mutant: the transport is closed without waiting for io_lock. *)
close_transport_unpinned ==
    /\ wpc = "close_lock_io"
    /\ connection_state' = "DISCONNECTED" /\ transport' = "none"
    /\ state_lock' = Nobody
    /\ IF after = "break" THEN CloseThen("cleanup") ELSE WorkerGoto(after)
    /\ UNCHANGED <<lifecycle_vars, io_lock, api_vars>>

close_transport ==
    /\ wpc = "close_lock_io" /\ io_lock = Nobody
    /\ IF connection_state = "DISCONNECTED" THEN UNCHANGED <<connection_state, transport>>
       ELSE connection_state' = "DISCONNECTED" /\ transport' = "none"
    /\ state_lock' = Nobody
    /\ IF after = "break" THEN CloseThen("cleanup") ELSE WorkerGoto(after)
    /\ UNCHANGED <<lifecycle_vars, io_lock, api_vars>>

(* Mutant: a detached worker publishes stop_complete before it has         *)
(* destroyed the cancel source.                                            *)
mark_claim_early ==
    /\ wpc = "cleanup"
    /\ life' = [life EXCEPT !.cancel_initialized = FALSE,
                            !.stop_complete = @ \/ life.worker_detached]
    /\ WorkerGoto(IF life.cancel_initialized THEN "destroy_cancel" ELSE "publish")
    /\ UNCHANGED <<cancel_source, thread, transport_vars, api_vars>>

(* worker_mark_finished: claim the cancel source, destroy it, publish. *)
mark_claim_cancel ==
    /\ wpc = "cleanup"
    /\ life' = [life EXCEPT !.cancel_initialized = FALSE]
    /\ WorkerGoto(IF life.cancel_initialized THEN "destroy_cancel" ELSE "publish")
    /\ UNCHANGED <<cancel_source, thread, transport_vars, api_vars>>

mark_destroy_cancel ==
    /\ wpc = "destroy_cancel"
    /\ cancel_source' = "none"
    /\ WorkerGoto("publish")
    /\ UNCHANGED <<life, thread, transport_vars, api_vars>>

worker_mark_finished ==
    /\ wpc = "publish"
    /\ life' = [life EXCEPT !.terminal_cleanup_complete = TRUE,
                  !.started = @ /\ ~life.worker_detached,
                  !.stop_complete = @ \/ life.worker_detached]
    /\ BroadcastAndGoto(Worker, "idle")
    /\ WorkerGoto(IF reg.destroy_from_worker THEN "finalize" ELSE "exited")
    /\ UNCHANGED <<cancel_source, thread, transport_vars, reg, op, destroy_gave_up>>

(* Mutant: the pins of calls in progress are not waited for. *)
worker_finalize_at_once ==
    /\ wpc = "finalize"
    /\ reg' = [reg EXCEPT !.freed = TRUE]
    /\ WorkerGoto("exited")
    /\ UNCHANGED <<lifecycle_vars, transport_vars, pc, op, destroy_gave_up>>

worker_finalize_destroy ==
    /\ wpc = "finalize" /\ reg.api_callers = 0
    /\ reg' = [reg EXCEPT !.freed = TRUE]
    /\ WorkerGoto("exited")
    /\ UNCHANGED <<lifecycle_vars, transport_vars, pc, op, destroy_gave_up>>

-----------------------------------------------------------------------------
Invoke(p) == \E o \in IF p = Worker THEN CallbackOps ELSE CallerOps :
                client_enter(p, o) \/ client_rejected(p, o)

CallStep(p) ==
    \/ client_leave(p) \/ stop_impl(p) \/ mark_transport_stopping(p) \/ pthread_join(p)
    \/ stop_finish(p) \/ stop_wait(p)
    \/ start_check(p) \/ start_peek(p) \/ start_refused(p) \/ start_commit(p)
    \/ send_validate(p) \/ send_check(p) \/ send_lock_io(p) \/ send_done(p) \/ is_connected(p)
    \/ client_claim_destroy(p) \/ detach(p) \/ client_unclaim_destroy(p)
    \/ wait_for_other_api_callers(p) \/ finalize_destroy(p)

WorkerStep ==
    \/ worker_top \/ connector \/ interruptible_backoff_sleep \/ set_transport_connected
    \/ check_shutdown \/ handshake_build \/ handshake_begin \/ handshake_send \/ handshake_end \/ tracker_on_connected
    \/ recv_check \/ recv_lock_state \/ recv_lock_io \/ recv_done
    \/ close_lock_state \/ close_transport
    \/ mark_claim_cancel \/ mark_destroy_cancel \/ worker_mark_finished \/ worker_finalize_destroy

Next == (\E p \in Procs : Invoke(p) \/ CallStep(p)) \/ WorkerStep \/ callback_returns

(* A thread that can run does run.  Nothing more is assumed of the mutexes: *)
(* a thread may lose the race for state_lock or io_lock forever if they are *)
(* taken again and again.  Callbacks return.                               *)
Fairness == /\ \A p \in Procs : WF_vars(CallStep(p))
            /\ WF_vars(WorkerStep) /\ SF_vars(callback_returns)

SafeSpec == Init /\ [][Next]_vars

Spec == SafeSpec /\ Fairness

-----------------------------------------------------------------------------
(* Inside transport.send or transport.recv. *)
Sending == {p \in Procs : pc[p] = "sending"}
WorkerInIo == wpc \in {"receiving", "handshake_sending"}

(* "io_lock alone pins transport until send returns": whoever is inside the *)
(* transport's send or recv, the handshake without any lock included, has   *)
(* an open transport, is alone in there, and no transport is overwritten    *)
(* before it is closed.                                                     *)
TransportPinned ==
    /\ Sending # {} \/ WorkerInIo => transport = "open"
    /\ Cardinality(Sending) <= 1 /\ (WorkerInIo => Sending = {})
    /\ wpc = "set_connected" => transport = "none"

(* destroy frees the client only when no call is inside it, the worker will *)
(* never touch it again and is joined or detached, and the transport, the   *)
(* cancel source and the locks are released.                                *)
NoUseAfterFree ==
    reg.freed => /\ \A p \in Procs : pc[p] = "idle"
                 /\ wpc \in {"none", "exited"} /\ thread # "joinable"
                 /\ transport = "none" /\ cancel_source = "none"
                 /\ state_lock = Nobody /\ io_lock = Nobody

(* stop_complete is published only after the worker's terminal cleanup:     *)
(* no worker left that could run a callback, no open transport, no live     *)
(* cancel source that the next start would overwrite.  For the stop that    *)
(* publishes it, pthread_join has proved that cleanup: the path that        *)
(* returns SAVVY_ERR_UNKNOWN is never taken.                                *)
StopCompleteMeansQuiescent ==
    /\ life.stop_complete => /\ wpc \in {"none", "exited", "finalize"}
                             /\ transport = "none" /\ connection_state = "DISCONNECTED"
                             /\ cancel_source = "none" /\ ~life.cancel_initialized
    /\ \A p \in Procs : pc[p] = "stop_joined" =>
                          life.terminal_cleanup_complete /\ life.join_in_progress

(* Every worker thread is reaped exactly once, by a join or by a detach and *)
(* never by both, pthread_join is only ever called on a thread that nobody  *)
(* detached, and a new one is created only when the old one has ended.      *)
WorkerReapedOnce ==
    [][/\ thread' # thread => <<thread, thread'>> \in
            {<<"none", "joinable">>, <<"joinable", "joined">>, <<"joinable", "detached">>,
             <<"joined", "joinable">>}
       /\ (\E c \in Callers : pc[c] = "stop_join") => thread = "joinable"
       /\ thread' = "joinable" /\ thread # "joinable" => wpc \in {"none", "exited"}]_vars

(* A destroy that keeps its claim on the client, from an application thread *)
(* or from a callback that has detached the worker.                         *)
DestroyAccepted ==
    \/ \E p \in Callers : op[p] = "destroy" /\ pc[p] \notin {"claim", "leave"}
    \/ life.worker_detached

(* It frees the client, even if the mutexes are unfair.                     *)
DestroyCompletes == DestroyAccepted ~> reg.freed

-----------------------------------------------------------------------------
(* mgr_ipc_client.h: stop is "thread-safe and idempotent.  Concurrent stop  *)
(* callers serialize one cancellation and worker join": each of them        *)
(* returns, at the latest once nobody else uses the client any more.        *)
StopReturns ==
    \A p \in Callers : <>[](\A q \in Procs \ {p} : op[q] = "none")
                         => (op[p] = "stop" ~> op[p] = "none")

(* mgr_ipc_client.h: when a callback's destroy is reduced to a stop, "a     *)
(* later external destroy owns final storage release": an application's     *)
(* destroy that returned leaves the client freed or being freed.            *)
DestroyNotLost == destroy_gave_up => reg.destroy_requested \/ reg.freed
=============================================================================
