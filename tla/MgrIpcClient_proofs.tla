------------------------ MODULE MgrIpcClient_proofs ------------------------
(***************************************************************************)
(* Proofs about MgrIpcClient, for any finite set of application threads    *)
(* and any mix of calls from them and from the callbacks.                  *)
(***************************************************************************)
EXTENDS MgrIpcClient, FiniteSetTheorems, TLAPS

Joining == {"stop_mark", "stop_join", "stop_joined"}

StopPlaces == Joining \union {"stop", "stop_wait", "stop_woken", "stop_self"}

DestroyPlaces == {"claim", "detach", "unclaim", "await_callers", "finalize"}

Places == StopPlaces \union DestroyPlaces \union
          {"idle", "leave", "start", "start_peek", "start_commit", "send", "send_lock_state", "send_lock_io",
           "sending", "query"}

(* worker_main between set_transport_connected and the next close, the     *)
(* last part of it once the handshake is over.                             *)
Serving == {"tracker", "on_connected", "on_envelope", "recv", "recv_lock_state", "recv_lock_io", "receiving"}

Linked == Serving \union {"check_shutdown", "handshake", "handshake_lock", "handshake_sending",
                            "handshake_ok"}

Closing == {"close", "close_lock_io"}

Ended == {"none", "exited", "finalize"}

Unlinked == {"top", "connect", "backoff", "set_connected", "on_disconnected", "on_disconnected_backoff",
             "cleanup", "destroy_cancel", "publish"}

Afters == {"cleanup", "break", "on_disconnected", "on_disconnected_backoff"}

LifeType == [started : BOOLEAN, shutdown_requested : BOOLEAN, stop_complete : BOOLEAN,
             terminal_cleanup_complete : BOOLEAN, cancel_initialized : BOOLEAN,
             worker_detached : BOOLEAN, join_in_progress : BOOLEAN]

RegType == [destroy_requested : BOOLEAN, destroy_from_worker : BOOLEAN, api_callers : Int, freed : BOOLEAN]

Types ==
    /\ life \in LifeType /\ reg \in RegType
    /\ connection_state \in {"DISCONNECTED", "TRANSPORT_CONNECTED", "HANDSHAKING", "CONNECTED", "STOPPING"}
    /\ transport \in {"none", "open"}
    /\ state_lock \in Procs \union {Nobody} /\ io_lock \in Procs \union {Nobody}
    /\ cancel_source \in {"none", "live", "cancelled"}
    /\ thread \in {"none", "joinable", "joined", "detached"}
    /\ pc \in [Procs -> Places] /\ op \in [Procs -> Operations \union {"none"}]
    /\ wpc \in Linked \union Closing \union Ended \union Unlinked
    /\ wpc \in Closing => after \in Afters

(* Which call a place belongs to, and who can be there. *)
Calls ==
    /\ \A p \in Procs :
         /\ pc[p] \in {"start", "start_peek", "start_commit"} => op[p] = "start"
         /\ pc[p] \in StopPlaces => op[p] \in {"start", "stop", "destroy"}
         /\ pc[p] \in DestroyPlaces => op[p] = "destroy"
         /\ pc[p] \in {"stop_self", "detach", "unclaim"} => p = Worker
         /\ pc[p] \in Joining \union {"stop_wait", "stop_woken", "await_callers", "finalize"} => p # Worker
    /\ pc[Worker] # "idle" => wpc \in Callbacks

(* The calls that pin the client: finalize has given its pin back. *)
Inside == {p \in Procs : pc[p] \notin {"idle", "finalize"}}

Pins == reg.api_callers = Cardinality(Inside)

(* Who holds a lock is where it is held. *)
Locks ==
    /\ \A p \in Procs : state_lock = p <=> \/ pc[p] = "send_lock_io"
                                           \/ p = Worker /\ wpc \in {"recv_lock_io", "close_lock_io"}
    /\ \A p \in Procs : io_lock = p <=> \/ pc[p] = "sending"
                                        \/ p = Worker /\ wpc = "receiving"

(* What the worker's place says about the link, and what a send relies on. *)
Link ==
    /\ transport = "open" <=> connection_state # "DISCONNECTED"
    /\ wpc \in Linked => connection_state # "DISCONNECTED"
    /\ wpc \in Unlinked \union Ended => connection_state = "DISCONNECTED"
    /\ connection_state = "CONNECTED" => wpc \in Serving \union Closing
    /\ \A p \in Procs : /\ pc[p] = "send_lock_io" => connection_state = "CONNECTED"
                        /\ pc[p] = "sending" => /\ connection_state # "DISCONNECTED"
                                                /\ wpc \in Serving \union Closing

(* Whether there is a worker, and how it will be or was reaped. *)
Reaping ==
    /\ wpc \notin Ended => life.started /\ thread \in {"joinable", "detached"}
    /\ life.stop_complete => ~life.started
    /\ wpc = "none" => ~life.started
    /\ wpc = "finalize" => life.worker_detached
    /\ thread = "detached" <=> life.worker_detached
    /\ life.worker_detached /\ life.started => wpc \notin Ended
    /\ ~life.started /\ ~life.worker_detached => wpc \in {"none", "exited"} /\ thread \in {"none", "joined"}
    /\ life.started /\ wpc = "exited" => life.terminal_cleanup_complete
    /\ life.started /\ ~life.worker_detached /\ ~life.join_in_progress => thread = "joinable"

(* The one thread that joins it. *)
Joiner ==
    /\ life.join_in_progress => life.started /\ ~life.worker_detached
    /\ \A p \in Procs :
         /\ pc[p] \in Joining => life.join_in_progress
         /\ pc[p] \in {"stop_mark", "stop_join"} => thread = "joinable"
         /\ pc[p] = "stop_joined" => wpc = "exited" /\ thread = "joined"
    /\ \A p, q \in Procs : pc[p] \in Joining /\ pc[q] \in Joining => p = q

(* The cancel source lives as long as the flag says, or until the worker   *)
(* that has cleared it gets to destroy it.                                 *)
Cancel ==
    /\ wpc \in Ended \union {"destroy_cancel", "publish"} => ~life.cancel_initialized
    /\ ~life.cancel_initialized /\ wpc # "destroy_cancel" => cancel_source = "none"

(* The thread whose destroy() keeps the claim, other than the worker.      *)
Owner(p) == op[p] = "destroy" /\ pc[p] \in StopPlaces \union {"await_callers", "finalize"}

(* The claim on the client has one owner. *)
Claim ==
    /\ \A p \in Callers : /\ Owner(p) => reg.destroy_requested /\ ~reg.destroy_from_worker
                          /\ pc[p] \in {"await_callers", "finalize"} => ~life.started
    /\ \A p, q \in Callers : Owner(p) /\ Owner(q) => p = q
    /\ life.worker_detached => reg.destroy_from_worker
    /\ reg.destroy_from_worker =>
         reg.destroy_requested /\ (life.worker_detached \/ pc[Worker] \in {"detach", "unclaim"})
    /\ pc[Worker] \in {"detach", "unclaim"} => reg.destroy_from_worker /\ ~life.worker_detached
    /\ reg.freed => reg.destroy_requested

(* The inductive invariant. *)
IInv == /\ Types /\ Calls /\ Pins /\ Locks /\ Link /\ Reaping /\ Joiner /\ Cancel /\ Claim
        /\ NoUseAfterFree
-----------------------------------------------------------------------------
(* The steps, grouped by what they change. *)

(* A call that only goes on. *)
Quiet(p) == \/ stop_wait(p) \/ start_check(p) \/ start_peek(p) \/ start_refused(p)
            \/ send_validate(p) \/ is_connected(p)

(* A call at state_lock or io_lock. *)
Locking(p) == send_check(p) \/ send_lock_io(p) \/ send_done(p) \/ mark_transport_stopping(p)

(* worker_main goes on, or a callback returns. *)
WorkerQuiet == \/ worker_top \/ connector \/ interruptible_backoff_sleep \/ check_shutdown
               \/ handshake_build \/ handshake_send \/ tracker_on_connected \/ recv_check \/ callback_returns

(* worker_main at the locks, the connection state and the transport. *)
WorkerLink == \/ set_transport_connected \/ handshake_begin \/ handshake_end \/ recv_lock_state
              \/ recv_lock_io \/ recv_done \/ close_lock_state \/ close_transport

USE DEF Joining, StopPlaces, DestroyPlaces, Places, Serving, Linked, Closing, Ended, Unlinked,
        Afters, Callbacks, Procs, Operations

(* The initial state has it. *)
LEMMA InitIInv == Init => IInv
<1> SUFFICES ASSUME Init PROVE IInv OBVIOUS
<1>1. Types BY DEF Init, Types, LifeType, RegType
<1>2. Pins
  <2>1. Inside = {} BY DEF Init, Inside
  <2> QED BY <2>1, FS_EmptySet DEF Init, Pins
<1>3. Calls /\ Link /\ Reaping /\ Joiner /\ Cancel /\ Claim /\ NoUseAfterFree
  BY DEF Init, Calls, Link, Reaping, Joiner, Cancel, Claim, NoUseAfterFree, Owner
<1>4. Locks BY NobodyAssumption DEF Init, Locks
<1> QED BY <1>1, <1>2, <1>3, <1>4 DEF IInv

(* The set of the calls inside is finite, and one call enters or leaves. *)
LEMMA InsideFinite == IsFiniteSet(Inside) /\ IsFiniteSet(Inside')
<1>1. IsFiniteSet(Procs) BY ZenonT(30), CallersAssumption, FS_Singleton, FS_Union
<1> QED BY <1>1, FS_Subset DEF Inside

LEMMA Enters ==
    ASSUME NEW p \in Procs, p \notin Inside, Inside' = Inside \union {p}, Pins,
           reg'.api_callers = reg.api_callers + 1
    PROVE  Pins'
BY InsideFinite, FS_AddElement DEF Pins

LEMMA Leaves ==
    ASSUME NEW p \in Procs, p \in Inside, Inside' = Inside \ {p}, Pins,
           reg'.api_callers = reg.api_callers - 1
    PROVE  Pins'
BY InsideFinite, FS_RemoveElement DEF Pins

(* A call that goes on keeps the invariant. *)
LEMMA QuietKeeps == ASSUME IInv, NEW p \in Procs, Quiet(p) PROVE IInv'
<1> USE WorkerAssumption, NobodyAssumption DEF IInv, Types, Calls, Quiet, stop_wait, start_check,
        start_peek, start_refused, send_validate, is_connected, Goto, AfterStop, lifecycle_vars,
        transport_vars, worker_vars
<1>1. Types' BY SMTT(30)
<1>2. Calls' BY SMTT(30) DEF Reaping
<1>3. Pins'
  <2>1. Inside' = Inside BY SMTT(30) DEF Inside
  <2> QED BY SMTT(30), <2>1 DEF Pins
<1>4. Locks' BY SMTT(30) DEF Locks
<1>5. Link' BY SMTT(30) DEF Locks, Link, Reaping
<1>6. Reaping' BY SMTT(30) DEF Reaping, Joiner, Claim, Owner
<1>7. Joiner' BY SMTT(30) DEF Reaping, Joiner
<1>8. Cancel' BY SMTT(30) DEF Reaping, Joiner, Cancel
<1>9. Claim' BY SMTT(30) DEF Reaping, Joiner, Claim, Owner
<1>10. NoUseAfterFree' BY DEF NoUseAfterFree
<1> HIDE DEF Types, Calls, Quiet
<1> QED BY SMTT(30), <1>1, <1>2, <1>3, <1>4, <1>5, <1>6, <1>7, <1>8, <1>9, <1>10

(* So does a call that takes or gives back a lock. *)
LEMMA LockingKeeps == ASSUME IInv, NEW p \in Procs, Locking(p) PROVE IInv'
<1> USE WorkerAssumption, NobodyAssumption DEF IInv, Types, Calls, Locking, send_check,
        send_lock_io, send_done, mark_transport_stopping, Goto, AfterStop, lifecycle_vars,
        worker_vars
<1>1. Types' OBVIOUS
<1>2. Calls' BY DEF Reaping
<1>3. Pins'
  <2>1. Inside' = Inside BY DEF Inside
  <2> QED BY <2>1 DEF Pins
<1>4. Locks' BY DEF Locks
<1>5. Link' BY SMTT(30) DEF Locks, Link, Reaping
<1>6. Reaping' BY SMTT(30) DEF Reaping, Joiner, Claim, Owner
<1>7. Joiner' BY DEF Reaping, Joiner
<1>8. Cancel' BY SMTT(30) DEF Reaping, Joiner, Cancel
<1>9. Claim' BY DEF Reaping, Joiner, Claim, Owner
<1>10. NoUseAfterFree' BY SMTT(30) DEF NoUseAfterFree
<1> HIDE DEF Types, Calls, Locking
<1> QED BY SMTT(30), <1>1, <1>2, <1>3, <1>4, <1>5, <1>6, <1>7, <1>8, <1>9, <1>10

(* And the worker, when it goes on, *)
LEMMA WorkerQuietKeeps == ASSUME IInv, WorkerQuiet PROVE IInv'
<1> USE WorkerAssumption, NobodyAssumption DEF IInv, Types, Calls, WorkerQuiet, worker_top,
        connector, interruptible_backoff_sleep, check_shutdown, handshake_build,
        handshake_send,
        tracker_on_connected, recv_check, callback_returns, WorkerGoto, CloseThen, lifecycle_vars,
        transport_vars, api_vars
<1>1. Types' BY SMTT(30)
<1>2. Calls' BY SMTT(30) DEF Reaping
<1>3. Pins'
  <2>1. Inside' = Inside BY DEF Inside
  <2> QED BY SMTT(30), <2>1 DEF Pins
<1>4. Locks' BY SMTT(30) DEF Locks
<1>5. Link' BY SMTT(30) DEF Locks, Link, Reaping
<1>6. Reaping' BY SMTT(30) DEF Reaping, Joiner, Claim, Owner
<1>7. Joiner' BY SMTT(30) DEF Reaping, Joiner
<1>8. Cancel' BY SMTT(30) DEF Reaping, Joiner, Cancel
<1>9. Claim' BY SMTT(30) DEF Reaping, Joiner, Claim, Owner
<1>10. NoUseAfterFree' BY SMTT(30) DEF NoUseAfterFree
<1> HIDE DEF Types, Calls, WorkerQuiet
<1> QED BY SMTT(30), <1>1, <1>2, <1>3, <1>4, <1>5, <1>6, <1>7, <1>8, <1>9, <1>10

(* and when it changes the link. *)
LEMMA WorkerLinkKeeps == ASSUME IInv, WorkerLink PROVE IInv'
<1> USE WorkerAssumption, NobodyAssumption DEF IInv, Types, Calls, WorkerLink,
        set_transport_connected, handshake_begin, handshake_end, recv_lock_state, recv_lock_io,
        recv_done, close_lock_state, close_transport, WorkerGoto, CloseThen, lifecycle_vars,
        api_vars
<1>1. Types' BY SMTT(30)
<1>2. Calls' BY SMTT(30) DEF Reaping
<1>3. Pins'
  <2>1. Inside' = Inside BY SMTT(30) DEF Inside
  <2> QED BY SMTT(30), <2>1 DEF Pins
<1>4. Locks' BY SMTT(30) DEF Locks
<1>5. Link' BY SMTT(30) DEF Locks, Link, Reaping
<1>6. Reaping' BY SMTT(30) DEF Reaping, Joiner, Claim, Owner
<1>7. Joiner' BY SMTT(30) DEF Reaping, Joiner
<1>8. Cancel' BY SMTT(30) DEF Reaping, Joiner, Cancel
<1>9. Claim' BY SMTT(30) DEF Reaping, Joiner, Claim, Owner
<1>10. NoUseAfterFree' BY SMTT(30) DEF NoUseAfterFree
<1> HIDE DEF Types, Calls, WorkerLink
<1> QED BY SMTT(30), <1>1, <1>2, <1>3, <1>4, <1>5, <1>6, <1>7, <1>8, <1>9, <1>10

-----------------------------------------------------------------------------
(* The registry: one call enters or leaves. *)
LEMMA EnterKeeps ==
    ASSUME IInv, NEW p \in Procs, NEW o \in Operations, client_enter(p, o) PROVE IInv'
<1> USE WorkerAssumption, NobodyAssumption
    DEF IInv, Types, Calls, RegType, client_enter, MayCall, FirstStep, Goto, lifecycle_vars,
        transport_vars, worker_vars
<1>1. /\ reg' \in RegType /\ reg'.api_callers = reg.api_callers + 1
      /\ UNCHANGED <<reg.destroy_requested, reg.destroy_from_worker, reg.freed>>
  OBVIOUS
<1>2. Types' BY <1>1
<1>3. Calls' OBVIOUS
<1>4. Pins'
  <2>1. p \notin Inside /\ Inside' = Inside \union {p} BY DEF Inside
  <2> QED BY <1>1, <2>1, Enters
<1>5. Locks' /\ Link' BY DEF Locks, Link
<1>6. Reaping' /\ Joiner' /\ Cancel' BY DEF Reaping, Joiner, Cancel
<1>7. Claim' BY <1>1 DEF Claim, Owner
<1>8. NoUseAfterFree' BY <1>1 DEF NoUseAfterFree
<1> HIDE DEF Types, Calls
<1> QED BY <1>2, <1>3, <1>4, <1>5, <1>6, <1>7, <1>8

LEMMA LeaveKeeps ==
    ASSUME IInv, NEW p \in Procs, client_leave(p) \/ wait_for_other_api_callers(p) PROVE IInv'
<1> USE WorkerAssumption, NobodyAssumption
    DEF IInv, Types, Calls, RegType, client_leave, wait_for_other_api_callers, Goto, lifecycle_vars,
        transport_vars, worker_vars
<1>1. /\ reg' \in RegType /\ reg'.api_callers = reg.api_callers - 1
      /\ UNCHANGED <<reg.destroy_requested, reg.destroy_from_worker, reg.freed>>
  OBVIOUS
<1>2. Types' BY <1>1
<1>3. Calls' OBVIOUS
<1>4. Pins'
  <2>1. p \in Inside /\ Inside' = Inside \ {p} BY DEF Inside
  <2> QED BY <1>1, <2>1, Leaves
<1>5. Locks' /\ Link' BY DEF Locks, Link
<1>6. Reaping' /\ Joiner' /\ Cancel' BY DEF Reaping, Joiner, Cancel
<1>7. Claim' BY <1>1 DEF Claim, Owner
<1>8. NoUseAfterFree' BY <1>1 DEF NoUseAfterFree
<1> HIDE DEF Types, Calls
<1> QED BY <1>2, <1>3, <1>4, <1>5, <1>6, <1>7, <1>8

(* The claim is made or found taken. *)
LEMMA ClaimKeeps == ASSUME IInv, NEW p \in Procs, client_claim_destroy(p) PROVE IInv'
<1> USE WorkerAssumption, NobodyAssumption
    DEF IInv, Types, Calls, RegType, client_claim_destroy, Goto, lifecycle_vars,
        transport_vars, worker_vars
<1>1. ~reg.freed /\ (p = Worker => life.started) BY DEF NoUseAfterFree, Reaping
<1>2. /\ reg' \in RegType /\ UNCHANGED <<reg.api_callers, reg.freed>>
      /\ reg'.destroy_requested
  BY ZenonT(30)
<1>3. Types' BY <1>2
<1>4. Calls' BY <1>1
<1>5. Pins'
  <2>1. Inside' = Inside BY DEF Inside
  <2> QED BY <1>2, <2>1 DEF Pins
<1>6. Locks' /\ Link' BY DEF Locks, Link
<1>7. Reaping' /\ Joiner' /\ Cancel' BY DEF Reaping, Joiner, Cancel
<1>8. Claim'
  <2>1. CASE reg.destroy_requested BY <2>1 DEF Claim, Owner
  <2>2. CASE ~reg.destroy_requested
    <3>1. /\ reg'.destroy_from_worker = (p = Worker)
          /\ pc' = [pc EXCEPT ![p] = IF p = Worker THEN "detach" ELSE "stop"] /\ op' = op
      BY ZenonT(30), <1>1, <2>2
    <3>2. ~life.worker_detached /\ \A q \in Callers : ~Owner(q) BY <2>2 DEF Claim
    <3>3. life' = life OBVIOUS
    <3>4. \A q \in Callers : Owner(q)' => q = p BY <3>1, <3>2 DEF Owner
    <3>5. \A q \in Callers : q # p => pc'[q] = pc[q] BY <3>1
    <3> QED BY <1>2, <3>1, <3>2, <3>3, <3>4, <3>5 DEF Claim
  <2> QED BY <2>1, <2>2
<1>9. NoUseAfterFree' BY <1>1, <1>2 DEF NoUseAfterFree
<1> HIDE DEF Types, Calls
<1> QED BY <1>3, <1>4, <1>5, <1>6, <1>7, <1>8, <1>9

(* A callback withdraws its claim. *)
LEMMA UnclaimKeeps == ASSUME IInv, NEW p \in Procs, client_unclaim_destroy(p) PROVE IInv'
<1> USE WorkerAssumption, NobodyAssumption
    DEF IInv, Types, Calls, RegType, client_unclaim_destroy, Goto, lifecycle_vars,
        transport_vars, worker_vars
<1>1. ~reg.freed /\ p = Worker BY DEF NoUseAfterFree
<1>2. /\ reg' \in RegType /\ UNCHANGED <<reg.api_callers, reg.freed>>
      /\ ~reg'.destroy_requested /\ ~reg'.destroy_from_worker
  BY Zenon
<1>3. Types' BY <1>2
<1>4. Calls' BY <1>1
<1>5. Pins'
  <2>1. Inside' = Inside BY DEF Inside
  <2> QED BY <1>2, <2>1 DEF Pins
<1>6. Locks' /\ Link' BY DEF Locks, Link
<1>7. Reaping' /\ Joiner' /\ Cancel' BY DEF Reaping, Joiner, Cancel
<1>8. Claim'
  <2>1. ~life.worker_detached /\ \A q \in Callers : ~Owner(q) BY <1>1 DEF Claim
  <2>2. /\ life' = life /\ op' = op /\ pc'[Worker] = "stop"
        /\ \A q \in Callers : pc'[q] = pc[q]
    BY <1>1
  <2>3. \A q \in Callers : ~Owner(q)' BY <2>1, <2>2 DEF Owner
  <2> QED BY <1>1, <1>2, <2>1, <2>2, <2>3 DEF Claim
<1>9. NoUseAfterFree' BY <1>1, <1>2 DEF NoUseAfterFree
<1> HIDE DEF Types, Calls
<1> QED BY SMTT(30), <1>3, <1>4, <1>5, <1>6, <1>7, <1>8, <1>9

(* Without pins every call is over, but for the destroy that frees. *)
LEMMA NobodyInside ==
    ASSUME Types, Pins, reg.api_callers = 0, NEW q \in Procs
    PROVE  pc[q] \in {"idle", "finalize"}
<1>1. Inside = {} BY Zenon, InsideFinite, FS_EmptySet DEF Pins
<1> QED BY <1>1 DEF Inside

(* The last pin is gone, and an application thread frees the client. *)
LEMMA FinalizeKeeps == ASSUME IInv, NEW p \in Procs, finalize_destroy(p) PROVE IInv'
<1> USE WorkerAssumption, NobodyAssumption
    DEF IInv, Types, Calls, RegType, finalize_destroy, Goto, lifecycle_vars,
        transport_vars, worker_vars
<1>1. p \in Callers /\ Owner(p) /\ ~life.started /\ ~life.worker_detached BY DEF Owner, Claim
<1>2. /\ reg' \in RegType /\ UNCHANGED <<reg.api_callers, reg.destroy_requested, reg.destroy_from_worker>>
      /\ reg'.freed
  BY Zenon
<1>3. \A q \in Procs : pc[q] \in {"idle", "finalize"} BY NobodyInside
<1>4. \A q \in Procs : q # p => pc[q] = "idle"
  <2>1. \A q \in Callers : pc[q] = "finalize" => q = p BY <1>1 DEF Claim, Owner
  <2> QED BY <1>3, <2>1
<1>5. pc' \in [Procs -> Places] /\ \A q \in Procs : pc'[q] = "idle" BY <1>4
<1>6. Types' BY <1>2, <1>5
<1>7. Calls' BY <1>5
<1>8. Pins'
  <2>1. Inside' = Inside BY DEF Inside
  <2> QED BY Zenon, <1>2, <2>1 DEF Pins
<1>9. Locks' /\ Link' BY <1>3, <1>5 DEF Locks, Link
<1>10. Reaping' /\ Joiner' /\ Cancel' BY <1>5 DEF Reaping, Joiner, Cancel
<1>11. Claim'
  <2>1. \A q \in Callers : ~Owner(q)' BY <1>5 DEF Owner
  <2>2. reg.destroy_requested /\ ~reg.destroy_from_worker BY <1>1 DEF Claim
  <2> QED BY <1>1, <1>2, <1>5, <2>1, <2>2 DEF Claim
<1>12. wpc \in {"none", "exited"} /\ thread # "joinable" BY <1>1 DEF Reaping
<1>13. transport = "none" /\ cancel_source = "none" BY <1>12 DEF Link, Cancel
<1>14. state_lock = Nobody /\ io_lock = Nobody BY <1>3, <1>12 DEF Locks
<1>15. NoUseAfterFree' BY <1>5, <1>12, <1>13, <1>14 DEF NoUseAfterFree
<1> HIDE DEF Types, Calls
<1> QED BY SMTT(30), <1>6, <1>7, <1>8, <1>9, <1>10, <1>11, <1>15

-----------------------------------------------------------------------------
(* Stop, join and start. *)

(* A broadcast wakes the threads in stop_wait; p goes on. *)
Wakes(p, place) ==
    /\ pc' \in [Procs -> Places] /\ pc'[p] = place
    /\ \A q \in Procs : q # p => pc'[q] = pc[q] \/ (pc[q] = "stop_wait" /\ pc'[q] = "stop_woken")

LEMMA GotoWakes ==
    ASSUME Types, NEW p \in Procs, NEW place \in Places, Goto(p, place) \/ BroadcastAndGoto(p, place)
    PROVE  Wakes(p, place) /\ (p \in Inside /\ place \notin {"idle", "finalize"} => Inside' = Inside)
BY DEF Types, Goto, BroadcastAndGoto, Wakes, Inside

(* Where stop_impl ends. *)
LEMMA AfterStopPlace ==
    ASSUME Calls, NEW p \in Procs, pc[p] \in StopPlaces
    PROVE  /\ AfterStop(p) \in {"leave", "start", "await_callers"}
           /\ AfterStop(p) = "start" => op[p] = "start"
           /\ AfterStop(p) = "await_callers" => op[p] = "destroy" /\ p \in Callers
           /\ op[p] = "destroy" /\ p \in Callers => AfterStop(p) = "await_callers"
BY WorkerAssumption DEF Calls, AfterStop

(* The worker is already stopped. *)
LEMMA StoppedKeeps ==
    ASSUME IInv, NEW p \in Procs, stop_impl(p), ~life.started PROVE IInv'
<1> USE WorkerAssumption, NobodyAssumption, AfterStopPlace
    DEF IInv, Types, Calls, lifecycle_vars, transport_vars, worker_vars
<1>1. /\ pc[p] = "stop" /\ pc' = [pc EXCEPT ![p] = AfterStop(p)]
      /\ UNCHANGED <<life, cancel_source, thread, reg, op>> /\ UNCHANGED <<transport_vars, worker_vars>>
  BY DEF stop_impl, Goto
<1> HIDE DEF AfterStop
<1>2. Types' /\ Calls' BY <1>1
<1>3. Pins'
  <2>1. Inside' = Inside BY <1>1 DEF Inside
  <2> QED BY <1>1, <2>1 DEF Pins
<1>4. Locks' /\ Link' BY SMTT(30), <1>1 DEF Locks, Link
<1>5. Reaping' /\ Joiner' /\ Cancel' BY SMTT(30), <1>1 DEF Reaping, Joiner, Cancel
<1>6. Claim' BY <1>1 DEF Claim, Owner
<1>7. NoUseAfterFree' BY <1>1 DEF NoUseAfterFree
<1> HIDE DEF Types, Calls
<1> QED BY <1>2, <1>3, <1>4, <1>5, <1>6, <1>7

(* stop asks the worker to end, and joins it if nobody else does. *)
LEMMA StopKeeps ==
    ASSUME IInv, NEW p \in Procs, stop_impl(p), life.started PROVE IInv'
<1> USE WorkerAssumption, NobodyAssumption
    DEF IInv, Types, Calls, lifecycle_vars, transport_vars, worker_vars
<1> DEFINE place == StopOutcome(p)
           joins == place = "stop_mark"
<1>1. /\ pc[p] = "stop" /\ ~life.stop_complete
      /\ UNCHANGED <<thread, reg, op>> /\ UNCHANGED <<transport_vars, worker_vars>>
  BY DEF stop_impl, Reaping
<1>2. /\ place \in {"stop_self", "stop_wait", "stop_mark"} /\ (place = "stop_self" <=> p = Worker)
      /\ joins <=> p # Worker /\ ~life.worker_detached /\ ~life.join_in_progress
  BY <1>1 DEF StopOutcome
<1> HIDE DEF place
<1>3. /\ life' \in LifeType
      /\ UNCHANGED <<life.started, life.stop_complete, life.terminal_cleanup_complete,
                     life.cancel_initialized, life.worker_detached>>
      /\ life'.join_in_progress = (life.join_in_progress \/ joins)
  <2>1. life' = [life EXCEPT !.shutdown_requested = TRUE, !.join_in_progress = @ \/ joins]
    BY DEF stop_impl, place
  <2> HIDE DEF joins
  <2>2. joins \in BOOLEAN BY DEF joins
  <2> QED BY Zenon, <2>1, <2>2 DEF LifeType
<1>4. Wakes(p, place) /\ Inside' = Inside
  BY <1>1, <1>2, GotoWakes DEF stop_impl, place, Inside
<1>5. /\ cancel_source' \in {"none", "live", "cancelled"}
      /\ ~life.cancel_initialized => cancel_source' = cancel_source
  BY DEF stop_impl
<1>6. Types' BY <1>1, <1>3, <1>4, <1>5 DEF Wakes
<1>7. Calls' BY <1>1, <1>2, <1>4 DEF Wakes
<1>8. Pins' BY <1>1, <1>4 DEF Pins
<1>9. Locks' /\ Link' BY <1>1, <1>2, <1>4 DEF Wakes, Locks, Link
<1>10. Reaping' BY Zenon, <1>1, <1>3 DEF Reaping
<1>11. Joiner'
  <2>1. joins => thread = "joinable" /\ \A q \in Procs : pc[q] \notin Joining
    BY <1>2 DEF Joiner, Reaping
  <2>2. \A q \in Procs : pc'[q] \in Joining => pc'[q] = pc[q] \/ (q = p /\ joins /\ pc'[q] = "stop_mark")
    BY <1>2, <1>4 DEF Wakes
  <2>3. life'.join_in_progress => life'.started /\ ~life'.worker_detached BY Zenon, <1>2, <1>3 DEF Joiner
  <2>4. \A q \in Procs : pc'[q] \in Joining => life'.join_in_progress BY Zenon, <1>3, <2>2 DEF Joiner
  <2>5. \A q \in Procs : /\ pc'[q] \in {"stop_mark", "stop_join"} => thread = "joinable"
                         /\ pc'[q] = "stop_joined" => wpc = "exited" /\ thread = "joined"
    BY <2>1, <2>2 DEF Joiner
  <2>6. \A q, r \in Procs : pc'[q] \in Joining /\ pc'[r] \in Joining => q = r
    BY <2>1, <2>2 DEF Joiner
  <2> QED BY <1>1, <2>3, <2>4, <2>5, <2>6 DEF Joiner
<1>12. Cancel' BY SMTT(30), <1>1, <1>3, <1>5 DEF Cancel
<1>13. Claim'
  <2>1. \A q \in Callers : Owner(q)' => Owner(q) BY <1>1, <1>2, <1>4 DEF Wakes, Owner
  <2> QED BY SMTT(30), <1>1, <1>2, <1>3, <1>4, <2>1 DEF Wakes, Claim
<1>14. NoUseAfterFree' BY <1>1 DEF NoUseAfterFree
<1> HIDE DEF Types, Calls, joins
<1> QED BY SMTT(30), <1>6, <1>7, <1>8, <1>9, <1>10, <1>11, <1>12, <1>13, <1>14

LEMMA JoinKeeps == ASSUME IInv, NEW p \in Procs, pthread_join(p) PROVE IInv'
<1> USE WorkerAssumption, NobodyAssumption
    DEF IInv, Types, Calls, pthread_join, Goto, lifecycle_vars, transport_vars, worker_vars
<1>1. Types' /\ Calls' OBVIOUS
<1>2. Pins'
  <2>1. Inside' = Inside BY DEF Inside
  <2> QED BY <2>1 DEF Pins
<1>3. Locks' /\ Link' BY DEF Locks, Link
<1>4. Reaping' BY DEF Reaping, Joiner
<1>5. Joiner' BY DEF Joiner
<1>6. Cancel' /\ NoUseAfterFree' BY DEF Cancel, NoUseAfterFree
<1>7. Claim' BY DEF Claim, Owner
<1> HIDE DEF Types, Calls
<1> QED BY SMTT(30), <1>1, <1>2, <1>3, <1>4, <1>5, <1>6, <1>7

(* The join is over; terminal_cleanup_complete is set, since the worker    *)
(* has exited.                                                             *)
LEMMA StopFinishKeeps == ASSUME IInv, NEW p \in Procs, stop_finish(p) PROVE IInv'
<1> USE WorkerAssumption, NobodyAssumption
    DEF IInv, Types, Calls, lifecycle_vars, transport_vars, worker_vars
<1>1. /\ pc[p] = "stop_joined" /\ wpc = "exited" /\ thread = "joined" /\ life.started
      /\ life.terminal_cleanup_complete /\ ~life.worker_detached
      /\ UNCHANGED <<cancel_source, thread, reg, op>> /\ UNCHANGED <<transport_vars, worker_vars>>
  BY DEF stop_finish, Reaping, Joiner
<1>2. /\ life' \in LifeType /\ ~life'.started /\ life'.stop_complete /\ ~life'.join_in_progress
      /\ UNCHANGED <<life.terminal_cleanup_complete, life.cancel_initialized, life.worker_detached>>
  <2>1. life' = [life EXCEPT !.started = FALSE, !.stop_complete = TRUE, !.join_in_progress = FALSE]
    BY SMTT(30), <1>1 DEF stop_finish
  <2> QED BY ZenonT(30), <2>1 DEF LifeType
<1>3. Wakes(p, AfterStop(p)) /\ Inside' = Inside
  BY <1>1, AfterStopPlace, GotoWakes DEF stop_finish, Inside
<1>4. Types' BY SMTT(30), <1>1, <1>2, <1>3 DEF Wakes
<1>5. Calls' BY <1>1, <1>3, AfterStopPlace DEF Wakes
<1>6. Pins' BY <1>1, <1>3 DEF Pins
<1>7. Locks' /\ Link' BY <1>1, <1>3, AfterStopPlace DEF Wakes, Locks, Link
<1>8. Reaping' BY <1>1, <1>2 DEF Reaping
<1>9. Joiner'
  <2>1. \A q \in Procs : pc'[q] \notin Joining BY <1>1, <1>3, AfterStopPlace DEF Wakes, Joiner
  <2> QED BY <1>2, <2>1 DEF Joiner
<1>10. Cancel' BY SMTT(30), <1>1, <1>2 DEF Cancel
<1>11. Claim'
  <2>1. \A q \in Callers : Owner(q)' => Owner(q) BY <1>1, <1>3, AfterStopPlace DEF Wakes, Owner
  <2> QED BY SMTT(30), <1>1, <1>2, <1>3, <2>1, AfterStopPlace DEF Wakes, Claim
<1>12. NoUseAfterFree' BY <1>1 DEF NoUseAfterFree
<1> HIDE DEF Types, Calls
<1> QED BY SMTT(30), <1>4, <1>5, <1>6, <1>7, <1>8, <1>9, <1>10, <1>11, <1>12

(* A new worker, or none. *)
LEMMA StartKeeps == ASSUME IInv, NEW p \in Procs, start_commit(p) PROVE IInv'
<1> USE WorkerAssumption, NobodyAssumption
    DEF IInv, Types, Calls, lifecycle_vars, transport_vars, worker_vars
<1>1. /\ pc[p] = "start_commit" /\ ~life.started /\ ~reg.destroy_requested
      /\ pc' = [pc EXCEPT ![p] = "leave"]
      /\ UNCHANGED <<reg, op>> /\ UNCHANGED transport_vars /\ after' = after
  BY DEF start_commit, Goto
<1>2. /\ p # Worker /\ pc[Worker] = "idle" /\ ~reg.freed
      /\ ~life.worker_detached /\ wpc \in {"none", "exited"} /\ thread \in {"none", "joined"}
      /\ \A q \in Procs : pc[q] \notin Joining
  BY <1>1 DEF Reaping, Joiner, Claim
<1>3. /\ life' \in LifeType /\ ~life'.worker_detached /\ ~life'.join_in_progress
      /\ cancel_source' \in {"none", "live", "cancelled"}
      /\ \/ /\ ~life'.started /\ ~life'.cancel_initialized /\ cancel_source' = "none"
            /\ UNCHANGED <<thread, wpc>>
         \/ /\ life'.started /\ ~life'.stop_complete /\ life'.cancel_initialized
            /\ thread' = "joinable" /\ wpc' = "top"
  <2>1. CASE UNCHANGED <<life, cancel_source, thread, wpc>>
    BY <1>1, <1>2, <2>1 DEF Cancel, Joiner
  <2>2. CASE /\ life' = [life EXCEPT !.cancel_initialized = FALSE, !.shutdown_requested = FALSE,
                           !.stop_complete = TRUE, !.terminal_cleanup_complete = FALSE,
                           !.worker_detached = FALSE, !.join_in_progress = FALSE]
             /\ cancel_source' = "none" /\ UNCHANGED <<thread, wpc>>
    BY Zenon, <1>1, <2>2 DEF LifeType
  <2>3. CASE /\ life' = [life EXCEPT !.cancel_initialized = TRUE, !.shutdown_requested = FALSE,
                           !.stop_complete = FALSE, !.terminal_cleanup_complete = FALSE,
                           !.worker_detached = FALSE, !.join_in_progress = FALSE, !.started = TRUE]
             /\ cancel_source' = "live" /\ thread' = "joinable" /\ wpc' = "top"
    BY Zenon, <2>3 DEF LifeType
  <2> QED BY <2>1, <2>2, <2>3 DEF start_commit
<1>4. Types' BY <1>1, <1>2, <1>3
<1>5. Calls' BY <1>1, <1>2, <1>3
<1>6. Pins'
  <2>1. Inside' = Inside BY <1>1 DEF Inside
  <2> QED BY <1>1, <2>1 DEF Pins
<1>7. Locks' /\ Link' BY SMTT(30), <1>1, <1>2, <1>3 DEF Locks, Link
<1>8. Reaping' BY SMTT(30), <1>1, <1>2, <1>3 DEF Reaping
<1>9. Joiner' BY <1>1, <1>2, <1>3 DEF Joiner
<1>10. Cancel' BY SMTT(30), <1>2, <1>3 DEF Cancel
<1>11. Claim' BY <1>1, <1>2, <1>3 DEF Claim, Owner
<1>12. NoUseAfterFree' BY SMTT(30), <1>1, <1>2 DEF NoUseAfterFree
<1> HIDE DEF Types, Calls
<1> QED BY SMTT(30), <1>4, <1>5, <1>6, <1>7, <1>8, <1>9, <1>10, <1>11, <1>12

(* A callback that destroys detaches its own thread, if nobody joins it. *)
LEMMA DetachKeeps == ASSUME IInv, NEW p \in Procs, detach(p) PROVE IInv'
<1> USE WorkerAssumption, NobodyAssumption
    DEF IInv, Types, Calls, detach, Goto, lifecycle_vars, transport_vars, worker_vars
<1>1. /\ p = Worker /\ wpc \in Callbacks /\ life.started /\ ~life.stop_complete /\ reg.destroy_from_worker
      /\ ~life.worker_detached
  BY DEF Reaping, Claim
<1>2. CASE life.join_in_progress
  <2>1. UNCHANGED <<life, thread>> /\ pc' = [pc EXCEPT ![p] = "unclaim"] BY <1>2
  <2>2. Inside' = Inside BY <2>1 DEF Inside
  <2>3. Types' /\ Calls' /\ Pins' BY <1>1, <2>1, <2>2 DEF Pins
  <2>4. Locks' /\ Link' BY SMTT(30), <2>1 DEF Locks, Link
  <2>5. Reaping' /\ Joiner' /\ Cancel' BY SMTT(30), <2>1 DEF Reaping, Joiner, Cancel
  <2>6. Claim' /\ NoUseAfterFree' BY <1>1, <2>1 DEF Claim, Owner, NoUseAfterFree
  <2> QED BY <2>3, <2>4, <2>5, <2>6
<1>3. CASE ~life.join_in_progress
  <2>1. /\ life' \in LifeType /\ life'.worker_detached /\ thread' = "detached"
        /\ UNCHANGED <<life.started, life.stop_complete, life.terminal_cleanup_complete,
                       life.cancel_initialized, life.join_in_progress>>
        /\ pc' = [pc EXCEPT ![p] = "stop"]
    <3>1. life' = [life EXCEPT !.worker_detached = TRUE] BY <1>3
    <3> QED BY Zenon, <1>1, <1>3, <3>1 DEF LifeType
  <2>2. Inside' = Inside BY <2>1 DEF Inside
  <2>3. Types' /\ Calls' /\ Pins' BY SMTT(30), <1>1, <2>1, <2>2 DEF Pins
  <2>4. Locks' /\ Link' BY SMTT(30), <2>1 DEF Locks, Link
  <2>5. Reaping' /\ Joiner' BY SMTT(30), <1>1, <1>3, <2>1 DEF Reaping, Joiner
  <2>6. Cancel' /\ NoUseAfterFree' BY <2>1 DEF Cancel, NoUseAfterFree
  <2>7. Claim' BY <1>1, <2>1 DEF Claim, Owner
  <2> QED BY <2>3, <2>4, <2>5, <2>6, <2>7
<1> HIDE DEF Types, Calls
<1> QED BY <1>2, <1>3

-----------------------------------------------------------------------------
(* The end of the worker. *)

LEMMA CleanupKeeps == ASSUME IInv, mark_claim_cancel \/ mark_destroy_cancel PROVE IInv'
<1> USE WorkerAssumption, NobodyAssumption
    DEF IInv, Types, Calls, WorkerGoto, lifecycle_vars, transport_vars, api_vars
<1>1. /\ wpc \in {"cleanup", "destroy_cancel"} /\ wpc' \in {"destroy_cancel", "publish"}
      /\ UNCHANGED <<thread, reg, pc, op>> /\ UNCHANGED transport_vars
  BY DEF mark_claim_cancel, mark_destroy_cancel
<1>2. /\ life' \in LifeType /\ ~life'.cancel_initialized
      /\ UNCHANGED <<life.started, life.stop_complete, life.terminal_cleanup_complete,
                     life.worker_detached, life.join_in_progress>>
  BY ZenonT(30) DEF mark_claim_cancel, mark_destroy_cancel, LifeType, Cancel
<1>3. /\ cancel_source' \in {"none", "live", "cancelled"}
      /\ wpc' # "destroy_cancel" => cancel_source' = "none"
  BY DEF mark_claim_cancel, mark_destroy_cancel, Cancel
<1>4. Types' /\ Calls' BY <1>1, <1>2, <1>3
<1>5. Pins' BY <1>1 DEF Pins, Inside
<1>6. Locks' /\ Link' BY <1>1 DEF Locks, Link
<1>7. Reaping' /\ Joiner' BY <1>1, <1>2 DEF Reaping, Joiner
<1>8. Cancel' BY SMTT(30), <1>1, <1>2, <1>3 DEF Cancel
<1>9. Claim' BY <1>1, <1>2 DEF Claim, Owner
<1>10. NoUseAfterFree' BY SMTT(30), <1>1 DEF NoUseAfterFree
<1> HIDE DEF Types, Calls
<1> QED BY <1>4, <1>5, <1>6, <1>7, <1>8, <1>9, <1>10

LEMMA FinishedKeeps == ASSUME IInv, worker_mark_finished PROVE IInv'
<1> USE WorkerAssumption, NobodyAssumption
    DEF IInv, Types, Calls, lifecycle_vars, transport_vars, api_vars
<1>1. /\ wpc = "publish" /\ pc[Worker] = "idle" /\ wpc' \in {"finalize", "exited"}
      /\ wpc' = "finalize" <=> reg.destroy_from_worker
      /\ UNCHANGED <<cancel_source, thread, reg, op>> /\ UNCHANGED transport_vars
  BY DEF worker_mark_finished, WorkerGoto
<1>2. /\ life.started /\ ~life.cancel_initialized /\ cancel_source = "none"
      /\ reg.destroy_from_worker <=> life.worker_detached
      /\ thread = IF life.worker_detached THEN "detached" ELSE "joinable"
  BY <1>1 DEF Reaping, Cancel, Claim
<1>3. /\ life' \in LifeType /\ life'.terminal_cleanup_complete
      /\ life'.started = ~life.worker_detached /\ (life'.stop_complete => life.worker_detached)
      /\ UNCHANGED <<life.cancel_initialized, life.worker_detached, life.join_in_progress>>
  BY Zenon, <1>2 DEF worker_mark_finished, LifeType, Reaping
<1>4. Wakes(Worker, "idle") BY GotoWakes DEF worker_mark_finished
<1>5. Inside' = Inside BY <1>1, <1>4 DEF Wakes, Inside
<1>6. Types' /\ Calls' BY <1>1, <1>3, <1>4 DEF Wakes
<1>7. Pins' BY <1>1, <1>5 DEF Pins
<1>8. Locks' /\ Link' BY SMTT(30), <1>1, <1>4 DEF Wakes, Locks, Link
<1>9. Reaping' BY Zenon, <1>1, <1>2, <1>3 DEF Reaping
<1>10. Joiner'
  <2>1. \A q \in Procs : pc'[q] \in Joining => pc[q] = pc'[q] BY <1>4 DEF Wakes
  <2> QED BY ZenonT(30), <1>1, <1>2, <1>3, <2>1 DEF Joiner
<1>11. Cancel' BY SMTT(30), <1>1, <1>2, <1>3 DEF Cancel
<1>12. Claim'
  <2>1. \A q \in Callers : Owner(q)' => Owner(q) BY <1>1, <1>4 DEF Wakes, Owner
  <2> QED BY SMTT(30), <1>1, <1>2, <1>3, <1>4, <2>1 DEF Wakes, Claim
<1>13. NoUseAfterFree' BY <1>1 DEF NoUseAfterFree
<1> HIDE DEF Types, Calls
<1> QED BY SMTT(30), <1>6, <1>7, <1>8, <1>9, <1>10, <1>11, <1>12, <1>13

(* A detached worker frees the client once the last pin is gone. *)
LEMMA WorkerFinalizeKeeps == ASSUME IInv, worker_finalize_destroy PROVE IInv'
<1> USE WorkerAssumption, NobodyAssumption
    DEF IInv, Types, Calls, worker_finalize_destroy, WorkerGoto, lifecycle_vars, transport_vars
<1>1. /\ wpc = "finalize" /\ wpc' = "exited" /\ life.worker_detached /\ ~life.started
      /\ reg.destroy_requested /\ reg.destroy_from_worker /\ thread = "detached"
  BY DEF Reaping, Claim
<1>2. /\ reg' \in RegType /\ UNCHANGED <<reg.api_callers, reg.destroy_requested, reg.destroy_from_worker>>
      /\ reg'.freed
  BY Zenon DEF RegType
<1>3. \A q \in Procs : pc[q] = "idle"
  <2>1. \A q \in Callers : ~Owner(q) BY <1>1 DEF Claim
  <2>2. \A q \in Procs : pc[q] # "finalize" BY <2>1 DEF Owner
  <2> QED BY <2>2, NobodyInside
<1>4. Types' /\ Calls' BY <1>1, <1>2
<1>5. Pins' BY <1>2 DEF Pins, Inside
<1>6. Locks' /\ Link' BY <1>1 DEF Locks, Link
<1>7. Reaping' /\ Joiner' /\ Cancel' BY <1>1, <1>3 DEF Reaping, Joiner, Cancel
<1>8. Claim' BY <1>1, <1>2, <1>3 DEF Claim, Owner
<1>9. state_lock = Nobody /\ io_lock = Nobody BY <1>1, <1>3 DEF Locks
<1>10. transport = "none" /\ cancel_source = "none" BY <1>1 DEF Link, Cancel
<1>11. NoUseAfterFree' BY <1>1, <1>3, <1>9, <1>10 DEF NoUseAfterFree
<1> HIDE DEF Types, Calls
<1> QED BY SMTT(30), <1>4, <1>5, <1>6, <1>7, <1>8, <1>11

-----------------------------------------------------------------------------
(* destroy_gave_up is not in the invariant. *)
LEMMA FrameKeeps ==
    ASSUME IInv, UNCHANGED <<lifecycle_vars, reg, transport_vars, worker_vars, pc, op>>
    PROVE  IInv'
<1> USE DEF lifecycle_vars, transport_vars, worker_vars
<1>1. Types' BY DEF IInv, Types
<1>2. Calls' BY DEF IInv, Calls
<1>3. Pins' BY DEF IInv, Pins, Inside
<1>4. Locks' BY DEF IInv, Locks
<1>5. Link' BY DEF IInv, Link
<1>6. Reaping' /\ Cancel' BY DEF IInv, Reaping, Cancel
<1>7. Joiner' BY DEF IInv, Joiner
<1>8. Claim' BY DEF IInv, Claim, Owner
<1>9. NoUseAfterFree' BY DEF IInv, NoUseAfterFree
<1> QED BY <1>1, <1>2, <1>3, <1>4, <1>5, <1>6, <1>7, <1>8, <1>9 DEF IInv

(* Every step keeps the invariant. *)
LEMMA NextIInv == IInv /\ [Next]_vars => IInv'
<1> SUFFICES ASSUME IInv, [Next]_vars PROVE IInv' OBVIOUS
<1>1. ASSUME NEW p \in Procs, CallStep(p) PROVE IInv'
  <2>1. CASE Quiet(p) \/ Locking(p) BY <2>1, QuietKeeps, LockingKeeps
  <2>2. CASE client_leave(p) \/ wait_for_other_api_callers(p) BY <2>2, LeaveKeeps
  <2>3. CASE client_claim_destroy(p) \/ client_unclaim_destroy(p) \/ finalize_destroy(p)
    BY <2>3, ClaimKeeps, UnclaimKeeps, FinalizeKeeps
  <2>4. CASE stop_impl(p) BY <2>4, StoppedKeeps, StopKeeps
  <2>5. CASE pthread_join(p) \/ stop_finish(p) BY <2>5, JoinKeeps, StopFinishKeeps
  <2>6. CASE start_commit(p) \/ detach(p) BY <2>6, StartKeeps, DetachKeeps
  <2> QED BY <1>1, <2>1, <2>2, <2>3, <2>4, <2>5, <2>6 DEF CallStep, Quiet, Locking
<1>2. ASSUME NEW p \in Procs, Invoke(p) PROVE IInv'
  <2>1. PICK o \in Operations : client_enter(p, o) \/ client_rejected(p, o)
    BY <1>2, OpsAssumption DEF Invoke
  <2>2. CASE client_enter(p, o) BY <2>2, EnterKeeps
  <2>3. CASE client_rejected(p, o) BY <2>3, FrameKeeps DEF client_rejected
  <2> QED BY <2>1, <2>2, <2>3
<1>3. CASE WorkerStep \/ callback_returns
  BY <1>3, WorkerQuietKeeps, WorkerLinkKeeps, CleanupKeeps, FinishedKeeps, WorkerFinalizeKeeps
     DEF WorkerStep, WorkerQuiet, WorkerLink
<1>4. CASE UNCHANGED vars BY <1>4, FrameKeeps DEF vars
<1> QED BY <1>1, <1>2, <1>3, <1>4 DEF Next

(* The inductive invariant holds, whoever calls what and when. *)
THEOREM Invariance == SafeSpec => []IInv
BY InitIInv, NextIInv, PTL DEF SafeSpec

(* Whoever is inside the transport's send or recv has it open and to       *)
(* itself: io_lock pins it against close_transport, and the handshake,     *)
(* which takes no lock, cannot meet a send.                                *)
THEOREM TransportIsPinned == SafeSpec => []TransportPinned
<1>1. IInv => TransportPinned
  <2> SUFFICES ASSUME IInv PROVE TransportPinned OBVIOUS
  <2>1. \A p \in Sending : io_lock = p /\ wpc \in Serving \union Closing /\ transport = "open"
    BY DEF IInv, Locks, Link, Sending
  <2>2. WorkerInIo => transport = "open" BY DEF IInv, Types, Link, WorkerInIo
  <2>3. WorkerInIo => Sending = {}
    <3> SUFFICES ASSUME WorkerInIo, NEW p \in Sending PROVE FALSE OBVIOUS
    <3>1. wpc = "receiving" BY <2>1 DEF WorkerInIo
    <3>2. p = Worker /\ pc[Worker] = "sending" BY <2>1, <3>1 DEF IInv, Locks, Sending
    <3> QED BY <3>1, <3>2 DEF IInv, Calls
  <2>4. Cardinality(Sending) <= 1
    <3>1. CASE Sending = {} BY <3>1, FS_EmptySet
    <3>2. CASE Sending # {}
      <4>1. PICK p \in Sending : TRUE BY <3>2
      <4>2. Sending = {p} BY <2>1, <4>1
      <4>3. Cardinality({p}) = 1 BY FS_Singleton
      <4> QED BY <4>2, <4>3
    <3> QED BY <3>1, <3>2
  <2>5. wpc = "set_connected" => transport = "none" BY DEF IInv, Types, Link
  <2> QED BY <2>1, <2>2, <2>3, <2>4, <2>5 DEF TransportPinned
<1> QED BY <1>1, Invariance, PTL

(* The client is freed only when nothing can use it any more. *)
THEOREM NothingUsedAfterFree == SafeSpec => []NoUseAfterFree
<1>1. IInv => NoUseAfterFree BY DEF IInv
<1> QED BY <1>1, Invariance, PTL

(* stop_complete is set only when the worker, its transport and its cancel *)
(* source are gone, and the join that sets it has found the cleanup done.  *)
THEOREM StopIsQuiescent == SafeSpec => []StopCompleteMeansQuiescent
<1>1. IInv => StopCompleteMeansQuiescent
  <2> SUFFICES ASSUME IInv PROVE StopCompleteMeansQuiescent OBVIOUS
  <2>1. life.stop_complete => wpc \in Ended BY DEF IInv, Reaping
  <2>2. wpc \in Ended => /\ transport = "none" /\ connection_state = "DISCONNECTED"
                         /\ cancel_source = "none" /\ ~life.cancel_initialized
    BY DEF IInv, Types, Link, Cancel
  <2>3. \A p \in Procs : pc[p] = "stop_joined" => life.terminal_cleanup_complete /\ life.join_in_progress
    BY DEF IInv, Reaping, Joiner
  <2> QED BY <2>1, <2>2, <2>3 DEF StopCompleteMeansQuiescent
<1> QED BY <1>1, Invariance, PTL

(* Each worker thread is reaped once, by pthread_join or pthread_detach,   *)
(* and a new one is created only when the old one has ended.               *)
THEOREM WorkersReapedOnce == SafeSpec => WorkerReapedOnce
<1> DEFINE Changes == {<<"none", "joinable">>, <<"joinable", "joined">>, <<"joinable", "detached">>,
                       <<"joined", "joinable">>}
           Reaps == /\ thread' # thread => <<thread, thread'>> \in Changes
                    /\ (\E c \in Callers : pc[c] = "stop_join") => thread = "joinable"
                    /\ thread' = "joinable" /\ thread # "joinable" => wpc \in {"none", "exited"}
<1>1. IInv /\ [Next]_vars => Reaps
  <2> SUFFICES ASSUME IInv, [Next]_vars PROVE Reaps OBVIOUS
  <2>1. (\E c \in Callers : pc[c] = "stop_join") => thread = "joinable" BY DEF IInv, Joiner
  <2>2. CASE thread' = thread BY <2>1, <2>2
  <2>3. ASSUME NEW p \in Procs, pthread_join(p) PROVE thread = "joinable" /\ thread' = "joined"
    BY <2>3 DEF pthread_join, IInv, Joiner
  <2>4. ASSUME NEW p \in Procs, detach(p)
        PROVE  thread' = thread \/ (thread = "joinable" /\ thread' = "detached")
    <3>1. p = Worker /\ wpc \in Callbacks /\ ~life.worker_detached
      BY <2>4 DEF detach, IInv, Calls, Claim
    <3>2. thread = "joinable" BY <3>1 DEF IInv, Reaping
    <3> QED BY <2>4, <3>2 DEF detach
  <2>5. ASSUME NEW p \in Procs, start_commit(p)
        PROVE  \/ thread' = thread
               \/ thread \in {"none", "joined"} /\ thread' = "joinable" /\ wpc \in {"none", "exited"}
    <3>1. ~life.started /\ ~life.worker_detached BY <2>5 DEF start_commit, IInv, Claim
    <3>2. wpc \in {"none", "exited"} /\ thread \in {"none", "joined"} BY <3>1 DEF IInv, Reaping
    <3> QED BY <2>5, <3>2 DEF start_commit, lifecycle_vars
  <2>6. CASE thread' # thread
    <3>1. PICK p \in Procs : pthread_join(p) \/ detach(p) \/ start_commit(p)
      BY ZenonT(30), <2>6
      DEF Next, vars, Invoke, client_enter, client_rejected, CallStep, client_leave, stop_impl,
          mark_transport_stopping, stop_finish, stop_wait, start_check, start_peek, start_refused,
          send_validate, send_check, send_lock_io, send_done, is_connected, client_claim_destroy,
          client_unclaim_destroy, wait_for_other_api_callers, finalize_destroy, WorkerStep,
          worker_top, connector, interruptible_backoff_sleep, set_transport_connected,
          check_shutdown, handshake_build, handshake_begin, handshake_send, handshake_end, tracker_on_connected,
          recv_check, recv_lock_state, recv_lock_io, recv_done, close_lock_state, close_transport,
          mark_claim_cancel, mark_destroy_cancel, worker_mark_finished, worker_finalize_destroy,
          callback_returns, lifecycle_vars
    <3> QED BY SMTT(30), <2>1, <2>3, <2>4, <2>5, <2>6, <3>1
  <2> QED BY <2>2, <2>6
<1> QED BY <1>1, Invariance, PTL DEF SafeSpec, WorkerReapedOnce
=============================================================================
