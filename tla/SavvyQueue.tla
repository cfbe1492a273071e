----------------------------- MODULE SavvyQueue -----------------------------
(***************************************************************************)
(* src/core/queue.c: savvy_queue_t, a ring buffer under one mutex with two *)
(* condition variables.  Everything between acquiring the mutex and        *)
(* releasing it (by unlock or by pthread_cond_wait) is one step.  A thread *)
(* woken on a condition variable must take the mutex again, so waking it   *)
(* only moves it back to the head of its while loop.                       *)
(***************************************************************************)
EXTENDS Integers, Sequences, FiniteSets

CONSTANTS Threads,   \* the threads that call the queue
          Items,     \* the items, by identity
          Capacity,  \* q->capacity
          NoItem     \* not an item: the contents of a slot never written

ASSUME CapacityAssumption == Capacity \in Nat \ {0}
ASSUME ThreadsAssumption == IsFiniteSet(Threads)
ASSUME NoItemAssumption == NoItem \notin Items

VARIABLES storage, head, count, closed, \* the fields of savvy_queue_t
          destroyed, \* savvy_queue_destroy() has run
          pc,        \* where each thread is: see Places
          item,      \* item[t]: the item t pushes, or the one its pop returned
          ret,       \* ret[t]: the status of t's last finished call
          freed      \* the items q->item_destroy_fn has been run on

vars == <<storage, head, count, closed, destroyed, pc, item, ret, freed>>

(* "push" and "pop": at the head of the while loop, contending for the     *)
(* mutex.  "not_full" and "not_empty": blocked on that condition variable. *)
Places == {"idle", "push", "not_full", "pop", "not_empty"}

At(place) == {t \in Threads : pc[t] = place}

Slot(i) == (head + i) % Capacity

(* The buffered items, oldest first. *)
Buffered == [i \in 1..count |-> storage[Slot(i - 1)]]

Contained == {storage[Slot(i)] : i \in 0..(count - 1)}

(* The threads inside a push, and the items they hold. *)
Producers == At("push") \union At("not_full")

Pushing == {item[t] : t \in Producers}

(* The items some caller owns and may push. *)
Available == Items \ (Contained \union Pushing \union freed)

Init == /\ storage = [i \in 0..(Capacity - 1) |-> NoItem]
        /\ head = 0 /\ count = 0 /\ closed = FALSE /\ destroyed = FALSE
        /\ pc = [t \in Threads |-> "idle"]
        /\ item = [t \in Threads |-> NoItem]
        /\ ret = [t \in Threads |-> "none"]
        /\ freed = {}

-----------------------------------------------------------------------------
(* Mutant: the signal is forgotten. *)
Signal_none(p, cv, loop) == {p}

(* pthread_cond_signal(cv): the program counters it can leave, from p, when *)
(* the threads blocked on cv resume at loop.                               *)
Signal(p, cv, loop) ==
    LET blocked == {t \in Threads : p[t] = cv}
    IN  IF blocked = {} THEN {p} ELSE {[p EXCEPT ![t] = loop] : t \in blocked}

(* pthread_cond_broadcast on both condition variables. *)
BroadcastBoth == [t \in Threads |-> CASE pc[t] = "not_empty" -> "pop"
                                      [] pc[t] = "not_full" -> "push"
                                      [] OTHER -> pc[t]]

(* The call of t returns status; pops hand x over. *)
Returns(t, status, x) ==
    /\ item' = [item EXCEPT ![t] = x]
    /\ ret' = [ret EXCEPT ![t] = status]

Idle(t) == [pc EXCEPT ![t] = "idle"]

Rejected(t, status) ==
    /\ pc' = Idle(t) /\ Returns(t, status, NoItem)
    /\ UNCHANGED <<storage, head, count>>

(* The tail of push and of try_push, once there is room. *)
Store(t, x) ==
    /\ storage' = [storage EXCEPT ![Slot(count)] = x]
    /\ count' = count + 1
    /\ pc' \in Signal(Idle(t), "not_empty", "pop")
    /\ Returns(t, "OK", NoItem)
    /\ UNCHANGED head

(* The tail of pop, once there is an item. *)
Take(t) ==
    /\ head' = (head + 1) % Capacity
    /\ count' = count - 1
    /\ pc' \in Signal(Idle(t), "not_full", "push")
    /\ Returns(t, "OK", storage[head])
    /\ UNCHANGED storage

Invoke(t, loop, x) ==
    /\ ~destroyed /\ pc[t] = "idle"
    /\ pc' = [pc EXCEPT ![t] = loop]
    /\ Returns(t, "none", x)
    /\ UNCHANGED <<storage, head, count, closed, destroyed, freed>>

Wait(t, cv) ==
    /\ pc' = [pc EXCEPT ![t] = cv]
    /\ UNCHANGED <<storage, head, count, item, ret>>

push(t) ==
    /\ pc[t] = "push"
    /\ \/ count = Capacity /\ ~closed /\ Wait(t, "not_full")
       \/ closed /\ Rejected(t, "CLOSED")
       \/ count # Capacity /\ ~closed /\ Store(t, item[t])
    /\ UNCHANGED <<closed, destroyed, freed>>

(* Mutant: try_push without the capacity check. *)
try_push_unbounded(t, x) ==
    /\ ~destroyed /\ pc[t] = "idle"
    /\ \/ closed /\ Rejected(t, "CLOSED")
       \/ ~closed /\ Store(t, x)
    /\ UNCHANGED <<closed, destroyed, freed>>

try_push(t, x) ==
    /\ ~destroyed /\ pc[t] = "idle"
    /\ \/ closed /\ Rejected(t, "CLOSED")
       \/ ~closed /\ count = Capacity /\ Rejected(t, "OVERFLOW")
       \/ ~closed /\ count # Capacity /\ Store(t, x)
    /\ UNCHANGED <<closed, destroyed, freed>>

(* Mutant: pop gives up on a closed queue before it is drained. *)
pop_undrained(t) ==
    /\ pc[t] = "pop"
    /\ \/ count = 0 /\ ~closed /\ Wait(t, "not_empty")
       \/ closed /\ Rejected(t, "CLOSED")
       \/ count # 0 /\ ~closed /\ Take(t)
    /\ UNCHANGED <<closed, destroyed, freed>>

pop(t) ==
    /\ pc[t] = "pop"
    /\ \/ count = 0 /\ ~closed /\ Wait(t, "not_empty")
       \/ count = 0 /\ closed /\ Rejected(t, "CLOSED")
       \/ count # 0 /\ Take(t)
    /\ UNCHANGED <<closed, destroyed, freed>>

close ==
    /\ ~destroyed
    /\ closed' = TRUE
    /\ pc' = BroadcastBoth
    /\ UNCHANGED <<storage, head, count, destroyed, item, ret, freed>>

(* Mutant: cancel frees the items and leaves them in the ring. *)
cancel_keeps_items ==
    /\ ~destroyed
    /\ freed' = freed \union Contained
    /\ closed' = TRUE
    /\ pc' = BroadcastBoth
    /\ UNCHANGED <<storage, head, count, destroyed, item, ret>>

cancel ==
    /\ ~destroyed
    /\ freed' = freed \union Contained
    /\ closed' = TRUE /\ count' = 0 /\ head' = 0
    /\ pc' = BroadcastBoth
    /\ UNCHANGED <<storage, destroyed, item, ret>>

(* The owner calls this once nobody is inside the queue. *)
destroy ==
    /\ ~destroyed /\ At("idle") = Threads
    /\ freed' = freed \union Contained
    /\ destroyed' = TRUE
    /\ UNCHANGED <<storage, head, count, closed, pc, item, ret>>

(* POSIX lets pthread_cond_wait return without a signal. *)
SpuriousWakeup(t) ==
    /\ \/ pc[t] = "not_full" /\ pc' = [pc EXCEPT ![t] = "push"]
       \/ pc[t] = "not_empty" /\ pc' = [pc EXCEPT ![t] = "pop"]
    /\ UNCHANGED <<storage, head, count, closed, destroyed, item, ret, freed>>

Next == \/ \E t \in Threads :
             \/ \E x \in Available : Invoke(t, "push", x) \/ try_push(t, x)
             \/ Invoke(t, "pop", NoItem)
             \/ push(t) \/ pop(t) \/ SpuriousWakeup(t)
        \/ close \/ cancel \/ destroy

(* Every thread contending for the mutex gets it in the end.  Nothing is   *)
(* assumed of callers outside a call, nor of spurious wake-ups.            *)
Fairness == \A t \in Threads : WF_vars(push(t)) /\ WF_vars(pop(t))

SafeSpec == Init /\ [][Next]_vars

Spec == SafeSpec /\ Fairness

-----------------------------------------------------------------------------
(* The types of the fields: in particular head and count stay inside the   *)
(* ring buffer.                                                            *)
TypeOK ==
    /\ storage \in [0..(Capacity - 1) -> Items \union {NoItem}]
    /\ head \in 0..(Capacity - 1) /\ count \in 0..Capacity
    /\ closed \in BOOLEAN /\ destroyed \in BOOLEAN
    /\ pc \in [Threads -> Places]
    /\ item \in [Threads -> Items \union {NoItem}]
    /\ ret \in [Threads -> {"none", "OK", "OVERFLOW", "CLOSED"}]
    /\ freed \in SUBSET Items

(* No wake-up is lost, although push, try_push and pop use signal and not  *)
(* broadcast: as long as a consumer is blocked, as many consumers as there *)
(* are buffered items are already on their way to the mutex, as long as a  *)
(* producer is blocked as many producers as there are free slots, and      *)
(* nobody is blocked on a closed queue.                                    *)
NoLostWakeup ==
    /\ At("not_empty") # {} => Cardinality(At("pop")) >= count
    /\ At("not_full") # {} => Cardinality(At("push")) >= Capacity - count
    /\ closed => At("not_empty") = {} /\ At("not_full") = {}

(* An item has one owner: the live slots of the ring hold different items  *)
(* and so do the threads inside a push, no item is in both, and none has   *)
(* been passed to item_destroy_fn, so cancel and destroy never free twice  *)
(* and pop never returns a freed item.                                     *)
ItemsOwnedOnce ==
    /\ ~destroyed => /\ \A i, j \in 0..(count - 1) : storage[Slot(i)] = storage[Slot(j)] => i = j
                     /\ Contained \subseteq Items \ freed
    /\ \A t \in Producers : /\ item[t] \in Items \ (freed \union Contained)
                            /\ \A u \in Producers : item[t] = item[u] => t = u

(* The refinement mapping: a thread blocked on a condition variable is     *)
(* still in its call.                                                      *)
FifoContents == IF destroyed THEN <<>> ELSE Buffered

FifoCall == [t \in Threads |-> CASE pc[t] = "not_full" -> "push"
                                 [] pc[t] = "not_empty" -> "pop"
                                 [] OTHER -> pc[t]]

Fifo == INSTANCE SavvyFifo WITH contents <- FifoContents, call <- FifoCall

(* The ring buffer with its condition variables implements the queue       *)
(* queue.h describes: FIFO, drained by close, emptied by cancel, and every *)
(* call that can return does return.                                       *)
ImplementsFifo == Fifo!Spec
=============================================================================
