----------------------------- MODULE SavvyFifo -----------------------------
(***************************************************************************)
(* What include/savvy/core/queue.h promises of savvy_queue_t: a bounded    *)
(* FIFO whose push blocks while it is full, whose pop blocks while it is   *)
(* empty, that close() drains and that cancel() empties.  No ring buffer,  *)
(* no condition variable, no wake-up: a blocked caller is simply a call    *)
(* that is not enabled yet.  SavvyQueue is shown to implement this module. *)
(***************************************************************************)
EXTENDS Integers, Sequences

CONSTANTS Threads,   \* the threads that call the queue
          Items,     \* what is put in the queue, by identity
          Capacity,  \* savvy_queue_t.capacity
          NoItem     \* "nothing": not an item

VARIABLES contents,  \* the buffered items, oldest first
          closed,    \* no push is accepted any more
          destroyed, \* the queue's storage has been released
          call,      \* call[t]: the operation t is inside, or "idle"
          item,      \* item[t]: the item t pushes, or the one its pop returned
          ret,       \* ret[t]: the status of t's last finished operation
          freed      \* the items item_destroy_fn has been run on

vars == <<contents, closed, destroyed, call, item, ret, freed>>

Contained == {contents[i] : i \in 1..Len(contents)}

(* The items a caller owns and may hand to a push. *)
Available == Items \ (Contained \union freed
                        \union {item[t] : t \in {u \in Threads : call[u] = "push"}})

Init == /\ contents = <<>> /\ closed = FALSE /\ destroyed = FALSE
        /\ call = [t \in Threads |-> "idle"]
        /\ item = [t \in Threads |-> NoItem]
        /\ ret = [t \in Threads |-> "none"]
        /\ freed = {}

Invoke(t, op, x) ==
    /\ ~destroyed /\ call[t] = "idle"
    /\ call' = [call EXCEPT ![t] = op]
    /\ item' = [item EXCEPT ![t] = x]
    /\ ret' = [ret EXCEPT ![t] = "none"]
    /\ UNCHANGED <<contents, closed, destroyed, freed>>

Return(t, status, x) ==
    /\ call' = [call EXCEPT ![t] = "idle"]
    /\ item' = [item EXCEPT ![t] = x]
    /\ ret' = [ret EXCEPT ![t] = status]
    /\ UNCHANGED <<closed, destroyed, freed>>

Push(t) ==
    /\ call[t] = "push"
    /\ \/ closed /\ Return(t, "CLOSED", NoItem) /\ UNCHANGED contents
       \/ /\ ~closed /\ Len(contents) < Capacity
          /\ contents' = Append(contents, item[t])
          /\ Return(t, "OK", NoItem)

TryPush(t, x) ==
    /\ ~destroyed /\ call[t] = "idle" /\ x \in Available
    /\ \/ closed /\ Return(t, "CLOSED", NoItem) /\ UNCHANGED contents
       \/ /\ ~closed /\ Len(contents) = Capacity
          /\ Return(t, "OVERFLOW", NoItem) /\ UNCHANGED contents
       \/ /\ ~closed /\ Len(contents) < Capacity
          /\ contents' = Append(contents, x)
          /\ Return(t, "OK", NoItem)

Pop(t) ==
    /\ call[t] = "pop"
    /\ \/ closed /\ contents = <<>> /\ Return(t, "CLOSED", NoItem) /\ UNCHANGED contents
       \/ /\ contents # <<>>
          /\ contents' = Tail(contents)
          /\ Return(t, "OK", Head(contents))

Close == /\ ~destroyed /\ closed' = TRUE
         /\ UNCHANGED <<contents, destroyed, call, item, ret, freed>>

Cancel == /\ ~destroyed /\ closed' = TRUE
          /\ contents' = <<>> /\ freed' = freed \union Contained
          /\ UNCHANGED <<destroyed, call, item, ret>>

Destroy == /\ ~destroyed /\ destroyed' = TRUE
           /\ \A t \in Threads : call[t] = "idle"
           /\ contents' = <<>> /\ freed' = freed \union Contained
           /\ UNCHANGED <<closed, call, item, ret>>

Next == \/ \E t \in Threads :
             \/ \E x \in Available : Invoke(t, "push", x) \/ TryPush(t, x)
             \/ Invoke(t, "pop", NoItem)
             \/ Push(t) \/ Pop(t)
        \/ Close \/ Cancel \/ Destroy

(* A call that can go on does go on: there is no lost wake-up. *)
Fairness == \A t \in Threads : WF_vars(Push(t)) /\ WF_vars(Pop(t))

SafeSpec == Init /\ [][Next]_vars

Spec == SafeSpec /\ Fairness
=============================================================================
