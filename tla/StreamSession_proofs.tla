------------------------ MODULE StreamSession_proofs ------------------------
(***************************************************************************)
(* Theorems about StreamSession, for every number of sends, queue depth,   *)
(* threshold and counter width: each send has its outcome once and in      *)
(* order, the pending_send_t are accounted for, nothing is called once     *)
(* stop has returned, and the alerts follow the runs of abnormal results.  *)
(*                                                                         *)
(* The invariant says which sends are where.  The sends are numbered in    *)
(* the order of the calls, so those that wait are the last ones; the one   *)
(* in the worker's hands comes right before them, the dropped ones come    *)
(* after everything that has an outcome.  Control is kept apart from this: *)
(* a step of the session or of the channel moves sends in one of the five  *)
(* ways below, and the parts about sends look at these only.               *)
(***************************************************************************)
EXTENDS StreamSession, FiniteSetTheorems, TLAPS

Apps == {"no", "start", "stop", "destroy", "stop_join", "destroy_join", "destroyed"}

Meanings == {"echo", "normal", "abnormal", "nothing"}

ControlTypes ==
    /\ role \in {"STREAM", "VOICE"} /\ running \in BOOLEAN /\ closed \in BOOLEAN
    /\ worker \in {"none", "run", "exited"} /\ app \in Apps

SendTypes ==
    /\ queue \in Seq(Nat) /\ cur \in Nat /\ dropped \in SUBSET Nat
    /\ kind \in Seq(Kinds) /\ pends \in SUBSET Nat /\ told \in Seq(Nat)

PolicyTypes == danger_count \in Nat /\ alerts \in Nat /\ history \in Seq(Meanings)

(* Who may be at work: a request is in hand, and about to be completed,    *)
(* only while a worker runs, and no worker is left when start begins or    *)
(* stop has returned.                                                      *)
Where ==
    /\ cur # 0 => worker = "run"
    /\ over # "no" => cur # 0
    /\ app = "start" => running /\ worker # "run"
    /\ app \notin {"no", "start"} => ~running
    /\ ~running /\ app \in {"no", "destroyed"} => worker # "run"

(* The sends that are out of the queue: the first so many. *)
Done == Len(kind) - Len(queue)

(* Which sends wait, which one is in hand and which were dropped. *)
Order ==
    /\ Len(queue) <= Len(kind)
    /\ \A i \in 1..Len(queue) : queue[i] = Done + i
    /\ cur <= Done
    /\ \A d \in dropped : d \in 1..Done /\ cur < d
    /\ dropped # {} => queue = <<>>

(* A queue that was closed, or that lost something, takes no more. *)
Shut ==
    /\ closed => queue = <<>>
    /\ dropped # {} => closed \/ app = "destroyed"

(* Who has been told: every send that is out of the queue, in order. *)
Outcomes ==
    /\ Range(told) = {s \in 1..Done : kind[s] # "RELAY" /\ s # cur /\ s \notin dropped}
    /\ \A i, j \in 1..Len(told) : i < j => told[i] < told[j]
    /\ \A t \in Range(told) : (cur # 0 => t < cur) /\ \A d \in dropped : t < d

(* The answers that count: the run that ends at answer n of the history h, *)
(* the abnormal answers, and those among them that reach the threshold.    *)
Run(h, n) ==
    {i \in 1..n : h[i] = "abnormal" /\ \A j \in i..n : h[j] \notin {"normal", "echo"}}

Abnormal(h) == {i \in 1..Len(h) : h[i] = "abnormal"}

Loud(h) == {i \in Abnormal(h) : Cardinality(Run(h, i)) >= Threshold}

(* The server echoes PIRIN without a body, as session.h says. *)
BareEchoes == EchoBodies \subseteq {Empty}

(* The policy's counter and alerts, as long as the counter cannot wrap and *)
(* with such a server.                                                     *)
Policy ==
    BareEchoes /\ Len(history) < CounterModulus =>
        IF role = "STREAM"
        THEN danger_count = Cardinality(Run(history, Len(history))) /\ alerts = Cardinality(Loud(history))
        ELSE danger_count = 0 /\ alerts = Cardinality(Abnormal(history))

IInv == /\ ControlTypes /\ SendTypes /\ PolicyTypes
        /\ Where /\ Order /\ Shut /\ Outcomes /\ PendsAccounted /\ Policy

-----------------------------------------------------------------------------
(* What a step does to the sends. *)

send_vars == <<queue, kind, cur, dropped, pends, told>>

Stays == UNCHANGED send_vars

Sends(k) ==
    /\ k \in Kinds /\ kind' = Append(kind, k) /\ queue' = Append(queue, Len(kind) + 1)
    /\ pends' = IF k # "RELAY" THEN pends \union {Len(kind) + 1} ELSE pends
    /\ dropped = {} /\ UNCHANGED <<cur, dropped, told>>

Takes ==
    /\ cur = 0 /\ queue # <<>> /\ cur' = Head(queue) /\ queue' = Tail(queue)
    /\ UNCHANGED <<kind, dropped, pends, told>>

Drops ==
    /\ queue' = <<>> /\ dropped' = dropped \union Range(queue)
    /\ UNCHANGED <<kind, cur, pends, told>>

Ends ==
    /\ cur # 0 /\ cur' = 0 /\ UNCHANGED <<queue, kind, dropped>>
    /\ \/ kind[cur] = "RELAY" /\ UNCHANGED <<pends, told>>
       \/ kind[cur] # "RELAY" /\ told' = Append(told, cur) /\ pends' = pends \ {cur}

Moves == Stays \/ (\E k \in Kinds : Sends(k)) \/ Takes \/ Drops \/ Ends

(* What a step does to the policy: nothing, an echo, an answer, or an echo *)
(* with a body, which the code takes for the echo all the same.            *)
Echoes == history' = Append(history, "echo") /\ danger_count' = 0 /\ alerts' = alerts

Answers(m) ==
    LET count == IF m = "normal" THEN 0 ELSE (danger_count + 1) % CounterModulus
    IN  /\ history' = Append(history, m)
        /\ IF m = "nothing" THEN UNCHANGED <<danger_count, alerts>>
           ELSE IF role = "STREAM"
           THEN /\ danger_count' = count
                /\ alerts' = IF m # "normal" /\ count >= Threshold THEN alerts + 1 ELSE alerts
           ELSE /\ alerts' = IF m # "normal" THEN alerts + 1 ELSE alerts
                /\ UNCHANGED danger_count

Mistakes == ~BareEchoes /\ danger_count' = 0 /\ alerts' = alerts /\ history' = history

Learns ==
    /\ UNCHANGED role
    /\ UNCHANGED policy_vars \/ Echoes \/ Mistakes \/ \E m \in {"normal", "abnormal", "nothing"} : Answers(m)

-----------------------------------------------------------------------------
(* The sends that wait are the ones after Done. *)
LEMMA Waiting ==
    ASSUME SendTypes, Order
    PROVE  /\ Done \in Nat /\ Len(kind) \in Nat /\ Len(queue) \in Nat
           /\ Range(queue) = (Done + 1)..Len(kind)
<1> DEFINE n == Len(kind)
           m == Len(queue)
<1>1. n \in Nat /\ m \in Nat /\ m <= n /\ Done = n - m /\ DOMAIN queue = 1..m
    BY DEF SendTypes, Order, Done
<1>2. Done \in Nat
    BY <1>1
<1>3. \A i \in 1..m : queue[i] = Done + i
    BY DEF Order
<1> HIDE DEF n, m
<1>4. ASSUME NEW s \in Range(queue) PROVE s \in (Done + 1)..n
    <2>1. PICK i \in 1..m : s = queue[i]
        BY <1>1 DEF Range
    <2> QED BY <2>1, <1>1, <1>2, <1>3
<1>5. ASSUME NEW s \in (Done + 1)..n PROVE s \in Range(queue)
    <2>1. s - Done \in 1..m
        BY <1>1, <1>2
    <2>2. queue[s - Done] = s
        BY <2>1, <1>1, <1>2, <1>3
    <2> QED BY <2>1, <2>2, <1>1 DEF Range
<1>6. Range(queue) = (Done + 1)..n
    BY Zenon, <1>4, <1>5
<1> QED BY <1>1, <1>2, <1>6 DEF n, m

(* The invariant says what the properties of the sends say. *)
LEMMA OutcomesSuffice == IInv => OutcomesInOrder
<1> SUFFICES ASSUME IInv PROVE OutcomesInOrder
    OBVIOUS
<1> DEFINE owed == {s \in DOMAIN kind : kind[s] # "RELAY"}
           left == {s \in dropped \union Range(queue) : kind[s] # "RELAY"}
<1>1. /\ Done \in Nat /\ Len(kind) \in Nat /\ Len(queue) \in Nat /\ Done <= Len(kind)
      /\ Range(queue) = (Done + 1)..Len(kind) /\ DOMAIN kind = 1..Len(kind)
    BY Waiting DEF IInv, SendTypes, Done
<1>2. /\ cur \in Nat /\ cur <= Done /\ \A d \in dropped : d \in 1..Done /\ cur < d
      /\ worker # "run" => cur = 0
    BY DEF IInv, Order, SendTypes, Where
<1>3. /\ Range(told) = {s \in 1..Done : kind[s] # "RELAY" /\ s # cur /\ s \notin dropped}
      /\ \A t \in Range(told) : (cur # 0 => t < cur) /\ \A d \in dropped : t < d
    BY DEF IInv, Outcomes
<1>4. Range(told) \subseteq owed
    BY <1>1, <1>3
<1>5. ASSUME NEW s \in owed, s \notin Range(told), NEW t \in Range(told) PROVE t < s
    <2>1. t \in 1..Done /\ s \in 1..Len(kind)
        BY <1>1, <1>3, <1>5
    <2>2. s \in 1..Done => s = cur \/ s \in dropped
        BY <1>3, <1>5
    <2> QED BY <2>1, <2>2, <1>1, <1>2, <1>3
<1>6. ASSUME worker # "run" PROVE owed \ Range(told) = left
    <2>1. cur = 0
        BY <1>2, <1>6
    <2>2. ASSUME NEW s \in owed, s \notin Range(told) PROVE s \in left
        BY <2>1, <2>2, <1>1, <1>3
    <2>3. ASSUME NEW s \in left PROVE s \in owed /\ s \notin Range(told)
        BY <2>3, <1>1, <1>2, <1>3
    <2> QED BY <2>2, <2>3
<1>7. \A i, j \in 1..Len(told) : i < j => told[i] < told[j]
    BY DEF IInv, Outcomes
<1> QED BY <1>4, <1>5, <1>6, <1>7 DEF OutcomesInOrder

(* And what the property of the alerts says, in the words of RunLength. *)
LEMMA AlertsSuffice ==
    ASSUME BareEchoes PROVE IInv => (Len(history) < CounterModulus => AlertsFollowRuns)
<1> SUFFICES ASSUME IInv, Len(history) < CounterModulus PROVE AlertsFollowRuns
    OBVIOUS
<1>1. \A n : RunLength(n) = Cardinality(Run(history, n))
    BY DEF RunLength, Run
<1>2. Abnormal(history) = {i \in 1..Len(history) : history[i] = "abnormal"}
    BY DEF Abnormal
<1>3. Loud(history) = {i \in Abnormal(history) : RunLength(i) >= Threshold}
    BY <1>1 DEF Loud
<1> QED BY <1>1, <1>2, <1>3 DEF AlertsFollowRuns, Policy, IInv

-----------------------------------------------------------------------------
(* A move of the sends keeps the types and the order. *)
LEMMA MovesKeepOrder ==
    ASSUME SendTypes, Order, Moves
    PROVE  SendTypes' /\ Order'
<1>1. /\ Done \in Nat /\ Len(kind) \in Nat /\ Len(queue) \in Nat /\ Done = Len(kind) - Len(queue)
      /\ Range(queue) = (Done + 1)..Len(kind)
    BY Waiting DEF Done
<1>2. /\ queue \in Seq(Nat) /\ cur \in Nat /\ dropped \in SUBSET Nat
      /\ kind \in Seq(Kinds) /\ pends \in SUBSET Nat /\ told \in Seq(Nat)
    BY DEF SendTypes
<1>3. /\ \A i \in 1..Len(queue) : queue[i] = Done + i
      /\ cur <= Done /\ \A d \in dropped : d \in 1..Done /\ cur < d
      /\ dropped # {} => queue = <<>>
    BY DEF Order
<1>4. Done' = Len(kind') - Len(queue')
    BY DEF Done
<1>5. CASE Stays
    BY <1>5 DEF Stays, send_vars, SendTypes, Order, Done
<1>6. ASSUME NEW k \in Kinds, Sends(k) PROVE SendTypes' /\ Order'
    <2>1. /\ kind' = Append(kind, k) /\ queue' = Append(queue, Len(kind) + 1)
          /\ pends' = IF k # "RELAY" THEN pends \union {Len(kind) + 1} ELSE pends
          /\ dropped = {} /\ UNCHANGED <<cur, dropped, told>>
        BY <1>6 DEF Sends
    <2>2. SendTypes'
        <3>1. kind' \in Seq(Kinds) /\ queue' \in Seq(Nat)
            BY <2>1, <1>1, <1>2
        <3>2. pends' \in SUBSET Nat
            <4>1. pends' \subseteq pends \union {Len(kind) + 1}
                BY <2>1
            <4> QED BY <4>1, <1>1, <1>2
        <3> QED BY <2>1, <3>1, <3>2, <1>2 DEF SendTypes
    <2>3. Len(kind') = Len(kind) + 1 /\ Len(queue') = Len(queue) + 1 /\ Done' = Done
        BY <2>1, <1>1, <1>2, <1>4
    <2>4. \A i \in 1..Len(queue') : queue'[i] = Done' + i
        BY <2>1, <2>3, <1>1, <1>2, <1>3
    <2> QED BY <2>1, <2>2, <2>3, <2>4, <1>1, <1>3 DEF Order
<1>7. CASE Takes
    <2>1. /\ cur = 0 /\ queue # <<>> /\ cur' = Head(queue) /\ queue' = Tail(queue)
          /\ UNCHANGED <<kind, dropped, pends, told>>
        BY <1>7 DEF Takes
    <2>2. Len(queue) >= 1 /\ cur' = queue[1] /\ cur' = Done + 1 /\ dropped = {}
        BY <2>1, <1>1, <1>2, <1>3
    <2>3. SendTypes'
        BY <2>1, <2>2, <1>1, <1>2 DEF SendTypes
    <2>4. Len(queue') = Len(queue) - 1 /\ Done' = Done + 1
        BY <2>1, <2>2, <1>1, <1>2, <1>4
    <2>5. \A i \in 1..Len(queue') : queue'[i] = queue[i + 1]
        BY <2>1, <2>2, <2>4, <1>1, <1>2
    <2>6. \A i \in 1..Len(queue') : queue'[i] = Done' + i
        BY <2>4, <2>5, <1>1, <1>3
    <2> QED BY <2>1, <2>2, <2>3, <2>4, <2>6, <1>1 DEF Order
<1>8. CASE Drops
    <2>1. /\ queue' = <<>> /\ dropped' = dropped \union Range(queue)
          /\ UNCHANGED <<kind, cur, pends, told>>
        BY <1>8 DEF Drops
    <2>2. Len(queue') = 0 /\ Done' = Len(kind)
        BY <2>1, <1>1, <1>4
    <2>3. SendTypes'
        <3>1. Range(queue) \subseteq Nat
            BY <1>1
        <3>2. dropped' \in SUBSET Nat
            BY Zenon, <3>1, <2>1, <1>2
        <3>3. queue' \in Seq(Nat)
            BY <2>1
        <3> QED BY <2>1, <3>2, <3>3, <1>2 DEF SendTypes
    <2>4. \A d \in dropped' : d \in 1..Done' /\ cur' < d
        BY <2>1, <2>2, <1>1, <1>2, <1>3
    <2> QED BY <2>1, <2>2, <2>3, <2>4, <1>1, <1>2, <1>3 DEF Order
<1>9. CASE Ends
    <2>1. cur' = 0 /\ UNCHANGED <<queue, kind, dropped>> /\ Done' = Done
        BY <1>9, <1>4, <1>1 DEF Ends
    <2>2. SendTypes'
        <3>1. told' \in Seq(Nat)
            <4>1. told' \in {told, Append(told, cur)}
                BY <1>9 DEF Ends
            <4>2. Append(told, cur) \in Seq(Nat)
                BY <1>2
            <4> QED BY Zenon, <4>1, <4>2, <1>2
        <3>2. pends' \subseteq pends
            BY <1>9 DEF Ends
        <3>3. pends' \in SUBSET Nat
            BY <3>2, <1>2
        <3> QED BY <2>1, <3>1, <3>3, <1>2 DEF SendTypes
    <2> QED BY <2>1, <2>2, <1>1, <1>2, <1>3 DEF Order
<1> QED BY <1>5, <1>6, <1>7, <1>8, <1>9 DEF Moves

(* A move of the sends keeps who has been told. *)
LEMMA MovesKeepOutcomes ==
    ASSUME SendTypes, Order, Outcomes, Moves
    PROVE  Outcomes'
<1> DEFINE Told == {s \in 1..Done : kind[s] # "RELAY" /\ s # cur /\ s \notin dropped}
<1>1. /\ Done \in Nat /\ Len(kind) \in Nat /\ Len(queue) \in Nat /\ Done = Len(kind) - Len(queue)
      /\ Range(queue) = (Done + 1)..Len(kind) /\ Done <= Len(kind)
    BY Waiting DEF Done
<1>2. /\ queue \in Seq(Nat) /\ cur \in Nat /\ dropped \in SUBSET Nat
      /\ kind \in Seq(Kinds) /\ told \in Seq(Nat)
    BY DEF SendTypes
<1>3. /\ \A i \in 1..Len(queue) : queue[i] = Done + i
      /\ cur <= Done /\ \A d \in dropped : d \in 1..Done /\ cur < d
      /\ dropped # {} => queue = <<>>
    BY DEF Order
<1>4. Done' = Len(kind') - Len(queue')
    BY DEF Done
<1>5. /\ Range(told) = Told
      /\ \A i, j \in 1..Len(told) : i < j => told[i] < told[j]
      /\ \A t \in Range(told) : (cur # 0 => t < cur) /\ \A d \in dropped : t < d
    BY DEF Outcomes
<1>6. CASE Stays
    BY <1>6 DEF Stays, send_vars, Outcomes, Done
<1>7. ASSUME NEW k \in Kinds, Sends(k) PROVE Outcomes'
    <2>1. /\ kind' = Append(kind, k) /\ queue' = Append(queue, Len(kind) + 1)
          /\ dropped = {} /\ UNCHANGED <<cur, dropped, told>>
        BY <1>7 DEF Sends
    <2>2. Done' = Done
        BY <2>1, <1>1, <1>2, <1>4
    <2>3. \A s \in 1..Done : kind'[s] = kind[s]
        BY <2>1, <1>1, <1>2
    <2>4. Told' = Told
        BY Zenon, <2>1, <2>2, <2>3
    <2>5. Range(told') = Range(told)
        BY <2>1
    <2> QED BY Zenon, <2>1, <2>4, <2>5, <1>5 DEF Outcomes
<1>8. CASE Takes
    <2>1. /\ cur = 0 /\ queue # <<>> /\ cur' = Head(queue) /\ queue' = Tail(queue)
          /\ UNCHANGED <<kind, dropped, told>>
        BY <1>8 DEF Takes
    <2>2. cur' = Done + 1 /\ dropped = {} /\ Done' = Done + 1
        BY <2>1, <1>1, <1>2, <1>3, <1>4
    <2>3. Told' = Told
        BY <2>1, <2>2, <1>1
    <2>4. Range(told') = Range(told)
        BY <2>1
    <2>5. \A t \in Range(told') : t < cur'
        BY <2>2, <2>4, <1>1, <1>5
    <2> QED BY <2>1, <2>2, <2>3, <2>4, <2>5, <1>5 DEF Outcomes
<1>9. CASE Drops
    <2>1. /\ queue' = <<>> /\ dropped' = dropped \union Range(queue)
          /\ UNCHANGED <<kind, cur, told>>
        BY <1>9 DEF Drops
    <2>2. Done' = Len(kind)
        BY <2>1, <1>1, <1>4
    <2>3. Told' = Told
        BY <2>1, <2>2, <1>1
    <2>4. Range(told') = Range(told)
        BY <2>1
    <2>5. \A t \in Range(told'), d \in dropped' : t < d
        BY <2>1, <2>4, <1>1, <1>5
    <2> QED BY <2>1, <2>3, <2>4, <2>5, <1>5 DEF Outcomes
<1>10. CASE Ends
    <2>1. cur # 0 /\ cur' = 0 /\ UNCHANGED <<queue, kind, dropped>> /\ Done' = Done
        BY <1>10, <1>4, <1>1 DEF Ends
    <2>2. CASE kind[cur] = "RELAY" /\ UNCHANGED told
        <3>1. Told' = Told
            BY <2>1, <2>2, <1>1
        <3>2. Range(told') = Range(told)
            BY <2>2
        <3> QED BY <2>1, <2>2, <3>1, <3>2, <1>5 DEF Outcomes
    <2>3. CASE kind[cur] # "RELAY" /\ told' = Append(told, cur)
        <3>1. Len(told) \in Nat /\ Len(told') = Len(told) + 1
              /\ (\A i \in 1..Len(told) : told'[i] = told[i]) /\ told'[Len(told) + 1] = cur
              /\ DOMAIN told = 1..Len(told) /\ DOMAIN told' = 1..(Len(told) + 1)
            BY <2>3, <1>2
        <3>2. Range(told') = Range(told) \union {cur}
            BY <3>1 DEF Range
        <3>3. Told' = Told \union {cur}
            BY SMTT(30), <2>1, <2>3, <1>1, <1>2, <1>3
        <3>4. \A i \in 1..Len(told) : told[i] \in Range(told) /\ told[i] < cur
            BY <3>1, <2>1, <1>5 DEF Range
        <3>5. \A i, j \in 1..Len(told') : i < j => told'[i] < told'[j]
            BY <3>1, <3>4, <1>5
        <3>6. \A t \in Range(told'), d \in dropped' : t < d
            BY <3>2, <2>1, <1>3, <1>5
        <3> QED BY <2>1, <3>2, <3>3, <3>5, <3>6, <1>5 DEF Outcomes
    <2> QED BY <1>10, <2>2, <2>3 DEF Ends
<1> QED BY <1>6, <1>7, <1>8, <1>9, <1>10 DEF Moves

(* A move of the sends keeps the account of the pending_send_t. *)
LEMMA MovesKeepPends ==
    ASSUME SendTypes, Order, PendsAccounted, Moves
    PROVE  PendsAccounted'
<1> DEFINE Held == {s \in Range(queue) \union {cur} \union dropped : s # 0 /\ kind[s] # "RELAY"}
<1>1. /\ Done \in Nat /\ Len(kind) \in Nat /\ Len(queue) \in Nat /\ Done = Len(kind) - Len(queue)
      /\ Range(queue) = (Done + 1)..Len(kind) /\ Done <= Len(kind)
    BY Waiting DEF Done
<1>2. /\ queue \in Seq(Nat) /\ cur \in Nat /\ dropped \in SUBSET Nat /\ kind \in Seq(Kinds)
    BY DEF SendTypes
<1>3. /\ \A i \in 1..Len(queue) : queue[i] = Done + i
      /\ cur <= Done /\ \A d \in dropped : d \in 1..Done /\ cur < d
    BY DEF Order
<1>4. /\ Done' \in Nat /\ Len(kind') \in Nat /\ Done' = Len(kind') - Len(queue')
      /\ Range(queue') = (Done' + 1)..Len(kind')
    <2>1. SendTypes' /\ Order'
        BY MovesKeepOrder
    <2>2. (SendTypes /\ Order => /\ Done \in Nat /\ Len(kind) \in Nat /\ Len(queue) \in Nat
                                 /\ Range(queue) = (Done + 1)..Len(kind))'
        BY Waiting, PTL
    <2> QED BY <2>1, <2>2 DEF Done
<1>5. pends = Held
    BY DEF PendsAccounted
<1>6. CASE Stays
    BY <1>6 DEF Stays, send_vars, PendsAccounted
<1>7. ASSUME NEW k \in Kinds, Sends(k) PROVE pends' = Held'
    <2>1. /\ kind' = Append(kind, k) /\ queue' = Append(queue, Len(kind) + 1)
          /\ pends' = IF k # "RELAY" THEN pends \union {Len(kind) + 1} ELSE pends
          /\ UNCHANGED <<cur, dropped>>
        BY <1>7 DEF Sends
    <2>2. Len(kind') = Len(kind) + 1 /\ Done' = Done
        BY <2>1, <1>1, <1>2, <1>4
    <2>3. Range(queue') = Range(queue) \union {Len(kind) + 1}
        BY <2>2, <1>1, <1>4
    <2>4. (\A s \in 1..Len(kind) : kind'[s] = kind[s]) /\ kind'[Len(kind) + 1] = k
        BY <2>1, <1>1, <1>2
    <2>5. Range(queue) \union dropped \subseteq 1..Len(kind) /\ cur \in 0..Len(kind)
        <3>1. Range(queue) \subseteq 1..Len(kind)
            BY <1>1
        <3>2. \A d \in dropped : d \in 1..Len(kind)
            BY <1>1, <1>3
        <3>3. cur \in 0..Len(kind)
            BY <1>1, <1>2, <1>3
        <3> QED BY <3>1, <3>2, <3>3
    <2>6. \A s \in Range(queue) \union {cur} \union dropped : s # 0 => kind'[s] = kind[s]
        BY <2>4, <2>5
    <2>7. Held' = IF k # "RELAY" THEN Held \union {Len(kind) + 1} ELSE Held
        <3>1. Range(queue') \union {cur'} \union dropped'
                = (Range(queue) \union {cur} \union dropped) \union {Len(kind) + 1}
            BY <2>1, <2>3
        <3>2. ASSUME k # "RELAY" PROVE Held' = Held \union {Len(kind) + 1}
            BY <3>1, <3>2, <2>4, <2>6, <1>1
        <3>3. ASSUME k = "RELAY" PROVE Held' = Held
            BY <3>1, <3>3, <2>4, <2>6
        <3> QED BY <3>2, <3>3
    <2> QED BY Zenon, <2>1, <2>7, <1>5
<1>8. CASE Takes
    <2>1. /\ cur = 0 /\ queue # <<>> /\ cur' = Head(queue) /\ queue' = Tail(queue)
          /\ UNCHANGED <<kind, dropped, pends>>
        BY <1>8 DEF Takes
    <2>2. cur' = Done + 1 /\ Done' = Done + 1 /\ Len(queue) >= 1
        BY <2>1, <1>1, <1>2, <1>3, <1>4
    <2>3. Range(queue') \union {cur'} = Range(queue)
        BY <2>1, <2>2, <1>1, <1>4
    <2>4. Held' = Held
        BY <2>1, <2>3
    <2> QED BY <2>1, <2>4, <1>5 DEF PendsAccounted
<1>9. CASE Drops
    <2>1. /\ queue' = <<>> /\ dropped' = dropped \union Range(queue)
          /\ UNCHANGED <<kind, cur, pends>>
        BY <1>9 DEF Drops
    <2>2. Range(queue') = {}
        BY <2>1 DEF Range
    <2>3. Held' = Held
        BY <2>1, <2>2
    <2> QED BY <2>1, <2>3, <1>5 DEF PendsAccounted
<1>10. CASE Ends
    <2>1. cur # 0 /\ cur' = 0 /\ UNCHANGED <<queue, kind, dropped>>
        BY <1>10 DEF Ends
    <2>2. Range(queue') = Range(queue) /\ cur \notin Range(queue) /\ cur \notin dropped
        BY <2>1, <1>1, <1>2, <1>3
    <2>3. Held' = Held \ {cur}
        BY <2>1, <2>2
    <2>4. kind[cur] = "RELAY" => cur \notin Held
        OBVIOUS
    <2>5. pends' = Held'
        BY <1>10, <2>3, <2>4, <1>5 DEF Ends
    <2> QED BY <2>5 DEF PendsAccounted
<1> QED BY <1>6, <1>7, <1>8, <1>9, <1>10 DEF Moves, PendsAccounted

-----------------------------------------------------------------------------
(* What one more answer does to the runs: an abnormal one prolongs the run, *)
(* one without a usable result leaves it, a normal one or an echo ends it.  *)
LEMMA RunsGrow ==
    ASSUME NEW h \in Seq(Meanings), NEW m \in Meanings
    PROVE  LET g == Append(h, m)
               n == Len(h)
           IN  /\ \A i \in 1..n : Run(g, i) = Run(h, i)
               /\ m = "abnormal" => Run(g, n + 1) = Run(h, n) \union {n + 1}
               /\ m = "nothing" => Run(g, n + 1) = Run(h, n)
               /\ m \in {"normal", "echo"} => Run(g, n + 1) = {}
               /\ Abnormal(g) = IF m = "abnormal" THEN Abnormal(h) \union {n + 1} ELSE Abnormal(h)
<1> DEFINE g == Append(h, m)
           n == Len(h)
<1>1. n \in Nat /\ Len(g) = n + 1 /\ (\A i \in 1..n : g[i] = h[i]) /\ g[n + 1] = m
    OBVIOUS
<1> HIDE DEF g, n
<1>2. ASSUME NEW i \in 1..n PROVE Run(g, i) = Run(h, i)
    <2>1. \A a \in 1..i : a..i \subseteq 1..n /\ a \in 1..n
        BY <1>1
    <2> QED BY <2>1, <1>1 DEF Run
<1>3. \A a \in 1..n : a..(n + 1) = (a..n) \union {n + 1} /\ a..n \subseteq 1..n
    BY <1>1
<1>4. 1..(n + 1) = (1..n) \union {n + 1} /\ (n + 1)..(n + 1) = {n + 1} /\ n + 1 \notin 1..n
    BY <1>1
<1>5. m = "abnormal" => Run(g, n + 1) = Run(h, n) \union {n + 1}
    BY <1>1, <1>3, <1>4 DEF Run
<1>6. m = "nothing" => Run(g, n + 1) = Run(h, n)
    BY <1>1, <1>3, <1>4 DEF Run
<1>7. m \in {"normal", "echo"} => Run(g, n + 1) = {}
    BY <1>1, <1>3, <1>4 DEF Run
<1>8. Abnormal(g) = IF m = "abnormal" THEN Abnormal(h) \union {n + 1} ELSE Abnormal(h)
    BY <1>1, <1>4 DEF Abnormal, n
<1> QED BY <1>2, <1>5, <1>6, <1>7, <1>8 DEF g, n

(* Runs, and sets of answers, are finite. *)
LEMMA RunsFinite ==
    ASSUME NEW h \in Seq(Meanings), NEW n \in Nat
    PROVE  /\ IsFiniteSet(Run(h, n)) /\ Cardinality(Run(h, n)) \in Nat /\ Cardinality(Run(h, n)) <= n
           /\ IsFiniteSet(Abnormal(h)) /\ Cardinality(Abnormal(h)) \in Nat
           /\ IsFiniteSet(Loud(h)) /\ Cardinality(Loud(h)) \in Nat
<1>1. \A k \in Nat : IsFiniteSet(1..k) /\ Cardinality(1..k) = k
    BY FS_Interval
<1>2. Run(h, n) \subseteq 1..n /\ Abnormal(h) \subseteq 1..Len(h) /\ Loud(h) \subseteq 1..Len(h)
    BY DEF Run, Abnormal, Loud
<1>3. Len(h) \in Nat
    OBVIOUS
<1>4. IsFiniteSet(Run(h, n)) /\ Cardinality(Run(h, n)) <= Cardinality(1..n)
    BY <1>1, <1>2, FS_Subset
<1>5. IsFiniteSet(Abnormal(h)) /\ IsFiniteSet(Loud(h))
    BY <1>1, <1>2, <1>3, FS_Subset
<1> QED BY <1>1, <1>4, <1>5, FS_CardinalityType

(* The alerts one more answer is worth. *)
LEMMA LoudGrows ==
    ASSUME NEW h \in Seq(Meanings), NEW m \in Meanings
    PROVE  LET g == Append(h, m)
               n == Len(h)
           IN  /\ m # "abnormal" => Cardinality(Loud(g)) = Cardinality(Loud(h))
                                    /\ Cardinality(Abnormal(g)) = Cardinality(Abnormal(h))
               /\ m = "abnormal" =>
                      /\ Cardinality(Run(g, n + 1)) = Cardinality(Run(h, n)) + 1
                      /\ Cardinality(Abnormal(g)) = Cardinality(Abnormal(h)) + 1
                      /\ Cardinality(Loud(g)) = IF Cardinality(Run(h, n)) + 1 >= Threshold
                                                THEN Cardinality(Loud(h)) + 1 ELSE Cardinality(Loud(h))
<1> DEFINE g == Append(h, m)
           n == Len(h)
<1>1. n \in Nat /\ g \in Seq(Meanings)
    OBVIOUS
<1>2. /\ \A i \in 1..n : Run(g, i) = Run(h, i)
      /\ m = "abnormal" => Run(g, n + 1) = Run(h, n) \union {n + 1}
      /\ Abnormal(g) = IF m = "abnormal" THEN Abnormal(h) \union {n + 1} ELSE Abnormal(h)
    BY RunsGrow
<1>3. /\ Abnormal(h) \subseteq 1..n /\ Run(h, n) \subseteq 1..n /\ Loud(h) \subseteq 1..n
      /\ n + 1 \notin Abnormal(h) /\ n + 1 \notin Run(h, n) /\ n + 1 \notin Loud(h)
    <2>1. Abnormal(h) \subseteq 1..n /\ Run(h, n) \subseteq 1..n /\ Loud(h) \subseteq 1..n
        BY DEF Abnormal, Run, Loud
    <2>2. n + 1 \notin 1..n
        BY <1>1
    <2> QED BY <2>1, <2>2
<1> HIDE DEF g, n
<1>4. /\ IsFiniteSet(Run(h, n)) /\ IsFiniteSet(Abnormal(h)) /\ IsFiniteSet(Loud(h))
    BY <1>1, RunsFinite
<1>5. CASE m # "abnormal"
    <2>1. Abnormal(g) = Abnormal(h)
        BY <1>2, <1>5
    <2>2. Loud(g) = Loud(h)
        BY <2>1, <1>2, <1>3 DEF Loud
    <2> QED BY <1>5, <2>1, <2>2 DEF g, n
<1>6. CASE m = "abnormal"
    <2>1. Run(g, n + 1) = Run(h, n) \union {n + 1} /\ Abnormal(g) = Abnormal(h) \union {n + 1}
        BY <1>2, <1>6
    <2>2. Cardinality(Run(g, n + 1)) = Cardinality(Run(h, n)) + 1
        BY <2>1, <1>3, <1>4, FS_AddElement
    <2>3. Cardinality(Abnormal(g)) = Cardinality(Abnormal(h)) + 1
        BY Zenon, <2>1, <1>3, <1>4, FS_AddElement
    <2>4. Loud(g) = IF Cardinality(Run(h, n)) + 1 >= Threshold THEN Loud(h) \union {n + 1} ELSE Loud(h)
        BY <2>1, <2>2, <1>2, <1>3 DEF Loud
    <2>5. Cardinality(Loud(h) \union {n + 1}) = Cardinality(Loud(h)) + 1
        BY Zenon, <1>3, <1>4, FS_AddElement
    <2> QED BY Zenon, <1>6, <2>2, <2>3, <2>4, <2>5 DEF g, n
<1> QED BY <1>5, <1>6

-----------------------------------------------------------------------------
(* Whatever a step learns, the policy's counter and alerts stay right. *)
LEMMA LearningKeepsPolicy ==
    ASSUME role \in {"STREAM", "VOICE"}, PolicyTypes, Policy, Learns
    PROVE  PolicyTypes' /\ Policy'
<1> DEFINE n == Len(history)
           c == Cardinality(Run(history, n))
<1>1. /\ danger_count \in Nat /\ alerts \in Nat /\ history \in Seq(Meanings) /\ n \in Nat
      /\ CounterModulus \in Nat /\ CounterModulus > 1 /\ Threshold \in Nat /\ Threshold > 0
    BY CounterAssumption, ThresholdAssumption DEF PolicyTypes
<1>2. c \in Nat /\ c <= n
    BY <1>1, RunsFinite
<1>3. role' = role
    BY DEF Learns
<1>4. CASE UNCHANGED policy_vars
    BY <1>3, <1>4 DEF policy_vars, PolicyTypes, Policy
<1>5. CASE Echoes
    <2>1. history' = Append(history, "echo") /\ danger_count' = 0 /\ alerts' = alerts /\ "echo" \in Meanings
        BY <1>5 DEF Echoes, Meanings
    <2>2. history' \in Seq(Meanings) /\ Len(history') = n + 1
        BY <2>1, <1>1
    <2>3. Run(history', n + 1) = {}
        BY <2>1, <1>1, RunsGrow
    <2>4. Cardinality(Loud(history')) = Cardinality(Loud(history))
          /\ Cardinality(Abnormal(history')) = Cardinality(Abnormal(history))
        BY <2>1, <1>1, LoudGrows
    <2>5. PolicyTypes'
        BY <2>1, <2>2, <1>1 DEF PolicyTypes
    <2>6. n + 1 < CounterModulus => n < CounterModulus
        BY <1>1
    <2>7. Cardinality(Run(history', Len(history'))) = 0
        BY <2>2, <2>3, FS_EmptySet
    <2> QED BY <2>1, <2>2, <2>4, <2>5, <2>6, <2>7, <1>3 DEF Policy
<1>6. ASSUME NEW m \in {"normal", "abnormal", "nothing"}, Answers(m) PROVE PolicyTypes' /\ Policy'
    <2> DEFINE count == IF m = "normal" THEN 0 ELSE (danger_count + 1) % CounterModulus
    <2>1. /\ history' = Append(history, m) /\ m \in Meanings
          /\ m = "nothing" => danger_count' = danger_count /\ alerts' = alerts
          /\ m # "nothing" /\ role = "STREAM" =>
                /\ danger_count' = count
                /\ alerts' = IF m # "normal" /\ count >= Threshold THEN alerts + 1 ELSE alerts
          /\ m # "nothing" /\ role # "STREAM" =>
                /\ danger_count' = danger_count
                /\ alerts' = IF m # "normal" THEN alerts + 1 ELSE alerts
        BY <1>6 DEF Answers, Meanings
    <2>2. history' \in Seq(Meanings) /\ Len(history') = n + 1
        BY <2>1, <1>1
    <2>3. count \in Nat
        BY <1>1
    <2>4. PolicyTypes'
        <3>1. danger_count' \in Nat
            BY <2>1, <2>3, <1>1
        <3>2. alerts' \in Nat
            BY <2>1, <1>1
        <3> QED BY <3>1, <3>2, <2>2 DEF PolicyTypes
    <2>5. /\ m = "nothing" => Run(history', n + 1) = Run(history, n)
          /\ m = "normal" => Run(history', n + 1) = {}
        BY <2>1, <1>1, RunsGrow
    <2>6. /\ m # "abnormal" => Cardinality(Loud(history')) = Cardinality(Loud(history))
                               /\ Cardinality(Abnormal(history')) = Cardinality(Abnormal(history))
          /\ m = "abnormal" =>
                 /\ Cardinality(Run(history', n + 1)) = c + 1
                 /\ Cardinality(Abnormal(history')) = Cardinality(Abnormal(history)) + 1
                 /\ Cardinality(Loud(history')) = IF c + 1 >= Threshold
                                           THEN Cardinality(Loud(history)) + 1 ELSE Cardinality(Loud(history))
        BY <2>1, <1>1, LoudGrows
    <2>7. ASSUME BareEchoes, n + 1 < CounterModulus
          PROVE  IF role' = "STREAM"
                 THEN /\ danger_count' = Cardinality(Run(history', n + 1))
                      /\ alerts' = Cardinality(Loud(history'))
                 ELSE danger_count' = 0 /\ alerts' = Cardinality(Abnormal(history'))
        <3>1. IF role = "STREAM" THEN danger_count = c /\ alerts = Cardinality(Loud(history))
              ELSE danger_count = 0 /\ alerts = Cardinality(Abnormal(history))
            BY <2>7, <1>1 DEF Policy
        <3>2. (c + 1) % CounterModulus = c + 1
            BY <2>7, <1>1, <1>2
        <3> HIDE DEF c, n
        <3>3. CASE m = "nothing"
            BY <3>1, <3>3, <2>1, <2>5, <2>6, <1>3 DEF c
        <3>4. CASE m = "normal"
            BY Zenon, <3>1, <3>4, <2>1, <2>5, <2>6, <1>3, FS_EmptySet
        <3>5. CASE m = "abnormal"
            BY <3>1, <3>2, <3>5, <2>1, <2>6, <1>3
        <3> QED BY <3>3, <3>4, <3>5
    <2> QED BY <2>2, <2>4, <2>7 DEF Policy
<1>7. CASE Mistakes
    BY <1>1, <1>7 DEF Mistakes, PolicyTypes, Policy
<1> QED BY <1>4, <1>5, <1>6, <1>7 DEF Learns

(* The policy reads an answer the way Meaning describes it, however the    *)
(* key is written.                                                         *)
LEMMA AnswerIsRead ==
    ASSUME NEW r \in Responses, NEW copied \in BOOLEAN, history' = Append(history, Meaning(r, copied)),
           on_response(IF r.crc_valid THEN r.body ELSE Empty, copied)
    PROVE  Meaning(r, copied) \in {"normal", "abnormal", "nothing"} /\ Answers(Meaning(r, copied))
<1> DEFINE b == IF r.crc_valid THEN r.body ELSE Empty
           dr == data_result_parse(make_parser_input(b))
           m == Meaning(r, copied)
<1>1. r.crc_valid \in BOOLEAN /\ r.body \in Bodies
    BY DEF Responses
<1>2. m \in {"normal", "abnormal", "nothing"}
    BY DEF Meaning
<1>3. m = "nothing" <=> b = Empty \/ ~copied \/ dr = "error"
    BY <1>1 DEF Meaning, Bodies, Empty, Garbage, data_result_parse, make_parser_input
<1>4. m # "nothing" => (m = "normal" <=> dr = "4")
    BY <1>1 DEF Meaning, Bodies, Empty, Garbage, data_result_parse, make_parser_input
<1> HIDE DEF b, dr, m
<1>5. LET count == IF dr = "4" THEN 0 ELSE (danger_count + 1) % CounterModulus
      IN  IF b = Empty \/ ~copied \/ dr = "error" THEN UNCHANGED <<danger_count, alerts>>
          ELSE IF role = "STREAM"
          THEN /\ danger_count' = count
               /\ alerts' = IF dr # "4" /\ count >= Threshold THEN alerts + 1 ELSE alerts
          ELSE /\ alerts' = IF dr # "4" THEN alerts + 1 ELSE alerts
               /\ UNCHANGED danger_count
    BY DEF on_response, data_result_is_normal, b, dr
<1>6. Answers(m)
    BY <1>3, <1>4, <1>5 DEF Answers, m
<1> QED BY <1>2, <1>6 DEF m

-----------------------------------------------------------------------------
(* What the parts of the invariant need to know of a step. *)
Step == Moves /\ Learns /\ ControlTypes' /\ Where' /\ Shut'

Control == ControlTypes /\ SendTypes /\ Where /\ Order /\ Shut

(* The calls of the application.  A send is accepted only by a queue that  *)
(* has lost nothing, because a queue that has is closed or destroyed.      *)
LEMMA CallsStep ==
    ASSUME Control,
           \/ start \/ start_create \/ stop_cancel \/ stop_return
           \/ \E by \in {"stop", "destroy"} : stop(by)
    PROVE  Step
<1> USE DEF Control, ControlTypes, Apps
<1>1. CASE start
    <2>1. Stays /\ UNCHANGED <<role, policy_vars>>
        BY <1>1 DEF start, Channel!Start, Stays, send_vars
    <2>2. ControlTypes' /\ Where' /\ Shut'
        BY <1>1 DEF start, Channel!Start, Where, Shut
    <2> QED BY <2>1, <2>2 DEF Step, Moves, Learns
<1>2. CASE start_create
    <2>1. Stays /\ UNCHANGED <<role, policy_vars>>
        BY <1>2 DEF start_create, Channel!Spawn, Channel!Halt, Stays, send_vars
    <2>2. /\ app = "start" /\ app' = "no" /\ UNCHANGED <<role, closed, queue, cur, over, dropped>>
          /\ \/ running' = running /\ worker' = "run"
             \/ running' = FALSE /\ worker' = worker
        BY <1>2 DEF start_create, Channel!Spawn, Channel!Halt
    <2>3. ControlTypes'
        BY Zenon, <2>2
    <2>4. Where' /\ Shut'
        BY Zenon, <2>2 DEF Where, Shut
    <2> QED BY <2>1, <2>3, <2>4 DEF Step, Moves, Learns
<1>3. CASE stop_cancel
    <2>1. Drops /\ UNCHANGED <<role, policy_vars>>
        BY <1>3 DEF stop_cancel, Channel!Drop, Channel!Range, Range, Drops
    <2>2. /\ app' \in {"stop_join", "destroy_join"} /\ ~running /\ closed' = TRUE /\ queue' = <<>>
          /\ UNCHANGED <<role, running, worker, cur, over>>
        BY Zenon, <1>3 DEF stop_cancel, Channel!Drop, Joining
    <2>3. ControlTypes'
        BY <2>2
    <2>4. Where' /\ Shut'
        BY <2>2 DEF Where, Shut
    <2> QED BY <2>1, <2>3, <2>4 DEF Step, Moves, Learns
<1>4. CASE stop_return
    <2>1. /\ UNCHANGED <<role, policy_vars, kind, pends, told, running, worker, cur, over>>
          /\ worker # "run" /\ app # "no" /\ app # "start"
          /\ \/ app' = "no" /\ UNCHANGED <<closed, queue, dropped>>
             \/ /\ app' = "destroyed" /\ queue' = <<>> /\ dropped' = dropped \union Range(queue)
                /\ closed' = (closed \/ FALSE)
        BY <1>4 DEF stop_return, Channel!Drop, Channel!Range, Range, channel_vars
    <2>2. Stays \/ Drops
        BY <2>1 DEF Stays, Drops, send_vars
    <2>3. ControlTypes'
        BY <2>1
    <2>4. Where' /\ Shut'
        BY <1>4, <2>1 DEF stop_return, Where, Shut
    <2> QED BY <2>1, <2>2, <2>3, <2>4 DEF Step, Moves, Learns
<1>5. ASSUME NEW by \in {"stop", "destroy"}, stop(by) PROVE Step
    <2>1. Stays /\ UNCHANGED <<role, policy_vars>>
        BY <1>5 DEF stop, Channel!Halt, Stays, send_vars, channel_vars
    <2>2. ControlTypes' /\ Where' /\ Shut'
        BY Zenon, <1>5 DEF stop, Channel!Halt, channel_vars, Joining, Where, Shut
    <2> QED BY <2>1, <2>2 DEF Step, Moves, Learns
<1> QED BY <1>1, <1>2, <1>3, <1>4, <1>5

(* A send: its number is the next one, and it is the last to wait. *)
LEMMA SendsStep ==
    ASSUME Control, NEW k \in Kinds, NEW needs, send(k, needs)
    PROVE  Step
<1>1. /\ running \/ app = "stop"
      /\ ~closed /\ queue' = Append(queue, Len(kind) + 1)
      /\ UNCHANGED <<running, closed, worker, cur, over, connected, dropped, role, app, told, policy_vars>>
      /\ kind' = Append(kind, k)
      /\ pends' = IF k # "RELAY" THEN pends \union {Len(kind) + 1} ELSE pends
    BY DEF send, Channel!Accept
<1>2. dropped = {}
    BY <1>1 DEF Control, Where, Shut
<1>3. Sends(k)
    BY <1>1, <1>2 DEF Sends
<1>4. ControlTypes' /\ Where' /\ Shut'
    BY <1>1, <1>2 DEF Control, ControlTypes, Where, Shut
<1> QED BY <1>1, <1>3, <1>4 DEF Step, Moves, Learns

(* The worker, up to the completion of a request. *)
LEMMA WorkerStep ==
    ASSUME Control, worker_pop \/ try_connect \/ process_item
    PROVE  Step
<1> USE DEF Control, ControlTypes, Working
<1>1. UNCHANGED <<role, policy_vars>>
    BY DEF worker_pop, try_connect, process_item
<1>2. CASE worker_pop /\ Channel!Take
    <2>1. Takes
        BY <1>2 DEF worker_pop, Channel!Take, Takes
    <2>2. cur' # 0
        <3>1. Len(queue) \in Nat \ {0} /\ cur' = queue[1]
            BY <1>2 DEF Channel!Take, SendTypes
        <3>2. Done \in Nat /\ queue[1] = Done + 1
            BY <3>1, Waiting DEF Order
        <3> QED BY <3>1, <3>2
    <2>3. ControlTypes' /\ Where'
        BY <1>2, <2>2 DEF worker_pop, Channel!Take, Where
    <2>4. Shut'
        BY <1>2 DEF worker_pop, Channel!Take, Shut
    <2> QED BY <1>1, <2>1, <2>3, <2>4 DEF Step, Moves, Learns
<1>3. CASE worker_pop /\ Channel!Exit
    <2>1. Stays
        BY <1>3 DEF worker_pop, Channel!Exit, Stays, send_vars
    <2>2. ControlTypes' /\ Where' /\ Shut'
        BY <1>3 DEF worker_pop, Channel!Exit, Where, Shut
    <2> QED BY <1>1, <2>1, <2>2 DEF Step, Moves, Learns
<1>4. CASE try_connect
    <2>1. Stays
        BY <1>4 DEF try_connect, Channel!Connect, Stays, send_vars
    <2>2. ControlTypes' /\ Where' /\ Shut'
        BY <1>4 DEF try_connect, Channel!Connect, Where, Shut
    <2> QED BY <1>1, <2>1, <2>2 DEF Step, Moves, Learns
<1>5. CASE process_item
    <2>1. Stays
        BY <1>5 DEF process_item, Channel!Finish, Stays, send_vars
    <2>2. ControlTypes' /\ Where' /\ Shut'
        BY <1>5 DEF process_item, Channel!Finish, Where, Shut
    <2> QED BY <1>1, <2>1, <2>2 DEF Step, Moves, Learns
<1> QED BY <1>2, <1>3, <1>4, <1>5 DEF worker_pop

(* The end of a request. *)
LEMMA CompletesStep ==
    ASSUME Control, NEW k, NEW r, Completes(k, r)
    PROVE  /\ ControlTypes' /\ Where' /\ Shut' /\ role' = role
           /\ cur # 0 /\ kind[cur] = k /\ cur' = 0 /\ UNCHANGED <<queue, kind, dropped>>
    BY DEF Control, ControlTypes, Completes, Channel!Complete, Where, Shut

(* The completion handlers. *)
LEMMA CompletionsStep ==
    ASSUME Control,
           \/ \E r \in PirinResponses \union {Failure} : on_pirin_complete(r)
           \/ \E r \in Responses \union {Failure}, copied \in BOOLEAN : on_data_complete(r, copied)
           \/ \E r \in {Sent, Failure} : on_pirout_complete(r) \/ relay_complete_noop(r)
    PROVE  Step
<1>1. ASSUME NEW r \in PirinResponses \union {Failure}, on_pirin_complete(r) PROVE Step
    <2>1. Completes("PIRIN", r)
        BY <1>1 DEF on_pirin_complete
    <2>2. Ends
        BY <1>1, <2>1, CompletesStep DEF on_pirin_complete, Tells, Ends
    <2>3. Learns
        <3>1. CASE ~(r.status = "OK" /\ r.command = "I")
            <4>1. UNCHANGED policy_vars
                BY <1>1, <3>1 DEF on_pirin_complete, IsEcho, policy_vars
            <4> QED BY <4>1, <2>1, CompletesStep DEF Learns
        <3>2. CASE IsEcho(r)
            <4>1. Echoes
                BY <1>1, <3>2 DEF on_pirin_complete, IsEcho, Echoes
            <4> QED BY <4>1, <2>1, CompletesStep DEF Learns
        <3>3. CASE r.status = "OK" /\ r.command = "I" /\ ~IsEcho(r)
            <4>1. r.body \in EchoBodies /\ r.body # Empty
                BY <3>3 DEF PirinResponses, Failure, IsEcho
            <4>2. Mistakes
                BY <1>1, <3>3, <4>1 DEF on_pirin_complete, Mistakes, BareEchoes
            <4> QED BY <4>2, <2>1, CompletesStep DEF Learns
        <3> QED BY <3>1, <3>2, <3>3
    <2> QED BY <2>1, <2>2, <2>3, CompletesStep DEF Step, Moves
<1>2. ASSUME NEW r \in Responses \union {Failure}, NEW copied \in BOOLEAN, on_data_complete(r, copied)
      PROVE  Step
    <2>1. Completes("DATA", r)
        BY <1>2 DEF on_data_complete
    <2>2. Ends
        BY <1>2, <2>1, CompletesStep DEF on_data_complete, Tells, Ends
    <2>3. CASE r.status = "OK" /\ r.command = "R"
        <3>1. r \in Responses
            BY <2>3 DEF Failure
        <3>2. /\ history' = Append(history, Meaning(r, copied))
              /\ on_response(IF r.crc_valid THEN r.body ELSE Empty, copied)
            BY <1>2, <2>3 DEF on_data_complete
        <3>3. Meaning(r, copied) \in {"normal", "abnormal", "nothing"} /\ Answers(Meaning(r, copied))
            BY <3>1, <3>2, AnswerIsRead
        <3>4. Learns
            BY <3>3, <2>1, CompletesStep DEF Learns
        <3> QED BY <2>1, <2>2, <3>4, CompletesStep DEF Step, Moves
    <2>4. CASE ~(r.status = "OK" /\ r.command = "R")
        <3>1. Learns
            BY <1>2, <2>1, <2>4, CompletesStep DEF on_data_complete, Learns, policy_vars
        <3> QED BY <2>1, <2>2, <3>1, CompletesStep DEF Step, Moves
    <2> QED BY <2>3, <2>4
<1>3. ASSUME NEW r, on_pirout_complete(r) PROVE Step
    <2>1. Completes("PIROUT", r)
        BY <1>3 DEF on_pirout_complete
    <2>2. Ends
        BY <1>3, <2>1, CompletesStep DEF on_pirout_complete, Tells, Ends
    <2>3. Learns
        BY <1>3, <2>1, CompletesStep DEF on_pirout_complete, Learns, policy_vars
    <2> QED BY <2>1, <2>2, <2>3, CompletesStep DEF Step, Moves
<1>4. ASSUME NEW r, relay_complete_noop(r) PROVE Step
    <2>1. Completes("RELAY", r)
        BY <1>4 DEF relay_complete_noop
    <2>2. Ends
        BY <1>4, <2>1, CompletesStep DEF relay_complete_noop, Ends
    <2>3. Learns
        BY <1>4, <2>1, CompletesStep DEF relay_complete_noop, Learns, policy_vars
    <2> QED BY <2>1, <2>2, <2>3, CompletesStep DEF Step, Moves
<1> QED BY <1>1, <1>2, <1>3, <1>4

(* Every step of the session is such a step. *)
LEMMA NextSteps == ASSUME Control, [Next]_vars PROVE Step
<1>1. CASE UNCHANGED vars
    <2>1. Stays /\ UNCHANGED <<role, policy_vars>>
        BY <1>1 DEF vars, channel_vars, Stays, send_vars
    <2>2. ControlTypes' /\ Where' /\ Shut'
        BY <1>1 DEF vars, channel_vars, Control, ControlTypes, Where, Shut
    <2> QED BY <2>1, <2>2 DEF Step, Moves, Learns
<1>2. CASE send_pirin \/ send_data \/ send_pirout \/ relay_rknn_result
    BY Zenon, <1>2, SendsStep DEF send_pirin, send_data, send_pirout, relay_rknn_result, Kinds
<1> QED BY <1>1, <1>2, CallsStep, WorkerStep, CompletionsStep DEF Next

-----------------------------------------------------------------------------
(* The session that create returns satisfies the invariant. *)
LEMMA InitEstablishes == Init => IInv
<1> SUFFICES ASSUME Init PROVE IInv
    OBVIOUS
<1> USE DEF Init, Channel!Init
<1>1. ControlTypes /\ Where /\ Shut
    BY Zenon DEF ControlTypes, Apps, Where, Shut
<1>2. SendTypes /\ PolicyTypes
    BY DEF SendTypes, PolicyTypes
<1>3. Order
    <2>1. Len(queue) = 0 /\ Len(kind) = 0 /\ cur = 0 /\ dropped = {} /\ Done = 0
        BY DEF Done
    <2> QED BY <2>1 DEF Order
<1>4. Range(told) = {} /\ Range(queue) = {} /\ Done = 0
    BY DEF Range, Done
<1>5. Outcomes
    BY <1>4 DEF Outcomes
<1>6. PendsAccounted
    BY <1>4 DEF PendsAccounted
<1>7. Run(history, Len(history)) = {} /\ Loud(history) = {} /\ Abnormal(history) = {}
    BY DEF Run, Loud, Abnormal
<1>8. Policy
    BY <1>7, FS_EmptySet DEF Policy
<1> QED BY <1>1, <1>2, <1>3, <1>5, <1>6, <1>8 DEF IInv

(* The invariant holds in every reachable state of the session: each call  *)
(* of the application, each step of the channel's worker and each          *)
(* completion handler of session.c keeps it.                               *)
THEOREM Invariance == SafeSpec => []IInv
<1>1. ASSUME IInv, [Next]_vars PROVE IInv'
    <2>1. Control /\ PolicyTypes /\ Outcomes /\ PendsAccounted /\ Policy
        BY <1>1 DEF IInv, Control
    <2>2. Step
        BY <1>1, <2>1, NextSteps
    <2>3. SendTypes /\ Order /\ role \in {"STREAM", "VOICE"} /\ Moves /\ Learns
        BY <2>1, <2>2 DEF Control, Step, ControlTypes
    <2>4. SendTypes' /\ Order'
        BY <2>3, MovesKeepOrder
    <2>5. Outcomes'
        BY <2>1, <2>3, MovesKeepOutcomes
    <2>6. PendsAccounted'
        BY <2>1, <2>3, MovesKeepPends
    <2>7. PolicyTypes' /\ Policy'
        BY <2>1, <2>3, LearningKeepsPolicy
    <2> QED BY <2>2, <2>4, <2>5, <2>6, <2>7 DEF Step, IInv
<1> QED BY <1>1, InitEstablishes, PTL DEF SafeSpec

(* Each accepted send but a relay has its on_sent, once and in the order   *)
(* of the calls, and only what stop dropped or what waits without a worker *)
(* is left out: whatever the queue depth, the number of sends, the restart *)
(* of the channel and the point at which stop comes.                       *)
THEOREM EachSendIsTold == SafeSpec => []OutcomesInOrder
BY Invariance, OutcomesSuffice, PTL

(* The completion handlers free every pending_send_t of a request that     *)
(* ends; those of the requests that stop drops leak, and no others.        *)
THEOREM PendsAreAccountedFor == SafeSpec => []PendsAccounted
<1>1. IInv => PendsAccounted
    BY DEF IInv
<1> QED BY <1>1, Invariance, PTL

(* sensor_result_policy_on_response counts and alerts as result_policy.h   *)
(* says, on every history of fewer answers than the counter has values,    *)
(* with a server whose echoes of PIRIN have no body: that on_pirin_complete *)
(* does not look at the body makes no other difference.                    *)
THEOREM AlertsFollowTheRuns ==
    ASSUME BareEchoes
    PROVE  SafeSpec => [](Len(history) < CounterModulus => AlertsFollowRuns)
<1>1. IInv => (Len(history) < CounterModulus => AlertsFollowRuns)
    BY AlertsSuffice
<1> QED BY <1>1, Invariance, PTL

(* Once stop has returned, and until the next start, no step calls on_sent *)
(* or on_alert, counts a result or has a request in hand: the join in stop *)
(* makes it safe for destroy to free the policy.                           *)
THEOREM NothingCalledAfterStop == SafeSpec => SilentAfterStop
<1>1. ASSUME IInv, [Next]_vars
      PROVE  [~running /\ app \in {"no", "destroyed"} => UNCHANGED <<told, alerts, danger_count, cur>>]_vars
    <2> SUFFICES ASSUME ~running, app \in {"no", "destroyed"}
                 PROVE  UNCHANGED <<told, alerts, danger_count, cur>>
        OBVIOUS
    <2>1. worker # "run" /\ cur = 0 /\ over = "no"
        BY <1>1 DEF IInv, Where
    <2>2. ~Channel!Take /\ \A k, r : ~Completes(k, r)
        BY <2>1 DEF Channel!Take, Completes
    <2>3. CASE UNCHANGED vars
        BY <2>3 DEF vars, channel_vars, policy_vars
    <2>4. CASE start \/ start_create \/ stop_cancel \/ stop_return
        BY <2>4 DEF start, start_create, stop_cancel, stop_return, policy_vars, channel_vars,
                    Channel!Start, Channel!Spawn, Channel!Halt, Channel!Drop
    <2>5. ASSUME NEW by \in {"stop", "destroy"}, stop(by) PROVE UNCHANGED <<told, alerts, danger_count, cur>>
        BY <2>5 DEF stop, policy_vars, channel_vars, Channel!Halt
    <2>6. CASE send_pirin \/ send_data \/ send_pirout \/ relay_rknn_result
        BY <2>6 DEF send_pirin, send_data, send_pirout, relay_rknn_result, send, Channel!Accept, policy_vars
    <2>7. CASE worker_pop \/ try_connect \/ process_item
        BY <2>2, <2>7 DEF worker_pop, try_connect, process_item, Working, Channel!Exit, Channel!Connect,
                          Channel!Finish, policy_vars
    <2>8. CASE \/ \E r \in PirinResponses \union {Failure} : on_pirin_complete(r)
               \/ \E r \in Responses \union {Failure}, copied \in BOOLEAN : on_data_complete(r, copied)
               \/ \E r \in {Sent, Failure} : on_pirout_complete(r) \/ relay_complete_noop(r)
        BY <2>2, <2>8 DEF on_pirin_complete, on_data_complete, on_pirout_complete, relay_complete_noop
    <2> QED BY <1>1, <2>3, <2>4, <2>5, <2>6, <2>7, <2>8 DEF Next
<1> QED BY <1>1, Invariance, PTL DEF SafeSpec, SilentAfterStop
=============================================================================
