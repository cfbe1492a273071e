----------------------------- MODULE Core_proofs -----------------------------
(***************************************************************************)
(* Proofs about the components of src/core that stand on their own.        *)
(*                                                                         *)
(* SavvyQueue, for every finite set of threads, every set of               *)
(* items and every capacity: the types, that no wake-up is lost, and (the  *)
(* safety half of the refinement) that the ring buffer is a bounded FIFO.  *)
(*                                                                         *)
(* SensorLifecycle, for every number of callers and modules and any number *)
(* of fan-outs: the registry outlives its fan-outs, each one reaches each  *)
(* boot module once, and in the order of registration.                     *)
(***************************************************************************)
EXTENDS SavvyQueue, SensorLifecycle, FiniteSetTheorems, SequenceTheorems, TLAPS

-----------------------------------------------------------------------------
(* The registry of modules. *)
CallType == [at : {"idle", "snapshot", "fan_out"}, hook : Hooks \union {"none"},
             count : 0..MaxModules, next : 0..(MaxModules + 1)]

(* The callers dispatching a snapshot, when their calls are k. *)
Fanning(k) == {c \in Callers : k[c].at = "fan_out"}

(* The callers that will still call hook h of module m. *)
Pending(k, m, h) ==
    {c \in Callers : /\ k[c].hook = h
                     /\ k[c].at = "snapshot" \/ (k[c].at = "fan_out" /\ k[c].next <= m)}

Shape ==
    \A c \in Callers :
      /\ call[c].at = "idle" => call[c] = IdleCall
      /\ call[c].at # "idle" => call[c].hook \in Hooks
      /\ call[c].at = "fan_out" => /\ call[c].count <= module_count
                                   /\ call[c].next \in 1..(call[c].count + 1)

Depth == callback_depth = Cardinality(Fanning(call))

Unregistered == \A m \in 1..MaxModules, h \in Hooks :
                  m > module_count => told[m][h] = 0 /\ boot[m][h] = -1

(* What a boot module has not heard yet, somebody is about to tell it. *)
Accounted ==
    \A m \in 1..module_count, h \in Hooks :
      boot[m][h] # -1 =>
        /\ told[m][h] + Cardinality(Pending(call, m, h)) + boot[m][h] = fans[h]
        /\ \A c \in Callers : call[c].at = "fan_out" => m <= call[c].count

(* The inductive invariant. *)
RegistryIInv == RegistryTypeOK /\ Shape /\ Depth /\ Unregistered /\ Accounted /\ AliveInFanOut

(* Sets of callers are finite, and are counted by naturals. *)
LEMMA Dispatching ==
    ASSUME NEW S \in SUBSET Callers
    PROVE  /\ IsFiniteSet(S) /\ Cardinality(S) \in Nat /\ Cardinality(S) <= Cardinality(Callers)
           /\ Cardinality(Callers) \in Nat /\ (Cardinality(S) = 0 <=> S = {})
           /\ \A T \in SUBSET S : Cardinality(T) <= Cardinality(S) /\ Cardinality(T) \in Nat
           /\ \A c \in Callers \ S : Cardinality(S \union {c}) = Cardinality(S) + 1
           /\ \A c \in S : Cardinality(S \ {c}) = Cardinality(S) - 1
<1>1. IsFiniteSet(S) /\ Cardinality(S) <= Cardinality(Callers)
  BY Zenon, CallersAssumption, FS_Subset
<1>2. \A T \in SUBSET S : IsFiniteSet(T) /\ Cardinality(T) <= Cardinality(S)
  BY Zenon, <1>1, FS_Subset
<1>3. Cardinality(S) \in Nat /\ Cardinality(Callers) \in Nat
      /\ \A T \in SUBSET S : Cardinality(T) \in Nat
  BY Zenon, <1>1, <1>2, CallersAssumption, FS_CardinalityType
<1>4. \A c \in Callers \ S : Cardinality(S \union {c}) = Cardinality(S) + 1
  BY Zenon, <1>1, FS_AddElement
<1>5. \A c \in S : Cardinality(S \ {c}) = Cardinality(S) - 1
  BY Zenon, <1>1, FS_RemoveElement
<1>6. Cardinality(S) = 0 <=> S = {}
  BY Zenon, <1>1, FS_EmptySet
<1> QED
  BY Zenon, <1>1, <1>2, <1>3, <1>4, <1>5, <1>6

LEMMA RegistryInitInv == RegistryInit => RegistryIInv
<1> SUFFICES ASSUME RegistryInit PROVE RegistryIInv
  BY Zenon
<1>1. RegistryTypeOK
  <2>1. Cardinality(Callers) \in Nat
    BY Zenon, CallersAssumption, FS_CardinalityType
  <2>2. IdleCall \in CallType
    BY BoundsAssumption DEF IdleCall, CallType
  <2>3. call \in [Callers -> CallType] /\ fans \in [Hooks -> 0..MaxFans]
    BY <2>2, BoundsAssumption DEF RegistryInit
  <2>4. boot \in [1..MaxModules -> [Hooks -> -1..MaxFans]] /\ told \in [1..MaxModules -> [Hooks -> Nat]]
    BY BoundsAssumption DEF RegistryInit
  <2>5. registry_destroyed \in BOOLEAN
    BY Zenon DEF RegistryInit
  <2>6. /\ state \in {"STOPPED", "RUNNING"}
        /\ module_count \in 0..MaxModules /\ callback_depth \in 0..Cardinality(Callers)
    BY <2>1, BoundsAssumption DEF RegistryInit
  <2> QED
    BY <2>3, <2>4, <2>5, <2>6, Zenon DEF RegistryTypeOK, CallType
<1>2. Shape
  BY Zenon DEF RegistryInit, Shape, IdleCall
<1>3. Depth
  <2>1. Fanning(call) = {}
    BY Zenon DEF RegistryInit, Fanning, IdleCall
  <2> QED
    BY Zenon, <2>1, FS_EmptySet DEF RegistryInit, Depth
<1>4. Unregistered /\ Accounted /\ AliveInFanOut
  BY DEF RegistryInit, Unregistered, Accounted, AliveInFanOut
<1> QED
  BY Zenon, <1>1, <1>2, <1>3, <1>4 DEF RegistryIInv
-----------------------------------------------------------------------------
(* One lemma per action. *)

LEMMA RegisterStep == ASSUME RegistryIInv, NEW c \in Callers, register_module(c) PROVE RegistryIInv'
<1> DEFINE n == module_count + 1
<1>0. /\ RegistryTypeOK /\ Shape /\ Depth /\ Unregistered /\ Accounted /\ AliveInFanOut
      /\ module_count \in Nat /\ n \in 1..MaxModules /\ module_count' = n /\ ~registry_destroyed
      /\ UNCHANGED <<state, callback_depth, registry_destroyed, call, fans, told>>
  BY BoundsAssumption DEF RegistryIInv, RegistryTypeOK, register_module
<1>1. \/ boot' = boot
      \/ Inside = {} /\ boot' = [boot EXCEPT ![n] = fans]
  BY Zenon DEF register_module
<1>2. RegistryTypeOK'
  <2>0. fans \in [Hooks -> -1..MaxFans] /\ boot \in [1..MaxModules -> [Hooks -> -1..MaxFans]]
    BY SMTT(30), <1>0, BoundsAssumption DEF RegistryTypeOK
  <2>1. boot' \in [1..MaxModules -> [Hooks -> -1..MaxFans]]
    BY Zenon, <1>0, <1>1, <2>0
  <2> QED
    BY <1>0, <2>1, BoundsAssumption DEF RegistryTypeOK
<1>3. Shape'
  BY <1>0, BoundsAssumption DEF Shape, RegistryTypeOK
<1>4. Depth' /\ AliveInFanOut'
  BY Zenon, <1>0 DEF Depth, Fanning, AliveInFanOut, Inside
<1>5. Unregistered'
  BY SMTT(30), <1>0, <1>1, BoundsAssumption DEF Unregistered, RegistryTypeOK
<1>6. Accounted'
  <2> SUFFICES ASSUME NEW m \in 1..n, NEW h \in Hooks, boot'[m][h] # -1
               PROVE  /\ told[m][h] + Cardinality(Pending(call, m, h)) + boot'[m][h] = fans[h]
                      /\ \A d \in Callers : call[d].at = "fan_out" => m <= call[d].count
    BY <1>0 DEF Accounted, Pending
  <2>1. CASE m <= module_count
    <3>0. boot \in [1..MaxModules -> [Hooks -> -1..MaxFans]]
      BY Zenon, <1>0 DEF RegistryTypeOK
    <3>1. m \in 1..module_count /\ m # n /\ m \in 1..MaxModules
      BY <1>0, <2>1, BoundsAssumption
    <3>2. boot'[m][h] = boot[m][h]
      BY Zenon, <1>0, <1>1, <3>0, <3>1
    <3> QED
      BY Zenon, <1>0, <3>1, <3>2 DEF Accounted
  <2>2. CASE m = n
    <3>1. boot[n][h] = -1 /\ told[n][h] = 0
      BY <1>0 DEF Unregistered
    <3>2. Inside = {} /\ boot'[n][h] = fans[h]
      BY Zenon, <1>0, <1>1, <2>2, <3>1 DEF RegistryTypeOK
    <3>3. \A d \in Callers : call[d] = IdleCall
      BY Zenon, <3>2 DEF Inside
    <3>4. Pending(call, m, h) = {} /\ \A d \in Callers : call[d].at # "fan_out"
      BY <3>3 DEF Pending, IdleCall
    <3>5. Cardinality(Pending(call, m, h)) = 0
      BY Zenon, <3>4, FS_EmptySet
    <3>6. fans[h] \in Int
      BY <1>0, BoundsAssumption DEF RegistryTypeOK
    <3> QED
      BY <2>2, <3>1, <3>2, <3>4, <3>5, <3>6
  <2> QED
    BY <1>0, <2>1, <2>2
<1> QED
  BY Zenon, <1>2, <1>3, <1>4, <1>5, <1>6 DEF RegistryIInv

(* start, stop and notify_config_applied. *)
LEMMA DecideStep ==
    ASSUME RegistryIInv, NEW c \in Callers, NEW hk \in Hooks, call[c] = IdleCall, ~registry_destroyed,
           Decides(c, hk), state' \in {"STOPPED", "RUNNING"}
    PROVE  RegistryIInv'
<1> DEFINE new == [IdleCall EXCEPT !.at = "snapshot", !.hook = hk]
<1>0. /\ RegistryTypeOK /\ Shape /\ Depth /\ Unregistered /\ Accounted
      /\ UNCHANGED <<module_count, callback_depth, registry_destroyed, boot, told>>
      /\ call' = [call EXCEPT ![c] = new] /\ call \in [Callers -> CallType]
      /\ fans' = [fans EXCEPT ![hk] = @ + 1] /\ fans[hk] < MaxFans /\ module_count \in Nat
      /\ fans \in [Hooks -> 0..MaxFans] /\ MaxFans \in Nat
  BY BoundsAssumption DEF RegistryIInv, RegistryTypeOK, Decides, CallType
<1>1. new.at = "snapshot" /\ new.hook = hk /\ new \in CallType
  <2>1. IdleCall \in CallType
    BY BoundsAssumption DEF IdleCall, CallType
  <2> QED
    BY Zenon, <2>1 DEF CallType
<1> HIDE DEF new
<1>2. call' \in [Callers -> CallType] /\ fans' \in [Hooks -> 0..MaxFans]
  BY <1>0, <1>1
<1>3. RegistryTypeOK'
  BY Zenon, <1>0, <1>2 DEF RegistryTypeOK, CallType
<1>4. Shape'
  BY Zenon, <1>0, <1>1 DEF Shape
<1>5. Depth'
  <2>1. Fanning(call') = Fanning(call)
    BY <1>0, <1>1 DEF Fanning, IdleCall
  <2> QED
    BY Zenon, <1>0, <2>1 DEF Depth
<1>6. Unregistered' /\ AliveInFanOut'
  BY Zenon, <1>0 DEF Unregistered, AliveInFanOut
<1>7. Accounted'
  <2> SUFFICES ASSUME NEW m \in 1..module_count, NEW h \in Hooks, boot[m][h] # -1
               PROVE  /\ told[m][h] + Cardinality(Pending(call', m, h)) + boot[m][h] = fans'[h]
                      /\ \A d \in Callers : call'[d].at = "fan_out" => m <= call'[d].count
    BY <1>0 DEF Accounted, Pending
  <2>0. /\ told[m][h] + Cardinality(Pending(call, m, h)) + boot[m][h] = fans[h]
        /\ \A d \in Callers : call[d].at = "fan_out" => m <= call[d].count
    BY Zenon, <1>0 DEF Accounted
  <2>1. told[m][h] \in Int /\ boot[m][h] \in Int /\ fans[h] \in Int
    BY <1>0, BoundsAssumption DEF RegistryTypeOK
  <2>2. CASE h = hk
    <3>1. c \notin Pending(call, m, h) /\ Pending(call', m, h) = Pending(call, m, h) \union {c}
      BY <1>0, <1>1, <2>2 DEF Pending, IdleCall
    <3>2. Pending(call, m, h) \in SUBSET Callers
      BY Zenon DEF Pending
    <3>3. Cardinality(Pending(call', m, h)) = Cardinality(Pending(call, m, h)) + 1
          /\ Cardinality(Pending(call, m, h)) \in Nat
      BY <3>1, <3>2, Dispatching
    <3>4. fans'[h] = fans[h] + 1
      BY Zenon, <1>0, <2>2
    <3>5. told[m][h] + Cardinality(Pending(call', m, h)) + boot[m][h] = fans'[h]
      BY <2>0, <2>1, <3>3, <3>4
    <3>6. \A d \in Callers : call'[d].at = "fan_out" => m <= call'[d].count
      BY Zenon, <1>0, <1>1, <2>0
    <3> QED
      BY Zenon, <3>5, <3>6
  <2>3. CASE h # hk
    <3>1. Pending(call', m, h) = Pending(call, m, h)
      BY <1>0, <1>1, <2>3 DEF Pending, IdleCall
    <3> QED
      BY Zenon, <1>0, <1>1, <2>0, <2>3, <3>1
  <2> QED
    BY Zenon, <2>2, <2>3
<1> QED
  BY Zenon, <1>3, <1>4, <1>5, <1>6, <1>7 DEF RegistryIInv

(* callback_depth counts one fan-out more; count is what there is now. *)
LEMMA SnapshotStep == ASSUME RegistryIInv, NEW c \in Callers, snapshot_modules(c) PROVE RegistryIInv'
<1>0. /\ RegistryTypeOK /\ Shape /\ Depth /\ Unregistered /\ Accounted /\ AliveInFanOut
      /\ UNCHANGED <<state, module_count, registry_destroyed, fans, boot, told>>
      /\ call[c].at = "snapshot" /\ callback_depth' = callback_depth + 1
      /\ call \in [Callers -> CallType] /\ module_count \in Nat /\ module_count <= MaxModules
      /\ call[c] # IdleCall
  BY BoundsAssumption DEF RegistryIInv, RegistryTypeOK, snapshot_modules, CallType, IdleCall
<1>1. /\ call' \in [Callers -> CallType]
      /\ call'[c].at = "fan_out" /\ call'[c].hook = call[c].hook
      /\ call'[c].count = module_count /\ call'[c].next = 1
      /\ \A d \in Callers \ {c} : call'[d] = call[d]
  <2>1. call[c] \in CallType /\ module_count \in 0..MaxModules /\ 1 \in 0..(MaxModules + 1)
    BY <1>0, BoundsAssumption
  <2>2. call' = [call EXCEPT ![c] = [call[c] EXCEPT !.at = "fan_out", !.count = module_count, !.next = 1]]
    BY Zenon, <1>0 DEF snapshot_modules
  <2>3. [call[c] EXCEPT !.at = "fan_out", !.count = module_count, !.next = 1] \in CallType
    BY Zenon, <2>1 DEF CallType
  <2> QED
    BY Zenon, <1>0, <2>1, <2>2, <2>3 DEF CallType
<1>2. Fanning(call') = Fanning(call) \union {c} /\ c \in Callers \ Fanning(call)
      /\ Fanning(call) \in SUBSET Callers /\ Fanning(call') \in SUBSET Callers
  BY Zenon, <1>0, <1>1 DEF Fanning
<1>3. /\ Cardinality(Fanning(call')) = Cardinality(Fanning(call)) + 1
      /\ Cardinality(Fanning(call')) \in 0..Cardinality(Callers)
  BY <1>2, Dispatching
<1>4. Depth' /\ RegistryTypeOK'
  <2>1. callback_depth' = Cardinality(Fanning(call'))
    BY Zenon, <1>0, <1>3 DEF Depth
  <2> QED
    BY Zenon, <1>0, <1>1, <1>3, <2>1 DEF Depth, RegistryTypeOK, CallType
<1>5. Shape'
  BY <1>0, <1>1 DEF Shape
<1>6. Unregistered' /\ AliveInFanOut'
  BY Zenon, <1>0 DEF Unregistered, AliveInFanOut, Inside
<1>7. Accounted'
  <2> SUFFICES ASSUME NEW m \in 1..module_count, NEW h \in Hooks, boot[m][h] # -1
               PROVE  /\ told[m][h] + Cardinality(Pending(call', m, h)) + boot[m][h] = fans[h]
                      /\ \A d \in Callers : call'[d].at = "fan_out" => m <= call'[d].count
    BY <1>0 DEF Accounted, Pending
  <2>0. /\ told[m][h] + Cardinality(Pending(call, m, h)) + boot[m][h] = fans[h]
        /\ \A d \in Callers : call[d].at = "fan_out" => m <= call[d].count
    BY Zenon, <1>0 DEF Accounted
  <2>1. Pending(call', m, h) = Pending(call, m, h)
    BY <1>0, <1>1 DEF Pending
  <2>2. \A d \in Callers : call'[d].at = "fan_out" => m <= call'[d].count
    BY <1>0, <1>1, <2>0
  <2> QED
    BY Zenon, <2>0, <2>1, <2>2
<1> QED
  BY Zenon, <1>4, <1>5, <1>6, <1>7 DEF RegistryIInv

(* One module hears one hook, and the caller leaves that Pending set only. *)
LEMMA HookStep == ASSUME RegistryIInv, NEW c \in Callers, run_hook(c) PROVE RegistryIInv'
<1> DEFINE k == call[c].next
           g == call[c].hook
<1>0. /\ RegistryTypeOK /\ Shape /\ Depth /\ Unregistered /\ Accounted /\ AliveInFanOut
      /\ UNCHANGED <<state, module_count, callback_depth, registry_destroyed, fans, boot>>
      /\ call[c].at = "fan_out" /\ k <= call[c].count
      /\ call \in [Callers -> CallType] /\ module_count \in Nat /\ module_count <= MaxModules
      /\ told \in [1..MaxModules -> [Hooks -> Nat]] /\ call[c] # IdleCall
  BY BoundsAssumption DEF RegistryIInv, RegistryTypeOK, run_hook, CallType, IdleCall
<1>1. /\ call[c].count \in Nat /\ call[c].count <= module_count
      /\ k \in 1..module_count /\ k \in 1..MaxModules /\ g \in Hooks
  BY <1>0, BoundsAssumption DEF Shape, CallType
<1>2. /\ call' \in [Callers -> CallType]
      /\ call'[c].at = "fan_out" /\ call'[c].hook = g
      /\ call'[c].count = call[c].count /\ call'[c].next = k + 1
      /\ \A d \in Callers \ {c} : call'[d] = call[d]
  <2>1. call[c] \in CallType /\ k + 1 \in 0..(MaxModules + 1)
    BY <1>0, <1>1, BoundsAssumption
  <2>2. call' = [call EXCEPT ![c] = [call[c] EXCEPT !.next = k + 1]]
    BY Zenon, <1>0 DEF run_hook
  <2>3. [call[c] EXCEPT !.next = k + 1] \in CallType
    BY Zenon, <2>1 DEF CallType
  <2> QED
    BY Zenon, <1>0, <2>1, <2>2, <2>3 DEF CallType
<1>3. /\ told' \in [1..MaxModules -> [Hooks -> Nat]]
      /\ \A m \in 1..MaxModules, h \in Hooks :
           told'[m][h] = IF m = k /\ h = g THEN told[m][h] + 1 ELSE told[m][h]
  BY SMTT(30), <1>0, <1>1 DEF run_hook
<1> HIDE DEF k, g
<1>4. Fanning(call') = Fanning(call)
  BY Zenon, <1>0, <1>2 DEF Fanning
<1>5. RegistryTypeOK' /\ Depth'
  BY Zenon, <1>0, <1>2, <1>3, <1>4 DEF RegistryTypeOK, Depth, CallType
<1>6. Shape'
  BY <1>0, <1>1, <1>2 DEF Shape
<1>7. Unregistered' /\ AliveInFanOut'
  BY <1>0, <1>1, <1>3 DEF Unregistered, AliveInFanOut, Inside
<1>8. Accounted'
  <2> SUFFICES ASSUME NEW m \in 1..module_count, NEW h \in Hooks, boot[m][h] # -1
               PROVE  /\ told'[m][h] + Cardinality(Pending(call', m, h)) + boot[m][h] = fans[h]
                      /\ \A d \in Callers : call'[d].at = "fan_out" => m <= call'[d].count
    BY ZenonT(30), <1>0 DEF Accounted, Pending
  <2>0. /\ told[m][h] + Cardinality(Pending(call, m, h)) + boot[m][h] = fans[h]
        /\ \A d \in Callers : call[d].at = "fan_out" => m <= call[d].count
    BY Zenon, <1>0 DEF Accounted
  <2>1. m \in 1..MaxModules /\ told[m][h] \in Nat /\ boot[m][h] \in Int
    BY <1>0, BoundsAssumption DEF RegistryTypeOK
  <2>2. \A d \in Callers : call'[d].at = "fan_out" => m <= call'[d].count
    BY Zenon, <1>0, <1>2, <2>0
  <2>3. CASE m = k /\ h = g
    <3>1. c \in Pending(call, m, h) /\ Pending(call', m, h) = Pending(call, m, h) \ {c}
      BY <1>0, <1>1, <1>2, <2>3 DEF Pending, k, g
    <3>2. Pending(call, m, h) \in SUBSET Callers
      BY Zenon DEF Pending
    <3>3. Cardinality(Pending(call', m, h)) = Cardinality(Pending(call, m, h)) - 1
          /\ Cardinality(Pending(call, m, h)) \in Nat
      BY <3>1, <3>2, Dispatching
    <3>4. told'[m][h] = told[m][h] + 1
      BY Zenon, <1>3, <2>1, <2>3
    <3> QED
      BY <2>0, <2>1, <2>2, <3>3, <3>4
  <2>4. CASE ~(m = k /\ h = g)
    <3>1. Pending(call', m, h) = Pending(call, m, h)
      <4>1. \A d \in Callers : d \in Pending(call', m, h) <=> d \in Pending(call, m, h)
        BY <1>0, <1>1, <1>2, <2>4 DEF Pending, k, g
      <4> QED
        BY Zenon, <4>1 DEF Pending
    <3>2. told'[m][h] = told[m][h]
      BY Zenon, <1>3, <2>1, <2>4
    <3> QED
      BY Zenon, <2>0, <2>2, <3>1, <3>2
  <2> QED
    BY Zenon, <2>3, <2>4
<1> QED
  BY Zenon, <1>5, <1>6, <1>7, <1>8 DEF RegistryIInv

(* The caller has called every boot module. *)
LEMMA FinishStep == ASSUME RegistryIInv, NEW c \in Callers, finish_module_snapshot(c) PROVE RegistryIInv'
<1>0. /\ RegistryTypeOK /\ Shape /\ Depth /\ Unregistered /\ Accounted /\ AliveInFanOut
      /\ UNCHANGED <<state, module_count, registry_destroyed, fans, boot, told>>
      /\ call[c].at = "fan_out" /\ call[c].next > call[c].count
      /\ callback_depth' = callback_depth - 1 /\ call' = [call EXCEPT ![c] = IdleCall]
      /\ call \in [Callers -> CallType] /\ module_count \in Nat
  BY SMTT(30), BoundsAssumption DEF RegistryIInv, RegistryTypeOK, finish_module_snapshot, CallType
<1>1. IdleCall \in CallType /\ IdleCall.at = "idle" /\ IdleCall.hook = "none"
  BY BoundsAssumption DEF IdleCall, CallType
<1>2. /\ call' \in [Callers -> CallType] /\ call'[c] = IdleCall
      /\ \A d \in Callers \ {c} : call'[d] = call[d]
  BY Zenon, <1>0, <1>1
<1>3. /\ Fanning(call') = Fanning(call) \ {c} /\ c \in Fanning(call)
      /\ Fanning(call) \in SUBSET Callers /\ Fanning(call') \in SUBSET Callers
  BY Zenon, <1>0, <1>1, <1>2 DEF Fanning
<1>4. /\ Cardinality(Fanning(call')) = Cardinality(Fanning(call)) - 1
      /\ Cardinality(Fanning(call')) \in 0..Cardinality(Callers)
  BY <1>3, Dispatching
<1>5. Depth' /\ RegistryTypeOK'
  <2>1. callback_depth' = Cardinality(Fanning(call'))
    BY Zenon, <1>0, <1>4 DEF Depth
  <2> QED
    BY Zenon, <1>0, <1>2, <1>4, <2>1 DEF Depth, RegistryTypeOK, CallType
<1>6. Shape'
  BY Zenon, <1>0, <1>1, <1>2 DEF Shape
<1>7. Unregistered' /\ AliveInFanOut'
  BY Zenon, <1>0, <1>1 DEF Unregistered, AliveInFanOut, Inside
<1>8. Accounted'
  <2> SUFFICES ASSUME NEW m \in 1..module_count, NEW h \in Hooks, boot[m][h] # -1
               PROVE  /\ told[m][h] + Cardinality(Pending(call', m, h)) + boot[m][h] = fans[h]
                      /\ \A d \in Callers : call'[d].at = "fan_out" => m <= call'[d].count
    BY <1>0 DEF Accounted, Pending
  <2>0. m <= call[c].count
    BY Zenon, <1>0 DEF Accounted
  <2>1. call[c].next \in Nat /\ call[c].count \in Nat
    BY <1>0, BoundsAssumption DEF CallType
  <2>2. c \notin Pending(call, m, h) /\ c \notin Pending(call', m, h)
    BY <1>0, <1>1, <1>2, <2>0, <2>1 DEF Pending
  <2>3. Pending(call', m, h) = Pending(call, m, h)
    BY Zenon, <1>2, <2>2 DEF Pending
  <2> QED
    BY Zenon, <1>0, <1>1, <1>2, <2>3 DEF Accounted
<1> QED
  BY Zenon, <1>5, <1>6, <1>7, <1>8 DEF RegistryIInv

(* A hook that calls destroy is in a fan-out, which callback_depth counts. *)
LEMMA RegistryDestroyStep == ASSUME RegistryIInv, destroy_registry PROVE RegistryIInv'
<1>0. /\ RegistryTypeOK /\ Shape /\ Depth /\ Unregistered /\ Accounted
      /\ UNCHANGED <<state, module_count, callback_depth, call, fans, boot, told>>
      /\ callback_depth = 0
  BY Zenon DEF RegistryIInv, destroy_registry
<1>1. Fanning(call) = {}
  <2>1. Fanning(call) \in SUBSET Callers
    BY Zenon DEF Fanning
  <2> QED
    BY ZenonT(30), <1>0, <2>1, Dispatching DEF Depth
<1>2. Inside = {}
  BY Zenon, <1>1 DEF destroy_registry, Fanning, Inside
<1>3. AliveInFanOut'
  BY Zenon, <1>0, <1>2 DEF AliveInFanOut, Inside
<1>4. registry_destroyed' \in BOOLEAN
  BY Zenon DEF destroy_registry
<1>5. RegistryTypeOK'
  BY <1>0, <1>4, Zenon DEF RegistryTypeOK
<1> QED
  BY Zenon, <1>0, <1>3, <1>5 DEF RegistryIInv, Shape, Depth, Unregistered, Accounted

LEMMA RegistryNextInv == RegistryIInv /\ [RegistryNext]_registry_vars => RegistryIInv'
<1> SUFFICES ASSUME RegistryIInv, [RegistryNext]_registry_vars PROVE RegistryIInv'
  BY Zenon
<1>1. ASSUME NEW c \in Callers, start(c) \/ notify_config_applied(c) \/ stop(c) PROVE RegistryIInv'
  <2>0. {"on_start", "on_config_applied", "on_shutdown"} \subseteq Hooks
        /\ state \in {"STOPPED", "RUNNING"}
    BY Zenon DEF Hooks, RegistryIInv, RegistryTypeOK
  <2>1. CASE start(c)
    BY Zenon, <2>0, <2>1, DecideStep DEF start
  <2>2. CASE notify_config_applied(c)
    BY Zenon, <2>0, <2>2, DecideStep DEF notify_config_applied
  <2>3. CASE stop(c)
    BY Zenon, <2>0, <2>3, DecideStep DEF stop
  <2> QED
    BY Zenon, <1>1, <2>1, <2>2, <2>3
<1>2. CASE UNCHANGED registry_vars
  BY Zenon, <1>2 DEF registry_vars, RegistryIInv, RegistryTypeOK, Shape, Depth, Unregistered, Accounted,
              AliveInFanOut, Inside
<1> QED
  BY Zenon, <1>1, <1>2, RegisterStep, SnapshotStep, HookStep, FinishStep, RegistryDestroyStep DEF RegistryNext

(* The inductive invariant holds in every reachable state. *)
THEOREM RegistryInvariance == RegistrySpec => []RegistryIInv
BY RegistryInitInv, RegistryNextInv, PTL DEF RegistrySpec

-----------------------------------------------------------------------------
(* callback_depth never exceeds the threads that can be in a fan-out, and   *)
(* a fan-out goes through at most the modules there is room for.            *)
THEOREM RegistryTypesKept == RegistrySpec => []RegistryTypeOK
<1>1. RegistryIInv => RegistryTypeOK
  BY DEF RegistryIInv
<1> QED
  BY <1>1, RegistryInvariance, PTL

(* However many fan-outs overlap, and whichever hook asks for it: the      *)
(* registry is not destroyed while anybody is inside it.                   *)
THEOREM RegistryOutlivesFanOuts == RegistrySpec => []AliveInFanOut
<1>1. RegistryIInv => AliveInFanOut
  BY DEF RegistryIInv
<1> QED
  BY RegistryInvariance, <1>1, PTL

(* Each transition and each notification reaches each module registered at *)
(* boot exactly once.                                                      *)
THEOREM EveryBootModuleTold == RegistrySpec => []BootModulesTold
<1>1. RegistryIInv => BootModulesTold
  <2> SUFFICES ASSUME RegistryIInv, Inside = {}, NEW m \in 1..module_count, NEW h \in Hooks, boot[m][h] # -1
               PROVE  told[m][h] = fans[h] - boot[m][h]
    BY Zenon DEF BootModulesTold
  <2>1. \A c \in Callers : call[c] = IdleCall
    BY Zenon DEF Inside
  <2>2. Pending(call, m, h) = {}
    BY <2>1 DEF Pending, IdleCall
  <2>3. told[m][h] + 0 + boot[m][h] = fans[h]
    BY Zenon, <2>2, FS_EmptySet DEF RegistryIInv, Accounted
  <2>4. m \in 1..MaxModules
    BY BoundsAssumption DEF RegistryIInv, RegistryTypeOK
  <2>5. told[m][h] \in Int /\ boot[m][h] \in Int /\ fans[h] \in Int
    BY <2>4, BoundsAssumption DEF RegistryIInv, RegistryTypeOK
  <2> QED
    BY <2>3, <2>5
<1> QED
  BY RegistryInvariance, <1>1, PTL

(* Hooks are called in the order of registration, by overlapping fan-outs  *)
(* too: whoever still has to call the earlier module has to call the later *)
(* one as well.                                                            *)
THEOREM HooksInOrder == RegistrySpec => []RegistrationOrder
<1>1. RegistryIInv => RegistrationOrder
  <2> SUFFICES ASSUME RegistryIInv, NEW m \in 1..module_count, NEW n \in 1..module_count, NEW h \in Hooks,
                      m < n, boot[m][h] # -1, boot[n] = boot[m]
               PROVE  told[m][h] >= told[n][h]
    BY Zenon DEF RegistrationOrder
  <2>1. /\ told[m][h] + Cardinality(Pending(call, m, h)) + boot[m][h] = fans[h]
        /\ told[n][h] + Cardinality(Pending(call, n, h)) + boot[m][h] = fans[h]
    BY Zenon DEF RegistryIInv, Accounted
  <2>2. m \in 1..MaxModules /\ n \in 1..MaxModules
    BY BoundsAssumption DEF RegistryIInv, RegistryTypeOK
  <2>3. told[m][h] \in Int /\ told[n][h] \in Int /\ boot[m][h] \in Int
    BY <2>2, BoundsAssumption DEF RegistryIInv, RegistryTypeOK
  <2>4. \A c \in Callers : call[c].next \in Int
    BY BoundsAssumption DEF RegistryIInv, RegistryTypeOK
  <2>5. Pending(call, m, h) \in SUBSET Pending(call, n, h) /\ Pending(call, n, h) \in SUBSET Callers
    BY <2>4 DEF Pending
  <2>6. /\ Cardinality(Pending(call, m, h)) <= Cardinality(Pending(call, n, h))
        /\ Cardinality(Pending(call, m, h)) \in Nat /\ Cardinality(Pending(call, n, h)) \in Nat
    BY Zenon, <2>5, Dispatching
  <2> QED
    BY <2>1, <2>3, <2>6
<1> QED
  BY RegistryInvariance, <1>1, PTL

-----------------------------------------------------------------------------
(* The queue. *)

(* Slot computes an index of the ring: % only ever wraps round once. *)
LEMMA Wrap ==
    ASSUME NEW a \in 0..(Capacity - 1), NEW b \in 0..Capacity
    PROVE  (a + b) % Capacity = IF a + b < Capacity THEN a + b ELSE a + b - Capacity
BY CapacityAssumption, Z3

-----------------------------------------------------------------------------
(* Counting the threads at a place. *)

Where(p, place) == {t \in Threads : p[t] = place}

N(p, place) == Cardinality(Where(p, place))

LEMMA Counting ==
    ASSUME NEW p, NEW place
    PROVE  /\ IsFiniteSet(Where(p, place))
           /\ N(p, place) \in Nat
           /\ N(p, place) = 0 <=> Where(p, place) = {}
<1>1. Where(p, place) \subseteq Threads
  BY Zenon DEF Where
<1>2. IsFiniteSet(Where(p, place))
  BY Zenon, <1>1, ThreadsAssumption, FS_Subset
<1> QED
  BY Zenon, <1>2, FS_CardinalityType, FS_EmptySet DEF N

(* One thread has moved from one place to another. *)
Moved(p, p2, from, to) ==
    /\ p2 \in [Threads -> Places]
    /\ N(p2, to) = N(p, to) + 1 /\ N(p2, from) = N(p, from) - 1
    /\ \A r \in Places \ {from, to} : N(p2, r) = N(p, r)

LEMMA Moving ==
    ASSUME NEW p \in [Threads -> Places], NEW t \in Threads, NEW q \in Places, p[t] # q
    PROVE  Moved(p, [p EXCEPT ![t] = q], p[t], q)
<1> DEFINE p2 == [p EXCEPT ![t] = q]
<1>1. p2 \in [Threads -> Places]
  BY Zenon
<1>2. Where(p2, q) = Where(p, q) \union {t} /\ t \notin Where(p, q)
  BY Zenon DEF Where
<1>3. Where(p2, p[t]) = Where(p, p[t]) \ {t} /\ t \in Where(p, p[t])
  BY Zenon DEF Where
<1>4. \A r \in Places \ {p[t], q} : Where(p2, r) = Where(p, r)
  BY Zenon DEF Where
<1> HIDE DEF p2
<1>5. N(p2, q) = N(p, q) + 1
  BY Zenon, <1>2, Counting, FS_AddElement DEF N
<1>6. N(p2, p[t]) = N(p, p[t]) - 1
  <2>1. IsFiniteSet(Where(p, p[t]))
    BY Zenon, Counting
  <2>2. Cardinality(Where(p, p[t]) \ {t}) = Cardinality(Where(p, p[t])) - 1
    BY Zenon, <1>3, <2>1, FS_RemoveElement
  <2> QED
    BY Zenon, <1>3, <2>2 DEF N
<1>7. Moved(p, p2, p[t], q)
  BY Zenon, <1>1, <1>4, <1>5, <1>6 DEF N, Moved
<1> QED
  BY Zenon, <1>7 DEF p2

(* pthread_cond_signal moves one thread from the condition variable to the  *)
(* head of its loop if there is one to move, and nobody else.              *)
LEMMA Signalling ==
    ASSUME NEW p \in [Threads -> Places], NEW cv \in Places, NEW loop \in Places, cv # loop,
           NEW p2 \in Signal(p, cv, loop)
    PROVE  (N(p, cv) = 0 /\ p2 = p) \/ Moved(p, p2, cv, loop)
<1>1. CASE Where(p, cv) = {}
  <2>1. p2 = p
    BY Zenon, <1>1 DEF Signal, Where
  <2> QED
    BY Zenon, <1>1, <2>1, Counting
<1>2. CASE Where(p, cv) # {}
  <2>1. PICK t \in Where(p, cv) : p2 = [p EXCEPT ![t] = loop]
    BY Zenon, <1>2 DEF Signal, Where
  <2>2. t \in Threads /\ p[t] = cv
    BY Zenon DEF Where
  <2>3. Moved(p, [p EXCEPT ![t] = loop], p[t], loop)
    BY Zenon, <2>2, Moving
  <2> QED
    BY Zenon, <2>1, <2>2, <2>3
<1> QED
  BY Zenon, <1>1, <1>2

-----------------------------------------------------------------------------
(* The steps of Next, sorted by what they do to the ring and to the thread. *)

Blocks(t) == /\ \/ pc[t] = "push" /\ count = Capacity /\ Wait(t, "not_full")
                \/ pc[t] = "pop" /\ count = 0 /\ Wait(t, "not_empty")
             /\ ~closed /\ UNCHANGED <<closed, destroyed, freed>>

Refused(t) == /\ pc[t] \in {"push", "pop"} => closed
              /\ pc[t] \in {"idle", "push", "pop"}
              /\ \E status \in {"OVERFLOW", "CLOSED"} : Rejected(t, status)
              /\ UNCHANGED <<closed, destroyed, freed>>

Stores(t, x) == /\ count # Capacity /\ ~closed
                /\ \/ pc[t] = "push" /\ x = item[t]
                   \/ pc[t] = "idle" /\ ~destroyed /\ x \in Available
                /\ Store(t, x) /\ UNCHANGED <<closed, destroyed, freed>>

Takes(t) == /\ pc[t] = "pop" /\ count # 0 /\ Take(t)
            /\ UNCHANGED <<closed, destroyed, freed>>

LEMMA StepCases ==
    ASSUME Next
    PROVE  \/ \E t \in Threads : \E x \in Available : Invoke(t, "push", x)
           \/ \E t \in Threads : Invoke(t, "pop", NoItem)
           \/ \E t \in Threads : Blocks(t)
           \/ \E t \in Threads : Refused(t)
           \/ \E t \in Threads : \E x : Stores(t, x)
           \/ \E t \in Threads : Takes(t)
           \/ close \/ cancel \/ destroy
           \/ \E t \in Threads : SpuriousWakeup(t)
<1>1. ASSUME NEW t \in Threads, NEW x \in Available, try_push(t, x)
      PROVE  Refused(t) \/ Stores(t, x)
  BY Zenon, <1>1 DEF try_push, Refused, Stores
<1>2. ASSUME NEW t \in Threads, push(t)
      PROVE  Blocks(t) \/ Refused(t) \/ Stores(t, item[t])
  BY Zenon, <1>2 DEF push, Blocks, Refused, Stores
<1>3. ASSUME NEW t \in Threads, pop(t)
      PROVE  Blocks(t) \/ Refused(t) \/ Takes(t)
  BY Zenon, <1>3 DEF pop, Blocks, Refused, Takes
<1> QED
  BY Zenon, <1>1, <1>2, <1>3 DEF Next

-----------------------------------------------------------------------------
(* The ring. *)

(* Live slots are indices of storage and do not alias. *)
LEMMA Slots ==
    ASSUME TypeOK
    PROVE  /\ \A i \in 0..Capacity : Slot(i) \in 0..(Capacity - 1)
           /\ \A i, j \in 0..(Capacity - 1) : Slot(i) = Slot(j) => i = j
           /\ Slot(0) = head
<1>1. \A i \in 0..Capacity : Slot(i) = IF head + i < Capacity THEN head + i ELSE head + i - Capacity
  BY Zenon, Wrap DEF TypeOK, Slot
<1>2. head \in 0..(Capacity - 1)
  BY Zenon DEF TypeOK
<1>3. \A i \in 0..Capacity : Slot(i) \in 0..(Capacity - 1)
  BY <1>1, <1>2, CapacityAssumption
<1>4. \A i, j \in 0..(Capacity - 1) : Slot(i) = Slot(j) => i = j
  BY <1>1, <1>2, CapacityAssumption
<1>5. Slot(0) = head
  BY <1>1, <1>2, CapacityAssumption
<1> QED
  BY Zenon, <1>3, <1>4, <1>5

(* Storing appends to the live slots and leaves the others alone. *)
LEMMA StoreRing ==
    ASSUME TypeOK, count # Capacity, NEW t, NEW x, Store(t, x)
    PROVE  /\ count \in 0..(Capacity - 1)
           /\ \A i \in 0..(count - 1) : storage'[Slot(i)'] = storage[Slot(i)]
           /\ storage'[Slot(count)] = x
           /\ \A i \in 0..Capacity : Slot(i)' = Slot(i)
<1>1. count \in 0..(Capacity - 1)
  BY CapacityAssumption DEF TypeOK
<1>2. \A i \in 0..Capacity : Slot(i)' = Slot(i)
  BY Zenon DEF Store, Slot
<1>3. storage' = [storage EXCEPT ![Slot(count)] = x] /\ DOMAIN storage = 0..(Capacity - 1)
  BY Zenon DEF Store, TypeOK
<1>4. \A i \in 0..(count - 1) : i \in 0..(Capacity - 1) /\ i \in 0..Capacity /\ i # count
  BY <1>1, CapacityAssumption
<1>5. \A i \in 0..(count - 1) : Slot(i) # Slot(count)
  BY Zenon, <1>1, <1>4, Slots
<1>6. \A i \in 0..(count - 1) : storage'[Slot(i)'] = storage[Slot(i)]
  BY <1>2, <1>3, <1>4, <1>5, Slots
<1>7. storage'[Slot(count)] = x
  <2>1. Slot(count) \in 0..(Capacity - 1)
    BY <1>1, Slots, CapacityAssumption
  <2> QED
    BY Zenon, <1>3, <2>1
<1> QED
  BY Zenon, <1>1, <1>2, <1>6, <1>7

(* Taking removes the oldest slot. *)
LEMMA TakeRing ==
    ASSUME TypeOK, count # 0, NEW t, Take(t)
    PROVE  /\ count' = count - 1 /\ count' \in 0..(Capacity - 1) /\ head' \in 0..(Capacity - 1)
           /\ \A i \in 0..(count' - 1) : Slot(i)' = Slot(i + 1)
<1>1. head \in 0..(Capacity - 1) /\ count \in 1..Capacity /\ Capacity \in Nat \ {0}
  BY CapacityAssumption DEF TypeOK
<1>2. head' = IF head + 1 < Capacity THEN head + 1 ELSE head + 1 - Capacity
  BY <1>1, Wrap DEF Take
<1>3. head' \in 0..(Capacity - 1) /\ count' = count - 1 /\ count' \in 0..(Capacity - 1)
  BY <1>1, <1>2 DEF Take
<1>4. ASSUME NEW i \in 0..(count' - 1)
      PROVE  Slot(i)' = Slot(i + 1)
  <2>1. i \in 0..Capacity /\ i + 1 \in 0..Capacity
    BY <1>1, <1>3
  <2>2. (head' + i) % Capacity = IF head' + i < Capacity THEN head' + i ELSE head' + i - Capacity
    BY Zenon, <1>3, <2>1, Wrap
  <2>3. (head + (i + 1)) % Capacity
          = IF head + (i + 1) < Capacity THEN head + (i + 1) ELSE head + (i + 1) - Capacity
    BY Zenon, <1>1, <2>1, Wrap
  <2> QED
    BY <1>1, <1>2, <1>3, <2>1, <2>2, <2>3 DEF Slot
<1> QED
  BY Zenon, <1>3, <1>4

-----------------------------------------------------------------------------
(* The inductive invariant. *)

(* Nobody is inside a queue that has been destroyed. *)
Quiet == destroyed => At("idle") = Threads

IInv == TypeOK /\ ItemsOwnedOnce /\ Quiet /\ NoLostWakeup

LEMMA InitIInv == Init => IInv
<1> SUFFICES ASSUME Init PROVE IInv
  BY Zenon
<1>1. TypeOK
  <2>1. head \in 0..(Capacity - 1) /\ count \in 0..Capacity
    BY CapacityAssumption DEF Init
  <2>2. storage \in [0..(Capacity - 1) -> Items \union {NoItem}]
    BY Zenon DEF Init
  <2>3. /\ pc \in [Threads -> Places] /\ item \in [Threads -> Items \union {NoItem}]
        /\ ret \in [Threads -> {"none", "OK", "OVERFLOW", "CLOSED"}]
    BY Zenon DEF Init, Places
  <2> QED
    BY Zenon, <2>1, <2>2, <2>3 DEF Init, TypeOK
<1>2. At("pop") = {} /\ At("push") = {} /\ At("not_empty") = {} /\ At("not_full") = {}
  BY Zenon DEF Init, At
<1>3. Contained = {}
  BY DEF Init, Contained
<1>4. ItemsOwnedOnce
  BY <1>2, <1>3 DEF Init, ItemsOwnedOnce, Producers
<1>5. NoLostWakeup
  BY Zenon, <1>2 DEF NoLostWakeup
<1> QED
  BY Zenon, <1>1, <1>4, <1>5 DEF IInv, Quiet, Init

LEMMA SignalType ==
    ASSUME TypeOK, NEW t \in Threads, NEW cv \in Places, NEW loop \in Places, cv # loop,
           pc' \in Signal(Idle(t), cv, loop)
    PROVE  pc' \in [Threads -> Places]
<1>1. Idle(t) \in [Threads -> Places]
  BY Zenon DEF TypeOK, Idle, Places
<1> QED
  BY Zenon, <1>1, Signalling DEF Moved

LEMMA TypeStep == IInv /\ [Next]_vars => TypeOK'
<1> SUFFICES ASSUME TypeOK, ItemsOwnedOnce, Quiet, [Next]_vars
             PROVE  TypeOK'
  BY Zenon DEF IInv
<1>1. CASE UNCHANGED vars
  BY Zenon, <1>1 DEF vars, TypeOK
<1>2. ASSUME NEW t \in Threads, NEW x \in Available, Invoke(t, "push", x)
      PROVE  TypeOK'
  BY Zenon, <1>2 DEF Invoke, Returns, TypeOK, Places, Available
<1>3. ASSUME NEW t \in Threads, Invoke(t, "pop", NoItem)
      PROVE  TypeOK'
  BY Zenon, <1>3 DEF Invoke, Returns, TypeOK, Places
<1>4. ASSUME NEW t \in Threads, Blocks(t)
      PROVE  TypeOK'
  BY Zenon, <1>4 DEF Blocks, Wait, TypeOK, Places
<1>5. ASSUME NEW t \in Threads, Refused(t)
      PROVE  TypeOK'
  BY Zenon, <1>5 DEF Refused, Rejected, Idle, Returns, TypeOK, Places
<1>6. ASSUME NEW t \in Threads, NEW x, Stores(t, x)
      PROVE  TypeOK'
  <2>1. count # Capacity /\ Store(t, x)
    BY Zenon, <1>6 DEF Stores
  <2>2. x \in Items \union {NoItem}
    BY Zenon, <1>6 DEF Stores, Available, TypeOK
  <2>3. pc' \in [Threads -> Places]
    BY Zenon, <2>1, SignalType DEF Store, Places
  <2>4. count \in 0..(Capacity - 1)
    BY Zenon, <2>1, StoreRing
  <2>5. count' \in 0..Capacity
    BY <2>1, <2>4, CapacityAssumption DEF Store
  <2>6. storage' \in [0..(Capacity - 1) -> Items \union {NoItem}]
    BY Zenon, <2>1, <2>2 DEF Store, TypeOK
  <2> QED
    BY ZenonT(30), <1>6, <2>1, <2>3, <2>5, <2>6 DEF Stores, Store, Returns, TypeOK
<1>7. ASSUME NEW t \in Threads, Takes(t)
      PROVE  TypeOK'
  <2>1. count # 0 /\ Take(t)
    BY Zenon, <1>7 DEF Takes
  <2>2. pc' \in [Threads -> Places]
    BY Zenon, <2>1, SignalType DEF Take, Places
  <2>3. head' \in 0..(Capacity - 1) /\ count' \in 0..Capacity
    BY <2>1, TakeRing, CapacityAssumption
  <2>4. storage[head] \in Items \union {NoItem}
    BY Zenon DEF TypeOK
  <2> QED
    BY Zenon, <1>7, <2>1, <2>2, <2>3, <2>4 DEF Takes, Take, Returns, TypeOK
<1>8. BroadcastBoth \in [Threads -> Places]
  BY Zenon DEF TypeOK, BroadcastBoth, Places
<1>9. CASE close
  BY Zenon, <1>8, <1>9 DEF close, TypeOK
<1>10. ~destroyed => Contained \subseteq Items
  BY Zenon DEF ItemsOwnedOnce
<1>11. CASE cancel
  BY <1>8, <1>10, <1>11, CapacityAssumption DEF cancel, TypeOK
<1>12. CASE destroy
  BY Zenon, <1>10, <1>12 DEF destroy, TypeOK
<1>13. ASSUME NEW t \in Threads, SpuriousWakeup(t)
       PROVE  TypeOK'
  BY Zenon, <1>13 DEF SpuriousWakeup, TypeOK, Places
<1> QED
  BY Zenon, <1>1, <1>2, <1>3, <1>4, <1>5, <1>6, <1>7, <1>9, <1>11, <1>12, <1>13, StepCases

LEMMA QuietStep == IInv /\ [Next]_vars => Quiet'
<1> SUFFICES ASSUME TypeOK, Quiet, [Next]_vars
             PROVE  Quiet'
  BY Zenon DEF IInv
<1>1. CASE UNCHANGED vars
  BY Zenon, <1>1 DEF vars, Quiet, At
<1>2. ASSUME NEW t \in Threads, NEW x \in Available, Invoke(t, "push", x)
      PROVE  Quiet'
  BY Zenon, <1>2 DEF Invoke, Quiet
<1>3. ASSUME NEW t \in Threads, Invoke(t, "pop", NoItem)
      PROVE  Quiet'
  BY Zenon, <1>3 DEF Invoke, Quiet
<1>4. ASSUME NEW t \in Threads, pc[t] # "idle", destroyed' = destroyed
      PROVE  Quiet'
  BY Zenon, <1>4 DEF Quiet, At
<1>5. ASSUME NEW t \in Threads, Refused(t)
      PROVE  Quiet'
  BY Zenon, <1>5 DEF Refused, Rejected, Idle, TypeOK, Quiet, At
<1>6. CASE close \/ cancel
  BY Zenon, <1>6 DEF close, cancel, Quiet
<1>7. CASE destroy
  BY Zenon, <1>7 DEF destroy, Quiet, At
<1>8. ASSUME NEW t \in Threads, NEW x, Stores(t, x)
      PROVE  Quiet'
  <2>1. CASE pc[t] = "push"
    BY Zenon, <1>4, <1>8, <2>1 DEF Stores
  <2>2. CASE ~destroyed
    BY Zenon, <1>8, <2>2 DEF Stores, Quiet
  <2> QED
    BY Zenon, <1>8, <2>1, <2>2 DEF Stores
<1>9. ASSUME NEW t \in Threads, Blocks(t) \/ Takes(t) \/ SpuriousWakeup(t)
      PROVE  Quiet'
  BY Zenon, <1>4, <1>9 DEF Blocks, Takes, SpuriousWakeup
<1> QED
  BY Zenon, <1>1, <1>2, <1>3, <1>5, <1>6, <1>7, <1>8, <1>9, StepCases

-----------------------------------------------------------------------------
(* NoLostWakeup as a statement about numbers of threads. *)
Woken(p, c, k) ==
    /\ N(p, "not_empty") # 0 => N(p, "pop") >= k
    /\ N(p, "not_full") # 0 => N(p, "push") >= Capacity - k
    /\ c => N(p, "not_empty") = 0 /\ N(p, "not_full") = 0

LEMMA WokenIsNoLostWakeup ==
    /\ NoLostWakeup <=> Woken(pc, closed, count)
    /\ NoLostWakeup' <=> Woken(pc', closed', count')
<1>1. \A place : At(place) = Where(pc, place) /\ At(place)' = Where(pc', place)
  BY Zenon DEF At, Where
<1>2. NoLostWakeup <=> Woken(pc, closed, count)
  BY Zenon, <1>1, Counting DEF NoLostWakeup, Woken, N
<1>3. NoLostWakeup' <=> Woken(pc', closed', count')
  BY Zenon, <1>1, Counting DEF NoLostWakeup, Woken, N
<1> QED
  BY Zenon, <1>2, <1>3

LEMMA WakeupStep == IInv /\ [Next]_vars => NoLostWakeup'
<1> SUFFICES ASSUME TypeOK, Woken(pc, closed, count), [Next]_vars
             PROVE  Woken(pc', closed', count')
  BY Zenon, WokenIsNoLostWakeup DEF IInv
<1> USE CapacityAssumption
<1>a. /\ pc \in [Threads -> Places] /\ count \in 0..Capacity
      /\ \A t \in Threads : pc[t] \in Places
  BY Zenon DEF TypeOK
<1>b. \A p, place : N(p, place) \in Nat
  BY Zenon, Counting
<1>1. CASE UNCHANGED vars
  BY Zenon, <1>1 DEF vars
<1>2. ASSUME NEW t \in Threads, NEW loop \in {"push", "pop"}, NEW x, Invoke(t, loop, x)
      PROVE  Woken(pc', closed', count')
  <2>1. Moved(pc, pc', "idle", loop)
    BY ZenonT(30), <1>2, <1>a, Moving DEF Invoke, Places
  <2>2. closed' = closed /\ count' = count
    BY Zenon, <1>2 DEF Invoke
  <2>3. /\ N(pc', "not_empty") = N(pc, "not_empty") /\ N(pc', "not_full") = N(pc, "not_full")
        /\ N(pc', "pop") >= N(pc, "pop") /\ N(pc', "push") >= N(pc, "push")
    BY <1>b, <2>1 DEF Moved, Places
  <2> QED
    BY <1>a, <1>b, <2>2, <2>3 DEF Woken
<1>4. ASSUME NEW t \in Threads, Blocks(t)
      PROVE  Woken(pc', closed', count')
  <2>a. ~closed'
    BY Zenon, <1>4 DEF Blocks
  <2>1. CASE pc[t] = "push" /\ count = Capacity /\ Wait(t, "not_full")
    <3>1. Moved(pc, pc', "push", "not_full")
      BY ZenonT(30), <1>a, <2>1, Moving DEF Wait, Places
    <3>2. /\ N(pc', "not_empty") = N(pc, "not_empty") /\ N(pc', "pop") = N(pc, "pop")
          /\ N(pc', "push") >= Capacity - count
      BY <1>a, <1>b, <2>1, <3>1 DEF Moved, Places
    <3> QED
      BY Zenon, <1>b, <2>1, <2>a, <3>2 DEF Wait, Woken
  <2>2. CASE pc[t] = "pop" /\ count = 0 /\ Wait(t, "not_empty")
    <3>1. Moved(pc, pc', "pop", "not_empty")
      BY ZenonT(30), <1>a, <2>2, Moving DEF Wait, Places
    <3>2. /\ N(pc', "not_full") = N(pc, "not_full") /\ N(pc', "push") = N(pc, "push")
          /\ N(pc', "pop") >= count
      BY <1>a, <1>b, <2>2, <3>1 DEF Moved, Places
    <3> QED
      BY Zenon, <1>b, <2>2, <2>a, <3>2 DEF Wait, Woken
  <2> QED
    BY Zenon, <1>4, <2>1, <2>2 DEF Blocks
<1>5. ASSUME NEW t \in Threads, Refused(t)
      PROVE  Woken(pc', closed', count')
  <2>1. pc' = Idle(t) /\ closed' = closed /\ count' = count
    BY Zenon, <1>5 DEF Refused, Rejected
  <2>2. CASE pc[t] = "idle"
    <3>1. pc' = pc
      BY Zenon, <1>a, <2>1, <2>2 DEF Idle
    <3> QED
      BY Zenon, <2>1, <3>1
  <2>3. CASE pc[t] # "idle"
    <3>1. pc[t] \in {"push", "pop"} /\ closed
      BY Zenon, <1>5, <2>3 DEF Refused
    <3>2. Moved(pc, pc', pc[t], "idle")
      BY Zenon, <1>a, <2>1, <2>3, Moving DEF Idle, Places
    <3> QED
      BY Zenon, <1>a, <1>b, <2>1, <3>1, <3>2 DEF Moved, Woken, Places
  <2> QED
    BY Zenon, <2>2, <2>3
<1>8. CASE close \/ cancel
  <2>1. pc' = BroadcastBoth /\ closed'
    BY Zenon, <1>8 DEF close, cancel
  <2>2. Where(pc', "not_empty") = {} /\ Where(pc', "not_full") = {}
    BY Zenon, <2>1 DEF BroadcastBoth, Where
  <2> QED
    BY Zenon, <2>2, Counting DEF Woken
<1>9. CASE destroy
  BY Zenon, <1>9 DEF destroy
<1>10. ASSUME NEW t \in Threads, SpuriousWakeup(t)
       PROVE  Woken(pc', closed', count')
  <2>1. Moved(pc, pc', "not_full", "push") \/ Moved(pc, pc', "not_empty", "pop")
    BY ZenonT(30), <1>10, <1>a, Moving DEF SpuriousWakeup, Places
  <2> QED
    BY <1>10, <1>a, <1>b, <2>1 DEF SpuriousWakeup, Moved, Woken, Places
<1>6. ASSUME NEW t \in Threads, NEW x, Stores(t, x)
      PROVE  Woken(pc', closed', count')
  <2>1. /\ count # Capacity /\ ~closed /\ ~closed' /\ count' = count + 1
        /\ pc[t] \in {"push", "idle"} /\ pc' \in Signal(Idle(t), "not_empty", "pop")
    BY Zenon, <1>6 DEF Stores, Store
  <2>2. /\ Idle(t) \in [Threads -> Places]
        /\ Idle(t) = pc \/ Moved(pc, Idle(t), "push", "idle")
    BY ZenonT(30), <1>a, <2>1, Moving DEF Idle, Places
  <2>3. \/ N(Idle(t), "not_empty") = 0 /\ pc' = Idle(t)
        \/ Moved(Idle(t), pc', "not_empty", "pop")
    BY Zenon, <2>1, <2>2, Signalling DEF Places
  <2> QED
    BY <1>a, <1>b, <2>1, <2>2, <2>3 DEF Moved, Woken, Places
<1>7. ASSUME NEW t \in Threads, Takes(t)
      PROVE  Woken(pc', closed', count')
  <2>1. /\ count # 0 /\ closed' = closed /\ count' = count - 1
        /\ pc[t] = "pop" /\ pc' \in Signal(Idle(t), "not_full", "push")
    BY Zenon, <1>7 DEF Takes, Take
  <2>2. Idle(t) \in [Threads -> Places] /\ Moved(pc, Idle(t), "pop", "idle")
    BY ZenonT(30), <1>a, <2>1, Moving DEF Idle, Places
  <2>3. \/ N(Idle(t), "not_full") = 0 /\ pc' = Idle(t)
        \/ Moved(Idle(t), pc', "not_full", "push")
    BY Zenon, <2>1, <2>2, Signalling DEF Places
  <2> QED
    BY <1>a, <1>b, <2>1, <2>2, <2>3 DEF Moved, Woken, Places
<1> QED
  BY Zenon, <1>1, <1>2, <1>4, <1>5, <1>6, <1>7, <1>8, <1>9, <1>10, StepCases

-----------------------------------------------------------------------------
(* Ownership. *)

Distinct == \A i, j \in 0..(count - 1) : storage[Slot(i)] = storage[Slot(j)] => i = j

LEMMA SameRing ==
    ASSUME UNCHANGED <<storage, head, count>>
    PROVE  Contained' = Contained /\ (Distinct => Distinct')
BY Zenon DEF Contained, Distinct, Slot

LEMMA StoreContents ==
    ASSUME TypeOK, count # Capacity, NEW t, NEW x, Store(t, x)
    PROVE  /\ Contained' = Contained \union {x}
           /\ Distinct /\ x \notin Contained => Distinct'
<1>1. /\ count \in 0..(Capacity - 1) /\ count' = count + 1
      /\ \A i \in 0..(count - 1) : storage'[Slot(i)'] = storage[Slot(i)]
      /\ \A i \in 0..Capacity : i = count => storage'[Slot(i)'] = x
  BY ZenonT(30), StoreRing, CapacityAssumption DEF Store
<1>2. 0..(count' - 1) = 0..(count - 1) \union {count} /\ count \in 0..Capacity
  BY <1>1, CapacityAssumption
<1>3. Contained' = {storage'[Slot(i)'] : i \in 0..(count' - 1)}
  BY Zenon DEF Contained
<1>4. Contained' = Contained \union {x}
  BY <1>1, <1>2, <1>3 DEF Contained
<1>5. ASSUME Distinct, x \notin Contained, NEW i \in 0..(count' - 1), NEW j \in 0..(count' - 1),
             storage'[Slot(i)'] = storage'[Slot(j)']
      PROVE  i = j
  <2>1. \A k \in 0..(count - 1) : storage[Slot(k)] # x
    BY Zenon, <1>5 DEF Contained
  <2> QED
    BY SMTT(30), <1>1, <1>2, <1>5, <2>1 DEF Distinct
<1> QED
  BY Zenon, <1>4, <1>5 DEF Distinct

LEMMA TakeContents ==
    ASSUME TypeOK, count # 0, NEW t, Take(t)
    PROVE  Contained' \subseteq Contained /\ (Distinct => Distinct')
<1>1. /\ count \in Nat /\ count' = count - 1 /\ storage' = storage
      /\ \A i \in 0..(count' - 1) : Slot(i)' = Slot(i + 1) /\ i + 1 \in 0..(count - 1)
  BY TakeRing, CapacityAssumption DEF Take, TypeOK
<1>2. \A i \in 0..(count' - 1) : storage'[Slot(i)'] = storage[Slot(i + 1)]
  BY Zenon, <1>1
<1>3. Contained' \subseteq Contained
  BY Zenon, <1>1, <1>2 DEF Contained
<1>4. ASSUME Distinct, NEW i \in 0..(count' - 1), NEW j \in 0..(count' - 1),
             storage'[Slot(i)'] = storage'[Slot(j)']
      PROVE  i = j
  <2>1. i + 1 = j + 1
    BY SMTT(30), <1>1, <1>2, <1>4 DEF Distinct
  <2> QED
    BY <1>1, <2>1
<1> QED
  BY Zenon, <1>3, <1>4 DEF Distinct

(* Only an invocation of push makes a thread hold an item. *)
Kept == Producers' \subseteq Producers /\ \A u \in Producers' : item'[u] = item[u]

LEMMA SignalKeeps ==
    ASSUME TypeOK, NEW t \in Threads, NEW cv, NEW loop,
           (cv = "not_empty" /\ loop = "pop") \/ (cv = "not_full" /\ loop = "push"),
           pc' \in Signal(Idle(t), cv, loop), \A u \in Threads \ {t} : item'[u] = item[u]
    PROVE  Kept /\ t \notin Producers'
<1>1. ASSUME NEW u \in Threads
      PROVE  \/ u = t /\ pc'[u] = "idle"
             \/ u # t /\ pc'[u] = pc[u]
             \/ u # t /\ pc[u] = cv /\ pc'[u] = loop
  <2>1. \A w \in Threads : Idle(t)[w] = IF w = t THEN "idle" ELSE pc[w]
    BY Zenon DEF Idle, TypeOK
  <2>2. CASE pc' = Idle(t)
    BY Zenon, <2>1, <2>2
  <2>3. CASE \E w \in Threads : Idle(t)[w] = cv /\ pc' = [Idle(t) EXCEPT ![w] = loop]
    <3>1. PICK w \in Threads : Idle(t)[w] = cv /\ pc' = [Idle(t) EXCEPT ![w] = loop]
      BY ZenonT(30), <2>3
    <3>2. w # t /\ pc[w] = cv /\ pc'[w] = loop
      BY Zenon, <2>1, <3>1 DEF TypeOK, Idle
    <3>3. u # w => pc'[u] = Idle(t)[u]
      BY Zenon, <3>1 DEF TypeOK, Idle
    <3> QED
      BY Zenon, <2>1, <3>2, <3>3
  <2> QED
    BY Zenon, <2>2, <2>3 DEF Signal
<1> QED
  BY Zenon, <1>1 DEF Kept, Producers, At

(* Steps that only take items away from producers and from the ring, and    *)
(* free at most what the ring held.                                        *)
LEMMA OwnershipKept ==
    ASSUME ItemsOwnedOnce, Kept, ~destroyed' => ~destroyed,
           Contained' \subseteq Contained, Distinct => Distinct',
           \/ freed' = freed
           \/ freed' = freed \union Contained /\ (destroyed' \/ Contained' = {})
    PROVE  ItemsOwnedOnce'
<1>1. /\ ~destroyed => Distinct /\ Contained \subseteq Items \ freed
      /\ \A t \in Producers : /\ item[t] \in Items \ (freed \union Contained)
                              /\ \A u \in Producers : item[t] = item[u] => t = u
  BY Zenon DEF ItemsOwnedOnce, Distinct
<1>2. ~destroyed' => Distinct' /\ Contained' \subseteq Items \ freed'
  BY Zenon, <1>1
<1>3. \A t \in Producers' : item'[t] \in Items \ (freed' \union Contained')
  BY Zenon, <1>1 DEF Kept
<1>4. \A t, u \in Producers' : item'[t] = item'[u] => t = u
  BY Zenon, <1>1 DEF Kept
<1> QED
  BY Zenon, <1>2, <1>3, <1>4 DEF ItemsOwnedOnce, Distinct

LEMMA OwnershipStep == IInv /\ [Next]_vars => ItemsOwnedOnce'
<1> SUFFICES ASSUME TypeOK, ItemsOwnedOnce, Quiet, [Next]_vars
             PROVE  ItemsOwnedOnce'
  BY Zenon DEF IInv
<1>a. pc \in [Threads -> Places] /\ item \in [Threads -> Items \union {NoItem}]
  BY Zenon DEF TypeOK
<1>1. CASE UNCHANGED vars
  <2>1. Kept
    BY Zenon, <1>1 DEF vars, Kept, Producers, At
  <2> QED
    BY Zenon, <1>1, <2>1, SameRing, OwnershipKept DEF vars
<1>2. ASSUME NEW t \in Threads, NEW x \in Available, Invoke(t, "push", x)
      PROVE  ItemsOwnedOnce'
  <2>1. Contained' = Contained /\ (Distinct => Distinct') /\ freed' = freed /\ ~destroyed /\ ~destroyed'
    BY Zenon, <1>2, SameRing DEF Invoke
  <2>2. x \in Items \ (freed \union Contained) /\ \A u \in Producers : item[u] # x
    BY Zenon DEF Available, Pushing
  <2>3. Producers' = Producers \union {t} /\ t \notin Producers
    BY Zenon, <1>2, <1>a DEF Invoke, Producers, At
  <2>4. item'[t] = x /\ \A u \in Producers : item'[u] = item[u]
    BY Zenon, <1>2, <1>a, <2>3 DEF Invoke, Returns, Producers, At
  <2>5. \A u \in Producers' : item'[u] \in Items \ (freed' \union Contained')
    BY Zenon, <2>1, <2>2, <2>3, <2>4 DEF ItemsOwnedOnce
  <2>6. \A u, w \in Producers' : item'[u] = item'[w] => u = w
    BY <2>2, <2>3, <2>4 DEF ItemsOwnedOnce
  <2> QED
    BY Zenon, <2>1, <2>5, <2>6 DEF ItemsOwnedOnce, Distinct
<1>3. ASSUME NEW t \in Threads, Invoke(t, "pop", NoItem)
      PROVE  ItemsOwnedOnce'
  <2>1. Kept
    BY Zenon, <1>3, <1>a DEF Invoke, Returns, Kept, Producers, At
  <2> QED
    BY Zenon, <1>3, <2>1, SameRing, OwnershipKept DEF Invoke
<1>4. ASSUME NEW t \in Threads, Blocks(t)
      PROVE  ItemsOwnedOnce'
  <2>1. Kept
    BY Zenon, <1>4, <1>a DEF Blocks, Wait, Kept, Producers, At
  <2> QED
    BY Zenon, <1>4, <2>1, SameRing, OwnershipKept DEF Blocks, Wait
<1>5. ASSUME NEW t \in Threads, Refused(t)
      PROVE  ItemsOwnedOnce'
  <2>1. Kept
    BY Zenon, <1>5, <1>a DEF Refused, Rejected, Idle, Returns, Kept, Producers, At
  <2> QED
    BY Zenon, <1>5, <2>1, SameRing, OwnershipKept DEF Refused, Rejected
<1>6. ASSUME NEW t \in Threads, NEW x, Stores(t, x)
      PROVE  ItemsOwnedOnce'
  <2>1. count # Capacity /\ Store(t, x) /\ freed' = freed /\ destroyed' = destroyed
    BY Zenon, <1>6 DEF Stores
  <2>2. Kept /\ t \notin Producers'
    <3>1. pc' \in Signal(Idle(t), "not_empty", "pop") /\ \A u \in Threads \ {t} : item'[u] = item[u]
      BY Zenon, <1>a, <2>1 DEF Store, Returns
    <3> QED
      BY Zenon, <3>1, SignalKeeps
  <2>3. ~destroyed
    BY Zenon, <1>6 DEF Stores, Quiet, At
  <2>4. x \in Items \ (freed \union Contained) /\ \A u \in Producers' : item[u] # x
    <3>1. CASE pc[t] = "push" /\ x = item[t]
      <4>1. t \in Producers
        BY Zenon, <3>1 DEF Producers, At
      <4> QED
        BY Zenon, <2>2, <3>1, <4>1 DEF ItemsOwnedOnce, Kept
    <3>2. CASE x \in Available
      BY Zenon, <2>2, <3>2 DEF Available, Pushing, Kept
    <3> QED
      BY Zenon, <1>6, <3>1, <3>2 DEF Stores
  <2>5. Contained' = Contained \union {x} /\ Distinct'
    BY Zenon, <2>1, <2>3, <2>4, StoreContents DEF ItemsOwnedOnce, Distinct
  <2>6. \A u \in Producers' : item'[u] \in Items \ (freed' \union Contained')
    BY Zenon, <2>1, <2>2, <2>4, <2>5 DEF ItemsOwnedOnce, Kept
  <2>7. \A u, w \in Producers' : item'[u] = item'[w] => u = w
    BY Zenon, <2>2 DEF ItemsOwnedOnce, Kept
  <2>8. Contained' \subseteq Items \ freed'
    BY Zenon, <2>1, <2>3, <2>4, <2>5 DEF ItemsOwnedOnce
  <2> QED
    BY Zenon, <2>5, <2>6, <2>7, <2>8 DEF ItemsOwnedOnce, Distinct
<1>7. ASSUME NEW t \in Threads, Takes(t)
      PROVE  ItemsOwnedOnce'
  <2>1. count # 0 /\ Take(t) /\ freed' = freed /\ destroyed' = destroyed
    BY Zenon, <1>7 DEF Takes
  <2>2. Kept
    <3>1. pc' \in Signal(Idle(t), "not_full", "push") /\ \A u \in Threads \ {t} : item'[u] = item[u]
      BY Zenon, <1>a, <2>1 DEF Take, Returns
    <3> QED
      BY Zenon, <3>1, SignalKeeps
  <2> QED
    BY Zenon, <2>1, <2>2, TakeContents, OwnershipKept
<1>8. CASE close \/ cancel
  <2>1. Kept
    BY Zenon, <1>8, <1>a DEF close, cancel, BroadcastBoth, Kept, Producers, At
  <2>2. CASE close
    BY Zenon, <2>1, <2>2, SameRing, OwnershipKept DEF close
  <2>3. CASE cancel
    <3>1. Contained' = {} /\ Distinct'
      BY <2>3 DEF cancel, Contained, Distinct
    <3> QED
      BY Zenon, <2>1, <2>3, <3>1, OwnershipKept DEF cancel
  <2> QED
    BY Zenon, <1>8, <2>2, <2>3
<1>9. CASE destroy
  <2>1. Kept
    BY Zenon, <1>9 DEF destroy, Kept, Producers, At
  <2> QED
    BY Zenon, <1>9, <2>1, SameRing, OwnershipKept DEF destroy
<1>10. ASSUME NEW t \in Threads, SpuriousWakeup(t)
       PROVE  ItemsOwnedOnce'
  <2>1. Kept
    BY Zenon, <1>10, <1>a DEF SpuriousWakeup, Kept, Producers, At
  <2> QED
    BY Zenon, <1>10, <2>1, SameRing, OwnershipKept DEF SpuriousWakeup
<1> QED
  BY Zenon, <1>1, <1>2, <1>3, <1>4, <1>5, <1>6, <1>7, <1>8, <1>9, <1>10, StepCases

-----------------------------------------------------------------------------
(* IInv is an invariant of the queue, whatever the threads do. *)
THEOREM Invariance == SafeSpec => []IInv
<1>1. IInv /\ [Next]_vars => IInv'
  BY TypeStep, QuietStep, WakeupStep, OwnershipStep DEF IInv
<1> QED
  BY InitIInv, <1>1, PTL DEF SafeSpec

(* Types, for every capacity and number of threads: the arithmetic of head  *)
(* and count in push, try_push, pop and cancel stays inside the ring.      *)
THEOREM TypeCorrect == SafeSpec => []TypeOK
<1>1. IInv => TypeOK
  BY DEF IInv
<1> QED
  BY <1>1, Invariance, PTL

(* pthread_cond_signal, where queue.c uses it instead of a broadcast, loses *)
(* no wake-up, however many producers and consumers there are.             *)
THEOREM WakeupsKept == SafeSpec => []NoLostWakeup
<1>1. IInv => NoLostWakeup
  BY DEF IInv
<1> QED
  BY <1>1, Invariance, PTL

(* No item is held twice, popped after it was freed, or freed twice by      *)
(* cancel and destroy.                                                     *)
THEOREM Ownership == SafeSpec => []ItemsOwnedOnce
<1>1. IInv => ItemsOwnedOnce
  BY DEF IInv
<1> QED
  BY <1>1, Invariance, PTL

-----------------------------------------------------------------------------
(* The ring buffer as a sequence. *)

LEMMA BufferedSeq ==
    ASSUME TypeOK
    PROVE  /\ Buffered \in Seq(Items \union {NoItem}) /\ Len(Buffered) = count
           /\ \A i \in 1..count : Buffered[i] = storage[Slot(i - 1)]
<1>1. \A i \in 1..count : i - 1 \in 0..Capacity
  BY CapacityAssumption DEF TypeOK
<1>2. \A i \in 1..count : storage[Slot(i - 1)] \in Items \union {NoItem}
  BY Zenon, <1>1, Slots DEF TypeOK
<1> QED
  BY <1>2 DEF TypeOK, Buffered

LEMMA StoreAppends ==
    ASSUME TypeOK, count # Capacity, NEW t, NEW x \in Items \union {NoItem}, Store(t, x)
    PROVE  Buffered' = Append(Buffered, x)
<1>1. count \in Nat /\ count' = count + 1
  BY DEF TypeOK, Store
<1>2. \A i \in 1..count : storage'[Slot(i - 1)'] = storage[Slot(i - 1)]
  <2>1. \A i \in 1..count : i - 1 \in 0..(count - 1)
    BY <1>1
  <2> QED
    BY Zenon, <2>1, StoreRing
<1>3. \A i \in 0..Capacity : i = count => storage'[Slot(i)'] = x
  BY Zenon, StoreRing
<1>4. Buffered' = [i \in 1..(count + 1) |-> storage'[Slot(i - 1)']]
  BY Zenon, <1>1 DEF Buffered
<1>5. \A i \in 1..(count + 1) : storage'[Slot(i - 1)'] = IF i <= count THEN Buffered[i] ELSE x
  <2> SUFFICES ASSUME NEW i \in 1..(count + 1)
               PROVE  storage'[Slot(i - 1)'] = IF i <= count THEN Buffered[i] ELSE x
    BY Zenon
  <2>1. CASE i <= count
    BY <1>1, <1>2, <2>1, BufferedSeq
  <2>2. CASE i = count + 1
    <3>1. i - 1 = count /\ count \in 0..Capacity
      BY <1>1, <2>2, CapacityAssumption DEF TypeOK
    <3> QED
      BY <1>1, <1>3, <2>2, <3>1
  <2> QED
    BY <1>1, <2>1, <2>2
<1>6. \A i \in 1..count : Buffered[i] \in Items \union {NoItem}
  BY Zenon, BufferedSeq, ElementOfSeq
<1>7. Buffered' \in Seq(Items \union {NoItem}) /\ Len(Buffered') = count + 1
  <2>1. \A i \in 1..(count + 1) : storage'[Slot(i - 1)'] \in Items \union {NoItem}
    BY <1>1, <1>5, <1>6
  <2> QED
    BY <1>1, <1>4, <2>1
<1>8. /\ Append(Buffered, x) \in Seq(Items \union {NoItem}) /\ Len(Append(Buffered, x)) = count + 1
      /\ \A i \in 1..(count + 1) : Append(Buffered, x)[i] = IF i <= count THEN Buffered[i] ELSE x
  BY SMTT(30), <1>1, BufferedSeq, AppendProperties
<1>9. \A i \in 1..Len(Buffered') : Buffered'[i] = Append(Buffered, x)[i]
  BY Zenon, <1>4, <1>5, <1>7, <1>8
<1> QED
  BY Zenon, <1>7, <1>8, <1>9, SeqEqual

LEMMA TakeIsTail ==
    ASSUME TypeOK, count # 0, NEW t, Take(t)
    PROVE  /\ Buffered # <<>> /\ Buffered' = Tail(Buffered)
           /\ storage[head] = Head(Buffered)
<1>1. count \in Nat \ {0} /\ count' = count - 1 /\ storage' = storage
  BY DEF TypeOK, Take
<1>2. /\ Buffered \in Seq(Items \union {NoItem}) /\ Len(Buffered) = count
      /\ \A i \in 1..count : Buffered[i] = storage[Slot(i - 1)]
  BY Zenon, BufferedSeq
<1>3. Buffered # <<>> /\ Head(Buffered) = Buffered[1]
  BY <1>1, <1>2
<1>4. storage[head] = Head(Buffered)
  <2>1. 1 \in 1..count /\ 1 - 1 = 0
    BY <1>1
  <2> QED
    BY Zenon, <1>2, <1>3, <2>1, Slots
<1>5. Buffered' = [i \in 1..(count - 1) |-> storage[Slot(i - 1)']]
  BY Zenon, <1>1 DEF Buffered
<1>6. \A i \in 1..(count - 1) : storage[Slot(i - 1)'] = Buffered[i + 1]
  <2> SUFFICES ASSUME NEW i \in 1..(count - 1)
               PROVE  storage[Slot(i - 1)'] = Buffered[i + 1]
    BY Zenon
  <2>1. i - 1 \in 0..(count' - 1) /\ i + 1 \in 1..count /\ (i - 1) + 1 = (i + 1) - 1
    BY <1>1
  <2>2. Slot(i - 1)' = Slot((i - 1) + 1)
    BY Zenon, <2>1, TakeRing
  <2> QED
    BY Zenon, <1>2, <2>1, <2>2
<1>7. \A i \in 1..(count - 1) : Buffered[i + 1] \in Items \union {NoItem}
  BY <1>1, <1>2, ElementOfSeq
<1>8. Buffered' \in Seq(Items \union {NoItem}) /\ Len(Buffered') = count - 1
  BY <1>1, <1>5, <1>6, <1>7
<1>9. /\ Tail(Buffered) \in Seq(Items \union {NoItem}) /\ Len(Tail(Buffered)) = count - 1
      /\ \A i \in 1..(count - 1) : Tail(Buffered)[i] = Buffered[i + 1]
  BY <1>2, <1>3, HeadTailProperties
<1>10. \A i \in 1..Len(Buffered') : Buffered'[i] = Tail(Buffered)[i]
  BY Zenon, <1>5, <1>6, <1>8, <1>9
<1> QED
  BY Zenon, <1>3, <1>4, <1>8, <1>9, <1>10, SeqEqual

-----------------------------------------------------------------------------
(* The refinement. *)

(* What a signal or a broadcast does to the other threads is invisible. *)
LEMMA CallSignal ==
    ASSUME TypeOK, NEW t \in Threads, NEW cv, NEW loop,
           (cv = "not_empty" /\ loop = "pop") \/ (cv = "not_full" /\ loop = "push"),
           pc' \in Signal(Idle(t), cv, loop)
    PROVE  FifoCall' = [FifoCall EXCEPT ![t] = "idle"]
<1>1. \A w \in Threads : Idle(t)[w] = IF w = t THEN "idle" ELSE pc[w]
  BY Zenon DEF Idle, TypeOK
<1>2. CASE pc' = Idle(t)
  BY Zenon, <1>1, <1>2 DEF FifoCall
<1>3. CASE \E w \in Threads : Idle(t)[w] = cv /\ pc' = [Idle(t) EXCEPT ![w] = loop]
  <2>1. PICK w \in Threads : Idle(t)[w] = cv /\ pc' = [Idle(t) EXCEPT ![w] = loop]
    BY Zenon, <1>3
  <2>2. w # t /\ pc[w] = cv /\ pc'[w] = loop
    BY Zenon, <1>1, <2>1 DEF TypeOK, Idle
  <2>3. \A u \in Threads \ {w} : pc'[u] = IF u = t THEN "idle" ELSE pc[u]
    BY Zenon, <1>1, <2>1 DEF TypeOK, Idle
  <2> QED
    BY Zenon, <2>2, <2>3 DEF FifoCall
<1> QED
  BY Zenon, <1>2, <1>3 DEF Signal

LEMMA SameBuffered ==
    ASSUME UNCHANGED <<storage, head, count, destroyed>>
    PROVE  FifoContents' = FifoContents
BY Zenon DEF FifoContents, Buffered, Slot

LEMMA FifoAvailable ==
    ASSUME TypeOK, ~destroyed
    PROVE  Available = Fifo!Available /\ Contained = Fifo!Contained
<1>1. FifoContents = Buffered
  BY Zenon DEF FifoContents
<1>2. Len(Buffered) = count /\ \A i \in 1..count : Buffered[i] = storage[Slot(i - 1)]
  BY Zenon, BufferedSeq
<1>3. Contained = {Buffered[i] : i \in 1..count}
  <2>1. \A i \in 0..(count - 1) : i + 1 \in 1..count /\ Buffered[i + 1] = storage[Slot(i)]
    <3>1. \A i \in 0..(count - 1) : i + 1 \in 1..count /\ (i + 1) - 1 = i
      BY DEF TypeOK
    <3> QED
      BY Zenon, <1>2, <3>1
  <2>2. \A i \in 1..count : i - 1 \in 0..(count - 1)
    BY DEF TypeOK
  <2> QED
    BY <1>2, <2>1, <2>2 DEF Contained
<1>4. Contained = Fifo!Contained
  BY Zenon, <1>1, <1>2, <1>3 DEF Fifo!Contained
<1>5. {u \in Threads : FifoCall[u] = "push"} = Producers
  BY Zenon DEF FifoCall, Producers, At, TypeOK, Places
<1> QED
  BY Zenon, <1>4, <1>5 DEF Available, Pushing, Fifo!Available

LEMMA FifoInit == Init => Fifo!Init
<1> SUFFICES ASSUME Init PROVE Fifo!Init
  BY Zenon
<1>1. FifoContents = <<>>
  BY DEF Init, FifoContents, Buffered
<1>2. FifoCall = [t \in Threads |-> "idle"]
  BY Zenon DEF Init, FifoCall
<1> QED
  BY Zenon, <1>1, <1>2 DEF Init, Fifo!Init

(* Every step of the ring buffer is a step of the FIFO or invisible to it. *)
LEMMA FifoStep == IInv /\ [Next]_vars => [Fifo!Next]_(Fifo!vars)
<1> SUFFICES ASSUME TypeOK, Quiet, [Next]_vars
             PROVE  [Fifo!Next]_(Fifo!vars)
  BY Zenon DEF IInv
<1>a. pc \in [Threads -> Places] /\ item \in [Threads -> Items \union {NoItem}]
  BY Zenon DEF TypeOK
<1>b. \A t \in Threads : pc[t] # "idle" => ~destroyed
  BY Zenon DEF Quiet, At
<1>c. ~destroyed => Len(FifoContents) = count /\ (FifoContents = <<>> <=> count = 0)
  BY BufferedSeq DEF FifoContents, TypeOK
<1>1. CASE UNCHANGED vars
  BY Zenon, <1>1, SameBuffered DEF vars, Fifo!vars, FifoCall
<1>2. ASSUME NEW t \in Threads, NEW loop \in {"push", "pop"}, NEW x, Invoke(t, loop, x)
      PROVE  Fifo!Invoke(t, loop, x) /\ ~destroyed
  <2>1. FifoContents' = FifoContents
    BY Zenon, <1>2, SameBuffered DEF Invoke
  <2>2. FifoCall[t] = "idle" /\ FifoCall' = [FifoCall EXCEPT ![t] = loop]
    BY Zenon, <1>2, <1>a DEF Invoke, FifoCall
  <2> QED
    BY Zenon, <1>2, <2>1, <2>2 DEF Invoke, Returns, Fifo!Invoke
<1>3. ASSUME NEW t \in Threads, Blocks(t) \/ SpuriousWakeup(t)
      PROVE  UNCHANGED Fifo!vars
  <2>1. FifoContents' = FifoContents
    BY Zenon, <1>3, SameBuffered DEF Blocks, Wait, SpuriousWakeup
  <2>2. FifoCall' = FifoCall
    BY Zenon, <1>3, <1>a DEF Blocks, Wait, SpuriousWakeup, FifoCall
  <2> QED
    BY Zenon, <1>3, <2>1, <2>2 DEF Blocks, Wait, SpuriousWakeup, Fifo!vars
<1>4. ASSUME NEW t \in Threads, NEW status, Rejected(t, status), UNCHANGED <<closed, destroyed, freed>>
      PROVE  Fifo!Return(t, status, NoItem) /\ FifoContents' = FifoContents
  <2>1. FifoContents' = FifoContents
    BY Zenon, <1>4, SameBuffered DEF Rejected
  <2>2. FifoCall' = [FifoCall EXCEPT ![t] = "idle"]
    BY ZenonT(30), <1>4, <1>a DEF Rejected, Idle, FifoCall
  <2> QED
    BY Zenon, <1>4, <2>1, <2>2 DEF Rejected, Returns, Fifo!Return
<1>5. ASSUME NEW t \in Threads, NEW x \in Items \union {NoItem}, count # Capacity, ~destroyed, Store(t, x),
             UNCHANGED <<closed, destroyed, freed>>
      PROVE  /\ Fifo!Return(t, "OK", NoItem) /\ FifoContents' = Append(FifoContents, x)
             /\ Len(FifoContents) < Capacity
  <2>1. FifoContents' = Append(FifoContents, x)
    BY Zenon, <1>5, StoreAppends DEF FifoContents
  <2>2. FifoCall' = [FifoCall EXCEPT ![t] = "idle"]
    BY Zenon, <1>5, CallSignal DEF Store
  <2>3. Len(FifoContents) < Capacity
    BY <1>5, <1>c, CapacityAssumption DEF TypeOK
  <2> QED
    BY Zenon, <1>5, <2>1, <2>2, <2>3 DEF Store, Returns, Fifo!Return
<1>6. ASSUME NEW t \in Threads, NEW x \in Available, try_push(t, x)
      PROVE  Fifo!TryPush(t, x) /\ x \in Fifo!Available
  <2>1. FifoCall[t] = "idle" /\ ~destroyed
    BY Zenon, <1>6, <1>a DEF try_push, FifoCall
  <2>2. x \in Fifo!Available /\ x \in Items
    BY Zenon, <2>1, FifoAvailable DEF Available
  <2>3. CASE closed /\ Rejected(t, "CLOSED")
    BY Zenon, <1>4, <1>6, <2>1, <2>2, <2>3 DEF try_push, Fifo!TryPush
  <2>4. CASE ~closed /\ count = Capacity /\ Rejected(t, "OVERFLOW")
    BY Zenon, <1>4, <1>6, <1>c, <2>1, <2>2, <2>4 DEF try_push, Fifo!TryPush
  <2>5. CASE ~closed /\ count # Capacity /\ Store(t, x)
    BY Zenon, <1>5, <1>6, <2>1, <2>2, <2>5 DEF try_push, Fifo!TryPush
  <2> QED
    BY Zenon, <1>6, <2>3, <2>4, <2>5 DEF try_push
<1>7. ASSUME NEW t \in Threads, push(t), ~Blocks(t)
      PROVE  Fifo!Push(t)
  <2>1. FifoCall[t] = "push" /\ ~destroyed
    BY Zenon, <1>7, <1>a, <1>b DEF push, FifoCall
  <2>2. CASE closed /\ Rejected(t, "CLOSED")
    BY Zenon, <1>4, <1>7, <2>1, <2>2 DEF push, Fifo!Push
  <2>3. CASE count # Capacity /\ ~closed /\ Store(t, item[t])
    <3>1. item[t] \in Items \union {NoItem}
      BY Zenon, <1>a
    <3> QED
      BY Zenon, <1>5, <1>7, <2>1, <2>3, <3>1 DEF push, Fifo!Push
  <2> QED
    BY Zenon, <1>7, <2>2, <2>3 DEF push, Blocks
<1>8. ASSUME NEW t \in Threads, pop(t), ~Blocks(t)
      PROVE  Fifo!Pop(t)
  <2>1. FifoCall[t] = "pop" /\ ~destroyed
    BY Zenon, <1>8, <1>a, <1>b DEF pop, FifoCall
  <2>2. CASE count = 0 /\ closed /\ Rejected(t, "CLOSED")
    BY Zenon, <1>4, <1>8, <1>c, <2>1, <2>2 DEF pop, Fifo!Pop
  <2>3. CASE count # 0 /\ Take(t)
    <3>1. ~destroyed' /\ UNCHANGED <<closed, destroyed, freed>>
      BY Zenon, <1>8, <2>1 DEF pop
    <3>2. /\ FifoContents # <<>> /\ FifoContents' = Tail(FifoContents)
          /\ storage[head] = Head(FifoContents)
      BY Zenon, <2>1, <2>3, <3>1, TakeIsTail DEF FifoContents
    <3>3. FifoCall' = [FifoCall EXCEPT ![t] = "idle"]
      BY Zenon, <2>3, CallSignal DEF Take
    <3>4. Fifo!Return(t, "OK", Head(FifoContents))
      BY Zenon, <2>3, <3>1, <3>2, <3>3 DEF Take, Returns, Fifo!Return
    <3> QED
      BY Zenon, <2>1, <3>2, <3>4 DEF Fifo!Pop
  <2> QED
    BY Zenon, <1>8, <2>2, <2>3 DEF pop, Blocks
<1>9. pc' = BroadcastBoth => FifoCall' = FifoCall
  BY Zenon, <1>a DEF BroadcastBoth, FifoCall
<1>10. CASE close
  BY Zenon, <1>9, <1>10, SameBuffered DEF close, Fifo!Next, Fifo!Close
<1>11. CASE cancel
  <2>1. FifoContents' = <<>>
    BY <1>11 DEF cancel, FifoContents, Buffered
  <2> QED
    BY Zenon, <1>9, <1>11, <2>1, FifoAvailable DEF cancel, Fifo!Next, Fifo!Cancel
<1>12. CASE destroy
  <2>1. FifoContents' = <<>> /\ FifoCall' = FifoCall
    BY Zenon, <1>12 DEF destroy, FifoContents, FifoCall
  <2>2. \A t \in Threads : FifoCall[t] = "idle"
    BY Zenon, <1>12 DEF destroy, FifoCall, At
  <2> QED
    BY Zenon, <1>12, <2>1, <2>2, FifoAvailable DEF destroy, Fifo!Next, Fifo!Destroy
<1>13. ASSUME NEW t \in Threads, NEW x \in Available, Invoke(t, "push", x)
       PROVE  Fifo!Invoke(t, "push", x) /\ x \in Fifo!Available
  BY Zenon, <1>2, <1>13, FifoAvailable
<1> QED
  BY Zenon, <1>1, <1>2, <1>3, <1>6, <1>7, <1>8, <1>10, <1>11, <1>12, <1>13 DEF Next, Fifo!Next

(* The ring buffer under its condition variables takes only steps of the    *)
(* bounded FIFO: the safety half of ImplementsFifo.                        *)
THEOREM Refinement == SafeSpec => Fifo!SafeSpec
<1>1. Init => Fifo!Init
  BY Zenon, FifoInit
<1>2. IInv /\ [Next]_vars => [Fifo!Next]_(Fifo!vars)
  BY FifoStep
<1> QED
  BY <1>1, <1>2, Invariance, PTL DEF SafeSpec, Fifo!SafeSpec
=============================================================================
