-------------------------- MODULE SensorLifecycle --------------------------
(***************************************************************************)
(* src/features/health/sensor_lifecycle.c over src/core/lifecycle.c: a     *)
(* registry of modules whose hooks are called, in the order of             *)
(* registration, when the daemon starts, applies a configuration or stops. *)
(* No lock is held while a hook runs.                                      *)
(*                                                                         *)
(* A call made from inside a hook is a call of another caller that happens *)
(* to come at that point; only destroy tells the two apart.  Modules are   *)
(* numbered in the order of their registration.                            *)
(***************************************************************************)
EXTENDS Integers, Sequences, FiniteSets

CONSTANTS Callers,
          MaxModules,  \* SENSOR_LIFECYCLE_MAX_MODULES (16)
          MaxFans      \* bounds the fan-outs of each hook

ASSUME BoundsAssumption == MaxModules \in Nat /\ MaxFans \in Nat
ASSUME CallersAssumption == IsFiniteSet(Callers)

Hooks == {"on_start", "on_config_applied", "on_shutdown"}

IdleCall == [at |-> "idle", hook |-> "none", count |-> 0, next |-> 0]

VARIABLES
    state,                        \* of savvy_lifecycle_t
    module_count, callback_depth, \* of sensor_lifecycle_t
    registry_destroyed,
    call,                         \* each caller: where it is, its hook and its snapshot
    fans,                         \* how many fan-outs of each hook were decided
    boot,                         \* fans when a module registered while nobody was inside a call
    told                          \* calls of each hook of each module

registry_vars == <<state, module_count, callback_depth, registry_destroyed, call, fans, boot, told>>

Inside == {c \in Callers : call[c] # IdleCall}

(* sensor_lifecycle_init *)
RegistryInit ==
    /\ state = "STOPPED" /\ module_count = 0 /\ callback_depth = 0 /\ registry_destroyed = FALSE
    /\ call = [c \in Callers |-> IdleCall]
    /\ fans = [h \in Hooks |-> 0]
    /\ boot = [m \in 1..MaxModules |-> [h \in Hooks |-> -1]]
    /\ told = [m \in 1..MaxModules |-> [h \in Hooks |-> 0]]

(* savvy_lifecycle_start, savvy_lifecycle_stop: the caller that makes the  *)
(* transition, and no other, goes on to the fan-out.                       *)
Decides(c, h) ==
    /\ fans[h] < MaxFans
    /\ fans' = [fans EXCEPT ![h] = @ + 1]
    /\ call' = [call EXCEPT ![c] = [IdleCall EXCEPT !.at = "snapshot", !.hook = h]]
    /\ UNCHANGED <<module_count, callback_depth, registry_destroyed, boot, told>>

(* Mutant: the registry is not checked for being full. *)
register_module_overfull(c) ==
    /\ call[c] = IdleCall /\ ~registry_destroyed /\ module_count <= MaxModules
    /\ module_count' = module_count + 1
    /\ UNCHANGED <<state, callback_depth, registry_destroyed, call, fans, boot, told>>

register_module(c) ==
    /\ call[c] = IdleCall /\ ~registry_destroyed /\ module_count < MaxModules
    /\ module_count' = module_count + 1
    /\ boot' = IF Inside = {} THEN [boot EXCEPT ![module_count + 1] = fans] ELSE boot
    /\ UNCHANGED <<state, callback_depth, registry_destroyed, call, fans, told>>

start(c) ==
    /\ call[c] = IdleCall /\ ~registry_destroyed
    /\ state = "STOPPED" /\ state' = "RUNNING"
    /\ Decides(c, "on_start")

notify_config_applied(c) ==
    /\ call[c] = IdleCall /\ ~registry_destroyed
    /\ UNCHANGED state
    /\ Decides(c, "on_config_applied")

stop(c) ==
    /\ call[c] = IdleCall /\ ~registry_destroyed
    /\ state = "RUNNING" /\ state' = "STOPPED"
    /\ Decides(c, "on_shutdown")

snapshot_modules(c) ==
    /\ call[c].at = "snapshot"
    /\ call' = [call EXCEPT ![c].at = "fan_out", ![c].count = module_count, ![c].next = 1]
    /\ callback_depth' = callback_depth + 1
    /\ UNCHANGED <<state, module_count, registry_destroyed, fans, boot, told>>

(* Mutant: the loop runs from the last module to the first. *)
run_hook_backwards(c) ==
    /\ call[c].at = "fan_out" /\ call[c].next <= call[c].count
    /\ told' = [told EXCEPT ![call[c].count + 1 - call[c].next][call[c].hook] = @ + 1]
    /\ call' = [call EXCEPT ![c].next = @ + 1]
    /\ UNCHANGED <<state, module_count, callback_depth, registry_destroyed, fans, boot>>

(* Mutant: the loop skips the module registered last. *)
run_hook_short(c) ==
    /\ call[c].at = "fan_out" /\ call[c].next <= call[c].count
    /\ told' = IF call[c].next < call[c].count
               THEN [told EXCEPT ![call[c].next][call[c].hook] = @ + 1] ELSE told
    /\ call' = [call EXCEPT ![c].next = @ + 1]
    /\ UNCHANGED <<state, module_count, callback_depth, registry_destroyed, fans, boot>>

(* One round of the loop: the hook of one module, run to its return. *)
run_hook(c) ==
    /\ call[c].at = "fan_out" /\ call[c].next <= call[c].count
    /\ told' = [told EXCEPT ![call[c].next][call[c].hook] = @ + 1]
    /\ call' = [call EXCEPT ![c].next = @ + 1]
    /\ UNCHANGED <<state, module_count, callback_depth, registry_destroyed, fans, boot>>

finish_module_snapshot(c) ==
    /\ call[c].at = "fan_out" /\ call[c].next > call[c].count
    /\ callback_depth' = callback_depth - 1
    /\ call' = [call EXCEPT ![c] = IdleCall]
    /\ UNCHANGED <<state, module_count, registry_destroyed, fans, boot, told>>

(* Mutant: a hook may destroy the registry. *)
destroy_in_hook ==
    /\ ~registry_destroyed
    /\ Inside # {} => \E c \in Inside : call[c].at = "fan_out" /\ call[c].next <= call[c].count
    /\ registry_destroyed' = TRUE
    /\ UNCHANGED <<state, module_count, callback_depth, call, fans, boot, told>>

(* destroy is called by a hook, or by an owner that has no other call in   *)
(* progress; it is refused while a fan-out runs.                           *)
destroy_registry ==
    /\ ~registry_destroyed
    /\ Inside # {} => \E c \in Inside : call[c].at = "fan_out" /\ call[c].next <= call[c].count
    /\ callback_depth = 0
    /\ registry_destroyed' = TRUE
    /\ UNCHANGED <<state, module_count, callback_depth, call, fans, boot, told>>

RegistryNext ==
    \/ \E c \in Callers : \/ register_module(c) \/ start(c) \/ notify_config_applied(c) \/ stop(c)
                          \/ snapshot_modules(c) \/ run_hook(c) \/ finish_module_snapshot(c)
    \/ destroy_registry

RegistrySpec == RegistryInit /\ [][RegistryNext]_registry_vars

-----------------------------------------------------------------------------
(* Types; the registry stays within its array. *)
RegistryTypeOK ==
    /\ state \in {"STOPPED", "RUNNING"} /\ registry_destroyed \in BOOLEAN
    /\ module_count \in 0..MaxModules /\ callback_depth \in 0..Cardinality(Callers)
    /\ call \in [Callers -> [at : {"idle", "snapshot", "fan_out"}, hook : Hooks \union {"none"},
                             count : 0..MaxModules, next : 0..(MaxModules + 1)]]
    /\ fans \in [Hooks -> 0..MaxFans]
    /\ boot \in [1..MaxModules -> [Hooks -> -1..MaxFans]]
    /\ told \in [1..MaxModules -> [Hooks -> Nat]]

(* The registry is never destroyed under a fan-out, however many overlap:   *)
(* destroy called by a hook is refused until the last of them has finished. *)
AliveInFanOut == registry_destroyed => Inside = {}

(* Of concurrent and redundant starts and stops, each transition reaches a  *)
(* module registered at boot exactly once: with nobody inside a call, the   *)
(* module has heard every fan-out decided since it registered.              *)
BootModulesTold ==
    Inside = {} =>
      \A m \in 1..module_count, h \in Hooks :
        boot[m][h] # -1 => told[m][h] = fans[h] - boot[m][h]

(* The modules of a fan-out are called in the order of their registration,  *)
(* by overlapping fan-outs too: of two modules registered at the same point, *)
(* the earlier one has heard at least as much as the later one.             *)
RegistrationOrder ==
    \A m \in 1..module_count, n \in 1..module_count, h \in Hooks :
      m < n /\ boot[m][h] # -1 /\ boot[n] = boot[m] => told[m][h] >= told[n][h]
=============================================================================
