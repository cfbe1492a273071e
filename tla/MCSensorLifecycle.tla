-------------------------- MODULE MCSensorLifecycle --------------------------
(* A small instance of SensorLifecycle. *)
EXTENDS SensorLifecycle, TLC

Symmetry == Permutations(Callers)
=============================================================================
