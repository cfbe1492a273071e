---------------------------- MODULE MCSavvyQueue ----------------------------
(* A small instance of SavvyQueue: three threads, each of which may produce *)
(* and consume, and a ring of two slots, so that it wraps, fills and drains *)
(* while more than one thread is blocked.                                  *)
EXTENDS SavvyQueue
=============================================================================
