--------------------------- MODULE MCMgrIpcClient ---------------------------
(* A small instance of MgrIpcClient. *)
EXTENDS MgrIpcClient
=============================================================================
