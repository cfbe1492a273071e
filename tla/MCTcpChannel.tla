---------------------------- MODULE MCTcpChannel ----------------------------
(* A small instance of TcpChannel and of its refinement. *)
EXTENDS TcpChannelRefinement
=============================================================================
