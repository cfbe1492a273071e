------------------------ MODULE TcpChannelRefinement ------------------------
(***************************************************************************)
(* TcpChannel implements RequestChannel.  The submitting threads before    *)
(* the push, the steps of a connect, a send and a wait, the socket, the    *)
(* parser and the server are below what the abstract channel shows.        *)
(***************************************************************************)
EXTENDS TcpChannel

(* The refinement mapping: an abstract outcome is there from when the       *)
(* worker has it until on_complete; every error is one to the abstraction.  *)
ChannelWorker == IF wpc \in {"none", "exited"} THEN wpc ELSE "run"

ChannelOutcome == CASE wpc # "complete" -> "no"
                    [] wpc = "complete" /\ result \in {"OK", "SENT_NO_WAIT"} -> result
                    [] OTHER -> "ERR"

ChannelKinds == [r \in {q \in Requests : sub[q] = "accepted"} |-> kind[r]]

Channel == INSTANCE RequestChannel
             WITH Depth <- Capacity, queue <- contents, kinds <- ChannelKinds,
                  running <- lifecycle = "RUNNING", worker <- ChannelWorker, over <- ChannelOutcome

(* With one controlling thread the channel does what the session relies on: *)
(* requests one at a time and in order, one outcome each, an open           *)
(* connection only after an answer or a relay, none opened for a relay, and *)
(* nothing dropped but by stop and destroy, whichever step of the submits,  *)
(* of stop, of the worker and of the server comes first.                    *)
ImplementsChannel == Channel!Spec
=============================================================================
