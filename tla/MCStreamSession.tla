--------------------------- MODULE MCStreamSession ---------------------------
(* A small instance of StreamSession, with a server whose echoes of PIRIN   *)
(* have no body, and with one whose echoes may have any.                    *)
EXTENDS StreamSession

BareEcho == {Empty}

AnyEcho == Bodies
=============================================================================
