--------------------------- MODULE MCIpcTransport ---------------------------
(* IpcTransport for TLC: one record the application should see and one of   *)
(* each way a record can be wrong, a valid message and one too long.        *)
EXTENDS IpcTransport

Text(a, payload, n) == savvy_ipc_envelope_build(a, payload, n)

Good      == Text("config", [jsonConfigDto |-> "object"], 2)
Long      == Text("config", [jsonConfigDto |-> "object"], 3)
Null      == Text("config", [jsonConfigDto |-> "null"], 2)
Echo      == Text("tof", [SmokeValue |-> "null"], 2)
Unknown   == Text("nosuchaction", <<>>, 1)
Malformed == [Good EXCEPT !.json = FALSE]
Extra     == [Good EXCEPT !.fields = @ \cup {"more"}]

MCRecords == <<{Good, Long, Null, Echo, Unknown, Malformed, Extra}, {Good}>>
MCTimeouts == [connect |-> 1, send |-> 0, recv |-> 1]
MCMessages == {Echo, [Echo EXCEPT !.len = 3]}

MCWanted == {Good}
=============================================================================
