---------------------------- MODULE IpcEnvelope ----------------------------
(***************************************************************************)
(* The messages of the MGR-Sensor link: ipc_envelope_codec.c (the JSON     *)
(* envelope) and ipc_action_catalog.c (which actions exist, who sends      *)
(* them, what their payload holds), and dispatch_envelope of               *)
(* mgr_ipc_client.c, which lets an envelope through to the application.    *)
(*                                                                         *)
(* A text is what a record of the transport holds: its length, whether it  *)
(* parses as JSON without a duplicate key (savvy_json_parse), the names of *)
(* the root's fields, its action and its payload.  A payload is a function *)
(* from its keys to the JSON types of their values, or NotObject.          *)
(***************************************************************************)
EXTENDS Integers

CONSTANTS SAVVY_IPC_MAX_MESSAGE, \* the longest record, in the unit of len
          NotObject              \* a payload that is no JSON object

Key(n, t, r, nl) == [name |-> n, type |-> t, required |-> r, nullable |-> nl]

(* One entry of the catalog for each shape of payload_keys in it. *)
CATALOG ==
    [config     |-> [direction |-> "MGR_TO_SENSOR",
                     keys |-> {Key("jsonConfigDto", "object", TRUE, FALSE)}],
     test       |-> [direction |-> "MGR_TO_SENSOR", keys |-> {Key("TEST", "string", TRUE, FALSE)}],
     voicestart |-> [direction |-> "MGR_TO_SENSOR", keys |-> {}],
     connect    |-> [direction |-> "SENSOR_TO_MGR", keys |-> {}],
     getstate   |-> [direction |-> "SENSOR_TO_MGR",
                     keys |-> {Key("SENSOR", "string", TRUE, FALSE), Key("STATE", "string", TRUE, FALSE)}],
     tof        |-> [direction |-> "SENSOR_TO_MGR",
                     keys |-> {Key("SmokeValue", "int32", FALSE, TRUE), Key("MicValue", "int32", FALSE, TRUE)}]]

savvy_ipc_action_known(a) == a \in DOMAIN CATALOG

(* An unknown action has a direction too. *)
savvy_ipc_action_direction(a) ==
    IF savvy_ipc_action_known(a) THEN CATALOG[a].direction ELSE "MGR_TO_SENSOR"

(* Mutant: a null is let through wherever the key may be absent or not. *)
validate_payload_null(a, payload) ==
    /\ savvy_ipc_action_known(a)
    /\ \A k \in CATALOG[a].keys :
          IF k.name \notin DOMAIN payload THEN ~k.required
          ELSE payload[k.name] \in {k.type, "null"}

savvy_ipc_action_validate_payload(a, payload) ==
    /\ savvy_ipc_action_known(a)
    /\ \A k \in CATALOG[a].keys :
          IF k.name \notin DOMAIN payload THEN ~k.required
          ELSE payload[k.name] = k.type \/ (payload[k.name] = "null" /\ k.nullable)

(* SAVVY_OK: the root has the two fields and nothing else. *)
savvy_ipc_envelope_parse(text) ==
    /\ text.json /\ text.fields = {"action", "payload"}
    /\ text.action # "" /\ text.payload # NotObject

(* The text of an envelope; it is longer than what it carries. *)
savvy_ipc_envelope_build(a, payload, n) ==
    [len |-> n, json |-> TRUE, fields |-> {"action", "payload"}, action |-> a, payload |-> payload]

(* Whether dispatch_envelope calls on_envelope. *)
dispatch_envelope(text) ==
    /\ savvy_ipc_envelope_parse(text)
    /\ savvy_ipc_action_known(text.action)
    /\ savvy_ipc_action_direction(text.action) = "MGR_TO_SENSOR"
    /\ savvy_ipc_action_validate_payload(text.action, text.payload)
=============================================================================
