--------------------------- MODULE MCCloudRequests ---------------------------
(* Values for CloudRequests: sizes of nothing, a part of a unit, one and       *)
(* several units, the whole pool and more than the pool.                       *)
EXTENDS CloudRequests

MCSizes == {0, 1, 3, 4, 2 * Blocks, 2 * Blocks + 1}

N(parent, key, type, size) == [parent |-> parent, key |-> key, type |-> type, size |-> size]

\* {"method": "self", "params": [{"deviceId": "1", "set": 1}, {"set": 2}]}, and
\* with "params" first and two complete parameters.
Self == [command |-> "self", nodes |->
  <<N(0, "", "object", 1), N(1, "method", "string", 1), N(1, "params", "array", 1),
    N(3, "", "object", 1), N(4, "deviceId", "string", 3), N(4, "set", "number", 1),
    N(3, "", "object", 1), N(7, "set", "number", 1)>>]
SelfTwo == [command |-> "self", nodes |->
  <<N(0, "", "object", 1), N(1, "params", "array", 1),
    N(2, "", "object", 1), N(3, "set", "number", 1), N(3, "deviceId", "string", 1),
    N(2, "", "object", 1), N(6, "deviceId", "string", 1), N(6, "set", "number", 1),
    N(1, "method", "string", 1)>>]

\* {"params": [{"0": 1, "deviceId": "A", "1": 1}, {"deviceId": "B"}], "method": "lora"}.
Lora == [command |-> "lora", nodes |->
  <<N(0, "", "object", 1), N(1, "params", "array", 1),
    N(2, "", "object", 1), N(3, "port", "number", 1), N(3, "deviceId", "string", 1),
    N(3, "port", "number", 1),
    N(2, "", "object", 1), N(7, "deviceId", "string", 1), N(1, "method", "string", 1)>>]

\* "params" is no array; a method nobody knows; no method.
Update == [command |-> "updateFirmware", nodes |->
  <<N(0, "", "object", 1), N(1, "method", "string", 3), N(1, "params", "number", 1)>>]
Unknown == [command |-> "other", nodes |->
  <<N(0, "", "object", 1), N(1, "params", "array", 1), N(1, "method", "string", 1)>>]
NoMethod == [command |-> "self", nodes |->
  <<N(0, "", "object", 1), N(1, "params", "array", 1), N(2, "", "number", 1)>>]

MCDocuments == {Self, SelfTwo, Lora, Update, Unknown, NoMethod}
=============================================================================
