--------------------------- MODULE MCGattRequests ---------------------------
(* Instances of GattRequests for TLC. *)
EXTENDS GattRequests, TLC

CONSTANTS d1, d2

TwoDevices == {d1, d2}
WriterAndReader == d1 :> {"write"} @@ d2 :> {"read"}
OneReadTwoWrites == [read |-> 1, write |-> 2]
=============================================================================
