---------------------- MODULE MCHeartRateSubscriptions ----------------------
(* Instances of HeartRateSubscriptions for TLC. *)
EXTENDS HeartRateSubscriptions

CONSTANTS d1, d2

TwoDevices == {d1, d2}
ControlBytes == {0, 1}
=============================================================================
