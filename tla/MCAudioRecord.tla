--------------------------- MODULE MCAudioRecord ---------------------------
(* Instances of AudioRecord for TLC. *)
EXTENDS AudioRecord

AllFaults == FaultKinds
=============================================================================
