--------------------------- MODULE MCAudioHelper ---------------------------
(* Instances of AudioHelper for TLC. *)
EXTENDS AudioHelper

AllFaults == FaultKinds
=============================================================================
