------------------------ MODULE MCAudioRecordPython ------------------------
(* Instances of AudioRecordPython for TLC. *)
EXTENDS AudioRecordPython

AllFaults == FaultKinds
SigIntOnly == {"sigint"}
FilterAndDevice == {"filter", "device"}
NoFaults == {}
=============================================================================
