--------------------------- MODULE MCAudioProcess ---------------------------
(* Instances of AudioProcess for TLC. *)
EXTENDS AudioProcess

AnyMode == {"f", "p", "none"}
=============================================================================
