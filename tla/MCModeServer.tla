--------------------------- MODULE MCModeServer ---------------------------
(* Instances of ModeServer for TLC. *)
EXTENDS ModeServer

ModesAndSpeaker == {3, 5, 6, 8}
=============================================================================
