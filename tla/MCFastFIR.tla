----------------------------- MODULE MCFastFIR -----------------------------
(* Instance of FastFIR for TLC: every chunk empty, of one sample, or of several blocks. *)
EXTENDS FastFIR

Kernels == {1, 2}
Chunks == {0, 1, 16}
=============================================================================
