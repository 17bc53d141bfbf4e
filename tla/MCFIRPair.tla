----------------------------- MODULE MCFIRPair -----------------------------
(* Instance of FIRPair for TLC.  16 samples, with those that wait, may be two blocks of any
   kernel. *)
EXTENDS FIRPair

Kernels == {1, 2, 3}
Chunks == {0, 3, 7, 16}
=============================================================================
