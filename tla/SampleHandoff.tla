--------------------------- MODULE SampleHandoff ---------------------------
(***************************************************************************)
(* What the record/play callback pair of every SoundScreen streaming       *)
(* program promises, without semaphores, threads or shared memory: blocks  *)
(* of samples captured from the microphone are heard once each, in the     *)
(* order of capture, none is overwritten before it has been heard, and     *)
(* at most one is on its way.                                              *)
(***************************************************************************)
EXTENDS Naturals, Sequences

CONSTANTS
  Frames,   \* FRAMES_PER_SAMPLE: frames in one block
  Damage    \* what a sample may be turned into on its way ({} when nothing can)

VARIABLES
  put,      \* blocks handed over so far; the k-th one is called k
  heard     \* the blocks played so far, frame by frame

vars == <<put, heard>>

FrameIdx == 0..(Frames - 1)

Init == put = 0 /\ heard = <<>>

\* The microphone side hands over the next block once the last one was heard
Put ==
  /\ put = Len(heard)
  /\ put' = put + 1
  /\ UNCHANGED heard

\* The headphone side plays the block handed over
Hear ==
  /\ put = Len(heard) + 1
  /\ \E block \in [FrameIdx -> {put} \cup Damage] : heard' = Append(heard, block)
  /\ UNCHANGED put

Next == Put \/ Hear

Spec == Init /\ [][Next]_vars
=============================================================================
