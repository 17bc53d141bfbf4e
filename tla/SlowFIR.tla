------------------------------ MODULE SlowFIR ------------------------------
(***************************************************************************)
(* FIR_filter/jfastfir.cpp, class JSlowFIRFilter: the same filter computed *)
(* directly, over a ring of as many samples as the kernel has              *)
(* coefficients.  Samples and filtered samples are those of FastFIR.       *)
(***************************************************************************)
EXTENDS Integers, Sequences

CONSTANTS
  KernelSizes,   \* lengths of impulse responses given to setKernel
  Sizes,         \* chunk sizes given to Update
  MaxSamples     \* bound: samples filtered with one kernel

VARIABLES
  cofs,     \* Cof.size()
  Buf,      \* the ring
  BufPtr,   \* where the next sample goes
  slowFed,  \* history: samples given to Update since the kernel was set
  slowLog   \* history: the samples returned since then

slowVars == <<cofs, Buf, BufPtr, slowFed, slowLog>>

\* The constructor, with a kernel of one coefficient, and reset
Init ==
  /\ cofs = 1
  /\ Buf = [b \in {0} |-> 0] /\ BufPtr = 0
  /\ slowFed = 0 /\ slowLog = <<>>

\* setKernel and reset.  (An empty kernel, which makes the next Update divide by zero, is left
\* out; the fast filter ignores one.)
SetKernel(l) ==
  /\ cofs' = l
  /\ Buf' = [b \in 0..(l - 1) |-> 0] /\ BufPtr' = 0
  /\ slowFed' = 0 /\ slowLog' = <<>>

\* A sample put into the ring r
Pushed(r, sample) == [buf |-> [r.buf EXCEPT ![r.ptr] = sample], ptr |-> (r.ptr + 1) % cofs]

\* The ring and its pointer after j samples of the chunk
Ring(size) ==
  LET ring[j \in 0..size] ==
        IF j = 0 THEN [buf |-> Buf, ptr |-> BufPtr % cofs]
        ELSE Pushed(ring[j - 1], slowFed + j)
  IN  ring

\* Mutant: the sum starts at the newest sample, not at the oldest
SumFromNewest(ring, j) == [c \in 0..(cofs - 1) |-> ring[j].buf[(ring[j].ptr + cofs - 1 + c) % cofs]]

\* The inner loop: coefficient c meets the sample c places after the pointer, which has just
\* moved past the newest sample on to the oldest.  The pointer comes back to where it was.
Sum(ring, j) == [c \in 0..(cofs - 1) |-> ring[j].buf[(ring[j].ptr + c) % cofs]]

Update(size) ==
  LET ring == Ring(size)
  IN  /\ slowFed + size <= MaxSamples
      /\ Buf' = ring[size].buf /\ BufPtr' = ring[size].ptr
      /\ slowLog' = slowLog \o [j \in 1..size |-> Sum(ring, j)]
      /\ slowFed' = slowFed + size
      /\ UNCHANGED cofs
=============================================================================
