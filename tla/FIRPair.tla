------------------------------ MODULE FIRPair ------------------------------
(***************************************************************************)
(* The fast and the slow filter of FIR_filter side by side, as Demo.cpp    *)
(* creates them: the same kernel, the same stream in the same chunks.      *)
(***************************************************************************)
EXTENDS FastFIR

VARIABLES cofs, Buf, BufPtr, slowFed, slowLog

Slow == INSTANCE SlowFIR

pairVars == <<vars, cofs, Buf, BufPtr, slowFed, slowLog>>

PairInit == Init /\ Slow!Init

PairNext ==
  \/ \E l \in KernelSizes : SetKernel(l) /\ Slow!SetKernel(l)
  \/ \E size \in Sizes : Update(size) /\ Slow!Update(size)

PairSpec == PairInit /\ [][PairNext]_pairVars

\* Once its nfft zeros are out, the fast filter returns what the slow one returned ngood
\* samples earlier, with the kernel the other way round: kiss_fastfir convolves, the slow
\* filter lays coefficient 0 on the oldest sample.  The two agree on kernels that read
\* the same both ways.  An empty chunk, which the slow filter does not notice, ends that.
FastMirrorsSlow ==
  Overlap = "moves" /\ emptied = "no" =>
    \A i \in 1..Len(data) :
      LET k == fed - Len(data) + i
      IN  k > nfft => \A c \in Coefficients : data[i][c] = slowLog[k - ngood][nimp - 1 - c]
=============================================================================
