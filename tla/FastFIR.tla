------------------------------ MODULE FastFIR ------------------------------
(***************************************************************************)
(* FIR_filter/jfastfir.cpp, class JFastFIRFilter, over kiss_fastfir of     *)
(* kiss_fft130_jfork1.0.0/tools/kiss_fastfir.c: a stream comes in chunks   *)
(* of any size and goes out in chunks of the same size, while the filter   *)
(* underneath only works on blocks of nfft samples.  Update keeps input    *)
(* that does not fill a block in inbuf, and output that does not fit the   *)
(* chunk in remainder, which starts with nfft zeros so that there is       *)
(* always enough to give back.                                             *)
(*                                                                         *)
(* A sample is its position in the stream since the kernel was set, from   *)
(* 1 on; 0 is the sample zero.  A filtered sample is the function from the *)
(* coefficients of the kernel to the samples they are multiplied by; the   *)
(* FFTs that compute the sum are not modelled.  inbuf and remainder stand  *)
(* for the elements in use, so that idx_inbuf is Len(inbuf) and            *)
(* remainder_ptr is Len(remainder).                                        *)
(*                                                                         *)
(* A chunk may be empty: kiss_fastfir takes it for the end of the stream,  *)
(* which Update does not.  When a copy then leaves its buffer, memory is   *)
(* overrun, and what the program does after that is not described.         *)
(***************************************************************************)
EXTENDS Integers, Sequences

CONSTANTS
  KernelSizes,   \* lengths of impulse responses given to setKernel
  Sizes,         \* chunk sizes given to Update
  MaxSamples,    \* bound: samples filtered with one kernel
  Overlap,       \* what memcpy does to overlapping blocks: "moves" or may also "damage"
  Junk           \* a sample that is none of the stream

\* Mutant: the size of the kernel is rounded up, without the factor of four
FftSizeTight(l) == CHOOSE n \in l..(2 * l - 1) : \E k \in 0..(8 * l) : n = 2^k

\* pow(2.0, ceil(log2(_nfft))) for the rule of thumb _nfft = 4 * imp_responce.size()
FftSize(l) == CHOOSE n \in (4 * l)..(8 * l - 1) : \E k \in 0..(8 * l) : n = 2^k

ASSUME KernelSizesAssumption ==
  \A l \in KernelSizes :
    l \in Nat \ {0} /\ \E n \in (4 * l)..(8 * l - 1), k \in 0..(8 * l) : n = 2^k
ASSUME SizesAssumption == Sizes \subseteq Nat
ASSUME MaxSamplesAssumption == MaxSamples \in Nat
ASSUME OverlapAssumption == Overlap \in {"moves", "damage"}
ASSUME JunkAssumption == Junk \notin Nat

VARIABLES
  nimp,        \* n_imp_resp of the kernel
  nfft,        \* block size of the FFT
  inbuf,       \* samples not consumed yet
  remainder,   \* filtered samples not returned yet
  allocated,   \* inbuf.size() and outbuf.size()
  memory,      \* "intact", or "overrun" by a copy that was too long
  emptied,     \* history: "yes" when an empty chunk was given since the kernel was set
  fed,         \* history: samples given to Update since the kernel was set
  data         \* history: the chunk returned last

vars == <<nimp, nfft, inbuf, remainder, allocated, memory, emptied, fed, data>>

Coefficients == 0..(nimp - 1)
Silence(n) == [c \in 0..(n - 1) |-> 0]
Damaged(n) == [c \in 0..(n - 1) |-> Junk]

ngood == nfft - nimp + 1   \* outputs of a block that are not spoilt by its wrapping around

Lesser(a, b) == IF a < b THEN a ELSE b

\* The constructor: a kernel of one coefficient
Init ==
  /\ nimp = 1 /\ nfft = 2
  /\ inbuf = <<>>
  /\ remainder = [i \in 1..2 |-> Silence(1)]
  /\ allocated = 0 /\ memory = "intact" /\ emptied = "no"
  /\ fed = 0 /\ data = <<>>

\* Mutant: reset leaves room for one filtered sample less
SetKernelShort(l) ==
  /\ memory = "intact"
  /\ nimp' = l /\ nfft' = FftSize(l)
  /\ inbuf' = <<>>
  /\ remainder' = [i \in 1..(FftSize(l) - 1) |-> Silence(l)]
  /\ fed' = 0 /\ data' = <<>> /\ emptied' = "no"
  /\ UNCHANGED <<allocated, memory>>

\* setKernel of an impulse response of length l, and reset (an empty one changes nothing)
SetKernel(l) ==
  /\ memory = "intact"
  /\ nimp' = l /\ nfft' = FftSize(l)
  /\ inbuf' = <<>>
  /\ remainder' = [i \in 1..FftSize(l) |-> Silence(l)]
  /\ fed' = 0 /\ data' = <<>> /\ emptied' = "no"
  /\ UNCHANGED <<allocated, memory>>

\* memcpy of all but the first n elements of s to the front; damaged is what any of them
\* may become when the blocks overlap
Shifted(s, n, damaged) ==
  {SubSeq(s, n + 1, Len(s))} \cup
    IF Overlap = "damage" /\ 0 < n /\ n < Len(s) - n
    THEN {[i \in 1..(Len(s) - n) |-> damaged]}
    ELSE {}

\* Output i of fastconv1buf over in: the kernel laid over the nimp samples from in[i] on,
\* its last coefficient on the first of them
Convolved(in, i) == [c \in Coefficients |-> in[i + nimp - 1 - c]]

\* kff_nocopy: blocks is the number of blocks taken from n samples, as long as nfft are left
Blocks(n, blocks) ==
  LET left == n - blocks * ngood
  IN  left < nfft /\ (blocks = 0 \/ left + ngood >= nfft)

\* "ensure enough storage"
Grown(size) == IF allocated - Len(inbuf) < size THEN size + nfft ELSE allocated

\* Mutant: the rest of the output buffer is copied from its start
GiveBackFromStart(size, outbuf) ==
  LET taken == Lesser(size, Len(remainder))
      fromOut == Lesser(size - taken, Len(outbuf))
  IN  \E kept \in Shifted(remainder, taken, Damaged(nimp)) :
        /\ data' = SubSeq(remainder, 1, taken) \o SubSeq(outbuf, 1, fromOut)
        /\ remainder' = kept \o SubSeq(outbuf, 1, Len(outbuf) - fromOut)

\* The chunk returned: as much as possible from the remainder, then from the output
\* buffer, whose rest is added to the remainder.  What is still missing after that is left
\* unfiltered, and the remainder is said to hold it.
GiveBack(size, outbuf) ==
  LET taken == Lesser(size, Len(remainder))
      fromOut == Lesser(size - taken, Len(outbuf))
      missing == [i \in 1..(size - taken - fromOut) |-> Damaged(nimp)]
  IN  \E kept \in Shifted(remainder, taken, Damaged(nimp)) :
        /\ data' = SubSeq(remainder, 1, taken) \o SubSeq(outbuf, 1, fromOut) \o missing
        /\ remainder' = kept \o SubSeq(outbuf, fromOut + 1, Len(outbuf)) \o missing

\* What becomes of the memory when the remainder, of 2 * nfft elements, is added to
Added == IF Len(remainder') > 2 * nfft THEN "overrun" ELSE "intact"

\* Update and kiss_fastfir, for a chunk that is not empty
UpdateChunk(size) ==
  LET in == inbuf \o [i \in 1..size |-> fed + i]
  IN  /\ fed + size <= MaxSamples
      /\ allocated' = Grown(size)
      /\ \E blocks \in 0..Len(in) :
           LET nwrite == blocks * ngood
               outbuf == [i \in 1..nwrite |-> Convolved(in, i)]
           IN  /\ Blocks(Len(in), blocks)
               /\ inbuf' \in Shifted(in, nwrite, Junk)
               /\ GiveBack(size, outbuf)
      /\ fed' = fed + size
      /\ memory' = Added
      /\ UNCHANGED <<nimp, nfft, emptied>>

\* Update with Size 0, and kff_flush: the input that waits is filtered as far as it goes,
\* and what comes out is added to the remainder; the input is left waiting, and will come
\* out once more.  The count is unsigned: less input than that, and it wraps around.
UpdateEmpty ==
  LET nwrite == Len(inbuf) - nimp + 1
  IN  /\ remainder' = remainder \o [i \in 1..nwrite |-> Convolved(inbuf, i)]
      /\ memory' = IF nwrite < 0 THEN "overrun" ELSE Added
      /\ emptied' = "yes" /\ data' = <<>>
      /\ UNCHANGED <<nimp, nfft, inbuf, allocated, fed>>

Update(size) ==
  /\ memory = "intact"
  /\ IF size = 0 THEN UpdateEmpty ELSE UpdateChunk(size)

Next ==
  \/ \E l \in KernelSizes : SetKernel(l)
  \/ \E size \in Sizes : Update(size)

Spec == Init /\ [][Next]_vars

----------------------------------------------------------------------------
(* Properties                                                              *)

Samples == Nat \cup {Junk}

TypeOK ==
  /\ nimp \in Nat \ {0} /\ nfft \in Nat /\ nfft > nimp
  /\ inbuf \in Seq(Samples)
  /\ remainder \in Seq([Coefficients -> Samples])
  /\ allocated \in Nat /\ memory \in {"intact", "overrun"} /\ emptied \in {"no", "yes"}
  /\ fed \in 0..MaxSamples
  /\ data \in Seq([Coefficients -> Samples])

\* jfastfir.cpp:253, "this should not happen": whatever the chunk sizes, Update always has
\* enough filtered samples to give back.  Without an empty chunk, a whole block of nfft
\* samples waits, as input and as output together, in memory that holds them; an empty
\* chunk may make that more, or overrun the memory, but never less.
NeverStarves ==
  /\ memory = "intact" =>
       /\ Len(inbuf) < nfft /\ Len(inbuf) <= allocated
       /\ Len(inbuf) + Len(remainder) >= nfft
  /\ emptied = "no" => memory = "intact" /\ Len(inbuf) + Len(remainder) = nfft

\* The chunk and the input that waits fit the buffers that Update made room in, and, without
\* an empty chunk, the rest of the output fits the 2 * nfft elements of the remainder.
BuffersHold ==
  [][\A size \in Sizes : Update(size) =>
       /\ Len(inbuf) + size <= allocated'
       /\ emptied' = "no" => Len(remainder') <= 2 * nfft]_vars

\* What the stream should hold at position k after nfft zeros: the kernel laid over the
\* samples from k - nfft on
Expected(k) ==
  IF k <= nfft THEN Silence(nimp)
  ELSE [c \in Coefficients |-> k - nfft + nimp - 1 - c]

\* As long as no chunk is empty, the chunks put together are the filtered stream, delayed by
\* nfft and with nothing lost, repeated or swapped at the borders of chunks and blocks
\* (where memcpy moves overlapping blocks as memmove does).
StreamIsContinuous ==
  Overlap = "moves" /\ emptied = "no" =>
    \A i \in 1..Len(data) : data[i] = Expected(fed - Len(data) + i)
=============================================================================
