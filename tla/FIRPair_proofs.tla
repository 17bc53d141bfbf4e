-------------------------- MODULE FIRPair_proofs --------------------------
(***************************************************************************)
(* The two streaming filters of jfastfir.cpp, for every kernel length,     *)
(* chunk size and stream.                                                  *)
(*                                                                         *)
(* JFastFIRFilter never starves and its output is the delayed stream.      *)
(* Input that waits and output that waits always make up one block         *)
(* (Waiting), because kff_nocopy gives out as many samples as it consumes; *)
(* an empty chunk only adds to what waits.  With less than a block of      *)
(* input waiting, a chunk of any size can be given back.  Content then     *)
(* follows position by position, as long as no chunk is empty.             *)
(*                                                                         *)
(* JSlowFIRFilter computes the same sums from a ring of nimp samples.  The *)
(* ring is defined by recursion over the samples given in, and what it     *)
(* holds is shown for the least count of samples at which it could fail    *)
(* (RingHolds).  Driven in step, each filter gives the other's output      *)
(* delayed by the block that waits.                                        *)
(***************************************************************************)
EXTENDS FIRPair, SequenceTheorems, WellFoundedInduction, TLAPS

Filtered == [Coefficients -> Samples]

Waiting ==
  /\ Len(inbuf) < nfft /\ Len(inbuf) <= allocated
  /\ Len(inbuf) + Len(remainder) >= nfft
  /\ emptied = "no" => memory = "intact" /\ Len(inbuf) + Len(remainder) = nfft

\* What waits on either side, and the chunk returned last, are the stream
Content ==
  Overlap = "moves" /\ emptied = "no" =>
    /\ \A i \in 1..Len(inbuf) : inbuf[i] = fed - Len(inbuf) + i
    /\ \A i \in 1..Len(remainder) : remainder[i] = Expected(fed + i)
    /\ \A i \in 1..Len(data) : data[i] = Expected(fed - Len(data) + i)

\* What must be known of the sizes for both
Sizing ==
  /\ Len(inbuf) <= fed
  /\ Len(data) <= fed

IInv == TypeOK /\ Waiting /\ Sizing /\ Content

\* A function over 1..n is a sequence of length n.
LEMMA FunctionIsSeq ==
  ASSUME NEW S, NEW n \in Nat, NEW f \in [1..n -> S]
  PROVE  f \in Seq(S) /\ Len(f) = n
<1>1. f \in Seq(S)
  BY SeqDef
<1>2. DOMAIN f = 1..Len(f) /\ Len(f) \in Nat
  BY <1>1, LenProperties
<1>3. DOMAIN f = 1..n
  OBVIOUS
<1>. QED
  BY <1>1, <1>2, <1>3

\* The rule of thumb gives at least four times the length of the kernel.
LEMMA FftSizeIsEnough ==
  ASSUME NEW l \in KernelSizes
  PROVE  l \in Nat \ {0} /\ FftSize(l) \in Nat /\ FftSize(l) >= 4 * l
<1>1. l \in Nat \ {0} /\ \E n \in (4 * l)..(8 * l - 1) : \E k \in 0..(8 * l) : n = 2^k
  BY KernelSizesAssumption
<1>2. FftSize(l) \in (4 * l)..(8 * l - 1)
  BY <1>1, Zenon DEF FftSize
<1>. QED
  BY <1>1, <1>2

\* A shifted sequence is shorter by what was taken, and holds the rest when blocks that
\* overlap are moved.
IsShift(S, s, n, t) ==
  /\ t \in Seq(S) /\ Len(t) = Len(s) - n
  /\ Overlap = "moves" => \A i \in 1..(Len(s) - n) : t[i] = s[n + i]

LEMMA ShiftedSeq ==
  ASSUME NEW S, NEW s \in Seq(S), NEW n \in Nat, n <= Len(s), NEW damaged \in S,
         NEW t \in Shifted(s, n, damaged)
  PROVE  IsShift(S, s, n, t)
<1>. USE DEF IsShift
<1>. DEFINE len == Len(s)
<1>1. len \in Nat
  BY LenProperties
<1>2. CASE t = SubSeq(s, n + 1, len)
  <2>1. \A i \in (n + 1)..len : s[i] \in S
    BY <1>1, ElementOfSeq
  <2>2. /\ t \in Seq(S) /\ Len(t) = IF n + 1 <= len THEN len - (n + 1) + 1 ELSE 0
        /\ \A i \in 1..(len - (n + 1) + 1) : t[i] = s[n + 1 + i - 1]
    <3>. HIDE DEF len
    <3>1. n + 1 \in Int /\ len \in Int
      BY <1>1
    <3>. QED
      BY <1>2, <2>1, <3>1, SubSeqProperties
  <2>. QED
    BY <1>1, <2>2
<1>3. CASE Overlap = "damage" /\ t = [i \in 1..(len - n) |-> damaged]
  <2>1. t \in [1..(len - n) -> S] /\ len - n \in Nat
    BY <1>1, <1>3
  <2>. QED
    BY <1>3, <2>1, FunctionIsSeq
<1>. QED
  BY <1>2, <1>3 DEF Shifted

\* Two sequences put together, position by position
Queue(s, t, i) == IF i <= Len(s) THEN s[i] ELSE t[i - Len(s)]


\* The first n elements of a sequence, and what follows them
LEMMA SplitSeq ==
  ASSUME NEW S, NEW s \in Seq(S), NEW n \in Nat, n <= Len(s)
  PROVE  /\ SubSeq(s, 1, n) \in Seq(S) /\ Len(SubSeq(s, 1, n)) = n
         /\ \A i \in 1..n : SubSeq(s, 1, n)[i] = s[i]
         /\ SubSeq(s, n + 1, Len(s)) \in Seq(S) /\ Len(SubSeq(s, n + 1, Len(s))) = Len(s) - n
         /\ \A i \in 1..(Len(s) - n) : SubSeq(s, n + 1, Len(s))[i] = s[n + i]
<1>. DEFINE len == Len(s)
<1>1. len \in Nat
  BY LenProperties
<1>2. \A i \in 1..len : s[i] \in S
  BY ElementOfSeq
<1>. HIDE DEF len
<1>3. n \in Int /\ n + 1 \in Int /\ len \in Int /\ 1 \in Int /\ n <= len
  BY <1>1 DEF len
<1>4. /\ SubSeq(s, 1, n) \in Seq(S) /\ Len(SubSeq(s, 1, n)) = IF 1 <= n THEN n - 1 + 1 ELSE 0
      /\ \A i \in 1..(n - 1 + 1) : SubSeq(s, 1, n)[i] = s[1 + i - 1]
  <2>1. \A i \in 1..n : s[i] \in S
    BY <1>2, <1>3
  <2>. QED
    BY <2>1, <1>3, SubSeqProperties
<1>5. /\ SubSeq(s, n + 1, len) \in Seq(S)
      /\ Len(SubSeq(s, n + 1, len)) = IF n + 1 <= len THEN len - (n + 1) + 1 ELSE 0
      /\ \A i \in 1..(len - (n + 1) + 1) : SubSeq(s, n + 1, len)[i] = s[n + 1 + i - 1]
  <2>1. \A i \in (n + 1)..len : s[i] \in S
    BY <1>2, <1>3
  <2>. QED
    BY <2>1, <1>3, SubSeqProperties
<1>6. /\ Len(SubSeq(s, 1, n)) = n
      /\ \A i \in 1..n : SubSeq(s, 1, n)[i] = s[i]
  BY <1>4
<1>7. /\ Len(SubSeq(s, n + 1, len)) = len - n
      /\ \A i \in 1..(len - n) : SubSeq(s, n + 1, len)[i] = s[n + i]
  BY <1>1, <1>3, <1>5
<1>. QED
  BY <1>4, <1>5, <1>6, <1>7 DEF len

\* Concatenation, with the sequences as its parameters
Joined(S, a, b) ==
  /\ a \o b \in Seq(S) /\ Len(a \o b) = Len(a) + Len(b)
  /\ \A i \in 1..(Len(a) + Len(b)) :
       (a \o b)[i] = IF i <= Len(a) THEN a[i] ELSE b[i - Len(a)]

LEMMA JoinedSeq == \A S : \A a, b \in Seq(S) : Joined(S, a, b)
BY ConcatProperties, Zenon DEF Joined

\* What Update does with the remainder s and the output buffer t keeps their order: taken
\* elements of s and then fromOut of t are given back, the rest of both is kept.
IsSplit(S, s, t, size, taken, fromOut, kept) ==
  LET chunk == SubSeq(s, 1, taken) \o SubSeq(t, 1, fromOut)
      rest == kept \o SubSeq(t, fromOut + 1, Len(t))
  IN  /\ chunk \in Seq(S) /\ Len(chunk) = size
      /\ rest \in Seq(S) /\ Len(rest) = Len(s) + Len(t) - size
      /\ \A i \in 1..size : chunk[i] = Queue(s, t, i)
      /\ (\A i \in 1..(Len(s) - taken) : kept[i] = s[taken + i]) =>
           \A i \in 1..(Len(s) + Len(t) - size) : rest[i] = Queue(s, t, size + i)

LEMMA QueueSplit ==
  ASSUME NEW S, NEW s \in Seq(S), NEW t \in Seq(S), NEW size \in Nat,
         NEW taken \in Nat, NEW fromOut \in Nat, NEW kept \in Seq(S),
         taken <= Len(s), fromOut <= Len(t), taken + fromOut = size,
         fromOut > 0 => taken = Len(s), Len(kept) = Len(s) - taken
  PROVE  IsSplit(S, s, t, size, taken, fromOut, kept)
<1>. DEFINE m == Len(s)
            n == Len(t)
            first == SubSeq(s, 1, taken)
            second == SubSeq(t, 1, fromOut)
            last == SubSeq(t, fromOut + 1, n)
<1>1. /\ m \in Nat /\ n \in Nat /\ taken <= m /\ fromOut <= n
      /\ fromOut > 0 => taken = m
  BY LenProperties
<1>2. first \in Seq(S) /\ Len(first) = taken /\ \A i \in 1..taken : first[i] = s[i]
  BY SplitSeq
<1>3. second \in Seq(S) /\ Len(second) = fromOut /\ \A i \in 1..fromOut : second[i] = t[i]
  BY SplitSeq
<1>4. last \in Seq(S) /\ Len(last) = n - fromOut /\ \A i \in 1..(n - fromOut) : last[i] = t[fromOut + i]
  BY SplitSeq
<1>5. Len(kept) = m - taken
  OBVIOUS
<1>6. \A i : Queue(s, t, i) = IF i <= m THEN s[i] ELSE t[i - m]
  BY DEF Queue
<1>. HIDE DEF m, n, first, second, last
<1>7. /\ first \o second \in Seq(S) /\ Len(first \o second) = taken + fromOut
      /\ \A i \in 1..(taken + fromOut) :
           (first \o second)[i] = IF i <= taken THEN first[i] ELSE second[i - taken]
  <2>1. Joined(S, first, second)
    BY <1>2, <1>3, JoinedSeq, Zenon
  <2>. QED
    BY <2>1, <1>2, <1>3, Zenon DEF Joined
<1>8. /\ kept \o last \in Seq(S) /\ Len(kept \o last) = (m - taken) + (n - fromOut)
      /\ \A i \in 1..((m - taken) + (n - fromOut)) :
           (kept \o last)[i] = IF i <= m - taken THEN kept[i] ELSE last[i - (m - taken)]
  <2>1. Joined(S, kept, last)
    BY <1>4, JoinedSeq, Zenon
  <2>. QED
    BY <2>1, <1>4, <1>5, Zenon DEF Joined
<1>9. ASSUME NEW i \in 1..size PROVE (first \o second)[i] = Queue(s, t, i)
  <2>1. (first \o second)[i] = IF i <= taken THEN first[i] ELSE second[i - taken]
    BY <1>7
  <2>2. CASE i <= taken
    BY <1>1, <1>2, <1>6, <2>1, <2>2
  <2>3. CASE ~(i <= taken)
    BY <1>1, <1>3, <1>6, <2>1, <2>3
  <2>. QED
    BY <2>2, <2>3
<1>10. ASSUME \A i \in 1..(m - taken) : kept[i] = s[taken + i], NEW i \in 1..(m + n - size)
       PROVE  (kept \o last)[i] = Queue(s, t, size + i)
  <2>1. (kept \o last)[i] = IF i <= m - taken THEN kept[i] ELSE last[i - (m - taken)]
    BY <1>1, <1>8
  <2>2. CASE i <= m - taken
    <3>1. size = taken /\ i \in 1..(m - taken) /\ size + i <= m
      BY <1>1, <2>2
    <3>2. kept[i] = s[size + i]
      BY <1>10, <3>1
    <3>. QED
      BY <1>6, <2>1, <2>2, <3>1, <3>2
  <2>3. CASE ~(i <= m - taken)
    <3>1. last[i - (m - taken)] = t[fromOut + (i - (m - taken))]
      BY <1>1, <1>4, <2>3
    <3>2. fromOut + (i - (m - taken)) = size + i - m /\ ~(size + i <= m)
      BY <1>1, <2>3
    <3>3. Queue(s, t, size + i) = t[size + i - m]
      BY <3>2 DEF Queue, m
    <3>. QED
      BY <2>1, <2>3, <3>1, <3>2, <3>3
  <2>. QED
    BY <2>2, <2>3
<1>11. Len(kept \o last) = m + n - size
  BY <1>1, <1>8
<1>. QED
  BY <1>7, <1>8, <1>9, <1>10, <1>11 DEF first, second, last, m, n, IsSplit

\* With enough filtered samples, the chunk returned is the first part of the remainder
\* followed by the output buffer, and the new remainder is the rest.
LEMMA GiveBackIsQueue ==
  ASSUME NEW size \in Nat, NEW outbuf \in Seq(Filtered), remainder \in Seq(Filtered),
         Damaged(nimp) \in Filtered, size <= Len(remainder) + Len(outbuf),
         GiveBack(size, outbuf)
  PROVE  /\ data' \in Seq(Filtered) /\ Len(data') = size
         /\ remainder' \in Seq(Filtered)
         /\ Len(remainder') = Len(remainder) + Len(outbuf) - size
         /\ Overlap = "moves" =>
              /\ \A i \in 1..size : data'[i] = Queue(remainder, outbuf, i)
              /\ \A i \in 1..(Len(remainder) + Len(outbuf) - size) :
                   remainder'[i] = Queue(remainder, outbuf, size + i)
<1>. DEFINE r == Len(remainder)
            o == Len(outbuf)
            taken == Lesser(size, r)
            fromOut == Lesser(size - taken, o)
            missing == [i \in 1..(size - taken - fromOut) |-> Damaged(nimp)]
            chunk == SubSeq(remainder, 1, taken) \o SubSeq(outbuf, 1, fromOut)
            rest(kept) == kept \o SubSeq(outbuf, fromOut + 1, o)
<1>1. r \in Nat /\ o \in Nat /\ size <= r + o
  BY LenProperties
<1>2. PICK kept \in Shifted(remainder, taken, Damaged(nimp)) :
        data' = chunk \o missing /\ remainder' = rest(kept) \o missing
  BY Zenon DEF GiveBack
<1>3. /\ taken \in Nat /\ taken <= r /\ fromOut \in Nat /\ fromOut <= o
      /\ taken + fromOut = size /\ (fromOut > 0 => taken = r)
  <2>. HIDE DEF r, o
  <2>. QED
    BY <1>1 DEF Lesser
<1>. HIDE DEF taken, fromOut
<1>4. missing = <<>>
  <2>1. size - taken - fromOut = 0
    BY <1>3
  <2>. QED
    BY <2>1
<1>5. /\ kept \in Seq(Filtered) /\ Len(kept) = r - taken
      /\ Overlap = "moves" => \A i \in 1..(r - taken) : kept[i] = remainder[taken + i]
  <2>1. IsShift(Filtered, remainder, taken, kept)
    BY <1>2, <1>3, ShiftedSeq
  <2>. QED
    BY <2>1 DEF IsShift
<1>6. /\ chunk \in Seq(Filtered) /\ Len(chunk) = size
      /\ rest(kept) \in Seq(Filtered) /\ Len(rest(kept)) = r + o - size
      /\ \A i \in 1..size : chunk[i] = Queue(remainder, outbuf, i)
      /\ (\A i \in 1..(r - taken) : kept[i] = remainder[taken + i]) =>
           \A i \in 1..(r + o - size) : rest(kept)[i] = Queue(remainder, outbuf, size + i)
  <2>1. IsSplit(Filtered, remainder, outbuf, size, taken, fromOut, kept)
    BY <1>3, <1>5, QueueSplit
  <2>. QED
    BY <2>1 DEF IsSplit
<1>. HIDE DEF chunk, rest, missing
<1>7. data' = chunk /\ remainder' = rest(kept)
  BY <1>2, <1>4, <1>6, ConcatEmptySeq
<1>. QED
  BY <1>5, <1>6, <1>7

----------------------------------------------------------------------------

LEMMA SilenceIsFiltered ==
  ASSUME NEW n \in Nat
  PROVE  Silence(n) \in [0..(n - 1) -> Samples]
BY DEF Silence, Samples

\* Both ways of setting a kernel leave the filter with these contents.
LEMMA FreshInv ==
  ASSUME NEW l \in Nat \ {0}, NEW n \in Nat, n > l,
         nimp' = l, nfft' = n, inbuf' = <<>>,
         remainder' = [i \in 1..n |-> Silence(l)],
         allocated' \in Nat, memory' = "intact", emptied' = "no", fed' = 0, data' = <<>>
  PROVE  IInv'
<1>. DEFINE F == [0..(l - 1) -> Samples]
<1>1. Filtered' = F /\ Coefficients' = 0..(l - 1)
  BY DEF Filtered, Coefficients
<1>2. Silence(l) \in F
  BY SilenceIsFiltered
<1>. HIDE DEF F
<1>3. remainder' \in Seq(F) /\ Len(remainder') = n
  <2>1. remainder' \in [1..n -> F]
    BY <1>2
  <2>. QED
    BY <2>1, FunctionIsSeq
<1>4. inbuf' \in Seq(Samples) /\ data' \in Seq(F) /\ Len(inbuf') = 0 /\ Len(data') = 0
  BY EmptySeq
<1>5. TypeOK'
  <2>1. remainder' \in Seq(Filtered') /\ data' \in Seq(Filtered')
    BY <1>1, <1>3, <1>4
  <2>2. fed' \in 0..MaxSamples
    BY MaxSamplesAssumption
  <2>. QED
    BY <1>4, <2>1, <2>2, Zenon DEF TypeOK, Filtered
<1>6. Waiting' /\ Sizing'
  <2>1. 0 < n /\ 0 + n = n /\ n >= n /\ 0 <= 0
    OBVIOUS
  <2>2. 0 <= allocated'
    OBVIOUS
  <2>. QED
    BY <1>3, <2>2, <1>4, <2>1, Zenon DEF Waiting, Sizing
<1>7. ASSUME NEW i \in 1..n PROVE (remainder[i])' = Expected(fed + i)'
  BY <1>7 DEF Expected
<1>8. Content'
  BY <1>3, <1>4, <1>7 DEF Content
<1>. QED
  BY <1>5, <1>6, <1>8 DEF IInv

LEMMA SetKernelInv ==
  ASSUME NEW l \in KernelSizes, IInv, SetKernel(l)
  PROVE  IInv'
<1>1. l \in Nat \ {0} /\ FftSize(l) \in Nat /\ FftSize(l) > l
  BY FftSizeIsEnough
<1>2. allocated' \in Nat /\ memory' = "intact"
  BY DEF IInv, TypeOK, SetKernel
<1>. QED
  BY <1>1, <1>2, FreshInv DEF SetKernel

LEMMA UpdateChunkInv ==
  ASSUME NEW size \in Nat \ {0}, IInv, UpdateChunk(size)
  PROVE  IInv' /\ Len(inbuf) + size <= allocated'
<1>. DEFINE idx == Len(inbuf)
            rp == Len(remainder)
            n == idx + size
            new == [i \in 1..size |-> fed + i]
            in == inbuf \o new
            out(nwrite) == [i \in 1..nwrite |-> Convolved(in, i)]
<1>1. /\ size \in Nat \ {0} /\ nimp \in Nat \ {0} /\ nfft \in Nat /\ nfft > nimp
      /\ allocated \in Nat /\ fed \in Nat /\ MaxSamples \in Nat
      /\ inbuf \in Seq(Samples) /\ remainder \in Seq(Filtered)
  BY MaxSamplesAssumption DEF IInv, TypeOK, Filtered
<1>2. /\ idx \in Nat /\ rp \in Nat /\ idx < nfft /\ idx <= allocated /\ idx + rp >= nfft
      /\ emptied = "no" => idx + rp = nfft
      /\ idx <= fed
  BY <1>1, LenProperties DEF IInv, Waiting, Sizing
<1>3. /\ fed' = fed + size /\ fed' \in 0..MaxSamples /\ nimp' = nimp /\ nfft' = nfft
      /\ allocated' = Grown(size) /\ emptied' = emptied /\ memory' = Added
  BY <1>1 DEF UpdateChunk
<1>4. allocated' \in Nat /\ n <= allocated'
  <2>1. allocated' = IF allocated - idx < size THEN size + nfft ELSE allocated
    BY <1>3 DEF Grown
  <2>. HIDE DEF idx
  <2>. QED
    BY <1>1, <1>2, <2>1
<1>5. /\ in \in Seq(Samples) /\ Len(in) = n
      /\ \A i \in 1..n : in[i] = IF i <= idx THEN inbuf[i] ELSE new[i - idx]
  <2>1. new \in [1..size -> Samples]
    BY <1>1 DEF Samples
  <2>. HIDE DEF new
  <2>2. new \in Seq(Samples) /\ Len(new) = size
    BY <1>1, <2>1, FunctionIsSeq
  <2>3. Joined(Samples, inbuf, new)
    BY <1>1, <2>2, JoinedSeq, Zenon
  <2>. QED
    BY <2>2, <2>3, Zenon DEF Joined
<1>6. Overlap = "moves" /\ emptied = "no" => \A i \in 1..n : in[i] = fed - idx + i
  <2>. SUFFICES ASSUME Overlap = "moves", emptied = "no", NEW i \in 1..n PROVE in[i] = fed - idx + i
    OBVIOUS
  <2>1. CASE i <= idx
    <3>1. \A j \in 1..idx : inbuf[j] = fed - idx + j
      BY DEF IInv, Content
    <3>. HIDE DEF idx, in
    <3>2. i \in 1..idx
      BY <1>1, <1>2, <2>1
    <3>3. in[i] = inbuf[i]
      BY <1>5, <2>1, Zenon
    <3>. QED
      BY <3>1, <3>2, <3>3
  <2>2. CASE ~(i <= idx)
    <3>. HIDE DEF idx, in
    <3>1. i - idx \in 1..size
      BY <1>1, <1>2, <2>2
    <3>2. new[i - idx] = fed + (i - idx)
      BY <3>1
    <3>. QED
      BY <1>1, <1>2, <1>5, <2>2, <3>2
  <2>. QED
    BY <2>1, <2>2
<1>7. PICK blocks \in 0..Len(in) :
        /\ Blocks(Len(in), blocks)
        /\ inbuf' \in Shifted(in, blocks * ngood, Junk)
        /\ GiveBack(size, out(blocks * ngood))
  BY Zenon DEF UpdateChunk
<1>. DEFINE nwrite == blocks * ngood
            outbuf == out(nwrite)
<1>8. /\ nwrite \in Nat /\ nwrite <= n /\ n - nwrite < nfft
      /\ nwrite > 0 => nwrite + nimp - 1 <= n
  <2>1. ngood \in Nat /\ ngood = nfft - nimp + 1 /\ blocks \in Nat
    BY <1>1, <1>2, <1>5, <1>7 DEF ngood
  <2>2. nwrite \in Nat /\ (blocks = 0 => nwrite = 0)
    BY <2>1
  <2>3. n - nwrite < nfft /\ (blocks = 0 \/ n - nwrite + ngood >= nfft)
    BY <1>5, <1>7 DEF Blocks
  <2>. HIDE DEF nwrite, idx
  <2>. QED
    BY <1>1, <1>2, <2>1, <2>2, <2>3
<1>. HIDE DEF nwrite, in
<1>9. outbuf \in Seq(Filtered) /\ Len(outbuf) = nwrite
  <2>1. ASSUME NEW i \in 1..nwrite PROVE Convolved(in, i) \in Filtered
    <3>1. ASSUME NEW c \in Coefficients PROVE in[i + nimp - 1 - c] \in Samples
      <4>1. i + nimp - 1 - c \in 1..n
        <5>. HIDE DEF idx
        <5>. QED
          BY <1>1, <1>2, <1>8 DEF Coefficients
      <4>. QED
        BY <1>5, <4>1, ElementOfSeq
    <3>. QED
      BY <3>1 DEF Convolved, Filtered
  <2>2. outbuf \in [1..nwrite -> Filtered]
    BY <2>1
  <2>. HIDE DEF outbuf
  <2>. QED
    BY <1>8, <2>2, FunctionIsSeq
<1>10. size <= rp + nwrite
  <2>. HIDE DEF idx, rp
  <2>. QED
    BY <1>1, <1>2, <1>8
<1>11. Damaged(nimp) \in Filtered
  BY DEF Damaged, Filtered, Coefficients, Samples
<1>12. /\ data' \in Seq(Filtered) /\ Len(data') = size
       /\ remainder' \in Seq(Filtered) /\ Len(remainder') = rp + nwrite - size
       /\ Overlap = "moves" =>
            /\ \A i \in 1..size : data'[i] = Queue(remainder, outbuf, i)
            /\ \A i \in 1..(rp + nwrite - size) : remainder'[i] = Queue(remainder, outbuf, size + i)
  <2>1. GiveBack(size, outbuf)
    BY <1>7 DEF nwrite
  <2>. HIDE DEF outbuf
  <2>. QED
    BY <1>1, <1>9, <1>10, <1>11, <2>1, GiveBackIsQueue
<1>13. IsShift(Samples, in, nwrite, inbuf')
  <2>1. inbuf' \in Shifted(in, nwrite, Junk) /\ Junk \in Samples
    BY <1>7 DEF nwrite, Samples
  <2>. HIDE DEF n
  <2>. QED
    BY <1>5, <1>8, <2>1, ShiftedSeq
<1>14. /\ inbuf' \in Seq(Samples) /\ Len(inbuf') = n - nwrite
       /\ Overlap = "moves" => \A i \in 1..(n - nwrite) : inbuf'[i] = in[nwrite + i]
  BY <1>5, <1>13 DEF IsShift
<1>15. Overlap = "moves" /\ emptied = "no" =>
         \A i \in 1..(rp + nwrite) : Queue(remainder, outbuf, i) = Expected(fed + i)
  <2>. SUFFICES ASSUME Overlap = "moves", emptied = "no", NEW i \in 1..(rp + nwrite)
                PROVE  Queue(remainder, outbuf, i) = Expected(fed + i)
    OBVIOUS
  <2>1. CASE i <= rp
    <3>1. \A j \in 1..rp : remainder[j] = Expected(fed + j)
      BY DEF IInv, Content
    <3>2. Queue(remainder, outbuf, i) = remainder[i]
      BY <2>1 DEF Queue
    <3>3. i \in 1..rp
      <4>. HIDE DEF rp
      <4>. QED
        BY <1>2, <2>1
    <3>. QED
      BY <3>1, <3>2, <3>3
  <2>2. CASE ~(i <= rp)
    <3>1. Queue(remainder, outbuf, i) = outbuf[i - rp]
      BY <2>2 DEF Queue
    <3>. HIDE DEF idx, rp
    <3>2. i - rp \in 1..nwrite
      BY <1>2, <1>8, <2>2
    <3>3. outbuf[i - rp] = Convolved(in, i - rp)
      BY <3>2
    <3>4. ASSUME NEW c \in Coefficients
          PROVE  in[i - rp + nimp - 1 - c] = (fed + i) - nfft + nimp - 1 - c
      <4>1. i - rp + nimp - 1 - c \in 1..n
        BY <1>1, <1>2, <1>8, <3>2 DEF Coefficients
      <4>2. in[i - rp + nimp - 1 - c] = fed - idx + (i - rp + nimp - 1 - c)
        BY <1>6, <4>1
      <4>. QED
        BY <1>1, <1>2, <4>2 DEF Coefficients
    <3>5. ~(fed + i <= nfft)
      BY <1>1, <1>2, <2>2
    <3>6. Convolved(in, i - rp) = [c \in Coefficients |-> (fed + i) - nfft + nimp - 1 - c]
      BY <3>4 DEF Convolved
    <3>. QED
      BY <3>1, <3>3, <3>5, <3>6, Zenon DEF Expected
  <2>. QED
    BY <2>1, <2>2
<1>. HIDE DEF outbuf, idx, rp
<1>16. \A k : Expected(k)' = Expected(k)
  BY <1>3 DEF Expected, Coefficients
<1>17. TypeOK'
  <2>1. Coefficients' = Coefficients
    BY <1>3 DEF Coefficients
  <2>. QED
    BY <1>1, <1>3, <1>4, <1>12, <1>14, <2>1 DEF IInv, TypeOK, Filtered, Added
<1>18. Waiting' /\ Sizing'
  <2>1. /\ Len(inbuf') = n - nwrite /\ Len(remainder') = rp + nwrite - size
        /\ n = idx + size /\ nfft' = nfft
    BY <1>3, <1>12, <1>14
  <2>2. ASSUME emptied' = "no" PROVE memory' = "intact" /\ Len(inbuf') + Len(remainder') = nfft'
    <3>1. idx + rp = nfft
      BY <1>2, <1>3, <2>2
    <3>2. Len(remainder') <= 2 * nfft
      BY <1>1, <1>2, <1>8, <2>1, <3>1
    <3>. QED
      BY <1>1, <1>2, <1>3, <1>8, <2>1, <3>1, <3>2 DEF Added
  <2>3. /\ Len(inbuf') < nfft' /\ Len(inbuf') <= allocated'
        /\ Len(inbuf') + Len(remainder') >= nfft'
    BY <1>1, <1>2, <1>4, <1>8, <2>1
  <2>. QED
    BY <1>1, <1>2, <1>3, <1>8, <1>12, <2>1, <2>2, <2>3 DEF Waiting, Sizing
<1>19. Content'
  <2>. SUFFICES ASSUME Overlap = "moves", emptied = "no"
                PROVE  /\ \A i \in 1..(n - nwrite) : inbuf'[i] = fed' - (n - nwrite) + i
                       /\ \A i \in 1..(rp + nwrite - size) : remainder'[i] = Expected(fed' + i)
                       /\ \A i \in 1..size : data'[i] = Expected(fed' - size + i)
    BY <1>3, <1>12, <1>14, <1>16 DEF Content
  <2>1. ASSUME NEW i \in 1..(n - nwrite) PROVE inbuf'[i] = fed' - (n - nwrite) + i
    BY <1>1, <1>2, <1>3, <1>6, <1>8, <1>14
  <2>2. ASSUME NEW i \in 1..(rp + nwrite - size) PROVE remainder'[i] = Expected(fed' + i)
    <3>1. size + i \in 1..(rp + nwrite) /\ fed + (size + i) = fed' + i
      BY <1>1, <1>2, <1>3, <1>8
    <3>2. remainder'[i] = Queue(remainder, outbuf, size + i)
      BY <1>12
    <3>3. Queue(remainder, outbuf, size + i) = Expected(fed + (size + i))
      BY <1>15, <3>1
    <3>. QED
      BY <3>1, <3>2, <3>3
  <2>3. ASSUME NEW i \in 1..size PROVE data'[i] = Expected(fed' - size + i)
    <3>1. i \in 1..(rp + nwrite) /\ fed + i = fed' - size + i
      BY <1>1, <1>2, <1>3, <1>8, <1>10
    <3>2. data'[i] = Queue(remainder, outbuf, i)
      BY <1>12
    <3>. QED
      BY <1>15, <3>1, <3>2
  <2>. QED
    BY <2>1, <2>2, <2>3
<1>. QED
  BY <1>4, <1>17, <1>18, <1>19 DEF IInv, idx

\* An empty chunk only adds to the remainder, if it leaves the memory as it should be.
LEMMA UpdateEmptyInv ==
  ASSUME IInv, UpdateEmpty
  PROVE  IInv' /\ Len(inbuf) <= allocated'
<1>. DEFINE idx == Len(inbuf)
            nwrite == idx - nimp + 1
            out == [i \in 1..nwrite |-> Convolved(inbuf, i)]
            m == IF nwrite < 0 THEN 0 ELSE nwrite
<1>1. /\ nimp \in Nat \ {0} /\ nfft \in Nat /\ fed \in Nat /\ allocated \in Nat
      /\ inbuf \in Seq(Samples) /\ remainder \in Seq(Filtered)
  BY MaxSamplesAssumption DEF IInv, TypeOK, Filtered
<1>2. /\ idx \in Nat /\ Len(remainder) \in Nat /\ idx < nfft /\ idx <= allocated
      /\ idx + Len(remainder) >= nfft
  BY <1>1, LenProperties DEF IInv, Waiting
<1>3. /\ remainder' = remainder \o out /\ emptied' = "yes" /\ data' = <<>>
      /\ memory' \in {"intact", "overrun"}
      /\ UNCHANGED <<nimp, nfft, inbuf, allocated, fed>>
  BY DEF UpdateEmpty, Added
<1>4. ASSUME NEW i \in 1..nwrite PROVE Convolved(inbuf, i) \in Filtered
  <2>1. ASSUME NEW c \in Coefficients PROVE inbuf[i + nimp - 1 - c] \in Samples
    <3>1. i + nimp - 1 - c \in 1..idx
      <4>. HIDE DEF idx
      <4>. QED
        BY <1>1, <1>2 DEF Coefficients
    <3>. QED
      BY <1>1, <3>1, ElementOfSeq
  <2>. QED
    BY <2>1 DEF Convolved, Filtered
<1>5. m \in Nat /\ 1..nwrite = 1..m
  <2>. HIDE DEF idx
  <2>. QED
    BY <1>1, <1>2
<1>6. out \in Seq(Filtered) /\ Len(out) = m
  <2>1. out \in [1..m -> Filtered]
    BY <1>4, <1>5
  <2>. HIDE DEF out, m
  <2>. QED
    BY <1>5, <2>1, FunctionIsSeq
<1>. HIDE DEF out, m
<1>7. remainder' \in Seq(Filtered) /\ Len(remainder') = Len(remainder) + m
  <2>1. Joined(Filtered, remainder, out)
    BY <1>1, <1>6, JoinedSeq, Zenon
  <2>. QED
    BY <1>3, <1>6, <2>1, Zenon DEF Joined
<1>8. data' \in Seq(Filtered) /\ Len(data') = 0
  BY <1>3, EmptySeq
<1>9. TypeOK'
  <2>1. Coefficients' = Coefficients
    BY <1>3 DEF Coefficients
  <2>. QED
    BY <1>3, <1>7, <1>8, <2>1 DEF IInv, TypeOK, Filtered
<1>10. Waiting' /\ Sizing'
  BY <1>1, <1>2, <1>3, <1>5, <1>7, <1>8 DEF IInv, Waiting, Sizing
<1>11. Content'
  BY <1>3 DEF Content
<1>. QED
  BY <1>2, <1>3, <1>9, <1>10, <1>11 DEF IInv

LEMMA UpdateInv ==
  ASSUME NEW size \in Sizes, IInv, Update(size)
  PROVE  /\ IInv' /\ Len(inbuf) + size <= allocated'
         /\ nimp' = nimp /\ nfft' = nfft /\ fed' = fed + size
<1>1. size \in Nat
  BY SizesAssumption
<1>2. CASE size = 0
  <2>1. UpdateEmpty /\ fed \in Nat /\ Len(inbuf) \in Nat
    BY <1>2, MaxSamplesAssumption, LenProperties DEF Update, IInv, TypeOK
  <2>. QED
    BY <1>2, <2>1, UpdateEmptyInv DEF UpdateEmpty
<1>3. CASE size # 0
  <2>1. UpdateChunk(size) /\ size \in Nat \ {0}
    BY <1>1, <1>3 DEF Update
  <2>. QED
    BY <2>1, UpdateChunkInv DEF UpdateChunk
<1>. QED
  BY <1>2, <1>3

LEMMA InitInv == Init => IInv
<1>. SUFFICES ASSUME Init PROVE IInv
  OBVIOUS
<1>1. /\ nimp = 1 /\ nfft = 2 /\ inbuf = <<>> /\ allocated = 0 /\ fed = 0 /\ data = <<>>
      /\ remainder = [i \in 1..2 |-> Silence(1)] /\ memory = "intact" /\ emptied = "no"
  BY DEF Init
<1>2. Silence(1) \in Filtered /\ Filtered = [0..(nimp - 1) -> Samples]
  BY <1>1, SilenceIsFiltered DEF Filtered, Coefficients
<1>3. remainder \in Seq(Filtered) /\ Len(remainder) = 2
  <2>1. remainder \in [1..2 -> Filtered]
    BY <1>1, <1>2
  <2>. QED
    BY <2>1, FunctionIsSeq
<1>4. inbuf \in Seq(Samples) /\ data \in Seq(Filtered) /\ Len(inbuf) = 0 /\ Len(data) = 0
  BY <1>1, EmptySeq
<1>5. TypeOK
  <2>1. /\ nimp \in Nat \ {0} /\ nfft \in Nat /\ nfft > nimp /\ allocated \in Nat
        /\ fed \in 0..MaxSamples /\ memory = "intact" /\ emptied = "no"
    BY <1>1, MaxSamplesAssumption
  <2>. QED
    BY <1>3, <1>4, <2>1, Zenon DEF TypeOK, Filtered
<1>6. Waiting /\ Sizing
  <2>1. 0 < nfft /\ 0 <= allocated /\ 0 + 2 = nfft /\ nfft >= nfft /\ 0 <= fed
    BY <1>1
  <2>. QED
    BY <1>1, <1>3, <1>4, <2>1, Zenon DEF Waiting, Sizing
<1>7. ASSUME NEW i \in 1..2 PROVE remainder[i] = Expected(fed + i)
  BY <1>1, <1>7 DEF Expected
<1>8. Content
  BY <1>3, <1>4, <1>7 DEF Content
<1>. QED
  BY <1>5, <1>6, <1>8 DEF IInv

LEMMA StutterInv == IInv /\ UNCHANGED vars => IInv'
<1>. SUFFICES ASSUME IInv, UNCHANGED vars PROVE IInv'
  OBVIOUS
<1>1. TypeOK'
  BY DEF IInv, TypeOK, Coefficients, vars
<1>2. Waiting' /\ Sizing'
  BY DEF IInv, Waiting, Sizing, vars
<1>3. \A k : Expected(k)' = Expected(k)
  BY DEF Expected, Coefficients, vars
<1>4. Content'
  BY <1>3 DEF IInv, Content, vars
<1>. QED
  BY <1>1, <1>2, <1>4 DEF IInv

LEMMA NextInv == IInv /\ [Next]_vars => IInv'
BY StutterInv, SetKernelInv, UpdateInv DEF Next

LEMMA Invariance == Spec => []IInv
BY InitInv, NextInv, PTL DEF Spec

\* The buffers hold samples, and filtered samples of the present kernel.
THEOREM FastTyping == Spec => []TypeOK
<1>1. IInv => TypeOK
  BY DEF IInv
<1>. QED
  BY <1>1, Invariance, PTL

\* For every sequence of chunk sizes, empty ones included, and kernels, Update has enough to
\* give back as long as the memory is intact: the branch that "should not happen" does not.
\* With no empty chunk exactly one block waits, and the memory stays intact.
THEOREM NeverStarving == Spec => []NeverStarves
<1>1. IInv => NeverStarves
  BY DEF IInv, Waiting, NeverStarves
<1>. QED
  BY <1>1, Invariance, PTL

\* Where overlapping blocks are moved and no chunk is empty, the output is the filtered stream
\* delayed by nfft.
THEOREM Continuity == Spec => []StreamIsContinuous
<1>1. IInv => StreamIsContinuous
  BY DEF IInv, Content, StreamIsContinuous
<1>. QED
  BY <1>1, Invariance, PTL

\* The chunk fits the buffer Update puts it in, and, with no empty chunk, the rest of the
\* output fits the remainder.
THEOREM Holding == Spec => BuffersHold
<1>1. ASSUME IInv, [Next]_vars
      PROVE  [\A size \in Sizes : Update(size) =>
                /\ Len(inbuf) + size <= allocated'
                /\ emptied' = "no" => Len(remainder') <= 2 * nfft]_vars
  <2>. SUFFICES ASSUME NEW size \in Sizes, Update(size)
                PROVE  /\ Len(inbuf) + size <= allocated'
                       /\ emptied' = "no" => Len(remainder') <= 2 * nfft
    OBVIOUS
  <2>1. IInv' /\ Len(inbuf) + size <= allocated' /\ nfft' = nfft
    BY <1>1, UpdateInv
  <2>2. /\ emptied' = "no" => Len(inbuf') + Len(remainder') = nfft'
        /\ inbuf' \in Seq(Samples) /\ remainder' \in Seq([Coefficients' -> Samples])
        /\ nfft' \in Nat
    BY <2>1 DEF IInv, Waiting, TypeOK
  <2>3. Len(inbuf') \in Nat /\ Len(remainder') \in Nat
    BY <2>2, LenProperties
  <2>. DEFINE i == Len(inbuf')
              r == Len(remainder')
  <2>4. ASSUME emptied' = "no" PROVE r <= 2 * nfft
    <3>1. i \in Nat /\ r \in Nat /\ i + r = nfft /\ nfft \in Nat
      BY <2>1, <2>2, <2>3, <2>4
    <3>. HIDE DEF i, r
    <3>. QED
      BY <3>1
  <2>. QED
    BY <2>1, <2>4
<1>. QED
  BY <1>1, Invariance, PTL DEF Spec, BuffersHold

----------------------------------------------------------------------------
(* The slow filter.  Update is a recursive function of the number of       *)
(* samples taken from the chunk, so what it leaves in the ring needs an    *)
(* induction on that number: in the form of a least counterexample, as a   *)
(* set of naturals that is not empty has a least element.                  *)

LEMMA LeastElement ==
  ASSUME NEW T, T \subseteq Nat, T # {}
  PROVE  \E n \in T : \A m \in T : n <= m
<1>1. PICK n \in T : \A m \in T : ~(<<m, n>> \in OpToRel(<, Nat))
  BY NatLessThanWellFounded, WFMin
<1>2. ASSUME NEW m \in T PROVE n <= m
  <2>1. <<m, n>> \notin OpToRel(<, Nat)
    BY <1>1
  <2>2. ~(m < n)
    BY <2>1 DEF OpToRel
  <2>. QED
    BY <2>2
<1>. QED
  BY <1>2

\* The equation that defines the ring
IsRing(ring, n) ==
  ring = [j \in 0..n |-> IF j = 0 THEN [buf |-> Buf, ptr |-> BufPtr % cofs]
                         ELSE Slow!Pushed(ring[j - 1], slowFed + j)]

\* The equation has a solution, so that it is one that CHOOSE gives.
LEMMA RingExists ==
  ASSUME NEW size \in Nat
  PROVE  \E ring : IsRing(ring, size)
<1>. DEFINE T == {n \in Nat : ~\E ring : IsRing(ring, n)}
<1>. SUFFICES ASSUME T # {} PROVE FALSE
  OBVIOUS
<1>1. PICK n \in T : \A m \in T : n <= m
  BY LeastElement
<1>2. n # 0
  <2>. DEFINE r == [j \in 0..0 |-> [buf |-> Buf, ptr |-> BufPtr % cofs]]
  <2>1. IsRing(r, 0)
    BY DEF IsRing
  <2>. QED
    BY <2>1
<1>3. n - 1 \in Nat /\ n - 1 \notin T
  BY <1>1, <1>2
<1>4. PICK f : IsRing(f, n - 1)
  BY <1>3
<1>. DEFINE g == [j \in 0..n |-> IF j < n THEN f[j] ELSE Slow!Pushed(f[n - 1], slowFed + n)]
<1>5. ASSUME NEW j \in 0..n
      PROVE  g[j] = IF j = 0 THEN [buf |-> Buf, ptr |-> BufPtr % cofs]
                    ELSE Slow!Pushed(g[j - 1], slowFed + j)
  BY <1>2, <1>3, <1>4 DEF IsRing
<1>6. IsRing(g, n)
  <2>1. g = [j \in 0..n |-> g[j]]
    OBVIOUS
  <2>. HIDE DEF g
  <2>. QED
    BY <1>5, <2>1 DEF IsRing
<1>. QED
  BY <1>6

LEMMA RingEquation ==
  ASSUME NEW size \in Nat
  PROVE  IsRing(Slow!Ring(size), size)
<1>1. \E ring : IsRing(ring, size)
  BY RingExists
<1>. QED
  BY <1>1, Zenon DEF IsRing, Slow!Ring, Slow!Pushed

----------------------------------------------------------------------------
(* What the ring holds                                                     *)

\* The sample at a position of the stream; before it there are zeros.
At(k) == IF k > 0 THEN k ELSE 0

\* How many places cell b is after ptr, around the ring
Ahead(b, ptr) == IF b >= ptr THEN b - ptr ELSE b - ptr + cofs

\* A ring whose pointer is at the oldest of the last cofs samples up to position last
Holds(r, last) ==
  /\ r.ptr \in 0..(cofs - 1)
  /\ DOMAIN r.buf = 0..(cofs - 1)
  /\ \A b \in 0..(cofs - 1) : r.buf[b] = At(last - cofs + 1 + Ahead(b, r.ptr))

\* The remainder of an index that is beyond the ring by less than its length
LEMMA Around ==
  ASSUME NEW n \in Nat \ {0}, NEW a \in 0..(2 * n - 1)
  PROVE  a % n = IF a < n THEN a ELSE a - n
<1>1. n \in Nat /\ n > 0 /\ a \in Nat /\ a < 2 * n
  OBVIOUS
<1>2. CASE a < n
  BY <1>1, <1>2
<1>3. CASE ~(a < n)
  <2>1. a = 1 * n + (a - n) /\ a - n \in 0..(n - 1)
    BY <1>1, <1>3
  <2>. QED
    BY <1>1, <1>3, <2>1
<1>. QED
  BY <1>2, <1>3

LEMMA AroundRing ==
  ASSUME cofs \in Nat \ {0}
  PROVE  \A a \in 0..(2 * cofs - 1) : a % cofs = IF a < cofs THEN a ELSE a - cofs
BY Around, Zenon

LEMMA PushHolds ==
  ASSUME cofs \in Nat \ {0}, NEW r, NEW last \in Nat, Holds(r, last)
  PROVE  Holds(Slow!Pushed(r, last + 1), last + 1)
<1>. DEFINE p == Slow!Pushed(r, last + 1)
            next == IF r.ptr + 1 < cofs THEN r.ptr + 1 ELSE 0
<1>1. r.ptr \in 0..(cofs - 1) /\ cofs \in Nat /\ cofs > 0 /\ DOMAIN r.buf = 0..(cofs - 1)
  BY DEF Holds
<1>2. p.ptr = next /\ p.buf = [r.buf EXCEPT ![r.ptr] = last + 1]
  <2>1. r.ptr + 1 \in 0..(2 * cofs - 1)
    BY <1>1
  <2>2. (r.ptr + 1) % cofs = IF r.ptr + 1 < cofs THEN r.ptr + 1 ELSE (r.ptr + 1) - cofs
    <3>1. \A a \in 0..(2 * cofs - 1) : a % cofs = IF a < cofs THEN a ELSE a - cofs
      BY AroundRing
    <3>. QED
      BY <2>1, <3>1, Zenon
  <2>. QED
    BY <1>1, <2>2 DEF Slow!Pushed
<1>3. next \in 0..(cofs - 1)
  BY <1>1
<1>4. DOMAIN p.buf = 0..(cofs - 1)
  BY <1>1, <1>2
<1>5. ASSUME NEW b \in 0..(cofs - 1)
      PROVE  p.buf[b] = At(last + 1 - cofs + 1 + Ahead(b, next))
  <2>1. CASE b = r.ptr
    <3>1. p.buf[b] = last + 1
      BY <1>1, <1>2, <2>1
    <3>2. Ahead(b, next) = cofs - 1
      BY <1>1, <2>1 DEF Ahead
    <3>. QED
      BY <1>1, <3>1, <3>2 DEF At
  <2>2. CASE b # r.ptr
    <3>1. p.buf[b] = At(last - cofs + 1 + Ahead(b, r.ptr))
      BY <1>1, <1>2, <2>2 DEF Holds
    <3>2. Ahead(b, r.ptr) = Ahead(b, next) + 1 /\ Ahead(b, next) \in Int
      BY <1>1, <2>2 DEF Ahead
    <3>3. last - cofs + 1 + Ahead(b, r.ptr) = last + 1 - cofs + 1 + Ahead(b, next)
      BY <1>1, <3>2
    <3>. QED
      BY <3>1, <3>3
  <2>. QED
    BY <2>1, <2>2
<1>. HIDE DEF p, next
<1>. QED
  BY <1>2, <1>3, <1>4, <1>5 DEF Holds, p

\* After every sample of a chunk the ring holds the last samples.
LEMMA RingHolds ==
  ASSUME cofs \in Nat \ {0}, slowFed \in Nat, Holds([buf |-> Buf, ptr |-> BufPtr], slowFed),
         NEW size \in Nat
  PROVE  \A j \in 0..size : Holds(Slow!Ring(size)[j], slowFed + j)
<1>. DEFINE ring == Slow!Ring(size)
            T == {j \in 0..size : ~Holds(ring[j], slowFed + j)}
<1>1. IsRing(ring, size)
  BY RingEquation
<1>. HIDE DEF ring
<1>2. /\ ring[0] = [buf |-> Buf, ptr |-> BufPtr % cofs]
      /\ \A j \in 0..size : j # 0 => ring[j] = Slow!Pushed(ring[j - 1], slowFed + j)
  BY <1>1 DEF IsRing
<1>3. Holds(ring[0], slowFed + 0)
  <2>1. BufPtr \in 0..(cofs - 1) /\ BufPtr \in 0..(2 * cofs - 1)
    BY DEF Holds
  <2>2. BufPtr % cofs = BufPtr
    BY <2>1, AroundRing
  <2>3. ring[0] = [buf |-> Buf, ptr |-> BufPtr] /\ slowFed + 0 = slowFed
    BY <1>2, <2>2
  <2>. QED
    BY <2>3
<1>4. SUFFICES ASSUME T # {} PROVE FALSE
  BY DEF ring
<1>5. PICK j \in T : \A m \in T : j <= m
  <2>1. T \subseteq Nat
    OBVIOUS
  <2>. HIDE DEF T
  <2>. QED
    BY <1>4, <2>1, LeastElement
<1>6. j \in 1..size /\ j - 1 \in 0..size /\ j - 1 \notin T
  BY <1>3, <1>5
<1>7. Holds(ring[j - 1], slowFed + (j - 1))
  BY <1>6
<1>8. slowFed + (j - 1) \in Nat /\ slowFed + (j - 1) + 1 = slowFed + j
  BY <1>6
<1>9. Holds(Slow!Pushed(ring[j - 1], slowFed + j), slowFed + j)
  BY <1>7, <1>8, PushHolds
<1>. QED
  BY <1>2, <1>5, <1>6, <1>9

\* The sum formed when the ring holds the samples up to last
LEMMA SumIsWindow ==
  ASSUME cofs \in Nat \ {0}, NEW ring, NEW j, NEW last \in Nat, Holds(ring[j], last)
  PROVE  Slow!Sum(ring, j) = [c \in 0..(cofs - 1) |-> At(last - cofs + 1 + c)]
<1>1. ASSUME NEW c \in 0..(cofs - 1)
      PROVE  ring[j].buf[(ring[j].ptr + c) % cofs] = At(last - cofs + 1 + c)
  <2>. DEFINE ptr == ring[j].ptr
              b == IF ptr + c < cofs THEN ptr + c ELSE (ptr + c) - cofs
  <2>1. ptr \in 0..(cofs - 1) /\ cofs \in Nat /\ cofs > 0
    BY DEF Holds
  <2>2. (ptr + c) % cofs = b
    <3>1. ptr + c \in 0..(2 * cofs - 1)
      BY <2>1
    <3>2. \A a \in 0..(2 * cofs - 1) : a % cofs = IF a < cofs THEN a ELSE a - cofs
      BY AroundRing
    <3>. QED
      BY <3>1, <3>2, Zenon
  <2>3. b \in 0..(cofs - 1) /\ Ahead(b, ptr) = c
    BY <2>1 DEF Ahead
  <2>4. ring[j].buf[b] = At(last - cofs + 1 + Ahead(b, ptr))
    BY <2>3 DEF Holds
  <2>. QED
    BY <2>2, <2>3, <2>4
<1>. QED
  BY <1>1 DEF Slow!Sum

----------------------------------------------------------------------------
(* Both filters                                                            *)

\* What the slow filter returned, and what it keeps for the next chunk
Windows ==
  /\ Len(slowLog) = slowFed
  /\ \A j \in 1..slowFed : slowLog[j] = [c \in 0..(cofs - 1) |-> At(j - cofs + 1 + c)]

PairInv ==
  /\ IInv
  /\ cofs = nimp /\ slowFed = fed
  /\ slowLog \in Seq([0..(cofs - 1) -> Nat])
  /\ Holds([buf |-> Buf, ptr |-> BufPtr], slowFed)
  /\ Windows

\* A kernel that was just set: zeros all around the ring
LEMMA FreshPair ==
  ASSUME cofs' \in Nat \ {0}, Buf' = [b \in 0..(cofs' - 1) |-> 0], BufPtr' = 0,
         slowFed' = 0, slowLog' = <<>>
  PROVE  /\ slowLog' \in Seq([0..(cofs' - 1) -> Nat])
         /\ Holds([buf |-> Buf, ptr |-> BufPtr], slowFed)'
         /\ Windows'
<1>1. slowLog' \in Seq([0..(cofs' - 1) -> Nat]) /\ Len(slowLog') = 0
  BY EmptySeq
<1>2. Windows'
  BY <1>1 DEF Windows
<1>3. ASSUME NEW b \in 0..(cofs' - 1) PROVE Buf'[b] = At(0 - cofs' + 1 + Ahead(b, 0)')
  <2>1. 0 - cofs' + 1 + Ahead(b, 0)' <= 0
    BY DEF Ahead
  <2>. QED
    BY <2>1 DEF At
<1>4. Holds([buf |-> Buf, ptr |-> BufPtr], slowFed)'
  BY <1>3 DEF Holds, At
<1>. QED
  BY <1>1, <1>2, <1>4

LEMMA PairBeginning == PairInit => PairInv
<1>. SUFFICES ASSUME PairInit PROVE PairInv
  OBVIOUS
<1>1. IInv /\ nimp = 1 /\ fed = 0
  BY InitInv DEF PairInit, Init
<1>2. /\ cofs = 1 /\ Buf = [b \in {0} |-> 0] /\ BufPtr = 0 /\ slowFed = 0 /\ slowLog = <<>>
  BY DEF PairInit, Slow!Init
<1>3. slowLog \in Seq([0..(cofs - 1) -> Nat]) /\ Len(slowLog) = 0
  BY <1>2, EmptySeq
<1>4. Windows
  BY <1>2, <1>3 DEF Windows
<1>5. Holds([buf |-> Buf, ptr |-> BufPtr], slowFed)
  <2>1. 0..(cofs - 1) = {0} /\ 0 \in 0..(cofs - 1)
    BY <1>2
  <2>2. ASSUME NEW b \in 0..(cofs - 1) PROVE Buf[b] = At(slowFed - cofs + 1 + Ahead(b, BufPtr))
    BY <1>2, <2>1 DEF At, Ahead
  <2>3. DOMAIN Buf = 0..(cofs - 1) /\ BufPtr \in 0..(cofs - 1)
    BY <1>2, <2>1
  <2>. QED
    BY <2>2, <2>3 DEF Holds
<1>. QED
  BY <1>1, <1>2, <1>3, <1>4, <1>5 DEF PairInv

LEMMA PairSetKernel ==
  ASSUME NEW l \in KernelSizes, PairInv, SetKernel(l), Slow!SetKernel(l)
  PROVE  PairInv'
<1>1. IInv' /\ nimp' = l /\ fed' = 0 /\ l \in Nat \ {0}
  BY SetKernelInv, FftSizeIsEnough DEF PairInv, SetKernel
<1>2. /\ cofs' = l /\ Buf' = [b \in 0..(l - 1) |-> 0] /\ BufPtr' = 0
      /\ slowFed' = 0 /\ slowLog' = <<>>
  BY DEF Slow!SetKernel
<1>3. /\ slowLog' \in Seq([0..(cofs' - 1) -> Nat])
      /\ Holds([buf |-> Buf, ptr |-> BufPtr], slowFed)'
      /\ Windows'
  BY <1>1, <1>2, FreshPair
<1>. QED
  BY <1>1, <1>2, <1>3 DEF PairInv

LEMMA PairUpdate ==
  ASSUME NEW size \in Sizes, PairInv, Update(size), Slow!Update(size)
  PROVE  PairInv'
<1>. DEFINE ring == Slow!Ring(size)
            row(k) == [c \in 0..(cofs - 1) |-> At(k - cofs + 1 + c)]
            F == [0..(cofs - 1) -> Nat]
            new == [j \in 1..size |-> Slow!Sum(ring, j)]
<1>1. /\ IInv' /\ nimp' = nimp /\ fed' = fed + size
      /\ size \in Nat /\ fed \in Nat /\ nimp \in Nat \ {0}
  <2>1. IInv /\ size \in Nat
    BY SizesAssumption DEF PairInv
  <2>2. IInv'
    BY <2>1, UpdateInv
  <2>3. nimp' = nimp /\ fed' = fed + size
    BY <2>1, UpdateInv
  <2>4. fed \in Nat /\ nimp \in Nat \ {0}
    BY <2>1, MaxSamplesAssumption DEF IInv, TypeOK
  <2>. QED
    BY <2>1, <2>2, <2>3, <2>4
<1>2. /\ cofs \in Nat \ {0} /\ slowFed \in Nat /\ cofs' = cofs /\ slowFed' = slowFed + size
      /\ Buf' = ring[size].buf /\ BufPtr' = ring[size].ptr /\ slowLog' = slowLog \o new
  BY <1>1 DEF PairInv, Slow!Update
<1>3. \A j \in 0..size : Holds(ring[j], slowFed + j)
  BY <1>1, <1>2, RingHolds DEF PairInv
<1>. HIDE DEF ring
<1>4. Holds([buf |-> Buf, ptr |-> BufPtr], slowFed)'
  <2>1. Holds(ring[size], slowFed + size)
    BY <1>1, <1>3
  <2>. QED
    BY <1>2, <2>1 DEF Holds, Ahead
<1>5. ASSUME NEW j \in 1..size PROVE Slow!Sum(ring, j) = row(slowFed + j)
  <2>1. Holds(ring[j], slowFed + j) /\ slowFed + j \in Nat
    BY <1>1, <1>2, <1>3
  <2>2. Slow!Sum(ring, j) = [c \in 0..(cofs - 1) |-> At((slowFed + j) - cofs + 1 + c)]
    <3>. DEFINE last == slowFed + j
    <3>1. cofs \in Nat \ {0} /\ last \in Nat /\ Holds(ring[j], last)
      BY <1>2, <2>1
    <3>. HIDE DEF last, row, F, new
    <3>2. Slow!Sum(ring, j) = [c \in 0..(cofs - 1) |-> At(last - cofs + 1 + c)]
      BY <3>1, SumIsWindow
    <3>. QED
      BY <3>2 DEF last
  <2>. QED
    BY <2>2
<1>6. ASSUME NEW k \in Nat PROVE row(k) \in F
  <2>1. ASSUME NEW c \in 0..(cofs - 1) PROVE At(k - cofs + 1 + c) \in Nat
    BY <1>2 DEF At
  <2>. QED
    BY <2>1
<1>7. new \in Seq(F) /\ Len(new) = size /\ \A j \in 1..size : new[j] = row(slowFed + j)
  <2>1. \A j \in 1..size : Slow!Sum(ring, j) = row(slowFed + j) /\ row(slowFed + j) \in F
    <3>1. \A j \in 1..size : slowFed + j \in Nat
      BY <1>1, <1>2
    <3>. HIDE DEF row, F
    <3>. QED
      BY <1>5, <1>6, <3>1
  <2>. HIDE DEF row, F
  <2>2. new \in [1..size -> F] /\ \A j \in 1..size : new[j] = row(slowFed + j)
    BY <2>1
  <2>. HIDE DEF new
  <2>. QED
    BY <1>1, <2>2, FunctionIsSeq
<1>8. slowLog \in Seq(F) /\ Len(slowLog) = slowFed /\ \A j \in 1..slowFed : slowLog[j] = row(j)
  BY DEF PairInv, Windows
<1>. HIDE DEF new, row, F
<1>9. Joined(F, slowLog, new)
  BY <1>7, <1>8, JoinedSeq, Zenon
<1>10. slowLog' \in Seq(F) /\ Len(slowLog') = slowFed'
  BY <1>2, <1>7, <1>8, <1>9 DEF Joined
<1>11. ASSUME NEW j \in 1..slowFed' PROVE slowLog'[j] = row(j)
  <2>1. j \in 1..(slowFed + size) /\ slowLog'[j] = IF j <= slowFed THEN slowLog[j] ELSE new[j - slowFed]
    BY <1>2, <1>7, <1>8, <1>9 DEF Joined
  <2>2. CASE j <= slowFed
    BY <1>2, <1>8, <2>1, <2>2
  <2>3. CASE ~(j <= slowFed)
    <3>1. j - slowFed \in 1..size /\ slowFed + (j - slowFed) = j
      BY <1>1, <1>2, <2>1, <2>3
    <3>. QED
      BY <1>7, <2>1, <2>3, <3>1
  <2>. QED
    BY <2>2, <2>3
<1>12. Windows' /\ slowLog' \in Seq([0..(cofs' - 1) -> Nat])
  BY <1>2, <1>10, <1>11 DEF Windows, row, F
<1>13. cofs' = nimp' /\ slowFed' = fed'
  BY <1>1, <1>2 DEF PairInv
<1>. QED
  BY <1>1, <1>4, <1>12, <1>13 DEF PairInv

LEMMA PairStutter ==
  ASSUME PairInv, UNCHANGED pairVars
  PROVE  PairInv'
<1>1. IInv' /\ UNCHANGED <<nimp, fed, cofs, Buf, BufPtr, slowFed, slowLog>>
  BY StutterInv DEF PairInv, pairVars, vars
<1>2. Holds([buf |-> Buf, ptr |-> BufPtr], slowFed)'
  BY <1>1 DEF PairInv, Holds, Ahead
<1>3. Windows'
  BY <1>1 DEF PairInv, Windows
<1>. QED
  BY <1>1, <1>2, <1>3 DEF PairInv

LEMMA PairInvariance == PairSpec => []PairInv
<1>1. PairInv /\ [PairNext]_pairVars => PairInv'
  BY PairSetKernel, PairUpdate, PairStutter DEF PairNext
<1>. QED
  BY <1>1, PairBeginning, PTL DEF PairSpec

\* Beside the slow filter, the fast one runs as it does alone.
THEOREM PairContinuity == PairSpec => []StreamIsContinuous
<1>1. PairInv => StreamIsContinuous
  BY DEF PairInv, IInv, Content, StreamIsContinuous
<1>. QED
  BY <1>1, PairInvariance, PTL

\* For every kernel and every way of cutting the stream into chunks that are not empty, the
\* fast filter returns the sums of the slow one, ngood samples later and with the kernel the
\* other way round.
THEOREM Mirroring == PairSpec => []FastMirrorsSlow
<1>1. ASSUME PairInv PROVE FastMirrorsSlow
  <2>. SUFFICES ASSUME Overlap = "moves", emptied = "no", NEW i \in 1..Len(data),
                       fed - Len(data) + i > nfft, NEW c \in Coefficients
                PROVE  data[i][c] = slowLog[(fed - Len(data) + i) - ngood][nimp - 1 - c]
    BY Zenon DEF FastMirrorsSlow
  <2>. DEFINE n == Len(data)
              k == fed - n + i
              d == nimp - 1 - c
  <2>1. /\ nimp \in Nat \ {0} /\ nfft \in Nat /\ nfft > nimp /\ fed \in Nat /\ n \in Nat
        /\ n <= fed
    BY <1>1, LenProperties, MaxSamplesAssumption DEF PairInv, IInv, TypeOK, Sizing
  <2>2. c \in 0..(nimp - 1) /\ d \in 0..(nimp - 1) /\ ngood = nfft - nimp + 1
    BY <2>1 DEF Coefficients, ngood
  <2>3. data[i] = Expected(k)
    BY <1>1 DEF PairInv, IInv, Content
  <2>. HIDE DEF n
  <2>4. k \in Nat /\ k > nfft /\ k <= fed /\ k - ngood \in 1..fed
    BY <2>1, <2>2 DEF n
  <2>5. data[i][c] = k - nfft + nimp - 1 - c
    <3>1. ~(k <= nfft)
      BY <2>1, <2>4
    <3>. HIDE DEF k
    <3>. QED
      BY <2>3, <3>1 DEF Expected
  <2>6. slowLog[k - ngood] = [e \in 0..(nimp - 1) |-> At(k - ngood - nimp + 1 + e)]
    BY <1>1, <2>4 DEF PairInv, Windows
  <2>7. slowLog[k - ngood][d] = At(k - ngood - nimp + 1 + d)
    BY <2>2, <2>6
  <2>8. k - ngood - nimp + 1 + d = k - nfft + nimp - 1 - c /\ k - nfft + nimp - 1 - c > 0
    <3>. HIDE DEF k
    <3>. QED
      BY <2>1, <2>2, <2>4
  <2>9. data[i][c] = slowLog[k - ngood][d]
    <3>. HIDE DEF k, d
    <3>. QED
      BY <2>5, <2>7, <2>8 DEF At
  <2>. QED
    BY <2>9 DEF n
<1>. QED
  BY <1>1, PairInvariance, PTL
=============================================================================
