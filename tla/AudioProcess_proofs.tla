------------------------ MODULE AudioProcess_proofs -------------------------
(***************************************************************************)
(* Proofs about one audio process, for every chunk size, number of         *)
(* replaced frames and length of the queue: chunks are played once each    *)
(* and in order, the borders between them are joined (SmoothBorders), and  *)
(* every step is one of the process that ModeServer describes.             *)
(* SmoothBorders speaks of chunks already played; it is inductive together *)
(* with what waits (Waiting) and what the playback thread carries between  *)
(* its steps (Carried): the samples kept are those the last chunk ended    *)
(* with, and the chunk in hand is filtered from them.                      *)
(***************************************************************************)
EXTENDS AudioProcess, SequenceTheorems, TLAPS

Chunks == [SampleIdx -> Sample]

InHand == IF ppc = "get" THEN 0 ELSE 1

\* The sample that channel c was left with
Ended(c) == IF Len(heard) = 0 THEN Silence ELSE heard[Len(heard)][2 * (Chunk - 1) + c]

Passed(k) == [s \in SampleIdx |-> Plain(s % 2, k, s \div 2)]

\* Chunks recorded are played, in hand or in the queue, in this order.
Waiting ==
  /\ Len(heard) + InHand + Len(queue) = captured
  /\ ppc # "get" => hand = Len(heard) + 1
  /\ \A i \in 1..Len(queue) : queue[i] = Len(heard) + InHand + i

\* What the playback thread carries from one step to the next
Carried ==
  /\ mode = "f" /\ ppc # "write" => old = [c \in Channels |-> Ended(c)]
  /\ mode = "f" /\ ppc = "write" =>
       data = FilterAudio(hand, [c \in Channels |-> Ended(c)]) /\ old = LastSamples(data)
  /\ mode = "p" /\ ppc = "write" => data = Passed(hand)
  /\ mode = "none" => ppc # "write" /\ heard = <<>>

\* The interpreter is gone only when both threads have died.
ThreadsOutlived == proc = "gone" => \A t \in Threads : thread[t] = "dead"

IInv == TypeOK /\ Waiting /\ Carried /\ SmoothBorders /\ ThreadsOutlived

----------------------------------------------------------------------------
(* Samples                                                                 *)

\* Interleaving: frame i of channel c is at 2 * i + c.
LEMMA Interleaved ==
  ASSUME NEW i \in 0..(Chunk - 1), NEW c \in Channels
  PROVE  2 * i + c \in SampleIdx /\ (2 * i + c) % 2 = c /\ (2 * i + c) \div 2 = i
<1>1. i \in Nat /\ Chunk \in Nat /\ i <= Chunk - 1 /\ c \in {0, 1}
  BY ChunkAssumption DEF Channels
<1>2. (2 * i + c) % 2 = c /\ (2 * i + c) \div 2 = i
  BY <1>1
<1>. QED
  BY <1>1, <1>2 DEF SampleIdx

LEMMA Deinterleaved ==
  ASSUME NEW s \in SampleIdx
  PROVE  s % 2 \in Channels /\ s \div 2 \in 0..(Chunk - 1)
<1>1. s \in Nat /\ s <= 2 * Chunk - 1 /\ Chunk \in Nat
  BY ChunkAssumption DEF SampleIdx
<1>2. s % 2 \in 0..1 /\ s \div 2 \in Int
  BY <1>1
<1>3. s = 2 * (s \div 2) + (s % 2)
  BY <1>1
<1>. QED
  BY <1>1, <1>2, <1>3 DEF Channels

LEMMA PlainTyped ==
  ASSUME NEW c \in Channels, NEW k \in 0..MaxChunks, NEW i \in 0..(Chunk - 1)
  PROVE  Plain(c, k, i) \in Value
BY DEF Plain, Value

LEMMA SilenceTyped == Silence \in Value
BY ChunkAssumption, BoundsAssumption DEF Silence, Value, Channels

LEMMA LineTyped ==
  ASSUME NEW a \in Value, NEW b \in Value, NEW i \in 0..(Wrong - 1)
  PROVE  OnLine(a, b, i) \in Sample
<1>1. i \in Nat /\ Wrong \in Nat /\ i <= Wrong
  BY ChunkAssumption
<1>2. CASE i = 0
  BY <1>2 DEF OnLine, Sample
<1>3. CASE i # 0
  <2>1. i \in 1..Wrong
    BY <1>1, <1>3
  <2>. QED
    BY <1>3, <2>1 DEF OnLine, Sample
<1>. QED
  BY <1>2, <1>3

\* A filtered chunk: its samples are of the declared kinds, and it ends with its own.
LEMMA FilterTyped ==
  ASSUME NEW k \in 0..MaxChunks, NEW a \in [Channels -> Value]
  PROVE  /\ FilterAudio(k, a) \in Chunks
         /\ LastSamples(FilterAudio(k, a)) \in [Channels -> Value]
<1>. DEFINE f == FilterAudio(k, a)
<1>0. Chunk \in Nat /\ Wrong \in Nat /\ Wrong + 1 < Chunk
  BY ChunkAssumption
<1>1. ASSUME NEW s \in SampleIdx
      PROVE  (IF s \div 2 < Wrong
              THEN OnLine(a[s % 2], Plain(s % 2, k, Wrong + 1), s \div 2)
              ELSE Plain(s % 2, k, s \div 2)) \in Sample
  <2>1. s % 2 \in Channels /\ s \div 2 \in 0..(Chunk - 1)
    BY Deinterleaved
  <2>2. CASE s \div 2 < Wrong
    <3>1. s \div 2 \in 0..(Wrong - 1) /\ Wrong + 1 \in 0..(Chunk - 1)
      BY <1>0, <2>1, <2>2
    <3>2. a[s % 2] \in Value /\ Plain(s % 2, k, Wrong + 1) \in Value
      BY <2>1, <3>1, PlainTyped
    <3>. QED
      BY <2>2, <3>1, <3>2, LineTyped
  <2>3. CASE ~(s \div 2 < Wrong)
    BY <2>1, <2>3, PlainTyped DEF Sample
  <2>. QED
    BY <2>2, <2>3
<1>2. f \in Chunks
  BY <1>1, Zenon DEF FilterAudio, Chunks
<1>3. ASSUME NEW c \in Channels PROVE f[2 * Chunk - 2 + c] = Plain(c, k, Chunk - 1)
  <2>1. Chunk - 1 \in 0..(Chunk - 1) /\ c \in Nat
    BY <1>0 DEF Channels
  <2>2. 2 * (Chunk - 1) + c = 2 * Chunk - 2 + c
    BY <1>0, <2>1
  <2>. DEFINE s == 2 * Chunk - 2 + c
  <2>3. s \in SampleIdx /\ s % 2 = c /\ s \div 2 = Chunk - 1
    BY <2>1, <2>2, Interleaved
  <2>. HIDE DEF s
  <2>4. ~(Chunk - 1 < Wrong)
    BY <1>0
  <2>5. f[s] = Plain(c, k, Chunk - 1)
    BY <2>3, <2>4 DEF FilterAudio
  <2>. QED
    BY <2>5 DEF s
<1>4. ASSUME NEW c \in Channels PROVE Plain(c, k, Chunk - 1) \in Value
  <2>1. Chunk - 1 \in 0..(Chunk - 1)
    BY <1>0
  <2>. QED
    BY <2>1, PlainTyped
<1>5. LastSamples(f) \in [Channels -> Value]
  <2>. HIDE DEF f
  <2>1. LastSamples(f) = [c \in Channels |-> f[2 * Chunk - 2 + c]]
    BY DEF LastSamples
  <2>. QED
    BY <1>3, <1>4, <2>1
<1>. QED
  BY <1>2, <1>5

LEMMA PassedTyped ==
  ASSUME NEW k \in 0..MaxChunks
  PROVE  Passed(k) \in Chunks
<1>1. ASSUME NEW s \in SampleIdx PROVE Plain(s % 2, k, s \div 2) \in Sample
  BY Deinterleaved, PlainTyped DEF Sample
<1>. QED
  BY <1>1 DEF Passed, Chunks

----------------------------------------------------------------------------
LEMMA Beginning == Init => IInv
<1>. SUFFICES ASSUME Init PROVE IInv
  OBVIOUS
<1>. USE DEF Init
<1>1. TypeOK
  <2>1. data \in Chunks /\ old \in [Channels -> Value]
    BY SilenceTyped DEF Chunks, Sample
  <2>2. heard \in Seq(Chunks) /\ queue \in Seq(1..MaxChunks) /\ Len(queue) = 0
    BY EmptySeq
  <2>3. captured \in 0..MaxChunks /\ hand \in 0..MaxChunks /\ Len(queue) <= MaxQueue
    BY <2>2, BoundsAssumption
  <2>. QED
    BY <2>1, <2>2, <2>3 DEF TypeOK, Chunks
<1>2. Len(heard) = 0 /\ Len(queue) = 0
  BY EmptySeq
<1>3. Waiting
  BY <1>2 DEF Waiting, InHand
<1>4. Carried
  BY <1>2 DEF Carried, Ended
<1>5. SmoothBorders
  BY <1>2 DEF SmoothBorders
<1>6. ThreadsOutlived
  BY DEF ThreadsOutlived
<1>. QED
  BY <1>1, <1>3, <1>4, <1>5, <1>6 DEF IInv

\* A step that leaves the playback thread and the order of the chunks alone
LEMMA PlaybackRests ==
  ASSUME IInv, UNCHANGED <<mode, playVars>>
  PROVE  Carried' /\ SmoothBorders'
<1>1. \A c : Ended(c)' = Ended(c)
  BY DEF Ended, playVars
<1>2. Carried'
  BY <1>1 DEF IInv, Carried, playVars
<1>3. SmoothBorders'
  BY DEF IInv, SmoothBorders, playVars
<1>. QED
  BY <1>2, <1>3

LEMMA RecordKeeps ==
  ASSUME IInv, RecordChunk
  PROVE  IInv'
<1>. USE DEF RecordChunk
<1>1. /\ captured \in 0..MaxChunks /\ captured + 1 \in 1..MaxChunks /\ queue \in Seq(1..MaxChunks)
      /\ Len(queue) < MaxQueue /\ Len(queue) \in Nat
  BY BoundsAssumption, LenProperties DEF IInv, TypeOK
<1>2. /\ queue' \in Seq(1..MaxChunks) /\ Len(queue') = Len(queue) + 1
      /\ \A i \in 1..Len(queue) : queue'[i] = queue[i]
      /\ queue'[Len(queue) + 1] = captured + 1
  BY <1>1, AppendProperties
<1>3. TypeOK'
  BY <1>1, <1>2, BoundsAssumption DEF IInv, TypeOK, playVars
<1>4. Waiting'
  <2>1. Len(heard) \in Nat
    BY LenProperties DEF IInv, TypeOK
  <2>2. InHand' = InHand /\ InHand \in Nat
    BY DEF InHand, playVars
  <2>3. heard' = heard /\ ppc' = ppc /\ hand' = hand /\ captured' = captured + 1
    BY DEF playVars
  <2>4. ASSUME NEW i \in 1..Len(queue') PROVE queue'[i] = Len(heard) + InHand + i
    <3>1. CASE i = Len(queue) + 1
      <4>1. queue'[i] = captured + 1
        BY <1>2, <3>1
      <4>2. Len(heard) + InHand + Len(queue) = captured
        BY DEF IInv, Waiting
      <4>. QED
        BY <1>1, <2>1, <2>2, <3>1, <4>1, <4>2
    <3>2. CASE i # Len(queue) + 1
      BY <1>1, <1>2, <3>2 DEF IInv, Waiting
    <3>. QED
      BY <3>1, <3>2
  <2>5. Len(heard) + InHand + Len(queue') = captured'
    BY <1>1, <1>2, <2>1, <2>2, <2>3 DEF IInv, Waiting
  <2>. QED
    BY <2>2, <2>3, <2>4, <2>5 DEF IInv, Waiting
<1>. QED
  BY <1>3, <1>4, PlaybackRests DEF IInv, ThreadsOutlived

LEMMA GetKeeps ==
  ASSUME IInv, PlayGet
  PROVE  IInv'
<1>. USE DEF PlayGet
<1>1. /\ queue \in Seq(1..MaxChunks) /\ queue # <<>> /\ Len(queue) \in Nat /\ Len(heard) \in Nat
      /\ MaxQueue \in Nat /\ Len(queue) <= MaxQueue
  BY LenProperties, BoundsAssumption DEF IInv, TypeOK
<1>2. /\ Head(queue) \in 1..MaxChunks /\ Tail(queue) \in Seq(1..MaxChunks)
      /\ Len(Tail(queue)) = Len(queue) - 1
      /\ \A i \in 1..Len(Tail(queue)) : Tail(queue)[i] = queue[i + 1]
  BY <1>1, HeadTailProperties
<1>3. Len(queue) >= 1 /\ Head(queue) = queue[1]
  BY <1>1, <1>2, EmptySeq
<1>4. TypeOK'
  BY <1>1, <1>2 DEF IInv, TypeOK
<1>5. InHand = 0 /\ InHand' = 1
  BY DEF InHand
<1>6. Waiting'
  <2>1. hand' = Len(heard) + 1
    BY <1>1, <1>3, <1>5 DEF IInv, Waiting
  <2>2. ASSUME NEW i \in 1..Len(queue') PROVE queue'[i] = Len(heard) + 1 + i
    <3>1. i + 1 \in 1..Len(queue) /\ queue'[i] = queue[i + 1]
      BY <1>1, <1>2
    <3>2. queue[i + 1] = Len(heard) + 0 + (i + 1)
      BY <1>5, <3>1 DEF IInv, Waiting
    <3>. QED
      BY <1>1, <3>1, <3>2
  <2>3. Len(heard) + 1 + Len(queue') = captured
    BY <1>1, <1>2, <1>5 DEF IInv, Waiting
  <2>. QED
    BY <1>5, <2>1, <2>2, <2>3 DEF Waiting
<1>7. \A c : Ended(c)' = Ended(c)
  BY DEF Ended
<1>8. Carried'
  BY <1>7 DEF IInv, Carried
<1>9. SmoothBorders'
  BY DEF IInv, SmoothBorders
<1>. QED
  BY <1>4, <1>6, <1>8, <1>9 DEF IInv, ThreadsOutlived

LEMMA FilterKeeps ==
  ASSUME IInv, PlayFilter
  PROVE  IInv'
<1>. USE DEF PlayFilter
<1>1. hand \in 0..MaxChunks /\ old \in [Channels -> Value]
  BY DEF IInv, TypeOK
<1>2. \A c : Ended(c)' = Ended(c)
  BY DEF Ended
<1>3. InHand' = InHand
  BY DEF InHand
<1>4. Waiting'
  BY <1>3 DEF IInv, Waiting
<1>5. SmoothBorders'
  BY DEF IInv, SmoothBorders
<1>6. TypeOK' /\ Carried'
  <2>1. CASE mode = "f" /\ data' = FilterAudio(hand, old) /\ old' = LastSamples(data')
             /\ ppc' = "write" /\ UNCHANGED thread
    <3>1. data' \in Chunks /\ old' \in [Channels -> Value]
      BY <1>1, <2>1, FilterTyped
    <3>2. TypeOK'
      BY <2>1, <3>1 DEF IInv, TypeOK, Chunks
    <3>3. old = [c \in Channels |-> Ended(c)]
      BY <2>1 DEF IInv, Carried
    <3>4. old = [c \in Channels |-> Ended(c)']
      BY <1>2, <3>3
    <3>5. data' = FilterAudio(hand', [c \in Channels |-> Ended(c)'])
      BY <2>1, <3>4
    <3>6. Carried'
      BY <2>1, <3>5 DEF Carried
    <3>. QED
      BY <3>2, <3>6
  <2>2. CASE mode = "p" /\ data' = [s \in SampleIdx |-> Plain(s % 2, hand, s \div 2)]
             /\ ppc' = "write" /\ UNCHANGED <<old, thread>>
    <3>1. data' = Passed(hand) /\ data' \in Chunks
      BY <1>1, <2>2, PassedTyped DEF Passed
    <3>2. TypeOK'
      BY <2>2, <3>1 DEF IInv, TypeOK, Chunks
    <3>3. Carried'
      BY <2>2, <3>1 DEF Carried, Passed
    <3>. QED
      BY <3>2, <3>3
  <2>3. CASE mode = "none" /\ thread' = [thread EXCEPT !["playback"] = "dead"]
             /\ UNCHANGED <<ppc, old, data>>
    <3>1. TypeOK'
      BY <2>3 DEF IInv, TypeOK
    <3>2. Carried'
      BY <2>3 DEF IInv, Carried
    <3>. QED
      BY <3>1, <3>2
  <2>. QED
    BY <2>1, <2>2, <2>3
<1>7. ThreadsOutlived'
  BY DEF IInv, ThreadsOutlived, Threads, TypeOK
<1>. QED
  BY <1>4, <1>5, <1>6, <1>7 DEF IInv

\* What one chunk must be like, given how channel c was left before it
Joined(chunk, k, c, before) ==
  /\ \A i \in (IF mode = "f" THEN Wrong ELSE 0)..(Chunk - 1) : chunk[2 * i + c] = Plain(c, k, i)
  /\ mode = "f" /\ Wrong > 0 =>
       /\ chunk[2 * 0 + c] = before
       /\ Wrong > 1 => chunk[2 * (Wrong - 1) + c] = chunk[2 * (Wrong + 1) + c]

\* The chunk about to be written is.
LEMMA DataIsJoined ==
  ASSUME IInv, ppc = "write", NEW c \in Channels
  PROVE  Joined(data, hand, c, Ended(c))
<1>0. Chunk \in Nat /\ Wrong \in Nat /\ Wrong + 1 < Chunk
  BY ChunkAssumption
<1>1. mode \in {"f", "p"}
  BY ModesAssumption DEF IInv, TypeOK, Carried
<1>2. CASE mode = "p"
  <2>1. ASSUME NEW i \in 0..(Chunk - 1) PROVE data[2 * i + c] = Plain(c, hand, i)
    BY <1>2, Interleaved DEF IInv, Carried, Passed
  <2>. QED
    BY <1>2, <2>1 DEF Joined
<1>3. CASE mode = "f"
  <2>. DEFINE a == [d \in Channels |-> Ended(d)]
  <2>1. data = FilterAudio(hand, a)
    BY <1>3 DEF IInv, Carried
  <2>. HIDE DEF a
  <2>2. ASSUME NEW i \in 0..(Chunk - 1)
        PROVE  data[2 * i + c] = IF i < Wrong THEN OnLine(a[c], Plain(c, hand, Wrong + 1), i)
                                 ELSE Plain(c, hand, i)
    <3>. DEFINE s == 2 * i + c
    <3>1. s \in SampleIdx /\ s % 2 = c /\ s \div 2 = i
      BY Interleaved
    <3>. HIDE DEF s
    <3>2. data[s] = IF i < Wrong THEN OnLine(a[c], Plain(c, hand, Wrong + 1), i)
                    ELSE Plain(c, hand, i)
      BY <2>1, <3>1 DEF FilterAudio
    <3>. QED
      BY <3>2 DEF s
  <2>3. ASSUME NEW i \in Wrong..(Chunk - 1) PROVE data[2 * i + c] = Plain(c, hand, i)
    <3>1. i \in 0..(Chunk - 1) /\ ~(i < Wrong)
      BY <1>0
    <3>. QED
      BY <2>2, <3>1
  <2>4. ASSUME Wrong > 0 PROVE data[2 * 0 + c] = Ended(c)
    <3>1. 0 \in 0..(Chunk - 1) /\ 0 < Wrong
      BY <1>0, <2>4
    <3>2. data[2 * 0 + c] = OnLine(a[c], Plain(c, hand, Wrong + 1), 0)
      BY <2>2, <3>1
    <3>. QED
      BY <3>2 DEF OnLine, a
  <2>5. ASSUME Wrong > 1 PROVE data[2 * (Wrong - 1) + c] = data[2 * (Wrong + 1) + c]
    <3>1. Wrong - 1 \in 0..(Chunk - 1) /\ Wrong - 1 < Wrong /\ Wrong - 1 # 0
          /\ Wrong + 1 \in Wrong..(Chunk - 1)
      BY <1>0, <2>5
    <3>2. data[2 * (Wrong - 1) + c] = OnLine(a[c], Plain(c, hand, Wrong + 1), Wrong - 1)
      BY <2>2, <3>1
    <3>3. data[2 * (Wrong - 1) + c] = Plain(c, hand, Wrong + 1)
      BY <3>1, <3>2 DEF OnLine
    <3>. QED
      BY <2>3, <3>1, <3>3
  <2>. QED
    BY <1>3, <2>3, <2>4, <2>5 DEF Joined
<1>. QED
  BY <1>1, <1>2, <1>3

LEMMA WriteKeeps ==
  ASSUME IInv, PlayWrite
  PROVE  IInv'
<1>. USE DEF PlayWrite
<1>. DEFINE n == Len(heard)
<1>1. heard \in Seq(Chunks) /\ data \in Chunks /\ n \in Nat
  BY LenProperties DEF IInv, TypeOK, Chunks
<1>2. /\ heard' \in Seq(Chunks) /\ Len(heard') = n + 1
      /\ \A k \in 1..n : heard'[k] = heard[k]
      /\ heard'[n + 1] = data
  BY <1>1, AppendProperties
<1>3. TypeOK'
  BY <1>2 DEF IInv, TypeOK, Chunks
<1>4. hand = n + 1 /\ InHand = 1 /\ InHand' = 0
  BY DEF IInv, Waiting, InHand
<1>5. Waiting'
  <2>1. n + 1 + Len(queue) = captured /\ \A i \in 1..Len(queue) : queue[i] = n + 1 + i
    BY <1>4 DEF IInv, Waiting
  <2>2. Len(queue) \in Nat
    BY LenProperties DEF IInv, TypeOK
  <2>3. n + 1 + 0 + Len(queue) = captured /\ \A i \in 1..Len(queue) : queue[i] = n + 1 + 0 + i
    BY <1>1, <2>1, <2>2
  <2>. QED
    BY <1>2, <1>4, <2>3 DEF Waiting
<1>6. Carried'
  <2>1. ASSUME NEW c \in Channels, mode = "f" PROVE old[c] = Ended(c)'
    <3>1. old = LastSamples(data)
      BY <2>1 DEF IInv, Carried
    <3>2. 2 * (Chunk - 1) + c = 2 * Chunk - 2 + c
      BY ChunkAssumption DEF Channels
    <3>3. Ended(c)' = data[2 * (Chunk - 1) + c]
      BY <1>1, <1>2 DEF Ended
    <3>. QED
      BY <3>1, <3>2, <3>3 DEF LastSamples
  <2>2. mode = "f" => old = [c \in Channels |-> Ended(c)']
    <3>1. old \in [Channels -> Value]
      BY DEF IInv, TypeOK
    <3>. QED
      BY <2>1, <3>1
  <2>3. mode # "none"
    BY DEF IInv, Carried
  <2>. QED
    BY <2>2, <2>3 DEF Carried
<1>7. SmoothBorders'
  <2>. SUFFICES ASSUME NEW k \in 1..(n + 1), NEW c \in Channels
                PROVE  Joined(heard'[k], k, c,
                         IF k = 1 THEN Silence ELSE heard'[k - 1][2 * (Chunk - 1) + c])
    BY <1>2 DEF SmoothBorders, Joined
  <2>1. CASE k = n + 1
    <3>1. heard'[k] = data
      BY <1>2, <2>1
    <3>2. Ended(c) = IF k = 1 THEN Silence ELSE heard'[k - 1][2 * (Chunk - 1) + c]
      BY <1>1, <1>2, <2>1 DEF Ended
    <3>3. Joined(data, k, c, Ended(c))
      BY <1>4, <2>1, DataIsJoined
    <3>. QED
      BY <3>1, <3>2, <3>3
  <2>2. CASE k # n + 1
    <3>1. k \in 1..n /\ (k # 1 => k - 1 \in 1..n)
      BY <1>1, <2>2
    <3>2. Joined(heard[k], k, c,
            IF k = 1 THEN Silence ELSE heard[k - 1][2 * (Chunk - 1) + c])
      BY <3>1 DEF IInv, SmoothBorders, Joined
    <3>. QED
      BY <1>2, <3>1, <3>2
  <2>. QED
    BY <2>1, <2>2
<1>. QED
  BY <1>3, <1>5, <1>6, <1>7 DEF IInv, ThreadsOutlived

\* Opening a device and the exit of either process concern neither chunks nor samples.
LEMMA OpenKeeps ==
  ASSUME IInv, NEW t \in Threads, OpenStream(t)
  PROVE  IInv'
<1>. USE DEF OpenStream
<1>1. Device(t) \in Devices
  BY DEF Devices
<1>2. /\ thread' \in [Threads -> {"opening", "streaming", "dead"}]
      /\ owner' \in [Devices -> 0..2]
  BY <1>1 DEF IInv, TypeOK
<1>3. TypeOK'
  BY <1>2 DEF IInv, TypeOK, playVars
<1>4. Waiting'
  BY DEF IInv, Waiting, InHand, playVars
<1>5. ThreadsOutlived'
  BY DEF IInv, ThreadsOutlived, TypeOK
<1>. QED
  BY <1>3, <1>4, <1>5, PlaybackRests DEF IInv

LEMMA OtherExitsKeeps ==
  ASSUME IInv, OtherExits
  PROVE  IInv'
<1>. USE DEF OtherExits
<1>1. owner' \in [Devices -> 0..2]
  BY DEF IInv, TypeOK
<1>2. TypeOK'
  BY <1>1 DEF IInv, TypeOK, playVars
<1>3. Waiting'
  BY DEF IInv, Waiting, InHand, playVars
<1>. QED
  BY <1>2, <1>3, PlaybackRests DEF IInv, ThreadsOutlived

LEMMA ExitKeeps ==
  ASSUME IInv, Exit
  PROVE  IInv'
<1>. USE DEF Exit
<1>1. owner' \in [Devices -> 0..2]
  BY DEF IInv, TypeOK
<1>2. TypeOK'
  BY <1>1 DEF IInv, TypeOK, playVars
<1>3. Waiting'
  BY DEF IInv, Waiting, InHand, playVars
<1>. QED
  BY <1>2, <1>3, PlaybackRests DEF IInv, ThreadsOutlived

LEMMA StutterKeeps ==
  ASSUME IInv, UNCHANGED vars
  PROVE  IInv'
<1>1. TypeOK'
  BY DEF IInv, TypeOK, vars, playVars
<1>2. Waiting'
  BY DEF IInv, Waiting, InHand, vars, playVars
<1>. QED
  BY <1>1, <1>2, PlaybackRests DEF IInv, ThreadsOutlived, vars

LEMMA Keeping == IInv /\ [Next]_vars => IInv'
BY RecordKeeps, GetKeeps, FilterKeeps, WriteKeeps, OpenKeeps, OtherExitsKeeps, ExitKeeps,
   StutterKeeps
   DEF Next, Playback

LEMMA Invariance == Spec => []IInv
BY Beginning, Keeping, PTL DEF Spec

\* The types, for every chunk size, bound and mode
THEOREM Typing == Spec => []TypeOK
<1>1. IInv => TypeOK
  BY DEF IInv
<1>. QED
  BY <1>1, Invariance, PTL

\* Nothing recorded is dropped, doubled or overtaken on its way: the chunks played, the one
\* in hand and those in the queue are the chunks recorded, in their order.
THEOREM NothingDropped == Spec => []Waiting
<1>1. IInv => Waiting
  BY DEF IInv
<1>. QED
  BY <1>1, Invariance, PTL

\* Whatever the threads do in between, every chunk is played once and in order, and in
\* filter mode each channel goes on from the sample it was left with.
THEOREM BordersAreSmooth == Spec => []SmoothBorders
<1>1. IInv => SmoothBorders
  BY DEF IInv
<1>. QED
  BY <1>1, Invariance, PTL

----------------------------------------------------------------------------
(* The process of ModeServer                                               *)

\* Both modules mean the same threads and devices, and the devices are not one.
LEMMA SameDevices ==
  /\ Server!Threads = Threads /\ Server!Devices = Devices
  /\ \A t \in Threads : Server!Device(t) = Device(t) /\ Device(t) \in Devices
BY DEF Server!Threads, Threads, Server!Devices, Devices, Server!Device, Device

\* The two processes of the mapping, and how the second one's entry is changed
Pair(first, second) == [p \in 1..2 |-> IF p = 2 THEN second ELSE first]

LEMMA PairEntries ==
  ASSUME NEW a, NEW b, NEW c
  PROVE  /\ Pair(a, b)[1] = a /\ Pair(a, b)[2] = b
         /\ [Pair(a, b) EXCEPT ![2] = c] = Pair(a, c)
         /\ [Pair(a, b) EXCEPT ![1] = c] = Pair(c, b)
<1>1. Pair(a, b)[1] = a /\ Pair(a, b)[2] = b
  BY DEF Pair
<1>2. [Pair(a, b) EXCEPT ![2] = c] = Pair(a, c)
  <2>1. [Pair(a, b) EXCEPT ![2] = c] = [p \in 1..2 |-> IF p = 2 THEN c ELSE Pair(a, b)[p]]
    BY DEF Pair
  <2>2. \A p \in 1..2 : (IF p = 2 THEN c ELSE Pair(a, b)[p]) = IF p = 2 THEN c ELSE a
    BY DEF Pair
  <2>. QED
    BY <2>1, <2>2, Zenon DEF Pair
<1>3. [Pair(a, b) EXCEPT ![1] = c] = Pair(c, b)
  <2>1. [Pair(a, b) EXCEPT ![1] = c] = [p \in 1..2 |-> IF p = 1 THEN c ELSE Pair(a, b)[p]]
    BY DEF Pair
  <2>2. \A p \in 1..2 : (IF p = 1 THEN c ELSE Pair(a, b)[p]) = IF p = 2 THEN b ELSE c
    BY DEF Pair
  <2>. QED
    BY <2>1, <2>2, Zenon DEF Pair
<1>. QED
  BY <1>1, <1>2, <1>3

Other == IF \E d \in Devices : owner[d] = 1 THEN "killed" ELSE "gone"
Unused == [t \in Threads |-> "none"]

\* The actions of the server in these terms
LEMMA RecordMapped ==
  Server!RecordChunk(2) <=>
       /\ Pair(Other, proc)[2] = "alive" /\ Pair(Unused, thread)[2]["record"] = "streaming"
       /\ Pair(0, Len(queue))[2] < MaxQueue
       /\ Pair(0, Len(queue))' = [Pair(0, Len(queue)) EXCEPT ![2] = Pair(0, Len(queue))[2] + 1]
       /\ UNCHANGED <<Pair(Other, proc), Pair(Unused, thread), owner>>
BY Zenon DEF Server!RecordChunk, Pair, Other, Unused, Server!serverVars, Server!procVars

LEMMA PlayMapped ==
  Server!PlayChunk(2) <=>
       /\ Pair(Other, proc)[2] = "alive" /\ Pair(Unused, thread)[2]["playback"] = "streaming"
       /\ Pair(0, Len(queue))[2] > 0
       /\ Pair(0, Len(queue))' = [Pair(0, Len(queue)) EXCEPT ![2] = Pair(0, Len(queue))[2] - 1]
       /\ UNCHANGED <<Pair(Other, proc), Pair(Unused, thread), owner>>
BY Zenon DEF Server!PlayChunk, Pair, Other, Unused, Server!serverVars, Server!procVars

LEMMA ExitMapped ==
  ASSUME NEW p
  PROVE  Server!Exit(p) <=>
       /\ \/ Pair(Other, proc)[p] = "killed"
          \/ Pair(Other, proc)[p] = "alive" /\ \A t \in Server!Threads : Pair(Unused, thread)[p][t] = "dead"
       /\ Pair(Other, proc)' = [Pair(Other, proc) EXCEPT ![p] = "gone"]
       /\ owner' = [d \in Server!Devices |-> IF owner[d] = p THEN 0 ELSE owner[d]]
       /\ UNCHANGED <<Pair(Unused, thread), Pair(0, Len(queue))>>
BY Zenon DEF Server!Exit, Pair, Other, Unused, Server!serverVars, Server!procVars

LEMMA OpenMapped ==
  ASSUME NEW t
  PROVE  Server!OpenStream(2, t) <=>
       /\ Pair(Other, proc)[2] = "alive" /\ Pair(Unused, thread)[2][t] = "opening"
       /\ \/ /\ owner[Server!Device(t)] = 0
             /\ owner' = [owner EXCEPT ![Server!Device(t)] = 2]
             /\ Pair(Unused, thread)' = [Pair(Unused, thread) EXCEPT ![2] = [Pair(Unused, thread)[2] EXCEPT ![t] = "streaming"]]
          \/ /\ owner[Server!Device(t)] # 0 /\ UNCHANGED owner
             /\ Pair(Unused, thread)' = [Pair(Unused, thread) EXCEPT ![2] = [Pair(Unused, thread)[2] EXCEPT ![t] = "dead"]]
       /\ UNCHANGED <<Pair(Other, proc), Pair(0, Len(queue))>>
BY Zenon DEF Server!OpenStream, Pair, Other, Unused, Server!serverVars, Server!procVars

\* Recording is the server's RecordChunk: its backlog is the length of the queue.
LEMMA RecordRefines ==
  ASSUME IInv, RecordChunk
  PROVE  Server!RecordChunk(2)
<1>1. Len(queue) \in Nat /\ Len(queue') = Len(queue) + 1 /\ Len(queue) < MaxQueue
  <2>1. queue \in Seq(1..MaxChunks) /\ captured + 1 \in 1..MaxChunks
    BY BoundsAssumption DEF IInv, TypeOK, RecordChunk
  <2>. QED
    BY <2>1, LenProperties, AppendProperties DEF RecordChunk
<1>2. UNCHANGED <<Pair(Other, proc), Pair(Unused, thread), owner>>
  BY Zenon DEF RecordChunk, Other, Unused
<1>3. Pair(0, Len(queue))' = Pair(0, Len(queue) + 1)
  BY <1>1, Zenon DEF Pair
<1>4. /\ Pair(Other, proc)[2] = proc /\ Pair(Unused, thread)[2] = thread
      /\ Pair(0, Len(queue))[2] = Len(queue)
      /\ [Pair(0, Len(queue)) EXCEPT ![2] = Len(queue) + 1] = Pair(0, Len(queue) + 1)
  BY PairEntries
<1>5. thread["record"] = "streaming" /\ proc = "alive"
  BY DEF RecordChunk, IInv, TypeOK, ThreadsOutlived, Threads
<1>. QED
  BY <1>1, <1>2, <1>3, <1>4, <1>5, RecordMapped

\* Taking a chunk is the server's PlayChunk.
LEMMA GetRefines ==
  ASSUME IInv, PlayGet
  PROVE  Server!PlayChunk(2)
<1>1. Len(queue) \in Nat /\ Len(queue) > 0 /\ Len(queue') = Len(queue) - 1
  <2>1. queue \in Seq(1..MaxChunks) /\ queue # <<>>
    BY DEF IInv, TypeOK, PlayGet
  <2>2. Len(queue) \in Nat \ {0}
    BY <2>1, EmptySeq
  <2>. QED
    BY <2>1, <2>2, HeadTailProperties DEF PlayGet
<1>2. UNCHANGED <<Pair(Other, proc), Pair(Unused, thread), owner>>
  BY Zenon DEF PlayGet, Other, Unused
<1>3. Pair(0, Len(queue))' = Pair(0, Len(queue) - 1)
  BY <1>1, Zenon DEF Pair
<1>4. /\ Pair(Other, proc)[2] = proc /\ Pair(Unused, thread)[2] = thread
      /\ Pair(0, Len(queue))[2] = Len(queue)
      /\ [Pair(0, Len(queue)) EXCEPT ![2] = Len(queue) - 1] = Pair(0, Len(queue) - 1)
  BY PairEntries
<1>5. thread["playback"] = "streaming" /\ proc = "alive"
  BY DEF PlayGet, IInv, TypeOK, ThreadsOutlived, Threads
<1>. QED
  BY <1>1, <1>2, <1>3, <1>4, <1>5, PlayMapped

\* Whether the killed process still holds a device does not change when this one opens one.
LEMMA OpenRefines ==
  ASSUME IInv, NEW t \in Threads, OpenStream(t)
  PROVE  Server!OpenStream(2, t)
<1>1. owner \in [Devices -> 0..2] /\ thread \in [Threads -> {"opening", "streaming", "dead"}]
  BY DEF IInv, TypeOK
<1>2. Server!Device(t) = Device(t) /\ Device(t) \in Devices
  BY SameDevices
<1>3. (\E d \in Devices : owner'[d] = 1) <=> \E d \in Devices : owner[d] = 1
  BY <1>1, <1>2 DEF OpenStream
<1>4. UNCHANGED <<Pair(Other, proc), Pair(0, Len(queue))>>
  <2>1. Other' = Other /\ queue' = queue /\ proc' = proc
    BY <1>3, Zenon DEF Other, OpenStream
  <2>. QED
    BY <2>1, Zenon DEF Pair
<1>5. Pair(Other, proc)[2] = "alive" /\ Pair(Unused, thread)[2] = thread
  <2>1. proc = "alive" BY DEF OpenStream, IInv, TypeOK, ThreadsOutlived
  <2>. QED BY <2>1, PairEntries
<1>6. Pair(Unused, thread)' = Pair(Unused, thread')
  BY Zenon DEF Pair, Unused
<1>7. \A st : thread' = [thread EXCEPT ![t] = st] =>
        Pair(Unused, thread)' =
          [Pair(Unused, thread) EXCEPT ![2] = [Pair(Unused, thread)[2] EXCEPT ![t] = st]]
  <2>. SUFFICES ASSUME NEW st, thread' = [thread EXCEPT ![t] = st]
                PROVE  Pair(Unused, thread)' =
                         [Pair(Unused, thread) EXCEPT ![2] = [Pair(Unused, thread)[2] EXCEPT ![t] = st]]
    OBVIOUS
  <2>1. \A new : [Pair(Unused, thread) EXCEPT ![2] = new] = Pair(Unused, new)
    <3>. TAKE new
    <3>. QED
      BY PairEntries
  <2>. QED
    BY <1>5, <1>6, <2>1, Zenon
<1>8. CASE owner[Device(t)] = 0
  BY <1>2, <1>4, <1>5, <1>7, <1>8, OpenMapped DEF OpenStream
<1>9. CASE owner[Device(t)] # 0
  BY <1>2, <1>4, <1>5, <1>7, <1>9, OpenMapped DEF OpenStream
<1>. QED
  BY <1>8, <1>9

\* The other process gives back all its devices at once, in its Exit.
LEMMA OtherExitsRefines ==
  ASSUME IInv, OtherExits
  PROVE  Server!Exit(1)
<1>1. owner \in [Devices -> 0..2] /\ Server!Devices = Devices
  BY SameDevices DEF IInv, TypeOK
<1>2. ~\E d \in Devices : owner'[d] = 1
  BY <1>1 DEF OtherExits
<1>3. Other = "killed" /\ Other' = "gone" /\ proc' = proc
  BY <1>2, Zenon DEF Other, OtherExits
<1>4. Pair(Other, proc)' = Pair("gone", proc)
  BY <1>3, Zenon DEF Pair
<1>5. UNCHANGED <<Pair(Unused, thread), Pair(0, Len(queue))>>
  BY Zenon DEF OtherExits, Unused, Pair
<1>6. /\ Pair(Other, proc)[1] = "killed"
      /\ Pair(Other, proc)' = [Pair(Other, proc) EXCEPT ![1] = "gone"]
  BY <1>3, <1>4, PairEntries
<1>. QED
  BY <1>1, <1>5, <1>6, ExitMapped DEF OtherExits

\* The interpreter that lost both threads gives back what it holds, in the server's Exit.
LEMMA ExitRefines ==
  ASSUME IInv, Exit
  PROVE  Server!Exit(2)
<1>1. owner \in [Devices -> 0..2] /\ Server!Devices = Devices /\ Server!Threads = Threads
  BY SameDevices DEF IInv, TypeOK
<1>2. (\E d \in Devices : owner'[d] = 1) <=> \E d \in Devices : owner[d] = 1
  BY <1>1 DEF Exit
<1>3. Other' = Other /\ proc = "alive" /\ proc' = "gone"
  BY <1>2, Zenon DEF Other, Exit
<1>4. Pair(Other, proc)' = Pair(Other, "gone")
  BY <1>3, Zenon DEF Pair
<1>5. UNCHANGED <<Pair(Unused, thread), Pair(0, Len(queue))>>
  BY Zenon DEF Exit, Unused, Pair
<1>6. /\ Pair(Other, proc)[2] = "alive" /\ Pair(Unused, thread)[2] = thread
      /\ Pair(Other, proc)' = [Pair(Other, proc) EXCEPT ![2] = "gone"]
  BY <1>3, <1>4, PairEntries
<1>. QED
  BY <1>1, <1>5, <1>6, ExitMapped DEF Exit

\* Filtering and writing are not seen from the server, except that a process without a known
\* mode loses its playback thread.
LEMMA RestIsUnseen ==
  ASSUME PlayFilter \/ PlayWrite \/ UNCHANGED vars
  PROVE  DiesOfMode \/ UNCHANGED <<proc, thread, owner, Len(queue)>>
BY DEF PlayFilter, PlayWrite, DiesOfMode, vars

\* Every step of the process is one that ModeServer gives it, or one that ModeServer does not
\* see, but for the end of a playback thread without a known mode.
THEOREM Refinement == Spec => RefinesServerProcess
<1>1. ASSUME IInv, [Next]_vars
      PROVE  [ \/ Server!Audio(2) \/ Server!Exit(1) \/ Server!Exit(2)
               \/ DiesOfMode ]_<<proc, thread, owner, Len(queue)>>
  <2>1. CASE RecordChunk
    BY <1>1, <2>1, RecordRefines DEF Server!Audio
  <2>2. CASE PlayGet
    BY <1>1, <2>2, GetRefines DEF Server!Audio
  <2>3. CASE \E t \in Threads : OpenStream(t)
    BY <1>1, <2>3, OpenRefines, SameDevices DEF Server!Audio
  <2>4. CASE OtherExits
    BY <1>1, <2>4, OtherExitsRefines
  <2>5. CASE PlayFilter \/ PlayWrite \/ UNCHANGED vars
    BY <2>5, RestIsUnseen
  <2>6. CASE Exit
    BY <1>1, <2>6, ExitRefines
  <2>. QED
    BY <1>1, <2>1, <2>2, <2>3, <2>4, <2>5, <2>6 DEF Next, Playback
<1>. QED
  BY <1>1, Invariance, PTL DEF Spec, RefinesServerProcess
=============================================================================
