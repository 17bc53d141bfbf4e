------------------------- MODULE AudioRecord_proofs -------------------------
(***************************************************************************)
(* Proofs about AudioRecord, for every number of frames per block, every   *)
(* number of blocks and every set of faults: the ring is used in bounds    *)
(* although its index is added twice, the two callbacks, which never       *)
(* compare their indices, stay half a ring apart, and together they        *)
(* implement the hand-over.                                                *)
(***************************************************************************)
EXTENDS AudioRecord, TLAPS

\* Half a ring, which is one block; the indices are always 0 or Half
Half == 2 * Frames

Flip(i) == Half - i

\* The indices the callbacks use next
NextRecord == IF rpc = "store" THEN Flip(recordIndex) ELSE recordIndex

NextPlay == IF ppc = "store" THEN Flip(playIndex) ELSE playIndex

\* One turn at the ring, held by a semaphore or by a callback
Turns ==
  /\ ~(rpc = "copy" /\ ppc = "copy")
  /\ rpc = "copy" \/ ppc = "copy" => readDone = 0 /\ writeDone = 0
  /\ ~(readDone = 1 /\ writeDone = 1)
  /\ (pc # "sem" /\ "sem" \notin Faults) \/ Put > 0 =>
       readDone = 1 \/ writeDone = 1 \/ rpc = "copy" \/ ppc = "copy"

\* The indices of the callbacks, each for itself and against each other
Indices ==
  /\ recordIndex \in {0, Half} /\ playIndex \in {0, Half}
  /\ rpc # "idle" => wptr = recordIndex
  /\ rpc = "wait" => widx = recordIndex
  /\ rpc = "copy" => widx = recordIndex + 2 * ri
  /\ rpc = "store" => widx = recordIndex + Half
  /\ ppc # "idle" => rptr = playIndex
  /\ ppc = "wait" => ridx = playIndex
  /\ ppc = "copy" => ridx = playIndex + 2 * pi
  /\ ppc = "store" => ridx = playIndex + Half
  /\ readDone = 1 \/ rpc = "copy" => NextRecord = NextPlay
  /\ writeDone = 1 \/ ppc = "copy" => NextRecord = Flip(NextPlay)

\* What the ring and the output buffer hold, by the position of the turn
Contents ==
  /\ rpc # "idle" => captured >= 1
  /\ readDone = 1 \/ rpc = "copy" => Put = Len(heard)
  /\ writeDone = 1 \/ ppc = "copy" =>
       Put = Len(heard) + 1 /\ \A k \in SampleIdx : mem[2 * NextPlay + k] = <<Put, k>>
  /\ rpc = "copy" => \A k \in 0..(2 * ri - 1) : mem[2 * recordIndex + k] = <<captured, k>>
  /\ ppc = "copy" => \A k \in 0..(2 * pi - 1) : out[k] = <<Put, k>>

\* Every block heard is the one captured, sample by sample
Heard == \A n \in 1..Len(heard) : heard[n] = [k \in SampleIdx |-> <<n, k>>]

BeforeStart(s) ==
  pc \in {"sem", "calloc", "painit", "open_in", "open_out", "start_in"}
         \cup (IF s = "in" THEN {} ELSE {"start_out"})

AfterClosing(s) ==
  pc \in {"free", "returned", "crashed"} \cup (IF s = "in" THEN {"close_out"} ELSE {})

\* The callback threads against their streams and against main
Threads ==
  /\ rpc # "idle" <=> thread["in"] = "cb"
  /\ ppc # "idle" <=> thread["out"] = "cb"
  /\ \A s \in Dirs :
       /\ BeforeStart(s) => thread[s] = "none" /\ active[s] = 0 /\ finished[s] = 0
       /\ thread[s] \in {"poll", "cb"} => ptr[s] = "open" /\ active[s] = 1
       /\ thread[s] = "ended" /\ ptr[s] = "open" => finished[s] = 1
       /\ thread[s] = "none" => active[s] = 0 /\ finished[s] = 0
       /\ AfterClosing(s) => ptr[s] # "open"
  /\ pc \in {"open_out", "start_in", "start_out"} => ptr["in"] = "open"
  /\ pc \in {"start_in", "start_out"} => ptr["out"] = "open"
  /\ pc = "sem" => readDone = 0 /\ writeDone = 0 /\ captured = 0 /\ heard = <<>>
                   /\ recordIndex = 0 /\ playIndex = 0

\* What main owns, and how it knows that a call failed
Resources ==
  /\ \A s \in Dirs : thread[s] # "none" /\ pc \notin {"returned", "crashed"} => samples = "live"
  /\ pc \in {"sem", "calloc"} => samples = "wild"
  /\ pc \in {"painit", "open_in", "open_out", "start_in", "start_out"} => samples = "live"
  /\ pc = "returned" => samples # "live"
  /\ pc \in {"poll_in", "poll_out", "close_in", "close_out"} => thread["out"] # "none"
  /\ pc \in {"terminate", "free"} /\ samples = "live" /\ thread["out"] = "none" =>
       err = "error"
  /\ pc \notin {"returned", "crashed"} => samples # "freed"
  /\ pc = "returned" /\ samples = "freed" /\ thread["out"] = "none" => code = 1

IInv == TypeOK /\ Turns /\ Indices /\ Contents /\ Heard /\ Threads /\ Resources

\* The ring is two blocks long; an address below its length is its own remainder.
LEMMA Remainders ==
  /\ Half \in Nat /\ Half > 0 /\ BufferSize = 2 * Half /\ Allocated = 4 * Half
  /\ \A i \in 0..(BufferSize - 1) : i % BufferSize = i
  /\ BufferSize % BufferSize = 0
<1>1. Half \in Nat /\ Half > 0 /\ BufferSize = 2 * Half /\ Allocated = 4 * Half
  BY FramesAssumption DEF Half, BufferSize, Allocated
<1>2. BufferSize \in Nat \ {0}
  BY <1>1
<1> QED BY <1>1, <1>2, SMTT(30)

\* An index that a callback may have is an address in the ring.
LEMMA IndexIsAddress == {0, Half} \subseteq 0..(BufferSize - 1)
BY Remainders

\* Where a callback with index i finds sample k of its block: the index counts twice.
LEMMA Cells ==
  ASSUME NEW i \in {0, Half}, NEW k \in SampleIdx
  PROVE  Cell(i, i + k) = 2 * i + k /\ Cell(i, i + k) \in Address
<1>1. i + k \in 0..(BufferSize - 1)
  BY Remainders DEF SampleIdx, Half
<1>2. (i + k) % BufferSize = i + k
  BY <1>1, Remainders
<1>3. k \in Nat /\ k < Half
  BY FramesAssumption DEF SampleIdx, Half
<1>4. Cell(i, i + k) = 2 * i + k
  BY <1>2, <1>3, Remainders DEF Cell
<1>5. 2 * i + k \in Address
  BY <1>3, Remainders DEF Address
<1> QED BY <1>4, <1>5

\* The index a callback stores after a block is the other one.
LEMMA Wraps ==
  ASSUME NEW i \in {0, Half}
  PROVE  (i + Half) % BufferSize = Flip(i) /\ Flip(i) \in {0, Half}
<1>1. CASE i = 0
  BY <1>1, Remainders DEF Flip
<1>2. CASE i = Half
  BY <1>2, Remainders DEF Flip
<1> QED BY <1>1, <1>2

\* A step that leaves the semaphores, the callbacks and the ring alone keeps the facts
\* about them.
LEMMA BlocksKept ==
  ASSUME IInv, pc = "sem" => pc' = "sem", UNCHANGED <<semVars, mem, recVars, playVars>>
  PROVE  Turns' /\ Indices' /\ Contents' /\ Heard'
<1>1. Turns'
  BY DEF IInv, Turns, semVars, recVars, playVars, Put
<1>2. Indices'
  BY DEF IInv, Indices, NextRecord, NextPlay, semVars, recVars, playVars
<1>3. Contents'
  BY DEF IInv, Contents, Put, NextPlay, semVars, recVars, playVars
<1>4. Heard'
  BY DEF IInv, Heard, playVars
<1> QED BY <1>1, <1>2, <1>3, <1>4

\* InitSemaphores of audio_record.c preserves the inductive invariant.
LEMMA InitSemaphoresInv ==
  ASSUME IInv, InitSemaphores
  PROVE  IInv'
<1>0. TypeOK /\ Turns /\ Indices /\ Contents /\ Heard /\ Threads /\ Resources
  BY DEF IInv
<1>1. TypeOK'
  BY <1>0, FramesAssumption, MaxBlocksAssumption DEF InitSemaphores, mainVars, paVars,
    semVars, recVars, playVars, Threads, BeforeStart, Dirs, TypeOK, PaTypeOK, Turns, Half
<1>2. Turns'
  BY <1>0 DEF InitSemaphores, mainVars, paVars, semVars, recVars, playVars, Threads,
    BeforeStart, Dirs, Turns, TypeOK, Put
<1>3. Indices'
  BY <1>0, FramesAssumption DEF InitSemaphores, mainVars, paVars, semVars, recVars,
    playVars, Threads, BeforeStart, Dirs, Turns, TypeOK, Indices, NextRecord, NextPlay,
    Flip, Half
<1>4. Contents'
  BY <1>0, FramesAssumption DEF InitSemaphores, mainVars, paVars, semVars, recVars,
    playVars, Threads, BeforeStart, Dirs, Turns, TypeOK, Contents, Put, NextPlay
<1>5. Heard'
  BY <1>0 DEF InitSemaphores, mainVars, paVars, semVars, recVars, playVars, Threads,
    BeforeStart, Dirs, Heard
<1>6. Threads'
  BY <1>0 DEF InitSemaphores, mainVars, paVars, semVars, recVars, playVars, Threads,
    BeforeStart, Dirs, AfterClosing, TypeOK, PaTypeOK
<1>7. Resources'
  BY <1>0 DEF InitSemaphores, mainVars, paVars, semVars, recVars, playVars, Threads,
    BeforeStart, Dirs, Resources, AfterClosing, TypeOK, PaTypeOK
<1> QED BY <1>1, <1>2, <1>3, <1>4, <1>5, <1>6, <1>7 DEF IInv

\* AllocateSamples of audio_record.c preserves the inductive invariant.
LEMMA AllocateSamplesInv ==
  ASSUME IInv, AllocateSamples
  PROVE  IInv'
<1>0. TypeOK /\ Turns /\ Indices /\ Contents /\ Heard /\ Threads /\ Resources
  BY DEF IInv
<1>1. TypeOK'
  BY <1>0 DEF AllocateSamples, Outcome, mainVars, paVars, semVars, recVars, playVars,
    TypeOK, PaTypeOK, Dirs
<1>2. Turns' /\ Indices' /\ Contents' /\ Heard'
  BY BlocksKept DEF AllocateSamples, Outcome, mainVars, paVars, semVars, recVars, playVars
<1>3. Threads'
  BY <1>0 DEF AllocateSamples, Outcome, mainVars, paVars, semVars, recVars, playVars,
    Threads, BeforeStart, AfterClosing, TypeOK, PaTypeOK, Dirs
<1>4. Resources'
  BY <1>0 DEF AllocateSamples, Outcome, mainVars, paVars, semVars, recVars, playVars,
    Resources, Threads, BeforeStart, AfterClosing, TypeOK, PaTypeOK, Dirs
<1> QED BY <1>1, <1>2, <1>3, <1>4 DEF IInv

\* InitializePortAudio of audio_record.c preserves the inductive invariant.
LEMMA InitializePortAudioInv ==
  ASSUME IInv, InitializePortAudio
  PROVE  IInv'
<1>0. TypeOK /\ Turns /\ Indices /\ Contents /\ Heard /\ Threads /\ Resources
  BY DEF IInv
<1>1. TypeOK'
  BY <1>0 DEF InitializePortAudio, PaInitialize, Outcome, Result, mainVars, paVars,
    semVars, recVars, playVars, TypeOK, PaTypeOK, Dirs
<1>2. Turns' /\ Indices' /\ Contents' /\ Heard'
  BY BlocksKept DEF InitializePortAudio, PaInitialize, Outcome, Result, mainVars, paVars,
    semVars, recVars, playVars
<1>3. Threads'
  BY <1>0 DEF InitializePortAudio, PaInitialize, Outcome, Result, mainVars, paVars,
    semVars, recVars, playVars, Threads, BeforeStart, AfterClosing, TypeOK, PaTypeOK, Dirs
<1>4. Resources'
  BY <1>0 DEF InitializePortAudio, PaInitialize, Outcome, Result, mainVars, paVars,
    semVars, recVars, playVars, Resources, Threads, BeforeStart, AfterClosing, TypeOK,
    PaTypeOK, Dirs
<1> QED BY <1>1, <1>2, <1>3, <1>4 DEF IInv

\* OpenStream(s) of audio_record.c preserves the inductive invariant.
LEMMA OpenStreamInv ==
  ASSUME NEW s \in Dirs, IInv, OpenStream(s)
  PROVE  IInv'
<1>0. TypeOK /\ Turns /\ Indices /\ Contents /\ Heard /\ Threads /\ Resources
  BY DEF IInv
<1>1. TypeOK'
  BY <1>0 DEF OpenStream, PaOpenStream, Outcome, Result, mainVars, paVars, semVars,
    recVars, playVars, TypeOK, PaTypeOK, Dirs
<1>2. Turns' /\ Indices' /\ Contents' /\ Heard'
  BY BlocksKept DEF OpenStream, PaOpenStream, Outcome, Result, mainVars, paVars, semVars,
    recVars, playVars
<1>3. Threads'
  BY <1>0 DEF OpenStream, PaOpenStream, Outcome, Result, mainVars, paVars, semVars,
    recVars, playVars, Threads, BeforeStart, AfterClosing, TypeOK, PaTypeOK, Dirs
<1>4. Resources'
  BY <1>0 DEF OpenStream, PaOpenStream, Outcome, Result, mainVars, paVars, semVars,
    recVars, playVars, Resources, Threads, BeforeStart, AfterClosing, TypeOK, PaTypeOK, Dirs
<1> QED BY <1>1, <1>2, <1>3, <1>4 DEF IInv

\* StartStream(s) of audio_record.c preserves the inductive invariant.
LEMMA StartStreamInv ==
  ASSUME NEW s \in Dirs, IInv, StartStream(s)
  PROVE  IInv'
<1>0. TypeOK /\ Turns /\ Indices /\ Contents /\ Heard /\ Threads /\ Resources
  BY DEF IInv
<1>1. TypeOK'
  BY <1>0 DEF StartStream, PaStartStream, Outcome, Result, mainVars, paVars, semVars,
    recVars, playVars, TypeOK, PaTypeOK, Dirs
<1>2. Turns' /\ Indices' /\ Contents' /\ Heard'
  BY BlocksKept DEF StartStream, PaStartStream, Outcome, Result, mainVars, paVars,
    semVars, recVars, playVars
<1>3. Threads'
  BY <1>0 DEF StartStream, PaStartStream, Outcome, Result, mainVars, paVars, semVars,
    recVars, playVars, Threads, BeforeStart, AfterClosing, TypeOK, PaTypeOK, Dirs
<1>4. Resources'
  BY <1>0 DEF StartStream, PaStartStream, PaStartOutcomes, Outcome, Result, mainVars, paVars, semVars,
    recVars, playVars, Resources, Threads, BeforeStart, AfterClosing, TypeOK, PaTypeOK, Dirs
<1> QED BY <1>1, <1>2, <1>3, <1>4 DEF IInv

\* PollStreams of audio_record.c preserves the inductive invariant.
LEMMA PollStreamsInv ==
  ASSUME IInv, PollStreams
  PROVE  IInv'
<1>0. TypeOK /\ Turns /\ Indices /\ Contents /\ Heard /\ Threads /\ Resources
  BY DEF IInv
<1>1. TypeOK'
  BY <1>0 DEF PollStreams, mainVars, paVars, semVars, recVars, playVars, TypeOK, PaTypeOK,
    Dirs
<1>2. Turns' /\ Indices' /\ Contents' /\ Heard'
  BY BlocksKept DEF PollStreams, mainVars, paVars, semVars, recVars, playVars
<1>3. Threads'
  BY <1>0 DEF PollStreams, mainVars, paVars, semVars, recVars, playVars, Threads,
    BeforeStart, AfterClosing, TypeOK, PaTypeOK, Dirs
<1>4. Resources'
  BY <1>0 DEF PollStreams, mainVars, paVars, semVars, recVars, playVars, Resources,
    Threads, BeforeStart, AfterClosing, TypeOK, PaTypeOK, Dirs
<1> QED BY <1>1, <1>2, <1>3, <1>4 DEF IInv

\* CloseStream(s) of audio_record.c preserves the inductive invariant.
LEMMA CloseStreamInv ==
  ASSUME NEW s \in Dirs, IInv, CloseStream(s)
  PROVE  IInv'
<1>0. TypeOK /\ Turns /\ Indices /\ Contents /\ Heard /\ Threads /\ Resources
  BY DEF IInv
<1>1. TypeOK'
  BY <1>0 DEF CloseStream, PaClose, IsStopped, PaCloseStopped, PaCloseAbort, PaCloseJoin,
    mainVars, paVars, semVars, recVars, playVars, TypeOK, PaTypeOK, Dirs
<1>2. Turns' /\ Indices' /\ Contents' /\ Heard'
  BY BlocksKept DEF CloseStream, PaClose, IsStopped, PaCloseStopped, PaCloseAbort,
    PaCloseJoin, mainVars, paVars, semVars, recVars, playVars
<1>3. Threads'
  BY <1>0 DEF CloseStream, PaClose, IsStopped, PaCloseStopped, PaCloseAbort, PaCloseJoin,
    mainVars, paVars, semVars, recVars, playVars, Threads, BeforeStart, AfterClosing,
    TypeOK, PaTypeOK, Dirs
<1>4. Resources'
  BY <1>0 DEF CloseStream, PaClose, IsStopped, PaCloseStopped, PaCloseAbort, PaCloseJoin,
    mainVars, paVars, semVars, recVars, playVars, Resources, Threads, BeforeStart,
    AfterClosing, TypeOK, PaTypeOK, Dirs
<1> QED BY <1>1, <1>2, <1>3, <1>4 DEF IInv

\* TerminateCloses(s) of audio_record.c preserves the inductive invariant.
LEMMA TerminateClosesInv ==
  ASSUME NEW s \in Dirs, IInv, TerminateCloses(s)
  PROVE  IInv'
<1>0. TypeOK /\ Turns /\ Indices /\ Contents /\ Heard /\ Threads /\ Resources
  BY DEF IInv
<1>1. TypeOK'
  BY <1>0 DEF TerminateCloses, PaCloseOpenStreams, PaClose, IsStopped, PaCloseStopped,
    PaCloseAbort, PaCloseJoin, mainVars, paVars, semVars, recVars, playVars, TypeOK,
    PaTypeOK, Dirs
<1>2. Turns' /\ Indices' /\ Contents' /\ Heard'
  BY BlocksKept DEF TerminateCloses, PaCloseOpenStreams, PaClose, IsStopped,
    PaCloseStopped, PaCloseAbort, PaCloseJoin, mainVars, paVars, semVars, recVars, playVars
<1>3. Threads'
  BY <1>0 DEF TerminateCloses, PaCloseOpenStreams, PaClose, IsStopped, PaCloseStopped,
    PaCloseAbort, PaCloseJoin, mainVars, paVars, semVars, recVars, playVars, Threads,
    BeforeStart, AfterClosing, TypeOK, PaTypeOK, Dirs
<1>4. Resources'
  BY <1>0 DEF TerminateCloses, PaCloseOpenStreams, PaClose, IsStopped, PaCloseStopped,
    PaCloseAbort, PaCloseJoin, mainVars, paVars, semVars, recVars, playVars, Resources,
    Threads, BeforeStart, AfterClosing, TypeOK, PaTypeOK, Dirs
<1> QED BY <1>1, <1>2, <1>3, <1>4 DEF IInv

\* TerminatePortAudio of audio_record.c preserves the inductive invariant.
LEMMA TerminatePortAudioInv ==
  ASSUME IInv, TerminatePortAudio
  PROVE  IInv'
<1>0. TypeOK /\ Turns /\ Indices /\ Contents /\ Heard /\ Threads /\ Resources
  BY DEF IInv
<1>1. TypeOK'
  BY <1>0 DEF TerminatePortAudio, PaTerminate, mainVars, paVars, semVars, recVars,
    playVars, TypeOK, PaTypeOK, Dirs
<1>2. Turns' /\ Indices' /\ Contents' /\ Heard'
  BY BlocksKept DEF TerminatePortAudio, PaTerminate, mainVars, paVars, semVars, recVars,
    playVars
<1>3. Threads'
  BY <1>0 DEF TerminatePortAudio, PaTerminate, mainVars, paVars, semVars, recVars,
    playVars, Threads, BeforeStart, AfterClosing, TypeOK, PaTypeOK, Dirs
<1>4. Resources'
  BY <1>0 DEF TerminatePortAudio, PaTerminate, mainVars, paVars, semVars, recVars,
    playVars, Resources, Threads, BeforeStart, AfterClosing, TypeOK, PaTypeOK, Dirs
<1> QED BY <1>1, <1>2, <1>3, <1>4 DEF IInv

\* FreeAndReturn of audio_record.c preserves the inductive invariant.
LEMMA FreeAndReturnInv ==
  ASSUME IInv, FreeAndReturn
  PROVE  IInv'
<1>0. TypeOK /\ Turns /\ Indices /\ Contents /\ Heard /\ Threads /\ Resources
  BY DEF IInv
<1>1. TypeOK'
  BY <1>0 DEF FreeAndReturn, mainVars, paVars, semVars, recVars, playVars, TypeOK,
    PaTypeOK, Dirs
<1>2. Turns' /\ Indices' /\ Contents' /\ Heard'
  BY BlocksKept DEF FreeAndReturn, mainVars, paVars, semVars, recVars, playVars
<1>3. Threads'
  BY <1>0 DEF FreeAndReturn, mainVars, paVars, semVars, recVars, playVars, Threads,
    BeforeStart, AfterClosing, TypeOK, PaTypeOK, Dirs
<1>4. Resources'
  BY <1>0 DEF FreeAndReturn, mainVars, paVars, semVars, recVars, playVars, Resources,
    Threads, BeforeStart, AfterClosing, TypeOK, PaTypeOK, Dirs
<1> QED BY <1>1, <1>2, <1>3, <1>4 DEF IInv

\* DeviceError(s) of audio_record.c preserves the inductive invariant.
LEMMA DeviceErrorInv ==
  ASSUME NEW s \in Dirs, IInv, DeviceError(s)
  PROVE  IInv'
<1>0. TypeOK /\ Turns /\ Indices /\ Contents /\ Heard /\ Threads /\ Resources
  BY DEF IInv
<1>1. TypeOK'
  BY <1>0 DEF DeviceError, PaDeviceError, PaOnExit, mainVars, paVars, semVars, recVars,
    playVars, TypeOK, PaTypeOK, Dirs
<1>2. Turns' /\ Indices' /\ Contents' /\ Heard'
  BY BlocksKept DEF DeviceError, PaDeviceError, PaOnExit, mainVars, paVars, semVars,
    recVars, playVars
<1>3. Threads'
  BY <1>0 DEF DeviceError, PaDeviceError, PaOnExit, mainVars, paVars, semVars, recVars,
    playVars, Threads, BeforeStart, AfterClosing, TypeOK, PaTypeOK, Dirs
<1>4. Resources'
  BY <1>0 DEF DeviceError, PaDeviceError, PaOnExit, mainVars, paVars, semVars, recVars,
    playVars, Resources, Threads, BeforeStart, AfterClosing, TypeOK, PaTypeOK, Dirs
<1> QED BY <1>1, <1>2, <1>3, <1>4 DEF IInv

\* CancelThread(s) of audio_record.c preserves the inductive invariant.
LEMMA CancelThreadInv ==
  ASSUME NEW s \in Dirs, IInv, CancelThread(s)
  PROVE  IInv'
<1>0. TypeOK /\ Turns /\ Indices /\ Contents /\ Heard /\ Threads /\ Resources
  BY DEF IInv
<1>1. TypeOK'
  BY <1>0 DEF CancelThread, PaCancelled, PaOnExit, mainVars, paVars, semVars, recVars,
    playVars, TypeOK, PaTypeOK, Dirs
<1>2. Turns' /\ Indices' /\ Contents' /\ Heard'
  BY BlocksKept DEF CancelThread, PaCancelled, PaOnExit, mainVars, paVars, semVars,
    recVars, playVars
<1>3. Threads'
  BY <1>0 DEF CancelThread, PaCancelled, PaOnExit, mainVars, paVars, semVars, recVars,
    playVars, Threads, BeforeStart, AfterClosing, TypeOK, PaTypeOK, Dirs
<1>4. Resources'
  BY <1>0 DEF CancelThread, PaCancelled, PaOnExit, mainVars, paVars, semVars, recVars,
    playVars, Resources, Threads, BeforeStart, AfterClosing, TypeOK, PaTypeOK, Dirs
<1> QED BY <1>1, <1>2, <1>3, <1>4 DEF IInv

\* RecordEnter of audio_record.c preserves the inductive invariant.
LEMMA RecordEnterInv ==
  ASSUME IInv, RecordEnter
  PROVE  IInv'
<1>0. TypeOK /\ Turns /\ Indices /\ Contents /\ Heard /\ Threads /\ Resources
  BY DEF IInv
<1>1. TypeOK'
  BY <1>0, FramesAssumption, MaxBlocksAssumption DEF RecordEnter, PaEnterCallback,
    mainVars, paVars, semVars, recVars, playVars, TypeOK, PaTypeOK, Turns, Dirs, Half
<1>2. Turns'
  BY <1>0 DEF RecordEnter, PaEnterCallback, mainVars, paVars, semVars, recVars, playVars,
    Turns, TypeOK, Put
<1>3. Indices'
  BY <1>0, FramesAssumption DEF RecordEnter, PaEnterCallback, mainVars, paVars, semVars,
    recVars, playVars, Turns, TypeOK, Indices, NextRecord, NextPlay, Flip, Half
<1>4. Contents'
  <2>1. Put' = Put /\ captured' >= 1
    BY <1>0 DEF RecordEnter, recVars, playVars, TypeOK, Put
  <2> QED
    BY <1>0, <2>1 DEF RecordEnter, semVars, recVars, playVars, Contents, NextPlay
<1>5. Heard'
  BY <1>0 DEF RecordEnter, PaEnterCallback, mainVars, paVars, semVars, recVars, playVars,
    Heard
<1>6. Threads'
  BY <1>0 DEF RecordEnter, PaEnterCallback, mainVars, paVars, semVars, recVars, playVars,
    Threads, BeforeStart, AfterClosing, TypeOK, PaTypeOK, Dirs
<1>7. Resources'
  BY <1>0 DEF RecordEnter, PaEnterCallback, mainVars, paVars, semVars, recVars, playVars,
    Resources, Threads, BeforeStart, AfterClosing, TypeOK, PaTypeOK, Dirs
<1> QED BY <1>1, <1>2, <1>3, <1>4, <1>5, <1>6, <1>7 DEF IInv

\* RecordWait of audio_record.c preserves the inductive invariant.
LEMMA RecordWaitInv ==
  ASSUME IInv, RecordWait
  PROVE  IInv'
<1>0. TypeOK /\ Turns /\ Indices /\ Contents /\ Heard /\ Threads /\ Resources
  BY DEF IInv
<1>1. TypeOK'
  BY <1>0, FramesAssumption, MaxBlocksAssumption DEF RecordWait, mainVars, paVars,
    semVars, recVars, playVars, TypeOK, PaTypeOK, Turns, Dirs, Half
<1>2. Turns'
  BY <1>0 DEF RecordWait, mainVars, paVars, semVars, recVars, playVars, Turns, TypeOK, Put
<1>3. Indices'
  BY <1>0, FramesAssumption DEF RecordWait, mainVars, paVars, semVars, recVars, playVars,
    Turns, TypeOK, Indices, NextRecord, NextPlay, Flip, Half
<1>4. Contents'
  BY <1>0, FramesAssumption DEF RecordWait, mainVars, paVars, semVars, recVars, playVars,
    Turns, TypeOK, Contents, Put, NextPlay
<1>5. Heard'
  BY <1>0 DEF RecordWait, mainVars, paVars, semVars, recVars, playVars, Heard
<1>6. Threads'
  BY <1>0 DEF RecordWait, mainVars, paVars, semVars, recVars, playVars, Threads,
    BeforeStart, AfterClosing, TypeOK, PaTypeOK, Dirs
<1>7. Resources'
  BY <1>0 DEF RecordWait, mainVars, paVars, semVars, recVars, playVars, Resources,
    Threads, BeforeStart, AfterClosing, TypeOK, PaTypeOK, Dirs
<1> QED BY <1>1, <1>2, <1>3, <1>4, <1>5, <1>6, <1>7 DEF IInv

\* RecordCopy of audio_record.c preserves the inductive invariant.
LEMMA RecordCopyInv ==
  ASSUME IInv, RecordCopy
  PROVE  IInv'
<1>0. TypeOK /\ Turns /\ Indices /\ Contents /\ Heard /\ Threads /\ Resources
  BY DEF IInv
<1>1. TypeOK'
  <2>1. captured \in Nat /\ ri \in Nat /\ ri' \in 0..Frames
    BY <1>0, FramesAssumption, MaxBlocksAssumption DEF RecordCopy, TypeOK
  <2>2. <<captured, 2 * ri>> \in Block /\ <<captured, 2 * ri + 1>> \in Block
    BY <2>1 DEF Block
  <2>3. mem' \in [Address -> Block]
    BY <1>0, <2>2 DEF RecordCopy, TypeOK
  <2>4. widx' \in Nat
    BY <1>0 DEF RecordCopy, TypeOK
  <2>5. UNCHANGED <<paVars, mainVars, semVars, samples, recordIndex, captured, rpc, wptr, playVars>>
    BY DEF RecordCopy
  <2> QED
    BY <1>0, <2>1, <2>3, <2>4, <2>5 DEF mainVars, paVars, semVars, playVars, TypeOK, PaTypeOK
<1>2. Turns'
  BY <1>0 DEF RecordCopy, mainVars, paVars, semVars, recVars, playVars, Turns, TypeOK, Put
<1>3. Indices'
  BY <1>0, FramesAssumption DEF RecordCopy, mainVars, paVars, semVars, recVars, playVars,
    Turns, TypeOK, Indices, NextRecord, NextPlay, Flip, Half
<1>4. Contents'
  <2>1. /\ wptr = recordIndex /\ widx = recordIndex + 2 * ri /\ recordIndex \in {0, Half}
        /\ 2 * ri \in SampleIdx /\ 2 * ri + 1 \in SampleIdx /\ ri \in Nat
        /\ rpc = "copy" /\ ppc # "copy" /\ writeDone # 1 /\ ri' = ri + 1
    BY <1>0, FramesAssumption DEF RecordCopy, Indices, TypeOK, SampleIdx, Turns
  <2>2. widx + 1 = recordIndex + (2 * ri + 1)
    BY <2>1, Remainders
  <2>3. mem' = [mem EXCEPT ![2 * recordIndex + 2 * ri] = <<captured, 2 * ri>>,
                           ![2 * recordIndex + (2 * ri + 1)] = <<captured, 2 * ri + 1>>]
    BY <2>1, <2>2, Cells DEF RecordCopy
  <2>4. \A k \in SampleIdx : 2 * recordIndex + k \in Address
    BY <2>1, Cells
  <2>5. UNCHANGED <<semVars, recordIndex, captured, rpc, playVars>>
    BY DEF RecordCopy
  <2>6. mem \in [Address -> Block]
    BY <1>0 DEF TypeOK
  <2>7. ASSUME NEW k \in 0..(2 * ri' - 1)
        PROVE  mem'[2 * recordIndex + k] = <<captured, k>>
    <3>1. k \in SampleIdx /\ k \in Int
      BY <2>1, FramesAssumption DEF SampleIdx
    <3>2. CASE k = 2 * ri + 1
      BY <2>1, <2>3, <2>4, <2>6, <3>2
    <3>3. CASE k = 2 * ri
      <4>1. 2 * recordIndex + 2 * ri # 2 * recordIndex + (2 * ri + 1)
        BY <2>1, Remainders
      <4> QED BY <2>1, <2>3, <2>4, <2>6, <3>3, <4>1
    <3>4. CASE k \in 0..(2 * ri - 1)
      <4>1. mem[2 * recordIndex + k] = <<captured, k>>
        BY <1>0, <2>1, <3>4 DEF Contents
      <4>2. /\ 2 * recordIndex + k # 2 * recordIndex + 2 * ri
            /\ 2 * recordIndex + k # 2 * recordIndex + (2 * ri + 1)
        BY <2>1, <3>4, Remainders
      <4> QED BY <2>3, <2>4, <2>6, <3>1, <4>1, <4>2
    <3> QED BY <2>1, <3>2, <3>3, <3>4
  <2> QED
    BY <1>0, <2>1, <2>5, <2>7 DEF Contents, Put, semVars, playVars
<1>5. Heard'
  BY <1>0 DEF RecordCopy, mainVars, paVars, semVars, recVars, playVars, Heard
<1>6. Threads'
  BY <1>0 DEF RecordCopy, mainVars, paVars, semVars, recVars, playVars, Threads,
    BeforeStart, AfterClosing, TypeOK, PaTypeOK, Dirs
<1>7. Resources'
  BY <1>0 DEF RecordCopy, mainVars, paVars, semVars, recVars, playVars, Resources,
    Threads, BeforeStart, AfterClosing, TypeOK, PaTypeOK, Dirs
<1> QED BY <1>1, <1>2, <1>3, <1>4, <1>5, <1>6, <1>7 DEF IInv

\* RecordPost of audio_record.c preserves the inductive invariant.
LEMMA RecordPostInv ==
  ASSUME IInv, RecordPost
  PROVE  IInv'
<1>0. TypeOK /\ Turns /\ Indices /\ Contents /\ Heard /\ Threads /\ Resources
  BY DEF IInv
<1>1. TypeOK'
  BY <1>0, FramesAssumption, MaxBlocksAssumption DEF RecordPost, mainVars, paVars,
    semVars, recVars, playVars, TypeOK, PaTypeOK, Turns, Dirs, Half
<1>2. Turns'
  BY <1>0 DEF RecordPost, mainVars, paVars, semVars, recVars, playVars, Turns, TypeOK, Put
<1>3. Indices'
  BY <1>0, FramesAssumption DEF RecordPost, mainVars, paVars, semVars, recVars, playVars,
    Turns, TypeOK, Indices, NextRecord, NextPlay, Flip, Half
<1>4. Contents'
  <2>1. /\ rpc = "copy" /\ ri = Frames /\ rpc' = "store" /\ ppc # "copy"
        /\ readDone = 0 /\ writeDone = 0 /\ writeDone' = 1
        /\ UNCHANGED <<readDone, mem, recordIndex, captured, playVars>>
    BY <1>0 DEF RecordPost, Turns
  <2>2. Put = Len(heard) /\ Put' = Len(heard') + 1 /\ Put' = captured /\ captured >= 1
    BY <1>0, <2>1, MaxBlocksAssumption DEF Contents, Put, TypeOK, playVars
  <2>3. NextPlay' = recordIndex
    BY <1>0, <2>1 DEF Indices, NextRecord, NextPlay, playVars
  <2>4. \A k \in SampleIdx : mem[2 * recordIndex + k] = <<captured, k>>
    BY <1>0, <2>1 DEF Contents, SampleIdx
  <2> QED BY <2>1, <2>2, <2>3, <2>4 DEF Contents, playVars
<1>5. Heard'
  BY <1>0 DEF RecordPost, mainVars, paVars, semVars, recVars, playVars, Heard
<1>6. Threads'
  BY <1>0 DEF RecordPost, mainVars, paVars, semVars, recVars, playVars, Threads,
    BeforeStart, AfterClosing, TypeOK, PaTypeOK, Dirs
<1>7. Resources'
  BY <1>0 DEF RecordPost, mainVars, paVars, semVars, recVars, playVars, Resources,
    Threads, BeforeStart, AfterClosing, TypeOK, PaTypeOK, Dirs
<1> QED BY <1>1, <1>2, <1>3, <1>4, <1>5, <1>6, <1>7 DEF IInv

\* RecordReturn of audio_record.c preserves the inductive invariant.
LEMMA RecordReturnInv ==
  ASSUME IInv, RecordReturn
  PROVE  IInv'
<1>0. TypeOK /\ Turns /\ Indices /\ Contents /\ Heard /\ Threads /\ Resources
  BY DEF IInv
<1>1. TypeOK'
  <2>1. recordIndex \in {0, Half} /\ widx = recordIndex + Half /\ recordIndex' = widx % BufferSize
    BY <1>0 DEF RecordReturn, Indices
  <2>2. recordIndex' \in 0..(BufferSize - 1)
    BY <2>1, Wraps, IndexIsAddress
  <2>3. rpc' = "idle" /\ UNCHANGED <<mainVars, semVars, samples, mem, captured, ri,
                                    widx, wptr, playVars>>
    BY DEF RecordReturn
  <2>4. PaTypeOK'
    BY <1>0 DEF RecordReturn, PaContinue, TypeOK, PaTypeOK, Dirs
  <2> QED
    BY <1>0, <2>2, <2>3, <2>4 DEF mainVars, semVars, playVars, TypeOK
<1>2. Turns'
  BY <1>0 DEF RecordReturn, PaContinue, mainVars, paVars, semVars, recVars, playVars,
    Turns, TypeOK, Put
<1>3. Indices'
  <2>1. recordIndex \in {0, Half} /\ widx = recordIndex + Half /\ recordIndex' = widx % BufferSize
    BY <1>0 DEF RecordReturn, Indices
  <2>2. recordIndex' = Flip(recordIndex) /\ Flip(recordIndex) \in {0, Half}
    BY <2>1, Wraps
  <2>3. rpc = "store" /\ rpc' = "idle" /\ UNCHANGED <<semVars, captured, ri, widx, wptr, playVars>>
    BY DEF RecordReturn
  <2>4. NextRecord' = NextRecord /\ NextPlay' = NextPlay
    BY <2>2, <2>3 DEF NextRecord, NextPlay, playVars
  <2> QED
    BY <1>0, <2>2, <2>3, <2>4 DEF Indices, semVars, playVars
<1>4. Contents'
  BY <1>0, FramesAssumption DEF RecordReturn, PaContinue, mainVars, paVars, semVars,
    recVars, playVars, Turns, TypeOK, Contents, Put, NextPlay
<1>5. Heard'
  BY <1>0 DEF RecordReturn, PaContinue, mainVars, paVars, semVars, recVars, playVars,
    Heard
<1>6. Threads'
  BY <1>0 DEF RecordReturn, PaContinue, mainVars, paVars, semVars, recVars, playVars,
    Threads, BeforeStart, AfterClosing, TypeOK, PaTypeOK, Dirs
<1>7. Resources'
  BY <1>0 DEF RecordReturn, PaContinue, mainVars, paVars, semVars, recVars, playVars,
    Resources, Threads, BeforeStart, AfterClosing, TypeOK, PaTypeOK, Dirs
<1> QED BY <1>1, <1>2, <1>3, <1>4, <1>5, <1>6, <1>7 DEF IInv

\* PlayEnter of audio_record.c preserves the inductive invariant.
LEMMA PlayEnterInv ==
  ASSUME IInv, PlayEnter
  PROVE  IInv'
<1>0. TypeOK /\ Turns /\ Indices /\ Contents /\ Heard /\ Threads /\ Resources
  BY DEF IInv
<1>1. TypeOK'
  BY <1>0, FramesAssumption, MaxBlocksAssumption DEF PlayEnter, PaEnterCallback, mainVars,
    paVars, semVars, recVars, playVars, TypeOK, PaTypeOK, Turns, Dirs, Half
<1>2. Turns'
  BY <1>0 DEF PlayEnter, PaEnterCallback, mainVars, paVars, semVars, recVars, playVars,
    Turns, TypeOK, Put
<1>3. Indices'
  BY <1>0, FramesAssumption DEF PlayEnter, PaEnterCallback, mainVars, paVars, semVars,
    recVars, playVars, Turns, TypeOK, Indices, NextRecord, NextPlay, Flip, Half
<1>4. Contents'
  BY <1>0, FramesAssumption DEF PlayEnter, PaEnterCallback, mainVars, paVars, semVars,
    recVars, playVars, Turns, TypeOK, Contents, Put, NextPlay
<1>5. Heard'
  BY <1>0 DEF PlayEnter, PaEnterCallback, mainVars, paVars, semVars, recVars, playVars,
    Heard
<1>6. Threads'
  BY <1>0 DEF PlayEnter, PaEnterCallback, mainVars, paVars, semVars, recVars, playVars,
    Threads, BeforeStart, AfterClosing, TypeOK, PaTypeOK, Dirs
<1>7. Resources'
  BY <1>0 DEF PlayEnter, PaEnterCallback, mainVars, paVars, semVars, recVars, playVars,
    Resources, Threads, BeforeStart, AfterClosing, TypeOK, PaTypeOK, Dirs
<1> QED BY <1>1, <1>2, <1>3, <1>4, <1>5, <1>6, <1>7 DEF IInv

\* PlayWait of audio_record.c preserves the inductive invariant.
LEMMA PlayWaitInv ==
  ASSUME IInv, PlayWait
  PROVE  IInv'
<1>0. TypeOK /\ Turns /\ Indices /\ Contents /\ Heard /\ Threads /\ Resources
  BY DEF IInv
<1>1. TypeOK'
  BY <1>0, FramesAssumption, MaxBlocksAssumption DEF PlayWait, mainVars, paVars, semVars,
    recVars, playVars, TypeOK, PaTypeOK, Turns, Dirs, Half
<1>2. Turns'
  BY <1>0 DEF PlayWait, mainVars, paVars, semVars, recVars, playVars, Turns, TypeOK, Put
<1>3. Indices'
  BY <1>0, FramesAssumption DEF PlayWait, mainVars, paVars, semVars, recVars, playVars,
    Turns, TypeOK, Indices, NextRecord, NextPlay, Flip, Half
<1>4. Contents'
  BY <1>0, FramesAssumption DEF PlayWait, mainVars, paVars, semVars, recVars, playVars,
    Turns, TypeOK, Contents, Put, NextPlay
<1>5. Heard'
  BY <1>0 DEF PlayWait, mainVars, paVars, semVars, recVars, playVars, Heard
<1>6. Threads'
  BY <1>0 DEF PlayWait, mainVars, paVars, semVars, recVars, playVars, Threads,
    BeforeStart, AfterClosing, TypeOK, PaTypeOK, Dirs
<1>7. Resources'
  BY <1>0 DEF PlayWait, mainVars, paVars, semVars, recVars, playVars, Resources, Threads,
    BeforeStart, AfterClosing, TypeOK, PaTypeOK, Dirs
<1> QED BY <1>1, <1>2, <1>3, <1>4, <1>5, <1>6, <1>7 DEF IInv

\* PlayCopy of audio_record.c preserves the inductive invariant.
LEMMA PlayCopyInv ==
  ASSUME IInv, PlayCopy
  PROVE  IInv'
<1>0. TypeOK /\ Turns /\ Indices /\ Contents /\ Heard /\ Threads /\ Resources
  BY DEF IInv
<1>1. TypeOK'
  <2>1. pi \in Nat /\ pi' \in 0..Frames
    BY <1>0, FramesAssumption DEF PlayCopy, TypeOK
  <2>2. /\ rptr = playIndex /\ ridx = playIndex + 2 * pi /\ playIndex \in {0, Half}
        /\ 2 * pi \in SampleIdx /\ 2 * pi + 1 \in SampleIdx
    BY <1>0, FramesAssumption DEF PlayCopy, Indices, TypeOK, SampleIdx
  <2>3. ridx + 1 = playIndex + (2 * pi + 1)
    BY <2>1, <2>2, Remainders
  <2>4. Cell(rptr, ridx) \in Address /\ Cell(rptr, ridx + 1) \in Address
    BY <2>2, <2>3, Cells
  <2>5. out' \in [SampleIdx -> Block]
    BY <1>0, <2>4 DEF PlayCopy, TypeOK
  <2>6. ridx' \in Nat
    BY <1>0 DEF PlayCopy, TypeOK
  <2>7. UNCHANGED <<paVars, mainVars, semVars, samples, mem, recVars, playIndex, ppc, rptr, heard>>
    BY DEF PlayCopy
  <2> QED
    BY <1>0, <2>1, <2>5, <2>6, <2>7 DEF mainVars, paVars, semVars, recVars, TypeOK, PaTypeOK
<1>2. Turns'
  BY <1>0 DEF PlayCopy, mainVars, paVars, semVars, recVars, playVars, Turns, TypeOK, Put
<1>3. Indices'
  BY <1>0, FramesAssumption DEF PlayCopy, mainVars, paVars, semVars, recVars, playVars,
    Turns, TypeOK, Indices, NextRecord, NextPlay, Flip, Half
<1>4. Contents'
  <2>1. /\ rptr = playIndex /\ ridx = playIndex + 2 * pi /\ playIndex \in {0, Half}
        /\ 2 * pi \in SampleIdx /\ 2 * pi + 1 \in SampleIdx /\ pi \in Nat
        /\ ppc = "copy" /\ rpc # "copy" /\ writeDone # 1 /\ pi' = pi + 1
    BY <1>0, FramesAssumption DEF PlayCopy, Indices, TypeOK, SampleIdx, Turns
  <2>2. ridx + 1 = playIndex + (2 * pi + 1)
    BY <2>1, Remainders
  <2>3. \A k \in SampleIdx : mem[2 * playIndex + k] = <<Put, k>>
    BY <1>0, <2>1 DEF Contents, NextPlay
  <2>4. out' = [out EXCEPT ![2 * pi] = <<Put, 2 * pi>>, ![2 * pi + 1] = <<Put, 2 * pi + 1>>]
    <3>1. /\ Cell(rptr, ridx) = 2 * playIndex + 2 * pi
          /\ Cell(rptr, ridx + 1) = 2 * playIndex + (2 * pi + 1)
      BY <2>1, <2>2, Cells
    <3>2. mem[Cell(rptr, ridx)] = <<Put, 2 * pi>> /\ mem[Cell(rptr, ridx + 1)] = <<Put, 2 * pi + 1>>
      BY <2>1, <2>3, <3>1
    <3> QED BY <3>2 DEF PlayCopy
  <2>5. UNCHANGED <<semVars, mem, recVars, playIndex, ppc, heard>>
    BY DEF PlayCopy
  <2>6. out \in [SampleIdx -> Block]
    BY <1>0 DEF TypeOK
  <2>7. ASSUME NEW k \in 0..(2 * pi' - 1)
        PROVE  out'[k] = <<Put, k>>
    <3>1. k \in SampleIdx /\ k \in Int
      BY <2>1, FramesAssumption DEF SampleIdx
    <3>2. CASE k = 2 * pi + 1
      BY <2>1, <2>4, <2>6, <3>2
    <3>3. CASE k = 2 * pi
      <4>1. 2 * pi # 2 * pi + 1
        BY <2>1
      <4> QED BY <2>1, <2>4, <2>6, <3>3, <4>1
    <3>4. CASE k \in 0..(2 * pi - 1)
      <4>1. out[k] = <<Put, k>>
        BY <1>0, <2>1, <3>4 DEF Contents
      <4>2. k # 2 * pi /\ k # 2 * pi + 1
        BY <2>1, <3>4
      <4> QED BY <2>4, <2>6, <3>1, <4>1, <4>2
    <3> QED BY <2>1, <3>2, <3>3, <3>4
  <2>8. Put' = Put /\ NextPlay' = NextPlay
    BY <2>5 DEF Put, NextPlay, recVars
  <2> QED
    BY <1>0, <2>1, <2>5, <2>7, <2>8 DEF Contents, semVars, recVars
<1>5. Heard'
  BY <1>0 DEF PlayCopy, mainVars, paVars, semVars, recVars, playVars, Heard
<1>6. Threads'
  BY <1>0 DEF PlayCopy, mainVars, paVars, semVars, recVars, playVars, Threads,
    BeforeStart, AfterClosing, TypeOK, PaTypeOK, Dirs
<1>7. Resources'
  BY <1>0 DEF PlayCopy, mainVars, paVars, semVars, recVars, playVars, Resources, Threads,
    BeforeStart, AfterClosing, TypeOK, PaTypeOK, Dirs
<1> QED BY <1>1, <1>2, <1>3, <1>4, <1>5, <1>6, <1>7 DEF IInv

\* PlayPost of audio_record.c preserves the inductive invariant.
LEMMA PlayPostInv ==
  ASSUME IInv, PlayPost
  PROVE  IInv'
<1>0. TypeOK /\ Turns /\ Indices /\ Contents /\ Heard /\ Threads /\ Resources
  BY DEF IInv
<1>1. TypeOK'
  BY <1>0, FramesAssumption, MaxBlocksAssumption DEF PlayPost, mainVars, paVars, semVars,
    recVars, playVars, TypeOK, PaTypeOK, Turns, Dirs, Half
<1>2. Turns'
  BY <1>0 DEF PlayPost, mainVars, paVars, semVars, recVars, playVars, Turns, TypeOK, Put
<1>3. Indices'
  BY <1>0, FramesAssumption DEF PlayPost, mainVars, paVars, semVars, recVars, playVars,
    Turns, TypeOK, Indices, NextRecord, NextPlay, Flip, Half
<1>4. Contents'
  BY <1>0, FramesAssumption DEF PlayPost, mainVars, paVars, semVars, recVars, playVars,
    Turns, TypeOK, Contents, Put, NextPlay
<1>5. Heard'
  <2>1. /\ ppc = "copy" /\ pi = Frames /\ heard' = Append(heard, out)
        /\ Put = Len(heard) + 1 /\ out \in [SampleIdx -> Block]
        /\ heard \in Seq([SampleIdx -> Block])
    BY <1>0 DEF PlayPost, Contents, TypeOK
  <2>2. out = [k \in SampleIdx |-> <<Put, k>>]
    BY <1>0, <2>1 DEF Contents, SampleIdx
  <2> QED BY <1>0, <2>1, <2>2 DEF Heard
<1>6. Threads'
  BY <1>0 DEF PlayPost, mainVars, paVars, semVars, recVars, playVars, Threads,
    BeforeStart, AfterClosing, TypeOK, PaTypeOK, Dirs
<1>7. Resources'
  BY <1>0 DEF PlayPost, mainVars, paVars, semVars, recVars, playVars, Resources, Threads,
    BeforeStart, AfterClosing, TypeOK, PaTypeOK, Dirs
<1> QED BY <1>1, <1>2, <1>3, <1>4, <1>5, <1>6, <1>7 DEF IInv

\* PlayReturn of audio_record.c preserves the inductive invariant.
LEMMA PlayReturnInv ==
  ASSUME IInv, PlayReturn
  PROVE  IInv'
<1>0. TypeOK /\ Turns /\ Indices /\ Contents /\ Heard /\ Threads /\ Resources
  BY DEF IInv
<1>1. TypeOK'
  <2>1. playIndex \in {0, Half} /\ ridx = playIndex + Half /\ playIndex' = ridx % BufferSize
    BY <1>0 DEF PlayReturn, Indices
  <2>2. playIndex' \in 0..(BufferSize - 1)
    BY <2>1, Wraps, IndexIsAddress
  <2>3. ppc' = "idle" /\ UNCHANGED <<mainVars, semVars, samples, mem, recVars, pi,
                                    ridx, rptr, out, heard>>
    BY DEF PlayReturn
  <2>4. PaTypeOK'
    BY <1>0 DEF PlayReturn, PaContinue, TypeOK, PaTypeOK, Dirs
  <2> QED
    BY <1>0, <2>2, <2>3, <2>4 DEF mainVars, semVars, recVars, TypeOK
<1>2. Turns'
  BY <1>0 DEF PlayReturn, PaContinue, mainVars, paVars, semVars, recVars, playVars, Turns,
    TypeOK, Put
<1>3. Indices'
  <2>1. playIndex \in {0, Half} /\ ridx = playIndex + Half /\ playIndex' = ridx % BufferSize
    BY <1>0 DEF PlayReturn, Indices
  <2>2. playIndex' = Flip(playIndex) /\ Flip(playIndex) \in {0, Half}
    BY <2>1, Wraps
  <2>3. ppc = "store" /\ ppc' = "idle" /\ UNCHANGED <<semVars, recVars, pi, ridx, rptr, out, heard>>
    BY DEF PlayReturn
  <2>4. NextRecord' = NextRecord /\ NextPlay' = NextPlay
    BY <2>2, <2>3 DEF NextRecord, NextPlay, recVars
  <2> QED
    BY <1>0, <2>2, <2>3, <2>4 DEF Indices, semVars, recVars
<1>4. Contents'
  <2>1. playIndex \in {0, Half} /\ ridx = playIndex + Half /\ playIndex' = ridx % BufferSize
    BY <1>0 DEF PlayReturn, Indices
  <2>2. playIndex' = Flip(playIndex)
    BY <2>1, Wraps
  <2>3. ppc = "store" /\ ppc' = "idle" /\ UNCHANGED <<semVars, mem, recVars, heard>>
    BY DEF PlayReturn
  <2>4. NextPlay' = NextPlay /\ Put' = Put
    BY <2>2, <2>3 DEF NextPlay, Put, recVars
  <2> QED
    BY <1>0, <2>3, <2>4 DEF Contents, semVars, recVars
<1>5. Heard'
  BY <1>0 DEF PlayReturn, PaContinue, mainVars, paVars, semVars, recVars, playVars, Heard
<1>6. Threads'
  BY <1>0 DEF PlayReturn, PaContinue, mainVars, paVars, semVars, recVars, playVars,
    Threads, BeforeStart, AfterClosing, TypeOK, PaTypeOK, Dirs
<1>7. Resources'
  BY <1>0 DEF PlayReturn, PaContinue, mainVars, paVars, semVars, recVars, playVars,
    Resources, Threads, BeforeStart, AfterClosing, TypeOK, PaTypeOK, Dirs
<1> QED BY <1>1, <1>2, <1>3, <1>4, <1>5, <1>6, <1>7 DEF IInv

\* The initial states satisfy the inductive invariant.
LEMMA InitInv == Init => IInv
<1> SUFFICES ASSUME Init PROVE IInv
  OBVIOUS
<1>1. TypeOK
  <2>1. heard \in Seq([SampleIdx -> Block])
    BY DEF Init
  <2>2. mem \in [Address -> Block] /\ out \in [SampleIdx -> Block]
    BY DEF Init, Block
  <2>3. 0 \in 0..(BufferSize - 1)
    BY Remainders
  <2> QED
    BY <2>1, <2>2, <2>3, FramesAssumption, MaxBlocksAssumption
    DEF Init, PaStart, TypeOK, PaTypeOK
<1>2. Turns /\ Indices /\ Contents /\ Heard
  BY DEF Init, Turns, Indices, Contents, Heard, Put
<1>3. Threads
  BY DEF Init, PaStart, Threads, BeforeStart, AfterClosing, Dirs
<1>4. Resources
  BY DEF Init, PaStart, Resources, Dirs
<1> QED BY <1>1, <1>2, <1>3, <1>4 DEF IInv

\* A stuttering step changes nothing the invariant speaks of.
LEMMA StutterInv ==
  ASSUME IInv, UNCHANGED vars
  PROVE  IInv'
<1>1. TypeOK'
  BY DEF IInv, TypeOK, PaTypeOK, vars, paVars, mainVars, semVars, recVars, playVars
<1>2. Turns' /\ Indices' /\ Contents' /\ Heard'
  BY BlocksKept DEF vars, mainVars
<1>3. Threads'
  BY DEF IInv, Threads, BeforeStart, AfterClosing, vars, paVars, mainVars, semVars, recVars,
         playVars
<1>4. Resources'
  BY DEF IInv, Resources, vars, paVars, mainVars
<1> QED BY <1>1, <1>2, <1>3, <1>4 DEF IInv

\* Every step of the program preserves the inductive invariant.
LEMMA NextInv == IInv /\ [Next]_vars => IInv'
<1> SUFFICES ASSUME IInv, [Next]_vars PROVE IInv'
  OBVIOUS
<1>1. CASE Main
  BY <1>1, InitSemaphoresInv, AllocateSamplesInv, InitializePortAudioInv, PollStreamsInv,
    TerminatePortAudioInv, FreeAndReturnInv, OpenStreamInv, StartStreamInv, CloseStreamInv,
    TerminateClosesInv DEF Main
<1>2. CASE Record
  BY <1>2, RecordEnterInv, RecordWaitInv, RecordCopyInv, RecordPostInv, RecordReturnInv
  DEF Record
<1>3. CASE Play
  BY <1>3, PlayEnterInv, PlayWaitInv, PlayCopyInv, PlayPostInv, PlayReturnInv DEF Play
<1>4. CASE \E s \in Dirs : DeviceError(s) \/ CancelThread(s)
  BY <1>4, DeviceErrorInv, CancelThreadInv
<1>5. CASE UNCHANGED vars
  BY <1>5, StutterInv
<1> QED BY <1>1, <1>2, <1>3, <1>4, <1>5 DEF Next

\* The inductive invariant holds throughout every behaviour.
THEOREM Invariance == Spec => []IInv
BY InitInv, NextInv, PTL DEF Spec

\* The types of the variables, for every instance.
THEOREM Typing == Spec => []TypeOK
<1>1. IInv => TypeOK
  BY DEF IInv
<1> QED BY <1>1, Invariance, PTL

\* No callback is ever left waiting for a turn that nobody has.
THEOREM NoMutualWait == Spec => []WaitsForTheOther
<1>1. IInv => WaitsForTheOther
  BY DEF IInv, TypeOK, Turns, Threads, BeforeStart, Dirs, Put, WaitsForTheOther
<1> QED BY <1>1, Invariance, PTL

\* No callback leaves the allocation of main, which is twice the ring, or uses it freed.
THEOREM Bounds == Spec => []AddressesInBounds
<1>1. IInv => AddressesInBounds
  <2> SUFFICES ASSUME IInv PROVE AddressesInBounds
    OBVIOUS
  <2>1. ASSUME rpc = "copy", ri < Frames
        PROVE  samples = "live" /\ Cell(wptr, widx) \in Address /\ Cell(wptr, widx + 1) \in Address
    <3>1. wptr = recordIndex /\ widx = recordIndex + 2 * ri /\ recordIndex \in {0, Half}
      BY <2>1 DEF IInv, Indices
    <3>2. 2 * ri \in SampleIdx /\ 2 * ri + 1 \in SampleIdx /\ ri \in Nat
      BY <2>1, FramesAssumption DEF IInv, TypeOK, SampleIdx
    <3>3. widx + 1 = recordIndex + (2 * ri + 1)
      BY <3>1, <3>2, Remainders
    <3>4. thread["in"] = "cb" /\ pc \notin {"returned", "crashed"}
      BY <2>1 DEF IInv, Threads, AfterClosing, Dirs
    <3>5. samples = "live"
      BY <3>4 DEF IInv, Resources, Dirs
    <3> QED BY <3>1, <3>2, <3>3, <3>5, Cells
  <2>2. ASSUME ppc = "copy", pi < Frames
        PROVE  samples = "live" /\ Cell(rptr, ridx) \in Address /\ Cell(rptr, ridx + 1) \in Address
    <3>1. rptr = playIndex /\ ridx = playIndex + 2 * pi /\ playIndex \in {0, Half}
      BY <2>2 DEF IInv, Indices
    <3>2. 2 * pi \in SampleIdx /\ 2 * pi + 1 \in SampleIdx /\ pi \in Nat
      BY <2>2, FramesAssumption DEF IInv, TypeOK, SampleIdx
    <3>3. ridx + 1 = playIndex + (2 * pi + 1)
      BY <3>1, <3>2, Remainders
    <3>4. thread["out"] = "cb" /\ pc \notin {"returned", "crashed"}
      BY <2>2 DEF IInv, Threads, AfterClosing, Dirs
    <3>5. samples = "live"
      BY <3>4 DEF IInv, Resources, Dirs
    <3> QED BY <3>1, <3>2, <3>3, <3>5, Cells
  <2> QED BY <2>1, <2>2 DEF AddressesInBounds
<1> QED BY <1>1, Invariance, PTL

\* main returns with every stream closed, no thread left, and 1 when a call failed.
THEOREM ReturnIsClean == Spec => []CleanReturn
<1>1. IInv => CleanReturn
  BY DEF IInv, Threads, Resources, AfterClosing, CleanReturn, TypeOK, PaTypeOK, Dirs
<1> QED BY <1>1, Invariance, PTL

FrameIdx == 0..(Frames - 1)

\* The blocks heard, as the abstract specification sees them
HeardBlocks == [n \in 1..Len(heard) |-> [f \in FrameIdx |-> BlockOf(heard[n], f)]]

\* Every block heard is one block in the abstract view: nothing is torn or out of place.
LEMMA BlocksAreWhole ==
  IInv => HeardBlocks = [n \in 1..Len(heard) |-> [f \in FrameIdx |-> n]]
<1> SUFFICES ASSUME IInv PROVE HeardBlocks = [n \in 1..Len(heard) |-> [f \in FrameIdx |-> n]]
  OBVIOUS
<1>1. ASSUME NEW n \in 1..Len(heard), NEW f \in FrameIdx
      PROVE  BlockOf(heard[n], f) = n
  <2>1. 2 * f \in SampleIdx /\ 2 * f + 1 \in SampleIdx
    BY FramesAssumption DEF FrameIdx, SampleIdx
  <2>2. heard[n][2 * f] = <<n, 2 * f>> /\ heard[n][2 * f + 1] = <<n, 2 * f + 1>>
    BY <2>1 DEF IInv, Heard
  <2> QED BY <2>2 DEF BlockOf
<1> QED BY <1>1 DEF HeardBlocks

\* A step of the callbacks is a step of the hand-over, or does not show in it.
LEMMA StepRefines == IInv /\ [Next]_vars => [Handoff!Next]_(Handoff!vars)
<1> SUFFICES ASSUME IInv, [Next]_vars PROVE [Handoff!Next]_(Handoff!vars)
  OBVIOUS
<1> USE DEF Handoff!vars, Handoff!FrameIdx
<1>1. CASE RecordPost
  <2>1. captured - 1 = Len(heard) /\ rpc = "copy" /\ captured \in Nat
    BY <1>1, MaxBlocksAssumption DEF IInv, RecordPost, Contents, Put, TypeOK
  <2>2. rpc' = "store" /\ captured' = captured /\ heard' = heard
    BY <1>1 DEF RecordPost, playVars
  <2>3. Len(heard) \in Nat
    BY DEF IInv, TypeOK
  <2>4. Len(HeardBlocks) = Len(heard)
    BY <2>3 DEF HeardBlocks
  <2> QED BY <2>1, <2>2, <2>4 DEF HeardBlocks, FrameIdx, Handoff!Next, Handoff!Put, Put
<1>2. CASE PlayPost
  <2> DEFINE L == Len(heard)
  <2>1. Put = L + 1 /\ L \in Nat /\ heard \in Seq([SampleIdx -> Block])
        /\ out \in [SampleIdx -> Block]
    BY <1>2 DEF IInv, PlayPost, Contents, TypeOK
  <2>2. rpc' = rpc /\ captured' = captured /\ heard' = Append(heard, out)
    BY <1>2 DEF PlayPost, recVars
  <2>3. Len(heard') = L + 1
    BY <2>1, <2>2
  <2>4. IInv'
    BY NextInv
  <2>5. HeardBlocks = [n \in 1..L |-> [f \in FrameIdx |-> n]]
    BY BlocksAreWhole
  <2>6. HeardBlocks' = [n \in 1..(L + 1) |-> [f \in FrameIdx |-> n]]
    <3>1. (HeardBlocks = [n \in 1..Len(heard) |-> [f \in FrameIdx |-> n]])'
      BY <2>4, BlocksAreWhole, PTL
    <3> QED BY <2>3, <3>1 DEF FrameIdx
  <2> HIDE DEF L
  <2>7. HeardBlocks' = Append(HeardBlocks, [f \in FrameIdx |-> L + 1])
    BY <2>1, <2>5, <2>6
  <2>8. Len(HeardBlocks) = L
    BY <2>1, <2>5
  <2>9. [f \in FrameIdx |-> L + 1] \in [FrameIdx -> {Put} \cup {}]
    BY <2>1
  <2> QED
    BY <2>1, <2>2, <2>7, <2>8, <2>9 DEF HeardBlocks, Put, FrameIdx, Handoff!Next, Handoff!Hear
<1>3. CASE UNCHANGED <<Put, heard>>
  BY <1>3 DEF Put
<1>4. CASE Main
  <2>1. UNCHANGED <<recVars, playVars>>
    BY <1>4 DEF Main, InitSemaphores, AllocateSamples, InitializePortAudio, OpenStream,
      StartStream, PollStreams, CloseStream, TerminateCloses, TerminatePortAudio, FreeAndReturn
  <2> QED BY <2>1, <1>3 DEF Put, recVars, playVars
<1>5. CASE RecordEnter \/ RecordWait \/ RecordCopy \/ RecordReturn
  <2>1. Put' = Put
    BY <1>5, MaxBlocksAssumption
    DEF IInv, TypeOK, Put, RecordEnter, RecordWait, RecordCopy, RecordReturn
  <2>2. heard' = heard
    BY <1>5 DEF RecordEnter, RecordWait, RecordCopy, RecordReturn, playVars
  <2> QED BY <2>1, <2>2, <1>3
<1>6. CASE PlayEnter \/ PlayWait \/ PlayCopy \/ PlayReturn
  <2>1. UNCHANGED <<recVars, heard>>
    BY <1>6 DEF PlayEnter, PlayWait, PlayCopy, PlayReturn
  <2> QED BY <2>1, <1>3 DEF Put, recVars
<1>7. CASE \E s \in Dirs : DeviceError(s) \/ CancelThread(s)
  <2>1. UNCHANGED <<recVars, playVars>>
    BY <1>7 DEF DeviceError, CancelThread
  <2> QED BY <2>1, <1>3 DEF Put, recVars, playVars
<1>8. CASE UNCHANGED vars
  BY <1>3, <1>8 DEF Put, vars, recVars, playVars
<1> QED
  BY <1>1, <1>2, <1>4, <1>5, <1>6, <1>7, <1>8 DEF Next, Record, Play

\* The program implements the abstract hand-over of blocks, with no sample damaged.
THEOREM Refinement == Spec => RefinesHandoff
<1>1. Init => Handoff!Init
  <2> SUFFICES ASSUME Init PROVE Handoff!Init
    OBVIOUS
  <2>1. Put = 0 /\ heard = <<>>
    BY DEF Init, Put
  <2>2. HeardBlocks = <<>>
    BY <2>1 DEF HeardBlocks
  <2> QED BY <2>1, <2>2 DEF Put, HeardBlocks, FrameIdx, Handoff!Init
<1> QED BY <1>1, StepRefines, Invariance, PTL DEF Spec, RefinesHandoff, Handoff!Spec

=============================================================================
