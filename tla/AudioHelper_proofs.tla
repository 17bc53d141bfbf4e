------------------------- MODULE AudioHelper_proofs -------------------------
(***************************************************************************)
(* Proofs about AudioHelper, for every number of frames per block, every   *)
(* number of blocks and every set of faults: main never holds the GIL      *)
(* while a callback could wait for it, and the callbacks implement the     *)
(* hand-over, also when the print in playCallback raises and the turn at   *)
(* the array is lost with it.                                              *)
(***************************************************************************)
EXTENDS AudioHelper, Integers, TLAPS

PlayHasTurn == ppc \in {"gil", "print", "copy"}

\* One turn at the array, held by a semaphore or by a callback, or lost with the GIL
Turns ==
  /\ ~(rpc = "copy" /\ PlayHasTurn)
  /\ rpc = "copy" \/ PlayHasTurn => readDone = 0 /\ writeDone = 0
  /\ ~(readDone = 1 /\ writeDone = 1)
  /\ ppc = "print" => gil = "play"
  /\ gil = "play" /\ ppc # "print" =>
       readDone = 0 /\ writeDone = 0 /\ rpc # "copy" /\ ~PlayHasTurn
  /\ (pc \notin {"save", "sem"} /\ "sem" \notin Faults) \/ Put > 0 =>
       \/ readDone = 1 \/ writeDone = 1 \/ rpc = "copy" \/ PlayHasTurn
       \/ gil = "play"

\* What the array and the output buffer hold, by the position of the turn
Contents ==
  /\ rpc # "idle" => captured >= 1
  /\ readDone = 1 \/ rpc = "copy" => Put = Len(heard)
  /\ writeDone = 1 \/ PlayHasTurn =>
       Put = Len(heard) + 1 /\ \A f \in FrameIdx : buf[f] = Put
  /\ rpc = "copy" => \A f \in FrameIdx : f < ri => buf[f] = captured
  /\ ppc = "copy" => \A f \in FrameIdx : f < pi => out[f] = Put

\* Every block heard is the one captured
HeardBlocks == \A n \in 1..Len(heard) : heard[n] = [f \in FrameIdx |-> n]

Before == {"save", "sem", "zeros", "painit", "open_in", "open_out", "start_in"}

After == {"terminate", "return", "returned", "crashed"}

\* The callback threads against their streams and against main
Threads ==
  /\ rpc # "idle" <=> thread["in"] = "cb"
  /\ ppc # "idle" <=> thread["out"] = "cb"
  /\ \A s \in Dirs :
       /\ thread[s] \in {"poll", "cb"} => ptr[s] = "open" /\ active[s] = 1
       /\ thread[s] = "ended" /\ ptr[s] = "open" => finished[s] = 1
       /\ thread[s] = "none" => active[s] = 0 /\ finished[s] = 0
       /\ thread[s] # "none" => samples = "array"
       /\ pc \in {"save", "sem", "zeros", "return", "returned"} => ptr[s] # "open"
       /\ pc \in Before => thread[s] = "none"
  /\ pc = "start_out" => thread["out"] = "none"
  /\ pc \in {"open_out", "start_in", "start_out", "poll_in", "poll_out", "restore", "close_in"} =>
       ptr["in"] = "open"
  /\ pc \in {"start_in", "start_out", "poll_in", "poll_out", "restore", "close_in", "close_out"} =>
       ptr["out"] = "open"
  /\ pc = "close_out" => ptr["in"] # "open"
  /\ pc \in {"painit", "open_in", "open_out", "start_in", "start_out"} => samples = "array"
  /\ pc \in {"save", "sem"} =>
       readDone = 0 /\ writeDone = 0 /\ captured = 0 /\ heard = <<>>

\* Who has the GIL, and what main has seen of the threads when it takes it back
Gil ==
  /\ pc \in {"save", "close_in", "close_out"} => gil = "main"
  /\ pc \in {"sem", "zeros", "painit", "open_in", "open_out", "start_in", "start_out",
             "poll_in", "poll_out", "restore"} => gil # "main"
  /\ gil = "play" => thread["out"] # "none"
  /\ pc \in {"start_out", "poll_in"} => thread["in"] # "none"
  /\ pc \in {"poll_in", "poll_out"} => thread["out"] # "none"
  /\ pc \in {"poll_out", "restore"} => thread["in"] = "ended"
  /\ pc = "restore" => thread["out"] = "ended"
  /\ gil = "main" /\ pc # "save" => \A s \in Dirs : thread[s] = "ended"
  /\ pc = "close_out" => cancelled["in"] = 1
  /\ gil = "main" /\ pc \in After => \A s \in Dirs : cancelled[s] = 1
  /\ gil # "main" /\ pc \in After => thread["out"] = "none"

IInv == TypeOK /\ Turns /\ Contents /\ HeardBlocks /\ Threads /\ Gil

\* A step that leaves the semaphores, the callbacks and the array alone keeps the facts
\* about the blocks.
LEMMA BlocksKept ==
  ASSUME IInv, UNCHANGED <<semVars, buf, recVars, playVars>>
  PROVE  Contents' /\ HeardBlocks'
<1>1. Contents'
  BY DEF IInv, Contents, Put, PlayHasTurn, semVars, recVars, playVars
<1>2. HeardBlocks'
  BY DEF IInv, HeardBlocks, playVars
<1> QED BY <1>1, <1>2

\* SaveThread of audio_helper.pyx preserves the inductive invariant.
LEMMA SaveThreadInv ==
  ASSUME IInv, SaveThread
  PROVE  IInv'
<1>0. TypeOK /\ Turns /\ Contents /\ HeardBlocks /\ Threads /\ Gil
  BY DEF IInv
<1>1. TypeOK'
  BY <1>0 DEF SaveThread, mainVars, paVars, semVars, recVars, playVars, TypeOK, PaTypeOK,
    Turns, PlayHasTurn, FrameIdx, Dirs
<1>2. Turns'
  BY <1>0 DEF SaveThread, mainVars, paVars, semVars, recVars, playVars, Turns,
    PlayHasTurn, TypeOK, Gil, Threads, Before, After, PaTypeOK, Running, Dirs, Put
<1>3. Contents' /\ HeardBlocks'
  BY BlocksKept DEF SaveThread, mainVars, paVars, semVars, recVars, playVars
<1>4. Threads'
  BY <1>0 DEF SaveThread, mainVars, paVars, semVars, recVars, playVars, Threads, Before,
    After, TypeOK, PaTypeOK, Running, Dirs
<1>5. Gil'
  BY <1>0 DEF SaveThread, mainVars, paVars, semVars, recVars, playVars, Gil, Turns,
    PlayHasTurn, Threads, Before, After, TypeOK, PaTypeOK, Running, Dirs
<1> QED BY <1>1, <1>2, <1>3, <1>4, <1>5 DEF IInv

\* InitSemaphores of audio_helper.pyx preserves the inductive invariant.
LEMMA InitSemaphoresInv ==
  ASSUME IInv, InitSemaphores
  PROVE  IInv'
<1>0. TypeOK /\ Turns /\ Contents /\ HeardBlocks /\ Threads /\ Gil
  BY DEF IInv
<1>1. TypeOK'
  BY <1>0, FramesAssumption, MaxBlocksAssumption DEF InitSemaphores, mainVars, paVars,
    semVars, recVars, playVars, Threads, Before, Dirs, TypeOK, PaTypeOK, Turns, PlayHasTurn,
    FrameIdx
<1>2. Turns'
  BY <1>0 DEF InitSemaphores, mainVars, paVars, semVars, recVars, playVars, Threads,
    Before, Dirs, Turns, PlayHasTurn, TypeOK, Gil, After, PaTypeOK, Running, Put
<1>3. Contents' /\ HeardBlocks'
  <2>1. Contents'
    BY <1>0, FramesAssumption, MaxBlocksAssumption DEF InitSemaphores, mainVars, paVars,
      semVars, recVars, playVars, Threads, Before, Dirs, Turns, PlayHasTurn, TypeOK,
      Contents, Put, FrameIdx
  <2>2. HeardBlocks'
    BY <1>0 DEF InitSemaphores, mainVars, paVars, semVars, recVars, playVars, Threads,
      Before, Dirs, HeardBlocks
  <2> QED BY <2>1, <2>2
<1>4. Threads'
  BY <1>0 DEF InitSemaphores, mainVars, paVars, semVars, recVars, playVars, Threads,
    Before, Dirs, After, TypeOK, PaTypeOK, Running
<1>5. Gil'
  BY <1>0 DEF InitSemaphores, mainVars, paVars, semVars, recVars, playVars, Threads,
    Before, Dirs, Gil, Turns, PlayHasTurn, After, TypeOK, PaTypeOK, Running
<1> QED BY <1>1, <1>2, <1>3, <1>4, <1>5 DEF IInv

\* AllocateSamples of audio_helper.pyx preserves the inductive invariant.
LEMMA AllocateSamplesInv ==
  ASSUME IInv, AllocateSamples
  PROVE  IInv'
<1>0. TypeOK /\ Turns /\ Contents /\ HeardBlocks /\ Threads /\ Gil
  BY DEF IInv
<1>1. TypeOK'
  BY <1>0 DEF AllocateSamples, AfterPython, Outcome, mainVars, paVars, semVars, recVars, playVars,
    TypeOK, PaTypeOK, Turns, PlayHasTurn, FrameIdx, Dirs
<1>2. Turns'
  BY <1>0 DEF AllocateSamples, AfterPython, Outcome, mainVars, paVars, semVars, recVars, playVars,
    Turns, PlayHasTurn, TypeOK, Put
<1>3. Contents' /\ HeardBlocks'
  BY BlocksKept DEF AllocateSamples, AfterPython, Outcome, mainVars, paVars, semVars, recVars,
    playVars
<1>4. Threads'
  BY <1>0 DEF AllocateSamples, AfterPython, Outcome, mainVars, paVars, semVars, recVars, playVars,
    Threads, Before, After, TypeOK, PaTypeOK, Running, Dirs
<1>5. Gil'
  BY <1>0 DEF AllocateSamples, AfterPython, Outcome, mainVars, paVars, semVars, recVars, playVars,
    Gil, Turns, PlayHasTurn, Threads, Before, After, TypeOK, PaTypeOK, Running, Dirs
<1> QED BY <1>1, <1>2, <1>3, <1>4, <1>5 DEF IInv

\* SetUpPortAudio of audio_helper.pyx preserves the inductive invariant.
LEMMA SetUpPortAudioInv ==
  ASSUME IInv, SetUpPortAudio
  PROVE  IInv'
<1>0. TypeOK /\ Turns /\ Contents /\ HeardBlocks /\ Threads /\ Gil
  BY DEF IInv
<1>1. TypeOK'
  BY <1>0 DEF SetUpPortAudio, PaInitialize, PaOpenStream, PaStartStream, Setup, OpenIn,
    OpenOut, StartIn, StartOut, Outcome, mainVars, paVars, semVars, recVars, playVars,
    TypeOK, PaTypeOK, Turns, PlayHasTurn, FrameIdx, Dirs
<1>2. Turns'
  BY <1>0 DEF SetUpPortAudio, PaInitialize, PaOpenStream, PaStartStream, Setup, OpenIn,
    OpenOut, StartIn, StartOut, Outcome, mainVars, paVars, semVars, recVars, playVars,
    Turns, PlayHasTurn, TypeOK, Put
<1>3. Contents' /\ HeardBlocks'
  BY BlocksKept DEF SetUpPortAudio, PaInitialize, PaOpenStream, PaStartStream, Setup,
    OpenIn, OpenOut, StartIn, StartOut, Outcome, mainVars, paVars, semVars, recVars,
    playVars
<1>4. Threads'
  BY <1>0 DEF SetUpPortAudio, PaInitialize, PaOpenStream, PaStartStream, Setup, OpenIn,
    OpenOut, StartIn, StartOut, Outcome, mainVars, paVars, semVars, recVars, playVars,
    Threads, Before, After, TypeOK, PaTypeOK, Running, Dirs
<1>5. Gil'
  <2> USE DEF Setup, Outcome, mainVars, semVars, recVars, playVars, Gil, Threads, Before,
              After, TypeOK, PaTypeOK, Dirs
  <2>1. CASE Setup("painit", "painit", "open_in", PaInitialize)
    BY <1>0, <2>1 DEF PaInitialize
  <2>2. CASE Setup("open_in", "open", "open_out", OpenIn)
    BY <1>0, <2>2 DEF OpenIn, PaOpenStream
  <2>3. CASE Setup("open_out", "open", "start_in", OpenOut)
    BY <1>0, <2>3 DEF OpenOut, PaOpenStream
  <2>4. CASE Setup("start_in", "start", "start_out", StartIn)
    BY <1>0, <2>4 DEF StartIn, PaStartStream
  <2>5. CASE Setup("start_out", "start", "poll_in", StartOut)
    BY <1>0, <2>5 DEF StartOut, PaStartStream
  <2> QED BY <2>1, <2>2, <2>3, <2>4, <2>5 DEF SetUpPortAudio
<1> QED BY <1>1, <1>2, <1>3, <1>4, <1>5 DEF IInv

\* PollStreams of audio_helper.pyx preserves the inductive invariant.
LEMMA PollStreamsInv ==
  ASSUME IInv, PollStreams
  PROVE  IInv'
<1>0. TypeOK /\ Turns /\ Contents /\ HeardBlocks /\ Threads /\ Gil
  BY DEF IInv
<1>1. TypeOK'
  BY <1>0 DEF PollStreams, mainVars, paVars, semVars, recVars, playVars, TypeOK, PaTypeOK,
    Turns, PlayHasTurn, FrameIdx, Dirs
<1>2. Turns'
  BY <1>0 DEF PollStreams, mainVars, paVars, semVars, recVars, playVars, Turns,
    PlayHasTurn, TypeOK, Put
<1>3. Contents' /\ HeardBlocks'
  BY BlocksKept DEF PollStreams, mainVars, paVars, semVars, recVars, playVars
<1>4. Threads'
  BY <1>0 DEF PollStreams, mainVars, paVars, semVars, recVars, playVars, Threads, Before,
    After, TypeOK, PaTypeOK, Running, Dirs
<1>5. Gil'
  BY <1>0 DEF PollStreams, mainVars, paVars, semVars, recVars, playVars, Gil, Turns,
    PlayHasTurn, Threads, Before, After, TypeOK, PaTypeOK, Running, Dirs
<1> QED BY <1>1, <1>2, <1>3, <1>4, <1>5 DEF IInv

\* RestoreThread of audio_helper.pyx preserves the inductive invariant.
LEMMA RestoreThreadInv ==
  ASSUME IInv, RestoreThread
  PROVE  IInv'
<1>0. TypeOK /\ Turns /\ Contents /\ HeardBlocks /\ Threads /\ Gil
  BY DEF IInv
<1>1. TypeOK'
  BY <1>0 DEF RestoreThread, mainVars, paVars, semVars, recVars, playVars, TypeOK,
    PaTypeOK, Turns, PlayHasTurn, FrameIdx, Dirs
<1>2. Turns'
  BY <1>0 DEF RestoreThread, mainVars, paVars, semVars, recVars, playVars, Turns,
    PlayHasTurn, TypeOK, Gil, Threads, Before, After, PaTypeOK, Running, Dirs, Put
<1>3. Contents' /\ HeardBlocks'
  BY BlocksKept DEF RestoreThread, mainVars, paVars, semVars, recVars, playVars
<1>4. Threads'
  BY <1>0 DEF RestoreThread, mainVars, paVars, semVars, recVars, playVars, Threads,
    Before, After, TypeOK, PaTypeOK, Running, Dirs
<1>5. Gil'
  BY <1>0 DEF RestoreThread, mainVars, paVars, semVars, recVars, playVars, Gil, Turns,
    PlayHasTurn, Threads, Before, After, TypeOK, PaTypeOK, Running, Dirs
<1> QED BY <1>1, <1>2, <1>3, <1>4, <1>5 DEF IInv

\* CloseStream(s) of audio_helper.pyx preserves the inductive invariant.
LEMMA CloseStreamInv ==
  ASSUME NEW s \in Dirs, IInv, CloseStream(s)
  PROVE  IInv'
<1>0. TypeOK /\ Turns /\ Contents /\ HeardBlocks /\ Threads /\ Gil
  BY DEF IInv
<1>1. TypeOK'
  BY <1>0 DEF CloseStream, PaClose, IsStopped, PaCloseStopped, PaCloseAbort, PaCloseJoin,
    mainVars, paVars, semVars, recVars, playVars, TypeOK, PaTypeOK, Turns, PlayHasTurn,
    FrameIdx, Dirs
<1>2. Turns'
  BY <1>0 DEF CloseStream, PaClose, IsStopped, PaCloseStopped, PaCloseAbort, PaCloseJoin,
    mainVars, paVars, semVars, recVars, playVars, Turns, PlayHasTurn, TypeOK, Put
<1>3. Contents' /\ HeardBlocks'
  BY BlocksKept DEF CloseStream, PaClose, IsStopped, PaCloseStopped, PaCloseAbort,
    PaCloseJoin, mainVars, paVars, semVars, recVars, playVars
<1>4. Threads'
  BY <1>0 DEF CloseStream, PaClose, IsStopped, PaCloseStopped, PaCloseAbort, PaCloseJoin,
    mainVars, paVars, semVars, recVars, playVars, Threads, Before, After, TypeOK, PaTypeOK,
    Running, Dirs
<1>5. Gil'
  BY <1>0 DEF CloseStream, PaClose, IsStopped, PaCloseStopped, PaCloseAbort, PaCloseJoin,
    mainVars, paVars, semVars, recVars, playVars, Gil, Turns, PlayHasTurn, Threads, Before,
    After, TypeOK, PaTypeOK, Running, Dirs
<1> QED BY <1>1, <1>2, <1>3, <1>4, <1>5 DEF IInv

\* TerminateCloses(s) of audio_helper.pyx preserves the inductive invariant.
LEMMA TerminateClosesInv ==
  ASSUME NEW s \in Dirs, IInv, TerminateCloses(s)
  PROVE  IInv'
<1>0. TypeOK /\ Turns /\ Contents /\ HeardBlocks /\ Threads /\ Gil
  BY DEF IInv
<1>1. TypeOK'
  BY <1>0 DEF TerminateCloses, PaCloseOpenStreams, PaClose, IsStopped, PaCloseStopped,
    PaCloseAbort, PaCloseJoin, mainVars, paVars, semVars, recVars, playVars, TypeOK,
    PaTypeOK, Turns, PlayHasTurn, FrameIdx, Dirs
<1>2. Turns'
  BY <1>0 DEF TerminateCloses, PaCloseOpenStreams, PaClose, IsStopped, PaCloseStopped,
    PaCloseAbort, PaCloseJoin, mainVars, paVars, semVars, recVars, playVars, Turns,
    PlayHasTurn, TypeOK, Put
<1>3. Contents' /\ HeardBlocks'
  BY BlocksKept DEF TerminateCloses, PaCloseOpenStreams, PaClose, IsStopped,
    PaCloseStopped, PaCloseAbort, PaCloseJoin, mainVars, paVars, semVars, recVars, playVars
<1>4. Threads'
  BY <1>0 DEF TerminateCloses, PaCloseOpenStreams, PaClose, IsStopped, PaCloseStopped,
    PaCloseAbort, PaCloseJoin, mainVars, paVars, semVars, recVars, playVars, Threads,
    Before, After, TypeOK, PaTypeOK, Running, Dirs
<1>5. Gil'
  BY <1>0 DEF TerminateCloses, PaCloseOpenStreams, PaClose, IsStopped, PaCloseStopped,
    PaCloseAbort, PaCloseJoin, mainVars, paVars, semVars, recVars, playVars, Gil, Turns,
    PlayHasTurn, Threads, Before, After, TypeOK, PaTypeOK, Running, Dirs
<1> QED BY <1>1, <1>2, <1>3, <1>4, <1>5 DEF IInv

\* TerminatePortAudio of audio_helper.pyx preserves the inductive invariant.
LEMMA TerminatePortAudioInv ==
  ASSUME IInv, TerminatePortAudio
  PROVE  IInv'
<1>0. TypeOK /\ Turns /\ Contents /\ HeardBlocks /\ Threads /\ Gil
  BY DEF IInv
<1>1. TypeOK'
  BY <1>0 DEF TerminatePortAudio, PaTerminate, AfterPython, mainVars, paVars, semVars,
    recVars, playVars, TypeOK, PaTypeOK, Turns, PlayHasTurn, FrameIdx, Dirs
<1>2. Turns'
  BY <1>0 DEF TerminatePortAudio, PaTerminate, AfterPython, mainVars, paVars, semVars,
    recVars, playVars, Turns, PlayHasTurn, TypeOK, Put
<1>3. Contents' /\ HeardBlocks'
  BY BlocksKept DEF TerminatePortAudio, PaTerminate, AfterPython, mainVars, paVars,
    semVars, recVars, playVars
<1>4. Threads'
  BY <1>0 DEF TerminatePortAudio, PaTerminate, AfterPython, mainVars, paVars, semVars,
    recVars, playVars, Threads, Before, After, TypeOK, PaTypeOK, Running, Dirs
<1>5. Gil'
  BY <1>0 DEF TerminatePortAudio, PaTerminate, AfterPython, mainVars, paVars, semVars,
    recVars, playVars, Gil, Turns, PlayHasTurn, Threads, Before, After, TypeOK, PaTypeOK,
    Running, Dirs
<1> QED BY <1>1, <1>2, <1>3, <1>4, <1>5 DEF IInv

\* Return of audio_helper.pyx preserves the inductive invariant.
LEMMA ReturnInv ==
  ASSUME IInv, Return
  PROVE  IInv'
<1>0. TypeOK /\ Turns /\ Contents /\ HeardBlocks /\ Threads /\ Gil
  BY DEF IInv
<1>1. TypeOK'
  BY <1>0 DEF Return, AfterPython, mainVars, paVars, semVars, recVars, playVars, TypeOK,
    PaTypeOK, Turns, PlayHasTurn, FrameIdx, Dirs
<1>2. Turns'
  BY <1>0 DEF Return, AfterPython, mainVars, paVars, semVars, recVars, playVars, Turns,
    PlayHasTurn, TypeOK, Put
<1>3. Contents' /\ HeardBlocks'
  BY BlocksKept DEF Return, AfterPython, mainVars, paVars, semVars, recVars, playVars
<1>4. Threads'
  BY <1>0 DEF Return, AfterPython, mainVars, paVars, semVars, recVars, playVars, Threads,
    Before, After, TypeOK, PaTypeOK, Running, Dirs
<1>5. Gil'
  BY <1>0 DEF Return, AfterPython, mainVars, paVars, semVars, recVars, playVars, Gil,
    Turns, PlayHasTurn, Threads, Before, After, TypeOK, PaTypeOK, Running, Dirs
<1> QED BY <1>1, <1>2, <1>3, <1>4, <1>5 DEF IInv

\* DeviceError(s) of audio_helper.pyx preserves the inductive invariant.
LEMMA DeviceErrorInv ==
  ASSUME NEW s \in Dirs, IInv, DeviceError(s)
  PROVE  IInv'
<1>0. TypeOK /\ Turns /\ Contents /\ HeardBlocks /\ Threads /\ Gil
  BY DEF IInv
<1>1. TypeOK'
  BY <1>0 DEF DeviceError, PaDeviceError, PaOnExit, mainVars, paVars, semVars, recVars,
    playVars, TypeOK, PaTypeOK, Turns, PlayHasTurn, FrameIdx, Dirs
<1>2. Turns'
  BY <1>0 DEF DeviceError, PaDeviceError, PaOnExit, mainVars, paVars, semVars, recVars,
    playVars, Turns, PlayHasTurn, TypeOK, Put
<1>3. Contents' /\ HeardBlocks'
  BY BlocksKept DEF DeviceError, PaDeviceError, PaOnExit, mainVars, paVars, semVars,
    recVars, playVars
<1>4. Threads'
  BY <1>0 DEF DeviceError, PaDeviceError, PaOnExit, mainVars, paVars, semVars, recVars,
    playVars, Threads, Before, After, TypeOK, PaTypeOK, Running, Dirs
<1>5. Gil'
  BY <1>0 DEF DeviceError, PaDeviceError, PaOnExit, mainVars, paVars, semVars, recVars,
    playVars, Gil, Turns, PlayHasTurn, Threads, Before, After, TypeOK, PaTypeOK, Running,
    Dirs
<1> QED BY <1>1, <1>2, <1>3, <1>4, <1>5 DEF IInv

\* CancelThread(s) of audio_helper.pyx preserves the inductive invariant.
LEMMA CancelThreadInv ==
  ASSUME NEW s \in Dirs, IInv, CancelThread(s)
  PROVE  IInv'
<1>0. TypeOK /\ Turns /\ Contents /\ HeardBlocks /\ Threads /\ Gil
  BY DEF IInv
<1>1. TypeOK'
  BY <1>0 DEF CancelThread, PaCancelled, PaOnExit, mainVars, paVars, semVars, recVars,
    playVars, TypeOK, PaTypeOK, Turns, PlayHasTurn, FrameIdx, Dirs
<1>2. Turns'
  BY <1>0 DEF CancelThread, PaCancelled, PaOnExit, mainVars, paVars, semVars, recVars,
    playVars, Turns, PlayHasTurn, TypeOK, Put
<1>3. Contents' /\ HeardBlocks'
  BY BlocksKept DEF CancelThread, PaCancelled, PaOnExit, mainVars, paVars, semVars,
    recVars, playVars
<1>4. Threads'
  BY <1>0 DEF CancelThread, PaCancelled, PaOnExit, mainVars, paVars, semVars, recVars,
    playVars, Threads, Before, After, TypeOK, PaTypeOK, Running, Dirs
<1>5. Gil'
  BY <1>0 DEF CancelThread, PaCancelled, PaOnExit, mainVars, paVars, semVars, recVars,
    playVars, Gil, Turns, PlayHasTurn, Threads, Before, After, TypeOK, PaTypeOK, Running,
    Dirs
<1> QED BY <1>1, <1>2, <1>3, <1>4, <1>5 DEF IInv

\* RecordEnter of audio_helper.pyx preserves the inductive invariant.
LEMMA RecordEnterInv ==
  ASSUME IInv, RecordEnter
  PROVE  IInv'
<1>0. TypeOK /\ Turns /\ Contents /\ HeardBlocks /\ Threads /\ Gil
  BY DEF IInv
<1>1. TypeOK'
  BY <1>0, FramesAssumption, MaxBlocksAssumption DEF RecordEnter, PaEnterCallback,
    mainVars, paVars, semVars, recVars, playVars, TypeOK, PaTypeOK, Turns, PlayHasTurn,
    FrameIdx, Dirs
<1>2. Turns'
  BY <1>0 DEF RecordEnter, PaEnterCallback, mainVars, paVars, semVars, recVars, playVars,
    Turns, PlayHasTurn, TypeOK, Put
<1>3. Contents' /\ HeardBlocks'
  <2>1. Contents'
    BY <1>0, FramesAssumption, MaxBlocksAssumption DEF RecordEnter, PaEnterCallback,
      mainVars, paVars, semVars, recVars, playVars, Turns, PlayHasTurn, TypeOK, Contents,
      Put, FrameIdx
  <2>2. HeardBlocks'
    BY <1>0 DEF RecordEnter, PaEnterCallback, mainVars, paVars, semVars, recVars,
      playVars, HeardBlocks
  <2> QED BY <2>1, <2>2
<1>4. Threads'
  BY <1>0 DEF RecordEnter, PaEnterCallback, mainVars, paVars, semVars, recVars, playVars,
    Threads, Before, After, TypeOK, PaTypeOK, Running, Dirs
<1>5. Gil'
  BY <1>0 DEF RecordEnter, PaEnterCallback, mainVars, paVars, semVars, recVars, playVars,
    Gil, Turns, PlayHasTurn, Threads, Before, After, TypeOK, PaTypeOK, Running, Dirs
<1> QED BY <1>1, <1>2, <1>3, <1>4, <1>5 DEF IInv

\* RecordWait of audio_helper.pyx preserves the inductive invariant.
LEMMA RecordWaitInv ==
  ASSUME IInv, RecordWait
  PROVE  IInv'
<1>0. TypeOK /\ Turns /\ Contents /\ HeardBlocks /\ Threads /\ Gil
  BY DEF IInv
<1>1. TypeOK'
  BY <1>0, FramesAssumption, MaxBlocksAssumption DEF RecordWait, mainVars, paVars,
    semVars, recVars, playVars, TypeOK, PaTypeOK, Turns, PlayHasTurn, FrameIdx, Dirs
<1>2. Turns'
  BY <1>0 DEF RecordWait, mainVars, paVars, semVars, recVars, playVars, Turns,
    PlayHasTurn, TypeOK, Put
<1>3. Contents' /\ HeardBlocks'
  <2>1. Contents'
    BY <1>0, FramesAssumption, MaxBlocksAssumption DEF RecordWait, mainVars, paVars,
      semVars, recVars, playVars, Turns, PlayHasTurn, TypeOK, Contents, Put, FrameIdx
  <2>2. HeardBlocks'
    BY <1>0 DEF RecordWait, mainVars, paVars, semVars, recVars, playVars, HeardBlocks
  <2> QED BY <2>1, <2>2
<1>4. Threads'
  BY <1>0 DEF RecordWait, mainVars, paVars, semVars, recVars, playVars, Threads, Before,
    After, TypeOK, PaTypeOK, Running, Dirs
<1>5. Gil'
  BY <1>0 DEF RecordWait, mainVars, paVars, semVars, recVars, playVars, Gil, Turns,
    PlayHasTurn, Threads, Before, After, TypeOK, PaTypeOK, Running, Dirs
<1> QED BY <1>1, <1>2, <1>3, <1>4, <1>5 DEF IInv

\* RecordCopy of audio_helper.pyx preserves the inductive invariant.
LEMMA RecordCopyInv ==
  ASSUME IInv, RecordCopy
  PROVE  IInv'
<1>0. TypeOK /\ Turns /\ Contents /\ HeardBlocks /\ Threads /\ Gil
  BY DEF IInv
<1>1. TypeOK'
  BY <1>0, FramesAssumption, MaxBlocksAssumption DEF RecordCopy, mainVars, paVars,
    semVars, recVars, playVars, TypeOK, PaTypeOK, Turns, PlayHasTurn, FrameIdx, Dirs
<1>2. Turns'
  BY <1>0 DEF RecordCopy, mainVars, paVars, semVars, recVars, playVars, Turns,
    PlayHasTurn, TypeOK, Put
<1>3. Contents' /\ HeardBlocks'
  <2>1. Contents'
    BY <1>0, FramesAssumption, MaxBlocksAssumption DEF RecordCopy, mainVars, paVars,
      semVars, recVars, playVars, Turns, PlayHasTurn, TypeOK, Contents, Put, FrameIdx
  <2>2. HeardBlocks'
    BY <1>0 DEF RecordCopy, mainVars, paVars, semVars, recVars, playVars, HeardBlocks
  <2> QED BY <2>1, <2>2
<1>4. Threads'
  BY <1>0 DEF RecordCopy, mainVars, paVars, semVars, recVars, playVars, Threads, Before,
    After, TypeOK, PaTypeOK, Running, Dirs
<1>5. Gil'
  BY <1>0 DEF RecordCopy, mainVars, paVars, semVars, recVars, playVars, Gil, Turns,
    PlayHasTurn, Threads, Before, After, TypeOK, PaTypeOK, Running, Dirs
<1> QED BY <1>1, <1>2, <1>3, <1>4, <1>5 DEF IInv

\* RecordPost of audio_helper.pyx preserves the inductive invariant.
LEMMA RecordPostInv ==
  ASSUME IInv, RecordPost
  PROVE  IInv'
<1>0. TypeOK /\ Turns /\ Contents /\ HeardBlocks /\ Threads /\ Gil
  BY DEF IInv
<1>1. TypeOK'
  BY <1>0, FramesAssumption, MaxBlocksAssumption DEF RecordPost, PaContinue, mainVars,
    paVars, semVars, recVars, playVars, TypeOK, PaTypeOK, Turns, PlayHasTurn, FrameIdx, Dirs
<1>2. Turns'
  BY <1>0 DEF RecordPost, PaContinue, mainVars, paVars, semVars, recVars, playVars, Turns,
    PlayHasTurn, TypeOK, Put
<1>3. Contents' /\ HeardBlocks'
  <2>1. Contents'
    BY <1>0, FramesAssumption, MaxBlocksAssumption DEF RecordPost, PaContinue, mainVars,
      paVars, semVars, recVars, playVars, Turns, PlayHasTurn, TypeOK, Contents, Put,
      FrameIdx
  <2>2. HeardBlocks'
    BY <1>0 DEF RecordPost, PaContinue, mainVars, paVars, semVars, recVars, playVars,
      HeardBlocks
  <2> QED BY <2>1, <2>2
<1>4. Threads'
  BY <1>0 DEF RecordPost, PaContinue, mainVars, paVars, semVars, recVars, playVars,
    Threads, Before, After, TypeOK, PaTypeOK, Running, Dirs
<1>5. Gil'
  BY <1>0 DEF RecordPost, PaContinue, mainVars, paVars, semVars, recVars, playVars, Gil,
    Turns, PlayHasTurn, Threads, Before, After, TypeOK, PaTypeOK, Running, Dirs
<1> QED BY <1>1, <1>2, <1>3, <1>4, <1>5 DEF IInv

\* PlayEnter of audio_helper.pyx preserves the inductive invariant.
LEMMA PlayEnterInv ==
  ASSUME IInv, PlayEnter
  PROVE  IInv'
<1>0. TypeOK /\ Turns /\ Contents /\ HeardBlocks /\ Threads /\ Gil
  BY DEF IInv
<1>1. TypeOK'
  BY <1>0, FramesAssumption, MaxBlocksAssumption DEF PlayEnter, PaEnterCallback, mainVars,
    paVars, semVars, recVars, playVars, TypeOK, PaTypeOK, Turns, PlayHasTurn, FrameIdx, Dirs
<1>2. Turns'
  BY <1>0 DEF PlayEnter, PaEnterCallback, mainVars, paVars, semVars, recVars, playVars,
    Turns, PlayHasTurn, TypeOK, Put
<1>3. Contents' /\ HeardBlocks'
  <2>1. Contents'
    BY <1>0, FramesAssumption, MaxBlocksAssumption DEF PlayEnter, PaEnterCallback,
      mainVars, paVars, semVars, recVars, playVars, Turns, PlayHasTurn, TypeOK, Contents,
      Put, FrameIdx
  <2>2. HeardBlocks'
    BY <1>0 DEF PlayEnter, PaEnterCallback, mainVars, paVars, semVars, recVars, playVars,
      HeardBlocks
  <2> QED BY <2>1, <2>2
<1>4. Threads'
  BY <1>0 DEF PlayEnter, PaEnterCallback, mainVars, paVars, semVars, recVars, playVars,
    Threads, Before, After, TypeOK, PaTypeOK, Running, Dirs
<1>5. Gil'
  BY <1>0 DEF PlayEnter, PaEnterCallback, mainVars, paVars, semVars, recVars, playVars,
    Gil, Turns, PlayHasTurn, Threads, Before, After, TypeOK, PaTypeOK, Running, Dirs
<1> QED BY <1>1, <1>2, <1>3, <1>4, <1>5 DEF IInv

\* PlayWait of audio_helper.pyx preserves the inductive invariant.
LEMMA PlayWaitInv ==
  ASSUME IInv, PlayWait
  PROVE  IInv'
<1>0. TypeOK /\ Turns /\ Contents /\ HeardBlocks /\ Threads /\ Gil
  BY DEF IInv
<1>1. TypeOK'
  BY <1>0, FramesAssumption, MaxBlocksAssumption DEF PlayWait, mainVars, paVars, semVars,
    recVars, playVars, TypeOK, PaTypeOK, Turns, PlayHasTurn, FrameIdx, Dirs
<1>2. Turns'
  BY <1>0 DEF PlayWait, mainVars, paVars, semVars, recVars, playVars, Turns, PlayHasTurn,
    TypeOK, Put
<1>3. Contents' /\ HeardBlocks'
  <2>1. Contents'
    BY <1>0, FramesAssumption, MaxBlocksAssumption DEF PlayWait, mainVars, paVars,
      semVars, recVars, playVars, Turns, PlayHasTurn, TypeOK, Contents, Put, FrameIdx
  <2>2. HeardBlocks'
    BY <1>0 DEF PlayWait, mainVars, paVars, semVars, recVars, playVars, HeardBlocks
  <2> QED BY <2>1, <2>2
<1>4. Threads'
  BY <1>0 DEF PlayWait, mainVars, paVars, semVars, recVars, playVars, Threads, Before,
    After, TypeOK, PaTypeOK, Running, Dirs
<1>5. Gil'
  BY <1>0 DEF PlayWait, mainVars, paVars, semVars, recVars, playVars, Gil, Turns,
    PlayHasTurn, Threads, Before, After, TypeOK, PaTypeOK, Running, Dirs
<1> QED BY <1>1, <1>2, <1>3, <1>4, <1>5 DEF IInv

\* PlayEnsureGil of audio_helper.pyx preserves the inductive invariant.
LEMMA PlayEnsureGilInv ==
  ASSUME IInv, PlayEnsureGil
  PROVE  IInv'
<1>0. TypeOK /\ Turns /\ Contents /\ HeardBlocks /\ Threads /\ Gil
  BY DEF IInv
<1>1. TypeOK'
  BY <1>0, FramesAssumption, MaxBlocksAssumption DEF PlayEnsureGil, mainVars, paVars,
    semVars, recVars, playVars, TypeOK, PaTypeOK, Turns, PlayHasTurn, FrameIdx, Dirs
<1>2. Turns'
  BY <1>0 DEF PlayEnsureGil, mainVars, paVars, semVars, recVars, playVars, Turns,
    PlayHasTurn, TypeOK, Put
<1>3. Contents' /\ HeardBlocks'
  <2>1. Contents'
    BY <1>0, FramesAssumption, MaxBlocksAssumption DEF PlayEnsureGil, mainVars, paVars,
      semVars, recVars, playVars, Turns, PlayHasTurn, TypeOK, Contents, Put, FrameIdx
  <2>2. HeardBlocks'
    BY <1>0 DEF PlayEnsureGil, mainVars, paVars, semVars, recVars, playVars, HeardBlocks
  <2> QED BY <2>1, <2>2
<1>4. Threads'
  BY <1>0 DEF PlayEnsureGil, mainVars, paVars, semVars, recVars, playVars, Threads,
    Before, After, TypeOK, PaTypeOK, Running, Dirs
<1>5. Gil'
  BY <1>0 DEF PlayEnsureGil, mainVars, paVars, semVars, recVars, playVars, Gil, Turns,
    PlayHasTurn, Threads, Before, After, TypeOK, PaTypeOK, Running, Dirs
<1> QED BY <1>1, <1>2, <1>3, <1>4, <1>5 DEF IInv

\* PlayPrint of audio_helper.pyx preserves the inductive invariant.
LEMMA PlayPrintInv ==
  ASSUME IInv, PlayPrint
  PROVE  IInv'
<1>0. TypeOK /\ Turns /\ Contents /\ HeardBlocks /\ Threads /\ Gil
  BY DEF IInv
<1>1. TypeOK'
  BY <1>0, FramesAssumption, MaxBlocksAssumption DEF PlayPrint, mainVars, paVars, semVars,
    recVars, playVars, TypeOK, PaTypeOK, Turns, PlayHasTurn, FrameIdx, Dirs
<1>2. Turns'
  BY <1>0 DEF PlayPrint, mainVars, paVars, semVars, recVars, playVars, Turns, PlayHasTurn,
    TypeOK, Put
<1>3. Contents' /\ HeardBlocks'
  <2>1. Contents'
    BY <1>0, FramesAssumption, MaxBlocksAssumption DEF PlayPrint, mainVars, paVars,
      semVars, recVars, playVars, Turns, PlayHasTurn, TypeOK, Contents, Put, FrameIdx
  <2>2. HeardBlocks'
    BY <1>0 DEF PlayPrint, mainVars, paVars, semVars, recVars, playVars, HeardBlocks
  <2> QED BY <2>1, <2>2
<1>4. Threads'
  BY <1>0 DEF PlayPrint, mainVars, paVars, semVars, recVars, playVars, Threads, Before,
    After, TypeOK, PaTypeOK, Running, Dirs
<1>5. Gil'
  BY <1>0 DEF PlayPrint, mainVars, paVars, semVars, recVars, playVars, Gil, Turns,
    PlayHasTurn, Threads, Before, After, TypeOK, PaTypeOK, Running, Dirs
<1> QED BY <1>1, <1>2, <1>3, <1>4, <1>5 DEF IInv

\* PlayPrintRaises of audio_helper.pyx preserves the inductive invariant.
LEMMA PlayPrintRaisesInv ==
  ASSUME IInv, PlayPrintRaises
  PROVE  IInv'
<1>0. TypeOK /\ Turns /\ Contents /\ HeardBlocks /\ Threads /\ Gil
  BY DEF IInv
<1>1. TypeOK'
  BY <1>0, FramesAssumption, MaxBlocksAssumption DEF PlayPrintRaises, PaContinue,
    mainVars, paVars, semVars, recVars, playVars, TypeOK, PaTypeOK, Turns, PlayHasTurn,
    FrameIdx, Dirs
<1>2. Turns'
  BY <1>0 DEF PlayPrintRaises, PaContinue, mainVars, paVars, semVars, recVars, playVars,
    Turns, PlayHasTurn, TypeOK, Put
<1>3. Contents' /\ HeardBlocks'
  <2>1. Contents'
    BY <1>0, FramesAssumption, MaxBlocksAssumption DEF PlayPrintRaises, PaContinue,
      mainVars, paVars, semVars, recVars, playVars, Turns, PlayHasTurn, TypeOK, Contents,
      Put, FrameIdx
  <2>2. HeardBlocks'
    BY <1>0 DEF PlayPrintRaises, PaContinue, mainVars, paVars, semVars, recVars, playVars,
      HeardBlocks
  <2> QED BY <2>1, <2>2
<1>4. Threads'
  BY <1>0 DEF PlayPrintRaises, PaContinue, mainVars, paVars, semVars, recVars, playVars,
    Threads, Before, After, TypeOK, PaTypeOK, Running, Dirs
<1>5. Gil'
  BY <1>0 DEF PlayPrintRaises, PaContinue, mainVars, paVars, semVars, recVars, playVars,
    Gil, Turns, PlayHasTurn, Threads, Before, After, TypeOK, PaTypeOK, Running, Dirs
<1> QED BY <1>1, <1>2, <1>3, <1>4, <1>5 DEF IInv

\* PlayCopy of audio_helper.pyx preserves the inductive invariant.
LEMMA PlayCopyInv ==
  ASSUME IInv, PlayCopy
  PROVE  IInv'
<1>0. TypeOK /\ Turns /\ Contents /\ HeardBlocks /\ Threads /\ Gil
  BY DEF IInv
<1>1. TypeOK'
  BY <1>0, FramesAssumption, MaxBlocksAssumption DEF PlayCopy, mainVars, paVars, semVars,
    recVars, playVars, TypeOK, PaTypeOK, Turns, PlayHasTurn, FrameIdx, Dirs
<1>2. Turns'
  BY <1>0 DEF PlayCopy, mainVars, paVars, semVars, recVars, playVars, Turns, PlayHasTurn,
    TypeOK, Put
<1>3. Contents' /\ HeardBlocks'
  <2>1. Contents'
    BY <1>0, FramesAssumption, MaxBlocksAssumption DEF PlayCopy, mainVars, paVars,
      semVars, recVars, playVars, Turns, PlayHasTurn, TypeOK, Contents, Put, FrameIdx
  <2>2. HeardBlocks'
    BY <1>0 DEF PlayCopy, mainVars, paVars, semVars, recVars, playVars, HeardBlocks
  <2> QED BY <2>1, <2>2
<1>4. Threads'
  BY <1>0 DEF PlayCopy, mainVars, paVars, semVars, recVars, playVars, Threads, Before,
    After, TypeOK, PaTypeOK, Running, Dirs
<1>5. Gil'
  BY <1>0 DEF PlayCopy, mainVars, paVars, semVars, recVars, playVars, Gil, Turns,
    PlayHasTurn, Threads, Before, After, TypeOK, PaTypeOK, Running, Dirs
<1> QED BY <1>1, <1>2, <1>3, <1>4, <1>5 DEF IInv

\* PlayPost of audio_helper.pyx preserves the inductive invariant.
LEMMA PlayPostInv ==
  ASSUME IInv, PlayPost
  PROVE  IInv'
<1>0. TypeOK /\ Turns /\ Contents /\ HeardBlocks /\ Threads /\ Gil
  BY DEF IInv
<1>1. TypeOK'
  <2>1. heard' \in Seq([FrameIdx -> Nat])
    BY <1>0 DEF PlayPost, TypeOK
  <2>2. readDone' \in {0, 1}
    BY <1>0 DEF PlayPost, TypeOK, Turns, PlayHasTurn
  <2>3. PaTypeOK'
    BY <1>0 DEF PlayPost, PaContinue, TypeOK, PaTypeOK, Dirs
  <2>4. ppc' = "idle" /\ UNCHANGED <<mainVars, gil, writeDone, samples, buf, recVars, pi, out>>
    BY DEF PlayPost
  <2> QED
    BY <1>0, <2>1, <2>2, <2>3, <2>4 DEF TypeOK, mainVars, recVars
<1>2. Turns'
  BY <1>0 DEF PlayPost, PaContinue, mainVars, paVars, semVars, recVars, playVars, Turns,
    PlayHasTurn, TypeOK, Put
<1>3. Contents' /\ HeardBlocks'
  <2>1. Contents'
    BY <1>0, FramesAssumption, MaxBlocksAssumption DEF PlayPost, PaContinue, mainVars,
      paVars, semVars, recVars, playVars, Turns, PlayHasTurn, TypeOK, Contents, Put,
      FrameIdx
  <2>2. HeardBlocks'
    <3>1. /\ ppc = "copy" /\ pi = Frames /\ heard' = Append(heard, out)
          /\ Put = Len(heard) + 1 /\ out \in [FrameIdx -> Nat] /\ heard \in Seq([FrameIdx -> Nat])
      BY <1>0 DEF PlayPost, Contents, PlayHasTurn, TypeOK
    <3>2. out = [f \in FrameIdx |-> Len(heard) + 1]
      BY <1>0, <3>1, FramesAssumption DEF Contents, FrameIdx
    <3>3. Len(heard') = Len(heard) + 1 /\ Len(heard) \in Nat
      BY <3>1
    <3>4. ASSUME NEW n \in 1..Len(heard')
          PROVE  heard'[n] = [f \in FrameIdx |-> n]
      <4>1. CASE n = Len(heard) + 1
        BY <3>1, <3>2, <4>1
      <4>2. CASE n \in 1..Len(heard)
        <5>1. heard'[n] = heard[n]
          BY <3>1, <4>2
        <5> QED BY <1>0, <4>2, <5>1 DEF HeardBlocks
      <4> QED BY <3>3, <4>1, <4>2
    <3> QED BY <3>4 DEF HeardBlocks
  <2> QED BY <2>1, <2>2
<1>4. Threads'
  BY <1>0 DEF PlayPost, PaContinue, mainVars, paVars, semVars, recVars, playVars, Threads,
    Before, After, TypeOK, PaTypeOK, Running, Dirs
<1>5. Gil'
  BY <1>0 DEF PlayPost, PaContinue, mainVars, paVars, semVars, recVars, playVars, Gil,
    Turns, PlayHasTurn, Threads, Before, After, TypeOK, PaTypeOK, Running, Dirs
<1> QED BY <1>1, <1>2, <1>3, <1>4, <1>5 DEF IInv

\* The initial states satisfy the inductive invariant.
LEMMA InitInv == Init => IInv
<1> SUFFICES ASSUME Init PROVE IInv
  OBVIOUS
<1>1. TypeOK
  <2>1. heard \in Seq([FrameIdx -> Nat])
    BY DEF Init
  <2>2. buf \in [FrameIdx -> Nat] /\ out \in [FrameIdx -> Nat]
    BY DEF Init
  <2> QED
    BY <2>1, <2>2, FramesAssumption, MaxBlocksAssumption DEF Init, PaStart, TypeOK, PaTypeOK
<1>2. Turns /\ Contents /\ HeardBlocks
  BY DEF Init, Turns, PlayHasTurn, Contents, HeardBlocks, Put
<1>3. Threads
  BY DEF Init, PaStart, Threads, Before, Dirs
<1>4. Gil
  BY DEF Init, PaStart, Gil, After, Dirs
<1> QED BY <1>1, <1>2, <1>3, <1>4 DEF IInv

\* A stuttering step changes nothing the invariant speaks of.
LEMMA StutterInv ==
  ASSUME IInv, UNCHANGED vars
  PROVE  IInv'
<1>1. TypeOK'
  BY DEF IInv, TypeOK, PaTypeOK, vars, paVars, mainVars, semVars, recVars, playVars
<1>2. Turns'
  BY DEF IInv, Turns, PlayHasTurn, vars, mainVars, semVars, recVars, playVars, Put
<1>3. Contents' /\ HeardBlocks'
  BY BlocksKept DEF vars
<1>4. Threads'
  BY DEF IInv, Threads, vars, paVars, mainVars, semVars, recVars, playVars
<1>5. Gil'
  BY DEF IInv, Gil, vars, paVars, mainVars
<1> QED BY <1>1, <1>2, <1>3, <1>4, <1>5 DEF IInv

\* Every step of the program preserves the inductive invariant.
LEMMA NextInv == IInv /\ [Next]_vars => IInv'
<1> SUFFICES ASSUME IInv, [Next]_vars PROVE IInv'
  OBVIOUS
<1>1. CASE Main
  BY <1>1, SaveThreadInv, InitSemaphoresInv, AllocateSamplesInv, SetUpPortAudioInv,
    PollStreamsInv, RestoreThreadInv, TerminatePortAudioInv, ReturnInv, CloseStreamInv,
    TerminateClosesInv DEF Main
<1>2. CASE Record
  BY <1>2, RecordEnterInv, RecordWaitInv, RecordCopyInv, RecordPostInv DEF Record
<1>3. CASE Play
  BY <1>3, PlayEnterInv, PlayWaitInv, PlayEnsureGilInv, PlayPrintInv, PlayPrintRaisesInv,
    PlayCopyInv, PlayPostInv DEF Play
<1>4. CASE \E s \in Dirs : DeviceError(s) \/ CancelThread(s)
  BY <1>4, DeviceErrorInv, CancelThreadInv
<1>5. CASE UNCHANGED vars
  BY <1>5, StutterInv
<1> QED BY <1>1, <1>2, <1>3, <1>4, <1>5 DEF Next

\* The inductive invariant holds throughout every behaviour.
THEOREM Invariance == Spec => []IInv
BY InitInv, NextInv, PTL DEF Spec

\* The types of the variables, for every instance.
THEOREM Typing == Spec => []TypeOK
<1>1. IInv => TypeOK
  BY DEF IInv
<1> QED BY <1>1, Invariance, PTL

\* No callback is ever left waiting for a turn that nobody has.
THEOREM NoMutualWait == Spec => []WaitsForTheOther
<1>1. IInv => WaitsForTheOther
  BY DEF IInv, TypeOK, Turns, PlayHasTurn, Threads, Before, Dirs, Put, WaitsForTheOther
<1> QED BY <1>1, Invariance, PTL

\* main never holds the GIL while a callback runs, and only returns to Python without it
\* after a setup that failed.
THEOREM GilIsSafe == Spec => []NoCallbackUnderGil
<1>1. IInv => NoCallbackUnderGil
  <2> SUFFICES ASSUME IInv PROVE NoCallbackUnderGil
    OBVIOUS
  <2>1. gil = "main" => rpc = "idle" /\ ppc = "idle"
    BY DEF IInv, Gil, Threads, Before, Dirs
  <2>2. pc = "returned" => gil # "play" /\ \A s \in Dirs : ptr[s] # "open" /\ thread[s] # "cb"
    BY DEF IInv, Gil, Threads, After, TypeOK, PaTypeOK, Dirs
  <2>3. pc = "returned" =>
          (gil = "main" <=> \A s \in Dirs : thread[s] = "ended" /\ cancelled[s] = 1)
    BY DEF IInv, Gil, After, Dirs
  <2>4. thread["in"] = "cb" \/ thread["out"] = "cb" => samples = "array"
    BY DEF IInv, Threads, Dirs
  <2> QED BY <2>1, <2>2, <2>3, <2>4 DEF NoCallbackUnderGil
<1> QED BY <1>1, Invariance, PTL

\* A step of the callbacks is a step of the hand-over, or does not show in it.
LEMMA StepRefines == IInv /\ [Next]_vars => [Handoff!Next]_(Handoff!vars)
<1> SUFFICES ASSUME IInv, [Next]_vars PROVE [Handoff!Next]_(Handoff!vars)
  OBVIOUS
<1> USE DEF Handoff!vars, Handoff!FrameIdx
<1>1. CASE RecordPost
  <2>1. captured - 1 = Len(heard) /\ rpc = "copy" /\ captured \in Nat
    BY <1>1, MaxBlocksAssumption DEF IInv, RecordPost, Contents, Put, TypeOK
  <2>2. rpc' = "idle" /\ captured' = captured /\ heard' = heard
    BY <1>1 DEF RecordPost, playVars
  <2> QED BY <2>1, <2>2 DEF Handoff!Next, Handoff!Put, Put
<1>2. CASE PlayPost
  <2>1. Put = Len(heard) + 1 /\ out \in [FrameIdx -> {Put}]
    BY <1>2, FramesAssumption DEF IInv, PlayPost, Contents, PlayHasTurn, TypeOK, FrameIdx
  <2>2. rpc' = rpc /\ captured' = captured /\ heard' = Append(heard, out)
    BY <1>2 DEF PlayPost, recVars
  <2>3. out \in [FrameIdx -> {Put} \cup {}]
    BY <2>1
  <2> QED BY <2>1, <2>2, <2>3 DEF Put, FrameIdx, Handoff!Next, Handoff!Hear
<1>3. CASE UNCHANGED <<Put, heard>>
  BY <1>3 DEF Put
<1>4. CASE Main
  <2>1. UNCHANGED <<recVars, playVars>>
    BY <1>4 DEF Main, SaveThread, InitSemaphores, AllocateSamples, SetUpPortAudio, Setup,
      PollStreams, RestoreThread, CloseStream, TerminateCloses, TerminatePortAudio, Return
  <2> QED BY <2>1, <1>3 DEF Put, recVars, playVars
<1>5. CASE RecordEnter \/ RecordWait \/ RecordCopy
  <2>1. Put' = Put
    BY <1>5, MaxBlocksAssumption DEF IInv, TypeOK, Put, RecordEnter, RecordWait, RecordCopy
  <2>2. heard' = heard
    BY <1>5 DEF RecordEnter, RecordWait, RecordCopy, playVars
  <2> QED BY <2>1, <2>2, <1>3
<1>6. CASE Play /\ ~PlayPost
  <2>1. UNCHANGED <<recVars, heard>>
    BY <1>6 DEF Play, PlayEnter, PlayWait, PlayEnsureGil, PlayPrint, PlayPrintRaises, PlayCopy,
      playVars
  <2> QED BY <2>1, <1>3 DEF Put, recVars
<1>7. CASE \E s \in Dirs : DeviceError(s) \/ CancelThread(s)
  <2>1. UNCHANGED <<recVars, playVars>>
    BY <1>7 DEF DeviceError, CancelThread
  <2> QED BY <2>1, <1>3 DEF Put, recVars, playVars
<1>8. CASE UNCHANGED vars
  BY <1>3, <1>8 DEF Put, vars, recVars, playVars
<1> QED
  BY <1>1, <1>2, <1>4, <1>5, <1>6, <1>7, <1>8 DEF Next, Record

\* The program implements the abstract hand-over of blocks.
THEOREM Refinement == Spec => RefinesHandoff
<1>1. Init => Handoff!Init
  BY DEF Init, Handoff!Init, Put
<1> QED BY <1>1, StepRefines, Invariance, PTL DEF Spec, RefinesHandoff, Handoff!Spec
=============================================================================
