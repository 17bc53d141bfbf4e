---------------------- MODULE AudioRecordPython_proofs ----------------------
(***************************************************************************)
(* Proofs about AudioRecordPython, for every number of frames per block,   *)
(* every number of blocks and every set of faults.                         *)
(***************************************************************************)
EXTENDS AudioRecordPython, TLAPS

Put == IF rpc = "idle" THEN captured ELSE captured - 1

\* One turn at the buffer, held by a semaphore or by a callback
Turns ==
  /\ ~(RecordHasTurn /\ PlayHasTurn)
  /\ RecordHasTurn \/ PlayHasTurn => readDone = 0 /\ writeDone = 0
  /\ ~(readDone = 1 /\ writeDone = 1)
  /\ "readDone" \in semInit => readDone = 1 \/ writeDone = 1 \/ RecordHasTurn \/ PlayHasTurn

\* What the buffers hold, by the position of the turn
Contents ==
  /\ rpc # "idle" => captured >= 1
  /\ readDone = 1 \/ RecordHasTurn => Put = Len(heard)
  /\ writeDone = 1 \/ PlayHasTurn =>
       Put = Len(heard) + 1 /\ \A f \in FrameIdx : buf[f] = Put
  /\ RecordHasTurn => \A f \in FrameIdx : f < ri => buf[f] = captured
  /\ ppc = "filter" => \A f \in FrameIdx : f < pi => arr[f] = Put
  /\ ppc \in {"release", "copy"} => \A f \in FrameIdx : arr[f] = Put
  /\ ppc = "copy" => \A f \in FrameIdx : f < pi => out[f] \in {Put, Junk}

BeforeStart(s) ==
  pc \in {"python", "sem", "calloc", "painit", "open_in", "open_out", "start_in"}
         \cup (IF s = "in" THEN {} ELSE {"start_out"})

AfterClosing(s) ==
  pc \in {"terminate", "gil", "clean", "free", "noPython", "returned"}
         \cup (IF s = "in" THEN {"close_out", "join_out"} ELSE {})

\* The callback threads against their streams and against main
Threads ==
  /\ rpc # "idle" <=> thread["in"] = "cb"
  /\ ppc \notin {"idle", "aborted"} <=> thread["out"] = "cb"
  /\ ppc = "aborted" => thread["out"] = "ended"
  /\ \A s \in Dirs :
       /\ BeforeStart(s) => thread[s] = "none" /\ active[s] = 0 /\ finished[s] = 0
       /\ thread[s] \in {"poll", "cb"} => ptr[s] = "open" /\ active[s] = 1
       /\ thread[s] = "ended" /\ ptr[s] = "open" => finished[s] = 1
       /\ ptr[s] = "wild" => thread[s] = "none"
       /\ thread[s] = "none" => active[s] = 0 /\ finished[s] = 0
       /\ ptr[s] = "open" => paInit = 1
       /\ AfterClosing(s) => ptr[s] # "open"
  /\ pc = "python" => paInit = 0
  /\ pc \in {"open_in", "open_out", "start_in", "start_out"} => paInit = 1
  /\ pc \in {"open_out", "start_in", "start_out"} => ptr["in"] = "open"
  /\ pc \in {"start_in", "start_out"} => ptr["out"] = "open"
  /\ pc \in {"python", "sem"} =>
       readDone = 0 /\ writeDone = 0 /\ captured = 0 /\ heard = <<>>

\* The resources main owns
Resources ==
  /\ \A s \in Dirs : thread[s] # "none" /\ pc # "returned" => samples = "live"
  /\ pc \in {"python", "sem", "calloc"} => samples = "wild"
  /\ pc \in {"painit", "open_in", "open_out", "start_in", "start_out"} => samples = "live"
  /\ pc \in {"noPython", "returned"} => samples # "live"
  /\ gil = "play" <=> ppc \in {"filter", "release", "aborted"}
  /\ pc \in {"clean", "free", "noPython", "returned"} => gil = "main"
  /\ gil = "main" => /\ pc \in {"clean", "free", "noPython", "returned", "signalled", "crashed"}
                     /\ thread["out"] \notin {"poll", "cb"}
  /\ pc \in {"python", "free", "returned"} => pyRefs = 0
  /\ Running /\ pc \notin {"python", "free"} =>
       pyRefs = IF ppc = "aborted" THEN 0 ELSE 1

IInv == TypeOK /\ Turns /\ Contents /\ HeardInOrder /\ Threads /\ Resources

\* A step that leaves the semaphores, the callbacks and the buffers alone keeps the
\* facts about them.
LEMMA BlocksKept ==
  ASSUME IInv, UNCHANGED <<semVars, semInit, buf, recVars, playVars>>
  PROVE  Turns' /\ Contents' /\ HeardInOrder'
<1>1. Turns'
  BY DEF IInv, Turns, RecordHasTurn, PlayHasTurn, semVars, recVars, playVars
<1>2. Contents'
  BY DEF IInv, Contents, Put, RecordHasTurn, PlayHasTurn, semVars, recVars, playVars
<1>3. HeardInOrder'
  BY DEF IInv, HeardInOrder, playVars
<1> QED BY <1>1, <1>2, <1>3

\* SetupPython of audio_record_python.c preserves the inductive invariant.
LEMMA SetupPythonInv ==
  ASSUME IInv, SetupPython
  PROVE  IInv'
<1>0. TypeOK /\ Turns /\ Contents /\ HeardInOrder /\ Threads /\ Resources
  BY DEF IInv
<1>1. TypeOK'
  BY <1>0 DEF SetupPython, Outcome, Result, mainVars, paVars, semVars, pyVars, recVars,
    playVars, TypeOK, PaTypeOK
<1>2. Turns' /\ Contents' /\ HeardInOrder'
  BY BlocksKept DEF SetupPython, Outcome, Result, mainVars, paVars, semVars, pyVars,
    recVars, playVars
<1>3. Threads'
  BY <1>0 DEF SetupPython, Outcome, Result, mainVars, paVars, semVars, pyVars, recVars,
    playVars, Threads, BeforeStart, AfterClosing, TypeOK, PaTypeOK, Running, Dirs
<1>4. Resources'
  BY <1>0 DEF SetupPython, Outcome, Result, mainVars, paVars, semVars, pyVars, recVars,
    playVars, Resources, Threads, BeforeStart, AfterClosing, TypeOK, PaTypeOK, Running, Dirs
<1> QED BY <1>1, <1>2, <1>3, <1>4 DEF IInv

\* InitSemaphores of audio_record_python.c preserves the inductive invariant.
LEMMA InitSemaphoresInv ==
  ASSUME IInv, InitSemaphores
  PROVE  IInv'
<1>0. TypeOK /\ Turns /\ Contents /\ HeardInOrder /\ Threads /\ Resources
  BY DEF IInv
<1>1. TypeOK'
  BY <1>0 DEF InitSemaphores, mainVars, paVars, semVars, pyVars, recVars, playVars,
    TypeOK, PaTypeOK, Threads
<1>2. Turns'
  BY <1>0 DEF InitSemaphores, mainVars, paVars, semVars, pyVars, recVars, playVars, Turns,
    RecordHasTurn, PlayHasTurn, TypeOK, Threads, BeforeStart, Dirs
<1>3. Contents'
  BY <1>0, FramesAssumption, MaxBlocksAssumption DEF InitSemaphores, mainVars, paVars,
    semVars, pyVars, recVars, playVars, Turns, RecordHasTurn, PlayHasTurn, TypeOK, Contents,
    Put, FrameIdx, Threads, BeforeStart, Dirs
<1>4. HeardInOrder'
  BY <1>0 DEF InitSemaphores, mainVars, paVars, semVars, pyVars, recVars, playVars,
    HeardInOrder, TypeOK
<1>5. Threads'
  BY <1>0 DEF InitSemaphores, mainVars, paVars, semVars, pyVars, recVars, playVars,
    Threads, BeforeStart, AfterClosing, TypeOK, PaTypeOK, Running, Dirs
<1>6. Resources'
  BY <1>0 DEF InitSemaphores, mainVars, paVars, semVars, pyVars, recVars, playVars,
    Resources, Threads, BeforeStart, AfterClosing, TypeOK, PaTypeOK, Running, Dirs
<1> QED BY <1>1, <1>2, <1>3, <1>4, <1>5, <1>6 DEF IInv

\* AllocateSamples of audio_record_python.c preserves the inductive invariant.
LEMMA AllocateSamplesInv ==
  ASSUME IInv, AllocateSamples
  PROVE  IInv'
<1>0. TypeOK /\ Turns /\ Contents /\ HeardInOrder /\ Threads /\ Resources
  BY DEF IInv
<1>1. TypeOK'
  BY <1>0 DEF AllocateSamples, Outcome, Result, mainVars, paVars, semVars, pyVars,
    recVars, playVars, TypeOK, PaTypeOK
<1>2. Turns' /\ Contents' /\ HeardInOrder'
  BY BlocksKept DEF AllocateSamples, Outcome, Result, mainVars, paVars, semVars, pyVars,
    recVars, playVars
<1>3. Threads'
  BY <1>0 DEF AllocateSamples, Outcome, Result, mainVars, paVars, semVars, pyVars,
    recVars, playVars, Threads, BeforeStart, AfterClosing, TypeOK, PaTypeOK, Running, Dirs
<1>4. Resources'
  BY <1>0 DEF AllocateSamples, Outcome, Result, mainVars, paVars, semVars, pyVars,
    recVars, playVars, Resources, Threads, BeforeStart, AfterClosing, TypeOK, PaTypeOK,
    Running, Dirs
<1> QED BY <1>1, <1>2, <1>3, <1>4 DEF IInv

\* InitializePortAudio of audio_record_python.c preserves the inductive invariant.
LEMMA InitializePortAudioInv ==
  ASSUME IInv, InitializePortAudio
  PROVE  IInv'
<1>0. TypeOK /\ Turns /\ Contents /\ HeardInOrder /\ Threads /\ Resources
  BY DEF IInv
<1>1. TypeOK'
  BY <1>0 DEF InitializePortAudio, PaInitialize, Outcome, Result, mainVars, paVars,
    semVars, pyVars, recVars, playVars, TypeOK, PaTypeOK, Dirs
<1>2. Turns' /\ Contents' /\ HeardInOrder'
  BY BlocksKept DEF InitializePortAudio, PaInitialize, Outcome, Result, mainVars, paVars,
    semVars, pyVars, recVars, playVars
<1>3. Threads'
  BY <1>0 DEF InitializePortAudio, PaInitialize, Outcome, Result, mainVars, paVars,
    semVars, pyVars, recVars, playVars, Threads, BeforeStart, AfterClosing, TypeOK,
    PaTypeOK, Running, Dirs
<1>4. Resources'
  BY <1>0 DEF InitializePortAudio, PaInitialize, Outcome, Result, mainVars, paVars,
    semVars, pyVars, recVars, playVars, Resources, Threads, BeforeStart, AfterClosing,
    TypeOK, PaTypeOK, Running, Dirs
<1> QED BY <1>1, <1>2, <1>3, <1>4 DEF IInv

\* OpenStream(s) of audio_record_python.c preserves the inductive invariant.
LEMMA OpenStreamInv ==
  ASSUME NEW s \in Dirs, IInv, OpenStream(s)
  PROVE  IInv'
<1>0. TypeOK /\ Turns /\ Contents /\ HeardInOrder /\ Threads /\ Resources
  BY DEF IInv
<1>1. TypeOK'
  BY <1>0 DEF OpenStream, PaOpenStream, Outcome, Result, mainVars, paVars, semVars,
    pyVars, recVars, playVars, TypeOK, PaTypeOK, Dirs
<1>2. Turns' /\ Contents' /\ HeardInOrder'
  BY BlocksKept DEF OpenStream, PaOpenStream, Outcome, Result, mainVars, paVars, semVars,
    pyVars, recVars, playVars
<1>3. Threads'
  BY <1>0 DEF OpenStream, PaOpenStream, Outcome, Result, mainVars, paVars, semVars,
    pyVars, recVars, playVars, Threads, BeforeStart, AfterClosing, TypeOK, PaTypeOK,
    Running, Dirs
<1>4. Resources'
  BY <1>0 DEF OpenStream, PaOpenStream, Outcome, Result, mainVars, paVars, semVars,
    pyVars, recVars, playVars, Resources, Threads, BeforeStart, AfterClosing, TypeOK,
    PaTypeOK, Running, Dirs
<1> QED BY <1>1, <1>2, <1>3, <1>4 DEF IInv

\* StartStream(s) of audio_record_python.c preserves the inductive invariant.
LEMMA StartStreamInv ==
  ASSUME NEW s \in Dirs, IInv, StartStream(s)
  PROVE  IInv'
<1>0. TypeOK /\ Turns /\ Contents /\ HeardInOrder /\ Threads /\ Resources
  BY DEF IInv
<1>1. TypeOK'
  BY <1>0 DEF StartStream, PaStartStream, Outcome, Result, mainVars, paVars, semVars,
    pyVars, recVars, playVars, TypeOK, PaTypeOK, Dirs
<1>2. Turns' /\ Contents' /\ HeardInOrder'
  BY BlocksKept DEF StartStream, PaStartStream, Outcome, Result, mainVars, paVars,
    semVars, pyVars, recVars, playVars
<1>3. Threads'
  BY <1>0 DEF StartStream, PaStartStream, Outcome, Result, mainVars, paVars, semVars,
    pyVars, recVars, playVars, Threads, BeforeStart, AfterClosing, TypeOK, PaTypeOK,
    Running, Dirs
<1>4. Resources'
  BY <1>0 DEF StartStream, PaStartStream, Outcome, Result, mainVars, paVars, semVars,
    pyVars, recVars, playVars, Resources, Threads, BeforeStart, AfterClosing, TypeOK,
    PaTypeOK, Running, Dirs
<1> QED BY <1>1, <1>2, <1>3, <1>4 DEF IInv

\* PollStreams of audio_record_python.c preserves the inductive invariant.
LEMMA PollStreamsInv ==
  ASSUME IInv, PollStreams
  PROVE  IInv'
<1>0. TypeOK /\ Turns /\ Contents /\ HeardInOrder /\ Threads /\ Resources
  BY DEF IInv
<1>1. TypeOK'
  BY <1>0 DEF PollStreams, mainVars, paVars, semVars, pyVars, recVars, playVars, TypeOK,
    PaTypeOK
<1>2. Turns' /\ Contents' /\ HeardInOrder'
  BY BlocksKept DEF PollStreams, mainVars, paVars, semVars, pyVars, recVars, playVars
<1>3. Threads'
  BY <1>0 DEF PollStreams, mainVars, paVars, semVars, pyVars, recVars, playVars, Threads,
    BeforeStart, AfterClosing, TypeOK, PaTypeOK, Running, Dirs
<1>4. Resources'
  BY <1>0 DEF PollStreams, mainVars, paVars, semVars, pyVars, recVars, playVars,
    Resources, Threads, BeforeStart, AfterClosing, TypeOK, PaTypeOK, Running, Dirs
<1> QED BY <1>1, <1>2, <1>3, <1>4 DEF IInv

\* CloseStream(s) of audio_record_python.c preserves the inductive invariant.
LEMMA CloseStreamInv ==
  ASSUME NEW s \in Dirs, IInv, CloseStream(s)
  PROVE  IInv'
<1>0. TypeOK /\ Turns /\ Contents /\ HeardInOrder /\ Threads /\ Resources
  BY DEF IInv
<1>1. TypeOK'
  BY <1>0 DEF CloseStream, Validate, IsStopped, PaCloseStopped, PaCloseAbort, AfterClose,
    mainVars, paVars, semVars, pyVars, recVars, playVars, TypeOK, PaTypeOK, Dirs
<1>2. Turns' /\ Contents' /\ HeardInOrder'
  BY BlocksKept DEF CloseStream, Validate, IsStopped, PaCloseStopped, PaCloseAbort,
    AfterClose, mainVars, paVars, semVars, pyVars, recVars, playVars
<1>3. Threads'
  BY <1>0 DEF CloseStream, Validate, IsStopped, PaCloseStopped, PaCloseAbort, AfterClose,
    mainVars, paVars, semVars, pyVars, recVars, playVars, Threads, BeforeStart,
    AfterClosing, TypeOK, PaTypeOK, Running, Dirs
<1>4. Resources'
  BY <1>0 DEF CloseStream, Validate, IsStopped, PaCloseStopped, PaCloseAbort, AfterClose,
    mainVars, paVars, semVars, pyVars, recVars, playVars, Resources, Threads, BeforeStart,
    AfterClosing, TypeOK, PaTypeOK, Running, Dirs
<1> QED BY <1>1, <1>2, <1>3, <1>4 DEF IInv

\* JoinStream(s) of audio_record_python.c preserves the inductive invariant.
LEMMA JoinStreamInv ==
  ASSUME NEW s \in Dirs, IInv, JoinStream(s)
  PROVE  IInv'
<1>0. TypeOK /\ Turns /\ Contents /\ HeardInOrder /\ Threads /\ Resources
  BY DEF IInv
<1>1. TypeOK'
  BY <1>0 DEF JoinStream, PaCloseJoin, AfterClose, mainVars, paVars, semVars, pyVars,
    recVars, playVars, TypeOK, PaTypeOK, Dirs
<1>2. Turns' /\ Contents' /\ HeardInOrder'
  BY BlocksKept DEF JoinStream, PaCloseJoin, AfterClose, mainVars, paVars, semVars,
    pyVars, recVars, playVars
<1>3. Threads'
  BY <1>0 DEF JoinStream, PaCloseJoin, AfterClose, mainVars, paVars, semVars, pyVars,
    recVars, playVars, Threads, BeforeStart, AfterClosing, TypeOK, PaTypeOK, Running, Dirs
<1>4. Resources'
  BY <1>0 DEF JoinStream, PaCloseJoin, AfterClose, mainVars, paVars, semVars, pyVars,
    recVars, playVars, Resources, Threads, BeforeStart, AfterClosing, TypeOK, PaTypeOK,
    Running, Dirs
<1> QED BY <1>1, <1>2, <1>3, <1>4 DEF IInv

\* TerminatePortAudio of audio_record_python.c preserves the inductive invariant.
LEMMA TerminatePortAudioInv ==
  ASSUME IInv, TerminatePortAudio
  PROVE  IInv'
<1>0. TypeOK /\ Turns /\ Contents /\ HeardInOrder /\ Threads /\ Resources
  BY DEF IInv
<1>1. TypeOK'
  BY <1>0 DEF TerminatePortAudio, PaTerminate, mainVars, paVars, semVars, pyVars, recVars,
    playVars, TypeOK, PaTypeOK, Dirs
<1>2. Turns' /\ Contents' /\ HeardInOrder'
  BY BlocksKept DEF TerminatePortAudio, PaTerminate, mainVars, paVars, semVars, pyVars,
    recVars, playVars
<1>3. Threads'
  BY <1>0 DEF TerminatePortAudio, PaTerminate, mainVars, paVars, semVars, pyVars, recVars,
    playVars, Threads, BeforeStart, AfterClosing, TypeOK, PaTypeOK, Running, Dirs
<1>4. Resources'
  BY <1>0 DEF TerminatePortAudio, PaTerminate, mainVars, paVars, semVars, pyVars, recVars,
    playVars, Resources, Threads, BeforeStart, AfterClosing, TypeOK, PaTypeOK, Running, Dirs
<1> QED BY <1>1, <1>2, <1>3, <1>4 DEF IInv

\* AcquireGil of audio_record_python.c preserves the inductive invariant.
LEMMA AcquireGilInv ==
  ASSUME IInv, AcquireGil
  PROVE  IInv'
<1>0. TypeOK /\ Turns /\ Contents /\ HeardInOrder /\ Threads /\ Resources
  BY DEF IInv
<1>1. TypeOK'
  BY <1>0 DEF AcquireGil, mainVars, paVars, semVars, pyVars, recVars, playVars, TypeOK,
    PaTypeOK
<1>2. Turns' /\ Contents' /\ HeardInOrder'
  BY BlocksKept DEF AcquireGil, mainVars, paVars, semVars, pyVars, recVars, playVars
<1>3. Threads'
  BY <1>0 DEF AcquireGil, mainVars, paVars, semVars, pyVars, recVars, playVars, Threads,
    BeforeStart, AfterClosing, TypeOK, PaTypeOK, Running, Dirs
<1>4. Resources'
  BY <1>0 DEF AcquireGil, mainVars, paVars, semVars, pyVars, recVars, playVars, Resources,
    Threads, BeforeStart, AfterClosing, TypeOK, PaTypeOK, Running, Dirs
<1> QED BY <1>1, <1>2, <1>3, <1>4 DEF IInv

\* CleanPython of audio_record_python.c preserves the inductive invariant.
LEMMA CleanPythonInv ==
  ASSUME IInv, CleanPython
  PROVE  IInv'
<1>0. TypeOK /\ Turns /\ Contents /\ HeardInOrder /\ Threads /\ Resources
  BY DEF IInv
<1>1. TypeOK'
  BY <1>0 DEF CleanPython, mainVars, paVars, semVars, pyVars, recVars, playVars, TypeOK,
    PaTypeOK, Resources, Running
<1>2. Turns' /\ Contents' /\ HeardInOrder'
  BY BlocksKept DEF CleanPython, mainVars, paVars, semVars, pyVars, recVars, playVars
<1>3. Threads'
  BY <1>0 DEF CleanPython, mainVars, paVars, semVars, pyVars, recVars, playVars, Threads,
    BeforeStart, AfterClosing, TypeOK, PaTypeOK, Running, Dirs
<1>4. Resources'
  BY <1>0 DEF CleanPython, mainVars, paVars, semVars, pyVars, recVars, playVars,
    Resources, Threads, BeforeStart, AfterClosing, TypeOK, PaTypeOK, Running, Dirs
<1> QED BY <1>1, <1>2, <1>3, <1>4 DEF IInv

\* FreeAndReturn of audio_record_python.c preserves the inductive invariant.
LEMMA FreeAndReturnInv ==
  ASSUME IInv, FreeAndReturn
  PROVE  IInv'
<1>0. TypeOK /\ Turns /\ Contents /\ HeardInOrder /\ Threads /\ Resources
  BY DEF IInv
<1>1. TypeOK'
  BY <1>0 DEF FreeAndReturn, mainVars, paVars, semVars, pyVars, recVars, playVars, TypeOK,
    PaTypeOK
<1>2. Turns' /\ Contents' /\ HeardInOrder'
  BY BlocksKept DEF FreeAndReturn, mainVars, paVars, semVars, pyVars, recVars, playVars
<1>3. Threads'
  BY <1>0 DEF FreeAndReturn, mainVars, paVars, semVars, pyVars, recVars, playVars,
    Threads, BeforeStart, AfterClosing, TypeOK, PaTypeOK, Running, Dirs
<1>4. Resources'
  BY <1>0 DEF FreeAndReturn, mainVars, paVars, semVars, pyVars, recVars, playVars,
    Resources, Threads, BeforeStart, AfterClosing, TypeOK, PaTypeOK, Running, Dirs
<1> QED BY <1>1, <1>2, <1>3, <1>4 DEF IInv

\* RecordEnter of audio_record_python.c preserves the inductive invariant.
LEMMA RecordEnterInv ==
  ASSUME IInv, RecordEnter
  PROVE  IInv'
<1>0. TypeOK /\ Turns /\ Contents /\ HeardInOrder /\ Threads /\ Resources
  BY DEF IInv
<1>1. TypeOK'
  BY <1>0, FramesAssumption, MaxBlocksAssumption DEF RecordEnter, PaEnterCallback,
    mainVars, paVars, semVars, pyVars, recVars, playVars, TypeOK, PaTypeOK, Dirs
<1>2. Turns'
  BY <1>0 DEF RecordEnter, PaEnterCallback, mainVars, paVars, semVars, pyVars, recVars,
    playVars, Turns, RecordHasTurn, PlayHasTurn, TypeOK
<1>3. Contents'
  BY <1>0, FramesAssumption, MaxBlocksAssumption DEF RecordEnter, PaEnterCallback,
    mainVars, paVars, semVars, pyVars, recVars, playVars, Turns, RecordHasTurn, PlayHasTurn,
    TypeOK, Contents, Put, FrameIdx
<1>4. HeardInOrder'
  BY <1>0 DEF RecordEnter, PaEnterCallback, mainVars, paVars, semVars, pyVars, recVars,
    playVars, HeardInOrder, TypeOK
<1>5. Threads'
  BY <1>0 DEF RecordEnter, PaEnterCallback, mainVars, paVars, semVars, pyVars, recVars,
    playVars, Threads, BeforeStart, AfterClosing, TypeOK, PaTypeOK, Running, Dirs
<1>6. Resources'
  BY <1>0 DEF RecordEnter, PaEnterCallback, mainVars, paVars, semVars, pyVars, recVars,
    playVars, Resources, Threads, BeforeStart, AfterClosing, TypeOK, PaTypeOK, Running, Dirs
<1> QED BY <1>1, <1>2, <1>3, <1>4, <1>5, <1>6 DEF IInv

\* RecordWait of audio_record_python.c preserves the inductive invariant.
LEMMA RecordWaitInv ==
  ASSUME IInv, RecordWait
  PROVE  IInv'
<1>0. TypeOK /\ Turns /\ Contents /\ HeardInOrder /\ Threads /\ Resources
  BY DEF IInv
<1>1. TypeOK'
  BY <1>0, FramesAssumption, MaxBlocksAssumption DEF RecordWait, mainVars, paVars,
    semVars, pyVars, recVars, playVars, TypeOK, PaTypeOK, Turns, RecordHasTurn, PlayHasTurn
<1>2. Turns'
  BY <1>0 DEF RecordWait, mainVars, paVars, semVars, pyVars, recVars, playVars, Turns,
    RecordHasTurn, PlayHasTurn, TypeOK
<1>3. Contents'
  BY <1>0, FramesAssumption, MaxBlocksAssumption DEF RecordWait, mainVars, paVars,
    semVars, pyVars, recVars, playVars, Turns, RecordHasTurn, PlayHasTurn, TypeOK, Contents,
    Put, FrameIdx
<1>4. HeardInOrder'
  BY <1>0 DEF RecordWait, mainVars, paVars, semVars, pyVars, recVars, playVars,
    HeardInOrder, TypeOK
<1>5. Threads'
  BY <1>0 DEF RecordWait, mainVars, paVars, semVars, pyVars, recVars, playVars, Threads,
    BeforeStart, AfterClosing, TypeOK, PaTypeOK, Running, Dirs
<1>6. Resources'
  BY <1>0 DEF RecordWait, mainVars, paVars, semVars, pyVars, recVars, playVars, Resources,
    Threads, BeforeStart, AfterClosing, TypeOK, PaTypeOK, Running, Dirs
<1> QED BY <1>1, <1>2, <1>3, <1>4, <1>5, <1>6 DEF IInv

\* RecordCopy of audio_record_python.c preserves the inductive invariant.
LEMMA RecordCopyInv ==
  ASSUME IInv, RecordCopy
  PROVE  IInv'
<1>0. TypeOK /\ Turns /\ Contents /\ HeardInOrder /\ Threads /\ Resources
  BY DEF IInv
<1>1. TypeOK'
  BY <1>0, FramesAssumption DEF RecordCopy, mainVars, paVars, semVars, pyVars, recVars,
    playVars, TypeOK, PaTypeOK, FrameIdx
<1>2. Turns'
  BY <1>0 DEF RecordCopy, mainVars, paVars, semVars, pyVars, recVars, playVars, Turns,
    RecordHasTurn, PlayHasTurn, TypeOK
<1>3. Contents'
  BY <1>0, FramesAssumption, MaxBlocksAssumption DEF RecordCopy, mainVars, paVars,
    semVars, pyVars, recVars, playVars, Turns, RecordHasTurn, PlayHasTurn, TypeOK, Contents,
    Put, FrameIdx
<1>4. HeardInOrder'
  BY <1>0 DEF RecordCopy, mainVars, paVars, semVars, pyVars, recVars, playVars,
    HeardInOrder, TypeOK
<1>5. Threads'
  BY <1>0 DEF RecordCopy, mainVars, paVars, semVars, pyVars, recVars, playVars, Threads,
    BeforeStart, AfterClosing, TypeOK, PaTypeOK, Running, Dirs
<1>6. Resources'
  BY <1>0 DEF RecordCopy, mainVars, paVars, semVars, pyVars, recVars, playVars, Resources,
    Threads, BeforeStart, AfterClosing, TypeOK, PaTypeOK, Running, Dirs
<1> QED BY <1>1, <1>2, <1>3, <1>4, <1>5, <1>6 DEF IInv

\* RecordPost of audio_record_python.c preserves the inductive invariant.
LEMMA RecordPostInv ==
  ASSUME IInv, RecordPost
  PROVE  IInv'
<1>0. TypeOK /\ Turns /\ Contents /\ HeardInOrder /\ Threads /\ Resources
  BY DEF IInv
<1>1. TypeOK'
  BY <1>0 DEF RecordPost, PaContinue, mainVars, paVars, semVars, pyVars, recVars,
    playVars, TypeOK, PaTypeOK, Turns, RecordHasTurn, PlayHasTurn, FrameIdx, Dirs
<1>2. Turns'
  BY <1>0 DEF RecordPost, PaContinue, mainVars, paVars, semVars, pyVars, recVars,
    playVars, Turns, RecordHasTurn, PlayHasTurn, TypeOK
<1>3. Contents'
  BY <1>0, FramesAssumption, MaxBlocksAssumption DEF RecordPost, PaContinue, mainVars,
    paVars, semVars, pyVars, recVars, playVars, Turns, RecordHasTurn, PlayHasTurn, TypeOK,
    Contents, Put, FrameIdx
<1>4. HeardInOrder'
  BY <1>0 DEF RecordPost, PaContinue, mainVars, paVars, semVars, pyVars, recVars,
    playVars, HeardInOrder, TypeOK
<1>5. Threads'
  BY <1>0 DEF RecordPost, PaContinue, mainVars, paVars, semVars, pyVars, recVars,
    playVars, Threads, BeforeStart, AfterClosing, TypeOK, PaTypeOK, Running, Dirs
<1>6. Resources'
  BY <1>0 DEF RecordPost, PaContinue, mainVars, paVars, semVars, pyVars, recVars,
    playVars, Resources, Threads, BeforeStart, AfterClosing, TypeOK, PaTypeOK, Running, Dirs
<1> QED BY <1>1, <1>2, <1>3, <1>4, <1>5, <1>6 DEF IInv

\* PlayEnter of audio_record_python.c preserves the inductive invariant.
LEMMA PlayEnterInv ==
  ASSUME IInv, PlayEnter
  PROVE  IInv'
<1>0. TypeOK /\ Turns /\ Contents /\ HeardInOrder /\ Threads /\ Resources
  BY DEF IInv
<1>1. TypeOK'
  BY <1>0 DEF PlayEnter, PaEnterCallback, mainVars, paVars, semVars, pyVars, recVars,
    playVars, TypeOK, PaTypeOK, Dirs
<1>2. Turns'
  BY <1>0 DEF PlayEnter, PaEnterCallback, mainVars, paVars, semVars, pyVars, recVars,
    playVars, Turns, RecordHasTurn, PlayHasTurn, TypeOK
<1>3. Contents'
  BY <1>0, FramesAssumption, MaxBlocksAssumption DEF PlayEnter, PaEnterCallback, mainVars,
    paVars, semVars, pyVars, recVars, playVars, Turns, RecordHasTurn, PlayHasTurn, TypeOK,
    Contents, Put, FrameIdx
<1>4. HeardInOrder'
  BY <1>0 DEF PlayEnter, PaEnterCallback, mainVars, paVars, semVars, pyVars, recVars,
    playVars, HeardInOrder, TypeOK
<1>5. Threads'
  BY <1>0 DEF PlayEnter, PaEnterCallback, mainVars, paVars, semVars, pyVars, recVars,
    playVars, Threads, BeforeStart, AfterClosing, TypeOK, PaTypeOK, Running, Dirs
<1>6. Resources'
  BY <1>0 DEF PlayEnter, PaEnterCallback, mainVars, paVars, semVars, pyVars, recVars,
    playVars, Resources, Threads, BeforeStart, AfterClosing, TypeOK, PaTypeOK, Running, Dirs
<1> QED BY <1>1, <1>2, <1>3, <1>4, <1>5, <1>6 DEF IInv

\* PlayWait of audio_record_python.c preserves the inductive invariant.
LEMMA PlayWaitInv ==
  ASSUME IInv, PlayWait
  PROVE  IInv'
<1>0. TypeOK /\ Turns /\ Contents /\ HeardInOrder /\ Threads /\ Resources
  BY DEF IInv
<1>1. TypeOK'
  BY <1>0 DEF PlayWait, mainVars, paVars, semVars, pyVars, recVars, playVars, TypeOK,
    PaTypeOK, Turns, RecordHasTurn, PlayHasTurn
<1>2. Turns'
  BY <1>0 DEF PlayWait, mainVars, paVars, semVars, pyVars, recVars, playVars, Turns,
    RecordHasTurn, PlayHasTurn, TypeOK
<1>3. Contents'
  BY <1>0, FramesAssumption, MaxBlocksAssumption DEF PlayWait, mainVars, paVars, semVars,
    pyVars, recVars, playVars, Turns, RecordHasTurn, PlayHasTurn, TypeOK, Contents, Put,
    FrameIdx
<1>4. HeardInOrder'
  BY <1>0 DEF PlayWait, mainVars, paVars, semVars, pyVars, recVars, playVars,
    HeardInOrder, TypeOK
<1>5. Threads'
  BY <1>0 DEF PlayWait, mainVars, paVars, semVars, pyVars, recVars, playVars, Threads,
    BeforeStart, AfterClosing, TypeOK, PaTypeOK, Running, Dirs
<1>6. Resources'
  BY <1>0 DEF PlayWait, mainVars, paVars, semVars, pyVars, recVars, playVars, Resources,
    Threads, BeforeStart, AfterClosing, TypeOK, PaTypeOK, Running, Dirs
<1> QED BY <1>1, <1>2, <1>3, <1>4, <1>5, <1>6 DEF IInv

\* PlayEnsureGil of audio_record_python.c preserves the inductive invariant.
LEMMA PlayEnsureGilInv ==
  ASSUME IInv, PlayEnsureGil
  PROVE  IInv'
<1>0. TypeOK /\ Turns /\ Contents /\ HeardInOrder /\ Threads /\ Resources
  BY DEF IInv
<1>1. TypeOK'
  BY <1>0, FramesAssumption DEF PlayEnsureGil, mainVars, paVars, semVars, pyVars, recVars,
    playVars, TypeOK, PaTypeOK
<1>2. Turns'
  BY <1>0 DEF PlayEnsureGil, mainVars, paVars, semVars, pyVars, recVars, playVars, Turns,
    RecordHasTurn, PlayHasTurn, TypeOK
<1>3. Contents'
  BY <1>0, FramesAssumption, MaxBlocksAssumption DEF PlayEnsureGil, mainVars, paVars,
    semVars, pyVars, recVars, playVars, Turns, RecordHasTurn, PlayHasTurn, TypeOK, Contents,
    Put, FrameIdx
<1>4. HeardInOrder'
  BY <1>0 DEF PlayEnsureGil, mainVars, paVars, semVars, pyVars, recVars, playVars,
    HeardInOrder, TypeOK
<1>5. Threads'
  BY <1>0 DEF PlayEnsureGil, mainVars, paVars, semVars, pyVars, recVars, playVars,
    Threads, BeforeStart, AfterClosing, TypeOK, PaTypeOK, Running, Dirs
<1>6. Resources'
  BY <1>0 DEF PlayEnsureGil, mainVars, paVars, semVars, pyVars, recVars, playVars,
    Resources, Threads, BeforeStart, AfterClosing, TypeOK, PaTypeOK, Running, Dirs
<1> QED BY <1>1, <1>2, <1>3, <1>4, <1>5, <1>6 DEF IInv

\* PlayFilter of audio_record_python.c preserves the inductive invariant.
LEMMA PlayFilterInv ==
  ASSUME IInv, PlayFilter
  PROVE  IInv'
<1>0. TypeOK /\ Turns /\ Contents /\ HeardInOrder /\ Threads /\ Resources
  BY DEF IInv
<1>1. TypeOK'
  BY <1>0, FramesAssumption DEF PlayFilter, mainVars, paVars, semVars, pyVars, recVars,
    playVars, TypeOK, PaTypeOK, FrameIdx
<1>2. Turns'
  BY <1>0 DEF PlayFilter, mainVars, paVars, semVars, pyVars, recVars, playVars, Turns,
    RecordHasTurn, PlayHasTurn, TypeOK
<1>3. Contents'
  BY <1>0, FramesAssumption, MaxBlocksAssumption DEF PlayFilter, mainVars, paVars,
    semVars, pyVars, recVars, playVars, Turns, RecordHasTurn, PlayHasTurn, TypeOK, Contents,
    Put, FrameIdx
<1>4. HeardInOrder'
  BY <1>0 DEF PlayFilter, mainVars, paVars, semVars, pyVars, recVars, playVars,
    HeardInOrder, TypeOK
<1>5. Threads'
  BY <1>0 DEF PlayFilter, mainVars, paVars, semVars, pyVars, recVars, playVars, Threads,
    BeforeStart, AfterClosing, TypeOK, PaTypeOK, Running, Dirs
<1>6. Resources'
  BY <1>0 DEF PlayFilter, mainVars, paVars, semVars, pyVars, recVars, playVars, Resources,
    Threads, BeforeStart, AfterClosing, TypeOK, PaTypeOK, Running, Dirs
<1> QED BY <1>1, <1>2, <1>3, <1>4, <1>5, <1>6 DEF IInv

\* PlayFiltered of audio_record_python.c preserves the inductive invariant.
LEMMA PlayFilteredInv ==
  ASSUME IInv, PlayFiltered
  PROVE  IInv'
<1>0. TypeOK /\ Turns /\ Contents /\ HeardInOrder /\ Threads /\ Resources
  BY DEF IInv
<1>1. TypeOK'
  BY <1>0 DEF PlayFiltered, mainVars, paVars, semVars, pyVars, recVars, playVars, TypeOK,
    PaTypeOK
<1>2. Turns'
  BY <1>0 DEF PlayFiltered, mainVars, paVars, semVars, pyVars, recVars, playVars, Turns,
    RecordHasTurn, PlayHasTurn, TypeOK
<1>3. Contents'
  BY <1>0, FramesAssumption, MaxBlocksAssumption DEF PlayFiltered, mainVars, paVars,
    semVars, pyVars, recVars, playVars, Turns, RecordHasTurn, PlayHasTurn, TypeOK, Contents,
    Put, FrameIdx
<1>4. HeardInOrder'
  BY <1>0 DEF PlayFiltered, mainVars, paVars, semVars, pyVars, recVars, playVars,
    HeardInOrder, TypeOK
<1>5. Threads'
  BY <1>0 DEF PlayFiltered, mainVars, paVars, semVars, pyVars, recVars, playVars, Threads,
    BeforeStart, AfterClosing, TypeOK, PaTypeOK, Running, Dirs
<1>6. Resources'
  BY <1>0 DEF PlayFiltered, mainVars, paVars, semVars, pyVars, recVars, playVars,
    Resources, Threads, BeforeStart, AfterClosing, TypeOK, PaTypeOK, Running, Dirs
<1> QED BY <1>1, <1>2, <1>3, <1>4, <1>5, <1>6 DEF IInv

\* PlayCallFails of audio_record_python.c preserves the inductive invariant.
LEMMA PlayCallFailsInv ==
  ASSUME IInv, PlayCallFails
  PROVE  IInv'
<1>0. TypeOK /\ Turns /\ Contents /\ HeardInOrder /\ Threads /\ Resources
  BY DEF IInv
<1>1. TypeOK'
  BY <1>0 DEF PlayCallFails, PaAbort, PaOnExit, mainVars, paVars, semVars, pyVars,
    recVars, playVars, TypeOK, PaTypeOK, Resources, Running, Dirs
<1>2. Turns'
  BY <1>0 DEF PlayCallFails, PaAbort, PaOnExit, mainVars, paVars, semVars, pyVars,
    recVars, playVars, Turns, RecordHasTurn, PlayHasTurn, TypeOK
<1>3. Contents'
  BY <1>0, FramesAssumption, MaxBlocksAssumption DEF PlayCallFails, PaAbort, PaOnExit,
    mainVars, paVars, semVars, pyVars, recVars, playVars, Turns, RecordHasTurn, PlayHasTurn,
    TypeOK, Contents, Put, FrameIdx
<1>4. HeardInOrder'
  BY <1>0 DEF PlayCallFails, PaAbort, PaOnExit, mainVars, paVars, semVars, pyVars,
    recVars, playVars, HeardInOrder, TypeOK
<1>5. Threads'
  BY <1>0 DEF PlayCallFails, PaAbort, PaOnExit, mainVars, paVars, semVars, pyVars,
    recVars, playVars, Threads, BeforeStart, AfterClosing, TypeOK, PaTypeOK, Running, Dirs
<1>6. Resources'
  BY <1>0 DEF PlayCallFails, PaAbort, PaOnExit, mainVars, paVars, semVars, pyVars,
    recVars, playVars, Resources, Threads, BeforeStart, AfterClosing, TypeOK, PaTypeOK,
    Running, Dirs
<1> QED BY <1>1, <1>2, <1>3, <1>4, <1>5, <1>6 DEF IInv

\* PlayReleaseGil of audio_record_python.c preserves the inductive invariant.
LEMMA PlayReleaseGilInv ==
  ASSUME IInv, PlayReleaseGil
  PROVE  IInv'
<1>0. TypeOK /\ Turns /\ Contents /\ HeardInOrder /\ Threads /\ Resources
  BY DEF IInv
<1>1. TypeOK'
  BY <1>0, FramesAssumption DEF PlayReleaseGil, mainVars, paVars, semVars, pyVars,
    recVars, playVars, TypeOK, PaTypeOK
<1>2. Turns'
  BY <1>0 DEF PlayReleaseGil, mainVars, paVars, semVars, pyVars, recVars, playVars, Turns,
    RecordHasTurn, PlayHasTurn, TypeOK
<1>3. Contents'
  BY <1>0, FramesAssumption, MaxBlocksAssumption DEF PlayReleaseGil, mainVars, paVars,
    semVars, pyVars, recVars, playVars, Turns, RecordHasTurn, PlayHasTurn, TypeOK, Contents,
    Put, FrameIdx
<1>4. HeardInOrder'
  BY <1>0 DEF PlayReleaseGil, mainVars, paVars, semVars, pyVars, recVars, playVars,
    HeardInOrder, TypeOK
<1>5. Threads'
  BY <1>0 DEF PlayReleaseGil, mainVars, paVars, semVars, pyVars, recVars, playVars,
    Threads, BeforeStart, AfterClosing, TypeOK, PaTypeOK, Running, Dirs
<1>6. Resources'
  BY <1>0 DEF PlayReleaseGil, mainVars, paVars, semVars, pyVars, recVars, playVars,
    Resources, Threads, BeforeStart, AfterClosing, TypeOK, PaTypeOK, Running, Dirs
<1> QED BY <1>1, <1>2, <1>3, <1>4, <1>5, <1>6 DEF IInv

\* PlayCopy of audio_record_python.c preserves the inductive invariant.
LEMMA PlayCopyInv ==
  ASSUME IInv, PlayCopy
  PROVE  IInv'
<1>0. TypeOK /\ Turns /\ Contents /\ HeardInOrder /\ Threads /\ Resources
  BY DEF IInv
<1>1. TypeOK'
  <2>1. pi \in FrameIdx
    BY <1>0, FramesAssumption DEF PlayCopy, TypeOK, FrameIdx
  <2>2. PICK v \in Nat \cup {Junk} : out' = [out EXCEPT ![pi] = v]
    BY <1>0, <2>1 DEF PlayCopy, TypeOK
  <2>3. out' \in [FrameIdx -> Nat \cup {Junk}]
    BY <1>0, <2>1, <2>2 DEF TypeOK
  <2>4. pi' \in 0..Frames
    BY <1>0, <2>1, FramesAssumption DEF PlayCopy, TypeOK, FrameIdx
  <2>5. UNCHANGED <<paVars, mainVars, semVars, semInit, samples, buf, pyVars, recVars,
                    ppc, arr, arrRefs, heard>>
    BY DEF PlayCopy
  <2> QED
    BY <1>0, <2>3, <2>4, <2>5
    DEF mainVars, paVars, semVars, pyVars, recVars, TypeOK, PaTypeOK
<1>2. Turns'
  BY <1>0 DEF PlayCopy, mainVars, paVars, semVars, pyVars, recVars, playVars, Turns,
    RecordHasTurn, PlayHasTurn, TypeOK
<1>3. Contents'
  BY <1>0, FramesAssumption, MaxBlocksAssumption DEF PlayCopy, mainVars, paVars, semVars,
    pyVars, recVars, playVars, Turns, RecordHasTurn, PlayHasTurn, TypeOK, Contents, Put,
    FrameIdx
<1>4. HeardInOrder'
  BY <1>0 DEF PlayCopy, mainVars, paVars, semVars, pyVars, recVars, playVars,
    HeardInOrder, TypeOK
<1>5. Threads'
  BY <1>0 DEF PlayCopy, mainVars, paVars, semVars, pyVars, recVars, playVars, Threads,
    BeforeStart, AfterClosing, TypeOK, PaTypeOK, Running, Dirs
<1>6. Resources'
  BY <1>0 DEF PlayCopy, mainVars, paVars, semVars, pyVars, recVars, playVars, Resources,
    Threads, BeforeStart, AfterClosing, TypeOK, PaTypeOK, Running, Dirs
<1> QED BY <1>1, <1>2, <1>3, <1>4, <1>5, <1>6 DEF IInv

\* PlayPost of audio_record_python.c preserves the inductive invariant.
LEMMA PlayPostInv ==
  ASSUME IInv, PlayPost
  PROVE  IInv'
<1>0. TypeOK /\ Turns /\ Contents /\ HeardInOrder /\ Threads /\ Resources
  BY DEF IInv
<1>1. TypeOK'
  BY <1>0 DEF PlayPost, PaContinue, mainVars, paVars, semVars, pyVars, recVars, playVars,
    TypeOK, PaTypeOK, Turns, RecordHasTurn, PlayHasTurn, FrameIdx, Dirs
<1>2. Turns'
  BY <1>0 DEF PlayPost, PaContinue, mainVars, paVars, semVars, pyVars, recVars, playVars,
    Turns, RecordHasTurn, PlayHasTurn, TypeOK
<1>3. Contents'
  BY <1>0, FramesAssumption, MaxBlocksAssumption DEF PlayPost, PaContinue, mainVars,
    paVars, semVars, pyVars, recVars, playVars, Turns, RecordHasTurn, PlayHasTurn, TypeOK,
    Contents, Put, FrameIdx
<1>4. HeardInOrder'
  BY <1>0 DEF PlayPost, PaContinue, mainVars, paVars, semVars, pyVars, recVars, playVars,
    HeardInOrder, TypeOK, Contents, Put, PlayHasTurn, FrameIdx
<1>5. Threads'
  BY <1>0 DEF PlayPost, PaContinue, mainVars, paVars, semVars, pyVars, recVars, playVars,
    Threads, BeforeStart, AfterClosing, TypeOK, PaTypeOK, Running, Dirs
<1>6. Resources'
  BY <1>0 DEF PlayPost, PaContinue, mainVars, paVars, semVars, pyVars, recVars, playVars,
    Resources, Threads, BeforeStart, AfterClosing, TypeOK, PaTypeOK, Running, Dirs
<1> QED BY <1>1, <1>2, <1>3, <1>4, <1>5, <1>6 DEF IInv

\* DeviceError(s) of audio_record_python.c preserves the inductive invariant.
LEMMA DeviceErrorInv ==
  ASSUME NEW s \in Dirs, IInv, DeviceError(s)
  PROVE  IInv'
<1>0. TypeOK /\ Turns /\ Contents /\ HeardInOrder /\ Threads /\ Resources
  BY DEF IInv
<1>1. TypeOK'
  BY <1>0 DEF DeviceError, PaDeviceError, PaOnExit, mainVars, paVars, semVars, pyVars,
    recVars, playVars, TypeOK, PaTypeOK, Dirs
<1>2. Turns' /\ Contents' /\ HeardInOrder'
  BY BlocksKept DEF DeviceError, PaDeviceError, PaOnExit, mainVars, paVars, semVars,
    pyVars, recVars, playVars
<1>3. Threads'
  BY <1>0 DEF DeviceError, PaDeviceError, PaOnExit, mainVars, paVars, semVars, pyVars,
    recVars, playVars, Threads, BeforeStart, AfterClosing, TypeOK, PaTypeOK, Running, Dirs
<1>4. Resources'
  BY <1>0 DEF DeviceError, PaDeviceError, PaOnExit, mainVars, paVars, semVars, pyVars,
    recVars, playVars, Resources, Threads, BeforeStart, AfterClosing, TypeOK, PaTypeOK,
    Running, Dirs
<1> QED BY <1>1, <1>2, <1>3, <1>4 DEF IInv

\* CancelThread(s) of audio_record_python.c preserves the inductive invariant.
LEMMA CancelThreadInv ==
  ASSUME NEW s \in Dirs, IInv, CancelThread(s)
  PROVE  IInv'
<1>0. TypeOK /\ Turns /\ Contents /\ HeardInOrder /\ Threads /\ Resources
  BY DEF IInv
<1>1. TypeOK'
  BY <1>0 DEF CancelThread, PaCancelled, PaOnExit, mainVars, paVars, semVars, pyVars,
    recVars, playVars, TypeOK, PaTypeOK, Dirs
<1>2. Turns' /\ Contents' /\ HeardInOrder'
  BY BlocksKept DEF CancelThread, PaCancelled, PaOnExit, mainVars, paVars, semVars,
    pyVars, recVars, playVars
<1>3. Threads'
  BY <1>0 DEF CancelThread, PaCancelled, PaOnExit, mainVars, paVars, semVars, pyVars,
    recVars, playVars, Threads, BeforeStart, AfterClosing, TypeOK, PaTypeOK, Running, Dirs
<1>4. Resources'
  BY <1>0 DEF CancelThread, PaCancelled, PaOnExit, mainVars, paVars, semVars, pyVars,
    recVars, playVars, Resources, Threads, BeforeStart, AfterClosing, TypeOK, PaTypeOK,
    Running, Dirs
<1> QED BY <1>1, <1>2, <1>3, <1>4 DEF IInv

\* SigInt of audio_record_python.c preserves the inductive invariant.
LEMMA SigIntInv ==
  ASSUME IInv, SigInt
  PROVE  IInv'
<1>0. TypeOK /\ Turns /\ Contents /\ HeardInOrder /\ Threads /\ Resources
  BY DEF IInv
<1>1. TypeOK'
  BY <1>0 DEF SigInt, mainVars, paVars, semVars, pyVars, recVars, playVars, TypeOK,
    PaTypeOK, Resources, Running
<1>2. Turns' /\ Contents' /\ HeardInOrder'
  BY BlocksKept DEF SigInt, mainVars, paVars, semVars, pyVars, recVars, playVars
<1>3. Threads'
  BY <1>0 DEF SigInt, mainVars, paVars, semVars, pyVars, recVars, playVars, Threads,
    BeforeStart, AfterClosing, TypeOK, PaTypeOK, Running, Dirs
<1>4. Resources'
  BY <1>0 DEF SigInt, mainVars, paVars, semVars, pyVars, recVars, playVars, Resources,
    Threads, BeforeStart, AfterClosing, TypeOK, PaTypeOK, Running, Dirs
<1> QED BY <1>1, <1>2, <1>3, <1>4 DEF IInv

\* The initial states satisfy the inductive invariant.
LEMMA InitInv == Init => IInv
<1> SUFFICES ASSUME Init PROVE IInv
  OBVIOUS
<1>1. TypeOK
  <2>1. heard \in Seq([FrameIdx -> Nat \cup {Junk}])
    BY DEF Init
  <2>2. buf \in [FrameIdx -> Nat] /\ arr \in [FrameIdx -> Nat]
        /\ out \in [FrameIdx -> Nat \cup {Junk}]
    BY DEF Init
  <2> QED
    BY <2>1, <2>2, FramesAssumption, MaxBlocksAssumption
    DEF Init, PaStart, TypeOK, PaTypeOK
<1>2. Turns /\ Contents /\ HeardInOrder
  BY DEF Init, Turns, Contents, Put, HeardInOrder, RecordHasTurn, PlayHasTurn
<1>3. Threads
  BY DEF Init, PaStart, Threads, BeforeStart, AfterClosing, Dirs
<1>4. Resources
  BY DEF Init, PaStart, Resources, Running, Dirs
<1> QED BY <1>1, <1>2, <1>3, <1>4 DEF IInv

\* A stuttering step changes nothing the invariant speaks of.
LEMMA StutterInv ==
  ASSUME IInv, UNCHANGED vars
  PROVE  IInv'
<1>1. TypeOK'
  BY DEF IInv, TypeOK, PaTypeOK, vars, paVars, mainVars, semVars, pyVars, recVars, playVars
<1>2. Turns' /\ Contents' /\ HeardInOrder'
  BY BlocksKept DEF vars
<1>3. Threads'
  BY DEF IInv, Threads, BeforeStart, AfterClosing, vars, paVars, mainVars, semVars, recVars,
         playVars
<1>4. Resources'
  BY DEF IInv, Resources, Running, vars, paVars, mainVars, pyVars, playVars
<1> QED BY <1>1, <1>2, <1>3, <1>4 DEF IInv

\* Every step of the program preserves the inductive invariant.
LEMMA NextInv == IInv /\ [Next]_vars => IInv'
<1> SUFFICES ASSUME IInv, [Next]_vars PROVE IInv'
  OBVIOUS
<1>1. CASE Main
  BY <1>1, SetupPythonInv, InitSemaphoresInv, AllocateSamplesInv, InitializePortAudioInv,
    PollStreamsInv, TerminatePortAudioInv, AcquireGilInv, CleanPythonInv, FreeAndReturnInv,
    OpenStreamInv, StartStreamInv, CloseStreamInv, JoinStreamInv DEF Main
<1>2. CASE Record
  BY <1>2, RecordEnterInv, RecordWaitInv, RecordCopyInv, RecordPostInv DEF Record
<1>3. CASE Play
  BY <1>3, PlayEnterInv, PlayWaitInv, PlayEnsureGilInv, PlayFilterInv, PlayFilteredInv,
    PlayCallFailsInv, PlayReleaseGilInv, PlayCopyInv, PlayPostInv DEF Play
<1>4. CASE SigInt
  BY <1>4, SigIntInv
<1>5. CASE \E s \in Dirs : DeviceError(s) \/ CancelThread(s)
  BY <1>5, DeviceErrorInv, CancelThreadInv
<1>6. CASE UNCHANGED vars
  BY <1>6, StutterInv
<1> QED BY <1>1, <1>2, <1>3, <1>4, <1>5, <1>6 DEF Next

\* The inductive invariant holds throughout every behaviour.
THEOREM Invariance == Spec => []IInv
BY InitInv, NextInv, PTL DEF Spec

\* The types of the variables, for every instance.
THEOREM Typing == Spec => []TypeOK
<1>1. IInv => TypeOK
  BY DEF IInv
<1> QED BY <1>1, Invariance, PTL

\* No callback is ever left waiting for a turn that nobody has.
THEOREM NoMutualWait == Spec => []WaitsForTheOther
<1>1. IInv => WaitsForTheOther
  BY DEF IInv, TypeOK, Turns, Resources, Threads, RecordHasTurn, PlayHasTurn, WaitsForTheOther
<1> QED BY <1>1, Invariance, PTL

\* recordCallback, playCallback and main never use the shared buffer at the same time.
THEOREM BufferIsExclusive == Spec => []ExclusiveBuffer
<1>1. IInv => ExclusiveBuffer
  <2> SUFFICES ASSUME IInv PROVE ExclusiveBuffer
    OBVIOUS
  <2>1. RecordHasTurn => thread["in"] = "cb"
    BY DEF IInv, Threads, RecordHasTurn
  <2>2. ppc = "filter" => thread["out"] = "cb"
    BY DEF IInv, Threads
  <2>3. \A s \in Dirs : thread[s] = "cb" => samples = "live"
    BY DEF IInv, Threads, Resources, AfterClosing
  <2> QED
    BY <2>1, <2>2, <2>3 DEF IInv, TypeOK, Turns, ExclusiveBuffer, Dirs
<1> QED BY <1>1, Invariance, PTL

\* Blocks are heard once, in order and in one piece.
THEOREM OrderIsKept == Spec => []HeardInOrder
<1>1. IInv => HeardInOrder
  BY DEF IInv
<1> QED BY <1>1, Invariance, PTL

\* When main returns, both streams are closed, the buffer is freed and main has the GIL;
\* past the label done the Python references have been dropped, too.
THEOREM ReturnReleases == Spec => []ReleasedAtReturn
<1>1. IInv => ReleasedAtReturn
  BY DEF IInv, Threads, Resources, AfterClosing, ReleasedAtReturn, TypeOK, PaTypeOK, Dirs
<1> QED BY <1>1, Invariance, PTL

\* After a failed call of the filter, main stays behind the GIL for good.
THEOREM FailureKeepsGil == Spec => []FailedCallKeepsGil
<1>1. IInv => FailedCallKeepsGil
  BY DEF IInv, Resources, FailedCallKeepsGil
<1> QED BY <1>1, Invariance, PTL

\* A step of the callbacks is a step of the hand-over, or does not show in it.
LEMMA StepRefines == IInv /\ [Next]_vars => [Handoff!Next]_(Handoff!vars)
<1> SUFFICES ASSUME IInv, [Next]_vars PROVE [Handoff!Next]_(Handoff!vars)
  OBVIOUS
<1> USE DEF Handoff!vars, Handoff!FrameIdx
<1>1. CASE RecordPost
  <2>1. captured - 1 = Len(heard) /\ rpc = "copy" /\ captured \in Nat
    BY <1>1, MaxBlocksAssumption
    DEF IInv, RecordPost, Contents, Put, RecordHasTurn, TypeOK
  <2>2. rpc' = "idle" /\ captured' = captured /\ heard' = heard
    BY <1>1 DEF RecordPost, playVars
  <2> QED BY <2>1, <2>2 DEF Handoff!Next, Handoff!Put
<1>2. CASE PlayPost
  <2>1. /\ Put = Len(heard) + 1
        /\ out \in [FrameIdx -> {Put} \cup {Junk}]
    BY <1>2, FramesAssumption
    DEF IInv, PlayPost, Contents, PlayHasTurn, TypeOK, FrameIdx
  <2>2. rpc' = rpc /\ captured' = captured /\ heard' = Append(heard, out)
    BY <1>2 DEF PlayPost, recVars
  <2> QED BY <2>1, <2>2 DEF Put, FrameIdx, Handoff!Next, Handoff!Hear
<1>3. CASE RecordEnter
  BY <1>3, MaxBlocksAssumption DEF IInv, TypeOK, RecordEnter, playVars
<1>4. CASE RecordWait \/ RecordCopy
  BY <1>4 DEF RecordWait, RecordCopy, playVars
<1>5. CASE UNCHANGED <<rpc, captured, heard>>
  BY <1>5
<1>6. CASE Main
  <2>1. UNCHANGED <<recVars, playVars>>
    BY <1>6 DEF Main, SetupPython, InitSemaphores, AllocateSamples, InitializePortAudio,
      OpenStream, StartStream, PollStreams, CloseStream, JoinStream, TerminatePortAudio,
      AcquireGil, CleanPython, FreeAndReturn
  <2> QED BY <2>1, <1>5 DEF recVars, playVars
<1>7. CASE Play /\ ~PlayPost
  <2>1. UNCHANGED <<recVars, heard>>
    BY <1>7 DEF Play, PlayEnter, PlayWait, PlayEnsureGil, PlayFilter, PlayFiltered,
      PlayCallFails, PlayReleaseGil, PlayCopy
  <2> QED BY <2>1, <1>5 DEF recVars
<1>8. CASE SigInt \/ \E s \in Dirs : DeviceError(s) \/ CancelThread(s)
  <2>1. UNCHANGED <<recVars, playVars>>
    BY <1>8 DEF SigInt, DeviceError, CancelThread
  <2> QED BY <2>1, <1>5 DEF recVars, playVars
<1>9. CASE UNCHANGED vars
  BY <1>5, <1>9 DEF vars, recVars, playVars
<1> QED
  BY <1>1, <1>2, <1>3, <1>4, <1>6, <1>7, <1>8, <1>9 DEF Next, Record

\* The program implements the abstract hand-over of blocks.
THEOREM Refinement == Spec => RefinesHandoff
<1>1. Init => Handoff!Init
  BY DEF Init, Handoff!Init
<1> QED BY <1>1, StepRefines, Invariance, PTL DEF Spec, RefinesHandoff, Handoff!Spec
=============================================================================
