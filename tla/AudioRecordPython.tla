------------------------- MODULE AudioRecordPython -------------------------
(***************************************************************************)
(* real_time_audio/audio_record_python.c: a record callback and a play     *)
(* callback, on two PortAudio threads, hand blocks of samples to each      *)
(* other through one buffer and two semaphores; the play callback filters  *)
(* the block in embedded Python, under the GIL.  main sets everything up,  *)
(* polls until both streams are inactive, and tears everything down.       *)
(*                                                                         *)
(* A block is named by its number of capture.  recordedSamples is modelled *)
(* frame by frame: widx and ridx start at 0 in every callback, so that the *)
(* masked indices 2i and 2i+1 are the two samples of frame i.              *)
(***************************************************************************)
EXTENDS PortAudio, Integers, Sequences

CONSTANTS
  Frames,      \* FRAMES_PER_SAMPLE
  MaxBlocks,   \* bound: callbacks the record thread is given
  Faults,      \* what the environment may do wrong
  Junk         \* a sample read from freed memory that no longer holds what it did

FaultKinds == {"import", "numpy", "func", "sem", "calloc", "painit", "open",
               "start", "device", "filter", "sigint"}

ASSUME FramesAssumption == Frames \in Nat \ {0}
ASSUME MaxBlocksAssumption == MaxBlocks \in Nat
ASSUME FaultsAssumption == Faults \subseteq FaultKinds
ASSUME JunkAssumption == Junk \notin Nat

VARIABLES
  pc,         \* where main is, or how the process ended
  err,        \* the PaError main stored last: "paNoError" or "error"
  code,       \* the exit status
  readDone, writeDone,   \* semaphore values
  semInit,    \* the semaphores sem_init was called on with success
  samples,    \* data.recordedSamples: "wild", "null", "live", "freed"
  buf,        \* what recordedSamples holds
  gil,        \* holder of the global interpreter lock
  pFunc,      \* filter_audio of the module: "callable", or "NULL" when not found
  pyRefs,     \* references to pFunc and pModule this program still owns
  captured,   \* record callbacks entered; also the number of the block captured
  rpc, ri,    \* record callback: program counter, loop index
  ppc, pi,    \* play callback: program counter, loop index
  arr,        \* the array filter_audio returned (its data outlives it)
  arrRefs,    \* references to that array
  out,        \* the output buffer of the play callback
  heard       \* history: output buffers given back to PortAudio

mainVars == <<pc, err, code>>
semVars == <<readDone, writeDone>>
pyVars == <<gil, pFunc, pyRefs>>
recVars == <<rpc, ri, captured>>
playVars == <<ppc, pi, arr, arrRefs, out, heard>>
vars == <<paVars, mainVars, semVars, semInit, samples, buf, pyVars, recVars, playVars>>

FrameIdx == 0..(Frames - 1)

Outcome(f) ==
  IF f \notin Faults THEN {"ok"} ELSE IF f = "start" THEN PaStartOutcomes ELSE {"ok", "fail"}

Result(ok) == IF ok = "ok" THEN "paNoError" ELSE "error"

Running == pc \notin {"noPython", "returned", "signalled", "crashed"}

Init ==
  /\ PaStart
  /\ pc = "python" /\ err = "paNoError" /\ code = 0
  /\ readDone = 0 /\ writeDone = 0   \* static storage
  /\ semInit = {}
  /\ samples = "wild" /\ buf = [f \in FrameIdx |-> 0]
  /\ gil = "none" /\ pFunc = "NULL" /\ pyRefs = 0
  /\ rpc = "idle" /\ ri = 0 /\ captured = 0
  /\ ppc = "idle" /\ pi = 0
  /\ arr = [f \in FrameIdx |-> 0] /\ arrRefs = 0
  /\ out = [f \in FrameIdx |-> 0] /\ heard = <<>>

----------------------------------------------------------------------------
(* main: setup                                                             *)

\* Py_Initialize, import of freqfilter, lookup of filter_audio, release of the GIL
\* and installation of the signal handler.  import_array() returns from main with
\* 0 when numpy cannot be loaded, and keeps the module that was imported before.
SetupPython ==
  /\ pc = "python"
  /\ \E numpy \in Outcome("numpy"), module \in Outcome("import"), func \in Outcome("func") :
       IF numpy = "ok" /\ module = "ok"
       THEN /\ pc' = "sem" /\ gil' = "none"
            /\ pFunc' = IF func = "ok" THEN "callable" ELSE "NULL"
            /\ pyRefs' = 1
            /\ UNCHANGED code
       ELSE /\ pc' = "noPython" /\ gil' = "main"
            /\ code' = IF numpy = "ok" THEN -1 ELSE 0
            /\ pyRefs' = IF module = "ok" THEN 1 ELSE 0
            /\ UNCHANGED pFunc
  /\ UNCHANGED <<paVars, err, semVars, semInit, samples, buf, recVars, playVars>>

\* Mutant: readDone starts with two turns
InitSemaphoresTwoTurns ==
  /\ pc = "sem"
  /\ readDone' = 2 /\ semInit' = {"readDone"} /\ pc' = "calloc"
  /\ UNCHANGED <<paVars, err, code, writeDone, samples, buf, pyVars, recVars, playVars>>

\* if (sem_init(&readDone, 0, 1) < 0 && sem_init(&writeDone, 0, 0) < 0) goto done:
\* the second call is made only when the first one failed
InitSemaphores ==
  /\ pc = "sem"
  /\ \/ /\ readDone' = 1 /\ semInit' = {"readDone"}
        /\ pc' = "calloc"
     \/ /\ "sem" \in Faults
        /\ \E second \in {"ok", "fail"} :
             /\ semInit' = IF second = "ok" THEN {"writeDone"} ELSE {}
             /\ pc' = IF second = "ok" THEN "calloc" ELSE "close_in"
        /\ UNCHANGED readDone
  /\ UNCHANGED <<paVars, err, code, writeDone, samples, buf, pyVars, recVars, playVars>>

AllocateSamples ==
  /\ pc = "calloc"
  /\ \E ok \in Outcome("calloc") :
       /\ samples' = IF ok = "ok" THEN "live" ELSE "null"
       /\ pc' = IF ok = "ok" THEN "painit" ELSE "close_in"
  /\ UNCHANGED <<paVars, err, code, semVars, semInit, buf, pyVars, recVars, playVars>>

InitializePortAudio ==
  /\ pc = "painit"
  /\ \E ok \in Outcome("painit") :
       /\ PaInitialize(ok)
       /\ err' = Result(ok)
       /\ pc' = IF ok = "ok" THEN "open_in" ELSE "close_in"
  /\ UNCHANGED <<code, semVars, semInit, samples, buf, pyVars, recVars, playVars>>

OpenStream(s) ==
  /\ pc = (IF s = "in" THEN "open_in" ELSE "open_out")
  /\ \E ok \in Outcome("open") :
       /\ PaOpenStream(s, ok)
       /\ err' = Result(ok)
       /\ pc' = IF ok = "fail" THEN "close_in" ELSE IF s = "in" THEN "open_out" ELSE "start_in"
  /\ UNCHANGED <<code, semVars, semInit, samples, buf, pyVars, recVars, playVars>>

StartStream(s) ==
  /\ pc = (IF s = "in" THEN "start_in" ELSE "start_out")
  /\ \E how \in Outcome("start") :
       /\ PaStartStream(s, how)
       /\ err' = IF how = "stuck" THEN err ELSE Result(how)
       /\ pc' = IF how = "stuck" THEN "stuck" ELSE IF how = "fail" THEN "close_in"
                ELSE IF s = "in" THEN "start_out" ELSE "poll_in"
  /\ UNCHANGED <<code, semVars, semInit, samples, buf, pyVars, recVars, playVars>>

\* Mutant: the loop ends only when both streams become inactive between two polls
PollStreamsForEver ==
  /\ \/ pc = "poll_in"  /\ pc' = IF active["in"] = 1 THEN "poll_in" ELSE "poll_out"
     \/ pc = "poll_out" /\ pc' = "poll_in"
  /\ err' = "paNoError"
  /\ UNCHANGED <<paVars, code, semVars, semInit, samples, buf, pyVars, recVars, playVars>>

\* while (Pa_IsStreamActive(inputStream) == 1 || Pa_IsStreamActive(outputStream) == 1)
\*     Pa_Sleep(100);
PollStreams ==
  /\ \/ pc = "poll_in"  /\ pc' = IF active["in"] = 1 THEN "poll_in" ELSE "poll_out"
     \/ pc = "poll_out" /\ pc' = IF active["out"] = 1 THEN "poll_in" ELSE "close_in"
  /\ err' = "paNoError"
  /\ UNCHANGED <<paVars, code, semVars, semInit, samples, buf, pyVars, recVars, playVars>>

----------------------------------------------------------------------------
(* main: teardown, from the label done                                     *)

AfterClose(s) == IF s = "in" THEN "close_out" ELSE "terminate"

\* err = Pa_CloseStream(...) up to the point where the callback thread is joined
CloseStream(s) ==
  /\ pc = (IF s = "in" THEN "close_in" ELSE "close_out")
  /\ \E result \in Validate(s) :
       \/ /\ result = "fault"
          /\ pc' = "crashed"
          /\ UNCHANGED <<paVars, err>>
       \/ /\ result \in {"notInitialized", "badStreamPtr"}
          /\ err' = "error" /\ pc' = AfterClose(s)
          /\ UNCHANGED paVars
       \/ /\ result = "valid" /\ PaCloseStopped(s)
          /\ err' = "paNoError" /\ pc' = AfterClose(s)
       \/ /\ result = "valid" /\ PaCloseAbort(s)
          /\ pc' = IF s = "in" THEN "join_in" ELSE "join_out"
          /\ UNCHANGED err
  /\ UNCHANGED <<code, semVars, semInit, samples, buf, pyVars, recVars, playVars>>

JoinStream(s) ==
  /\ pc = (IF s = "in" THEN "join_in" ELSE "join_out")
  /\ PaCloseJoin(s)
  /\ err' = "paNoError" /\ pc' = AfterClose(s)
  /\ UNCHANGED <<code, semVars, semInit, samples, buf, pyVars, recVars, playVars>>

TerminatePortAudio ==
  /\ pc = "terminate"
  /\ PaTerminate
  /\ pc' = "gil"
  /\ UNCHANGED <<err, code, semVars, semInit, samples, buf, pyVars, recVars, playVars>>

\* Mutant: the GIL is waited for and not taken
AcquireGilNot ==
  /\ pc = "gil" /\ gil = "none"
  /\ pc' = "clean"
  /\ UNCHANGED <<paVars, err, code, semVars, semInit, samples, buf, pyVars, recVars, playVars>>

\* Py_END_ALLOW_THREADS
AcquireGil ==
  /\ pc = "gil" /\ gil = "none"
  /\ gil' = "main" /\ pc' = "clean"
  /\ UNCHANGED <<paVars, err, code, semVars, semInit, samples, buf, pFunc, pyRefs, recVars, playVars>>

\* cleanPython
CleanPython ==
  /\ pc = "clean"
  /\ pyRefs' = pyRefs - 1 /\ pc' = "free"
  /\ UNCHANGED <<paVars, err, code, semVars, semInit, samples, buf, gil, pFunc, recVars, playVars>>

\* sem_destroy twice, free(data.recordedSamples) and the exit status
FreeAndReturn ==
  /\ pc = "free"
  /\ \/ /\ samples # "null"
        /\ samples' = "freed" /\ pc' = (IF samples = "live" THEN "returned" ELSE "crashed")
     \/ /\ samples # "live"   \* NULL, or a wild pointer that happens to be NULL
        /\ pc' = "returned" /\ UNCHANGED samples
  /\ code' = IF err = "paNoError" THEN 0 ELSE 1
  /\ UNCHANGED <<paVars, err, semVars, semInit, buf, pyVars, recVars, playVars>>

----------------------------------------------------------------------------
(* recordCallback, on the input stream's thread                            *)

RecordEnter ==
  /\ Running /\ rpc = "idle" /\ captured < MaxBlocks
  /\ PaEnterCallback("in")
  /\ captured' = captured + 1 /\ rpc' = "wait"
  /\ UNCHANGED <<mainVars, semVars, semInit, samples, buf, pyVars, ri, playVars>>

\* Mutant: no sem_wait(&readDone)
RecordWaitNot ==
  /\ Running /\ rpc = "wait"
  /\ rpc' = "copy" /\ ri' = 0
  /\ UNCHANGED <<paVars, mainVars, semVars, semInit, samples, buf, pyVars, captured, playVars>>

RecordWait ==
  /\ Running /\ rpc = "wait"
  /\ readDone > 0
  /\ readDone' = readDone - 1
  /\ rpc' = "copy" /\ ri' = 0
  /\ UNCHANGED <<paVars, mainVars, writeDone, semInit, samples, buf, pyVars, captured, playVars>>

RecordCopy ==
  /\ Running /\ rpc = "copy" /\ ri < Frames
  /\ buf' = [buf EXCEPT ![ri] = captured]
  /\ ri' = ri + 1
  /\ UNCHANGED <<paVars, mainVars, semVars, semInit, samples, pyVars, rpc, captured, playVars>>

RecordPost ==
  /\ Running /\ rpc = "copy" /\ ri = Frames
  /\ writeDone' = writeDone + 1
  /\ rpc' = "idle" /\ PaContinue("in")
  /\ UNCHANGED <<mainVars, readDone, semInit, samples, buf, pyVars, ri, captured, playVars>>

----------------------------------------------------------------------------
(* playCallback, on the output stream's thread                             *)

PlayEnter ==
  /\ Running /\ ppc = "idle"
  /\ PaEnterCallback("out")
  /\ ppc' = "wait"
  /\ UNCHANGED <<mainVars, semVars, semInit, samples, buf, pyVars, recVars, pi, arr, arrRefs, out, heard>>

\* Mutant: no sem_wait(&writeDone)
PlayWaitNot ==
  /\ Running /\ ppc = "wait"
  /\ ppc' = "gil"
  /\ UNCHANGED <<paVars, mainVars, semVars, semInit, samples, buf, pyVars, recVars,
                 pi, arr, arrRefs, out, heard>>

PlayWait ==
  /\ Running /\ ppc = "wait"
  /\ writeDone > 0
  /\ writeDone' = writeDone - 1
  /\ ppc' = "gil"
  /\ UNCHANGED <<paVars, mainVars, readDone, semInit, samples, buf, pyVars, recVars,
                 pi, arr, arrRefs, out, heard>>

\* PyGILState_Ensure; the array argument wraps recordedSamples without a copy
PlayEnsureGil ==
  /\ Running /\ ppc = "gil" /\ gil = "none"
  /\ gil' = "play" /\ ppc' = "filter" /\ pi' = 0
  /\ UNCHANGED <<paVars, mainVars, semVars, semInit, samples, buf, pFunc, pyRefs, recVars,
                 arr, arrRefs, out, heard>>

\* filter_audio reads the shared buffer through that array, frame by frame
PlayFilter ==
  /\ Running /\ ppc = "filter" /\ pFunc = "callable" /\ pi < Frames
  /\ arr' = [arr EXCEPT ![pi] = buf[pi]]
  /\ pi' = pi + 1
  /\ UNCHANGED <<paVars, mainVars, semVars, semInit, samples, buf, pyVars, recVars,
                 ppc, arrRefs, out, heard>>

\* PyObject_CallObject returned a new array; rptr is set to its data
PlayFiltered ==
  /\ Running /\ ppc = "filter" /\ pFunc = "callable" /\ pi = Frames
  /\ ppc' = "release" /\ arrRefs' = 1
  /\ UNCHANGED <<paVars, mainVars, semVars, semInit, samples, buf, pyVars, recVars,
                 pi, arr, out, heard>>

\* PyObject_CallObject returned NULL: the callback drops references that main owns
\* and aborts, holding the GIL and the turn at the buffer.  Without filter_audio
\* (pFunc NULL) the call itself, or Py_DECREF(pFunc), faults.
PlayCallFails ==
  /\ Running /\ ppc = "filter"
  /\ IF pFunc = "callable"
     THEN /\ "filter" \in Faults
          /\ pyRefs' = pyRefs - 1
          /\ ppc' = "aborted" /\ PaAbort("out")
          /\ UNCHANGED pc
     ELSE /\ pc' = "crashed"
          /\ UNCHANGED <<paVars, pyRefs, ppc>>
  /\ UNCHANGED <<err, code, semVars, semInit, samples, buf, gil, pFunc, recVars,
                 pi, arr, arrRefs, out, heard>>

\* Py_DECREF(pValue) drops the only reference to the array, then PyGILState_Release
PlayReleaseGil ==
  /\ Running /\ ppc = "release"
  /\ arrRefs' = 0
  /\ gil' = "none" /\ ppc' = "copy" /\ pi' = 0
  /\ UNCHANGED <<paVars, mainVars, semVars, semInit, samples, buf, pFunc, pyRefs, recVars,
                 arr, out, heard>>

\* *wptr++ = rptr[ridx++ ...]: rptr points into the array released before
PlayCopy ==
  /\ Running /\ ppc = "copy" /\ pi < Frames
  /\ \E v \in {arr[pi]} \cup (IF arrRefs > 0 THEN {} ELSE {Junk}) : out' = [out EXCEPT ![pi] = v]
  /\ pi' = pi + 1
  /\ UNCHANGED <<paVars, mainVars, semVars, semInit, samples, buf, pyVars, recVars,
                 ppc, arr, arrRefs, heard>>

\* Mutant: no sem_post(&readDone)
PlayPostNot ==
  /\ Running /\ ppc = "copy" /\ pi = Frames
  /\ heard' = Append(heard, out)
  /\ ppc' = "idle" /\ PaContinue("out")
  /\ UNCHANGED <<mainVars, semVars, semInit, samples, buf, pyVars, recVars,
                 pi, arr, arrRefs, out>>

PlayPost ==
  /\ Running /\ ppc = "copy" /\ pi = Frames
  /\ readDone' = readDone + 1
  /\ heard' = Append(heard, out)
  /\ ppc' = "idle" /\ PaContinue("out")
  /\ UNCHANGED <<mainVars, writeDone, semInit, samples, buf, pyVars, recVars,
                 pi, arr, arrRefs, out>>

----------------------------------------------------------------------------
(* The environment                                                         *)

\* A device fails under a callback thread that waits for frames
DeviceError(s) ==
  /\ Running /\ "device" \in Faults
  /\ PaDeviceError(s)
  /\ UNCHANGED <<mainVars, semVars, semInit, samples, buf, pyVars, recVars, playVars>>

\* A callback thread acts on the cancellation sent by Pa_CloseStream
CancelThread(s) ==
  /\ Running
  /\ PaCancelled(s)
  /\ UNCHANGED <<mainVars, semVars, semInit, samples, buf, pyVars, recVars, playVars>>

\* sigCatch: cleanPython without the GIL, then exit(0).  Finalising an interpreter
\* whose lock the thread does not hold may fault.
SigInt ==
  /\ Running /\ pc # "python" /\ "sigint" \in Faults
  /\ pyRefs' = pyRefs - 1
  /\ pc' \in {"signalled", "crashed"} /\ code' = 0
  /\ UNCHANGED <<paVars, err, semVars, semInit, samples, buf, gil, pFunc, recVars, playVars>>

----------------------------------------------------------------------------
Main ==
  \/ SetupPython \/ InitSemaphores \/ AllocateSamples \/ InitializePortAudio
  \/ \E s \in Dirs : OpenStream(s) \/ StartStream(s) \/ CloseStream(s) \/ JoinStream(s)
  \/ PollStreams \/ TerminatePortAudio \/ AcquireGil \/ CleanPython \/ FreeAndReturn

Record == RecordEnter \/ RecordWait \/ RecordCopy \/ RecordPost

Play ==
  \/ PlayEnter \/ PlayWait \/ PlayEnsureGil \/ PlayFilter \/ PlayFiltered
  \/ PlayCallFails \/ PlayReleaseGil \/ PlayCopy \/ PlayPost

Next ==
  \/ Main \/ Record \/ Play \/ SigInt
  \/ \E s \in Dirs : DeviceError(s) \/ CancelThread(s)

Spec == Init /\ [][Next]_vars

\* Every thread that can run is run, ALSA keeps delivering periods to a thread that
\* polls, and a pending cancellation is acted upon.  Nothing is assumed of faults.
Fairness ==
  /\ WF_vars(Main) /\ WF_vars(Record) /\ WF_vars(Play)
  /\ \A s \in Dirs : WF_vars(CancelThread(s))

FairSpec == Spec /\ Fairness

----------------------------------------------------------------------------
(* Properties                                                              *)

TypeOK ==
  /\ PaTypeOK
  /\ pc \in {"python", "sem", "calloc", "painit", "open_in", "open_out", "start_in",
             "start_out", "poll_in", "poll_out", "close_in", "join_in", "close_out",
             "join_out", "terminate", "gil", "clean", "free", "stuck", "noPython", "returned",
             "signalled", "crashed"}
  /\ err \in {"paNoError", "error"} /\ code \in {-1, 0, 1}
  /\ readDone \in {0, 1} /\ writeDone \in {0, 1}
  /\ semInit \subseteq {"readDone", "writeDone"}
  /\ samples \in {"wild", "null", "live", "freed"}
  /\ buf \in [FrameIdx -> Nat]
  /\ gil \in {"none", "main", "play"} /\ pFunc \in {"callable", "NULL"} /\ pyRefs \in {-1, 0, 1}
  /\ captured \in 0..MaxBlocks
  /\ rpc \in {"idle", "wait", "copy"} /\ ri \in 0..Frames
  /\ ppc \in {"idle", "wait", "gil", "filter", "release", "copy", "aborted"}
  /\ pi \in 0..Frames
  /\ arr \in [FrameIdx -> Nat] /\ arrRefs \in {0, 1}
  /\ out \in [FrameIdx -> Nat \cup {Junk}]
  /\ heard \in Seq([FrameIdx -> Nat \cup {Junk}])

PlayHasTurn == ppc \in {"gil", "filter", "release", "copy", "aborted"}
RecordHasTurn == rpc = "copy"

\* At most one of the two callbacks is between its sem_wait and its sem_post, the
\* semaphores never add up to more than the one turn there is, and the shared buffer
\* is allocated whenever a callback is at it: the copy loop of recordCallback never
\* overlaps the filter of playCallback, nor the free() of main.
ExclusiveBuffer ==
  /\ ~(RecordHasTurn /\ PlayHasTurn)
  /\ RecordHasTurn \/ PlayHasTurn => readDone = 0 /\ writeDone = 0
  /\ readDone + writeDone <= 1
  /\ RecordHasTurn \/ ppc = "filter" => samples = "live"

\* The callbacks never block each other for good: once readDone holds the first turn, a
\* callback that waits on its semaphore waits for a turn that the other one is offered or
\* has, and playCallback, at the buffer, never finds the GIL with main.
WaitsForTheOther ==
  /\ "readDone" \in semInit =>
       /\ rpc = "wait" /\ readDone = 0 => writeDone = 1 \/ PlayHasTurn
       /\ ppc = "wait" /\ writeDone = 0 => readDone = 1 \/ RecordHasTurn
  /\ ppc = "gil" => gil = "none"

\* Every block recordCallback captured reaches the headphones once, in order and in
\* one piece: the k-th output buffer holds samples of the k-th block only, apart from
\* samples that playCallback read from the array it had already released.
HeardInOrder ==
  \A k \in 1..Len(heard) : \A f \in FrameIdx : heard[k][f] \in {k, Junk}

\* When main returns, both streams are closed and their threads gone, the buffer is
\* freed and main has the GIL, whatever failed on the way.  Past the label done, the
\* references to the Python objects were dropped exactly once; the return hidden in
\* import_array (line 245), which comes before it, drops none.
ReleasedAtReturn ==
  /\ pc \in {"noPython", "returned"} =>
       /\ \A s \in Dirs : ptr[s] # "open" /\ thread[s] \in {"none", "ended"}
       /\ samples # "live" /\ gil = "main"
  /\ pc = "returned" => pyRefs = 0

\* A failed call of the Python filter leaves the GIL with a thread that is gone: main
\* can never get past Py_END_ALLOW_THREADS, so the program no longer returns by itself.
FailedCallKeepsGil ==
  ppc = "aborted" => gil = "play" /\ pc \notin {"clean", "free", "returned"}

\* A stream has failed, or main has begun to tear down
Failing ==
  \/ pc \in {"close_in", "join_in", "close_out", "join_out", "terminate", "gil", "clean", "free"}
  \/ \E s \in Dirs : thread[s] = "ended"

\* A captured block is heard unless the process ends or a stream fails: the callbacks
\* never block each other for ever, once readDone holds the first turn.  (When its
\* sem_init fails, the streams are started all the same.)
EveryBlockIsHeard ==
  \A k \in 1..MaxBlocks :
    captured = k /\ "readDone" \in semInit ~> (Len(heard) >= k \/ ~Running \/ Failing)

Blocked ==
  \/ rpc = "wait" /\ readDone = 0
  \/ ppc = "wait" /\ writeDone = 0
  \/ pc = "gil" /\ gil # "none"
  \/ pc = "stuck"

\* What becomes of the program once it is failing: it ends, or some thread is blocked for
\* ever on a semaphore, on the GIL or in Pa_StartStream.  (Two more periods must be left within
\* the bound, as the device never stops.)
FailureEndsOrBlocks == Failing /\ captured + 2 <= MaxBlocks ~> (~Running \/ []Blocked)

\* audio_record_python.c:385, "acquire the GIL before exiting": main, once it asks for the
\* GIL, gets it, unless the process ends first.
GilIsAcquired == pc = "gil" ~> gil = "main" \/ ~Running

\* audio_record_python.c:45, "gracefully exit on Ctrl+C by deallocating everything".
SignalDeallocates ==
  pc = "signalled" => samples # "live" /\ \A s \in Dirs : ptr[s] # "open"

\* audio_record_python.c:270, "initialize semaphores": both are initialised before a
\* stream that uses them is started.
SemaphoresInitialised ==
  \A s \in Dirs : thread[s] # "none" => semInit = {"readDone", "writeDone"}

\* The callbacks implement the abstract hand-over: a block counts as handed over when
\* recordCallback posts writeDone, and as heard when playCallback posts readDone.
Handoff == INSTANCE SampleHandoff WITH
  Damage <- {Junk},
  put <- IF rpc = "idle" THEN captured ELSE captured - 1

RefinesHandoff == Handoff!Spec
=============================================================================
