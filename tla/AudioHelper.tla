---------------------------- MODULE AudioHelper ----------------------------
(***************************************************************************)
(* real_time_audio/cython_real_time/audio_helper.pyx: the record and play  *)
(* callbacks in Cython.  Samples are copied without the GIL; only the      *)
(* print in playCallback is Python.  main is called from Python, gives the *)
(* GIL up for as long as the streams run, and takes it back before it      *)
(* closes them.  An error path of the setup returns through cleanup, which *)
(* leaves streams to Pa_Terminate and never takes the GIL back.            *)
(*                                                                         *)
(* A block is named by its number of capture, as in AudioRecordPython.     *)
(***************************************************************************)
EXTENDS PortAudio, Sequences

CONSTANTS
  Frames,      \* FRAMES_PER_SAMPLE
  MaxBlocks,   \* bound: callbacks the record thread is given
  Faults       \* what may go wrong

FaultKinds == {"sem", "zeros", "painit", "open", "start", "device", "print", "nogil"}

ASSUME FramesAssumption == Frames \in Nat \ {0}
ASSUME MaxBlocksAssumption == MaxBlocks \in Nat
ASSUME FaultsAssumption == Faults \subseteq FaultKinds

VARIABLES
  pc,          \* where main is, or how the call of main ended
  err,         \* the PaError of the last call that stored one
  gil,         \* holder of the global interpreter lock
  readDone, writeDone,   \* semaphore values
  samples,     \* the memoryview recordedSamples: "unset" or "array"
  buf,         \* what the array holds
  captured,    \* record callbacks entered; also the number of the block captured
  rpc, ri,     \* record callback: program counter, frame of the loop
  ppc, pi,     \* play callback: program counter, frame of the loop
  out,         \* the output buffer of the play callback
  heard        \* history: output buffers given back to PortAudio

mainVars == <<pc, err>>
semVars == <<readDone, writeDone>>
recVars == <<captured, rpc, ri>>
playVars == <<ppc, pi, out, heard>>
vars == <<paVars, mainVars, gil, semVars, samples, buf, recVars, playVars>>

FrameIdx == 0..(Frames - 1)

Outcome(f) ==
  IF f \notin Faults THEN {"ok"} ELSE IF f = "start" THEN PaStartOutcomes ELSE {"ok", "fail"}

Running == pc \notin {"returned", "crashed"}

\* Where main may be after a use of the Python API: without the GIL its thread has no
\* thread state, and the interpreter may stop the process.
AfterPython(next) ==
  IF gil = "main" \/ "nogil" \notin Faults THEN {next} ELSE {next, "crashed"}

Init ==
  /\ PaStart
  /\ pc = "save" /\ err = "paNoError" /\ gil = "main"
  /\ readDone = 0 /\ writeDone = 0   \* static storage
  /\ samples = "unset" /\ buf = [f \in FrameIdx |-> 0]
  /\ captured = 0 /\ rpc = "idle" /\ ri = 0
  /\ ppc = "idle" /\ pi = 0 /\ out = [f \in FrameIdx |-> 0] /\ heard = <<>>

----------------------------------------------------------------------------
(* main                                                                    *)

\* Py_Initialize and PyEval_InitThreads find everything done; PyEval_SaveThread
SaveThread ==
  /\ pc = "save"
  /\ gil' = "none" /\ pc' = "sem"
  /\ UNCHANGED <<paVars, err, semVars, samples, buf, recVars, playVars>>

\* Mutant: readDone starts with two turns
InitSemaphoresTwoTurns ==
  /\ pc = "sem"
  /\ readDone' = 2 /\ pc' = "zeros"
  /\ UNCHANGED <<paVars, err, gil, writeDone, samples, buf, recVars, playVars>>

\* The second sem_init is called only when the first one failed
InitSemaphores ==
  /\ pc = "sem"
  /\ \/ readDone' = 1 /\ pc' = "zeros"
     \/ "sem" \in Faults /\ pc' \in {"zeros", "terminate"} /\ UNCHANGED readDone
  /\ UNCHANGED <<paVars, err, gil, writeDone, samples, buf, recVars, playVars>>

\* np.zeros, called after the GIL was given up.  When it raises, main reports the exception
\* and returns 0, past the cleanup.
AllocateSamples ==
  /\ pc = "zeros"
  /\ \E ok \in Outcome("zeros") :
       /\ pc' \in AfterPython(IF ok = "ok" THEN "painit" ELSE "return")
       /\ samples' = IF ok = "ok" THEN "array" ELSE samples
  /\ UNCHANGED <<paVars, err, gil, semVars, buf, recVars, playVars>>

\* The PortAudio calls of the setup: a failed one returns through cleanup, and err is
\* paNoError until one fails
Setup(step, fault, next, Call(_)) ==
  /\ pc = step
  /\ \E ok \in Outcome(fault) :
       /\ Call(ok)
       /\ err' = IF ok = "fail" THEN "error" ELSE err
       /\ pc' = IF ok = "ok" THEN next ELSE IF ok = "stuck" THEN "stuck" ELSE "terminate"
  /\ UNCHANGED <<gil, semVars, samples, buf, recVars, playVars>>

OpenIn(ok) == PaOpenStream("in", ok)
OpenOut(ok) == PaOpenStream("out", ok)
StartIn(ok) == PaStartStream("in", ok)
StartOut(ok) == PaStartStream("out", ok)

SetUpPortAudio ==
  \/ Setup("painit", "painit", "open_in", PaInitialize)
  \/ Setup("open_in", "open", "open_out", OpenIn)
  \/ Setup("open_out", "open", "start_in", OpenOut)
  \/ Setup("start_in", "start", "start_out", StartIn)
  \/ Setup("start_out", "start", "poll_in", StartOut)

\* Mutant: "and" between the two tests of the loop
PollStreamsBoth ==
  /\ \/ pc = "poll_in"  /\ pc' = IF active["in"] = 1 THEN "poll_out" ELSE "restore"
     \/ pc = "poll_out" /\ pc' = IF active["out"] = 1 THEN "poll_in" ELSE "restore"
  /\ UNCHANGED <<paVars, err, gil, semVars, samples, buf, recVars, playVars>>

\* Mutant: the loop only looks at the stream it looked at first
PollStreamsForEver ==
  /\ pc \in {"poll_in", "poll_out"} /\ pc' = "poll_in"
  /\ UNCHANGED <<paVars, err, gil, semVars, samples, buf, recVars, playVars>>

\* while (Pa_IsStreamActive(inputStream) == 1 or Pa_IsStreamActive(outputStream) == 1):
PollStreams ==
  /\ \/ pc = "poll_in"  /\ pc' = IF active["in"] = 1 THEN "poll_in" ELSE "poll_out"
     \/ pc = "poll_out" /\ pc' = IF active["out"] = 1 THEN "poll_in" ELSE "restore"
  /\ UNCHANGED <<paVars, err, gil, semVars, samples, buf, recVars, playVars>>

\* PyEval_RestoreThread
RestoreThread ==
  /\ pc = "restore" /\ gil = "none"
  /\ gil' = "main" /\ pc' = "close_in"
  /\ UNCHANGED <<paVars, err, semVars, samples, buf, recVars, playVars>>

CloseStream(s) ==
  /\ pc = (IF s = "in" THEN "close_in" ELSE "close_out")
  /\ PaClose(s)
  /\ pc' = IF ptr'[s] = "open" THEN pc ELSE IF s = "in" THEN "close_out" ELSE "terminate"
  /\ err' = "paNoError"
  /\ UNCHANGED <<gil, semVars, samples, buf, recVars, playVars>>

\* cleanup: Pa_Terminate closes the streams that a failed setup left open
TerminateCloses(s) ==
  /\ pc = "terminate"
  /\ PaCloseOpenStreams(s)
  /\ UNCHANGED <<mainVars, gil, semVars, samples, buf, recVars, playVars>>

\* cleanup: the error messages are Python strings
TerminatePortAudio ==
  /\ pc = "terminate" /\ \A s \in Dirs : ptr[s] # "open"
  /\ PaTerminate
  /\ pc' \in (IF err = "paNoError" THEN {"return"} ELSE AfterPython("return"))
  /\ UNCHANGED <<err, gil, semVars, samples, buf, recVars, playVars>>

\* main drops its array and goes back to its Python caller
Return ==
  /\ pc = "return"
  /\ pc' \in AfterPython("returned")
  /\ UNCHANGED <<paVars, err, gil, semVars, samples, buf, recVars, playVars>>

----------------------------------------------------------------------------
(* recordCallback                                                          *)

RecordEnter ==
  /\ Running /\ rpc = "idle" /\ captured < MaxBlocks
  /\ PaEnterCallback("in")
  /\ captured' = captured + 1 /\ rpc' = "wait"
  /\ UNCHANGED <<mainVars, gil, semVars, samples, buf, ri, playVars>>

RecordWait ==
  /\ Running /\ rpc = "wait" /\ readDone > 0
  /\ readDone' = readDone - 1
  /\ rpc' = "copy" /\ ri' = 0
  /\ UNCHANGED <<paVars, mainVars, gil, writeDone, samples, buf, captured, playVars>>

RecordCopy ==
  /\ Running /\ rpc = "copy" /\ ri < Frames
  /\ buf' = [buf EXCEPT ![ri] = captured]
  /\ ri' = ri + 1
  /\ UNCHANGED <<paVars, mainVars, gil, semVars, samples, captured, rpc, playVars>>

RecordPost ==
  /\ Running /\ rpc = "copy" /\ ri = Frames
  /\ writeDone' = writeDone + 1
  /\ rpc' = "idle" /\ PaContinue("in")
  /\ UNCHANGED <<mainVars, gil, readDone, samples, buf, captured, ri, playVars>>

----------------------------------------------------------------------------
(* playCallback                                                            *)

PlayEnter ==
  /\ Running /\ ppc = "idle"
  /\ PaEnterCallback("out")
  /\ ppc' = "wait"
  /\ UNCHANGED <<mainVars, gil, semVars, samples, buf, recVars, pi, out, heard>>

PlayWait ==
  /\ Running /\ ppc = "wait" /\ writeDone > 0
  /\ writeDone' = writeDone - 1
  /\ ppc' = "gil"
  /\ UNCHANGED <<paVars, mainVars, gil, readDone, samples, buf, recVars, pi, out, heard>>

\* PyGILState_Ensure; a thread that still has the GIL gets it again
PlayEnsureGil ==
  /\ Running /\ ppc = "gil" /\ gil \in {"none", "play"}
  /\ gil' = "play" /\ ppc' = "print"
  /\ UNCHANGED <<paVars, mainVars, semVars, samples, buf, recVars, pi, out, heard>>

\* Mutant: readDone is posted together with the release of the GIL
PlayPrintPosts ==
  /\ Running /\ ppc = "print"
  /\ gil' = "none" /\ readDone' = readDone + 1
  /\ ppc' = "copy" /\ pi' = 0
  /\ UNCHANGED <<paVars, mainVars, writeDone, samples, buf, recVars, out, heard>>

\* print("filter") and PyGILState_Release
PlayPrint ==
  /\ Running /\ ppc = "print"
  /\ gil' = "none"
  /\ ppc' = "copy" /\ pi' = 0
  /\ UNCHANGED <<paVars, mainVars, semVars, samples, buf, recVars, out, heard>>

\* The print raises: the generated code reports the exception and returns 0, which is
\* paContinue, past the release of the GIL and the post of readDone
PlayPrintRaises ==
  /\ Running /\ ppc = "print" /\ "print" \in Faults
  /\ ppc' = "idle" /\ PaContinue("out")
  /\ UNCHANGED <<mainVars, gil, semVars, samples, buf, recVars, pi, out, heard>>

PlayCopy ==
  /\ Running /\ ppc = "copy" /\ pi < Frames
  /\ out' = [out EXCEPT ![pi] = buf[pi]]
  /\ pi' = pi + 1
  /\ UNCHANGED <<paVars, mainVars, gil, semVars, samples, buf, recVars, ppc, heard>>

\* Mutant: no sem_post(&readDone)
PlayPostNot ==
  /\ Running /\ ppc = "copy" /\ pi = Frames
  /\ heard' = Append(heard, out)
  /\ ppc' = "idle" /\ PaContinue("out")
  /\ UNCHANGED <<mainVars, gil, semVars, samples, buf, recVars, pi, out>>

PlayPost ==
  /\ Running /\ ppc = "copy" /\ pi = Frames
  /\ readDone' = readDone + 1
  /\ heard' = Append(heard, out)
  /\ ppc' = "idle" /\ PaContinue("out")
  /\ UNCHANGED <<mainVars, gil, writeDone, samples, buf, recVars, pi, out>>

----------------------------------------------------------------------------
DeviceError(s) ==
  /\ Running /\ "device" \in Faults
  /\ PaDeviceError(s)
  /\ UNCHANGED <<mainVars, gil, semVars, samples, buf, recVars, playVars>>

CancelThread(s) ==
  /\ Running
  /\ PaCancelled(s)
  /\ UNCHANGED <<mainVars, gil, semVars, samples, buf, recVars, playVars>>

Main ==
  \/ SaveThread \/ InitSemaphores \/ AllocateSamples \/ SetUpPortAudio \/ PollStreams
  \/ RestoreThread \/ TerminatePortAudio \/ Return
  \/ \E s \in Dirs : CloseStream(s) \/ TerminateCloses(s)

Record == RecordEnter \/ RecordWait \/ RecordCopy \/ RecordPost

Play ==
  \/ PlayEnter \/ PlayWait \/ PlayEnsureGil \/ PlayPrint \/ PlayPrintRaises
  \/ PlayCopy \/ PlayPost

Next == Main \/ Record \/ Play \/ \E s \in Dirs : DeviceError(s) \/ CancelThread(s)

Spec == Init /\ [][Next]_vars

\* As in AudioRecordPython: threads that can run are run, ALSA delivers periods to a
\* thread that polls, a pending cancellation is acted upon
Fairness ==
  /\ WF_vars(Main) /\ WF_vars(Record) /\ WF_vars(Play)
  /\ \A s \in Dirs : WF_vars(CancelThread(s))

FairSpec == Spec /\ Fairness
----------------------------------------------------------------------------
(* Properties                                                              *)

TypeOK ==
  /\ PaTypeOK
  /\ pc \in {"save", "sem", "zeros", "painit", "open_in", "open_out", "start_in",
             "start_out", "poll_in", "poll_out", "restore", "close_in", "close_out",
             "terminate", "return", "stuck", "returned", "crashed"}
  /\ err \in {"paNoError", "error"}
  /\ gil \in {"none", "main", "play"}
  /\ readDone \in {0, 1} /\ writeDone \in {0, 1}
  /\ samples \in {"unset", "array"} /\ buf \in [FrameIdx -> Nat]
  /\ captured \in 0..MaxBlocks
  /\ rpc \in {"idle", "wait", "copy"} /\ ri \in 0..Frames
  /\ ppc \in {"idle", "wait", "gil", "print", "copy"} /\ pi \in 0..Frames
  /\ out \in [FrameIdx -> Nat] /\ heard \in Seq([FrameIdx -> Nat])

\* main takes the GIL back (line 407) before Pa_CloseStream joins the callback threads, and
\* playCallback waits for the GIL: that this cannot end in a deadlock rests on the loop
\* before it, which main only leaves when both threads have ended.  An error path, which
\* does join running threads, never has the GIL, and returns to Python without it.
NoCallbackUnderGil ==
  /\ gil = "main" => rpc = "idle" /\ ppc = "idle"
  /\ pc = "returned" =>
       /\ gil # "play" /\ \A s \in Dirs : ptr[s] # "open" /\ thread[s] # "cb"
       /\ gil = "main" <=> \A s \in Dirs : thread[s] = "ended" /\ cancelled[s] = 1
  /\ thread["in"] = "cb" \/ thread["out"] = "cb" => samples = "array"

\* The setup or a stream has failed, or the print left the GIL with the play thread
Failing ==
  \/ pc \in {"restore", "close_in", "close_out", "terminate", "return"}
  \/ \E s \in Dirs : thread[s] = "ended"
  \/ gil = "play" /\ ppc = "idle"

Blocked ==
  \/ rpc = "wait" /\ readDone = 0
  \/ ppc = "wait" /\ writeDone = 0
  \/ pc = "restore" /\ gil = "play"
  \/ pc = "stuck"

\* What becomes of the program once it is failing: it ends, or some thread is blocked for
\* ever on a semaphore, on the GIL or in Pa_StartStream.  (Two more periods must be left within
\* the bound.)
FailureEndsOrBlocks == Failing /\ captured + 2 <= MaxBlocks ~> (~Running \/ []Blocked)

\* The block handed over last
Put == IF rpc = "idle" THEN captured ELSE captured - 1

\* The callbacks implement the abstract hand-over, with no damage: the samples stay in the
\* shared array until they are copied, although that happens after the GIL was released.
Handoff == INSTANCE SampleHandoff WITH
  Damage <- {},
  put <- Put

RefinesHandoff == Handoff!Spec

\* The callbacks block each other for good only after the print has raised, which loses the
\* turn together with the GIL: otherwise a callback that waits on its semaphore waits for a
\* turn that the other one is offered or has, from the first turn on.  (When sem_init of
\* readDone fails there is none, and no block is ever handed over.)
WaitsForTheOther ==
  ("sem" \notin Faults \/ Put > 0) /\ ~(gil = "play" /\ ppc # "print") =>
    /\ rpc = "wait" /\ readDone = 0 => writeDone = 1 \/ ppc \in {"gil", "print", "copy"}
    /\ ppc = "wait" /\ writeDone = 0 => readDone = 1 \/ rpc = "copy"
=============================================================================
