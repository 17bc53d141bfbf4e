----------------------------- MODULE PortAudio -----------------------------
(***************************************************************************)
(* The PortAudio library as the SoundScreen programs use it: two callback  *)
(* streams, one capturing ("in"), one playing ("out"), each served by a    *)
(* callback thread of its own.  The programs link the installed            *)
(* libportaudio; the copy vendored under real_time_audio/portaudio         *)
(* (common/pa_front.c, hostapi/alsa/pa_linux_alsa.c,                       *)
(* os/unix/pa_unix_util.c) shows what it does, and the comments below name *)
(* the functions.                                                          *)
(*                                                                         *)
(* What matters for the programs is kept: a callback thread can only be    *)
(* cancelled while it polls for frames, never inside the callback, so      *)
(* closing a stream JOINS a thread that may be blocked in user code.       *)
(***************************************************************************)
EXTENDS Naturals

VARIABLES
  paInit,     \* initializationCount_ (pa_front.c)
  ptr,        \* the PaStream* held by main: "wild" (never assigned), "open", "closed"
  active,     \* PaAlsaStream.isActive, 0 or 1
  finished,   \* PaAlsaStream.callback_finished, 0 or 1
  thread,     \* callback thread: "none", "poll", "cb" (in the user callback), "ended"
  cancelled   \* 1 once pthread_cancel has been sent to the thread

paVars == <<paInit, ptr, active, finished, thread, cancelled>>

Dirs == {"in", "out"}

PaTypeOK ==
  /\ paInit \in {0, 1}
  /\ ptr \in [Dirs -> {"wild", "open", "closed"}]
  /\ active \in [Dirs -> {0, 1}]
  /\ finished \in [Dirs -> {0, 1}]
  /\ thread \in [Dirs -> {"none", "poll", "cb", "ended"}]
  /\ cancelled \in [Dirs -> {0, 1}]

PaStart ==
  /\ paInit = 0
  /\ ptr = [s \in Dirs |-> "wild"]
  /\ active = [s \in Dirs |-> 0]
  /\ finished = [s \in Dirs |-> 0]
  /\ thread = [s \in Dirs |-> "none"]
  /\ cancelled = [s \in Dirs |-> 0]

----------------------------------------------------------------------------
(* Calls of the main thread                                                *)

\* Pa_Initialize
PaInitialize(ok) ==
  /\ paInit' = IF ok = "ok" THEN 1 ELSE paInit
  /\ UNCHANGED <<ptr, active, finished, thread, cancelled>>

\* Pa_OpenStream: *stream is assigned only on success (OpenStream, pa_linux_alsa.c)
PaOpenStream(s, ok) ==
  /\ ptr' = IF ok = "ok" THEN [ptr EXCEPT ![s] = "open"] ELSE ptr
  /\ UNCHANGED <<paInit, active, finished, thread, cancelled>>

\* What becomes of a call of Pa_StartStream, which waits until the new thread has started
\* the device.  "fail": the thread cannot be created.  "stuck": the device does not start,
\* and the thread leaves by OnExit with the mutex that PaUnixThread_PrepareNotify locked;
\* the caller needs that mutex to go on, whether it was notified or not.
PaStartOutcomes == {"ok", "fail", "stuck"}

\* Pa_StartStream of a stopped stream.  (The caller's wait is limited to a second; that a
\* thread takes longer to get going is left out.)
PaStartStream(s, how) ==
  /\ active' = [active EXCEPT ![s] = IF how = "ok" THEN 1 ELSE 0]
  /\ thread' = [thread EXCEPT ![s] =
                  IF how = "ok" THEN "poll" ELSE IF how = "stuck" THEN "ended" ELSE @]
  /\ finished' = [finished EXCEPT ![s] = IF how = "stuck" THEN 1 ELSE @]
  /\ UNCHANGED <<paInit, ptr, cancelled>>

\* PaUtil_ValidateStreamPointer: what the check of a stream pointer can say.  A
\* pointer nobody assigned is dereferenced once the library is initialised: the
\* process faults, or the word read is not the magic number.
Validate(s) ==
  IF paInit = 0 THEN {"notInitialized"}
  ELSE IF ptr[s] = "open" THEN {"valid"}
  ELSE {"badStreamPtr", "fault"}

\* IsStreamStopped (pa_linux_alsa.c)
IsStopped(s) == active[s] = 0 /\ finished[s] = 0

\* Pa_CloseStream of a stopped stream
PaCloseStopped(s) ==
  /\ IsStopped(s)
  /\ ptr' = [ptr EXCEPT ![s] = "closed"]
  /\ UNCHANGED <<paInit, active, finished, thread, cancelled>>

\* Pa_CloseStream of a running or finished stream: RealStop(abort) cancels the
\* callback thread and goes on to join it
PaCloseAbort(s) ==
  /\ ~IsStopped(s)
  /\ cancelled' = [cancelled EXCEPT ![s] = 1]
  /\ UNCHANGED <<paInit, ptr, active, finished, thread>>

\* pthread_join has returned; RealStop clears the flags and the stream is freed
PaCloseJoin(s) ==
  /\ thread[s] = "ended"
  /\ finished' = [finished EXCEPT ![s] = 0]
  /\ active' = [active EXCEPT ![s] = 0]
  /\ ptr' = [ptr EXCEPT ![s] = "closed"]
  /\ UNCHANGED <<paInit, thread, cancelled>>

\* One step of Pa_CloseStream of an open stream: at once when it is stopped, else
\* cancelling its thread and then joining it
PaClose(s) ==
  \/ PaCloseStopped(s)
  \/ cancelled[s] = 0 /\ PaCloseAbort(s)
  \/ cancelled[s] = 1 /\ PaCloseJoin(s)

\* CloseOpenStreams, at the start of Pa_Terminate: the stream opened last goes first
PaCloseOpenStreams(s) ==
  /\ paInit = 1 /\ ptr[s] = "open" /\ (s = "in" => ptr["out"] # "open")
  /\ PaClose(s)

\* Pa_Terminate, once no stream is left open
PaTerminate ==
  /\ paInit' = 0
  /\ UNCHANGED <<ptr, active, finished, thread, cancelled>>

----------------------------------------------------------------------------
(* Steps of a callback thread (CallbackThreadFunc)                         *)

\* The poll reports frames: cancellation is disabled again, the callback runs
PaEnterCallback(s) ==
  /\ thread[s] = "poll" /\ cancelled[s] = 0
  /\ thread' = [thread EXCEPT ![s] = "cb"]
  /\ UNCHANGED <<paInit, ptr, active, finished, cancelled>>

\* The callback returns paContinue
PaContinue(s) ==
  /\ thread[s] = "cb"
  /\ thread' = [thread EXCEPT ![s] = "poll"]
  /\ UNCHANGED <<paInit, ptr, active, finished, cancelled>>

\* OnExit, the thread's cleanup handler
PaOnExit(s) ==
  /\ thread' = [thread EXCEPT ![s] = "ended"]
  /\ finished' = [finished EXCEPT ![s] = 1]
  /\ active' = [active EXCEPT ![s] = 0]
  /\ UNCHANGED <<paInit, ptr, cancelled>>

\* The callback returns paAbort: the thread leaves its loop
PaAbort(s) == thread[s] = "cb" /\ PaOnExit(s)

\* The poll fails (the device is gone): PA_ENSURE leaves the loop
PaDeviceError(s) == thread[s] = "poll" /\ PaOnExit(s)

\* The poll is the cancellation point
PaCancelled(s) == thread[s] = "poll" /\ cancelled[s] = 1 /\ PaOnExit(s)
=============================================================================
