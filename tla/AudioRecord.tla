---------------------------- MODULE AudioRecord ----------------------------
(***************************************************************************)
(* real_time_audio/audio_record.c: the record callback and the play        *)
(* callback copy blocks through one ring of samples, each keeping an index *)
(* of its own across calls (recordIndex, playIndex).  The index is used    *)
(* twice: wptr and rptr already point at recordedSamples[index], and the   *)
(* loop adds widx % BUFFER_SIZE, which starts at the same index.  The      *)
(* second half of the ring is therefore found beyond BUFFER_SIZE, in the   *)
(* half of the allocation that main adds "cause it seg faults otherwise".  *)
(*                                                                         *)
(* A block is named by its number of capture; its samples are left and     *)
(* right of every frame, <<block, position in the block>>.                 *)
(***************************************************************************)
EXTENDS PortAudio, Integers, Sequences

CONSTANTS
  Frames,      \* FRAMES_PER_SAMPLE, and framesPerBuffer of every callback
  MaxBlocks,   \* bound: callbacks the record thread is given
  Faults       \* what the environment may do wrong

FaultKinds == {"sem", "calloc", "painit", "open", "start", "device"}

ASSUME FramesAssumption == Frames \in Nat \ {0}
ASSUME MaxBlocksAssumption == MaxBlocks \in Nat
ASSUME FaultsAssumption == Faults \subseteq FaultKinds

BufferSize == Frames * 2 * 2      \* BUFFER_SIZE
\* Mutant: the buffer is allocated once, not twice as large
AllocatedOnce == BufferSize

Allocated == BufferSize * 2       \* samples that main allocates
Address == 0..(Allocated - 1)
SampleIdx == 0..(2 * Frames - 1)  \* the samples of one block

VARIABLES
  pc,         \* where main is, or how the process ended
  err,        \* the PaError main stored last: "paNoError" or "error"
  code,       \* the exit status
  readDone, writeDone,       \* semaphore values
  samples,    \* data.recordedSamples: "wild", "null", "live", "freed"
  mem,        \* the allocation it points to
  recordIndex, playIndex,    \* data.recordIndex, data.playIndex
  captured,   \* record callbacks entered; also the number of the block captured
  rpc, ri, widx, wptr,       \* record callback: pc, loop index, locals
  ppc, pi, ridx, rptr,       \* play callback: pc, loop index, locals
  out,        \* the output buffer of the play callback
  heard       \* history: output buffers given back to PortAudio

mainVars == <<pc, err, code>>
semVars == <<readDone, writeDone>>
recVars == <<recordIndex, captured, rpc, ri, widx, wptr>>
playVars == <<playIndex, ppc, pi, ridx, rptr, out, heard>>
vars == <<paVars, mainVars, semVars, samples, mem, recVars, playVars>>

Outcome(f) ==
  IF f \notin Faults THEN {"ok"} ELSE IF f = "start" THEN PaStartOutcomes ELSE {"ok", "fail"}

Result(ok) == IF ok = "ok" THEN "paNoError" ELSE "error"

Running == pc \notin {"returned", "crashed"}

Init ==
  /\ PaStart
  /\ pc = "sem" /\ err = "paNoError" /\ code = 0
  /\ readDone = 0 /\ writeDone = 0   \* static storage
  /\ samples = "wild" /\ mem = [a \in Address |-> <<0, 0>>]
  /\ recordIndex = 0 /\ playIndex = 0
  /\ captured = 0 /\ rpc = "idle" /\ ri = 0 /\ widx = 0 /\ wptr = 0
  /\ ppc = "idle" /\ pi = 0 /\ ridx = 0 /\ rptr = 0
  /\ out = [k \in SampleIdx |-> <<0, 0>>] /\ heard = <<>>

----------------------------------------------------------------------------
(* main                                                                    *)

\* The second sem_init is called only when the first one failed
InitSemaphores ==
  /\ pc = "sem"
  /\ \/ readDone' = 1 /\ pc' = "calloc"
     \/ "sem" \in Faults /\ pc' \in {"calloc", "terminate"} /\ UNCHANGED readDone
  /\ UNCHANGED <<paVars, err, code, writeDone, samples, mem, recVars, playVars>>

AllocateSamples ==
  /\ pc = "calloc"
  /\ \E ok \in Outcome("calloc") :
       /\ samples' = IF ok = "ok" THEN "live" ELSE "null"
       /\ pc' = IF ok = "ok" THEN "painit" ELSE "terminate"
  /\ UNCHANGED <<paVars, err, code, semVars, mem, recVars, playVars>>

InitializePortAudio ==
  /\ pc = "painit"
  /\ \E ok \in Outcome("painit") :
       /\ PaInitialize(ok)
       /\ err' = Result(ok)
       /\ pc' = IF ok = "ok" THEN "open_in" ELSE "terminate"
  /\ UNCHANGED <<code, semVars, samples, mem, recVars, playVars>>

OpenStream(s) ==
  /\ pc = (IF s = "in" THEN "open_in" ELSE "open_out")
  /\ \E ok \in Outcome("open") :
       /\ PaOpenStream(s, ok)
       /\ err' = Result(ok)
       /\ pc' = IF ok = "fail" THEN "terminate" ELSE IF s = "in" THEN "open_out" ELSE "start_in"
  /\ UNCHANGED <<code, semVars, samples, mem, recVars, playVars>>

StartStream(s) ==
  /\ pc = (IF s = "in" THEN "start_in" ELSE "start_out")
  /\ \E how \in Outcome("start") :
       /\ PaStartStream(s, how)
       /\ err' = IF how = "stuck" THEN err ELSE Result(how)
       /\ pc' = IF how = "stuck" THEN "stuck" ELSE IF how = "fail" THEN "terminate"
                ELSE IF s = "in" THEN "start_out" ELSE "poll_in"
  /\ UNCHANGED <<code, semVars, samples, mem, recVars, playVars>>

PollStreams ==
  /\ \/ pc = "poll_in"  /\ pc' = IF active["in"] = 1 THEN "poll_in" ELSE "poll_out"
     \/ pc = "poll_out" /\ pc' = IF active["out"] = 1 THEN "poll_in" ELSE "close_in"
  /\ err' = "paNoError"
  /\ UNCHANGED <<paVars, code, semVars, samples, mem, recVars, playVars>>

\* The two calls after the loop; they are not made when setup failed
CloseStream(s) ==
  /\ pc = (IF s = "in" THEN "close_in" ELSE "close_out")
  /\ PaClose(s)
  /\ pc' = IF ptr'[s] = "open" THEN pc ELSE IF s = "in" THEN "close_out" ELSE "terminate"
  /\ err' = "paNoError"
  /\ UNCHANGED <<code, semVars, samples, mem, recVars, playVars>>

\* Pa_Terminate closes the streams that a failed setup left open
TerminateCloses(s) ==
  /\ pc = "terminate"
  /\ PaCloseOpenStreams(s)
  /\ UNCHANGED <<mainVars, semVars, samples, mem, recVars, playVars>>

\* Mutant: the result of Pa_Terminate overwrites err
TerminateStoresErr ==
  /\ pc = "terminate" /\ \A s \in Dirs : ptr[s] # "open"
  /\ PaTerminate
  /\ pc' = "free" /\ err' = "paNoError"
  /\ UNCHANGED <<code, semVars, samples, mem, recVars, playVars>>

TerminatePortAudio ==
  /\ pc = "terminate" /\ \A s \in Dirs : ptr[s] # "open"
  /\ PaTerminate
  /\ pc' = "free"
  /\ UNCHANGED <<err, code, semVars, samples, mem, recVars, playVars>>

FreeAndReturn ==
  /\ pc = "free"
  /\ \/ /\ samples # "null"
        /\ samples' = "freed" /\ pc' = (IF samples = "live" THEN "returned" ELSE "crashed")
     \/ /\ samples # "live"   \* NULL, or a wild pointer that happens to be NULL
        /\ pc' = "returned" /\ UNCHANGED samples
  /\ code' = IF err = "paNoError" THEN 0 ELSE 1
  /\ UNCHANGED <<paVars, err, semVars, mem, recVars, playVars>>

----------------------------------------------------------------------------
(* recordCallback                                                          *)

\* widx = data->recordIndex; wptr = &data->recordedSamples[widx];
RecordEnter ==
  /\ Running /\ rpc = "idle" /\ captured < MaxBlocks
  /\ PaEnterCallback("in")
  /\ captured' = captured + 1
  /\ widx' = recordIndex /\ wptr' = recordIndex /\ rpc' = "wait"
  /\ UNCHANGED <<mainVars, semVars, samples, mem, recordIndex, ri, playVars>>

RecordWait ==
  /\ Running /\ rpc = "wait"
  /\ readDone > 0
  /\ readDone' = readDone - 1
  /\ rpc' = "copy" /\ ri' = 0
  /\ UNCHANGED <<paVars, mainVars, writeDone, samples, mem, recordIndex, captured, widx, wptr,
                 playVars>>

\* The address of sample number i (from widx on) for a base pointer p
Cell(p, i) == p + (i % BufferSize)

RecordCopy ==
  /\ Running /\ rpc = "copy" /\ ri < Frames
  /\ mem' = [mem EXCEPT ![Cell(wptr, widx)] = <<captured, 2 * ri>>,
                        ![Cell(wptr, widx + 1)] = <<captured, 2 * ri + 1>>]
  /\ widx' = widx + 2 /\ ri' = ri + 1
  /\ UNCHANGED <<paVars, mainVars, semVars, samples, recordIndex, captured, rpc, wptr, playVars>>

RecordPost ==
  /\ Running /\ rpc = "copy" /\ ri = Frames
  /\ writeDone' = writeDone + 1
  /\ rpc' = "store"
  /\ UNCHANGED <<paVars, mainVars, readDone, samples, mem, recordIndex, captured, ri, widx, wptr,
                 playVars>>

\* Mutant: recordIndex is stored without the remainder
RecordReturnUnwrapped ==
  /\ Running /\ rpc = "store"
  /\ recordIndex' = widx
  /\ rpc' = "idle" /\ PaContinue("in")
  /\ UNCHANGED <<mainVars, semVars, samples, mem, captured, ri, widx, wptr, playVars>>

\* data->recordIndex = widx % BUFFER_SIZE, after the semaphore has been posted
RecordReturn ==
  /\ Running /\ rpc = "store"
  /\ recordIndex' = widx % BufferSize
  /\ rpc' = "idle" /\ PaContinue("in")
  /\ UNCHANGED <<mainVars, semVars, samples, mem, captured, ri, widx, wptr, playVars>>

----------------------------------------------------------------------------
(* playCallback                                                            *)

PlayEnter ==
  /\ Running /\ ppc = "idle"
  /\ PaEnterCallback("out")
  /\ ridx' = playIndex /\ rptr' = playIndex /\ ppc' = "wait"
  /\ UNCHANGED <<mainVars, semVars, samples, mem, recVars, playIndex, pi, out, heard>>

PlayWait ==
  /\ Running /\ ppc = "wait"
  /\ writeDone > 0
  /\ writeDone' = writeDone - 1
  /\ ppc' = "copy" /\ pi' = 0
  /\ UNCHANGED <<paVars, mainVars, readDone, samples, mem, recVars, playIndex, ridx, rptr, out,
                 heard>>

PlayCopy ==
  /\ Running /\ ppc = "copy" /\ pi < Frames
  /\ out' = [out EXCEPT ![2 * pi] = mem[Cell(rptr, ridx)],
                        ![2 * pi + 1] = mem[Cell(rptr, ridx + 1)]]
  /\ ridx' = ridx + 2 /\ pi' = pi + 1
  /\ UNCHANGED <<paVars, mainVars, semVars, samples, mem, recVars, playIndex, ppc, rptr, heard>>

\* Mutant: no sem_post(&readDone)
PlayPostNot ==
  /\ Running /\ ppc = "copy" /\ pi = Frames
  /\ ppc' = "store"
  /\ heard' = Append(heard, out)
  /\ UNCHANGED <<paVars, mainVars, semVars, samples, mem, recVars, playIndex, pi, ridx, rptr, out>>

PlayPost ==
  /\ Running /\ ppc = "copy" /\ pi = Frames
  /\ readDone' = readDone + 1
  /\ ppc' = "store"
  /\ heard' = Append(heard, out)
  /\ UNCHANGED <<paVars, mainVars, writeDone, samples, mem, recVars, playIndex, pi, ridx, rptr, out>>

\* Mutant: playIndex is stored without the remainder
PlayReturnUnwrapped ==
  /\ Running /\ ppc = "store"
  /\ playIndex' = ridx
  /\ ppc' = "idle" /\ PaContinue("out")
  /\ UNCHANGED <<mainVars, semVars, samples, mem, recVars, pi, ridx, rptr, out, heard>>

PlayReturn ==
  /\ Running /\ ppc = "store"
  /\ playIndex' = ridx % BufferSize
  /\ ppc' = "idle" /\ PaContinue("out")
  /\ UNCHANGED <<mainVars, semVars, samples, mem, recVars, pi, ridx, rptr, out, heard>>

----------------------------------------------------------------------------
DeviceError(s) ==
  /\ Running /\ "device" \in Faults
  /\ PaDeviceError(s)
  /\ UNCHANGED <<mainVars, semVars, samples, mem, recVars, playVars>>

CancelThread(s) ==
  /\ Running
  /\ PaCancelled(s)
  /\ UNCHANGED <<mainVars, semVars, samples, mem, recVars, playVars>>

Main ==
  \/ InitSemaphores \/ AllocateSamples \/ InitializePortAudio
  \/ \E s \in Dirs : OpenStream(s) \/ StartStream(s) \/ CloseStream(s) \/ TerminateCloses(s)
  \/ PollStreams \/ TerminatePortAudio \/ FreeAndReturn

Record == RecordEnter \/ RecordWait \/ RecordCopy \/ RecordPost \/ RecordReturn

Play == PlayEnter \/ PlayWait \/ PlayCopy \/ PlayPost \/ PlayReturn

Next == Main \/ Record \/ Play \/ \E s \in Dirs : DeviceError(s) \/ CancelThread(s)

Spec == Init /\ [][Next]_vars

----------------------------------------------------------------------------
(* Properties                                                              *)

Block == Nat \X Nat

TypeOK ==
  /\ PaTypeOK
  /\ pc \in {"sem", "calloc", "painit", "open_in", "open_out", "start_in", "start_out",
             "poll_in", "poll_out", "close_in", "close_out", "terminate", "free",
             "stuck", "returned", "crashed"}
  /\ err \in {"paNoError", "error"} /\ code \in {0, 1}
  /\ readDone \in {0, 1} /\ writeDone \in {0, 1}
  /\ samples \in {"wild", "null", "live", "freed"}
  /\ mem \in [Address -> Block]
  /\ recordIndex \in 0..(BufferSize - 1) /\ playIndex \in 0..(BufferSize - 1)
  /\ captured \in 0..MaxBlocks
  /\ rpc \in {"idle", "wait", "copy", "store"} /\ ri \in 0..Frames
  /\ widx \in Nat /\ wptr \in 0..(BufferSize - 1)
  /\ ppc \in {"idle", "wait", "copy", "store"} /\ pi \in 0..Frames
  /\ ridx \in Nat /\ rptr \in 0..(BufferSize - 1)
  /\ out \in [SampleIdx -> Block]
  /\ heard \in Seq([SampleIdx -> Block])

\* The address a callback is about to use lies in the allocation, although it is the sum
\* of an index and a remainder; the comment of main on "twice as large" asks why.
AddressesInBounds ==
  /\ rpc = "copy" /\ ri < Frames =>
       samples = "live" /\ Cell(wptr, widx) \in Address /\ Cell(wptr, widx + 1) \in Address
  /\ ppc = "copy" /\ pi < Frames =>
       samples = "live" /\ Cell(rptr, ridx) \in Address /\ Cell(rptr, ridx + 1) \in Address

\* A failed PortAudio call of the setup ends in exit status 1 (here the streams are closed
\* by Pa_Terminate, whose result does not overwrite err), and main returns with every
\* stream closed and no thread left that could touch the freed buffer.
CleanReturn ==
  pc = "returned" =>
    /\ \A s \in Dirs : ptr[s] # "open" /\ thread[s] \in {"none", "ended"}
    /\ samples # "live"
    /\ samples = "freed" /\ thread["out"] = "none" => code = 1

\* The block a frame of an output buffer belongs to; 0 when one of its two samples is
\* another block's or is out of place
BlockOf(buffer, f) ==
  LET n == buffer[2 * f][1]
  IN  IF buffer[2 * f] = <<n, 2 * f>> /\ buffer[2 * f + 1] = <<n, 2 * f + 1>> THEN n ELSE 0

\* The block handed over last
Put == IF rpc \in {"idle", "store"} THEN captured ELSE captured - 1

\* The callbacks implement the exact hand-over, although they never compare their indices:
\* every block is heard once, in order, in one piece and with every sample in its place.
Handoff == INSTANCE SampleHandoff WITH
  Damage <- {},
  put <- Put,
  heard <- [n \in 1..Len(heard) |-> [f \in 0..(Frames - 1) |-> BlockOf(heard[n], f)]]

RefinesHandoff == Handoff!Spec

\* The callbacks never block each other for good: a callback that waits on its semaphore
\* waits for a turn that the other one is offered or has, from the first turn on.  (When
\* sem_init of readDone fails there is none, and no block is ever handed over.)
WaitsForTheOther ==
  "sem" \notin Faults \/ Put > 0 =>
    /\ rpc = "wait" /\ readDone = 0 => writeDone = 1 \/ ppc = "copy"
    /\ ppc = "wait" /\ writeDone = 0 => readDone = 1 \/ rpc = "copy"
=============================================================================
