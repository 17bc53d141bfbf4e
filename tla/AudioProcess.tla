---------------------------- MODULE AudioProcess ----------------------------
(***************************************************************************)
(* One audio process, real_time_audio/python_rt/eval.py with freqfilter.py *)
(* beside it: a record thread puts chunks of the microphone into a queue   *)
(* without a limit, a playback thread takes them out, filters them as its  *)
(* command line says and writes them to the headphones.                    *)
(*                                                                         *)
(* Every chunk is filtered from rest, so its first n_wrongdata frames are  *)
(* a transient; filter_audio writes a straight line over them, from the    *)
(* last sample played to the frame n_wrongdata + 1.  A filtered sample is  *)
(* named by channel, chunk and frame, a sample of such a line by its two   *)
(* ends and its place on it.                                               *)
(*                                                                         *)
(* The devices may still be held by an audio process killed before, as in  *)
(* ModeServer; this is process 2 there, the killed one process 1.          *)
(***************************************************************************)
EXTENDS Naturals, Sequences

CONSTANTS
  Chunk,       \* g_CHUNKSIZE, frames in a chunk
  Wrong,       \* n_wrongdata, int(300/4096*n_frames)
  Modes,       \* first arguments the process may be started with
  MaxChunks,   \* bound: chunks recorded
  MaxQueue     \* bound: chunks waiting in the queue

ASSUME ChunkAssumption == Chunk \in Nat /\ Wrong \in Nat /\ Wrong + 1 < Chunk
ASSUME ModesAssumption == Modes \subseteq {"f", "p", "none"}
ASSUME BoundsAssumption == MaxChunks \in Nat /\ MaxQueue \in Nat

VARIABLES
  mode,       \* sys.argv[1]; "none" when it is neither 'f' nor 'p'
  proc,       \* the process itself: "alive", "gone"
  thread,     \* the two threads: "opening", "streaming", "dead"
  owner,      \* who holds each device: 0 nobody, 1 the killed process, 2 this one
  captured,   \* chunks recorded; also the number of the last one
  queue,      \* input_signal
  ppc,        \* playback: "get", "filter", "write"
  hand,       \* separated, the chunk taken from the queue
  old,        \* oldvalue_r and oldvalue_l, for the channels 0 and 1
  data,       \* the samples to be written, channels interleaved
  heard       \* history: the chunks written

playVars == <<ppc, hand, old, data, heard>>
vars == <<mode, proc, thread, owner, captured, queue, playVars>>

Threads == {"record", "playback"}
Device(t) == IF t = "record" THEN "i2s microphone" ELSE "headphones"
Devices == {Device(t) : t \in Threads}
Channels == {0, 1}
SampleIdx == 0..(2 * Chunk - 1)

Silence == [channel |-> 0, chunk |-> 0, frame |-> 0]

Plain(c, k, i) == [channel |-> c, chunk |-> k, frame |-> i]

\* np.linspace(from, to, num=Wrong)[i]: both ends are exact
OnLine(from, to, i) ==
  IF i = 0 THEN from ELSE IF i = Wrong - 1 THEN to ELSE [from |-> from, to |-> to, place |-> i]

\* Mutant: the samples kept are counted from the front
LastSamplesFront(d) == [c \in Channels |-> d[2 + c]]

\* filtered_audio[-2] and filtered_audio[-1]
LastSamples(d) == [c \in Channels |-> d[2 * Chunk - 2 + c]]

\* Mutant: the line ends at the frame it leads to
FilterAudioTight(k, anchors) ==
  [s \in SampleIdx |->
     LET c == s % 2  i == s \div 2 IN
     IF i < Wrong THEN OnLine(anchors[c], Plain(c, k, Wrong - 1), i) ELSE Plain(c, k, i)]

\* filter_audio: both channels filtered, the line over the first frames, interleaved
FilterAudio(k, anchors) ==
  [s \in SampleIdx |->
     LET c == s % 2  i == s \div 2 IN
     IF i < Wrong THEN OnLine(anchors[c], Plain(c, k, Wrong + 1), i) ELSE Plain(c, k, i)]

Init ==
  /\ mode \in Modes /\ proc = "alive"
  /\ thread = [t \in Threads |-> "opening"]
  /\ owner \in [Devices -> {0, 1}]
  /\ captured = 0 /\ queue = <<>>
  /\ ppc = "get" /\ hand = 0
  /\ old = [c \in Channels |-> Silence]
  /\ data = [s \in SampleIdx |-> Silence] /\ heard = <<>>

\* p.open in record and in playback: a busy device raises an exception
OpenStream(t) ==
  /\ thread[t] = "opening"
  /\ IF owner[Device(t)] = 0
     THEN /\ owner' = [owner EXCEPT ![Device(t)] = 2]
          /\ thread' = [thread EXCEPT ![t] = "streaming"]
     ELSE /\ thread' = [thread EXCEPT ![t] = "dead"]
          /\ UNCHANGED owner
  /\ UNCHANGED <<mode, proc, captured, queue, playVars>>

\* The killed process is gone, its devices are free
OtherExits ==
  /\ \E d \in Devices : owner[d] = 1
  /\ owner' = [d \in Devices |-> IF owner[d] = 1 THEN 0 ELSE owner[d]]
  /\ UNCHANGED <<mode, proc, thread, captured, queue, playVars>>

\* eval() has returned long ago: with both threads dead the interpreter exits, and gives
\* back a device that playback opened before it died of its mode
Exit ==
  /\ proc = "alive" /\ \A t \in Threads : thread[t] = "dead"
  /\ proc' = "gone"
  /\ owner' = [d \in Devices |-> IF owner[d] = 2 THEN 0 ELSE owner[d]]
  /\ UNCHANGED <<mode, thread, captured, queue, playVars>>

\* stream.read and input_signal.put
RecordChunk ==
  /\ thread["record"] = "streaming"
  /\ captured < MaxChunks /\ Len(queue) < MaxQueue
  /\ captured' = captured + 1
  /\ queue' = Append(queue, captured')
  /\ UNCHANGED <<mode, proc, thread, owner, playVars>>

\* Mutant: playback catches up by taking two chunks
PlayGetTwo ==
  /\ thread["playback"] = "streaming" /\ ppc = "get"
  /\ queue # <<>>
  /\ hand' = Head(queue)
  /\ queue' = IF Len(queue) > 1 THEN Tail(Tail(queue)) ELSE <<>>
  /\ ppc' = "filter"
  /\ UNCHANGED <<mode, proc, thread, owner, captured, old, data, heard>>

\* input_signal.get
PlayGet ==
  /\ thread["playback"] = "streaming" /\ ppc = "get"
  /\ queue # <<>>
  /\ hand' = Head(queue) /\ queue' = Tail(queue)
  /\ ppc' = "filter"
  /\ UNCHANGED <<mode, proc, thread, owner, captured, old, data, heard>>

\* The branches on sys.argv[1].  In filter mode the last sample of each channel is kept for
\* the next chunk; without a known mode data is never assigned and the thread ends.
PlayFilter ==
  /\ thread["playback"] = "streaming" /\ ppc = "filter"
  /\ \/ /\ mode = "f"
        /\ data' = FilterAudio(hand, old)
        /\ old' = LastSamples(data')
        /\ ppc' = "write" /\ UNCHANGED thread
     \/ /\ mode = "p"
        /\ data' = [s \in SampleIdx |-> Plain(s % 2, hand, s \div 2)]
        /\ ppc' = "write" /\ UNCHANGED <<old, thread>>
     \/ /\ mode = "none"
        /\ thread' = [thread EXCEPT !["playback"] = "dead"]
        /\ UNCHANGED <<ppc, old, data>>
  /\ UNCHANGED <<mode, proc, owner, captured, queue, hand, heard>>

\* Mutant: the loop is left after the first chunk
PlayWriteOnce ==
  /\ thread["playback"] = "streaming" /\ ppc = "write"
  /\ heard' = Append(heard, data)
  /\ ppc' = "done"
  /\ UNCHANGED <<mode, proc, thread, owner, captured, queue, hand, old, data>>

\* stream.write and task_done
PlayWrite ==
  /\ thread["playback"] = "streaming" /\ ppc = "write"
  /\ heard' = Append(heard, data)
  /\ ppc' = "get"
  /\ UNCHANGED <<mode, proc, thread, owner, captured, queue, hand, old, data>>

Playback == PlayGet \/ PlayFilter \/ PlayWrite

Next == RecordChunk \/ Playback \/ OtherExits \/ Exit \/ \E t \in Threads : OpenStream(t)

Spec == Init /\ [][Next]_vars

\* The microphone delivers and the threads are scheduled
Fairness ==
  /\ WF_vars(RecordChunk) /\ WF_vars(Playback)
  /\ \A t \in Threads : WF_vars(OpenStream(t))

FairSpec == Spec /\ Fairness

----------------------------------------------------------------------------
(* Properties                                                              *)

Value == [channel : Channels, chunk : 0..MaxChunks, frame : 0..(Chunk - 1)]
Sample == Value \cup [from : Value, to : Value, place : 1..Wrong]

TypeOK ==
  /\ mode \in Modes /\ proc \in {"alive", "gone"}
  /\ thread \in [Threads -> {"opening", "streaming", "dead"}]
  /\ owner \in [Devices -> 0..2]
  /\ captured \in 0..MaxChunks /\ queue \in Seq(1..MaxChunks) /\ Len(queue) <= MaxQueue
  /\ ppc \in {"get", "filter", "write"} /\ hand \in 0..MaxChunks
  /\ old \in [Channels -> Value]
  /\ data \in [SampleIdx -> Sample] /\ heard \in Seq([SampleIdx -> Sample])

\* Chunks are played once each and in the order of recording.  In filter mode each channel
\* goes on from the very sample it ended with, over the straight line, to samples of its own
\* chunk; the line arrives two frames early, at the value of the frame after the next.
SmoothBorders ==
  \A k \in 1..Len(heard) : \A c \in Channels :
    LET at(i) == heard[k][2 * i + c] IN
    /\ \A i \in (IF mode = "f" THEN Wrong ELSE 0)..(Chunk - 1) : at(i) = Plain(c, k, i)
    /\ mode = "f" /\ Wrong > 0 =>
         /\ at(0) = IF k = 1 THEN Silence ELSE heard[k - 1][2 * (Chunk - 1) + c]
         /\ Wrong > 1 => at(Wrong - 1) = at(Wrong + 1)

\* Whatever piles up in the queue while playback is slow is still heard, with that delay:
\* nothing is ever dropped.  When the playback thread has died, the record thread fills the
\* queue without limit (here: up to the bound).
HeardOrPilesUp ==
  /\ \A k \in 1..MaxChunks :
       captured = k ~> (Len(heard) >= k \/ thread["playback"] = "dead")
  /\ thread["playback"] = "dead" /\ thread["record"] = "streaming" ~> Len(queue) = MaxQueue

\* Every step but one is a step of the audio process that ModeServer describes with a
\* counter, its exit included, or of the process killed before it.  The exception is the
\* death of the playback thread of a process without a known mode, which the server never
\* starts.
Server == INSTANCE ModeServer WITH
  Writes <- {}, MaxSpawns <- 2, MaxRuns <- 1, MaxBacklog <- MaxQueue,
  server <- "running", runs <- 1, level <- 100, notifying <- "no", orphans <- {},
  current <- 2, spawned <- 2, mode <- [p \in 1..2 |-> "p"],
  proc <- [p \in 1..2 |-> IF p = 2 THEN proc
                          ELSE IF \E d \in Devices : owner[d] = 1 THEN "killed" ELSE "gone"],
  thread <- [p \in 1..2 |-> IF p = 2 THEN thread ELSE [t \in Threads |-> "none"]],
  backlog <- [p \in 1..2 |-> IF p = 2 THEN Len(queue) ELSE 0]

DiesOfMode ==
  /\ mode = "none" /\ thread["playback"] = "streaming"
  /\ thread' = [thread EXCEPT !["playback"] = "dead"]
  /\ UNCHANGED <<proc, owner, queue>>

RefinesServerProcess ==
  [][ \/ Server!Audio(2) \/ Server!Exit(1) \/ Server!Exit(2)
      \/ DiesOfMode ]_<<proc, thread, owner, Len(queue)>>
=============================================================================
