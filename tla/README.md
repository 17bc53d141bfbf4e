# SoundScreen in TLA+

SoundScreen turns a Raspberry Pi into headphones that filter what their wearer
hears: sound is captured from an I2S microphone, filtered, and played on the
headphone jack, and a phone selects the filter over Bluetooth LE. This directory
models the programs of the repository that do this, checks the models with TLC
and proves the central properties with TLAPS. Paths below are relative to the
repository's root, `Downloads/SoundScreen-master`.

Contents: [1 the system](#1-the-system) - [2 modules](#2-modules) -
[3 runs](#3-runs) - [4 fairness](#4-fairness) - [5 proofs](#5-proofs) -
[6 what the checks found](#6-what-the-checks-found) -
[7 not modelled](#7-not-modelled) - [8 plan](#8-plan)

## 1 The system

| component | state it keeps | operations | interacts with |
|---|---|---|---|
| `real_time_audio/audio_record_python.c` | semaphores `readDone`, `writeDone`; one shared block `recordedSamples`; the Python objects and the GIL; two streams | `recordCallback`, `playCallback`, `main`, `sigCatch` | PortAudio (two callback threads), embedded Python (`freqfilter.filter_audio`) |
| `real_time_audio/audio_record.c` | the same semaphores; a ring with `recordIndex`, `playIndex` | the same without Python | PortAudio |
| `real_time_audio/cython_real_time/audio_helper.pyx` | the same semaphores; a shared array; the GIL of its caller | the callbacks in Cython, `main` called from Python | PortAudio, Python |
| `bluez-5.43/test/example-gatt-server`, battery level | `battery_lvl`, `notifying`, `g_process` | `WriteValue` (a mode number), `StartNotify`, `StopNotify`, `main` | BlueZ over D-Bus, the audio process |
| the same file, heart rate service | `notifying`, `hr_ee_count`, `energy_expended`, GLib timers | `StartNotify`, `StopNotify`, `hr_msrmt_cb`, control point `WriteValue` | BlueZ, GLib main loop |
| `bluez-5.43/src/gatt-database.c`, subscriptions | CCC value of each device, `ntfy_cnt` of each characteristic, device states | CCC writes, notification of devices, removal of devices and applications | devices over ATT, the application over D-Bus |
| `bluez-5.43/src/shared/att.c`, `gatt-server.c`, `gatt-db.c`, requests | `in_req`, `write_queue`, pending reads and writes with ids and timeouts, `pending_op` of each D-Bus call | requests and commands, replies, timeouts, loss of a link or of the application | the same |
| `real_time_audio/python_rt/eval.py` | an unbounded queue, two threads, two PyAudio streams, the last sample of each channel | `record`, `playback` | the server (its command line), ALSA, `freqfilter.py` |
| `FIR_filter/jfastfir.cpp` over `kiss_fft130_jfork1.0.0/tools/kiss_fastfir.c` | `inbuf`, `outbuf`, `remainder` and their fill levels; the ring of the slow filter | `setKernel`, `reset`, `Update` | its caller, chunk by chunk |
| `mode_switch/mode_switch.py`, `ml_rt/eval.py` | queues between threads | polling, prediction | PyAudio |
| the rest | offline filters, training, experiments, vendored libraries | | |

How they fit together: the phone writes a mode number over Bluetooth LE; `bluetoothd` turns
the ATT write into a D-Bus call (`GattRequests`), the server kills the audio process and starts
one for the new mode (`ModeServer`), and that process filters chunks until it is killed
(`AudioProcess`). Measurements go the other way (`HeartRateSubscriptions`). The three programs
with callbacks (`AudioRecordPython`, `AudioRecord`, `AudioHelper`) are alternatives to the
audio process, tried in that order; the FIR filters are the library meant to run in it.

What is hard, and what makes each component correct:

* **The two callbacks** run on two threads and hand over one block of samples at a
  time. Correct means: never both in the buffer, every captured block is heard once,
  in order and in one piece, nothing is used after it was freed, and whatever fails,
  the program either ends with everything released or is known to hang.
  The difficulty is teardown: closing a stream joins a thread that can sit in
  `sem_wait` or wait for the GIL, where cancellation does not reach it.
* **The server** is single-threaded, but the processes it starts are not, and
  `kill()` does not wait. Correct means: one live process, in the mode written last,
  and the mode is heard.
* **The audio process** filters each chunk from rest and repairs the border with the last one.
  Correct means: chunks once each and in order, borders joined per channel, and a queue that
  only grows when playback is slow or dead.
* **The timers** of the heart rate service outlive the subscription that started
  them. Correct means: a subscriber is always served, and a client that left is left
  alone in the end.
* **bluetoothd** counts subscriptions of devices that connect, pair, vanish and come back,
  while calls and signals are in flight. Correct means: the count is right, one
  device's end does not end another's, and it ends with the last.
* **A request** leaves a record in four layers, each of which may be orphaned by a timeout, a
  lost link or an application that exits. Correct means: one answer for each request, to
  the one who asked, and no device that waits for ever.
* **The FIR filter** accepts chunks of any size while it works in blocks. Correct
  means: enough samples to return at every call, in bounds, and a continuous stream.

`PROJECT.json` lists every hazard with its line and the properties that cover it.

## 2 Modules

### PortAudio, SampleHandoff

`PortAudio` describes the library as the two C programs and the Cython one use it:
opening, starting and closing a stream, its callback thread and its cancellation, after the copy
vendored in `real_time_audio/portaudio` (`pa_front.c`, `pa_linux_alsa.c`,
`pa_unix_util.c`). A thread is polling (`poll`), in the user callback (`cb`) or has
`ended`; cancellation is only acted upon in `poll`, because `CallbackThreadFunc`
disables it elsewhere; `Pa_CloseStream` of a stream that was started cancels and
then *joins*. A stream pointer that was never assigned is a "wild" one, and
validating it may fault once the library is initialised. `Pa_StartStream` waits for the new
thread to start the device (`PaStartOutcomes`). When that fails inside the thread, the thread
leaves by `OnExit` and never unlocks the mutex it took in `PaUnixThread_PrepareNotify`; its
caller needs that mutex to return, also after the second it is ready to wait, and is `stuck`.
That a thread takes more than a second to get going is left out.

`SampleHandoff` is the abstract specification that all three programs implement:
blocks are put and heard alternately, each once; `Damage` is the set of values a sample may
be turned into on the way.

### AudioRecordPython (audio_record_python.c)

`pc` is the position of `main`, `rpc` and `ppc` those of the callbacks; every
semaphore operation, every GIL operation and every frame copied is a step of its
own, so that all interleavings of the two callbacks with `main`, the devices and
SIGINT are explored. Blocks are named by their number of capture. The indices start
at 0 in every callback, so the mask `BUFFER_SIZE - 1` never matters and the buffer is
a function from frames to block numbers.

* Setup: `SetupPython` ... `StartStream`, with the `goto done` of every call that
  may fail; which calls fail is the constant `Faults`.
* Teardown: `CloseStream` and `JoinStream` (before and after `pthread_join`),
  `TerminatePortAudio`, `AcquireGil`, `CleanPython`, `FreeAndReturn`.
* `pyRefs` counts the references to `pFunc` and `pModule` that the program owns: one
  after the import, released by `cleanPython` and, wrongly, also by the error path of
  the play callback and by the signal handler. `noPython` is the return that the macro
  `import_array` hides at line 245: past the label `done`, with that one reference left.
* `arrRefs` is 0 when the play callback copies: `Py_DECREF(pValue)` came before. A
  sample read then is the one the filter wrote, or `Junk`.

### AudioRecord (audio_record.c)

The callbacks keep an index across calls and use it twice: in the base pointer and in
the remainder. `Cell(p, i)` is the address a sample is really stored at, in an
allocation of `2 * BUFFER_SIZE`; samples carry their block and their position. The
model answers the comment "twice as large cause it seg faults otherwise. Don't know
why": block 2k is stored from 0 on, block 2k+1 from `BUFFER_SIZE` on, and the two callbacks agree
only because both add the index twice. The abstract specification sees a frame through
`BlockOf`, which names the block both its samples belong to, or 0 when one of them is
another block's or out of place; the refinement thus says that no sample is torn or moved.

### AudioHelper (audio_helper.pyx)

The same protocol once more, where `main` is a function that Python calls: it gives the GIL up
(`SaveThread`), polls, takes it back (`RestoreThread`) and closes the streams. `playCallback`
takes the GIL for its `print`. When that print raises, the generated C reports the
exception and returns 0, which PortAudio reads as `paContinue`, past the release of the GIL and
the post of `readDone` (`PlayPrintRaises`). `AfterPython` are the uses of the Python API by a
`main` that has no GIL: `np.zeros`, the error strings, the return; the fault `"nogil"` lets
them stop the process. `np.zeros` may also raise: `main` then returns past the cleanup.

### ModeServer (example-gatt-server, eval.py)

`server`, `level`, `current` are the server's; `proc`, `thread`, `owner`, `backlog`
belong to the processes it starts. `WriteValue` is the whole handler: state name,
kill, start of the new process, in one step because the main loop runs one handler at a
time. `Exit` is the moment the kernel has taken a killed process down, or the interpreter
ends by itself because both of its threads, neither of them a daemon, have died of an
exception. `Quit` leaves the process behind as an orphan, and `Start` may run the server again.

### AudioProcess (python_rt/eval.py)

One process of `ModeServer` in detail: the queue with its chunks, the three modes of the
command line, the devices that a killed process may still hold, and `FilterAudio`, which
draws a straight line over the first `n_wrongdata` frames of a chunk from the last sample
played. Samples are named by channel, chunk and frame, so the model says where every
sample of a border comes from, not what the FFT computes. `RefinesServerProcess` shows that
every step is a step of the process `ModeServer` has, whose `backlog` is the length of the
queue. One kind of death is its own: without a known mode the playback thread dies at its first
chunk (`DiesOfMode`), which no mode of the server's brings about.

### HeartRate, HeartRateSubscriptions (example-gatt-server, gatt-database.c)

`HeartRate` is the service by itself, one step per handler. `timers` counts timers of the main
loop; `reported` and `reset` are history variables that only the properties read.
`hr_ee_count` is kept modulo `Every`, as the code only looks at its remainder.

`HeartRateSubscriptions` extends it with `bluetoothd`: `ccc` and `ntfy_cnt` are
`ccc_write_cb`'s, `calls` and `signals` are on the bus between the two processes, devices
connect, pair and unpair, and the application exits and registers again. `DeliverSignal` is
`send_notification_to_devices`: it removes the state of a device that is neither connected
nor paired, without counting its subscription out; `dropped` counts those, for the
properties. A subscription whose `StartNotify` cannot be sent is refused and changes nothing,
like one at the counter's limit.

### GattRequests (att.c, gatt-server.c, gatt-db.c, gatt-database.c)

A read or write on its way from the link to the application and back. Each layer has the
record that the code keeps: `in_req` and `write_queue` (`bt_att`), `pending` (the
`pending_read` and `pending_write` of the attribute, each with the async op of its server),
`owned` (the `pending_op` of a D-Bus call whose characteristic still exists), and the messages
`calls` and `replies`. A link may go (`LinkLost`), a reply be late (`Timeout`, then
`DeliverReply`), the application exit (`AppExits`, `ClientDisconnect`) or break the
sequential protocol (`RequestTooEarly`) anywhere on that way. `SendResponse` may fail although
the link is up: `can_write_data` then destroys the response and leaves `in_req` set, so that the
device has its answer no more and its next request shuts the link. `unsent` is the history of
that; `generation` and the fields `call` and `of` of a response are, too: whose answer a device
is given.

`RequestCycle` is the abstract specification: a device asks, is answered once, and may ask
again. `PlaceOf` maps the layers to it: a device is `away` or `shut` by its link, `free` when
`in_req` is empty, `waiting` until a response is queued, `answered` until it is sent, and
`unanswered` when it could not be. An answer
may come with others only when it is a failure, and what arrives late (a reply after the
timeout, an op of an earlier link, a call of an application that is gone) is a stutter.

### FastFIR, SlowFIR, FIRPair (jfastfir.cpp, kiss_fastfir.c)

A sample is its position in the stream; a filtered sample is the function from
coefficients to the samples they are multiplied with. So the models say *which* sums are
formed, not their values, and a lost, repeated or swapped sample shows. `Update` is one
action: growth of the buffers, `kiss_fastfir`'s loop over blocks, the remainder, the
output buffer and the leftover. A chunk may be empty: `kiss_fastfir` takes that for the end of
the stream, and `kff_flush` gives out what waits, which `Update` adds to the remainder without
taking it from the input (`UpdateEmpty`). Done again and again, or with less than a kernel's
length of input waiting, that leaves the buffers: `memory` is `overrun`, and nothing is said of
what the program does then. `emptied` remembers an empty chunk, for the properties that only
hold without one. `Overlap` says what `memcpy` does to overlapping
blocks: move them like `memmove`, or possibly damage them. `FIRPair` feeds both
filters the same chunks, as `FIR_filter/Demo/demo.cpp` does with one kernel.

## 3 Runs

Constants and bounds are in the `.cfg` files. `gatt_requests` takes three minutes, `fir_pair`
one, `heart_rate` half a minute, the others less.

| run | configuration | question | bounds |
|---|---|---|---|
| audio_record_python | `AudioRecordPython.cfg` | all safety and liveness properties, no mutual wait, the refinement, all faults | 2 frames, 4 callbacks: the third block reuses both turns of the semaphores, and two callbacks are left after a failure |
| failed_call, signal, sem_init | `AudioRecordPython{FailedCall,Signal,SemInit}.cfg` | what comments promise and the code does not do | only the faults in question |
| audio_record | `AudioRecord.cfg` | addresses, return, no mutual wait, refinement | 2 frames, 5 blocks: more than two turns of the ring |
| audio_helper | `AudioHelper.cfg` | GIL, no mutual wait, refinement, end after a failure | 2 frames, 4 callbacks |
| mode_server | `ModeServer.cfg` | processes and modes; a mode is heard or its process lost a device | 3 processes, 2 runs of the server, modes 5, 6, 8 and a speaker |
| audio_process | `AudioProcess.cfg` | borders of chunks, delay, refinement of `ModeServer`'s process | chunks of 6 frames of which 3 are replaced, 5 chunks, 3 in the queue |
| heart_rate | `HeartRateSubscriptions.cfg` | timers, energy, counting of subscriptions, delivery | 2 devices, energy up to 3, field every 2nd time, 3 timers, 3 calls and 1 signal in flight |
| gatt_requests | `GattRequests.cfg` | one answer each, own answers, refinement of `RequestCycle`, end of every request | a device that writes and one that reads, 2 writes and 1 read per registration, 2 messages in flight, 2 registrations |
| fast_fir | `FastFIR.cfg` | storage, with damaging `memcpy` | kernels 1 and 2, chunks of 0, 1 and 16 samples, 24 samples |
| fir_pair | `FIRPair.cfg` | continuity, comparison with the slow filter | kernels 1-3, chunks of 0, 3, 7 and 16 samples, 32 samples: `nfft` of the longest kernel twice |

Why the bounds suffice. `Frames = 2` is the least number for which a block can be torn. With one
turn in the semaphores, the state after two hand-overs is the first one except for the block
numbers; the ring of `AudioRecord` comes back to index 0 after two. A race about a device needs
two processes, a killed process that is waited for twice needs three. Six frames with three
replaced leave a frame between the line, the frame it leads to and the samples carried over. Two
devices are one whose subscription ends and one that goes on, or one whose request is late and
one that must not get the answer; two writes under one registration are the late one and the
next; two registrations let an old reply meet a new call of the same number. The block sizes of
the filters are 2, 4, 8 and 16, of which a block consumes 2, 4, 7 and 14: a chunk of 16 runs
several blocks in one `Update` for kernels of 1 and 2, and for a kernel of 3 when 14 samples
wait; chunks of 1, 3 and 7 leave every kind of leftover. Bounds that are not the code's are
`MaxBlocks`, `MaxSpawns`, `MaxRuns`, `MaxBacklog`, `MaxQueue`, `MaxChunks`, `MaxTimers`,
`MaxCalls`, `MaxSignals`, `MaxIds`, `MaxInFlight`, `MaxApps`, `Asks` and `MaxSamples`; each is a
guard of the actions that count. `MaxEnergy`, `Every` and `MaxCount` are the code's 0xffff, 10
and `UINT_MAX` as constants.

`CHECK_DEADLOCK FALSE` is set for the runs of the C programs, the Cython program, the server
and the audio process, which end, hang (that is a result, see below) or reach a bound, and for
the filters, whose description ends when the memory is overrun. The other runs are checked for
deadlock.

What the properties say beyond their one-line comments:

* `ExclusiveBuffer` includes that the semaphore values never add up to more than one
  and that the buffer is allocated whenever a callback is in it.
* `WaitsForTheOther` says that the turn is never lost: a callback that waits for a semaphore
  waits for a post that the other callback still owes, and (with Python) the play callback never
  finds the GIL with `main`. In `AudioHelper` it has the exception of
  section 6, the print that raised. It is a safety property, so it needs no
  fairness; `EveryBlockIsHeard` adds that threads which can run do run.
* `FailureEndsOrBlocks` is exact about the bad news: once a stream has failed the
  program does not go on half alive; it ends or some thread is blocked for ever
  (`[]Blocked`). The usual case of the second kind is `Pa_CloseStream` joining a
  callback that waits for a post of a callback that is gone; another is a `Pa_StartStream`
  whose device does not start.
* `ReleasedAtReturn` says of the Python references only what holds past the label `done`: the
  return in `import_array` drops none. `CleanReturn` speaks of the exit status of a PortAudio call
  that fails in the setup of `audio_record.c`; when `calloc` fails, `err` is still 0 and
  so is the status.
* `DiesBehindPredecessor` says why a thread of an audio process may die: another
  process streams through the device; and with one run of the server that is an
  older one, already killed.
* `NoCallbackUnderGil` holds because `main` only leaves its loop when both threads have
  ended; it does not follow from how the GIL is used. Its second part says exactly which
  returns to Python come without the GIL: those of a setup that failed.
* `CountsSubscribers` relates the counter to CCC values, forgotten devices and to the last
  call in flight; it is what makes `StopNotify` of one device harmless to another.
* `QuietWhenUnsubscribed` has the condition `dropped = 0` because without it the property is
  false: see section 6.
* `OneAnswerEach` counts queued responses and ops that will complete together, so it fails
  for a second answer, for a missing one and for one to an earlier link. A device whose
  response could not be written (`unsent`) has had its answer, and has none under way;
  `RequestsEnd` excepts it, as nothing but the end of its link helps it.
* `NeverStarves` holds for every sequence of chunks until the memory is overrun, and without an
  empty chunk says that it never is. `StreamIsContinuous` and `FastMirrorsSlow` speak of streams
  without an empty chunk, which repeats what waits.
* `FastMirrorsSlow` compares the two filters: the fast one is `ngood` samples later
  (plus its `nfft` zeros) and lays the kernel the other way round. They agree on
  kernels that read the same both ways.

## 4 Fairness

`AudioRecordPython` and `AudioHelper`: weak fairness of `main`, of each callback
thread and of a pending cancellation. The operating system schedules threads that can
run; `sem_wait` with a positive value and a free GIL are steps that stay enabled until
taken, as one thread at most competes for each. ALSA delivers a period to a
polling thread as long as the device works. Faults and SIGINT have no
fairness: they may never happen. `AudioRecord` is checked for safety only.

`ModeServer` and `AudioProcess`: weak fairness of the threads of audio processes and, in
`ModeServer`, of the exit of a process that was killed or has lost both threads. Nothing is
assumed of clients, of the start of the server or of its end. That the killed process is gone
before its successor opens the devices is likely (a Python process that imports numpy takes
seconds, the exit milliseconds) but nothing enforces it, so the property says "heard, or a thread
died".

`HeartRateSubscriptions`: weak fairness of the two main loops, that is of a call or signal
that has arrived and of a timer that is due. Devices need never write or connect.

`GattRequests`: weak fairness of timers, of the attempt to write to a socket, and of noticing that
a link was shut. Nothing is assumed of the application or of D-Bus: `RequestsEnd` holds
although a call may never be answered.

## 5 Proofs

The modules `*_proofs` hold the theorems; they hold for all values of the constants that
satisfy the named assumptions (`FramesAssumption` etc.: positive frame counts, sizes and
periods, finite sets of devices, a `Junk` value that is no block number). No bound is used but
as a natural number. In each, one lemma per action shows that an inductive invariant `IInv` is
kept, `Invariance` combines them, and the theorems about properties follow from it. TLC has
checked each `IInv` on the instance of the run.

**AudioRecordPython.** The invariant is inductive only together with:

* the *turn*: exactly one of `readDone = 1`, `writeDone = 1`, "the record callback is
  between its wait and its post", "the play callback is", once the semaphores are
  initialised; it is what makes `ExclusiveBuffer` inductive;
* the *thread link*: a callback's `rpc`/`ppc` is not `idle` exactly when its PortAudio
  thread is in `cb`, and threads only exist after the buffer was allocated and until they
  were joined: hence nothing is freed under a callback;
* the *contents*: which frames of `buf`, `arr` and `out` hold the current block, as a
  function of the loop indices, and how many blocks have been heard, as a function
  of who has the turn: hence `HeardInOrder`, which is what `RefinesHandoff` says of the
  blocks already heard;
* the *ownership* of the GIL and of the Python references at each position of `main`, the
  early return at `noPython` included.

`Typing`, `BufferIsExclusive`, `OrderIsKept`, `ReturnReleases` and `FailureKeepsGil`
are consequences. `Refinement` shows step by step that `RecordPost` is `Put`, `PlayPost`
is `Hear` and everything else stutters.

**AudioRecord.** To the turn and the thread link it adds the *indices*: each is 0 or
`Half` (one block), a callback that returns flips its own (`Wraps`), and what the two would use
next is equal when the record callback has the turn and opposite when the play callback has
it, although neither ever looks at the other's. `Cells` is the arithmetic of the doubled index:
an index `i` plus a position `k` below `Half` is its own remainder, so the sample is at
`2 * i + k`, below `2 * BUFFER_SIZE`. `Bounds`, `ReturnIsClean` and `Refinement` follow, the
last with `BlocksAreWhole`: in the abstract view every block heard is one block.

**AudioHelper.** Here the turn may be lost: when the print raises, `gil = "play"` outside
of the print means that nobody has a turn any more, which keeps the invariant inductive.
`GilIsSafe` needs what `main` has seen of the threads at each position of its loop:
`poll_out` is only reached when the record thread has ended, `restore` when both have.

**ModeServer.** A server knows of one process, the one started last; the others that are alive
are orphans, one for each server that is gone (`Tracked`, `Processes`), and a process that ended
without being killed has lost both threads: hence `OneProcess`. A device is owned by a process
whose thread streams through it (`Held`): hence a thread that dies of a busy device has a
culprit, and with one run of the server all that may hold it are older and killed
(`DiesBehind`).

**AudioProcess.** `SmoothBorders` speaks of chunks that were played. It is inductive with
`Waiting` (what was captured is heard, in hand or in the queue, in this order) and `Carried`
(what the playback thread keeps between two steps: `old` is what the last chunk heard ended
with, and the chunk in hand was filtered from it). `NothingDropped` is `Waiting` as a result of
its own: chunks are heard once each and in order, whatever the speed of the threads. In the
`Refinement`, for a process in a mode that exists, a chunk recorded is one more of
`ModeServer`'s `backlog`, a chunk taken is one less, and a write is a stutter. `ThreadsOutlived`
(a process that is gone has two dead threads) makes the exit of the interpreter one of
`ModeServer`'s exits.

**HeartRate, HeartRateSubscriptions.** `SubscriberIsServed`, the safety core of
`SubscriberIsNotified`, needs nothing but types.
`EnergyIsKnown` needs lemmas on capped sums; `TimersAreKept` is an action property of every
step. `Counting` is inductive together with the order of the calls in flight: the last one
decides, `StartNotify` when the counter is not zero. The cardinalities come from the library's
theorems on finite sets.

**GattRequests.** `Answering` says of one device that its queue has at most one response, or it
has one op that will complete, and which of the two it is, given the state of the link;
`CompletedAnswers` shows that completing any set of ops moves an answer from the op to the
queue. Since a timeout, a lost link, a reply and the removal of the service are all completions
of some set, `OneAnswer` follows action by action. `OwnSuccess` rests on `OwnedIsPresent`: a
`pending_op` that may still report belongs to the application that is registered now.
`Answering` includes that a device whose response was not written has no other on its way, and
`UnsentWaits` that it still counts as one in a request. `Refinement` adds `OpsApart`: two ops of
a kind have different ids, so a reply completes one op at most. With `Answering` that op's
device, if it has one on a link, is `waiting`; hence every step is an action of `RequestCycle`
or a stutter.

**FastFIR, SlowFIR, FIRPair** (all in `FIRPair_proofs`). For the fast filter the invariant says
where every sample is: `inbuf` holds the last `Len(inbuf)` samples fed, `remainder` the filtered
samples that directly precede the first one not yet convolved, and the two lengths add up to
`nfft`; an empty chunk ends this but for the lengths, which add up to no less. `SizesAssumption`
lets every natural number be a chunk size. `NeverStarves` is a part of it, `Continuity` follows
as the chunk returned ends where the remainder starts, and `Holding` bounds the leftover by
`nfft`. Rounding up to a power of two is the only fact about `FftSize` used, and it is the
assumption `KernelSizesAssumption`. For the slow filter, `RingHolds` says that after any number
of samples each cell of the ring holds the last one written to it. The ring is a recursive
function of the samples given in, and the proof looks at the least count at which the claim
would fail, so it needs the well-foundedness of the naturals but no induction over an operator.
`Mirroring`, the property `FastMirrorsSlow` for every kernel length and chunk size, then
compares the two outputs position by position.

**No mutual wait.** `NoMutualWait`, in the proofs of all three programs with callbacks, is the
safety core of `EveryBlockIsHeard`: the invariant of the turn says not only that two never have
it but, once the semaphores are initialised, that someone has.

Every property of the passing runs that is not a liveness property is a theorem.
`HeardInOrder`, `FailedCallKeepsGil`, `SubscriberIsServed` and `BuffersHold` are proved and no
run states them on its own: a bug that breaks one of them breaks `RefinesHandoff`,
`FailureEndsOrBlocks`, `SubscriberIsNotified` or `NeverStarves` as well.
Model-checked only: the liveness properties (`EveryBlockIsHeard`, `FailureEndsOrBlocks`,
`ModeIsHeardOrDies`, `HeardOrPilesUp`, `SubscriberIsNotified`, `QuietWhenUnsubscribed`,
`RequestsEnd`), as the proof system handles neither fairness nor ENABLED, and the three
runs that show a violation. What `FftSize` computes is checked on the
kernel sizes of the runs by the assumption that names it.

## 6 What the checks found

* `playCallback` aborts with the GIL held and the turn at the buffer taken when the filter
  raises an exception (`audio_record_python.c:165`). As long as the capturing device works,
  `recordCallback` stays blocked on `readDone`, and `main` polls for ever; when that device
  fails, too, `main` closes the streams and waits for ever where it is to "acquire the GIL before
  exiting" (`:385`). The run `failed_call` shows the second course (`GilIsAcquired`).
* `sem_init(&writeDone, ...)` is never called in a normal run
  (`audio_record_python.c:271`, and the same in `audio_record.c:119` and
  `audio_helper.pyx`).
* Ctrl+C does not deallocate "everything" (`audio_record_python.c:45`).

The models also contain behaviour that no text of the repository promises to be otherwise, so
that it is no finding, but that a reader should know:

* `audio_record_python.c:352`, and the other programs alike: a device that does not start lets
  `Pa_StartStream` wait for a mutex that its thread took with it. The program neither runs
  nor ends.
* `audio_record_python.c:245`: when numpy cannot be imported, `import_array` returns from `main`
  with the module's reference still owned.
* `att.c:454`: a response that cannot be written to a link that is up is destroyed, and the
  device stays "in a request": its next one ends the connection.
* `kiss_fastfir.c:193`: an empty chunk is the end of the stream to `kiss_fastfir`, but not to
  `Update`. `demo.cpp:81` gives one when asked for a single byte. What waits then comes out
  twice, and a few empty chunks overrun the remainder.
* `audio_helper.pyx:194`: a print that raises leaves the GIL with the play thread and the turn
  taken; the stream goes on, silent, and `main` waits for the GIL for ever once it ends.
* `gatt-database.c:925`: a device that is forgotten while subscribed stays in `ntfy_cnt`. The
  application then measures for ever, even after all others have unsubscribed.
* `gatt-database.c:2095`: a write whose call cannot be sent is reported to
  `gatt_db_attribute_read_result`. That ends a read of the same id, possibly another
  device's, and leaves the write to its timeout of 5 s.
* `gatt-server.c:788`: while a command is being written, a second one is dropped silently and
  a write request is answered with an error.
* A write reported as failed by timeout may have been carried out, or be carried out later:
  `SuccessIsItsOwn` has no converse. For the mode this means a phone that is told of an
  error although the mode changes.
* `example-gatt-server:309`: a client that unsubscribes and subscribes within a second has two
  timers from then on.

Read off the code while modelling, too plain for a run of their own: `main` returns -1
(`audio_record_python.c:251`) although its last comment allows 0 and 1 only (`:401`), and
the battery level "drained by 2 points every 5 seconds" (`example-gatt-server:382`) never
drains, as the timer is commented out (`:397`).

## 7 Not modelled

The repository has some 560,000 lines of implementation, nearly all of them vendored (BlueZ
5.43, PortAudio, KISS FFT, mir_eval) or generated (the C that Cython emits): the program's own
code is a few thousand lines, and the share of all lines that the models cover is
small for that reason. Of the vendored code, what the device's behaviour depends on is
modelled: PortAudio's stream life cycle, BlueZ's path of requests and subscriptions, KISS
FFT's block loop.

* The rest of BlueZ (adapters, BR/EDR profiles, tools, the Android port, the client role,
  pairing, discovery, MTU, prepared writes, indications): no part of the device's own
  behaviour, or not used by the server.
* The other host APIs of PortAudio, conversion, blocking streams.
* An empty kernel, which makes the slow filter divide by zero and which the fast one ignores;
  a block size given to `setKernel` by its caller, which no caller does.
* The arithmetic of the filters (FFT, Butterworth, Hanning windows, `JFilterDesign`): real
  numbers are out of TLC's reach; the models keep which samples are combined.
* The test service of BlueZ's example, the D-Bus object tree, the wording of output.
* `mode_switch/mode_switch.py`, a prototype that the server replaced: one thread puts what is
  typed into a queue, another prints the last of it.
* `ml_rt/eval.py`: the threads and the queue of `python_rt/eval.py` with a TensorFlow
  prediction in the place of the filter.
* Offline programs (`filter/`, `AuxIVA`, `SoundRecordPlay`, `VoiceRecognitionTest`,
  `music-source-separation-py3`), `Deep Learning/filter.h`: sequential computations.
* Copies and profiled variants (`profiling`, `extra files`, `qjfastfir.cpp`).

`PROJECT.json` gives the reason for each component.

## 8 Plan

Done, in this order:

1. `PortAudio`, `SampleHandoff`, `AudioRecordPython` with its proofs.
2. `AudioRecord` over the same library and the same abstract specification.
3. `ModeServer` and `HeartRate`.
4. `FastFIR`, `SlowFIR`, `FIRPair` with proofs of storage and continuity.
5. `AudioHelper` and `AudioProcess`, the latter as an implementation of `ModeServer`'s process.
6. `HeartRateSubscriptions` and `GattRequests`: BlueZ between the devices and the server.
7. Proofs for `AudioRecord`, `AudioHelper`, `ModeServer`, `HeartRateSubscriptions` and
   `GattRequests`.
8. Proofs for `AudioProcess` and `SlowFIR`'s ring; `WaitsForTheOther` in the three programs with
   callbacks; `RequestCycle` as the abstract specification of `GattRequests`.

Left:

9. `FilterDesign`: symmetry of the kernels (the window divides by `Length`, where the
   comment's `hanning(Length)` divides by `Length + 1`), which decides whether the fast
   and the slow filter agree.
10. Prepared (long) writes in `GattRequests`, and its composition with `ModeServer`, so that a
    mode reported as failed is followed to the process it starts.
