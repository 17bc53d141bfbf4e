---------------------------- MODULE ModeServer ----------------------------
(***************************************************************************)
(* bluez-5.43/test/example-gatt-server, the controller of the device: a    *)
(* phone writes a mode number to the "battery level" characteristic, and   *)
(* the server kills the audio process and starts another one               *)
(* (real_time_audio/python_rt/eval.py) with the arguments of the new mode. *)
(* The server is one GLib main loop, so a handler runs as one step; the    *)
(* audio processes, their two threads and the two ALSA devices they open   *)
(* go on concurrently.                                                     *)
(*                                                                         *)
(* kill() only sends SIGKILL: the devices of the killed process are given  *)
(* back when the kernel has taken it down, at some later step (Exit).  An  *)
(* audio process whose two threads have died exits by itself.              *)
(* An audio process also outlives the server that started it: a server     *)
(* run again (run_bt_server.sh) knows nothing of it.                       *)
(***************************************************************************)
EXTENDS Naturals, FiniteSets

CONSTANTS
  Writes,       \* bytes that clients write to the characteristic
  MaxSpawns,    \* bound: audio processes started
  MaxRuns,      \* bound: times the server is started
  MaxBacklog    \* bound: chunks waiting in the queue of a process

ASSUME WritesAssumption == Writes \subseteq 0..255
ASSUME MaxSpawnsAssumption == MaxSpawns \in Nat \ {0}
ASSUME MaxRunsAssumption == MaxRuns \in Nat
ASSUME MaxBacklogAssumption == MaxBacklog \in Nat

VARIABLES
  server,     \* "off", "registering" (the reply is awaited), "running"
  runs,       \* times the server has been started
  level,      \* battery_lvl
  notifying,  \* "yes" while a client is subscribed to the characteristic
  current,    \* g_process of the server that runs (0: none)
  spawned,    \* audio processes started so far; they are numbered from 1
  orphans,    \* processes left behind by servers that are gone
  mode,       \* the arguments each process was started with
  proc,       \* "unborn", "alive", "killed", "gone"
  thread,     \* the record and playback threads: "none", "opening", "streaming", "dead"
  owner,      \* the process that holds each device (0: free)
  backlog     \* input_signal: chunks recorded and not yet played

serverVars == <<server, runs, level, notifying, orphans>>
procVars == <<current, spawned, mode, proc>>
evalVars == <<thread, owner, backlog>>
vars == <<serverVars, procVars, evalVars>>

Pids == 1..MaxSpawns
Threads == {"record", "playback"}
Device(t) == IF t = "record" THEN "i2s microphone" ELSE "headphones"
Devices == {Device(t) : t \in Threads}

\* get_state and the commands of WriteValue: what each state number starts
Command(v) ==
  CASE v = 5 -> "f 2000 20000"   \* Construction
    [] v = 6 -> "f 100 3000"     \* Airport
    [] v = 7 -> "f 300 9000"     \* Speech
    [] v = 8 -> "p"              \* Pass Through
    [] OTHER -> "none"           \* the name of a speaker, or "nothing"

Commands == {Command(v) : v \in 5..8}

Init ==
  /\ server = "off" /\ runs = 0 /\ level = 100 /\ notifying = "no"
  /\ current = 0 /\ spawned = 0 /\ orphans = {}
  /\ mode = [p \in Pids |-> "none"]
  /\ proc = [p \in Pids |-> "unborn"]
  /\ thread = [p \in Pids |-> [t \in Threads |-> "none"]]
  /\ owner = [d \in Devices |-> 0]
  /\ backlog = [p \in Pids |-> 0]

\* g_process.kill() for the process in old, then g_process = subprocess.Popen([...])
Spawn(command, old) ==
  /\ spawned < MaxSpawns
  /\ spawned' = spawned + 1 /\ current' = spawned + 1
  /\ mode' = [mode EXCEPT ![spawned + 1] = command]
  /\ proc' = [p \in Pids |->
       IF p = spawned + 1 THEN "alive"
       ELSE IF p \in old /\ proc[p] = "alive" THEN "killed"
       ELSE proc[p]]
  /\ thread' = [thread EXCEPT ![spawned + 1] = [t \in Threads |-> "opening"]]

----------------------------------------------------------------------------
(* The server                                                              *)

\* run_bt_server.sh and main: a new server starts an audio process in pass-through mode
\* and asks BlueZ to register its application.  (Without an adapter it returns at once,
\* having changed nothing.)
Start ==
  /\ server = "off" /\ runs < MaxRuns
  /\ server' = "registering" /\ runs' = runs + 1
  /\ level' = 100 /\ notifying' = "no"
  /\ Spawn("p", {})
  /\ UNCHANGED <<orphans, owner, backlog>>

\* register_app_cb; BlueZ passes on requests of clients from now on
Registered ==
  /\ server = "registering"
  /\ server' = "running"
  /\ UNCHANGED <<runs, level, notifying, orphans, procVars, evalVars>>

\* register_app_error_cb quits the main loop, or somebody stops the server: in both cases
\* the audio process is left to itself
Quit ==
  /\ server # "off"
  /\ server' = "off"
  /\ orphans' = orphans \cup {current} /\ current' = 0
  /\ UNCHANGED <<runs, level, notifying, spawned, mode, proc, evalVars>>

\* Mutant: the process of the last mode is not killed
WriteValueNoKill(v) ==
  /\ server = "running"
  /\ level' = v
  /\ IF Command(v) = "none"
     THEN UNCHANGED <<procVars, thread>>
     ELSE Spawn(Command(v), {})
  /\ UNCHANGED <<server, runs, notifying, orphans, owner, backlog>>

\* BatteryLevelCharacteristic.WriteValue with a one-byte value
WriteValue(v) ==
  /\ server = "running"
  /\ level' = v
  /\ IF Command(v) = "none"
     THEN UNCHANGED <<procVars, thread>>
     ELSE Spawn(Command(v), {current})
  /\ UNCHANGED <<server, runs, notifying, orphans, owner, backlog>>

\* StartNotify and StopNotify; both do nothing when there is nothing to change
ToggleNotify ==
  /\ server = "running"
  /\ notifying' = IF notifying = "no" THEN "yes" ELSE "no"
  /\ UNCHANGED <<server, runs, level, orphans, procVars, evalVars>>

----------------------------------------------------------------------------
(* The audio processes                                                     *)

\* Mutant: a busy device is waited for
OpenStreamWaits(p, t) ==
  /\ proc[p] = "alive" /\ thread[p][t] = "opening"
  /\ owner[Device(t)] = 0
  /\ owner' = [owner EXCEPT ![Device(t)] = p]
  /\ thread' = [thread EXCEPT ![p][t] = "streaming"]
  /\ UNCHANGED <<serverVars, procVars, backlog>>

\* p.open in record and in playback: the ALSA devices have one user at a time, and a
\* busy one raises an exception that ends the thread.
OpenStream(p, t) ==
  /\ proc[p] = "alive" /\ thread[p][t] = "opening"
  /\ IF owner[Device(t)] = 0
     THEN /\ owner' = [owner EXCEPT ![Device(t)] = p]
          /\ thread' = [thread EXCEPT ![p][t] = "streaming"]
     ELSE /\ thread' = [thread EXCEPT ![p][t] = "dead"]
          /\ UNCHANGED owner
  /\ UNCHANGED <<serverVars, procVars, backlog>>

\* stream.read and input_signal.put: the queue has no maximum
RecordChunk(p) ==
  /\ proc[p] = "alive" /\ thread[p]["record"] = "streaming"
  /\ backlog[p] < MaxBacklog
  /\ backlog' = [backlog EXCEPT ![p] = @ + 1]
  /\ UNCHANGED <<serverVars, procVars, thread, owner>>

\* Mutant: the queue is not checked before a chunk is taken from it
PlayChunkUnchecked(p) ==
  /\ proc[p] = "alive" /\ thread[p]["playback"] = "streaming"
  /\ backlog' = [backlog EXCEPT ![p] = @ - 1]
  /\ UNCHANGED <<serverVars, procVars, thread, owner>>

\* input_signal.get, the filter of the mode, stream.write, task_done
PlayChunk(p) ==
  /\ proc[p] = "alive" /\ thread[p]["playback"] = "streaming"
  /\ backlog[p] > 0
  /\ backlog' = [backlog EXCEPT ![p] = @ - 1]
  /\ UNCHANGED <<serverVars, procVars, thread, owner>>

\* A process is gone, with its files closed: the kernel has taken a killed one down, or both
\* threads of one have died, which eval() started and which alone keep the interpreter going
Exit(p) ==
  /\ proc[p] = "killed" \/ (proc[p] = "alive" /\ \A t \in Threads : thread[p][t] = "dead")
  /\ proc' = [proc EXCEPT ![p] = "gone"]
  /\ owner' = [d \in Devices |-> IF owner[d] = p THEN 0 ELSE owner[d]]
  /\ UNCHANGED <<serverVars, current, spawned, mode, thread, backlog>>

Audio(p) == RecordChunk(p) \/ PlayChunk(p) \/ \E t \in Threads : OpenStream(p, t)

Next ==
  \/ Start \/ Registered \/ Quit \/ ToggleNotify
  \/ \E v \in Writes : WriteValue(v)
  \/ \E p \in Pids : Audio(p) \/ Exit(p)

Spec == Init /\ [][Next]_vars

\* The threads of an audio process are scheduled, and a process that was killed or has lost
\* both threads goes away.  Nothing is assumed of clients.
Fairness ==
  \A p \in Pids :
    /\ WF_vars(RecordChunk(p)) /\ WF_vars(PlayChunk(p)) /\ WF_vars(Exit(p))
    /\ \A t \in Threads : WF_vars(OpenStream(p, t))

FairSpec == Spec /\ Fairness

----------------------------------------------------------------------------
(* Properties                                                              *)

TypeOK ==
  /\ server \in {"off", "registering", "running"} /\ runs \in 0..MaxRuns
  /\ level \in 0..255 /\ notifying \in {"no", "yes"}
  /\ current \in 0..MaxSpawns /\ spawned \in 0..MaxSpawns /\ orphans \subseteq Pids
  /\ mode \in [Pids -> Commands \cup {"none"}]
  /\ proc \in [Pids -> {"unborn", "alive", "killed", "gone"}]
  /\ thread \in [Pids -> [Threads -> {"none", "opening", "streaming", "dead"}]]
  /\ owner \in [Devices -> 0..MaxSpawns]
  /\ backlog \in [Pids -> 0..MaxBacklog]

\* However many modes are written and however late killed processes go away, the only
\* audio processes left alive are the one the server can kill and one for each server that
\* is gone; these are alive unless both of their threads died; and a level that names a mode
\* names the mode the server's process was started in.
OneProcessInMode ==
  /\ \A p \in Pids : proc[p] = "alive" => p = current \/ p \in orphans
  /\ \A p \in Pids : p = current \/ p \in orphans =>
       proc[p] = "alive" \/ (proc[p] = "gone" /\ \A t \in Threads : thread[p][t] = "dead")
  /\ Cardinality(orphans) <= runs
  /\ server = "running" /\ Command(level) # "none" => mode[current] = Command(level)

\* A thread dies of a busy device only because another process streamed through it.  As
\* long as one server has run, that is a process it started and killed before: the process
\* that dies is always the newer one, and the first process of all never dies.
DiesBehindPredecessor ==
  \A p \in Pids, t \in Threads :
    thread[p][t] = "dead" =>
      \E q \in Pids \ {p} :
        /\ thread[q][t] = "streaming"
        /\ runs = 1 => q < p /\ proc[q] \in {"killed", "gone"}

Sounds(p) == \A t \in Threads : thread[p][t] = "streaming"

Selected(p) == server = "running" /\ current = p

\* A mode that stays selected is heard in the end, unless a thread of its process found
\* its device still held by the process killed before, or by an orphan.
ModeIsHeardOrDies ==
  \A p \in Pids :
    Selected(p) ~> (Sounds(p) \/ ~Selected(p) \/ \E t \in Threads : thread[p][t] = "dead")
=============================================================================
