------------------------- MODULE ModeServer_proofs --------------------------
(***************************************************************************)
(* Proofs about ModeServer: which audio processes are alive, in which      *)
(* mode, and behind which process a thread dies.                           *)
(***************************************************************************)
EXTENDS ModeServer, FiniteSetTheorems, TLAPS

On == IF server = "off" THEN 0 ELSE 1

\* The server keeps track of one process, the one started last; what it does not know of
\* was left by earlier servers, one by each.
Tracked ==
  /\ runs = 0 => spawned = 0
  /\ server = "off" <=> current = 0
  /\ server # "off" => current = spawned
  /\ \A p \in orphans : p <= spawned
  /\ current \notin orphans
  /\ IsFiniteSet(orphans) /\ Cardinality(orphans) + On = runs

Lifeless(p) == proc[p] = "gone" /\ \A t \in Threads : thread[p][t] = "dead"

Processes ==
  /\ \A p \in Pids : proc[p] = "alive" => p = current \/ p \in orphans
  /\ \A p \in Pids : p = current \/ p \in orphans => proc[p] = "alive" \/ Lifeless(p)
  /\ \A p \in Pids : proc[p] = "unborn" <=> p > spawned
  /\ runs <= 1 => \A p \in Pids : proc[p] = "alive" => p = spawned

InMode == server # "off" /\ Command(level) # "none" => mode[current] = Command(level)

\* A device is held by the process whose thread streams through it
Held ==
  \A t \in Threads : owner[Device(t)] # 0 =>
    /\ owner[Device(t)] \in Pids
    /\ thread[owner[Device(t)]][t] = "streaming"
    /\ proc[owner[Device(t)]] \in {"alive", "killed"}

Threaded == \A p \in Pids, t \in Threads : proc[p] = "unborn" <=> thread[p][t] = "none"

IInv == TypeOK /\ Tracked /\ Processes /\ InMode /\ Held /\ Threaded /\ DiesBehindPredecessor

----------------------------------------------------------------------------
LEMMA CommandTyped ==
  /\ Command(100) = "none"
  /\ \A v \in 0..255 : Command(v) \in Commands \cup {"none"}
  /\ "p" \in Commands
<1>1. Command(100) = "none" BY DEF Command
<1>2. ASSUME NEW v \in 0..255 PROVE Command(v) \in Commands \cup {"none"}
  <2>1. CASE v \in 5..8 BY <2>1 DEF Commands
  <2>2. CASE v \notin 5..8
    <3>1. v # 5 /\ v # 6 /\ v # 7 /\ v # 8 BY <2>2
    <3>. QED BY <3>1 DEF Command
  <2>. QED BY <2>1, <2>2
<1>3. Command(8) = "p" /\ 8 \in 5..8 BY DEF Command
<1>. QED BY <1>1, <1>2, <1>3 DEF Commands

LEMMA DevicesApart ==
  /\ \A t \in Threads : Device(t) \in Devices
  /\ \A s, t \in Threads : Device(s) = Device(t) => s = t
  /\ \A d \in Devices : \E t \in Threads : d = Device(t)
BY DEF Devices, Device, Threads

LEMMA OrphansTyped ==
  ASSUME IInv
  PROVE  /\ Cardinality(orphans) \in Nat /\ runs \in Nat /\ spawned \in Nat
         /\ \A p \in orphans : p \in Nat /\ p # 0 /\ p <= spawned /\ p <= spawned + 1
<1>1. Cardinality(orphans) \in Nat BY FS_CardinalityType DEF IInv, Tracked
<1>2. runs \in Nat /\ spawned \in Nat /\ \A p \in orphans : p \in Nat /\ p # 0
  BY DEF IInv, TypeOK, Pids
<1>3. \A p \in orphans : p <= spawned BY DEF IInv, Tracked
<1>4. \A p \in orphans : p <= spawned + 1 BY <1>2, <1>3
<1>. QED BY <1>1, <1>2, <1>3, <1>4

LEMMA Beginning == Init => IInv
<1>. SUFFICES ASSUME Init PROVE IInv
  OBVIOUS
<1>. USE DEF Init
<1>1. TypeOK BY MaxSpawnsAssumption, MaxRunsAssumption, MaxBacklogAssumption DEF TypeOK
<1>2. Tracked
  <2>1. IsFiniteSet({}) /\ Cardinality({}) = 0 BY FS_EmptySet
  <2>. QED BY <2>1 DEF Tracked, On
<1>3. Processes BY MaxSpawnsAssumption DEF Processes, Pids
<1>4. InMode BY DEF InMode
<1>5. Held BY DevicesApart DEF Held
<1>6. Threaded BY DEF Threaded
<1>7. DiesBehindPredecessor BY DEF DiesBehindPredecessor
<1>. QED BY <1>1, <1>2, <1>3, <1>4, <1>5, <1>6, <1>7 DEF IInv

\* What Spawn does to the process table
LEMMA Spawning ==
  ASSUME IInv, NEW command \in Commands, NEW old, Spawn(command, old)
  PROVE  /\ spawned' = spawned + 1 /\ current' = spawned + 1
         /\ spawned \in 0..MaxSpawns /\ spawned + 1 \in Pids /\ proc[spawned + 1] = "unborn"
         /\ mode' \in [Pids -> Commands \cup {"none"}] /\ mode'[spawned + 1] = command
         /\ proc' \in [Pids -> {"unborn", "alive", "killed", "gone"}]
         /\ proc'[spawned + 1] = "alive"
         /\ \A p \in Pids : p # spawned + 1 =>
              proc'[p] = IF p \in old /\ proc[p] = "alive" THEN "killed" ELSE proc[p]
         /\ thread' \in [Pids -> [Threads -> {"none", "opening", "streaming", "dead"}]]
         /\ \A t \in Threads : thread'[spawned + 1][t] = "opening"
         /\ \A p \in Pids : p # spawned + 1 => thread'[p] = thread[p]
<1>1. spawned \in 0..MaxSpawns /\ spawned + 1 \in Pids
  BY MaxSpawnsAssumption DEF Spawn, IInv, TypeOK, Pids
<1>2. proc[spawned + 1] = "unborn" BY <1>1 DEF IInv, Processes
<1>3. spawned' = spawned + 1 /\ current' = spawned + 1 BY DEF Spawn
<1>4. mode' \in [Pids -> Commands \cup {"none"}] /\ mode'[spawned + 1] = command
  BY <1>1 DEF Spawn, IInv, TypeOK
<1>5. /\ proc' \in [Pids -> {"unborn", "alive", "killed", "gone"}]
      /\ proc'[spawned + 1] = "alive"
      /\ \A p \in Pids : p # spawned + 1 =>
           proc'[p] = IF p \in old /\ proc[p] = "alive" THEN "killed" ELSE proc[p]
  BY <1>1 DEF Spawn, IInv, TypeOK
<1>6. /\ thread' \in [Pids -> [Threads -> {"none", "opening", "streaming", "dead"}]]
      /\ \A t \in Threads : thread'[spawned + 1][t] = "opening"
      /\ \A p \in Pids : p # spawned + 1 => thread'[p] = thread[p]
  BY <1>1 DEF Spawn, IInv, TypeOK
<1>. QED BY <1>1, <1>2, <1>3, <1>4, <1>5, <1>6

\* What a new process keeps of the parts that do not speak of the server: holders of devices
\* go on holding them, and nobody dies.
LEMMA SpawnKeepsThreads ==
  ASSUME IInv, NEW command \in Commands, NEW old, Spawn(command, old), UNCHANGED owner,
         runs' = 1 => runs <= 1
  PROVE  Held' /\ Threaded' /\ DiesBehindPredecessor'
<1>. DEFINE new == spawned + 1
<1>1. /\ spawned \in 0..MaxSpawns /\ new \in Pids /\ proc[new] = "unborn"
      /\ proc'[new] = "alive"
      /\ \A p \in Pids : p # new =>
           proc'[p] = IF p \in old /\ proc[p] = "alive" THEN "killed" ELSE proc[p]
      /\ \A t \in Threads : thread'[new][t] = "opening"
      /\ \A p \in Pids : p # new => thread'[p] = thread[p]
  BY Spawning
<1>2. \A t \in Threads : thread[new][t] = "none" BY <1>1 DEF IInv, Threaded
<1>. HIDE DEF new
<1>3. Held'
  <2>1. ASSUME NEW t \in Threads, owner[Device(t)] # 0
        PROVE  /\ owner[Device(t)] \in Pids
               /\ thread'[owner[Device(t)]][t] = "streaming"
               /\ proc'[owner[Device(t)]] \in {"alive", "killed"}
    <3>. DEFINE q == owner[Device(t)]
    <3>1. q \in Pids /\ thread[q][t] = "streaming" /\ proc[q] \in {"alive", "killed"}
      BY <2>1 DEF IInv, Held
    <3>. HIDE DEF q
    <3>2. q # new BY <1>1, <3>1
    <3>3. thread'[q][t] = "streaming" /\ proc'[q] \in {"alive", "killed"} BY <1>1, <3>1, <3>2
    <3>. QED BY <3>1, <3>3 DEF q
  <2>. QED BY <2>1 DEF Held
<1>4. Threaded' BY <1>1 DEF IInv, Threaded
<1>5. DiesBehindPredecessor'
  <2>1. ASSUME NEW p \in Pids, NEW t \in Threads, thread'[p][t] = "dead"
        PROVE  \E q \in Pids \ {p} :
                 /\ thread'[q][t] = "streaming"
                 /\ runs' = 1 => q < p /\ proc'[q] \in {"killed", "gone"}
    <3>1. p # new /\ thread[p][t] = "dead" BY <1>1, <2>1
    <3>2. PICK q \in Pids \ {p} :
            /\ thread[q][t] = "streaming"
            /\ runs = 1 => q < p /\ proc[q] \in {"killed", "gone"}
      BY <3>1 DEF IInv, DiesBehindPredecessor
    <3>3. q # new BY <1>2, <3>2
    <3>4. thread'[q][t] = "streaming" BY <1>1, <3>2, <3>3
    <3>5. runs' = 1 => runs = 1
      <4>1. runs = 0 => proc[p] = "unborn" BY DEF IInv, Tracked, Processes, Pids
      <4>2. proc[p] # "unborn" BY <3>1 DEF IInv, Threaded
      <4>3. runs \in Nat BY DEF IInv, TypeOK
      <4>. QED BY <4>1, <4>2, <4>3
    <3>. QED BY <1>1, <3>2, <3>3, <3>4, <3>5
  <2>. QED BY <2>1 DEF DiesBehindPredecessor
<1>. QED BY <1>3, <1>4, <1>5

----------------------------------------------------------------------------
(* The steps                                                               *)

LEMMA StartKeeps ==
  ASSUME IInv, Start
  PROVE  IInv'
<1>. DEFINE new == spawned + 1
<1>1. /\ server = "off" /\ server' = "registering" /\ runs < MaxRuns /\ runs' = runs + 1
      /\ level' = 100 /\ notifying' = "no" /\ Spawn("p", {})
      /\ UNCHANGED <<orphans, owner, backlog>>
  BY DEF Start
<1>2. /\ spawned' = new /\ current' = new
      /\ spawned \in 0..MaxSpawns /\ new \in Pids /\ proc[new] = "unborn"
      /\ mode' \in [Pids -> Commands \cup {"none"}]
      /\ proc' \in [Pids -> {"unborn", "alive", "killed", "gone"}]
      /\ proc'[new] = "alive"
      /\ \A p \in Pids : p # new => proc'[p] = proc[p]
      /\ thread' \in [Pids -> [Threads -> {"none", "opening", "streaming", "dead"}]]
  BY <1>1, Spawning, CommandTyped
<1>3. current = 0 /\ new > spawned /\ runs \in Nat BY <1>1, <1>2 DEF IInv, Tracked, TypeOK
<1>4. new \notin orphans BY <1>2, <1>3 DEF IInv, Tracked
<1>5. TypeOK' BY <1>1, <1>2, MaxRunsAssumption DEF IInv, TypeOK, Pids
<1>6. Tracked'
  <2>1. On = 0 /\ On' = 1 BY <1>1 DEF On
  <2>2. Cardinality(orphans) + 0 = runs /\ IsFiniteSet(orphans) BY <2>1 DEF IInv, Tracked
  <2>3. Cardinality(orphans') + On' = runs' BY <1>1, <2>1, <2>2, OrphansTyped
  <2>4. runs' # 0 /\ current' # 0 /\ current' = spawned' /\ server' # "off" BY <1>1, <1>2, <1>3
  <2>5. \A p \in orphans' : p <= spawned' BY <1>1, <1>2, OrphansTyped
  <2>. QED BY <1>1, <1>2, <1>4, <2>2, <2>3, <2>4, <2>5 DEF Tracked
<1>7. Processes'
  <2>1. /\ \A p \in Pids : proc'[p] = "alive" => p = current' \/ p \in orphans'
        /\ \A p \in Pids : p = current' \/ p \in orphans' => proc'[p] = "alive" \/ Lifeless(p)'
    <3>1. ASSUME NEW p \in Pids PROVE p # 0 BY DEF Pids
    <3>2. \A p \in Pids : p # new => thread'[p] = thread[p]
      BY <1>1, CommandTyped, Spawning
    <3>. QED BY <1>1, <1>2, <1>3, <3>1, <3>2 DEF IInv, Processes, Lifeless
  <2>2. \A p \in Pids : proc'[p] = "unborn" <=> p > spawned'
    BY <1>2 DEF IInv, Processes, Pids
  <2>3. runs' <= 1 => \A p \in Pids : proc'[p] = "alive" => p = spawned'
    <3>1. runs' <= 1 => spawned = 0 BY <1>1, <1>3 DEF IInv, Tracked
    <3>. QED BY <1>2, <3>1 DEF IInv, Processes, Pids
  <2>. QED BY <2>1, <2>2, <2>3 DEF Processes
<1>8. InMode' BY <1>1, CommandTyped DEF InMode
<1>9. Held' /\ Threaded' /\ DiesBehindPredecessor'
  BY <1>1, <1>3, CommandTyped, SpawnKeepsThreads
<1>. QED BY <1>5, <1>6, <1>7, <1>8, <1>9 DEF IInv

LEMMA WriteValueKeeps ==
  ASSUME IInv, NEW v \in Writes, WriteValue(v)
  PROVE  IInv'
<1>1. /\ server = "running" /\ level' = v
      /\ UNCHANGED <<server, runs, notifying, orphans, owner, backlog>>
  BY DEF WriteValue
<1>2. v \in 0..255 BY WritesAssumption
<1>3. CASE Command(v) = "none"
  <2>1. UNCHANGED <<procVars, thread>> BY <1>3 DEF WriteValue
  <2>. USE <1>1, <2>1 DEF procVars
  <2>2. TypeOK' BY <1>2 DEF IInv, TypeOK
  <2>3. Tracked' BY DEF IInv, Tracked, On
  <2>4. Processes' BY DEF IInv, Processes, Lifeless
  <2>5. InMode' BY <1>3 DEF InMode
  <2>6. Held' /\ Threaded' BY DEF IInv, Held, Threaded
  <2>7. DiesBehindPredecessor' BY DEF IInv, DiesBehindPredecessor
  <2>. QED BY <2>2, <2>3, <2>4, <2>5, <2>6, <2>7 DEF IInv
<1>4. CASE Command(v) # "none"
  <2>. DEFINE new == spawned + 1
  <2>1. Spawn(Command(v), {current}) /\ Command(v) \in Commands
    BY <1>2, <1>4, CommandTyped DEF WriteValue
  <2>2. /\ spawned' = new /\ current' = new
        /\ spawned \in 0..MaxSpawns /\ new \in Pids /\ proc[new] = "unborn"
        /\ mode' \in [Pids -> Commands \cup {"none"}] /\ mode'[new] = Command(v)
        /\ proc' \in [Pids -> {"unborn", "alive", "killed", "gone"}]
        /\ proc'[new] = "alive"
        /\ \A p \in Pids : p # new =>
             proc'[p] = IF p \in {current} /\ proc[p] = "alive" THEN "killed" ELSE proc[p]
        /\ thread' \in [Pids -> [Threads -> {"none", "opening", "streaming", "dead"}]]
    BY <2>1, Spawning
  <2>3. new > spawned /\ new # 0 /\ new # current
    BY <1>1, <2>2 DEF IInv, Tracked
  <2>4. new \notin orphans /\ current \notin orphans BY <2>2, <2>3 DEF IInv, Tracked
  <2>5. TypeOK' BY <1>1, <1>2, <2>2 DEF IInv, TypeOK, Pids
  <2>6. Tracked'
    <3>1. On = 1 /\ On' = 1 BY <1>1 DEF On
    <3>2. Cardinality(orphans) + 1 = runs /\ IsFiniteSet(orphans) BY <3>1 DEF IInv, Tracked
    <3>3. Cardinality(orphans') + On' = runs' /\ runs' # 0 BY <1>1, <3>1, <3>2, OrphansTyped
    <3>4. current' # 0 /\ current' = spawned' /\ server' # "off" BY <1>1, <2>2, <2>3
    <3>5. \A p \in orphans' : p <= spawned' BY <1>1, <2>2, OrphansTyped
    <3>. QED BY <1>1, <2>2, <2>4, <3>2, <3>3, <3>4, <3>5 DEF Tracked
  <2>7. Processes'
    <3>0. \A p \in Pids : p # new => thread'[p] = thread[p]
      BY <2>1, <2>2, Spawning
    <3>1. /\ \A p \in Pids : proc'[p] = "alive" => p = current' \/ p \in orphans'
          /\ \A p \in Pids : p = current' \/ p \in orphans' => proc'[p] = "alive" \/ Lifeless(p)'
      BY <1>1, <2>2, <2>3, <2>4, <3>0 DEF IInv, Processes, Lifeless
    <3>2. \A p \in Pids : proc'[p] = "unborn" <=> p > spawned'
      BY <2>2 DEF IInv, Processes, Pids
    <3>3. ASSUME runs' <= 1, NEW p \in Pids, proc'[p] = "alive" PROVE p = spawned'
      <4>1. Cardinality(orphans) = 0
        <5>1. Cardinality(orphans) + 1 = runs /\ runs <= 1 BY <1>1, <3>3 DEF IInv, Tracked, On
        <5>2. Cardinality(orphans) \in Nat BY FS_CardinalityType DEF IInv, Tracked
        <5>. QED BY <5>1, <5>2
      <4>2. orphans = {} BY <4>1, FS_EmptySet DEF IInv, Tracked
      <4>. QED BY <1>1, <2>2, <3>1, <3>3, <4>2
    <3>. QED BY <3>1, <3>2, <3>3 DEF Processes
  <2>8. InMode' BY <1>1, <2>2 DEF InMode
  <2>9. Held' /\ Threaded' /\ DiesBehindPredecessor'
    BY <1>1, <2>1, SpawnKeepsThreads
  <2>. QED BY <2>5, <2>6, <2>7, <2>8, <2>9 DEF IInv
<1>. QED BY <1>3, <1>4

LEMMA RegisteredKeeps ==
  ASSUME IInv, Registered
  PROVE  IInv'
<1>. USE DEF Registered, procVars, evalVars
<1>1. TypeOK' BY DEF IInv, TypeOK
<1>2. Tracked' BY DEF IInv, Tracked, On
<1>3. Processes' BY DEF IInv, Processes, Lifeless
<1>4. InMode' BY DEF IInv, InMode
<1>5. Held' /\ Threaded' BY DEF IInv, Held, Threaded
<1>6. DiesBehindPredecessor' BY DEF IInv, DiesBehindPredecessor
<1>. QED BY <1>1, <1>2, <1>3, <1>4, <1>5, <1>6 DEF IInv

LEMMA QuitKeeps ==
  ASSUME IInv, Quit
  PROVE  IInv'
<1>. USE DEF Quit, evalVars
<1>1. current \in Pids /\ current = spawned /\ current \notin orphans
  BY DEF IInv, Tracked, TypeOK, Pids
<1>2. TypeOK' BY <1>1, MaxSpawnsAssumption DEF IInv, TypeOK, Pids
<1>3. Tracked'
  <2>1. IsFiniteSet(orphans') /\ Cardinality(orphans') = Cardinality(orphans) + 1
    BY <1>1, FS_AddElement DEF IInv, Tracked
  <2>2. Cardinality(orphans) \in Nat BY FS_CardinalityType DEF IInv, Tracked
  <2>3. 0 \notin orphans /\ current # 0 BY <1>1 DEF IInv, TypeOK, Pids
  <2>. QED BY <1>1, <2>1, <2>2, <2>3 DEF IInv, Tracked, On, TypeOK
<1>4. Processes'
  <2>1. \A p \in Pids : p # 0 BY DEF Pids
  <2>. QED BY <2>1 DEF IInv, Processes, Lifeless
<1>5. InMode' BY DEF InMode
<1>6. Held' /\ Threaded' BY DEF IInv, Held, Threaded
<1>7. DiesBehindPredecessor' BY DEF IInv, DiesBehindPredecessor
<1>. QED BY <1>2, <1>3, <1>4, <1>5, <1>6, <1>7 DEF IInv

LEMMA ToggleNotifyKeeps ==
  ASSUME IInv, ToggleNotify
  PROVE  IInv'
<1>. USE DEF ToggleNotify, procVars, evalVars
<1>1. TypeOK' BY DEF IInv, TypeOK
<1>2. Tracked' BY DEF IInv, Tracked, On
<1>3. Processes' BY DEF IInv, Processes, Lifeless
<1>4. InMode' BY DEF IInv, InMode
<1>5. Held' /\ Threaded' BY DEF IInv, Held, Threaded
<1>6. DiesBehindPredecessor' BY DEF IInv, DiesBehindPredecessor
<1>. QED BY <1>1, <1>2, <1>3, <1>4, <1>5, <1>6 DEF IInv

\* A thread dies when it finds the other holder of its device: an older process that was
\* killed, as long as one server has run.
LEMMA OpenStreamKeeps ==
  ASSUME IInv, NEW p \in Pids, NEW t \in Threads, OpenStream(p, t)
  PROVE  IInv'
<1>. DEFINE q == owner[Device(t)]
            state == IF q = 0 THEN "streaming" ELSE "dead"
<1>1. /\ proc[p] = "alive" /\ thread[p][t] = "opening"
      /\ thread' = [thread EXCEPT ![p][t] = state]
      /\ owner' = IF q = 0 THEN [owner EXCEPT ![Device(t)] = p] ELSE owner
      /\ UNCHANGED <<serverVars, procVars, backlog>>
  BY DEF OpenStream
<1>2. /\ state \in {"streaming", "dead"}
      /\ q = 0 <=> state = "streaming"
  OBVIOUS
<1>3. q # 0 => /\ q \in Pids /\ thread[q][t] = "streaming" /\ proc[q] \in {"alive", "killed"}
  BY DEF IInv, Held
<1>. HIDE DEF state, q
<1>4. /\ thread' \in [Pids -> [Threads -> {"none", "opening", "streaming", "dead"}]]
      /\ thread'[p][t] = state
      /\ \A r \in Pids, s \in Threads : r # p \/ s # t => thread'[r][s] = thread[r][s]
  BY <1>1, <1>2 DEF IInv, TypeOK
<1>5. /\ owner' \in [Devices -> 0..MaxSpawns]
      /\ owner'[Device(t)] = IF q = 0 THEN p ELSE q
      /\ \A s \in Threads : s # t => owner'[Device(s)] = owner[Device(s)]
  BY <1>1, DevicesApart DEF IInv, TypeOK, Pids, q
<1>6. TypeOK' BY <1>1, <1>4, <1>5 DEF IInv, TypeOK, serverVars, procVars
<1>7. Tracked' BY <1>1 DEF IInv, Tracked, On, serverVars, procVars
<1>8. Processes' BY <1>1, <1>4 DEF IInv, Processes, Lifeless, serverVars, procVars
<1>9. InMode' BY <1>1 DEF IInv, InMode, serverVars, procVars
<1>10. Held'
  <2>1. ASSUME NEW s \in Threads, owner'[Device(s)] # 0
        PROVE  /\ owner'[Device(s)] \in Pids
               /\ thread'[owner'[Device(s)]][s] = "streaming"
               /\ proc'[owner'[Device(s)]] \in {"alive", "killed"}
    <3>1. CASE s = t /\ q = 0 BY <1>1, <1>2, <1>4, <1>5, <3>1 DEF procVars
    <3>2. CASE s = t /\ q # 0
      <4>1. q # p BY <1>1, <1>3, <3>2
      <4>. QED BY <1>1, <1>3, <1>4, <1>5, <3>2, <4>1 DEF procVars
    <3>3. CASE s # t
      <4>1. owner'[Device(s)] = owner[Device(s)] BY <1>5, <3>3
      <4>. QED BY <1>1, <1>4, <2>1, <3>3, <4>1 DEF IInv, Held, procVars
    <3>. QED BY <3>1, <3>2, <3>3
  <2>. QED BY <2>1 DEF Held
<1>11. Threaded'
  <2>1. ASSUME NEW r \in Pids, NEW s \in Threads
        PROVE  proc'[r] = "unborn" <=> thread'[r][s] = "none"
    <3>1. CASE r = p /\ s = t BY <1>1, <1>2, <1>4, <3>1 DEF procVars
    <3>2. CASE r # p \/ s # t BY <1>1, <1>4, <3>2 DEF IInv, Threaded, procVars
    <3>. QED BY <3>1, <3>2
  <2>. QED BY <2>1 DEF Threaded
<1>12. DiesBehindPredecessor'
  <2>1. ASSUME NEW r \in Pids, NEW s \in Threads, thread'[r][s] = "dead"
        PROVE  \E o \in Pids \ {r} :
                 /\ thread'[o][s] = "streaming"
                 /\ runs' = 1 => o < r /\ proc'[o] \in {"killed", "gone"}
    <3>1. CASE r = p /\ s = t
      <4>1. q # 0 BY <1>2, <1>4, <2>1, <3>1
      <4>2. q \in Pids \ {p} BY <1>1, <1>3, <4>1
      <4>3. thread'[q][t] = "streaming" BY <1>3, <1>4, <4>1, <4>2
      <4>4. runs = 1 => q < p /\ proc[q] = "killed"
        <5>1. runs = 1 => p = spawned /\ proc[q] # "alive"
          BY <1>1, <4>2 DEF IInv, Processes
        <5>2. q <= spawned
          <6>1. ~(q > spawned) BY <1>3, <4>1 DEF IInv, Processes
          <6>. QED BY <4>2, <6>1 DEF IInv, TypeOK, Pids
        <5>. QED BY <1>3, <4>1, <4>2, <5>1, <5>2 DEF Pids
      <4>. QED BY <1>1, <3>1, <4>2, <4>3, <4>4 DEF serverVars, procVars
    <3>2. CASE r # p \/ s # t
      <4>1. thread[r][s] = "dead" BY <1>4, <2>1, <3>2
      <4>2. PICK o \in Pids \ {r} :
              /\ thread[o][s] = "streaming"
              /\ runs = 1 => o < r /\ proc[o] \in {"killed", "gone"}
        BY <4>1 DEF IInv, DiesBehindPredecessor
      <4>3. o # p \/ s # t BY <1>1, <4>2
      <4>. QED BY <1>1, <1>4, <4>2, <4>3 DEF serverVars, procVars
    <3>. QED BY <3>1, <3>2
  <2>. QED BY <2>1 DEF DiesBehindPredecessor
<1>. QED BY <1>6, <1>7, <1>8, <1>9, <1>10, <1>11, <1>12 DEF IInv

LEMMA ChunkKeeps ==
  ASSUME IInv, NEW p \in Pids, RecordChunk(p) \/ PlayChunk(p)
  PROVE  IInv'
<1>1. UNCHANGED <<serverVars, procVars, thread, owner>> BY DEF RecordChunk, PlayChunk
<1>2. backlog' \in [Pids -> 0..MaxBacklog]
  BY MaxBacklogAssumption DEF RecordChunk, PlayChunk, IInv, TypeOK
<1>. USE <1>1 DEF serverVars, procVars
<1>3. TypeOK' BY <1>2 DEF IInv, TypeOK
<1>4. Tracked' BY DEF IInv, Tracked, On
<1>5. Processes' BY DEF IInv, Processes, Lifeless
<1>6. InMode' BY DEF IInv, InMode
<1>7. Held' /\ Threaded' BY DEF IInv, Held, Threaded
<1>8. DiesBehindPredecessor' BY DEF IInv, DiesBehindPredecessor
<1>. QED BY <1>3, <1>4, <1>5, <1>6, <1>7, <1>8 DEF IInv

LEMMA ExitKeeps ==
  ASSUME IInv, NEW p \in Pids, Exit(p)
  PROVE  IInv'
<1>1. /\ proc[p] = "killed" \/ (proc[p] = "alive" /\ \A t \in Threads : thread[p][t] = "dead")
      /\ proc' = [proc EXCEPT ![p] = "gone"]
      /\ owner' = [d \in Devices |-> IF owner[d] = p THEN 0 ELSE owner[d]]
      /\ UNCHANGED <<serverVars, current, spawned, mode, thread, backlog>>
  BY DEF Exit
<1>2. /\ proc' \in [Pids -> {"unborn", "alive", "killed", "gone"}] /\ proc'[p] = "gone"
      /\ \A r \in Pids : r # p => proc'[r] = proc[r]
  BY <1>1 DEF IInv, TypeOK
<1>3. /\ owner' \in [Devices -> 0..MaxSpawns]
      /\ \A t \in Threads : owner'[Device(t)] = IF owner[Device(t)] = p THEN 0 ELSE owner[Device(t)]
  BY <1>1, MaxSpawnsAssumption, DevicesApart DEF IInv, TypeOK
<1>4. TypeOK' BY <1>1, <1>2, <1>3 DEF IInv, TypeOK, serverVars
<1>5. Tracked' BY <1>1 DEF IInv, Tracked, On, serverVars
<1>6. Processes' BY <1>1, <1>2 DEF IInv, Processes, Lifeless, serverVars
<1>7. InMode' BY <1>1 DEF IInv, InMode, serverVars
<1>8. Held' BY <1>1, <1>2, <1>3 DEF IInv, Held
<1>9. Threaded' BY <1>1, <1>2 DEF IInv, Threaded
<1>10. DiesBehindPredecessor'
  BY <1>1, <1>2 DEF IInv, DiesBehindPredecessor, serverVars
<1>. QED BY <1>4, <1>5, <1>6, <1>7, <1>8, <1>9, <1>10 DEF IInv

LEMMA Stuttering ==
  ASSUME IInv, UNCHANGED vars
  PROVE  IInv'
<1>. USE DEF vars, serverVars, procVars, evalVars
<1>1. TypeOK' BY DEF IInv, TypeOK
<1>2. Tracked' BY DEF IInv, Tracked, On
<1>3. Processes' BY DEF IInv, Processes, Lifeless
<1>4. InMode' BY DEF IInv, InMode
<1>5. Held' /\ Threaded' BY DEF IInv, Held, Threaded
<1>6. DiesBehindPredecessor' BY DEF IInv, DiesBehindPredecessor
<1>. QED BY <1>1, <1>2, <1>3, <1>4, <1>5, <1>6 DEF IInv

----------------------------------------------------------------------------
(* The theorems                                                            *)

\* IInv is inductive: the server's one process is the newest, and devices are held by threads
\* that stream, however writes, exits and restarts of the server interleave.
THEOREM Invariance == Spec => []IInv
<1>1. IInv /\ [Next]_vars => IInv'
  <2>. SUFFICES ASSUME IInv, [Next]_vars PROVE IInv'
    OBVIOUS
  <2>1. CASE Start BY <2>1, StartKeeps
  <2>2. CASE Registered BY <2>2, RegisteredKeeps
  <2>3. CASE Quit BY <2>3, QuitKeeps
  <2>4. CASE ToggleNotify BY <2>4, ToggleNotifyKeeps
  <2>5. ASSUME NEW v \in Writes, WriteValue(v) PROVE IInv' BY <2>5, WriteValueKeeps
  <2>6. ASSUME NEW p \in Pids, NEW t \in Threads, OpenStream(p, t) PROVE IInv'
    BY <2>6, OpenStreamKeeps
  <2>7. ASSUME NEW p \in Pids, RecordChunk(p) \/ PlayChunk(p) PROVE IInv' BY <2>7, ChunkKeeps
  <2>8. ASSUME NEW p \in Pids, Exit(p) PROVE IInv' BY <2>8, ExitKeeps
  <2>9. CASE UNCHANGED vars BY <2>9, Stuttering
  <2>. QED BY <2>1, <2>2, <2>3, <2>4, <2>5, <2>6, <2>7, <2>8, <2>9 DEF Next, Audio
<1>. QED BY Beginning, <1>1, PTL DEF Spec

\* Every reachable state is well typed; in particular a process never plays a chunk that was
\* not recorded.
THEOREM Typing == Spec => []TypeOK
<1>1. IInv => TypeOK BY DEF IInv
<1>. QED BY <1>1, Invariance, PTL

\* One live process for the server and one for each that is gone, in the mode written last,
\* for any number of writes, processes and runs of the server.
THEOREM OneProcess == Spec => []OneProcessInMode
<1>1. IInv => OneProcessInMode
  <2>. SUFFICES ASSUME IInv PROVE OneProcessInMode
    OBVIOUS
  <2>1. Cardinality(orphans) <= runs
    <3>1. Cardinality(orphans) \in Nat BY FS_CardinalityType DEF IInv, Tracked
    <3>. QED BY <3>1 DEF IInv, Tracked, On
  <2>. QED BY <2>1 DEF IInv, OneProcessInMode, Processes, Lifeless, InMode
<1>. QED BY <1>1, Invariance, PTL

\* A thread dies only behind another process that streamed, and with one run of the server
\* that is an older one that was killed, for any number of processes.
THEOREM DiesBehind == Spec => []DiesBehindPredecessor
<1>1. IInv => DiesBehindPredecessor BY DEF IInv
<1>. QED BY <1>1, Invariance, PTL
=============================================================================
