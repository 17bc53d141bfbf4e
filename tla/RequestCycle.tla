---------------------------- MODULE RequestCycle ----------------------------
(***************************************************************************)
(* What a device may rely on when it reads or writes a characteristic,     *)
(* without layers, timers, calls or an application: it asks, it is         *)
(* answered once, it may ask again.  An answer may be lost on its way to   *)
(* the device, which then is neither answered nor free until its link      *)
(* ends.  A device is never answered while it does not wait, an answer     *)
(* does not change once it is given, and success is told to one device at  *)
(* a time.  Several may be told of a failure at once, such as all that     *)
(* wait when the application exits.                                        *)
(***************************************************************************)
CONSTANTS
  Devices,   \* remote devices
  Kinds      \* what may be asked for

VARIABLE cycle   \* where each device is

Place(at, asks, told) == [at |-> at, asks |-> asks, told |-> told]

Away == Place("away", "nothing", "nothing")   \* no link
Free == Place("free", "nothing", "nothing")   \* may ask
Shut == Place("shut", "nothing", "nothing")   \* asked too early: the link is about to go

Waiting(kind) == Place("waiting", kind, "nothing")
Answered(kind, result) == Place("answered", kind, result)

Unanswered(kind) == Place("unanswered", kind, "nothing")

Waiters == {d \in Devices : cycle[d].at = "waiting"}

Init == cycle = [d \in Devices |-> Away]

Connect(d) == cycle[d] = Away /\ cycle' = [cycle EXCEPT ![d] = Free]

Lose(d) == cycle[d] # Away /\ cycle' = [cycle EXCEPT ![d] = Away]

AskTooEarly(d) ==
  /\ cycle[d].at \in {"waiting", "answered", "unanswered"}
  /\ cycle' = [cycle EXCEPT ![d] = Shut]

Send(d) == cycle[d].at = "answered" /\ cycle' = [cycle EXCEPT ![d] = Free]

Drop(d) == cycle[d].at = "answered" /\ cycle' = [cycle EXCEPT ![d] = Unanswered(@.asks)]

Succeed(d) == d \in Waiters /\ cycle' = [cycle EXCEPT ![d] = Answered(@.asks, "ok")]

Fail(failed) ==
  cycle' = [d \in Devices |-> IF d \in failed THEN Answered(cycle[d].asks, "error") ELSE cycle[d]]

\* A request may fail at once, and others may fail with it
Ask(d, kind, failed) ==
  /\ cycle[d] = Free
  /\ cycle' = [e \in Devices |->
       LET asks == IF e = d THEN kind ELSE cycle[e].asks
       IN  IF e \in failed THEN Answered(asks, "error")
           ELSE IF e = d THEN Waiting(kind)
           ELSE cycle[e]]

Next ==
  \/ \E d \in Devices :
       \/ Connect(d) \/ Lose(d) \/ AskTooEarly(d)
       \/ Send(d) \/ Drop(d) \/ Succeed(d)
  \/ \E failed \in SUBSET Waiters : Fail(failed)
  \/ \E d \in Devices, kind \in Kinds : \E failed \in SUBSET (Waiters \cup {d}) : Ask(d, kind, failed)

Spec == Init /\ [][Next]_cycle
=============================================================================
