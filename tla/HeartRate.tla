----------------------------- MODULE HeartRate -----------------------------
(***************************************************************************)
(* bluez-5.43/test/example-gatt-server, the heart rate service: while a    *)
(* client is subscribed, a GLib timer of 1000 ms sends a measurement and   *)
(* asks to be called again; every tenth measurement carries the energy     *)
(* expended, which a client may reset through the control point.           *)
(*                                                                         *)
(* StopNotify does not remove the timer.  The timer finds out by itself    *)
(* the next time it fires, after one more measurement; a client that       *)
(* subscribes again before that is served by the old timer and a new one.  *)
(* The handlers run in one main loop, so each is one step; what varies is  *)
(* the order of timers and requests.                                       *)
(***************************************************************************)
EXTENDS Naturals

CONSTANTS
  MaxEnergy,   \* 0xffff, where energy_expended stays
  Every,       \* 10: measurements from one energy field to the next
  MaxTimers,   \* bound: timers pending at a time
  Writes       \* bytes that clients write to the control point

ASSUME MaxEnergyAssumption == MaxEnergy \in Nat
ASSUME EveryAssumption == Every \in Nat \ {0}
ASSUME MaxTimersAssumption == MaxTimers \in Nat
ASSUME WritesAssumption == Writes \subseteq 0..255

VARIABLES
  notifying,        \* "yes" while a client is subscribed
  timers,           \* timers added with timeout_add and not finished
  hr_ee_count,      \* measurements sent; only its remainder is ever looked at
  energy_expended,
  reported,         \* history: the energy field sent last (0 before the first)
  reset             \* history: "yes" when energy was reset after that field, or none was sent

vars == <<notifying, timers, hr_ee_count, energy_expended, reported, reset>>

Init ==
  /\ notifying = "no" /\ timers = 0
  /\ hr_ee_count = 0 /\ energy_expended = 0
  /\ reported = 0 /\ reset = "yes"

Capped(n) == IF n < MaxEnergy THEN n ELSE MaxEnergy

\* _update_hr_msrmt_simulation, for the value of notifying it finds
UpdateSimulation(subscribed) == timers' = IF subscribed = "yes" THEN timers + 1 ELSE timers

\* Mutant: a client that is subscribed is not sent away
StartNotifyAgain ==
  /\ timers < MaxTimers
  /\ notifying' = "yes"
  /\ UpdateSimulation(notifying')
  /\ UNCHANGED <<hr_ee_count, energy_expended, reported, reset>>

StartNotify ==
  /\ notifying = "no" /\ timers < MaxTimers
  /\ notifying' = "yes"
  /\ UpdateSimulation(notifying')
  /\ UNCHANGED <<hr_ee_count, energy_expended, reported, reset>>

StopNotify ==
  /\ notifying = "yes"
  /\ notifying' = "no"
  /\ UpdateSimulation(notifying')
  /\ UNCHANGED <<hr_ee_count, energy_expended, reported, reset>>

\* Mutant: the energy is counted without an upper limit
MeasurementUncapped ==
  /\ timers > 0
  /\ energy_expended' = energy_expended + 1
  /\ hr_ee_count' = (hr_ee_count + 1) % Every
  /\ timers' = IF notifying = "yes" THEN timers ELSE timers - 1
  /\ UNCHANGED <<notifying, reported, reset>>

\* Mutant: the energy is counted before it is reported
MeasurementCountsFirst ==
  /\ timers > 0
  /\ IF hr_ee_count = 0
     THEN reported' = Capped(energy_expended + 1) /\ reset' = "no"
     ELSE UNCHANGED <<reported, reset>>
  /\ energy_expended' = Capped(energy_expended + 1)
  /\ hr_ee_count' = (hr_ee_count + 1) % Every
  /\ timers' = IF notifying = "yes" THEN timers ELSE timers - 1
  /\ UNCHANGED notifying

\* hr_msrmt_cb: the measurement is sent whatever notifying is, and the timer goes on
\* when it is still set
Measurement ==
  /\ timers > 0
  /\ IF hr_ee_count = 0
     THEN reported' = energy_expended /\ reset' = "no"
     ELSE UNCHANGED <<reported, reset>>
  /\ energy_expended' = Capped(energy_expended + 1)
  /\ hr_ee_count' = (hr_ee_count + 1) % Every
  /\ timers' = IF notifying = "yes" THEN timers ELSE timers - 1
  /\ UNCHANGED notifying

\* HeartRateControlPointChrc.WriteValue: a value other than 1 is refused
WriteControlPoint(byte) ==
  /\ byte = 1
  /\ energy_expended' = 0 /\ reset' = "yes"
  /\ UNCHANGED <<notifying, timers, hr_ee_count, reported>>

Next ==
  \/ StartNotify \/ StopNotify \/ Measurement
  \/ \E byte \in Writes : WriteControlPoint(byte)

----------------------------------------------------------------------------
(* Properties                                                              *)

TypeOK ==
  /\ notifying \in {"yes", "no"} /\ reset \in {"yes", "no"}
  /\ timers \in 0..MaxTimers
  /\ hr_ee_count \in 0..(Every - 1)
  /\ energy_expended \in 0..MaxEnergy /\ reported \in 0..MaxEnergy

\* However requests and timers interleave, a subscribed client has a timer that serves
\* it: StartNotify never relies on an old timer that is about to end.
SubscriberIsServed == notifying = "yes" => timers > 0

\* Measurements sent since the last energy field
SinceReport == IF hr_ee_count = 0 THEN Every ELSE hr_ee_count

\* A client that was sent an energy field knows the energy from then on: it is the field
\* plus the measurements counted since, up to the limit, as long as nobody reset it; after
\* a reset, it is at most that number of measurements.
EnergyIsKnown ==
  IF reset = "no"
  THEN energy_expended = Capped(reported + SinceReport)
  ELSE energy_expended <= SinceReport

\* While the client stays subscribed the number of timers does not change: timers left over
\* from an earlier subscription never end, and the client goes on being sent several
\* measurements per second.
TimersAreKept == [][notifying = "yes" /\ notifying' = "yes" => timers' = timers]_vars
=============================================================================
