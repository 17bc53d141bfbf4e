----------------------- MODULE HeartRateSubscriptions -----------------------
(***************************************************************************)
(* The heart rate service as bluetoothd serves it: bluez-5.43/src/         *)
(* gatt-database.c between the devices, which write the client             *)
(* characteristic configuration (CCC) of the measurement over ATT, and     *)
(* example-gatt-server, which is told over D-Bus to notify.                *)
(*                                                                         *)
(* bluetoothd counts the subscriptions, not the devices: it calls          *)
(* StartNotify for each, StopNotify after the last, and forgets a device   *)
(* that is neither connected nor paired when a measurement cannot be sent  *)
(* to it, without counting it out.  D-Bus delivers calls and signals in    *)
(* order but late, and the application may exit with some of them in       *)
(* flight.  bluetoothd and the application each run a main loop, so each   *)
(* handler is one step.                                                    *)
(***************************************************************************)
EXTENDS HeartRate, Sequences, FiniteSets

CONSTANTS
  Devices,     \* remote devices
  MaxCount,    \* UINT_MAX, the largest ntfy_cnt
  MaxCalls,    \* bound: method calls in flight
  MaxSignals   \* bound: PropertiesChanged signals in flight

ASSUME DevicesAssumption == IsFiniteSet(Devices)
ASSUME MaxCountAssumption == MaxCount \in Nat \ {0}
ASSUME BoundsAssumption == MaxCalls \in Nat /\ MaxSignals \in Nat

VARIABLES
  app,        \* "up"; "exited" while bluetoothd does not know yet; "down"
  conn,       \* "on" for a device with a gatt_server, that is, connected
  paired,     \* "yes" for a device whose bearer is paired
  ccc,        \* CCC value of the device; 0 also stands for no ccc_state
  ntfy_cnt,   \* external_chrc.ntfy_cnt
  calls,      \* StartNotify and StopNotify on their way to the application
  signals,    \* PropertiesChanged on their way to bluetoothd
  dropped     \* history: subscriptions forgotten with their device_state

bluetoothd == <<conn, paired, ccc, ntfy_cnt, dropped>>
subsVars == <<vars, bluetoothd, app, calls, signals>>

SubsInit ==
  /\ Init
  /\ app = "down"
  /\ conn = [d \in Devices |-> "off"] /\ paired = [d \in Devices |-> "no"]
  /\ ccc = [d \in Devices |-> 0] /\ ntfy_cnt = 0
  /\ calls = <<>> /\ signals = 0 /\ dropped = 0

\* gatt_ccc_write_cb: a device writes a CCC value other than the one it has; an
\* identical one just succeeds.  bluetoothd knows the attribute until it learns that the
\* application is gone.
WriteCcc(d, value) ==
  /\ app # "down" /\ conn[d] = "on"
  /\ ccc[d] # value /\ Len(calls) < MaxCalls
  /\ ccc' = [ccc EXCEPT ![d] = value]
  /\ UNCHANGED <<vars, app, conn, paired, signals, dropped>>

\* ccc_write_cb for the value 1.  A device that finds the counter at its limit is refused, as
\* is one when StartNotify cannot be sent, and nothing changes; nor does anything for 2, which
\* the characteristic does not support.
Enable(d) ==
  /\ WriteCcc(d, 1)
  /\ ntfy_cnt # MaxCount
  /\ calls' = Append(calls, "StartNotify")
  /\ ntfy_cnt' = ntfy_cnt + 1

\* Mutant: StopNotify is called for each subscription that ends
DisableStops(d) ==
  /\ WriteCcc(d, 0)
  /\ ntfy_cnt' = IF ntfy_cnt = 0 THEN 0 ELSE ntfy_cnt - 1
  /\ calls' = Append(calls, "StopNotify")

\* Mutant: the counter is looked at before it is decremented
DisableFetchAndSub(d) ==
  /\ WriteCcc(d, 0)
  /\ ntfy_cnt' = IF ntfy_cnt = 0 THEN 0 ELSE ntfy_cnt - 1
  /\ calls' = IF ntfy_cnt = 0 THEN Append(calls, "StopNotify") ELSE calls

\* ccc_write_cb for the value 0
Disable(d) ==
  /\ WriteCcc(d, 0)
  /\ ntfy_cnt' = IF ntfy_cnt = 0 THEN 0 ELSE ntfy_cnt - 1
  /\ calls' = IF ntfy_cnt = 1 THEN Append(calls, "StopNotify") ELSE calls

\* The application's main loop dispatches the next call; "Already notifying" and
\* "Not notifying" change nothing.
AppReceives ==
  /\ app = "up" /\ calls # <<>>
  /\ calls' = Tail(calls)
  /\ \/ Head(calls) = "StartNotify" /\ StartNotify
     \/ Head(calls) = "StopNotify" /\ StopNotify
     \/ /\ Head(calls) = IF notifying = "yes" THEN "StartNotify" ELSE "StopNotify"
        /\ UNCHANGED vars
  /\ UNCHANGED <<bluetoothd, app, signals>>

\* A timer fires
AppMeasures ==
  /\ app = "up" /\ signals < MaxSignals
  /\ Measurement
  /\ signals' = signals + 1
  /\ UNCHANGED <<bluetoothd, app, calls>>

AppIsWritten ==
  /\ app = "up"
  /\ \E byte \in Writes : WriteControlPoint(byte)
  /\ UNCHANGED <<bluetoothd, app, calls, signals>>

Unreachable(d) == conn[d] = "off" /\ paired[d] = "no"

\* property_changed_cb: send_notification_to_device for each device_state; one that is
\* subscribed, not connected and not paired is removed with its ccc_states
DeliverSignal ==
  /\ app # "down" /\ signals > 0
  /\ signals' = signals - 1
  /\ ccc' = [d \in Devices |-> IF Unreachable(d) THEN 0 ELSE ccc[d]]
  /\ dropped' = dropped + Cardinality({d \in Devices : ccc[d] = 1 /\ Unreachable(d)})
  /\ UNCHANGED <<vars, app, conn, paired, ntfy_cnt, calls>>

\* gatt_server_init; attio_cleanup with gatt_server_cleanup; the CCC value stays
Connect(d) ==
  /\ conn[d] = "off"
  /\ conn' = [conn EXCEPT ![d] = "on"]
  /\ UNCHANGED <<vars, app, paired, ccc, ntfy_cnt, calls, signals, dropped>>

Disconnect(d) ==
  /\ conn[d] = "on"
  /\ conn' = [conn EXCEPT ![d] = "off"]
  /\ UNCHANGED <<vars, app, paired, ccc, ntfy_cnt, calls, signals, dropped>>

\* device_set_paired, once a connected device has authenticated
Pair(d) ==
  /\ conn[d] = "on" /\ paired[d] = "no"
  /\ paired' = [paired EXCEPT ![d] = "yes"]
  /\ UNCHANGED <<vars, app, conn, ccc, ntfy_cnt, calls, signals, dropped>>

\* device_set_unpaired; the disconnection it asks for comes later
Unpair(d) ==
  /\ paired[d] = "yes"
  /\ paired' = [paired EXCEPT ![d] = "no"]
  /\ UNCHANGED <<vars, app, conn, ccc, ntfy_cnt, calls, signals, dropped>>

\* The process ends, with its timers; what it sent is still on its way
AppExits ==
  /\ app = "up"
  /\ app' = "exited"
  /\ notifying' = "no" /\ timers' = 0
  /\ hr_ee_count' = 0 /\ energy_expended' = 0
  /\ reported' = 0 /\ reset' = "yes"
  /\ UNCHANGED <<bluetoothd, calls, signals>>

\* Mutant: the CCC values of a removed service stay behind
ClientDisconnectKeepsCcc ==
  /\ app = "exited"
  /\ app' = "down"
  /\ ntfy_cnt' = 0 /\ dropped' = 0
  /\ calls' = <<>> /\ signals' = 0
  /\ UNCHANGED <<vars, conn, paired, ccc>>

\* client_disconnect_cb: app_free removes the service, gatt_db_service_removed the CCC
\* values of its handles; the calls and signals of the lost name have no receiver
ClientDisconnect ==
  /\ app = "exited"
  /\ app' = "down"
  /\ ccc' = [d \in Devices |-> 0]
  /\ ntfy_cnt' = 0 /\ dropped' = 0
  /\ calls' = <<>> /\ signals' = 0
  /\ UNCHANGED <<vars, conn, paired>>

\* manager_register_app and client_ready_cb for a server that was just started
AppRegisters ==
  /\ app = "down"
  /\ app' = "up"
  /\ UNCHANGED <<vars, bluetoothd, calls, signals>>

SubsNext ==
  \/ AppReceives \/ AppMeasures \/ AppIsWritten
  \/ AppExits \/ ClientDisconnect \/ AppRegisters \/ DeliverSignal
  \/ \E d \in Devices : Enable(d) \/ Disable(d) \/ Connect(d) \/ Disconnect(d) \/ Pair(d) \/ Unpair(d)

\* The two main loops dispatch what has arrived, and GLib runs a timer that is due.
SubsSpec ==
  /\ SubsInit /\ [][SubsNext]_subsVars
  /\ WF_subsVars(AppReceives) /\ WF_subsVars(AppMeasures) /\ WF_subsVars(DeliverSignal)

----------------------------------------------------------------------------
(* Properties                                                              *)

SubsTypeOK ==
  /\ TypeOK
  /\ app \in {"up", "exited", "down"}
  /\ conn \in [Devices -> {"on", "off"}] /\ paired \in [Devices -> {"yes", "no"}]
  /\ ccc \in [Devices -> {0, 1}]
  /\ ntfy_cnt \in 0..MaxCount /\ dropped \in 0..MaxCount
  /\ calls \in Seq({"StartNotify", "StopNotify"}) /\ Len(calls) <= MaxCalls
  /\ signals \in 0..MaxSignals

Subscribed == {d \in Devices : ccc[d] = 1}

\* Whether the application notifies once it has received what is in flight
WillNotify == IF calls = <<>> THEN notifying = "yes" ELSE calls[Len(calls)] = "StartNotify"

\* The counter of ccc_write_cb is the number of subscribed devices plus the number of
\* those that were forgotten in the meantime; the test for zero before the decrement
\* never applies, and the application notifies, or is about to, exactly while the counter
\* is not zero, whatever is connected, lost, written or in flight.
CountsSubscribers ==
  /\ ntfy_cnt = Cardinality(Subscribed) + dropped
  /\ app = "up" => (WillNotify <=> ntfy_cnt > 0)

\* A device that is subscribed and connected from some moment on is sent measurements for
\* ever, whatever the other devices do: no StopNotify of theirs ends its subscription.
SubscriberIsNotified ==
  \A d \in Devices :
    <>[](app = "up" /\ conn[d] = "on" /\ ccc[d] = 1) => []<><<DeliverSignal>>_subsVars

\* Once all devices have unsubscribed, the application stops measuring, provided none of
\* them was ever forgotten: a single forgotten one keeps it measuring for ever.
QuietWhenUnsubscribed ==
  <>[](app = "up" /\ Subscribed = {} /\ dropped = 0) => <>[](timers = 0)
=============================================================================
