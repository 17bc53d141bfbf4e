------------------- MODULE HeartRateSubscriptions_proofs -------------------
(***************************************************************************)
(* The safety of HeartRateSubscriptions, for every set of devices and all  *)
(* limits.  The service's own invariant carries over because every step of *)
(* the composition is a step of the service, a restart of it, or leaves it *)
(* alone.  CountsSubscribers is inductive once it is known that an         *)
(* application that is not up does not notify, and that nothing is counted *)
(* or in flight while none is registered.                                  *)
(*                                                                         *)
(* The service's own invariant IInv comes first.  The energy can only be   *)
(* known from its last report (EnergyIsKnown) because the count runs in    *)
(* its range, and a subscriber always has a timer because only a timer     *)
(* that fires unsubscribed ends.                                           *)
(***************************************************************************)
EXTENDS HeartRateSubscriptions, FiniteSetTheorems, SequenceTheorems, TLAPS

IInv == TypeOK /\ SubscriberIsServed /\ EnergyIsKnown

\* The count of hr_msrmt_cb wraps at the period and nowhere else.
LEMMA CountWraps ==
  ASSUME NEW n \in 0..(Every - 1)
  PROVE  (n + 1) % Every = IF n + 1 = Every THEN 0 ELSE n + 1
<1>1. Every \in Nat /\ Every > 0 /\ n \in Nat /\ n + 1 <= Every
  BY EveryAssumption
<1>2. CASE n + 1 = Every
  BY <1>1, <1>2
<1>3. CASE n + 1 < Every
  BY <1>1, <1>3
<1>. QED
  BY <1>1, <1>2, <1>3

\* The limit of energy_expended
LEMMA CappedInRange ==
  ASSUME NEW n \in Nat
  PROVE  Capped(n) \in 0..MaxEnergy
BY MaxEnergyAssumption DEF Capped

LEMMA InitInv == Init => IInv
BY EveryAssumption, MaxEnergyAssumption, MaxTimersAssumption
DEF Init, IInv, TypeOK, SubscriberIsServed, EnergyIsKnown, SinceReport

LEMMA StartNotifyInv == IInv /\ StartNotify => IInv'
BY MaxTimersAssumption
DEF IInv, TypeOK, SubscriberIsServed, EnergyIsKnown, SinceReport, Capped, StartNotify, UpdateSimulation

LEMMA StopNotifyInv == IInv /\ StopNotify => IInv'
BY MaxTimersAssumption
DEF IInv, TypeOK, SubscriberIsServed, EnergyIsKnown, SinceReport, Capped, StopNotify, UpdateSimulation

LEMMA WriteControlPointInv ==
  ASSUME NEW byte \in Writes, IInv, WriteControlPoint(byte)
  PROVE  IInv'
BY MaxEnergyAssumption, EveryAssumption
DEF IInv, TypeOK, SubscriberIsServed, EnergyIsKnown, SinceReport, Capped, WriteControlPoint

LEMMA MeasurementInv == IInv /\ Measurement => IInv'
<1>. SUFFICES ASSUME IInv, Measurement PROVE IInv'
  OBVIOUS
<1>. USE MaxEnergyAssumption, EveryAssumption, MaxTimersAssumption
<1>1. hr_ee_count' = IF hr_ee_count + 1 = Every THEN 0 ELSE hr_ee_count + 1
  BY CountWraps DEF IInv, TypeOK, Measurement
<1>2. energy_expended' \in 0..MaxEnergy
  BY CappedInRange DEF IInv, TypeOK, Measurement
<1>3. TypeOK'
  BY <1>1, <1>2 DEF IInv, TypeOK, SubscriberIsServed, Measurement
<1>4. SubscriberIsServed'
  BY DEF IInv, TypeOK, SubscriberIsServed, Measurement
<1>5. EnergyIsKnown'
  <2>1. CASE hr_ee_count = 0
    BY <1>1, <2>1 DEF IInv, TypeOK, EnergyIsKnown, SinceReport, Capped, Measurement
  <2>2. CASE hr_ee_count # 0
    BY <1>1, <2>2 DEF IInv, TypeOK, EnergyIsKnown, SinceReport, Capped, Measurement
  <2>. QED
    BY <2>1, <2>2
<1>. QED
  BY <1>3, <1>4, <1>5 DEF IInv

LEMMA NextInv == IInv /\ [Next]_vars => IInv'
<1>. SUFFICES ASSUME IInv, [Next]_vars PROVE IInv'
  OBVIOUS
<1>1. CASE UNCHANGED vars
  BY <1>1 DEF IInv, TypeOK, SubscriberIsServed, EnergyIsKnown, SinceReport, Capped, vars
<1>2. ASSUME NEW byte \in Writes, WriteControlPoint(byte) PROVE IInv'
  BY <1>2, WriteControlPointInv
<1>. QED
  BY <1>1, <1>2, StartNotifyInv, StopNotifyInv, MeasurementInv DEF Next

----------------------------------------------------------------------------
(* The service with bluetoothd                                             *)

NobodyIsLeft ==
  /\ app # "up" => notifying = "no"
  /\ app = "down" => ntfy_cnt = 0 /\ calls = <<>>

SubsInv == SubsTypeOK /\ IInv /\ CountsSubscribers /\ NobodyIsLeft

\* What the application will do, after a call was sent to it
LEMMA AppendDecides ==
  ASSUME NEW s \in Seq({"StartNotify", "StopNotify"}), NEW c \in {"StartNotify", "StopNotify"}
  PROVE  /\ Append(s, c) \in Seq({"StartNotify", "StopNotify"})
         /\ Append(s, c) # <<>>
         /\ Len(Append(s, c)) = Len(s) + 1
         /\ Append(s, c)[Len(Append(s, c))] = c
OBVIOUS

\* ... and after it received one
LEMMA TailDecides ==
  ASSUME NEW s \in Seq({"StartNotify", "StopNotify"}), s # <<>>
  PROVE  /\ Tail(s) \in Seq({"StartNotify", "StopNotify"})
         /\ Len(Tail(s)) = Len(s) - 1
         /\ Tail(s) = <<>> => s[Len(s)] = Head(s)
         /\ Tail(s) # <<>> => Tail(s)[Len(Tail(s))] = s[Len(s)]
<1>1. /\ Tail(s) \in Seq({"StartNotify", "StopNotify"})
      /\ Len(Tail(s)) = Len(s) - 1
      /\ \A i \in 1..Len(Tail(s)) : Tail(s)[i] = s[i + 1]
  BY HeadTailProperties
<1>2. Len(s) \in Nat \ {0} /\ Head(s) = s[1]
  BY EmptySeq
<1>3. Tail(s) = <<>> => Len(s) = 1
  BY <1>1, <1>2, EmptySeq
<1>4. Tail(s) # <<>> => Len(Tail(s)) \in Nat \ {0}
  BY <1>1, EmptySeq
<1>5. Tail(s) # <<>> => Tail(s)[Len(Tail(s))] = s[Len(s)]
  BY <1>1, <1>2, <1>4
<1>. QED
  BY <1>1, <1>2, <1>3, <1>5

LEMMA SubscribedIsFinite == IsFiniteSet(Subscribed) /\ Cardinality(Subscribed) \in Nat
<1>1. Subscribed \in SUBSET Devices
  BY DEF Subscribed
<1>2. IsFiniteSet(Subscribed)
  BY <1>1, DevicesAssumption, FS_Subset
<1>. QED
  BY <1>2, FS_CardinalityType

LEMMA SubsInitInv == SubsInit => SubsInv
<1>. SUFFICES ASSUME SubsInit PROVE SubsInv
  OBVIOUS
<1>1. IInv
  BY InitInv DEF SubsInit
<1>2. Subscribed = {}
  BY DEF SubsInit, Subscribed
<1>3. CountsSubscribers
  BY <1>2, FS_EmptySet DEF SubsInit, CountsSubscribers
<1>4. SubsTypeOK
  BY <1>1, MaxCountAssumption, BoundsAssumption DEF SubsInit, SubsTypeOK, IInv
<1>5. NobodyIsLeft
  BY DEF SubsInit, Init, NobodyIsLeft
<1>. QED
  BY <1>1, <1>3, <1>4, <1>5 DEF SubsInv

\* The service takes a step of its own, or starts over.
LEMMA ServiceSteps ==
  ASSUME SubsInv, [SubsNext]_subsVars
  PROVE  IInv'
<1>1. CASE [Next]_vars
  BY <1>1, NextInv DEF SubsInv
<1>2. CASE AppExits
  <2>1. /\ notifying' = "no" /\ timers' = 0 /\ hr_ee_count' = 0
        /\ energy_expended' = 0 /\ reported' = 0 /\ reset' = "yes"
    BY <1>2 DEF AppExits
  <2>. QED
    BY <2>1, EveryAssumption, MaxEnergyAssumption, MaxTimersAssumption
    DEF IInv, TypeOK, SubscriberIsServed, EnergyIsKnown, SinceReport
<1>3. [Next]_vars \/ AppExits
  BY DEF SubsNext, subsVars, Next, AppReceives, AppMeasures, AppIsWritten, DeliverSignal,
    ClientDisconnect, AppRegisters, Enable, Disable, WriteCcc, Connect, Disconnect, Pair, Unpair
<1>. QED
  BY <1>1, <1>2, <1>3

\* A subscription adds one to both sides of the count, and makes the application notify.
LEMMA EnableCounts ==
  ASSUME SubsInv, NEW d \in Devices, Enable(d)
  PROVE  SubsTypeOK' /\ CountsSubscribers' /\ NobodyIsLeft'
<1>. USE DEF SubsInv, SubsTypeOK
<1>1. Subscribed' = Subscribed \cup {d} /\ d \notin Subscribed
  BY DEF Enable, WriteCcc, Subscribed
<1>2. Cardinality(Subscribed') = Cardinality(Subscribed) + 1
  BY <1>1, SubscribedIsFinite, FS_AddElement
<1>3. /\ calls' \in Seq({"StartNotify", "StopNotify"})
      /\ Len(calls') = Len(calls) + 1 /\ calls' # <<>>
      /\ calls'[Len(calls')] = "StartNotify"
  BY AppendDecides DEF Enable, WriteCcc
<1>4. Len(calls) \in Nat
  OBVIOUS
<1>5. ntfy_cnt' = Cardinality(Subscribed') + dropped' /\ ntfy_cnt' > 0
  <2>1. ntfy_cnt = Cardinality(Subscribed) + dropped /\ ntfy_cnt \in 0..MaxCount
    BY DEF CountsSubscribers
  <2>2. ntfy_cnt' = ntfy_cnt + 1 /\ dropped' = dropped /\ dropped \in 0..MaxCount
    BY DEF Enable, WriteCcc
  <2>3. Cardinality(Subscribed) \in Nat
    BY SubscribedIsFinite
  <2>. HIDE DEF SubsInv
  <2>. QED
    BY <1>2, <2>1, <2>2, <2>3, MaxCountAssumption
<1>6. WillNotify'
  BY <1>3 DEF WillNotify
<1>7. CountsSubscribers'
  BY <1>5, <1>6 DEF CountsSubscribers
<1>8. TypeOK'
  BY DEF Enable, WriteCcc, vars, TypeOK
<1>9. SubsTypeOK'
  BY <1>3, <1>4, <1>8, MaxCountAssumption, BoundsAssumption DEF Enable, WriteCcc
<1>10. NobodyIsLeft'
  BY DEF Enable, WriteCcc, NobodyIsLeft, vars
<1>. QED
  BY <1>7, <1>9, <1>10

\* The end of a subscription takes one from both sides, and the last one makes the
\* application stop.
LEMMA DisableCounts ==
  ASSUME SubsInv, NEW d \in Devices, Disable(d)
  PROVE  SubsTypeOK' /\ CountsSubscribers' /\ NobodyIsLeft'
<1>. USE DEF SubsInv, SubsTypeOK
<1>1. Subscribed' = Subscribed \ {d} /\ d \in Subscribed
  BY DEF Disable, WriteCcc, Subscribed
<1>2. Cardinality(Subscribed') = Cardinality(Subscribed) - 1 /\ Cardinality(Subscribed') \in Nat
  BY <1>1, SubscribedIsFinite, FS_RemoveElement, FS_CardinalityType
<1>3. ntfy_cnt > 0 /\ ntfy_cnt' = ntfy_cnt - 1
  BY <1>2, SubscribedIsFinite DEF Disable, WriteCcc, CountsSubscribers
<1>4. ntfy_cnt' = Cardinality(Subscribed') + dropped'
  BY <1>2, <1>3, SubscribedIsFinite DEF Disable, WriteCcc, CountsSubscribers
<1>5. Len(calls) \in Nat
  OBVIOUS
<1>6. CASE ntfy_cnt = 1
  <2>1. /\ calls' \in Seq({"StartNotify", "StopNotify"})
        /\ Len(calls') = Len(calls) + 1 /\ calls' # <<>>
        /\ calls'[Len(calls')] = "StopNotify"
    BY <1>6, AppendDecides DEF Disable, WriteCcc
  <2>2. ~WillNotify'
    BY <2>1 DEF WillNotify
  <2>. QED
    BY <1>3, <1>4, <1>5, <1>6, <2>1, <2>2, MaxCountAssumption, BoundsAssumption
    DEF Disable, WriteCcc, CountsSubscribers, NobodyIsLeft, vars, TypeOK
<1>7. CASE ntfy_cnt # 1
  <2>1. calls' = calls /\ notifying' = notifying /\ app' = app
    BY <1>7 DEF Disable, WriteCcc, vars
  <2>2. WillNotify' <=> WillNotify
    BY <2>1 DEF WillNotify
  <2>. QED
    BY <1>3, <1>4, <1>5, <1>7, <2>1, <2>2, MaxCountAssumption, BoundsAssumption
    DEF Disable, WriteCcc, CountsSubscribers, NobodyIsLeft, vars, TypeOK
<1>. QED
  BY <1>6, <1>7

\* What the application will do does not depend on when it receives the calls.
LEMMA AppReceivesCounts ==
  ASSUME SubsInv, AppReceives
  PROVE  SubsTypeOK' /\ CountsSubscribers' /\ NobodyIsLeft'
<1>. USE DEF SubsInv, SubsTypeOK
<1>1. /\ calls' = Tail(calls) /\ calls # <<>> /\ app = "up"
      /\ UNCHANGED <<conn, paired, ccc, ntfy_cnt, dropped, app, signals>>
  BY DEF AppReceives, bluetoothd
<1>2. /\ calls' \in Seq({"StartNotify", "StopNotify"}) /\ Len(calls') = Len(calls) - 1
      /\ calls' = <<>> => calls[Len(calls)] = Head(calls)
      /\ calls' # <<>> => calls'[Len(calls')] = calls[Len(calls)]
  BY <1>1, TailDecides
<1>3. Head(calls) \in {"StartNotify", "StopNotify"} /\ Len(calls) \in Nat
  BY <1>1
<1>4. notifying' = IF Head(calls) = "StartNotify" THEN "yes" ELSE "no"
  <2>1. notifying \in {"yes", "no"}
    BY DEF TypeOK
  <2>. QED
    BY <1>3, <2>1 DEF AppReceives, StartNotify, StopNotify, vars
<1>5. WillNotify' <=> WillNotify
  BY <1>1, <1>2, <1>3, <1>4 DEF WillNotify
<1>6. CountsSubscribers'
  BY <1>1, <1>5 DEF CountsSubscribers, Subscribed
<1>7. TypeOK'
  BY ServiceSteps DEF IInv, SubsNext
<1>8. SubsTypeOK'
  BY <1>1, <1>2, <1>3, <1>7, BoundsAssumption
<1>9. NobodyIsLeft'
  BY <1>1 DEF NobodyIsLeft
<1>. QED
  BY <1>6, <1>8, <1>9

\* The devices that are forgotten move from one side of the sum to the other.
LEMMA DeliverSignalCounts ==
  ASSUME SubsInv, DeliverSignal
  PROVE  SubsTypeOK' /\ CountsSubscribers' /\ NobodyIsLeft'
<1>. USE DEF SubsInv, SubsTypeOK
<1>. DEFINE Gone == {d \in Devices : ccc[d] = 1 /\ Unreachable(d)}
<1>1. Subscribed' = Subscribed \ Gone /\ Gone \in SUBSET Subscribed
  BY DEF DeliverSignal, Subscribed
<1>2. IsFiniteSet(Gone) /\ Cardinality(Gone) \in Nat
  BY <1>1, SubscribedIsFinite, FS_Subset, FS_CardinalityType
<1>3. Cardinality(Subscribed') = Cardinality(Subscribed) - Cardinality(Gone)
  <2>1. Subscribed \cap Gone = Gone
    BY <1>1
  <2>. QED
    BY <1>1, <2>1, SubscribedIsFinite, FS_Difference
<1>4. Cardinality(Subscribed') \in Nat
  BY <1>1, SubscribedIsFinite, FS_Difference, FS_CardinalityType
<1>5. /\ dropped' = dropped + Cardinality(Gone)
      /\ UNCHANGED <<vars, app, conn, paired, ntfy_cnt, calls>>
  BY DEF DeliverSignal
<1>. HIDE DEF Gone
<1>6. dropped' \in 0..MaxCount /\ ntfy_cnt' = Cardinality(Subscribed') + dropped'
  BY <1>2, <1>3, <1>4, <1>5, SubscribedIsFinite, MaxCountAssumption DEF CountsSubscribers
<1>7. CountsSubscribers'
  BY <1>5, <1>6 DEF CountsSubscribers, WillNotify, vars
<1>8. TypeOK'
  BY <1>5 DEF vars, TypeOK
<1>9. ccc' \in [Devices -> {0, 1}] /\ signals' \in 0..MaxSignals
  BY BoundsAssumption DEF DeliverSignal
<1>10. SubsTypeOK'
  BY <1>5, <1>6, <1>8, <1>9
<1>11. NobodyIsLeft'
  BY <1>5 DEF NobodyIsLeft, vars
<1>. QED
  BY <1>7, <1>10, <1>11

\* The removal of the service forgets both sides.
LEMMA ClientDisconnectCounts ==
  ASSUME SubsInv, ClientDisconnect
  PROVE  SubsTypeOK' /\ CountsSubscribers' /\ NobodyIsLeft'
<1>. USE DEF SubsInv, SubsTypeOK
<1>1. Subscribed' = {}
  BY DEF ClientDisconnect, Subscribed
<1>2. CountsSubscribers'
  BY <1>1, FS_EmptySet DEF ClientDisconnect, CountsSubscribers
<1>3. TypeOK'
  BY DEF ClientDisconnect, vars, TypeOK
<1>4. SubsTypeOK'
  BY <1>3, MaxCountAssumption, BoundsAssumption DEF ClientDisconnect
<1>5. NobodyIsLeft'
  BY DEF ClientDisconnect, NobodyIsLeft, vars
<1>. QED
  BY <1>2, <1>4, <1>5

\* All other steps leave the subscriptions, the calls and notifying alone, or end the
\* application.
LEMMA OthersCount ==
  ASSUME SubsInv, SubsNext \/ UNCHANGED subsVars,
         UNCHANGED <<ccc, ntfy_cnt, dropped, calls>>,
         \/ notifying' = notifying /\ app' = app
         \/ AppExits
         \/ AppRegisters
  PROVE  CountsSubscribers' /\ NobodyIsLeft'
<1>1. CASE notifying' = notifying /\ app' = app
  BY <1>1 DEF SubsInv, CountsSubscribers, NobodyIsLeft, WillNotify, Subscribed
<1>2. CASE AppExits
  BY <1>2 DEF SubsInv, AppExits, CountsSubscribers, NobodyIsLeft, Subscribed
<1>3. CASE AppRegisters
  BY <1>3 DEF SubsInv, AppRegisters, CountsSubscribers, NobodyIsLeft, WillNotify, Subscribed, vars
<1>. QED
  BY <1>1, <1>2, <1>3

LEMMA SubsNextInv == SubsInv /\ [SubsNext]_subsVars => SubsInv'
<1>. SUFFICES ASSUME SubsInv, [SubsNext]_subsVars PROVE SubsInv'
  OBVIOUS
<1>1. IInv'
  BY ServiceSteps
<1>2. ASSUME NEW d \in Devices, Enable(d) PROVE SubsInv'
  BY <1>1, <1>2, EnableCounts DEF SubsInv
<1>3. ASSUME NEW d \in Devices, Disable(d) PROVE SubsInv'
  BY <1>1, <1>3, DisableCounts DEF SubsInv
<1>4. CASE AppReceives
  BY <1>1, <1>4, AppReceivesCounts DEF SubsInv
<1>5. CASE DeliverSignal
  BY <1>1, <1>5, DeliverSignalCounts DEF SubsInv
<1>6. CASE ClientDisconnect
  BY <1>1, <1>6, ClientDisconnectCounts DEF SubsInv
<1>7. TypeOK'
  BY <1>1 DEF IInv
<1>8. CASE AppMeasures
  <2>1. SubsTypeOK'
    BY <1>7, <1>8, BoundsAssumption DEF SubsInv, SubsTypeOK, AppMeasures, bluetoothd
  <2>. QED
    BY <1>1, <1>8, <2>1, OthersCount DEF SubsInv, AppMeasures, Measurement, bluetoothd
<1>9. CASE AppIsWritten
  <2>1. SubsTypeOK'
    BY <1>7, <1>9 DEF SubsInv, SubsTypeOK, AppIsWritten, bluetoothd
  <2>. QED
    BY <1>1, <1>9, <2>1, OthersCount DEF SubsInv, AppIsWritten, WriteControlPoint, bluetoothd
<1>10. CASE AppExits
  <2>1. SubsTypeOK'
    BY <1>7, <1>10 DEF SubsInv, SubsTypeOK, AppExits, bluetoothd
  <2>. QED
    BY <1>1, <1>10, <2>1, OthersCount DEF SubsInv, AppExits, bluetoothd
<1>11. CASE AppRegisters
  <2>1. SubsTypeOK'
    BY <1>7, <1>11 DEF SubsInv, SubsTypeOK, AppRegisters, bluetoothd
  <2>. QED
    BY <1>1, <1>11, <2>1, OthersCount DEF SubsInv, AppRegisters, bluetoothd
<1>12. ASSUME NEW d \in Devices, Connect(d) \/ Disconnect(d) \/ Pair(d) \/ Unpair(d) PROVE SubsInv'
  <2>1. SubsTypeOK'
    BY <1>7, <1>12 DEF SubsInv, SubsTypeOK, Connect, Disconnect, Pair, Unpair
  <2>2. UNCHANGED <<vars, app, ccc, ntfy_cnt, dropped, calls>>
    BY <1>12 DEF Connect, Disconnect, Pair, Unpair
  <2>. QED
    BY <1>1, <2>1, <2>2, OthersCount DEF SubsInv, vars
<1>13. CASE UNCHANGED subsVars
  <2>1. SubsTypeOK'
    BY <1>7, <1>13 DEF SubsInv, SubsTypeOK, subsVars, bluetoothd
  <2>. QED
    BY <1>1, <1>13, <2>1, OthersCount DEF SubsInv, subsVars, bluetoothd, vars
<1>. QED
  BY <1>2, <1>3, <1>4, <1>5, <1>6, <1>8, <1>9, <1>10, <1>11, <1>12, <1>13 DEF SubsNext

LEMMA SubsInvariance == SubsSpec => []SubsInv
BY SubsInitInv, SubsNextInv, PTL DEF SubsSpec

\* Every reachable state is well typed; in particular the counter never passes its limit.
THEOREM SubsTyping == SubsSpec => []SubsTypeOK
<1>1. SubsInv => SubsTypeOK
  BY DEF SubsInv
<1>. QED
  BY <1>1, SubsInvariance, PTL

\* The counter of bluetoothd is the number of subscribed and forgotten devices, and the
\* application notifies, or is about to, exactly while it is not zero.
THEOREM Counting == SubsSpec => []CountsSubscribers
<1>1. SubsInv => CountsSubscribers
  BY DEF SubsInv
<1>. QED
  BY <1>1, SubsInvariance, PTL

\* Whenever the application notifies it has a timer.
THEOREM SubsServed == SubsSpec => []SubscriberIsServed
<1>1. SubsInv => SubscriberIsServed
  BY DEF SubsInv, IInv
<1>. QED
  BY <1>1, SubsInvariance, PTL

\* The last energy field determines the energy, over restarts of the application too.
THEOREM SubsKnown == SubsSpec => []EnergyIsKnown
<1>1. SubsInv => EnergyIsKnown
  BY DEF SubsInv, IInv
<1>. QED
  BY <1>1, SubsInvariance, PTL

\* No step between two moments of one subscription starts or ends a timer.
THEOREM SubsKept == SubsSpec => TimersAreKept
<1>1. SubsInv /\ [SubsNext]_subsVars
        => [notifying = "yes" /\ notifying' = "yes" => timers' = timers]_vars
  <2>. SUFFICES ASSUME SubsInv, [SubsNext]_subsVars
                PROVE  [notifying = "yes" /\ notifying' = "yes" => timers' = timers]_vars
    OBVIOUS
  <2>1. [Next]_vars \/ notifying' = "no"
    BY DEF SubsNext, subsVars, Next, AppReceives, AppMeasures, AppIsWritten, DeliverSignal, AppExits,
      ClientDisconnect, AppRegisters, Enable, Disable, WriteCcc, Connect, Disconnect, Pair, Unpair
  <2>. QED
    BY <2>1 DEF SubsInv, IInv, TypeOK, Next, StartNotify, StopNotify, Measurement, WriteControlPoint, vars
<1>. QED
  BY <1>1, SubsInvariance, PTL DEF SubsSpec, TimersAreKept
=============================================================================
