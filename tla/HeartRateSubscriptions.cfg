SPECIFICATION SubsSpec
CONSTANTS
  MaxEnergy = 3
  Every = 2
  MaxTimers = 3
  Writes <- ControlBytes
  d1 = d1
  d2 = d2
  Devices <- TwoDevices
  MaxCount = 3
  MaxCalls = 3
  MaxSignals = 1
INVARIANTS SubsTypeOK EnergyIsKnown CountsSubscribers
PROPERTIES TimersAreKept SubscriberIsNotified QuietWhenUnsubscribed
