SPECIFICATION Spec
CONSTANTS
  d1 = d1
  d2 = d2
  Devices <- TwoDevices
  Asks <- WriterAndReader
  MaxIds <- OneReadTwoWrites
  MaxInFlight = 2
  MaxApps = 2
INVARIANTS TypeOK OneAnswerEach SuccessIsItsOwn
PROPERTIES RefinesRequestCycle RequestsEnd
