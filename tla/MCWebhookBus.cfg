CONSTANTS
  Endpoint = {e1}
  Worker = {w1, w2}
  MaxAttempts <- MCMaxAttempts
  Batch = 1
  None = None
  MaxRows = 2
  MaxFaults = 1
  MaxPosts = 3
SPECIFICATION FairBusSpec
INVARIANTS
  BusTypeOK
  SerialDeliveriesExact
PROPERTIES
  RetriesResume
CHECK_DEADLOCK FALSE
