SPECIFICATION Spec
CONSTANTS
  Calls = {a}
  NoCall = none
  QoSs = {1}
  Inbound1 = {}
  Inbound2 = {}
  MAX_INFLIGHT = 1
  MAX_ATTEMPTS = 1
  TxFrames = 1
  PidMax = 3
  BackoffLimit = 0
  Faults = {}
  MaxLosses = 1
  MaxRejected = 0
  MaxEvents = 1
INVARIANT OkMeansReceived
