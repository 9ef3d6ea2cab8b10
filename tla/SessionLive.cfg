SPECIFICATION FairSpec
CONSTANTS
  Calls = {a, b}
  NoCall = none
  QoSs = {0, 1, 2}
  Inbound1 = {}
  Inbound2 = {x}
  MAX_INFLIGHT = 2
  MAX_ATTEMPTS = 1
  TxFrames = 1
  PidMax = 2
  BackoffLimit = 0
  Faults = {}
  MaxLosses = 0
  MaxRejected = 2
  MaxEvents = 2
INVARIANTS
  OkMeansAnswered
PROPERTIES
  ConnectionKept
  EveryPublishOk
  InboundCompletes
