SPECIFICATION Spec
CONSTANTS
  Calls = {a}
  NoCall = none
  QoSs = {0, 2}
  Inbound1 = {m}
  Inbound2 = {x, y}
  MAX_INFLIGHT = 1
  MAX_ATTEMPTS = 1
  TxFrames = 1
  PidMax = 2
  BackoffLimit = 1
  Faults = {"timeout", "cancel", "rx_full", "forget", "refuse", "disconnect"}
  MaxLosses = 1
  MaxRejected = 0
  MaxEvents = 1
SYMMETRY MCSymmetry
INVARIANTS
  AckedIsHanded
  IncomingCurrent
