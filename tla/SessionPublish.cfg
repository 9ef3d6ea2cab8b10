SPECIFICATION Spec
CONSTANTS
  Calls = {a, b}
  NoCall = none
  QoSs = {1, 2}
  Inbound1 = {}
  Inbound2 = {}
  MAX_INFLIGHT = 1
  MAX_ATTEMPTS = 2
  TxFrames = 2
  PidMax = 4
  BackoffLimit = 1
  Faults = {"timeout", "encode", "too_large", "reorder"}
  MaxLosses = 1
  MaxRejected = 1
  MaxEvents = 1
SYMMETRY MCSymmetry
INVARIANTS
  PidsOwned
  OutgoingQueued
  DeliveriesBounded
  ReleasedIsAnswered
