SPECIFICATION FairSpec
CONSTANTS
  KEEPALIVE = 3
  ServerKeepAlives = {0, 2}
  CONNECT_TIMEOUT = 2
  BackoffLimit = 2
  AnswerWithin = 1
  Addresses = {p, q}
  Unspecified = unspecified
  MaxFaults = 6
INVARIANTS
  PoolExact
  ConnectedIsGreeted
  StopsWhenExhausted
  SilenceNoticed
PROPERTIES
  PeerKept
  Reconnects
