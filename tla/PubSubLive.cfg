SPECIFICATION FairSpec
CONSTANTS
  Capacity = 3
  MaxMessages = 2
  SUBS = 2
  Subscribers = {s1, s2}
  Sizes = {1, 2, 3}
  LenMod = 65536
  Calls = {"grant_async", "drop_subscriber"}
  MaxHeld = 1
  MaxId = 3
CHECK_DEADLOCK FALSE
INVARIANTS
  CountExact
  NoLostWakeup
PROPERTIES
  GrantFutureResolves
  EveryFrameDelivered
  ImplementsLog
