SPECIFICATION Spec
CONSTANTS
  Capacity = 3
  MaxMessages = 2
  SUBS = 2
  Subscribers = {s1, s2}
  Sizes = {1, 2}
  LenMod = 65536
  Calls = {"grant", "drop_subscriber"}
  MaxHeld = 1
  MaxId = 3
CHECK_DEADLOCK FALSE
INVARIANT HeldGrantsPinned
