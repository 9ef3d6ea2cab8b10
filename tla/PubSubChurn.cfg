SPECIFICATION Spec
CONSTANTS
  Capacity = 3
  MaxMessages = 2
  SUBS = 2
  Subscribers = {s1, s2}
  Sizes = {1, 2}
  LenMod = 65536
  Calls = {"grant_immediate", "drop_subscriber", "drop_publisher", "clear", "manual_release"}
  MaxHeld = 1
  MaxId = 3
SYMMETRY MCSymmetry
INVARIANTS
  ChannelInv
  CountCovers
PROPERTY ImplementsLog
