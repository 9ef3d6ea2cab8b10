SPECIFICATION Spec
CONSTANTS
  Capacity = 5
  MaxMessages = 3
  SUBS = 2
  Subscribers = {s1, s2}
  Sizes = {1, 2, 3}
  LenMod = 65536
  Calls = {"grant", "grant_async", "grant_immediate", "cancel", "to_commit"}
  MaxHeld = 1
  MaxId = 5
SYMMETRY MCSymmetry
INVARIANTS
  RegionsDisjoint
  FramesIntact
  HeldGrantsPinned
  CountExact
  SpentFramesFreed
  NoLostWakeup
