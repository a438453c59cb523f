\* Two calls of one talker on one slot; a tick is half a second.
SPECIFICATION Spec
CONSTANTS
  Streams = {"s1", "s2"}
  Slots = {1}
  Talker <- SameTalker
  IdleTimeout = 2
  Second = 2
  MaxTime = 7
  MaxBursts = 3
  MaxFaults = 1
INVARIANTS OneFilePerCall
