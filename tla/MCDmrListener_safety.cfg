\* A call on each slot, two bursts each, the link breaking anywhere.
\* The listener exits if its start or its socket fails.
CHECK_DEADLOCK FALSE
SPECIFICATION FairSpec
CONSTANTS
  Streams = {"s1"}
  Slots <- BothSlots
  Talker <- Talkers
  IdleTimeout = 1
  Second = 1
  MaxTime = 2
  MaxBursts = 2
  MaxFaults = 1
  None = None
  BufferCap = 2
  MaxOther = 1
INVARIANTS TypeOK BurstsAreWhole NoBurstIsMissed
PROPERTIES SilentCallIsClosed BufferIsDrained
