\* Two packets, two stray bytes, either end reading; the stream ends for good.
CHECK_DEADLOCK FALSE
SPECIFICATION FairSpec
CONSTANTS
  Base = 4
  StartByte = 3
  MaxLength = 7
  Packets <- SomePackets
  MaxPackets = 2
  MaxStray = 2
INVARIANTS TypeOK PacketsAreTransparent NothingIsHeldBack
PROPERTIES StreamEnds
