\* Two calls of one radio, never started within one second, and a call of another
\* radio on the same slot; a tick is half a second.  The process is killed at some
\* time, and that is the end.
CHECK_DEADLOCK FALSE
SPECIFICATION SpecApart
CONSTANTS
  Streams = {"s1", "s2", "s3"}
  Slots = {1}
  Talker <- RepeatTalker
  IdleTimeout = 2
  Second = 2
  MaxTime = 6
  MaxBursts = 2
  MaxFaults = 1
INVARIANTS RecordingsAreIntact LossIsBounded FilesSplitAtSilence
PROPERTIES ClosedFilesAreFinal
