\* Two streams of two bursts, which may come while a replay is sent.
SPECIFICATION FairSpec
CONSTANTS
  Streams = {s1, s2}
  NoStream = NoStream
  Idle = 1
  Delay = 1
  BufferCap = 2
  MaxBursts = 2
  MaxOther = 1
  MaxFaults = 1
INVARIANTS TypeOK EachBurstOnce EchoIsOneCall CallsAreNotSplit SilentCallIsSafe
PROPERTIES RecordIsSettled
