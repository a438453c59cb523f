\* Two clients contend for one slot in the channel, two packets each, of every kind;
\* nothing is assumed of them.
SPECIFICATION FairSpec
CONSTANTS
  Conns = {c1, c2}
  QueueCap = 1
  MaxPackets = 2
  Kinds <- EveryPath
  None = None
INVARIANTS TypeOK AnswersInOrder EveryRequestHasOneHolder CodingIsSerial OwnFramesAreContinuous
PROPERTIES EveryFrameIsCoded ImplementsService
