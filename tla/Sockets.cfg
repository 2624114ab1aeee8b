SPECIFICATION FairSocketsSpec
CONSTANTS
  s1 = s1
  s2 = s2
  Senders = {s1, s2}
  Nil = Nil
  FrameLengthSize = 2
  ServerFrames = 2
  MaxSize = 2
  MaxChunk = 5
  CounterRange = 4
  MaxFrames = 3
INVARIANT SocketsTypeOK FramesAreExact CountersAreFresh InStepWithServer
PROPERTY FramesAreDelivered PumpEnds
CHECK_DEADLOCK FALSE
