CONSTANTS
  Stream <- MCStream
  QueueDepth = 2
  MaxChunk = 3
  NoUsage = NoUsage
  NoEvent = NoEvent
  NoStatus = NoStatus
SPECIFICATION FairSpec
INVARIANTS
  CountedOnce
  UndroppedIsExact
PROPERTIES
  RelaySpec
  ClientServed
  ParserEnds
CHECK_DEADLOCK FALSE
