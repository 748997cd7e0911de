CONSTANTS
  ClientScript <- MCClientScript
  UpstreamScript <- MCUpstreamScript
SPECIFICATION FairSpec
INVARIANTS
  UpstreamGetsFrames
  ClientGetsReplies
  CountedAsSeen
PROPERTIES
  SilentEnds
  SlotReleased
CHECK_DEADLOCK FALSE
