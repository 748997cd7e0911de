CONSTANTS
  Hash = {"h", "g", "x"}
  Valid = {"h", "g"}
  Id = {"a", "b", "c"}
  Upstream <- Responses
  MaxRounds = 3
  NoResponse = NoResponse
SPECIFICATION FairSpec
INVARIANTS
  EveryCallAnswered
  KnownIsFound
  NoMixedReply
  UnresolvedForAReason
  NoDanglingFinish
PROPERTY ExchangeEnds
CHECK_DEADLOCK FALSE
