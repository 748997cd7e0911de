CONSTANTS
  output = output
  prose = prose
  Text <- MCText
  Hash = {}
  Call = {}
  NoCall = NoCall
  Req = {0}
  CompressUserText = FALSE
  About <- Talks
  Compressible = {output}
  Estimate <- Exact
  MarkerTokens = 1
  InstructionsTokens = 1
  ReplyEstimate = 2
  NoHeader = NoHeader
  NoEntry = NoEntry
  Never = Never
  Conv = {"messages", "side", "other"}
  Tokens <- Exact
  MinCachedTokens = 3
  SessionTtl = 1
  CleanupInterval = 2
  MaxOpen = 2
  MaxRequests = 3
  MaxTime = 4
  AlwaysCaches = FALSE
SPECIFICATION Spec
INVARIANTS
  FloorIsFresh
  FloorIsEarned
CHECK_DEADLOCK FALSE
