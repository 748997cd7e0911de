CONSTANTS
  output = output
  prose = prose
  Text <- MCText
  Hash = {}
  Call = {}
  NoCall = NoCall
  Req = {0}
  CompressUserText = FALSE
  About <- Talks
  Compressible = {output}
  Estimate <- Overestimated
  MarkerTokens = 1
  InstructionsTokens = 1
  ReplyEstimate = 2
  NoHeader = NoHeader
  NoEntry = NoEntry
  Never = Never
  Conv = {"messages"}
  Tokens <- Exact
  MinCachedTokens = 2
  SessionTtl = 2
  CleanupInterval = 1
  MaxOpen = 1
  MaxRequests = 4
  MaxTime = 2
  AlwaysCaches = TRUE
SPECIFICATION Spec
PROPERTY ConfirmedNeverModified
CHECK_DEADLOCK FALSE
