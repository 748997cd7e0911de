CONSTANTS
  r1 = r1
  r2 = r2
  p1 = p1
  s1 = s1
  s2 = s2
  s3 = s3
  beta = beta
  Beta = Beta
  files = files
  ws = ws
  h1 = h1
  h2 = h2
  NoRequest = NoRequest
  NoCount = NoCount
  Slot <- MCSlot
  Poller <- MCPoller
  Session <- MCSession
  Token <- MCToken
  NameOf <- MCNameOf
  WebsocketBeta = ws
  Hash <- MCHash
  Request <- MCRequest
  MaxBetaSessions = 2
  MaxRequests = 5
SYMMETRY MCSymmetry
SPECIFICATION Spec
INVARIANTS
  GaugeBounded
  CountersBalance
PROPERTIES
  TokensStick
CHECK_DEADLOCK FALSE
