CONSTANTS
  big = big
  other = other
  quoting = quoting
  short = short
  Text <- MCText
  Hash <- MCHash
  HashOf <- MCHashOf
  Embeds <- MCEmbeds
  Prefixed <- MCPrefixed
  Small <- MCSmall
  Call = {"call", "fetch"}
  NoCall = NoCall
  Req = {0}
  CompressUserText = FALSE
  Task = {r1, r2}
  Body <- InterleavedBodies
  CliInput = {big, quoting}
  NoRow = NoRow
  NoBody = NoBody
SPECIFICATION FairSpec
INVARIANTS
  TypeOK
  MarkersResolve
  OnePassRestores
PROPERTIES
  RowsAreForever
  AcceptedIsForwarded
  RelaySpec
CHECK_DEADLOCK FALSE
