CONSTANTS
  big = big
  other = other
  quoting = quoting
  short = short
  Text <- MCText
  Hash <- MCHash
  HashOf <- MCHashOf
  Embeds <- MCEmbeds
  Prefixed <- MCPrefixed
  Small <- MCSmall
  Call = {"call", "fetch"}
  NoCall = NoCall
  Req = {0, 1}
  CompressUserText = FALSE
  Task = {r1}
  Body <- AllBodies
  CliInput = {}
  NoRow = NoRow
  NoBody = NoBody
SPECIFICATION Spec
INVARIANTS
  HotZoneUntouched
  OpenAiRetrievalOutputsUntouched
  ToolOffered
CHECK_DEADLOCK FALSE
