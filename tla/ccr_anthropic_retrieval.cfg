CONSTANTS
  big = big
  other = other
  quoting = quoting
  short = short
  Text <- MCText
  Hash <- MCHash
  HashOf <- MCHashOf
  Embeds <- MCEmbeds
  Prefixed <- MCPrefixed
  Small <- MCSmall
  Call = {"call", "fetch"}
  NoCall = NoCall
  Req = {0, 1}
  CompressUserText = FALSE
  Task = {r1}
  Body <- AnthropicBodies
  CliInput = {}
  NoRow = NoRow
  NoBody = NoBody
SPECIFICATION Spec
INVARIANT RetrievalOutputsUntouched
CHECK_DEADLOCK FALSE
