CONSTANTS
  read = read
  write = write
  write2 = write2
  mcp = mcp
  retrieve = retrieve
  gpt = gpt
  claude = claude
  a = a
  b = b
  Def <- MCDef
  SortKey <- MCSortKey
  Retriever <- MCRetriever
  Retrieve = retrieve
  Prompt <- MCPrompt
  Layout <- MCLayout
  BodyOf <- MCBodyOf
SPECIFICATION Spec
INVARIANTS
  OrderIsForgotten
  KeyFollowsWire
  BreakpointsAreTheClients
  ToolsAreKept
CHECK_DEADLOCK FALSE
