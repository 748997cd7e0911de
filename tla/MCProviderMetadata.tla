-------------------------- MODULE MCProviderMetadata --------------------------
(* Up to three tools, one of them in several spellings, with and without   *)
(* breakpoints; a tool that retrieves already; two tools of one name.      *)
EXTENDS ProviderMetadata

CONSTANTS read, write, write2, mcp, retrieve, gpt, claude, a, b

MCDef == {read, write, write2, mcp, retrieve}
MCSortKey == [d \in MCDef |-> CASE d = read -> 3 [] d \in {write, write2} -> 4
                                [] d = mcp -> 2 [] OTHER -> 1]
MCRetriever == {mcp, retrieve}
MCPrompt == {gpt, claude}
MCLayout == {a, b}

T(def, schema, layout, cache) ==
  [def |-> def, schema |-> schema, layout |-> layout, cache |-> cache]

Unmarked == { T(read, "loose", a, FALSE), T(read, "canonical", a, FALSE),
              T(write, "canonical", b, FALSE), T(write, "canonical", a, FALSE),
              T(write2, "loose", a, FALSE) }
Marked == { T(read, "loose", a, TRUE), T(mcp, "canonical", a, TRUE),
            T(write, "loose", a, FALSE) }

DistinctDefs(tools) ==
  \A i, j \in DOMAIN tools : tools[i].def = tools[j].def => i = j
Lists(S, n) == {tools \in SeqOf(S, n) : DistinctDefs(tools)}
OneEach == Lists({T(read, "loose", a, FALSE), T(write, "canonical", b, FALSE),
                  T(mcp, "canonical", a, FALSE)}, 3)

Bodies(prompts, lists, contents, marks, keys) ==
  [head : prompts, tools : lists, content : contents, marked : marks, key : keys]

MCBodyOf ==
  [s \in Shape |->
     IF s = "openai"
     THEN Bodies(MCPrompt, Lists(Unmarked, 2), {"plain", "live"}, {FALSE}, {NoKey})
          \cup Bodies({gpt}, OneEach, {"marker", "many"}, {FALSE}, {NoKey})
          \cup Bodies({gpt}, Lists(Unmarked, 1), {"live"}, {FALSE}, {ClientKey})
     ELSE Bodies({claude}, OneEach, {"plain", "live", "marker"}, {FALSE}, {NoKey})
          \cup Bodies({claude}, Lists(Marked, 2), {"live"}, BOOLEAN, {NoKey})]
=============================================================================
