--------------------------- MODULE ProviderMetadata ---------------------------
(***************************************************************************)
(* What the proxy does to a request beside compressing it: the tools are   *)
(* sorted and their schemas written canonically, Anthropic gets a cache    *)
(* breakpoint, the retrieval tool is appended when the request holds       *)
(* markers, and OpenAI gets a prompt_cache_key.  A provider caches by what *)
(* is on the wire, so the turns of a conversation are compared: the module *)
(* keeps the turn before this one.                                         *)
(***************************************************************************)
EXTENDS Naturals, Sequences, FiniteSets, SequencesExt

CONSTANTS
  Def,            (* tool definitions                                      *)
  SortKey,        (* tool_sort_key as a number, [Def -> Nat]               *)
  Retriever,      (* the definitions is_retrieve_tool_name recognises      *)
  Retrieve,       (* the one the proxy appends                             *)
  Prompt,         (* model and system content                              *)
  Layout,         (* the order of a tool's own keys                        *)
  BodyOf          (* the bodies of each shape clients may send             *)

Shape == {"openai", "anthropic", "batch"}

Tool == [def : Def, schema : {"canonical", "loose"}, layout : Layout,
         cache : BOOLEAN]

(* "live": has text that will be compressed, "marker": holds markers, and  *)
(* "many": asks for more than one choice, which only OpenAI offers.        *)
(* marked: cache_control is set in the system or in a message.             *)
NoKey == [by |-> "nobody", of |-> << >>]
ClientKey == [by |-> "client", of |-> << >>]
Body == [head : Prompt, tools : Seq(Tool), content : {"plain", "live", "marker", "many"},
         marked : BOOLEAN, key : {NoKey, ClientKey}]

ASSUME ProviderMetadataAssumption ==
  /\ SortKey \in [Def -> Nat]
  /\ Retrieve \in Retriever /\ Retriever \subseteq Def
  /\ BodyOf \in [Shape -> SUBSET Body]
  /\ \A s \in Shape : \A b \in BodyOf[s] : b.content = "many" => s = "openai"
  /\ Layout # {}

VARIABLES
  shape,       (* of this conversation                                     *)
  managed,     (* PAYG and provider_metadata: metadata may be written      *)
  stage,       (* how far the request is                                   *)
  asked,       (* the request of the client                                *)
  wire,        (* the request as it will be forwarded                      *)
  compressed,  (* compressed_blocks > 0                                    *)
  before       (* the turn before: << >> or what was asked and forwarded   *)

vars == <<shape, managed, stage, asked, wire, compressed, before>>

-----------------------------------------------------------------------------
Init ==
  /\ shape \in Shape /\ managed \in BOOLEAN
  /\ stage = "receive"
  /\ asked \in BodyOf[shape] /\ wire = asked
  /\ compressed = FALSE
  /\ before = << >>

(* A stable sort: ties keep their order.                                   *)
Position(tools, i) ==
  Cardinality({j \in DOMAIN tools :
                 \/ SortKey[tools[j].def] < SortKey[tools[i].def]
                 \/ SortKey[tools[j].def] = SortKey[tools[i].def] /\ j <= i})
(* Mutant: the tools stay as they come.                                    *)
SortedNot(tools) == tools
Sorted(tools) ==
  [k \in DOMAIN tools |->
     tools[CHOOSE i \in DOMAIN tools : Position(tools, i) = k]]

Canonical(tools) ==
  [i \in DOMAIN tools |-> [tools[i] EXCEPT !.schema = "canonical"]]

CacheMarked(tools) == \E i \in DOMAIN tools : tools[i].cache

(* The breakpoint goes on the last tool, if the client set none anywhere.  *)
(* Mutant: only the tools are looked at.                                   *)
BreakpointUnseen(b, tools) ==
  IF shape # "openai" /\ tools # << >> /\ ~CacheMarked(b.tools)
  THEN [tools EXCEPT ![Len(tools)].cache = TRUE] ELSE tools
Breakpoint(b, tools) ==
  IF shape # "openai" /\ tools # << >> /\ ~CacheMarked(b.tools) /\ ~b.marked
  THEN [tools EXCEPT ![Len(tools)].cache = TRUE] ELSE tools

(* plan_tools_normalization.  A breakpoint of the client on a tool keeps   *)
(* the order, as what is before it is what the client wants cached.        *)
Normalized(b) ==
  Breakpoint(b, Canonical(IF CacheMarked(b.tools) THEN b.tools ELSE Sorted(b.tools)))

(* More than one choice: the body passes through verbatim.                 *)
Normalize ==
  /\ stage = "receive"
  /\ stage' = IF asked.content = "many" THEN "sent" ELSE "compress"
  /\ wire' = IF managed /\ asked.content # "many"
             THEN [wire EXCEPT !.tools = Normalized(wire)] ELSE wire
  /\ UNCHANGED <<shape, managed, asked, compressed, before>>

(* The live zone is compressed; a failing put leaves it as it is.          *)
CompressLive ==
  /\ stage = "compress"
  /\ stage' = "offer"
  /\ compressed' \in (IF asked.content = "live" THEN BOOLEAN ELSE {FALSE})
  /\ UNCHANGED <<shape, managed, asked, wire, before>>

HasRetriever(tools) == \E i \in DOMAIN tools : tools[i].def \in Retriever

(* plan_retrieve_tool_injection; in a batch only what was compressed here. *)
Retrievable == compressed \/ (asked.content = "marker" /\ shape # "batch")
RetrieveTool(layout) ==
  [def |-> Retrieve, schema |-> "canonical", layout |-> layout, cache |-> FALSE]
OwnLayout == CHOOSE l \in Layout : TRUE
(* Mutant: a client that has the tool is given another.                    *)
OfferTwice ==
  /\ stage = "offer"
  /\ stage' = "derive"
  /\ wire' = IF Retrievable
             THEN [wire EXCEPT !.tools = Append(@, RetrieveTool(OwnLayout))] ELSE wire
  /\ UNCHANGED <<shape, managed, asked, compressed, before>>
Offer ==
  /\ stage = "offer"
  /\ stage' = "derive"
  /\ wire' = IF Retrievable /\ ~HasRetriever(wire.tools)
             THEN [wire EXCEPT !.tools = Append(@, RetrieveTool(OwnLayout))] ELSE wire
  /\ UNCHANGED <<shape, managed, asked, compressed, before>>

(* The tools as JSON values: neither the keys' order nor the bytes of a    *)
(* schema matter to canonical_json_sha256.                                 *)
Values(tools) ==
  [i \in DOMAIN tools |-> [def |-> tools[i].def, cache |-> tools[i].cache]]

(* derive_openai_prompt_cache_key, of the body after the injection; a key  *)
(* of the client that is not empty stays.                                  *)
(* Mutant: derived from the tools as the client sent them.                 *)
DerivedBefore(b) == [by |-> "proxy", of |-> <<b.head, Values(asked.tools)>>]
Derived(b) == [by |-> "proxy", of |-> <<b.head, Values(b.tools)>>]
DeriveKey ==
  /\ stage = "derive"
  /\ stage' = "sent"
  /\ wire' = IF managed /\ shape = "openai" /\ wire.key = NoKey
             THEN [wire EXCEPT !.key = Derived(wire)] ELSE wire
  /\ UNCHANGED <<shape, managed, asked, compressed, before>>

(* The next turn of the conversation.                                      *)
NextTurn(b) ==
  /\ stage = "sent" /\ before = << >>
  /\ stage' = "receive"
  /\ before' = <<[asked |-> asked, wire |-> wire]>>
  /\ asked' = b /\ wire' = b
  /\ compressed' = FALSE
  /\ UNCHANGED <<shape, managed>>

Next ==
  \/ Normalize \/ CompressLive \/ Offer \/ DeriveKey
  \/ \E b \in BodyOf[shape] : NextTurn(b)

Spec == Init /\ [][Next]_vars

-----------------------------------------------------------------------------
Compared == stage = "sent" /\ before # << >> /\ asked.content # "many"
                           /\ before[1].asked.content # "many"

(* The provider's cache survives a client that lists its tools in another  *)
(* order or spells their schemas differently: if the tools have names of   *)
(* their own and carry no breakpoint, the wires of both turns start with   *)
(* the same tools, in the same order and with the same bytes of schema;    *)
(* only the retrieval tool may follow (compression.rs:1158-1168).          *)
Plain(b) == /\ ~CacheMarked(b.tools)
            /\ \A i, j \in DOMAIN b.tools :
                 SortKey[b.tools[i].def] = SortKey[b.tools[j].def] => i = j
Loosely(b) == {[t EXCEPT !.schema = "loose"] : t \in ToSet(b.tools)}
OrderIsForgotten ==
  Compared /\ managed /\ Plain(asked) /\ Plain(before[1].asked)
  /\ Loosely(asked) = Loosely(before[1].asked) /\ asked.marked = before[1].asked.marked
  => SubSeq(wire.tools, 1, Len(asked.tools))
       = SubSeq(before[1].wire.tools, 1, Len(before[1].asked.tools))

(* A derived prompt_cache_key tells exactly what the provider's cache      *)
(* tells: two turns have the same key if and only if model, system and the *)
(* tools on the wire are the same (compression.rs:316-320).                *)
KeyFollowsWire ==
  Compared /\ wire.key.by = "proxy" /\ before[1].wire.key.by = "proxy"
  => ( wire.key = before[1].wire.key
       <=> /\ asked.head = before[1].asked.head
           /\ Values(wire.tools) = Values(before[1].wire.tools) )

(* A client's cache breakpoints are its own: where it set any, the tools   *)
(* before each one stay as they were and none is added; where it set none, *)
(* Anthropic gets at most one, after all of its tools and before the       *)
(* retrieval tool (compression.rs:1169-1171).                              *)
UpTo(tools, i) == Values(SubSeq(tools, 1, i))
BreakpointsAreTheClients ==
  stage = "sent" =>
    LET breaks == {i \in DOMAIN wire.tools : wire.tools[i].cache}
    IN  IF CacheMarked(asked.tools) \/ asked.marked \/ shape = "openai" \/ ~managed
        THEN /\ breaks = {i \in DOMAIN asked.tools : asked.tools[i].cache}
             /\ \A i \in breaks : UpTo(wire.tools, i) = UpTo(asked.tools, i)
        ELSE breaks = {Len(asked.tools)} \ {0}

(* No tool is lost, doubled or changed on the way: the wire holds the      *)
(* client's definitions as often as the client sent them, and a retrieval  *)
(* tool exactly if one was there or the request has markers to retrieve    *)
(* (compression.rs:1394, plan_tool_append).                                *)
Times(tools, d) == Cardinality({i \in DOMAIN tools : tools[i].def = d})
ToolsAreKept ==
  stage = "sent" =>
    \A d \in Def :
      Times(wire.tools, d) =
        IF /\ d = Retrieve /\ ~HasRetriever(asked.tools)
           /\ Retrievable /\ asked.content # "many"
        THEN 1 ELSE Times(asked.tools, d)
=============================================================================
