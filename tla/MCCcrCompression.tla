-------------------------- MODULE MCCcrCompression --------------------------
(***************************************************************************)
(* Bounded instances of CcrCompression: the texts, and two families of     *)
(* request bodies, one small for interleavings, one broad for the          *)
(* live-zone policy.                                                       *)
(***************************************************************************)
EXTENDS CcrCompression, TLC

CONSTANTS big, other, quoting, short

MCText == {big, other, quoting, short}
MCHash == {"h-big", "h-other", "h-quoting", "h-short"}
MCHashOf == (big :> "h-big") @@ (other :> "h-other") @@
            (quoting :> "h-quoting") @@ (short :> "h-short")

(* The text "quoting" quotes the marker of "big".                          *)
MCEmbeds == [t \in MCText |-> IF t = quoting THEN {"h-big"} ELSE {}]
MCPrefixed == {quoting}
MCSmall == {short}

(* A block before it is placed in a message.                               *)
Piece(role, type, cached, call, retrieve, content) ==
  [role |-> role, type |-> type, cached |-> cached, call |-> call,
   retrieve |-> retrieve, content |-> content]

At(p, q, m) ==
  [req |-> q, msg |-> m, role |-> p.role, type |-> p.type, cached |-> p.cached,
   call |-> p.call, retrieve |-> p.retrieve, content |-> p.content]

ToolRole(shape) == IF shape = "chat" THEN "tool" ELSE "user"

ToolOutput(shape, c) ==
  Piece(ToolRole(shape), "tool_result", FALSE, "call", FALSE, c)

One(shape, blocks, floor, instructions, multi, tools) ==
  [shape |-> shape, blocks |-> blocks, floor |-> floor,
   instructions |-> instructions, multi |-> multi, tools |-> tools]

-----------------------------------------------------------------------------
(* Interleavings: two tool outputs in one request, the same output in two  *)
(* requests, and an output that quotes a marker.                           *)
Pair(x, y) ==
  One("messages", << At(ToolOutput("messages", x), 0, 0),
                     At(ToolOutput("messages", y), 0, 1) >>,
      0, FALSE, FALSE, [q \in Req |-> "appendable"])

InterleavedBodies ==
  { Pair(Literal(big), Literal(other)), Pair(Literal(quoting), Literal(big)),
    Pair(Marker("h-other"), Literal(short)) }

-----------------------------------------------------------------------------
(* The policy: every conversation of one to three messages over the kinds  *)
(* of block the planners distinguish, under every floor.                   *)
Pieces(shape) ==
  { Piece("user", "text", FALSE, NoCall, FALSE, Literal(big)),
    Piece("user", "text", TRUE, NoCall, FALSE, Literal(big)),
    ToolOutput(shape, Literal(big)),
    ToolOutput(shape, Literal(quoting)),
    Piece(ToolRole(shape), "tool_result", FALSE, "fetch", FALSE, Literal(other)),
    Piece("assistant", "tool_use", FALSE, "fetch", TRUE, Literal(big)) }

Conversations(shape) ==
  UNION { { [i \in 1..n |-> At(s[i], 0, i - 1)] : s \in [1..n -> Pieces(shape)] } :
            n \in 1..3 }

Tools1 == {[q \in Req |-> f] : f \in ToolsField}

PolicyBodies ==
  UNION { { One(shape, bl, f, ins, FALSE, [q \in Req |-> "appendable"]) :
              bl \in Conversations(shape), f \in 0..2,
              ins \in IF shape = "responses" THEN BOOLEAN ELSE {FALSE} } :
            shape \in {"chat", "responses", "messages"} }

(* Requests without retrieval outputs, whose tools field varies, chat      *)
(* requests for several choices, and batch creates of two requests.        *)
ToolBodies ==
  { One(shape, << At(p, 0, 0) >>, 0, FALSE, m, t) :
      shape \in {"chat", "messages"}, p \in Pieces("chat"), m \in BOOLEAN, t \in Tools1 }

BatchBodies ==
  { One("batch", << At(p1, 0, 0), At(p2, 0, 1), At(p3, 1, 0) >>, f, FALSE, FALSE, t) :
      p1 \in Pieces("batch"), p2 \in Pieces("batch"), p3 \in Pieces("batch"),
      f \in {0, 2},
      t \in { [q \in Req |-> "appendable"],
              [q \in Req |-> IF q = 0 THEN "retrieve" ELSE "appendable"] } }

AllBodies == PolicyBodies \cup {b \in ToolBodies : b.shape = "chat" \/ ~b.multi}
               \cup BatchBodies

(* Anthropic: the model asked for the original, and the client, which      *)
(* fetched it with GET /v1/retrieve, answers with it in the next message.  *)
AnthropicBodies ==
  { b \in PolicyBodies :
      /\ b.shape = "messages" /\ b.floor = 0
      /\ \A i \in DOMAIN b.blocks :
           RetrievalOutput(b, i) =>
             i > 1 /\ b.blocks[i - 1].type = "tool_use" /\ b.blocks[i - 1].retrieve }

=============================================================================
