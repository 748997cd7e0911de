------------------------------ MODULE LiveZone ------------------------------
(***************************************************************************)
(* Which strings of a request the compressor may replace.                  *)
(*                                                                         *)
(* A request body is a record whose "blocks" are the JSON strings of its   *)
(* messages (or Responses input items), flattened in document order.  Each *)
(* block carries what the planners of compression.rs look at: the batch    *)
(* request and the message it belongs to, the role of that message, its    *)
(* block type, whether it carries cache_control, the tool call it makes or *)
(* answers, and whether it names the headroom_retrieve tool.               *)
(*                                                                         *)
(* The planners are pure: they return the set of block positions, one per  *)
(* PlanSlot of the code.                                                   *)
(***************************************************************************)
EXTENDS Naturals, Sequences

CONSTANTS
  Text,             (* strings a block may hold, other than a lone marker  *)
  Hash,             (* 24 hex digit names of texts                         *)
  Call,             (* tool call ids                                       *)
  Req,              (* indices of the requests of one batch create         *)
  NoCall,           (* a block that neither makes nor answers a call       *)
  CompressUserText  (* --compress-user-messages                            *)

ASSUME LiveZoneAssumption ==
  /\ CompressUserText \in BOOLEAN
  /\ NoCall \notin Call

(* What a JSON string holds: ordinary text, or exactly one marker.         *)
Content == [kind : {"text"}, text : Text] \cup [kind : {"marker"}, hash : Hash]

Literal(t) == [kind |-> "text", text |-> t]
Marker(h)  == [kind |-> "marker", hash |-> h]

Shape == {"chat", "responses", "messages", "batch"}

(* "structured" is tool output whose content is not a JSON string, and     *)
(* "thinking" stands for every other type the planners leave alone.        *)
BlockType == {"text", "tool_result", "structured", "tool_use", "thinking"}

Block ==
  [req : Req, msg : Nat, role : {"system", "user", "assistant", "tool"},
   type : BlockType, cached : BOOLEAN, call : Call \cup {NoCall},
   retrieve : BOOLEAN, content : Content]

(* The tools field of a request: absent or an array without the retrieve   *)
(* tool, an array that already has it, or something that is not an array.  *)
ToolsField == {"appendable", "retrieve", "other"}

Request ==
  [shape : Shape, blocks : Seq(Block), floor : Nat, instructions : BOOLEAN,
   multi : BOOLEAN, tools : [Req -> ToolsField]]

-----------------------------------------------------------------------------
(* The calls of headroom_retrieve the conversation contains.               *)
RetrieveCalls(blocks) ==
  {blocks[j].call : j \in {k \in DOMAIN blocks :
                             blocks[k].type = "tool_use" /\ blocks[k].retrieve}}

(* A block at or before the last cache_control breakpoint of its request.  *)
BeforeBreakpoint(blocks, i) ==
  \E j \in DOMAIN blocks :
    /\ blocks[j].req = blocks[i].req
    /\ blocks[j].cached
    /\ blocks[i].msg <= blocks[j].msg

(* Mutant: the break at the floor runs one message late.                   *)
AtOrAboveFloorLate(b, floor) == b.msg + 1 >= floor
AtOrAboveFloor(b, floor) == b.msg >= floor

PlanMessages(blocks, floor) ==
  {i \in DOMAIN blocks :
     /\ AtOrAboveFloor(blocks[i], floor)
     /\ ~BeforeBreakpoint(blocks, i)
     /\ ~blocks[i].cached
     /\ \/ blocks[i].type = "tool_result"
        \/ blocks[i].type = "text" /\ blocks[i].role = "user" /\ CompressUserText}

(* Chat: the latest tool message that is not a retrieval result, and the   *)
(* latest user message if user text is opted in.                           *)
PlanChat(blocks, floor) ==
  LET Live == {i \in DOMAIN blocks : AtOrAboveFloor(blocks[i], floor)}
      Tool == {i \in Live : /\ blocks[i].role = "tool"
                            /\ ~blocks[i].retrieve
                            /\ blocks[i].call \notin RetrieveCalls(blocks)}
      User == {i \in Live : blocks[i].role = "user" /\ CompressUserText}
      Latest(S) == {i \in S : \A j \in S : blocks[j].msg <= blocks[i].msg}
  IN {i \in Latest(Tool) : blocks[i].type = "tool_result"}
       \cup {i \in Latest(User) : blocks[i].type = "text"}

(* Responses: the tracker counts the instructions entry that the input     *)
(* array lacks, so the floor is shifted back by it before it is applied.   *)
ItemFloor(b) ==
  IF b.instructions /\ b.floor > 0 THEN b.floor - 1 ELSE b.floor

(* Mutant: the outputs of headroom_retrieve are not excluded.              *)
PlanResponsesAll(blocks, floor) ==
  {i \in DOMAIN blocks :
     /\ AtOrAboveFloor(blocks[i], floor)
     /\ blocks[i].type = "tool_result"}
PlanResponses(blocks, floor) ==
  {i \in DOMAIN blocks :
     /\ AtOrAboveFloor(blocks[i], floor)
     /\ blocks[i].type = "tool_result"
     /\ blocks[i].call \notin RetrieveCalls(blocks)}

(* The slots of a request.  A chat request for several choices is passed   *)
(* through, and a batch create ignores the session floor.                  *)
Plan(b) ==
  CASE b.shape = "chat"      -> IF b.multi THEN {} ELSE PlanChat(b.blocks, b.floor)
    [] b.shape = "responses" -> PlanResponses(b.blocks, ItemFloor(b))
    [] b.shape = "messages"  -> PlanMessages(b.blocks, b.floor)
    [] b.shape = "batch"     -> PlanMessages(b.blocks, 0)

=============================================================================
