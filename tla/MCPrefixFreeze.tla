--------------------------- MODULE MCPrefixFreeze ---------------------------
(***************************************************************************)
(* Bounded instances of PrefixFreeze.  Texts are a tool output that the    *)
(* compressor takes and a prose message that it leaves alone.              *)
(***************************************************************************)
EXTENDS PrefixFreeze, TLC

CONSTANTS output, prose

MCText == {output, prose}

(* Weights of the two texts; a marker weighs 1.                            *)
Weigh(o, p) == (output :> o) @@ (prose :> p)
Exact == Weigh(5, 2)

(* The estimator divides characters by 3.5: prose with more characters per *)
(* token than that is overestimated.                                       *)
Overestimated == Weigh(6, 5)

Msg(i, role, type, text) ==
  [req |-> 0, msg |-> i - 1, role |-> role, type |-> type, cached |-> FALSE,
   call |-> NoCall, retrieve |-> FALSE, content |-> Literal(text)]

(* A tool loop: a tool output and an assistant reply by turns.             *)
Loop(role, n) ==
  [i \in 1..n |-> IF i % 2 = 1 THEN Msg(i, role, "tool_result", output)
                  ELSE Msg(i, "assistant", "text", prose)]

(* Two tool outputs, then a reply and a third one.                         *)
TwoOutputs ==
  << Msg(1, "user", "tool_result", output), Msg(2, "user", "tool_result", output),
     Msg(3, "assistant", "text", prose), Msg(4, "user", "tool_result", output) >>

Talk(shape, header, model, system, instructions, history, lengths) ==
  [shape |-> shape, header |-> header, model |-> model, system |-> system,
   instructions |-> instructions, history |-> history, lengths |-> lengths]

(* Conversations on each surface, and two that share a session.            *)
Talks ==
  [c \in Conv |->
     CASE c = "chat" ->
            Talk("chat", NoHeader, "model", "be brief", FALSE, Loop("tool", 5), {1, 3, 5})
       [] c = "responses" ->
            Talk("responses", NoHeader, "model", "be exact", TRUE, Loop("user", 3), {1, 3})
       [] c = "messages" ->
            Talk("messages", NoHeader, "model", "", FALSE, TwoOutputs, {2, 4})
       [] c = "side" ->    (* the session of "messages": its system is not hashed *)
            Talk("messages", NoHeader, "model", "", FALSE, Loop("user", 1), {1})
       [] c = "other" ->
            Talk("chat", "id", "model", "", FALSE, Loop("tool", 1), {1})]

=============================================================================
