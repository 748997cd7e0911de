--------------------------- MODULE CcrCompression ---------------------------
(***************************************************************************)
(* Reversible compression of concurrent requests over one CCR store.       *)
(*                                                                         *)
(* Proxy tasks compress their request one slot at a time: each admitted    *)
(* string is put into the store and, only if the put succeeded, replaced   *)
(* by a marker.  The table is a SQLite file: it survives a crash of the    *)
(* proxy, and hr compress, another process, inserts into it as well.  The  *)
(* mutex around the connection makes one put or get a single step, while   *)
(* the steps of different tasks interleave.                                *)
(***************************************************************************)
EXTENDS LiveZone

CONSTANTS
  Task,      (* requests accepted by the proxy or by POST /v1/compress     *)
  Body,      (* the requests clients may send                              *)
  HashOf,    (* content_hash, [Text -> Hash]                               *)
  Embeds,    (* [Text -> SUBSET Hash]: the markers quoted inside a text    *)
  Prefixed,  (* texts that contain the characters <<ccr:                   *)
  Small,     (* texts below LIVE_ZONE_MIN_BYTES                            *)
  CliInput,  (* texts given to hr compress                                 *)
  NoRow,     (* no row in ccr_entries                                      *)
  NoBody     (* the task has no request yet                                *)

(* Two texts with one SHA-256 prefix would share a row: the store takes    *)
(* the 96 bit prefix to be collision free.                                 *)
ASSUME CcrAssumption ==
  /\ Body \subseteq Request
  /\ HashOf \in [Text -> Hash]
  /\ \A s, t \in Text : HashOf[s] = HashOf[t] => s = t
  /\ Embeds \in [Text -> SUBSET Hash]
  /\ Prefixed \subseteq Text
  /\ \A t \in Text : Embeds[t] # {} => t \in Prefixed
  /\ Small \subseteq Text
  /\ CliInput \subseteq Text
  /\ NoRow \notin Text
  /\ NoBody \notin Request

VARIABLES
  table,    (* ccr_entries: the original stored under each hash            *)
  pc,       (* "idle", "compressing", "sent" or "lost"                     *)
  request,  (* the body the client sent                                    *)
  todo,     (* planned slots compress_slot has not visited yet             *)
  out,      (* the content of each block as it will be forwarded           *)
  offered   (* requests whose tools include headroom_retrieve when sent    *)

vars == <<table, pc, request, todo, out, offered>>

Contents(b) == [i \in DOMAIN b.blocks |-> b.blocks[i].content]

HasMarker(c) == c.kind = "marker" \/ c.text \in Prefixed

-----------------------------------------------------------------------------
Init ==
  /\ table = [h \in Hash |-> NoRow]
  /\ pc = [r \in Task |-> "idle"]
  /\ request = [r \in Task |-> NoBody]
  /\ todo = [r \in Task |-> {}]
  /\ out = [r \in Task |-> << >>]
  /\ offered = [r \in Task |-> {}]

(* The request is parsed and its live-zone slots are planned.              *)
Accept(r, b) ==
  /\ pc[r] = "idle"
  /\ pc' = [pc EXCEPT ![r] = "compressing"]
  /\ request' = [request EXCEPT ![r] = b]
  /\ todo' = [todo EXCEPT ![r] = Plan(b)]
  /\ out' = [out EXCEPT ![r] = Contents(b)]
  /\ UNCHANGED <<table, offered>>

(* INSERT OR IGNORE: a row that is there is never replaced.                *)
(* Mutant: the hash is bound to both columns.                              *)
PutStoresHash(tab, t) ==
  [tab EXCEPT ![HashOf[t]] = IF @ = NoRow THEN HashOf[t] ELSE @]
Put(tab, t) ==
  [tab EXCEPT ![HashOf[t]] = IF @ = NoRow THEN t ELSE @]

(* The gates of compress_slot: no marker in the text, and large enough.    *)
(* Mutant: the marker gate is dropped.                                     *)
AdmittedMarkersToo(c) == c.kind = "text" /\ c.text \notin Small
Admitted(c) == ~HasMarker(c) /\ c.text \notin Small

Visit(r, i) ==
  /\ pc[r] = "compressing"
  /\ i \in todo[r]
  /\ todo' = [todo EXCEPT ![r] = @ \ {i}]
  /\ UNCHANGED <<pc, request, offered>>

(* A gate refuses the slot.                                                *)
(* Mutant: a refused slot is not consumed.                                 *)
SkipSlotStaysPending(r, i) ==
  /\ pc[r] = "compressing"
  /\ ~Admitted(out[r][i])
  /\ UNCHANGED vars
SkipSlot(r, i) ==
  /\ Visit(r, i)
  /\ ~Admitted(out[r][i])
  /\ UNCHANGED <<table, out>>

(* The original is stored, then its marker takes its place.                *)
CompressSlot(r, i) ==
  /\ Visit(r, i)
  /\ Admitted(out[r][i])
  /\ table' = Put(table, out[r][i].text)
  /\ out' = [out EXCEPT ![r][i] = Marker(HashOf[out[r][i].text])]

(* put returns an error (busy or full database, poisoned lock): the block  *)
(* keeps its text.  Nothing is inserted: an error after INSERT OR IGNORE   *)
(* can only come from the UPDATE of a row that was there before.           *)
(* Mutant: the marker is spliced in although the put failed.               *)
PutFailsMarkerKept(r, i) ==
  /\ Visit(r, i)
  /\ Admitted(out[r][i])
  /\ out' = [out EXCEPT ![r][i] = Marker(HashOf[out[r][i].text])]
  /\ UNCHANGED table
(* Mutant: the error path deletes the row it tried to write.               *)
PutFailsRowDropped(r, i) ==
  /\ Visit(r, i)
  /\ Admitted(out[r][i])
  /\ table' = [table EXCEPT ![HashOf[out[r][i].text]] = NoRow]
  /\ UNCHANGED out
PutFails(r, i) ==
  /\ Visit(r, i)
  /\ Admitted(out[r][i])
  /\ UNCHANGED <<table, out>>

(* The requests of the body that get a new retrieve tool: for a batch the  *)
(* compressed ones, otherwise the body if it was compressed or carried a   *)
(* marker when it came in.                                                 *)
Compressed(r) ==
  {i \in DOMAIN out[r] : out[r][i] # request[r].blocks[i].content}

(* Mutant: a marker the client sent does not count.                        *)
WantsToolIgnoringSentMarkers(r, q) ==
  \E i \in Compressed(r) : request[r].shape = "batch" => request[r].blocks[i].req = q
WantsTool(r, q) ==
  IF request[r].shape = "batch"
  THEN \E i \in Compressed(r) : request[r].blocks[i].req = q
  ELSE /\ ~(request[r].shape = "chat" /\ request[r].multi)
       /\ \/ Compressed(r) # {}
          \/ \E i \in DOMAIN request[r].blocks :
               HasMarker(request[r].blocks[i].content)

(* Splices are applied, the retrieve tool is injected, the body leaves.    *)
Forward(r) ==
  /\ pc[r] = "compressing"
  /\ todo[r] = {}
  /\ pc' = [pc EXCEPT ![r] = "sent"]
  /\ offered' = [offered EXCEPT ![r] =
       {q \in Req : \/ request[r].tools[q] = "retrieve"
                    \/ request[r].tools[q] = "appendable" /\ WantsTool(r, q)}]
  /\ UNCHANGED <<table, request, todo, out>>

(* hr compress stores its whole input, whatever it holds (--min-bytes 1).  *)
CliCompress(t) ==
  /\ table' = Put(table, t)
  /\ UNCHANGED <<pc, request, todo, out, offered>>

(* The proxy dies: requests in flight are lost, the database is not.       *)
Crash ==
  /\ \E r \in Task : pc[r] = "compressing"
  /\ pc' = [r \in Task |-> IF pc[r] = "compressing" THEN "lost" ELSE pc[r]]
  /\ todo' = [r \in Task |-> {}]
  /\ UNCHANGED <<table, request, out, offered>>

Step(r) ==
  \/ \E b \in Body : Accept(r, b)
  \/ \E i \in todo[r] : SkipSlot(r, i) \/ CompressSlot(r, i) \/ PutFails(r, i)
  \/ Forward(r)

Next ==
  \/ \E r \in Task : Step(r)
  \/ \E t \in CliInput : CliCompress(t)
  \/ Crash

(* Compression of an accepted request is a synchronous computation: it is  *)
(* never suspended for ever.  Clients owe nothing.                         *)
Progress(r) ==
  \/ \E i \in todo[r] : SkipSlot(r, i) \/ CompressSlot(r, i) \/ PutFails(r, i)
  \/ Forward(r)

Fairness == \A r \in Task : WF_vars(Progress(r))

Spec == Init /\ [][Next]_vars
FairSpec == Spec /\ Fairness

-----------------------------------------------------------------------------
TypeOK ==
  /\ table \in [Hash -> Text \cup {NoRow}]
  /\ pc \in [Task -> {"idle", "compressing", "sent", "lost"}]
  /\ request \in [Task -> Body \cup {NoBody}]
  /\ todo \in [Task -> SUBSET Nat]
  /\ out \in [Task -> Seq(Content)]
  /\ offered \in [Task -> SUBSET Req]
  /\ \A r \in Task :
       /\ request[r] = NoBody <=> pc[r] = "idle"
       /\ pc[r] = "idle" => out[r] = << >>
       /\ pc[r] # "idle" => out[r] \in [DOMAIN request[r].blocks -> Content]
       /\ todo[r] \subseteq DOMAIN out[r]

(* The store answers every marker the compressor ever wrote, also those    *)
(* of requests sent before a crash, with exactly the text it replaced.     *)
Resolves(r, i) ==
  LET before == request[r].blocks[i].content
  IN out[r][i] # before =>
       /\ before.kind = "text"
       /\ out[r][i] = Marker(HashOf[before.text])
       /\ table[HashOf[before.text]] = before.text

MarkersResolve ==
  \A r \in Task : pc[r] # "idle" => \A i \in DOMAIN out[r] : Resolves(r, i)

(* A slot not visited yet holds the client's text, and only texts that     *)
(* passed the gates were replaced.                                         *)
PendingUntouched ==
  \A r \in Task : \A i \in todo[r] : out[r][i] = request[r].blocks[i].content

OnlyAdmittedReplaced ==
  \A r \in Task : pc[r] # "idle" =>
    \A i \in DOMAIN out[r] :
      out[r][i] # request[r].blocks[i].content => Admitted(request[r].blocks[i].content)

(* Rows are filed under the hash of their text, also those of hr compress. *)
RowsKeyed == \A h \in Hash : table[h] # NoRow => HashOf[table[h]] = h

(* The inductive invariant behind the theorems.                            *)
IInv ==
  TypeOK /\ RowsKeyed /\ MarkersResolve /\ PendingUntouched /\ OnlyAdmittedReplaced

(* decompress_text makes one pass.  The value of a string after it: a      *)
(* marker becomes the stored text, whose own markers stay as they are; a   *)
(* text has its known markers filled in.                                   *)
Filled(t, f) == [text |-> t, markers |-> f]

Expand(c) ==
  IF c.kind = "marker"
  THEN IF table[c.hash] = NoRow
       THEN c
       ELSE Filled(table[c.hash], [h \in Embeds[table[c.hash]] |-> NoRow])
  ELSE Filled(c.text, [h \in Embeds[c.text] |-> table[h]])

(* Expanding what was forwarded gives what expanding the client's own body *)
(* gives: compression never nests markers, so that one pass is enough,     *)
(* whatever hr compress put into the same store.                           *)
OnePassRestores ==
  \A r \in Task : pc[r] = "sent" =>
    \A i \in DOMAIN out[r] : Expand(out[r][i]) = Expand(request[r].blocks[i].content)

(* "Never modified" (README): messages below the confirmed floor, blocks   *)
(* up to a cache_control breakpoint, user, system and assistant text       *)
(* unless opted in, and everything that is not tool output.                *)
HotZone(b, i) ==
  LET k == b.blocks[i] IN
  \/ b.shape \in {"chat", "messages"} /\ k.msg < b.floor
  \/ /\ b.shape = "responses"
     /\ k.msg + (IF b.instructions THEN 1 ELSE 0) < b.floor
  \/ b.shape \in {"messages", "batch"} /\ BeforeBreakpoint(b.blocks, i)
  \/ k.type \notin {"tool_result", "text"}
  \/ k.type = "text" /\ ~(k.role = "user" /\ CompressUserText)

HotZoneUntouched ==
  \A r \in Task : pc[r] = "sent" =>
    \A i \in Compressed(r) : ~HotZone(request[r], i)

RetrievalOutput(b, i) ==
  b.blocks[i].type = "tool_result" /\ b.blocks[i].call \in RetrieveCalls(b.blocks)

(* "Never modified: CCR retrieval outputs" (README): a model that asked    *)
(* for an original gets the original, not its marker.                      *)
RetrievalOutputsUntouched ==
  \A r \in Task : pc[r] = "sent" =>
    \A i \in DOMAIN out[r] :
      RetrievalOutput(request[r], i) => i \notin Compressed(r)

(* The same for the chat and Responses surfaces, whose planners exclude    *)
(* the outputs of headroom_retrieve calls.                                 *)
OpenAiRetrievalOutputsUntouched ==
  \A r \in Task : pc[r] = "sent" /\ request[r].shape \in {"chat", "responses"} =>
    \A i \in DOMAIN out[r] :
      RetrievalOutput(request[r], i) => i \notin Compressed(r)

(* A model that sees a marker can ask for the original: every request      *)
(* compression changed, and every non-batch request that arrived with a    *)
(* marker, offers the retrieve tool, unless its tools field is no array.   *)
ToolOffered ==
  \A r \in Task : pc[r] = "sent" =>
    \A i \in DOMAIN out[r] :
      LET k == request[r].blocks[i] IN
      /\ HasMarker(out[r][i])
      /\ request[r].tools[k.req] # "other"
      /\ ~request[r].multi
      /\ request[r].shape = "batch" => i \in Compressed(r)
      => k.req \in offered[r]

(* A row, once written, never changes.                                     *)
RowsAreForever ==
  [][\A h \in Hash : table[h] # NoRow => table'[h] = table[h]]_vars

(* An accepted request is forwarded, whatever puts fail, or dies with the  *)
(* proxy.                                                                  *)
AcceptedIsForwarded ==
  \A r \in Task : pc[r] = "compressing" ~> pc[r] \in {"sent", "lost"}

-----------------------------------------------------------------------------
(* The abstract service: a relay that delivers requests as they were sent. *)
Restored(r) ==
  [i \in DOMAIN out[r] |->
     IF out[r][i] = request[r].blocks[i].content
     THEN out[r][i]
     ELSE Literal(table[out[r][i].hash])]

(* What the provider can recover of a request is the request.              *)
Recoverable ==
  \A r \in Task : pc[r] # "idle" => Restored(r) = Contents(request[r])

Delivered ==
  [r \in Task |-> IF pc[r] = "sent" THEN Restored(r) ELSE << >>]

Relay == INSTANCE LosslessRelay WITH
  Message <- Body, NoMessage <- NoBody, Payload <- Contents,
  status <- [r \in Task |-> IF pc[r] = "compressing" THEN "accepted" ELSE pc[r]],
  message <- request, delivered <- Delivered

RelaySpec == Relay!Spec

=============================================================================
