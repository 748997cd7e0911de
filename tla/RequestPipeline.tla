--------------------------- MODULE RequestPipeline ---------------------------
(***************************************************************************)
(* Requests on their way through the proxy, and the state they share: the  *)
(* beta tokens of the sessions, the rows of the CCR store and the          *)
(* statistics.  A request is routed, read, given the beta tokens of its    *)
(* session, compressed, counted and forwarded; a Codex connection does so  *)
(* for each of its response.create frames.  Each lock and each atomic      *)
(* counter is one step.  A handler is dropped with its client at an await, *)
(* which is while the body is read or while it is forwarded.               *)
(***************************************************************************)
EXTENDS Naturals, Sequences, FiniteSets, SequencesExt

CONSTANTS
  Slot,             (* requests and connections served at one time         *)
  Poller,           (* status requests, which read the store's row count   *)
  Session,          (* (provider, session id)                              *)
  Token, NameOf,    (* beta tokens; their lower-case form                  *)
  WebsocketBeta,    (* OPENAI_RESPONSES_WEBSOCKET_BETA                     *)
  Hash,             (* the rows the store may have                         *)
  Request,          (* what clients may send                               *)
  MaxBetaSessions,  (* MAX_BETA_SESSIONS                                   *)
  MaxRequests,      (* bound: requests and frames after a start            *)
  NoRequest, NoCount

(* "messages" stands for the three targets that have a session.  "off":    *)
(* compression is disabled, or bypassed by a header, or the content type   *)
(* is not JSON.                                                            *)
Route == {"other", "messages", "batch", "compress", "codex"}

(* A client may spread its tokens over several lines of the header.  A     *)
(* line is readable if it is visible ASCII, and plain if it is spelled as  *)
(* the proxy would: no blanks, no empty tokens.                            *)
Line == [tokens : Seq(Token), readable : BOOLEAN, plain : BOOLEAN]

ASSUME RequestPipelineAssumption ==
  /\ Request \subseteq [route : Route, off : BOOLEAN, session : Session,
                        lines : Seq(Line), texts : SUBSET Hash]
  /\ WebsocketBeta \in Token
  /\ IsFiniteSet(Slot) /\ IsFiniteSet(Hash)
  /\ NoRequest \notin Request /\ NoCount \notin Nat
  /\ MaxBetaSessions \in Nat \ {0} /\ MaxRequests \in Nat

VARIABLES
  pc, request, todo, stored,  (* of each slot: where it is, its request,   *)
                              (* texts not visited, some text was stored   *)
  header,                     (* the tokens of the lines of the beta       *)
                              (* header that is sent on, once merged       *)
  betas,                      (* sessions and their tokens, oldest first   *)
  rows, gauge,                (* ccr_entries, and hr_ccr_entry_count       *)
  total, compressed, skipped, (* the counters of the statistics            *)
  polled,                     (* row counts read and not yet stored        *)
  frames, unsorted,           (* history: response.create frames taken up, *)
                              (* and requests that no counter sorts        *)
  last, since                 (* history: the last merge of a session and  *)
                              (* the sessions that had their turn after it *)

slotVars == <<pc, request, todo, stored, header>>
betaVars == <<betas, last, since>>
storeVars == <<rows, gauge, polled>>
counters == <<total, compressed, skipped, frames, unsorted>>
vars == <<slotVars, betaVars, storeVars, counters>>

-----------------------------------------------------------------------------
Started ==
  /\ pc = [r \in Slot |-> "idle"]
  /\ request = [r \in Slot |-> NoRequest]
  /\ todo = [r \in Slot |-> {}]
  /\ stored = [r \in Slot |-> FALSE]
  /\ header = [r \in Slot |-> << >>]
  /\ betas = << >>
  /\ last = [s \in Session |-> << >>]
  /\ since = [s \in Session |-> {}]
  /\ gauge = 0
  /\ polled = [p \in Poller |-> NoCount]
  /\ total = 0 /\ compressed = 0 /\ skipped = 0
  /\ frames = 0 /\ unsorted = 0

Init == Started /\ rows \in SUBSET Hash

GoTo(r, p) == pc' = [pc EXCEPT ![r] = p]

(* The slot is free again.                                                 *)
Leave(r) ==
  /\ GoTo(r, "idle")
  /\ request' = [request EXCEPT ![r] = NoRequest]
  /\ todo' = [todo EXCEPT ![r] = {}]
  /\ stored' = [stored EXCEPT ![r] = FALSE]
  /\ header' = [header EXCEPT ![r] = << >>]

(* generate_request_id: the session of a connection is its own.            *)
Fresh(s) ==
  /\ \A i \in DOMAIN betas : betas[i].session # s
  /\ \A r \in Slot : request[r] # NoRequest => request[r].session # s

(* record_request, and the branches that leave the body alone.             *)
Skips(q) == q.route = "other" \/ (q.route \in {"messages", "batch"} /\ q.off)
Arrive(r, q) ==
  /\ pc[r] = "idle" /\ total + frames < MaxRequests
  /\ q.route = "codex" => Fresh(q.session)
  /\ request' = [request EXCEPT ![r] = q]
  /\ total' = total + 1
  /\ GoTo(r, IF Skips(q) THEN "forwarding" ELSE "reading")
  /\ skipped' = IF Skips(q) THEN skipped + 1 ELSE skipped
  /\ unsorted' = IF q.route = "codex" THEN unsorted + 1 ELSE unsorted
  /\ UNCHANGED <<todo, stored, header, betaVars, storeVars, compressed, frames>>

(* The body is too large, or /v1/compress finds no JSON, messages or model *)
(* in it, or the client went away.                                         *)
Refuse(r) ==
  /\ pc[r] = "reading" /\ request[r].route # "codex"
  /\ Leave(r)
  /\ unsorted' = unsorted + 1
  /\ UNCHANGED <<betaVars, storeVars, total, compressed, skipped, frames>>

(* A batch without requests, or a bypassed /v1/compress: answered here.    *)
Answer(r) ==
  /\ pc[r] = "reading"
  /\ request[r].route = "batch" \/ (request[r].route = "compress" /\ request[r].off)
  /\ Leave(r)
  /\ skipped' = skipped + 1
  /\ UNCHANGED <<betaVars, storeVars, total, compressed, frames, unsorted>>

(* The body has been read.  One that is no JSON has no session and nothing *)
(* to compress.  The first message of a connection is its body.            *)
ReadBody(r, json) ==
  /\ pc[r] = "reading"
  /\ ~(request[r].route = "compress" /\ (request[r].off \/ ~json))
  /\ GoTo(r, IF request[r].route = "codex" \/ (request[r].route = "messages" /\ json)
             THEN "merging" ELSE "compressing")
  /\ todo' = [todo EXCEPT
       ![r] = IF json /\ request[r].route # "codex" THEN request[r].texts ELSE {}]
  /\ UNCHANGED <<request, stored, header, betaVars, storeVars, counters>>

(* Stored tokens first, then the client's that are not among them, in any  *)
(* spelling.                                                               *)
Merged(seen, offers) ==
  LET merged[i \in Nat] ==
        IF i = 0 THEN seen
        ELSE IF \E k \in DOMAIN merged[i - 1] :
                  NameOf[merged[i - 1][k]] = NameOf[offers[i]]
             THEN merged[i - 1]
             ELSE Append(merged[i - 1], offers[i])
  IN  merged[Len(offers)]

(* sticky_betas: the entry of the session is taken out, goes to the back   *)
(* with the merged tokens, and the front is dropped beyond the limit.      *)
Tracked(s) == \E i \in DOMAIN betas : betas[i].session = s
Position(s) == CHOOSE i \in DOMAIN betas : betas[i].session = s
Stored(s) == IF Tracked(s) THEN betas[Position(s)].tokens ELSE << >>
(* Mutant: an entry that is there keeps its place.                         *)
TouchInPlace(s, tokens) ==
  IF Tracked(s) THEN [betas EXCEPT ![Position(s)].tokens = tokens]
  ELSE LET grown == Append(betas, [session |-> s, tokens |-> tokens])
       IN  IF Len(grown) > MaxBetaSessions THEN Tail(grown) ELSE grown
Touch(s, tokens) ==
  LET others == IF Tracked(s) THEN RemoveAt(betas, Position(s)) ELSE betas
      grown == Append(others, [session |-> s, tokens |-> tokens])
  IN  IF Len(grown) > MaxBetaSessions THEN Tail(grown) ELSE grown

(* Only the first line is read, and not if it is unreadable.  The merge    *)
(* goes out in the place of all lines, unless it is empty or spelled like  *)
(* the first of them.                                                      *)
Readable(lines, i) ==
  IF i \in DOMAIN lines /\ lines[i].readable THEN lines[i].tokens ELSE << >>
Plain(tokens) == [tokens |-> tokens, readable |-> TRUE, plain |-> TRUE]
Replaced(lines, merged) ==
  IF merged = << >> \/ (lines # << >> /\ lines[1] = Plain(merged))
  THEN lines ELSE <<Plain(merged)>>

(* A request goes on with its lines.  The upgrade of a connection keeps    *)
(* the last of them, its HTTP fallback the first, and both ask for the     *)
(* websockets token besides.                                               *)
Bare(lines) == [i \in DOMAIN lines |-> lines[i].tokens]
WithWebsockets(tokens) ==
  IF \E i \in DOMAIN tokens : NameOf[tokens[i]] = NameOf[WebsocketBeta]
  THEN tokens ELSE Append(tokens, WebsocketBeta)
SentOn(route, lines) ==
  IF route = "codex"
  THEN {<<WithWebsockets(Readable(lines, i))>> : i \in {1, Len(lines)}}
  ELSE {Bare(lines)}

MergeBetas(r) ==
  LET s == request[r].session
      tokens == Merged(Stored(s), Readable(request[r].lines, 1))
      lines == Replaced(request[r].lines, tokens)
  IN  /\ pc[r] = "merging"
      /\ \E sent \in SentOn(request[r].route, lines) :
           header' = [header EXCEPT ![r] = sent]
      /\ betas' = Touch(s, tokens)
      /\ last' = [last EXCEPT ![s] = tokens]
      /\ since' = [x \in Session |-> IF x = s THEN {} ELSE since[x] \cup {s}]
      /\ GoTo(r, IF request[r].route = "codex" THEN "socket" ELSE "compressing")
      /\ UNCHANGED <<request, todo, stored, storeVars, counters>>

(* A response.create frame of a connection.                                *)
Frame(r) ==
  /\ pc[r] = "socket" /\ total + frames < MaxRequests
  /\ frames' = frames + 1
  /\ GoTo(r, IF request[r].off THEN "socket" ELSE "compressing")
  /\ skipped' = IF request[r].off THEN skipped + 1 ELSE skipped
  /\ todo' = [todo EXCEPT ![r] = IF request[r].off THEN {} ELSE request[r].texts]
  /\ UNCHANGED <<request, stored, header, betaVars, storeVars, total, compressed,
                 unsorted>>

(* No first frame, or either side closes.                                  *)
Disconnect(r) ==
  /\ pc[r] = "socket" \/ (pc[r] = "reading" /\ request[r].route = "codex")
  /\ Leave(r)
  /\ UNCHANGED <<betaVars, storeVars, counters>>

(* compress_slot: the text is put, and counted if the row is new.          *)
(* Mutant: a row that was there already is counted as well.                *)
PutCountsAlways(r, h) ==
  /\ pc[r] = "compressing" /\ h \in todo[r]
  /\ todo' = [todo EXCEPT ![r] = @ \ {h}]
  /\ stored' = [stored EXCEPT ![r] = TRUE]
  /\ rows' = rows \cup {h}
  /\ GoTo(r, "inserted")
  /\ UNCHANGED <<request, header, betaVars, gauge, polled, counters>>
Put(r, h) ==
  /\ pc[r] = "compressing" /\ h \in todo[r]
  /\ todo' = [todo EXCEPT ![r] = @ \ {h}]
  /\ stored' = [stored EXCEPT ![r] = TRUE]
  /\ rows' = rows \cup {h}
  /\ GoTo(r, IF h \in rows THEN "compressing" ELSE "inserted")
  /\ UNCHANGED <<request, header, betaVars, gauge, polled, counters>>

(* A gate refuses the text, or put fails.                                  *)
Keep(r, h) ==
  /\ pc[r] = "compressing" /\ h \in todo[r]
  /\ todo' = [todo EXCEPT ![r] = @ \ {h}]
  /\ UNCHANGED <<pc, request, stored, header, betaVars, storeVars, counters>>

(* record_ccr_entry_inserted.                                              *)
CountRow(r) ==
  /\ pc[r] = "inserted"
  /\ gauge' = gauge + 1
  /\ GoTo(r, "compressing")
  /\ UNCHANGED <<request, todo, stored, header, betaVars, rows, polled, counters>>

(* record_mutation_stats.  What is not compressed has a reason.            *)
(* Mutant: a compressed body whose metadata changed is counted twice.      *)
RecordBoth(r) ==
  /\ pc[r] = "compressing" /\ todo[r] = {}
  /\ compressed' = IF stored[r] THEN compressed + 1 ELSE compressed
  /\ skipped' = skipped + 1
  /\ GoTo(r, IF request[r].route = "codex" THEN "socket" ELSE "forwarding")
  /\ stored' = [stored EXCEPT ![r] = FALSE]
  /\ UNCHANGED <<request, todo, header, betaVars, storeVars, total, frames, unsorted>>
Record(r) ==
  /\ pc[r] = "compressing" /\ todo[r] = {}
  /\ compressed' = IF stored[r] THEN compressed + 1 ELSE compressed
  /\ skipped' = IF stored[r] THEN skipped ELSE skipped + 1
  /\ GoTo(r, IF request[r].route = "codex" THEN "socket" ELSE "forwarding")
  /\ stored' = [stored EXCEPT ![r] = FALSE]
  /\ UNCHANGED <<request, todo, header, betaVars, storeVars, total, frames, unsorted>>

(* The upstream answered or failed, /v1/compress responded, or the client  *)
(* went away.                                                              *)
Finish(r) ==
  /\ pc[r] = "forwarding"
  /\ Leave(r)
  /\ UNCHANGED <<betaVars, storeVars, counters>>

-----------------------------------------------------------------------------
(* A status request counts the rows under the store's lock and stores the  *)
(* count in the gauge afterwards.                                          *)
CountRows(p) ==
  /\ polled[p] = NoCount
  /\ polled' = [polled EXCEPT ![p] = Cardinality(rows)]
  /\ UNCHANGED <<slotVars, betaVars, rows, gauge, counters>>

StoreCount(p) ==
  /\ polled[p] # NoCount
  /\ gauge' = polled[p]
  /\ polled' = [polled EXCEPT ![p] = NoCount]
  /\ UNCHANGED <<slotVars, betaVars, rows, counters>>

(* hr compress, another process with statistics of its own.                *)
CliCompress(h) ==
  /\ rows' = rows \cup {h}
  /\ UNCHANGED <<slotVars, betaVars, gauge, polled, counters>>

(* The proxy restarts with the rows it had.                                *)
Restart ==
  /\ pc' = [r \in Slot |-> "idle"]
  /\ request' = [r \in Slot |-> NoRequest]
  /\ todo' = [r \in Slot |-> {}]
  /\ stored' = [r \in Slot |-> FALSE]
  /\ header' = [r \in Slot |-> << >>]
  /\ betas' = << >>
  /\ last' = [s \in Session |-> << >>]
  /\ since' = [s \in Session |-> {}]
  /\ gauge' = 0
  /\ polled' = [p \in Poller |-> NoCount]
  /\ total' = 0 /\ compressed' = 0 /\ skipped' = 0
  /\ frames' = 0 /\ unsorted' = 0
  /\ UNCHANGED rows

Step(r) ==
  \/ \E q \in Request : Arrive(r, q)
  \/ \E json \in BOOLEAN : ReadBody(r, json)
  \/ \E h \in Hash : Put(r, h)
  \/ \E h \in Hash : Keep(r, h)
  \/ Refuse(r) \/ Answer(r) \/ MergeBetas(r) \/ Frame(r) \/ Disconnect(r)
  \/ CountRow(r) \/ Record(r) \/ Finish(r)

Next ==
  \/ \E r \in Slot : Step(r)
  \/ \E p \in Poller : CountRows(p)
  \/ \E p \in Poller : StoreCount(p)
  \/ \E h \in Hash : CliCompress(h)
  \/ Restart

Spec == Init /\ [][Next]_vars

-----------------------------------------------------------------------------
Places == {"idle", "reading", "merging", "compressing", "inserted", "socket",
           "forwarding"}

(* Every variable has its type, and the beta tracker stays within its      *)
(* limit with one entry for a session (session.rs, sticky_betas).          *)
TypeOK ==
  /\ pc \in [Slot -> Places]
  /\ request \in [Slot -> Request \cup {NoRequest}]
  /\ \A r \in Slot : pc[r] = "idle" <=> request[r] = NoRequest
  /\ todo \in [Slot -> SUBSET Hash] /\ stored \in [Slot -> BOOLEAN]
  /\ header \in [Slot -> Seq(Seq(Token))]
  /\ betas \in Seq([session : Session, tokens : Seq(Token)])
  /\ Len(betas) <= MaxBetaSessions
  /\ \A i, j \in DOMAIN betas : betas[i].session = betas[j].session => i = j
  /\ rows \subseteq Hash /\ gauge \in Nat
  /\ polled \in [Poller -> Nat \cup {NoCount}]
  /\ {total, compressed, skipped, frames, unsorted} \subseteq Nat
  /\ last \in [Session -> Seq(Token)] /\ since \in [Session -> SUBSET Session]

NamesIn(tokens) == {NameOf[tokens[i]] : i \in DOMAIN tokens}
TokensIn(sent) == UNION {ToSet(sent[i]) : i \in DOMAIN sent}
NamedIn(sent) == {NameOf[t] : t \in TokensIn(sent)}

(* Beta tokens are sticky (session.rs:172): while fewer than               *)
(* MAX_BETA_SESSIONS other sessions had their turn since its own, a        *)
(* session's next header continues its last merge, in the same order and   *)
(* spelling.  The client's lines go on as they came, or one line goes on   *)
(* that names nothing twice (proxy.rs:1232); a connection may lose all but *)
(* one of several lines.  The first line, if it is readable, is in what    *)
(* goes on, and nothing that nobody named is.                              *)
Wanted(q) == IF q.route = "codex" THEN {WebsocketBeta} ELSE {}
TokensStick ==
  [][\A r \in Slot :
       pc[r] = "merging" /\ pc'[r] \in {"compressing", "socket"} =>
         LET q == request[r]
             s == q.session
             came == Bare(q.lines)
             sent == header'[r]
         IN  /\ q.route # "codex" =>
                  /\ last[s] # << >> /\ Cardinality(since[s]) < MaxBetaSessions
                       => IsPrefix(last[s], sent[1])
                  /\ \/ sent = came
                     \/ Len(sent) = 1 /\ Len(sent[1]) = Cardinality(NamedIn(sent))
             /\ q.route # "codex" \/ Len(came) <= 1
                  => NamesIn(Readable(q.lines, 1)) \subseteq NamedIn(sent)
             /\ TokensIn(sent) \subseteq ToSet(last[s]) \cup TokensIn(came) \cup Wanted(q)]_vars

(* The gauge of CCR entries is set by status requests to a count that may  *)
(* be out of date, while requests add the rows they inserted before or     *)
(* after that count (stats.rs:100, compression.rs:1001).  Still it never   *)
(* exceeds the rows by more than one for each request in flight.           *)
GaugeBounded == gauge <= Cardinality(rows) + Cardinality(Slot)

(* The statistics balance: whatever was taken up, a request or a frame,    *)
(* is counted as compressed, counted as skipped, still on its way to be    *)
(* counted, or one of those no counter sorts: refused bodies, clients that *)
(* left, upgrades (proxy.rs, proxy_http and compress_only_handler).        *)
Uncounted == {r \in Slot : \/ pc[r] \in {"compressing", "inserted"}
                           \/ /\ pc[r] \in {"reading", "merging"}
                              /\ request[r].route # "codex"}
CountersBalance ==
  total + frames = compressed + skipped + unsorted + Cardinality(Uncounted)
=============================================================================
