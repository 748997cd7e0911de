# hr: a verification project

`hr` is a local HTTP proxy between LLM clients and their providers. It replaces
large tool outputs in requests by short markers, keeps the originals in a SQLite
store, and hands an original back when the model asks for it. This directory
models the parts of hr whose correctness depends on order, concurrency and
failure, checks them with TLC on small instances and proves what matters most
with TLAPS for all instances.

## Inventory

| Component (source) | State | Operations | Talks to |
|---|---|---|---|
| CCR store (`ccr.rs`) | table `ccr_entries`: hash to original | `put` (insert or ignore), `get`, `count`, `decompress_text` | everything that compresses or retrieves; the table is a file shared by processes |
| Live-zone planners and compressor (`compression.rs`) | none; one pass over a body | plan slots, `compress_slot`, splice, inject the retrieve tool | the store; the session floor is an input |
| Provider metadata (`compression.rs`) | none | sort tools, canonical schemas, `cache_control`, `prompt_cache_key` | runs before and after the planners |
| Session trackers (`session.rs`) | per session: cached tokens, frozen message count, last activity; sticky betas (LRU) | `frozen_message_count`, `update_from_response`, `sticky_betas`, lazy `maybe_cleanup` | read by requests, fed by JSON and SSE responses |
| Request pipeline (`proxy.rs`) | one request or connection | classify, read the body, merge betas, compress, count, forward | trackers, the store, stats |
| CCR continuation (`proxy.rs`) | messages of a hidden conversation, a round counter | resolve retrieve calls, send again, strip what is left | the store, the provider |
| Batch contexts (`proxy.rs`) | bounded queue of batch id to request bodies, 24 h | record on create, look up on results, walk the result lines | create and results handlers, the continuation |
| SSE tee (`proxy.rs`, `sse.rs`) | bounded queue of chunks, parser state | forward and `try_send`, frame, parse, emit usage once | trackers, stats, the client |
| Codex WebSocket (`proxy.rs`) | one connection: first frame, upstream | wait, compress, connect, fall back to HTTP, relay | the compressor, stats |
| Stats (`stats.rs`) | process-wide counters and gauges | record, snapshot | all of the above |

### What is hard, and what makes each part correct

- **Compression and the store.** A marker that leaves the proxy is a promise:
  the original must be in the table, under that hash, for ever, although puts
  can fail one by one, the proxy can die between two of them, and `hr compress`
  writes to the same file. One expansion pass must be enough to restore a
  request, hence markers never nest. What the policy protects must stay as the
  client sent it, and a model that sees a marker must have the tool to resolve
  it.
- **Provider metadata.** Four splices over one body, before and after the
  compression, that must agree from turn to turn: the provider caches by bytes.
- **Session trackers.** The floor below which a request is left alone is
  computed from token estimates of what was forwarded, which depends on the
  floor before: a feedback loop over the turns of a conversation, over answers
  that come back in any order, and between conversations that share a session.
  Trackers expire lazily. Beta tokens are kept in a list of bounded length.
- **CCR continuation.** A loop of requests against a provider that may answer
  anything, fail in any round, and mix the proxy's calls with the client's.
  Whatever ends the loop, the conversation sent back must be one providers
  accept, and the client must be able to act on the reply.
- **Batch contexts.** A bounded queue with expiry and replacement, consulted up
  to a day later. A results request looks once and then walks its lines with
  what it found, whatever happens to the queue meanwhile.
- **SSE tee.** A lossy queue in front of a parser that must emit usage once,
  and that the client's bytes must never wait for.
- **WebSocket.** A timeout, a fallback and two pumps that race; either peer may
  vanish at any time.
- **Statistics.** A gauge that is stored from a count and incremented as well;
  counters that are reached, or not, by the many ways a request may end.

`PROJECT.json` lists every hazard at its line of the source with the properties
that cover it.

## Modules

| Module | Models | State |
|---|---|---|
| `LiveZone` | the planners of `compression.rs` as pure operators: which strings of a request may be replaced, on the chat, Responses, Messages and batch surfaces | none |
| `CcrCompression` (extends `LiveZone`) | concurrent requests compressed slot by slot over one table, with put errors, crashes of the proxy and `hr compress` beside it | `table`, and per request `pc`, `request`, `todo`, `out`, `offered` |
| `LosslessRelay` | what compression promises: requests arrive as they were sent, once, or are lost in a crash | `status`, `message`, `delivered` |
| `ProviderMetadata` | what else is done to a request: sorted and canonical tools, the cache breakpoint, the retrieve tool, the prompt cache key; over two turns | `stage`, `asked`, `wire`, the turn `before` |
| `PrefixFreeze` (extends `LiveZone`) | session identity, the floor, its feeding by the usage of answers, lazy expiry, restart | `now`, `sweptAt`, `tracker`, `sent` |
| `RequestPipeline` | requests and connections on their way, sharing the beta tracker, the store and the statistics | per slot `pc`, `request`, `todo`, `stored`, `header`; `betas`, `rows`, `gauge`, counters |
| `CcrContinuation` | one exchange: buffering, the rounds with their lookups, stripping, the reply; puts of others meanwhile | `table`, `pc`, the responses, `rounds`, `answers`, `history`, `reply` |
| `BatchContexts` | recording, expiry, eviction and lookup of batch contexts, restart | `now`, `store`, history `made` |
| `BatchResults` (extends `BatchContexts`) | the results request: its snapshot of the contexts and the walk over the lines, while batches are made and expire | `pc`, `params`, `file`, `at`, `out`, `processed`, `reply` |
| `SseTee` | a streamed response, its lossy copy, the framer, the three usage state machines and the end of the parser task | `taken`, `received`, `body`, `queue`, `buf`, `usage`, `emitted`, `recorded`, `fed`, ... |
| `ByteRelay` | what the tee promises: the client gets the upstream's bytes, from the first on | `bytes`, `received`, `ended` |
| `WebSocketRelay` | a connection: first frame, connect, HTTP fallback, two pumps, telemetry | `pc`, both peers, a frame in each pump's hand, what each side got |
| `MC...` | the instances TLC checks: texts, conversations, responses, scripts | |
| `...Proofs` | the theorems, each module extending the one it proves about | |

Definitions carry the names of the source where TLA+ allows it;
`PROJECT.json` maps each to the lines it stands for. A definition whose name
extends another's, with a comment that says *Mutant*, is a variant of the
code with a plausible bug; no specification uses it. Each checked property
fails under one of them, which shows that the property can see the code.

How the modules fit together: `CcrCompression` and `PrefixFreeze` compose with
`LiveZone` by extension, so that both use the planners as they are.
`BatchResults` composes with `BatchContexts`; a continued line is the exchange
of `CcrContinuation`. `RequestPipeline` abstracts compression to the rows it
inserts (`CcrCompression` says which) and follows the shared state around it.
What `SseTee` tells the tracker (`fed`) is what `Answer` of `PrefixFreeze`
takes as the usage of a streamed response.

### Correspondence

**LiveZone.** A body is the sequence of its JSON strings ("blocks") with what
the planners look at: message index, role, type, `cache_control`, tool call id,
whether the call is `headroom_retrieve`. A plan is the set of positions for
which the code makes a `PlanSlot`. Byte ranges, labels and token counts are
left out. The session floor is a field of the body.

**CcrCompression.** `Accept` parses and plans; `SkipSlot`, `CompressSlot` and
`PutFails` are the three ways through `compress_slot`; `Forward` splices,
injects the retrieve tool and sends. One put or get is one step, since a mutex
holds the connection; everything else interleaves. `Put` is
`INSERT OR IGNORE`. A text is a model value; what matters of it is its hash,
whether it is small, whether it contains `<<ccr:`, and which hashes it quotes.
`Crash` loses the requests in flight and keeps the table.

**ProviderMetadata.** A tool is its definition, whether its schema is written
canonically, the order of its other keys, and whether it carries
`cache_control`. The stages are those of `compress_body`: normalization and
breakpoint, compression, injection, cache key; then the next turn of the
conversation arrives, with any tools. `Sorted` is the stable sort as a
permutation; `Canonical` rewrites schemas; JSON values, as the key's digest
sees them, are the tools without layout and spelling.

**PrefixFreeze.** A conversation is a history that only grows; a request
carries a prefix of it in the client's bytes. `Send` is the path from
`frozen_message_count` to the forwarded body, `Answer` is
`update_from_response` with the usage of a JSON or SSE response, `NoUsage` an
answer that reports nothing. `Swept` is `maybe_cleanup`, which both of them
run first. The provider is a set of usages it may report for a prompt: some
prefix read from its cache, all of it written or nothing, or, if `AlwaysCaches`
holds, always everything.

**RequestPipeline.** A slot is a request or a connection being served. Each
lock and each atomic counter is a step: the beta merge, each put, the increment
of the gauge after an insert, the counters of the outcome, and, for a status
request, the count of rows and the later store into the gauge. A handler ends
where the code returns early, and where a dropped client cancels it, which is
at an await. Session ids of connections are generated, so each has one of its
own in the same list. A beta header is the lines it came in, each with its
tokens, whether it is visible ASCII and whether it is spelled as the proxy would
spell it. `MergeBetas` reads the first line (`Readable`), and puts one line in
the place of all of them (`Replaced`) where the code inserts the merge. A
request then keeps its lines; the upgrade of a connection keeps the last and its
fallback the first, which `SentOn` gives as a choice, and both add the websockets
token.

**CcrContinuation.** A response is its choices, a choice its calls and whether
it ends for tools. A retrieval is a call the parser of the proxy accepts;
`malformed` is one that names the tool with arguments it does not. `Buffer`
takes an eligible response, `PassOn` any other. `Resolve` begins a round, `Read`
looks one call up, `Send` adds the turn to the messages and asks again, and
`Continued` and `ContinuationFails` are the outcomes; `Stop` is the other ends
of the loop, `Finish` the code after it. Between two lookups other requests may
write. A lookup finds the original, or, if the call has a query, the lines that
match it, which may be none; a string that is no hash is refused; and a read
that fails is reported like a missing row (`decompress_hash`), which is why
`Read` takes whether the store could be read.

**BatchContexts, BatchResults.** Contexts are told apart by the custom ids they
are for. `Created` is the answer to a create, `CreatedEncoded` one the proxy
cannot read. `AskResults` clones what `Lookup` finds before the provider is
asked; `Receive` is its answer; `Blank`, `Copy` and `Continue` are the ways a
line goes; `AnswerClient` sends the rewritten file if any line was continued
and the provider's own bytes otherwise. The queue is a set of entries that carry
the turn at which they were pushed, which is their place in it; `pushed` is the
last turn. `Elsewhere` is what other requests and
time do to the queue between any two of these steps.

**SseTee.** Bytes are cut into pieces, two for an event: the second holds the
blank line that ends it. A chunk is any run of pieces. `Relay` is the closure
of `forward`, which hands a chunk to the client and tries to queue it;
`Receive`, `Frame` and `Finish` are the parser task. When a chunk was dropped,
what the framer finds may begin with one event and end with another: `Of` and
`Readings` give each reading such a block may have, the two events themselves,
or nothing. `Absorb` and `EmitFinal` are the state machines; the name of an
event is one the machine of its provider looks at, or another.

**WebSocketRelay.** A connection has two scripts, what the client and the
upstream would send; each may close, stay or vanish anywhere in it. A frame is
read into the hand of a pump and then sent, two steps between which everything
else may happen. `Prepare` is the compression of a `response.create`, which may
also leave the frame as it is. The fallback posts the first frame and streams
data lines. `PumpEnds` is `select!`: the pump that ends first ends the
connection, and what the other one holds is lost.

## Runs

| Run | Shows | Bounds |
|---|---|---|
| `ccr_interleaving` | `MarkersResolve`, `OnePassRestores`, `RowsAreForever`, `AcceptedIsForwarded`, and that the whole implements `LosslessRelay` (`RelaySpec`) | two requests of two slots, `hr compress` of two texts, put errors and crashes anywhere |
| `ccr_policy` | `HotZoneUntouched`, `OpenAiRetrievalOutputsUntouched`, `ToolOffered` | one request; every conversation of up to three messages over six kinds of block, floors 0 to 2, batches of two requests |
| `prefix_alone` | `NeverRecompressed`, `NewOutputCompressed` | three surfaces, a session each, one request at a time, four requests, exact estimates |
| `prefix_shared` | `FloorIsFresh`, `FloorIsEarned` | two conversations in one session, one in another, two requests in flight each, any usage, time 0 to 4 |
| `continuation` | `EveryCallAnswered`, `KnownIsFound`, `NoMixedReply`, `UnresolvedForAReason`, `NoDanglingFinish`, `ExchangeEnds` | every sequence of responses of one or two choices over two retrievals, one of them with a query, one of no hash, a malformed one and a call of the client; reads that fail; the code's three rounds |
| `batch_results` | `KeptUntilExpiry`, `NeverStale`, `LinesArePreserved`, `RetrievalsResolved` | three creates of three batches, a queue of two, a life of one tick, results of two or three lines |
| `sse_tee` | `CountedOnce`, `UndroppedIsExact`, `ClientServed`, `ParserEnds`, and that the tee implements `ByteRelay` (`RelaySpec`) | six streams of two to four events over the three providers, chunks of one to three pieces, a queue of two |
| `websocket` | `UpstreamGetsFrames`, `ClientGetsReplies`, `CountedAsSeen`, `SilentEnds`, `SlotReleased` | five client scripts and four upstream scripts of up to three frames, both kinds of connection |
| `request_pipeline` | `GaugeBounded`, `CountersBalance`, `TokensStick` | two slots, one poller, five requests or frames after a start, three sessions in a tracker of two, beta headers of no, one and two lines, two rows |
| `metadata` | `OrderIsForgotten`, `KeyFollowsWire`, `BreakpointsAreTheClients`, `ToolsAreKept` | two turns, three shapes, up to three of five tools in several spellings |
| `ccr_anthropic_retrieval`, `prefix_confirmed` | a sentence of the documentation that the code does not keep, see Findings | as small as the case allows |

Each run explores its instance completely: from 3 370 distinct states
(`ccr_interleaving`) to 4.5 million (`request_pipeline`), in at most two minutes.
The violation runs stop at their counterexample.

Why these bounds are enough.

- Compression: what goes wrong between requests goes wrong between two that put
  the same text, or between a slot that fails and one that does not; no step
  looks at more than one slot and one row. The planners compare a message with
  the floor, with the last breakpoint, with retrieve calls and, for chat, with
  a later tool message: three messages hold every pair.
- Prefix freeze: the expiry argument involves one sweep, one touch and one
  read; floors disagree as soon as two answers, or two conversations, meet in
  one session.
- Continuation: the limit is the code's own, and two choices are the least for
  which stripping can empty one and leave the other. Two hashes are enough for
  one that is missing in a round and stored before the next, beside one whose
  read fails.
- Batches: an eviction, a replacement before an eviction, and one after, fit in
  three creates and a queue of two; one tick is enough for an entry to expire
  between the lookup and the last line. Three lines hold a line to continue
  between two that are not.
- SSE: with two pieces to an event, a chunk can end inside an event, at its
  end, or span one and a half; dropping one chunk of two leaves a block made of
  two events. A queue of two can be full with something taken out of it.
- WebSocket: each pump holds one frame; two frames in each direction show an
  order, a third one arrives while both pumps hold one.
- Pipeline: the gauge is wrong by one for each slot that is between its insert
  and its increment, two slots show that it adds up; a tracker of two with
  three sessions evicts. Of several header lines the code tells the first and
  the last: two lines hold both.
- Metadata: all properties compare two turns; two tools with the same key, and
  one before and after a breakpoint, need three.

Deadlock is not checked: in every instance the scripts, requests or events
come to an end, and a state in which nothing is left to do is the normal end.
That nothing stops before its end is what the liveness properties say.

### Fairness

Safety is checked without fairness, or does not depend on it. The liveness
properties assume:

- `AcceptedIsForwarded` (a request the proxy accepted is forwarded, or dies with
  it): weak fairness of the steps of each compression. It is a synchronous
  computation that waits for nothing but the store's mutex and SQLite.
- `ExchangeEnds` (the client is answered whatever the model asks for): weak
  fairness of the answer to each upstream request and of the loop's own steps,
  which wait for nothing but the store; SQLite's busy timeout (a default of
  `rusqlite`) bounds a read.
  The HTTP client is built with a connect timeout and `UPSTREAM_TIMEOUT`
  (`proxy.rs:40-41`), so every request ends if only in an error. Nothing is
  assumed of the model: it may ask for retrievals for ever, and the round limit
  has to end the exchange.
- `ClientServed` (a client that reads gets to the end of its response): weak
  fairness of a chunk being delivered or the stream being complete, that is, of
  the upstream and the client. Nothing is assumed of the parser, which may stop
  for ever: the queue then fills and the chunks are dropped.
- `ParserEnds` (the parser task ends after its stream) assumes in its own
  premise that the parser task is scheduled, and nothing of anybody else once
  the body has ended.
- `SilentEnds` and `SlotReleased` (a connection that sends nothing ends; one
  whose client or upstream is gone is given up): weak fairness of the
  first-frame timer (`WS_FIRST_FRAME_TIMEOUT`), of both pumps, of the `select!`
  seeing that one of them ended, of the fallback request and of its end, which
  the HTTP client's timeout bounds. Two assumptions are not enforced by the
  code: that `connect_async` returns, which has no timeout (`proxy.rs:2735`),
  and that a peer that is there takes what is sent to it, so that a send does
  not wait for ever. A peer that never reads, or an upstream that accepts a
  connection and never answers the handshake, does hold the connection.

Clients are never assumed to send anything.

## Proofs

All theorems are about the modules TLC checks, for every value of the
constants that satisfies the named assumptions. Eight modules hold them.

**CcrCompressionProofs** (from `CcrAssumption`: distinct texts have distinct
hashes, a text that quotes a marker contains the marker prefix). The safety
property `MarkersResolve` is not inductive: a step could replace a text that is
not the client's, or file a text under a hash that already has another row.
`IInv` adds that pending slots still hold the client's text
(`PendingUntouched`), that only admitted text was replaced
(`OnlyAdmittedReplaced`) and that rows are filed under their hash
(`RowsKeyed`). From it follow `SpecTypeOK`, `SpecMarkersResolve`,
`SpecOnePassRestores` (an admitted text contains no marker, so the row a marker
names expands to itself), `SpecRowsAreForever`, and `SpecRelay`, the refinement:
`CompressSlot` and its siblings are stutters of the relay, `Forward` is its
delivery, because what the table gives back for each marker is the text it
replaced.

Two more conjuncts, that only planned slots were replaced or are still to be
(`OnlyPlanned`) and that a forwarded request offers the tool where it should
(`OfferedAsWanted`), carry what the policy protects. The rest is about the
planners alone: `PlanAvoidsHotZone` and `OpenAiPlanAvoidsRetrievals` say for
any body what no planner names. Hence `SpecHotZoneUntouched`,
`SpecRetrievalOutputsUntouched` and `SpecToolOffered`.

**PrefixFreezeProofs** (from `PrefixFreezeAssumption`). A read of the floor does
not look at the tracker's age, so that `FloorIsFresh` rests on the last sweep:
`SweptAreFresh` says that no tracker was past its TTL then, and that no tracker
exists before the first sweep. `SpecSweptAreFresh` and `SpecFloorIsFresh` follow:
for any sessions and times a floor is at most TTL plus cleanup interval old.

`SpecFloorIsEarned`, in the same module: a floor was earned by an answer in its
session and covers only messages whose estimates fit into the tokens the
provider has cached. The sum of the estimates is a recursive
function. An induction theorem cannot be used, but the well-ordering of the
naturals can (`Least`): a smallest number at which the defining equation, the
type or the monotonicity of the sum failed leads to a contradiction
(`SumUnfolds`, `SumIsNat`, `SumGrows`). `CoveredFits` is the heart: the walk of
`update_from_response` stops where the next message no longer fits. The
inductive invariant `FloorInv` holds the types (`SpecTypes`), that what was
forwarded is a prefix of its conversation, and the property itself.

`SpecNewOutputCompressed` follows for a conversation that has its session to
itself, however many of its requests are in flight and whatever usage comes
back: lengths never fall (`History`), so a floor that was earned is no larger
than the messages sent before, the reply and the instructions (`FloorReach`),
and above it the floor changes no plan (`PlanAboveFloor`).

`SpecNeverRecompressed` needs `Predictable` besides, and the property says so:
with estimates that are off, or answers out of order, the floor may fall, as
`prefix_confirmed` shows. That the floor never falls is not inductive: a tracker
may expire between a request and its answer, which then sets the floor anew.
`FreezeInv` adds that the answer to any request of the history would grant at
least the floor the request had (`Frozen`). The heart is `GrantGrows`: a longer
request under a higher floor has, message by message, at least the tokens of the
shorter one, because no planner takes up what it did not compress before
(`PlanShrinks`) and a marker is not longer than its text; and the walk over all
the tokens of a request covers all of it (`CoveredAll`, `SumsCompare`).

**CcrContinuationProofs** (from `CcrContinuationAssumption`: a turn's calls are
finite, have distinct ids, and it ends for tools exactly if there are some).
`Inv` adds to the properties that the loop holds a response of the upstream,
unchanged since the first until a round succeeds (`LoopHolds`, `NotYetChanged`),
that the answers of an open round are to its retrievals (`ReadingHolds`), that
the markers a request carried and whatever a round has shown stay in the table
(`OfferedIsStored`, `FoundIsStored`), and that an answer to a call for something
known was a find, or its read failed (`ReadIsFound`). The last three carry
`KnownIsFound` from the lookups, one by one, into the history. The heart is
`OnlyRetrievals`: as many retrievals as calls in a single choice means that
they are the same set, so answering retrievals answers everything.
`FinishReplies` states what the code after the loop does for every end of it.
`SpecEveryCallAnswered`, `SpecKnownIsFound`, `SpecNoMixedReply`,
`SpecNoDanglingFinish` and `SpecUnresolvedForAReason` are corollaries.

**ProviderMetadataProofs** (from `ProviderMetadataAssumption`). The sort is a
permutation chosen by counting, so half of the module is about it: positions
are a bijection (`Position` counts the tools up to one's own), equal tools keep
their order, and two sequences with the same tools and distinct keys are sorted
into the same one. The counting arguments replace the inductions a recursive
sort would need. The inductive invariant `MetadataInv` has a part for each
variable: the types, what the wire is at each stage as a function of what was
asked (`WireInv`), the same of the turn before (`BeforeInv`), and when there is
something compressed (`CompressedInv`). With the wire given as a function of
the body, the four properties are facts about operators: `SpecToolsAreKept`,
`SpecKeyFollowsWire`, `SpecBreakpointsAreTheClients`, `SpecOrderIsForgotten`.

**BatchResultsProofs** (from the assumptions of `BatchContexts` and
`BatchResults`). A queue whose entries carry the turn of their create can be
reasoned about as a set: the entries kept are those with the latest turns.
`ContextsInv` says that an entry holds what the latest create of its batch left,
that there is one for a batch, in the order of those creates
(`EntriesAreLatest`), and that a batch whose time is not up and that has none
has as many others recorded after it as the queue holds (`MissedForAReason`).
`SpecKeptUntilExpiry` and `SpecNeverStale` follow. `WalkInv` describes the walk
after any number of lines: what is in the output so far, which of it is
continued, and that the snapshot is what was promised when the results were
asked for. `SpecLinesArePreserved` and `SpecRetrievalsResolved` follow for
results of any length. `WalkIsAUser` proves that the walk implements
`BatchContexts`.

**SseTeeProofs** (from `SseTeeAssumption`). `BytePath` says that the client has
the bytes taken from the upstream so far; it speaks of neither the queue nor
the parser, which is the reason why `TeeIsTransparent`, the refinement of
`ByteRelay`, holds whatever they do. `CountsInv` (nothing is counted before
`emitted`, no status before the end of the task) gives `UsageCountedOnce` for
every reading of every garbled block. `UndroppedStreamIsExact` needs the whole
path: `TeeInv` says that as long as nothing was dropped the chunks received,
the queue and the parser's buffer are together the bytes taken, so that what
was framed is a prefix of the stream's events (`Framed`), and that the state
machine knows what those events say (`Learned`), for each of the three
providers, whose machines differ in what they look at and when they emit.

**WebSocketRelayProofs** (from `WebSocketRelayAssumption`). `FramesInv` follows
the client's frames: what the upstream was given and what is in the hand of the
pump are all the frames read, as long as the upstream is there. It yields
`FramesInOrder` over the socket and the fallback together. `RepliesInv` follows
the other direction, the counter of completed responses, and what has to be
true when the connection has ended because of the upstream; it yields
`RepliesInOrder` and `CompletionsCounted`.

**RequestPipelineProofs** (from `RequestPipelineAssumption`). The gauge
and the balance are about how many slots are at a place, so that each action is
characterised by the change it makes to a set of slots (`SlotsCount`). `GaugeInv` strengthens
`GaugeBounded`: the slots between insert and increment are already counted
against the room, and a count on its way to the gauge is at most the rows.
`BalanceInv` moves a slot in or out of `Uncounted` exactly when it changes a
counter. `GaugeStaysNear` and `StatisticsBalance` follow.

`SpecTokensStick`, in the same module, is an action property about a list of
bounded length. `Merged` is a recursive function; as with the sums, the
well-ordering of the naturals gives its defining equation (`MergedUnfolds`) and
what it returns (`MergedMerges`). The inductive invariant `BetaInv` connects
the list with the history: an entry holds the last header of its session; the
sessions behind an entry are among those that had their turn after its own
(`Listed`), so that one that is pushed out at the front leaves
`MAX_BETA_SESSIONS` of them behind (`BehindTheFirst`); hence a session that had
fewer since is in the list (`RecentIsTracked`). What is then sent is a matter of
the lines: which line is read (`ReadableTokens`), when one line replaces all
(`ReplacedLines`), and what a request and a connection make of the result
(`RequestSticks`, `ConnectionSticks`). `SpecTypeOK` collects the types
of the module from the three invariants.

Every invariant, every action property and every refinement a passing run checks
is stated by a theorem. Only liveness under fairness is left to the runs
(`AcceptedIsForwarded`, `ExchangeEnds`, `ClientServed`, `ParserEnds`,
`SilentEnds`, `SlotReleased`): it is out of the prover's reach.

## Findings

Each is a run that must fail.

- `ccr_anthropic_retrieval`: on the Anthropic surface the output of a
  `headroom_retrieve` call the client answered is compressed again
  (`compression.rs:611`), although retrieval outputs are documented as never
  modified (`README.md:133`). The other planners exclude it.
- `prefix_confirmed`: if prose is overestimated, the floor retreats once frozen
  messages are sent raw (`session.rs:154`), and a confirmed message is
  compressed, although prefixes the provider confirmed are documented as never
  modified (`README.md:135`).

### Other divergences met while modelling

Behaviours of the code that a document or a comment describes otherwise, or
that a reader may not expect. The models do what the code does; no run is kept
for these.

- A batch request that arrives with a marker, and is not compressed itself,
  gets no retrieve tool (`compression.rs:301`; `README.md:138-140` promises one
  whenever a request contains a marker). The code follows its reference there.
  `ToolOffered` leaves this case out.
- A tracker that has been idle for longer than `SESSION_TTL` (`session.rs:18`)
  still grants its floor until the next sweep, and is kept alive by the read
  (`session.rs:112`). `FloorIsFresh` is what does hold.
- The provider cached the forwarded prefix with its markers, whereas the freeze
  sends the client's bytes, so that the prefix it sees on the next turn is not
  the one it cached (`proxy.rs:1204`; the comment at `tests/proxy.rs:2048` says
  byte-identical).
- Conversations that share a session move each other's floor, and an older answer
  of a session may overwrite the floor of a newer one (`session.rs:68`,
  `proxy.rs:2317`). `FloorIsEarned` allows both; it says that some answer of the
  session earned the floor.
- A `headroom_retrieve` call whose hash is no string is taken for a call of the
  client and left in a mixed reply (`proxy.rs:846`; `README.md:193-194` strips
  retrieval calls). `EveryCallAnswered` and `NoMixedReply` read "retrieval" as
  the parser does.
- When telemetry chunks were dropped, the usage counted and told to the tracker
  may be put together from two events (`proxy.rs:2193`): it was not confirmed
  by the provider. `UndroppedIsExact` is restricted to streams without a drop;
  `CountedOnce` holds for all.
- A read of the store that fails, as under another process's lock, is reported to
  the model as "entry not found" (`ccr.rs:52`, `proxy.rs:907-912`), without a
  retry in that round; the next round reads again. `KnownIsFound` exempts that
  read.
- A client that spreads its beta tokens over several header lines loses those of
  all but the first once the merge is spelled otherwise than that line, which is
  when the session has a token to add or the line holds a blank after a comma
  (`proxy.rs:1225-1234`), although "the client's `anthropic-beta` tokens" are
  documented to be united with the session's (`session.rs:171-172`). A line that
  is not visible ASCII is read as none and lost the same way. Of several lines
  that were not replaced, the upgrade of a connection keeps the last and its
  fallback the first (`proxy.rs:3113-3135`, `proxy.rs:3211-3216`). `TokensStick`
  says what does hold.
- Sticky betas are "never removed" (`session.rs:175`), but the session is, once
  `MAX_BETA_SESSIONS` others were served; each WebSocket connection counts as a
  session. `TokensStick` states the limit.
- The gauge of CCR entries can exceed the rows, by at most one for each request
  in flight, until the next status request (`GaugeBounded`).
- The fallback reads no frames of the client any more and ends without a Close
  frame; a first frame that is not a `response.create`, such as a ping, makes
  the fallback impossible; a last SSE line without a newline is lost in it.
- A create whose response is content-encoded, which a client can ask for,
  leaves no context (`CreatedEncoded`), and the results of that batch pass
  through with their retrievals.
- Compressing for the first time appends the retrieve tool: the tools on the
  wire, and the prompt cache key derived from them, change on that turn.

## What is not modelled

- Collisions of the 96 bit hash prefix, corruption of the database, and
  deletion of rows by hand: the code takes none of them into account.
- The wall clock being set back (`SystemTime` in `BatchContexts`).
- Formatting: marker syntax, JSON layout and byte ranges, header filtering and
  URL rewriting, error bodies, log lines. A marker is `<<ccr:HASH>>` in the code
  and a record here; what depends on the syntax, texts that quote a marker, is
  a set of texts.
- Which lines of an original a search (`query`) returns, only that it searched
  the original; the formatting of the retrieve endpoint; the health probe.
- The tokenizer and its choice by model name: an estimate is any number, exact
  where a run says so.
- Decoding of UTF-8 and of lines in `sse.rs` below the level of events.
- The remaining counters of `stats.rs`, which are added to at one place each
  and which nothing reads back.
- Argument parsing and printing of `main.rs`; `hr decompress` is the expansion
  of `CcrCompression`.
