--------------------------- MODULE WebSocketRelay ---------------------------
(***************************************************************************)
(* One WebSocket connection through the proxy.  A Codex connection waits   *)
(* for the first frame of the client, compresses it, connects to the       *)
(* upstream, or sends it over HTTP if that fails, and then two pumps race: *)
(* whichever ends first ends the connection.  Any other connection is      *)
(* connected at once and passed through.  Each response.create frame of a  *)
(* Codex client is compressed on its way.                                  *)
(***************************************************************************)
EXTENDS Naturals, Sequences, FiniteSets

CONSTANTS
  ClientScript,     (* what clients may send, as sequences of frame kinds  *)
  UpstreamScript    (* what upstreams may send                             *)

(* "create" is a response.create with content that may be compressed,      *)
(* "text" other text, "ping" a control or binary frame.                    *)
ClientKind == {"create", "text", "ping", "close"}

(* "completed" is a response.completed with its usage.  "noise" occurs in  *)
(* an HTTP response only: event lines, comments, blank lines and [DONE].   *)
UpstreamKind == {"event", "completed", "noise", "close"}

ASSUME WebSocketRelayAssumption ==
  /\ ClientScript \subseteq Seq(ClientKind)
  /\ UpstreamScript \subseteq Seq(UpstreamKind)

VARIABLES
  codex,                   (* a Codex connection, else a passthrough       *)
  frames, replies,         (* the scripts of this connection               *)
  pc,                      (* where the connection is                      *)
  client, upstream,        (* "up" or "gone", the upstream also "none"     *)
  sent, read, held,        (* client frames: sent, read, on their way      *)
  replied, heard, carried, (* the same for the upstream                    *)
  table,                   (* client frames whose originals are stored     *)
  toUpstream,              (* what the upstream got over the socket        *)
  posted,                  (* and over HTTP                                *)
  toClient,                (* upstream frames the client got               *)
  notice,                  (* a frame of the proxy's own to the client     *)
  endedBy,                 (* what ended the connection                    *)
  counted                  (* responses counted in the stats               *)

clientVars == <<client, sent>>
upstreamVars == <<upstream, replied>>
fixed == <<codex, frames, replies>>
delivered == <<toUpstream, posted, toClient, notice>>
vars == <<fixed, pc, clientVars, upstreamVars, read, held, heard, carried, table,
          delivered, endedBy, counted>>

(* A client frame as the proxy sends it on.                                *)
Frame == [id : Nat, form : {"raw", "marker"}]
None == << >>

-----------------------------------------------------------------------------
Init ==
  /\ codex \in BOOLEAN
  /\ frames \in ClientScript /\ replies \in UpstreamScript
  /\ pc = IF codex THEN "waiting" ELSE "connecting"
  /\ client = "up" /\ upstream = "none"
  /\ sent = 0 /\ read = 0 /\ held = None
  /\ replied = 0 /\ heard = 0 /\ carried = None
  /\ table = {}
  /\ toUpstream = << >> /\ posted = << >> /\ toClient = << >>
  /\ notice = "none" /\ endedBy = "none" /\ counted = 0

End(who) == pc' = "closed" /\ endedBy' = who

(* The two peers.  A frame is read some time after it was sent.            *)
ClientSends ==
  /\ client = "up"
  /\ sent < Len(frames)
  /\ sent' = sent + 1
  /\ client' = IF frames[sent + 1] = "close" THEN "gone" ELSE "up"
  /\ UNCHANGED <<fixed, pc, upstreamVars, read, held, heard, carried, table,
                 delivered, endedBy, counted>>
ClientLeaves ==
  /\ client = "up"
  /\ client' = "gone"
  /\ UNCHANGED <<fixed, pc, sent, upstreamVars, read, held, heard, carried,
                 table, delivered, endedBy, counted>>
UpstreamSends ==
  /\ upstream = "up"
  /\ replied < Len(replies)
  /\ replies[replied + 1] = "noise" => pc = "streaming"
  /\ replies[replied + 1] = "close" => pc # "streaming"
  /\ replied' = replied + 1
  /\ upstream' = IF replies[replied + 1] = "close" THEN "gone" ELSE "up"
  /\ UNCHANGED <<fixed, pc, clientVars, read, held, heard, carried, table,
                 delivered, endedBy, counted>>
UpstreamLeaves ==
  /\ upstream = "up"
  /\ upstream' = "gone"
  /\ UNCHANGED <<fixed, pc, clientVars, replied, read, held, heard, carried,
                 table, delivered, endedBy, counted>>

-----------------------------------------------------------------------------
(* prepare_client_codex_ws_message: a response.create is compressed, if    *)
(* compression is allowed, finds something, and the originals can be put.  *)
Prepare(id) ==
  \/ held' = <<[id |-> id, form |-> "raw"]>> /\ UNCHANGED table
  \/ /\ codex /\ frames[id] = "create"
     /\ held' = <<[id |-> id, form |-> "marker"]>>
     /\ table' = table \cup {id}

(* The first frame of the client, whatever its kind.                       *)
FirstFrame ==
  /\ pc = "waiting"
  /\ read < sent
  /\ read' = read + 1
  /\ Prepare(read + 1)
  /\ pc' = "connecting"
  /\ UNCHANGED <<fixed, clientVars, upstreamVars, heard, carried, delivered,
                 endedBy, counted>>

(* It leaves without one, or WS_FIRST_FRAME_TIMEOUT has passed; a frame    *)
(* may be on its way by then.  Mutant: the wait has no bound.              *)
NoFirstFrameUntimed ==
  /\ pc = "waiting"
  /\ client = "gone" /\ read = sent /\ UNCHANGED notice
  /\ End("client")
  /\ UNCHANGED <<fixed, clientVars, upstreamVars, read, held, heard, carried,
                 table, toUpstream, posted, toClient, counted>>
NoFirstFrame ==
  /\ pc = "waiting"
  /\ \/ client = "gone" /\ read = sent /\ End("client") /\ UNCHANGED notice
     \/ End("timeout") /\ notice' = "close 1001"
  /\ UNCHANGED <<fixed, clientVars, upstreamVars, read, held, heard, carried,
                 table, toUpstream, posted, toClient, counted>>

Connect ==
  /\ pc = "connecting"
  /\ upstream' = "up"
  /\ pc' = IF codex THEN "opening" ELSE "relaying"
  /\ UNCHANGED <<fixed, clientVars, replied, read, held, heard, carried, table,
                 delivered, endedBy, counted>>

(* codex_ws_http_fallback needs a response.create to send.                 *)
ConnectFails ==
  /\ pc = "connecting"
  /\ IF held # None /\ frames[held[1].id] = "create"
     THEN pc' = "posting" /\ UNCHANGED endedBy
     ELSE End("error")
  /\ UNCHANGED <<fixed, clientVars, upstreamVars, read, held, heard, carried,
                 table, delivered, counted>>

-----------------------------------------------------------------------------
(* Both pumps.  The first frame of a Codex connection is sent before they  *)
(* start.  What is sent to a peer that is gone is lost, or an error.       *)
(* Mutant: a socket that dies with the first frame falls back to HTTP.     *)
SendUpFallsBack ==
  /\ pc \in {"opening", "relaying"} /\ held # None
  /\ toUpstream' = IF upstream = "up" THEN Append(toUpstream, held[1]) ELSE toUpstream
  /\ \/ held' = None /\ pc' = "relaying" /\ UNCHANGED endedBy
     \/ pc = "opening" /\ pc' = "posting" /\ UNCHANGED <<held, endedBy>>
     \/ upstream = "gone" /\ End("error") /\ UNCHANGED held
  /\ UNCHANGED <<fixed, clientVars, upstreamVars, read, heard, carried, table,
                 posted, toClient, notice, counted>>
SendUp ==
  /\ pc \in {"opening", "relaying"} /\ held # None
  /\ \/ /\ toUpstream' = IF upstream = "up" THEN Append(toUpstream, held[1]) ELSE toUpstream
        /\ held' = None
        /\ pc' = "relaying" /\ UNCHANGED endedBy
     \/ /\ upstream = "gone"
        /\ End("error") /\ UNCHANGED <<toUpstream, held>>
  /\ UNCHANGED <<fixed, clientVars, upstreamVars, read, heard, carried, table,
                 posted, toClient, notice, counted>>

ReadClient ==
  /\ pc = "relaying" /\ held = None
  /\ read < sent
  /\ read' = read + 1
  /\ Prepare(read + 1)
  /\ UNCHANGED <<fixed, pc, clientVars, upstreamVars, heard, carried, delivered,
                 endedBy, counted>>

(* observe_text, then the frame is on its way to the client.  Mutant:      *)
(* every frame counts.                                                     *)
ReadUpstreamCountsAll ==
  /\ pc = "relaying" /\ carried = None
  /\ heard < replied
  /\ heard' = heard + 1
  /\ carried' = <<heard + 1>>
  /\ counted' = counted + 1
  /\ UNCHANGED <<fixed, pc, clientVars, upstreamVars, read, held, table,
                 delivered, endedBy>>
ReadUpstream ==
  /\ pc = "relaying" /\ carried = None
  /\ heard < replied
  /\ heard' = heard + 1
  /\ carried' = <<heard + 1>>
  /\ counted' = IF codex /\ replies[heard + 1] = "completed" THEN counted + 1 ELSE counted
  /\ UNCHANGED <<fixed, pc, clientVars, upstreamVars, read, held, table,
                 delivered, endedBy>>
SendDown ==
  /\ pc = "relaying" /\ carried # None
  /\ \/ /\ toClient' = IF client = "up" THEN Append(toClient, carried[1]) ELSE toClient
        /\ carried' = None
        /\ UNCHANGED <<pc, endedBy>>
     \/ client = "gone" /\ End("error") /\ UNCHANGED <<toClient, carried>>
  /\ UNCHANGED <<fixed, clientVars, upstreamVars, read, held, heard, table,
                 toUpstream, posted, notice, counted>>

(* select!: the pump that comes to its end ends the connection; what the   *)
(* other one holds is dropped.  Mutants: the upstream's end is seen before *)
(* its last frame was sent on; both pumps have to end (join!).             *)
PumpEndsEarly ==
  /\ pc = "relaying"
  /\ \/ client = "gone" /\ held = None /\ read = sent /\ End("client")
     \/ upstream = "gone" /\ heard = replied /\ End("upstream")
  /\ UNCHANGED <<fixed, clientVars, upstreamVars, read, held, heard, carried,
                 table, delivered, counted>>
PumpEndsBoth ==
  /\ pc = "relaying"
  /\ client = "gone" /\ held = None /\ read = sent
  /\ upstream = "gone" /\ carried = None /\ heard = replied
  /\ End("upstream")
  /\ UNCHANGED <<fixed, clientVars, upstreamVars, read, held, heard, carried,
                 table, delivered, counted>>
PumpEnds ==
  /\ pc = "relaying"
  /\ \/ client = "gone" /\ held = None /\ read = sent /\ End("client")
     \/ upstream = "gone" /\ carried = None /\ heard = replied /\ End("upstream")
  /\ UNCHANGED <<fixed, clientVars, upstreamVars, read, held, heard, carried,
                 table, delivered, counted>>

-----------------------------------------------------------------------------
(* The fallback sends the first frame over HTTP, once.  A status that is   *)
(* no success becomes an error frame.                                      *)
Post ==
  /\ pc = "posting"
  /\ posted' = held /\ held' = None
  /\ \/ pc' = "streaming" /\ upstream' = "up" /\ UNCHANGED <<notice, endedBy>>
     \/ /\ End("error") /\ UNCHANGED upstream
        /\ notice' \in {"none"} \cup (IF client = "up" THEN {"error"} ELSE {})
  /\ UNCHANGED <<fixed, clientVars, replied, read, heard, carried, table,
                 toUpstream, toClient, counted>>

(* relay_sse_response_over_websocket: each data line becomes a frame.      *)
(* Client frames are not read any more.                                    *)
Payload(k) == k # "noise"

Line ==
  /\ pc = "streaming"
  /\ heard < replied
  /\ LET k == replies[heard + 1]
     IN /\ heard' = heard + 1
        /\ counted' = IF k = "completed" THEN counted + 1 ELSE counted
        /\ \/ /\ toClient' = IF Payload(k) /\ client = "up"
                             THEN Append(toClient, heard + 1) ELSE toClient
              /\ UNCHANGED <<pc, endedBy>>
           \/ client = "gone" /\ Payload(k) /\ End("error") /\ UNCHANGED toClient
  /\ UNCHANGED <<fixed, clientVars, upstreamVars, read, held, carried, table,
                 toUpstream, posted, notice>>

(* The response ends, or the total timeout of the HTTP client ends it.     *)
LinesEnd ==
  /\ pc = "streaming"
  /\ \/ upstream = "gone" /\ heard = replied /\ End("upstream")
     \/ End("error")
  /\ UNCHANGED <<fixed, clientVars, upstreamVars, read, held, heard, carried,
                 table, delivered, counted>>

ClientPump == ReadClient \/ SendUp
UpstreamPump == ReadUpstream \/ SendDown
Fallback == Post \/ Line \/ LinesEnd
Opening == FirstFrame \/ NoFirstFrame \/ Connect \/ ConnectFails
Peers == ClientSends \/ ClientLeaves \/ UpstreamSends \/ UpstreamLeaves

Next == Peers \/ Opening \/ ClientPump \/ UpstreamPump \/ PumpEnds \/ Fallback

Spec == Init /\ [][Next]_vars

(* The timer fires, a connection is made or refused, both peers take what  *)
(* is sent to them while they are there, and an HTTP response ends.  Of    *)
(* the peers nothing else is assumed.                                      *)
Fairness ==
  /\ WF_vars(FirstFrame \/ NoFirstFrame)
  /\ WF_vars(Connect \/ ConnectFails)
  /\ WF_vars(ClientPump)
  /\ WF_vars(UpstreamPump)
  /\ WF_vars(PumpEnds)
  /\ WF_vars(Post) /\ WF_vars(LinesEnd)

FairSpec == Spec /\ Fairness

-----------------------------------------------------------------------------
TypeOK ==
  /\ pc \in {"waiting", "connecting", "opening", "relaying", "posting",
             "streaming", "closed"}
  /\ client \in {"up", "gone"} /\ upstream \in {"none", "up", "gone"}
  /\ sent \in 0..Len(frames) /\ read \in 0..sent
  /\ replied \in 0..Len(replies) /\ heard \in 0..replied
  /\ Len(held) <= 1 /\ Len(carried) <= 1
  /\ counted \in 0..heard

(* What the upstream gets, over the socket and over HTTP, are the frames   *)
(* of the client in their order, none of them twice and none left out;     *)
(* only a response.create is ever rewritten, and its originals are stored  *)
(* before it leaves.                                                       *)
Given == toUpstream \o posted
UpstreamGetsFrames ==
  \A i \in DOMAIN Given :
    /\ Given[i].id = i
    /\ Given[i].form = "marker" => frames[i] = "create" /\ i \in table

(* The client gets the upstream's frames, or the data lines of its HTTP    *)
(* response, in order, and all of them if the connection ended because the *)
(* upstream had ended.                                                     *)
ClientGetsReplies ==
  LET due(n) == {i \in 1..n : Payload(replies[i])}
  IN /\ \A i \in DOMAIN toClient :
          toClient[i] \in due(heard) /\ Cardinality(due(toClient[i])) = i
     /\ endedBy = "upstream" /\ client = "up" => Len(toClient) = Cardinality(due(replied))

(* A response the client saw completed is counted, and none is twice.      *)
CountedAsSeen ==
  LET completed(S) == {i \in S : replies[i] = "completed"}
  IN codex => /\ Cardinality(completed({toClient[i] : i \in DOMAIN toClient})) <= counted
              /\ counted <= Cardinality(completed(1..heard))

(* "a connection that never sends a frame cannot hold a WS slot open       *)
(* indefinitely" (proxy.rs).                                               *)
SilentEnds == [](pc = "waiting" => <>(pc # "waiting"))

(* A connection whose client or upstream is gone is given up.  While it    *)
(* connects this rests on Fairness, not on the code: connect_async has no  *)
(* timeout (proxy.rs:2735), and neither have sends to a peer that is there.*)
SlotReleased == client = "gone" \/ upstream = "gone" ~> pc = "closed"

=============================================================================
