------------------------ MODULE WebSocketRelayProofs ------------------------
(***************************************************************************)
(* For every client and every upstream: what the upstream gets, over the   *)
(* socket and over HTTP together, are the frames of the client in order.   *)
(* As long as the upstream is there, what it was given and what is on its  *)
(* way to it is all that was read.  The same is then shown of what the     *)
(* client gets of the upstream, and of the responses that are counted.     *)
(***************************************************************************)
EXTENDS WebSocketRelay, FiniteSetTheorems, TLAPS

IsFrame(f, id) ==
  /\ f \in Frame
  /\ f.id = id
  /\ f.form = "marker" => frames[id] = "create" /\ id \in table

Held == held = None \/ \E f \in Frame : held = <<f>> /\ IsFrame(f, read)
Sent ==
  /\ toUpstream \in Seq(Frame) /\ posted \in Seq(Frame)
  /\ \A i \in DOMAIN toUpstream : IsFrame(toUpstream[i], i)
  /\ \A i \in DOMAIN posted : IsFrame(posted[i], i)
  /\ posted # << >> => toUpstream = << >> /\ pc \in {"streaming", "closed"}
Phase ==
  /\ read \in Nat
  /\ pc = "waiting" => codex /\ read = 0 /\ held = None /\ toUpstream = << >>
  /\ pc = "connecting" =>
       toUpstream = << >> /\ read = (IF held = None THEN 0 ELSE 1) /\ (codex => held # None)
  /\ pc = "connecting" /\ ~codex => held = None
  /\ pc \in {"opening", "posting"} => toUpstream = << >> /\ held # None /\ read = 1
  /\ pc = "relaying" /\ upstream = "up" =>
       read = IF held = None THEN Len(toUpstream) ELSE Len(toUpstream) + 1
FramesInv == codex \in BOOLEAN /\ Held /\ Sent /\ Phase

(* Frames that were right stay right: the table only grows.                *)
LEMMA FramesStay ==
  ASSUME frames' = frames, table \subseteq table',
         NEW f, NEW id, IsFrame(f, id)
  PROVE  IsFrame(f, id)'
BY DEF IsFrame

LEMMA SentStays ==
  ASSUME Sent, frames' = frames, table \subseteq table',
         UNCHANGED <<toUpstream, posted>>, posted # << >> => pc' \in {"streaming", "closed"}
  PROVE  Sent'
BY FramesStay DEF Sent

LEMMA HeldStays ==
  ASSUME Held, frames' = frames, table \subseteq table', UNCHANGED <<held, read>>
  PROVE  Held'
BY FramesStay DEF Held

(* A frame that is prepared is the frame that was read.                    *)
LEMMA Prepared ==
  ASSUME NEW id \in Nat, Prepare(id), frames' = frames, read' = id
  PROVE  Held' /\ held' # None /\ table \subseteq table'
<1>1. PICK f \in {[id |-> id, form |-> "raw"], [id |-> id, form |-> "marker"]} :
        /\ held' = <<f>>
        /\ f.form = "marker" => frames[id] = "create" /\ id \in table'
        /\ table \subseteq table'
  BY DEF Prepare
<1>2. f \in Frame /\ f.id = id
  BY DEF Frame
<1>3. IsFrame(f, id)'
  BY <1>1, <1>2 DEF IsFrame
<1> QED
  BY <1>1, <1>2, <1>3 DEF Held, None

LEMMA InitFrames == Init => FramesInv
BY DEF Init, FramesInv, Held, Sent, Phase, None

LEMMA NextFrames == FramesInv /\ [Next]_vars => FramesInv'
<1> SUFFICES ASSUME FramesInv, [Next]_vars PROVE FramesInv'
  OBVIOUS
<1> USE DEF FramesInv
<1>1. CASE FirstFrame
  <2>1. /\ pc = "waiting" /\ pc' = "connecting" /\ codex' = codex
        /\ read' = 1 /\ frames' = frames /\ Prepare(1)
        /\ UNCHANGED <<toUpstream, posted>>
    BY <1>1 DEF FirstFrame, Phase, fixed, delivered
  <2>2. Held' /\ held' # None /\ table \subseteq table'
    BY <2>1, Prepared
  <2>3. toUpstream = << >> /\ posted = << >>
    BY <2>1 DEF Phase, Sent
  <2>4. Sent'
    BY <2>1, <2>2, <2>3, SentStays
  <2>5. Phase'
    BY <2>1, <2>2, <2>3 DEF Phase
  <2> QED
    BY <2>1, <2>2, <2>4, <2>5
<1>2. CASE ReadClient
  <2>1. /\ pc = "relaying" /\ pc' = pc /\ codex' = codex /\ held = None
        /\ read' = read + 1 /\ frames' = frames /\ Prepare(read + 1)
        /\ UNCHANGED <<toUpstream, posted, upstream>>
    BY <1>2 DEF ReadClient, fixed, delivered, upstreamVars
  <2>2. read + 1 \in Nat
    BY DEF Phase
  <2>3. Held' /\ held' # None /\ table \subseteq table'
    BY <2>1, <2>2, Prepared
  <2>4. Sent'
    BY <2>1, <2>3, SentStays DEF Sent
  <2>5. Phase'
    BY <2>1, <2>2, <2>3 DEF Phase
  <2> QED
    BY <2>1, <2>3, <2>4, <2>5
<1>3. CASE SendUp
  <2>1. /\ pc \in {"opening", "relaying"} /\ held # None
        /\ UNCHANGED <<codex, frames, read, table, posted, upstream>>
    BY <1>3 DEF SendUp, fixed, upstreamVars
  <2>2. PICK f \in Frame : held = <<f>> /\ IsFrame(f, read)
    BY <2>1 DEF Held
  <2>3. posted = << >>
    BY <2>1 DEF Sent
  <2>4. CASE UNCHANGED <<toUpstream, held>> /\ pc' = "closed"
    <3>1. Held' /\ Sent'
      BY <2>1, <2>3, <2>4, HeldStays, SentStays
    <3> QED
      BY <2>1, <2>4, <3>1 DEF Phase
  <2>5. CASE toUpstream' = toUpstream /\ upstream # "up" /\ held' = None /\ pc' = "relaying"
    <3>1. Held' /\ Sent'
      BY <2>1, <2>3, <2>5, SentStays DEF Held
    <3> QED
      BY <2>1, <2>5, <3>1 DEF Phase
  <2>6. CASE /\ upstream = "up" /\ toUpstream' = Append(toUpstream, f)
             /\ held' = None /\ pc' = "relaying"
    <3>1. toUpstream \in Seq(Frame) /\ read = Len(toUpstream) + 1
      BY <2>1, <2>6 DEF Phase, Sent
    <3>2. /\ toUpstream' \in Seq(Frame)
          /\ Len(toUpstream') = read
          /\ \A i \in DOMAIN toUpstream' :
               toUpstream'[i] = IF i = read THEN f ELSE toUpstream[i]
          /\ \A i \in DOMAIN toUpstream' : i # read => i \in DOMAIN toUpstream
      BY <2>6, <3>1
    <3>3. \A i \in DOMAIN toUpstream' : IsFrame(toUpstream'[i], i)
      BY <2>2, <3>2 DEF Sent
    <3>4. Sent'
      BY <2>1, <2>3, <3>2, <3>3 DEF Sent, IsFrame
    <3>5. Held'
      BY <2>6 DEF Held
    <3> QED
      BY <2>1, <2>6, <3>2, <3>4, <3>5 DEF Phase
  <2> QED
    BY <1>3, <2>1, <2>2, <2>4, <2>5, <2>6 DEF SendUp, End, fixed
<1>4. CASE Post
  <2>1. /\ pc = "posting" /\ pc' \in {"streaming", "closed"} /\ held # None
        /\ posted' = held /\ held' = None
        /\ read = 1 /\ toUpstream = << >>
        /\ UNCHANGED <<codex, frames, read, table, toUpstream>>
    BY <1>4 DEF Post, Phase, fixed, End
  <2>2. PICK f \in Frame : held = <<f>> /\ IsFrame(f, read)
    BY <2>1 DEF Held
  <2>3. posted' \in Seq(Frame) /\ \A i \in DOMAIN posted' : i = 1 /\ posted'[i] = f
    BY <2>1, <2>2
  <2>4. Sent'
    BY <2>1, <2>2, <2>3 DEF Sent, IsFrame
  <2> QED
    BY <2>1, <2>4 DEF Held, Phase
<1>5. CASE Connect
  <2>1. /\ pc = "connecting" /\ pc' = IF codex THEN "opening" ELSE "relaying"
        /\ UNCHANGED <<codex, frames, read, held, table, toUpstream, posted>>
    BY <1>5 DEF Connect, fixed, delivered
  <2>2. Held' /\ Sent'
    BY <2>1, HeldStays, SentStays DEF Sent
  <2> QED
    BY <2>1, <2>2 DEF Phase
<1>6. CASE ConnectFails
  <2>1. /\ pc = "connecting"
        /\ pc' = "closed" \/ (pc' = "posting" /\ held # None)
        /\ UNCHANGED <<codex, frames, read, held, table, toUpstream, posted>>
    BY <1>6 DEF ConnectFails, End, fixed, delivered
  <2>2. Held' /\ Sent'
    BY <2>1, HeldStays, SentStays DEF Sent
  <2> QED
    BY <2>1, <2>2 DEF Phase
<1>7. ASSUME UNCHANGED <<codex, frames, read, held, table, toUpstream, posted>>,
             pc' = pc \/ pc' = "closed",
             upstream' = upstream \/ upstream' = "gone"
      PROVE  FramesInv'
  <2>1. Held' /\ Sent'
    BY <1>7, HeldStays, SentStays DEF Sent
  <2> QED
    BY <1>7, <2>1 DEF Phase
<1>8. CASE Peers
  BY <1>7, <1>8 DEF Peers, ClientSends, ClientLeaves, UpstreamSends, UpstreamLeaves,
     fixed, delivered, upstreamVars, clientVars
<1>9. CASE NoFirstFrame \/ UpstreamPump \/ PumpEnds \/ Line \/ LinesEnd
  BY <1>7, <1>9 DEF NoFirstFrame, UpstreamPump, ReadUpstream, SendDown, PumpEnds, Line,
     LinesEnd, End, fixed, delivered, upstreamVars
<1>10. CASE UNCHANGED vars
  BY <1>7, <1>10 DEF vars, fixed, delivered, upstreamVars
<1> QED
  BY <1>1, <1>2, <1>3, <1>4, <1>5, <1>6, <1>8, <1>9, <1>10
     DEF Next, Opening, ClientPump, Fallback

(* What the upstream gets over the socket and over HTTP are the frames of  *)
(* the client in their order, none of them twice and none left out, and a  *)
(* rewritten one has its originals in the store.                           *)
THEOREM FramesInOrder == Spec => []UpstreamGetsFrames
<1>1. FramesInv => UpstreamGetsFrames
  <2> SUFFICES ASSUME FramesInv, NEW i \in DOMAIN Given
               PROVE  IsFrame(Given[i], i)
    BY DEF UpstreamGetsFrames, IsFrame
  <2>1. toUpstream \in Seq(Frame) /\ posted \in Seq(Frame)
    BY DEF FramesInv, Sent
  <2>2. CASE posted = << >>
    <3>1. Given = toUpstream
      BY <2>1, <2>2 DEF Given
    <3> QED
      BY <3>1 DEF FramesInv, Sent
  <2>3. CASE posted # << >>
    <3>1. Given = posted
      BY <2>1, <2>3 DEF Given, FramesInv, Sent
    <3> QED
      BY <3>1 DEF FramesInv, Sent
  <2> QED
    BY <2>2, <2>3
<1> QED
  BY <1>1, InitFrames, NextFrames, PTL DEF Spec

-----------------------------------------------------------------------------
(* The replies that are due to the client among the first n, and those     *)
(* that complete a response.                                               *)
Due(n) == {i \in 1..n : Payload(replies[i])}
Completed(n) == {i \in 1..n : replies[i] = "completed"}

(* The replies the client has, unless it was gone when they were sent on.  *)
Through == IF carried = None THEN heard ELSE heard - 1

Carried ==
  /\ heard \in Nat /\ replied \in Nat /\ heard <= replied
  /\ carried = None \/ (carried = <<heard>> /\ heard > 0)
  /\ pc \in {"waiting", "connecting", "opening", "posting"} =>
       heard = 0 /\ carried = None /\ toClient = << >>
  /\ pc \in {"posting", "streaming"} => codex
  /\ pc = "streaming" => carried = None
  /\ pc \notin {"streaming", "closed"} => \A i \in 1..replied : replies[i] # "noise"
Counting == codex => counted = Cardinality(Completed(heard))
Got ==
  /\ toClient \in Seq(Nat)
  /\ \A i \in DOMAIN toClient :
       toClient[i] \in Due(Through) /\ Cardinality(Due(toClient[i])) = i
  /\ pc # "closed" /\ client = "up" => Len(toClient) = Cardinality(Due(Through))
Ended ==
  endedBy = "upstream" =>
    /\ pc = "closed" /\ upstream = "gone"
    /\ client = "up" => Len(toClient) = Cardinality(Due(replied))
RepliesInv == Carried /\ Counting /\ Got /\ Ended

(* One reply more.                                                         *)
LEMMA DueGrows ==
  ASSUME NEW n \in Nat
  PROVE  /\ IsFiniteSet(Due(n)) /\ Cardinality(Due(n)) \in Nat
         /\ Payload(replies[n + 1]) => Cardinality(Due(n + 1)) = Cardinality(Due(n)) + 1
         /\ ~Payload(replies[n + 1]) => Due(n + 1) = Due(n)
         /\ Due(n) \subseteq Due(n + 1)
<1>1. IsFiniteSet(1..n)
  BY FS_Interval
<1>2. IsFiniteSet(Due(n)) /\ Cardinality(Due(n)) \in Nat
  BY <1>1, FS_Subset, FS_CardinalityType DEF Due
<1>3. Payload(replies[n + 1]) => Due(n + 1) = Due(n) \cup {n + 1}
  BY DEF Due
<1>4. n + 1 \notin Due(n)
  BY DEF Due
<1>5. ~Payload(replies[n + 1]) => Due(n + 1) = Due(n)
  BY DEF Due
<1>6. Payload(replies[n + 1]) => Cardinality(Due(n + 1)) = Cardinality(Due(n)) + 1
  BY <1>2, <1>3, <1>4, FS_AddElement
<1> QED BY <1>2, <1>3, <1>5, <1>6

LEMMA CompletedGrows ==
  ASSUME NEW n \in Nat
  PROVE  /\ IsFiniteSet(Completed(n)) /\ Cardinality(Completed(n)) \in Nat
         /\ Cardinality(Completed(n + 1)) =
              IF replies[n + 1] = "completed" THEN Cardinality(Completed(n)) + 1
              ELSE Cardinality(Completed(n))
<1>1. IsFiniteSet(1..n)
  BY FS_Interval
<1>2. IsFiniteSet(Completed(n)) /\ Cardinality(Completed(n)) \in Nat
  BY <1>1, FS_Subset, FS_CardinalityType DEF Completed
<1>3. replies[n + 1] = "completed" => Completed(n + 1) = Completed(n) \cup {n + 1}
  BY DEF Completed
<1>4. n + 1 \notin Completed(n)
  BY DEF Completed
<1>5. replies[n + 1] # "completed" => Completed(n + 1) = Completed(n)
  BY DEF Completed
<1> QED BY <1>2, <1>3, <1>4, <1>5, FS_AddElement

LEMMA NothingDue == Due(0) = {} /\ Completed(0) = {} /\ Cardinality({}) = 0
BY FS_EmptySet DEF Due, Completed

LEMMA InitReplies == Init => RepliesInv
<1> SUFFICES ASSUME Init PROVE RepliesInv
  OBVIOUS
<1>1. Carried /\ Ended /\ Through = 0
  BY DEF Init, Carried, Ended, Through, None
<1>2. heard = 0 /\ counted = 0 /\ toClient = << >>
  BY DEF Init
<1>3. Counting
  BY <1>2, NothingDue DEF Counting
<1>4. toClient \in Seq(Nat) /\ Len(toClient) = 0 /\ DOMAIN toClient = {}
  BY <1>2
<1>5. Got
  BY <1>1, <1>4, NothingDue DEF Got
<1> QED BY <1>1, <1>3, <1>5 DEF RepliesInv

(* The client gets the reply that is due next.                             *)
LEMMA GotNext ==
  ASSUME Got, UNCHANGED replies, NEW n \in Nat, Through = n, Through' = n + 1,
         Payload(replies[n + 1]), Len(toClient) = Cardinality(Due(n)),
         toClient' = Append(toClient, n + 1)
  PROVE  Got' /\ Len(toClient') = Cardinality(Due(n + 1))
<1>1. /\ \A m : Due(m)' = Due(m)
      /\ toClient \in Seq(Nat)
  BY DEF Due, Got
<1>2. Cardinality(Due(n + 1)) = Len(toClient) + 1
  BY DueGrows
<1>3. n + 1 \in Due(n + 1)
  BY DEF Due
<1>4. /\ toClient' \in Seq(Nat) /\ Len(toClient') = Len(toClient) + 1
      /\ \A i \in DOMAIN toClient' :
           \/ i \in DOMAIN toClient /\ toClient'[i] = toClient[i]
           \/ i = Len(toClient) + 1 /\ toClient'[i] = n + 1
  BY <1>1
<1>5. \A i \in DOMAIN toClient' :
        toClient'[i] \in Due(n + 1) /\ Cardinality(Due(toClient'[i])) = i
  BY <1>2, <1>3, <1>4, DueGrows DEF Got
<1> QED BY <1>1, <1>2, <1>4, <1>5 DEF Got

(* Nothing is sent to the client, which has what is due or is gone.        *)
LEMMA GotNothing ==
  ASSUME Got, UNCHANGED <<replies, toClient>>, NEW n \in Nat,
         Through = n, Through' \in {n, n + 1},
         pc' # "closed" /\ client' = "up" => /\ pc # "closed" /\ client = "up"
                                           /\ Due(Through') = Due(n)
  PROVE  Got'
<1>1. /\ \A m : Due(m)' = Due(m)
      /\ Due(n) \subseteq Due(Through')
  BY DueGrows DEF Due
<1> QED BY <1>1 DEF Got

LEMMA NextReplies == FramesInv /\ RepliesInv /\ [Next]_vars => RepliesInv'
<1> SUFFICES ASSUME FramesInv, RepliesInv, [Next]_vars PROVE RepliesInv'
  OBVIOUS
<1> USE DEF RepliesInv
<1>0. heard \in Nat /\ Through \in Nat /\ Through <= heard
  BY DEF Carried, Through
<1>1. CASE ReadUpstream
  <2>1. /\ pc = "relaying" /\ pc' = pc /\ carried = None /\ heard < replied
        /\ heard' = heard + 1 /\ carried' = <<heard + 1>>
        /\ counted' = IF codex /\ replies[heard + 1] = "completed" THEN counted + 1 ELSE counted
        /\ UNCHANGED <<codex, replies, replied, client, toClient, endedBy, upstream>>
    BY <1>1 DEF ReadUpstream, fixed, clientVars, upstreamVars, delivered
  <2>2. Through = heard /\ Through' = heard
    BY <2>1, <1>0 DEF Through, None
  <2>3. Carried'
    BY <2>1, <1>0 DEF Carried
  <2>4. Counting'
    BY <2>1, <1>0, CompletedGrows DEF Counting, Completed
  <2>5. Got'
    BY <2>1, <2>2, <1>0, GotNothing
  <2> QED BY <2>1, <2>3, <2>4, <2>5 DEF Ended
<1>2. CASE SendDown
  <2>1. /\ pc = "relaying" /\ carried = <<heard>> /\ heard > 0
        /\ UNCHANGED <<codex, replies, replied, client, heard, upstream, counted>>
    BY <1>2 DEF SendDown, Carried, fixed, clientVars, upstreamVars
  <2>2. Through = heard - 1 /\ heard - 1 \in Nat
    BY <2>1, <1>0 DEF Through, None
  <2>3. Payload(replies[heard])
    BY <2>1, <1>0 DEF Carried, Payload
  <2>4. endedBy # "upstream" /\ Counting'
    BY <2>1 DEF Ended, Counting, Completed
  <2>5. CASE client = "gone" /\ End("error") /\ UNCHANGED <<toClient, carried>>
    <3>1. Through' = Through
      BY <2>1, <2>5 DEF Through
    <3>2. Got'
      BY <2>1, <2>2, <2>5, <3>1, GotNothing DEF End
    <3> QED BY <2>1, <2>4, <2>5, <3>2 DEF End, Carried, Ended
  <2>6. CASE /\ toClient' = IF client = "up" THEN Append(toClient, heard) ELSE toClient
             /\ carried' = None /\ UNCHANGED <<pc, endedBy>>
    <3>1. Through' = heard
      BY <2>1, <2>6 DEF Through
    <3>2. CASE client = "up"
      <4>1. Len(toClient) = Cardinality(Due(heard - 1))
        BY <2>1, <2>2, <3>2 DEF Got
      <4>2. heard = (heard - 1) + 1
        BY <1>0
      <4>3. Got'
        BY <2>1, <2>2, <2>3, <2>6, <3>1, <3>2, <4>1, <4>2, GotNext
      <4> QED BY <2>1, <2>4, <2>6, <4>3 DEF Carried, Ended
    <3>3. CASE client # "up"
      <4>1. Through' \in {heard - 1, (heard - 1) + 1}
        BY <3>1, <1>0
      <4>2. Got'
        BY <2>1, <2>2, <2>6, <3>3, <4>1, GotNothing
      <4> QED BY <2>1, <2>4, <2>6, <3>3, <4>2 DEF Carried, Ended
    <3> QED BY <3>2, <3>3
  <2> QED BY <1>2, <2>1, <2>5, <2>6 DEF SendDown
<1>3. CASE Line
  <2> DEFINE k == replies[heard + 1]
  <2>1. /\ pc = "streaming" /\ carried = None /\ heard < replied /\ codex
        /\ heard' = heard + 1
        /\ counted' = IF k = "completed" THEN counted + 1 ELSE counted
        /\ UNCHANGED <<codex, replies, replied, client, carried, upstream>>
    BY <1>3 DEF Line, Carried, fixed, clientVars, upstreamVars
  <2>2. Through = heard /\ Through' = heard + 1
    BY <2>1 DEF Through
  <2>3. endedBy # "upstream"
    BY <2>1 DEF Ended
  <2>4. Counting'
    BY <2>1, <1>0, CompletedGrows DEF Counting, Completed
  <2>5. CASE client = "gone" /\ End("error") /\ UNCHANGED toClient
    <3>1. Got'
      BY <2>1, <2>2, <2>5, <1>0, GotNothing DEF End
    <3> QED BY <2>1, <2>3, <2>4, <2>5, <3>1, <1>0 DEF End, Carried, Ended
  <2>6. CASE /\ toClient' = IF Payload(k) /\ client = "up"
                            THEN Append(toClient, heard + 1) ELSE toClient
             /\ UNCHANGED <<pc, endedBy>>
    <3>1. CASE Payload(k) /\ client = "up"
      <4>1. Got'
        BY <2>1, <2>2, <2>6, <3>1, <1>0, GotNext DEF Got
      <4> QED BY <2>1, <2>3, <2>4, <2>6, <4>1, <1>0 DEF Carried, Ended
    <3>2. CASE ~(Payload(k) /\ client = "up")
      <4>1. ~Payload(k) => Due(heard + 1) = Due(heard)
        BY <1>0, DueGrows
      <4>2. Got'
        BY <2>1, <2>2, <2>6, <3>2, <4>1, <1>0, GotNothing
      <4> QED BY <2>1, <2>3, <2>4, <2>6, <4>2, <1>0 DEF Carried, Ended
    <3> QED BY <3>1, <3>2
  <2> QED BY <1>3, <2>5, <2>6 DEF Line
<1>4. ASSUME UNCHANGED <<codex, replies, heard, carried, toClient, counted>>,
             client' = client \/ client' = "gone",
             replied' = replied \/ replied' = replied + 1,
             replied' # replied => upstream # "gone",
             pc = "closed" => pc' = pc /\ (upstream' = upstream \/ upstream # "gone"), Carried',
             endedBy' = endedBy \/ (endedBy' # "upstream" /\ pc # "closed")
      PROVE  RepliesInv'
  <2>1. Through' = Through /\ Counting'
    BY <1>4 DEF Through, Counting, Completed
  <2>2. pc' # "closed" /\ client' = "up" => pc # "closed" /\ client = "up"
    BY <1>4
  <2>3. Got'
    BY <1>4, <2>1, <2>2, <1>0, GotNothing
  <2>4. Ended'
    BY <1>4 DEF Ended, Due
  <2> QED BY <1>4, <2>1, <2>3, <2>4
<1>5. CASE (PumpEnds \/ LinesEnd) /\ endedBy' = "upstream"
  <2>1. /\ pc \in {"relaying", "streaming"} /\ pc' = "closed"
        /\ upstream = "gone" /\ carried = None /\ heard = replied
        /\ UNCHANGED <<codex, replies, replied, client, heard, carried, upstream,
                       toClient, counted>>
    BY <1>5 DEF PumpEnds, LinesEnd, End, Carried, fixed, clientVars, upstreamVars, delivered
  <2>2. Through = heard /\ Through' = heard /\ Counting' /\ Carried'
    BY <2>1 DEF Through, Counting, Completed, Carried
  <2>3. Got'
    BY <2>1, <2>2, <1>0, GotNothing
  <2>4. client = "up" => Len(toClient) = Cardinality(Due(replied))
    BY <2>1, <2>2 DEF Got
  <2> QED BY <2>1, <2>2, <2>3, <2>4 DEF Ended, Due
<1>6. CASE (PumpEnds \/ LinesEnd) /\ endedBy' # "upstream"
  <2>1. /\ pc # "closed" /\ pc' = "closed"
        /\ UNCHANGED <<codex, replies, replied, client, heard, carried, upstream,
                       toClient, counted>>
    BY <1>6 DEF PumpEnds, LinesEnd, End, fixed, clientVars, upstreamVars, delivered
  <2>2. Carried'
    BY <2>1 DEF Carried
  <2> QED BY <1>6, <2>1, <2>2, <1>4
<1>7. CASE FirstFrame \/ NoFirstFrame \/ ReadClient \/ SendUp
  <2>1. /\ pc # "closed"
        /\ endedBy' = endedBy \/ endedBy' # "upstream"
        /\ UNCHANGED <<codex, replies, replied, client, heard, carried, upstream,
                       toClient, counted>>
    BY <1>7 DEF FirstFrame, NoFirstFrame, ReadClient, SendUp, End, fixed, clientVars,
       upstreamVars, delivered
  <2>2. Carried'
    BY <1>7, <2>1 DEF FirstFrame, NoFirstFrame, ReadClient, SendUp, End, Carried
  <2> QED BY <2>1, <2>2, <1>4
<1>8. CASE Connect \/ ConnectFails
  <2>1. /\ pc = "connecting"
        /\ endedBy' = endedBy \/ endedBy' # "upstream"
        /\ upstream' = upstream \/ upstream' = "up"
        /\ UNCHANGED <<codex, replies, replied, client, heard, carried, toClient, counted>>
    BY <1>8 DEF Connect, ConnectFails, End, fixed, clientVars, upstreamVars, delivered
  <2>2. Carried'
    BY <1>8, <2>1 DEF Connect, ConnectFails, End, Carried, FramesInv, Phase, None
  <2> QED BY <2>1, <2>2, <1>4
<1>9. CASE Post
  <2>1. /\ pc = "posting"
        /\ endedBy' = endedBy \/ endedBy' # "upstream"
        /\ pc' \in {"streaming", "closed"}
        /\ upstream' = upstream \/ upstream' = "up"
        /\ UNCHANGED <<codex, replies, replied, client, heard, carried, toClient, counted>>
    BY <1>9 DEF Post, End, fixed, clientVars, upstreamVars, delivered
  <2>2. Carried'
    BY <2>1 DEF Carried
  <2> QED BY <2>1, <2>2, <1>4
<1>10. CASE Peers
  <2>1. /\ UNCHANGED <<codex, replies, pc, heard, carried, toClient, counted, endedBy>>
        /\ client' = client \/ client' = "gone"
        /\ upstream' = upstream \/ upstream # "gone"
        /\ \/ replied' = replied
           \/ /\ replied' = replied + 1 /\ upstream # "gone"
              /\ replies[replied + 1] = "noise" => pc = "streaming"
    BY <1>10 DEF Peers, ClientSends, ClientLeaves, UpstreamSends, UpstreamLeaves,
       fixed, clientVars, upstreamVars, delivered
  <2>2. Carried'
    BY <2>1 DEF Carried
  <2> QED BY <2>1, <2>2, <1>4
<1>11. CASE UNCHANGED vars
  <2>1. Carried'
    BY <1>11 DEF Carried, vars, fixed, upstreamVars, delivered
  <2> QED BY <1>11, <2>1, <1>4 DEF vars, fixed, clientVars, upstreamVars, delivered
<1> QED
  BY <1>1, <1>2, <1>3, <1>5, <1>6, <1>7, <1>8, <1>9, <1>10, <1>11
     DEF Next, Opening, ClientPump, UpstreamPump, Fallback

LEMMA SpecRepliesInv == Spec => []RepliesInv
<1>1. Spec => []FramesInv
  BY InitFrames, NextFrames, PTL DEF Spec
<1> QED
  BY <1>1, InitReplies, NextReplies, PTL DEF Spec

(* The client gets the frames of the upstream, or the data lines of its    *)
(* HTTP response, in order, and all of them if it is the upstream's end    *)
(* that ends the connection, however the pumps race.                       *)
THEOREM RepliesInOrder == Spec => []ClientGetsReplies
<1>1. RepliesInv => ClientGetsReplies
  <2> SUFFICES ASSUME RepliesInv PROVE ClientGetsReplies
    OBVIOUS
  <2>1. Due(Through) \subseteq Due(heard)
    BY DEF RepliesInv, Carried, Through, Due
  <2> QED BY <2>1 DEF RepliesInv, Got, Ended, ClientGetsReplies, Due
<1> QED BY <1>1, SpecRepliesInv, PTL

(* A response the client saw completed is counted, and none is counted     *)
(* twice, over the socket as over HTTP.                                    *)
THEOREM CompletionsCounted == Spec => []CountedAsSeen
<1>1. RepliesInv => CountedAsSeen
  <2> SUFFICES ASSUME RepliesInv, codex PROVE CountedAsSeen
    BY DEF CountedAsSeen
  <2> DEFINE seen == {i \in {toClient[j] : j \in DOMAIN toClient} : replies[i] = "completed"}
  <2>1. heard \in Nat /\ counted = Cardinality(Completed(heard))
    BY DEF RepliesInv, Carried, Counting
  <2>2. seen \subseteq Completed(heard)
    <3>1. Due(Through) \subseteq Due(heard)
      BY DEF RepliesInv, Carried, Through, Due
    <3>2. \A j \in DOMAIN toClient : toClient[j] \in 1..heard
      BY <3>1 DEF RepliesInv, Got, Due
    <3> QED BY <3>2 DEF Completed
  <2>3. IsFiniteSet(Completed(heard)) /\ Cardinality(Completed(heard)) \in Nat
    BY <2>1, CompletedGrows
  <2>4. Cardinality(seen) <= Cardinality(Completed(heard))
    BY <2>2, <2>3, FS_Subset
  <2>5. {i \in 1..heard : replies[i] = "completed"} = Completed(heard)
    BY DEF Completed
  <2> QED BY <2>1, <2>3, <2>4, <2>5 DEF CountedAsSeen
<1> QED BY <1>1, SpecRepliesInv, PTL

=============================================================================
