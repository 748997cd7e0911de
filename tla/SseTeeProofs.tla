---------------------------- MODULE SseTeeProofs ----------------------------
(***************************************************************************)
(* For every stream, cut into chunks of any size up to the bound, and any  *)
(* depth of the queue: the client gets the bytes of the upstream, and the  *)
(* usage of a response is counted at most once.                            *)
(***************************************************************************)
EXTENDS SseTee, SequenceTheorems, FiniteSetTheorems, TLAPS

Piece == [event : Nat, last : BOOLEAN]

LEMMA BytesArePieces ==
  ASSUME stream \in Stream
  PROVE  Bytes \in Seq(Piece)
<1>1. Len(stream.events) \in Nat
  BY SseTeeAssumption
<1>2. Bytes = [i \in 1..2 * Len(stream.events) |->
                 [event |-> (i + 1) \div 2, last |-> i % 2 = 0]]
  BY DEF Bytes, Pieces
<1>3. \A i \in 1..2 * Len(stream.events) : (i + 1) \div 2 \in Nat
  BY <1>1, SMT
<1>4. \A i \in 1..2 * Len(stream.events) : Bytes[i] \in Piece
  BY <1>2, <1>3 DEF Piece
<1>5. 2 * Len(stream.events) \in Nat
  BY <1>1
<1>6. Bytes \in [1..2 * Len(stream.events) -> Piece]
  BY <1>2, <1>4
<1> HIDE DEF Bytes
<1> QED
  BY <1>5, <1>6, SeqDef

(***************************************************************************)
(* The byte path.  What the client has is what was taken from the upstream *)
(* so far: nothing in the invariant speaks of the queue or of the parser.  *)
(***************************************************************************)
BytePath ==
  /\ stream \in Stream
  /\ taken \in 0..Len(Bytes)
  /\ received = SubSeq(Bytes, 1, taken)
  /\ body \in {"open", "complete", "broken", "hungup"}
  /\ body = "complete" => taken = Len(Bytes)

LEMMA InitBytePath == Init => BytePath
<1> SUFFICES ASSUME Init PROVE BytePath
  OBVIOUS
<1>1. Bytes \in Seq(Piece)
  BY BytesArePieces DEF Init
<1>2. SubSeq(Bytes, 1, 0) = << >>
  BY SubSeqEmpty
<1> QED
  BY <1>1, <1>2 DEF Init, BytePath

LEMMA RelayBytePath ==
  ASSUME BytePath, NEW n \in 1..MaxChunk, Relay(n)
  PROVE  BytePath' /\ received' = SubSeq(Bytes, 1, taken + n) /\ taken + n \in 0..Len(Bytes)
<1>1. Bytes \in Seq(Piece) /\ Bytes' = Bytes
  BY BytesArePieces DEF BytePath, Relay, Bytes
<1>2. taken \in 0..Len(Bytes) /\ taken + n \in taken..Len(Bytes) /\ taken' = taken + n
  BY <1>1, SseTeeAssumption DEF BytePath, Relay
<1>3. received' = SubSeq(Bytes, 1, taken) \o SubSeq(Bytes, taken + 1, taken + n)
  BY DEF Relay, BytePath
<1>4. received' = SubSeq(Bytes, 1, taken + n)
  <2>1. 1 \in 1..Len(Bytes) + 1 /\ taken \in 1 - 1..Len(Bytes)
    BY <1>1, <1>2
  <2> QED
    BY <1>1, <1>2, <1>3, <2>1, ConcatAdjacentSubSeq
<1> QED
  BY <1>1, <1>2, <1>4 DEF BytePath, Relay

LEMMA NextBytePath == BytePath /\ [Next]_vars => BytePath'
<1> SUFFICES ASSUME BytePath, [Next]_vars PROVE BytePath'
  OBVIOUS
<1>1. CASE Deliver
  BY <1>1, RelayBytePath DEF Deliver
<1>2. CASE Complete
  BY <1>2 DEF Complete, Bodiless, BytePath, Bytes
<1>3. CASE Cut
  BY <1>3 DEF Cut, Bodiless, BytePath, Bytes
<1>4. CASE UNCHANGED clientVars
  BY <1>4 DEF clientVars, BytePath, Bytes
<1>5. ParserStep => UNCHANGED clientVars
  BY DEF ParserStep, Receive, Frame, Finish
<1> QED
  BY <1>1, <1>2, <1>3, <1>4, <1>5 DEF Next, vars

(* The client gets the bytes of the upstream, in order and without a gap,  *)
(* whatever the queue drops and the parser does: the proxy implements the  *)
(* relay of ByteRelay.                                                     *)
THEOREM TeeIsTransparent == Spec => RelaySpec
<1>1. Init => Promise!Init
  BY DEF Init, Promise!Init
<1>2. BytePath /\ [Next]_vars => [Promise!Next]_(Promise!vars)
  <2> SUFFICES ASSUME BytePath, [Next]_vars
               PROVE  Promise!Next \/ UNCHANGED Promise!vars
    OBVIOUS
  <2>0. Bytes \in Seq(Piece)
    BY BytesArePieces DEF BytePath
  <2>1. ASSUME NEW n \in 1..MaxChunk, Relay(n)
        PROVE  Promise!Next
    <3>1. /\ received' = SubSeq(Bytes, 1, taken + n)
          /\ taken + n \in 0..Len(Bytes)
      BY <2>1, RelayBytePath
    <3>2. Len(received) = taken
      BY <2>0, SubSeqProperties DEF BytePath
    <3>3. taken + n \in Len(received) + 1 .. Len(Bytes)
      BY <3>1, <3>2, SseTeeAssumption DEF BytePath
    <3>4. Bytes' = Bytes /\ body = "open" /\ body' = "open"
      BY <2>1 DEF Relay, Bytes
    <3>5. Promise!Deliver
      BY <3>1, <3>3, <3>4 DEF Promise!Deliver
    <3> QED
      BY <3>5 DEF Promise!Next
  <2>2. CASE Complete
    <3>1. received = Bytes
      BY <2>0, <2>2, SubSeqFull DEF Complete, BytePath
    <3>2. Promise!Complete
      BY <2>2, <3>1 DEF Complete, Bodiless, Promise!Complete, Bytes
    <3> QED
      BY <3>2 DEF Promise!Next
  <2>3. CASE Cut
    <3>1. Promise!Cut
      BY <2>3 DEF Cut, Bodiless, Promise!Cut, Bytes
    <3> QED
      BY <3>1 DEF Promise!Next
  <2>4. CASE UNCHANGED clientVars
    BY <2>4 DEF clientVars, Promise!vars, Bytes
  <2>5. ParserStep => UNCHANGED clientVars
    BY DEF ParserStep, Receive, Frame, Finish
  <2> QED
    BY <2>1, <2>2, <2>3, <2>4, <2>5 DEF Next, Deliver, vars
<1> QED
  BY <1>1, <1>2, InitBytePath, NextBytePath, PTL DEF Spec, RelaySpec, Promise!Spec

(***************************************************************************)
(* The counts.  Until emit_final has run nothing is counted, and until     *)
(* finish has run no status is.                                            *)
(***************************************************************************)
CountsInv ==
  /\ CountedOnce
  /\ emitted = FALSE => recorded = << >> /\ fed = << >>
  /\ parser = "running" => statuses = << >>

LEMMA EmitCounts ==
  ASSUME CountsInv, NEW u, Emit(u), UNCHANGED <<stream, parser, statuses>>
  PROVE  CountsInv'
<1>1. CASE emitted \/ u = Zero
  BY <1>1 DEF Emit, CountsInv, CountedOnce
<1>2. CASE ~(emitted \/ u = Zero)
  <2>1. /\ recorded' = <<u>>
        /\ fed' = << >> \/ fed' = <<Feed(stream.kind, u, chars)>>
        /\ emitted'
    BY <1>2 DEF Emit, CountsInv, CountedOnce
  <2>2. \A i \in DOMAIN fed' :
          fed'[i].read = recorded'[i].read
          /\ fed'[i].write = CacheWrite(stream.kind, recorded'[i])
    BY <2>1 DEF Feed
  <2> QED
    BY <2>1, <2>2 DEF CountsInv, CountedOnce
<1> QED
  BY <1>1, <1>2

LEMMA NextCounts == CountsInv /\ [Next]_vars => CountsInv'
<1> SUFFICES ASSUME CountsInv, [Next]_vars PROVE CountsInv'
  OBVIOUS
<1>1. CASE Frame
  <2>1. UNCHANGED <<stream, parser, statuses>>
    BY <1>1 DEF Frame, clientVars
  <2>2. PICK e \in Readings(Block) : IF e = NoEvent THEN UNCHANGED usageVars ELSE Apply(e)
    BY <1>1 DEF Frame
  <2>3. CASE UNCHANGED <<emitted, recorded, fed>>
    BY <2>1, <2>3 DEF CountsInv, CountedOnce
  <2>4. CASE Emit(usage')
    BY <2>1, <2>4, EmitCounts
  <2> QED
    BY <2>2, <2>3, <2>4 DEF Apply, usageVars
<1>2. CASE Finish
  <2>1. statuses' = << >> \/ statuses' = <<lastStatus>>
    BY <1>2 DEF Finish, CountsInv
  <2>2. parser' = "finished" /\ UNCHANGED <<stream, emitted, recorded, fed>>
    BY <1>2 DEF Finish, clientVars, usageVars
  <2>3. Len(statuses') <= 1
    <3>1. Len(<< >>) <= 1 /\ Len(<<lastStatus>>) <= 1
      OBVIOUS
    <3> QED
      BY <2>1, <3>1, Zenon
  <2>4. CountedOnce'
    BY <2>2, <2>3 DEF CountsInv, CountedOnce
  <2> QED
    BY <2>2, <2>4, Zenon DEF CountsInv
<1>3. CASE UNCHANGED <<stream, parser, usageVars, statuses>>
  BY <1>3 DEF CountsInv, CountedOnce, usageVars
<1>4. Deliver \/ Complete \/ Cut \/ Receive => UNCHANGED <<stream, parser, usageVars, statuses>>
  BY DEF Deliver, Relay, Complete, Cut, Bodiless, Receive, clientVars
<1> QED
  BY <1>1, <1>2, <1>3, <1>4 DEF Next, ParserStep, vars, clientVars

(* A response is counted and told to the tracker at most once, and the     *)
(* tracker hears what was counted, for every way chunks are dropped and    *)
(* whatever a block put together from pieces is read as.                   *)
THEOREM UsageCountedOnce == Spec => []CountedOnce
<1>1. Init => CountsInv
  BY DEF Init, CountsInv, CountedOnce
<1>2. CountsInv => CountedOnce
  BY DEF CountsInv
<1> QED
  BY <1>1, <1>2, NextCounts, PTL DEF Spec

(***************************************************************************)
(* The telemetry of a stream of which nothing was dropped.  What the first *)
(* n events of a stream s amount to, whatever the parser made of them.     *)
(***************************************************************************)
ClosingBy(s, n) == {i \in 1..n : Emits(s.kind, s.events[i])}
HeardBy(s, n) == {i \in 1..n : \A j \in ClosingBy(s, n) : i <= j}
ReportingBy(s, n) == {i \in HeardBy(s, n) : Absorbs(s.kind, s.events[i])}
CountsBy(s, n, f) == {0} \cup {s.events[i].usage[f] : i \in ReportingBy(s, n)}
TextsBy(s, n) == {i \in HeardBy(s, n) : s.events[i].name = "text"}
CallsBy(s, n) == {i \in 1..n : s.events[i].name = "call"}
StatusesBy(s, n) == {i \in 1..n : s.kind = "responses" /\ s.events[i].name \in Terminal}

IsLargest(x, S) == x \in S /\ \A y \in S : y <= x
SumsUp(s, n, u) == u \in Counts /\ \A f \in DOMAIN Zero : IsLargest(u[f], CountsBy(s, n, f))

(* The state machine after the first n events of the stream s.             *)
Learned(s, n) ==
  /\ calls = Cardinality(CallsBy(s, n))
  /\ \/ lastStatus = NoStatus /\ StatusesBy(s, n) = {}
     \/ \E i \in StatusesBy(s, n) :
          IsLargest(i, StatusesBy(s, n)) /\ lastStatus = s.events[i].name
  /\ usage \in Counts
  /\ \/ /\ emitted = FALSE /\ ClosingBy(s, n) = {}
        /\ SumsUp(s, n, usage)
        /\ s.kind = "anthropic" => chars = Cardinality(TextsBy(s, n))
        /\ recorded = << >> /\ fed = << >>
     \/ /\ emitted = TRUE /\ ClosingBy(s, n) # {}
        /\ \E u \in Counts :
             /\ SumsUp(s, n, u)
             /\ recorded = IF u = Zero THEN << >> ELSE <<u>>
             /\ fed = IF session /\ u # Zero
                      THEN <<Feed(s.kind, u, Cardinality(TextsBy(s, n)))>> ELSE << >>

(* The parser has framed the first n events.  What the framer and, chunk   *)
(* by chunk, the queue hold are the bytes that follow, up to what was      *)
(* taken; at tells where each chunk ends.                                  *)
Framed(n, at) ==
  /\ n \in 0..Len(stream.events)
  /\ at \in [0..Len(queue) -> 0..taken]
  /\ at[Len(queue)] = taken
  /\ buf \in Seq(Piece) /\ 2 * n + Len(buf) = at[0]
  /\ \A i \in 1..Len(buf) : buf[i] = Bytes[2 * n + i]
  /\ queue \in Seq(Seq(Piece))
  /\ \A i \in 1..Len(queue) :
       /\ at[i - 1] + Len(queue[i]) = at[i]
       /\ \A j \in 1..Len(queue[i]) : queue[i][j] = Bytes[at[i - 1] + j]

ParserInv ==
  /\ parser \in {"running", "finished"}
  /\ parser = "running" => statuses = << >>
  /\ parser = "finished" =>
       /\ body # "open" /\ queue = << >> /\ Ends = {}
       /\ statuses = IF lastStatus # NoStatus THEN <<lastStatus>> ELSE << >>
ExactInv ==
  /\ dropped \in BOOLEAN
  /\ dropped = FALSE => \E s, n, at : s = stream /\ Framed(n, at) /\ Learned(s, n)
TeeInv == BytePath /\ ParserInv /\ ExactInv

-----------------------------------------------------------------------------
LEMMA StreamIs ==
  ASSUME NEW s \in Stream
  PROVE  /\ s.kind \in Kind /\ Len(s.events) \in Nat
         /\ \A i \in 1..Len(s.events) :
              s.events[i].name \in Name(s.kind) /\ s.events[i].usage \in Counts \cup {NoUsage}
<1>1. PICK k \in Kind : s \in [kind : {k}, events : Seq(Event(k))]
  BY SseTeeAssumption
<1>2. s.kind = k /\ s.events \in Seq(Event(k))
  BY <1>1
<1>3. \A i \in 1..Len(s.events) : s.events[i] \in Event(k)
  BY <1>2
<1> QED BY <1>2, <1>3 DEF Event

(* Counts are functions on the four fields.                                *)
LEMMA CountsAre ==
  /\ Zero \in Counts
  /\ \A u \in Counts : DOMAIN u = DOMAIN Zero /\ \A f \in DOMAIN Zero : u[f] \in Nat
  /\ \A u : u = [f \in DOMAIN Zero |-> u[f]] /\ (\A f \in DOMAIN Zero : u[f] \in Nat) => u \in Counts
  /\ \A u \in Counts : u = [f \in DOMAIN Zero |-> u[f]]
<1>1. Zero \in Counts
  BY DEF Zero, Counts
<1>2. DOMAIN Zero = {"input", "output", "read", "create"}
  BY DEF Zero
<1>3. ASSUME NEW u \in Counts
      PROVE  /\ DOMAIN u = DOMAIN Zero /\ \A f \in DOMAIN Zero : u[f] \in Nat
             /\ u = [f \in DOMAIN Zero |-> u[f]]
  BY <1>2 DEF Counts
<1>4. ASSUME NEW u, u = [f \in DOMAIN Zero |-> u[f]], \A f \in DOMAIN Zero : u[f] \in Nat
      PROVE  u \in Counts
  BY <1>2, <1>4 DEF Counts
<1> QED BY <1>1, <1>3, <1>4

LEMMA OneMore ==
  ASSUME NEW n \in Nat
  PROVE  /\ n + 1 \in Nat /\ 1..(n + 1) = (1..n) \cup {n + 1} /\ n + 1 \notin 1..n
         /\ IsFiniteSet(1..n) /\ \A i \in 1..n : i \in Nat /\ i <= n
<1>1. n + 1 \in Nat /\ n + 1 \notin 1..n /\ \A i \in 1..n : i \in Nat /\ i <= n
  OBVIOUS
<1>2. 1..(n + 1) = (1..n) \cup {n + 1}
  OBVIOUS
<1>3. IsFiniteSet(1..n)
  BY FS_Interval
<1> QED BY <1>1, <1>2, <1>3

LEMMA ClosingGrows ==
  ASSUME NEW s, NEW n \in Nat
  PROVE  ClosingBy(s, n + 1) =
           IF Emits(s.kind, s.events[n + 1]) THEN ClosingBy(s, n) \cup {n + 1} ELSE ClosingBy(s, n)
BY OneMore DEF ClosingBy

(* Up to the event that ends the message everything is heard; then nothing.*)
LEMMA HeardGrows ==
  ASSUME NEW s, NEW n \in Nat
  PROVE  /\ ClosingBy(s, n) = {} => HeardBy(s, n) = 1..n /\ HeardBy(s, n + 1) = 1..(n + 1)
         /\ ClosingBy(s, n) # {} => HeardBy(s, n + 1) = HeardBy(s, n)
<1>1. CASE ClosingBy(s, n) = {}
  <2>1. \A j \in ClosingBy(s, n + 1) : j = n + 1
    BY <1>1, ClosingGrows
  <2> QED BY <1>1, <2>1, OneMore DEF HeardBy
<1>2. CASE ClosingBy(s, n) # {}
  <2>1. PICK j : j \in ClosingBy(s, n)
    BY <1>2
  <2>2. j \in 1..n /\ j \in ClosingBy(s, n + 1) /\ ~(n + 1 <= j)
    BY <2>1, ClosingGrows, OneMore DEF ClosingBy
  <2>3. ASSUME NEW i \in 1..n
        PROVE  (\A m \in ClosingBy(s, n + 1) : i <= m) <=> (\A m \in ClosingBy(s, n) : i <= m)
    <3>1. i <= n + 1
      OBVIOUS
    <3> QED BY <3>1, ClosingGrows
  <2>4. \A i \in 1..(n + 1) : i \in HeardBy(s, n + 1) <=> i \in HeardBy(s, n)
    <3>1. n + 1 \notin HeardBy(s, n + 1) /\ n + 1 \notin HeardBy(s, n)
      BY <2>2, OneMore DEF HeardBy
    <3>2. \A i \in 1..n : i \in HeardBy(s, n + 1) <=> i \in HeardBy(s, n)
      BY <2>3, OneMore DEF HeardBy
    <3> QED BY <3>1, <3>2, OneMore
  <2>5. HeardBy(s, n + 1) \subseteq 1..(n + 1) /\ HeardBy(s, n) \subseteq 1..(n + 1)
    BY OneMore DEF HeardBy
  <2>6. HeardBy(s, n + 1) = HeardBy(s, n)
    BY <2>4, <2>5
  <2> QED BY <1>2, <2>6
<1> QED BY <1>1, <1>2

LEMMA LargestGrows ==
  ASSUME NEW x, NEW S, S \subseteq Nat, IsLargest(x, S), NEW y \in Nat
  PROVE  IsLargest(Larger(x, y), S \cup {y})
BY DEF IsLargest, Larger

LEMMA OneLargest ==
  ASSUME NEW x, NEW S, S \subseteq Nat, IsLargest(x, S)
  PROVE  Largest(S) = x
<1>1. x \in S /\ \A m \in S : m <= x
  BY DEF IsLargest
<1>2. Largest(S) \in S /\ \A m \in S : m <= Largest(S)
  BY <1>1 DEF Largest
<1>3. Largest(S) <= x /\ x <= Largest(S) /\ x \in Nat /\ Largest(S) \in Nat
  BY <1>1, <1>2
<1>4. \A a, b \in Nat : a <= b /\ b <= a => a = b
  OBVIOUS
<1> QED BY <1>3, <1>4, Zenon

LEMMA CountsAreNumbers ==
  ASSUME NEW s \in Stream, NEW n \in 0..Len(s.events), NEW f \in DOMAIN Zero
  PROVE  CountsBy(s, n, f) \subseteq Nat
<1>1. \A i \in ReportingBy(s, n) : i \in 1..Len(s.events) /\ s.events[i].usage # NoUsage
  BY StreamIs DEF ReportingBy, HeardBy, Absorbs
<1>2. \A i \in ReportingBy(s, n) : s.events[i].usage \in Counts
  BY <1>1, StreamIs
<1>3. \A i \in ReportingBy(s, n) : s.events[i].usage[f] \in Nat
  BY <1>2, CountsAre
<1> QED BY <1>3 DEF CountsBy

(* absorb_usage keeps the largest of each count up to the end of a message.*)
LEMMA SumGrows ==
  ASSUME NEW s \in Stream, NEW n \in Nat, n < Len(s.events), ClosingBy(s, n) = {},
         NEW u, SumsUp(s, n, u)
  PROVE  /\ Absorbs(s.kind, s.events[n + 1]) =>
              SumsUp(s, n + 1, Absorbed(u, s.events[n + 1].usage))
         /\ ~Absorbs(s.kind, s.events[n + 1]) => SumsUp(s, n + 1, u)
<1>0. Len(s.events) \in Nat /\ n \in 0..Len(s.events) /\ n + 1 \in 1..Len(s.events)
  BY StreamIs
<1>1. HeardBy(s, n) = 1..n /\ HeardBy(s, n + 1) = 1..(n + 1)
  BY HeardGrows
<1>2. ReportingBy(s, n + 1) = IF Absorbs(s.kind, s.events[n + 1])
                              THEN ReportingBy(s, n) \cup {n + 1} ELSE ReportingBy(s, n)
  BY <1>1, OneMore DEF ReportingBy
<1>3. u \in Counts /\ \A f \in DOMAIN Zero : IsLargest(u[f], CountsBy(s, n, f))
  BY DEF SumsUp
<1>4. CASE Absorbs(s.kind, s.events[n + 1])
  <2>1. PICK e : e = s.events[n + 1].usage
    OBVIOUS
  <2>2. e \in Counts
    BY <1>0, <1>4, <2>1, StreamIs DEF Absorbs
  <2>3. PICK v : v = Absorbed(u, e)
    OBVIOUS
  <2>4. v = [f \in DOMAIN Zero |-> Larger(u[f], e[f])]
    BY <1>3, <2>3, CountsAre DEF Absorbed
  <2>5. \A f \in DOMAIN Zero : v[f] = Larger(u[f], e[f]) /\ e[f] \in Nat /\ u[f] \in Nat
    BY <1>3, <2>2, <2>4, CountsAre
  <2>6. v \in Counts
    <3>1. \A f \in DOMAIN Zero : v[f] \in Nat
      BY <2>5 DEF Larger
    <3>2. v = [f \in DOMAIN Zero |-> v[f]]
      BY <2>4
    <3> QED BY <3>1, <3>2, CountsAre
  <2>7. ASSUME NEW f \in DOMAIN Zero
        PROVE  IsLargest(v[f], CountsBy(s, n + 1, f))
    <3>1. CountsBy(s, n + 1, f) = CountsBy(s, n, f) \cup {e[f]}
      BY <1>2, <1>4, <2>1 DEF CountsBy
    <3>2. IsLargest(Larger(u[f], e[f]), CountsBy(s, n, f) \cup {e[f]})
      BY <1>0, <1>3, <2>5, CountsAreNumbers, LargestGrows
    <3> QED BY <2>5, <3>1, <3>2, Zenon
  <2>8. SumsUp(s, n + 1, v)
    BY <2>6, <2>7 DEF SumsUp
  <2> QED BY <1>4, <2>1, <2>3, <2>8
<1>5. CASE ~Absorbs(s.kind, s.events[n + 1])
  <2>1. \A f : CountsBy(s, n + 1, f) = CountsBy(s, n, f)
    BY <1>2, <1>5 DEF CountsBy
  <2>2. SumsUp(s, n + 1, u)
    BY <1>3, <2>1, Zenon DEF SumsUp
  <2> QED BY <1>5, <2>2
<1> QED BY <1>4, <1>5

(* What does not change once the message has ended.                        *)
LEMMA SumStays ==
  ASSUME NEW s \in Stream, NEW n \in Nat, ClosingBy(s, n) # {}
  PROVE  /\ ClosingBy(s, n + 1) # {} /\ TextsBy(s, n + 1) = TextsBy(s, n)
         /\ \A u : SumsUp(s, n, u) => SumsUp(s, n + 1, u)
<1>1. HeardBy(s, n + 1) = HeardBy(s, n)
  BY HeardGrows
<1>2. TextsBy(s, n + 1) = TextsBy(s, n) /\ ReportingBy(s, n + 1) = ReportingBy(s, n)
  BY <1>1 DEF TextsBy, ReportingBy
<1>3. \A f : CountsBy(s, n + 1, f) = CountsBy(s, n, f)
  BY <1>2 DEF CountsBy
<1>4. ClosingBy(s, n + 1) # {}
  BY ClosingGrows
<1> QED BY <1>2, <1>3, <1>4, Zenon DEF SumsUp

LEMMA CountGrows ==
  ASSUME NEW n \in Nat, NEW S, S \subseteq 1..n
  PROVE  /\ IsFiniteSet(S) /\ Cardinality(S) \in Nat
         /\ Cardinality(S \cup {n + 1}) = Cardinality(S) + 1
<1>1. IsFiniteSet(S)
  BY OneMore, FS_Subset
<1>2. n + 1 \notin S
  BY OneMore
<1> QED BY <1>1, <1>2, FS_AddElement, FS_CardinalityType

LEMMA TextsGrow ==
  ASSUME NEW s, NEW n \in Nat, ClosingBy(s, n) = {}
  PROVE  Cardinality(TextsBy(s, n + 1)) =
           IF s.events[n + 1].name = "text" THEN Cardinality(TextsBy(s, n)) + 1
           ELSE Cardinality(TextsBy(s, n))
<1>1. HeardBy(s, n) = 1..n /\ HeardBy(s, n + 1) = 1..(n + 1)
  BY HeardGrows
<1>2. TextsBy(s, n + 1) = IF s.events[n + 1].name = "text"
                          THEN TextsBy(s, n) \cup {n + 1} ELSE TextsBy(s, n)
  BY <1>1, OneMore DEF TextsBy
<1>3. TextsBy(s, n) \subseteq 1..n
  BY <1>1 DEF TextsBy
<1>4. Cardinality(TextsBy(s, n) \cup {n + 1}) = Cardinality(TextsBy(s, n)) + 1
  BY <1>3, CountGrows
<1> QED BY <1>2, <1>4, Zenon

LEMMA CallsGrow ==
  ASSUME NEW s, NEW n \in Nat
  PROVE  Cardinality(CallsBy(s, n + 1)) =
           IF s.events[n + 1].name = "call" THEN Cardinality(CallsBy(s, n)) + 1
           ELSE Cardinality(CallsBy(s, n))
<1>1. CallsBy(s, n + 1) = IF s.events[n + 1].name = "call"
                          THEN CallsBy(s, n) \cup {n + 1} ELSE CallsBy(s, n)
  BY OneMore DEF CallsBy
<1>2. CallsBy(s, n) \subseteq 1..n
  BY DEF CallsBy
<1>3. Cardinality(CallsBy(s, n) \cup {n + 1}) = Cardinality(CallsBy(s, n)) + 1
  BY <1>2, CountGrows
<1> QED BY <1>1, <1>3, Zenon

LEMMA StatusGrows ==
  ASSUME NEW s \in Stream, NEW n \in Nat, n < Len(s.events), NEW st,
         \/ st = NoStatus /\ StatusesBy(s, n) = {}
         \/ \E i \in StatusesBy(s, n) : IsLargest(i, StatusesBy(s, n)) /\ st = s.events[i].name,
         NEW e, e = s.events[n + 1],
         NEW new, new = IF s.kind = "responses" /\ e.name \in Terminal THEN e.name ELSE st
  PROVE  \/ new = NoStatus /\ StatusesBy(s, n + 1) = {}
         \/ \E i \in StatusesBy(s, n + 1) :
              IsLargest(i, StatusesBy(s, n + 1)) /\ new = s.events[i].name
<1>1. CASE s.kind = "responses" /\ e.name \in Terminal
  <2>1. n + 1 \in StatusesBy(s, n + 1) /\ \A i \in StatusesBy(s, n + 1) : i <= n + 1
    BY <1>1, OneMore DEF StatusesBy
  <2> QED BY <1>1, <2>1 DEF IsLargest
<1>2. CASE ~(s.kind = "responses" /\ e.name \in Terminal)
  <2>1. StatusesBy(s, n + 1) = StatusesBy(s, n) /\ new = st
    BY <1>2, OneMore DEF StatusesBy
  <2> QED BY <2>1, Zenon
<1> QED BY <1>1, <1>2

(* One event more: what the state machine makes of it.                     *)
LEMMA Learns ==
  ASSUME NEW s \in Stream, s = stream, NEW n \in Nat, n < Len(s.events), Learned(s, n),
         UNCHANGED session, NEW e, e = s.events[n + 1], Apply(e)
  PROVE  Learned(s, n + 1)'
<1>0. n + 1 \in 1..Len(s.events) /\ e.name \in Name(s.kind) /\ e.usage \in Counts \cup {NoUsage}
      /\ s.kind \in Kind
  BY StreamIs
<1>1. calls' = Cardinality(CallsBy(s, n + 1))
  BY CallsGrow DEF Apply, Learned
<1>2. \/ lastStatus' = NoStatus /\ StatusesBy(s, n + 1) = {}
      \/ \E i \in StatusesBy(s, n + 1) :
           IsLargest(i, StatusesBy(s, n + 1)) /\ lastStatus' = s.events[i].name
  <2>1. lastStatus' = IF s.kind = "responses" /\ e.name \in Terminal THEN e.name ELSE lastStatus
    BY DEF Apply
  <2>2. \/ lastStatus = NoStatus /\ StatusesBy(s, n) = {}
        \/ \E i \in StatusesBy(s, n) :
             IsLargest(i, StatusesBy(s, n)) /\ lastStatus = s.events[i].name
    BY DEF Learned
  <2>3. PICK new : new = lastStatus'
    OBVIOUS
  <2>4. PICK old : old = lastStatus
    OBVIOUS
  <2> QED BY <2>1, <2>2, <2>3, <2>4, StatusGrows
<1>3. /\ usage' = IF Absorbs(s.kind, e) THEN Absorbed(usage, e.usage) ELSE usage
      /\ chars' = IF s.kind = "anthropic" /\ e.name = "text" THEN chars + 1 ELSE chars
      /\ IF Emits(s.kind, e) THEN Emit(usage') ELSE UNCHANGED <<emitted, recorded, fed>>
  BY DEF Apply
<1>4. usage' \in Counts
  <2>1. usage \in Counts
    BY DEF Learned
  <2>2. CASE Absorbs(s.kind, e)
    <3>1. e.usage \in Counts
      BY <1>0, <2>2 DEF Absorbs
    <3>2. PICK v : v = Absorbed(usage, e.usage)
      OBVIOUS
    <3>3. v = [f \in DOMAIN Zero |-> Larger(usage[f], e.usage[f])]
      BY <2>1, <3>2, CountsAre DEF Absorbed
    <3>4. \A f \in DOMAIN Zero : v[f] \in Nat
      BY <2>1, <3>1, <3>3, CountsAre DEF Larger
    <3>5. v = [f \in DOMAIN Zero |-> v[f]]
      BY <3>3
    <3>6. v \in Counts
      BY <3>4, <3>5, CountsAre
    <3> QED BY <1>3, <2>2, <3>2, <3>6
  <2>3. CASE ~Absorbs(s.kind, e)
    BY <1>3, <2>1, <2>3
  <2> QED BY <2>2, <2>3
<1>5. CASE emitted = FALSE
  <2>1. /\ ClosingBy(s, n) = {} /\ SumsUp(s, n, usage)
        /\ s.kind = "anthropic" => chars = Cardinality(TextsBy(s, n))
        /\ recorded = << >> /\ fed = << >>
    BY <1>5 DEF Learned
  <2>2. SumsUp(s, n + 1, usage')
    BY <1>3, <2>1, SumGrows
  <2>3. CASE ~Emits(s.kind, e)
    <3>1. ClosingBy(s, n + 1) = {}
      BY <2>1, <2>3, ClosingGrows
    <3>2. s.kind = "anthropic" => chars' = Cardinality(TextsBy(s, n + 1))
      BY <1>3, <2>1, TextsGrow
    <3>3. emitted' = FALSE /\ recorded' = << >> /\ fed' = << >>
      BY <1>3, <1>5, <2>1, <2>3
    <3> QED BY <1>1, <1>2, <1>4, <2>2, <3>1, <3>2, <3>3 DEF Learned
  <2>4. CASE Emits(s.kind, e)
    <3>1. ClosingBy(s, n + 1) # {}
      BY <2>4, ClosingGrows
    <3>2. PICK u \in Counts : u = usage'
      BY <1>4
    <3>3. PICK k : k = Cardinality(TextsBy(s, n + 1))
      OBVIOUS
    <3>4. Feed(s.kind, u, chars) = Feed(s.kind, u, k)
      <4>1. CASE s.kind = "anthropic"
        <5>1. e.name = "stop"
          BY <2>4, <4>1 DEF Emits
        <5>2. chars = k
          BY <2>1, <3>3, <4>1, <5>1, TextsGrow
        <5> QED BY <5>2
      <4>2. CASE s.kind # "anthropic"
        BY <4>2 DEF Feed
      <4> QED BY <4>1, <4>2
    <3>5. Emit(u)
      BY <1>3, <2>4, <3>2
    <3>6. emitted' = TRUE /\ recorded' = IF u = Zero THEN << >> ELSE <<u>>
      BY <1>5, <2>1, <3>5 DEF Emit
    <3>7. fed' = IF session' /\ u # Zero THEN <<Feed(s.kind, u, k)>> ELSE << >>
      BY <1>5, <2>1, <3>4, <3>5 DEF Emit
    <3> QED BY <1>1, <1>2, <1>4, <2>2, <3>1, <3>2, <3>3, <3>6, <3>7 DEF Learned
  <2> QED BY <2>3, <2>4
<1>6. CASE emitted = TRUE
  <2>1. emitted' = TRUE /\ UNCHANGED <<recorded, fed>>
    BY <1>3, <1>6 DEF Emit
  <2>2. ClosingBy(s, n) # {}
    BY <1>6 DEF Learned
  <2>3. PICK u \in Counts :
          /\ SumsUp(s, n, u)
          /\ recorded = IF u = Zero THEN << >> ELSE <<u>>
          /\ fed = IF session /\ u # Zero
                   THEN <<Feed(s.kind, u, Cardinality(TextsBy(s, n)))>> ELSE << >>
    BY <1>6 DEF Learned
  <2>4. /\ ClosingBy(s, n + 1) # {} /\ SumsUp(s, n + 1, u)
        /\ TextsBy(s, n + 1) = TextsBy(s, n)
    BY <2>2, <2>3, SumStays
  <2>5. PICK k : k = Cardinality(TextsBy(s, n)) /\ k = Cardinality(TextsBy(s, n + 1))
    BY <2>4, Zenon
  <2>6. /\ recorded' = IF u = Zero THEN << >> ELSE <<u>>
        /\ fed' = IF session' /\ u # Zero THEN <<Feed(s.kind, u, k)>> ELSE << >>
    BY <2>1, <2>3, <2>5
  <2> QED BY <1>1, <1>2, <1>4, <2>1, <2>4, <2>5, <2>6 DEF Learned
<1> QED BY <1>5, <1>6 DEF Learned

-----------------------------------------------------------------------------
LEMMA Halves ==
  ASSUME NEW n \in Nat
  PROVE  /\ ((2 * n + 1) + 1) \div 2 = n + 1 /\ ((2 * n + 2) + 1) \div 2 = n + 1
         /\ (2 * n + 1) % 2 = 1 /\ (2 * n + 2) % 2 = 0
         /\ (2 * n) \div 2 = n /\ (2 * n + 1) \div 2 = n
BY SMT

LEMMA BytesAre ==
  ASSUME stream \in Stream
  PROVE  /\ Bytes \in Seq(Piece) /\ Len(stream.events) \in Nat
         /\ Len(Bytes) = 2 * Len(stream.events)
         /\ \A i \in 1..Len(Bytes) : Bytes[i] = [event |-> (i + 1) \div 2, last |-> i % 2 = 0]
<1>1. Len(stream.events) \in Nat
  BY StreamIs
<1>2. Bytes = [i \in 1..2 * Len(stream.events) |->
                 [event |-> (i + 1) \div 2, last |-> i % 2 = 0]]
  BY DEF Bytes, Pieces
<1>3. Bytes \in Seq(Piece)
  BY BytesArePieces
<1>4. DOMAIN Bytes = 1..2 * Len(stream.events)
  BY <1>2
<1>5. DOMAIN Bytes = 1..Len(Bytes) /\ Len(Bytes) \in Nat
  BY <1>3
<1>6. Len(Bytes) = 2 * Len(stream.events)
  <2>1. \A a, b \in Nat : 1..a = 1..b => a = b
    OBVIOUS
  <2>2. 2 * Len(stream.events) \in Nat
    BY <1>1
  <2> QED BY <1>4, <1>5, <2>1, <2>2, Zenon
<1> QED BY <1>1, <1>2, <1>3, <1>6

(* The two pieces of an event, and of which event they are.                *)
LEMMA PairIs ==
  ASSUME stream \in Stream, NEW n \in Nat, 2 * n + 2 <= Len(Bytes)
  PROVE  /\ n < Len(stream.events)
         /\ Bytes[2 * n + 1] = [event |-> n + 1, last |-> FALSE]
         /\ Bytes[2 * n + 2] = [event |-> n + 1, last |-> TRUE]
<1>1. Len(stream.events) \in Nat /\ Len(Bytes) = 2 * Len(stream.events)
  BY BytesAre
<1>2. n < Len(stream.events) /\ 2 * n + 1 \in 1..Len(Bytes) /\ 2 * n + 2 \in 1..Len(Bytes)
  BY <1>1
<1>3. /\ Bytes[2 * n + 1] = [event |-> ((2 * n + 1) + 1) \div 2, last |-> (2 * n + 1) % 2 = 0]
      /\ Bytes[2 * n + 2] = [event |-> ((2 * n + 2) + 1) \div 2, last |-> (2 * n + 2) % 2 = 0]
  BY <1>2, BytesAre
<1>4. /\ ((2 * n + 1) + 1) \div 2 = n + 1 /\ ((2 * n + 2) + 1) \div 2 = n + 1
      /\ (2 * n + 1) % 2 = 1 /\ (2 * n + 2) % 2 = 0
  BY Halves
<1>5. ((2 * n + 1) % 2 = 0) = FALSE /\ ((2 * n + 2) % 2 = 0) = TRUE
  BY <1>4
<1> QED BY <1>2, <1>3, <1>4, <1>5, Zenon

(* The client's chunk, and its copy.                                       *)
LEMMA RelayFramed ==
  ASSUME BytePath, NEW n, NEW at, Framed(n, at), NEW k \in 1..MaxChunk, Relay(k), dropped' = FALSE
  PROVE  \E new : Framed(n, new)'
<1>a. PICK m : m = Len(queue)
  OBVIOUS
<1>b. PICK new : new = [i \in 0..(m + 1) |-> IF i <= m THEN at[i] ELSE taken + k]
  OBVIOUS
<1>0. stream \in Stream /\ stream' = stream /\ Bytes' = Bytes
  BY DEF BytePath, Relay, Bytes
<1>1. Bytes \in Seq(Piece)
  BY <1>0, BytesAre
<1>2. /\ taken \in Nat /\ k \in Nat /\ k >= 1 /\ taken + k <= Len(Bytes) /\ Len(Bytes) \in Nat
      /\ taken' = taken + k
  BY <1>1, SseTeeAssumption DEF BytePath, Relay
<1>3. PICK chunk : chunk = SubSeq(Bytes, taken + 1, taken + k)
  OBVIOUS
<1>4. /\ chunk \in Seq(Piece) /\ Len(chunk) = k
      /\ \A j \in 1..k : chunk[j] = Bytes[taken + j]
  BY <1>1, <1>2, <1>3
<1>5. queue' = Append(queue, chunk) /\ buf' = buf
  BY <1>3 DEF Relay
<1>6. /\ queue \in Seq(Seq(Piece)) /\ m \in Nat
      /\ at \in [0..m -> 0..taken] /\ at[m] = taken
  BY <1>a DEF Framed
<1>7. /\ queue' \in Seq(Seq(Piece)) /\ Len(queue') = m + 1
      /\ \A i \in 1..m : queue'[i] = queue[i]
      /\ queue'[m + 1] = chunk
  BY <1>a, <1>4, <1>5, <1>6
<1>8. /\ new \in [0..(m + 1) -> 0..(taken + k)]
      /\ \A i \in 0..m : new[i] = at[i]
      /\ new[m + 1] = taken + k
  BY <1>b, <1>2, <1>6
<1>9. \A i \in 1..(m + 1) :
        /\ new[i - 1] + Len(queue'[i]) = new[i]
        /\ \A j \in 1..Len(queue'[i]) : queue'[i][j] = Bytes[new[i - 1] + j]
  <2>1. ASSUME NEW i \in 1..m
        PROVE  /\ new[i - 1] + Len(queue'[i]) = new[i]
               /\ \A j \in 1..Len(queue'[i]) : queue'[i][j] = Bytes[new[i - 1] + j]
    <3>1. new[i - 1] = at[i - 1] /\ new[i] = at[i] /\ queue'[i] = queue[i]
      <4>1. i - 1 \in 0..m /\ i \in 0..m
        BY <1>6
      <4> QED BY <1>7, <1>8, <4>1
    <3> QED BY <1>a, <3>1 DEF Framed
  <2>2. /\ new[m] + Len(queue'[m + 1]) = new[m + 1]
        /\ \A j \in 1..Len(queue'[m + 1]) : queue'[m + 1][j] = Bytes[new[m] + j]
    <3>1. m \in 0..m
      BY <1>6
    <3>2. new[m] = taken
      BY <1>6, <1>8, <3>1
    <3> QED BY <1>2, <1>4, <1>7, <1>8, <3>2
  <2>3. (m + 1) - 1 = m /\ \A i \in 1..(m + 1) : i \in 1..m \/ i = m + 1
    BY <1>6
  <2> QED BY <2>1, <2>2, <2>3
<1>10. new[0] = at[0]
  BY <1>6, <1>8
<1>11. /\ n \in 0..Len(stream'.events) /\ buf' \in Seq(Piece) /\ 2 * n + Len(buf') = new[0]
       /\ \A i \in 1..Len(buf') : buf'[i] = Bytes'[2 * n + i]
  BY <1>0, <1>5, <1>10 DEF Framed
<1>12. Framed(n, new)'
  <2>1. new \in [0..Len(queue') -> 0..taken'] /\ new[Len(queue')] = taken'
    BY <1>2, <1>7, <1>8
  <2>2. \A i \in 1..Len(queue') :
          /\ new[i - 1] + Len(queue'[i]) = new[i]
          /\ \A j \in 1..Len(queue'[i]) : queue'[i][j] = Bytes'[new[i - 1] + j]
    BY <1>0, <1>7, <1>9
  <2> QED BY <1>7, <1>11, <2>1, <2>2 DEF Framed
<1> QED BY <1>12

LEMMA ReceiveFramed ==
  ASSUME BytePath, NEW n, NEW at, Framed(n, at), Receive
  PROVE  \E new : Framed(n, new)'
<1>a. PICK m : m = Len(queue)
  OBVIOUS
<1>b. PICK new : new = [i \in 0..(m - 1) |-> at[i + 1]]
  OBVIOUS
<1>0. stream' = stream /\ Bytes' = Bytes /\ taken' = taken
  BY DEF Receive, clientVars, Bytes
<1>1. /\ queue \in Seq(Seq(Piece)) /\ m \in Nat /\ queue # << >> /\ buf \in Seq(Piece)
      /\ at \in [0..m -> 0..taken] /\ at[m] = taken /\ n \in Nat /\ taken \in Nat
      /\ 2 * n + Len(buf) = at[0]
  BY <1>a DEF Framed, Receive, BytePath
<1>2. m >= 1
  BY <1>a, <1>1
<1>3. PICK chunk \in Seq(Piece) : chunk = queue[1]
  BY <1>a, <1>1, <1>2
<1>4. buf' = buf \o chunk /\ queue' = Tail(queue)
  BY <1>1, <1>3, SMTT(30) DEF Receive
<1>5. /\ queue' \in Seq(Seq(Piece)) /\ Len(queue') = m - 1
      /\ \A i \in 1..(m - 1) : queue'[i] = queue[i + 1]
  BY <1>a, <1>1, <1>2, <1>4
<1>6. /\ new \in [0..(m - 1) -> 0..taken] /\ \A i \in 0..(m - 1) : new[i] = at[i + 1]
  BY <1>b, <1>1, <1>2
<1>7. new[m - 1] = taken /\ new[0] = at[1]
  BY <1>1, <1>2, <1>6
<1>8. at[0] + Len(chunk) = at[1] /\ \A j \in 1..Len(chunk) : chunk[j] = Bytes[at[0] + j]
  <2>1. 1 - 1 = 0 /\ 1 \in 1..m
    BY <1>1, <1>2
  <2> QED BY <1>a, <1>3, <2>1 DEF Framed
<1>9. /\ buf' \in Seq(Piece) /\ Len(buf') = Len(buf) + Len(chunk)
      /\ Len(buf) \in Nat /\ Len(chunk) \in Nat
      /\ \A i \in 1..Len(buf) : buf'[i] = buf[i]
      /\ \A j \in 1..Len(chunk) : buf'[Len(buf) + j] = chunk[j]
  BY <1>1, <1>4, SMTT(30)
<1>10. 2 * n + Len(buf') = new[0]
  BY <1>1, <1>7, <1>8, <1>9
<1>11. ASSUME NEW i \in 1..Len(buf')
       PROVE  buf'[i] = Bytes[2 * n + i]
  <2>1. CASE i <= Len(buf)
    <3>1. i \in 1..Len(buf)
      BY <1>9, <2>1
    <3>2. buf[i] = Bytes[2 * n + i]
      BY <3>1 DEF Framed
    <3> QED BY <1>9, <3>1, <3>2
  <2>2. CASE ~(i <= Len(buf))
    <3>1. PICK j \in 1..Len(chunk) : i = Len(buf) + j
      <4>1. i - Len(buf) \in 1..Len(chunk) /\ i = Len(buf) + (i - Len(buf))
        BY <1>9, <2>2
      <4> QED BY <4>1
    <3>2. buf'[i] = Bytes[at[0] + j]
      BY <1>8, <1>9, <3>1
    <3>3. at[0] + j = 2 * n + i
      BY <1>1, <1>9, <3>1
    <3> QED BY <3>2, <3>3
  <2> QED BY <2>1, <2>2
<1>12. ASSUME NEW i \in 1..(m - 1)
       PROVE  /\ new[i - 1] + Len(queue'[i]) = new[i]
              /\ \A j \in 1..Len(queue'[i]) : queue'[i][j] = Bytes[new[i - 1] + j]
  <2>1. i + 1 \in 1..m /\ i - 1 \in 0..(m - 1) /\ i \in 0..(m - 1)
        /\ (i + 1) - 1 = i /\ (i - 1) + 1 = i
    BY <1>1
  <2>2. new[i - 1] = at[i] /\ new[i] = at[i + 1] /\ queue'[i] = queue[i + 1]
    BY <1>5, <1>6, <2>1
  <2>3. /\ at[i] + Len(queue[i + 1]) = at[i + 1]
        /\ \A j \in 1..Len(queue[i + 1]) : queue[i + 1][j] = Bytes[at[i] + j]
    BY <1>a, <2>1 DEF Framed
  <2> QED BY <2>2, <2>3
<1>13. n \in 0..Len(stream'.events)
  BY <1>0 DEF Framed
<1>14. Framed(n, new)'
  <2>1. new \in [0..Len(queue') -> 0..taken'] /\ new[Len(queue')] = taken'
    BY <1>0, <1>5, <1>6, <1>7
  <2> QED BY <1>0, <1>5, <1>9, <1>10, <1>11, <1>12, <1>13, <2>1 DEF Framed
<1> QED BY <1>14

(* The framer finds an event where it ends, and reads it as what it is.    *)
LEMMA BlockIs ==
  ASSUME BytePath, NEW n, NEW at, Framed(n, at)
  PROVE  /\ Ends # {} => /\ n < Len(stream.events) /\ Len(buf) >= 2
                         /\ Len(Block) = 2
                         /\ Readings(Block) = {stream.events[n + 1]}
         /\ Ends = {} => Len(buf) <= 1
<1>0. stream \in Stream
  BY DEF BytePath
<1>1. /\ buf \in Seq(Piece) /\ Len(buf) \in Nat /\ DOMAIN buf = 1..Len(buf) /\ n \in Nat
      /\ 2 * n + Len(buf) <= taken /\ taken <= Len(Bytes) /\ taken \in Nat /\ Len(Bytes) \in Nat
      /\ \A i \in 1..Len(buf) : buf[i] = Bytes[2 * n + i]
  <2>1. 0 \in 0..Len(queue) /\ at \in [0..Len(queue) -> 0..taken]
    BY DEF Framed
  <2>2. at[0] <= taken
    BY <2>1 DEF BytePath
  <2> QED BY <1>0, <2>2, BytesAre DEF Framed, BytePath
<1>2. CASE Len(buf) >= 2
  <2>1. 2 * n + 2 <= Len(Bytes)
    BY <1>1, <1>2
  <2>2. /\ n < Len(stream.events)
        /\ buf[1] = [event |-> n + 1, last |-> FALSE]
        /\ buf[2] = [event |-> n + 1, last |-> TRUE]
    <3>1. buf[1] = Bytes[2 * n + 1] /\ buf[2] = Bytes[2 * n + 2]
      BY <1>1, <1>2
    <3> QED BY <1>0, <1>1, <2>1, <3>1, PairIs
  <2>3. 2 \in Ends /\ 1 \notin Ends /\ Ends \subseteq 1..Len(buf)
    BY <1>1, <1>2, <2>2 DEF Ends
  <2>4. PICK c : c = CHOOSE i \in Ends : \A j \in Ends : i <= j
    OBVIOUS
  <2>5. \A j \in Ends : 2 <= j
    BY <1>1, <2>3
  <2>6. c \in Ends /\ \A j \in Ends : c <= j
    BY <2>3, <2>4, <2>5
  <2>7. c = 2
    BY <1>1, <2>3, <2>5, <2>6
  <2>8. PICK b : b = Block
    OBVIOUS
  <2>9. b = SubSeq(buf, 1, 2)
    BY <2>4, <2>7, <2>8 DEF Block
  <2>10. Len(b) = 2 /\ DOMAIN b = {1, 2} /\ b[1] = buf[1] /\ b[2] = buf[2]
    BY <1>1, <1>2, <2>9
  <2>11. Of(b) = {stream.events[n + 1]}
    <3>1. ToSet(b) = {buf[1], buf[2]}
      BY <2>10 DEF ToSet
    <3>2. \A p \in ToSet(b) : p.event = n + 1
      BY <2>2, <3>1
    <3>3. ToSet(b) # {}
      BY <3>1
    <3> QED BY <3>2, <3>3 DEF Of
  <2>12. Readings(b) = {stream.events[n + 1]}
    BY <2>2, <2>10, <2>11 DEF Readings
  <2> QED BY <1>2, <2>2, <2>3, <2>8, <2>10, <2>12
<1>3. CASE ~(Len(buf) >= 2)
  <2>1. Ends = {}
    <3>1. ASSUME NEW i \in Ends
          PROVE  FALSE
      <4>1. i = 1 /\ Len(buf) = 1 /\ buf[1].last
        BY <1>1, <1>3, <3>1 DEF Ends
      <4>2. 2 * n + 2 <= Len(Bytes)
        BY <1>0, <1>1, <4>1, BytesAre
      <4>3. Bytes[2 * n + 1] = [event |-> n + 1, last |-> FALSE]
        BY <1>0, <1>1, <4>2, PairIs
      <4>4. buf[1] = Bytes[2 * n + 1]
        BY <1>1, <4>1
      <4> QED BY <4>1, <4>3, <4>4
    <3> QED BY <3>1
  <2> QED BY <1>1, <1>3, <2>1
<1> QED BY <1>2, <1>3

LEMMA FrameFramed ==
  ASSUME BytePath, NEW n, NEW at, Framed(n, at), Frame
  PROVE  Framed(n + 1, at)'
<1>0. stream' = stream /\ Bytes' = Bytes /\ UNCHANGED <<taken, queue>>
  BY DEF Frame, clientVars, Bytes
<1>1. n < Len(stream.events) /\ Len(buf) >= 2 /\ Len(Block) = 2
  BY BlockIs DEF Frame
<1>2. /\ buf \in Seq(Piece) /\ Len(buf) \in Nat /\ n \in Nat
      /\ 2 * n + Len(buf) = at[0]
  BY DEF Framed
<1>3. buf' = SubSeq(buf, 3, Len(buf))
  BY <1>1 DEF Frame
<1>4. /\ buf' \in Seq(Piece) /\ Len(buf') = Len(buf) - 2
      /\ \A i \in 1..Len(buf') : buf'[i] = buf[i + 2]
  <2>1. PICK m \in Nat : m = Len(buf) /\ m >= 2
    BY <1>1, <1>2
  <2>2. PICK b : b = SubSeq(buf, 3, m)
    OBVIOUS
  <2>3. b = [i \in 1..(m - 2) |-> buf[i + 2]]
    <3>1. (m - 3) + 1 = m - 2 /\ \A i \in 1..(m - 2) : (3 + i) - 1 = i + 2
      BY <2>1
    <3> QED BY <1>2, <2>1, <2>2, <3>1
  <2>4. m - 2 \in Nat /\ \A i \in 1..(m - 2) : i + 2 \in 1..m
    BY <2>1
  <2>5. b \in Seq(Piece) /\ Len(b) = m - 2 /\ \A i \in 1..(m - 2) : b[i] = buf[i + 2]
    BY <1>2, <2>1, <2>3, <2>4
  <2> QED BY <1>3, <2>1, <2>2, <2>5
<1>5. 2 * (n + 1) + Len(buf') = at[0]
  BY <1>2, <1>4
<1>6. ASSUME NEW i \in 1..Len(buf')
      PROVE  buf'[i] = Bytes[2 * (n + 1) + i]
  <2>1. i + 2 \in 1..Len(buf) /\ 2 * n + (i + 2) = 2 * (n + 1) + i
    BY <1>2, <1>4
  <2>2. buf'[i] = Bytes[2 * n + (i + 2)]
    BY <1>4, <2>1 DEF Framed
  <2> QED BY <2>1, <2>2
<1>7. n + 1 \in 0..Len(stream.events)
  BY <1>1, StreamIs DEF BytePath, Framed
<1> QED BY <1>0, <1>4, <1>5, <1>6, <1>7 DEF Framed

-----------------------------------------------------------------------------
LEMMA InitTee == Init => TeeInv
<1> SUFFICES ASSUME Init PROVE TeeInv
  OBVIOUS
<1>1. BytePath /\ stream \in Stream
  BY InitBytePath DEF BytePath
<1>2. PICK s \in Stream : s = stream
  BY <1>1
<1>3. PICK at : at = [i \in {0} |-> 0]
  OBVIOUS
<1>4. Framed(0, at)
  <2>1. Len(queue) = 0 /\ queue \in Seq(Seq(Piece)) /\ Len(buf) = 0 /\ buf \in Seq(Piece) /\ taken = 0
    BY DEF Init
  <2>2. 0..0 = {0} /\ 1..0 = {}
    OBVIOUS
  <2>3. at \in [0..0 -> 0..0] /\ at[0] = 0
    BY <1>3, <2>2
  <2>4. 0 \in 0..Len(stream.events) /\ 2 * 0 + 0 = 0
    BY <1>1, StreamIs
  <2> QED BY <2>1, <2>2, <2>3, <2>4 DEF Framed
<1>5. /\ ClosingBy(s, 0) = {} /\ CallsBy(s, 0) = {} /\ StatusesBy(s, 0) = {}
      /\ TextsBy(s, 0) = {} /\ ReportingBy(s, 0) = {}
  BY DEF ClosingBy, CallsBy, StatusesBy, TextsBy, ReportingBy, HeardBy
<1>6. SumsUp(s, 0, Zero)
  <2>1. \A f : CountsBy(s, 0, f) = {0}
    BY <1>5 DEF CountsBy
  <2>2. \A f \in DOMAIN Zero : Zero[f] = 0
    BY DEF Zero
  <2>3. \A f \in DOMAIN Zero : IsLargest(Zero[f], CountsBy(s, 0, f))
    BY <2>1, <2>2 DEF IsLargest
  <2> QED BY <2>3, CountsAre DEF SumsUp
<1>7. Learned(s, 0)
  <2>1. Cardinality({}) = 0
    BY FS_EmptySet
  <2>2. calls = 0 /\ chars = 0 /\ lastStatus = NoStatus /\ usage = Zero /\ emitted = FALSE
        /\ recorded = << >> /\ fed = << >>
    BY DEF Init
  <2> QED BY <1>5, <1>6, <2>1, <2>2, CountsAre DEF Learned
<1>8. ExactInv
  BY <1>2, <1>4, <1>7 DEF ExactInv, Init
<1>9. ParserInv
  BY DEF Init, ParserInv
<1> QED BY <1>1, <1>8, <1>9 DEF TeeInv

LEMMA NextExact == BytePath /\ ExactInv /\ [Next]_vars => ExactInv'
<1> SUFFICES ASSUME BytePath, ExactInv, [Next]_vars PROVE ExactInv'
  OBVIOUS
<1>0. dropped' \in BOOLEAN /\ (dropped' = FALSE => dropped = FALSE)
  <2>1. ASSUME NEW k \in 1..MaxChunk, Relay(k)
        PROVE  dropped' \in BOOLEAN /\ (dropped' = FALSE => dropped = FALSE)
    <3>1. dropped' = (dropped \/ ~(Len(queue) < QueueDepth))
      BY <2>1 DEF Relay
    <3> QED BY <3>1, Zenon DEF ExactInv
  <2>2. Complete \/ Cut \/ ParserStep \/ UNCHANGED vars => dropped' = dropped
    BY DEF vars, Complete, Cut, Bodiless, ParserStep, Receive, Frame, Finish
  <2>3. dropped \in BOOLEAN
    BY DEF ExactInv
  <2> QED BY <2>1, <2>2, <2>3, Zenon DEF Next, Deliver
<1> SUFFICES ASSUME dropped = FALSE, dropped' = FALSE
             PROVE  \E s, n, at : s = stream' /\ Framed(n, at)' /\ Learned(s, n)'
  BY <1>0 DEF ExactInv
<1>1. PICK s, n, at : s = stream /\ Framed(n, at) /\ Learned(s, n)
  BY DEF ExactInv
<1>2. s \in Stream
  BY <1>1 DEF BytePath
<1>3. UNCHANGED <<session, usageVars>> => Learned(s, n)'
  BY <1>1 DEF Learned, usageVars
<1>4. ASSUME NEW k \in 1..MaxChunk, Relay(k)
      PROVE  \E new : Framed(n, new)' /\ Learned(s, n)' /\ s = stream'
  <2>1. UNCHANGED <<session, usageVars, stream>>
    BY <1>4 DEF Relay
  <2>2. \E new : Framed(n, new)'
    BY <1>1, <1>4, RelayFramed
  <2> QED BY <1>1, <1>3, <2>1, <2>2
<1>5. CASE Receive
  <2>1. UNCHANGED <<session, usageVars, stream>>
    BY <1>5 DEF Receive, clientVars
  <2>2. \E new : Framed(n, new)'
    BY <1>1, <1>5, ReceiveFramed
  <2> QED BY <1>1, <1>3, <2>1, <2>2
<1>6. CASE Frame
  <2>1. UNCHANGED <<session, stream>> /\ Ends # {}
    BY <1>6 DEF Frame, clientVars
  <2>2. Framed(n + 1, at)'
    BY <1>1, <1>6, FrameFramed
  <2>3. /\ n \in Nat /\ n < Len(s.events)
        /\ Readings(Block) = {s.events[n + 1]}
    <3>1. n \in Nat
      BY <1>1, StreamIs DEF Framed, BytePath
    <3>2. n < Len(stream.events) /\ Readings(Block) = {stream.events[n + 1]}
      BY <1>1, <2>1, BlockIs
    <3> QED BY <1>1, <3>1, <3>2, Zenon
  <2>4. PICK e \in Readings(Block) : IF e = NoEvent THEN UNCHANGED usageVars ELSE Apply(e)
    BY <1>6 DEF Frame
  <2>5. e = s.events[n + 1]
    BY <2>3
  <2>6. e # NoEvent
    <3>1. PICK k \in Kind : s \in [kind : {k}, events : Seq(Event(k))]
      BY <1>2, SseTeeAssumption
    <3>2. s.events \in Seq(Event(k)) /\ n + 1 \in 1..Len(s.events)
      BY <2>3, <3>1
    <3>3. e \in Event(k)
      BY <2>5, <3>2
    <3> QED BY <3>3, SseTeeAssumption
  <2>7. Apply(e)
    BY <2>4, <2>6
  <2>8. Learned(s, n + 1)'
    BY <1>1, <1>2, <2>1, <2>3, <2>5, <2>7, Learns
  <2> QED BY <1>1, <2>1, <2>2, <2>8
<1>7. CASE UNCHANGED <<stream, session, taken, queue, buf, usageVars>>
  <2>1. Framed(n, at)'
    BY <1>1, <1>7 DEF Framed, Bytes
  <2> QED BY <1>1, <1>3, <1>7, <2>1
<1>8. Complete \/ Cut \/ Finish \/ UNCHANGED vars
        => UNCHANGED <<stream, session, taken, queue, buf, usageVars>>
  BY DEF Complete, Cut, Bodiless, Finish, vars, clientVars
<1> QED BY <1>4, <1>5, <1>6, <1>7, <1>8 DEF Next, Deliver, ParserStep

LEMMA NextParser == ParserInv /\ [Next]_vars => ParserInv'
<1> SUFFICES ASSUME ParserInv, [Next]_vars PROVE ParserInv'
  OBVIOUS
<1>1. CASE parser = "finished"
  <2>1. ~Deliver /\ ~Complete /\ ~Cut /\ ~ParserStep
    BY <1>1 DEF ParserInv, Deliver, Relay, Complete, Cut, ParserStep, Receive, Frame, Finish
  <2>2. UNCHANGED vars
    BY <2>1 DEF Next
  <2> QED BY <2>2 DEF ParserInv, vars, clientVars, usageVars, Ends
<1>2. CASE parser = "running"
  <2>1. CASE Finish
    <3>1. /\ parser' = "finished" /\ body # "open" /\ queue = << >> /\ Ends = {}
          /\ statuses' = IF lastStatus # NoStatus THEN Append(statuses, lastStatus) ELSE statuses
          /\ UNCHANGED <<body, queue, buf, lastStatus>>
      BY <2>1 DEF Finish, clientVars, usageVars
    <3>2. statuses = << >> /\ Append(<< >>, lastStatus) = <<lastStatus>>
      BY <1>2 DEF ParserInv
    <3> QED BY <3>1, <3>2 DEF ParserInv, Ends
  <2>2. CASE UNCHANGED <<parser, statuses>>
    BY <1>2, <2>2 DEF ParserInv
  <2>3. Deliver \/ Complete \/ Cut \/ Receive \/ Frame \/ UNCHANGED vars => UNCHANGED <<parser, statuses>>
    BY DEF Deliver, Relay, Complete, Cut, Bodiless, Receive, Frame, vars
  <2> QED BY <2>1, <2>2, <2>3 DEF Next, ParserStep
<1> QED BY <1>1, <1>2 DEF ParserInv

(* The reference reads the same events.                                    *)
LEMMA ReferenceIs ==
  ASSUME stream \in Stream, NEW s, s = stream, NEW n \in 0..Len(s.events),
         Len(received) \div 2 = n
  PROVE  /\ \A i \in 1..n : Whole[i] = s.events[i]
         /\ DOMAIN Whole = 1..n
         /\ Closing = ClosingBy(s, n) /\ Heard = HeardBy(s, n)
         /\ Reporting = ReportingBy(s, n)
<1>1. /\ s.kind \in Kind /\ Len(s.events) \in Nat /\ n \in Nat /\ n <= Len(s.events)
      /\ \A i \in 1..n : s.events[i].name \in Name(s.kind)
  BY StreamIs
<1>2. PICK w : w = Whole
  OBVIOUS
<1>3. w = [i \in 1..n |-> s.events[i]]
  <2>1. PICK k \in Kind : s \in [kind : {k}, events : Seq(Event(k))]
    BY SseTeeAssumption
  <2>2. s.events \in Seq(Event(k))
    BY <2>1
  <2>3. w = SubSeq(s.events, 1, n)
    BY <1>2 DEF Whole
  <2> QED BY <1>1, <2>2, <2>3
<1>4. (\A i \in 1..n : Whole[i] = s.events[i]) /\ DOMAIN Whole = 1..n
  BY <1>2, <1>3
<1>5. Closing = ClosingBy(s, n)
  <2>1. ASSUME NEW i \in 1..n
        PROVE  Emits(s.kind, s.events[i]) <=>
                 \/ s.events[i].name \in Terminal \cup {"stop"}
                 \/ s.kind = "chat" /\ s.events[i].usage # NoUsage
    <3>1. PICK e : e = s.events[i]
      OBVIOUS
    <3>2. e.name \in Name(s.kind)
      BY <1>1, <3>1
    <3>3. CASE s.kind = "anthropic"
      BY <3>1, <3>2, <3>3 DEF Emits, Name, Terminal
    <3>4. CASE s.kind = "responses"
      BY <3>1, <3>2, <3>4 DEF Emits, Name, Terminal
    <3>5. CASE s.kind = "chat"
      BY <3>1, <3>2, <3>5 DEF Emits, Name, Terminal
    <3> QED BY <1>1, <3>3, <3>4, <3>5 DEF Kind
  <2> QED BY <1>4, <2>1 DEF Closing, ClosingBy
<1>6. Heard = HeardBy(s, n)
  BY <1>4, <1>5 DEF Heard, HeardBy
<1>7. Reporting = ReportingBy(s, n)
  <2>1. ASSUME NEW i \in 1..n
        PROVE  Absorbs(s.kind, s.events[i]) <=>
                 /\ s.events[i].usage # NoUsage
                 /\ s.kind = "chat" \/ s.events[i].name \in Terminal \cup {"start", "delta"}
    <3>1. PICK e : e = s.events[i]
      OBVIOUS
    <3>2. e.name \in Name(s.kind)
      BY <1>1, <3>1
    <3>3. CASE s.kind = "anthropic"
      BY <3>1, <3>2, <3>3 DEF Absorbs, Name, Terminal
    <3>4. CASE s.kind = "responses"
      BY <3>1, <3>2, <3>4 DEF Absorbs, Name, Terminal
    <3>5. CASE s.kind = "chat"
      BY <3>1, <3>2, <3>5 DEF Absorbs, Name, Terminal
    <3> QED BY <1>1, <3>3, <3>4, <3>5 DEF Kind
  <2>2. HeardBy(s, n) \subseteq 1..n
    BY DEF HeardBy
  <2> QED BY <1>4, <1>6, <2>1, <2>2 DEF Reporting, ReportingBy
<1> QED BY <1>4, <1>5, <1>6, <1>7

LEMMA TeeIsExact == TeeInv => UndroppedIsExact
<1> SUFFICES ASSUME BytePath, ParserInv, ExactInv, parser = "finished", dropped = FALSE
             PROVE  LET expected == IF Closing = {} \/ Reported = Zero THEN << >> ELSE <<Reported>>
                    IN /\ recorded = expected
                       /\ fed = IF session /\ expected # << >>
                                THEN <<Feed(stream.kind, Reported, Texts)>> ELSE << >>
                       /\ calls = Cardinality({i \in DOMAIN Whole : Whole[i].name = "call"})
                       /\ statuses = LET S == {i \in DOMAIN Whole : Whole[i].name \in Terminal}
                                     IN IF stream.kind # "responses" \/ S = {} THEN << >>
                                        ELSE <<Whole[Largest(S)].name>>
  BY DEF UndroppedIsExact, TeeInv, ExactInv
<1>1. PICK s, n, at : s = stream /\ Framed(n, at) /\ Learned(s, n)
  BY DEF ExactInv
<1>2. s \in Stream /\ n \in Nat /\ n \in 0..Len(s.events) /\ Len(s.events) \in Nat
  BY <1>1, StreamIs DEF BytePath, Framed
<1>3. Len(received) \div 2 = n
  <2>1. queue = << >> /\ Ends = {}
    BY DEF ParserInv
  <2>2. Len(buf) \in Nat /\ Len(buf) <= 1 /\ taken = 2 * n + Len(buf)
    <3>1. Len(queue) = 0
      BY <2>1
    <3>2. Len(buf) <= 1
      BY <1>1, <2>1, BlockIs
    <3> QED BY <1>1, <3>1, <3>2 DEF Framed
  <2>3. Len(received) = taken
    <3>1. Bytes \in Seq(Piece)
      BY BytesAre DEF BytePath
    <3> QED BY <3>1, SubSeqProperties DEF BytePath
  <2>4. taken = 2 * n \/ taken = 2 * n + 1
    BY <1>2, <2>2
  <2>5. (2 * n) \div 2 = n /\ (2 * n + 1) \div 2 = n
    BY <1>2, Halves
  <2> QED BY <2>3, <2>4, <2>5
<1>4. /\ \A i \in 1..n : Whole[i] = s.events[i]
      /\ DOMAIN Whole = 1..n
      /\ Closing = ClosingBy(s, n) /\ Heard = HeardBy(s, n)
      /\ Reporting = ReportingBy(s, n)
  BY <1>1, <1>2, <1>3, ReferenceIs
<1>5. Texts = Cardinality(TextsBy(s, n))
  <2>1. {i \in Heard : Whole[i].name = "text"} = TextsBy(s, n)
    <3>1. HeardBy(s, n) \subseteq 1..n
      BY DEF HeardBy
    <3> QED BY <1>4, <3>1 DEF TextsBy
  <2> QED BY <2>1 DEF Texts
<1>6. ASSUME NEW u, SumsUp(s, n, u)
      PROVE  Reported = u
  <2>1. PICK r : r = Reported
    OBVIOUS
  <2>2. r = [f \in DOMAIN Zero |-> Largest({0} \cup {Whole[i].usage[f] : i \in Reporting})]
    BY <2>1 DEF Reported
  <2>3. ASSUME NEW f \in DOMAIN Zero
        PROVE  r[f] = u[f]
    <3>1. {0} \cup {Whole[i].usage[f] : i \in Reporting} = CountsBy(s, n, f)
      <4>1. ReportingBy(s, n) \subseteq 1..n
        BY DEF ReportingBy, HeardBy
      <4> QED BY <1>4, <4>1 DEF CountsBy
    <3>2. CountsBy(s, n, f) \subseteq Nat
      BY <1>2, CountsAreNumbers
    <3>3. Largest(CountsBy(s, n, f)) = u[f]
      BY <1>6, <3>2, OneLargest DEF SumsUp
    <3>4. r[f] = Largest({0} \cup {Whole[i].usage[f] : i \in Reporting})
      BY <2>2
    <3> QED BY <3>1, <3>3, <3>4, Zenon
  <2>4. u = [f \in DOMAIN Zero |-> u[f]] /\ r = [f \in DOMAIN Zero |-> r[f]]
    BY <1>6, <2>2, CountsAre DEF SumsUp
  <2>5. r = u
    BY <2>3, <2>4
  <2> QED BY <2>1, <2>5
<1>7. calls = Cardinality({i \in DOMAIN Whole : Whole[i].name = "call"})
  <2>1. {i \in DOMAIN Whole : Whole[i].name = "call"} = CallsBy(s, n)
    BY <1>4 DEF CallsBy
  <2>2. calls = Cardinality(CallsBy(s, n))
    BY <1>1 DEF Learned
  <2> QED BY <2>1, <2>2, Zenon
<1>8. statuses = LET S == {i \in DOMAIN Whole : Whole[i].name \in Terminal}
                 IN IF stream.kind # "responses" \/ S = {} THEN << >>
                    ELSE <<Whole[Largest(S)].name>>
  <2>1. PICK S : S = {i \in DOMAIN Whole : Whole[i].name \in Terminal}
    OBVIOUS
  <2>2. StatusesBy(s, n) = IF s.kind = "responses" THEN S ELSE {}
    BY <1>4, <2>1 DEF StatusesBy
  <2>3. statuses = IF lastStatus # NoStatus THEN <<lastStatus>> ELSE << >>
    BY DEF ParserInv
  <2>4. \/ lastStatus = NoStatus /\ StatusesBy(s, n) = {}
        \/ \E i \in StatusesBy(s, n) :
             IsLargest(i, StatusesBy(s, n)) /\ lastStatus = s.events[i].name
    BY <1>1 DEF Learned
  <2>5. CASE StatusesBy(s, n) = {}
    BY <1>1, <2>1, <2>2, <2>3, <2>4, <2>5
  <2>6. CASE StatusesBy(s, n) # {}
    <3>1. PICK i \in StatusesBy(s, n) :
            IsLargest(i, StatusesBy(s, n)) /\ lastStatus = s.events[i].name
      BY <2>4, <2>6
    <3>2. S = StatusesBy(s, n) /\ s.kind = "responses" /\ S \subseteq Nat
      BY <1>2, <1>4, <2>1, <2>2, <2>6
    <3>3. Largest(S) = i
      BY <3>1, <3>2, OneLargest
    <3>4. i \in 1..n /\ lastStatus \in Terminal /\ lastStatus # NoStatus
      BY <3>1, SseTeeAssumption DEF StatusesBy
    <3>5. statuses = <<Whole[Largest(S)].name>>
      BY <1>4, <2>3, <3>1, <3>3, <3>4
    <3> QED BY <1>1, <2>1, <3>2, <3>5, <2>6
  <2> QED BY <2>5, <2>6
<1>9. CASE emitted = FALSE
  <2>1. Closing = {} /\ recorded = << >> /\ fed = << >>
    BY <1>1, <1>4, <1>9 DEF Learned
  <2> QED BY <1>7, <1>8, <2>1
<1>10. CASE emitted = TRUE
  <2>1. Closing # {}
    BY <1>1, <1>4, <1>10 DEF Learned
  <2>2. PICK u \in Counts :
          /\ SumsUp(s, n, u)
          /\ recorded = IF u = Zero THEN << >> ELSE <<u>>
          /\ fed = IF session /\ u # Zero
                   THEN <<Feed(s.kind, u, Cardinality(TextsBy(s, n)))>> ELSE << >>
    BY <1>1, <1>10 DEF Learned
  <2>3. Reported = u
    BY <1>6, <2>2
  <2>4. <<u>> # << >>
    OBVIOUS
  <2>5. CASE u = Zero
    BY <1>7, <1>8, <2>2, <2>3, <2>5
  <2>6. CASE u # Zero
    BY <1>1, <1>5, <1>7, <1>8, <2>1, <2>2, <2>3, <2>4, <2>6
  <2> QED BY <2>5, <2>6
<1> QED BY <1>1, <1>9, <1>10 DEF Learned

(* If the queue never was full, what was counted, what the tracker was     *)
(* told, the retrieval calls and the status are those of the events the    *)
(* client got, however the network cut them into chunks and whenever the   *)
(* response ended.                                                         *)
THEOREM UndroppedStreamIsExact == Spec => []UndroppedIsExact
<1>1. TeeInv /\ [Next]_vars => TeeInv'
  BY NextBytePath, NextExact, NextParser DEF TeeInv
<1> QED BY <1>1, InitTee, TeeIsExact, PTL DEF Spec

=============================================================================
