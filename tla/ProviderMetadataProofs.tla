----------------------- MODULE ProviderMetadataProofs -----------------------
(***************************************************************************)
(* Proofs about ProviderMetadata, for any tools, sort keys and bodies.     *)
(* They rest on what the stable sort does: the positions it gives to the   *)
(* tools are a permutation, and ties aside they do not depend on the order *)
(* the tools came in.                                                      *)
(***************************************************************************)
EXTENDS ProviderMetadata, FiniteSetTheorems, TLAPS

(* The tools that stand at or before tool i once sorted.                   *)
UpToHere(tools, i) ==
  {j \in DOMAIN tools :
     \/ SortKey[tools[j].def] < SortKey[tools[i].def]
     \/ SortKey[tools[j].def] = SortKey[tools[i].def] /\ j <= i}

LEMMA UpToHereNests ==
  ASSUME NEW tools \in Seq(Tool), NEW i \in DOMAIN tools, NEW j \in DOMAIN tools
  PROVE  /\ IsFiniteSet(DOMAIN tools)
         /\ IsFiniteSet(UpToHere(tools, i)) /\ Position(tools, i) = Cardinality(UpToHere(tools, i))
         /\ i \in UpToHere(tools, i)
         /\ i \in UpToHere(tools, j) => UpToHere(tools, i) \subseteq UpToHere(tools, j)
         /\ i \in UpToHere(tools, j) \/ j \in UpToHere(tools, i)
         /\ i \in UpToHere(tools, j) /\ j \in UpToHere(tools, i) => i = j
<1>1. /\ Len(tools) \in Nat /\ DOMAIN tools = 1..Len(tools)
      /\ \A k \in DOMAIN tools : k \in Nat /\ SortKey[tools[k].def] \in Nat
  <2>1. /\ Len(tools) \in Nat /\ DOMAIN tools = 1..Len(tools)
        /\ \A k \in DOMAIN tools : k \in Nat /\ tools[k] \in Tool
    OBVIOUS
  <2>2. SortKey \in [Def -> Nat]
    BY ProviderMetadataAssumption
  <2>3. \A t \in Tool : SortKey[t.def] \in Nat
    BY <2>2 DEF Tool
  <2> QED BY <2>1, <2>3
<1>2. IsFiniteSet(DOMAIN tools)
  <2>1. IsFiniteSet(1..Len(tools))
    BY <1>1, FS_Interval
  <2> QED BY <1>1, <2>1
<1>3. IsFiniteSet(UpToHere(tools, i))
  <2>1. UpToHere(tools, i) \in SUBSET DOMAIN tools
    BY DEF UpToHere
  <2> QED BY <1>2, <2>1, FS_Subset
<1>4. Position(tools, i) = Cardinality(UpToHere(tools, i))
  BY DEF Position, UpToHere
<1>5. i \in UpToHere(tools, i)
  BY <1>1 DEF UpToHere
<1>6. i \in UpToHere(tools, j) => UpToHere(tools, i) \subseteq UpToHere(tools, j)
  BY <1>1 DEF UpToHere
<1>7. i \in UpToHere(tools, j) \/ j \in UpToHere(tools, i)
  BY <1>1 DEF UpToHere
<1>8. i \in UpToHere(tools, j) /\ j \in UpToHere(tools, i) => i = j
  BY <1>1 DEF UpToHere
<1> QED BY <1>2, <1>3, <1>4, <1>5, <1>6, <1>7, <1>8

(* The positions of the sort are a permutation of the indices.             *)
LEMMA PositionsPermute ==
  ASSUME NEW tools \in Seq(Tool)
  PROVE  /\ \A i \in DOMAIN tools : Position(tools, i) \in DOMAIN tools
         /\ \A i, j \in DOMAIN tools : Position(tools, i) = Position(tools, j) => i = j
         /\ \A k \in DOMAIN tools : \E i \in DOMAIN tools : Position(tools, i) = k
<1> DEFINE place == [i \in DOMAIN tools |-> Position(tools, i)]
<1>1. Len(tools) \in Nat /\ DOMAIN tools = 1..Len(tools) /\ IsFiniteSet(1..Len(tools))
  BY FS_Interval
<1>2. Cardinality(DOMAIN tools) = Len(tools)
  BY <1>1, FS_Interval
<1>3. ASSUME NEW i \in DOMAIN tools
      PROVE  Position(tools, i) \in DOMAIN tools
  <2>1. /\ IsFiniteSet(UpToHere(tools, i)) /\ Position(tools, i) = Cardinality(UpToHere(tools, i))
        /\ i \in UpToHere(tools, i)
    BY UpToHereNests
  <2>2. UpToHere(tools, i) \in SUBSET DOMAIN tools /\ IsFiniteSet(DOMAIN tools)
    BY <1>1 DEF UpToHere
  <2>3. Position(tools, i) \in Nat
    BY <2>1, FS_CardinalityType
  <2>4. Position(tools, i) <= Len(tools)
    BY <1>2, <2>1, <2>2, FS_Subset
  <2>5. Position(tools, i) # 0
    BY <2>1, FS_EmptySet
  <2> QED BY <1>1, <2>3, <2>4, <2>5
<1>4. ASSUME NEW i \in DOMAIN tools, NEW j \in DOMAIN tools,
             Position(tools, i) = Position(tools, j)
      PROVE  i = j
  <2>1. ASSUME NEW m \in DOMAIN tools, NEW n \in DOMAIN tools,
               Position(tools, m) = Position(tools, n), m \in UpToHere(tools, n)
        PROVE  m = n
    <3>1. UpToHere(tools, m) \in SUBSET UpToHere(tools, n)
      BY <2>1, UpToHereNests
    <3>2. IsFiniteSet(UpToHere(tools, n)) /\ n \in UpToHere(tools, n)
      BY UpToHereNests
    <3>3. Cardinality(UpToHere(tools, n)) = Cardinality(UpToHere(tools, m))
      BY <2>1, UpToHereNests
    <3>4. UpToHere(tools, n) = UpToHere(tools, m)
      BY <3>1, <3>2, <3>3, FS_Subset
    <3>5. n \in UpToHere(tools, m)
      BY <3>2, <3>4
    <3> QED BY <2>1, <3>5, UpToHereNests
  <2>2. i \in UpToHere(tools, j) \/ j \in UpToHere(tools, i)
    BY UpToHereNests
  <2> QED BY <1>4, <2>1, <2>2
<1>5. place \in Injection(DOMAIN tools, DOMAIN tools)
  BY <1>3, <1>4 DEF Injection, IsInjective
<1>6. place \in Surjection(DOMAIN tools, DOMAIN tools)
  BY <1>1, <1>5, FS_Injection
<1>7. \A k \in DOMAIN tools : \E i \in DOMAIN tools : Position(tools, i) = k
  BY <1>6 DEF Surjection
<1> QED BY <1>3, <1>4, <1>7

(* Where the sort takes the k-th tool from.                                *)
From(tools) ==
  [k \in DOMAIN tools |-> CHOOSE i \in DOMAIN tools : Position(tools, i) = k]

LEMMA SortedFrom ==
  ASSUME NEW tools \in Seq(Tool)
  PROVE  /\ From(tools) \in Bijection(DOMAIN tools, DOMAIN tools)
         /\ \A k \in DOMAIN tools : Position(tools, From(tools)[k]) = k
         /\ \A k \in DOMAIN tools : Sorted(tools)[k] = tools[From(tools)[k]]
         /\ Sorted(tools) \in Seq(Tool) /\ Len(Sorted(tools)) = Len(tools)
         /\ DOMAIN Sorted(tools) = DOMAIN tools
<1>1. \A k \in DOMAIN tools : From(tools)[k] \in DOMAIN tools /\ Position(tools, From(tools)[k]) = k
  BY PositionsPermute DEF From
<1>2. From(tools) \in Injection(DOMAIN tools, DOMAIN tools)
  BY <1>1 DEF From, Injection, IsInjective
<1>3. \A i \in DOMAIN tools : From(tools)[Position(tools, i)] = i
  BY <1>1, PositionsPermute
<1>4. From(tools) \in Bijection(DOMAIN tools, DOMAIN tools)
  <2>1. From(tools) \in Surjection(DOMAIN tools, DOMAIN tools)
    <3>1. From(tools) \in [DOMAIN tools -> DOMAIN tools]
      BY <1>1 DEF From
    <3> QED BY <1>3, <3>1, PositionsPermute DEF Surjection
  <2> QED BY <1>2, <2>1 DEF Bijection
<1>5. \A k \in DOMAIN tools : Sorted(tools)[k] = tools[From(tools)[k]]
  BY DEF Sorted, From
<1>6. Len(tools) \in Nat /\ DOMAIN tools = 1..Len(tools)
  OBVIOUS
<1>7. DOMAIN Sorted(tools) = 1..Len(tools) /\ Sorted(tools) \in [1..Len(tools) -> Tool]
  <2>1. \A k \in DOMAIN tools : tools[From(tools)[k]] \in Tool
    BY <1>1
  <2>2. Sorted(tools) = [k \in DOMAIN tools |-> tools[From(tools)[k]]]
    BY DEF Sorted, From
  <2> QED BY <1>6, <2>1, <2>2
<1>8. Sorted(tools) \in Seq(Tool) /\ Len(Sorted(tools)) = Len(tools)
  BY <1>6, <1>7
<1> QED BY <1>1, <1>4, <1>5, <1>6, <1>7, <1>8

-----------------------------------------------------------------------------
(* What becomes of the tools of a body b, c telling whether some of its    *)
(* text was compressed.                                                    *)
AddsBreakpoint(b) == shape # "openai" /\ ~CacheMarked(b.tools) /\ ~b.marked
Order(b) == IF CacheMarked(b.tools) THEN [k \in DOMAIN b.tools |-> k] ELSE From(b.tools)

(* Rewriting a tool in place.                                              *)
LEMMA Rewritten ==
  ASSUME NEW t \in Tool
  PROVE  /\ [t EXCEPT !.schema = "canonical"] \in Tool
         /\ [t EXCEPT !.schema = "canonical"].def = t.def
         /\ [t EXCEPT !.schema = "canonical"].layout = t.layout
         /\ [t EXCEPT !.schema = "canonical"].schema = "canonical"
         /\ [t EXCEPT !.schema = "canonical"].cache = t.cache
         /\ [t EXCEPT !.cache = TRUE] \in Tool
         /\ [t EXCEPT !.cache = TRUE].def = t.def
         /\ [t EXCEPT !.cache = TRUE].layout = t.layout
         /\ [t EXCEPT !.cache = TRUE].schema = t.schema
         /\ [t EXCEPT !.cache = TRUE].cache = TRUE
BY DEF Tool

LEMMA IsSequence ==
  ASSUME NEW S, NEW n \in Nat, NEW f, f = [k \in 1..n |-> f[k]], \A k \in 1..n : f[k] \in S
  PROVE  f \in Seq(S) /\ Len(f) = n
OBVIOUS

LEMMA CanonicalIs ==
  ASSUME NEW tools \in Seq(Tool)
  PROVE  /\ Canonical(tools) \in Seq(Tool) /\ Len(Canonical(tools)) = Len(tools)
         /\ DOMAIN Canonical(tools) = DOMAIN tools
         /\ \A k \in DOMAIN tools :
              /\ Canonical(tools)[k] \in Tool
              /\ Canonical(tools)[k].def = tools[k].def
              /\ Canonical(tools)[k].layout = tools[k].layout
              /\ Canonical(tools)[k].schema = "canonical"
              /\ Canonical(tools)[k].cache = tools[k].cache
<1>0. PICK c : c = Canonical(tools)
  OBVIOUS
<1>1. Len(tools) \in Nat /\ DOMAIN tools = 1..Len(tools) /\ \A k \in DOMAIN tools : tools[k] \in Tool
  OBVIOUS
<1>2. c = [k \in DOMAIN tools |-> [tools[k] EXCEPT !.schema = "canonical"]]
  BY <1>0 DEF Canonical
<1>3. ASSUME NEW k \in DOMAIN tools
      PROVE  /\ c[k] \in Tool
             /\ c[k].def = tools[k].def /\ c[k].layout = tools[k].layout
             /\ c[k].schema = "canonical" /\ c[k].cache = tools[k].cache
  <2>1. c[k] = [tools[k] EXCEPT !.schema = "canonical"] /\ tools[k] \in Tool
    BY <1>1, <1>2
  <2> QED BY <2>1, Rewritten, ZenonT(30)
<1>4. c \in Seq(Tool) /\ Len(c) = Len(tools)
  BY <1>1, <1>2, <1>3, IsSequence
<1>5. DOMAIN c = DOMAIN tools
  BY <1>2
<1> QED BY <1>0, <1>3, <1>4, <1>5

LEMMA NormalizedIs ==
  ASSUME NEW b \in Body
  PROVE  /\ Normalized(b) \in Seq(Tool) /\ Len(Normalized(b)) = Len(b.tools)
         /\ DOMAIN Normalized(b) = DOMAIN b.tools
         /\ Order(b) \in Bijection(DOMAIN b.tools, DOMAIN b.tools)
         /\ \A k \in DOMAIN b.tools :
              /\ Normalized(b)[k].def = b.tools[Order(b)[k]].def
              /\ Normalized(b)[k].layout = b.tools[Order(b)[k]].layout
              /\ Normalized(b)[k].schema = "canonical"
              /\ Normalized(b)[k].cache <=>
                   \/ b.tools[Order(b)[k]].cache
                   \/ AddsBreakpoint(b) /\ k = Len(b.tools)
<1>1. /\ b.tools \in Seq(Tool) /\ Len(b.tools) \in Nat /\ DOMAIN b.tools = 1..Len(b.tools)
      /\ \A k \in DOMAIN b.tools : b.tools[k] \in Tool
  BY DEF Body
<1>a. PICK moved : moved = IF CacheMarked(b.tools) THEN b.tools ELSE Sorted(b.tools)
  OBVIOUS
<1>2. /\ moved \in Seq(Tool) /\ Len(moved) = Len(b.tools) /\ DOMAIN moved = DOMAIN b.tools
      /\ Order(b) \in Bijection(DOMAIN b.tools, DOMAIN b.tools)
      /\ \A k \in DOMAIN b.tools : moved[k] = b.tools[Order(b)[k]]
  <2>1. CASE CacheMarked(b.tools)
    <3>1. Order(b) = [k \in DOMAIN b.tools |-> k]
      BY <2>1 DEF Order
    <3>2. Order(b) \in Bijection(DOMAIN b.tools, DOMAIN b.tools)
      BY <3>1 DEF Bijection, Injection, IsInjective, Surjection
    <3>3. moved = b.tools
      BY <1>a, <2>1
    <3> QED BY <1>1, <3>1, <3>2, <3>3
  <2>2. CASE ~CacheMarked(b.tools)
    <3>1. moved = Sorted(b.tools) /\ Order(b) = From(b.tools)
      BY <1>a, <2>2 DEF Order
    <3> QED BY <1>1, <3>1, SortedFrom
  <2> QED BY <2>1, <2>2
<1>b. PICK plain : plain = Canonical(moved)
  OBVIOUS
<1>4. /\ plain \in Seq(Tool) /\ Len(plain) = Len(b.tools) /\ DOMAIN plain = DOMAIN b.tools
      /\ \A k \in DOMAIN b.tools :
           /\ plain[k] \in Tool
           /\ plain[k].def = moved[k].def /\ plain[k].layout = moved[k].layout
           /\ plain[k].schema = "canonical" /\ plain[k].cache = moved[k].cache
  BY <1>b, <1>2, CanonicalIs
<1>c. PICK norm : norm = Normalized(b)
  OBVIOUS
<1>5. norm = Breakpoint(b, plain)
  BY <1>a, <1>b, <1>c DEF Normalized
<1>6. CASE AddsBreakpoint(b) /\ b.tools # << >>
  <2>0. PICK n : n = Len(b.tools)
    OBVIOUS
  <2>1. n \in DOMAIN b.tools /\ plain # << >> /\ n = Len(plain)
    BY <1>1, <1>4, <1>6, <2>0
  <2>2. norm = [plain EXCEPT ![n].cache = TRUE]
    BY <1>5, <1>6, <2>1 DEF Breakpoint, AddsBreakpoint
  <2>3. norm = [k \in DOMAIN b.tools |-> IF k = n THEN [plain[n] EXCEPT !.cache = TRUE] ELSE plain[k]]
    BY <1>4, <2>1, <2>2
  <2>4. ASSUME NEW k \in DOMAIN b.tools
        PROVE  /\ norm[k] \in Tool
               /\ norm[k].def = plain[k].def /\ norm[k].layout = plain[k].layout
               /\ norm[k].schema = plain[k].schema
               /\ norm[k].cache <=> plain[k].cache \/ k = n
    <3>1. CASE k = n
      <4>1. norm[k] = [plain[k] EXCEPT !.cache = TRUE] /\ plain[k] \in Tool
        BY <1>4, <2>3, <3>1
      <4> QED BY <3>1, <4>1, Rewritten
    <3>2. CASE k # n
      <4>1. norm[k] = plain[k] /\ plain[k] \in Tool
        BY <1>4, <2>3, <3>2
      <4> QED BY <3>2, <4>1
    <3> QED BY <3>1, <3>2
  <2>5. norm \in Seq(Tool) /\ Len(norm) = Len(b.tools) /\ DOMAIN norm = DOMAIN b.tools
    <3>1. DOMAIN norm = DOMAIN b.tools /\ norm = [k \in DOMAIN b.tools |-> norm[k]]
      BY <2>3
    <3>2. norm = [k \in 1..Len(b.tools) |-> norm[k]] /\ \A k \in 1..Len(b.tools) : norm[k] \in Tool
      BY <1>1, <2>4, <3>1
    <3>3. norm \in Seq(Tool) /\ Len(norm) = Len(b.tools)
      BY <1>1, <3>2, IsSequence
    <3> QED BY <3>1, <3>3
  <2> QED BY <1>c, <1>2, <1>4, <1>6, <2>0, <2>4, <2>5, SMTT(30)
<1>7. CASE ~(AddsBreakpoint(b) /\ b.tools # << >>)
  <2>1. norm = plain
    BY <1>1, <1>4, <1>5, <1>7 DEF Breakpoint, AddsBreakpoint
  <2>2. AddsBreakpoint(b) => DOMAIN b.tools = {}
    BY <1>1, <1>7
  <2> QED BY <1>c, <1>2, <1>4, <2>1, <2>2
<1> QED BY <1>6, <1>7

(* The tools and the key that leave for the provider, c telling whether    *)
(* text of the body was compressed.                                        *)
Given(b) == IF managed /\ b.content # "many" THEN Normalized(b) ELSE b.tools
Wants(b, c) == b.content # "many" /\ (c \/ (b.content = "marker" /\ shape # "batch"))
Offered(b, c) ==
  IF Wants(b, c) /\ ~HasRetriever(Given(b))
  THEN Append(Given(b), RetrieveTool(OwnLayout)) ELSE Given(b)
Keyed(b, tools) ==
  IF managed /\ shape = "openai" /\ b.key = NoKey /\ b.content # "many"
  THEN [by |-> "proxy", of |-> <<b.head, Values(tools)>>] ELSE b.key
Sent(b, c) == [b EXCEPT !.tools = Offered(b, c), !.key = Keyed(b, Offered(b, c))]

TypeInv ==
  /\ shape \in Shape /\ managed \in BOOLEAN /\ compressed \in BOOLEAN
  /\ stage \in {"receive", "compress", "offer", "derive", "sent"}
  /\ asked \in BodyOf[shape] /\ asked \in Body

(* The wire at each stage is what the stages so far make of the request.   *)
WireInv ==
  /\ stage = "receive" => wire = asked
  /\ stage \in {"compress", "offer"} =>
       asked.content # "many" /\ wire = [asked EXCEPT !.tools = Given(asked)]
  /\ stage = "derive" =>
       asked.content # "many" /\ wire = [asked EXCEPT !.tools = Offered(asked, compressed)]
  /\ stage = "sent" => wire = Sent(asked, compressed)

BeforeInv ==
  \/ before = << >>
  \/ \E a \in BodyOf[shape], c \in BOOLEAN : before = <<[asked |-> a, wire |-> Sent(a, c)]>>

(* Only text that is there is compressed, once the request is read.        *)
CompressedInv ==
  /\ stage \in {"receive", "compress"} => ~compressed
  /\ compressed => asked.content = "live"

MetadataInv == TypeInv /\ WireInv /\ BeforeInv /\ CompressedInv

LEMMA BodyFields ==
  ASSUME NEW b \in Body, NEW t, NEW k
  PROVE  /\ [b EXCEPT !.tools = t].tools = t /\ [b EXCEPT !.tools = t].head = b.head
         /\ [b EXCEPT !.tools = t].key = b.key /\ [b EXCEPT !.tools = t].content = b.content
         /\ [[b EXCEPT !.tools = t] EXCEPT !.key = k] = [b EXCEPT !.tools = t, !.key = k]
         /\ [b EXCEPT !.tools = t, !.key = b.key] = [b EXCEPT !.tools = t]
         /\ [b EXCEPT !.tools = b.tools] = b
         /\ \A u : [[b EXCEPT !.tools = t] EXCEPT !.tools = u] = [b EXCEPT !.tools = u]
         /\ [b EXCEPT !.tools = t, !.key = k].tools = t
         /\ [b EXCEPT !.tools = t, !.key = k].key = k
         /\ [b EXCEPT !.tools = t, !.key = k].head = b.head
BY DEF Body

(* Neither the shape nor the management of a conversation changes.         *)
LEMMA Settled ==
  ASSUME UNCHANGED <<shape, managed>>
  PROVE  /\ \A b : Given(b)' = Given(b)
         /\ \A b, c : Offered(b, c)' = Offered(b, c) /\ Sent(b, c)' = Sent(b, c)
<1>1. \A b, t : Breakpoint(b, t)' = Breakpoint(b, t)
  BY DEF Breakpoint
<1>2. \A b : Given(b)' = Given(b)
  BY <1>1 DEF Given, Normalized
<1>3. \A b, c : Wants(b, c)' = Wants(b, c)
  BY DEF Wants
<1>4. \A b, c : Offered(b, c)' = Offered(b, c)
  BY <1>2, <1>3 DEF Offered
<1>5. \A b, t : Keyed(b, t)' = Keyed(b, t)
  BY DEF Keyed
<1> QED BY <1>2, <1>4, <1>5 DEF Sent

LEMMA MetadataInit == Init => MetadataInv
<1> SUFFICES ASSUME Init PROVE MetadataInv
  OBVIOUS
<1>1. asked \in BodyOf[shape] /\ BodyOf[shape] \subseteq Body
  BY ProviderMetadataAssumption DEF Init
<1> QED BY <1>1 DEF Init, MetadataInv, TypeInv, WireInv, BeforeInv, CompressedInv

LEMMA MetadataStep == MetadataInv /\ [Next]_vars => MetadataInv'
<1> SUFFICES ASSUME MetadataInv, [Next]_vars
             PROVE  MetadataInv'
  OBVIOUS
<1> USE DEF MetadataInv
<1>1. UNCHANGED <<shape, managed>>
  BY DEF Next, vars, Normalize, CompressLive, Offer, DeriveKey, NextTurn
<1>2. asked \in Body /\ TypeInv
  BY DEF TypeInv
<1>3. UNCHANGED before => BeforeInv'
  BY <1>1, Settled DEF BeforeInv
<1>4. CASE Normalize
  <2>1. /\ UNCHANGED <<shape, managed, asked, compressed, before>> /\ wire = asked /\ ~compressed
        /\ stage' = IF asked.content = "many" THEN "sent" ELSE "compress"
        /\ wire' = IF managed /\ asked.content # "many"
                   THEN [asked EXCEPT !.tools = Normalized(asked)] ELSE asked
    BY <1>4 DEF Normalize, WireInv, CompressedInv
  <2>2. WireInv'
    <3>1. CASE asked.content = "many"
      <4>1. Given(asked) = asked.tools /\ Offered(asked, compressed) = asked.tools
        BY <3>1 DEF Given, Offered, Wants
      <4>2. Keyed(asked, asked.tools) = asked.key
        BY <3>1 DEF Keyed
      <4>3. Sent(asked, compressed) = asked
        <5>1. Sent(asked, compressed) = [asked EXCEPT !.tools = asked.tools, !.key = asked.key]
          BY <4>1, <4>2 DEF Sent
        <5>2. Sent(asked, compressed) = [asked EXCEPT !.tools = asked.tools]
          BY <1>2, <5>1, BodyFields
        <5> QED BY <1>2, <5>2, BodyFields
      <4>4. Sent(asked, compressed)' = asked
        BY <1>1, <2>1, <4>3, Settled
      <4> QED BY <2>1, <3>1, <4>4 DEF WireInv
    <3>2. CASE asked.content # "many"
      <4>1. wire' = [asked EXCEPT !.tools = Given(asked)]
        BY <1>2, <2>1, <3>2, BodyFields DEF Given
      <4>2. Given(asked)' = Given(asked)
        BY <1>1, <2>1, Settled
      <4> QED BY <2>1, <3>2, <4>1, <4>2 DEF WireInv
    <3> QED BY <3>1, <3>2
  <2> QED BY <1>2, <1>3, <2>1, <2>2 DEF TypeInv, CompressedInv
<1>5. CASE CompressLive
  <2>1. /\ UNCHANGED <<shape, managed, asked, wire, before>>
        /\ stage = "compress" /\ stage' = "offer" /\ compressed' \in BOOLEAN
        /\ compressed' => asked.content = "live"
    BY <1>5 DEF CompressLive
  <2>2. Given(asked)' = Given(asked)
    BY <1>1, <2>1, Settled
  <2>3. WireInv'
    BY <2>1, <2>2 DEF WireInv
  <2> QED BY <1>2, <1>3, <2>1, <2>3 DEF TypeInv, CompressedInv
<1>6. CASE Offer
  <2>1. /\ UNCHANGED <<shape, managed, asked, compressed, before>>
        /\ stage = "offer" /\ stage' = "derive" /\ asked.content # "many"
        /\ wire = [asked EXCEPT !.tools = Given(asked)]
    BY <1>6 DEF Offer, WireInv
  <2>2. wire.tools = Given(asked)
    BY <1>2, <2>1, BodyFields
  <2>3. Retrievable <=> Wants(asked, compressed)
    BY <2>1 DEF Retrievable, Wants
  <2>4. wire' = [asked EXCEPT !.tools = Offered(asked, compressed)]
    <3>1. CASE Retrievable /\ ~HasRetriever(wire.tools)
      <4>1. wire' = [wire EXCEPT !.tools = Append(Given(asked), RetrieveTool(OwnLayout))]
        BY <1>6, <2>2, <3>1 DEF Offer
      <4>2. Offered(asked, compressed) = Append(Given(asked), RetrieveTool(OwnLayout))
        BY <2>2, <2>3, <3>1 DEF Offered
      <4>3. wire' = [[asked EXCEPT !.tools = Given(asked)]
                       EXCEPT !.tools = Append(Given(asked), RetrieveTool(OwnLayout))]
        BY <2>1, <4>1
      <4>4. wire' = [asked EXCEPT !.tools = Append(Given(asked), RetrieveTool(OwnLayout))]
        BY <1>2, <4>3, BodyFields, ZenonT(30)
      <4> QED BY <4>2, <4>4
    <3>2. CASE ~(Retrievable /\ ~HasRetriever(wire.tools))
      <4>1. wire' = wire
        BY <1>6, <3>2 DEF Offer
      <4>2. Offered(asked, compressed) = Given(asked)
        BY <2>2, <2>3, <3>2 DEF Offered
      <4> QED BY <2>1, <4>1, <4>2
    <3> QED BY <3>1, <3>2
  <2>5. Offered(asked, compressed)' = Offered(asked, compressed)
    BY <1>1, <2>1, Settled
  <2>6. WireInv'
    BY <2>1, <2>4, <2>5 DEF WireInv
  <2> QED BY <1>2, <1>3, <2>1, <2>6 DEF TypeInv, CompressedInv
<1>7. CASE DeriveKey
  <2>1. /\ UNCHANGED <<shape, managed, asked, compressed, before>>
        /\ stage = "derive" /\ stage' = "sent" /\ asked.content # "many"
        /\ wire = [asked EXCEPT !.tools = Offered(asked, compressed)]
    BY <1>7 DEF DeriveKey, WireInv
  <2>2. /\ wire.tools = Offered(asked, compressed) /\ wire.head = asked.head
        /\ wire.key = asked.key
    BY <1>2, <2>1, BodyFields
  <2>3. wire' = Sent(asked, compressed)
    <3>1. CASE managed /\ shape = "openai" /\ asked.key = NoKey
      <4>1. wire' = [wire EXCEPT !.key = [by |-> "proxy",
                                          of |-> <<asked.head, Values(Offered(asked, compressed))>>]]
        BY <1>7, <2>2, <3>1 DEF DeriveKey, Derived
      <4>2. Keyed(asked, Offered(asked, compressed)) =
              [by |-> "proxy", of |-> <<asked.head, Values(Offered(asked, compressed))>>]
        BY <2>1, <3>1 DEF Keyed
      <4>3. wire' = [wire EXCEPT !.key = Keyed(asked, Offered(asked, compressed))]
        BY <4>1, <4>2
      <4> QED BY <1>2, <2>1, <4>3, BodyFields DEF Sent
    <3>2. CASE ~(managed /\ shape = "openai" /\ asked.key = NoKey)
      <4>1. wire' = wire
        BY <1>7, <2>2, <3>2 DEF DeriveKey
      <4>2. Keyed(asked, Offered(asked, compressed)) = asked.key
        BY <3>2 DEF Keyed
      <4>3. Sent(asked, compressed)
              = [asked EXCEPT !.tools = Offered(asked, compressed), !.key = asked.key]
        BY <4>2 DEF Sent
      <4>4. Sent(asked, compressed) = [asked EXCEPT !.tools = Offered(asked, compressed)]
        BY <1>2, <4>3, BodyFields
      <4> QED BY <2>1, <4>1, <4>4
    <3> QED BY <3>1, <3>2
  <2>4. Sent(asked, compressed)' = Sent(asked, compressed)
    BY <1>1, <2>1, Settled
  <2>5. WireInv'
    BY <2>1, <2>3, <2>4 DEF WireInv
  <2> QED BY <1>2, <1>3, <2>1, <2>5 DEF TypeInv, CompressedInv
<1>8. ASSUME NEW b \in BodyOf[shape], NextTurn(b)
      PROVE  MetadataInv'
  <2>1. /\ stage = "sent" /\ stage' = "receive" /\ asked' = b /\ wire' = b /\ compressed' = FALSE
        /\ before' = <<[asked |-> asked, wire |-> wire]>>
    BY <1>8 DEF NextTurn
  <2>2. b \in Body
    BY <1>2, ProviderMetadataAssumption DEF TypeInv
  <2>3. wire = Sent(asked, compressed)
    BY <2>1 DEF WireInv
  <2>4. \A a, c : Sent(a, c)' = Sent(a, c)
    BY <1>1, Settled
  <2>5. before' = <<[asked |-> asked, wire |-> Sent(asked, compressed)]>>
    BY <2>1, <2>3
  <2>6. BeforeInv'
    BY <1>1, <1>2, <2>4, <2>5 DEF BeforeInv, TypeInv
  <2> QED BY <1>1, <1>2, <2>1, <2>2, <2>6 DEF TypeInv, WireInv, CompressedInv
<1>9. CASE UNCHANGED vars
  <2>1. /\ Given(asked)' = Given(asked)
        /\ Offered(asked, compressed)' = Offered(asked, compressed)
        /\ Sent(asked, compressed)' = Sent(asked, compressed)
    BY <1>1, <1>9, Settled DEF vars
  <2> QED BY <1>2, <1>3, <1>9, <2>1 DEF vars, TypeInv, WireInv, CompressedInv
<1> QED BY <1>4, <1>5, <1>6, <1>7, <1>8, <1>9 DEF Next

LEMMA AlwaysMetadataInv == Spec => []MetadataInv
BY MetadataInit, MetadataStep, PTL DEF Spec

-----------------------------------------------------------------------------
(* The client's tools are still there, in some order, and only the         *)
(* retrieval tool may follow them.                                         *)
LEMMA GivenIs ==
  ASSUME NEW b \in Body
  PROVE  /\ b.tools \in Seq(Tool) /\ Len(b.tools) \in Nat /\ DOMAIN b.tools = 1..Len(b.tools)
         /\ Given(b) \in Seq(Tool) /\ Len(Given(b)) = Len(b.tools)
         /\ DOMAIN Given(b) = DOMAIN b.tools
         /\ \E p \in Bijection(DOMAIN b.tools, DOMAIN b.tools) :
              \A k \in DOMAIN b.tools : Given(b)[k].def = b.tools[p[k]].def
<1>1. b.tools \in Seq(Tool) /\ Len(b.tools) \in Nat /\ DOMAIN b.tools = 1..Len(b.tools)
  BY DEF Body
<1>2. CASE managed /\ b.content # "many"
  <2>1. Given(b) = Normalized(b)
    BY <1>2 DEF Given
  <2> QED BY <1>1, <2>1, NormalizedIs
<1>3. CASE ~(managed /\ b.content # "many")
  <2>1. Given(b) = b.tools
    BY <1>3 DEF Given
  <2>2. [k \in DOMAIN b.tools |-> k] \in Bijection(DOMAIN b.tools, DOMAIN b.tools)
    BY DEF Bijection, Injection, IsInjective, Surjection
  <2> QED BY <1>1, <2>1, <2>2
<1> QED BY <1>2, <1>3

LEMMA OfferedIs ==
  ASSUME NEW b \in Body, NEW c
  PROVE  /\ Offered(b, c) \in Seq(Tool) /\ DOMAIN Offered(b, c) = 1..Len(Offered(b, c))
         /\ \A k \in 1..Len(b.tools) : Offered(b, c)[k] = Given(b)[k]
         /\ ~(Wants(b, c) /\ ~HasRetriever(Given(b))) => Offered(b, c) = Given(b)
         /\ Wants(b, c) /\ ~HasRetriever(Given(b)) =>
              /\ Len(Offered(b, c)) = Len(b.tools) + 1
              /\ Offered(b, c)[Len(b.tools) + 1] = RetrieveTool(OwnLayout)
<1>1. RetrieveTool(OwnLayout) \in Tool
  BY ProviderMetadataAssumption DEF RetrieveTool, OwnLayout, Tool
<1>2. /\ Len(b.tools) \in Nat /\ Given(b) \in Seq(Tool) /\ Len(Given(b)) = Len(b.tools)
      /\ DOMAIN Given(b) = 1..Len(b.tools)
  BY GivenIs
<1>3. CASE Wants(b, c) /\ ~HasRetriever(Given(b))
  <2>1. Offered(b, c) = Append(Given(b), RetrieveTool(OwnLayout))
    BY <1>3 DEF Offered
  <2> QED BY <1>1, <1>2, <1>3, <2>1
<1>4. CASE ~(Wants(b, c) /\ ~HasRetriever(Given(b)))
  <2>1. Offered(b, c) = Given(b)
    BY <1>4 DEF Offered
  <2> QED BY <1>2, <1>4, <2>1
<1> QED BY <1>3, <1>4

(* What is sent.                                                           *)
LEMMA SentIs ==
  ASSUME NEW b \in Body, NEW c
  PROVE  /\ Sent(b, c).tools = Offered(b, c)
         /\ Sent(b, c).key = Keyed(b, Offered(b, c))
BY DEF Sent, Body

LEMMA BeforeIs ==
  ASSUME MetadataInv, before # << >>
  PROVE  /\ before[1].asked \in Body
         /\ \E c \in BOOLEAN : before[1].wire = Sent(before[1].asked, c)
<1>1. PICK a \in BodyOf[shape], c \in BOOLEAN :
        before = <<[asked |-> a, wire |-> Sent(a, c)]>>
  BY DEF MetadataInv, BeforeInv
<1>2. BodyOf[shape] \subseteq Body
  BY ProviderMetadataAssumption DEF MetadataInv, TypeInv
<1> QED BY <1>1, <1>2

(* A permutation changes no count.                                         *)
LEMMA TimesPermuted ==
  ASSUME NEW t, NEW u, DOMAIN t = DOMAIN u, IsFiniteSet(DOMAIN u),
         NEW p \in Bijection(DOMAIN u, DOMAIN u),
         \A k \in DOMAIN u : t[k].def = u[p[k]].def,
         NEW d
  PROVE  Times(t, d) = Times(u, d)
<1> DEFINE A == {i \in DOMAIN t : t[i].def = d}
           B == {i \in DOMAIN u : u[i].def = d}
           f == [i \in A |-> p[i]]
<1>1. f \in [A -> B]
  BY DEF Bijection, Injection
<1>2. f \in Injection(A, B)
  BY <1>1 DEF Bijection, Injection, IsInjective
<1>3. \A j \in B : \E i \in A : f[i] = j
  BY DEF Bijection, Surjection
<1>4. f \in Bijection(A, B)
  BY <1>1, <1>2, <1>3 DEF Bijection, Surjection
<1>5. IsFiniteSet(A)
  BY FS_Subset
<1>6. Cardinality(B) = Cardinality(A)
  BY <1>4, <1>5, FS_Bijection DEF ExistsBijection
<1> QED BY <1>6 DEF Times

LEMMA KeepsTools == MetadataInv => ToolsAreKept
<1> SUFFICES ASSUME MetadataInv, stage = "sent", NEW d \in Def
             PROVE  Times(wire.tools, d) =
                      IF /\ d = Retrieve /\ ~HasRetriever(asked.tools)
                         /\ Retrievable /\ asked.content # "many"
                      THEN 1 ELSE Times(asked.tools, d)
  BY DEF ToolsAreKept
<1> DEFINE offered == Offered(asked, compressed)
           given == Given(asked)
           n == Len(asked.tools)
<1>1. asked \in Body /\ wire = Sent(asked, compressed)
  BY DEF MetadataInv, TypeInv, WireInv
<1>2. wire.tools = offered
  BY <1>1, SentIs
<1>3. /\ n \in Nat /\ DOMAIN asked.tools = 1..n /\ DOMAIN given = 1..n
      /\ Len(given) = n /\ IsFiniteSet(DOMAIN asked.tools)
  <2>1. n \in Nat /\ DOMAIN asked.tools = 1..n /\ DOMAIN given = 1..n /\ Len(given) = n
    BY <1>1, GivenIs
  <2>2. IsFiniteSet(1..n)
    BY <2>1, FS_Interval
  <2> QED BY <2>1, <2>2
<1>4. PICK p \in Bijection(DOMAIN asked.tools, DOMAIN asked.tools) :
        \A k \in DOMAIN asked.tools : given[k].def = asked.tools[p[k]].def
  BY <1>1, GivenIs
<1>5. Times(given, d) = Times(asked.tools, d)
  BY <1>3, <1>4, TimesPermuted
<1>6. HasRetriever(given) <=> HasRetriever(asked.tools)
  <2>1. /\ \A k \in DOMAIN asked.tools : p[k] \in DOMAIN asked.tools
        /\ \A j \in DOMAIN asked.tools : \E k \in DOMAIN asked.tools : p[k] = j
    BY <1>4 DEF Bijection, Injection, Surjection
  <2>2. DOMAIN given = DOMAIN asked.tools
    BY <1>3
  <2>3. ASSUME NEW i \in DOMAIN given, given[i].def \in Retriever
        PROVE  \E j \in DOMAIN asked.tools : asked.tools[j].def \in Retriever
    <3>1. i \in DOMAIN asked.tools
      BY <2>2
    <3>2. p[i] \in DOMAIN asked.tools /\ given[i].def = asked.tools[p[i]].def
      BY <1>4, <2>1, <3>1
    <3> QED BY <2>3, <3>2
  <2>4. ASSUME NEW j \in DOMAIN asked.tools, asked.tools[j].def \in Retriever
        PROVE  \E i \in DOMAIN given : given[i].def \in Retriever
    <3>1. PICK k \in DOMAIN asked.tools : p[k] = j
      BY <2>1
    <3>2. given[k].def = asked.tools[j].def /\ k \in DOMAIN given
      BY <1>4, <2>2, <3>1
    <3> QED BY <2>4, <3>2
  <2> QED BY <2>3, <2>4 DEF HasRetriever
<1>7. Retrievable /\ asked.content # "many" <=> Wants(asked, compressed)
  BY DEF Retrievable, Wants
<1>8. CASE Wants(asked, compressed) /\ ~HasRetriever(given)
  <2>1. /\ DOMAIN offered = 1..(n + 1) /\ offered[n + 1].def = Retrieve
        /\ \A k \in 1..n : offered[k] = given[k]
    BY <1>1, <1>8, OfferedIs DEF RetrieveTool
  <2>2. CASE d = Retrieve
    <3>1. \A k \in 1..n : given[k].def # Retrieve
      BY <1>3, <1>8, ProviderMetadataAssumption DEF HasRetriever
    <3>2. {i \in DOMAIN offered : offered[i].def = d} = {n + 1}
      BY <1>3, <2>1, <2>2, <3>1
    <3>3. Times(offered, d) = 1
      BY <3>2, FS_Singleton DEF Times
    <3> QED BY <1>2, <1>6, <1>7, <1>8, <2>2, <3>3
  <2>3. CASE d # Retrieve
    <3>1. {i \in DOMAIN offered : offered[i].def = d} = {i \in DOMAIN given : given[i].def = d}
      BY <1>3, <2>1, <2>3
    <3>2. Times(offered, d) = Times(given, d)
      BY <3>1 DEF Times
    <3> QED BY <1>2, <1>5, <2>3, <3>2
  <2> QED BY <2>2, <2>3
<1>9. CASE ~(Wants(asked, compressed) /\ ~HasRetriever(given))
  <2>1. offered = given
    BY <1>1, <1>9, OfferedIs
  <2>2. Times(wire.tools, d) = Times(asked.tools, d)
    BY <1>2, <1>5, <2>1
  <2> QED BY <1>6, <1>7, <1>9, <2>2
<1> QED BY <1>8, <1>9

LEMMA KeyFollows == MetadataInv => KeyFollowsWire
<1> SUFFICES ASSUME MetadataInv, Compared, wire.key.by = "proxy", before[1].wire.key.by = "proxy"
             PROVE  wire.key = before[1].wire.key
                    <=> /\ asked.head = before[1].asked.head
                        /\ Values(wire.tools) = Values(before[1].wire.tools)
  BY DEF KeyFollowsWire
<1>1. asked \in Body /\ wire = Sent(asked, compressed)
  BY DEF MetadataInv, TypeInv, WireInv, Compared
<1>2. before[1].asked \in Body /\ \E c \in BOOLEAN : before[1].wire = Sent(before[1].asked, c)
  BY BeforeIs DEF Compared
<1>3. ASSUME NEW b \in Body, NEW c, Sent(b, c).key.by = "proxy"
      PROVE  Sent(b, c).key = [by |-> "proxy", of |-> <<b.head, Values(Sent(b, c).tools)>>]
  <2>1. b.key.by # "proxy"
    BY DEF Body, NoKey, ClientKey
  <2>2. Sent(b, c).tools = Offered(b, c) /\ Sent(b, c).key = Keyed(b, Offered(b, c))
    BY SentIs
  <2>3. Sent(b, c).key # b.key
    BY <1>3, <2>1
  <2>4. Keyed(b, Offered(b, c)) = [by |-> "proxy", of |-> <<b.head, Values(Offered(b, c))>>]
    BY <2>2, <2>3 DEF Keyed
  <2> QED BY <2>2, <2>4
<1>4. wire.key = [by |-> "proxy", of |-> <<asked.head, Values(wire.tools)>>]
  BY <1>1, <1>3
<1>5. before[1].wire.key =
        [by |-> "proxy", of |-> <<before[1].asked.head, Values(before[1].wire.tools)>>]
  BY <1>2, <1>3
<1> QED BY <1>4, <1>5

(* Where the client set a breakpoint its tools keep their places, and the  *)
(* proxy adds none.                                                        *)
LEMMA BreakpointsKept == MetadataInv => BreakpointsAreTheClients
<1> DEFINE breaks == {i \in DOMAIN wire.tools : wire.tools[i].cache}
           own == {i \in DOMAIN asked.tools : asked.tools[i].cache}
           offered == Offered(asked, compressed)
           given == Given(asked)
           n == Len(asked.tools)
           theirs == CacheMarked(asked.tools) \/ asked.marked \/ shape = "openai" \/ ~managed
<1> SUFFICES ASSUME MetadataInv, stage = "sent"
             PROVE  IF theirs
                    THEN /\ breaks = own
                         /\ \A i \in breaks : UpTo(wire.tools, i) = UpTo(asked.tools, i)
                    ELSE breaks = {n} \ {0}
  BY DEF BreakpointsAreTheClients
<1>1. asked \in Body /\ wire = Sent(asked, compressed) /\ shape \in Shape
      /\ asked \in BodyOf[shape]
  BY DEF MetadataInv, TypeInv, WireInv
<1>2. wire.tools = offered
  BY <1>1, SentIs
<1>3. /\ n \in Nat /\ DOMAIN asked.tools = 1..n /\ DOMAIN given = 1..n
      /\ asked.tools \in Seq(Tool) /\ given \in Seq(Tool)
      /\ \A k \in 1..n : asked.tools[k] \in Tool /\ given[k] \in Tool
  <2>1. /\ n \in Nat /\ DOMAIN asked.tools = 1..n /\ DOMAIN given = 1..n
        /\ asked.tools \in Seq(Tool) /\ given \in Seq(Tool)
    BY <1>1, GivenIs
  <2>2. \A s \in Seq(Tool) : \A k \in DOMAIN s : s[k] \in Tool
    OBVIOUS
  <2> QED BY <2>1, <2>2
<1>4. /\ offered \in Seq(Tool) /\ DOMAIN offered = 1..Len(offered)
      /\ \A k \in 1..n : offered[k] = given[k]
  BY <1>1, OfferedIs
<1>5. /\ Len(offered) \in Nat
      /\ \A k \in DOMAIN offered : k \in 1..n \/ ~offered[k].cache
      /\ 1..n \subseteq DOMAIN offered
  <2>1. CASE Wants(asked, compressed) /\ ~HasRetriever(given)
    <3>1. Len(offered) = n + 1 /\ offered[n + 1] = RetrieveTool(OwnLayout)
      BY <1>1, <2>1, OfferedIs
    <3>2. ~offered[n + 1].cache
      BY <3>1 DEF RetrieveTool
    <3>3. DOMAIN offered = 1..(n + 1)
      BY <1>4, <3>1
    <3>4. 1..(n + 1) = (1..n) \cup {n + 1} /\ n + 1 \in Nat
      BY <1>3
    <3> QED BY <3>1, <3>2, <3>3, <3>4
  <2>2. CASE ~(Wants(asked, compressed) /\ ~HasRetriever(given))
    <3>1. offered = given
      BY <1>1, <2>2, OfferedIs
    <3> QED BY <1>3, <3>1
  <2> QED BY <2>1, <2>2
<1>6. breaks = {k \in 1..n : given[k].cache}
  BY <1>2, <1>4, <1>5
<1>7. CASE theirs
  <2>1. \A k \in 1..n : given[k].cache = asked.tools[k].cache
                        /\ (CacheMarked(asked.tools) => given[k].def = asked.tools[k].def)
    <3>1. CASE managed /\ asked.content # "many"
      <4>1. given = Normalized(asked)
        BY <3>1 DEF Given
      <4>2. ~AddsBreakpoint(asked)
        BY <1>7, <3>1 DEF AddsBreakpoint
      <4>3. \A k \in 1..n : /\ given[k].def = asked.tools[Order(asked)[k]].def
                            /\ given[k].cache <=> asked.tools[Order(asked)[k]].cache
        BY <1>1, <1>3, <4>1, <4>2, NormalizedIs
      <4>4. CASE CacheMarked(asked.tools)
        <5>1. \A k \in 1..n : Order(asked)[k] = k
          BY <1>3, <4>4 DEF Order
        <5>2. \A k \in 1..n : given[k].cache \in BOOLEAN /\ asked.tools[k].cache \in BOOLEAN
          BY <1>3 DEF Tool
        <5> HIDE DEF given, n
        <5> QED BY <4>3, <5>1, <5>2
      <4>5. CASE ~CacheMarked(asked.tools)
        <5>1. \A k \in 1..n : asked.tools[k].cache = FALSE
          BY <1>3, <4>5 DEF CacheMarked, Tool
        <5>2. \A k \in 1..n : Order(asked)[k] \in 1..n
          BY <1>1, <1>3, NormalizedIs DEF Bijection, Injection
        <5>3. \A k \in 1..n : given[k] \in Tool
          BY <1>3
        <5>4. \A k \in 1..n : given[k].cache \in BOOLEAN /\ ~given[k].cache
          BY <4>3, <5>1, <5>2, <5>3 DEF Tool
        <5> QED BY <4>5, <5>1, <5>4
      <4> QED BY <4>4, <4>5
    <3>2. CASE ~(managed /\ asked.content # "many")
      <4>1. given = asked.tools
        BY <3>2 DEF Given
      <4> QED BY <4>1
    <3> QED BY <3>1, <3>2
  <2>2. breaks = own
    BY <1>3, <1>6, <2>1
  <2>3. ASSUME NEW i \in breaks
        PROVE  UpTo(wire.tools, i) = UpTo(asked.tools, i)
    <3>1. i \in 1..n /\ CacheMarked(asked.tools)
      BY <1>3, <2>2, <2>3 DEF CacheMarked
    <3>2. SubSeq(offered, 1, i) = [k \in 1..i |-> offered[k]]
      BY <1>4, <1>5, <3>1
    <3>3. SubSeq(asked.tools, 1, i) = [k \in 1..i |-> asked.tools[k]]
      BY <1>3, <3>1
    <3>4. \A k \in 1..i : k \in 1..n
      BY <1>3, <3>1
    <3>5. \A k \in 1..i : /\ offered[k].def = asked.tools[k].def
                          /\ offered[k].cache = asked.tools[k].cache
      BY <1>4, <2>1, <3>1, <3>4
    <3>6. UpTo(offered, i) = [k \in 1..i |-> [def |-> offered[k].def, cache |-> offered[k].cache]]
      BY <3>2 DEF UpTo, Values
    <3>7. UpTo(asked.tools, i)
            = [k \in 1..i |-> [def |-> asked.tools[k].def, cache |-> asked.tools[k].cache]]
      BY <3>3 DEF UpTo, Values
    <3>8. UpTo(offered, i) = UpTo(asked.tools, i)
      BY <3>5, <3>6, <3>7
    <3> QED BY <1>2, <3>8
  <2> QED BY <1>7, <2>2, <2>3
<1>8. CASE ~theirs
  <2>1. asked.content # "many"
    BY <1>1, <1>8, ProviderMetadataAssumption
  <2>2. given = Normalized(asked) /\ AddsBreakpoint(asked)
    BY <1>8, <2>1 DEF Given, AddsBreakpoint
  <2>3. \A k \in 1..n : Order(asked)[k] \in 1..n
    BY <1>1, <1>3, NormalizedIs DEF Bijection, Injection
  <2>4. \A k \in 1..n : ~asked.tools[k].cache
    BY <1>3, <1>8 DEF CacheMarked
  <2>5. \A k \in 1..n : given[k].cache <=> k = n
    BY <1>1, <1>3, <2>2, <2>3, <2>4, NormalizedIs
  <2> QED BY <1>3, <1>6, <1>8, <2>5
<1> QED BY <1>7, <1>8

-----------------------------------------------------------------------------
(* Two lists of the same tools with names of their own: the sort puts each *)
(* tool in the same place, whatever order they came in.                    *)
NamesDiffer(tools) ==
  \A i, j \in DOMAIN tools : SortKey[tools[i].def] = SortKey[tools[j].def] => i = j
Within(A, B) == \A i \in DOMAIN A : \E j \in DOMAIN B : B[j].def = A[i].def
Twin(A, B, i) == CHOOSE j \in DOMAIN B : B[j].def = A[i].def

LEMMA TwinsDiffer ==
  ASSUME NEW A, NEW B, NamesDiffer(A), Within(A, B)
  PROVE  /\ \A i \in DOMAIN A : Twin(A, B, i) \in DOMAIN B /\ B[Twin(A, B, i)].def = A[i].def
         /\ \A i, m \in DOMAIN A : Twin(A, B, i) = Twin(A, B, m) => i = m
<1>1. \A i \in DOMAIN A : Twin(A, B, i) \in DOMAIN B /\ B[Twin(A, B, i)].def = A[i].def
  BY DEF Twin, Within
<1> QED BY <1>1 DEF NamesDiffer

LEMMA NoLonger ==
  ASSUME NEW A \in Seq(Tool), NEW B \in Seq(Tool), NamesDiffer(A), Within(A, B)
  PROVE  Len(A) <= Len(B)
<1> DEFINE f == [i \in DOMAIN A |-> Twin(A, B, i)]
<1>1. f \in Injection(DOMAIN A, DOMAIN B)
  BY TwinsDiffer DEF Injection, IsInjective
<1>2. /\ Len(A) \in Nat /\ DOMAIN A = 1..Len(A) /\ Len(B) \in Nat /\ DOMAIN B = 1..Len(B)
      /\ IsFiniteSet(1..Len(A)) /\ IsFiniteSet(1..Len(B))
      /\ Cardinality(1..Len(A)) = Len(A) /\ Cardinality(1..Len(B)) = Len(B)
  <2>1. Len(A) \in Nat /\ DOMAIN A = 1..Len(A) /\ Len(B) \in Nat /\ DOMAIN B = 1..Len(B)
    OBVIOUS
  <2>2. \A m \in Nat : IsFiniteSet(1..m) /\ Cardinality(1..m) = m
    BY FS_Interval
  <2> QED BY <2>1, <2>2
<1>3. Cardinality(DOMAIN A) <= Cardinality(DOMAIN B)
  BY <1>1, <1>2, FS_Injection
<1> QED BY <1>2, <1>3

LEMMA NoLater ==
  ASSUME NEW A \in Seq(Tool), NEW B \in Seq(Tool),
         NamesDiffer(A), NamesDiffer(B), Within(A, B),
         NEW i \in DOMAIN A, NEW j \in DOMAIN B, A[i].def = B[j].def
  PROVE  Position(A, i) <= Position(B, j)
<1> DEFINE f == [m \in UpToHere(A, i) |-> Twin(A, B, m)]
<1>1. ASSUME NEW m \in UpToHere(A, i)
      PROVE  Twin(A, B, m) \in UpToHere(B, j)
  <2>1. m \in DOMAIN A /\ SortKey[A[m].def] <= SortKey[A[i].def]
    <3>1. \A t \in Tool : SortKey[t.def] \in Nat
      <4>1. SortKey \in [Def -> Nat]
        BY ProviderMetadataAssumption
      <4> QED BY <4>1 DEF Tool
    <3>2. m \in DOMAIN A
      BY <1>1 DEF UpToHere
    <3>3. A[i] \in Tool /\ A[m] \in Tool
      BY <3>2
    <3>4. SortKey[A[i].def] \in Nat /\ SortKey[A[m].def] \in Nat
      BY <3>1, <3>3
    <3>5. \/ SortKey[A[m].def] < SortKey[A[i].def]
          \/ SortKey[A[m].def] = SortKey[A[i].def]
      BY <1>1 DEF UpToHere
    <3> QED BY <3>2, <3>4, <3>5
  <2>2. PICK q \in DOMAIN B : q = Twin(A, B, m) /\ B[q].def = A[m].def
    BY <2>1, TwinsDiffer
  <2>3. CASE SortKey[A[m].def] < SortKey[A[i].def]
    BY <2>2, <2>3 DEF UpToHere
  <2>4. CASE ~(SortKey[A[m].def] < SortKey[A[i].def])
    <3>1. SortKey[B[q].def] = SortKey[B[j].def]
      BY <1>1, <2>2, <2>4 DEF UpToHere
    <3>2. q = j
      BY <3>1 DEF NamesDiffer
    <3>3. q \in UpToHere(B, j)
      BY <3>2, UpToHereNests
    <3> QED BY <2>2, <3>3
  <2> QED BY <2>3, <2>4
<1>2. UpToHere(A, i) \subseteq DOMAIN A
  BY DEF UpToHere
<1>3. f \in Injection(UpToHere(A, i), UpToHere(B, j))
  BY <1>1, <1>2, TwinsDiffer DEF Injection, IsInjective
<1>4. /\ IsFiniteSet(UpToHere(A, i)) /\ Position(A, i) = Cardinality(UpToHere(A, i))
      /\ IsFiniteSet(UpToHere(B, j)) /\ Position(B, j) = Cardinality(UpToHere(B, j))
  BY UpToHereNests
<1>5. Cardinality(UpToHere(A, i)) <= Cardinality(UpToHere(B, j))
  BY <1>3, <1>4, FS_Injection
<1> QED BY <1>4, <1>5

LEMMA SameFrom ==
  ASSUME NEW A \in Seq(Tool), NEW B \in Seq(Tool),
         NamesDiffer(A), NamesDiffer(B), Within(A, B), Within(B, A)
  PROVE  /\ Len(A) = Len(B) /\ DOMAIN A = DOMAIN B
         /\ \A k \in DOMAIN A : A[From(A)[k]].def = B[From(B)[k]].def
<1>1. Len(A) \in Nat /\ DOMAIN A = 1..Len(A) /\ Len(B) \in Nat /\ DOMAIN B = 1..Len(B)
  OBVIOUS
<1>2. Len(A) = Len(B) /\ DOMAIN A = DOMAIN B
  <2>1. Len(A) <= Len(B) /\ Len(B) <= Len(A)
    BY NoLonger
  <2>2. Len(A) = Len(B)
    <3>1. \A m, n \in Nat : m <= n /\ n <= m => m = n
      OBVIOUS
    <3> QED BY <1>1, <2>1, <3>1, Zenon
  <2>3. DOMAIN A = DOMAIN B
    BY <1>1, <2>2, Zenon
  <2> QED BY <2>2, <2>3
<1>3. ASSUME NEW k \in DOMAIN A
      PROVE  A[From(A)[k]].def = B[From(B)[k]].def
  <2>1. PICK i \in DOMAIN A : i = From(A)[k] /\ Position(A, i) = k
    BY SortedFrom DEF Bijection, Injection
  <2>2. PICK q \in DOMAIN B : q = From(B)[k] /\ Position(B, q) = k
    BY <1>2, SortedFrom DEF Bijection, Injection
  <2>3. PICK j \in DOMAIN B : B[j].def = A[i].def
    BY DEF Within
  <2>4. Position(A, i) <= Position(B, j) /\ Position(B, j) <= Position(A, i)
    BY <2>3, NoLater
  <2>5. Position(B, j) \in DOMAIN B
    BY PositionsPermute
  <2>6. Position(B, j) = k
    BY <1>1, <1>2, <2>1, <2>4, <2>5
  <2>7. j = q
    BY <2>2, <2>6, PositionsPermute
  <2> QED BY <2>1, <2>2, <2>3, <2>7
<1> QED BY <1>2, <1>3

(* Tools that are equal but for the spelling of their schemas.             *)
LEMMA LooselyWithin ==
  ASSUME NEW a \in Body, NEW b \in Body, Loosely(a) = Loosely(b)
  PROVE  \A i \in DOMAIN a.tools : \E j \in DOMAIN b.tools :
           b.tools[j].def = a.tools[i].def /\ b.tools[j].layout = a.tools[i].layout
<1> SUFFICES ASSUME NEW i \in DOMAIN a.tools
             PROVE  \E j \in DOMAIN b.tools :
                      b.tools[j].def = a.tools[i].def /\ b.tools[j].layout = a.tools[i].layout
  OBVIOUS
<1>1. a.tools \in Seq(Tool) /\ b.tools \in Seq(Tool)
  BY DEF Body
<1>2. \A t \in Tool : [t EXCEPT !.schema = "loose"].def = t.def
                      /\ [t EXCEPT !.schema = "loose"].layout = t.layout
  BY DEF Tool
<1>3. PICK t \in Tool : t = a.tools[i]
  BY <1>1
<1>4. [t EXCEPT !.schema = "loose"] \in Loosely(a)
  BY <1>3 DEF Loosely, ToSet
<1>5. PICK j \in DOMAIN b.tools :
        [t EXCEPT !.schema = "loose"] = [b.tools[j] EXCEPT !.schema = "loose"]
  <2>1. PICK r : r = [t EXCEPT !.schema = "loose"]
    OBVIOUS
  <2>2. r \in Loosely(b)
    BY <1>4, <2>1, Zenon
  <2>3. PICK v \in ToSet(b.tools) : r = [v EXCEPT !.schema = "loose"]
    BY <2>2 DEF Loosely
  <2>4. PICK j \in DOMAIN b.tools : v = b.tools[j]
    BY <2>3 DEF ToSet
  <2> QED BY <2>1, <2>3, <2>4
<1>6. PICK u \in Tool : u = b.tools[j]
  BY <1>1
<1>7. u.def = t.def /\ u.layout = t.layout
  BY <1>2, <1>5, <1>6
<1> QED BY <1>3, <1>6, <1>7

(* Two bodies that differ in the order and the spelling of their tools     *)
(* only are normalized to the same tools.                                  *)
LEMMA SameNormalized ==
  ASSUME NEW a \in Body, NEW b \in Body, Plain(a), Plain(b),
         Loosely(a) = Loosely(b), a.marked = b.marked
  PROVE  Len(a.tools) = Len(b.tools) /\ Normalized(a) = Normalized(b)
<1>1. a.tools \in Seq(Tool) /\ b.tools \in Seq(Tool)
  BY DEF Body
<1>2. NamesDiffer(a.tools) /\ NamesDiffer(b.tools)
  BY DEF Plain, NamesDiffer
<1>3. Within(a.tools, b.tools) /\ Within(b.tools, a.tools)
  BY LooselyWithin DEF Within
<1>4. /\ Len(a.tools) = Len(b.tools) /\ DOMAIN a.tools = DOMAIN b.tools
      /\ \A k \in DOMAIN a.tools : a.tools[From(a.tools)[k]].def = b.tools[From(b.tools)[k]].def
  BY <1>1, <1>2, <1>3, SameFrom
<1>5. Order(a) = From(a.tools) /\ Order(b) = From(b.tools)
  BY DEF Order, Plain
<1>6. AddsBreakpoint(a) <=> AddsBreakpoint(b)
  BY DEF AddsBreakpoint, Plain
<1>7. ASSUME NEW k \in DOMAIN a.tools
      PROVE  Normalized(a)[k] = Normalized(b)[k]
  <2>1. PICK i \in DOMAIN a.tools : i = From(a.tools)[k]
    BY <1>1, SortedFrom DEF Bijection, Injection
  <2>2. PICK j \in DOMAIN b.tools : j = From(b.tools)[k]
    BY <1>1, <1>4, SortedFrom, ZenonT(30) DEF Bijection, Injection
  <2>3. b.tools[j].def = a.tools[i].def
    BY <1>4, <2>1, <2>2
  <2>4. b.tools[j].layout = a.tools[i].layout
    <3>1. PICK m \in DOMAIN b.tools :
            b.tools[m].def = a.tools[i].def /\ b.tools[m].layout = a.tools[i].layout
      BY LooselyWithin
    <3>2. m = j
      BY <1>2, <2>3, <3>1 DEF NamesDiffer
    <3> QED BY <3>1, <3>2
  <2>5. a.tools[i].cache = FALSE /\ b.tools[j].cache = FALSE
    <3>1. a.tools[i] \in Tool /\ b.tools[j] \in Tool
      BY <1>1
    <3>2. a.tools[i].cache \in BOOLEAN /\ b.tools[j].cache \in BOOLEAN
      BY <3>1 DEF Tool
    <3>3. ~a.tools[i].cache /\ ~b.tools[j].cache
      BY DEF Plain, CacheMarked
    <3> QED BY <3>2, <3>3
  <2>6. PICK x \in Tool : x = Normalized(a)[k]
    BY NormalizedIs
  <2>7. PICK y \in Tool : y = Normalized(b)[k]
    BY <1>4, NormalizedIs
  <2>8. /\ x.def = a.tools[i].def /\ x.layout = a.tools[i].layout /\ x.schema = "canonical"
        /\ x.cache <=> AddsBreakpoint(a) /\ k = Len(a.tools)
    BY <1>5, <2>1, <2>5, <2>6, NormalizedIs
  <2>9. /\ y.def = b.tools[j].def /\ y.layout = b.tools[j].layout /\ y.schema = "canonical"
        /\ y.cache <=> AddsBreakpoint(b) /\ k = Len(b.tools)
    BY <1>4, <1>5, <2>2, <2>5, <2>7, NormalizedIs
  <2>10. x.def = y.def /\ x.layout = y.layout /\ x.schema = y.schema /\ (x.cache <=> y.cache)
    BY <1>4, <1>6, <2>3, <2>4, <2>8, <2>9
  <2>11. x = y
    <3>1. x.cache = y.cache
      BY <2>10 DEF Tool
    <3>2. \A r \in Tool : r = [def |-> r.def, schema |-> r.schema,
                               layout |-> r.layout, cache |-> r.cache]
      BY DEF Tool
    <3> QED BY <2>10, <3>1, <3>2
  <2> QED BY <2>6, <2>7, <2>11
<1>8. Normalized(a) = Normalized(b)
  <2>1. PICK x \in Seq(Tool) : x = Normalized(a) /\ Len(x) = Len(a.tools)
    BY NormalizedIs
  <2>2. PICK y \in Seq(Tool) : y = Normalized(b) /\ Len(y) = Len(b.tools)
    BY NormalizedIs
  <2>3. \A k \in 1..Len(x) : x[k] = y[k]
    BY <1>1, <1>7, <2>1, <2>2
  <2>4. x = y
    BY <1>4, <2>1, <2>2, <2>3
  <2> QED BY <2>1, <2>2, <2>4
<1> QED BY <1>4, <1>8

LEMMA OrderForgotten == MetadataInv => OrderIsForgotten
<1> SUFFICES ASSUME MetadataInv, Compared, managed, Plain(asked), Plain(before[1].asked),
                    Loosely(asked) = Loosely(before[1].asked),
                    asked.marked = before[1].asked.marked
             PROVE  SubSeq(wire.tools, 1, Len(asked.tools))
                      = SubSeq(before[1].wire.tools, 1, Len(before[1].asked.tools))
  BY DEF OrderIsForgotten
<1>1. PICK a \in Body : a = asked
  BY DEF MetadataInv, TypeInv
<1>2. PICK b \in Body : b = before[1].asked
  BY BeforeIs DEF Compared
<1>3. wire.tools = Offered(a, compressed)
  BY <1>1, SentIs DEF MetadataInv, WireInv, Compared
<1>4. PICK c \in BOOLEAN : before[1].wire = Sent(b, c)
  BY <1>2, BeforeIs DEF Compared
<1>5. before[1].wire.tools = Offered(b, c)
  BY <1>4, SentIs
<1>6. Given(a) = Normalized(a) /\ Given(b) = Normalized(b)
  BY <1>1, <1>2 DEF Given, Compared
<1>7. PICK n \in Nat : n = Len(a.tools) /\ n = Len(b.tools)
  BY <1>1, <1>2, SameNormalized, GivenIs
<1>8. Normalized(a) = Normalized(b)
  BY <1>1, <1>2, SameNormalized
<1>9. ASSUME NEW d \in Body, NEW e, n = Len(d.tools)
      PROVE  SubSeq(Offered(d, e), 1, n) = [k \in 1..n |-> Given(d)[k]]
  <2>1. /\ Offered(d, e) \in Seq(Tool)
        /\ \A k \in 1..n : Offered(d, e)[k] = Given(d)[k]
    BY <1>9, OfferedIs
  <2>2. SubSeq(Offered(d, e), 1, n) = [k \in 1..n |-> Offered(d, e)[k]]
    BY <2>1
  <2> QED BY <2>1, <2>2
<1>10. SubSeq(Offered(a, compressed), 1, n) = SubSeq(Offered(b, c), 1, n)
  <2>1. PICK g : g = Given(a) /\ g = Given(b)
    BY <1>6, <1>8, Zenon
  <2>2. /\ SubSeq(Offered(a, compressed), 1, n) = [k \in 1..n |-> Given(a)[k]]
        /\ SubSeq(Offered(b, c), 1, n) = [k \in 1..n |-> Given(b)[k]]
    BY <1>7, <1>9
  <2> QED BY <2>1, <2>2, Zenon
<1> QED BY <1>1, <1>2, <1>3, <1>5, <1>7, <1>10

-----------------------------------------------------------------------------
(* The wire holds the client's definitions as often as the client sent     *)
(* them, however the tools are sorted and rewritten; plan_tool_append adds *)
(* one retrieval tool exactly where the request may need it and has none.  *)
THEOREM SpecToolsAreKept == Spec => []ToolsAreKept
BY AlwaysMetadataInv, KeepsTools, PTL

(* Two turns have the same derived prompt_cache_key if and only if their   *)
(* model, their system and the tools on their wires are the same.          *)
THEOREM SpecKeyFollowsWire == Spec => []KeyFollowsWire
BY AlwaysMetadataInv, KeyFollows, PTL

(* Where the client set a cache breakpoint none is added and its tools     *)
(* stay before it as they were; else Anthropic gets one, after the         *)
(* client's last tool.                                                     *)
THEOREM SpecBreakpointsAreTheClients == Spec => []BreakpointsAreTheClients
BY AlwaysMetadataInv, BreakpointsKept, PTL

(* plan_tools_normalization makes the same tools of the same tools: a      *)
(* client may list them in another order and spell their schemas           *)
(* differently, and what the provider caches by stays.                     *)
THEOREM SpecOrderIsForgotten == Spec => []OrderIsForgotten
BY AlwaysMetadataInv, OrderForgotten, PTL
=============================================================================
