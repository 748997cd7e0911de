------------------------- MODULE PrefixFreezeProofs -------------------------
(***************************************************************************)
(* For any conversations, providers and times: the floor a request reads   *)
(* comes from a session that was active less than the TTL plus a cleanup   *)
(* interval ago, and some answer heard in that session has earned it.  In  *)
(* a conversation that has its session to itself the freeze reaches no     *)
(* further than the requests before; and where the provider caches what    *)
(* the proxy reckons, the floor never falls while the tracker lives.       *)
(***************************************************************************)
EXTENDS PrefixFreeze, FiniteSetTheorems, WellFoundedInduction, TLAPS

(* What a sweep leaves is a subset of what was there, none of it expired   *)
(* at the time the sweep is recorded for.                                  *)
LEMMA SweptKept ==
  ASSUME SweptAreFresh
  PROVE  /\ SweptTime \in 0..now
         /\ DOMAIN Swept = Key
         /\ \A s \in Key : Swept[s] # NoEntry =>
              /\ Swept[s] = tracker[s]
              /\ Swept[s].last \in 0..now
              /\ SweptTime <= Swept[s].last + SessionTtl
<1> USE PrefixFreezeAssumption DEF SweptAreFresh
<1>1. CASE SweepDue
  <2>1. SweptTime = now
    BY <1>1 DEF SweptTime
  <2>2. \A s \in Key : Swept[s] # NoEntry =>
          Swept[s] = tracker[s] /\ tracker[s] # NoEntry /\ ~Expired(tracker[s])
    BY <1>1 DEF Swept
  <2>3. DOMAIN Swept = Key
    BY <1>1 DEF Swept
  <2> QED
    BY <2>1, <2>2, <2>3 DEF Expired
<1>2. CASE ~SweepDue
  <2>1. Swept = tracker /\ SweptTime = sweptAt /\ sweptAt # Never
    BY <1>2 DEF Swept, SweptTime, SweepDue
  <2> QED
    BY <2>1
<1> QED
  BY <1>1, <1>2

LEMMA InitFresh == Init => SweptAreFresh
  BY DEF Init, SweptAreFresh

(* A step that sweeps and then sets one tracker active, or none.           *)
LEMMA SweepAndTouch ==
  ASSUME SweptAreFresh,
         now' = now, sweptAt' = SweptTime,
         NEW s \in Key, NEW e, e.last = now,
         tracker' = Swept \/ tracker' = [Swept EXCEPT ![s] = e]
  PROVE  SweptAreFresh'
<1> USE PrefixFreezeAssumption
<1>1. /\ now \in Nat
      /\ SweptTime \in 0..now
      /\ DOMAIN Swept = Key
      /\ \A t \in Key : Swept[t] # NoEntry =>
           Swept[t].last \in 0..now /\ SweptTime <= Swept[t].last + SessionTtl
  BY SweptKept DEF SweptAreFresh
<1>2. DOMAIN tracker' = Key
  BY <1>1
<1>3. ASSUME NEW t \in Key, tracker'[t] # NoEntry
      PROVE  tracker'[t].last \in 0..now /\ SweptTime <= tracker'[t].last + SessionTtl
  <2>1. CASE tracker'[t] = Swept[t]
    BY <1>1, <1>3, <2>1
  <2>2. CASE tracker'[t] = e
    BY <1>1, <2>2
  <2> QED
    BY <1>1, <2>1, <2>2
<1>4. sweptAt' # Never
  BY <1>1
<1> QED
  BY <1>1, <1>2, <1>3, <1>4 DEF SweptAreFresh

LEMMA NextFresh == SweptAreFresh /\ [Next]_vars => SweptAreFresh'
<1> SUFFICES ASSUME SweptAreFresh, [Next]_vars
             PROVE  SweptAreFresh'
  OBVIOUS
<1> USE PrefixFreezeAssumption
<1>1. ASSUME NEW c \in Conv, NEW n \in About[c].lengths, Send(c, n)
      PROVE  SweptAreFresh'
  <2> DEFINE s == SessionKey(c)
  <2>1. s \in Key
    BY DEF Key
  <2>2. Touched(Swept[s]).last = now
    BY DEF Touched
  <2>3. now' = now /\ sweptAt' = SweptTime
    BY <1>1 DEF Send
  <2>4. tracker' = Swept \/ tracker' = [Swept EXCEPT ![s] = Touched(Swept[s])]
    BY <1>1 DEF Send
  <2> QED
    BY <2>1, <2>2, <2>3, <2>4, SweepAndTouch
<1>2. ASSUME NEW c \in Conv, NEW k, NEW u, Answer(c, k, u)
      PROVE  SweptAreFresh'
  <2> DEFINE s == SessionKey(c)
             e == NextEntry(Swept[s], Estimates(c, sent[c][k].body), CachedTotal(c, u))
  <2>1. s \in Key
    BY DEF Key
  <2>2. e.last = now
    BY DEF NextEntry
  <2>3. now' = now /\ sweptAt' = SweptTime /\ tracker' = [Swept EXCEPT ![s] = e]
    BY <1>2 DEF Answer
  <2> QED
    BY <2>1, <2>2, <2>3, SweepAndTouch
<1>3. ASSUME NEW c \in Conv, NEW k, NoUsage(c, k)
      PROVE  SweptAreFresh'
  BY <1>3 DEF NoUsage, SweptAreFresh
<1>4. CASE Restart
  BY <1>4 DEF Restart, SweptAreFresh
<1>5. CASE Tick
  <2>1. now' = now + 1 /\ sweptAt' = sweptAt /\ tracker' = tracker
    BY <1>5 DEF Tick
  <2> QED
    BY <2>1 DEF SweptAreFresh
<1>6. CASE UNCHANGED vars
  BY <1>6 DEF vars, SweptAreFresh
<1> QED
  BY <1>1, <1>2, <1>3, <1>4, <1>5, <1>6 DEF Next

LEMMA FreshFloor == SweptAreFresh => FloorIsFresh
<1> SUFFICES ASSUME SweptAreFresh, NEW s \in Key, FrozenCount(Swept[s]) > 0
             PROVE  now < tracker[s].last + SessionTtl + CleanupInterval
  BY DEF FloorIsFresh
<1> USE PrefixFreezeAssumption
<1>1. Swept[s] # NoEntry
  BY DEF FrozenCount
<1>2. /\ Swept[s] = tracker[s]
      /\ tracker[s].last \in 0..now
      /\ SweptTime <= tracker[s].last + SessionTtl
      /\ SweptTime \in 0..now
  BY <1>1, SweptKept
<1>3. now < SweptTime + CleanupInterval
  BY DEF SweptTime, SweepDue, SweptAreFresh
<1> QED
  BY <1>2, <1>3 DEF SweptAreFresh

(* Sweeps leave no tracker that was past its TTL (maybe_cleanup).          *)
THEOREM SpecSweptAreFresh == Spec => []SweptAreFresh
<1> QED
  BY InitFresh, NextFresh, PTL DEF Spec

(* No request reads a floor of a session idle for the TTL plus a cleanup   *)
(* interval (frozen_message_count).                                        *)
THEOREM SpecFloorIsFresh == Spec => []FloorIsFresh
<1> QED
  BY SpecSweptAreFresh, FreshFloor, PTL

-----------------------------------------------------------------------------
(* A floor is earned by an answer.  The heart is that the walk of          *)
(* update_from_response stops at a prefix whose estimates fit into the     *)
(* tokens the provider has cached.                                         *)

(* Every set of naturals has a least element: the induction principle used  *)
(* below.                                                                  *)
LEMMA Least ==
  ASSUME NEW S \in SUBSET Nat, S # {}
  PROVE  \E n \in S : \A m \in S : n <= m
<1>1. PICK x \in S : \A y \in S : ~ (<<y, x>> \in OpToRel(<, Nat))
  BY NatLessThanWellFounded, WFMin
<1>2. \A y \in S : y \in Nat /\ x \in Nat
  OBVIOUS
<1>3. \A y \in S : ~(y < x)
  BY <1>1, <1>2 DEF OpToRel
<1> QED BY <1>2, <1>3

(* The recursive sum is what its defining equation says.                   *)
LEMMA SumUnfolds ==
  ASSUME NEW w
  PROVE  /\ SumOfFirst(w, 0) = 0
         /\ \A n \in Nat \ {0} : SumOfFirst(w, n) = SumOfFirst(w, n - 1) + w[n]
<1> DEFINE Sums(f, n) == /\ f = [i \in 0..n |-> f[i]]
                         /\ f[0] = 0
                         /\ \A k \in 1..n : f[k] = f[k - 1] + w[k]
<1>1. \A n \in Nat : \E f : Sums(f, n)
  <2> DEFINE Bad == {n \in Nat : ~ \E f : Sums(f, n)}
  <2> SUFFICES ASSUME Bad # {} PROVE FALSE
    OBVIOUS
  <2>1. PICK n \in Bad : \A m \in Bad : n <= m
    BY Least
  <2>2. Sums([i \in 0..0 |-> 0], 0)
    OBVIOUS
  <2>3. n \in Nat \ {0}
    BY <2>2
  <2>4. n - 1 \in Nat /\ n - 1 \notin Bad
    BY <2>1, <2>3
  <2>5. PICK g : Sums(g, n - 1)
    BY <2>4
  <2> DEFINE h == [i \in 0..n |-> IF i = n THEN g[n - 1] + w[n] ELSE g[i]]
  <2>6. h[0] = 0
    BY <2>3, <2>5
  <2>7. ASSUME NEW k \in 1..n PROVE h[k] = h[k - 1] + w[k]
    <3>1. k \in 0..n /\ k - 1 \in 0..n /\ k - 1 # n
      BY <2>3
    <3>2. h[k - 1] = g[k - 1]
      BY <3>1
    <3>3. CASE k = n
      BY <3>1, <3>2, <3>3
    <3>4. CASE k # n
      <4>1. k \in 1..(n - 1)
        BY <2>3, <3>4
      <4>2. g[k] = g[k - 1] + w[k]
        BY <2>5, <4>1
      <4> QED BY <3>1, <3>2, <3>4, <4>2
    <3> QED BY <3>3, <3>4
  <2>8. Sums(h, n)
    BY <2>6, <2>7
  <2> QED BY <2>8
<1>2. ASSUME NEW n \in Nat, NEW m \in Nat, NEW f, NEW g, Sums(f, n), Sums(g, m)
      PROVE  \A k \in Nat : k <= n /\ k <= m => f[k] = g[k]
  <2> DEFINE Bad == {k \in Nat : k <= n /\ k <= m /\ f[k] # g[k]}
  <2> SUFFICES ASSUME Bad # {} PROVE FALSE
    OBVIOUS
  <2>1. PICK k \in Bad : \A j \in Bad : k <= j
    BY Least
  <2>2. k \in 1..n /\ k \in 1..m /\ k - 1 \notin Bad
    BY <1>2, <2>1
  <2>3. f[k - 1] = g[k - 1]
    BY <2>2
  <2>4. f[k] = f[k - 1] + w[k] /\ g[k] = g[k - 1] + w[k]
    BY <1>2, <2>2
  <2> QED BY <2>3, <2>4
<1> DEFINE F == [n \in Nat |-> (CHOOSE f : Sums(f, n))[n]]
           Step(f) == [k \in Nat |-> IF k = 0 THEN 0 ELSE f[k - 1] + w[k]]
<1>3. F = Step(F)
  <2>1. ASSUME NEW n \in Nat PROVE Sums(CHOOSE f : Sums(f, n), n)
    <3> HIDE DEF Sums
    <3> QED BY <1>1
  <2>2. ASSUME NEW n \in Nat \ {0} PROVE F[n] = F[n - 1] + w[n]
    <3> DEFINE f == CHOOSE f : Sums(f, n)
               g == CHOOSE g : Sums(g, n - 1)
    <3>0. n \in Nat /\ n - 1 \in Nat
      OBVIOUS
    <3>1. Sums(f, n) /\ Sums(g, n - 1)
      <4> HIDE DEF Sums
      <4> QED BY <2>1, <3>0
    <3>2. f[n - 1] = g[n - 1]
      <4> HIDE DEF Sums, f, g
      <4> QED BY <3>1, <1>2
    <3>3. f[n] = f[n - 1] + w[n]
      <4> HIDE DEF f
      <4>1. n \in 1..n
        OBVIOUS
      <4> QED BY <3>1, <4>1
    <3>4. F[n] = f[n] /\ F[n - 1] = g[n - 1]
      <4> HIDE DEF Sums
      <4> QED OBVIOUS
    <3> HIDE DEF F, f, g
    <3> QED BY <3>2, <3>3, <3>4
  <2>3. F[0] = 0
    <3> DEFINE f == CHOOSE f : Sums(f, 0)
    <3>1. Sums(f, 0)
      BY <2>1
    <3>2. f[0] = 0
      <4> HIDE DEF f
      <4> QED BY <3>1
    <3>3. F[0] = f[0]
      <4> HIDE DEF Sums
      <4> QED OBVIOUS
    <3> QED BY <3>2, <3>3
  <2>4. F = [n \in Nat |-> F[n]]
    OBVIOUS
  <2> HIDE DEF F
  <2> QED BY <2>2, <2>3, <2>4
<1> DEFINE sum == CHOOSE f : f = Step(f)
<1>4. sum = Step(sum)
  <2> HIDE DEF Step, F
  <2> QED BY <1>3
<1>5. \A n \in Nat : SumOfFirst(w, n) = sum[n]
  BY DEF SumOfFirst
<1>6. sum[0] = 0 /\ \A n \in Nat \ {0} : sum[n] = sum[n - 1] + w[n]
  <2> HIDE DEF sum
  <2> QED BY <1>4
<1> HIDE DEF sum
<1> QED BY <1>5, <1>6

LEMMA SumIsNat ==
  ASSUME NEW w \in Seq(Nat)
  PROVE  \A n \in 0..Len(w) : SumOfFirst(w, n) \in Nat
<1> DEFINE Bad == {n \in 0..Len(w) : SumOfFirst(w, n) \notin Nat}
<1> SUFFICES ASSUME Bad # {} PROVE FALSE
  OBVIOUS
<1>1. Bad \in SUBSET Nat
  OBVIOUS
<1>2. PICK n \in Bad : \A m \in Bad : n <= m
  BY <1>1, Least
<1>3. n \in Nat \ {0}
  BY SumUnfolds
<1>4. n - 1 \in 0..Len(w) /\ n - 1 \notin Bad /\ w[n] \in Nat
  BY <1>2, <1>3
<1> QED BY <1>3, <1>4, SumUnfolds

LEMMA SumGrows ==
  ASSUME NEW w \in Seq(Nat), NEW m \in 0..Len(w)
  PROVE  \A n \in m..Len(w) : SumOfFirst(w, m) <= SumOfFirst(w, n)
<1> DEFINE Bad == {n \in m..Len(w) : ~(SumOfFirst(w, m) <= SumOfFirst(w, n))}
<1> SUFFICES ASSUME Bad # {} PROVE FALSE
  OBVIOUS
<1>1. Bad \in SUBSET Nat
  OBVIOUS
<1>2. PICK n \in Bad : \A k \in Bad : n <= k
  BY <1>1, Least
<1>3. \A k \in 0..Len(w) : SumOfFirst(w, k) \in Nat
  BY SumIsNat
<1>4. n # m
  BY <1>3
<1>5. n - 1 \in m..Len(w) /\ n - 1 \notin Bad /\ w[n] \in Nat /\ n \in Nat \ {0}
  BY <1>2, <1>4
<1>6. SumOfFirst(w, n) = SumOfFirst(w, n - 1) + w[n]
  BY <1>5, SumUnfolds
<1>7. SumOfFirst(w, m) <= SumOfFirst(w, n - 1)
  BY <1>5
<1>8. SumOfFirst(w, n - 1) \in Nat /\ SumOfFirst(w, m) \in Nat
  BY <1>3, <1>5
<1>9. SumOfFirst(w, m) <= SumOfFirst(w, n)
  BY <1>5, <1>6, <1>7, <1>8
<1> QED BY <1>9

LEMMA UpToFinite ==
  ASSUME NEW n \in Nat
  PROVE  IsFiniteSet(1..n) /\ Cardinality(1..n) = n
<1>1. 1 \in Int /\ n \in Int
  OBVIOUS
<1>2. Cardinality(1..n) = IF 1 > n THEN 0 ELSE n - 1 + 1
  BY <1>1, FS_Interval
<1>3. IsFiniteSet(1..n)
  BY <1>1, FS_Interval
<1> QED BY <1>2, <1>3

(* The messages the walk counts fit into the total together.               *)
LEMMA CoveredFits ==
  ASSUME NEW w \in Seq(Nat), NEW total \in Nat
  PROVE  /\ Covered(w, total) \in 0..Len(w)
         /\ Covered(w, total) > 0 => SumOfFirst(w, Covered(w, total)) <= total
<1> DEFINE D == {n \in 1..Len(w) : SumOfFirst(w, n) <= total}
           c == Cardinality(D)
<1>1. Covered(w, total) = c
  BY DEF Covered
<1>2. IsFiniteSet(1..Len(w)) /\ Cardinality(1..Len(w)) = Len(w)
  <2>1. Len(w) \in Nat
    OBVIOUS
  <2> QED BY <2>1, UpToFinite
<1>3. IsFiniteSet(D) /\ c <= Len(w)
  BY <1>2, FS_Subset
<1>4. c \in Nat
  BY <1>3, FS_CardinalityType
<1>5. ASSUME c > 0, ~(SumOfFirst(w, c) <= total) PROVE FALSE
  <2>1. D \subseteq 1..(c - 1)
    <3> SUFFICES ASSUME NEW n \in D, n >= c PROVE FALSE
      <4> HIDE DEF c
      <4> QED BY <1>4
    <3>1. c \in 0..Len(w) /\ n \in c..Len(w)
      BY <1>3, <1>4
    <3>2. SumOfFirst(w, c) <= SumOfFirst(w, n)
      BY <3>1, SumGrows
    <3>3. SumOfFirst(w, c) \in Nat /\ SumOfFirst(w, n) \in Nat
      BY <3>1, SumIsNat
    <3> QED BY <1>5, <3>2, <3>3
  <2>2. IsFiniteSet(1..(c - 1)) /\ Cardinality(1..(c - 1)) = c - 1
    <3> HIDE DEF c
    <3>1. c - 1 \in Nat
      BY <1>4, <1>5
    <3> QED BY <3>1, UpToFinite
  <2>3. c <= c - 1
    <3>1. Cardinality(D) <= Cardinality(1..(c - 1))
      <4> HIDE DEF D
      <4> QED BY <2>1, <2>2, FS_Subset
    <3> QED BY <3>1, <2>2
  <2> QED BY <2>3, <1>4
<1> HIDE DEF c
<1> QED BY <1>1, <1>3, <1>4, <1>5

-----------------------------------------------------------------------------
(* What was forwarded is a prefix of the conversation it belongs to.       *)
SentFits ==
  \A c \in Conv : \A k \in DOMAIN sent[c] :
    Len(sent[c][k].body) <= Len(About[c].history)

(* An entry whose floor some answer in a history of requests has earned.   *)
Earned(s, e, requests) ==
  FrozenCount(e) > 0 =>
    \E c \in Conv : \E k \in DOMAIN requests[c] :
      LET w == Estimates(c, requests[c][k].body) IN
      /\ SessionKey(c) = s
      /\ requests[c][k].status = "answered"
      /\ e.count \in 1..Len(w)
      /\ SumOfFirst(w, e.count) <= e.tokens

FloorInv == TypeOK /\ SentFits /\ \A s \in Key : Earned(s, tracker[s], sent)

SentRequest ==
  [len : Nat, floor : Nat, body : Seq(Form), confirmed : Nat,
   status : {"open", "answered", "failed"}]

LEMMA WeightsType ==
  ASSUME NEW c \in Conv, NEW body \in Seq(Form), Len(body) <= Len(About[c].history),
         NEW W \in [Text -> Nat]
  PROVE  Weights(c, body, W) \in Seq(Nat)
<1> DEFINE messages == [i \in DOMAIN body |->
                          IF body[i] = "marker" THEN MarkerTokens
                          ELSE W[About[c].history[i].content.text]]
<1>1. About[c].history \in Seq(Block)
  BY PrefixFreezeAssumption DEF Conversation
<1>2. DOMAIN body = 1..Len(body) /\ Len(body) \in Nat
  OBVIOUS
<1>3. ASSUME NEW i \in DOMAIN body PROVE messages[i] \in Nat
  <2>1. i \in 1..Len(About[c].history)
    BY <1>1, <1>2
  <2>2. About[c].history[i] \in Block /\ About[c].history[i].content.kind = "text"
    BY <1>1, <2>1, PrefixFreezeAssumption DEF Conversation
  <2>3. About[c].history[i].content \in Content
    BY <2>2 DEF Block
  <2>4. About[c].history[i].content.text \in Text
    BY <2>2, <2>3 DEF Content
  <2> QED BY <2>4, PrefixFreezeAssumption
<1>4. messages \in Seq(Nat)
  <2>1. messages \in [1..Len(body) -> Nat]
    BY <1>2, <1>3
  <2> QED BY <1>2, <2>1
<1>5. <<InstructionsTokens>> \o messages \in Seq(Nat)
  <2>1. <<InstructionsTokens>> \in Seq(Nat)
    BY PrefixFreezeAssumption
  <2> HIDE DEF messages
  <2> QED BY <1>4, <2>1
<1>6. Weights(c, body, W) = IF About[c].instructions THEN <<InstructionsTokens>> \o messages
                            ELSE messages
  BY DEF Weights
<1> HIDE DEF messages
<1> QED BY <1>4, <1>5, <1>6

LEMMA EstimatesType ==
  ASSUME NEW c \in Conv, NEW body \in Seq(Form), Len(body) <= Len(About[c].history)
  PROVE  Estimates(c, body) \in Seq(Nat)
<1>1. Weights(c, body, Estimate) \in Seq(Nat)
  BY WeightsType, PrefixFreezeAssumption
<1>2. Append(Weights(c, body, Estimate), ReplyEstimate) \in Seq(Nat)
  BY <1>1, PrefixFreezeAssumption
<1> QED BY <1>1, <1>2 DEF Estimates

(* Whatever usage a provider reports, it confirms a natural number.        *)
LEMMA CachedTotalType ==
  ASSUME NEW c \in Conv, NEW body \in Seq(Form), Len(body) <= Len(About[c].history),
         NEW u \in Answers(c, body)
  PROVE  CachedTotal(c, u) \in Nat
<1> DEFINE w == Weights(c, body, Tokens)
           all == SumOfFirst(w, Len(w))
<1>1. w \in Seq(Nat)
  BY WeightsType, PrefixFreezeAssumption
<1>2. \A n \in 0..Len(w) : SumOfFirst(w, n) \in Nat
  BY <1>1, SumIsNat
<1>3. all \in Nat
  <2>1. Len(w) \in 0..Len(w)
    BY <1>1
  <2> HIDE DEF w
  <2> QED BY <1>2, <2>1
<1>4. u \in Usage(c, body) /\ u.read + u.write <= all
  BY DEF Answers
<1>5. u.read \in Nat /\ u.write \in {0, all} /\ u.input = all
  <2>1. PICK r \in {SumOfFirst(w, n) : n \in 0..Len(w)}, x \in {0, all} :
          u = [read |-> r, write |-> x, input |-> all]
    BY <1>4 DEF Usage
  <2> HIDE DEF w, all
  <2> QED BY <1>2, <2>1
<1> HIDE DEF w, all
<1> QED BY <1>3, <1>4, <1>5 DEF CachedTotal

LEMMA FrozenCountType ==
  ASSUME NEW e \in Entry \cup {NoEntry}
  PROVE  FrozenCount(e) \in Nat
BY DEF FrozenCount, Entry

(* A sweep removes entries and changes none.                               *)
LEMMA SweptType ==
  ASSUME FloorInv
  PROVE  /\ Swept \in [Key -> Entry \cup {NoEntry}]
         /\ SweptTime \in Nat \cup {Never}
         /\ \A s \in Key : Earned(s, Swept[s], sent)
<1>1. Swept \in [Key -> Entry \cup {NoEntry}] /\ SweptTime \in Nat \cup {Never}
  BY DEF FloorInv, TypeOK, Swept, SweptTime
<1>2. \A s \in Key : Swept[s] = tracker[s] \/ Swept[s] = NoEntry
  BY DEF FloorInv, TypeOK, Swept
<1>3. \A s \in Key : Earned(s, NoEntry, sent)
  BY DEF Earned, FrozenCount
<1> QED BY <1>1, <1>2, <1>3 DEF FloorInv

(* What was earned stays earned while no answer is forgotten.              *)
LEMMA EarnedKept ==
  ASSUME NEW s, NEW e, NEW before, NEW after, Earned(s, e, before),
         \A c \in Conv : \A k \in DOMAIN before[c] :
           before[c][k].status = "answered" =>
             /\ k \in DOMAIN after[c]
             /\ after[c][k].status = "answered"
             /\ after[c][k].body = before[c][k].body
  PROVE  Earned(s, e, after)
BY DEF Earned

LEMMA InitFloor == Init => FloorInv
<1> SUFFICES ASSUME Init PROVE FloorInv
  OBVIOUS
<1>1. TypeOK /\ SentFits
  BY DEF Init, TypeOK, SentFits
<1>2. \A s \in Key : Earned(s, tracker[s], sent)
  BY DEF Init, Earned, FrozenCount
<1> QED BY <1>1, <1>2 DEF FloorInv

LEMMA ForwardedType ==
  ASSUME NEW c \in Conv, NEW n \in About[c].lengths, NEW floor
  PROVE  /\ Forwarded(c, n, floor) \in Seq(Form)
         /\ Len(Forwarded(c, n, floor)) <= Len(About[c].history)
         /\ n \in Nat
<1>1. n \in 1..Len(About[c].history) /\ About[c].history \in Seq(Block)
  BY PrefixFreezeAssumption DEF Conversation
<1>2. Forwarded(c, n, floor) \in [1..n -> Form]
  BY DEF Forwarded, Form
<1>3. n \in Nat /\ n <= Len(About[c].history)
  BY <1>1
<1> QED BY <1>2, <1>3

LEMMA SendFloor ==
  ASSUME FloorInv, NEW c \in Conv, NEW n \in About[c].lengths, Send(c, n)
  PROVE  FloorInv'
<1> DEFINE s == SessionKey(c)
           floor == FrozenCount(Swept[s])
           request == [len |-> n, floor |-> floor, body |-> Forwarded(c, n, floor),
                       status |-> "open", confirmed |-> 0]
<1>1. s \in Key
  BY DEF Key
<1>2. floor \in Nat
  BY <1>1, SweptType, FrozenCountType
<1>3. request \in SentRequest /\ Len(request.body) <= Len(About[c].history)
  BY <1>2, ForwardedType DEF SentRequest
<1>4. sent \in [Conv -> Seq(SentRequest)]
  BY DEF FloorInv, TypeOK, SentRequest
<1>5. /\ sent' = [sent EXCEPT ![c] = Append(@, request)]
      /\ sweptAt' = SweptTime /\ now' = now
      /\ tracker' = IF Swept[s] = NoEntry THEN Swept
                    ELSE [Swept EXCEPT ![s] = Touched(@)]
  BY DEF Send
<1> HIDE DEF request, floor
<1>6. sent' \in [Conv -> Seq(SentRequest)]
  BY <1>3, <1>4, <1>5
<1>7. Swept[s] # NoEntry => Touched(Swept[s]) \in Entry
  BY <1>1, SweptType DEF Touched, Entry, FloorInv, TypeOK
<1>8. TypeOK'
  <2>1. tracker' \in [Key -> Entry \cup {NoEntry}]
    BY <1>1, <1>5, <1>7, SweptType
  <2>2. now' \in Nat /\ sweptAt' \in Nat \cup {Never}
    BY <1>5, SweptType DEF FloorInv, TypeOK
  <2> QED BY <1>6, <2>1, <2>2 DEF TypeOK, SentRequest
<1>9. ASSUME NEW d \in Conv, NEW k \in DOMAIN sent'[d]
      PROVE  \/ k \in DOMAIN sent[d] /\ sent'[d][k] = sent[d][k]
             \/ d = c /\ sent'[d][k] = request
  BY <1>4, <1>5
<1>10. SentFits'
  BY <1>3, <1>9 DEF SentFits, FloorInv
<1>11. \A d \in Conv : \A k \in DOMAIN sent[d] :
         k \in DOMAIN sent'[d] /\ sent'[d][k] = sent[d][k]
  BY <1>4, <1>5
<1>12. ASSUME NEW t \in Key PROVE Earned(t, tracker'[t], sent')
  <2>1. Earned(t, Swept[t], sent')
    BY <1>11, SweptType, EarnedKept
  <2>2. CASE tracker'[t] = Swept[t]
    BY <2>1, <2>2
  <2>3. CASE tracker'[t] # Swept[t]
    <3>1. /\ Swept[t] # NoEntry
          /\ tracker'[t].tokens = Swept[t].tokens /\ tracker'[t].count = Swept[t].count
      BY <1>1, <1>5, <2>3, SweptType DEF Touched
    <3>2. FrozenCount(tracker'[t]) > 0 => FrozenCount(Swept[t]) > 0
      BY <3>1 DEF FrozenCount
    <3> QED BY <2>1, <3>1, <3>2 DEF Earned
  <2> QED BY <2>2, <2>3
<1>13. (\A t \in Key : Earned(t, tracker[t], sent))'
  BY <1>12
<1> QED BY <1>8, <1>10, <1>13 DEF FloorInv

LEMMA AnswerFloor ==
  ASSUME FloorInv, NEW c \in Conv, NEW k \in Open(c),
         NEW u \in Answers(c, sent[c][k].body), Answer(c, k, u)
  PROVE  FloorInv'
<1> DEFINE s == SessionKey(c)
           body == sent[c][k].body
           w == Estimates(c, body)
           total == CachedTotal(c, u)
           e == NextEntry(Swept[s], w, total)
<1>1. s \in Key
  BY DEF Key
<1>2. sent \in [Conv -> Seq(SentRequest)]
  BY DEF FloorInv, TypeOK, SentRequest
<1>3. k \in DOMAIN sent[c] /\ sent[c][k].status = "open"
  BY DEF Open
<1>4. sent[c][k] \in SentRequest
  BY <1>2, <1>3
<1>5. body \in Seq(Form) /\ Len(body) <= Len(About[c].history)
  BY <1>3, <1>4 DEF SentRequest, FloorInv, SentFits
<1>6. w \in Seq(Nat) /\ total \in Nat
  BY <1>5, EstimatesType, CachedTotalType
<1>7. /\ Covered(w, total) \in 0..Len(w)
      /\ Covered(w, total) > 0 => SumOfFirst(w, Covered(w, total)) <= total
  BY <1>6, CoveredFits
<1>8. now \in Nat
  BY DEF FloorInv, TypeOK
<1>9. e \in Entry
  <2>1. Covered(w, total) \in Nat
    BY <1>7
  <2> HIDE DEF w, total
  <2> QED BY <1>6, <1>8, <2>1 DEF NextEntry, Entry
<1>10. FrozenCount(e) > 0 => e.count \in 1..Len(w) /\ SumOfFirst(w, e.count) <= e.tokens
  <2> HIDE DEF w, total
  <2>1. e.tokens = total /\ e.count = IF total = 0 THEN 0 ELSE Covered(w, total)
    BY DEF NextEntry
  <2>2. FrozenCount(e) > 0 => e.count > 0
    BY DEF FrozenCount
  <2> HIDE DEF e
  <2>3. FrozenCount(e) > 0 => e.count = Covered(w, total) /\ Covered(w, total) > 0
    BY <1>7, <2>1, <2>2
  <2> QED BY <1>7, <2>1, <2>3
<1>11. /\ sweptAt' = SweptTime /\ now' = now
       /\ tracker' = [Swept EXCEPT ![s] = e]
       /\ sent' = [sent EXCEPT ![c][k].status = "answered",
                               ![c][k].confirmed = FrozenCount(e)]
  BY DEF Answer
<1>12. FrozenCount(e) \in Nat
  <2> HIDE DEF e
  <2> QED BY <1>9, FrozenCountType
<1> HIDE DEF e, w, total
<1> DEFINE answered == [sent[c][k] EXCEPT !.status = "answered", !.confirmed = FrozenCount(e)]
<1>13. answered \in SentRequest /\ answered.body = body /\ answered.status = "answered"
  BY <1>4, <1>12 DEF SentRequest
<1>14. sent' = [sent EXCEPT ![c] = [sent[c] EXCEPT ![k] = answered]]
  BY <1>2, <1>3, <1>4, <1>11 DEF SentRequest
<1> HIDE DEF answered
<1>15. sent' \in [Conv -> Seq(SentRequest)]
  BY <1>2, <1>3, <1>13, <1>14
<1>16. \A d \in Conv : DOMAIN sent'[d] = DOMAIN sent[d]
  BY <1>2, <1>14
<1>17. ASSUME NEW d \in Conv, NEW j \in DOMAIN sent[d]
       PROVE  \/ sent'[d][j] = sent[d][j]
              \/ d = c /\ j = k /\ sent'[d][j] = answered
  BY <1>2, <1>14
<1>18. sent'[c][k] = answered
  BY <1>2, <1>3, <1>14
<1>19. TypeOK'
  <2>1. tracker' \in [Key -> Entry \cup {NoEntry}]
    BY <1>1, <1>9, <1>11, SweptType
  <2>2. now' \in Nat /\ sweptAt' \in Nat \cup {Never}
    BY <1>8, <1>11, SweptType
  <2> QED BY <1>15, <2>1, <2>2 DEF TypeOK, SentRequest
<1>20. SentFits'
  BY <1>5, <1>13, <1>16, <1>17 DEF SentFits, FloorInv
<1>21. ASSUME NEW d \in Conv, NEW j \in DOMAIN sent[d]
       PROVE  /\ j \in DOMAIN sent'[d] /\ sent'[d][j].body = sent[d][j].body
              /\ sent[d][j].status = "answered" => sent'[d][j].status = "answered"
  BY <1>13, <1>16, <1>17
<1>22. ASSUME NEW t \in Key PROVE Earned(t, tracker'[t], sent')
  <2>1. CASE t = s
    <3>1. tracker'[t] = e
      BY <1>1, <1>11, <2>1, SweptType
    <3>2. w = Estimates(c, sent'[c][k].body)
      BY <1>13, <1>18 DEF w
    <3>3. sent'[c][k].status = "answered" /\ k \in DOMAIN sent'[c]
      BY <1>3, <1>13, <1>16, <1>18
    <3> QED BY <1>10, <2>1, <3>1, <3>2, <3>3 DEF Earned
  <2>2. CASE t # s
    <3>1. tracker'[t] = Swept[t]
      BY <1>1, <1>11, <2>2, SweptType
    <3>2. Earned(t, Swept[t], sent')
      BY <1>21, SweptType, EarnedKept
    <3> QED BY <3>1, <3>2
  <2> QED BY <2>1, <2>2
<1>23. (\A t \in Key : Earned(t, tracker[t], sent))'
  BY <1>22
<1> QED BY <1>19, <1>20, <1>23 DEF FloorInv

LEMMA NoUsageFloor ==
  ASSUME FloorInv, NEW c \in Conv, NEW k \in Open(c), NoUsage(c, k)
  PROVE  FloorInv'
<1> DEFINE failed == [sent[c][k] EXCEPT !.status = "failed"]
<1>1. sent \in [Conv -> Seq(SentRequest)]
  BY DEF FloorInv, TypeOK, SentRequest
<1>2. k \in DOMAIN sent[c] /\ sent[c][k].status = "open"
  BY DEF Open
<1>3. sent[c][k] \in SentRequest
  BY <1>1, <1>2
<1>4. failed \in SentRequest /\ failed.body = sent[c][k].body
  BY <1>3 DEF SentRequest
<1>5. sent' = [sent EXCEPT ![c] = [sent[c] EXCEPT ![k] = failed]]
  BY <1>1, <1>2, <1>3 DEF NoUsage, SentRequest
<1> HIDE DEF failed
<1>6. sent' \in [Conv -> Seq(SentRequest)]
  BY <1>1, <1>2, <1>4, <1>5
<1>7. \A d \in Conv : DOMAIN sent'[d] = DOMAIN sent[d]
  BY <1>1, <1>5
<1>8. ASSUME NEW d \in Conv, NEW j \in DOMAIN sent[d]
      PROVE  /\ sent'[d][j].body = sent[d][j].body
             /\ sent'[d][j] = sent[d][j] \/ sent[d][j].status = "open"
  BY <1>1, <1>2, <1>4, <1>5
<1>9. UNCHANGED <<now, sweptAt, tracker>>
  BY DEF NoUsage
<1>10. TypeOK' /\ SentFits'
  BY <1>6, <1>7, <1>8, <1>9 DEF TypeOK, SentRequest, SentFits, FloorInv
<1>11. ASSUME NEW t \in Key PROVE Earned(t, tracker[t], sent')
  <2>1. Earned(t, tracker[t], sent)
    BY DEF FloorInv
  <2> QED BY <1>7, <1>8, <2>1, EarnedKept
<1>12. (\A t \in Key : Earned(t, tracker[t], sent))'
  BY <1>9, <1>11
<1> QED BY <1>10, <1>12 DEF FloorInv

LEMMA NextFloor == FloorInv /\ [Next]_vars => FloorInv'
<1> SUFFICES ASSUME FloorInv, [Next]_vars PROVE FloorInv'
  OBVIOUS
<1>1. ASSUME NEW c \in Conv, NEW n \in About[c].lengths, Send(c, n) PROVE FloorInv'
  BY <1>1, SendFloor
<1>2. ASSUME NEW c \in Conv, NEW k \in Open(c), NoUsage(c, k) PROVE FloorInv'
  BY <1>2, NoUsageFloor
<1>3. ASSUME NEW c \in Conv, NEW k \in Open(c), NEW u \in Answers(c, sent[c][k].body),
             Answer(c, k, u)
      PROVE  FloorInv'
  BY <1>3, AnswerFloor
<1>4. CASE Restart
  <2>1. TypeOK' /\ SentFits'
    BY <1>4 DEF Restart, FloorInv, TypeOK, SentFits
  <2>2. \A t \in Key : FrozenCount(tracker'[t]) = 0
    BY <1>4 DEF Restart, FrozenCount
  <2>3. (\A t \in Key : Earned(t, tracker[t], sent))'
    BY <2>2 DEF Earned
  <2> QED BY <2>1, <2>3 DEF FloorInv
<1>5. CASE Tick
  <2>1. UNCHANGED <<sweptAt, tracker, sent>> /\ now' \in Nat
    BY <1>5 DEF Tick, FloorInv, TypeOK
  <2>2. TypeOK' /\ SentFits'
    BY <2>1 DEF FloorInv, TypeOK, SentFits
  <2>3. (\A t \in Key : Earned(t, tracker[t], sent))'
    BY <2>1 DEF FloorInv
  <2> QED BY <2>2, <2>3 DEF FloorInv
<1>6. CASE UNCHANGED vars
  <2>1. UNCHANGED <<now, sweptAt, tracker, sent>>
    BY <1>6 DEF vars
  <2>2. TypeOK' /\ SentFits'
    BY <2>1 DEF FloorInv, TypeOK, SentFits
  <2>3. (\A t \in Key : Earned(t, tracker[t], sent))'
    BY <2>1 DEF FloorInv
  <2> QED BY <2>2, <2>3 DEF FloorInv
<1> QED BY <1>1, <1>2, <1>3, <1>4, <1>5, <1>6 DEF Next

LEMMA SpecFloorInv == Spec => []FloorInv
BY InitFloor, NextFloor, PTL DEF Spec

(* The trackers and the requests keep their types: no usage makes a count  *)
(* or a total anything but a natural number.                               *)
THEOREM SpecTypes == Spec => []TypeOK
<1>1. FloorInv => TypeOK
  BY DEF FloorInv
<1> QED BY <1>1, SpecFloorInv, PTL

(* Every floor was earned by an answer heard in that session, and covers   *)
(* no more messages than their estimates fit into the cached tokens        *)
(* (update_from_response), for any interleaving of requests and answers.   *)
THEOREM SpecFloorIsEarned == Spec => []FloorIsEarned
<1>1. FloorInv => FloorIsEarned
  BY DEF FloorInv, Earned, FloorIsEarned
<1> QED BY <1>1, SpecFloorInv, PTL

-----------------------------------------------------------------------------
(* Two requests of one conversation: the longer one, under the higher      *)
(* floor, compresses nothing of the shorter one's messages that the        *)
(* shorter one did not.                                                    *)
LEMMA ItemFloorGrows ==
  ASSUME NEW c \in Conv, NEW n, NEW m, NEW f \in Nat, NEW g \in Nat, f <= g
  PROVE  ItemFloor(ClientBody(c, n, f)) <= ItemFloor(ClientBody(c, m, g))
BY DEF ItemFloor, ClientBody

LEMMA Prefix ==
  ASSUME NEW c \in Conv, NEW n \in 1..Len(About[c].history)
  PROVE  /\ Len(SubSeq(About[c].history, 1, n)) = n
         /\ DOMAIN SubSeq(About[c].history, 1, n) = 1..n
         /\ \A i \in 1..n : /\ SubSeq(About[c].history, 1, n)[i] = About[c].history[i]
                            /\ About[c].history[i] \in Block
                            /\ About[c].history[i].msg = i - 1
<1> PICK h \in Seq(Block) : h = About[c].history
  BY PrefixFreezeAssumption DEF Conversation
<1>1. \A i \in 1..Len(h) : h[i].msg = i - 1
  BY PrefixFreezeAssumption DEF Conversation
<1>2. Len(SubSeq(h, 1, n)) = n /\ \A i \in 1..n : SubSeq(h, 1, n)[i] = h[i]
  OBVIOUS
<1> QED BY <1>1, <1>2

LEMMA RetrieveCallsGrow ==
  ASSUME NEW c \in Conv, NEW n \in 1..Len(About[c].history),
         NEW m \in n..Len(About[c].history)
  PROVE  RetrieveCalls(SubSeq(About[c].history, 1, n))
           \subseteq RetrieveCalls(SubSeq(About[c].history, 1, m))
<1>1. m \in 1..Len(About[c].history)
  BY PrefixFreezeAssumption DEF Conversation
<1> DEFINE a == SubSeq(About[c].history, 1, n)
           b == SubSeq(About[c].history, 1, m)
<1>2. DOMAIN a = 1..n /\ DOMAIN b = 1..m /\ \A i \in 1..n : i \in 1..m /\ a[i] = b[i]
  BY <1>1, Prefix
<1> HIDE DEF a, b
<1>3. RetrieveCalls(a) \subseteq RetrieveCalls(b)
  BY <1>2 DEF RetrieveCalls
<1> QED BY <1>3 DEF a, b

LEMMA PlanShrinks ==
  ASSUME NEW c \in Conv, Predictable(c),
         NEW n \in 1..Len(About[c].history), NEW m \in n..Len(About[c].history),
         NEW f \in Nat, NEW g \in Nat, f <= g,
         NEW i \in 1..n, i \in Plan(ClientBody(c, m, g))
  PROVE  i \in Plan(ClientBody(c, n, f))
<1> DEFINE h == About[c].history
           a == SubSeq(h, 1, n)
           b == SubSeq(h, 1, m)
<1>1. m \in 1..Len(h) /\ i \in 1..m /\ n \in Nat /\ m \in Nat
  BY PrefixFreezeAssumption DEF Conversation
<1>2. /\ DOMAIN a = 1..n /\ DOMAIN b = 1..m
      /\ \A j \in 1..n : j \in 1..m /\ a[j] = b[j] /\ a[j] = h[j]
      /\ \A j \in 1..m : b[j] = h[j] /\ b[j] \in Block /\ b[j].msg = j - 1
  BY <1>1, Prefix
<1>3. RetrieveCalls(a) \subseteq RetrieveCalls(b)
  BY RetrieveCallsGrow
<1>4. CASE About[c].shape = "responses"
  <2> DEFINE fa == ItemFloor(ClientBody(c, n, f))
             fb == ItemFloor(ClientBody(c, m, g))
  <2>1. fa <= fb
    BY ItemFloorGrows
  <2>2. fa \in Nat /\ fb \in Nat
    BY DEF ItemFloor, ClientBody
  <2>3. Plan(ClientBody(c, m, g)) = PlanResponses(b, fb)
    BY <1>4 DEF Plan, ClientBody
  <2>4. Plan(ClientBody(c, n, f)) = PlanResponses(a, fa)
    BY <1>4 DEF Plan, ClientBody
  <2> HIDE DEF fa, fb, a, b, h
  <2>5. i \in PlanResponses(b, fb)
    BY <2>3
  <2>6. i - 1 >= fb /\ b[i].type = "tool_result" /\ b[i].call \notin RetrieveCalls(b)
    BY <1>1, <1>2, <2>5 DEF PlanResponses, AtOrAboveFloor
  <2>7. i - 1 >= fa /\ a[i] = b[i] /\ b[i].msg = i - 1 /\ i \in DOMAIN a
    BY <1>1, <1>2, <2>1, <2>2, <2>6
  <2>8. i \in PlanResponses(a, fa)
    BY <1>3, <2>6, <2>7 DEF PlanResponses, AtOrAboveFloor
  <2> QED BY <2>4, <2>8
<1>5. CASE About[c].shape = "messages"
  <2>1. Plan(ClientBody(c, m, g)) = PlanMessages(b, g)
    BY <1>5 DEF Plan, ClientBody
  <2>2. Plan(ClientBody(c, n, f)) = PlanMessages(a, f)
    BY <1>5 DEF Plan, ClientBody
  <2> HIDE DEF a, b, h
  <2>3. i \in PlanMessages(b, g)
    BY <2>1
  <2>4. i - 1 >= g /\ a[i] = b[i] /\ a[i].msg = i - 1 /\ i \in DOMAIN a
    BY <1>1, <1>2, <2>3 DEF PlanMessages, AtOrAboveFloor
  <2>5. i - 1 >= f
    BY <2>4, <1>1
  <2>6. ~BeforeBreakpoint(a, i)
    <3>1. ~BeforeBreakpoint(b, i)
      BY <2>3 DEF PlanMessages
    <3> QED BY <1>1, <1>2, <2>4, <3>1 DEF BeforeBreakpoint
  <2>7. i \in PlanMessages(a, f)
    BY <2>3, <2>4, <2>5, <2>6 DEF PlanMessages, AtOrAboveFloor
  <2> QED BY <2>2, <2>7
<1>6. CASE About[c].shape = "chat"
  <2>1. Plan(ClientBody(c, m, g)) = PlanChat(b, g)
    BY <1>6 DEF Plan, ClientBody
  <2>2. Plan(ClientBody(c, n, f)) = PlanChat(a, f)
    BY <1>6 DEF Plan, ClientBody
  <2>3. \A p, q \in 1..m : b[p].type = "tool_use" /\ b[q].role = "tool" /\ b[p].call = b[q].call
                             => p < q
    <3>1. \A p \in 1..m : p \in 1..Len(h)
      BY <1>1
    <3> HIDE DEF b
    <3> QED BY <1>2, <3>1 DEF Predictable
  <2> HIDE DEF a, b, h
  <2> DEFINE Tool(s, e) == {j \in DOMAIN s : /\ AtOrAboveFloor(s[j], e)
                                             /\ s[j].role = "tool" /\ ~s[j].retrieve
                                             /\ s[j].call \notin RetrieveCalls(s)}
             User(s, e) == {j \in DOMAIN s : /\ AtOrAboveFloor(s[j], e)
                                             /\ s[j].role = "user" /\ CompressUserText}
             Last(s, S) == {j \in S : \A k \in S : s[k].msg <= s[j].msg}
  <2>4. \A s, e : PlanChat(s, e) = {j \in Last(s, Tool(s, e)) : s[j].type = "tool_result"}
                         \cup {j \in Last(s, User(s, e)) : s[j].type = "text"}
    BY DEF PlanChat
  <2>5. \A j \in 1..n : /\ j \in DOMAIN a /\ j \in DOMAIN b /\ a[j] = b[j] /\ a[j].msg = j - 1
                        /\ AtOrAboveFloor(b[j], g) <=> j - 1 >= g
                        /\ AtOrAboveFloor(a[j], f) <=> j - 1 >= f
    BY <1>1, <1>2 DEF AtOrAboveFloor
  <2>6. i \in PlanChat(b, g)
    BY <2>1
  <2>7. CASE i \in Last(b, Tool(b, g)) /\ b[i].type = "tool_result"
    <3>1. i - 1 >= g /\ b[i].role = "tool" /\ ~b[i].retrieve /\ b[i].call \notin RetrieveCalls(b)
      BY <2>5, <2>7
    <3>2. i \in Tool(a, f)
      BY <1>1, <1>3, <2>5, <3>1
    <3>3. ASSUME NEW j \in Tool(a, f) PROVE a[j].msg <= a[i].msg
      <4>1. j \in 1..n /\ a[j] = b[j] /\ a[j].msg = j - 1 /\ a[i].msg = i - 1
        BY <1>2, <2>5
      <4>2. CASE j - 1 < g
        BY <1>1, <3>1, <4>1, <4>2
      <4>3. CASE j - 1 >= g /\ b[j].call \notin RetrieveCalls(b)
        <5>1. j \in Tool(b, g)
          BY <2>5, <4>1, <4>3
        <5> QED BY <2>7, <5>1, <4>1, <2>5
      <4>4. CASE b[j].call \in RetrieveCalls(b)
        <5>1. PICK k \in DOMAIN b : b[k].type = "tool_use" /\ b[k].retrieve /\ b[k].call = b[j].call
          BY <4>4 DEF RetrieveCalls
        <5>2. k < j
          BY <1>2, <2>3, <4>1, <5>1
        <5>3. k \in DOMAIN a /\ a[k] = b[k]
          BY <1>1, <1>2, <4>1, <5>1, <5>2
        <5>4. a[j].call \in RetrieveCalls(a)
          BY <4>1, <5>1, <5>3 DEF RetrieveCalls
        <5> QED BY <5>4
      <4> QED BY <1>1, <4>1, <4>2, <4>3, <4>4
    <3>4. i \in Last(a, Tool(a, f)) /\ a[i].type = "tool_result"
      BY <2>5, <2>7, <3>2, <3>3
    <3> HIDE DEF Tool, User, Last
    <3> QED BY <2>2, <2>4, <3>4
  <2>8. CASE i \in Last(b, User(b, g)) /\ b[i].type = "text"
    <3>1. i - 1 >= g /\ b[i].role = "user" /\ CompressUserText
      BY <2>5, <2>8
    <3>2. i \in User(a, f)
      BY <1>1, <2>5, <3>1
    <3>3. ASSUME NEW j \in User(a, f) PROVE a[j].msg <= a[i].msg
      <4>1. j \in 1..n /\ a[j] = b[j] /\ a[j].msg = j - 1 /\ a[i].msg = i - 1
        BY <1>2, <2>5
      <4>2. CASE j - 1 < g
        BY <1>1, <3>1, <4>1, <4>2
      <4>3. CASE j - 1 >= g
        <5>1. j \in User(b, g)
          BY <2>5, <4>1, <4>3
        <5> QED BY <2>8, <5>1, <4>1, <2>5
      <4> QED BY <1>1, <4>1, <4>2, <4>3
    <3>4. i \in Last(a, User(a, f)) /\ a[i].type = "text"
      BY <2>5, <2>8, <3>2, <3>3
    <3> HIDE DEF Tool, User, Last
    <3> QED BY <2>2, <2>4, <3>4
  <2> HIDE DEF Tool, User, Last
  <2> QED BY <2>4, <2>6, <2>7, <2>8
<1> QED BY <1>4, <1>5, <1>6, PrefixFreezeAssumption DEF Conversation

LEMMA PlanFits ==
  ASSUME NEW c \in Conv, NEW n \in 1..Len(About[c].history), NEW f,
         NEW i \in Plan(ClientBody(c, n, f))
  PROVE  i \in 1..n
<1>1. DOMAIN SubSeq(About[c].history, 1, n) = 1..n
  BY Prefix
<1> QED
  BY <1>1, PrefixFreezeAssumption
  DEF Conversation, Plan, ClientBody, PlanChat, PlanMessages, PlanResponses

(* An output is planned under a floor if it is planned without and lies    *)
(* above.                                                                  *)
LEMMA PlanAboveFloor ==
  ASSUME NEW c \in Conv, NEW n \in 1..Len(About[c].history), NEW f \in Nat,
         NEW i \in Plan(ClientBody(c, n, 0)), i - 1 >= ItemFloor(ClientBody(c, n, f))
  PROVE  i \in Plan(ClientBody(c, n, f)) /\ i \in 1..n
<1> DEFINE h == About[c].history
           a == SubSeq(h, 1, n)
<1>1. n \in Nat /\ About[c].shape \in {"chat", "responses", "messages"}
  BY PrefixFreezeAssumption DEF Conversation
<1>2. DOMAIN a = 1..n /\ \A j \in 1..n : a[j].msg = j - 1
  BY Prefix
<1>3. CASE About[c].shape = "responses"
  <2> DEFINE fa == ItemFloor(ClientBody(c, n, f))
  <2>1. Plan(ClientBody(c, n, f)) = PlanResponses(a, fa)
    BY <1>3 DEF Plan, ClientBody
  <2>2. i \in PlanResponses(a, 0)
    BY <1>3 DEF Plan, ClientBody, ItemFloor
  <2> HIDE DEF fa, a, h
  <2>3. i \in 1..n /\ AtOrAboveFloor(a[i], fa)
    BY <1>2, <2>2 DEF PlanResponses, AtOrAboveFloor, fa
  <2> QED BY <2>1, <2>2, <2>3 DEF PlanResponses
<1>4. CASE About[c].shape = "messages"
  <2>1. Plan(ClientBody(c, n, f)) = PlanMessages(a, f)
    BY <1>4 DEF Plan, ClientBody
  <2>2. i \in PlanMessages(a, 0)
    BY <1>4 DEF Plan, ClientBody
  <2>3. i - 1 >= f
    BY <1>4, PrefixFreezeAssumption DEF Conversation, ItemFloor, ClientBody
  <2> HIDE DEF a, h
  <2>4. i \in 1..n /\ AtOrAboveFloor(a[i], f)
    BY <1>2, <2>2, <2>3 DEF PlanMessages, AtOrAboveFloor
  <2> QED BY <2>1, <2>2, <2>4 DEF PlanMessages
<1>5. CASE About[c].shape = "chat"
  <2>1. Plan(ClientBody(c, n, f)) = PlanChat(a, f)
    BY <1>5 DEF Plan, ClientBody
  <2>2. i \in PlanChat(a, 0)
    BY <1>5 DEF Plan, ClientBody
  <2>3. i - 1 >= f
    BY <1>5, PrefixFreezeAssumption DEF Conversation, ItemFloor, ClientBody
  <2> HIDE DEF a, h
  <2>4. i \in 1..n
    BY <1>2, <2>2 DEF PlanChat
  <2>5. AtOrAboveFloor(a[i], f)
    BY <1>2, <2>3, <2>4 DEF AtOrAboveFloor
  <2>6. \A j \in 1..n : AtOrAboveFloor(a[j], f) => AtOrAboveFloor(a[j], 0)
    BY <1>2 DEF AtOrAboveFloor
  <2> QED BY <1>2, <2>1, <2>2, <2>4, <2>5, <2>6 DEF PlanChat
<1> QED BY <1>1, <1>3, <1>4, <1>5

-----------------------------------------------------------------------------
(* The history of a conversation: what was forwarded is what the floor     *)
(* allowed, and no request is shorter than one before.                     *)
Tells(c, requests) ==
  \A k \in DOMAIN requests :
    /\ requests[k].len \in About[c].lengths
    /\ requests[k].body = Forwarded(c, requests[k].len, requests[k].floor)
    /\ requests[k].len <= requests[Len(requests)].len

History == FloorInv /\ \A c \in Conv : Tells(c, sent[c])

(* A request that is appended continues the history, and one whose answer  *)
(* is recorded stays in it.                                                *)
LEMMA Continued ==
  ASSUME History, NEW c \in Conv, NEW n \in About[c].lengths, NEW r \in SentRequest,
         r.len = n, r.body = Forwarded(c, n, r.floor),
         \A k \in DOMAIN sent[c] : sent[c][k].len <= n
  PROVE  Tells(c, Append(sent[c], r))
<1> PICK q \in Seq(SentRequest) : q = sent[c]
  BY DEF History, FloorInv, TypeOK, SentRequest
<1>1. n \in Nat
  BY ForwardedType
<1>2. /\ Len(Append(q, r)) = Len(q) + 1 /\ Append(q, r)[Len(q) + 1] = r
      /\ \A k \in DOMAIN Append(q, r) : k = Len(q) + 1 \/ k \in DOMAIN q
      /\ \A k \in DOMAIN q : Append(q, r)[k] = q[k]
  OBVIOUS
<1>3. Tells(c, q)
  BY DEF History
<1> QED BY <1>1, <1>2, <1>3 DEF Tells

LEMMA Recorded ==
  ASSUME History, NEW c \in Conv, NEW k \in DOMAIN sent[c], NEW r \in SentRequest,
         r.len = sent[c][k].len, r.floor = sent[c][k].floor, r.body = sent[c][k].body
  PROVE  Tells(c, [sent[c] EXCEPT ![k] = r])
<1> PICK q \in Seq(SentRequest) : q = sent[c]
  BY DEF History, FloorInv, TypeOK, SentRequest
<1>1. /\ Len([q EXCEPT ![k] = r]) = Len(q) /\ DOMAIN [q EXCEPT ![k] = r] = DOMAIN q
      /\ \A j \in DOMAIN q : [q EXCEPT ![k] = r][j] = IF j = k THEN r ELSE q[j]
  OBVIOUS
<1>2. Len(q) \in DOMAIN q
  OBVIOUS
<1>3. Tells(c, q)
  BY DEF History
<1> QED BY <1>1, <1>2, <1>3 DEF Tells

-----------------------------------------------------------------------------
(* Where the weights of one body are below those of another, so are the    *)
(* sums.                                                                   *)
LEMMA SumsCompare ==
  ASSUME NEW w \in Seq(Nat), NEW v \in Seq(Nat), NEW m \in Nat,
         m <= Len(w), m <= Len(v), \A i \in 1..m : w[i] <= v[i]
  PROVE  \A n \in 0..m : SumOfFirst(w, n) <= SumOfFirst(v, n)
<1> DEFINE Bad == {n \in 0..m : ~(SumOfFirst(w, n) <= SumOfFirst(v, n))}
<1> SUFFICES ASSUME Bad # {} PROVE FALSE
  OBVIOUS
<1>1. Bad \in SUBSET Nat
  OBVIOUS
<1>2. PICK n \in Bad : \A k \in Bad : n <= k
  BY <1>1, Least
<1>3. /\ \A k \in 0..m : SumOfFirst(w, k) \in Nat
      /\ \A k \in 0..m : SumOfFirst(v, k) \in Nat
  <2>1. \A k \in 0..m : k \in 0..Len(w) /\ k \in 0..Len(v)
    OBVIOUS
  <2> QED BY <2>1, SumIsNat
<1>4. n # 0
  BY SumUnfolds
<1>5. /\ n - 1 \in 0..m /\ n - 1 \notin Bad /\ n \in Nat \ {0}
      /\ w[n] <= v[n] /\ w[n] \in Nat /\ v[n] \in Nat
  BY <1>2, <1>4
<1>6. /\ SumOfFirst(w, n) = SumOfFirst(w, n - 1) + w[n]
      /\ SumOfFirst(v, n) = SumOfFirst(v, n - 1) + v[n]
  BY <1>5, SumUnfolds
<1>7. SumOfFirst(w, n - 1) <= SumOfFirst(v, n - 1)
  BY <1>5
<1>8. SumOfFirst(w, n) <= SumOfFirst(v, n)
  <2>1. SumOfFirst(w, n - 1) \in Nat /\ SumOfFirst(v, n - 1) \in Nat
    BY <1>3, <1>5
  <2> HIDE DEF Bad
  <2> QED BY <1>5, <1>6, <1>7, <2>1
<1> QED BY <1>8

(* The walk over all the tokens of a request covers all of its messages,   *)
(* and the reply only if its estimate is nothing.                          *)
LEMMA CoveredAll ==
  ASSUME NEW w \in Seq(Nat), NEW all, all = SumOfFirst(w, Len(w)), NEW r \in Nat
  PROVE  /\ all \in Nat
         /\ Covered(w, all) = Len(w)
         /\ Covered(Append(w, r), all) = Len(w) + IF r = 0 THEN 1 ELSE 0
<1> PICK n \in Nat : n = Len(w)
  OBVIOUS
<1>0. Append(w, r) \in Seq(Nat)
  OBVIOUS
<1> PICK v \in Seq(Nat) : v = Append(w, r)
  BY <1>0
<1>1. Len(v) = n + 1 /\ v[n + 1] = r /\ \A i \in 1..n : v[i] = w[i] /\ w[i] \in Nat
  OBVIOUS
<1>2. \A k \in 0..n : SumOfFirst(w, k) \in Nat /\ SumOfFirst(w, k) <= all
  <2>1. \A k \in 0..n : n \in k..Len(w) /\ k \in 0..Len(w)
    OBVIOUS
  <2> QED BY <2>1, SumGrows, SumIsNat
<1>3. all \in Nat
  BY <1>2
<1>4. \A k \in 0..n : SumOfFirst(v, k) = SumOfFirst(w, k)
  <2>1. /\ \A k \in 0..n : SumOfFirst(w, k) <= SumOfFirst(v, k)
        /\ \A k \in 0..n : SumOfFirst(v, k) <= SumOfFirst(w, k)
    <3>1. /\ n <= Len(w) /\ n <= Len(v)
          /\ \A i \in 1..n : w[i] <= v[i] /\ v[i] <= w[i]
      BY <1>1
    <3> QED BY <3>1, SumsCompare
  <2>2. \A k \in 0..n : SumOfFirst(v, k) \in Nat
    <3>1. \A k \in 0..n : k \in 0..Len(v)
      BY <1>1
    <3> QED BY <3>1, SumIsNat
  <2> QED BY <1>2, <2>1, <2>2
<1>5. Covered(w, all) = n
  <2>1. {k \in 1..Len(w) : SumOfFirst(w, k) <= all} = 1..n
    BY <1>2
  <2> QED BY <2>1, UpToFinite DEF Covered
<1>6. SumOfFirst(v, n + 1) = all + r
  <2>1. n + 1 \in Nat \ {0} /\ (n + 1) - 1 = n /\ n \in 0..n
    OBVIOUS
  <2>2. SumOfFirst(v, n + 1) = SumOfFirst(v, n) + v[n + 1]
    BY <2>1, SumUnfolds
  <2> QED BY <1>1, <1>4, <2>1, <2>2
<1>7. CASE r = 0
  <2>1. {k \in 1..Len(v) : SumOfFirst(v, k) <= all} = 1..(n + 1)
    <3>1. \A k \in 1..(n + 1) : k \in 0..n \/ k = n + 1
      OBVIOUS
    <3>2. \A k \in 1..(n + 1) : SumOfFirst(v, k) <= all
      BY <1>2, <1>3, <1>4, <1>6, <1>7, <3>1
    <3> QED BY <1>1, <3>2
  <2>2. Covered(v, all) = n + 1
    <3>1. n + 1 \in Nat
      OBVIOUS
    <3> QED BY <2>1, <3>1, UpToFinite DEF Covered
  <2> QED BY <1>3, <1>5, <1>7, <2>2
<1>8. CASE r # 0
  <2>1. {k \in 1..Len(v) : SumOfFirst(v, k) <= all} = 1..n
    <3>1. ~(SumOfFirst(v, n + 1) <= all)
      BY <1>3, <1>6, <1>8
    <3>2. \A k \in 1..n : SumOfFirst(v, k) <= all
      BY <1>2, <1>4
    <3>3. \A k \in 1..Len(v) : k \in 1..n \/ k = n + 1
      BY <1>1
    <3>4. \A k \in 1..n : k \in 1..Len(v)
      BY <1>1
    <3> QED BY <3>1, <3>2, <3>3, <3>4
  <2>2. Covered(v, all) = n
    BY <2>1, UpToFinite DEF Covered
  <2> QED BY <1>3, <1>5, <1>8, <2>2
<1> QED BY <1>7, <1>8

-----------------------------------------------------------------------------
(* The weights of a body, message by message.                              *)
Weight(c, body, W, i) ==
  IF body[i] = "marker" THEN MarkerTokens ELSE W[About[c].history[i].content.text]

(* The entry in front of the messages: the instructions.                   *)
Extra(c) == IF About[c].instructions THEN 1 ELSE 0

LEMMA WeightsAt ==
  ASSUME NEW c \in Conv, NEW body \in Seq(Form), Len(body) <= Len(About[c].history),
         NEW W \in [Text -> Nat]
  PROVE  /\ Weights(c, body, W) \in Seq(Nat)
         /\ Len(Weights(c, body, W)) = Len(body) + Extra(c)
         /\ \A i \in 1..Extra(c) : Weights(c, body, W)[i] = InstructionsTokens
         /\ \A i \in 1..Len(body) : Weights(c, body, W)[Extra(c) + i] = Weight(c, body, W, i)
<1>1. Weights(c, body, W) \in Seq(Nat)
  BY WeightsType
<1> PICK n \in Nat : n = Len(body)
  OBVIOUS
<1> PICK messages : messages = [i \in 1..n |-> Weight(c, body, W, i)]
  OBVIOUS
<1>2. messages = [i \in DOMAIN body |->
                    IF body[i] = "marker" THEN MarkerTokens
                    ELSE W[About[c].history[i].content.text]]
  BY DEF Weight
<1>3. Weights(c, body, W) = IF About[c].instructions THEN <<InstructionsTokens>> \o messages
                            ELSE messages
  BY <1>2, Zenon DEF Weights
<1>4. /\ messages \in Seq({messages[i] : i \in 1..n}) /\ Len(messages) = n
      /\ \A i \in 1..n : messages[i] = Weight(c, body, W, i)
  OBVIOUS
<1>5. CASE About[c].instructions
  <2> PICK T : T = {InstructionsTokens} \cup {messages[i] : i \in 1..n}
    OBVIOUS
  <2>1. messages \in Seq(T) /\ <<InstructionsTokens>> \in Seq(T)
    BY <1>4
  <2>2. PICK v : v = <<InstructionsTokens>> \o messages
    OBVIOUS
  <2>3. Len(v) = n + 1 /\ v[1] = InstructionsTokens /\ \A i \in 1..n : v[1 + i] = messages[i]
    BY <1>4, <2>1, <2>2
  <2>4. Weights(c, body, W) = v /\ Extra(c) = 1
    BY <1>3, <1>5, <2>2 DEF Extra
  <2> QED BY <1>1, <1>4, <2>3, <2>4
<1>6. CASE ~About[c].instructions
  <2>1. Weights(c, body, W) = messages /\ Extra(c) = 0
    BY <1>3, <1>6 DEF Extra
  <2> QED BY <1>1, <1>4, <2>1
<1> QED BY <1>5, <1>6

(* The floor that an answer to a body grants when the provider caches all  *)
(* of it.                                                                  *)
Grant(c, body) ==
  LET w == Weights(c, body, Tokens)
      all == SumOfFirst(w, Len(w))
  IN IF all < MinCachedTokens THEN 0 ELSE Covered(Estimates(c, body), all)

(* A reply estimated at nothing is covered along with the messages.        *)
ReplyCovered(c) ==
  IF About[c].shape = "messages" /\ ReplyEstimate = 0 THEN 1 ELSE 0

LEMMA GrantIs ==
  ASSUME NEW c \in Conv, Predictable(c),
         NEW body \in Seq(Form), Len(body) <= Len(About[c].history),
         NEW all, all = SumOfFirst(Weights(c, body, Tokens), Len(body) + Extra(c))
  PROVE  /\ all \in Nat
         /\ Grant(c, body) = IF all < MinCachedTokens THEN 0
                             ELSE Len(body) + Extra(c) + ReplyCovered(c)
<1> PICK w \in Seq(Nat) : w = Weights(c, body, Tokens)
  BY WeightsType, PrefixFreezeAssumption
<1>1. Len(w) = Len(body) + Extra(c)
  BY WeightsAt, PrefixFreezeAssumption
<1>2. w = Weights(c, body, Estimate)
  <2>1. DOMAIN body = 1..Len(body)
    OBVIOUS
  <2>2. Len(body) \in Nat /\ Len(About[c].history) \in Nat
    BY PrefixFreezeAssumption DEF Conversation
  <2>3. \A i \in DOMAIN body : Tokens[About[c].history[i].content.text]
                                 = Estimate[About[c].history[i].content.text]
    BY <2>1, <2>2 DEF Predictable
  <2>4. [i \in DOMAIN body |-> IF body[i] = "marker" THEN MarkerTokens
                               ELSE Tokens[About[c].history[i].content.text]]
        = [i \in DOMAIN body |-> IF body[i] = "marker" THEN MarkerTokens
                                 ELSE Estimate[About[c].history[i].content.text]]
    BY <2>3
  <2> QED BY <2>4, Zenon DEF Weights
<1>3. /\ all \in Nat /\ Covered(w, all) = Len(w)
      /\ Covered(Append(w, ReplyEstimate), all)
           = Len(w) + IF ReplyEstimate = 0 THEN 1 ELSE 0
  <2>1. all = SumOfFirst(w, Len(w)) /\ ReplyEstimate \in Nat
    BY <1>1, PrefixFreezeAssumption
  <2> QED BY <2>1, CoveredAll
<1>4. Grant(c, body) = IF all < MinCachedTokens THEN 0 ELSE Covered(Estimates(c, body), all)
  BY <1>1 DEF Grant
<1>5. Covered(Estimates(c, body), all) = Len(w) + ReplyCovered(c)
  <2>1. CASE About[c].shape = "messages"
    BY <1>2, <1>3, <2>1 DEF Estimates, ReplyCovered
  <2>2. CASE About[c].shape # "messages"
    <3>1. Estimates(c, body) = w
      BY <1>2, <2>2 DEF Estimates
    <3> QED BY <1>3, <2>2, <3>1 DEF ReplyCovered
  <2> QED BY <2>1, <2>2
<1> QED BY <1>1, <1>3, <1>4, <1>5

(* A longer request under a higher floor has more tokens, message by       *)
(* message: so its answer grants no lower floor.                           *)
LEMMA GrantGrows ==
  ASSUME NEW c \in Conv, Predictable(c),
         NEW n \in About[c].lengths, NEW m \in About[c].lengths, n <= m,
         NEW f \in Nat, NEW g \in Nat, f <= g
  PROVE  Grant(c, Forwarded(c, n, f)) <= Grant(c, Forwarded(c, m, g))
<1>1. /\ n \in 1..Len(About[c].history) /\ m \in n..Len(About[c].history)
      /\ m \in 1..Len(About[c].history) /\ n \in Nat /\ m \in Nat
      /\ Len(About[c].history) \in Nat
  BY PrefixFreezeAssumption DEF Conversation
<1> PICK a \in Seq(Form) : a = Forwarded(c, n, f)
  BY ForwardedType
<1> PICK b \in Seq(Form) : b = Forwarded(c, m, g)
  BY ForwardedType
<1>2. Len(a) = n /\ Len(b) = m
  BY <1>1 DEF Forwarded
<1> PICK x \in Seq(Nat) : x = Weights(c, a, Tokens)
  BY <1>1, <1>2, WeightsType, PrefixFreezeAssumption
<1> PICK y \in Seq(Nat) : y = Weights(c, b, Tokens)
  BY <1>1, <1>2, WeightsType, PrefixFreezeAssumption
<1>3. /\ Len(x) = n + Extra(c)
      /\ \A i \in 1..Extra(c) : x[i] = InstructionsTokens
      /\ \A i \in 1..n : x[Extra(c) + i] = Weight(c, a, Tokens, i)
  <2>1. Len(a) <= Len(About[c].history) /\ Tokens \in [Text -> Nat]
    BY <1>1, <1>2, PrefixFreezeAssumption
  <2>2. /\ Len(Weights(c, a, Tokens)) = Len(a) + Extra(c)
        /\ \A i \in 1..Extra(c) : Weights(c, a, Tokens)[i] = InstructionsTokens
        /\ \A i \in 1..Len(a) :
             Weights(c, a, Tokens)[Extra(c) + i] = Weight(c, a, Tokens, i)
    BY <2>1, WeightsAt, Zenon
  <2> QED BY <1>2, <2>2, Zenon
<1>4. /\ Len(y) = m + Extra(c)
      /\ \A i \in 1..Extra(c) : y[i] = InstructionsTokens
      /\ \A i \in 1..m : y[Extra(c) + i] = Weight(c, b, Tokens, i)
  <2>1. Len(b) <= Len(About[c].history) /\ Tokens \in [Text -> Nat]
    BY <1>1, <1>2, PrefixFreezeAssumption
  <2>2. /\ Len(Weights(c, b, Tokens)) = Len(b) + Extra(c)
        /\ \A i \in 1..Extra(c) : Weights(c, b, Tokens)[i] = InstructionsTokens
        /\ \A i \in 1..Len(b) :
             Weights(c, b, Tokens)[Extra(c) + i] = Weight(c, b, Tokens, i)
    BY <2>1, WeightsAt, Zenon
  <2> QED BY <1>2, <2>2, Zenon
<1>5. Extra(c) \in {0, 1} /\ ReplyCovered(c) \in {0, 1}
  BY DEF Extra, ReplyCovered
<1>6. ASSUME NEW i \in 1..n
      PROVE  Weight(c, a, Tokens, i) <= Weight(c, b, Tokens, i)
  <2>1. i \in 1..m /\ i \in 1..Len(About[c].history)
    BY <1>1
  <2> PICK t \in Text : t = About[c].history[i].content.text
    <3>1. About[c].history \in Seq(Block) /\ About[c].history[i].content.kind = "text"
      BY <2>1, PrefixFreezeAssumption DEF Conversation
    <3>2. About[c].history[i] \in Block
      BY <2>1, <3>1
    <3>3. About[c].history[i].content \in Content
      BY <3>2 DEF Block
    <3> QED BY <3>1, <3>3 DEF Content
  <2>2. Tokens[t] \in Nat /\ MarkerTokens \in Nat /\ (t \in Compressible => MarkerTokens <= Tokens[t])
    BY <2>1, PrefixFreezeAssumption DEF Predictable
  <2>3. a[i] = IF i \in Plan(ClientBody(c, n, f)) /\ t \in Compressible THEN "marker" ELSE "raw"
    BY DEF Forwarded
  <2>4. b[i] = IF i \in Plan(ClientBody(c, m, g)) /\ t \in Compressible THEN "marker" ELSE "raw"
    BY <2>1 DEF Forwarded
  <2>5. i \in Plan(ClientBody(c, m, g)) => i \in Plan(ClientBody(c, n, f))
    BY <1>1, PlanShrinks
  <2>6. /\ Weight(c, a, Tokens, i) = IF a[i] = "marker" THEN MarkerTokens ELSE Tokens[t]
        /\ Weight(c, b, Tokens, i) = IF b[i] = "marker" THEN MarkerTokens ELSE Tokens[t]
    BY DEF Weight
  <2> QED BY <2>2, <2>3, <2>4, <2>5, <2>6
<1>7. ASSUME NEW i \in 1..Len(x) PROVE x[i] <= y[i]
  <2>1. CASE i <= Extra(c)
    BY <1>3, <1>4, <1>5, <2>1, PrefixFreezeAssumption
  <2>2. CASE i > Extra(c)
    <3>1. PICK j \in 1..n : i = Extra(c) + j
      <4>0. n \in Nat
        BY <1>1
      <4>1. i \in Int /\ i <= n + Extra(c) /\ n \in Nat
        BY <1>3, <4>0
      <4> PICK z \in Nat : z = Extra(c)
        BY <1>5
      <4>2. i > z /\ i <= n + z
        BY <2>2, <4>1
      <4>3. i - z \in 1..n /\ i = z + (i - z)
        BY <4>1, <4>2
      <4> QED BY <4>3
    <3>2. j \in 1..m
      BY <1>1
    <3> QED BY <1>3, <1>4, <1>6, <3>1, <3>2
  <2> QED BY <1>5, <2>1, <2>2
<1>8. SumOfFirst(x, Len(x)) <= SumOfFirst(y, Len(y))
  <2>1. Len(x) \in Nat /\ Len(x) <= Len(y) /\ Len(x) \in 0..Len(x) /\ Len(x) \in 0..Len(y)
        /\ Len(y) \in Len(x)..Len(y) /\ Len(y) \in 0..Len(y)
    BY <1>1, <1>3, <1>4, <1>5
  <2>2. SumOfFirst(x, Len(x)) <= SumOfFirst(y, Len(x))
    <3> PICK k \in Nat : k = Len(x)
      BY <2>1
    <3>1. k <= Len(x) /\ k <= Len(y) /\ \A i \in 1..k : x[i] <= y[i]
      BY <1>7, <2>1
    <3>2. \A j \in 0..k : SumOfFirst(x, j) <= SumOfFirst(y, j)
      BY <3>1, SumsCompare
    <3> QED BY <3>2
  <2>3. SumOfFirst(y, Len(x)) <= SumOfFirst(y, Len(y))
    BY <2>1, SumGrows
  <2>4. SumOfFirst(x, Len(x)) \in Nat /\ SumOfFirst(y, Len(x)) \in Nat /\ SumOfFirst(y, Len(y)) \in Nat
    BY <2>1, SumIsNat
  <2> QED BY <2>2, <2>3, <2>4
<1>9. /\ SumOfFirst(x, Len(x)) \in Nat
      /\ Grant(c, a) = IF SumOfFirst(x, Len(x)) < MinCachedTokens THEN 0
                       ELSE n + Extra(c) + ReplyCovered(c)
  BY <1>1, <1>2, <1>3, GrantIs
<1>10. /\ SumOfFirst(y, Len(y)) \in Nat
       /\ Grant(c, b) = IF SumOfFirst(y, Len(y)) < MinCachedTokens THEN 0
                        ELSE m + Extra(c) + ReplyCovered(c)
  BY <1>1, <1>2, <1>4, GrantIs
<1>11. MinCachedTokens \in Nat
  BY PrefixFreezeAssumption
<1> QED BY <1>1, <1>5, <1>8, <1>9, <1>10, <1>11

-----------------------------------------------------------------------------
(* What the actions do to the requests sent.                               *)
LEMMA SendAppends ==
  ASSUME FloorInv, NEW c \in Conv, NEW n \in About[c].lengths, Send(c, n)
  PROVE  \E r \in SentRequest :
           /\ r.len = n /\ r.floor = FrozenCount(Swept[SessionKey(c)])
           /\ r.body = Forwarded(c, n, r.floor) /\ r.status = "open"
           /\ sent' = [sent EXCEPT ![c] = Append(sent[c], r)]
<1> DEFINE s == SessionKey(c)
           floor == FrozenCount(Swept[s])
           request == [len |-> n, floor |-> floor, body |-> Forwarded(c, n, floor),
                       status |-> "open", confirmed |-> 0]
<1>1. floor \in Nat
  <2>1. s \in Key
    BY DEF Key
  <2> QED BY <2>1, SweptType, FrozenCountType
<1>2. request \in SentRequest
  BY <1>1, ForwardedType DEF SentRequest
<1>3. sent' = [sent EXCEPT ![c] = Append(sent[c], request)]
  BY DEF Send
<1>4. /\ request.len = n /\ request.floor = floor
      /\ request.body = Forwarded(c, n, request.floor) /\ request.status = "open"
  BY <1>1
<1> QED BY <1>2, <1>3, <1>4, Zenon

LEMMA AnswerRecords ==
  ASSUME FloorInv, NEW c \in Conv, NEW k \in Open(c),
         NoUsage(c, k) \/ \E u \in Answers(c, sent[c][k].body) : Answer(c, k, u),
         FloorInv'
  PROVE  \E r \in SentRequest :
           /\ r.len = sent[c][k].len /\ r.floor = sent[c][k].floor
           /\ r.body = sent[c][k].body /\ r.status # "open"
           /\ sent' = [sent EXCEPT ![c] = [sent[c] EXCEPT ![k] = r]]
<1>2. sent \in [Conv -> Seq(SentRequest)] /\ sent' \in [Conv -> Seq(SentRequest)]
  BY DEF FloorInv, TypeOK, SentRequest
<1>1. k \in DOMAIN sent[c] /\ sent[c] \in Seq(SentRequest) /\ sent[c][k] \in SentRequest
  BY <1>2 DEF Open
<1>3. CASE NoUsage(c, k)
  <2> PICK r : r = [sent[c][k] EXCEPT !.status = "failed"]
    OBVIOUS
  <2>1. r \in SentRequest
    BY <1>1 DEF SentRequest
  <2>2. /\ r.len = sent[c][k].len /\ r.floor = sent[c][k].floor
        /\ r.body = sent[c][k].body /\ r.status # "open"
    BY <1>1 DEF SentRequest
  <2>3. sent' = [sent EXCEPT ![c] = [sent[c] EXCEPT ![k] = r]]
    BY <1>1, <1>2, <1>3 DEF NoUsage
  <2> QED BY <2>1, <2>2, <2>3
<1>4. ASSUME NEW u \in Answers(c, sent[c][k].body), Answer(c, k, u)
      PROVE  \E r \in SentRequest :
               /\ r.len = sent[c][k].len /\ r.floor = sent[c][k].floor
               /\ r.body = sent[c][k].body /\ r.status # "open"
               /\ sent' = [sent EXCEPT ![c] = [sent[c] EXCEPT ![k] = r]]
  <2> PICK x : sent' = [sent EXCEPT ![c][k].status = "answered", ![c][k].confirmed = x]
    BY <1>4 DEF Answer
  <2> PICK r : r = [sent[c][k] EXCEPT !.status = "answered", !.confirmed = x]
    OBVIOUS
  <2>1. sent' = [sent EXCEPT ![c] = [sent[c] EXCEPT ![k] = r]]
    BY <1>1, <1>2
  <2>2. r \in SentRequest
    <3>1. sent'[c][k] = r /\ k \in DOMAIN sent'[c]
      BY <1>1, <1>2, <2>1
    <3> QED BY <1>2, <3>1
  <2>3. /\ r.len = sent[c][k].len /\ r.floor = sent[c][k].floor
        /\ r.body = sent[c][k].body /\ r.status # "open"
    BY <1>1 DEF SentRequest
  <2> QED BY <2>1, <2>2, <2>3
<1> QED BY <1>3, <1>4

LEMMA InitHistory == Init => History
<1> SUFFICES ASSUME Init PROVE History
  OBVIOUS
<1>1. FloorInv
  BY InitFloor
<1> QED BY <1>1 DEF History, Init, Tells

LEMMA NextHistory == History /\ [Next]_vars => History'
<1> SUFFICES ASSUME History, [Next]_vars PROVE History'
  OBVIOUS
<1>1. FloorInv /\ FloorInv'
  BY NextFloor DEF History
<1>2. sent \in [Conv -> Seq(SentRequest)]
  BY <1>1 DEF FloorInv, TypeOK, SentRequest
<1>3. SUFFICES \A d \in Conv : Tells(d, sent'[d])
  BY <1>1 DEF History
<1>4. \A d \in Conv : Tells(d, sent[d])
  BY DEF History
<1>5. ASSUME NEW c \in Conv, NEW n \in About[c].lengths, Send(c, n)
      PROVE  \A d \in Conv : Tells(d, sent'[d])
  <2>1. PICK r \in SentRequest :
           /\ r.len = n /\ r.body = Forwarded(c, n, r.floor)
           /\ sent' = [sent EXCEPT ![c] = Append(sent[c], r)]
    BY <1>1, <1>5, SendAppends
  <2>2. \A k \in DOMAIN sent[c] : sent[c][k].len <= n
    BY <1>5 DEF Send
  <2>3. Tells(c, Append(sent[c], r))
    BY <2>1, <2>2, Continued
  <2> QED BY <1>2, <1>4, <2>1, <2>3
<1>6. ASSUME NEW c \in Conv, NEW k \in Open(c),
             NoUsage(c, k) \/ \E u \in Answers(c, sent[c][k].body) : Answer(c, k, u)
      PROVE  \A d \in Conv : Tells(d, sent'[d])
  <2>1. PICK r \in SentRequest :
           /\ r.len = sent[c][k].len /\ r.floor = sent[c][k].floor /\ r.body = sent[c][k].body
           /\ sent' = [sent EXCEPT ![c] = [sent[c] EXCEPT ![k] = r]]
    BY <1>1, <1>6, AnswerRecords
  <2>2. k \in DOMAIN sent[c]
    BY DEF Open
  <2>3. Tells(c, [sent[c] EXCEPT ![k] = r])
    BY <2>1, <2>2, Recorded
  <2> QED BY <1>2, <1>4, <2>1, <2>3
<1>7. CASE Restart
  BY <1>7 DEF Restart, Tells
<1>8. CASE sent' = sent
  BY <1>4, <1>8
<1> QED BY <1>5, <1>6, <1>7, <1>8 DEF Next, Tick, vars

-----------------------------------------------------------------------------
(* The freeze reaches no further than the requests answered so far and     *)
(* their replies.                                                          *)
LEMMA FloorReach ==
  ASSUME History, NEW c \in Conv, OwnSession(c), sent[c] # << >>
  PROVE  LET floor == FrozenCount(Swept[SessionKey(c)]) IN
         /\ floor \in Nat
         /\ floor > 0 => floor <= Latest(c).len + Replies(c) + Extra(c)
<1> DEFINE s == SessionKey(c)
<1>1. FloorInv /\ s \in Key
  BY DEF History, Key
<1>2. PICK e \in Entry \cup {NoEntry} : e = Swept[s] /\ Earned(s, e, sent)
  BY <1>1, SweptType
<1>3. FrozenCount(e) \in Nat
  BY FrozenCountType
<1>4. ASSUME FrozenCount(e) > 0
      PROVE  FrozenCount(e) <= Latest(c).len + Replies(c) + Extra(c)
  <2>0. PICK d \in Conv : \E k \in DOMAIN sent[d] :
          SessionKey(d) = s /\ e.count \in 1..Len(Estimates(d, sent[d][k].body))
    BY <1>2, <1>4 DEF Earned
  <2>1. PICK k \in DOMAIN sent[d] :
          SessionKey(d) = s /\ e.count \in 1..Len(Estimates(d, sent[d][k].body))
    BY <2>0
  <2>2. d = c
    BY <2>1 DEF OwnSession
  <2> PICK body : body = sent[c][k].body
    OBVIOUS
  <2>3. sent[c] \in Seq(SentRequest) /\ k \in DOMAIN sent[c]
    BY <1>1, <2>1, <2>2 DEF FloorInv, TypeOK, SentRequest
  <2>4. /\ sent[c][k].len \in About[c].lengths
        /\ body = Forwarded(c, sent[c][k].len, sent[c][k].floor)
        /\ sent[c][k].len <= Latest(c).len
    BY <2>3 DEF History, Tells, Latest
  <2>5. /\ body \in Seq(Form) /\ Len(body) = sent[c][k].len
        /\ Len(body) <= Len(About[c].history) /\ Len(body) \in Nat
    <3>1. sent[c][k].len \in Nat /\ DOMAIN body = 1..sent[c][k].len
      BY <2>4, ForwardedType DEF Forwarded
    <3> QED BY <2>4, <3>1, ForwardedType
  <2>6. Latest(c).len \in Nat
    <3>1. Len(sent[c]) \in DOMAIN sent[c]
      BY <2>3
    <3>2. Latest(c) \in SentRequest
      BY <2>3, <3>1 DEF Latest
    <3> QED BY <3>2 DEF SentRequest
  <2> PICK w \in Seq(Nat) : w = Weights(c, body, Estimate)
    BY <2>5, WeightsType, PrefixFreezeAssumption
  <2>7. Len(w) = Len(body) + Extra(c) /\ Extra(c) \in {0, 1}
    BY <2>5, WeightsAt, PrefixFreezeAssumption DEF Extra
  <2>8. Len(Estimates(c, body)) = Len(w) + Replies(c)
    <3>1. Estimates(c, body) = IF About[c].shape = "messages" THEN Append(w, ReplyEstimate) ELSE w
      BY DEF Estimates
    <3>2. Len(Append(w, ReplyEstimate)) = Len(w) + 1
      OBVIOUS
    <3> QED BY <2>7, <3>1, <3>2 DEF Replies
  <2>9. FrozenCount(e) = e.count
    BY <1>4 DEF FrozenCount
  <2>10. e.count <= Len(body) + Extra(c) + Replies(c) /\ e.count \in Nat
    BY <2>1, <2>2, <2>7, <2>8
  <2>11. Len(body) <= Latest(c).len
    BY <2>4, <2>5, Zenon
  <2>12. Replies(c) \in {0, 1}
    BY DEF Replies
  <2>13. PICK l \in Nat, most \in Nat, x \in Nat, y \in Nat, floor \in Nat :
           /\ l = Len(body) /\ most = Latest(c).len
           /\ x = Extra(c) /\ y = Replies(c) /\ floor = e.count
    BY <2>5, <2>6, <2>7, <2>10, <2>12
  <2>14. floor <= l + x + y /\ l <= most
    BY <2>10, <2>11, <2>13
  <2>15. floor <= most + y + x
    BY <2>14
  <2> QED BY <2>9, <2>13, <2>15
<1> QED BY <1>2, <1>3, <1>4

(* Nothing but a request of the conversation adds one to its history.      *)
LEMMA OnlySendSends ==
  ASSUME FloorInv, [Next]_vars, NEW c \in Conv, Sends(c)
  PROVE  \E n \in About[c].lengths : Send(c, n)
<1>1. FloorInv'
  BY NextFloor
<1>2. sent \in [Conv -> Seq(SentRequest)] /\ Len(sent[c]) \in Nat
  <2>1. sent \in [Conv -> Seq(SentRequest)]
    BY DEF FloorInv, TypeOK, SentRequest
  <2> QED BY <2>1
<1>3. Len(sent'[c]) # Len(sent[c]) /\ sent' # sent
  BY <1>2 DEF Sends
<1>4. ASSUME NEW d \in Conv, NEW k \in Open(d),
             NoUsage(d, k) \/ \E u \in Answers(d, sent[d][k].body) : Answer(d, k, u)
      PROVE  FALSE
  <2>1. PICK r : sent' = [sent EXCEPT ![d] = [sent[d] EXCEPT ![k] = r]]
    BY <1>1, <1>4, AnswerRecords
  <2>2. Len([sent[d] EXCEPT ![k] = r]) = Len(sent[d])
    BY <1>2
  <2>3. Len(sent'[c]) = Len(sent[c])
    BY <1>2, <2>1, <2>2
  <2> QED BY <1>3, <2>3
<1>5. ASSUME NEW d \in Conv, NEW n \in About[d].lengths, Send(d, n)
      PROVE  d = c
  <2>1. PICK r : sent' = [sent EXCEPT ![d] = Append(sent[d], r)]
    BY <1>5, SendAppends
  <2> QED BY <1>2, <1>3, <2>1
<1>6. CASE Restart
  <2>1. sent'[c] = << >>
    BY <1>6 DEF Restart
  <2> QED BY <1>2, <2>1 DEF Sends
<1> QED BY <1>3, <1>4, <1>5, <1>6 DEF Next, Tick, vars

(* The newest request of a Send: what the floor allowed, no shorter than   *)
(* the one before.                                                         *)
LEMMA NewestIs ==
  ASSUME History, NEW c \in Conv, NEW n \in About[c].lengths, Send(c, n)
  PROVE  /\ Newest(c).len = n
         /\ Newest(c).body = Forwarded(c, n, FrozenCount(Swept[SessionKey(c)]))
         /\ sent[c] # << >> => /\ Latest(c).len \in About[c].lengths /\ Latest(c).len <= n
                               /\ Latest(c).floor \in Nat
                               /\ Latest(c).body = Forwarded(c, Latest(c).len, Latest(c).floor)
<1>1. FloorInv
  BY DEF History
<1>2. PICK r \in SentRequest :
        /\ r.len = n /\ r.floor = FrozenCount(Swept[SessionKey(c)])
        /\ r.body = Forwarded(c, n, r.floor)
        /\ sent' = [sent EXCEPT ![c] = Append(sent[c], r)]
  BY <1>1, SendAppends
<1> PICK q \in Seq(SentRequest) : q = sent[c]
  BY <1>1 DEF FloorInv, TypeOK, SentRequest
<1>3. Newest(c) = r
  <2>1. sent'[c] = Append(q, r)
    BY <1>1, <1>2 DEF FloorInv, TypeOK
  <2>2. Append(q, r)[Len(Append(q, r))] = r
    OBVIOUS
  <2> QED BY <2>1, <2>2 DEF Newest
<1>4. ASSUME q # << >>
      PROVE  /\ Latest(c).len \in About[c].lengths /\ Latest(c).len <= n
             /\ Latest(c).floor \in Nat
             /\ Latest(c).body = Forwarded(c, Latest(c).len, Latest(c).floor)
  <2>1. Len(q) \in DOMAIN q /\ Latest(c) = q[Len(q)]
    BY <1>4 DEF Latest
  <2>2. \A k \in DOMAIN q : q[k].len <= n
    BY DEF Send
  <2>3. Latest(c).floor \in Nat
    <3>1. Latest(c) \in SentRequest
      BY <2>1
    <3> QED BY <3>1 DEF SentRequest
  <2> QED BY <2>1, <2>2, <2>3 DEF History, Tells
<1> QED BY <1>2, <1>3, <1>4

LEMMA HistorySpec == Spec => []History
BY InitHistory, NextHistory, PTL DEF Spec

(* A conversation that has its session to itself is compressed as if there *)
(* were no floor, beyond the messages (and the reply) that were sent       *)
(* before: the freeze cannot run ahead, whatever usage the provider        *)
(* reports (update_from_response, plan_live_zone).                         *)
THEOREM SpecNewOutputCompressed == Spec => NewOutputCompressed
<1>1. History /\ [Next]_vars =>
        [\A c \in Conv :
           Sends(c) /\ sent[c] # << >> /\ OwnSession(c) =>
             \A i \in Plan(ClientBody(c, Newest(c).len, 0)) :
               /\ i > Latest(c).len + Replies(c)
               /\ About[c].history[i].content.text \in Compressible
               => Newest(c).body[i] = "marker"]_vars
  <2> SUFFICES ASSUME History, [Next]_vars, NEW c \in Conv,
                      Sends(c), sent[c] # << >>, OwnSession(c),
                      NEW i \in Plan(ClientBody(c, Newest(c).len, 0)),
                      i > Latest(c).len + Replies(c),
                      About[c].history[i].content.text \in Compressible
               PROVE  Newest(c).body[i] = "marker"
    BY Zenon
  <2>1. PICK n \in About[c].lengths : Send(c, n)
    BY OnlySendSends DEF History
  <2> PICK f : f = FrozenCount(Swept[SessionKey(c)])
    OBVIOUS
  <2>2. Newest(c).len = n /\ Newest(c).body = Forwarded(c, n, f)
    BY <2>1, NewestIs
  <2>3. Latest(c).len \in Nat /\ n \in 1..Len(About[c].history)
    <3>1. Latest(c).len \in About[c].lengths
      BY <2>1, NewestIs
    <3> QED BY <3>1, ForwardedType, PrefixFreezeAssumption DEF Conversation
  <2>4. f \in Nat /\ (f > 0 => f <= Latest(c).len + Replies(c) + Extra(c))
    BY FloorReach
  <2>5. i \in Plan(ClientBody(c, n, 0))
    BY <2>2
  <2>6. i \in 1..n
    <3>1. 0 \in Nat
      OBVIOUS
    <3> QED BY <2>3, <2>5, PlanFits
  <2>7. i - 1 >= ItemFloor(ClientBody(c, n, f))
    <3>1. ItemFloor(ClientBody(c, n, f)) = IF About[c].instructions /\ f > 0 THEN f - 1 ELSE f
      BY DEF ItemFloor, ClientBody
    <3>2. Replies(c) \in {0, 1} /\ Extra(c) = IF About[c].instructions THEN 1 ELSE 0
      BY DEF Replies, Extra
    <3>3. n \in Nat /\ i \in Nat
      BY <2>3, <2>6
    <3> QED BY <2>3, <2>4, <3>1, <3>2, <3>3
  <2>8. i \in Plan(ClientBody(c, n, f))
    BY <2>3, <2>4, <2>5, <2>7, PlanAboveFloor
  <2> QED BY <2>2, <2>6, <2>8 DEF Forwarded
<1> QED BY <1>1, HistorySpec, PTL DEF Spec, NewOutputCompressed

-----------------------------------------------------------------------------
(* A session whose provider behaves as the proxy reckons.  Every answer    *)
(* would grant at least the floor its request had, only the last request   *)
(* may still be answered, and the tracker grants at least the floor of the *)
(* last request: what some answer has granted.                             *)
Frozen(c, q, e) ==
  /\ \A k \in DOMAIN q : q[k].floor <= Grant(c, q[k].body)
  /\ \A k \in DOMAIN q : q[k].status = "open" => k = Len(q)
  /\ e # NoEntry => q # << >> /\ q[Len(q)].floor <= FrozenCount(e)
  /\ FrozenCount(e) > 0 => \E k \in DOMAIN q : FrozenCount(e) = Grant(c, q[k].body)

FreezeInv ==
  /\ History
  /\ \A c \in Conv : OwnSession(c) /\ Predictable(c) =>
       Frozen(c, sent[c], tracker[SessionKey(c)])

(* A sweep forgets a tracker or leaves it.                                 *)
LEMMA FrozenSwept ==
  ASSUME FreezeInv, NEW c \in Conv, OwnSession(c), Predictable(c)
  PROVE  /\ Frozen(c, sent[c], Swept[SessionKey(c)])
         /\ Swept[SessionKey(c)] \in Entry \cup {NoEntry}
<1> PICK s \in Key : s = SessionKey(c)
  BY DEF Key
<1>1. Frozen(c, sent[c], tracker[s])
  BY DEF FreezeInv
<1>2. Swept[s] = tracker[s] \/ Swept[s] = NoEntry
  BY DEF Swept
<1>3. FrozenCount(NoEntry) = 0
  BY DEF FrozenCount
<1>4. Frozen(c, sent[c], NoEntry)
  BY <1>1, <1>3 DEF Frozen
<1>5. FloorInv
  BY DEF FreezeInv, History
<1> QED BY <1>1, <1>2, <1>4, <1>5, SweptType

LEMMA FrozenSend ==
  ASSUME FreezeInv, NEW c \in Conv, OwnSession(c), Predictable(c),
         NEW n \in About[c].lengths, NEW r \in SentRequest,
         NEW e \in Entry \cup {NoEntry}, Frozen(c, sent[c], e),
         r.len = n, r.floor = FrozenCount(e), r.body = Forwarded(c, n, r.floor),
         Open(c) = {}, \A k \in DOMAIN sent[c] : sent[c][k].len <= n,
         NEW next, next = NoEntry \/ (e # NoEntry /\ FrozenCount(next) = FrozenCount(e))
  PROVE  Frozen(c, Append(sent[c], r), next)
<1> PICK q \in Seq(SentRequest) : q = sent[c]
  BY DEF FreezeInv, History, FloorInv, TypeOK, SentRequest
<1> PICK p : p = Append(q, r)
  OBVIOUS
<1>1. /\ Len(p) = Len(q) + 1 /\ p # << >> /\ p[Len(p)] = r
      /\ \A k \in DOMAIN p : k = Len(p) \/ k \in DOMAIN q
      /\ \A k \in DOMAIN q : p[k] = q[k] /\ k \in DOMAIN p
  OBVIOUS
<1>2. FrozenCount(e) \in Nat
  BY FrozenCountType
<1>3. FrozenCount(e) <= Grant(c, r.body)
  <2>1. CASE FrozenCount(e) = 0
    <3>1. r.body \in Seq(Form) /\ Len(r.body) <= Len(About[c].history)
      BY ForwardedType
    <3>2. Grant(c, r.body) >= 0
      <4> PICK all : all = SumOfFirst(Weights(c, r.body, Tokens), Len(r.body) + Extra(c))
        OBVIOUS
      <4>1. Grant(c, r.body) = IF all < MinCachedTokens THEN 0
                               ELSE Len(r.body) + Extra(c) + ReplyCovered(c)
        BY <3>1, GrantIs
      <4>2. Len(r.body) \in Nat /\ Extra(c) \in {0, 1} /\ ReplyCovered(c) \in {0, 1}
        BY <3>1 DEF Extra, ReplyCovered
      <4> QED BY <4>1, <4>2
    <3> QED BY <2>1, <3>2
  <2>2. CASE FrozenCount(e) > 0
    <3>1. PICK k \in DOMAIN q : FrozenCount(e) = Grant(c, q[k].body)
      BY <2>2 DEF Frozen
    <3>2. /\ q[k].len \in About[c].lengths /\ q[k].len <= n
          /\ q[k].body = Forwarded(c, q[k].len, q[k].floor)
      BY DEF FreezeInv, History, Tells
    <3>3. q[k].floor \in Nat /\ q[k].floor <= FrozenCount(e)
      <4>1. q[k] \in SentRequest
        OBVIOUS
      <4> QED BY <3>1, <4>1 DEF Frozen, SentRequest
    <3>4. Grant(c, Forwarded(c, q[k].len, q[k].floor)) <= Grant(c, Forwarded(c, n, FrozenCount(e)))
      BY <1>2, <3>2, <3>3, GrantGrows
    <3> QED BY <3>1, <3>2, <3>4
  <2> QED BY <1>2, <2>1, <2>2
<1>4. \A k \in DOMAIN p : p[k].floor <= Grant(c, p[k].body)
  BY <1>1, <1>3 DEF Frozen
<1>5. \A k \in DOMAIN p : p[k].status = "open" => k = Len(p)
  <2>1. \A k \in DOMAIN q : q[k].status # "open"
    BY DEF Open
  <2> QED BY <1>1, <2>1
<1>6. next # NoEntry => p[Len(p)].floor <= FrozenCount(next)
  BY <1>1, <1>2
<1>7. FrozenCount(next) > 0 => \E k \in DOMAIN p : FrozenCount(next) = Grant(c, p[k].body)
  <2>1. SUFFICES ASSUME FrozenCount(next) > 0
                 PROVE  \E k \in DOMAIN p : FrozenCount(next) = Grant(c, p[k].body)
    OBVIOUS
  <2>2. FrozenCount(next) = FrozenCount(e)
    <3>1. next # NoEntry
      BY <2>1 DEF FrozenCount
    <3> QED BY <3>1
  <2>3. PICK k \in DOMAIN q : FrozenCount(e) = Grant(c, q[k].body)
    BY <2>1, <2>2 DEF Frozen
  <2> QED BY <1>1, <2>2, <2>3
<1> QED BY <1>1, <1>4, <1>5, <1>6, <1>7 DEF Frozen

(* An answer closes the last request, whatever the tracker hears of it.    *)
LEMMA FrozenAnswer ==
  ASSUME FreezeInv, NEW c \in Conv, NEW k \in Open(c), NEW r \in SentRequest,
         r.floor = sent[c][k].floor, r.body = sent[c][k].body, r.status # "open",
         NEW e, Frozen(c, sent[c], e), NEW next,
         \/ next = e
         \/ next = NoEntry
         \/ FrozenCount(next) = Grant(c, sent[c][k].body)
  PROVE  Frozen(c, [sent[c] EXCEPT ![k] = r], next)
<1> PICK q \in Seq(SentRequest) : q = sent[c]
  BY DEF FreezeInv, History, FloorInv, TypeOK, SentRequest
<1> PICK p : p = [q EXCEPT ![k] = r]
  OBVIOUS
<1>1. k \in DOMAIN q /\ q[k].status = "open" /\ k = Len(q)
  BY DEF Open, Frozen
<1>2. /\ Len(p) = Len(q) /\ DOMAIN p = DOMAIN q /\ p # << >> /\ p[k] = r
      /\ \A j \in DOMAIN q : p[j] = IF j = k THEN r ELSE q[j]
  BY <1>1
<1>3. \A j \in DOMAIN p : p[j].floor = q[j].floor /\ p[j].body = q[j].body
  BY <1>1, <1>2
<1>4. q[k].floor <= Grant(c, q[k].body)
  BY <1>1 DEF Frozen
<1>5. /\ \A j \in DOMAIN p : p[j].floor <= Grant(c, p[j].body)
      /\ \A j \in DOMAIN p : p[j].status = "open" => j = Len(p)
  BY <1>1, <1>2, <1>3 DEF Frozen
<1>6. next # NoEntry => p[Len(p)].floor <= FrozenCount(next)
  BY <1>1, <1>2, <1>3, <1>4 DEF Frozen
<1>7. FrozenCount(next) > 0 => \E j \in DOMAIN p : FrozenCount(next) = Grant(c, p[j].body)
  <2>1. FrozenCount(NoEntry) = 0
    BY DEF FrozenCount
  <2>2. CASE next = e
    BY <1>2, <1>3, <2>2 DEF Frozen
  <2>3. CASE next = NoEntry
    BY <2>1, <2>3
  <2>4. CASE FrozenCount(next) = Grant(c, sent[c][k].body)
    BY <1>1, <1>2, <1>3, <2>4
  <2> QED BY <2>2, <2>3, <2>4
<1> QED BY <1>2, <1>5, <1>6, <1>7 DEF Frozen

LEMMA AnswerGrants ==
  ASSUME NEW c \in Conv, Predictable(c), NEW body, NEW u \in Answers(c, body), NEW e0,
         NEW e, e = NextEntry(e0, Estimates(c, body), CachedTotal(c, u)),
         NEW all \in Nat, all = SumOfFirst(Weights(c, body, Tokens), Len(Weights(c, body, Tokens)))
  PROVE  e = NoEntry \/ FrozenCount(e) = Grant(c, body)
<1>1. CachedTotal(c, u) = all
  BY DEF Answers, Predictable
<1>2. e.tokens = all /\ e.count = IF all = 0 THEN 0 ELSE Covered(Estimates(c, body), all)
  BY <1>1 DEF NextEntry
<1>3. MinCachedTokens \in Nat \ {0}
  BY PrefixFreezeAssumption
<1>4. Grant(c, body) = IF all < MinCachedTokens THEN 0 ELSE Covered(Estimates(c, body), all)
  BY DEF Grant
<1>5. e # NoEntry => FrozenCount(e) = IF all < MinCachedTokens THEN 0 ELSE e.count
  BY <1>2 DEF FrozenCount
<1> QED BY <1>2, <1>3, <1>4, <1>5

LEMMA InitFreeze == Init => FreezeInv
<1> SUFFICES ASSUME Init PROVE FreezeInv
  OBVIOUS
<1>1. ASSUME NEW c \in Conv PROVE Frozen(c, sent[c], tracker[SessionKey(c)])
  <2>1. SessionKey(c) \in Key
    BY DEF Key
  <2>2. sent[c] = << >> /\ tracker[SessionKey(c)] = NoEntry
    BY <2>1 DEF Init
  <2> QED BY <2>2 DEF Frozen, FrozenCount
<1> QED BY <1>1, InitHistory DEF FreezeInv

LEMMA NoneOpen ==
  ASSUME FloorInv, NEW c \in Conv, MaxOpen = 1, Cardinality(Open(c)) < MaxOpen
  PROVE  Open(c) = {}
<1> PICK q \in Seq(SentRequest) : q = sent[c]
  BY DEF FloorInv, TypeOK, SentRequest
<1>1. Open(c) \subseteq 1..Len(q) /\ Len(q) \in Nat
  BY DEF Open
<1>2. IsFiniteSet(Open(c)) /\ Cardinality(Open(c)) \in Nat
  BY <1>1, UpToFinite, FS_Subset, FS_CardinalityType
<1>3. Cardinality(Open(c)) = 0
  BY <1>2
<1> QED BY <1>2, <1>3, FS_EmptySet

(* One conversation's part of the invariant, step by step.                 *)
LEMMA NextFrozen ==
  ASSUME FreezeInv, [Next]_vars, NEW c \in Conv, OwnSession(c), Predictable(c)
  PROVE  Frozen(c, sent'[c], tracker'[SessionKey(c)])
<1> PICK s \in Key : s = SessionKey(c)
  BY DEF Key
<1>1. FloorInv /\ FloorInv'
  BY NextFloor DEF FreezeInv, History
<1>2. /\ sent \in [Conv -> Seq(SentRequest)] /\ tracker \in [Key -> Entry \cup {NoEntry}]
      /\ Swept \in [Key -> Entry \cup {NoEntry}]
  BY <1>1, SweptType DEF FloorInv, TypeOK, SentRequest
<1>3. /\ Frozen(c, sent[c], tracker[s]) /\ Frozen(c, sent[c], Swept[s])
      /\ Swept[s] \in Entry \cup {NoEntry}
  BY FrozenSwept DEF FreezeInv
<1>4. \A d \in Conv : d # c => SessionKey(d) # s
  BY DEF OwnSession
<1>5. ASSUME NEW d \in Conv, NEW n \in About[d].lengths, Send(d, n)
      PROVE  Frozen(c, sent'[c], tracker'[s])
  <2>1. PICK r \in SentRequest :
          /\ r.len = n /\ r.floor = FrozenCount(Swept[SessionKey(d)])
          /\ r.body = Forwarded(d, n, r.floor)
          /\ sent' = [sent EXCEPT ![d] = Append(sent[d], r)]
    BY <1>1, <1>5, SendAppends
  <2>2. tracker' = IF Swept[SessionKey(d)] = NoEntry THEN Swept
                   ELSE [Swept EXCEPT ![SessionKey(d)] = Touched(Swept[SessionKey(d)])]
    BY <1>5 DEF Send
  <2>3. CASE d # c
    <3>1. sent'[c] = sent[c] /\ tracker'[s] = Swept[s]
      BY <1>2, <1>4, <2>1, <2>2, <2>3
    <3> QED BY <1>3, <3>1
  <2>4. CASE d = c
    <3>1. sent'[c] = Append(sent[c], r)
      BY <1>2, <2>1, <2>4
    <3>2. /\ Cardinality(Open(c)) < MaxOpen
          /\ \A k \in DOMAIN sent[c] : sent[c][k].len <= n
      BY <1>5, <2>4 DEF Send
    <3>3. MaxOpen = 1
      BY DEF Predictable
    <3>4. Open(c) = {}
      BY <1>1, <3>2, <3>3, NoneOpen
    <3>5. tracker'[s] = NoEntry \/ (Swept[s] # NoEntry /\ tracker'[s] = Touched(Swept[s]))
      BY <1>2, <2>2, <2>4
    <3>6. \/ tracker'[s] = NoEntry
          \/ Swept[s] # NoEntry /\ FrozenCount(tracker'[s]) = FrozenCount(Swept[s])
      <4>1. ASSUME tracker'[s] # NoEntry
            PROVE  FrozenCount(tracker'[s]) = FrozenCount(Swept[s])
        <5>1. Swept[s] # NoEntry
              /\ tracker'[s].tokens = Swept[s].tokens /\ tracker'[s].count = Swept[s].count
          BY <3>5, <4>1 DEF Touched
        <5> QED BY <4>1, <5>1 DEF FrozenCount
      <4> QED BY <3>5, <4>1
    <3> PICK next : next = tracker'[s]
      OBVIOUS
    <3>7. r.floor = FrozenCount(Swept[s]) /\ r.body = Forwarded(c, n, r.floor)
      BY <2>1, <2>4
    <3>8. Frozen(c, Append(sent[c], r), next)
      <4>1. /\ n \in About[c].lengths /\ r.len = n
            /\ next = NoEntry \/ (Swept[s] # NoEntry /\ FrozenCount(next) = FrozenCount(Swept[s]))
        BY <2>1, <2>4, <3>6
      <4> QED BY <1>3, <3>2, <3>4, <3>7, <4>1, FrozenSend
    <3> QED BY <3>1, <3>8
  <2> QED BY <2>3, <2>4
<1>6. ASSUME NEW d \in Conv, NEW k \in Open(d),
             NoUsage(d, k) \/ \E u \in Answers(d, sent[d][k].body) : Answer(d, k, u)
      PROVE  Frozen(c, sent'[c], tracker'[s])
  <2>1. PICK r \in SentRequest :
          /\ r.floor = sent[d][k].floor /\ r.body = sent[d][k].body /\ r.status # "open"
          /\ sent' = [sent EXCEPT ![d] = [sent[d] EXCEPT ![k] = r]]
    BY <1>1, <1>6, AnswerRecords
  <2>2. CASE NoUsage(d, k)
    <3>1. tracker' = tracker
      BY <2>2 DEF NoUsage
    <3>2. CASE d # c
      BY <1>2, <1>3, <2>1, <3>1, <3>2
    <3>3. CASE d = c
      <4>1. sent'[c] = [sent[c] EXCEPT ![k] = r]
        BY <1>2, <2>1, <3>3
      <4>2. Frozen(c, [sent[c] EXCEPT ![k] = r], tracker[s])
        <5>1. /\ k \in Open(c) /\ r.floor = sent[c][k].floor /\ r.body = sent[c][k].body
              /\ r.status # "open"
          BY <2>1, <3>3
        <5> QED BY <1>3, <5>1, FrozenAnswer
      <4> QED BY <3>1, <4>1, <4>2
    <3> QED BY <3>2, <3>3
  <2>3. ASSUME NEW u \in Answers(d, sent[d][k].body), Answer(d, k, u)
        PROVE  Frozen(c, sent'[c], tracker'[s])
    <3> PICK body : body = sent[d][k].body
      OBVIOUS
    <3> PICK e : e = NextEntry(Swept[SessionKey(d)], Estimates(d, body), CachedTotal(d, u))
      OBVIOUS
    <3>1. tracker' = [Swept EXCEPT ![SessionKey(d)] = e]
      BY <2>3 DEF Answer
    <3>2. CASE d # c
      <4>1. sent'[c] = sent[c] /\ tracker'[s] = Swept[s]
        BY <1>2, <1>4, <2>1, <3>1, <3>2
      <4> QED BY <1>3, <4>1
    <3>3. CASE d = c
      <4>1. sent'[c] = [sent[c] EXCEPT ![k] = r] /\ tracker'[s] = e
        BY <1>2, <2>1, <3>1, <3>3
      <4>2. k \in DOMAIN sent[c] /\ body \in Seq(Form) /\ Len(body) <= Len(About[c].history)
        <5>1. k \in DOMAIN sent[c] /\ sent[c] \in Seq(SentRequest)
          BY <1>2, <3>3 DEF Open
        <5>2. sent[c][k] \in SentRequest
          BY <5>1
        <5>3. Len(sent[c][k].body) <= Len(About[c].history)
          BY <1>1, <5>1 DEF FloorInv, SentFits
        <5> QED BY <3>3, <5>1, <5>2, <5>3 DEF SentRequest
      <4> PICK all : all = SumOfFirst(Weights(c, body, Tokens), Len(Weights(c, body, Tokens)))
        OBVIOUS
      <4>3. all \in Nat
        <5>1. Weights(c, body, Tokens) \in Seq(Nat)
          BY <4>2, WeightsType, PrefixFreezeAssumption
        <5> PICK w \in Seq(Nat) : w = Weights(c, body, Tokens)
          BY <5>1
        <5>2. Len(w) \in 0..Len(w)
          OBVIOUS
        <5> QED BY <5>2, SumIsNat
      <4>4. e = NoEntry \/ FrozenCount(e) = Grant(c, body)
        <5>1. u \in Answers(c, body)
              /\ e = NextEntry(Swept[SessionKey(c)], Estimates(c, body), CachedTotal(c, u))
          BY <2>3, <3>3, Zenon
        <5> QED BY <4>3, <5>1, AnswerGrants
      <4>5. Frozen(c, [sent[c] EXCEPT ![k] = r], e)
        <5>1. /\ k \in Open(c) /\ r.floor = sent[c][k].floor /\ r.body = sent[c][k].body
              /\ r.status # "open" /\ body = sent[c][k].body
          BY <2>1, <3>3
        <5> QED BY <1>3, <4>4, <5>1, FrozenAnswer
      <4> QED BY <4>1, <4>5
    <3> QED BY <3>2, <3>3
  <2> QED BY <1>6, <2>2, <2>3
<1>7. CASE Restart
  <2>1. sent'[c] = << >> /\ tracker'[s] = NoEntry
    BY <1>7 DEF Restart
  <2> QED BY <2>1 DEF Frozen, FrozenCount
<1>8. CASE UNCHANGED <<tracker, sent>>
  BY <1>3, <1>8
<1> QED BY <1>5, <1>6, <1>7, <1>8 DEF Next, Tick, vars

LEMMA NextFreeze == FreezeInv /\ [Next]_vars => FreezeInv'
<1> SUFFICES ASSUME FreezeInv, [Next]_vars PROVE FreezeInv'
  OBVIOUS
<1>1. History'
  BY NextHistory DEF FreezeInv
<1>2. \A c \in Conv : OwnSession(c) /\ Predictable(c) =>
        Frozen(c, sent'[c], tracker'[SessionKey(c)])
  BY NextFrozen
<1> QED BY <1>1, <1>2 DEF FreezeInv

LEMMA FreezeSpec == Spec => []FreezeInv
BY InitFreeze, NextFreeze, PTL DEF Spec

(* For any conversation that has its session to itself and whose provider  *)
(* caches what the proxy reckons: while the tracker lives, a message that  *)
(* went out raw stays raw (the floor never falls, update_from_response).   *)
THEOREM SpecNeverRecompressed == Spec => NeverRecompressed
<1>1. FreezeInv /\ [Next]_vars =>
        [\A c \in Conv :
           /\ Sends(c) /\ sent[c] # << >>
           /\ OwnSession(c) /\ Predictable(c)
           /\ tracker[SessionKey(c)] # NoEntry
           /\ ~Expired(tracker[SessionKey(c)])
           => \A i \in 1..Latest(c).len :
                Latest(c).body[i] = "raw" => Newest(c).body[i] = "raw"]_vars
  <2> SUFFICES ASSUME FreezeInv, [Next]_vars, NEW c \in Conv,
                      Sends(c), sent[c] # << >>, OwnSession(c), Predictable(c),
                      tracker[SessionKey(c)] # NoEntry, ~Expired(tracker[SessionKey(c)]),
                      NEW i \in 1..Latest(c).len, Latest(c).body[i] = "raw"
               PROVE  Newest(c).body[i] = "raw"
    BY Zenon
  <2>1. History /\ FloorInv
    BY DEF FreezeInv, History
  <2>2. PICK n \in About[c].lengths : Send(c, n)
    BY <2>1, OnlySendSends
  <2> PICK m : m = Latest(c).len
    OBVIOUS
  <2> PICK g : g = Latest(c).floor
    OBVIOUS
  <2> PICK f : f = FrozenCount(Swept[SessionKey(c)])
    OBVIOUS
  <2>3. /\ m \in About[c].lengths /\ m <= n /\ g \in Nat
        /\ Newest(c).body = Forwarded(c, n, f) /\ Latest(c).body = Forwarded(c, m, g)
    BY <2>1, <2>2, NewestIs
  <2>4. m \in 1..Len(About[c].history) /\ n \in m..Len(About[c].history) /\ i \in 1..m /\ i \in 1..n
    BY <2>3, PrefixFreezeAssumption DEF Conversation
  <2>5. f \in Nat /\ g <= f
    <3>1. SessionKey(c) \in Key
      BY DEF Key
    <3>2. Swept[SessionKey(c)] = tracker[SessionKey(c)]
      BY <2>1, <3>1 DEF Swept, FloorInv, TypeOK
    <3>3. f \in Nat
      BY <2>1, <3>1, SweptType, FrozenCountType
    <3> QED BY <3>2, <3>3 DEF FreezeInv, Frozen, Latest
  <2>6. i \in Plan(ClientBody(c, n, f)) => i \in Plan(ClientBody(c, m, g))
    BY <2>3, <2>4, <2>5, PlanShrinks
  <2>7. /\ Newest(c).body[i] = IF /\ i \in Plan(ClientBody(c, n, f))
                                  /\ About[c].history[i].content.text \in Compressible
                               THEN "marker" ELSE "raw"
        /\ Latest(c).body[i] = IF /\ i \in Plan(ClientBody(c, m, g))
                                  /\ About[c].history[i].content.text \in Compressible
                               THEN "marker" ELSE "raw"
    BY <2>3, <2>4 DEF Forwarded
  <2> QED BY <2>6, <2>7
<1> QED BY <1>1, FreezeSpec, PTL DEF Spec, NeverRecompressed

=============================================================================
