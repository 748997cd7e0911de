------------------------- MODULE BatchResultsProofs -------------------------
(***************************************************************************)
(* Proofs about BatchContexts and BatchResults, for any batches, results,  *)
(* length of the queue and life of an entry: the queue keeps what it       *)
(* promises, and a walk over a results file loses nothing of it.           *)
(***************************************************************************)
EXTENDS BatchResults, FiniteSetTheorems, TLAPS

Made == [batch : Batch, contexts : SUBSET Custom, at : Nat, recorded : BOOLEAN]
Entries == [batch : Batch, contexts : SUBSET Custom, expires : Nat, turn : Nat]

ContextsType ==
  /\ now \in Nat /\ pushed \in Nat
  /\ made \in Seq(Made)
  /\ store \in SUBSET Entries /\ IsFiniteSet(store)
  /\ \A e \in store : e.turn <= pushed

(* k is the latest recorded create of b.                                   *)
LatestOf(b, k) ==
  /\ k \in RecordsOf(b)
  /\ \A j \in RecordsOf(b) : j <= k

EachHasLatest == \A b \in Batch : RecordsOf(b) # {} => \E k \in RecordsOf(b) : LatestOf(b, k)

(* The entries S hold what the latest create of their batch left, one each *)
(* and in the order of those creates.                                      *)
AreLatest(S) ==
  \A e \in S : \E k \in RecordsOf(e.batch) :
    /\ LatestOf(e.batch, k)
    /\ e.contexts = made[k].contexts
    /\ e.expires = made[k].at + Ttl
OneEach(S) == \A e, f \in S : e.batch = f.batch => e = f
Ordered(S) ==
  \A e, f \in S : \A k \in RecordsOf(e.batch), l \in RecordsOf(f.batch) :
    LatestOf(e.batch, k) /\ LatestOf(f.batch, l) => (e.turn <= f.turn <=> k <= l)

EntriesAreLatest == AreLatest(store) /\ OneEach(store) /\ Ordered(store)

(* A batch without an entry either ran out of time, or as many others were *)
(* recorded after it as the queue holds.                                   *)
MissedForAReason ==
  \A b \in Batch : \A k \in RecordsOf(b) :
    LatestOf(b, k) /\ now < made[k].at + Ttl =>
      \/ \E e \in store : e.batch = b
      \/ Cardinality(Since(b)) >= MaxBatchContexts

ContextsInv ==
  /\ ContextsType
  /\ EachHasLatest
  /\ EntriesAreLatest
  /\ MissedForAReason

LEMMA RecordType ==
  ASSUME ContextsType, NEW b, NEW k \in RecordsOf(b)
  PROVE  k \in DOMAIN made /\ k \in Nat /\ made[k] \in Made
BY DEF ContextsType, RecordsOf

(* The latest create is the one the properties speak of.                   *)
LEMMA LatestIsLatest ==
  ASSUME ContextsType, NEW b, NEW k, LatestOf(b, k)
  PROVE  Latest(b) = made[k]
<1>1. RecordsOf(b) \subseteq Nat
  BY DEF RecordsOf, ContextsType
<1>2. \A j \in RecordsOf(b) : (\A i \in RecordsOf(b) : i <= j) => j = k
  BY <1>1 DEF LatestOf
<1> QED BY <1>2 DEF LatestOf, Latest

(* The batches recorded in m after its latest record of b.                 *)
RecordsIn(m, b) == {k \in DOMAIN m : m[k].batch = b /\ m[k].recorded}
SinceIn(m, b) ==
  {m[j].batch : j \in {j \in DOMAIN m : m[j].recorded /\ \A k \in RecordsIn(m, b) : k < j}}

LEMMA SinceLatest ==
  ASSUME NEW m \in Seq(Made), NEW b, NEW k \in RecordsIn(m, b),
         \A i \in RecordsIn(m, b) : i <= k
  PROVE  /\ \A c : c \in SinceIn(m, b) <=>
                \E j \in DOMAIN m : m[j].recorded /\ k < j /\ c = m[j].batch
         /\ IsFiniteSet(SinceIn(m, b))
<1> DEFINE later == {j \in DOMAIN m : m[j].recorded /\ \A i \in RecordsIn(m, b) : i < j}
           name == [j \in later |-> m[j].batch]
<1>1. RecordsIn(m, b) \subseteq Nat /\ DOMAIN m = 1..Len(m) /\ Len(m) \in Nat
  BY DEF RecordsIn
<1>2. \A j \in DOMAIN m : (\A i \in RecordsIn(m, b) : i < j) <=> k < j
  BY <1>1
<1>3. SinceIn(m, b) = {m[j].batch : j \in later}
  BY DEF SinceIn
<1>4. IsFiniteSet(later)
  <2>1. later \subseteq 1..Len(m)
    BY <1>1
  <2>2. IsFiniteSet(1..Len(m))
    BY <1>1, FS_Interval
  <2> QED BY <2>1, <2>2, FS_Subset
<1>5. name \in Surjection(later, SinceIn(m, b))
  BY <1>3 DEF Surjection
<1>6. IsFiniteSet(SinceIn(m, b))
  BY <1>4, <1>5, FS_Surjection
<1>7. \A c : c \in SinceIn(m, b) <=>
         \E j \in DOMAIN m : m[j].recorded /\ k < j /\ c = m[j].batch
  BY <1>2, <1>3
<1> QED BY <1>6, <1>7

(* What one more create adds to the history.                               *)
LEMMA Noted ==
  ASSUME ContextsType,
         NEW b \in Batch, NEW contexts \in SUBSET Custom, NEW recorded \in BOOLEAN,
         made' = Append(made, [batch |-> b, contexts |-> contexts, at |-> now,
                               recorded |-> recorded])
  PROVE  /\ made' \in Seq(Made)
         /\ DOMAIN made' = 1..(Len(made) + 1) /\ DOMAIN made = 1..Len(made) /\ Len(made) \in Nat
         /\ \A k \in DOMAIN made : made'[k] = made[k]
         /\ made'[Len(made) + 1] = [batch |-> b, contexts |-> contexts, at |-> now,
                                    recorded |-> recorded]
         /\ \A c : RecordsOf(c)' = IF recorded /\ c = b THEN RecordsOf(c) \cup {Len(made) + 1}
                                                       ELSE RecordsOf(c)
<1> DEFINE r == [batch |-> b, contexts |-> contexts, at |-> now, recorded |-> recorded]
<1>1. r \in Made /\ made \in Seq(Made) /\ made' = Append(made, r)
  BY DEF Made, ContextsType
<1>2. /\ made' \in Seq(Made) /\ Len(made) \in Nat
      /\ DOMAIN made = 1..Len(made) /\ DOMAIN made' = 1..(Len(made) + 1)
      /\ \A k \in DOMAIN made : made'[k] = made[k]
      /\ made'[Len(made) + 1] = r
  BY <1>1
<1>3. \A c : \A k : k \in RecordsOf(c)' <=>
         k \in RecordsOf(c) \/ (k = Len(made) + 1 /\ recorded /\ c = b)
  BY <1>2 DEF RecordsOf
<1>4. \A c : RecordsOf(c)' = IF recorded /\ c = b THEN RecordsOf(c) \cup {Len(made) + 1}
                                                  ELSE RecordsOf(c)
  <2> TAKE c
  <2>1. CASE recorded /\ c = b
    BY <1>3, <2>1
  <2>2. CASE ~(recorded /\ c = b)
    <3>1. \A k : k \in RecordsOf(c)' <=> k \in RecordsOf(c)
      BY <1>3, <2>2
    <3>2. RecordsOf(c)' = RecordsOf(c)
      BY <3>1 DEF RecordsOf
    <3> QED BY <3>2, <2>2
  <2> QED BY <2>1, <2>2
<1> QED BY <1>2, <1>4

-----------------------------------------------------------------------------
(* The invariant survives a step that records nothing and drops only what  *)
(* expired.                                                                *)
LEMMA NothingRecorded ==
  ASSUME ContextsInv, ContextsType',
         now <= now',
         store' \subseteq store,
         \A e \in store : e.expires > now' => e \in store',
         \A c : RecordsOf(c)' = RecordsOf(c),
         \A k \in DOMAIN made : k \in DOMAIN made' /\ made'[k] = made[k],
         \A k \in DOMAIN made' : made'[k].recorded => k \in DOMAIN made
  PROVE  ContextsInv'
<1>1. \A c, k : LatestOf(c, k)' <=> LatestOf(c, k)
  BY DEF LatestOf
<1>2. \A c : \A k \in RecordsOf(c) : k \in DOMAIN made /\ made'[k] = made[k]
  BY DEF RecordsOf
<1>3. \A c, k : LatestOf(c, k) => Since(c)' = Since(c)
  <2> SUFFICES ASSUME NEW c, NEW k, LatestOf(c, k)
               PROVE  Since(c)' = Since(c)
    OBVIOUS
  <2>1. \A d : d \in Since(c) <=>
          \E j \in DOMAIN made : made[j].recorded /\ k < j /\ d = made[j].batch
    BY SinceLatest DEF ContextsInv, ContextsType, LatestOf, RecordsOf, Since, RecordsIn, SinceIn
  <2>2. \A d : d \in Since(c)' <=>
          \E j \in DOMAIN made' : made'[j].recorded /\ k < j /\ d = made'[j].batch
    BY <1>1, SinceLatest DEF ContextsType, LatestOf, RecordsOf, Since, RecordsIn, SinceIn
  <2>3. \A d : d \in Since(c)' <=> d \in Since(c)
    BY <2>1, <2>2
  <2> QED BY <2>3
<1>4. EachHasLatest' /\ OneEach(store)'
  BY <1>1 DEF ContextsInv, EntriesAreLatest, EachHasLatest, OneEach
<1>5. AreLatest(store)'
  BY <1>1, <1>2 DEF ContextsInv, EntriesAreLatest, AreLatest
<1>6. Ordered(store)'
  BY <1>1 DEF ContextsInv, EntriesAreLatest, Ordered
<1>7. MissedForAReason'
  <2> SUFFICES ASSUME NEW b \in Batch, NEW k \in RecordsOf(b), LatestOf(b, k),
                      now' < made'[k].at + Ttl,
                      ~ \E e \in store' : e.batch = b
               PROVE  Cardinality(Since(b)') >= MaxBatchContexts
    BY <1>1 DEF MissedForAReason
  <2>1. made'[k] = made[k] /\ made[k].at \in Nat
    BY <1>2, RecordType DEF ContextsInv, Made
  <2>2. now < made[k].at + Ttl
    BY <2>1, BatchContextsAssumption DEF ContextsInv, ContextsType
  <2>3. ~ \E e \in store : e.batch = b
    <3> SUFFICES ASSUME NEW e \in store, e.batch = b
                 PROVE  FALSE
      OBVIOUS
    <3>1. PICK l \in RecordsOf(b) : LatestOf(b, l) /\ e.expires = made[l].at + Ttl
      BY DEF ContextsInv, EntriesAreLatest, AreLatest
    <3>2. l = k
      BY <3>1 DEF LatestOf, RecordsOf, ContextsInv, ContextsType
    <3> QED BY <2>1, <3>1, <3>2, BatchContextsAssumption DEF ContextsType
  <2>4. Cardinality(Since(b)) >= MaxBatchContexts
    BY <2>2, <2>3 DEF ContextsInv, MissedForAReason
  <2> QED BY <1>3, <2>4
<1> QED BY <1>4, <1>5, <1>6, <1>7 DEF ContextsInv, EntriesAreLatest

(* The queue after a push, before room is made: the invariant of the       *)
(* entries, and the new one last.                                          *)
Behind(b, contexts) == Kept(b) \cup {Entry(b, contexts)}

LEMMA Pushed ==
  ASSUME ContextsInv,
         NEW b \in Batch, NEW contexts \in SUBSET Custom,
         made' = Append(made, [batch |-> b, contexts |-> contexts, at |-> now, recorded |-> TRUE]),
         NEW S, S = Behind(b, contexts)
  PROVE  /\ S \in SUBSET Entries /\ IsFiniteSet(S)
         /\ Entry(b, contexts) \in S /\ Entry(b, contexts).batch = b
         /\ \A e \in S : e.turn <= pushed + 1
         /\ \A e \in S : e.turn = pushed + 1 => e = Entry(b, contexts)
         /\ AreLatest(S)' /\ OneEach(S)' /\ Ordered(S)'
<1> DEFINE new == Entry(b, contexts)
<1> USE DEF ContextsInv
<1>0. PICK n : n = Len(made) + 1
  OBVIOUS
<1>1. /\ Len(made) \in Nat /\ n = Len(made) + 1
      /\ DOMAIN made = 1..Len(made) /\ DOMAIN made' = 1..n
      /\ \A k \in DOMAIN made : made'[k] = made[k]
      /\ made'[n] = [batch |-> b, contexts |-> contexts, at |-> now, recorded |-> TRUE]
      /\ \A c : RecordsOf(c)' = IF c = b THEN RecordsOf(c) \cup {n} ELSE RecordsOf(c)
  BY <1>0, Noted
<1>2. /\ new \in Entries /\ new.batch = b /\ new.contexts = contexts
      /\ new.turn = pushed + 1 /\ new.expires = now + Ttl
  BY BatchContextsAssumption DEF Entry, Entries, ContextsType
<1>3. \A e \in Kept(b) : e \in store /\ e \in Entries /\ e.batch # b /\ e.turn <= pushed
  BY DEF Kept, Live, ContextsType
<1>4. \A e : e \in S <=> e = new \/ e \in Kept(b)
  BY DEF Behind
<1>5. \A e \in Kept(b) : e.turn \in Nat /\ e.turn < pushed + 1
  BY <1>3 DEF Entries, ContextsType
<1>6. \A k : LatestOf(b, k)' <=> k = n
  <2>1. \A k \in RecordsOf(b) : k \in Nat /\ k <= Len(made)
    BY <1>1 DEF RecordsOf
  <2>2. RecordsOf(b)' = RecordsOf(b) \cup {n}
    BY <1>1
  <2> QED BY <1>1, <2>1, <2>2 DEF LatestOf
<1>7. \A c : c # b => RecordsOf(c)' = RecordsOf(c) /\ \A k : LatestOf(c, k)' <=> LatestOf(c, k)
  BY <1>1 DEF LatestOf
<1>8. \A c : \A k \in RecordsOf(c) : k \in Nat /\ k < n /\ made'[k] = made[k]
  BY <1>1 DEF RecordsOf
<1>9. S \in SUBSET Entries /\ IsFiniteSet(S) /\ new \in S
  <2>1. IsFiniteSet(Kept(b))
    <3>1. Kept(b) \subseteq store /\ IsFiniteSet(store)
      BY <1>3 DEF ContextsType
    <3> QED BY <3>1, FS_Subset
  <2>2. IsFiniteSet(Kept(b) \cup {new})
    BY <2>1, FS_AddElement
  <2>3. IsFiniteSet(S)
    BY <2>2, Zenon DEF Behind
  <2> QED BY <1>2, <1>3, <1>4, <2>3
<1>10. \A e \in S : e.turn <= pushed + 1
  BY <1>2, <1>4, <1>5 DEF ContextsType
<1>11. \A e \in S : e.turn = pushed + 1 => e = new
  BY <1>4, <1>5 DEF ContextsType
<1>12. ASSUME NEW e \in S
       PROVE  \E k \in RecordsOf(e.batch)' :
                /\ LatestOf(e.batch, k)'
                /\ e.contexts = made'[k].contexts
                /\ e.expires = made'[k].at + Ttl
  <2>1. CASE e = new
    <3>1. n \in RecordsOf(b)' /\ LatestOf(b, n)'
      BY <1>1, <1>6
    <3>2. /\ e.batch = b /\ e.contexts = made'[n].contexts
          /\ e.expires = made'[n].at + Ttl
      BY <1>1, <1>2, <2>1
    <3> QED BY <3>1, <3>2
  <2>2. CASE e \in Kept(b)
    <3>1. PICK k \in RecordsOf(e.batch) :
            LatestOf(e.batch, k) /\ e.contexts = made[k].contexts /\ e.expires = made[k].at + Ttl
      BY <1>3, <2>2 DEF EntriesAreLatest, AreLatest
    <3>2. e.batch # b
      BY <1>3, <2>2
    <3> QED BY <1>7, <1>8, <3>1, <3>2
  <2> QED BY <1>4, <2>1, <2>2
<1>13. \A e, f \in S : e.batch = f.batch => e = f
  BY <1>2, <1>3, <1>4 DEF EntriesAreLatest, OneEach
<1>14. ASSUME NEW e \in S, NEW f \in S,
              NEW k \in RecordsOf(e.batch)', NEW l \in RecordsOf(f.batch)',
              LatestOf(e.batch, k)', LatestOf(f.batch, l)'
       PROVE  e.turn <= f.turn <=> k <= l
  <2>1. CASE e = new /\ f = new
    <3>1. k = n /\ l = n
      BY <1>2, <1>6, <1>14, <2>1
    <3> QED BY <1>1, <1>2, <2>1, <3>1 DEF ContextsType
  <2>2. CASE e = new /\ f \in Kept(b)
    <3>1. k = n /\ l \in Nat /\ l < n
      BY <1>2, <1>3, <1>6, <1>7, <1>8, <1>14, <2>2
    <3> QED BY <1>1, <1>2, <1>5, <2>2, <3>1 DEF ContextsType
  <2>3. CASE e \in Kept(b) /\ f = new
    <3>1. l = n /\ k \in Nat /\ k < n
      BY <1>2, <1>3, <1>6, <1>7, <1>8, <1>14, <2>3
    <3> QED BY <1>1, <1>2, <1>5, <2>3, <3>1 DEF ContextsType
  <2>4. CASE e \in Kept(b) /\ f \in Kept(b)
    <3>1. /\ e \in store /\ f \in store
          /\ k \in RecordsOf(e.batch) /\ l \in RecordsOf(f.batch)
          /\ LatestOf(e.batch, k) /\ LatestOf(f.batch, l)
      BY <1>3, <1>7, <1>14, <2>4
    <3> QED BY <3>1 DEF EntriesAreLatest, Ordered
  <2> QED BY <1>4, <2>1, <2>2, <2>3, <2>4
<1>15. AreLatest(S)' /\ OneEach(S)' /\ Ordered(S)'
  BY <1>12, <1>13, <1>14 DEF AreLatest, OneEach, Ordered
<1> QED BY <1>2, <1>9, <1>10, <1>11, <1>15

(* What makes room for the newer entries counts against the queue: the     *)
(* batches of the entries at or behind e are that of e and later ones.     *)
LEMMA NewerAreSince ==
  ASSUME NEW m \in Seq(Made), NEW S, IsFiniteSet(S), NEW e \in S, NEW k \in RecordsIn(m, e.batch),
         \A i \in RecordsIn(m, e.batch) : i <= k,
         \A f, g \in S : f.batch = g.batch => f = g,
         \A f \in S : f.turn >= e.turn =>
           \E l \in RecordsIn(m, f.batch) : k <= l
  PROVE  Cardinality({f \in S : f.turn >= e.turn}) <= Cardinality(SinceIn(m, e.batch)) + 1
<1> DEFINE newer == {f \in S : f.turn >= e.turn}
           since == SinceIn(m, e.batch)
           name == [f \in newer |-> f.batch]
<1>1. \A f \in newer : f.batch \in since \cup {e.batch}
  <2> SUFFICES ASSUME NEW f \in newer, f.batch # e.batch
               PROVE  f.batch \in since
    OBVIOUS
  <2>1. PICK l \in RecordsIn(m, f.batch) : k <= l
    OBVIOUS
  <2>2. l \in DOMAIN m /\ m[l].recorded /\ m[l].batch = f.batch /\ l \in Nat /\ k \in Nat
    BY DEF RecordsIn
  <2>3. l # k
    BY <2>2 DEF RecordsIn
  <2>4. k < l
    BY <2>1, <2>2, <2>3
  <2> QED BY <2>2, <2>4, SinceLatest
<1>2. IsFiniteSet(since)
  BY SinceLatest
<1>3. /\ IsFiniteSet(since \cup {e.batch})
      /\ Cardinality(since \cup {e.batch}) <= Cardinality(since) + 1
  <2>0. Cardinality(since) \in Nat
    BY <1>2, FS_CardinalityType
  <2>1. CASE e.batch \in since
    <3>1. since \cup {e.batch} = since
      BY <2>1
    <3>2. IsFiniteSet(since \cup {e.batch}) /\ Cardinality(since \cup {e.batch}) = Cardinality(since)
      BY <1>2, <3>1, Zenon
    <3> QED BY <2>0, <3>2
  <2>2. CASE e.batch \notin since
    <3>1. Cardinality(since \cup {e.batch}) = Cardinality(since) + 1
      BY <1>2, <2>2, FS_AddElement
    <3>2. IsFiniteSet(since \cup {e.batch})
      BY <1>2, FS_AddElement
    <3> QED BY <2>0, <3>1, <3>2
  <2> QED BY <2>1, <2>2
<1>4. name \in Injection(newer, since \cup {e.batch})
  BY <1>1 DEF Injection, IsInjective
<1>5. Cardinality(newer) <= Cardinality(since \cup {e.batch}) /\ IsFiniteSet(newer)
  BY <1>3, <1>4, FS_Injection
<1>6. /\ Cardinality(newer) \in Nat /\ Cardinality(since) \in Nat
      /\ Cardinality(since \cup {e.batch}) \in Nat
  BY <1>2, <1>3, <1>5, FS_CardinalityType
<1> QED BY <1>3, <1>5, <1>6

(* The invariant survives a create that is recorded.                       *)
LEMMA SomethingRecorded ==
  ASSUME ContextsInv,
         NEW b \in Batch, NEW contexts \in SUBSET Custom, contexts # {},
         Created(b, contexts)
  PROVE  ContextsInv'
<1> DEFINE new == Entry(b, contexts)
<1>0. PICK S : S = Behind(b, contexts)
  OBVIOUS
<1>a. PICK n : n = Len(made) + 1
  OBVIOUS
<1>b. made' = Append(made, [batch |-> b, contexts |-> contexts, at |-> now, recorded |-> TRUE])
  <2>1. (contexts # {}) = TRUE
    OBVIOUS
  <2>2. made' = Append(made, [batch |-> b, contexts |-> contexts, at |-> now,
                              recorded |-> contexts # {}])
    BY DEF Created, Note
  <2> QED BY <2>1, <2>2
<1>1. store' = Trimmed(S) /\ pushed' = pushed + 1 /\ now' = now
  BY <1>0 DEF Created, Record, Behind
<1>c. ContextsType
  BY DEF ContextsInv
<1>2. /\ made' \in Seq(Made)
      /\ Len(made) \in Nat /\ n = Len(made) + 1
      /\ DOMAIN made = 1..Len(made) /\ DOMAIN made' = 1..n
      /\ \A k \in DOMAIN made : made'[k] = made[k]
      /\ made'[n] = [batch |-> b, contexts |-> contexts, at |-> now, recorded |-> TRUE]
      /\ \A c : RecordsOf(c)' = IF c = b THEN RecordsOf(c) \cup {n} ELSE RecordsOf(c)
  BY <1>a, <1>b, <1>c, Noted
<1>3. /\ S \in SUBSET Entries /\ IsFiniteSet(S)
      /\ new \in S /\ new.batch = b /\ new.turn = pushed + 1
      /\ \A e \in S : e.turn <= pushed + 1
      /\ \A e \in S : e.turn = pushed + 1 => e = new
  BY <1>0, <1>b, Pushed DEF Entry
<1>4. AreLatest(S)' /\ OneEach(S)' /\ Ordered(S)'
  BY <1>0, <1>b, Pushed
<1>5. \A e \in S : \E k \in RecordsOf(e.batch)' : LatestOf(e.batch, k)'
  BY <1>4 DEF AreLatest
<1>6. \A e, f \in S : \A k \in RecordsOf(e.batch)', l \in RecordsOf(f.batch)' :
        LatestOf(e.batch, k)' /\ LatestOf(f.batch, l)' => (e.turn <= f.turn <=> k <= l)
  BY <1>4 DEF Ordered
<1> USE DEF ContextsInv
<1>7. store' \subseteq S /\ IsFiniteSet(store')
  <2>1. store' \subseteq S
    BY <1>1 DEF Trimmed
  <2> QED BY <1>3, <2>1, FS_Subset
<1>8. ContextsType'
  BY <1>1, <1>2, <1>3, <1>7 DEF ContextsType
<1>9. EachHasLatest'
  <2> SUFFICES ASSUME NEW c \in Batch, RecordsOf(c)' # {}
               PROVE  \E k \in RecordsOf(c)' : LatestOf(c, k)'
    BY DEF EachHasLatest
  <2>1. CASE c = b
    <3>1. PICK e \in S : e.batch = b
      BY <1>3
    <3> QED BY <1>5, <2>1, <3>1
  <2>2. CASE c # b
    <3>1. RecordsOf(c)' = RecordsOf(c)
      BY <1>2, <2>2
    <3> QED BY <3>1 DEF EachHasLatest, LatestOf
  <2> QED BY <2>1, <2>2
<1>10. EntriesAreLatest'
  BY <1>4, <1>7 DEF EntriesAreLatest, AreLatest, OneEach, Ordered
<1>11. new \in store'
  <2>1. {f \in S : f.turn >= new.turn} = {new}
    BY <1>3 DEF Entries, ContextsType
  <2>2. Cardinality({f \in S : f.turn >= new.turn}) = 1
    BY <2>1, FS_Singleton
  <2> QED BY <1>1, <1>3, <2>2, BatchContextsAssumption DEF Trimmed
<1>12. ASSUME NEW c \in Batch, NEW k \in RecordsOf(c)', LatestOf(c, k)',
              now' < made'[k].at + Ttl,
              ~ \E e \in store' : e.batch = c
       PROVE  Cardinality(Since(c)') >= MaxBatchContexts
  <2>1. c # b
    BY <1>3, <1>11, <1>12
  <2>2. /\ RecordsOf(c)' = RecordsOf(c) /\ LatestOf(c, k)
        /\ k \in DOMAIN made /\ k <= Len(made) /\ made'[k] = made[k]
    BY <1>2, <1>12, <2>1 DEF LatestOf, RecordsOf
  <2>3. /\ \A d : d \in Since(c)' <=>
              \E j \in DOMAIN made' : made'[j].recorded /\ k < j /\ d = made'[j].batch
        /\ IsFiniteSet(Since(c)')
    <3>1. SinceIn(made', c) = Since(c)'
      BY DEF RecordsOf, Since, RecordsIn, SinceIn
    <3>2. k \in RecordsIn(made', c) /\ \A i \in RecordsIn(made', c) : i <= k
      BY <1>12 DEF LatestOf, RecordsOf, RecordsIn
    <3> QED BY <1>2, <3>1, <3>2, SinceLatest
  <2>4. \/ \E e \in store : e.batch = c
        \/ Cardinality(Since(c)) >= MaxBatchContexts
    BY <1>1, <1>12, <2>2 DEF MissedForAReason
  <2>5. CASE Cardinality(Since(c)) >= MaxBatchContexts
    <3>1. \A d : d \in Since(c) <=>
            \E j \in DOMAIN made : made[j].recorded /\ k < j /\ d = made[j].batch
      BY <2>2, SinceLatest DEF ContextsType, LatestOf, RecordsOf, Since, RecordsIn, SinceIn
    <3>2. Since(c) \subseteq Since(c)'
      BY <1>2, <2>3, <3>1
    <3>3. Cardinality(Since(c)) <= Cardinality(Since(c)') /\ IsFiniteSet(Since(c))
      BY <2>3, <3>2, FS_Subset
    <3> QED BY <2>3, <2>5, <3>3, FS_CardinalityType, BatchContextsAssumption
  <2>6. CASE \E e \in store : e.batch = c
    <3>1. PICK e \in store : e.batch = c
      BY <2>6
    <3>2. PICK l \in RecordsOf(c) : LatestOf(c, l) /\ e.expires = made[l].at + Ttl
      BY <3>1 DEF EntriesAreLatest, AreLatest
    <3>3. l = k
      BY <2>2, <3>2, RecordType DEF LatestOf
    <3>4. e \in S
      BY <1>0, <1>1, <1>12, <2>1, <2>2, <3>1, <3>2, <3>3, RecordType, BatchContextsAssumption
         DEF Behind, Kept, Live, ContextsType, Made, Entries
    <3>5. ~(Cardinality({f \in S : f.turn >= e.turn}) <= MaxBatchContexts)
      BY <1>1, <1>12, <3>1, <3>4 DEF Trimmed
    <3>6. \A f \in S : f.turn >= e.turn =>
            \E i \in RecordsIn(made', f.batch) : k <= i
      <4> SUFFICES ASSUME NEW f \in S, f.turn >= e.turn
                   PROVE  \E i \in RecordsIn(made', f.batch) : k <= i
        OBVIOUS
      <4>1. PICK i \in RecordsOf(f.batch)' : LatestOf(f.batch, i)'
        BY <1>5
      <4>2. e.turn <= f.turn
        BY <1>3, <3>4 DEF Entries
      <4>3. k <= i
        BY <1>6, <1>12, <3>1, <3>4, <4>1, <4>2
      <4> QED BY <4>1, <4>3 DEF RecordsOf, RecordsIn
    <3>7. /\ k \in RecordsIn(made', e.batch)
          /\ \A i \in RecordsIn(made', e.batch) : i <= k
      BY <1>12, <3>1 DEF LatestOf, RecordsOf, RecordsIn
    <3>8. Cardinality({f \in S : f.turn >= e.turn}) <= Cardinality(SinceIn(made', e.batch)) + 1
      BY <1>2, <1>3, <1>4, <3>4, <3>6, <3>7, NewerAreSince DEF OneEach
    <3>9. SinceIn(made', e.batch) = Since(c)'
      BY <3>1 DEF Since, SinceIn, RecordsOf, RecordsIn
    <3>10. /\ Cardinality({f \in S : f.turn >= e.turn}) \in Nat
           /\ Cardinality(Since(c)') \in Nat
      <4>1. IsFiniteSet({f \in S : f.turn >= e.turn})
        BY <1>3, FS_Subset
      <4> QED BY <2>3, <4>1, FS_CardinalityType
    <3> QED BY <3>5, <3>8, <3>9, <3>10, BatchContextsAssumption
  <2> QED BY <2>4, <2>5, <2>6
<1>13. MissedForAReason'
  BY <1>12 DEF MissedForAReason
<1> QED BY <1>8, <1>9, <1>10, <1>13

LEMMA ContextsInit == Init => ContextsInv
<1> SUFFICES ASSUME Init PROVE ContextsInv
  OBVIOUS
<1>1. /\ now = 0 /\ pushed = 0 /\ store = {} /\ made = << >>
      /\ \A b : RecordsOf(b) = {}
  BY DEF Init, RecordsOf
<1>2. ContextsType
  BY <1>1, FS_EmptySet DEF ContextsType
<1> QED
  BY <1>1, <1>2 DEF ContextsInv, EachHasLatest, EntriesAreLatest, AreLatest, OneEach, Ordered,
                    MissedForAReason

(* Every step of BatchContexts preserves the invariant.                    *)
LEMMA ContextsStep == ContextsInv /\ [Next]_vars => ContextsInv'
<1> SUFFICES ASSUME ContextsInv, [Next]_vars
             PROVE  ContextsInv'
  OBVIOUS
<1>1. ContextsType
  BY DEF ContextsInv
<1>2. ASSUME NEW b \in Batch, NEW contexts \in SUBSET Custom, NEW recorded \in BOOLEAN,
             UNCHANGED <<now, store, pushed>>, Note(b, contexts, recorded), ~ recorded
      PROVE  ContextsInv'
  <2>1. made' = Append(made, [batch |-> b, contexts |-> contexts, at |-> now,
                              recorded |-> recorded])
    BY <1>2 DEF Note
  <2>2. /\ made' \in Seq(Made)
        /\ DOMAIN made' = 1..(Len(made) + 1) /\ DOMAIN made = 1..Len(made) /\ Len(made) \in Nat
        /\ \A k \in DOMAIN made : made'[k] = made[k]
        /\ made'[Len(made) + 1] = [batch |-> b, contexts |-> contexts, at |-> now,
                                   recorded |-> recorded]
        /\ \A c : RecordsOf(c)' = RecordsOf(c)
    BY <1>1, <1>2, <2>1, Noted
  <2>3. ContextsType'
    BY <1>1, <1>2, <2>2 DEF ContextsType
  <2>4. \A k \in DOMAIN made' : made'[k].recorded => k \in DOMAIN made
    BY <1>2, <2>2
  <2> QED BY <1>1, <1>2, <2>2, <2>3, <2>4, NothingRecorded DEF ContextsType
<1>3. ASSUME NEW b \in Batch, NEW contexts \in SUBSET Custom, Created(b, contexts)
      PROVE  ContextsInv'
  <2>1. CASE contexts # {}
    BY <1>3, <2>1, SomethingRecorded
  <2>2. CASE contexts = {}
    <3>1. Note(b, contexts, contexts # {}) /\ UNCHANGED <<now, store, pushed>>
      BY <1>3, <2>2 DEF Created, Record
    <3> QED BY <1>2, <2>2, <3>1
  <2> QED BY <2>1, <2>2
<1>4. ASSUME NEW b \in Batch, NEW contexts \in SUBSET Custom, CreatedEncoded(b, contexts)
      PROVE  ContextsInv'
  BY <1>2, <1>4 DEF CreatedEncoded
<1>5. ASSUME UNCHANGED <<pushed, made>>, now' \in Nat, now <= now',
             store' \subseteq store, \A e \in store : e.expires > now' => e \in store'
      PROVE  ContextsInv'
  <2>1. IsFiniteSet(store')
    BY <1>1, <1>5, FS_Subset DEF ContextsType
  <2>2. ContextsType'
    BY <1>1, <1>5, <2>1 DEF ContextsType
  <2>3. \A c : RecordsOf(c)' = RecordsOf(c)
    BY <1>5 DEF RecordsOf
  <2> QED BY <1>5, <2>2, <2>3, NothingRecorded
<1>6. CASE Results
  BY <1>1, <1>5, <1>6 DEF Results, Live, ContextsType
<1>7. CASE Tick
  BY <1>1, <1>5, <1>7 DEF Tick, ContextsType
<1>8. CASE Restart
  <2>1. /\ now' = now /\ pushed' = 0 /\ store' = {} /\ made' = << >>
        /\ \A b : RecordsOf(b)' = {}
    BY <1>8 DEF Restart, RecordsOf
  <2>2. ContextsType'
    BY <1>1, <2>1, FS_EmptySet DEF ContextsType
  <2> QED
    BY <2>1, <2>2 DEF ContextsInv, EachHasLatest, EntriesAreLatest, AreLatest, OneEach, Ordered,
                      MissedForAReason
<1>9. CASE UNCHANGED vars
  BY <1>1, <1>5, <1>9 DEF vars, ContextsType
<1> QED BY <1>3, <1>4, <1>6, <1>7, <1>8, <1>9 DEF Next

(* What a lookup finds is the one live entry of the batch.                 *)
LEMMA LookupFinds ==
  ASSUME ContextsInv, NEW b, NEW e \in store, e.batch = b, e.expires > now
  PROVE  Lookup(b) = e.contexts
<1>1. \A f \in store : f.batch = b => f = e
  BY DEF ContextsInv, EntriesAreLatest, OneEach
<1>2. {f \in Live(store) : f.batch = b} = {e}
  BY <1>1 DEF Live
<1>3. e.turn <= e.turn
  BY DEF ContextsInv, ContextsType, Entries
<1>4. (CHOOSE f \in {e} : \A g \in {e} : g.turn <= f.turn) = e
  BY <1>3
<1> QED BY <1>2, <1>4 DEF Lookup

LEMMA KeepsPromise == ContextsInv => KeptUntilExpiry
<1> SUFFICES ASSUME ContextsInv, NEW b \in Batch, RecordsOf(b) # {},
                    now < Latest(b).at + Ttl, Cardinality(Since(b)) < MaxBatchContexts
             PROVE  Lookup(b) = Latest(b).contexts
  BY DEF KeptUntilExpiry
<1>1. PICK k \in RecordsOf(b) : LatestOf(b, k)
  BY DEF ContextsInv, EachHasLatest
<1>2. Latest(b) = made[k]
  BY <1>1, LatestIsLatest DEF ContextsInv
<1>3. Cardinality(Since(b)) \in Nat
  <2>1. Since(b) = SinceIn(made, b) /\ RecordsOf(b) = RecordsIn(made, b)
    BY DEF Since, SinceIn, RecordsOf, RecordsIn
  <2>2. IsFiniteSet(SinceIn(made, b))
    BY <1>1, <2>1, SinceLatest DEF ContextsInv, ContextsType, LatestOf
  <2> QED BY <2>1, <2>2, FS_CardinalityType
<1>4. PICK e \in store : e.batch = b
  BY <1>1, <1>2, <1>3, BatchContextsAssumption DEF ContextsInv, MissedForAReason
<1>5. PICK l \in RecordsOf(b) :
        LatestOf(b, l) /\ e.contexts = made[l].contexts /\ e.expires = made[l].at + Ttl
  BY <1>4 DEF ContextsInv, EntriesAreLatest, AreLatest
<1>6. l = k
  BY <1>1, <1>5, RecordType DEF ContextsInv, LatestOf
<1>7. e.expires > now
  BY <1>2, <1>4, <1>5, <1>6, RecordType, BatchContextsAssumption
     DEF ContextsInv, ContextsType, Made, Entries
<1> QED BY <1>2, <1>4, <1>5, <1>6, <1>7, LookupFinds

LEMMA IsNeverStale == ContextsInv => NeverStale
<1> SUFFICES ASSUME ContextsInv, NEW b \in Batch, Lookup(b) # None
             PROVE  /\ RecordsOf(b) # {}
                    /\ Lookup(b) = Latest(b).contexts
                    /\ now < Latest(b).at + Ttl
  BY DEF NeverStale
<1>1. PICK e \in Live(store) : e.batch = b
  BY DEF Lookup
<1>2. e \in store /\ e.expires > now
  BY DEF Live
<1>3. PICK k \in RecordsOf(b) :
        LatestOf(b, k) /\ e.contexts = made[k].contexts /\ e.expires = made[k].at + Ttl
  BY <1>1, <1>2 DEF ContextsInv, EntriesAreLatest, AreLatest
<1>4. Latest(b) = made[k]
  BY <1>3, LatestIsLatest DEF ContextsInv
<1>5. Lookup(b) = e.contexts
  BY <1>1, <1>2, LookupFinds
<1>6. now < e.expires
  BY <1>2 DEF ContextsInv, ContextsType, Entries
<1> QED BY <1>3, <1>4, <1>5, <1>6

-----------------------------------------------------------------------------
(* The walk over a results file: what each line done so far has become.    *)
WalkType ==
  /\ pc \in {"idle", "streamed", "asked", "walking", "continuing", "done"}
  /\ file \in Seq(Line) /\ at \in 0..Len(file)
  /\ out \in Seq([line : Nat, change : {"none", "continued"}])
  /\ processed \in BOOLEAN

NotStarted == pc \in {"idle", "asked"} => at = 0 /\ out = << >>

(* The snapshot holds what the batch should have had when it was taken.    *)
SnapshotServes == pc \notin {"idle", "streamed"} => promised \subseteq params

MayContinue(n) == file[n].kind = "retrieves" /\ file[n].custom \in params

LinesInOrder ==
  /\ \A i \in DOMAIN out : out[i].line \in 1..at
  /\ \A i, j \in DOMAIN out : i < j => out[i].line < out[j].line

LinesComplete ==
  \A n \in 1..at : file[n].kind # "blank" => \E i \in DOMAIN out : out[i].line = n

ContinuedRightly ==
  /\ pc = "continuing" => at < Len(file) /\ MayContinue(at + 1)
  /\ \A i \in DOMAIN out : out[i].change = "continued" =>
       processed /\ MayContinue(out[i].line)

ResolvedSoFar ==
  \A n \in 1..at : file[n].kind = "retrieves" /\ file[n].custom \in promised =>
    \/ n \in refused
    \/ \E i \in DOMAIN out : out[i] = [line |-> n, change |-> "continued"]

Replied ==
  pc = "done" => at = Len(file) /\ reply = IF processed THEN out ELSE Untouched

WalkInv ==
  /\ WalkType /\ NotStarted /\ SnapshotServes
  /\ LinesInOrder /\ LinesComplete /\ ContinuedRightly /\ ResolvedSoFar
  /\ Replied

(* A line put down comes after those before it.                            *)
LEMMA PutDown ==
  ASSUME WalkType, LinesInOrder, LinesComplete, at < Len(file),
         NEW change \in {"none", "continued"}, Put(change), file' = file
  PROVE  /\ at' = at + 1 /\ at' \in 0..Len(file)
         /\ out' \in Seq([line : Nat, change : {"none", "continued"}])
         /\ \A i \in DOMAIN out : i \in DOMAIN out' /\ out'[i] = out[i]
         /\ \E j \in DOMAIN out' :
              /\ out'[j] = [line |-> at + 1, change |-> change]
              /\ \A i \in DOMAIN out' : i = j \/ i \in DOMAIN out
         /\ LinesInOrder' /\ LinesComplete'
<1> DEFINE l == [line |-> at + 1, change |-> change]
<1>0. PICK n : n = Len(out) + 1
  OBVIOUS
<1>1. /\ at \in Nat /\ at' = at + 1 /\ at' \in 0..Len(file) /\ at + 1 \in Nat
      /\ out' = Append(out, l)
      /\ l \in [line : Nat, change : {"none", "continued"}]
  BY DEF WalkType, Put
<1>2. /\ out' \in Seq([line : Nat, change : {"none", "continued"}])
      /\ Len(out) \in Nat /\ n = Len(out) + 1
      /\ DOMAIN out = 1..Len(out) /\ DOMAIN out' = 1..n
      /\ \A i \in DOMAIN out : out'[i] = out[i]
      /\ out'[n] = l
  BY <1>0, <1>1 DEF WalkType
<1>3. /\ \A i \in DOMAIN out : i \in DOMAIN out' /\ i \in Nat /\ i < n /\ out'[i] = out[i]
      /\ n \in DOMAIN out' /\ \A i \in DOMAIN out' : i = n \/ i \in DOMAIN out
  BY <1>2
<1>4. LinesInOrder'
  <2>1. \A i \in DOMAIN out : out[i].line \in 1..at
    BY DEF LinesInOrder
  <2>2. \A i \in DOMAIN out' : out'[i].line \in 1..at'
    BY <1>1, <1>2, <1>3, <2>1
  <2>3. ASSUME NEW i \in DOMAIN out', NEW j \in DOMAIN out', i < j
        PROVE  out'[i].line < out'[j].line
    <3>1. i \in DOMAIN out
      BY <1>2, <2>3
    <3>2. CASE j \in DOMAIN out
      BY <1>2, <2>3, <3>1, <3>2 DEF LinesInOrder
    <3>3. CASE j = n
      BY <1>1, <1>2, <2>1, <3>1, <3>3
    <3> QED BY <1>3, <3>2, <3>3
  <2> QED BY <2>2, <2>3 DEF LinesInOrder
<1>5. LinesComplete'
  <2> SUFFICES ASSUME NEW m \in 1..(at + 1), file[m].kind # "blank"
               PROVE  \E i \in DOMAIN out' : out'[i].line = m
    BY <1>1 DEF LinesComplete
  <2>1. CASE m = at + 1
    BY <1>2, <1>3, <2>1
  <2>2. CASE m \in 1..at
    BY <1>3, <2>2 DEF LinesComplete
  <2> QED BY <1>1, <2>1, <2>2
<1>6. \E j \in DOMAIN out' : /\ out'[j] = l
                            /\ \A i \in DOMAIN out' : i = j \/ i \in DOMAIN out
  BY <1>2, <1>3
<1> QED BY <1>1, <1>2, <1>3, <1>4, <1>5, <1>6

LEMMA IdleInv == Idle => WalkInv
<1> SUFFICES ASSUME Idle PROVE WalkInv
  OBVIOUS
<1>1. /\ pc = "idle" /\ promised = {} /\ file = << >> /\ at = 0 /\ out = << >> /\ processed = FALSE
      /\ DOMAIN out = {} /\ 1..at = {}
  BY DEF Idle
<1>2. WalkType
  <2>1. at \in 0..Len(file) /\ file \in Seq(Line)
    BY <1>1
  <2>2. out \in Seq([line : Nat, change : {"none", "continued"}])
    BY <1>1
  <2>3. processed \in BOOLEAN
    BY <1>1
  <2>4. pc \in {"idle", "streamed", "asked", "walking", "continuing", "done"}
    BY <1>1
  <2> QED BY <2>1, <2>2, <2>3, <2>4, Zenon DEF WalkType
<1>3. LinesInOrder /\ LinesComplete /\ ContinuedRightly /\ ResolvedSoFar
  BY <1>1 DEF LinesInOrder, LinesComplete, ContinuedRightly, ResolvedSoFar
<1> QED BY <1>1, <1>2, <1>3 DEF WalkInv, NotStarted, SnapshotServes, Replied

(* Every step of the walk is one of the contexts or leaves them alone.     *)
LEMMA WalkStepsContexts == [WalkNext]_allVars => [Next]_vars
BY DEF WalkNext, Next, Elsewhere, Crash, AskResults, PassOn, Receive, Blank, Copy, Continue,
       Continued, Refused, AnswerClient, allVars

(* The snapshot of a lookup holds what was promised.                       *)
LEMMA PromiseServed ==
  ASSUME ContextsInv, NEW b \in Batch, Lookup(b) # None
  PROVE  Promised(b) \subseteq Lookup(b)
BY KeepsPromise DEF Promised, KeptUntilExpiry

LEMMA WalkStep == ContextsInv /\ WalkInv /\ [WalkNext]_allVars => WalkInv'
<1> SUFFICES ASSUME ContextsInv, WalkInv, [WalkNext]_allVars
             PROVE  WalkInv'
  OBVIOUS
<1> USE DEF WalkInv
<1>1. CASE UNCHANGED walkVars
  BY <1>1 DEF walkVars, WalkType, NotStarted, SnapshotServes, MayContinue, LinesInOrder, LinesComplete,
     ContinuedRightly, ResolvedSoFar, Replied, Untouched
<1>2. CASE Crash
  <2>1. Idle'
    BY <1>2 DEF Crash, Idle
  <2> QED BY <2>1, IdleInv, PTL
<1>3. ASSUME NEW b \in Batch, AskResults(b)
      PROVE  WalkInv'
  <2>1. SnapshotServes'
    BY <1>3, PromiseServed DEF AskResults, SnapshotServes
  <2> QED BY <1>3, <2>1 DEF AskResults, WalkType, NotStarted, LinesInOrder, LinesComplete,
                            ContinuedRightly, ResolvedSoFar, Replied
<1>4. CASE PassOn
  BY <1>4 DEF PassOn, WalkType, NotStarted, SnapshotServes, LinesInOrder, LinesComplete,
              ContinuedRightly, ResolvedSoFar, Replied
<1>5. ASSUME NEW f \in Answer, Receive(f)
      PROVE  WalkInv'
  <2>1. f \in Seq(Line) /\ Len(f) \in Nat
    BY BatchResultsAssumption
  <2>2. at = 0 /\ out = << >>
    BY <1>5 DEF Receive, NotStarted
  <2> QED BY <1>5, <2>1, <2>2 DEF Receive, WalkType, NotStarted, SnapshotServes, LinesInOrder,
             LinesComplete, ContinuedRightly, ResolvedSoFar, Replied
<1>6. CASE Blank
  <2>1. /\ at' = at + 1 /\ at \in Nat /\ at' \in 0..Len(file) /\ file[at + 1].kind = "blank"
        /\ UNCHANGED <<pc, params, file, out, processed, reply, promised, refused>>
        /\ pc = "walking"
    BY <1>6 DEF Blank, Reached, WalkType
  <2>2. 1..at' = 1..at \cup {at + 1}
    BY <2>1
  <2>3. LinesInOrder'
    BY <2>1, <2>2 DEF LinesInOrder
  <2>4. LinesComplete' /\ ResolvedSoFar'
    BY <2>1, <2>2 DEF LinesComplete, ResolvedSoFar
  <2> QED BY <2>1, <2>3, <2>4 DEF WalkType, NotStarted, SnapshotServes, MayContinue,
                                  ContinuedRightly, Replied
<1>7. ASSUME NEW change \in {"none", "continued"}, Put(change), at < Len(file),
             pc' = "walking", processed' \in BOOLEAN, processed => processed',
             refused \subseteq refused',
             UNCHANGED <<params, file, promised>>, pc \in {"walking", "continuing"},
             change = "continued" => processed' /\ MayContinue(at + 1),
             file[at + 1].kind = "retrieves" /\ file[at + 1].custom \in promised =>
               change = "continued" \/ at + 1 \in refused'
      PROVE  WalkInv'
  <2>1. /\ at' = at + 1 /\ at' \in 0..Len(file) /\ at \in Nat
        /\ out' \in Seq([line : Nat, change : {"none", "continued"}])
        /\ \A i \in DOMAIN out : i \in DOMAIN out' /\ out'[i] = out[i]
        /\ LinesInOrder' /\ LinesComplete'
    BY <1>7, PutDown DEF WalkType
  <2>2. PICK j \in DOMAIN out' : /\ out'[j] = [line |-> at + 1, change |-> change]
                                /\ \A i \in DOMAIN out' : i = j \/ i \in DOMAIN out
    BY <1>7, PutDown
  <2>3. WalkType'
    BY <1>7, <2>1 DEF WalkType
  <2>4. ContinuedRightly'
    <3>1. ASSUME NEW i \in DOMAIN out', out'[i].change = "continued"
          PROVE  processed' /\ MayContinue(out'[i].line)
      <4>1. CASE i = j
        BY <1>7, <2>2, <3>1, <4>1
      <4>2. CASE i \in DOMAIN out
        BY <1>7, <2>1, <3>1, <4>2 DEF ContinuedRightly
      <4> QED BY <2>2, <4>1, <4>2
    <3> QED BY <1>7, <3>1 DEF ContinuedRightly, MayContinue
  <2>5. ResolvedSoFar'
    <3> SUFFICES ASSUME NEW n \in 1..(at + 1), file[n].kind = "retrieves", file[n].custom \in promised,
                        n \notin refused'
                 PROVE  \E i \in DOMAIN out' : out'[i] = [line |-> n, change |-> "continued"]
      BY <1>7, <2>1 DEF ResolvedSoFar
    <3>1. CASE n = at + 1
      BY <1>7, <2>2, <3>1
    <3>2. CASE n \in 1..at
      BY <1>7, <2>1, <3>2 DEF ResolvedSoFar
    <3> QED BY <2>1, <3>1, <3>2
  <2> QED BY <1>7, <2>1, <2>3, <2>4, <2>5 DEF NotStarted, SnapshotServes, Replied
<1>8. CASE Copy
  <2>1. promised \subseteq params
    BY <1>8 DEF Copy, SnapshotServes
  <2> QED BY <1>7, <1>8, <2>1 DEF Copy, Reached, WalkType
<1>9. CASE Continue
  BY <1>9 DEF Continue, Reached, WalkType, NotStarted, SnapshotServes, LinesInOrder, LinesComplete,
              MayContinue, ContinuedRightly, ResolvedSoFar, Replied
<1>10. CASE Continued
  BY <1>7, <1>10 DEF Continued, ContinuedRightly
<1>11. CASE Refused
  BY <1>7, <1>11 DEF Refused, ContinuedRightly, WalkType
<1>12. CASE AnswerClient
  BY <1>12 DEF AnswerClient, WalkType, NotStarted, SnapshotServes, LinesInOrder, LinesComplete,
               MayContinue, ContinuedRightly, ResolvedSoFar, Replied, Untouched
<1> QED
  BY <1>1, <1>2, <1>3, <1>4, <1>5, <1>6, <1>8, <1>9, <1>10, <1>11, <1>12
     DEF WalkNext, Elsewhere, allVars, walkVars

(* A reply is the lines put down, or the file as it came.                  *)
LEMMA WalkPreserves == WalkInv => LinesArePreserved
<1> SUFFICES ASSUME WalkInv, pc = "done"
             PROVE  /\ \A i \in DOMAIN reply : reply[i].line \in DOMAIN file
                    /\ \A i, j \in DOMAIN reply : i < j => reply[i].line < reply[j].line
                    /\ \A n \in DOMAIN file : file[n].kind # "blank" =>
                         \E i \in DOMAIN reply : reply[i].line = n
                    /\ \A i \in DOMAIN reply : reply[i].change = "continued" =>
                         MayContinue(reply[i].line)
  BY DEF LinesArePreserved, MayContinue
<1>1. DOMAIN file = 1..at
  BY DEF WalkInv, WalkType, Replied
<1>2. CASE processed
  <2>1. reply = out
    BY <1>2 DEF WalkInv, Replied
  <2> QED BY <1>1, <2>1 DEF WalkInv, LinesInOrder, LinesComplete, ContinuedRightly
<1>3. CASE ~ processed
  <2>1. /\ DOMAIN reply = DOMAIN file
        /\ \A i \in DOMAIN file : reply[i].line = i /\ reply[i].change = "none"
    BY <1>3 DEF WalkInv, Replied, Untouched
  <2> QED BY <2>1
<1> QED BY <1>2, <1>3

LEMMA WalkResolves == WalkInv => RetrievalsResolved
<1> SUFFICES ASSUME WalkInv, pc = "done", NEW n \in DOMAIN file,
                    file[n].kind = "retrieves", file[n].custom \in promised, n \notin refused
             PROVE  \E k \in DOMAIN reply : reply[k] = [line |-> n, change |-> "continued"]
  BY DEF RetrievalsResolved
<1>1. n \in 1..at
  BY DEF WalkInv, WalkType, Replied
<1>2. PICK i \in DOMAIN out : out[i] = [line |-> n, change |-> "continued"]
  BY <1>1 DEF WalkInv, ResolvedSoFar
<1>3. processed
  BY <1>2 DEF WalkInv, ContinuedRightly
<1>4. reply = out
  BY <1>3 DEF WalkInv, Replied
<1> QED BY <1>2, <1>4

LEMMA AllInv == WalkSpec => [](ContextsInv /\ WalkInv)
<1>1. WalkInit => ContextsInv /\ WalkInv
  BY ContextsInit, IdleInv DEF WalkInit
<1>2. ContextsInv /\ WalkInv /\ [WalkNext]_allVars => (ContextsInv /\ WalkInv)'
  BY ContextsStep, WalkStep, WalkStepsContexts
<1> QED BY <1>1, <1>2, PTL DEF WalkSpec

(* The walk over results is a user of the contexts like any other: what it *)
(* does to them is a step of BatchContexts (proxy.rs, batch_context).      *)
THEOREM WalkIsAUser == WalkSpec => Spec
<1>1. WalkInit => Init
  BY DEF WalkInit
<1> QED BY <1>1, WalkStepsContexts, PTL DEF WalkSpec, Spec

(* record_batch_context and batch_context: contexts are found until they   *)
(* expire or the queue is full of newer ones.                              *)
THEOREM SpecKeptUntilExpiry == WalkSpec => []KeptUntilExpiry
BY AllInv, KeepsPromise, PTL

(* batch_context: what is found is what the latest create of the batch     *)
(* left, and is not expired.                                               *)
THEOREM SpecNeverStale == WalkSpec => []NeverStale
BY AllInv, IsNeverStale, PTL

(* forward_batch_results: no line of a results file is lost, doubled or    *)
(* moved, and none changed that was not a retrieval of a known request.    *)
THEOREM SpecLinesArePreserved == WalkSpec => []LinesArePreserved
BY AllInv, WalkPreserves, PTL

(* forward_batch_results: the retrievals of a batch whose contexts were    *)
(* kept are resolved or refused by the provider.                           *)
THEOREM SpecRetrievalsResolved == WalkSpec => []RetrievalsResolved
BY AllInv, WalkResolves, PTL

=============================================================================
