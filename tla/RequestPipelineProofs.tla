------------------------ MODULE RequestPipelineProofs ------------------------
(***************************************************************************)
(* For any number of requests, status requests and rows: the gauge of CCR  *)
(* entries stays near the rows, and the statistics balance.  Both are      *)
(* about how many slots are at a place, so each action is characterised by *)
(* the change it makes to the set of those slots.  Then, for any sessions  *)
(* and tokens, beta tokens stick: the tracker is a list in which the       *)
(* sessions behind an entry are among those that had their turn since.     *)
(***************************************************************************)
EXTENDS RequestPipeline, FiniteSetTheorems, WellFoundedInduction, TLAPS

(* A slot enters a set of slots, leaves it, or changes nothing.            *)
LEMMA SlotsCount ==
  ASSUME NEW A, NEW B, A \subseteq Slot, B \subseteq Slot, NEW r \in Slot,
         A \ {r} = B \ {r}
  PROVE  /\ Cardinality(A) \in Nat /\ Cardinality(B) \in Nat
         /\ (r \in A <=> r \in B) => Cardinality(B) = Cardinality(A)
         /\ r \notin A /\ r \in B => Cardinality(B) = Cardinality(A) + 1
         /\ r \in A /\ r \notin B => Cardinality(B) = Cardinality(A) - 1
<1>1. IsFiniteSet(A) /\ IsFiniteSet(B)
  BY RequestPipelineAssumption, FS_Subset
<1>2. Cardinality(A) \in Nat /\ Cardinality(B) \in Nat
  BY <1>1, FS_CardinalityType
<1>3. CASE r \in A <=> r \in B
  <2>1. A = B
    BY <1>3
  <2> QED
    BY <1>2, <1>3, <2>1
<1>4. CASE r \notin A /\ r \in B
  <2>1. B = A \cup {r}
    BY <1>4
  <2>2. Cardinality(B) = Cardinality(A) + 1
    BY <1>1, <1>4, <2>1, FS_AddElement
  <2> QED
    BY <1>2, <1>4, <2>2
<1>5. CASE r \in A /\ r \notin B
  <2>1. A = B \cup {r}
    BY <1>5
  <2>2. Cardinality(A) = Cardinality(B) + 1
    BY <1>1, <1>5, <2>1, FS_AddElement
  <2> QED
    BY <1>2, <1>5, <2>2
<1> QED
  BY <1>3, <1>4, <1>5

LEMMA RowsCount ==
  ASSUME rows \subseteq Hash, NEW h \in Hash
  PROVE  /\ Cardinality(rows) \in Nat
         /\ Cardinality(rows \cup {h})
              = IF h \in rows THEN Cardinality(rows) ELSE Cardinality(rows) + 1
<1>1. IsFiniteSet(rows)
  BY RequestPipelineAssumption, FS_Subset
<1> QED
  BY <1>1, FS_CardinalityType, FS_AddElement

(***************************************************************************)
(* The gauge.  A row that was inserted and not yet added may be in a count *)
(* that is stored before it is added: each such slot may add one too many. *)
(***************************************************************************)
Inserted == {r \in Slot : pc[r] = "inserted"}

GaugeInv ==
  /\ pc \in [Slot -> Places]
  /\ rows \subseteq Hash
  /\ gauge \in Nat
  /\ polled \in [Poller -> Nat \cup {NoCount}]
  /\ \A p \in Poller : polled[p] # NoCount => polled[p] <= Cardinality(rows)
  /\ gauge + Cardinality(Inserted) <= Cardinality(rows) + Cardinality(Slot)

LEMMA NoneInserted ==
  ASSUME rows \subseteq Hash, Inserted = {}
  PROVE  0 + Cardinality(Inserted) <= Cardinality(rows) + Cardinality(Slot)
<1>1. IsFiniteSet(rows) /\ IsFiniteSet(Slot)
  BY RequestPipelineAssumption, FS_Subset
<1>2. Cardinality(rows) \in Nat /\ Cardinality(Slot) \in Nat /\ Cardinality({}) = 0
  BY <1>1, FS_CardinalityType, FS_EmptySet
<1> QED
  BY <1>2

LEMMA InitGaugeInv == Init => GaugeInv
<1> SUFFICES ASSUME Init PROVE GaugeInv
  OBVIOUS
<1>1. rows \subseteq Hash /\ Inserted = {}
  BY DEF Init, Started, Inserted
<1> QED
  BY <1>1, NoneInserted DEF Init, Started, GaugeInv, Places

(* A step of one slot that neither inserts nor adds a row.                 *)
LEMMA OtherStepsGaugeInv ==
  ASSUME GaugeInv, NEW r \in Slot, NEW x \in Places \ {"inserted"},
         GoTo(r, x), pc[r] # "inserted", UNCHANGED storeVars
  PROVE  GaugeInv'
<1>1. pc' \in [Slot -> Places] /\ Inserted' = Inserted
  BY DEF GaugeInv, GoTo, Inserted
<1> QED
  BY <1>1 DEF GaugeInv, storeVars

LEMMA PutGaugeInv ==
  ASSUME GaugeInv, NEW r \in Slot, NEW h \in Hash, Put(r, h)
  PROVE  GaugeInv'
<1>1. /\ pc' \in [Slot -> Places] /\ rows' \subseteq Hash
      /\ rows' = rows \cup {h} /\ gauge' = gauge /\ polled' = polled
  BY DEF GaugeInv, Put, GoTo, Places
<1>2. /\ Inserted \subseteq Slot /\ Inserted' \subseteq Slot
      /\ Inserted \ {r} = Inserted' \ {r} /\ r \notin Inserted
      /\ r \in Inserted' <=> h \notin rows
  BY DEF GaugeInv, Put, GoTo, Inserted
<1>3. /\ Cardinality(Inserted) \in Nat
      /\ Cardinality(Inserted')
           = IF h \in rows THEN Cardinality(Inserted) ELSE Cardinality(Inserted) + 1
  BY <1>2, SlotsCount
<1>4. /\ Cardinality(rows) \in Nat
      /\ Cardinality(rows')
           = IF h \in rows THEN Cardinality(rows) ELSE Cardinality(rows) + 1
  BY <1>1, RowsCount DEF GaugeInv
<1>5. Cardinality(Slot) \in Nat
  BY RequestPipelineAssumption, FS_CardinalityType
<1>6. gauge' + Cardinality(Inserted') <= Cardinality(rows') + Cardinality(Slot)
  BY <1>1, <1>3, <1>4, <1>5 DEF GaugeInv
<1>7. \A p \in Poller : polled'[p] # NoCount => polled'[p] <= Cardinality(rows')
  BY <1>1, <1>4, RequestPipelineAssumption DEF GaugeInv
<1> QED
  BY <1>1, <1>6, <1>7 DEF GaugeInv

LEMMA CountRowGaugeInv ==
  ASSUME GaugeInv, NEW r \in Slot, CountRow(r)
  PROVE  GaugeInv'
<1>1. /\ pc' \in [Slot -> Places] /\ gauge' = gauge + 1
      /\ rows' = rows /\ polled' = polled
  BY DEF GaugeInv, CountRow, GoTo, Places
<1>2. /\ Inserted \subseteq Slot /\ Inserted' \subseteq Slot
      /\ Inserted \ {r} = Inserted' \ {r} /\ r \in Inserted /\ r \notin Inserted'
  BY DEF GaugeInv, CountRow, GoTo, Inserted
<1>3. /\ Cardinality(Inserted) \in Nat /\ Cardinality(Inserted') \in Nat
      /\ Cardinality(Inserted') = Cardinality(Inserted) - 1
  BY <1>2, SlotsCount
<1>4. gauge' + Cardinality(Inserted') = gauge + Cardinality(Inserted)
  BY <1>1, <1>3 DEF GaugeInv
<1> QED
  BY <1>1, <1>4 DEF GaugeInv

LEMMA StepGaugeInv ==
  ASSUME GaugeInv, NEW r \in Slot, Step(r)
  PROVE  GaugeInv'
<1> USE DEF Places
<1>1. ASSUME NEW q \in Request, Arrive(r, q) PROVE GaugeInv'
  BY <1>1, OtherStepsGaugeInv DEF Arrive
<1>2. ASSUME NEW json \in BOOLEAN, ReadBody(r, json) PROVE GaugeInv'
  BY <1>2, OtherStepsGaugeInv DEF ReadBody
<1>3. ASSUME NEW h \in Hash, Put(r, h) PROVE GaugeInv'
  BY <1>3, PutGaugeInv
<1>4. ASSUME NEW h \in Hash, Keep(r, h) PROVE GaugeInv'
  BY <1>4 DEF Keep, GaugeInv, Inserted, storeVars
<1>5. CASE Refuse(r)
  BY <1>5, OtherStepsGaugeInv DEF Refuse, Leave
<1>6. CASE Answer(r)
  BY <1>6, OtherStepsGaugeInv DEF Answer, Leave
<1>7. CASE MergeBetas(r)
  BY <1>7, OtherStepsGaugeInv DEF MergeBetas
<1>8. CASE Frame(r)
  BY <1>8, OtherStepsGaugeInv DEF Frame
<1>9. CASE Disconnect(r)
  BY <1>9, OtherStepsGaugeInv DEF Disconnect, Leave
<1>10. CASE CountRow(r)
  BY <1>10, CountRowGaugeInv
<1>11. CASE Record(r)
  BY <1>11, OtherStepsGaugeInv DEF Record
<1>12. CASE Finish(r)
  BY <1>12, OtherStepsGaugeInv DEF Finish, Leave
<1> QED
  BY <1>1, <1>2, <1>3, <1>4, <1>5, <1>6, <1>7, <1>8, <1>9, <1>10, <1>11, <1>12
  DEF Step

LEMMA PollGaugeInv ==
  ASSUME GaugeInv, NEW p \in Poller, CountRows(p) \/ StoreCount(p)
  PROVE  GaugeInv'
<1>1. pc' = pc /\ rows' = rows /\ Inserted' = Inserted
  BY DEF CountRows, StoreCount, slotVars, Inserted
<1>2. Cardinality(rows) \in Nat /\ Cardinality(Slot) \in Nat
  BY RequestPipelineAssumption, FS_Subset, FS_CardinalityType DEF GaugeInv
<1>3. CASE CountRows(p)
  BY <1>1, <1>2, <1>3 DEF CountRows, GaugeInv
<1>4. CASE StoreCount(p)
  <2>1. /\ gauge' = polled[p] /\ gauge' \in Nat /\ gauge' <= Cardinality(rows)
        /\ polled' \in [Poller -> Nat \cup {NoCount}]
        /\ \A x \in Poller : polled'[x] # NoCount => polled'[x] = polled[x]
    BY <1>4 DEF StoreCount, GaugeInv
  <2>2. Inserted \subseteq Slot /\ IsFiniteSet(Slot)
    BY RequestPipelineAssumption DEF Inserted
  <2>3. Cardinality(Inserted) \in Nat /\ Cardinality(Inserted) <= Cardinality(Slot)
    BY <2>2, FS_Subset, FS_CardinalityType
  <2>4. gauge' + Cardinality(Inserted) <= Cardinality(rows) + Cardinality(Slot)
    BY <1>2, <2>1, <2>3
  <2>5. \A x \in Poller : polled'[x] # NoCount => polled'[x] <= Cardinality(rows)
    BY <2>1 DEF GaugeInv
  <2> QED
    BY <1>1, <2>1, <2>4, <2>5 DEF GaugeInv
<1> QED
  BY <1>3, <1>4

LEMMA NextGaugeInv == GaugeInv /\ [Next]_vars => GaugeInv'
<1> SUFFICES ASSUME GaugeInv, [Next]_vars PROVE GaugeInv'
  OBVIOUS
<1>1. ASSUME NEW r \in Slot, Step(r) PROVE GaugeInv'
  BY <1>1, StepGaugeInv
<1>2. ASSUME NEW p \in Poller, CountRows(p) \/ StoreCount(p) PROVE GaugeInv'
  BY <1>2, PollGaugeInv
<1>3. ASSUME NEW h \in Hash, CliCompress(h) PROVE GaugeInv'
  <2>1. /\ pc' = pc /\ gauge' = gauge /\ polled' = polled /\ rows' = rows \cup {h}
        /\ Inserted' = Inserted /\ Inserted \subseteq Slot
    BY <1>3 DEF CliCompress, slotVars, Inserted
  <2>2. /\ Cardinality(rows) \in Nat /\ Cardinality(rows') \in Nat
        /\ Cardinality(rows) <= Cardinality(rows')
    BY <2>1, RowsCount DEF GaugeInv
  <2>3. Cardinality(Slot) \in Nat /\ Cardinality(Inserted) \in Nat
    BY <2>1, RequestPipelineAssumption, FS_Subset, FS_CardinalityType
  <2>4. gauge' + Cardinality(Inserted') <= Cardinality(rows') + Cardinality(Slot)
    BY <2>1, <2>2, <2>3 DEF GaugeInv
  <2>5. \A p \in Poller : polled'[p] # NoCount => polled'[p] <= Cardinality(rows')
    BY <2>1, <2>2, RequestPipelineAssumption DEF GaugeInv
  <2> QED
    BY <2>1, <2>4, <2>5 DEF GaugeInv
<1>4. CASE Restart
  <2>1. rows' \subseteq Hash /\ Inserted' = {}
    BY <1>4 DEF Restart, GaugeInv, Inserted
  <2>2. IsFiniteSet(rows') /\ IsFiniteSet(Slot)
    BY <2>1, RequestPipelineAssumption, FS_Subset
  <2>3. 0 + Cardinality(Inserted') <= Cardinality(rows') + Cardinality(Slot)
    BY <2>1, <2>2, FS_CardinalityType, FS_EmptySet
  <2> QED
    BY <1>4, <2>1, <2>3 DEF Restart, GaugeInv, Places
<1>5. CASE UNCHANGED vars
  BY <1>5 DEF vars, slotVars, storeVars, GaugeInv, Inserted
<1> QED
  BY <1>1, <1>2, <1>3, <1>4, <1>5 DEF Next

(* The gauge of CCR entries exceeds the rows of the store by at most one   *)
(* for each request in flight (stats.rs:100, compression.rs:1001).         *)
THEOREM GaugeStaysNear == Spec => []GaugeBounded
<1>1. GaugeInv => GaugeBounded
  <2> SUFFICES ASSUME GaugeInv PROVE GaugeBounded
    OBVIOUS
  <2>1. IsFiniteSet(Inserted) /\ IsFiniteSet(rows) /\ IsFiniteSet(Slot)
    BY RequestPipelineAssumption, FS_Subset DEF GaugeInv, Inserted
  <2>2. /\ Cardinality(Inserted) \in Nat /\ Cardinality(rows) \in Nat
        /\ Cardinality(Slot) \in Nat
    BY <2>1, FS_CardinalityType
  <2> QED
    BY <2>2 DEF GaugeInv, GaugeBounded
<1> QED
  BY <1>1, InitGaugeInv, NextGaugeInv, PTL DEF Spec

(***************************************************************************)
(* The statistics.  Each action moves its slot into or out of Uncounted    *)
(* exactly when it changes the other side of the balance.                  *)
(***************************************************************************)
BalanceInv ==
  /\ pc \in [Slot -> Places]
  /\ request \in [Slot -> Request \cup {NoRequest}]
  /\ total \in Nat /\ compressed \in Nat /\ skipped \in Nat
  /\ frames \in Nat /\ unsorted \in Nat
  /\ CountersBalance

BalanceTypes ==
  /\ pc \in [Slot -> Places]
  /\ request \in [Slot -> Request \cup {NoRequest}]
  /\ total \in Nat /\ compressed \in Nat /\ skipped \in Nat
  /\ frames \in Nat /\ unsorted \in Nat

LEMMA NoneUncounted ==
  ASSUME pc = [r \in Slot |-> "idle"], total = 0, compressed = 0, skipped = 0,
         frames = 0, unsorted = 0
  PROVE  CountersBalance
<1>1. Uncounted = {}
  BY DEF Uncounted
<1> QED
  BY <1>1, FS_EmptySet DEF CountersBalance

LEMMA InitBalanceInv == Init => BalanceInv
<1> SUFFICES ASSUME Init PROVE BalanceInv
  OBVIOUS
<1>1. CountersBalance
  BY NoneUncounted DEF Init, Started
<1> QED
  BY <1>1 DEF Init, Started, BalanceInv, Places

(* Slots other than the one that moves stay counted or uncounted.          *)
LEMMA StepMovesOneSlot ==
  ASSUME BalanceInv, NEW r \in Slot, Step(r)
  PROVE  /\ BalanceTypes'
         /\ Uncounted \subseteq Slot /\ Uncounted' \subseteq Slot
         /\ Uncounted \ {r} = Uncounted' \ {r}
<1>1. /\ \A x \in Slot \ {r} : pc'[x] = pc[x] /\ request'[x] = request[x]
      /\ BalanceTypes'
  <2> USE DEF BalanceInv, BalanceTypes, GoTo, Places
  <2>1. ASSUME NEW q \in Request, Arrive(r, q)
        PROVE  /\ \A x \in Slot \ {r} : pc'[x] = pc[x] /\ request'[x] = request[x]
               /\ BalanceTypes'
    BY <2>1 DEF Arrive
  <2>2. ASSUME NEW json \in BOOLEAN, ReadBody(r, json)
        PROVE  /\ \A x \in Slot \ {r} : pc'[x] = pc[x] /\ request'[x] = request[x]
               /\ BalanceTypes'
    BY <2>2 DEF ReadBody, counters
  <2>3. ASSUME NEW h \in Hash, Put(r, h) \/ Keep(r, h)
        PROVE  /\ \A x \in Slot \ {r} : pc'[x] = pc[x] /\ request'[x] = request[x]
               /\ BalanceTypes'
    BY <2>3 DEF Put, Keep, counters
  <2>4. CASE Refuse(r) \/ Answer(r)
    BY <2>4 DEF Refuse, Answer, Leave
  <2>5. CASE Disconnect(r) \/ Finish(r)
    BY <2>5 DEF Disconnect, Finish, Leave, counters
  <2>6. CASE MergeBetas(r)
    BY <2>6 DEF MergeBetas, counters
  <2>7. CASE CountRow(r)
    BY <2>7 DEF CountRow, counters
  <2>8. CASE Frame(r)
    BY <2>8 DEF Frame
  <2>9. CASE Record(r)
    BY <2>9 DEF Record
  <2> QED
    BY <2>1, <2>2, <2>3, <2>4, <2>5, <2>6, <2>7, <2>8, <2>9 DEF Step
<1> QED
  BY <1>1 DEF Uncounted

(* A step whose slot is uncounted before and after, or neither.            *)
LEMMA SteadyBalances ==
  ASSUME BalanceInv, NEW r \in Slot, Step(r), UNCHANGED counters,
         r \in Uncounted <=> r \in Uncounted'
  PROVE  CountersBalance'
<1>1. Cardinality(Uncounted') = Cardinality(Uncounted)
  BY StepMovesOneSlot, SlotsCount
<1> QED
  BY <1>1 DEF BalanceInv, CountersBalance, counters

LEMMA OneSorted ==
  ASSUME NEW c \in Nat, NEW k \in Nat, NEW n, n = c + k
  PROVE  n = (c + 1) + (k - 1)
  OBVIOUS

(* A step that sorts what was uncounted, by one of the three counters.     *)
LEMMA SortingBalances ==
  ASSUME BalanceInv, NEW r \in Slot, Step(r), r \in Uncounted, r \notin Uncounted',
         total' = total, frames' = frames,
         compressed' + skipped' + unsorted' = compressed + skipped + unsorted + 1
  PROVE  CountersBalance'
<1>1. /\ Cardinality(Uncounted) \in Nat /\ Cardinality(Uncounted') \in Nat
      /\ Cardinality(Uncounted') = Cardinality(Uncounted) - 1
  BY StepMovesOneSlot, SlotsCount
<1>2. /\ compressed' \in Nat /\ skipped' \in Nat /\ unsorted' \in Nat
      /\ compressed \in Nat /\ skipped \in Nat /\ unsorted \in Nat
      /\ total \in Nat /\ frames \in Nat
  BY StepMovesOneSlot DEF BalanceInv, BalanceTypes
<1>3. total + frames = compressed + skipped + unsorted + Cardinality(Uncounted)
  BY DEF BalanceInv, CountersBalance
<1>4. total' + frames' = total + frames
  OBVIOUS
<1>5. compressed' + skipped' + unsorted' = compressed + skipped + unsorted + 1
  OBVIOUS
<1>6. compressed + skipped + unsorted \in Nat
  BY <1>2
<1>7. total + frames
        = (compressed + skipped + unsorted + 1) + (Cardinality(Uncounted) - 1)
  BY <1>1, <1>3, <1>6, OneSorted
<1>8. total + frames = compressed' + skipped' + unsorted' + Cardinality(Uncounted')
  BY <1>1, <1>5, <1>7, Zenon
<1> QED
  BY <1>4, <1>8 DEF CountersBalance

LEMMA ArriveBalances ==
  ASSUME BalanceInv, NEW r \in Slot, NEW q \in Request, Arrive(r, q)
  PROVE  CountersBalance'
<1>1. Step(r) /\ BalanceTypes'
  BY StepMovesOneSlot DEF Step
<1>2. /\ r \notin Uncounted
      /\ r \in Uncounted' <=> ~Skips(q) /\ q.route # "codex"
  BY DEF Arrive, BalanceInv, GoTo, Uncounted
<1>3. /\ Cardinality(Uncounted) \in Nat
      /\ Cardinality(Uncounted')
           = IF ~Skips(q) /\ q.route # "codex"
             THEN Cardinality(Uncounted) + 1 ELSE Cardinality(Uncounted)
  BY <1>1, <1>2, StepMovesOneSlot, SlotsCount
<1>4. Skips(q) => q.route # "codex"
  BY DEF Skips
<1>5. /\ total' = total + 1 /\ compressed' = compressed /\ frames' = frames
      /\ skipped' = IF Skips(q) THEN skipped + 1 ELSE skipped
      /\ unsorted' = IF q.route = "codex" THEN unsorted + 1 ELSE unsorted
  BY DEF Arrive
<1> QED
  BY <1>3, <1>4, <1>5 DEF BalanceInv, CountersBalance

LEMMA FrameBalances ==
  ASSUME BalanceInv, NEW r \in Slot, Frame(r)
  PROVE  CountersBalance'
<1>1. Step(r)
  BY DEF Step
<1>2. r \notin Uncounted /\ (r \in Uncounted' <=> ~request[r].off)
  BY DEF Frame, BalanceInv, GoTo, Uncounted
<1>3. /\ Cardinality(Uncounted) \in Nat
      /\ Cardinality(Uncounted') = IF request[r].off THEN Cardinality(Uncounted)
                                   ELSE Cardinality(Uncounted) + 1
  BY <1>1, <1>2, StepMovesOneSlot, SlotsCount
<1>4. /\ total' = total /\ compressed' = compressed /\ unsorted' = unsorted
      /\ frames' = frames + 1
      /\ skipped' = IF request[r].off THEN skipped + 1 ELSE skipped
  BY DEF Frame
<1> QED
  BY <1>3, <1>4 DEF BalanceInv, CountersBalance

LEMMA StepBalances ==
  ASSUME BalanceInv, NEW r \in Slot, Step(r)
  PROVE  CountersBalance'
<1>1. ASSUME NEW q \in Request, Arrive(r, q) PROVE CountersBalance'
  BY <1>1, ArriveBalances
<1>2. ASSUME NEW json \in BOOLEAN, ReadBody(r, json) PROVE CountersBalance'
  <2>1. r \in Uncounted <=> r \in Uncounted'
    BY <1>2 DEF ReadBody, BalanceInv, GoTo, Uncounted
  <2> QED
    BY <1>2, <2>1, SteadyBalances DEF ReadBody
<1>3. ASSUME NEW h \in Hash, Put(r, h) \/ Keep(r, h) PROVE CountersBalance'
  <2>1. r \in Uncounted /\ r \in Uncounted'
    BY <1>3 DEF Put, Keep, BalanceInv, GoTo, Uncounted
  <2>2. UNCHANGED counters
    BY <1>3 DEF Put, Keep
  <2> QED
    BY <2>1, <2>2, SteadyBalances
<1>4. CASE Refuse(r)
  <2>1. r \in Uncounted /\ r \notin Uncounted'
    BY <1>4 DEF Refuse, Leave, BalanceInv, GoTo, Uncounted
  <2>2. /\ total' = total /\ frames' = frames
        /\ compressed' + skipped' + unsorted' = compressed + skipped + unsorted + 1
    BY <1>4 DEF Refuse, BalanceInv
  <2> QED
    BY <2>1, <2>2, SortingBalances
<1>5. CASE Answer(r)
  <2>1. r \in Uncounted /\ r \notin Uncounted'
    BY <1>5 DEF Answer, Leave, BalanceInv, GoTo, Uncounted
  <2>2. /\ total' = total /\ frames' = frames
        /\ compressed' + skipped' + unsorted' = compressed + skipped + unsorted + 1
    BY <1>5 DEF Answer, BalanceInv
  <2> QED
    BY <2>1, <2>2, SortingBalances
<1>6. CASE MergeBetas(r)
  <2>1. r \in Uncounted <=> r \in Uncounted'
    BY <1>6 DEF MergeBetas, BalanceInv, GoTo, Uncounted
  <2> QED
    BY <1>6, <2>1, SteadyBalances DEF MergeBetas
<1>7. CASE Frame(r)
  BY <1>7, FrameBalances
<1>8. CASE Disconnect(r) \/ Finish(r)
  <2>1. r \notin Uncounted /\ r \notin Uncounted'
    BY <1>8 DEF Disconnect, Finish, Leave, BalanceInv, GoTo, Uncounted
  <2>2. UNCHANGED counters
    BY <1>8 DEF Disconnect, Finish
  <2> QED
    BY <2>1, <2>2, SteadyBalances
<1>9. CASE CountRow(r)
  <2>1. r \in Uncounted /\ r \in Uncounted'
    BY <1>9 DEF CountRow, BalanceInv, GoTo, Uncounted
  <2> QED
    BY <1>9, <2>1, SteadyBalances DEF CountRow
<1>10. CASE Record(r)
  <2>1. r \in Uncounted /\ r \notin Uncounted'
    BY <1>10 DEF Record, BalanceInv, GoTo, Uncounted
  <2>2. /\ total' = total /\ frames' = frames
        /\ compressed' + skipped' + unsorted' = compressed + skipped + unsorted + 1
    BY <1>10 DEF Record, BalanceInv
  <2> QED
    BY <2>1, <2>2, SortingBalances
<1> QED
  BY <1>1, <1>2, <1>3, <1>4, <1>5, <1>6, <1>7, <1>8, <1>9, <1>10 DEF Step

LEMMA NextBalanceInv == BalanceInv /\ [Next]_vars => BalanceInv'
<1> SUFFICES ASSUME BalanceInv, [Next]_vars PROVE BalanceInv'
  OBVIOUS
<1>1. ASSUME NEW r \in Slot, Step(r) PROVE BalanceInv'
  BY <1>1, StepMovesOneSlot, StepBalances DEF BalanceInv, BalanceTypes
<1>2. ASSUME UNCHANGED <<slotVars, counters>> PROVE BalanceInv'
  <2>1. Uncounted' = Uncounted
    BY <1>2 DEF slotVars, Uncounted
  <2> QED
    BY <1>2, <2>1 DEF slotVars, counters, BalanceInv, CountersBalance
<1>3. ASSUME NEW p \in Poller, CountRows(p) \/ StoreCount(p) PROVE BalanceInv'
  BY <1>2, <1>3 DEF CountRows, StoreCount
<1>4. ASSUME NEW h \in Hash, CliCompress(h) PROVE BalanceInv'
  BY <1>2, <1>4 DEF CliCompress
<1>5. CASE Restart
  <2>1. Uncounted' = {}
    BY <1>5 DEF Restart, Uncounted
  <2>2. CountersBalance'
    BY <1>5, <2>1, FS_EmptySet DEF Restart, CountersBalance
  <2> QED
    BY <1>5, <2>2 DEF Restart, BalanceInv, Places
<1>6. CASE UNCHANGED vars
  BY <1>2, <1>6 DEF vars
<1> QED
  BY <1>1, <1>3, <1>4, <1>5, <1>6 DEF Next

(* Every request and every frame taken up is counted once as compressed or *)
(* skipped, is still uncounted, or is one that no counter sorts            *)
(* (proxy.rs, record_mutation_stats).                                      *)
THEOREM StatisticsBalance == Spec => []CountersBalance
<1>1. BalanceInv => CountersBalance
  BY DEF BalanceInv
<1> QED
  BY <1>1, InitBalanceInv, NextBalanceInv, PTL DEF Spec

(***************************************************************************)
(* The beta tokens.  What the loop of sticky_betas computes is shown by    *)
(* the well-ordering of the naturals, as in PrefixFreezeProofs.            *)
(***************************************************************************)
LEMMA LeastNumber ==
  ASSUME NEW S \in SUBSET Nat, S # {}
  PROVE  \E n \in S : \A m \in S : n <= m
<1>1. PICK x \in S : \A y \in S : ~ (<<y, x>> \in OpToRel(<, Nat))
  BY NatLessThanWellFounded, WFMin
<1>2. \A y \in S : y \in Nat /\ x \in Nat
  OBVIOUS
<1>3. \A y \in S : ~(y < x)
  BY <1>1, <1>2 DEF OpToRel
<1> QED BY <1>2, <1>3

(* One round of the loop: a token whose name is new is pushed.             *)
Grown(seen, t) ==
  IF \E k \in DOMAIN seen : NameOf[seen[k]] = NameOf[t] THEN seen ELSE Append(seen, t)

Rounds(f, seen, offers, n) ==
  /\ f = [i \in 0..n |-> f[i]]
  /\ f[0] = seen
  /\ \A k \in 1..n : f[k] = Grown(f[k - 1], offers[k])

LEMMA RoundsExist ==
  ASSUME NEW seen, NEW offers
  PROVE  \A n \in Nat : \E f : Rounds(f, seen, offers, n)
<1> DEFINE Bad == {n \in Nat : ~ \E f : Rounds(f, seen, offers, n)}
<1> SUFFICES ASSUME Bad # {} PROVE FALSE
  OBVIOUS
<1>1. PICK n \in Bad : \A m \in Bad : n <= m
  BY LeastNumber
<1>2. Rounds([i \in 0..0 |-> seen], seen, offers, 0)
  BY DEF Rounds
<1>3. n \in Nat \ {0}
  BY <1>2
<1>4. n - 1 \in Nat /\ n - 1 \notin Bad
  BY <1>1, <1>3
<1>5. PICK g : Rounds(g, seen, offers, n - 1)
  BY <1>4
<1> DEFINE h == [i \in 0..n |-> IF i = n THEN Grown(g[n - 1], offers[n]) ELSE g[i]]
<1>6. h[0] = seen
  BY <1>3, <1>5 DEF Rounds
<1>7. ASSUME NEW k \in 1..n PROVE h[k] = Grown(h[k - 1], offers[k])
  <2>1. k \in 0..n /\ k - 1 \in 0..n /\ k - 1 # n
    BY <1>3
  <2>2. h[k - 1] = g[k - 1]
    BY <2>1
  <2>3. CASE k = n
    BY <2>1, <2>2, <2>3
  <2>4. CASE k # n
    <3>1. k \in 1..(n - 1)
      BY <1>3, <2>4
    <3>2. g[k] = Grown(g[k - 1], offers[k])
      BY <1>5, <3>1 DEF Rounds
    <3>3. h[k] = g[k]
      BY <2>1, <2>4
    <3> QED
      BY <2>2, <3>2, <3>3, Zenon
  <2> QED
    BY <2>3, <2>4
<1>8. Rounds(h, seen, offers, n)
  BY <1>6, <1>7 DEF Rounds
<1> QED
  BY <1>8

LEMMA RoundsAgree ==
  ASSUME NEW seen, NEW offers, NEW n \in Nat, NEW m \in Nat, NEW f, NEW g,
         Rounds(f, seen, offers, n), Rounds(g, seen, offers, m)
  PROVE  \A k \in Nat : k <= n /\ k <= m => f[k] = g[k]
<1> DEFINE Bad == {k \in Nat : k <= n /\ k <= m /\ f[k] # g[k]}
<1> SUFFICES ASSUME Bad # {} PROVE FALSE
  OBVIOUS
<1>1. PICK k \in Bad : \A j \in Bad : k <= j
  BY LeastNumber
<1>2. k \in 1..n /\ k \in 1..m /\ k - 1 \notin Bad
  BY <1>1 DEF Rounds
<1>3. f[k - 1] = g[k - 1]
  BY <1>2
<1>4. f[k] = Grown(f[k - 1], offers[k]) /\ g[k] = Grown(g[k - 1], offers[k])
  BY <1>2 DEF Rounds
<1> QED
  BY <1>3, <1>4

(* The recursive function is what its defining equation says.              *)
LEMMA MergedUnfolds ==
  ASSUME NEW seen, NEW offers
  PROVE  \E f : /\ f[0] = seen
                /\ \A n \in Nat \ {0} : f[n] = Grown(f[n - 1], offers[n])
                /\ Merged(seen, offers) = f[Len(offers)]
<1> DEFINE R(f, n) == Rounds(f, seen, offers, n)
           F == [n \in Nat |-> (CHOOSE f : R(f, n))[n]]
           Step1(f) == [i \in Nat |->
             IF i = 0 THEN seen
             ELSE IF \E k \in DOMAIN f[i - 1] : NameOf[f[i - 1][k]] = NameOf[offers[i]]
                  THEN f[i - 1] ELSE Append(f[i - 1], offers[i])]
<1>1. ASSUME NEW n \in Nat PROVE R(CHOOSE f : R(f, n), n)
  BY RoundsExist, Zenon
<1>2. ASSUME NEW n \in Nat \ {0} PROVE F[n] = Grown(F[n - 1], offers[n])
  <2> DEFINE f == CHOOSE f : R(f, n)
             g == CHOOSE g : R(g, n - 1)
  <2>0. n \in Nat /\ n - 1 \in Nat
    OBVIOUS
  <2>1. R(f, n) /\ R(g, n - 1)
    <3> HIDE DEF R
    <3> QED BY <1>1, <2>0
  <2>2. f[n - 1] = g[n - 1]
    <3> HIDE DEF f, g
    <3> QED BY <2>0, <2>1, RoundsAgree
  <2>3. f[n] = Grown(f[n - 1], offers[n])
    <3> HIDE DEF f
    <3>1. n \in 1..n
      OBVIOUS
    <3> QED BY <2>1, <3>1 DEF Rounds
  <2>4. F[n] = f[n] /\ F[n - 1] = g[n - 1]
    <3> HIDE DEF R
    <3> QED BY <2>0
  <2> HIDE DEF F, f, g
  <2> QED BY <2>2, <2>3, <2>4
<1>3. F[0] = seen
  <2> DEFINE f == CHOOSE f : R(f, 0)
  <2>1. R(f, 0)
    BY <1>1
  <2>2. f[0] = seen
    <3> HIDE DEF f
    <3> QED BY <2>1 DEF Rounds
  <2>3. F[0] = f[0]
    <3> HIDE DEF R
    <3> QED OBVIOUS
  <2> QED BY <2>2, <2>3
<1>4. F = [n \in Nat |-> F[n]]
  OBVIOUS
<1>5. F = Step1(F)
  <2> HIDE DEF F
  <2> QED BY <1>2, <1>3, <1>4 DEF Grown
<1> DEFINE merged == CHOOSE f : f = Step1(f)
<1>6. merged = Step1(merged)
  <2> HIDE DEF Step1, F
  <2> QED BY <1>5
<1>7. Merged(seen, offers) = merged[Len(offers)]
  BY DEF Merged
<1>8. /\ merged[0] = seen
      /\ \A n \in Nat \ {0} : merged[n] = Grown(merged[n - 1], offers[n])
  <2> HIDE DEF merged
  <2> QED BY <1>6 DEF Grown
<1> HIDE DEF merged
<1> QED BY <1>7, <1>8

(* No name twice.                                                          *)
Distinct(tokens) ==
  \A i, j \in DOMAIN tokens : NameOf[tokens[i]] = NameOf[tokens[j]] => i = j

(* After n rounds: the tokens seen come first, each offer so far is named, *)
(* nothing is there that nobody named, and no name is there twice.         *)
Merges(m, seen, offers, n) ==
  /\ m \in Seq(Token)
  /\ Len(seen) <= Len(m)
  /\ \A i \in 1..Len(seen) : m[i] = seen[i]
  /\ Distinct(m)
  /\ \A j \in 1..n : \E i \in DOMAIN m : NameOf[m[i]] = NameOf[offers[j]]
  /\ \A i \in DOMAIN m : m[i] \in ToSet(seen) \cup ToSet(offers)

LEMMA GrownMerges ==
  ASSUME NEW seen \in Seq(Token), NEW offers \in Seq(Token), NEW n \in 1..Len(offers),
         NEW m, Merges(m, seen, offers, n - 1)
  PROVE  Merges(Grown(m, offers[n]), seen, offers, n)
<1>0. /\ m \in Seq(Token) /\ Len(m) \in Nat /\ DOMAIN m = 1..Len(m)
      /\ Len(seen) \in Nat /\ DOMAIN offers = 1..Len(offers) /\ Len(offers) \in Nat
      /\ offers[n] \in Token /\ offers[n] \in ToSet(offers)
  BY DEF Merges, ToSet
<1>1. CASE \E k \in DOMAIN m : NameOf[m[k]] = NameOf[offers[n]]
  <2>1. Grown(m, offers[n]) = m
    BY <1>1 DEF Grown
  <2>2. \A j \in 1..n : \E i \in DOMAIN m : NameOf[m[i]] = NameOf[offers[j]]
    <3> SUFFICES ASSUME NEW j \in 1..n
                 PROVE  \E i \in DOMAIN m : NameOf[m[i]] = NameOf[offers[j]]
      OBVIOUS
    <3>1. j = n \/ j \in 1..(n - 1)
      BY <1>0
    <3> QED BY <1>1, <3>1 DEF Merges
  <2>3. Merges(m, seen, offers, n)
    BY <2>2 DEF Merges
  <2> QED BY <2>1, <2>3, Zenon
<1>2. CASE ~ \E k \in DOMAIN m : NameOf[m[k]] = NameOf[offers[n]]
  <2> DEFINE t == offers[n]
  <2>1. PICK g : g = Append(m, t)
    OBVIOUS
  <2>2. Grown(m, t) = g
    BY <1>2, <2>1, Zenon DEF Grown
  <2>3. /\ g \in Seq(Token) /\ Len(g) = Len(m) + 1 /\ DOMAIN g = 1..(Len(m) + 1)
        /\ \A i \in 1..Len(m) : g[i] = m[i]
        /\ g[Len(m) + 1] = t
    BY <1>0, <2>1
  <2>4. \A i \in DOMAIN g : i \in DOMAIN m \/ i = Len(m) + 1
    BY <1>0, <2>3
  <2>5. Len(seen) <= Len(g) /\ \A i \in 1..Len(seen) : g[i] = seen[i]
    BY <1>0, <2>3 DEF Merges
  <2>6. Distinct(g)
    <3> SUFFICES ASSUME NEW i \in DOMAIN g, NEW j \in DOMAIN g, NameOf[g[i]] = NameOf[g[j]]
                 PROVE  i = j
      BY DEF Distinct
    <3>1. CASE i \in DOMAIN m /\ j \in DOMAIN m
      BY <1>0, <2>3, <3>1 DEF Merges, Distinct
    <3>2. CASE i \in DOMAIN m /\ j = Len(m) + 1
      BY <1>0, <1>2, <2>3, <3>2
    <3>3. CASE i = Len(m) + 1 /\ j \in DOMAIN m
      BY <1>0, <1>2, <2>3, <3>3
    <3> QED BY <2>4, <3>1, <3>2, <3>3
  <2>7. \A j \in 1..n : \E i \in DOMAIN g : NameOf[g[i]] = NameOf[offers[j]]
    <3> SUFFICES ASSUME NEW j \in 1..n
                 PROVE  \E i \in DOMAIN g : NameOf[g[i]] = NameOf[offers[j]]
      OBVIOUS
    <3>1. CASE j = n
      <4>1. Len(m) + 1 \in DOMAIN g
        BY <1>0, <2>3
      <4> QED BY <2>3, <3>1, <4>1
    <3>2. CASE j # n
      <4>1. j \in 1..(n - 1)
        BY <1>0, <3>2
      <4>2. PICK i \in DOMAIN m : NameOf[m[i]] = NameOf[offers[j]]
        BY <4>1 DEF Merges
      <4>3. i \in DOMAIN g /\ g[i] = m[i]
        BY <1>0, <2>3
      <4> QED BY <4>2, <4>3
    <3> QED BY <3>1, <3>2
  <2>8. \A i \in DOMAIN g : g[i] \in ToSet(seen) \cup ToSet(offers)
    <3> SUFFICES ASSUME NEW i \in DOMAIN g PROVE g[i] \in ToSet(seen) \cup ToSet(offers)
      OBVIOUS
    <3>1. CASE i \in DOMAIN m
      BY <1>0, <2>3, <3>1 DEF Merges
    <3>2. CASE i = Len(m) + 1
      BY <1>0, <2>3, <3>2
    <3> QED BY <2>4, <3>1, <3>2
  <2>9. Merges(g, seen, offers, n)
    BY <2>3, <2>5, <2>6, <2>7, <2>8 DEF Merges
  <2> QED BY <2>2, <2>9, Zenon
<1> QED BY <1>1, <1>2

LEMMA MergedMerges ==
  ASSUME NEW seen \in Seq(Token), NEW offers \in Seq(Token), Distinct(seen)
  PROVE  Merges(Merged(seen, offers), seen, offers, Len(offers))
<1>1. PICK f : /\ f[0] = seen
               /\ \A n \in Nat \ {0} : f[n] = Grown(f[n - 1], offers[n])
               /\ Merged(seen, offers) = f[Len(offers)]
  BY MergedUnfolds
<1>2. Len(offers) \in Nat
  OBVIOUS
<1>3. Merges(f[0], seen, offers, 0)
  BY <1>1 DEF Merges, ToSet
<1> DEFINE Bad == {n \in Nat : n <= Len(offers) /\ ~ Merges(f[n], seen, offers, n)}
<1>4. Bad = {}
  <2> SUFFICES ASSUME Bad # {} PROVE FALSE
    OBVIOUS
  <2>1. PICK n \in Bad : \A m \in Bad : n <= m
    BY LeastNumber
  <2>2. n \in Nat \ {0} /\ n \in 1..Len(offers)
    BY <1>2, <1>3
  <2>3. n - 1 \in Nat /\ n - 1 <= Len(offers) /\ n - 1 \notin Bad
    BY <1>2, <2>1, <2>2
  <2>4. Merges(f[n - 1], seen, offers, n - 1)
    BY <2>3
  <2>5. Merges(Grown(f[n - 1], offers[n]), seen, offers, n)
    BY <2>2, <2>4, GrownMerges
  <2>6. f[n] = Grown(f[n - 1], offers[n])
    BY <1>1, <2>2
  <2>7. Merges(f[n], seen, offers, n)
    BY <2>5, <2>6, Zenon
  <2> QED BY <2>7
<1>5. Merges(f[Len(offers)], seen, offers, Len(offers))
  BY <1>2, <1>4
<1> QED BY <1>1, <1>5, Zenon

LEMMA DistinctCount ==
  ASSUME NEW tokens \in Seq(Token), Distinct(tokens)
  PROVE  Len(tokens) = Cardinality(NamesIn(tokens))
<1>1. Len(tokens) \in Nat /\ DOMAIN tokens = 1..Len(tokens)
  OBVIOUS
<1>2. IsFiniteSet(1..Len(tokens)) /\ Cardinality(1..Len(tokens)) = Len(tokens)
  BY <1>1, FS_Interval
<1> DEFINE f == [i \in 1..Len(tokens) |-> NameOf[tokens[i]]]
<1>3. f \in Bijection(1..Len(tokens), NamesIn(tokens))
  BY <1>1 DEF NamesIn, Distinct, Bijection, Injection, IsInjective, Surjection
<1>4. ExistsBijection(1..Len(tokens), NamesIn(tokens))
  BY <1>3 DEF ExistsBijection
<1> QED
  BY <1>2, <1>4, FS_Bijection

(***************************************************************************)
(* An entry of the tracker holds the last header of its session, and the   *)
(* sessions behind it had their turn after its own.  So when an entry is   *)
(* dropped, MaxBetaSessions others have had theirs.                        *)
(***************************************************************************)
BetaEntry == [session : Session, tokens : Seq(Token)]

Listed(q, lastOf, sinceOf) ==
  /\ q \in Seq(BetaEntry)
  /\ \A i, j \in DOMAIN q : q[i].session = q[j].session => i = j
  /\ \A i \in DOMAIN q : q[i].tokens = lastOf[q[i].session]
  /\ \A i, j \in DOMAIN q : i < j => q[j].session \in sinceOf[q[i].session]

RecentIsTracked ==
  \A s \in Session :
    last[s] # << >> /\ Cardinality(since[s]) < MaxBetaSessions => Tracked(s)

BetaInv ==
  /\ last \in [Session -> Seq(Token)] /\ since \in [Session -> SUBSET Session]
  /\ \A s \in Session : IsFiniteSet(since[s]) /\ Distinct(last[s])
  /\ Listed(betas, last, since)
  /\ Len(betas) <= MaxBetaSessions
  /\ RecentIsTracked

LEMMA NoBetas ==
  ASSUME betas = << >>, last = [s \in Session |-> << >>], since = [s \in Session |-> {}]
  PROVE  BetaInv
<1>1. Listed(betas, last, since) /\ Len(betas) = 0
  BY DEF Listed
<1>2. \A s \in Session : last[s] = << >> /\ since[s] = {}
  OBVIOUS
<1>3. \A s \in Session : IsFiniteSet(since[s]) /\ Distinct(last[s])
  BY <1>2, FS_EmptySet DEF Distinct
<1> QED
  BY <1>1, <1>2, <1>3, RequestPipelineAssumption DEF BetaInv, RecentIsTracked

(* The entries of the other sessions, in their order.                      *)
LEMMA OthersKeepOrder ==
  ASSUME BetaInv, NEW s \in Session
  PROVE  \E others \in Seq(BetaEntry) :
           /\ others = IF Tracked(s) THEN RemoveAt(betas, Position(s)) ELSE betas
           /\ Len(others) <= MaxBetaSessions
           /\ \A k \in DOMAIN others : others[k].session # s
           /\ \A k \in DOMAIN others : \E i \in DOMAIN betas : betas[i] = others[k]
           /\ \A j, k \in DOMAIN others : j < k =>
                \E i, l \in DOMAIN betas :
                  i < l /\ betas[i] = others[j] /\ betas[l] = others[k]
           /\ \A i \in DOMAIN betas : betas[i].session # s =>
                \E k \in DOMAIN others : others[k] = betas[i]
<1>0. /\ betas \in Seq(BetaEntry) /\ Len(betas) \in Nat /\ DOMAIN betas = 1..Len(betas)
      /\ Len(betas) <= MaxBetaSessions /\ MaxBetaSessions \in Nat
      /\ \A i, j \in DOMAIN betas : betas[i].session = betas[j].session => i = j
  BY RequestPipelineAssumption DEF BetaInv, Listed
<1>1. CASE ~ Tracked(s)
  BY <1>0, <1>1, Zenon DEF Tracked
<1>2. CASE Tracked(s)
  <2>1. PICK p \in DOMAIN betas : p = Position(s) /\ betas[p].session = s
    BY <1>2 DEF Tracked, Position
  <2>2. PICK n \in Nat : n + 1 = Len(betas) /\ p \in 1..(n + 1)
    <3>1. p \in 1..Len(betas)
      BY <1>0, <2>1
    <3>2. Len(betas) - 1 \in Nat /\ (Len(betas) - 1) + 1 = Len(betas)
      BY <1>0, <3>1
    <3> QED BY <3>1, <3>2
  <2>3. PICK others : others = RemoveAt(betas, p)
    OBVIOUS
  <2>4. /\ others \in Seq(BetaEntry) /\ Len(others) = n /\ DOMAIN others = 1..n
        /\ \A k \in 1..n : others[k] = IF k < p THEN betas[k] ELSE betas[k + 1]
    <3>1. PICK a, b : a = SubSeq(betas, 1, p - 1) /\ b = SubSeq(betas, p + 1, n + 1)
      OBVIOUS
    <3>2. /\ a \in Seq(BetaEntry) /\ Len(a) = p - 1
          /\ \A k \in 1..(p - 1) : a[k] = betas[k]
      BY <1>0, <2>2, <3>1
    <3>3. /\ b \in Seq(BetaEntry) /\ Len(b) = (n + 1) - p
          /\ \A k \in 1..((n + 1) - p) : b[k] = betas[p + k]
      <4>1. p + 1 \in 1..(n + 2) /\ n + 1 \in 0..Len(betas)
        BY <2>2
      <4>2. b \in Seq(BetaEntry)
        <5>1. \A i \in (p + 1)..(n + 1) : i \in 1..Len(betas)
          BY <2>2
        <5> QED BY <1>0, <2>2, <3>1, <4>1, <5>1
      <4>3. Len(b) = (n + 1) - p
        BY <1>0, <2>2, <3>1, <4>1
      <4>4. ASSUME NEW k \in 1..((n + 1) - p) PROVE b[k] = betas[p + k]
        <5>1. (p + 1) + k - 1 = p + k
          BY <2>2
        <5>2. b[k] = betas[(p + 1) + k - 1]
          BY <1>0, <2>2, <3>1, <4>1, <4>3
        <5> QED BY <5>1, <5>2
      <4> QED BY <4>2, <4>3, <4>4
    <3>4. others = a \o b
      BY <2>2, <2>3, <3>1, Zenon DEF RemoveAt
    <3>5. others \in Seq(BetaEntry) /\ Len(others) = n /\ DOMAIN others = 1..n
      <4>0. a \in Seq(BetaEntry) /\ b \in Seq(BetaEntry)
        BY <3>2, <3>3, Zenon
      <4>1. others \in Seq(BetaEntry) /\ Len(others) = Len(a) + Len(b)
        <5>1. a \o b \in Seq(BetaEntry) /\ Len(a \o b) = Len(a) + Len(b)
          BY <4>0
        <5> QED BY <3>4, <5>1, Zenon
      <4>2. Len(others) = n
        BY <2>2, <3>2, <3>3, <4>1
      <4> QED BY <4>1, <4>2
    <3>6. ASSUME NEW k \in 1..n, k < p PROVE others[k] = betas[k]
      BY <2>2, <3>2, <3>3, <3>4, <3>6
    <3>7. ASSUME NEW k \in 1..n, ~(k < p) PROVE others[k] = betas[k + 1]
      <4>1. k - (p - 1) \in 1..((n + 1) - p) /\ p + (k - (p - 1)) = k + 1
        BY <2>2, <3>7
      <4>2. others[k] = b[k - (p - 1)]
        <5>1. k \in 1..(Len(a) + Len(b)) /\ ~(k <= Len(a))
          BY <2>2, <3>2, <3>3, <3>7
        <5>2. others[k] = b[k - Len(a)]
          BY <3>2, <3>3, <3>4, <5>1
        <5> QED BY <3>2, <5>2
      <4> QED BY <3>3, <4>1, <4>2
    <3> QED BY <3>5, <3>6, <3>7
  <2>5. DOMAIN betas = 1..(n + 1)
    BY <1>0, <2>2
  <2>6. \A k \in 1..n : \E i \in 1..(n + 1) : i # p /\ betas[i] = others[k]
    <3> SUFFICES ASSUME NEW k \in 1..n
                 PROVE  \E i \in 1..(n + 1) : i # p /\ betas[i] = others[k]
      OBVIOUS
    <3>1. CASE k < p
      BY <2>2, <2>4, <3>1
    <3>2. CASE ~(k < p)
      <4>1. k + 1 \in 1..(n + 1) /\ k + 1 # p
        BY <2>2, <3>2
      <4> QED BY <2>4, <3>2, <4>1
    <3> QED BY <3>1, <3>2
  <2>7. \A k \in 1..n : others[k].session # s
    BY <1>0, <2>1, <2>5, <2>6
  <2>8. ASSUME NEW j \in 1..n, NEW k \in 1..n, j < k
        PROVE  \E i, l \in 1..(n + 1) :
                 i < l /\ betas[i] = others[j] /\ betas[l] = others[k]
    <3> DEFINE to(x) == IF x < p THEN x ELSE x + 1
    <3>1. to(j) \in 1..(n + 1) /\ to(k) \in 1..(n + 1) /\ to(j) < to(k)
      BY <2>2, <2>8
    <3>2. betas[to(j)] = others[j] /\ betas[to(k)] = others[k]
      BY <2>4
    <3> QED BY <3>1, <3>2
  <2>9. ASSUME NEW i \in 1..(n + 1), betas[i].session # s
        PROVE  \E k \in 1..n : others[k] = betas[i]
    <3>1. i # p
      BY <2>1, <2>9
    <3>2. CASE i < p
      BY <2>2, <2>4, <3>2
    <3>3. CASE p < i
      <4>1. i - 1 \in 1..n /\ ~(i - 1 < p) /\ (i - 1) + 1 = i
        BY <2>2, <3>3
      <4> QED BY <2>4, <4>1
    <3> QED BY <2>2, <3>1, <3>2, <3>3
  <2>10. Len(others) <= MaxBetaSessions
    BY <1>0, <2>2, <2>4
  <2>11. others = IF Tracked(s) THEN RemoveAt(betas, Position(s)) ELSE betas
    BY <1>2, <2>1, <2>3, Zenon
  <2>12. /\ others \in Seq(BetaEntry)
         /\ \A k \in DOMAIN others : others[k].session # s
         /\ \A k \in DOMAIN others : \E i \in DOMAIN betas : betas[i] = others[k]
    BY <2>4, <2>5, <2>6, <2>7
  <2>13. \A j, k \in DOMAIN others : j < k =>
           \E i, l \in DOMAIN betas :
             i < l /\ betas[i] = others[j] /\ betas[l] = others[k]
    <3> SUFFICES ASSUME NEW j \in DOMAIN others, NEW k \in DOMAIN others, j < k
                 PROVE  \E i, l \in DOMAIN betas :
                          i < l /\ betas[i] = others[j] /\ betas[l] = others[k]
      OBVIOUS
    <3>1. j \in 1..n /\ k \in 1..n
      BY <2>4
    <3>2. PICK i \in 1..(n + 1), l \in 1..(n + 1) :
            i < l /\ betas[i] = others[j] /\ betas[l] = others[k]
      BY <2>8, <3>1
    <3>3. i \in DOMAIN betas /\ l \in DOMAIN betas
      BY <2>5
    <3> QED BY <3>2, <3>3, Zenon
  <2>14. \A i \in DOMAIN betas : betas[i].session # s =>
           \E k \in DOMAIN others : others[k] = betas[i]
    BY <2>4, <2>5, <2>9
  <2> QED BY <2>10, <2>11, <2>12, <2>13, <2>14, Zenon
<1> QED BY <1>1, <1>2

(* The session whose turn it is goes to the back of the list.              *)
LEMMA MovedIsListed ==
  ASSUME BetaInv, NEW s \in Session, NEW tokens \in Seq(Token),
         NEW lastOf, lastOf = [last EXCEPT ![s] = tokens],
         NEW sinceOf,
         sinceOf = [x \in Session |-> IF x = s THEN {} ELSE since[x] \cup {s}]
  PROVE  \E grown :
           /\ Listed(grown, lastOf, sinceOf)
           /\ Len(grown) \in 1..(MaxBetaSessions + 1)
           /\ grown[Len(grown)].session = s
           /\ \A x \in Session : Tracked(x) =>
                \E i \in DOMAIN grown : grown[i].session = x
           /\ Touch(s, tokens)
                = IF Len(grown) > MaxBetaSessions THEN Tail(grown) ELSE grown
<1>0. /\ last \in [Session -> Seq(Token)] /\ Listed(betas, last, since)
      /\ MaxBetaSessions \in Nat
  BY RequestPipelineAssumption DEF BetaInv
<1>1. PICK others \in Seq(BetaEntry) :
        /\ others = IF Tracked(s) THEN RemoveAt(betas, Position(s)) ELSE betas
        /\ Len(others) <= MaxBetaSessions
        /\ \A k \in DOMAIN others : others[k].session # s
        /\ \A k \in DOMAIN others : \E i \in DOMAIN betas : betas[i] = others[k]
        /\ \A j, k \in DOMAIN others : j < k =>
             \E i, l \in DOMAIN betas :
               i < l /\ betas[i] = others[j] /\ betas[l] = others[k]
        /\ \A i \in DOMAIN betas : betas[i].session # s =>
             \E k \in DOMAIN others : others[k] = betas[i]
  BY OthersKeepOrder
<1>2. PICK e \in BetaEntry : e = [session |-> s, tokens |-> tokens]
  BY DEF BetaEntry
<1>3. PICK grown : grown = Append(others, e)
  OBVIOUS
<1>4. PICK n \in Nat : /\ n = Len(others) /\ DOMAIN others = 1..n
                       /\ n <= MaxBetaSessions
  BY <1>1
<1>5. /\ grown \in Seq(BetaEntry) /\ Len(grown) = n + 1 /\ DOMAIN grown = 1..(n + 1)
      /\ \A k \in 1..n : grown[k] = others[k]
      /\ grown[n + 1] = e
  BY <1>3, <1>4
<1>6. e.session = s /\ e.tokens = tokens
  BY <1>2
<1>7. \A k \in 1..(n + 1) : k \in 1..n \/ k = n + 1
  OBVIOUS
<1>8. \A k \in 1..n : others[k].session \in Session /\ others[k].session # s
  <2> SUFFICES ASSUME NEW k \in 1..n
               PROVE  others[k].session \in Session /\ others[k].session # s
    OBVIOUS
  <2>1. k \in DOMAIN others /\ others[k] \in BetaEntry
    BY <1>4
  <2> QED BY <1>1, <2>1 DEF BetaEntry
<1>9. ASSUME NEW j \in 1..n, NEW k \in 1..n, j < k
      PROVE  /\ others[j].session # others[k].session
             /\ others[k].session \in since[others[j].session]
  <2>1. PICK i \in DOMAIN betas, l \in DOMAIN betas :
          i < l /\ betas[i] = others[j] /\ betas[l] = others[k]
    <3>1. j \in DOMAIN others /\ k \in DOMAIN others
      BY <1>4
    <3> QED BY <1>1, <1>9, <3>1, Zenon
  <2>2. betas[i].session # betas[l].session
    <3>1. i \in Nat /\ l \in Nat /\ i # l
      BY <1>0, <2>1 DEF Listed
    <3> QED BY <1>0, <3>1 DEF Listed
  <2>3. betas[l].session \in since[betas[i].session]
    BY <1>0, <2>1 DEF Listed
  <2> QED BY <2>1, <2>2, <2>3, Zenon
<1>10. \A i, j \in 1..(n + 1) : grown[i].session = grown[j].session => i = j
  <2> SUFFICES ASSUME NEW i \in 1..(n + 1), NEW j \in 1..(n + 1), i < j
               PROVE  grown[i].session # grown[j].session
    <3>1. \A i, j \in 1..(n + 1) : i < j \/ j < i \/ i = j
      OBVIOUS
    <3> QED BY <3>1
  <2>1. i \in 1..n
    OBVIOUS
  <2>2. CASE j \in 1..n
    BY <1>5, <1>9, <2>1, <2>2
  <2>3. CASE j = n + 1
    BY <1>5, <1>6, <1>8, <2>1, <2>3
  <2> QED BY <1>7, <2>2, <2>3
<1>11. \A i \in 1..(n + 1) : grown[i].tokens = lastOf[grown[i].session]
  <2> SUFFICES ASSUME NEW i \in 1..(n + 1)
               PROVE  grown[i].tokens = lastOf[grown[i].session]
    OBVIOUS
  <2>1. CASE i \in 1..n
    <3>1. PICK l \in DOMAIN betas : betas[l] = others[i]
      BY <1>1, <1>4, <2>1
    <3>2. betas[l].tokens = last[betas[l].session]
      BY <1>0 DEF Listed
    <3>3. others[i].tokens = last[others[i].session]
      BY <3>1, <3>2, Zenon
    <3>4. lastOf[others[i].session] = last[others[i].session]
      BY <1>0, <1>8, <2>1
    <3>5. grown[i] = others[i]
      BY <1>5, <2>1
    <3> QED BY <3>3, <3>4, <3>5, Zenon
  <2>2. CASE i = n + 1
    <3>1. lastOf[s] = tokens
      BY <1>0
    <3> QED BY <1>5, <1>6, <2>2, <3>1, Zenon
  <2> QED BY <1>7, <2>1, <2>2
<1>12. \A i, j \in 1..(n + 1) : i < j => grown[j].session \in sinceOf[grown[i].session]
  <2> SUFFICES ASSUME NEW i \in 1..(n + 1), NEW j \in 1..(n + 1), i < j
               PROVE  grown[j].session \in sinceOf[grown[i].session]
    OBVIOUS
  <2>1. i \in 1..n
    OBVIOUS
  <2>2. PICK x \in Session : x = others[i].session /\ x # s
    BY <1>8, <2>1
  <2>3. grown[i].session = x
    BY <1>5, <2>1, <2>2
  <2>4. sinceOf[x] = since[x] \cup {s}
    BY <2>2
  <2>5. CASE j \in 1..n
    <3>1. others[j].session \in since[others[i].session]
      BY <1>9, <2>1, <2>5
    <3>2. grown[j] = others[j]
      BY <1>5, <2>5
    <3> QED BY <2>2, <2>3, <2>4, <3>1, <3>2
  <2>6. CASE j = n + 1
    <3>1. grown[j].session = s
      BY <1>5, <1>6, <2>6, Zenon
    <3> QED BY <2>3, <2>4, <3>1
  <2> QED BY <1>7, <2>5, <2>6
<1>13. Listed(grown, lastOf, sinceOf)
  BY <1>5, <1>10, <1>11, <1>12 DEF Listed
<1>14. Len(grown) \in 1..(MaxBetaSessions + 1)
  BY <1>0, <1>4, <1>5
<1>15. grown[Len(grown)].session = s
  BY <1>5, <1>6, Zenon
<1>16. ASSUME NEW x \in Session, Tracked(x)
       PROVE  \E i \in DOMAIN grown : grown[i].session = x
  <2>1. PICK i \in DOMAIN betas : betas[i].session = x
    BY <1>16 DEF Tracked
  <2>2. CASE x = s
    <3>1. n + 1 \in DOMAIN grown
      BY <1>5
    <3> QED BY <1>5, <1>6, <2>2, <3>1, Zenon
  <2>3. CASE x # s
    <3>1. PICK k \in DOMAIN others : others[k] = betas[i]
      BY <1>1, <2>1, <2>3
    <3>2. k \in DOMAIN grown /\ grown[k] = others[k]
      BY <1>4, <1>5
    <3> QED BY <2>1, <3>1, <3>2, Zenon
  <2> QED BY <2>2, <2>3
<1>17. Touch(s, tokens) = IF Len(grown) > MaxBetaSessions THEN Tail(grown) ELSE grown
  BY <1>1, <1>2, <1>3, Zenon DEF Touch
<1> QED BY <1>13, <1>14, <1>15, <1>16, <1>17

(* Without its first entry a list is a list.                               *)
LEMMA TailIsListed ==
  ASSUME NEW q, NEW lastOf, NEW sinceOf, Listed(q, lastOf, sinceOf),
         NEW n \in Nat \ {0}, Len(q) = n + 1
  PROVE  /\ Listed(Tail(q), lastOf, sinceOf)
         /\ Len(Tail(q)) = n
         /\ \A i \in 2..(n + 1) : i - 1 \in DOMAIN Tail(q) /\ Tail(q)[i - 1] = q[i]
<1>1. q \in Seq(BetaEntry) /\ DOMAIN q = 1..(n + 1)
  BY DEF Listed
<1>2. PICK t : t = Tail(q)
  OBVIOUS
<1>3. /\ t \in Seq(BetaEntry) /\ Len(t) = n /\ DOMAIN t = 1..n
      /\ \A i \in 1..n : t[i] = q[i + 1]
  BY <1>1, <1>2
<1>4. \A i \in 1..n : i + 1 \in DOMAIN q /\ i \in Nat
  BY <1>1
<1>5. \A i, j \in DOMAIN t : t[i].session = t[j].session => i = j
  <2> SUFFICES ASSUME NEW i \in 1..n, NEW j \in 1..n, t[i].session = t[j].session
               PROVE  i = j
    BY <1>3
  <2>1. q[i + 1].session = q[j + 1].session
    BY <1>3
  <2>2. i + 1 = j + 1
    BY <1>4, <2>1 DEF Listed
  <2> QED BY <2>2
<1>6. \A i \in DOMAIN t : t[i].tokens = lastOf[t[i].session]
  BY <1>3, <1>4, SMTT(30) DEF Listed
<1>7. \A i, j \in DOMAIN t : i < j => t[j].session \in sinceOf[t[i].session]
  <2> SUFFICES ASSUME NEW i \in 1..n, NEW j \in 1..n, i < j
               PROVE  t[j].session \in sinceOf[t[i].session]
    BY <1>3
  <2>1. i + 1 < j + 1
    OBVIOUS
  <2>2. q[j + 1].session \in sinceOf[q[i + 1].session]
    BY <1>4, <2>1 DEF Listed
  <2>3. t[i] = q[i + 1] /\ t[j] = q[j + 1]
    BY <1>3
  <2> QED BY <2>2, <2>3, Zenon
<1>8. Listed(t, lastOf, sinceOf)
  BY <1>3, <1>5, <1>6, <1>7 DEF Listed
<1>9. ASSUME NEW i \in 2..(n + 1) PROVE i - 1 \in DOMAIN t /\ t[i - 1] = q[i]
  <2>1. i - 1 \in 1..n /\ (i - 1) + 1 = i
    OBVIOUS
  <2> QED BY <1>3, <2>1
<1> QED BY <1>2, <1>3, <1>8, <1>9

(* The sessions behind the first of n + 1 entries are n.                   *)
LEMMA BehindTheFirst ==
  ASSUME NEW q, NEW lastOf, NEW sinceOf, Listed(q, lastOf, sinceOf),
         NEW n \in Nat, Len(q) = n + 1, IsFiniteSet(sinceOf[q[1].session])
  PROVE  ~ (Cardinality(sinceOf[q[1].session]) < n)
<1>1. q \in Seq(BetaEntry) /\ DOMAIN q = 1..(n + 1)
  BY DEF Listed
<1> DEFINE B == {q[i].session : i \in 2..(n + 1)}
           f == [i \in 1..n |-> q[i + 1].session]
<1>2. f \in Bijection(1..n, B)
  <2>1. \A i \in 1..n : i + 1 \in 2..(n + 1)
    OBVIOUS
  <2>2. f \in [1..n -> B]
    BY <2>1
  <2>3. ASSUME NEW i \in 1..n, NEW j \in 1..n, f[i] = f[j] PROVE i = j
    <3>1. q[i + 1].session = q[j + 1].session /\ i + 1 \in DOMAIN q /\ j + 1 \in DOMAIN q
      BY <1>1, <2>3
    <3>2. i + 1 = j + 1
      BY <3>1 DEF Listed
    <3> QED BY <3>2
  <2>4. ASSUME NEW s \in B PROVE \E i \in 1..n : f[i] = s
    <3>1. PICK k \in 2..(n + 1) : q[k].session = s
      OBVIOUS
    <3>2. k - 1 \in 1..n /\ (k - 1) + 1 = k
      OBVIOUS
    <3> QED BY <3>1, <3>2
  <2> HIDE DEF f, B
  <2> QED BY <2>2, <2>3, <2>4 DEF Bijection, Injection, IsInjective, Surjection
<1>3. IsFiniteSet(1..n) /\ Cardinality(1..n) = n
  BY FS_Interval
<1>4. Cardinality(B) = n
  <2>1. ExistsBijection(1..n, B)
    BY <1>2 DEF ExistsBijection
  <2> HIDE DEF B
  <2> QED BY <1>3, <2>1, FS_Bijection
<1>5. B \subseteq sinceOf[q[1].session]
  <2>1. \A i \in 2..(n + 1) : 1 < i /\ i \in DOMAIN q /\ 1 \in DOMAIN q
    BY <1>1
  <2> QED BY <2>1 DEF Listed
<1>6. /\ Cardinality(B) <= Cardinality(sinceOf[q[1].session])
      /\ Cardinality(sinceOf[q[1].session]) \in Nat
  <2> HIDE DEF B
  <2> QED BY <1>5, FS_Subset, FS_CardinalityType
<1> QED BY <1>4, <1>6

LEMMA MergeBetasKeeps ==
  ASSUME BetaInv, NEW s \in Session, NEW tokens \in Seq(Token), Distinct(tokens),
         betas' = Touch(s, tokens),
         last' = [last EXCEPT ![s] = tokens],
         since' = [x \in Session |-> IF x = s THEN {} ELSE since[x] \cup {s}]
  PROVE  BetaInv'
<1>0. MaxBetaSessions \in Nat \ {0}
  BY RequestPipelineAssumption
<1>1. /\ last' \in [Session -> Seq(Token)] /\ since' \in [Session -> SUBSET Session]
      /\ last'[s] = tokens
      /\ \A x \in Session \ {s} : last'[x] = last[x] /\ since'[x] = since[x] \cup {s}
      /\ since'[s] = {}
  BY DEF BetaInv
<1>2. ASSUME NEW x \in Session PROVE IsFiniteSet(since'[x]) /\ Distinct(last'[x])
  <2>1. CASE x = s
    BY <1>1, <2>1, FS_EmptySet
  <2>2. CASE x # s
    <3>1. IsFiniteSet(since[x]) /\ Distinct(last[x])
      BY DEF BetaInv
    <3>2. IsFiniteSet(since[x] \cup {s})
      BY <3>1, FS_AddElement
    <3> QED BY <1>1, <2>2, <3>1, <3>2
  <2> QED BY <2>1, <2>2
<1>3. PICK grown :
        /\ Listed(grown, last', since')
        /\ Len(grown) \in 1..(MaxBetaSessions + 1)
        /\ grown[Len(grown)].session = s
        /\ \A x \in Session : Tracked(x) => \E i \in DOMAIN grown : grown[i].session = x
        /\ betas' = IF Len(grown) > MaxBetaSessions THEN Tail(grown) ELSE grown
  <2>1. PICK l, w : l = last' /\ w = since'
    OBVIOUS
  <2>2. l = [last EXCEPT ![s] = tokens]
    BY <2>1, Zenon
  <2>3. w = [x \in Session |-> IF x = s THEN {} ELSE since[x] \cup {s}]
    BY <2>1, Zenon
  <2>4. PICK grown :
          /\ Listed(grown, l, w)
          /\ Len(grown) \in 1..(MaxBetaSessions + 1)
          /\ grown[Len(grown)].session = s
          /\ \A x \in Session : Tracked(x) => \E i \in DOMAIN grown : grown[i].session = x
          /\ Touch(s, tokens) = IF Len(grown) > MaxBetaSessions THEN Tail(grown) ELSE grown
    BY <2>2, <2>3, MovedIsListed
  <2> QED BY <2>1, <2>4, Zenon
<1>4. \A x \in Session : last'[x] # << >> /\ Cardinality(since'[x]) < MaxBetaSessions =>
        \E i \in DOMAIN grown : grown[i].session = x
  <2> SUFFICES ASSUME NEW x \in Session, last'[x] # << >>,
                      Cardinality(since'[x]) < MaxBetaSessions
               PROVE  \E i \in DOMAIN grown : grown[i].session = x
    OBVIOUS
  <2>1. CASE x = s
    <3>1. Len(grown) \in DOMAIN grown
      BY <1>3 DEF Listed
    <3> QED BY <1>3, <2>1, <3>1
  <2>2. CASE x # s
    <3>1. IsFiniteSet(since'[x]) /\ since[x] \subseteq since'[x]
      BY <1>1, <1>2, <2>2
    <3>2. /\ Cardinality(since[x]) \in Nat /\ Cardinality(since'[x]) \in Nat
          /\ Cardinality(since[x]) <= Cardinality(since'[x])
      BY <3>1, FS_Subset, FS_CardinalityType
    <3>3. Cardinality(since[x]) < MaxBetaSessions
      BY <1>0, <3>2
    <3>4. last[x] # << >>
      BY <1>1, <2>2
    <3>5. Tracked(x)
      BY <3>3, <3>4 DEF BetaInv, RecentIsTracked
    <3> QED BY <1>3, <3>5
  <2> QED BY <2>1, <2>2
<1>5. CASE ~(Len(grown) > MaxBetaSessions)
  <2>1. betas' = grown
    BY <1>3, <1>5
  <2>2. Len(betas') <= MaxBetaSessions
    BY <1>0, <1>3, <1>5, <2>1
  <2>3. Listed(betas', last', since')
    BY <1>3, <2>1, Zenon
  <2>4. RecentIsTracked'
    BY <1>4, <2>1 DEF RecentIsTracked, Tracked
  <2> QED BY <1>1, <1>2, <2>2, <2>3, <2>4 DEF BetaInv
<1>6. CASE Len(grown) > MaxBetaSessions
  <2>1. PICK n \in Nat \ {0} : n = MaxBetaSessions
    BY <1>0
  <2>2. betas' = Tail(grown) /\ Len(grown) = n + 1
    BY <1>3, <1>6, <2>1
  <2>3. /\ Listed(betas', last', since') /\ Len(betas') = n
        /\ \A i \in 2..(n + 1) : i - 1 \in DOMAIN betas' /\ betas'[i - 1] = grown[i]
    BY <1>3, <2>2, TailIsListed
  <2>4. RecentIsTracked'
    <3> SUFFICES ASSUME NEW x \in Session, last'[x] # << >>,
                        Cardinality(since'[x]) < MaxBetaSessions
                 PROVE  \E i \in DOMAIN betas' : betas'[i].session = x
      BY DEF RecentIsTracked, Tracked
    <3>1. PICK i \in DOMAIN grown : grown[i].session = x
      BY <1>4
    <3>2. i \in 1..(n + 1)
      BY <1>3, <2>2, <3>1 DEF Listed
    <3>3. i # 1
      <4> SUFFICES ASSUME i = 1 PROVE FALSE
        OBVIOUS
      <4>1. grown[1].session = x
        BY <3>1
      <4>2. IsFiniteSet(since'[grown[1].session])
        BY <1>2, <4>1
      <4>3. ~ (Cardinality(since'[grown[1].session]) < n)
        BY <1>3, <2>2, <4>2, BehindTheFirst
      <4> QED BY <2>1, <4>1, <4>3
    <3>4. i \in 2..(n + 1)
      BY <3>2, <3>3
    <3> QED BY <2>3, <3>1, <3>4
  <2>5. Len(betas') <= MaxBetaSessions
    BY <2>1, <2>3
  <2> QED BY <1>1, <1>2, <2>3, <2>4, <2>5 DEF BetaInv
<1> QED BY <1>5, <1>6

LEMMA StoredIsLast ==
  ASSUME BetaInv, NEW s \in Session
  PROVE  /\ Stored(s) \in Seq(Token) /\ Distinct(Stored(s))
         /\ Stored(s) = last[s] \/ Stored(s) = << >>
         /\ Cardinality(since[s]) < MaxBetaSessions => Stored(s) = last[s]
<1>1. CASE Tracked(s)
  <2>1. PICK p \in DOMAIN betas : p = Position(s) /\ betas[p].session = s
    BY <1>1 DEF Tracked, Position
  <2>2. betas[p].tokens = last[betas[p].session]
    BY DEF BetaInv, Listed
  <2>3. Stored(s) = last[s]
    BY <1>1, <2>1, <2>2, Zenon DEF Stored
  <2> QED BY <2>3 DEF BetaInv
<1>2. CASE ~ Tracked(s)
  <2>1. Stored(s) = << >>
    BY <1>2 DEF Stored
  <2>2. Cardinality(since[s]) < MaxBetaSessions => last[s] = << >>
    BY <1>2 DEF BetaInv, RecentIsTracked
  <2> QED BY <2>1, <2>2 DEF Distinct
<1> QED BY <1>1, <1>2

(* What TokensStick says of one header.                                    *)
LEMMA MergedSticks ==
  ASSUME BetaInv, NEW s \in Session, NEW offers \in Seq(Token),
         NEW tokens, tokens = Merged(Stored(s), offers)
  PROVE  /\ tokens \in Seq(Token) /\ Distinct(tokens)
         /\ Cardinality(since[s]) < MaxBetaSessions => IsPrefix(last[s], tokens)
         /\ NamesIn(offers) \subseteq NamesIn(tokens)
         /\ ToSet(tokens) \subseteq ToSet(last[s]) \cup ToSet(offers)
         /\ Len(tokens) = Cardinality(NamesIn(tokens))
<1>1. PICK seen \in Seq(Token) :
        /\ seen = Stored(s) /\ Distinct(seen)
        /\ seen = last[s] \/ seen = << >>
        /\ Cardinality(since[s]) < MaxBetaSessions => seen = last[s]
  BY StoredIsLast
<1>2. Merges(tokens, seen, offers, Len(offers))
  BY <1>1, MergedMerges
<1>3. tokens \in Seq(Token) /\ Distinct(tokens)
  BY <1>2 DEF Merges
<1>4. IsPrefix(seen, tokens)
  <2>1. /\ Len(seen) \in Nat /\ Len(tokens) \in Nat /\ Len(seen) <= Len(tokens)
        /\ \A i \in 1..Len(seen) : tokens[i] = seen[i]
    BY <1>2, <1>3 DEF Merges
  <2>2. SubSeq(seen, 1, Len(seen)) = SubSeq(tokens, 1, Len(seen))
    BY <1>3, <2>1
  <2> QED BY <2>1, <2>2, Zenon DEF IsPrefix
<1>5. Cardinality(since[s]) < MaxBetaSessions => IsPrefix(last[s], tokens)
  BY <1>1, <1>4, Zenon
<1>6. NamesIn(offers) \subseteq NamesIn(tokens)
  <2> SUFFICES ASSUME NEW j \in DOMAIN offers PROVE NameOf[offers[j]] \in NamesIn(tokens)
    BY DEF NamesIn
  <2>1. PICK i \in DOMAIN tokens : NameOf[tokens[i]] = NameOf[offers[j]]
    BY <1>2 DEF Merges
  <2> QED BY <2>1 DEF NamesIn
<1>7. ToSet(tokens) \subseteq ToSet(last[s]) \cup ToSet(offers)
  <2>1. ToSet(tokens) \subseteq ToSet(seen) \cup ToSet(offers)
    BY <1>2 DEF Merges, ToSet
  <2>2. ToSet(seen) \subseteq ToSet(last[s])
    <3>1. CASE seen = last[s]
      BY <3>1
    <3>2. CASE seen = << >>
      BY <3>2 DEF ToSet
    <3> QED BY <1>1, <3>1, <3>2
  <2> QED BY <2>1, <2>2
<1> QED BY <1>3, <1>5, <1>6, <1>7, DistinctCount

(***************************************************************************)
(* The slots: who is anywhere has a request, and what it holds has a type. *)
(***************************************************************************)
SlotInv ==
  /\ pc \in [Slot -> Places]
  /\ request \in [Slot -> Request \cup {NoRequest}]
  /\ \A r \in Slot : pc[r] = "idle" <=> request[r] = NoRequest
  /\ todo \in [Slot -> SUBSET Hash] /\ stored \in [Slot -> BOOLEAN]
  /\ header \in [Slot -> Seq(Seq(Token))]

LEMMA InitSlotInv == Init => SlotInv /\ BetaInv
<1> SUFFICES ASSUME Init PROVE SlotInv /\ BetaInv
  OBVIOUS
<1>1. BetaInv
  BY NoBetas DEF Init, Started
<1>2. SlotInv
  BY DEF Init, Started, SlotInv, Places
<1> QED BY <1>1, <1>2

(* What is read of a line is among its tokens.                             *)
LEMMA ReadableTokens ==
  ASSUME NEW lines \in Seq(Line), NEW i
  PROVE  /\ Readable(lines, i) \in Seq(Token)
         /\ ToSet(Readable(lines, i)) \subseteq TokensIn(Bare(lines))
         /\ Bare(lines) \in Seq(Seq(Token))
         /\ DOMAIN Bare(lines) = 1..Len(lines) /\ Len(Bare(lines)) = Len(lines)
         /\ \A k \in 1..Len(lines) : Bare(lines)[k] = lines[k].tokens
<1>1. Len(lines) \in Nat /\ DOMAIN lines = 1..Len(lines)
  OBVIOUS
<1>2. ASSUME NEW k \in DOMAIN lines PROVE lines[k].tokens \in Seq(Token)
  <2>1. lines[k] \in Line
    OBVIOUS
  <2> QED BY <2>1 DEF Line
<1>3. Readable(lines, i) \in Seq(Token)
  BY <1>2 DEF Readable
<1>4. PICK bare : bare = Bare(lines)
  OBVIOUS
<1>5. /\ DOMAIN bare = DOMAIN lines
      /\ \A k \in DOMAIN lines : bare[k] = lines[k].tokens
  BY <1>4 DEF Bare
<1>6. bare \in [1..Len(lines) -> Seq(Token)]
  <2>1. bare = [k \in DOMAIN lines |-> lines[k].tokens]
    BY <1>4 DEF Bare
  <2> QED BY <1>1, <1>2, <2>1
<1>7. bare \in Seq(Seq(Token)) /\ Len(bare) = Len(lines)
  BY <1>1, <1>6
<1>8. ToSet(Readable(lines, i)) \subseteq TokensIn(bare)
  <2>1. CASE i \in DOMAIN lines /\ lines[i].readable
    <3>1. Readable(lines, i) = bare[i]
      BY <2>1, <1>5 DEF Readable
    <3> QED BY <3>1, <2>1, <1>5 DEF TokensIn
  <2>2. CASE ~ (i \in DOMAIN lines /\ lines[i].readable)
    BY <2>2 DEF Readable, ToSet
  <2> QED BY <2>1, <2>2
<1> QED BY <1>1, <1>3, <1>4, <1>5, <1>7, <1>8

LEMMA ReplacedLines ==
  ASSUME NEW lines \in Seq(Line), NEW tokens \in Seq(Token)
  PROVE  /\ Replaced(lines, tokens) \in Seq(Line)
         /\ \/ /\ Replaced(lines, tokens) = lines
               /\ tokens = << >> \/ (lines # << >> /\ lines[1].tokens = tokens)
            \/ Replaced(lines, tokens) = <<Plain(tokens)>>
<1>1. Plain(tokens) \in Line /\ Plain(tokens).tokens = tokens
  BY DEF Plain, Line
<1>2. <<Plain(tokens)>> \in Seq(Line)
  BY <1>1
<1> QED BY <1>1, <1>2, Zenon DEF Replaced

(* What is sent on has tokens.                                             *)
LEMMA SentTokens ==
  ASSUME NEW lines \in Seq(Line), NEW route, NEW sent \in SentOn(route, lines)
  PROVE  /\ sent \in Seq(Seq(Token))
         /\ route # "codex" => sent = Bare(lines)
         /\ route = "codex" =>
              \E i \in {1, Len(lines)} : sent = <<WithWebsockets(Readable(lines, i))>>
<1>1. ASSUME NEW i PROVE WithWebsockets(Readable(lines, i)) \in Seq(Token)
  <2>1. PICK tokens \in Seq(Token) : tokens = Readable(lines, i)
    BY ReadableTokens
  <2>2. WithWebsockets(tokens) \in Seq(Token)
    BY RequestPipelineAssumption DEF WithWebsockets
  <2> QED BY <2>1, <2>2
<1>2. CASE route = "codex"
  <2>1. PICK i \in {1, Len(lines)} : sent = <<WithWebsockets(Readable(lines, i))>>
    BY <1>2 DEF SentOn
  <2>2. PICK tokens \in Seq(Token) : tokens = WithWebsockets(Readable(lines, i))
    BY <1>1
  <2>3. sent = <<tokens>>
    BY <2>1, <2>2
  <2>4. sent \in Seq(Seq(Token))
    BY <2>3
  <2> QED BY <1>2, <2>1, <2>4
<1>3. CASE route # "codex"
  <2>1. sent = Bare(lines)
    BY <1>3 DEF SentOn
  <2> QED BY <1>3, <2>1, ReadableTokens
<1> QED BY <1>2, <1>3

LEMMA MergeTokens ==
  ASSUME SlotInv, BetaInv, NEW r \in Slot, MergeBetas(r)
  PROVE  \E q \in Request, tokens \in Seq(Token), sent \in Seq(Seq(Token)) :
           /\ q = request[r] /\ q.session \in Session /\ q.lines \in Seq(Line)
           /\ tokens = Merged(Stored(q.session), Readable(q.lines, 1))
           /\ sent \in SentOn(q.route, Replaced(q.lines, tokens))
           /\ header' = [header EXCEPT ![r] = sent]
           /\ betas' = Touch(q.session, tokens)
           /\ last' = [last EXCEPT ![q.session] = tokens]
           /\ since' = [x \in Session |->
                          IF x = q.session THEN {} ELSE since[x] \cup {q.session}]
<1>1. PICK q \in Request : q = request[r]
  BY DEF SlotInv, MergeBetas
<1>2. q.session \in Session /\ q.lines \in Seq(Line)
  BY RequestPipelineAssumption
<1>3. PICK tokens : tokens = Merged(Stored(q.session), Readable(q.lines, 1))
  OBVIOUS
<1>4. tokens \in Seq(Token)
  <2>1. Readable(q.lines, 1) \in Seq(Token)
    BY <1>2, ReadableTokens
  <2> QED BY <1>2, <1>3, <2>1, MergedSticks
<1>5. PICK sent \in SentOn(q.route, Replaced(q.lines, tokens)) :
        header' = [header EXCEPT ![r] = sent]
  BY <1>1, <1>3, Zenon DEF MergeBetas
<1>6. sent \in Seq(Seq(Token))
  <2>1. Replaced(q.lines, tokens) \in Seq(Line)
    BY <1>2, <1>4, ReplacedLines
  <2> QED BY <2>1, <1>5, SentTokens
<1>7. /\ betas' = Touch(q.session, tokens)
      /\ last' = [last EXCEPT ![q.session] = tokens]
      /\ since' = [x \in Session |->
                     IF x = q.session THEN {} ELSE since[x] \cup {q.session}]
  BY <1>1, <1>3, Zenon DEF MergeBetas
<1> QED BY <1>1, <1>2, <1>3, <1>4, <1>5, <1>6, <1>7, Zenon

LEMMA StepSlotInv ==
  ASSUME SlotInv, BetaInv, NEW r \in Slot, Step(r)
  PROVE  SlotInv' /\ BetaInv'
<1> USE DEF Places
<1>1. ASSUME UNCHANGED betaVars PROVE BetaInv'
  BY <1>1 DEF betaVars, BetaInv, RecentIsTracked, Tracked, Listed
<1>2. ASSUME NEW q \in Request, Arrive(r, q) PROVE SlotInv' /\ BetaInv'
  BY <1>1, <1>2, RequestPipelineAssumption DEF Arrive, GoTo, SlotInv
<1>3. ASSUME NEW json \in BOOLEAN, ReadBody(r, json) PROVE SlotInv' /\ BetaInv'
  <2>1. request[r] \in Request
    BY <1>3 DEF SlotInv, ReadBody
  <2>2. request[r].texts \in SUBSET Hash
    BY <2>1, RequestPipelineAssumption
  <2> QED BY <1>1, <1>3, <2>2 DEF ReadBody, GoTo, SlotInv
<1>4. ASSUME NEW h \in Hash, Put(r, h) \/ Keep(r, h) PROVE SlotInv' /\ BetaInv'
  BY <1>1, <1>4 DEF Put, Keep, GoTo, SlotInv
<1>5. CASE Leave(r) /\ UNCHANGED betaVars
  BY <1>1, <1>5 DEF Leave, GoTo, SlotInv
<1>6. CASE Refuse(r) \/ Answer(r) \/ Disconnect(r) \/ Finish(r)
  BY <1>5, <1>6 DEF Refuse, Answer, Disconnect, Finish
<1>7. CASE MergeBetas(r)
  <2>1. PICK q \in Request, tokens \in Seq(Token), sent \in Seq(Seq(Token)) :
          /\ q = request[r] /\ q.session \in Session /\ q.lines \in Seq(Line)
          /\ tokens = Merged(Stored(q.session), Readable(q.lines, 1))
          /\ sent \in SentOn(q.route, Replaced(q.lines, tokens))
          /\ header' = [header EXCEPT ![r] = sent]
          /\ betas' = Touch(q.session, tokens)
          /\ last' = [last EXCEPT ![q.session] = tokens]
          /\ since' = [x \in Session |->
                         IF x = q.session THEN {} ELSE since[x] \cup {q.session}]
    BY <1>7, MergeTokens
  <2>2. Distinct(tokens)
    <3>1. Readable(q.lines, 1) \in Seq(Token)
      BY <2>1, ReadableTokens
    <3> QED BY <2>1, <3>1, MergedSticks
  <2>3. BetaInv'
    BY <2>1, <2>2, MergeBetasKeeps
  <2>4. SlotInv'
    BY <1>7, <2>1 DEF MergeBetas, GoTo, SlotInv
  <2> QED BY <2>3, <2>4
<1>8. CASE Frame(r)
  <2>1. request[r] \in Request
    BY <1>8 DEF SlotInv, Frame
  <2>2. request[r].texts \in SUBSET Hash
    BY <2>1, RequestPipelineAssumption
  <2> QED BY <1>1, <1>8, <2>2 DEF Frame, GoTo, SlotInv
<1>9. CASE CountRow(r)
  BY <1>1, <1>9 DEF CountRow, GoTo, SlotInv
<1>10. CASE Record(r)
  BY <1>1, <1>10 DEF Record, GoTo, SlotInv
<1> QED
  BY <1>2, <1>3, <1>4, <1>6, <1>7, <1>8, <1>9, <1>10 DEF Step

LEMMA NextSlotInv == SlotInv /\ BetaInv /\ [Next]_vars => SlotInv' /\ BetaInv'
<1> SUFFICES ASSUME SlotInv, BetaInv, [Next]_vars PROVE SlotInv' /\ BetaInv'
  OBVIOUS
<1>1. ASSUME NEW r \in Slot, Step(r) PROVE SlotInv' /\ BetaInv'
  BY <1>1, StepSlotInv
<1>2. CASE UNCHANGED <<slotVars, betaVars>>
  BY <1>2 DEF slotVars, betaVars, SlotInv, BetaInv, RecentIsTracked, Tracked, Listed
<1>3. ASSUME NEW p \in Poller, CountRows(p) \/ StoreCount(p) PROVE SlotInv' /\ BetaInv'
  BY <1>2, <1>3 DEF CountRows, StoreCount
<1>4. ASSUME NEW h \in Hash, CliCompress(h) PROVE SlotInv' /\ BetaInv'
  BY <1>2, <1>4 DEF CliCompress
<1>5. CASE Restart
  <2>1. BetaInv'
    <3>1. /\ betas' = << >> /\ last' = [s \in Session |-> << >>]
          /\ since' = [s \in Session |-> {}]
      BY <1>5 DEF Restart
    <3>2. Listed(betas', last', since') /\ Len(betas') = 0
      BY <3>1 DEF Listed
    <3>3. \A s \in Session : last'[s] = << >> /\ since'[s] = {}
      BY <3>1
    <3>4. \A s \in Session : IsFiniteSet(since'[s]) /\ Distinct(last'[s])
      BY <3>3, FS_EmptySet DEF Distinct
    <3> QED
      BY <3>1, <3>2, <3>3, <3>4, RequestPipelineAssumption DEF BetaInv, RecentIsTracked
  <2>2. SlotInv'
    BY <1>5 DEF Restart, SlotInv, Places
  <2> QED BY <2>1, <2>2
<1>6. CASE UNCHANGED vars
  BY <1>2, <1>6 DEF vars
<1> QED BY <1>1, <1>3, <1>4, <1>5, <1>6 DEF Next

LEMMA SpecSlotInv == Spec => [](SlotInv /\ BetaInv)
BY InitSlotInv, NextSlotInv, PTL DEF Spec

(* Only a merge takes a slot on from "merging".                            *)
LEMMA OnlyMergeMovesOn ==
  ASSUME SlotInv, [Next]_vars, NEW r \in Slot, pc[r] = "merging",
         pc'[r] \in {"compressing", "socket"}
  PROVE  MergeBetas(r)
<1>1. pc'[r] # pc[r]
  OBVIOUS
<1>2. ASSUME NEW x \in Slot, Step(x) PROVE x = r
  <2> SUFFICES ASSUME x # r PROVE pc'[r] = pc[r]
    BY <1>1
  <2>1. (\E p : GoTo(x, p)) \/ pc' = pc
    BY <1>2 DEF Step, Arrive, ReadBody, Put, Keep, Refuse, Answer, MergeBetas, Frame,
                Disconnect, CountRow, Record, Finish, Leave
  <2> QED BY <2>1 DEF GoTo, SlotInv
<1>3. ASSUME Step(r) PROVE MergeBetas(r)
  BY <1>3 DEF Step, Arrive, ReadBody, Put, Keep, Refuse, Answer, Frame,
              Disconnect, CountRow, Record, Finish, Leave, GoTo, SlotInv
<1>4. ~ Restart
  BY DEF Restart
<1>5. /\ ~ UNCHANGED vars
      /\ \A p \in Poller : ~ CountRows(p) /\ ~ StoreCount(p)
      /\ \A h \in Hash : ~ CliCompress(h)
  BY <1>1 DEF vars, slotVars, CountRows, StoreCount, CliCompress
<1> QED BY <1>2, <1>3, <1>4, <1>5 DEF Next

(* Every variable of the pipeline has its type, and the beta tracker stays *)
(* within its limit with one entry for a session (session.rs,              *)
(* sticky_betas; the counters of stats.rs never go below zero).            *)
THEOREM SpecTypeOK == Spec => []TypeOK
<1>1. SlotInv /\ BetaInv /\ GaugeInv /\ BalanceInv => TypeOK
  BY DEF TypeOK, SlotInv, BetaInv, Listed, BetaEntry, GaugeInv, BalanceInv
<1> QED
  BY <1>1, SpecSlotInv, InitGaugeInv, NextGaugeInv, InitBalanceInv, NextBalanceInv, PTL
  DEF Spec

(* The names of the lines sent on, from those of one of them.              *)
LEMMA NamesOfLine ==
  ASSUME NEW sent, NEW i \in DOMAIN sent
  PROVE  /\ NamesIn(sent[i]) \subseteq NamedIn(sent)
         /\ ToSet(sent[i]) \subseteq TokensIn(sent)
<1>1. ToSet(sent[i]) \subseteq TokensIn(sent)
  BY DEF TokensIn
<1>2. \A k \in DOMAIN sent[i] : sent[i][k] \in ToSet(sent[i])
  BY DEF ToSet
<1> QED BY <1>1, <1>2 DEF NamesIn, NamedIn

LEMMA NamesOfOne ==
  ASSUME NEW tokens
  PROVE  NamedIn(<<tokens>>) = NamesIn(tokens) /\ TokensIn(<<tokens>>) = ToSet(tokens)
<1>1. TokensIn(<<tokens>>) = ToSet(tokens)
  BY DEF TokensIn
<1>2. NamedIn(<<tokens>>) = {NameOf[t] : t \in ToSet(tokens)}
  BY <1>1 DEF NamedIn
<1> QED BY <1>1, <1>2 DEF NamesIn, ToSet

LEMMA WebsocketsAdded ==
  ASSUME NEW tokens \in Seq(Token)
  PROVE  /\ NamesIn(tokens) \subseteq NamesIn(WithWebsockets(tokens))
         /\ ToSet(WithWebsockets(tokens)) \subseteq ToSet(tokens) \cup {WebsocketBeta}
<1>1. CASE WithWebsockets(tokens) = tokens
  BY <1>1
<1>2. CASE WithWebsockets(tokens) = Append(tokens, WebsocketBeta)
  <2>1. PICK more : more = Append(tokens, WebsocketBeta)
    OBVIOUS
  <2>2. /\ DOMAIN more = 1..(Len(tokens) + 1) /\ DOMAIN tokens = 1..Len(tokens)
        /\ Len(tokens) \in Nat
        /\ \A k \in 1..Len(tokens) : more[k] = tokens[k]
        /\ more[Len(tokens) + 1] = WebsocketBeta
    BY <2>1, RequestPipelineAssumption
  <2>3. NamesIn(tokens) \subseteq NamesIn(more)
    BY <2>2 DEF NamesIn
  <2>4. ToSet(more) \subseteq ToSet(tokens) \cup {WebsocketBeta}
    BY <2>2 DEF ToSet
  <2> QED BY <1>2, <2>1, <2>3, <2>4
<1> QED BY <1>1, <1>2 DEF WithWebsockets

(* A request with a session goes on with the client's lines or the merge.  *)
LEMMA RequestSticks ==
  ASSUME NEW lines \in Seq(Line), NEW tokens \in Seq(Token), NEW stuck \in Seq(Token),
         IsPrefix(stuck, tokens) \/ stuck = << >>,
         NamesIn(Readable(lines, 1)) \subseteq NamesIn(tokens),
         Len(tokens) = Cardinality(NamesIn(tokens)),
         NEW sent, sent = Bare(Replaced(lines, tokens))
  PROVE  /\ stuck # << >> => IsPrefix(stuck, sent[1])
         /\ \/ sent = Bare(lines)
            \/ Len(sent) = 1 /\ Len(sent[1]) = Cardinality(NamedIn(sent))
         /\ NamesIn(Readable(lines, 1)) \subseteq NamedIn(sent)
         /\ TokensIn(sent) \subseteq ToSet(tokens) \cup TokensIn(Bare(lines))
<1>1. CASE Replaced(lines, tokens) = <<Plain(tokens)>>
  <2>1. sent = <<tokens>>
    BY <1>1 DEF Bare, Plain
  <2>2. NamedIn(sent) = NamesIn(tokens) /\ TokensIn(sent) = ToSet(tokens)
    BY <2>1, NamesOfOne
  <2>3. sent[1] = tokens /\ Len(sent) = 1
    BY <2>1
  <2>4. NamesIn(Readable(lines, 1)) \subseteq NamedIn(sent)
    BY <2>2, Zenon
  <2>5. TokensIn(sent) \subseteq ToSet(tokens) \cup TokensIn(Bare(lines))
    BY <2>2
  <2>6. Len(sent) = 1 /\ Len(sent[1]) = Cardinality(NamedIn(sent))
    BY <2>2, <2>3, Zenon
  <2>7. stuck # << >> => IsPrefix(stuck, sent[1])
    BY <2>3, Zenon
  <2> QED BY <2>4, <2>5, <2>6, <2>7, Zenon
<1>2. CASE /\ Replaced(lines, tokens) = lines
           /\ tokens = << >> \/ (lines # << >> /\ lines[1].tokens = tokens)
  <2>1. sent = Bare(lines)
    BY <1>2, Zenon
  <2>2. CASE tokens = << >>
    <3>0. NamesIn(<< >>) = {}
      BY DEF NamesIn
    <3>1. NamesIn(Readable(lines, 1)) \subseteq {}
      BY <2>2, <3>0, Zenon
    <3>2. stuck = << >>
      <4>1. IsPrefix(stuck, << >>) => stuck = << >>
        BY DEF IsPrefix
      <4> QED BY <4>1, <2>2
    <3> QED BY <2>1, <3>1, <3>2
  <2>3. CASE lines # << >> /\ lines[1].tokens = tokens
    <3>1. 1 \in 1..Len(lines)
      BY <2>3
    <3>2. 1 \in DOMAIN sent /\ sent[1] = tokens
      BY <2>1, <2>3, <3>1, ReadableTokens
    <3>3. NamesIn(tokens) \subseteq NamedIn(sent)
      BY <3>2, NamesOfLine
    <3> QED BY <2>1, <3>2, <3>3
  <2> QED BY <1>2, <2>2, <2>3
<1> QED BY <1>1, <1>2, ReplacedLines

(* A connection goes on with one line of the client's or the merge.        *)
LEMMA ConnectionSticks ==
  ASSUME NEW lines \in Seq(Line), NEW tokens \in Seq(Token),
         NamesIn(Readable(lines, 1)) \subseteq NamesIn(tokens),
         NEW sent \in SentOn("codex", Replaced(lines, tokens))
  PROVE  /\ Len(lines) <= 1 => NamesIn(Readable(lines, 1)) \subseteq NamedIn(sent)
         /\ TokensIn(sent) \subseteq ToSet(tokens) \cup TokensIn(Bare(lines))
                                      \cup {WebsocketBeta}
<1>1. PICK after \in Seq(Line) : after = Replaced(lines, tokens)
  BY ReplacedLines
<1>2. PICK i \in {1, Len(after)} : sent = <<WithWebsockets(Readable(after, i))>>
  BY <1>1, SentTokens
<1>3. PICK kept \in Seq(Token) : kept = Readable(after, i)
  BY ReadableTokens
<1>4. sent = <<WithWebsockets(kept)>>
  BY <1>2, <1>3
<1>5. /\ NamedIn(sent) = NamesIn(WithWebsockets(kept))
      /\ TokensIn(sent) = ToSet(WithWebsockets(kept))
  BY <1>4, NamesOfOne
<1>6. /\ NamesIn(kept) \subseteq NamedIn(sent)
      /\ TokensIn(sent) \subseteq ToSet(kept) \cup {WebsocketBeta}
  BY <1>5, WebsocketsAdded
<1>7. CASE after = <<Plain(tokens)>>
  <2>1. i = 1 /\ 1 \in DOMAIN after /\ after[1] = Plain(tokens)
    BY <1>7
  <2>2. kept = tokens
    BY <1>3, <2>1 DEF Readable, Plain
  <2> QED BY <1>6, <2>2
<1>8. CASE after = lines
  <2>1. ToSet(kept) \subseteq TokensIn(Bare(lines))
    BY <1>3, <1>8, ReadableTokens
  <2>2. ASSUME Len(lines) <= 1 PROVE NamesIn(Readable(lines, 1)) \subseteq NamesIn(kept)
    <3>1. CASE i = 1
      BY <3>1, <1>3, <1>8
    <3>2. CASE i = 0
      <4>1. Len(lines) = 0
        BY <3>2, <1>2, <1>8
      <4>2. Readable(lines, 1) = << >>
        BY <4>1 DEF Readable
      <4> QED BY <4>2 DEF NamesIn
    <3>3. i = 1 \/ i = 0
      BY <2>2, <1>2, <1>8
    <3> QED BY <3>1, <3>2, <3>3
  <2> QED BY <1>6, <2>1, <2>2
<1> QED BY <1>1, <1>7, <1>8, ReplacedLines

(* While fewer than MAX_BETA_SESSIONS other sessions had their turn, a     *)
(* session's next header continues its last merge; the client's lines or   *)
(* one merged line goes on, with the first line in it and nothing that     *)
(* nobody named (session.rs, sticky_betas; proxy.rs, the merge).           *)
THEOREM SpecTokensStick == Spec => TokensStick
<1>1. SlotInv /\ BetaInv /\ [Next]_vars =>
        [\A r \in Slot :
           pc[r] = "merging" /\ pc'[r] \in {"compressing", "socket"} =>
             LET q == request[r]
                 s == q.session
                 came == Bare(q.lines)
                 sent == header'[r]
             IN  /\ q.route # "codex" =>
                      /\ last[s] # << >> /\ Cardinality(since[s]) < MaxBetaSessions
                           => IsPrefix(last[s], sent[1])
                      /\ \/ sent = came
                         \/ Len(sent) = 1 /\ Len(sent[1]) = Cardinality(NamedIn(sent))
                 /\ q.route # "codex" \/ Len(came) <= 1
                      => NamesIn(Readable(q.lines, 1)) \subseteq NamedIn(sent)
                 /\ TokensIn(sent)
                      \subseteq ToSet(last[s]) \cup TokensIn(came) \cup Wanted(q)]_vars
  <2> SUFFICES ASSUME SlotInv, BetaInv, [Next]_vars, NEW r \in Slot,
                      pc[r] = "merging", pc'[r] \in {"compressing", "socket"}
               PROVE  LET q == request[r]
                          s == q.session
                          came == Bare(q.lines)
                          sent == header'[r]
                      IN  /\ q.route # "codex" =>
                               /\ last[s] # << >> /\ Cardinality(since[s]) < MaxBetaSessions
                                    => IsPrefix(last[s], sent[1])
                               /\ \/ sent = came
                                  \/ /\ Len(sent) = 1
                                     /\ Len(sent[1]) = Cardinality(NamedIn(sent))
                          /\ q.route # "codex" \/ Len(came) <= 1
                               => NamesIn(Readable(q.lines, 1)) \subseteq NamedIn(sent)
                          /\ TokensIn(sent)
                               \subseteq ToSet(last[s]) \cup TokensIn(came) \cup Wanted(q)
    BY Zenon
  <2>1. MergeBetas(r)
    BY OnlyMergeMovesOn
  <2>2. PICK q \in Request, tokens \in Seq(Token), sent \in Seq(Seq(Token)) :
          /\ q = request[r] /\ q.session \in Session /\ q.lines \in Seq(Line)
          /\ tokens = Merged(Stored(q.session), Readable(q.lines, 1))
          /\ sent \in SentOn(q.route, Replaced(q.lines, tokens))
          /\ header' = [header EXCEPT ![r] = sent]
    BY <2>1, MergeTokens
  <2>3. header'[r] = sent
    BY <2>2 DEF SlotInv
  <2>4. PICK first \in Seq(Token) : first = Readable(q.lines, 1)
    BY <2>2, ReadableTokens
  <2>5. PICK before \in Seq(Token) : before = last[q.session]
    BY <2>2 DEF BetaInv
  <2>6. /\ Cardinality(since[q.session]) < MaxBetaSessions => IsPrefix(before, tokens)
        /\ NamesIn(first) \subseteq NamesIn(tokens)
        /\ ToSet(tokens) \subseteq ToSet(before) \cup ToSet(first)
        /\ Len(tokens) = Cardinality(NamesIn(tokens))
    <3>1. tokens = Merged(Stored(q.session), first)
      BY <2>2, <2>4, Zenon
    <3> QED BY <2>2, <2>5, <3>1, MergedSticks
  <2>7. ToSet(tokens) \subseteq ToSet(before) \cup TokensIn(Bare(q.lines))
    <3>1. ToSet(first) \subseteq TokensIn(Bare(q.lines))
      BY <2>2, <2>4, ReadableTokens
    <3> QED BY <2>6, <3>1
  <2>8. CASE q.route # "codex"
    <3>1. sent = Bare(Replaced(q.lines, tokens))
      BY <2>2, <2>8, Zenon DEF SentOn
    <3>2. PICK stuck \in Seq(Token) :
            /\ Cardinality(since[q.session]) < MaxBetaSessions => stuck = before
            /\ Cardinality(since[q.session]) < MaxBetaSessions \/ stuck = << >>
      <4>1. CASE Cardinality(since[q.session]) < MaxBetaSessions
        <5> WITNESS before \in Seq(Token)
        <5> QED BY <4>1
      <4>2. CASE ~ (Cardinality(since[q.session]) < MaxBetaSessions)
        <5>1. << >> \in Seq(Token)
          OBVIOUS
        <5> QED BY <4>2, <5>1
      <4> QED BY <4>1, <4>2
    <3>3. IsPrefix(stuck, tokens) \/ stuck = << >>
      BY <2>6, <3>2, Zenon
    <3>4. NamesIn(Readable(q.lines, 1)) \subseteq NamesIn(tokens)
      BY <2>4, <2>6, Zenon
    <3>5. /\ stuck # << >> => IsPrefix(stuck, sent[1])
          /\ \/ sent = Bare(q.lines)
             \/ Len(sent) = 1 /\ Len(sent[1]) = Cardinality(NamedIn(sent))
          /\ NamesIn(Readable(q.lines, 1)) \subseteq NamedIn(sent)
          /\ TokensIn(sent) \subseteq ToSet(tokens) \cup TokensIn(Bare(q.lines))
      <4>1. Len(tokens) = Cardinality(NamesIn(tokens))
        BY <2>6
      <4>2. q.lines \in Seq(Line)
        BY <2>2
      <4> QED BY <3>1, <3>3, <3>4, <4>1, <4>2, RequestSticks, ZenonT(60)
    <3>6. before # << >> /\ Cardinality(since[q.session]) < MaxBetaSessions
            => IsPrefix(before, sent[1])
      BY <3>2, <3>5, Zenon
    <3>7. TokensIn(sent) \subseteq ToSet(before) \cup TokensIn(Bare(q.lines)) \cup Wanted(q)
      BY <2>7, <3>5
    <3> QED BY <2>2, <2>3, <2>5, <2>8, <3>5, <3>6, <3>7, Zenon
  <2>9. CASE q.route = "codex"
    <3>1. NamesIn(Readable(q.lines, 1)) \subseteq NamesIn(tokens)
      BY <2>4, <2>6, Zenon
    <3>2. sent \in SentOn("codex", Replaced(q.lines, tokens))
      BY <2>2, <2>9, Zenon
    <3>3. /\ Len(q.lines) <= 1 => NamesIn(Readable(q.lines, 1)) \subseteq NamedIn(sent)
          /\ TokensIn(sent) \subseteq ToSet(tokens) \cup TokensIn(Bare(q.lines))
                                       \cup {WebsocketBeta}
      BY <2>2, <3>1, <3>2, ConnectionSticks
    <3>4. Len(Bare(q.lines)) = Len(q.lines)
      BY <2>2, ReadableTokens
    <3>5. Wanted(q) = {WebsocketBeta}
      BY <2>9 DEF Wanted
    <3>6. TokensIn(sent) \subseteq ToSet(before) \cup TokensIn(Bare(q.lines)) \cup Wanted(q)
      BY <2>7, <3>3, <3>5
    <3>7. Len(Bare(q.lines)) <= 1 => NamesIn(Readable(q.lines, 1)) \subseteq NamedIn(sent)
      BY <3>3, <3>4
    <3> QED BY <2>2, <2>3, <2>5, <2>9, <3>6, <3>7, Zenon
  <2> QED BY <2>8, <2>9
<1> QED
  BY <1>1, SpecSlotInv, PTL DEF Spec, TokensStick
=============================================================================
