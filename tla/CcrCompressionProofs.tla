------------------------ MODULE CcrCompressionProofs ------------------------
(***************************************************************************)
(* Proofs about CcrCompression, for every set of tasks, texts and request  *)
(* bodies that satisfies CcrAssumption.                                    *)
(***************************************************************************)
EXTENDS CcrCompression, TLAPS

(* A planner only ever names blocks of the request.                        *)
LEMMA PlanInDomain ==
  ASSUME NEW b \in Request
  PROVE  Plan(b) \subseteq DOMAIN b.blocks
<1>1. \A n : PlanMessages(b.blocks, n) \subseteq DOMAIN b.blocks
  BY DEF PlanMessages
<1>2. \A n : PlanResponses(b.blocks, n) \subseteq DOMAIN b.blocks
  BY DEF PlanResponses
<1>3. \A n : PlanChat(b.blocks, n) \subseteq DOMAIN b.blocks
  BY DEF PlanChat
<1>4. b.shape \in Shape
  BY DEF Request
<1> QED BY <1>1, <1>2, <1>3, <1>4 DEF Plan, Shape

(* The strings of a request are well typed.                                *)
LEMMA ContentsType ==
  ASSUME NEW b \in Body
  PROVE  /\ Contents(b) \in [DOMAIN b.blocks -> Content]
         /\ Contents(b) \in Seq(Content)
         /\ DOMAIN Contents(b) = DOMAIN b.blocks
<1>1. b \in Request
  BY CcrAssumption
<1>2. b.blocks \in Seq(Block)
  BY <1>1 DEF Request
<1>3. \A i \in DOMAIN b.blocks : b.blocks[i] \in Block
  BY <1>2
<1>4. \A i \in DOMAIN b.blocks : b.blocks[i].content \in Content
  BY <1>3 DEF Block
<1>5. DOMAIN b.blocks = 1..Len(b.blocks) /\ Len(b.blocks) \in Nat
  BY <1>2
<1> QED BY <1>4, <1>5 DEF Contents

LEMMA MarkerFields ==
  ASSUME NEW h \in Hash
  PROVE  Marker(h).kind = "marker" /\ Marker(h).hash = h
BY DEF Marker

(* A text that passes the gates is not a marker, and quotes none.          *)
LEMMA AdmittedIsPlainText ==
  ASSUME NEW c \in Content, Admitted(c)
  PROVE  /\ c.kind = "text"
         /\ c.text \in Text
         /\ c.text \notin Prefixed
         /\ c = Literal(c.text)
BY DEF Admitted, HasMarker, Content, Literal

(* put keeps every row and makes the text it is given readable.            *)
LEMMA PutType ==
  ASSUME NEW tab \in [Hash -> Text \cup {NoRow}], NEW t \in Text
  PROVE  /\ Put(tab, t) \in [Hash -> Text \cup {NoRow}]
         /\ \A h \in Hash : tab[h] # NoRow => Put(tab, t)[h] = tab[h]
         /\ \A h \in Hash : tab[h] = NoRow /\ Put(tab, t)[h] # NoRow
                              => h = HashOf[t] /\ Put(tab, t)[h] = t
         /\ Put(tab, t)[HashOf[t]] # NoRow
BY CcrAssumption DEF Put

(* After a put, the text is what its hash returns: the row that was there, *)
(* if any, was filed under the hash of its own text.                       *)
LEMMA PutResolves ==
  ASSUME TypeOK, RowsKeyed, NEW t \in Text
  PROVE  /\ Put(table, t)[HashOf[t]] = t
         /\ \A h \in Hash : Put(table, t)[h] # NoRow => HashOf[Put(table, t)[h]] = h
<1>1. table \in [Hash -> Text \cup {NoRow}]
  BY DEF TypeOK
<1>2. HashOf[t] \in Hash
  BY CcrAssumption
<1>3. \A h \in Hash : Put(table, t)[h] # NoRow => HashOf[Put(table, t)[h]] = h
  BY <1>1, PutType DEF RowsKeyed
<1>4. Put(table, t)[HashOf[t]] \in Text
  BY <1>1, <1>2, PutType
<1>5. HashOf[Put(table, t)[HashOf[t]]] = HashOf[t]
  BY <1>1, <1>2, <1>3, PutType
<1> QED BY <1>3, <1>4, <1>5, CcrAssumption

(* A put does not take a stored text away.                                 *)
LEMMA PutKeeps ==
  ASSUME TypeOK, NEW t \in Text, NEW u \in Text, table[HashOf[u]] = u
  PROVE  Put(table, t)[HashOf[u]] = u
<1>1. table \in [Hash -> Text \cup {NoRow}]
  BY DEF TypeOK
<1>2. HashOf[u] \in Hash /\ u # NoRow
  BY CcrAssumption
<1> QED BY <1>1, <1>2, PutType

(* A marker that resolves keeps resolving when the table only grows.       *)
LEMMA GrowthKeepsMarkers ==
  ASSUME TypeOK, NEW t \in Text,
         table' = Put(table, t), UNCHANGED <<request, out>>,
         NEW r \in Task, pc[r] # "idle", NEW i \in DOMAIN out[r], Resolves(r, i)
  PROVE  Resolves(r, i)'
<1>1. request[r] \in Body
  BY DEF TypeOK
<1>2. request[r].blocks[i].content \in Content
  BY <1>1, ContentsType DEF TypeOK, Contents
<1>3. CASE out[r][i] = request[r].blocks[i].content
  BY <1>3 DEF Resolves
<1>4. CASE out[r][i] # request[r].blocks[i].content
  <2> DEFINE b == request[r].blocks[i].content
  <2>1. b.kind = "text" /\ out[r][i] = Marker(HashOf[b.text]) /\ table[HashOf[b.text]] = b.text
    BY <1>4 DEF Resolves
  <2>2. b.text \in Text /\ HashOf[b.text] \in Hash
    BY <1>2, <2>1, CcrAssumption DEF Content
  <2>4. table'[HashOf[b.text]] = b.text
    BY <2>1, <2>2, PutKeeps
  <2> QED BY <2>1, <2>4 DEF Resolves
<1> QED BY <1>3, <1>4

-----------------------------------------------------------------------------
LEMMA InitIInv == Init => IInv
BY CcrAssumption DEF Init, IInv, TypeOK, RowsKeyed, MarkersResolve, PendingUntouched,
   OnlyAdmittedReplaced

LEMMA AcceptIInv ==
  ASSUME IInv, NEW r \in Task, NEW b \in Body, Accept(r, b)
  PROVE  IInv'
<1> USE DEF IInv
<1>1. b \in Request /\ b # NoBody
  BY CcrAssumption
<1>2. Plan(b) \subseteq DOMAIN b.blocks
  BY <1>1, PlanInDomain
<1>3. out'[r] = Contents(b) /\ request'[r] = b /\ todo'[r] = Plan(b) /\ pc'[r] = "compressing"
  BY DEF Accept, TypeOK
<1>4. \A q \in Task \ {r} : /\ out'[q] = out[q] /\ request'[q] = request[q]
                             /\ todo'[q] = todo[q] /\ pc'[q] = pc[q]
  BY DEF Accept, TypeOK
<1>5. TypeOK'
  <2>1. \A q \in Task :
          /\ request'[q] = NoBody <=> pc'[q] = "idle"
          /\ pc'[q] = "idle" => out'[q] = << >>
          /\ pc'[q] # "idle" => out'[q] \in [DOMAIN request'[q].blocks -> Content]
          /\ todo'[q] \subseteq DOMAIN out'[q]
    <3> TAKE q \in Task
    <3>1. CASE q = r
      BY <3>1, <1>1, <1>2, <1>3, ContentsType DEF TypeOK, Accept
    <3>2. CASE q # r
      BY <3>2, <1>4 DEF TypeOK, Accept
    <3> QED BY <3>1, <3>2
  <2>2. Contents(b) \in Seq(Content) /\ Plan(b) \subseteq Nat
    <3>1. DOMAIN b.blocks \subseteq Nat
      BY <1>1 DEF Request
    <3> QED BY <3>1, <1>2, ContentsType
  <2> QED BY <2>1, <2>2 DEF TypeOK, Accept
<1>6. \A i \in DOMAIN Contents(b) : Contents(b)[i] = b.blocks[i].content
  BY DEF Contents
<1>7. MarkersResolve'
  <2> SUFFICES ASSUME NEW q \in Task, pc'[q] # "idle", NEW j \in DOMAIN out'[q]
               PROVE  Resolves(q, j)'
    BY DEF MarkersResolve
  <2>1. CASE q = r
    BY <2>1, <1>3, <1>6 DEF Resolves
  <2>2. CASE q # r
    <3>1. pc[q] # "idle" /\ j \in DOMAIN out[q]
      BY <2>2, <1>4
    <3>2. Resolves(q, j)
      BY <3>1 DEF MarkersResolve
    <3>3. table' = table
      BY DEF Accept
    <3> QED BY <3>2, <3>3, <2>2, <1>4 DEF Resolves
  <2> QED BY <2>1, <2>2
<1>8. PendingUntouched' /\ OnlyAdmittedReplaced'
  BY <1>2, <1>3, <1>4, <1>6, ContentsType, SMTT(30) DEF PendingUntouched, OnlyAdmittedReplaced
<1>9. RowsKeyed'
  BY DEF Accept, RowsKeyed
<1> QED BY <1>5, <1>7, <1>8, <1>9

(* Visiting a slot without touching the body or the table.                 *)
LEMMA VisitOnlyIInv ==
  ASSUME IInv, NEW r \in Task, NEW i \in todo[r], Visit(r, i),
         UNCHANGED <<table, out>>
  PROVE  IInv'
<1>1. todo \in [Task -> SUBSET Nat] /\ todo' = [todo EXCEPT ![r] = @ \ {i}]
  BY DEF IInv, Visit, TypeOK
<1>2. UNCHANGED <<table, pc, request, out, offered>>
  BY DEF Visit
<1>3. todo' \in [Task -> SUBSET Nat] /\ \A q \in Task : todo'[q] \subseteq todo[q]
  BY <1>1
<1>4. TypeOK'
  BY <1>2, <1>3 DEF IInv, TypeOK
<1>5. RowsKeyed'
  BY <1>2 DEF IInv, RowsKeyed
<1>6. MarkersResolve'
  <2> SUFFICES ASSUME NEW q \in Task, pc'[q] # "idle", NEW j \in DOMAIN out'[q]
               PROVE  Resolves(q, j)'
    BY DEF MarkersResolve
  <2>1. Resolves(q, j)
    BY <1>2 DEF IInv, MarkersResolve
  <2> QED BY <1>2, <2>1 DEF Resolves
<1>7. OnlyAdmittedReplaced'
  BY <1>2 DEF IInv, OnlyAdmittedReplaced
<1>8. PendingUntouched'
  BY <1>2, <1>3 DEF IInv, PendingUntouched
<1> QED BY <1>4, <1>5, <1>6, <1>7, <1>8 DEF IInv

LEMMA CompressSlotIInv ==
  ASSUME IInv, NEW r \in Task, NEW i \in todo[r], CompressSlot(r, i)
  PROVE  IInv'
<1> USE DEF IInv
<1> DEFINE c == out[r][i]
<1>1. /\ pc[r] = "compressing" /\ request[r] \in Body
      /\ out[r] \in [DOMAIN request[r].blocks -> Content] /\ i \in DOMAIN out[r]
  BY DEF CompressSlot, Visit, TypeOK
<1>2. c \in Content /\ Admitted(c) /\ c = request[r].blocks[i].content
  BY <1>1 DEF CompressSlot, PendingUntouched
<1>3. c.kind = "text" /\ c.text \in Text /\ HashOf[c.text] \in Hash
  BY <1>2, AdmittedIsPlainText, CcrAssumption
<1>4. table' = Put(table, c.text) /\ UNCHANGED <<pc, request, offered>>
  BY DEF CompressSlot, Visit
<1>5. /\ out'[r] = [out[r] EXCEPT ![i] = Marker(HashOf[c.text])]
      /\ todo'[r] = todo[r] \ {i}
      /\ \A q \in Task \ {r} : out'[q] = out[q] /\ todo'[q] = todo[q]
  BY DEF CompressSlot, Visit, TypeOK
<1>6. Marker(HashOf[c.text]) \in Content
  BY <1>3 DEF Marker, Content
<1>7. out'[r] \in [DOMAIN request[r].blocks -> Content] /\ DOMAIN out'[r] = DOMAIN out[r]
  BY <1>1, <1>5, <1>6
<1>8. /\ table'[HashOf[c.text]] = c.text /\ RowsKeyed'
      /\ table' \in [Hash -> Text \cup {NoRow}]
  BY <1>3, <1>4, PutResolves, PutType DEF TypeOK, RowsKeyed
<1>9. TypeOK'
  <2>1. out' \in [Task -> Seq(Content)] /\ todo' \in [Task -> SUBSET Nat]
    BY <1>1, <1>5, <1>6 DEF TypeOK, CompressSlot, Visit
  <2>2. \A q \in Task :
          /\ request'[q] = NoBody <=> pc'[q] = "idle"
          /\ pc'[q] = "idle" => out'[q] = << >>
          /\ pc'[q] # "idle" => out'[q] \in [DOMAIN request'[q].blocks -> Content]
          /\ todo'[q] \subseteq DOMAIN out'[q]
    BY <1>1, <1>4, <1>5, <1>7 DEF TypeOK
  <2> QED BY <1>4, <1>8, <2>1, <2>2 DEF TypeOK
<1>10. MarkersResolve'
  <2> SUFFICES ASSUME NEW q \in Task, pc'[q] # "idle", NEW j \in DOMAIN out'[q]
               PROVE  Resolves(q, j)'
    BY DEF MarkersResolve
  <2>1. CASE q = r /\ j = i
    BY <2>1, <1>1, <1>2, <1>3, <1>4, <1>5, <1>8 DEF Resolves
  <2>2. CASE ~(q = r /\ j = i)
    <3>1. j \in DOMAIN out[q] /\ out'[q][j] = out[q][j]
      BY <2>2, <1>1, <1>5, <1>7
    <3>2. Resolves(q, j) /\ request[q] \in Body
      BY <3>1, <1>4 DEF MarkersResolve, TypeOK
    <3>3. request[q].blocks[j].content \in Content
      BY <3>1, <3>2, <1>4, ContentsType DEF TypeOK, Contents
    <3> DEFINE d == request[q].blocks[j].content
    <3>4. CASE out[q][j] = d
      BY <3>1, <3>4, <1>4 DEF Resolves
    <3>5. CASE out[q][j] # d
      <4>1. d.kind = "text" /\ out[q][j] = Marker(HashOf[d.text]) /\ table[HashOf[d.text]] = d.text
        BY <3>2, <3>5 DEF Resolves
      <4>2. d.text \in Text /\ HashOf[d.text] \in Hash
        BY <3>3, <4>1, CcrAssumption DEF Content
      <4>4. table'[HashOf[d.text]] = d.text
        BY <4>1, <4>2, <1>3, <1>4, PutKeeps
      <4> QED BY <3>1, <4>1, <4>4, <1>4 DEF Resolves
    <3> QED BY <3>4, <3>5
  <2> QED BY <2>1, <2>2
<1>11. PendingUntouched'
  <2> SUFFICES ASSUME NEW q \in Task, NEW j \in todo'[q]
               PROVE  out'[q][j] = request'[q].blocks[j].content
    BY DEF PendingUntouched
  <2>1. j \in todo[q] /\ j \in DOMAIN out[q] /\ ~(q = r /\ j = i)
    BY <1>5 DEF TypeOK
  <2>2. out'[q][j] = out[q][j]
    BY <2>1, <1>1, <1>5
  <2> QED BY <2>1, <2>2, <1>4 DEF PendingUntouched
<1>12. OnlyAdmittedReplaced'
  <2> SUFFICES ASSUME NEW q \in Task, pc'[q] # "idle", NEW j \in DOMAIN out'[q],
                      out'[q][j] # request'[q].blocks[j].content
               PROVE  Admitted(request'[q].blocks[j].content)
    BY DEF OnlyAdmittedReplaced
  <2>1. CASE q = r /\ j = i
    BY <2>1, <1>2, <1>4
  <2>2. CASE ~(q = r /\ j = i)
    BY <2>2, <1>1, <1>4, <1>5, <1>7 DEF OnlyAdmittedReplaced
  <2> QED BY <2>1, <2>2
<1> QED BY <1>8, <1>9, <1>10, <1>11, <1>12

LEMMA ForwardIInv ==
  ASSUME IInv, NEW r \in Task, Forward(r)
  PROVE  IInv'
BY DEF IInv, Forward, TypeOK, RowsKeyed, MarkersResolve, Resolves, PendingUntouched,
   OnlyAdmittedReplaced

LEMMA CliCompressIInv ==
  ASSUME IInv, NEW t \in CliInput, CliCompress(t)
  PROVE  IInv'
<1> USE DEF IInv
<1>1. t \in Text
  BY CcrAssumption
<1>2. UNCHANGED <<pc, request, todo, out, offered>> /\ table' = Put(table, t)
  BY DEF CliCompress
<1>3. TypeOK' /\ RowsKeyed'
  BY <1>1, <1>2, PutType, PutResolves DEF TypeOK, RowsKeyed
<1>4. MarkersResolve'
  BY <1>1, <1>2, GrowthKeepsMarkers DEF MarkersResolve
<1>5. PendingUntouched' /\ OnlyAdmittedReplaced'
  BY <1>2 DEF PendingUntouched, OnlyAdmittedReplaced
<1> QED BY <1>3, <1>4, <1>5

LEMMA CrashIInv ==
  ASSUME IInv, Crash
  PROVE  IInv'
<1> USE DEF IInv
<1>1. UNCHANGED <<table, request, out, offered>>
  BY DEF Crash
<1>2. /\ pc' \in [Task -> {"idle", "compressing", "sent", "lost"}]
      /\ \A r \in Task : pc'[r] = "idle" <=> pc[r] = "idle"
      /\ todo' = [r \in Task |-> {}]
  BY DEF Crash, TypeOK
<1>3. TypeOK'
  BY <1>1, <1>2 DEF TypeOK
<1>4. RowsKeyed'
  BY <1>1 DEF RowsKeyed
<1>5. MarkersResolve'
  BY <1>1, <1>2 DEF MarkersResolve, Resolves
<1>6. PendingUntouched'
  BY <1>2 DEF PendingUntouched
<1>7. OnlyAdmittedReplaced'
  BY <1>1, <1>2 DEF OnlyAdmittedReplaced
<1> QED BY <1>3, <1>4, <1>5, <1>6, <1>7

LEMMA NextIInv == IInv /\ [Next]_vars => IInv'
<1> SUFFICES ASSUME IInv, [Next]_vars PROVE IInv'
  OBVIOUS
<1>1. ASSUME NEW r \in Task, NEW b \in Body, Accept(r, b) PROVE IInv'
  BY <1>1, AcceptIInv
<1>2. ASSUME NEW r \in Task, NEW i \in todo[r], SkipSlot(r, i) PROVE IInv'
  BY <1>2, VisitOnlyIInv DEF SkipSlot
<1>3. ASSUME NEW r \in Task, NEW i \in todo[r], CompressSlot(r, i) PROVE IInv'
  BY <1>3, CompressSlotIInv
<1>4. ASSUME NEW r \in Task, NEW i \in todo[r], PutFails(r, i) PROVE IInv'
  BY <1>4, VisitOnlyIInv DEF PutFails
<1>5. ASSUME NEW r \in Task, Forward(r) PROVE IInv'
  BY <1>5, ForwardIInv
<1>6. ASSUME NEW t \in CliInput, CliCompress(t) PROVE IInv'
  BY <1>6, CliCompressIInv
<1>7. CASE Crash
  BY <1>7, CrashIInv
<1>8. CASE UNCHANGED vars
  BY <1>8 DEF vars, IInv, TypeOK, RowsKeyed, MarkersResolve, Resolves, PendingUntouched,
     OnlyAdmittedReplaced
<1> QED BY <1>1, <1>2, <1>3, <1>4, <1>5, <1>6, <1>7, <1>8 DEF Next, Step

(* Every reachable state satisfies the inductive invariant.                *)
THEOREM SpecIInv == Spec => []IInv
BY InitIInv, NextIInv, PTL DEF Spec

(* The state of the store and of every request task keeps its type.        *)
THEOREM SpecTypeOK == Spec => []TypeOK
<1>1. IInv => TypeOK
  BY DEF IInv
<1> QED BY <1>1, SpecIInv, PTL

(* Every marker the proxy ever wrote resolves to the text it replaced,     *)
(* through crashes, failed puts and inserts of other processes.            *)
THEOREM SpecMarkersResolve == Spec => []MarkersResolve
<1>1. IInv => MarkersResolve
  BY DEF IInv
<1> QED BY <1>1, SpecIInv, PTL

(* A row, once written, is never changed or removed.                       *)
THEOREM SpecRowsAreForever == Spec => RowsAreForever
<1> DEFINE Kept == \A h \in Hash : table[h] # NoRow => table'[h] = table[h]
<1>1. ASSUME IInv, [Next]_vars PROVE Kept \/ UNCHANGED vars
  <2>1. table \in [Hash -> Text \cup {NoRow}]
    BY <1>1 DEF IInv, TypeOK
  <2>2. ASSUME NEW r \in Task, NEW i \in todo[r], CompressSlot(r, i) PROVE Kept
    <3>1. /\ pc[r] = "compressing" /\ request[r] \in Body
          /\ out[r] \in [DOMAIN request[r].blocks -> Content] /\ i \in DOMAIN out[r]
      BY <1>1, <2>2 DEF IInv, CompressSlot, Visit, TypeOK
    <3>2. out[r][i] \in Content /\ Admitted(out[r][i])
      BY <3>1, <2>2 DEF CompressSlot
    <3>3. out[r][i].text \in Text
      BY <3>2, AdmittedIsPlainText
    <3> QED BY <2>1, <2>2, <3>3, PutType DEF CompressSlot
  <2>3. ASSUME NEW t \in CliInput, CliCompress(t) PROVE Kept
    <3>1. t \in Text
      BY CcrAssumption
    <3> QED BY <2>1, <2>3, <3>1, PutType DEF CliCompress
  <2>4. ASSUME NEW r \in Task,
               \/ \E b \in Body : Accept(r, b)
               \/ \E i \in todo[r] : SkipSlot(r, i) \/ PutFails(r, i)
               \/ Forward(r)
        PROVE  Kept
    BY <2>4 DEF Accept, SkipSlot, PutFails, Forward
  <2>5. CASE Crash
    BY <2>5 DEF Crash
  <2> QED BY <1>1, <2>2, <2>3, <2>4, <2>5 DEF Next, Step
<1>2. IInv /\ [Next]_vars => [Kept]_vars
  BY <1>1
<1> QED BY <1>2, SpecIInv, PTL DEF Spec, RowsAreForever

(* One pass of decompress_text over a forwarded body gives what it gives   *)
(* on the body the client sent.                                            *)
THEOREM SpecOnePassRestores == Spec => []OnePassRestores
<1>1. ASSUME IInv PROVE OnePassRestores
  <2> SUFFICES ASSUME NEW r \in Task, pc[r] = "sent", NEW i \in DOMAIN out[r]
               PROVE  Expand(out[r][i]) = Expand(request[r].blocks[i].content)
    BY DEF OnePassRestores
  <2> DEFINE c == request[r].blocks[i].content
  <2>1. /\ request[r] \in Body /\ DOMAIN out[r] = DOMAIN request[r].blocks
        /\ Resolves(r, i) /\ (out[r][i] # c => Admitted(c))
    BY <1>1 DEF IInv, TypeOK, MarkersResolve, OnlyAdmittedReplaced
  <2>2. c \in Content
    BY <2>1, ContentsType DEF Contents
  <2>3. CASE out[r][i] = c
    BY <2>3
  <2>4. CASE out[r][i] # c
    <3>1. /\ c.kind = "text" /\ c.text \in Text /\ c.text \notin Prefixed
      BY <2>1, <2>2, <2>4, AdmittedIsPlainText
    <3>2. out[r][i] = Marker(HashOf[c.text]) /\ table[HashOf[c.text]] = c.text
      BY <2>1, <2>4 DEF Resolves
    <3>3. Embeds[c.text] = {} /\ c.text # NoRow
      BY <3>1, CcrAssumption
    <3>4. Expand(out[r][i]) = Filled(c.text, [h \in {} |-> NoRow])
      <4>0. HashOf[c.text] \in Hash
        BY <3>1, CcrAssumption
      <4>1. out[r][i].kind = "marker" /\ table[out[r][i].hash] = c.text
        BY <3>2, <4>0, MarkerFields
      <4>2. Expand(out[r][i]) = Filled(c.text, [h \in Embeds[c.text] |-> NoRow])
        BY <4>1, <3>3 DEF Expand
      <4> QED BY <4>2, <3>3
    <3>5. Expand(c) = Filled(c.text, [h \in {} |-> table[h]])
      BY <3>1, <3>3 DEF Expand
    <3>6. [h \in {} |-> NoRow] = [h \in {} |-> table[h]]
      OBVIOUS
    <3> QED BY <3>4, <3>5, <3>6
  <2> QED BY <2>3, <2>4
<1> QED BY <1>1, SpecIInv, PTL

-----------------------------------------------------------------------------
(* The inductive invariant makes every request recoverable.                *)
LEMMA IInvRecoverable == IInv => Recoverable
<1> SUFFICES ASSUME IInv, NEW r \in Task, pc[r] # "idle"
             PROVE  Restored(r) = Contents(request[r])
  BY DEF Recoverable
<1>1. /\ request[r] \in Body
      /\ DOMAIN out[r] = DOMAIN request[r].blocks
  BY DEF IInv, TypeOK
<1>2. ASSUME NEW i \in DOMAIN out[r], out[r][i] # request[r].blocks[i].content
      PROVE  Literal(table[out[r][i].hash]) = request[r].blocks[i].content
  <2> DEFINE c == request[r].blocks[i].content
  <2>1. c \in Content /\ Admitted(c) /\ Resolves(r, i)
    BY <1>1, <1>2, ContentsType DEF IInv, MarkersResolve, OnlyAdmittedReplaced, Contents
  <2>2. c = Literal(c.text)
    BY <2>1, AdmittedIsPlainText
  <2>3. c.text \in Text /\ out[r][i] = Marker(HashOf[c.text]) /\ table[HashOf[c.text]] = c.text
    BY <2>1, <1>2, AdmittedIsPlainText DEF Resolves
  <2>4. out[r][i].hash = HashOf[c.text]
    BY <2>3, MarkerFields, CcrAssumption
  <2> QED BY <2>2, <2>3, <2>4
<1> QED BY <1>1, <1>2 DEF Restored, Contents

(* Compression implements the lossless relay: a request, once read back    *)
(* through the store, arrives exactly as it was sent, once, or dies with   *)
(* the proxy.                                                              *)
THEOREM SpecRelay == Spec => RelaySpec
<1> USE DEF Relay!vars
<1> DEFINE status == [r \in Task |-> IF pc[r] = "compressing" THEN "accepted" ELSE pc[r]]
<1>1. Init => Relay!Init
  BY DEF Init, Relay!Init, Delivered
<1>2. ASSUME IInv, IInv', [Next]_vars PROVE [Relay!Next]_(Relay!vars)
  <2> USE <1>2
  <2>0. Recoverable /\ Recoverable'
    <3>1. IInv' => Recoverable'
      BY IInvRecoverable, PTL
    <3> QED BY <3>1, IInvRecoverable
  <2>1. ASSUME NEW r \in Task, NEW b \in Body, Accept(r, b)
        PROVE  Relay!Next
    <3>1. status' = [status EXCEPT ![r] = "accepted"] /\ status[r] = "idle"
      BY <2>1 DEF Accept, IInv, TypeOK
    <3>2. Delivered' = Delivered
      <4>1. \A q \in Task : pc'[q] = "sent" <=> pc[q] = "sent"
        BY <2>1 DEF Accept, IInv, TypeOK
      <4>2. \A q \in Task : pc[q] = "sent" => Restored(q)' = Restored(q)
        BY <2>1 DEF Accept, IInv, TypeOK, Restored
      <4> QED BY <4>1, <4>2 DEF Delivered
    <3>3. Relay!Accept(r, b)
      BY <3>1, <3>2, <2>1 DEF Relay!Accept, Accept
    <3> QED BY <3>3 DEF Relay!Next
  <2>2. ASSUME NEW r \in Task, Forward(r)
        PROVE  Relay!Next
    <3>1. status' = [status EXCEPT ![r] = "sent"] /\ status[r] = "accepted"
      BY <2>2 DEF Forward, IInv, TypeOK
    <3>2. Restored(r)' = Contents(request[r]) /\ pc'[r] = "sent"
      <4>1. Restored(r)' = Restored(r) /\ pc[r] # "idle"
        BY <2>2 DEF Forward, Restored
      <4> QED BY <4>1, <2>0, <2>2 DEF Forward, IInv, TypeOK, Recoverable
    <3>3. \A q \in Task \ {r} : pc'[q] = pc[q] /\ Restored(q)' = Restored(q)
      BY <2>2 DEF Forward, IInv, TypeOK, Restored
    <3>4. Delivered' = [Delivered EXCEPT ![r] = Contents(request[r])]
      BY <3>2, <3>3 DEF Delivered
    <3>5. Relay!Deliver(r)
      BY <3>1, <3>4, <2>2 DEF Relay!Deliver, Forward
    <3> QED BY <3>5 DEF Relay!Next
  <2>3. CASE Crash
    <3>1. status' = [r \in Task |-> IF status[r] = "accepted" THEN "lost" ELSE status[r]]
      BY <2>3 DEF Crash, IInv, TypeOK
    <3>2. Delivered' = Delivered
      <4>1. \A q \in Task : pc'[q] = "sent" <=> pc[q] = "sent"
        BY <2>3 DEF Crash
      <4>2. \A q \in Task : Restored(q)' = Restored(q)
        BY <2>3 DEF Crash, Restored
      <4> QED BY <4>1, <4>2 DEF Delivered
    <3> QED BY <3>1, <3>2, <2>3 DEF Relay!Next, Relay!LoseAccepted, Crash
  <2>4. ASSUME UNCHANGED <<pc, request>>
        PROVE  UNCHANGED Relay!vars
    <3>1. \A q \in Task : pc[q] = "sent" => Restored(q)' = Restored(q)
      BY <2>0, <2>4 DEF Recoverable
    <3> QED BY <3>1, <2>4 DEF Delivered
  <2>5. ASSUME NEW r \in Task, NEW i \in todo[r],
               SkipSlot(r, i) \/ CompressSlot(r, i) \/ PutFails(r, i)
        PROVE  UNCHANGED <<pc, request>>
    BY <2>5 DEF SkipSlot, CompressSlot, PutFails, Visit
  <2>6. ASSUME NEW t \in CliInput, CliCompress(t)
        PROVE  UNCHANGED <<pc, request>>
    BY <2>6 DEF CliCompress
  <2>7. CASE UNCHANGED vars
    BY <2>7, <2>4 DEF vars
  <2> QED BY <2>1, <2>2, <2>3, <2>4, <2>5, <2>6, <2>7 DEF Next, Step
<1>3. IInv /\ IInv' /\ [Next]_vars => [Relay!Next]_(Relay!vars)
  BY <1>2
<1> QED BY <1>1, <1>3, SpecIInv, PTL DEF Spec, RelaySpec, Relay!Spec

-----------------------------------------------------------------------------
(* What is left alone, and what is owed to a model that sees a marker.     *)

(* Only planned slots are ever replaced.                                   *)
OnlyPlanned ==
  \A r \in Task : pc[r] # "idle" => Compressed(r) \cup todo[r] \subseteq Plan(request[r])

(* What was offered is what the forwarded body calls for.                  *)
OfferedAsWanted ==
  \A r \in Task : pc[r] = "sent" =>
    \A q \in Req :
      \/ request[r].tools[q] = "retrieve"
      \/ request[r].tools[q] = "appendable" /\ WantsTool(r, q)
      => q \in offered[r]

PolicyInv == OnlyPlanned /\ OfferedAsWanted

(* The blocks of a request are blocks.                                     *)
LEMMA BlocksType ==
  ASSUME NEW b \in Request, NEW i \in DOMAIN b.blocks
  PROVE  b.blocks[i] \in Block
<1>1. b.blocks \in Seq(Block)
  BY DEF Request
<1> QED BY <1>1

(* No planner names a block of the hot zone.                               *)
LEMMA PlanAvoidsHotZone ==
  ASSUME NEW b \in Request, NEW i \in Plan(b)
  PROVE  ~HotZone(b, i)
<1> DEFINE k == b.blocks[i]
<1>1. i \in DOMAIN b.blocks
  BY PlanInDomain
<1>2. k \in Block /\ k.msg \in Nat /\ b.floor \in Nat
  BY <1>1, BlocksType DEF Request, Block
<1>3. b.shape \in Shape
  BY DEF Request
<1>4. CASE b.shape = "chat"
  <2>1. i \in PlanChat(b.blocks, b.floor)
    BY <1>4 DEF Plan
  <2>2. /\ AtOrAboveFloor(k, b.floor)
        /\ \/ k.type = "tool_result"
           \/ k.type = "text" /\ k.role = "user" /\ CompressUserText
    BY <2>1 DEF PlanChat
  <2> QED BY <1>2, <1>4, <2>2 DEF HotZone, AtOrAboveFloor
<1>5. CASE b.shape = "responses"
  <2>1. AtOrAboveFloor(k, ItemFloor(b)) /\ k.type = "tool_result"
    BY <1>5 DEF Plan, PlanResponses
  <2>2. ~(k.msg + (IF b.instructions THEN 1 ELSE 0) < b.floor)
    BY <1>2, <2>1 DEF AtOrAboveFloor, ItemFloor
  <2> QED BY <1>5, <2>1, <2>2 DEF HotZone
<1>6. ASSUME NEW n \in Nat, i \in PlanMessages(b.blocks, n)
      PROVE  /\ ~(k.msg < n)
             /\ ~BeforeBreakpoint(b.blocks, i)
             /\ \/ k.type = "tool_result"
                \/ k.type = "text" /\ k.role = "user" /\ CompressUserText
  BY <1>2, <1>6 DEF PlanMessages, AtOrAboveFloor
<1>7. CASE b.shape = "messages"
  <2>1. i \in PlanMessages(b.blocks, b.floor)
    BY <1>7 DEF Plan
  <2> QED BY <1>2, <1>6, <1>7, <2>1 DEF HotZone
<1>8. CASE b.shape = "batch"
  <2>1. i \in PlanMessages(b.blocks, 0)
    BY <1>8 DEF Plan
  <2> QED BY <1>6, <1>8, <2>1 DEF HotZone
<1> QED BY <1>3, <1>4, <1>5, <1>7, <1>8 DEF Shape

(* The OpenAI planners name no output of a retrieval.                      *)
LEMMA OpenAiPlanAvoidsRetrievals ==
  ASSUME NEW b \in Request, b.shape \in {"chat", "responses"}, NEW i \in Plan(b)
  PROVE  ~RetrievalOutput(b, i)
<1>1. CASE b.shape = "chat"
  <2>1. i \in PlanChat(b.blocks, b.floor)
    BY <1>1 DEF Plan
  <2>2. \/ b.blocks[i].call \notin RetrieveCalls(b.blocks)
        \/ b.blocks[i].type = "text"
    BY <2>1 DEF PlanChat
  <2> QED BY <2>2 DEF RetrievalOutput
<1>2. CASE b.shape = "responses"
  BY <1>2 DEF Plan, PlanResponses, RetrievalOutput
<1> QED BY <1>1, <1>2

-----------------------------------------------------------------------------
LEMMA InitPolicy == Init => PolicyInv
BY DEF Init, PolicyInv, OnlyPlanned, OfferedAsWanted

LEMMA AcceptPolicy ==
  ASSUME IInv, PolicyInv, NEW r \in Task, NEW b \in Body, Accept(r, b)
  PROVE  PolicyInv'
<1>1. /\ out'[r] = Contents(b) /\ request'[r] = b /\ todo'[r] = Plan(b)
      /\ pc'[r] = "compressing" /\ offered' = offered
  BY DEF Accept, IInv, TypeOK
<1>2. \A q \in Task \ {r} : /\ out'[q] = out[q] /\ request'[q] = request[q]
                             /\ todo'[q] = todo[q] /\ pc'[q] = pc[q]
  BY DEF Accept, IInv, TypeOK
<1>3. Compressed(r)' = {}
  BY <1>1 DEF Compressed, Contents
<1>4. \A q \in Task \ {r} : Compressed(q)' = Compressed(q)
  BY <1>2 DEF Compressed
<1>5. \A q \in Task \ {r} : \A p \in Req : WantsTool(q, p)' <=> WantsTool(q, p)
  BY <1>2, <1>4 DEF WantsTool
<1>6. OnlyPlanned'
  BY <1>1, <1>2, <1>3, <1>4 DEF PolicyInv, OnlyPlanned
<1>7. OfferedAsWanted'
  BY <1>1, <1>2, <1>5 DEF PolicyInv, OfferedAsWanted
<1> QED BY <1>6, <1>7 DEF PolicyInv

(* A slot is visited: at most the block of the slot is replaced.           *)
LEMMA VisitPolicy ==
  ASSUME IInv, PolicyInv, NEW r \in Task, NEW i \in todo[r], Visit(r, i),
         NEW c, out' = [out EXCEPT ![r][i] = c] \/ out' = out
  PROVE  PolicyInv'
<1>1. /\ UNCHANGED <<pc, request, offered>> /\ pc[r] = "compressing"
      /\ todo'[r] = todo[r] \ {i}
      /\ \A q \in Task \ {r} : todo'[q] = todo[q] /\ out'[q] = out[q]
  BY DEF Visit, IInv, TypeOK
<1>2. \A q \in Task \ {r} : Compressed(q)' = Compressed(q)
  BY <1>1 DEF Compressed
<1>3. /\ DOMAIN out'[r] = DOMAIN out[r]
      /\ \A j \in DOMAIN out[r] : j # i => out'[r][j] = out[r][j]
  BY DEF IInv, TypeOK
<1>4. Compressed(r)' \subseteq Compressed(r) \cup {i}
  BY <1>1, <1>3 DEF Compressed
<1>5. OnlyPlanned'
  BY <1>1, <1>2, <1>4 DEF PolicyInv, OnlyPlanned
<1>6. \A q \in Task \ {r} : \A p \in Req : WantsTool(q, p)' <=> WantsTool(q, p)
  BY <1>1, <1>2 DEF WantsTool
<1>7. OfferedAsWanted'
  BY <1>1, <1>6 DEF PolicyInv, OfferedAsWanted
<1> QED BY <1>5, <1>7 DEF PolicyInv

LEMMA ForwardPolicy ==
  ASSUME IInv, PolicyInv, NEW r \in Task, Forward(r)
  PROVE  PolicyInv'
<1>1. UNCHANGED <<table, request, todo, out>> /\ pc[r] = "compressing"
  BY DEF Forward
<1>2. \A q \in Task : /\ Compressed(q)' = Compressed(q)
                      /\ \A p \in Req : WantsTool(q, p)' <=> WantsTool(q, p)
  BY <1>1 DEF Compressed, WantsTool
<1>3. /\ \A q \in Task \ {r} : pc'[q] = pc[q] /\ offered'[q] = offered[q]
      /\ offered'[r] = {q \in Req :
           \/ request[r].tools[q] = "retrieve"
           \/ request[r].tools[q] = "appendable" /\ WantsTool(r, q)}
  BY DEF Forward, IInv, TypeOK
<1>4. OnlyPlanned'
  BY <1>1, <1>2, <1>3 DEF PolicyInv, OnlyPlanned
<1>5. OfferedAsWanted'
  BY <1>1, <1>2, <1>3 DEF PolicyInv, OfferedAsWanted
<1> QED BY <1>4, <1>5 DEF PolicyInv

(* Steps that leave the requests alone, or lose some.                      *)
LEMMA LosePolicy ==
  ASSUME PolicyInv, UNCHANGED <<request, out, offered>>,
         \A r \in Task : todo'[r] \subseteq todo[r],
         \A r \in Task : pc'[r] = pc[r] \/ (pc[r] # "idle" /\ pc'[r] = "lost")
  PROVE  PolicyInv'
<1>1. \A q \in Task : /\ Compressed(q)' = Compressed(q)
                      /\ \A p \in Req : WantsTool(q, p)' <=> WantsTool(q, p)
  BY DEF Compressed, WantsTool
<1>2. OnlyPlanned'
  BY <1>1 DEF PolicyInv, OnlyPlanned
<1>3. OfferedAsWanted'
  BY <1>1 DEF PolicyInv, OfferedAsWanted
<1> QED BY <1>2, <1>3 DEF PolicyInv

LEMMA NextPolicy == IInv /\ PolicyInv /\ [Next]_vars => PolicyInv'
<1> SUFFICES ASSUME IInv, PolicyInv, [Next]_vars PROVE PolicyInv'
  OBVIOUS
<1>1. ASSUME NEW r \in Task, NEW b \in Body, Accept(r, b) PROVE PolicyInv'
  BY <1>1, AcceptPolicy
<1>2. ASSUME NEW r \in Task, NEW i \in todo[r], SkipSlot(r, i) \/ PutFails(r, i)
      PROVE  PolicyInv'
  BY <1>2, VisitPolicy DEF SkipSlot, PutFails
<1>3. ASSUME NEW r \in Task, NEW i \in todo[r], CompressSlot(r, i) PROVE PolicyInv'
  BY <1>3, VisitPolicy DEF CompressSlot
<1>4. ASSUME NEW r \in Task, Forward(r) PROVE PolicyInv'
  BY <1>4, ForwardPolicy
<1>5. ASSUME NEW t \in CliInput, CliCompress(t) PROVE PolicyInv'
  BY <1>5, LosePolicy DEF CliCompress
<1>6. CASE Crash
  <2>1. /\ UNCHANGED <<request, out, offered>>
        /\ \A r \in Task : todo'[r] \subseteq todo[r]
        /\ \A r \in Task : pc'[r] = pc[r] \/ (pc[r] # "idle" /\ pc'[r] = "lost")
    BY <1>6 DEF Crash
  <2> QED BY <2>1, LosePolicy
<1>7. CASE UNCHANGED vars
  BY <1>7, LosePolicy DEF vars
<1> QED BY <1>1, <1>2, <1>3, <1>4, <1>5, <1>6, <1>7 DEF Next, Step

LEMMA SpecPolicy == Spec => []PolicyInv
BY InitPolicy, NextPolicy, SpecIInv, PTL DEF Spec

(* The hot zone reaches the provider as the client sent it: no message     *)
(* below the floor, before a breakpoint, or of a protected role or type is *)
(* replaced, whatever the request and whatever else is going on.           *)
THEOREM SpecHotZoneUntouched == Spec => []HotZoneUntouched
<1>1. IInv /\ PolicyInv => HotZoneUntouched
  <2> SUFFICES ASSUME IInv, PolicyInv, NEW r \in Task, pc[r] = "sent",
                      NEW i \in Compressed(r)
               PROVE  ~HotZone(request[r], i)
    BY DEF HotZoneUntouched
  <2>1. request[r] \in Request /\ i \in Plan(request[r])
    BY CcrAssumption DEF IInv, TypeOK, PolicyInv, OnlyPlanned
  <2> QED BY <2>1, PlanAvoidsHotZone
<1> QED BY <1>1, SpecIInv, SpecPolicy, PTL

(* On the OpenAI surfaces a model that retrieved an original gets to see   *)
(* it: the output of the retrieval is not replaced by its marker again.    *)
THEOREM SpecRetrievalOutputsUntouched == Spec => []OpenAiRetrievalOutputsUntouched
<1>1. IInv /\ PolicyInv => OpenAiRetrievalOutputsUntouched
  <2> SUFFICES ASSUME IInv, PolicyInv, NEW r \in Task, pc[r] = "sent",
                      request[r].shape \in {"chat", "responses"},
                      NEW i \in Compressed(r)
               PROVE  ~RetrievalOutput(request[r], i)
    BY DEF OpenAiRetrievalOutputsUntouched
  <2>1. request[r] \in Request /\ i \in Plan(request[r])
    BY CcrAssumption DEF IInv, TypeOK, PolicyInv, OnlyPlanned
  <2> QED BY <2>1, OpenAiPlanAvoidsRetrievals
<1> QED BY <1>1, SpecIInv, SpecPolicy, PTL

(* A model that sees a marker is offered the tool that resolves it.        *)
THEOREM SpecToolOffered == Spec => []ToolOffered
<1>1. IInv /\ PolicyInv => ToolOffered
  <2> SUFFICES ASSUME IInv, PolicyInv, NEW r \in Task, pc[r] = "sent",
                      NEW i \in DOMAIN out[r],
                      HasMarker(out[r][i]),
                      request[r].tools[request[r].blocks[i].req] # "other",
                      ~request[r].multi,
                      request[r].shape = "batch" => i \in Compressed(r)
               PROVE  request[r].blocks[i].req \in offered[r]
    BY DEF ToolOffered
  <2> DEFINE q == request[r].blocks[i].req
  <2>1. request[r] \in Request /\ i \in DOMAIN request[r].blocks
    BY CcrAssumption DEF IInv, TypeOK
  <2>2. q \in Req
    BY <2>1, BlocksType DEF Block
  <2>3. request[r].tools[q] \in {"appendable", "retrieve"}
    BY <2>1, <2>2 DEF Request, ToolsField
  <2>4. WantsTool(r, q)
    <3>1. CASE i \in Compressed(r)
      BY <3>1 DEF WantsTool
    <3>2. CASE i \notin Compressed(r)
      <4>1. HasMarker(request[r].blocks[i].content)
        BY <3>2 DEF Compressed
      <4> QED BY <3>2, <4>1, <2>1 DEF WantsTool
    <3> QED BY <3>1, <3>2
  <2> QED BY <2>2, <2>3, <2>4 DEF PolicyInv, OfferedAsWanted
<1> QED BY <1>1, SpecIInv, SpecPolicy, PTL

=============================================================================
