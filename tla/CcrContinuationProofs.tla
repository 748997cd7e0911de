----------------------- MODULE CcrContinuationProofs ------------------------
(***************************************************************************)
(* The safety properties of CcrContinuation, for every set of responses    *)
(* and every round limit.                                                  *)
(***************************************************************************)
EXTENDS CcrContinuation, FiniteSetTheorems, TLAPS

(* While the loop runs it holds a response of the upstream, of one choice  *)
(* from Anthropic, which is the first one until a round has succeeded.     *)
LoopHolds ==
  pc \in {"loop", "reading", "continued"} =>
    /\ initial \in Upstream
    /\ current \in Upstream
    /\ provider = "anthropic" => Len(current.choices) = 1
    /\ changed \/ current = initial

NotYetChanged ==
  pc \in {"idle", "asked"} => ~changed /\ history = << >> /\ answers = {}

(* A round that is resolved has retrievals only, in a single choice, and   *)
(* what it read so far are answers to different calls.                     *)
ReadingHolds ==
  /\ pc = "reading" =>
       /\ rounds <= MaxRounds
       /\ Len(current.choices) = 1
       /\ Cardinality(AllCalls(current)) = Cardinality(Retrievals(current))
  /\ \A a, b \in answers : a.call = b.call => a = b

(* Rows are never deleted.                                                 *)
OfferedIsStored == offered \subseteq table

(* What was found is in the table, and what was read of this round so far  *)
(* found what is known.                                                    *)
FoundIsStored ==
  /\ \A a \in answers : a.result \in Content => a.call.hash \in table
  /\ \A k \in DOMAIN history : \A a \in history[k].answers :
       a.result \in Content => a.call.hash \in table
ReadIsFound ==
  \A a \in answers :
    a.read /\ Known(a.call.hash, Len(history) + 1) => a.result \in Content

Inv ==
  /\ TypeOK
  /\ LoopHolds
  /\ NotYetChanged
  /\ ReadingHolds
  /\ OfferedIsStored
  /\ FoundIsStored
  /\ ReadIsFound
  /\ EveryCallAnswered
  /\ KnownIsFound
  /\ NoMixedReply
  /\ UnresolvedForAReason
  /\ NoDanglingFinish

-----------------------------------------------------------------------------
(* The calls of a response are calls.                                      *)
LEMMA CallsOfResponse ==
  ASSUME NEW u \in Response
  PROVE  /\ AllCalls(u) \subseteq Call
         /\ Retrievals(u) \subseteq AllCalls(u)
         /\ Others(u) \subseteq AllCalls(u)
<1>1. \A i \in DOMAIN u.choices : u.choices[i] \in Choice
  BY DEF Response
<1>2. \A i \in DOMAIN u.choices : u.choices[i].calls \subseteq Call
  BY <1>1 DEF Choice
<1>3. AllCalls(u) \subseteq Call
  BY <1>2 DEF AllCalls
<1> QED BY <1>3 DEF Retrievals, Others

(* Stripping gives a response that holds no retrieval.                     *)
LEMMA StrippedResponse ==
  ASSUME NEW u \in Response
  PROVE  /\ Stripped(u) \in Response
         /\ Retrievals(Stripped(u)) = {}
         /\ DOMAIN Stripped(u).choices = DOMAIN u.choices
         /\ Len(Stripped(u).choices) = Len(u.choices)
<1> DEFINE f == [i \in DOMAIN u.choices |-> StrippedChoice(u.choices[i])]
<1>1. u.choices \in Seq(Choice)
  BY DEF Response
<1>2. \A k \in Choice : StrippedChoice(k) \in Choice
  BY DEF StrippedChoice, Choice
<1>3. f \in Seq(Choice) /\ Len(f) = Len(u.choices)
  BY <1>1, <1>2
<1>4. Stripped(u) = [choices |-> f]
  BY DEF Stripped
<1>5. Stripped(u) \in Response
  BY <1>3, <1>4 DEF Response
<1>6. ASSUME NEW c \in AllCalls(Stripped(u)) PROVE c.kind # "retrieve"
  <2>1. PICK i \in DOMAIN f : c \in f[i].calls
    BY <1>4, <1>6 DEF AllCalls
  <2> QED BY <2>1 DEF StrippedChoice
<1> QED BY <1>3, <1>4, <1>5, <1>6 DEF Retrievals

(* Stripping a response of the upstream leaves no choice that waits for    *)
(* calls it does not have.                                                 *)
LEMMA StrippedDoesNotDangle ==
  ASSUME NEW u \in Upstream, NEW i \in DOMAIN u.choices
  PROVE  /\ u.choices[i].finish = "tools" => u.choices[i].calls # {}
         /\ Stripped(u).choices[i].finish = "tools"
              => Stripped(u).choices[i].calls # {}
<1>1. u.choices[i].finish = "tools" <=> u.choices[i].calls # {}
  BY CcrContinuationAssumption
<1>2. Stripped(u).choices[i] = StrippedChoice(u.choices[i])
  BY DEF Stripped
<1> QED BY <1>1, <1>2 DEF StrippedChoice

(* A single choice whose calls are as many as its retrievals has no other, *)
(* and tells its calls apart by their ids.                                 *)
LEMMA OnlyRetrievals ==
  ASSUME NEW u \in Upstream, Len(u.choices) = 1,
         Cardinality(AllCalls(u)) = Cardinality(Retrievals(u))
  PROVE  /\ AllCalls(u) = Retrievals(u)
         /\ \A c, d \in AllCalls(u) : c.id = d.id => c = d
<1>1. u.choices \in Seq(Choice)
  BY CcrContinuationAssumption DEF Response
<1>2. DOMAIN u.choices = {1}
  BY <1>1
<1>3. AllCalls(u) = u.choices[1].calls
  BY <1>2 DEF AllCalls
<1>4. /\ IsFiniteSet(AllCalls(u))
      /\ \A c, d \in AllCalls(u) : c.id = d.id => c = d
  BY <1>2, <1>3, CcrContinuationAssumption
<1>5. Retrievals(u) \subseteq AllCalls(u)
  BY DEF Retrievals
<1>6. AllCalls(u) = Retrievals(u)
  BY <1>4, <1>5, FS_Subset
<1> QED BY <1>4, <1>6

(* How the loop ends: what Finish replies with, whichever step ends it.    *)
LEMMA FinishReplies ==
  ASSUME TypeOK, LoopHolds, pc \in {"loop", "reading", "continued"},
         Finish(current, changed)
  PROVE  /\ current' \in Response /\ reply' \in Response
         /\ changed' \in BOOLEAN
         /\ Retrievals(reply') = {} \/ (reply' = current /\ Others(current) = {})
         /\ Len(reply'.choices) = Len(current.choices)
         /\ \A i \in DOMAIN reply'.choices :
              reply'.choices[i].finish = "tools" => reply'.choices[i].calls # {}
<1>1. current \in Upstream /\ current \in Response /\ (changed \/ current = initial)
  BY CcrContinuationAssumption DEF LoopHolds
<1>2. CASE CanStrip(current)
  <2>1. current' = Stripped(current) /\ reply' = Stripped(current) /\ changed'
    BY <1>2 DEF Finish
  <2> QED BY <2>1, <1>1, StrippedResponse, StrippedDoesNotDangle
<1>3. CASE ~CanStrip(current)
  <2>1. current' = current /\ reply' = current /\ changed' = changed
    <3>1. changed' = (changed \/ CanStrip(current)) /\ changed \in BOOLEAN
      BY DEF Finish, TypeOK
    <3>2. changed' = changed
      BY <3>1, <1>3
    <3>3. /\ current' = current
          /\ reply' = IF changed' THEN current' ELSE initial
      BY <1>3 DEF Finish
    <3> QED BY <3>2, <3>3, <1>1
  <2>2. Retrievals(current) = {} \/ Others(current) = {}
    BY <1>3 DEF CanStrip
  <2>3. /\ reply' \in Response /\ changed' \in BOOLEAN
        /\ Len(reply'.choices) = Len(current.choices)
    BY <2>1, <1>1 DEF TypeOK
  <2>4. Retrievals(reply') = {} \/ (reply' = current /\ Others(current) = {})
    BY <2>1, <2>2
  <2>5. \A i \in DOMAIN reply'.choices :
          reply'.choices[i].finish = "tools" => reply'.choices[i].calls # {}
    BY <2>1, <1>1, StrippedDoesNotDangle
  <2> QED BY <2>1, <2>3, <2>4, <2>5, <1>1
<1> QED BY <1>2, <1>3

-----------------------------------------------------------------------------
LEMMA InitInv == Init => Inv
<1> SUFFICES ASSUME Init PROVE Inv
  OBVIOUS
<1>1. TypeOK
  <2>1. history \in Seq(Turn) /\ rounds \in 0..MaxRounds
    BY CcrContinuationAssumption DEF Init
  <2>2. answers \in SUBSET Reply
    BY DEF Init
  <2>3. offered \in SUBSET Hash
    BY DEF Init
  <2> QED BY <2>1, <2>2, <2>3 DEF Init, TypeOK
<1>2. LoopHolds /\ NotYetChanged /\ ReadingHolds /\ OfferedIsStored
  BY DEF Init, LoopHolds, NotYetChanged, ReadingHolds, OfferedIsStored
<1>3. FoundIsStored /\ ReadIsFound /\ EveryCallAnswered /\ KnownIsFound
  BY DEF Init, FoundIsStored, ReadIsFound, EveryCallAnswered, KnownIsFound
<1>4. NoMixedReply /\ UnresolvedForAReason /\ NoDanglingFinish
  BY DEF Init, NoMixedReply, UnresolvedForAReason, NoDanglingFinish
<1> QED BY <1>1, <1>2, <1>3, <1>4 DEF Inv

(* A step that leaves the conversation alone, and the table or grows it,   *)
(* leaves what was found and answered alone.                               *)
LEMMA ConversationKept ==
  ASSUME Inv, table \subseteq table',
         UNCHANGED <<offered, answers, history>>
  PROVE  /\ OfferedIsStored' /\ FoundIsStored' /\ ReadIsFound'
         /\ EveryCallAnswered' /\ KnownIsFound'
<1>1. OfferedIsStored'
  BY DEF Inv, OfferedIsStored
<1>2. FoundIsStored'
  BY DEF Inv, FoundIsStored
<1>3. ReadIsFound'
  BY DEF Inv, ReadIsFound, Known
<1>4. EveryCallAnswered'
  BY DEF Inv, EveryCallAnswered
<1>5. KnownIsFound'
  BY DEF Inv, KnownIsFound, Known
<1> QED BY <1>1, <1>2, <1>3, <1>4, <1>5

LEMMA StepInv == Inv /\ [Next]_vars => Inv'
<1> SUFFICES ASSUME Inv, [Next]_vars PROVE Inv'
  OBVIOUS
<1> USE DEF Inv
<1>1. ASSUME NEW h \in Valid, Put(h) PROVE Inv'
  <2>1. table \subseteq table' /\ UNCHANGED <<offered, answers, history>>
    BY <1>1 DEF Put
  <2>2. OfferedIsStored' /\ FoundIsStored' /\ ReadIsFound'
        /\ EveryCallAnswered' /\ KnownIsFound'
    BY <2>1, ConversationKept
  <2>3. TypeOK' /\ LoopHolds' /\ NotYetChanged' /\ ReadingHolds'
    BY <1>1, CcrContinuationAssumption
    DEF Put, TypeOK, LoopHolds, NotYetChanged, ReadingHolds
  <2>4. NoMixedReply' /\ UnresolvedForAReason' /\ NoDanglingFinish'
    BY <1>1 DEF Put, NoMixedReply, UnresolvedForAReason, NoDanglingFinish
  <2> QED BY <2>2, <2>3, <2>4
<1>2. CASE Ask
  <2>1. history = << >> /\ answers = {} /\ ~changed
    BY <1>2 DEF Ask, NotYetChanged
  <2>2. history' = << >> /\ answers' = {}
    BY <1>2, <2>1 DEF Ask
  <2>3. OfferedIsStored' /\ FoundIsStored' /\ ReadIsFound'
        /\ EveryCallAnswered' /\ KnownIsFound'
    BY <1>2, <2>2
    DEF Ask, OfferedIsStored, FoundIsStored, ReadIsFound, EveryCallAnswered,
        KnownIsFound
  <2>4. offered' \in SUBSET Hash
    BY <1>2, CcrContinuationAssumption DEF Ask, TypeOK
  <2>5. TypeOK' /\ LoopHolds' /\ NotYetChanged' /\ ReadingHolds'
    BY <1>2, <2>1, <2>4 DEF Ask, TypeOK, LoopHolds, NotYetChanged, ReadingHolds
  <2>6. NoMixedReply' /\ UnresolvedForAReason' /\ NoDanglingFinish'
    BY <1>2 DEF Ask, NoMixedReply, UnresolvedForAReason, NoDanglingFinish
  <2> QED BY <2>3, <2>5, <2>6
<1>3. CASE PassOn
  <2>1. table \subseteq table' /\ UNCHANGED <<offered, answers, history>>
    BY <1>3 DEF PassOn
  <2>2. OfferedIsStored' /\ FoundIsStored' /\ ReadIsFound'
        /\ EveryCallAnswered' /\ KnownIsFound'
    BY <2>1, ConversationKept
  <2>3. TypeOK' /\ LoopHolds' /\ NotYetChanged' /\ ReadingHolds'
    BY <1>3 DEF PassOn, TypeOK, LoopHolds, NotYetChanged, ReadingHolds
  <2>4. NoMixedReply' /\ UnresolvedForAReason' /\ NoDanglingFinish'
    BY <1>3 DEF PassOn, NoMixedReply, UnresolvedForAReason, NoDanglingFinish
  <2> QED BY <2>2, <2>3, <2>4
<1>4. ASSUME NEW u \in Upstream, Buffer(u) PROVE Inv'
  <2>1. u \in Response
    BY CcrContinuationAssumption
  <2>2. TypeOK' /\ LoopHolds' /\ NotYetChanged' /\ ReadingHolds'
    BY <1>4, <2>1 DEF Buffer, TypeOK, LoopHolds, NotYetChanged, ReadingHolds
  <2>3. OfferedIsStored' /\ FoundIsStored' /\ ReadIsFound'
        /\ EveryCallAnswered' /\ KnownIsFound'
    <3>1. table \subseteq table' /\ UNCHANGED <<offered, answers, history>>
      BY <1>4 DEF Buffer
    <3> QED BY <3>1, ConversationKept
  <2>4. pc' = "done" => reply' = u /\ Retrievals(u) = {}
    BY <1>4 DEF Buffer
  <2>5. NoMixedReply' /\ UnresolvedForAReason'
    BY <2>4 DEF NoMixedReply, UnresolvedForAReason
  <2>6. NoDanglingFinish'
    BY <2>4, StrippedDoesNotDangle DEF NoDanglingFinish
  <2> QED BY <2>2, <2>3, <2>5, <2>6
<1>5. ASSUME NEW u \in Upstream, Continued(u) PROVE Inv'
  <2>1. u \in Response
    BY CcrContinuationAssumption
  <2>2. TypeOK' /\ LoopHolds' /\ NotYetChanged' /\ ReadingHolds'
    BY <1>5, <2>1 DEF Continued, TypeOK, LoopHolds, NotYetChanged, ReadingHolds
  <2>3. OfferedIsStored' /\ FoundIsStored' /\ ReadIsFound'
        /\ EveryCallAnswered' /\ KnownIsFound'
    <3>1. table \subseteq table' /\ UNCHANGED <<offered, answers, history>>
      BY <1>5 DEF Continued
    <3> QED BY <3>1, ConversationKept
  <2>4. NoMixedReply' /\ UnresolvedForAReason' /\ NoDanglingFinish'
    BY <1>5 DEF Continued, NoMixedReply, UnresolvedForAReason, NoDanglingFinish
  <2> QED BY <2>2, <2>3, <2>4
<1>6. CASE Stop
  <2>1. /\ pc = "loop" /\ pc' = "done" /\ MustStop /\ Finish(current, changed)
        /\ UNCHANGED <<table, provider, offered, initial, rounds, answers, history,
                       failed>>
    BY <1>6 DEF Stop, Finish
  <2>2. /\ current' \in Response /\ reply' \in Response /\ changed' \in BOOLEAN
        /\ Retrievals(reply') = {} \/ (reply' = current /\ Others(current) = {})
        /\ \A i \in DOMAIN reply'.choices :
             reply'.choices[i].finish = "tools" => reply'.choices[i].calls # {}
    BY <2>1, FinishReplies
  <2>3. TypeOK' /\ LoopHolds' /\ NotYetChanged' /\ ReadingHolds'
    BY <2>1, <2>2 DEF TypeOK, LoopHolds, NotYetChanged, ReadingHolds
  <2>4. OfferedIsStored' /\ FoundIsStored' /\ ReadIsFound'
        /\ EveryCallAnswered' /\ KnownIsFound'
    BY <2>1, ConversationKept
  <2>5. NoMixedReply' /\ NoDanglingFinish'
    BY <2>2 DEF NoMixedReply, NoDanglingFinish
  <2>6. UnresolvedForAReason'
    <3>1. SUFFICES ASSUME Retrievals(reply') # {}
                   PROVE  rounds = MaxRounds \/ Len(current.choices) # 1
      BY <2>1, <2>2 DEF UnresolvedForAReason
    <3>2. Retrievals(current) # {} /\ AllCalls(current) = Retrievals(current)
      BY <2>2, <3>1 DEF Others, Retrievals
    <3> QED BY <2>1, <3>2, CcrContinuationAssumption DEF MustStop, TypeOK
  <2> QED BY <2>3, <2>4, <2>5, <2>6
<1>7. CASE ContinuationFails
  <2>1. /\ pc = "continued" /\ pc' = "done" /\ Finish(current, changed) /\ failed'
        /\ UNCHANGED <<table, provider, offered, initial, rounds, answers, history>>
    BY <1>7 DEF ContinuationFails, Finish
  <2>2. /\ current' \in Response /\ reply' \in Response /\ changed' \in BOOLEAN
        /\ Retrievals(reply') = {} \/ (reply' = current /\ Others(current) = {})
        /\ \A i \in DOMAIN reply'.choices :
             reply'.choices[i].finish = "tools" => reply'.choices[i].calls # {}
    BY <2>1, FinishReplies
  <2>3. TypeOK' /\ LoopHolds' /\ NotYetChanged' /\ ReadingHolds'
    BY <1>7, <2>1, <2>2
    DEF ContinuationFails, TypeOK, LoopHolds, NotYetChanged, ReadingHolds
  <2>4. OfferedIsStored' /\ FoundIsStored' /\ ReadIsFound'
        /\ EveryCallAnswered' /\ KnownIsFound'
    BY <2>1, ConversationKept
  <2>5. NoMixedReply' /\ NoDanglingFinish' /\ UnresolvedForAReason'
    BY <2>1, <2>2 DEF NoMixedReply, NoDanglingFinish, UnresolvedForAReason
  <2> QED BY <2>3, <2>4, <2>5
<1>8. CASE Resolve
  <2>1. /\ pc = "loop" /\ pc' = "reading" /\ ~MustStop
        /\ rounds' = rounds + 1
        /\ UNCHANGED <<table, provider, offered, initial, current, changed,
                       answers, history, failed, reply>>
    BY <1>8 DEF Resolve
  <2>2. /\ current \in Upstream /\ current \in Response
        /\ Len(current.choices) = 1
        /\ Cardinality(AllCalls(current)) = Cardinality(Retrievals(current))
        /\ rounds < MaxRounds
    BY <2>1, CcrContinuationAssumption DEF MustStop, LoopHolds, TypeOK, Provider
  <2>3. TypeOK'
    BY <2>1, <2>2, CcrContinuationAssumption DEF TypeOK
  <2>4. LoopHolds' /\ NotYetChanged'
    BY <2>1 DEF LoopHolds, NotYetChanged
  <2>5. ReadingHolds'
    <3>1. rounds' <= MaxRounds
      BY <2>3, CcrContinuationAssumption DEF TypeOK
    <3> QED BY <3>1, <2>1, <2>2 DEF ReadingHolds, AllCalls, Retrievals
  <2>6. OfferedIsStored' /\ FoundIsStored' /\ ReadIsFound'
        /\ EveryCallAnswered' /\ KnownIsFound'
    BY <2>1, ConversationKept
  <2>7. NoMixedReply' /\ UnresolvedForAReason' /\ NoDanglingFinish'
    BY <2>1 DEF NoMixedReply, UnresolvedForAReason, NoDanglingFinish
  <2> QED BY <2>3, <2>4, <2>5, <2>6, <2>7
<1>9. ASSUME NEW c \in Call, NEW read \in BOOLEAN, Read(c, read) PROVE Inv'
  <2> DEFINE new == Answer(c, read)
  <2>1. /\ pc = "reading"
        /\ c \in Retrievals(current) /\ (\A a \in answers : a.call # c)
        /\ answers' = answers \cup {new}
        /\ UNCHANGED <<table, pc, provider, offered, initial, current, changed,
                       rounds, history, failed, reply>>
    BY <1>9 DEF Read
  <2>2. new.call = c /\ new.read = read /\ new.result = Value(c, read)
    BY DEF Answer
  <2>3. Value(c, read) \in Content \cup {"missing", "invalid"}
    BY DEF Value, Content
  <2>4. Value(c, read) \in Content <=> c.hash \in table /\ read
    <3>1. table \subseteq Valid
      BY DEF TypeOK
    <3> QED BY <3>1 DEF Value, Content
  <2>5. new \in Reply
    BY <2>3 DEF Answer, Reply
  <2>6. TypeOK'
    BY <2>1, <2>5 DEF TypeOK
  <2>7. LoopHolds' /\ NotYetChanged'
    BY <2>1 DEF LoopHolds, NotYetChanged
  <2>8. ReadingHolds'
    <3>1. \A a, b \in answers' : a.call = b.call => a = b
      BY <2>1, <2>2 DEF ReadingHolds
    <3> QED BY <2>1, <3>1 DEF ReadingHolds
  <2>9. OfferedIsStored' /\ EveryCallAnswered' /\ KnownIsFound'
    BY <2>1 DEF OfferedIsStored, EveryCallAnswered, KnownIsFound, Known
  <2>10. FoundIsStored'
    BY <2>1, <2>2, <2>4 DEF FoundIsStored
  <2>11. ReadIsFound'
    <3>1. SUFFICES ASSUME NEW a \in answers', a.read,
                          Known(a.call.hash, Len(history) + 1)
                   PROVE  a.result \in Content
      BY <2>1 DEF ReadIsFound, Known
    <3>2. CASE a \in answers
      BY <3>1, <3>2 DEF ReadIsFound
    <3>3. CASE a = new
      <4>1. Known(c.hash, Len(history) + 1) /\ read
        BY <3>1, <3>3, <2>2
      <4>2. Len(history) \in Nat /\ DOMAIN history = 1..Len(history)
        BY DEF TypeOK
      <4>3. c.hash \in table
        BY <4>1, <4>2 DEF Known, OfferedIsStored, FoundIsStored
      <4> QED BY <4>1, <4>3, <3>3, <2>2, <2>4
    <3> QED BY <2>1, <3>2, <3>3
  <2>12. NoMixedReply' /\ UnresolvedForAReason' /\ NoDanglingFinish'
    BY <2>1 DEF NoMixedReply, UnresolvedForAReason, NoDanglingFinish
  <2> QED BY <2>6, <2>7, <2>8, <2>9, <2>10, <2>11, <2>12
<1>10. CASE Send
  <2> DEFINE turn == [calls |-> AllCalls(current), answers |-> answers]
  <2>1. /\ pc = "reading" /\ pc' = "continued"
        /\ {a.call : a \in answers} = Retrievals(current)
        /\ history' = Append(history, turn) /\ answers' = {}
        /\ UNCHANGED <<table, provider, offered, initial, current, changed,
                       rounds, failed, reply>>
    BY <1>10 DEF Send
  <2>2. /\ current \in Upstream /\ current \in Response
        /\ Len(current.choices) = 1
        /\ Cardinality(AllCalls(current)) = Cardinality(Retrievals(current))
    BY <2>1, CcrContinuationAssumption DEF LoopHolds, ReadingHolds
  <2>3. /\ AllCalls(current) = Retrievals(current)
        /\ \A c, d \in AllCalls(current) : c.id = d.id => c = d
    BY <2>2, OnlyRetrievals
  <2>4. turn \in Turn
    <3>1. AllCalls(current) \subseteq Call
      BY <2>2, CallsOfResponse
    <3>2. answers \subseteq Reply
      BY DEF TypeOK
    <3> QED BY <3>1, <3>2 DEF Turn
  <2>5. TypeOK'
    BY <2>1, <2>4 DEF TypeOK
  <2>6. LoopHolds' /\ NotYetChanged' /\ ReadingHolds' /\ OfferedIsStored'
    BY <2>1 DEF LoopHolds, NotYetChanged, ReadingHolds, OfferedIsStored
  <2>7. /\ Len(history) \in Nat /\ DOMAIN history = 1..Len(history)
        /\ DOMAIN history' = 1..(Len(history) + 1)
        /\ \A k \in 1..Len(history) : history'[k] = history[k]
        /\ history'[Len(history) + 1] = turn
    BY <2>1 DEF TypeOK
  <2>8. EveryCallAnswered'
    <3>1. \A c \in turn.calls : \E a \in turn.answers :
            /\ a.call.id = c.id
            /\ \A b \in turn.answers : b.call.id = c.id => b = a
      <4> TAKE c \in turn.calls
      <4>1. c \in Retrievals(current)
        BY <2>3
      <4>2. PICK a \in answers : a.call = c
        BY <4>1, <2>1
      <4>3. ASSUME NEW b \in answers, b.call.id = c.id PROVE b = a
        <5>1. b.call \in AllCalls(current) /\ c \in AllCalls(current)
          BY <2>1, <2>3, <4>1
        <5>2. b.call = c
          BY <5>1, <4>3, <2>3
        <5> QED BY <5>2, <4>2 DEF ReadingHolds
      <4> QED BY <4>2, <4>3
    <3>2. ASSUME NEW k \in DOMAIN history'
          PROVE  (k \in DOMAIN history /\ history'[k] = history[k]) \/ history'[k] = turn
      BY <2>7
    <3> QED BY <3>1, <3>2 DEF EveryCallAnswered
  <2>9. FoundIsStored' /\ ReadIsFound'
    <3>1. ASSUME NEW k \in DOMAIN history'
          PROVE  (k \in DOMAIN history /\ history'[k] = history[k]) \/ history'[k] = turn
      BY <2>7
    <3> QED BY <3>1, <2>1 DEF FoundIsStored, ReadIsFound
  <2>10. KnownIsFound'
    <3>1. SUFFICES ASSUME NEW k \in DOMAIN history', NEW a \in history'[k].answers,
                          a.read, Known(a.call.hash, k)'
                   PROVE  a.result \in Content
      BY DEF KnownIsFound
    <3>2. k \in 1..(Len(history) + 1)
      BY <2>7
    <3>3. \A j \in 1..(k - 1) : history'[j] = history[j]
      BY <3>2, <2>7
    <3>4. Known(a.call.hash, k)
      BY <3>1, <3>3, <2>1 DEF Known
    <3>5. CASE k \in DOMAIN history
      <4>1. a \in history[k].answers
        BY <3>5, <3>1, <2>7
      <4> QED BY <4>1, <3>5, <3>1, <3>4 DEF KnownIsFound
    <3>6. CASE k = Len(history) + 1
      <4>1. a \in answers
        BY <3>6, <3>1, <2>7
      <4> QED BY <4>1, <3>6, <3>1, <3>4 DEF ReadIsFound
    <3> QED BY <3>2, <3>5, <3>6, <2>7
  <2>11. NoMixedReply' /\ UnresolvedForAReason' /\ NoDanglingFinish'
    BY <2>1 DEF NoMixedReply, UnresolvedForAReason, NoDanglingFinish
  <2> QED BY <2>5, <2>6, <2>8, <2>9, <2>10, <2>11
<1>11. CASE UNCHANGED vars
  <2>1. table \subseteq table' /\ UNCHANGED <<offered, answers, history>>
    BY <1>11 DEF vars
  <2>2. OfferedIsStored' /\ FoundIsStored' /\ ReadIsFound'
        /\ EveryCallAnswered' /\ KnownIsFound'
    BY <2>1, ConversationKept
  <2>3. TypeOK' /\ LoopHolds' /\ NotYetChanged' /\ ReadingHolds'
    BY <1>11 DEF vars, TypeOK, LoopHolds, NotYetChanged, ReadingHolds
  <2>4. NoMixedReply' /\ UnresolvedForAReason' /\ NoDanglingFinish'
    BY <1>11 DEF vars, NoMixedReply, UnresolvedForAReason, NoDanglingFinish
  <2> QED BY <2>2, <2>3, <2>4
<1> QED BY <1>1, <1>2, <1>3, <1>4, <1>5, <1>6, <1>7, <1>8, <1>9, <1>10, <1>11
    DEF Next

THEOREM SpecInv == Spec => []Inv
BY InitInv, StepInv, PTL DEF Spec

(* Every turn the proxy adds to a conversation answers each of its calls   *)
(* exactly once (run_ccr_continuation), for every set of responses.        *)
THEOREM SpecEveryCallAnswered == Spec => []EveryCallAnswered
<1>1. Inv => EveryCallAnswered
  BY DEF Inv
<1> QED BY <1>1, SpecInv, PTL

(* What a marker of the request names, or an earlier round has shown, is   *)
(* found by every read that does not fail, whatever other requests store   *)
(* between the rounds (retrieve_value), for any number of rounds.          *)
THEOREM SpecKnownIsFound == Spec => []KnownIsFound
<1>1. Inv => KnownIsFound
  BY DEF Inv
<1> QED BY <1>1, SpecInv, PTL

(* No reply mixes retrievals with calls of the client, whichever way the   *)
(* loop ends (strip_ccr_tool_calls).                                       *)
THEOREM SpecNoMixedReply == Spec => []NoMixedReply
<1>1. Inv => NoMixedReply
  BY DEF Inv
<1> QED BY <1>1, SpecInv, PTL

(* A choice that loses its calls to the stripping does not end for tools   *)
(* (strip_ccr_tool_calls).                                                 *)
THEOREM SpecNoDanglingFinish == Spec => []NoDanglingFinish
<1>1. Inv => NoDanglingFinish
  BY DEF Inv
<1> QED BY <1>1, SpecInv, PTL

(* A retrieval reaches the client only after a failure, at the round limit *)
(* or in a response of several choices (run_ccr_continuation).             *)
THEOREM SpecUnresolvedForAReason == Spec => []UnresolvedForAReason
<1>1. Inv => UnresolvedForAReason
  BY DEF Inv
<1> QED BY <1>1, SpecInv, PTL

=============================================================================
