------------------------- MODULE ProductStatusProofs -------------------------
(***************************************************************************)
(* Proofs about ProductStatus, for any devices, duplicates and bounds.     *)
(* That the product activated last stays on sale is inductive once it says *)
(* that nothing under way threatens it; that its duplicates give way needs *)
(* that they exist, and that it is none of them.                           *)
(***************************************************************************)
EXTENDS ProductStatus, TLAPS, FiniteSetTheorems

\* w is one of the writes of a queue.
In(w, s) == \E i \in DOMAIN s : s[i] = w

\* The queues by their elements.
LEMMA AppendIn ==
  ASSUME NEW S, NEW s \in Seq(S), NEW v \in S, NEW w
  PROVE  In(w, Append(s, v)) <=> (In(w, s) \/ w = v)
<1>1. In(w, s) => In(w, Append(s, v))
  BY DEF In
<1>2. Append(s, v)[Len(s) + 1] = v /\ Len(s) + 1 \in DOMAIN Append(s, v)
  OBVIOUS
<1>3. w = v => In(w, Append(s, v))
  BY <1>2 DEF In
<1>4. In(w, Append(s, v)) => In(w, s) \/ w = v
  BY DEF In
<1> QED BY <1>1, <1>3, <1>4

\* The writes of a queue without its head were in the queue.
LEMMA TailIn ==
  ASSUME NEW S, NEW s \in Seq(S), s # <<>>, NEW w
  PROVE  /\ Head(s) \in S /\ Tail(s) \in Seq(S)
         /\ In(Head(s), s)
         /\ In(w, Tail(s)) => In(w, s)
         /\ In(w, s) => w = Head(s) \/ In(w, Tail(s))
<1>1. Head(s) \in S /\ Tail(s) \in Seq(S)
  OBVIOUS
<1>2. 1 \in DOMAIN s /\ s[1] = Head(s)
  OBVIOUS
<1>3. In(Head(s), s)
  BY <1>2 DEF In
<1>4. ASSUME In(w, Tail(s)) PROVE In(w, s)
  <2>1. PICK i \in DOMAIN Tail(s) : Tail(s)[i] = w
    BY <1>4 DEF In
  <2>2. i + 1 \in DOMAIN s /\ s[i + 1] = w
    BY <2>1
  <2> QED BY <2>2 DEF In
<1>5. ASSUME In(w, s) PROVE w = Head(s) \/ In(w, Tail(s))
  <2>1. PICK i \in DOMAIN s : s[i] = w
    BY <1>5 DEF In
  <2>2. CASE i = 1
    BY <2>1, <2>2
  <2>3. CASE i # 1
    <3>1. i - 1 \in DOMAIN Tail(s) /\ Tail(s)[i - 1] = w
      BY <2>1, <2>3
    <3> QED BY <3>1 DEF In
  <2> QED BY <2>2, <2>3
<1> QED BY <1>1, <1>3, <1>4, <1>5

\* The writes of two queues in one are those of either.
LEMMA ConcatIn ==
  ASSUME NEW S, NEW s \in Seq(S), NEW t \in Seq(S), NEW w
  PROVE  /\ s \o t \in Seq(S)
         /\ In(w, s \o t) <=> In(w, s) \/ In(w, t)
<1>1. s \o t \in Seq(S)
  OBVIOUS
<1>2. ASSUME In(w, s) PROVE In(w, s \o t)
  <2>1. PICK i \in DOMAIN s : s[i] = w
    BY <1>2 DEF In
  <2>2. i \in DOMAIN (s \o t) /\ (s \o t)[i] = w
    BY <2>1
  <2> QED BY <2>2 DEF In
<1>3. ASSUME In(w, t) PROVE In(w, s \o t)
  <2>1. PICK i \in DOMAIN t : t[i] = w
    BY <1>3 DEF In
  <2>2. Len(s) + i \in DOMAIN (s \o t) /\ (s \o t)[Len(s) + i] = w
    BY <2>1
  <2> QED BY <2>2 DEF In
<1>4. ASSUME In(w, s \o t) PROVE In(w, s) \/ In(w, t)
  <2>1. PICK i \in DOMAIN (s \o t) : (s \o t)[i] = w
    BY <1>4 DEF In
  <2>2. CASE i <= Len(s)
    <3>1. i \in DOMAIN s /\ s[i] = w
      BY <2>1, <2>2
    <3> QED BY <3>1 DEF In
  <2>3. CASE i > Len(s)
    <3>1. i - Len(s) \in DOMAIN t /\ t[i - Len(s)] = w
      BY <2>1, <2>3
    <3> QED BY <3>1 DEF In
  <2> QED BY <2>1, <2>2, <2>3
<1> QED BY <1>1, <1>2, <1>3, <1>4

\* What a walk over some of the products sends: a follow-up for each of them.
LEMMA WalkSends ==
  ASSUME NEW T \in SUBSET Products, NEW walk \in Walks(T)
  PROVE  LET sent == [i \in DOMAIN walk |-> FollowUp(walk[i])] IN
         /\ sent \in Seq(Writes)
         /\ \A p \in T : In(FollowUp(p), sent)
         /\ \A w : In(w, sent) => \E p \in T : w = FollowUp(p)
<1> DEFINE sent == [i \in DOMAIN walk |-> FollowUp(walk[i])]
<1>1. Cardinality(T) \in Nat
  BY ProductsAssumption, FS_Subset, FS_CardinalityType
<1>2. /\ DOMAIN walk = 1 .. Cardinality(T)
      /\ \A i \in DOMAIN walk : walk[i] \in T
      /\ \A p \in T : \E i \in DOMAIN walk : walk[i] = p
  BY DEF Walks
<1>3. \A p \in Products : FollowUp(p) \in Writes
  BY DEF Writes
<1>4. sent \in Seq(Writes)
  <2>1. \A i \in 1 .. Cardinality(T) : sent[i] \in Writes
    BY <1>2, <1>3
  <2>2. sent \in [1 .. Cardinality(T) -> Writes]
    BY <1>2, <2>1
  <2> QED BY <1>1, <2>2
<1>5. \A p \in T : In(FollowUp(p), sent)
  BY <1>2 DEF In
<1>6. \A w : In(w, sent) => \E p \in T : w = FollowUp(p)
  BY <1>2 DEF In
<1> QED BY <1>4, <1>5, <1>6

-----------------------------------------------------------------------------
(* Types.                                                                  *)

\* What the kind of a write says of its fields.
LEMMA WriteFields ==
  ASSUME NEW w \in Writes
  PROVE  /\ w.for \in Products /\ w.to \in Statuses /\ w.others \in SUBSET Products
         /\ IsFollowUp(w) => w.to = "INACTIVE" /\ w.others = {} /\ ~IsPrice(w)
         /\ IsPrice(w) => w.to = "ACTIVE" /\ w.others = {}
<1>1. ASSUME NEW p \in Products, w = FollowUp(p)
      PROVE  /\ w.for = p /\ w.to = "INACTIVE" /\ w.others = {}
             /\ IsFollowUp(w) /\ ~IsPrice(w)
  BY <1>1 DEF FollowUp, Write, IsFollowUp, IsPrice
<1>2. ASSUME NEW p \in Products, w = NewPrice(p)
      PROVE  /\ w.for = p /\ w.to = "ACTIVE" /\ w.others = {}
             /\ ~IsFollowUp(w)
  BY <1>2 DEF NewPrice, Write, IsFollowUp
<1>3. \/ \E p \in Products : w = FollowUp(p)
      \/ \E p \in Products : w = NewPrice(p)
      \/ /\ w.op = "status" /\ w.for \in Products /\ w.to \in Statuses
         /\ w.others \in SUBSET Products
  BY DEF Writes
<1>4. w.op = "status" => ~IsFollowUp(w) /\ ~IsPrice(w)
  BY DEF IsFollowUp, IsPrice
<1> QED BY <1>1, <1>2, <1>3, <1>4 DEF Statuses

\* The next answer, or the next write, of a queue is a typed change.
LEMMA HeadTypes ==
  ASSUME TypeOK, NEW d \in Devices
  PROVE  /\ outbox[d] \in Seq(Writes) /\ answers[d] \in Seq(Writes)
         /\ outbox[d] # <<>> => /\ Head(outbox[d]) \in Writes
                                /\ Tail(outbox[d]) \in Seq(Writes)
         /\ answers[d] # <<>> => /\ Head(answers[d]) \in Writes
                                 /\ Tail(answers[d]) \in Seq(Writes)
  BY TailIn DEF TypeOK

\* An answer deactivates products of those its change was confirmed with.
LEMMA DeactivatedType ==
  ASSUME NEW p, NEW to, NEW others \in SUBSET Products
  PROVE  Deactivated(p, to, others) \in SUBSET Products
  BY DEF Deactivated

\* The initial state is typed.
LEMMA InitType == Init => TypeOK
<1> SUFFICES ASSUME Init PROVE TypeOK
  OBVIOUS
<1>1. Existing \in SUBSET Products
  BY DEF Existing
<1>2. full \in [Devices -> SUBSET Products]
  BY <1>1 DEF Init
<1>3. /\ outbox \in [Devices -> Seq(Writes)]
      /\ answers \in [Devices -> Seq(Writes)]
  BY DEF Init
<1>4. /\ confirms \in 0 .. MaxConfirms /\ reads \in 0 .. MaxReads
      /\ failures \in 0 .. MaxFailures
      /\ opened \in [Devices -> 0 .. MaxConfirms]
  BY BoundsAssumption DEF Init
<1>5. \A d \in Devices : page[d] = "status" => sku[d] \in Products
  BY DEF Init
<1>6. stored \in [Products -> Statuses \cup {"absent"}]
  BY DEF Init
<1> QED BY <1>2, <1>3, <1>4, <1>5, <1>6 DEF Init, TypeOK, Statuses

\* Steps of the user keep the types.
LEMMA UserType == ASSUME TypeOK, NEW d \in Devices, User(d) PROVE TypeOK'
<1>1. ASSUME NEW p \in Products, Choose(d, p) PROVE TypeOK'
  BY <1>1 DEF TypeOK, Choose, queueVars, boundVars, historyVars
<1>2. CASE OpenStatus(d)
  BY <1>2 DEF TypeOK, OpenStatus, Listed, queueVars, boundVars, historyVars
<1>3. CASE Toggle(d)
  BY <1>3 DEF TypeOK, Toggle, Statuses, queueVars, boundVars, historyVars
<1>4. CASE Back(d)
  BY <1>4, BoundsAssumption DEF TypeOK, Back, queueVars, boundVars, historyVars
<1>5. CASE Confirm(d)
  <2> DEFINE w == Change(confirms', sku[d], selected[d], full[d])
  <2>1. w \in Writes /\ confirms' \in 0 .. MaxConfirms
    BY <1>5, BoundsAssumption DEF TypeOK, Confirm, Change, Write, Writes
  <2>2. Append(outbox[d], w) \in Seq(Writes)
    BY <2>1, HeadTypes
  <2>3. outbox' \in [Devices -> Seq(Writes)]
    BY <1>5, <2>2 DEF TypeOK, Confirm
  <2> QED BY <1>5, <2>1, <2>3 DEF TypeOK, Confirm, deviceVars, historyVars
<1>6. CASE Reprice(d)
  <2>1. confirms' \in 0 .. MaxConfirms /\ sku[d] \in Products
    BY <1>6, BoundsAssumption DEF TypeOK, Reprice, Listed
  <2>2. Append(outbox[d], NewPrice(sku[d])) \in Seq(Writes)
    BY <2>1, HeadTypes DEF Writes
  <2>3. outbox' \in [Devices -> Seq(Writes)]
    BY <1>6, <2>2 DEF TypeOK, Reprice
  <2> QED BY <1>6, <2>1, <2>3 DEF TypeOK, Reprice, deviceVars, historyVars
<1> QED BY <1>1, <1>2, <1>3, <1>4, <1>5, <1>6 DEF User

\* Reading products keeps the types.
LEMMA ReadType ==
  ASSUME TypeOK, NEW d \in Devices, Load(d) \/ AnswerSearch(d) PROVE TypeOK'
<1>1. Existing \in SUBSET Products
  BY DEF Existing
<1>2. CASE Load(d)
  BY <1>1, <1>2, BoundsAssumption
     DEF TypeOK, Load, queueVars, historyVars
<1>3. CASE AnswerSearch(d)
  BY <1>1, <1>3, BoundsAssumption
     DEF TypeOK, AnswerSearch, queueVars, historyVars
<1> QED BY <1>2, <1>3

\* Storing a write keeps the types.
LEMMA TakeType == ASSUME TypeOK, NEW d \in Devices, TakeWrite(d) PROVE TypeOK'
<1> DEFINE w == Head(outbox[d])
<1>1. w \in Writes /\ Tail(outbox[d]) \in Seq(Writes)
  BY HeadTypes DEF TakeWrite
<1>2. w.for \in Products /\ w.to \in Statuses /\ w.others \in SUBSET Products
  BY <1>1, WriteFields
<1>3. Append(answers[d], w) \in Seq(Writes)
  BY <1>1, HeadTypes
<1>4. answers' \in [Devices -> Seq(Writes)] /\ outbox' \in [Devices -> Seq(Writes)]
  BY <1>1, <1>3 DEF TypeOK, TakeWrite
<1>5. stored' \in [Products -> Statuses \cup {"absent"}]
  BY <1>2 DEF TypeOK, TakeWrite
<1>6. /\ wanted' \in Products \cup {NoProduct} /\ covers' \in SUBSET Products
      /\ crossed' \in BOOLEAN /\ astray' \in BOOLEAN
  <2>1. Remember(w)
    BY DEF TakeWrite
  <2>2. Threatened(w.for) \in BOOLEAN
    BY DEF Threatened
  <2>3. CASE Activated(w)
    BY <1>2, <2>2, <2>3 DEF Activated, TypeOK
  <2>4. CASE Repriced(w) \/ TakenOff(w)
    BY <2>4 DEF Repriced, TakenOff, TypeOK
  <2> QED BY <2>1, <2>3, <2>4 DEF Remember
<1> QED BY <1>4, <1>5, <1>6 DEF TypeOK, TakeWrite, deviceVars, boundVars

\* The answer to a change keeps the types.
LEMMA AnswerType == ASSUME TypeOK, NEW d \in Devices, Answer(d) PROVE TypeOK'
<1> DEFINE w == Head(answers[d])
           gone == Deactivated(sku[d], selected[d], w.others)
<1>1. w \in Writes /\ Tail(answers[d]) \in Seq(Writes)
  BY HeadTypes DEF Answer
<1>2. gone \in SUBSET Products
  BY <1>1, WriteFields, DeactivatedType
<1>3. PICK walk \in Walks(gone) :
         outbox' = [outbox EXCEPT ![d] =
                      @ \o [i \in DOMAIN walk |-> FollowUp(walk[i])]]
  BY DEF Answer
<1>4. outbox[d] \o [i \in DOMAIN walk |-> FollowUp(walk[i])] \in Seq(Writes)
  BY <1>2, WalkSends, ConcatIn, HeadTypes
<1>5. outbox' \in [Devices -> Seq(Writes)]
  BY <1>3, <1>4 DEF TypeOK
<1>6. answers' \in [Devices -> Seq(Writes)]
  BY <1>1 DEF TypeOK, Answer
<1>7. /\ page' \in [Devices -> {"others", "status"}]
      /\ opened' \in [Devices -> 0 .. MaxConfirms]
      /\ \A e \in Devices : page'[e] = "status" => sku[e] \in Products
  <2> DEFINE open == page[d] = "status" /\ opened[d] < w.id
  <2> HIDE DEF w
  <2>1. CASE open
    <3>1. /\ page' = [page EXCEPT ![d] = "others"]
          /\ opened' = [opened EXCEPT ![d] = 0]
      BY <2>1 DEF Answer, w
    <3>2. 0 \in 0 .. MaxConfirms
      BY BoundsAssumption
    <3> QED BY <3>1, <3>2 DEF TypeOK
  <2>2. CASE ~open
    <3>1. page' = page /\ opened' = opened
      BY <2>2 DEF Answer, w
    <3> QED BY <3>1 DEF TypeOK
  <2> QED BY <2>1, <2>2
<1>8. astray' \in BOOLEAN
  BY DEF Answer
<1> QED BY <1>5, <1>6, <1>7, <1>8 DEF TypeOK, Answer, boundVars

\* Every step keeps the types.
LEMMA NextType == ASSUME TypeOK, [Next]_vars PROVE TypeOK'
<1>1. ASSUME NEW d \in Devices, RefuseWrite(d) PROVE TypeOK'
  <2>1. Tail(outbox[d]) \in Seq(Writes)
    BY <1>1, HeadTypes DEF RefuseWrite
  <2> QED BY <1>1, <2>1, BoundsAssumption DEF TypeOK, RefuseWrite, deviceVars
<1>2. ASSUME NEW d \in Devices, AnswerThrows(d) PROVE TypeOK'
  <2>1. Tail(answers[d]) \in Seq(Writes)
    BY <1>2, HeadTypes DEF AnswerThrows
  <2> QED BY <1>2, <2>1 DEF TypeOK, AnswerThrows, deviceVars, boundVars
<1>3. ASSUME NEW d \in Devices, Restart(d) PROVE TypeOK'
  <2>1. failed' \in BOOLEAN
    BY <1>3 DEF Restart
  <2>2. <<>> \in Seq(Writes)
    OBVIOUS
  <2> QED BY <1>3, <2>1, <2>2, BoundsAssumption DEF TypeOK, Restart, Statuses
<1>4. ASSUME NEW p \in Products, NewDuplicate(p) PROVE TypeOK'
  BY <1>4 DEF TypeOK, NewDuplicate, Statuses, deviceVars, queueVars,
              boundVars, historyVars
<1>5. ASSUME NEW d \in Devices, AnswerPrice(d) PROVE TypeOK'
  <2>1. Tail(answers[d]) \in Seq(Writes)
    BY <1>5, HeadTypes DEF AnswerPrice
  <2>2. answers' \in [Devices -> Seq(Writes)]
    BY <1>5, <2>1 DEF TypeOK, AnswerPrice
  <2>3. results' \in [Devices -> SUBSET Products]
    BY <1>5 DEF TypeOK, AnswerPrice, Listed
  <2> QED BY <1>5, <2>2, <2>3 DEF TypeOK, AnswerPrice, boundVars, historyVars
<1>6. CASE UNCHANGED vars
  BY <1>6 DEF TypeOK, vars, deviceVars, queueVars, boundVars, historyVars
<1> QED BY <1>1, <1>2, <1>3, <1>4, <1>5, <1>6, UserType, ReadType, TakeType,
           AnswerType DEF Next, Handled

\* Every reachable state is typed.
THEOREM TypeCorrect == Spec => []TypeOK
<1>1. Init => TypeOK
  BY InitType
<1>2. TypeOK /\ [Next]_vars => TypeOK'
  BY NextType
<1> QED BY <1>1, <1>2, PTL DEF Spec

-----------------------------------------------------------------------------
(* What a step does to the queues.                                         *)

\* Storing a write moves it from the outbox to the answers, if it has one.
LEMMA TakeQueues ==
  ASSUME TypeOK, NEW d \in Devices, TakeWrite(d), NEW e \in Devices, NEW w
  PROVE  LET h == Head(outbox[d]) IN
         /\ In(h, outbox[d])
         /\ In(w, outbox'[e]) => In(w, outbox[e])
         /\ In(w, outbox[e]) => In(w, outbox'[e]) \/ w = h
         /\ In(w, answers'[e]) => In(w, answers[e]) \/ (w = h /\ ~IsFollowUp(h))
         /\ In(w, answers[e]) => In(w, answers'[e])
         /\ ~IsFollowUp(h) => In(h, answers'[d])
<1> DEFINE h == Head(outbox[d])
<1>1. /\ outbox[d] \in Seq(Writes) /\ answers[d] \in Seq(Writes)
      /\ outbox[d] # <<>> /\ h \in Writes
  BY HeadTypes DEF TakeWrite
<1>2. /\ outbox'[d] = Tail(outbox[d])
      /\ e # d => outbox'[e] = outbox[e] /\ answers'[e] = answers[e]
      /\ IsFollowUp(h) => answers'[d] = answers[d]
      /\ ~IsFollowUp(h) => answers'[d] = Append(answers[d], h)
  BY DEF TakeWrite, TypeOK
<1>3. /\ In(h, outbox[d])
      /\ In(w, outbox'[d]) => In(w, outbox[d])
      /\ In(w, outbox[d]) => In(w, outbox'[d]) \/ w = h
  BY <1>1, <1>2, TailIn
<1> HIDE DEF h
<1>4. ASSUME ~IsFollowUp(h), NEW v
      PROVE  In(v, answers'[d]) <=> In(v, answers[d]) \/ v = h
  <2>1. answers'[d] = Append(answers[d], h)
    BY <1>2, <1>4
  <2>2. In(v, Append(answers[d], h)) <=> In(v, answers[d]) \/ v = h
    BY <1>1, AppendIn
  <2> QED BY <2>1, <2>2
<1>5. /\ In(w, outbox'[e]) => In(w, outbox[e])
      /\ In(w, outbox[e]) => In(w, outbox'[e]) \/ w = h
  BY <1>2, <1>3
<1>6. ~IsFollowUp(h) => In(h, answers'[d])
  BY <1>4
<1>7. /\ In(w, answers'[e]) => In(w, answers[e]) \/ (w = h /\ ~IsFollowUp(h))
      /\ In(w, answers[e]) => In(w, answers'[e])
  <2>1. CASE e # d
    BY <1>2, <2>1
  <2>2. CASE e = d /\ IsFollowUp(h)
    <3>1. answers'[d] = answers[d]
      BY <1>2, <2>2
    <3> QED BY <2>2, <3>1
  <2>3. CASE e = d /\ ~IsFollowUp(h)
    <3>1. In(w, answers'[d]) <=> In(w, answers[d]) \/ w = h
      BY <1>4, <2>3
    <3> QED BY <2>3, <3>1
  <2> QED BY <2>1, <2>2, <2>3
<1> QED BY <1>3, <1>5, <1>6, <1>7 DEF h

\* Handling an answer takes it from the answers and sends a follow-up for each
\* product it deactivates.
LEMMA AnswerQueues ==
  ASSUME TypeOK, NEW d \in Devices, Answer(d), NEW e \in Devices, NEW w
  PROVE  LET h == Head(answers[d])
             gone == Deactivated(sku[d], selected[d], h.others)
         IN
         /\ In(h, answers[d])
         /\ In(w, outbox'[e]) =>
               In(w, outbox[e]) \/ (\E p \in gone : w = FollowUp(p))
         /\ In(w, outbox[e]) => In(w, outbox'[e])
         /\ \A p \in gone : In(FollowUp(p), outbox'[d])
         /\ In(w, answers'[e]) => In(w, answers[e])
         /\ In(w, answers[e]) => In(w, answers'[e]) \/ w = h
<1> DEFINE h == Head(answers[d])
           gone == Deactivated(sku[d], selected[d], h.others)
<1>1. /\ outbox[d] \in Seq(Writes) /\ answers[d] \in Seq(Writes)
      /\ answers[d] # <<>> /\ h \in Writes
  BY HeadTypes DEF Answer
<1>2. gone \in SUBSET Products
  BY <1>1, WriteFields, DeactivatedType
<1>3. PICK walk \in Walks(gone) :
         outbox' = [outbox EXCEPT ![d] =
                      @ \o [i \in DOMAIN walk |-> FollowUp(walk[i])]]
  BY DEF Answer
<1> DEFINE sent == [i \in DOMAIN walk |-> FollowUp(walk[i])]
<1>4. /\ outbox'[d] = outbox[d] \o sent
      /\ answers'[d] = Tail(answers[d])
      /\ e # d => outbox'[e] = outbox[e] /\ answers'[e] = answers[e]
  BY <1>3 DEF Answer, TypeOK
<1>5. /\ sent \in Seq(Writes)
      /\ \A p \in gone : In(FollowUp(p), sent)
      /\ \A v : In(v, sent) => \E p \in gone : v = FollowUp(p)
  BY <1>2, WalkSends
<1> HIDE DEF sent, gone
<1>6. \A v : In(v, outbox'[d]) <=> In(v, outbox[d]) \/ In(v, sent)
  BY <1>1, <1>4, <1>5, ConcatIn
<1>7. /\ In(h, answers[d])
      /\ In(w, answers'[d]) => In(w, answers[d])
      /\ In(w, answers[d]) => In(w, answers'[d]) \/ w = h
  BY <1>1, <1>4, TailIn
<1> HIDE DEF h
<1>8. /\ In(w, outbox'[e]) =>
            In(w, outbox[e]) \/ (\E p \in gone : w = FollowUp(p))
      /\ In(w, outbox[e]) => In(w, outbox'[e])
      /\ \A p \in gone : In(FollowUp(p), outbox'[d])
  BY <1>4, <1>5, <1>6
<1>9. /\ In(w, answers'[e]) => In(w, answers[e])
      /\ In(w, answers[e]) => In(w, answers'[e]) \/ w = h
  BY <1>4, <1>7
<1> QED BY <1>7, <1>8, <1>9 DEF h, gone

\* A refusal, a handler that fails, and an ended app only lose writes and
\* answers, and are remembered if they do.
LEMMA LossQueues ==
  ASSUME TypeOK, NEW d \in Devices,
         RefuseWrite(d) \/ AnswerThrows(d) \/ Restart(d),
         NEW e \in Devices, NEW w
  PROVE  /\ In(w, outbox'[e]) => In(w, outbox[e])
         /\ In(w, answers'[e]) => In(w, answers[e])
         /\ failed => failed'
         /\ ~failed' => outbox' = outbox /\ answers' = answers
<1>1. CASE RefuseWrite(d)
  <2>1. In(w, Tail(outbox[d])) => In(w, outbox[d])
    BY <1>1, HeadTypes, TailIn DEF RefuseWrite
  <2> QED BY <1>1, <2>1 DEF RefuseWrite, TypeOK
<1>2. CASE AnswerThrows(d)
  <2>1. In(w, Tail(answers[d])) => In(w, answers[d])
    BY <1>2, HeadTypes, TailIn DEF AnswerThrows
  <2> QED BY <1>2, <2>1 DEF AnswerThrows, TypeOK
<1>3. CASE Restart(d)
  <2>1. ~In(w, <<>>)
    BY DEF In
  <2>2. /\ In(w, outbox'[e]) => In(w, outbox[e])
        /\ In(w, answers'[e]) => In(w, answers[e])
    BY <1>3, <2>1 DEF Restart, TypeOK
  <2>3. failed' <=> failed \/ outbox[d] # <<>> \/ answers[d] # <<>>
    BY <1>3 DEF Restart, TypeOK
  <2>4. ASSUME outbox[d] = <<>>, answers[d] = <<>>
        PROVE  outbox' = outbox /\ answers' = answers
    BY <1>3, <2>4 DEF Restart, TypeOK
  <2> QED BY <2>2, <2>3, <2>4
<1> QED BY <1>1, <1>2, <1>3

\* The answer to a new price is taken from the answers, and that is all.
LEMMA PriceQueues ==
  ASSUME TypeOK, NEW d \in Devices, AnswerPrice(d), NEW e \in Devices, NEW w
  PROVE  /\ outbox' = outbox
         /\ In(w, answers'[e]) => In(w, answers[e])
         /\ In(w, answers[e]) =>
               In(w, answers'[e]) \/ (w.others = {} /\ ~IsFollowUp(w))
         /\ UNCHANGED <<full, stored, historyVars>>
<1> DEFINE h == Head(answers[d])
<1>1. /\ answers[d] \in Seq(Writes) /\ answers[d] # <<>>
      /\ h \in Writes /\ IsPrice(h)
  BY HeadTypes DEF AnswerPrice
<1>2. h.others = {} /\ ~IsFollowUp(h)
  BY <1>1, WriteFields
<1>3. /\ In(w, Tail(answers[d])) => In(w, answers[d])
      /\ In(w, answers[d]) => w = h \/ In(w, Tail(answers[d]))
  BY <1>1, TailIn
<1>4. answers' = [answers EXCEPT ![d] = Tail(@)]
  BY DEF AnswerPrice
<1>5. outbox' = outbox /\ UNCHANGED <<full, stored, historyVars>>
  BY DEF AnswerPrice
<1> HIDE DEF h
<1>6. /\ In(w, answers'[e]) => In(w, answers[e])
      /\ In(w, answers[e]) => In(w, answers'[e]) \/ w = h
  BY <1>3, <1>4 DEF TypeOK
<1> QED BY <1>2, <1>5, <1>6

\* All other steps leave the queues alone, or add a change to an outbox.
LEMMA OtherQueues ==
  ASSUME TypeOK,
         \/ \E d \in Devices : User(d) \/ Load(d) \/ AnswerSearch(d)
         \/ \E p \in Products : NewDuplicate(p)
         \/ UNCHANGED vars,
         NEW e \in Devices, NEW w
  PROVE  /\ In(w, outbox[e]) => In(w, outbox'[e])
         /\ In(w, outbox'[e]) =>
               \/ In(w, outbox[e])
               \/ /\ w \in Writes /\ ~IsFollowUp(w)
                  /\ w.others \subseteq full[e]
         /\ answers' = answers
         /\ historyVars' = historyVars
<1>1. ASSUME NEW d \in Devices, Confirm(d)
      PROVE  /\ In(w, outbox[e]) => In(w, outbox'[e])
             /\ In(w, outbox'[e]) =>
                   \/ In(w, outbox[e])
                   \/ /\ w \in Writes /\ ~IsFollowUp(w)
                      /\ w.others \subseteq full[e]
             /\ answers' = answers
             /\ historyVars' = historyVars
  <2> DEFINE c == Change(confirms', sku[d], selected[d], full[d])
  <2>1. c \in Writes /\ ~IsFollowUp(c) /\ c.others = full[d]
    BY <1>1, BoundsAssumption
       DEF TypeOK, Confirm, Change, Write, Writes, IsFollowUp
  <2>2. In(w, Append(outbox[d], c)) <=> In(w, outbox[d]) \/ w = c
    BY <2>1, HeadTypes, AppendIn
  <2> HIDE DEF c
  <2>3. outbox' = [outbox EXCEPT ![d] = Append(@, c)]
    BY <1>1 DEF Confirm, c
  <2>4. answers' = answers /\ historyVars' = historyVars
    BY <1>1 DEF Confirm, historyVars
  <2> QED BY <2>1, <2>2, <2>3, <2>4 DEF TypeOK
<1>2. ASSUME NEW d \in Devices, Reprice(d)
      PROVE  /\ In(w, outbox[e]) => In(w, outbox'[e])
             /\ In(w, outbox'[e]) =>
                   \/ In(w, outbox[e])
                   \/ /\ w \in Writes /\ ~IsFollowUp(w)
                      /\ w.others \subseteq full[e]
             /\ answers' = answers
             /\ historyVars' = historyVars
  <2> DEFINE c == NewPrice(sku[d])
  <2>1. c \in Writes
    BY <1>2 DEF TypeOK, Reprice, Listed, Writes
  <2>2. ~IsFollowUp(c) /\ c.others = {}
    BY DEF NewPrice, Write, IsFollowUp
  <2>3. In(w, Append(outbox[d], c)) <=> In(w, outbox[d]) \/ w = c
    BY <2>1, HeadTypes, AppendIn
  <2> HIDE DEF c
  <2>4. outbox' = [outbox EXCEPT ![d] = Append(@, c)]
    BY <1>2 DEF Reprice, c
  <2>5. answers' = answers /\ historyVars' = historyVars
    BY <1>2 DEF Reprice, historyVars
  <2> QED BY <2>1, <2>2, <2>3, <2>4, <2>5 DEF TypeOK
<1>3. ASSUME NEW d \in Devices,
             \/ \E p \in Products : Choose(d, p)
             \/ OpenStatus(d) \/ Toggle(d) \/ Back(d)
             \/ Load(d) \/ AnswerSearch(d)
      PROVE  queueVars' = queueVars /\ historyVars' = historyVars
  BY <1>3 DEF Choose, OpenStatus, Toggle, Back, Load, AnswerSearch
<1>4. ASSUME NEW p \in Products, NewDuplicate(p)
      PROVE  queueVars' = queueVars /\ historyVars' = historyVars
  BY <1>4 DEF NewDuplicate
<1>5. CASE UNCHANGED vars
  BY <1>5 DEF vars, queueVars, historyVars
<1> QED BY <1>1, <1>2, <1>3, <1>4, <1>5 DEF User, queueVars

-----------------------------------------------------------------------------
(* The product activated last stays on sale.                               *)

\* A threat to p, by the elements of the queues.
LEMMA ThreatenedIn ==
  ASSUME NEW p
  PROVE  Threatened(p) <=>
           \E e \in Devices :
              \/ \E w : In(w, answers[e]) /\ Threat(w, p)
              \/ \E w : In(w, outbox[e]) /\ IsFollowUp(w) /\ w.for = p
  BY DEF Threatened, In

\* The same in the next state.
LEMMA ThreatenedInNext ==
  ASSUME NEW p
  PROVE  Threatened(p)' <=>
           \E e \in Devices :
              \/ \E w : In(w, answers'[e]) /\ Threat(w, p)
              \/ \E w : In(w, outbox'[e]) /\ IsFollowUp(w) /\ w.for = p
  BY DEF Threatened, In, Threat, IsFollowUp

\* The product in question may be named by a variable.
LEMMA ThreatenedWanted ==
  ASSUME NEW p
  PROVE  /\ p = wanted => (Threatened(wanted) <=> Threatened(p))
         /\ p = wanted' => (Threatened(wanted)' <=> Threatened(p)')
  BY DEF Threatened, Threat, IsFollowUp

\* Nothing under way may deactivate the product activated last, which is on
\* sale, unless the history says otherwise; and the answers are to changes.
Unthreatened ==
    wanted # NoProduct /\ ~crossed /\ ~astray =>
       stored[wanted] = "ACTIVE" /\ ~Threatened(wanted)

AnswersToChanges ==
    \A e \in Devices : \A w : In(w, answers[e]) => ~IsFollowUp(w)

\* A product that is not threatened stays so in a step that adds no threat.
LEMMA StaysUnthreatened ==
  ASSUME NEW p, ~Threatened(p),
         \A e \in Devices : \A w :
            /\ In(w, answers'[e]) => In(w, answers[e]) \/ ~Threat(w, p)
            /\ In(w, outbox'[e]) =>
                  In(w, outbox[e]) \/ ~(IsFollowUp(w) /\ w.for = p)
  PROVE  ~Threatened(p)'
  BY ThreatenedIn, ThreatenedInNext

\* Storing a write keeps the product activated last unthreatened.
LEMMA TakeUnthreatened ==
  ASSUME TypeOK, Unthreatened, NEW d \in Devices, TakeWrite(d)
  PROVE  Unthreatened'
<1> PICK h : h = Head(outbox[d])
  OBVIOUS
<1>1. h \in Writes /\ In(h, outbox[d]) /\ Remember(h)
  BY HeadTypes, TakeQueues DEF TakeWrite
<1>2. stored' = [stored EXCEPT ![h.for] = h.to]
  BY DEF TakeWrite
<1>3. \A e \in Devices : \A w :
         /\ In(w, outbox'[e]) => In(w, outbox[e])
         /\ In(w, answers'[e]) =>
               In(w, answers[e]) \/ (w = h /\ ~IsFollowUp(h))
  BY TakeQueues
<1>4. h.for \in Products /\ h.to \in Statuses
  BY <1>1, WriteFields
<1>5. CASE h.to = "ACTIVE" /\ ~IsPrice(h)
  <2>1. wanted' = h.for /\ (crossed' <=> Threatened(h.for))
    BY <1>1, <1>5 DEF Remember, Activated, Threatened
  <2>2. stored'[h.for] = "ACTIVE"
    BY <1>2, <1>4, <1>5 DEF TypeOK
  <2>3. ASSUME ~Threatened(h.for) PROVE ~Threatened(h.for)'
    <3>1. ~IsFollowUp(h) => ~Threat(h, h.for)
      BY DEF Threat
    <3> QED BY <1>3, <2>3, <3>1, StaysUnthreatened
  <2>4. Threatened(wanted)' <=> Threatened(h.for)'
    BY <2>1, ThreatenedWanted
  <2> QED BY <2>1, <2>2, <2>3, <2>4 DEF Unthreatened
<1>6. CASE h.to # "ACTIVE"
  <2> SUFFICES ASSUME wanted' # NoProduct, ~crossed', ~astray'
               PROVE  stored'[wanted'] = "ACTIVE" /\ ~Threatened(wanted)'
    BY DEF Unthreatened
  <2>1. /\ wanted' = wanted /\ crossed' = crossed /\ astray' = astray
        /\ h.for = wanted => IsFollowUp(h)
    <3>1. ~IsPrice(h)
      BY <1>1, <1>6, WriteFields
    <3> QED BY <1>1, <1>6, <3>1 DEF Remember, TakenOff
  <2> PICK p : p = wanted
    OBVIOUS
  <2>2. stored[p] = "ACTIVE" /\ ~Threatened(p)
    BY <2>1, ThreatenedWanted DEF Unthreatened
  <2>3. h.for # p
    BY <1>1, <2>1, <2>2, ThreatenedIn
  <2>4. stored'[p] = "ACTIVE"
    BY <1>2, <1>4, <2>1, <2>2, <2>3 DEF TypeOK
  <2>5. ~IsFollowUp(h) => ~Threat(h, p)
    BY <1>6 DEF Threat
  <2>6. ~Threatened(p)'
    BY <1>3, <2>2, <2>5, StaysUnthreatened
  <2> QED BY <2>1, <2>4, <2>6, ThreatenedWanted
<1>7. CASE IsPrice(h)
  <2> SUFFICES ASSUME wanted' # NoProduct, ~crossed', ~astray'
               PROVE  stored'[wanted'] = "ACTIVE" /\ ~Threatened(wanted)'
    BY DEF Unthreatened
  <2>1. wanted' = wanted /\ crossed' = crossed /\ astray' = astray
    BY <1>1, <1>7 DEF Remember, Repriced
  <2> PICK p : p = wanted
    OBVIOUS
  <2>2. stored[p] = "ACTIVE" /\ ~Threatened(p) /\ p \in Products
    BY <2>1, ThreatenedWanted DEF Unthreatened, TypeOK
  <2>3. stored'[p] = "ACTIVE"
    BY <1>1, <1>2, <1>4, <1>7, <2>2, WriteFields DEF TypeOK
  <2>4. ~Threat(h, p)
    BY <1>1, <1>7, WriteFields DEF Threat
  <2>5. ~Threatened(p)'
    BY <1>3, <2>2, <2>4, StaysUnthreatened
  <2> QED BY <2>1, <2>3, <2>5, ThreatenedWanted
<1> QED BY <1>5, <1>6, <1>7

\* So does an answer: it sends a follow-up for the product activated last only
\* if it was a threat before, or goes astray.
LEMMA AnswerUnthreatened ==
  ASSUME TypeOK, Unthreatened, AnswersToChanges, NEW d \in Devices, Answer(d)
  PROVE  Unthreatened'
<1> PICK h : h = Head(answers[d])
  OBVIOUS
<1> PICK p : p = wanted
  OBVIOUS
<1> SUFFICES ASSUME wanted' # NoProduct, ~crossed', ~astray'
             PROVE  stored'[wanted'] = "ACTIVE" /\ ~Threatened(wanted)'
  BY DEF Unthreatened
<1>1. /\ wanted' = wanted /\ crossed' = crossed /\ stored' = stored
      /\ ~astray /\ sku[d] = h.for /\ selected[d] = h.to
  BY DEF Answer
<1>2. stored[p] = "ACTIVE" /\ ~Threatened(p)
  BY <1>1, ThreatenedWanted DEF Unthreatened
<1> PICK gone : gone = Deactivated(h.for, h.to, h.others)
  OBVIOUS
<1>3. In(h, answers[d])
  BY AnswerQueues
<1>4. \A e \in Devices : \A w :
         /\ In(w, answers'[e]) => In(w, answers[e])
         /\ In(w, outbox'[e]) =>
               In(w, outbox[e]) \/ (\E q \in gone : w = FollowUp(q))
  BY <1>1, AnswerQueues
<1>5. ~Threat(h, p) /\ ~IsFollowUp(h)
  BY <1>2, <1>3, ThreatenedIn DEF AnswersToChanges
<1>6. p \notin gone
  BY <1>5 DEF Threat, Deactivated
<1>7. \A q \in gone : \A w : w = FollowUp(q) => w.for # p
  BY <1>6 DEF FollowUp, Write
<1>8. ~Threatened(p)'
  BY <1>2, <1>4, <1>7, StaysUnthreatened
<1> QED BY <1>1, <1>2, <1>8, ThreatenedWanted

\* The steps without a write or an answer change no status, but of a product
\* just added, and no history.
LEMMA OtherStored ==
  ASSUME TypeOK,
         \/ \E d \in Devices : User(d) \/ Load(d) \/ AnswerSearch(d)
         \/ \E p \in Products : NewDuplicate(p)
         \/ UNCHANGED vars
  PROVE  /\ \A p \in Products : stored[p] # "absent" => stored'[p] = stored[p]
         /\ UNCHANGED historyVars
<1>1. ASSUME NEW d \in Devices,
             User(d) \/ Load(d) \/ AnswerSearch(d)
      PROVE  stored' = stored /\ UNCHANGED historyVars
  BY <1>1 DEF User, Choose, OpenStatus, Toggle, Back, Confirm,
              Reprice, Load, AnswerSearch
<1>2. ASSUME NEW p \in Products, NewDuplicate(p)
      PROVE  /\ \A q \in Products : stored[q] # "absent" => stored'[q] = stored[q]
             /\ UNCHANGED historyVars
  BY <1>2 DEF NewDuplicate, TypeOK
<1>3. ASSUME UNCHANGED vars
      PROVE  stored' = stored /\ UNCHANGED historyVars
  BY <1>3 DEF vars, historyVars
<1> QED BY <1>1, <1>2, <1>3

\* The steps that lose writes or answers change nothing of the product
\* activated last.
LEMMA LossStored ==
  ASSUME NEW d \in Devices,
         RefuseWrite(d) \/ AnswerThrows(d) \/ Restart(d)
  PROVE  UNCHANGED <<stored, wanted, covers, crossed, astray>>
  BY DEF RefuseWrite, AnswerThrows, Restart

\* A step that adds no threat and keeps what is on sale there.
LEMMA KeepsUnthreatened ==
  ASSUME Unthreatened, TypeOK, UNCHANGED <<wanted, crossed, astray>>,
         \A p \in Products : stored[p] # "absent" => stored'[p] = stored[p],
         \A e \in Devices : \A w :
            /\ In(w, answers'[e]) => In(w, answers[e])
            /\ In(w, outbox'[e]) => In(w, outbox[e]) \/ ~IsFollowUp(w)
  PROVE  Unthreatened'
<1> SUFFICES ASSUME wanted' # NoProduct, ~crossed', ~astray'
             PROVE  stored'[wanted'] = "ACTIVE" /\ ~Threatened(wanted)'
  BY DEF Unthreatened
<1> PICK p : p = wanted
  OBVIOUS
<1>1. stored[p] = "ACTIVE" /\ ~Threatened(p)
  BY ThreatenedWanted DEF Unthreatened
<1>2. stored'[p] = "ACTIVE"
  BY <1>1 DEF TypeOK
<1>3. ~Threatened(p)'
  BY <1>1, StaysUnthreatened
<1> QED BY <1>2, <1>3, ThreatenedWanted

\* Every step keeps the product activated last unthreatened.
LEMMA NextUnthreatened ==
  ASSUME TypeOK, Unthreatened, AnswersToChanges, [Next]_vars
  PROVE  Unthreatened' /\ AnswersToChanges'
<1>1. ASSUME NEW d \in Devices, TakeWrite(d)
      PROVE  Unthreatened' /\ AnswersToChanges'
  <2>1. AnswersToChanges'
    BY <1>1, TakeQueues DEF AnswersToChanges
  <2> QED BY <1>1, <2>1, TakeUnthreatened
<1>2. ASSUME NEW d \in Devices, Answer(d)
      PROVE  Unthreatened' /\ AnswersToChanges'
  <2>1. AnswersToChanges'
    BY <1>2, AnswerQueues DEF AnswersToChanges
  <2> QED BY <1>2, <2>1, AnswerUnthreatened
<1>3. ASSUME NEW d \in Devices,
             RefuseWrite(d) \/ AnswerThrows(d) \/ Restart(d)
      PROVE  Unthreatened' /\ AnswersToChanges'
  <2>1. \A e \in Devices : \A w :
           /\ In(w, answers'[e]) => In(w, answers[e])
           /\ In(w, outbox'[e]) => In(w, outbox[e])
    BY <1>3, LossQueues
  <2>2. AnswersToChanges'
    BY <2>1 DEF AnswersToChanges
  <2> QED BY <1>3, <2>1, <2>2, LossStored, KeepsUnthreatened
<1>4. ASSUME \/ \E d \in Devices : User(d) \/ Load(d) \/ AnswerSearch(d)
             \/ \E p \in Products : NewDuplicate(p)
             \/ UNCHANGED vars
      PROVE  Unthreatened' /\ AnswersToChanges'
  <2>1. \A e \in Devices : \A w :
           /\ In(w, answers'[e]) => In(w, answers[e])
           /\ In(w, outbox'[e]) => In(w, outbox[e]) \/ ~IsFollowUp(w)
    BY <1>4, OtherQueues
  <2>2. AnswersToChanges'
    BY <2>1 DEF AnswersToChanges
  <2>3. UNCHANGED <<wanted, crossed, astray>>
    BY <1>4, OtherStored DEF historyVars
  <2>4. \A p \in Products : stored[p] # "absent" => stored'[p] = stored[p]
    BY <1>4, OtherStored
  <2> QED BY <2>1, <2>2, <2>3, <2>4, KeepsUnthreatened
<1>5. ASSUME NEW d \in Devices, AnswerPrice(d)
      PROVE  Unthreatened' /\ AnswersToChanges'
  <2>1. \A e \in Devices : \A w :
           /\ In(w, answers'[e]) => In(w, answers[e])
           /\ In(w, outbox'[e]) => In(w, outbox[e])
    BY <1>5, PriceQueues
  <2>2. AnswersToChanges'
    BY <2>1 DEF AnswersToChanges
  <2>3. UNCHANGED <<stored, wanted, crossed, astray>>
    BY <1>5 DEF AnswerPrice, historyVars
  <2> QED BY <2>1, <2>2, <2>3, KeepsUnthreatened
<1> QED BY <1>1, <1>2, <1>3, <1>4, <1>5 DEF Next, Handled

\* The product activated last stays on sale until its deactivation is confirmed
\* and stored, whatever searches, readings, refusals and ended apps come
\* between, unless something under way at its activation, or an answer gone
\* astray, deactivates it.
THEOREM LastActivatedStays == Spec => []LastActivatedIsActive
<1>1. Init => Unthreatened /\ AnswersToChanges
  BY DEF Init, Unthreatened, AnswersToChanges, In
<1>2. TypeOK /\ Unthreatened /\ AnswersToChanges /\ [Next]_vars
        => Unthreatened' /\ AnswersToChanges'
  BY NextUnthreatened
<1>3. Unthreatened => LastActivatedIsActive
  BY DEF Unthreatened, LastActivatedIsActive
<1> QED BY <1>1, <1>2, <1>3, TypeCorrect, PTL DEF Spec

-----------------------------------------------------------------------------
(* Its duplicates give way.                                                *)

\* The duplicates to give way exist, and so do those of any write under way.
DuplicatesKnown ==
    /\ wanted \notin covers
    /\ covers \subseteq Existing
    /\ \A e \in Devices :
          /\ full[e] \subseteq Existing
          /\ \A w : In(w, outbox[e]) => w.others \subseteq Existing

\* What gives way, by the elements of the queues.
GivesWay(d, q) ==
    \/ \E w : /\ In(w, answers[d])
              /\ w.to = "ACTIVE" /\ w.for = wanted /\ q \in w.others
    \/ \E w : In(w, outbox[d]) /\ IsFollowUp(w) /\ w.for = q

\* A product is giving way when some device's queue or answer makes it do so.
LEMMA GivingWayIn ==
  ASSUME NEW q
  PROVE  /\ GivingWay(q) <=> \E d \in Devices : GivesWay(d, q)
         /\ GivingWay(q)' <=> \E d \in Devices : GivesWay(d, q)'
  BY DEF GivingWay, GivesWay, In, IsFollowUp

\* Every step keeps what is known of the duplicates.
LEMMA NextKnown ==
  ASSUME TypeOK, DuplicatesKnown, [Next]_vars
  PROVE  DuplicatesKnown'
<1>1. ASSUME NEW d \in Devices, TakeWrite(d) PROVE DuplicatesKnown'
  <2> PICK h : h = Head(outbox[d])
    OBVIOUS
  <2>1. h \in Writes /\ In(h, outbox[d]) /\ Remember(h)
    BY <1>1, HeadTypes, TakeQueues DEF TakeWrite
  <2>2. h.for \in Products /\ h.to \in Statuses
    BY <2>1, WriteFields
  <2>3. Existing \subseteq Existing'
    BY <1>1, <2>2 DEF TakeWrite, Existing, TypeOK, Statuses
  <2>4. \A e \in Devices : \A w : In(w, outbox'[e]) => In(w, outbox[e])
    BY <1>1, TakeQueues
  <2>5. full' = full
    BY <1>1 DEF TakeWrite, deviceVars
  <2>6. wanted' \notin covers' /\ covers' \subseteq Existing
    <3>1. h.others \subseteq Existing
      BY <2>1 DEF DuplicatesKnown
    <3>2. NoProduct \notin covers
      BY ProductsAssumption DEF TypeOK
    <3>3. CASE Activated(h)
      BY <3>1, <3>3 DEF Activated
    <3>4. CASE Repriced(h) \/ TakenOff(h)
      BY <3>2, <3>4 DEF Repriced, TakenOff, DuplicatesKnown
    <3> QED BY <2>1, <3>3, <3>4 DEF Remember
  <2> QED BY <2>3, <2>4, <2>5, <2>6 DEF DuplicatesKnown
<1>2. ASSUME NEW d \in Devices, Answer(d) PROVE DuplicatesKnown'
  <2>1. UNCHANGED <<wanted, covers, full, stored>> /\ Existing' = Existing
    BY <1>2 DEF Answer, Existing
  <2>2. \A e \in Devices : \A w : In(w, outbox'[e]) =>
           In(w, outbox[e]) \/ w.others = {}
    BY <1>2, AnswerQueues DEF FollowUp, Write
  <2> QED BY <2>1, <2>2 DEF DuplicatesKnown
<1>3. ASSUME NEW d \in Devices,
             RefuseWrite(d) \/ AnswerThrows(d) \/ Restart(d)
      PROVE  DuplicatesKnown'
  <2>1. UNCHANGED <<wanted, covers, stored>> /\ Existing' = Existing
    BY <1>3, LossStored DEF Existing
  <2>2. \A e \in Devices : full'[e] \subseteq full[e]
    BY <1>3 DEF RefuseWrite, AnswerThrows, Restart, deviceVars, TypeOK
  <2>3. \A e \in Devices : \A w : In(w, outbox'[e]) => In(w, outbox[e])
    BY <1>3, LossQueues
  <2> QED BY <2>1, <2>2, <2>3 DEF DuplicatesKnown
<1>4. ASSUME \/ \E d \in Devices : User(d) \/ Load(d) \/ AnswerSearch(d)
             \/ \E p \in Products : NewDuplicate(p)
             \/ UNCHANGED vars
      PROVE  DuplicatesKnown'
  <2>1. UNCHANGED <<wanted, covers>>
    BY <1>4, OtherStored DEF historyVars
  <2>2. Existing \subseteq Existing'
    BY <1>4, OtherStored DEF Existing
  <2>3. \A e \in Devices : full'[e] \subseteq full[e] \cup Existing
    <3>1. ASSUME NEW d \in Devices, Load(d)
          PROVE  \A e \in Devices : full'[e] \subseteq full[e] \cup Existing
      <4>1. full' = [full EXCEPT ![d] = @ \cup Existing]
        BY <3>1 DEF Load
      <4> QED BY <4>1 DEF TypeOK
    <3>2. ASSUME NEW d \in Devices, User(d) \/ AnswerSearch(d)
          PROVE  full' = full
      BY <3>2 DEF User, Choose, OpenStatus, Toggle, Back, Confirm, Reprice,
                  AnswerSearch, deviceVars
    <3>3. ASSUME NEW p \in Products, NewDuplicate(p) PROVE full' = full
      BY <3>3 DEF NewDuplicate, deviceVars
    <3>4. ASSUME UNCHANGED vars PROVE full' = full
      BY <3>4 DEF vars, deviceVars
    <3> QED BY <1>4, <3>1, <3>2, <3>3, <3>4
  <2>4. \A e \in Devices : \A w : In(w, outbox'[e]) =>
           In(w, outbox[e]) \/ w.others \subseteq full[e]
    BY <1>4, OtherQueues
  <2> QED BY <2>1, <2>2, <2>3, <2>4 DEF DuplicatesKnown
<1>5. ASSUME NEW d \in Devices, AnswerPrice(d) PROVE DuplicatesKnown'
  BY <1>5 DEF AnswerPrice, DuplicatesKnown, Existing, historyVars
<1> QED BY <1>1, <1>2, <1>3, <1>4, <1>5 DEF Next, Handled

\* Every step lets the duplicates give way.
LEMMA NextGiveWay ==
  ASSUME TypeOK, DuplicatesKnown, DuplicatesGiveWay, [Next]_vars
  PROVE  DuplicatesGiveWay'
<1> SUFFICES ASSUME wanted' # NoProduct, ~astray', ~failed',
                    NEW q \in covers'
             PROVE  stored'[q] # "ACTIVE" \/ \E e \in Devices : GivesWay(e, q)'
  BY GivingWayIn DEF DuplicatesGiveWay
<1>1. ASSUME NEW d \in Devices, TakeWrite(d)
      PROVE  stored'[q] # "ACTIVE" \/ \E e \in Devices : GivesWay(e, q)'
  <2> PICK h : h = Head(outbox[d])
    OBVIOUS
  <2>1. h \in Writes /\ In(h, outbox[d]) /\ Remember(h)
    BY <1>1, HeadTypes, TakeQueues DEF TakeWrite
  <2>2. /\ \A e \in Devices : \A w :
              /\ In(w, outbox[e]) => In(w, outbox'[e]) \/ w = h
              /\ In(w, answers[e]) => In(w, answers'[e])
        /\ ~IsFollowUp(h) => In(h, answers'[d])
    BY <1>1, TakeQueues
  <2>3. stored' = [stored EXCEPT ![h.for] = h.to] /\ failed' = failed
    BY <1>1 DEF TakeWrite
  <2>4. h.for \in Products /\ h.to \in Statuses
    BY <2>1, WriteFields
  <2>5. CASE h.to = "ACTIVE" /\ ~IsPrice(h)
    <3>1. wanted' = h.for /\ q \in h.others
      BY <2>1, <2>5 DEF Remember, Activated
    <3>2. ~IsFollowUp(h)
      BY <2>1, <2>5, WriteFields
    <3>3. GivesWay(d, q)'
      BY <2>2, <2>5, <3>1, <3>2 DEF GivesWay
    <3> QED BY <3>3
  <2>6. CASE h.to # "ACTIVE"
    <3>0. ~IsPrice(h)
      BY <2>1, <2>6, WriteFields
    <3>1. wanted' = wanted /\ covers' = covers /\ astray' = astray
      BY <2>1, <2>6, <3>0 DEF Remember, TakenOff
    <3>2. stored[q] # "ACTIVE" \/ \E e \in Devices : GivesWay(e, q)
      BY <2>3, <3>1, GivingWayIn DEF DuplicatesGiveWay
    <3>3. q \in Products
      BY <3>1 DEF TypeOK
    <3>4. CASE h.for = q
      BY <2>3, <2>6, <3>3, <3>4 DEF TypeOK
    <3>5. CASE h.for # q
      <4>1. stored'[q] = stored[q]
        BY <2>3, <2>4, <3>3, <3>5 DEF TypeOK
      <4>2. ASSUME NEW e \in Devices, GivesWay(e, q) PROVE GivesWay(e, q)'
        BY <2>2, <3>1, <3>5, <4>2 DEF GivesWay
      <4> QED BY <3>2, <4>1, <4>2
    <3> QED BY <3>4, <3>5
  <2>7. CASE IsPrice(h)
    <3>1. /\ wanted' = wanted /\ astray' = astray
          /\ q \in covers /\ q # h.for
      BY <2>1, <2>7 DEF Remember, Repriced
    <3>2. stored[q] # "ACTIVE" \/ \E e \in Devices : GivesWay(e, q)
      BY <2>3, <3>1, GivingWayIn DEF DuplicatesGiveWay
    <3>3. stored'[q] = stored[q]
      BY <2>3, <2>4, <3>1 DEF TypeOK
    <3>4. ASSUME NEW e \in Devices, GivesWay(e, q) PROVE GivesWay(e, q)'
      BY <2>2, <3>1, <3>4 DEF GivesWay
    <3> QED BY <3>2, <3>3, <3>4
  <2> QED BY <2>5, <2>6, <2>7
<1>2. ASSUME NEW d \in Devices, Answer(d)
      PROVE  stored'[q] # "ACTIVE" \/ \E e \in Devices : GivesWay(e, q)'
  <2> PICK h : h = Head(answers[d])
    OBVIOUS
  <2>1. /\ UNCHANGED <<wanted, covers, stored, failed>>
        /\ ~astray /\ sku[d] = h.for /\ selected[d] = h.to
    BY <1>2 DEF Answer
  <2> PICK gone : gone = Deactivated(h.for, h.to, h.others)
    OBVIOUS
  <2>2. /\ \A e \in Devices : \A w :
              /\ In(w, outbox[e]) => In(w, outbox'[e])
              /\ In(w, answers[e]) => In(w, answers'[e]) \/ w = h
        /\ \A p \in gone : In(FollowUp(p), outbox'[d])
    BY <1>2, <2>1, AnswerQueues
  <2>3. stored[q] # "ACTIVE" \/ \E e \in Devices : GivesWay(e, q)
    BY <2>1, GivingWayIn DEF DuplicatesGiveWay
  <2>4. CASE h.to = "ACTIVE" /\ h.for = wanted /\ q \in h.others
    <3>1. q \in gone
      BY <2>1, <2>4 DEF Deactivated, DuplicatesKnown
    <3>2. IsFollowUp(FollowUp(q)) /\ FollowUp(q).for = q
      BY DEF IsFollowUp, FollowUp, Write
    <3>3. GivesWay(d, q)'
      BY <2>2, <3>1, <3>2 DEF GivesWay
    <3> QED BY <3>3
  <2>5. CASE ~(h.to = "ACTIVE" /\ h.for = wanted /\ q \in h.others)
    <3>1. ASSUME NEW e \in Devices, GivesWay(e, q) PROVE GivesWay(e, q)'
      BY <2>1, <2>2, <2>5, <3>1 DEF GivesWay
    <3> QED BY <2>1, <2>3, <3>1
  <2> QED BY <2>4, <2>5
<1>3. ASSUME NEW d \in Devices,
             RefuseWrite(d) \/ AnswerThrows(d) \/ Restart(d)
      PROVE  stored'[q] # "ACTIVE" \/ \E e \in Devices : GivesWay(e, q)'
  <2>1. UNCHANGED <<stored, wanted, covers, astray>>
    BY <1>3, LossStored
  <2>2. ~failed /\ outbox' = outbox /\ answers' = answers
    BY <1>3, LossQueues
  <2>3. stored[q] # "ACTIVE" \/ \E e \in Devices : GivesWay(e, q)
    BY <2>1, <2>2, GivingWayIn DEF DuplicatesGiveWay
  <2>4. ASSUME NEW e \in Devices, GivesWay(e, q) PROVE GivesWay(e, q)'
    BY <2>1, <2>2, <2>4 DEF GivesWay
  <2> QED BY <2>1, <2>3, <2>4
<1>4. ASSUME \/ \E d \in Devices : User(d) \/ Load(d) \/ AnswerSearch(d)
             \/ \E p \in Products : NewDuplicate(p)
             \/ UNCHANGED vars
      PROVE  stored'[q] # "ACTIVE" \/ \E e \in Devices : GivesWay(e, q)'
  <2>1. UNCHANGED <<wanted, covers, astray, failed>>
    BY <1>4, OtherStored DEF historyVars
  <2>2. stored'[q] = stored[q]
    <3>1. q \in Products /\ stored[q] # "absent"
      BY <2>1 DEF DuplicatesKnown, Existing
    <3>2. \A p \in Products : stored[p] # "absent" => stored'[p] = stored[p]
      BY <1>4, OtherStored
    <3> QED BY <3>1, <3>2
  <2>3. stored[q] # "ACTIVE" \/ \E e \in Devices : GivesWay(e, q)
    BY <2>1, GivingWayIn DEF DuplicatesGiveWay
  <2>4. \A e \in Devices : \A w :
           answers' = answers /\ (In(w, outbox[e]) => In(w, outbox'[e]))
    BY <1>4, OtherQueues
  <2>5. ASSUME NEW e \in Devices, GivesWay(e, q) PROVE GivesWay(e, q)'
    BY <2>1, <2>4, <2>5 DEF GivesWay
  <2> QED BY <2>2, <2>3, <2>5
<1>5. ASSUME NEW d \in Devices, AnswerPrice(d)
      PROVE  stored'[q] # "ACTIVE" \/ \E e \in Devices : GivesWay(e, q)'
  <2>1. outbox' = outbox /\ UNCHANGED <<stored, wanted, covers, astray, failed>>
    BY <1>5 DEF AnswerPrice, historyVars
  <2>2. \A e \in Devices : \A w :
           In(w, answers[e]) => In(w, answers'[e]) \/ w.others = {}
    BY <1>5, PriceQueues
  <2>3. stored[q] # "ACTIVE" \/ \E e \in Devices : GivesWay(e, q)
    BY <2>1, GivingWayIn DEF DuplicatesGiveWay
  <2>4. ASSUME NEW e \in Devices, GivesWay(e, q) PROVE GivesWay(e, q)'
    BY <2>1, <2>2, <2>4 DEF GivesWay
  <2> QED BY <2>1, <2>3, <2>4
<1> QED BY <1>1, <1>2, <1>3, <1>4, <1>5 DEF Next, Handled

\* A duplicate that an activation was confirmed to replace is off sale, or its
\* deactivation is still to come, or a new price has put it on sale again since,
\* unless a write is refused, the app ends, or a handler fails or goes astray.
THEOREM DuplicatesDoGiveWay == Spec => []DuplicatesGiveWay
<1>1. Init => DuplicatesKnown /\ DuplicatesGiveWay
  BY DEF Init, DuplicatesKnown, DuplicatesGiveWay, In
<1>2. TypeOK /\ DuplicatesKnown /\ DuplicatesGiveWay /\ [Next]_vars
        => DuplicatesKnown' /\ DuplicatesGiveWay'
  BY NextKnown, NextGiveWay
<1> QED BY <1>1, <1>2, TypeCorrect, PTL DEF Spec

=============================================================================
