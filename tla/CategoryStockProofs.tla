------------------------- MODULE CategoryStockProofs -------------------------
(***************************************************************************)
(* Proofs about CategoryStock, for any products and terminals: types, that *)
(* the outwards are gathered as Gathering promises, and that the list is   *)
(* shown only with one half of the position complete.  Both halves are     *)
(* counting arguments: a counter is compared with a product of two sizes,  *)
(* or with the size of the category.  An inward that is shown was stored,  *)
(* and an outward that is shown is at most what the terminals stored.      *)
(***************************************************************************)
EXTENDS CategoryStock, SumTheorems, FiniteSetTheorems, TLAPS

\* The initial state is typed.
LEMMA InitType == Init => TypeOK
<1> SUFFICES ASSUME Init PROVE TypeOK
  OBVIOUS
<1>1. /\ page \in {"categories", "products"} /\ visit \in 0 .. MaxVisits
      /\ listed \in SUBSET Products /\ processed \in Nat /\ inwardProcessed \in Nat
      /\ refusals \in 0 .. MaxRefusals
  BY BoundsAssumption DEF Init
<1>2. /\ retrievingOutward \in BOOLEAN /\ retrievingInward \in BOOLEAN
      /\ overlapped \in BOOLEAN
  BY Zenon DEF Init
<1>3. 0 \in 0 .. MaxQty
  BY BoundsAssumption
<1>4. /\ sale \in Figures /\ answered \in Figures
      /\ inward \in [Products -> 0 .. MaxQty]
      /\ storedInward \in [Products -> 0 .. MaxQty]
      /\ storedOutward \in [Products -> [Terminals -> 0 .. MaxQty]]
  BY <1>3 DEF Init, NoFigures, Figures
<1>5. reads \in SUBSET ReadSet /\ waiting \in SUBSET (Products \X Terminals)
  BY DEF Init
<1> QED
  BY <1>1, <1>2, <1>4, <1>5 DEF TypeOK

\* A visit starts from typed values.
LEMMA OpenType ==
  ASSUME NEW ps \in SUBSET Products, TypeOK, OpenCategory(ps)
  PROVE  TypeOK'
<1> DEFINE n == visit + 1
           asked == [visit : {n}, product : ps, from : Terminals \cup {Inwards}]
<1>1. n \in Visits /\ n \in 0 .. MaxVisits /\ visit' = n
  BY BoundsAssumption DEF OpenCategory, TypeOK, Visits
<1>2. asked \subseteq ReadSet
  BY <1>1 DEF ReadSet
<1>3. reads' = reads \cup asked
  BY DEF OpenCategory
<1> HIDE DEF n, asked
<1>4. reads' \in SUBSET ReadSet
  BY <1>2, <1>3 DEF TypeOK
<1>5. 0 \in 0 .. MaxQty
  BY BoundsAssumption
<1>6. /\ sale' \in Figures /\ answered' \in Figures
      /\ inward' \in [Products -> 0 .. MaxQty]
  BY <1>5 DEF OpenCategory, FiguresReset, NoFigures, Figures
<1>7. waiting' \in SUBSET (Products \X Terminals)
  BY DEF OpenCategory
<1>8. /\ page' \in {"categories", "products"} /\ listed' \in SUBSET Products
      /\ processed' \in Nat /\ inwardProcessed' \in Nat
      /\ retrievingOutward' \in BOOLEAN /\ retrievingInward' \in BOOLEAN
      /\ overlapped' \in BOOLEAN
  BY DEF OpenCategory
<1>9. UNCHANGED <<storedInward, storedOutward, refusals>>
  BY DEF OpenCategory, storeVars
<1> QED
  BY <1>1, <1>4, <1>6, <1>7, <1>8, <1>9 DEF TypeOK

\* An answer leaves typed counters and figures.
LEMMA AnswerType ==
  ASSUME NEW r \in reads, TypeOK, AnswerOutward(r) \/ AnswerInward(r)
  PROVE  TypeOK'
<1>1. /\ r.product \in Products /\ r.from \in Terminals \cup {Inwards}
      /\ reads' = reads \ {r}
  BY DEF TypeOK, ReadSet, AnswerOutward, AnswerInward
<1>2. CASE AnswerOutward(r)
  <2> DEFINE qty == storedOutward[r.product][r.from]
  <2>1. qty \in Nat /\ r.from \in Terminals
    BY <1>1, <1>2, BoundsAssumption DEF AnswerOutward, TypeOK
  <2>2. /\ sale' = [sale EXCEPT ![r.product] = @ + qty]
        /\ \/ answered' = [answered EXCEPT ![r.product] = @ + qty]
           \/ answered' = answered
        /\ processed' = processed + 1 \/ processed' = processed
        /\ waiting' \subseteq waiting
        /\ UNCHANGED <<page, visit, listed, inwardProcessed, retrievingInward,
                       inward, storedInward, storedOutward, refusals, overlapped>>
    BY <1>2 DEF AnswerOutward, CountsOutward, storeVars
  <2> HIDE DEF qty
  <2>3. sale' \in Figures /\ answered' \in Figures
    BY <1>1, <2>1, <2>2 DEF TypeOK, Figures
  <2>4. retrievingOutward' \in BOOLEAN
    BY <1>2 DEF AnswerOutward, TypeOK
  <2> QED BY <1>1, <2>2, <2>3, <2>4 DEF TypeOK
<1>3. CASE AnswerInward(r)
  <2> DEFINE qty == storedInward[r.product]
  <2>1. qty \in 0 .. MaxQty
    BY <1>1 DEF TypeOK
  <2>2. /\ inward' = [inward EXCEPT ![r.product] =
                            IF inward[r.product] = 0 THEN qty ELSE inward[r.product]]
        /\ \/ inwardProcessed' = inwardProcessed + 1
           \/ inwardProcessed' = inwardProcessed + 0
           \/ inwardProcessed' = inwardProcessed
        /\ UNCHANGED <<page, visit, listed, processed, retrievingOutward, sale,
                       storedInward, storedOutward, refusals,
                       waiting, answered, overlapped>>
    BY <1>3 DEF AnswerInward, InwardFigure, CountsInward, storeVars, historyVars
  <2> HIDE DEF qty
  <2>3. inward' \in [Products -> 0 .. MaxQty]
    BY <1>1, <2>1, <2>2 DEF TypeOK
  <2>4. retrievingInward' \in BOOLEAN
    BY <1>3 DEF AnswerInward, TypeOK
  <2> QED BY <1>1, <2>2, <2>3, <2>4 DEF TypeOK
<1> QED
  BY <1>2, <1>3

\* The page left, a refused read and the other pages keep every type.
LEMMA OtherType ==
  ASSUME TypeOK, Leave \/ Failure \/ World \/ UNCHANGED vars
  PROVE  TypeOK'
<1>1. CASE Leave
  BY <1>1 DEF Leave, TypeOK, stateVars, figureVars, storeVars, historyVars
<1>2. ASSUME NEW r \in reads, RefuseRead(r) PROVE TypeOK'
  <2>1. refusals' \in 0 .. MaxRefusals /\ reads' \in SUBSET ReadSet
    BY <1>2, BoundsAssumption DEF RefuseRead, TypeOK
  <2> QED
    BY <1>2, <2>1
    DEF RefuseRead, TypeOK, stateVars, figureVars, storeVars, historyVars
<1>3. ASSUME NEW p \in Products, RecordInward(p) PROVE TypeOK'
  <2>1. storedInward[p] + 1 \in 0 .. MaxQty
    BY <1>3, BoundsAssumption DEF RecordInward, TypeOK
  <2>2. storedInward' \in [Products -> 0 .. MaxQty]
    BY <1>3, <2>1 DEF RecordInward, TypeOK
  <2> QED
    BY <1>3, <2>2 DEF RecordInward, TypeOK, stateVars, figureVars, historyVars
<1>4. ASSUME NEW p \in Products, NEW t \in Terminals, RecordOutward(p, t)
      PROVE  TypeOK'
  <2>1. storedOutward[p][t] + 1 \in 0 .. MaxQty
    BY <1>4, BoundsAssumption DEF RecordOutward, TypeOK
  <2>2. storedOutward' \in [Products -> [Terminals -> 0 .. MaxQty]]
    BY <1>4, <2>1 DEF RecordOutward, TypeOK
  <2> QED
    BY <1>4, <2>2 DEF RecordOutward, TypeOK, stateVars, figureVars, historyVars
<1>5. CASE UNCHANGED vars
  BY <1>5 DEF vars, TypeOK, stateVars, figureVars, storeVars, historyVars
<1> QED
  BY <1>1, <1>2, <1>3, <1>4, <1>5 DEF Failure, World

\* Every step keeps every type.
LEMMA NextType == TypeOK /\ [Next]_vars => TypeOK'
BY OpenType, AnswerType, OtherType DEF Next, User, Network

\* Every reachable state is typed, for any products, terminals and bounds.
THEOREM TypeCorrect == Spec => []TypeOK
<1>1. Init => TypeOK
  BY InitType
<1>2. TypeOK /\ [Next]_vars => TypeOK'
  BY NextType
<1> QED
  BY <1>1, <1>2, PTL DEF Spec

-----------------------------------------------------------------------------
(* The outwards.                                                           *)

\* The outward reads of this visit are those it waits for; none is of a visit
\* to come.
OwnReads ==
    \A r \in reads :
        /\ r.visit <= visit
        /\ r.visit = visit /\ r.from \in Terminals
                => <<r.product, r.from>> \in waiting

\* processedCount counts the outward reads of this visit that were answered.
CountsAnswers ==
    waiting # {} =>
        /\ visit > 0 /\ retrievingOutward
        /\ waiting \subseteq listed \X Terminals
        /\ processed = ProcessCount - Cardinality(waiting)

\* Without an overlap no read of another visit is under way.
NoStrays ==
    ~overlapped =>
        /\ \A r \in reads : r.from \in Terminals => r.visit = visit
        /\ sale = answered

GatherInv == TypeOK /\ OwnReads /\ CountsAnswers /\ NoStrays

\* Nothing is under way before the first visit.
LEMMA InitGather == Init => GatherInv /\ Outward!Init
<1> SUFFICES ASSUME Init PROVE GatherInv /\ Outward!Init
  OBVIOUS
<1>1. OwnReads /\ CountsAnswers /\ NoStrays
  BY DEF Init, OwnReads, CountsAnswers, NoStrays
<1>2. /\ waiting = {} /\ sale = NoFigures /\ answered = NoFigures /\ visit = 0
      /\ overlapped = FALSE
  BY Zenon DEF Init
<1>3. Outward!Init
  BY <1>2 DEF Outward!Init, Outward!Zero, NoFigures
<1> QED
  BY <1>1, <1>3, InitType DEF GatherInv

\* The reads of a category are as many as its products times the terminals.
LEMMA ReadCount ==
  ASSUME NEW ps \in SUBSET Products
  PROVE  /\ IsFiniteSet(ps \X Terminals)
         /\ Cardinality(ps \X Terminals) = Cardinality(ps) * Cardinality(Terminals)
         /\ Cardinality(ps \X Terminals) \in Nat
<1>1. IsFiniteSet(ps)
  BY ProductsAssumption, FS_Subset
<1>2. /\ IsFiniteSet(ps \X Terminals)
      /\ Cardinality(ps \X Terminals) = Cardinality(ps) * Cardinality(Terminals)
  BY <1>1, TerminalsAssumption, FS_Product
<1> QED
  BY <1>2, FS_CardinalityType

\* A visit starts a gathering; it is spoiled if outward reads were under way.
LEMMA OpenGather ==
  ASSUME NEW ps \in SUBSET Products, GatherInv, TypeOK', OpenCategory(ps)
  PROVE  GatherInv' /\ Outward!Start
<1>1. /\ visit' = visit + 1 /\ listed' = ps /\ processed' = 0
      /\ retrievingOutward' = TRUE
      /\ sale' = NoFigures /\ answered' = NoFigures
      /\ reads' = reads \cup [visit : {visit'}, product : ps,
                              from : Terminals \cup {Inwards}]
      /\ waiting' = ps \X Terminals
      /\ overlapped' = (OutwardReads # {})
  BY DEF OpenCategory, FiguresReset
<1>2. visit \in Nat /\ \A r \in reads : r.visit \in 1 .. MaxVisits
  BY BoundsAssumption DEF GatherInv, TypeOK, ReadSet, Visits
<1>3. \A r \in reads : r.visit <= visit
  BY DEF GatherInv, OwnReads
<1>4. OwnReads'
  BY <1>1, <1>2, <1>3 DEF OwnReads
<1>5. CountsAnswers'
  <2>1. Cardinality(ps \X Terminals) = ProcessCount'
    BY <1>1, ReadCount DEF ProcessCount
  <2>2. 0 = ProcessCount' - Cardinality(ps \X Terminals)
    <3>1. ASSUME NEW c \in Nat PROVE 0 = c - c
      OBVIOUS
    <3> QED BY <2>1, <3>1, ReadCount
  <2>3. visit' > 0
    BY <1>1, <1>2
  <2>4. /\ waiting' \subseteq listed' \X Terminals
        /\ processed' = ProcessCount' - Cardinality(waiting')
    BY <1>1, <2>2
  <2> QED BY <1>1, <2>3, <2>4 DEF CountsAnswers
<1>6. NoStrays'
  BY <1>1 DEF NoStrays, OutwardReads
<1>7. Outward!Start
  BY <1>1 DEF Outward!Start, Outward!Zero, NoFigures
<1> QED
  BY <1>4, <1>5, <1>6, <1>7 DEF GatherInv

\* An outward answer is counted once, and the last one completes the figures.
LEMMA OutwardGather ==
  ASSUME NEW r \in reads, GatherInv, TypeOK', AnswerOutward(r)
  PROVE  GatherInv' /\ [Outward!Next]_(Outward!vars)
<1> DEFINE p == r.product
           pair == <<r.product, r.from>>
           qty == storedOutward[r.product][r.from]
<1>1. /\ p \in Products /\ r.from \in Terminals /\ pair \in Products \X Terminals
      /\ qty \in Nat
  BY BoundsAssumption DEF GatherInv, TypeOK, ReadSet, AnswerOutward
<1>2. /\ reads' = reads \ {r}
      /\ sale' = [sale EXCEPT ![p] = @ + qty]
      /\ IF r.visit = visit
         THEN /\ processed' = processed + 1
              /\ retrievingOutward' =
                    (retrievingOutward /\ processed' # ProcessCount)
              /\ waiting' = waiting \ {pair}
              /\ answered' = [answered EXCEPT ![p] = @ + qty]
         ELSE UNCHANGED <<processed, retrievingOutward, waiting, answered>>
      /\ UNCHANGED <<visit, listed, overlapped>>
  BY DEF AnswerOutward, CountsOutward
<1>3. /\ sale \in Figures /\ answered \in Figures
      /\ sale' \in Figures /\ answered' \in Figures
      /\ processed \in Nat /\ visit \in Nat
      /\ reads \subseteq ReadSet /\ listed \subseteq Products
      /\ waiting \in SUBSET (Products \X Terminals)
      /\ retrievingOutward \in BOOLEAN /\ retrievingOutward' \in BOOLEAN
      /\ overlapped \in BOOLEAN
  BY BoundsAssumption DEF GatherInv, TypeOK
<1> HIDE DEF p, pair, qty
<1>4. OwnReads'
  <2> SUFFICES ASSUME NEW s \in reads'
               PROVE  /\ s.visit <= visit'
                      /\ s.visit = visit' /\ s.from \in Terminals
                            => <<s.product, s.from>> \in waiting'
    BY DEF OwnReads
  <2>1. s \in reads /\ s # r
    BY <1>2
  <2>2. /\ s.visit <= visit
        /\ s.visit = visit /\ s.from \in Terminals => <<s.product, s.from>> \in waiting
    BY <2>1 DEF GatherInv, OwnReads
  <2>3. s.visit = visit /\ r.visit = visit => <<s.product, s.from>> # pair
    <3>1. s \in ReadSet /\ r \in ReadSet
      BY <1>3, <2>1
    <3> QED BY <2>1, <3>1 DEF ReadSet, pair
  <2> QED BY <1>2, <2>2, <2>3
<1>5. ASSUME r.visit = visit
      PROVE  /\ pair \in waiting /\ waiting # {}
             /\ ProcessCount' = ProcessCount
             /\ processed' = ProcessCount - Cardinality(waiting')
             /\ retrievingOutward' = (waiting' # {})
  <2>1. pair \in waiting
    BY <1>1, <1>5 DEF GatherInv, OwnReads, pair
  <2>2. /\ visit > 0 /\ retrievingOutward
        /\ waiting \subseteq listed \X Terminals
        /\ processed = ProcessCount - Cardinality(waiting)
    BY <2>1 DEF GatherInv, CountsAnswers
  <2>3. ProcessCount' = ProcessCount
    BY <1>2 DEF ProcessCount
  <2>4. ProcessCount \in Nat
    BY <1>3, ReadCount DEF ProcessCount
  <2>5. IsFiniteSet(waiting)
    BY <1>3, <2>2, ReadCount, FS_Subset
  <2>6. /\ IsFiniteSet(waiting')
        /\ Cardinality(waiting') = Cardinality(waiting) - 1
        /\ Cardinality(waiting) \in Nat
    BY <1>2, <1>5, <2>1, <2>5, FS_RemoveElement, FS_CardinalityType
  <2>7. Cardinality(waiting') \in Nat /\ (Cardinality(waiting') = 0 <=> waiting' = {})
    BY <2>6, FS_EmptySet, FS_CardinalityType
  <2>8. processed' = ProcessCount - Cardinality(waiting')
    BY <1>2, <1>5, <2>2, <2>4, <2>6
  <2>9. processed' # ProcessCount <=> waiting' # {}
    BY <2>4, <2>7, <2>8
  <2>10. retrievingOutward' = (waiting' # {})
    BY <1>2, <1>3, <1>5, <2>2, <2>9
  <2> QED BY <2>1, <2>3, <2>8, <2>10
<1>6. CountsAnswers'
  <2>1. CASE r.visit = visit
    <3>1. waiting' # {} => /\ visit' > 0
                           /\ waiting' \subseteq listed' \X Terminals
      BY <1>2, <1>5, <2>1 DEF GatherInv, CountsAnswers
    <3> QED BY <1>5, <2>1, <3>1 DEF CountsAnswers
  <2>2. CASE r.visit # visit
    <3>1. UNCHANGED <<processed, retrievingOutward, waiting, visit, listed>>
      BY <1>2, <2>2
    <3> QED BY <3>1 DEF GatherInv, CountsAnswers, ProcessCount
  <2> QED BY <2>1, <2>2
<1>7. ASSUME ~overlapped
      PROVE  /\ r.visit = visit /\ sale = answered /\ sale' = answered'
             /\ \A s \in reads' : s.from \in Terminals => s.visit = visit
  <2>1. /\ \A s \in reads : s.from \in Terminals => s.visit = visit
        /\ sale = answered
    BY <1>7 DEF GatherInv, NoStrays
  <2> QED BY <1>1, <1>2, <2>1
<1>8. NoStrays'
  BY <1>2, <1>7 DEF NoStrays
<1>9. CASE overlapped
  <2>1. waiting' \subseteq waiting
    BY <1>2
  <2>2. (visit' > 0 /\ ~retrievingOutward') \in BOOLEAN
    OBVIOUS
  <2>3. Outward!AnswerSpoiled
    BY <1>2, <1>3, <1>9, <2>1, <2>2
    DEF Outward!AnswerSpoiled, Outward!Sums, Figures
  <2> QED BY <1>4, <1>6, <1>8, <2>3 DEF GatherInv, Outward!Next
<1>10. CASE ~overlapped
  <2>1. \A k \in Products : /\ answered[k] <= answered'[k]
                            /\ sale'[k] = sale[k] + (answered'[k] - answered[k])
    BY <1>1, <1>2, <1>3, <1>7, <1>10 DEF Figures
  <2>2. sale' = [k \in Products |-> sale[k] + (answered'[k] - answered[k])]
    BY <1>3, <2>1 DEF Figures
  <2>3. (visit' > 0 /\ ~retrievingOutward') = (waiting' = {})
    <3>1. visit' > 0
      BY <1>2, <1>5, <1>7, <1>10 DEF GatherInv, CountsAnswers
    <3> QED BY <1>3, <1>5, <1>7, <1>10, <3>1
  <2>4. Outward!Answer(pair)
    BY <1>2, <1>3, <1>5, <1>7, <1>10, <2>1, <2>2, <2>3
    DEF Outward!Answer, Outward!Sums, Figures
  <2> QED BY <1>1, <1>4, <1>6, <1>8, <2>4 DEF GatherInv, Outward!Next
<1> QED
  BY <1>3, <1>9, <1>10

\* The other steps keep the outward figures, and at most end a read.
LEMMA IdleGather ==
  ASSUME GatherInv, TypeOK', reads' \subseteq reads,
         UNCHANGED <<visit, listed, processed, retrievingOutward, sale,
                     waiting, answered, overlapped>>
  PROVE  GatherInv' /\ UNCHANGED Outward!vars
<1>1. GatherInv'
  BY DEF GatherInv, OwnReads, CountsAnswers, ProcessCount, NoStrays
<1> QED
  BY <1>1 DEF Outward!vars

\* Every step keeps the counting invariant, and is a step of Gathering.
LEMMA NextGather ==
  GatherInv /\ [Next]_vars => GatherInv' /\ [Outward!Next]_(Outward!vars)
<1> SUFFICES ASSUME GatherInv, [Next]_vars
             PROVE  GatherInv' /\ [Outward!Next]_(Outward!vars)
  OBVIOUS
<1>0. TypeOK'
  BY NextType DEF GatherInv
<1>1. ASSUME NEW ps \in SUBSET Products, OpenCategory(ps)
      PROVE  GatherInv' /\ [Outward!Next]_(Outward!vars)
  BY <1>0, <1>1, OpenGather DEF Outward!Next
<1>2. ASSUME NEW r \in reads, AnswerOutward(r)
      PROVE  GatherInv' /\ [Outward!Next]_(Outward!vars)
  BY <1>0, <1>2, OutwardGather
<1>3. ASSUME NEW r \in reads, AnswerInward(r) \/ RefuseRead(r)
      PROVE  GatherInv' /\ [Outward!Next]_(Outward!vars)
  <2>1. /\ reads' \subseteq reads
        /\ UNCHANGED <<visit, listed, processed, retrievingOutward, sale,
                       waiting, answered, overlapped>>
    BY <1>3 DEF AnswerInward, RefuseRead, stateVars, figureVars, historyVars
  <2> QED BY <1>0, <2>1, IdleGather
<1>4. CASE Leave \/ World \/ UNCHANGED vars
  <2>1. /\ reads' \subseteq reads
        /\ UNCHANGED <<visit, listed, processed, retrievingOutward, sale,
                       waiting, answered, overlapped>>
    BY <1>4
    DEF Leave, World, RecordInward, RecordOutward, vars, stateVars, figureVars,
        historyVars
  <2> QED BY <1>0, <2>1, IdleGather
<1> QED
  BY <1>1, <1>2, <1>3, <1>4 DEF Next, User, Network, Failure

\* For any products and terminals: the outwards are complete when every
\* terminal has answered for every product, and not before, and are then the
\* sums of the answers, each counted once, unless the visit overlapped another.
THEOREM Refinement == Spec => ImplementsGathering
<1>1. Init => GatherInv /\ Outward!Init
  BY InitGather
<1>2. GatherInv /\ [Next]_vars => GatherInv' /\ [Outward!Next]_(Outward!vars)
  BY NextGather
<1> QED
  BY <1>1, <1>2, PTL DEF Spec, Outward!Spec, ImplementsGathering

-----------------------------------------------------------------------------
(* The inwards.                                                            *)

Unanswered(p) ==
    \E r \in reads : r.visit = visit /\ r.from = Inwards /\ r.product = p

\* Products whose inward is known and no longer asked for by this visit.
InwardDone == {p \in listed : inward[p] > 0 /\ ~Unanswered(p)}

InwardInv ==
    /\ GatherInv
    /\ \A r \in reads : r.visit = visit => r.product \in listed
    /\ inwardProcessed <= Cardinality(InwardDone)
    /\ ~retrievingInward => \A p \in listed : inward[p] > 0

\* Sets of products have sizes.
LEMMA ProductCount ==
  ASSUME NEW D \in SUBSET Products
  PROVE  IsFiniteSet(D) /\ Cardinality(D) \in Nat
BY ProductsAssumption, FS_Subset, FS_CardinalityType

\* A step that keeps the count and the known inwards keeps the invariant.
LEMMA IdleInward ==
  ASSUME InwardInv, GatherInv', reads' \subseteq reads,
         UNCHANGED <<visit, listed, inwardProcessed, retrievingInward>>,
         \A p \in Products : inward[p] > 0 => inward'[p] > 0
  PROVE  InwardInv'
<1>1. TypeOK /\ TypeOK'
  BY DEF InwardInv, GatherInv
<1>2. InwardDone \subseteq InwardDone'
  BY <1>1 DEF InwardDone, Unanswered, TypeOK
<1>3. InwardDone \in SUBSET Products /\ InwardDone' \in SUBSET Products
  BY <1>1 DEF InwardDone, TypeOK
<1>4. inwardProcessed' <= Cardinality(InwardDone')
  <2>1. /\ Cardinality(InwardDone) \in Nat /\ Cardinality(InwardDone') \in Nat
        /\ Cardinality(InwardDone) <= Cardinality(InwardDone')
    BY <1>2, <1>3, ProductCount, FS_Subset
  <2>2. inwardProcessed \in Nat /\ inwardProcessed <= Cardinality(InwardDone)
    BY <1>1 DEF TypeOK, InwardInv
  <2> QED BY <2>1, <2>2
<1>5. ~retrievingInward' => \A p \in listed' : inward'[p] > 0
  BY <1>1 DEF InwardInv, TypeOK
<1> QED
  BY <1>4, <1>5 DEF InwardInv

\* The inward of a product is counted once, if there is one.
LEMMA AnswerInwardInv ==
  ASSUME NEW r \in reads, InwardInv, GatherInv', AnswerInward(r)
  PROVE  InwardInv'
<1> DEFINE p == r.product
           qty == storedInward[p]
<1>1. /\ TypeOK /\ TypeOK'
      /\ r \in ReadSet /\ p \in Products /\ qty \in Nat
  BY BoundsAssumption DEF InwardInv, GatherInv, TypeOK, ReadSet
<1>2. /\ r.from = Inwards /\ reads' = reads \ {r}
      /\ inward' = [inward EXCEPT ![p] = IF inward[p] = 0 THEN qty ELSE inward[p]]
      /\ IF r.visit = visit
         THEN /\ inwardProcessed' = inwardProcessed + (IF qty > 0 THEN 1 ELSE 0)
              /\ retrievingInward' =
                    (retrievingInward /\ inwardProcessed' # Cardinality(listed))
         ELSE UNCHANGED <<inwardProcessed, retrievingInward>>
      /\ UNCHANGED <<visit, listed>>
  BY DEF AnswerInward, InwardFigure, CountsInward
<1> HIDE DEF p, qty
<1>3. /\ inward \in [Products -> 0 .. MaxQty] /\ inward' \in [Products -> 0 .. MaxQty]
      /\ inwardProcessed \in Nat /\ listed \in SUBSET Products
      /\ retrievingInward \in BOOLEAN /\ retrievingInward' \in BOOLEAN
  BY <1>1 DEF TypeOK
<1>4. \A q \in Products : inward[q] > 0 => inward'[q] > 0
  BY <1>1, <1>2, <1>3, BoundsAssumption
<1>5. reads' \subseteq reads
  BY <1>2
<1>6. CASE ~(r.visit = visit /\ qty > 0)
  <2>1. UNCHANGED inwardProcessed
    BY <1>2, <1>3, <1>6
  <2>2. CASE retrievingInward' = retrievingInward
    BY <1>2, <1>4, <1>5, <2>1, <2>2, IdleInward
  <2>3. CASE retrievingInward' # retrievingInward
    <3>1. r.visit = visit /\ ~retrievingInward' /\ inwardProcessed = Cardinality(listed)
      BY <1>2, <1>3, <2>1, <2>3
    <3>2. InwardDone \in SUBSET Products /\ InwardDone \subseteq listed
      BY <1>3 DEF InwardDone
    <3>3. /\ IsFiniteSet(listed) /\ Cardinality(listed) \in Nat
          /\ Cardinality(InwardDone) \in Nat
          /\ Cardinality(InwardDone) <= Cardinality(listed)
          /\ Cardinality(listed) = Cardinality(InwardDone) => listed = InwardDone
      BY <1>3, <3>2, ProductCount, FS_Subset
    <3>4. inwardProcessed <= Cardinality(InwardDone)
      BY DEF InwardInv
    <3>5. listed = InwardDone
      BY <3>1, <3>3, <3>4
    <3>6. \A q \in listed : inward[q] > 0 /\ ~Unanswered(q)
      BY <3>5 DEF InwardDone
    <3>7. Unanswered(p) /\ p \in listed
      BY <1>2, <3>1 DEF Unanswered, InwardInv, p
    <3> QED BY <3>6, <3>7
  <2> QED BY <2>2, <2>3
<1>7. CASE r.visit = visit /\ qty > 0
  <2>1. p \in listed /\ Unanswered(p) /\ p \notin InwardDone
    BY <1>2, <1>7 DEF InwardInv, Unanswered, InwardDone, p
  <2>2. ~Unanswered(p)'
    <3> SUFFICES ASSUME NEW s \in reads', s.visit = visit, s.from = Inwards, s.product = p
                 PROVE  FALSE
      BY <1>2 DEF Unanswered
    <3>1. s \in ReadSet /\ s # r
      BY <1>1, <1>2 DEF TypeOK
    <3> QED BY <1>1, <1>2, <1>7, <3>1 DEF ReadSet, p
  <2>3. inward'[p] > 0
    BY <1>1, <1>2, <1>3, <1>7, BoundsAssumption
  <2>4. InwardDone \cup {p} \subseteq InwardDone'
    <3>1. p \in InwardDone'
      BY <1>2, <2>1, <2>2, <2>3 DEF InwardDone
    <3>2. InwardDone \subseteq InwardDone'
      BY <1>2, <1>3, <1>4, <1>5 DEF InwardDone, Unanswered
    <3> QED BY <3>1, <3>2
  <2>5. /\ InwardDone \in SUBSET Products /\ InwardDone' \in SUBSET Products
        /\ InwardDone' \subseteq listed
    BY <1>2, <1>3 DEF InwardDone
  <2>6. /\ Cardinality(InwardDone) \in Nat /\ Cardinality(InwardDone') \in Nat
        /\ Cardinality(InwardDone \cup {p}) = Cardinality(InwardDone) + 1
        /\ Cardinality(InwardDone \cup {p}) <= Cardinality(InwardDone')
    BY <2>1, <2>4, <2>5, ProductCount, FS_AddElement, FS_Subset
  <2>7. inwardProcessed' <= Cardinality(InwardDone')
    BY <1>2, <1>3, <1>7, <2>6 DEF InwardInv
  <2>8. ~retrievingInward' => \A q \in listed' : inward'[q] > 0
    <3>1. CASE ~retrievingInward
      BY <1>2, <1>3, <1>4, <3>1 DEF InwardInv
    <3>2. CASE retrievingInward /\ ~retrievingInward'
      <4>1. inwardProcessed' = Cardinality(listed) /\ listed' = listed
        BY <1>2, <1>3, <1>7, <3>2
      <4>2. /\ IsFiniteSet(listed) /\ Cardinality(listed) \in Nat
            /\ Cardinality(InwardDone') <= Cardinality(listed)
            /\ Cardinality(listed) = Cardinality(InwardDone') => listed = InwardDone'
        BY <1>3, <2>5, ProductCount, FS_Subset
      <4>3. listed = InwardDone'
        BY <2>6, <2>7, <4>1, <4>2
      <4> QED BY <4>1, <4>3 DEF InwardDone
    <3> QED BY <3>1, <3>2
  <2>9. \A s \in reads' : s.visit = visit' => s.product \in listed'
    BY <1>2 DEF InwardInv
  <2> QED BY <2>7, <2>8, <2>9 DEF InwardInv
<1> QED
  BY <1>6, <1>7

\* For any products and terminals, the list is shown with the outwards of
\* every product or with the inward of every product, never with neither.
THEOREM OneHalf == Spec => []ListHasOneHalf
<1>1. Init => InwardInv
  <2> SUFFICES ASSUME Init PROVE InwardInv
    OBVIOUS
  <2>1. reads = {} /\ listed = {} /\ inwardProcessed = 0 /\ InwardDone = {}
    BY DEF Init, InwardDone
  <2> QED BY <2>1, InitGather, FS_EmptySet DEF InwardInv
<1>2. InwardInv /\ [Next]_vars => InwardInv'
  <2> SUFFICES ASSUME InwardInv, [Next]_vars PROVE InwardInv'
    OBVIOUS
  <2>0. TypeOK /\ GatherInv /\ GatherInv'
    BY NextGather DEF InwardInv, GatherInv
  <2>1. ASSUME NEW ps \in SUBSET Products, OpenCategory(ps) PROVE InwardInv'
    <3>1. /\ visit' = visit + 1 /\ listed' = ps /\ inwardProcessed' = 0
          /\ retrievingInward' = TRUE
          /\ reads' = reads \cup [visit : {visit'}, product : ps,
                                  from : Terminals \cup {Inwards}]
      BY <2>1 DEF OpenCategory
    <3>2. \A r \in reads : r.visit <= visit /\ r.visit \in Nat
      <4> SUFFICES ASSUME NEW r \in reads
                   PROVE  r.visit <= visit /\ r.visit \in Nat
        OBVIOUS
      <4>1. OwnReads
        BY <2>0 DEF GatherInv
      <4>2. r \in ReadSet
        BY <2>0 DEF TypeOK
      <4>3. r.visit \in Visits
        BY <4>2 DEF ReadSet
      <4>4. r.visit \in Nat
        BY <4>3, BoundsAssumption DEF Visits
      <4> QED BY <4>1, <4>4 DEF OwnReads
    <3>3. \A r \in reads' : r.visit = visit' => r.product \in listed'
      <4> SUFFICES ASSUME NEW r \in reads', r.visit = visit'
                   PROVE  r.product \in listed'
        OBVIOUS
      <4>1. visit \in Nat
        BY <2>0, BoundsAssumption DEF TypeOK
      <4>2. r \notin reads
        BY <3>1, <3>2, <4>1
      <4>3. r \in [visit : {visit'}, product : ps,
                   from : Terminals \cup {Inwards}]
        BY <3>1, <4>2
      <4> QED BY <3>1, <4>3
    <3>4. InwardDone' \in SUBSET Products
      BY <3>1 DEF InwardDone
    <3>5. 0 <= Cardinality(InwardDone')
      BY <3>4, ProductCount
    <3> QED BY <2>0, <3>1, <3>3, <3>5 DEF InwardInv
  <2>2. ASSUME NEW r \in reads, AnswerInward(r) PROVE InwardInv'
    BY <2>0, <2>2, AnswerInwardInv
  <2>3. ASSUME NEW r \in reads, AnswerOutward(r) \/ RefuseRead(r) PROVE InwardInv'
    <3>1. /\ reads' \subseteq reads
          /\ UNCHANGED <<visit, listed, inwardProcessed, retrievingInward>>
          /\ \A p \in Products : inward[p] > 0 => inward'[p] > 0
      BY <2>3 DEF AnswerOutward, RefuseRead, stateVars, figureVars
    <3> QED BY <2>0, <3>1, IdleInward
  <2>4. CASE Leave \/ World \/ UNCHANGED vars
    <3>1. /\ reads' \subseteq reads
          /\ UNCHANGED <<visit, listed, inwardProcessed, retrievingInward>>
          /\ \A p \in Products : inward[p] > 0 => inward'[p] > 0
      BY <2>4
      DEF Leave, World, RecordInward, RecordOutward, vars, stateVars, figureVars
    <3> QED BY <2>0, <3>1, IdleInward
  <2> QED
    BY <2>1, <2>2, <2>3, <2>4 DEF Next, User, Network, Failure
<1>3. InwardInv => ListHasOneHalf
  BY DEF InwardInv, GatherInv, CountsAnswers, ListHasOneHalf, ListShown
<1> QED
  BY <1>1, <1>2, <1>3, PTL DEF Spec
-----------------------------------------------------------------------------
(* The inward figure.                                                      *)

\* For any products: the inward shown is never more than the database holds,
\* whichever visit's answers wrote it; the figure that stays is the first.
THEOREM InwardBacked == Spec => []InwardIsBacked
<1>1. Init => InwardIsBacked
  BY DEF Init, InwardIsBacked, NoFigures
<1>2. TypeOK /\ InwardIsBacked /\ [Next]_vars => InwardIsBacked'
  <2> SUFFICES ASSUME TypeOK, InwardIsBacked, [Next]_vars PROVE InwardIsBacked'
    OBVIOUS
  <2>1. /\ inward \in [Products -> 0 .. MaxQty] /\ MaxQty \in Nat
        /\ storedInward \in [Products -> 0 .. MaxQty]
    BY BoundsAssumption DEF TypeOK
  <2>2. ASSUME UNCHANGED <<inward, storedInward>> PROVE InwardIsBacked'
    BY <2>2 DEF InwardIsBacked
  <2>3. ASSUME NEW ps, OpenCategory(ps) PROVE InwardIsBacked'
    BY <2>1, <2>3 DEF OpenCategory, NoFigures, storeVars, InwardIsBacked
  <2>4. ASSUME NEW r \in reads, AnswerInward(r) PROVE InwardIsBacked'
    <3>1. /\ inward' = [inward EXCEPT ![r.product] =
                            IF inward[r.product] = 0
                            THEN storedInward[r.product] ELSE inward[r.product]]
          /\ storedInward' = storedInward
      BY <2>4 DEF AnswerInward, InwardFigure, storeVars
    <3>2. r.product \in Products
      BY DEF TypeOK, ReadSet
    <3> QED BY <2>1, <3>1, <3>2 DEF InwardIsBacked
  <2>5. ASSUME NEW p \in Products, RecordInward(p) PROVE InwardIsBacked'
    BY <2>1, <2>5 DEF RecordInward, figureVars, InwardIsBacked
  <2>6. CASE Leave \/ (\E r \in reads : AnswerOutward(r) \/ RefuseRead(r))
             \/ (\E p \in Products, t \in Terminals : RecordOutward(p, t))
             \/ UNCHANGED vars
    BY <2>2, <2>6
    DEF Leave, AnswerOutward, RefuseRead, RecordOutward, vars, figureVars,
        storeVars
  <2> QED
    BY <2>3, <2>4, <2>5, <2>6 DEF Next, User, Network, Failure, World
<1> QED
  BY <1>1, <1>2, TypeCorrect, PTL DEF Spec
-----------------------------------------------------------------------------
(* The outward figure.                                                     *)

\* The terminals this visit does not wait for.
Answering(p) == {t \in Terminals : <<p, t>> \notin waiting}

\* Unless the visit overlapped, the outward of a product is at most what the
\* terminals that have answered for it hold.
OutwardInv ==
    ~overlapped => \A p \in Products :
        sale[p] <= SumFunctionOnSet(storedOutward[p], Answering(p))

\* The outwards of a product can be added up, over any terminals.
LEMMA OutwardSummable ==
  ASSUME NEW f \in [Terminals -> 0 .. MaxQty], NEW T \in SUBSET Terminals
  PROVE  /\ Summable(f, T) /\ NonNegative(f, T)
         /\ SumFunctionOnSet(f, T) \in Int /\ SumFunctionOnSet(f, T) >= 0
<1>1. IsFiniteSet(T) /\ MaxQty \in Nat
  BY TerminalsAssumption, BoundsAssumption, FS_Subset
<1>2. Summable(f, T) /\ NonNegative(f, T)
  BY <1>1 DEF Summable, NonNegative
<1>3. SumFunctionOnSet(f, {}) <= SumFunctionOnSet(f, T)
  BY <1>2, PartAtMost
<1> QED BY <1>2, <1>3, SumOfNone, SumType

\* Steps that leave the answers alone keep the figures backed.
LEMMA IdleOutward ==
  ASSUME TypeOK, TypeOK', OutwardInv, UNCHANGED <<sale, waiting, overlapped>>,
         \A p \in Products : NoMore(storedOutward[p], storedOutward'[p], Terminals)
  PROVE  OutwardInv'
<1> SUFFICES ASSUME ~overlapped, NEW p \in Products
             PROVE  sale[p] <= SumFunctionOnSet(storedOutward'[p], Answering(p)')
  BY DEF OutwardInv
<1>1. Answering(p)' = Answering(p) /\ Answering(p) \in SUBSET Terminals
  BY DEF Answering
<1>2. /\ storedOutward[p] \in [Terminals -> 0 .. MaxQty]
      /\ sale[p] \in Nat
  BY DEF TypeOK, Figures
<1>3. storedOutward'[p] \in [Terminals -> 0 .. MaxQty]
  BY DEF TypeOK
<1>4. NoMore(storedOutward[p], storedOutward'[p], Answering(p))
  BY <1>1 DEF NoMore
<1>5. PICK a, b : /\ a = SumFunctionOnSet(storedOutward[p], Answering(p))
                  /\ b = SumFunctionOnSet(storedOutward'[p], Answering(p))
  OBVIOUS
<1>6. a <= b /\ a \in Int /\ b \in Int
  BY <1>1, <1>2, <1>3, <1>4, <1>5, OutwardSummable, SumAtMost
<1>7. sale[p] <= a
  BY <1>5 DEF OutwardInv
<1> QED BY <1>1, <1>2, <1>5, <1>6, <1>7

\* An answer adds what its terminal holds to the figure of its product.
LEMMA AnswerOutwardInv ==
  ASSUME NEW r \in reads, GatherInv, GatherInv', OutwardInv, AnswerOutward(r)
  PROVE  OutwardInv'
<1> SUFFICES ASSUME ~overlapped', NEW p \in Products
             PROVE  sale'[p] <= SumFunctionOnSet(storedOutward'[p], Answering(p)')
  BY DEF OutwardInv
<1> PICK q, t, qty : q = r.product /\ t = r.from /\ qty = storedOutward[q][t]
  OBVIOUS
<1>1. /\ t \in Terminals /\ sale' = [sale EXCEPT ![q] = @ + qty]
      /\ r.visit = visit => waiting' = waiting \ {<<q, t>>}
      /\ UNCHANGED <<storedOutward, overlapped>>
  BY DEF AnswerOutward, storeVars
<1>2. TypeOK /\ q \in Products
  BY DEF GatherInv, TypeOK, ReadSet
<1>3. r.visit = visit /\ <<q, t>> \in waiting
  BY <1>1 DEF GatherInv, NoStrays, OwnReads
<1>4. waiting' = waiting \ {<<q, t>>}
  BY <1>1, <1>3
<1>5. sale[p] <= SumFunctionOnSet(storedOutward[p], Answering(p))
  BY <1>1 DEF OutwardInv
<1>6. storedOutward[p] \in [Terminals -> 0 .. MaxQty] /\ sale \in [Products -> Nat]
  BY <1>2 DEF TypeOK, Figures
<1>7. Answering(p) \in SUBSET Terminals
  BY DEF Answering
<1>8. CASE p = q
  <2>1. /\ Answering(p)' = Answering(p) \cup {t} /\ t \notin Answering(p)
        /\ Answering(p) \cup {t} \in SUBSET Terminals
    BY <1>1, <1>3, <1>4, <1>8 DEF Answering
  <2>2. SumFunctionOnSet(storedOutward[p], Answering(p) \cup {t})
          = storedOutward[p][t] + SumFunctionOnSet(storedOutward[p], Answering(p))
    <3>1. PICK f \in [Terminals -> 0 .. MaxQty] : f = storedOutward[p]
      BY <1>6
    <3>2. Summable(f, Answering(p) \cup {t})
      BY <2>1, OutwardSummable
    <3>3. SumFunctionOnSet(f, Answering(p) \cup {t})
            = f[t] + SumFunctionOnSet(f, Answering(p))
      BY <2>1, <3>2, SumGains
    <3> QED BY <3>1, <3>3
  <2>3. qty \in Nat /\ qty = storedOutward[p][t]
    BY <1>1, <1>6, <1>8, BoundsAssumption
  <2>4. sale'[p] = sale[p] + qty /\ sale[p] \in Nat
    BY <1>1, <1>2, <1>6, <1>8
  <2>5. SumFunctionOnSet(storedOutward[p], Answering(p)) \in Int
    BY <1>6, <1>7, OutwardSummable
  <2> QED BY <1>1, <1>5, <2>1, <2>2, <2>3, <2>4, <2>5
<1>9. CASE p # q
  <2>1. Answering(p)' = Answering(p) /\ sale'[p] = sale[p]
    BY <1>1, <1>4, <1>6, <1>9 DEF Answering
  <2> QED BY <1>1, <1>5, <2>1
<1> QED BY <1>8, <1>9

\* For any products and terminals: the outward shown is never more than the
\* terminals hold, unless the visit overlapped another.
THEOREM OutwardBacked == Spec => []OutwardIsBacked
<1>1. Init => GatherInv /\ OutwardInv
  <2> SUFFICES ASSUME Init, NEW p \in Products
               PROVE  sale[p] <= SumFunctionOnSet(storedOutward[p], Answering(p))
    BY InitGather DEF OutwardInv
  <2>1. Answering(p) \in SUBSET Terminals /\ storedOutward[p] \in [Terminals -> 0 .. MaxQty]
    BY InitType DEF Answering, TypeOK
  <2>2. sale[p] = 0
    BY DEF Init, NoFigures
  <2> QED BY <2>1, <2>2, OutwardSummable
<1>2. GatherInv /\ OutwardInv /\ [Next]_vars => GatherInv' /\ OutwardInv'
  <2> SUFFICES ASSUME GatherInv, OutwardInv, [Next]_vars
               PROVE  GatherInv' /\ OutwardInv'
    OBVIOUS
  <2>1. GatherInv' /\ TypeOK /\ TypeOK'
    BY NextGather DEF GatherInv
  <2>2. ASSUME NEW ps \in SUBSET Products, OpenCategory(ps) PROVE OutwardInv'
    <3> SUFFICES ASSUME NEW p \in Products
                 PROVE  sale'[p] <= SumFunctionOnSet(storedOutward'[p], Answering(p)')
      BY DEF OutwardInv
    <3>1. sale'[p] = 0
      BY <2>2 DEF OpenCategory, FiguresReset, NoFigures
    <3>2. /\ Answering(p)' \in SUBSET Terminals
          /\ storedOutward'[p] \in [Terminals -> 0 .. MaxQty]
      BY <2>1 DEF Answering, TypeOK
    <3> QED BY <3>1, <3>2, OutwardSummable
  <2>3. ASSUME NEW r \in reads, AnswerOutward(r) PROVE OutwardInv'
    BY <2>1, <2>3, AnswerOutwardInv
  <2>4. \A p \in Products, t \in Terminals : storedOutward[p][t] \in Nat
    BY <2>1, BoundsAssumption DEF TypeOK
  <2>5. ASSUME UNCHANGED <<sale, waiting, overlapped, storedOutward>>
        PROVE  OutwardInv'
    <3>1. \A p \in Products : NoMore(storedOutward[p], storedOutward'[p], Terminals)
      BY <2>4, <2>5 DEF NoMore
    <3> QED BY <2>1, <2>5, <3>1, IdleOutward
  <2>6. ASSUME NEW q \in Products, NEW u \in Terminals, RecordOutward(q, u)
        PROVE  OutwardInv'
    <3>1. /\ storedOutward' = [storedOutward EXCEPT ![q][u] = @ + 1]
          /\ UNCHANGED <<sale, waiting, overlapped>>
      BY <2>6 DEF RecordOutward, figureVars, historyVars
    <3>2. \A p \in Products, t \in Terminals :
             storedOutward[p][t] <= storedOutward'[p][t]
      BY <2>1, <2>4, <3>1 DEF TypeOK
    <3>3. \A p \in Products : NoMore(storedOutward[p], storedOutward'[p], Terminals)
      BY <3>2 DEF NoMore
    <3> QED BY <2>1, <3>1, <3>3, IdleOutward
  <2>7. CASE Leave \/ (\E r \in reads : AnswerInward(r) \/ RefuseRead(r))
             \/ (\E p \in Products : RecordInward(p)) \/ UNCHANGED vars
    <3>1. UNCHANGED <<sale, waiting, overlapped, storedOutward>>
      BY <2>7
      DEF Leave, AnswerInward, RefuseRead, RecordInward, vars, figureVars,
          storeVars, historyVars
    <3> QED BY <2>1, <2>5, <3>1
  <2> QED
    BY <2>1, <2>2, <2>3, <2>6, <2>7 DEF Next, User, Network, Failure, World
<1>3. GatherInv /\ OutwardInv => OutwardIsBacked
  <2> SUFFICES ASSUME GatherInv, OutwardInv, ~overlapped, NEW p \in Products
               PROVE  sale[p] <= SumFunction(storedOutward[p])
    BY DEF OutwardIsBacked
  <2>1. /\ Answering(p) \in SUBSET Terminals /\ sale[p] \in Nat
        /\ storedOutward[p] \in [Terminals -> 0 .. MaxQty]
    BY DEF Answering, GatherInv, TypeOK, Figures
  <2>2. PICK a, b : /\ a = SumFunctionOnSet(storedOutward[p], Answering(p))
                    /\ b = SumFunctionOnSet(storedOutward[p], Terminals)
    OBVIOUS
  <2>3. sale[p] <= a /\ b = SumFunction(storedOutward[p])
    BY <2>1, <2>2 DEF OutwardInv, SumFunction
  <2>4. a <= b /\ a \in Int /\ b \in Int
    BY <2>1, <2>2, OutwardSummable, PartAtMost
  <2> QED BY <2>1, <2>3, <2>4
<1> QED
  BY <1>1, <1>2, <1>3, PTL DEF Spec
=============================================================================
