------------------------- MODULE SalePositionProofs -------------------------
(***************************************************************************)
(* Proofs about SalePosition: type correctness, and that the page gathers  *)
(* the terminals' answers as Gathering promises, for any terminals and     *)
(* dates.  The argument counts: while a retrieval has not overlapped, the  *)
(* reads under way are its own, and terminalsProcessed is the number of    *)
(* terminals that have answered.  What is shown beside the total follows:  *)
(* bills of the date, and the online orders of the date, all of them once  *)
(* its listener has spoken.  The total is at most the sales of the date,   *)
(* and the details of its terminals add up to it.                          *)
(***************************************************************************)
EXTENDS SalePosition, SumTheorems, FiniteSetTheorems, TLAPS

\* The initial state is typed.
LEMMA InitType == Init => TypeOK
<1> SUFFICES ASSUME Init PROVE TypeOK
  OBVIOUS
<1>1. PageTypes /\ OnlineTypes
  <2>1. PageTypes
    BY TodayAssumption DEF Init, PageTypes
  <2>2. orderMap \in SUBSET OrderSet
    BY DEF Init
  <2>3. onlineAvailable \in BOOLEAN /\ onlineRetrieving \in BOOLEAN
    BY Zenon DEF Init
  <2> QED BY <2>1, <2>2, <2>3 DEF OnlineTypes
<1>2. NetworkTypes /\ HistoryTypes
  <2>1. NetworkTypes
    BY DEF Init, NetworkTypes
  <2>2. unanswered \in SUBSET Terminals /\ answered \in Nat
    BY DEF Init
  <2>3. overlapped = FALSE /\ strayed = FALSE
    BY Zenon DEF Init
  <2> QED BY <2>1, <2>2, <2>3 DEF HistoryTypes
<1>3. StoreTypes
  <2>1. processed \in Nat /\ total \in Nat
    BY DEF Init
  <2>2. available \in BOOLEAN /\ retrieving \in BOOLEAN
    BY Zenon DEF Init
  <2>3. 0 \in 0 .. MaxSale
    BY BoundsAssumption
  <2>4. /\ details \in [Terminals -> 0 .. MaxSale]
        /\ bills \in [Terminals -> Dates \cup {None}]
    BY <2>3 DEF Init
  <2> QED BY <2>1, <2>2, <2>4 DEF StoreTypes
<1>4. ServerTypes /\ CountTypes
  BY BoundsAssumption DEF Init, ServerTypes, CountTypes
<1> QED
  BY <1>1, <1>2, <1>3, <1>4 DEF TypeOK

\* What an action leaves alone keeps its type.
LEMMA UnchangedTypes ==
  ASSUME TypeOK
  PROVE  /\ UNCHANGED <<page, date>> => PageTypes'
         /\ UNCHANGED storeVars => StoreTypes'
         /\ UNCHANGED onlineVars => OnlineTypes'
         /\ UNCHANGED networkVars => NetworkTypes'
         /\ UNCHANGED serverVars => ServerTypes'
         /\ UNCHANGED countVars => CountTypes'
         /\ UNCHANGED historyVars => HistoryTypes'
<1>1. UNCHANGED <<page, date>> => PageTypes'
  BY DEF TypeOK, PageTypes
<1>2. UNCHANGED storeVars => StoreTypes'
  BY DEF TypeOK, StoreTypes, storeVars
<1>3. UNCHANGED onlineVars => OnlineTypes'
  BY DEF TypeOK, OnlineTypes, onlineVars
<1>4. UNCHANGED networkVars => NetworkTypes'
  BY DEF TypeOK, NetworkTypes, networkVars
<1>5. UNCHANGED serverVars => ServerTypes'
  BY DEF TypeOK, ServerTypes, serverVars
<1>6. UNCHANGED countVars => CountTypes'
  BY DEF TypeOK, CountTypes, countVars
<1>7. UNCHANGED historyVars => HistoryTypes'
  BY DEF TypeOK, HistoryTypes, historyVars
<1> QED
  BY <1>1, <1>2, <1>3, <1>4, <1>5, <1>6, <1>7

\* A retrieval starts from typed values.
LEMMA RetrieveType ==
  ASSUME NEW d \in Dates, TypeOK, Retrieve(d),
         page' \in {"closed", "home", "bills", "orders"}
  PROVE  TypeOK'
<1> DEFINE n == retrievals + 1
<1>1. n \in Retrievals /\ n \in 0 .. MaxRetrievals /\ retrievals' = n
  BY BoundsAssumption DEF Retrieve, TypeOK, CountTypes, Retrievals
<1>2. /\ reads' = reads \cup [id : {n}, terminal : Terminals, date : {d}]
      /\ listeners' = listeners \cup {[id |-> n, date |-> d]}
      /\ news' = news \cup {[id |-> n, date |-> d]}
  BY DEF Retrieve
<1>3. /\ [id : {n}, terminal : Terminals, date : {d}] \subseteq ReadSet
      /\ [id |-> n, date |-> d] \in ListenerSet
  BY <1>1 DEF ReadSet, ListenerSet
<1> HIDE DEF n
<1>4. NetworkTypes'
  BY <1>2, <1>3 DEF TypeOK, NetworkTypes
<1>5. PageTypes' /\ OnlineTypes' /\ StoreTypes' /\ HistoryTypes'
  BY DEF Retrieve, TotalReset, OrdersReset, TypeOK, PageTypes, OnlineTypes,
         StoreTypes, HistoryTypes
<1>6. CountTypes'
  BY <1>1 DEF Retrieve, TypeOK, CountTypes
<1>7. ServerTypes'
  BY UnchangedTypes DEF Retrieve
<1> QED
  BY <1>4, <1>5, <1>6, <1>7 DEF TypeOK

\* The page's own steps keep every type.
LEMMA UserType == TypeOK /\ User => TypeOK'
<1> SUFFICES ASSUME TypeOK, User PROVE TypeOK'
  OBVIOUS
<1>1. ASSUME NEW d \in Dates, Retrieve(d), page' \in {"home", page} PROVE TypeOK'
  BY <1>1, RetrieveType DEF TypeOK, PageTypes
<1>2. date \in Dates
  BY DEF TypeOK, PageTypes
<1>3. ASSUME NEW next \in {"bills", "orders"}, LeaveFor(next) PROVE TypeOK'
  <2>1. PageTypes'
    BY <1>3 DEF LeaveFor, TypeOK, PageTypes
  <2> QED BY <1>3, <2>1, UnchangedTypes DEF LeaveFor, TypeOK
<1> QED
  BY <1>1, <1>2, <1>3 DEF User, Open, PickDate, Refresh

\* An answer leaves typed totals and maps.
LEMMA AnswerType ==
  ASSUME NEW r \in reads, TypeOK, Answer(r)
  PROVE  TypeOK'
<1> DEFINE amount == sales[r.terminal][r.date]
<1>1. r \in ReadSet
  BY DEF TypeOK, NetworkTypes
<1>2. /\ r.terminal \in Terminals /\ r.date \in Dates
      /\ amount \in 0 .. MaxSale /\ amount \in Nat
  BY <1>1, BoundsAssumption DEF ReadSet, TypeOK, ServerTypes
<1>3. /\ reads' = reads \ {r}
      /\ details' = [details EXCEPT ![r.terminal] = amount]
      /\ bills' = [bills EXCEPT ![r.terminal] =
                            IF amount > 0 THEN r.date ELSE bills[r.terminal]]
      /\ total' = total + amount
      /\ processed' = processed + 1
      /\ \/ available' = TRUE /\ retrieving' = FALSE
         \/ UNCHANGED <<available, retrieving>>
      /\ \/ unanswered' = unanswered \ {r.terminal} /\ answered' = answered + amount
         \/ UNCHANGED <<unanswered, answered>>
      /\ UNCHANGED <<page, date, onlineVars, listeners, news, serverVars,
                     countVars, overlapped, strayed>>
  BY DEF Answer, Counted, Detail, Bills
<1> HIDE DEF amount
<1>4. StoreTypes'
  <2>1. /\ details' \in [Terminals -> 0 .. MaxSale]
        /\ bills' \in [Terminals -> Dates \cup {None}]
    BY <1>2, <1>3 DEF TypeOK, StoreTypes
  <2>2. total' \in Nat /\ processed' \in Nat
    BY <1>2, <1>3 DEF TypeOK, StoreTypes
  <2>3. available' \in BOOLEAN /\ retrieving' \in BOOLEAN
    BY <1>3 DEF TypeOK, StoreTypes
  <2> QED BY <2>1, <2>2, <2>3 DEF StoreTypes
<1>5. HistoryTypes'
  BY <1>2, <1>3 DEF TypeOK, HistoryTypes
<1>6. NetworkTypes'
  BY <1>3 DEF TypeOK, NetworkTypes
<1> QED
  BY <1>3, <1>4, <1>5, <1>6, UnchangedTypes DEF TypeOK

\* An event of a listener leaves typed orders.
LEMMA DeliverType ==
  ASSUME NEW l \in news, TypeOK, Deliver(l)
  PROVE  TypeOK'
<1>1. l.date \in Dates
  BY DEF TypeOK, NetworkTypes, ListenerSet
<1>2. {[date |-> l.date, order |-> o] : o \in orders[l.date]} \subseteq OrderSet
  BY <1>1 DEF TypeOK, ServerTypes, OrderSet
<1>3. OnlineTypes'
  BY <1>2 DEF Deliver, TypeOK, OnlineTypes
<1>4. NetworkTypes'
  BY DEF Deliver, Heard, TypeOK, NetworkTypes
<1>5. HistoryTypes'
  BY DEF Deliver, TypeOK, HistoryTypes
<1> QED
  BY <1>3, <1>4, <1>5, UnchangedTypes DEF Deliver, TypeOK

\* A refused read, a sale, an order and a stutter keep every type.
LEMMA OutsideType == TypeOK /\ (Failure \/ World \/ UNCHANGED vars) => TypeOK'
<1> SUFFICES ASSUME TypeOK, Failure \/ World \/ UNCHANGED vars PROVE TypeOK'
  OBVIOUS
<1>1. ASSUME NEW r \in reads, RefuseRead(r) PROVE TypeOK'
  <2>1. CountTypes'
    BY <1>1, BoundsAssumption DEF RefuseRead, TypeOK, CountTypes
  <2>2. NetworkTypes'
    BY <1>1 DEF RefuseRead, TypeOK, NetworkTypes
  <2> QED BY <1>1, <2>1, <2>2, UnchangedTypes DEF RefuseRead, TypeOK
<1>2. ASSUME NEW t \in Terminals, NEW d \in Dates, Sell(t, d) PROVE TypeOK'
  <2>1. sales[t][d] + 1 \in 0 .. MaxSale
    BY <1>2, BoundsAssumption DEF Sell, TypeOK, ServerTypes
  <2>2. ServerTypes'
    BY <1>2, <2>1 DEF Sell, TypeOK, ServerTypes
  <2> QED BY <1>2, <2>2, UnchangedTypes DEF Sell, TypeOK
<1>3. ASSUME NEW d \in Dates, NEW o \in Orders, PlaceOrder(d, o) PROVE TypeOK'
  <2>1. ServerTypes' /\ NetworkTypes'
    BY <1>3 DEF PlaceOrder, TypeOK, ServerTypes, NetworkTypes
  <2> QED BY <1>3, <2>1, UnchangedTypes DEF PlaceOrder, TypeOK
<1>4. CASE UNCHANGED vars
  BY <1>4, UnchangedTypes DEF vars, TypeOK
<1> QED
  BY <1>1, <1>2, <1>3, <1>4 DEF Failure, World

\* Every step keeps every type.
LEMMA NextType == TypeOK /\ [Next]_vars => TypeOK'
BY UserType, AnswerType, DeliverType, OutsideType DEF Next, Network

\* Every reachable state is typed, for any terminals, dates and bounds.
THEOREM TypeCorrect == Spec => []TypeOK
<1>1. Init => TypeOK
  BY InitType
<1>2. TypeOK /\ [Next]_vars => TypeOK'
  BY NextType
<1> QED
  BY <1>1, <1>2, PTL DEF Spec

-----------------------------------------------------------------------------
(* The gathering.                                                          *)

\* The reads under way belong to this retrieval, one for each terminal that
\* has not answered.
OwnReads ==
    \A r \in reads : r.id = retrievals /\ r.date = date /\ r.terminal \in unanswered

\* terminalsProcessed counts the terminals that have answered.
CountsAnswers ==
    unanswered # {} =>
        /\ processed = Cardinality(Terminals) - Cardinality(unanswered)
        /\ ~available

GatherInv ==
    /\ TypeOK
    /\ ~overlapped => OwnReads /\ CountsAnswers /\ total = answered

\* Nothing is under way before the page opens.
LEMMA InitGather == Init => GatherInv /\ Sale!Init
BY InitType
DEF Init, GatherInv, OwnReads, CountsAnswers, Sale!Init, Sale!Zero

\* A retrieval starts a gathering; it is spoiled if reads were under way.
LEMMA RetrieveGather ==
  ASSUME NEW d \in Dates, GatherInv, TypeOK', Retrieve(d)
  PROVE  GatherInv' /\ Sale!Start
<1>1. /\ total' = 0 /\ answered' = 0 /\ processed' = 0
      /\ available' = FALSE /\ unanswered' = Terminals
      /\ overlapped' = (reads # {})
      /\ reads' = reads \cup [id : {retrievals'}, terminal : Terminals, date : {d}]
      /\ date' = d
  BY DEF Retrieve, TotalReset
<1>2. ~overlapped' => OwnReads'
  BY <1>1 DEF OwnReads
<1>3. CountsAnswers'
  <2>1. Cardinality(Terminals) \in Nat
    BY TerminalsAssumption, FS_CardinalityType
  <2> QED BY <1>1, <2>1 DEF CountsAnswers
<1>4. Sale!Start
  BY <1>1 DEF Sale!Start, Sale!Zero
<1> QED
  BY <1>1, <1>2, <1>3, <1>4 DEF GatherInv

\* The answer of a terminal is counted once, and the last one shows the total.
LEMMA AnswerGather ==
  ASSUME NEW r \in reads, GatherInv, TypeOK', Answer(r)
  PROVE  GatherInv' /\ Sale!Next
<1> DEFINE amount == sales[r.terminal][r.date]
           t == r.terminal
<1>1. t \in Terminals /\ amount \in Nat
  BY BoundsAssumption DEF GatherInv, TypeOK, NetworkTypes, ReadSet, ServerTypes
<1>2. /\ reads' = reads \ {r}
      /\ total' = total + amount
      /\ processed' = processed + 1
      /\ IF processed' = Cardinality(Terminals)
         THEN available' = TRUE /\ retrieving' = FALSE
         ELSE UNCHANGED <<available, retrieving>>
      /\ IF r.id = retrievals
         THEN unanswered' = unanswered \ {t} /\ answered' = answered + amount
         ELSE UNCHANGED <<unanswered, answered>>
      /\ UNCHANGED <<date, retrievals, overlapped>>
  BY DEF Answer, Counted, countVars
<1>3. /\ total \in Nat /\ answered \in Nat /\ processed \in Nat
      /\ unanswered \in SUBSET Terminals /\ available \in BOOLEAN
      /\ total' \in Nat /\ answered' \in Nat /\ available' \in BOOLEAN
      /\ overlapped \in BOOLEAN
  BY DEF GatherInv, TypeOK, StoreTypes, HistoryTypes
<1> HIDE DEF amount
<1>4. CASE overlapped
  <2>1. unanswered' \subseteq unanswered
    BY <1>2
  <2>2. Sale!AnswerSpoiled
    BY <1>2, <1>3, <1>4, <2>1 DEF Sale!AnswerSpoiled, Sale!Sums
  <2> QED BY <1>2, <1>4, <2>2 DEF GatherInv, Sale!Next
<1>5. CASE ~overlapped
  <2>1. /\ OwnReads /\ CountsAnswers /\ total = answered
        /\ r.id = retrievals /\ t \in unanswered
    BY <1>5 DEF GatherInv, OwnReads
  <2>2. unanswered' = unanswered \ {t} /\ answered' = answered + amount
    BY <1>2, <2>1
  <2>3. OwnReads'
    <3> SUFFICES ASSUME NEW s \in reads'
                 PROVE  s.id = retrievals' /\ s.date = date' /\ s.terminal \in unanswered'
      BY DEF OwnReads
    <3>1. s \in reads /\ s # r
      BY <1>2
    <3>2. s \in ReadSet /\ r \in ReadSet
      BY <3>1 DEF GatherInv, TypeOK, NetworkTypes
    <3>3. s.terminal # t
      BY <2>1, <3>1, <3>2 DEF OwnReads, ReadSet
    <3> QED BY <1>2, <2>1, <2>2, <3>1, <3>3 DEF OwnReads
  <2>4. /\ IsFiniteSet(unanswered) /\ Cardinality(unanswered) \in Nat
        /\ Cardinality(unanswered') = Cardinality(unanswered) - 1
        /\ Cardinality(unanswered') = 0 <=> unanswered' = {}
        /\ Cardinality(Terminals) \in Nat
    <3>1. IsFiniteSet(unanswered)
      BY <1>3, TerminalsAssumption, FS_Subset
    <3>2. /\ IsFiniteSet(unanswered')
          /\ Cardinality(unanswered') = Cardinality(unanswered) - 1
      BY <2>1, <2>2, <3>1, FS_RemoveElement
    <3> QED
      BY <3>1, <3>2, TerminalsAssumption, FS_EmptySet, FS_CardinalityType
  <2>5. /\ processed = Cardinality(Terminals) - Cardinality(unanswered)
        /\ ~available
    BY <2>1 DEF CountsAnswers
  <2>6. processed' = Cardinality(Terminals) - Cardinality(unanswered')
    BY <1>2, <2>4, <2>5
  <2>7. available' = (unanswered' = {})
    <3>1. processed' = Cardinality(Terminals) <=> unanswered' = {}
      BY <2>4, <2>6
    <3> QED BY <1>2, <1>3, <2>5, <3>1
  <2>8. CountsAnswers'
    BY <2>6, <2>7 DEF CountsAnswers
  <2>9. Sale!Answer(t)
    <3>1. answered <= answered' /\ total' = total + (answered' - answered)
      BY <1>1, <1>2, <1>3, <2>2
    <3> QED
      BY <1>2, <1>3, <1>5, <2>1, <2>2, <2>7, <3>1 DEF Sale!Answer, Sale!Sums
  <2>10. total' = answered'
    BY <1>2, <2>1, <2>2
  <2> QED
    BY <1>1, <2>3, <2>8, <2>9, <2>10 DEF GatherInv, Sale!Next
<1> QED
  BY <1>3, <1>4, <1>5

\* The other steps keep the figures, and at most end a read.
LEMMA IdleGather ==
  ASSUME GatherInv, TypeOK', reads' \subseteq reads,
         UNCHANGED <<date, processed, total, available, retrievals,
                     unanswered, answered, overlapped>>
  PROVE  GatherInv' /\ UNCHANGED Sale!vars
<1>1. GatherInv'
  BY DEF GatherInv, OwnReads, CountsAnswers
<1> QED
  BY <1>1 DEF Sale!vars

\* Every step keeps the counting invariant, and is a step of Gathering.
LEMMA NextGather ==
  GatherInv /\ [Next]_vars => GatherInv' /\ [Sale!Next]_(Sale!vars)
<1> SUFFICES ASSUME GatherInv, [Next]_vars
             PROVE  GatherInv' /\ [Sale!Next]_(Sale!vars)
  OBVIOUS
<1>0. TypeOK' /\ date \in Dates
  BY NextType DEF GatherInv, TypeOK, PageTypes
<1>1. ASSUME NEW d \in Dates, Retrieve(d)
      PROVE  GatherInv' /\ [Sale!Next]_(Sale!vars)
  BY <1>0, <1>1, RetrieveGather DEF Sale!Next
<1>2. ASSUME NEW next, LeaveFor(next)
      PROVE  GatherInv' /\ [Sale!Next]_(Sale!vars)
  <2>1. /\ reads' \subseteq reads
        /\ UNCHANGED <<date, processed, total, available, retrievals,
                       unanswered, answered, overlapped>>
    BY <1>2 DEF LeaveFor, networkVars, storeVars, countVars, historyVars
  <2> QED BY <1>0, <2>1, IdleGather
<1>3. CASE User
  BY <1>0, <1>1, <1>2, <1>3 DEF User, Open, PickDate, Refresh
<1>4. ASSUME NEW r \in reads, Answer(r)
      PROVE  GatherInv' /\ [Sale!Next]_(Sale!vars)
  BY <1>0, <1>4, AnswerGather
<1>5. ASSUME NEW l \in news, Deliver(l)
      PROVE  GatherInv' /\ [Sale!Next]_(Sale!vars)
  <2>1. /\ reads' \subseteq reads
        /\ UNCHANGED <<date, processed, total, available, retrievals,
                       unanswered, answered, overlapped>>
    BY <1>5 DEF Deliver, storeVars, countVars
  <2> QED BY <1>0, <2>1, IdleGather
<1>6. ASSUME NEW r \in reads, RefuseRead(r)
      PROVE  GatherInv' /\ [Sale!Next]_(Sale!vars)
  <2>1. /\ reads' \subseteq reads
        /\ UNCHANGED <<date, processed, total, available, retrievals,
                       unanswered, answered, overlapped>>
    BY <1>6 DEF RefuseRead, storeVars, historyVars
  <2> QED BY <1>0, <2>1, IdleGather
<1>7. CASE World
  <2>1. /\ reads' \subseteq reads
        /\ UNCHANGED <<date, processed, total, available, retrievals,
                       unanswered, answered, overlapped>>
    BY <1>7 DEF World, Sell, PlaceOrder, networkVars, storeVars, countVars,
                  historyVars
  <2> QED BY <1>0, <2>1, IdleGather
<1>8. CASE UNCHANGED vars
  <2>1. /\ reads' \subseteq reads
        /\ UNCHANGED <<date, processed, total, available, retrievals,
                       unanswered, answered, overlapped>>
    BY <1>8 DEF vars, networkVars, storeVars, countVars, historyVars
  <2> QED BY <1>0, <2>1, IdleGather
<1> QED
  BY <1>3, <1>4, <1>5, <1>6, <1>7, <1>8 DEF Next, Network, Failure

\* For any number of terminals: the sale position is shown when every terminal
\* has answered and not before, and is the sum of their answers, each counted
\* once, unless the date was picked while another retrieval was under way.
THEOREM Refinement == Spec => ImplementsGathering
<1>1. Init => GatherInv /\ Sale!Init
  BY InitGather
<1>2. GatherInv /\ [Next]_vars => GatherInv' /\ [Sale!Next]_(Sale!vars)
  BY NextGather
<1> QED
  BY <1>1, <1>2, PTL DEF Spec, Sale!Spec, ImplementsGathering

-----------------------------------------------------------------------------
(* The map of online orders.                                               *)

\* Online orders of another date come only from listeners of dates selected
\* earlier, whatever is opened, picked, refreshed or ordered meanwhile.
THEOREM OrdersStray == Spec => []OrdersStrayByEvents
<1>1. Init => OrdersStrayByEvents
  BY DEF Init, OrdersStrayByEvents
<1>2. TypeOK /\ OrdersStrayByEvents /\ [Next]_vars => OrdersStrayByEvents'
  <2> SUFFICES ASSUME TypeOK, OrdersStrayByEvents, [Next]_vars
               PROVE  OrdersStrayByEvents'
    OBVIOUS
  <2>1. ASSUME NEW d, Retrieve(d) PROVE OrdersStrayByEvents'
    BY <2>1 DEF Retrieve, OrdersReset, OrdersStrayByEvents
  <2>2. ASSUME UNCHANGED <<date, orderMap, strayed>> PROVE OrdersStrayByEvents'
    BY <2>2 DEF OrdersStrayByEvents
  <2>3. CASE User
    BY <2>1, <2>2, <2>3
    DEF User, Open, PickDate, Refresh, LeaveFor, onlineVars, historyVars
  <2>4. ASSUME NEW r \in reads, Answer(r) \/ RefuseRead(r)
        PROVE  OrdersStrayByEvents'
    BY <2>2, <2>4 DEF Answer, RefuseRead, onlineVars, historyVars
  <2>5. ASSUME NEW l \in news, Deliver(l) PROVE OrdersStrayByEvents'
    <3>1. /\ strayed' = (strayed \/ l.date # date) /\ date' = date
          /\ orderMap' = orderMap \cup {[date |-> l.date, order |-> o] :
                                            o \in orders[l.date]}
      BY <2>5 DEF Deliver
    <3>2. ~strayed' => ~strayed /\ l.date = date
      BY Zenon, <3>1
    <3> QED BY <3>1, <3>2 DEF OrdersStrayByEvents
  <2>6. CASE World \/ UNCHANGED vars
    BY <2>2, <2>6 DEF World, Sell, PlaceOrder, onlineVars, historyVars, vars
  <2> QED
    BY <2>3, <2>4, <2>5, <2>6 DEF Next, Network, Failure
<1> QED
  BY <1>1, <1>2, TypeCorrect, PTL DEF Spec

-----------------------------------------------------------------------------
(* The bills.                                                              *)

\* A terminal that has answered this retrieval has the bills of its date.
AnsweredBills ==
    ~overlapped =>
        /\ retrievals = 0 => ~available
        /\ available => unanswered = {}
        /\ \A t \in Terminals \ unanswered :
                retrievals > 0 /\ details[t] > 0 => bills[t] = date

\* An answer of this retrieval leaves the bills of its date.
LEMMA AnswerBills ==
  ASSUME NEW r \in reads, GatherInv, AnsweredBills, GatherInv', Answer(r)
  PROVE  AnsweredBills'
<1> SUFFICES ASSUME ~overlapped' PROVE AnsweredBills'
  BY DEF AnsweredBills
<1> DEFINE amount == sales[r.terminal][r.date]
           t == r.terminal
<1>1. /\ r.id = retrievals /\ r.date = date /\ t \in unanswered
      /\ r.id > 0 /\ t \in Terminals
  BY DEF GatherInv, Answer, OwnReads, TypeOK, NetworkTypes, ReadSet, Retrievals
<1>2. /\ unanswered' = unanswered \ {t}
      /\ details' = [details EXCEPT ![t] = amount]
      /\ bills' = [bills EXCEPT ![t] = IF amount > 0 THEN r.date ELSE bills[t]]
      /\ UNCHANGED <<date, retrievals>>
  BY <1>1 DEF Answer, Detail, Bills, countVars
<1>3. /\ details \in [Terminals -> 0 .. MaxSale]
      /\ bills \in [Terminals -> Dates \cup {None}]
  BY DEF GatherInv, TypeOK, StoreTypes
<1> HIDE DEF amount
<1>4. ASSUME NEW s \in Terminals \ unanswered', details'[s] > 0
      PROVE  bills'[s] = date'
  <2>1. CASE s = t
    BY <1>1, <1>2, <1>3, <1>4, <2>1
  <2>2. CASE s # t
    BY <1>1, <1>2, <1>3, <1>4, <2>2 DEF AnsweredBills, Answer
  <2> QED BY <2>1, <2>2
<1>5. available' => unanswered' = {}
  BY DEF GatherInv, CountsAnswers
<1> QED
  BY <1>1, <1>2, <1>4, <1>5 DEF AnsweredBills

\* The bills kept for a terminal that sold something on the selected date are
\* of that date, once its retrieval has ended and did not overlap another.
THEOREM BillsMatch == Spec => []BillsMatchDetails
<1>1. Init => GatherInv /\ AnsweredBills
  <2>1. Init => ~available /\ retrievals = 0
    BY DEF Init
  <2> QED BY <2>1, InitGather DEF AnsweredBills
<1>2. GatherInv /\ AnsweredBills /\ [Next]_vars => GatherInv' /\ AnsweredBills'
  <2> SUFFICES ASSUME GatherInv, AnsweredBills, [Next]_vars
               PROVE  GatherInv' /\ AnsweredBills'
    OBVIOUS
  <2>0. GatherInv'
    BY NextGather
  <2>1. ASSUME NEW d, Retrieve(d) PROVE AnsweredBills'
    <3>1. unanswered' = Terminals /\ available' = FALSE
      BY <2>1 DEF Retrieve
    <3> QED BY <3>1 DEF AnsweredBills
  <2>2. ASSUME UNCHANGED <<date, details, bills, available, retrievals,
                           unanswered, overlapped>>
        PROVE  AnsweredBills'
    BY <2>2 DEF AnsweredBills
  <2>3. CASE User
    <3>1. ASSUME NEW next, LeaveFor(next) PROVE AnsweredBills'
      <4>1. UNCHANGED <<date, details, bills, available, retrievals,
                        unanswered, overlapped>>
        BY <3>1 DEF LeaveFor, storeVars, countVars, historyVars
      <4> QED BY <2>2, <4>1
    <3> QED BY <2>0, <2>1, <2>3, <3>1 DEF User, Open, PickDate, Refresh
  <2>4. ASSUME NEW r \in reads, Answer(r) PROVE AnsweredBills'
    BY <2>0, <2>4, AnswerBills
  <2>5. ASSUME NEW l \in news, Deliver(l) PROVE AnsweredBills'
    <3>1. UNCHANGED <<date, details, bills, available, retrievals,
                      unanswered, overlapped>>
      BY <2>5 DEF Deliver, storeVars, countVars
    <3> QED BY <2>2, <3>1
  <2>6. CASE Failure
    <3>1. UNCHANGED <<date, details, bills, available, retrievals,
                      unanswered, overlapped>>
      BY <2>6 DEF Failure, RefuseRead, storeVars, historyVars
    <3> QED BY <2>0, <2>2, <3>1
  <2>7. CASE World
    <3>1. UNCHANGED <<date, details, bills, available, retrievals,
                      unanswered, overlapped>>
      BY <2>7 DEF World, Sell, PlaceOrder, storeVars, countVars, historyVars
    <3> QED BY <2>0, <2>2, <3>1
  <2>8. CASE UNCHANGED vars
    <3>1. UNCHANGED <<date, details, bills, available, retrievals,
                      unanswered, overlapped>>
      BY <2>8 DEF vars, storeVars, countVars, historyVars
    <3> QED BY <2>0, <2>2, <3>1
  <2> QED
    BY <2>0, <2>3, <2>4, <2>5, <2>6, <2>7, <2>8 DEF Next, Network
<1>3. GatherInv /\ AnsweredBills => BillsMatchDetails
  BY DEF GatherInv, TypeOK, CountTypes, AnsweredBills, BillsMatchDetails
<1> QED
  BY <1>1, <1>2, <1>3, PTL DEF Spec
-----------------------------------------------------------------------------
(* No order of the selected date is missed.                                *)

Own == [id |-> retrievals, date |-> date]
ShownOrders == {m.order : m \in {m \in orderMap : m.date = date}}

\* The listener of the last retrieval stays, so whatever its date receives is
\* in the map or in an event still to be delivered.
OrdersInv ==
    /\ retrievals = 0 => ~onlineAvailable /\ listeners = {} /\ news = {}
    /\ retrievals > 0 =>
            /\ Own \in listeners
            /\ (\A l \in news : l.date # date) => orders[date] \subseteq ShownOrders

\* An event of any listener leaves no order of the selected date behind.
LEMMA DeliverOrders ==
  ASSUME TypeOK, OrdersInv, NEW l \in news, Deliver(l)
  PROVE  OrdersInv'
<1>1. /\ news' = news \ {l} /\ listeners' = listeners
      /\ orderMap' = orderMap \cup {[date |-> l.date, order |-> o] :
                                        o \in orders[l.date]}
      /\ UNCHANGED <<date, orders, retrievals>>
  BY DEF Deliver, Heard, serverVars, countVars
<1>2. l \in ListenerSet /\ retrievals \in Nat
  BY DEF TypeOK, NetworkTypes, CountTypes
<1>3. retrievals > 0
  BY <1>2 DEF OrdersInv
<1>4. ASSUME \A k \in news' : k.date # date
      PROVE  orders[date] \subseteq ShownOrders'
  <2>1. CASE l.date = date
    <3> SUFFICES ASSUME NEW o \in orders[date] PROVE o \in ShownOrders'
      OBVIOUS
    <3> DEFINE m == [date |-> date, order |-> o]
    <3>1. m \in orderMap' /\ m.date = date' /\ m.order = o
      BY <1>1, <2>1
    <3> HIDE DEF m
    <3> QED BY <3>1 DEF ShownOrders
  <2>2. CASE l.date # date
    <3>1. orders[date] \subseteq ShownOrders
      BY <1>1, <1>3, <1>4, <2>2 DEF OrdersInv
    <3>2. ShownOrders \subseteq ShownOrders'
      BY <1>1 DEF ShownOrders
    <3> QED BY <3>1, <3>2
  <2> QED BY <2>1, <2>2
<1> QED
  BY <1>1, <1>3, <1>4 DEF OrdersInv, Own

\* An order of the selected date comes with an event of its listener.
LEMMA PlaceOrders ==
  ASSUME TypeOK, OrdersInv, NEW d \in Dates, NEW o \in Orders, PlaceOrder(d, o)
  PROVE  OrdersInv'
<1>1. /\ orders' = [orders EXCEPT ![d] = @ \cup {o}]
      /\ news' = news \cup {l \in listeners : l.date = d}
      /\ UNCHANGED <<date, orderMap, onlineAvailable, listeners, retrievals>>
  BY DEF PlaceOrder, onlineVars, countVars
<1>2. orders \in [Dates -> SUBSET Orders] /\ date \in Dates
  BY DEF TypeOK, ServerTypes, PageTypes
<1>3. ASSUME retrievals > 0, \A l \in news' : l.date # date
      PROVE  orders'[date] \subseteq ShownOrders'
  <2>1. Own \in listeners /\ Own.date = date
    BY <1>3 DEF OrdersInv, Own
  <2>2. d # date
    BY <1>1, <1>3, <2>1
  <2>3. orders'[date] = orders[date] /\ news \subseteq news'
    BY <1>1, <1>2, <2>2
  <2> QED BY <1>1, <1>3, <2>3 DEF OrdersInv, ShownOrders
<1> QED
  BY <1>1, <1>3 DEF OrdersInv, Own

\* For any dates and orders, and however retrievals overlap: once no event of
\* the selected date is under way, the map has every order placed on it.
THEOREM OrdersAllShown == Spec => []OrdersComplete
<1>1. Init => OrdersInv
  BY DEF Init, OrdersInv
<1>2. TypeOK /\ OrdersInv /\ [Next]_vars => OrdersInv'
  <2> SUFFICES ASSUME TypeOK, OrdersInv, [Next]_vars PROVE OrdersInv'
    OBVIOUS
  <2>1. ASSUME NEW d, Retrieve(d) PROVE OrdersInv'
    <3> DEFINE own == [id |-> retrievals + 1, date |-> d]
    <3>1. /\ own \in news' /\ own \in listeners'
          /\ retrievals' = retrievals + 1 /\ date' = d
      BY <2>1 DEF Retrieve
    <3>2. retrievals \in Nat
      BY DEF TypeOK, CountTypes
    <3>3. Own' = own /\ own.date = d
      BY <3>1 DEF Own
    <3>4. retrievals' # 0
      BY <3>1, <3>2
    <3> QED BY <3>1, <3>3, <3>4 DEF OrdersInv
  <2>2. ASSUME UNCHANGED <<date, onlineVars, listeners, news, orders, retrievals>>
        PROVE  OrdersInv'
    BY <2>2 DEF OrdersInv, Own, ShownOrders, onlineVars
  <2>3. CASE User
    <3>1. ASSUME NEW next, LeaveFor(next) PROVE OrdersInv'
      BY <2>2, <3>1 DEF LeaveFor, networkVars, serverVars, countVars
    <3> QED BY <2>1, <2>3, <3>1 DEF User, Open, PickDate, Refresh
  <2>4. ASSUME NEW r \in reads, Answer(r) \/ RefuseRead(r) PROVE OrdersInv'
    BY <2>2, <2>4 DEF Answer, RefuseRead, serverVars, countVars
  <2>5. ASSUME NEW t \in Terminals, NEW d \in Dates, Sell(t, d) PROVE OrdersInv'
    BY <2>2, <2>5 DEF Sell, networkVars, countVars
  <2>6. CASE UNCHANGED vars
    BY <2>2, <2>6 DEF vars, networkVars, serverVars, countVars
  <2> QED
    BY <2>3, <2>4, <2>5, <2>6, DeliverOrders, PlaceOrders
    DEF Next, Network, Failure, World
<1>3. TypeOK /\ OrdersInv => OrdersComplete
  <2> SUFFICES ASSUME TypeOK, OrdersInv PROVE OrdersComplete
    OBVIOUS
  <2>1. retrievals = 0 \/ retrievals > 0
    BY BoundsAssumption DEF TypeOK, CountTypes
  <2> QED BY <2>1 DEF OrdersInv, OrdersComplete, ShownOrders
<1> QED
  BY <1>1, <1>2, <1>3, TypeCorrect, PTL DEF Spec
-----------------------------------------------------------------------------
(* The total.                                                              *)

Done == Terminals \ unanswered

\* Unless the retrieval overlapped, the total is that of the details of the
\* terminals that have answered it, none of which had sold less.
SalesInv ==
    ~overlapped =>
        /\ total = SumFunctionOnSet(details, Done)
        /\ \A t \in Done : details[t] <= sales[t][date]

\* The figures of terminals can be added up.
LEMMA DetailsSummable ==
  ASSUME NEW f \in [Terminals -> 0 .. MaxSale], NEW T \in SUBSET Terminals
  PROVE  Summable(f, T)
<1>1. IsFiniteSet(T) /\ MaxSale \in Nat
  BY TerminalsAssumption, BoundsAssumption, FS_Subset
<1> QED BY <1>1 DEF Summable

\* Steps that leave the figures alone keep the total the sum of the details.
LEMMA IdleSales ==
  ASSUME TypeOK, SalesInv,
         UNCHANGED <<date, total, details, unanswered, overlapped>>,
         \A t \in Terminals : sales[t][date] <= sales'[t][date], TypeOK'
  PROVE  SalesInv'
<1> SUFFICES ASSUME ~overlapped, NEW t \in Done
             PROVE  details[t] <= sales'[t][date]
  BY DEF SalesInv, Done
<1>1. details[t] <= sales[t][date] /\ sales[t][date] <= sales'[t][date]
  BY DEF SalesInv, Done
<1>2. details[t] \in 0 .. MaxSale /\ date \in Dates /\ t \in Terminals
  BY DEF TypeOK, StoreTypes, PageTypes, Done
<1>3. sales[t][date] \in 0 .. MaxSale
  BY <1>2 DEF TypeOK, ServerTypes
<1>4. sales'[t][date] \in 0 .. MaxSale
  BY <1>2 DEF TypeOK, ServerTypes
<1> QED BY <1>1, <1>2, <1>3, <1>4, BoundsAssumption

\* An answer adds its terminal to the sum.
LEMMA AnswerSales ==
  ASSUME NEW r \in reads, GatherInv, SalesInv, TypeOK', Answer(r)
  PROVE  SalesInv'
<1> SUFFICES ASSUME ~overlapped' PROVE SalesInv'
  BY DEF SalesInv
<1> PICK t, amount : t = r.terminal /\ amount = sales[r.terminal][r.date]
  OBVIOUS
<1>1. /\ details' = [details EXCEPT ![t] = amount]
      /\ total' = total + amount
      /\ r.id = retrievals => unanswered' = unanswered \ {t}
      /\ UNCHANGED <<date, overlapped, sales>>
  BY DEF Answer, Detail, serverVars
<1>2. TypeOK /\ r.id = retrievals /\ r.date = date /\ t \in unanswered
  BY <1>1 DEF GatherInv, OwnReads
<1>3. t \in Terminals /\ amount \in Nat /\ amount = sales[t][date]
  BY <1>2, BoundsAssumption DEF TypeOK, NetworkTypes, ReadSet, ServerTypes
<1>4. /\ details'[t] = amount
      /\ \A s \in Terminals \ {t} : details'[s] = details[s]
  BY <1>1, <1>2, <1>3 DEF TypeOK, StoreTypes
<1>5. Done' = Done \cup {t} /\ t \notin Done /\ Done \subseteq Terminals
  BY <1>1, <1>2, <1>3 DEF Done
<1>6. /\ total = SumFunctionOnSet(details, Done)
      /\ \A s \in Done : details[s] <= sales[s][date]
  BY <1>1 DEF SalesInv
<1>7. /\ Summable(details', Done \cup {t}) /\ Summable(details, Done)
  <2>1. Summable(details', Done')
    BY DetailsSummable DEF Done, TypeOK, StoreTypes
  <2>2. Summable(details, Done)
    BY <1>2, <1>5, DetailsSummable DEF TypeOK, StoreTypes
  <2> QED BY <1>5, <2>1, <2>2
<1>8. SumFunctionOnSet(details', Done) = SumFunctionOnSet(details, Done)
  <2>1. Same(details, details', Done)
    BY <1>4, <1>5 DEF Same
  <2> QED BY <1>7, <2>1, SumSame
<1>9. SumFunctionOnSet(details', Done \cup {t})
        = details'[t] + SumFunctionOnSet(details', Done)
  BY <1>5, <1>7, SumGains
<1>10. total' = SumFunctionOnSet(details', Done \cup {t})
  <2>1. total \in Nat
    BY <1>2 DEF TypeOK, StoreTypes
  <2> QED BY <1>1, <1>3, <1>4, <1>6, <1>8, <1>9, <2>1
<1>11. ASSUME NEW s \in Done' PROVE details'[s] <= sales'[s][date']
  <2>1. CASE s = t
    BY <1>1, <1>3, <1>4, <2>1
  <2>2. CASE s # t
    <3>1. s \in Done /\ details'[s] = details[s]
      BY <1>4, <1>5, <1>11, <2>2
    <3> QED BY <1>1, <1>6, <3>1
  <2> QED BY <2>1, <2>2
<1> QED BY <1>5, <1>10, <1>11 DEF SalesInv

\* Before the page opens there are no details and no total.
LEMMA InitSales == Init => GatherInv /\ SalesInv
<1> SUFFICES ASSUME Init PROVE GatherInv /\ SalesInv
  OBVIOUS
<1>1. /\ total = 0 /\ Done \subseteq Terminals
      /\ \A t \in Terminals : details[t] = 0 /\ sales[t][date] = 0
  BY TodayAssumption DEF Init, Done
<1>2. Zeros(details, Done) /\ IsFiniteSet(Done)
  BY <1>1, TerminalsAssumption, FS_Subset DEF Zeros
<1>3. SumFunctionOnSet(details, Done) = 0
  BY <1>2, SumOfZeros
<1> QED
  BY <1>1, <1>3, InitGather DEF SalesInv

\* Every step keeps the total the sum of the details of the terminals that
\* have answered.
LEMMA NextSales ==
  GatherInv /\ SalesInv /\ [Next]_vars => GatherInv' /\ SalesInv'
<1> SUFFICES ASSUME GatherInv, SalesInv, [Next]_vars
             PROVE  GatherInv' /\ SalesInv'
  OBVIOUS
<1>1. GatherInv' /\ TypeOK /\ TypeOK'
  BY NextGather DEF GatherInv
<1>2. ASSUME NEW d, Retrieve(d) PROVE SalesInv'
  <2>1. total' = 0 /\ unanswered' = Terminals
    BY <1>2 DEF Retrieve, TotalReset
  <2>2. Done' = {}
    BY <2>1 DEF Done
  <2> QED BY <2>1, <2>2, SumOfNone DEF SalesInv
<1>3. ASSUME UNCHANGED <<date, total, details, unanswered, overlapped, sales>>
      PROVE  SalesInv'
  <2>1. \A t \in Terminals : sales[t][date] \in 0 .. MaxSale
    BY <1>1 DEF TypeOK, ServerTypes, PageTypes
  <2>2. \A t \in Terminals : sales[t][date] <= sales'[t][date]
    BY <1>3, <2>1, BoundsAssumption
  <2> QED BY <1>1, <1>3, <2>2, IdleSales
<1>4. CASE User
  <2>1. ASSUME NEW next, LeaveFor(next) PROVE SalesInv'
    BY <1>3, <2>1 DEF LeaveFor, storeVars, serverVars, historyVars
  <2> QED BY <1>1, <1>2, <1>4, <2>1 DEF User, Open, PickDate, Refresh
<1>5. ASSUME NEW r \in reads, Answer(r) PROVE SalesInv'
  BY <1>1, <1>5, AnswerSales
<1>6. ASSUME NEW l \in news, Deliver(l) PROVE SalesInv'
  BY <1>3, <1>6 DEF Deliver, storeVars, serverVars
<1>7. ASSUME NEW r \in reads, RefuseRead(r) PROVE SalesInv'
  BY <1>3, <1>7 DEF RefuseRead, storeVars, serverVars, historyVars
<1>8. ASSUME NEW t \in Terminals, NEW d \in Dates, Sell(t, d) PROVE SalesInv'
  <2>1. /\ sales' = [sales EXCEPT ![t][d] = @ + 1]
        /\ UNCHANGED <<date, total, details, unanswered, overlapped>>
    BY <1>8 DEF Sell, storeVars, historyVars
  <2>2. /\ sales \in [Terminals -> [Dates -> 0 .. MaxSale]] /\ date \in Dates
    BY <1>1 DEF TypeOK, ServerTypes, PageTypes
  <2>3. \A s \in Terminals : sales[s][date] <= sales'[s][date]
    BY <2>1, <2>2, BoundsAssumption
  <2> QED BY <1>1, <2>1, <2>3, IdleSales
<1>9. ASSUME NEW d, NEW o, PlaceOrder(d, o) PROVE SalesInv'
  BY <1>3, <1>9 DEF PlaceOrder, storeVars, historyVars
<1>10. CASE UNCHANGED vars
  BY <1>1, <1>3, <1>10 DEF vars, storeVars, serverVars, historyVars
<1> QED
  BY <1>1, <1>4, <1>5, <1>6, <1>7, <1>8, <1>9, <1>10
  DEF Next, Network, Failure, World

\* For any terminals, dates and sales: the total never exceeds what the
\* terminals have sold on the selected date, unless the date was picked while
\* another retrieval was under way.
THEOREM Within == Spec => []TotalWithinSales
<1>1. GatherInv /\ SalesInv => TotalWithinSales
  <2> SUFFICES ASSUME GatherInv, SalesInv, ~overlapped PROVE total <= SaleOf(date)
    BY DEF TotalWithinSales
  <2> PICK sold : sold = [t \in Terminals |-> sales[t][date]]
    OBVIOUS
  <2>1. TypeOK /\ Done \in SUBSET Terminals /\ MaxSale \in Nat
    BY BoundsAssumption DEF GatherInv, Done
  <2>2. /\ DOMAIN sold = Terminals
        /\ \A t \in Terminals : sold[t] = sales[t][date] /\ sold[t] \in Nat
    BY <2>1 DEF TypeOK, ServerTypes, PageTypes
  <2>3. Summable(sold, Terminals) /\ NonNegative(sold, Terminals)
    BY <2>2, TerminalsAssumption DEF Summable, NonNegative
  <2>4. Summable(details, Done) /\ Summable(sold, Done)
    <3>1. Summable(details, Done)
      BY <2>1, DetailsSummable DEF TypeOK, StoreTypes
    <3> QED BY <2>1, <2>3, <3>1 DEF Summable
  <2>5. NoMore(details, sold, Done)
    BY <2>1, <2>2 DEF SalesInv, NoMore
  <2>6. SumFunctionOnSet(details, Done) <= SumFunctionOnSet(sold, Done)
    BY <2>4, <2>5, SumAtMost
  <2>7. SumFunctionOnSet(sold, Done) <= SumFunctionOnSet(sold, Terminals)
    BY <2>1, <2>3, PartAtMost
  <2>8. /\ SumFunctionOnSet(details, Done) \in Int
        /\ SumFunctionOnSet(sold, Done) \in Int
        /\ SumFunctionOnSet(sold, Terminals) \in Int
    BY <2>3, <2>4, SumType
  <2>9. SaleOf(date) = SumFunctionOnSet(sold, Terminals)
    BY <2>2 DEF SaleOf, SumFunction
  <2>10. total = SumFunctionOnSet(details, Done)
    BY DEF SalesInv
  <2> QED BY <2>6, <2>7, <2>8, <2>9, <2>10
<1> QED
  BY <1>1, InitSales, NextSales, PTL DEF Spec

\* For any terminals: the total shown is the sum of the details, which the
\* page of each store adds up again.
THEOREM AddUp == Spec => []DetailsAddUp
<1>1. GatherInv /\ SalesInv => DetailsAddUp
  <2> SUFFICES ASSUME GatherInv, SalesInv, available, ~overlapped
               PROVE  total = DetailsTotal
    BY DEF DetailsAddUp
  <2>1. unanswered = {}
    BY DEF GatherInv, CountsAnswers
  <2>2. Done = DOMAIN details
    BY <2>1 DEF Done, GatherInv, TypeOK, StoreTypes
  <2> QED BY <2>2 DEF SalesInv, DetailsTotal, SumFunction
<1> QED
  BY <1>1, InitSales, NextSales, PTL DEF Spec
=============================================================================
