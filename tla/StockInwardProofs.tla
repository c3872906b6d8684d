------------------------- MODULE StockInwardProofs -------------------------
(***************************************************************************)
(* Theorems of StockInward for every set of devices and products, every    *)
(* bound and both kinds of build: types, the ledger and what racing        *)
(* uploads keep of it, the counters and totals of the bottom bar, the      *)
(* headers of invoices, and the success page.                              *)
(***************************************************************************)
EXTENDS StockInward, SumTheorems, FiniteSetTheorems, SequenceTheorems, TLAPS

-----------------------------------------------------------------------------
(* Type correctness, one lemma per group of actions.                       *)

\* The initial state is typed.
LEMMA InitType == Init => TypeOK
<1> SUFFICES ASSUME Init PROVE TypeOK
  OBVIOUS
<1>1. 0 \in Times
  BY BoundsAssumption DEF Times
<1>2. /\ NoCart \in [Products -> Nat] /\ NoCart \in [Products -> 0 .. MaxQty]
      /\ NoInward \in Inward /\ NoOrder \in Order
  BY BoundsAssumption DEF NoCart, NoInward, Inward, NoOrder, Order
<1>3. DeviceTypes
  BY <1>2, BoundsAssumption DEF Init, DeviceTypes, InCart, Entries, NoCart
<1>4. NetworkTypes
  BY DEF Init, NetworkTypes
<1>5. StoreTypes
  BY <1>1, <1>2 DEF Init, StoreTypes
<1>6. HistoryTypes
  BY <1>2, BoundsAssumption DEF Init, HistoryTypes
<1> QED
  BY <1>3, <1>4, <1>5, <1>6 DEF TypeOK

\* What an action leaves alone keeps its type.
LEMMA UnchangedTypes ==
  ASSUME TypeOK
  PROVE  /\ UNCHANGED deviceVars => DeviceTypes'
         /\ UNCHANGED networkVars => NetworkTypes'
         /\ UNCHANGED <<storeVars, now>> => StoreTypes'
         /\ UNCHANGED historyVars => HistoryTypes'
<1>1. UNCHANGED deviceVars => DeviceTypes'
  BY DEF TypeOK, DeviceTypes, deviceVars, InCart
<1>2. UNCHANGED networkVars => NetworkTypes'
  BY DEF TypeOK, NetworkTypes, networkVars
<1>3. UNCHANGED <<storeVars, now>> => StoreTypes'
  BY DEF TypeOK, StoreTypes, storeVars
<1>4. UNCHANGED historyVars => HistoryTypes'
  BY DEF TypeOK, HistoryTypes, historyVars
<1> QED
  BY <1>1, <1>2, <1>3, <1>4

\* The handlers of the cart change the map, the list and the counters only.
LEMMA SetQtyType ==
  ASSUME NEW d \in Devices, NEW p \in Products, NEW qty \in 0 .. MaxQty,
         TypeOK, SetQty(d, p, qty)
  PROVE  TypeOK'
<1> DEFINE units == qty - cart[d][p]
<1>1. Price[p] \in Nat
  BY PriceAssumption
<1>2. cart[d][p] \in Nat /\ units \in Int /\ units * Price[p] \in Int
  BY <1>1, BoundsAssumption DEF TypeOK, DeviceTypes
<1>3. cart' \in [Devices -> [Products -> 0 .. MaxQty]]
  BY DEF TypeOK, DeviceTypes, SetQty
<1>4. cartProducts' \in [Devices -> SUBSET Products]
  BY DEF TypeOK, DeviceTypes, SetQty
<1>5. productCount' \in [Devices -> Int]
  <2>1. productCount[d] + CountChange(cart[d][p], qty) \in Int
    BY DEF TypeOK, DeviceTypes, CountChange
  <2> QED BY <2>1 DEF TypeOK, DeviceTypes, SetQty
<1>6. itemCount' \in [Devices -> Int]
  BY <1>2 DEF TypeOK, DeviceTypes, SetQty
<1>7. cartTotal' \in [Devices -> Int]
  <2>1. cartTotal[d] + units * Price[p] \in Int
    BY <1>2 DEF TypeOK, DeviceTypes
  <2>2. cartTotal' = [cartTotal EXCEPT ![d] = cartTotal[d] + units * Price[p]]
    BY DEF SetQty
  <2> HIDE DEF units
  <2> QED BY <2>1, <2>2 DEF TypeOK, DeviceTypes
<1>8. \A e \in Devices : cartProducts'[e] \subseteq InCart(e)'
  BY <1>3 DEF TypeOK, DeviceTypes, SetQty, InCart, Entries
<1>9. DeviceTypes'
  BY <1>3, <1>4, <1>5, <1>6, <1>7, <1>8 DEF TypeOK, DeviceTypes, SetQty
<1>10. UNCHANGED networkVars /\ UNCHANGED <<storeVars, now>>
        /\ UNCHANGED historyVars
  BY DEF SetQty
<1> QED
  BY <1>9, <1>10, UnchangedTypes DEF TypeOK

\* The handlers of the cart keep every type: a quantity stays within its bound.
LEMMA CartType ==
  ASSUME NEW d \in Devices, NEW p \in Products, TypeOK,
         \/ AddOne(d, p) \/ RemoveOne(d, p) \/ DeleteLine(d, p)
         \/ CartPlus(d, p) \/ CartMinus(d, p)
  PROVE  TypeOK'
<1>1. /\ MaxQty \in Nat /\ cart[d][p] \in 0 .. MaxQty
      /\ cart[d][p] < MaxQty => cart[d][p] + 1 \in 0 .. MaxQty
  BY BoundsAssumption DEF TypeOK, DeviceTypes
<1>2. CASE AddOne(d, p)
  BY <1>1, <1>2, SetQtyType DEF AddOne
<1>3. CASE RemoveOne(d, p)
  <2>1. (IF p \in InCart(d) THEN cart[d][p] - 1 ELSE 0) \in 0 .. MaxQty
    BY <1>1 DEF InCart, Entries
  <2> QED BY <1>3, <2>1, SetQtyType DEF RemoveOne
<1>4. CASE DeleteLine(d, p)
  <2>1. 0 \in 0 .. MaxQty
    BY <1>1
  <2> QED BY <1>4, <2>1, SetQtyType DEF DeleteLine
<1>5. CASE CartPlus(d, p)
  BY <1>1, <1>5, SetQtyType DEF CartPlus
<1>6. CASE CartMinus(d, p)
  <2>1. cart[d][p] - 1 \in 0 .. MaxQty
    BY <1>1, <1>6 DEF CartMinus, TypeOK, DeviceTypes, InCart, Entries
  <2> QED BY <1>6, <2>1, SetQtyType DEF CartMinus
<1> QED
  BY <1>2, <1>3, <1>4, <1>5, <1>6

\* Opening and leaving the cart page keep every type.
LEMMA NavigationType ==
  ASSUME NEW d \in Devices, TypeOK, OpenCart(d) \/ Leave(d)
  PROVE  TypeOK'
<1>1. DeviceTypes'
  <2>1. CASE OpenCart(d)
    <3>1. opened[d] + 1 \in Pages
      BY <2>1, BoundsAssumption DEF OpenCart, TypeOK, DeviceTypes, Pages
    <3> QED BY <2>1, <3>1 DEF OpenCart, TypeOK, DeviceTypes, Pages, InCart
  <2>2. CASE Leave(d)
    BY <2>2 DEF Leave, TypeOK, DeviceTypes, InCart
  <2> QED BY <2>1, <2>2
<1>2. UNCHANGED networkVars /\ UNCHANGED <<storeVars, now>>
        /\ UNCHANGED historyVars
  BY DEF OpenCart, Leave
<1> QED
  BY <1>1, <1>2, UnchangedTypes DEF TypeOK

\* PROCEED TO UPDATE sends a typed invoice and starts typed uploads.
LEMMA ProceedType ==
  ASSUME NEW d \in Devices, TypeOK, Proceed(d)
  PROVE  TypeOK'
<1>1. opened[d] \in Pages /\ now \in Times
  BY DEF Proceed, TypeOK, DeviceTypes, StoreTypes
<1>2. HeaderWrite(d) \in Write
  <2>1. /\ productCount[d] \in Int /\ itemCount[d] \in Int
        /\ cartTotal[d] \in Int /\ carried[d] \in [Products -> Nat]
        /\ [p \in Products |-> IF p \in cartProducts[d]
                                THEN cart[d][p] ELSE 0] \in [Products -> Nat]
    BY BoundsAssumption DEF TypeOK, DeviceTypes, HistoryTypes
  <2> QED BY <1>1, <2>1 DEF HeaderWrite, Write
<1>3. \A p \in cartProducts[d] : NewTask(d, p) \in Task
  <2>1. \A p \in cartProducts[d] :
          p \in Products /\ cart[d][p] \in 1 .. MaxQty
    BY BoundsAssumption DEF TypeOK, DeviceTypes, InCart, Entries
  <2> QED BY <1>1, <2>1 DEF NewTask, Task, Phases
<1>4. DeviceTypes'
  BY <1>1 DEF Proceed, TypeOK, DeviceTypes, InCart
<1>5. NetworkTypes'
  <2>1. tasks' \in [Devices -> SUBSET Task]
    <3>1. {NewTask(d, p) : p \in cartProducts[d]} \subseteq Task
      BY <1>3 DEF TypeOK, DeviceTypes
    <3> QED BY <3>1 DEF Proceed, TypeOK, NetworkTypes
  <2>2. Append(outbox[d], HeaderWrite(d)) \in Seq(Write)
    BY <1>2 DEF TypeOK, NetworkTypes
  <2>3. outbox' \in [Devices -> Seq(Write)]
    BY <2>2 DEF Proceed, TypeOK, NetworkTypes
  <2> QED BY <2>1, <2>3 DEF Proceed, TypeOK, NetworkTypes
<1>6. HistoryTypes'
  <2>1. cartProducts[d] \in SUBSET Products
    BY DEF TypeOK, DeviceTypes
  <2>2. [lines |-> cartProducts[d], landed |-> {}, failed |-> FALSE,
         clean |-> carried[d] = NoCart /\ tasks[d] = {} /\ acks[d] = {}]
           \in Order
    BY <2>1 DEF Order
  <2>3. orders' \in [Devices -> [Pages -> Order]]
    BY <2>2 DEF Proceed, TypeOK, HistoryTypes
  <2> QED BY <2>1, <2>3 DEF Proceed, TypeOK, HistoryTypes
<1>7. UNCHANGED <<storeVars, now>>
  BY DEF Proceed
<1> QED
  BY <1>4, <1>5, <1>6, <1>7, UnchangedTypes DEF TypeOK

-----------------------------------------------------------------------------
\* Whatever once() answers is a figure, from the database or from an own write.
LEMMA LocalTillType ==
  ASSUME TypeOK, NEW d \in Devices, NEW p \in Products,
         NEW base \in LocalTill(d, p)
  PROVE  base \in Nat
<1>1. CASE PendingTill(d, p) = {}
  BY <1>1 DEF LocalTill, TypeOK, StoreTypes
<1>2. CASE PendingTill(d, p) # {}
  <2>1. PICK i \in PendingTill(d, p) : base = NewTill(outbox[d][i].task)
    BY <1>2 DEF LocalTill
  <2>2. outbox[d][i] \in Write /\ outbox[d][i].kind = "till"
    BY DEF PendingTill, TypeOK, NetworkTypes
  <2>3. outbox[d][i].task \in Task
    BY <2>2 DEF Write
  <2> QED BY <2>1, <2>3, BoundsAssumption DEF NewTill, Task
<1> QED BY <1>1, <1>2

\* An answered or a refused read keeps every type.
LEMMA ReadType ==
  ASSUME NEW d \in Devices, NEW t \in tasks[d], TypeOK,
         Answer(d, t) \/ ReadFails(d, t)
  PROVE  TypeOK'
<1>1. t \in Task
  BY DEF TypeOK, NetworkTypes
<1>2. CASE Answer(d, t)
  <2>1. PICK base \in LocalTill(d, t.sku) :
          tasks' = [tasks EXCEPT ![d] = (@ \ {t}) \cup
                      {[t EXCEPT !.phase = "answered", !.base = base]}]
    BY <1>2 DEF Answer
  <2>2. base \in Nat
    BY <1>1, LocalTillType DEF Task
  <2>3. [t EXCEPT !.phase = "answered", !.base = base] \in Task
    BY <1>1, <2>2 DEF Task, Phases
  <2>4. tasks' \in [Devices -> SUBSET Task]
    BY <2>1, <2>3 DEF TypeOK, NetworkTypes
  <2>5. NetworkTypes'
    BY <1>2, <2>4 DEF Answer, TypeOK, NetworkTypes
  <2>6. UNCHANGED deviceVars /\ UNCHANGED <<storeVars, now>>
          /\ UNCHANGED historyVars
    BY <1>2 DEF Answer
  <2> QED BY <2>5, <2>6, UnchangedTypes DEF TypeOK
<1>3. CASE ReadFails(d, t)
  <2>1. UNCHANGED deviceVars
    BY <1>3 DEF ReadFails
  <2>2. NetworkTypes'
    BY <1>3 DEF ReadFails, TypeOK, NetworkTypes
  <2>3. HistoryTypes'
    <3>1. t.page \in Pages
      BY <1>1 DEF Task
    <3> DEFINE o == orders[d][t.page]
    <3>a. o \in Order
      BY <3>1 DEF TypeOK, HistoryTypes
    <3>2. [o EXCEPT !.failed = TRUE] \in Order
      BY <3>a DEF Order
    <3>3. orders' \in [Devices -> [Pages -> Order]]
      BY <1>3, <3>1, <3>2 DEF ReadFails, TypeOK, HistoryTypes
    <3> QED BY <1>3, <3>3 DEF ReadFails, TypeOK, HistoryTypes
  <2>4. UNCHANGED <<storeVars, now>>
    BY <1>3 DEF ReadFails
  <2> QED BY <2>1, <2>2, <2>3, <2>4, UnchangedTypes DEF TypeOK
<1> QED BY <1>2, <1>3

\* The three writes of the callback are typed.
LEMMA CallbackType ==
  ASSUME NEW d \in Devices, NEW t \in tasks[d], TypeOK, Callback(d, t)
  PROVE  TypeOK'
<1> DEFINE sent == [t EXCEPT !.phase = "sent"]
<1>0. t \in Task
  BY DEF TypeOK, NetworkTypes
<1>1. sent \in Task
  BY <1>0 DEF Task, Phases
<1>2. DayOf(now) \in Days
  BY DEF Days, TypeOK, StoreTypes
<1>3. ProductWrites(sent) \in Seq(Write)
  <2>1. /\ [kind |-> "invoice", sku |-> sent.sku, id |-> sent.id,
            qty |-> sent.qty] \in Write
        /\ [kind |-> "day", sku |-> sent.sku, day |-> DayOf(now),
            id |-> sent.id, qty |-> sent.qty] \in Write
        /\ [kind |-> "till", task |-> sent] \in Write
    BY <1>1, <1>2 DEF Task, Write
  <2> QED BY <2>1 DEF ProductWrites
<1>4. NetworkTypes'
  <2>1. tasks' = [tasks EXCEPT ![d] = (@ \ {t}) \cup {sent}]
    BY DEF Callback
  <2>2. outbox' = [outbox EXCEPT ![d] = @ \o ProductWrites(sent)]
    BY DEF Callback
  <2>3. tasks' \in [Devices -> SUBSET Task]
    BY <1>1, <2>1 DEF TypeOK, NetworkTypes
  <2>4. outbox[d] \o ProductWrites(sent) \in Seq(Write)
    BY <1>3 DEF TypeOK, NetworkTypes
  <2>5. outbox' \in [Devices -> Seq(Write)]
    BY <2>2, <2>4 DEF TypeOK, NetworkTypes
  <2> QED BY <2>3, <2>5 DEF Callback, TypeOK, NetworkTypes
<1>5. UNCHANGED deviceVars /\ UNCHANGED <<storeVars, now>>
        /\ UNCHANGED historyVars
  BY DEF Callback
<1> QED BY <1>4, <1>5, UnchangedTypes DEF TypeOK

\* Taking the oldest write leaves a sequence of writes.
LEMMA TakeWriteType ==
  ASSUME NEW d \in Devices, NEW kind, TypeOK, TakeWrite(d, kind)
  PROVE  /\ Head(outbox[d]) \in Write
         /\ Head(outbox[d]).kind = kind
         /\ outbox' \in [Devices -> Seq(Write)]
<1>1. outbox[d] \in Seq(Write) /\ outbox[d] # <<>>
  BY DEF TakeWrite, TypeOK, NetworkTypes
<1>2. Head(outbox[d]) \in Write /\ Tail(outbox[d]) \in Seq(Write)
  BY <1>1
<1> QED
  BY <1>2 DEF TakeWrite, TypeOK, NetworkTypes

\* A write the database applies leaves typed figures.
LEMMA ApplyType ==
  ASSUME NEW d \in Devices, TypeOK,
         ApplyHeader(d) \/ ApplyInvoice(d) \/ ApplyDay(d) \/ ApplyTill(d)
  PROVE  TypeOK'
<1> DEFINE w == Head(outbox[d])
<1>1. CASE ApplyHeader(d)
  <2>1. /\ w \in Write /\ w.kind = "header"
        /\ outbox' \in [Devices -> Seq(Write)]
    BY <1>1, TakeWriteType DEF ApplyHeader
  <2>2. headers' \in [Times -> Write \cup {NoHeader}]
    BY <1>1, <2>1 DEF ApplyHeader, TypeOK, StoreTypes
  <2>3. NetworkTypes' /\ StoreTypes'
    BY <1>1, <2>1, <2>2
    DEF ApplyHeader, TypeOK, NetworkTypes, StoreTypes
  <2>4. UNCHANGED deviceVars /\ UNCHANGED historyVars
    BY <1>1 DEF ApplyHeader
  <2> QED BY <2>3, <2>4, UnchangedTypes DEF TypeOK
<1>2. CASE ApplyInvoice(d)
  <2>1. /\ w \in Write /\ w.kind = "invoice"
        /\ outbox' \in [Devices -> Seq(Write)]
    BY <1>2, TakeWriteType DEF ApplyInvoice
  <2>2. w.sku \in Products /\ w.id \in Times /\ w.qty \in Nat
    BY <2>1 DEF Write
  <2>3. invoices' \in [Products -> [Times -> Nat]]
    BY <1>2, <2>2 DEF ApplyInvoice, TypeOK, StoreTypes
  <2>4. NetworkTypes' /\ StoreTypes'
    BY <1>2, <2>1, <2>3
    DEF ApplyInvoice, TypeOK, NetworkTypes, StoreTypes
  <2>5. UNCHANGED deviceVars /\ UNCHANGED historyVars
    BY <1>2 DEF ApplyInvoice
  <2> QED BY <2>4, <2>5, UnchangedTypes DEF TypeOK
<1>3. CASE ApplyDay(d)
  <2>1. /\ w \in Write /\ w.kind = "day"
        /\ outbox' \in [Devices -> Seq(Write)]
    BY <1>3, TakeWriteType DEF ApplyDay
  <2>2. w.sku \in Products /\ w.day \in Days
        /\ [id |-> w.id, qty |-> w.qty] \in Inward
    BY <2>1 DEF Write, Inward
  <2>3. dayInward' \in [Products -> [Days -> Inward]]
    BY <1>3, <2>2 DEF ApplyDay, TypeOK, StoreTypes
  <2>4. NetworkTypes' /\ StoreTypes'
    BY <1>3, <2>1, <2>3
    DEF ApplyDay, TypeOK, NetworkTypes, StoreTypes
  <2>5. UNCHANGED deviceVars /\ UNCHANGED historyVars
    BY <1>3 DEF ApplyDay
  <2> QED BY <2>4, <2>5, UnchangedTypes DEF TypeOK
<1>4. CASE ApplyTill(d)
  <2> DEFINE t == w.task
  <2>1. /\ w \in Write /\ w.kind = "till"
        /\ outbox' \in [Devices -> Seq(Write)]
    BY <1>4, TakeWriteType DEF ApplyTill
  <2>2. t \in Task
    BY <2>1 DEF Write
  <2>3. /\ t.sku \in Products /\ t.page \in Pages /\ t.qty \in Nat
        /\ NewTill(t) \in Nat /\ [id |-> t.id, qty |-> t.qty] \in Inward
    BY <2>2, BoundsAssumption DEF Task, NewTill, Inward
  <2> HIDE DEF t
  <2>4. till' \in [Products -> Nat]
    <3>1. till' = [till EXCEPT ![t.sku] = NewTill(t)]
      BY <1>4 DEF ApplyTill, t, w
    <3> QED BY <2>3, <3>1 DEF TypeOK, StoreTypes
  <2>5. recent' \in [Products -> Inward]
    <3>1. recent' = [recent EXCEPT ![t.sku] = [id |-> t.id, qty |-> t.qty]]
      BY <1>4 DEF ApplyTill, t, w
    <3> QED BY <2>3, <3>1 DEF TypeOK, StoreTypes
  <2>6. StoreTypes'
    BY <1>4, <2>4, <2>5 DEF ApplyTill, TypeOK, StoreTypes
  <2>7. NetworkTypes'
    <3>1. /\ tasks' = [tasks EXCEPT ![d] = @ \ {t}]
          /\ acks' = [acks EXCEPT ![d] =
                        @ \cup {[page |-> t.page, sku |-> t.sku]}]
      BY <1>4 DEF ApplyTill, t, w
    <3> QED BY <2>1, <2>3, <3>1 DEF TypeOK, NetworkTypes
  <2>8. HistoryTypes'
    <3>1. /\ ledger' = [ledger EXCEPT ![t.sku] = @ + t.qty]
          /\ orders' = [orders EXCEPT
                          ![d][t.page].landed = @ \cup {t.sku}]
          /\ UNCHANGED <<carried, overlapped, refused, refusals>>
      BY <1>4 DEF ApplyTill, t, w
    <3>2. ledger' \in [Products -> Nat]
      BY <2>3, <3>1 DEF TypeOK, HistoryTypes
    <3> DEFINE o == orders[d][t.page]
    <3>3. o \in Order
      BY <2>3 DEF TypeOK, HistoryTypes
    <3>4. [o EXCEPT !.landed = @ \cup {t.sku}] \in Order
      BY <2>3, <3>3 DEF Order
    <3>5. orders' \in [Devices -> [Pages -> Order]]
      BY <2>3, <3>1, <3>4 DEF TypeOK, HistoryTypes
    <3> QED BY <3>1, <3>2, <3>5 DEF TypeOK, HistoryTypes
  <2>9. UNCHANGED deviceVars
    BY <1>4 DEF ApplyTill
  <2> QED BY <2>6, <2>7, <2>8, <2>9, UnchangedTypes DEF TypeOK
<1> QED
  BY <1>1, <1>2, <1>3, <1>4

\* A refused write, whichever of the four it is, keeps every type.
LEMMA RefuseType ==
  ASSUME NEW d \in Devices, TypeOK, RefuseTill(d) \/ RefuseRecord(d)
  PROVE  TypeOK'
<1> DEFINE w == Head(outbox[d])
<1>1. CASE RefuseTill(d)
  <2>1. /\ w.task \in Task
        /\ outbox' \in [Devices -> Seq(Write)]
    <3>1. /\ w \in Write /\ w.kind = "till"
          /\ outbox' \in [Devices -> Seq(Write)]
      BY <1>1, TakeWriteType DEF RefuseTill, Refuse
    <3> QED BY <3>1 DEF Write
  <2>2. /\ tasks' = [tasks EXCEPT ![d] = @ \ {w.task}]
        /\ refusals' = refusals + 1 /\ refusals < MaxRefusals
        /\ successful' = [successful EXCEPT ![d] = FALSE]
        /\ orders' = [orders EXCEPT ![d][w.task.page].failed = TRUE]
        /\ refused' = refused \cup {w.task.sku}
        /\ UNCHANGED <<cart, cartProducts, productCount, itemCount, cartTotal,
                       page, opened, uploaded, acks, storeVars, now,
                       carried, overlapped, ledger>>
    BY <1>1 DEF RefuseTill, Refuse
  <2> DEFINE t == w.task
  <2> HIDE DEF w
  <2>3. DeviceTypes'
    BY <2>2 DEF TypeOK, DeviceTypes, InCart
  <2>4. NetworkTypes'
    BY <2>1, <2>2 DEF TypeOK, NetworkTypes
  <2>5. t.page \in Pages /\ t.sku \in Products
    BY <2>1 DEF Task
  <2>6. orders[d][t.page] \in Order
    BY <2>5 DEF TypeOK, HistoryTypes
  <2>7. [orders[d][t.page] EXCEPT !.failed = TRUE] \in Order
    BY <2>6 DEF Order
  <2>8. orders' \in [Devices -> [Pages -> Order]]
    BY <2>2, <2>5, <2>7 DEF TypeOK, HistoryTypes
  <2>9. HistoryTypes'
    BY <2>2, <2>5, <2>8, BoundsAssumption DEF TypeOK, HistoryTypes
  <2> QED BY <2>2, <2>3, <2>4, <2>9, UnchangedTypes DEF TypeOK
<1>2. CASE RefuseRecord(d)
  <2>1. PICK kind \in {"header", "invoice", "day"} : Refuse(d, kind)
    BY <1>2 DEF RefuseRecord
  <2>2. /\ w \in Write /\ w.kind = kind
        /\ outbox' \in [Devices -> Seq(Write)]
    BY <2>1, TakeWriteType DEF Refuse
  <2>3. w.kind # "header" => w.sku \in Products
    BY <2>1, <2>2 DEF Write
  <2>4. /\ refused' \in SUBSET Products
        /\ refusals' \in 0 .. MaxRefusals
        /\ UNCHANGED <<deviceVars, tasks, acks, storeVars, now,
                       carried, overlapped, ledger, orders>>
    BY <1>2, <2>1, <2>3, BoundsAssumption
    DEF RefuseRecord, Refuse, TypeOK, HistoryTypes
  <2>5. NetworkTypes'
    BY <2>2, <2>4 DEF TypeOK, NetworkTypes
  <2>6. HistoryTypes'
    BY <2>4 DEF TypeOK, HistoryTypes
  <2> QED BY <2>4, <2>5, <2>6, UnchangedTypes DEF TypeOK
<1> QED
  BY <1>1, <1>2

\* An acknowledgement, late or not, keeps every type.
LEMMA AckType ==
  ASSUME NEW d \in Devices, NEW a \in acks[d], TypeOK,
         AckCounted(d, a) \/ AckCompletes(d, a) \/ AckDisposed(d, a)
  PROVE  TypeOK'
<1>1. a.page \in Pages
  BY DEF TypeOK, NetworkTypes
<1>2. CountAck(d, a)
  BY DEF AckCounted, AckCompletes, AckDisposed
<1>3. NetworkTypes'
  BY <1>2 DEF CountAck, TypeOK, NetworkTypes
<1>4. uploaded' \in [Devices -> [Pages -> Nat]]
  BY <1>1, <1>2 DEF CountAck, TypeOK, DeviceTypes
<1>5. /\ \/ UNCHANGED <<cartProducts, productCount, itemCount, cartTotal,
                         carried>>
         \/ ClearCart(d)
      /\ \/ UNCHANGED successful
         \/ \E b \in BOOLEAN : successful' = [successful EXCEPT ![d] = b]
  BY DEF AckCounted, AckCompletes, AckDisposed
<1>6. /\ cartProducts' \in [Devices -> SUBSET Products]
      /\ productCount' \in [Devices -> Int]
      /\ itemCount' \in [Devices -> Int]
      /\ cartTotal' \in [Devices -> Int]
      /\ successful' \in [Devices -> BOOLEAN]
      /\ \A e \in Devices : cartProducts'[e] \subseteq cartProducts[e]
  <2>1. successful' \in [Devices -> BOOLEAN]
    BY <1>5 DEF TypeOK, DeviceTypes
  <2>2. CASE ClearCart(d)
    BY <2>1, <2>2 DEF ClearCart, TypeOK, DeviceTypes
  <2>3. CASE UNCHANGED <<cartProducts, productCount, itemCount, cartTotal,
                         carried>>
    BY <2>1, <2>3 DEF TypeOK, DeviceTypes
  <2> QED BY <1>5, <2>2, <2>3
<1>7. \/ UNCHANGED page
      \/ page[d] = "uploading" /\ page' = [page EXCEPT ![d] = "status"]
  BY DEF AckCounted, AckCompletes, AckDisposed, Mounted
<1>8. DeviceTypes'
  BY <1>2, <1>4, <1>6, <1>7 DEF CountAck, TypeOK, DeviceTypes, InCart
<1>9. HistoryTypes'
  <2>1. carried' \in [Devices -> [Products -> Nat]]
    <3>1. \A e \in Devices : cart[e] \in [Products -> Nat]
      BY BoundsAssumption DEF TypeOK, DeviceTypes
    <3> QED BY <1>5, <3>1 DEF ClearCart, TypeOK, HistoryTypes
  <2> QED BY <1>2, <2>1 DEF CountAck, TypeOK, HistoryTypes
<1>10. UNCHANGED <<storeVars, now>>
  BY <1>2 DEF CountAck
<1> QED
  BY <1>3, <1>8, <1>9, <1>10, UnchangedTypes DEF TypeOK

\* A new process starts typed.
LEMMA RestartType ==
  ASSUME NEW d \in Devices, TypeOK, Restart(d)
  PROVE  TypeOK'
<1>1. /\ NoCart \in [Products -> Nat] /\ NoCart \in [Products -> 0 .. MaxQty]
      /\ NoOrder \in Order
  BY BoundsAssumption DEF NoCart, NoOrder, Order
<1>2. DeviceTypes'
  BY <1>1 DEF Restart, TypeOK, DeviceTypes, InCart
<1>3. NetworkTypes'
  BY DEF Restart, TypeOK, NetworkTypes
<1>4. HistoryTypes'
  BY <1>1 DEF Restart, TypeOK, HistoryTypes
<1>5. UNCHANGED <<storeVars, now>>
  BY DEF Restart
<1> QED
  BY <1>2, <1>3, <1>4, <1>5, UnchangedTypes DEF TypeOK

\* The clock keeps every type.
LEMMA TickType == TypeOK /\ Tick => TypeOK'
<1> SUFFICES ASSUME TypeOK, Tick PROVE TypeOK'
  OBVIOUS
<1>1. now' \in Times
  BY BoundsAssumption DEF Tick, TypeOK, StoreTypes, Times
<1>2. StoreTypes'
  BY <1>1 DEF Tick, TypeOK, StoreTypes, storeVars
<1>3. UNCHANGED deviceVars /\ UNCHANGED networkVars /\ UNCHANGED historyVars
  BY DEF Tick
<1> QED
  BY <1>2, <1>3, UnchangedTypes DEF TypeOK

\* Every step keeps every type.
LEMMA NextType == TypeOK /\ [Next]_vars => TypeOK'
<1> SUFFICES ASSUME TypeOK, [Next]_vars PROVE TypeOK'
  OBVIOUS
<1>1. ASSUME NEW d \in Devices, User(d) PROVE TypeOK'
  BY <1>1, CartType, NavigationType, ProceedType DEF User
<1>2. ASSUME NEW d \in Devices, Network(d) PROVE TypeOK'
  BY <1>2, ReadType, CallbackType, ApplyType, AckType DEF Network
<1>3. ASSUME NEW d \in Devices, Failure(d) PROVE TypeOK'
  BY <1>3, ReadType, RefuseType, RestartType DEF Failure
<1>4. CASE Tick
  BY <1>4, TickType
<1>5. CASE UNCHANGED vars
  BY <1>5, UnchangedTypes DEF vars, TypeOK
<1> QED
  BY <1>1, <1>2, <1>3, <1>4, <1>5 DEF Next

\* Every reachable state of the app, the network and the database is typed,
\* whatever the devices, products and bounds: no legal sequence of taps makes a
\* quantity of the cart or a figure of the database negative.
THEOREM TypeCorrect == Spec => []TypeOK
<1>1. Init => TypeOK
  BY InitType
<1>2. TypeOK /\ [Next]_vars => TypeOK'
  BY NextType
<1> QED
  BY <1>1, <1>2, PTL DEF Spec

-----------------------------------------------------------------------------
(* The ledger.  LedgerExactWhenSerial is not inductive: a write that is on *)
(* its way carries a figure computed from an earlier read.  What makes it  *)
(* right is that, while the uploads of a product do not overlap, at most   *)
(* one task of the product exists, its write is in the outbox at most once *)
(* and the figure it read is still the figure stored.                      *)

\* A till-date write on its way belongs to a task that was sent, and there is
\* no second one.
SentOnce ==
    \A d \in Devices, p \in Products \ overlapped :
        \A i \in PendingTill(d, p) :
            /\ outbox[d][i].task \in tasks[d]
            /\ outbox[d][i].task.phase = "sent"
            /\ \A j \in PendingTill(d, p) : i = j

OneUpload ==
    \A p \in Products \ overlapped, d1, d2 \in Devices :
        \A t1 \in tasks[d1], t2 \in tasks[d2] :
            t1.sku = p /\ t2.sku = p => d1 = d2 /\ t1 = t2

ReadIsFresh ==
    \A p \in Products \ overlapped, d \in Devices : \A t \in tasks[d] :
        t.sku = p /\ t.phase # "reading" => t.base = till[p]

LedgerInv ==
    TypeOK /\ SentOnce /\ OneUpload /\ ReadIsFresh /\ LedgerExactWhenSerial

ledgerVars == <<tasks, outbox, till, ledger, overlapped>>

\* Nothing is under way in the initial state.
LEMMA InitLedger == Init => LedgerInv
<1> SUFFICES ASSUME Init PROVE LedgerInv
  OBVIOUS
<1>1. SentOnce
  BY DEF Init, SentOnce, PendingTill
<1>2. OneUpload /\ ReadIsFresh
  BY DEF Init, OneUpload, ReadIsFresh
<1>3. LedgerExactWhenSerial
  BY DEF Init, LedgerExactWhenSerial
<1> QED
  BY <1>1, <1>2, <1>3, InitType DEF LedgerInv

\* Steps that touch neither uploads, writes nor figures keep the invariant.
LEMMA UnchangedLedger ==
  ASSUME LedgerInv, TypeOK', UNCHANGED ledgerVars
  PROVE  LedgerInv'
<1>1. \A d, q : PendingTill(d, q)' = PendingTill(d, q)
  BY DEF PendingTill, ledgerVars
<1>2. SentOnce'
  BY <1>1 DEF LedgerInv, SentOnce, ledgerVars
<1>3. OneUpload' /\ ReadIsFresh' /\ LedgerExactWhenSerial'
  BY DEF LedgerInv, OneUpload, ReadIsFresh, LedgerExactWhenSerial, ledgerVars
<1> QED
  BY <1>2, <1>3 DEF LedgerInv

\* PROCEED TO UPDATE: a product of the list either had no upload under way, or
\* is overlapped from now on.
LEMMA ProceedLedger ==
  ASSUME NEW d \in Devices, LedgerInv, TypeOK', Proceed(d)
  PROVE  LedgerInv'
<1> DEFINE new == {NewTask(d, p) : p \in cartProducts[d]}
<1>1. /\ tasks' = [tasks EXCEPT ![d] = @ \cup new]
      /\ outbox' = [outbox EXCEPT ![d] = Append(@, HeaderWrite(d))]
      /\ overlapped' = overlapped \cup {p \in cartProducts[d] : Outstanding(p)}
      /\ UNCHANGED <<till, ledger>>
  BY DEF Proceed, storeVars
<1>2. tasks \in [Devices -> SUBSET Task] /\ outbox \in [Devices -> Seq(Write)]
  BY DEF LedgerInv, TypeOK, NetworkTypes
<1>3. \A e \in Devices : /\ tasks[e] \subseteq tasks'[e]
                         /\ e # d => tasks'[e] = tasks[e]
  BY <1>1, <1>2
<1>4. ASSUME NEW e \in Devices, NEW p, NEW i \in PendingTill(e, p)'
      PROVE  i \in PendingTill(e, p) /\ outbox'[e][i] = outbox[e][i]
  <2>1. CASE e # d
    BY <1>1, <1>2, <1>4, <2>1 DEF PendingTill
  <2>2. CASE e = d
    <3>1. outbox'[d] = Append(outbox[d], HeaderWrite(d))
      BY <1>1, <1>2
    <3>2. i \in 1 .. Len(outbox[d]) + 1 /\ outbox'[d][i].kind = "till"
      BY <1>2, <1>4, <2>2, <3>1 DEF PendingTill
    <3>3. outbox'[d][Len(outbox[d]) + 1].kind = "header"
      BY <1>2, <3>1 DEF HeaderWrite
    <3>4. i \in 1 .. Len(outbox[d])
      BY <1>2, <3>2, <3>3
    <3> QED BY <1>2, <1>4, <2>2, <3>1, <3>4 DEF PendingTill
  <2> QED BY <2>1, <2>2
<1>5. SentOnce'
  <2> SUFFICES ASSUME NEW e \in Devices, NEW p \in (Products \ overlapped)',
                      NEW i \in PendingTill(e, p)'
               PROVE  /\ outbox'[e][i].task \in tasks'[e]
                      /\ outbox'[e][i].task.phase = "sent"
                      /\ \A j \in PendingTill(e, p)' : i = j
    BY DEF SentOnce
  <2>1. p \in Products \ overlapped /\ i \in PendingTill(e, p)
          /\ outbox'[e][i] = outbox[e][i]
    BY <1>1, <1>4
  <2>2. \A j \in PendingTill(e, p)' : j \in PendingTill(e, p)
    BY <1>4
  <2> QED BY <1>3, <2>1, <2>2 DEF LedgerInv, SentOnce
<1>6. \A t \in new : /\ t.sku \in cartProducts[d] /\ t.phase = "reading"
                     /\ t = NewTask(d, t.sku)
  BY DEF NewTask
<1>7. OneUpload'
  <2> SUFFICES ASSUME NEW p \in Products \ overlapped',
                      NEW d1 \in Devices, NEW d2 \in Devices,
                      NEW t1 \in tasks'[d1], NEW t2 \in tasks'[d2],
                      t1.sku = p, t2.sku = p
               PROVE  d1 = d2 /\ t1 = t2
    BY DEF OneUpload
  <2>1. p \notin overlapped /\ (p \in cartProducts[d] => ~Outstanding(p))
    BY <1>1
  <2>2. CASE p \in cartProducts[d]
    <3>1. \A e \in Devices : \A t \in tasks[e] : t.sku # p
      BY <2>1, <2>2 DEF Outstanding
    <3>2. d1 = d /\ t1 \in new /\ d2 = d /\ t2 \in new
      BY <1>1, <1>2, <3>1
    <3> QED BY <1>6, <3>2
  <2>3. CASE p \notin cartProducts[d]
    <3>1. t1 \in tasks[d1] /\ t2 \in tasks[d2]
      BY <1>1, <1>2, <1>6, <2>3
    <3> QED BY <2>1, <3>1 DEF LedgerInv, OneUpload
  <2> QED BY <2>2, <2>3
<1>8. ReadIsFresh'
  BY <1>1, <1>2, <1>6 DEF LedgerInv, ReadIsFresh
<1>9. LedgerExactWhenSerial'
  BY <1>1 DEF LedgerInv, LedgerExactWhenSerial
<1> QED
  BY <1>5, <1>7, <1>8, <1>9 DEF LedgerInv

\* An answer: no write of the product is pending on the device, so the figure
\* read is the stored one.
LEMMA AnswerLedger ==
  ASSUME NEW d \in Devices, NEW t \in tasks[d], LedgerInv, TypeOK',
         Answer(d, t)
  PROVE  LedgerInv'
<1>1. PICK base \in LocalTill(d, t.sku) :
        tasks' = [tasks EXCEPT ![d] = (@ \ {t}) \cup
                    {[t EXCEPT !.phase = "answered", !.base = base]}]
  BY DEF Answer
<1> DEFINE u == [t EXCEPT !.phase = "answered", !.base = base]
<1>2. UNCHANGED <<outbox, till, ledger, overlapped>>
  BY DEF Answer, storeVars, historyVars
<1>3. tasks \in [Devices -> SUBSET Task] /\ t \in Task
  BY DEF LedgerInv, TypeOK, NetworkTypes
<1>4. /\ t.phase = "reading" /\ u.phase = "answered" /\ u.base = base
      /\ u.sku = t.sku
  BY <1>3 DEF Answer, Task
<1>5. \A e \in Devices : /\ e # d => tasks'[e] = tasks[e]
                         /\ \A s \in tasks'[e] : s \in tasks[e] \/ (e = d /\ s = u)
                         /\ \A s \in tasks[e] : s \in tasks'[e] \/ (e = d /\ s = t)
                         /\ e = d => (t \notin tasks'[e] \/ t = u)
  BY <1>1, <1>3
<1>6. \A e, q : PendingTill(e, q)' = PendingTill(e, q)
  BY <1>2 DEF PendingTill
<1> HIDE DEF u
<1>7. SentOnce'
  BY <1>2, <1>4, <1>5, <1>6 DEF LedgerInv, SentOnce
<1>8. t.sku \notin overlapped => base = till[t.sku]
  <2> SUFFICES ASSUME t.sku \notin overlapped PROVE base = till[t.sku]
    OBVIOUS
  <2>1. t.sku \in Products
    BY <1>3 DEF Task
  <2>2. ASSUME NEW i \in PendingTill(d, t.sku) PROVE FALSE
    <3>1. /\ outbox[d][i].task \in tasks[d]
          /\ outbox[d][i].task.phase = "sent"
          /\ outbox[d][i].task.sku = t.sku
      BY <2>1 DEF LedgerInv, SentOnce, PendingTill
    <3> QED BY <1>4, <2>1, <3>1 DEF LedgerInv, OneUpload
  <2> QED BY <2>2 DEF LocalTill
<1>9. OneUpload'
  BY <1>2, <1>4, <1>5 DEF LedgerInv, OneUpload
<1>10. ReadIsFresh'
  BY <1>2, <1>4, <1>5, <1>8 DEF LedgerInv, ReadIsFresh
<1>11. LedgerExactWhenSerial'
  BY <1>2 DEF LedgerInv, LedgerExactWhenSerial
<1> QED
  BY <1>7, <1>9, <1>10, <1>11 DEF LedgerInv

\* A refused read takes an upload away and nothing else.
LEMMA ReadFailsLedger ==
  ASSUME NEW d \in Devices, NEW t \in tasks[d], LedgerInv, TypeOK',
         ReadFails(d, t)
  PROVE  LedgerInv'
<1>1. /\ tasks' = [tasks EXCEPT ![d] = @ \ {t}] /\ t.phase = "reading"
      /\ UNCHANGED <<outbox, till, ledger, overlapped>>
  BY DEF ReadFails, storeVars
<1>2. tasks \in [Devices -> SUBSET Task]
  BY DEF LedgerInv, TypeOK, NetworkTypes
<1>3. \A e \in Devices : /\ tasks'[e] \subseteq tasks[e]
                         /\ \A s \in tasks[e] : s \in tasks'[e]
                                                \/ s.phase = "reading"
  BY <1>1, <1>2
<1>4. \A e, q : PendingTill(e, q)' = PendingTill(e, q)
  BY <1>1 DEF PendingTill
<1>5. SentOnce'
  BY <1>1, <1>3, <1>4 DEF LedgerInv, SentOnce
<1>6. OneUpload' /\ ReadIsFresh' /\ LedgerExactWhenSerial'
  BY <1>1, <1>3
  DEF LedgerInv, OneUpload, ReadIsFresh, LedgerExactWhenSerial
<1> QED
  BY <1>5, <1>6 DEF LedgerInv

\* The outbox of d once the three writes of upload u stand behind its n.
CallbackSends(d, u, n) ==
    /\ n = Len(outbox[d])
    /\ DOMAIN outbox[d] = 1 .. n /\ DOMAIN outbox'[d] = 1 .. n + 3
    /\ \A i \in 1 .. n : outbox'[d][i] = outbox[d][i]
    /\ outbox'[d][n + 1] =
            [kind |-> "invoice", sku |-> u.sku, id |-> u.id, qty |-> u.qty]
    /\ outbox'[d][n + 2] =
            [kind |-> "day", sku |-> u.sku, day |-> DayOf(now), id |-> u.id,
             qty |-> u.qty]
    /\ outbox'[d][n + 3] = [kind |-> "till", task |-> u]
    /\ \A e \in Devices : e # d => outbox'[e] = outbox[e]

\* The callback of a read appends its three writes to the device's outbox.
LEMMA CallbackOutbox ==
  ASSUME NEW d \in Devices, NEW t \in tasks[d], TypeOK, Callback(d, t),
         NEW u, u = [t EXCEPT !.phase = "sent"]
  PROVE  \E n \in Nat : CallbackSends(d, u, n)
<1> DEFINE s == outbox[d]
           w == ProductWrites(u)
<1>1. outbox' = [outbox EXCEPT ![d] = s \o w]
  BY DEF Callback
<1>2. /\ tasks \in [Devices -> SUBSET Task] /\ t \in Task
      /\ outbox \in [Devices -> Seq(Write)] /\ now \in Times
  BY DEF TypeOK, NetworkTypes, StoreTypes
<1>3. w \in Seq(Write) /\ Len(w) = 3
  <2>1. u \in Task /\ DayOf(now) \in Days
    BY <1>2 DEF Task, Phases, Days
  <2>2. /\ [kind |-> "invoice", sku |-> u.sku, id |-> u.id,
            qty |-> u.qty] \in Write
        /\ [kind |-> "day", sku |-> u.sku, day |-> DayOf(now),
            id |-> u.id, qty |-> u.qty] \in Write
        /\ [kind |-> "till", task |-> u] \in Write
    BY <2>1 DEF Task, Write
  <2> QED BY <2>2 DEF ProductWrites
<1>4. /\ w[1] = [kind |-> "invoice", sku |-> u.sku, id |-> u.id, qty |-> u.qty]
      /\ w[2] = [kind |-> "day", sku |-> u.sku, day |-> DayOf(now),
                 id |-> u.id, qty |-> u.qty]
      /\ w[3] = [kind |-> "till", task |-> u]
  BY DEF ProductWrites
<1>5. s \in Seq(Write) /\ outbox'[d] = s \o w
      /\ \A e \in Devices : e # d => outbox'[e] = outbox[e]
  BY <1>1, <1>2
<1> HIDE DEF s, w
<1>6. PICK n \in Nat : n = Len(s)
  BY <1>5
<1>7. /\ DOMAIN (s \o w) = 1 .. n + 3 /\ DOMAIN s = 1 .. n
      /\ \A i \in 1 .. n + 3 : (s \o w)[i] = IF i <= n THEN s[i] ELSE w[i - n]
  <2>1. s \in Seq(Write) /\ w \in Seq(Write)
    BY <1>3, <1>5
  <2>2. s \o w \in Seq(Write) /\ Len(s \o w) = Len(s) + Len(w)
    BY <2>1, ConcatProperties
  <2>3. DOMAIN (s \o w) = 1 .. Len(s \o w) /\ DOMAIN s = 1 .. Len(s)
    BY <2>1, <2>2
  <2>4. Len(w) = 3 /\ Len(s) = n
    BY <1>3, <1>6
  <2> QED BY <2>1, <2>2, <2>3, <2>4, ConcatProperties
<1>8. \A i \in 1 .. n : (s \o w)[i] = s[i]
  BY <1>6, <1>7
<1>9. \A i \in 1 .. 3 : (s \o w)[n + i] = w[i]
  <2>1. \A i \in 1 .. 3 : n + i \in 1 .. n + 3 /\ ~(n + i <= n)
                          /\ (n + i) - n = i
    BY <1>6
  <2> QED BY <1>7, <2>1
<1>10. /\ (s \o w)[n + 1] = w[1] /\ (s \o w)[n + 2] = w[2]
       /\ (s \o w)[n + 3] = w[3]
  <2>1. 1 \in 1 .. 3 /\ 2 \in 1 .. 3 /\ 3 \in 1 .. 3
    OBVIOUS
  <2> QED BY <1>9, <2>1
<1>11. /\ n = Len(outbox[d])
       /\ DOMAIN outbox[d] = 1 .. n /\ DOMAIN outbox'[d] = 1 .. n + 3
       /\ \A i \in 1 .. n : outbox'[d][i] = outbox[d][i]
  BY <1>5, <1>6, <1>7, <1>8 DEF s
<1>12. /\ outbox'[d][n + 1] = w[1] /\ outbox'[d][n + 2] = w[2]
       /\ outbox'[d][n + 3] = w[3]
  BY <1>5, <1>10
<1> QED
  BY <1>4, <1>5, <1>11, <1>12 DEF CallbackSends

\* The callback of a read: its task was the only one of the product, and had
\* nothing in the outbox.
LEMMA CallbackLedger ==
  ASSUME NEW d \in Devices, NEW t \in tasks[d], LedgerInv, TypeOK',
         Callback(d, t)
  PROVE  LedgerInv'
<1>0. PICK u : u = [t EXCEPT !.phase = "sent"]
  OBVIOUS
<1>1. /\ tasks' = [tasks EXCEPT ![d] = (@ \ {t}) \cup {u}]
      /\ t.phase = "answered"
      /\ UNCHANGED <<till, ledger, overlapped>>
  BY <1>0 DEF Callback, storeVars, historyVars
<1>2. tasks \in [Devices -> SUBSET Task] /\ t \in Task /\ TypeOK
  BY DEF LedgerInv, TypeOK, NetworkTypes
<1>3. u.phase = "sent" /\ u.base = t.base /\ u.sku = t.sku
  BY <1>0, <1>2 DEF Task
<1>4. \A e \in Devices : /\ e # d => tasks'[e] = tasks[e]
                         /\ \A s \in tasks'[e] : s \in tasks[e] \/ (e = d /\ s = u)
                         /\ \A s \in tasks[e] : s \in tasks'[e] \/ (e = d /\ s = t)
      /\ u \in tasks'[d]
  BY <1>1, <1>2
<1>5. PICK n \in Nat : CallbackSends(d, u, n)
  BY <1>0, <1>2, CallbackOutbox
<1> USE DEF CallbackSends
<1>6. /\ outbox'[d][n + 1].kind = "invoice"
      /\ outbox'[d][n + 2].kind = "day"
      /\ outbox'[d][n + 3].kind = "till" /\ outbox'[d][n + 3].task = u
  BY <1>5
<1>7. \A e \in Devices, q \in Products :
        \A i \in PendingTill(e, q)' :
            \/ i \in PendingTill(e, q) /\ outbox'[e][i] = outbox[e][i]
            \/ e = d /\ i = n + 3 /\ q = t.sku
  <2> SUFFICES ASSUME NEW e \in Devices, NEW q \in Products,
                      NEW i \in PendingTill(e, q)',
                      ~ (e = d /\ i = n + 3)
               PROVE  i \in PendingTill(e, q) /\ outbox'[e][i] = outbox[e][i]
    BY <1>3, <1>5, <1>6 DEF PendingTill
  <2>1. CASE e # d
    BY <1>5, <2>1 DEF PendingTill
  <2>2. CASE e = d
    <3>1. i \in 1 .. n + 3 /\ outbox'[d][i].kind = "till"
      BY <1>5, <1>6, <2>2 DEF PendingTill
    <3>2. i \in 1 .. n
      BY <1>2, <1>5, <1>6, <2>2, <3>1
    <3> QED BY <1>5, <1>6, <2>2, <3>2 DEF PendingTill
  <2> QED BY <2>1, <2>2
<1>8. t.sku \notin overlapped => \A e \in Devices : PendingTill(e, t.sku) = {}
  <2> SUFFICES ASSUME t.sku \notin overlapped, NEW e \in Devices,
                      NEW i \in PendingTill(e, t.sku)
               PROVE  FALSE
    OBVIOUS
  <2>1. t.sku \in Products
    BY <1>2 DEF Task
  <2>2. /\ outbox[e][i].task \in tasks[e]
        /\ outbox[e][i].task.phase = "sent"
        /\ outbox[e][i].task.sku = t.sku
    BY <2>1 DEF LedgerInv, SentOnce, PendingTill
  <2> QED BY <1>1, <2>1, <2>2 DEF LedgerInv, OneUpload
<1>9. SentOnce'
  <2> SUFFICES ASSUME NEW e \in Devices, NEW q \in (Products \ overlapped)',
                      NEW i \in PendingTill(e, q)'
               PROVE  /\ outbox'[e][i].task \in tasks'[e]
                      /\ outbox'[e][i].task.phase = "sent"
                      /\ \A j \in PendingTill(e, q)' : i = j
    BY DEF SentOnce
  <2>0. q \in Products \ overlapped
    BY <1>1
  <2>1. CASE q = t.sku
    <3>1. \A j \in PendingTill(e, q)' : e = d /\ j = n + 3
      BY <1>7, <1>8, <2>0, <2>1
    <3> QED BY <1>3, <1>4, <1>5, <1>6, <3>1
  <2>2. CASE q # t.sku
    <3>1. \A j \in PendingTill(e, q)' :
            j \in PendingTill(e, q) /\ outbox'[e][j] = outbox[e][j]
      BY <1>7, <2>0, <2>2
    <3>2. /\ outbox[e][i].task \in tasks[e]
          /\ outbox[e][i].task.phase = "sent"
          /\ outbox[e][i].task.sku = q
          /\ \A j \in PendingTill(e, q) : i = j
      BY <2>0, <3>1 DEF LedgerInv, SentOnce, PendingTill
    <3> QED BY <1>4, <2>2, <3>1, <3>2
  <2> QED BY <2>1, <2>2
<1>10. OneUpload'
  BY <1>1, <1>3, <1>4 DEF LedgerInv, OneUpload
<1>11. ReadIsFresh'
  BY <1>1, <1>3, <1>4 DEF LedgerInv, ReadIsFresh
<1>12. LedgerExactWhenSerial'
  BY <1>1 DEF LedgerInv, LedgerExactWhenSerial
<1> QED
  BY <1>9, <1>10, <1>11, <1>12 DEF LedgerInv

\* A write leaves the outbox: the pending ones are those that were behind it.
LEMMA TakePending ==
  ASSUME NEW d \in Devices, NEW kind, TypeOK, TakeWrite(d, kind)
  PROVE  \A e \in Devices, q \in Products :
            \A i \in PendingTill(e, q)' :
                LET k == IF e = d THEN i + 1 ELSE i IN
                /\ k \in PendingTill(e, q)
                /\ outbox'[e][i] = outbox[e][k]
                /\ i \in Nat \ {0}
<1>1. /\ outbox \in [Devices -> Seq(Write)] /\ outbox[d] # <<>>
      /\ outbox' = [outbox EXCEPT ![d] = Tail(@)]
  BY DEF TakeWrite, TypeOK, NetworkTypes
<1> SUFFICES ASSUME NEW e \in Devices, NEW q \in Products,
                    NEW i \in PendingTill(e, q)'
             PROVE  LET k == IF e = d THEN i + 1 ELSE i IN
                    /\ k \in PendingTill(e, q)
                    /\ outbox'[e][i] = outbox[e][k]
                    /\ i \in Nat \ {0}
  OBVIOUS
<1>2. CASE e # d
  <2>1. outbox'[e] = outbox[e] /\ outbox[e] \in Seq(Write)
    BY <1>1, <1>2
  <2>2. i \in 1 .. Len(outbox[e])
    BY <2>1 DEF PendingTill
  <2> QED BY <1>2, <2>1, <2>2 DEF PendingTill
<1>3. CASE e = d
  <2>1. outbox'[d] = Tail(outbox[d]) /\ outbox[d] \in Seq(Write)
    BY <1>1
  <2>2. /\ i \in 1 .. Len(outbox[d]) - 1
        /\ outbox'[d][i] = outbox[d][i + 1]
    BY <1>1, <1>3, <2>1 DEF PendingTill
  <2>3. i + 1 \in DOMAIN outbox[d]
    BY <2>1, <2>2
  <2>4. outbox[d][i + 1].kind = "till" /\ outbox[d][i + 1].task.sku = q
    BY <1>3, <2>2 DEF PendingTill
  <2> QED BY <1>3, <2>2, <2>3, <2>4 DEF PendingTill
<1> QED
  BY <1>2, <1>3

\* A write that is not of the figure shortens the outbox and nothing else.
LEMMA ApplyOtherLedger ==
  ASSUME NEW d \in Devices, NEW kind, LedgerInv, TypeOK', TakeWrite(d, kind),
         UNCHANGED <<tasks, till, ledger, overlapped>>
  PROVE  LedgerInv'
<1>1. \A e \in Devices, q \in Products :
        \A i \in PendingTill(e, q)' :
            LET k == IF e = d THEN i + 1 ELSE i IN
            /\ k \in PendingTill(e, q)
            /\ outbox'[e][i] = outbox[e][k]
            /\ i \in Nat \ {0}
  BY TakePending DEF LedgerInv
<1>2. SentOnce'
  <2> SUFFICES ASSUME NEW e \in Devices, NEW q \in Products \ overlapped,
                      NEW i \in PendingTill(e, q)'
               PROVE  /\ outbox'[e][i].task \in tasks[e]
                      /\ outbox'[e][i].task.phase = "sent"
                      /\ \A j \in PendingTill(e, q)' : i = j
    BY DEF SentOnce
  <2>1. \A k \in PendingTill(e, q) :
            /\ outbox[e][k].task \in tasks[e]
            /\ outbox[e][k].task.phase = "sent"
            /\ \A j \in PendingTill(e, q) : k = j
    BY DEF LedgerInv, SentOnce
  <2>2. CASE e = d
    BY <1>1, <2>1, <2>2
  <2>3. CASE e # d
    BY <1>1, <2>1, <2>3
  <2> QED BY <2>2, <2>3
<1>3. OneUpload' /\ ReadIsFresh' /\ LedgerExactWhenSerial'
  BY DEF LedgerInv, OneUpload, ReadIsFresh, LedgerExactWhenSerial
<1> QED
  BY <1>2, <1>3 DEF LedgerInv

\* The write of an upload that did not overlap is computed from the stored
\* figure, and adds exactly its units.
LEMMA ApplyTillFresh ==
  ASSUME NEW d \in Devices, LedgerInv, ApplyTill(d),
         Head(outbox[d]).task.sku \notin overlapped
  PROVE  LET t == Head(outbox[d]).task IN
         /\ t \in tasks[d] /\ t.phase = "sent"
         /\ 1 \in PendingTill(d, t.sku)
         /\ t.base = till[t.sku]
         /\ till' = [till EXCEPT ![t.sku] = @ + t.qty]
         /\ ledger' = [ledger EXCEPT ![t.sku] = @ + t.qty]
<1> DEFINE t == Head(outbox[d]).task
<1>1. TypeOK
  BY DEF LedgerInv
<1>2. TakeWrite(d, "till")
  BY DEF ApplyTill
<1>3. /\ outbox[d] \in Seq(Write) /\ outbox[d] # <<>>
      /\ Head(outbox[d]) \in Write /\ Head(outbox[d]).kind = "till"
  BY <1>1, <1>2, TakeWriteType DEF TakeWrite, TypeOK, NetworkTypes
<1>4. 1 \in DOMAIN outbox[d] /\ outbox[d][1] = Head(outbox[d])
  BY <1>3
<1>5. t \in Task
  BY <1>3 DEF Write
<1>6. t.sku \in Products \ overlapped
  BY <1>5 DEF Task
<1>7. 1 \in PendingTill(d, t.sku)
  BY <1>3, <1>4 DEF PendingTill
<1>8. t \in tasks[d] /\ t.phase = "sent"
  BY <1>4, <1>6, <1>7 DEF LedgerInv, SentOnce
<1>9. t.base = till[t.sku]
  BY <1>6, <1>8 DEF LedgerInv, ReadIsFresh
<1>10. /\ till' = [till EXCEPT ![t.sku] = NewTill(t)]
       /\ ledger' = [ledger EXCEPT ![t.sku] = @ + t.qty]
  BY DEF ApplyTill
<1> HIDE DEF t
<1>11. till' = [till EXCEPT ![t.sku] = @ + t.qty]
  BY <1>9, <1>10 DEF NewTill
<1> QED
  BY <1>7, <1>8, <1>9, <1>10, <1>11 DEF t

\* A refused write of the figure takes its upload away: the figure, and what
\* the uploads of other products read of theirs, stay.
LEMMA RefuseTillLedger ==
  ASSUME NEW d \in Devices, LedgerInv, TypeOK', RefuseTill(d)
  PROVE  LedgerInv'
<1> DEFINE t == Head(outbox[d]).task
<1>1. /\ TakeWrite(d, "till")
      /\ tasks' = [tasks EXCEPT ![d] = @ \ {t}]
      /\ UNCHANGED <<till, ledger, overlapped>>
  BY DEF RefuseTill, Refuse, storeVars
<1>2. tasks \in [Devices -> SUBSET Task]
  BY DEF LedgerInv, TypeOK, NetworkTypes
<1>3. \A e \in Devices : /\ tasks'[e] \subseteq tasks[e]
                         /\ \A s \in tasks[e] : s \in tasks'[e] \/ (e = d /\ s = t)
  BY <1>1, <1>2
<1>4. 1 \in PendingTill(d, t.sku)
  <2>1. outbox[d] \in Seq(Write) /\ outbox[d] # <<>> /\ Head(outbox[d]).kind = "till"
    BY <1>1 DEF TakeWrite, LedgerInv, TypeOK, NetworkTypes
  <2>2. 1 \in DOMAIN outbox[d] /\ outbox[d][1] = Head(outbox[d])
    BY <2>1
  <2> QED BY <2>1, <2>2 DEF PendingTill
<1>5. \A e \in Devices, q \in Products :
        \A i \in PendingTill(e, q)' :
            LET k == IF e = d THEN i + 1 ELSE i IN
            /\ k \in PendingTill(e, q)
            /\ outbox'[e][i] = outbox[e][k]
            /\ i \in Nat \ {0}
  BY <1>1, TakePending DEF LedgerInv
<1> HIDE DEF t
<1>6. SentOnce'
  <2> SUFFICES ASSUME NEW e \in Devices, NEW q \in Products \ overlapped,
                      NEW i \in PendingTill(e, q)'
               PROVE  /\ outbox'[e][i].task \in tasks'[e]
                      /\ outbox'[e][i].task.phase = "sent"
                      /\ \A j \in PendingTill(e, q)' : i = j
    BY <1>1 DEF SentOnce
  <2>1. \A k \in PendingTill(e, q) :
            /\ outbox[e][k].task \in tasks[e]
            /\ outbox[e][k].task.phase = "sent"
            /\ outbox[e][k].task.sku = q
            /\ \A j \in PendingTill(e, q) : k = j
    BY DEF LedgerInv, SentOnce, PendingTill
  <2>2. CASE e = d
    <3>1. i + 1 \in PendingTill(d, q) /\ i \in Nat \ {0}
      BY <1>5, <2>2
    <3>2. q # t.sku
      BY <1>4, <2>1, <2>2, <3>1
    <3>3. outbox[d][i + 1].task \in tasks'[d]
      BY <1>3, <2>1, <2>2, <3>1, <3>2
    <3> QED BY <1>5, <2>1, <2>2, <3>3
  <2>3. CASE e # d
    BY <1>3, <1>5, <2>1, <2>3
  <2> QED BY <2>2, <2>3
<1>7. OneUpload' /\ ReadIsFresh' /\ LedgerExactWhenSerial'
  BY <1>1, <1>3
  DEF LedgerInv, OneUpload, ReadIsFresh, LedgerExactWhenSerial
<1> QED
  BY <1>6, <1>7 DEF LedgerInv

\* The applied figure is exact again when its product never overlapped.
LEMMA ApplyTillLedger ==
  ASSUME NEW d \in Devices, LedgerInv, TypeOK', ApplyTill(d)
  PROVE  LedgerInv'
<1> DEFINE t == Head(outbox[d]).task
<1>1. /\ TakeWrite(d, "till")
      /\ till' = [till EXCEPT ![t.sku] = NewTill(t)]
      /\ tasks' = [tasks EXCEPT ![d] = @ \ {t}]
      /\ ledger' = [ledger EXCEPT ![t.sku] = @ + t.qty]
      /\ UNCHANGED overlapped
  BY DEF ApplyTill
<1>2. /\ tasks \in [Devices -> SUBSET Task]
      /\ till \in [Products -> Nat] /\ ledger \in [Products -> Nat]
  BY DEF LedgerInv, TypeOK, NetworkTypes, StoreTypes, HistoryTypes
<1>3. \A e \in Devices : /\ tasks'[e] \subseteq tasks[e]
                         /\ e # d => tasks'[e] = tasks[e]
                         /\ \A s \in tasks[e] : s \in tasks'[e] \/ (e = d /\ s = t)
      /\ t \notin tasks'[d]
  BY <1>1, <1>2
<1>4. t.sku \notin overlapped =>
        /\ t \in tasks[d]
        /\ 1 \in PendingTill(d, t.sku)
        /\ till' = [till EXCEPT ![t.sku] = @ + t.qty]
  BY ApplyTillFresh
<1>5. \A e \in Devices, q \in Products :
        \A i \in PendingTill(e, q)' :
            LET k == IF e = d THEN i + 1 ELSE i IN
            /\ k \in PendingTill(e, q)
            /\ outbox'[e][i] = outbox[e][k]
            /\ i \in Nat \ {0}
  BY <1>1, TakePending DEF LedgerInv
<1> HIDE DEF t
<1>6. SentOnce'
  <2> SUFFICES ASSUME NEW e \in Devices, NEW q \in Products \ overlapped,
                      NEW i \in PendingTill(e, q)'
               PROVE  /\ outbox'[e][i].task \in tasks'[e]
                      /\ outbox'[e][i].task.phase = "sent"
                      /\ \A j \in PendingTill(e, q)' : i = j
    BY <1>1 DEF SentOnce
  <2>1. \A k \in PendingTill(e, q) :
            /\ outbox[e][k].task \in tasks[e]
            /\ outbox[e][k].task.phase = "sent"
            /\ outbox[e][k].task.sku = q
            /\ \A j \in PendingTill(e, q) : k = j
    BY DEF LedgerInv, SentOnce, PendingTill
  <2>2. q # t.sku
    <3>1. SUFFICES ASSUME q = t.sku PROVE FALSE
      OBVIOUS
    <3>2. t \in tasks[d] /\ 1 \in PendingTill(d, q)
      BY <1>4, <3>1
    <3>3. CASE e = d
      <4>1. i + 1 \in PendingTill(d, q) /\ i \in Nat \ {0}
        BY <1>5, <3>3
      <4>2. i + 1 = 1
        BY <2>1, <3>2, <3>3, <4>1
      <4> QED BY <4>1, <4>2
    <3>4. CASE e # d
      <4>1. i \in PendingTill(e, q)
        BY <1>5, <3>4
      <4>2. outbox[e][i].task \in tasks[e] /\ outbox[e][i].task.sku = q
        BY <2>1, <4>1
      <4> QED BY <3>1, <3>2, <3>4, <4>2 DEF LedgerInv, OneUpload
    <3> QED BY <3>3, <3>4
  <2>3. \A k \in PendingTill(e, q) : outbox[e][k].task \in tasks'[e]
    BY <1>3, <2>1, <2>2
  <2>4. CASE e = d
    BY <1>5, <2>1, <2>3, <2>4
  <2>5. CASE e # d
    BY <1>5, <2>1, <2>3, <2>5
  <2> QED BY <2>4, <2>5
<1>7. OneUpload'
  BY <1>1, <1>3 DEF LedgerInv, OneUpload
<1>8. ReadIsFresh'
  <2> SUFFICES ASSUME NEW q \in Products \ overlapped, NEW e \in Devices,
                      NEW s \in tasks'[e], s.sku = q, s.phase # "reading"
               PROVE  s.base = till'[q]
    BY <1>1 DEF ReadIsFresh
  <2>1. s \in tasks[e] /\ s.base = till[q]
    BY <1>3 DEF LedgerInv, ReadIsFresh
  <2>2. q # t.sku
    BY <1>3, <1>4, <2>1 DEF LedgerInv, OneUpload
  <2> QED BY <1>1, <1>2, <2>1, <2>2
<1>9. LedgerExactWhenSerial'
  <2> SUFFICES ASSUME NEW q \in Products \ overlapped
               PROVE  till'[q] = ledger'[q]
    BY <1>1 DEF LedgerExactWhenSerial
  <2>1. till[q] = ledger[q]
    BY DEF LedgerInv, LedgerExactWhenSerial
  <2>2. CASE q = t.sku
    BY <1>1, <1>2, <1>4, <2>1, <2>2
  <2>3. CASE q # t.sku
    BY <1>1, <1>2, <2>1, <2>3
  <2> QED BY <2>2, <2>3
<1> QED
  BY <1>6, <1>7, <1>8, <1>9 DEF LedgerInv

\* A killed process loses its uploads, none of which had reached the figure.
LEMMA RestartLedger ==
  ASSUME NEW d \in Devices, LedgerInv, TypeOK', Restart(d)
  PROVE  LedgerInv'
<1>1. /\ tasks' = [tasks EXCEPT ![d] = {}]
      /\ outbox' = [outbox EXCEPT ![d] = <<>>]
      /\ UNCHANGED <<till, ledger, overlapped>>
  BY DEF Restart, storeVars
<1>2. tasks \in [Devices -> SUBSET Task] /\ outbox \in [Devices -> Seq(Write)]
  BY DEF LedgerInv, TypeOK, NetworkTypes
<1>3. \A e \in Devices : /\ tasks'[e] \subseteq tasks[e]
                         /\ e # d => /\ tasks'[e] = tasks[e]
                                      /\ outbox'[e] = outbox[e]
  BY <1>1, <1>2
<1>4. outbox'[d] = <<>>
  BY <1>1, <1>2
<1>5. \A e \in Devices, q \in Products :
        PendingTill(e, q)' = IF e = d THEN {} ELSE PendingTill(e, q)
  BY <1>3, <1>4 DEF PendingTill
<1>6. SentOnce'
  BY <1>1, <1>3, <1>5 DEF LedgerInv, SentOnce
<1>7. OneUpload' /\ ReadIsFresh' /\ LedgerExactWhenSerial'
  BY <1>1, <1>3
  DEF LedgerInv, OneUpload, ReadIsFresh, LedgerExactWhenSerial
<1> QED
  BY <1>6, <1>7 DEF LedgerInv

\* Every step keeps the inductive invariant.
LEMMA NextLedger == LedgerInv /\ [Next]_vars => LedgerInv'
<1> SUFFICES ASSUME LedgerInv, [Next]_vars PROVE LedgerInv'
  OBVIOUS
<1>0. TypeOK'
  BY NextType DEF LedgerInv
<1>1. ASSUME NEW d \in Devices, User(d) PROVE LedgerInv'
  <2>1. CASE Proceed(d)
    BY <1>0, <2>1, ProceedLedger
  <2>2. CASE ~Proceed(d)
    <3>1. UNCHANGED ledgerVars
      BY <1>1, <2>2
      DEF User, AddOne, RemoveOne, DeleteLine, CartPlus, CartMinus, SetQty,
          OpenCart, Leave, networkVars, storeVars, historyVars, ledgerVars
    <3> QED BY <1>0, <3>1, UnchangedLedger
  <2> QED BY <2>1, <2>2
<1>2. ASSUME NEW d \in Devices, Network(d) PROVE LedgerInv'
  <2>1. ASSUME NEW t \in tasks[d], Answer(d, t) PROVE LedgerInv'
    BY <1>0, <2>1, AnswerLedger
  <2>2. ASSUME NEW t \in tasks[d], Callback(d, t) PROVE LedgerInv'
    BY <1>0, <2>2, CallbackLedger
  <2>3. CASE ApplyHeader(d)
    BY <1>0, <2>3, ApplyOtherLedger DEF ApplyHeader, historyVars
  <2>4. CASE ApplyInvoice(d)
    BY <1>0, <2>4, ApplyOtherLedger DEF ApplyInvoice, historyVars
  <2>5. CASE ApplyDay(d)
    BY <1>0, <2>5, ApplyOtherLedger DEF ApplyDay, historyVars
  <2>6. CASE ApplyTill(d)
    BY <1>0, <2>6, ApplyTillLedger
  <2>7. ASSUME NEW a \in acks[d],
               AckCounted(d, a) \/ AckCompletes(d, a) \/ AckDisposed(d, a)
        PROVE  LedgerInv'
    <3>1. UNCHANGED ledgerVars
      BY <2>7
      DEF AckCounted, AckCompletes, AckDisposed, CountAck, storeVars, ledgerVars
    <3> QED BY <1>0, <3>1, UnchangedLedger
  <2> QED BY <1>2, <2>1, <2>2, <2>3, <2>4, <2>5, <2>6, <2>7 DEF Network
<1>3. ASSUME NEW d \in Devices, Failure(d) PROVE LedgerInv'
  <2>1. ASSUME RefuseRecord(d) PROVE LedgerInv'
    BY <1>0, <2>1, ApplyOtherLedger DEF RefuseRecord, Refuse, storeVars
  <2> QED
    BY <1>0, <1>3, <2>1, ReadFailsLedger, RefuseTillLedger, RestartLedger
    DEF Failure
<1>4. CASE Tick \/ UNCHANGED vars
  <2>1. UNCHANGED ledgerVars
    BY <1>4 DEF Tick, vars, networkVars, storeVars, historyVars, ledgerVars
  <2> QED BY <1>0, <2>1, UnchangedLedger
<1> QED
  BY <1>1, <1>2, <1>3, <1>4 DEF Next

\* The inductive invariant holds in every reachable state.
LEMMA LedgerInvariant == Spec => []LedgerInv
<1>1. Init => LedgerInv
  BY InitLedger
<1>2. LedgerInv /\ [Next]_vars => LedgerInv'
  BY NextLedger
<1> QED
  BY <1>1, <1>2, PTL DEF Spec

\* The figure of a product is exact as long as its uploads do not overlap, on
\* any number of devices, whatever is refused, killed or delayed.
THEOREM LedgerExact == Spec => []LedgerExactWhenSerial
<1>1. LedgerInv => LedgerExactWhenSerial
  BY DEF LedgerInv
<1> QED
  BY <1>1, LedgerInvariant, PTL

-----------------------------------------------------------------------------
(* Racing uploads and the records behind a figure.  The writes of a device *)
(* are applied in the order they were sent.  So whatever a till-date write *)
(* relies on, an earlier figure or the two records of its upload, is       *)
(* either in the database or ahead of it in the same outbox; only a        *)
(* refusal takes a write away from the front of the others.                *)

\* A figure read on device e is covered by the ledger, or is that of a write
\* ahead of place i.
ReadBacked(p, e, base, i) ==
    \/ base <= ledger[p]
    \/ \E j \in PendingTill(e, p) :
            j < i /\ base <= NewTill(outbox[e][j].task)

Ahead(kind, p, e, i) ==
    {j \in DOMAIN outbox[e] : /\ j < i
                              /\ outbox[e][j].kind = kind
                              /\ outbox[e][j].sku = p}

InvoiceBacked(p, e, id, i) ==
    \/ invoices[p][id] > 0
    \/ \E j \in Ahead("invoice", p, e, i) : outbox[e][j].id = id

DayBacked(p, e, i) ==
    \/ \E y \in Days : dayInward[p][y] # NoInward
    \/ Ahead("day", p, e, i) # {}

PositiveInvoices ==
    \A d \in Devices : \A i \in DOMAIN outbox[d] :
        outbox[d][i].kind = "invoice" => outbox[d][i].qty > 0

WritesBacked ==
    \A d \in Devices, p \in Products \ refused : \A i \in PendingTill(d, p) :
        LET t == outbox[d][i].task IN
        /\ ReadBacked(p, d, t.base, i)
        /\ InvoiceBacked(p, d, t.id, i)
        /\ DayBacked(p, d, i)

AnswersBacked ==
    \A d \in Devices : \A t \in tasks[d] :
        t.sku \notin refused /\ t.phase = "answered" =>
            ReadBacked(t.sku, d, t.base, Len(outbox[d]) + 1)

FlightBacked == PositiveInvoices /\ WritesBacked /\ AnswersBacked

BackedInv ==
    TypeOK /\ FlightBacked /\ TillNeverExceedsLedger /\ RecentIsBacked

figureVars == <<till, recent, invoices, dayInward, ledger>>
backedVars == <<tasks, outbox, figureVars, refused>>

\* Nothing is under way and nothing is stored in the initial state.
LEMMA InitBacked == Init => BackedInv
<1> SUFFICES ASSUME Init PROVE BackedInv
  OBVIOUS
<1>1. FlightBacked
  BY DEF Init, FlightBacked, PositiveInvoices, WritesBacked, AnswersBacked,
         PendingTill
<1>2. TillNeverExceedsLedger /\ RecentIsBacked
  BY DEF Init, TillNeverExceedsLedger, RecentIsBacked
<1> QED
  BY <1>1, <1>2, InitType DEF BackedInv

\* The stored figures stay backed when neither they, nor what backs them,
\* change; more refusals ask less.
LEMMA SameFigures ==
  ASSUME TillNeverExceedsLedger, RecentIsBacked, UNCHANGED figureVars,
         refused \subseteq refused'
  PROVE  TillNeverExceedsLedger' /\ RecentIsBacked'
BY DEF TillNeverExceedsLedger, RecentIsBacked, figureVars

\* Writes sent later are behind those already in the outbox, which keep their
\* places and what they rely on.
LEMMA KeepsPlaces ==
  ASSUME UNCHANGED figureVars,
         \A e \in Devices : \A j \in DOMAIN outbox[e] :
            j \in DOMAIN outbox'[e] /\ outbox'[e][j] = outbox[e][j]
  PROVE  \A e \in Devices, p \in Products, i \in Nat :
            /\ PendingTill(e, p) \subseteq PendingTill(e, p)'
            /\ \A base : ReadBacked(p, e, base, i) => ReadBacked(p, e, base, i)'
            /\ \A id : InvoiceBacked(p, e, id, i) => InvoiceBacked(p, e, id, i)'
            /\ DayBacked(p, e, i) => DayBacked(p, e, i)'
<1> SUFFICES ASSUME NEW e \in Devices, NEW p \in Products, NEW i \in Nat
             PROVE  /\ PendingTill(e, p) \subseteq PendingTill(e, p)'
                    /\ \A base :
                        ReadBacked(p, e, base, i) => ReadBacked(p, e, base, i)'
                    /\ \A id :
                        InvoiceBacked(p, e, id, i) => InvoiceBacked(p, e, id, i)'
                    /\ DayBacked(p, e, i) => DayBacked(p, e, i)'
  OBVIOUS
<1>1. \A j \in PendingTill(e, p) :
        j \in PendingTill(e, p)' /\ outbox'[e][j] = outbox[e][j]
  BY DEF PendingTill
<1>2. \A kind : \A j \in Ahead(kind, p, e, i) :
        j \in Ahead(kind, p, e, i)' /\ outbox'[e][j] = outbox[e][j]
  BY DEF Ahead
<1>3. \A base : ReadBacked(p, e, base, i) => ReadBacked(p, e, base, i)'
  BY <1>1 DEF ReadBacked, figureVars
<1>4. \A id : InvoiceBacked(p, e, id, i) => InvoiceBacked(p, e, id, i)'
  BY <1>2 DEF InvoiceBacked, figureVars
<1>5. DayBacked(p, e, i) => DayBacked(p, e, i)'
  BY <1>2 DEF DayBacked, figureVars
<1> QED
  BY <1>1, <1>3, <1>4, <1>5

\* A step that sends nothing of a product and answers no read keeps the flight
\* backed.
LEMMA QuietFlight ==
  ASSUME BackedInv, TypeOK', UNCHANGED <<outbox, figureVars>>,
         refused \subseteq refused',
         \A e \in Devices : \A t \in tasks'[e] :
            t \in tasks[e] \/ t.phase # "answered"
  PROVE  BackedInv'
<1>1. \A e \in Devices, p \in Products, i \in Nat :
        /\ \A base : ReadBacked(p, e, base, i) => ReadBacked(p, e, base, i)'
        /\ \A id : InvoiceBacked(p, e, id, i) => InvoiceBacked(p, e, id, i)'
        /\ DayBacked(p, e, i) => DayBacked(p, e, i)'
  BY KeepsPlaces
<1>2. /\ tasks \in [Devices -> SUBSET Task] /\ tasks' \in [Devices -> SUBSET Task]
      /\ outbox \in [Devices -> Seq(Write)]
  BY DEF BackedInv, TypeOK, NetworkTypes
<1>3. PositiveInvoices'
  BY DEF BackedInv, FlightBacked, PositiveInvoices
<1>4. WritesBacked'
  <2> SUFFICES ASSUME NEW e \in Devices, NEW p \in Products \ refused',
                      NEW i \in PendingTill(e, p)',
                      NEW s, s = outbox'[e][i].task
               PROVE  /\ ReadBacked(p, e, s.base, i)'
                      /\ InvoiceBacked(p, e, s.id, i)'
                      /\ DayBacked(p, e, i)'
    BY DEF WritesBacked
  <2>1. i \in PendingTill(e, p) /\ i \in Nat /\ p \in Products \ refused
    BY <1>2 DEF PendingTill
  <2>2. /\ ReadBacked(p, e, outbox[e][i].task.base, i)
        /\ InvoiceBacked(p, e, outbox[e][i].task.id, i)
        /\ DayBacked(p, e, i)
    BY <2>1 DEF BackedInv, FlightBacked, WritesBacked
  <2> QED BY <1>1, <2>1, <2>2
<1>5. AnswersBacked'
  <2> SUFFICES ASSUME NEW e \in Devices, NEW t \in tasks'[e],
                      t.sku \notin refused', t.phase = "answered",
                      NEW m, m = Len(outbox'[e]) + 1
               PROVE  ReadBacked(t.sku, e, t.base, m)'
    BY DEF AnswersBacked
  <2>1. t \in tasks[e] /\ t.sku \in Products /\ m \in Nat
    BY <1>2 DEF Task
  <2>2. ReadBacked(t.sku, e, t.base, m)
    BY <2>1 DEF BackedInv, FlightBacked, AnswersBacked
  <2> QED BY <1>1, <2>1, <2>2
<1> QED
  BY <1>3, <1>4, <1>5, SameFigures DEF BackedInv, FlightBacked

\* PROCEED TO UPDATE sends the store's record, behind everything else, and its
\* reads have no answer yet.
LEMMA ProceedBacked ==
  ASSUME NEW d \in Devices, BackedInv, TypeOK', Proceed(d)
  PROVE  BackedInv'
<1>0. PICK n \in Nat : n = Len(outbox[d])
  BY DEF BackedInv, TypeOK, NetworkTypes
<1>1. /\ outbox' = [outbox EXCEPT ![d] = Append(@, HeaderWrite(d))]
      /\ tasks' = [tasks EXCEPT
                    ![d] = @ \cup {NewTask(d, p) : p \in cartProducts[d]}]
      /\ UNCHANGED <<figureVars, refused>>
  BY DEF Proceed, storeVars, figureVars
<1>2. /\ tasks \in [Devices -> SUBSET Task]
      /\ outbox \in [Devices -> Seq(Write)]
  BY DEF BackedInv, TypeOK, NetworkTypes
<1>3. /\ DOMAIN outbox[d] = 1 .. n /\ DOMAIN outbox'[d] = 1 .. n + 1
      /\ \A j \in 1 .. n : outbox'[d][j] = outbox[d][j]
      /\ outbox'[d][n + 1].kind = "header"
      /\ \A e \in Devices : e # d => outbox'[e] = outbox[e]
      /\ Len(outbox'[d]) = n + 1
  <2>1. outbox'[d] = Append(outbox[d], HeaderWrite(d))
    BY <1>1, <1>2
  <2>2. HeaderWrite(d).kind = "header"
    BY DEF HeaderWrite
  <2> QED BY <1>0, <1>1, <1>2, <2>1, <2>2
<1>4. \A e \in Devices : \A j \in DOMAIN outbox[e] :
        j \in DOMAIN outbox'[e] /\ outbox'[e][j] = outbox[e][j]
  BY <1>2, <1>3
<1>5. \A e \in Devices, p \in Products, i \in Nat :
        /\ \A base : ReadBacked(p, e, base, i) => ReadBacked(p, e, base, i)'
        /\ \A id : InvoiceBacked(p, e, id, i) => InvoiceBacked(p, e, id, i)'
        /\ DayBacked(p, e, i) => DayBacked(p, e, i)'
  BY <1>1, <1>4, KeepsPlaces
<1>6. \A e \in Devices : \A j \in DOMAIN outbox'[e] :
        \/ j \in DOMAIN outbox[e] /\ outbox'[e][j] = outbox[e][j]
        \/ outbox'[e][j].kind = "header"
  <2> SUFFICES ASSUME NEW e \in Devices, NEW j \in DOMAIN outbox'[e]
               PROVE  \/ j \in DOMAIN outbox[e] /\ outbox'[e][j] = outbox[e][j]
                      \/ outbox'[e][j].kind = "header"
    OBVIOUS
  <2>1. CASE e # d
    BY <1>3, <2>1
  <2>2. CASE e = d
    <3>1. j \in 1 .. n \/ j = n + 1
      BY <1>2, <1>3, <2>2
    <3> QED BY <1>3, <2>2, <3>1
  <2> QED BY <2>1, <2>2
<1>7. PositiveInvoices'
  BY <1>6 DEF BackedInv, FlightBacked, PositiveInvoices
<1>8. WritesBacked'
  <2> SUFFICES ASSUME NEW e \in Devices, NEW p \in Products \ refused,
                      NEW i \in PendingTill(e, p)',
                      NEW s, s = outbox'[e][i].task
               PROVE  /\ ReadBacked(p, e, s.base, i)'
                      /\ InvoiceBacked(p, e, s.id, i)'
                      /\ DayBacked(p, e, i)'
    BY <1>1 DEF WritesBacked
  <2>1. /\ i \in DOMAIN outbox[e] /\ outbox'[e][i] = outbox[e][i]
    BY <1>6 DEF PendingTill
  <2>2. i \in PendingTill(e, p) /\ i \in Nat
    BY <1>2, <2>1 DEF PendingTill
  <2>3. /\ ReadBacked(p, e, outbox[e][i].task.base, i)
        /\ InvoiceBacked(p, e, outbox[e][i].task.id, i)
        /\ DayBacked(p, e, i)
    BY <1>1, <2>2 DEF BackedInv, FlightBacked, WritesBacked
  <2> QED BY <1>5, <2>1, <2>2, <2>3
<1>9. AnswersBacked'
  <2> SUFFICES ASSUME NEW e \in Devices, NEW t \in tasks'[e],
                      t.sku \notin refused, t.phase = "answered",
                      NEW m, m = Len(outbox'[e]) + 1
               PROVE  ReadBacked(t.sku, e, t.base, m)'
    BY <1>1 DEF AnswersBacked
  <2>1. t \in tasks[e]
    <3>1. \A p \in cartProducts[d] : NewTask(d, p).phase = "reading"
      BY DEF NewTask
    <3> QED BY <1>1, <1>2, <3>1
  <2>2. PICK k \in Nat : k = Len(outbox[e]) + 1
    BY <1>2
  <2>3. ReadBacked(t.sku, e, t.base, k)
    BY <1>1, <2>1, <2>2 DEF BackedInv, FlightBacked, AnswersBacked
  <2>4. t.sku \in Products
    BY <1>2, <2>1 DEF Task
  <2>5. ReadBacked(t.sku, e, t.base, k)'
    BY <1>5, <2>2, <2>3, <2>4
  <2>6. \A j \in PendingTill(e, t.sku)' : j < k => j < m
    BY <1>0, <1>2, <1>3, <2>2 DEF PendingTill
  <2> QED BY <2>5, <2>6 DEF ReadBacked
<1> QED
  BY <1>1, <1>7, <1>8, <1>9, SameFigures DEF BackedInv, FlightBacked

\* A read is answered with the stored figure, or with that of the last write
\* of the product in the outbox, which will be applied before anything sent
\* from now on.
LEMMA AnswerBacked ==
  ASSUME NEW d \in Devices, NEW t \in tasks[d], BackedInv, TypeOK',
         Answer(d, t)
  PROVE  BackedInv'
<1>1. PICK base \in LocalTill(d, t.sku) :
        tasks' = [tasks EXCEPT ![d] = (@ \ {t}) \cup
                    {[t EXCEPT !.phase = "answered", !.base = base]}]
  BY DEF Answer
<1> DEFINE u == [t EXCEPT !.phase = "answered", !.base = base]
<1>2. UNCHANGED <<outbox, figureVars, refused>>
  BY DEF Answer, storeVars, historyVars, figureVars
<1>3. /\ tasks \in [Devices -> SUBSET Task] /\ t \in Task
      /\ outbox \in [Devices -> Seq(Write)]
  BY DEF BackedInv, TypeOK, NetworkTypes
<1>4. /\ u.sku = t.sku /\ u.base = base /\ t.sku \in Products
      /\ \A e \in Devices : \A s \in tasks'[e] :
            s \in tasks[e] \/ (e = d /\ s = u)
  BY <1>1, <1>3 DEF Task
<1> HIDE DEF u
<1>5. t.sku \notin refused =>
        ReadBacked(t.sku, d, base, Len(outbox[d]) + 1)
  <2> SUFFICES ASSUME t.sku \notin refused
               PROVE  ReadBacked(t.sku, d, base, Len(outbox[d]) + 1)
    OBVIOUS
  <2>1. CASE PendingTill(d, t.sku) = {}
    <3>1. base = till[t.sku]
      BY <1>1, <2>1 DEF LocalTill
    <3> QED
      BY <1>4, <3>1 DEF BackedInv, TillNeverExceedsLedger, ReadBacked
  <2>2. CASE PendingTill(d, t.sku) # {}
    <3>1. PICK i \in PendingTill(d, t.sku) : base = NewTill(outbox[d][i].task)
      BY <1>1, <2>2 DEF LocalTill
    <3>2. i < Len(outbox[d]) + 1
      BY <1>3, <3>1 DEF PendingTill
    <3>3. NewTill(outbox[d][i].task) \in Nat
      <4>1. outbox[d][i] \in Write /\ outbox[d][i].kind = "till"
        BY <1>3, <3>1 DEF PendingTill
      <4>2. outbox[d][i].task \in Task
        BY <4>1 DEF Write
      <4> QED BY <4>2, BoundsAssumption DEF Task, NewTill
    <3> QED BY <3>1, <3>2, <3>3 DEF ReadBacked
  <2> QED BY <2>1, <2>2
<1>6. AnswersBacked'
  <2> SUFFICES ASSUME NEW e \in Devices, NEW s \in tasks'[e],
                      s.sku \notin refused, s.phase = "answered"
               PROVE  ReadBacked(s.sku, e, s.base, Len(outbox[e]) + 1)
    BY <1>2 DEF AnswersBacked, ReadBacked, PendingTill, figureVars
  <2>1. CASE s \in tasks[e]
    BY <2>1 DEF BackedInv, FlightBacked, AnswersBacked
  <2>2. CASE e = d /\ s = u
    BY <1>4, <1>5, <2>2
  <2> QED BY <1>4, <2>1, <2>2
<1>7. PositiveInvoices' /\ WritesBacked'
  BY <1>2 DEF BackedInv, FlightBacked, PositiveInvoices, WritesBacked,
              PendingTill, ReadBacked, InvoiceBacked, DayBacked, Ahead,
              figureVars
<1> QED
  BY <1>2, <1>6, <1>7, SameFigures DEF BackedInv, FlightBacked

\* The callback sends its three writes together, the figure behind the records.
LEMMA CallbackBacked ==
  ASSUME NEW d \in Devices, NEW t \in tasks[d], BackedInv, TypeOK',
         Callback(d, t)
  PROVE  BackedInv'
<1>0. PICK u : u = [t EXCEPT !.phase = "sent"]
  OBVIOUS
<1>1. /\ tasks' = [tasks EXCEPT ![d] = (@ \ {t}) \cup {u}]
      /\ t.phase = "answered"
      /\ UNCHANGED <<figureVars, refused>>
  BY <1>0 DEF Callback, storeVars, historyVars, figureVars
<1>2. /\ tasks \in [Devices -> SUBSET Task] /\ t \in Task /\ TypeOK
      /\ outbox \in [Devices -> Seq(Write)]
      /\ outbox' \in [Devices -> Seq(Write)]
  BY DEF BackedInv, TypeOK, NetworkTypes
<1>3. /\ u.phase = "sent" /\ u.base = t.base /\ u.sku = t.sku /\ u.id = t.id
      /\ t.sku \in Products /\ u.qty \in 1 .. MaxQty
  BY <1>0, <1>2 DEF Task
<1>4. PICK n \in Nat : CallbackSends(d, u, n)
  BY <1>0, <1>2, CallbackOutbox
<1> USE DEF CallbackSends
<1>5. \A e \in Devices : \A s \in tasks'[e] : s \in tasks[e] \/ s = u
  BY <1>1, <1>2
<1>6. \A e \in Devices : \A j \in DOMAIN outbox[e] :
        j \in DOMAIN outbox'[e] /\ outbox'[e][j] = outbox[e][j]
  <2>1. \A j \in DOMAIN outbox[d] :
            j \in DOMAIN outbox'[d] /\ outbox'[d][j] = outbox[d][j]
    BY <1>4
  <2> QED BY <1>4, <2>1
<1>7. \A e \in Devices, p \in Products, i \in Nat :
        /\ \A base : ReadBacked(p, e, base, i) => ReadBacked(p, e, base, i)'
        /\ \A id : InvoiceBacked(p, e, id, i) => InvoiceBacked(p, e, id, i)'
        /\ DayBacked(p, e, i) => DayBacked(p, e, i)'
  BY <1>1, <1>6, KeepsPlaces
<1>8. \A e \in Devices : \A j \in DOMAIN outbox'[e] :
        \/ j \in DOMAIN outbox[e] /\ outbox'[e][j] = outbox[e][j]
        \/ e = d /\ j \in {n + 1, n + 2, n + 3}
  <2> SUFFICES ASSUME NEW e \in Devices, NEW j \in DOMAIN outbox'[e]
               PROVE  \/ j \in DOMAIN outbox[e] /\ outbox'[e][j] = outbox[e][j]
                      \/ e = d /\ j \in {n + 1, n + 2, n + 3}
    OBVIOUS
  <2>1. CASE e # d
    BY <1>4, <2>1
  <2>2. CASE e = d
    <3>1. j \in 1 .. n \/ j \in {n + 1, n + 2, n + 3}
      BY <1>4, <2>2
    <3> QED BY <1>4, <2>2, <3>1
  <2> QED BY <2>1, <2>2
<1>9. PositiveInvoices'
  <2>1. \A j \in {n + 1, n + 2, n + 3} :
            outbox'[d][j].kind = "invoice" => outbox'[d][j].qty > 0
    BY <1>3, <1>4, BoundsAssumption
  <2> QED
    BY <1>8, <2>1 DEF BackedInv, FlightBacked, PositiveInvoices
<1>10. t.sku \notin refused => ReadBacked(t.sku, d, t.base, n + 1)'
  <2>1. t.sku \notin refused => ReadBacked(t.sku, d, t.base, n + 1)
    BY <1>1, <1>4 DEF BackedInv, FlightBacked, AnswersBacked
  <2> QED BY <1>3, <1>4, <1>7, <2>1
<1>11. WritesBacked'
  <2> SUFFICES ASSUME NEW e \in Devices, NEW p \in Products \ refused,
                      NEW i \in PendingTill(e, p)',
                      NEW s, s = outbox'[e][i].task
               PROVE  /\ ReadBacked(p, e, s.base, i)'
                      /\ InvoiceBacked(p, e, s.id, i)'
                      /\ DayBacked(p, e, i)'
    BY <1>1 DEF WritesBacked
  <2>1. /\ i \in DOMAIN outbox'[e] /\ outbox'[e][i].kind = "till"
        /\ outbox'[e][i].task.sku = p /\ i \in Nat
    BY <1>2 DEF PendingTill
  <2>2. CASE i \in DOMAIN outbox[e] /\ outbox'[e][i] = outbox[e][i]
    <3>1. i \in PendingTill(e, p)
      BY <2>1, <2>2 DEF PendingTill
    <3>2. /\ ReadBacked(p, e, outbox[e][i].task.base, i)
          /\ InvoiceBacked(p, e, outbox[e][i].task.id, i)
          /\ DayBacked(p, e, i)
      BY <3>1 DEF BackedInv, FlightBacked, WritesBacked
    <3> QED BY <1>7, <2>1, <2>2, <3>2
  <2>3. CASE e = d /\ i \in {n + 1, n + 2, n + 3}
    <3>1. i = n + 3
      BY <1>4, <2>1, <2>3
    <3>2. outbox'[e][i].task = u /\ p = t.sku
      BY <1>3, <1>4, <2>1, <2>3, <3>1
    <3>3. n + 1 \in Ahead("invoice", p, d, i)'
      BY <1>3, <1>4, <3>1, <3>2 DEF Ahead
    <3>4. n + 2 \in Ahead("day", p, d, i)'
      BY <1>3, <1>4, <3>1, <3>2 DEF Ahead
    <3>5. \A j \in PendingTill(d, p)' : j < n + 1 => j < i
      BY <1>4, <3>1 DEF PendingTill
    <3>6. ReadBacked(p, d, u.base, i)'
      BY <1>3, <1>10, <3>2, <3>5 DEF ReadBacked
    <3>7. outbox'[d][n + 1].id = u.id
      BY <1>4
    <3>8. InvoiceBacked(p, d, u.id, i)'
      BY <3>3, <3>7 DEF InvoiceBacked
    <3>9. DayBacked(p, d, i)'
      BY <3>4 DEF DayBacked
    <3> QED BY <2>3, <3>2, <3>6, <3>8, <3>9
  <2> QED BY <1>8, <2>1, <2>2, <2>3
<1>12. AnswersBacked'
  <2> SUFFICES ASSUME NEW e \in Devices, NEW s \in tasks'[e],
                      s.sku \notin refused, s.phase = "answered",
                      NEW m, m = Len(outbox'[e]) + 1
               PROVE  ReadBacked(s.sku, e, s.base, m)'
    BY <1>1 DEF AnswersBacked
  <2>1. s \in tasks[e]
    BY <1>3, <1>5
  <2>2. PICK k \in Nat : k = Len(outbox[e]) + 1
    BY <1>2
  <2>3. ReadBacked(s.sku, e, s.base, k)
    BY <1>1, <2>1, <2>2 DEF BackedInv, FlightBacked, AnswersBacked
  <2>4. s.sku \in Products
    BY <1>2, <2>1 DEF Task
  <2>5. ReadBacked(s.sku, e, s.base, k)'
    BY <1>7, <2>2, <2>3, <2>4
  <2>6. k <= m /\ m \in Nat
    <3>1. CASE e # d
      BY <1>4, <2>2, <3>1
    <3>2. CASE e = d
      <4>1. Len(outbox'[d]) = n + 3
        BY <1>2, <1>4
      <4> QED BY <1>4, <2>2, <3>2, <4>1
    <3> QED BY <3>1, <3>2
  <2>7. \A j \in PendingTill(e, s.sku)' : j < k => j < m
    BY <1>2, <2>2, <2>6 DEF PendingTill
  <2> QED BY <2>5, <2>7 DEF ReadBacked
<1> QED
  BY <1>1, <1>9, <1>11, <1>12, SameFigures DEF BackedInv, FlightBacked

\* A write leaves the front of an outbox.  Those behind it stay backed when
\* what it stood for is stored, or its product is noted as refused, and no
\* stored figure loses ground.
LEMMA TakeFlight ==
  ASSUME NEW d \in Devices, NEW kind, TypeOK, TypeOK', FlightBacked,
         TakeWrite(d, kind), NEW w, w = Head(outbox[d]),
         refused \subseteq refused',
         \A e \in Devices : tasks'[e] \subseteq tasks[e],
         \A p \in Products : ledger[p] <= ledger'[p],
         \A p \in Products : \A id : invoices[p][id] > 0 => invoices'[p][id] > 0,
         \A p \in Products, y \in Days :
            dayInward[p][y] # NoInward => dayInward'[p][y] # NoInward,
         w.kind = "till" /\ w.task.sku \notin refused' =>
            NewTill(w.task) <= ledger'[w.task.sku],
         w.kind = "invoice" /\ w.sku \notin refused' =>
            invoices'[w.sku][w.id] > 0,
         w.kind = "day" /\ w.sku \notin refused' =>
            \E y \in Days : dayInward'[w.sku][y] # NoInward
  PROVE  FlightBacked'
<1>1. /\ tasks \in [Devices -> SUBSET Task] /\ outbox \in [Devices -> Seq(Write)]
      /\ outbox' \in [Devices -> Seq(Write)]
      /\ ledger \in [Products -> Nat] /\ ledger' \in [Products -> Nat]
  BY DEF TypeOK, NetworkTypes, HistoryTypes
<1>2. /\ outbox[d] # <<>> /\ outbox[d] \in Seq(Write)
      /\ outbox'[d] = Tail(outbox[d])
      /\ \A e \in Devices : e # d => outbox'[e] = outbox[e]
  BY <1>1 DEF TakeWrite
<1>3. /\ DOMAIN outbox[d] = 1 .. Len(outbox[d])
      /\ DOMAIN outbox'[d] = 1 .. Len(outbox[d]) - 1
      /\ \A i \in DOMAIN outbox'[d] :
            i + 1 \in DOMAIN outbox[d] /\ outbox'[d][i] = outbox[d][i + 1]
      /\ outbox[d][1] = w
      /\ Len(outbox'[d]) = Len(outbox[d]) - 1 /\ Len(outbox[d]) \in Nat
  BY <1>2
\* The place of the write at i before the step.
<1> DEFINE Was(e, i) == IF e = d THEN i + 1 ELSE i
<1>4. \A e \in Devices : \A i \in DOMAIN outbox'[e] :
        /\ Was(e, i) \in DOMAIN outbox[e] /\ outbox'[e][i] = outbox[e][Was(e, i)]
        /\ i \in Nat \ {0}
  <2> SUFFICES ASSUME NEW e \in Devices, NEW i \in DOMAIN outbox'[e]
               PROVE  /\ Was(e, i) \in DOMAIN outbox[e]
                      /\ outbox'[e][i] = outbox[e][Was(e, i)]
                      /\ i \in Nat \ {0}
    OBVIOUS
  <2>1. i \in Nat \ {0}
    BY <1>1
  <2> QED BY <1>2, <1>3, <2>1
\* What was ahead of i is still ahead, unless it is the write that was taken.
<1>5. \A e \in Devices, i \in Nat \ {0} : \A j \in DOMAIN outbox[e] :
        j < Was(e, i) =>
            \/ e = d /\ j = 1
            \/ \E k \in DOMAIN outbox'[e] : k < i /\ outbox'[e][k] = outbox[e][j]
  <2> SUFFICES ASSUME NEW e \in Devices, NEW i \in Nat \ {0},
                      NEW j \in DOMAIN outbox[e], j < Was(e, i),
                      ~ (e = d /\ j = 1)
               PROVE  \E k \in DOMAIN outbox'[e] :
                        k < i /\ outbox'[e][k] = outbox[e][j]
    OBVIOUS
  <2>1. CASE e # d
    BY <1>2, <2>1
  <2>2. CASE e = d
    <3>1. /\ j - 1 \in DOMAIN outbox'[d] /\ j - 1 < i /\ (j - 1) + 1 = j
      BY <1>3, <2>2
    <3> QED BY <1>3, <2>2, <3>1
  <2> QED BY <2>1, <2>2
<1>6. \A e \in Devices, i \in Nat \ {0}, p \in Products \ refused' :
        \A base : ReadBacked(p, e, base, Was(e, i)) /\ base \in Nat
                    => ReadBacked(p, e, base, i)'
  <2> SUFFICES ASSUME NEW e \in Devices, NEW i \in Nat \ {0},
                      NEW p \in Products \ refused', NEW base \in Nat,
                      ReadBacked(p, e, base, Was(e, i))
               PROVE  ReadBacked(p, e, base, i)'
    OBVIOUS
  <2>1. CASE base <= ledger[p]
    <3>1. base <= ledger'[p]
      BY <1>1, <2>1
    <3> QED BY <3>1 DEF ReadBacked
  <2>2. ASSUME NEW j \in PendingTill(e, p), j < Was(e, i),
               base <= NewTill(outbox[e][j].task)
        PROVE  ReadBacked(p, e, base, i)'
    <3>1. /\ j \in DOMAIN outbox[e] /\ outbox[e][j].kind = "till"
          /\ outbox[e][j].task.sku = p
      BY <2>2 DEF PendingTill
    <3>2. CASE e = d /\ j = 1
      <4>1. NewTill(w.task) \in Nat /\ base <= NewTill(w.task)
        <5>1. w \in Write /\ w.kind = "till"
          BY <1>2, <1>3, <3>1, <3>2
        <5>2. w.task \in Task
          BY <5>1 DEF Write
        <5>3. NewTill(w.task) \in Nat
          BY <5>2, BoundsAssumption DEF Task, NewTill
        <5> QED BY <1>3, <2>2, <3>2, <5>3
      <4>2. NewTill(w.task) <= ledger'[p]
        BY <1>3, <3>1, <3>2
      <4>3. base <= ledger'[p]
        BY <1>1, <4>1, <4>2
      <4> QED BY <4>3 DEF ReadBacked
    <3>3. CASE ~ (e = d /\ j = 1)
      <4>1. PICK k \in DOMAIN outbox'[e] :
                k < i /\ outbox'[e][k] = outbox[e][j]
        BY <1>5, <2>2, <3>1, <3>3
      <4>2. k \in PendingTill(e, p)'
        BY <3>1, <4>1 DEF PendingTill
      <4> QED BY <2>2, <4>1, <4>2 DEF ReadBacked
    <3> QED BY <3>2, <3>3
  <2> QED BY <2>1, <2>2 DEF ReadBacked
<1>7. \A e \in Devices, i \in Nat \ {0}, p \in Products \ refused' : \A k :
        \A j \in Ahead(k, p, e, Was(e, i)) :
            \/ e = d /\ j = 1
            \/ \E m \in Ahead(k, p, e, i)' : outbox'[e][m] = outbox[e][j]
  <2> SUFFICES ASSUME NEW e \in Devices, NEW i \in Nat \ {0},
                      NEW p \in Products \ refused', NEW k,
                      NEW j \in Ahead(k, p, e, Was(e, i)), ~ (e = d /\ j = 1)
               PROVE  \E m \in Ahead(k, p, e, i)' : outbox'[e][m] = outbox[e][j]
    OBVIOUS
  <2>1. /\ j \in DOMAIN outbox[e] /\ j < Was(e, i) /\ outbox[e][j].kind = k
        /\ outbox[e][j].sku = p
    BY DEF Ahead
  <2>2. PICK m \in DOMAIN outbox'[e] : m < i /\ outbox'[e][m] = outbox[e][j]
    BY <1>5, <2>1
  <2> QED BY <2>1, <2>2 DEF Ahead
<1>8. \A e \in Devices, i \in Nat \ {0}, p \in Products \ refused' : \A id :
        InvoiceBacked(p, e, id, Was(e, i)) => InvoiceBacked(p, e, id, i)'
  <2> SUFFICES ASSUME NEW e \in Devices, NEW i \in Nat \ {0},
                      NEW p \in Products \ refused', NEW id,
                      InvoiceBacked(p, e, id, Was(e, i))
               PROVE  InvoiceBacked(p, e, id, i)'
    OBVIOUS
  <2>1. CASE invoices[p][id] > 0
    BY <2>1 DEF InvoiceBacked
  <2>2. ASSUME NEW j \in Ahead("invoice", p, e, Was(e, i)), outbox[e][j].id = id
        PROVE  InvoiceBacked(p, e, id, i)'
    <3>1. CASE e = d /\ j = 1
      <4>1. w.kind = "invoice" /\ w.sku = p /\ w.id = id
        BY <1>3, <2>2, <3>1 DEF Ahead
      <4> QED BY <4>1 DEF InvoiceBacked
    <3>2. CASE ~ (e = d /\ j = 1)
      <4>1. PICK m \in Ahead("invoice", p, e, i)' : outbox'[e][m] = outbox[e][j]
        BY <1>7, <2>2, <3>2
      <4> QED BY <2>2, <4>1 DEF InvoiceBacked
    <3> QED BY <3>1, <3>2
  <2> QED BY <2>1, <2>2 DEF InvoiceBacked
<1>9. \A e \in Devices, i \in Nat \ {0}, p \in Products \ refused' :
        DayBacked(p, e, Was(e, i)) => DayBacked(p, e, i)'
  <2> SUFFICES ASSUME NEW e \in Devices, NEW i \in Nat \ {0},
                      NEW p \in Products \ refused',
                      DayBacked(p, e, Was(e, i))
               PROVE  DayBacked(p, e, i)'
    OBVIOUS
  <2>1. CASE \E y \in Days : dayInward[p][y] # NoInward
    BY <2>1 DEF DayBacked
  <2>2. ASSUME NEW j \in Ahead("day", p, e, Was(e, i))
        PROVE  DayBacked(p, e, i)'
    <3>1. CASE e = d /\ j = 1
      <4>1. w.kind = "day" /\ w.sku = p
        BY <1>3, <2>2, <3>1 DEF Ahead
      <4> QED BY <4>1 DEF DayBacked
    <3>2. CASE ~ (e = d /\ j = 1)
      <4>1. PICK m \in Ahead("day", p, e, i)' : TRUE
        BY <1>7, <2>2, <3>2
      <4> QED BY <4>1 DEF DayBacked
    <3> QED BY <3>1, <3>2
  <2> QED BY <2>1, <2>2 DEF DayBacked
<1>10. PositiveInvoices'
  BY <1>4 DEF FlightBacked, PositiveInvoices
<1>11. WritesBacked'
  <2> SUFFICES ASSUME NEW e \in Devices, NEW p \in Products \ refused',
                      NEW i \in PendingTill(e, p)',
                      NEW s, s = outbox'[e][i].task
               PROVE  /\ ReadBacked(p, e, s.base, i)'
                      /\ InvoiceBacked(p, e, s.id, i)'
                      /\ DayBacked(p, e, i)'
    BY DEF WritesBacked
  <2>1. /\ i \in DOMAIN outbox'[e] /\ outbox'[e][i].kind = "till"
        /\ outbox'[e][i].task.sku = p
    BY DEF PendingTill
  <2>2. /\ Was(e, i) \in DOMAIN outbox[e] /\ i \in Nat \ {0}
        /\ outbox'[e][i] = outbox[e][Was(e, i)]
    BY <1>4, <2>1
  <2> HIDE DEF Was
  <2>3. Was(e, i) \in PendingTill(e, p) /\ s = outbox[e][Was(e, i)].task
    BY <2>1, <2>2 DEF PendingTill
  <2>4. /\ ReadBacked(p, e, s.base, Was(e, i))
        /\ InvoiceBacked(p, e, s.id, Was(e, i))
        /\ DayBacked(p, e, Was(e, i))
    BY <2>3 DEF FlightBacked, WritesBacked
  <2>5. s.base \in Nat
    <3>1. outbox'[e][i] \in Write
      BY <1>1, <2>1
    <3> QED BY <2>1, <3>1 DEF Write, Task
  <2> QED BY <1>6, <1>8, <1>9, <2>2, <2>4, <2>5
<1>12. AnswersBacked'
  <2> SUFFICES ASSUME NEW e \in Devices, NEW t \in tasks'[e],
                      t.sku \notin refused', t.phase = "answered",
                      NEW m, m = Len(outbox'[e]) + 1
               PROVE  ReadBacked(t.sku, e, t.base, m)'
    BY DEF AnswersBacked
  <2>1. t \in tasks[e] /\ t.sku \in Products /\ t.base \in Nat
    BY <1>1 DEF Task
  <2>2. m \in Nat \ {0} /\ Was(e, m) = Len(outbox[e]) + 1
    <3>1. CASE e = d
      <4>1. Len(outbox[d]) \in Nat \ {0}
        BY <1>2
      <4>2. m = Len(outbox[d])
        BY <1>3, <3>1, <4>1
      <4> QED BY <3>1, <4>1, <4>2
    <3>2. CASE e # d
      <4>1. Len(outbox[e]) \in Nat
        BY <1>1
      <4> QED BY <1>2, <3>2, <4>1
    <3> QED BY <3>1, <3>2
  <2>3. ReadBacked(t.sku, e, t.base, Len(outbox[e]) + 1)
    BY <2>1 DEF FlightBacked, AnswersBacked
  <2> HIDE DEF Was
  <2> QED BY <1>6, <2>1, <2>2, <2>3
<1> QED
  BY <1>10, <1>11, <1>12 DEF FlightBacked

\* The store's record says nothing of a product.
LEMMA ApplyHeaderBacked ==
  ASSUME NEW d \in Devices, BackedInv, TypeOK', ApplyHeader(d)
  PROVE  BackedInv'
<1>1. /\ TakeWrite(d, "header") /\ Head(outbox[d]).kind = "header"
      /\ UNCHANGED <<tasks, figureVars, refused>>
  BY DEF ApplyHeader, TakeWrite, historyVars, figureVars
<1>2. \A p \in Products : ledger[p] <= ledger'[p]
  BY <1>1 DEF BackedInv, TypeOK, HistoryTypes, figureVars
<1>3. FlightBacked'
  BY <1>1, <1>2, TakeFlight DEF BackedInv, figureVars
<1> QED
  BY <1>1, <1>3, SameFigures DEF BackedInv

\* An invoice is stored with its units, which are not nought.
LEMMA ApplyInvoiceBacked ==
  ASSUME NEW d \in Devices, BackedInv, TypeOK', ApplyInvoice(d)
  PROVE  BackedInv'
<1>1. PICK w : w = Head(outbox[d])
  OBVIOUS
<1>2. /\ TakeWrite(d, "invoice") /\ w.kind = "invoice"
      /\ invoices' = [invoices EXCEPT ![w.sku][w.id] = w.qty]
      /\ UNCHANGED <<tasks, till, recent, dayInward, ledger, refused>>
  BY <1>1 DEF ApplyInvoice, TakeWrite, historyVars
<1>3. w \in Write /\ w.qty > 0
  <2>1. /\ outbox[d] \in Seq(Write) /\ outbox[d] # <<>>
    BY <1>2 DEF TakeWrite, BackedInv, TypeOK, NetworkTypes
  <2>2. 1 \in DOMAIN outbox[d] /\ outbox[d][1] = w /\ w \in Write
    BY <1>1, <2>1
  <2> QED
    BY <1>2, <2>2 DEF BackedInv, FlightBacked, PositiveInvoices
<1>4. /\ w.sku \in Products /\ w.id \in Times /\ w.qty \in Nat
  BY <1>2, <1>3 DEF Write
<1>5. invoices \in [Products -> [Times -> Nat]]
  BY DEF BackedInv, TypeOK, StoreTypes
<1>6. /\ invoices'[w.sku][w.id] > 0
      /\ \A p \in Products : \A id : invoices[p][id] > 0 => invoices'[p][id] > 0
  BY <1>2, <1>3, <1>4, <1>5
<1>7. \A p \in Products : ledger[p] <= ledger'[p]
  BY <1>2 DEF BackedInv, TypeOK, HistoryTypes
<1>8. FlightBacked'
  BY <1>1, <1>2, <1>6, <1>7, TakeFlight DEF BackedInv
<1>9. TillNeverExceedsLedger' /\ RecentIsBacked'
  BY <1>2, <1>6 DEF BackedInv, TillNeverExceedsLedger, RecentIsBacked
<1> QED
  BY <1>8, <1>9 DEF BackedInv

\* The record of a day is replaced, not removed.
LEMMA ApplyDayBacked ==
  ASSUME NEW d \in Devices, BackedInv, TypeOK', ApplyDay(d)
  PROVE  BackedInv'
<1>1. PICK w : w = Head(outbox[d])
  OBVIOUS
<1>2. /\ TakeWrite(d, "day") /\ w.kind = "day"
      /\ dayInward' = [dayInward EXCEPT
                        ![w.sku][w.day] = [id |-> w.id, qty |-> w.qty]]
      /\ UNCHANGED <<tasks, till, recent, invoices, ledger, refused>>
  BY <1>1 DEF ApplyDay, TakeWrite, historyVars
<1>3. w \in Write
  BY <1>1, <1>2, TakeWriteType DEF BackedInv
<1>4. /\ w.sku \in Products /\ w.id \in Times /\ w.day \in Days
  BY <1>2, <1>3 DEF Write
<1>5. dayInward \in [Products -> [Days -> Inward]]
  BY DEF BackedInv, TypeOK, StoreTypes
<1>6. [id |-> w.id, qty |-> w.qty] # NoInward
  <2>1. w.id # -1
    BY <1>4, BoundsAssumption DEF Times
  <2> QED BY <2>1 DEF NoInward
<1>7. /\ dayInward'[w.sku][w.day] # NoInward
      /\ \A p \in Products, y \in Days :
            dayInward[p][y] # NoInward => dayInward'[p][y] # NoInward
  BY <1>2, <1>4, <1>5, <1>6
<1>8. \A p \in Products : ledger[p] <= ledger'[p]
  BY <1>2 DEF BackedInv, TypeOK, HistoryTypes
<1>9. FlightBacked'
  BY <1>1, <1>2, <1>4, <1>7, <1>8, TakeFlight DEF BackedInv
<1>10. TillNeverExceedsLedger' /\ RecentIsBacked'
  BY <1>2, <1>7 DEF BackedInv, TillNeverExceedsLedger, RecentIsBacked
<1> QED
  BY <1>9, <1>10 DEF BackedInv

\* The figure that is applied was read from one the ledger covers by now: the
\* write it may have been read from was ahead of it.
LEMMA ApplyTillBacked ==
  ASSUME NEW d \in Devices, BackedInv, TypeOK', ApplyTill(d)
  PROVE  BackedInv'
<1>1. PICK w : w = Head(outbox[d])
  OBVIOUS
<1>2. PICK t : t = w.task
  OBVIOUS
<1>3. /\ TakeWrite(d, "till") /\ w.kind = "till"
      /\ till' = [till EXCEPT ![t.sku] = NewTill(t)]
      /\ recent' = [recent EXCEPT ![t.sku] = [id |-> t.id, qty |-> t.qty]]
      /\ ledger' = [ledger EXCEPT ![t.sku] = @ + t.qty]
      /\ tasks' = [tasks EXCEPT ![d] = @ \ {t}]
      /\ UNCHANGED <<invoices, dayInward, refused>>
  BY <1>1, <1>2 DEF ApplyTill, TakeWrite
<1>4. t \in Task
  <2>1. w \in Write
    BY <1>1, <1>3, TakeWriteType DEF BackedInv
  <2> QED BY <1>2, <1>3, <2>1 DEF Write
<1>5. /\ t.sku \in Products /\ t.qty \in Nat /\ t.base \in Nat
      /\ NewTill(t) = t.base + t.qty
  BY <1>4, BoundsAssumption DEF Task, NewTill
<1>6. /\ till \in [Products -> Nat] /\ ledger \in [Products -> Nat]
      /\ recent \in [Products -> Inward]
      /\ tasks \in [Devices -> SUBSET Task]
  BY DEF BackedInv, TypeOK, StoreTypes, HistoryTypes, NetworkTypes
<1>7. 1 \in PendingTill(d, t.sku) /\ outbox[d][1].task = t
  <2>1. /\ outbox[d] \in Seq(Write) /\ outbox[d] # <<>>
    BY <1>3 DEF TakeWrite, BackedInv, TypeOK, NetworkTypes
  <2>2. 1 \in DOMAIN outbox[d] /\ outbox[d][1] = w
    BY <1>1, <2>1
  <2> QED BY <1>2, <1>3, <2>2 DEF PendingTill
<1>8. t.sku \notin refused =>
        /\ t.base <= ledger[t.sku]
        /\ invoices[t.sku][t.id] > 0
        /\ \E y \in Days : dayInward[t.sku][y] # NoInward
  <2> SUFFICES ASSUME t.sku \notin refused
               PROVE  /\ t.base <= ledger[t.sku]
                      /\ invoices[t.sku][t.id] > 0
                      /\ \E y \in Days : dayInward[t.sku][y] # NoInward
    OBVIOUS
  <2>1. /\ ReadBacked(t.sku, d, t.base, 1) /\ InvoiceBacked(t.sku, d, t.id, 1)
        /\ DayBacked(t.sku, d, 1)
    BY <1>5, <1>7 DEF BackedInv, FlightBacked, WritesBacked
  <2>2. \A j \in DOMAIN outbox[d] : ~(j < 1)
    BY DEF BackedInv, TypeOK, NetworkTypes
  <2>3. \A k : Ahead(k, t.sku, d, 1) = {}
    BY <2>2 DEF Ahead
  <2>4. \A j \in PendingTill(d, t.sku) : ~(j < 1)
    BY <2>2 DEF PendingTill
  <2> QED
    BY <2>1, <2>3, <2>4 DEF ReadBacked, InvoiceBacked, DayBacked
<1>9. /\ \A p \in Products : ledger[p] <= ledger'[p]
      /\ t.sku \notin refused => NewTill(t) <= ledger'[t.sku]
  BY <1>3, <1>5, <1>6, <1>8
<1>10. \A e \in Devices : tasks'[e] \subseteq tasks[e]
  BY <1>3, <1>6
<1>11. FlightBacked'
  BY <1>1, <1>2, <1>3, <1>9, <1>10, TakeFlight DEF BackedInv
<1>12. TillNeverExceedsLedger'
  <2> SUFFICES ASSUME NEW p \in Products \ refused
               PROVE  till'[p] <= ledger'[p]
    BY <1>3 DEF TillNeverExceedsLedger
  <2>1. CASE p = t.sku
    BY <1>3, <1>5, <1>6, <1>9, <2>1
  <2>2. CASE p # t.sku
    BY <1>3, <1>6, <2>2 DEF BackedInv, TillNeverExceedsLedger
  <2> QED BY <2>1, <2>2
<1>13. RecentIsBacked'
  <2> SUFFICES ASSUME NEW p \in Products \ refused, recent'[p] # NoInward
               PROVE  /\ invoices[p][recent'[p].id] > 0
                      /\ \E y \in Days : dayInward[p][y] # NoInward
    BY <1>3 DEF RecentIsBacked
  <2>1. CASE p = t.sku
    BY <1>3, <1>6, <1>8, <2>1
  <2>2. CASE p # t.sku
    BY <1>3, <1>6, <2>2 DEF BackedInv, RecentIsBacked
  <2> QED BY <2>1, <2>2
<1> QED
  BY <1>11, <1>12, <1>13 DEF BackedInv

\* A refused write takes its product out of what is promised.
LEMMA RefuseBacked ==
  ASSUME NEW d \in Devices, BackedInv, TypeOK',
         RefuseTill(d) \/ RefuseRecord(d)
  PROVE  BackedInv'
<1>1. PICK w : w = Head(outbox[d])
  OBVIOUS
<1>2. UNCHANGED figureVars
  BY DEF RefuseTill, RefuseRecord, storeVars, figureVars
<1>3. PICK kind : TakeWrite(d, kind)
  BY DEF RefuseTill, RefuseRecord, Refuse
<1>4. tasks \in [Devices -> SUBSET Task]
  BY DEF BackedInv, TypeOK, NetworkTypes
<1>5. \A e \in Devices : tasks'[e] \subseteq tasks[e]
  <2>1. CASE RefuseTill(d)
    BY <1>4, <2>1 DEF RefuseTill
  <2>2. CASE RefuseRecord(d)
    BY <2>2 DEF RefuseRecord
  <2> QED BY <2>1, <2>2
<1>6. /\ refused \subseteq refused'
      /\ w.kind = "till" => w.task.sku \in refused'
      /\ w.kind \in {"invoice", "day"} => w.sku \in refused'
  <2>1. CASE RefuseTill(d)
    <3>1. w.kind = "till" /\ refused' = refused \cup {w.task.sku}
      BY <1>1, <2>1 DEF RefuseTill, Refuse, TakeWrite
    <3> QED BY <3>1
  <2>2. CASE RefuseRecord(d)
    <3>1. /\ w.kind \in {"header", "invoice", "day"}
          /\ refused' = refused \cup (IF w.kind = "header" THEN {} ELSE {w.sku})
      BY <1>1, <2>2 DEF RefuseRecord, Refuse, TakeWrite
    <3> QED BY <3>1
  <2> QED BY <2>1, <2>2
<1>7. \A p \in Products : ledger[p] <= ledger'[p]
  BY <1>2 DEF BackedInv, TypeOK, HistoryTypes, figureVars
<1>8. FlightBacked'
  BY <1>1, <1>2, <1>3, <1>5, <1>6, <1>7, TakeFlight DEF BackedInv, figureVars
<1> QED
  BY <1>2, <1>6, <1>8, SameFigures DEF BackedInv

\* A killed process takes its whole outbox with it, not a part of it.
LEMMA RestartBacked ==
  ASSUME NEW d \in Devices, BackedInv, TypeOK', Restart(d)
  PROVE  BackedInv'
<1>1. /\ tasks' = [tasks EXCEPT ![d] = {}]
      /\ outbox' = [outbox EXCEPT ![d] = <<>>]
      /\ UNCHANGED <<figureVars, refused>>
  BY DEF Restart, storeVars, figureVars
<1>2. tasks \in [Devices -> SUBSET Task] /\ outbox \in [Devices -> Seq(Write)]
  BY DEF BackedInv, TypeOK, NetworkTypes
<1>3. /\ tasks'[d] = {} /\ outbox'[d] = <<>>
      /\ \A e \in Devices : e # d => /\ tasks'[e] = tasks[e]
                                      /\ outbox'[e] = outbox[e]
  BY <1>1, <1>2
<1>4. DOMAIN outbox'[d] = {}
  BY <1>3
<1>5. \A e \in Devices, p \in Products :
        PendingTill(e, p)' = IF e = d THEN {} ELSE PendingTill(e, p)
  BY <1>3, <1>4 DEF PendingTill
<1>6. \A e \in Devices, p \in Products : \A k, i :
        e # d => Ahead(k, p, e, i)' = Ahead(k, p, e, i)
  BY <1>3 DEF Ahead
<1>7. \A e \in Devices, p \in Products : e # d =>
        \A i : /\ \A base : ReadBacked(p, e, base, i)' <=> ReadBacked(p, e, base, i)
               /\ \A id : InvoiceBacked(p, e, id, i)' <=> InvoiceBacked(p, e, id, i)
               /\ DayBacked(p, e, i)' <=> DayBacked(p, e, i)
  BY <1>1, <1>3, <1>5, <1>6
  DEF ReadBacked, InvoiceBacked, DayBacked, figureVars
<1>8. PositiveInvoices'
  BY <1>3, <1>4 DEF BackedInv, FlightBacked, PositiveInvoices
<1>9. WritesBacked'
  <2> SUFFICES ASSUME NEW e \in Devices, NEW p \in Products \ refused,
                      NEW i \in PendingTill(e, p)',
                      NEW s, s = outbox'[e][i].task
               PROVE  /\ ReadBacked(p, e, s.base, i)'
                      /\ InvoiceBacked(p, e, s.id, i)'
                      /\ DayBacked(p, e, i)'
    BY <1>1 DEF WritesBacked
  <2>1. e # d /\ i \in PendingTill(e, p) /\ s = outbox[e][i].task
    BY <1>3, <1>5
  <2>2. /\ ReadBacked(p, e, s.base, i) /\ InvoiceBacked(p, e, s.id, i)
        /\ DayBacked(p, e, i)
    BY <2>1 DEF BackedInv, FlightBacked, WritesBacked
  <2> QED BY <1>7, <2>1, <2>2
<1>10. AnswersBacked'
  <2> SUFFICES ASSUME NEW e \in Devices, NEW t \in tasks'[e],
                      t.sku \notin refused, t.phase = "answered",
                      NEW m, m = Len(outbox'[e]) + 1
               PROVE  ReadBacked(t.sku, e, t.base, m)'
    BY <1>1 DEF AnswersBacked
  <2>1. e # d
    BY <1>3
  <2>2. t \in tasks[e] /\ m = Len(outbox[e]) + 1
    BY <1>3, <2>1
  <2>3. t.sku \in Products
    BY <1>2, <2>2 DEF Task
  <2>4. ReadBacked(t.sku, e, t.base, m)
    BY <1>1, <2>2 DEF BackedInv, FlightBacked, AnswersBacked
  <2> QED BY <1>7, <2>1, <2>3, <2>4
<1> QED
  BY <1>1, <1>8, <1>9, <1>10, SameFigures DEF BackedInv, FlightBacked

\* Every step keeps what is in flight, and what is stored, backed.
LEMMA NextBacked == BackedInv /\ [Next]_vars => BackedInv'
<1> SUFFICES ASSUME BackedInv, [Next]_vars PROVE BackedInv'
  OBVIOUS
<1>0. TypeOK'
  BY NextType DEF BackedInv
<1>1. ASSUME NEW d \in Devices, User(d) PROVE BackedInv'
  <2>1. CASE Proceed(d)
    BY <1>0, <2>1, ProceedBacked
  <2>2. CASE ~Proceed(d)
    <3>1. UNCHANGED backedVars
      BY <1>1, <2>2
      DEF User, AddOne, RemoveOne, DeleteLine, CartPlus, CartMinus, SetQty,
          OpenCart, Leave, networkVars, storeVars, historyVars, backedVars,
          figureVars
    <3> QED BY <1>0, <3>1, QuietFlight DEF backedVars
  <2> QED BY <2>1, <2>2
<1>2. ASSUME NEW d \in Devices, Network(d) PROVE BackedInv'
  <2>1. ASSUME NEW t \in tasks[d], Answer(d, t) PROVE BackedInv'
    BY <1>0, <2>1, AnswerBacked
  <2>2. ASSUME NEW t \in tasks[d], Callback(d, t) PROVE BackedInv'
    BY <1>0, <2>2, CallbackBacked
  <2>3. ASSUME NEW a \in acks[d],
               AckCounted(d, a) \/ AckCompletes(d, a) \/ AckDisposed(d, a)
        PROVE  BackedInv'
    <3>1. UNCHANGED backedVars
      BY <2>3
      DEF AckCounted, AckCompletes, AckDisposed, CountAck, storeVars,
          backedVars, figureVars
    <3> QED BY <1>0, <3>1, QuietFlight DEF backedVars
  <2> QED
    BY <1>0, <1>2, <2>1, <2>2, <2>3, ApplyHeaderBacked, ApplyInvoiceBacked,
       ApplyDayBacked, ApplyTillBacked
    DEF Network
<1>3. ASSUME NEW d \in Devices, Failure(d) PROVE BackedInv'
  <2>1. ASSUME NEW t \in tasks[d], ReadFails(d, t) PROVE BackedInv'
    <3>1. /\ UNCHANGED <<outbox, figureVars, refused>>
          /\ tasks' = [tasks EXCEPT ![d] = @ \ {t}]
      BY <2>1 DEF ReadFails, storeVars, figureVars
    <3>2. \A e \in Devices : tasks'[e] \subseteq tasks[e]
      BY <3>1 DEF BackedInv, TypeOK, NetworkTypes
    <3> QED BY <1>0, <3>1, <3>2, QuietFlight
  <2> QED BY <1>0, <1>3, <2>1, RefuseBacked, RestartBacked DEF Failure
<1>4. CASE Tick \/ UNCHANGED vars
  <2>1. UNCHANGED backedVars
    BY <1>4 DEF Tick, vars, networkVars, storeVars, historyVars, backedVars,
                figureVars
  <2> QED BY <1>0, <2>1, QuietFlight DEF backedVars
<1> QED
  BY <1>1, <1>2, <1>3, <1>4 DEF Next

\* The inductive invariant holds in every reachable state.
LEMMA BackedInvariant == Spec => []BackedInv
BY InitBacked, NextBacked, PTL DEF Spec

\* Racing uploads of a product lose units and never invent any, on any number
\* of devices: without a refusal the stored figure is at most what was applied.
THEOREM TillWithinLedger == Spec => []TillNeverExceedsLedger
<1>1. BackedInv => TillNeverExceedsLedger
  BY DEF BackedInv
<1> QED
  BY <1>1, BackedInvariant, PTL

\* The last inward a product names has its invoice and the record of a day,
\* whatever races, restarts and waits; only a refused write can part them.
THEOREM RecentBacked == Spec => []RecentIsBacked
<1>1. BackedInv => RecentIsBacked
  BY DEF BackedInv
<1> QED
  BY <1>1, BackedInvariant, PTL

-----------------------------------------------------------------------------
(* The abstract ledger.                                                    *)

\* Every step is a step of the abstract ledger, or leaves it alone.
LEMMA StepImplementsLedger ==
  ASSUME LedgerInv, [Next]_vars
  PROVE  [Ledger!Next]_<<till, ledger, overlapped>>
<1>0. TypeOK'
  BY NextType DEF LedgerInv
<1>1. ASSUME NEW d \in Devices, Proceed(d) PROVE Ledger!Contend
  BY <1>0, <1>1 DEF Proceed, storeVars, Ledger!Contend, TypeOK, HistoryTypes
<1>2. ASSUME NEW d \in Devices, ApplyTill(d) PROVE Ledger!Next
  <2> DEFINE t == Head(outbox[d]).task
  <2>1. t \in Task
    <3>1. Head(outbox[d]) \in Write /\ Head(outbox[d]).kind = "till"
      BY <1>2, TakeWriteType DEF ApplyTill, LedgerInv
    <3> QED BY <3>1 DEF Write
  <2>2. t.sku \in Products /\ t.qty \in 1 .. MaxQty
    BY <2>1 DEF Task
  <2>3. /\ till' = [till EXCEPT ![t.sku] = NewTill(t)]
        /\ ledger' = [ledger EXCEPT ![t.sku] = @ + t.qty]
        /\ UNCHANGED overlapped
    BY <1>2 DEF ApplyTill
  <2>4. CASE t.sku \notin overlapped
    <3>1. till' = [till EXCEPT ![t.sku] = @ + t.qty]
      BY <1>2, <2>4, ApplyTillFresh
    <3>2. Ledger!Record(t.sku, t.qty)
      BY <2>3, <2>4, <3>1 DEF Ledger!Record
    <3> QED BY <2>2, <3>2 DEF Ledger!Next
  <2>5. CASE t.sku \in overlapped
    <3>1. till \in [Products -> Nat] /\ till' \in [Products -> Nat]
      BY <1>0 DEF LedgerInv, TypeOK, StoreTypes
    <3>2. \A q \in Products \ overlapped : till'[q] = till[q]
      BY <2>3, <2>5, <3>1
    <3>3. Ledger!RecordStale(t.sku, t.qty)
      BY <2>3, <2>5, <3>1, <3>2 DEF Ledger!RecordStale
    <3> QED BY <2>2, <3>3 DEF Ledger!Next
  <2> QED BY <2>4, <2>5
<1>3. CASE \E d \in Devices : Proceed(d) \/ ApplyTill(d)
  BY <1>1, <1>2, <1>3 DEF Ledger!Next
<1>4. CASE ~ \E d \in Devices : Proceed(d) \/ ApplyTill(d)
  <2>1. ASSUME NEW d \in Devices, User(d)
        PROVE  UNCHANGED <<till, ledger, overlapped>>
    BY <1>4, <2>1
    DEF User, AddOne, RemoveOne, DeleteLine, CartPlus, CartMinus, SetQty,
        OpenCart, Leave, storeVars, historyVars
  <2>2. ASSUME NEW d \in Devices, Network(d)
        PROVE  UNCHANGED <<till, ledger, overlapped>>
    BY <1>4, <2>2
    DEF Network, Answer, Callback, ApplyHeader, ApplyInvoice, ApplyDay,
        AckCounted, AckCompletes, AckDisposed, CountAck, storeVars, historyVars
  <2>3. ASSUME NEW d \in Devices, Failure(d)
        PROVE  UNCHANGED <<till, ledger, overlapped>>
    BY <2>3 DEF Failure, ReadFails, RefuseTill, RefuseRecord, Restart, storeVars
  <2>4. Tick \/ UNCHANGED vars => UNCHANGED <<till, ledger, overlapped>>
    BY DEF Tick, vars, storeVars, historyVars
  <2> QED BY <2>1, <2>2, <2>3, <2>4 DEF Next
<1> QED
  BY <1>3, <1>4

\* The app and the database implement the ledger: a step that changes a stored
\* figure adds the units of one upload of that product, or the product has
\* been overlapped and only its own figure suffers.
THEOREM Refinement == Spec => ImplementsLedger
<1>1. Init => Ledger!Init
  BY DEF Init, Ledger!Init
<1>2. LedgerInv /\ [Next]_vars => [Ledger!Next]_(Ledger!vars)
  BY StepImplementsLedger DEF Ledger!vars
<1> QED
  BY <1>1, <1>2, LedgerInvariant, PTL DEF Spec, Ledger!Spec, ImplementsLedger

-----------------------------------------------------------------------------
(* The count on the bottom bar.                                            *)

\* The count follows the map through every change of one quantity.
LEMMA SetQtyCount ==
  ASSUME NEW d \in Devices, NEW p \in Products, NEW qty \in 0 .. MaxQty,
         TypeOK, ProductCountTracksCart, SetQty(d, p, qty)
  PROVE  ProductCountTracksCart'
<1> DEFINE before == InCart(d)
           after == Entries(cart'[d])
<1>1. /\ IsFiniteSet(before) /\ before \subseteq Products
      /\ Cardinality(before) \in Nat
  <2>1. before \subseteq Products
    BY DEF InCart, Entries
  <2> QED BY <2>1, ProductsAssumption, FS_Subset, FS_CardinalityType
<1>2. /\ cart \in [Devices -> [Products -> 0 .. MaxQty]] /\ MaxQty \in Nat
      /\ cart' = [cart EXCEPT ![d][p] = qty]
      /\ productCount \in [Devices -> Int]
      /\ UNCHANGED carried
  BY BoundsAssumption DEF TypeOK, DeviceTypes, SetQty, historyVars
<1>3. productCount' = [productCount EXCEPT
                        ![d] = @ + (IF cart[d][p] = 0 THEN 1 ELSE 0)
                                 - (IF qty = 0 THEN 1 ELSE 0)]
  <2>1. CountChange(cart[d][p], qty)
          = (IF cart[d][p] = 0 THEN 1 ELSE 0) - (IF qty = 0 THEN 1 ELSE 0)
    BY DEF CountChange
  <2>2. /\ (IF cart[d][p] = 0 THEN 1 ELSE 0) \in Int
        /\ (IF qty = 0 THEN 1 ELSE 0) \in Int /\ productCount[d] \in Int
    BY <1>2
  <2> QED BY <2>1, <2>2 DEF SetQty
<1>4. after = IF qty = 0 THEN before \ {p} ELSE before \cup {p}
  BY <1>2 DEF InCart, Entries
<1>5. p \in before <=> cart[d][p] # 0
  BY <1>2 DEF InCart, Entries
<1>6. Cardinality(after) = Cardinality(before)
                            + (IF cart[d][p] = 0 THEN 1 ELSE 0)
                            - (IF qty = 0 THEN 1 ELSE 0)
  <2>1. CASE qty = 0 /\ p \in before
    <3>1. Cardinality(after) = Cardinality(before) - 1
      BY <1>1, <1>4, <2>1, FS_RemoveElement
    <3> QED BY <1>1, <1>5, <2>1, <3>1
  <2>2. CASE qty = 0 /\ p \notin before
    <3>1. after = before
      BY <1>4, <2>2
    <3> QED BY <1>1, <1>5, <2>2, <3>1
  <2>3. CASE qty # 0 /\ p \in before
    <3>1. after = before
      BY <1>4, <2>3
    <3> QED BY <1>1, <1>5, <2>3, <3>1
  <2>4. CASE qty # 0 /\ p \notin before
    <3>1. Cardinality(after) = Cardinality(before) + 1
      BY <1>1, <1>4, <2>4, FS_AddElement
    <3> QED BY <1>1, <1>5, <2>4, <3>1
  <2> QED BY <2>1, <2>2, <2>3, <2>4
<1>7. Cardinality(Entries(carried[d])) \in Nat
  <2>1. Entries(carried[d]) \subseteq Products
    BY DEF Entries
  <2> QED BY <2>1, ProductsAssumption, FS_Subset, FS_CardinalityType
<1> SUFFICES ASSUME NEW e \in Devices
             PROVE  productCount'[e] = Cardinality(Entries(cart'[e]))
                                        - Cardinality(Entries(carried[e]))
  BY <1>2 DEF ProductCountTracksCart, InCart, Entries
<1>8. CASE e = d
  <2>1. productCount[d] = Cardinality(before) - Cardinality(Entries(carried[d]))
    BY DEF ProductCountTracksCart
  <2>2. productCount'[d] = productCount[d]
                            + (IF cart[d][p] = 0 THEN 1 ELSE 0)
                            - (IF qty = 0 THEN 1 ELSE 0)
    BY <1>2, <1>3
  <2> HIDE DEF before, after
  <2>3. productCount'[d] = Cardinality(after) - Cardinality(Entries(carried[d]))
    BY <1>1, <1>6, <1>7, <2>1, <2>2
  <2> QED BY <1>8, <2>3 DEF after
<1>9. CASE e # d
  <2>1. cart'[e] = cart[e] /\ productCount'[e] = productCount[e]
    BY <1>2, <1>3, <1>9
  <2> QED BY <2>1 DEF ProductCountTracksCart, InCart
<1> QED
  BY <1>8, <1>9

countVars == <<cart, productCount, carried>>

\* Steps that leave the map, the count and the left-overs alone keep the property.
LEMMA UnchangedCount ==
  ASSUME ProductCountTracksCart, UNCHANGED countVars
  PROVE  ProductCountTracksCart'
BY DEF ProductCountTracksCart, InCart, Entries, countVars

\* The handlers of the cart set one quantity of it.
LEMMA QuantitySet ==
  ASSUME NEW d \in Devices, NEW p \in Products, TypeOK,
         \/ AddOne(d, p) \/ RemoveOne(d, p) \/ DeleteLine(d, p)
         \/ CartPlus(d, p) \/ CartMinus(d, p)
  PROVE  \E qty \in 0 .. MaxQty : SetQty(d, p, qty)
<1>1. /\ MaxQty \in Nat /\ cart[d][p] \in 0 .. MaxQty
      /\ cart[d][p] < MaxQty => cart[d][p] + 1 \in 0 .. MaxQty
      /\ p \in InCart(d) => cart[d][p] - 1 \in 0 .. MaxQty
      /\ p \in cartProducts[d] => p \in InCart(d)
  BY BoundsAssumption DEF TypeOK, DeviceTypes, InCart, Entries
<1> QED
  BY <1>1 DEF AddOne, RemoveOne, DeleteLine, CartPlus, CartMinus

\* The handlers of the cart keep the property.
LEMMA CartCount ==
  ASSUME NEW d \in Devices, NEW p \in Products,
         TypeOK, ProductCountTracksCart,
         \/ AddOne(d, p) \/ RemoveOne(d, p) \/ DeleteLine(d, p)
         \/ CartPlus(d, p) \/ CartMinus(d, p)
  PROVE  ProductCountTracksCart'
BY QuantitySet, SetQtyCount

\* A completed upload keeps the map as left-overs; a new process has neither.
LEMMA ResetCount ==
  ASSUME NEW d \in Devices, TypeOK, ProductCountTracksCart,
         \/ ClearCart(d) /\ UNCHANGED cart
         \/ Restart(d)
  PROVE  ProductCountTracksCart'
<1>1. /\ productCount' = [productCount EXCEPT ![d] = 0]
      /\ \A e \in Devices : e # d => cart'[e] = cart[e] /\ carried'[e] = carried[e]
      /\ carried'[d] = cart'[d]
  BY DEF ClearCart, Restart, TypeOK, DeviceTypes, HistoryTypes
<1>2. productCount \in [Devices -> Int]
  BY DEF TypeOK, DeviceTypes
<1>3. Cardinality(Entries(cart'[d])) \in Nat
  <2>1. Entries(cart'[d]) \subseteq Products
    BY DEF Entries
  <2> QED BY <2>1, ProductsAssumption, FS_Subset, FS_CardinalityType
<1> SUFFICES ASSUME NEW e \in Devices
             PROVE  productCount'[e] = Cardinality(Entries(cart'[e]))
                                        - Cardinality(Entries(carried'[e]))
  BY DEF ProductCountTracksCart, InCart, Entries
<1>4. CASE e = d
  BY <1>1, <1>2, <1>3, <1>4
<1>5. CASE e # d
  BY <1>1, <1>2, <1>5 DEF ProductCountTracksCart, InCart
<1> QED
  BY <1>4, <1>5

\* productCount is the number of entries of the cart minus those left by the
\* last completed upload, on every device and however many products there are:
\* what the bottom bar, the invoice and the end of the next upload rely on.
THEOREM ProductCount == Spec => []ProductCountTracksCart
<1>1. Init => ProductCountTracksCart
  <2> SUFFICES ASSUME Init, NEW d \in Devices
               PROVE  productCount[d] = Cardinality(InCart(d))
                                         - Cardinality(Entries(carried[d]))
    BY DEF ProductCountTracksCart
  <2>1. InCart(d) = {} /\ Entries(carried[d]) = {} /\ productCount[d] = 0
    BY DEF Init, InCart, Entries, NoCart
  <2> QED BY <2>1, FS_EmptySet
<1>2. TypeOK /\ ProductCountTracksCart /\ [Next]_vars => ProductCountTracksCart'
  <2> SUFFICES ASSUME TypeOK, ProductCountTracksCart, [Next]_vars
               PROVE  ProductCountTracksCart'
    OBVIOUS
  <2>1. ASSUME NEW d \in Devices, User(d) PROVE ProductCountTracksCart'
    <3>1. CASE OpenCart(d) \/ Leave(d) \/ Proceed(d)
      BY <3>1, UnchangedCount
      DEF OpenCart, Leave, Proceed, historyVars, countVars
    <3> QED BY <2>1, <3>1, CartCount DEF User
  <2>2. ASSUME NEW d \in Devices, Network(d) PROVE ProductCountTracksCart'
    <3>1. CASE \E t \in tasks[d] : Answer(d, t) \/ Callback(d, t)
      BY <3>1, UnchangedCount
      DEF Answer, Callback, deviceVars, historyVars, countVars
    <3>2. CASE ApplyHeader(d) \/ ApplyInvoice(d) \/ ApplyDay(d) \/ ApplyTill(d)
      BY <3>2, UnchangedCount
      DEF ApplyHeader, ApplyInvoice, ApplyDay, ApplyTill, deviceVars,
          historyVars, countVars
    <3>3. ASSUME NEW a \in acks[d],
                 AckCounted(d, a) \/ AckCompletes(d, a) \/ AckDisposed(d, a)
          PROVE  ProductCountTracksCart'
      <4>1. UNCHANGED cart
        BY <3>3 DEF AckCounted, AckCompletes, AckDisposed, CountAck
      <4>2. ClearCart(d) \/ UNCHANGED <<productCount, carried>>
        BY <3>3 DEF AckCounted, AckCompletes, AckDisposed
      <4> QED BY <4>1, <4>2, ResetCount, UnchangedCount DEF countVars
    <3> QED BY <2>2, <3>1, <3>2, <3>3 DEF Network
  <2>3. ASSUME NEW d \in Devices, Failure(d) PROVE ProductCountTracksCart'
    <3>1. ASSUME NEW t \in tasks[d], ReadFails(d, t)
          PROVE  ProductCountTracksCart'
      BY <3>1, UnchangedCount DEF ReadFails, deviceVars, countVars
    <3>2. CASE RefuseTill(d) \/ RefuseRecord(d)
      BY <3>2, UnchangedCount
      DEF RefuseTill, RefuseRecord, deviceVars, countVars
    <3> QED BY <2>3, <3>1, <3>2, ResetCount DEF Failure
  <2>4. CASE Tick \/ UNCHANGED vars
    BY <2>4, UnchangedCount DEF Tick, vars, deviceVars, historyVars, countVars
  <2> QED BY <2>1, <2>2, <2>3, <2>4 DEF Next
<1> QED
  BY <1>1, <1>2, TypeCorrect, PTL DEF Spec

-----------------------------------------------------------------------------
(* The totals on the bottom bar.                                           *)

Amounts(c) == [p \in Products |-> Price[p] * c[p]]

\* The units and the amounts of a cart can be summed.
LEMMA CartSummable ==
  ASSUME NEW c \in [Products -> Nat]
  PROVE  /\ Summable(c, Products) /\ Summable(Amounts(c), Products)
         /\ Units(c) = SumFunctionOnSet(c, Products)
         /\ Amount(c) = SumFunctionOnSet(Amounts(c), Products)
         /\ Units(c) \in Int /\ Amount(c) \in Int
<1>1. Summable(c, Products)
  BY ProductsAssumption DEF Summable
<1>2. Summable(Amounts(c), Products)
  <2> SUFFICES ASSUME NEW p \in Products PROVE Amounts(c)[p] \in Int
    BY ProductsAssumption DEF Summable
  <2>1. Price[p] \in Int /\ c[p] \in Int
    BY PriceAssumption
  <2>2. Amounts(c)[p] = Price[p] * c[p]
    BY DEF Amounts
  <2> QED BY <2>1, <2>2
<1>3. Units(c) = SumFunctionOnSet(c, Products)
  BY DEF Units, SumFunction
<1>4. Amount(c) = SumFunctionOnSet(Amounts(c), Products)
  <2>1. DOMAIN Amounts(c) = Products
    BY DEF Amounts
  <2> QED BY <2>1 DEF Amount, Amounts, SumFunction
<1> QED BY <1>1, <1>2, <1>3, <1>4, SumType

\* The price of a change is the change of the price.
LEMMA PriceOfChange ==
  ASSUME NEW x \in Int, NEW b \in Int, NEW a \in Int
  PROVE  x * a - x * b = (a - b) * x
OBVIOUS

\* The sums follow a change of one quantity.
LEMMA ChangedSums ==
  ASSUME NEW c \in [Products -> Nat], NEW e \in [Products -> Nat],
         NEW p \in Products, OnlyAt(c, e, Products, p)
  PROVE  /\ Units(e) = Units(c) + (e[p] - c[p])
         /\ Amount(e) = Amount(c) + (e[p] - c[p]) * Price[p]
<1>1. Units(e) = Units(c) - c[p] + e[p]
  BY CartSummable, SumChanges
<1>2. c[p] \in Int /\ e[p] \in Int /\ Price[p] \in Int
  BY PriceAssumption
<1>3. OnlyAt(Amounts(c), Amounts(e), Products, p)
  BY DEF OnlyAt, Amounts
<1>4. Amount(e) = Amount(c) - Amounts(c)[p] + Amounts(e)[p]
  BY <1>3, CartSummable, SumChanges
<1>5. Amounts(c)[p] = Price[p] * c[p] /\ Amounts(e)[p] = Price[p] * e[p]
  BY DEF Amounts
<1>6. PICK x, y : x = Price[p] * c[p] /\ y = Price[p] * e[p]
  OBVIOUS
<1>7. x \in Int /\ y \in Int
  BY <1>2, <1>6
<1>8. y - x = (e[p] - c[p]) * Price[p]
  BY <1>2, <1>6, PriceOfChange
<1>9. Units(c) \in Int /\ Amount(c) \in Int
  BY CartSummable
<1>10. Amount(e) = Amount(c) + (y - x)
  BY <1>4, <1>5, <1>6, <1>7, <1>9
<1> QED BY <1>1, <1>2, <1>8, <1>9, <1>10

\* The totals follow the map through every change of one quantity.
LEMMA SetQtyTotals ==
  ASSUME NEW d \in Devices, NEW p \in Products, NEW qty \in 0 .. MaxQty,
         TypeOK, TotalsTrackCart, SetQty(d, p, qty)
  PROVE  TotalsTrackCart'
<1>1. /\ cart \in [Devices -> [Products -> 0 .. MaxQty]] /\ MaxQty \in Nat
      /\ itemCount \in [Devices -> Int] /\ cartTotal \in [Devices -> Int]
      /\ carried \in [Devices -> [Products -> Nat]]
  BY BoundsAssumption DEF TypeOK, DeviceTypes, HistoryTypes
<1>2. /\ cart' = [cart EXCEPT ![d][p] = qty]
      /\ UNCHANGED carried
      /\ itemCount' = [itemCount EXCEPT ![d] = itemCount[d] + (qty - cart[d][p])]
      /\ cartTotal' = [cartTotal EXCEPT
                            ![d] = cartTotal[d] + (qty - cart[d][p]) * Price[p]]
  BY DEF SetQty, historyVars
<1>3. PICK c, e : c = cart[d] /\ e = cart'[d]
  OBVIOUS
<1>4. /\ c \in [Products -> Nat] /\ e \in [Products -> Nat] /\ e[p] = qty
      /\ OnlyAt(c, e, Products, p)
  BY <1>1, <1>2, <1>3 DEF OnlyAt
<1>5. /\ Units(e) = Units(c) + (qty - c[p])
      /\ Amount(e) = Amount(c) + (qty - c[p]) * Price[p]
  BY <1>4, ChangedSums
<1>6. /\ itemCount[d] = Units(c) - Units(carried[d])
      /\ cartTotal[d] = Amount(c) - Amount(carried[d])
  BY <1>3 DEF TotalsTrackCart
<1>7. /\ itemCount'[d] = itemCount[d] + (qty - c[p])
      /\ cartTotal'[d] = cartTotal[d] + (qty - c[p]) * Price[p]
  BY <1>1, <1>2, <1>3
<1>8. /\ Units(c) \in Int /\ Units(carried[d]) \in Int
      /\ Amount(c) \in Int /\ Amount(carried[d]) \in Int
  BY <1>1, <1>4, CartSummable
<1>9. PICK more : more = (qty - c[p]) * Price[p]
  OBVIOUS
<1>10. qty \in Int /\ c[p] \in Int /\ more \in Int
  <2>1. qty \in Int /\ c[p] \in Int /\ Price[p] \in Int
    BY <1>1, <1>4, PriceAssumption
  <2> QED BY <1>9, <2>1
<1>11. /\ itemCount'[d] = Units(e) - Units(carried[d])
       /\ cartTotal'[d] = Amount(e) - Amount(carried[d])
  BY <1>5, <1>6, <1>7, <1>8, <1>9, <1>10
<1> SUFFICES ASSUME NEW b \in Devices
             PROVE  /\ itemCount'[b] = Units(cart'[b]) - Units(carried'[b])
                    /\ cartTotal'[b] = Amount(cart'[b]) - Amount(carried'[b])
  BY DEF TotalsTrackCart, Units, Amount
<1>12. CASE b = d
  BY <1>2, <1>3, <1>11, <1>12
<1>13. CASE b # d
  <2>1. /\ cart'[b] = cart[b] /\ carried'[b] = carried[b]
        /\ itemCount'[b] = itemCount[b] /\ cartTotal'[b] = cartTotal[b]
    BY <1>1, <1>2, <1>13
  <2> QED BY <2>1 DEF TotalsTrackCart
<1> QED
  BY <1>12, <1>13

totalVars == <<cart, itemCount, cartTotal, carried>>

\* Steps that leave the map, the totals and the left-overs alone keep the property.
LEMMA UnchangedTotals ==
  ASSUME TotalsTrackCart, UNCHANGED totalVars
  PROVE  TotalsTrackCart'
BY DEF TotalsTrackCart, Units, Amount, totalVars

\* A completed upload keeps the map as left-overs; a new process has neither.
LEMMA ResetTotals ==
  ASSUME NEW d \in Devices, TypeOK, TotalsTrackCart,
         \/ ClearCart(d) /\ UNCHANGED cart
         \/ Restart(d)
  PROVE  TotalsTrackCart'
<1>1. /\ itemCount' = [itemCount EXCEPT ![d] = 0]
      /\ cartTotal' = [cartTotal EXCEPT ![d] = 0]
      /\ \A e \in Devices : e # d => cart'[e] = cart[e] /\ carried'[e] = carried[e]
      /\ carried'[d] = cart'[d]
  BY DEF ClearCart, Restart, TypeOK, DeviceTypes, HistoryTypes
<1>2. itemCount \in [Devices -> Int] /\ cartTotal \in [Devices -> Int]
  BY DEF TypeOK, DeviceTypes
<1>3. Units(cart'[d]) \in Int /\ Amount(cart'[d]) \in Int
  <2>1. cart'[d] \in [Products -> Nat]
    BY BoundsAssumption DEF ClearCart, Restart, TypeOK, DeviceTypes, NoCart
  <2> QED BY <2>1, CartSummable
<1> SUFFICES ASSUME NEW b \in Devices
             PROVE  /\ itemCount'[b] = Units(cart'[b]) - Units(carried'[b])
                    /\ cartTotal'[b] = Amount(cart'[b]) - Amount(carried'[b])
  BY DEF TotalsTrackCart, Units, Amount
<1>4. CASE b = d
  BY <1>1, <1>2, <1>3, <1>4
<1>5. CASE b # d
  BY <1>1, <1>2, <1>5 DEF TotalsTrackCart
<1> QED
  BY <1>4, <1>5

\* The two totals of the bottom bar are the units and the amount of the cart
\* minus those the last completed upload left in it, on every device and however
\* many products there are: what the next invoice states as its own.
THEOREM Totals == Spec => []TotalsTrackCart
<1>1. Init => TotalsTrackCart
  <2> SUFFICES ASSUME Init, NEW d \in Devices
               PROVE  /\ itemCount[d] = Units(cart[d]) - Units(carried[d])
                      /\ cartTotal[d] = Amount(cart[d]) - Amount(carried[d])
    BY DEF TotalsTrackCart
  <2>1. /\ itemCount[d] = 0 /\ cartTotal[d] = 0
        /\ cart[d] = NoCart /\ carried[d] = NoCart
    BY DEF Init
  <2>2. NoCart \in [Products -> Nat]
    BY DEF NoCart
  <2> QED BY <2>1, <2>2, CartSummable
<1>2. TypeOK /\ TotalsTrackCart /\ [Next]_vars => TotalsTrackCart'
  <2> SUFFICES ASSUME TypeOK, TotalsTrackCart, [Next]_vars
               PROVE  TotalsTrackCart'
    OBVIOUS
  <2>1. ASSUME NEW d \in Devices, User(d) PROVE TotalsTrackCart'
    <3>1. CASE OpenCart(d) \/ Leave(d) \/ Proceed(d)
      BY <3>1, UnchangedTotals
      DEF OpenCart, Leave, Proceed, historyVars, totalVars
    <3>2. ASSUME NEW p \in Products,
                 \/ AddOne(d, p) \/ RemoveOne(d, p) \/ DeleteLine(d, p)
                 \/ CartPlus(d, p) \/ CartMinus(d, p)
          PROVE  TotalsTrackCart'
      BY <3>2, QuantitySet, SetQtyTotals
    <3> QED BY <2>1, <3>1, <3>2 DEF User
  <2>2. ASSUME NEW d \in Devices, Network(d) PROVE TotalsTrackCart'
    <3>1. CASE \E t \in tasks[d] : Answer(d, t) \/ Callback(d, t)
      BY <3>1, UnchangedTotals
      DEF Answer, Callback, deviceVars, historyVars, totalVars
    <3>2. CASE ApplyHeader(d) \/ ApplyInvoice(d) \/ ApplyDay(d) \/ ApplyTill(d)
      BY <3>2, UnchangedTotals
      DEF ApplyHeader, ApplyInvoice, ApplyDay, ApplyTill, deviceVars,
          historyVars, totalVars
    <3>3. ASSUME NEW a \in acks[d],
                 AckCounted(d, a) \/ AckCompletes(d, a) \/ AckDisposed(d, a)
          PROVE  TotalsTrackCart'
      <4>1. UNCHANGED cart
        BY <3>3 DEF AckCounted, AckCompletes, AckDisposed, CountAck
      <4>2. ClearCart(d) \/ UNCHANGED <<itemCount, cartTotal, carried>>
        BY <3>3 DEF AckCounted, AckCompletes, AckDisposed
      <4> QED BY <4>1, <4>2, ResetTotals, UnchangedTotals DEF totalVars
    <3> QED BY <2>2, <3>1, <3>2, <3>3 DEF Network
  <2>3. ASSUME NEW d \in Devices, Failure(d) PROVE TotalsTrackCart'
    <3>1. ASSUME NEW t \in tasks[d], ReadFails(d, t)
          PROVE  TotalsTrackCart'
      BY <3>1, UnchangedTotals DEF ReadFails, deviceVars, totalVars
    <3>2. CASE RefuseTill(d) \/ RefuseRecord(d)
      BY <3>2, UnchangedTotals
      DEF RefuseTill, RefuseRecord, deviceVars, totalVars
    <3> QED BY <2>3, <3>1, <3>2, ResetTotals DEF Failure
  <2>4. CASE Tick \/ UNCHANGED vars
    BY <2>4, UnchangedTotals DEF Tick, vars, deviceVars, historyVars, totalVars
  <2> QED BY <2>1, <2>2, <2>3, <2>4 DEF Next
<1> QED
  BY <1>1, <1>2, TypeCorrect, PTL DEF Spec

-----------------------------------------------------------------------------
(* The headers of invoices.  A header is written from the globals when the *)
(* upload begins and stored later, so the invariant speaks of the headers  *)
(* in the outbox too, and of the list they take their lines from: without  *)
(* left-overs it shows every entry of the map.                             *)

FreshList ==
    \A d \in Devices : carried[d] = NoCart => cartProducts[d] = InCart(d)

CountsItsLines(w) ==
    w.carried = NoCart => /\ w.count = Cardinality(Entries(w.lines))
                          /\ w.items = Units(w.lines)

SentHeadersCount ==
    \A d \in Devices : \A i \in DOMAIN outbox[d] :
        outbox[d][i].kind = "header" => CountsItsLines(outbox[d][i])

SentAndStored == SentHeadersCount /\ HeaderCountsItsLines

listVars == <<cart, cartProducts, carried>>

\* Steps that leave the map, the list and the left-overs alone keep them in step.
LEMMA UnchangedList ==
  ASSUME FreshList, UNCHANGED listVars
  PROVE  FreshList'
BY DEF FreshList, listVars, InCart, Entries

\* The handlers of the cart rebuild the list.
LEMMA CartList ==
  ASSUME NEW d \in Devices, NEW p \in Products, NEW qty \in 0 .. MaxQty,
         TypeOK, FreshList, SetQty(d, p, qty)
  PROVE  FreshList'
<1>1. /\ cartProducts' = [cartProducts EXCEPT
                            ![d] = {q \in Products : cart'[d][q] > 0}]
      /\ cart' = [cart EXCEPT ![d][p] = qty] /\ UNCHANGED carried
  BY DEF SetQty, historyVars
<1>2. cart \in [Devices -> [Products -> 0 .. MaxQty]]
      /\ cartProducts \in [Devices -> SUBSET Products]
  BY DEF TypeOK, DeviceTypes
<1> SUFFICES ASSUME NEW e \in Devices, carried[e] = NoCart
             PROVE  cartProducts'[e] = {q \in Products : cart'[e][q] > 0}
  BY <1>1 DEF FreshList, InCart, Entries
<1>3. CASE e = d
  BY <1>1, <1>2, <1>3
<1>4. CASE e # d
  BY <1>1, <1>2, <1>4 DEF FreshList, InCart, Entries
<1> QED
  BY <1>3, <1>4

\* A completed upload empties the list and keeps the map as left-overs; a new
\* process has nothing of either.
LEMMA ResetList ==
  ASSUME NEW d \in Devices, TypeOK, FreshList,
         \/ ClearCart(d) /\ UNCHANGED cart
         \/ Restart(d)
  PROVE  FreshList'
<1>1. /\ cartProducts' = [cartProducts EXCEPT ![d] = {}]
      /\ \A e \in Devices : e # d => cart'[e] = cart[e] /\ carried'[e] = carried[e]
      /\ carried'[d] = cart'[d]
  BY DEF ClearCart, Restart, TypeOK, DeviceTypes, HistoryTypes
<1>2. cartProducts \in [Devices -> SUBSET Products]
  BY DEF TypeOK, DeviceTypes
<1> SUFFICES ASSUME NEW e \in Devices, carried'[e] = NoCart
             PROVE  cartProducts'[e] = {q \in Products : cart'[e][q] > 0}
  BY DEF FreshList, InCart, Entries
<1>3. CASE e = d
  BY <1>1, <1>2, <1>3 DEF NoCart
<1>4. CASE e # d
  BY <1>1, <1>2, <1>4 DEF FreshList, InCart, Entries
<1> QED
  BY <1>3, <1>4

\* Without left-overs the list is the map's entries, in every state.
LEMMA ListInvariant == Spec => []FreshList
<1>1. Init => FreshList
  BY DEF Init, FreshList, InCart, Entries, NoCart
<1>2. TypeOK /\ FreshList /\ [Next]_vars => FreshList'
  <2> SUFFICES ASSUME TypeOK, FreshList, [Next]_vars PROVE FreshList'
    OBVIOUS
  <2>1. ASSUME NEW d \in Devices, User(d) PROVE FreshList'
    <3>1. CASE OpenCart(d) \/ Leave(d) \/ Proceed(d)
      BY <3>1, UnchangedList
      DEF OpenCart, Leave, Proceed, historyVars, listVars
    <3>2. ASSUME NEW p \in Products,
                 \/ AddOne(d, p) \/ RemoveOne(d, p) \/ DeleteLine(d, p)
                 \/ CartPlus(d, p) \/ CartMinus(d, p)
          PROVE  FreshList'
      BY <3>2, QuantitySet, CartList
    <3> QED BY <2>1, <3>1, <3>2 DEF User
  <2>2. ASSUME NEW d \in Devices, Network(d) PROVE FreshList'
    <3>1. CASE \E t \in tasks[d] : Answer(d, t) \/ Callback(d, t)
      BY <3>1, UnchangedList
      DEF Answer, Callback, deviceVars, historyVars, listVars
    <3>2. CASE ApplyHeader(d) \/ ApplyInvoice(d) \/ ApplyDay(d) \/ ApplyTill(d)
      BY <3>2, UnchangedList
      DEF ApplyHeader, ApplyInvoice, ApplyDay, ApplyTill, deviceVars,
          historyVars, listVars
    <3>3. ASSUME NEW a \in acks[d],
                 AckCounted(d, a) \/ AckCompletes(d, a) \/ AckDisposed(d, a)
          PROVE  FreshList'
      <4>1. UNCHANGED cart
        BY <3>3 DEF AckCounted, AckCompletes, AckDisposed, CountAck
      <4>2. ClearCart(d) \/ UNCHANGED <<cartProducts, carried>>
        BY <3>3 DEF AckCounted, AckCompletes, AckDisposed
      <4> QED BY <4>1, <4>2, ResetList, UnchangedList DEF listVars
    <3> QED BY <2>2, <3>1, <3>2, <3>3 DEF Network
  <2>3. ASSUME NEW d \in Devices, Failure(d) PROVE FreshList'
    <3>1. ASSUME NEW t \in tasks[d], ReadFails(d, t)
          PROVE  FreshList'
      BY <3>1, UnchangedList DEF ReadFails, deviceVars, listVars
    <3>2. CASE RefuseTill(d) \/ RefuseRecord(d)
      BY <3>2, UnchangedList
      DEF RefuseTill, RefuseRecord, deviceVars, listVars
    <3> QED BY <2>3, <3>1, <3>2, ResetList DEF Failure
  <2>4. CASE Tick \/ UNCHANGED vars
    BY <2>4, UnchangedList DEF Tick, vars, deviceVars, historyVars, listVars
  <2> QED BY <2>1, <2>2, <2>3, <2>4 DEF Next
<1> QED
  BY <1>1, <1>2, TypeCorrect, PTL DEF Spec

\* A write leaves the front of an outbox: the others move up.
LEMMA TakenPlaces ==
  ASSUME NEW d \in Devices, NEW kind, TypeOK, TakeWrite(d, kind)
  PROVE  /\ 1 \in DOMAIN outbox[d] /\ outbox[d][1] = Head(outbox[d])
         /\ Head(outbox[d]).kind = kind
         /\ \A i \in DOMAIN outbox'[d] :
                i \in Nat \ {0} /\ i + 1 \in DOMAIN outbox[d]
                /\ outbox'[d][i] = outbox[d][i + 1]
         /\ \A e \in Devices : e # d => outbox'[e] = outbox[e]
<1>1. /\ outbox \in [Devices -> Seq(Write)] /\ outbox[d] # <<>>
      /\ outbox' = [outbox EXCEPT ![d] = Tail(@)]
      /\ Head(outbox[d]).kind = kind
  BY DEF TakeWrite, TypeOK, NetworkTypes
<1>2. outbox'[d] = Tail(outbox[d]) /\ outbox[d] \in Seq(Write)
  BY <1>1
<1>3. 1 \in DOMAIN outbox[d] /\ outbox[d][1] = Head(outbox[d])
  BY <1>1, <1>2
<1>4. \A i \in DOMAIN outbox'[d] :
            i \in 1 .. Len(outbox[d]) - 1 /\ outbox'[d][i] = outbox[d][i + 1]
  BY <1>1, <1>2
<1>5. \A i \in 1 .. Len(outbox[d]) - 1 : i + 1 \in DOMAIN outbox[d]
  BY <1>2
<1> QED
  BY <1>1, <1>3, <1>4, <1>5

\* The store's invoice is sent behind the writes of the outbox.
LEMMA ProceedOutbox ==
  ASSUME NEW d \in Devices, TypeOK, Proceed(d)
  PROVE  /\ \A i \in DOMAIN outbox'[d] :
                \/ outbox'[d][i] = HeaderWrite(d)
                \/ i \in DOMAIN outbox[d] /\ outbox'[d][i] = outbox[d][i]
         /\ \A e \in Devices : e # d => outbox'[e] = outbox[e]
<1>1. /\ outbox \in [Devices -> Seq(Write)]
      /\ outbox' = [outbox EXCEPT ![d] = Append(@, HeaderWrite(d))]
  BY DEF Proceed, TypeOK, NetworkTypes
<1>2. PICK s, w : s = outbox[d] /\ w = HeaderWrite(d)
  OBVIOUS
<1>3. s \in Seq(Write) /\ outbox'[d] = Append(s, w)
  BY <1>1, <1>2
<1>4. /\ DOMAIN s = 1 .. Len(s) /\ Len(s) \in Nat
      /\ DOMAIN Append(s, w) = 1 .. Len(s) + 1
      /\ \A i \in 1 .. Len(s) + 1 :
            Append(s, w)[i] = IF i = Len(s) + 1 THEN w ELSE s[i]
  BY <1>3
<1>5. \A i \in 1 .. Len(s) + 1 : i # Len(s) + 1 => i \in 1 .. Len(s)
  BY <1>4
<1> QED
  BY <1>1, <1>2, <1>3, <1>4, <1>5

\* A header sent without left-overs counts the lines it takes from the list.
LEMMA HeaderSent ==
  ASSUME NEW d \in Devices, TypeOK, FreshList, ProductCountTracksCart,
         TotalsTrackCart
  PROVE  CountsItsLines(HeaderWrite(d))
<1>1. PICK w : w = HeaderWrite(d)
  OBVIOUS
<1>2. /\ w.carried = carried[d] /\ w.count = productCount[d]
      /\ w.items = itemCount[d]
      /\ w.lines = [p \in Products |-> IF p \in cartProducts[d]
                                      THEN cart[d][p] ELSE 0]
  BY <1>1 DEF HeaderWrite
<1> SUFFICES ASSUME w.carried = NoCart
             PROVE  /\ w.count = Cardinality(Entries(w.lines))
                    /\ w.items = Units(w.lines)
  BY <1>1 DEF CountsItsLines
<1>3. carried[d] = NoCart /\ cartProducts[d] = InCart(d)
  BY <1>2 DEF FreshList
<1>4. cart[d] \in [Products -> Nat] /\ NoCart \in [Products -> Nat]
  BY BoundsAssumption DEF TypeOK, DeviceTypes, NoCart
<1>5. w.lines = cart[d]
  <2>1. \A p \in Products : (IF p \in cartProducts[d] THEN cart[d][p] ELSE 0)
                                = cart[d][p]
    BY <1>3, <1>4 DEF InCart, Entries
  <2> QED BY <1>2, <1>4, <2>1
<1>6. Entries(NoCart) = {} /\ Zeros(NoCart, Products)
  BY DEF Entries, NoCart, Zeros
<1>7. Cardinality(Entries(NoCart)) = 0 /\ Units(NoCart) = 0
  <2>1. Units(NoCart) = SumFunctionOnSet(NoCart, Products)
    BY <1>4, CartSummable
  <2> QED BY <1>6, <2>1, ProductsAssumption, SumOfZeros, FS_EmptySet
<1>8. Cardinality(InCart(d)) \in Int /\ Units(cart[d]) \in Int
  <2>1. InCart(d) \subseteq Products
    BY DEF InCart, Entries
  <2>2. Cardinality(InCart(d)) \in Nat
    BY <2>1, ProductsAssumption, FS_Subset, FS_CardinalityType
  <2> QED BY <1>4, <2>2, CartSummable
<1>9. /\ productCount[d] = Cardinality(InCart(d)) - Cardinality(Entries(carried[d]))
      /\ itemCount[d] = Units(cart[d]) - Units(carried[d])
  BY DEF ProductCountTracksCart, TotalsTrackCart
<1>10. productCount[d] = Cardinality(InCart(d)) /\ itemCount[d] = Units(cart[d])
  BY <1>3, <1>7, <1>8, <1>9
<1> QED
  BY <1>2, <1>5, <1>10 DEF InCart

\* Steps that send and store no header leave the others as they are.
LEMMA NoHeaderSent ==
  ASSUME SentAndStored, UNCHANGED headers,
         \A d \in Devices : \A i \in DOMAIN outbox'[d] :
            \/ outbox'[d][i].kind # "header"
            \/ \E j \in DOMAIN outbox[d] : outbox'[d][i] = outbox[d][j]
  PROVE  SentAndStored'
<1>1. SentHeadersCount'
  BY DEF SentAndStored, SentHeadersCount
<1>2. HeaderCountsItsLines'
  BY DEF SentAndStored, HeaderCountsItsLines
<1> QED
  BY <1>1, <1>2 DEF SentAndStored

\* A write taken from an outbox and not stored as a header.
LEMMA TakenNotStored ==
  ASSUME NEW d \in Devices, NEW kind, TypeOK, SentAndStored, TakeWrite(d, kind),
         UNCHANGED headers
  PROVE  SentAndStored'
<1>1. \A e \in Devices : \A i \in DOMAIN outbox'[e] :
            \E j \in DOMAIN outbox[e] : outbox'[e][i] = outbox[e][j]
  BY TakenPlaces
<1> QED BY <1>1, NoHeaderSent

\* A header is stored as it was sent.
LEMMA HeaderStored ==
  ASSUME NEW d \in Devices, TypeOK, SentAndStored, ApplyHeader(d)
  PROVE  SentAndStored'
<1>1. PICK w : w = Head(outbox[d])
  OBVIOUS
<1>2. headers' = [headers EXCEPT ![w.id] = w] /\ TakeWrite(d, "header")
  BY <1>1 DEF ApplyHeader
<1>3. CountsItsLines(w)
  BY <1>1, <1>2, TakenPlaces DEF SentAndStored, SentHeadersCount
<1>4. SentHeadersCount'
  <2>1. \A e \in Devices : \A i \in DOMAIN outbox'[e] :
            \E j \in DOMAIN outbox[e] : outbox'[e][i] = outbox[e][j]
    BY <1>2, TakenPlaces
  <2> QED BY <2>1 DEF SentAndStored, SentHeadersCount
<1>5. HeaderCountsItsLines'
  <2>1. headers \in [Times -> Write \cup {NoHeader}]
    BY DEF TypeOK, StoreTypes
  <2>2. \A t \in Times : headers'[t] = w \/ headers'[t] = headers[t]
    BY <1>2, <2>1
  <2> QED
    BY <1>3, <2>2 DEF SentAndStored, HeaderCountsItsLines, CountsItsLines
<1> QED
  BY <1>4, <1>5 DEF SentAndStored

\* The callback of a read sends no header.
LEMMA CallbackNoHeader ==
  ASSUME NEW d \in Devices, NEW t \in tasks[d], TypeOK, SentAndStored,
         Callback(d, t)
  PROVE  SentAndStored'
<1>1. PICK u : u = [t EXCEPT !.phase = "sent"]
  OBVIOUS
<1>2. PICK n \in Nat : CallbackSends(d, u, n)
  BY <1>1, CallbackOutbox
<1>3. \A i \in 1 .. n + 3 : i \in 1 .. n \/ i = n + 1 \/ i = n + 2 \/ i = n + 3
  OBVIOUS
<1>4. \A i \in DOMAIN outbox'[d] :
            outbox'[d][i].kind # "header"
            \/ \E j \in DOMAIN outbox[d] : outbox'[d][i] = outbox[d][j]
  BY <1>2, <1>3 DEF CallbackSends
<1>5. \A e \in Devices : e # d => outbox'[e] = outbox[e]
  BY <1>2 DEF CallbackSends
<1>6. UNCHANGED headers
  BY DEF Callback, storeVars
<1> QED
  BY <1>4, <1>5, <1>6, NoHeaderSent

\* Every step keeps the headers true.
LEMMA NextHeaders ==
  TypeOK /\ FreshList /\ ProductCountTracksCart /\ TotalsTrackCart
    /\ SentAndStored /\ [Next]_vars => SentAndStored'
<1> SUFFICES ASSUME TypeOK, FreshList, ProductCountTracksCart, TotalsTrackCart,
                    SentAndStored, [Next]_vars
             PROVE  SentAndStored'
  OBVIOUS
<1>0. ASSUME UNCHANGED <<outbox, headers>> PROVE SentAndStored'
  BY <1>0, NoHeaderSent
<1>1. ASSUME NEW d \in Devices, User(d) PROVE SentAndStored'
  <2>1. CASE Proceed(d)
    <3>1. UNCHANGED headers
      BY <2>1 DEF Proceed, storeVars
    <3>2. HeaderCountsItsLines'
      BY <3>1 DEF SentAndStored, HeaderCountsItsLines
    <3>3. \A e \in Devices : \A i \in DOMAIN outbox'[e] :
            \/ CountsItsLines(outbox'[e][i])
            \/ \E j \in DOMAIN outbox[e] : outbox'[e][i] = outbox[e][j]
      BY <2>1, ProceedOutbox, HeaderSent
    <3>4. SentHeadersCount'
      BY <3>3 DEF SentAndStored, SentHeadersCount
    <3> QED BY <3>2, <3>4 DEF SentAndStored
  <2>2. CASE OpenCart(d) \/ Leave(d)
    BY <1>0, <2>2 DEF OpenCart, Leave, networkVars, storeVars
  <2>3. ASSUME NEW p \in Products,
               \/ AddOne(d, p) \/ RemoveOne(d, p) \/ DeleteLine(d, p)
               \/ CartPlus(d, p) \/ CartMinus(d, p)
        PROVE  SentAndStored'
    BY <1>0, <2>3, QuantitySet DEF SetQty, networkVars, storeVars
  <2> QED BY <1>1, <2>1, <2>2, <2>3 DEF User
<1>2. ASSUME NEW d \in Devices, Network(d) PROVE SentAndStored'
  <2>1. ASSUME NEW t \in tasks[d], Answer(d, t) \/ Callback(d, t)
        PROVE  SentAndStored'
    BY <1>0, <2>1, CallbackNoHeader DEF Answer, storeVars
  <2>2. CASE ApplyHeader(d)
    BY <2>2, HeaderStored
  <2>3. CASE ApplyInvoice(d) \/ ApplyDay(d) \/ ApplyTill(d)
    BY <2>3, TakenNotStored DEF ApplyInvoice, ApplyDay, ApplyTill
  <2>4. ASSUME NEW a \in acks[d],
               AckCounted(d, a) \/ AckCompletes(d, a) \/ AckDisposed(d, a)
        PROVE  SentAndStored'
    BY <1>0, <2>4 DEF AckCounted, AckCompletes, AckDisposed, CountAck, storeVars
  <2> QED BY <1>2, <2>1, <2>2, <2>3, <2>4 DEF Network
<1>3. ASSUME NEW d \in Devices, Failure(d) PROVE SentAndStored'
  <2>1. ASSUME NEW t \in tasks[d], ReadFails(d, t) PROVE SentAndStored'
    BY <1>0, <2>1 DEF ReadFails, storeVars
  <2>2. CASE RefuseTill(d) \/ RefuseRecord(d)
    BY <2>2, TakenNotStored DEF RefuseTill, RefuseRecord, Refuse, storeVars
  <2>3. CASE Restart(d)
    <3>1. outbox' = [outbox EXCEPT ![d] = <<>>] /\ UNCHANGED headers
      BY <2>3 DEF Restart, storeVars
    <3>2. \A e \in Devices : \A i \in DOMAIN outbox'[e] :
            \E j \in DOMAIN outbox[e] : outbox'[e][i] = outbox[e][j]
      BY <3>1 DEF TypeOK, NetworkTypes
    <3> QED BY <3>1, <3>2, NoHeaderSent
  <2> QED BY <1>3, <2>1, <2>2, <2>3 DEF Failure
<1>4. CASE Tick \/ UNCHANGED vars
  BY <1>0, <1>4 DEF Tick, vars, networkVars, storeVars
<1> QED
  BY <1>1, <1>2, <1>3, <1>4 DEF Next

\* The store's invoice of an upload that began without left-overs counts the
\* lines and units it lists, whichever carts, devices and later uploads there
\* are between the tap and the moment the database stores it.
THEOREM HeadersCount == Spec => []HeaderCountsItsLines
<1>1. Init => SentAndStored
  BY DEF Init, SentAndStored, SentHeadersCount, HeaderCountsItsLines
<1>2. SentAndStored => HeaderCountsItsLines
  BY DEF SentAndStored
<1> QED
  BY <1>1, <1>2, NextHeaders, TypeCorrect, ListInvariant, ProductCount, Totals, PTL
  DEF Spec

-----------------------------------------------------------------------------
(* Uploads under way.  A page uploads a product once: its task is the only *)
(* one of that page and product, and sends one till-date write.            *)

Tills(d) == {i \in DOMAIN outbox[d] : outbox[d][i].kind = "till"}

OneTask(d) ==
    \A t, u \in tasks[d] : t.page = u.page /\ t.sku = u.sku => t = u

TasksOfPages(d) ==
    \A t \in tasks[d] :
        t.page <= opened[d] /\ (page[d] = "cart" => t.page # opened[d])

TillsOfTasks(d) ==
    \A i \in Tills(d) :
        /\ outbox[d][i].task \in tasks[d]
        /\ outbox[d][i].task.phase = "sent"
        /\ \A j \in Tills(d) : outbox[d][i].task = outbox[d][j].task => i = j

FlightOf(d) == OneTask(d) /\ TasksOfPages(d) /\ TillsOfTasks(d)
FlightInv == \A d \in Devices : FlightOf(d)

\* A device that sends and receives nothing and opens no page.
LEMMA SameFlight ==
  ASSUME NEW d \in Devices, FlightOf(d),
         tasks'[d] = tasks[d], outbox'[d] = outbox[d], opened'[d] = opened[d],
         page'[d] = "cart" => page[d] = "cart"
  PROVE  FlightOf(d)'
BY DEF FlightOf, OneTask, TasksOfPages, TillsOfTasks, Tills

\* A page opened is newer than every task.
LEMMA OpenFlight ==
  ASSUME NEW d \in Devices, TypeOK, FlightOf(d), OpenCart(d)
  PROVE  FlightOf(d)'
<1>1. /\ opened'[d] = opened[d] + 1 /\ opened[d] \in Nat
      /\ UNCHANGED <<tasks, outbox>>
  BY BoundsAssumption DEF OpenCart, TypeOK, DeviceTypes, networkVars
<1>2. \A t \in tasks[d] : t.page \in Nat
  BY BoundsAssumption DEF TypeOK, NetworkTypes, Task, Pages
<1>3. TasksOfPages(d)'
  BY <1>1, <1>2 DEF FlightOf, TasksOfPages
<1> QED
  BY <1>1, <1>3 DEF FlightOf, OneTask, TillsOfTasks, Tills

\* The page uploads every product of its list once.
LEMMA ProceedFlight ==
  ASSUME NEW d \in Devices, TypeOK, FlightOf(d), Proceed(d)
  PROVE  FlightOf(d)'
<1>1. /\ tasks'[d] = tasks[d] \cup {NewTask(d, p) : p \in cartProducts[d]}
      /\ UNCHANGED opened /\ page[d] = "cart" /\ page'[d] = "uploading"
      /\ opened[d] \in Nat
  BY BoundsAssumption DEF Proceed, TypeOK, DeviceTypes, NetworkTypes
<1>2. \A p : NewTask(d, p).page = opened[d] /\ NewTask(d, p).sku = p
  BY DEF NewTask
<1>3. \A t \in tasks[d] : t.page <= opened[d] /\ t.page # opened[d]
  BY <1>1 DEF FlightOf, TasksOfPages
<1>4. OneTask(d)'
  BY <1>1, <1>2, <1>3 DEF FlightOf, OneTask
<1>5. TasksOfPages(d)'
  BY <1>1, <1>2, <1>3 DEF TasksOfPages
<1>6. TillsOfTasks(d)'
  <2>1. HeaderWrite(d).kind = "header"
    BY DEF HeaderWrite
  <2>2. \A i \in Tills(d)' : i \in Tills(d) /\ outbox'[d][i] = outbox[d][i]
    BY <2>1, ProceedOutbox DEF Tills
  <2> QED BY <1>1, <2>2 DEF FlightOf, TillsOfTasks
<1> QED
  BY <1>4, <1>5, <1>6 DEF FlightOf

\* The task of a read goes on under the same page and product, or ends.
Follows(d, t, after) ==
    tasks'[d] = (tasks[d] \ {t}) \cup after
    /\ \A u \in after : u.page = t.page /\ u.sku = t.sku /\ after = {u}

\* A task that is replaced remains the only one of its page and product.
LEMMA FollowedTasks ==
  ASSUME NEW d \in Devices, FlightOf(d), NEW t \in tasks[d], NEW after,
         Follows(d, t, after), UNCHANGED <<page, opened>>
  PROVE  OneTask(d)' /\ TasksOfPages(d)'
<1>1. OneTask(d)'
  BY DEF Follows, FlightOf, OneTask
<1>2. TasksOfPages(d)'
  BY DEF Follows, FlightOf, TasksOfPages
<1> QED BY <1>1, <1>2

\* The answer to a read, given or refused, finds nothing of its upload sent.
LEMMA AnswerFlight ==
  ASSUME NEW d \in Devices, TypeOK, FlightOf(d), NEW t \in tasks[d],
         Answer(d, t) \/ ReadFails(d, t)
  PROVE  FlightOf(d)'
<1>1. /\ t.phase = "reading" /\ UNCHANGED <<page, opened, outbox>>
  BY DEF Answer, ReadFails, deviceVars
<1>2. \E after : Follows(d, t, after)
  <2>1. CASE Answer(d, t)
    <3>1. PICK u : /\ u.page = t.page /\ u.sku = t.sku
                   /\ tasks' = [tasks EXCEPT ![d] = (@ \ {t}) \cup {u}]
      <4>1. PICK base : tasks' = [tasks EXCEPT ![d] = (@ \ {t}) \cup
                            {[t EXCEPT !.phase = "answered", !.base = base]}]
        BY <2>1 DEF Answer
      <4>2. t \in Task
        BY DEF TypeOK, NetworkTypes
      <4>3. /\ [t EXCEPT !.phase = "answered", !.base = base].page = t.page
            /\ [t EXCEPT !.phase = "answered", !.base = base].sku = t.sku
        BY <4>2 DEF Task
      <4> QED BY <4>1, <4>3
    <3>2. Follows(d, t, {u})
      BY <3>1 DEF Follows, TypeOK, NetworkTypes
    <3> QED BY <3>2
  <2>2. CASE ReadFails(d, t)
    <3>1. tasks'[d] = (tasks[d] \ {t}) \cup {}
      BY <2>2 DEF ReadFails, TypeOK, NetworkTypes
    <3>2. Follows(d, t, {})
      BY <3>1 DEF Follows
    <3> QED BY <3>2
  <2> QED BY <2>1, <2>2
<1>3. OneTask(d)' /\ TasksOfPages(d)'
  BY <1>1, <1>2, FollowedTasks
<1>4. TillsOfTasks(d)'
  BY <1>1, <1>2 DEF FlightOf, TillsOfTasks, Tills, Follows
<1> QED
  BY <1>3, <1>4 DEF FlightOf

\* The callback sends the one till-date write of its task.
LEMMA CallbackFlight ==
  ASSUME NEW d \in Devices, TypeOK, FlightOf(d), NEW t \in tasks[d],
         Callback(d, t)
  PROVE  FlightOf(d)'
<1>1. PICK u : u = [t EXCEPT !.phase = "sent"]
  OBVIOUS
<1>2. PICK n \in Nat : CallbackSends(d, u, n)
  BY <1>1, CallbackOutbox
<1>3. u.page = t.page /\ u.sku = t.sku /\ u.phase = "sent"
  BY <1>1 DEF TypeOK, NetworkTypes, Task
<1>4. t.phase = "answered" /\ UNCHANGED <<page, opened>>
  BY DEF Callback, deviceVars
<1>5. Follows(d, t, {u})
  BY <1>1, <1>3 DEF Callback, Follows, TypeOK, NetworkTypes
<1>6. OneTask(d)' /\ TasksOfPages(d)'
  BY <1>4, <1>5, FollowedTasks
<1>7. \A i \in 1 .. n + 3 : i \in 1 .. n \/ i = n + 1 \/ i = n + 2 \/ i = n + 3
  OBVIOUS
<1>8. \A i \in Tills(d)' :
        \/ i \in Tills(d) /\ outbox'[d][i] = outbox[d][i] /\ i # n + 3
        \/ i = n + 3 /\ outbox'[d][i].task = u
  BY <1>2, <1>7 DEF CallbackSends, Tills
<1>9. \A i \in Tills(d) : outbox[d][i].task \in tasks'[d] /\ outbox[d][i].task # u
  <2>1. \A i \in Tills(d) : outbox[d][i].task \in tasks[d]
                            /\ outbox[d][i].task.phase = "sent"
    BY DEF FlightOf, TillsOfTasks
  <2>2. u \notin tasks[d]
    BY <1>3, <1>4 DEF FlightOf, OneTask
  <2> QED BY <1>4, <1>5, <2>1, <2>2 DEF Follows
<1>10. u \in tasks'[d]
  BY <1>5 DEF Follows
<1>11. TillsOfTasks(d)'
  <2>1. \A i \in Tills(d)' : /\ outbox'[d][i].task \in tasks'[d]
                             /\ outbox'[d][i].task.phase = "sent"
    BY <1>3, <1>8, <1>9, <1>10 DEF FlightOf, TillsOfTasks
  <2>2. \A i, j \in Tills(d)' : outbox'[d][i].task = outbox'[d][j].task => i = j
    BY <1>8, <1>9 DEF FlightOf, TillsOfTasks
  <2> QED BY <2>1, <2>2 DEF TillsOfTasks
<1> QED
  BY <1>6, <1>11 DEF FlightOf

\* What leaves the outbox ends its task if it is the till-date write.
LEMMA TakenFlight ==
  ASSUME NEW d \in Devices, NEW kind, TypeOK, FlightOf(d), TakeWrite(d, kind),
         UNCHANGED <<page, opened>>,
         tasks'[d] = IF kind = "till" THEN tasks[d] \ {Head(outbox[d]).task}
                     ELSE tasks[d]
  PROVE  FlightOf(d)'
<1>1. /\ 1 \in DOMAIN outbox[d] /\ outbox[d][1] = Head(outbox[d])
      /\ Head(outbox[d]).kind = kind
      /\ \A i \in DOMAIN outbox'[d] :
            i \in Nat \ {0} /\ i + 1 \in DOMAIN outbox[d]
            /\ outbox'[d][i] = outbox[d][i + 1]
  BY TakenPlaces
<1>2. OneTask(d)' /\ TasksOfPages(d)'
  BY DEF FlightOf, OneTask, TasksOfPages
<1>3. \A i \in Tills(d)' : /\ i \in Nat \ {0} /\ i + 1 \in Tills(d)
                           /\ outbox'[d][i] = outbox[d][i + 1]
  BY <1>1 DEF Tills
<1>4. \A i \in Tills(d)' : outbox'[d][i].task \in tasks'[d]
  <2> SUFFICES ASSUME NEW i \in Tills(d)' PROVE outbox'[d][i].task \in tasks'[d]
    OBVIOUS
  <2>1. outbox'[d][i].task \in tasks[d]
    BY <1>3 DEF FlightOf, TillsOfTasks
  <2>2. CASE kind = "till"
    <3>1. 1 \in Tills(d) /\ i + 1 \in Tills(d) /\ i + 1 # 1
      BY <1>1, <1>3, <2>2 DEF Tills
    <3>2. outbox[d][i + 1].task # outbox[d][1].task
      BY <3>1 DEF FlightOf, TillsOfTasks
    <3> QED BY <1>1, <1>3, <2>1, <2>2, <3>2
  <2> QED BY <2>1, <2>2
<1>5. \A i, j \in Tills(d)' : outbox'[d][i].task = outbox'[d][j].task => i = j
  <2> SUFFICES ASSUME NEW i \in Tills(d)', NEW j \in Tills(d)',
                      outbox'[d][i].task = outbox'[d][j].task
               PROVE  i = j
    OBVIOUS
  <2>1. i + 1 = j + 1
    BY <1>3 DEF FlightOf, TillsOfTasks
  <2>2. i \in Nat /\ j \in Nat
    BY <1>3
  <2> QED BY <2>1, <2>2
<1>6. TillsOfTasks(d)'
  BY <1>3, <1>4, <1>5 DEF FlightOf, TillsOfTasks
<1> QED
  BY <1>2, <1>6 DEF FlightOf

\* A device keeps its tasks in order through every step of its own.
LEMMA DeviceFlight ==
  ASSUME NEW d \in Devices, TypeOK, FlightOf(d),
         User(d) \/ Network(d) \/ Failure(d)
  PROVE  FlightOf(d)'
<1>1. ASSUME NEW p \in Products,
             \/ AddOne(d, p) \/ RemoveOne(d, p) \/ DeleteLine(d, p)
             \/ CartPlus(d, p) \/ CartMinus(d, p)
      PROVE  FlightOf(d)'
  <2>1. UNCHANGED <<page, opened, tasks, outbox>>
    BY <1>1, QuantitySet DEF SetQty, networkVars
  <2> QED BY <2>1, SameFlight
<1>2. CASE Leave(d)
  <2>1. /\ UNCHANGED <<opened, tasks, outbox>> /\ page'[d] = "shop"
    BY <1>2 DEF Leave, networkVars, TypeOK, DeviceTypes
  <2> QED BY <2>1, SameFlight
<1>3. ASSUME NEW a \in acks[d],
             AckCounted(d, a) \/ AckCompletes(d, a) \/ AckDisposed(d, a)
      PROVE  FlightOf(d)'
  <2>1. UNCHANGED <<opened, tasks, outbox>>
    BY <1>3 DEF AckCounted, AckCompletes, AckDisposed, CountAck
  <2>2. page'[d] = page[d] \/ page'[d] = "status"
    BY <1>3 DEF AckCounted, AckCompletes, AckDisposed, TypeOK, DeviceTypes
  <2> QED BY <2>1, <2>2, SameFlight
<1>4. ASSUME NEW kind, TakeWrite(d, kind), kind # "till",
             UNCHANGED <<page, opened, tasks>>
      PROVE  FlightOf(d)'
  BY <1>4, TakenFlight
<1>5. CASE ApplyHeader(d) \/ ApplyInvoice(d) \/ ApplyDay(d) \/ RefuseRecord(d)
  BY <1>4, <1>5
  DEF ApplyHeader, ApplyInvoice, ApplyDay, RefuseRecord, Refuse, deviceVars
<1>6. CASE ApplyTill(d) \/ RefuseTill(d)
  <2>1. /\ TakeWrite(d, "till") /\ UNCHANGED <<page, opened>>
        /\ tasks'[d] = tasks[d] \ {Head(outbox[d]).task}
    BY <1>6 DEF ApplyTill, RefuseTill, Refuse, deviceVars, TypeOK, NetworkTypes
  <2> QED BY <2>1, TakenFlight
<1>7. CASE Restart(d)
  <2>1. tasks'[d] = {} /\ outbox'[d] = <<>>
    BY <1>7 DEF Restart, TypeOK, NetworkTypes
  <2> QED BY <2>1 DEF FlightOf, OneTask, TasksOfPages, TillsOfTasks, Tills
<1>8. CASE User(d)
  BY <1>1, <1>2, <1>8, OpenFlight, ProceedFlight DEF User
<1>9. CASE Network(d)
  BY <1>3, <1>5, <1>6, <1>9, AnswerFlight, CallbackFlight DEF Network
<1>10. CASE Failure(d)
  BY <1>5, <1>6, <1>7, <1>10, AnswerFlight DEF Failure
<1> QED
  BY <1>8, <1>9, <1>10

\* What a step of one device leaves of another, and the clock of all.
SameElsewhere(e) ==
    /\ page'[e] = page[e] /\ opened'[e] = opened[e]
    /\ tasks'[e] = tasks[e] /\ outbox'[e] = outbox[e] /\ acks'[e] = acks[e]
    /\ uploaded'[e] = uploaded[e] /\ productCount'[e] = productCount[e]
    /\ orders'[e] = orders[e]

\* A step is a step of one device, and nothing to the pages, tasks and writes of
\* the others.
LEMMA OneDevice ==
  ASSUME TypeOK, [Next]_vars, NEW e \in Devices
  PROVE  User(e) \/ Network(e) \/ Failure(e) \/ SameElsewhere(e)
<1>1. ASSUME NEW d \in Devices, User(d), d # e PROVE SameElsewhere(e)
  <2>1. CASE OpenCart(d) \/ Leave(d) \/ Proceed(d)
    BY <1>1, <2>1 DEF OpenCart, Leave, Proceed, networkVars, historyVars,
        SameElsewhere, TypeOK, DeviceTypes, NetworkTypes, HistoryTypes
  <2>2. ASSUME NEW p \in Products, NEW qty \in 0 .. MaxQty, SetQty(d, p, qty)
        PROVE  SameElsewhere(e)
    BY <1>1, <2>2 DEF SetQty, networkVars, historyVars, SameElsewhere, TypeOK,
        DeviceTypes
  <2>3. ASSUME NEW p \in Products,
               \/ AddOne(d, p) \/ RemoveOne(d, p) \/ DeleteLine(d, p)
               \/ CartPlus(d, p) \/ CartMinus(d, p)
        PROVE  SameElsewhere(e)
    BY <2>2, <2>3, QuantitySet
  <2> QED BY <1>1, <2>1, <2>3 DEF User
<1>2. ASSUME NEW d \in Devices, Network(d), d # e PROVE SameElsewhere(e)
  <2>1. CASE \E t \in tasks[d] : Answer(d, t) \/ Callback(d, t)
    BY <1>2, <2>1 DEF Answer, Callback, deviceVars, historyVars, SameElsewhere,
        TypeOK, NetworkTypes
  <2>2. CASE ApplyHeader(d) \/ ApplyInvoice(d) \/ ApplyDay(d) \/ ApplyTill(d)
    BY <1>2, <2>2 DEF ApplyHeader, ApplyInvoice, ApplyDay, ApplyTill, TakeWrite,
        deviceVars, historyVars, SameElsewhere, TypeOK, NetworkTypes, HistoryTypes
  <2>3. ASSUME NEW a \in acks[d],
               AckCounted(d, a) \/ AckCompletes(d, a) \/ AckDisposed(d, a)
        PROVE  SameElsewhere(e)
    BY <1>2, <2>3 DEF AckCounted, AckCompletes, AckDisposed, CountAck, ClearCart,
        SameElsewhere, TypeOK, DeviceTypes, NetworkTypes
  <2> QED BY <1>2, <2>1, <2>2, <2>3 DEF Network
<1>3. ASSUME NEW d \in Devices, Failure(d), d # e PROVE SameElsewhere(e)
  BY <1>3 DEF Failure, ReadFails, RefuseTill, RefuseRecord, Refuse, TakeWrite,
      Restart, deviceVars, SameElsewhere, TypeOK, DeviceTypes, NetworkTypes,
      HistoryTypes
<1>4. CASE Tick \/ UNCHANGED vars
  BY <1>4 DEF Tick, vars, deviceVars, networkVars, historyVars, SameElsewhere
<1> QED
  BY <1>1, <1>2, <1>3, <1>4 DEF Next

\* On every device an upload has one task, and its till-date write is sent once.
LEMMA FlightInvariant == Spec => []FlightInv
<1>1. Init => FlightInv
  BY DEF Init, FlightInv, FlightOf, OneTask, TasksOfPages, TillsOfTasks, Tills
<1>2. TypeOK /\ FlightInv /\ [Next]_vars => FlightInv'
  <2> SUFFICES ASSUME TypeOK, FlightInv, [Next]_vars, NEW e \in Devices
               PROVE  FlightOf(e)'
    BY DEF FlightInv
  <2>1. FlightOf(e)
    BY DEF FlightInv
  <2>2. CASE SameElsewhere(e)
    BY <2>1, <2>2, SameFlight DEF SameElsewhere
  <2> QED BY <2>1, <2>2, OneDevice, DeviceFlight
<1> QED
  BY <1>1, <1>2, TypeCorrect, PTL DEF Spec

-----------------------------------------------------------------------------
(* The success page.  While an upload that began with nothing left over    *)
(* and nothing under way goes on, every task and acknowledgement of the    *)
(* device is one of its lines, the acknowledgements counted are lines that *)
(* landed, and the count they are compared with is that of the lines.      *)

Acked(d) == {a.sku : a \in acks[d]}

Underway(d, g, o) ==
    /\ o.landed \subseteq o.lines
    /\ \A t \in tasks[d] : t.page = g /\ t.sku \in o.lines \ o.landed
    /\ \A a \in acks[d] : a.page = g /\ a.sku \in o.landed
    /\ page[d] = "uploading" =>
        /\ productCount[d] = Cardinality(o.lines)
        /\ uploaded[d][g] = Cardinality(o.landed \ Acked(d))
    /\ page[d] = "status" => o.landed = o.lines

Uploads(d) == page[d] \in {"uploading", "status"}
OrderOf(d) == orders[d][opened[d]]
CleanOf(d) == Uploads(d) /\ OrderOf(d).clean => Underway(d, opened[d], OrderOf(d))
CleanInv == \A d \in Devices : CleanOf(d)

\* Nothing of an upload changes.
LEMMA SameClean ==
  ASSUME NEW d \in Devices, CleanOf(d), SameElsewhere(d)
  PROVE  CleanOf(d)'
BY DEF CleanOf, Uploads, OrderOf, Underway, Acked, SameElsewhere

\* An upload that begins clean has its lines before it and nothing behind it.
LEMMA ProceedClean ==
  ASSUME NEW d \in Devices, TypeOK, FreshList, ProductCountTracksCart, Proceed(d)
  PROVE  CleanOf(d)'
<1>1. PICK g, lines : g = opened[d] /\ lines = cartProducts[d]
  OBVIOUS
<1>2. g \in Pages /\ lines \subseteq Products /\ page[d] = "cart"
  BY <1>1 DEF Proceed, TypeOK, DeviceTypes
<1>3. /\ opened'[d] = g /\ page'[d] = "uploading" /\ uploaded'[d][g] = 0
      /\ productCount'[d] = productCount[d] /\ acks'[d] = acks[d]
      /\ tasks'[d] = tasks[d] \cup {NewTask(d, p) : p \in lines}
  BY <1>1, <1>2 DEF Proceed, TypeOK, DeviceTypes, NetworkTypes
<1>4. PICK clean : clean = (carried[d] = NoCart /\ tasks[d] = {} /\ acks[d] = {})
  BY Zenon
<1>5. OrderOf(d)' = [lines |-> lines, landed |-> {}, failed |-> FALSE,
                     clean |-> clean]
  <2>1. orders' = [orders EXCEPT ![d][opened[d]] =
                    [lines |-> cartProducts[d], landed |-> {}, failed |-> FALSE,
                     clean |-> /\ carried[d] = NoCart
                               /\ tasks[d] = {}
                               /\ acks[d] = {}]]
    BY DEF Proceed
  <2>2. orders \in [Devices -> [Pages -> Order]]
    BY DEF TypeOK, HistoryTypes
  <2> QED BY <1>1, <1>2, <1>3, <1>4, <2>1, <2>2 DEF OrderOf
<1>6. PICK o : o = OrderOf(d)'
  OBVIOUS
<1>7. o.lines = lines /\ o.landed = {} /\ o.clean = clean
  BY <1>5, <1>6
<1> SUFFICES ASSUME o.clean PROVE Underway(d, g, o)'
  BY <1>3, <1>6 DEF CleanOf
<1>8. carried[d] = NoCart /\ tasks[d] = {} /\ acks[d] = {}
  BY <1>4, <1>7
<1>9. \A p : NewTask(d, p).page = g /\ NewTask(d, p).sku = p
  BY <1>1 DEF NewTask
<1>10. productCount[d] = Cardinality(lines)
  <2>1. Entries(carried[d]) = {} /\ Cardinality({}) = 0
    BY <1>8, FS_EmptySet DEF Entries, NoCart
  <2>2. lines = InCart(d)
    BY <1>1, <1>8 DEF FreshList
  <2>3. Cardinality(lines) \in Nat
    BY <1>2, ProductsAssumption, FS_Subset, FS_CardinalityType
  <2>4. productCount[d] = Cardinality(InCart(d)) - Cardinality(Entries(carried[d]))
    BY DEF ProductCountTracksCart
  <2> QED BY <2>1, <2>2, <2>3, <2>4
<1>11. Cardinality(o.landed \ Acked(d)') = 0
  <2>1. o.landed \ Acked(d)' = {}
    BY <1>7
  <2> QED BY <2>1, FS_EmptySet
<1> QED
  BY <1>3, <1>7, <1>8, <1>9, <1>10, <1>11 DEF Underway

\* A page that shows neither the spinner nor the status uploads nothing.
LEMMA NoUpload ==
  ASSUME NEW d \in Devices, TypeOK,
         \/ \E p \in Products : \/ AddOne(d, p) \/ RemoveOne(d, p)
                                \/ DeleteLine(d, p) \/ CartPlus(d, p)
                                \/ CartMinus(d, p)
         \/ OpenCart(d) \/ Leave(d) \/ Restart(d)
  PROVE  CleanOf(d)'
<1>1. page'[d] \in {"shop", "cart"}
  <2>1. CASE \E p \in Products : \/ AddOne(d, p) \/ RemoveOne(d, p)
                                 \/ DeleteLine(d, p) \/ CartPlus(d, p)
                                 \/ CartMinus(d, p)
    BY <2>1 DEF AddOne, RemoveOne, DeleteLine, CartPlus, CartMinus, SetQty
  <2>2. CASE OpenCart(d) \/ Leave(d) \/ Restart(d)
    BY <2>2 DEF OpenCart, Leave, Restart, TypeOK, DeviceTypes
  <2> QED BY <2>1, <2>2
<1> QED
  BY <1>1 DEF CleanOf, Uploads

\* What is landed stays, and so does what was to be uploaded.
SameOrder(d) ==
    /\ OrderOf(d)'.lines = OrderOf(d).lines
    /\ OrderOf(d)'.landed = OrderOf(d).landed
    /\ OrderOf(d)'.clean = OrderOf(d).clean

\* Tasks go on under the same page and product, or end without landing.
LEMMA QuietClean ==
  ASSUME NEW d \in Devices, CleanOf(d), Uploads(d) => SameOrder(d),
         page'[d] = page[d], opened'[d] = opened[d], acks'[d] = acks[d],
         uploaded'[d] = uploaded[d], productCount'[d] = productCount[d],
         \A u \in tasks'[d] : \E t \in tasks[d] : u.page = t.page /\ u.sku = t.sku
  PROVE  CleanOf(d)'
<1> SUFFICES ASSUME Uploads(d), OrderOf(d)'.clean
             PROVE  Underway(d, opened[d], OrderOf(d))'
  BY DEF CleanOf, Uploads
<1>1. Underway(d, opened[d], OrderOf(d)) /\ SameOrder(d)
  BY DEF CleanOf, SameOrder
<1>2. Acked(d)' = Acked(d)
  BY DEF Acked
<1> QED
  BY <1>1, <1>2 DEF Underway, SameOrder

\* A failure is noted in the order and changes nothing else of it.
LEMMA FailedOrder ==
  ASSUME NEW d \in Devices, TypeOK, NEW q \in Pages, UNCHANGED opened,
         orders' = [orders EXCEPT ![d][q].failed = TRUE], Uploads(d)
  PROVE  SameOrder(d)
<1>1. orders[d] \in [Pages -> Order] /\ opened[d] \in Pages
  BY DEF TypeOK, DeviceTypes, HistoryTypes, Uploads
<1>2. /\ orders'[d] = [orders[d] EXCEPT ![q].failed = TRUE]
      /\ OrderOf(d)' = orders'[d][opened[d]]
  BY DEF TypeOK, HistoryTypes, OrderOf
<1>3. CASE q = opened[d]
  <2>1. OrderOf(d)' = [orders[d][q] EXCEPT !.failed = TRUE]
    BY <1>1, <1>2, <1>3, Zenon
  <2>2. orders[d][q] \in Order
    BY <1>1
  <2> QED BY <1>3, <2>1, <2>2 DEF SameOrder, OrderOf, Order
<1>4. CASE q # opened[d]
  BY <1>1, <1>2, <1>4 DEF SameOrder, OrderOf
<1> QED
  BY <1>3, <1>4

\* Reads, refusals and the other writes leave what landed alone.
LEMMA NetworkClean ==
  ASSUME NEW d \in Devices, TypeOK, FlightOf(d), CleanOf(d),
         \/ \E t \in tasks[d] : Answer(d, t) \/ Callback(d, t) \/ ReadFails(d, t)
         \/ ApplyHeader(d) \/ ApplyInvoice(d) \/ ApplyDay(d)
         \/ RefuseTill(d) \/ RefuseRecord(d)
  PROVE  CleanOf(d)'
<1>0. \A t \in tasks[d] : t \in Task /\ t.page \in Pages
  BY DEF TypeOK, NetworkTypes, Task
<1>1. ASSUME NEW t \in tasks[d], Answer(d, t) PROVE CleanOf(d)'
  <2>1. PICK base : tasks' = [tasks EXCEPT ![d] = (@ \ {t}) \cup
                        {[t EXCEPT !.phase = "answered", !.base = base]}]
    BY <1>1 DEF Answer
  <2>2. PICK u : u = [t EXCEPT !.phase = "answered", !.base = base]
    OBVIOUS
  <2>3. u.page = t.page /\ u.sku = t.sku
    BY <1>0, <2>2 DEF Task
  <2>4. tasks'[d] = (tasks[d] \ {t}) \cup {u}
    BY <2>1, <2>2 DEF TypeOK, NetworkTypes
  <2>5. SameOrder(d) /\ UNCHANGED <<page, opened, acks, uploaded, productCount>>
    BY <1>1 DEF Answer, deviceVars, historyVars, SameOrder, OrderOf
  <2> QED BY <2>3, <2>4, <2>5, QuietClean
<1>2. ASSUME NEW t \in tasks[d], Callback(d, t) PROVE CleanOf(d)'
  <2>1. PICK u : u = [t EXCEPT !.phase = "sent"]
    OBVIOUS
  <2>2. u.page = t.page /\ u.sku = t.sku
    BY <1>0, <2>1 DEF Task
  <2>3. tasks'[d] = (tasks[d] \ {t}) \cup {u}
    BY <1>2, <2>1 DEF Callback, TypeOK, NetworkTypes
  <2>4. SameOrder(d) /\ UNCHANGED <<page, opened, acks, uploaded, productCount>>
    BY <1>2 DEF Callback, deviceVars, historyVars, SameOrder, OrderOf
  <2> QED BY <2>2, <2>3, <2>4, QuietClean
<1>3. ASSUME NEW t \in tasks[d], ReadFails(d, t) PROVE CleanOf(d)'
  <2>1. /\ tasks'[d] \subseteq tasks[d]
        /\ UNCHANGED <<page, opened, acks, uploaded, productCount>>
    BY <1>3 DEF ReadFails, deviceVars, TypeOK, NetworkTypes
  <2>2. Uploads(d) => SameOrder(d)
    BY <1>0, <1>3, FailedOrder DEF ReadFails, deviceVars
  <2> QED BY <2>1, <2>2, QuietClean
<1>4. CASE RefuseTill(d)
  <2>1. PICK t : t = Head(outbox[d]).task
    OBVIOUS
  <2>2. TakeWrite(d, "till")
    BY <1>4 DEF RefuseTill, Refuse
  <2>3. t \in tasks[d]
    BY <2>1, <2>2, TakenPlaces DEF FlightOf, TillsOfTasks, Tills
  <2>4. /\ tasks'[d] \subseteq tasks[d]
        /\ UNCHANGED <<page, opened, acks, uploaded, productCount>>
    BY <1>4 DEF RefuseTill, TypeOK, NetworkTypes
  <2>5. orders' = [orders EXCEPT ![d][t.page].failed = TRUE]
    BY <1>4, <2>1 DEF RefuseTill
  <2>6. Uploads(d) => SameOrder(d)
    BY <1>0, <2>3, <2>4, <2>5, FailedOrder
  <2> QED BY <2>4, <2>6, QuietClean
<1>5. CASE ApplyHeader(d) \/ ApplyInvoice(d) \/ ApplyDay(d) \/ RefuseRecord(d)
  <2>1. UNCHANGED <<page, opened, acks, uploaded, productCount, tasks, orders>>
    BY <1>5 DEF ApplyHeader, ApplyInvoice, ApplyDay, RefuseRecord, deviceVars,
        historyVars
  <2>2. SameOrder(d)
    BY <2>1 DEF SameOrder, OrderOf
  <2> QED BY <2>1, <2>2, QuietClean
<1> QED
  BY <1>1, <1>2, <1>3, <1>4, <1>5

\* A figure that lands is of a line that had not landed.
LEMMA LandedClean ==
  ASSUME NEW d \in Devices, TypeOK, FlightOf(d), CleanOf(d), ApplyTill(d)
  PROVE  CleanOf(d)'
<1>1. PICK t, g, o : t = Head(outbox[d]).task /\ g = opened[d] /\ o = OrderOf(d)
  OBVIOUS
<1>2. TakeWrite(d, "till")
  BY <1>1 DEF ApplyTill
<1>3. t \in tasks[d] /\ t \in Task
  BY <1>1, <1>2, TakenPlaces DEF FlightOf, TillsOfTasks, Tills, TypeOK, NetworkTypes
<1>4. /\ UNCHANGED <<page, opened, uploaded, productCount>>
      /\ tasks'[d] = tasks[d] \ {t}
      /\ acks'[d] = acks[d] \cup {[page |-> t.page, sku |-> t.sku]}
      /\ orders' = [orders EXCEPT ![d][t.page].landed = @ \cup {t.sku}]
  BY <1>1 DEF ApplyTill, deviceVars, TypeOK, NetworkTypes
<1>5. CASE ~Uploads(d)
  BY <1>4, <1>5 DEF CleanOf, Uploads
<1>6. CASE Uploads(d) /\ t.page # g
  <2>1. OrderOf(d)' = o
    BY <1>1, <1>4, <1>6 DEF OrderOf, TypeOK, HistoryTypes
  <2>2. ~o.clean
    BY <1>1, <1>3, <1>6 DEF CleanOf, Underway
  <2> QED BY <2>1, <2>2 DEF CleanOf
<1>7. CASE Uploads(d) /\ t.page = g
  <2>1. g \in Pages /\ o \in Order
    BY <1>1, <1>7 DEF Uploads, OrderOf, TypeOK, DeviceTypes, HistoryTypes
  <2>2. PICK q : q = OrderOf(d)'
    OBVIOUS
  <2>3. q.lines = o.lines /\ q.clean = o.clean /\ q.landed = o.landed \cup {t.sku}
    <3>1. orders[d] \in [Pages -> Order] /\ o = orders[d][g] /\ q = orders'[d][g]
      BY <1>1, <1>4, <2>2 DEF OrderOf, TypeOK, HistoryTypes
    <3>2. orders'[d] = [orders[d] EXCEPT ![g].landed = @ \cup {t.sku}]
      BY <1>4, <1>7 DEF TypeOK, HistoryTypes
    <3>3. q = [o EXCEPT !.landed = @ \cup {t.sku}]
      BY <2>1, <3>1, <3>2
    <3> QED BY <2>1, <3>3 DEF Order
  <2> SUFFICES ASSUME o.clean PROVE Underway(d, g, q)'
    BY <1>1, <1>4, <2>2, <2>3 DEF CleanOf
  <2>4. Underway(d, g, o)
    BY <1>1, <1>7 DEF CleanOf
  <2>5. t.sku \in o.lines \ o.landed
    BY <1>3, <2>4 DEF Underway
  <2>6. \A u \in tasks'[d] : u.page = g /\ u.sku \in q.lines \ q.landed
    BY <1>3, <1>4, <2>3, <2>4 DEF Underway, FlightOf, OneTask
  <2>7. Acked(d)' = Acked(d) \cup {t.sku}
    <3>1. PICK b : b = [page |-> t.page, sku |-> t.sku]
      OBVIOUS
    <3>2. b.sku = t.sku /\ acks'[d] = acks[d] \cup {b}
      BY <1>4, <3>1
    <3> QED BY <3>2 DEF Acked
  <2>8. q.landed \ Acked(d)' = o.landed \ Acked(d)
    BY <2>3, <2>5, <2>7
  <2>9. \A a \in acks'[d] : a.page = g /\ a.sku \in q.landed
    BY <1>4, <1>7, <2>3, <2>4 DEF Underway
  <2>10. q.landed \subseteq q.lines
    BY <2>3, <2>4, <2>5 DEF Underway
  <2>11. page[d] = "uploading" =>
            /\ productCount[d] = Cardinality(q.lines)
            /\ uploaded[d][g] = Cardinality(q.landed \ Acked(d)')
    BY <2>3, <2>4, <2>8 DEF Underway
  <2>12. page[d] = "status" => q.landed = q.lines
    BY <2>3, <2>4, <2>5 DEF Underway
  <2> QED
    BY <1>4, <2>6, <2>9, <2>10, <2>11, <2>12 DEF Underway
<1> QED
  BY <1>5, <1>6, <1>7

\* Sets of as many elements as they can have.
LEMMA AllCounted ==
  ASSUME NEW L, IsFiniteSet(L), NEW A \in SUBSET L,
         Cardinality(A) = Cardinality(L)
  PROVE  A = L
<1>1. IsFiniteSet(A) /\ Cardinality(A) \in Nat
  BY FS_Subset, FS_CardinalityType
<1> SUFFICES ASSUME NEW x \in L, x \notin A PROVE FALSE
  OBVIOUS
<1>2. Cardinality(A \cup {x}) = Cardinality(A) + 1
  BY <1>1, FS_AddElement
<1>3. Cardinality(A \cup {x}) <= Cardinality(L)
  BY FS_Subset
<1> QED BY <1>1, <1>2, <1>3

\* An acknowledgement is counted once for its line, and the last one by the count
\* of the bottom bar is the last of the lines.
LEMMA AckClean ==
  ASSUME NEW d \in Devices, TypeOK, CleanOf(d), NEW a \in acks[d],
         AckCounted(d, a) \/ AckCompletes(d, a) \/ AckDisposed(d, a)
  PROVE  CleanOf(d)'
<1>1. PICK g, o : g = opened[d] /\ o = OrderOf(d)
  OBVIOUS
<1>2. /\ UNCHANGED <<opened, tasks, orders>>
      /\ acks'[d] = acks[d] \ {a}
      /\ uploaded'[d] = [uploaded[d] EXCEPT ![a.page] = @ + 1]
      /\ page'[d] = page[d] \/ (page[d] = "uploading" /\ page'[d] = "status")
  BY DEF AckCounted, AckCompletes, AckDisposed, CountAck, Mounted, TypeOK,
         DeviceTypes, NetworkTypes
<1>3. CASE ~Uploads(d)
  BY <1>2, <1>3 DEF CleanOf, Uploads
<1>4. CASE Uploads(d)
  <2>1. OrderOf(d)' = o
    BY <1>1, <1>2 DEF OrderOf
  <2> SUFFICES ASSUME o.clean PROVE Underway(d, g, o)'
    BY <1>1, <1>2, <2>1 DEF CleanOf
  <2>2. Underway(d, g, o)
    BY <1>1, <1>4 DEF CleanOf
  <2>3. a.page = g /\ a.sku \in o.landed /\ o.landed \subseteq o.lines
    BY <2>2 DEF Underway
  <2>4. /\ \A t \in tasks'[d] : t.page = g /\ t.sku \in o.lines \ o.landed
        /\ \A b \in acks'[d] : b.page = g /\ b.sku \in o.landed
    BY <1>2, <2>2 DEF Underway
  <2>5. Acked(d)' = Acked(d) \ {a.sku}
    <3>1. \A b \in acks[d] : b.sku = a.sku => b = a
      <4>1. \A b \in acks[d] : b \in [page : Pages, sku : Products] /\ b.page = g
        BY <2>2 DEF TypeOK, NetworkTypes, Underway
      <4> QED BY <4>1
    <3> QED BY <1>2, <3>1 DEF Acked
  <2>6. a.sku \in Acked(d)
    BY DEF Acked
  <2>7. o.landed \ Acked(d)' = (o.landed \ Acked(d)) \cup {a.sku}
    BY <2>3, <2>5
  <2>8. IsFiniteSet(o.lines) /\ IsFiniteSet(o.landed \ Acked(d))
    <3>1. o \in Order
      BY <1>1, <1>4 DEF Uploads, OrderOf, TypeOK, DeviceTypes, HistoryTypes
    <3>2. o.lines \subseteq Products /\ o.landed \ Acked(d) \subseteq Products
      BY <3>1 DEF Order
    <3> QED BY <3>2, ProductsAssumption, FS_Subset
  <2>9. PICK A : A = o.landed \ Acked(d)
    OBVIOUS
  <2>10. Cardinality(A \cup {a.sku}) = Cardinality(A) + 1
    BY <2>6, <2>8, <2>9, FS_AddElement
  <2>11. CASE page'[d] = "status" /\ page[d] = "uploading"
    <3>1. uploaded[d][g] + 1 = productCount[d]
      BY <2>3, <2>11 DEF AckCounted, AckCompletes, AckDisposed, Last
    <3>2. Cardinality(A \cup {a.sku}) = Cardinality(o.lines)
      BY <2>2, <2>9, <2>10, <2>11, <3>1 DEF Underway
    <3>3. A \cup {a.sku} \subseteq o.landed
      BY <2>3, <2>9
    <3>4. A \cup {a.sku} = o.lines
      BY <2>3, <2>8, <3>2, <3>3, AllCounted
    <3>5. o.landed = o.lines
      BY <2>3, <3>3, <3>4
    <3> QED BY <2>3, <2>4, <2>11, <3>5 DEF Underway
  <2>12. CASE page'[d] = "uploading"
    <3>1. ~AckCompletes(d, a)
      BY <2>12 DEF AckCompletes, TypeOK, DeviceTypes
    <3>2. ~AckDisposed(d, a)
      BY <1>1, <1>2, <2>3, <2>12 DEF AckDisposed, Mounted
    <3>3. UNCHANGED productCount
      BY <3>1, <3>2 DEF AckCounted
    <3>4. uploaded'[d][g] = uploaded[d][g] + 1
      BY <1>1, <1>2, <1>4, <2>3 DEF Uploads, TypeOK, DeviceTypes
    <3>5. page[d] = "uploading"
      BY <1>2, <2>12
    <3>6. uploaded'[d][g] = Cardinality(o.landed \ Acked(d)')
      BY <2>2, <2>7, <2>9, <2>10, <3>4, <3>5 DEF Underway
    <3> QED BY <2>2, <2>3, <2>4, <2>12, <3>3, <3>5, <3>6 DEF Underway
  <2>13. CASE page'[d] = "status" /\ page[d] = "status"
    BY <2>2, <2>3, <2>4, <2>13 DEF Underway
  <2> QED
    BY <1>2, <1>4, <2>11, <2>12, <2>13 DEF Uploads
<1> QED
  BY <1>3, <1>4

\* An upload that began clean and shows the status page has uploaded its lines.
LEMMA NextClean ==
  TypeOK /\ FreshList /\ ProductCountTracksCart /\ FlightInv /\ CleanInv
    /\ [Next]_vars => CleanInv'
<1> SUFFICES ASSUME TypeOK, FreshList, ProductCountTracksCart, FlightInv, CleanInv,
                    [Next]_vars, NEW d \in Devices
             PROVE  CleanOf(d)'
  BY DEF CleanInv
<1>1. CleanOf(d) /\ FlightOf(d)
  BY DEF CleanInv, FlightInv
<1>2. CASE User(d)
  BY <1>2, NoUpload, ProceedClean DEF User
<1>3. CASE Network(d)
  BY <1>1, <1>3, NetworkClean, LandedClean, AckClean DEF Network
<1>4. CASE Failure(d)
  BY <1>1, <1>4, NetworkClean, NoUpload DEF Failure
<1>5. CASE SameElsewhere(d)
  BY <1>1, <1>5, SameClean
<1> QED
  BY <1>2, <1>3, <1>4, <1>5, OneDevice

\* The success page of an upload that began without left-overs and without
\* another under way stands for a stored figure of every line, however the
\* reads, writes and acknowledgements of the lines are ordered.
THEOREM SuccessUploaded == Spec => []SuccessMeansUploaded
<1>1. Init => CleanInv
  BY DEF Init, CleanInv, CleanOf, Uploads
<1>2. CleanInv => SuccessMeansUploaded
  BY DEF CleanInv, CleanOf, Uploads, OrderOf, Underway, SuccessMeansUploaded
<1> QED
  BY <1>1, <1>2, NextClean, TypeCorrect, ListInvariant, ProductCount,
     FlightInvariant, PTL DEF Spec
=============================================================================
