---------------------- MODULE RequestStockInwardProofs ----------------------
(***************************************************************************)
(* Proofs about RequestStockInward: type correctness, with it that no      *)
(* continuation finds stockInProductToUpdate empty; that the transaction   *)
(* keeps stockInwardTillDate exact for products that did not stray; that   *)
(* the page keeps the promise of InwardLedger; that the day's record adds  *)
(* up where its reads and writes did not overlap; and that no product is   *)
(* credited more than its invoices say.                                    *)
(***************************************************************************)
EXTENDS RequestStockInward, SumTheorems, FiniteSetTheorems, SequenceTheorems,
        TLAPS

\* The clock has a reading of its day.
LEMMA DayType == \A t \in Times : DayOf(t) \in Days
BY DEF Days

\* The initial state is typed.
LEMMA InitType == Init => TypeOK
<1> SUFFICES ASSUME Init PROVE TypeOK
  OBVIOUS
<1>1. DeviceTypes /\ NetworkTypes /\ ChosenWhenNeeded
  BY DEF Init, DeviceTypes, NetworkTypes, ChosenWhenNeeded
<1>2. StoreTypes /\ CountTypes
  BY LimitsAssumption DEF Init, StoreTypes, CountTypes, Times
<1>3. HistoryTypes
  BY DEF Init, HistoryTypes
<1> QED
  BY <1>1, <1>2, <1>3 DEF TypeOK

\* What an action leaves alone keeps its type.
LEMMA UnchangedTypes ==
  ASSUME TypeOK
  PROVE  /\ UNCHANGED deviceVars => DeviceTypes'
         /\ UNCHANGED networkVars => NetworkTypes'
         /\ UNCHANGED storeVars => StoreTypes'
         /\ UNCHANGED <<now, confirms, refusals>> => CountTypes'
         /\ UNCHANGED historyVars => HistoryTypes'
<1>1. UNCHANGED deviceVars => DeviceTypes'
  BY DEF TypeOK, DeviceTypes, deviceVars
<1>2. UNCHANGED networkVars => NetworkTypes'
  BY DEF TypeOK, NetworkTypes, networkVars
<1>3. UNCHANGED storeVars => StoreTypes'
  BY DEF TypeOK, StoreTypes, storeVars
<1>4. UNCHANGED <<now, confirms, refusals>> => CountTypes'
  BY DEF TypeOK, CountTypes
<1>5. UNCHANGED historyVars => HistoryTypes'
  BY DEF TypeOK, HistoryTypes, historyVars
<1> QED
  BY <1>1, <1>2, <1>3, <1>4, <1>5

\* Choosing a product and going back keep every type; a choice never empties
\* the global.
LEMMA PagesType ==
  ASSUME NEW d \in Devices, NEW p \in Products, TypeOK, Choose(d, p) \/ Back(d)
  PROVE  TypeOK'
<1>1. DeviceTypes'
  BY DEF Choose, Back, TypeOK, DeviceTypes
<1>2. ChosenWhenNeeded'
  BY DEF Choose, Back, TypeOK, DeviceTypes, ChosenWhenNeeded, networkVars
<1>3. /\ UNCHANGED networkVars /\ UNCHANGED storeVars
      /\ UNCHANGED <<now, confirms, refusals>> /\ UNCHANGED historyVars
  BY DEF Choose, Back
<1> QED
  BY <1>1, <1>2, <1>3, UnchangedTypes DEF TypeOK

\* CONFIRM sends typed writes and begins a typed read of a chosen product.
LEMMA ConfirmType ==
  ASSUME NEW d \in Devices, NEW qty \in 0 .. MaxQty, TypeOK, Confirm(d, qty)
  PROVE  TypeOK'
<1>1. /\ selected[d] \in Products /\ now \in Times
      /\ qty \in 1 .. MaxQty /\ confirms' \in Ids /\ confirms' \in 0 .. MaxConfirms
  BY LimitsAssumption
  DEF Confirm, Accepted, TypeOK, ChosenWhenNeeded, CountTypes, Ids
<1> DEFINE p == selected[d]
           y == DayOf(now)
           r == [id |-> confirms', sku |-> p, day |-> y, qty |-> qty]
<1>2. y \in Days /\ r \in Read
  BY <1>1, DayType DEF Read
<1>3. ConfirmWrites(p, qty, confirms') \in Seq(Write)
  <2>1. /\ [kind |-> "invoice", id |-> confirms', sku |-> p, qty |-> qty] \in Write
        /\ [kind |-> "details", sku |-> p] \in Write
    BY <1>1 DEF Write
  <2> QED BY <2>1 DEF ConfirmWrites
<1>4. /\ page' = [page EXCEPT ![d] = "status"]
      /\ reads' = [reads EXCEPT ![d] = @ \cup {r}]
      /\ outbox' = [outbox EXCEPT ![d] = @ \o ConfirmWrites(p, qty, confirms')]
      /\ spoiled' = spoiled \cup (IF DayPending(p, y) THEN {<<p, y>>} ELSE {})
      /\ UNCHANGED <<selected, follows, storeVars, now, refusals,
                     ledger, dayLedger, credited, lost, strayed>>
  BY DEF Confirm
<1> HIDE DEF y, r
<1>5. DeviceTypes'
  BY <1>4 DEF TypeOK, DeviceTypes
<1>6. NetworkTypes'
  <2>1. outbox' \in [Devices -> Seq(Write)]
    <3>1. outbox[d] \o ConfirmWrites(p, qty, confirms') \in Seq(Write)
      BY <1>3 DEF TypeOK, NetworkTypes
    <3> QED BY <1>4, <3>1 DEF TypeOK, NetworkTypes
  <2>2. reads' \in [Devices -> SUBSET Read]
    BY <1>2, <1>4 DEF TypeOK, NetworkTypes
  <2> QED BY <1>4, <2>1, <2>2 DEF TypeOK, NetworkTypes
<1>7. CountTypes'
  BY <1>1, <1>4 DEF TypeOK, CountTypes
<1>8. HistoryTypes'
  BY <1>1, <1>2, <1>4 DEF TypeOK, HistoryTypes
<1>9. ChosenWhenNeeded'
  BY <1>1, <1>4 DEF TypeOK, ChosenWhenNeeded, DeviceTypes, NetworkTypes
<1> QED
  BY <1>4, <1>5, <1>6, <1>7, <1>8, <1>9, UnchangedTypes DEF TypeOK

\* A device that has chosen a product keeps its choice; the others keep
\* whatever asks for one.
LEMMA ChosenKept ==
  ASSUME NEW d \in Devices, TypeOK, selected[d] \in Products,
         UNCHANGED deviceVars,
         \A e \in Devices \ {d} : /\ reads'[e] = reads[e]
                                  /\ follows'[e] = follows[e]
                                  /\ outbox'[e] = outbox[e]
  PROVE  ChosenWhenNeeded'
BY DEF TypeOK, ChosenWhenNeeded, deviceVars

\* What once() shows of a day's record is a figure.
LEMMA LocalDayType ==
  ASSUME TypeOK, NEW d \in Devices, NEW p \in Products, NEW y \in Days,
         NEW base \in LocalDay(d, p, y)
  PROVE  base \in Nat
<1> DEFINE pending == {i \in DOMAIN outbox[d] : /\ outbox[d][i].kind = "day"
                                                /\ outbox[d][i].sku = p
                                                /\ outbox[d][i].day = y}
<1>1. CASE pending = {}
  BY <1>1 DEF LocalDay, TypeOK, StoreTypes
<1>2. CASE pending # {}
  <2>1. PICK i \in pending : base = outbox[d][i].total
    BY <1>2 DEF LocalDay
  <2>2. outbox[d] \in Seq(Write) /\ i \in DOMAIN outbox[d]
    BY DEF TypeOK, NetworkTypes
  <2>3. outbox[d][i] \in Write /\ outbox[d][i].kind = "day"
    BY <2>2
  <2> QED BY <2>1, <2>3 DEF Write
<1> QED BY <1>1, <1>2

\* The continuation of the read writes a typed record: the global holds a
\* product.
LEMMA DayAnswerType ==
  ASSUME NEW d \in Devices, NEW r \in reads[d], TypeOK, DayAnswer(d, r)
  PROVE  TypeOK'
<1>1. r \in Read
  BY DEF TypeOK, NetworkTypes
<1>2. /\ selected[d] \in Products /\ DayOf(now) \in Days
      /\ r.sku \in Products /\ r.day \in Days /\ r.qty \in 1 .. MaxQty
  BY <1>1, DayType DEF TypeOK, ChosenWhenNeeded, CountTypes, Read
<1> DEFINE w(base) == [kind |-> "day", sku |-> selected[d], day |-> DayOf(now),
                       qty |-> r.qty, total |-> base + r.qty]
<1>3. PICK base \in LocalDay(d, r.sku, r.day) :
        outbox' = [outbox EXCEPT ![d] = Append(@, w(base))]
  BY DEF DayAnswer, DayTarget
<1>4. base \in Nat
  BY <1>2, LocalDayType
<1>5. w(base) \in Write
  BY <1>2, <1>4, LimitsAssumption DEF Write
<1> HIDE DEF w
<1>6. outbox' \in [Devices -> Seq(Write)]
  <2>1. Append(outbox[d], w(base)) \in Seq(Write)
    BY <1>5 DEF TypeOK, NetworkTypes
  <2> QED BY <1>3, <2>1 DEF TypeOK, NetworkTypes
<1>7. /\ reads' = [reads EXCEPT ![d] = @ \ {r}]
      /\ spoiled' \in SUBSET (Products \X Days)
      /\ UNCHANGED <<deviceVars, follows, storeVars, now, confirms, refusals,
                     ledger, dayLedger, credited, lost, strayed>>
  BY <1>2 DEF DayAnswer, DayTarget, TypeOK, HistoryTypes
<1>8. NetworkTypes'
  BY <1>6, <1>7 DEF TypeOK, NetworkTypes
<1>9. HistoryTypes'
  BY <1>7 DEF TypeOK, HistoryTypes
<1>10. ChosenWhenNeeded'
  BY <1>2, <1>3, <1>7, ChosenKept DEF TypeOK, NetworkTypes
<1> QED
  BY <1>7, <1>8, <1>9, <1>10, UnchangedTypes DEF TypeOK

\* The continuation of the invoice's write credits a product, in typed writes.
LEMMA FollowUpType ==
  ASSUME NEW d \in Devices, NEW f \in follows[d], TypeOK, FollowUp(d, f)
  PROVE  TypeOK'
<1>1. f \in Follow
  BY DEF TypeOK, NetworkTypes
<1>2. /\ selected[d] \in Products
      /\ f.sku \in Products /\ f.qty \in 1 .. MaxQty /\ f.id \in Ids
  BY <1>1 DEF TypeOK, ChosenWhenNeeded, Follow
<1> DEFINE ws == FollowWrites(selected[d], f)
<1>3. ws \in Seq(Write)
  <2>1. /\ [kind |-> "recent", sku |-> selected[d], qty |-> f.qty] \in Write
        /\ [kind |-> "till", id |-> f.id, sku |-> selected[d], qty |-> f.qty,
            for |-> f.sku] \in Write
    BY <1>2 DEF Write
  <2> QED BY <2>1 DEF FollowWrites
<1>4. /\ outbox' = [outbox EXCEPT ![d] = @ \o ws]
      /\ follows' = [follows EXCEPT ![d] = @ \ {f}]
      /\ strayed' \in SUBSET Products
      /\ UNCHANGED <<deviceVars, reads, storeVars, now, confirms, refusals,
                     ledger, dayLedger, credited, lost, spoiled>>
  BY <1>2 DEF FollowUp, FollowTarget, TypeOK, HistoryTypes
<1> HIDE DEF ws
<1>5. outbox[d] \o ws \in Seq(Write)
  BY <1>3 DEF TypeOK, NetworkTypes
<1>6. NetworkTypes'
  BY <1>4, <1>5 DEF TypeOK, NetworkTypes
<1>7. HistoryTypes'
  BY <1>4 DEF TypeOK, HistoryTypes
<1>8. ChosenWhenNeeded'
  BY <1>2, <1>4, ChosenKept DEF TypeOK, NetworkTypes
<1> QED
  BY <1>4, <1>6, <1>7, <1>8, UnchangedTypes DEF TypeOK

\* Taking the oldest write leaves a sequence of writes.
LEMMA TailType ==
  ASSUME NEW d \in Devices, TypeOK, outbox[d] # <<>>,
         outbox' = [outbox EXCEPT ![d] = Tail(@)]
  PROVE  Head(outbox[d]) \in Write /\ outbox' \in [Devices -> Seq(Write)]
<1>1. outbox[d] \in Seq(Write)
  BY DEF TypeOK, NetworkTypes
<1>2. Head(outbox[d]) \in Write /\ Tail(outbox[d]) \in Seq(Write)
  BY <1>1
<1> QED
  BY <1>2 DEF TypeOK, NetworkTypes

\* An invoice the database stores has a typed continuation, on a device that
\* has chosen a product.
LEMMA ApplyInvoiceType ==
  ASSUME NEW d \in Devices, TypeOK, ApplyInvoice(d)
  PROVE  TypeOK'
<1> DEFINE w == Head(outbox[d])
<1>1. /\ w \in Write /\ w.kind = "invoice"
      /\ outbox' \in [Devices -> Seq(Write)]
  BY TailType DEF ApplyInvoice, TakeWrite
<1>2. w.id \in Ids /\ w.sku \in Products /\ w.qty \in 1 .. MaxQty
  BY <1>1 DEF Write
<1>3. /\ invoices' = [invoices EXCEPT ![w.sku][w.id] = w.qty]
      /\ follows' = [follows EXCEPT
                ![d] = @ \cup {[id |-> w.id, sku |-> w.sku, qty |-> w.qty]}]
      /\ UNCHANGED <<deviceVars, reads, till, recent, dayQty, details, now,
                     confirms, refusals, historyVars>>
  BY DEF ApplyInvoice
<1> HIDE DEF w
<1>4. [id |-> w.id, sku |-> w.sku, qty |-> w.qty] \in Follow
  BY <1>2 DEF Follow
<1>5. NetworkTypes'
  BY <1>1, <1>3, <1>4 DEF TypeOK, NetworkTypes
<1>6. StoreTypes'
  BY <1>2, <1>3 DEF TypeOK, StoreTypes
<1>7. ChosenWhenNeeded'
  <2>1. selected[d] \in Products
    BY DEF ApplyInvoice, TakeWrite, TypeOK, ChosenWhenNeeded
  <2> QED
    BY <1>3, <2>1, ChosenKept DEF TypeOK, NetworkTypes, ApplyInvoice, TakeWrite
<1> QED
  BY <1>3, <1>5, <1>6, <1>7, UnchangedTypes DEF TypeOK

\* The other writes the database applies leave typed figures.
LEMMA ApplyOtherType ==
  ASSUME NEW d \in Devices, TypeOK,
         ApplyDetails(d) \/ ApplyDay(d) \/ ApplyRecent(d) \/ ApplyTill(d)
  PROVE  TypeOK'
<1> DEFINE w == Head(outbox[d])
<1>1. /\ w \in Write /\ outbox' \in [Devices -> Seq(Write)]
      /\ outbox[d] # <<>> /\ outbox' = [outbox EXCEPT ![d] = Tail(@)]
      /\ selected[d] \in Products
  BY TailType
  DEF ApplyDetails, ApplyDay, ApplyRecent, ApplyTill, TakeWrite, TypeOK,
      ChosenWhenNeeded
<1>2. UNCHANGED <<deviceVars, reads, follows, now, confirms, refusals>>
  BY DEF ApplyDetails, ApplyDay, ApplyRecent, ApplyTill
<1>3. NetworkTypes'
  BY <1>1, <1>2 DEF TypeOK, NetworkTypes
<1>4. ChosenWhenNeeded'
  BY <1>1, <1>2, ChosenKept DEF TypeOK, NetworkTypes
<1>5. StoreTypes' /\ HistoryTypes'
  <2>1. CASE ApplyDetails(d)
    <3>1. w.kind = "details"
      BY <2>1 DEF ApplyDetails, TakeWrite
    <3>2. w.sku \in Products
      BY <1>1, <3>1 DEF Write
    <3>3. StoreTypes'
      BY <2>1, <3>2 DEF ApplyDetails, TypeOK, StoreTypes
    <3> QED BY <2>1, <3>3, UnchangedTypes DEF ApplyDetails
  <2>2. CASE ApplyDay(d)
    <3>1. w.kind = "day"
      BY <2>2 DEF ApplyDay, TakeWrite
    <3>2. w.sku \in Products /\ w.day \in Days /\ w.total \in Nat /\ w.qty \in 1 .. MaxQty
      BY <1>1, <3>1 DEF Write
    <3>3. /\ dayQty' = [dayQty EXCEPT ![w.sku][w.day] = w.total]
          /\ dayLedger' = [dayLedger EXCEPT ![w.sku][w.day] = @ + w.qty]
          /\ UNCHANGED <<till, recent, invoices, details, ledger, credited,
                         lost, strayed, spoiled>>
      BY <2>2 DEF ApplyDay
    <3> HIDE DEF w
    <3>4. dayLedger[w.sku][w.day] + w.qty \in Nat
      BY <3>2, LimitsAssumption DEF TypeOK, HistoryTypes
    <3>5. StoreTypes'
      BY <3>2, <3>3 DEF TypeOK, StoreTypes
    <3>6. HistoryTypes'
      BY <3>2, <3>3, <3>4 DEF TypeOK, HistoryTypes
    <3> QED BY <3>5, <3>6
  <2>3. CASE ApplyRecent(d)
    <3>1. w.kind = "recent"
      BY <2>3 DEF ApplyRecent, TakeWrite
    <3>2. w.sku \in Products /\ w.qty \in 0 .. MaxQty
      BY <1>1, <3>1 DEF Write
    <3>3. StoreTypes'
      BY <2>3, <3>2 DEF ApplyRecent, TypeOK, StoreTypes
    <3> QED BY <2>3, <3>3, UnchangedTypes DEF ApplyRecent
  <2>4. CASE ApplyTill(d)
    <3>1. w.kind = "till"
      BY <2>4 DEF ApplyTill, TakeWrite
    <3>2. w.sku \in Products /\ w.qty \in Nat /\ w.for \in Products /\ w.id \in Ids
      BY <1>1, <3>1, LimitsAssumption DEF Write
    <3>3. StoreTypes'
      BY <2>4, <3>2 DEF ApplyTill, Credit, TypeOK, StoreTypes
    <3>4. HistoryTypes'
      BY <2>4, <3>2 DEF ApplyTill, TypeOK, HistoryTypes
    <3> QED BY <3>3, <3>4
  <2> QED BY <2>1, <2>2, <2>3, <2>4
<1>6. DeviceTypes' /\ CountTypes'
  BY <1>2, UnchangedTypes
<1> QED
  BY <1>3, <1>4, <1>5, <1>6 DEF TypeOK

\* The confirmations that depend on a set of writes are confirmations.
LEMMA IdsOfType == \A ws \in SUBSET Write : IdsOf(ws) \subseteq Ids
BY DEF IdsOf, Write

\* A refused read or write, and a new process, leave everything typed.
LEMMA FailureType ==
  ASSUME NEW d \in Devices, TypeOK, Failure(d)
  PROVE  TypeOK'
<1>0. \A n \in 0 .. MaxRefusals : n < MaxRefusals => n + 1 \in 0 .. MaxRefusals
  BY LimitsAssumption
<1>1. ASSUME NEW r \in reads[d], RefuseRead(d, r) PROVE TypeOK'
  <2>1. NetworkTypes' /\ CountTypes'
    BY <1>0, <1>1 DEF RefuseRead, TypeOK, NetworkTypes, CountTypes
  <2>2. ChosenWhenNeeded'
    BY <1>1 DEF RefuseRead, TypeOK, NetworkTypes, ChosenWhenNeeded, deviceVars
  <2> QED BY <1>1, <2>1, <2>2, UnchangedTypes DEF RefuseRead, TypeOK
<1>2. CASE RefuseWrite(d)
  <2>1. /\ Head(outbox[d]) \in Write /\ outbox' \in [Devices -> Seq(Write)]
        /\ outbox[d] # <<>> /\ outbox' = [outbox EXCEPT ![d] = Tail(@)]
    BY <1>2, TailType DEF RefuseWrite
  <2>2. NetworkTypes' /\ CountTypes'
    BY <1>0, <1>2, <2>1 DEF RefuseWrite, TypeOK, NetworkTypes, CountTypes
  <2>3. selected[d] \in Products
    BY <2>1 DEF TypeOK, ChosenWhenNeeded
  <2>4. ChosenWhenNeeded'
    BY <1>2, <2>1, <2>3, ChosenKept DEF RefuseWrite, TypeOK, NetworkTypes
  <2>5. IdsOf({Head(outbox[d])}) \subseteq Ids
    BY <2>1, IdsOfType
  <2>6. HistoryTypes'
    BY <1>2, <2>5 DEF RefuseWrite, TypeOK, HistoryTypes
  <2> QED
    BY <1>2, <2>2, <2>4, <2>6, UnchangedTypes DEF RefuseWrite, TypeOK
<1>3. CASE Restart(d)
  <2>1. DeviceTypes' /\ NetworkTypes'
    BY <1>3 DEF Restart, TypeOK, DeviceTypes, NetworkTypes
  <2>2. ChosenWhenNeeded'
    BY <1>3 DEF Restart, TypeOK, DeviceTypes, NetworkTypes, ChosenWhenNeeded
  <2>3. Range(outbox[d]) \subseteq Write
    <3>1. outbox[d] \in Seq(Write)
      BY DEF TypeOK, NetworkTypes
    <3> QED BY <3>1 DEF Range
  <2>4. {f.id : f \in follows[d]} \subseteq Ids
    BY DEF TypeOK, NetworkTypes, Follow
  <2>5. HistoryTypes'
    BY <1>3, <2>3, <2>4, IdsOfType DEF Restart, TypeOK, HistoryTypes
  <2> QED
    BY <1>3, <2>1, <2>2, <2>5, UnchangedTypes DEF Restart, TypeOK
<1> QED
  BY <1>1, <1>2, <1>3 DEF Failure

\* The clock, and a stutter, keep every type.
LEMMA TickType == TypeOK /\ (Tick \/ UNCHANGED vars) => TypeOK'
<1> SUFFICES ASSUME TypeOK, Tick \/ UNCHANGED vars PROVE TypeOK'
  OBVIOUS
<1>1. /\ UNCHANGED deviceVars /\ UNCHANGED networkVars /\ UNCHANGED storeVars
      /\ UNCHANGED historyVars
  BY DEF Tick, vars
<1>2. CountTypes'
  BY LimitsAssumption DEF Tick, vars, TypeOK, CountTypes, Times
<1>3. ChosenWhenNeeded'
  BY <1>1 DEF TypeOK, ChosenWhenNeeded, deviceVars, networkVars
<1> QED
  BY <1>1, <1>2, <1>3, UnchangedTypes DEF TypeOK

\* Every step keeps every type.
LEMMA NextType == TypeOK /\ [Next]_vars => TypeOK'
<1> SUFFICES ASSUME TypeOK, [Next]_vars PROVE TypeOK'
  OBVIOUS
<1>1. ASSUME NEW d \in Devices, User(d) PROVE TypeOK'
  <2>1. CASE Back(d)
    <3>1. DeviceTypes' /\ ChosenWhenNeeded'
      BY <2>1 DEF Back, TypeOK, DeviceTypes, ChosenWhenNeeded, networkVars
    <3> QED BY <2>1, <3>1, UnchangedTypes DEF Back, TypeOK
  <2> QED BY <1>1, <2>1, PagesType, ConfirmType DEF User
<1>2. ASSUME NEW d \in Devices, Network(d) PROVE TypeOK'
  BY <1>2, DayAnswerType, FollowUpType, ApplyInvoiceType, ApplyOtherType
  DEF Network
<1> QED
  BY <1>1, <1>2, FailureType, TickType DEF Next

\* Every reachable state is typed, for any devices, products and bounds; no
\* continuation finds stockInProductToUpdate empty.
THEOREM TypeCorrect == Spec => []TypeOK
<1>1. Init => TypeOK
  BY InitType
<1>2. TypeOK /\ [Next]_vars => TypeOK'
  BY NextType
<1> QED
  BY <1>1, <1>2, PTL DEF Spec

-----------------------------------------------------------------------------
(* The ledger.  What makes the figure exact is that a transaction on its   *)
(* way credits the product that was confirmed, or both products strayed.   *)

CreditsOwnOrStrayed ==
    \A d \in Devices : \A i \in DOMAIN outbox[d] :
        outbox[d][i].kind = "till" =>
            \/ outbox[d][i].sku = outbox[d][i].for
            \/ {outbox[d][i].sku, outbox[d][i].for} \subseteq strayed

LedgerInv == TypeOK /\ CreditsOwnOrStrayed /\ TillExactUnlessReselected

\* Nothing is under way in the initial state.
LEMMA InitLedger == Init => LedgerInv
BY InitType DEF Init, LedgerInv, CreditsOwnOrStrayed, TillExactUnlessReselected

\* Writes that are no transactions may be appended to an outbox.
LEMMA AppendedCredits ==
  ASSUME CreditsOwnOrStrayed, TypeOK, NEW d \in Devices, NEW ws \in Seq(Write),
         outbox' = [outbox EXCEPT ![d] = @ \o ws],
         strayed \subseteq strayed',
         \A k \in DOMAIN ws : ws[k].kind = "till" =>
            \/ ws[k].sku = ws[k].for
            \/ {ws[k].sku, ws[k].for} \subseteq strayed'
  PROVE  CreditsOwnOrStrayed'
<1> SUFFICES ASSUME NEW e \in Devices, NEW i \in DOMAIN outbox'[e],
                    outbox'[e][i].kind = "till"
             PROVE  \/ outbox'[e][i].sku = outbox'[e][i].for
                    \/ {outbox'[e][i].sku, outbox'[e][i].for} \subseteq strayed'
  BY DEF CreditsOwnOrStrayed
<1>1. outbox[d] \in Seq(Write) /\ outbox \in [Devices -> Seq(Write)]
  BY DEF TypeOK, NetworkTypes
<1>2. CASE e # d
  BY <1>1, <1>2 DEF CreditsOwnOrStrayed
<1>3. CASE e = d
  <2>1. outbox'[d] = outbox[d] \o ws
    BY <1>1
  <2>2. CASE i \in 1 .. Len(outbox[d])
    <3>1. outbox'[d][i] = outbox[d][i] /\ i \in DOMAIN outbox[d]
      BY <1>1, <2>1, <2>2
    <3> QED BY <1>3, <3>1 DEF CreditsOwnOrStrayed
  <2>3. CASE i \notin 1 .. Len(outbox[d])
    <3> DEFINE k == i - Len(outbox[d])
    <3>1. outbox'[d][i] = ws[k] /\ k \in DOMAIN ws
      BY <1>1, <1>3, <2>1, <2>3
    <3> QED BY <1>3, <3>1
  <2> QED BY <2>2, <2>3
<1> QED BY <1>2, <1>3

\* The oldest write may be taken from an outbox, or all of them.
LEMMA TakenCredits ==
  ASSUME CreditsOwnOrStrayed, TypeOK, NEW d \in Devices,
         \/ outbox[d] # <<>> /\ outbox' = [outbox EXCEPT ![d] = Tail(@)]
         \/ outbox' = [outbox EXCEPT ![d] = <<>>],
         UNCHANGED strayed
  PROVE  CreditsOwnOrStrayed'
<1> SUFFICES ASSUME NEW e \in Devices, NEW i \in DOMAIN outbox'[e],
                    outbox'[e][i].kind = "till"
             PROVE  \/ outbox'[e][i].sku = outbox'[e][i].for
                    \/ {outbox'[e][i].sku, outbox'[e][i].for} \subseteq strayed'
  BY DEF CreditsOwnOrStrayed
<1>1. outbox[d] \in Seq(Write) /\ outbox \in [Devices -> Seq(Write)]
  BY DEF TypeOK, NetworkTypes
<1>2. CASE e # d
  BY <1>1, <1>2 DEF CreditsOwnOrStrayed
<1>3. CASE e = d
  <2>1. outbox[d] # <<>> /\ outbox'[d] = Tail(outbox[d])
    BY <1>1, <1>3
  <2>2. outbox'[d][i] = outbox[d][i + 1] /\ i + 1 \in DOMAIN outbox[d]
    BY <1>1, <1>3, <2>1
  <2> QED BY <1>3, <2>2 DEF CreditsOwnOrStrayed
<1> QED BY <1>2, <1>3

\* The figure, or the history, of other writes does not concern the ledger.
LEMMA SameLedger ==
  ASSUME LedgerInv, TypeOK', CreditsOwnOrStrayed',
         UNCHANGED <<till, ledger>>, strayed \subseteq strayed'
  PROVE  LedgerInv'
BY DEF LedgerInv, TillExactUnlessReselected

\* A transaction adds its units to the product it stands for, or both strayed.
LEMMA ApplyTillLedger ==
  ASSUME NEW d \in Devices, LedgerInv, TypeOK', ApplyTill(d)
  PROVE  LedgerInv' /\ Ledger!Next
<1> DEFINE w == Head(outbox[d])
<1>1. /\ outbox[d] \in Seq(Write) /\ outbox[d] # <<>>
      /\ w \in Write /\ w.kind = "till" /\ w = outbox[d][1] /\ 1 \in DOMAIN outbox[d]
  BY DEF ApplyTill, TakeWrite, LedgerInv, TypeOK, NetworkTypes
<1>2. w.sku \in Products /\ w.for \in Products /\ w.qty \in 1 .. MaxQty
  BY <1>1 DEF Write
<1>3. w.sku = w.for \/ {w.sku, w.for} \subseteq strayed
  BY <1>1 DEF LedgerInv, CreditsOwnOrStrayed
<1>4. /\ till' = [till EXCEPT ![w.sku] = @ + w.qty]
      /\ ledger' = [ledger EXCEPT ![w.for] = @ + w.qty]
      /\ UNCHANGED strayed
  BY DEF ApplyTill, Credit
<1>5. /\ till \in [Products -> Nat] /\ ledger \in [Products -> Nat]
      /\ till' \in [Products -> Nat]
  BY DEF LedgerInv, TypeOK, StoreTypes, HistoryTypes
<1>6. CreditsOwnOrStrayed'
  BY <1>4, TakenCredits DEF ApplyTill, TakeWrite, LedgerInv
<1> HIDE DEF w
<1>7. TillExactUnlessReselected'
  <2> SUFFICES ASSUME NEW p \in Products \ strayed PROVE till'[p] = ledger'[p]
    BY <1>4 DEF TillExactUnlessReselected
  <2>1. till[p] = ledger[p]
    BY DEF LedgerInv, TillExactUnlessReselected
  <2>2. p = w.sku <=> p = w.for
    BY <1>3
  <2>3. CASE p = w.sku
    BY <1>2, <1>4, <1>5, <2>1, <2>2, <2>3
  <2>4. CASE p # w.sku
    BY <1>2, <1>4, <1>5, <2>1, <2>2, <2>4
  <2> QED BY <2>3, <2>4
<1>8. Ledger!Next
  <2>1. CASE w.for \notin strayed
    <3>1. w.sku = w.for
      BY <1>3, <2>1
    <3>2. Ledger!Record(w.for, w.qty)
      BY <1>4, <2>1, <3>1 DEF Ledger!Record
    <3> QED BY <1>2, <3>2 DEF Ledger!Next
  <2>2. CASE w.for \in strayed
    <3>1. w.sku \in strayed
      BY <1>3, <2>2
    <3>2. \A q \in Products \ strayed : till'[q] = till[q]
      BY <1>4, <1>5, <3>1
    <3>3. Ledger!RecordStale(w.for, w.qty)
      BY <1>4, <1>5, <2>2, <3>2 DEF Ledger!RecordStale
    <3> QED BY <1>2, <3>3 DEF Ledger!Next
  <2> QED BY <2>1, <2>2
<1> QED
  BY <1>6, <1>7, <1>8 DEF LedgerInv

\* The continuation of an invoice's write sends a transaction of the ledger's
\* kind, and both products strayed if it is not the confirmed one.
LEMMA FollowUpLedger ==
  ASSUME NEW d \in Devices, NEW f \in follows[d], LedgerInv, TypeOK',
         FollowUp(d, f)
  PROVE  LedgerInv' /\ Ledger!Contend
<1> DEFINE p == selected[d]
           ws == FollowWrites(p, f)
<1>1. f \in Follow /\ p \in Products
  BY DEF LedgerInv, TypeOK, NetworkTypes, ChosenWhenNeeded
<1>2. /\ outbox' = [outbox EXCEPT ![d] = @ \o ws]
      /\ strayed' = strayed \cup (IF p = f.sku THEN {} ELSE {p, f.sku})
      /\ UNCHANGED <<till, ledger>>
  BY DEF FollowUp, FollowTarget, storeVars
<1>3. /\ ws \in Seq(Write) /\ Len(ws) = 2 /\ ws[1].kind = "recent"
      /\ ws[2].kind = "till" /\ ws[2].sku = p /\ ws[2].for = f.sku
  <2>1. /\ [kind |-> "recent", sku |-> p, qty |-> f.qty] \in Write
        /\ [kind |-> "till", id |-> f.id, sku |-> p, qty |-> f.qty,
            for |-> f.sku] \in Write
    BY <1>1 DEF Write, Follow
  <2> QED BY <2>1 DEF FollowWrites
<1>4. \A k \in DOMAIN ws : ws[k].kind = "till" =>
            \/ ws[k].sku = ws[k].for
            \/ {ws[k].sku, ws[k].for} \subseteq strayed'
  <2> SUFFICES ASSUME NEW k \in DOMAIN ws, ws[k].kind = "till"
               PROVE  ws[k].sku = ws[k].for \/ {ws[k].sku, ws[k].for} \subseteq strayed'
    OBVIOUS
  <2>1. k = 2
    BY <1>3
  <2> QED BY <1>2, <1>3, <2>1
<1> HIDE DEF ws
<1>5. CreditsOwnOrStrayed'
  BY <1>2, <1>3, <1>4, AppendedCredits DEF LedgerInv
<1>6. strayed \subseteq strayed' /\ strayed' \subseteq Products
  BY <1>2 DEF TypeOK, HistoryTypes
<1> QED
  BY <1>2, <1>5, <1>6, SameLedger DEF Ledger!Contend

\* CONFIRM sends no transaction.
LEMMA ConfirmLedger ==
  ASSUME NEW d \in Devices, NEW qty \in 0 .. MaxQty, LedgerInv, TypeOK',
         Confirm(d, qty)
  PROVE  LedgerInv' /\ UNCHANGED <<till, ledger, strayed>>
<1> DEFINE p == selected[d]
           ws == ConfirmWrites(p, qty, confirms')
<1>1. /\ p \in Products /\ qty \in 1 .. MaxQty /\ confirms' \in Ids
  BY LimitsAssumption
  DEF Confirm, Accepted, LedgerInv, TypeOK, ChosenWhenNeeded, CountTypes, Ids
<1>2. /\ outbox' = [outbox EXCEPT ![d] = @ \o ws]
      /\ UNCHANGED <<till, ledger, strayed>>
  BY DEF Confirm, storeVars
<1>3. /\ ws \in Seq(Write) /\ Len(ws) = 2
      /\ ws[1].kind = "invoice" /\ ws[2].kind = "details"
  <2>1. /\ [kind |-> "invoice", id |-> confirms', sku |-> p, qty |-> qty] \in Write
        /\ [kind |-> "details", sku |-> p] \in Write
    BY <1>1 DEF Write
  <2> QED BY <2>1 DEF ConfirmWrites
<1> HIDE DEF ws
<1>4. \A k \in DOMAIN ws : ws[k].kind # "till"
  <2> SUFFICES ASSUME NEW k \in DOMAIN ws PROVE ws[k].kind # "till"
    OBVIOUS
  <2>1. k = 1 \/ k = 2
    BY <1>3
  <2> QED BY <1>3, <2>1
<1>5. CreditsOwnOrStrayed'
  BY <1>2, <1>3, <1>4, AppendedCredits DEF LedgerInv
<1> QED
  BY <1>2, <1>5, SameLedger

\* The continuation of the day's read sends no transaction.
LEMMA DayAnswerLedger ==
  ASSUME NEW d \in Devices, NEW r \in reads[d], LedgerInv, TypeOK',
         DayAnswer(d, r)
  PROVE  LedgerInv' /\ UNCHANGED <<till, ledger, strayed>>
<1>1. /\ selected[d] \in Products /\ DayOf(now) \in Days
      /\ r.sku \in Products /\ r.day \in Days /\ r.qty \in 1 .. MaxQty
  BY DayType
  DEF LedgerInv, TypeOK, NetworkTypes, ChosenWhenNeeded, CountTypes, Read
<1> DEFINE w(base) == [kind |-> "day", sku |-> selected[d], day |-> DayOf(now),
                       qty |-> r.qty, total |-> base + r.qty]
<1>2. PICK base \in LocalDay(d, r.sku, r.day) :
        outbox' = [outbox EXCEPT ![d] = Append(@, w(base))]
  BY DEF DayAnswer, DayTarget
<1>3. base \in Nat
  BY <1>1, LocalDayType DEF LedgerInv
<1>4. w(base) \in Write /\ w(base).kind = "day"
  BY <1>1, <1>3, LimitsAssumption DEF Write
<1> HIDE DEF w
<1> DEFINE ws == <<w(base)>>
<1>5. outbox' = [outbox EXCEPT ![d] = @ \o ws]
  <2>1. outbox[d] \in Seq(Write)
    BY DEF LedgerInv, TypeOK, NetworkTypes
  <2>2. Append(outbox[d], w(base)) = outbox[d] \o <<w(base)>>
    BY <1>4, <2>1
  <2> QED BY <1>2, <2>2
<1>6. ws \in Seq(Write) /\ \A k \in DOMAIN ws : ws[k].kind # "till"
  BY <1>4
<1>7. UNCHANGED <<till, ledger, strayed>>
  BY DEF DayAnswer, storeVars
<1> HIDE DEF ws
<1>8. CreditsOwnOrStrayed'
  BY <1>5, <1>6, <1>7, AppendedCredits DEF LedgerInv
<1> QED
  BY <1>7, <1>8, SameLedger

\* A write that is no transaction, a refusal and a new process take writes
\* from an outbox and credit nothing.
LEMMA TakenLedger ==
  ASSUME NEW d \in Devices, LedgerInv, TypeOK',
         \/ ApplyInvoice(d) \/ ApplyDetails(d) \/ ApplyDay(d) \/ ApplyRecent(d)
         \/ RefuseWrite(d) \/ Restart(d)
  PROVE  LedgerInv' /\ UNCHANGED <<till, ledger, strayed>>
<1>1. UNCHANGED <<till, ledger, strayed>>
  BY DEF ApplyInvoice, ApplyDetails, ApplyDay, ApplyRecent, RefuseWrite,
         Restart, storeVars, historyVars
<1>2. \/ outbox[d] # <<>> /\ outbox' = [outbox EXCEPT ![d] = Tail(@)]
      \/ outbox' = [outbox EXCEPT ![d] = <<>>]
  BY DEF ApplyInvoice, ApplyDetails, ApplyDay, ApplyRecent, RefuseWrite,
         Restart, TakeWrite
<1>3. CreditsOwnOrStrayed'
  BY <1>1, <1>2, TakenCredits DEF LedgerInv
<1> QED
  BY <1>1, <1>3, SameLedger

\* The pages, a refused read, the clock and a stutter leave every outbox.
LEMMA IdleLedger ==
  ASSUME LedgerInv, TypeOK', UNCHANGED <<outbox, till, ledger, strayed>>
  PROVE  LedgerInv'
BY SameLedger DEF LedgerInv, CreditsOwnOrStrayed

\* Every step keeps the ledger's invariant, and is a step of InwardLedger.
LEMMA NextLedger ==
  LedgerInv /\ [Next]_vars => LedgerInv' /\ [Ledger!Next]_(Ledger!vars)
<1> SUFFICES ASSUME LedgerInv, [Next]_vars
             PROVE  LedgerInv' /\ [Ledger!Next]_(Ledger!vars)
  OBVIOUS
<1>0. TypeOK'
  BY NextType DEF LedgerInv
<1> DEFINE Quiet == LedgerInv' /\ UNCHANGED <<till, ledger, strayed>>
<1>1. Quiet => LedgerInv' /\ [Ledger!Next]_(Ledger!vars)
  BY DEF Ledger!vars
<1> HIDE DEF Quiet
<1>2. ASSUME NEW d \in Devices, User(d) PROVE Quiet
  <2>1. ASSUME NEW p \in Products, Choose(d, p) PROVE Quiet
    BY <1>0, <2>1, IdleLedger
    DEF Choose, Quiet, networkVars, storeVars, historyVars
  <2>2. CASE Back(d)
    BY <1>0, <2>2, IdleLedger
    DEF Back, Quiet, networkVars, storeVars, historyVars
  <2>3. ASSUME NEW qty \in 0 .. MaxQty, Confirm(d, qty) PROVE Quiet
    BY <1>0, <2>3, ConfirmLedger DEF Quiet
  <2> QED BY <1>2, <2>1, <2>2, <2>3 DEF User
<1>3. ASSUME NEW d \in Devices, Network(d)
      PROVE  LedgerInv' /\ [Ledger!Next]_(Ledger!vars)
  <2>1. ASSUME NEW r \in reads[d], DayAnswer(d, r) PROVE Quiet
    BY <1>0, <2>1, DayAnswerLedger DEF Quiet
  <2>2. ASSUME NEW f \in follows[d], FollowUp(d, f)
        PROVE  LedgerInv' /\ [Ledger!Next]_(Ledger!vars)
    BY <1>0, <2>2, FollowUpLedger DEF Ledger!Next
  <2>3. CASE ApplyInvoice(d) \/ ApplyDetails(d) \/ ApplyDay(d) \/ ApplyRecent(d)
    BY <1>0, <1>1, <2>3, TakenLedger DEF Quiet
  <2>4. CASE ApplyTill(d)
    BY <1>0, <2>4, ApplyTillLedger
  <2> QED BY <1>1, <1>3, <2>1, <2>2, <2>3, <2>4 DEF Network
<1>4. ASSUME NEW d \in Devices, Failure(d) PROVE Quiet
  <2>1. ASSUME NEW r \in reads[d], RefuseRead(d, r) PROVE Quiet
    BY <1>0, <2>1, IdleLedger DEF RefuseRead, Quiet, storeVars, historyVars
  <2> QED BY <1>0, <1>4, <2>1, TakenLedger DEF Failure, Quiet
<1>5. CASE Tick \/ UNCHANGED vars
  <2>1. UNCHANGED <<outbox, till, ledger, strayed>>
    BY <1>5 DEF Tick, vars, networkVars, storeVars, historyVars
  <2>2. Quiet
    BY <1>0, <2>1, IdleLedger DEF Quiet
  <2> QED BY <1>1, <2>2
<1> QED
  BY <1>1, <1>2, <1>3, <1>4, <1>5 DEF Next

\* On any number of devices, stockInwardTillDate of a product is the sum of
\* the confirmations credited, unless a choice strayed.
THEOREM LedgerExact == Spec => []TillExactUnlessReselected
<1>1. Init => LedgerInv
  BY InitLedger
<1>2. LedgerInv /\ [Next]_vars => LedgerInv'
  BY NextLedger
<1>3. LedgerInv => TillExactUnlessReselected
  BY DEF LedgerInv
<1> QED
  BY <1>1, <1>2, <1>3, PTL DEF Spec

\* The page keeps the promise it shares with the cart's upload.
THEOREM Refinement == Spec => ImplementsLedger
<1>1. Init => LedgerInv /\ Ledger!Init
  BY InitLedger DEF Init, Ledger!Init
<1>2. LedgerInv /\ [Next]_vars => LedgerInv' /\ [Ledger!Next]_(Ledger!vars)
  BY NextLedger
<1> QED
  BY <1>1, <1>2, PTL DEF Spec, Ledger!Spec, ImplementsLedger

-----------------------------------------------------------------------------
(* The day's record.                                                       *)

\* A read, or the i-th write of an outbox, of the record of p on day y.
DayRead(d, r, p, y) == r \in reads[d] /\ r.sku = p /\ r.day = y

IsDayWrite(w, p, y) == w.kind = "day" /\ w.sku = p /\ w.day = y

DayWrite(d, i, p, y) ==
    i \in DOMAIN outbox[d] /\ IsDayWrite(outbox[d][i], p, y)

\* The record has at most one read or write under way, on all devices
\* together; the write adds its units to the figure stored, and the figure is
\* the sum of what was applied.
OneRead(p, y) ==
    \A d, e \in Devices : \A r, s :
       DayRead(d, r, p, y) /\ DayRead(e, s, p, y) => d = e /\ r = s

OneWrite(p, y) ==
    \A d, e \in Devices : \A i, j :
       DayWrite(d, i, p, y) /\ DayWrite(e, j, p, y) => d = e /\ i = j

ReadOrWrite(p, y) ==
    \A d, e \in Devices : \A r, i :
       ~(DayRead(d, r, p, y) /\ DayWrite(e, i, p, y))

TotalAdds(p, y) ==
    \A d \in Devices : \A i : DayWrite(d, i, p, y) =>
       outbox[d][i].total = dayQty[p][y] + outbox[d][i].qty

Serial(p, y) ==
    /\ OneRead(p, y) /\ OneWrite(p, y) /\ ReadOrWrite(p, y)
    /\ TotalAdds(p, y)
    /\ dayQty[p][y] = dayLedger[p][y]

SerialInv ==
    \A p \in Products, y \in Days : <<p, y>> \notin spoiled => Serial(p, y)

\* A step that begins no read and sends no write of the record, and leaves its
\* figures, keeps it serial.
LEMMA KeepsSerial ==
  ASSUME NEW p, NEW y, Serial(p, y),
         dayQty'[p][y] = dayQty[p][y], dayLedger'[p][y] = dayLedger[p][y],
         \A e \in Devices : \A r : DayRead(e, r, p, y)' => DayRead(e, r, p, y),
         \A e \in Devices : \A i : DayWrite(e, i, p, y)' =>
            /\ i \in Nat /\ DayWrite(e, i, p, y)
            /\ outbox'[e][i] = outbox[e][i]
  PROVE  Serial(p, y)'
<1>1. OneRead(p, y)' /\ OneWrite(p, y)' /\ ReadOrWrite(p, y)'
  BY DEF OneRead, OneWrite, ReadOrWrite, Serial
<1>2. TotalAdds(p, y)'
  BY DEF TotalAdds, Serial
<1> QED BY <1>1, <1>2 DEF Serial

\* So does one that takes the oldest write of a device: its others move up.
LEMMA KeepsSerialTaken ==
  ASSUME NEW p, NEW y, Serial(p, y), NEW d \in Devices,
         dayQty'[p][y] = dayQty[p][y], dayLedger'[p][y] = dayLedger[p][y],
         \A e \in Devices : \A r : DayRead(e, r, p, y)' => DayRead(e, r, p, y),
         \A e \in Devices : \A i : DayWrite(e, i, p, y)' =>
            LET k == IF e = d THEN i + 1 ELSE i IN
            /\ i \in Nat /\ DayWrite(e, k, p, y)
            /\ outbox'[e][i] = outbox[e][k]
  PROVE  Serial(p, y)'
<1>1. OneRead(p, y)'
  BY DEF OneRead, Serial
<1>2. OneWrite(p, y)'
  <2> SUFFICES ASSUME NEW e \in Devices, NEW f \in Devices, NEW i, NEW j,
                      DayWrite(e, i, p, y)', DayWrite(f, j, p, y)'
               PROVE  e = f /\ i = j
    BY DEF OneWrite
  <2>1. /\ i \in Nat /\ DayWrite(e, IF e = d THEN i + 1 ELSE i, p, y)
        /\ j \in Nat /\ DayWrite(f, IF f = d THEN j + 1 ELSE j, p, y)
    OBVIOUS
  <2>2. /\ e = f
        /\ (IF e = d THEN i + 1 ELSE i) = (IF f = d THEN j + 1 ELSE j)
    BY <2>1 DEF Serial, OneWrite
  <2> QED BY <2>1, <2>2
<1>3. ReadOrWrite(p, y)'
  BY DEF ReadOrWrite, Serial
<1>4. TotalAdds(p, y)'
  <2> SUFFICES ASSUME NEW e \in Devices, NEW i, DayWrite(e, i, p, y)'
               PROVE  outbox'[e][i].total = dayQty'[p][y] + outbox'[e][i].qty
    BY DEF TotalAdds
  <2> DEFINE k == IF e = d THEN i + 1 ELSE i
  <2>1. DayWrite(e, k, p, y) /\ outbox'[e][i] = outbox[e][k]
    OBVIOUS
  <2> QED BY <2>1 DEF Serial, TotalAdds
<1> QED BY <1>1, <1>2, <1>3, <1>4 DEF Serial

\* Writes appended to an outbox, none of them of the record, and the oldest
\* write taken from one.
Sends(d, ws) ==
    /\ ws \in Seq(Write)
    /\ outbox'[d] = outbox[d] \o ws
    /\ \A e \in Devices : e # d => outbox'[e] = outbox[e]

NoneOf(ws, p, y) == \A k \in DOMAIN ws : ~IsDayWrite(ws[k], p, y)

\* Writes appended to a queue add their writes of the day's record to it.
LEMMA AppendedDays ==
  ASSUME TypeOK, NEW d \in Devices, NEW ws, NEW p, NEW y,
         Sends(d, ws), NoneOf(ws, p, y),
         NEW e \in Devices, NEW i, DayWrite(e, i, p, y)'
  PROVE  /\ i \in Nat /\ DayWrite(e, i, p, y)
         /\ outbox'[e][i] = outbox[e][i]
<1>1. outbox[e] \in Seq(Write) /\ outbox[d] \in Seq(Write)
  BY DEF TypeOK, NetworkTypes
<1>2. i \in DOMAIN outbox'[e] /\ IsDayWrite(outbox'[e][i], p, y)
  BY DEF DayWrite, IsDayWrite
<1>3. CASE e = d
  <2>1. outbox'[e] = outbox[e] \o ws
    BY <1>3 DEF Sends
  <2>2. i \in 1 .. Len(outbox[e]) + Len(ws)
    BY <1>1, <1>2, <2>1 DEF Sends
  <2>3. CASE i <= Len(outbox[e])
    <3>1. i \in DOMAIN outbox[e] /\ outbox'[e][i] = outbox[e][i]
      BY <1>1, <2>1, <2>2, <2>3 DEF Sends
    <3> QED BY <1>2, <2>2, <3>1 DEF DayWrite
  <2>4. CASE i > Len(outbox[e])
    <3>1. /\ i - Len(outbox[e]) \in DOMAIN ws
          /\ outbox'[e][i] = ws[i - Len(outbox[e])]
      BY <1>1, <2>1, <2>2, <2>4 DEF Sends
    <3> QED BY <1>2, <3>1 DEF NoneOf
  <2> QED BY <1>1, <2>2, <2>3, <2>4
<1>4. CASE e # d
  <2>1. outbox'[e] = outbox[e]
    BY <1>4 DEF Sends
  <2> QED BY <1>1, <1>2, <2>1 DEF DayWrite
<1> QED BY <1>3, <1>4

\* Applying the head of a queue takes away at most one write of the day's record.
LEMMA TakenDays ==
  ASSUME TypeOK, NEW d \in Devices, NEW p, NEW y, outbox[d] # <<>>,
         outbox' = [outbox EXCEPT ![d] = Tail(@)],
         NEW e \in Devices, NEW i, DayWrite(e, i, p, y)'
  PROVE  LET k == IF e = d THEN i + 1 ELSE i IN
         /\ i \in Nat /\ DayWrite(e, k, p, y)
         /\ outbox'[e][i] = outbox[e][k]
         /\ e = d => k > 1
<1>1. outbox[e] \in Seq(Write) /\ outbox[d] \in Seq(Write)
  BY DEF TypeOK, NetworkTypes
<1>2. i \in DOMAIN outbox'[e] /\ IsDayWrite(outbox'[e][i], p, y)
  BY DEF DayWrite, IsDayWrite
<1>3. CASE e = d
  <2>1. outbox'[e] = Tail(outbox[e])
    BY <1>3 DEF TypeOK, NetworkTypes
  <2>2. outbox[e] # <<>> /\ i \in DOMAIN Tail(outbox[e])
    BY <1>2, <1>3, <2>1
  <2>3. /\ i \in Nat /\ i + 1 > 1 /\ i + 1 \in DOMAIN outbox[e]
        /\ Tail(outbox[e])[i] = outbox[e][i + 1]
    BY <1>1, <2>2
  <2> QED BY <1>2, <1>3, <2>1, <2>3 DEF DayWrite
<1>4. CASE e # d
  <2>1. outbox'[e] = outbox[e]
    BY <1>4 DEF TypeOK, NetworkTypes
  <2> QED BY <1>1, <1>2, <1>4, <2>1 DEF DayWrite
<1> QED BY <1>3, <1>4

\* Steps that leave the outboxes, or give a device an empty one, and begin no
\* read.
LEMMA IdleSerial ==
  ASSUME TypeOK, SerialInv, UNCHANGED <<dayQty, dayLedger, spoiled>>,
         \A e \in Devices : /\ reads'[e] \subseteq reads[e]
                           /\ outbox'[e] \in {outbox[e], <<>>}
  PROVE  SerialInv'
<1> SUFFICES ASSUME NEW p \in Products, NEW y \in Days, <<p, y>> \notin spoiled'
             PROVE  Serial(p, y)'
  BY DEF SerialInv
<1>1. Serial(p, y)
  BY DEF SerialInv
<1>2. \A e \in Devices : \A r : DayRead(e, r, p, y)' => DayRead(e, r, p, y)
  BY DEF DayRead
<1>3. ASSUME NEW e \in Devices, NEW i, DayWrite(e, i, p, y)'
      PROVE  /\ i \in Nat /\ DayWrite(e, i, p, y)
             /\ outbox'[e][i] = outbox[e][i]
  <2>1. outbox'[e] = outbox[e] \/ outbox'[e] = <<>>
    OBVIOUS
  <2>2. outbox'[e] = outbox[e] /\ outbox[e] \in Seq(Write)
    BY <1>3, <2>1 DEF DayWrite, TypeOK, NetworkTypes
  <2> QED BY <1>3, <2>2 DEF DayWrite
<1>4. dayQty'[p][y] = dayQty[p][y] /\ dayLedger'[p][y] = dayLedger[p][y]
  OBVIOUS
<1> QED BY <1>1, <1>2, <1>3, <1>4, KeepsSerial

\* CONFIRM begins a read of a record only if none is under way, or spoils it.
LEMMA ConfirmSerial ==
  ASSUME TypeOK, SerialInv, NEW d \in Devices, NEW qty \in 0 .. MaxQty,
         Confirm(d, qty)
  PROVE  SerialInv'
<1> PICK c, z : c = selected[d] /\ z = DayOf(now)
  OBVIOUS
<1> PICK new : new = [id |-> confirms', sku |-> c, day |-> z, qty |-> qty]
  OBVIOUS
<1> PICK ws : ws = ConfirmWrites(c, qty, confirms')
  OBVIOUS
<1>1. /\ reads' = [reads EXCEPT ![d] = @ \cup {new}]
      /\ outbox' = [outbox EXCEPT ![d] = @ \o ws]
      /\ spoiled' = spoiled \cup (IF DayPending(c, z) THEN {<<c, z>>} ELSE {})
      /\ UNCHANGED <<dayQty, dayLedger>>
  BY DEF Confirm, storeVars
<1>2. /\ c \in Products /\ qty \in 1 .. MaxQty /\ confirms' \in Ids
  BY LimitsAssumption
  DEF Confirm, Accepted, TypeOK, ChosenWhenNeeded, CountTypes, Ids
<1>3. ws \in Seq(Write) /\ \A k \in DOMAIN ws : ws[k].kind # "day"
  <2>1. /\ [kind |-> "invoice", id |-> confirms', sku |-> c, qty |-> qty] \in Write
        /\ [kind |-> "details", sku |-> c] \in Write
    BY <1>2 DEF Write
  <2> QED BY <2>1 DEF ConfirmWrites
<1> SUFFICES ASSUME NEW p \in Products, NEW y \in Days, <<p, y>> \notin spoiled'
             PROVE  Serial(p, y)'
  BY DEF SerialInv
<1>4. Serial(p, y)
  BY <1>1 DEF SerialInv
<1>5. ASSUME NEW e \in Devices, NEW i, DayWrite(e, i, p, y)'
      PROVE  /\ i \in Nat /\ DayWrite(e, i, p, y)
             /\ outbox'[e][i] = outbox[e][i]
  <2>1. NoneOf(ws, p, y)
    BY <1>3 DEF IsDayWrite, NoneOf
  <2>2. Sends(d, ws)
    BY <1>1, <1>3 DEF TypeOK, NetworkTypes, Sends
  <2> QED BY <1>5, <2>1, <2>2, AppendedDays
<1>6. new.sku = c /\ new.day = z
  OBVIOUS
<1>7. \A e \in Devices : \A r : DayRead(e, r, p, y)' =>
         \/ DayRead(e, r, p, y)
         \/ (e = d /\ r = new /\ p = c /\ y = z)
  BY <1>1, <1>6 DEF DayRead, TypeOK, NetworkTypes
<1>8. CASE p = c /\ y = z
  <2>1. ~DayPending(p, y)
    BY <1>1, <1>8
  <2>2. \A e \in Devices : \A r : ~DayRead(e, r, p, y)
    BY <2>1 DEF DayPending, DayRead
  <2>3. \A e \in Devices : \A i : ~DayWrite(e, i, p, y)
    BY <2>1 DEF DayPending, DayWrite, IsDayWrite
  <2>4. OneRead(p, y)'
    BY <1>7, <2>2 DEF OneRead
  <2>5. OneWrite(p, y)' /\ ReadOrWrite(p, y)' /\ TotalAdds(p, y)'
    BY <1>5, <2>3 DEF OneWrite, ReadOrWrite, TotalAdds
  <2> QED BY <1>1, <1>4, <2>4, <2>5 DEF Serial
<1>9. CASE ~(p = c /\ y = z)
  <2>1. dayQty'[p][y] = dayQty[p][y] /\ dayLedger'[p][y] = dayLedger[p][y]
    BY <1>1
  <2>2. \A e \in Devices : \A r : DayRead(e, r, p, y)' => DayRead(e, r, p, y)
    BY <1>7, <1>9
  <2> QED BY <1>4, <1>5, <2>1, <2>2, KeepsSerial
<1> QED BY <1>8, <1>9

\* The continuation of a read writes what was stored and its own units: nothing
\* else of the record is under way.
LEMMA DayAnswerSerial ==
  ASSUME TypeOK, SerialInv, TypeOK', NEW d \in Devices, NEW r \in reads[d],
         DayAnswer(d, r)
  PROVE  SerialInv'
<1> PICK c, z : c = selected[d] /\ z = DayOf(now)
  OBVIOUS
<1>1. PICK base \in LocalDay(d, r.sku, r.day) :
         outbox' = [outbox EXCEPT
                     ![d] = Append(@, [kind |-> "day", sku |-> c, day |-> z,
                                       qty |-> r.qty, total |-> base + r.qty])]
  BY DEF DayAnswer, DayTarget
<1> PICK w : w = [kind |-> "day", sku |-> c, day |-> z, qty |-> r.qty,
                  total |-> base + r.qty]
  OBVIOUS
<1>2. /\ reads' = [reads EXCEPT ![d] = @ \ {r}]
      /\ UNCHANGED <<dayQty, dayLedger>>
      /\ spoiled' = spoiled \cup (IF <<c, z>> = <<r.sku, r.day>> THEN {}
                                 ELSE {<<c, z>>, <<r.sku, r.day>>})
  BY DEF DayAnswer, DayTarget, storeVars
<1>3. r \in Read /\ c \in Products /\ z \in Days
  BY DayType
  DEF TypeOK, NetworkTypes, ChosenWhenNeeded, CountTypes
<1>4. /\ r.sku \in Products /\ r.day \in Days /\ r.qty \in 1 .. MaxQty
      /\ base \in Nat
  <2>1. r.sku \in Products /\ r.day \in Days /\ r.qty \in 1 .. MaxQty
    BY <1>3 DEF Read
  <2> QED BY <2>1, LocalDayType
<1>5. w \in Write /\ w.sku = c /\ w.day = z /\ w.qty = r.qty
      /\ w.total = base + r.qty
  BY <1>3, <1>4, LimitsAssumption DEF Write
<1>6. outbox[d] \in Seq(Write) /\ outbox[d] \o <<w>> = Append(outbox[d], w)
  BY <1>5 DEF TypeOK, NetworkTypes
<1>7. Sends(d, <<w>>)
  <2>1. outbox' = [outbox EXCEPT ![d] = Append(@, w)]
    BY <1>1
  <2> QED BY <1>5, <1>6, <2>1 DEF TypeOK, NetworkTypes, Sends
<1> SUFFICES ASSUME NEW p \in Products, NEW y \in Days, <<p, y>> \notin spoiled'
             PROVE  Serial(p, y)'
  BY DEF SerialInv
<1>8. Serial(p, y)
  BY <1>2 DEF SerialInv
<1>9. \A e \in Devices : \A s : DayRead(e, s, p, y)' =>
         DayRead(e, s, p, y) /\ ~(e = d /\ s = r)
  BY <1>2 DEF DayRead, TypeOK, NetworkTypes
<1>10. CASE p = c /\ y = z
  <2>1. DayRead(d, r, p, y)
    BY <1>2, <1>10 DEF DayRead
  <2>2. \A e \in Devices : \A i : ~DayWrite(e, i, p, y)
    BY <1>8, <2>1 DEF Serial, ReadOrWrite
  <2>3. base = dayQty[p][y]
    <3>1. {i \in DOMAIN outbox[d] : /\ outbox[d][i].kind = "day"
                                   /\ outbox[d][i].sku = p
                                   /\ outbox[d][i].day = y} = {}
      BY <2>2 DEF DayWrite, IsDayWrite
    <3>2. LocalDay(d, p, y) = {dayQty[p][y]}
      BY <3>1 DEF LocalDay
    <3> QED BY <1>1, <2>1, <3>2 DEF DayRead
  <2>4. ASSUME NEW e \in Devices, NEW i, DayWrite(e, i, p, y)'
        PROVE  e = d /\ i = Len(outbox[d]) + 1 /\ outbox'[e][i] = w
    <3>1. i \in DOMAIN outbox'[e] /\ IsDayWrite(outbox'[e][i], p, y)
      BY <2>4 DEF DayWrite, IsDayWrite
    <3>2. e = d
      <4>1. ASSUME e # d PROVE outbox'[e] = outbox[e]
        BY <1>7, <4>1 DEF Sends
      <4> QED BY <2>2, <3>1, <4>1 DEF DayWrite
    <3>3. outbox'[d] = Append(outbox[d], w)
      BY <1>6, <1>7 DEF Sends
    <3>4. CASE i \in DOMAIN outbox[d]
      <4>1. outbox'[d][i] = outbox[d][i]
        BY <1>5, <1>6, <3>3, <3>4
      <4> QED BY <2>2, <3>1, <3>2, <3>4, <4>1 DEF DayWrite
    <3>5. CASE i \notin DOMAIN outbox[d]
      BY <1>5, <1>6, <3>1, <3>2, <3>3, <3>5
    <3> QED BY <3>4, <3>5
  <2>5. \A e \in Devices : \A s : ~DayRead(e, s, p, y)'
    BY <1>8, <1>9, <2>1 DEF Serial, OneRead
  <2>6. OneRead(p, y)' /\ ReadOrWrite(p, y)'
    BY <2>5 DEF OneRead, ReadOrWrite
  <2>7. OneWrite(p, y)'
    BY <2>4 DEF OneWrite
  <2>8. TotalAdds(p, y)'
    BY <1>2, <1>5, <2>3, <2>4 DEF TotalAdds
  <2> QED BY <1>2, <1>8, <2>6, <2>7, <2>8 DEF Serial
<1>11. CASE ~(p = c /\ y = z)
  <2>1. NoneOf(<<w>>, p, y)
    BY <1>5, <1>11 DEF IsDayWrite, NoneOf
  <2>2. ASSUME NEW e \in Devices, NEW i, DayWrite(e, i, p, y)'
        PROVE  /\ i \in Nat /\ DayWrite(e, i, p, y)
               /\ outbox'[e][i] = outbox[e][i]
    BY <1>7, <2>1, <2>2, AppendedDays
  <2>3. dayQty'[p][y] = dayQty[p][y] /\ dayLedger'[p][y] = dayLedger[p][y]
    BY <1>2
  <2> QED BY <1>8, <1>9, <2>2, <2>3, KeepsSerial
<1> QED BY <1>10, <1>11

\* Steps that take an outbox's oldest write and leave the day's records.
LEMMA TakenSerial ==
  ASSUME TypeOK, SerialInv, NEW d \in Devices,
         \/ ApplyInvoice(d) \/ ApplyDetails(d) \/ ApplyRecent(d)
         \/ ApplyTill(d) \/ RefuseWrite(d)
  PROVE  SerialInv'
<1>1. /\ outbox[d] # <<>> /\ outbox' = [outbox EXCEPT ![d] = Tail(@)]
      /\ UNCHANGED <<reads, dayQty, dayLedger, spoiled>>
  BY DEF ApplyInvoice, ApplyDetails, ApplyRecent, ApplyTill, RefuseWrite,
         TakeWrite, storeVars, historyVars
<1> SUFFICES ASSUME NEW p \in Products, NEW y \in Days, <<p, y>> \notin spoiled'
             PROVE  Serial(p, y)'
  BY DEF SerialInv
<1>2. Serial(p, y)
  BY <1>1 DEF SerialInv
<1>3. \A e \in Devices : \A r : DayRead(e, r, p, y)' => DayRead(e, r, p, y)
  BY <1>1 DEF DayRead
<1>4. ASSUME NEW e \in Devices, NEW i, DayWrite(e, i, p, y)'
      PROVE  LET k == IF e = d THEN i + 1 ELSE i IN
             /\ i \in Nat /\ DayWrite(e, k, p, y)
             /\ outbox'[e][i] = outbox[e][k]
             /\ e = d => k > 1
  BY <1>1, <1>4, TakenDays
<1>5. dayQty'[p][y] = dayQty[p][y] /\ dayLedger'[p][y] = dayLedger[p][y]
  BY <1>1
<1> QED BY <1>2, <1>3, <1>4, <1>5, KeepsSerialTaken

\* The write of a record was the only one, and adds its units to the figure.
LEMMA ApplyDaySerial ==
  ASSUME TypeOK, SerialInv, NEW d \in Devices, ApplyDay(d)
  PROVE  SerialInv'
<1> PICK w : w = outbox[d][1]
  OBVIOUS
<1>1. /\ outbox[d] # <<>> /\ outbox' = [outbox EXCEPT ![d] = Tail(@)]
      /\ w.kind = "day"
      /\ dayQty' = [dayQty EXCEPT ![w.sku][w.day] = w.total]
      /\ dayLedger' = [dayLedger EXCEPT ![w.sku][w.day] = @ + w.qty]
      /\ UNCHANGED <<reads, spoiled>>
  BY DEF ApplyDay, TakeWrite
<1>2. 1 \in DOMAIN outbox[d] /\ w \in Write
  BY <1>1 DEF TypeOK, NetworkTypes
<1>3. /\ w.sku \in Products /\ w.day \in Days
      /\ w.qty \in Nat /\ w.total \in Nat
  BY <1>1, <1>2, LimitsAssumption DEF Write
<1> SUFFICES ASSUME NEW p \in Products, NEW y \in Days, <<p, y>> \notin spoiled'
             PROVE  Serial(p, y)'
  BY DEF SerialInv
<1>4. Serial(p, y)
  BY <1>1 DEF SerialInv
<1>5. \A e \in Devices : \A r : DayRead(e, r, p, y)' => DayRead(e, r, p, y)
  BY <1>1 DEF DayRead
<1>6. ASSUME NEW e \in Devices, NEW i, DayWrite(e, i, p, y)'
      PROVE  LET k == IF e = d THEN i + 1 ELSE i IN
             /\ i \in Nat /\ DayWrite(e, k, p, y)
             /\ outbox'[e][i] = outbox[e][k]
             /\ e = d => k > 1
  BY <1>1, <1>6, TakenDays
<1>7. CASE p = w.sku /\ y = w.day
  <2>1. DayWrite(d, 1, p, y)
    BY <1>1, <1>2, <1>7 DEF DayWrite, IsDayWrite
  <2>2. \A e \in Devices : \A r : ~DayRead(e, r, p, y)'
    BY <1>4, <1>5, <2>1 DEF Serial, ReadOrWrite
  <2>3. ASSUME NEW e \in Devices, NEW i, DayWrite(e, i, p, y)'
        PROVE  FALSE
    <3> DEFINE k == IF e = d THEN i + 1 ELSE i
    <3>1. DayWrite(e, k, p, y) /\ (e = d => k > 1)
      BY <1>6, <2>3
    <3>2. e = d /\ k = 1
      BY <1>4, <2>1, <3>1 DEF Serial, OneWrite
    <3> QED BY <3>1, <3>2
  <2>4. w.total = dayQty[p][y] + w.qty
    BY <1>4, <2>1 DEF Serial, TotalAdds
  <2>5. /\ dayQty'[p][y] = w.total
        /\ dayLedger'[p][y] = dayLedger[p][y] + w.qty
    BY <1>1, <1>7 DEF TypeOK, StoreTypes, HistoryTypes
  <2>6. dayQty'[p][y] = dayLedger'[p][y]
    BY <1>4, <2>4, <2>5 DEF Serial
  <2> QED
    BY <2>2, <2>3, <2>6
    DEF Serial, OneRead, OneWrite, ReadOrWrite, TotalAdds
<1>8. CASE ~(p = w.sku /\ y = w.day)
  <2>1. dayQty'[p][y] = dayQty[p][y] /\ dayLedger'[p][y] = dayLedger[p][y]
    BY <1>1, <1>3, <1>8 DEF TypeOK, StoreTypes, HistoryTypes
  <2> QED BY <1>4, <1>5, <1>6, <2>1, KeepsSerialTaken
<1> QED BY <1>7, <1>8

\* The continuation of an invoice's write sends nothing to the day's record.
LEMMA FollowUpSerial ==
  ASSUME TypeOK, SerialInv, NEW d \in Devices, NEW f \in follows[d],
         FollowUp(d, f)
  PROVE  SerialInv'
<1> PICK c, ws : c = FollowTarget(d, f) /\ ws = FollowWrites(c, f)
  OBVIOUS
<1>1. /\ outbox' = [outbox EXCEPT ![d] = @ \o ws]
      /\ UNCHANGED <<reads, dayQty, dayLedger, spoiled>>
  BY DEF FollowUp, storeVars
<1>2. f \in Follow /\ c \in Products
  BY DEF TypeOK, NetworkTypes, ChosenWhenNeeded, FollowTarget
<1>3. ws \in Seq(Write) /\ \A k \in DOMAIN ws : ws[k].kind # "day"
  <2>1. /\ [kind |-> "recent", sku |-> c, qty |-> f.qty] \in Write
        /\ [kind |-> "till", id |-> f.id, sku |-> c, qty |-> f.qty,
            for |-> f.sku] \in Write
    BY <1>2 DEF Write, Follow
  <2> QED BY <2>1 DEF FollowWrites
<1> SUFFICES ASSUME NEW p \in Products, NEW y \in Days, <<p, y>> \notin spoiled'
             PROVE  Serial(p, y)'
  BY DEF SerialInv
<1>4. Serial(p, y)
  BY <1>1 DEF SerialInv
<1>5. Sends(d, ws) /\ NoneOf(ws, p, y)
  BY <1>1, <1>3 DEF TypeOK, NetworkTypes, Sends, NoneOf, IsDayWrite
<1>6. ASSUME NEW e \in Devices, NEW i, DayWrite(e, i, p, y)'
      PROVE  /\ i \in Nat /\ DayWrite(e, i, p, y)
             /\ outbox'[e][i] = outbox[e][i]
  BY <1>5, <1>6, AppendedDays
<1>7. \A e \in Devices : \A r : DayRead(e, r, p, y)' => DayRead(e, r, p, y)
  BY <1>1 DEF DayRead
<1>8. dayQty'[p][y] = dayQty[p][y] /\ dayLedger'[p][y] = dayLedger[p][y]
  BY <1>1
<1> QED BY <1>4, <1>6, <1>7, <1>8, KeepsSerial

\* The invariant of the day's record holds initially.
LEMMA InitSerial == Init => TypeOK /\ SerialInv
<1> SUFFICES ASSUME Init PROVE TypeOK /\ SerialInv
  OBVIOUS
<1>1. TypeOK
  BY InitType
<1>2. \A d \in Devices : reads[d] = {} /\ DOMAIN outbox[d] = {}
  BY DEF Init
<1>3. \A p \in Products, y \in Days : dayQty[p][y] = 0 /\ dayLedger[p][y] = 0
  BY DEF Init
<1> QED
  BY <1>1, <1>2, <1>3
  DEF SerialInv, Serial, OneRead, OneWrite, ReadOrWrite, TotalAdds, DayRead,
      DayWrite

\* Every step keeps the invariant of the day's record.
LEMMA NextSerial == TypeOK /\ SerialInv /\ [Next]_vars => TypeOK' /\ SerialInv'
<1> SUFFICES ASSUME TypeOK, SerialInv, [Next]_vars
             PROVE  TypeOK' /\ SerialInv'
  OBVIOUS
<1>1. TypeOK'
  BY NextType
<1>2. ASSUME NEW d \in Devices, User(d) PROVE SerialInv'
  <2>1. ASSUME NEW p \in Products, Choose(d, p) PROVE SerialInv'
    BY <2>1, IdleSerial DEF Choose, networkVars, storeVars, historyVars
  <2>2. CASE Back(d)
    BY <2>2, IdleSerial DEF Back, networkVars, storeVars, historyVars
  <2>3. ASSUME NEW qty \in 0 .. MaxQty, Confirm(d, qty) PROVE SerialInv'
    BY <2>3, ConfirmSerial
  <2> QED BY <1>2, <2>1, <2>2, <2>3 DEF User
<1>3. ASSUME NEW d \in Devices, Network(d) PROVE SerialInv'
  <2>1. ASSUME NEW r \in reads[d], DayAnswer(d, r) PROVE SerialInv'
    BY <1>1, <2>1, DayAnswerSerial
  <2>2. ASSUME NEW f \in follows[d], FollowUp(d, f) PROVE SerialInv'
    BY <2>2, FollowUpSerial
  <2>3. CASE ApplyDay(d)
    BY <2>3, ApplyDaySerial
  <2>4. CASE \/ ApplyInvoice(d) \/ ApplyDetails(d) \/ ApplyRecent(d)
             \/ ApplyTill(d)
    BY <2>4, TakenSerial
  <2> QED BY <1>3, <2>1, <2>2, <2>3, <2>4 DEF Network
<1>4. ASSUME NEW d \in Devices, Failure(d) PROVE SerialInv'
  <2>1. ASSUME NEW r \in reads[d], RefuseRead(d, r) PROVE SerialInv'
    <3>1. \A e \in Devices : reads'[e] \subseteq reads[e]
      BY <2>1 DEF RefuseRead, TypeOK, NetworkTypes
    <3>2. UNCHANGED <<dayQty, dayLedger, spoiled, outbox>>
      BY <2>1 DEF RefuseRead, storeVars, historyVars
    <3> QED BY <3>1, <3>2, IdleSerial
  <2>2. CASE Restart(d)
    <3>1. \A e \in Devices : /\ reads'[e] \subseteq reads[e]
                            /\ outbox'[e] \in {outbox[e], <<>>}
      BY <2>2 DEF Restart, TypeOK, NetworkTypes
    <3>2. UNCHANGED <<dayQty, dayLedger, spoiled>>
      BY <2>2 DEF Restart, storeVars
    <3> QED BY <3>1, <3>2, IdleSerial
  <2>3. CASE RefuseWrite(d)
    BY <2>3, TakenSerial
  <2> QED BY <1>4, <2>1, <2>2, <2>3 DEF Failure
<1>5. CASE Tick \/ UNCHANGED vars
  <2>1. UNCHANGED <<reads, outbox, dayQty, dayLedger, spoiled>>
    BY <1>5 DEF Tick, vars, networkVars, storeVars, historyVars
  <2>2. \A e \in Devices : reads'[e] \subseteq reads[e]
    BY <2>1
  <2> QED BY <1>1, <2>1, <2>2, IdleSerial
<1> QED
  BY <1>1, <1>2, <1>3, <1>4, <1>5 DEF Next

\* On any number of devices, the figure of a day is the sum of the writes
\* applied to it, as long as its reads and writes did not overlap and no
\* continuation ran for another product or after midnight.
THEOREM DayExact == Spec => []DayExactWhenSerial
<1>1. TypeOK /\ SerialInv => DayExactWhenSerial
  BY DEF SerialInv, Serial, DayExactWhenSerial
<1> QED
  BY <1>1, InitSerial, NextSerial, PTL DEF Spec


-----------------------------------------------------------------------------
(* Invoices and credits.  A confirmation is in one place: its invoice on   *)
(* the way, its continuation waiting, its transaction on the way, or none. *)
(* From the moment the invoice is stored until the transaction is applied, *)
(* both are of the same units, so the credits are a part of the invoices.  *)

\* A write, or a continuation, of the confirmation x.
Carries(d, i, x) ==
    /\ i \in DOMAIN outbox[d] /\ outbox[d][i].kind \in {"invoice", "till"}
    /\ outbox[d][i].id = x

Awaits(d, f, x) == f \in follows[d] /\ f.id = x

OneCarrier(x) ==
    \A d, e \in Devices : \A i, j :
        Carries(d, i, x) /\ Carries(e, j, x) => d = e /\ i = j

OneFollow(x) ==
    \A d, e \in Devices : \A f, g :
        Awaits(d, f, x) /\ Awaits(e, g, x) => d = e /\ f = g

NotBoth(x) ==
    \A d, e \in Devices : \A f, i : ~(Awaits(d, f, x) /\ Carries(e, i, x))

\* What is stored of the confirmation x: nothing, or q units of p.
NotStored(x) == \A p \in Products : invoices[p][x] = 0
StoredOnly(p, x, q) ==
    invoices[p][x] = q /\ \A r \in Products \ {p} : invoices[r][x] = 0

Open(x) == x \notin credited /\ x <= confirms

RecordOf(w, x) ==
    IF w.kind = "invoice" THEN NotStored(x) ELSE StoredOnly(w.for, x, w.qty)

CarriersOpen(x) ==
    \A d \in Devices : \A i : Carries(d, i, x) =>
        Open(x) /\ RecordOf(outbox[d][i], x)

FollowsOpen(x) ==
    \A d \in Devices : \A f : Awaits(d, f, x) =>
        Open(x) /\ StoredOnly(f.sku, x, f.qty)

Unused(x) == x > confirms => x \notin credited /\ NotStored(x)

Confirmation(x) ==
    /\ OneCarrier(x) /\ OneFollow(x) /\ NotBoth(x)
    /\ CarriersOpen(x) /\ FollowsOpen(x) /\ Unused(x)

ConfirmationInv == \A x \in Ids : Confirmation(x)

\* The ledger of a product is the sum of its credited invoices.
CreditedSum ==
    \A p \in Products : ledger[p] = SumFunctionOnSet(invoices[p], credited)

CreditInv == ConfirmationInv /\ CreditedSum

\* What is recorded of a confirmation stays.
SameRecord(x) ==
    /\ \A p \in Products : invoices'[p][x] = invoices[p][x]
    /\ x \in credited' <=> x \in credited
    /\ confirms' >= confirms

\* A confirmation nothing happens to: its writes may move up, or be lost.
LEMMA KeepsConfirmation ==
  ASSUME NEW x \in Ids, TypeOK, TypeOK', Confirmation(x), SameRecord(x),
         NEW shift \in [Devices -> Nat],
         \A e \in Devices : \A f : Awaits(e, f, x)' => Awaits(e, f, x),
         \A e \in Devices : \A i : Carries(e, i, x)' =>
            /\ i \in Nat /\ Carries(e, i + shift[e], x)
            /\ outbox'[e][i] = outbox[e][i + shift[e]]
  PROVE  Confirmation(x)'
<1>1. OneCarrier(x)'
  <2> SUFFICES ASSUME NEW e \in Devices, NEW g \in Devices, NEW i, NEW j,
                      Carries(e, i, x)', Carries(g, j, x)'
               PROVE  e = g /\ i = j
    BY DEF OneCarrier
  <2>1. /\ i \in Nat /\ Carries(e, i + shift[e], x)
        /\ j \in Nat /\ Carries(g, j + shift[g], x)
    OBVIOUS
  <2>2. e = g /\ i + shift[e] = j + shift[g]
    BY <2>1 DEF Confirmation, OneCarrier
  <2>3. shift[e] \in Nat
    OBVIOUS
  <2> QED BY <2>1, <2>2, <2>3
<1>2. OneFollow(x)'
  BY DEF Confirmation, OneFollow
<1>3. NotBoth(x)'
  BY DEF Confirmation, NotBoth
<1>4. Open(x) => Open(x)'
  <2>1. x \in Nat /\ confirms \in Nat /\ confirms' \in Nat
    BY LimitsAssumption DEF TypeOK, CountTypes, Ids
  <2> QED BY <2>1 DEF Open, SameRecord
<1>5. CarriersOpen(x)'
  <2> SUFFICES ASSUME NEW e \in Devices, NEW i, Carries(e, i, x)'
               PROVE  Open(x)' /\ RecordOf(outbox[e][i], x)'
    BY DEF CarriersOpen, RecordOf, StoredOnly, NotStored
  <2>1. PICK w : w = outbox'[e][i]
    OBVIOUS
  <2>2. Open(x) /\ RecordOf(w, x)
    BY <2>1 DEF Confirmation, CarriersOpen
  <2>3. w.kind # "invoice" => w.for \in Products
    <3>1. /\ i \in DOMAIN outbox'[e] /\ w = outbox'[e][i]
          /\ w.kind \in {"invoice", "till"}
      BY <2>1 DEF Carries
    <3>2. outbox'[e] \in Seq(Write)
      BY DEF TypeOK, NetworkTypes
    <3>3. w \in Write
      BY <3>1, <3>2
    <3> QED BY <3>1, <3>3 DEF Write
  <2>4. RecordOf(w, x)'
    BY <2>2, <2>3 DEF RecordOf, NotStored, StoredOnly, SameRecord
  <2> QED BY <1>4, <2>1, <2>2, <2>4
<1>6. FollowsOpen(x)'
  <2> SUFFICES ASSUME NEW e \in Devices, NEW f, Awaits(e, f, x)'
               PROVE  Open(x)' /\ StoredOnly(f.sku, x, f.qty)'
    BY DEF FollowsOpen
  <2>1. Open(x) /\ StoredOnly(f.sku, x, f.qty)
    BY DEF Confirmation, FollowsOpen
  <2>2. f.sku \in Products
    BY DEF Awaits, TypeOK, NetworkTypes, Follow
  <2> QED BY <1>4, <2>1, <2>2 DEF StoredOnly, SameRecord
<1>7. Unused(x)'
  <2>1. x \in Nat /\ confirms \in Nat /\ confirms' \in Nat
    BY LimitsAssumption DEF TypeOK, CountTypes, Ids
  <2> QED BY <2>1 DEF Confirmation, Unused, NotStored, SameRecord
<1> QED
  BY <1>1, <1>2, <1>3, <1>5, <1>6, <1>7 DEF Confirmation

\* The writes appended to an outbox come behind those it had.
LEMMA AppendedPlaces ==
  ASSUME TypeOK, NEW d \in Devices, NEW ws, Sends(d, ws),
         NEW e \in Devices, NEW i, i \in DOMAIN outbox'[e]
  PROVE  /\ i \in Nat
         /\ \/ i \in DOMAIN outbox[e] /\ outbox'[e][i] = outbox[e][i]
            \/ /\ e = d
               /\ \E k \in DOMAIN ws : /\ i = Len(outbox[d]) + k
                                       /\ outbox'[e][i] = ws[k]
<1>1. outbox[e] \in Seq(Write) /\ outbox[d] \in Seq(Write)
  BY DEF TypeOK, NetworkTypes
<1>2. CASE e = d
  <2>1. outbox'[e] = outbox[e] \o ws /\ ws \in Seq(Write)
    BY <1>2 DEF Sends
  <2>2. i \in 1 .. Len(outbox[e]) + Len(ws)
    BY <1>1, <2>1
  <2>3. CASE i <= Len(outbox[e])
    BY <1>1, <2>1, <2>2, <2>3
  <2>4. CASE i > Len(outbox[e])
    <3>1. PICK k : k = i - Len(outbox[e])
      OBVIOUS
    <3>2. k \in DOMAIN ws /\ outbox'[e][i] = ws[k] /\ i = Len(outbox[e]) + k
      BY <1>1, <2>1, <2>2, <2>4, <3>1
    <3> QED BY <1>2, <2>2, <3>2
  <2> QED BY <1>1, <2>2, <2>3, <2>4
<1>3. CASE e # d
  <2>1. outbox'[e] = outbox[e]
    BY <1>3 DEF Sends
  <2> QED BY <1>1, <2>1
<1> QED BY <1>2, <1>3

\* The oldest write is taken.
Takes(d) == outbox[d] # <<>> /\ outbox' = [outbox EXCEPT ![d] = Tail(@)]

\* The oldest write leaves an outbox and the others move up.
LEMMA TakenPlaces ==
  ASSUME TypeOK, NEW d \in Devices, Takes(d),
         NEW e \in Devices, NEW i, i \in DOMAIN outbox'[e]
  PROVE  /\ i \in Nat /\ i # 0
         /\ e = d => /\ i + 1 \in DOMAIN outbox[e]
                    /\ outbox'[e][i] = outbox[e][i + 1]
         /\ e # d => /\ i \in DOMAIN outbox[e]
                    /\ outbox'[e][i] = outbox[e][i]
<1>1. outbox[e] \in Seq(Write) /\ outbox[d] \in Seq(Write)
  BY DEF TypeOK, NetworkTypes
<1>2. CASE e = d
  <2>1. outbox'[e] = Tail(outbox[e]) /\ outbox[e] # <<>>
    BY <1>2 DEF Takes, TypeOK, NetworkTypes
  <2>2. i \in DOMAIN Tail(outbox[e])
    BY <2>1
  <2>3. /\ i \in Nat /\ i # 0 /\ i + 1 \in DOMAIN outbox[e]
        /\ Tail(outbox[e])[i] = outbox[e][i + 1]
    BY <1>1, <2>1, <2>2
  <2> QED BY <1>2, <2>1, <2>3
<1>3. CASE e # d
  <2>1. outbox'[e] = outbox[e]
    BY <1>3 DEF Takes, TypeOK, NetworkTypes
  <2> QED BY <1>1, <1>3, <2>1
<1> QED BY <1>2, <1>3

\* The product summed over has its invoices in numbers.
LEMMA InvoicesSummable ==
  ASSUME TypeOK, NEW p \in Products
  PROVE  /\ Summable(invoices[p], Ids) /\ NonNegative(invoices[p], Ids)
         /\ Summable(invoices[p], credited)
         /\ SumFunction(invoices[p]) = SumFunctionOnSet(invoices[p], Ids)
<1>1. invoices[p] \in [Ids -> 0 .. MaxQty] /\ MaxQty \in Nat
  BY LimitsAssumption DEF TypeOK, StoreTypes
<1>2. IsFiniteSet(Ids)
  BY LimitsAssumption, FS_Interval DEF Ids
<1>3. credited \subseteq Ids
  BY DEF TypeOK, HistoryTypes
<1>4. IsFiniteSet(credited)
  BY <1>2, <1>3, FS_Subset
<1> QED
  BY <1>1, <1>2, <1>3, <1>4 DEF Summable, NonNegative, SumFunction

\* Steps that credit nothing and store nothing credited keep the sum.
LEMMA KeepsSum ==
  ASSUME TypeOK, CreditedSum, UNCHANGED <<ledger, credited>>,
         \A p \in Products, x \in credited : invoices'[p][x] = invoices[p][x]
  PROVE  CreditedSum'
<1> SUFFICES ASSUME NEW p \in Products
             PROVE  ledger[p] = SumFunctionOnSet(invoices'[p], credited)
  BY DEF CreditedSum
<1>1. Same(invoices[p], invoices'[p], credited)
  BY DEF Same
<1>2. SumFunctionOnSet(invoices[p], credited)
        = SumFunctionOnSet(invoices'[p], credited)
  BY <1>1, InvoicesSummable, SumSame
<1> QED BY <1>2 DEF CreditedSum

CarriesIt(w, x) == w.kind \in {"invoice", "till"} /\ w.id = x
NoCarrier(ws, x) == \A k \in DOMAIN ws : ~CarriesIt(ws[k], x)
NoNewFollow(x) == \A e \in Devices : \A f : Awaits(e, f, x)' => Awaits(e, f, x)

\* Writes of other confirmations may be appended.
LEMMA AppendedKeeps ==
  ASSUME NEW x \in Ids, TypeOK, TypeOK', Confirmation(x), SameRecord(x),
         NEW d \in Devices, NEW ws, Sends(d, ws), NoCarrier(ws, x), NoNewFollow(x)
  PROVE  Confirmation(x)'
<1>1. PICK shift : shift = [e \in Devices |-> 0]
  OBVIOUS
<1>2. shift \in [Devices -> Nat] /\ \A e \in Devices : shift[e] = 0
  BY <1>1
<1>3. ASSUME NEW e \in Devices, NEW i, Carries(e, i, x)'
      PROVE  /\ i \in Nat /\ Carries(e, i + shift[e], x)
             /\ outbox'[e][i] = outbox[e][i + shift[e]]
  <2>1. i \in DOMAIN outbox'[e] /\ CarriesIt(outbox'[e][i], x)
    BY <1>3 DEF Carries, CarriesIt
  <2>2. i \in Nat /\ i \in DOMAIN outbox[e] /\ outbox'[e][i] = outbox[e][i]
    BY <2>1, AppendedPlaces DEF NoCarrier
  <2>3. i + shift[e] = i
    BY <1>2, <2>2
  <2> QED BY <2>1, <2>2, <2>3 DEF Carries, CarriesIt
<1>4. \A e \in Devices : \A f : Awaits(e, f, x)' => Awaits(e, f, x)
  BY DEF NoNewFollow
<1> QED
  BY <1>2, <1>3, <1>4, KeepsConfirmation

\* The oldest write may be taken.
LEMMA TakenKeeps ==
  ASSUME NEW x \in Ids, TypeOK, TypeOK', Confirmation(x), SameRecord(x),
         NEW d \in Devices, Takes(d), NoNewFollow(x)
  PROVE  Confirmation(x)'
<1>1. PICK shift : shift = [e \in Devices |-> IF e = d THEN 1 ELSE 0]
  OBVIOUS
<1>2. /\ shift \in [Devices -> Nat]
      /\ \A e \in Devices : shift[e] = IF e = d THEN 1 ELSE 0
  BY <1>1
<1>3. ASSUME NEW e \in Devices, NEW i, Carries(e, i, x)'
      PROVE  /\ i \in Nat /\ Carries(e, i + shift[e], x)
             /\ outbox'[e][i] = outbox[e][i + shift[e]]
  <2>1. i \in DOMAIN outbox'[e] /\ CarriesIt(outbox'[e][i], x)
    BY <1>3 DEF Carries, CarriesIt
  <2>2. i \in Nat
    BY <2>1, TakenPlaces
  <2>3. (shift[e] = 1 /\ e = d) \/ (i + shift[e] = i /\ e # d)
    BY <1>2, <2>2
  <2>4. /\ i + shift[e] \in DOMAIN outbox[e]
        /\ outbox'[e][i] = outbox[e][i + shift[e]]
    <3>1. CASE shift[e] = 1 /\ e = d
      BY <2>1, <3>1, TakenPlaces
    <3>2. CASE i + shift[e] = i /\ e # d
      BY <2>1, <3>2, TakenPlaces
    <3> QED BY <2>3, <3>1, <3>2
  <2> QED BY <2>1, <2>2, <2>4 DEF Carries, CarriesIt
<1>4. \A e \in Devices : \A f : Awaits(e, f, x)' => Awaits(e, f, x)
  BY DEF NoNewFollow
<1> QED
  BY <1>2, <1>3, <1>4, KeepsConfirmation

\* Outboxes may stay, or be emptied.
LEMMA IdleKeeps ==
  ASSUME NEW x \in Ids, TypeOK, TypeOK', Confirmation(x), SameRecord(x),
         \A e \in Devices : outbox'[e] = outbox[e] \/ outbox'[e] = <<>>,
         NoNewFollow(x)
  PROVE  Confirmation(x)'
<1>1. PICK shift : shift = [e \in Devices |-> 0]
  OBVIOUS
<1>2. shift \in [Devices -> Nat] /\ \A e \in Devices : shift[e] = 0
  BY <1>1
<1>3. ASSUME NEW e \in Devices, NEW i, Carries(e, i, x)'
      PROVE  /\ i \in Nat /\ Carries(e, i + shift[e], x)
             /\ outbox'[e][i] = outbox[e][i + shift[e]]
  <2>1. outbox'[e] = outbox[e] /\ outbox[e] \in Seq(Write)
    BY <1>3 DEF Carries, TypeOK, NetworkTypes
  <2>2. i \in Nat
    BY <1>3, <2>1 DEF Carries
  <2>3. i + shift[e] = i
    BY <1>2, <2>2
  <2> QED BY <1>3, <2>1, <2>2, <2>3 DEF Carries
<1>4. \A e \in Devices : \A f : Awaits(e, f, x)' => Awaits(e, f, x)
  BY DEF NoNewFollow
<1> QED
  BY <1>2, <1>3, <1>4, KeepsConfirmation

\* A confirmation in one outbox, at one place, and nowhere else.
LEMMA OnePlace ==
  ASSUME NEW x \in Ids, NEW d \in Devices, NEW n,
         \A e \in Devices : \A i : Carries(e, i, x)' => e = d /\ i = n,
         \A e \in Devices : \A f : ~Awaits(e, f, x)',
         Open(x)', RecordOf(outbox[d][n], x)', Unused(x)'
  PROVE  Confirmation(x)'
BY DEF Confirmation, OneCarrier, OneFollow, NotBoth, CarriersOpen, FollowsOpen

\* A confirmation that waits for its continuation.
LEMMA OneWaits ==
  ASSUME NEW x \in Ids, NEW d \in Devices, NEW g,
         \A e \in Devices : \A i : ~Carries(e, i, x)',
         \A e \in Devices : \A f : Awaits(e, f, x)' => e = d /\ f = g,
         Open(x)', StoredOnly(g.sku, x, g.qty)', Unused(x)'
  PROVE  Confirmation(x)'
BY DEF Confirmation, OneCarrier, OneFollow, NotBoth, CarriersOpen, FollowsOpen

\* A confirmation nothing waits for.
LEMMA NoneWaits ==
  ASSUME NEW x \in Ids,
         \A e \in Devices : \A i : ~Carries(e, i, x)',
         \A e \in Devices : \A f : ~Awaits(e, f, x)', Unused(x)'
  PROVE  Confirmation(x)'
BY DEF Confirmation, OneCarrier, OneFollow, NotBoth, CarriersOpen, FollowsOpen

\* CONFIRM takes an identity nothing has, and sends its invoice.
LEMMA ConfirmCredit ==
  ASSUME NEW d \in Devices, NEW qty \in 0 .. MaxQty, TypeOK, TypeOK', CreditInv,
         Confirm(d, qty)
  PROVE  CreditInv'
<1>1. PICK x, p, ws : /\ x = confirms + 1 /\ p = selected[d]
                      /\ ws = ConfirmWrites(p, qty, x)
  OBVIOUS
<1>2. /\ confirms' = x /\ x \in Ids /\ x \in Nat
      /\ confirms \in Nat /\ x > confirms
  <2>1. confirms \in 0 .. MaxConfirms /\ MaxConfirms \in Nat
    BY LimitsAssumption DEF TypeOK, CountTypes
  <2> QED BY <1>1, <2>1 DEF Confirm, Ids
<1>3. /\ p \in Products /\ qty \in 1 .. MaxQty
      /\ UNCHANGED <<follows, invoices, ledger, credited>>
      /\ outbox' = [outbox EXCEPT ![d] = @ \o ws]
  <2>1. p \in Products
    BY <1>1 DEF Confirm, TypeOK, ChosenWhenNeeded
  <2>2. qty \in 1 .. MaxQty
    BY LimitsAssumption DEF Confirm, Accepted
  <2> QED BY <1>1, <1>2, <2>1, <2>2 DEF Confirm, storeVars
<1>4. PICK a, b : /\ a = [kind |-> "invoice", id |-> x, sku |-> p, qty |-> qty]
                  /\ b = [kind |-> "details", sku |-> p]
  OBVIOUS
<1>5. a \in Write /\ b \in Write /\ ws = <<a, b>>
  BY <1>1, <1>2, <1>3, <1>4 DEF Write, ConfirmWrites
<1>6. /\ ws \in Seq(Write) /\ DOMAIN ws = {1, 2} /\ ws[1] = a /\ ws[2] = b
  BY <1>5
<1>7. Sends(d, ws)
  BY <1>3, <1>6 DEF Sends, TypeOK, NetworkTypes
<1>8. a.kind = "invoice" /\ a.id = x /\ b.kind = "details"
  BY <1>4
<1>9. \A y \in Ids : NoNewFollow(y)
  BY <1>3 DEF NoNewFollow, Awaits
<1>10. ASSUME NEW y \in Ids, y # x PROVE Confirmation(y)'
  <2>1. SameRecord(y)
    BY <1>2, <1>3 DEF SameRecord
  <2>2. NoCarrier(ws, y)
    BY <1>6, <1>8, <1>10 DEF NoCarrier, CarriesIt
  <2>3. Confirmation(y)
    BY DEF CreditInv, ConfirmationInv
  <2> QED BY <1>7, <1>9, <2>1, <2>2, <2>3, AppendedKeeps
<1>11. Confirmation(x)'
  <2>1. Confirmation(x)
    BY <1>2 DEF CreditInv, ConfirmationInv
  <2>2. ~Open(x) /\ x \notin credited /\ NotStored(x)
    BY <1>2, <2>1 DEF Confirmation, Unused, Open
  <2>3. /\ \A e \in Devices : \A i : ~Carries(e, i, x)
        /\ \A e \in Devices : \A f : ~Awaits(e, f, x)
    BY <2>1, <2>2 DEF Confirmation, CarriersOpen, FollowsOpen
  <2>4. PICK n : n = Len(outbox[d]) + 1
    OBVIOUS
  <2>5. ASSUME NEW e \in Devices, NEW i, Carries(e, i, x)'
        PROVE  e = d /\ i = n /\ outbox'[d][i] = a
    <3>1. i \in DOMAIN outbox'[e] /\ CarriesIt(outbox'[e][i], x)
      BY <2>5 DEF Carries, CarriesIt
    <3>2. ~(i \in DOMAIN outbox[e] /\ outbox'[e][i] = outbox[e][i])
      BY <2>3, <3>1 DEF Carries, CarriesIt
    <3>3. PICK k \in DOMAIN ws : /\ e = d /\ i = Len(outbox[d]) + k
                                 /\ outbox'[e][i] = ws[k]
      BY <1>7, <3>1, <3>2, AppendedPlaces
    <3>4. k = 1
      BY <1>6, <1>8, <3>1, <3>3 DEF CarriesIt
    <3> QED BY <1>6, <2>4, <3>3, <3>4
  <2>6. \A e \in Devices : \A f : ~Awaits(e, f, x)'
    BY <1>9, <1>2, <2>3 DEF NoNewFollow
  <2>7. Open(x)' /\ Unused(x)'
    BY <1>2, <1>3, <2>2 DEF Open, Unused, NotStored
  <2>8. CASE \E i : Carries(d, i, x)'
    <3>1. outbox'[d][n] = a
      BY <2>5, <2>8
    <3>2. RecordOf(outbox[d][n], x)'
      BY <1>3, <1>8, <2>2, <3>1 DEF RecordOf, NotStored
    <3> QED BY <1>2, <2>5, <2>6, <2>7, <3>2, OnePlace
  <2>9. CASE ~\E i : Carries(d, i, x)'
    <3>1. \A e \in Devices : \A i : ~Carries(e, i, x)'
      BY <2>5, <2>9
    <3> QED BY <1>2, <2>6, <2>7, <3>1, NoneWaits
  <2> QED BY <2>8, <2>9
<1>12. CreditedSum'
  BY <1>3, KeepsSum DEF CreditInv
<1> QED
  BY <1>10, <1>11, <1>12 DEF CreditInv, ConfirmationInv

\* What the head of an outbox carried, nothing carries any more.
LEMMA HeadGone ==
  ASSUME NEW x \in Ids, TypeOK, Confirmation(x), NEW d \in Devices, Takes(d),
         Carries(d, 1, x)
  PROVE  \A e \in Devices : \A i : ~Carries(e, i, x)'
<1> SUFFICES ASSUME NEW e \in Devices, NEW i, Carries(e, i, x)' PROVE FALSE
  OBVIOUS
<1>1. i \in DOMAIN outbox'[e] /\ CarriesIt(outbox'[e][i], x)
  BY DEF Carries, CarriesIt
<1>2. CASE e = d
  <2>1. i \in Nat /\ i # 0 /\ Carries(d, i + 1, x)
    BY <1>1, <1>2, TakenPlaces DEF Carries, CarriesIt
  <2>2. i + 1 = 1
    BY <2>1 DEF Confirmation, OneCarrier
  <2> QED BY <2>1, <2>2
<1>3. CASE e # d
  <2>1. Carries(e, i, x)
    BY <1>1, <1>3, TakenPlaces DEF Carries, CarriesIt
  <2> QED BY <1>3, <2>1 DEF Confirmation, OneCarrier
<1> QED BY <1>2, <1>3

\* The continuation's transaction takes its place in the outbox.
LEMMA FollowUpCredit ==
  ASSUME NEW d \in Devices, NEW f \in follows[d], TypeOK, TypeOK', CreditInv,
         FollowUp(d, f)
  PROVE  CreditInv'
<1>1. PICK c, x, ws : /\ c = FollowTarget(d, f) /\ x = f.id
                      /\ ws = FollowWrites(c, f)
  OBVIOUS
<1>2. /\ UNCHANGED <<invoices, ledger, credited, confirms>>
      /\ outbox' = [outbox EXCEPT ![d] = @ \o ws]
      /\ follows' = [follows EXCEPT ![d] = @ \ {f}]
  BY <1>1 DEF FollowUp, storeVars
<1>3. f \in Follow /\ c \in Products
  BY <1>1 DEF TypeOK, NetworkTypes, ChosenWhenNeeded, FollowTarget
<1>4. x \in Ids /\ f.sku \in Products /\ f.qty \in 1 .. MaxQty
  BY <1>1, <1>3 DEF Follow
<1>5. PICK a, b : /\ a = [kind |-> "recent", sku |-> c, qty |-> f.qty]
                  /\ b = [kind |-> "till", id |-> f.id, sku |-> c,
                          qty |-> f.qty, for |-> f.sku]
  OBVIOUS
<1>6. a \in Write /\ b \in Write /\ ws = <<a, b>>
  BY <1>1, <1>3, <1>4, <1>5 DEF Write, FollowWrites
<1>7. ws \in Seq(Write) /\ DOMAIN ws = {1, 2} /\ ws[1] = a /\ ws[2] = b
  BY <1>6
<1>8. Sends(d, ws)
  BY <1>2, <1>7 DEF Sends, TypeOK, NetworkTypes
<1>9. /\ a.kind = "recent" /\ b.kind = "till" /\ b.id = x
      /\ b.for = f.sku /\ b.qty = f.qty
  BY <1>1, <1>5
<1>10. \A e \in Devices : \A g, y :
          Awaits(e, g, y)' => Awaits(e, g, y) /\ ~(e = d /\ g = f)
  BY <1>2 DEF Awaits, TypeOK, NetworkTypes
<1>11. ASSUME NEW y \in Ids, y # x PROVE Confirmation(y)'
  <2>1. SameRecord(y)
    <3>1. confirms \in Nat
      BY LimitsAssumption DEF TypeOK, CountTypes
    <3> QED BY <1>2, <3>1 DEF SameRecord
  <2>2. NoCarrier(ws, y)
    BY <1>7, <1>9, <1>11 DEF NoCarrier, CarriesIt
  <2>3. Confirmation(y) /\ NoNewFollow(y)
    BY <1>10 DEF CreditInv, ConfirmationInv, NoNewFollow
  <2> QED BY <1>8, <2>1, <2>2, <2>3, AppendedKeeps
<1>12. Confirmation(x)'
  <2>1. Confirmation(x) /\ Awaits(d, f, x)
    BY <1>1, <1>4 DEF CreditInv, ConfirmationInv, Awaits
  <2>2. Open(x) /\ StoredOnly(f.sku, x, f.qty) /\ Unused(x)
    BY <2>1 DEF Confirmation, FollowsOpen
  <2>3. \A e \in Devices : \A i : ~Carries(e, i, x)
    BY <2>1 DEF Confirmation, NotBoth
  <2>4. \A e \in Devices : \A g : ~Awaits(e, g, x)'
    BY <1>10, <2>1 DEF Confirmation, OneFollow
  <2>5. PICK n : n = Len(outbox[d]) + 2
    OBVIOUS
  <2>6. ASSUME NEW e \in Devices, NEW i, Carries(e, i, x)'
        PROVE  e = d /\ i = n /\ outbox'[d][i] = b
    <3>1. i \in DOMAIN outbox'[e] /\ CarriesIt(outbox'[e][i], x)
      BY <2>6 DEF Carries, CarriesIt
    <3>2. ~(i \in DOMAIN outbox[e] /\ outbox'[e][i] = outbox[e][i])
      BY <2>3, <3>1 DEF Carries, CarriesIt
    <3>3. PICK k \in DOMAIN ws : /\ e = d /\ i = Len(outbox[d]) + k
                                 /\ outbox'[e][i] = ws[k]
      BY <1>8, <3>1, <3>2, AppendedPlaces
    <3>4. k = 2
      BY <1>7, <1>9, <3>1, <3>3 DEF CarriesIt
    <3> QED BY <1>7, <2>5, <3>3, <3>4
  <2>7. Open(x)' /\ Unused(x)' /\ StoredOnly(f.sku, x, f.qty)'
    BY <1>2, <2>2 DEF Open, Unused, NotStored, StoredOnly
  <2>8. CASE \E i : Carries(d, i, x)'
    <3>1. outbox'[d][n] = b
      BY <2>6, <2>8
    <3>2. RecordOf(outbox[d][n], x)'
      BY <1>9, <2>7, <3>1 DEF RecordOf
    <3> QED BY <1>4, <2>4, <2>6, <2>7, <3>2, OnePlace
  <2>9. CASE ~\E i : Carries(d, i, x)'
    <3>1. \A e \in Devices : \A i : ~Carries(e, i, x)'
      BY <2>6, <2>9
    <3> QED BY <1>4, <2>4, <2>7, <3>1, NoneWaits
  <2> QED BY <2>8, <2>9
<1>13. CreditedSum'
  BY <1>2, KeepsSum DEF CreditInv
<1> QED
  BY <1>11, <1>12, <1>13 DEF CreditInv, ConfirmationInv

\* An invoice is stored, and its continuation waits.
LEMMA ApplyInvoiceCredit ==
  ASSUME NEW d \in Devices, TypeOK, TypeOK', CreditInv, ApplyInvoice(d)
  PROVE  CreditInv'
<1>1. PICK w, x : w = outbox[d][1] /\ x = w.id
  OBVIOUS
<1>2. PICK g : g = [id |-> w.id, sku |-> w.sku, qty |-> w.qty]
  OBVIOUS
<1>3. /\ Takes(d) /\ w.kind = "invoice"
      /\ invoices' = [invoices EXCEPT ![w.sku][x] = w.qty]
      /\ follows' = [follows EXCEPT ![d] = @ \cup {g}]
      /\ UNCHANGED <<ledger, credited, confirms>>
  BY <1>1, <1>2 DEF ApplyInvoice, TakeWrite, Takes, historyVars
<1>4. 1 \in DOMAIN outbox[d] /\ w \in Write
  BY <1>1, <1>3 DEF TypeOK, NetworkTypes, Takes
<1>5. w.id \in Ids /\ w.sku \in Products /\ w.qty \in 1 .. MaxQty
  BY <1>3, <1>4 DEF Write
<1>6. g.id = x /\ g.sku = w.sku /\ g.qty = w.qty /\ x \in Ids
  BY <1>1, <1>2, <1>5
<1>7. /\ \A p \in Products, y \in Ids : y # x => invoices'[p][y] = invoices[p][y]
      /\ \A p \in Products : p # w.sku => invoices'[p][x] = invoices[p][x]
      /\ invoices'[w.sku][x] = w.qty
  BY <1>3, <1>5, <1>6 DEF TypeOK, StoreTypes
<1>8. \A e \in Devices : \A h, y :
         Awaits(e, h, y)' => Awaits(e, h, y) \/ (e = d /\ h = g /\ y = x)
  BY <1>3, <1>6 DEF Awaits, TypeOK, NetworkTypes
<1>9. ASSUME NEW y \in Ids, y # x PROVE Confirmation(y)'
  <2>1. SameRecord(y)
    <3>1. confirms \in Nat
      BY LimitsAssumption DEF TypeOK, CountTypes
    <3> QED BY <1>3, <1>7, <1>9, <3>1 DEF SameRecord
  <2>2. Confirmation(y) /\ NoNewFollow(y)
    BY <1>8, <1>9 DEF CreditInv, ConfirmationInv, NoNewFollow
  <2> QED BY <1>3, <2>1, <2>2, TakenKeeps
<1>10. /\ Confirmation(x) /\ Carries(d, 1, x)
       /\ Open(x) /\ NotStored(x)
  <2>1. Confirmation(x) /\ Carries(d, 1, x)
    BY <1>1, <1>3, <1>4, <1>6 DEF CreditInv, ConfirmationInv, Carries
  <2> QED BY <1>1, <1>3, <2>1 DEF Confirmation, CarriersOpen, RecordOf
<1>11. Confirmation(x)'
  <2>1. \A e \in Devices : \A i : ~Carries(e, i, x)'
    BY <1>3, <1>6, <1>10, HeadGone
  <2>2. \A e \in Devices : \A h : ~Awaits(e, h, x)
    BY <1>10 DEF Confirmation, NotBoth
  <2>3. \A e \in Devices : \A h : Awaits(e, h, x)' => e = d /\ h = g
    BY <1>8, <2>2
  <2>4. Open(x)'
    BY <1>3, <1>10 DEF Open
  <2>5. Unused(x)'
    <3>1. x \in Nat /\ confirms \in Nat /\ confirms' = confirms
      BY <1>3, <1>6, LimitsAssumption DEF TypeOK, CountTypes, Ids
    <3> QED BY <1>10, <3>1 DEF Open, Unused
  <2>6. StoredOnly(g.sku, x, g.qty)'
    BY <1>6, <1>7, <1>10 DEF StoredOnly, NotStored
  <2> QED BY <1>6, <2>1, <2>3, <2>4, <2>5, <2>6, OneWaits
<1>12. CreditedSum'
  <2>1. x \notin credited /\ credited \subseteq Ids
    BY <1>10 DEF Open, TypeOK, HistoryTypes
  <2>2. \A p \in Products, y \in credited : invoices'[p][y] = invoices[p][y]
    BY <1>7, <2>1
  <2> QED BY <1>3, <2>2, KeepsSum DEF CreditInv
<1> QED
  BY <1>9, <1>11, <1>12 DEF CreditInv, ConfirmationInv

\* The transaction credits as many units as the invoice it follows stored.
LEMMA ApplyTillCredit ==
  ASSUME NEW d \in Devices, TypeOK, TypeOK', CreditInv, ApplyTill(d)
  PROVE  CreditInv'
<1>1. PICK w, x : w = outbox[d][1] /\ x = w.id
  OBVIOUS
<1>2. /\ Takes(d) /\ w.kind = "till"
      /\ ledger' = [ledger EXCEPT ![w.for] = @ + w.qty]
      /\ credited' = credited \cup {x}
      /\ UNCHANGED <<follows, invoices, confirms>>
  BY <1>1 DEF ApplyTill, TakeWrite, Takes
<1>3. 1 \in DOMAIN outbox[d] /\ w \in Write
  BY <1>1, <1>2 DEF TypeOK, NetworkTypes, Takes
<1>4. x \in Ids /\ w.for \in Products /\ w.qty \in 1 .. MaxQty
  BY <1>1, <1>2, <1>3 DEF Write
<1>5. \A e \in Devices : \A h, y : Awaits(e, h, y)' => Awaits(e, h, y)
  BY <1>2 DEF Awaits
<1>6. ASSUME NEW y \in Ids, y # x PROVE Confirmation(y)'
  <2>1. SameRecord(y)
    <3>1. confirms \in Nat
      BY LimitsAssumption DEF TypeOK, CountTypes
    <3> QED BY <1>2, <1>6, <3>1 DEF SameRecord
  <2>2. Confirmation(y) /\ NoNewFollow(y)
    BY <1>5 DEF CreditInv, ConfirmationInv, NoNewFollow
  <2> QED BY <1>2, <2>1, <2>2, TakenKeeps
<1>7. /\ Confirmation(x) /\ Carries(d, 1, x)
      /\ Open(x) /\ StoredOnly(w.for, x, w.qty)
  <2>1. Confirmation(x) /\ Carries(d, 1, x)
    BY <1>1, <1>2, <1>3, <1>4 DEF CreditInv, ConfirmationInv, Carries
  <2>2. w.kind # "invoice"
    BY <1>2
  <2> QED BY <1>1, <2>1, <2>2 DEF Confirmation, CarriersOpen, RecordOf
<1>8. Confirmation(x)'
  <2>1. \A e \in Devices : \A i : ~Carries(e, i, x)'
    BY <1>2, <1>4, <1>7, HeadGone
  <2>2. \A e \in Devices : \A h : ~Awaits(e, h, x)'
    BY <1>5, <1>7 DEF Confirmation, NotBoth
  <2>3. Unused(x)'
    <3>1. x \in Nat /\ confirms \in Nat /\ confirms' = confirms
      BY <1>2, <1>4, LimitsAssumption DEF TypeOK, CountTypes, Ids
    <3> QED BY <1>7, <3>1 DEF Open, Unused
  <2> QED BY <1>4, <2>1, <2>2, <2>3, NoneWaits
<1>9. CreditedSum'
  <2> SUFFICES ASSUME NEW p \in Products
               PROVE  ledger'[p] = SumFunctionOnSet(invoices[p], credited \cup {x})
    BY <1>2 DEF CreditedSum
  <2>1. ledger[p] = SumFunctionOnSet(invoices[p], credited)
    BY DEF CreditInv, CreditedSum
  <2>2. x \notin credited
    BY <1>7 DEF Open
  <2>3. Summable(invoices[p], credited \cup {x})
    <3>1. Summable(invoices[p], Ids) /\ credited \cup {x} \subseteq Ids
      BY <1>4, InvoicesSummable DEF TypeOK, HistoryTypes
    <3> QED BY <3>1, FS_Subset DEF Summable
  <2>4. SumFunctionOnSet(invoices[p], credited \cup {x}) = invoices[p][x] + ledger[p]
    <3>1. PICK f : f = invoices[p]
      OBVIOUS
    <3>2. Summable(f, credited \cup {x})
      BY <2>3, <3>1
    <3>3. SumFunctionOnSet(f, credited \cup {x})
            = f[x] + SumFunctionOnSet(f, credited)
      BY <2>2, <3>2, SumGains
    <3> QED BY <2>1, <3>1, <3>3
  <2>5. ledger[p] \in Nat
    BY DEF TypeOK, HistoryTypes
  <2>6. CASE p = w.for
    <3>1. invoices[p][x] = w.qty /\ w.qty \in Nat
      BY <1>4, <1>7, <2>6, LimitsAssumption DEF StoredOnly
    <3>2. ledger'[p] = ledger[p] + w.qty
      BY <1>2, <2>6 DEF TypeOK, HistoryTypes
    <3> QED BY <2>4, <2>5, <3>1, <3>2
  <2>7. CASE p # w.for
    <3>1. invoices[p][x] = 0
      BY <1>7, <2>7 DEF StoredOnly
    <3>2. ledger'[p] = ledger[p]
      BY <1>2, <2>7 DEF TypeOK, HistoryTypes
    <3> QED BY <2>4, <2>5, <3>1, <3>2
  <2> QED BY <2>6, <2>7
<1> QED
  BY <1>6, <1>8, <1>9 DEF CreditInv, ConfirmationInv

\* A day's record is written: no invoice and no transaction.
LEMMA DayAnswerCredit ==
  ASSUME NEW d \in Devices, NEW r \in reads[d], TypeOK, TypeOK', CreditInv,
         DayAnswer(d, r)
  PROVE  CreditInv'
<1>1. /\ UNCHANGED <<follows, invoices, ledger, credited, confirms>>
      /\ \E w : w.kind = "day" /\ outbox' = [outbox EXCEPT ![d] = Append(@, w)]
  BY DEF DayAnswer, storeVars
<1>2. PICK w : w.kind = "day" /\ outbox' = [outbox EXCEPT ![d] = Append(@, w)]
  BY <1>1
<1>3. outbox[d] \in Seq(Write) /\ outbox'[d] \in Seq(Write)
  BY DEF TypeOK, NetworkTypes
<1>4. outbox'[d] = Append(outbox[d], w)
  BY <1>2 DEF TypeOK, NetworkTypes
<1>5. w \in Write
  <2>1. Len(outbox[d]) + 1 \in DOMAIN Append(outbox[d], w)
    BY <1>3
  <2>2. Append(outbox[d], w)[Len(outbox[d]) + 1] = w
    BY <1>3
  <2> QED BY <1>3, <1>4, <2>1, <2>2
<1>6. outbox[d] \o <<w>> = Append(outbox[d], w) /\ <<w>> \in Seq(Write)
  BY <1>3, <1>5
<1>7. Sends(d, <<w>>)
  BY <1>2, <1>6 DEF TypeOK, NetworkTypes, Sends
<1>8. ASSUME NEW y \in Ids PROVE Confirmation(y)'
  <2>1. SameRecord(y)
    <3>1. confirms \in Nat
      BY LimitsAssumption DEF TypeOK, CountTypes
    <3> QED BY <1>1, <3>1 DEF SameRecord
  <2>2. NoCarrier(<<w>>, y)
    BY <1>2 DEF NoCarrier, CarriesIt
  <2>3. Confirmation(y) /\ NoNewFollow(y)
    BY <1>1 DEF CreditInv, ConfirmationInv, NoNewFollow, Awaits
  <2> QED BY <1>7, <2>1, <2>2, <2>3, AppendedKeeps
<1>9. CreditedSum'
  BY <1>1, KeepsSum DEF CreditInv
<1> QED
  BY <1>8, <1>9 DEF CreditInv, ConfirmationInv

\* Steps that store no invoice and credit nothing.
NoRecordChange == UNCHANGED <<invoices, ledger, credited, confirms>>
FewerFollows == \A e \in Devices : follows'[e] \subseteq follows[e]

\* Any other write may be taken or refused.
LEMMA TakenCredit ==
  ASSUME NEW d \in Devices, TypeOK, TypeOK', CreditInv, Takes(d),
         NoRecordChange, FewerFollows
  PROVE  CreditInv'
<1>1. confirms \in Nat
  BY LimitsAssumption DEF TypeOK, CountTypes
<1>2. ASSUME NEW y \in Ids PROVE Confirmation(y)'
  <2>1. SameRecord(y)
    BY <1>1 DEF SameRecord, NoRecordChange
  <2>2. Confirmation(y) /\ NoNewFollow(y)
    BY DEF CreditInv, ConfirmationInv, NoNewFollow, Awaits, FewerFollows
  <2> QED BY <2>1, <2>2, TakenKeeps
<1>3. CreditedSum'
  BY KeepsSum DEF CreditInv, NoRecordChange
<1> QED
  BY <1>2, <1>3 DEF CreditInv, ConfirmationInv

\* Outboxes stay, or are lost with the process.
LEMMA IdleCredit ==
  ASSUME TypeOK, TypeOK', CreditInv, NoRecordChange, FewerFollows,
         \A e \in Devices : outbox'[e] = outbox[e] \/ outbox'[e] = <<>>
  PROVE  CreditInv'
<1>1. confirms \in Nat
  BY LimitsAssumption DEF TypeOK, CountTypes
<1>2. ASSUME NEW y \in Ids PROVE Confirmation(y)'
  <2>1. SameRecord(y)
    BY <1>1 DEF SameRecord, NoRecordChange
  <2>2. Confirmation(y) /\ NoNewFollow(y)
    BY DEF CreditInv, ConfirmationInv, NoNewFollow, Awaits, FewerFollows
  <2> QED BY <2>1, <2>2, IdleKeeps
<1>3. CreditedSum'
  BY KeepsSum DEF CreditInv, NoRecordChange
<1> QED
  BY <1>2, <1>3 DEF CreditInv, ConfirmationInv

\* Nothing is sent, stored or credited at first.
LEMMA InitCredit == Init => TypeOK /\ CreditInv
<1> SUFFICES ASSUME Init PROVE TypeOK /\ CreditInv
  OBVIOUS
<1>1. TypeOK
  BY InitType
<1>2. ASSUME NEW x \in Ids PROVE Confirmation(x)
  <2>1. /\ \A e \in Devices : \A i : ~Carries(e, i, x)
        /\ \A e \in Devices : \A f : ~Awaits(e, f, x)
    BY DEF Init, Carries, Awaits
  <2>2. Unused(x)
    BY DEF Init, Unused, NotStored
  <2> QED
    BY <2>1, <2>2
    DEF Confirmation, OneCarrier, OneFollow, NotBoth, CarriersOpen, FollowsOpen
<1>3. CreditedSum
  BY SumOfNone DEF Init, CreditedSum
<1> QED
  BY <1>1, <1>2, <1>3 DEF CreditInv, ConfirmationInv

\* Every step keeps a confirmation in one place and the credits the sum of
\* their invoices.
LEMMA NextCredit == TypeOK /\ CreditInv /\ [Next]_vars => TypeOK' /\ CreditInv'
<1> SUFFICES ASSUME TypeOK, CreditInv, [Next]_vars PROVE TypeOK' /\ CreditInv'
  OBVIOUS
<1>1. TypeOK'
  BY NextType
<1>2. ASSUME UNCHANGED <<follows, outbox, storeVars, ledger, credited, confirms>>
      PROVE  CreditInv'
  BY <1>1, <1>2, IdleCredit DEF NoRecordChange, FewerFollows, storeVars
<1>3. ASSUME NEW d \in Devices, User(d) PROVE CreditInv'
  <2>1. ASSUME NEW p \in Products, Choose(d, p) PROVE CreditInv'
    BY <1>2, <2>1 DEF Choose, networkVars, storeVars, historyVars
  <2>2. CASE Back(d)
    BY <1>2, <2>2 DEF Back, networkVars, storeVars, historyVars
  <2>3. ASSUME NEW qty \in 0 .. MaxQty, Confirm(d, qty) PROVE CreditInv'
    BY <1>1, <2>3, ConfirmCredit
  <2> QED BY <1>3, <2>1, <2>2, <2>3 DEF User
<1>4. ASSUME NEW d \in Devices, Network(d) PROVE CreditInv'
  <2>1. ASSUME NEW r \in reads[d], DayAnswer(d, r) PROVE CreditInv'
    BY <1>1, <2>1, DayAnswerCredit
  <2>2. ASSUME NEW f \in follows[d], FollowUp(d, f) PROVE CreditInv'
    BY <1>1, <2>2, FollowUpCredit
  <2>3. CASE ApplyInvoice(d)
    BY <1>1, <2>3, ApplyInvoiceCredit
  <2>4. CASE ApplyTill(d)
    BY <1>1, <2>4, ApplyTillCredit
  <2>5. CASE ApplyDetails(d) \/ ApplyDay(d) \/ ApplyRecent(d)
    <3>1. Takes(d) /\ NoRecordChange /\ FewerFollows
      BY <2>5 DEF ApplyDetails, ApplyDay, ApplyRecent, TakeWrite, Takes,
                  NoRecordChange, FewerFollows, historyVars
    <3> QED BY <1>1, <3>1, TakenCredit
  <2> QED BY <1>4, <2>1, <2>2, <2>3, <2>4, <2>5 DEF Network
<1>5. ASSUME NEW d \in Devices, Failure(d) PROVE CreditInv'
  <2>1. ASSUME NEW r \in reads[d], RefuseRead(d, r) PROVE CreditInv'
    BY <1>2, <2>1 DEF RefuseRead, storeVars, historyVars
  <2>2. CASE RefuseWrite(d)
    <3>1. Takes(d) /\ NoRecordChange /\ FewerFollows
      BY <2>2 DEF RefuseWrite, Takes, NoRecordChange, FewerFollows, storeVars
    <3> QED BY <1>1, <3>1, TakenCredit
  <2>3. CASE Restart(d)
    <3>1. NoRecordChange
      BY <2>3 DEF Restart, NoRecordChange, storeVars
    <3>2. FewerFollows
      BY <2>3 DEF Restart, FewerFollows, TypeOK, NetworkTypes
    <3>3. \A e \in Devices : outbox'[e] = outbox[e] \/ outbox'[e] = <<>>
      BY <2>3 DEF Restart, TypeOK, NetworkTypes
    <3> QED BY <1>1, <3>1, <3>2, <3>3, IdleCredit
  <2> QED BY <1>5, <2>1, <2>2, <2>3 DEF Failure
<1>6. CASE Tick \/ UNCHANGED vars
  <2>1. UNCHANGED <<networkVars, storeVars, historyVars, confirms>>
    BY <1>6 DEF Tick, vars
  <2> QED BY <1>1, <1>2, <2>1 DEF networkVars, historyVars
<1> QED
  BY <1>1, <1>3, <1>4, <1>5, <1>6 DEF Next

\* On any number of devices, a product whose choices did not stray is never
\* credited more than its invoices say.
THEOREM Backed == Spec => []TillBackedByInvoices
<1>1. TypeOK /\ CreditInv /\ TillExactUnlessReselected => TillBackedByInvoices
  <2> SUFFICES ASSUME TypeOK, CreditInv, TillExactUnlessReselected,
                      NEW p \in Products \ strayed
               PROVE  till[p] <= SumFunction(invoices[p])
    BY DEF TillBackedByInvoices
  <2>1. till[p] = SumFunctionOnSet(invoices[p], credited)
    BY DEF TillExactUnlessReselected, CreditInv, CreditedSum
  <2>2. credited \in SUBSET Ids
    BY DEF TypeOK, HistoryTypes
  <2>3. SumFunctionOnSet(invoices[p], credited) <= SumFunctionOnSet(invoices[p], Ids)
    BY <2>2, InvoicesSummable, PartAtMost
  <2> QED BY <2>1, <2>3, InvoicesSummable
<1> QED
  BY <1>1, InitCredit, NextCredit, LedgerExact, PTL DEF Spec
=============================================================================
