------------------------- MODULE RequestStockInward -------------------------
(***************************************************************************)
(* Stock inward of one product: the keeper picks a product among the       *)
(* results of a barcode search, types a quantity and confirms.  CONFIRM    *)
(* starts a read of the day's record and a write of an invoice; the        *)
(* continuation of the read writes the day's record, the continuation of   *)
(* the invoice's write sends the recent fields and a transaction on        *)
(* stockInwardTillDate.  The page closes without waiting for any of them,  *)
(* and every continuation reads the product from the global                *)
(* stockInProductToUpdate when it runs, not when the keeper confirmed.     *)
(***************************************************************************)
EXTENDS Integers, Sequences, FiniteSets, Functions

CONSTANTS
    Devices,      \* processes of the app
    Products,     \* skus
    NoProduct,    \* stockInProductToUpdate before any choice
    MaxQty,       \* bound: units typed at once
    MaxConfirms,  \* bound: confirmations in all
    MaxRefusals,  \* bound: reads and writes the database refuses
    MaxNow,       \* bound: readings of the clock
    DayLength     \* readings in a day

ASSUME ProductAssumption == NoProduct \notin Products
ASSUME LimitsAssumption == /\ MaxQty \in Nat
                           /\ MaxConfirms \in Nat
                           /\ MaxRefusals \in Nat
                           /\ MaxNow \in Nat
                           /\ DayLength \in Nat \ {0}

VARIABLES
    selected,    \* stockInProductToUpdate of each device
    page,        \* what the device shows
    reads,       \* reads of a day's record under way
    follows,     \* continuations of applied invoice writes
    outbox,      \* writes sent and not yet applied, in order
    till,        \* products/<sku>/stockInwards/stockInwardTillDate
    recent,      \* products/<sku>/stockInwards/recentStockInwardQty
    invoices,    \* products/<sku>/stockInwards/invoices: units of each
    dayQty,      \* stockInwards/<ddMMyyyy>/<sku>/stockInwardQty
    details,     \* products with basicDetails
    now,         \* the clock
    confirms,    \* confirmations so far: the identity of the last one
    refusals,    \* refusals so far
    ledger,      \* history: units of the applied transactions, by the
                 \* product that was confirmed
    dayLedger,   \* history: units of the applied day writes
    credited,    \* history: confirmations whose transaction was applied
    lost,        \* history: confirmations a write of which was refused, or
                 \* was under way when the process was killed
    strayed,     \* history: products a transaction was sent to, or kept
                 \* from, by a later choice
    spoiled      \* history: day records whose read and write did not match

deviceVars == <<selected, page>>
networkVars == <<reads, follows, outbox>>
storeVars == <<till, recent, invoices, dayQty, details>>
historyVars == <<ledger, dayLedger, credited, lost, strayed, spoiled>>
vars == <<deviceVars, networkVars, storeVars, now, confirms, refusals,
          historyVars>>

Times == 0 .. MaxNow
Ids == 1 .. MaxConfirms
DayOf(t) == t \div DayLength
Days == {DayOf(t) : t \in Times}

Init ==
    /\ selected = [d \in Devices |-> NoProduct]
    /\ page = [d \in Devices |-> "results"]
    /\ reads = [d \in Devices |-> {}]
    /\ follows = [d \in Devices |-> {}]
    /\ outbox = [d \in Devices |-> <<>>]
    /\ till = [p \in Products |-> 0]
    /\ recent = [p \in Products |-> 0]
    /\ invoices = [p \in Products |-> [i \in Ids |-> 0]]
    /\ dayQty = [p \in Products |-> [y \in Days |-> 0]]
    /\ details = {}
    /\ now = 0
    /\ confirms = 0
    /\ refusals = 0
    /\ ledger = [p \in Products |-> 0]
    /\ dayLedger = [p \in Products |-> [y \in Days |-> 0]]
    /\ credited = {}
    /\ lost = {}
    /\ strayed = {}
    /\ spoiled = {}

-----------------------------------------------------------------------------
(* The pages.                                                              *)

\* A tap on a result: the global changes, whatever is still under way.
Choose(d, p) ==
    /\ page[d] = "results"
    /\ selected' = [selected EXCEPT ![d] = p]
    /\ page' = [page EXCEPT ![d] = "request"]
    /\ UNCHANGED <<networkVars, storeVars, now, confirms, refusals, historyVars>>

\* Back from the request page, or from the page of the status.  The latter
\* cannot be built, so its own way on is not there and the system's remains.
Back(d) ==
    /\ page[d] \in {"request", "status"}
    /\ page' = [page EXCEPT ![d] = "results"]
    /\ UNCHANGED <<selected, networkVars, storeVars, now, confirms, refusals,
                   historyVars>>

\* Reads and writes of a day's record that have not reached the database.
DayPending(p, y) ==
    \E d \in Devices :
        \/ \E r \in reads[d] : r.sku = p /\ r.day = y
        \/ \E i \in DOMAIN outbox[d] : /\ outbox[d][i].kind = "day"
                                       /\ outbox[d][i].sku = p
                                       /\ outbox[d][i].day = y

AcceptedAny(qty) == TRUE
Accepted(qty) == qty > 0

\* The writes CONFIRM sends at once.  The invoice id, of milliseconds, is the
\* confirmation's own.
ConfirmWritesCreditToo(p, qty, id) ==
    << [kind |-> "invoice", id |-> id, sku |-> p, qty |-> qty],
       [kind |-> "till", id |-> id, sku |-> p, qty |-> qty, for |-> p] >>

ConfirmWrites(p, qty, id) ==
    << [kind |-> "invoice", id |-> id, sku |-> p, qty |-> qty],
       [kind |-> "details", sku |-> p] >>

\* CONFIRM: the read of the day's record begins, the writes are sent, the page
\* closes.
Confirm(d, qty) ==
    LET p == selected[d]
        y == DayOf(now)
    IN
    /\ page[d] = "request"
    /\ Accepted(qty)
    /\ confirms < MaxConfirms
    /\ confirms' = confirms + 1
    /\ page' = [page EXCEPT ![d] = "status"]
    /\ reads' = [reads EXCEPT
                    ![d] = @ \cup {[id |-> confirms', sku |-> p, day |-> y,
                                    qty |-> qty]}]
    /\ outbox' = [outbox EXCEPT ![d] = @ \o ConfirmWrites(p, qty, confirms')]
    /\ spoiled' = spoiled \cup (IF DayPending(p, y) THEN {<<p, y>>} ELSE {})
    /\ UNCHANGED <<selected, follows, storeVars, now, refusals,
                   ledger, dayLedger, credited, lost, strayed>>

-----------------------------------------------------------------------------
(* The continuations.                                                      *)

LocalDayUnread(d, p, y) == {0}

\* What once() shows of a day's record: the device's own last write of it, if
\* the database has not applied that yet.
LocalDay(d, p, y) ==
    LET pending == {i \in DOMAIN outbox[d] : /\ outbox[d][i].kind = "day"
                                             /\ outbox[d][i].sku = p
                                             /\ outbox[d][i].day = y} IN
    IF pending = {} THEN {dayQty[p][y]}
    ELSE {outbox[d][i].total : i \in {i \in pending : \A j \in pending : j <= i}}

\* The record the continuation writes: the product of the moment, today.
DayTarget(d, r) == <<selected[d], DayOf(now)>>

DayAnswer(d, r) ==
    LET at == DayTarget(d, r) IN
    /\ \E base \in LocalDay(d, r.sku, r.day) :
        outbox' = [outbox EXCEPT
                    ![d] = Append(@, [kind |-> "day", sku |-> at[1],
                                      day |-> at[2], qty |-> r.qty,
                                      total |-> base + r.qty])]
    /\ reads' = [reads EXCEPT ![d] = @ \ {r}]
    /\ spoiled' = spoiled \cup (IF at = <<r.sku, r.day>> THEN {}
                                ELSE {at, <<r.sku, r.day>>})
    /\ UNCHANGED <<deviceVars, follows, storeVars, now, confirms, refusals,
                   ledger, dayLedger, credited, lost, strayed>>

\* The product the continuation of the invoice's write credits.
FollowTarget(d, f) == selected[d]

FollowWritesRecentOnly(p, f) ==
    << [kind |-> "recent", sku |-> p, qty |-> f.qty] >>

FollowWrites(p, f) ==
    << [kind |-> "recent", sku |-> p, qty |-> f.qty],
       [kind |-> "till", id |-> f.id, sku |-> p, qty |-> f.qty,
        for |-> f.sku] >>

FollowUp(d, f) ==
    LET p == FollowTarget(d, f) IN
    /\ outbox' = [outbox EXCEPT ![d] = @ \o FollowWrites(p, f)]
    /\ follows' = [follows EXCEPT ![d] = @ \ {f}]
    /\ strayed' = strayed \cup (IF p = f.sku THEN {} ELSE {p, f.sku})
    /\ UNCHANGED <<deviceVars, reads, storeVars, now, confirms, refusals,
                   ledger, dayLedger, credited, lost, spoiled>>

-----------------------------------------------------------------------------
(* The database.                                                           *)

TakeWrite(d, kind) ==
    /\ outbox[d] # <<>>
    /\ Head(outbox[d]).kind = kind
    /\ outbox' = [outbox EXCEPT ![d] = Tail(@)]

ApplyInvoice(d) ==
    LET w == Head(outbox[d]) IN
    /\ TakeWrite(d, "invoice")
    /\ invoices' = [invoices EXCEPT ![w.sku][w.id] = w.qty]
    /\ follows' = [follows EXCEPT
                    ![d] = @ \cup {[id |-> w.id, sku |-> w.sku, qty |-> w.qty]}]
    /\ UNCHANGED <<deviceVars, reads, till, recent, dayQty, details, now,
                   confirms, refusals, historyVars>>

ApplyDetails(d) ==
    /\ TakeWrite(d, "details")
    /\ details' = details \cup {Head(outbox[d]).sku}
    /\ UNCHANGED <<deviceVars, reads, follows, till, recent, invoices, dayQty,
                   now, confirms, refusals, historyVars>>

ApplyDay(d) ==
    LET w == Head(outbox[d]) IN
    /\ TakeWrite(d, "day")
    /\ dayQty' = [dayQty EXCEPT ![w.sku][w.day] = w.total]
    /\ dayLedger' = [dayLedger EXCEPT ![w.sku][w.day] = @ + w.qty]
    /\ UNCHANGED <<deviceVars, reads, follows, till, recent, invoices, details,
                   now, confirms, refusals, ledger, credited, lost, strayed,
                   spoiled>>

ApplyRecent(d) ==
    LET w == Head(outbox[d]) IN
    /\ TakeWrite(d, "recent")
    /\ recent' = [recent EXCEPT ![w.sku] = w.qty]
    /\ UNCHANGED <<deviceVars, reads, follows, till, invoices, dayQty, details,
                   now, confirms, refusals, historyVars>>

\* What the transaction makes of the figure it finds.
CreditReplaces(figure, qty) == qty
Credit(figure, qty) == figure + qty

ApplyTill(d) ==
    LET w == Head(outbox[d]) IN
    /\ TakeWrite(d, "till")
    /\ till' = [till EXCEPT ![w.sku] = Credit(@, w.qty)]
    /\ ledger' = [ledger EXCEPT ![w.for] = @ + w.qty]
    /\ credited' = credited \cup {w.id}
    /\ UNCHANGED <<deviceVars, reads, follows, recent, invoices, dayQty,
                   details, now, confirms, refusals, dayLedger, lost,
                   strayed, spoiled>>

\* The confirmations whose credit depends on a set of writes.
IdsOf(writes) == {w.id : w \in {w \in writes : w.kind \in {"invoice", "till"}}}

\* A refusal: no future of this page has an error handler.
RefuseWrite(d) ==
    /\ refusals < MaxRefusals
    /\ refusals' = refusals + 1
    /\ outbox[d] # <<>>
    /\ outbox' = [outbox EXCEPT ![d] = Tail(@)]
    /\ lost' = lost \cup IdsOf({Head(outbox[d])})
    /\ UNCHANGED <<deviceVars, reads, follows, storeVars, now, confirms,
                   ledger, dayLedger, credited, strayed, spoiled>>

RefuseRead(d, r) ==
    /\ refusals < MaxRefusals
    /\ refusals' = refusals + 1
    /\ reads' = [reads EXCEPT ![d] = @ \ {r}]
    /\ UNCHANGED <<deviceVars, follows, outbox, storeVars, now, confirms,
                   historyVars>>

\* The process is killed and started again.
Restart(d) ==
    /\ selected' = [selected EXCEPT ![d] = NoProduct]
    /\ page' = [page EXCEPT ![d] = "results"]
    /\ reads' = [reads EXCEPT ![d] = {}]
    /\ follows' = [follows EXCEPT ![d] = {}]
    /\ outbox' = [outbox EXCEPT ![d] = <<>>]
    /\ lost' = lost \cup IdsOf(Range(outbox[d])) \cup {f.id : f \in follows[d]}
    /\ UNCHANGED <<storeVars, now, confirms, refusals,
                   ledger, dayLedger, credited, strayed, spoiled>>

Tick ==
    /\ now < MaxNow
    /\ now' = now + 1
    /\ UNCHANGED <<deviceVars, networkVars, storeVars, confirms, refusals,
                   historyVars>>

User(d) ==
    \/ \E p \in Products : Choose(d, p)
    \/ \E qty \in 0 .. MaxQty : Confirm(d, qty)
    \/ Back(d)

Network(d) ==
    \/ \E r \in reads[d] : DayAnswer(d, r)
    \/ \E f \in follows[d] : FollowUp(d, f)
    \/ ApplyInvoice(d)
    \/ ApplyDetails(d)
    \/ ApplyDay(d)
    \/ ApplyRecent(d)
    \/ ApplyTill(d)

Failure(d) ==
    \/ \E r \in reads[d] : RefuseRead(d, r)
    \/ RefuseWrite(d)
    \/ Restart(d)

Next == \/ \E d \in Devices : User(d) \/ Network(d) \/ Failure(d)
        \/ Tick

Spec == Init /\ [][Next]_vars
FairSpec == Spec /\ \A d \in Devices : WF_vars(Network(d))

-----------------------------------------------------------------------------
Read == [id : Ids, sku : Products, day : Days, qty : 1 .. MaxQty]
Follow == [id : Ids, sku : Products, qty : 1 .. MaxQty]
Write ==
    [kind : {"invoice"}, id : Ids, sku : Products, qty : 1 .. MaxQty]
    \cup [kind : {"details"}, sku : Products]
    \cup [kind : {"day"}, sku : Products, day : Days, qty : 1 .. MaxQty,
          total : Nat]
    \cup [kind : {"recent"}, sku : Products, qty : 1 .. MaxQty]
    \cup [kind : {"till"}, id : Ids, sku : Products, qty : 1 .. MaxQty,
          for : Products]

DeviceTypes ==
    /\ selected \in [Devices -> Products \cup {NoProduct}]
    /\ page \in [Devices -> {"results", "request", "status"}]

NetworkTypes ==
    /\ reads \in [Devices -> SUBSET Read]
    /\ follows \in [Devices -> SUBSET Follow]
    /\ outbox \in [Devices -> Seq(Write)]

StoreTypes ==
    /\ till \in [Products -> Nat]
    /\ recent \in [Products -> 0 .. MaxQty]
    /\ invoices \in [Products -> [Ids -> 0 .. MaxQty]]
    /\ dayQty \in [Products -> [Days -> Nat]]
    /\ details \in SUBSET Products

CountTypes ==
    /\ now \in Times
    /\ confirms \in 0 .. MaxConfirms
    /\ refusals \in 0 .. MaxRefusals

HistoryTypes ==
    /\ ledger \in [Products -> Nat]
    /\ dayLedger \in [Products -> [Days -> Nat]]
    /\ credited \in SUBSET Ids
    /\ lost \in SUBSET Ids
    /\ strayed \in SUBSET Products
    /\ spoiled \in SUBSET (Products \X Days)

\* A device has chosen a product before it shows the request page, and for as
\* long as one of its reads, writes or continuations can still ask for it: none
\* of them finds the global empty.
ChosenWhenNeeded ==
    \A d \in Devices :
        \/ page[d] # "results"
        \/ reads[d] # {} \/ follows[d] # {} \/ outbox[d] # <<>>
        => selected[d] \in Products

\* Every variable holds a value of its kind.
TypeOK ==
    /\ DeviceTypes
    /\ NetworkTypes
    /\ StoreTypes
    /\ CountTypes
    /\ HistoryTypes
    /\ ChosenWhenNeeded

-----------------------------------------------------------------------------
\* The transaction loses nothing: stockInwardTillDate of a product is the sum
\* of the confirmations credited, however many devices confirm it at once,
\* unless a keeper chose another product before the invoice was acknowledged.
TillExactUnlessReselected ==
    \A p \in Products \ strayed : till[p] = ledger[p]

\* A product is never credited more than its invoices say, unless a choice
\* strayed: the transaction is sent only when the invoice has been stored.
TillBackedByInvoices ==
    \A p \in Products \ strayed : till[p] <= SumFunction(invoices[p])

\* The day's record adds up as long as its reads and writes did not overlap,
\* and no continuation ran for another product or after midnight.
DayExactWhenSerial ==
    \A p \in Products, y \in Days :
        <<p, y>> \notin spoiled => dayQty[p][y] = dayLedger[p][y]

\* The promise of stockInwardTillDate, shared with the cart's upload.
Ledger == INSTANCE InwardLedger WITH MaxUnits <- MaxQty, contended <- strayed

\* A step credits one product with one confirmation of it, or concerns only
\* products that strayed: no overlap of two devices spoils the figure.
ImplementsLedger == Ledger!Spec

\* Every invoice stored is followed by its transaction, unless the database
\* refuses it or the process is killed first: leaving the page, another choice
\* or another device does not keep it away.
InvoiceIsCredited ==
    \A i \in Ids :
        (\E p \in Products : invoices[p][i] > 0) ~> i \in credited \cup lost
=============================================================================
