---------------------------- MODULE StockInward ----------------------------
(***************************************************************************)
(* Stock inward: the cart a store keeper fills on a phone or tablet, and   *)
(* its upload to the Firebase Realtime Database shared by every device.    *)
(*                                                                         *)
(* A device is one process of the app.  Its cart is made of globals of     *)
(* check-if-admin.dart; the cart page is a State object that counts the    *)
(* acknowledgements of the upload it started.  An upload of one product is *)
(* a once() read of stockInwardTillDate, a callback that sends three       *)
(* writes, and an acknowledgement.  The writes of a device reach the       *)
(* database in the order they were sent; nothing orders two devices.       *)
(*                                                                         *)
(* Some operators stand before the one they are a slip of (CountChange and *)
(* CountChangeNeverDown): no action uses them, they show that a property   *)
(* notices the slip.                                                       *)
(***************************************************************************)
EXTENDS Integers, Sequences, FiniteSets, Functions

CONSTANTS
    Devices,     \* processes of the app, each with its own globals
    Products,    \* skus of products of KIRANAWALA_STORE_11
    Price,       \* productPrice of each product
    MaxQty,      \* bound: units of one product in one cart
    MaxPages,    \* bound: cart pages opened on one device
    MaxRefusals, \* bound: writes the database refuses
    MaxNow,      \* bound: readings of the clock, in seconds
    DayLength,   \* seconds in a day
    Asserts      \* TRUE in a debug build, where setState checks `mounted'

ASSUME ProductsAssumption == IsFiniteSet(Products)
ASSUME PriceAssumption == Price \in [Products -> Nat \ {0}]
ASSUME BoundsAssumption == /\ MaxQty \in Nat
                           /\ MaxPages \in Nat
                           /\ MaxRefusals \in Nat
                           /\ MaxNow \in Nat
                           /\ DayLength \in Nat \ {0}
                           /\ Asserts \in BOOLEAN

VARIABLES
    cart,          \* cartProductMap: units of a product, 0 for no entry
    cartProducts,  \* the list the cart page shows; its elements are the map's
    productCount, itemCount, cartTotal,
    page,          \* what the device shows
    opened,        \* cart pages opened so far: the identity of the last State
    uploaded,      \* invoicedProductsUploaded of each State
    successful,    \* stockInwardUploadSuccessful
    tasks,         \* product uploads that have not reached the database
    outbox,        \* writes sent and not yet applied, in order
    acks,          \* acknowledgements on their way to the callbacks
    till,          \* products/<sku>/stockInwards/stockInwardTillDate
    recent,        \* products/<sku>/stockInwards/recentStockInward*
    invoices,      \* products/<sku>/stockInwards/invoices/<id>: qty, 0 if none
    dayInward,     \* products/<sku>/stockInwards/<yyyy>/<MM>/<dd>
    headers,       \* stores/KIRANAWALA_STORE_11/stockInwards/<id>
    now,           \* the clock
    carried,       \* history: what completed uploads left in the cart
    overlapped,    \* history: products once uploaded twice at the same time
    refused,       \* history: products a write of which was once refused
    refusals,      \* history: writes refused so far
    ledger,        \* history: units the applied till-date writes stand for
    orders         \* history: what each State was asked to upload

deviceVars == <<cart, cartProducts, productCount, itemCount, cartTotal,
                page, opened, uploaded, successful>>
networkVars == <<tasks, outbox, acks>>
storeVars == <<till, recent, invoices, dayInward, headers>>
historyVars == <<carried, overlapped, refused, refusals, ledger, orders>>
vars == <<deviceVars, networkVars, storeVars, now, historyVars>>

Pages == 1 .. MaxPages
Times == 0 .. MaxNow
DayOf(t) == t \div DayLength
Days == {DayOf(t) : t \in Times}

Entries(c) == {p \in Products : c[p] > 0}
InCart(d) == Entries(cart[d])
NoCart == [p \in Products |-> 0]

\* Sums over the cart, as the counters of the pages are meant to hold them.
Units(c) == SumFunction(c)
Amount(c) == SumFunction([p \in Products |-> Price[p] * c[p]])

NoInward == [id |-> -1, qty |-> 0]
NoHeader == [count |-> -1]
NoOrder == [lines |-> {}, landed |-> {}, failed |-> FALSE, clean |-> FALSE]

Phases == {"reading", "answered", "sent"}

-----------------------------------------------------------------------------
Init ==
    /\ cart = [d \in Devices |-> NoCart]
    /\ cartProducts = [d \in Devices |-> {}]
    /\ productCount = [d \in Devices |-> 0]
    /\ itemCount = [d \in Devices |-> 0]
    /\ cartTotal = [d \in Devices |-> 0]
    /\ page = [d \in Devices |-> "shop"]
    /\ opened = [d \in Devices |-> 0]
    /\ uploaded = [d \in Devices |-> [g \in Pages |-> 0]]
    /\ successful = [d \in Devices |-> TRUE]
    /\ tasks = [d \in Devices |-> {}]
    /\ outbox = [d \in Devices |-> <<>>]
    /\ acks = [d \in Devices |-> {}]
    /\ till = [p \in Products |-> 0]
    /\ recent = [p \in Products |-> NoInward]
    /\ invoices = [p \in Products |-> [t \in Times |-> 0]]
    /\ dayInward = [p \in Products |-> [y \in Days |-> NoInward]]
    /\ headers = [t \in Times |-> NoHeader]
    /\ now = 0
    /\ carried = [d \in Devices |-> NoCart]
    /\ overlapped = {}
    /\ refused = {}
    /\ refusals = 0
    /\ ledger = [p \in Products |-> 0]
    /\ orders = [d \in Devices |-> [g \in Pages |-> NoOrder]]

-----------------------------------------------------------------------------
(* The cart.  Every handler ends by rebuilding cartProducts from the map.  *)

\* Entries gained when the units of a product go from `before' to `after'.
CountChangeNeverDown(before, after) == IF before = 0 THEN 1 ELSE 0
CountChange(before, after) ==
    (IF before = 0 THEN 1 ELSE 0) - (IF after = 0 THEN 1 ELSE 0)

\* The map, the list and the counters once the cart holds qty units of p.
SetQty(d, p, qty) ==
    LET units == qty - cart[d][p] IN
    /\ cart' = [cart EXCEPT ![d][p] = qty]
    /\ cartProducts' = [cartProducts EXCEPT
                            ![d] = {q \in Products : cart'[d][q] > 0}]
    /\ productCount' = [productCount EXCEPT
                            ![d] = @ + CountChange(cart[d][p], qty)]
    /\ itemCount' = [itemCount EXCEPT ![d] = @ + units]
    /\ cartTotal' = [cartTotal EXCEPT ![d] = @ + units * Price[p]]
    /\ UNCHANGED <<page, opened, uploaded, successful,
                   networkVars, storeVars, now, historyVars>>

\* `+1' of the product sheet: a new entry of one unit, or one unit more.
AddOne(d, p) ==
    /\ page[d] = "shop"
    /\ cart[d][p] < MaxQty
    /\ SetQty(d, p, cart[d][p] + 1)

\* `-1' of the product sheet; the entry goes with its last unit.  Without an
\* entry only the list is rebuilt.
RemoveOneUnchecked(d, p) ==
    /\ page[d] = "shop"
    /\ SetQty(d, p, cart[d][p] - 1)

RemoveOne(d, p) ==
    /\ page[d] = "shop"
    /\ SetQty(d, p, IF p \in InCart(d) THEN cart[d][p] - 1 ELSE 0)

\* `DELETE' of the product sheet, which rebuilds the list in any case too.
DeleteLine(d, p) ==
    /\ page[d] = "shop"
    /\ SetQty(d, p, 0)

\* The `+' and `-' of a tile of the cart page.
CartPlus(d, p) ==
    /\ page[d] = "cart"
    /\ p \in cartProducts[d]
    /\ cart[d][p] < MaxQty
    /\ SetQty(d, p, cart[d][p] + 1)

CartMinus(d, p) ==
    /\ page[d] = "cart"
    /\ p \in cartProducts[d]
    /\ SetQty(d, p, cart[d][p] - 1)

-----------------------------------------------------------------------------
(* Navigation.                                                             *)

\* The bottom bar opens the cart page when the total is positive: a new
\* State, whose initState clears both flags.
OpenCart(d) ==
    /\ page[d] = "shop"
    /\ cartTotal[d] > 0
    /\ opened[d] < MaxPages
    /\ opened' = [opened EXCEPT ![d] = @ + 1]
    /\ page' = [page EXCEPT ![d] = "cart"]
    /\ successful' = [successful EXCEPT ![d] = FALSE]
    /\ UNCHANGED <<cart, cartProducts, productCount, itemCount, cartTotal,
                   uploaded, networkVars, storeVars, now, historyVars>>

\* The back arrow, which the page also shows while it uploads: the State is
\* disposed, the reads and writes it started go on.
Leave(d) ==
    /\ page[d] \in {"cart", "uploading", "status"}
    /\ page' = [page EXCEPT ![d] = "shop"]
    /\ UNCHANGED <<cart, cartProducts, productCount, itemCount, cartTotal,
                   opened, uploaded, successful,
                   networkVars, storeVars, now, historyVars>>

-----------------------------------------------------------------------------
(* The upload.                                                             *)

Outstanding(p) == \E d \in Devices : \E t \in tasks[d] : t.sku = p

HeaderWrite(d) ==
    [kind |-> "header", id |-> now, count |-> productCount[d],
     items |-> itemCount[d], amount |-> cartTotal[d],
     lines |-> [p \in Products |-> IF p \in cartProducts[d]
                                  THEN cart[d][p] ELSE 0],
     carried |-> carried[d]]

NewTask(d, p) ==
    [page |-> opened[d], sku |-> p, qty |-> cart[d][p], id |-> now,
     phase |-> "reading", base |-> 0]

\* `PROCEED TO UPDATE': the store's invoice is written, and one upload per
\* product of the list begins.  There is no guard on an empty list.
Proceed(d) ==
    /\ page[d] = "cart"
    /\ page' = [page EXCEPT ![d] = "uploading"]
    /\ uploaded' = [uploaded EXCEPT ![d][opened[d]] = 0]
    /\ outbox' = [outbox EXCEPT ![d] = Append(@, HeaderWrite(d))]
    /\ tasks' = [tasks EXCEPT
                    ![d] = @ \cup {NewTask(d, p) : p \in cartProducts[d]}]
    /\ overlapped' = overlapped \cup {p \in cartProducts[d] : Outstanding(p)}
    /\ orders' = [orders EXCEPT ![d][opened[d]] =
                    [lines |-> cartProducts[d], landed |-> {}, failed |-> FALSE,
                     clean |-> /\ carried[d] = NoCart
                               /\ tasks[d] = {}
                               /\ acks[d] = {}]]
    /\ UNCHANGED <<cart, cartProducts, productCount, itemCount, cartTotal,
                   opened, successful, acks, storeVars, now, carried,
                   refused, refusals, ledger>>

NewTillTwice(t) == t.base + t.qty + t.qty
NewTill(t) == t.base + t.qty

PendingTill(d, p) ==
    {i \in DOMAIN outbox[d] : /\ outbox[d][i].kind = "till"
                              /\ outbox[d][i].task.sku = p}

\* What once() answers on device d: the client shows the last of its own
\* writes before the database has applied it.
LocalTillUnread(d, p) == {0}

LocalTill(d, p) ==
    LET pending == PendingTill(d, p) IN
    IF pending = {} THEN {till[p]}
    ELSE {NewTill(outbox[d][i].task) :
            i \in {i \in pending : \A j \in pending : j <= i}}

Answer(d, t) ==
    /\ t.phase = "reading"
    /\ \E base \in LocalTill(d, t.sku) :
        tasks' = [tasks EXCEPT ![d] = (@ \ {t}) \cup
                    {[t EXCEPT !.phase = "answered", !.base = base]}]
    /\ UNCHANGED <<deviceVars, outbox, acks, storeVars, now, historyVars>>

\* The read is refused: no handler is attached to it, so nothing is sent and
\* nothing is noted.
ReadFails(d, t) ==
    /\ t.phase = "reading"
    /\ tasks' = [tasks EXCEPT ![d] = @ \ {t}]
    /\ orders' = [orders EXCEPT ![d][t.page].failed = TRUE]
    /\ UNCHANGED <<deviceVars, outbox, acks, storeVars, now,
                   carried, overlapped, refused, refusals, ledger>>

\* The callback of the read.  The invoice id is the one taken when the upload
\* began, the day is taken from the clock again.
ProductWritesTillFirst(t) ==
    << [kind |-> "till", task |-> t],
       [kind |-> "invoice", sku |-> t.sku, id |-> t.id, qty |-> t.qty],
       [kind |-> "day", sku |-> t.sku, day |-> DayOf(now), id |-> t.id,
        qty |-> t.qty] >>

ProductWrites(t) ==
    << [kind |-> "invoice", sku |-> t.sku, id |-> t.id, qty |-> t.qty],
       [kind |-> "day", sku |-> t.sku, day |-> DayOf(now), id |-> t.id,
        qty |-> t.qty],
       [kind |-> "till", task |-> t] >>

Callback(d, t) ==
    LET sent == [t EXCEPT !.phase = "sent"] IN
    /\ t.phase = "answered"
    /\ tasks' = [tasks EXCEPT ![d] = (@ \ {t}) \cup {sent}]
    /\ outbox' = [outbox EXCEPT ![d] = @ \o ProductWrites(sent)]
    /\ UNCHANGED <<deviceVars, acks, storeVars, now, historyVars>>

\* The database applies the oldest write of a device.
TakeWrite(d, kind) ==
    /\ outbox[d] # <<>>
    /\ Head(outbox[d]).kind = kind
    /\ outbox' = [outbox EXCEPT ![d] = Tail(@)]

ApplyHeader(d) ==
    LET w == Head(outbox[d]) IN
    /\ TakeWrite(d, "header")
    /\ headers' = [headers EXCEPT ![w.id] = w]
    /\ UNCHANGED <<deviceVars, tasks, acks, till, recent, invoices, dayInward,
                   now, historyVars>>

ApplyInvoice(d) ==
    LET w == Head(outbox[d]) IN
    /\ TakeWrite(d, "invoice")
    /\ invoices' = [invoices EXCEPT ![w.sku][w.id] = w.qty]
    /\ UNCHANGED <<deviceVars, tasks, acks, till, recent, dayInward, headers,
                   now, historyVars>>

ApplyDay(d) ==
    LET w == Head(outbox[d]) IN
    /\ TakeWrite(d, "day")
    /\ dayInward' = [dayInward EXCEPT
                        ![w.sku][w.day] = [id |-> w.id, qty |-> w.qty]]
    /\ UNCHANGED <<deviceVars, tasks, acks, till, recent, invoices, headers,
                   now, historyVars>>

ApplyTill(d) ==
    LET t == Head(outbox[d]).task IN
    /\ TakeWrite(d, "till")
    /\ till' = [till EXCEPT ![t.sku] = NewTill(t)]
    /\ recent' = [recent EXCEPT ![t.sku] = [id |-> t.id, qty |-> t.qty]]
    /\ tasks' = [tasks EXCEPT ![d] = @ \ {t}]
    /\ acks' = [acks EXCEPT ![d] = @ \cup {[page |-> t.page, sku |-> t.sku]}]
    /\ ledger' = [ledger EXCEPT ![t.sku] = @ + t.qty]
    /\ orders' = [orders EXCEPT ![d][t.page].landed = @ \cup {t.sku}]
    /\ UNCHANGED <<deviceVars, invoices, dayInward, headers, now,
                   carried, overlapped, refused, refusals>>

\* The database refuses a write.  catchError belongs to the last of the three
\* writes of a product and clears the flag; the others have no handler.
Refuse(d, kind) ==
    /\ refusals < MaxRefusals
    /\ refusals' = refusals + 1
    /\ TakeWrite(d, kind)

RefuseTill(d) ==
    LET t == Head(outbox[d]).task IN
    /\ Refuse(d, "till")
    /\ tasks' = [tasks EXCEPT ![d] = @ \ {t}]
    /\ successful' = [successful EXCEPT ![d] = FALSE]
    /\ orders' = [orders EXCEPT ![d][t.page].failed = TRUE]
    /\ refused' = refused \cup {t.sku}
    /\ UNCHANGED <<cart, cartProducts, productCount, itemCount, cartTotal,
                   page, opened, uploaded, acks, storeVars, now,
                   carried, overlapped, ledger>>

RefuseRecord(d) ==
    /\ \E kind \in {"header", "invoice", "day"} : Refuse(d, kind)
    /\ refused' = refused \cup (IF Head(outbox[d]).kind = "header" THEN {}
                                ELSE {Head(outbox[d]).sku})
    /\ UNCHANGED <<deviceVars, tasks, acks, storeVars, now,
                   carried, overlapped, ledger, orders>>

-----------------------------------------------------------------------------
(* The acknowledgement.                                                    *)

\* The body of the last setState: the list and the counters, not the map.
ClearCartKeepsTotal(d) ==
    /\ cartProducts' = [cartProducts EXCEPT ![d] = {}]
    /\ productCount' = [productCount EXCEPT ![d] = 0]
    /\ itemCount' = [itemCount EXCEPT ![d] = 0]
    /\ carried' = [carried EXCEPT ![d] = cart[d]]
    /\ UNCHANGED cartTotal

ClearCart(d) ==
    /\ cartProducts' = [cartProducts EXCEPT ![d] = {}]
    /\ productCount' = [productCount EXCEPT ![d] = 0]
    /\ itemCount' = [itemCount EXCEPT ![d] = 0]
    /\ cartTotal' = [cartTotal EXCEPT ![d] = 0]
    /\ carried' = [carried EXCEPT ![d] = cart[d]]

CountAck(d, a) ==
    /\ acks' = [acks EXCEPT ![d] = @ \ {a}]
    /\ uploaded' = [uploaded EXCEPT ![d][a.page] = @ + 1]
    /\ UNCHANGED <<cart, opened, tasks, outbox, storeVars, now,
                   overlapped, refused, refusals, ledger, orders>>

LastAny(d, a) == uploaded[d][a.page] + 1 <= productCount[d]
LastLate(d, a) == uploaded[d][a.page] = productCount[d]

\* The acknowledgement is the last one by the count of the bottom bar.
Last(d, a) == uploaded[d][a.page] + 1 = productCount[d]

\* The State that started the upload is still mounted.
Mounted(d, a) == a.page = opened[d] /\ page[d] = "uploading"

AckCounted(d, a) ==
    /\ ~Last(d, a)
    /\ CountAck(d, a)
    /\ UNCHANGED <<cartProducts, productCount, itemCount, cartTotal, page,
                   successful, carried>>

AckCompletes(d, a) ==
    /\ Last(d, a)
    /\ Mounted(d, a)
    /\ CountAck(d, a)
    /\ ClearCart(d)
    /\ successful' = [successful EXCEPT ![d] = TRUE]
    /\ page' = [page EXCEPT ![d] = "status"]

\* After dispose setState throws: in a debug build before its body runs, in a
\* release build after it.  Either way no page is pushed, and the exception
\* ends in the catchError of the write.
AckDisposed(d, a) ==
    /\ Last(d, a)
    /\ ~Mounted(d, a)
    /\ CountAck(d, a)
    /\ \/ /\ Asserts
          /\ UNCHANGED <<cartProducts, productCount, itemCount, cartTotal,
                         carried>>
       \/ /\ ~Asserts
          /\ ClearCart(d)
    /\ successful' = [successful EXCEPT ![d] = FALSE]
    /\ UNCHANGED page

-----------------------------------------------------------------------------
\* The process is killed and started again: its globals, its reads and the
\* writes it had not delivered are gone.  The database keeps what it applied.
Restart(d) ==
    /\ cart' = [cart EXCEPT ![d] = NoCart]
    /\ cartProducts' = [cartProducts EXCEPT ![d] = {}]
    /\ productCount' = [productCount EXCEPT ![d] = 0]
    /\ itemCount' = [itemCount EXCEPT ![d] = 0]
    /\ cartTotal' = [cartTotal EXCEPT ![d] = 0]
    /\ page' = [page EXCEPT ![d] = "shop"]
    /\ successful' = [successful EXCEPT ![d] = TRUE]
    /\ tasks' = [tasks EXCEPT ![d] = {}]
    /\ outbox' = [outbox EXCEPT ![d] = <<>>]
    /\ acks' = [acks EXCEPT ![d] = {}]
    /\ carried' = [carried EXCEPT ![d] = NoCart]
    /\ uploaded' = [uploaded EXCEPT ![d] = [g \in Pages |-> 0]]
    /\ orders' = [orders EXCEPT ![d] = [g \in Pages |-> NoOrder]]
    /\ UNCHANGED <<opened, storeVars, now, overlapped, refused, refusals,
                   ledger>>

Tick ==
    /\ now < MaxNow
    /\ now' = now + 1
    /\ UNCHANGED <<deviceVars, networkVars, storeVars, historyVars>>

User(d) ==
    \/ \E p \in Products : \/ AddOne(d, p)
                           \/ RemoveOne(d, p)
                           \/ DeleteLine(d, p)
                           \/ CartPlus(d, p)
                           \/ CartMinus(d, p)
    \/ OpenCart(d)
    \/ Leave(d)
    \/ Proceed(d)

Network(d) ==
    \/ \E t \in tasks[d] : Answer(d, t) \/ Callback(d, t)
    \/ ApplyHeader(d)
    \/ ApplyInvoice(d)
    \/ ApplyDay(d)
    \/ ApplyTill(d)
    \/ \E a \in acks[d] : \/ AckCounted(d, a)
                          \/ AckCompletes(d, a)
                          \/ AckDisposed(d, a)

Failure(d) ==
    \/ \E t \in tasks[d] : ReadFails(d, t)
    \/ RefuseTill(d)
    \/ RefuseRecord(d)
    \/ Restart(d)

Next == \/ \E d \in Devices : User(d) \/ Network(d) \/ Failure(d)
        \/ Tick

Spec == Init /\ [][Next]_vars

\* The client library retries until the database answers and the event loop
\* runs every callback; users, failures and the clock are not obliged to act.
Fairness == \A d \in Devices : WF_vars(Network(d))

FairSpec == Spec /\ Fairness

-----------------------------------------------------------------------------
(* Types.                                                                  *)

Task == [page : Pages, sku : Products, qty : 1 .. MaxQty, id : Times,
         phase : Phases, base : Nat]

Write == [kind : {"header"}, id : Times, count : Int, items : Int,
          amount : Int, lines : [Products -> Nat],
          carried : [Products -> Nat]]
         \cup [kind : {"invoice"}, sku : Products, id : Times, qty : Nat]
         \cup [kind : {"day"}, sku : Products, day : Days, id : Times,
               qty : Nat]
         \cup [kind : {"till"}, task : Task]

Order == [lines : SUBSET Products, landed : SUBSET Products,
          failed : BOOLEAN, clean : BOOLEAN]

Inward == [id : Times \cup {-1}, qty : Nat]

DeviceTypes ==
    /\ cart \in [Devices -> [Products -> 0 .. MaxQty]]
    /\ cartProducts \in [Devices -> SUBSET Products]
    /\ productCount \in [Devices -> Int]
    /\ itemCount \in [Devices -> Int]
    /\ cartTotal \in [Devices -> Int]
    /\ page \in [Devices -> {"shop", "cart", "uploading", "status"}]
    /\ opened \in [Devices -> 0 .. MaxPages]
    /\ uploaded \in [Devices -> [Pages -> Nat]]
    /\ successful \in [Devices -> BOOLEAN]
    /\ \A d \in Devices :
        /\ page[d] # "shop" => opened[d] \in Pages
        /\ cartProducts[d] \subseteq InCart(d)

NetworkTypes ==
    /\ tasks \in [Devices -> SUBSET Task]
    /\ outbox \in [Devices -> Seq(Write)]
    /\ acks \in [Devices -> SUBSET [page : Pages, sku : Products]]

StoreTypes ==
    /\ till \in [Products -> Nat]
    /\ recent \in [Products -> Inward]
    /\ invoices \in [Products -> [Times -> Nat]]
    /\ dayInward \in [Products -> [Days -> Inward]]
    /\ headers \in [Times -> Write \cup {NoHeader}]
    /\ now \in Times

HistoryTypes ==
    /\ carried \in [Devices -> [Products -> Nat]]
    /\ overlapped \in SUBSET Products
    /\ refused \in SUBSET Products
    /\ refusals \in 0 .. MaxRefusals
    /\ ledger \in [Products -> Nat]
    /\ orders \in [Devices -> [Pages -> Order]]

\* Every variable holds a value of its kind; the counters of a page may be
\* negative, the quantities of a cart and the database's figures may not.
TypeOK == DeviceTypes /\ NetworkTypes /\ StoreTypes /\ HistoryTypes

-----------------------------------------------------------------------------
(* Properties.                                                             *)

\* productCount is the number of entries of the cart minus those the last
\* completed upload left in it: that upload resets the counters and the list
\* and keeps the map (the last setState of show-cart-products), so the count
\* of the next cart is short by exactly that much, and by nothing else however
\* the pages, late acknowledgements and restarts change it.
ProductCountTracksCart ==
    \A d \in Devices :
        productCount[d] = Cardinality(InCart(d))
                            - Cardinality(Entries(carried[d]))

\* The same of the units and of the total of money the bottom bar shows.
TotalsTrackCart ==
    \A d \in Devices :
        /\ itemCount[d] = Units(cart[d]) - Units(carried[d])
        /\ cartTotal[d] = Amount(cart[d]) - Amount(carried[d])

\* An invoice written by a device with no left-over lines counts its own
\* lines and units.
HeaderCountsItsLines ==
    \A t \in Times :
        headers[t] # NoHeader /\ headers[t].carried = NoCart =>
            /\ headers[t].count = Cardinality(Entries(headers[t].lines))
            /\ headers[t].items = Units(headers[t].lines)

\* As long as no two uploads of a product were under way at once,
\* stockInwardTillDate is the total of the uploads whose last write was
\* applied, whatever other products, devices, refusals and restarts do.
LedgerExactWhenSerial ==
    \A p \in Products : p \notin overlapped => till[p] = ledger[p]

\* The read and write of racing uploads can lose units, never invent them,
\* unless a write was refused: its units may already have been read back on
\* the device that sent it.
TillNeverExceedsLedger ==
    \A p \in Products \ refused : till[p] <= ledger[p]

\* recentStockInwardInvoiceId names an invoice the product has, and the day
\* record exists too: the last of the three writes never overtakes the others,
\* and a killed process cannot leave it alone.  Only a refusal can, the three
\* being sent without waiting for each other.
RecentIsBacked ==
    \A p \in Products \ refused :
        recent[p] # NoInward =>
            /\ invoices[p][recent[p].id] > 0
            /\ \E y \in Days : dayInward[p][y] # NoInward

\* The abstract ledger this module implements.
Ledger == INSTANCE InwardLedger WITH MaxUnits <- MaxQty, contended <- overlapped

\* Every step of the app and of the database is a step of the ledger or leaves
\* it alone: uploads of one product can only spoil the figure of that product,
\* and only after they have overlapped.
ImplementsLedger == Ledger!Spec

\* The success page stands for an upload of every line, when the upload began
\* with no left-over lines and no earlier upload under way.
SuccessMeansUploaded ==
    \A d \in Devices :
        LET o == orders[d][opened[d]] IN
        page[d] = "status" /\ o.clean => o.landed = o.lines

\* "Stock Inward for all products uploaded successfully" is printed, and the
\* success page shown, when every product of the list was uploaded.  The code
\* compares the acknowledgements with the count of the bottom bar instead,
\* which is short after an earlier upload.
PrintedSuccessIsTrue ==
    \A d \in Devices :
        LET o == orders[d][opened[d]] IN
        page[d] = "status" => o.landed = o.lines

\* An upload of the kind SuccessMeansUploaded speaks of ends: the keeper sees
\* the status page, leaves, or a read or a last write was refused (the page
\* then waits for ever).
UploadEnds ==
    \A d \in Devices : \A g \in Pages :
        ( /\ page[d] = "uploading" /\ opened[d] = g
          /\ orders[d][g].clean /\ orders[d][g].lines # {} )
        ~> ( \/ page[d] # "uploading" \/ opened[d] # g
             \/ orders[d][g].failed )
=============================================================================
