# Kiranawala admin: specifications

Kiranawala admin is a Flutter app with which the keeper of a shop follows the
day's sale, records stock that comes in, and maintains the list of products.
There is no server code: every page talks to the Firebase Realtime Database
(and, for products, to Cloud Firestore, whose copy an Algolia index searches),
and the point-of-sale terminals of the shops write to the same database. Own code
is `lib/` (187 Dart files). `ios/Pods.orig` holds the vendored libraries; of these
the client of the Realtime Database decides what every write and transaction of
the app means, and is modelled too. There are no tests of the app's own.

The app is single-threaded, so what is hard in it is not shared memory but time:

- a handler sends a read or a write and goes on; the **continuation** runs later,
  after other handlers, and reads *globals* (`check-if-admin.dart` 13-510,
  `inventory-manager-home-page.dart` 46-56) that may name another product, date or cart by then;
- a page can be left while its reads and writes are under way, and nothing
  cancels them: their answers arrive at a disposed page or at its successor;
- several devices, and the terminals, change the same records, and most figures
  are read, added to and written back without a transaction;
- a page recognises that several reads are complete by counting answers;
- reads and writes may be refused, mostly with no handler attached, and the
  process may be killed between two of a sequence of writes.

## 1. Inventory

| Component | State | Operations | What must hold | Status |
|---|---|---|---|---|
| Cart and upload of stock inwards (`stock-inward/stock-inward-show-cart-products.dart`, `...-product-options.dart`) | globals of the cart: map, list, three counters; per page a count of acknowledgements; in the database till-date, recent, invoices, day, headers | +1, -1, delete on two pages; open and leave the cart; PROCEED; answer, callback, acknowledgement; refusal; kill | counters agree with the cart; the success page means uploaded; figures add up unless uploads race; records back each other | `StockInward` |
| Stock inward of one product (`request-stock-inward-qty.dart`) | the global `stockInProductToUpdate`; till-date, recent, invoices, the day's record | choose, CONFIRM, back; the two continuations; the transaction | a confirmation is credited to its product, once; a stored invoice is credited | `RequestStockInward` |
| Home page (`show-admin-home-page.dart`) | date, total, details, bills, orders, three flags, a count | open, pick a date, refresh, leave; answers of terminals, events of listeners | total, details, bills and orders are of the date shown | `SalePosition` |
| Stock position of a category (`stock-inward-show-selected-category-products.dart`) | two maps of figures, two counts, two flags | open, leave; answers for inwards and outwards | the list shows complete figures of this category, and appears | `CategoryStock` |
| Product manager (`inventory-manager/...name-lookup`, `-product-lookup`, `-add-new-product-*`, `-update-product-request-name`, `-product-update-*`) | the results, the product chosen, the form; two databases | search, look up, add, rename, reprice, duplicate, delete; their answers | a product keeps its own name; search and sale agree; a sold product has a price | `ProductManager` (categories, brands, discounts left out; status in `ProductStatus`) |
| Status of a product (`inventory-manager/...-product-update-status`, with the searches and the stock inward page that fill its globals) | the products known, the results, the product and the status chosen; the statuses stored | choose, open, toggle, CONFIRM; its answer, which deactivates the duplicates; a change of price, which writes ACTIVE; refusal, kill | the duplicate activated last stays on sale, those it replaces go off sale | `ProductStatus` (deletion left out) |
| Realtime Database client (`ios/Pods.orig/FirebaseDatabase`: `FRepo.m`, `FPersistentConnection.m`, `FSyncTree.m`, `FWriteTree.m`) | the transaction queue, the writes laid over the cache, outstanding puts, held answers, listens | transaction, overwrite, read; connect, lose the connection, restore; every answer | a transaction is applied once and its callback told the truth; writes are not reordered; every call is answered | `DatabaseClient` |
| Other edits of a listed product (category, discount; the sheet of a category) | the same globals | single writes of a field | | not modelled: one write and its answer each |
| Store data, login, version (`check-if-admin.dart`, `inventory-manager-check-if-admin.dart`, the home pages) | the maps all other pages read | load, listen, route to a page | a page opens after its data, once | planned |
| Online stock in manager (`stock-in-manager-online.dart`) | results, two flags, a count | search, scan, gather details, move on | moves on with all details | planned |
| Sale and stock over dates (`sale-position-between-dates/`, `show-product-sale*`, `show-brand-sale*`) | sums, a count of dates times terminals | gather | as the home page's total | planned |
| Bar codes (`inventory-manager-add-new-product-no-barcode.dart` 45-83) | none | check digit | a valid EAN-13 | planned |
| Online product lookup, legacy adding of a product | the same globals, a counter of codes per administrator | single-field edits, adding | codes are not drawn twice | planned |
| Category manager, OTP login, store reset, online orders list, platform projects, pods | | | | not modelled: lists re-written whole, Firebase's own protocol, one removal, read only, generated and third-party code |

**How the parts meet.** All pages of a device share the globals, so a page can act
on a choice made on another. All devices and terminals share the database. Two
parts write `stockInwardTillDate`: the cart's upload, by reading and writing, and
the request page, by a transaction; the category's list reads it. The product
manager's records are those the other parts list. `Gathering` is a promise kept by
two pages, and `InwardLedger` one kept by the two writers. Every read, write and
transaction goes through the database client: what `StockInward` and
`RequestStockInward` take for granted of a write or a transaction is what
`DatabaseClient` examines.

The hazards of each part, at the line where they bite, are in `PROJECT.json`.

## 2. Modules

| Module | What it is |
|---|---|
| `InwardLedger` | what the figure till date promises, whoever writes it |
| `StockInward`, `StockInwardProofs`, `MCStockInward` | cart and upload; implements `InwardLedger` |
| `RequestStockInward`, `RequestStockInwardProofs`, `MCRequestStockInward` | inward of one product; implements `InwardLedger` |
| `SumTheorems` | theorems on sums over finite sets, for the totals of the four page modules |
| `Gathering` | what a page promises that adds up the answers of several reads |
| `SalePosition`, `SalePositionProofs`, `MCSalePosition` | home page; implements `Gathering` with one key |
| `CategoryStock`, `CategoryStockProofs`, `MCCategoryStock` | stock position; implements `Gathering` with one key per product |
| `ProductManager`, `ProductManagerProofs`, `MCProductManager` | products in two databases |
| `ProductStatus`, `ProductStatusProofs`, `MCProductStatus` | status of a product and of its duplicates |
| `DatabaseClient`, `DatabaseClientProofs`, `MCDatabaseClient` | transactions, writes and the connection of the client library |

Conventions. An action is a whole handler or a whole continuation, with
everything it does until it returns to the event loop. A read is a pair of
steps: sending it, and its continuation; the value is the one of delivery
unless the code separates the two (`StockInward` does: `Answer`, `Callback`). The
writes of a device reach the database in the order they were sent, the queue is
`outbox`; nothing orders two devices. A device sees its own queued writes laid
over what is stored (`LocalTill`, `LocalDay`, `Seen`), as the client library
does. Variables marked *history* are not in the code: they record what a
property needs to speak of, and no guard reads them. A few operators stand beside
the one they are a slip of (`CountChange`, `CountChangeNeverDown`); no action uses
them, they serve to see that a property notices the slip. The type invariants of
`SalePosition`, `CategoryStock`, `ProductManager` and `ProductStatus` are theorems,
and no run repeats them.

### StockInward

`cart`, `cartProducts`, `productCount`, `itemCount`, `cartTotal` are the globals
of the same names. `AddOne`, `RemoveOne`, `DeleteLine`, `CartPlus`, `CartMinus`
share `SetQty`, as each handler changes map, list and counters alike. A cart
page is a State with an identity (`opened`), because acknowledgements count on
the State that started the upload. `Proceed` writes the header and starts one
task per product of the list, with no guard on an empty list; a task is read
(`Answer`), sent (`Callback`: three writes without waiting) and acknowledged
when the third is applied (`ApplyTill`). `AckCompletes` is the last `setState`,
which clears the list and the counters *but not the map*; `AckDisposed` is the
same after the page was left, where `setState` throws, before its body in a
debug build (`Asserts`) and after it in a release build. `Restart` is a killed
process; the Realtime Database's queue is in memory only. Amounts are numbers and
prices a function; names and images of the lines are left out. The header's id and
the invoices' are the second of the clock, `now`.

### RequestStockInward

`Confirm` starts a read of the day's record and sends an invoice and the basic
details; `DayAnswer` writes the day's record; `FollowUp`, the continuation of
the applied invoice, sends the recent fields and the transaction. Both read the
global again (`DayTarget`, `FollowTarget`). A transaction is one atomic addition
at the database (`Credit`): what the client library makes of it, and the rare cases in
which it is less than that, is the matter of `DatabaseClient` (findings 3 and 4). The
invoice id of milliseconds is the number of the confirmation. The page of the status
that CONFIRM pushes cannot be built: it imports `inventory-manager-store-stock-position.dart`,
whose own `stockInProductToUpdate` (116) nothing assigns, and reads a name from it (63).
It says nothing of an inward, then, and what leads away from it is the system's back
(`Back`).

### SalePosition and CategoryStock

In both a retrieval or visit has a number, so that a late answer can be told from
one of the present. In `SalePosition` the counters are globals and every answer
counts (`Answer`); listeners of online orders accumulate, `news` holds those with
an undelivered event. One figure stands for the seven that are added up in the
same statements. In `CategoryStock` the counters belong to the State, so that
late answers do not count, but the figures are globals and they do add up; the
outwards are summed, the first inward stays, and a product without one is not
counted. Nothing is persisted by either page: a killed process is `Init` again
and is not a step.

### ProductManager

`results` is `barCodeSearchResultsMap` reduced to the name of a code; `sku`,
`nextCode` and `draft` are `skuToUpdate`, `nextProductCode` and `newProductName`.
A code is the second in which the form was opened (`Draw`). Every edit is
confirmed by one handler that sends a write to Firestore (`docbox`) and one to the
Realtime Database (`outbox`); `Delete` sends the second only, `RepriceHalf` the
first only, because the handler throws between them when a late search has
emptied the entry it reads; `DuplicateThrows` draws a code and ends there for the same
reason. The answers act through the globals of the moment.
`AnswerSearch` may come at any time in a release build: every keystroke sends a
query. The Algolia index is read as Firestore's documents of that moment; a lag
of the index adds nothing to names, as a name once given stays *given*. The
capital letters of names, which the code treats differently in the two
databases, are not told apart. The pages of a product and of its edits are one page.

### ProductStatus

A barcode may have several products, its duplicates, one of which is to be on
sale. `full` and `results` are `fullProductBasicDetailsMap` and `barCodeSearchResultsMap`
reduced to the products in them, `sku` and `selected` are `skuToUpdate` and
`selectedStatus`. `Confirm` sends one write; `Answer` is its continuation, which
takes product and status from the globals of *its* moment, deactivates the
duplicates known when CONFIRM was pressed (`others`), in any order of the map and
without waiting, and closes the page; `AnswerThrows` is the same when a search has
emptied the results by then. `AnswerSearch` and `Load` replace the results whatever
page is open: a query runs on every keystroke, and the stock inward page loads all
products into the same map. `Reprice` is CONFIRM of CHANGE PRODUCT PRICE: it writes
the whole record, and `'productStatus': 'ACTIVE'` with it
(`inventory-manager-product-update-overwrite-price.dart` 258), to a product that may
have been deactivated, so that a duplicate which was replaced is on sale again beside
the one that replaced it; `AnswerPrice` is its continuation. A write under way has an
`op`, which says which of the three it is: a status, a duplicate's, a price. Duplicates
may be off sale at the start. Creating a duplicate and adding a product also write
ACTIVE, of a new record (`NewDuplicate`). Histories: `wanted` is the product activated
last, `covers` the duplicates its confirmation was to replace, less those a price stored
since has put on sale again, `crossed` says that a
deactivation of it was under way when it was stored, `astray` that an answer met
other globals than its confirmation, `failed` that something was refused, lost in a
kill or ended in an exception.

### DatabaseClient

One location, the figure till date of a product; `Transact` is
`runTransactionBlock` (adds one), `Overwrite` is `set` or `update`, `Read` a read
elsewhere, which matters because an outstanding listen holds answers back. `repo`
is `FRepo` with what `FSyncTree` and `FWriteTree` keep for it: per operation its
status, output, place among the writes laid over the cache (`stamp`), retries and
what its callback was told (`report`). `link` is `FPersistentConnection`: puts not
yet acknowledged, answers held back, callbacks still to run, listens without an
answer. Handlers are compositions of operators on `repo` as they are compositions of
methods (`Rerun` is `rerunTransactionsForPath`: `RerunQueue`, then `SendAllReady`);
`Settle` is the end of every handler, where puts go out and listens start or stop. All
callbacks of the library run on one serial queue, so a handler is one action, and
only the callbacks of a loop are actions of their own (`Callback`), before
which nothing else happens (`Idle`). `Drop` loses what travels and cancels the
transactions that were sent. The database is external: it takes requests in order,
stores a put whose hash matches, and sends the data of a change before the answer.

## 3. Runs

| Run | Instance | Question |
|---|---|---|
| `stock_inward_cart` | 1 device, 2 products, 2 cart pages, 1 refusal; release build | counters, totals, success page, till date and backed records through every order of taps, uploads, late acknowledgements, kills |
| `stock_inward_race` | 2 devices, 1 product, up to 2 units, 2 days; debug build | exactness unless overlapped, the header counts its lines, refinement of `InwardLedger`, an upload ends |
| `stock_inward_second_upload` | 1 device, 2 products, 2 cart pages | finding: success before every line is uploaded |
| `request_inward` | 1 device, 2 products, 2 confirmations, 1 refusal or 1 midnight | till date exact unless another product was chosen, backed by invoices; the day adds up when serial; every invoice credited; refinement of `InwardLedger` |
| `sale_position_load` | 2 terminals, 2 dates, 1 order, 2 retrievals, 1 refusal | total, details, bills, orders agree; refinement of `Gathering`; a retrieval ends |
| `sale_position_picked_date` | the same without refusals | finding: a total that is not of the date |
| `category_stock` | 2 products, 1 terminal, 2 visits, 1 refusal | which half is complete when the list shows; refinement of `Gathering`; it shows |
| `product_manager` | 1 phone, 2 names, 2 prices, 2 edits, a clock of 2 readings, 1 refusal or kill; release build | own names, the two databases agree, a price for every product |
| `product_status` | 2 devices, 2 duplicates, 2 changes of status or price, 1 late search or load, 1 refusal or kill | the duplicate activated last stays on sale; those it replaces go off sale |
| `database_client` | 3 operations of 1 client, 1 credit by another, 1 read elsewhere, 2 retries, 1 loss of connection or refusal | applied once, truthful reports, no reordering, no undone write seen, units added to the latest figure, every call answered |
| `database_client_late` | the same | finding: a transaction sent with an older run's output |
| `database_client_forgotten` | 5 operations of 1 client, and nothing else | finding: the answer to a forgotten transaction makes a later one lose a unit |

**Why the bounds suffice.** The faults these properties look for need two of
something: two uploads of a product, two lines of which one is left over, two
choices, two retrievals, two edits of a product. Every instance has these two,
and the third repeats the second, as no handler looks at more than the present and
what is under way. Refusals and kills are one at a time because each property either
exempts what one touched or holds whatever they do. `MaxQty` is 1 where units
cannot matter, 2 in the run about totals; the two prices differ so that money
cannot pass for a count. `category_stock` has one terminal and
`sale_position_load` two retrievals: the theorems below cover any number.
`request_inward` has one device, and a midnight or a refusal (`OneDisturbance`, which no step
of `Network` crosses): two devices are in
the theorems about it, which hold for any number. `database_client` has three
operations because its faults need an overwrite, or a committed transaction, before
and behind another; one loss of the connection already reaches every order of
cancelled, held and resent puts, and a second one starts from states of the same
shape. What takes five operations has a run of its own, of nothing else. In
`product_manager` a query finds at most one product and TLC stops at the first answer that goes *astray* (`NotAstray`, a constraint), because no property promises
anything after it. In this run and in `product_status` it also leaves out steps that
cannot matter any more: what a device shows is of no consequence once the edits or
changes are used up and none of its answers is to come (`StepMatters`, `NotOver`); and in
`product_manager` no form is opened or filled in once the edits are used up
(`FormsForEdits`, a bound). The runs' symmetries are of prices, devices and duplicates, and no
liveness is checked under them. `CHECK_DEADLOCK FALSE` is given where the bounds
on retrievals, visits or edits let the instance stop.

**Findings.**
1. After an upload the cart's map keeps its lines while the counter restarts at
   zero; the next upload of those lines and new ones is declared successful when
   as many acknowledgements have come as there are *new* lines
   (`PrintedSuccessIsTrue`).
2. Picking a date does not wait, as refresh does, for the terminals of the date
   before, whose amounts and counts fall into the new total
   (`TotalIsOfSelectedDate`).
3. When a transaction commits, those behind it are sent before they are run
   again (`FRepo.m:1078`, `:1105`), with the output of an older run and the hash of the
   figure now cached. If the answer was held back for a listen while data of
   another client arrived, the hash matches and the other client's unit is
   lost, although `FIRDatabaseReference.h:753` promises that the block runs "again
   with the latest data from the server" (`RunsOnLatestData`, in `database_client_late`).
4. A second overwrite of a location counts only the transactions it marks itself
   (`FRepo.m:1449`), says "We're not waiting for any sent transactions. We can clear the
   queue" and clears one that is on its way, marked by the first. The answer to it,
   whatever it is, runs the queue of later transactions again (`:1105`) on the figure
   without the writes of that *whole* queue (`:1158`), also of the one already sent. The
   one behind it then goes out with an output that lacks a unit and a hash that matches
   (`RunsOnLatestData`, in `database_client_forgotten`). It takes five operations of one
   client, two of them overwrites, and no failure.

For each, a property that holds says exactly how far the fault reaches:
`SuccessMeansUploaded` and `ProductCountTracksCart`, `TotalWithinSales`, `AddsItsUnit`.
That the continuations of the request page credit the product chosen by then, and not
the one confirmed, contradicts no text that is shown to anybody; it is a hazard of the
list, and `TillExactUnlessReselected` says how far it reaches.

**Exemptions.** The properties are exact about when they hold, through history
variables: `overlapped` (two uploads of a product, or two retrievals, were under way
at once), `refused`, `strayed`, `spoiled`, and in the product manager `astray`
(an answer met other globals than its edit was confirmed with) and `excused` (a
deletion, which Firestore is not told of; a price written with a copy of the name
that is not the latest; two devices editing a product at once; a refused or lost
write). In `ProductStatus` they are `crossed`, `astray` and `failed`, explained above, and
the new prices taken out of `covers`:
without either of the first two TLC finds the activated duplicate off sale, and without
the last a replaced one on sale. In
`DatabaseClient` `astray` says that an answer to a transaction was held back (finding 3)
or that one was forgotten (finding 4); `Forgotten` are transactions on their
way when a second overwrite of their location empties the queue (`FRepo.m:1449` keeps
as many as *this* overwrite marked, and says "We're not waiting for any sent
transactions"): answered as stale, they are neither run again nor
reported; `Stranded` are overwrites whose answer was held back when the connection was
lost: it is passed on when the next listen is answered (`FPersistentConnection.m:1078`),
and if there is none, never. What is left is what the code does guarantee,
and each exemption is a hazard of the list. Two consequences for the app are no
property but follow from the model: an unacknowledged plain write is sent
again after a reconnection and then overwrites credits of others made in
between, and a cart's upload aborts a transaction of the same device that is still
pending on that product. Finding 4 came out of the attempt to prove `AddsItsUnit`, and is
why its hypothesis has a history instead of `Forgotten = {}`: with five operations and
the other bounds 0 TLC finds no violation of `AddsItsUnit`, and none with another
client or one failure in addition.

**Fairness.** `FairSpec` gives weak fairness to `Network` (of each device) and to
nothing else: the client libraries retry until the database has answered, and the event
loop runs every callback it was given. Users, clocks, other terminals and
failures are not obliged to act. It is used by `UploadEnds`,
`InvoiceIsCredited`, `RetrievalEnds`, `ListAppears` and `EveryCallEnds`. In
`DatabaseClient` it includes connecting again, which the library does by a timer
for as long as it runs. One conjunct for all of
`Network` is enough, and no more than the code justifies, because the work under
way is finite between two steps of the user. `ProductManager` states no liveness: the
page that adds a product waits for ever on a refused write, and nothing
promises otherwise. `ProductStatus` states what liveness would say as an invariant,
`DuplicatesGiveWay`: a duplicate to be replaced is off sale, or its deactivation is
still under way, or a price stored since has put it on sale again.

## 4. Theorems

All are proved by TLAPS for every value of the constants that satisfies the named
assumptions: `BoundsAssumption`/`LimitsAssumption` (bounds are natural numbers;
there is a first second), finite products and terminals where they are
counted, positive prices, and that a "none" value is not a product, date, name or
price. Devices may be any set.

- **Types.** `TypeCorrect` in the modules with proofs. In `RequestStockInward` the type
  invariant contains `ChosenWhenNeeded`: no continuation finds the global empty. In
  `DatabaseClient` it says that the count of unanswered listens is never negative, which
  follows from `ListenInv`: on a connection the count is that of the listens and
  answers to listens that travel, also when restoring sends the listens again.
- **`StockInwardProofs!LedgerExact`, `Refinement`.** `LedgerExactWhenSerial` is not
  inductive, because a write on its way carries a figure computed from an
  earlier read. `LedgerInv` adds that, for a product whose uploads have not
  overlapped, there is at most one task (`OneUpload`), its write is queued at most
  once (`SentOnce`), and the figure it read is still the one stored
  (`ReadIsFresh`). From it each step is shown to be a step of `InwardLedger` or a
  stutter.
- **`TillWithinLedger`, `RecentBacked`.** These hold where uploads do race. A device's
  writes are applied in the order it sent them, so what a figure relies on, the earlier
  figure it was computed from, the invoice and the record of the day, is stored or
  ahead of it in the same outbox: `BackedInv` says so of every write under way, and
  a restart, which drops a whole outbox, cannot part them.
- **`ProductCount`.** The counter of the bottom bar is the number of entries less
  those the last completed upload left: by cases on whether an entry appears or
  goes, with the cardinality theorems.
- **`SumTheorems`.** The totals are sums over a cart, over invoices, over terminals,
  written with the fold of the community modules, which takes the elements in an
  order nobody specifies. That the order does not matter, and what one changed
  summand does to a sum, would be inductions on the size of the set; here each takes
  a smallest set that violates the claim, removes one element, and finds a smaller one.
- **`Totals`, `HeadersCount`.** With these sums, the totals of the bottom bar are those
  of the map less those of the left-overs. A header is written from the globals when
  the upload begins and stored later: the invariant speaks of headers on their way too
  (`SentHeadersCount`), and of the list, which shows every entry of the map unless a
  completed upload left some in it (`FreshList`).
- **`SuccessUploaded`.** The page compares a count of acknowledgements with a count of
  the cart. `FlightInv` says that a page uploads a product once, with one task
  (`OneTask`) and one write of a figure (`TillsOfTasks`); `CleanInv` says of an upload that
  began clean that everything under way on the device is of its lines, that what was
  counted has landed, and that the counter it is compared with is that of its lines.
- **`RequestStockInwardProofs!LedgerExact`, `Refinement`.** `LedgerInv` adds that a
  queued transaction credits the product that was confirmed, or both products
  have strayed. No condition on other devices is needed: that is what the
  transaction buys over the cart's read and write.
- **`RequestStockInwardProofs!DayExact`.** The day's record is read, added to and
  written back, on any number of devices. `SerialInv`: a record that is not spoiled
  has at most one read or write under way on all devices together
  (`OneRead`, `OneWrite`, `ReadOrWrite`), the write carries the figure stored plus its
  own units (`TotalAdds`), and the figure is the sum of what was applied.
- **`RequestStockInwardProofs!Backed`.** `CreditInv`: a confirmation is in one place only,
  its invoice on the way, its continuation waiting, its transaction on the way, or none
  of them; the continuation and the transaction carry the product and units of a stored
  invoice unless the product strayed; and the ledger of a product is the sum of its
  credited invoices, which are some of the stored ones.
- **`SalePositionProofs!Refinement`, `OrdersStray`, `BillsMatch`.** `GatherInv`: while a
  retrieval does not overlap another, each read under way belongs to it and to a
  terminal that has not answered (`OwnReads`), the counter is the number of
  terminals less those (`CountsAnswers`), and the total is the sum of the answers.
- **`Within`, `AddUp`.** `SalesInv`: the total is the sum of the details over the terminals
  that have answered, and each of these details is at most what the terminal has stored
  by now. The page shows its figures when every terminal has answered, and then the two
  sums are over the same terminals.
- **`OrdersAllShown`.** `OrdersInv`: the listener of the last retrieval is never
  cancelled, so an order of its date is in the map or in an event still to come,
  although listeners of earlier dates add to the same map.
- **`CategoryStockProofs!Refinement`, `OneHalf`.** The same with a counter of products
  times terminals. `InwardInv` bounds the other counter by the products whose
  inward is known and no longer asked for, so that it reaches the size of the
  category only when every inward is known.
- **`OutwardBacked`.** `OutwardInv` bounds the figure of a product by what the terminals
  that have answered for it have stored; an answer adds one terminal to them.
- **`InwardBacked`.** The figure kept is the one a read brought, and stored
  figures only grow.
- **`ProductManagerProofs!NamesOwn`.** A name travels from a form into a write, into
  a database, into results, and back into a write; `OwnInv` says that it
  belongs to the code it is kept under in each of these places on every device, until
  an answer goes astray.
- **`PricesComplete`.** A code is vouched for when it is excused, or its price is stored or
  in a write under way. `WholeInv` says that every code a database, a result, a page
  or a queue knows of is vouched for; the proof is that nothing takes the voucher
  away: an answer stores the price it takes out of the queue, and a delete, a
  refusal and a restart excuse their codes.
- **`StoresMeet`.** The databases differ while writes are under way, so `SyncInv` compares
  what they will hold: the last write of a queue that decides a field, or the field
  as it is (`EndsWith`), which is a relation and needs no fold. For a code not excused
  one device at most has writes under way, what its two queues leave is the same
  (`Agree`), and a document is there, or made first, when one changes it (`Founded`). The
  last is kept by the vouchers of `WholeInv`: a product that could be chosen has a price
  to come, and as the two sides agree, also a document.
- **`ProductStatusProofs!LastActivatedStays`, `DuplicatesDoGiveWay`.** For the product
  activated last: no deactivation of it is queued and no answer to come would
  send one, as long as none was under way when it was activated. For the duplicates it
  replaces: the answer that deactivates each, or the deactivation itself, is still
  under way, or it is off sale, unless a price was stored of it since. A new price takes
  nothing off sale: its answer sends no write.
- **`DatabaseClientProofs!TransactionsAppliedOnce`, `TransactionsToldTrue`.** `ClientInv`
  says of a transaction in every place it can be in what is known of it (`FateOk`): a put
  holds transactions that FRepo has marked as sent, no two puts, held answers or answers
  of a loop share an operation (`Distinct`, `Apart`), of a transaction one request or one
  answer travels (`Once`, `Either`), what was not sent was not applied (`PutTrue`), and an
  answer says what the database did (`AnswerTrue`). The step that needs all of it is the
  loss of the connection: the puts it cancels and those it keeps are disjoint parts of
  what was outstanding, and only puts never sent go out again as transactions.
- **`DatabaseClientProofs!InOrder`.** `FlowInv`. While writes can be sent, one request or
  one answer travels for each outstanding put, the answers ahead of the requests and both
  in the order of the puts (`Stream`); so the answer that arrives is to the first put.
  Outstanding overwrites are in the order of their calls (`PutsInOrder`), also among the
  puts a lost connection keeps and those it sends again. Then an overwrite the
  database consented to was stored after the older ones, and when the client knows,
  no older one is outstanding that could be stored again (`OrderOk`).
- **`WritesStaySeen`.** `SeenInv` follows a consent from the answer that bears it to the
  callback. The database tells a change before it answers the put that made it, but only
  if it knows that the client listens, and after a reconnection the answer may come ahead
  of the figure. So, while the client listens and is connected, a consent on its way is
  seen already, or its figure travels ahead of it, or is `Coming`: a listen is still
  unanswered, or its answer travels behind the figure. A consent that is held back is seen
  or `Coming`, because `FPersistentConnection` lets it go with the answer to the last
  listen; one that is due is seen. This rests on the count of listens (`ListenInv`), on
  the database knowing of the client what the last listen or unlisten will tell it
  (`Listening`), on nothing travelling ahead of a token (`FirstAuth`), and on figures that
  travel being of ascending versions (`VersionsOk`).

**Model-checked only.** Liveness (`UploadEnds`, `InvoiceIsCredited`, `RetrievalEnds`,
`ListAppears`, `EveryCallEnds`), which is beyond the prover; and `AddsItsUnit`, an action
property of `DatabaseClient` that relates the view of `FRepo` at the run of a transaction
to the writes laid over it, and is not proved yet (section 6).

## 5. Not modelled

Besides the components of the table marked so: layout and formatting; the
authentication of users and rules of the database; in the pages' modules loss of
the network other than as delay and refusal (`DatabaseClient` has it); dispose-time
exceptions other than those of `setState`; Algolia's own indexing. Code that is
never constructed (the page `CheckIfAdmin`, several `show-*` variants) is left out.
Of the client library: queries, merges at several locations, persistence on
disk (the app does not switch it on), `onDisconnect`, and `purgeOutstandingWrites`,
which the app never calls. The rest of `ios/Pods.orig` is transport, cryptography,
storage engines and generated tables, most of it never reached by the app; a
specification of it would be one of those libraries, not of this program.
In `ProductStatus`: a deleted product, and a list page built from results of an earlier
load. The sheet of a product in the list of a category
(`inventory-manager-update-product-options.dart`) changes status and price as the
two pages do, with the same writes, and is modelled with them; its changes of category,
brand and image name no status, and are left out. The like dialogs of the online
product lookup are never called, and the `-orig` pages never constructed.

## 6. Plan

Done, in this order: cart and upload, inward of one product, home page, category's
stock, product manager, the database client, the status of products. What remains:

1. `TillWriters`: `StockInward` and `RequestStockInward` on one database. A
   transaction between the cart's read and write is lost; the exemption becomes
   one of both modules, and the composition implements `InwardLedger`.
2. `StockInManagerOnline` and the pages over dates, as further implementations of
   `Gathering`, with one module parameterised by the reads.
3. `StoreLoader`: loading and routing, with the listener that pushes pages.
4. `BarCode`: the check digit as a function of twelve digits, with the theorem
   that it is a digit and completes the weighted sum to a multiple of ten.
5. Legacy adding: codes from a counter, added to `ProductManager` as a second way
   of `Draw`.
6. A theorem: `AddsItsUnit` of `DatabaseClient`. A put of transactions carries its hash
   plus their number. For the queue: its stamps rise and those not sent are on top;
   with some on their way, the outputs of the others are those counted on from the
   figure without them. For those on their way, until something goes astray: they are
   one put; an overwrite still laid over is above them exactly if its put is behind
   theirs; a listen travels ahead of their put unless the database knows; the figure
   they made travels right ahead of the consent, or is cached.
