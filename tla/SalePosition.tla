---------------------------- MODULE SalePosition ----------------------------
(***************************************************************************)
(* The home page: the sale position of the selected date, gathered from    *)
(* one read per terminal, and the online orders of that date, from a       *)
(* listener.  A retrieval begins when the page is opened, when a date is   *)
(* picked, and on refresh; only refresh waits for the one before it.  The  *)
(* answers go to globals, whatever retrieval asked for them, and no        *)
(* listener is ever cancelled.                                             *)
(***************************************************************************)
EXTENDS Integers, FiniteSets, Functions

CONSTANTS
    Terminals,      \* storeTerminals: POS_2 and POS_11
    Dates,          \* dates that can be picked
    Today,          \* the date selected when the process starts
    Orders,         \* online orders
    None,           \* no bills yet
    MaxSale,        \* bound: a terminal's sale on a date
    MaxRetrievals,  \* bound: retrievals in all
    MaxRefusals     \* bound: reads the database refuses

ASSUME TerminalsAssumption == IsFiniteSet(Terminals) /\ Terminals # {}
ASSUME TodayAssumption == Today \in Dates /\ None \notin Dates
ASSUME BoundsAssumption == /\ MaxSale \in Nat
                           /\ MaxRetrievals \in Nat
                           /\ MaxRefusals \in Nat

VARIABLES
    page,          \* the page on show
    date,          \* selectedOnlineSalePositionDate
    processed,     \* terminalsProcessed
    total,         \* totalSaleForSelectedDate
    available,     \* storeSalePositionAvailable
    retrieving,    \* retrievingStoreSalePosition
    details,       \* saleDetailsAtTerminal: the sale of each terminal
    bills,         \* billsAtTerminalForSelectedDate: the date of the bills
    orderMap,      \* the online orders shown, each with its date
    onlineAvailable,
    onlineRetrieving,
    reads,         \* reads of terminals under way
    listeners,     \* listeners of online orders
    news,          \* listeners with an event not yet delivered
    sales,         \* storeTerminals/<terminal>/sales/<date>
    orders,        \* stores/KIRANAWALA_STORE_11/onlineOrders/<date>
    retrievals,    \* retrievals so far: the identity of the last one
    refusals,      \* refusals so far
    unanswered,    \* history: terminals this retrieval waits for
    answered,      \* history: sum of the answers to this retrieval
    overlapped,    \* history: it began while reads of another were under way
    strayed        \* history: a listener of another date has spoken since

storeVars == <<processed, total, available, retrieving, details, bills>>
onlineVars == <<orderMap, onlineAvailable, onlineRetrieving>>
networkVars == <<reads, listeners, news>>
serverVars == <<sales, orders>>
countVars == <<retrievals, refusals>>
historyVars == <<unanswered, answered, overlapped, strayed>>
vars == <<page, date, storeVars, onlineVars, networkVars, serverVars,
          countVars, historyVars>>

\* The process starts before any page is open: the globals' initial values.
Init ==
    /\ page = "closed"
    /\ date = Today
    /\ processed = 0
    /\ total = 0
    /\ available = FALSE
    /\ retrieving = TRUE
    /\ details = [t \in Terminals |-> 0]
    /\ bills = [t \in Terminals |-> None]
    /\ orderMap = {}
    /\ onlineAvailable = FALSE
    /\ onlineRetrieving = TRUE
    /\ reads = {}
    /\ listeners = {}
    /\ news = {}
    /\ sales = [t \in Terminals |-> [d \in Dates |-> 0]]
    /\ orders = [d \in Dates |-> {}]
    /\ retrievals = 0
    /\ refusals = 0
    /\ unanswered = {}
    /\ answered = 0
    /\ overlapped = FALSE
    /\ strayed = FALSE

-----------------------------------------------------------------------------
(* The page.                                                               *)

TotalKept == total
TotalReset == 0

OrdersKept == orderMap
OrdersReset == {}

\* getOnlineSalePosition and getStoreSalePostion, of date d.
Retrieve(d) ==
    LET n == retrievals + 1 IN
    /\ retrievals < MaxRetrievals
    /\ retrievals' = n
    /\ date' = d
    /\ onlineAvailable' = FALSE
    /\ onlineRetrieving' = TRUE
    /\ orderMap' = OrdersReset
    /\ listeners' = listeners \cup {[id |-> n, date |-> d]}
    /\ news' = news \cup {[id |-> n, date |-> d]}
    /\ available' = FALSE
    /\ retrieving' = TRUE
    /\ processed' = 0
    /\ total' = TotalReset
    /\ reads' = reads \cup [id : {n}, terminal : Terminals, date : {d}]
    /\ unanswered' = Terminals
    /\ answered' = 0
    /\ overlapped' = (reads # {})
    /\ strayed' = FALSE
    /\ UNCHANGED <<details, bills, serverVars, refusals>>

\* initState, when the process starts and on the way back from other pages.
Open ==
    /\ page # "home"
    /\ page' = "home"
    /\ Retrieve(date)

\* The date picker asks for no permission.
PickDate(d) ==
    /\ page = "home"
    /\ Retrieve(d)
    /\ UNCHANGED page

Refresh ==
    /\ page = "home"
    /\ ~retrieving /\ ~onlineRetrieving
    /\ Retrieve(date)
    /\ UNCHANGED page

\* The total leads to the bills, the count of online orders to the orders.
LeaveFor(next) ==
    /\ page = "home"
    /\ \/ next = "bills" /\ available
       \/ next = "orders" /\ onlineAvailable /\ orderMap # {}
    /\ page' = next
    /\ UNCHANGED <<date, storeVars, onlineVars, networkVars, serverVars,
                   countVars, historyVars>>

-----------------------------------------------------------------------------
(* The answers.                                                            *)

CountedIfSold(amount) == IF amount > 0 THEN 1 ELSE 0

\* A terminal without a record is counted as well.
Counted(amount) == 1

\* saleDetailsAtTerminal is set, not added to.
Detail(t, amount) == amount

BillsOnce(t, d, amount) ==
    IF amount > 0 /\ bills[t] = None THEN d ELSE bills[t]

\* The bills of a terminal are replaced by those of its record, if it has one.
Bills(t, d, amount) == IF amount > 0 THEN d ELSE bills[t]

\* A terminal answers: its record, if there is one, goes to the totals and
\* the maps; its count may be the last.
Answer(r) ==
    LET amount == sales[r.terminal][r.date] IN
    /\ reads' = reads \ {r}
    /\ details' = [details EXCEPT ![r.terminal] = Detail(r.terminal, amount)]
    /\ bills' = [bills EXCEPT ![r.terminal] = Bills(r.terminal, r.date, amount)]
    /\ total' = total + amount
    /\ processed' = processed + Counted(amount)
    /\ IF processed' = Cardinality(Terminals)
       THEN available' = TRUE /\ retrieving' = FALSE
       ELSE UNCHANGED <<available, retrieving>>
    /\ IF r.id = retrievals
       THEN /\ unanswered' = unanswered \ {r.terminal}
            /\ answered' = answered + amount
       ELSE UNCHANGED <<unanswered, answered>>
    /\ UNCHANGED <<page, date, onlineVars, listeners, news, serverVars,
                   countVars, overlapped, strayed>>

\* A read completes with an error, to which no handler is attached.
RefuseRead(r) ==
    /\ refusals < MaxRefusals
    /\ refusals' = refusals + 1
    /\ reads' = reads \ {r}
    /\ UNCHANGED <<page, date, storeVars, onlineVars, listeners, news,
                   serverVars, retrievals, historyVars>>

HeardOnce(l) == listeners \ {l}

\* The listener goes on after its first event.
Heard(l) == listeners

\* An event of a listener: its orders are put into the map of the moment.
Deliver(l) ==
    /\ news' = news \ {l}
    /\ listeners' = Heard(l)
    /\ orderMap' = orderMap \cup {[date |-> l.date, order |-> o] :
                                    o \in orders[l.date]}
    /\ onlineAvailable' = TRUE
    /\ onlineRetrieving' = FALSE
    /\ strayed' = (strayed \/ l.date # date)
    /\ UNCHANGED <<page, date, storeVars, reads, serverVars, countVars,
                   unanswered, answered, overlapped>>

-----------------------------------------------------------------------------
(* The terminals and the customers.                                        *)

Sell(t, d) ==
    /\ sales[t][d] < MaxSale
    /\ sales' = [sales EXCEPT ![t][d] = @ + 1]
    /\ UNCHANGED <<page, date, storeVars, onlineVars, networkVars, orders,
                   countVars, historyVars>>

\* An order is placed: the listeners of its date hear of it.
PlaceOrder(d, o) ==
    /\ \A e \in Dates : o \notin orders[e]
    /\ orders' = [orders EXCEPT ![d] = @ \cup {o}]
    /\ news' = news \cup {l \in listeners : l.date = d}
    /\ UNCHANGED <<page, date, storeVars, onlineVars, reads, listeners, sales,
                   countVars, historyVars>>

User ==
    \/ Open
    \/ \E d \in Dates : PickDate(d)
    \/ Refresh
    \/ \E next \in {"bills", "orders"} : LeaveFor(next)

Network ==
    \/ \E r \in reads : Answer(r)
    \/ \E l \in news : Deliver(l)

Failure == \E r \in reads : RefuseRead(r)

World ==
    \/ \E t \in Terminals, d \in Dates : Sell(t, d)
    \/ \E d \in Dates, o \in Orders : PlaceOrder(d, o)

Next == User \/ Network \/ Failure \/ World

Spec == Init /\ [][Next]_vars

\* Answers and events arrive; the user, the shops and the failures need not.
FairSpec == Spec /\ WF_vars(Network)

-----------------------------------------------------------------------------
Retrievals == 1 .. MaxRetrievals
ReadSet == [id : Retrievals, terminal : Terminals, date : Dates]
ListenerSet == [id : Retrievals, date : Dates]
OrderSet == [date : Dates, order : Orders]

PageTypes ==
    /\ page \in {"closed", "home", "bills", "orders"}
    /\ date \in Dates

StoreTypes ==
    /\ processed \in Nat
    /\ total \in Nat
    /\ available \in BOOLEAN
    /\ retrieving \in BOOLEAN
    /\ details \in [Terminals -> 0 .. MaxSale]
    /\ bills \in [Terminals -> Dates \cup {None}]

OnlineTypes ==
    /\ orderMap \in SUBSET OrderSet
    /\ onlineAvailable \in BOOLEAN
    /\ onlineRetrieving \in BOOLEAN

NetworkTypes ==
    /\ reads \in SUBSET ReadSet
    /\ listeners \in SUBSET ListenerSet
    /\ news \in SUBSET ListenerSet

ServerTypes ==
    /\ sales \in [Terminals -> [Dates -> 0 .. MaxSale]]
    /\ orders \in [Dates -> SUBSET Orders]

CountTypes ==
    /\ retrievals \in 0 .. MaxRetrievals
    /\ refusals \in 0 .. MaxRefusals

HistoryTypes ==
    /\ unanswered \in SUBSET Terminals
    /\ answered \in Nat
    /\ overlapped \in BOOLEAN
    /\ strayed \in BOOLEAN

\* Every variable holds a value of its kind.
TypeOK ==
    /\ PageTypes
    /\ StoreTypes
    /\ OnlineTypes
    /\ NetworkTypes
    /\ ServerTypes
    /\ CountTypes
    /\ HistoryTypes

-----------------------------------------------------------------------------
SaleOf(d) == SumFunction([t \in Terminals |-> sales[t][d]])
DetailsTotal == SumFunction(details)

\* "Total Sale" is a total of the selected date: it never exceeds what the
\* terminals have sold on it, unless the date was picked while another
\* retrieval was under way.
TotalWithinSales == ~overlapped => total <= SaleOf(date)

\* The total of the page and the details the page of each store adds up again
\* agree, once the page shows them.
DetailsAddUp == available /\ ~overlapped => total = DetailsTotal

\* The bills kept for a terminal are of the selected date wherever the details
\* of that date show a sale.  For a terminal without one the bills of another
\* date may remain: the map is never cleared.
BillsMatchDetails ==
    available /\ ~overlapped =>
        \A t \in Terminals : details[t] > 0 => bills[t] = date

\* Orders placed while the page is open are not missed: when the events of the
\* selected date have been delivered, the map has all its orders.
OrdersComplete ==
    onlineAvailable /\ (\A l \in news : l.date # date)
        => orders[date] \subseteq {m.order : m \in {m \in orderMap : m.date = date}}

\* The online orders counted next to the selected date are of that date, until
\* a listener of a date selected earlier speaks: a retrieval leaves none of the
\* orders shown before it, and no other event brings any.
OrdersStrayByEvents ==
    ~strayed => \A m \in orderMap : m.date = date

\* The promise of a page that gathers answers.
Sale == INSTANCE Gathering
            WITH Reads <- Terminals, Keys <- {"sale"},
                 waiting <- unanswered, total <- [k \in {"sale"} |-> total],
                 answered <- [k \in {"sale"} |-> answered],
                 shown <- available, spoiled <- overlapped

\* The sale position is shown when every terminal has answered and not before,
\* and is the sum of their answers, each counted once, unless it overlapped.
ImplementsGathering == Sale!Spec

\* A retrieval ends, overlapped or not: the page shows a total or the keeper
\* has gone, unless a read was refused.
RetrievalEnds ==
    page = "home" /\ retrieving ~> ~retrieving \/ refusals > 0

\* totalSaleForSelectedDate is a total of the selected date, whenever shown.
\* The date picker breaks this: it does not wait for the terminals of the date
\* before.
TotalIsOfSelectedDate == available => total <= SaleOf(date)
=============================================================================
