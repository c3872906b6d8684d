---------------------------- MODULE CategoryStock ----------------------------
(***************************************************************************)
(* The products of a category with their stock position: inward till date  *)
(* less outward till date.  Each visit of the page reads the inwards of    *)
(* every product once and its outwards once per terminal.  The counters    *)
(* that recognise the last answer belong to the State of the visit; the    *)
(* figures are globals, to which a visit left early still adds.            *)
(***************************************************************************)
EXTENDS Integers, FiniteSets, Functions

CONSTANTS
    Products,      \* active products of KIRANAWALA_STORE_11
    Terminals,     \* storeTerminals: POS_2 and POS_11
    Inwards,       \* names the read of a product's inwards
    MaxQty,        \* bound: units inward, and outward at a terminal
    MaxVisits,     \* bound: visits of the page
    MaxRefusals    \* bound: reads the database refuses

ASSUME ProductsAssumption == IsFiniteSet(Products)
ASSUME TerminalsAssumption ==
    IsFiniteSet(Terminals) /\ Terminals # {} /\ Inwards \notin Terminals
ASSUME BoundsAssumption == /\ MaxQty \in Nat
                           /\ MaxVisits \in Nat
                           /\ MaxRefusals \in Nat

VARIABLES
    page,               \* the categories, or the products of one
    visit,              \* the identity of the last State
    listed,             \* barCodeSearchResults: the products of the category
    processed,          \* processedCount: outward reads answered
    inwardProcessed,    \* stockInwardProcessedCount
    retrievingOutward,  \* retrievingStockOutward
    retrievingInward,   \* retrievingStockInward
    sale,               \* salePositionForProductCode, 0 for no entry
    inward,             \* stockInwardForProductCode, 0 for no entry
    reads,              \* reads under way
    storedInward,       \* stockInwards/stockInwardTillDate, 0 for no record
    storedOutward,      \* stockOutwards/<terminal>/stockOutwardTillDate
    refusals,           \* refusals so far
    waiting,            \* history: outward reads of this visit not answered
    answered,           \* history: sums of the outward answers of this visit
    overlapped          \* history: the visit began while outward reads of
                        \* another were under way

stateVars == <<listed, processed, inwardProcessed, retrievingOutward,
               retrievingInward>>
figureVars == <<sale, inward>>
storeVars == <<storedInward, storedOutward>>
historyVars == <<waiting, answered, overlapped>>
vars == <<page, visit, stateVars, figureVars, reads, storeVars, refusals,
          historyVars>>

NoFigures == [p \in Products |-> 0]

Init ==
    /\ page = "categories"
    /\ visit = 0
    /\ listed = {}
    /\ processed = 0
    /\ inwardProcessed = 0
    /\ retrievingOutward = FALSE
    /\ retrievingInward = FALSE
    /\ sale = NoFigures
    /\ inward = NoFigures
    /\ reads = {}
    /\ storedInward = NoFigures
    /\ storedOutward = [p \in Products |-> [t \in Terminals |-> 0]]
    /\ refusals = 0
    /\ waiting = {}
    /\ answered = NoFigures
    /\ overlapped = FALSE

-----------------------------------------------------------------------------
(* The visit.                                                              *)

OutwardReads == {r \in reads : r.from \in Terminals}

FiguresKept == sale
FiguresReset == NoFigures

\* A category is opened, which may have no product: initState clears the
\* figures and sends every read.
OpenCategory(ps) ==
    LET n == visit + 1 IN
    /\ page = "categories"
    /\ visit < MaxVisits
    /\ page' = "products"
    /\ visit' = n
    /\ listed' = ps
    /\ processed' = 0
    /\ inwardProcessed' = 0
    /\ retrievingOutward' = TRUE
    /\ retrievingInward' = TRUE
    /\ sale' = FiguresReset
    /\ inward' = NoFigures
    /\ reads' = reads \cup [visit : {n}, product : ps,
                            from : Terminals \cup {Inwards}]
    /\ waiting' = ps \X Terminals
    /\ answered' = NoFigures
    /\ overlapped' = (OutwardReads # {})
    /\ UNCHANGED <<storeVars, refusals>>

\* The back arrow: the State is disposed, its reads go on.
Leave ==
    /\ page = "products"
    /\ page' = "categories"
    /\ UNCHANGED <<visit, stateVars, figureVars, reads, storeVars, refusals,
                   historyVars>>

-----------------------------------------------------------------------------
(* The answers.                                                            *)

ProcessCount == Cardinality(listed) * Cardinality(Terminals)

CountsSold(qty) == IF qty > 0 THEN 1 ELSE 0

\* A terminal without outwards is counted as well.
CountsOutward(qty) == 1

\* The outwards of the terminals are summed.  A callback counts on the
\* State that sent its read: only that of the last visit is of interest, the
\* others are disposed.
AnswerOutward(r) ==
    LET qty == storedOutward[r.product][r.from] IN
    /\ r.from \in Terminals
    /\ reads' = reads \ {r}
    /\ sale' = [sale EXCEPT ![r.product] = @ + qty]
    /\ IF r.visit = visit
       THEN /\ processed' = processed + CountsOutward(qty)
            /\ retrievingOutward' =
                    (retrievingOutward /\ processed' # ProcessCount)
            /\ waiting' = waiting \ {<<r.product, r.from>>}
            /\ answered' = [answered EXCEPT ![r.product] = @ + qty]
       ELSE UNCHANGED <<processed, retrievingOutward, waiting, answered>>
    /\ UNCHANGED <<page, visit, listed, inwardProcessed, retrievingInward,
                   inward, storeVars, refusals, overlapped>>

CountsAlways(qty) == 1

\* A product that never had an inward is not counted.
CountsInward(qty) == IF qty > 0 THEN 1 ELSE 0

InwardAdded(p, qty) == inward[p] + qty

\* The first figure of a product stays.
InwardFigure(p, qty) == IF inward[p] = 0 THEN qty ELSE inward[p]

AnswerInward(r) ==
    LET qty == storedInward[r.product] IN
    /\ r.from = Inwards
    /\ reads' = reads \ {r}
    /\ inward' = [inward EXCEPT ![r.product] =
                                        InwardFigure(r.product, qty)]
    /\ IF r.visit = visit
       THEN /\ inwardProcessed' = inwardProcessed + CountsInward(qty)
            /\ retrievingInward' =
                    (retrievingInward /\ inwardProcessed' # Cardinality(listed))
       ELSE UNCHANGED <<inwardProcessed, retrievingInward>>
    /\ UNCHANGED <<page, visit, listed, processed, retrievingOutward, sale,
                   storeVars, refusals, historyVars>>

\* A read completes with an error, to which no handler is attached.
RefuseRead(r) ==
    /\ refusals < MaxRefusals
    /\ refusals' = refusals + 1
    /\ reads' = reads \ {r}
    /\ UNCHANGED <<page, visit, stateVars, figureVars, storeVars, historyVars>>

-----------------------------------------------------------------------------
(* The pages and terminals that write the figures.                         *)

RecordInward(p) ==
    /\ storedInward[p] < MaxQty
    /\ storedInward' = [storedInward EXCEPT ![p] = @ + 1]
    /\ UNCHANGED <<page, visit, stateVars, figureVars, reads, storedOutward,
                   refusals, historyVars>>

RecordOutward(p, t) ==
    /\ storedOutward[p][t] < MaxQty
    /\ storedOutward' = [storedOutward EXCEPT ![p][t] = @ + 1]
    /\ UNCHANGED <<page, visit, stateVars, figureVars, reads, storedInward,
                   refusals, historyVars>>

User == (\E ps \in SUBSET Products : OpenCategory(ps)) \/ Leave

Network == \E r \in reads : AnswerOutward(r) \/ AnswerInward(r)

Failure == \E r \in reads : RefuseRead(r)

World ==
    \/ \E p \in Products : RecordInward(p)
    \/ \E p \in Products, t \in Terminals : RecordOutward(p, t)

Next == User \/ Network \/ Failure \/ World

Spec == Init /\ [][Next]_vars

\* The database answers; users, terminals and failures need not act.
FairSpec == Spec /\ WF_vars(Network)

-----------------------------------------------------------------------------
Visits == 1 .. MaxVisits
ReadSet == [visit : Visits, product : Products, from : Terminals \cup {Inwards}]
Figures == [Products -> Nat]

\* Every variable holds a value of its kind.
TypeOK ==
    /\ page \in {"categories", "products"}
    /\ visit \in 0 .. MaxVisits
    /\ listed \in SUBSET Products
    /\ processed \in Nat
    /\ inwardProcessed \in Nat
    /\ retrievingOutward \in BOOLEAN
    /\ retrievingInward \in BOOLEAN
    /\ sale \in Figures
    /\ inward \in [Products -> 0 .. MaxQty]
    /\ reads \in SUBSET ReadSet
    /\ storedInward \in [Products -> 0 .. MaxQty]
    /\ storedOutward \in [Products -> [Terminals -> 0 .. MaxQty]]
    /\ refusals \in 0 .. MaxRefusals
    /\ waiting \in SUBSET (Products \X Terminals)
    /\ answered \in Figures
    /\ overlapped \in BOOLEAN

-----------------------------------------------------------------------------
\* build shows the list as soon as one of the two flags is clear.
ListShown == page = "products" /\ ~(retrievingInward /\ retrievingOutward)

\* The list replaces the progress bar only when one of the two halves of the
\* position is complete: the outwards of every terminal have been answered, or
\* every product of the category has its inward.  An answer that an earlier
\* visit left under way does not count for this one.
ListHasOneHalf ==
    ListShown => waiting = {} \/ \A p \in listed : inward[p] > 0

\* "INWARD TILL DATE" is never more than the database holds, whichever visit's
\* answers wrote it.
InwardIsBacked == \A p \in Products : inward[p] <= storedInward[p]

\* "OUTWARD TILL DATE" is never more than the terminals have sold, unless the
\* category was opened while reads of an earlier visit were under way: those
\* are added to the same figures.
OutwardIsBacked ==
    ~overlapped => \A p \in Products : sale[p] <= SumFunction(storedOutward[p])

\* The promise of a page that gathers answers.
Outward == INSTANCE Gathering
               WITH Reads <- Products \X Terminals, Keys <- Products,
                    total <- sale, spoiled <- overlapped,
                    shown <- visit > 0 /\ ~retrievingOutward

\* The outwards are complete when every terminal has answered for every
\* product, and not before; they are then the sums of these answers, each
\* counted once, unless the visit overlapped another.
ImplementsGathering == Outward!Spec

\* The progress bar goes away, whether or not the products have inwards,
\* unless the category is empty or a read is refused.
ListAppears ==
    page = "products" /\ listed # {} ~> ListShown \/ page = "categories" \/ refusals > 0
=============================================================================
