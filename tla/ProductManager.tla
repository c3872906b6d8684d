---------------------------- MODULE ProductManager ----------------------------
(***************************************************************************)
(* The product manager: products are searched by name or barcode, added,   *)
(* renamed, repriced, duplicated and deleted.  Every edit is written to    *)
(* Cloud Firestore, whose copy the name search reads, and to the Realtime  *)
(* Database, which sells.  Nothing orders the two, and nothing orders two  *)
(* devices.  What an answer changes on the device it finds through globals *)
(* that may name another product by then.                                  *)
(*                                                                         *)
(* Pages without a State of their own that matters are one page here:      *)
(* "product" is the options of a product and the page of each edit.  An    *)
(* answer returns to the search; a user who has moved on stays where he    *)
(* is, or is taken to have gone back himself.                              *)
(***************************************************************************)
EXTENDS Integers, Sequences, FiniteSets

CONSTANTS
    Devices,      \* processes of the app, each with its own globals
    Names,        \* product names, whose capitals are not told apart
    Prices,       \* prices
    NoValue,      \* a field that is absent, or that a write leaves alone
    DraftName,    \* 'PRODUCT NAME', the name of a form just opened
    FirstSecond,  \* the clock at the start: codes below it are taken
    LastSecond,   \* bound: readings of the clock
    MaxEdits,     \* bound: edits confirmed
    MaxHits,      \* bound: products a query finds
    MaxFailures,  \* bound: writes refused, and restarts of the app
    Asserts       \* TRUE in a debug build, where setState checks `mounted'

ASSUME ValuesAssumption == NoValue \notin Names \cup Prices
ASSUME DraftAssumption == DraftName \in Names
ASSUME BoundsAssumption == /\ FirstSecond \in Nat \ {0}
                           /\ LastSecond \in Nat
                           /\ FirstSecond <= LastSecond
                           /\ MaxEdits \in Nat
                           /\ MaxHits \in Nat
                           /\ MaxFailures \in Nat
                           /\ Asserts \in BOOLEAN

VARIABLES
    page,      \* the page on top
    results,   \* barCodeSearchResultsMap: the name of a code, if any
    sku,       \* skuToUpdate
    nextCode,  \* nextProductCode
    draft,     \* newProductName
    outbox,    \* writes to the Realtime Database not answered yet
    docbox,    \* writes to Firestore not applied yet
    stored,    \* stores/KIRANAWALA_STORE_11/products
    docs,      \* Firestore's stores/KIRANAWALA_STORE_11/PRODUCTS
    clock,     \* seconds
    edits,     \* edits confirmed so far
    failures,  \* refusals and restarts so far
    given,     \* history: <<code, name>> confirmed by a user
    astray,    \* history: an answer met other globals than its edit was
               \* confirmed with
    excused    \* history: codes of which the two databases may differ

deviceVars == <<page, results, sku, nextCode, draft>>
queueVars == <<outbox, docbox>>
storeVars == <<stored, docs>>
boundVars == <<clock, edits, failures>>
historyVars == <<given, astray, excused>>
vars == <<deviceVars, queueVars, storeVars, boundVars, historyVars>>

\* DateFormat('yyMMddHHmmss'): the code of a product is the second in which
\* its form was opened.
Codes == 0 .. LastSecond

Absent == [name |-> NoValue, price |-> NoValue]

NoResults == [c \in Codes |-> NoValue]

Init ==
    /\ page = [d \in Devices |-> "search"]
    /\ results = [d \in Devices |-> NoResults]
    /\ sku = [d \in Devices |-> 0]
    /\ nextCode = [d \in Devices |-> 0]
    /\ draft = [d \in Devices |-> DraftName]
    /\ outbox = [d \in Devices |-> <<>>]
    /\ docbox = [d \in Devices |-> <<>>]
    /\ \E n \in Names, p \in Prices :
          /\ stored = [c \in Codes |-> IF c \in 1 .. FirstSecond - 1
                                       THEN [name |-> n, price |-> p]
                                       ELSE Absent]
          /\ given = (1 .. FirstSecond - 1) \X {n}
    /\ docs = stored
    /\ clock = FirstSecond
    /\ edits = 0
    /\ failures = 0
    /\ astray = FALSE
    /\ excused = {}

-----------------------------------------------------------------------------
(* What a write does.                                                      *)

Write(op, code, name, price) ==
    [op |-> op, code |-> code, name |-> name, price |-> price]

Field(new, old) == IF new = NoValue THEN old ELSE new

Overlay(record, w) == [name |-> Field(w.name, record.name),
                       price |-> Field(w.price, record.price)]

\* update creates a record that does not exist, and remove removes it.
StoredAfter(w) ==
    IF w.op = "delete" THEN Absent ELSE Overlay(stored[w.code], w)

DocAfterUpdateLost(w) ==
    IF w.op \in {"add", "duplicate"} THEN Overlay(Absent, w) ELSE docs[w.code]

\* setData replaces a document; updateData, of the name or of the price, fails
\* if there is none.
DocAfter(w) ==
    IF w.op \in {"add", "duplicate"} THEN Overlay(Absent, w)
    ELSE IF docs[w.code] = Absent THEN Absent
    ELSE IF w.op = "rename" THEN [docs[w.code] EXCEPT !.name = w.name]
    ELSE [docs[w.code] EXCEPT !.price = w.price]

Pending(queue, c) == {i \in DOMAIN queue : queue[i].code = c}

InFlight(c) == \E d \in Devices :
    Pending(outbox[d], c) \cup Pending(docbox[d], c) # {}

\* What a device sees of a product in the Realtime Database is what is stored
\* under the writes of its own that are not answered yet: of a field, the newest
\* of those that decide it.
Deciding(d, c, field) == {i \in Pending(outbox[d], c) :
    outbox[d][i].op = "delete" \/ outbox[d][i][field] # NoValue}

Newest(d, c, field) == {i \in Deciding(d, c, field) :
    \A j \in Deciding(d, c, field) : j <= i}

Seen(d, c, field) ==
    IF Newest(d, c, field) = {} THEN stored[c][field]
    ELSE outbox[d][CHOOSE i \in Newest(d, c, field) : TRUE][field]

-----------------------------------------------------------------------------
(* What the history records of an edit.                                    *)

\* Another device has an edit of the same product under way.
Overlaps(d, c) == \E e \in Devices \ {d} :
    Pending(outbox[e], c) \cup Pending(docbox[e], c) # {}

\* The edits w of a device of which the two databases may not agree: a
\* deletion, of which Firestore is not told, a copy of the name that is not
\* the latest, and a product two devices edit at a time.
Divided(d, w) ==
    IF \/ w.op = "delete"
       \/ w.op = "price" /\ w.name # Seen(d, w.code, "name")
       \/ Overlaps(d, w.code)
    THEN {w.code} ELSE {}

\* An edit is confirmed: it is sent to Firestore, then to the Realtime Database.
Confirm(d, w) ==
    /\ edits < MaxEdits
    /\ edits' = edits + 1
    /\ docbox' = [docbox EXCEPT ![d] = Append(@, w)]
    /\ outbox' = [outbox EXCEPT ![d] = Append(@, w)]
    /\ given' = IF w.op \in {"add", "rename", "duplicate"}
                THEN given \cup {<<w.code, w.name>>} ELSE given
    /\ excused' = excused \cup Divided(d, w)
    /\ UNCHANGED <<storeVars, failures, astray>>

-----------------------------------------------------------------------------
(* Searching and choosing a product.                                       *)

DocNames(cs) == [c \in Codes |-> IF c \in cs THEN docs[c].name ELSE NoValue]

\* A query is sent for every text of the search field, so one may always be
\* under way.  The documents cs that match it replace the results, in setState,
\* whichever query was sent last: also when the search page has been left,
\* which only a debug build refuses.
AnswerSearch(d) ==
    /\ page[d] = "search" \/ ~Asserts
    /\ \E cs \in SUBSET {c \in Codes : docs[c] # Absent} :
          /\ Cardinality(cs) <= MaxHits
          /\ results' = [results EXCEPT ![d] = DocNames(cs)]
    /\ UNCHANGED <<page, sku, nextCode, draft, queueVars, storeVars,
                   boundVars, historyVars>>

\* A barcode is looked up in the Realtime Database; what is found is added to
\* the results, which were cleared when the lookup began.
AnswerBarcode(d) ==
    /\ \E cs \in SUBSET {c \in Codes : Seen(d, c, "price") # NoValue} :
          /\ Cardinality(cs) <= MaxHits
          /\ results' = [results EXCEPT ![d] =
                [c \in Codes |-> IF c \in cs THEN Seen(d, c, "name") ELSE @[c]]]
    /\ UNCHANGED <<page, sku, nextCode, draft, queueVars, storeVars,
                   boundVars, historyVars>>

\* Back from the search page, and the start of the lookup of a barcode.
ClearResults(d) ==
    /\ page[d] = "search"
    /\ results' = [results EXCEPT ![d] = NoResults]
    /\ UNCHANGED <<page, sku, nextCode, draft, queueVars, storeVars,
                   boundVars, historyVars>>

\* A product of the list is chosen.
Select(d, c) ==
    /\ page[d] = "search"
    /\ results[d][c] # NoValue
    /\ sku' = [sku EXCEPT ![d] = c]
    /\ page' = [page EXCEPT ![d] = "product"]
    /\ UNCHANGED <<results, nextCode, draft, queueVars, storeVars,
                   boundVars, historyVars>>

Back(d) ==
    /\ page[d] # "search"
    /\ page' = [page EXCEPT ![d] = "search"]
    /\ UNCHANGED <<results, sku, nextCode, draft, queueVars,
                   storeVars, boundVars, historyVars>>

-----------------------------------------------------------------------------
(* The edits.                                                              *)

\* The second in which a code is drawn: no time, or some, has passed.
Draw(s) == /\ s \in clock .. LastSecond
           /\ clock' = s

\* initState of the form of a new product.
OpenForm(d, s) ==
    /\ page[d] = "search"
    /\ Draw(s)
    /\ page' = [page EXCEPT ![d] = "form"]
    /\ nextCode' = [nextCode EXCEPT ![d] = s]
    /\ draft' = [draft EXCEPT ![d] = DraftName]
    /\ UNCHANGED <<results, sku, queueVars, storeVars, edits,
                   failures, historyVars>>

\* The name of the new product is typed.
NameDraft(d, n) ==
    /\ page[d] = "form"
    /\ draft' = [draft EXCEPT ![d] = n]
    /\ UNCHANGED <<page, results, sku, nextCode, queueVars,
                   storeVars, boundVars, historyVars>>

AddFieldsUnpriced(d, p) == Write("add", nextCode[d], draft[d], NoValue)
AddFields(d, p) == Write("add", nextCode[d], draft[d], p)

\* ADD PRODUCT replaces the form by the page that adds.
AddProduct(d, p) ==
    /\ page[d] = "form"
    /\ page' = [page EXCEPT ![d] = "adding"]
    /\ Confirm(d, AddFields(d, p))
    /\ UNCHANGED <<results, sku, nextCode, draft, clock>>

\* CONFIRM of CHANGE PRODUCT NAME.
Rename(d, n) ==
    /\ page[d] = "product"
    /\ Confirm(d, Write("rename", sku[d], n, NoValue))
    /\ UNCHANGED <<deviceVars, clock>>

DraftedName(d) == draft[d]
CopiedName(d) == results[d][sku[d]]

\* CONFIRM of CHANGE PRODUCT PRICE writes the price with the other fields as
\* the results hold them.
Reprice(d, p) ==
    /\ page[d] = "product"
    /\ results[d][sku[d]] # NoValue
    /\ Confirm(d, Write("price", sku[d], CopiedName(d), p))
    /\ UNCHANGED <<deviceVars, clock>>

\* When a search has replaced the results the document is written, and the
\* handler ends there with an exception.
RepriceHalf(d, p) ==
    /\ page[d] = "product"
    /\ results[d][sku[d]] = NoValue
    /\ edits < MaxEdits
    /\ edits' = edits + 1
    /\ docbox' = [docbox EXCEPT
                    ![d] = Append(@, Write("price", sku[d], NoValue, p))]
    /\ excused' = excused \cup {sku[d]}
    /\ UNCHANGED <<deviceVars, outbox, storeVars, clock, failures,
                   given, astray>>

\* CONFIRM of CREATE DUPLICATE: a product of the same name with a price of
\* its own.
Duplicate(d, p, s) ==
    /\ page[d] = "product"
    /\ results[d][sku[d]] # NoValue
    /\ Draw(s)
    /\ nextCode' = [nextCode EXCEPT ![d] = s]
    /\ Confirm(d, Write("duplicate", s, results[d][sku[d]], p))
    /\ UNCHANGED <<page, results, sku, draft>>

\* When a search has replaced the results the code is drawn, and the handler
\* ends with an exception before it has written anything.
DuplicateThrows(d, s) ==
    /\ page[d] = "product"
    /\ results[d][sku[d]] = NoValue
    /\ Draw(s)
    /\ nextCode' = [nextCode EXCEPT ![d] = s]
    /\ UNCHANGED <<page, results, sku, draft, queueVars, storeVars, edits,
                   failures, historyVars>>

\* A product of the list is swiped away: only the Realtime Database is told.
Delete(d, c) ==
    LET w == Write("delete", c, NoValue, NoValue) IN
    /\ page[d] = "search"
    /\ results[d][c] # NoValue
    /\ edits < MaxEdits
    /\ edits' = edits + 1
    /\ sku' = [sku EXCEPT ![d] = c]
    /\ outbox' = [outbox EXCEPT ![d] = Append(@, w)]
    /\ excused' = excused \cup Divided(d, w)
    /\ UNCHANGED <<page, results, nextCode, draft, docbox, storeVars,
                   clock, failures, given, astray>>

-----------------------------------------------------------------------------
(* The answers.                                                            *)

Only(c, n) == [NoResults EXCEPT ![c] = n]

Adds(queue) == {i \in DOMAIN queue : queue[i].op = "add"}

LastAdd(d) == Adds(Tail(outbox[d])) = {}

\* The product is entered in the results under the globals as they are now.
AnswerAdd(d, w) ==
    /\ w.op = "add"
    /\ results' = [results EXCEPT ![d][nextCode[d]] = draft[d]]
    /\ page' = IF page[d] = "adding" /\ LastAdd(d)
               THEN [page EXCEPT ![d] = "search"] ELSE page
    /\ astray' = (astray \/ <<nextCode[d], draft[d]>> # <<w.code, w.name>>)

\* The results become the product the globals name, with the text n that the
\* field has now; without it the handler ends in catchError.
AnswerRename(d, w) ==
    /\ w.op = "rename"
    /\ page' = IF page[d] = "product"
               THEN [page EXCEPT ![d] = "search"] ELSE page
    /\ IF results[d][sku[d]] = NoValue
       THEN UNCHANGED <<results, astray>>
       ELSE \E n \in Names :
               /\ results' = [results EXCEPT ![d] = Only(sku[d], n)]
               /\ astray' = (astray \/ <<sku[d], n>> # <<w.code, w.name>>)

AnswerPrice(d, w) ==
    /\ w.op = "price"
    /\ IF results[d][sku[d]] = NoValue
       THEN UNCHANGED <<results, page>>
       ELSE /\ results' = [results EXCEPT
                            ![d] = Only(sku[d], results[d][sku[d]])]
            /\ page' = IF page[d] = "product"
                       THEN [page EXCEPT ![d] = "search"] ELSE page
    /\ UNCHANGED astray

\* The name is read again, of the product the globals name now.
AnswerDuplicate(d, w) ==
    LET n == results[d][sku[d]] IN
    /\ w.op = "duplicate"
    /\ IF n = NoValue
       THEN UNCHANGED <<results, page, astray>>
       ELSE /\ results' = [results EXCEPT ![d][nextCode[d]] = n]
            /\ page' = IF page[d] = "product"
                       THEN [page EXCEPT ![d] = "search"] ELSE page
            /\ astray' = (astray \/ <<nextCode[d], n>> # <<w.code, w.name>>)

AnswerDelete(d, w) ==
    /\ w.op = "delete"
    /\ results' = [results EXCEPT ![d][sku[d]] = NoValue]
    /\ UNCHANGED <<page, astray>>

\* The Realtime Database stores the oldest write of a device and answers it.
AnswerWrite(d) ==
    /\ outbox[d] # <<>>
    /\ LET w == Head(outbox[d]) IN
       /\ stored' = [stored EXCEPT ![w.code] = StoredAfter(w)]
       /\ outbox' = [outbox EXCEPT ![d] = Tail(@)]
       /\ \/ AnswerAdd(d, w)
          \/ AnswerRename(d, w)
          \/ AnswerPrice(d, w)
          \/ AnswerDuplicate(d, w)
          \/ AnswerDelete(d, w)
    /\ UNCHANGED <<sku, nextCode, draft, docbox, docs, boundVars,
                   given, excused>>

\* Firestore applies the oldest write of a device; nothing waits for it.
ApplyDoc(d) ==
    /\ docbox[d] # <<>>
    /\ LET w == Head(docbox[d]) IN
       docs' = [docs EXCEPT ![w.code] = DocAfter(w)]
    /\ docbox' = [docbox EXCEPT ![d] = Tail(@)]
    /\ UNCHANGED <<deviceVars, outbox, stored, boundVars, historyVars>>

-----------------------------------------------------------------------------
(* Failures.                                                               *)

RefuseWrite(d) ==
    /\ outbox[d] # <<>>
    /\ failures < MaxFailures
    /\ failures' = failures + 1
    /\ excused' = excused \cup {Head(outbox[d]).code}
    /\ outbox' = [outbox EXCEPT ![d] = Tail(@)]
    /\ UNCHANGED <<deviceVars, docbox, storeVars, clock, edits, given,
                   astray>>

RefuseDoc(d) ==
    /\ docbox[d] # <<>>
    /\ failures < MaxFailures
    /\ failures' = failures + 1
    /\ excused' = excused \cup {Head(docbox[d]).code}
    /\ docbox' = [docbox EXCEPT ![d] = Tail(@)]
    /\ UNCHANGED <<deviceVars, outbox, storeVars, clock, edits, given,
                   astray>>

\* The app is killed.  Writes to the Realtime Database are kept in memory only
\* (setPersistenceEnabled is never called), those to Firestore on disk.
Restart(d) ==
    /\ failures < MaxFailures
    /\ failures' = failures + 1
    /\ page' = [page EXCEPT ![d] = "search"]
    /\ results' = [results EXCEPT ![d] = NoResults]
    /\ sku' = [sku EXCEPT ![d] = 0]
    /\ nextCode' = [nextCode EXCEPT ![d] = 0]
    /\ draft' = [draft EXCEPT ![d] = DraftName]
    /\ outbox' = [outbox EXCEPT ![d] = <<>>]
    /\ excused' = excused \cup
                     {outbox[d][i].code : i \in DOMAIN outbox[d]}
    /\ UNCHANGED <<docbox, storeVars, clock, edits, given, astray>>

User(d) ==
    \/ ClearResults(d)
    \/ \E c \in Codes : Select(d, c) \/ Delete(d, c)
    \/ Back(d)
    \/ \E s \in Codes : OpenForm(d, s) \/ DuplicateThrows(d, s)
    \/ \E n \in Names : NameDraft(d, n) \/ Rename(d, n)
    \/ \E p \in Prices :
          \/ AddProduct(d, p)
          \/ Reprice(d, p)
          \/ RepriceHalf(d, p)
          \/ \E s \in Codes : Duplicate(d, p, s)

Network(d) ==
    AnswerSearch(d) \/ AnswerBarcode(d) \/ AnswerWrite(d) \/ ApplyDoc(d)

Failure(d) == RefuseWrite(d) \/ RefuseDoc(d) \/ Restart(d)

Next == \E d \in Devices : User(d) \/ Network(d) \/ Failure(d)

Spec == Init /\ [][Next]_vars

-----------------------------------------------------------------------------
Ops == {"add", "rename", "price", "duplicate", "delete"}
Writes == [op : Ops, code : Codes, name : Names \cup {NoValue},
           price : Prices \cup {NoValue}]
Records == [name : Names \cup {NoValue}, price : Prices \cup {NoValue}]

DeviceTypes ==
    /\ page \in [Devices -> {"search", "product", "form", "adding"}]
    /\ results \in [Devices -> [Codes -> Names \cup {NoValue}]]
    /\ sku \in [Devices -> Codes]
    /\ nextCode \in [Devices -> Codes]
    /\ draft \in [Devices -> Names]

QueueTypes == /\ outbox \in [Devices -> Seq(Writes)]
              /\ docbox \in [Devices -> Seq(Writes)]

StoreTypes == /\ stored \in [Codes -> Records]
              /\ docs \in [Codes -> Records]

BoundTypes == /\ clock \in FirstSecond .. LastSecond
              /\ edits \in 0 .. MaxEdits
              /\ failures \in 0 .. MaxFailures

HistoryTypes == /\ given \in SUBSET (Codes \X Names)
                /\ astray \in BOOLEAN
                /\ excused \in SUBSET Codes

\* Every variable holds a value of its kind.
TypeOK == DeviceTypes /\ QueueTypes /\ StoreTypes /\ BoundTypes /\ HistoryTypes

\* A product is sold under a name some user gave to it, on whichever device,
\* unless an answer has met other globals than its edit was confirmed with:
\* it may then put the name of one product under the code of another, and a
\* change of price writes it there.
NamesAreTheirOwn ==
    ~astray => \A c \in Codes :
        stored[c].name # NoValue => <<c, stored[c].name>> \in given

\* When the writes of a product have arrived, Firestore, which is searched,
\* and the Realtime Database, which sells, hold the same name and price for
\* it, unless it was repriced from a copy that was not the latest, edited on
\* two devices at a time, deleted, or one of its writes was refused or lost.
StoresAgree ==
    ~astray => \A c \in Codes \ excused : InFlight(c) \/ stored[c] = docs[c]

\* A product that is sold has a price, on whichever way its record came about:
\* only the renaming of one that was deleted, or never stored, leaves a record
\* without.
RecordsWhole ==
    ~astray => \A c \in Codes \ excused :
        stored[c].name # NoValue /\ ~InFlight(c) => stored[c].price # NoValue
=============================================================================
