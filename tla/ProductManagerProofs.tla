------------------------ MODULE ProductManagerProofs ------------------------
(***************************************************************************)
(* Proofs about ProductManager, for any devices, names, prices and bounds: *)
(* types, that a product is sold only under a name given to it, that a     *)
(* product on sale has a price, and that the two databases agree once its  *)
(* writes have arrived.  They are inductive only together with the places  *)
(* a name or a code is copied from and to: the results on every device,    *)
(* Firestore, and the writes under way.                                    *)
(***************************************************************************)
EXTENDS ProductManager, TLAPS

\* The codes are numbers, the first of them 0, and those below the first
\* second are among them.
LEMMA CodesFacts == /\ 0 \in Codes
                    /\ FirstSecond .. LastSecond \subseteq Codes
                    /\ 1 .. FirstSecond - 1 \subseteq Codes
  BY BoundsAssumption DEF Codes

\* The initial state is typed.
LEMMA InitType == Init => TypeOK
<1> SUFFICES ASSUME Init PROVE TypeOK
  OBVIOUS
<1>1. DeviceTypes
  BY CodesFacts, DraftAssumption DEF Init, DeviceTypes, NoResults
<1>2. QueueTypes
  BY DEF Init, QueueTypes
<1>3. StoreTypes
  BY DEF Init, StoreTypes, Records, Absent
<1>4. BoundTypes
  BY BoundsAssumption DEF Init, BoundTypes
<1>5. HistoryTypes
  BY CodesFacts DEF Init, HistoryTypes
<1> QED BY <1>1, <1>2, <1>3, <1>4, <1>5 DEF TypeOK

\* A device sees names and no names.
LEMMA SeenType ==
  ASSUME TypeOK, NEW d \in Devices, NEW c \in Codes
  PROVE  Seen(d, c, "name") \in Names \cup {NoValue}
<1> DEFINE N == Newest(d, c, "name")
           i == CHOOSE j \in N : TRUE
<1>1. CASE N = {}
  <2>1. stored[c] \in Records
    BY DEF TypeOK, StoreTypes
  <2> QED BY <1>1, <2>1 DEF Seen, Records
<1>2. CASE N # {}
  <2>1. i \in N
    BY <1>2
  <2>2. i \in DOMAIN outbox[d]
    BY <2>1 DEF Newest, Deciding, Pending
  <2>3. outbox[d] \in Seq(Writes)
    BY DEF TypeOK, QueueTypes
  <2>4. outbox[d][i] \in Writes
    BY <2>2, <2>3
  <2> QED BY <1>2, <2>4 DEF Seen, Writes
<1> QED BY <1>1, <1>2

\* A confirmed edit leaves typed queues, stores and history.
LEMMA ConfirmType ==
  ASSUME TypeOK, NEW d \in Devices, NEW w \in Writes, Confirm(d, w),
         w.op \in {"add", "rename", "duplicate"} => w.name \in Names
  PROVE  /\ QueueTypes' /\ StoreTypes' /\ HistoryTypes'
         /\ edits' \in 0 .. MaxEdits /\ failures' \in 0 .. MaxFailures
<1>1. w.code \in Codes
  BY DEF Writes
<1>2. /\ Append(outbox[d], w) \in Seq(Writes)
      /\ Append(docbox[d], w) \in Seq(Writes)
  BY DEF TypeOK, QueueTypes
<1>3. QueueTypes'
  BY <1>2 DEF TypeOK, QueueTypes, Confirm
<1>4. StoreTypes'
  BY DEF TypeOK, StoreTypes, Confirm, storeVars
<1>5. HistoryTypes'
  BY <1>1 DEF TypeOK, HistoryTypes, Confirm, Divided
<1>6. edits' \in 0 .. MaxEdits /\ failures' \in 0 .. MaxFailures
  BY BoundsAssumption DEF TypeOK, BoundTypes, Confirm
<1> QED BY <1>3, <1>4, <1>5, <1>6

\* Searching and choosing a product leaves typed globals.
LEMMA SearchType ==
  ASSUME TypeOK, NEW d \in Devices,
         \/ AnswerSearch(d)
         \/ AnswerBarcode(d)
         \/ ClearResults(d)
         \/ \E c \in Codes : Select(d, c)
         \/ Back(d)
         \/ \E n \in Names : NameDraft(d, n)
  PROVE  TypeOK'
<1>1. UNCHANGED <<queueVars, storeVars, boundVars, historyVars>>
  BY DEF AnswerSearch, AnswerBarcode, ClearResults, Select, Back, NameDraft
<1>2. DeviceTypes'
  <2>1. CASE AnswerSearch(d)
    <3>1. PICK cs \in SUBSET Codes :
             results' = [results EXCEPT ![d] = DocNames(cs)]
      BY <2>1 DEF AnswerSearch
    <3>2. \A c \in Codes : docs[c].name \in Names \cup {NoValue}
      BY DEF TypeOK, StoreTypes, Records
    <3>3. DocNames(cs) \in [Codes -> Names \cup {NoValue}]
      BY <3>2 DEF DocNames
    <3> QED BY <2>1, <3>1, <3>3 DEF AnswerSearch, TypeOK, DeviceTypes
  <2>2. CASE AnswerBarcode(d)
    <3>1. PICK cs \in SUBSET Codes :
             results' = [results EXCEPT ![d] =
                [c \in Codes |-> IF c \in cs THEN Seen(d, c, "name") ELSE @[c]]]
      BY <2>2 DEF AnswerBarcode
    <3>2. [c \in Codes |-> IF c \in cs THEN Seen(d, c, "name")
                                       ELSE results[d][c]]
             \in [Codes -> Names \cup {NoValue}]
      BY SeenType DEF TypeOK, DeviceTypes
    <3> QED BY <2>2, <3>1, <3>2 DEF AnswerBarcode, TypeOK, DeviceTypes
  <2>3. CASE ClearResults(d)
    BY <2>3 DEF ClearResults, NoResults, TypeOK, DeviceTypes
  <2>4. CASE \E c \in Codes : Select(d, c)
    BY <2>4 DEF Select, TypeOK, DeviceTypes
  <2>5. CASE Back(d)
    BY <2>5 DEF Back, TypeOK, DeviceTypes
  <2>6. CASE \E n \in Names : NameDraft(d, n)
    BY <2>6 DEF NameDraft, TypeOK, DeviceTypes
  <2> QED BY <2>1, <2>2, <2>3, <2>4, <2>5, <2>6
<1> QED BY <1>1, <1>2 DEF TypeOK, QueueTypes, StoreTypes, BoundTypes,
        HistoryTypes, queueVars, storeVars, boundVars, historyVars

\* The writes of the edits are writes.
LEMMA WriteType ==
  ASSUME NEW op \in Ops, NEW c \in Codes, NEW n \in Names \cup {NoValue},
         NEW p \in Prices \cup {NoValue}
  PROVE  Write(op, c, n, p) \in Writes
  BY DEF Write, Writes

\* Opening the form and the edits leave a typed state.
LEMMA EditType ==
  ASSUME TypeOK, NEW d \in Devices,
         \/ \E s \in Codes : OpenForm(d, s) \/ DuplicateThrows(d, s)
         \/ \E n \in Names : Rename(d, n)
         \/ \E p \in Prices : \/ AddProduct(d, p)
                            \/ Reprice(d, p)
                            \/ RepriceHalf(d, p)
                            \/ \E s \in Codes : Duplicate(d, p, s)
         \/ \E c \in Codes : Delete(d, c)
  PROVE  TypeOK'
<1> DEFINE Rest == QueueTypes' /\ StoreTypes' /\ HistoryTypes'
<1>1. sku[d] \in Codes /\ nextCode[d] \in Codes /\ draft[d] \in Names
      /\ \A c \in Codes : results[d][c] \in Names \cup {NoValue}
  BY DEF TypeOK, DeviceTypes
<1>2. \A s \in Codes : Draw(s) => clock' \in FirstSecond .. LastSecond
  BY BoundsAssumption DEF TypeOK, BoundTypes, Draw, Codes
<1>3. CASE \E s \in Codes : OpenForm(d, s) \/ DuplicateThrows(d, s)
  <2>1. PICK s \in Codes : OpenForm(d, s) \/ DuplicateThrows(d, s)
    BY <1>3
  <2>2. DeviceTypes'
    <3>1. CASE OpenForm(d, s)
      BY <3>1, DraftAssumption DEF OpenForm, TypeOK, DeviceTypes
    <3>2. CASE DuplicateThrows(d, s)
      BY <3>2 DEF DuplicateThrows, TypeOK, DeviceTypes
    <3> QED BY <2>1, <3>1, <3>2
  <2>3. BoundTypes'
    BY <2>1, <1>2 DEF OpenForm, DuplicateThrows, TypeOK, BoundTypes
  <2> QED BY <2>1, <2>2, <2>3 DEF OpenForm, DuplicateThrows, TypeOK, QueueTypes,
          StoreTypes, HistoryTypes, queueVars, storeVars, historyVars
<1>4. CASE \E n \in Names : Rename(d, n)
  <2>1. PICK n \in Names : Rename(d, n)
    BY <1>4
  <2> DEFINE w == Write("rename", sku[d], n, NoValue)
  <2>2. w \in Writes /\ w.name \in Names
    BY <1>1, WriteType DEF Ops, Write
  <2>3. Confirm(d, w) /\ UNCHANGED <<deviceVars, clock>>
    BY <2>1 DEF Rename
  <2> HIDE DEF w
  <2>4. Rest /\ edits' \in 0 .. MaxEdits /\ failures' \in 0 .. MaxFailures
    BY <2>2, <2>3, ConfirmType
  <2> QED BY <2>3, <2>4 DEF TypeOK, DeviceTypes, BoundTypes, deviceVars
<1>5. CASE \E p \in Prices : AddProduct(d, p)
  <2>1. PICK p \in Prices : AddProduct(d, p)
    BY <1>5
  <2> DEFINE w == AddFields(d, p)
  <2>2. w \in Writes /\ w.name \in Names
    BY <1>1, WriteType DEF Ops, Write, AddFields
  <2>3. Confirm(d, w) /\ UNCHANGED <<results, sku, nextCode, draft, clock>>
        /\ page' = [page EXCEPT ![d] = "adding"]
    BY <2>1 DEF AddProduct
  <2> HIDE DEF w
  <2>4. Rest /\ edits' \in 0 .. MaxEdits /\ failures' \in 0 .. MaxFailures
    BY <2>2, <2>3, ConfirmType
  <2> QED BY <2>3, <2>4 DEF TypeOK, DeviceTypes, BoundTypes
<1>6. CASE \E p \in Prices : Reprice(d, p)
  <2>1. PICK p \in Prices : Reprice(d, p)
    BY <1>6
  <2> DEFINE w == Write("price", sku[d], CopiedName(d), p)
  <2>2. w \in Writes /\ w.op = "price"
    BY <1>1, WriteType DEF Ops, Write, CopiedName
  <2>3. Confirm(d, w) /\ UNCHANGED <<deviceVars, clock>>
    BY <2>1 DEF Reprice
  <2> HIDE DEF w
  <2>4. Rest /\ edits' \in 0 .. MaxEdits /\ failures' \in 0 .. MaxFailures
    BY <2>2, <2>3, ConfirmType
  <2> QED BY <2>3, <2>4 DEF TypeOK, DeviceTypes, BoundTypes, deviceVars
<1>7. CASE \E p \in Prices : RepriceHalf(d, p)
  <2>1. PICK p \in Prices : RepriceHalf(d, p)
    BY <1>7
  <2> DEFINE w == Write("price", sku[d], NoValue, p)
  <2>2. w \in Writes
    BY <1>1, WriteType DEF Ops
  <2>3. /\ docbox' = [docbox EXCEPT ![d] = Append(@, w)]
        /\ excused' = excused \cup {sku[d]}
        /\ edits < MaxEdits /\ edits' = edits + 1
        /\ UNCHANGED <<deviceVars, outbox, storeVars, clock, failures,
                       given, astray>>
    BY <2>1 DEF RepriceHalf
  <2> HIDE DEF w
  <2>4. Append(docbox[d], w) \in Seq(Writes)
    BY <2>2 DEF TypeOK, QueueTypes
  <2>5. QueueTypes'
    BY <2>3, <2>4 DEF TypeOK, QueueTypes
  <2>6. BoundTypes' /\ HistoryTypes'
    BY <1>1, <2>3, BoundsAssumption DEF TypeOK, BoundTypes, HistoryTypes
  <2> QED BY <2>3, <2>5, <2>6
          DEF TypeOK, DeviceTypes, StoreTypes, deviceVars, storeVars
<1>8. CASE \E p \in Prices, s \in Codes : Duplicate(d, p, s)
  <2>1. PICK p \in Prices, s \in Codes : Duplicate(d, p, s)
    BY <1>8
  <2> DEFINE w == Write("duplicate", s, results[d][sku[d]], p)
  <2>2. w \in Writes /\ w.name \in Names
    BY <1>1, <2>1, WriteType DEF Ops, Write, Duplicate
  <2>3. Confirm(d, w) /\ UNCHANGED <<page, results, sku, draft>>
        /\ nextCode' = [nextCode EXCEPT ![d] = s]
    BY <2>1 DEF Duplicate
  <2>4. clock' \in FirstSecond .. LastSecond
    BY <2>1, <1>2 DEF Duplicate
  <2> HIDE DEF w
  <2>5. Rest /\ edits' \in 0 .. MaxEdits /\ failures' \in 0 .. MaxFailures
    BY <2>2, <2>3, ConfirmType
  <2> QED BY <2>3, <2>4, <2>5 DEF TypeOK, DeviceTypes, BoundTypes
<1>9. CASE \E c \in Codes : Delete(d, c)
  <2>1. PICK c \in Codes : Delete(d, c)
    BY <1>9
  <2> DEFINE w == Write("delete", c, NoValue, NoValue)
  <2>2. w \in Writes /\ w.code = c
    BY WriteType DEF Ops, Write
  <2>3. /\ outbox' = [outbox EXCEPT ![d] = Append(@, w)]
        /\ excused' = excused \cup Divided(d, w)
        /\ sku' = [sku EXCEPT ![d] = c]
        /\ edits < MaxEdits /\ edits' = edits + 1
        /\ UNCHANGED <<page, results, nextCode, draft, docbox, storeVars,
                       clock, failures, given, astray>>
    BY <2>1 DEF Delete
  <2> HIDE DEF w
  <2>4. Append(outbox[d], w) \in Seq(Writes)
    BY <2>2 DEF TypeOK, QueueTypes
  <2>5. QueueTypes'
    BY <2>3, <2>4 DEF TypeOK, QueueTypes
  <2>6. BoundTypes' /\ HistoryTypes'
    BY <2>2, <2>3, BoundsAssumption DEF TypeOK, BoundTypes, HistoryTypes, Divided
  <2>7. DeviceTypes'
    BY <2>3 DEF TypeOK, DeviceTypes
  <2> QED BY <2>3, <2>5, <2>6, <2>7 DEF TypeOK, StoreTypes, storeVars
<1> QED BY <1>3, <1>4, <1>5, <1>6, <1>7, <1>8, <1>9

\* What a write leaves in the two databases is a record.
LEMMA AfterType ==
  ASSUME TypeOK, NEW w \in Writes
  PROVE  StoredAfter(w) \in Records /\ DocAfter(w) \in Records
<1>1. w.code \in Codes /\ w.name \in Names \cup {NoValue}
      /\ w.price \in Prices \cup {NoValue}
  BY DEF Writes
<1>2. stored[w.code] \in Records /\ docs[w.code] \in Records
      /\ Absent \in Records
  BY <1>1 DEF TypeOK, StoreTypes, Records, Absent
<1>3. \A r \in Records : Overlay(r, w) \in Records
  BY <1>1 DEF Overlay, Field, Records
<1>4. StoredAfter(w) \in Records
  BY <1>2, <1>3 DEF StoredAfter
<1>5. /\ [docs[w.code] EXCEPT !.name = w.name] \in Records
      /\ [docs[w.code] EXCEPT !.price = w.price] \in Records
  BY <1>1, <1>2 DEF Records
<1>6. DocAfter(w) \in Records
  BY <1>2, <1>3, <1>5 DEF DocAfter
<1> QED BY <1>4, <1>6

\* Answers, refusals and restarts leave a typed state.
LEMMA AnswerType ==
  ASSUME TypeOK, NEW d \in Devices,
         AnswerWrite(d) \/ ApplyDoc(d) \/ Failure(d)
  PROVE  TypeOK'
<1>1. outbox[d] \in Seq(Writes) /\ docbox[d] \in Seq(Writes)
  BY DEF TypeOK, QueueTypes
<1>2. CASE AnswerWrite(d)
  <2> DEFINE w == Head(outbox[d])
  <2>1. outbox[d] # <<>> /\ w \in Writes /\ Tail(outbox[d]) \in Seq(Writes)
    BY <1>1, <1>2 DEF AnswerWrite
  <2>2. /\ stored' = [stored EXCEPT ![w.code] = StoredAfter(w)]
        /\ outbox' = [outbox EXCEPT ![d] = Tail(@)]
        /\ UNCHANGED <<sku, nextCode, draft, docbox, docs, boundVars,
                       given, excused>>
    BY <1>2 DEF AnswerWrite
  <2>3. AnswerAdd(d, w) \/ AnswerRename(d, w) \/ AnswerPrice(d, w)
        \/ AnswerDuplicate(d, w) \/ AnswerDelete(d, w)
    BY <1>2 DEF AnswerWrite
  <2> HIDE DEF w
  <2>4. sku[d] \in Codes /\ nextCode[d] \in Codes /\ draft[d] \in Names
        /\ \A c \in Codes : results[d][c] \in Names \cup {NoValue}
    BY DEF TypeOK, DeviceTypes
  <2>5. page' \in [Devices -> {"search", "product", "form", "adding"}]
    BY <2>3 DEF AnswerAdd, AnswerRename, AnswerPrice, AnswerDuplicate,
                AnswerDelete, TypeOK, DeviceTypes
  <2>6. results' \in [Devices -> [Codes -> Names \cup {NoValue}]]
    BY <2>3, <2>4 DEF AnswerAdd, AnswerRename, AnswerPrice, AnswerDuplicate,
                AnswerDelete, Only, NoResults, TypeOK, DeviceTypes
  <2>7. astray' \in BOOLEAN
    <3>1. astray' = astray \/ astray' \in BOOLEAN
      BY <2>3, Zenon DEF AnswerAdd, AnswerRename, AnswerPrice, AnswerDuplicate,
                  AnswerDelete
    <3> QED BY <3>1, Zenon DEF TypeOK, HistoryTypes
  <2>8. DeviceTypes'
    BY <2>2, <2>5, <2>6 DEF TypeOK, DeviceTypes
  <2>9. QueueTypes' /\ BoundTypes'
    BY <2>1, <2>2 DEF TypeOK, QueueTypes, BoundTypes, boundVars
  <2>10. StoreTypes'
    BY <2>1, <2>2, AfterType DEF TypeOK, StoreTypes
  <2>11. HistoryTypes'
    BY <2>2, <2>7 DEF TypeOK, HistoryTypes
  <2> QED BY <2>8, <2>9, <2>10, <2>11 DEF TypeOK
<1>3. CASE ApplyDoc(d)
  <2> DEFINE w == Head(docbox[d])
  <2>1. w \in Writes /\ Tail(docbox[d]) \in Seq(Writes)
    BY <1>1, <1>3 DEF ApplyDoc
  <2>2. /\ docs' = [docs EXCEPT ![w.code] = DocAfter(w)]
        /\ docbox' = [docbox EXCEPT ![d] = Tail(@)]
        /\ UNCHANGED <<deviceVars, outbox, stored, boundVars, historyVars>>
    BY <1>3 DEF ApplyDoc
  <2> HIDE DEF w
  <2>3. StoreTypes' /\ QueueTypes'
    BY <2>1, <2>2, AfterType DEF TypeOK, StoreTypes, QueueTypes
  <2> QED BY <2>2, <2>3 DEF TypeOK, DeviceTypes, BoundTypes, HistoryTypes,
          deviceVars, boundVars, historyVars
<1>4. CASE RefuseWrite(d)
  <2>1. Head(outbox[d]).code \in Codes /\ Tail(outbox[d]) \in Seq(Writes)
    <3>1. Head(outbox[d]) \in Writes /\ Tail(outbox[d]) \in Seq(Writes)
      BY <1>1, <1>4 DEF RefuseWrite
    <3> QED BY <3>1 DEF Writes
  <2>2. HistoryTypes'
    BY <1>4, <2>1 DEF RefuseWrite, TypeOK, HistoryTypes
  <2>3. QueueTypes'
    BY <1>4, <2>1 DEF RefuseWrite, TypeOK, QueueTypes
  <2>4. BoundTypes'
    BY <1>4, BoundsAssumption DEF RefuseWrite, TypeOK, BoundTypes
  <2> QED BY <1>4, <2>2, <2>3, <2>4 DEF RefuseWrite, TypeOK, DeviceTypes, StoreTypes,
          deviceVars, storeVars
<1>5. CASE RefuseDoc(d)
  <2>1. Head(docbox[d]).code \in Codes /\ Tail(docbox[d]) \in Seq(Writes)
    <3>1. Head(docbox[d]) \in Writes /\ Tail(docbox[d]) \in Seq(Writes)
      BY <1>1, <1>5 DEF RefuseDoc
    <3> QED BY <3>1 DEF Writes
  <2>2. HistoryTypes'
    BY <1>5, <2>1 DEF RefuseDoc, TypeOK, HistoryTypes
  <2>3. QueueTypes'
    BY <1>5, <2>1 DEF RefuseDoc, TypeOK, QueueTypes
  <2>4. BoundTypes'
    BY <1>5, BoundsAssumption DEF RefuseDoc, TypeOK, BoundTypes
  <2> QED BY <1>5, <2>2, <2>3, <2>4 DEF RefuseDoc, TypeOK, DeviceTypes, StoreTypes,
          deviceVars, storeVars
<1>6. CASE Restart(d)
  <2>1. \A i \in DOMAIN outbox[d] : outbox[d][i].code \in Codes
    <3>1. \A i \in DOMAIN outbox[d] : outbox[d][i] \in Writes
      BY <1>1
    <3> QED BY <3>1 DEF Writes
  <2>2. HistoryTypes' /\ BoundTypes'
    BY <1>6, <2>1, BoundsAssumption DEF Restart, TypeOK, HistoryTypes,
       BoundTypes
  <2>3. QueueTypes'
    BY <1>6 DEF Restart, TypeOK, QueueTypes
  <2>4. DeviceTypes'
    BY <1>6, CodesFacts, DraftAssumption
       DEF Restart, NoResults, TypeOK, DeviceTypes
  <2> QED BY <1>6, <2>2, <2>3, <2>4 DEF Restart, TypeOK, StoreTypes, storeVars
<1> QED BY <1>2, <1>3, <1>4, <1>5, <1>6 DEF Failure

\* The globals, queues and databases of the product manager hold values of
\* their kinds, whatever devices, names and prices there are.
THEOREM TypeCorrect == Spec => []TypeOK
<1>1. Init => TypeOK
  BY InitType
<1>2. TypeOK /\ [Next]_vars => TypeOK'
  <2> SUFFICES ASSUME TypeOK, [Next]_vars PROVE TypeOK'
    OBVIOUS
  <2>1. CASE UNCHANGED vars
    BY <2>1 DEF vars, deviceVars, queueVars, storeVars, boundVars, historyVars,
       TypeOK, DeviceTypes, QueueTypes, StoreTypes, BoundTypes, HistoryTypes
  <2>2. CASE Next
    <3>1. PICK d \in Devices : User(d) \/ Network(d) \/ Failure(d)
      BY <2>2 DEF Next
    <3> QED BY <3>1, SearchType, EditType, AnswerType DEF User, Network
  <2> QED BY <2>1, <2>2
<1> QED BY <1>1, <1>2, PTL DEF Spec
-----------------------------------------------------------------------------
(* Names.  A name travels: from a form or a field into a write, from a     *)
(* write into a database, from a database into the results of a search,    *)
(* and from there back into a write.  Everywhere on its way it belongs to  *)
(* the code it is kept under.                                              *)

Owned(c, n) == n # NoValue => <<c, n>> \in given

ResultsOwned == \A d \in Devices, c \in Codes : Owned(c, results[d][c])

StoresOwned == \A c \in Codes : /\ Owned(c, stored[c].name)
                               /\ Owned(c, docs[c].name)

QueuesOwned == \A d \in Devices :
    /\ \A i \in DOMAIN outbox[d] : Owned(outbox[d][i].code, outbox[d][i].name)
    /\ \A i \in DOMAIN docbox[d] : Owned(docbox[d][i].code, docbox[d][i].name)

AllOwned == ResultsOwned /\ StoresOwned /\ QueuesOwned

OwnInv == ~astray => AllOwned

\* What is appended to a sequence is its last element.
LEMMA AppendElements ==
  ASSUME NEW S, NEW q \in Seq(S), NEW e \in S, NEW i \in DOMAIN Append(q, e)
  PROVE  \/ i \in DOMAIN q /\ Append(q, e)[i] = q[i]
         \/ Append(q, e)[i] = e
  OBVIOUS

\* The elements of the tail of a sequence are elements of it.
LEMMA TailElements ==
  ASSUME NEW S, NEW q \in Seq(S), q # <<>>, NEW i \in DOMAIN Tail(q)
  PROVE  i + 1 \in DOMAIN q /\ Tail(q)[i] = q[i + 1]
  OBVIOUS

\* What a device sees of a product is a name given to it.
LEMMA SeenOwned ==
  ASSUME TypeOK, AllOwned, NEW d \in Devices, NEW c \in Codes
  PROVE  Owned(c, Seen(d, c, "name"))
<1> DEFINE N == Newest(d, c, "name")
           i == CHOOSE j \in N : TRUE
<1>1. CASE N = {}
  BY <1>1 DEF Seen, AllOwned, StoresOwned
<1>2. CASE N # {}
  <2>1. i \in N
    BY <1>2
  <2>2. i \in DOMAIN outbox[d] /\ outbox[d][i].code = c
    BY <2>1 DEF Newest, Deciding, Pending
  <2> QED BY <1>2, <2>2 DEF Seen, AllOwned, QueuesOwned
<1> QED BY <1>1, <1>2

\* A confirmed edit that carries an owned name leaves owned names in the
\* databases and on their way to them, and takes nothing from the history.
LEMMA ConfirmOwned ==
  ASSUME TypeOK, AllOwned, NEW d \in Devices, NEW w \in Writes, Confirm(d, w),
         w.name # NoValue => <<w.code, w.name>> \in given'
  PROVE  StoresOwned' /\ QueuesOwned' /\ given \subseteq given'
<1>1. given \subseteq given'
  BY DEF Confirm
<1>2. StoresOwned'
  BY <1>1 DEF Confirm, storeVars, AllOwned, StoresOwned, Owned
<1>3. /\ outbox' = [outbox EXCEPT ![d] = Append(@, w)]
      /\ docbox' = [docbox EXCEPT ![d] = Append(@, w)]
  BY DEF Confirm
<1>4. \A e \in Devices : outbox[e] \in Seq(Writes) /\ docbox[e] \in Seq(Writes)
  BY DEF TypeOK, QueueTypes
<1>5. ASSUME NEW e \in Devices, NEW i \in DOMAIN outbox'[e]
      PROVE  Owned(outbox[e][i].code, outbox[e][i].name)'
  <2>1. \/ i \in DOMAIN outbox[e] /\ outbox'[e][i] = outbox[e][i]
        \/ outbox'[e][i] = w
    <3>1. CASE e = d
      <4>1. outbox'[e] = Append(outbox[d], w)
        BY <1>3, <3>1 DEF TypeOK, QueueTypes
      <4> QED BY <1>4, <1>5, <3>1, <4>1, AppendElements
    <3>2. CASE e # d
      BY <1>3, <3>2, <1>5 DEF TypeOK, QueueTypes
    <3> QED BY <3>1, <3>2
  <2> QED BY <1>1, <2>1 DEF AllOwned, QueuesOwned, Owned
<1>6. ASSUME NEW e \in Devices, NEW i \in DOMAIN docbox'[e]
      PROVE  Owned(docbox[e][i].code, docbox[e][i].name)'
  <2>1. \/ i \in DOMAIN docbox[e] /\ docbox'[e][i] = docbox[e][i]
        \/ docbox'[e][i] = w
    <3>1. CASE e = d
      <4>1. docbox'[e] = Append(docbox[d], w)
        BY <1>3, <3>1 DEF TypeOK, QueueTypes
      <4> QED BY <1>4, <1>6, <3>1, <4>1, AppendElements
    <3>2. CASE e # d
      BY <1>3, <3>2, <1>6 DEF TypeOK, QueueTypes
    <3> QED BY <3>1, <3>2
  <2> QED BY <1>1, <2>1 DEF AllOwned, QueuesOwned, Owned
<1>7. QueuesOwned'
  BY <1>5, <1>6 DEF QueuesOwned
<1> QED BY <1>1, <1>2, <1>7

\* Searching and choosing a product copies owned names.
LEMMA SearchOwned ==
  ASSUME TypeOK, AllOwned, NEW d \in Devices,
         \/ AnswerSearch(d)
         \/ AnswerBarcode(d)
         \/ ClearResults(d)
         \/ \E c \in Codes : Select(d, c)
         \/ Back(d)
         \/ \E s \in Codes : OpenForm(d, s) \/ DuplicateThrows(d, s)
         \/ \E n \in Names : NameDraft(d, n)
  PROVE  AllOwned'
<1>1. UNCHANGED <<queueVars, storeVars, historyVars>>
  BY DEF AnswerSearch, AnswerBarcode, ClearResults, Select, Back,
         OpenForm, DuplicateThrows, NameDraft
<1>2. StoresOwned' /\ QueuesOwned'
  BY <1>1 DEF AllOwned, StoresOwned, QueuesOwned, Owned, queueVars, storeVars,
     historyVars
<1>3. given' = given
  BY <1>1 DEF historyVars
<1>4. CASE UNCHANGED results
  BY <1>2, <1>3, <1>4 DEF AllOwned, ResultsOwned, Owned
<1>5. CASE AnswerSearch(d)
  <2>1. PICK cs \in SUBSET Codes :
           results' = [results EXCEPT ![d] = DocNames(cs)]
    BY <1>5 DEF AnswerSearch
  <2>2. \A c \in Codes : Owned(c, DocNames(cs)[c])
    BY DEF DocNames, AllOwned, StoresOwned, Owned
  <2>3. ResultsOwned'
    BY <1>3, <2>1, <2>2 DEF AllOwned, ResultsOwned, Owned, TypeOK, DeviceTypes
  <2> QED BY <1>2, <2>3 DEF AllOwned
<1>6. CASE AnswerBarcode(d)
  <2>1. PICK cs \in SUBSET Codes :
           results' = [results EXCEPT ![d] =
              [c \in Codes |-> IF c \in cs THEN Seen(d, c, "name") ELSE @[c]]]
    BY <1>6 DEF AnswerBarcode
  <2>2. ASSUME NEW e \in Devices, NEW c \in Codes
        PROVE  results'[e][c] \in {results[e][c], Seen(d, c, "name")}
               /\ (e # d => results'[e][c] = results[e][c])
    BY <2>1 DEF TypeOK, DeviceTypes
  <2>3. ASSUME NEW e \in Devices, NEW c \in Codes
        PROVE  Owned(c, results[e][c])'
    <3>1. Owned(c, results[e][c]) /\ Owned(c, Seen(d, c, "name"))
      BY SeenOwned DEF AllOwned, ResultsOwned
    <3> QED BY <1>3, <2>2, <3>1 DEF Owned
  <2> QED BY <1>2, <2>3 DEF AllOwned, ResultsOwned
<1>7. CASE ClearResults(d)
  BY <1>2, <1>3, <1>7 DEF ClearResults, NoResults, AllOwned, ResultsOwned,
     Owned, TypeOK, DeviceTypes
<1> QED BY <1>4, <1>5, <1>6, <1>7
  DEF Select, Back, OpenForm, DuplicateThrows, NameDraft

\* The edits carry owned names: a form or a field gives its name with the
\* edit, and a change of price copies the name of the results.
LEMMA EditOwned ==
  ASSUME TypeOK, AllOwned, NEW d \in Devices,
         \/ \E n \in Names : Rename(d, n)
         \/ \E p \in Prices : \/ AddProduct(d, p)
                            \/ Reprice(d, p)
                            \/ RepriceHalf(d, p)
                            \/ \E s \in Codes : Duplicate(d, p, s)
         \/ \E c \in Codes : Delete(d, c)
  PROVE  AllOwned'
<1>1. sku[d] \in Codes /\ nextCode[d] \in Codes /\ draft[d] \in Names
      /\ \A c \in Codes : results[d][c] \in Names \cup {NoValue}
  BY DEF TypeOK, DeviceTypes
<1>2. UNCHANGED results
  BY DEF Rename, AddProduct, Reprice, RepriceHalf, Duplicate, Delete, deviceVars
<1>3. given \subseteq given' => ResultsOwned'
  BY <1>2 DEF AllOwned, ResultsOwned, Owned
<1>4. ASSUME NEW w \in Writes, Confirm(d, w),
             w.name # NoValue => <<w.code, w.name>> \in given'
      PROVE  AllOwned'
  BY <1>3, <1>4, ConfirmOwned DEF AllOwned
<1>5. ASSUME NEW n \in Names, Rename(d, n) PROVE AllOwned'
  <2> DEFINE w == Write("rename", sku[d], n, NoValue)
  <2>1. w \in Writes /\ Confirm(d, w)
    BY <1>1, <1>5, WriteType DEF Ops, Rename
  <2>2. <<w.code, w.name>> \in given'
    BY <2>1 DEF Confirm, Write
  <2> QED BY <1>4, <2>1, <2>2
<1>6. ASSUME NEW p \in Prices, AddProduct(d, p) PROVE AllOwned'
  <2> DEFINE w == AddFields(d, p)
  <2>1. w \in Writes /\ Confirm(d, w)
    BY <1>1, <1>6, WriteType DEF Ops, AddProduct, AddFields
  <2>2. <<w.code, w.name>> \in given'
    BY <2>1 DEF Confirm, Write, AddFields
  <2> QED BY <1>4, <2>1, <2>2
<1>7. ASSUME NEW p \in Prices, Reprice(d, p) PROVE AllOwned'
  <2> DEFINE w == Write("price", sku[d], CopiedName(d), p)
  <2>1. w \in Writes /\ Confirm(d, w)
    BY <1>1, <1>7, WriteType DEF Ops, Reprice, CopiedName
  <2>2. w.name # NoValue => <<w.code, w.name>> \in given
    BY <1>1 DEF Write, CopiedName, AllOwned, ResultsOwned, Owned
  <2>3. given \subseteq given'
    BY <2>1 DEF Confirm
  <2> QED BY <1>4, <2>1, <2>2, <2>3
<1>8. ASSUME NEW p \in Prices, RepriceHalf(d, p) PROVE AllOwned'
  <2> DEFINE w == Write("price", sku[d], NoValue, p)
  <2>1. w \in Writes /\ w.name = NoValue
    BY <1>1, WriteType DEF Ops, Write
  <2>2. docbox' = [docbox EXCEPT ![d] = Append(@, w)]
    BY <1>8 DEF RepriceHalf
  <2>3. UNCHANGED <<outbox, storeVars, given>>
    BY <1>8 DEF RepriceHalf
  <2> HIDE DEF w
  <2>4. ASSUME NEW e \in Devices, NEW i \in DOMAIN docbox'[e]
        PROVE  \/ i \in DOMAIN docbox[e] /\ docbox'[e][i] = docbox[e][i]
               \/ docbox'[e][i] = w
    <3>1. CASE e = d
      <4>1. docbox'[e] = Append(docbox[d], w) /\ docbox[d] \in Seq(Writes)
        BY <2>2, <3>1 DEF TypeOK, QueueTypes
      <4> QED BY <2>1, <2>4, <3>1, <4>1, AppendElements
    <3>2. CASE e # d
      BY <2>2, <2>4, <3>2 DEF TypeOK, QueueTypes
    <3> QED BY <3>1, <3>2
  <2>5. QueuesOwned'
    BY <2>1, <2>3, <2>4 DEF AllOwned, QueuesOwned, Owned
  <2>6. StoresOwned'
    BY <2>3 DEF AllOwned, StoresOwned, Owned, storeVars
  <2> QED BY <1>3, <2>3, <2>5, <2>6 DEF AllOwned
<1>9. ASSUME NEW p \in Prices, NEW s \in Codes, Duplicate(d, p, s)
      PROVE  AllOwned'
  <2> DEFINE w == Write("duplicate", s, results[d][sku[d]], p)
  <2>1. w \in Writes /\ Confirm(d, w)
    BY <1>1, <1>9, WriteType DEF Ops, Duplicate
  <2>2. <<w.code, w.name>> \in given'
    BY <2>1 DEF Confirm, Write
  <2> QED BY <1>4, <2>1, <2>2
<1>10. ASSUME NEW c \in Codes, Delete(d, c) PROVE AllOwned'
  <2> DEFINE w == Write("delete", c, NoValue, NoValue)
  <2>1. w \in Writes /\ w.name = NoValue
    BY WriteType DEF Ops, Write
  <2>2. outbox' = [outbox EXCEPT ![d] = Append(@, w)]
    BY <1>10 DEF Delete
  <2>3. UNCHANGED <<docbox, storeVars, given>>
    BY <1>10 DEF Delete
  <2> HIDE DEF w
  <2>4. ASSUME NEW e \in Devices, NEW i \in DOMAIN outbox'[e]
        PROVE  \/ i \in DOMAIN outbox[e] /\ outbox'[e][i] = outbox[e][i]
               \/ outbox'[e][i] = w
    <3>1. CASE e = d
      <4>1. outbox'[e] = Append(outbox[d], w) /\ outbox[d] \in Seq(Writes)
        BY <2>2, <3>1 DEF TypeOK, QueueTypes
      <4> QED BY <2>1, <2>4, <3>1, <4>1, AppendElements
    <3>2. CASE e # d
      BY <2>2, <2>4, <3>2 DEF TypeOK, QueueTypes
    <3> QED BY <3>1, <3>2
  <2>5. QueuesOwned'
    BY <2>1, <2>3, <2>4 DEF AllOwned, QueuesOwned, Owned
  <2>6. StoresOwned'
    BY <2>3 DEF AllOwned, StoresOwned, Owned, storeVars
  <2> QED BY <1>3, <2>3, <2>5, <2>6 DEF AllOwned
<1> QED BY <1>5, <1>6, <1>7, <1>8, <1>9, <1>10
\* What a write with an owned name leaves in the databases has an owned name.
LEMMA AfterOwned ==
  ASSUME TypeOK, StoresOwned, NEW w \in Writes, Owned(w.code, w.name)
  PROVE  /\ Owned(w.code, StoredAfter(w).name)
         /\ Owned(w.code, DocAfter(w).name)
<1>1. w.code \in Codes
  BY DEF Writes
<1>2. Owned(w.code, stored[w.code].name) /\ Owned(w.code, docs[w.code].name)
  BY <1>1 DEF StoresOwned
<1>3. docs[w.code] \in Records
  BY <1>1 DEF TypeOK, StoreTypes
<1>4. StoredAfter(w).name \in {NoValue, w.name, stored[w.code].name}
  BY DEF StoredAfter, Overlay, Field, Absent
<1>5. DocAfter(w).name \in {NoValue, w.name, docs[w.code].name}
  BY <1>3 DEF DocAfter, Overlay, Field, Absent, Records
<1> QED BY <1>2, <1>4, <1>5 DEF Owned

\* An answer that meets the globals its edit was confirmed with puts an owned
\* name into the results; the write itself brings its own.
LEMMA AnswerOwned ==
  ASSUME TypeOK, OwnInv, NEW d \in Devices, AnswerWrite(d), ~astray'
  PROVE  AllOwned'
<1> DEFINE w == Head(outbox[d])
<1>1. outbox[d] \in Seq(Writes) /\ outbox[d] # <<>>
  BY DEF TypeOK, QueueTypes, AnswerWrite
<1>2. w \in Writes /\ 1 \in DOMAIN outbox[d] /\ w = outbox[d][1]
  BY <1>1
<1>3. /\ stored' = [stored EXCEPT ![w.code] = StoredAfter(w)]
      /\ outbox' = [outbox EXCEPT ![d] = Tail(@)]
      /\ UNCHANGED <<sku, nextCode, draft, docbox, docs, boundVars,
                     given, excused>>
  BY DEF AnswerWrite
<1>4. AnswerAdd(d, w) \/ AnswerRename(d, w) \/ AnswerPrice(d, w)
      \/ AnswerDuplicate(d, w) \/ AnswerDelete(d, w)
  BY DEF AnswerWrite
<1> HIDE DEF w
<1>5. ~astray
  BY <1>4 DEF AnswerAdd, AnswerRename, AnswerPrice, AnswerDuplicate,
              AnswerDelete
<1>6. AllOwned
  BY <1>5 DEF OwnInv
<1>7. Owned(w.code, w.name)
  BY <1>2, <1>6 DEF AllOwned, QueuesOwned
<1>8. StoresOwned'
  <2>1. Owned(w.code, StoredAfter(w).name)
    BY <1>2, <1>6, <1>7, AfterOwned DEF AllOwned
  <2> QED BY <1>3, <1>6, <2>1
          DEF AllOwned, StoresOwned, Owned, TypeOK, StoreTypes
<1>9. QueuesOwned'
  <2>1. ASSUME NEW e \in Devices, NEW i \in DOMAIN outbox'[e]
        PROVE  \E j \in DOMAIN outbox[e] : outbox'[e][i] = outbox[e][j]
    <3>1. CASE e = d
      <4>1. outbox'[e] = Tail(outbox[d])
        BY <1>3, <3>1 DEF TypeOK, QueueTypes
      <4> QED BY <1>1, <2>1, <3>1, <4>1, TailElements
    <3>2. CASE e # d
      BY <1>3, <2>1, <3>2 DEF TypeOK, QueueTypes
    <3> QED BY <3>1, <3>2
  <2>2. ASSUME NEW e \in Devices, NEW i \in DOMAIN outbox'[e]
        PROVE  Owned(outbox[e][i].code, outbox[e][i].name)'
    BY <1>3, <1>6, <2>1, <2>2 DEF AllOwned, QueuesOwned, Owned
  <2>3. ASSUME NEW e \in Devices, NEW i \in DOMAIN docbox'[e]
        PROVE  Owned(docbox[e][i].code, docbox[e][i].name)'
    BY <1>3, <1>6, <2>3 DEF AllOwned, QueuesOwned, Owned
  <2> QED BY <2>2, <2>3 DEF QueuesOwned
<1>10. ResultsOwned'
  <2>1. sku[d] \in Codes /\ nextCode[d] \in Codes
    BY DEF TypeOK, DeviceTypes
  <2>2. results \in [Devices -> [Codes -> Names \cup {NoValue}]]
        /\ given' = given /\ ResultsOwned
    BY <1>3, <1>6 DEF TypeOK, DeviceTypes, AllOwned
  <2>3. CASE AnswerAdd(d, w)
    <3>1. Owned(nextCode[d], draft[d])
      BY <1>7, <2>3 DEF AnswerAdd
    <3>2. results' = [results EXCEPT ![d][nextCode[d]] = draft[d]]
      BY <2>3 DEF AnswerAdd
    <3> QED BY <2>1, <2>2, <3>1, <3>2 DEF ResultsOwned, Owned
  <2>4. CASE AnswerRename(d, w)
    <3>1. CASE UNCHANGED results
      BY <2>2, <3>1 DEF ResultsOwned, Owned
    <3>2. CASE \E n \in Names :
                  /\ results' = [results EXCEPT ![d] = Only(sku[d], n)]
                  /\ <<sku[d], n>> = <<w.code, w.name>>
      <4>1. PICK n \in Names :
                  /\ results' = [results EXCEPT ![d] = Only(sku[d], n)]
                  /\ <<sku[d], n>> = <<w.code, w.name>>
        BY <3>2
      <4>2. Owned(sku[d], n)
        BY <1>7, <4>1
      <4> QED BY <2>1, <2>2, <4>1, <4>2
              DEF ResultsOwned, Owned, Only, NoResults
    <3> QED BY <2>4, <3>1, <3>2 DEF AnswerRename
  <2>5. CASE AnswerPrice(d, w)
    BY <2>1, <2>2, <2>5 DEF AnswerPrice, ResultsOwned, Owned, Only, NoResults
  <2>6. CASE AnswerDuplicate(d, w)
    <3>1. CASE UNCHANGED results
      BY <2>2, <3>1 DEF ResultsOwned, Owned
    <3>2. CASE results[d][sku[d]] # NoValue
      <4> DEFINE n == results[d][sku[d]]
      <4>1. Owned(nextCode[d], n)
        BY <1>7, <2>6, <3>2 DEF AnswerDuplicate
      <4>2. results' = [results EXCEPT ![d][nextCode[d]] = n]
        BY <2>6, <3>2 DEF AnswerDuplicate
      <4> HIDE DEF n
      <4> QED BY <2>1, <2>2, <4>1, <4>2 DEF ResultsOwned, Owned
    <3> QED BY <2>6, <3>1, <3>2 DEF AnswerDuplicate
  <2>7. CASE AnswerDelete(d, w)
    BY <2>1, <2>2, <2>7 DEF AnswerDelete, ResultsOwned, Owned
  <2> QED BY <1>4, <2>3, <2>4, <2>5, <2>6, <2>7
<1> QED BY <1>8, <1>9, <1>10 DEF AllOwned

\* Firestore takes a name from a write; refusals and restarts only drop what is
\* under way.
LEMMA OtherOwned ==
  ASSUME TypeOK, AllOwned, NEW d \in Devices, ApplyDoc(d) \/ Failure(d)
  PROVE  AllOwned'
<1>1. outbox[d] \in Seq(Writes) /\ docbox[d] \in Seq(Writes)
  BY DEF TypeOK, QueueTypes
<1>2. given' = given /\ stored' = stored
  BY DEF ApplyDoc, Failure, RefuseWrite, RefuseDoc, Restart, storeVars,
         historyVars
<1>3. ResultsOwned'
  <2>1. CASE UNCHANGED results
    BY <1>2, <2>1 DEF AllOwned, ResultsOwned, Owned
  <2>2. CASE results' = [results EXCEPT ![d] = NoResults]
    BY <1>2, <2>2 DEF AllOwned, ResultsOwned, Owned, NoResults, TypeOK,
       DeviceTypes
  <2> QED BY <2>1, <2>2 DEF ApplyDoc, Failure, RefuseWrite, RefuseDoc, Restart,
          deviceVars
<1>4. StoresOwned'
  <2>1. CASE docs' = docs
    BY <1>2, <2>1 DEF AllOwned, StoresOwned, Owned
  <2>2. CASE ApplyDoc(d)
    <3> DEFINE w == Head(docbox[d])
    <3>1. w \in Writes /\ 1 \in DOMAIN docbox[d] /\ w = docbox[d][1]
      BY <1>1, <2>2 DEF ApplyDoc
    <3>2. docs' = [docs EXCEPT ![w.code] = DocAfter(w)]
      BY <2>2 DEF ApplyDoc
    <3> HIDE DEF w
    <3>3. Owned(w.code, DocAfter(w).name)
      BY <3>1, AfterOwned DEF AllOwned, QueuesOwned
    <3> QED BY <1>2, <3>2, <3>3
            DEF AllOwned, StoresOwned, Owned, TypeOK, StoreTypes
  <2> QED BY <2>1, <2>2 DEF Failure, RefuseWrite, RefuseDoc, Restart, storeVars
<1>5. ASSUME NEW e \in Devices, NEW i \in DOMAIN outbox'[e]
      PROVE  \E j \in DOMAIN outbox[e] : outbox'[e][i] = outbox[e][j]
  <2>1. \/ outbox'[e] = outbox[e]
        \/ outbox[e] # <<>> /\ outbox'[e] = Tail(outbox[e])
        \/ outbox'[e] = <<>>
    BY DEF ApplyDoc, Failure, RefuseWrite, RefuseDoc, Restart, TypeOK,
           QueueTypes
  <2>2. outbox[e] \in Seq(Writes)
    BY DEF TypeOK, QueueTypes
  <2>3. CASE outbox'[e] = outbox[e]
    BY <1>5, <2>3
  <2>4. CASE outbox[e] # <<>> /\ outbox'[e] = Tail(outbox[e])
    BY <1>5, <2>2, <2>4, TailElements
  <2>5. CASE outbox'[e] = <<>>
    BY <1>5, <2>5
  <2> QED BY <2>1, <2>3, <2>4, <2>5
<1>6. ASSUME NEW e \in Devices, NEW i \in DOMAIN docbox'[e]
      PROVE  \E j \in DOMAIN docbox[e] : docbox'[e][i] = docbox[e][j]
  <2>1. \/ docbox'[e] = docbox[e]
        \/ docbox[e] # <<>> /\ docbox'[e] = Tail(docbox[e])
    BY DEF ApplyDoc, Failure, RefuseWrite, RefuseDoc, Restart, TypeOK,
           QueueTypes
  <2>2. docbox[e] \in Seq(Writes)
    BY DEF TypeOK, QueueTypes
  <2> QED BY <1>6, <2>1, <2>2, TailElements
<1>7. QueuesOwned'
  BY <1>2, <1>5, <1>6 DEF AllOwned, QueuesOwned, Owned
<1> QED BY <1>3, <1>4, <1>7 DEF AllOwned

\* Before any edit there is one name, of the products there are.
LEMMA InitOwned == Init => OwnInv
<1> SUFFICES ASSUME Init PROVE AllOwned
  BY DEF OwnInv
<1>1. ResultsOwned
  BY DEF Init, ResultsOwned, Owned, NoResults
<1>2. StoresOwned
  BY DEF Init, StoresOwned, Owned, Absent
<1>3. QueuesOwned
  BY DEF Init, QueuesOwned
<1> QED BY <1>1, <1>2, <1>3 DEF AllOwned

\* Every step keeps the names where they belong, until an answer goes astray.
LEMMA OwnStep == TypeOK /\ OwnInv /\ [Next]_vars => OwnInv'
<1> SUFFICES ASSUME TypeOK, OwnInv, [Next]_vars, ~astray' PROVE AllOwned'
  BY DEF OwnInv
<1>1. CASE UNCHANGED vars
  BY <1>1 DEF vars, deviceVars, queueVars, storeVars, historyVars, OwnInv,
     AllOwned, ResultsOwned, StoresOwned, QueuesOwned, Owned
<1>2. CASE Next
  <2>1. PICK d \in Devices : User(d) \/ Network(d) \/ Failure(d)
    BY <1>2 DEF Next
  <2>2. CASE AnswerWrite(d)
    BY <2>2, AnswerOwned
  <2>3. CASE ApplyDoc(d) \/ Failure(d)
    <3>1. astray' = astray
      BY <2>3 DEF ApplyDoc, Failure, RefuseWrite, RefuseDoc, Restart,
                  historyVars
    <3> QED BY <2>3, <3>1, OtherOwned DEF OwnInv
  <2>4. CASE User(d) \/ AnswerSearch(d) \/ AnswerBarcode(d)
    <3>1. astray' = astray
      BY <2>4 DEF User, AnswerSearch, AnswerBarcode, ClearResults, Select, Back,
         OpenForm, DuplicateThrows, NameDraft, Rename, AddProduct, Reprice,
         RepriceHalf, Duplicate, Delete, Confirm, historyVars
    <3>2. AllOwned
      BY <3>1 DEF OwnInv
    <3> QED BY <2>4, <3>2, SearchOwned, EditOwned DEF User
  <2> QED BY <2>1, <2>2, <2>3, <2>4 DEF Network
<1> QED BY <1>1, <1>2

\* A product is sold only under names given to it, on any number of devices and
\* whatever is searched, edited, refused or lost, as long as no answer has met
\* other globals than its edit was confirmed with.
THEOREM NamesOwn == Spec => []NamesAreTheirOwn
<1>1. Init => OwnInv
  BY InitOwned
<1>2. OwnInv => NamesAreTheirOwn
  BY DEF OwnInv, AllOwned, StoresOwned, Owned, NamesAreTheirOwn
<1> QED BY <1>1, <1>2, OwnStep, TypeCorrect, PTL DEF Spec

-----------------------------------------------------------------------------
(* Prices.  A product gets its price with the write that makes its record. *)
(* Whoever comes to know of a code, by a search, a choice or an answer,    *)
(* does so when that write is stored or under way; what takes the price    *)
(* away again excuses the code.                                            *)

Priced(c) ==
    \/ stored[c].price # NoValue
    \/ \E d \in Devices : \E i \in DOMAIN outbox[d] :
            outbox[d][i].code = c /\ outbox[d][i].price # NoValue

Vouched(c) == c \in excused \/ Priced(c)

DeletesExcused == \A d \in Devices : \A i \in DOMAIN outbox[d] :
    outbox[d][i].op = "delete" => outbox[d][i].code \in excused

StoresVouched == \A c \in Codes :
    stored[c].name # NoValue \/ docs[c] # Absent => Vouched(c)

KnownVouched == \A d \in Devices :
    /\ \A c \in Codes : results[d][c] # NoValue => Vouched(c)
    /\ page[d] = "product" => Vouched(sku[d])

QueuesVouched == \A d \in Devices :
    /\ \A i \in DOMAIN outbox[d] : Vouched(outbox[d][i].code)
    /\ \A i \in DOMAIN docbox[d] : Vouched(docbox[d][i].code)

AllVouched == StoresVouched /\ KnownVouched /\ QueuesVouched

WholeInv == DeletesExcused /\ (~astray => AllVouched)

\* A write appended to a queue is behind all others, which keep their places.
LEMMA AppendPlaces ==
  ASSUME NEW Q, NEW q \in [Devices -> Seq(Q)], NEW r, NEW w \in Q,
         NEW d \in Devices, r = [q EXCEPT ![d] = Append(@, w)]
  PROVE  /\ \A e \in Devices : \A i \in DOMAIN q[e] :
                i \in DOMAIN r[e] /\ r[e][i] = q[e][i]
         /\ \E i \in DOMAIN r[d] : r[d][i] = w
         /\ \A e \in Devices : \A i \in DOMAIN r[e] :
                r[e][i] = w \/ (i \in DOMAIN q[e] /\ r[e][i] = q[e][i])
<1>1. /\ r[d] = Append(q[d], w) /\ q[d] \in Seq(Q)
      /\ \A e \in Devices : e # d => r[e] = q[e]
  OBVIOUS
<1>2. \A i \in DOMAIN q[d] : i \in DOMAIN r[d] /\ r[d][i] = q[d][i]
  BY <1>1
<1>3. \E i \in DOMAIN r[d] : r[d][i] = w
  <2>1. /\ Len(q[d]) + 1 \in DOMAIN r[d] /\ r[d][Len(q[d]) + 1] = w
    BY <1>1
  <2> QED BY <2>1
<1>4. \A i \in DOMAIN r[d] :
        r[d][i] = w \/ (i \in DOMAIN q[d] /\ r[d][i] = q[d][i])
  BY <1>1, AppendElements
<1> QED BY <1>1, <1>2, <1>3, <1>4

\* Where the elements of a queue are when its head has gone.
LEMMA TailPlaces ==
  ASSUME NEW Q, NEW q \in Seq(Q), q # <<>>
  PROVE  /\ 1 \in DOMAIN q /\ Head(q) = q[1] /\ Head(q) \in Q
         /\ \A i \in DOMAIN q :
                i # 1 => i - 1 \in DOMAIN Tail(q) /\ Tail(q)[i - 1] = q[i]
         /\ \A i \in DOMAIN Tail(q) :
                i + 1 \in DOMAIN q /\ Tail(q)[i] = q[i + 1]
<1>1. 1 \in DOMAIN q /\ Head(q) = q[1] /\ Head(q) \in Q
  OBVIOUS
<1>2. \A i \in DOMAIN q :
        i # 1 => i - 1 \in DOMAIN Tail(q) /\ Tail(q)[i - 1] = q[i]
  OBVIOUS
<1>3. \A i \in DOMAIN Tail(q) :
        i + 1 \in DOMAIN q /\ Tail(q)[i] = q[i + 1]
  BY TailElements
<1> QED BY <1>1, <1>2, <1>3

\* The codes of the writes under way are codes.
LEMMA QueueCodes ==
  ASSUME TypeOK, NEW e \in Devices
  PROVE  /\ \A i \in DOMAIN outbox[e] : outbox[e][i].code \in Codes
         /\ \A i \in DOMAIN docbox[e] : docbox[e][i].code \in Codes
<1>1. outbox[e] \in Seq(Writes) /\ docbox[e] \in Seq(Writes)
  BY DEF TypeOK, QueueTypes
<1>2. /\ \A i \in DOMAIN outbox[e] : outbox[e][i] \in Writes
      /\ \A i \in DOMAIN docbox[e] : docbox[e][i] \in Writes
  BY <1>1
<1> QED BY <1>2 DEF Writes

\* Whatever is answered, applied, refused or lost, nothing else gets into the
\* queues.
LEMMA QueuesShrink ==
  ASSUME TypeOK, NEW d \in Devices,
         AnswerWrite(d) \/ ApplyDoc(d) \/ Failure(d)
  PROVE  \A e \in Devices :
            /\ \A i \in DOMAIN outbox'[e] :
                  \E j \in DOMAIN outbox[e] : outbox'[e][i] = outbox[e][j]
            /\ \A i \in DOMAIN docbox'[e] :
                  \E j \in DOMAIN docbox[e] : docbox'[e][i] = docbox[e][j]
<1> SUFFICES ASSUME NEW e \in Devices
    PROVE  /\ \A i \in DOMAIN outbox'[e] :
                \E j \in DOMAIN outbox[e] : outbox'[e][i] = outbox[e][j]
           /\ \A i \in DOMAIN docbox'[e] :
                \E j \in DOMAIN docbox[e] : docbox'[e][i] = docbox[e][j]
  OBVIOUS
<1>1. /\ outbox \in [Devices -> Seq(Writes)] /\ docbox \in [Devices -> Seq(Writes)]
  BY DEF TypeOK, QueueTypes
<1>2. /\ \/ outbox'[e] \in {outbox[e], <<>>}
         \/ outbox[e] # <<>> /\ outbox'[e] = Tail(outbox[e])
      /\ \/ docbox'[e] = docbox[e]
         \/ docbox[e] # <<>> /\ docbox'[e] = Tail(docbox[e])
  <2>1. CASE AnswerWrite(d) \/ RefuseWrite(d)
    <3>1. /\ outbox[d] # <<>> /\ outbox' = [outbox EXCEPT ![d] = Tail(@)]
          /\ docbox' = docbox
      BY <2>1 DEF AnswerWrite, RefuseWrite
    <3> QED BY <1>1, <3>1
  <2>2. CASE ApplyDoc(d) \/ RefuseDoc(d)
    <3>1. /\ docbox[d] # <<>> /\ docbox' = [docbox EXCEPT ![d] = Tail(@)]
          /\ outbox' = outbox
      BY <2>2 DEF ApplyDoc, RefuseDoc
    <3> QED BY <1>1, <3>1
  <2>3. CASE Restart(d)
    <3>1. outbox' = [outbox EXCEPT ![d] = <<>>] /\ docbox' = docbox
      BY <2>3 DEF Restart
    <3> QED BY <1>1, <3>1
  <2> QED BY <2>1, <2>2, <2>3 DEF Failure
<1>3. ASSUME NEW i \in DOMAIN outbox'[e]
      PROVE  \E j \in DOMAIN outbox[e] : outbox'[e][i] = outbox[e][j]
  <2>1. CASE outbox'[e] \in {outbox[e], <<>>}
    BY <1>3, <2>1
  <2>2. CASE outbox[e] # <<>> /\ outbox'[e] = Tail(outbox[e])
    BY <1>1, <1>3, <2>2, TailElements
  <2> QED BY <1>2, <2>1, <2>2
<1>4. ASSUME NEW i \in DOMAIN docbox'[e]
      PROVE  \E j \in DOMAIN docbox[e] : docbox'[e][i] = docbox[e][j]
  <2>1. CASE docbox'[e] = docbox[e]
    BY <1>4, <2>1
  <2>2. CASE docbox[e] # <<>> /\ docbox'[e] = Tail(docbox[e])
    BY <1>1, <1>4, <2>2, TailElements
  <2> QED BY <1>2, <2>1, <2>2
<1> QED BY <1>3, <1>4

\* A code stays vouched for while its writes are only added to.
LEMMA AppendVouched ==
  ASSUME excused \subseteq excused', UNCHANGED stored,
         \A e \in Devices : \A i \in DOMAIN outbox[e] :
            i \in DOMAIN outbox'[e] /\ outbox'[e][i] = outbox[e][i]
  PROVE  \A c \in Codes : Vouched(c) => Vouched(c)'
BY DEF Vouched, Priced

\* An answer stores the price it takes out of the queue.
LEMMA AnswerVouched ==
  ASSUME TypeOK, DeletesExcused, NEW d \in Devices, AnswerWrite(d)
  PROVE  DeletesExcused' /\ \A c \in Codes : Vouched(c) => Vouched(c)'
<1>1. PICK w : w = Head(outbox[d])
  OBVIOUS
<1>2. /\ outbox[d] # <<>> /\ excused' = excused
      /\ outbox' = [outbox EXCEPT ![d] = Tail(@)]
      /\ stored' = [stored EXCEPT ![w.code] = StoredAfter(w)]
  BY <1>1 DEF AnswerWrite
<1>3. /\ outbox \in [Devices -> Seq(Writes)] /\ stored \in [Codes -> Records]
  BY DEF TypeOK, QueueTypes, StoreTypes
<1>4. /\ outbox'[d] = Tail(outbox[d]) /\ outbox[d] \in Seq(Writes)
      /\ \A e \in Devices : e # d => outbox'[e] = outbox[e]
  BY <1>2, <1>3
<1>5. w \in Writes /\ 1 \in DOMAIN outbox[d] /\ w = outbox[d][1]
  BY <1>1, <1>2, <1>4, TailPlaces
<1>6. w.code \in Codes
  BY <1>5 DEF Writes
<1> DEFINE q == outbox[d]
           r == outbox'[d]
<1>7. q \in Seq(Writes) /\ q # <<>> /\ r = Tail(q)
  BY <1>2, <1>4
<1> HIDE DEF q, r
<1>8. /\ \A i \in DOMAIN q : i # 1 => i - 1 \in DOMAIN r /\ r[i - 1] = q[i]
      /\ \A i \in DOMAIN r : i + 1 \in DOMAIN q /\ r[i] = q[i + 1]
  BY <1>7, TailPlaces
<1> USE DEF q, r
<1>9. DeletesExcused'
  BY <1>2, <1>4, <1>8 DEF DeletesExcused
<1>10. ASSUME NEW c \in Codes, c \notin excused, Priced(c) PROVE Priced(c)'
  <2>1. CASE c = w.code
    <3>1. w.op # "delete"
      BY <1>5, <1>10, <2>1 DEF DeletesExcused
    <3>2. stored'[c].price = IF w.price = NoValue THEN stored[c].price ELSE w.price
      BY <1>2, <1>3, <1>6, <2>1, <3>1 DEF StoredAfter, Overlay, Field
    <3>3. CASE w.price # NoValue
      BY <3>2, <3>3 DEF Priced
    <3>4. CASE stored[c].price # NoValue
      BY <3>2, <3>4 DEF Priced
    <3>5. ASSUME NEW e \in Devices, NEW i \in DOMAIN outbox[e],
                 outbox[e][i].code = c, outbox[e][i].price # NoValue,
                 w.price = NoValue
          PROVE  Priced(c)'
      <4>1. CASE e # d
        BY <1>4, <3>5, <4>1 DEF Priced
      <4>2. CASE e = d
        <5>1. i # 1
          BY <1>5, <3>5, <4>2
        <5> QED BY <1>8, <3>5, <4>2, <5>1 DEF Priced
      <4> QED BY <4>1, <4>2
    <3> QED BY <1>10, <3>3, <3>4, <3>5 DEF Priced
  <2>2. CASE c # w.code
    <3>1. stored'[c] = stored[c]
      BY <1>2, <1>3, <2>2
    <3>2. CASE stored[c].price # NoValue
      BY <3>1, <3>2 DEF Priced
    <3>3. ASSUME NEW e \in Devices, NEW i \in DOMAIN outbox[e],
                 outbox[e][i].code = c, outbox[e][i].price # NoValue
          PROVE  Priced(c)'
      <4>1. CASE e # d
        BY <1>4, <3>3, <4>1 DEF Priced
      <4>2. CASE e = d
        <5>1. i # 1
          BY <1>5, <2>2, <3>3, <4>2
        <5> QED BY <1>8, <3>3, <4>2, <5>1 DEF Priced
      <4> QED BY <4>1, <4>2
    <3> QED BY <1>10, <3>2, <3>3 DEF Priced
  <2> QED BY <2>1, <2>2
<1> QED BY <1>2, <1>9, <1>10 DEF Vouched

\* A write that is lost or refused excuses its code.
LEMMA DropVouched ==
  ASSUME TypeOK, DeletesExcused, NEW d \in Devices, Failure(d)
  PROVE  DeletesExcused' /\ \A c \in Codes : Vouched(c) => Vouched(c)'
<1>1. outbox \in [Devices -> Seq(Writes)]
  BY DEF TypeOK, QueueTypes
<1>2. excused \subseteq excused' /\ stored' = stored
  BY DEF Failure, RefuseWrite, RefuseDoc, Restart, storeVars
\* Every write is where it was, one place further up, or excused.
<1>3. \A e \in Devices : \A i \in DOMAIN outbox[e] :
        \/ outbox[e][i].code \in excused'
        \/ \E j \in DOMAIN outbox'[e] : outbox'[e][j] = outbox[e][i]
  <2>1. CASE RefuseDoc(d)
    BY <2>1 DEF RefuseDoc
  <2>2. CASE Restart(d)
    <3>1. /\ \A i \in DOMAIN outbox[d] : outbox[d][i].code \in excused'
          /\ \A e \in Devices : e # d => outbox'[e] = outbox[e]
      BY <1>1, <2>2 DEF Restart
    <3> QED BY <3>1
  <2>3. CASE RefuseWrite(d)
    <3>1. /\ outbox[d] # <<>> /\ outbox[d] \in Seq(Writes)
          /\ outbox'[d] = Tail(outbox[d])
          /\ Head(outbox[d]).code \in excused'
          /\ \A e \in Devices : e # d => outbox'[e] = outbox[e]
      BY <1>1, <2>3 DEF RefuseWrite
    <3>2. Head(outbox[d]) = outbox[d][1]
      BY <3>1
    <3>3. \A i \in DOMAIN outbox[d] : i = 1 \/
            (i - 1 \in DOMAIN outbox'[d] /\ outbox'[d][i - 1] = outbox[d][i])
      BY <3>1
    <3> QED BY <3>1, <3>2, <3>3
  <2> QED BY <2>1, <2>2, <2>3 DEF Failure
<1>4. \A e \in Devices : \A i \in DOMAIN outbox'[e] :
        \E j \in DOMAIN outbox[e] : outbox'[e][i] = outbox[e][j]
  BY QueuesShrink
<1>5. DeletesExcused'
  BY <1>2, <1>4 DEF DeletesExcused
<1>6. \A c \in Codes : Vouched(c) => Vouched(c)'
  BY <1>2, <1>3 DEF Vouched, Priced
<1> QED BY <1>5, <1>6

\* What a device sees priced is vouched for: its price is stored, or in a write
\* of its own.
LEMMA SeenVouched ==
  ASSUME NEW d \in Devices, NEW c \in Codes, Seen(d, c, "price") # NoValue
  PROVE  Vouched(c)
<1> DEFINE N == Newest(d, c, "price")
           i == CHOOSE j \in N : TRUE
<1>1. CASE N = {}
  BY <1>1 DEF Seen, Vouched, Priced
<1>2. CASE N # {}
  <2>1. i \in N
    BY <1>2
  <2>2. i \in DOMAIN outbox[d] /\ outbox[d][i].code = c
    BY <2>1 DEF Newest, Deciding, Pending
  <2>3. outbox[d][i].price # NoValue
    BY <1>2 DEF Seen
  <2> QED BY <2>2, <2>3 DEF Vouched, Priced
<1> QED BY <1>1, <1>2

\* Searching and choosing lead to codes that are vouched for.
LEMMA SearchVouched ==
  ASSUME TypeOK, WholeInv, NEW d \in Devices,
         \/ AnswerSearch(d)
         \/ AnswerBarcode(d)
         \/ ClearResults(d)
         \/ \E c \in Codes : Select(d, c)
         \/ Back(d)
         \/ \E s \in Codes : OpenForm(d, s) \/ DuplicateThrows(d, s)
         \/ \E n \in Names : NameDraft(d, n)
  PROVE  WholeInv'
<1>1. UNCHANGED <<queueVars, storeVars, historyVars>>
  BY DEF AnswerSearch, AnswerBarcode, ClearResults, Select, Back,
         OpenForm, DuplicateThrows, NameDraft
<1>2. \A c \in Codes : Vouched(c) <=> Vouched(c)'
  BY <1>1 DEF Vouched, Priced, queueVars, storeVars, historyVars
<1>3. DeletesExcused' /\ astray' = astray
  BY <1>1 DEF WholeInv, DeletesExcused, queueVars, historyVars
<1> SUFFICES ASSUME ~astray PROVE AllVouched'
  BY <1>3 DEF WholeInv
<1>4. AllVouched
  BY DEF WholeInv
<1>5. StoresVouched'
  BY <1>1, <1>2, <1>4 DEF AllVouched, StoresVouched, storeVars
<1>6. QueuesVouched'
  BY <1>1, <1>2, <1>4, QueueCodes DEF AllVouched, QueuesVouched, queueVars
<1>7. ASSUME NEW e \in Devices, NEW c \in Codes, results'[e][c] # NoValue
      PROVE  Vouched(c)
  <2>1. CASE results[e][c] # NoValue
    BY <1>4, <2>1 DEF AllVouched, KnownVouched
  <2>2. CASE results[e][c] = NoValue
    <3>1. CASE AnswerSearch(d)
      <4>1. PICK cs \in SUBSET {k \in Codes : docs[k] # Absent} :
               results' = [results EXCEPT ![d] = DocNames(cs)]
        BY <3>1 DEF AnswerSearch
      <4>2. c \in cs
        BY <1>7, <2>2, <4>1 DEF DocNames, TypeOK, DeviceTypes
      <4> QED BY <1>4, <4>2 DEF AllVouched, StoresVouched
    <3>2. CASE AnswerBarcode(d)
      <4>1. PICK cs \in SUBSET {k \in Codes : Seen(d, k, "price") # NoValue} :
               results' = [results EXCEPT ![d] =
                  [k \in Codes |-> IF k \in cs THEN Seen(d, k, "name") ELSE @[k]]]
        BY <3>2 DEF AnswerBarcode
      <4>2. c \in cs
        BY <1>7, <2>2, <4>1 DEF TypeOK, DeviceTypes
      <4> QED BY <4>2, SeenVouched
    <3>3. CASE ClearResults(d)
      BY <1>7, <2>2, <3>3 DEF ClearResults, NoResults, TypeOK, DeviceTypes
    <3>4. CASE UNCHANGED results
      BY <1>7, <2>2, <3>4
    <3> QED
      BY <3>1, <3>2, <3>3, <3>4
      DEF Select, Back, OpenForm, DuplicateThrows, NameDraft
  <2> QED BY <2>1, <2>2
<1>8. ASSUME NEW e \in Devices, page'[e] = "product" PROVE Vouched(sku'[e])
  <2>1. ASSUME NEW c \in Codes, Select(d, c) PROVE Vouched(sku'[e])
    <3>1. results[d][c] # NoValue /\ sku' = [sku EXCEPT ![d] = c]
          /\ page' = [page EXCEPT ![d] = "product"]
      BY <2>1 DEF Select
    <3>2. CASE e = d
      BY <1>4, <3>1, <3>2 DEF AllVouched, KnownVouched, TypeOK, DeviceTypes
    <3>3. CASE e # d
      BY <1>4, <1>8, <3>1, <3>3 DEF AllVouched, KnownVouched, TypeOK, DeviceTypes
    <3> QED BY <3>2, <3>3
  <2>2. CASE ~ \E c \in Codes : Select(d, c)
    <3>1. sku' = sku /\ page[e] = "product"
      BY <1>8, <2>2
      DEF AnswerSearch, AnswerBarcode, ClearResults, Back, OpenForm,
          DuplicateThrows, NameDraft, TypeOK, DeviceTypes
    <3> QED BY <1>4, <3>1 DEF AllVouched, KnownVouched
  <2> QED BY <2>1, <2>2
<1>9. sku' \in [Devices -> Codes]
  BY DEF TypeOK, DeviceTypes, AnswerSearch, AnswerBarcode, ClearResults, Select,
         Back, OpenForm, DuplicateThrows, NameDraft
<1>10. KnownVouched'
  BY <1>2, <1>7, <1>8, <1>9 DEF KnownVouched
<1> QED BY <1>5, <1>6, <1>10 DEF AllVouched

\* An edit is sent of a code that is vouched for, or with a price of its own,
\* or excuses its code.
LEMMA SentVouched ==
  ASSUME TypeOK, WholeInv, NEW d \in Devices, NEW w \in Writes,
         UNCHANGED <<results, storeVars, astray>>,
         \A e \in Devices :
            page'[e] = "product" => page[e] = "product" /\ sku'[e] = sku[e],
         excused \subseteq excused',
         outbox' = outbox \/ outbox' = [outbox EXCEPT ![d] = Append(@, w)],
         docbox' = docbox \/ docbox' = [docbox EXCEPT ![d] = Append(@, w)],
         w.op = "delete" => w.code \in excused',
         ~astray => \/ w.code \in excused'
                    \/ Vouched(w.code)
                    \/ /\ w.price # NoValue
                       /\ outbox' = [outbox EXCEPT ![d] = Append(@, w)]
  PROVE  WholeInv'
<1>1. /\ outbox \in [Devices -> Seq(Writes)] /\ docbox \in [Devices -> Seq(Writes)]
      /\ w.code \in Codes
  BY DEF TypeOK, QueueTypes, Writes
<1>2. \A e \in Devices :
        /\ \A i \in DOMAIN outbox[e] :
              i \in DOMAIN outbox'[e] /\ outbox'[e][i] = outbox[e][i]
        /\ \A i \in DOMAIN outbox'[e] : outbox'[e][i] = w \/
              (i \in DOMAIN outbox[e] /\ outbox'[e][i] = outbox[e][i])
  <2>1. CASE outbox' = outbox
    BY <2>1
  <2>2. CASE outbox' = [outbox EXCEPT ![d] = Append(@, w)]
    BY <1>1, <2>2, AppendPlaces
  <2> QED BY <2>1, <2>2
<1>3. \A e \in Devices : \A i \in DOMAIN docbox'[e] : docbox'[e][i] = w \/
        (i \in DOMAIN docbox[e] /\ docbox'[e][i] = docbox[e][i])
  <2>1. CASE docbox' = docbox
    BY <2>1
  <2>2. CASE docbox' = [docbox EXCEPT ![d] = Append(@, w)]
    BY <1>1, <2>2, AppendPlaces
  <2> QED BY <2>1, <2>2
<1>4. DeletesExcused'
  BY <1>2 DEF WholeInv, DeletesExcused
<1> SUFFICES ASSUME ~astray PROVE AllVouched'
  BY <1>4 DEF WholeInv
<1>5. AllVouched
  BY DEF WholeInv
<1>6. \A c \in Codes : Vouched(c) => Vouched(c)'
  BY <1>2, AppendVouched DEF storeVars
<1>7. Vouched(w.code)'
  <2>1. CASE w.code \in excused'
    BY <2>1 DEF Vouched
  <2>2. CASE Vouched(w.code)
    BY <1>1, <1>6, <2>2
  <2>3. CASE w.price # NoValue /\ outbox' = [outbox EXCEPT ![d] = Append(@, w)]
    <3>1. outbox'[d] = Append(outbox[d], w) /\ outbox[d] \in Seq(Writes)
      BY <1>1, <2>3
    <3>2. /\ Len(outbox[d]) + 1 \in DOMAIN outbox'[d]
          /\ outbox'[d][Len(outbox[d]) + 1] = w
      BY <3>1
    <3> QED BY <2>3, <3>2 DEF Vouched, Priced
  <2> QED BY <2>1, <2>2, <2>3
<1>8. StoresVouched'
  BY <1>5, <1>6 DEF AllVouched, StoresVouched, storeVars
<1>9. KnownVouched'
  BY <1>5, <1>6 DEF AllVouched, KnownVouched, TypeOK, DeviceTypes
<1>10. QueuesVouched'
  <2>1. ASSUME NEW e \in Devices, NEW i \in DOMAIN outbox'[e]
        PROVE  Vouched(outbox[e][i].code)'
    BY <1>2, <1>5, <1>6, <1>7, <2>1, QueueCodes DEF AllVouched, QueuesVouched
  <2>2. ASSUME NEW e \in Devices, NEW i \in DOMAIN docbox'[e]
        PROVE  Vouched(docbox[e][i].code)'
    BY <1>3, <1>5, <1>6, <1>7, <2>2, QueueCodes DEF AllVouched, QueuesVouched
  <2> QED BY <2>1, <2>2 DEF QueuesVouched
<1> QED BY <1>8, <1>9, <1>10 DEF AllVouched

\* No edit makes a record without a price, unless it excuses the code: what is
\* renamed was chosen, and everything else carries a price.
LEMMA EditVouched ==
  ASSUME TypeOK, WholeInv, NEW d \in Devices,
         \/ \E n \in Names : Rename(d, n)
         \/ \E p \in Prices : \/ AddProduct(d, p)
                            \/ Reprice(d, p)
                            \/ RepriceHalf(d, p)
                            \/ \E s \in Codes : Duplicate(d, p, s)
         \/ \E c \in Codes : Delete(d, c)
  PROVE  WholeInv'
<1>1. sku[d] \in Codes /\ nextCode[d] \in Codes /\ draft[d] \in Names
      /\ \A c \in Codes : results[d][c] \in Names \cup {NoValue}
  BY DEF TypeOK, DeviceTypes
<1>2. ASSUME NEW n \in Names, Rename(d, n) PROVE WholeInv'
  <2>1. PICK w \in Writes : w = Write("rename", sku[d], n, NoValue)
    BY <1>1, WriteType DEF Ops
  <2>2. Confirm(d, w) /\ UNCHANGED deviceVars /\ page[d] = "product"
    BY <1>2, <2>1 DEF Rename
  <2>3. w.op = "rename" /\ (~astray => Vouched(w.code))
    BY <2>1, <2>2 DEF Write, WholeInv, AllVouched, KnownVouched
  <2> QED BY <2>2, <2>3, SentVouched DEF Confirm, deviceVars
<1>3. ASSUME NEW p \in Prices, AddProduct(d, p) PROVE WholeInv'
  <2>1. PICK w \in Writes : w = AddFields(d, p)
    BY <1>1, <1>3, WriteType DEF Ops, AddFields
  <2>2. Confirm(d, w) /\ UNCHANGED <<results, sku>>
        /\ \A e \in Devices : page'[e] = "product" => page[e] = "product"
    BY <1>3, <2>1 DEF AddProduct, TypeOK, DeviceTypes
  <2>3. w.op = "add" /\ w.price # NoValue
    BY <2>1, ValuesAssumption DEF Write, AddFields
  <2> QED BY <2>2, <2>3, SentVouched DEF Confirm
<1>4. ASSUME NEW p \in Prices, Reprice(d, p) PROVE WholeInv'
  <2>1. PICK w \in Writes : w = Write("price", sku[d], CopiedName(d), p)
    BY <1>1, WriteType DEF Ops, CopiedName
  <2>2. Confirm(d, w) /\ UNCHANGED deviceVars
    BY <1>4, <2>1 DEF Reprice
  <2>3. w.op = "price" /\ w.price # NoValue
    BY <2>1, ValuesAssumption DEF Write
  <2> QED BY <2>2, <2>3, SentVouched DEF Confirm, deviceVars
<1>5. ASSUME NEW p \in Prices, RepriceHalf(d, p) PROVE WholeInv'
  <2>1. PICK w \in Writes : w = Write("price", sku[d], NoValue, p)
    BY <1>1, WriteType DEF Ops
  <2>2. /\ docbox' = [docbox EXCEPT ![d] = Append(@, w)]
        /\ excused \subseteq excused' /\ w.code \in excused'
        /\ UNCHANGED <<page, results, sku, outbox, storeVars, astray>>
    BY <1>5, <2>1 DEF RepriceHalf, deviceVars, Write
  <2>3. w.op = "price"
    BY <2>1 DEF Write
  <2> QED BY <2>2, <2>3, SentVouched
<1>6. ASSUME NEW p \in Prices, NEW s \in Codes, Duplicate(d, p, s)
      PROVE  WholeInv'
  <2>1. PICK w \in Writes : w = Write("duplicate", s, results[d][sku[d]], p)
    BY <1>1, WriteType DEF Ops
  <2>2. Confirm(d, w) /\ UNCHANGED <<page, results, sku>>
    BY <1>6, <2>1 DEF Duplicate
  <2>3. w.op = "duplicate" /\ w.price # NoValue
    BY <2>1, ValuesAssumption DEF Write
  <2> QED BY <2>2, <2>3, SentVouched DEF Confirm
<1>7. ASSUME NEW c \in Codes, Delete(d, c) PROVE WholeInv'
  <2>1. PICK w \in Writes : w = Write("delete", c, NoValue, NoValue)
    BY WriteType DEF Ops
  <2>2. /\ outbox' = [outbox EXCEPT ![d] = Append(@, w)]
        /\ excused' = excused \cup Divided(d, w)
        /\ sku' = [sku EXCEPT ![d] = c] /\ page[d] = "search"
        /\ UNCHANGED <<page, results, docbox, storeVars, astray>>
    BY <1>7, <2>1 DEF Delete
  <2>3. w.code \in excused' /\ excused \subseteq excused'
    BY <2>1, <2>2 DEF Divided, Write
  <2>4. \A e \in Devices :
            page'[e] = "product" => page[e] = "product" /\ sku'[e] = sku[e]
    BY <2>2 DEF TypeOK, DeviceTypes
  <2> QED BY <2>2, <2>3, <2>4, SentVouched
<1> QED BY <1>2, <1>3, <1>4, <1>5, <1>6, <1>7

\* An answer enters into the results the code of its write, unless it goes
\* astray, or codes that are there.
LEMMA AnswerWhole ==
  ASSUME TypeOK, WholeInv, NEW d \in Devices, AnswerWrite(d)
  PROVE  WholeInv'
<1>1. PICK w : w = Head(outbox[d])
  OBVIOUS
<1>2. /\ outbox[d] # <<>> /\ outbox[d] \in Seq(Writes)
      /\ UNCHANGED <<sku, docbox, docs, excused>>
      /\ stored' = [stored EXCEPT ![w.code] = StoredAfter(w)]
  BY <1>1 DEF AnswerWrite, TypeOK, QueueTypes
<1>3. AnswerAdd(d, w) \/ AnswerRename(d, w) \/ AnswerPrice(d, w)
      \/ AnswerDuplicate(d, w) \/ AnswerDelete(d, w)
  BY <1>1 DEF AnswerWrite
<1>4. DeletesExcused' /\ \A c \in Codes : Vouched(c) => Vouched(c)'
  BY AnswerVouched DEF WholeInv
<1> SUFFICES ASSUME ~astray' PROVE AllVouched'
  BY <1>4 DEF WholeInv
<1>5. AllVouched
  BY <1>3 DEF WholeInv, AnswerAdd, AnswerRename, AnswerPrice, AnswerDuplicate,
     AnswerDelete
<1>6. w.code \in Codes /\ Vouched(w.code)
  <2>1. 1 \in DOMAIN outbox[d] /\ w = outbox[d][1]
    BY <1>1, <1>2, TailPlaces
  <2> QED BY <1>5, <2>1, QueueCodes DEF AllVouched, QueuesVouched
<1>7. StoresVouched'
  BY <1>2, <1>4, <1>5, <1>6
  DEF AllVouched, StoresVouched, TypeOK, StoreTypes
<1>8. QueuesVouched'
  BY <1>4, <1>5, QueuesShrink, QueueCodes DEF AllVouched, QueuesVouched
<1>9. results \in [Devices -> [Codes -> Names \cup {NoValue}]]
      /\ sku[d] \in Codes /\ nextCode[d] \in Codes
  BY DEF TypeOK, DeviceTypes
<1>10. \A e \in Devices : \A c \in Codes :
          results'[e][c] # NoValue => results[e][c] # NoValue \/ c = w.code
  <2>1. CASE AnswerAdd(d, w)
    BY <1>9, <2>1 DEF AnswerAdd
  <2>2. CASE AnswerRename(d, w)
    BY <1>9, <2>2 DEF AnswerRename, Only, NoResults
  <2>3. CASE AnswerPrice(d, w)
    BY <1>9, <2>3 DEF AnswerPrice, Only, NoResults
  <2>4. CASE AnswerDuplicate(d, w)
    <3>1. CASE results[d][sku[d]] = NoValue
      BY <2>4, <3>1 DEF AnswerDuplicate
    <3>2. CASE results[d][sku[d]] # NoValue
      <4>1. nextCode[d] = w.code
        BY <2>4, <3>2 DEF AnswerDuplicate
      <4>2. results' = [results EXCEPT ![d][nextCode[d]] = results[d][sku[d]]]
        BY <2>4, <3>2 DEF AnswerDuplicate
      <4> QED BY <1>9, <4>1, <4>2
    <3> QED BY <3>1, <3>2
  <2>5. CASE AnswerDelete(d, w)
    BY <1>9, <2>5 DEF AnswerDelete
  <2> QED BY <1>3, <2>1, <2>2, <2>3, <2>4, <2>5
<1>11. \A e \in Devices : page'[e] = "product" => page[e] = "product"
  BY <1>3 DEF AnswerAdd, AnswerRename, AnswerPrice, AnswerDuplicate,
     AnswerDelete, TypeOK, DeviceTypes
<1>12. KnownVouched'
  <2>1. \A e \in Devices : sku[e] \in Codes
    BY DEF TypeOK, DeviceTypes
  <2> QED BY <1>2, <1>4, <1>5, <1>6, <1>10, <1>11, <2>1
          DEF AllVouched, KnownVouched
<1> QED BY <1>7, <1>8, <1>12 DEF AllVouched

\* Firestore gets its documents from writes that are vouched for, and a failure
\* only takes codes out of results and queues.
LEMMA OtherVouched ==
  ASSUME TypeOK, WholeInv, NEW d \in Devices, ApplyDoc(d) \/ Failure(d)
  PROVE  WholeInv'
<1>1. DeletesExcused' /\ \A c \in Codes : Vouched(c) => Vouched(c)'
  <2>1. CASE ApplyDoc(d)
    BY <2>1 DEF ApplyDoc, WholeInv, DeletesExcused, Vouched, Priced, historyVars
  <2>2. CASE Failure(d)
    BY <2>2, DropVouched DEF WholeInv
  <2> QED BY <2>1, <2>2
<1>2. astray' = astray /\ stored' = stored
  BY DEF ApplyDoc, Failure, RefuseWrite, RefuseDoc, Restart, historyVars,
         storeVars
<1> SUFFICES ASSUME ~astray PROVE AllVouched'
  BY <1>1, <1>2 DEF WholeInv
<1>3. AllVouched
  BY DEF WholeInv
<1>4. QueuesVouched'
  BY <1>1, <1>3, QueuesShrink, QueueCodes DEF AllVouched, QueuesVouched
<1>5. ASSUME NEW c \in Codes, docs'[c] # Absent PROVE Vouched(c)
  <2>1. CASE docs'[c] = docs[c]
    BY <1>3, <1>5, <2>1 DEF AllVouched, StoresVouched
  <2>2. CASE docs'[c] # docs[c]
    <3>1. ApplyDoc(d)
      BY <2>2 DEF Failure, RefuseWrite, RefuseDoc, Restart, storeVars
    <3>2. PICK w : w = Head(docbox[d])
      OBVIOUS
    <3>3. /\ docbox[d] # <<>> /\ docbox[d] \in Seq(Writes)
          /\ docs' = [docs EXCEPT ![w.code] = DocAfter(w)]
      BY <3>1, <3>2 DEF ApplyDoc, TypeOK, QueueTypes
    <3>4. c = w.code
      BY <2>2, <3>3 DEF TypeOK, StoreTypes
    <3>5. 1 \in DOMAIN docbox[d] /\ w = docbox[d][1]
      BY <3>2, <3>3, TailPlaces
    <3> QED BY <1>3, <3>4, <3>5 DEF AllVouched, QueuesVouched
  <2> QED BY <2>1, <2>2
<1>6. StoresVouched'
  BY <1>1, <1>2, <1>3, <1>5 DEF AllVouched, StoresVouched
<1>7. \A e \in Devices :
        /\ \A c \in Codes : results'[e][c] # NoValue => results[e][c] # NoValue
        /\ page'[e] = "product" => page[e] = "product" /\ sku'[e] = sku[e]
  BY DEF ApplyDoc, Failure, RefuseWrite, RefuseDoc, Restart, NoResults,
         deviceVars, TypeOK, DeviceTypes
<1>8. KnownVouched'
  <2>1. \A e \in Devices : sku[e] \in Codes
    BY DEF TypeOK, DeviceTypes
  <2> QED BY <1>1, <1>3, <1>7, <2>1 DEF AllVouched, KnownVouched
<1> QED BY <1>4, <1>6, <1>8 DEF AllVouched

\* The products there are at the start have prices.
LEMMA InitWhole == Init => WholeInv
<1> SUFFICES ASSUME Init PROVE DeletesExcused /\ AllVouched
  BY DEF WholeInv
<1>1. \A d \in Devices : outbox[d] = <<>> /\ docbox[d] = <<>>
  BY DEF Init
<1>2. DeletesExcused /\ QueuesVouched
  BY <1>1 DEF DeletesExcused, QueuesVouched
<1>3. StoresVouched
  BY ValuesAssumption DEF Init, StoresVouched, Vouched, Priced, Absent
<1>4. KnownVouched
  BY DEF Init, KnownVouched, NoResults
<1> QED BY <1>2, <1>3, <1>4 DEF AllVouched

\* Every step keeps the codes that are known vouched for.
LEMMA WholeStep == TypeOK /\ WholeInv /\ [Next]_vars => WholeInv'
<1> SUFFICES ASSUME TypeOK, WholeInv, [Next]_vars PROVE WholeInv'
  OBVIOUS
<1>1. CASE UNCHANGED vars
  BY <1>1 DEF vars, deviceVars, queueVars, storeVars, historyVars, WholeInv,
     DeletesExcused, AllVouched, StoresVouched, KnownVouched, QueuesVouched,
     Vouched, Priced
<1>2. CASE Next
  <2>1. PICK d \in Devices : User(d) \/ Network(d) \/ Failure(d)
    BY <1>2 DEF Next
  <2>2. CASE AnswerWrite(d)
    BY <2>2, AnswerWhole
  <2>3. CASE ApplyDoc(d) \/ Failure(d)
    BY <2>3, OtherVouched
  <2>4. CASE User(d) \/ AnswerSearch(d) \/ AnswerBarcode(d)
    BY <2>4, SearchVouched, EditVouched DEF User
  <2> QED BY <2>1, <2>2, <2>3, <2>4 DEF Network
<1> QED BY <1>1, <1>2

\* A product on sale that nothing excuses has a price once its writes have
\* arrived, for any number of devices and whatever they search, edit and lose.
THEOREM PricesComplete == Spec => []RecordsWhole
<1>1. WholeInv => RecordsWhole
  <2> SUFFICES ASSUME WholeInv, ~astray, NEW c \in Codes \ excused,
                      stored[c].name # NoValue, ~InFlight(c)
      PROVE  stored[c].price # NoValue
    BY DEF RecordsWhole
  <2>1. Priced(c)
    BY DEF WholeInv, AllVouched, StoresVouched, Vouched
  <2>2. \A d \in Devices : \A i \in DOMAIN outbox[d] : outbox[d][i].code # c
    BY DEF InFlight, Pending
  <2> QED BY <2>1, <2>2 DEF Priced
<1> QED BY <1>1, InitWhole, WholeStep, TypeCorrect, PTL DEF Spec

-----------------------------------------------------------------------------
(* The two databases.  A code has at most one device at a time whose       *)
(* writes of it are under way.  What its queue will leave in Firestore and *)
(* what its queue will leave in the Realtime Database are the same.        *)

\* In the end a queue of writes leaves the value v of a field f where x was: the
\* value of the last of its writes that are in S, which decide the field.
EndsWith(queue, S, f, x, v) ==
    \/ /\ v = x
       /\ \A i \in DOMAIN queue : queue[i] \notin S
    \/ \E i \in DOMAIN queue :
          /\ queue[i] \in S
          /\ queue[i][f] = v
          /\ \A j \in DOMAIN queue : j > i => queue[j] \notin S

Makes == {"add", "duplicate"}

DecideStored(c, f) ==
    {w \in Writes : w.code = c /\ (w.op = "delete" \/ w[f] # NoValue)}

DecideDoc(c, f) ==
    {w \in Writes :
        /\ w.code = c
        /\ \/ w.op \in Makes
           \/ f = "name" /\ w.op = "rename"
           \/ f = "price" /\ w.op \notin Makes \cup {"rename"}}

Busy(d, c) == \/ \E i \in DOMAIN outbox[d] : outbox[d][i].code = c
              \/ \E i \in DOMAIN docbox[d] : docbox[d][i].code = c

Alone(d, c) == \A e \in Devices \ {d} : ~Busy(e, c)

Single(c) == \A d, e \in Devices : Busy(d, c) /\ Busy(e, c) => d = e

Meet(d, c, f, v) ==
    /\ EndsWith(outbox[d], DecideStored(c, f), f, stored[c][f], v)
    /\ EndsWith(docbox[d], DecideDoc(c, f), f, docs[c][f], v)

Agree(c) == \A d \in Devices :
    Alone(d, c) => \A f \in {"name", "price"} : \E v : Meet(d, c, f, v)

\* A document is there, or made first, when a write changes it.
Founded(c) == \A d \in Devices : \A i \in DOMAIN docbox[d] :
    docbox[d][i].code = c =>
        \/ docs[c] # Absent
        \/ \E j \in DOMAIN docbox[d] : /\ j <= i
                                       /\ docbox[d][j].code = c
                                       /\ docbox[d][j].op \in Makes

\* A write says what it changes.
Telling(w) == IF w.op \in Makes \cup {"rename"} THEN w.name # NoValue
                                                ELSE w.price # NoValue

DocsTelling == \A d \in Devices : \A i \in DOMAIN docbox[d] :
    Telling(docbox[d][i])

InSync(c) == Single(c) /\ Founded(c) /\ Agree(c)

SyncInv == /\ DocsTelling
           /\ Devices = {} => stored = docs
           /\ ~astray => \A c \in Codes \ excused : InSync(c)

\* A write at the end of a queue decides its fields.
LEMMA AppendEnds ==
  ASSUME NEW Q, NEW q \in Seq(Q), NEW w \in Q, NEW S, NEW f, NEW x, NEW v,
         w \in S => v = w[f],
         w \notin S => EndsWith(q, S, f, x, v)
  PROVE  EndsWith(Append(q, w), S, f, x, v)
<1>1. PICK r : r = Append(q, w)
  OBVIOUS
<1>2. /\ \A i \in DOMAIN q : i \in DOMAIN r /\ r[i] = q[i]
      /\ DOMAIN q = 1 .. Len(q) /\ DOMAIN r = 1 .. Len(q) + 1
      /\ r[Len(q) + 1] = w /\ Len(q) \in Nat
  BY <1>1
<1>3. CASE w \in S
  <2>1. /\ Len(q) + 1 \in DOMAIN r /\ r[Len(q) + 1] \in S
        /\ r[Len(q) + 1][f] = v
        /\ \A j \in DOMAIN r : ~(j > Len(q) + 1)
    BY <1>2, <1>3
  <2> QED BY <1>1, <2>1 DEF EndsWith
<1>4. CASE w \notin S
  <2>1. CASE v = x /\ \A i \in DOMAIN q : q[i] \notin S
    <3>1. \A i \in DOMAIN r : r[i] \notin S
      BY <1>2, <1>4, <2>1
    <3> QED BY <1>1, <2>1, <3>1 DEF EndsWith
  <2>2. ASSUME NEW i \in DOMAIN q, q[i] \in S, q[i][f] = v,
               \A j \in DOMAIN q : j > i => q[j] \notin S
        PROVE  EndsWith(r, S, f, x, v)
    <3>1. i \in DOMAIN r /\ r[i] \in S /\ r[i][f] = v
      BY <1>2, <2>2
    <3>2. \A j \in DOMAIN r : j > i => r[j] \notin S
      BY <1>2, <1>4, <2>2
    <3> QED BY <3>1, <3>2 DEF EndsWith
  <2> QED BY <1>1, <1>4, <2>1, <2>2 DEF EndsWith
<1> QED BY <1>3, <1>4

\* What a queue will leave does not change when its head takes effect.
LEMMA TailEnds ==
  ASSUME NEW Q, NEW q \in Seq(Q), q # <<>>, NEW S, NEW f, NEW x, NEW y, NEW v,
         EndsWith(q, S, f, x, v),
         y = IF Head(q) \in S THEN Head(q)[f] ELSE x
  PROVE  EndsWith(Tail(q), S, f, y, v)
<1>1. PICK r : r = Tail(q)
  OBVIOUS
<1>2. /\ 1 \in DOMAIN q /\ Head(q) = q[1]
      /\ \A i \in DOMAIN q : i # 1 => i - 1 \in DOMAIN r /\ r[i - 1] = q[i]
      /\ \A i \in DOMAIN r : i + 1 \in DOMAIN q /\ r[i] = q[i + 1]
  BY <1>1, TailPlaces
<1>3. DOMAIN q \subseteq Nat \ {0} /\ DOMAIN r \subseteq Nat
  BY <1>1
<1>4. CASE v = x /\ \A i \in DOMAIN q : q[i] \notin S
  <2>1. y = x /\ \A i \in DOMAIN r : r[i] \notin S
    BY <1>2, <1>4
  <2> QED BY <1>1, <1>4, <2>1 DEF EndsWith
<1>5. ASSUME NEW i \in DOMAIN q, q[i] \in S, q[i][f] = v,
             \A j \in DOMAIN q : j > i => q[j] \notin S
      PROVE  EndsWith(r, S, f, y, v)
  <2>1. \A j \in DOMAIN r : j + 1 > i => r[j] \notin S
    BY <1>2, <1>3, <1>5
  <2>2. CASE i = 1
    <3>1. y = v
      BY <1>2, <1>5, <2>2
    <3>2. \A j \in DOMAIN r : r[j] \notin S
      BY <1>3, <2>1, <2>2
    <3> QED BY <3>1, <3>2 DEF EndsWith
  <2>3. CASE i # 1
    <3>1. i - 1 \in DOMAIN r /\ r[i - 1] = q[i]
      BY <1>2, <2>3
    <3>2. \A j \in DOMAIN r : j > i - 1 => r[j] \notin S
      BY <1>3, <1>5, <2>1
    <3> QED BY <1>5, <3>1, <3>2 DEF EndsWith
  <2> QED BY <2>2, <2>3
<1> QED BY <1>1, <1>4, <1>5 DEF EndsWith

\* What a device sees of a product is what its queue will leave there.
LEMMA SeenEnds ==
  ASSUME TypeOK, NEW d \in Devices, NEW c \in Codes,
         NEW f \in {"name", "price"}, NEW v,
         EndsWith(outbox[d], DecideStored(c, f), f, stored[c][f], v)
  PROVE  Seen(d, c, f) = v
<1>1. outbox[d] \in Seq(Writes)
  BY DEF TypeOK, QueueTypes
<1>2. PICK q : q = outbox[d]
  OBVIOUS
<1>3. /\ \A i \in DOMAIN q : q[i] \in Writes
      /\ DOMAIN q \subseteq Nat
  BY <1>1, <1>2
<1>4. Deciding(d, c, f) = {i \in DOMAIN q : q[i] \in DecideStored(c, f)}
  BY <1>2, <1>3 DEF Deciding, Pending, DecideStored
<1>5. CASE v = stored[c][f] /\ \A i \in DOMAIN q : q[i] \notin DecideStored(c, f)
  <2>1. Newest(d, c, f) = {}
    BY <1>4, <1>5 DEF Newest
  <2> QED BY <1>5, <2>1 DEF Seen
<1>6. ASSUME NEW i \in DOMAIN q, q[i] \in DecideStored(c, f), q[i][f] = v,
             \A j \in DOMAIN q : j > i => q[j] \notin DecideStored(c, f)
      PROVE  Seen(d, c, f) = v
  <2>1. \A j \in Deciding(d, c, f) : j \in Nat /\ j <= i
    BY <1>3, <1>4, <1>6
  <2>2. i \in Deciding(d, c, f)
    BY <1>4, <1>6
  <2>3. Newest(d, c, f) = {i}
    BY <2>1, <2>2 DEF Newest
  <2> QED BY <1>2, <1>6, <2>3 DEF Seen
<1> QED BY <1>2, <1>5, <1>6 DEF EndsWith

\* A queue without a write that decides a field leaves it as it is.
LEMMA IdleEnds ==
  ASSUME NEW q, NEW S, NEW f, NEW x, NEW v, \A i \in DOMAIN q : q[i] \notin S
  PROVE  EndsWith(q, S, f, x, v) <=> v = x
  BY DEF EndsWith

\* The databases agree on a code while a device's writes take effect, or leave
\* the queues without being of that code: if it was the device that had writes
\* of the code, the others have none, and see what it leaves.
LEMMA DrainedSync ==
  ASSUME NEW d \in Devices, NEW c \in Codes, Single(c), Agree(c),
         \A e \in Devices : Busy(e, c)' => Busy(e, c),
         \A e \in Devices \ {d} :
            outbox'[e] = outbox[e] /\ docbox'[e] = docbox[e],
         \A f \in {"name", "price"} : \A v :
            Meet(d, c, f, v) => Meet(d, c, f, v)',
         Busy(d, c) \/ (stored'[c] = stored[c] /\ docs'[c] = docs[c])
  PROVE  Single(c)' /\ Agree(c)'
<1>1. Single(c)'
  BY DEF Single
<1>2. ASSUME NEW e \in Devices, Alone(e, c)', NEW f \in {"name", "price"}
      PROVE  \E v : Meet(e, c, f, v)'
  <2>1. CASE Busy(d, c)
    <3>1. Alone(d, c)
      BY <2>1 DEF Alone, Single
    <3>2. PICK v : Meet(d, c, f, v)'
      BY <3>1 DEF Agree
    <3>3. CASE e = d
      BY <3>2, <3>3
    <3>4. CASE e # d
      <4>1. ~Busy(d, c)' /\ ~Busy(e, c)'
        BY <1>2, <2>1, <3>4 DEF Alone, Single
      <4>2. /\ \A i \in DOMAIN outbox'[d] : outbox'[d][i] \notin DecideStored(c, f)
            /\ \A i \in DOMAIN docbox'[d] : docbox'[d][i] \notin DecideDoc(c, f)
            /\ \A i \in DOMAIN outbox'[e] : outbox'[e][i] \notin DecideStored(c, f)
            /\ \A i \in DOMAIN docbox'[e] : docbox'[e][i] \notin DecideDoc(c, f)
        BY <4>1 DEF Busy, DecideStored, DecideDoc
      <4>3. v = stored'[c][f] /\ v = docs'[c][f]
        BY <3>2, <4>2, IdleEnds DEF Meet
      <4>4. Meet(e, c, f, v)'
        BY <4>2, <4>3, IdleEnds DEF Meet
      <4> QED BY <4>4
    <3> QED BY <3>3, <3>4
  <2>2. CASE ~Busy(d, c)
    <3>1. \A x \in Devices \ {d} : Busy(x, c) => Busy(x, c)'
      BY DEF Busy
    <3>2. Alone(e, c)
      BY <1>2, <2>2, <3>1 DEF Alone
    <3>3. PICK v : Meet(e, c, f, v)
      BY <3>2 DEF Agree
    <3>4. CASE e = d
      BY <3>3, <3>4
    <3>5. CASE e # d
      <4>1. Meet(e, c, f, v)'
        BY <2>2, <3>3, <3>5 DEF Meet
      <4> QED BY <4>1
    <3> QED BY <3>4, <3>5
  <2> QED BY <2>1, <2>2
<1> QED BY <1>1, <1>2 DEF Agree

\* A write takes effect in the Realtime Database.
LEMMA AnswerSync ==
  ASSUME TypeOK, WholeInv, SyncInv, NEW d \in Devices, AnswerWrite(d)
  PROVE  SyncInv'
<1>1. PICK w : w = Head(outbox[d])
  OBVIOUS
<1>2. /\ outbox[d] # <<>>
      /\ outbox' = [outbox EXCEPT ![d] = Tail(@)]
      /\ stored' = [stored EXCEPT ![w.code] = StoredAfter(w)]
      /\ UNCHANGED <<docbox, docs, excused>>
  BY <1>1 DEF AnswerWrite
<1>3. AnswerAdd(d, w) \/ AnswerRename(d, w) \/ AnswerPrice(d, w)
      \/ AnswerDuplicate(d, w) \/ AnswerDelete(d, w)
  BY <1>1 DEF AnswerWrite
<1>4. astray => astray'
  BY <1>3 DEF AnswerAdd, AnswerRename, AnswerPrice, AnswerDuplicate,
     AnswerDelete
<1>5. outbox \in [Devices -> Seq(Writes)] /\ stored \in [Codes -> Records]
  BY DEF TypeOK, QueueTypes, StoreTypes
<1>6. /\ outbox'[d] = Tail(outbox[d]) /\ outbox[d] \in Seq(Writes)
      /\ \A e \in Devices \ {d} : outbox'[e] = outbox[e]
  BY <1>2, <1>5
<1>7. w \in Writes /\ 1 \in DOMAIN outbox[d] /\ w = outbox[d][1]
  BY <1>1, <1>2, <1>6, TailPlaces
<1>8. ASSUME NEW c \in Codes \ excused, InSync(c) PROVE InSync(c)'
  <2>1. \A e \in Devices : Busy(e, c)' => Busy(e, c)
    BY <1>2, <1>6, TailPlaces DEF Busy
  <2>2. c # w.code => stored'[c] = stored[c]
    BY <1>2, <1>5
  <2>3. Busy(d, c) \/ (stored'[c] = stored[c] /\ docs'[c] = docs[c])
    BY <1>2, <1>7, <2>2 DEF Busy
  <2>4. ASSUME NEW f \in {"name", "price"}, NEW v, Meet(d, c, f, v)
        PROVE  Meet(d, c, f, v)'
    <3>1. stored'[c][f] = IF w \in DecideStored(c, f) THEN w[f]
                                                       ELSE stored[c][f]
      <4>1. CASE c # w.code
        BY <2>2, <4>1 DEF DecideStored
      <4>2. CASE c = w.code
        <5>1. w.op # "delete"
          BY <1>7, <4>2 DEF WholeInv, DeletesExcused
        <5>2. stored'[c] = Overlay(stored[c], w)
          BY <1>2, <1>5, <4>2, <5>1 DEF StoredAfter
        <5>3. w \in DecideStored(c, f) <=> w[f] # NoValue
          BY <1>7, <4>2, <5>1 DEF DecideStored
        <5> QED BY <5>2, <5>3 DEF Overlay, Field
      <4> QED BY <4>1, <4>2
    <3>2. EndsWith(outbox'[d], DecideStored(c, f), f, stored'[c][f], v)
      BY <1>1, <1>2, <1>6, <2>4, <3>1, TailEnds DEF Meet
    <3> QED BY <1>2, <2>4, <3>2 DEF Meet
  <2>5. Single(c)' /\ Agree(c)'
    BY <1>2, <1>6, <1>8, <2>1, <2>3, <2>4, DrainedSync DEF InSync
  <2>6. Founded(c)'
    BY <1>2, <1>8 DEF InSync, Founded
  <2> QED BY <2>5, <2>6 DEF InSync
<1>9. DocsTelling'
  BY <1>2 DEF SyncInv, DocsTelling
<1> QED BY <1>2, <1>4, <1>8, <1>9 DEF SyncInv

\* When the head of Firestore's queue has gone, the documents that are changed
\* are still there or made first, if the head has made its own.
LEMMA TailFounded ==
  ASSUME TypeOK, NEW d \in Devices, NEW c \in Codes, Founded(c),
         docbox[d] # <<>>, docbox' = [docbox EXCEPT ![d] = Tail(@)],
         docs[c] # Absent => docs'[c] # Absent,
         /\ Head(docbox[d]).code = c
         /\ Head(docbox[d]).op \in Makes
         => docs'[c] # Absent
  PROVE  Founded(c)'
<1>1. /\ docbox[d] \in Seq(Writes) /\ docbox'[d] = Tail(docbox[d])
      /\ \A e \in Devices \ {d} : docbox'[e] = docbox[e]
  BY DEF TypeOK, QueueTypes
<1>2. PICK q, r : q \in Seq(Writes) /\ q = docbox[d] /\ r = docbox'[d]
  BY <1>1
<1>3. /\ Head(q) = q[1]
      /\ \A i \in DOMAIN q : i # 1 => i - 1 \in DOMAIN r /\ r[i - 1] = q[i]
      /\ \A i \in DOMAIN r : i + 1 \in DOMAIN q /\ r[i] = q[i + 1]
  BY <1>1, <1>2, TailPlaces
<1>4. DOMAIN q \subseteq Nat /\ DOMAIN r \subseteq Nat
  BY <1>1, <1>2
<1>5. ASSUME NEW i \in DOMAIN r, r[i].code = c, docs'[c] = Absent
      PROVE  \E j \in DOMAIN r : j <= i /\ r[j].code = c /\ r[j].op \in Makes
  <2>1. i + 1 \in DOMAIN q /\ q[i + 1].code = c /\ docs[c] = Absent
    BY <1>3, <1>5
  <2>2. PICK j \in DOMAIN q : j <= i + 1 /\ q[j].code = c /\ q[j].op \in Makes
    BY <1>2, <2>1 DEF Founded
  <2>3. j # 1
    BY <1>2, <1>3, <1>5, <2>2
  <2>4. j - 1 \in DOMAIN r /\ r[j - 1] = q[j] /\ j - 1 <= i
    BY <1>3, <1>4, <2>2, <2>3
  <2> QED BY <2>2, <2>4
<1> QED BY <1>1, <1>2, <1>5 DEF Founded

\* A write takes effect in Firestore.
LEMMA ApplySync ==
  ASSUME TypeOK, WholeInv, SyncInv, NEW d \in Devices, ApplyDoc(d)
  PROVE  SyncInv'
<1>1. PICK w : w = Head(docbox[d])
  OBVIOUS
<1>2. /\ docbox[d] # <<>>
      /\ docbox' = [docbox EXCEPT ![d] = Tail(@)]
      /\ docs' = [docs EXCEPT ![w.code] = DocAfter(w)]
      /\ UNCHANGED <<outbox, stored, excused, astray>>
  BY <1>1 DEF ApplyDoc, historyVars
<1>3. docbox \in [Devices -> Seq(Writes)] /\ docs \in [Codes -> Records]
  BY DEF TypeOK, QueueTypes, StoreTypes
<1>4. /\ docbox'[d] = Tail(docbox[d]) /\ docbox[d] \in Seq(Writes)
      /\ \A e \in Devices \ {d} : docbox'[e] = docbox[e]
  BY <1>2, <1>3
<1>5. w \in Writes /\ 1 \in DOMAIN docbox[d] /\ w = docbox[d][1]
  BY <1>1, <1>2, <1>4, TailPlaces
<1>6. Telling(w) /\ w.op \in Ops /\ w.code \in Codes
  BY <1>5 DEF SyncInv, DocsTelling, Writes
<1>7. ASSUME NEW c \in Codes \ excused, InSync(c) PROVE InSync(c)'
  <2>1. \A e \in Devices : Busy(e, c)' => Busy(e, c)
    BY <1>2, <1>4, TailPlaces DEF Busy
  <2>2. c # w.code => docs'[c] = docs[c]
    BY <1>2, <1>3
  <2>3. Busy(d, c) \/ (stored'[c] = stored[c] /\ docs'[c] = docs[c])
    BY <1>2, <1>5, <2>2 DEF Busy
  <2>4. CASE c # w.code
    <3>1. ASSUME NEW f \in {"name", "price"}, NEW v, Meet(d, c, f, v)
          PROVE  Meet(d, c, f, v)'
      <4>1. w \notin DecideDoc(c, f)
        BY <2>4 DEF DecideDoc
      <4>2. EndsWith(docbox'[d], DecideDoc(c, f), f, docs'[c][f], v)
        BY <1>1, <1>2, <1>4, <2>2, <2>4, <3>1, <4>1, TailEnds DEF Meet
      <4> QED BY <1>2, <3>1, <4>2 DEF Meet
    <3>2. Single(c)' /\ Agree(c)'
      BY <1>2, <1>4, <1>7, <2>1, <2>3, <3>1, DrainedSync DEF InSync
    <3>3. Founded(c)'
      BY <1>1, <1>2, <1>7, <2>2, <2>4, TailFounded DEF InSync
    <3> QED BY <3>2, <3>3 DEF InSync
  <2>5. CASE c = w.code
    <3>1. docs'[c] = DocAfter(w) /\ docs[c] \in Records
      BY <1>2, <1>3, <2>5
    <3>2. w.op \in Makes \/ docs[c] # Absent
      <4>1. PICK j \in DOMAIN docbox[d] : docs[c] # Absent \/
               (j <= 1 /\ docbox[d][j].op \in Makes)
        BY <1>5, <1>7, <2>5 DEF InSync, Founded
      <4>2. j \in Nat \ {0}
        BY <1>4
      <4>3. docs[c] # Absent \/ j = 1
        BY <4>1, <4>2
      <4> QED BY <1>5, <4>1, <4>3
    <3>3. /\ docs'[c].name = IF w.op \in Makes \cup {"rename"} THEN w.name
                             ELSE docs[c].name
          /\ docs'[c].price = IF w.op = "rename" THEN docs[c].price
                              ELSE w.price
      <4>1. CASE w.op \in Makes
        <5>1. docs'[c] = Overlay(Absent, w) /\ w.op # "rename"
          BY <3>1, <4>1 DEF DocAfter, Makes
        <5>2. /\ Overlay(Absent, w).name = w.name
              /\ Overlay(Absent, w).price = w.price
          BY DEF Overlay, Field, Absent
        <5> QED BY <4>1, <5>1, <5>2
      <4>2. CASE w.op = "rename"
        BY <2>5, <3>1, <3>2, <4>2 DEF DocAfter, Makes, Records
      <4>3. CASE w.op \notin Makes \cup {"rename"}
        BY <2>5, <3>1, <3>2, <4>3 DEF DocAfter, Makes, Records
      <4> QED BY <4>1, <4>2, <4>3
    <3>4. docs'[c] # Absent
      BY <1>6, <3>3 DEF Telling, Absent, Makes
    <3>5. ASSUME NEW f \in {"name", "price"}, NEW v, Meet(d, c, f, v)
          PROVE  Meet(d, c, f, v)'
      <4>1. docs'[c][f] = IF w \in DecideDoc(c, f) THEN w[f] ELSE docs[c][f]
        BY <1>5, <2>5, <3>3 DEF DecideDoc, Makes
      <4>2. EndsWith(docbox'[d], DecideDoc(c, f), f, docs'[c][f], v)
        BY <1>1, <1>2, <1>4, <3>5, <4>1, TailEnds DEF Meet
      <4> QED BY <1>2, <3>5, <4>2 DEF Meet
    <3>6. Single(c)' /\ Agree(c)'
      BY <1>2, <1>4, <1>7, <2>1, <2>3, <3>5, DrainedSync DEF InSync
    <3>7. Founded(c)'
      BY <1>1, <1>2, <1>7, <3>4, TailFounded DEF InSync
    <3> QED BY <3>6, <3>7 DEF InSync
  <2> QED BY <2>4, <2>5
<1>8. DocsTelling'
  BY <1>2, <1>4, TailPlaces DEF SyncInv, DocsTelling
<1> QED BY <1>2, <1>7, <1>8 DEF SyncInv

\* Nothing but the codes that are excused for it misses a write that is refused
\* or lost.
LEMMA FailureSync ==
  ASSUME TypeOK, WholeInv, SyncInv, NEW d \in Devices, Failure(d)
  PROVE  SyncInv'
<1>1. excused \subseteq excused' /\ UNCHANGED <<storeVars, astray>>
  BY DEF Failure, RefuseWrite, RefuseDoc, Restart
<1>2. /\ outbox \in [Devices -> Seq(Writes)]
      /\ docbox \in [Devices -> Seq(Writes)]
  BY DEF TypeOK, QueueTypes
<1>3. DocsTelling'
  <2>1. \A e \in Devices : \A i \in DOMAIN docbox'[e] :
          \E j \in DOMAIN docbox[e] : docbox'[e][i] = docbox[e][j]
    BY QueuesShrink
  <2> QED BY <2>1 DEF SyncInv, DocsTelling
<1>4. ASSUME NEW c \in Codes \ excused', InSync(c) PROVE InSync(c)'
  <2>1. \A e \in Devices : Busy(e, c)' => Busy(e, c)
    BY QueuesShrink DEF Busy
  <2>2. stored'[c] = stored[c] /\ docs'[c] = docs[c]
    BY <1>1 DEF storeVars
  <2>3. CASE RefuseWrite(d)
    <3>1. /\ outbox[d] # <<>> /\ outbox[d] \in Seq(Writes)
          /\ outbox'[d] = Tail(outbox[d]) /\ docbox' = docbox
          /\ \A e \in Devices \ {d} : outbox'[e] = outbox[e]
          /\ Head(outbox[d]).code # c
      BY <1>2, <1>4, <2>3 DEF RefuseWrite
    <3>2. ASSUME NEW f \in {"name", "price"}, NEW v, Meet(d, c, f, v)
          PROVE  Meet(d, c, f, v)'
      <4>1. Head(outbox[d]) \notin DecideStored(c, f)
        BY <3>1 DEF DecideStored
      <4>2. EndsWith(outbox'[d], DecideStored(c, f), f, stored'[c][f], v)
        BY <2>2, <3>1, <3>2, <4>1, TailEnds DEF Meet
      <4> QED BY <2>2, <3>1, <3>2, <4>2 DEF Meet
    <3>3. Single(c)' /\ Agree(c)'
      BY <1>4, <2>1, <2>2, <3>1, <3>2, DrainedSync DEF InSync
    <3>4. Founded(c)'
      BY <1>4, <2>2, <3>1 DEF InSync, Founded
    <3> QED BY <3>3, <3>4 DEF InSync
  <2>4. CASE RefuseDoc(d)
    <3>1. /\ docbox[d] # <<>> /\ docbox[d] \in Seq(Writes)
          /\ docbox' = [docbox EXCEPT ![d] = Tail(@)]
          /\ docbox'[d] = Tail(docbox[d]) /\ outbox' = outbox
          /\ \A e \in Devices \ {d} : docbox'[e] = docbox[e]
          /\ Head(docbox[d]).code # c
      BY <1>2, <1>4, <2>4 DEF RefuseDoc
    <3>2. ASSUME NEW f \in {"name", "price"}, NEW v, Meet(d, c, f, v)
          PROVE  Meet(d, c, f, v)'
      <4>1. Head(docbox[d]) \notin DecideDoc(c, f)
        BY <3>1 DEF DecideDoc
      <4>2. EndsWith(docbox'[d], DecideDoc(c, f), f, docs'[c][f], v)
        BY <2>2, <3>1, <3>2, <4>1, TailEnds DEF Meet
      <4> QED BY <2>2, <3>1, <3>2, <4>2 DEF Meet
    <3>3. Single(c)' /\ Agree(c)'
      BY <1>4, <2>1, <2>2, <3>1, <3>2, DrainedSync DEF InSync
    <3>4. Founded(c)'
      BY <1>4, <2>2, <3>1, TailFounded DEF InSync
    <3> QED BY <3>3, <3>4 DEF InSync
  <2>5. CASE Restart(d)
    <3>1. /\ outbox'[d] = <<>> /\ docbox' = docbox
          /\ \A e \in Devices \ {d} : outbox'[e] = outbox[e]
          /\ \A i \in DOMAIN outbox[d] : outbox[d][i].code # c
      BY <1>2, <1>4, <2>5 DEF Restart
    <3>2. ASSUME NEW f \in {"name", "price"}, NEW v, Meet(d, c, f, v)
          PROVE  Meet(d, c, f, v)'
      <4>1. /\ \A i \in DOMAIN outbox[d] : outbox[d][i] \notin DecideStored(c, f)
            /\ \A i \in DOMAIN outbox'[d] : outbox'[d][i] \notin DecideStored(c, f)
        BY <3>1 DEF DecideStored
      <4>2. v = stored[c][f]
        BY <3>2, <4>1, IdleEnds DEF Meet
      <4>3. EndsWith(outbox'[d], DecideStored(c, f), f, stored'[c][f], v)
        BY <2>2, <4>1, <4>2, IdleEnds
      <4> QED BY <2>2, <3>1, <3>2, <4>3 DEF Meet
    <3>3. Single(c)' /\ Agree(c)'
      BY <1>4, <2>1, <2>2, <3>1, <3>2, DrainedSync DEF InSync
    <3>4. Founded(c)'
      BY <1>4, <2>2, <3>1 DEF InSync, Founded
    <3> QED BY <3>3, <3>4 DEF InSync
  <2> QED BY <2>3, <2>4, <2>5 DEF Failure
<1>5. ~astray => \A c \in Codes \ excused' : InSync(c)
  BY <1>1 DEF SyncInv
<1> QED BY <1>1, <1>3, <1>4, <1>5 DEF SyncInv

\* Nothing, or the write w of a device, has been appended to the queues.
Grown(q, r, d, w) == r = q \/ r = [q EXCEPT ![d] = Append(@, w)]

\* A queue to which nothing or a write is appended keeps what it has.
LEMMA GrownPlaces ==
  ASSUME NEW w \in Writes, NEW d \in Devices,
         NEW q \in [Devices -> Seq(Writes)], NEW r, Grown(q, r, d, w)
  PROVE  /\ \A e \in Devices : \A i \in DOMAIN q[e] :
                i \in DOMAIN r[e] /\ r[e][i] = q[e][i]
         /\ \A e \in Devices : \A i \in DOMAIN r[e] :
                r[e][i] = w \/ (i \in DOMAIN q[e] /\ r[e][i] = q[e][i])
         /\ \A e \in Devices \ {d} : r[e] = q[e]
         /\ r[d] = q[d] \/ r[d] = Append(q[d], w)
<1>1. CASE r = q
  BY <1>1
<1>2. CASE r = [q EXCEPT ![d] = Append(@, w)]
  BY <1>2, AppendPlaces
<1> QED BY <1>1, <1>2 DEF Grown

\* A write that is sent changes nothing of another code.
LEMMA ElsewhereSync ==
  ASSUME TypeOK, NEW d \in Devices, NEW w \in Writes, NEW c \in Codes,
         c # w.code, InSync(c), UNCHANGED storeVars,
         Grown(outbox, outbox', d, w), Grown(docbox, docbox', d, w)
  PROVE  InSync(c)'
<1>1. outbox \in [Devices -> Seq(Writes)] /\ docbox \in [Devices -> Seq(Writes)]
  BY DEF TypeOK, QueueTypes
<1>2. /\ outbox[d] \in Seq(Writes) /\ docbox[d] \in Seq(Writes)
      /\ outbox'[d] = outbox[d] \/ outbox'[d] = Append(outbox[d], w)
      /\ docbox'[d] = docbox[d] \/ docbox'[d] = Append(docbox[d], w)
      /\ \A e \in Devices \ {d} :
            outbox'[e] = outbox[e] /\ docbox'[e] = docbox[e]
  <2>1. \A e \in Devices \ {d} :
           outbox'[e] = outbox[e] /\ docbox'[e] = docbox[e]
    BY <1>1 DEF Grown
  <2>2. /\ outbox'[d] = outbox[d] \/ outbox'[d] = Append(outbox[d], w)
        /\ docbox'[d] = docbox[d] \/ docbox'[d] = Append(docbox[d], w)
    BY <1>1 DEF Grown
  <2> QED BY <1>1, <2>1, <2>2
<1>3. stored' = stored /\ docs' = docs
  BY DEF storeVars
<1>4. /\ \A e \in Devices : \A i \in DOMAIN outbox'[e] : outbox'[e][i] = w \/
            (i \in DOMAIN outbox[e] /\ outbox'[e][i] = outbox[e][i])
      /\ \A e \in Devices : \A i \in DOMAIN docbox'[e] : docbox'[e][i] = w \/
            (i \in DOMAIN docbox[e] /\ docbox'[e][i] = docbox[e][i])
      /\ \A e \in Devices : \A i \in DOMAIN docbox[e] :
            i \in DOMAIN docbox'[e] /\ docbox'[e][i] = docbox[e][i]
  <2>1. PICK q, r, s, t : /\ q = outbox /\ r = outbox'
                          /\ s = docbox /\ t = docbox'
    OBVIOUS
  <2>2. Grown(q, r, d, w) /\ q \in [Devices -> Seq(Writes)]
    BY <1>1, <2>1
  <2>3. Grown(s, t, d, w) /\ s \in [Devices -> Seq(Writes)]
    BY <1>1, <2>1
  <2>4. \A e \in Devices : \A i \in DOMAIN r[e] : r[e][i] = w \/
            (i \in DOMAIN q[e] /\ r[e][i] = q[e][i])
    BY <2>2, GrownPlaces
  <2>5. /\ \A e \in Devices : \A i \in DOMAIN t[e] : t[e][i] = w \/
              (i \in DOMAIN s[e] /\ t[e][i] = s[e][i])
        /\ \A e \in Devices : \A i \in DOMAIN s[e] :
              i \in DOMAIN t[e] /\ t[e][i] = s[e][i]
    BY <2>3, GrownPlaces
  <2> QED BY <2>1, <2>4, <2>5
<1>5. \A e \in Devices : Busy(e, c)' => Busy(e, c)
  BY <1>2, <1>4 DEF Busy
<1>6. ASSUME NEW f \in {"name", "price"}, NEW v, Meet(d, c, f, v)
      PROVE  Meet(d, c, f, v)'
  <2>1. w \notin DecideStored(c, f) /\ w \notin DecideDoc(c, f)
    BY DEF DecideStored, DecideDoc
  <2>2. EndsWith(outbox'[d], DecideStored(c, f), f, stored'[c][f], v)
    <3>1. EndsWith(outbox[d], DecideStored(c, f), f, stored'[c][f], v)
      BY <1>3, <1>6 DEF Meet
    <3>2. EndsWith(Append(outbox[d], w), DecideStored(c, f), f, stored'[c][f], v)
      BY <1>2, <2>1, <3>1, AppendEnds
    <3> QED BY <1>2, <3>1, <3>2
  <2>3. EndsWith(docbox'[d], DecideDoc(c, f), f, docs'[c][f], v)
    <3>1. EndsWith(docbox[d], DecideDoc(c, f), f, docs'[c][f], v)
      BY <1>3, <1>6 DEF Meet
    <3>2. EndsWith(Append(docbox[d], w), DecideDoc(c, f), f, docs'[c][f], v)
      BY <1>2, <2>1, <3>1, AppendEnds
    <3> QED BY <1>2, <3>1, <3>2
  <2> QED BY <2>2, <2>3 DEF Meet
<1>7. Single(c)' /\ Agree(c)'
  BY <1>2, <1>3, <1>5, <1>6, DrainedSync DEF InSync
<1>8. ASSUME NEW e \in Devices, NEW i \in DOMAIN docbox'[e],
             docbox'[e][i].code = c, docs'[c] = Absent
      PROVE  \E j \in DOMAIN docbox'[e] : /\ j <= i
                                          /\ docbox'[e][j].code = c
                                          /\ docbox'[e][j].op \in Makes
  <2>1. i \in DOMAIN docbox[e] /\ docbox'[e][i] = docbox[e][i]
    BY <1>4, <1>8
  <2>2. PICK j \in DOMAIN docbox[e] : /\ j <= i
                                      /\ docbox[e][j].code = c
                                      /\ docbox[e][j].op \in Makes
    BY <1>3, <1>8, <2>1 DEF InSync, Founded
  <2>3. j \in DOMAIN docbox'[e] /\ docbox'[e][j] = docbox[e][j]
    BY <1>4
  <2> QED BY <2>2, <2>3
<1>9. Founded(c)'
  BY <1>8 DEF Founded
<1> QED BY <1>7, <1>9 DEF InSync

\* A product that has a price where a device sees it has a document, or a write
\* under way that makes one.
LEMMA Grounded ==
  ASSUME TypeOK, DeletesExcused, NEW d \in Devices, NEW c \in Codes \ excused,
         Priced(c), Alone(d, c), Agree(c), Founded(c)
  PROVE  \/ docs[c] # Absent
         \/ \E j \in DOMAIN docbox[d] : /\ docbox[d][j].code = c
                                        /\ docbox[d][j].op \in Makes
<1>1. PICK v : Meet(d, c, "price", v)
  BY DEF Agree
<1>2. outbox[d] \in Seq(Writes)
  BY DEF TypeOK, QueueTypes
<1>3. \A i \in DOMAIN outbox[d] : outbox[d][i] \in Writes
  BY <1>2
<1>4. v # NoValue
  <2>1. CASE /\ v = stored[c].price
             /\ \A i \in DOMAIN outbox[d] :
                   outbox[d][i] \notin DecideStored(c, "price")
    <3>1. \A e \in Devices : \A i \in DOMAIN outbox[e] :
             ~(outbox[e][i].code = c /\ outbox[e][i].price # NoValue)
      BY <1>3, <2>1 DEF DecideStored, Alone, Busy
    <3> QED BY <2>1, <3>1 DEF Priced
  <2>2. ASSUME NEW i \in DOMAIN outbox[d],
               outbox[d][i] \in DecideStored(c, "price"),
               outbox[d][i].price = v
        PROVE  v # NoValue
    BY <2>2 DEF DecideStored, DeletesExcused
  <2> QED BY <1>1, <2>1, <2>2 DEF Meet, EndsWith
<1>5. CASE v = docs[c].price
  BY <1>4, <1>5 DEF Absent
<1>6. ASSUME NEW i \in DOMAIN docbox[d], docbox[d][i] \in DecideDoc(c, "price")
      PROVE  \/ docs[c] # Absent
             \/ \E j \in DOMAIN docbox[d] : /\ docbox[d][j].code = c
                                            /\ docbox[d][j].op \in Makes
  BY <1>6 DEF DecideDoc, Founded
<1> QED BY <1>1, <1>5, <1>6 DEF Meet, EndsWith

\* An edit goes to both databases, and leaves the same there: a new product
\* brings every field, a change of the name only the name, and a change of the
\* price the name that is there.
LEMMA ConfirmSync ==
  ASSUME TypeOK, WholeInv, SyncInv, NEW d \in Devices, NEW w \in Writes,
         Confirm(d, w),
         \/ w.op \in Makes /\ w.name # NoValue /\ w.price # NoValue
         \/ /\ w.op = "rename" /\ w.name # NoValue /\ w.price = NoValue
            /\ ~astray => Vouched(w.code)
         \/ /\ w.op = "price" /\ w.name # NoValue /\ w.price # NoValue
            /\ ~astray => Vouched(w.code)
  PROVE  SyncInv'
<1>1. /\ outbox' = [outbox EXCEPT ![d] = Append(@, w)]
      /\ docbox' = [docbox EXCEPT ![d] = Append(@, w)]
      /\ excused' = excused \cup Divided(d, w)
      /\ UNCHANGED <<stored, docs, astray>>
  BY DEF Confirm, storeVars
<1>2. outbox \in [Devices -> Seq(Writes)] /\ docbox \in [Devices -> Seq(Writes)]
  BY DEF TypeOK, QueueTypes
<1>3. /\ outbox[d] \in Seq(Writes) /\ outbox'[d] = Append(outbox[d], w)
      /\ docbox[d] \in Seq(Writes) /\ docbox'[d] = Append(docbox[d], w)
      /\ \A e \in Devices \ {d} :
            outbox'[e] = outbox[e] /\ docbox'[e] = docbox[e]
  BY <1>1, <1>2
<1>4. Telling(w)
  BY DEF Telling, Makes
<1>5. DocsTelling'
  <2>1. \A e \in Devices : \A i \in DOMAIN docbox'[e] : docbox'[e][i] = w \/
          (i \in DOMAIN docbox[e] /\ docbox'[e][i] = docbox[e][i])
    BY <1>1, <1>2, AppendPlaces
  <2> QED BY <1>4, <2>1 DEF SyncInv, DocsTelling
<1>6. ASSUME NEW c \in Codes \ excused', InSync(c), c = w.code, ~astray
      PROVE  InSync(c)'
  <2>1. /\ c \notin excused /\ ~Overlaps(d, c)
        /\ w.op = "price" => w.name = Seen(d, c, "name")
    BY <1>1, <1>6 DEF Divided
  <2>2. Alone(d, c)
    <3>1. ASSUME NEW e \in Devices,
                 Pending(outbox[e], c) \cup Pending(docbox[e], c) = {}
          PROVE  ~Busy(e, c)
      <4>1. Pending(outbox[e], c) = {} /\ Pending(docbox[e], c) = {}
        BY <3>1
      <4> QED BY <4>1 DEF Pending, Busy
    <3> QED BY <2>1, <3>1 DEF Overlaps, Alone
  <2>3. Busy(d, c)' /\ \A e \in Devices \ {d} : ~Busy(e, c)'
    <3>1. \A e \in Devices \ {d} : ~Busy(e, c)'
      <4>1. ASSUME NEW e \in Devices \ {d} PROVE ~Busy(e, c)'
        <5>1. outbox'[e] = outbox[e] /\ docbox'[e] = docbox[e]
          BY <1>3
        <5>2. ~Busy(e, c)
          BY <2>2 DEF Alone
        <5> QED BY <5>1, <5>2 DEF Busy
      <4> QED BY <4>1
    <3>2. /\ Len(outbox[d]) + 1 \in DOMAIN outbox'[d]
          /\ outbox'[d][Len(outbox[d]) + 1] = w
      BY <1>3
    <3> QED BY <1>6, <3>1, <3>2 DEF Busy
  <2>4. Single(c)'
    BY <2>3 DEF Single
  <2>5. \E v : Meet(d, c, "name", v)'
    <3>1. PICK v : Meet(d, c, "name", v)
      BY <1>6, <2>2 DEF InSync, Agree
    <3>2. w \in DecideStored(c, "name")
      BY <1>6 DEF DecideStored
    <3>3. EndsWith(outbox'[d], DecideStored(c, "name"), "name",
                   stored'[c].name, w.name)
      BY <1>1, <1>3, <3>2, AppendEnds
    <3>4. w.op = "price" => v = w.name
      BY <2>1, <3>1, SeenEnds DEF Meet
    <3>5. w.op # "price" => w \in DecideDoc(c, "name")
      BY <1>6 DEF DecideDoc
    <3>6. w.op = "price" => w \notin DecideDoc(c, "name")
      BY DEF DecideDoc, Makes
    <3>7. EndsWith(docbox'[d], DecideDoc(c, "name"), "name",
                   docs'[c].name, w.name)
      BY <1>1, <1>3, <3>1, <3>4, <3>5, <3>6, AppendEnds DEF Meet
    <3> QED BY <3>3, <3>7 DEF Meet
  <2>6. \E v : Meet(d, c, "price", v)'
    <3>1. PICK v : Meet(d, c, "price", v)
      BY <1>6, <2>2 DEF InSync, Agree
    <3>2. CASE w.op = "rename"
      <4>1. w \notin DecideStored(c, "price") /\ w \notin DecideDoc(c, "price")
        BY <3>2 DEF DecideStored, DecideDoc, Makes
      <4>2. Meet(d, c, "price", v)'
        BY <1>1, <1>3, <3>1, <4>1, AppendEnds DEF Meet
      <4> QED BY <4>2
    <3>3. CASE w.op # "rename"
      <4>1. w \in DecideStored(c, "price") /\ w \in DecideDoc(c, "price")
        BY <1>6, <3>3 DEF DecideStored, DecideDoc, Makes
      <4>2. Meet(d, c, "price", w.price)'
        BY <1>1, <1>3, <4>1, AppendEnds DEF Meet
      <4> QED BY <4>2
    <3> QED BY <3>2, <3>3
  <2>7. Agree(c)'
    BY <2>3, <2>5, <2>6 DEF Agree, Alone
  <2>8. Founded(c)'
    <3>1. \/ w.op \in Makes
          \/ docs[c] # Absent
          \/ \E j \in DOMAIN docbox[d] : /\ docbox[d][j].code = c
                                         /\ docbox[d][j].op \in Makes
      <4>1. w.op \in Makes \/ Priced(c)
        BY <1>6, <2>1 DEF Vouched
      <4> QED BY <1>6, <2>1, <2>2, <4>1, Grounded DEF InSync, WholeInv
    <3>2. \A i \in DOMAIN docbox[d] :
             i \in DOMAIN docbox'[d] /\ docbox'[d][i] = docbox[d][i]
      BY <1>1, <1>2, AppendPlaces
    <3>3. /\ DOMAIN docbox[d] = 1 .. Len(docbox[d]) /\ Len(docbox[d]) \in Nat
          /\ DOMAIN docbox'[d] = 1 .. Len(docbox[d]) + 1
          /\ docbox'[d][Len(docbox[d]) + 1] = w
      BY <1>3
    <3>4. ASSUME NEW i \in DOMAIN docbox'[d], docbox'[d][i].code = c,
                 docs'[c] = Absent
          PROVE  \E j \in DOMAIN docbox'[d] : /\ j <= i
                                              /\ docbox'[d][j].code = c
                                              /\ docbox'[d][j].op \in Makes
      <4>1. CASE i \in DOMAIN docbox[d]
        <5>1. PICK j \in DOMAIN docbox[d] : /\ j <= i
                                            /\ docbox[d][j].code = c
                                            /\ docbox[d][j].op \in Makes
          BY <1>1, <1>6, <3>2, <3>4, <4>1 DEF InSync, Founded
        <5> QED BY <3>2, <5>1
      <4>2. CASE i = Len(docbox[d]) + 1
        <5>1. CASE w.op \in Makes
          BY <3>3, <3>4, <4>2, <5>1
        <5>2. ASSUME NEW j \in DOMAIN docbox[d], docbox[d][j].code = c,
                     docbox[d][j].op \in Makes
              PROVE  \E k \in DOMAIN docbox'[d] :
                        /\ k <= i
                        /\ docbox'[d][k].code = c
                        /\ docbox'[d][k].op \in Makes
          <6>1. j <= i
            BY <3>3, <4>2, <5>2
          <6> QED BY <3>2, <5>2, <6>1
        <5> QED BY <1>1, <3>1, <3>4, <5>1, <5>2
      <4> QED BY <3>3, <4>1, <4>2
    <3>5. \A e \in Devices \ {d} : \A i \in DOMAIN docbox'[e] :
             docbox'[e][i].code # c
      BY <2>3 DEF Busy
    <3> QED BY <3>4, <3>5 DEF Founded
  <2> QED BY <2>4, <2>7, <2>8 DEF InSync
<1>7. ASSUME NEW c \in Codes \ excused', ~astray PROVE InSync(c)'
  <2>1. c \notin excused /\ InSync(c)
    BY <1>1, <1>7 DEF SyncInv
  <2>2. UNCHANGED storeVars
    BY <1>1 DEF storeVars
  <2>3. Grown(outbox, outbox', d, w) /\ Grown(docbox, docbox', d, w)
    BY <1>1 DEF Grown
  <2> QED BY <1>6, <1>7, <2>1, <2>2, <2>3, ElsewhereSync
<1> QED BY <1>1, <1>5, <1>7 DEF SyncInv

\* An edit that goes to one of the databases only excuses its code.
LEMMA HalfSync ==
  ASSUME TypeOK, SyncInv, NEW d \in Devices, NEW w \in Writes,
         Telling(w) \/ docbox' = docbox,
         Grown(outbox, outbox', d, w), Grown(docbox, docbox', d, w),
         UNCHANGED <<storeVars, astray>>,
         w.code \in excused', excused \subseteq excused'
  PROVE  SyncInv'
<1>1. docbox \in [Devices -> Seq(Writes)]
  BY DEF TypeOK, QueueTypes
<1>2. DocsTelling'
  <2>1. PICK q, r : q = docbox /\ r = docbox'
    OBVIOUS
  <2>2. Grown(q, r, d, w) /\ q \in [Devices -> Seq(Writes)]
    BY <1>1, <2>1
  <2>3. \A e \in Devices : \A i \in DOMAIN r[e] : r[e][i] = w \/
            (i \in DOMAIN q[e] /\ r[e][i] = q[e][i])
    BY <2>2, GrownPlaces
  <2> QED BY <2>1, <2>3 DEF SyncInv, DocsTelling
<1>3. ASSUME NEW c \in Codes \ excused', ~astray PROVE InSync(c)'
  <2>1. c \notin excused /\ c # w.code /\ InSync(c)
    BY <1>3 DEF SyncInv
  <2>2. UNCHANGED storeVars
    OBVIOUS
  <2> QED BY <2>1, <2>2, ElsewhereSync
<1> QED BY <1>2, <1>3 DEF SyncInv, storeVars

\* Every edit leaves the same in both databases, or excuses its code.
LEMMA EditSync ==
  ASSUME TypeOK, WholeInv, SyncInv, NEW d \in Devices,
         \/ \E n \in Names : Rename(d, n)
         \/ \E p \in Prices : \/ AddProduct(d, p)
                            \/ Reprice(d, p)
                            \/ RepriceHalf(d, p)
                            \/ \E s \in Codes : Duplicate(d, p, s)
         \/ \E c \in Codes : Delete(d, c)
  PROVE  SyncInv'
<1>1. sku[d] \in Codes /\ nextCode[d] \in Codes /\ draft[d] \in Names
      /\ \A c \in Codes : results[d][c] \in Names \cup {NoValue}
  BY DEF TypeOK, DeviceTypes
<1>2. ~astray /\ page[d] = "product" => Vouched(sku[d])
  BY DEF WholeInv, AllVouched, KnownVouched
<1>3. ASSUME NEW n \in Names, Rename(d, n) PROVE SyncInv'
  <2>1. PICK w \in Writes : w = Write("rename", sku[d], n, NoValue)
    BY <1>1, WriteType DEF Ops
  <2>2. Confirm(d, w) /\ (~astray => Vouched(w.code))
    BY <1>2, <1>3, <2>1 DEF Rename, Write
  <2>3. w.op = "rename" /\ w.name # NoValue /\ w.price = NoValue
    BY <2>1, ValuesAssumption DEF Write
  <2> QED BY <2>2, <2>3, ConfirmSync
<1>4. ASSUME NEW p \in Prices, AddProduct(d, p) PROVE SyncInv'
  <2>1. PICK w \in Writes : w = AddFields(d, p)
    BY <1>1, WriteType DEF Ops, AddFields
  <2>2. Confirm(d, w)
    BY <1>4, <2>1 DEF AddProduct
  <2>3. w.op \in Makes /\ w.name # NoValue /\ w.price # NoValue
    BY <1>1, <2>1, ValuesAssumption DEF Write, AddFields, Makes
  <2> QED BY <2>2, <2>3, ConfirmSync
<1>5. ASSUME NEW p \in Prices, Reprice(d, p) PROVE SyncInv'
  <2>1. PICK w \in Writes : w = Write("price", sku[d], CopiedName(d), p)
    BY <1>1, WriteType DEF Ops, CopiedName
  <2>2. Confirm(d, w) /\ (~astray => Vouched(w.code))
    BY <1>2, <1>5, <2>1 DEF Reprice, Write
  <2>3. w.op = "price" /\ w.name # NoValue /\ w.price # NoValue
    BY <1>5, <2>1, ValuesAssumption DEF Write, Reprice, CopiedName
  <2> QED BY <2>2, <2>3, ConfirmSync
<1>6. ASSUME NEW p \in Prices, RepriceHalf(d, p) PROVE SyncInv'
  <2>1. PICK w \in Writes : w = Write("price", sku[d], NoValue, p)
    BY <1>1, WriteType DEF Ops
  <2>2. /\ outbox' = outbox
        /\ docbox' = [docbox EXCEPT ![d] = Append(@, w)]
        /\ excused' = excused \cup {sku[d]}
        /\ UNCHANGED <<storeVars, astray>>
    BY <1>6, <2>1 DEF RepriceHalf
  <2>3. Telling(w) /\ w.code = sku[d]
    BY <2>1, ValuesAssumption DEF Write, Telling, Makes
  <2>4. Grown(outbox, outbox', d, w) /\ Grown(docbox, docbox', d, w)
    BY <2>2 DEF Grown
  <2> QED BY <2>2, <2>3, <2>4, HalfSync
<1>7. ASSUME NEW p \in Prices, NEW s \in Codes, Duplicate(d, p, s)
      PROVE  SyncInv'
  <2>1. PICK w \in Writes : w = Write("duplicate", s, results[d][sku[d]], p)
    BY <1>1, WriteType DEF Ops
  <2>2. Confirm(d, w)
    BY <1>7, <2>1 DEF Duplicate
  <2>3. w.op \in Makes /\ w.name # NoValue /\ w.price # NoValue
    BY <1>7, <2>1, ValuesAssumption DEF Write, Duplicate, Makes
  <2> QED BY <2>2, <2>3, ConfirmSync
<1>8. ASSUME NEW c \in Codes, Delete(d, c) PROVE SyncInv'
  <2>1. PICK w \in Writes : w = Write("delete", c, NoValue, NoValue)
    BY WriteType DEF Ops
  <2>2. /\ outbox' = [outbox EXCEPT ![d] = Append(@, w)]
        /\ excused' = excused \cup Divided(d, w)
        /\ UNCHANGED <<docbox, storeVars, astray>>
    BY <1>8, <2>1 DEF Delete
  <2>3. w.code \in excused' /\ excused \subseteq excused'
    BY <2>1, <2>2 DEF Divided, Write
  <2>4. Grown(outbox, outbox', d, w) /\ Grown(docbox, docbox', d, w)
    BY <2>2 DEF Grown
  <2> QED BY <2>2, <2>3, <2>4, HalfSync
<1> QED BY <1>3, <1>4, <1>5, <1>6, <1>7, <1>8

\* At the start nothing is under way, and both databases hold the same.
LEMMA InitSync == Init => SyncInv
<1> SUFFICES ASSUME Init PROVE SyncInv
  OBVIOUS
<1>1. /\ \A d \in Devices : outbox[d] = <<>> /\ docbox[d] = <<>>
      /\ stored = docs
  BY DEF Init
<1>2. DocsTelling
  BY <1>1 DEF DocsTelling
<1>3. ASSUME NEW c \in Codes PROVE InSync(c)
  <2>1. Single(c) /\ Founded(c)
    BY <1>1 DEF Single, Founded, Busy
  <2>2. ASSUME NEW d \in Devices, NEW f \in {"name", "price"}
        PROVE  \E v : Meet(d, c, f, v)
    <3>1. Meet(d, c, f, stored[c][f])
      BY <1>1 DEF Meet, EndsWith
    <3> QED BY <3>1
  <2> QED BY <2>1, <2>2 DEF Agree, InSync
<1> QED BY <1>1, <1>2, <1>3 DEF SyncInv

\* Searching and choosing touch neither the databases nor the queues.
LEMMA SearchSync ==
  ASSUME SyncInv,
         UNCHANGED <<queueVars, storeVars, astray, excused>>
  PROVE  SyncInv'
<1>1. UNCHANGED <<outbox, docbox, stored, docs, astray, excused>>
  BY DEF queueVars, storeVars
<1>2. DocsTelling'
  BY <1>1 DEF SyncInv, DocsTelling
<1>3. ASSUME NEW c \in Codes, InSync(c) PROVE InSync(c)'
  <2>1. Single(c)' /\ Founded(c)'
    BY <1>1, <1>3 DEF InSync, Single, Founded, Busy
  <2>2. Agree(c)'
    BY <1>1, <1>3 DEF InSync, Agree, Alone, Busy, Meet
  <2> QED BY <2>1, <2>2 DEF InSync
<1> QED BY <1>1, <1>2, <1>3 DEF SyncInv

\* Every step keeps what the databases will hold equal, of every code that is
\* not excused.
LEMMA SyncStep == TypeOK /\ WholeInv /\ SyncInv /\ [Next]_vars => SyncInv'
<1> SUFFICES ASSUME TypeOK, WholeInv, SyncInv, [Next]_vars PROVE SyncInv'
  OBVIOUS
<1>1. CASE UNCHANGED vars
  BY <1>1, SearchSync DEF vars, historyVars
<1>2. CASE Next
  <2>1. PICK d \in Devices : User(d) \/ Network(d) \/ Failure(d)
    BY <1>2 DEF Next
  <2>2. CASE AnswerWrite(d)
    BY <2>2, AnswerSync
  <2>3. CASE ApplyDoc(d)
    BY <2>3, ApplySync
  <2>4. CASE Failure(d)
    BY <2>4, FailureSync
  <2>5. CASE \/ AnswerSearch(d)
             \/ AnswerBarcode(d)
             \/ ClearResults(d)
             \/ \E c \in Codes : Select(d, c)
             \/ Back(d)
             \/ \E s \in Codes : OpenForm(d, s) \/ DuplicateThrows(d, s)
             \/ \E n \in Names : NameDraft(d, n)
    <3>1. UNCHANGED <<queueVars, storeVars, astray, excused>>
      BY <2>5 DEF AnswerSearch, AnswerBarcode, ClearResults, Select, Back,
         OpenForm, DuplicateThrows, NameDraft, historyVars
    <3> QED BY <3>1, SearchSync
  <2>6. CASE \/ \E n \in Names : Rename(d, n)
             \/ \E p \in Prices : \/ AddProduct(d, p)
                                \/ Reprice(d, p)
                                \/ RepriceHalf(d, p)
                                \/ \E s \in Codes : Duplicate(d, p, s)
             \/ \E c \in Codes : Delete(d, c)
    BY <2>6, EditSync
  <2> QED BY <2>1, <2>2, <2>3, <2>4, <2>5, <2>6 DEF User, Network
<1> QED BY <1>1, <1>2

\* When the writes of a product have arrived, Firestore and the Realtime
\* Database hold the same of it, for any number of devices and whatever they
\* search and edit, unless the product is one of those excused.
THEOREM StoresMeet == Spec => []StoresAgree
<1>1. TypeOK /\ SyncInv => StoresAgree
  <2> SUFFICES ASSUME TypeOK, SyncInv, ~astray, NEW c \in Codes \ excused,
                      ~InFlight(c)
      PROVE  stored[c] = docs[c]
    BY DEF StoresAgree
  <2>1. CASE Devices = {}
    BY <2>1 DEF SyncInv
  <2>2. ASSUME NEW d \in Devices PROVE stored[c] = docs[c]
    <3>1. \A e \in Devices : ~Busy(e, c)
      <4>1. ASSUME NEW e \in Devices PROVE ~Busy(e, c)
        <5>1. Pending(outbox[e], c) = {} /\ Pending(docbox[e], c) = {}
          BY DEF InFlight
        <5> QED BY <5>1 DEF Pending, Busy
      <4> QED BY <4>1
    <3>2. ASSUME NEW f \in {"name", "price"} PROVE stored[c][f] = docs[c][f]
      <4>1. PICK v : Meet(d, c, f, v)
        BY <3>1 DEF SyncInv, InSync, Agree, Alone
      <4>2. /\ \A i \in DOMAIN outbox[d] : outbox[d][i] \notin DecideStored(c, f)
            /\ \A i \in DOMAIN docbox[d] : docbox[d][i] \notin DecideDoc(c, f)
        BY <3>1 DEF Busy, DecideStored, DecideDoc
      <4> QED BY <4>1, <4>2, IdleEnds DEF Meet
    <3>3. stored[c] \in Records /\ docs[c] \in Records
      BY DEF TypeOK, StoreTypes
    <3>4. stored[c].name = docs[c].name /\ stored[c].price = docs[c].price
      BY <3>2
    <3> QED BY <3>3, <3>4 DEF Records
  <2> QED BY <2>1, <2>2
<1> QED BY <1>1, InitSync, SyncStep, InitWhole, WholeStep, TypeCorrect, PTL
        DEF Spec

=============================================================================
