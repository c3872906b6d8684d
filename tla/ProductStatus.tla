----------------------------- MODULE ProductStatus -----------------------------
(***************************************************************************)
(* The status of a product.  Products of one barcode are duplicates of     *)
(* each other, of which one is to be sold: the page CHANGE PRODUCT STATUS  *)
(* activates one of them and, when that write is answered, deactivates the *)
(* others it knew of when it was confirmed, by writes nothing waits for.   *)
(* A change of price writes the whole record, and with it ACTIVE.          *)
(*                                                                         *)
(* The products of this module are those of one barcode; one a device does *)
(* not know stands for a product of another too.  Which of them a device   *)
(* knows is what it read when the page of stock inward was last opened     *)
(* (`full').  The answer of the write takes the product and the status     *)
(* from globals, which another choice may have changed.  The builds are    *)
(* release builds, in which a late search still replaces the results.      *)
(* The sheet of a product in the list of a category has the same two       *)
(* changes in dialogs.  Deletion of a product is left out.                 *)
(***************************************************************************)
EXTENDS Integers, Sequences, FiniteSets

CONSTANTS
    Devices,      \* processes of the app, each with its own globals
    Products,     \* product codes with one barcode
    NoProduct,    \* no product
    MaxConfirms,  \* bound: changes of status or price confirmed
    MaxReads,     \* bound: readings of products and searches answered
    MaxFailures   \* bound: writes refused, and restarts of the app

ASSUME ProductsAssumption == IsFiniteSet(Products) /\ NoProduct \notin Products
ASSUME BoundsAssumption == /\ MaxConfirms \in Nat
                           /\ MaxReads \in Nat
                           /\ MaxFailures \in Nat

VARIABLES
    page,      \* the page on top: that of the status, or another
    full,      \* the codes in fullProductBasicDetailsMap
    results,   \* the codes in barCodeSearchResultsMap
    sku,       \* skuToUpdate
    selected,  \* selectedStatus
    opened,    \* the value of confirms when the page of the status opened,
               \* 0 while it is not open
    outbox,    \* writes the Realtime Database has not answered yet
    answers,   \* answered changes whose handler has not run
    stored,    \* stores/<store>/products/<product>/productStatus
    confirms,  \* changes confirmed so far
    reads,     \* products read and searches answered so far
    failures,  \* refusals and restarts so far
    wanted,    \* history: the product activated last, until its deactivation
               \* is confirmed and stored
    covers,    \* history: the duplicates that activation is to deactivate,
               \* but those a new price has put on sale again since
    crossed,   \* history: something else under way may deactivate `wanted'
    astray,    \* history: an answer met other globals than its change was
               \* confirmed with, since `wanted' was activated
    failed     \* history: a write or a handler of a change came to nothing

deviceVars == <<page, full, results, sku, selected, opened>>
queueVars == <<outbox, answers>>
boundVars == <<confirms, reads, failures>>
historyVars == <<wanted, covers, crossed, astray, failed>>
vars == <<deviceVars, queueVars, stored, boundVars, historyVars>>

Statuses == {"ACTIVE", "INACTIVE"}

Write(op, id, p, to, others) ==
    [op |-> op, id |-> id, for |-> p, to |-> to, others |-> others]

Change(id, p, to, others) == Write("status", id, p, to, others)

\* The write that deactivates a duplicate: nothing waits for its answer.
FollowUp(p) == Write("duplicate", 0, p, "INACTIVE", {})

\* A new price, with the rest of the record: the product is ACTIVE.
NewPrice(p) == Write("price", 0, p, "ACTIVE", {})

IsFollowUp(w) == w.op = "duplicate"
IsPrice(w) == w.op = "price"

Existing == {p \in Products : stored[p] # "absent"}

\* Nothing is under way.  A device has just been started, or has read the
\* products.
Init ==
    /\ stored \in [Products -> Statuses \cup {"absent"}]
    /\ page = [d \in Devices |-> "others"]
    /\ full \in [Devices -> {{}, Existing}]
    /\ results = full
    /\ sku = [d \in Devices |-> NoProduct]
    /\ selected = [d \in Devices |-> "ACTIVE"]
    /\ opened = [d \in Devices |-> 0]
    /\ outbox = [d \in Devices |-> <<>>]
    /\ answers = [d \in Devices |-> <<>>]
    /\ confirms = 0
    /\ reads = 0
    /\ failures = 0
    /\ wanted = NoProduct
    /\ covers = {}
    /\ crossed = FALSE
    /\ astray = FALSE
    /\ failed = FALSE

\* The results have the product the globals name.
Listed(d) == sku[d] \in results[d]

-----------------------------------------------------------------------------
(* Reading products.                                                       *)

\* The page of stock inward reads all products, which become the results as well,
\* whatever page is open when the answer comes.
Load(d) ==
    /\ reads < MaxReads
    /\ reads' = reads + 1
    /\ full' = [full EXCEPT ![d] = @ \cup Existing]
    /\ results' = [results EXCEPT ![d] = full'[d]]
    /\ UNCHANGED <<page, sku, selected, opened, queueVars, stored, confirms,
                   failures, historyVars>>

\* A query by name or by barcode is answered, late perhaps: what it found
\* replaces the results.
AnswerSearch(d) ==
    /\ reads < MaxReads
    /\ reads' = reads + 1
    /\ \E found \in SUBSET Existing :
          results' = [results EXCEPT ![d] = found]
    /\ UNCHANGED <<page, full, sku, selected, opened, queueVars, stored,
                   confirms, failures, historyVars>>

-----------------------------------------------------------------------------
(* The user.                                                               *)

\* A product of the results is chosen.
Choose(d, p) ==
    /\ page[d] = "others"
    /\ p \in results[d]
    /\ sku' = [sku EXCEPT ![d] = p]
    /\ UNCHANGED <<page, full, results, selected, opened, queueVars, stored,
                   boundVars, historyVars>>

\* The page of the status, which cannot be built for a product the results
\* have lost.  It proposes the opposite of the status the results have, which
\* is the stored one only by chance: a search has none and stock inward has
\* ACTIVE for all.
OpenStatus(d) ==
    /\ page[d] = "others"
    /\ Listed(d)
    /\ page' = [page EXCEPT ![d] = "status"]
    /\ opened' = [opened EXCEPT ![d] = confirms]
    /\ \E status \in Statuses : selected' = [selected EXCEPT ![d] = status]
    /\ UNCHANGED <<full, results, sku, queueVars, stored, boundVars,
                   historyVars>>

\* The button that shows the status to be set.
Toggle(d) ==
    /\ page[d] = "status"
    /\ selected' = [selected EXCEPT ![d] =
          IF @ = "ACTIVE" THEN "INACTIVE" ELSE "ACTIVE"]
    /\ UNCHANGED <<page, full, results, sku, opened, queueVars, stored,
                   boundVars, historyVars>>

Back(d) ==
    /\ page[d] = "status"
    /\ page' = [page EXCEPT ![d] = "others"]
    /\ opened' = [opened EXCEPT ![d] = 0]
    /\ UNCHANGED <<full, results, sku, selected, queueVars, stored, boundVars,
                   historyVars>>

\* CONFIRM: the duplicates are those known now.  Nothing keeps the user from
\* confirming again, or from leaving.
Confirm(d) ==
    /\ page[d] = "status"
    /\ Listed(d)
    /\ confirms < MaxConfirms
    /\ confirms' = confirms + 1
    /\ outbox' = [outbox EXCEPT ![d] =
          Append(@, Change(confirms', sku[d], selected[d], full[d]))]
    /\ UNCHANGED <<deviceVars, answers, stored, reads, failures, historyVars>>

\* CONFIRM of CHANGE PRODUCT PRICE, which throws if the results have lost the
\* product.
Reprice(d) ==
    /\ page[d] = "others"
    /\ Listed(d)
    /\ confirms < MaxConfirms
    /\ confirms' = confirms + 1
    /\ outbox' = [outbox EXCEPT ![d] = Append(@, NewPrice(sku[d]))]
    /\ UNCHANGED <<deviceVars, answers, stored, reads, failures, historyVars>>

-----------------------------------------------------------------------------
(* The Realtime Database.                                                  *)

\* An answer to come, or a write, that may still deactivate p.
Threat(w, p) ==
    IF IsFollowUp(w) THEN w.for = p
    ELSE w.to = "ACTIVE" /\ w.for # p /\ p \in w.others

Threatened(p) == \E e \in Devices :
    \/ \E i \in DOMAIN answers[e] : Threat(answers[e][i], p)
    \/ \E i \in DOMAIN outbox[e] :
          IsFollowUp(outbox[e][i]) /\ outbox[e][i].for = p

\* A write is stored: what it means for the product that was activated last.
\* A new price activates nothing, but its product is on sale afterwards.
Activated(w) ==
    /\ wanted' = w.for
    /\ covers' = w.others \ {w.for}
    /\ crossed' = Threatened(w.for)
    /\ astray' = FALSE

Repriced(w) ==
    /\ covers' = covers \ {w.for}
    /\ UNCHANGED <<wanted, crossed, astray>>

TakenOff(w) ==
    /\ wanted' = IF w.for = wanted /\ ~IsFollowUp(w) THEN NoProduct ELSE wanted
    /\ UNCHANGED <<covers, crossed, astray>>

Remember(w) ==
    IF IsPrice(w) THEN Repriced(w)
    ELSE IF w.to = "ACTIVE" THEN Activated(w) ELSE TakenOff(w)

\* update of a record, and set of its status, store the status.
TakeWrite(d) ==
    /\ outbox[d] # <<>>
    /\ LET w == Head(outbox[d]) IN
          /\ stored' = [stored EXCEPT ![w.for] = w.to]
          /\ answers' = IF IsFollowUp(w) THEN answers
                        ELSE [answers EXCEPT ![d] = Append(@, w)]
          /\ Remember(w)
    /\ outbox' = [outbox EXCEPT ![d] = Tail(@)]
    /\ UNCHANGED <<deviceVars, boundVars, failed>>

\* A refusal is caught and changes nothing.
RefuseWrite(d) ==
    /\ outbox[d] # <<>>
    /\ failures < MaxFailures
    /\ failures' = failures + 1
    /\ outbox' = [outbox EXCEPT ![d] = Tail(@)]
    /\ failed' = TRUE
    /\ UNCHANGED <<deviceVars, answers, stored, confirms, reads, wanted, covers,
                   crossed, astray>>

\* A duplicate is added, by any device; it is added as ACTIVE.
NewDuplicate(p) ==
    /\ stored[p] = "absent"
    /\ stored' = [stored EXCEPT ![p] = "ACTIVE"]
    /\ UNCHANGED <<deviceVars, queueVars, boundVars, historyVars>>

-----------------------------------------------------------------------------
(* The answer to a change.                                                 *)

\* What is deactivated when a change of the products `others' is answered on a
\* device whose globals name p and the status `to'.
DeactivatedOnRemoval(p, to, others) ==
    IF to = "ACTIVE" THEN {} ELSE others \ {p}

DeactivatedAll(p, to, others) == IF to = "ACTIVE" THEN others ELSE {}

Deactivated(p, to, others) == IF to = "ACTIVE" THEN others \ {p} ELSE {}

\* The orders in which a map may be walked.
Walks(S) == {s \in [1 .. Cardinality(S) -> S] : \A p \in S :
                \E i \in DOMAIN s : s[i] = p}

\* The first line of the handler fails if the results have lost the product.
AnswerThrows(d) ==
    /\ answers[d] # <<>>
    /\ ~IsPrice(Head(answers[d]))
    /\ ~Listed(d)
    /\ answers' = [answers EXCEPT ![d] = Tail(@)]
    /\ failed' = TRUE
    /\ UNCHANGED <<deviceVars, outbox, stored, boundVars, wanted, covers,
                   crossed, astray>>

\* Otherwise it takes product and status from the globals, and returns to the
\* results if the page it was confirmed on is still open.
Answer(d) ==
    /\ answers[d] # <<>>
    /\ ~IsPrice(Head(answers[d]))
    /\ Listed(d)
    /\ LET w == Head(answers[d])
           gone == Deactivated(sku[d], selected[d], w.others) IN
          /\ \E walk \in Walks(gone) :
                outbox' = [outbox EXCEPT ![d] =
                   @ \o [i \in DOMAIN walk |-> FollowUp(walk[i])]]
          /\ IF page[d] = "status" /\ opened[d] < w.id
             THEN /\ page' = [page EXCEPT ![d] = "others"]
                  /\ opened' = [opened EXCEPT ![d] = 0]
             ELSE UNCHANGED <<page, opened>>
          /\ astray' = (astray \/ sku[d] # w.for \/ selected[d] # w.to)
    /\ answers' = [answers EXCEPT ![d] = Tail(@)]
    /\ UNCHANGED <<full, results, sku, selected, stored, boundVars, wanted,
                   covers, crossed, failed>>

\* The answer to a new price, if the results have the product the globals name
\* by then, leaves that product in them alone.  The sheet's leaves nothing: it
\* reads the results it has just emptied, and throws.
AnswerPrice(d) ==
    /\ answers[d] # <<>>
    /\ IsPrice(Head(answers[d]))
    /\ \E left \in {IF Listed(d) THEN {sku[d]} ELSE results[d], {}} :
          results' = [results EXCEPT ![d] = left]
    /\ answers' = [answers EXCEPT ![d] = Tail(@)]
    /\ UNCHANGED <<page, full, sku, selected, opened, outbox, stored, boundVars,
                   historyVars>>

\* The app is ended, with its globals and the queue of its writes, and starts
\* again.
Restart(d) ==
    /\ failures < MaxFailures
    /\ failures' = failures + 1
    /\ page' = [page EXCEPT ![d] = "others"]
    /\ full' = [full EXCEPT ![d] = {}]
    /\ results' = [results EXCEPT ![d] = {}]
    /\ sku' = [sku EXCEPT ![d] = NoProduct]
    /\ selected' = [selected EXCEPT ![d] = "ACTIVE"]
    /\ opened' = [opened EXCEPT ![d] = 0]
    /\ outbox' = [outbox EXCEPT ![d] = <<>>]
    /\ answers' = [answers EXCEPT ![d] = <<>>]
    /\ failed' = (failed \/ outbox[d] # <<>> \/ answers[d] # <<>>)
    /\ UNCHANGED <<stored, confirms, reads, wanted, covers, crossed, astray>>

-----------------------------------------------------------------------------
User(d) ==
    \/ \E p \in Products : Choose(d, p)
    \/ OpenStatus(d)
    \/ Toggle(d)
    \/ Back(d)
    \/ Confirm(d)
    \/ Reprice(d)

Handled(d) == TakeWrite(d) \/ AnswerThrows(d) \/ Answer(d) \/ AnswerPrice(d)

Next ==
    \/ \E d \in Devices :
          \/ User(d)
          \/ Load(d)
          \/ AnswerSearch(d)
          \/ Handled(d)
          \/ RefuseWrite(d)
          \/ Restart(d)
    \/ \E p \in Products : NewDuplicate(p)

Spec == Init /\ [][Next]_vars

-----------------------------------------------------------------------------
(* Properties.                                                             *)

Writes ==
    [op : {"status"}, id : 0 .. MaxConfirms, for : Products, to : Statuses,
     others : SUBSET Products]
       \cup {FollowUp(p) : p \in Products} \cup {NewPrice(p) : p \in Products}

\* Every variable has its type, and the page of the status has a product.
TypeOK ==
    /\ page \in [Devices -> {"others", "status"}]
    /\ full \in [Devices -> SUBSET Products]
    /\ results \in [Devices -> SUBSET Products]
    /\ sku \in [Devices -> Products \cup {NoProduct}]
    /\ \A d \in Devices : page[d] = "status" => sku[d] \in Products
    /\ selected \in [Devices -> Statuses]
    /\ opened \in [Devices -> 0 .. MaxConfirms]
    /\ outbox \in [Devices -> Seq(Writes)]
    /\ answers \in [Devices -> Seq(Writes)]
    /\ stored \in [Products -> Statuses \cup {"absent"}]
    /\ confirms \in 0 .. MaxConfirms
    /\ reads \in 0 .. MaxReads
    /\ failures \in 0 .. MaxFailures
    /\ wanted \in Products \cup {NoProduct}
    /\ covers \in SUBSET Products
    /\ crossed \in BOOLEAN /\ astray \in BOOLEAN /\ failed \in BOOLEAN

\* The product activated last is on sale until its deactivation is confirmed:
\* no deactivation of duplicates reaches it, unless one was under way when it
\* was activated, or an answer met other globals than its change.
LastActivatedIsActive ==
    wanted # NoProduct /\ ~crossed /\ ~astray => stored[wanted] = "ACTIVE"

\* The activation of p that q has to give way to is stored, and its answer or
\* what follows from it is still to come.
GivingWay(q) == \E d \in Devices :
    \/ \E i \in DOMAIN answers[d] :
          /\ answers[d][i].to = "ACTIVE"
          /\ answers[d][i].for = wanted
          /\ q \in answers[d][i].others
    \/ \E i \in DOMAIN outbox[d] :
          IsFollowUp(outbox[d][i]) /\ outbox[d][i].for = q

\* A duplicate an activation was confirmed to replace is no longer on sale, or
\* its deactivation is still to come: it is forgotten only by a refusal, an
\* ended app, or a handler that fails or meets other globals, and it is on sale
\* again only by a new price stored since.
DuplicatesGiveWay ==
    wanted # NoProduct /\ ~astray /\ ~failed =>
       \A q \in covers : stored[q] # "ACTIVE" \/ GivingWay(q)

=============================================================================
