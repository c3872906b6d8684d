---------------------------- MODULE InwardLedger ----------------------------
(***************************************************************************)
(* What stockInwardTillDate promises, whoever writes it: every recorded    *)
(* inward adds its units to the figure of its product.  The promise is     *)
(* kept exactly while a product is not contended: the figures of contended *)
(* products may be anything once one of them is recorded, the others are   *)
(* still exact.  What contends a product is for the implementations to     *)
(* say: an overlap of two uploads, a credit that strayed.                  *)
(***************************************************************************)
EXTENDS Integers

CONSTANTS Products, MaxUnits

VARIABLES
    till,       \* the stored figure
    ledger,     \* the units recorded so far
    contended   \* products whose figure is no longer promised

vars == <<till, ledger, contended>>

Init ==
    /\ till = [p \in Products |-> 0]
    /\ ledger = [p \in Products |-> 0]
    /\ contended = {}

Record(p, units) ==
    /\ p \notin contended
    /\ till' = [till EXCEPT ![p] = @ + units]
    /\ ledger' = [ledger EXCEPT ![p] = @ + units]
    /\ UNCHANGED contended

RecordStale(p, units) ==
    /\ p \in contended
    /\ till' \in [Products -> Nat]
    /\ \A q \in Products \ contended : till'[q] = till[q]
    /\ ledger' = [ledger EXCEPT ![p] = @ + units]
    /\ UNCHANGED contended

Contend ==
    /\ contended \subseteq contended'
    /\ contended' \subseteq Products
    /\ UNCHANGED <<till, ledger>>

Next ==
    \/ \E p \in Products, units \in 1 .. MaxUnits :
            Record(p, units) \/ RecordStale(p, units)
    \/ Contend

Spec == Init /\ [][Next]_vars
=============================================================================
