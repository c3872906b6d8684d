------------------------------ MODULE Gathering ------------------------------
(***************************************************************************)
(* What a page promises that gathers the answers of several reads into     *)
(* figures it adds up: the figures are those of the answers to this        *)
(* gathering, each counted once, and they are shown when, and only when,   *)
(* every read has been answered.  The promise does not hold for a          *)
(* gathering that is spoiled: what spoils one, answers that an earlier     *)
(* gathering left under way, is for the implementations to say.            *)
(***************************************************************************)
EXTENDS Integers

CONSTANTS Reads, Keys

VARIABLES
    waiting,   \* reads of this gathering not yet answered
    total,     \* the figures the page adds up
    answered,  \* the sums of the answers to this gathering
    shown,     \* the page shows its figures
    spoiled    \* nothing is promised of this gathering

vars == <<waiting, total, answered, shown, spoiled>>

Zero == [k \in Keys |-> 0]
Sums == [Keys -> Nat]

Init ==
    /\ waiting = {}
    /\ total = Zero
    /\ answered = Zero
    /\ shown = FALSE
    /\ spoiled = FALSE

Start ==
    /\ waiting' \in SUBSET Reads
    /\ total' = Zero
    /\ answered' = Zero
    /\ shown' = FALSE
    /\ spoiled' \in BOOLEAN

\* One answer adds the same amounts to the figures and to the sums of the
\* answers; the last answer shows the figures.
Answer(r) ==
    /\ r \in waiting
    /\ ~spoiled
    /\ waiting' = waiting \ {r}
    /\ answered' \in Sums
    /\ \A k \in Keys : answered[k] <= answered'[k]
    /\ total' = [k \in Keys |-> total[k] + (answered'[k] - answered[k])]
    /\ shown' = (waiting' = {})
    /\ UNCHANGED spoiled

\* In a spoiled gathering the figures may be anything, shown at any time.
AnswerSpoiled ==
    /\ spoiled
    /\ waiting' \subseteq waiting
    /\ total' \in Sums
    /\ answered' \in Sums
    /\ shown' \in BOOLEAN
    /\ UNCHANGED spoiled

Next ==
    \/ Start
    \/ \E r \in Reads : Answer(r)
    \/ AnswerSpoiled

Spec == Init /\ [][Next]_vars
=============================================================================
