-------------------------- MODULE MCProductManager --------------------------
(* Symmetry for TLC, and where its search ends: the properties promise     *)
(* nothing after an answer that went astray.                               *)
EXTENDS ProductManager, TLC

Symmetry == Permutations(Devices) \cup Permutations(Prices)

NotAstray == ~astray

\* With the edits used up, what a device shows matters for answers to come only.
Awaits(d) == edits < MaxEdits \/ outbox[d] # <<>>

\* And no state matters when no write is under way either: the properties speak
\* of nothing that would change.
NotOver == \E d \in Devices : Awaits(d) \/ docbox[d] # <<>>

StepMatters ==
    \/ \A d \in Devices : Awaits(d)
    \/ UNCHANGED deviceVars

\* Bound: once the edits are used up no form is opened or filled in and no code
\* drawn, which could only set answers astray, or right again.
FormsForEdits ==
    \/ edits < MaxEdits
    \/ UNCHANGED <<nextCode, draft>>
    \/ failures' # failures
=============================================================================
