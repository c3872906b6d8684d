--------------------------- MODULE MCProductStatus ---------------------------
EXTENDS ProductStatus, TLC

\* Devices and duplicates are told apart by nothing but their names.
Symmetry == Permutations(Devices) \cup Permutations(Products)

\* With the changes used up, what a device knows and shows matters only for the
\* answers to its changes of status.
Awaits(d) ==
    \/ confirms < MaxConfirms
    \/ \E i \in DOMAIN outbox[d] : outbox[d][i].op = "status"
    \/ \E i \in DOMAIN answers[d] : answers[d][i].op = "status"

StepMatters == \A d \in Devices :
    \/ Awaits(d)
    \/ <<outbox[d], answers[d]>>' # <<outbox[d], answers[d]>>
    \/ UNCHANGED <<page[d], full[d], results[d], sku[d], selected[d],
                   opened[d]>>

\* And no state matters when nothing is under way: what the properties speak of
\* changes no more, for a product that is added is not one to be replaced.
NotOver == \E d \in Devices :
    Awaits(d) \/ outbox[d] # <<>> \/ answers[d] # <<>>
=============================================================================
