------------------------ MODULE MCRequestStockInward ------------------------
EXTENDS RequestStockInward

\* No product is chosen before the first tap.
MCNoProduct == "none"

\* Bound: midnight or a refusal, not both.  No step a device owes anybody takes
\* the instance across it.
OneDisturbance == now + refusals <= 1
=============================================================================
