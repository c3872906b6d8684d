--------------------------- MODULE MCStockInward ---------------------------
EXTENDS StockInward

\* Two products of different prices, so that a total of money cannot pass for
\* a count of units.
MCPrice == [p \in Products |-> IF p = CHOOSE q \in Products : TRUE THEN 1 ELSE 2]
=============================================================================
