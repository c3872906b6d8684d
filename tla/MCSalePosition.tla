--------------------------- MODULE MCSalePosition ---------------------------
(* Dates and the value of an unset map entry, for TLC.                      *)
EXTENDS SalePosition

MCNone == "none"
=============================================================================
