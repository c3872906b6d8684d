-------------------------- MODULE MCCategoryStock --------------------------
(* The name of the inward reads, for TLC.                                  *)
EXTENDS CategoryStock

MCInwards == "inwards"
=============================================================================
