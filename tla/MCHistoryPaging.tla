--------------------------- MODULE MCHistoryPaging -----------------------------
(* Model checking of HistoryPaging. *)
EXTENDS HistoryPaging
===============================================================================
