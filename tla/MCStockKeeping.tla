--------------------------- MODULE MCStockKeeping ---------------------------
(***************************************************************************)
(* Instances of StockKeeping for TLC.                                      *)
(***************************************************************************)
EXTENDS StockKeeping

\* What an i32 can hold, and every u32.
SmallAmounts == 0 .. Half - 1
AllAmounts == U32
=============================================================================
