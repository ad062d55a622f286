----------------------------- MODULE MCAdapters -----------------------------
(***************************************************************************)
(* Instances of Adapters for TLC.                                          *)
(***************************************************************************)
EXTENDS Adapters

Rows == Adapter \X Key

\* A quantity no constructor accepts, one only an inventory may have, and one for both.
Quantities3 == {-1, 0, 1}
=============================================================================
