------------------------ MODULE MCTransactionManager ------------------------
(***************************************************************************)
(* Instances of TransactionManager for TLC.                                *)
(***************************************************************************)
EXTENDS TransactionManager, TLC

\* Calls are interchangeable, and so are helpers and rows (runs that check no liveness).
Symmetry == Permutations(Call) \cup Permutations(Helper) \cup Permutations(Row)
=============================================================================
