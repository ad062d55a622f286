-------------------------- MODULE MCOrderManagement -------------------------
(***************************************************************************)
(* Instances of OrderManagement for TLC.                                   *)
(***************************************************************************)
EXTENDS OrderManagement, TLC

Rows == Item \cup Call
Values == [item : Item, quantity : I32]

\* Rows the inventory table may hold: none, one another program made negative (the
\* schema has no CHECK), and stock for some of the orders.
SomeStock == {NoRow, -1, 2}
EnoughStock == {NoRow, 3}

\* Callers are interchangeable (for the runs that check no liveness).
Symmetry == Permutations(Call)
=============================================================================
