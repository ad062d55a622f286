---------------------------- MODULE AtomicOrders ----------------------------
(***************************************************************************)
(* What create_order promises: an order is placed in one step, which takes *)
(* its quantity out of the item's stock, or it is not placed at all; the   *)
(* answer a caller gets tells which.                                       *)
(***************************************************************************)
EXTENDS Integers

CONSTANTS Call, Item, Quantity, NoRow, NoOrder,
          MayBeLate  \* may an order whose caller was told Err be placed?

VARIABLES
  ask,     \* the order each call asks for
  stock,   \* the stock of each item
  placed,  \* the calls whose order is placed
  answer   \* what each caller was told

vars == <<ask, stock, placed, answer>>

Order == [item : Item, quantity : Quantity]

TypeOK ==
  /\ ask \in [Call -> Order \cup {NoOrder}]
  /\ stock \in [Item -> Quantity \cup {NoRow}]
  /\ placed \subseteq Call
  /\ answer \in [Call -> {"none", "ok", "err"}]

Init ==
  /\ stock \in [Item -> Quantity \cup {NoRow}]
  /\ ask = [t \in Call |-> NoOrder]
  /\ placed = {}
  /\ answer = [t \in Call |-> "none"]

Accept(t) ==
  /\ ask[t] = NoOrder
  /\ answer[t] = "none"
  /\ \E order \in Order : order.quantity > 0 /\ ask' = [ask EXCEPT ![t] = order]
  /\ UNCHANGED <<stock, placed, answer>>

\* All or nothing, from stock that suffices, and once.
Place(t) ==
  /\ ask[t] # NoOrder
  /\ t \notin placed
  /\ answer[t] = "none" \/ (MayBeLate /\ answer[t] = "err")
  /\ stock[ask[t].item] # NoRow
  /\ stock[ask[t].item] >= ask[t].quantity
  /\ stock' = [stock EXCEPT ![ask[t].item] = @ - ask[t].quantity]
  /\ placed' = placed \cup {t}
  /\ UNCHANGED <<ask, answer>>

AnswerOk(t) ==
  /\ t \in placed
  /\ answer[t] = "none"
  /\ answer' = [answer EXCEPT ![t] = "ok"]
  /\ UNCHANGED <<ask, stock, placed>>

AnswerErr(t) ==
  /\ t \notin placed \/ MayBeLate
  /\ answer[t] = "none"
  /\ answer' = [answer EXCEPT ![t] = "err"]
  /\ UNCHANGED <<ask, stock, placed>>

Next == \E t \in Call : Accept(t) \/ Place(t) \/ AnswerOk(t) \/ AnswerErr(t)

Spec == Init /\ [][Next]_vars
=============================================================================
