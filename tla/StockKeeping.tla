---------------------------- MODULE StockKeeping ----------------------------
(***************************************************************************)
(* A program that keeps stock through the domain's aggregates: it makes an *)
(* Inventory, increases and decreases it, creates and updates its row and  *)
(* finds it again, and stores and finds an Order.  Quantities are made by  *)
(* any of their public constructors, in any order of legal calls.          *)
(*                                                                         *)
(* `ledger`, `saved`, `asked` and `call` are history: the units that       *)
(* should be there by the calls that had an effect, as unbounded integers, *)
(* and the call that was made last.                                        *)
(***************************************************************************)
EXTENDS Quantities

CONSTANTS
  Amounts,         \* what InventoryQuantity::new is called with
  OverflowChecks,  \* a debug build panics on overflow, a release build wraps
  None             \* no value

ASSUME StockKeepingAssumption ==
  /\ Amounts \subseteq U32
  /\ OverflowChecks \in BOOLEAN
  /\ None \notin Int

VARIABLES
  held,    \* the quantity of the Inventory in hand
  row,     \* the quantity in the inventory table
  ledger,  \* history: the units held should stand for
  saved,   \* history: the units row should stand for
  asked,   \* history: the quantity the stored order was made with
  stored,  \* the quantity in the orders table
  call,    \* history: the last call, and what it was given
  answer   \* what it answered

inventory == <<held, row, ledger, saved>>
orders == <<asked, stored>>
vars == <<inventory, orders, call, answer>>

Operations ==
  {"none", "new", "decrease_stock", "increase_stock",
   "create", "update", "find", "create order", "find order"}

\* What is in hand or in a table has its type; a panic leaves nothing in hand.
TypeOK ==
  /\ held \in I32 \cup {None}
  /\ row \in I32 \cup {None}
  /\ ledger \in Int /\ saved \in Int
  /\ asked \in U32 \cup {None} /\ stored \in I32 \cup {None}
  /\ call \in [op : Operations, of : I32 \cup U32 \cup {None}]
  /\ answer \in {"none", "ok", "nothing", "err", "panic"}
  /\ answer = "panic" => held = None

Init ==
  /\ held = None /\ row = None /\ ledger = 0 /\ saved = 0
  /\ asked = None /\ stored = None
  /\ call = [op |-> "none", of |-> None] /\ answer = "none"

Calls(op, n) == call' = [op |-> op, of |-> n]

\* The call has no effect.
Only(how) == answer' = how /\ UNCHANGED <<inventory, orders>>

\* Mutant of Becomes: the quantity in hand survives the panic.
BecomesKept(result, units) ==
  /\ UNCHANGED <<row, saved, orders>>
  /\ IF result \in I32 \/ ~OverflowChecks
     THEN held' = Wrapped(result) /\ ledger' = units /\ answer' = "ok"
     ELSE answer' = "panic" /\ UNCHANGED <<held, ledger>>

\* The result of an addition or subtraction becomes the quantity in hand.
Becomes(result, units) ==
  /\ UNCHANGED <<row, saved, orders>>
  /\ IF result \in I32 \/ ~OverflowChecks
     THEN held' = Wrapped(result) /\ ledger' = units /\ answer' = "ok"
     ELSE held' = None /\ answer' = "panic" /\ UNCHANGED ledger
-----------------------------------------------------------------------------
NewInventory(q) ==
  /\ Calls("new", q)
  /\ IF InventoryRejects(q)
     THEN Only("err")
     ELSE held' = q /\ ledger' = q /\ answer' = "ok" /\ UNCHANGED <<row, saved, orders>>

\* InventoryQuantity::new, then decrease_stock.
DecreaseStock(u) ==
  /\ held # None
  /\ Calls("decrease_stock", u)
  /\ IF QuantityNewRejects(u) \/ DecreaseRejects(held, u)
     THEN Only("err")
     ELSE Becomes(Decreased(held, u), ledger - u)

IncreaseStock(n) ==
  /\ held # None
  /\ Calls("increase_stock", n)
  /\ IF IncreaseRejects(n) THEN Only("err") ELSE Becomes(Increased(held, n), ledger + n)

Stores == row' = held /\ saved' = ledger /\ answer' = "ok" /\ UNCHANGED <<held, ledger, orders>>

\* create of the inventory repository: a second row of the item violates the primary key.
CreateInventory ==
  /\ held # None
  /\ Calls("create", held)
  /\ IF row # None THEN Only("err") ELSE Stores

\* update of the inventory repository: where there is no row nothing is saved, and sqlx
\* answers Ok, SeaORM Err.
UpdateInventory ==
  /\ held # None
  /\ Calls("update", held)
  /\ IF row = None THEN Only("ok") \/ Only("err") ELSE Stores

\* find_by_item_id makes an Inventory of the row, which may refuse it.
FindInventory ==
  /\ Calls("find", None)
  /\ IF row = None \/ InventoryRejects(row)
     THEN Only(IF row = None THEN "nothing" ELSE "err")
     ELSE held' = row /\ ledger' = saved /\ answer' = "ok" /\ UNCHANGED <<row, saved, orders>>

\* OrderQuantity::new, then create of the order repository with a fresh id.
CreateOrder(u) ==
  /\ Calls("create order", u)
  /\ IF QuantityNewRejects(u)
     THEN Only("err")
     ELSE asked' = u /\ stored' = AsI32(u) /\ answer' = "ok" /\ UNCHANGED inventory

\* find_by_id makes an Order of the row with OrderQuantity::try_from.
FindOrder ==
  /\ stored # None
  /\ Calls("find order", None)
  /\ Only(IF OrderQuantityRejects(stored) THEN "err" ELSE "ok")

Next ==
  \/ \E q \in I32 : NewInventory(q) \/ IncreaseStock(q)
  \/ \E u \in Amounts : DecreaseStock(u)
  \/ \E u \in U32 : CreateOrder(u)
  \/ CreateInventory \/ UpdateInventory \/ FindInventory \/ FindOrder

Spec == Init /\ [][Next]_vars
-----------------------------------------------------------------------------
(***************************************************************************)
(* Properties.                                                             *)
(***************************************************************************)
\* After any history of calls an Inventory holds the units that were put into it and not
\* taken out, and never fewer than none: in hand, in the table and across both.
StockIsExact ==
  /\ held # None => held = ledger /\ held >= 0
  /\ row # None => row = saved /\ row >= 0

\* Of all the quantities OrderQuantity::new accepts, find_by_id finds the orders of up to
\* i32::MAX again and those only: the others are stored and then refused for ever.  An order
\* that is found has the quantity it was made with, though it was stored as an i32.
OrderReadsBack ==
  [][call'.op = "find order" =>
       /\ answer' = "ok" <=> asked < Half
       /\ answer' = "ok" => AsU32(stored) = asked]_vars

\* decrease_stock refuses to take more than there is.
RefusesToOverdraw ==
  [][call'.op = "decrease_stock" /\ call'.of > held => answer' = "err"]_vars
=============================================================================
