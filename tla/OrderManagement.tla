--------------------------- MODULE OrderManagement --------------------------
(***************************************************************************)
(* OrderManagementUseCase::create_order, run by concurrent callers over    *)
(* the transaction manager and the repositories.  A call of create_order   *)
(* is named like the call of transaction() it makes; the order's row has   *)
(* the call as its key (its uuid is fresh).                                *)
(***************************************************************************)
EXTENDS TransactionManager, Quantities, FiniteSetsExt

CONSTANTS
  Item,
  Requests,  \* the quantities callers ask for
  Stocked,   \* what the rows of the inventory table may hold before the first call
  NoOrder    \* the call has no order to place

Order == [item : Item, quantity : U32]

\* The rows of both tables: inventory (item_id, quantity) by item, orders (id, item_id,
\* quantity) by the call that creates them.  create_order starts no helper tasks.
ASSUME OrderManagementAssumption ==
  /\ Requests \subseteq I32
  /\ Stocked \subseteq I32 \cup {NoRow}
  /\ Item \cap Call = {}
  /\ Row = Item \cup Call
  /\ Value = [item : Item, quantity : I32]
  /\ Helper = {}
  /\ NoRow \notin I32
  /\ NoOrder \notin Order

VARIABLES
  step,   \* where each closure is
  order,  \* the order create_order is to place
  stock   \* what the closure's inventory holds after decrease_stock

localVars == <<step, order, stock>>
orderVars == <<vars, localVars>>

\* Every variable has its type, and a call has an order once it has passed try_from.
OrderTypeOK ==
  /\ TypeOK
  /\ step \in [Call -> {"new", "rejected", "find", "update", "insert", "done", "fail"}]
  /\ order \in [Call -> Order \cup {NoOrder}]
  /\ stock \in [Call -> I32]
  /\ \A t \in Call : order[t] = NoOrder <=> step[t] \in {"new", "rejected"}

InitialRows ==
  { [r \in Row |-> IF r \in Item /\ s[r] # NoRow THEN [item |-> r, quantity |-> s[r]] ELSE NoRow]
    : s \in [Item -> Stocked] }

OrderInit ==
  /\ db \in InitialRows
  /\ Init
  /\ step = [t \in Call |-> "new"]
  /\ order = [t \in Call |-> NoOrder]
  /\ stock = [t \in Call |-> 0]

Step(t, s) == step' = [step EXCEPT ![t] = s]
-----------------------------------------------------------------------------
\* Mutant of RejectOrder: the transaction begins without an order to place.
RejectOrderLate(t, q) ==
  /\ step[t] = "new"
  /\ OrderQuantityRejects(q)
  /\ Transaction(t)
  /\ Step(t, "find")
  /\ UNCHANGED <<order, stock>>

\* A quantity that is no OrderQuantity is refused before any transaction begins.
RejectOrder(t, q) ==
  /\ step[t] = "new"
  /\ OrderQuantityRejects(q)
  /\ Step(t, "rejected")
  /\ UNCHANGED <<vars, order, stock>>

CreateOrder(t, i, q) ==
  /\ step[t] = "new"
  /\ ~OrderQuantityRejects(q)
  /\ Transaction(t)
  /\ Step(t, "find")
  /\ order' = [order EXCEPT ![t] = [item |-> i, quantity |-> AsU32(q)]]
  /\ UNCHANGED stock

LockForStatement(t) ==
  /\ step[t] \in {"find", "update", "insert"}
  /\ LockContext(t, "closure")
  /\ UNCHANGED localVars

\* The inventory is missing, no Inventory, or too small for the order.
CannotServe(row, requested) ==
  \/ row = NoRow
  \/ InventoryRejects(row.quantity)
  \/ InventoryQuantityRejects(requested)
  \/ DecreaseRejects(row.quantity, AsU32(requested))

\* Mutant of FindInventory: find_by_item_id, without FOR UPDATE.
FindInventoryUnlocked(t) ==
  LET row == Visible(t, order[t].item)
      requested == AsI32(order[t].quantity)
  IN  /\ step[t] = "find"
      /\ Find(t, "closure")
      /\ IF CannotServe(row, requested)
         THEN Step(t, "fail") /\ UNCHANGED stock
         ELSE /\ Step(t, "update")
              /\ stock' = [stock EXCEPT ![t] = Decreased(row.quantity, AsU32(requested))]
      /\ UNCHANGED order

\* Mutant of FindInventory: the order is inserted before the inventory is looked at.
FindInventoryLast(t) ==
  LET row == Visible(t, order[t].item)
      requested == AsI32(order[t].quantity)
  IN  /\ step[t] = "find"
      /\ \/ /\ Create(t, "closure", t, [item |-> order[t].item, quantity |-> requested])
            /\ UNCHANGED <<step, stock>>
         \/ /\ ws[t][t] # Unwritten
            /\ FindForUpdate(t, "closure", order[t].item)
            /\ Step(t, IF CannotServe(row, requested) THEN "fail" ELSE "update")
            /\ UNCHANGED stock
      /\ UNCHANGED order

\* find_by_item_id_for_update, then decrease_stock on the copy it returns.
FindInventory(t) ==
  LET row == Visible(t, order[t].item)
      requested == AsI32(order[t].quantity)
  IN  /\ step[t] = "find"
      /\ FindForUpdate(t, "closure", order[t].item)
      /\ IF CannotServe(row, requested)
         THEN Step(t, "fail") /\ UNCHANGED stock
         ELSE /\ Step(t, "update")
              /\ stock' = [stock EXCEPT ![t] = Decreased(row.quantity, AsU32(requested))]
      /\ UNCHANGED order

\* Writes the copy back; how many rows that has changed is not looked at.
UpdateInventory(t) ==
  /\ step[t] = "update"
  /\ Update(t, "closure", order[t].item, [item |-> order[t].item, quantity |-> stock[t]])
  /\ Step(t, "insert")
  /\ UNCHANGED <<order, stock>>

\* Mutant of InsertOrder: the INSERT runs on the pool, outside the transaction.
InsertOrderOnPool(t) ==
  /\ step[t] = "insert"
  /\ Answer(t, "closure")
  /\ db' = [db EXCEPT ![t] = [item |-> order[t].item, quantity |-> AsI32(order[t].quantity)]]
  /\ Step(t, "done")
  /\ UNCHANGED <<txn, ws, lock, erred, order, stock>>

InsertOrder(t) ==
  /\ step[t] = "insert"
  /\ Create(t, "closure", t, [item |-> order[t].item, quantity |-> AsI32(order[t].quantity)])
  /\ Step(t, "done")
  /\ UNCHANGED <<order, stock>>

\* Mutant of StatementFails: the closure goes on as if the statement had succeeded.
StatementFailsIgnored(t) ==
  /\ StatementErr(t, "closure")
  /\ Step(t, "done")
  /\ UNCHANGED <<order, stock>>

\* Every `?` of the closure leaves it with the error.
StatementFails(t) ==
  /\ StatementErr(t, "closure")
  /\ Step(t, "fail")
  /\ UNCHANGED <<order, stock>>

OrderReturns(t) ==
  /\ \/ step[t] = "done" /\ ClosureReturns(t, "ok")
     \/ step[t] = "fail" /\ ClosureReturns(t, "err")
  /\ UNCHANGED localVars

\* What happens around the closure.
Manager(t) ==
  /\ \/ Begin(t) \/ BeginErr(t) \/ TryUnwrap(t)
     \/ CommitApplied(t) \/ CommitOk(t) \/ CommitErr(t) \/ Rollback(t)
     \/ Cancel(t) \/ RollbackDropped(t) \/ ConnectionLost(t) \/ SessionEnds(t)
  /\ UNCHANGED localVars

OrderNext ==
  \E t \in Call :
    \/ \E q \in Requests : RejectOrder(t, q)
    \/ \E i \in Item, q \in Requests : CreateOrder(t, i, q)
    \/ LockForStatement(t) \/ FindInventory(t) \/ UpdateInventory(t) \/ InsertOrder(t)
    \/ StatementFails(t) \/ OrderReturns(t) \/ Manager(t)

\* The next step of the call's own task, or the server's answer it waits for.
Proceed(t) ==
  \/ LockForStatement(t) \/ FindInventory(t) \/ UpdateInventory(t) \/ InsertOrder(t)
  \/ txn[t] \in Broken /\ StatementFails(t)
  \/ OrderReturns(t)
  \/ (Begin(t) \/ EndCall(t)) /\ UNCHANGED localVars

CleanUpOrder(t) == CleanUp(t) /\ UNCHANGED localVars

OrderFairness ==
  \A t \in Call : WF_orderVars(Proceed(t)) /\ WF_orderVars(CleanUpOrder(t))

OrderSafety == OrderInit /\ [][OrderNext]_orderVars

OrderSpec == OrderSafety /\ OrderFairness
-----------------------------------------------------------------------------
(***************************************************************************)
(* Properties.                                                             *)
(***************************************************************************)
Stock(i) == IF db[i] = NoRow THEN 0 ELSE db[i].quantity

Ordered(i) == LET orders == {t \in Call : db[t] # NoRow /\ db[t].item = i}
              IN  MapThenSumSet(LAMBDA t : db[t].quantity, orders)

\* The copy a closure is about to write back is the committed stock less its order, and
\* stays so: between its SELECT and its UPDATE nobody else changes the row.
FreshStock ==
  \A t \in Call : step[t] = "update" /\ txn[t] = "open" =>
    LET i == order[t].item
    IN  lock[i] = t /\ db[i] # NoRow /\ stock[t] = db[i].quantity - order[t].quantity

\* What is in stock and what has been ordered of an item never change but against each
\* other: no update is lost, and no order is stored without its stock or twice.
StockConserved == [][\A i \in Item : Stock(i)' + Ordered(i)' = Stock(i) + Ordered(i)]_orderVars

\* Stock only shrinks, and never below zero, however many orders compete for it.
NeverOversold == [][\A i \in Item : db'[i] # db[i] => Stock(i)' \in 0 .. Stock(i)]_orderVars

\* A caller that is told Ok has its order in the table, with what it asked for.
OkMeansPlaced ==
  \A t \in Call : phase[t] = "ok" =>
    db[t] = [item |-> order[t].item, quantity |-> order[t].quantity]

\* A caller that is told Err has no order in the table, then or later.
ErrMeansNotPlaced ==
  \A t \in Call : phase[t] = "err" \/ step[t] = "rejected" => db[t] = NoRow

\* When create_order answers, its transaction has ended on the server: the caller, who may
\* call again at once, does not meet its own row locks.
AnsweredIsEnded ==
  \A t \in Call : phase[t] \in {"ok", "err"} /\ txn[t] \notin {"lost", "committing"} =>
    txn[t] \in {"none", "committed", "aborted"} /\ \A r \in Row : lock[r] # t

\* A create_order that waits for a row another one has locked has locked none itself: nobody
\* waits for one that waits, so orders do not lock each other out, whatever they order.
Needed(t) == IF step[t] = "insert" THEN t ELSE order[t].item

Waits(t) ==
  /\ txn[t] = "open" /\ step[t] \in {"find", "update", "insert"}
  /\ ~Lockable(t, Needed(t))

WaitsEmptyHanded == \A t \in Call : Waits(t) => \A r \in Row : lock[r] # t

\* Every create_order that begins is answered or cancelled: no two wait on each other,
\* and the pool serves those that wait for a connection.
EveryCallAnswered == \A t \in Call : step[t] = "find" ~> phase[t] \in Answered

\* Every lock of an inventory row is given up, whatever becomes of the call that took it.
EveryLockReleased == \A t \in Call, i \in Item : lock[i] = t ~> lock[i] # t

\* create_order implements the atomic order: what a caller sees of the tables and of the
\* answers.
Stocks == [i \in Item |-> IF db[i] = NoRow THEN NoRow ELSE db[i].quantity]

Placed == {t \in Call : db[t] # NoRow}

Answers == [t \in Call |-> IF phase[t] \in {"ok", "err"} THEN phase[t]
                          ELSE IF step[t] = "rejected" THEN "err" ELSE "none"]

AO == INSTANCE AtomicOrders WITH
  Quantity <- I32, MayBeLate <- LossyCommit,
  ask <- order, stock <- Stocks, placed <- Placed, answer <- Answers

\* Each step is a step of the atomic order, or none: seen from outside, an order is
\* placed at one moment, with its stock.
ImplementsAtomicOrders == AO!Spec

\* create_order uses the transaction manager as its interface allows: what is proved of
\* arbitrary closures holds of this one.
UsesTransactionManager == Safety
=============================================================================
