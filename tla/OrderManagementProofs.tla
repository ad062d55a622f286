------------------------ MODULE OrderManagementProofs -----------------------
(***************************************************************************)
(* Proofs about OrderManagement, for any number of callers, items and      *)
(* connections: create_order uses the transaction manager as its interface *)
(* allows, the copy of the stock it works on is never stale, and it        *)
(* implements the atomic order.                                            *)
(***************************************************************************)
EXTENDS OrderManagement, TransactionManagerProofs

(***************************************************************************)
(* Quantities.                                                             *)
(***************************************************************************)
\* The conversions keep an i32 that is not negative.
LEMMA RoundTrip == \A n \in I32 : n >= 0 => AsU32(n) = n /\ AsI32(n) = n
  BY HalfAssumption DEF I32, AsU32, AsI32

(***************************************************************************)
(* create_order is a use of the transaction manager.                       *)
(***************************************************************************)
LEMMA OrderStepIsManagerStep == OrderTypeOK /\ [OrderNext]_orderVars => [Next]_vars
<1> SUFFICES ASSUME OrderTypeOK, [OrderNext]_orderVars
             PROVE  [Next]_vars
  OBVIOUS
<1> USE DEF OrderTypeOK
<1>1. CASE UNCHANGED orderVars
  BY <1>1 DEF orderVars
<1>2. ASSUME NEW t \in Call, NEW q \in Requests, RejectOrder(t, q) PROVE [Next]_vars
  BY <1>2 DEF RejectOrder
<1>3. ASSUME NEW t \in Call, NEW q \in Requests, NEW i \in Item, CreateOrder(t, i, q)
      PROVE [Next]_vars
  BY <1>3 DEF CreateOrder, Next
<1>4. ASSUME NEW t \in Call,
             \/ LockForStatement(t) \/ FindInventory(t) \/ UpdateInventory(t)
             \/ InsertOrder(t) \/ StatementFails(t)
      PROVE [Next]_vars
  <2>1. t \in Row /\ "closure" \in Task
    BY OrderManagementAssumption DEF Task
  <2>2. CASE LockForStatement(t)
    BY <2>1, <2>2 DEF LockForStatement, Next, Statement
  <2>3. CASE FindInventory(t)
    <3>1. order[t].item \in Row
      BY <2>3, OrderManagementAssumption DEF FindInventory, Order
    <3> QED
      BY <2>1, <2>3, <3>1 DEF FindInventory, Next, Statement
  <2>4. CASE UpdateInventory(t)
    <3>1. order[t] \in Order
      BY <2>4 DEF UpdateInventory
    <3>2. order[t].item \in Row /\ [item |-> order[t].item, quantity |-> stock[t]] \in Value
      BY <3>1, OrderManagementAssumption DEF Order
    <3> QED
      BY <2>1, <2>4, <3>2 DEF UpdateInventory, Next, Statement
  <2>5. CASE InsertOrder(t)
    <3>1. order[t] \in Order
      BY <2>5 DEF InsertOrder
    <3>2. [item |-> order[t].item, quantity |-> AsI32(order[t].quantity)] \in Value
      BY <3>1, OrderManagementAssumption, HalfAssumption DEF Order, AsI32, I32, U32
    <3> QED
      BY <2>1, <2>5, <3>2 DEF InsertOrder, Next, Statement
  <2>6. CASE StatementFails(t)
    BY <2>1, <2>6 DEF StatementFails, Next, Statement
  <2> QED
    BY <1>4, <2>2, <2>3, <2>4, <2>5, <2>6
<1>5. ASSUME NEW t \in Call, OrderReturns(t) PROVE [Next]_vars
  BY <1>5 DEF OrderReturns, Next
<1>6. ASSUME NEW t \in Call, Manager(t) PROVE [Next]_vars
  BY <1>6 DEF Manager, Next
<1> QED
  BY <1>1, <1>2, <1>3, <1>4, <1>5, <1>6 DEF OrderNext
-----------------------------------------------------------------------------
(***************************************************************************)
(* The inductive invariant.                                                *)
(***************************************************************************)
\* How far the closure is goes with where its call is and what its transaction may do.
Progress ==
  \A t \in Call :
    /\ phase[t] = "idle" <=> step[t] \in {"new", "rejected"}
    /\ phase[t] = "begin" => step[t] = "find"
    /\ phase[t] \in {"unwrapOk", "commit", "ok"} => step[t] = "done"
    /\ phase[t] \in {"unwrapErr", "rollback"} => step[t] = "fail"
    /\ t \in erred => step[t] = "fail"
    /\ txn[t] \in {"committing", "committed"} => step[t] = "done"
    /\ order[t] # NoOrder => order[t].quantity \in 1 .. Half - 1

\* t's transaction may still commit, and its closure is at one of the steps.
Live(t, steps) == (txn[t] = "open" /\ step[t] \in steps) \/ txn[t] = "committing"

\* What a call that may commit has locked and written, and what its copy of the stock is.
Staged(t) ==
  LET i == order[t].item
  IN  /\ \A r \in Row : ws[t][r] # Unwritten => lock[r] = t
      /\ txn[t] = "none" \/ (txn[t] = "open" /\ step[t] \in {"find", "update", "fail"}) =>
           \A r \in Row : ws[t][r] = Unwritten
      /\ txn[t] = "open" /\ step[t] = "insert" => \A r \in Row \ {i} : ws[t][r] = Unwritten
      /\ Live(t, {"update", "insert", "done"}) =>
           /\ lock[i] = t
           /\ db[i] # NoRow
           /\ stock[t] = db[i].quantity - order[t].quantity
           /\ stock[t] >= 0
      /\ Live(t, {"insert", "done"}) => ws[t][i] = [item |-> i, quantity |-> stock[t]]
      /\ Live(t, {"done"}) =>
           /\ ws[t][t] = [item |-> i, quantity |-> order[t].quantity]
           /\ \A r \in Row \ {i, t} : ws[t][r] = Unwritten

\* Inventory rows are under their item; exactly the committed calls have an order row.
Tables ==
  /\ \A i \in Item : db[i] # NoRow => db[i].item = i
  /\ \A t \in Call :
       db[t] = IF txn[t] = "committed"
               THEN [item |-> order[t].item, quantity |-> order[t].quantity] ELSE NoRow

OrderInv == OrderTypeOK /\ Ownership /\ Outcome /\ Progress /\ (\A t \in Call : Staged(t)) /\ Tables

LEMMA OrderTypeStep ==
  OrderTypeOK /\ Ownership /\ Progress /\ [OrderNext]_orderVars => OrderTypeOK'
<1> SUFFICES ASSUME OrderTypeOK, Ownership, Progress, [OrderNext]_orderVars
             PROVE  OrderTypeOK'
  OBVIOUS
<1>0. TypeOK'
  BY OrderStepIsManagerStep, TypeStep DEF OrderTypeOK
<1> USE <1>0 DEF OrderTypeOK, Step
<1>1. CASE UNCHANGED orderVars
  BY <1>1 DEF orderVars, localVars
<1>2. ASSUME NEW t \in Call, NEW q \in Requests, RejectOrder(t, q) PROVE OrderTypeOK'
  BY <1>2 DEF RejectOrder
<1>3. ASSUME NEW t \in Call, NEW q \in Requests, NEW i \in Item, CreateOrder(t, i, q)
      PROVE OrderTypeOK'
  <2>1. [item |-> i, quantity |-> AsU32(q)] \in Order
    BY <1>3, OrderManagementAssumption, HalfAssumption DEF Order, AsU32, I32, U32
  <2> QED
    BY <1>3, <2>1, OrderManagementAssumption DEF CreateOrder
<1>4. ASSUME NEW t \in Call, FindInventory(t) PROVE OrderTypeOK'
  <2> DEFINE row == Visible(t, order[t].item)
             requested == AsI32(order[t].quantity)
  <2>1. order[t] \in Order /\ order[t].item \in Row
    BY <1>4, OrderManagementAssumption DEF FindInventory, Order
  <2>2. CASE CannotServe(row, requested)
    BY <1>4, <2>2 DEF FindInventory
  <2>3. CASE ~CannotServe(row, requested)
    <3>1. row \in Value
      BY <2>1, <2>3 DEF CannotServe, Visible, TypeOK, PgTypeOK
    <3>2. row.quantity \in I32 /\ requested \in I32
      BY <2>1, <3>1, OrderManagementAssumption, HalfAssumption DEF Order, AsI32, I32, U32
    <3>3. requested > 0 /\ ~DecreaseRejects(row.quantity, AsU32(requested))
      BY <2>3, <3>2, HalfAssumption DEF CannotServe, InventoryQuantityRejects, I32
    <3>4. Decreased(row.quantity, AsU32(requested)) \in I32
      BY <3>2, <3>3, RoundTrip, HalfAssumption DEF Decreased, DecreaseRejects, I32
    <3> QED
      BY <1>4, <2>3, <3>4 DEF FindInventory
  <2> QED
    BY <2>2, <2>3
<1>5. ASSUME NEW t \in Call, UpdateInventory(t) \/ InsertOrder(t) PROVE OrderTypeOK'
  BY <1>5 DEF UpdateInventory, InsertOrder
<1>6. ASSUME NEW t \in Call, LockForStatement(t) \/ OrderReturns(t) \/ Manager(t)
      PROVE OrderTypeOK'
  BY <1>6 DEF LockForStatement, OrderReturns, Manager, localVars
<1>7. ASSUME NEW t \in Call, StatementFails(t) PROVE OrderTypeOK'
  <2>1. "closure" \in arc[t]
    BY <1>7, TransactionManagerAssumption DEF StatementFails, StatementErr, Answer, Ownership
  <2>2. order[t] # NoOrder
    BY <2>1 DEF Ownership, Progress
  <2> QED
    BY <1>7, <2>2 DEF StatementFails, StatementErr, Answer
<1> QED
  BY <1>1, <1>2, <1>3, <1>4, <1>5, <1>6, <1>7 DEF OrderNext

LEMMA ProgressStep ==
  OrderTypeOK /\ Ownership /\ Outcome /\ Progress /\ [OrderNext]_orderVars => Progress'
<1> SUFFICES ASSUME OrderTypeOK, Ownership, Outcome, Progress, [OrderNext]_orderVars
             PROVE  Progress'
  OBVIOUS
<1> USE TransactionManagerAssumption
    DEF OrderTypeOK, TypeOK, PgTypeOK, Phase, Answered, Progress, Step, GoTo
<1>1. CASE UNCHANGED <<txn, phase, erred, step, order>>
  BY <1>1
<1>2. ASSUME NEW t \in Call, NEW q \in Requests, RejectOrder(t, q) PROVE Progress'
  BY <1>2 DEF RejectOrder, Outcome, vars
<1>3. ASSUME NEW t \in Call, NEW q \in Requests, NEW i \in Item, CreateOrder(t, i, q)
      PROVE Progress'
  <2>1. AsU32(q) \in 1 .. Half - 1
    BY <1>3, RoundTrip, OrderManagementAssumption, HalfAssumption
       DEF CreateOrder, OrderQuantityRejects, I32
  <2> QED
    BY <1>3, <2>1 DEF CreateOrder, Transaction, Outcome, pgVars, ctxVars
<1>4. ASSUME NEW t \in Call, FindInventory(t) \/ UpdateInventory(t) \/ InsertOrder(t)
      PROVE Progress'
  <2>1. step[t] \in {"find", "update", "insert"} /\ UNCHANGED <<order, phase, erred>>
        /\ \E s \in {"fail", "update", "insert", "done"} : step' = [step EXCEPT ![t] = s]
    BY <1>4 DEF FindInventory, UpdateInventory, InsertOrder,
                FindForUpdate, Update, Create, Answer
  <2>2. guard[t] = "closure"
    BY <1>4 DEF FindInventory, UpdateInventory, InsertOrder,
                FindForUpdate, Update, Create, Answer
  <2>3. phase[t] = "closure"
    BY <2>2 DEF Ownership
  <2>4. UNCHANGED txn
    BY <1>4 DEF FindInventory, UpdateInventory, InsertOrder, FindForUpdate, Update, Create,
                PgSelectForUpdate, PgUpdate, PgInsert
  <2>5. txn[t] \notin {"committing", "committed"}
    BY <2>3 DEF Outcome, Broken
  <2> QED
    BY <2>1, <2>3, <2>4, <2>5
<1>5. ASSUME NEW t \in Call, StatementFails(t) PROVE Progress'
  <2>1. guard[t] = "closure"
    BY <1>5 DEF StatementFails, StatementErr, Answer
  <2>2. phase[t] = "closure"
    BY <2>1 DEF Ownership
  <2> QED
    BY <1>5, <2>2 DEF StatementFails, StatementErr, Answer, PgFail, PgUndo, pgVars, Outcome, Broken
<1>6. ASSUME NEW t \in Call, LockForStatement(t) PROVE Progress'
  BY <1>1, <1>6 DEF LockForStatement, LockContext, localVars, pgVars
<1>7. ASSUME NEW t \in Call, OrderReturns(t) PROVE Progress'
  BY <1>7 DEF OrderReturns, ClosureReturns, localVars, pgVars
<1>8. ASSUME NEW t \in Call, Manager(t) PROVE Progress'
  <2> USE <1>8 DEF Manager, localVars, pgVars, ctxVars
  <2>1. CASE Begin(t)
    BY <2>1 DEF Begin, PgBegin
  <2>2. CASE BeginErr(t)
    BY <2>2 DEF BeginErr
  <2>3. CASE TryUnwrap(t)
    BY <2>3 DEF TryUnwrap
  <2>4. CASE CommitApplied(t)
    BY <2>4 DEF CommitApplied, PgApply
  <2>5. CASE CommitOk(t)
    BY <2>5 DEF CommitOk, PgUndo
  <2>6. CASE CommitErr(t)
    BY <2>6 DEF CommitErr, PgUndo, PgMove
  <2>7. CASE Rollback(t)
    BY <2>7 DEF Rollback, PgUndo
  <2>8. CASE Cancel(t)
    BY <2>8 DEF Cancel, PgMove
  <2>9. CASE RollbackDropped(t) \/ ConnectionLost(t) \/ SessionEnds(t)
    BY <2>9 DEF RollbackDropped, ConnectionLost, SessionEnds, PgUndo, PgMove
  <2> QED
    BY <2>1, <2>2, <2>3, <2>4, <2>5, <2>6, <2>7, <2>8, <2>9
<1> QED
  BY <1>1, <1>2, <1>3, <1>4, <1>5, <1>6, <1>7, <1>8 DEF OrderNext, orderVars, vars, localVars
-----------------------------------------------------------------------------
(***************************************************************************)
(* A step of one call leaves what another has locked, written and copied   *)
(* alone.                                                                  *)
(***************************************************************************)
\* Nothing that Staged(u) speaks of changes.
Keeps(u) ==
  /\ txn'[u] = txn[u] /\ ws'[u] = ws[u]
  /\ step'[u] = step[u] /\ order'[u] = order[u] /\ stock'[u] = stock[u]
  /\ \A r \in Row : lock[r] = u => lock'[r] = u /\ db'[r] = db[r]

LEMMA KeepsStaged ==
  ASSUME OrderTypeOK, NEW u \in Call, Progress, Staged(u), Keeps(u)
  PROVE  Staged(u)'
<1> DEFINE i == order[u].item
<1>1. CASE order[u] = NoOrder
  <2>1. ~Live(u, {"update", "insert", "done"})
    BY <1>1 DEF OrderTypeOK, Progress, Live
  <2> QED
    BY <1>1, <2>1 DEF OrderTypeOK, Staged, Live, Keeps
<1>2. CASE order[u] # NoOrder
  <2>1. i \in Row
    BY <1>2, OrderManagementAssumption DEF OrderTypeOK, Order
  <2> QED
    BY <2>1 DEF Staged, Live, Keeps
<1> QED
  BY <1>1, <1>2

\* The steps of a database transaction and what they leave of another one.
LEMMA PgKeeps ==
  ASSUME PgTypeOK, NEW t \in Call, NEW u \in Call \ {t},
         \A r \in Row : ws[t][r] # Unwritten => lock[r] = t,
         \/ UNCHANGED pgVars \/ PgBegin(t) \/ PgFail(t) \/ PgApply(t)
         \/ \E state \in TxnState : PgUndo(t, state) \/ PgMove(t, state)
         \/ \E r \in Row : PgSelectForUpdate(t, r)
         \/ \E r \in Row, v \in Value : PgInsert(t, r, v) \/ PgUpdate(t, r, v)
  PROVE  /\ txn'[u] = txn[u] /\ ws'[u] = ws[u]
         /\ \A r \in Row : lock[r] = u => lock'[r] = u /\ db'[r] = db[r]
<1> USE PostgresAssumption DEF PgTypeOK, pgVars
<1>1. CASE UNCHANGED pgVars \/ PgBegin(t)
  BY <1>1 DEF PgBegin
<1>2. ASSUME NEW state \in TxnState, PgUndo(t, state) \/ PgMove(t, state)
      PROVE  /\ txn'[u] = txn[u] /\ ws'[u] = ws[u]
             /\ \A r \in Row : lock[r] = u => lock'[r] = u /\ db'[r] = db[r]
  BY <1>2 DEF PgUndo, PgMove, Released
<1>3. CASE PgFail(t)
  BY <1>1, <1>2, <1>3 DEF PgFail, TxnState
<1>4. CASE PgApply(t)
  BY <1>4 DEF PgApply, Released, Visible
<1>5. ASSUME NEW r \in Row, PgSelectForUpdate(t, r)
      PROVE  /\ txn'[u] = txn[u] /\ ws'[u] = ws[u]
             /\ \A q \in Row : lock[q] = u => lock'[q] = u /\ db'[q] = db[q]
  BY <1>5 DEF PgSelectForUpdate, Lockable
<1>6. ASSUME NEW r \in Row, NEW v \in Value, PgInsert(t, r, v) \/ PgUpdate(t, r, v)
      PROVE  /\ txn'[u] = txn[u] /\ ws'[u] = ws[u]
             /\ \A q \in Row : lock[q] = u => lock'[q] = u /\ db'[q] = db[q]
  BY <1>6 DEF PgInsert, PgUpdate, Lockable
<1> QED
  BY <1>1, <1>2, <1>3, <1>4, <1>5, <1>6

\* The steps of the manager around t's closure, as steps of t's database transaction.
LEMMA ManagerPgStep ==
  ASSUME NEW t \in Call, Manager(t)
  PROVE  \/ UNCHANGED pgVars \/ PgBegin(t) \/ PgApply(t)
         \/ \E state \in TxnState : PgUndo(t, state) \/ PgMove(t, state)
<1> USE DEF TxnState, pgVars
<1>1. CASE Begin(t) \/ BeginErr(t) \/ TryUnwrap(t) \/ CommitApplied(t)
  BY <1>1 DEF Begin, BeginErr, TryUnwrap, CommitApplied
<1>2. CASE CommitOk(t) \/ CommitErr(t) \/ Rollback(t) \/ Cancel(t)
  BY <1>2 DEF CommitOk, CommitErr, Rollback, Cancel
<1>3. CASE RollbackDropped(t) \/ ConnectionLost(t) \/ SessionEnds(t)
  BY <1>3 DEF RollbackDropped, ConnectionLost, SessionEnds
<1> QED
  BY <1>1, <1>2, <1>3 DEF Manager

\* A step of t.
StepOf(t) ==
  \/ \E q \in Requests : RejectOrder(t, q)
  \/ \E i \in Item, q \in Requests : CreateOrder(t, i, q)
  \/ LockForStatement(t) \/ FindInventory(t) \/ UpdateInventory(t) \/ InsertOrder(t)
  \/ StatementFails(t) \/ OrderReturns(t) \/ Manager(t)

LEMMA OthersKeep ==
  ASSUME OrderInv, NEW t \in Call, NEW u \in Call \ {t}, StepOf(t)
  PROVE  Keeps(u)
<1> DEFINE PgStep ==
      \/ UNCHANGED pgVars \/ PgBegin(t) \/ PgFail(t) \/ PgApply(t)
      \/ \E state \in TxnState : PgUndo(t, state) \/ PgMove(t, state)
      \/ \E r \in Row : PgSelectForUpdate(t, r)
      \/ \E r \in Row, v \in Value : PgInsert(t, r, v) \/ PgUpdate(t, r, v)
<1> USE DEF OrderInv, OrderTypeOK, TypeOK
<1>1. \A r \in Row : ws[t][r] # Unwritten => lock[r] = t
  BY DEF Staged
<1>2. step'[u] = step[u] /\ order'[u] = order[u] /\ stock'[u] = stock[u]
  BY DEF StepOf, RejectOrder, CreateOrder, LockForStatement, FindInventory, UpdateInventory,
         InsertOrder, StatementFails, OrderReturns, Manager, Step, localVars
<1>3. order[t] # NoOrder => order[t].item \in Row
  BY OrderManagementAssumption DEF Order
<1>4. CASE (\E q \in Requests : RejectOrder(t, q)) \/ LockForStatement(t) \/ OrderReturns(t)
            \/ (\E i \in Item, q \in Requests : CreateOrder(t, i, q))
  <2>1. UNCHANGED pgVars
    BY <1>4 DEF RejectOrder, LockForStatement, OrderReturns, CreateOrder, Transaction,
                LockContext, ClosureReturns, vars, pgVars
  <2> QED
    BY <1>1, <1>2, <2>1, PgKeeps DEF Keeps
<1>5. CASE FindInventory(t)
  <2>1. PgSelectForUpdate(t, order[t].item) /\ order[t] # NoOrder
    BY <1>5 DEF FindInventory, FindForUpdate
  <2> QED
    BY <1>1, <1>2, <1>3, <2>1, PgKeeps DEF Keeps
<1>6. CASE UpdateInventory(t)
  <2>1. order[t] \in Order /\ stock[t] \in I32
    BY <1>6 DEF UpdateInventory
  <2>2. [item |-> order[t].item, quantity |-> stock[t]] \in Value
    BY <2>1, OrderManagementAssumption DEF Order
  <2> QED
    BY <1>1, <1>2, <1>3, <1>6, <2>1, <2>2, PgKeeps, OrderManagementAssumption
       DEF Keeps, UpdateInventory, Update
<1>7. CASE InsertOrder(t)
  <2>1. order[t] \in Order
    BY <1>7 DEF InsertOrder
  <2>2. [item |-> order[t].item, quantity |-> AsI32(order[t].quantity)] \in Value /\ t \in Row
    BY <2>1, OrderManagementAssumption, HalfAssumption DEF Order, AsI32, I32, U32
  <2> QED
    BY <1>1, <1>2, <1>7, <2>2, PgKeeps DEF Keeps, InsertOrder, Create
<1>8. CASE StatementFails(t)
  BY <1>1, <1>2, <1>8, PgKeeps DEF Keeps, StatementFails, StatementErr
<1>9. CASE Manager(t)
  BY <1>1, <1>2, <1>9, ManagerPgStep, PgKeeps DEF Keeps
<1> QED
  BY <1>4, <1>5, <1>6, <1>7, <1>8, <1>9 DEF StepOf
-----------------------------------------------------------------------------
(***************************************************************************)
(* What a call has locked and written, through its own steps.              *)
(***************************************************************************)
\* A transaction that has begun was begun for an order, of an item.
LEMMA Begun ==
  ASSUME OrderInv, NEW t \in Call, txn[t] # "none"
  PROVE  order[t] \in Order /\ order[t].item \in Item
<1> USE DEF OrderInv, OrderTypeOK, TypeOK
<1>1. phase[t] # "idle"
  BY DEF Outcome
<1>2. order[t] # NoOrder
  BY <1>1 DEF Progress
<1> QED
  BY <1>2 DEF Order

\* The statements of the closure.
LEMMA FindStaged ==
  ASSUME OrderInv, NEW t \in Call, FindInventory(t)
  PROVE  Staged(t)'
<1> DEFINE i == order[t].item
           requested == AsI32(order[t].quantity)
<1> USE DEF OrderInv, OrderTypeOK, TypeOK, PgTypeOK
<1>1. /\ txn[t] = "open" /\ step[t] = "find" /\ UNCHANGED <<db, txn, ws, order>>
      /\ lock' = IF Visible(t, i) = NoRow THEN lock ELSE [lock EXCEPT ![i] = t]
  BY DEF FindInventory, FindForUpdate, PgSelectForUpdate
<1>2. \A r \in Row : ws[t][r] = Unwritten
  BY <1>1 DEF Staged
<1>3. i \in Item /\ i \in Row /\ order[t] \in Order /\ Visible(t, i) = db[i]
  BY <1>1, <1>2, Begun, OrderManagementAssumption DEF Visible
<1>4. CASE CannotServe(db[i], requested)
  BY <1>1, <1>2, <1>3, <1>4 DEF FindInventory, Step, Staged, Live
<1>5. CASE ~CannotServe(db[i], requested)
  <2>1. /\ step' = [step EXCEPT ![t] = "update"]
        /\ stock' = [stock EXCEPT ![t] = Decreased(db[i].quantity, AsU32(requested))]
    BY <1>3, <1>5 DEF FindInventory, Step
  <2>2. db[i] \in Value /\ db[i].quantity \in I32
    BY <1>3, <1>5, OrderManagementAssumption DEF CannotServe
  <2>3. order[t].quantity \in 1 .. Half - 1
    BY <1>3, OrderManagementAssumption DEF Progress
  <2>4. requested = order[t].quantity /\ AsI32(AsU32(requested)) = order[t].quantity
    BY <2>3, HalfAssumption DEF AsI32, AsU32
  <2>5. /\ Decreased(db[i].quantity, AsU32(requested)) = db[i].quantity - order[t].quantity
        /\ db[i].quantity - order[t].quantity >= 0
    BY <1>5, <2>2, <2>3, <2>4, HalfAssumption
       DEF CannotServe, DecreaseRejects, Decreased, I32
  <2>6. db[i] # NoRow /\ lock'[i] = t
    BY <1>1, <1>3, <1>5 DEF CannotServe
  <2> QED
    BY <1>1, <1>2, <1>3, <2>1, <2>5, <2>6 DEF Staged, Live
<1> QED
  BY <1>4, <1>5

LEMMA UpdateStaged ==
  ASSUME OrderInv, NEW t \in Call, UpdateInventory(t)
  PROVE  Staged(t)'
<1> DEFINE i == order[t].item
           v == [item |-> i, quantity |-> stock[t]]
<1> USE DEF OrderInv, OrderTypeOK, TypeOK, PgTypeOK
<1>1. /\ txn[t] = "open" /\ step[t] = "update" /\ PgUpdate(t, i, v)
      /\ step' = [step EXCEPT ![t] = "insert"] /\ UNCHANGED <<order, stock>>
  BY DEF UpdateInventory, Update, PgUpdate, Step
<1>2. i \in Row
  BY <1>1, Begun, OrderManagementAssumption
<1>3. \A r \in Row : ws[t][r] = Unwritten
  BY <1>1 DEF Staged
<1>4. Visible(t, i) # NoRow
  <2>1. db[i] # NoRow
    BY <1>1 DEF Staged, Live
  <2> QED
    BY <1>2, <1>3, <2>1 DEF Visible
<1>5. /\ lock' = [lock EXCEPT ![i] = t] /\ ws' = [ws EXCEPT ![t][i] = v]
      /\ UNCHANGED <<db, txn>>
  BY <1>1, <1>4 DEF PgUpdate
<1>6. /\ ws'[t][i] = v /\ lock'[i] = t
      /\ \A r \in Row \ {i} : ws'[t][r] = Unwritten
      /\ txn'[t] = "open" /\ step'[t] = "insert" /\ order'[t] = order[t] /\ stock'[t] = stock[t]
  BY <1>1, <1>2, <1>3, <1>5
<1>7. /\ db[i] # NoRow /\ stock[t] = db[i].quantity - order[t].quantity /\ stock[t] >= 0
  BY <1>1 DEF Staged, Live
<1>8. UNCHANGED db
  BY <1>5
<1> HIDE DEF OrderInv, OrderTypeOK, TypeOK, PgTypeOK
<1> QED
  BY <1>6, <1>7, <1>8 DEF Staged, Live

LEMMA InsertStaged ==
  ASSUME OrderInv, NEW t \in Call, InsertOrder(t)
  PROVE  Staged(t)'
<1> DEFINE i == order[t].item
           v == [item |-> i, quantity |-> AsI32(order[t].quantity)]
<1> USE DEF OrderInv, OrderTypeOK, TypeOK, PgTypeOK
<1>1. /\ txn[t] = "open" /\ step[t] = "insert" /\ UNCHANGED <<db, txn, order, stock>>
      /\ lock' = [lock EXCEPT ![t] = t] /\ ws' = [ws EXCEPT ![t][t] = v]
      /\ step' = [step EXCEPT ![t] = "done"]
  BY DEF InsertOrder, Create, PgInsert, Step
<1> HIDE DEF v
<1>2. i \in Item /\ i \in Row /\ i # t /\ t \in Row
  <2>1. i \in Item
    BY <1>1, Begun
  <2> QED
    BY <2>1, OrderManagementAssumption
<1>3. order[t].quantity \in 1 .. Half - 1
  BY <1>1, Begun, OrderManagementAssumption DEF Progress
<1>4. v = [item |-> i, quantity |-> order[t].quantity]
  BY <1>3, HalfAssumption DEF AsI32, v
<1>5. \A r \in Row \ {i} : ws[t][r] = Unwritten
  BY <1>1 DEF Staged
<1>6. /\ ws'[t][t] = v /\ lock'[t] = t /\ ws'[t][i] = ws[t][i] /\ lock'[i] = lock[i]
      /\ \A r \in Row \ {i, t} : ws'[t][r] = Unwritten
      /\ txn'[t] = "open" /\ step'[t] = "done" /\ order'[t] = order[t] /\ stock'[t] = stock[t]
  BY <1>1, <1>2, <1>5
<1>7. /\ lock[i] = t /\ db[i] # NoRow /\ stock[t] = db[i].quantity - order[t].quantity
      /\ stock[t] >= 0 /\ ws[t][i] = [item |-> i, quantity |-> stock[t]]
  BY <1>1 DEF Staged, Live
<1>8. UNCHANGED db
  BY <1>1
<1> HIDE DEF OrderInv, OrderTypeOK, TypeOK, PgTypeOK
<1> QED
  BY <1>2, <1>4, <1>6, <1>7, <1>8 DEF Staged, Live

\* The statements that fail and the manager's steps.
LEMMA EndStaged ==
  ASSUME OrderInv, NEW t \in Call, StatementFails(t) \/ Manager(t)
  PROVE  Staged(t)'
<1> USE DEF OrderInv, OrderTypeOK, TypeOK, PgTypeOK
<1>1. CASE Keeps(t)
  BY <1>1, KeepsStaged
<1>2. ASSUME NEW state \in {"failed", "aborted"}, PgUndo(t, state)
      PROVE  Staged(t)'
  BY <1>2 DEF PgUndo, Staged, Live
<1>3. CASE StatementFails(t)
  <2>1. step'[t] = "fail" /\ UNCHANGED <<order, stock>>
    BY <1>3 DEF StatementFails, Step
  <2>2. CASE UNCHANGED pgVars /\ txn[t] \in {"failed", "lost", "aborted"}
    BY <2>1, <2>2 DEF Staged, Live, pgVars
  <2> QED
    BY <1>2, <1>3, <2>2 DEF StatementFails, StatementErr, PgFail, Broken
<1>4. CASE Manager(t)
  <2>1. UNCHANGED localVars
    BY <1>4 DEF Manager
  <2>2. CASE UNCHANGED pgVars
    BY <1>1, <2>1, <2>2 DEF Keeps, localVars, pgVars
  <2>3. CASE Begin(t)
    <3>1. step[t] = "find" /\ txn[t] = "none"
      BY <2>3 DEF Begin, PgBegin, Progress
    <3>2. txn'[t] = "open" /\ UNCHANGED ws /\ step' = step
      BY <2>1, <2>3 DEF Begin, PgBegin, localVars
    <3>3. \A r \in Row : ws[t][r] = Unwritten
      BY <3>1 DEF Staged
    <3> QED
      BY <3>1, <3>2, <3>3 DEF Staged, Live
  <2>4. CASE PgApply(t)
    BY <2>1, <2>4 DEF PgApply, Staged, Live, localVars
  <2>5. CASE PgMove(t, "lost")
    <3>1. txn'[t] = "lost" /\ UNCHANGED <<ws, lock>>
      BY <2>5 DEF PgMove
    <3>2. \A r \in Row : ws[t][r] # Unwritten => lock[r] = t
      BY DEF Staged
    <3> QED
      BY <3>1, <3>2 DEF Staged, Live
  <2>6. CASE phase[t] = "commit" /\ txn[t] = "open" /\ PgMove(t, "committing")
    <3>1. step[t] = "done"
      BY <2>6 DEF Progress
    <3>2. txn'[t] = "committing" /\ UNCHANGED <<db, ws, lock>>
      BY <2>6 DEF PgMove
    <3> QED
      BY <2>1, <2>6, <3>1, <3>2 DEF Staged, Live, localVars
  <2> QED
    BY <1>2, <1>4, <2>2, <2>3, <2>4, <2>5, <2>6
       DEF Manager, BeginErr, TryUnwrap, CommitApplied, CommitOk, CommitErr, Rollback, Cancel,
           RollbackDropped, ConnectionLost, SessionEnds
<1> QED
  BY <1>3, <1>4

LEMMA StagedStep ==
  ASSUME OrderInv, NEW t \in Call, StepOf(t)
  PROVE  \A u \in Call : Staged(u)'
<1> USE DEF OrderInv
<1>1. ASSUME NEW u \in Call \ {t} PROVE Staged(u)'
  BY <1>1, OthersKeep, KeepsStaged
<1>2. CASE (\E q \in Requests : RejectOrder(t, q))
            \/ (\E i \in Item, q \in Requests : CreateOrder(t, i, q))
  <2>1. UNCHANGED pgVars
    BY <1>2 DEF RejectOrder, CreateOrder, Transaction, vars, pgVars
  <2>2. txn[t] = "none"
    BY <1>2 DEF RejectOrder, CreateOrder, Outcome, Progress
  <2>3. \A r \in Row : ws[t][r] = Unwritten
    BY <2>2 DEF Staged
  <2>4. Staged(t)'
    BY <2>1, <2>2, <2>3 DEF Staged, Live, pgVars
  <2> QED
    BY <1>1, <2>4
<1>3. CASE LockForStatement(t) \/ OrderReturns(t)
  <2>1. Keeps(t)
    BY <1>3 DEF LockForStatement, OrderReturns, LockContext, ClosureReturns, Keeps, localVars,
                pgVars
  <2> QED
    BY <1>1, <2>1, KeepsStaged
<1> QED
  BY <1>1, <1>2, <1>3, FindStaged, UpdateStaged, InsertStaged, EndStaged DEF StepOf

\* What a COMMIT does to the tables.
LEMMA CommitPlaces ==
  ASSUME OrderInv, NEW t \in Call, CommitApplied(t)
  PROVE  LET i == order[t].item
         IN  /\ i \in Item /\ order[t] \in Order
             /\ order[t].quantity \in 1 .. Half - 1
             /\ txn[t] \in {"open", "committing"}
             /\ db[i] \in Value
             /\ db[i].quantity - order[t].quantity >= 0
             /\ db'[i] = [item |-> i, quantity |-> db[i].quantity - order[t].quantity]
             /\ db'[t] = [item |-> i, quantity |-> order[t].quantity]
             /\ \A r \in Row \ {i, t} : db'[r] = db[r]
<1> DEFINE i == order[t].item
<1> USE DEF OrderInv, OrderTypeOK, TypeOK, PgTypeOK
<1>1. Live(t, {"done"}) /\ txn[t] \in {"open", "committing"}
  BY DEF CommitApplied, Live, Progress
<1>2. order[t] \in Order /\ i \in Item
  BY <1>1, Begun DEF Live
<1>3. order[t].quantity \in 1 .. Half - 1
  BY <1>2, OrderManagementAssumption DEF Progress
<1>4. i \in Row /\ t \in Row /\ i # t
  BY <1>2, OrderManagementAssumption
<1>5. /\ ws[t][i] = [item |-> i, quantity |-> stock[t]]
      /\ ws[t][t] = [item |-> i, quantity |-> order[t].quantity]
      /\ \A r \in Row \ {i, t} : ws[t][r] = Unwritten
      /\ db[i] # NoRow /\ stock[t] = db[i].quantity - order[t].quantity /\ stock[t] >= 0
  BY <1>1 DEF Staged, Live
<1>6. db' = [r \in Row |-> Visible(t, r)]
  BY DEF CommitApplied, PgApply
<1>7. order[t].quantity \in I32
  BY <1>3, HalfAssumption DEF I32
<1>8. ws[t][i] # Unwritten /\ ws[t][t] # Unwritten
  BY <1>2, <1>5, <1>7, OrderManagementAssumption, PostgresAssumption
<1>9. /\ db'[t] = [item |-> i, quantity |-> order[t].quantity]
      /\ db'[i] = [item |-> i, quantity |-> stock[t]]
      /\ \A r \in Row \ {i, t} : db'[r] = db[r]
  BY <1>4, <1>5, <1>6, <1>8 DEF Visible
<1> QED
  BY <1>1, <1>2, <1>3, <1>4, <1>5, <1>9

\* Only COMMIT changes the tables: it brings in the order's row and the reduced stock.
LEMMA TablesStep ==
  ASSUME OrderInv, NEW t \in Call, StepOf(t)
  PROVE  Tables'
<1> USE DEF OrderInv, OrderTypeOK, TypeOK, PgTypeOK
<1>1. CASE \E q \in Requests : RejectOrder(t, q)
  BY <1>1 DEF RejectOrder, vars, Tables
<1>2. ASSUME NEW i \in Item, NEW q \in Requests, CreateOrder(t, i, q) PROVE Tables'
  <2>1. UNCHANGED <<db, txn>> /\ txn[t] = "none"
    BY <1>2 DEF CreateOrder, Transaction, Outcome, pgVars
  <2>2. \A u \in Call \ {t} : order'[u] = order[u]
    BY <1>2 DEF CreateOrder
  <2> QED
    BY <2>1, <2>2 DEF Tables
<1>3. ASSUME UNCHANGED <<db, order>>,
             \A u \in Call : txn'[u] = "committed" <=> txn[u] = "committed"
      PROVE  Tables'
  BY <1>3 DEF Tables
<1>4. CASE \/ LockForStatement(t) \/ FindInventory(t) \/ UpdateInventory(t)
           \/ InsertOrder(t) \/ OrderReturns(t)
  BY <1>3, <1>4
     DEF LockForStatement, FindInventory, UpdateInventory, InsertOrder, OrderReturns,
         LockContext, FindForUpdate, Update, Create, ClosureReturns, PgSelectForUpdate,
         PgUpdate, PgInsert, localVars, pgVars
<1>5. CASE StatementFails(t)
  BY <1>3, <1>5 DEF StatementFails, StatementErr, PgFail, PgUndo, pgVars, Broken
<1>6. CASE Manager(t)
  <2>1. UNCHANGED localVars
    BY <1>6 DEF Manager
  <2>2. CASE UNCHANGED pgVars \/ PgBegin(t)
    BY <1>3, <2>1, <2>2 DEF pgVars, PgBegin, localVars
  <2>3. ASSUME NEW state \in {"aborted", "lost", "committing"}, txn[t] # "committed",
               PgUndo(t, state) \/ PgMove(t, state)
        PROVE  Tables'
    BY <1>3, <2>1, <2>3 DEF PgUndo, PgMove, localVars
  <2>4. CASE CommitApplied(t)
    <3> DEFINE i == order[t].item
    <3>1. UNCHANGED order /\ txn' = [txn EXCEPT ![t] = "committed"]
      BY <2>1, <2>4 DEF localVars, CommitApplied, PgApply
    <3>2. /\ i \in Item /\ db'[i].item = i
          /\ db'[t] = [item |-> i, quantity |-> order[t].quantity]
          /\ \A r \in Row \ {i, t} : db'[r] = db[r]
      <4> HIDE DEF OrderInv, OrderTypeOK, TypeOK, PgTypeOK
      <4>1. db'[i] = [item |-> i, quantity |-> db[i].quantity - order[t].quantity]
        BY <2>4, CommitPlaces
      <4> QED
        BY <2>4, <4>1, CommitPlaces
    <3>3. Item \cap Call = {} /\ Item \subseteq Row /\ Call \subseteq Row
      BY OrderManagementAssumption
    <3> HIDE DEF i
    <3>4. \A j \in Item : db'[j] # NoRow => db'[j].item = j
      <4>1. \A j \in Item : db[j] # NoRow => db[j].item = j
        BY DEF Tables
      <4>2. \A j \in Item \ {i} : db'[j] = db[j]
        BY <3>2, <3>3
      <4> QED
        BY <3>2, <4>1, <4>2
    <3>5. \A u \in Call \ {t} : db'[u] = db[u] /\ txn'[u] = txn[u]
      BY <3>1, <3>2, <3>3
    <3> QED
      BY <3>1, <3>2, <3>4, <3>5 DEF Tables, i
  <2> QED
    BY <1>6, <2>2, <2>3, <2>4
       DEF Manager, Begin, BeginErr, TryUnwrap, CommitOk, CommitErr, Rollback, Cancel,
           RollbackDropped, ConnectionLost, SessionEnds, Broken
<1> QED
  BY <1>1, <1>2, <1>4, <1>5, <1>6 DEF StepOf
-----------------------------------------------------------------------------
(***************************************************************************)
(* The theorems.                                                           *)
(***************************************************************************)
LEMMA OrderInitInv == OrderInit => OrderInv
<1> SUFFICES ASSUME OrderInit
             PROVE  OrderInv
  OBVIOUS
<1> USE DEF OrderInit, Init, PgInit
<1>1. OrderTypeOK
  BY HalfAssumption DEF OrderTypeOK, TypeOK, PgTypeOK, Phase, TxnState, I32
<1>2. Ownership /\ Outcome /\ Progress
  BY DEF Ownership, Outcome, Progress
<1>3. \A t \in Call : Staged(t)
  BY DEF Staged, Live
<1>4. Tables
  <2>1. \A i \in Item : i \in Row /\ (db[i] # NoRow => db[i].item = i)
    BY OrderManagementAssumption DEF InitialRows
  <2>2. \A t \in Call : t \in Row /\ db[t] = NoRow
    BY OrderManagementAssumption DEF InitialRows
  <2> QED
    BY <2>1, <2>2 DEF Tables
<1> QED
  BY <1>1, <1>2, <1>3, <1>4 DEF OrderInv

LEMMA OrderInvStep == OrderInv /\ [OrderNext]_orderVars => OrderInv'
<1> SUFFICES ASSUME OrderInv, [OrderNext]_orderVars
             PROVE  OrderInv'
  OBVIOUS
<1> USE DEF OrderInv
<1>1. OrderTypeOK'
  BY OrderTypeStep
<1>2. Ownership' /\ Outcome'
  BY OrderStepIsManagerStep, OwnershipStep, OutcomeStep DEF OrderTypeOK
<1>3. Progress'
  BY ProgressStep
<1>4. CASE UNCHANGED orderVars
  <2>1. (\A t \in Call : Staged(t)') /\ Tables'
    BY <1>4 DEF orderVars, vars, localVars, Staged, Live, Tables
  <2> QED
    BY <1>1, <1>2, <1>3, <2>1
<1>5. ASSUME NEW t \in Call, StepOf(t) PROVE OrderInv'
  BY <1>1, <1>2, <1>3, <1>5, StagedStep, TablesStep
<1> QED
  BY <1>4, <1>5 DEF OrderNext, StepOf

\* What the calls have locked, written and copied fits the tables and their transactions.
THEOREM OrderInvariance == OrderSafety => []OrderInv
  BY OrderInitInv, OrderInvStep, PTL DEF OrderSafety

\* Every variable keeps its type, and no conversion of a quantity leaves its range.
THEOREM OrderTypeCorrect == OrderSpec => []OrderTypeOK
<1>1. OrderInv => OrderTypeOK
  BY DEF OrderInv
<1> QED
  BY <1>1, OrderInvariance, PTL DEF OrderSpec

\* create_order is a use of the transaction manager: all that is proved of that holds here.
THEOREM OrdersUseTransactionManager == OrderSpec => UsesTransactionManager
<1>1. OrderInit => Init
  BY DEF OrderInit
<1>2. OrderInv => OrderTypeOK
  BY DEF OrderInv
<1> QED
  BY <1>1, <1>2, OrderStepIsManagerStep, OrderInvariance, PTL
     DEF OrderSpec, OrderSafety, UsesTransactionManager, Safety

\* The copy of the stock that a closure writes back is never stale.
THEOREM StockIsFresh == OrderSpec => []FreshStock
<1>1. OrderInv => FreshStock
  BY DEF OrderInv, FreshStock, Staged, Live
<1> QED
  BY <1>1, OrderInvariance, PTL DEF OrderSpec

\* Ok means that the order is in the table, as it was asked for.
THEOREM OkIsPlaced == OrderSpec => []OkMeansPlaced
<1>1. OrderInv => OkMeansPlaced
  <2> SUFFICES ASSUME OrderInv, NEW t \in Call, phase[t] = "ok"
               PROVE  txn[t] = "committed"
    BY DEF OrderInv, Tables, OkMeansPlaced
  <2> QED
    BY DEF OrderInv, Outcome, Progress
<1> QED
  BY <1>1, OrderInvariance, PTL DEF OrderSpec

\* Err means that there is no order, if no connection breaks between COMMIT and its answer.
THEOREM ErrIsNotPlaced ==
  ASSUME ~LossyCommit
  PROVE  OrderSpec => []ErrMeansNotPlaced
<1>1. OrderInv => ErrMeansNotPlaced
  <2> SUFFICES ASSUME OrderInv, NEW t \in Call, phase[t] = "err" \/ step[t] = "rejected"
               PROVE  txn[t] # "committed"
    BY DEF OrderInv, Tables, ErrMeansNotPlaced
  <2> QED
    BY DEF OrderInv, Outcome, Progress
<1> QED
  BY <1>1, OrderInvariance, PTL DEF OrderSpec
-----------------------------------------------------------------------------
(***************************************************************************)
(* Only a COMMIT changes the tables, and never oversells.                  *)
(***************************************************************************)
LEMMA OnlyCommitChangesTables ==
  ASSUME NEW t \in Call, StepOf(t), ~CommitApplied(t)
  PROVE  UNCHANGED db
<1>1. CASE \/ \E q \in Requests : RejectOrder(t, q)
           \/ \E i \in Item, q \in Requests : CreateOrder(t, i, q)
           \/ LockForStatement(t) \/ OrderReturns(t)
  BY <1>1 DEF RejectOrder, CreateOrder, LockForStatement, OrderReturns, Transaction,
              LockContext, ClosureReturns, vars, pgVars
<1>2. CASE FindInventory(t) \/ UpdateInventory(t) \/ InsertOrder(t) \/ StatementFails(t)
  BY <1>2 DEF FindInventory, UpdateInventory, InsertOrder, StatementFails, FindForUpdate,
              Update, Create, StatementErr, PgSelectForUpdate, PgUpdate, PgInsert, PgFail,
              PgUndo, pgVars
<1>3. CASE Manager(t)
  BY <1>3 DEF Manager, Begin, BeginErr, TryUnwrap, CommitOk, CommitErr, Rollback, Cancel,
              RollbackDropped, ConnectionLost, SessionEnds, PgBegin, PgUndo, PgMove, pgVars
<1> QED
  BY <1>1, <1>2, <1>3 DEF StepOf

\* Stock only shrinks, and never below zero.
THEOREM StockNeverOversold == OrderSpec => NeverOversold
<1> DEFINE Shrinks == \A i \in Item : db'[i] # db[i] => Stock(i)' \in 0 .. Stock(i)
<1>1. ASSUME OrderInv, NEW t \in Call, CommitApplied(t) PROVE Shrinks
  <2>0. PICK i \in Item : i = order[t].item
    BY <1>1, CommitPlaces
  <2>1. /\ order[t].quantity \in 1 .. Half - 1
        /\ db[i] \in Value /\ db[i].quantity - order[t].quantity >= 0
        /\ \A r \in Row \ {i, t} : db'[r] = db[r]
    BY <1>1, <2>0, CommitPlaces
  <2>2. db'[i] = [item |-> i, quantity |-> db[i].quantity - order[t].quantity]
    BY <1>1, <2>0, CommitPlaces
  <2>3. db'[i].quantity = db[i].quantity - order[t].quantity
    BY <2>2
  <2>4. db[i].quantity \in Int /\ order[t].quantity \in Int /\ order[t].quantity > 0
    BY <2>1, OrderManagementAssumption, HalfAssumption DEF I32
  <2>5. db'[i] \in Value
    <3>1. db[i].quantity - order[t].quantity \in I32
      BY <2>1, <2>4, OrderManagementAssumption, HalfAssumption DEF I32
    <3> QED
      BY <2>1, <2>2, <3>1, OrderManagementAssumption
  <2>6. Stock(i)' \in 0 .. Stock(i)
    <3>1. Stock(i) = db[i].quantity /\ Stock(i)' = db'[i].quantity
      BY <2>1, <2>5, PostgresAssumption DEF Stock
    <3> QED
      BY <2>1, <2>3, <2>4, <3>1
  <2>7. \A j \in Item : j # i => db'[j] = db[j]
    BY <2>1, OrderManagementAssumption
  <2> QED
    BY <2>6, <2>7
<1>2. OrderInv /\ [OrderNext]_orderVars => [Shrinks]_orderVars
  <2> SUFFICES ASSUME OrderInv, NEW t \in Call, StepOf(t), ~CommitApplied(t)
               PROVE  Shrinks
    BY <1>1 DEF OrderNext, StepOf
  <2> QED
    BY OnlyCommitChangesTables
<1> QED
  BY <1>2, OrderInvariance, PTL DEF OrderSpec, OrderSafety, NeverOversold
-----------------------------------------------------------------------------
(***************************************************************************)
(* create_order implements the atomic order.                               *)
(***************************************************************************)
LEMMA InitImplements == OrderInit => AO!Init
<1> SUFFICES ASSUME OrderInit
             PROVE  AO!Init
  OBVIOUS
<1> USE DEF OrderInit, Init, PgInit
<1>1. Stocks \in [Item -> I32 \cup {NoRow}]
  BY OrderManagementAssumption DEF Stocks
<1>2. Placed = {}
  BY OrderManagementAssumption DEF Placed, InitialRows
<1>3. Answers = [t \in Call |-> "none"]
  BY DEF Answers
<1> QED
  BY <1>1, <1>2, <1>3 DEF AO!Init

\* A call has an order in the table exactly if it is committed.
LEMMA PlacedIsCommitted ==
  ASSUME OrderInv
  PROVE  \A t \in Call : t \in Placed <=> txn[t] = "committed"
<1>1. \A t \in Call : order[t] # NoOrder => [item |-> order[t].item, quantity |-> order[t].quantity] \in Value
  <2> SUFFICES ASSUME NEW t \in Call, order[t] # NoOrder
               PROVE  [item |-> order[t].item, quantity |-> order[t].quantity] \in Value
    OBVIOUS
  <2>1. order[t] \in Order /\ order[t].quantity \in I32
    BY HalfAssumption DEF OrderInv, OrderTypeOK, Progress, I32
  <2> QED
    BY <2>1, OrderManagementAssumption DEF Order
<1>2. \A t \in Call : txn[t] = "committed" => order[t] # NoOrder
  BY Begun, OrderManagementAssumption
<1> QED
  BY <1>1, <1>2, PostgresAssumption DEF OrderInv, Tables, Placed

\* A step that changes no table and answers nothing changes nothing of the atomic order.
LEMMA Stutters ==
  ASSUME UNCHANGED <<db, order>>,
         \A u \in Call : Answers'[u] = Answers[u]
  PROVE  UNCHANGED AO!vars
<1>1. UNCHANGED <<Stocks, Placed>>
  BY DEF Stocks, Placed
<1>2. UNCHANGED Answers
  BY DEF Answers
<1> QED
  BY <1>1, <1>2 DEF AO!vars

\* A step of t that only answers, with what the atomic order may answer.
LEMMA AnswersAtomically ==
  ASSUME UNCHANGED <<db, order>>, NEW t \in Call, Answers[t] = "none",
         \A u \in Call \ {t} : Answers'[u] = Answers[u],
         \/ Answers'[t] = "ok" /\ t \in Placed
         \/ Answers'[t] = "err" /\ (t \notin Placed \/ LossyCommit)
  PROVE  AO!Next
<1>1. UNCHANGED <<Stocks, Placed>>
  BY DEF Stocks, Placed
<1>2. CASE Answers'[t] = "ok" /\ t \in Placed
  <2>1. Answers' = [Answers EXCEPT ![t] = "ok"]
    BY <1>2 DEF Answers
  <2>2. AO!AnswerOk(t)
    BY <1>1, <1>2, <2>1 DEF AO!AnswerOk
  <2> QED
    BY <2>2 DEF AO!Next
<1>3. CASE Answers'[t] = "err" /\ (t \notin Placed \/ LossyCommit)
  <2>1. Answers' = [Answers EXCEPT ![t] = "err"]
    BY <1>3 DEF Answers
  <2>2. AO!AnswerErr(t)
    BY <1>1, <1>3, <2>1 DEF AO!AnswerErr
  <2> QED
    BY <2>2 DEF AO!Next
<1> QED
  BY <1>2, <1>3

LEMMA CreateOrderImplements ==
  ASSUME OrderInv, NEW t \in Call, NEW i \in Item, NEW q \in Requests, CreateOrder(t, i, q)
  PROVE  AO!Next
<1> USE DEF OrderInv, OrderTypeOK, TypeOK
<1>1. UNCHANGED db /\ order' = [order EXCEPT ![t] = [item |-> i, quantity |-> AsU32(q)]]
  BY DEF CreateOrder, Transaction, pgVars
<1>2. UNCHANGED <<Stocks, Placed>>
  BY <1>1 DEF Stocks, Placed
<1>3. order[t] = NoOrder /\ phase[t] = "idle" /\ step[t] = "new"
  BY DEF CreateOrder, Transaction
<1>4. Answers[t] = "none"
  BY <1>3 DEF Answers
<1>5. UNCHANGED Answers
  BY <1>3 DEF CreateOrder, Transaction, GoTo, Step, Answers
<1>6. AsU32(q) = q /\ q \in I32 /\ q > 0
  BY OrderManagementAssumption, HalfAssumption
     DEF CreateOrder, OrderQuantityRejects, AsU32, I32
<1>7. AO!Accept(t)
  BY <1>1, <1>2, <1>3, <1>4, <1>5, <1>6 DEF AO!Accept, AO!Order
<1> QED
  BY <1>7 DEF AO!Next

LEMMA CommitImplements ==
  ASSUME OrderInv, NEW t \in Call, CommitApplied(t), UNCHANGED localVars
  PROVE  AO!Next
<1> DEFINE i == order[t].item
           q == order[t].quantity
<1>1. /\ i \in Item /\ order[t] \in Order /\ q \in 1 .. Half - 1
      /\ txn[t] \in {"open", "committing"}
      /\ db[i] \in Value /\ db[i].quantity - q >= 0
      /\ \A r \in Row \ {i, t} : db'[r] = db[r]
  BY CommitPlaces
<1>2. /\ db'[i] = [item |-> i, quantity |-> db[i].quantity - q]
      /\ db'[t] = [item |-> i, quantity |-> q]
  BY CommitPlaces
<1>3. db[i].quantity \in I32 /\ db[i].quantity - q \in I32 /\ q \in I32
  BY <1>1, OrderManagementAssumption, HalfAssumption DEF I32
<1>4. db[i] # NoRow /\ db'[i] # NoRow /\ db'[t] # NoRow
      /\ db'[i].quantity = db[i].quantity - q
  BY <1>1, <1>2, <1>3, OrderManagementAssumption, PostgresAssumption
<1>5. Stocks[i] = db[i].quantity /\ Stocks[i] # NoRow /\ Stocks[i] >= q
  BY <1>1, <1>3, <1>4, OrderManagementAssumption, HalfAssumption DEF Stocks, I32
<1>6. Stocks' = [Stocks EXCEPT ![i] = @ - q]
  BY <1>1, <1>4, <1>5, OrderManagementAssumption DEF Stocks
<1>7. Placed' = Placed \cup {t}
  BY <1>1, <1>4, OrderManagementAssumption DEF Placed
<1>8. UNCHANGED <<order, Answers>>
  BY DEF CommitApplied, localVars, Answers
<1>9. t \notin Placed
  BY <1>1, PlacedIsCommitted
<1>10. Answers[t] = "none" \/ (LossyCommit /\ Answers[t] = "err")
  <2>1. phase[t] # "ok" /\ step[t] # "rejected"
    BY <1>1 DEF OrderInv, Outcome, Progress, CommitApplied
  <2>2. phase[t] = "err" => LossyCommit
    BY <1>1 DEF OrderInv, Outcome, CommitApplied
  <2> QED
    BY <2>1, <2>2 DEF Answers
<1>11. order[t] # NoOrder
  BY <1>1, OrderManagementAssumption
<1>12. AO!Place(t)
  BY <1>5, <1>6, <1>7, <1>8, <1>9, <1>10, <1>11 DEF AO!Place
<1> QED
  BY <1>12 DEF AO!Next

LEMMA ManagerImplements ==
  ASSUME OrderInv, NEW t \in Call, Manager(t)
  PROVE  [AO!Next]_(AO!vars)
<1> USE DEF OrderInv, OrderTypeOK, TypeOK
<1>1. UNCHANGED localVars /\ UNCHANGED order
  BY DEF Manager, localVars
<1>2. CASE CommitApplied(t)
  BY <1>1, <1>2, CommitImplements
<1>3. CASE ~CommitApplied(t)
  <2>1. UNCHANGED db
    BY <1>3, OnlyCommitChangesTables DEF StepOf
  <2>2. \A u \in Call \ {t} : Answers'[u] = Answers[u]
    <3>1. \A u \in Call \ {t} : phase'[u] = phase[u]
      BY DEF Manager, Begin, BeginErr, TryUnwrap, CommitApplied, CommitOk, CommitErr, Rollback,
             Cancel, RollbackDropped, ConnectionLost, SessionEnds, GoTo
    <3> QED
      BY <1>1, <3>1 DEF Answers, localVars
  <2>3. CASE phase'[t] = phase[t] \/ {phase[t], phase'[t]} \cap {"ok", "err"} = {}
    <3>1. Answers'[t] = Answers[t]
      BY <1>1, <2>3 DEF Answers, localVars
    <3> QED
      BY <1>1, <2>1, <2>2, <3>1, Stutters
  <2>4. CASE \/ BeginErr(t) \/ CommitErr(t) \/ Rollback(t)
             \/ TryUnwrap(t) /\ phase'[t] = "err"
    <3>1. phase'[t] = "err" /\ phase[t] \in {"begin", "unwrapOk", "unwrapErr", "commit", "rollback"}
      BY <2>4 DEF BeginErr, TryUnwrap, CommitErr, Rollback, GoTo
    <3>2. Answers[t] = "none" /\ Answers'[t] = "err"
      BY <1>1, <3>1 DEF Answers, localVars, Progress
    <3>3. txn[t] # "committed" \/ LossyCommit
      BY <2>4 DEF BeginErr, TryUnwrap, CommitErr, Rollback, Outcome, Broken
    <3> QED
      BY <1>1, <2>1, <2>2, <3>2, <3>3, PlacedIsCommitted, AnswersAtomically
  <2>5. CASE CommitOk(t)
    <3>1. phase[t] = "commit" /\ phase'[t] = "ok"
      BY <2>5 DEF CommitOk, GoTo
    <3>2. Answers[t] = "none" /\ Answers'[t] = "ok"
      BY <1>1, <3>1 DEF Answers, localVars, Progress
    <3>3. txn[t] = "committed"
      BY <2>5 DEF CommitOk, Outcome, Progress
    <3> QED
      BY <1>1, <2>1, <2>2, <3>2, <3>3, PlacedIsCommitted, AnswersAtomically
  <2>6. CASE \/ Begin(t) \/ Cancel(t) \/ RollbackDropped(t) \/ ConnectionLost(t) \/ SessionEnds(t)
             \/ TryUnwrap(t) /\ phase'[t] # "err"
    <3>1. phase'[t] = phase[t] \/ {phase[t], phase'[t]} \cap {"ok", "err"} = {}
      BY <2>6 DEF Begin, Cancel, TryUnwrap, RollbackDropped, ConnectionLost, SessionEnds, GoTo
    <3> QED
      BY <2>3, <3>1
  <2> QED
    BY <1>3, <2>4, <2>5, <2>6 DEF Manager
<1> QED
  BY <1>2, <1>3

LEMMA StepImplements ==
  ASSUME OrderInv, NEW t \in Call, StepOf(t)
  PROVE  [AO!Next]_(AO!vars)
<1> USE DEF OrderInv, OrderTypeOK, TypeOK
<1>1. ASSUME NEW q \in Requests, RejectOrder(t, q) PROVE AO!Next
  <2>1. phase[t] = "idle" /\ UNCHANGED <<db, phase, order>>
    BY <1>1 DEF RejectOrder, Progress, vars
  <2>2. t \notin Placed
    BY <2>1, PlacedIsCommitted DEF Outcome
  <2>3. Answers[t] = "none" /\ Answers'[t] = "err"
    BY <1>1, <2>1 DEF RejectOrder, Step, Answers
  <2>4. \A u \in Call \ {t} : Answers'[u] = Answers[u]
    BY <1>1, <2>1 DEF RejectOrder, Step, Answers
  <2> QED
    BY <2>1, <2>2, <2>3, <2>4, AnswersAtomically
<1>2. CASE \/ LockForStatement(t) \/ FindInventory(t) \/ UpdateInventory(t) \/ InsertOrder(t)
           \/ StatementFails(t) \/ OrderReturns(t)
  <2>1. UNCHANGED <<db, order>>
    <3>1. ~CommitApplied(t)
      <4>1. CASE phase[t] = "closure" /\ txn[t] # "committing"
        BY <4>1 DEF CommitApplied
      <4>2. phase[t] = "closure"
        BY <1>2, TransactionManagerAssumption
           DEF LockForStatement, FindInventory, UpdateInventory, InsertOrder, StatementFails,
               OrderReturns, LockContext, FindForUpdate, Update, Create, StatementErr, Answer,
               ClosureReturns, Ownership
      <4> QED
        BY <4>1, <4>2 DEF Outcome, Broken
    <3>2. UNCHANGED db
      BY <1>2, <3>1, OnlyCommitChangesTables DEF StepOf
    <3> QED
      BY <1>2, <3>2 DEF LockForStatement, FindInventory, UpdateInventory, InsertOrder,
                        StatementFails, OrderReturns, localVars
  <2>2. \A u \in Call : Answers'[u] = Answers[u]
    <3>1. phase[t] \notin {"ok", "err", "idle"} /\ phase'[t] \notin {"ok", "err"}
      BY <1>2, TransactionManagerAssumption
         DEF LockForStatement, FindInventory, UpdateInventory, InsertOrder, StatementFails,
             OrderReturns, LockContext, FindForUpdate, Update, Create, StatementErr, Answer,
             ClosureReturns, GoTo, Ownership
    <3>2. step[t] # "rejected" /\ step'[t] # "rejected"
      BY <1>2, <3>1
         DEF LockForStatement, FindInventory, UpdateInventory, InsertOrder, StatementFails,
             OrderReturns, Step, localVars, Progress
    <3>3. \A u \in Call \ {t} : phase'[u] = phase[u] /\ step'[u] = step[u]
      BY <1>2
         DEF LockForStatement, FindInventory, UpdateInventory, InsertOrder, StatementFails,
             OrderReturns, LockContext, FindForUpdate, Update, Create, StatementErr, Answer,
             ClosureReturns, GoTo, Step, localVars
    <3> QED
      BY <3>1, <3>2, <3>3 DEF Answers
  <2> QED
    BY <2>1, <2>2, Stutters
<1> QED
  BY <1>1, <1>2, CreateOrderImplements, ManagerImplements DEF StepOf

\* create_order implements the atomic order.
THEOREM ImplementsAtomically == OrderSafety => ImplementsAtomicOrders
<1>1. OrderInv /\ [OrderNext]_orderVars => [AO!Next]_(AO!vars)
  <2>1. ASSUME UNCHANGED orderVars PROVE UNCHANGED AO!vars
    BY <2>1 DEF orderVars, vars, localVars, AO!vars, Stocks, Placed, Answers
  <2> QED
    BY <2>1, StepImplements DEF OrderNext, StepOf
<1> QED
  BY <1>1, InitImplements, OrderInvariance, PTL
     DEF OrderSafety, ImplementsAtomicOrders, AO!Spec
=============================================================================
