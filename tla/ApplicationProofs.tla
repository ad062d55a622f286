-------------------------- MODULE ApplicationProofs -------------------------
(***************************************************************************)
(* Processes that place orders, for any number of them: whatever is killed *)
(* where, they are a use of create_order, so what is proved of its steps   *)
(* holds of them, and their exit status is true.                           *)
(***************************************************************************)
EXTENDS Application, OrderTablesProofs

USE DEF pgVars, ctxVars

LEMMA AppStepIsOrderStep == [AppNext]_appVars => [OrderNext]_orderVars
<1> SUFFICES ASSUME [AppNext]_appVars
             PROVE  [OrderNext]_orderVars
  OBVIOUS
<1>1. CASE UNCHANGED appVars
  BY <1>1 DEF appVars
<1>2. ASSUME NEW t \in Call, Connect(t) \/ Exit(t) \/ Kill(t) PROVE UNCHANGED orderVars
  BY <1>2 DEF Connect, Exit, Kill
<1>3. ASSUME NEW t \in Call, PlaceOrder(t) \/ RejectDemo(t) PROVE OrderNext
  BY <1>3 DEF PlaceOrder, RejectDemo, OrderNext
<1>4. ASSUME NEW t \in Call, Runs(t) \/ Server(t) PROVE OrderNext
  BY <1>4 DEF Runs, Server, Manager, OrderNext
<1>5. QED
  BY <1>1, <1>2, <1>3, <1>4 DEF AppNext

(***************************************************************************)
(* What a process may say when it exits is what its call has come to.      *)
(***************************************************************************)
ExitFits ==
  /\ exit \in [Call -> {"starting", "running"} \cup Dead]
  /\ \A t \in Call : /\ exit[t] = "starting" => phase[t] = "idle"
                     /\ exit[t] = "success" => phase[t] = "ok"
                     /\ exit[t] = "failure" => phase[t] \in {"idle", "err"}

\* The steps of a running process are of its own call only, and do not end it.
LEMMA RunningStep ==
  ASSUME TypeOK, ExitFits, NEW t \in Call, PlaceOrder(t) \/ RejectDemo(t) \/ Runs(t)
  PROVE  ExitFits'
<1>1. exit' = exit /\ exit[t] = "running"
  BY DEF PlaceOrder, RejectDemo, Runs
<1>2. \A u \in Call \ {t} : phase'[u] = phase[u]
  <2> USE DEF TypeOK, GoTo
  <2>1. CASE PlaceOrder(t)
    BY <2>1 DEF PlaceOrder, CreateOrder, Transaction
  <2>2. CASE RejectDemo(t)
    BY <2>2 DEF RejectDemo, RejectOrder, vars
  <2>3. CASE LockForStatement(t) \/ OrderReturns(t)
    BY <2>3 DEF LockForStatement, LockContext, OrderReturns, ClosureReturns
  <2>4. CASE FindInventory(t) \/ UpdateInventory(t) \/ InsertOrder(t) \/ StatementFails(t)
    BY <2>4 DEF FindInventory, UpdateInventory, InsertOrder, StatementFails, FindForUpdate,
                Update, Create, StatementErr, Answer
  <2>5. CASE Begin(t) \/ BeginErr(t) \/ TryUnwrap(t)
    BY <2>5 DEF Begin, BeginErr, TryUnwrap
  <2>6. CASE CommitOk(t) \/ CommitErr(t) \/ Rollback(t)
    BY <2>6 DEF CommitOk, CommitErr, Rollback
  <2>7. QED
    BY <2>1, <2>2, <2>3, <2>4, <2>5, <2>6 DEF Runs
<1>3. QED
  BY <1>1, <1>2 DEF ExitFits

LEMMA ExitFitsStep == OrderInv /\ ExitFits /\ [AppNext]_appVars => ExitFits'
<1> SUFFICES ASSUME OrderInv, ExitFits, [AppNext]_appVars
             PROVE  ExitFits'
  OBVIOUS
<1>0. TypeOK
  BY DEF OrderInv, OrderTypeOK
<1>1. CASE UNCHANGED appVars
  BY <1>1 DEF appVars, orderVars, vars, ExitFits
<1>2. ASSUME NEW t \in Call, Connect(t) PROVE ExitFits'
  BY <1>2 DEF Connect, Becomes, orderVars, vars, ExitFits, Dead
<1>3. ASSUME NEW t \in Call, Exit(t) PROVE ExitFits'
  <2>1. step[t] = "rejected" => phase[t] = "idle"
    BY DEF OrderInv, Progress
  <2>2. QED
    BY <1>3, <2>1 DEF Exit, Becomes, orderVars, vars, ExitFits, Dead
<1>4. ASSUME NEW t \in Call, Kill(t) PROVE ExitFits'
  BY <1>4 DEF Kill, Becomes, orderVars, vars, ExitFits, Dead
<1>5. ASSUME NEW t \in Call, PlaceOrder(t) \/ RejectDemo(t) \/ Runs(t) PROVE ExitFits'
  BY <1>0, <1>5, RunningStep
<1>6. ASSUME NEW t \in Call, Server(t) PROVE ExitFits'
  <2>1. UNCHANGED <<phase, exit>>
    BY <1>6 DEF Server, CommitApplied, SessionEnds, ConnectionLost
  <2>2. QED
    BY <2>1 DEF ExitFits
<1>7. QED
  BY <1>1, <1>2, <1>3, <1>4, <1>5, <1>6 DEF AppNext

AppInv == OrderInv /\ ExitFits

LEMMA AppInvariance == AppSafety => []AppInv
<1>1. AppInit => AppInv
  <2> SUFFICES ASSUME AppInit PROVE ExitFits
    BY OrderInitInv DEF AppInit, AppInv
  <2>1. QED
    BY DEF AppInit, OrderInit, Init, ExitFits
<1>2. AppInv /\ [AppNext]_appVars => AppInv'
  BY AppStepIsOrderStep, OrderInvStep, ExitFitsStep DEF AppInv
<1>3. QED
  BY <1>1, <1>2, PTL DEF AppSafety

(***************************************************************************)
(* Theorems.                                                               *)
(***************************************************************************)
\* Every variable keeps its type, and a process that has not connected has done nothing.
THEOREM AppTypeCorrect == AppSpec => []AppTypeOK
<1>1. AppInv => AppTypeOK
  BY DEF AppInv, OrderInv, ExitFits, AppTypeOK
<1>2. QED
  BY <1>1, AppInvariance, PTL DEF AppSpec

\* Processes that are killed anywhere take only steps of create_order: its safety
\* properties hold of their tables.
THEOREM ProcessesPlaceOrders == AppSpec => OrderSafety
<1>1. AppInit => OrderInit
  BY DEF AppInit
<1>2. QED
  BY <1>1, AppStepIsOrderStep, PTL DEF AppSpec, AppSafety, OrderSafety

\* Wherever processes are killed, each order is in the tables with its stock or not at all,
\* and none that goes on waits for one that waits.
THEOREM KilledLeaveNoHalves ==
  AppSpec => ImplementsAtomicOrders /\ StockConserved /\ []WaitsEmptyHanded
  BY ProcessesPlaceOrders, ImplementsAtomically, StockIsConserved, WaitingHoldsNothing, PTL

\* The exit status is true of the tables, if no connection breaks between COMMIT and its
\* answer.
THEOREM ExitStatusTells ==
  ASSUME ~LossyCommit
  PROVE  AppSpec => []ExitTells
<1>1. AppInv => ExitTells
  <2> SUFFICES ASSUME AppInv, NEW t \in Call
               PROVE  /\ exit[t] = "success" => db[t] # NoRow
                      /\ exit[t] = "failure" => db[t] = NoRow
    BY DEF ExitTells
  <2>1. CASE exit[t] = "success"
    <3>1. phase[t] = "ok"
      BY <2>1 DEF AppInv, ExitFits
    <3>2. txn[t] = "committed" /\ step[t] = "done"
      BY <3>1 DEF AppInv, OrderInv, Outcome, Progress
    <3>3. order[t] \in Order /\ order[t].quantity \in 1 .. Half - 1
      BY <3>2 DEF AppInv, OrderInv, OrderTypeOK, Progress
    <3>4. db[t] = [item |-> order[t].item, quantity |-> order[t].quantity]
      BY <3>2 DEF AppInv, OrderInv, Tables
    <3>5. order[t].item \in Item /\ order[t].quantity \in I32
      BY <3>3, HalfAssumption DEF Order, I32
    <3>6. db[t] \in Value
      BY <3>4, <3>5, OrderManagementAssumption
    <3>7. QED
      BY <2>1, <3>6, PostgresAssumption
  <2>2. CASE exit[t] = "failure"
    <3>1. phase[t] \in {"idle", "err"}
      BY <2>2 DEF AppInv, ExitFits
    <3>2. txn[t] # "committed"
      BY <3>1 DEF AppInv, OrderInv, Outcome, Progress
    <3>3. QED
      BY <2>2, <3>2 DEF AppInv, OrderInv, Tables
  <2>3. QED
    BY <2>1, <2>2
<1>2. QED
  BY <1>1, AppInvariance, PTL DEF AppSpec
=============================================================================
