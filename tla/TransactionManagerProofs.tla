---------------------- MODULE TransactionManagerProofs ----------------------
(***************************************************************************)
(* Proofs about TransactionManager: type correctness, and from one         *)
(* inductive invariant the ownership of contexts and the meaning of the    *)
(* answers, for any number of calls, helpers, rows and connections.        *)
(***************************************************************************)
EXTENDS TransactionManager, TLAPS

USE DEF pgVars, ctxVars

(***************************************************************************)
(* The steps of a database transaction preserve the types of its state.    *)
(***************************************************************************)
\* Undoing, moving, beginning and applying a transaction.
LEMMA PgEndTypes ==
  ASSUME PgTypeOK, NEW t \in Call, NEW state \in TxnState,
         PgUndo(t, state) \/ PgMove(t, state) \/ PgBegin(t) \/ PgApply(t)
  PROVE  PgTypeOK'
<1>1. CASE PgUndo(t, state)
  BY <1>1 DEF PgTypeOK, PgUndo, Released
<1>2. CASE PgMove(t, state)
  BY <1>2 DEF PgTypeOK, PgMove
<1>3. CASE PgBegin(t)
  BY <1>3 DEF PgTypeOK, PgBegin, TxnState
<1>4. CASE PgApply(t)
  <2>1. \A r \in Row : Visible(t, r) \in Value \cup {NoRow}
    BY DEF PgTypeOK, Visible
  <2> QED
    BY <1>4, <2>1 DEF PgTypeOK, PgApply, Released, TxnState
<1> QED
  BY <1>1, <1>2, <1>3, <1>4

\* The statements.
LEMMA PgStatementTypes ==
  ASSUME PgTypeOK, NEW t \in Call, NEW r \in Row, NEW v \in Value,
         PgSelectForUpdate(t, r) \/ PgInsert(t, r, v) \/ PgUpdate(t, r, v)
  PROVE  PgTypeOK'
<1>1. CASE PgSelectForUpdate(t, r)
  BY <1>1 DEF PgTypeOK, PgSelectForUpdate
<1>2. CASE PgInsert(t, r, v)
  BY <1>2 DEF PgTypeOK, PgInsert
<1>3. CASE PgUpdate(t, r, v)
  <2>1. /\ UNCHANGED <<db, txn>>
        /\ lock' \in {lock, [lock EXCEPT ![r] = t]}
        /\ ws' \in {ws, [ws EXCEPT ![t][r] = v]}
    BY <1>3 DEF PgUpdate
  <2>2. lock' \in [Row -> Call \cup {Nobody}]
    BY <2>1 DEF PgTypeOK
  <2>3. ws' \in [Call -> [Row -> Value \cup {Unwritten}]]
    <3>1. [ws[t] EXCEPT ![r] = v] \in [Row -> Value \cup {Unwritten}]
      BY DEF PgTypeOK
    <3>2. ws' \in {ws, [ws EXCEPT ![t] = [ws[t] EXCEPT ![r] = v]]}
      BY <2>1
    <3> QED
      BY <3>1, <3>2 DEF PgTypeOK
  <2> QED
    BY <2>1, <2>2, <2>3 DEF PgTypeOK
<1> QED
  BY <1>1, <1>2, <1>3

\* SELECT FOR UPDATE writes nothing, so its types do not depend on a value.
LEMMA PgLockTypes ==
  ASSUME PgTypeOK, NEW t \in Call, NEW r \in Row, PgSelectForUpdate(t, r)
  PROVE  PgTypeOK'
  BY DEF PgTypeOK, PgSelectForUpdate

LEMMA PgFailTypes ==
  ASSUME PgTypeOK, NEW t \in Call, PgFail(t)
  PROVE  PgTypeOK'
<1>1. "failed" \in TxnState
  BY DEF TxnState
<1>2. CASE PgUndo(t, "failed")
  BY <1>1, <1>2, PgEndTypes
<1>3. CASE UNCHANGED pgVars
  BY <1>3 DEF PgTypeOK
<1> QED
  BY <1>2, <1>3 DEF PgFail
-----------------------------------------------------------------------------
(***************************************************************************)
(* Type correctness.                                                       *)
(***************************************************************************)
LEMMA TypeStep == TypeOK /\ [Next]_vars => TypeOK'
<1> SUFFICES ASSUME TypeOK, [Next]_vars
             PROVE  TypeOK'
  OBVIOUS
<1> USE DEF TypeOK, Phase, Answered, Owner, Task
<1>1. CASE UNCHANGED vars
  BY <1>1 DEF vars, PgTypeOK
<1>2. ASSUME NEW t \in Call, Transaction(t) PROVE TypeOK'
  BY <1>2 DEF Transaction, GoTo, PgTypeOK
<1>3. ASSUME NEW t \in Call, Begin(t) PROVE TypeOK'
  BY <1>3, PgEndTypes DEF Begin, GoTo, TxnState
<1>4. ASSUME NEW t \in Call, BeginErr(t) PROVE TypeOK'
  BY <1>4 DEF BeginErr, GoTo, PgTypeOK
<1>5. ASSUME NEW t \in Call, NEW h \in Task, Statement(t, h) PROVE TypeOK'
  <2>1. CASE LockContext(t, h)
    BY <2>1 DEF LockContext, PgTypeOK
  <2>2. CASE Find(t, h)
    BY <2>2 DEF Find, PgSelect, Answer, PgTypeOK
  <2>3. ASSUME NEW r \in Row, FindForUpdate(t, h, r) PROVE TypeOK'
    BY <2>3, PgLockTypes DEF FindForUpdate, Answer
  <2>4. ASSUME NEW r \in Row, NEW v \in Value, Create(t, h, r, v) PROVE TypeOK'
    BY <2>4, PgStatementTypes DEF Create, Answer
  <2>5. ASSUME NEW r \in Row, NEW v \in Value, Update(t, h, r, v) PROVE TypeOK'
    BY <2>5, PgStatementTypes DEF Update, Answer
  <2>6. CASE StatementErr(t, h)
    BY <2>6, PgFailTypes DEF StatementErr, Answer
  <2> QED
    BY <1>5, <2>1, <2>2, <2>3, <2>4, <2>5, <2>6 DEF Statement
<1>6. ASSUME NEW t \in Call, NEW h \in Task, NEW k \in Helper, ShareContext(t, h, k)
      PROVE TypeOK'
  BY <1>6 DEF ShareContext, PgTypeOK
<1>7. ASSUME NEW t \in Call, NEW k \in Helper, DropContext(t, k) PROVE TypeOK'
  BY <1>7 DEF DropContext, Unlocked, PgTypeOK
<1>8. ASSUME NEW t \in Call, NEW result \in {"ok", "err"}, ClosureReturns(t, result)
      PROVE TypeOK'
  BY <1>8 DEF ClosureReturns, GoTo, PgTypeOK
<1>9. ASSUME NEW t \in Call, TryUnwrap(t) PROVE TypeOK'
  BY <1>9 DEF TryUnwrap, GoTo, PgTypeOK
<1>10. ASSUME NEW t \in Call, CommitApplied(t) PROVE TypeOK'
  BY <1>10, PgEndTypes DEF CommitApplied, TxnState
<1>11. ASSUME NEW t \in Call, CommitOk(t) PROVE TypeOK'
  <2>1. PgTypeOK'
    BY <1>11, PgEndTypes DEF CommitOk, TxnState, PgTypeOK
  <2> QED
    BY <1>11, <2>1 DEF CommitOk, GoTo
<1>12. ASSUME NEW t \in Call, CommitErr(t) PROVE TypeOK'
  <2>1. PgTypeOK'
    BY <1>12, PgEndTypes DEF CommitErr, TxnState, PgTypeOK
  <2> QED
    BY <1>12, <2>1 DEF CommitErr, GoTo
<1>13. ASSUME NEW t \in Call, Rollback(t) PROVE TypeOK'
  <2>1. PgTypeOK'
    BY <1>13, PgEndTypes DEF Rollback, TxnState, PgTypeOK
  <2> QED
    BY <1>13, <2>1 DEF Rollback, GoTo
<1>14. ASSUME NEW t \in Call, Cancel(t) PROVE TypeOK'
  <2>1. PgTypeOK'
    BY <1>14, PgEndTypes DEF Cancel, TxnState, PgTypeOK
  <2> QED
    BY <1>14, <2>1 DEF Cancel, GoTo, Unlocked
<1>15. ASSUME NEW t \in Call, RollbackDropped(t) \/ ConnectionLost(t) \/ SessionEnds(t)
       PROVE TypeOK'
  BY <1>15, PgEndTypes DEF RollbackDropped, ConnectionLost, SessionEnds, TxnState
<1> QED
  BY <1>1, <1>2, <1>3, <1>4, <1>5, <1>6, <1>7, <1>8, <1>9, <1>10, <1>11, <1>12, <1>13,
     <1>14, <1>15 DEF Next

\* Every variable keeps its type.
THEOREM TypeCorrect == Spec => []TypeOK
<1>1. Init => TypeOK
  BY DEF Init, PgInit, TypeOK, PgTypeOK, Phase, TxnState
<1> QED
  BY <1>1, TypeStep, PTL DEF Spec, Safety
-----------------------------------------------------------------------------
(***************************************************************************)
(* The inductive invariant.                                                *)
(***************************************************************************)
\* Who holds a clone of the Arc is a matter of where the call is, helpers apart; whoever
\* has the Mutex locked holds a clone.
Ownership ==
  \A t \in Call :
    /\ "closure" \in arc[t] <=> phase[t] = "closure"
    /\ "manager" \in arc[t] <=> phase[t] \in {"closure", "unwrapOk", "unwrapErr"}
    /\ phase[t] \in {"idle", "begin", "commit", "rollback", "ok"} => arc[t] = {}
    /\ guard[t] # Nobody => guard[t] \in arc[t]

\* Where a transaction can be while its call is where it is.
Outcome ==
  \A t \in Call :
    /\ phase[t] \in {"idle", "begin"} => txn[t] = "none"
    /\ phase[t] \in {"closure", "unwrapOk", "unwrapErr", "rollback"} =>
         txn[t] \in {"open", "failed"} \cup Broken
    /\ phase[t] = "commit" => txn[t] \in {"open", "failed", "committed"} \cup Broken
    /\ phase[t] \in {"closure", "unwrapOk", "commit"} /\ txn[t] = "failed" => t \in erred
    /\ phase[t] = "ok" => txn[t] = "committed" \/ (txn[t] = "aborted" /\ t \in erred)
    /\ phase[t] = "err" /\ ~LossyCommit => txn[t] \notin {"committed", "committing"}

IInv == TypeOK /\ Ownership /\ Outcome

LEMMA OwnershipStep == TypeOK /\ Ownership /\ [Next]_vars => Ownership'
<1> SUFFICES ASSUME TypeOK, Ownership, [Next]_vars
             PROVE  Ownership'
  OBVIOUS
<1> USE TransactionManagerAssumption DEF TypeOK, Ownership, Phase, Answered, Owner, Task
<1>1. CASE UNCHANGED <<phase, arc, guard>>
  BY <1>1
<1>2. ASSUME NEW t \in Call, Transaction(t) \/ BeginErr(t) PROVE Ownership'
  BY <1>2 DEF Transaction, BeginErr, GoTo
<1>3. ASSUME NEW t \in Call, Begin(t) PROVE Ownership'
  BY <1>3 DEF Begin, GoTo
<1>4. ASSUME NEW t \in Call, NEW h \in Task, Statement(t, h) PROVE Ownership'
  <2>1. CASE LockContext(t, h)
    BY <2>1 DEF LockContext
  <2>2. CASE Answer(t, h)
    BY <2>2 DEF Answer
  <2> QED
    BY <1>4, <2>1, <2>2 DEF Statement, Find, FindForUpdate, Create, Update, StatementErr
<1>5. ASSUME NEW t \in Call, NEW h \in Task, NEW k \in Helper, ShareContext(t, h, k)
      PROVE Ownership'
  BY <1>5 DEF ShareContext
<1>6. ASSUME NEW t \in Call, NEW k \in Helper, DropContext(t, k) PROVE Ownership'
  BY <1>6 DEF DropContext, Unlocked
<1>7. ASSUME NEW t \in Call, NEW result \in {"ok", "err"}, ClosureReturns(t, result)
      PROVE Ownership'
  BY <1>7 DEF ClosureReturns, GoTo
<1>8. ASSUME NEW t \in Call, TryUnwrap(t) PROVE Ownership'
  BY <1>8 DEF TryUnwrap, GoTo
<1>9. ASSUME NEW t \in Call, CommitOk(t) \/ CommitErr(t) \/ Rollback(t) PROVE Ownership'
  BY <1>9 DEF CommitOk, CommitErr, Rollback, GoTo
<1>10. ASSUME NEW t \in Call, Cancel(t) PROVE Ownership'
  BY <1>10 DEF Cancel, GoTo, Unlocked
<1>11. ASSUME NEW t \in Call,
              \/ CommitApplied(t) \/ RollbackDropped(t)
              \/ ConnectionLost(t) \/ SessionEnds(t)
       PROVE Ownership'
  BY <1>1, <1>11 DEF CommitApplied, RollbackDropped, ConnectionLost, SessionEnds
<1> QED
  BY <1>1, <1>2, <1>3, <1>4, <1>5, <1>6, <1>7, <1>8, <1>9, <1>10, <1>11 DEF Next, vars

LEMMA OutcomeStep == TypeOK /\ Ownership /\ Outcome /\ [Next]_vars => Outcome'
<1> SUFFICES ASSUME TypeOK, Ownership, Outcome, [Next]_vars
             PROVE  Outcome'
  OBVIOUS
<1> USE DEF TypeOK, PgTypeOK, TxnState, Broken, Outcome, Phase, Answered
<1>1. CASE UNCHANGED <<txn, phase, erred>>
  BY <1>1
<1>2. ASSUME NEW t \in Call, Transaction(t) \/ BeginErr(t) PROVE Outcome'
  BY <1>2 DEF Transaction, BeginErr, GoTo
<1>3. ASSUME NEW t \in Call, Begin(t) PROVE Outcome'
  BY <1>3 DEF Begin, PgBegin, GoTo
<1>4. ASSUME NEW t \in Call, NEW h \in Task, Statement(t, h) PROVE Outcome'
  <2>1. CASE UNCHANGED <<txn, phase, erred>>
    BY <2>1, <1>1
  <2>2. CASE StatementErr(t, h)
    BY <2>2 DEF StatementErr, PgFail, PgUndo, Answer
  <2> QED
    BY <1>4, <2>1, <2>2 DEF Statement, LockContext, Find, FindForUpdate, Create, Update, Answer,
       PgSelect, PgSelectForUpdate, PgInsert, PgUpdate
<1>5. ASSUME NEW t \in Call, NEW h \in Task, NEW k \in Helper,
             ShareContext(t, h, k)
      PROVE Outcome'
  BY <1>1, <1>5 DEF ShareContext
<1>6. ASSUME NEW t \in Call, NEW k \in Helper, DropContext(t, k) PROVE Outcome'
  BY <1>1, <1>6 DEF DropContext
<1>7. ASSUME NEW t \in Call, NEW result \in {"ok", "err"}, ClosureReturns(t, result)
      PROVE Outcome'
  BY <1>7 DEF ClosureReturns, GoTo
<1>8. ASSUME NEW t \in Call, TryUnwrap(t) PROVE Outcome'
  BY <1>8 DEF TryUnwrap, GoTo
<1>9. ASSUME NEW t \in Call, CommitApplied(t) PROVE Outcome'
  BY <1>9 DEF CommitApplied, PgApply
<1>10. ASSUME NEW t \in Call, CommitOk(t) PROVE Outcome'
  BY <1>10 DEF CommitOk, PgUndo, GoTo
<1>11. ASSUME NEW t \in Call, CommitErr(t) PROVE Outcome'
  BY <1>11 DEF CommitErr, PgUndo, PgMove, GoTo
<1>12. ASSUME NEW t \in Call, Rollback(t) PROVE Outcome'
  BY <1>12 DEF Rollback, PgUndo, GoTo
<1>13. ASSUME NEW t \in Call, Cancel(t) PROVE Outcome'
  BY <1>13 DEF Cancel, PgMove, GoTo
<1>14. ASSUME NEW t \in Call, RollbackDropped(t) PROVE Outcome'
  BY <1>14 DEF RollbackDropped, Dropped, Held, PgUndo
<1>15. ASSUME NEW t \in Call, ConnectionLost(t) \/ SessionEnds(t) PROVE Outcome'
  BY <1>15 DEF ConnectionLost, SessionEnds, PgMove, PgUndo
<1> QED
  BY <1>1, <1>2, <1>3, <1>4, <1>5, <1>6, <1>7, <1>8, <1>9, <1>10, <1>11, <1>12, <1>13,
     <1>14, <1>15 DEF Next, vars

\* The invariant holds of every behaviour, fair or not.
THEOREM Invariance == Safety => []IInv
<1>1. Init => IInv
  BY DEF Init, PgInit, IInv, TypeOK, PgTypeOK, Phase, TxnState, Ownership, Outcome
<1>2. IInv /\ [Next]_vars => IInv'
  BY TypeStep, OwnershipStep, OutcomeStep DEF IInv
<1> QED
  BY <1>1, <1>2, PTL DEF Safety
-----------------------------------------------------------------------------
(***************************************************************************)
(* What follows from it.                                                   *)
(***************************************************************************)
\* The context is never shared or locked while COMMIT or ROLLBACK runs, nor after Ok.
THEOREM ContextIsReclaimed == Spec => []SoleOwner
<1>1. IInv => SoleOwner
  BY DEF IInv, TypeOK, Ownership, SoleOwner
<1> QED
  BY <1>1, Invariance, PTL DEF Spec

\* Ok means committed for a closure that swallows no statement's error.
THEOREM OkIsCommitted == Spec => []OkMeansCommitted
<1>1. IInv => OkMeansCommitted
  BY DEF IInv, Outcome, OkMeansCommitted
<1> QED
  BY <1>1, Invariance, PTL DEF Spec

\* Err means rolled back, if no connection breaks between COMMIT and its answer.
THEOREM ErrIsRolledBack ==
  ASSUME ~LossyCommit
  PROVE  Spec => []ErrMeansRolledBack
<1>1. IInv => ErrMeansRolledBack
  BY DEF IInv, Outcome, ErrMeansRolledBack
<1> QED
  BY <1>1, Invariance, PTL DEF Spec
=============================================================================
