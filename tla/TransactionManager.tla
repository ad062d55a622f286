------------------------- MODULE TransactionManager -------------------------
(***************************************************************************)
(* TransactionManager::transaction(), as the sqlx and the SeaORM adapter   *)
(* implement it: a pooled connection, a database transaction owned by a    *)
(* context in an Arc<Mutex<..>>, a closure that is lent a clone of the Arc,*)
(* and the context reclaimed with Arc::try_unwrap before it is committed   *)
(* or rolled back.                                                         *)
(*                                                                         *)
(* Each call runs an arbitrary closure: it issues any statements, answers  *)
(* what it likes, and may hand clones of the Arc to helper tasks that      *)
(* outlive it.  Calls run concurrently, their futures may be dropped at    *)
(* any await, and connections may break.                                   *)
(***************************************************************************)
EXTENDS Postgres

CONSTANTS
  Helper,          \* tasks a closure may hand a clone of its context to
  MaxConnections,  \* the pool's size
  LossyCommit      \* may the connection break while a COMMIT is unanswered?

ASSUME TransactionManagerAssumption ==
  /\ MaxConnections \in Nat \ {0}
  /\ LossyCommit \in BOOLEAN
  /\ Helper \cap {"manager", "closure", Nobody} = {}
  /\ Nobody \notin {"manager", "closure"}

VARIABLES
  phase,  \* where each call of transaction() is
  arc,    \* who holds a clone of each call's Arc
  guard,  \* who holds the Mutex inside it
  erred   \* the calls some statement of which answered with an error

ctxVars == <<arc, guard>>
vars == <<db, txn, ws, lock, phase, arc, guard, erred>>

Task == {"closure"} \cup Helper
Owner == {"manager"} \cup Task

Answered == {"ok", "err", "cancelled"}
Phase == {"idle", "begin", "closure", "unwrapOk", "unwrapErr", "commit", "rollback"} \cup Answered

\* Every variable has its type; only a task that may run statements holds the Mutex.
TypeOK ==
  /\ PgTypeOK
  /\ phase \in [Call -> Phase]
  /\ arc \in [Call -> SUBSET Owner]
  /\ guard \in [Call -> Task \cup {Nobody}]
  /\ erred \in SUBSET Call

Init ==
  /\ PgInit
  /\ phase = [t \in Call |-> "idle"]
  /\ arc = [t \in Call |-> {}]
  /\ guard = [t \in Call |-> Nobody]
  /\ erred = {}

GoTo(t, p) == phase' = [phase EXCEPT ![t] = p]

\* The call still owns its context: shared in the Arc, or reclaimed from it.
Held(t) == arc[t] # {} \/ phase[t] \in {"commit", "rollback"}

\* The context was dropped with its transaction open: nobody will end it but the driver.
Dropped(t) == ~Held(t) /\ phase[t] \in Answered

\* Mutant of CheckedOut: a connection, once used, never returns to the pool.
CheckedOutForever(t) == txn[t] # "none"

\* The call's connection is out of the pool.  A dropped transaction keeps it until the
\* ROLLBACK its Drop has queued is through; a broken one is closed when it is dropped.
CheckedOut(t) ==
  \/ txn[t] \in {"open", "failed"}
  \/ txn[t] \in Broken /\ Held(t)
  \/ txn[t] = "committing" /\ phase[t] = "cancelled"
-----------------------------------------------------------------------------
(***************************************************************************)
(* The call begins.                                                        *)
(***************************************************************************)
Transaction(t) ==
  /\ phase[t] = "idle"
  /\ GoTo(t, "begin")
  /\ UNCHANGED <<pgVars, ctxVars, erred>>

\* pool.begin() waits for a connection; the context and its Arc follow without an await.
Begin(t) ==
  /\ phase[t] = "begin"
  /\ Cardinality({u \in Call : CheckedOut(u)}) < MaxConnections
  /\ PgBegin(t)
  /\ GoTo(t, "closure")
  /\ arc' = [arc EXCEPT ![t] = {"manager", "closure"}]
  /\ UNCHANGED <<guard, erred>>

\* No connection in time, or BEGIN failed.
BeginErr(t) ==
  /\ phase[t] = "begin"
  /\ GoTo(t, "err")
  /\ UNCHANGED <<pgVars, ctxVars, erred>>
-----------------------------------------------------------------------------
(***************************************************************************)
(* The closure and its helpers.  Every repository method locks the Mutex,  *)
(* runs one statement and unlocks it; while the statement waits for a row  *)
(* the Mutex stays locked.                                                 *)
(***************************************************************************)
LockContext(t, h) ==
  /\ h \in arc[t] \cap Task
  /\ guard[t] = Nobody
  /\ guard' = [guard EXCEPT ![t] = h]
  /\ UNCHANGED <<pgVars, phase, arc, erred>>

\* Mutant of Answer: a repository method keeps the MutexGuard it has taken.
AnswerLocked(t, h) ==
  /\ guard[t] = h
  /\ UNCHANGED <<guard, phase, arc>>

\* The statement is answered, and the method that issued it returns.
Answer(t, h) ==
  /\ guard[t] = h
  /\ guard' = [guard EXCEPT ![t] = Nobody]
  /\ UNCHANGED <<phase, arc>>

Find(t, h) == PgSelect(t) /\ Answer(t, h) /\ UNCHANGED erred

FindForUpdate(t, h, r) == PgSelectForUpdate(t, r) /\ Answer(t, h) /\ UNCHANGED erred

Create(t, h, r, v) == PgInsert(t, r, v) /\ Answer(t, h) /\ UNCHANGED erred

Update(t, h, r, v) == PgUpdate(t, r, v) /\ Answer(t, h) /\ UNCHANGED erred

StatementErr(t, h) == PgFail(t) /\ Answer(t, h) /\ erred' = erred \cup {t}

Statement(t, h) ==
  \/ LockContext(t, h)
  \/ Find(t, h)
  \/ \E r \in Row : FindForUpdate(t, h, r)
  \/ \E r \in Row, v \in Value : Create(t, h, r, v)
  \/ \E r \in Row, v \in Value : Update(t, h, r, v)
  \/ StatementErr(t, h)

\* A task hands a clone of its Arc to a helper.
ShareContext(t, h, k) ==
  /\ h \in arc[t] \cap Task
  /\ k \in Helper \ arc[t]
  /\ arc' = [arc EXCEPT ![t] = @ \cup {k}]
  /\ UNCHANGED <<pgVars, phase, guard, erred>>

Unlocked(t, h) == [guard EXCEPT ![t] = IF @ = h THEN Nobody ELSE @]

\* A helper ends, or is aborted at an await: its clone and its guard are dropped.
DropContext(t, k) ==
  /\ k \in arc[t] \cap Helper
  /\ arc' = [arc EXCEPT ![t] = @ \ {k}]
  /\ guard' = Unlocked(t, k)
  /\ UNCHANGED <<pgVars, phase, erred>>

\* The closure's future completes, which drops its clone of the Arc.
ClosureReturns(t, result) ==
  /\ phase[t] = "closure"
  /\ guard[t] # "closure"
  /\ GoTo(t, IF result = "ok" THEN "unwrapOk" ELSE "unwrapErr")
  /\ arc' = [arc EXCEPT ![t] = @ \ {"closure"}]
  /\ UNCHANGED <<pgVars, guard, erred>>
-----------------------------------------------------------------------------
(***************************************************************************)
(* The call reclaims its context and ends the transaction.                 *)
(***************************************************************************)
\* Mutant of TryUnwrap: the manager locks the context to commit through the guard, as
\* archive/transaction_manager_v1.rs does, instead of reclaiming it.
TryUnwrapByLock(t) ==
  /\ phase[t] \in {"unwrapOk", "unwrapErr"}
  /\ guard[t] = Nobody
  /\ guard' = [guard EXCEPT ![t] = "manager"]
  /\ GoTo(t, IF phase[t] = "unwrapOk" THEN "commit" ELSE "rollback")
  /\ UNCHANGED <<pgVars, arc, erred>>

\* Mutant of TryUnwrap: wait until the context is not shared any more.
TryUnwrapWaits(t) ==
  /\ phase[t] \in {"unwrapOk", "unwrapErr"}
  /\ arc[t] = {"manager"}
  /\ GoTo(t, IF phase[t] = "unwrapOk" THEN "commit" ELSE "rollback")
  /\ arc' = [arc EXCEPT ![t] = {}]
  /\ UNCHANGED <<pgVars, guard, erred>>

\* Mutant of TryUnwrap: after an Err the context is dropped, not rolled back.
TryUnwrapDrops(t) ==
  /\ phase[t] \in {"unwrapOk", "unwrapErr"}
  /\ GoTo(t, IF phase[t] = "unwrapOk" /\ arc[t] = {"manager"} THEN "commit" ELSE "err")
  /\ arc' = [arc EXCEPT ![t] = @ \ {"manager"}]
  /\ UNCHANGED <<pgVars, guard, erred>>

\* Arc::try_unwrap: the only clone left becomes the context; otherwise the manager's
\* clone is dropped and the call answers with an error, whatever the closure answered.
TryUnwrap(t) ==
  /\ phase[t] \in {"unwrapOk", "unwrapErr"}
  /\ IF arc[t] = {"manager"}
     THEN GoTo(t, IF phase[t] = "unwrapOk" THEN "commit" ELSE "rollback")
     ELSE GoTo(t, "err")
  /\ arc' = [arc EXCEPT ![t] = @ \ {"manager"}]
  /\ UNCHANGED <<pgVars, guard, erred>>

\* COMMIT reaches the server: the call's, or one whose caller is gone.
CommitApplied(t) ==
  /\ \/ phase[t] = "commit" /\ txn[t] = "open"
     \/ txn[t] = "committing"
  /\ PgApply(t)
  /\ UNCHANGED <<phase, ctxVars, erred>>

\* COMMIT answers; the server answers a failed transaction's COMMIT with ROLLBACK, which
\* the drivers do not tell from a success.
CommitOk(t) ==
  /\ phase[t] = "commit"
  /\ \/ txn[t] = "committed" /\ UNCHANGED pgVars
     \/ txn[t] = "failed" /\ PgUndo(t, "aborted")
  /\ GoTo(t, "ok")
  /\ UNCHANGED <<ctxVars, erred>>

\* Mutant of CommitErr: `let _ = context.commit().await`.
CommitErrIgnored(t) ==
  /\ phase[t] = "commit"
  /\ \/ txn[t] \in Broken /\ UNCHANGED pgVars
     \/ txn[t] = "open" /\ PgUndo(t, "aborted")
  /\ GoTo(t, "ok")
  /\ UNCHANGED <<ctxVars, erred>>

\* COMMIT fails: the connection was gone, the server refused, or (LossyCommit) the
\* connection broke before the answer came.
CommitErr(t) ==
  /\ phase[t] = "commit"
  /\ \/ txn[t] \in Broken /\ UNCHANGED pgVars
     \/ txn[t] = "open" /\ PgUndo(t, "aborted")
     \/ LossyCommit /\ txn[t] = "open" /\ PgMove(t, "committing")
     \/ LossyCommit /\ txn[t] = "committed" /\ UNCHANGED pgVars
  /\ GoTo(t, "err")
  /\ UNCHANGED <<ctxVars, erred>>

\* Mutant of Rollback: the context's rollback() commits.
RollbackCommits(t) ==
  /\ phase[t] = "rollback"
  /\ txn[t] = "open" /\ PgApply(t)
  /\ GoTo(t, "err")
  /\ UNCHANGED <<ctxVars, erred>>

\* ROLLBACK ends the transaction; its own failure is ignored.
Rollback(t) ==
  /\ phase[t] = "rollback"
  /\ \/ txn[t] \in {"open", "failed"} /\ PgUndo(t, "aborted")
     \/ txn[t] \in Broken /\ UNCHANGED pgVars
  /\ GoTo(t, "err")
  /\ UNCHANGED <<ctxVars, erred>>

\* The caller drops the call's future at one of its awaits.
Cancel(t) ==
  /\ phase[t] \in {"begin", "closure", "commit", "rollback"}
  /\ GoTo(t, "cancelled")
  /\ arc' = [arc EXCEPT ![t] = @ \ {"manager", "closure"}]
  /\ guard' = Unlocked(t, "closure")
  /\ IF phase[t] = "commit" /\ txn[t] = "open"
     THEN PgMove(t, "committing")
     ELSE UNCHANGED pgVars
  /\ UNCHANGED erred
-----------------------------------------------------------------------------
(***************************************************************************)
(* The driver and the server, after the call or beside it.                 *)
(***************************************************************************)
\* Mutant of RollbackDropped: the context of a cancelled call is leaked, not dropped.
RollbackDroppedOnErr(t) ==
  /\ Dropped(t)
  /\ phase[t] = "err"
  /\ txn[t] \in {"open", "failed"}
  /\ PgUndo(t, "aborted")
  /\ UNCHANGED <<phase, ctxVars, erred>>

\* Dropping an open transaction queues a ROLLBACK, which the pool sends later.
RollbackDropped(t) ==
  /\ Dropped(t)
  /\ txn[t] \in {"open", "failed"}
  /\ PgUndo(t, "aborted")
  /\ UNCHANGED <<phase, ctxVars, erred>>

ConnectionLost(t) ==
  /\ txn[t] \in {"open", "failed"}
  /\ PgMove(t, "lost")
  /\ UNCHANGED <<phase, ctxVars, erred>>

\* The server ends a session whose client is gone; an unapplied COMMIT is lost with it.
SessionEnds(t) ==
  /\ txn[t] \in {"lost", "committing"}
  /\ PgUndo(t, "aborted")
  /\ UNCHANGED <<phase, ctxVars, erred>>
-----------------------------------------------------------------------------
Next ==
  \E t \in Call :
    \/ Transaction(t) \/ Begin(t) \/ BeginErr(t)
    \/ \E h \in Task : Statement(t, h)
    \/ \E h \in Task, k \in Helper : ShareContext(t, h, k)
    \/ \E k \in Helper : DropContext(t, k)
    \/ \E result \in {"ok", "err"} : ClosureReturns(t, result)
    \/ TryUnwrap(t) \/ CommitApplied(t) \/ CommitOk(t) \/ CommitErr(t)
    \/ Rollback(t) \/ Cancel(t)
    \/ RollbackDropped(t) \/ ConnectionLost(t) \/ SessionEnds(t)

\* What the call does once its closure has returned, and what the server owes it.
EndCall(t) ==
  \/ TryUnwrap(t) \/ CommitApplied(t) \/ CommitOk(t) \/ Rollback(t)
  \/ txn[t] \in Broken /\ CommitErr(t)

\* What the driver and the server do for a call that is over.
CleanUp(t) == RollbackDropped(t) \/ SessionEnds(t)

\* A runtime polls its tasks, a server answers.  Nothing is assumed of closures, of
\* failures or of cancellation.
Fairness == \A t \in Call : WF_vars(EndCall(t)) /\ WF_vars(CleanUp(t))

Safety == Init /\ [][Next]_vars

Spec == Safety /\ Fairness
-----------------------------------------------------------------------------
(***************************************************************************)
(* Properties.                                                             *)
(***************************************************************************)
\* From the moment commit() or rollback() takes the context, no closure and no helper
\* shares it or has it locked: no statement can run beside COMMIT, or after it.
SoleOwner ==
  \A t \in Call : phase[t] \in {"commit", "rollback", "ok"} => arc[t] = {} /\ guard[t] = Nobody

\* A call that answers Ok has been committed, if every statement of it succeeded: neither
\* a helper, nor a lost connection, nor a refused COMMIT hides behind an Ok.
OkMeansCommitted ==
  \A t \in Call : phase[t] = "ok" /\ t \notin erred => txn[t] = "committed"

\* A call that answers Err never commits, not even later by a helper or a late COMMIT.
ErrMeansRolledBack == \A t \in Call : phase[t] = "err" => txn[t] # "committed"

\* A call that answers Ok has been committed, whatever its closure did.
OkCommits == \A t \in Call : phase[t] = "ok" => txn[t] = "committed"

\* When the call answers its context is gone: the transaction does not outlive the block.
ContextGone == \A t \in Call : phase[t] \in {"ok", "err"} => arc[t] = {}

\* The contract seen in the state: what has become of each call's block.
BlockOf(t) ==
  IF txn[t] = "committed" THEN "committed"
  ELSE IF txn[t] \in {"failed"} \cup Broken THEN "aborted"
  ELSE IF txn[t] = "committing" \/ phase[t] = "commit" THEN "closed"
  ELSE IF phase[t] \in {"err", "cancelled", "unwrapErr", "rollback"} THEN "aborted"
  ELSE "open"

Block == [t \in Call |-> BlockOf(t)]

Writes ==
  [t \in Call |-> [r \in Row |-> IF BlockOf(t) \in {"open", "closed"} THEN ws[t][r] ELSE Unwritten]]

Told == [t \in Call |-> IF phase[t] \in {"ok", "err"} THEN phase[t] ELSE "none"]

TB == INSTANCE TransactionBlock WITH
  MayBeLate <- LossyCommit,
  writes <- Writes, block <- Block, spoiled <- erred, answer <- Told

\* transaction() implements the contract: what it commits is what was written when the
\* context was reclaimed, all at once, and what it answers tells whether it has.
ImplementsTransactionBlock == TB!Spec

\* Once the closure has returned the call answers, though a helper keeps its clone.
ReturnedIsAnswered ==
  \A t \in Call : phase[t] \in {"unwrapOk", "unwrapErr"} ~> phase[t] \in Answered

\* A transaction that its call abandoned gives up its row locks and its connection.
AbandonedIsReleased ==
  \A t \in Call : Dropped(t) ~> ~CheckedOut(t) /\ \A r \in Row : lock[r] # t
=============================================================================
