--------------------------- MODULE LockingManager ---------------------------
(***************************************************************************)
(* The archived managers, archive/transaction_manager_v1.rs and _v2.rs,    *)
(* which lock the shared context to end its transaction instead of         *)
(* reclaiming it.  The two differ in how the compiler is persuaded, not in *)
(* the steps they take; everything up to the closure's return is as in     *)
(* TransactionManager.                                                     *)
(*                                                                         *)
(* Their commit() borrows the context: when it returns, helpers are left   *)
(* with a context whose transaction is gone.  What they do with it changes *)
(* nothing, so their clones leave the model with the transaction.          *)
(***************************************************************************)
EXTENDS TransactionManager

\* Every variable has its type; the manager is now among those that lock the context, and
\* has it locked while it ends the transaction.
LockedTypeOK ==
  /\ PgTypeOK
  /\ phase \in [Call -> Phase]
  /\ arc \in [Call -> SUBSET Owner]
  /\ guard \in [Call -> Owner \cup {Nobody}]
  /\ erred \in SUBSET Call
  /\ \A t \in Call : guard[t] = "manager" <=> phase[t] \in {"commit", "rollback"}

\* Mutant of LockToEnd: the manager ends the transaction without the Mutex.
LockToEndUnlocked(t) ==
  /\ phase[t] \in {"unwrapOk", "unwrapErr"}
  /\ GoTo(t, IF phase[t] = "unwrapOk" THEN "commit" ELSE "rollback")
  /\ UNCHANGED <<pgVars, arc, guard, erred>>

\* Mutant of LockToEnd: the manager waits until the context is not shared any more.
LockToEndAlone(t) ==
  /\ phase[t] \in {"unwrapOk", "unwrapErr"}
  /\ arc[t] = {"manager"}
  /\ guard' = [guard EXCEPT ![t] = "manager"]
  /\ GoTo(t, IF phase[t] = "unwrapOk" THEN "commit" ELSE "rollback")
  /\ UNCHANGED <<pgVars, arc, erred>>

\* db_context.lock().await, for as long as a helper has the context locked.
LockToEnd(t) ==
  /\ phase[t] \in {"unwrapOk", "unwrapErr"}
  /\ guard[t] = Nobody
  /\ guard' = [guard EXCEPT ![t] = "manager"]
  /\ GoTo(t, IF phase[t] = "unwrapOk" THEN "commit" ELSE "rollback")
  /\ UNCHANGED <<pgVars, arc, erred>>

\* The call answers: its guard and its clone are dropped, and the transaction is used up.
AnswerAs(t, answer) ==
  /\ GoTo(t, answer)
  /\ arc' = [arc EXCEPT ![t] = {}]
  /\ guard' = [guard EXCEPT ![t] = Nobody]
  /\ UNCHANGED erred

LockedCommitOk(t) ==
  /\ phase[t] = "commit"
  /\ \/ txn[t] = "committed" /\ UNCHANGED pgVars
     \/ txn[t] = "failed" /\ PgUndo(t, "aborted")
  /\ AnswerAs(t, "ok")

\* Mutant of LockedCommitErr: the `?` after guard.commit().await is missing.
LockedCommitErrIgnored(t) ==
  /\ phase[t] = "commit"
  /\ \/ txn[t] \in Broken /\ UNCHANGED pgVars
     \/ txn[t] = "open" /\ PgUndo(t, "aborted")
  /\ AnswerAs(t, "ok")

LockedCommitErr(t) ==
  /\ phase[t] = "commit"
  /\ \/ txn[t] \in Broken /\ UNCHANGED pgVars
     \/ txn[t] = "open" /\ PgUndo(t, "aborted")
     \/ LossyCommit /\ txn[t] = "open" /\ PgMove(t, "committing")
     \/ LossyCommit /\ txn[t] = "committed" /\ UNCHANGED pgVars
  /\ AnswerAs(t, "err")

LockedRollback(t) ==
  /\ phase[t] = "rollback"
  /\ \/ txn[t] \in {"open", "failed"} /\ PgUndo(t, "aborted")
     \/ txn[t] \in Broken /\ UNCHANGED pgVars
  /\ AnswerAs(t, "err")

\* The future is dropped at an await, the one for the Mutex included.  While COMMIT or
\* ROLLBACK is under way the transaction goes with it; otherwise a helper may keep it.
LockedCancel(t) ==
  /\ phase[t] \in {"begin", "closure", "unwrapOk", "unwrapErr", "commit", "rollback"}
  /\ GoTo(t, "cancelled")
  /\ IF phase[t] \in {"commit", "rollback"}
     THEN arc' = [arc EXCEPT ![t] = {}]
     ELSE arc' = [arc EXCEPT ![t] = @ \ {"manager", "closure"}]
  /\ guard' = [guard EXCEPT ![t] = IF @ \in {"manager", "closure"} THEN Nobody ELSE @]
  /\ IF phase[t] = "commit" /\ txn[t] = "open"
     THEN PgMove(t, "committing")
     ELSE UNCHANGED pgVars
  /\ UNCHANGED erred

LockedNext ==
  \E t \in Call :
    \/ Transaction(t) \/ Begin(t) \/ BeginErr(t)
    \/ \E h \in Task : Statement(t, h)
    \/ \E h \in Task, k \in Helper : ShareContext(t, h, k)
    \/ \E k \in Helper : DropContext(t, k)
    \/ \E result \in {"ok", "err"} : ClosureReturns(t, result)
    \/ LockToEnd(t) \/ CommitApplied(t) \/ LockedCommitOk(t) \/ LockedCommitErr(t)
    \/ LockedRollback(t) \/ LockedCancel(t)
    \/ RollbackDropped(t) \/ ConnectionLost(t) \/ SessionEnds(t)

\* The same fairness as TransactionManager's; tokio's Mutex is fair, so the manager gets
\* its turn even if helpers keep coming.
LockedEndCall(t) ==
  \/ CommitApplied(t) \/ LockedCommitOk(t) \/ LockedRollback(t)
  \/ txn[t] \in Broken /\ LockedCommitErr(t)

LockedFairness ==
  \A t \in Call : /\ SF_vars(LockToEnd(t))
                  /\ WF_vars(LockedEndCall(t))
                  /\ WF_vars(CleanUp(t))

LockedSafety == Init /\ [][LockedNext]_vars

LockedSpec == LockedSafety /\ LockedFairness
-----------------------------------------------------------------------------
(***************************************************************************)
(* Properties.  The archived managers keep the contract of                 *)
(* TransactionManager (ImplementsTransactionBlock), its OkMeansCommitted   *)
(* and its AbandonedIsReleased; they do not keep ReturnedIsAnswered.       *)
(***************************************************************************)
\* A call is answered once its closure has returned, if no task keeps the context locked
\* for ever: it is not enough, and not needed, that they give up their clones.
AnsweredIfUnlocked ==
  \A t \in Call : []<>(guard[t] \notin Helper) =>
                    (phase[t] \in {"unwrapOk", "unwrapErr"} ~> phase[t] \in Answered)
=============================================================================
