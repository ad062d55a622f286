----------------------- MODULE TransactionBlockProofs -----------------------
(***************************************************************************)
(* transaction() implements the contract of TransactionBlock, for any      *)
(* number of calls, helpers, rows and connections, whether or not a COMMIT *)
(* may go unanswered; and so do the archived managers.  Each action        *)
(* changes what the contract sees of one call only; what it makes of that  *)
(* call is a step of the contract or none.                                 *)
(***************************************************************************)
EXTENDS LockingManager, TransactionManagerProofs

USE DEF pgVars, ctxVars

\* What the refinement needs of the invariant, and the archived managers keep as well:
\* where transactions can be, and that while a statement runs no commit has begun.
Shaped ==
  /\ PgTypeOK
  /\ phase \in [Call -> Phase]
  /\ Outcome
  /\ \A t \in Call : guard[t] \in Task =>
       phase[t] \in {"closure", "unwrapOk", "unwrapErr", "err", "cancelled"}

LEMMA InvShapes == IInv => Shaped
<1> SUFFICES ASSUME IInv, NEW t \in Call, guard[t] \in Task
             PROVE  phase[t] \in {"closure", "unwrapOk", "unwrapErr", "err", "cancelled"}
  BY DEF IInv, TypeOK, Shaped
<1>1. guard[t] # Nobody
  BY TransactionManagerAssumption DEF Task
<1> QED
  BY <1>1 DEF IInv, TypeOK, Ownership, Phase, Answered

\* The action changes nothing that the contract sees of other calls.
Elsewhere(t) ==
  \A u \in Call \ {t} : phase'[u] = phase[u] /\ txn'[u] = txn[u] /\ ws'[u] = ws[u]

LEMMA ElsewhereKept ==
  ASSUME NEW t \in Call, Elsewhere(t)
  PROVE  \A u \in Call \ {t} : /\ Block'[u] = Block[u]
                               /\ Writes'[u] = Writes[u]
                               /\ Told'[u] = Told[u]
<1> SUFFICES ASSUME NEW u \in Call, u # t
             PROVE  Block'[u] = Block[u] /\ Writes'[u] = Writes[u] /\ Told'[u] = Told[u]
  OBVIOUS
<1>1. phase'[u] = phase[u] /\ txn'[u] = txn[u] /\ ws'[u] = ws[u]
  BY DEF Elsewhere
<1>2. BlockOf(u)' = BlockOf(u)
  BY <1>1 DEF BlockOf
<1>3. QED
  BY <1>1, <1>2 DEF Block, Writes, Told

\* Functions that agree but at one argument.
LEMMA AtOne ==
  ASSUME NEW S, NEW f, NEW g, f = [x \in S |-> f[x]], g = [x \in S |-> g[x]],
         NEW t \in S, \A u \in S \ {t} : g[u] = f[u]
  PROVE  /\ g = [f EXCEPT ![t] = g[t]]
         /\ g[t] = f[t] => g = f
  OBVIOUS

\* What the contract sees is a function of the calls, so it changes at one call only.
LEMMA OneCall ==
  ASSUME NEW t \in Call, Elsewhere(t)
  PROVE  /\ Block' = [Block EXCEPT ![t] = Block'[t]]
         /\ Writes' = [Writes EXCEPT ![t] = Writes'[t]]
         /\ Told' = [Told EXCEPT ![t] = Told'[t]]
         /\ Block'[t] = Block[t] => UNCHANGED Block
         /\ Writes'[t] = Writes[t] => UNCHANGED Writes
         /\ Told'[t] = Told[t] => UNCHANGED Told
<1>1. Block = [u \in Call |-> Block[u]] /\ Block' = [u \in Call |-> Block'[u]]
  BY DEF Block
<1>2. Writes = [u \in Call |-> Writes[u]] /\ Writes' = [u \in Call |-> Writes'[u]]
  BY DEF Writes
<1>3. Told = [u \in Call |-> Told[u]] /\ Told' = [u \in Call |-> Told'[u]]
  BY DEF Told
<1>4. Block' = [Block EXCEPT ![t] = Block'[t]] /\ (Block'[t] = Block[t] => Block' = Block)
  BY <1>1, ElsewhereKept, AtOne
<1>5. Writes' = [Writes EXCEPT ![t] = Writes'[t]] /\ (Writes'[t] = Writes[t] => Writes' = Writes)
  BY <1>2, ElsewhereKept, AtOne
<1>6. Told' = [Told EXCEPT ![t] = Told'[t]] /\ (Told'[t] = Told[t] => Told' = Told)
  BY <1>3, ElsewhereKept, AtOne
<1>7. QED
  BY <1>4, <1>5, <1>6

LEMMA NothingWritten ==
  ASSUME NEW t \in Call
  PROVE  /\ Block[t] \notin {"open", "closed"} => Writes[t] = TB!Empty
         /\ Block'[t] \notin {"open", "closed"} => Writes'[t] = TB!Empty
  BY DEF Block, Writes, TB!Empty
-----------------------------------------------------------------------------
(***************************************************************************)
(* The steps of the contract, seen at one call.                            *)
(***************************************************************************)
LEMMA Stutters ==
  ASSUME NEW t \in Call, Elsewhere(t), UNCHANGED <<db, erred>>,
         Block'[t] = Block[t], Writes'[t] = Writes[t], Told'[t] = Told[t]
  PROVE  UNCHANGED TB!vars
  BY OneCall DEF TB!vars

LEMMA Undoes ==
  ASSUME NEW t \in Call, Elsewhere(t), UNCHANGED db,
         Block[t] \in {"open", "closed", "aborted"}, Block'[t] = "aborted"
  PROVE  TB!Undo(t)
  BY OneCall, NothingWritten DEF TB!Undo, TB!Only

LEMMA Aborts ==
  ASSUME NEW t \in Call, Elsewhere(t), UNCHANGED db, erred' \in {erred, erred \cup {t}},
         Block[t] \in {"open", "closed", "aborted"}, Block'[t] = "aborted", Told'[t] = Told[t]
  PROVE  TB!Next
<1>1. TB!Undo(t)
  BY Undoes
<1>2. TB!Abort(t)
  BY <1>1, OneCall DEF TB!Abort
<1>3. QED
  BY <1>2 DEF TB!Next

LEMMA AnswersErr ==
  ASSUME NEW t \in Call, Elsewhere(t), UNCHANGED <<db, erred>>,
         Told[t] = "none", Told'[t] = "err",
         \/ Block[t] \in {"open", "closed", "aborted"} /\ Block'[t] = "aborted"
         \/ LossyCommit /\ Block'[t] = Block[t] /\ Writes'[t] = Writes[t]
  PROVE  TB!Next
<1>1. TB!Undo(t) \/ (LossyCommit /\ UNCHANGED <<db, Writes, Block>>)
  BY Undoes, OneCall
<1>2. TB!AnswerErr(t)
  BY <1>1, OneCall DEF TB!AnswerErr, TB!Only
<1>3. QED
  BY <1>2 DEF TB!Next

LEMMA AnswersOk ==
  ASSUME NEW t \in Call, Elsewhere(t), UNCHANGED <<db, erred>>,
         Told[t] = "none", Told'[t] = "ok", Block'[t] = Block[t],
         Block[t] = "committed" \/ (Block[t] = "aborted" /\ t \in erred)
  PROVE  TB!Next
<1>1. Writes'[t] = Writes[t]
  BY NothingWritten
<1>2. TB!AnswerOk(t)
  BY <1>1, OneCall DEF TB!AnswerOk, TB!Only
<1>3. QED
  BY <1>2 DEF TB!Next
-----------------------------------------------------------------------------
(***************************************************************************)
(* The actions.                                                            *)
(***************************************************************************)
\* What the contract sees of one call, before and after a step.
LEMMA Seen ==
  ASSUME NEW t \in Call
  PROVE  /\ Block[t] = BlockOf(t) /\ Block'[t] = BlockOf(t)'
         /\ Told[t] = IF phase[t] \in {"ok", "err"} THEN phase[t] ELSE "none"
         /\ Told'[t] = IF phase'[t] \in {"ok", "err"} THEN phase'[t] ELSE "none"
         /\ ws'[t] = ws[t] /\ Block'[t] = Block[t] => Writes'[t] = Writes[t]
<1>1. Block[t] = BlockOf(t) /\ Block'[t] = BlockOf(t)'
  BY DEF Block
<1>2. ASSUME ws'[t] = ws[t], Block'[t] = Block[t]
      PROVE  Writes'[t] = Writes[t]
  BY <1>1, <1>2 DEF Writes
<1> QED
  BY <1>1, <1>2 DEF Told

\* Actions that move the call and leave its transaction alone.
LEMMA MoveStep ==
  ASSUME Shaped, NEW t \in Call,
         Transaction(t) \/ (\E result \in {"ok", "err"} : ClosureReturns(t, result))
  PROVE  TB!Next \/ UNCHANGED TB!vars
<1>1. CASE Transaction(t)
  BY <1>1, Stutters, Seen DEF Transaction, Shaped, PgTypeOK, Outcome, Elsewhere, GoTo,
     BlockOf
<1>2. ASSUME NEW result \in {"ok", "err"}, ClosureReturns(t, result)
      PROVE  TB!Next \/ UNCHANGED TB!vars
  <2>1. /\ phase[t] = "closure" /\ phase'[t] \in {"unwrapOk", "unwrapErr"}
        /\ UNCHANGED <<db, txn, ws, erred>>
        /\ txn[t] \in {"open", "failed"} \cup Broken
        /\ Elsewhere(t)
    BY <1>2 DEF ClosureReturns, GoTo, Elsewhere, Shaped, PgTypeOK, Outcome
  <2>2. CASE phase'[t] = "unwrapOk"
    BY <2>1, <2>2, Stutters, Seen DEF BlockOf, Broken
  <2>3. CASE phase'[t] = "unwrapErr"
    BY <2>1, <2>3, Aborts, Seen DEF BlockOf, Broken
  <2> QED
    BY <2>1, <2>2, <2>3
<1> QED
  BY <1>1, <1>2

LEMMA BeginStep ==
  ASSUME Shaped, NEW t \in Call, Begin(t) \/ BeginErr(t)
  PROVE  TB!Next \/ UNCHANGED TB!vars
<1> USE Seen DEF Shaped, PgTypeOK, Outcome, Elsewhere, GoTo, BlockOf, TxnState, Broken
<1>1. CASE Begin(t)
  BY <1>1, Stutters DEF Begin, PgBegin
<1>2. CASE BeginErr(t)
  BY <1>2, AnswersErr DEF BeginErr
<1> QED
  BY <1>1, <1>2

\* While a statement runs no commit has begun, so an open
\* transaction is written by a block that is open, or that will never be committed.
LEMMA WritesOpen ==
  ASSUME Shaped, NEW t \in Call, NEW h \in Task, guard[t] = h
  PROVE  /\ phase[t] \in {"closure", "unwrapOk", "unwrapErr", "err", "cancelled"}
         /\ txn[t] = "open" => Block[t] \in {"open", "aborted"}
<1>1. phase[t] \in {"closure", "unwrapOk", "unwrapErr", "err", "cancelled"}
  BY DEF Shaped
<1> QED
  BY <1>1, Seen DEF BlockOf

LEMMA WriteStep ==
  ASSUME Shaped, NEW t \in Call, NEW h \in Task, NEW r \in Row, NEW v \in Value,
         Create(t, h, r, v) \/ Update(t, h, r, v)
  PROVE  TB!Next \/ UNCHANGED TB!vars
<1>1. /\ guard[t] = h /\ txn[t] = "open"
      /\ UNCHANGED <<db, txn, phase, erred>>
      /\ \A u \in Call \ {t} : ws'[u] = ws[u]
      /\ ws'[t] \in [Row -> Value \cup {Unwritten}]
  BY DEF Create, Update, PgInsert, PgUpdate, Answer, Shaped, PgTypeOK
<1>2. Elsewhere(t)
  BY <1>1 DEF Elsewhere
<1>3. Block[t] \in {"open", "aborted"}
  BY <1>1, WritesOpen
<1>4. Block'[t] = Block[t] /\ Told'[t] = Told[t]
  BY <1>1, Seen DEF BlockOf
<1>5. CASE Block[t] = "aborted"
  BY <1>1, <1>2, <1>4, <1>5, Aborts
<1>6. CASE Block[t] = "open"
  <2>1. Writes'[t] \in [Row -> Value \cup {Unwritten}]
    BY <1>1 DEF Writes
  <2>2. TB!Write(t)
    BY <1>1, <1>2, <1>4, <1>6, <2>1, OneCall DEF TB!Write, TB!Only
  <2> QED
    BY <2>2 DEF TB!Next
<1> QED
  BY <1>3, <1>5, <1>6

LEMMA StatementStep ==
  ASSUME Shaped, NEW t \in Call, NEW h \in Task, Statement(t, h)
  PROVE  TB!Next \/ UNCHANGED TB!vars
<1>1. CASE UNCHANGED <<db, txn, ws, phase, erred>>
  BY <1>1, Stutters, Seen DEF Elsewhere, BlockOf
<1>2. CASE \E r \in Row, v \in Value : Create(t, h, r, v) \/ Update(t, h, r, v)
  BY <1>2, WriteStep
<1>3. CASE StatementErr(t, h)
  <2>1. /\ guard[t] = h /\ UNCHANGED <<db, phase>> /\ erred' = erred \cup {t}
        /\ txn[t] \in {"open", "failed"} \cup Broken /\ txn'[t] \in {"failed"} \cup Broken
        /\ Elsewhere(t)
    BY <1>3 DEF StatementErr, Answer, PgFail, PgUndo, Elsewhere, Shaped, PgTypeOK
  <2>2. Block[t] \in {"open", "aborted"}
    BY <2>1, WritesOpen, Seen DEF BlockOf, Broken
  <2>3. Block'[t] = "aborted" /\ Told'[t] = Told[t]
    BY <2>1, Seen DEF BlockOf, Broken
  <2> QED
    BY <2>1, <2>2, <2>3, Aborts
<1> QED
  BY <1>1, <1>2, <1>3 DEF Statement, LockContext, Find, FindForUpdate, PgSelect,
     PgSelectForUpdate, Answer

\* The manager, having the context to itself, goes on to COMMIT or ROLLBACK.
LEMMA EndStep ==
  ASSUME Shaped, NEW t \in Call, UNCHANGED <<db, txn, ws, erred>>, Elsewhere(t),
         \/ phase[t] = "unwrapOk" /\ phase'[t] = "commit"
         \/ phase[t] = "unwrapErr" /\ phase'[t] = "rollback"
  PROVE  TB!Next \/ UNCHANGED TB!vars
<1>1. txn[t] \in {"open", "failed"} \cup Broken
  BY DEF Shaped, Outcome
<1>2. CASE phase'[t] = "rollback" \/ txn[t] # "open"
  BY <1>1, <1>2, Stutters, Seen DEF BlockOf, Broken
<1>3. CASE phase'[t] = "commit" /\ txn[t] = "open"
  <2>1. Block[t] = "open" /\ Block'[t] = "closed" /\ Told'[t] = Told[t]
    BY <1>3, Seen DEF BlockOf, Broken
  <2>2. Writes'[t] = Writes[t]
    BY <2>1 DEF Writes, Block
  <2>3. TB!Close(t)
    BY <2>1, <2>2, OneCall DEF TB!Close, TB!Only
  <2> QED
    BY <2>3 DEF TB!Next
<1> QED
  BY <1>2, <1>3

LEMMA UnwrapStep ==
  ASSUME Shaped, NEW t \in Call, TryUnwrap(t)
  PROVE  TB!Next \/ UNCHANGED TB!vars
<1>1. /\ phase[t] \in {"unwrapOk", "unwrapErr"} /\ UNCHANGED <<db, txn, ws, erred>>
      /\ txn[t] \in {"open", "failed"} \cup Broken
      /\ phase'[t] = IF arc[t] # {"manager"} THEN "err"
                     ELSE IF phase[t] = "unwrapOk" THEN "commit" ELSE "rollback"
      /\ Elsewhere(t)
  BY DEF TryUnwrap, GoTo, Elsewhere, Shaped, PgTypeOK, Outcome
<1>2. CASE phase'[t] = "err"
  BY <1>1, <1>2, AnswersErr, Seen DEF BlockOf, Broken
<1>3. CASE phase'[t] # "err"
  BY <1>1, <1>3, EndStep
<1> QED
  BY <1>2, <1>3

LEMMA ApplyStep ==
  ASSUME Shaped, NEW t \in Call, CommitApplied(t)
  PROVE  TB!Next \/ UNCHANGED TB!vars
<1>1. /\ (phase[t] = "commit" /\ txn[t] = "open") \/ txn[t] = "committing"
      /\ UNCHANGED <<phase, erred>> /\ txn'[t] = "committed"
      /\ db' = [r \in Row |-> Visible(t, r)]
      /\ Elsewhere(t)
  BY DEF CommitApplied, PgApply, Elsewhere, Shaped, PgTypeOK
<1>2. Block[t] = "closed" /\ Block'[t] = "committed"
  BY <1>1, Seen DEF BlockOf, Broken
<1>3. Told'[t] = Told[t] /\ (Told[t] = "none" \/ (LossyCommit /\ Told[t] = "err"))
  BY <1>1, Seen, TransactionManagerAssumption DEF Shaped, Outcome, Broken
<1>4. \A r \in Row : Writes[t][r] = ws[t][r]
  BY <1>2 DEF Writes, Block
<1>5. db' = [r \in Row |-> IF Writes[t][r] = Unwritten THEN db[r] ELSE Writes[t][r]]
  BY <1>1, <1>4 DEF Visible
<1>6. TB!Commit(t)
  BY <1>1, <1>2, <1>3, <1>5, OneCall, NothingWritten DEF TB!Commit, TB!Only
<1> QED
  BY <1>6 DEF TB!Next

LEMMA CommitOkStep ==
  ASSUME Shaped, NEW t \in Call, CommitOk(t)
  PROVE  TB!Next \/ UNCHANGED TB!vars
<1>1. /\ phase[t] = "commit" /\ phase'[t] = "ok" /\ UNCHANGED <<db, erred>>
      /\ \/ txn[t] = "committed" /\ txn'[t] = "committed"
         \/ txn[t] = "failed" /\ txn'[t] = "aborted" /\ t \in erred
      /\ Elsewhere(t)
  BY DEF CommitOk, PgUndo, GoTo, Elsewhere, Shaped, PgTypeOK, Outcome
<1> QED
  BY <1>1, AnswersOk, Seen DEF BlockOf, Broken

LEMMA CommitErrStep ==
  ASSUME Shaped, NEW t \in Call, CommitErr(t)
  PROVE  TB!Next \/ UNCHANGED TB!vars
<1>1. /\ phase[t] = "commit" /\ phase'[t] = "err" /\ UNCHANGED <<db, erred>>
      /\ \/ txn[t] \in {"open"} \cup Broken /\ txn'[t] \in Broken
         \/ /\ LossyCommit /\ UNCHANGED ws
            /\ \/ txn[t] = "open" /\ txn'[t] = "committing"
               \/ txn[t] = "committed" /\ txn'[t] = "committed"
      /\ Elsewhere(t)
  BY DEF CommitErr, PgUndo, PgMove, GoTo, Elsewhere, Shaped, PgTypeOK, Broken
<1>2. Told[t] = "none" /\ Told'[t] = "err"
  BY <1>1, Seen
<1>3. CASE txn'[t] \in Broken
  BY <1>1, <1>2, <1>3, AnswersErr, Seen DEF BlockOf, Broken
<1>4. CASE txn'[t] \notin Broken
  BY <1>1, <1>2, <1>4, AnswersErr, Seen DEF BlockOf, Broken
<1> QED
  BY <1>3, <1>4

LEMMA RollbackStep ==
  ASSUME Shaped, NEW t \in Call, Rollback(t)
  PROVE  TB!Next \/ UNCHANGED TB!vars
<1>1. /\ phase[t] = "rollback" /\ phase'[t] = "err" /\ UNCHANGED <<db, erred>>
      /\ txn[t] \in {"open", "failed"} \cup Broken /\ txn'[t] \in Broken
      /\ Elsewhere(t)
  BY DEF Rollback, PgUndo, GoTo, Elsewhere, Shaped, PgTypeOK, Broken
<1> QED
  BY <1>1, AnswersErr, Seen DEF BlockOf, Broken

LEMMA CancelStep ==
  ASSUME Shaped, NEW t \in Call, Cancel(t)
  PROVE  TB!Next \/ UNCHANGED TB!vars
<1>1. /\ phase[t] \in {"begin", "closure", "commit", "rollback"} /\ phase'[t] = "cancelled"
      /\ UNCHANGED <<db, ws, erred>>
      /\ txn'[t] = IF phase[t] = "commit" /\ txn[t] = "open" THEN "committing" ELSE txn[t]
      /\ Elsewhere(t)
  BY DEF Cancel, PgMove, GoTo, Elsewhere, Shaped, PgTypeOK
<1>2. /\ phase[t] = "begin" => txn[t] = "none"
      /\ phase[t] \in {"closure", "rollback"} => txn[t] \in {"open", "failed"} \cup Broken
      /\ phase[t] = "commit" => txn[t] \in {"open", "failed", "committed"} \cup Broken
  BY DEF Shaped, Outcome
<1>3. CASE phase[t] = "commit" /\ txn[t] \in {"open", "committed"}
  BY <1>1, <1>3, Stutters, Seen DEF BlockOf, Broken
<1>4. CASE ~(phase[t] = "commit" /\ txn[t] \in {"open", "committed"})
  BY <1>1, <1>2, <1>4, Aborts, Seen DEF BlockOf, Broken
<1> QED
  BY <1>3, <1>4

LEMMA CleanUpStep ==
  ASSUME Shaped, NEW t \in Call, RollbackDropped(t) \/ ConnectionLost(t) \/ SessionEnds(t)
  PROVE  TB!Next \/ UNCHANGED TB!vars
<1>1. /\ UNCHANGED <<db, phase, erred>> /\ txn'[t] \in Broken
      /\ txn[t] \in {"open", "failed", "lost", "committing"}
      /\ Elsewhere(t)
  BY DEF RollbackDropped, ConnectionLost, SessionEnds, PgUndo, PgMove, Elsewhere, Shaped,
     PgTypeOK, Broken
<1> QED
  BY <1>1, Aborts, Seen DEF BlockOf, Broken
-----------------------------------------------------------------------------
(***************************************************************************)
(* The refinement.                                                         *)
(***************************************************************************)
LEMMA BlockInit == Init => TB!Init
<1> SUFFICES ASSUME Init PROVE TB!Init
  OBVIOUS
<1>1. \A t \in Call : BlockOf(t) = "open"
  BY DEF Init, PgInit, BlockOf, Broken
<1>2. Block = [t \in Call |-> "open"]
  BY <1>1 DEF Block
<1>3. Told = [t \in Call |-> "none"]
  BY DEF Init, Told
<1>4. Writes = [t \in Call |-> TB!Empty]
  BY DEF Init, PgInit, Writes, TB!Empty
<1> QED
  BY <1>2, <1>3, <1>4 DEF TB!Init, Init, PgInit

LEMMA BlockStep == Shaped /\ [Next]_vars => TB!Next \/ UNCHANGED TB!vars
<1> SUFFICES ASSUME Shaped, [Next]_vars
             PROVE  TB!Next \/ UNCHANGED TB!vars
  OBVIOUS
<1>1. CASE UNCHANGED vars
  BY <1>1 DEF vars, TB!vars, Block, BlockOf, Writes, Told
<1>2. ASSUME NEW t \in Call, NEW k \in Helper, DropContext(t, k)
      PROVE  UNCHANGED TB!vars
  BY <1>2, Stutters, Seen DEF DropContext, Elsewhere, BlockOf
<1>3. ASSUME NEW t \in Call, NEW h \in Task, NEW k \in Helper, ShareContext(t, h, k)
      PROVE  UNCHANGED TB!vars
  BY <1>3, Stutters, Seen DEF ShareContext, Elsewhere, BlockOf
<1> QED
  BY <1>1, <1>2, <1>3, MoveStep, BeginStep, StatementStep, UnwrapStep, ApplyStep,
     CommitOkStep, CommitErrStep, RollbackStep, CancelStep, CleanUpStep DEF Next

\* transaction() implements the contract: what a call commits is what its block had
\* written when the context was reclaimed, all at once, and what it answers tells whether
\* that has happened.
THEOREM ImplementsBlock == Spec => ImplementsTransactionBlock
<1>1. IInv /\ [Next]_vars => [TB!Next]_TB!vars
  BY BlockStep, InvShapes
<1> QED
  BY <1>1, BlockInit, Invariance, PTL DEF Spec, Safety, ImplementsTransactionBlock, TB!Spec
-----------------------------------------------------------------------------
(***************************************************************************)
(* The archived managers keep the contract, and the meaning of Ok, without *)
(* ever having the context to themselves: the Mutex is enough.  Where      *)
(* transactions can be is as in TransactionManager (Outcome); who holds    *)
(* the context, and when, is not.                                          *)
(***************************************************************************)
LEMMA LockedTypeStep == LockedTypeOK /\ [LockedNext]_vars => LockedTypeOK'
<1> SUFFICES ASSUME LockedTypeOK, [LockedNext]_vars
             PROVE  LockedTypeOK'
  OBVIOUS
<1> USE TransactionManagerAssumption DEF LockedTypeOK, Phase, Answered, Owner, Task
<1>1. CASE UNCHANGED vars
  BY <1>1 DEF vars, PgTypeOK
<1>2. ASSUME NEW t \in Call, Transaction(t) \/ BeginErr(t) PROVE LockedTypeOK'
  BY <1>2 DEF Transaction, BeginErr, GoTo, PgTypeOK
<1>3. ASSUME NEW t \in Call, Begin(t) PROVE LockedTypeOK'
  BY <1>3, PgEndTypes DEF Begin, GoTo, TxnState
<1>4. ASSUME NEW t \in Call, NEW h \in Task, Statement(t, h) PROVE LockedTypeOK'
  <2>1. CASE LockContext(t, h)
    BY <2>1 DEF LockContext, PgTypeOK
  <2>2. ASSUME Answer(t, h), PgTypeOK', erred' \in {erred, erred \cup {t}}
        PROVE  LockedTypeOK'
    BY <2>2 DEF Answer
  <2>3. CASE Find(t, h)
    BY <2>2, <2>3 DEF Find, PgSelect, PgTypeOK
  <2>4. ASSUME NEW r \in Row, FindForUpdate(t, h, r) PROVE LockedTypeOK'
    BY <2>2, <2>4, PgLockTypes DEF FindForUpdate
  <2>5. ASSUME NEW r \in Row, NEW v \in Value, Create(t, h, r, v) \/ Update(t, h, r, v)
        PROVE LockedTypeOK'
    BY <2>2, <2>5, PgStatementTypes DEF Create, Update
  <2>6. CASE StatementErr(t, h)
    BY <2>2, <2>6, PgFailTypes DEF StatementErr
  <2> QED
    BY <1>4, <2>1, <2>3, <2>4, <2>5, <2>6 DEF Statement
<1>5. ASSUME NEW t \in Call, NEW h \in Task, NEW k \in Helper, ShareContext(t, h, k)
      PROVE LockedTypeOK'
  BY <1>5 DEF ShareContext, PgTypeOK
<1>6. ASSUME NEW t \in Call, NEW k \in Helper, DropContext(t, k) PROVE LockedTypeOK'
  BY <1>6 DEF DropContext, Unlocked, PgTypeOK
<1>7. ASSUME NEW t \in Call, NEW result \in {"ok", "err"}, ClosureReturns(t, result)
      PROVE LockedTypeOK'
  BY <1>7 DEF ClosureReturns, GoTo, PgTypeOK
<1>8. ASSUME NEW t \in Call, LockToEnd(t) PROVE LockedTypeOK'
  BY <1>8 DEF LockToEnd, GoTo, PgTypeOK
<1>9. ASSUME NEW t \in Call, CommitApplied(t) PROVE LockedTypeOK'
  BY <1>9, PgEndTypes DEF CommitApplied, TxnState
<1>10. ASSUME NEW t \in Call, LockedCommitOk(t) \/ LockedCommitErr(t) \/ LockedRollback(t)
       PROVE LockedTypeOK'
  <2>1. UNCHANGED pgVars \/ PgUndo(t, "aborted") \/ PgMove(t, "committing")
    BY <1>10 DEF LockedCommitOk, LockedCommitErr, LockedRollback
  <2>2. PgTypeOK'
    BY <2>1, PgEndTypes DEF TxnState, PgTypeOK
  <2>3. phase[t] \in {"commit", "rollback"} /\ (AnswerAs(t, "ok") \/ AnswerAs(t, "err"))
    BY <1>10 DEF LockedCommitOk, LockedCommitErr, LockedRollback
  <2> QED
    BY <2>2, <2>3 DEF AnswerAs, GoTo
<1>11. ASSUME NEW t \in Call, LockedCancel(t) PROVE LockedTypeOK'
  <2>1. PgTypeOK'
    BY <1>11, PgEndTypes DEF LockedCancel, TxnState, PgTypeOK
  <2> QED
    BY <1>11, <2>1 DEF LockedCancel, GoTo
<1>12. ASSUME NEW t \in Call, RollbackDropped(t) \/ ConnectionLost(t) \/ SessionEnds(t)
       PROVE LockedTypeOK'
  BY <1>12, PgEndTypes DEF RollbackDropped, ConnectionLost, SessionEnds, TxnState
<1> QED
  BY <1>1, <1>2, <1>3, <1>4, <1>5, <1>6, <1>7, <1>8, <1>9, <1>10, <1>11, <1>12
     DEF LockedNext
-----------------------------------------------------------------------------
(***************************************************************************)
(* The inductive invariant.                                                *)
(***************************************************************************)
\* A task that has the Mutex locked holds a clone of the Arc, and there is none before the
\* context is made or after the call has ended its transaction.
LockedOwnership ==
  \A t \in Call :
    /\ "closure" \in arc[t] => phase[t] = "closure"
    /\ phase[t] \in {"idle", "begin", "ok"} => arc[t] = {}
    /\ guard[t] \in Task => guard[t] \in arc[t]

LockedIInv == LockedTypeOK /\ LockedOwnership /\ Outcome

LEMMA LockedOwnershipStep ==
  LockedTypeOK /\ LockedOwnership /\ [LockedNext]_vars => LockedOwnership'
<1> SUFFICES ASSUME LockedTypeOK, LockedOwnership, [LockedNext]_vars
             PROVE  LockedOwnership'
  OBVIOUS
<1> USE TransactionManagerAssumption
    DEF LockedTypeOK, LockedOwnership, Phase, Answered, Owner, Task
<1>1. CASE UNCHANGED <<phase, arc, guard>>
  BY <1>1
<1>2. ASSUME NEW t \in Call, Transaction(t) \/ BeginErr(t) PROVE LockedOwnership'
  BY <1>2 DEF Transaction, BeginErr, GoTo
<1>3. ASSUME NEW t \in Call, Begin(t) PROVE LockedOwnership'
  BY <1>3 DEF Begin, GoTo
<1>4. ASSUME NEW t \in Call, NEW h \in Task, Statement(t, h) PROVE LockedOwnership'
  <2>1. CASE LockContext(t, h)
    BY <2>1 DEF LockContext
  <2>2. CASE Answer(t, h)
    BY <2>2 DEF Answer
  <2> QED
    BY <1>4, <2>1, <2>2 DEF Statement, Find, FindForUpdate, Create, Update, StatementErr
<1>5. ASSUME NEW t \in Call, NEW h \in Task, NEW k \in Helper, ShareContext(t, h, k)
      PROVE LockedOwnership'
  BY <1>5 DEF ShareContext
<1>6. ASSUME NEW t \in Call, NEW k \in Helper, DropContext(t, k) PROVE LockedOwnership'
  BY <1>6 DEF DropContext, Unlocked
<1>7. ASSUME NEW t \in Call, NEW result \in {"ok", "err"}, ClosureReturns(t, result)
      PROVE LockedOwnership'
  BY <1>7 DEF ClosureReturns, GoTo
<1>8. ASSUME NEW t \in Call, LockToEnd(t) PROVE LockedOwnership'
  BY <1>8 DEF LockToEnd, GoTo
<1>9. ASSUME NEW t \in Call, AnswerAs(t, "ok") \/ AnswerAs(t, "err") PROVE LockedOwnership'
  BY <1>9 DEF AnswerAs, GoTo
<1>10. ASSUME NEW t \in Call, LockedCancel(t) PROVE LockedOwnership'
  BY <1>10 DEF LockedCancel, GoTo
<1>11. ASSUME NEW t \in Call,
              \/ CommitApplied(t) \/ RollbackDropped(t)
              \/ ConnectionLost(t) \/ SessionEnds(t)
       PROVE LockedOwnership'
  BY <1>1, <1>11 DEF CommitApplied, RollbackDropped, ConnectionLost, SessionEnds
<1> QED
  BY <1>1, <1>2, <1>3, <1>4, <1>5, <1>6, <1>7, <1>8, <1>9, <1>10, <1>11
     DEF LockedNext, vars, LockedCommitOk, LockedCommitErr, LockedRollback

LEMMA LockedShapes == LockedTypeOK /\ LockedOwnership /\ Outcome => Shaped
<1> SUFFICES ASSUME LockedTypeOK, LockedOwnership, NEW t \in Call, guard[t] \in Task
             PROVE  phase[t] \in {"closure", "unwrapOk", "unwrapErr", "err", "cancelled"}
  BY DEF LockedTypeOK, Shaped
<1>1. guard[t] # "manager" /\ guard[t] \in arc[t]
  BY TransactionManagerAssumption DEF Task, LockedOwnership
<1> QED
  BY <1>1 DEF LockedTypeOK, LockedOwnership, Phase, Answered

LEMMA LockedOutcomeStep ==
  LockedTypeOK /\ LockedOwnership /\ Outcome /\ [LockedNext]_vars => Outcome'
<1> SUFFICES ASSUME LockedTypeOK, LockedOwnership, Outcome, [LockedNext]_vars
             PROVE  Outcome'
  OBVIOUS
<1>0. Shaped
  BY LockedShapes
<1> USE DEF LockedTypeOK, PgTypeOK, TxnState, Broken, Outcome, Phase, Answered
<1>1. CASE UNCHANGED <<txn, phase, erred>>
  BY <1>1
<1>2. ASSUME NEW t \in Call, Transaction(t) \/ BeginErr(t) PROVE Outcome'
  BY <1>2 DEF Transaction, BeginErr, GoTo
<1>3. ASSUME NEW t \in Call, Begin(t) PROVE Outcome'
  BY <1>3 DEF Begin, PgBegin, GoTo
<1>4. ASSUME NEW t \in Call, NEW h \in Task, Statement(t, h) PROVE Outcome'
  <2>1. CASE StatementErr(t, h)
    BY <1>0, <2>1 DEF StatementErr, PgFail, PgUndo, Answer, Shaped
  <2> QED
    BY <1>1, <1>4, <2>1 DEF Statement, LockContext, Find, FindForUpdate, Create, Update,
       Answer, PgSelect, PgSelectForUpdate, PgInsert, PgUpdate
<1>5. ASSUME NEW t \in Call, NEW h \in Task, NEW k \in Helper, ShareContext(t, h, k)
      PROVE Outcome'
  BY <1>1, <1>5 DEF ShareContext
<1>6. ASSUME NEW t \in Call, NEW k \in Helper, DropContext(t, k) PROVE Outcome'
  BY <1>1, <1>6 DEF DropContext
<1>7. ASSUME NEW t \in Call, NEW result \in {"ok", "err"}, ClosureReturns(t, result)
      PROVE Outcome'
  BY <1>7 DEF ClosureReturns, GoTo
<1>8. ASSUME NEW t \in Call, LockToEnd(t) PROVE Outcome'
  BY <1>8 DEF LockToEnd, GoTo
<1>9. ASSUME NEW t \in Call, CommitApplied(t) PROVE Outcome'
  BY <1>9 DEF CommitApplied, PgApply
<1>10. ASSUME NEW t \in Call, LockedCommitOk(t) PROVE Outcome'
  BY <1>10 DEF LockedCommitOk, PgUndo, AnswerAs, GoTo
<1>11. ASSUME NEW t \in Call, LockedCommitErr(t) PROVE Outcome'
  BY <1>11 DEF LockedCommitErr, PgUndo, PgMove, AnswerAs, GoTo
<1>12. ASSUME NEW t \in Call, LockedRollback(t) PROVE Outcome'
  BY <1>12 DEF LockedRollback, PgUndo, AnswerAs, GoTo
<1>13. ASSUME NEW t \in Call, LockedCancel(t) PROVE Outcome'
  BY <1>13 DEF LockedCancel, PgMove, GoTo
<1>14. ASSUME NEW t \in Call, RollbackDropped(t) PROVE Outcome'
  BY <1>14 DEF RollbackDropped, Dropped, Held, PgUndo
<1>15. ASSUME NEW t \in Call, ConnectionLost(t) \/ SessionEnds(t) PROVE Outcome'
  BY <1>15 DEF ConnectionLost, SessionEnds, PgMove, PgUndo
<1> QED
  BY <1>1, <1>2, <1>3, <1>4, <1>5, <1>6, <1>7, <1>8, <1>9, <1>10, <1>11, <1>12, <1>13,
     <1>14, <1>15 DEF LockedNext, vars

LEMMA LockedInvariance == LockedSafety => []LockedIInv
<1>1. Init => LockedIInv
  BY TransactionManagerAssumption DEF Init, PgInit, LockedIInv, LockedTypeOK, PgTypeOK,
     Phase, TxnState, LockedOwnership, Outcome, Task
<1>2. LockedIInv /\ [LockedNext]_vars => LockedIInv'
  BY LockedTypeStep, LockedOwnershipStep, LockedOutcomeStep DEF LockedIInv
<1> QED
  BY <1>1, <1>2, PTL DEF LockedSafety
-----------------------------------------------------------------------------
(***************************************************************************)
(* The steps of the contract: those of the actions that TransactionManager *)
(* does not have.                                                          *)
(***************************************************************************)
LEMMA LockToEndStep ==
  ASSUME Shaped, NEW t \in Call, LockToEnd(t)
  PROVE  TB!Next \/ UNCHANGED TB!vars
<1>1. /\ UNCHANGED <<db, txn, ws, erred>>
      /\ Elsewhere(t)
      /\ \/ phase[t] = "unwrapOk" /\ phase'[t] = "commit"
         \/ phase[t] = "unwrapErr" /\ phase'[t] = "rollback"
  BY DEF LockToEnd, GoTo, Elsewhere, Shaped
<1> QED
  BY <1>1, EndStep

LEMMA LockedCommitOkStep ==
  ASSUME Shaped, NEW t \in Call, LockedCommitOk(t)
  PROVE  TB!Next \/ UNCHANGED TB!vars
<1>1. /\ phase[t] = "commit" /\ phase'[t] = "ok" /\ UNCHANGED <<db, erred>>
      /\ \/ txn[t] = "committed" /\ txn'[t] = "committed"
         \/ txn[t] = "failed" /\ txn'[t] = "aborted" /\ t \in erred
      /\ Elsewhere(t)
  BY DEF LockedCommitOk, PgUndo, AnswerAs, GoTo, Elsewhere, Shaped, PgTypeOK, Outcome
<1> QED
  BY <1>1, AnswersOk, Seen DEF BlockOf, Broken

LEMMA LockedAnswersErrStep ==
  ASSUME Shaped, NEW t \in Call, LockedCommitErr(t) \/ LockedRollback(t)
  PROVE  TB!Next \/ UNCHANGED TB!vars
<1>1. CASE LockedRollback(t)
  <2>1. /\ phase[t] = "rollback" /\ phase'[t] = "err" /\ UNCHANGED <<db, erred>>
        /\ txn[t] \in {"open", "failed"} \cup Broken /\ txn'[t] \in Broken
        /\ Elsewhere(t)
    BY <1>1 DEF LockedRollback, PgUndo, AnswerAs, GoTo, Elsewhere, Shaped, PgTypeOK, Broken
  <2> QED
    BY <2>1, AnswersErr, Seen DEF BlockOf, Broken
<1>2. CASE LockedCommitErr(t)
  <2>1. /\ phase[t] = "commit" /\ phase'[t] = "err" /\ UNCHANGED <<db, erred>>
        /\ \/ txn[t] \in {"open"} \cup Broken /\ txn'[t] \in Broken
           \/ /\ LossyCommit /\ UNCHANGED ws
              /\ \/ txn[t] = "open" /\ txn'[t] = "committing"
                 \/ txn[t] = "committed" /\ txn'[t] = "committed"
        /\ Elsewhere(t)
    BY <1>2 DEF LockedCommitErr, PgUndo, PgMove, AnswerAs, GoTo, Elsewhere, Shaped, PgTypeOK,
       Broken
  <2>2. Told[t] = "none" /\ Told'[t] = "err"
    BY <2>1, Seen
  <2>3. CASE txn'[t] \in Broken
    BY <2>1, <2>2, <2>3, AnswersErr, Seen DEF BlockOf, Broken
  <2>4. CASE txn'[t] \notin Broken
    BY <2>1, <2>2, <2>4, AnswersErr, Seen DEF BlockOf, Broken
  <2> QED
    BY <2>3, <2>4
<1> QED
  BY <1>1, <1>2

LEMMA LockedCancelStep ==
  ASSUME Shaped, NEW t \in Call, LockedCancel(t)
  PROVE  TB!Next \/ UNCHANGED TB!vars
<1>1. /\ phase[t] \in {"begin", "closure", "unwrapOk", "unwrapErr", "commit", "rollback"}
      /\ phase'[t] = "cancelled"
      /\ UNCHANGED <<db, ws, erred>>
      /\ txn'[t] = IF phase[t] = "commit" /\ txn[t] = "open" THEN "committing" ELSE txn[t]
      /\ Elsewhere(t)
  BY DEF LockedCancel, PgMove, GoTo, Elsewhere, Shaped, PgTypeOK
<1>2. CASE phase[t] = "commit" /\ txn[t] \in {"open", "committed"}
  BY <1>1, <1>2, Stutters, Seen DEF BlockOf, Broken
<1>3. CASE phase[t] = "commit" /\ txn[t] \notin {"open", "committed"}
  BY <1>1, <1>3, Aborts, Seen DEF BlockOf, Broken, Shaped, Outcome
<1>4. CASE phase[t] # "commit"
  <2>1. txn[t] \in {"none", "open", "failed"} \cup Broken
    BY <1>1, <1>4 DEF Shaped, Outcome
  <2> QED
    BY <1>1, <1>4, <2>1, Aborts, Seen DEF BlockOf, Broken
<1> QED
  BY <1>2, <1>3, <1>4

LEMMA LockedBlockStep == Shaped /\ [LockedNext]_vars => TB!Next \/ UNCHANGED TB!vars
<1> SUFFICES ASSUME Shaped, [LockedNext]_vars
             PROVE  TB!Next \/ UNCHANGED TB!vars
  OBVIOUS
<1>1. CASE UNCHANGED vars
  BY <1>1 DEF vars, TB!vars, Block, BlockOf, Writes, Told
<1>2. ASSUME NEW t \in Call,
             \/ \E k \in Helper : DropContext(t, k)
             \/ \E h \in Task, k \in Helper : ShareContext(t, h, k)
      PROVE  UNCHANGED TB!vars
  BY <1>2, Stutters, Seen DEF DropContext, ShareContext, Elsewhere, BlockOf
<1> QED
  BY <1>1, <1>2, MoveStep, BeginStep, StatementStep, LockToEndStep, ApplyStep,
     LockedCommitOkStep, LockedAnswersErrStep, LockedCancelStep, CleanUpStep DEF LockedNext
-----------------------------------------------------------------------------
(***************************************************************************)
(* Theorems.                                                               *)
(***************************************************************************)
\* Every variable keeps its type, and the manager has the context locked exactly while it
\* ends the transaction: no statement runs under a COMMIT or a ROLLBACK.
THEOREM LockedTypeCorrect == LockedSpec => []LockedTypeOK
<1>1. LockedIInv => LockedTypeOK
  BY DEF LockedIInv
<1> QED
  BY <1>1, LockedInvariance, PTL DEF LockedSpec

\* Ok of an archived manager means committed, for a closure that swallows no error.
THEOREM LockedOkIsCommitted == LockedSpec => []OkMeansCommitted
<1>1. LockedIInv => OkMeansCommitted
  BY DEF LockedIInv, Outcome, OkMeansCommitted
<1> QED
  BY <1>1, LockedInvariance, PTL DEF LockedSpec

\* The archived managers implement the same contract as the one that replaced them,
\* whatever helpers do with the context.
THEOREM LockedImplementsBlock == LockedSpec => ImplementsTransactionBlock
<1>1. LockedIInv => Shaped
  BY LockedShapes DEF LockedIInv
<1>2. LockedIInv /\ [LockedNext]_vars => [TB!Next]_TB!vars
  BY <1>1, LockedBlockStep
<1> QED
  BY <1>2, BlockInit, LockedInvariance, PTL DEF LockedSpec, LockedSafety,
     ImplementsTransactionBlock, TB!Spec
=============================================================================
