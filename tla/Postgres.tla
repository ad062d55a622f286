------------------------------ MODULE Postgres ------------------------------
(***************************************************************************)
(* PostgreSQL at READ COMMITTED, as sqlx and SeaORM use it: the steps a    *)
(* database transaction takes, with the row locks it holds until it ends.  *)
(* A transaction is named by the call of transaction() that began it.      *)
(*                                                                         *)
(* External to the repository: modelled from the statements its adapters   *)
(* issue.  No statement of theirs deletes a row, so neither does this      *)
(* module.                                                                 *)
(***************************************************************************)
EXTENDS Integers, FiniteSets

CONSTANTS
  Call,       \* the calls of transaction(); each begins at most one transaction
  Row,        \* the keys of the tables
  Value,      \* what a row may hold
  NoRow,      \* there is no such row
  Unwritten,  \* the transaction has not written the row
  Nobody      \* the lock is free

ASSUME PostgresAssumption ==
  /\ NoRow \notin Value
  /\ Unwritten \notin Value \cup {NoRow}
  /\ Nobody \notin Call

VARIABLES
  db,    \* the committed row of each key
  txn,   \* where each transaction is
  ws,    \* what each transaction has written and not yet committed
  lock   \* the transaction that holds each row's exclusive lock

pgVars == <<db, txn, ws, lock>>

(***************************************************************************)
(* "failed": a statement failed and the server has undone the transaction; *)
(* the session answers every further statement with an error.  "lost": the *)
(* connection is gone, and the server has not noticed.  "committing":      *)
(* COMMIT is on its way and nobody waits for the answer any more.  A       *)
(* transaction may be "aborted" before its client finds out.               *)
(***************************************************************************)
TxnState == {"none", "open", "failed", "lost", "committing", "committed", "aborted"}

\* The client has no connection left to end the transaction with.
Broken == {"lost", "aborted"}

PgTypeOK ==
  /\ db \in [Row -> Value \cup {NoRow}]
  /\ txn \in [Call -> TxnState]
  /\ ws \in [Call -> [Row -> Value \cup {Unwritten}]]
  /\ lock \in [Row -> Call \cup {Nobody}]

PgInit ==
  /\ db \in [Row -> Value \cup {NoRow}]
  /\ txn = [t \in Call |-> "none"]
  /\ ws = [t \in Call |-> [r \in Row |-> Unwritten]]
  /\ lock = [r \in Row |-> Nobody]

\* The row as transaction t reads it: its own write, else the last committed one.
Visible(t, r) == IF ws[t][r] # Unwritten THEN ws[t][r] ELSE db[r]

\* A statement of t that needs the lock of row r waits while this is false.
Lockable(t, r) == lock[r] \in {Nobody, t}

Released(t) == [r \in Row |-> IF lock[r] = t THEN Nobody ELSE lock[r]]

PgBegin(t) ==
  /\ txn[t] = "none"
  /\ txn' = [txn EXCEPT ![t] = "open"]
  /\ UNCHANGED <<db, ws, lock>>

PgSelect(t) == txn[t] = "open" /\ UNCHANGED pgVars

\* Locks the row if there is one to see; a row that is not there is not locked.
PgSelectForUpdate(t, r) ==
  /\ txn[t] = "open"
  /\ Visible(t, r) # NoRow => Lockable(t, r)
  /\ lock' = IF Visible(t, r) = NoRow THEN lock ELSE [lock EXCEPT ![r] = t]
  /\ UNCHANGED <<db, txn, ws>>

\* Waits for another transaction's uncommitted insert of the same key.  A row that
\* is already there makes the statement fail (PgFail).
PgInsert(t, r, v) ==
  /\ txn[t] = "open"
  /\ Visible(t, r) = NoRow
  /\ Lockable(t, r)
  /\ lock' = [lock EXCEPT ![r] = t]
  /\ ws' = [ws EXCEPT ![t][r] = v]
  /\ UNCHANGED <<db, txn>>

\* An UPDATE of a row that is not there succeeds and changes nothing.
PgUpdate(t, r, v) ==
  /\ txn[t] = "open"
  /\ \/ /\ Visible(t, r) = NoRow
        /\ UNCHANGED <<lock, ws>>
     \/ /\ Visible(t, r) # NoRow
        /\ Lockable(t, r)
        /\ lock' = [lock EXCEPT ![r] = t]
        /\ ws' = [ws EXCEPT ![t][r] = v]
  /\ UNCHANGED <<db, txn>>

\* The transaction's writes are undone and its locks released.
PgUndo(t, state) ==
  /\ txn' = [txn EXCEPT ![t] = state]
  /\ ws' = [ws EXCEPT ![t] = [r \in Row |-> Unwritten]]
  /\ lock' = Released(t)
  /\ UNCHANGED db

\* A statement fails: an open transaction is undone at once.
PgFail(t) ==
  \/ txn[t] = "open" /\ PgUndo(t, "failed")
  \/ txn[t] \in {"failed"} \cup Broken /\ UNCHANGED pgVars

\* The server applies COMMIT.
PgApply(t) ==
  /\ db' = [r \in Row |-> Visible(t, r)]
  /\ txn' = [txn EXCEPT ![t] = "committed"]
  /\ ws' = [ws EXCEPT ![t] = [r \in Row |-> Unwritten]]
  /\ lock' = Released(t)

\* The transaction's state changes for its client only.
PgMove(t, state) ==
  /\ txn' = [txn EXCEPT ![t] = state]
  /\ UNCHANGED <<db, ws, lock>>
=============================================================================
