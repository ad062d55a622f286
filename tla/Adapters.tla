------------------------------ MODULE Adapters ------------------------------
(***************************************************************************)
(* The sqlx and the SeaORM repositories side by side.  Each adapter has    *)
(* its own schema in the database, the same rows in both; one closure runs *)
(* over each, issuing the same repository calls as long as the answers     *)
(* agree, while another program deletes rows.                              *)
(*                                                                         *)
(* `strayed` is history: the closure has updated a row it had not locked,  *)
(* which create_order never does and the repositories' interface allows.   *)
(***************************************************************************)
EXTENDS Postgres, Quantities

CONSTANTS
  Item, OrderId,
  Quantity  \* what a row may hold

Adapter == {"sqlx", "seaorm"}
Key == Item \cup OrderId

\* A transaction for each adapter, a row for each key in each schema.
ASSUME AdaptersAssumption ==
  /\ Call = Adapter
  /\ Row = Adapter \X Key
  /\ Value = Quantity
  /\ Quantity \subseteq I32

VARIABLES
  op,      \* the repository call both closures make next
  done,    \* the adapters that have answered it
  answer,  \* what each answered
  strayed  \* history: a row that was not locked has been updated

closureVars == <<op, done, answer, strayed>>
vars == <<pgVars, closureVars>>

NoCall == [name |-> "none"]

\* The calls of InventoryRepository and OrderRepository, with what an Inventory may hold
\* and what an OrderQuantity may become in the table.
Calls ==
  [name : {"findForUpdate", "find"}, key : Item] \cup [name : {"findById"}, key : OrderId]
  \cup [name : {"create", "update"}, key : Item, quantity : {q \in Quantity : ~InventoryRejects(q)}]
  \cup [name : {"create"}, key : OrderId, quantity : {q \in Quantity : ~QuantityNewRejects(AsU32(q))}]

\* What a repository call answers: a row's quantity, no row, done, or an error.
Ok == [is |-> "ok"]
Err == [is |-> "err"]
Absent == [is |-> "absent"]
Answer == {Ok, Err, Absent} \cup [is : {"row"}, quantity : Quantity]

\* Every variable has its type, and an adapter's transaction locks its own rows only.
AdaptersTypeOK ==
  /\ PgTypeOK
  /\ op \in Calls \cup {NoCall}
  /\ done \subseteq Adapter
  /\ answer \in [Adapter -> Answer]
  /\ strayed \in BOOLEAN
  /\ \A a, b \in Adapter, k \in Key : lock[<<a, k>>] = b => a = b

Init ==
  /\ \E rows \in [Key -> Quantity \cup {NoRow}] : db = [r \in Row |-> rows[r[2]]]
  /\ PgInit
  /\ op = NoCall /\ done = Adapter /\ answer = [a \in Adapter |-> Ok]
  /\ strayed = FALSE

Answers(a, v) == answer' = [answer EXCEPT ![a] = v]

\* Inventory::new and OrderQuantity::try_from refuse some of the rows they are given.
Refused(k, q) == IF k \in Item THEN InventoryRejects(q) ELSE OrderQuantityRejects(q)

Found(a, k) ==
  LET q == Visible(a, <<a, k>>)
  IN  IF q = NoRow THEN Absent
      ELSE IF Refused(k, q) THEN Err ELSE [is |-> "row", quantity |-> q]
-----------------------------------------------------------------------------
BeginBoth ==
  /\ \A a \in Adapter : txn[a] = "none"
  /\ txn' = [a \in Adapter |-> "open"]
  /\ UNCHANGED <<db, ws, lock, closureVars>>

\* Both closures come to their next call, after the same answers to the last.
Issue(c) ==
  /\ \A a \in Adapter : txn[a] \in {"open", "failed"}
  /\ done = Adapter
  /\ answer["sqlx"] = answer["seaorm"]
  /\ op' = c /\ done' = {}
  /\ strayed' = (strayed \/ (c.name = "update" /\ \E a \in Adapter : lock[<<a, c.key>>] # a))
  /\ UNCHANGED <<pgVars, answer>>

Is(a, name) ==
  /\ op.name = name /\ a \notin done
  /\ done' = done \cup {a}
  /\ UNCHANGED <<op, strayed>>

\* Mutant of FindForUpdate: both adapters lock the row in sqlx's schema.
FindForUpdateElsewhere(a) ==
  /\ Is(a, "findForUpdate")
  /\ PgSelectForUpdate(a, <<"sqlx", op.key>>)
  /\ Answers(a, Found(a, op.key))

\* Mutant of FindForUpdate: sqlx's query has lost its FOR UPDATE.
FindForUpdateUnlocked(a) ==
  /\ Is(a, "findForUpdate")
  /\ IF a = "sqlx" THEN PgSelect(a) ELSE PgSelectForUpdate(a, <<a, op.key>>)
  /\ Answers(a, Found(a, op.key))

FindForUpdate(a) ==
  /\ Is(a, "findForUpdate")
  /\ PgSelectForUpdate(a, <<a, op.key>>)
  /\ Answers(a, Found(a, op.key))

FindItem(a) ==
  /\ Is(a, "find")
  /\ PgSelect(a)
  /\ Answers(a, Found(a, op.key))

\* Mutant of FindById: SeaORM's row becomes an Order without try_from.
FindByIdUnchecked(a) ==
  /\ Is(a, "findById")
  /\ PgSelect(a)
  /\ LET q == Visible(a, <<a, op.key>>)
     IN  Answers(a, IF a = "seaorm" /\ q # NoRow THEN [is |-> "row", quantity |-> q]
                    ELSE Found(a, op.key))

FindById(a) ==
  /\ Is(a, "findById")
  /\ PgSelect(a)
  /\ Answers(a, Found(a, op.key))

Create(a) ==
  /\ Is(a, "create")
  /\ PgInsert(a, <<a, op.key>>, op.quantity)
  /\ Answers(a, Ok)

\* The key is already there: the server fails the transaction.
CreateDuplicate(a) ==
  /\ Is(a, "create")
  /\ txn[a] = "open" /\ Visible(a, <<a, op.key>>) # NoRow
  /\ PgFail(a)
  /\ Answers(a, Err)

\* Mutant of UpdateSqlx: the WHERE clause is missing.
UpdateSqlxAll(a) ==
  /\ a = "sqlx"
  /\ Is(a, "update")
  /\ txn[a] = "open"
  /\ ws' = [ws EXCEPT ![a] = [r \in Row |-> IF r[1] = a /\ r[2] \in Item /\ Visible(a, r) # NoRow
                                            THEN op.quantity ELSE @[r]]]
  /\ Answers(a, Ok)
  /\ UNCHANGED <<db, txn, lock>>

\* sqlx's update answers Ok however many rows it has changed.
UpdateSqlx(a) ==
  /\ a = "sqlx"
  /\ Is(a, "update")
  /\ PgUpdate(a, <<a, op.key>>, op.quantity)
  /\ Answers(a, Ok)

\* SeaORM's update answers Err (RecordNotUpdated) when it has changed none; the server
\* has not failed, so the transaction stays open.
UpdateSeaOrm(a) ==
  /\ a = "seaorm"
  /\ Is(a, "update")
  /\ PgUpdate(a, <<a, op.key>>, op.quantity)
  /\ Answers(a, IF Visible(a, <<a, op.key>>) = NoRow THEN Err ELSE Ok)

\* Any call in a failed transaction.
CallFails(a) ==
  /\ op # NoCall /\ a \notin done
  /\ txn[a] = "failed" /\ PgFail(a)
  /\ done' = done \cup {a} /\ UNCHANGED <<op, strayed>>
  /\ Answers(a, Err)

\* Both closures return, with Err if they pass on an error, and both transactions end; the
\* COMMIT of a failed one undoes it.
Ends(committed) ==
  /\ db' = [r \in Row |-> IF r[1] \in committed THEN Visible(r[1], r) ELSE db[r]]
  /\ txn' = [a \in Adapter |-> IF a \in committed THEN "committed" ELSE "aborted"]
  /\ ws' = [a \in Adapter |-> [r \in Row |-> Unwritten]]
  /\ lock' = [r \in Row |-> Nobody]

EndBoth(keepErrors) ==
  /\ \A a \in Adapter : txn[a] \in {"open", "failed"}
  /\ done = Adapter
  /\ Ends({a \in Adapter : txn[a] = "open" /\ (keepErrors => answer[a] # Err)})
  /\ UNCHANGED closureVars

\* Another program deletes a row of both schemas; it would wait for a lock.
Delete(k) ==
  /\ \A a \in Adapter : lock[<<a, k>>] = Nobody /\ (done = Adapter)
  /\ db' = [r \in Row |-> IF r[2] = k THEN NoRow ELSE db[r]]
  /\ UNCHANGED <<txn, ws, lock, closureVars>>

Run(a) ==
  \/ FindForUpdate(a) \/ FindItem(a) \/ FindById(a) \/ Create(a) \/ CreateDuplicate(a)
  \/ UpdateSqlx(a) \/ UpdateSeaOrm(a) \/ CallFails(a)

Next ==
  \/ BeginBoth
  \/ \E c \in Calls : Issue(c)
  \/ \E a \in Adapter : Run(a)
  \/ \E keepErrors \in BOOLEAN : EndBoth(keepErrors)
  \/ \E k \in Key : Delete(k)

Spec == Init /\ [][Next]_vars
-----------------------------------------------------------------------------
(***************************************************************************)
(* Properties.                                                             *)
(***************************************************************************)
\* Both adapters answer every call of a closure alike, if it updates only what it has locked
\* (an update that matches no row is Ok to sqlx and an Err to SeaORM).
SameAnswers == done = Adapter /\ ~strayed => answer["sqlx"] = answer["seaorm"]

\* Whatever such a closure did, and however its transactions ended, the two schemas hold
\* the same rows.
SameTables ==
  ~strayed => \A k \in Key : db[<<"sqlx", k>>] = db[<<"seaorm", k>>]

\* While both are open, its next statement would meet the same rows and the same locks.
SameViews ==
  done = Adapter /\ ~strayed => \A k \in Key :
    /\ Visible("sqlx", <<"sqlx", k>>) = Visible("seaorm", <<"seaorm", k>>)
    /\ lock[<<"sqlx", k>>] = "sqlx" <=> lock[<<"seaorm", k>>] = "seaorm"
=============================================================================
