---------------------------- MODULE AdaptersProofs --------------------------
(***************************************************************************)
(* Theorems of Adapters: for any items, orders and quantities, a closure   *)
(* that updates only what it has locked cannot tell the sqlx repositories  *)
(* from the SeaORM ones.  The argument: what a repository call does to a   *)
(* transaction and what it answers are functions of what the transaction   *)
(* sees and holds, the same ones for both adapters; so the one that goes   *)
(* first is always where the other will be.                                *)
(***************************************************************************)
EXTENDS Adapters, TLAPS

USE DEF pgVars, Adapter

\* What adapter a's transaction is, reads, has written and has locked, in its own schema.
Side(a) ==
  [txn  |-> txn[a],
   db   |-> [k \in Key |-> db[<<a, k>>]],
   ws   |-> [k \in Key |-> ws[a][<<a, k>>]],
   held |-> {k \in Key : lock[<<a, k>>] = a}]

Seen(s, k) == IF s.ws[k] # Unwritten THEN s.ws[k] ELSE s.db[k]

Read(s, k) ==
  LET q == Seen(s, k)
  IN  IF q = NoRow THEN Absent
      ELSE IF Refused(k, q) THEN Err ELSE [is |-> "row", quantity |-> q]

Lock(s, k) == [txn |-> s.txn, db |-> s.db, ws |-> s.ws, held |-> s.held \cup {k}]

Write(s, k, q) ==
  [txn |-> s.txn, db |-> s.db, ws |-> [j \in Key |-> IF j = k THEN q ELSE s.ws[j]],
   held |-> s.held \cup {k}]

Undone(s) == [txn |-> "failed", db |-> s.db, ws |-> [k \in Key |-> Unwritten], held |-> {}]

\* What call c makes of a transaction.
After(s, c) ==
  IF s.txn = "failed" \/ c.name \in {"find", "findById"} THEN s
  ELSE IF c.name = "findForUpdate" THEN IF Seen(s, c.key) = NoRow THEN s ELSE Lock(s, c.key)
  ELSE IF c.name = "create" /\ Seen(s, c.key) # NoRow THEN Undone(s)
  ELSE Write(s, c.key, c.quantity)

\* What it answers.
Says(s, c) ==
  IF s.txn = "failed" THEN Err
  ELSE IF c.name \in {"find", "findById", "findForUpdate"} THEN Read(s, c.key)
  ELSE IF c.name = "create" /\ Seen(s, c.key) # NoRow THEN Err
  ELSE Ok

\* A locked row is there, so an update of it changes one.
HeldIsThere == \A a \in Adapter, k \in Key : lock[<<a, k>>] = a => Visible(a, <<a, k>>) # NoRow

\* Between calls the two are in the same place; in a call, one is where the other will be.
Together ==
  /\ done \in {{}, Adapter} => Side("sqlx") = Side("seaorm")
  /\ done = Adapter => answer["sqlx"] = answer["seaorm"]
  /\ \A a, b \in Adapter : a # b /\ done = {a} =>
       Side(a) = After(Side(b), op) /\ answer[a] = Says(Side(b), op)
  /\ op.name = "update" => \A a \in Adapter \ done : op.key \in Side(a).held

\* No call is under way before the transactions begin.
Idle == (\E a \in Adapter : txn[a] = "none") => done = Adapter

Inv == AdaptersTypeOK /\ HeldIsThere /\ Idle /\ (~strayed => Together)
-----------------------------------------------------------------------------
LEMMA OpKinds ==
  ASSUME op \in Calls \cup {NoCall}
  PROVE  /\ op.name \in {"find", "findForUpdate", "findById", "create", "update"} =>
              op \in Calls /\ op.key \in Key
         /\ op.name \in {"create", "update"} => op.quantity \in Quantity
         /\ op # NoCall => op.name \in {"find", "findForUpdate", "findById", "create", "update"}
  BY DEF Calls, NoCall, Key

LEMMA Sees ==
  ASSUME NEW a \in Adapter, NEW k \in Key
  PROVE  Seen(Side(a), k) = Visible(a, <<a, k>>) /\ Read(Side(a), k) = Found(a, k)
<1>1. Seen(Side(a), k) = Visible(a, <<a, k>>)
  BY DEF Seen, Side, Visible
<1>2. QED
  BY <1>1 DEF Read, Found

\* A side is known by its parts.
LEMMA SideIs ==
  ASSUME NEW a \in Adapter, NEW s, NEW D, NEW W, NEW H,
         txn'[a] = s,
         D = [k \in Key |-> db'[<<a, k>>]],
         W = [k \in Key |-> ws'[a][<<a, k>>]],
         H = {k \in Key : lock'[<<a, k>>] = a}
  PROVE  Side(a)' = [txn |-> s, db |-> D, ws |-> W, held |-> H]
  BY DEF Side

LEMMA SideSame ==
  ASSUME NEW a \in Adapter, txn'[a] = txn[a],
         \A k \in Key : /\ db'[<<a, k>>] = db[<<a, k>>]
                        /\ ws'[a][<<a, k>>] = ws[a][<<a, k>>]
                        /\ lock'[<<a, k>>] = a <=> lock[<<a, k>>] = a
  PROVE  Side(a)' = Side(a)
  BY DEF Side

(***************************************************************************)
(* A repository call does what After and Says tell, to its own side.       *)
(***************************************************************************)
Does(a) ==
  /\ Side(a)' = After(Side(a), op) /\ answer'[a] = Says(Side(a), op)
  /\ \A b \in Adapter \ {a} : Side(b)' = Side(b) /\ answer'[b] = answer[b]

LEMMA Asks ==
  ASSUME AdaptersTypeOK, NEW a \in Adapter, PgSelect(a),
         op.name \in {"find", "findById"}, Answers(a, Found(a, op.key))
  PROVE  Does(a)
<1>1. \A b \in Adapter : Side(b)' = Side(b)
  BY SideSame DEF PgSelect
<1>2. Says(Side(a), op) = Found(a, op.key) /\ After(Side(a), op) = Side(a)
  <2>1. Side(a).txn = "open"
    BY DEF Side, PgSelect
  <2>2. op.key \in Key
    BY OpKinds DEF AdaptersTypeOK
  <2>3. QED
    BY <2>1, <2>2, Sees DEF Says, After
<1>3. QED
  BY <1>1, <1>2 DEF Does, Answers, AdaptersTypeOK

LEMMA Locks ==
  ASSUME AdaptersTypeOK, NEW a \in Adapter, FindForUpdate(a)
  PROVE  Does(a)
<1> DEFINE k == op.key
<1>1. k \in Key /\ <<a, k>> \in Row
  BY OpKinds, AdaptersAssumption DEF FindForUpdate, Is, AdaptersTypeOK
<1>2. Says(Side(a), op) = Found(a, k)
  <2>1. Side(a).txn = "open"
    BY DEF Side, FindForUpdate, PgSelectForUpdate
  <2>2. QED
    BY <1>1, <2>1, Sees DEF Says, FindForUpdate, Is
<1>3. txn[a] = "open" /\ op.name = "findForUpdate" /\ UNCHANGED <<db, txn, ws>>
  BY DEF FindForUpdate, PgSelectForUpdate, Is
<1>4. \A b \in Adapter \ {a} : Side(b)' = Side(b)
  <2> SUFFICES ASSUME NEW b \in Adapter \ {a} PROVE Side(b)' = Side(b)
    OBVIOUS
  <2>1. \A j \in Key : lock'[<<b, j>>] = lock[<<b, j>>]
    BY AdaptersAssumption DEF FindForUpdate, PgSelectForUpdate, AdaptersTypeOK, PgTypeOK
  <2>2. QED
    BY <1>3, <2>1, SideSame
<1>5. Side(a)' = After(Side(a), op)
  <2>1. Side(a).txn = "open"
    BY <1>3 DEF Side
  <2>2. CASE Visible(a, <<a, k>>) = NoRow
    <3>1. Side(a)' = Side(a)
      BY <1>3, <2>2, SideSame DEF FindForUpdate, PgSelectForUpdate
    <3>2. QED
      BY <1>1, <1>3, <2>1, <2>2, <3>1, Sees DEF After
  <2>3. CASE Visible(a, <<a, k>>) # NoRow
    <3>1. \A j \in Key : lock'[<<a, j>>] = IF j = k THEN a ELSE lock[<<a, j>>]
      BY <1>1, <2>3, AdaptersAssumption DEF FindForUpdate, PgSelectForUpdate, AdaptersTypeOK, PgTypeOK
    <3>2. {j \in Key : lock'[<<a, j>>] = a} = {j \in Key : lock[<<a, j>>] = a} \cup {k}
      BY <1>1, <3>1
    <3>3. Side(a)' = Lock(Side(a), k)
      BY <1>3, <3>2 DEF Side, Lock
    <3>4. QED
      BY <1>1, <1>3, <2>1, <2>3, <3>3, Sees DEF After
  <2>4. QED
    BY <2>2, <2>3
<1>6. QED
  BY <1>2, <1>4, <1>5 DEF Does, FindForUpdate, Answers, AdaptersTypeOK

\* A row of its own schema is written and locked.
LEMMA Writes ==
  ASSUME AdaptersTypeOK, NEW a \in Adapter, NEW k \in Key, NEW q,
         lock' = [lock EXCEPT ![<<a, k>>] = a],
         ws' = [ws EXCEPT ![a][<<a, k>>] = q],
         UNCHANGED <<db, txn>>
  PROVE  /\ Side(a)' = Write(Side(a), k, q)
         /\ \A b \in Adapter \ {a} : Side(b)' = Side(b)
<1>1. <<a, k>> \in Row /\ Call = Adapter /\ \A b \in Adapter, j \in Key : <<b, j>> \in Row
  BY AdaptersAssumption
<1>2. \A b \in Adapter, j \in Key :
        lock'[<<b, j>>] = IF b = a /\ j = k THEN a ELSE lock[<<b, j>>]
  BY <1>1 DEF AdaptersTypeOK, PgTypeOK
<1>3. \A b \in Adapter, j \in Key :
        ws'[b][<<b, j>>] = IF b = a /\ j = k THEN q ELSE ws[b][<<b, j>>]
  BY <1>1 DEF AdaptersTypeOK, PgTypeOK
<1>4. \A b \in Adapter \ {a} : Side(b)' = Side(b)
  BY <1>2, <1>3, SideSame
<1>5. {j \in Key : lock'[<<a, j>>] = a} = {j \in Key : lock[<<a, j>>] = a} \cup {k}
  BY <1>2
<1>6. [j \in Key |-> ws'[a][<<a, j>>]] =
        [j \in Key |-> IF j = k THEN q ELSE [i \in Key |-> ws[a][<<a, i>>]][j]]
  BY <1>3
<1>7. Side(a)' = Write(Side(a), k, q)
  BY <1>5, <1>6 DEF Side, Write
<1>8. QED
  BY <1>4, <1>7

LEMMA Creates ==
  ASSUME AdaptersTypeOK, NEW a \in Adapter, Create(a)
  PROVE  Does(a)
<1>1. op.key \in Key
  BY OpKinds DEF Create, Is, AdaptersTypeOK
<1>2. /\ lock' = [lock EXCEPT ![<<a, op.key>>] = a]
      /\ ws' = [ws EXCEPT ![a][<<a, op.key>>] = op.quantity]
      /\ UNCHANGED <<db, txn>>
      /\ txn[a] = "open" /\ op.name = "create" /\ Visible(a, <<a, op.key>>) = NoRow
  BY DEF Create, PgInsert, Is
<1>3. Side(a).txn = "open"
  BY <1>2 DEF Side
<1>4. After(Side(a), op) = Write(Side(a), op.key, op.quantity) /\ Says(Side(a), op) = Ok
  BY <1>1, <1>2, <1>3, Sees DEF After, Says
<1>5. QED
  BY <1>1, <1>2, <1>4, Writes DEF Does, Create, Answers, AdaptersTypeOK

LEMMA CreatesTwice ==
  ASSUME AdaptersTypeOK, NEW a \in Adapter, CreateDuplicate(a)
  PROVE  Does(a)
<1>1. op.key \in Key
  BY OpKinds DEF CreateDuplicate, Is, AdaptersTypeOK
<1>2. op.name = "create" /\ txn[a] = "open" /\ Visible(a, <<a, op.key>>) # NoRow /\ PgUndo(a, "failed")
  BY DEF CreateDuplicate, Is, PgFail, Broken
<1>3. Side(a).txn = "open"
  BY <1>2 DEF Side
<1>4. After(Side(a), op) = Undone(Side(a)) /\ Says(Side(a), op) = Err
  BY <1>1, <1>2, <1>3, Sees DEF After, Says
<1>5. \A b \in Adapter, j \in Key : <<b, j>> \in Row /\ b \in Call
  BY AdaptersAssumption
<1>6. \A b \in Adapter \ {a} : Side(b)' = Side(b)
  BY <1>2, <1>5, SideSame DEF PgUndo, Released, AdaptersTypeOK, PgTypeOK
<1>7. Side(a)' = Undone(Side(a))
  <2>1. txn'[a] = "failed" /\ db' = db
    BY <1>2, <1>5, AdaptersAssumption DEF PgUndo, AdaptersTypeOK, PgTypeOK
  <2>2. \A j \in Key : ws'[a][<<a, j>>] = Unwritten
    BY <1>2, <1>5, AdaptersAssumption DEF PgUndo, AdaptersTypeOK, PgTypeOK
  <2>3. \A j \in Key : lock'[<<a, j>>] # a
    BY <1>2, <1>5, AdaptersAssumption, PostgresAssumption DEF PgUndo, Released
  <2>4. {j \in Key : lock'[<<a, j>>] = a} = {}
    BY <2>3
  <2>5. [j \in Key |-> ws'[a][<<a, j>>]] = [j \in Key |-> Unwritten]
    BY <2>2
  <2>6. QED
    BY <2>1, <2>4, <2>5 DEF Side, Undone
<1>8. QED
  BY <1>4, <1>6, <1>7 DEF Does, CreateDuplicate, Answers, AdaptersTypeOK

LEMMA Updates ==
  ASSUME AdaptersTypeOK, HeldIsThere, NEW a \in Adapter, UpdateSqlx(a) \/ UpdateSeaOrm(a),
         op.key \in Side(a).held
  PROVE  Does(a)
<1>1. op.key \in Key /\ lock[<<a, op.key>>] = a
  BY DEF Side
<1>2. Visible(a, <<a, op.key>>) # NoRow
  BY <1>1 DEF HeldIsThere
<1>3. /\ lock' = [lock EXCEPT ![<<a, op.key>>] = a]
      /\ ws' = [ws EXCEPT ![a][<<a, op.key>>] = op.quantity]
      /\ UNCHANGED <<db, txn>>
      /\ txn[a] = "open" /\ op.name = "update"
      /\ Answers(a, Ok)
  BY <1>2 DEF UpdateSqlx, UpdateSeaOrm, PgUpdate, Is
<1>4. Side(a).txn = "open"
  BY <1>3 DEF Side
<1>5. After(Side(a), op) = Write(Side(a), op.key, op.quantity) /\ Says(Side(a), op) = Ok
  BY <1>1, <1>3, <1>4 DEF After, Says
<1>6. QED
  BY <1>1, <1>3, <1>5, Writes DEF Does, Answers, AdaptersTypeOK

LEMMA CallFailing ==
  ASSUME AdaptersTypeOK, NEW a \in Adapter, CallFails(a)
  PROVE  Does(a)
<1>1. txn[a] = "failed" /\ UNCHANGED pgVars /\ Answers(a, Err)
  BY DEF CallFails, PgFail
<1>2. Side(a).txn = "failed"
  BY <1>1 DEF Side
<1>3. \A b \in Adapter : Side(b)' = Side(b)
  BY <1>1, SideSame
<1>4. QED
  BY <1>1, <1>2, <1>3 DEF Does, After, Says, Answers, AdaptersTypeOK

LEMMA RunDoes ==
  ASSUME AdaptersTypeOK, HeldIsThere, NEW a \in Adapter, Run(a),
         op.name = "update" => op.key \in Side(a).held
  PROVE  Does(a)
<1>1. CASE FindItem(a) \/ FindById(a)
  BY <1>1, Asks DEF FindItem, FindById, Is
<1>2. CASE UpdateSqlx(a) \/ UpdateSeaOrm(a)
  BY <1>2, Updates DEF UpdateSqlx, UpdateSeaOrm, Is
<1>3. QED
  BY <1>1, <1>2, Locks, Creates, CreatesTwice, CallFailing DEF Run
-----------------------------------------------------------------------------
(***************************************************************************)
(* Types and locks.                                                        *)
(***************************************************************************)
LEMMA FoundType ==
  ASSUME AdaptersTypeOK, NEW a \in Adapter, NEW k \in Key
  PROVE  Found(a, k) \in Answer /\ Visible(a, <<a, k>>) \in Quantity \cup {NoRow}
<1>1. <<a, k>> \in Row /\ a \in Call
  BY AdaptersAssumption
<1>2. Visible(a, <<a, k>>) \in Quantity \cup {NoRow}
  BY <1>1, AdaptersAssumption DEF Visible, AdaptersTypeOK, PgTypeOK
<1>3. QED
  BY <1>2 DEF Found, Answer

\* A statement of adapter a on its own row k, or one that changes nothing.
PgStep(a, k, q) ==
  \/ UNCHANGED pgVars
  \/ PgSelectForUpdate(a, <<a, k>>)
  \/ q \in Quantity /\ (PgInsert(a, <<a, k>>, q) \/ PgUpdate(a, <<a, k>>, q))
  \/ PgUndo(a, "failed")

LEMMA RunIsPgStep ==
  ASSUME AdaptersTypeOK, NEW a \in Adapter, Run(a)
  PROVE  /\ \E k \in Key : \E q : PgStep(a, k, q)
         /\ \E v \in Answer : Answers(a, v)
         /\ a \notin done /\ done' = done \cup {a} /\ UNCHANGED <<op, strayed>>
<1>0. Ok \in Answer /\ Err \in Answer
  BY DEF Answer
<1>1. CASE FindForUpdate(a) \/ FindItem(a) \/ FindById(a)
  <2>1. op.key \in Key
    BY <1>1, OpKinds DEF FindForUpdate, FindItem, FindById, Is, AdaptersTypeOK
  <2>2. PgStep(a, op.key, 0) /\ Answers(a, Found(a, op.key))
    BY <1>1 DEF FindForUpdate, FindItem, FindById, PgSelect, PgStep
  <2>3. QED
    BY <1>1, <2>1, <2>2, FoundType DEF FindForUpdate, FindItem, FindById, Is
<1>2. CASE Create(a) \/ UpdateSqlx(a) \/ UpdateSeaOrm(a)
  <2>1. op.key \in Key /\ op.quantity \in Quantity
    BY <1>2, OpKinds DEF Create, UpdateSqlx, UpdateSeaOrm, Is, AdaptersTypeOK
  <2>2. PgStep(a, op.key, op.quantity)
    BY <1>2, <2>1 DEF Create, UpdateSqlx, UpdateSeaOrm, PgStep
  <2>3. Answers(a, Ok) \/ Answers(a, Err)
    BY <1>2 DEF Create, UpdateSqlx, UpdateSeaOrm
  <2>4. QED
    BY <1>0, <1>2, <2>1, <2>2, <2>3 DEF Create, UpdateSqlx, UpdateSeaOrm, Is
<1>3. CASE CreateDuplicate(a) \/ CallFails(a)
  <2>1. op.key \in Key
    BY <1>3, OpKinds DEF CreateDuplicate, CallFails, Is, AdaptersTypeOK
  <2>2. PgStep(a, op.key, 0)
    BY <1>3 DEF CreateDuplicate, CallFails, PgFail, PgStep
  <2>3. QED
    BY <1>0, <1>3, <2>1, <2>2 DEF CreateDuplicate, CallFails, Is
<1>4. QED
  BY <1>1, <1>2, <1>3 DEF Run

LEMMA PgStepKeeps ==
  ASSUME AdaptersTypeOK, HeldIsThere, NEW a \in Adapter, NEW k \in Key, NEW q, PgStep(a, k, q)
  PROVE  /\ PgTypeOK' /\ HeldIsThere'
         /\ \A c, b \in Adapter, j \in Key : lock'[<<c, j>>] = b => c = b
<1>1. Call = Adapter /\ Value = Quantity /\ \A c \in Adapter, j \in Key : <<c, j>> \in Row
  BY AdaptersAssumption
<1>2. PgTypeOK /\ \A c, b \in Adapter, j \in Key : lock[<<c, j>>] = b => c = b
  BY DEF AdaptersTypeOK
<1>3. CASE UNCHANGED pgVars
  BY <1>2, <1>3 DEF PgTypeOK, HeldIsThere, Visible
<1>4. CASE PgSelectForUpdate(a, <<a, k>>)
  BY <1>1, <1>2, <1>4 DEF PgSelectForUpdate, PgTypeOK, HeldIsThere, Visible
<1>5. CASE /\ q \in Quantity
           /\ lock' = [lock EXCEPT ![<<a, k>>] = a] /\ ws' = [ws EXCEPT ![a][<<a, k>>] = q]
           /\ UNCHANGED <<db, txn>>
  <2>1. PgTypeOK'
    BY <1>1, <1>2, <1>5 DEF PgTypeOK
  <2>2. \A c \in Adapter, j \in Key :
          lock'[<<c, j>>] = IF c = a /\ j = k THEN a ELSE lock[<<c, j>>]
    BY <1>1, <1>2, <1>5 DEF PgTypeOK
  <2>3. \A c \in Adapter, j \in Key :
          ws'[c][<<c, j>>] = IF c = a /\ j = k THEN q ELSE ws[c][<<c, j>>]
    BY <1>1, <1>2, <1>5 DEF PgTypeOK
  <2>4. q # Unwritten /\ q # NoRow
    BY <1>1, <1>5, PostgresAssumption
  <2>5. HeldIsThere'
    BY <1>5, <2>2, <2>3, <2>4 DEF HeldIsThere, Visible
  <2>6. QED
    BY <1>2, <2>1, <2>2, <2>5
<1>6. CASE PgUndo(a, "failed")
  <2>1. PgTypeOK'
    BY <1>1, <1>2, <1>6 DEF PgUndo, Released, PgTypeOK, TxnState
  <2>2. \A c \in Adapter, j \in Key :
          lock'[<<c, j>>] = IF lock[<<c, j>>] = a THEN Nobody ELSE lock[<<c, j>>]
    BY <1>1, <1>6 DEF PgUndo, Released
  <2>3. Nobody \notin Adapter
    BY <1>1, PostgresAssumption
  <2>4. \A c \in Adapter \ {a}, j \in Key : ws'[c][<<c, j>>] = ws[c][<<c, j>>]
    BY <1>1, <1>2, <1>6 DEF PgUndo, PgTypeOK
  <2>5. HeldIsThere'
    BY <1>6, <2>2, <2>3, <2>4 DEF HeldIsThere, Visible, PgUndo
  <2>6. QED
    BY <1>2, <2>1, <2>2, <2>3, <2>5
<1>7. QED
  BY <1>3, <1>4, <1>5, <1>6 DEF PgStep, PgInsert, PgUpdate

LEMMA TypeStep == AdaptersTypeOK /\ HeldIsThere /\ [Next]_vars => AdaptersTypeOK' /\ HeldIsThere'
<1> SUFFICES ASSUME AdaptersTypeOK, HeldIsThere, [Next]_vars
             PROVE  AdaptersTypeOK' /\ HeldIsThere'
  OBVIOUS
<1>1. Call = Adapter /\ Value = Quantity /\ \A c \in Adapter, j \in Key : <<c, j>> \in Row
  BY AdaptersAssumption
<1>2. CASE UNCHANGED vars
  BY <1>2 DEF vars, closureVars, AdaptersTypeOK, PgTypeOK, HeldIsThere, Visible
<1>3. CASE BeginBoth
  BY <1>1, <1>3 DEF BeginBoth, closureVars, AdaptersTypeOK, PgTypeOK, TxnState, HeldIsThere, Visible
<1>4. ASSUME NEW c \in Calls, Issue(c) PROVE AdaptersTypeOK' /\ HeldIsThere'
  BY <1>4 DEF Issue, AdaptersTypeOK, PgTypeOK, HeldIsThere, Visible
<1>5. ASSUME NEW a \in Adapter, Run(a) PROVE AdaptersTypeOK' /\ HeldIsThere'
  <2>1. PICK k \in Key : \E q : PgStep(a, k, q)
    BY <1>5, RunIsPgStep
  <2>2. PICK v \in Answer : Answers(a, v)
    BY <1>5, RunIsPgStep
  <2>3. done' = done \cup {a} /\ UNCHANGED <<op, strayed>>
    BY <1>5, RunIsPgStep
  <2>4. answer' \in [Adapter -> Answer]
    BY <2>2 DEF Answers, AdaptersTypeOK
  <2>5. QED
    BY <2>1, <2>3, <2>4, PgStepKeeps DEF AdaptersTypeOK
<1>6. ASSUME NEW keepErrors \in BOOLEAN, EndBoth(keepErrors) PROVE AdaptersTypeOK' /\ HeldIsThere'
  <2> DEFINE committed == {a \in Adapter : txn[a] = "open" /\ (keepErrors => answer[a] # Err)}
  <2>1. Ends(committed) /\ UNCHANGED closureVars
    BY <1>6 DEF EndBoth
  <2>2. \A r \in Row : Visible(r[1], r) \in Quantity \cup {NoRow}
    BY AdaptersAssumption DEF Visible, AdaptersTypeOK, PgTypeOK
  <2>3. PgTypeOK'
    <3> HIDE DEF committed
    <3>1. QED
      BY <1>1, <2>1, <2>2 DEF Ends, AdaptersTypeOK, PgTypeOK, TxnState
  <2>4. \A c, b \in Adapter, j \in Key : lock'[<<c, j>>] # b
    BY <1>1, <2>1, PostgresAssumption DEF Ends
  <2>5. QED
    BY <2>1, <2>3, <2>4 DEF closureVars, AdaptersTypeOK, HeldIsThere
<1>7. ASSUME NEW k \in Key, Delete(k) PROVE AdaptersTypeOK' /\ HeldIsThere'
  <2>1. PgTypeOK'
    BY <1>1, <1>7 DEF Delete, AdaptersTypeOK, PgTypeOK
  <2>2. \A a \in Adapter, j \in Key : db'[<<a, j>>] = IF j = k THEN NoRow ELSE db[<<a, j>>]
    BY <1>1, <1>7 DEF Delete
  <2>3. \A a \in Adapter : lock[<<a, k>>] # a
    BY <1>1, <1>7, PostgresAssumption DEF Delete
  <2>4. HeldIsThere'
    BY <1>7, <2>2, <2>3 DEF Delete, HeldIsThere, Visible
  <2>5. QED
    BY <1>7, <2>1, <2>4 DEF Delete, closureVars, AdaptersTypeOK
<1>8. QED
  BY <1>2, <1>3, <1>4, <1>5, <1>6, <1>7 DEF Next
-----------------------------------------------------------------------------
(***************************************************************************)
(* The two sides.                                                          *)
(***************************************************************************)
LEMMA RunTogether ==
  ASSUME Inv, Together, NEW a \in Adapter, Run(a)
  PROVE  Together'
<1>1. a \notin done /\ done' = done \cup {a} /\ op' = op /\ done \subseteq Adapter
  BY RunIsPgStep DEF Inv, AdaptersTypeOK
<1>2. Does(a)
  BY <1>1, RunDoes DEF Inv, Together
<1>3. PICK b \in Adapter : b # a /\ Adapter = {a, b}
  OBVIOUS
<1>4. Side(b)' = Side(b) /\ answer'[b] = answer[b]
  BY <1>2, <1>3 DEF Does
<1>5. op'.name = "update" => \A c \in Adapter \ done' : op'.key \in Side(c)'.held
  BY <1>1, <1>3, <1>4 DEF Together
<1>6. CASE done = {}
  <2>1. done' = {a} /\ Side(a) = Side(b)
    BY <1>1, <1>3, <1>6 DEF Together
  <2>2. Side(a)' = After(Side(b)', op') /\ answer'[a] = Says(Side(b)', op')
    BY <1>1, <1>2, <1>4, <2>1 DEF Does
  <2>3. done' # Adapter /\ done' # {} /\ done' # {b}
    BY <1>3, <2>1
  <2>4. \A c, d \in Adapter : c # d /\ done' = {c} => c = a /\ d = b
    BY <1>3, <2>1
  <2>5. QED
    BY <1>5, <2>2, <2>3, <2>4 DEF Together
<1>7. CASE done = {b}
  <2>1. Side(b) = After(Side(a), op) /\ answer[b] = Says(Side(a), op)
    BY <1>3, <1>7 DEF Together
  <2>2. Side(a)' = Side(b)' /\ answer'[a] = answer'[b]
    BY <1>2, <1>4, <2>1 DEF Does
  <2>3. done' = Adapter /\ \A c \in Adapter : done' # {c}
    BY <1>1, <1>3, <1>7
  <2>4. Side("sqlx")' = Side("seaorm")' /\ answer'["sqlx"] = answer'["seaorm"]
    BY <1>3, <2>2
  <2>5. QED
    BY <1>5, <2>3, <2>4 DEF Together
<1>8. QED
  BY <1>1, <1>3, <1>6, <1>7

LEMMA TogetherStep == Inv /\ [Next]_vars => (~strayed' => Together')
<1> SUFFICES ASSUME Inv, [Next]_vars, ~strayed'
             PROVE  Together'
  OBVIOUS
<1>1. ~strayed
  BY RunIsPgStep DEF Inv, Next, vars, closureVars, BeginBoth, Issue, EndBoth, Delete
<1>2. Together
  BY <1>1 DEF Inv
<1>3. Call = Adapter /\ \A c \in Adapter, j \in Key : <<c, j>> \in Row
  BY AdaptersAssumption
<1>4. ASSUME UNCHANGED closureVars, done \in {{}, Adapter} => Side("sqlx")' = Side("seaorm")',
             done = Adapter \/ \A a \in Adapter : Side(a)' = Side(a)
      PROVE  Together'
  <2>1. \A a \in Adapter : {a} # Adapter
    OBVIOUS
  <2>2. QED
    BY <1>2, <1>4, <2>1 DEF Together, closureVars
<1>5. CASE UNCHANGED vars
  <2>1. \A a \in Adapter : Side(a)' = Side(a)
    BY <1>5, SideSame DEF vars
  <2>2. QED
    BY <1>2, <1>4, <1>5, <2>1 DEF Together, vars
<1>6. CASE BeginBoth
  <2>1. /\ \A a \in Adapter : txn'[a] = "open"
        /\ UNCHANGED <<db, ws, lock, closureVars>>
        /\ \A a \in Adapter : Side(a).txn = "none"
    BY <1>6 DEF BeginBoth, Side
  <2>2. \A a \in Adapter : Side(a)' = [txn |-> "open", db |-> Side(a).db, ws |-> Side(a).ws,
                                       held |-> Side(a).held]
    BY <2>1 DEF Side
  <2>3. done = Adapter
    <3>1. txn["sqlx"] = "none"
      BY <1>6 DEF BeginBoth
    <3>2. QED
      BY <3>1 DEF Inv, Idle
  <2>4. QED
    BY <1>2, <1>4, <2>1, <2>2, <2>3 DEF Together
<1>7. ASSUME NEW c \in Calls, Issue(c) PROVE Together'
  <2>1. \A a \in Adapter : Side(a)' = Side(a)
    BY <1>7, SideSame DEF Issue
  <2>2. done = Adapter /\ done' = {} /\ op' = c
    BY <1>7 DEF Issue
  <2>3. c.name = "update" => c.key \in Key /\ \A a \in Adapter : lock[<<a, c.key>>] = a
    BY <1>7 DEF Issue, Calls, Key
  <2>4. op'.name = "update" => \A a \in Adapter : op'.key \in Side(a)'.held
    BY <2>1, <2>2, <2>3 DEF Side
  <2>5. done' # Adapter /\ \A a \in Adapter : done' # {a}
    BY <2>2
  <2>6. QED
    BY <1>2, <2>1, <2>2, <2>4, <2>5 DEF Together
<1>8. ASSUME NEW a \in Adapter, Run(a) PROVE Together'
  BY <1>2, <1>8, RunTogether
<1>9. ASSUME NEW keepErrors \in BOOLEAN, EndBoth(keepErrors) PROVE Together'
  <2> DEFINE committed == {a \in Adapter : txn[a] = "open" /\ (keepErrors => answer[a] # Err)}
  <2>1. Ends(committed) /\ UNCHANGED closureVars /\ done = Adapter
    BY <1>9 DEF EndBoth
  <2>2. Side("sqlx") = Side("seaorm") /\ answer["sqlx"] = answer["seaorm"]
    BY <1>2, <2>1 DEF Together
  <2>3. Side("sqlx").txn = Side("seaorm").txn
    BY <2>2
  <2>4. txn["sqlx"] = txn["seaorm"]
    BY <2>3 DEF Side
  <2>5. "sqlx" \in committed <=> "seaorm" \in committed
    BY <2>2, <2>4
  <2>6. \A k \in Key : Seen(Side("sqlx"), k) = Seen(Side("seaorm"), k) /\ Side("sqlx").db[k] = Side("seaorm").db[k]
    BY <2>2
  <2>7. \A k \in Key : /\ Visible("sqlx", <<"sqlx", k>>) = Visible("seaorm", <<"seaorm", k>>)
                       /\ db[<<"sqlx", k>>] = db[<<"seaorm", k>>]
    BY <2>6, Sees DEF Side
  <2> HIDE DEF committed
  <2>8. \A a \in Adapter, k \in Key :
          /\ db'[<<a, k>>] = IF a \in committed THEN Visible(a, <<a, k>>) ELSE db[<<a, k>>]
          /\ ws'[a][<<a, k>>] = Unwritten
          /\ lock'[<<a, k>>] = Nobody
          /\ txn'[a] = IF a \in committed THEN "committed" ELSE "aborted"
    BY <1>3, <2>1 DEF Ends
  <2>9. Side("sqlx")' = Side("seaorm")'
    <3>1. txn'["sqlx"] = txn'["seaorm"]
      BY <2>1, <2>5 DEF Ends
    <3>2. [k \in Key |-> db'[<<"sqlx", k>>]] = [k \in Key |-> db'[<<"seaorm", k>>]]
      BY <2>5, <2>7, <2>8
    <3>3. [k \in Key |-> ws'["sqlx"][<<"sqlx", k>>]] = [k \in Key |-> ws'["seaorm"][<<"seaorm", k>>]]
      BY <2>8
    <3>4. /\ {k \in Key : lock'[<<"sqlx", k>>] = "sqlx"} = {}
          /\ {k \in Key : lock'[<<"seaorm", k>>] = "seaorm"} = {}
      BY <1>3, <2>8, PostgresAssumption
    <3>5. QED
      BY <3>1, <3>2, <3>3, <3>4 DEF Side
  <2>10. QED
    BY <1>4, <2>1, <2>9
<1>10. ASSUME NEW k \in Key, Delete(k) PROVE Together'
  <2>1. done = Adapter /\ UNCHANGED <<txn, ws, lock, closureVars>>
    BY <1>10 DEF Delete
  <2>2. \A a \in Adapter, j \in Key : db'[<<a, j>>] = IF j = k THEN NoRow ELSE db[<<a, j>>]
    BY <1>3, <1>10 DEF Delete
  <2>3. Side("sqlx") = Side("seaorm")
    BY <1>2, <2>1 DEF Together
  <2>4. \A a \in Adapter : Side(a)' = [txn |-> Side(a).txn,
                                       db |-> [j \in Key |-> IF j = k THEN NoRow ELSE Side(a).db[j]],
                                       ws |-> Side(a).ws, held |-> Side(a).held]
    <3> SUFFICES ASSUME NEW a \in Adapter
                 PROVE  Side(a)' = [txn |-> Side(a).txn,
                                    db |-> [j \in Key |-> IF j = k THEN NoRow ELSE Side(a).db[j]],
                                    ws |-> Side(a).ws, held |-> Side(a).held]
      OBVIOUS
    <3>1. [j \in Key |-> db'[<<a, j>>]] = [j \in Key |-> IF j = k THEN NoRow ELSE Side(a).db[j]]
      BY <2>2 DEF Side
    <3>2. QED
      BY <2>1, <3>1 DEF Side
  <2>5. Side("sqlx")' = Side("seaorm")'
    BY <2>3, <2>4
  <2>6. QED
    BY <1>4, <2>1, <2>5
<1>11. QED
  BY <1>5, <1>6, <1>7, <1>8, <1>9, <1>10 DEF Next

LEMMA IdleStep == Inv /\ [Next]_vars => Idle'
<1> SUFFICES ASSUME Inv, [Next]_vars, NEW b \in Adapter, txn'[b] = "none"
             PROVE  done' = Adapter
  BY DEF Idle
<1>1. txn[b] = "none" => done = Adapter
  BY DEF Inv, Idle
<1>2. CASE UNCHANGED vars
  BY <1>1, <1>2 DEF vars, closureVars
<1>3. ASSUME NEW a \in Adapter, Run(a) PROVE FALSE
  <2>1. PICK k \in Key : \E q : PgStep(a, k, q)
    BY <1>3, RunIsPgStep DEF Inv
  <2>2. a \notin done
    BY <1>3, RunIsPgStep DEF Inv
  <2>3. txn[b] = "none"
    <3>1. txn \in [Adapter -> TxnState]
      BY AdaptersAssumption DEF Inv, AdaptersTypeOK, PgTypeOK
    <3>2. txn' = txn \/ txn' = [txn EXCEPT ![a] = "failed"]
      BY <2>1 DEF PgStep, PgSelectForUpdate, PgInsert, PgUpdate, PgUndo
    <3>3. QED
      BY <3>1, <3>2
  <2>4. QED
    BY <1>1, <2>2, <2>3
<1>4. ASSUME NEW c \in Calls, Issue(c) PROVE FALSE
  BY <1>4 DEF Issue
<1>5. ASSUME NEW keepErrors \in BOOLEAN, EndBoth(keepErrors) PROVE FALSE
  BY <1>5 DEF EndBoth, Ends
<1>6. CASE BeginBoth \/ \E k \in Key : Delete(k)
  BY <1>1, <1>6 DEF BeginBoth, Delete, closureVars
<1>7. QED
  BY <1>2, <1>3, <1>4, <1>5, <1>6 DEF Next

LEMMA InitInv == Init => Inv
<1> SUFFICES ASSUME Init PROVE Inv
  OBVIOUS
<1>1. Call = Adapter /\ Value = Quantity /\ Row = Adapter \X Key
  BY AdaptersAssumption
<1>2. PICK rows \in [Key -> Quantity \cup {NoRow}] : db = [r \in Row |-> rows[r[2]]]
  BY DEF Init
<1>3. \A a, b \in Adapter, k \in Key : lock[<<a, k>>] # b
  BY <1>1, PostgresAssumption DEF Init, PgInit
<1>4. AdaptersTypeOK
  BY <1>1, <1>2, <1>3 DEF Init, PgInit, AdaptersTypeOK, PgTypeOK, TxnState, NoCall, Ok, Answer
<1>5. Side("sqlx") = Side("seaorm")
  <2>1. \A a \in Adapter, k \in Key : db[<<a, k>>] = rows[k]
    BY <1>1, <1>2
  <2>2. \A a \in Adapter, k \in Key : ws[a][<<a, k>>] = Unwritten /\ txn[a] = "none"
    BY <1>1 DEF Init, PgInit
  <2>3. txn["sqlx"] = txn["seaorm"]
    BY <1>1 DEF Init, PgInit
  <2>4. {k \in Key : lock[<<"sqlx", k>>] = "sqlx"} = {k \in Key : lock[<<"seaorm", k>>] = "seaorm"}
    BY <1>3
  <2>5. [k \in Key |-> db[<<"sqlx", k>>]] = [k \in Key |-> db[<<"seaorm", k>>]]
    BY <2>1
  <2>6. [k \in Key |-> ws["sqlx"][<<"sqlx", k>>]] = [k \in Key |-> ws["seaorm"][<<"seaorm", k>>]]
    BY <2>2
  <2>7. QED
    BY <2>3, <2>4, <2>5, <2>6 DEF Side
<1>6. /\ done = Adapter /\ op.name = "none" /\ answer["sqlx"] = answer["seaorm"]
      /\ \A a \in Adapter : done # {a}
  BY DEF Init, NoCall
<1>7. QED
  BY <1>3, <1>4, <1>5, <1>6 DEF Inv, HeldIsThere, Idle, Together

THEOREM Invariance == Spec => []Inv
<1>1. Inv /\ [Next]_vars => Inv'
  BY TypeStep, IdleStep, TogetherStep DEF Inv
<1>2. QED
  BY <1>1, InitInv, PTL DEF Spec

\* Every variable keeps its type, and an adapter's transaction locks its own rows only.
THEOREM AdaptersTypeCorrect == Spec => []AdaptersTypeOK
<1>1. Inv => AdaptersTypeOK
  BY DEF Inv
<1>2. QED
  BY <1>1, Invariance, PTL

\* The closure's next step cannot depend on which adapter it runs over: both have answered
\* all its calls alike, with rows, with no row, or with an error.
THEOREM AnswersAreTheSame == Spec => []SameAnswers
<1>1. Inv => SameAnswers
  BY DEF Inv, Together, SameAnswers
<1>2. QED
  BY <1>1, Invariance, PTL

\* However the two transactions end, they leave the same rows behind; between two calls
\* they have written and locked the same.
THEOREM ViewsAreTheSame == Spec => []SameViews
<1>1. Inv => SameViews
  <2> SUFFICES ASSUME Inv, done = Adapter, ~strayed, NEW k \in Key
               PROVE  /\ Visible("sqlx", <<"sqlx", k>>) = Visible("seaorm", <<"seaorm", k>>)
                      /\ lock[<<"sqlx", k>>] = "sqlx" <=> lock[<<"seaorm", k>>] = "seaorm"
    BY DEF SameViews
  <2>1. Side("sqlx") = Side("seaorm")
    BY DEF Inv, Together
  <2>2. Seen(Side("sqlx"), k) = Seen(Side("seaorm"), k) /\ Side("sqlx").held = Side("seaorm").held
    BY <2>1
  <2>3. QED
    BY <2>2, Sees DEF Side
<1>2. QED
  BY <1>1, Invariance, PTL

\* At any moment the two schemas hold the same committed rows.
THEOREM TablesAreTheSame == Spec => []SameTables
<1>1. Inv => SameTables
  <2> SUFFICES ASSUME Inv, ~strayed, NEW k \in Key
               PROVE  db[<<"sqlx", k>>] = db[<<"seaorm", k>>]
    BY DEF SameTables
  <2>1. Side("sqlx").db = Side("seaorm").db
    <3>1. \A s, c : After(s, c) = s \/ After(s, c).db = s.db
      BY DEF After, Lock, Write, Undone
    <3>2. done \in {{}, Adapter} \/ done = {"sqlx"} \/ done = {"seaorm"}
      <4>1. done \subseteq {"sqlx", "seaorm"}
        BY DEF Inv, AdaptersTypeOK
      <4>2. CASE "sqlx" \in done /\ "seaorm" \in done
        BY <4>1, <4>2
      <4>3. CASE "sqlx" \in done /\ "seaorm" \notin done
        BY <4>1, <4>3
      <4>4. CASE "sqlx" \notin done /\ "seaorm" \in done
        BY <4>1, <4>4
      <4>5. CASE "sqlx" \notin done /\ "seaorm" \notin done
        <5>1. done = {}
          BY <4>1, <4>5
        <5>2. QED
          BY <5>1
      <4>6. QED
        BY <4>2, <4>3, <4>4, <4>5
    <3>3. Together
      BY DEF Inv
    <3>4. CASE done \in {{}, Adapter}
      BY <3>3, <3>4 DEF Together
    <3>5. CASE done = {"sqlx"}
      <4>1. Side("sqlx") = After(Side("seaorm"), op)
        BY <3>3, <3>5 DEF Together
      <4>2. QED
        BY <3>1, <4>1
    <3>6. CASE done = {"seaorm"}
      <4>1. Side("seaorm") = After(Side("sqlx"), op)
        BY <3>3, <3>6 DEF Together
      <4>2. QED
        BY <3>1, <4>1
    <3>7. QED
      BY <3>2, <3>4, <3>5, <3>6
  <2>2. QED
    BY <2>1 DEF Side
<1>2. QED
  BY <1>1, Invariance, PTL
=============================================================================
