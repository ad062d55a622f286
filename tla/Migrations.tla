----------------------------- MODULE Migrations -----------------------------
(***************************************************************************)
(* The tools that create the tables of both adapters, run in any order, at *)
(* the same time, and interrupted anywhere: run_migrations.sh, SeaORM's    *)
(* Migrator, which records the versions it has applied, cargo-make's       *)
(* migrate-tables, and its db-reset.                                       *)
(*                                                                         *)
(* A tool sends statement after statement.  PostgreSQL looks at what is    *)
(* there when a statement runs: what has been committed, and what the      *)
(* tool's own transaction has done.  The Migrator and migrate-tables       *)
(* commit when all their statements have succeeded, the others commit each *)
(* statement by itself.                                                    *)
(*                                                                         *)
(* The lock of a schema in which a transaction has only found its tables   *)
(* is left out, so DROP SCHEMA waits less here than it would.              *)
(***************************************************************************)
EXTENDS Sequences

CONSTANTS
  Runner,
  Tools  \* the tools that are run

ASSUME MigrationsAssumption == Tools \subseteq {"script", "up", "down", "make", "reset"}

VARIABLES
  there,      \* the schemas, tables and recorded versions that are committed
  running,    \* the tool each runner has started
  todo,       \* the statements it has still to send
  made,       \* what its transaction has added
  gone,       \* what its transaction has removed
  exit,       \* how its last tool ended
  disturbed,  \* history: the runners of a script that has found no file, a statement of
              \* which has failed for an outside reason, or that has seen a schema dropped
  crossed     \* history: an up and a down have overlapped, or a schema was dropped

session == <<running, todo, made, gone, exit>>
vars == <<there, session, disturbed, crossed>>

\* Each thing is in a schema, which is one of them itself.
Schemas == {"poc_for_sqlx", "poc_for_sea_orm"}
Tables == Schemas \X {"inventory", "orders", "order"}
Schema(s) == <<s, "schema">>
Record(version) == <<"seaql_migrations", version>>
Things == Tables \cup {Schema(s) : s \in Schemas} \cup {Record(v) : v \in {"m1", "m2"}}

Statements ==
  [do : {"create", "create if not exists", "drop", "delete", "drop schema"}, what : Things]

Transactional == {"up", "down", "make"}

\* Every variable has its type; a runner keeps statements, and changes it has not
\* committed, only for a tool that is under way.
TypeOK ==
  /\ there \subseteq Things
  /\ running \in [Runner -> Tools \cup {"none"}]
  /\ todo \in [Runner -> Seq(Statements)]
  /\ made \in [Runner -> SUBSET Things] /\ gone \in [Runner -> SUBSET Things]
  /\ exit \in [Runner -> {"none", "ok", "err"}]
  /\ disturbed \subseteq Runner /\ crossed \in BOOLEAN
  /\ \A r \in Runner :
       /\ running[r] = "none" => todo[r] = <<>> /\ r \notin disturbed
       /\ running[r] \notin Transactional => made[r] = {} /\ gone[r] = {}

\* docker/init.sql has created the schemas, or has not run.
Init ==
  /\ there \in {{}, {Schema(s) : s \in Schemas}}
  /\ running = [r \in Runner |-> "none"]
  /\ todo = [r \in Runner |-> <<>>]
  /\ made = [r \in Runner |-> {}] /\ gone = [r \in Runner |-> {}]
  /\ exit = [r \in Runner |-> "none"]
  /\ disturbed = {} /\ crossed = FALSE
-----------------------------------------------------------------------------
(***************************************************************************)
(* What each tool sends.                                                   *)
(***************************************************************************)
Create(x) == [do |-> "create", what |-> x]
CreateIfNotExists(x) == [do |-> "create if not exists", what |-> x]
Drop(x) == [do |-> "drop", what |-> x]
Delete(x) == [do |-> "delete", what |-> x]
DropSchema(s) == [do |-> "drop schema", what |-> Schema(s)]

\* Mutant of Files: the files are numbered the other way round.
FilesReversed ==
  <<CreateIfNotExists(<<"poc_for_sqlx", "orders">>),
    CreateIfNotExists(Schema("poc_for_sqlx")),
    CreateIfNotExists(<<"poc_for_sqlx", "inventory">>)>>

\* 001_create_inventory_table.sql and 002_create_order_table.sql.
Files ==
  <<CreateIfNotExists(Schema("poc_for_sqlx")),
    CreateIfNotExists(<<"poc_for_sqlx", "inventory">>),
    CreateIfNotExists(<<"poc_for_sqlx", "orders">>)>>

MakeTables ==
  <<CreateIfNotExists(<<"poc_for_sqlx", "inventory">>),
    CreateIfNotExists(<<"poc_for_sqlx", "orders">>),
    CreateIfNotExists(<<"poc_for_sea_orm", "inventory">>),
    CreateIfNotExists(<<"poc_for_sea_orm", "orders">>)>>

DbReset ==
  <<DropSchema("poc_for_sea_orm"), DropSchema("poc_for_sqlx"),
    Create(Schema("poc_for_sea_orm")), Create(Schema("poc_for_sqlx"))>>

TableOf(version) == <<"poc_for_sea_orm", IF version = "m1" THEN "inventory" ELSE "order">>

\* up of one version, after which the Migrator records it.
Up(version) ==
  (IF version = "m1" THEN <<CreateIfNotExists(Schema("poc_for_sea_orm"))>> ELSE <<>>)
    \o <<CreateIfNotExists(TableOf(version)), Create(Record(version))>>

\* Mutant of Down: the table to drop was copied from the first version.
DownCopied(version) == <<Drop(TableOf("m1")), Delete(Record(version))>>

\* down of one version, after which the Migrator deletes its record.
Down(version) == <<Drop(TableOf(version)), Delete(Record(version))>>

Applied(version) == Record(version) \in there

\* The Migrator reads which versions are applied; `down` undoes one, the last.
Migrate(tool) ==
  IF tool = "up"
  THEN (IF Applied("m1") THEN <<>> ELSE Up("m1")) \o (IF Applied("m2") THEN <<>> ELSE Up("m2"))
  ELSE IF Applied("m2") THEN Down("m2") ELSE IF Applied("m1") THEN Down("m1") ELSE <<>>

\* The script may be started where it finds no *.sql file.
Plans(tool) ==
  CASE tool = "script" -> {Files, <<>>}
    [] tool = "make" -> {MakeTables}
    [] tool = "reset" -> {DbReset}
    [] OTHER -> {Migrate(tool)}
-----------------------------------------------------------------------------
Start(r, tool) ==
  /\ running[r] = "none"
  /\ running' = [running EXCEPT ![r] = tool]
  /\ \E plan \in Plans(tool) :
       /\ todo' = [todo EXCEPT ![r] = plan]
       /\ disturbed' = IF tool = "script" /\ plan = <<>> THEN disturbed \cup {r} ELSE disturbed
  /\ exit' = [exit EXCEPT ![r] = "none"]
  /\ crossed' = (crossed \/ \E q \in Runner : {tool, running[q]} = {"up", "down"})
  /\ UNCHANGED <<there, made, gone>>

\* Mutant of Ends: what was to be sent, and what was not committed, is kept.
EndsKeeping(r, how) ==
  /\ running' = [running EXCEPT ![r] = "none"]
  /\ exit' = [exit EXCEPT ![r] = how]
  /\ disturbed' = disturbed \ {r}
  /\ UNCHANGED <<todo, made, gone, crossed>>

Ends(r, how) ==
  /\ running' = [running EXCEPT ![r] = "none"]
  /\ todo' = [todo EXCEPT ![r] = <<>>]
  /\ made' = [made EXCEPT ![r] = {}] /\ gone' = [gone EXCEPT ![r] = {}]
  /\ exit' = [exit EXCEPT ![r] = how]
  /\ disturbed' = disturbed \ {r}
  /\ UNCHANGED crossed

Commits(r) == there' = (there \ gone[r]) \cup made[r]

\* "All migrations completed successfully!"; the Migrator and migrate-tables commit.
Completed(r) ==
  /\ running[r] # "none" /\ todo[r] = <<>>
  /\ Commits(r)
  /\ Ends(r, "ok")

\* It is killed, or its connection breaks: its transaction is rolled back, unless COMMIT
\* had been sent.
Interrupted(r) ==
  /\ running[r] # "none"
  /\ UNCHANGED there \/ (todo[r] = <<>> /\ Commits(r))
  /\ Ends(r, "err")
-----------------------------------------------------------------------------
(***************************************************************************)
(* A statement.                                                            *)
(***************************************************************************)
Sees(r) == (there \ gone[r]) \cup made[r]

\* It waits for another transaction that has added or removed the same thing, and DROP
\* SCHEMA for one that has changed anything in the schema.
Waits(r, s) ==
  \E q \in Runner \ {r} :
    \/ s.do \in {"create", "create if not exists"} /\ s.what \in made[q]
    \/ s.do \in {"create", "drop", "delete"} /\ s.what \in gone[q]
    \/ /\ s.do = "drop schema" /\ s.what \in there
       /\ \E x \in made[q] \cup gone[q] : x[1] = s.what[1]

\* What is there makes it fail: a thing that exists, one that does not, a table without its
\* schema.
Refused(r, s) ==
  \/ s.do = "create" /\ s.what \in Sees(r)
  \/ s.do = "create if not exists" /\ s.what \in Tables /\ Schema(s.what[1]) \notin Sees(r)
  \/ s.do = "drop" /\ s.what \notin Sees(r)

Adds(r, s) == IF s.do \in {"create", "create if not exists"} THEN {s.what} \ Sees(r) ELSE {}

Removes(r, s) ==
  CASE s.do \in {"drop", "delete"} -> {s.what} \cap Sees(r)
    [] s.do = "drop schema" -> {x \in there : x[1] = s.what[1]}
    [] OTHER -> {}

SendStatement(r) ==
  /\ todo[r] # <<>>
  /\ LET s == Head(todo[r])
     IN  /\ ~Waits(r, s) /\ ~Refused(r, s)
         /\ IF running[r] \in Transactional
            THEN /\ made' = [made EXCEPT ![r] = @ \cup Adds(r, s)]
                 /\ gone' = [gone EXCEPT ![r] = @ \cup Removes(r, s)]
                 /\ UNCHANGED there
            ELSE there' = (there \ Removes(r, s)) \cup Adds(r, s) /\ UNCHANGED <<made, gone>>
         /\ IF s.do = "drop schema"
            THEN crossed' = TRUE /\ disturbed' = {q \in Runner : running[q] = "script"}
            ELSE UNCHANGED <<crossed, disturbed>>
  /\ todo' = [todo EXCEPT ![r] = Tail(@)]
  /\ UNCHANGED <<running, exit>>

\* psql -c, and the Migrator, end with the error; psql -f goes on to the next statement and
\* exits with success.
GoesOn(r) ==
  IF running[r] = "script"
  THEN todo' = [todo EXCEPT ![r] = Tail(@)] /\ UNCHANGED <<running, made, gone, exit, crossed>>
  ELSE Ends(r, "err")

StatementRefused(r) ==
  /\ todo[r] # <<>> /\ ~Waits(r, Head(todo[r])) /\ Refused(r, Head(todo[r]))
  /\ GoesOn(r)
  /\ running[r] = "script" => UNCHANGED disturbed
  /\ UNCHANGED there

\* A statement fails for any other reason: a missing privilege, a full disk, a timeout of a
\* lock, a tool that has created the same thing since this one looked.
StatementFails(r) ==
  /\ todo[r] # <<>>
  /\ GoesOn(r)
  /\ running[r] = "script" => disturbed' = disturbed \cup {r}
  /\ UNCHANGED there
-----------------------------------------------------------------------------
Next ==
  \E r \in Runner :
    \/ \E tool \in Tools : Start(r, tool)
    \/ SendStatement(r) \/ StatementRefused(r) \/ StatementFails(r)
    \/ Completed(r) \/ Interrupted(r)

Spec == Init /\ [][Next]_vars
-----------------------------------------------------------------------------
(***************************************************************************)
(* Properties.                                                             *)
(***************************************************************************)
\* When run_migrations.sh says that all migrations have completed, both tables of the sqlx
\* adapter are there, whatever runs beside it and was interrupted before, unless it found no
\* file, a statement of its own failed for an outside reason, or a schema was dropped while
\* it ran.  psql -f would hide a statement that comes before what it needs: there is none.
ScriptMakesTables ==
  [][\A r \in Runner : running[r] = "script" /\ r \notin disturbed /\ exit'[r] = "ok" =>
       {"poc_for_sqlx"} \X {"inventory", "orders"} \subseteq there]_vars

\* A version is recorded only while its table is there, whoever overlaps or is interrupted,
\* unless an up and a down have overlapped or db-reset has dropped the tables: up records a
\* version whose table it has found there, though another may be dropping it.
RecordedIsThere == ~crossed => \A v \in {"m1", "m2"} : Applied(v) => TableOf(v) \in there

\* What the Migrator alone creates is never there without its record, so it can be undone:
\* whatever overlaps, is interrupted, dropped or created again.
ThereIsRecorded == TableOf("m2") \in there => Applied("m2")
=============================================================================
