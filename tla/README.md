# A verification project for the Rust transaction manager

The repository shows how a Rust program can offer `transaction(|ctx| ...)` over sqlx and over
SeaORM: a context that owns the database transaction is lent to a closure in an
`Arc<Mutex<..>>` and reclaimed with `Arc::try_unwrap` to be committed or rolled back. One use
case, `create_order`, runs on top of it. This directory holds TLA+ models of both, of what is
around them (aggregates, adapters, processes, migrations, the archived designs), TLC
configurations that check them on small instances, and TLAPS proofs for instances of any size.

Paths below are relative to `src/crates/` unless they start with `src/`.

## The system

| component | state | operations | what makes it correct |
|---|---|---|---|
| transaction manager: trait `domain/src/transaction_manager.rs`, sqlx and SeaORM implementations (`infrastructure/repository/*/src/transaction_manager.rs`) | the pool; per call, the Arc's clones and the Mutex | `transaction(f)` | the context is owned by nobody else when it is committed; the answer tells what became of the transaction; the call always answers once its closure has returned; a dropped call releases its locks and its connection |
| database context (`db_context.rs` of the adapters) | the open database transaction | `commit(self)`, `rollback(self)` | consumed at most once |
| repositories (`inventory_repository.rs`, `order_repository.rs` of the adapters) | none of their own | one SQL statement per method, under the context's Mutex | the Mutex is released when the method returns; a statement sees and changes only its own transaction |
| `create_order` (`use_case/src/order_management.rs`) | per call, the order and the copy of the inventory | `try_from`, SELECT FOR UPDATE, `decrease_stock`, UPDATE, INSERT | no lost update, no overselling, stock and order change together or not at all, the answer is true |
| aggregates (`domain/src/inventory`, `domain/src/order`) | quantities | `decrease_stock`, `increase_stock`, conversions i32/u32 | quantities stay in range and not negative |
| PostgreSQL, driver, pool (external) | tables, transactions, row locks, connections | BEGIN, statements, COMMIT, ROLLBACK, connection loss | - |
| archived managers V1, V2 (`sqlx_impl/src/archive`) | the Arc and the Mutex | `transaction(f)`, ended through the Mutex | the same contract; answers if nobody keeps the Mutex |
| migrations (`migration/`, `src/Makefile.toml`) | schemas, tables, `seaql_migrations` | `run_migrations.sh`, Migrator `up` and `down`, `migrate-tables`, `db-reset` | what is recorded is there; success means the tables are there |
| wiring and binaries (`application/`) | a process and its pool | connect, one order, exit | the exit status is true; a killed process blocks nobody |

How they interact: `create_order` calls `transaction()` with a closure; the closure is lent
`Arc<Mutex<DbContext>>` and passes it to the repositories, each of which locks the Mutex, sends
one statement and unlocks it when it returns. Other callers run the same code at the same time
over the same pool; they meet in PostgreSQL's row locks and in the pool's limit.

What is hard about it, and why tests hardly reach it:

- Interleaving of callers between the SELECT and the UPDATE. The end-to-end test of concurrent
  orders (`application/tests/end_to_end_test.rs:80`) is a placeholder.
- Sharing: whoever has a clone of the Arc can run statements, also after the closure returned.
- Failure of a single step: a statement, COMMIT, ROLLBACK; a connection that breaks with a
  statement or a COMMIT under way.
- Cancellation: the future of a call can be dropped at each of its awaits.
- Limits: the pool's connections; i32 and u32 at their boundaries.
- A process that is killed inside its transaction, a tool interrupted between two statements, two
  tools at the same time.
- Two adapters that are to behave alike, over rows that may be bad, missing or deleted meanwhile.

`PROJECT.json` lists these as hazards, each with its line and the properties that cover it.

## The modules

```
Postgres                 external: transactions, READ COMMITTED visibility, row locks
  TransactionManager     transaction() around an arbitrary closure, helpers, pool, driver
                                                                      -> implements TransactionBlock
    LockingManager       the archived managers: the same call, ended through the Mutex   -> likewise
    OrderManagement      create_order as the closure; both tables     -> implements AtomicOrders
      Application        processes that place an order, and may be killed
  Adapters               the repositories of both adapters side by side on one closure
Quantities               the constructors' conditions and i32/u32 arithmetic and conversions
  StockKeeping           the aggregates: any history of their calls, saved and found again
Migrations               the tools that make the tables
TransactionBlock         abstract: a block is committed whole, or not at all, and the answer tells
AtomicOrders             abstract: an order is placed in one step, or not at all
MC*                      instances for TLC
*Proofs                  theorems
```

### Postgres

`db` is the committed row of each key; `ws[t]` what transaction `t` has written and not
committed; `lock` the holder of each row's exclusive lock; `txn[t]` where the transaction is,
seen from both ends: `failed` (a statement failed, the server undid the rest and answers errors
until ROLLBACK), `lost` (the connection is gone and the server has not noticed), `committing`
(COMMIT is under way and nobody waits for it). The statements are those of the adapters:
SELECT, SELECT FOR UPDATE, INSERT, and UPDATE by primary key. A statement that needs a lock
another transaction holds is not enabled; an UPDATE of a row that is not there succeeds and
changes nothing; SELECT FOR UPDATE of a row that is not there locks nothing. No code deletes a
row and no transaction is nested, so there is neither here (Adapters has another program's DELETE).

### TransactionManager

One action for each step of `transaction()`; both adapters have the same arms, so one module
stands for both (they differ in how the context owns its transaction, `transmute` against an
owned type, which is not visible here).

| variable | code |
|---|---|
| `phase[t]` | the await or branch the call's future is at |
| `arc[t]` | who holds a clone of `db_context`: the manager, the closure, helper tasks |
| `guard[t]` | who has the Mutex locked |
| `erred` | the calls some statement of which answered Err (history) |

| action | code (sqlx) |
|---|---|
| `Transaction`, `Begin`, `BeginErr` | `pool.begin().await?`, the context and its Arc (:112-136) |
| `LockContext`, then `Find`, `FindForUpdate`, `Create`, `Update` or `StatementErr` | a repository method: lock, statement, return. The Mutex is held while the statement waits for a row |
| `ShareContext`, `DropContext` | the closure may move a clone into a task; a task ends or is aborted |
| `ClosureReturns` | `f(db_context.clone()).await` answers Ok or Err (:138) |
| `TryUnwrap` | `Arc::try_unwrap` in either arm (:143, :161) |
| `CommitApplied`, `CommitOk`, `CommitErr` | `context.commit().await?`: the server's half, then the answer |
| `Rollback` | `let _ = context.rollback().await` (:164): answers Err whatever happens |
| `Cancel` | the caller drops the future at an await |
| `RollbackDropped` | `Drop` of an open transaction queues a ROLLBACK (driver) |
| `ConnectionLost`, `SessionEnds` | the connection breaks; the server notices |

The closure is arbitrary: any statements in any order, any answer, errors swallowed or not.
That is the contract the trait gives, and what is shown here holds for every use case.

Two constants stand for the environment: `MaxConnections`, the pool's size, and `LossyCommit`:
whether a connection may break between COMMIT and its answer.

### OrderManagement

Extends TransactionManager: `create_order` decides which of its actions the closure takes.
`step[t]` is the closure's place, `order[t]` the order that `try_from` built, `stock[t]` the
quantity in the closure's copy of the inventory after `decrease_stock`. The rows are the items'
inventory rows and one order row per call (`OrderId::new` draws a fresh uuid, so the call that
drew it is its name). `FindInventory` is the whole of lines 44-56: the SELECT, `Inventory::new`
on the row, `ok_or_else`, `InventoryQuantity::try_from`, `decrease_stock`; each failure goes to
`fail`, from which the closure returns Err. `StatementFails` is the `?` after each repository
call. Quantities are i32 and u32 of a width set by `Half` (2^31 in the code), with `as` keeping
bits. A row may hold a negative quantity at the start, as the schema has no CHECK; `Inventory::new`
then refuses it.

### TransactionBlock

The contract of `transaction()`, whatever the closure does and however the context is reclaimed:
a block writes while it is open; when it is closed nothing is added any more; it is committed as a
whole, or undone; Ok is answered for a committed block (or one that a failed statement had
undone already, the case of `swallowed_error`); after Err it is not committed, unless `MayBeLate`
(a COMMIT may go unanswered). TransactionManager and LockingManager both refine it, with
`writes` what the transaction has written, `block` computed from `txn` and `phase`, and `answer`
from `phase`.

### LockingManager

`archive/transaction_manager_v1.rs` and `_v2.rs` lock the shared context to commit it through the
guard, where the manager in use reclaims it. Everything up to the closure's return is
TransactionManager's; `LockToEnd` waits for the Mutex, `LockedCommitOk`, `LockedCommitErr` and
`LockedRollback` answer with the guard held, `LockedCancel` may drop the future at the wait for
the Mutex as well. After `commit` helpers are left with a context without a transaction; their
clones leave the model with it.

### AtomicOrders

What a caller may rely on: an accepted order is placed in one step that takes its quantity from
sufficient stock, at most once; Ok only if it is placed; Err only if it is not, unless
`MayBeLate`. OrderManagement refines it with `stock` the quantities of `db`, `placed` the calls
with an order row, and `answer` the call's result.

### Application

Each call of OrderManagement becomes a process: `Connect` (the pool opens, or `main` fails),
`PlaceOrder`, the steps of `create_order`, `Exit` with what it answered, and `Kill` anywhere,
after which the process takes no step. What is left is the server's: COMMIT that was sent may
still be applied, and the session of a closed connection ends. Cancellation has no place here,
as `main` awaits its one call. Printing and `DATABASE_URL` are left out.

### StockKeeping

One Inventory in hand, its row, and one stored order. The operations are `Inventory::new`,
`decrease_stock`, `increase_stock`, the inventory repository's `create`, `update` and
`find_by_item_id`, and the order repository's `create` and `find_by_id`, in any order. `create` of
a second row answers Err; `update` without a row saves nothing, and answers Ok with sqlx and Err with
SeaORM. `held`, `row` and `stored` are i32 as in the code, with `as` keeping bits; `ledger` and
`saved` are the same history in unbounded integers, `asked` is the u32 the stored order was made
with, and `call` the call that was made last. With `OverflowChecks` an overflow is a panic, which
leaves nothing in hand; without, it wraps. `Amounts` is what stock is decreased by; orders are made
of every u32.

### Adapters

A transaction for each adapter, each in its own schema with the same rows. Both closures issue
the same repository call (`Issue`); each adapter answers it (`FindForUpdate`, `FindItem`,
`FindById`, `Create`, `CreateDuplicate`, `UpdateSqlx`, `UpdateSeaOrm`, `CallFails`) with a row,
no row, done or an error, after what `Inventory::new` and `OrderQuantity::try_from` make of it; the
next call comes once the answers agree. Both then end, closures passing on the last error or
not, and another program deletes rows in between. `UpdateSqlx` answers Ok whatever it matched,
`UpdateSeaOrm` Err if nothing.

### Migrations

`todo[r]` is what runner `r` has still to send, in the order of the code. A tool plans it when it
starts: `run_migrations.sh` its two files, or nothing where it finds none; `db-reset` and
`migrate-tables` their statements; the Migrator the versions that are pending, or the last one
applied, as it reads them at that moment. Then the statements are sent one by one, and another
runner's may come in between each two of them. `there` is what is committed. `migrate-tables` and
the Migrator work in one transaction: `made[r]` and `gone[r]` are what it has changed, and are
committed at the end (`Completed`); the other tools commit each statement.

PostgreSQL looks at what is there when a statement runs, not before: `IF NOT EXISTS`, and every
other condition, is evaluated in `SendStatement` over `Sees(r)`. A statement waits for another
transaction that has added or removed the same thing (`Waits`); what is there makes it fail
(`StatementRefused`); and any statement may fail for a reason of its own (`StatementFails`: a
privilege, the disk, a timeout, a race with another tool). `psql -f` then goes on with the next
statement and exits with success, the others end (`GoesOn`). A tool may be interrupted anywhere;
what a transaction has done is then undone, unless its COMMIT had been sent.

Two histories say when a promise is off. `disturbed` is the runners of a script that has found no
file, a statement of which has failed for an outside reason, or that has seen a schema dropped.
`crossed` says that an `up` and a `down` have overlapped, or that a schema was dropped.
`init.sql` may or may not have run at the start.

## What the runs check

| run | instance | properties | distinct states |
|---|---|---|---|
| `transaction_manager` | 2 calls, 1 row, 1 helper, 2 connections | `TypeOK`, `SoleOwner`, `OkMeansCommitted`, `ErrMeansRolledBack`, `ImplementsTransactionBlock`, `ReturnedIsAnswered`, `AbandonedIsReleased` | 73 000 |
| `orders` | 3 callers, 1 item, 2 connections, lossy COMMIT, stock none / -1 / 2, requests 0..2, symmetric | `OrderTypeOK`, `FreshStock`, `OkMeansPlaced`, `AnsweredIsEnded`, `StockConserved`, `NeverOversold`, `ImplementsAtomicOrders`, `WaitsEmptyHanded` | 469 000 |
| `orders_liveness` | 3 callers of 2 units each, 2 in stock, 2 connections | `ErrMeansNotPlaced`, `EveryCallAnswered`, `EveryLockReleased` | 160 000 |
| `archived_manager` | 2 calls, 1 row, 1 helper, lossy COMMIT | `LockedTypeOK`, `OkMeansCommitted`, `ImplementsTransactionBlock`, `AnsweredIfUnlocked`, `AbandonedIsReleased` | 74 000 |
| `application` | 2 processes, 1 item, stock none / -1 / 2, requests 0..2 | `AppTypeOK`, `ExitTells`, `OrderEnds` | 91 000 |
| `adapters` | 2 items, 1 order id, rows of -1, 0, 1 or none | `AdaptersTypeOK`, `SameAnswers`, `SameTables`, `SameViews` | 374 000 |
| `stock_keeping` | i32 -4..3, decreases of 0..3, orders of 0..7, overflow checks | `TypeOK`, `StockIsExact`, `OrderReadsBack` | 4 400 |
| `migrations` | 2 runners, every tool, with and without `init.sql` | `TypeOK`, `RecordedIsThere`, `ThereIsRecorded`, `ScriptMakesTables` | 124 000 |
| `swallowed_error`, `ambiguous_commit`, `outliving_context` | 1 call, 1 helper | one violated property each, see below | - |
| `stock_large` | i32 -4..3, decreases of 0..7, overflow checks | `RefusesToOverdraw`, violated | - |

Why the bounds are enough to be of interest. Two calls make every race for a row; the third in
`orders` and `orders_liveness` waits for a connection while two are out, and makes 2 units too
few. Requests reach 0 (refused by `OrderQuantity`), stock that suffices for one and not for two, a
missing row and a refused one. In `orders_liveness` each request takes the whole stock: more
would leave the time of the run and add no other way to wait. One helper is enough to hold a clone,
or the Mutex, against the manager. `Half = 4` makes i32 -4..3 and u32 0..7, so stock and requests
lie at their edges, and every history of `StockKeeping` is covered since all its state is
bounded by the types. Rows of -1, 0 and 1 are what no constructor, one or both accept. Two runners
of the migration tools overlap in every pair, a tool with itself included. The theorems remove these
bounds for everything but liveness.

`StockConserved` is the one to read first: for each item, stock plus everything ordered of it
never changes. Losing an update, placing an order without its stock, taking stock without an
order, or placing one twice would all break it, whatever fails in between.

`SameAnswers`, `SameTables` and `SameViews` say together what the tests mean by identical
behaviour, and under which condition it is true: the closure updates only rows it has locked, as
`create_order` does. `OrderEnds` needs a crash to be of interest: a process killed while it holds a
row's lock must not stop the other. `AnsweredIsEnded` is about the caller that calls again at
once.

`CHECK_DEADLOCK FALSE` in the configurations in which calls are made, once each: when all have been
answered and cleaned up nothing is left to do. `Migrations`, where tools may always be started
again, and `StockKeeping` do not stop. That nobody is stuck earlier is what
the liveness properties say.

### Fairness

Weak fairness, per call, of the steps that the call's own task or the server owes it: the
runtime polls a task that can go on, and a server answers (`Proceed` in OrderManagement,
`EndCall` in TransactionManager), the driver's queued ROLLBACK is sent and the server ends the
session of a client that is gone (`CleanUp`). Nothing is assumed of arbitrary closures and
helpers, which may run for ever, and none of failures and cancellation. In `Proceed` a failing
statement is owed only if the connection is gone, so a call cannot rely on an error to get out
of a wait. Application adds that a dead process's sockets are closed and the server notices, as the
operating system and TCP see to (`exit[t] \in Dead /\ Server(t)`), and that `main` returns.
LockingManager needs strong fairness of `LockToEnd`, as helpers may lock and unlock the Mutex over
and over: tokio's Mutex is fair, it serves waiters in order. `EveryCallAnswered` starts at a call
that has begun; weak fairness suffices because whoever holds the row, or the connection, gives it
up for good: a call runs once.

## Findings

Four runs end with the violation of something the repository says of itself.

- `swallowed_error`. When a statement fails, PostgreSQL has aborted the transaction. A closure
  that goes on and returns Ok makes the manager send COMMIT, which the server answers with
  ROLLBACK and the drivers with success: `transaction()` answers Ok and nothing is committed. The
  documentation promises a commit on success. `create_order` is not concerned, each of its
  statements has a `?` (`OkMeansPlaced` holds).
- `ambiguous_commit`. `context.commit().await?` also answers Err if the connection breaks after
  the server applied COMMIT. The documentation promises a rollback on error. It is inherent
  in COMMIT over a network; a caller that retries `create_order` may order twice.
- `outliving_context`. When somebody still has a clone of the Arc, `try_unwrap` fails, the
  call answers Err and the transaction lives on with its row locks and its connection until that
  task ends. The documentation says it cannot live longer than the block.
- `stock_large`. `InventoryQuantity::new` accepts any positive u32 and `as i32` makes one above
  `i32::MAX` negative. `decrease_stock` of more than is available then finds enough stock and
  subtracts a negative number: it adds, or overflows, and does not answer Err. The trace ends with
  `decrease_stock(4)` of a new Inventory, 4 standing for 2^31, which panics. The aggregate's
  test, and the end-to-end test, expect an Err. `create_order` is not concerned: its quantity comes
  from an i32.

The runs that pass show what holds beside `outliving_context`: such a transaction is never
committed (`ErrMeansRolledBack`), and once the last clone is gone it is released (`AbandonedIsReleased`).

### Observations

What else was met while modelling, and is in the models as the code does it:

- `OrderQuantity::new` accepts the same large values: such an order is stored as a negative integer
  and `find_by_id` then answers Err for ever. `OrderReadsBack` says so: accepted orders are found
  again up to `i32::MAX`, and only those. `increase_stock` has no upper check: a build without
  overflow checks wraps to a negative stock and answers Ok (`OverflowChecks = FALSE`).
- An update that matches no row is Ok with sqlx and an Err with SeaORM, where a test says the two
  behave identically (`application/tests/end_to_end_test.rs:54`); hence `strayed` in Adapters, and the
  two answers of `UpdateInventory` in StockKeeping.
- `db-reset` drops the SeaORM tables and leaves `public.seaql_migrations`, so a later `up` finds
  nothing pending, makes no table and succeeds; hence `crossed` in Migrations.
- `up` and `down` at the same time: an `up` that has read the second version as pending skips its
  table if it is there when the statement runs, and records the version after a `down` has dropped
  it. The version is then recorded without its table, and no later `up` makes it; hence `crossed`
  again. They can also leave the second version recorded and the first one not.
- `run_migrations.sh` loops over the `*.sql` of the directory it is run in. The files are in `sqlx/`
  below it; run beside the script it finds none and reports success. A statement that fails is
  reported as a success too, since `psql -f` is run without `ON_ERROR_STOP`. Both are in Migrations,
  and `ScriptMakesTables` is stated of the scripts to which neither happened (`disturbed`).
- The SeaORM migration of the orders creates the table `order`, the entity uses `orders`
  (`TableOf("m2")` against `Tables`): after the Migrator alone the adapter has no order table;
  `migrate-tables` makes it.
- Both binaries order an item they have just invented, which no inventory has: they always
  answer that the inventory is not found.
- With the archived managers a helper inside a statement that never returns keeps the call from
  answering: `ReturnedIsAnswered` is false of them, `AnsweredIfUnlocked` true.

## What is proved

TLAPS proves the theorems for any number of calls, helpers, rows, items and connections, any
pool size, any width of the integers (`Half` at least 1) and any number of runners.

`TransactionManagerProofs`. None of the properties is inductive by itself: that an Ok is
committed depends on where the transaction can be at each point of the call, and that on who
may still run statements. The invariant `IInv` adds `Ownership` (who holds a clone at each
phase, and that whoever locks the Mutex holds one) and `Outcome` (where the transaction can be
at each phase). From it follow `TypeCorrect`, `ContextIsReclaimed` (`SoleOwner`),
`OkIsCommitted` and, assuming `~LossyCommit`, `ErrIsRolledBack`. The last assumption is
necessary: `ambiguous_commit` is the counterexample without it.

`OrderManagementProofs`. Every step of `create_order` is a step of the manager
(`OrderStepIsManagerStep`), so `IInv` holds here as well (`OrdersUseTransactionManager`).
`OrderInv` adds

- `Progress`: how far the closure is, by phase and by state of the transaction; a transaction
  that can commit belongs to a closure that is `done`;
- `Staged(t)`: what `t` has written is locked by `t`; from its SELECT to its COMMIT its item's
  committed row is the one it copied; and at the end exactly two rows are written, the reduced
  stock and the order;
- `Tables`: an order row is there exactly for the committed calls.

The argument: a step of one call keeps `Staged` of another because only COMMIT changes `db`, it
changes only rows its transaction has written, and those it has locked (`PgKeeps`, `OthersKeep`);
for its own steps there is a lemma per statement. Then a COMMIT does exactly what the atomic
order does (`CommitPlaces`), which gives `StockNeverOversold` and the refinement
`ImplementsAtomically`: each step of `create_order` is a step of AtomicOrders or none.
`StockIsFresh`, `OkIsPlaced` and, assuming `~LossyCommit`, `ErrIsNotPlaced` follow from the
invariant. The refinement needs no such assumption: `MayBeLate` is `LossyCommit`.

`TransactionBlockProofs`: `ImplementsBlock`, the refinement of TransactionBlock, with or without
`LossyCommit`. Each action changes what the contract sees of one call only (`Elsewhere`); for
that call, `Outcome` says where its transaction can be, so each arm of the action is a step of
the contract or none. A COMMIT copies `Visible`, which is the block's writes over the tables.
`Shaped` is all the argument needs of the invariant: types, `Outcome`, and that no statement runs
once the commit has begun.

The same module proves the contract for the archived managers: `LockedTypeCorrect`,
`LockedOkIsCommitted` and `LockedImplementsBlock`. `Ownership` fails there, as helpers keep clones
during the commit; `LockedOwnership` says of the Mutex what is needed instead, `Outcome` is the
same, and both give `Shaped`, so the lemmas about the shared actions are cited and only the actions
of their own are new.

`OrderTablesProofs`: what `create_order` leaves behind.

- `AnswersWhenEnded`. `AnsweredIsEnded` is not inductive: it needs that a row's lock belongs to a
  transaction that has not ended on the server (`LocksLive`), and that `create_order` gives its
  context to nobody, so that it is always reclaimed and ended before the answer (`Ends`).
- `StockIsConserved`. What a COMMIT does to the rows is `CommitPlaces`; what is left is to add up
  orders over a set. `MapThenSumSet` is a CHOOSE of a recursive function that takes elements in an
  order nobody knows, so first: there is such a function (`SumExists`), it is the only one
  (`SumUnique`), and any element may be taken out of the sum first (`TotalTake`). Each is proved on
  a smallest finite set for which it would fail (`Minimal`), as the library's induction theorems
  cannot be instantiated, but the well-foundedness of finite sets can be cited. Nothing is assumed
  of how many calls there are: that finitely many have placed an order is an invariant of its own
  (`PlacedFinite`).
- `WaitingHoldsNothing` (`WaitsEmptyHanded`). With the row of its item locked a call needs only the
  row of its own order, which is nobody else's; before that it has locked nothing (`LocksLate`). So
  no orders wait in a circle, for any items, which is the part of `EveryCallAnswered` that does not
  need fairness.

`ApplicationProofs`: every step of a process, and of the server after it was killed, is a step
of `create_order` or none (`ProcessesPlaceOrders`), so `OrderInv` holds of the processes. `ExitFits`
adds what an exit status means for the call: a process that succeeded had its Ok, one that failed
its Err or made no call. With `OrderInv` that gives `AppTypeCorrect` and, assuming `~LossyCommit`,
`ExitStatusTells`. `KilledLeaveNoHalves` carries the atomic order, the conserved stock and the waiting
over to processes that are killed anywhere.

`StockKeepingProofs`: `TypeCorrect` and `OrderIsReadBack` (`OrderReadsBack`) for any amounts, any
width and either build; that a u32 survives `as i32` and back is arithmetic, and which of them
`find_by_id` refuses follows from the stored order being the `as i32` of the one asked for, which is
the invariant. `StockStaysExact` holds under `Checked`: overflow checks are on and stock is
decreased by less than `Half` at a time. Both conditions are necessary (Observations,
`stock_large`). Its invariant says of hand and table together that each is its ledger and not
negative.

`AdaptersProofs`: `AdaptersTypeCorrect`, `AnswersAreTheSame`, `ViewsAreTheSame` and
`TablesAreTheSame`, for any items, orders and quantities. `Side(a)` is all an adapter's transaction
sees, has written and holds. What a repository call makes of a side, and what it answers, are two
functions, `After` and `Says`, that do not mention the adapter; `RunDoes` proves them of every
action. So the invariant `Together` says that the sides are equal between calls, and that in a call
the side that has answered is `After` of the other. The one place where the code of the two differs,
an update that matches no row, is excluded by `HeldIsThere`: a row that is locked is there.

`MigrationsProofs`: `TypeCorrect`, `RecordedStaysThere`, `ThereStaysRecorded` and `ScriptSucceeds`,
for any number of runners and any set of tools. The argument is about the order of the statements:
`up` creates a table immediately before its record, `down` drops it immediately before. `Job` says so
of what each runner has still to send (`Fits`: which tool sends which statements; `Follows`: which may
come next; `MayEnd`: which may come last). `Changes` says what its transaction has changed so far:
the Migrator's own table is made with its record, or its record comes next, and the record is deleted
with the table. With them a commit keeps `ThereIsRecorded`, whatever overlaps, since no other
tool makes that table. While nothing has crossed, no `up` is under way beside a `down` (`Apart`), so
the table of what is being recorded is there and stays (`Paired`), which keeps `RecordedIsThere`.
There is one lemma for each thing a runner does: it starts, sends a statement in a transaction or by
itself, skips one, or ends. For `ScriptSucceeds` (`ScriptMakesTables`), `Scripted` says by what is
left of the script's files what is already there (`Made`): in the order its files are numbered no
statement is refused, so it does no harm that `psql -f` would go on.

Only model-checked: the liveness properties `ReturnedIsAnswered`, `AbandonedIsReleased`,
`AnsweredIfUnlocked`, `EveryCallAnswered`, `EveryLockReleased` and `OrderEnds`, because
liveness under fairness and ENABLED are out of the prover's reach. Every invariant and every action
property of a passing run is a theorem, some under the condition their paragraph names.

The assumptions on the constants are named in the modules that declare them
(`PostgresAssumption`, `TransactionManagerAssumption`, `HalfAssumption`,
`OrderManagementAssumption`, `StockKeepingAssumption`, `AdaptersAssumption`,
`MigrationsAssumption`); TLC evaluates them in every run.

## Abstractions

- A row is `[item, quantity]`, names are model values, errors have no text.
- A statement and its answer are one step, between `LockContext` and which other tasks may run. A
  future dropped with a statement under way is modelled as dropped before the statement ran or
  after it: the ROLLBACK that Drop queues follows the statement on the same connection.
- COMMIT is two steps, applied and answered, as the two ends can disagree. ROLLBACK is one: its
  answer is ignored.
- PostgreSQL's deadlock detection, constraint violations and timeouts are all `StatementErr`,
  which may happen to any statement at any time.
- A caller does not retry: two calls for the same order are two calls.
- Only `create_order` writes the tables of OrderManagement; rows other programs left behind are
  the initial values.

## Not modelled

- The Migrator's `fresh`, `refresh`, `reset` and `status`: `fresh` drops every table of the public
  schema and is SeaORM's own code, the others repeat `up` and `down`.
- The two pattern files of `use_case/src/examples` and `test_compile_error.rs`: documentation in
  comments and code the borrow checker rejects; there is nothing to execute.
- The benchmark, the mocks of the unit tests, the texts of errors, logging, `DATABASE_URL`.
- PostgreSQL beyond what the statements of the repository use: no savepoints, no detection of
  deadlocks (one statement's row locks are taken in one order by `create_order`; any statement
  may fail instead), no isolation level but the default.
- How sqlx's context owns its transaction (`transmute` to `'static`): a matter of memory, not of
  steps. What the lifetime allows, a context that outlives its block, is `outliving_context`.
