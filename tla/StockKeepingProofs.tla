-------------------------- MODULE StockKeepingProofs ------------------------
(***************************************************************************)
(* Theorems of StockKeeping, for every width of the integers.  A program   *)
(* whose InventoryQuantities are below 2^31 and whose arithmetic is checked *)
(* keeps its stock exact; StockLarge.cfg is the counterexample with larger *)
(* ones.  What is said of orders holds of every u32 and of either build.   *)
(***************************************************************************)
EXTENDS StockKeeping, TLAPS

\* Arithmetic that stays in range is not wrapped.
LEMMA WrappedInRange ==
  ASSUME NEW n \in I32
  PROVE  Wrapped(n) = n
<1>1. Half \in Nat \ {0} /\ n \in Int /\ n + Half \in 0 .. (2 * Half) - 1
  BY HalfAssumption DEF I32
<1>2. ASSUME NEW m \in Nat, NEW d \in Nat, m < d
      PROVE  m % d = m
  BY <1>2
<1>3. n + Half \in Nat /\ 2 * Half \in Nat /\ n + Half < 2 * Half
  BY <1>1
<1>4. (n + Half) % (2 * Half) = n + Half
  BY <1>2, <1>3
<1>5. QED
  BY <1>1, <1>4 DEF Wrapped

\* What wraps around lands among the 32-bit integers.
LEMMA WrappedType ==
  ASSUME NEW n \in Int
  PROVE  Wrapped(n) \in I32
<1>1. Half \in Nat \ {0} /\ n + Half \in Int
  BY HalfAssumption
<1>2. ASSUME NEW m \in Int, NEW d \in Nat \ {0}
      PROVE  m % d \in 0 .. d - 1
  BY <1>2
<1>3. 2 * Half \in Nat \ {0}
  BY <1>1
<1>4. (n + Half) % (2 * Half) \in 0 .. (2 * Half) - 1
  BY <1>1, <1>2, <1>3
<1>5. ((n + Half) % (2 * Half)) - Half \in -Half .. Half - 1
  BY <1>1, <1>4
<1>6. QED
  BY <1>5 DEF Wrapped, I32

\* The ranges, and what the amounts of a run are.
LEMMA Widths ==
  /\ Half \in Nat \ {0}
  /\ None \notin I32 /\ None \notin U32
  /\ \A n \in I32 : n \in Int
  /\ \A u \in U32 : u \in Nat /\ AsI32(u) \in I32
  /\ \A u \in U32 : u < Half => AsI32(u) = u
  /\ \A u \in Amounts : u \in U32 /\ u \in Nat /\ AsI32(u) \in Int
<1>1. Half \in Nat \ {0} /\ None \notin Int /\ \A u \in Amounts : u \in U32
  BY HalfAssumption, StockKeepingAssumption
<1>2. /\ \A n \in I32 : n \in Int
      /\ \A u \in U32 : u \in Nat /\ AsI32(u) \in I32
      /\ \A u \in U32 : u < Half => AsI32(u) = u
  BY <1>1 DEF I32, U32, AsI32
<1>3. None \notin I32 /\ None \notin U32
  BY <1>1, <1>2
<1>4. \A u \in Amounts : u \in U32 /\ u \in Nat /\ AsI32(u) \in Int
  BY <1>1, <1>2
<1>5. QED
  BY <1>1, <1>2, <1>3, <1>4

\* Every variable keeps its type, whatever wraps around or panics.
LEMMA TypeStep == TypeOK /\ [Next]_vars => TypeOK'
<1> SUFFICES ASSUME TypeOK, [Next]_vars PROVE TypeOK'
  OBVIOUS
<1> USE Widths
<1> DEFINE CallOK == call' \in [op : Operations, of : I32 \cup U32 \cup {None}]
<1>1. ASSUME NEW op \in Operations, NEW n \in I32 \cup U32 \cup {None}, Calls(op, n)
      PROVE  CallOK
  BY <1>1 DEF Calls
<1>2. ASSUME NEW result \in Int, NEW units \in Int, Becomes(result, units), CallOK
      PROVE  TypeOK'
  BY <1>2, WrappedType DEF TypeOK, Becomes, orders
<1>3. ASSUME NEW how \in {"ok", "nothing", "err"}, Only(how), CallOK PROVE TypeOK'
  BY <1>3 DEF TypeOK, Only, inventory, orders
<1>4. ASSUME NEW q \in I32, NewInventory(q) PROVE TypeOK'
  <2>1. CallOK
    BY <1>1, <1>4 DEF NewInventory, Operations
  <2>2. QED
    BY <1>3, <1>4, <2>1 DEF TypeOK, NewInventory, orders
<1>5. ASSUME NEW q \in I32, IncreaseStock(q) PROVE TypeOK'
  <2>1. held \in Int /\ ledger \in Int /\ CallOK
    BY <1>1, <1>5 DEF IncreaseStock, TypeOK, Operations
  <2>2. held + q \in Int /\ ledger + q \in Int
    BY <2>1
  <2>3. QED
    BY <1>2, <1>3, <1>5, <2>1, <2>2 DEF IncreaseStock, Increased
<1>6. ASSUME NEW u \in Amounts, DecreaseStock(u) PROVE TypeOK'
  <2>0. u \in U32 /\ u \in Int /\ AsI32(u) \in Int
    OBVIOUS
  <2>1. held \in Int /\ ledger \in Int /\ CallOK
    BY <1>1, <1>6, <2>0 DEF DecreaseStock, TypeOK, Operations
  <2>2. held - AsI32(u) \in Int /\ ledger - u \in Int
    BY <2>0, <2>1
  <2>3. QED
    BY <1>2, <1>3, <1>6, <2>1, <2>2 DEF DecreaseStock, Decreased
<1>7. ASSUME NEW u \in U32, CreateOrder(u) PROVE TypeOK'
  <2>1. CallOK
    BY <1>1, <1>7 DEF CreateOrder, Operations
  <2>2. QED
    BY <1>3, <1>7, <2>1 DEF TypeOK, CreateOrder, inventory
<1>8. ASSUME CreateInventory \/ UpdateInventory PROVE TypeOK'
  <2>1. CallOK /\ held \in I32
    BY <1>1, <1>8 DEF CreateInventory, UpdateInventory, Operations, TypeOK
  <2>2. CASE Stores
    BY <2>1, <2>2 DEF TypeOK, Stores, orders
  <2>3. QED
    BY <1>3, <1>8, <2>1, <2>2 DEF CreateInventory, UpdateInventory
<1>9. ASSUME FindInventory PROVE TypeOK'
  <2>1. CallOK
    BY <1>1, <1>9 DEF FindInventory, Operations
  <2>2. CASE row # None /\ ~InventoryRejects(row)
    <3>1. held' = row /\ ledger' = saved /\ answer' = "ok" /\ UNCHANGED <<row, saved, orders>>
      BY <1>9, <2>2 DEF FindInventory
    <3>2. QED
      BY <2>1, <2>2, <3>1 DEF TypeOK, orders
  <2>3. CASE row = None \/ InventoryRejects(row)
    <3>1. Only("nothing") \/ Only("err")
      BY <1>9, <2>3 DEF FindInventory
    <3>2. QED
      BY <1>3, <2>1, <3>1
  <2>4. QED
    BY <2>2, <2>3
<1>10. ASSUME FindOrder PROVE TypeOK'
  <2>1. CallOK
    BY <1>1, <1>10 DEF FindOrder, Operations
  <2>2. QED
    BY <1>3, <1>10, <2>1 DEF FindOrder
<1>11. ASSUME UNCHANGED vars PROVE TypeOK'
  BY <1>11 DEF TypeOK, vars, inventory, orders
<1>12. QED
  BY <1>4, <1>5, <1>6, <1>7, <1>8, <1>9, <1>10, <1>11 DEF Next

\* Every variable keeps its type.
THEOREM TypeCorrect == Spec => []TypeOK
<1>1. Init => TypeOK
  BY DEF Init, TypeOK, Operations
<1>2. QED
  BY <1>1, TypeStep, PTL DEF Spec
-----------------------------------------------------------------------------
\* The build panics on overflow, and no InventoryQuantity is above i32::MAX.
Checked == OverflowChecks /\ \A u \in Amounts : u < Half

LEMMA ExactStep ==
  ASSUME Checked
  PROVE  TypeOK /\ StockIsExact /\ [Next]_vars => StockIsExact'
<1> SUFFICES ASSUME TypeOK, StockIsExact, [Next]_vars PROVE StockIsExact'
  OBVIOUS
<1> USE Widths
<1>1. ASSUME NEW result \in Int, NEW units \in Int, Becomes(result, units),
             result = units, result >= 0
      PROVE  StockIsExact'
  <2>1. result \in I32 => Wrapped(result) = result
    BY WrappedInRange
  <2>2. UNCHANGED <<row, saved>>
    BY <1>1 DEF Becomes
  <2>3. held' # None => held' = ledger' /\ held' >= 0
    BY <1>1, <2>1 DEF Becomes, Checked
  <2>4. QED
    BY <2>2, <2>3 DEF StockIsExact
<1>2. ASSUME NEW how, Only(how) PROVE StockIsExact'
  BY <1>2 DEF StockIsExact, Only, inventory
<1>3. ASSUME NEW q \in I32, NewInventory(q) PROVE StockIsExact'
  <2>1. CASE InventoryRejects(q)
    BY <1>2, <1>3, <2>1 DEF NewInventory
  <2>2. CASE ~InventoryRejects(q)
    BY <1>3, <2>2 DEF NewInventory, InventoryRejects, StockIsExact
  <2>3. QED
    BY <2>1, <2>2
<1>4. ASSUME NEW q \in I32, IncreaseStock(q) PROVE StockIsExact'
  <2>1. held \in Int /\ ledger \in Int /\ held = ledger /\ held >= 0 /\ q \in Int
    BY <1>4 DEF IncreaseStock, TypeOK, StockIsExact
  <2>2. CASE IncreaseRejects(q)
    BY <1>2, <1>4, <2>2 DEF IncreaseStock
  <2>3. CASE ~IncreaseRejects(q)
    <3>1. held + q \in Int /\ ledger + q = held + q /\ held + q >= 0
      BY <2>1, <2>3 DEF IncreaseRejects
    <3>2. Becomes(held + q, ledger + q)
      BY <1>4, <2>3 DEF IncreaseStock, Increased
    <3>3. QED
      BY <1>1, <3>1, <3>2
  <2>4. QED
    BY <2>2, <2>3
<1>5. ASSUME NEW u \in Amounts, DecreaseStock(u) PROVE StockIsExact'
  <2>1. u \in U32 /\ u \in Int /\ AsI32(u) = u
    BY DEF Checked
  <2>2. held \in Int /\ ledger \in Int /\ held = ledger
    BY <1>5 DEF DecreaseStock, TypeOK, StockIsExact
  <2>3. CASE QuantityNewRejects(u) \/ DecreaseRejects(held, u)
    BY <1>2, <1>5, <2>3 DEF DecreaseStock
  <2>4. CASE ~(QuantityNewRejects(u) \/ DecreaseRejects(held, u))
    <3>1. held - u \in Int /\ ledger - u = held - u /\ held - u >= 0
      BY <2>1, <2>2, <2>4 DEF DecreaseRejects
    <3>2. Becomes(held - u, ledger - u)
      BY <1>5, <2>1, <2>4 DEF DecreaseStock, Decreased
    <3>3. QED
      BY <1>1, <3>1, <3>2
  <2>5. QED
    BY <2>3, <2>4
<1>6. ASSUME NEW u \in U32, CreateOrder(u) PROVE StockIsExact'
  <2>1. UNCHANGED inventory
    BY <1>6 DEF CreateOrder, Only
  <2>2. QED
    BY <2>1 DEF inventory, StockIsExact
<1>7. ASSUME CreateInventory \/ UpdateInventory PROVE StockIsExact'
  <2>1. held # None
    BY <1>7 DEF CreateInventory, UpdateInventory
  <2>2. CASE Stores
    BY <2>1, <2>2 DEF Stores, StockIsExact
  <2>3. QED
    BY <1>2, <1>7, <2>2 DEF CreateInventory, UpdateInventory
<1>8. ASSUME FindInventory PROVE StockIsExact'
  <2>1. CASE row = None \/ InventoryRejects(row)
    <3>1. Only("nothing") \/ Only("err")
      BY <1>8, <2>1 DEF FindInventory
    <3>2. QED
      BY <1>2, <3>1
  <2>2. CASE row # None /\ ~InventoryRejects(row)
    <3>1. held' = row /\ ledger' = saved /\ UNCHANGED <<row, saved>>
      BY <1>8, <2>2 DEF FindInventory
    <3>2. QED
      BY <2>2, <3>1 DEF StockIsExact
  <2>3. QED
    BY <2>1, <2>2
<1>9. ASSUME FindOrder PROVE StockIsExact'
  BY <1>2, <1>9 DEF FindOrder
<1>10. ASSUME UNCHANGED vars PROVE StockIsExact'
  BY <1>10 DEF vars, StockIsExact, inventory
<1>11. QED
  BY <1>3, <1>4, <1>5, <1>6, <1>7, <1>8, <1>9, <1>10 DEF Next

\* An Inventory holds what was put into it less what was taken out, in hand and in the
\* table, after any history of calls: for every width of the integers.
THEOREM StockStaysExact ==
  ASSUME Checked
  PROVE  Spec => []StockIsExact
<1>1. Init => StockIsExact
  BY DEF Init, StockIsExact
<1>2. TypeOK /\ StockIsExact /\ [Next]_vars => StockIsExact'
  BY ExactStep
<1>3. QED
  BY <1>1, <1>2, TypeCorrect, PTL DEF Spec
-----------------------------------------------------------------------------
\* The stored order is the one that was accepted, converted.
Kept == stored # None => asked \in U32 /\ asked # 0 /\ stored = AsI32(asked)

LEMMA KeptStep == TypeOK /\ Kept /\ [Next]_vars => Kept'
<1> SUFFICES ASSUME TypeOK, Kept, [Next]_vars PROVE Kept'
  OBVIOUS
<1>1. ASSUME NEW u \in U32, CreateOrder(u) PROVE Kept'
  BY <1>1 DEF CreateOrder, QuantityNewRejects, Only, orders, Kept
<1>2. CASE UNCHANGED orders
  BY <1>2 DEF Kept, orders
<1>3. QED
  BY <1>1, <1>2 DEF Next, vars, NewInventory, IncreaseStock, DecreaseStock, CreateInventory,
     UpdateInventory, FindInventory, FindOrder, Becomes, Stores, Only

\* There and back through an i32: what was above its range comes back negative, the rest
\* unchanged.
LEMMA ThereAndBack ==
  ASSUME NEW u \in U32, u # 0
  PROVE  /\ AsU32(AsI32(u)) = u
         /\ ~OrderQuantityRejects(AsI32(u)) <=> u < Half
  BY HalfAssumption DEF U32, AsI32, AsU32, OrderQuantityRejects

\* For every u32 and either build: an order is found again exactly if its quantity fits an
\* i32, and then with the quantity it was made with.
THEOREM OrderIsReadBack == Spec => OrderReadsBack
<1>1. Init => Kept
  BY DEF Init, Kept
<1>2. TypeOK /\ Kept /\ [Next]_vars =>
        [call'.op = "find order" =>
           /\ answer' = "ok" <=> asked < Half
           /\ answer' = "ok" => AsU32(stored) = asked]_vars
  <2> SUFFICES ASSUME TypeOK, Kept, Next, call'.op = "find order"
               PROVE  /\ answer' = "ok" <=> asked < Half
                      /\ answer' = "ok" => AsU32(stored) = asked
    OBVIOUS
  <2>1. FindOrder
    <3>1. ASSUME NEW op, NEW n, Calls(op, n) PROVE op = "find order"
      BY <3>1 DEF Calls
    <3>2. ~(\E q \in I32 : NewInventory(q) \/ IncreaseStock(q))
      BY <3>1 DEF NewInventory, IncreaseStock
    <3>3. ~(\E u \in Amounts : DecreaseStock(u)) /\ ~(\E u \in U32 : CreateOrder(u))
      BY <3>1 DEF DecreaseStock, CreateOrder
    <3>4. ~CreateInventory /\ ~UpdateInventory /\ ~FindInventory
      BY <3>1 DEF CreateInventory, UpdateInventory, FindInventory
    <3>5. QED
      BY <3>2, <3>3, <3>4 DEF Next
  <2>2. asked \in U32 /\ asked # 0 /\ stored = AsI32(asked)
    BY <2>1 DEF FindOrder, Kept
  <2>3. answer' = "ok" <=> ~OrderQuantityRejects(stored)
    BY <2>1 DEF FindOrder, Only
  <2>4. QED
    BY <2>2, <2>3, ThereAndBack
<1>3. QED
  BY <1>1, <1>2, KeptStep, TypeCorrect, PTL DEF Spec, OrderReadsBack
=============================================================================
