-------------------------- MODULE OrderTablesProofs -------------------------
(***************************************************************************)
(* What create_order leaves behind, for any number of callers, items and   *)
(* connections: when it answers, its transaction has ended and holds no    *)
(* row lock; and stock and orders of an item never change but against each *)
(* other.                                                                  *)
(***************************************************************************)
EXTENDS OrderManagementProofs, FiniteSetTheorems, WellFoundedInduction

USE DEF pgVars, ctxVars

(***************************************************************************)
(* Sums.  MapThenSumSet takes the elements of a set one by one, in an      *)
(* order nobody knows.  That its value is the sum, whatever the order, is  *)
(* proved by looking at a smallest set of which it would not hold: finite  *)
(* sets are well-founded.                                                  *)
(***************************************************************************)
Total(f, S) == MapThenSumSet(LAMBDA t : f[t].quantity, S)

\* The element that the sum takes first.
First(T) == CHOOSE x \in T : TRUE

\* sum is the recursive function that the sum over S is the last value of.
Recurses(f, S, sum) ==
  sum = [T \in SUBSET S |-> IF T = {} THEN 0
                            ELSE f[First(T)].quantity + sum[T \ {First(T)}]]

LEMMA TotalRecurses ==
  ASSUME NEW f, NEW S
  PROVE  Total(f, S) = (CHOOSE sum : Recurses(f, S, sum))[S]
  BY DEF Total, MapThenSumSet, MapThenFoldSet, Recurses, First

\* Among finite sets some is smallest.
LEMMA Minimal ==
  ASSUME NEW S, IsFiniteSet(S), NEW Bad, Bad \subseteq SUBSET S, Bad # {}
  PROVE  \E T \in Bad : \A U \in Bad : ~ (U \subseteq T /\ U # T)
<1>1. IsWellFoundedOn(StrictSubsetOrdering(S), SUBSET S)
  BY FS_StrictSubsetOrderingWellFounded, FS_FiniteSubsetsOfFinite
<1>2. \E T \in Bad : \A U \in Bad : <<U, T>> \notin StrictSubsetOrdering(S)
  BY <1>1, WFMin
<1>3. QED
  BY <1>2 DEF StrictSubsetOrdering

\* Two such functions agree on every set they are both defined on.
LEMMA SumUnique ==
  ASSUME NEW S, IsFiniteSet(S), NEW f, NEW V, NEW W, S \subseteq V, S \subseteq W,
         NEW g, Recurses(f, V, g), NEW h, Recurses(f, W, h)
  PROVE  \A T \in SUBSET S : g[T] = h[T]
<1> DEFINE Bad == {T \in SUBSET S : g[T] # h[T]}
<1>1. SUFFICES ASSUME Bad # {} PROVE FALSE
  OBVIOUS
<1>2. PICK T \in Bad : \A U \in Bad : ~ (U \subseteq T /\ U # T)
  <2> HIDE DEF Bad
  <2>1. Bad \subseteq SUBSET S
    BY DEF Bad
  <2> QED BY <1>1, <2>1, Minimal
<1>3. T \in SUBSET V /\ T \in SUBSET W
  OBVIOUS
<1>4. T # {}
  BY <1>3 DEF Recurses
<1>5. First(T) \in T
  BY <1>4 DEF First
<1>6. g[T \ {First(T)}] = h[T \ {First(T)}]
  BY <1>2, <1>5
<1>7. g[T] = f[First(T)].quantity + g[T \ {First(T)}]
  <2>1. g = [X \in SUBSET V |-> IF X = {} THEN 0
                            ELSE f[First(X)].quantity + g[X \ {First(X)}]]
    BY DEF Recurses
  <2> QED BY <2>1, <1>3, <1>4
<1>8. h[T] = f[First(T)].quantity + h[T \ {First(T)}]
  <2>1. h = [X \in SUBSET W |-> IF X = {} THEN 0
                            ELSE f[First(X)].quantity + h[X \ {First(X)}]]
    BY DEF Recurses
  <2> QED BY <2>1, <1>3, <1>4
<1> QED
  BY <1>6, <1>7, <1>8

\* There is such a function.
LEMMA SumExists ==
  ASSUME NEW S, IsFiniteSet(S), NEW f
  PROVE  \E sum : Recurses(f, S, sum)
<1> DEFINE Bad == {T \in SUBSET S : ~ \E sum : Recurses(f, T, sum)}
<1>1. SUFFICES ASSUME Bad # {} PROVE FALSE
  OBVIOUS
<1>2. PICK T \in Bad : \A U \in Bad : ~ (U \subseteq T /\ U # T)
  <2> HIDE DEF Bad
  <2>1. Bad \subseteq SUBSET S
    BY DEF Bad
  <2> QED BY <1>1, <2>1, Minimal
<1> DEFINE R(U) == CHOOSE sum : Recurses(f, U, sum)
           sub(U) == U \ {First(U)}
           val(U) == IF U = {} THEN 0 ELSE f[First(U)].quantity + R(sub(U))[sub(U)]
           all == [U \in SUBSET T |-> val(U)]
<1>3. \A U \in SUBSET T : U # T => Recurses(f, U, R(U))
  BY <1>2
<1>4. ASSUME NEW U \in SUBSET T, U # {}
      PROVE  all[sub(U)] = R(sub(U))[sub(U)]
  <2>1. First(U) \in U /\ sub(U) \in SUBSET T /\ sub(U) # T
    BY <1>4 DEF First
  <2>2. Recurses(f, sub(U), R(sub(U)))
    BY <1>3, <2>1
  <2> DEFINE V == sub(U)
  <2> HIDE DEF V
  <2>3. R(V) = [X \in SUBSET V |-> IF X = {} THEN 0
                            ELSE f[First(X)].quantity + R(V)[X \ {First(X)}]]
    BY <2>2 DEF V, Recurses
  <2>4. all[V] = val(V)
    BY <2>1 DEF V
  <2>5. CASE V = {}
    BY <2>3, <2>4, <2>5 DEF V
  <2>6. CASE V # {}
    <3>1. First(V) \in V /\ sub(V) \in SUBSET T /\ sub(V) # T
      BY <2>1, <2>6 DEF First, V
    <3>2. Recurses(f, sub(V), R(sub(V)))
      BY <1>3, <3>1
    <3>3. IsFiniteSet(sub(V))
      BY <3>1, FS_Subset
    <3>4. R(sub(V))[sub(V)] = R(V)[sub(V)]
      BY <2>2, <3>2, <3>3, SumUnique DEF V
    <3>5. R(V)[V] = f[First(V)].quantity + R(V)[sub(V)]
      BY <2>3, <2>6
    <3> QED
      BY <2>4, <2>6, <3>4, <3>5 DEF V
  <2> QED
    BY <2>5, <2>6
<1>5. Recurses(f, T, all)
  <2>1. \A U \in SUBSET T : val(U) = IF U = {} THEN 0 ELSE f[First(U)].quantity + all[sub(U)]
    <3> HIDE DEF all, R
    <3> QED BY <1>4
  <2>2. all = [U \in SUBSET T |-> IF U = {} THEN 0 ELSE f[First(U)].quantity + all[sub(U)]]
    <3> HIDE DEF R
    <3> QED BY <2>1
  <2> HIDE DEF all
  <2> QED BY <2>2 DEF Recurses
<1> QED
  BY <1>5, <1>2

LEMMA TotalStep ==
  ASSUME NEW S, IsFiniteSet(S), NEW f
  PROVE  Total(f, S) = IF S = {} THEN 0 ELSE f[First(S)].quantity + Total(f, S \ {First(S)})
<1> DEFINE V == S \ {First(S)}
           g == CHOOSE sum : Recurses(f, S, sum)
           h == CHOOSE sum : Recurses(f, V, sum)
<1>1. IsFiniteSet(V)
  BY FS_Subset
<1>2. Recurses(f, S, g) /\ Recurses(f, V, h)
  BY <1>1, SumExists
<1> HIDE DEF g, h
<1>3. g[S] = IF S = {} THEN 0 ELSE f[First(S)].quantity + g[V]
  BY <1>2 DEF Recurses
<1>4. g[V] = h[V]
  <2>1. V \subseteq S
    OBVIOUS
  <2> HIDE DEF V
  <2>2. \A T \in SUBSET V : g[T] = h[T]
    BY <1>1, <1>2, <2>1, SumUnique
  <2> QED BY <2>2
<1>5. Total(f, S) = g[S] /\ Total(f, V) = h[V]
  BY TotalRecurses DEF g, h
<1> QED
  BY <1>3, <1>4, <1>5

LEMMA TotalEmpty == \A f : Total(f, {}) = 0
<1> SUFFICES ASSUME NEW f PROVE Total(f, {}) = 0
  OBVIOUS
<1>1. IsFiniteSet({})
  BY FS_EmptySet
<1> QED
  BY <1>1, TotalStep

LEMMA TotalType ==
  ASSUME NEW S, IsFiniteSet(S), NEW f, \A t \in S : f[t].quantity \in Int
  PROVE  Total(f, S) \in Int
<1> DEFINE Bad == {T \in SUBSET S : Total(f, T) \notin Int}
<1>1. SUFFICES ASSUME Bad # {} PROVE FALSE
  OBVIOUS
<1>2. PICK T \in Bad : \A U \in Bad : ~ (U \subseteq T /\ U # T)
  <2>1. Bad \subseteq SUBSET S
    OBVIOUS
  <2> HIDE DEF Bad
  <2> QED BY <1>1, <2>1, Minimal
<1>3. IsFiniteSet(T)
  BY FS_Subset
<1>4. T # {}
  BY TotalEmpty
<1>5. First(T) \in T
  BY <1>4 DEF First
<1>6. Total(f, T \ {First(T)}) \in Int /\ f[First(T)].quantity \in Int
  BY <1>2, <1>5
<1>7. Total(f, T) = f[First(T)].quantity + Total(f, T \ {First(T)})
  BY <1>3, <1>4, TotalStep
<1> QED
  BY <1>6, <1>7

\* Any element may be taken out of the sum first.
LEMMA TotalTake ==
  ASSUME NEW S, IsFiniteSet(S), NEW f, \A t \in S : f[t].quantity \in Int
  PROVE  \A x \in S : Total(f, S) = f[x].quantity + Total(f, S \ {x})
<1> DEFINE Bad == {T \in SUBSET S : \E x \in T : Total(f, T) # f[x].quantity + Total(f, T \ {x})}
<1>1. SUFFICES ASSUME Bad # {} PROVE FALSE
  OBVIOUS
<1>2. PICK T \in Bad : \A U \in Bad : ~ (U \subseteq T /\ U # T)
  <2>1. Bad \subseteq SUBSET S
    OBVIOUS
  <2> HIDE DEF Bad
  <2> QED BY <1>1, <2>1, Minimal
<1>3. PICK x \in T : Total(f, T) # f[x].quantity + Total(f, T \ {x})
  OBVIOUS
<1> DEFINE y == First(T)
<1>4. y \in T
  BY DEF First
<1> HIDE DEF y
<1>5. /\ IsFiniteSet(T) /\ IsFiniteSet(T \ {x}) /\ IsFiniteSet(T \ {y})
      /\ IsFiniteSet(T \ {x, y})
  BY FS_Subset
<1>6. Total(f, T) = f[y].quantity + Total(f, T \ {y})
  BY <1>5, TotalStep DEF y
<1>7. x # y
  BY <1>3, <1>6
<1>8. ASSUME NEW z \in T, NEW w \in T, z # w
      PROVE  Total(f, T \ {z}) = f[w].quantity + Total(f, T \ {z, w})
  <2> DEFINE U == T \ {z}
  <2>1. U \in SUBSET S /\ U \subseteq T /\ U # T /\ w \in U
    BY <1>8
  <2>2. U \ {w} = T \ {z, w}
    OBVIOUS
  <2> HIDE DEF U
  <2>3. Total(f, U) = f[w].quantity + Total(f, U \ {w})
    BY <1>2, <2>1
  <2> QED
    BY <2>2, <2>3 DEF U
<1> DEFINE rest == Total(f, T \ {x, y})
<1>9. Total(f, T \ {y}) = f[x].quantity + rest /\ Total(f, T \ {x}) = f[y].quantity + rest
  <2>1. T \ {x, y} = T \ {y, x}
    OBVIOUS
  <2> QED BY <1>4, <1>7, <1>8, <2>1
<1>10. f[x].quantity \in Int /\ f[y].quantity \in Int
  BY <1>4
<1>11. rest \in Int
  <2>1. \A t \in T \ {x, y} : f[t].quantity \in Int
    OBVIOUS
  <2> QED BY <1>5, <2>1, TotalType
<1> HIDE DEF rest, Total
<1> QED
  BY <1>3, <1>6, <1>9, <1>10, <1>11

\* The sum depends on what is summed only.
LEMMA TotalSame ==
  ASSUME NEW S, IsFiniteSet(S), NEW f, NEW g, \A t \in S : f[t].quantity = g[t].quantity
  PROVE  Total(f, S) = Total(g, S)
<1> DEFINE Bad == {T \in SUBSET S : Total(f, T) # Total(g, T)}
<1>1. SUFFICES ASSUME Bad # {} PROVE FALSE
  OBVIOUS
<1>2. PICK T \in Bad : \A U \in Bad : ~ (U \subseteq T /\ U # T)
  <2>1. Bad \subseteq SUBSET S
    OBVIOUS
  <2> HIDE DEF Bad
  <2> QED BY <1>1, <2>1, Minimal
<1>3. IsFiniteSet(T)
  BY FS_Subset
<1>4. T # {}
  BY TotalEmpty
<1>5. First(T) \in T
  BY <1>4 DEF First
<1>6. Total(f, T \ {First(T)}) = Total(g, T \ {First(T)})
  BY <1>2, <1>5
<1> QED
  BY <1>3, <1>4, <1>5, <1>6, TotalStep
-----------------------------------------------------------------------------
(***************************************************************************)
(* Stock against orders.                                                   *)
(***************************************************************************)
OrdersOf(i) == {t \in Call : db[t] # NoRow /\ db[t].item = i}

LEMMA OrderedIsTotal == \A i : Ordered(i) = Total(db, OrdersOf(i))
  BY DEF Ordered, Total, OrdersOf

LEMMA OrderedIsTotalNext == \A i : Ordered(i)' = Total(db', OrdersOf(i)')
<1>1. (\A i : Ordered(i) = Total(db, OrdersOf(i)))'
  BY OrderedIsTotal, PTL
<1> QED
  BY <1>1

\* However many calls there may be, orders are placed one by one.
LEMMA PlacedFinite ==
  OrderInv /\ IsFiniteSet(Placed) /\ [OrderNext]_orderVars => IsFiniteSet(Placed')
<1> SUFFICES ASSUME OrderInv, IsFiniteSet(Placed), [OrderNext]_orderVars
             PROVE  IsFiniteSet(Placed')
  OBVIOUS
<1>1. ASSUME NEW t \in Call, CommitApplied(t) PROVE IsFiniteSet(Placed')
  <2>1. \A r \in Row \ {order[t].item, t} : db'[r] = db[r]
    BY <1>1, CommitPlaces
  <2>2. order[t].item \in Item
    BY <1>1, CommitPlaces
  <2>3. Placed' \subseteq Placed \cup {t}
    BY <2>1, <2>2, OrderManagementAssumption DEF Placed
  <2>4. IsFiniteSet(Placed \cup {t})
    BY FS_AddElement
  <2> QED
    BY <2>3, <2>4, FS_Subset
<1>2. CASE UNCHANGED db
  BY <1>2 DEF Placed
<1> QED
  BY <1>1, <1>2, OnlyCommitChangesTables DEF OrderNext, StepOf, orderVars, vars

\* What one order takes from the stock is what it adds to the orders.
LEMMA CommitConserves ==
  ASSUME OrderInv, OrderInv', IsFiniteSet(Placed), IsFiniteSet(Placed'),
         NEW t \in Call, CommitApplied(t), NEW j \in Item
  PROVE  Stock(j)' + Ordered(j)' = Stock(j) + Ordered(j)
<1>1. PICK i \in Item : i = order[t].item
  BY CommitPlaces
<1> DEFINE q == order[t].quantity
<1>2. /\ q \in 1 .. Half - 1
      /\ txn[t] \in {"open", "committing"}
      /\ db[i] \in Value
      /\ db'[i] = [item |-> i, quantity |-> db[i].quantity - q]
      /\ db'[t] = [item |-> i, quantity |-> q]
      /\ \A r \in Row \ {i, t} : db'[r] = db[r]
  BY <1>1, CommitPlaces
<1>3. q \in Int /\ q \in I32 /\ db[i].quantity \in Int
  BY <1>2, OrderManagementAssumption, HalfAssumption DEF I32
<1>4. db[t] = NoRow /\ db'[t] # NoRow
  <2>1. db'[t] \in Value
    BY <1>2, <1>3, OrderManagementAssumption
  <2> QED
    BY <1>2, <2>1, PostgresAssumption DEF OrderInv, Tables
<1>5. \A u \in Call \ {t} : db'[u] = db[u]
  BY <1>2, OrderManagementAssumption
<1>6. /\ IsFiniteSet(OrdersOf(j)) /\ IsFiniteSet(OrdersOf(j)')
      /\ \A u \in OrdersOf(j) : db[u].quantity \in Int
      /\ \A u \in OrdersOf(j)' : db'[u].quantity \in Int
  <2>1. OrdersOf(j) \subseteq Placed /\ OrdersOf(j)' \subseteq Placed'
    BY DEF OrdersOf, Placed
  <2>2. \A u \in OrdersOf(j) : db[u] \in Value
    BY OrderManagementAssumption DEF OrdersOf, OrderInv, OrderTypeOK, TypeOK, PgTypeOK
  <2>3. \A u \in OrdersOf(j)' : db'[u] \in Value
    BY OrderManagementAssumption DEF OrdersOf, OrderInv, OrderTypeOK, TypeOK, PgTypeOK
  <2>4. \A v \in Value : v.quantity \in Int
    BY OrderManagementAssumption, HalfAssumption DEF I32
  <2> QED
    BY <2>1, <2>2, <2>3, <2>4, FS_Subset
<1>7. Ordered(j)' = Total(db', OrdersOf(j)')
  BY OrderedIsTotalNext
<1>8. CASE j = i
  <2>1. Stock(j) = db[i].quantity /\ Stock(j)' = db[i].quantity - q
    <3>1. db'[i] # NoRow
      <4>1. db'[i] \in Value \cup {NoRow} /\ db'[i].item = i
        BY <1>2, OrderManagementAssumption DEF OrderInv, OrderTypeOK, TypeOK, PgTypeOK
      <4>2. db[i].quantity - q \in I32
        <5>1. db[i].quantity - q >= 0
          BY <1>1, CommitPlaces
        <5> QED
          BY <1>2, <1>3, <5>1, OrderManagementAssumption, HalfAssumption DEF I32
      <4>3. db'[i] \in Value
        BY <1>2, <4>2, OrderManagementAssumption
      <4> QED
        BY <4>3, PostgresAssumption
    <3> QED
      BY <1>2, <1>8, <3>1, PostgresAssumption DEF Stock
  <2>2. t \in OrdersOf(j)' /\ OrdersOf(j)' \ {t} = OrdersOf(j)
    BY <1>2, <1>4, <1>5, <1>8 DEF OrdersOf
  <2>3. Total(db', OrdersOf(j)') = db'[t].quantity + Total(db', OrdersOf(j)' \ {t})
    BY <1>6, <2>2, TotalTake
  <2>4. Total(db', OrdersOf(j)) = Total(db, OrdersOf(j))
    <3>1. \A u \in OrdersOf(j) : db'[u] = db[u]
      BY <1>4, <1>5 DEF OrdersOf
    <3> QED
      BY <1>6, <3>1, TotalSame
  <2>5. Total(db, OrdersOf(j)) \in Int
    BY <1>6, TotalType
  <2>6. db'[t].quantity = q
    BY <1>2
  <2> HIDE DEF q
  <2>7. Ordered(j)' = q + Ordered(j)
    BY <1>7, <2>2, <2>3, <2>4, <2>6, OrderedIsTotal
  <2>8. Ordered(j) \in Int
    BY <2>5, OrderedIsTotal
  <2> QED
    BY <1>3, <2>1, <2>7, <2>8
<1>9. CASE j # i
  <2>1. Stock(j)' = Stock(j)
    BY <1>2, <1>9, OrderManagementAssumption DEF Stock
  <2>2. OrdersOf(j)' = OrdersOf(j) /\ \A u \in OrdersOf(j) : db'[u] = db[u]
    BY <1>2, <1>4, <1>5, <1>9 DEF OrdersOf
  <2>3. Total(db', OrdersOf(j)) = Total(db, OrdersOf(j))
    BY <1>6, <2>2, TotalSame
  <2> QED
    BY <1>7, <2>1, <2>2, <2>3, OrderedIsTotal
<1> QED
  BY <1>8, <1>9

\* Stock and orders of an item change against each other only: no update is lost, and no
\* order is stored without its stock or twice, whatever the steps of the others between.
THEOREM StockIsConserved == OrderSafety => StockConserved
<1> DEFINE Conserved == \A i \in Item : Stock(i)' + Ordered(i)' = Stock(i) + Ordered(i)
<1>1. OrderInit => IsFiniteSet(Placed)
  <2> SUFFICES ASSUME OrderInit PROVE IsFiniteSet(Placed)
    OBVIOUS
  <2>1. \A t \in Call : t \notin Placed
    BY OrderInitInv, PlacedIsCommitted DEF OrderInit, Init, PgInit
  <2>2. Placed = {}
    BY <2>1 DEF Placed
  <2> QED
    BY <2>2, FS_EmptySet
<1>2. OrderInv /\ OrderInv' /\ IsFiniteSet(Placed) /\ [OrderNext]_orderVars => [Conserved]_orderVars
  <2> SUFFICES ASSUME OrderInv, OrderInv', IsFiniteSet(Placed), [OrderNext]_orderVars,
                      NEW i \in Item, NEW t \in Call, StepOf(t)
               PROVE  Stock(i)' + Ordered(i)' = Stock(i) + Ordered(i)
    BY DEF OrderNext, StepOf
  <2>1. CASE CommitApplied(t)
    BY <2>1, PlacedFinite, CommitConserves
  <2>2. CASE ~CommitApplied(t)
    <3>1. UNCHANGED db
      BY <2>2, OnlyCommitChangesTables
    <3>2. Ordered(i)' = Total(db', OrdersOf(i)') /\ Ordered(i) = Total(db, OrdersOf(i))
      BY OrderedIsTotal, OrderedIsTotalNext
    <3>3. OrdersOf(i)' = OrdersOf(i) /\ Stock(i)' = Stock(i)
      BY <3>1 DEF OrdersOf, Stock
    <3> QED
      BY <3>1, <3>2, <3>3
  <2> QED
    BY <2>1, <2>2
<1>3. OrderInv /\ IsFiniteSet(Placed) /\ [OrderNext]_orderVars => IsFiniteSet(Placed)'
  BY PlacedFinite
<1> QED
  BY <1>1, <1>2, <1>3, OrderInvariance, PTL DEF OrderSafety, StockConserved
-----------------------------------------------------------------------------
\* Row locks belong to transactions that have not ended on the server.
LocksLive ==
  \A r \in Row : lock[r] # Nobody => txn[lock[r]] \in {"open", "lost", "committing"}

\* create_order hands no clone of its context to a helper, so the manager always reclaims
\* it; and what it reclaims it ends before it answers.
Ends ==
  \A t \in Call :
    /\ arc[t] \subseteq {"manager", "closure"}
    /\ phase[t] \in {"ok", "err"} => txn[t] \notin {"open", "failed"}

(***************************************************************************)
(* Row locks.                                                              *)
(***************************************************************************)
LEMMA LocksKept ==
  ASSUME PgTypeOK, LocksLive, NEW t \in Call,
         \/ PgBegin(t) \/ PgFail(t) \/ PgApply(t)
         \/ \E state \in TxnState : PgUndo(t, state)
         \/ \E state \in {"lost", "committing"} : PgMove(t, state)
         \/ \E r \in Row : PgSelectForUpdate(t, r)
         \/ \E r \in Row, v \in Value : PgInsert(t, r, v) \/ PgUpdate(t, r, v)
  PROVE  LocksLive'
<1> USE PostgresAssumption DEF PgTypeOK, LocksLive
<1>1. CASE PgBegin(t)
  BY <1>1 DEF PgBegin
<1>2. ASSUME NEW state \in TxnState, PgUndo(t, state) PROVE LocksLive'
  BY <1>2 DEF PgUndo, Released
<1>3. CASE PgFail(t)
  BY <1>2, <1>3 DEF PgFail, TxnState
<1>4. CASE PgApply(t)
  BY <1>4 DEF PgApply, Released
<1>5. ASSUME NEW state \in {"lost", "committing"}, PgMove(t, state) PROVE LocksLive'
  BY <1>5 DEF PgMove
<1>6. ASSUME NEW r \in Row, PgSelectForUpdate(t, r) PROVE LocksLive'
  BY <1>6 DEF PgSelectForUpdate
<1>7. ASSUME NEW r \in Row, NEW v \in Value, PgInsert(t, r, v) \/ PgUpdate(t, r, v)
      PROVE LocksLive'
  BY <1>7 DEF PgInsert, PgUpdate
<1> QED
  BY <1>1, <1>2, <1>3, <1>4, <1>5, <1>6, <1>7

LEMMA LocksLiveStep == TypeOK /\ LocksLive /\ [Next]_vars => LocksLive'
<1> SUFFICES ASSUME TypeOK, LocksLive, [Next]_vars
             PROVE  LocksLive'
  OBVIOUS
<1> USE DEF TypeOK, TxnState
<1>1. CASE UNCHANGED pgVars
  BY <1>1 DEF LocksLive
<1>2. ASSUME NEW t \in Call, NEW h \in Task, Statement(t, h) PROVE LocksLive'
  BY <1>1, <1>2, LocksKept DEF Statement, LockContext, Find, FindForUpdate, Create, Update,
     StatementErr, PgSelect
<1>3. ASSUME NEW t \in Call, Begin(t) \/ CommitApplied(t) \/ CommitOk(t) PROVE LocksLive'
  BY <1>1, <1>3, LocksKept DEF Begin, CommitApplied, CommitOk
<1>4. ASSUME NEW t \in Call, CommitErr(t) \/ Rollback(t) \/ Cancel(t) PROVE LocksLive'
  BY <1>1, <1>4, LocksKept DEF CommitErr, Rollback, Cancel
<1>5. ASSUME NEW t \in Call, RollbackDropped(t) \/ ConnectionLost(t) \/ SessionEnds(t)
      PROVE LocksLive'
  BY <1>5, LocksKept DEF RollbackDropped, ConnectionLost, SessionEnds
<1>6. ASSUME NEW t \in Call,
             \/ Transaction(t) \/ BeginErr(t) \/ TryUnwrap(t)
             \/ (\E h \in Task, k \in Helper : ShareContext(t, h, k))
             \/ (\E k \in Helper : DropContext(t, k))
             \/ (\E result \in {"ok", "err"} : ClosureReturns(t, result))
      PROVE LocksLive'
  BY <1>1, <1>6 DEF Transaction, BeginErr, TryUnwrap, ShareContext, DropContext, ClosureReturns
<1> QED
  BY <1>1, <1>2, <1>3, <1>4, <1>5, <1>6 DEF Next, vars
-----------------------------------------------------------------------------
(***************************************************************************)
(* Answers.                                                                *)
(***************************************************************************)
LEMMA EndsStep == OrderInv /\ Ends /\ [OrderNext]_orderVars => Ends'
<1> SUFFICES ASSUME OrderInv, Ends, [OrderNext]_orderVars
             PROVE  Ends'
  OBVIOUS
<1> USE DEF OrderInv, OrderTypeOK, TypeOK, PgTypeOK, Ends
<1>1. CASE UNCHANGED <<txn, phase, arc>>
  BY <1>1
<1>2. ASSUME NEW t \in Call, NEW q \in Requests,
             RejectOrder(t, q) \/ \E i \in Item : CreateOrder(t, i, q)
      PROVE Ends'
  BY <1>2 DEF RejectOrder, CreateOrder, Transaction, GoTo, vars
<1>3. ASSUME NEW t \in Call,
             LockForStatement(t) \/ FindInventory(t) \/ UpdateInventory(t) \/ InsertOrder(t)
      PROVE Ends'
  BY <1>1, <1>3 DEF LockForStatement, LockContext, FindInventory, FindForUpdate, UpdateInventory,
     Update, InsertOrder, Create, PgSelectForUpdate, PgUpdate, PgInsert, Answer
<1>4. ASSUME NEW t \in Call, StatementFails(t) PROVE Ends'
  BY <1>4 DEF StatementFails, StatementErr, PgFail, PgUndo, Answer
<1>5. ASSUME NEW t \in Call, OrderReturns(t) PROVE Ends'
  BY <1>5 DEF OrderReturns, ClosureReturns, GoTo
<1>6. ASSUME NEW t \in Call, Begin(t) \/ BeginErr(t) PROVE Ends'
  BY <1>6 DEF Begin, BeginErr, PgBegin, GoTo, Outcome
<1>7. ASSUME NEW t \in Call, TryUnwrap(t) PROVE Ends'
  <2>1. arc[t] = {"manager"}
    BY <1>7 DEF TryUnwrap, Ownership
  <2> QED
    BY <1>7, <2>1 DEF TryUnwrap, GoTo
<1>8. ASSUME NEW t \in Call, CommitApplied(t) PROVE Ends'
  BY <1>8 DEF CommitApplied, PgApply
<1>9. ASSUME NEW t \in Call, CommitOk(t) PROVE Ends'
  BY <1>9 DEF CommitOk, PgUndo, GoTo
<1>10. ASSUME NEW t \in Call, CommitErr(t) PROVE Ends'
  BY <1>10 DEF CommitErr, PgUndo, PgMove, GoTo, Broken
<1>11. ASSUME NEW t \in Call, Rollback(t) PROVE Ends'
  BY <1>11 DEF Rollback, PgUndo, GoTo, Broken
<1>12. ASSUME NEW t \in Call, Cancel(t) PROVE Ends'
  BY <1>12 DEF Cancel, PgMove, GoTo
<1>13. ASSUME NEW t \in Call, RollbackDropped(t) \/ ConnectionLost(t) \/ SessionEnds(t)
       PROVE Ends'
  BY <1>13 DEF RollbackDropped, ConnectionLost, SessionEnds, PgUndo, PgMove
<1> QED
  BY <1>1, <1>2, <1>3, <1>4, <1>5, <1>6, <1>7, <1>8, <1>9, <1>10, <1>11, <1>12, <1>13
     DEF OrderNext, Manager, orderVars, vars

\* When create_order answers, its transaction has ended on the server and holds no row
\* lock, unless the connection broke; whatever the answer is.
THEOREM AnswersWhenEnded == OrderSpec => []AnsweredIsEnded
<1>1. OrderInit => LocksLive /\ Ends
  BY OrderInitInv DEF OrderInit, Init, PgInit, LocksLive, Ends
<1>2. OrderInv /\ LocksLive /\ Ends /\ [OrderNext]_orderVars => LocksLive' /\ Ends'
  BY LocksLiveStep, EndsStep, OrderStepIsManagerStep DEF OrderInv, OrderTypeOK
<1>3. OrderInv /\ LocksLive /\ Ends => AnsweredIsEnded
  BY PostgresAssumption DEF OrderInv, OrderTypeOK, TypeOK, PgTypeOK, TxnState, LocksLive, Ends,
     AnsweredIsEnded
<1> QED
  BY <1>1, <1>2, <1>3, OrderInvariance, PTL DEF OrderSpec, OrderSafety
-----------------------------------------------------------------------------
(***************************************************************************)
(* Waiting.                                                                *)
(***************************************************************************)
\* Nothing is locked before the closure has looked at its inventory, and an order's row by
\* its own call only.
LocksLate ==
  /\ \A t \in Call, r \in Row : lock[r] = t => step[t] \notin {"new", "rejected", "find"}
  /\ \A t, u \in Call : lock[t] = u => u = t

\* The call t takes no lock, and does not go back to where it has none.
LEMMA LateKept ==
  ASSUME OrderInv, LocksLate, NEW t \in Call,
         lock' = lock \/ lock' = Released(t),
         \A u \in Call : step'[u] \in {"new", "rejected", "find"} => step[u] \in {"new", "rejected", "find"}
  PROVE  LocksLate'
<1>1. \A r \in Row : lock'[r] \in {lock[r], Nobody}
  BY DEF Released
<1>2. Nobody \notin Call /\ Call \subseteq Row
  BY PostgresAssumption, OrderManagementAssumption
<1> QED
  BY <1>1, <1>2 DEF LocksLate

\* A statement that leaves the closure's first step behind may lock its item or its order.
LEMMA LateTaken ==
  ASSUME OrderInv, LocksLate, NEW t \in Call,
         lock' = lock \/ (\E i \in Item : lock' = [lock EXCEPT ![i] = t]) \/ lock' = [lock EXCEPT ![t] = t],
         NEW s, s \notin {"new", "rejected", "find"}, step' = [step EXCEPT ![t] = s]
  PROVE  LocksLate'
<1>1. lock \in [Row -> Call \cup {Nobody}] /\ Row = Item \cup Call /\ Item \cap Call = {}
  BY OrderManagementAssumption DEF OrderInv, OrderTypeOK, TypeOK, PgTypeOK
<1>2. \A r \in Row : lock'[r] \in {lock[r], t}
  BY <1>1
<1>3. \A u \in Call : u # t => lock'[u] = lock[u]
  BY <1>1
<1>4. \A u \in Call : step'[u] = IF u = t THEN s ELSE step[u]
  BY DEF OrderInv, OrderTypeOK
<1> QED
  BY <1>1, <1>2, <1>3, <1>4 DEF LocksLate

LEMMA LocksLateStep == OrderInv /\ LocksLate /\ [OrderNext]_orderVars => LocksLate'
<1> SUFFICES ASSUME OrderInv, LocksLate, [OrderNext]_orderVars
             PROVE  LocksLate'
  OBVIOUS
<1>0. step \in [Call -> {"new", "rejected", "find", "update", "insert", "done", "fail"}]
  BY DEF OrderInv, OrderTypeOK
<1>1. CASE UNCHANGED <<lock, step>>
  BY <1>1 DEF LocksLate
<1>2. ASSUME NEW t \in Call,
             (\E q \in Requests : RejectOrder(t, q)) \/ (\E i \in Item, q \in Requests : CreateOrder(t, i, q))
      PROVE  LocksLate'
  <2>1. lock' = lock /\ step[t] = "new" /\ \E s \in {"rejected", "find"} : step' = [step EXCEPT ![t] = s]
    BY <1>2 DEF RejectOrder, CreateOrder, Transaction, Step, vars, pgVars
  <2> QED
    BY <1>0, <2>1, LateKept
<1>3. ASSUME NEW t \in Call, FindInventory(t) PROVE LocksLate'
  <2>1. order[t].item \in Item
    BY <1>3, Begun DEF FindInventory, FindForUpdate, PgSelectForUpdate
  <2>2. lock' = lock \/ lock' = [lock EXCEPT ![order[t].item] = t]
    BY <1>3 DEF FindInventory, FindForUpdate, PgSelectForUpdate
  <2>3. \E s \in {"fail", "update"} : step' = [step EXCEPT ![t] = s]
    BY <1>3 DEF FindInventory, Step
  <2> QED
    BY <1>0, <2>1, <2>2, <2>3, LateTaken
<1>4. ASSUME NEW t \in Call, UpdateInventory(t) PROVE LocksLate'
  <2>1. order[t].item \in Item
    BY <1>4, Begun DEF UpdateInventory, Update, PgUpdate
  <2>2. lock' = lock \/ lock' = [lock EXCEPT ![order[t].item] = t]
    BY <1>4 DEF UpdateInventory, Update, PgUpdate
  <2>3. step' = [step EXCEPT ![t] = "insert"]
    BY <1>4 DEF UpdateInventory, Step
  <2> QED
    BY <1>0, <2>1, <2>2, <2>3, LateTaken
<1>5. ASSUME NEW t \in Call, InsertOrder(t) PROVE LocksLate'
  <2>1. lock' = [lock EXCEPT ![t] = t] /\ step' = [step EXCEPT ![t] = "done"]
    BY <1>5 DEF InsertOrder, Create, PgInsert, Step
  <2> QED
    BY <1>0, <2>1, LateTaken
<1>6. ASSUME NEW t \in Call, StatementFails(t) PROVE LocksLate'
  <2>1. lock' = lock \/ lock' = Released(t)
    BY <1>6 DEF StatementFails, StatementErr, PgFail, PgUndo, pgVars
  <2>2. step' = [step EXCEPT ![t] = "fail"]
    BY <1>6 DEF StatementFails, Step
  <2> QED
    BY <1>0, <2>1, <2>2, LateKept
<1>7. ASSUME NEW t \in Call, LockForStatement(t) \/ OrderReturns(t) PROVE UNCHANGED <<lock, step>>
  BY <1>7 DEF LockForStatement, OrderReturns, LockContext, ClosureReturns, localVars, pgVars
<1>8. ASSUME NEW t \in Call, Manager(t) PROVE LocksLate'
  <2>1. lock' = lock \/ lock' = Released(t)
    BY <1>8 DEF Manager, Begin, BeginErr, TryUnwrap, CommitApplied, CommitOk, CommitErr, Rollback,
       Cancel, RollbackDropped, ConnectionLost, SessionEnds, PgBegin, PgApply, PgUndo, PgMove, pgVars
  <2>2. step' = step
    BY <1>8 DEF Manager, localVars
  <2> QED
    BY <2>1, <2>2, LateKept
<1> QED
  BY <1>1, <1>2, <1>3, <1>4, <1>5, <1>6, <1>7, <1>8 DEF OrderNext, orderVars, vars, pgVars, localVars

\* A call that waits for a row has locked none: it waits only at its first statement, and
\* there it has nothing yet.
THEOREM WaitingHoldsNothing == OrderSafety => []WaitsEmptyHanded
<1>1. OrderInit => LocksLate
  <2> SUFFICES ASSUME OrderInit PROVE LocksLate
    OBVIOUS
  <2>1. \A r \in Row : lock[r] = Nobody
    BY DEF OrderInit, Init, PgInit
  <2> QED
    BY <2>1, PostgresAssumption, OrderManagementAssumption DEF LocksLate
<1>2. OrderInv /\ LocksLate => WaitsEmptyHanded
  <2> SUFFICES ASSUME OrderInv, LocksLate, NEW t \in Call, Waits(t)
               PROVE  step[t] = "find"
    BY DEF WaitsEmptyHanded, LocksLate
  <2>1. CASE step[t] = "update"
    BY <2>1 DEF Waits, Needed, Lockable, OrderInv, Staged, Live
  <2>2. CASE step[t] = "insert"
    <3>1. t \in Row /\ lock[t] \in Call \cup {Nobody}
      BY OrderManagementAssumption DEF OrderInv, OrderTypeOK, TypeOK, PgTypeOK
    <3> QED
      BY <2>2, <3>1 DEF Waits, Needed, Lockable, LocksLate
  <2> QED
    BY <2>1, <2>2 DEF Waits
<1> QED
  BY <1>1, <1>2, LocksLateStep, OrderInvariance, PTL DEF OrderSafety
=============================================================================
