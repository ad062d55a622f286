----------------------------- MODULE Quantities -----------------------------
(***************************************************************************)
(* The domain's quantities: which numbers the constructors reject, and     *)
(* what the conversions between i32 and u32 do.  A constructor that        *)
(* answers a Result is the predicate that says when it answers Err.        *)
(***************************************************************************)
EXTENDS Integers

CONSTANT Half  \* 2^31 in the program

ASSUME HalfAssumption == Half \in Nat \ {0}

I32 == -Half .. Half - 1
U32 == 0 .. 2 * Half - 1

\* `as i32` and `as u32` keep the bits.
AsI32(u) == IF u < Half THEN u ELSE u - 2 * Half
AsU32(n) == IF n < 0 THEN n + 2 * Half ELSE n

\* i32 arithmetic without overflow checks keeps the low bits of a result.
Wrapped(n) == ((n + Half) % (2 * Half)) - Half

OrderQuantityRejects(n) == n <= 0
InventoryQuantityRejects(n) == n <= 0
InventoryRejects(quantity) == quantity < 0

\* Mutant of DecreaseRejects: off by one.
DecreaseRejectsLate(quantity, amount) == quantity + 1 < AsI32(amount)

\* decrease_stock: Err without effect, else the quantity left.
DecreaseRejects(quantity, amount) == quantity < AsI32(amount)
Decreased(quantity, amount) == quantity - AsI32(amount)

\* Mutant of QuantityNewRejects: the check is missing.
QuantityNewRejectsNone(u) == u \notin U32

\* OrderQuantity::new and InventoryQuantity::new.
QuantityNewRejects(u) == u = 0

\* increase_stock: Err without effect, else the sum.
IncreaseRejects(amount) == amount < 0
Increased(quantity, amount) == quantity + amount
=============================================================================
