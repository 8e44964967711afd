-------------------------- MODULE OrderTotalProofs --------------------------
(***************************************************************************)
(* money.Sum is exact on all valid amounts, the pricing loop of PlaceOrder *)
(* is exact and does not panic, and the order page's total is the one that *)
(* is charged, the cart page's in every currency but dollars, for every    *)
(* NanosMod, every order and every quantity.                               *)
(***************************************************************************)
EXTENDS OrderPages, FiniteSetTheorems, FunctionTheorems, TLAPS

AnyAmount(cur) == [currency : {cur}, units : Int, nanos : Int]

\* What the carry of Sum needs to know of Go's division, on the range it sees.
LEMMA CarryFacts ==
  ASSUME NEW x \in Int, -2 * NanosMod < x, x < 2 * NanosMod
  PROVE  /\ Quotient(x) \in Int
         /\ Remainder(x) \in Int
         /\ Remainder(x) + NanosMod * Quotient(x) = x
         /\ x >= 0 => Quotient(x) \in {0, 1} /\ Remainder(x) \in 0 .. (NanosMod - 1)
         /\ x <= 0 => Quotient(x) \in {0, -1}
                      /\ Remainder(x) \in -(NanosMod - 1) .. 0
<1>1. NanosMod \in Nat /\ NanosMod > 0
  BY NanosModAssumption
<1>2. CASE x >= 0
  <2>1. Quotient(x) = x \div NanosMod
    BY <1>2 DEF Quotient
  <2>2. x \div NanosMod = IF x < NanosMod THEN 0 ELSE 1
    BY <1>1, <1>2, SMTT(30)
  <2>3. NanosMod * Quotient(x) = IF x < NanosMod THEN 0 ELSE NanosMod
    BY <1>1, <2>1, <2>2
  <2> QED
    BY <1>1, <1>2, <2>1, <2>2, <2>3 DEF Remainder
<1>3. CASE x < 0
  <2>1. Quotient(x) = -((-x) \div NanosMod)
    BY <1>3 DEF Quotient
  <2>2. (-x) \div NanosMod = IF -x < NanosMod THEN 0 ELSE 1
    BY <1>1, <1>3, SMTT(30)
  <2>3. NanosMod * Quotient(x) = IF -x < NanosMod THEN 0 ELSE -NanosMod
    BY <1>1, <2>1, <2>2
  <2> QED
    BY <1>1, <1>3, <2>1, <2>2, <2>3 DEF Remainder
<1> QED
  BY <1>2, <1>3

(***************************************************************************)
(* Adding two valid amounts of one currency loses nothing                  *)
(* (money.go:81-109).                                                      *)
(***************************************************************************)
THEOREM SumExact ==
  ASSUME NEW cur, NEW l \in AnyAmount(cur), NEW r \in AnyAmount(cur)
  PROVE  /\ ~SumFails(l, r) => Sum(l, r) \in AnyAmount(cur)
         /\ SumIsExact(l, r)
<1> SUFFICES ASSUME ~SumFails(l, r)
             PROVE  Sum(l, r) \in AnyAmount(cur) /\ Worth(Sum(l, r)) = Worth(l) + Worth(r)
  BY DEF SumIsExact
<1> DEFINE u == l.units + r.units
           x == l.nanos + r.nanos
<1>1. /\ NanosMod \in Nat /\ NanosMod > 0
      /\ u \in Int /\ x \in Int
      /\ -2 * NanosMod < x /\ x < 2 * NanosMod
  BY NanosModAssumption DEF SumFails, IsValid, ValidNanos, AnyAmount
<1>2. Worth(l) + Worth(r) = u * NanosMod + x
  <2>1. (l.units + r.units) * NanosMod = l.units * NanosMod + r.units * NanosMod
    BY <1>1 DEF AnyAmount
  <2> QED
    BY <1>1, <2>1 DEF Worth, AnyAmount
<1>3. Sum(l, r) = Normalize(cur, u, x)
  BY DEF Sum, AnyAmount
<1>4. CASE SameSign(u, x)
  <2>1. Sum(l, r) = Amount(cur, u + Quotient(x), Remainder(x))
    BY <1>3, <1>4 DEF Normalize
  <2>2. Quotient(x) \in Int /\ Remainder(x) \in Int
        /\ Remainder(x) + NanosMod * Quotient(x) = x
    BY <1>1, CarryFacts
  <2>3. (u + Quotient(x)) * NanosMod = u * NanosMod + NanosMod * Quotient(x)
    BY <1>1, <2>2
  <2> QED
    BY <1>1, <1>2, <2>1, <2>2, <2>3 DEF Worth, Amount, AnyAmount
<1>5. CASE ~SameSign(u, x)
  <2>1. \/ Sum(l, r) = Amount(cur, u - 1, x + NanosMod)
        \/ Sum(l, r) = Amount(cur, u + 1, x - NanosMod)
    BY <1>3, <1>5 DEF Normalize
  <2>2. (u - 1) * NanosMod = u * NanosMod - NanosMod
        /\ (u + 1) * NanosMod = u * NanosMod + NanosMod
    BY <1>1
  <2> QED
    BY <1>1, <1>2, <2>1, <2>2 DEF Worth, Amount, AnyAmount
<1> QED
  BY <1>4, <1>5

(***************************************************************************)
(* The sum of two prices is a price again unless both are below one unit   *)
(* and together still are.                                                 *)
(***************************************************************************)
LEMMA SumOfPrices ==
  ASSUME NEW cur, NEW l \in Price(cur), NEW r \in Price(cur),
         l.units + r.units >= 1 \/ l.nanos + r.nanos >= NanosMod
  PROVE  ~SumFails(l, r) /\ Sum(l, r) \in Price(cur) /\ Sum(l, r).units >= 1
<1> DEFINE u == l.units + r.units
           x == l.nanos + r.nanos
<1>1. /\ NanosMod \in Nat /\ NanosMod > 0
      /\ u \in Nat /\ x \in Nat /\ x < 2 * NanosMod
  BY NanosModAssumption DEF Price
<1>2. ~SumFails(l, r)
  BY <1>1 DEF SumFails, IsValid, SignMatches, ValidNanos, Price
<1>3. Sum(l, r) = Normalize(cur, u, x)
  BY DEF Sum, Price
<1>4. CASE u >= 1
  <2>1. Sum(l, r) = Amount(cur, u + Quotient(x), Remainder(x))
    BY <1>1, <1>3, <1>4 DEF Normalize, SameSign
  <2>2. Quotient(x) \in {0, 1} /\ Remainder(x) \in 0 .. (NanosMod - 1)
    BY <1>1, CarryFacts
  <2> QED
    BY <1>1, <1>2, <1>4, <2>1, <2>2 DEF Amount, Price
<1>5. CASE u = 0
  <2>1. Sum(l, r) = Amount(cur, 1, x - NanosMod)
    BY <1>1, <1>3, <1>5 DEF Normalize, SameSign
  <2> QED
    BY <1>1, <1>2, <1>5, <2>1 DEF Amount, Price
<1> QED
  BY <1>1, <1>4, <1>5

-----------------------------------------------------------------------------
(***************************************************************************)
(* The inductive invariant.  The first two conjuncts say what the two      *)
(* accumulators are worth at every step, whatever the prices; the third    *)
(* why, for well-priced orders, every Sum ahead meets two valid amounts:   *)
(* once the shipping cost is in, the total has at least one unit, and so   *)
(* has the product after its first doubling.                               *)
(***************************************************************************)
WorthInv ==
  /\ Worth(total) = due
  /\ pc = "shipping" => total = Zero(order.currency)
  /\ pc = "multiply" => Worth(out) = (Quantity - n + 1) * Worth(Cost)

PricedInv ==
  WellPriced(order) =>
    /\ pc # "panicked"
    /\ total \in Price(order.currency)
    /\ pc # "shipping" /\ order.items # <<>> => total.units >= 1
    /\ pc = "multiply" =>
         /\ out \in Price(order.currency)
         /\ \/ n = Quantity /\ out = Cost
            \/ out.units >= 1

IInv == TypeOK /\ WorthInv /\ PricedInv

LEMMA ElementsOfSeq ==
  ASSUME NEW S, NEW s \in Seq(S)
  PROVE  Len(s) \in Nat /\ \A k \in 1 .. Len(s) : s[k] \in S
OBVIOUS

LEMMA Types ==
  ASSUME TypeOK
  PROVE  /\ NanosMod \in Nat /\ NanosMod > 0
         /\ order.shipping \in Price(order.currency)
         /\ Price(order.currency) \subseteq Amounts
         /\ order.items \in Seq(Items(order.currency))
         /\ Len(order.items) \in Nat
         /\ item \in Nat
         /\ \A k \in 1 .. Len(order.items) :
              /\ order.items[k].cost \in Price(order.currency)
              /\ order.items[k].catalogue \in Price(Dollars)
              /\ order.items[k].quantity \in Nat \ {0}
         /\ item > 0 => Cost \in Price(order.currency) /\ Quantity \in Nat \ {0}
<1>1. /\ NanosMod \in Nat /\ NanosMod > 0
      /\ order.shipping \in Price(order.currency)
      /\ order.items \in Seq(Items(order.currency))
  BY NanosModAssumption, OrdersAssumption DEF TypeOK, IsOrder
<1>2. Len(order.items) \in Nat /\ item \in Nat
      /\ \A k \in 1 .. Len(order.items) :
           order.items[k] \in Items(order.currency)
  <2> DEFINE S == Items(order.currency)
  <2>1. order.items \in Seq(S)
    BY <1>1
  <2>2. Len(order.items) \in Nat /\ \A k \in 1 .. Len(order.items) : order.items[k] \in S
    <3> HIDE DEF S
    <3> QED
      BY <2>1, ElementsOfSeq
  <2> QED
    BY <2>2 DEF TypeOK
<1>3. Price(order.currency) \subseteq Amounts
  BY <1>1 DEF Price, Amounts
<1>4. item > 0 => item \in 1 .. Len(order.items)
  BY <1>2 DEF TypeOK
<1> QED
  BY <1>1, <1>2, <1>3, <1>4 DEF Cost, Quantity, Items

LEMMA ZeroWorth ==
  ASSUME NEW cur
  PROVE  Zero(cur) \in Price(cur) /\ Zero(cur) \in AnyAmount(cur) /\ Worth(Zero(cur)) = 0
         /\ ~SumFails(Zero(cur), Zero(cur)) /\ Sum(Zero(cur), Zero(cur)) = Zero(cur)
<1>1. NanosMod \in Nat /\ NanosMod > 0
  BY NanosModAssumption
<1>2. 0 \div NanosMod = 0
  BY <1>1, SMTT(30)
<1>3. Quotient(0) = 0 /\ Remainder(0) = 0
  BY <1>1, <1>2 DEF Quotient, Remainder
<1> QED
  BY <1>1, <1>3 DEF Zero, Amount, Price, AnyAmount, Worth, SumFails, IsValid,
     SignMatches, ValidNanos, Sum, Normalize, SameSign

LEMMA InitInv == Init => IInv
<1> SUFFICES ASSUME Init
             PROVE  IInv
  OBVIOUS
<1>1. order.items \in Seq(Items(order.currency))
  BY OrdersAssumption DEF Init, IsOrder
<1>2. Len(order.items) \in Nat
  BY <1>1
<1>3. TypeOK
  BY <1>2, ZeroWorth DEF Init, TypeOK, Amounts, AnyAmount
<1> QED
  BY <1>3, ZeroWorth DEF Init, IInv, WorthInv, PricedInv

LEMMA NextInv == IInv /\ [Next]_vars => IInv'
<1> SUFFICES ASSUME IInv, [Next]_vars
             PROVE  IInv'
  OBVIOUS
<1> USE DEF IInv
<1>1. Amounts = AnyAmount(order.currency)
  BY DEF Amounts, AnyAmount
<1>2. NanosMod \in Nat /\ \A m \in Amounts : Worth(m) \in Int
  BY Types DEF Worth, Amounts
<1>3. CASE AddShipping
  <2>1. /\ total \in Amounts /\ order.shipping \in Amounts
        /\ Left = total /\ Right = order.shipping
        /\ total' = Sum(total, order.shipping)
    BY <1>3, Types DEF AddShipping, Left, Right, TypeOK
  <2>2. total' \in Amounts /\ Worth(total') = Worth(total) + Worth(order.shipping)
    BY <1>3, <1>1, <2>1, SumExact DEF AddShipping, SumIsExact
  <2>3. TypeOK'
    BY <1>3, <1>2, <2>1, <2>2 DEF AddShipping, TypeOK, Amounts, Quantity
  <2>4. WorthInv'
    BY <1>3, <2>1, <2>2 DEF AddShipping, WorthInv
  <2>5. PricedInv'
    <3> SUFFICES ASSUME WellPriced(order)
                 PROVE  /\ total' \in Price(order.currency)
                        /\ order.items # <<>> => total'.units >= 1
      BY <1>3 DEF AddShipping, PricedInv, WellPriced
    <3>1. CASE order.items = <<>>
      BY <1>3, <2>1, <3>1, ZeroWorth DEF AddShipping, WorthInv, WellPriced
    <3>2. CASE order.items # <<>>
      <4>1. total \in Price(order.currency) /\ order.shipping \in Price(order.currency)
            /\ total.units + order.shipping.units >= 1
        BY <3>2, Types DEF PricedInv, WellPriced, Price
      <4> QED
        BY <2>1, <4>1, SumOfPrices
    <3> QED
      BY <3>1, <3>2
  <2> QED
    BY <2>3, <2>4, <2>5
<1>4. CASE NextItem
  <2>1. item + 1 \in 1 .. Len(order.items) /\ Len(order.items) \in Nat
    BY <1>4, Types DEF NextItem
  <2>2. /\ item' = item + 1 /\ item' \in 1 .. Len(order.items)
        /\ Cost' \in Price(order.currency) /\ Quantity' \in Nat \ {0}
        /\ n' = Quantity' /\ out' = Cost' /\ Cost' \in Amounts
    BY <1>4, <2>1, Types DEF NextItem, Cost, Quantity
  <2>3. TypeOK'
    BY <1>4, <2>1, <2>2 DEF NextItem, TypeOK, Amounts
  <2>4. WorthInv'
    BY <1>4, <1>2, <2>2 DEF NextItem, WorthInv
  <2>5. PricedInv'
    BY <1>4, <2>2 DEF NextItem, PricedInv
  <2> QED
    BY <2>3, <2>4, <2>5
<1>5. CASE MultiplyStep
  <2>1. /\ n > 1 /\ n \in 1 .. Quantity /\ item > 0
        /\ out \in Amounts /\ Cost \in Amounts /\ Cost \in Price(order.currency)
        /\ Quantity \in Nat
        /\ out' = Sum(out, Cost) /\ ~SumFails(out, Cost)
    BY <1>5, Types DEF MultiplyStep, TypeOK, Left, Right
  <2>2. out' \in Amounts /\ Worth(out') = Worth(out) + Worth(Cost)
    BY <1>1, <2>1, SumExact DEF SumIsExact
  <2>3. Quantity' = Quantity /\ Cost' = Cost /\ n' = n - 1
    BY <1>5 DEF MultiplyStep, Quantity, Cost
  <2>4. TypeOK'
    BY <1>5, <2>1, <2>2, <2>3 DEF MultiplyStep, TypeOK, Amounts
  <2>5. WorthInv'
    <3>1. Worth(out) = (Quantity - n + 1) * Worth(Cost)
      BY <1>5 DEF MultiplyStep, WorthInv
    <3>2. \A a, w \in Int : a * w + w = (a + 1) * w
      OBVIOUS
    <3>3. (Quantity - n + 1) * Worth(Cost) + Worth(Cost)
            = (Quantity - n + 1 + 1) * Worth(Cost)
      BY <1>2, <2>1, <3>2
    <3>4. Worth(out') = (Quantity' - n' + 1) * Worth(Cost')
      <4>1. Quantity - n + 1 + 1 = Quantity' - n' + 1
        BY <2>1, <2>3
      <4> QED
        BY <2>2, <2>3, <3>1, <3>3, <4>1
    <3> QED
      BY <1>5, <3>4 DEF MultiplyStep, WorthInv
  <2>6. PricedInv'
    <3> SUFFICES ASSUME WellPriced(order)
                 PROVE  out' \in Price(order.currency) /\ out'.units >= 1
      BY <1>5 DEF MultiplyStep, PricedInv, WellPriced
    <3>1. out \in Price(order.currency) /\ (out = Cost \/ out.units >= 1)
      BY <1>5 DEF MultiplyStep, PricedInv
    <3>2. Cost.units >= 1 \/ 2 * Cost.nanos >= NanosMod
      <4>1. item \in DOMAIN order.items
        BY <2>1, Types DEF TypeOK
      <4> QED
        BY <4>1 DEF WellPriced, Cost
    <3>3. out.units + Cost.units >= 1 \/ out.nanos + Cost.nanos >= NanosMod
      BY <2>1, <3>1, <3>2, Types DEF Price
    <3> QED
      BY <2>1, <3>1, <3>3, SumOfPrices
  <2> QED
    BY <2>4, <2>5, <2>6
<1>6. CASE AddItem
  <2>1. /\ n = 1 /\ item > 0 /\ item \in 1 .. Len(order.items)
        /\ total \in Amounts /\ out \in Amounts /\ Cost \in Amounts
        /\ Quantity \in Nat \ {0}
        /\ total' = Sum(total, out) /\ ~SumFails(total, out)
    BY <1>6, Types DEF AddItem, TypeOK, Left, Right
  <2>2. total' \in Amounts /\ Worth(total') = Worth(total) + Worth(out)
    BY <1>1, <2>1, SumExact DEF SumIsExact
  <2>3. Worth(out) = Quantity * Worth(Cost)
    <3>1. Worth(out) = (Quantity - 1 + 1) * Worth(Cost)
      BY <1>6, <2>1 DEF AddItem, WorthInv
    <3>2. Quantity - 1 + 1 = Quantity
      BY <2>1
    <3> QED
      BY <3>1, <3>2
  <2>4. due' = due + Worth(out)
    BY <1>6, <2>3 DEF AddItem
  <2>5. TypeOK'
    BY <1>6, <1>2, <2>1, <2>2, <2>4 DEF AddItem, TypeOK, Amounts
  <2>6. WorthInv'
    BY <1>6, <2>2, <2>4 DEF AddItem, WorthInv
  <2>7. PricedInv'
    <3> SUFFICES ASSUME WellPriced(order)
                 PROVE  total' \in Price(order.currency) /\ total'.units >= 1
      BY <1>6 DEF AddItem, PricedInv, WellPriced
    <3>1. /\ total \in Price(order.currency) /\ out \in Price(order.currency)
          /\ order.items # <<>> => total.units >= 1
      BY <1>6 DEF AddItem, PricedInv
    <3>2. order.items # <<>>
      BY <2>1
    <3>3. total.units + out.units >= 1
      BY <3>1, <3>2 DEF Price
    <3> QED
      BY <2>1, <3>1, <3>3, SumOfPrices
  <2> QED
    BY <2>5, <2>6, <2>7
<1>7. CASE Finish
  BY <1>7 DEF Finish, TypeOK, WorthInv, PricedInv, WellPriced, Amounts
<1>8. CASE Panic
  <2>1. ~WellPriced(order)
    <3> SUFFICES ASSUME WellPriced(order)
                 PROVE  ~SumFails(Left, Right)
      BY <1>8 DEF Panic
    <3>1. Left \in Price(order.currency) /\ Right \in Price(order.currency)
      BY <1>8, Types DEF Panic, PricedInv, TypeOK, Left, Right
    <3> QED
      BY <3>1, Types DEF SumFails, IsValid, SignMatches, ValidNanos, Price
  <2> QED
    BY <1>8, <2>1 DEF Panic, TypeOK, WorthInv, PricedInv, WellPriced, Amounts
<1>9. CASE UNCHANGED vars
  BY <1>9 DEF vars, TypeOK, WorthInv, PricedInv, WellPriced, Amounts, Quantity, Cost
<1> QED
  BY <1>3, <1>4, <1>5, <1>6, <1>7, <1>8, <1>9 DEF Next

THEOREM Invariance == Spec => []IInv
BY InitInv, NextInv, PTL DEF Spec

(***************************************************************************)
(* Type correctness of the pricing loop.                                   *)
(***************************************************************************)
THEOREM TypeCorrect == Spec => []TypeOK
<1>1. IInv => TypeOK
  BY DEF IInv
<1> QED
  BY <1>1, Invariance, PTL

(***************************************************************************)
(* The amount charged is exact, whatever the prices (main.go:324-331).     *)
(***************************************************************************)
THEOREM TotalIsExact == Spec => []ExactTotal
<1>1. IInv => ExactTotal
  BY DEF IInv, WorthInv, ExactTotal
<1> QED
  BY <1>1, Invariance, PTL

(***************************************************************************)
(* Pricing a well-priced order never panics (money.go:71-76) ...           *)
(***************************************************************************)
THEOREM PricingNeverPanics == Spec => []NeverPanics
<1>1. IInv => NeverPanics
  BY DEF IInv, PricedInv, NeverPanics
<1> QED
  BY <1>1, Invariance, PTL

(***************************************************************************)
(* ... and ends in a valid amount (main.go:333).                           *)
(***************************************************************************)
THEOREM TotalIsChargeable == Spec => []ChargeableTotal
<1>1. IInv => ChargeableTotal
  BY Types DEF IInv, PricedInv, ChargeableTotal, IsValid, SignMatches, ValidNanos, Price
<1> QED
  BY <1>1, Invariance, PTL

-----------------------------------------------------------------------------
(***************************************************************************)
(* What the pages add up.                                                  *)
(*                                                                         *)
(* Their sums run over a list of any length, so that there is an induction *)
(* to be made.  It is made over a set: of a set of numbers that lacks one, *)
(* and with it all those below, a predecessor would take a finite set into *)
(* itself one to one, and not onto it.                                     *)
(***************************************************************************)
LEMMA SetInduction ==
  ASSUME NEW S, 0 \in S, \A k \in Nat : k \in S => k + 1 \in S
  PROVE  Nat \subseteq S
<1> SUFFICES ASSUME NEW m \in Nat, m \notin S
             PROVE  FALSE
  OBVIOUS
<1> DEFINE A == (0 .. m) \ S
           f == [k \in A |-> k - 1]
<1>1. IsFiniteSet(A)
  <2>1. IsFiniteSet(0 .. m)
    BY FS_Interval
  <2> QED
    BY <2>1, FS_Subset
<1>2. ASSUME NEW k \in A
      PROVE  k - 1 \in A
  <2>1. k # 0 /\ k \in 1 .. m
    OBVIOUS
  <2>2. k - 1 \in 0 .. m /\ k - 1 \in Nat /\ (k - 1) + 1 = k
    BY <2>1
  <2>3. k - 1 \notin S
    BY <2>2
  <2> QED
    BY <2>2, <2>3
<1>3. f \in Injection(A, A)
  <2>1. f \in [A -> A]
    BY <1>2
  <2>2. \A k, l \in A : f[k] = f[l] => k = l
    OBVIOUS
  <2> QED
    BY <2>1, <2>2 DEF Injection, IsInjective
<1>4. f \in Surjection(A, A)
  BY <1>1, <1>3, FS_Injection
<1>5. PICK k \in A : f[k] = m
  <2>1. m \in A
    OBVIOUS
  <2> HIDE DEF A, f
  <2> QED
    BY <1>4, <2>1 DEF Surjection
<1> QED
  BY <1>5

\* A list of numbers can be added up.
LEMMA SumsExist ==
  ASSUME NEW l \in Nat, NEW t \in [1 .. l -> Int]
  PROVE  \E g \in [0 .. l -> Int] : g[0] = 0 /\ \A k \in 1 .. l : g[k] = g[k - 1] + t[k]
<1> DEFINE Good(top, g) == /\ g \in [0 .. top -> Int] /\ g[0] = 0
                          /\ \A k \in 1 .. top : g[k] = g[k - 1] + t[k]
           S == {k \in Nat : k <= l => \E g : Good(k, g)}
<1>1. 0 \in S
  <2> DEFINE g == [k \in 0 .. 0 |-> 0]
  <2>1. g \in [0 .. 0 -> Int] /\ g[0] = 0
    OBVIOUS
  <2>2. 1 .. 0 = {}
    OBVIOUS
  <2> HIDE DEF g
  <2>3. Good(0, g)
    BY <2>1, <2>2
  <2> QED
    BY <2>3
<1>2. ASSUME NEW k \in Nat, k \in S
      PROVE  k + 1 \in S
  <2> HIDE DEF Good
  <2> SUFFICES ASSUME k + 1 <= l
               PROVE  \E g : Good(k + 1, g)
    OBVIOUS
  <2>1. PICK g : Good(k, g)
    BY <1>2
  <2> DEFINE h == [j \in 0 .. k + 1 |-> IF j = k + 1 THEN g[k] + t[k + 1] ELSE g[j]]
  <2>2. g \in [0 .. k -> Int] /\ g[0] = 0 /\ \A j \in 1 .. k : g[j] = g[j - 1] + t[j]
    BY <2>1 DEF Good
  <2>3. k + 1 \in 1 .. l /\ t[k + 1] \in Int /\ g[k] \in Int
    BY <2>2
  <2>4. h[k + 1] = g[k] + t[k + 1] /\ \A j \in 0 .. k : h[j] = g[j]
    OBVIOUS
  <2>5. h \in [0 .. k + 1 -> Int]
    <3>1. \A j \in 0 .. k + 1 : j = k + 1 \/ j \in 0 .. k
      OBVIOUS
    <3> QED
      BY <2>2, <2>3, <3>1
  <2> HIDE DEF h
  <2>6. h[0] = 0
    BY <2>2, <2>4
  <2>7. ASSUME NEW j \in 1 .. k + 1
        PROVE  h[j] = h[j - 1] + t[j]
    <3>1. CASE j = k + 1
      BY <2>4, <3>1
    <3>2. CASE j # k + 1
      <4>1. j \in 1 .. k /\ j \in 0 .. k /\ j - 1 \in 0 .. k
        BY <3>2
      <4> QED
        BY <2>2, <2>4, <4>1
    <3> QED
      BY <3>1, <3>2
  <2> QED
    BY <2>5, <2>6, <2>7 DEF Good
<1>3. l \in S
  <2> HIDE DEF S
  <2> QED
    BY <1>1, <1>2, SetInduction
<1> QED
  BY <1>3

LEMMA SumsAreIntegers ==
  ASSUME NEW l \in Nat, NEW f, f[0] = 0,
         \A k \in 1 .. l : f[k - 1] \in Int => f[k] \in Int
  PROVE  \A k \in 0 .. l : f[k] \in Int
<1> DEFINE S == {k \in Nat : k <= l => f[k] \in Int}
<1>1. 0 \in S
  OBVIOUS
<1>2. ASSUME NEW k \in Nat, k \in S
      PROVE  k + 1 \in S
  <2> SUFFICES ASSUME k + 1 <= l
               PROVE  f[k + 1] \in Int
    OBVIOUS
  <2>1. f[k] \in Int /\ k + 1 \in 1 .. l /\ (k + 1) - 1 = k
    BY <1>2
  <2> QED
    BY <2>1
<1>3. Nat \subseteq S
  <2> HIDE DEF S
  <2> QED
    BY <1>1, <1>2, SetInduction
<1> QED
  BY <1>3

\* The sums of the first items, of which UnitsOf and NanosOf take the last.
UnitsTo(items) ==
  LET upTo[k \in 0 .. Len(items)] ==
        IF k = 0 THEN 0 ELSE upTo[k - 1] + items[k].cost.units * items[k].quantity
  IN  upTo
NanosTo(items) ==
  LET upTo[k \in 0 .. Len(items)] ==
        IF k = 0 THEN 0 ELSE upTo[k - 1] + items[k].cost.nanos * items[k].quantity
  IN  upTo

LEMMA ItemsAddUp ==
  ASSUME NEW items, Len(items) \in Nat,
         \A k \in 1 .. Len(items) : /\ items[k].cost.units \in Int
                                    /\ items[k].cost.nanos \in Int
                                    /\ items[k].quantity \in Int
  PROVE  /\ UnitsOf(items) = UnitsTo(items)[Len(items)]
         /\ NanosOf(items) = NanosTo(items)[Len(items)]
         /\ UnitsTo(items)[0] = 0 /\ NanosTo(items)[0] = 0
         /\ \A k \in 0 .. Len(items) : UnitsTo(items)[k] \in Int /\ NanosTo(items)[k] \in Int
         /\ \A k \in 1 .. Len(items) :
              /\ UnitsTo(items)[k]
                   = UnitsTo(items)[k - 1] + items[k].cost.units * items[k].quantity
              /\ NanosTo(items)[k]
                   = NanosTo(items)[k - 1] + items[k].cost.nanos * items[k].quantity
<1> DEFINE l == Len(items)
           Units(f) == [k \in 0 .. l |->
                          IF k = 0 THEN 0
                          ELSE f[k - 1] + items[k].cost.units * items[k].quantity]
           Nanos(f) == [k \in 0 .. l |->
                          IF k = 0 THEN 0
                          ELSE f[k - 1] + items[k].cost.nanos * items[k].quantity]
<1>1. \E f \in [0 .. l -> Int] : f = Units(f)
  <2> DEFINE t == [k \in 1 .. l |-> items[k].cost.units * items[k].quantity]
  <2>1. t \in [1 .. l -> Int]
    OBVIOUS
  <2>2. PICK g \in [0 .. l -> Int] : g[0] = 0 /\ \A k \in 1 .. l : g[k] = g[k - 1] + t[k]
    BY <2>1, SumsExist
  <2>3. \A k \in 0 .. l : g[k] = Units(g)[k]
    BY <2>2
  <2> QED
    BY <2>2, <2>3
<1>2. \E f \in [0 .. l -> Int] : f = Nanos(f)
  <2> DEFINE t == [k \in 1 .. l |-> items[k].cost.nanos * items[k].quantity]
  <2>1. t \in [1 .. l -> Int]
    OBVIOUS
  <2>2. PICK g \in [0 .. l -> Int] : g[0] = 0 /\ \A k \in 1 .. l : g[k] = g[k - 1] + t[k]
    BY <2>1, SumsExist
  <2>3. \A k \in 0 .. l : g[k] = Nanos(g)[k]
    BY <2>2
  <2> QED
    BY <2>2, <2>3
<1>3. UnitsTo(items) = CHOOSE f : f = Units(f)
  BY DEF UnitsTo
<1>4. NanosTo(items) = CHOOSE f : f = Nanos(f)
  BY DEF NanosTo
<1>5. UnitsOf(items) = UnitsTo(items)[l] /\ NanosOf(items) = NanosTo(items)[l]
  BY DEF UnitsOf, NanosOf, UnitsTo, NanosTo
<1>6. UnitsTo(items) = Units(UnitsTo(items)) /\ NanosTo(items) = Nanos(NanosTo(items))
  BY <1>1, <1>2, <1>3, <1>4
<1> DEFINE u == UnitsTo(items)
           x == NanosTo(items)
<1> HIDE DEF u, x
<1>7. /\ u[0] = 0 /\ x[0] = 0
      /\ \A k \in 1 .. l : /\ u[k] = u[k - 1] + items[k].cost.units * items[k].quantity
                           /\ x[k] = x[k - 1] + items[k].cost.nanos * items[k].quantity
  <2>1. u = Units(u) /\ x = Nanos(x)
    BY <1>6 DEF u, x
  <2>2. 0 \in 0 .. l /\ \A k \in 1 .. l : k \in 0 .. l /\ k # 0
    OBVIOUS
  <2>3. u[0] = 0 /\ x[0] = 0
    BY <2>1, <2>2
  <2>4. ASSUME NEW k \in 1 .. l
        PROVE  /\ u[k] = u[k - 1] + items[k].cost.units * items[k].quantity
               /\ x[k] = x[k - 1] + items[k].cost.nanos * items[k].quantity
    BY <2>1, <2>2
  <2> QED
    BY <2>3, <2>4
<1>8. \A k \in 0 .. l : u[k] \in Int
  <2>1. \A k \in 1 .. l : items[k].cost.units * items[k].quantity \in Int
    OBVIOUS
  <2>2. \A k \in 1 .. l : u[k - 1] \in Int => u[k] \in Int
    <3> HIDE DEF l
    <3> QED
      BY <1>7, <2>1
  <2> HIDE DEF l
  <2> QED
    BY <1>7, <2>2, SumsAreIntegers DEF l
<1>9. \A k \in 0 .. l : x[k] \in Int
  <2>1. \A k \in 1 .. l : items[k].cost.nanos * items[k].quantity \in Int
    OBVIOUS
  <2>2. \A k \in 1 .. l : x[k - 1] \in Int => x[k] \in Int
    <3> HIDE DEF l
    <3> QED
      BY <1>7, <2>1
  <2> HIDE DEF l
  <2> QED
    BY <1>7, <2>2, SumsAreIntegers DEF l
<1> QED
  BY <1>5, <1>7, <1>8, <1>9 DEF u, x

-----------------------------------------------------------------------------
(***************************************************************************)
(* What is due, of the items added so far, is what the pages' sums are at  *)
(* that item.                                                              *)
(***************************************************************************)
Added == IF pc = "multiply" THEN item - 1 ELSE item

SumsInv ==
  /\ pc = "shipping" => item = 0 /\ due = 0
  /\ pc = "priced" => item = Len(order.items)
  /\ pc \in {"items", "multiply", "priced"} =>
       due = Worth(order.shipping) + UnitsTo(order.items)[Added] * NanosMod
               + NanosTo(order.items)[Added]

LEMMA Sums ==
  ASSUME TypeOK
  PROVE  LET u == UnitsTo(order.items)
             x == NanosTo(order.items)
             l == Len(order.items)
         IN  /\ UnitsOf(order.items) = u[l] /\ NanosOf(order.items) = x[l]
             /\ u[0] = 0 /\ x[0] = 0
             /\ \A k \in 0 .. l : u[k] \in Int /\ x[k] \in Int
             /\ \A k \in 1 .. l :
                  /\ u[k] = u[k - 1] + order.items[k].cost.units * order.items[k].quantity
                  /\ x[k] = x[k - 1] + order.items[k].cost.nanos * order.items[k].quantity
<1>1. Len(order.items) \in Nat
      /\ \A k \in 1 .. Len(order.items) : /\ order.items[k].cost.units \in Int
                                          /\ order.items[k].cost.nanos \in Int
                                          /\ order.items[k].quantity \in Int
  <2>1. Len(order.items) \in Nat
    BY Types
  <2>2. ASSUME NEW k \in 1 .. Len(order.items)
        PROVE  /\ order.items[k].cost.units \in Int
               /\ order.items[k].cost.nanos \in Int
               /\ order.items[k].quantity \in Int
    <3>1. /\ order.items[k].cost \in Price(order.currency)
          /\ order.items[k].quantity \in Nat \ {0}
      BY Types
    <3> QED
      BY <3>1, NanosModAssumption DEF Price
  <2> QED
    BY <2>1, <2>2
<1> QED
  BY <1>1, ItemsAddUp

LEMMA SumsNext == IInv /\ SumsInv /\ [Next]_vars => SumsInv'
<1> SUFFICES ASSUME IInv, SumsInv, [Next]_vars
             PROVE  SumsInv'
  OBVIOUS
<1> DEFINE u == UnitsTo(order.items)
           x == NanosTo(order.items)
           M == NanosMod
<1>1. TypeOK /\ M \in Nat /\ item \in Nat /\ Len(order.items) \in Nat /\ item <= Len(order.items)
  BY Types DEF IInv, TypeOK
<1>2. Worth(order.shipping) \in Int /\ due \in Int
  BY <1>1, Types DEF TypeOK, Worth, Price
<1>3. u[0] = 0 /\ x[0] = 0 /\ \A k \in 0 .. Len(order.items) : u[k] \in Int /\ x[k] \in Int
  BY <1>1, Sums
<1>4. CASE AddShipping
  <2>1. item = 0 /\ due = 0 /\ item' = 0 /\ pc' = "items" /\ order' = order
        /\ due' = 0 + Worth(order.shipping)
    BY <1>4 DEF AddShipping, SumsInv
  <2>2. Added' = 0
    BY <2>1 DEF Added
  <2> QED
    BY <1>1, <1>2, <1>3, <2>1, <2>2 DEF SumsInv
<1>5. CASE NextItem
  <2>1. /\ pc = "items" /\ pc' = "multiply" /\ item' = item + 1
        /\ UNCHANGED <<order, due>>
    BY <1>5 DEF NextItem
  <2>2. Added = item /\ Added' = item
    BY <1>1, <2>1 DEF Added
  <2> QED
    BY <2>1, <2>2 DEF SumsInv
<1>6. CASE MultiplyStep
  <2>1. UNCHANGED <<order, due, pc, item>>
    BY <1>6 DEF MultiplyStep
  <2> QED
    BY <2>1 DEF SumsInv, Added
<1>7. CASE AddItem
  <2>1. /\ pc = "multiply" /\ pc' = "items" /\ UNCHANGED <<order, item>>
        /\ due' = due + Quantity * Worth(Cost) /\ item > 0
    BY <1>1, <1>7 DEF AddItem, TypeOK
  <2>2. Added = item - 1 /\ Added' = item /\ item \in 1 .. Len(order.items)
    BY <1>1, <2>1 DEF Added
  <2> DEFINE q == Quantity
             a == Cost.units
             b == Cost.nanos
  <2>3. q \in Int /\ a \in Int /\ b \in Int
    BY <1>1, <2>1, Types DEF Price
  <2>4. u[item] = u[item - 1] + a * q /\ x[item] = x[item - 1] + b * q
    BY <1>1, <2>2, Sums DEF Cost, Quantity
  <2>5. u[item - 1] \in Int /\ x[item - 1] \in Int
    <3>1. item - 1 \in 0 .. Len(order.items)
      BY <1>1, <2>2
    <3> QED
      BY <1>3, <3>1
  <2>6. due = Worth(order.shipping) + u[item - 1] * M + x[item - 1]
    BY <2>1, <2>2 DEF SumsInv
  <2>7. due' = due + q * (a * M + b)
    BY <2>1 DEF Worth
  <2>8. due' = Worth(order.shipping) + u[item] * M + x[item]
    <3> DEFINE s == Worth(order.shipping)
               u1 == u[item - 1]
               x1 == x[item - 1]
    <3> HIDE DEF q, a, b, s, u1, x1, M, u, x
    <3>1. q * (a * M + b) = (a * q) * M + b * q
      BY <1>1, <2>3
    <3>2. (u1 + a * q) * M = u1 * M + (a * q) * M
      BY <1>1, <2>3, <2>5 DEF u1
    <3>3. /\ a * q \in Int /\ (a * q) * M \in Int /\ b * q \in Int /\ u1 * M \in Int
          /\ u1 \in Int /\ x1 \in Int /\ s \in Int
      BY <1>1, <1>2, <2>3, <2>5 DEF u1, x1, s
    <3>4. due' = s + u1 * M + x1 + ((a * q) * M + b * q)
      BY <2>6, <2>7, <3>1 DEF s, u1, x1
    <3>5. u[item] * M = u1 * M + (a * q) * M /\ x[item] = x1 + b * q
      BY <2>4, <3>2 DEF u1, x1
    <3> QED
      BY <3>3, <3>4, <3>5 DEF s
  <2> QED
    BY <2>1, <2>2, <2>8 DEF SumsInv
<1>8. CASE Finish
  <2>1. /\ pc = "items" /\ pc' = "priced" /\ item = Len(order.items)
        /\ UNCHANGED <<order, item, due>>
    BY <1>8 DEF Finish
  <2> QED
    BY <2>1 DEF SumsInv, Added
<1>9. CASE Panic
  BY <1>9 DEF Panic, SumsInv
<1>10. CASE UNCHANGED vars
  BY <1>10 DEF vars, SumsInv, Added
<1> QED
  BY <1>4, <1>5, <1>6, <1>7, <1>8, <1>9, <1>10 DEF Next

\* A price is told by what it is worth, and the pages' carry makes it.
LEMMA CarriedIsPrice ==
  ASSUME NEW cur, NEW m \in Price(cur), NEW units \in Int, NEW nanos \in Int,
         Worth(m) = units * NanosMod + nanos
  PROVE  m = Carried(cur, units, nanos)
<1> DEFINE M == NanosMod
           d == nanos \div M
           r == nanos % M
<1>1. M \in Nat /\ M > 0
  BY NanosModAssumption
<1>2. d \in Int /\ r \in 0 .. (M - 1) /\ nanos = M * d + r
  BY <1>1, SMTT(30)
<1>3. m.units \in Nat /\ m.nanos \in 0 .. (M - 1)
      /\ m = [currency |-> cur, units |-> m.units, nanos |-> m.nanos]
  BY DEF Price
<1>4. m.units * M + m.nanos = units * M + nanos
  BY DEF Worth
<1>5. ASSUME NEW a \in Int, NEW b \in Int, NEW v \in 0 .. (M - 1), NEW w \in 0 .. (M - 1),
             a * M + v = b * M + w
      PROVE  a = b /\ v = w
  <2> HIDE DEF M
  <2>1. ASSUME NEW c \in Int, c >= 1 PROVE c * M >= M
    BY <1>1, <2>1
  <2>2. (a - b) * M = a * M - b * M /\ (b - a) * M = b * M - a * M
    BY <1>1
  <2>3. ~(a - b >= 1)
    <3> SUFFICES ASSUME a - b >= 1 PROVE FALSE
      OBVIOUS
    <3>1. (a - b) * M >= M
      BY <2>1
    <3> QED
      BY <1>1, <1>5, <2>2, <3>1
  <2>4. ~(b - a >= 1)
    <3> SUFFICES ASSUME b - a >= 1 PROVE FALSE
      OBVIOUS
    <3>1. (b - a) * M >= M
      BY <2>1
    <3> QED
      BY <1>1, <1>5, <2>2, <3>1
  <2>5. a = b
    BY <2>3, <2>4
  <2> QED
    BY <1>1, <1>5, <2>5
<1>6. units * M + nanos = (units + d) * M + r
  <2> HIDE DEF M, d, r
  <2>1. (units + d) * M = units * M + M * d
    BY <1>1, <1>2
  <2> QED
    BY <1>1, <1>2, <2>1
<1> HIDE DEF d, r
<1>7. m.units = units + d /\ m.nanos = r
  BY <1>1, <1>2, <1>3, <1>4, <1>5, <1>6
<1> QED
  BY <1>3, <1>7 DEF Carried, Amount, d, r

LEMMA CartLinesAre ==
  ASSUME TypeOK
  PROVE  LET c == CartLines(order)
         IN  /\ Len(c) = Len(order.items)
             /\ order.currency # Dollars => c = order.items
             /\ \A k \in 1 .. Len(order.items) :
                  /\ c[k].cost.units \in Int /\ c[k].cost.nanos \in Int
                  /\ c[k].quantity = order.items[k].quantity
                  /\ order.items[k].cost.units \in Int /\ order.items[k].cost.nanos \in Int
                  /\ order.items[k].quantity \in Int
<1> DEFINE s == order.items
           l == Len(s)
           c == CartLines(order)
<1>1. /\ NanosMod \in Nat /\ l \in Nat /\ s \in Seq(Items(order.currency))
      /\ DOMAIN s = 1 .. l
      /\ \A k \in 1 .. l : s[k] \in Items(order.currency)
  <2>1. NanosMod \in Nat /\ l \in Nat /\ s \in Seq(Items(order.currency))
    BY Types
  <2> DEFINE S == Items(order.currency)
  <2> HIDE DEF S
  <2> QED
    BY <2>1, ElementsOfSeq DEF S
<1>2. c = [k \in 1 .. l |-> [s[k] EXCEPT !.cost = ShownPrice(order, s[k])]]
  BY <1>1 DEF CartLines
<1>3. Len(c) = l
  BY <1>1, <1>2
<1>4. ASSUME NEW k \in 1 .. l
      PROVE  /\ c[k].cost.units \in Int /\ c[k].cost.nanos \in Int
             /\ c[k].quantity = s[k].quantity
             /\ s[k].cost.units \in Int /\ s[k].cost.nanos \in Int /\ s[k].quantity \in Int
             /\ order.currency # Dollars => c[k] = s[k]
  <2>1. s[k] \in [cost : Price(order.currency), catalogue : Price(Dollars), quantity : Nat \ {0}]
    BY <1>1 DEF Items
  <2>2. c[k] = [s[k] EXCEPT !.cost = ShownPrice(order, s[k])]
    BY <1>2
  <2>3. c[k].cost = ShownPrice(order, s[k]) /\ c[k].quantity = s[k].quantity
    BY <2>1, <2>2
  <2>4. ShownPrice(order, s[k]) \in Price(order.currency) \cup Price(Dollars)
    BY <2>1 DEF ShownPrice
  <2>5. \A m \in Price(order.currency) \cup Price(Dollars) : m.units \in Int /\ m.nanos \in Int
    BY <1>1 DEF Price
  <2>6. order.currency # Dollars => c[k] = s[k]
    BY <2>1, <2>2 DEF ShownPrice
  <2> QED
    BY <2>1, <2>3, <2>4, <2>5, <2>6
<1>5. order.currency # Dollars => c = s
  <2> SUFFICES ASSUME order.currency # Dollars PROVE c = s
    OBVIOUS
  <2>1. c = [k \in 1 .. l |-> s[k]]
    BY <1>2, <1>4
  <2>2. s = [k \in 1 .. l |-> s[k]]
    BY <1>1
  <2> QED
    BY <2>1, <2>2
<1> QED
  BY <1>3, <1>4, <1>5

\* What Drift is after the first items.
DriftTo(o) ==
  LET upTo[k \in 0 .. Len(o.items)] ==
        IF k = 0 THEN 0
        ELSE upTo[k - 1] + o.items[k].quantity
                             * (Worth(o.items[k].cost) - Worth(CartLines(o)[k].cost))
  IN  upTo

\* The drift is what the two pages' sums differ by.
LEMMA DriftIsTheDifference ==
  ASSUME TypeOK
  PROVE  LET c == CartLines(order)
         IN  /\ UnitsOf(c) \in Int /\ NanosOf(c) \in Int
             /\ Drift(order) = (UnitsOf(order.items) - UnitsOf(c)) * NanosMod
                                 + (NanosOf(order.items) - NanosOf(c))
<1> DEFINE s == order.items
           l == Len(s)
           c == CartLines(order)
           M == NanosMod
           u == UnitsTo(s)
           x == NanosTo(s)
           v == UnitsTo(c)
           y == NanosTo(c)
           w == [k \in 1 .. l |-> s[k].quantity * (Worth(s[k].cost) - Worth(c[k].cost))]
           Upto(f) == [k \in 0 .. l |-> IF k = 0 THEN 0 ELSE f[k - 1] + w[k]]
           g == DriftTo(order)
<1>1. M \in Nat /\ l \in Nat /\ Len(c) = l
  BY Types, CartLinesAre
<1>2. /\ UnitsOf(s) = u[l] /\ NanosOf(s) = x[l] /\ u[0] = 0 /\ x[0] = 0
      /\ \A k \in 0 .. l : u[k] \in Int /\ x[k] \in Int
      /\ \A k \in 1 .. l : /\ u[k] = u[k - 1] + s[k].cost.units * s[k].quantity
                           /\ x[k] = x[k - 1] + s[k].cost.nanos * s[k].quantity
  BY Sums
<1>3. /\ UnitsOf(c) = v[l] /\ NanosOf(c) = y[l] /\ v[0] = 0 /\ y[0] = 0
      /\ \A k \in 0 .. l : v[k] \in Int /\ y[k] \in Int
      /\ \A k \in 1 .. l : /\ v[k] = v[k - 1] + c[k].cost.units * c[k].quantity
                           /\ y[k] = y[k - 1] + c[k].cost.nanos * c[k].quantity
  <2>1. Len(c) \in Nat
        /\ \A k \in 1 .. Len(c) : /\ c[k].cost.units \in Int /\ c[k].cost.nanos \in Int
                                  /\ c[k].quantity \in Int
    BY <1>1, CartLinesAre
  <2> HIDE DEF c
  <2> QED
    BY <1>1, <2>1, ItemsAddUp
<1>4. \A k \in 1 .. l : /\ s[k].quantity \in Int
                        /\ s[k].cost.units \in Int /\ s[k].cost.nanos \in Int
                        /\ c[k].cost.units \in Int /\ c[k].cost.nanos \in Int
                        /\ c[k].quantity = s[k].quantity
  BY CartLinesAre
<1>5. w \in [1 .. l -> Int]
  <2> HIDE DEF s, l, c, M
  <2>1. \A k \in 1 .. l : Worth(s[k].cost) \in Int /\ Worth(c[k].cost) \in Int
    BY <1>1, <1>4 DEF Worth, M
  <2> QED
    BY <1>4, <2>1
<1>6. g[0] = 0 /\ \A k \in 1 .. l : g[k] = g[k - 1] + w[k]
  <2>1. \E f : f = Upto(f)
    <3>1. PICK h \in [0 .. l -> Int] : h[0] = 0 /\ \A k \in 1 .. l : h[k] = h[k - 1] + w[k]
      <4> HIDE DEF w, l
      <4> QED
        BY <1>1, <1>5, SumsExist
    <3>2. h = Upto(h)
      <4> HIDE DEF w, l
      <4>1. \A k \in 0 .. l : k = 0 \/ k \in 1 .. l
        BY <1>1
      <4>2. \A k \in 0 .. l : h[k] = IF k = 0 THEN 0 ELSE h[k - 1] + w[k]
        BY <3>1, <4>1
      <4> QED
        BY <3>1, <4>2
    <3> HIDE DEF Upto
    <3> QED
      BY <3>2
  <2> DEFINE Own(f) == [k \in 0 .. l |->
                IF k = 0 THEN 0
                ELSE f[k - 1] + s[k].quantity * (Worth(s[k].cost) - Worth(c[k].cost))]
  <2>2. \A f : Own(f) = Upto(f)
    <3>1. \A k \in 0 .. l : k = 0 \/ k \in 1 .. l
      BY <1>1
    <3> QED
      BY <3>1
  <2>3. g = CHOOSE f : f = Own(f)
    BY DEF DriftTo
  <2> HIDE DEF g, Own, w
  <2>4. g = Own(g)
    BY <2>1, <2>2, <2>3
  <2>5. g = Upto(g)
    BY <2>2, <2>4
  <2>6. 0 \in 0 .. l /\ \A k \in 1 .. l : k \in 0 .. l /\ k # 0
    BY <1>1
  <2> QED
    BY <2>5, <2>6
<1>7. Drift(order) = g[l]
  BY DEF Drift, DriftTo
<1> DEFINE Differ(k) == (u[k] - v[k]) * M + (x[k] - y[k])
           S == {k \in Nat : k <= l => g[k] = Differ(k)}
<1>8. 0 \in S
  <2>1. Differ(0) = (0 - 0) * M + (0 - 0)
    BY <1>2, <1>3
  <2>2. (0 - 0) * M + (0 - 0) = 0
    BY <1>1
  <2>3. g[0] = Differ(0)
    BY <1>6, <2>1, <2>2
  <2> HIDE DEF Differ, g
  <2> QED
    BY <2>3
<1>9. ASSUME NEW k \in Nat, k \in S
      PROVE  k + 1 \in S
  <2> SUFFICES ASSUME k + 1 <= l
               PROVE  g[k + 1] = Differ(k + 1)
    OBVIOUS
  <2> DEFINE j == k + 1
             q == s[j].quantity
             a == s[j].cost.units
             b == s[j].cost.nanos
             d == c[j].cost.units
             e == c[j].cost.nanos
             U == u[k]
             V == v[k]
             X == x[k]
             Y == y[k]
  <2>1. j \in 1 .. l /\ j - 1 = k /\ k \in 0 .. l /\ g[k] = Differ(k)
    BY <1>1, <1>9
  <2>2. q \in Int /\ a \in Int /\ b \in Int /\ d \in Int /\ e \in Int /\ c[j].quantity = q
    <3> HIDE DEF s, c, l
    <3> QED
      BY <1>4, <2>1
  <2>3. U \in Int /\ V \in Int /\ X \in Int /\ Y \in Int
    <3> HIDE DEF u, v, x, y, l, c, s
    <3> QED
      BY <1>2, <1>3, <2>1
  <2>4. u[j] = U + a * q /\ x[j] = X + b * q /\ v[j] = V + d * q /\ y[j] = Y + e * q
    <3> HIDE DEF u, v, x, y, l, c, s
    <3> QED
      BY <1>2, <1>3, <2>1, <2>2
  <2>5. g[j] = g[k] + q * ((a * M + b) - (d * M + e))
    <3>1. g[j] = g[k] + w[j]
      <4> HIDE DEF g, w, l
      <4> QED
        BY <1>6, <2>1
    <3>2. w[j] = q * (Worth(s[j].cost) - Worth(c[j].cost))
      BY <2>1
    <3>3. Worth(s[j].cost) = a * M + b /\ Worth(c[j].cost) = d * M + e
      BY DEF Worth
    <3> HIDE DEF g, w, s, c, M
    <3> QED
      BY <3>1, <3>2, <3>3
  <2>6. g[k] = (U - V) * M + (X - Y)
    BY <2>1
  <2>7. Differ(j) = ((U + a * q) - (V + d * q)) * M + ((X + b * q) - (Y + e * q))
    BY <2>4
  <2> HIDE DEF q, a, b, d, e, U, V, X, Y, M, g, Differ
  <2>8. q * ((a * M + b) - (d * M + e)) = ((a * q) - (d * q)) * M + ((b * q) - (e * q))
    BY <1>1, <2>2
  <2>9. ((U + a * q) - (V + d * q)) * M = (U - V) * M + ((a * q) - (d * q)) * M
    <3>1. \A r, t \in Int : (r + t) * M = r * M + t * M
      BY <1>1
    <3>2. U - V \in Int /\ (a * q) - (d * q) \in Int
      BY <2>2, <2>3
    <3>3. (U + a * q) - (V + d * q) = (U - V) + ((a * q) - (d * q))
      BY <2>2, <2>3
    <3> QED
      BY <3>1, <3>2, <3>3
  <2>10. /\ (U - V) * M \in Int /\ ((a * q) - (d * q)) * M \in Int
         /\ b * q \in Int /\ e * q \in Int
    BY <1>1, <2>2, <2>3
  <2>11. g[j] = Differ(j)
    BY <2>3, <2>5, <2>6, <2>7, <2>8, <2>9, <2>10
  <2> QED
    BY <2>11 DEF j
<1>10. l \in S
  <2> HIDE DEF S
  <2> QED
    BY <1>1, <1>8, <1>9, SetInduction
<1>11. g[l] = Differ(l)
  <2> HIDE DEF g, Differ, l
  <2> QED
    BY <1>10, <1>1
<1>12. l \in 0 .. l
  BY <1>1
<1> QED
  BY <1>1, <1>2, <1>3, <1>7, <1>11, <1>12

\* What the carry makes of a sum is worth the sum.
LEMMA CarriedWorth ==
  ASSUME NEW cur, NEW units \in Int, NEW nanos \in Int
  PROVE  Worth(Carried(cur, units, nanos)) = units * NanosMod + nanos
<1> DEFINE M == NanosMod
           d == nanos \div M
           r == nanos % M
<1>1. M \in Nat /\ M > 0
  BY NanosModAssumption
<1>2. d \in Int /\ r \in Int /\ nanos = (M * d) + r
  BY <1>1, SMTT(30)
<1>3. Worth(Carried(cur, units, nanos)) = ((units + d) * M) + r
  BY DEF Worth, Carried, Amount
<1> HIDE DEF M, d, r
<1>4. (units + d) * M = (units * M) + (M * d)
  BY <1>1, <1>2
<1> QED
  BY <1>1, <1>2, <1>3, <1>4 DEF M

LEMMA PagesShow ==
  ASSUME IInv, SumsInv
  PROVE  ShownIsCharged
<1> SUFFICES ASSUME WellPriced(order)
             PROVE  /\ pc = "priced" =>
                         /\ total = OrderPageTotal(order)
                         /\ Worth(total) = Worth(CartPageTotal(order)) + Drift(order)
                         /\ order.currency # Dollars => total = CartPageTotal(order)
                    /\ pc = "multiply" /\ n = 1 => out = LineTotal(order.items[item])
  BY DEF ShownIsCharged
<1> DEFINE cur == order.currency
           M == NanosMod
<1>1. TypeOK /\ M \in Nat
  BY Types DEF IInv
<1>2. ASSUME pc = "priced"
      PROVE  /\ total = OrderPageTotal(order)
             /\ Worth(total) = Worth(CartPageTotal(order)) + Drift(order)
             /\ order.currency # Dollars => total = CartPageTotal(order)
  <2> DEFINE u == UnitsOf(order.items)
             x == NanosOf(order.items)
             c == CartLines(order)
             v == UnitsOf(c)
             y == NanosOf(c)
             s == order.shipping
  <2>1. u \in Int /\ x \in Int
    BY <1>1, Sums, Types
  <2>2. s.units \in Int /\ s.nanos \in Int /\ s.currency = cur
    BY <1>1, Types DEF Price
  <2>3. Worth(total) = (s.units * M + s.nanos) + u * M + x
    <3>1. Worth(total) = due /\ item = Len(order.items) /\ Added = item
      BY <1>2 DEF IInv, WorthInv, SumsInv, Added
    <3>2. due = Worth(s) + UnitsTo(order.items)[item] * M + NanosTo(order.items)[item]
      BY <1>2, <3>1 DEF SumsInv
    <3> QED
      BY <1>1, <3>1, <3>2, Sums DEF Worth
  <2>4. total \in Price(cur)
    BY DEF IInv, PricedInv
  <2>5. v \in Int /\ y \in Int /\ Drift(order) = (u - v) * M + (x - y)
    BY <1>1, DriftIsTheDifference
  <2>6. cur # Dollars => c = order.items
    BY <1>1, CartLinesAre
  <2>7. CartPageTotal(order) = Carried(cur, v + s.units, y + s.nanos)
    BY DEF CartPageTotal
  <2>8. OrderPageTotal(order) = Carried(s.currency, u + s.units, x + s.nanos)
    BY DEF OrderPageTotal
  <2>9. cur # Dollars => CartPageTotal(order) = Carried(cur, u + s.units, x + s.nanos)
    BY <2>6, <2>7
  <2> HIDE DEF u, x, v, y, s, M, cur, c
  <2>10. Worth(total) = (u + s.units) * M + (x + s.nanos)
    <3>1. (u + s.units) * M = u * M + s.units * M
      BY <1>1, <2>1, <2>2
    <3> QED
      BY <1>1, <2>1, <2>2, <2>3, <3>1
  <2>11. total = Carried(cur, u + s.units, x + s.nanos)
    BY <2>1, <2>2, <2>4, <2>10, CarriedIsPrice DEF M
  <2>12. Worth(CartPageTotal(order)) = (v + s.units) * M + (y + s.nanos)
    BY <2>2, <2>5, <2>7, CarriedWorth DEF M
  <2>13. (u + s.units) * M = ((v + s.units) * M) + ((u - v) * M)
    BY <1>1, <2>1, <2>2, <2>5
  <2>14. (v + s.units) * M \in Int /\ (u - v) * M \in Int
    BY <1>1, <2>1, <2>2, <2>5
  <2>15. Worth(total) = Worth(CartPageTotal(order)) + Drift(order)
    BY <2>1, <2>2, <2>5, <2>10, <2>12, <2>13, <2>14
  <2> QED
    BY <2>2, <2>8, <2>9, <2>11, <2>15 DEF cur
<1>3. ASSUME pc = "multiply", n = 1
      PROVE  out = LineTotal(order.items[item])
  <2> DEFINE a == Cost.units
             b == Cost.nanos
             q == Quantity
  <2>1. item > 0 /\ Worth(out) = (Quantity - 1 + 1) * Worth(Cost)
    BY <1>1, <1>3 DEF TypeOK, IInv, WorthInv
  <2>2. a \in Int /\ b \in Int /\ q \in Int /\ Cost.currency = cur
    BY <1>1, <2>1, Types DEF Price
  <2>3. out \in Price(cur)
    BY <1>3 DEF IInv, PricedInv
  <2>4. Worth(out) = q * (a * M + b)
    <3>1. q - 1 + 1 = q
      BY <2>2
    <3> QED
      BY <2>1, <3>1 DEF Worth
  <2> HIDE DEF a, b, q, M, cur
  <2>5. q * (a * M + b) = (a * q) * M + b * q
    BY <1>1, <2>2
  <2>6. a * q \in Int /\ b * q \in Int
    BY <2>2
  <2>7. out = Carried(cur, a * q, b * q)
    BY <2>3, <2>4, <2>5, <2>6, CarriedIsPrice DEF M
  <2> QED
    BY <2>2, <2>7 DEF LineTotal, Cost, Quantity, a, b, q
<1> QED
  BY <1>2, <1>3

(***************************************************************************)
(* For any prices, quantities and number of items: the order page and the  *)
(* card have the same total to the nano, a line of the order page is what  *)
(* MultiplySlow made of its item, and the cart page differs from them in   *)
(* dollars only, by what the conversion of dollars to dollars made of the  *)
(* items' prices (CartItems.tsx:37-52, ProductCatalog.service.ts:12-14,    *)
(* [orderId]/index.tsx:23-40 and 73-81, main.go:523).                      *)
(***************************************************************************)
THEOREM PagesAgree == Spec => []ShownIsCharged
<1>1. Init => IInv /\ SumsInv
  BY InitInv DEF Init, SumsInv
<1>2. (IInv /\ SumsInv) /\ [Next]_vars => (IInv /\ SumsInv)'
  BY NextInv, SumsNext
<1>3. IInv /\ SumsInv => ShownIsCharged
  BY PagesShow
<1> QED
  BY <1>1, <1>2, <1>3, PTL DEF Spec
=============================================================================
