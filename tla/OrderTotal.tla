----------------------------- MODULE OrderTotal -----------------------------
(***************************************************************************)
(* How PlaceOrder prices an order (src/src/checkout/main.go:324-331): the  *)
(* shipping cost, then for every item its cost multiplied by its quantity, *)
(* one money.Sum at a time.  Every Sum is wrapped in money.Must, which     *)
(* panics on an error; the gRPC server has no recovery handler, so a panic *)
(* ends the checkout process with every order in flight.                   *)
(***************************************************************************)
EXTENDS Money, Sequences

CONSTANT Orders  \* the orders to price: shipping cost and priced items

(***************************************************************************)
(* What reaches the pricing loop: amounts the currency service has         *)
(* converted to the user's currency, none negative, and quantities of at   *)
(* least one.  A quantity of zero is left out of the JSON (omitempty) and  *)
(* a negative one is no u32, so /get-quote refuses both beforehand.  An    *)
(* item has next to its cost the catalogue's price that was converted.     *)
(***************************************************************************)
Price(cur) == [currency : {cur}, units : Nat, nanos : 0 .. (NanosMod - 1)]

Dollars == "USD"

Items(cur) == [cost : Price(cur), catalogue : Price(Dollars), quantity : Nat \ {0}]

IsOrder(o) ==
  /\ o.shipping \in Price(o.currency)
  /\ o.items \in Seq(Items(o.currency))

ASSUME OrdersAssumption == \A o \in Orders : IsOrder(o)

VARIABLES order,  \* the order being priced
          pc,     \* shipping, items, multiply, priced or panicked
          item,   \* the index of the item being added, 0 before the first
          n,      \* MultiplySlow's counter
          out,    \* MultiplySlow's accumulator
          total,  \* PlaceOrder's accumulator
          due     \* history: the exact worth of what was added so far

vars == <<order, pc, item, n, out, total, due>>

Zero(cur) == Amount(cur, 0, 0)
Cost == order.items[item].cost
Quantity == order.items[item].quantity

Init ==
  /\ order \in Orders
  /\ pc = "shipping"
  /\ item = 0
  /\ n = 0
  /\ out = Zero(order.currency)
  /\ total = Zero(order.currency)
  /\ due = 0

\* The operands of the Sum the loop is about to compute.
Left == IF pc = "multiply" /\ n > 1 THEN out ELSE total
Right == IF pc = "shipping" THEN order.shipping
         ELSE IF n > 1 THEN Cost ELSE out

AddShipping ==
  /\ pc = "shipping"
  /\ ~SumFails(Left, Right)
  /\ total' = Sum(Left, Right)
  /\ due' = due + Worth(order.shipping)
  /\ pc' = "items"
  /\ UNCHANGED <<order, item, n, out>>

NextItem ==
  /\ pc = "items"
  /\ item < Len(order.items)
  /\ item' = item + 1
  /\ n' = order.items[item + 1].quantity
  /\ out' = order.items[item + 1].cost
  /\ pc' = "multiply"
  /\ UNCHANGED <<order, total, due>>

\* One turn of MultiplySlow's loop.
MultiplyStep ==
  /\ pc = "multiply"
  /\ n > 1
  /\ ~SumFails(Left, Right)
  /\ out' = Sum(Left, Right)
  /\ n' = n - 1
  /\ UNCHANGED <<order, pc, item, total, due>>

AddItem ==
  /\ pc = "multiply"
  /\ n <= 1
  /\ ~SumFails(Left, Right)
  /\ total' = Sum(Left, Right)
  /\ due' = due + Quantity * Worth(Cost)
  /\ pc' = "items"
  /\ UNCHANGED <<order, item, n, out>>

\* The loop is over: the total goes to chargeCard.
Finish ==
  /\ pc = "items"
  /\ item = Len(order.items)
  /\ pc' = "priced"
  /\ UNCHANGED <<order, item, n, out, total, due>>

\* money.Must on the error of money.Sum.
Panic ==
  /\ pc \in {"shipping", "multiply"}
  /\ SumFails(Left, Right)
  /\ pc' = "panicked"
  /\ UNCHANGED <<order, item, n, out, total, due>>

Next == AddShipping \/ NextItem \/ MultiplyStep \/ AddItem \/ Finish \/ Panic

Spec == Init /\ [][Next]_vars

-----------------------------------------------------------------------------
Amounts == [currency : {order.currency}, units : Int, nanos : Int]

TypeOK ==
  /\ order \in Orders
  /\ pc \in {"shipping", "items", "multiply", "priced", "panicked"}
  /\ item \in 0 .. Len(order.items)
  /\ n \in Nat
  /\ pc = "multiply" => item > 0 /\ n \in 1 .. Quantity
  /\ out \in Amounts /\ total \in Amounts
  /\ due \in Int

(***************************************************************************)
(* The amount charged is, to the nano, the shipping cost and every item's  *)
(* cost times its quantity: borrowing and carrying lose nothing, in any    *)
(* order of the items (main.go:324-331, money.go:87-120).                  *)
(***************************************************************************)
ExactTotal == pc = "priced" => Worth(total) = due

(***************************************************************************)
(* Prices of half a unit or more, and shipping of at least one unit: what  *)
(* the catalogue of postgresql/init.sql and quote's 8.99 per item come to  *)
(* in every currency of server.cpp.  An empty cart ships for nothing.      *)
(***************************************************************************)
WellPriced(o) ==
  /\ IF o.items = <<>> THEN o.shipping = Zero(o.currency)
                       ELSE o.shipping.units >= 1
  /\ \A k \in DOMAIN o.items :
       o.items[k].cost.units >= 1 \/ 2 * o.items[k].cost.nanos >= NanosMod

(***************************************************************************)
(* Pricing never brings the checkout process down: for such prices no Sum  *)
(* on the way meets an invalid amount, however many items there are and    *)
(* however large their quantities (money.Must, money.go:71-76).            *)
(***************************************************************************)
NeverPanics == WellPriced(order) => pc # "panicked"

(***************************************************************************)
(* ... and the total that goes to the payment service is itself valid.     *)
(***************************************************************************)
ChargeableTotal == WellPriced(order) /\ pc = "priced" => IsValid(total)
=============================================================================
