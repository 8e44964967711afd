----------------------------- MODULE OrderPages -----------------------------
(***************************************************************************)
(* What the frontend's pages add up for themselves: the cart page before   *)
(* the order (components/CartItems/CartItems.tsx) and the page of the      *)
(* order after it (pages/cart/checkout/[orderId]/index.tsx).  An order     *)
(* that is returned has no total, so neither is told what was charged.     *)
(* They sum units and nanos apart and carry once, where checkout goes      *)
(* through money.Sum for every piece of every item.  Checkout converts     *)
(* every price, the frontend only those for another currency than dollars; *)
(* where both convert, the currency service answers both alike.            *)
(***************************************************************************)
EXTENDS OrderTotal

\* What the items' costs, times their quantities, add up to in one field.
UnitsOf(items) ==
  LET upTo[k \in 0 .. Len(items)] ==
        IF k = 0 THEN 0 ELSE upTo[k - 1] + items[k].cost.units * items[k].quantity
  IN  upTo[Len(items)]
NanosOf(items) ==
  LET upTo[k \in 0 .. Len(items)] ==
        IF k = 0 THEN 0 ELSE upTo[k - 1] + items[k].cost.nanos * items[k].quantity
  IN  upTo[Len(items)]

\* The pages' carry: nanos that exceed a unit become units, once.
Carried(cur, units, nanos) ==
  Amount(cur, units + nanos \div NanosMod, nanos % NanosMod)

\* The catalogue's prices are in dollars, and shown as they are to those
\* who selected dollars.
ShownPrice(o, i) == IF o.currency = Dollars THEN i.catalogue ELSE i.cost

CartLines(o) ==
  [k \in DOMAIN o.items |-> [o.items[k] EXCEPT !.cost = ShownPrice(o, o.items[k])]]

\* Mutant of CartPageTotal: the exceeding nanos are counted without shipping's.
CartPageTotalEarly(o) ==
  LET nanos == NanosOf(CartLines(o))
  IN  Amount(o.currency,
             UnitsOf(CartLines(o)) + o.shipping.units + nanos \div NanosMod,
             (nanos + o.shipping.nanos) % NanosMod)

\* In the selected currency, which is the one the order will be placed in.
CartPageTotal(o) ==
  Carried(o.currency, UnitsOf(CartLines(o)) + o.shipping.units,
                      NanosOf(CartLines(o)) + o.shipping.nanos)

\* In the currency of the shipping cost; the items' is dropped.
OrderPageTotal(o) ==
  Carried(o.shipping.currency, UnitsOf(o.items) + o.shipping.units,
                               NanosOf(o.items) + o.shipping.nanos)

\* A line of the order page.
LineTotal(i) == Carried(i.cost.currency, i.cost.units * i.quantity, i.cost.nanos * i.quantity)

-----------------------------------------------------------------------------
\* What converting the items' prices has added to what the cart page shows.
Drift(o) ==
  LET upTo[k \in 0 .. Len(o.items)] ==
        IF k = 0 THEN 0
        ELSE upTo[k - 1] + o.items[k].quantity
                             * (Worth(o.items[k].cost) - Worth(CartLines(o)[k].cost))
  IN  upTo[Len(o.items)]

(***************************************************************************)
(* The pages agree with the card, to the nano: the order page's total is   *)
(* the amount charged, and each of its lines is what MultiplySlow made of  *)
(* the item; the cart page's total is what will be charged, except that in *)
(* dollars it is off by what checkout's conversion of dollars to dollars   *)
(* makes of the items' prices, no more and no less (CartItems.tsx:37-52,   *)
(* ProductCatalog.service.ts:12-14, [orderId]/index.tsx:23-40 and 73-81,   *)
(* main.go:324-331 and 523).                                               *)
(***************************************************************************)
ShownIsCharged ==
  WellPriced(order) =>
    /\ pc = "priced" =>
         /\ total = OrderPageTotal(order)
         /\ Worth(total) = Worth(CartPageTotal(order)) + Drift(order)
         /\ order.currency # Dollars => total = CartPageTotal(order)
    /\ pc = "multiply" /\ n = 1 => out = LineTotal(order.items[item])
=============================================================================
