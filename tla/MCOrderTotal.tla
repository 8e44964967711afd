---------------------------- MODULE MCOrderTotal ----------------------------
(***************************************************************************)
(* Orders in dollars and in another currency, of up to two items, with     *)
(* every price up to MaxUnits and quantities up to MaxQuantity, and a unit *)
(* of a few nanos.  Of a pair, the second item's catalogue price is the    *)
(* one thing that is fixed.                                                *)
(***************************************************************************)
EXTENDS OrderPages

CONSTANTS MaxUnits, MaxQuantity

MCPrices(cur) == {Amount(cur, u, x) : u \in 0 .. MaxUnits, x \in 0 .. (NanosMod - 1)}

MCCatalogue == {Amount(Dollars, 1, 0), Amount(Dollars, 1, NanosMod - 1)}

MCItems(cur) ==
  [cost : MCPrices(cur), catalogue : MCCatalogue, quantity : 1 .. MaxQuantity]

MCOrdersIn(cur) ==
  [currency : {cur}, shipping : MCPrices(cur),
   items : {<<>>} \cup {<<a>> : a \in MCItems(cur)}
           \cup {<<a, b>> : a \in {i \in MCItems(cur) : i.cost.nanos # 0},
                            b \in {i \in MCItems(cur) : i.catalogue.nanos # 0}}]

MCOrders == MCOrdersIn(Dollars) \cup MCOrdersIn("EUR")
=============================================================================
