------------------------------- MODULE MCMoney ------------------------------
(***************************************************************************)
(* Any two amounts, and what adding the second one to the first, again and *)
(* again, comes to.                                                        *)
(***************************************************************************)
EXTENDS Money

CONSTANT MaxUnits

VARIABLES l, r

MCAmounts(units) ==
  {Amount(cur, u, x) : cur \in {"eur", "usd"}, u \in units,
                       x \in -(NanosMod + 1) .. (NanosMod + 1)}

Init == l \in MCAmounts(-MaxUnits .. MaxUnits) /\ r \in MCAmounts(-MaxUnits .. MaxUnits)

Accumulate ==
  /\ ~SumFails(l, r)
  /\ Sum(l, r).units \in -MaxUnits .. MaxUnits
  /\ l' = Sum(l, r)
  /\ r' = r

Spec == Init /\ [][Accumulate]_<<l, r>>

(***************************************************************************)
(* money.go:95 says of the branch that borrows: "different sign. nanos     *)
(* guaranteed to not to go over the limit".  If so, a sum of valid amounts *)
(* is valid.  It is not when the units add up to zero: (0, 1) + (0, 0) is  *)
(* (1, 1 - NanosMod), whose signs differ, and the next Sum refuses it.     *)
(***************************************************************************)
EverySumIsValid == SumIsValid(l, r)
=============================================================================
