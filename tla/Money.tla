------------------------------- MODULE Money --------------------------------
(***************************************************************************)
(* Amounts of money as checkout's money package handles them               *)
(* (src/src/checkout/money/money.go): an amount is a currency, a whole     *)
(* number of units and a number of nanos, NanosMod of which make a unit.   *)
(* Both carry the sign of the amount.  NanosMod is 10^9 in the code; every *)
(* definition and theorem here holds for any other positive value, so TLC  *)
(* uses a small one.  The int64 of the units is taken as unbounded: the    *)
(* catalogue's largest price is 3599.00.                                   *)
(***************************************************************************)
EXTENDS Integers

CONSTANT NanosMod

ASSUME NanosModAssumption == NanosMod \in Nat \ {0}

Amount(cur, units, nanos) ==
  [currency |-> cur, units |-> units, nanos |-> nanos]

SignMatches(m) ==
  \/ m.nanos = 0
  \/ m.units = 0
  \/ (m.nanos < 0) = (m.units < 0)

\* nanosMin and nanosMax are the two ends of this range.
ValidNanos(nanos) == -(NanosMod - 1) <= nanos /\ nanos <= NanosMod - 1

IsValid(m) == SignMatches(m) /\ ValidNanos(m.nanos)

\* Go's integer division truncates towards zero, TLA+'s rounds down.
Quotient(n) == IF n >= 0 THEN n \div NanosMod ELSE -((-n) \div NanosMod)
Remainder(n) == n - NanosMod * Quotient(n)

SameSign(units, nanos) ==
  \/ units = 0 /\ nanos = 0
  \/ units > 0 /\ nanos >= 0
  \/ units < 0 /\ nanos <= 0

\* Mutants of Normalize: the carry is lost; the carried nanos are kept.
NormalizeLosesCarry(cur, units, nanos) ==
  IF SameSign(units, nanos)
  THEN Amount(cur, units, Remainder(nanos))
  ELSE Amount(cur, units - 1, nanos + NanosMod)
NormalizeKeepsNanos(cur, units, nanos) ==
  IF SameSign(units, nanos)
  THEN Amount(cur, units + Quotient(nanos), nanos)
  ELSE Amount(cur, units - 1, nanos + NanosMod)

\* What Sum makes of the sums of the units and of the nanos: a carry when
\* their signs agree, otherwise one unit borrowed.
Normalize(cur, units, nanos) ==
  IF SameSign(units, nanos)
  THEN Amount(cur, units + Quotient(nanos), Remainder(nanos))
  ELSE IF units > 0
       THEN Amount(cur, units - 1, nanos + NanosMod)
       ELSE Amount(cur, units + 1, nanos - NanosMod)

\* When Sum returns an error, and the amount it returns when it does not.
SumFails(l, r) == ~IsValid(l) \/ ~IsValid(r) \/ l.currency # r.currency
Sum(l, r) == Normalize(l.currency, l.units + r.units, l.nanos + r.nanos)

-----------------------------------------------------------------------------
\* What an amount is worth, in nanos.
Worth(m) == m.units * NanosMod + m.nanos

(***************************************************************************)
(* A sum is worth what its two operands are worth, whether Sum carries or  *)
(* borrows (money.go:87-103).                                              *)
(***************************************************************************)
SumIsExact(l, r) == ~SumFails(l, r) => Worth(Sum(l, r)) = Worth(l) + Worth(r)

(***************************************************************************)
(* The sum of two valid amounts is a valid amount, which the next Sum      *)
(* accepts.  This is what the comment at money.go:95 relies on.            *)
(***************************************************************************)
SumIsValid(l, r) == ~SumFails(l, r) => IsValid(Sum(l, r))
=============================================================================
