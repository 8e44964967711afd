---------------------------- MODULE ReviewScores ----------------------------
(***************************************************************************)
(* The distribution of a product's review scores, as the product page      *)
(* counts and shows it                                                     *)
(* (src/src/frontend/components/ProductReviews/ProductReviews.tsx).        *)
(***************************************************************************)
EXTENDS Integers, FiniteSets

CONSTANTS Given,      \* the scores reviews give, in tenths
          MaxReviews  \* bound: reviews of a product

VARIABLE counts       \* how many of the reviews counted show each score

Scores == 1 .. 5
\* The five of them added up.
Total(c) == c[1] + c[2] + c[3] + c[4] + c[5]

Init == counts = [s \in Scores |-> 0]

\* Math.round, then clamp to the scores there are.
Shown(tenths) ==
  LET rounded == (tenths + 5) \div 10
  IN  IF rounded < 1 THEN 1 ELSE IF rounded > 5 THEN 5 ELSE rounded

Count(tenths) ==
  /\ Total(counts) < MaxReviews
  /\ counts' = [counts EXCEPT ![Shown(tenths)] = @ + 1]

Next == \E tenths \in Given : Count(tenths)

Spec == Init /\ [][Next]_counts

-----------------------------------------------------------------------------
(* The percentages of the distribution. *)

(***************************************************************************)
(* A share of the reviews in percent, rounded down.  The code divides and  *)
(* multiplies doubles: a share that is a whole percent may come out a bit  *)
(* below it (0.29 * 100), the shares in low, and is then rounded down to   *)
(* one less, with a fraction of almost one.                                *)
(***************************************************************************)
Whole(c) == {s \in Scores : c[s] > 0 /\ (c[s] * 100) % Total(c) = 0}
Floor(c, low, s) == ((c[s] * 100) \div Total(c)) - (IF s \in low THEN 1 ELSE 0)
Fraction(c, low, s) == IF s \in low THEN Total(c) ELSE (c[s] * 100) % Total(c)

Missing(c, low) == 100 - Total([s \in Scores |-> Floor(c, low, s)])

\* Mutant of Raised: each share is rounded for itself.
RaisedByHalves(c, low) == {{s \in Scores : 2 * Fraction(c, low, s) >= Total(c)}}

\* What is missing to 100 goes to the largest fractions, one each.  Which of
\* two equal ones is the larger as a double is left open.
Raised(c, low) ==
  {R \in SUBSET Scores :
     /\ Cardinality(R) = Missing(c, low)
     /\ \A s \in R, t \in Scores \ R : Fraction(c, low, s) >= Fraction(c, low, t)}

Percents(c, low, R) ==
  [s \in Scores |-> Floor(c, low, s) + (IF s \in R THEN 1 ELSE 0)]

-----------------------------------------------------------------------------
(***************************************************************************)
(* After any reviews, the percentages shown (ProductReviews.tsx:36-53) add *)
(* up to 100, none is off by a whole percent, and no score without a       *)
(* review shows one, however the doubles are rounded.                      *)
(***************************************************************************)
PercentsAddUp ==
  Total(counts) > 0 =>
    \A low \in SUBSET Whole(counts) :
      /\ Raised(counts, low) # {}
      /\ \A R \in Raised(counts, low) :
           LET shown == Percents(counts, low, R)
           IN  /\ Total(shown) = 100
               /\ \A s \in Scores :
                    /\ (shown[s] - 1) * Total(counts) < counts[s] * 100
                    /\ (shown[s] + 1) * Total(counts) > counts[s] * 100
                    /\ counts[s] = 0 => shown[s] = 0
=============================================================================
