----------------------------- MODULE MCCheckout -----------------------------
(***************************************************************************)
(* Checkout with two calls of one user: every property is about one call,  *)
(* or about two of the same user.  Two lines tell apart what races for a   *)
(* cart can do; what a producer adds to a call comes after its part in     *)
(* them, and is checked with a single line.  The process stops and starts  *)
(* only while a call is not over: after that it makes no difference.       *)
(*                                                                         *)
(* Calls and lines are numbers, used in ascending order.  Their names mean *)
(* nothing to Checkout, so this leaves out only renamings of behaviours,   *)
(* and unlike TLC's symmetry it is sound for liveness too.                 *)
(***************************************************************************)
EXTENDS Checkout

LinesUnderWay == UNION {added[u] : u \in Users} \cup {a.line : a \in adding}

MaxLines == IF kafka = "none" THEN 2 ELSE 1

InOrder ==
  /\ \A c, d \in Calls : c < d /\ pc'[d] # "idle" => pc'[c] # "idle"
  /\ \A k, l \in Lines : k < l /\ l \in LinesUnderWay' \ LinesUnderWay => k \in LinesUnderWay

Bounds ==
  /\ Cardinality(LinesUnderWay') <= MaxLines
  /\ up' = up \/ \E c \in Calls : reply[c] = "none"

BoundedSpec == Init /\ [][Next /\ Bounds /\ InOrder]_vars /\ Fairness
=============================================================================
