---------------------------- MODULE MCAccounting ----------------------------
(***************************************************************************)
(* Accounting during a rollout, with an old and a new replica: two         *)
(* messages of orders that can be stored, the same one or two, and one     *)
(* message that cannot, anywhere between them.                             *)
(*                                                                         *)
(* The orders are numbers, and those that can be stored are published for  *)
(* the first time in ascending order: their names mean nothing to          *)
(* Accounting, so that this leaves out only renamings of behaviours.       *)
(***************************************************************************)
EXTENDS Accounting

Published == {log[i] : i \in Indexes}

InOrder ==
  \A o, p \in Orders \ Unstorable : o < p /\ p \in Published' => o \in Published'

Bounds ==
  LET bad == {i \in Indexes' : log'[i] \in Unstorable}
  IN  Cardinality(bad) <= 1 /\ Cardinality(Indexes' \ bad) <= 2

BoundedSpec == Init /\ [][Next /\ Bounds /\ InOrder]_vars /\ Fairness
=============================================================================
