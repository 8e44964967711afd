-------------------------- MODULE MCFraudDetection --------------------------
(***************************************************************************)
(* FraudDetection with batches of up to two records, one slow record more  *)
(* than which is too long between polls.                                   *)
(***************************************************************************)
EXTENDS FraudDetection
=============================================================================
