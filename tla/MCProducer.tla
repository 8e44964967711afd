----------------------------- MODULE MCProducer -----------------------------
(***************************************************************************)
(* Producer on an instance where everybody waits while the pipeline is     *)
(* full: six senders, of whom four only take successes.                    *)
(***************************************************************************)
EXTENDS Producer
=============================================================================
