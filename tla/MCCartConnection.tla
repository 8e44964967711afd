-------------------------- MODULE MCCartConnection --------------------------
(***************************************************************************)
(* CartConnection with three threads, so that one waits for the lock while *)
(* another comes back to it.                                               *)
(***************************************************************************)
EXTENDS CartConnection
=============================================================================
