-------------------------- MODULE MCWriteScheduler --------------------------
(* A small instance of the write scheduler for TLC. *)
EXTENDS WriteScheduler
=============================================================================
